---------------------------- MODULE FailureDebug ----------------------------
(***************************************************************************)
(* The debugger of failed tasks (app/service/failure_debug.py and          *)
(* app/api/failure_debug.py) with the threads that notify it               *)
(* (_dispatch_failure_debug of celery_tasks.py and of scheduler_v3.py).    *)
(*                                                                         *)
(* The notifier of a failure posts the task to the debugger, up to Tries   *)
(* times.  A request writes the row of the report and puts the task into   *)
(* a queue in memory; one worker thread takes the tasks from it, has the   *)
(* agent write the report, and stores it.  Requests, the worker and the    *)
(* users' deletions meet in the row.                                       *)
(*                                                                         *)
(* A transaction is one step from its read to its commit only where        *)
(* nothing can come between; otherwise the read and the commit are two.    *)
(***************************************************************************)
EXTENDS Integers, SequencesExt

CONSTANTS
  Tasks,
  Tries,      \* posts of a notifier (three in the code)
  MaxFails,   \* bound: failures of tasks, all together
  MaxPosts,   \* bound: posts of all notifiers
  MaxFaults,  \* bound: deaths of the debugger and of notifiers, transactions that raise
  Bound       \* whether the service has a session: failure_debug.py copies _SessionLocal when it
              \* is imported, which is before init_db where the process runs tasks too (role all)

ASSUME DebugAssumption ==
  /\ Bound \in BOOLEAN
  /\ IsFiniteSet(Tasks) /\ Tasks # {}
  /\ Tries \in Nat \ {0} /\ MaxFails \in Nat /\ MaxPosts \in Nat /\ MaxFaults \in Nat

VARIABLES
  failed,     \* the tasks whose status is failed or error, the only ones with an error text
  fails,      \* failures so far
  row,        \* status of the task's secflow_app_sa_failure_debug row; none: no row
  up,         \* the debugger: down, boot, swept (after the reset), up
  queue,      \* of the service
  worker,     \* its thread: where it is, the task, whether its session holds the task's row,
              \* none, or one that is gone
  notifier,   \* for each failure: the task, where it is, its posts
  request,    \* for each failure and post: where the request is
  stranded,   \* history: tasks whose row is left as it is because a transaction of the
              \* service raised, or the service has no session
  faults

tasks    == <<failed, fails>>
debugger == <<up, queue, worker>>
notices  == <<notifier, request>>
vars     == <<tasks, row, debugger, notices, stranded, faults>>

Rows    == {"none", "pending", "running", "done", "skipped", "error"}
Failure == 1 .. MaxFails
Resting == [at |-> "idle", task |-> CHOOSE t \in Tasks : TRUE, holds |-> "none"]

Hands     == [at : {"idle", "write", "refresh", "collect", "work", "skipped", "done", "fail"},
              task : Tasks, holds : {"none", "row", "gone"}]
Notifiers == [at : {"none", "check", "post", "wait", "end"}, task : Tasks, posts : 0 .. Tries]
Requests  == {"none", "read", "insert", "reset", "late", "queue", "yes", "no"}

TypeOK ==
  /\ failed \subseteq Tasks /\ fails \in 0 .. MaxFails
  /\ row \in [Tasks -> Rows]
  /\ up \in {"down", "boot", "swept", "up"} /\ queue \in Seq(Tasks)
  /\ worker \in Hands /\ notifier \in [Failure -> Notifiers]
  /\ request \in [Failure \X (1 .. Tries) -> Requests]
  /\ stranded \subseteq Tasks
  /\ faults \in 0 .. MaxFaults

Init ==
  /\ failed = {} /\ fails = 0
  /\ row = [t \in Tasks |-> "none"]
  /\ up = "down" /\ queue = <<>> /\ worker = Resting
  /\ notifier = [k \in Failure |-> [at |-> "none", task |-> Resting.task, posts |-> 0]]
  /\ request = [p \in Failure \X (1 .. Tries) |-> "none"]
  /\ stranded = {} /\ faults = 0

Fault == faults < MaxFaults /\ faults' = faults + 1

-----------------------------------------------------------------------------
(* Tasks and their users.                                                  *)

\* An execution that ends with a failure gets a notifier.
Fails(t) ==
  /\ t \notin failed /\ failed' = failed \cup {t}
  /\ fails < MaxFails /\ fails' = fails + 1
  /\ notifier' = [notifier EXCEPT ![fails'] = [at |-> "check", task |-> t, posts |-> 0]]
  /\ UNCHANGED <<row, debugger, request, stranded, faults>>

\* restart_task: the task's error goes, and its directory; the report's row stays.
Restart(t) ==
  /\ t \in failed /\ failed' = failed \ {t}
  /\ UNCHANGED <<fails, row, debugger, notices, stranded, faults>>

\* delete_failure_debug_report, or delete_task, which only flags the task's own row: nothing
\* here looks at that flag.  A row made later is another one: whoever holds this one will
\* find that its UPDATE matches nothing.
DeleteReport(t) ==
  /\ row[t] # "none"
  /\ row' = [row EXCEPT ![t] = "none"]
  /\ worker' = IF worker.task = t /\ worker.holds = "row" THEN [worker EXCEPT !.holds = "gone"] ELSE worker
  /\ request' = [p \in DOMAIN request |->
                   IF request[p] = "reset" /\ notifier[p[1]].task = t THEN "late" ELSE request[p]]
  /\ UNCHANGED <<tasks, up, queue, notifier, stranded, faults>>

-----------------------------------------------------------------------------
(* The notifier of failure k.                                              *)

Went(k, at) == notifier' = [notifier EXCEPT ![k].at = at]

\* The database is asked first: only a failed task is posted.
Check(k) ==
  /\ notifier[k].at = "check"
  /\ Went(k, IF notifier[k].task \in failed THEN "post" ELSE "end")
  /\ UNCHANGED <<tasks, row, debugger, request, stranded, faults>>

\* After attempt n failed: the next one, or the end.
After(n) == IF n < Tries THEN "post" ELSE "end"

\* The request arrives, or the connection is refused.
Post(k) ==
  LET n == notifier[k].posts + 1
  IN  /\ notifier[k].at = "post" /\ SumFunction([j \in Failure |-> notifier[j].posts]) < MaxPosts
      /\ IF up # "down"
         THEN /\ notifier' = [notifier EXCEPT ![k].at = "wait", ![k].posts = n]
              /\ request' = [request EXCEPT ![<<k, n>>] = "read"]
         ELSE /\ notifier' = [notifier EXCEPT ![k].at = After(n), ![k].posts = n]
              /\ UNCHANGED request
      /\ UNCHANGED <<tasks, row, debugger, stranded, faults>>

\* The answer.  None after ten seconds: the request is left to itself and posted again.
Answer(k) ==
  /\ notifier[k].at = "wait"
  /\ LET p == <<k, notifier[k].posts>>
     IN  /\ Went(k, IF request[p] = "yes" THEN "end" ELSE After(p[2]))
         /\ request' = [request EXCEPT ![p] = IF @ \in {"yes", "no"} THEN "none" ELSE @]
  /\ UNCHANGED <<tasks, row, debugger, stranded, faults>>

\* The process with the notifier's thread dies.
NotifierDies(k) ==
  /\ notifier[k].at \in {"check", "post", "wait"} /\ Fault /\ Went(k, "end")
  /\ UNCHANGED <<tasks, row, debugger, request, stranded>>

-----------------------------------------------------------------------------
(* The request of failure k's post n (submit_failure_debug).               *)

\* What the request does about the row it read: a new one, the failed one again, the
\* pending one into the queue again; nothing about one that is done, skipped or in work.
Seen(seen) ==
  CASE seen = "none"    -> "insert"
    [] seen = "error"   -> "reset"
    [] seen = "pending" -> "queue"
    [] OTHER            -> "yes"

\* Nobody reads the answer of a request that was posted again.
Comes(k, n, at) ==
  request' = [request EXCEPT ![<<k, n>>] =
                IF at \in {"yes", "no"} /\ ~(notifier[k].at = "wait" /\ notifier[k].posts = n)
                THEN "none" ELSE at]

SubmitReads(k, n) ==
  /\ request[<<k, n>>] = "read" /\ Comes(k, n, Seen(row[notifier[k].task]))
  /\ UNCHANGED <<tasks, row, debugger, notifier, stranded, faults>>

SubmitWrites(k, n) ==
  LET t == notifier[k].task
  IN  /\ \/ request[<<k, n>>] = "insert" /\ row[t] = "none"
         \/ request[<<k, n>>] = "reset"
      /\ row' = [row EXCEPT ![t] = "pending"]
      /\ request' = [request EXCEPT ![<<k, n>>] = "queue"]
      /\ UNCHANGED <<tasks, debugger, notifier, stranded, faults>>

\* An INSERT fails when there is a row by now (UNIQUE), an UPDATE when its row is gone, and
\* any transaction when the database does.
SubmitFails(k, n) ==
  /\ \/ /\ \/ request[<<k, n>>] = "insert" /\ row[notifier[k].task] # "none"
           \/ request[<<k, n>>] = "late"
        /\ UNCHANGED faults
     \/ request[<<k, n>>] \in {"read", "insert", "reset"} /\ Fault
  /\ Comes(k, n, "no")
  /\ UNCHANGED <<tasks, row, debugger, notifier, stranded>>

\* FailureDebugService.submit.  The answer reads the row again, which may be gone.
SubmitQueues(k, n) ==
  /\ request[<<k, n>>] = "queue"
  /\ queue' = Append(queue, notifier[k].task)
  /\ \E answer \in {"yes", "no"} : Comes(k, n, answer)
  /\ UNCHANGED <<tasks, row, up, worker, notifier, stranded, faults>>

-----------------------------------------------------------------------------
(* The debugger's start and end.                                           *)

\* The bootstrap installs the routes before it starts the service.
Boot ==
  /\ up = "down" /\ up' = "boot"
  /\ UNCHANGED <<tasks, row, queue, worker, notices, stranded, faults>>

\* Mutant: the rows the last process worked at are left.
SweptNot(value) == value

\* The rows the last process worked at have failed.
Swept(value) == IF value = "running" THEN "error" ELSE value

\* _reset_stale_running_on_startup.  Without a session, or when the transaction raises, the
\* service starts all the same.
Sweep ==
  /\ up = "boot" /\ up' = "swept"
  /\ \/ Bound /\ row' = [t \in Tasks |-> Swept(row[t])] /\ UNCHANGED <<stranded, faults>>
     \/ /\ stranded' = stranded \cup {t \in Tasks : row[t] = "running"} /\ UNCHANGED row
        /\ IF Bound THEN Fault ELSE UNCHANGED faults
  /\ UNCHANGED <<tasks, queue, worker, notices>>

\* Mutant: only the rows that failed are started again.
UnfinishedErrors == {t \in Tasks : row[t] = "error"}

\* The rows _enqueue_pending_rows takes.
Unfinished == {t \in Tasks : row[t] \in {"pending", "error"}}

\* _enqueue_pending_rows, and the worker thread.
Enqueue ==
  /\ up = "swept" /\ up' = "up"
  /\ \/ /\ Bound /\ \E s \in SetToSeqs(Unfinished) : queue' = queue \o s
        /\ stranded' = stranded \ Unfinished /\ UNCHANGED faults
     \/ /\ stranded' = stranded \cup Unfinished /\ UNCHANGED queue
        /\ IF Bound THEN Fault ELSE UNCHANGED faults
  /\ UNCHANGED <<tasks, row, worker, notices>>

\* The process goes, with the queue, the worker and the requests in it.
Dies ==
  /\ up # "down" /\ Fault /\ up' = "down"
  /\ queue' = <<>> /\ worker' = Resting
  /\ request' = [p \in DOMAIN request |->
                   IF request[p] \in {"read", "insert", "reset", "late", "queue"} THEN "no" ELSE request[p]]
  /\ UNCHANGED <<tasks, row, notifier, stranded>>

-----------------------------------------------------------------------------
(* The worker thread.                                                      *)

\* _worker_loop; then _debug_one reads the row, whose status it does not look at, nor at the
\* task's.  Without a session the entry is dropped.
Take ==
  /\ up = "up" /\ worker.at = "idle" /\ queue # <<>>
  /\ LET t == Head(queue)
     IN  IF Bound
         THEN /\ worker' = [at |-> "write", task |-> t,
                            holds |-> IF row[t] = "none" THEN "none" ELSE "row"]
              /\ stranded' = stranded \ {t}
         ELSE stranded' = stranded \cup {t} /\ UNCHANGED worker
  /\ queue' = Tail(queue)
  /\ UNCHANGED <<tasks, row, up, notices, faults>>

\* A transaction outside the handler of _debug_one raises: the loop drops the entry, and the
\* row stays what it is.
Drop == Fault /\ worker' = Resting /\ stranded' = stranded \cup {worker.task} /\ UNCHANGED row

\* The row becomes running, or is made; the entry is dropped if a row was made meanwhile, or
\* the row deleted.
Begin ==
  LET t == worker.task
  IN  /\ worker.at = "write"
      /\ \/ /\ worker.holds = "row" \/ (worker.holds = "none" /\ row[t] = "none")
            /\ row' = [row EXCEPT ![t] = "running"]
            /\ worker' = [worker EXCEPT !.at = "refresh", !.holds = "row"]
            /\ UNCHANGED <<stranded, faults>>
         \/ /\ worker.holds = "gone" \/ (worker.holds = "none" /\ row[t] # "none")
            /\ worker' = Resting /\ UNCHANGED <<row, stranded, faults>>
         \/ Drop
      /\ UNCHANGED <<tasks, up, queue, notices>>

\* db.refresh, after the commit and before the handler.
Refresh ==
  /\ worker.at = "refresh"
  /\ \/ /\ worker' = IF worker.holds = "row" THEN [worker EXCEPT !.at = "collect"] ELSE Resting
        /\ UNCHANGED <<row, stranded, faults>>
     \/ Drop
  /\ UNCHANGED <<tasks, up, queue, notices>>

Goes(at) == worker' = [worker EXCEPT !.at = at]

\* _collect_context and _external_error_reason: an error of the surroundings is skipped.  A
\* task restarted by now has no error to look at.
Collect ==
  /\ worker.at = "collect"
  /\ Goes("work") \/ (worker.task \in failed /\ Goes("skipped")) \/ Goes("fail")
  /\ UNCHANGED <<tasks, row, up, queue, notices, stranded, faults>>

\* _run_llm_debug and _save_report: the agent's turns, then the files, whose directory is
\* made where it is gone.  No model, an error of the agent or of the file system fails it.
Work ==
  /\ worker.at = "work"
  /\ Goes("done") \/ Goes("fail")
  /\ UNCHANGED <<tasks, row, up, queue, notices, stranded, faults>>

\* The row is done or skipped; the commit fails if it is gone, or the database does.
Store ==
  /\ worker.at \in {"skipped", "done"}
  /\ \/ /\ worker.holds = "row" /\ worker' = Resting
        /\ row' = [row EXCEPT ![worker.task] = worker.at] /\ UNCHANGED faults
     \/ worker.holds = "gone" /\ Goes("fail") /\ UNCHANGED <<row, faults>>
     \/ Fault /\ Goes("fail") /\ UNCHANGED row
  /\ UNCHANGED <<tasks, up, queue, notices, stranded>>

\* Mutant: an error of the report leaves the row as it is.
FailedSilently == worker' = Resting /\ UNCHANGED <<row, stranded, faults>>

\* The handler of _debug_one looks the row up by its task: it may be another one by now.
Failed ==
  \/ /\ row' = [row EXCEPT ![worker.task] = IF @ = "none" THEN @ ELSE "error"]
     /\ worker' = Resting /\ UNCHANGED <<stranded, faults>>
  \/ Drop

Handle == worker.at = "fail" /\ Failed /\ UNCHANGED <<tasks, up, queue, notices>>

Request(k, n) ==
  SubmitReads(k, n) \/ SubmitWrites(k, n) \/ SubmitFails(k, n) \/ SubmitQueues(k, n)
Start  == Boot \/ Sweep \/ Enqueue
Thread == Take \/ Begin \/ Refresh \/ Collect \/ Work \/ Store \/ Handle
Notify(k) == Check(k) \/ Post(k) \/ Answer(k)
Users == \E t \in Tasks : Fails(t) \/ Restart(t) \/ DeleteReport(t)

Next ==
  \/ Users \/ Start \/ Dies \/ Thread
  \/ \E k \in Failure : \/ Notify(k) \/ NotifierDies(k)
                        \/ \E n \in 1 .. Tries : Request(k, n)

\* The debugger's pod is started again, its threads go on, calls of the agent end (they
\* have timeouts) and so do requests.
Fairness ==
  /\ WF_vars(Start) /\ WF_vars(Thread)
  /\ \A k \in Failure : WF_vars(Notify(k)) /\ \A n \in 1 .. Tries : WF_vars(Request(k, n))

Spec == Init /\ [][Next]_vars /\ Fairness

-----------------------------------------------------------------------------
(* Properties.                                                             *)

\* A row says running only while the worker has its task, unless the debugger has not swept
\* yet or a transaction of its own raised: requests refuse such a row, so nothing else would
\* take it up before the next start.
RunningIsWorked ==
  \A t \in Tasks : row[t] = "running" /\ up \in {"swept", "up"} =>
    t \in stranded \/ (worker.task = t /\ worker.at # "idle")

\* A pending row is never forgotten: its task is in the queue, or about to be put there, or
\* in the worker's hands, until the next start; but for a transaction that raised.
PendingIsCarried ==
  \A t \in Tasks : row[t] = "pending" /\ up = "up" =>
    \/ t \in ToSet(queue) \cup stranded
    \/ worker.task = t /\ worker.at # "idle"
    \/ \E k \in Failure, n \in 1 .. Tries : notifier[k].task = t /\ request[<<k, n>>] = "queue"

\* A report that was asked for comes to an end.
ReportEnds ==
  \A t \in Tasks :
    row[t] \in {"pending", "running"} ~> row[t] \notin {"pending", "running"} \/ t \in stranded

(* Statements the code does not keep (README, section 4).                  *)

\* The same whatever raises: a row says running only while the worker has its task.
RunningIsNeverLeft ==
  \A t \in Tasks : row[t] = "running" /\ up \in {"swept", "up"} =>
    worker.task = t /\ worker.at # "idle"

\* A service that has started serves what it takes from its queue.
TakenIsServed == [][faults' = faults /\ up = "up" /\ up' = "up" => stranded' \subseteq stranded]_vars

\* A report that is done is not made again.
DoneIsNotRepeated == [][\A t \in Tasks : row[t] = "done" => row'[t] \in {"done", "none"}]_vars

\* A report whose row a user deleted is not made by the worker, only by a new request.
DeletedStaysAway ==
  [][\A t \in Tasks : row[t] = "none" /\ row'[t] # "none" => UNCHANGED worker]_vars
=============================================================================
