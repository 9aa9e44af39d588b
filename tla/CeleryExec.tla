----------------------------- MODULE CeleryExec -----------------------------
(***************************************************************************)
(* The Celery execution path: API handlers, the dispatcher side-car and    *)
(* the worker pods share one database row per task, one Redis queue and    *)
(* one artifact directory per task.                                        *)
(*                                                                         *)
(* Source: app/dispatcher.py, app/celery_tasks.py, app/celery_app.py,      *)
(* app/service/execution_coordinator.py, and the parts of task_runner.py,  *)
(* task_repository.py, task_service.py and task_workspace.py they call.    *)
(*                                                                         *)
(* An action is one database transaction, one queue operation or one       *)
(* change of the artifact directory.  A value that the code reads in one   *)
(* transaction and uses in a later one is kept in the reader's state.      *)
(*                                                                         *)
(* A pod runs one Celery child at a time (-c 1) and all its children have  *)
(* the pod's name as WORKER_ID, so a worker stands for a pod.  The model   *)
(* assumes that WORKER_ID (SA_POD_NAME or HOSTNAME) and WORKER_INSTANCE_ID *)
(* (POD_NAME) name the same pod, as they do under Kubernetes; otherwise    *)
(* every execution fails in _prepare_task_execution.                       *)
(***************************************************************************)
EXTENDS Naturals, FiniteSets

CONSTANTS
  Tasks,       \* task ids
  Workers,     \* worker pods
  Requests,    \* API handler threads
  None,        \* SQL NULL, and "no task"
  Outcomes,    \* how a pipeline may end, a subset of Endings
  MaxPublish,  \* bound: how many messages the dispatcher publishes
  Faults       \* the combinations of faults and API calls, each a budget

Budgets == [crash : Nat,      \* worker children killed by the kernel or a node
            redeliver : Nat,  \* messages the broker delivers again
            restart : Nat,    \* dispatcher restarts
            stall : Nat,      \* heartbeats or inspect replies that come too late
            scan : Nat,       \* rounds of the stale scan
            early : Nat,      \* of those, rounds that start while no row is orphaned
            request : Nat,    \* API calls
            db : Nat]         \* transactions that raise

\* Orchestrator.execute returns a TaskResult with one of three statuses or raises.
Endings == {"passed", "failed", "error", "raised"}

ASSUME ConstantsAssumption ==
  /\ None \notin Tasks \cup Workers
  /\ Outcomes \subseteq Endings
  /\ MaxPublish \in Nat
  /\ Faults \subseteq Budgets

Active   == {"pending", "running"}
Terminal == {"passed", "failed", "error", "cancelled"}
Statuses == Active \cup Terminal

\* The columns of app_sa_task that some guard of this path reads.
\* cid is celery_task_id (0 is NULL), disp dispatcher_instance_id, lepoch
\* lease_epoch.  hb is the age of execution_heartbeat_at against
\* STALE_HEARTBEAT_SECONDS, lease that of execution_lease_until against now.
Row == [status : Statuses, deleted : BOOLEAN, cid : 0 .. MaxPublish,
        owner : Workers \cup {None}, epoch : Nat, cv : Nat,
        lease : {"none", "live", "expired"}, hb : {"none", "fresh", "stale"},
        disp : Workers \cup {None}, lepoch : Nat]

NewRow == [status |-> "pending", deleted |-> FALSE, cid |-> 0, owner |-> None,
           epoch |-> 0, cv |-> 0, lease |-> "none", hb |-> "none",
           disp |-> None, lepoch |-> 0]

Message == [id : 1 .. MaxPublish, task : Tasks]

\* Where a Celery child is inside run_sa_task.
Labels == {"idle", "read", "cas", "reload", "clean", "setup", "begin",
           "prepare", "snapshot", "run", "persist", "error", "write",
           "archive", "commit", "recover"}

Child == [pc : Labels, task : Tasks \cup {None}, id : 0 .. MaxPublish,
          epoch : Nat, cv : Nat, seen : Row, beat : BOOLEAN, stop : BOOLEAN,
          out : Endings \cup {"none"}]

Idle == [pc |-> "idle", task |-> None, id |-> 0, epoch |-> 0, cv |-> 0,
         seen |-> NewRow, beat |-> FALSE, stop |-> FALSE, out |-> "none"]

Request == [pc : {"idle", "cancel", "cancelled", "bump",
                  "stop", "stopped", "clean", "requeue", "requeued", "rebump",
                  "auto", "autoed", "mark"},
            task : Tasks \cup {None}, seen : Row]

NoRequest == [pc |-> "idle", task |-> None, seen |-> NewRow]

VARIABLES
  row,        \* the database: one row per task
  queue,      \* messages in Redis that no worker holds
  published,  \* messages published so far; also the last celery id
  revoked,    \* celery ids that have been revoked
  child,      \* the Celery child of every pod
  artifacts,  \* the pod whose files the task's run/ and output/ hold
  pump,       \* the dispatcher's pump thread
  scan,       \* the dispatcher's stale thread
  req,        \* the API handlers
  budget,     \* what is left of the budget
  claimant    \* history: the last pod whose claim of the task succeeded

dispatcher == <<pump, scan>>
vars == <<row, queue, published, revoked, child, artifacts, pump, scan, req,
          budget, claimant>>

NoPump == [pc |-> "idle", batch |-> {}, task |-> None]
NoScan == [pc |-> "idle", active |-> {}, victims |-> {},
           seen |-> [t \in Tasks |-> NewRow]]

TypeOK ==
  /\ row \in [Tasks -> Row]
  /\ queue \subseteq Message
  /\ published \in 0 .. MaxPublish
  /\ revoked \subseteq 1 .. MaxPublish
  /\ child \in [Workers -> Child]
  /\ artifacts \in [Tasks -> Workers \cup {None}]
  /\ pump \in [pc : {"idle", "publish", "record"}, batch : SUBSET Tasks,
               task : Tasks \cup {None}]
  /\ scan \in [pc : {"idle", "query", "flush"}, active : SUBSET (1 .. MaxPublish),
               victims : SUBSET Tasks, seen : [Tasks -> Row]]
  /\ req \in [Requests -> Request]
  /\ budget \in Budgets
  /\ claimant \in [Tasks -> Workers \cup {None}]

Init ==
  /\ row = [t \in Tasks |-> NewRow]
  /\ queue = {}
  /\ published = 0
  /\ revoked = {}
  /\ child = [w \in Workers |-> Idle]
  /\ artifacts = [t \in Tasks |-> None]
  /\ pump = NoPump
  /\ scan = NoScan
  /\ req = [r \in Requests |-> NoRequest]
  /\ budget \in Faults
  /\ claimant = [t \in Tasks |-> None]

-----------------------------------------------------------------------------
(* Writing rows.                                                           *)

\* A SQLAlchemy flush: of an object loaded as "seen" and changed to "new",
\* only the columns that changed are written, over whatever the row holds by
\* now.  There is no WHERE clause besides the primary key.
Flush(cur, seen, new) ==
  [status  |-> IF new.status  = seen.status  THEN cur.status  ELSE new.status,
   deleted |-> IF new.deleted = seen.deleted THEN cur.deleted ELSE new.deleted,
   cid     |-> IF new.cid     = seen.cid     THEN cur.cid     ELSE new.cid,
   owner   |-> IF new.owner   = seen.owner   THEN cur.owner   ELSE new.owner,
   epoch   |-> IF new.epoch   = seen.epoch   THEN cur.epoch   ELSE new.epoch,
   cv      |-> IF new.cv      = seen.cv      THEN cur.cv      ELSE new.cv,
   lease   |-> IF new.lease   = seen.lease   THEN cur.lease   ELSE new.lease,
   hb      |-> IF new.hb      = seen.hb      THEN cur.hb      ELSE new.hb,
   disp    |-> IF new.disp    = seen.disp    THEN cur.disp    ELSE new.disp,
   lepoch  |-> IF new.lepoch  = seen.lepoch  THEN cur.lepoch  ELSE new.lepoch]

\* What each writer sets.
Unowned(r)     == [r EXCEPT !.owner = None, !.lease = "none"]
Released(r)    == [Unowned(r) EXCEPT !.hb = "none", !.cid = 0]
\* Mutants of Reset: a status nobody handles; the status is forgotten.
ResetToQueued(r) == [Unowned(r) EXCEPT !.status = "queued", !.cid = 0]
ResetOwnerOnly(r) == [Unowned(r) EXCEPT !.cid = 0]
Reset(r)       == [Unowned(r) EXCEPT !.status = "pending", !.cid = 0]
Cancelled(r)   == [r EXCEPT !.status = "cancelled", !.disp = None]
Requeued(r)    == [r EXCEPT !.status = "pending", !.disp = None]
Invalidated(r) == [Released(r) EXCEPT !.epoch = @ + 1, !.cv = @ + 1]
Finished(r, s) == [Released(r) EXCEPT !.status = s, !.disp = None]

\* The WHERE clauses of the compare-and-swap updates.
OwnedBy(r, w) ==  \* owner and epoch are those of w's claim
  /\ ~ r.deleted
  /\ r.owner = w
  /\ r.epoch = child[w].epoch

LeasedBy(r, w) ==  \* the same, on the older pair of columns
  /\ r.disp = w
  /\ r.lepoch = child[w].epoch

\* Mutant of Claimable: a running task is claimable whatever its lease.
ClaimableAnyLease(r) == ~ r.deleted /\ r.status \in Active
Claimable(r) ==
  /\ ~ r.deleted
  /\ \/ r.status = "pending"
     \/ r.status = "running" /\ r.lease # "live"

-----------------------------------------------------------------------------
(* The worker: run_sa_task, in program order.                              *)

Task(w) == child[w].task
Goto(w, label) == child' = [child EXCEPT ![w].pc = label]
Spend(kind) == budget[kind] > 0 /\ budget' = [budget EXCEPT ![kind] = @ - 1]

\* A message is delivered.  Its id stays with the child until it is acked.
Receive(w) ==
  /\ child[w].pc = "idle"
  /\ \E m \in queue :
       /\ queue' = queue \ {m}
       /\ child' = [child EXCEPT ![w] = [Idle EXCEPT !.pc = "read",
                                           !.task = m.task, !.id = m.id]]
  /\ UNCHANGED <<row, published, revoked, artifacts, dispatcher, req, budget, claimant>>

\* A worker that knows the id is revoked discards the message.
DiscardRevoked(w) ==
  /\ child[w].pc = "idle"
  /\ \E m \in queue : m.id \in revoked /\ queue' = queue \ {m}
  /\ UNCHANGED <<row, published, revoked, child, artifacts, dispatcher, req, budget, claimant>>

\* claim_specific_task reads the candidate row and skips the message if the
\* task is not claimable.  Of the candidate it uses status and epoch.
ClaimRead(w) ==
  LET r == row[Task(w)]
  IN  /\ child[w].pc = "read"
      /\ child' = [child EXCEPT ![w] =
           IF Claimable(r)
             THEN [@ EXCEPT !.pc = "cas",
                            !.seen = [NewRow EXCEPT !.status = r.status, !.epoch = r.epoch]]
             ELSE Idle]
      /\ UNCHANGED <<row, queue, published, revoked, artifacts, dispatcher, req, budget, claimant>>

\* Its update: the status must be the one read and a running row's lease must
\* still be expired.  The new epoch is one more than the epoch read.
ClaimMatchesAnyStatus(w) == ~ row[Task(w)].deleted  \* mutant: only the key is matched
ClaimMatches(w) ==
  LET r == row[Task(w)]
  IN  /\ Claimable(r)
      /\ r.status = child[w].seen.status

ClaimCas(w) ==
  LET t == Task(w)
      e == child[w].seen.epoch + 1
  IN  /\ child[w].pc = "cas"
      /\ \/ /\ ClaimMatches(w)
            /\ row' = [row EXCEPT ![t] =
                 [@ EXCEPT !.status = "pending", !.owner = w, !.epoch = e,
                           !.lease = "live", !.hb = "fresh", !.disp = w, !.lepoch = e]]
            /\ child' = [child EXCEPT ![w] =
                 [@ EXCEPT !.pc = "reload", !.epoch = e, !.seen = NewRow]]
            /\ claimant' = [claimant EXCEPT ![t] = w]
         \/ /\ ~ ClaimMatches(w)
            /\ child' = [child EXCEPT ![w] = Idle]
            /\ UNCHANGED <<row, claimant>>
      /\ UNCHANGED <<queue, published, revoked, artifacts, dispatcher, req, budget>>

\* The commit has expired the candidate object, so its control_version is
\* loaded again when the ClaimedTask is built.
ClaimReload(w) ==
  /\ child[w].pc = "reload"
  /\ child' = [child EXCEPT ![w].pc = "clean", ![w].cv = row[Task(w)].cv]
  /\ UNCHANGED <<row, queue, published, revoked, artifacts, dispatcher, req, budget, claimant>>

\* _clean_task_artifacts leaves the files alone if another pod holds a live
\* lease on the running task.  The check and the removal are one step: what
\* follows removes the files without a check.
HeldByOther(r, w) ==
  r.status = "running" /\ r.owner \notin {None, w} /\ r.lease = "live"

CleanArtifacts(w) ==
  /\ child[w].pc = "clean"
  /\ artifacts' = [artifacts EXCEPT ![Task(w)] = IF HeldByOther(row[Task(w)], w) THEN @ ELSE None]
  /\ Goto(w, "setup")
  /\ UNCHANGED <<row, queue, published, revoked, dispatcher, req, budget, claimant>>

\* setup_local_workspace clears output/ and points run/ at the pod's own disk.
SetupWorkspace(w) ==
  /\ child[w].pc = "setup"
  /\ artifacts' = [artifacts EXCEPT ![Task(w)] = w]
  /\ Goto(w, "begin")
  /\ UNCHANGED <<row, queue, published, revoked, dispatcher, req, budget, claimant>>

\* begin_execution_if_owner; run_sa_task ignores what it returns.  The lease
\* heartbeat thread starts next.
Begin(w) ==
  LET t == Task(w)
  IN  /\ child[w].pc = "begin"
      /\ row' = [row EXCEPT ![t].status =
           IF OwnedBy(row[t], w) /\ row[t].cv = child[w].cv /\ row[t].status \in Active
             THEN "running" ELSE @]
      /\ child' = [child EXCEPT ![w].pc = "prepare", ![w].beat = TRUE]
      /\ UNCHANGED <<queue, published, revoked, artifacts, dispatcher, req, budget, claimant>>

\* One round of _lease_heartbeat.  A lost lease ends the thread, not the run.
RenewLease(w) ==
  LET t  == Task(w)
      ok == OwnedBy(row[t], w) /\ row[t].status = "running"
  IN  /\ child[w].beat
      /\ row' = [row EXCEPT ![t] =
           IF ok THEN [@ EXCEPT !.lease = "live", !.hb = "fresh"] ELSE @]
      /\ child' = [child EXCEPT ![w].beat = ok /\ row[t].cv = child[w].cv]
      /\ UNCHANGED <<queue, published, revoked, artifacts, dispatcher, req, budget, claimant>>

\* _prepare_task_execution checks the row; the agent clean-up before it, taking
\* the execution lock or loading the configuration may also raise.
Prepare(w) ==
  LET r == row[Task(w)]
  IN  /\ child[w].pc = "prepare"
      /\ \/ /\ r.status # "cancelled" /\ LeasedBy(r, w)
            /\ Goto(w, "snapshot")
         \/ Goto(w, "error")
      /\ UNCHANGED <<row, queue, published, revoked, artifacts, dispatcher, req, budget, claimant>>

\* save_resolved_config_snapshot: the last fence before the pipeline runs.
\* Building the configuration before it and writing models.json after it may raise.
FencedByStatus(w) ==  \* mutant: the lease is not compared
  ~ row[Task(w)].deleted /\ row[Task(w)].status = "running"
FencedByLease(w) ==   \* mutant: the status is not compared
  ~ row[Task(w)].deleted /\ LeasedBy(row[Task(w)], w)
Fenced(w) ==
  LET r == row[Task(w)]
  IN  ~ r.deleted /\ r.status = "running" /\ LeasedBy(r, w)

Snapshot(w) ==
  /\ child[w].pc = "snapshot"
  /\ \/ Fenced(w) /\ Goto(w, "run")
     \/ Goto(w, "error")
  /\ UNCHANGED <<row, queue, published, revoked, artifacts, dispatcher, req, budget, claimant>>

\* _supervise_running_task asks the orchestrator to stop.  Its three failed
\* lease heartbeats in a row are one step.
SuperviseCancelled(w) ==  \* mutant: a lost lease goes unnoticed
  /\ child[w].pc = "run"
  /\ row[Task(w)].status = "cancelled"
  /\ child' = [child EXCEPT ![w].stop = TRUE]
  /\ UNCHANGED <<row, queue, published, revoked, artifacts, dispatcher, req, budget, claimant>>
Supervise(w) ==
  /\ child[w].pc = "run"
  /\ ~ Fenced(w)
  /\ child' = [child EXCEPT ![w].stop = TRUE]
  /\ UNCHANGED <<row, queue, published, revoked, artifacts, dispatcher, req, budget, claimant>>

\* Orchestrator.execute returns a result, or raises (a stopped pipeline ends
\* as failed or error, or raises while it packs files that are gone).
RunEnds(w, out) ==
  /\ child[w].pc = "run"
  /\ child' = [child EXCEPT ![w].pc = IF out = "raised" THEN "error" ELSE "persist",
                            ![w].out = out, ![w].stop = FALSE]
  /\ UNCHANGED <<row, queue, published, revoked, artifacts, dispatcher, req, budget, claimant>>

RunCompletes(w) == \E out \in Outcomes : RunEnds(w, out)
RunStopped(w) == child[w].stop /\ \E out \in Outcomes \ {"passed"} : RunEnds(w, out)

\* _persist_task_result: finalize_task_result is fenced; a transaction that
\* raises is handled by execute_task's except clause.
PersistResult(w) ==
  /\ child[w].pc = "persist"
  /\ \/ /\ row' = [row EXCEPT ![Task(w)] =
             IF Fenced(w) THEN Finished(@, child[w].out) ELSE @]
        /\ child' = [child EXCEPT ![w].pc = "archive", ![w].beat = FALSE]
        /\ UNCHANGED budget
     \/ /\ Spend("db")
        /\ child' = [child EXCEPT ![w].pc = "error", ![w].out = "raised"]
        /\ UNCHANGED row
  /\ UNCHANGED <<queue, published, revoked, artifacts, dispatcher, req, claimant>>

\* finalize_task_error reads the row again; unless it is running nothing is
\* written.  An exception here is swallowed by _persist_task_error.
ErrorRead(w) ==
  LET r == row[Task(w)]
  IN  /\ child[w].pc = "error"
      /\ \/ /\ child' = [child EXCEPT ![w] =
                 IF r.status = "running"
                   THEN [@ EXCEPT !.pc = "write", !.seen = r, !.out = "raised"]
                   ELSE [@ EXCEPT !.pc = "archive", !.beat = FALSE, !.out = "raised"]]
            /\ UNCHANGED budget
         \/ /\ Spend("db")
            /\ child' = [child EXCEPT ![w] =
                 [@ EXCEPT !.pc = "archive", !.beat = FALSE, !.out = "raised"]]
      /\ UNCHANGED <<row, queue, published, revoked, artifacts, dispatcher, req, claimant>>

\* The row object is marked as an error before lease_epoch is compared.  With
\* the child's own epoch finalize_task_error commits it; with another epoch it
\* returns False and _persist_task_error commits it with the cleanup report.
ErrorWrite(w) ==
  LET t == Task(w)
      s == child[w].seen
  IN  /\ child[w].pc = "write"
      /\ \/ /\ row' = [row EXCEPT ![t] = Flush(@, s, Finished(s, "error"))]
            /\ UNCHANGED budget
         \/ Spend("db") /\ UNCHANGED row
      /\ child' = [child EXCEPT ![w] =
           [@ EXCEPT !.pc = "archive", !.seen = NewRow, !.beat = FALSE]]
      /\ UNCHANGED <<queue, published, revoked, artifacts, dispatcher, req, claimant>>

\* finalize_workspace copies the pod's files over the task directory.
Archive(w) ==
  /\ child[w].pc = "archive"
  /\ artifacts' = [artifacts EXCEPT ![Task(w)] = w]
  /\ Goto(w, "commit")
  /\ UNCHANGED <<row, queue, published, revoked, dispatcher, req, budget, claimant>>

\* commit_terminal_state_if_owner.  execute_task has returned normally unless
\* its own finally clause raised, so the status is "passed" or "error".
MayCommitLive(w) ==       \* mutant: only under a live lease
  LET r == row[Task(w)]
  IN  OwnedBy(r, w) /\ r.cv = child[w].cv /\ r.status = "running" /\ r.lease = "live"
MayCommitAnyStatus(w) ==  \* mutant: the status is not compared
  OwnedBy(row[Task(w)], w) /\ row[Task(w)].cv = child[w].cv
MayCommit(w) ==
  LET r == row[Task(w)]
  IN  OwnedBy(r, w) /\ r.cv = child[w].cv /\ r.status = "running"

CommitTerminal(w) ==
  LET t == Task(w)
  IN  /\ child[w].pc = "commit"
      /\ IF MayCommit(w)
           THEN /\ \E s \in {"passed", "error"} :
                     row' = [row EXCEPT ![t] = [Released(@) EXCEPT !.status = s]]
                /\ child' = [child EXCEPT ![w] = Idle]
           ELSE /\ Goto(w, "recover")
                /\ UNCHANGED row
      /\ UNCHANGED <<queue, published, revoked, artifacts, dispatcher, req, budget, claimant>>

\* recover_running_task_for_cleanup, then the message is acked.
Recover(w) ==
  LET t == Task(w)
  IN  /\ child[w].pc = "recover"
      /\ row' = [row EXCEPT ![t] =
           IF MayCommit(w) THEN [Released(@) EXCEPT !.status = "pending"] ELSE @]
      /\ child' = [child EXCEPT ![w] = Idle]
      /\ UNCHANGED <<queue, published, revoked, artifacts, dispatcher, req, budget, claimant>>

\* One of these two transactions raises.  run_sa_task logs it and ends as if it
\* had committed; the row stays as it is.
LastCommitFails(w) ==
  /\ child[w].pc \in {"commit", "recover"}
  /\ Spend("db")
  /\ child' = [child EXCEPT ![w] = Idle]
  /\ UNCHANGED <<row, queue, published, revoked, artifacts, dispatcher, req, claimant>>

-----------------------------------------------------------------------------
(* Faults around the worker.                                               *)

\* The child dies, or a transaction of claim or begin raises and run_sa_task
\* ends.  The message is acked (task_reject_on_worker_lost=False).
Crash(w) ==
  /\ child[w].pc # "idle"
  /\ Spend("crash")
  /\ child' = [child EXCEPT ![w] = Idle]
  /\ UNCHANGED <<row, queue, published, revoked, artifacts, dispatcher, req, claimant>>

\* revoke(terminate=True) reaches the pod and SIGKILLs the child.
Terminate(w) ==
  /\ child[w].id \in revoked
  /\ child' = [child EXCEPT ![w] = Idle]
  /\ UNCHANGED <<row, queue, published, revoked, artifacts, dispatcher, req, budget, claimant>>

\* acks_late=True: an unacked message is put back when the connection to Redis
\* is lost, while the child goes on.
Redeliver(w) ==
  /\ child[w].pc # "idle"
  /\ Spend("redeliver")
  /\ queue' = queue \cup {[id |-> child[w].id, task |-> Task(w)]}
  /\ UNCHANGED <<row, published, revoked, child, artifacts, dispatcher, req, claimant>>

\* Time passes.  A working heartbeat thread renews every 60 s, so a beating
\* row only ages when the thread or the database stalls.
Beating(t) ==
  \E w \in Workers :
    /\ child[w].beat /\ Task(w) = t
    /\ OwnedBy(row[t], w) /\ row[t].status = "running"

HeartbeatAges(t) ==
  /\ row[t].hb = "fresh"
  /\ IF Beating(t) THEN Spend("stall") ELSE UNCHANGED budget
  /\ row' = [row EXCEPT ![t].hb = "stale"]
  /\ UNCHANGED <<queue, published, revoked, child, artifacts, dispatcher, req, claimant>>

\* LEASE_TTL_SECONDS (300) is longer than STALE_HEARTBEAT_SECONDS (120) and
\* both start when the heartbeat is written.
LeaseExpires(t) ==
  /\ row[t].lease = "live" /\ row[t].hb # "fresh"
  /\ row' = [row EXCEPT ![t].lease = "expired"]
  /\ UNCHANGED <<queue, published, revoked, child, artifacts, dispatcher, req, budget, claimant>>

-----------------------------------------------------------------------------
(* The dispatcher.                                                         *)

\* _pump_once: one query, then one message and one commit per row.
PumpQuery ==
  LET due == {t \in Tasks : row[t].status = "pending" /\ ~ row[t].deleted /\ row[t].cid = 0}
  IN  /\ pump.pc = "idle" /\ due # {}
      /\ pump' = [pump EXCEPT !.pc = "publish", !.batch = due]
      /\ UNCHANGED <<row, queue, published, revoked, child, artifacts, scan, req, budget, claimant>>

PumpPublish ==
  /\ pump.pc = "publish" /\ published < MaxPublish
  /\ published' = published + 1
  /\ \E t \in pump.batch :
       /\ queue' = queue \cup {[id |-> published + 1, task |-> t]}
       /\ pump' = [pc |-> "record", batch |-> pump.batch \ {t}, task |-> t]
  /\ UNCHANGED <<row, revoked, child, artifacts, scan, req, budget, claimant>>

PumpRecord ==
  /\ pump.pc = "record"
  /\ row' = [row EXCEPT ![pump.task].cid = published]
  /\ pump' = [pump EXCEPT !.pc = IF pump.batch = {} THEN "idle" ELSE "publish", !.task = None]
  /\ UNCHANGED <<queue, published, revoked, child, artifacts, scan, req, budget, claimant>>

\* delay() or the commit raises: the rest of the batch waits for the next loop.
PumpAbort ==
  /\ pump.pc # "idle"
  /\ Spend("db")
  /\ pump' = NoPump
  /\ UNCHANGED <<row, queue, published, revoked, child, artifacts, scan, req, claimant>>

\* A running row is orphaned unless its message is among the active ids and
\* its heartbeat is fresh.
Orphaned(r, active) ==
  /\ r.status = "running" /\ ~ r.deleted
  /\ ~ (r.cid \in active /\ r.hb = "fresh")

ActiveOn(pods) == {child[w].id : w \in {v \in pods : child[v].pc # "idle"}}

\* _stale_once asks the pods first; a pod that answers late is left out.  The
\* loop never ends: the rounds are bounded, those that find nothing to do apart,
\* since they matter only if a row changes before the query.
ScanInspect ==
  \E pods \in SUBSET Workers :
    LET active == ActiveOn(pods)
        late   == IF pods = Workers THEN 0 ELSE 1
        early  == IF \E t \in Tasks : Orphaned(row[t], active) THEN 0 ELSE 1
    IN  /\ scan.pc = "idle"
        /\ budget.scan > 0 /\ budget.stall >= late /\ budget.early >= early
        /\ budget' = [budget EXCEPT !.scan = @ - 1, !.stall = @ - late, !.early = @ - early]
        /\ scan' = [scan EXCEPT !.pc = "query", !.active = active]
        /\ UNCHANGED <<row, queue, published, revoked, child, artifacts, pump, req, claimant>>

\* Then it reads the running rows and revokes those it will reset.
ScanQuery ==
  LET lost == {t \in Tasks : Orphaned(row[t], scan.active)}
  IN  /\ scan.pc = "query"
      /\ revoked' = revoked \cup ({row[t].cid : t \in lost} \ {0})
      /\ scan' = IF lost = {} THEN NoScan
                 ELSE [pc |-> "flush", active |-> {}, victims |-> lost,
                       seen |-> [t \in Tasks |-> IF t \in lost THEN row[t] ELSE NewRow]]
      /\ UNCHANGED <<row, queue, published, child, artifacts, pump, req, budget, claimant>>

ScanFlush ==
  /\ scan.pc = "flush"
  /\ row' = [t \in Tasks |->
       IF t \in scan.victims THEN Flush(row[t], scan.seen[t], Reset(scan.seen[t]))
                             ELSE row[t]]
  /\ scan' = NoScan
  /\ UNCHANGED <<queue, published, revoked, child, artifacts, pump, req, budget, claimant>>

\* A new dispatcher runs _startup_reset.  Redis lives in the same pod and keeps
\* nothing on disk, so the queue may be gone.
DispatcherRestart ==
  /\ Spend("restart")
  /\ queue' \in {queue, {}}
  /\ row' = [t \in Tasks |->
       IF row[t].deleted THEN row[t]
       ELSE IF row[t].status = "running" THEN Reset(row[t])
       ELSE IF row[t].status = "pending" /\ row[t].cid # 0 THEN Reset(row[t])
       ELSE row[t]]
  /\ pump' = NoPump
  /\ scan' = NoScan
  /\ UNCHANGED <<published, revoked, child, artifacts, req, claimant>>

-----------------------------------------------------------------------------
(* API handlers.  Each loads the row, changes the object and commits, twice *)
(* or three times, with a refresh after a commit.                           *)

Target(r) == req[r].task
Proceed(r, label) == req' = [req EXCEPT ![r].pc = label]

\* Start a request on a task that is not deleted; a handler that stops an
\* active task through Celery revokes its message.
Load(r, t, label, revoking) ==
  /\ req[r].pc = "idle"
  /\ ~ row[t].deleted
  /\ Spend("request")
  /\ req' = [req EXCEPT ![r] = [pc |-> label, task |-> t, seen |-> row[t]]]
  /\ revoked' = IF revoking /\ row[t].cid # 0 THEN revoked \cup {row[t].cid} ELSE revoked
  /\ UNCHANGED <<row, queue, published, child, artifacts, dispatcher, claimant>>

Save(r, new, label) ==
  /\ row' = [row EXCEPT ![Target(r)] = Flush(@, req[r].seen, new)]
  /\ req' = [req EXCEPT ![r] = IF label = "idle" THEN NoRequest ELSE [@ EXCEPT !.pc = label]]

NextLabel(label) == CASE label = "cancelled" -> "bump"
                      [] label = "stopped"   -> "clean"
                      [] label = "requeued"  -> "rebump"
                      [] label = "autoed"    -> "mark"

Refresh(r) ==
  /\ req[r].pc \in {"cancelled", "stopped", "requeued", "autoed"}
  /\ req' = [req EXCEPT ![r].seen = row[Target(r)], ![r].pc = NextLabel(@)]
  /\ UNCHANGED <<row, queue, published, revoked, child, artifacts, dispatcher, budget, claimant>>

\* cancel_task; on a terminal task it answers 409 and changes nothing.
CancelLoad(r, t) == row[t].status \in Active /\ Load(r, t, "cancel", TRUE)

CancelSave(r) ==
  /\ req[r].pc = "cancel"
  /\ Save(r, Cancelled(req[r].seen), "cancelled")
  /\ UNCHANGED <<queue, published, revoked, child, artifacts, dispatcher, budget, claimant>>

CancelInvalidate(r) ==
  /\ req[r].pc = "bump"
  /\ Save(r, Invalidated(req[r].seen), "idle")
  /\ UNCHANGED <<queue, published, revoked, child, artifacts, dispatcher, budget, claimant>>

\* restart_task stops an active task first.
RestartLoad(r, t) ==
  IF row[t].status \in Active THEN Load(r, t, "stop", TRUE) ELSE Load(r, t, "clean", FALSE)

RestartStop(r) ==
  /\ req[r].pc = "stop"
  /\ Save(r, [Invalidated(req[r].seen) EXCEPT !.status = "cancelled"], "stopped")
  /\ UNCHANGED <<queue, published, revoked, child, artifacts, dispatcher, budget, claimant>>

\* The task directory is removed; if that fails the request ends with a 500
\* and the task stays as it is.
RestartClean(r) ==
  /\ req[r].pc = "clean"
  /\ \/ /\ artifacts' = [artifacts EXCEPT ![Target(r)] = None]
        /\ Proceed(r, "requeue")
     \/ /\ req' = [req EXCEPT ![r] = NoRequest]
        /\ UNCHANGED artifacts
  /\ UNCHANGED <<row, queue, published, revoked, child, dispatcher, budget, claimant>>

RestartRequeue(r) ==
  /\ req[r].pc = "requeue"
  /\ Save(r, Requeued(req[r].seen), "requeued")
  /\ UNCHANGED <<queue, published, revoked, child, artifacts, dispatcher, budget, claimant>>

RestartInvalidate(r) ==
  /\ req[r].pc = "rebump"
  /\ Save(r, Invalidated(req[r].seen), "idle")
  /\ UNCHANGED <<queue, published, revoked, child, artifacts, dispatcher, budget, claimant>>

\* delete_task cancels an active task in the row only, then removes the files
\* and marks the row.
DeleteLoad(r, t) ==
  Load(r, t, IF row[t].status \in Active THEN "auto" ELSE "mark", FALSE)

DeleteCancel(r) ==
  /\ req[r].pc = "auto"
  /\ Save(r, Cancelled(req[r].seen), "autoed")
  /\ UNCHANGED <<queue, published, revoked, child, artifacts, dispatcher, budget, claimant>>

DeleteMark(r) ==
  /\ req[r].pc = "mark"
  /\ artifacts' = [artifacts EXCEPT ![Target(r)] = None]
  /\ Save(r, [req[r].seen EXCEPT !.deleted = TRUE], "idle")
  /\ UNCHANGED <<queue, published, revoked, child, dispatcher, budget, claimant>>

-----------------------------------------------------------------------------
\* Every step of a child except the end of the pipeline itself.
WorkerStep(w) ==
  \/ ClaimRead(w) \/ ClaimCas(w) \/ ClaimReload(w) \/ CleanArtifacts(w)
  \/ SetupWorkspace(w) \/ Begin(w) \/ Prepare(w) \/ Snapshot(w)
  \/ PersistResult(w) \/ ErrorRead(w) \/ ErrorWrite(w)
  \/ Archive(w) \/ CommitTerminal(w) \/ Recover(w)

WorkerNext(w) ==
  \/ Receive(w) \/ DiscardRevoked(w) \/ WorkerStep(w) \/ RenewLease(w)
  \/ Supervise(w) \/ RunCompletes(w) \/ RunStopped(w)
  \/ LastCommitFails(w) \/ Crash(w) \/ Terminate(w) \/ Redeliver(w)

ClockNext(t) == HeartbeatAges(t) \/ LeaseExpires(t)

PumpNext == PumpQuery \/ PumpPublish \/ PumpRecord
ScanNext == ScanInspect \/ ScanQuery \/ ScanFlush
DispatcherNext == PumpNext \/ PumpAbort \/ ScanNext \/ DispatcherRestart

RequestStep(r) ==
  \/ Refresh(r) \/ CancelSave(r) \/ CancelInvalidate(r)
  \/ RestartStop(r) \/ RestartClean(r) \/ RestartRequeue(r) \/ RestartInvalidate(r)
  \/ DeleteCancel(r) \/ DeleteMark(r)

RequestNext(r) ==
  \/ RequestStep(r)
  \/ \E t \in Tasks : CancelLoad(r, t) \/ RestartLoad(r, t) \/ DeleteLoad(r, t)

Next ==
  \/ \E w \in Workers : WorkerNext(w)
  \/ \E t \in Tasks : ClockNext(t)
  \/ DispatcherNext
  \/ \E r \in Requests : RequestNext(r)

Spec == Init /\ [][Next]_vars

\* Every loop and thread of the program keeps running, and a pipeline that was
\* told to stop ends.  Nothing forces a healthy pipeline to end (an LLM run has
\* no time limit), a fault to happen, or a request to arrive.
Fairness ==
  /\ \A w \in Workers :
       /\ WF_vars(Receive(w))
       /\ WF_vars(WorkerStep(w))
       /\ WF_vars(RenewLease(w))
       /\ WF_vars(Supervise(w))
       /\ WF_vars(RunStopped(w))
  /\ \A t \in Tasks : WF_vars(~ Beating(t) /\ ClockNext(t))
  /\ WF_vars(PumpNext)
  /\ WF_vars(ScanNext)
  /\ \A r \in Requests : WF_vars(RequestStep(r))

FairSpec == Spec /\ Fairness

-----------------------------------------------------------------------------
(* Properties.                                                             *)

\* A task becomes passed or failed only by a step of the pod that was the last
\* to claim it: whatever is redelivered, reset, restarted or claimed again in
\* between, an older execution never records a result.
ResultByClaimant ==
  [][\A t \in Tasks :
       LET s == row'[t].status
       IN  (s # row[t].status /\ s \in {"passed", "failed"}) =>
             \E w \in Workers :
               /\ claimant[t] = w /\ Task(w) = t
               /\ child[w].pc \in {"persist", "commit"}
               /\ child'[w] # child[w]]_vars

\* The writers without a WHERE clause: the stale scan, the error path and the
\* API handlers.
BlindWrite ==
  \/ scan.pc = "flush" /\ scan' # scan
  \/ \E w \in Workers : child[w].pc = "write" /\ child'[w] # child[w]
  \/ \E r \in Requests : req[r].pc \in {"cancel", "stop", "requeue", "auto"} /\ req'[r] # req[r]

\* Claims, begins, renewals, results, recoveries, the pump and the startup
\* reset never take a task out of a terminal status, whatever they read before.
GuardedWritesKeepTerminal ==
  [][\A t \in Tasks :
       row[t].status \in Terminal /\ row'[t].status # row[t].status => BlindWrite]_vars

\* A pod never takes a running task over while the owner's lease is live.
NoLiveTakeover ==
  [][\A t \in Tasks :
       row[t].status = "running" /\ row[t].lease = "live" =>
         row'[t].owner \in {row[t].owner, None}]_vars

\* A running row has a child behind it that has begun it and will end it: the
\* child's claim is the row's.  Rows of tasks that a user has cancelled or
\* restarted at some time are left out (RunNotAbandoned says why).
Serving == Labels \ {"idle", "read", "cas", "reload", "clean", "setup", "begin"}
Served(t) ==
  \E w \in Workers : Task(w) = t /\ child[w].pc \in Serving /\ OwnedBy(row[t], w)
Unserved(t) ==
  row[t].status = "running" /\ ~ row[t].deleted /\ row[t].cv = 0 /\ ~ Served(t)

\* Whatever is redelivered, reset, claimed again or fails on the way to the end
\* of run_sa_task, a row runs on without a child only if the child was killed or
\* its last transaction raised.
OrphanedByKillOnly ==
  [][\A t \in Tasks :
       Unserved(t)' /\ ~ Unserved(t) =>
         \E w \in Workers :
           Task(w) = t /\ (Crash(w) \/ Terminate(w) \/ LastCommitFails(w))]_vars

\* The status and the last claimant of every task behave as TaskClaim says.
Abstract == INSTANCE TaskClaim
  WITH status <- [t \in Tasks |-> row[t].status], holder <- claimant
ImplementsTaskClaim == Abstract!Spec

\* At most one pod is inside the pipeline of a task.
NoDoubleRun ==
  \A v, w \in Workers :
    child[v].pc = "run" /\ child[w].pc = "run" /\ Task(v) = Task(w) => v = w

\* The pod that runs a task under a live lease owns the task's files.
ActiveRunKeepsArtifacts ==
  \A w \in Workers :
    child[w].pc = "run" /\ Fenced(w) /\ row[Task(w)].lease = "live" =>
      artifacts[Task(w)] = w

\* A running task whose claimant is inside the pipeline does not become an
\* error by another pod's hand.
OnlyClaimantFails ==
  [][\A t \in Tasks, w \in Workers :
       /\ row[t].status = "running" /\ row'[t].status = "error"
       /\ claimant[t] = w /\ Task(w) = t /\ child[w].pc = "run"
       => child'[w] # child[w]]_vars

\* recover_running_task_for_cleanup, by its docstring: a row that still runs under
\* the claim of the child that ends is put back.
RunNotAbandoned ==
  [][\A w \in Workers :
       Recover(w) => ~ (row'[Task(w)].status = "running" /\ OwnedBy(row'[Task(w)], w))]_vars

\* A task is recorded as passed only if its pipeline ended as passed.
PassedMeansPassed ==
  [][\A t \in Tasks :
       row[t].status # "passed" /\ row'[t].status = "passed" =>
         \E w \in Workers : Task(w) = t /\ child[w].out = "passed"]_vars

\* The stale scan resets running tasks only.
StaleResetsOnlyRunning ==
  [][\A t \in Tasks :
       ScanFlush /\ row'[t].status # row[t].status => row[t].status = "running"]_vars

\* A pending task whose message was published is begun, or published again.
PublishedIsServed ==
  \A t \in Tasks : \A c \in 1 .. MaxPublish :
    (row[t].status = "pending" /\ row[t].cid = c)
      ~> (row[t].status # "pending" \/ row[t].cid # c)

\* A running task that no pod works on is reset.
OrphanIsRecovered ==
  \A t \in Tasks :
    (row[t].status = "running" /\ ~ row[t].deleted /\ \A w \in Workers : Task(w) # t)
      ~> (row[t].status # "running" \/ row[t].deleted)

\* A pipeline whose fence is gone ends.
SupersededStops ==
  \A w \in Workers : (child[w].pc = "run" /\ ~ Fenced(w)) ~> (child[w].pc # "run")

=============================================================================
