---------------------------- MODULE ControlPlane ----------------------------
(***************************************************************************)
(* The V3 control plane: the manager (SchedulerV3), the runner pods        *)
(* (WorkerControl), the connections between them, and the API handlers     *)
(* that cancel, restart and delete tasks (app/api/tasks.py).               *)
(***************************************************************************)
EXTENDS SchedulerV3, WorkerControl

VARIABLE api  \* the API handler: where it is, the task it is for, and whether
              \* the row it loaded had a dispatcher

NoCall == [pc |-> "idle", task |-> None, owned |-> FALSE]

vars == <<shared, manager, workers, api>>

TypeOK ==
  /\ SharedTypeOK /\ ManagerTypeOK /\ WorkerTypeOK
  /\ api \in [pc : {"idle", "stop", "cancel", "finalize", "end", "reset", "requeue", "restart",
                    "drop", "delete", "kill"},
              task : Tasks \cup {None}, owned : BOOLEAN]

Init == SharedInit /\ ManagerInit /\ WorkerInit /\ api = NoCall

-----------------------------------------------------------------------------
(* Time and the network.                                                   *)

\* The manager's lock is held from one step to the next.
Locked == api.pc = "finalize"

Connected(w) == wc[w].sock # 0 /\ chan[wc[w].sock].open

\* The heartbeat thread, which waits for _task_lock: the task in hand is
\* reported.  A heartbeat is queued behind earlier messages.
Beats(w) ==
  /\ Connected(w) /\ wc[w].pc # "spawn"
  /\ LET c == wc[w].sock IN chan[c].up = <<>> /\ serve[c].pc = "read"
Heartbeat(w) ==
  /\ Beats(w) /\ ~ Locked
  /\ OnHeartbeat(w, Current(w))
  /\ UNCHANGED <<workers, api>>

\* Threads, messages and processes are normally faster than the time-outs they
\* race: a time-out that comes while one of them is on its way is a fault.
FaultIf(busy, kind) == IF busy THEN Spend(kind) ELSE UNCHANGED budget

\* WORKER_HEARTBEAT_TIMEOUT, and then four times that, pass without a
\* heartbeat.
GetsLate(w) ==
  /\ slot[w].obj # 0 /\ slot[w].late # 4
  /\ FaultIf(Connected(w), "late")
  /\ slot' = [slot EXCEPT ![w].late = IF @ = 0 THEN 1 ELSE 4]
  /\ UNCHANGED <<row, chan, queue, run, counts, soft, cooling, dispatch, loop, serve, saved, history>>
  /\ UNCHANGED <<workers, api>>

\* Something about t is on its way between manager and runners.
InTransit(t) ==
  \/ dispatch.task = t
  \/ \E c \in Conns :
       \/ serve[c].task = t
       \/ \E m \in ToSet(chan[c].up) \cup ToSet(chan[c].down) : m # Hello /\ m.task = t
  \/ \E w \in Workers : wc[w].task = t /\ wc[w].pc \in {"spawn", "kill"}
  \/ \E w \in Workers : Connected(w) /\ Current(w) = t /\ slot[w].reported # t

RunAges(t) ==
  /\ RecordAges(t)
  /\ FaultIf(InTransit(t), "slow")
  /\ UNCHANGED <<workers, api>>

\* ORPHAN_GRACE_SECONDS pass since dispatch_started_at, which the supervisor
\* inside a running process keeps renewing.
RowAges(t) ==
  /\ row[t].age = "fresh"
  /\ FaultIf(InTransit(t) \/ \E p \in procs : p.task = t /\ Fenced(p), "slow")
  /\ row' = [row EXCEPT ![t].age = "old"]
  /\ UNCHANGED <<chan, manager, workers, api>>

\* A connection breaks; of the messages under way, some of the first arrive.
Breaks(c) ==
  /\ chan[c].open
  /\ Spend("drop")
  /\ \E i \in 0 .. Len(chan[c].up), j \in 0 .. Len(chan[c].down) :
       chan' = [chan EXCEPT ![c].open = FALSE, ![c].up   = SubSeq(@, 1, i),
                                               ![c].down = SubSeq(@, 1, j)]
  /\ UNCHANGED <<row, manager, workers, api>>

-----------------------------------------------------------------------------
(* The API handlers, one call at a time: each load of the row, each commit *)
(* and each section of the manager is a step.  A commit writes blindly the *)
(* columns that the handler changed in the row it had loaded.              *)

Writes(t, r)  == row' = [row EXCEPT ![t] = r]
Goes(pc)      == api' = [api EXCEPT !.pc = pc, !.owned = FALSE]
Answers       == api' = NoCall
Loads(pc, t)  == api' = [pc |-> pc, task |-> t, owned |-> row[t].disp # None]
Freed(r)      == IF api.owned THEN [r EXCEPT !.disp = None, !.age = "none"] ELSE r

ApiCancel(t) ==
  /\ api.pc = "idle" /\ row[t].status \in Active /\ ~ row[t].deleted
  /\ Spend("cancel")
  /\ Loads("stop", t)
  /\ UNCHANGED <<row, chan, manager, workers>>

\* cancel_task_in_place, for a cancel and for the delete of an active task; a
\* restart leaves the dispatcher in the row and reads the row again.
ApiStop ==
  LET t       == api.task
      stopped == [row[t] EXCEPT !.status = "cancelled"]
  IN  /\ \/ api.pc = "stop" /\ Writes(t, Freed(stopped)) /\ Goes("cancel")
         \/ api.pc = "drop" /\ Writes(t, Freed(stopped)) /\ Goes("delete")
         \/ api.pc = "end"  /\ Writes(t, stopped) /\ Loads("reset", t)
      /\ UNCHANGED <<chan, budget, manager, workers>>

\* The manager is told after a cancel, and after the delete of an active task.
\* If it takes the task from its queue, it reads the row and holds its lock.
ApiNotifyCancel ==
  LET t == api.task
  IN  /\ api.pc \in {"cancel", "kill"}
      /\ \/ CancelQueued(t) /\ IF Ended(t) THEN Answers ELSE Goes("finalize")
         \/ CancelRunning(t) /\ Answers
      /\ UNCHANGED workers

ApiFinalize ==
  /\ Locked
  /\ FinalizeRow(api.task, "cancelled")
  /\ Answers
  /\ UNCHANGED <<chan, manager, workers>>

\* An active task is cancelled first.
ApiRestart(t) ==
  /\ api.pc = "idle" /\ ~ row[t].deleted
  /\ Spend("rerun")
  /\ Loads(IF Ended(t) THEN "reset" ELSE "end", t)
  /\ UNCHANGED <<row, chan, manager, workers>>

\* restart_task_in_place.
ApiReset ==
  /\ api.pc = "reset"
  /\ Writes(api.task, Freed([row[api.task] EXCEPT !.status = "pending"]))
  /\ Goes("requeue")
  /\ UNCHANGED <<chan, budget, manager, workers>>

\* restart in the manager: the row is reset once more, then the lock is taken.
ApiNotifyRequeue ==
  /\ api.pc = "requeue"
  /\ RequeueRow(api.task) \/ RequeueFails
  /\ Goes("restart")
  /\ UNCHANGED <<chan, manager, workers>>

ApiNotifyRestart ==
  /\ api.pc = "restart"
  /\ Restart(api.task)
  /\ Answers
  /\ UNCHANGED workers

\* An active task is cancelled first; then the row is marked.
ApiDelete(t) ==
  /\ api.pc = "idle" /\ ~ row[t].deleted
  /\ Spend("delete")
  /\ \/ Ended(t) /\ Writes(t, [row[t] EXCEPT !.deleted = TRUE]) /\ UNCHANGED api
     \/ ~ Ended(t) /\ Loads("drop", t) /\ UNCHANGED row
  /\ UNCHANGED <<chan, manager, workers>>

ApiMark ==
  /\ api.pc = "delete"
  /\ Writes(api.task, [row[api.task] EXCEPT !.deleted = TRUE])
  /\ Goes("kill")
  /\ UNCHANGED <<chan, budget, manager, workers>>

\* create_task tells the manager about a new task.
ApiSubmit(t) ==
  /\ row[t].epoch = 0 /\ ~ Locked
  /\ Submit(t)
  /\ UNCHANGED <<workers, api>>

-----------------------------------------------------------------------------
(* The whole.                                                              *)

DispatchStep == DispatchAssign \/ DispatchClaim \/ DispatchSend \/ DispatchUndo
MemoryStep   == LoopRequeue("memory") \/ LoopAppend("memory") \/ LoopSoft("memory")
                \/ LoopFail("memory") \/ LoopCool("memory") \/ MemoryLoopEnds
DbStep       == DbQuery \/ DbClassify \/ DbHeal \/ DbRepair \/ DbEnqueue
                \/ LoopRequeue("db") \/ LoopAppend("db") \/ LoopSoft("db") \/ LoopFail("db")
                \/ LoopCool("db")
ServeStep(c) == ServeHello(c) \/ ServeState(c) \/ ServeRequeue(c) \/ ServeRequeued(c)
                \/ ServeFinalize(c) \/ ServeWrite(c) \/ ServeFinalized(c) \/ ServeEnd(c)

ManagerNext ==
  \/ DispatchPick \/ DispatchStep \/ ReconcileScan \/ MemoryStep \/ DbStep
  \/ \E c \in Conns : ServeStep(c)
  \/ \E t \in Tasks : CooldownEnds(t)
  \/ Persist

\* The steps of the manager that do not take its lock.
LockFree ==
  \/ DispatchClaim \/ DispatchSend
  \/ \E l \in Loops : LoopRequeue(l) \/ LoopSoft(l) \/ LoopFail(l)
  \/ MemoryLoopEnds \/ DbQuery \/ DbHeal
  \/ \E c \in Conns : ServeRequeue(c) \/ ServeFinalize(c) \/ ServeWrite(c)
  \/ \E t \in Tasks : CooldownEnds(t)

ApiStep == ApiStop \/ ApiNotifyCancel \/ ApiFinalize \/ ApiReset \/ ApiNotifyRequeue \/ ApiNotifyRestart \/ ApiMark

ByManager(A) == A /\ UNCHANGED <<workers, api>> /\ (Locked => LockFree)
\* A manager that restarts takes with it what it does for a call.
Restarts == ManagerRestart /\ UNCHANGED workers /\ api' = IF Locked THEN NoCall ELSE api

ByWorker(A)  == A /\ UNCHANGED <<manager, api>>
ByTime(A)    == A /\ UNCHANGED budget

Next ==
  \/ ByManager(ManagerNext)
  \/ Restarts
  \/ \E w \in Workers : ByWorker(WorkerNext(w))
  \/ \E w \in Workers : Heartbeat(w) \/ GetsLate(w)
  \/ \E t \in Tasks : RunAges(t) \/ RowAges(t) \/ ApiSubmit(t) \/ ApiCancel(t) \/ ApiRestart(t) \/ ApiDelete(t)
  \/ \E c \in Conns : Breaks(c)
  \/ ApiStep

Spec == Init /\ [][Next]_vars

\* What is fair: the threads of the manager and of the runners, the delivery of
\* what is under way, a process that has been told to stop or has nothing left
\* but to store its result, heartbeats, and the passing of time for what nobody
\* renews.  A pipeline that may run need not end, and no fault, no API call and
\* no restart is fair.  Heartbeat is strongly fair because it stands for a
\* message that waits behind others, which Beats makes a guard.
StoppedEnds(w) ==
  \E p \in procs : /\ p.worker = w /\ ~ (Fenced(p) /\ row[p.task].status = "running")
                   /\ ProcEnds(p)

BetweenRounds(A) == dispatch.pc = "idle" /\ ByManager(A)

Fairness ==
  /\ WF_vars(ByManager(DispatchPick)) /\ WF_vars(ByManager(DispatchStep))
  /\ WF_vars(ByManager(ReconcileScan)) /\ WF_vars(ByManager(MemoryStep)) /\ WF_vars(ByManager(DbStep))
  /\ SF_vars(BetweenRounds(DbQuery)) /\ SF_vars(BetweenRounds(DbClassify))
  /\ SF_vars(BetweenRounds(DbRepair))
  /\ \A c \in Conns : WF_vars(ByManager(ServeStep(c)))
  /\ \A t \in Tasks : WF_vars(ByManager(CooldownEnds(t)))
  /\ \A w \in Workers :
       /\ WF_vars(ByWorker(Connect(w))) /\ WF_vars(ByWorker(Disconnect(w)))
       /\ WF_vars(ByWorker(ControlStep(w))) /\ WF_vars(ByWorker(Reap(w)))
       /\ WF_vars(ByWorker(\E p \in procs : p.worker = w /\ ProcStep(p)))
       /\ WF_vars(ByWorker(StoppedEnds(w)))
       /\ SF_vars(Heartbeat(w))
       /\ WF_vars(ByTime(GetsLate(w)))
  /\ \A t \in Tasks : /\ WF_vars(ByTime(RunAges(t)))
                      /\ WF_vars(ByTime(RowAges(t)))
  /\ WF_vars(ApiStep)

FairSpec == Spec /\ Fairness

-----------------------------------------------------------------------------
(* Properties.                                                             *)

\* The queue holds no task twice, although four threads and the API append to
\* it, each after a look at the queue in an earlier section of the lock.
QueueDistinct == IsInjective(queue)

\* The status of every task, the claims and the processes spawned for them
\* behave as TaskDispatch says: no claim is given twice, none is begun twice or
\* by another runner, only a pending task is claimed, and a task that is over
\* gets another end only from a transaction that had read it as active.
Writing ==
  {p.task : p \in {q \in procs : q.pc = "error"}}
    \cup {loop[l].task : l \in {k \in Loops : loop[k].pc = "fail"}}
    \cup {serve[c].task : c \in {d \in Conns : serve[d].pc = "write"}}
    \cup (IF api.pc \in {"stop", "end", "drop", "finalize"} THEN {api.task} ELSE {})

Abstract == INSTANCE TaskDispatch WITH status <- [t \in Tasks |-> row[t].status], seen <- Writing
ImplementsTaskDispatch == Abstract!Spec

\* A runner pod has at most one task process, whatever commands reach it over
\* however many connections (worker_control.py, max_tasks=1).
OneProcess == \A p, q \in procs : p.worker = q.worker => p = q

\* A running row without a process of its own.
Orphaned(t) ==
  /\ row[t].status = "running" /\ ~ row[t].deleted
  /\ ~ \E p \in procs : p.task = t /\ Fenced(p)

\* A row does not stay running for ever when nothing runs it: whatever killed
\* the process, broke the connection or lost the command or the report, one of
\* the reconcile threads finds it.
OrphanIsReset == \A t \in Tasks : []<> ~ Orphaned(t)

Waiting(t) == row[t].status = "pending" /\ ~ row[t].deleted

\* A pending task does not stay out of the queue for ever, whichever thread
\* dropped it between two sections of the lock.
PendingIsQueued == \A t \in Tasks : Waiting(t) ~> (~ Waiting(t) \/ Tracked(t) \/ dispatch.task = t)

\* While its first connection lasts, a worker is not taken to be busy for ever with a
\* task it does not run (scheduler_v3.py:84, current_task is cleared by the final
\* task_state).  A connection that breaks may take the report with it.
WorkerIsReleased ==
  \A w \in Workers, t \in Tasks :
    []<> (Cardinality(Opened) > 1 \/ ~ (slot[w].online /\ slot[w].current = t /\ wc[w].task # t))

-----------------------------------------------------------------------------
(* What comments and documents say and the code does not keep.             *)

Alive(t) == \E p \in procs : p.task = t /\ Fenced(p) /\ p.pc \notin {"exit", "dead"}

\* A queued task whose row runs was left behind by a runner that was killed, so
\* healing its row stops nothing that is alive (scheduler_v3.py:750).
HealsOnlyStale ==
  [][DbHeal => \A t \in Tasks : row'[t].status # row[t].status => ~ Alive(t)]_vars

\* When a process reports its end, its result is stored already, or storing it
\* is a remedy: no report ends a run that is alive (task_service.py:2017).
ReportsEndNoOtherRun ==
  [][\A c \in Conns, t \in Tasks :
       ServeWrite(c) /\ row'[t].status # row[t].status => ~ Alive(t)]_vars

\* Finalizing a row twice changes nothing: one that has an end keeps it
\* (task_service.py:2014).
FinalizesOnce ==
  [][\A c \in Conns, t \in Tasks :
       ServeWrite(c) /\ row[t].status \in Terminal => row'[t].status = row[t].status]_vars

\* A task that passed or was cancelled is not requeued by the reconcile threads
\* (task_service.py:2055).
ReconcileKeepsResults ==
  [][\A l \in Loops : LoopRequeue(l) =>
       \A t \in Tasks : row[t].status \in {"passed", "cancelled"} => row'[t].status = row[t].status]_vars

\* The requeues after refusals are bounded (scheduler_v3.py:401).
RefusalsBounded == \A t \in Tasks : refusals[t] <= MaxRequeue

\* A worker the table shows online can be reached
\* (docs/scheduler_v3_design.md:14).
OnlineIsReachable == \A w \in Workers : slot[w].online => slot[w].sock

\* A control process outlives a broken connection
\* (docs/scheduler_v3_design.md:77).
ControlSurvives == \A w \in Workers : wc[w].pc # "dead"
=============================================================================
