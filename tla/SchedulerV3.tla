---------------------------- MODULE SchedulerV3 ----------------------------
(***************************************************************************)
(* The manager of the V3 control plane: queue, running table, table of     *)
(* connected workers, and the threads that work on them: dispatch,         *)
(* reconcile, reconcile with the database, one handler per connection.     *)
(*                                                                         *)
(* Source: app/service/scheduler_v3.py.  An action is one section under    *)
(* self._lock, one database transaction or one send; what a thread carries *)
(* from one to the next is in its own variable.                            *)
(***************************************************************************)
EXTENDS ControlNet, SequencesExt

CONSTANTS
  MaxRequeue,  \* MAX_WORKER_LOST_REQUEUE
  MaxSoft      \* ORPHAN_SOFT_RETRY_MAX

ASSUME SchedulerAssumption == MaxRequeue \in Nat /\ MaxSoft \in Nat

\* _running: the worker of a dispatched task and whether the grace period of
\* WORKER_HEARTBEAT_TIMEOUT since started_ts is over.
Record == [worker : Workers \cup {None}, old : BOOLEAN]
NoRecord == [worker |-> None, old |-> FALSE]

\* _workers.  obj tells the WorkerConn objects of a worker apart by the
\* connection they were made for (0: not in the table); sock is FALSE when its
\* socket is None.  late counts the heartbeat time-outs (1, or 4) it is behind.
Slot == [obj : 0 .. MaxConn, sock : BOOLEAN, online : BOOLEAN,
         current : Tasks \cup {None}, reported : Tasks \cup {None}, late : {0, 1, 4}]
NoSlot == [obj |-> 0, sock |-> FALSE, online |-> FALSE,
           current |-> None, reported |-> None, late |-> 0]

\* The two reconcile threads.
Loops == {"memory", "db"}
Loop == [pc : {"idle", "classify", "work", "append", "cool", "fail", "enqueue"},
         requeue : SUBSET Tasks, fail : SUBSET Tasks, heal : SUBSET Tasks,
         task : Tasks \cup {None}, ok : BOOLEAN]
IdleLoop == [pc |-> "idle", requeue |-> {}, fail |-> {}, heal |-> {}, task |-> None, ok |-> FALSE]

\* A connection handler: whether it knows its worker, and the report it is
\* working on.
Serve == [pc : {"new", "read", "requeue", "requeued", "finalize", "write", "finalized", "ended"},
          task : Tasks \cup {None}, state : Reports]
Fresh   == [pc |-> "new", task |-> None, state |-> "finished"]
Reading == [pc |-> "read", task |-> None, state |-> "finished"]

VARIABLES
  queue,     \* _queue
  run,       \* _running
  slot,      \* _workers
  counts,    \* _requeue_counts
  soft,      \* _orphan_soft_retries
  cooling,   \* _orphan_cooldown_until, as long as it lies ahead
  dispatch,  \* the dispatch thread
  loop,      \* the reconcile threads
  serve,     \* the handler of every connection
  saved,     \* the state file
  given,     \* history: the claims that succeeded, as <<task, epoch, worker>>
  refusals   \* history: how often in a row a task was requeued after a refusal

history == <<given, refusals>>
manager == <<queue, run, slot, counts, soft, cooling, dispatch, loop, serve, saved, history>>

NoDispatch == [pc |-> "idle", task |-> None, worker |-> None, conn |-> 0, epoch |-> 0]

ManagerTypeOK ==
  /\ queue \in Seq(Tasks)
  /\ run \in [Tasks -> Record]
  /\ slot \in [Workers -> Slot]
  /\ counts \in [Tasks -> Nat]
  /\ soft \in [Tasks -> Nat]
  /\ cooling \in [Tasks -> BOOLEAN]
  /\ dispatch \in [pc : {"idle", "assign", "claim", "send", "undo"}, task : Tasks \cup {None},
                   worker : Workers \cup {None}, conn : 0 .. MaxConn, epoch : 0 .. MaxClaims]
  /\ loop \in [Loops -> Loop]
  /\ serve \in [Conns -> Serve]
  /\ saved \in [queue : Seq(Tasks), run : [Tasks -> Record]]
  /\ given \subseteq (Tasks \X (1 .. MaxClaims) \X Workers)
  /\ refusals \in [Tasks -> Nat]

ManagerInit ==
  /\ queue = <<>>
  /\ run = [t \in Tasks |-> NoRecord]
  /\ slot = [w \in Workers |-> NoSlot]
  /\ counts = [t \in Tasks |-> 0]
  /\ soft = [t \in Tasks |-> 0]
  /\ cooling = [t \in Tasks |-> FALSE]
  /\ dispatch = NoDispatch
  /\ loop = [l \in Loops |-> IdleLoop]
  /\ serve = [c \in Conns |-> Fresh]
  /\ saved = [queue |-> <<>>, run |-> [t \in Tasks |-> NoRecord]]
  /\ given = {}
  /\ refusals = [t \in Tasks |-> 0]

-----------------------------------------------------------------------------
(* Helpers.                                                                *)

Queued(t)  == t \in ToSet(queue)
Tracked(t) == Queued(t) \/ run[t].worker # None

\* The smallest of some positions.
First(I) == CHOOSE i \in I : \A j \in I : i <= j

\* deque.remove
Removed(t) ==
  IF Queued(t) THEN RemoveAt(queue, First({i \in DOMAIN queue : queue[i] = t})) ELSE queue

Enqueue(t)      == queue' = IF Queued(t) THEN queue ELSE Append(queue, t)
EnqueueFirst(t) == queue' = IF Queued(t) THEN queue ELSE <<t>> \o queue

Idle(w) == slot[w].online /\ slot[w].current = None

\* A slot whose worker no longer counts as busy with t.
VacatedNever(s, t) == s  \* mutant: current_task is not cleared
Vacated(s, t) == IF s.current = t THEN [s EXCEPT !.current = None] ELSE s

\* The row is reset, or the transaction raises.
RequeueRow(t) == row' = [row EXCEPT ![t] = Requeued(@)] /\ UNCHANGED budget
RequeueFails  == Spend("db") /\ UNCHANGED row

\* The second half of a finalization: the row that was read is written.  A
\* transaction that raises is logged and forgotten.
FinalizeRow(t, s) ==
  \/ row' = [row EXCEPT ![t].status = Outcome(s)] /\ UNCHANGED budget
  \/ Spend("db") /\ UNCHANGED row

\* A task that runs or ends is not suspicious any more.
ClearCounts(t) ==
  /\ counts'  = [counts EXCEPT ![t] = 0]
  /\ soft'    = [soft EXCEPT ![t] = 0]
  /\ cooling' = [cooling EXCEPT ![t] = FALSE]

-----------------------------------------------------------------------------
(* The dispatch thread.                                                    *)

\* Take the first queued task that is not cooling down, for an idle worker; the
\* cooling ones before it go to the end of the queue.  Which idle worker is
\* first depends on heartbeat times.
DispatchPick ==
  LET ready == {i \in DOMAIN queue : ~ cooling[queue[i]]}
      i     == First(ready)
  IN  /\ dispatch.pc = "idle" /\ ready # {} /\ budget.claim > 0
      /\ \E w \in Workers :
           /\ Idle(w)
           /\ dispatch' = [NoDispatch EXCEPT !.pc = "assign", !.task = queue[i],
                                             !.worker = w, !.conn = slot[w].obj]
      /\ queue' = SubSeq(queue, i + 1, Len(queue)) \o SubSeq(queue, 1, i - 1)
      /\ UNCHANGED <<shared, run, slot, counts, soft, cooling, loop, serve, saved, history>>

\* Drop the task if its row was deleted, else - or if the query for the row
\* raises - assign it.  The worker object was picked earlier: if the worker has
\* registered again meanwhile, it is another one, whose socket has been set to
\* None.
DispatchAssign ==
  LET t == dispatch.task
      w == dispatch.worker
  IN  /\ dispatch.pc = "assign"
      /\ \/ /\ row[t].deleted
            /\ run' = [run EXCEPT ![t] = NoRecord]
            /\ dispatch' = NoDispatch
            /\ UNCHANGED <<slot, budget>>
         \/ /\ IF row[t].deleted THEN Spend("db") ELSE UNCHANGED budget
            /\ run' = [run EXCEPT ![t] = [worker |-> w, old |-> FALSE]]
            /\ IF slot[w].obj = dispatch.conn
                 THEN /\ slot' = [slot EXCEPT ![w].current = t, ![w].late = 0]
                      /\ dispatch' = [dispatch EXCEPT !.pc = "claim",
                                        !.conn = IF slot[w].sock THEN @ ELSE 0]
                 ELSE /\ dispatch' = [dispatch EXCEPT !.pc = "claim",
                                        !.conn = IF slot[w].obj = 0 THEN @ ELSE 0]
                      /\ UNCHANGED slot
      /\ UNCHANGED <<row, chan, queue, counts, soft, cooling, loop, serve, saved, history>>

DispatchClaim ==
  LET t == dispatch.task
  IN  /\ dispatch.pc = "claim"
      /\ \/ /\ Claimable(row[t])
            /\ row' = [row EXCEPT ![t] = Claimed(@, dispatch.worker)]
            /\ dispatch' = [dispatch EXCEPT !.pc = "send", !.epoch = row[t].epoch + 1]
            /\ given' = given \cup {<<t, row[t].epoch + 1, dispatch.worker>>}
            /\ Spend("claim")
         \/ /\ (~ Claimable(row[t]) /\ UNCHANGED budget) \/ Spend("db")
            /\ dispatch' = [dispatch EXCEPT !.pc = "undo"]
            /\ UNCHANGED <<row, given>>
      /\ UNCHANGED <<chan, queue, run, slot, counts, soft, cooling, loop, serve, saved, refusals>>

\* The command is sent; if that fails the row is reset.
DispatchSend ==
  LET t == dispatch.task
      c == dispatch.conn
  IN  /\ dispatch.pc = "send"
      /\ \/ /\ c # 0
            /\ PushDown(c, RunCmd(t, dispatch.epoch))
            /\ dispatch' = NoDispatch
            /\ UNCHANGED <<row, budget>>
         \/ /\ c # 0 => ~ chan[c].open
            /\ RequeueRow(t) \/ RequeueFails
            /\ dispatch' = [dispatch EXCEPT !.pc = "undo"]
            /\ UNCHANGED chan
      /\ UNCHANGED <<queue, run, slot, counts, soft, cooling, loop, serve, saved, history>>

\* The claim or the send failed: back to the head of the queue.
DispatchUndo ==
  LET t == dispatch.task
      w == dispatch.worker
  IN  /\ dispatch.pc = "undo"
      /\ run' = [run EXCEPT ![t] = NoRecord]
      /\ slot' = [slot EXCEPT ![w] = Vacated(@, t)]
      /\ EnqueueFirst(t)
      /\ dispatch' = NoDispatch
      /\ UNCHANGED <<shared, counts, soft, cooling, loop, serve, saved, history>>

-----------------------------------------------------------------------------
(* The reconcile threads.                                                  *)

Online(w) == slot[w].online /\ slot[w].late = 0

\* A task whose grace period is over and which its worker does not report.
LostIfOffline(t) ==  \* mutant: what an online worker reports is not looked at
  LET w == run[t].worker IN w # None /\ run[t].old /\ ~ Online(w)
Lost(t) ==
  LET w == run[t].worker
  IN  w # None /\ run[t].old /\ ~ (Online(w) /\ slot[w].reported = t)

\* _reconcile_once, the part under the lock: workers time out, lost tasks leave
\* the table, and workers long gone are forgotten.
ReconcileScan ==
  LET lost  == {t \in Tasks : Lost(t)}
      freed == [w \in Workers |-> IF \E t \in lost : run[t].worker = w /\ slot[w].current = t
                                    THEN None ELSE slot[w].current]
      gone(w) == ~ Online(w) /\ freed[w] = None /\ slot[w].late = 4
      failing == {t \in lost : counts[t] + 1 > MaxRequeue}
  IN  /\ loop["memory"].pc = "idle"
      /\ slot' = [w \in Workers |-> IF gone(w) THEN NoSlot
                  ELSE [slot[w] EXCEPT !.online = Online(w), !.current = freed[w]]]
      /\ run' = [t \in Tasks |-> IF t \in lost THEN NoRecord ELSE run[t]]
      /\ counts' = [t \in Tasks |-> IF t \in lost THEN counts[t] + 1 ELSE counts[t]]
      /\ loop' = [loop EXCEPT !["memory"] =
           IF lost = {} THEN IdleLoop
           ELSE [IdleLoop EXCEPT !.pc = "work", !.requeue = lost \ failing, !.fail = failing]]
      /\ UNCHANGED <<shared, queue, soft, cooling, dispatch, serve, saved, history>>

\* A row is reset and then queued again; if the transaction raises, the memory
\* loop retries it as a soft retry and the database loop leaves it.
LoopRequeue(l) ==
  /\ loop[l].pc = "work"
  /\ \E t \in loop[l].requeue :
       LET left  == [loop[l] EXCEPT !.requeue = @ \ {t}]
           again == counts[t] + 1 <= MaxRequeue  \* counted here by the database loop only
       IN  /\ counts' = IF l = "db" THEN [counts EXCEPT ![t] = @ + 1] ELSE counts
           /\ \/ /\ l = "db" /\ ~ again
                 /\ loop' = [loop EXCEPT ![l] = [left EXCEPT !.fail = @ \cup {t}]]
                 /\ UNCHANGED <<row, budget>>
              \/ /\ l = "memory" \/ again
                 /\ RequeueRow(t)
                 /\ loop' = [loop EXCEPT ![l] = [left EXCEPT !.pc = "append", !.task = t]]
              \/ /\ l = "memory" \/ again
                 /\ RequeueFails
                 /\ loop' = [loop EXCEPT ![l] =
                      IF l = "memory" THEN [left EXCEPT !.fail = @ \cup {t}] ELSE left]
  /\ UNCHANGED <<chan, queue, run, slot, soft, cooling, dispatch, serve, saved, history>>

LoopAppend(l) ==
  LET t == loop[l].task
  IN  /\ loop[l].pc = "append"
      /\ queue' = IF Tracked(t) THEN queue ELSE Append(queue, t)
      /\ loop' = [loop EXCEPT ![l].pc = "work", ![l].task = None]
      /\ UNCHANGED <<shared, run, slot, counts, soft, cooling, dispatch, serve, saved, history>>

\* _soft_requeue_or_fail: after too many soft retries the task is to fail for
\* good, unless its row is terminal; else its row is reset and it waits for a
\* while.
LoopSoft(l) ==
  /\ loop[l].pc = "work" /\ (l = "db" \/ loop[l].requeue = {})
  /\ \E t \in loop[l].fail :
       LET left == [loop[l] EXCEPT !.fail = @ \ {t}]
       IN  \/ /\ soft[t] >= MaxSoft
              /\ ClearCounts(t)
              /\ loop' = [loop EXCEPT ![l] =
                   IF Ended(t) THEN left ELSE [left EXCEPT !.pc = "fail", !.task = t]]
              /\ UNCHANGED <<row, budget>>
           \/ /\ soft[t] < MaxSoft
              /\ soft' = [soft EXCEPT ![t] = @ + 1]
              /\ \/ /\ RequeueRow(t)
                    /\ loop' = [loop EXCEPT ![l] = [left EXCEPT !.pc = "cool", !.task = t, !.ok = TRUE]]
                 \/ /\ RequeueFails
                    /\ loop' = [loop EXCEPT ![l] = [left EXCEPT !.pc = "cool", !.task = t, !.ok = FALSE]]
              /\ UNCHANGED <<counts, cooling>>
  /\ UNCHANGED <<chan, queue, run, slot, dispatch, serve, saved, history>>

LoopFail(l) ==
  /\ loop[l].pc = "fail"
  /\ FinalizeRow(loop[l].task, "failed")
  /\ loop' = [loop EXCEPT ![l].pc = "work", ![l].task = None]
  /\ UNCHANGED <<chan, queue, run, slot, counts, soft, cooling, dispatch, serve, saved, history>>

LoopCool(l) ==
  LET t == loop[l].task
  IN  /\ loop[l].pc = "cool"
      /\ counts' = [counts EXCEPT ![t] = 0]
      /\ cooling' = [cooling EXCEPT ![t] = TRUE]
      /\ queue' = IF loop[l].ok /\ ~ Tracked(t) THEN Append(queue, t) ELSE queue
      /\ loop' = [loop EXCEPT ![l].pc = "work", ![l].task = None, ![l].ok = FALSE]
      /\ UNCHANGED <<shared, run, slot, soft, dispatch, serve, saved, history>>

\* The cooldown is over.
CooldownEnds(t) ==
  /\ cooling[t]
  /\ cooling' = [cooling EXCEPT ![t] = FALSE]
  /\ UNCHANGED <<shared, queue, run, slot, counts, soft, dispatch, loop, serve, saved, history>>

MemoryLoopEnds ==
  /\ loop["memory"].pc = "work" /\ loop["memory"].requeue = {} /\ loop["memory"].fail = {}
  /\ loop' = [loop EXCEPT !["memory"] = IdleLoop]
  /\ UNCHANGED <<shared, queue, run, slot, counts, soft, cooling, dispatch, serve, saved, history>>

\* Pending rows the scheduler does not track.
Missing == {t \in Tasks : /\ row[t].status = "pending" /\ ~ row[t].deleted
                          /\ row[t].disp = None /\ row[t].age = "none" /\ ~ Tracked(t)}

\* _db_reconcile_once reads the running rows: those old enough to be orphans
\* go to requeue for now, those without a dispatcher to heal, all to fail.  A
\* round that has nothing to do is left out.
DbQuery ==
  LET running == {t \in Tasks : row[t].status = "running" /\ ~ row[t].deleted}
  IN  /\ loop["db"].pc = "idle"
      /\ running # {} \/ Missing # {}
      /\ loop' = [loop EXCEPT !["db"] =
           [IdleLoop EXCEPT !.pc = IF running = {} THEN "work" ELSE "classify",
                            !.fail = running,
                            !.requeue = {t \in running : row[t].age # "fresh"},
                            !.heal = {t \in running : row[t].disp = None}]]
      /\ UNCHANGED <<shared, queue, run, slot, counts, soft, cooling, dispatch, serve, saved, history>>

\* Then, under the lock: a tracked task is left alone (or healed), a task some
\* online worker reports is adopted, the other old ones are orphans.
DbClassify ==
  LET rows     == loop["db"].fail
      inRun    == {t \in rows : run[t].worker # None}
      inQueue  == {t \in rows \ inRun : Queued(t)}
      free     == rows \ (inRun \cup inQueue)
      hosts(t) == {w \in Workers : slot[w].online /\ slot[w].reported = t}
      adopted  == {t \in free : hosts(t) # {}}
      stale    == (inRun \cap loop["db"].heal) \cup inQueue
      orphans  == (free \ adopted) \cap loop["db"].requeue
  IN  /\ loop["db"].pc = "classify"
      /\ \E host \in {f \in [adopted -> Workers] : \A t \in adopted : f[t] \in hosts(t)} :
           /\ run' = [t \in Tasks |-> IF t \in adopted THEN [worker |-> host[t], old |-> FALSE]
                                                       ELSE run[t]]
           /\ slot' = [w \in Workers |->
                LET mine == {t \in adopted : host[t] = w}
                IN  IF mine # {} /\ slot[w].current = None
                      THEN [slot[w] EXCEPT !.current = CHOOSE t \in mine : TRUE] ELSE slot[w]]
      /\ counts'  = [t \in Tasks |-> IF t \in adopted THEN 0 ELSE counts[t]]
      /\ soft'    = [t \in Tasks |-> IF t \in adopted THEN 0 ELSE soft[t]]
      /\ cooling' = [t \in Tasks |-> cooling[t] /\ t \notin adopted]
      /\ loop' = [loop EXCEPT !["db"] =
           [IdleLoop EXCEPT !.pc = "work", !.requeue = orphans, !.heal = stale]]
      /\ UNCHANGED <<shared, queue, dispatch, serve, saved, history>>

\* A row that runs although its task is queued is reset.
DbHeal ==
  /\ loop["db"].pc = "work" /\ loop["db"].requeue = {} /\ loop["db"].fail = {}
  /\ \E t \in loop["db"].heal :
       /\ RequeueRow(t) \/ RequeueFails
       /\ loop' = [loop EXCEPT !["db"].heal = @ \ {t}]
  /\ UNCHANGED <<chan, queue, run, slot, counts, soft, cooling, dispatch, serve, saved, history>>

\* _repair_pending_unqueued_tasks.
DbRepair ==
  /\ loop["db"].pc = "work"
  /\ loop["db"].requeue = {} /\ loop["db"].fail = {} /\ loop["db"].heal = {}
  /\ loop' = [loop EXCEPT !["db"] =
       IF Missing = {} THEN IdleLoop ELSE [IdleLoop EXCEPT !.pc = "enqueue", !.requeue = Missing]]
  /\ UNCHANGED <<shared, queue, run, slot, counts, soft, cooling, dispatch, serve, saved, history>>

DbEnqueueAll ==  \* mutant: the queue is not looked at again under the lock
  /\ loop["db"].pc = "enqueue"
  /\ queue' = queue \o SetToSeq(loop["db"].requeue)
  /\ loop' = [loop EXCEPT !["db"] = IdleLoop]
  /\ UNCHANGED <<shared, run, slot, counts, soft, cooling, dispatch, serve, saved, history>>
DbEnqueue ==
  /\ loop["db"].pc = "enqueue"
  /\ queue' = queue \o SetToSeq({t \in loop["db"].requeue : ~ Tracked(t)})
  /\ loop' = [loop EXCEPT !["db"] = IdleLoop]
  /\ UNCHANGED <<shared, run, slot, counts, soft, cooling, dispatch, serve, saved, history>>

-----------------------------------------------------------------------------
(* The handler of a connection.                                            *)

Received(c) == serve[c].pc = "read" /\ chan[c].up # <<>>
Popped(c)   == [chan EXCEPT ![c].up = Tail(@)]

\* _register_worker: a new object replaces the old one, whose socket is closed;
\* the task recorded for the worker becomes its current task again.
ServeHello(c) ==
  LET w    == chan[c].worker
      mine == {t \in Tasks : run[t].worker = w}
  IN  /\ serve[c].pc = "new" /\ chan[c].up # <<>>
      /\ chan' = Popped(c)
      /\ serve' = [serve EXCEPT ![c] = Reading]
      /\ \E t \in IF mine = {} THEN {None} ELSE mine :
           slot' = [slot EXCEPT ![w] = [NoSlot EXCEPT !.obj = c, !.sock = TRUE,
                                                      !.online = TRUE, !.current = t]]
      /\ UNCHANGED <<row, budget, queue, run, counts, soft, cooling, dispatch, loop, saved, history>>

\* _on_heartbeat of worker w, which reports that it runs t (or None).
OnHeartbeat(w, t) ==
  /\ slot' = [slot EXCEPT ![w] =
       IF @.obj = 0 THEN @ ELSE [@ EXCEPT !.late = 0, !.online = TRUE, !.reported = t]]
  /\ IF slot[w].obj # 0 /\ t # None THEN ClearCounts(t) ELSE UNCHANGED <<counts, soft, cooling>>
  /\ UNCHANGED <<shared, queue, run, dispatch, loop, serve, saved, history>>

\* _on_task_state, the part under the lock.  A report counts whichever worker
\* the task is recorded for.
Recorded(t) == run[t].worker # None
ServeState(c) ==
  LET m == Head(chan[c].up)
      w == chan[c].worker
      t == m.task
  IN  /\ Received(c) /\ m.type = "state"
      /\ chan' = Popped(c)
      /\ slot' = [slot EXCEPT ![w] = Vacated(@, t)]
      /\ ClearCounts(t)
      /\ serve' = [serve EXCEPT ![c] =
           IF ~ Recorded(t) THEN @
           ELSE [pc |-> IF m.state = "refused" THEN "requeue" ELSE "finalize",
                 task |-> t, state |-> m.state]]
      /\ UNCHANGED <<row, budget, queue, run, dispatch, loop, saved, history>>

\* A refused task is requeued, up to MaxRequeue times in a row by the count,
\* which has just been cleared.
ServeRequeue(c) ==
  LET t   == serve[c].task
      cnt == counts[t] + 1
  IN  /\ serve[c].pc = "requeue"
      /\ \/ /\ cnt <= MaxRequeue
            /\ counts' = [counts EXCEPT ![t] = cnt]
            /\ \/ RequeueRow(t) /\ serve' = [serve EXCEPT ![c].pc = "requeued"]
               \/ RequeueFails  /\ serve' = [serve EXCEPT ![c].pc = "finalize"]
         \/ /\ cnt > MaxRequeue
            /\ serve' = [serve EXCEPT ![c].pc = "finalize"]
            /\ UNCHANGED <<row, budget, counts>>
      /\ UNCHANGED <<chan, queue, run, slot, soft, cooling, dispatch, loop, saved, history>>

ServeRequeued(c) ==
  LET t == serve[c].task
  IN  /\ serve[c].pc = "requeued"
      /\ run' = [run EXCEPT ![t] = NoRecord]
      /\ Enqueue(t)
      /\ serve' = [serve EXCEPT ![c] = Reading]
      /\ refusals' = [refusals EXCEPT ![t] = @ + 1]
      /\ UNCHANGED <<shared, slot, counts, soft, cooling, dispatch, loop, saved, given>>

ServeFinalize(c) ==
  LET t == serve[c].task
  IN  /\ serve[c].pc = "finalize"
      /\ serve' = [serve EXCEPT ![c].pc = IF Ended(t) THEN "finalized" ELSE "write"]
      /\ UNCHANGED <<shared, queue, run, slot, counts, soft, cooling, dispatch, loop, saved, history>>

ServeWrite(c) ==
  LET t == serve[c].task
  IN  /\ serve[c].pc = "write"
      /\ FinalizeRow(t, serve[c].state)
      /\ serve' = [serve EXCEPT ![c].pc = "finalized"]
      /\ UNCHANGED <<chan, queue, run, slot, counts, soft, cooling, dispatch, loop, saved, history>>

ServeFinalized(c) ==
  LET t == serve[c].task
  IN  /\ serve[c].pc = "finalized"
      /\ run' = [run EXCEPT ![t] = NoRecord]
      /\ counts' = [counts EXCEPT ![t] = 0]
      /\ serve' = [serve EXCEPT ![c] = Reading]
      /\ refusals' = [refusals EXCEPT ![t] = 0]
      /\ UNCHANGED <<shared, queue, slot, soft, cooling, dispatch, loop, saved, given>>

\* The connection ends: the worker that said HELLO on it is marked offline by its
\* id, whichever connection its object in the table belongs to.
ServeEnd(c) ==
  LET w == chan[c].worker
  IN  /\ serve[c].pc \in {"new", "read"} /\ chan[c].up = <<>> /\ ~ chan[c].open /\ w # None
      /\ serve' = [serve EXCEPT ![c].pc = "ended"]
      /\ slot' = [slot EXCEPT ![w] =
           IF serve[c].pc = "new" \/ @.obj = 0 THEN @ ELSE [@ EXCEPT !.online = FALSE, !.sock = FALSE]]
      /\ UNCHANGED <<shared, queue, run, counts, soft, cooling, dispatch, loop, saved, history>>

-----------------------------------------------------------------------------
(* The internal API.                                                       *)

Submit(t) ==
  /\ ~ Tracked(t)
  /\ Spend("submit")
  /\ queue' = Append(queue, t)
  /\ UNCHANGED <<row, chan, run, slot, counts, soft, cooling, dispatch, loop, serve, saved, history>>

\* cancel: a queued task leaves the queue, and its row is finalized before the
\* lock is released (by the caller); for a running one the worker is told.
TellWorker(t) ==
  LET w == run[t].worker
  IN  IF w # None /\ slot[w].online /\ slot[w].sock
        THEN PushDown(slot[w].obj, CancelCmd(t)) ELSE UNCHANGED chan

CancelQueued(t) ==
  /\ Queued(t)
  /\ queue' = Removed(t)
  /\ UNCHANGED <<shared, run, slot, counts, soft, cooling, dispatch, loop, serve, saved, history>>

CancelRunning(t) ==
  /\ ~ Queued(t)
  /\ TellWorker(t)
  /\ UNCHANGED <<row, budget, manager>>

\* restart, after its row was reset: the task goes to the end of the queue and
\* the worker that runs it is told to cancel it.
Restart(t) ==
  /\ queue' = IF t \in ToSet(Removed(t)) THEN Removed(t) ELSE Append(Removed(t), t)
  /\ run' = [run EXCEPT ![t] = NoRecord]
  /\ TellWorker(t)
  /\ refusals' = [refusals EXCEPT ![t] = 0]
  /\ UNCHANGED <<row, budget, slot, counts, soft, cooling, dispatch, loop, serve, saved, given>>

-----------------------------------------------------------------------------
(* Time, the state file and restarts of the manager.                       *)

\* WORKER_HEARTBEAT_TIMEOUT passes since started_ts; whether that may happen is
\* up to ControlPlane.
RecordAges(t) ==
  /\ run[t].worker # None /\ ~ run[t].old
  /\ run' = [run EXCEPT ![t].old = TRUE]
  /\ UNCHANGED <<row, chan, queue, slot, counts, soft, cooling, dispatch, loop, serve, saved, history>>

\* The persist thread; what it saves matters only while a restart may come.
Persist ==
  /\ budget.restart > 0
  /\ saved' = [queue |-> queue, run |-> run]
  /\ UNCHANGED <<shared, queue, run, slot, counts, soft, cooling, dispatch, loop, serve, history>>

\* start() in a new process: it loads the file, resets all running rows and
\* queues them, which empties the running table, but only if there are any, and
\* queues the pending rows it does not know.
ManagerRestart ==
  LET running == {t \in Tasks : row[t].status = "running" /\ ~ row[t].deleted}
      known   == saved.queue \o SetToSeq(running \ ToSet(saved.queue))
      records == IF running = {} THEN saved.run ELSE [t \in Tasks |-> NoRecord]
      pending == {t \in Tasks : /\ row[t].status = "pending" /\ ~ row[t].deleted
                                /\ row[t].disp = None /\ row[t].age = "none"
                                /\ t \notin ToSet(known) /\ records[t].worker = None}
  IN  /\ Spend("restart")
      /\ row' = [t \in Tasks |-> IF t \in running THEN Requeued(row[t]) ELSE row[t]]
      /\ queue' = known \o SetToSeq(pending)
      /\ run' = records
      /\ slot' = [w \in Workers |-> NoSlot]
      /\ counts' = [t \in Tasks |-> 0]
      /\ soft' = [t \in Tasks |-> 0]
      /\ cooling' = [t \in Tasks |-> FALSE]
      /\ dispatch' = NoDispatch
      /\ loop' = [l \in Loops |-> IdleLoop]
      /\ serve' = [c \in Conns |-> IF chan[c].worker = None THEN Fresh
                                   ELSE [Reading EXCEPT !.pc = "ended"]]
      /\ chan' = [c \in Conns |-> [NoConn EXCEPT !.worker = chan[c].worker]]
      /\ UNCHANGED <<saved, history>>
=============================================================================
