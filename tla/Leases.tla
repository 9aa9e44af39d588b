-------------------------------- MODULE Leases ------------------------------
(***************************************************************************)
(* Scheduler V2 (SECFLOW_SYSTEM_ANALYSE_SCHED_V3=0): a manager that leases *)
(* pending rows to runner pods and takes expired leases back, runner pods  *)
(* that poll the database for what they were given, and the file           *)
(* task.execution.lock (app/service/scheduler.py, the assignment loop and  *)
(* the lock of task_service.py, execute_task of task_runner.py and the     *)
(* statements of task_repository.py).                                      *)
(*                                                                         *)
(* One manager, and pods that have one role each.  Every transaction is a  *)
(* step, and so is every operation on the lock file.                       *)
(***************************************************************************)
EXTENDS Integers, FiniteSets

CONSTANTS
  Tasks, Pods, None,
  Limit,      \* MAX_RUNNING_TASKS_GLOBAL, 0 for none
  Slots,      \* bound: executions at a time, each with its thread and its supervisor
  MaxClaims,  \* bound: claims of all tasks
  MaxFaults   \* bound: crashes and failing transactions

ASSUME LeasesAssumption ==
  /\ Limit \in Nat /\ MaxClaims \in Nat /\ MaxFaults \in Nat
  /\ Slots \in Nat \ {0}
  /\ None \notin Pods \cup Tasks
  /\ IsFiniteSet(Tasks)

VARIABLES
  row,      \* the row: status, dispatcher_instance_id, lease_epoch, lease_expires_at
  lock,     \* task.execution.lock of each task
  entry,    \* _running_task_epochs of each pod: the epoch of a task, 0 for no entry
  exec,     \* executions: execute_task's thread and its supervisor
  manager,  \* where the manager's sweep is
  stale,    \* the rows it has read
  claims,   \* claims so far
  faults    \* faults so far

vars == <<row, lock, entry, exec, manager, stale, claims, faults>>

Epochs == 0 .. MaxClaims

\* The thread is at one of these until it gives its entry back.
Busy == {"check", "lock", "unlink", "relock", "save", "work", "result", "error", "commit", "post"}

NoLock == [worker |-> None, epoch |-> 0, current |-> FALSE]
Free   == [pc |-> "free", task |-> None, pod |-> None, epoch |-> 0, locked |-> FALSE,
           sup |-> "none", stop |-> FALSE]

Rows  == [status : {"pending", "running", "passed", "failed", "error", "cancelled"},
          owner : Pods \cup {None}, epoch : Epochs, lease : {"none", "live", "expired"}]
Locks == [worker : Pods \cup {None}, epoch : Epochs, current : BOOLEAN]
Execs == [pc : Busy \cup {"free", "clear", "over"}, task : Tasks \cup {None},
          pod : Pods \cup {None}, epoch : Epochs, locked : BOOLEAN,
          sup : {"none", "on", "off"}, stop : BOOLEAN]

TypeOK ==
  /\ row \in [Tasks -> Rows] /\ lock \in [Tasks -> Locks]
  /\ entry \in [Pods -> [Tasks -> Epochs]]
  /\ exec \in [1 .. Slots -> Execs]
  /\ \A t \in Tasks : row[t].status = "running" <=> row[t].owner # None
  /\ manager \in {"idle", "clean", "commit"} /\ stale \subseteq Tasks
  /\ claims \in 0 .. MaxClaims /\ faults \in 0 .. MaxFaults

Init ==
  /\ row = [t \in Tasks |-> [status |-> "pending", owner |-> None, epoch |-> 0, lease |-> "none"]]
  /\ lock = [t \in Tasks |-> NoLock]
  /\ entry = [p \in Pods |-> [t \in Tasks |-> 0]]
  /\ exec = [i \in 1 .. Slots |-> Free]
  /\ manager = "idle" /\ stale = {} /\ claims = 0 /\ faults = 0

Running == {t \in Tasks : row[t].status = "running"}

\* Mutant: the owner stays.
ReleasedOwned(r, status) == [r EXCEPT !.status = status, !.lease = "none"]

\* What cancelling, recovering and ending a task leave in the row.
Released(r, status) == [r EXCEPT !.status = status, !.owner = None, !.lease = "none"]

\* The guard of the heartbeat, of the configuration and of the result.
Owns(i) == LET r == row[exec[i].task]
           IN  r.status = "running" /\ r.owner = exec[i].pod /\ r.epoch = exec[i].epoch

Fault == faults < MaxFaults /\ faults' = faults + 1

-----------------------------------------------------------------------------
(* The manager: SchedulerService._tick.                                    *)

\* _select_dispatch_target: a runner whose running rows leave it a slot.  Any of the runners
\* may be missing from the registry, and any may be the one heard of last.
Target(p) == Cardinality({t \in Running : row[t].owner = p}) < 1

\* Mutant: a task that was claimed before keeps its epoch.
NextEpochKept(t) == IF row[t].epoch = 0 THEN 1 ELSE row[t].epoch

\* claim_task_lease: the next epoch, if the row is still pending.
NextEpoch(t) == row[t].epoch + 1

\* _dispatch_db, one row of it.
Claim(t, p) ==
  /\ manager = "idle" /\ row[t].status = "pending" /\ claims < MaxClaims
  /\ Limit = 0 \/ Cardinality(Running) < Limit
  /\ Target(p)
  /\ row' = [row EXCEPT ![t] = [status |-> "running", owner |-> p, epoch |-> NextEpoch(t),
                                lease |-> "live"]]
  /\ claims' = claims + 1
  /\ UNCHANGED <<lock, entry, exec, manager, stale, faults>>

\* Mutant: only rows without a deadline are taken.
ExpiredNull == {t \in Running : row[t].lease = "none"}

\* recover_stale_running_tasks reads the rows whose lease has expired, removes the directory
\* of each task with the lock in it, and writes all rows by their key, whatever they are then.
Expired == {t \in Running : row[t].lease = "expired"}

SweepRead ==
  /\ manager = "idle" /\ Expired # {}
  /\ manager' = "clean" /\ stale' = Expired
  /\ UNCHANGED <<row, lock, entry, exec, faults, claims>>

SweepClean ==
  /\ manager = "clean" /\ manager' = "commit"
  /\ lock' = [t \in Tasks |-> IF t \in stale THEN NoLock ELSE lock[t]]
  /\ UNCHANGED <<row, entry, exec, stale, faults, claims>>

SweepCommit ==
  /\ manager = "commit" /\ manager' = "idle" /\ stale' = {}
  /\ row' = [t \in Tasks |-> IF t \in stale THEN Released(row[t], "pending") ELSE row[t]]
  /\ UNCHANGED <<lock, entry, exec, faults, claims>>

\* The transaction fails, or the manager ends and starts again.
SweepFails ==
  /\ manager # "idle" /\ manager' = "idle" /\ stale' = {} /\ Fault
  /\ UNCHANGED <<row, lock, entry, exec, claims>>

\* A supervisor of some pod renews the lease of the row.
Renewed(t) == \E i \in 1 .. Slots : exec[i].sup = "on" /\ exec[i].task = t /\ Owns(i)

\* The lease runs out: nobody renews it, or the heartbeats do not get through.
Expire(t) ==
  /\ row[t].lease = "live"
  /\ IF Renewed(t) THEN Fault ELSE UNCHANGED faults
  /\ row' = [row EXCEPT ![t].lease = "expired"]
  /\ UNCHANGED <<lock, entry, exec, manager, stale, claims>>

-----------------------------------------------------------------------------
(* A runner: the assignment loop and _run_task_locally.                    *)

\* Mutant: the entry of an earlier claim of the task does not count.
HasSlotForRow(p) == \A t \in Tasks : entry[p][t] = 0 \/ entry[p][t] # row[t].epoch

\* available_slots, with the one slot a pod has.
HasSlot(p) == \A t \in Tasks : entry[p][t] = 0

FreeSlot(i) == exec[i].pc = "free" /\ \A j \in 1 .. i - 1 : exec[j].pc # "free"

\* _run_task_locally: an entry and a thread with the epoch that was read.
RunLocally(p, t, i) ==
  /\ entry' = [entry EXCEPT ![p][t] = row[t].epoch]
  /\ exec' = [exec EXCEPT ![i] = [Free EXCEPT !.pc = "check", !.task = t, !.pod = p,
                                              !.epoch = row[t].epoch]]

\* A row of this runner with time left is run.
Poll(p) ==
  /\ HasSlot(p)
  /\ \E t \in Running : \E i \in 1 .. Slots :
       /\ row[t].owner = p /\ row[t].lease # "expired" /\ FreeSlot(i)
       /\ RunLocally(p, t, i)
  /\ UNCHANGED <<row, lock, manager, stale, faults, claims>>

\* The pod's container starts again: its threads are gone, its locks another process's.
Crash(p) ==
  /\ Fault
  /\ exec' = [i \in 1 .. Slots |-> IF exec[i].pod = p THEN Free ELSE exec[i]]
  /\ entry' = [entry EXCEPT ![p] = [t \in Tasks |-> 0]]
  /\ lock' = [t \in Tasks |-> IF lock[t].worker = p THEN [lock[t] EXCEPT !.current = FALSE] ELSE lock[t]]
  /\ UNCHANGED <<row, manager, stale, claims>>

-----------------------------------------------------------------------------
(* TaskRunner.execute_task.                                                *)

At(i, pc) == exec[i].pc = pc
GoTo(i, pc) == exec' = [exec EXCEPT ![i].pc = pc]

Mine(i) == [worker |-> exec[i].pod, epoch |-> exec[i].epoch, current |-> TRUE]

\* _prepare_task_execution reads the row.
Check(i) ==
  /\ At(i, "check") /\ GoTo(i, IF Owns(i) THEN "lock" ELSE "error")
  /\ UNCHANGED <<row, lock, entry, manager, stale, faults, claims>>

\* _acquire_execution_lock, with the row as it was read: the lock of any other owner, epoch or
\* process is stale, and so is any lock under an expired lease.
LockIsStale(i) == lock[exec[i].task] # Mine(i) \/ row[exec[i].task].lease = "expired"

Lock(i) ==
  LET held == lock[exec[i].task] # NoLock
  IN  /\ At(i, "lock") \/ At(i, "relock")
      /\ lock' = IF held THEN lock ELSE [lock EXCEPT ![exec[i].task] = Mine(i)]
      /\ GoTo(i, CASE ~held -> "save"
                   [] held /\ At(i, "lock") /\ LockIsStale(i) -> "unlink"
                   [] OTHER -> "error")
      /\ UNCHANGED <<row, entry, manager, stale, faults, claims>>

\* The file is removed, whosever it is by now, and the attempt made once more.
Unlink(i) ==
  /\ At(i, "unlink") /\ GoTo(i, "relock")
  /\ lock' = [lock EXCEPT ![exec[i].task] = NoLock]
  /\ UNCHANGED <<row, entry, manager, stale, faults, claims>>

\* save_resolved_config_snapshot renews the lease; then the supervisor starts and the run with
\* it.  A lost lease, or any error of the preparation, ends it with the lock left behind.
Save(i) ==
  /\ At(i, "save")
  /\ \/ /\ Owns(i)
        /\ row' = [row EXCEPT ![exec[i].task].lease = "live"]
        /\ exec' = [exec EXCEPT ![i] = [@ EXCEPT !.pc = "work", !.locked = TRUE, !.sup = "on"]]
        /\ UNCHANGED faults
     \/ ~Owns(i) /\ GoTo(i, "error") /\ UNCHANGED <<row, faults>>
     \/ Fault /\ GoTo(i, "error") /\ UNCHANGED row
  /\ UNCHANGED <<lock, entry, manager, stale, claims>>

\* Orchestrator.execute returns, stopped or not, or raises (module Pipeline).
Work(i) ==
  /\ At(i, "work") /\ \E pc \in {"result", "error"} : GoTo(i, pc)
  /\ UNCHANGED <<row, lock, entry, manager, stale, faults, claims>>

\* _persist_task_result: finalize_task_result, with its guard; an exception leads to the error path.
Result(i) ==
  /\ At(i, "result")
  /\ \/ /\ Owns(i) /\ GoTo(i, "post") /\ UNCHANGED faults
        /\ \E status \in {"passed", "failed"} :
             row' = [row EXCEPT ![exec[i].task] = Released(@, status)]
     \/ ~Owns(i) /\ GoTo(i, "post") /\ UNCHANGED <<row, faults>>
     \/ Fault /\ GoTo(i, "error") /\ UNCHANGED row
  /\ UNCHANGED <<lock, entry, manager, stale, claims>>

\* _persist_task_error: finalize_task_error changes the loaded row if it is running, then looks
\* at the epoch; whatever it says, the caller commits the change.  Failures are swallowed.
Error(i) ==
  /\ At(i, "error")
  /\ GoTo(i, IF exec[i].task \in Running THEN "commit" ELSE "post")
  /\ UNCHANGED <<row, lock, entry, manager, stale, faults, claims>>

ErrorCommit(i) ==
  /\ At(i, "commit") /\ GoTo(i, "post")
  /\ \/ row' = [row EXCEPT ![exec[i].task] = Released(@, "error")] /\ UNCHANGED faults
     \/ Fault /\ UNCHANGED row
  /\ UNCHANGED <<lock, entry, manager, stale, claims>>

\* What is left when the thread has ended: its supervisor, if that goes on.
Ended(e) == IF e.sup = "on" THEN [e EXCEPT !.pc = "over"] ELSE Free

\* The last lines: the report of the clean-up is stored, the entry of the task is dropped, and
\* then the lock, if the preparation succeeded.  An error in the first leaves the rest undone.
Post(i) ==
  /\ At(i, "post")
  /\ \/ /\ GoTo(i, "clear") /\ UNCHANGED faults
        /\ entry' = [entry EXCEPT ![exec[i].pod][exec[i].task] = 0]
     \/ Fault /\ exec' = [exec EXCEPT ![i] = Ended(@)] /\ UNCHANGED entry
  /\ UNCHANGED <<row, lock, manager, stale, claims>>

Clear(i) ==
  /\ At(i, "clear") /\ exec' = [exec EXCEPT ![i] = Ended(@)]
  /\ lock' = IF exec[i].locked THEN [lock EXCEPT ![exec[i].task] = NoLock] ELSE lock
  /\ UNCHANGED <<row, entry, manager, stale, faults, claims>>

\* Mutant: only a cancelled task stops its run.
SuperviseCancelled(i) ==
  /\ exec[i].sup = "on"
  /\ exec' = IF row[exec[i].task].status # "cancelled" THEN exec
             ELSE [exec EXCEPT ![i] = IF @.pc = "over" THEN Free
                                      ELSE [@ EXCEPT !.sup = "off", !.stop = TRUE]]
  /\ UNCHANGED <<row, lock, entry, manager, stale, faults, claims>>

\* _supervise_running_task: it renews the lease of the row it owns, and stops the run and ends
\* with any other, also when the thread it supervises is long over.  Its stop after three
\* heartbeats that wrote nothing adds none: the row is read before each of them.
Supervise(i) ==
  /\ exec[i].sup = "on"
  /\ IF Owns(i)
     THEN row' = [row EXCEPT ![exec[i].task].lease = "live"] /\ UNCHANGED exec
     ELSE /\ exec' = [exec EXCEPT ![i] = IF @.pc = "over" THEN Free
                                         ELSE [@ EXCEPT !.sup = "off", !.stop = TRUE]]
          /\ UNCHANGED row
  /\ UNCHANGED <<lock, entry, manager, stale, faults, claims>>

-----------------------------------------------------------------------------
(* The task API.                                                           *)

\* cancel_task, and its clearing of the lock.
Cancel(t) ==
  /\ row[t].status \in {"pending", "running"}
  /\ row' = [row EXCEPT ![t] = Released(@, "cancelled")]
  /\ lock' = [lock EXCEPT ![t] = NoLock]
  /\ UNCHANGED <<entry, exec, manager, stale, faults, claims>>

\* restart_task, of a task in any state: the directory goes, the row is pending.
Restart(t) ==
  /\ row[t].epoch > 0
  /\ row' = [row EXCEPT ![t] = Released(@, "pending")]
  /\ lock' = [lock EXCEPT ![t] = NoLock]
  /\ UNCHANGED <<entry, exec, manager, stale, faults, claims>>

Manager == SweepRead \/ SweepClean \/ SweepCommit

Thread(i) ==
  \/ Check(i) \/ Lock(i) \/ Unlink(i) \/ Save(i) \/ Result(i)
  \/ Error(i) \/ ErrorCommit(i) \/ Post(i) \/ Clear(i)

Next ==
  \/ Manager \/ SweepFails
  \/ \E t \in Tasks : Expire(t) \/ Cancel(t) \/ Restart(t) \/ \E p \in Pods : Claim(t, p)
  \/ \E p \in Pods : Poll(p) \/ Crash(p)
  \/ \E i \in 1 .. Slots : Thread(i) \/ Work(i) \/ Supervise(i)

\* A lease that no supervisor renews runs out.
TimeOut(t) == ~Renewed(t) /\ Expire(t)

\* Agents may work for ever unless they are stopped.
Fairness ==
  /\ WF_vars(Manager)
  /\ \A t \in Tasks : WF_vars(TimeOut(t)) /\ WF_vars(\E p \in Pods : Claim(t, p))
  /\ \A p \in Pods : WF_vars(Poll(p))
  /\ \A i \in 1 .. Slots : /\ WF_vars(Thread(i)) /\ WF_vars(Supervise(i))
                           /\ WF_vars(exec[i].stop /\ Work(i))

Spec == Init /\ [][Next]_vars /\ Fairness

-----------------------------------------------------------------------------
(* Properties.                                                             *)

Executing(i) == exec[i].pc \in Busy

\* A pod's clean-up before a task kills every agent of the pod, so no two executions of a pod
\* may overlap, whatever restarts, re-claims and crashes came between.
OnePerPod ==
  \A i, j \in 1 .. Slots : i # j /\ Executing(i) /\ Executing(j) => exec[i].pod # exec[j].pod

\* Executions of one task that overlap, the older of which has lost its lease, are told apart
\* by their epochs, which is all that fences the older one off.
FencedByEpoch ==
  \A i, j \in 1 .. Slots :
    i # j /\ Executing(i) /\ Executing(j) /\ exec[i].task = exec[j].task => exec[i].epoch # exec[j].epoch

\* An execution that has lost its row to a sweep, another claim or a user ends, wherever it
\* is by then: an agent that works for ever has only its supervisor to stop it.
SupersededEnds == \A i \in 1 .. Slots : Executing(i) /\ ~Owns(i) ~> ~Executing(i)

\* The runner's table has an entry of no thread (a failed last transaction): it polls no more.
Leaked(p) ==
  \E t \in Tasks : entry[p][t] # 0 /\ ~\E i \in 1 .. Slots : Executing(i) /\ exec[i].pod = p /\ exec[i].task = t

\* A running row that nobody executes gets an execution or is taken back, unless its runner's
\* table leaks.
OrphanLeaves ==
  \A t \in Tasks : \A p \in Pods :
    LET orphan == /\ row[t].status = "running" /\ row[t].owner = p
                  /\ ~\E i \in 1 .. Slots : Executing(i) /\ Owns(i) /\ exec[i].task = t
    IN  orphan ~> (~orphan \/ Leaked(p))

(* Statements the code does not keep (README, section 4).                  *)

\* The execution that owns its row holds its lock while it works.
OwnerHoldsLock ==
  \A i \in 1 .. Slots : exec[i].pc = "work" /\ Owns(i) => lock[exec[i].task] = Mine(i)

\* A finished task stays finished until it is restarted.
FinishedStays ==
  [][\A t \in Tasks : row[t].status \in {"passed", "failed"} /\ row'[t].status # row[t].status =>
       \E u \in Tasks : u = t /\ Restart(u)]_vars

\* A running row that nobody executes is taken back, also when a runner's table leaks.
AnyOrphanLeaves ==
  \A t \in Tasks : \A p \in Pods :
    LET orphan == /\ row[t].status = "running" /\ row[t].owner = p
                  /\ ~\E i \in 1 .. Slots : Executing(i) /\ Owns(i) /\ exec[i].task = t
    IN  orphan ~> ~orphan
=============================================================================
