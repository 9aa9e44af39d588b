----------------------------- MODULE ControlNet -----------------------------
(***************************************************************************)
(* What the manager and the runners of the V3 control plane share: the     *)
(* database row of a task and the TCP connections.                         *)
(*                                                                         *)
(* Source: app/service/sched_proto.py, the V3 callbacks of task_service.py *)
(* and the statements of task_repository.py they use.  A transaction that  *)
(* reads a row without a lock and writes it later is two steps wherever    *)
(* what it read matters; a guarded UPDATE is one.                          *)
(***************************************************************************)
EXTENDS Naturals, Sequences, FiniteSets

CONSTANTS
  Tasks,     \* task ids
  Workers,   \* runner pods, by WORKER_ID
  None,      \* SQL NULL, and "no task"
  MaxConn,   \* bound: connections ever opened
  MaxClaims, \* bound: claims that succeed, in any budget
  Faults     \* the combinations of faults and API calls, each a budget

Budgets == [claim : 0 .. MaxClaims,  \* claims that succeed
            drop : Nat,     \* connections that break
            crash : Nat,    \* runner pods that restart
            die : Nat,      \* task processes that are killed by the system
            refuse : Nat,   \* task processes that cannot be spawned
            restart : Nat,  \* manager restarts
            late : Nat,     \* heartbeats of a connected runner that come too late
            slow : Nat,     \* steps that take longer than a grace period
            db : Nat,       \* transactions that raise
            submit : Nat,   \* submissions by the API
            cancel : Nat,   \* cancel calls
            rerun : Nat,    \* restart calls
            delete : Nat]   \* delete calls

ASSUME NetAssumption ==
  /\ IsFiniteSet(Tasks) /\ None \notin Tasks \cup Workers
  /\ MaxConn \in Nat /\ MaxClaims \in Nat
  /\ Faults \subseteq Budgets

Conns == 1 .. MaxConn

Active   == {"pending", "running"}
Terminal == {"passed", "failed", "error", "cancelled"}

\* age is that of dispatch_started_at against ORPHAN_GRACE_SECONDS.
Row == [status : Active \cup Terminal, deleted : BOOLEAN,
        disp : Workers \cup {None}, epoch : 0 .. MaxClaims,
        age : {"none", "fresh", "old"}]

\* A task may have been cancelled before the manager starts.
NewRow == [status |-> "pending", deleted |-> FALSE, disp |-> None, epoch |-> 0, age |-> "none"]
CancelledRow == [NewRow EXCEPT !.status = "cancelled"]

\* The states a worker reports at the end of a task; "refused" is a FAILED with
\* worker_busy or spawn_failed.  STARTING changes nothing in the manager that
\* it acts on, and heartbeats are delivered at once (Heartbeat in ControlPlane).
Reports == {"finished", "failed", "refused", "cancelled"}

Hello        == [type |-> "hello"]
State(t, s)  == [type |-> "state", task |-> t, state |-> s]
RunCmd(t, e) == [type |-> "run", task |-> t, epoch |-> e]
CancelCmd(t) == [type |-> "cancel", task |-> t]

UpMsg   == {Hello} \cup {State(t, s) : t \in Tasks, s \in Reports}
DownMsg == {RunCmd(t, e) : t \in Tasks, e \in 1 .. MaxClaims} \cup {CancelCmd(t) : t \in Tasks}

\* A connection: its worker (None: never opened), whether packets still flow,
\* and the messages under way in both directions.
Conn == [worker : Workers \cup {None}, open : BOOLEAN, up : Seq(UpMsg), down : Seq(DownMsg)]
NoConn == [worker |-> None, open |-> FALSE, up |-> <<>>, down |-> <<>>]

VARIABLES
  row,    \* the database
  chan,   \* the connections, by number
  budget  \* what is left of the budget

shared == <<row, chan, budget>>

SharedTypeOK ==
  /\ row \in [Tasks -> Row]
  /\ chan \in [Conns -> Conn]
  /\ budget \in Budgets

SharedInit ==
  /\ row \in [Tasks -> {NewRow, CancelledRow}]
  /\ chan = [c \in Conns |-> NoConn]
  /\ budget \in Faults

Spend(kind) == budget[kind] > 0 /\ budget' = [budget EXCEPT ![kind] = @ - 1]

\* A send: the message is under way, or lost if the peer is gone and the socket
\* does not know it yet.
PushDown(c, m) == chan' = [chan EXCEPT ![c].down = IF chan[c].open THEN Append(@, m) ELSE @]
PushUp(c, m)   == chan' = [chan EXCEPT ![c].up   = IF chan[c].open THEN Append(@, m) ELSE @]

-----------------------------------------------------------------------------
(* What the writers of a row set.                                          *)

\* claim_task_lease: only a pending row is claimed.
Claimable(r)  == r.status = "pending" /\ ~ r.deleted
ClaimedAgain(r, w) ==  \* mutant: lease_epoch stays
  [r EXCEPT !.status = "running", !.disp = w, !.age = "fresh"]
Claimed(r, w) == [r EXCEPT !.status = "running", !.disp = w, !.epoch = @ + 1, !.age = "fresh"]

\* _v3_requeue_task: any status but pending is reset.  One step: whatever status
\* but pending was read, the row is reset at the write, and one that is pending
\* by then is not changed by it.
RequeuedAgain(r) == [r EXCEPT !.status = "pending"]  \* mutant: the lease stays
Requeued(r) ==
  IF r.status = "pending" THEN r
  ELSE [r EXCEPT !.status = "pending", !.disp = None, !.age = "none"]

\* _v3_finalize reads the row, keeps one that is terminal, and writes the status
\* of another.
EndedNever(t) == FALSE  \* mutant: a terminal row is not kept
Ended(t) == row[t].status \in Terminal
OutcomeRaw(s) == s  \* mutant: the mapping is not applied
Outcome(s) == CASE s = "finished" -> "passed"
                [] s \in {"failed", "refused"} -> "failed"
                [] s = "cancelled" -> "cancelled"

\* finalize_task_result and finalize_task_error.
Settled(r, s) == [r EXCEPT !.status = s, !.disp = None, !.age = "none"]
=============================================================================
