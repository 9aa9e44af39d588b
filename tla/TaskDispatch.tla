---------------------------- MODULE TaskDispatch ----------------------------
(***************************************************************************)
(* What the V3 control plane promises about a task, whatever is lost,      *)
(* reconciled, restarted or reported in between: only a waiting task is    *)
(* dispatched, every dispatch has a number of its own, a runner begins a   *)
(* dispatch at most once and only if it is the one that was chosen, and a  *)
(* task ends only while it is waiting or running - or for a transaction    *)
(* that had read it as such before: writers of an end read the row first   *)
(* and do not lock it.  Anyone may put tasks back.                         *)
(*                                                                         *)
(* ControlPlane implements this specification, see ImplementsTaskDispatch. *)
(***************************************************************************)
EXTENDS Naturals, FiniteSets

CONSTANTS Tasks, Workers

VARIABLES
  status,  \* the status a user sees
  given,   \* the dispatches, as <<task, number, worker>>
  begun,   \* those for which a process was started
  seen     \* the tasks some open transaction has read as waiting or running

vars == <<status, given, begun, seen>>

Init ==
  /\ status \in [Tasks -> {"pending", "cancelled"}]
  /\ given = {}
  /\ begun = {}
  /\ seen = {}

Dispatch(t, w) ==
  LET earlier == {d \in given : d[1] = t}
  IN  /\ status[t] = "pending"
      /\ status' = [status EXCEPT ![t] = "running"]
      /\ given' = given \cup {<<t, Cardinality(earlier) + 1, w>>}
      /\ UNCHANGED <<begun, seen>>

Begin(d) ==
  /\ d \in given \ begun
  /\ begun' = begun \cup {d}
  /\ UNCHANGED <<status, given, seen>>

Look(t) ==
  /\ status[t] \in {"pending", "running"}
  /\ seen' \subseteq seen \cup {t}
  /\ UNCHANGED <<status, given, begun>>

\* Several transactions may have read t; others may go on after this one.
End(t) ==
  /\ status[t] \in {"pending", "running"} \/ t \in seen
  /\ \E s \in {"passed", "failed", "error", "cancelled"} : status' = [status EXCEPT ![t] = s]
  /\ seen' \subseteq seen
  /\ UNCHANGED <<given, begun>>

PutBack(T) ==
  /\ status' = [t \in Tasks |-> IF t \in T THEN "pending" ELSE status[t]]
  /\ seen' \subseteq seen
  /\ UNCHANGED <<given, begun>>

\* Transactions raise, or find nothing to write.
Forget ==
  /\ seen' \subseteq seen
  /\ UNCHANGED <<status, given, begun>>

Next ==
  \/ Forget
  \/ \E t \in Tasks : (\E w \in Workers : Dispatch(t, w)) \/ Look(t) \/ End(t)
  \/ \E d \in given : Begin(d)
  \/ \E T \in SUBSET Tasks : PutBack(T)

Spec == Init /\ [][Next]_vars
=============================================================================
