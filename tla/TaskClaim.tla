----------------------------- MODULE TaskClaim -----------------------------
(***************************************************************************)
(* What the execution path promises about a task, whatever is redelivered, *)
(* reset or called in between: only a claim changes its holder and only a  *)
(* live task is claimed; it runs only after a claim put it back to         *)
(* pending; it passes or fails only while it runs.  Anyone may put tasks   *)
(* back to pending, abort or cancel them.                                  *)
(*                                                                         *)
(* CeleryExec implements this specification, see ImplementsTaskClaim; that *)
(* a result is the holder's own is ResultByClaimant.                       *)
(***************************************************************************)
CONSTANTS Tasks, Workers, None

VARIABLES
  status,  \* the status a user sees
  holder   \* the pod that claimed the task last

vars == <<status, holder>>

Init ==
  /\ status = [t \in Tasks |-> "pending"]
  /\ holder = [t \in Tasks |-> None]

\* A pod takes a task that is waiting, or takes it over from another pod.
Claim(t, w) ==
  /\ status[t] \in {"pending", "running"}
  /\ status' = [status EXCEPT ![t] = "pending"]
  /\ holder' = [holder EXCEPT ![t] = w]

\* The task starts to run for its holder.
Start(t) ==
  /\ status[t] = "pending" /\ holder[t] \in Workers
  /\ status' = [status EXCEPT ![t] = "running"]
  /\ UNCHANGED holder

\* The run of the holder ends.
Finish(t) ==
  /\ status[t] = "running" /\ holder[t] \in Workers
  /\ \E s \in {"passed", "failed", "error"} : status' = [status EXCEPT ![t] = s]
  /\ UNCHANGED holder

\* A user, a recovery loop or an error takes tasks away from their pods.
Interrupt(T) ==
  /\ \E s \in {"pending", "error", "cancelled"} :
       status' = [t \in Tasks |-> IF t \in T THEN s ELSE status[t]]
  /\ UNCHANGED holder

Next ==
  \/ \E t \in Tasks : (\E w \in Workers : Claim(t, w)) \/ Start(t) \/ Finish(t)
  \/ \E T \in SUBSET Tasks : Interrupt(T)

Spec == Init /\ [][Next]_vars
=============================================================================
