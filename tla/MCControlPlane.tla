--------------------------- MODULE MCControlPlane ---------------------------
(***************************************************************************)
(* Budgets and symmetry for TLC.  A behaviour starts with one of the       *)
(* budgets of its run.                                                     *)
(***************************************************************************)
EXTENDS ControlPlane

NoFaults == [claim |-> 2, drop |-> 0, crash |-> 0, die |-> 0, refuse |-> 0, restart |-> 0,
             late |-> 0, slow |-> 0, db |-> 0, submit |-> 0,
             cancel |-> 0, rerun |-> 0, delete |-> 0]

\* What goes wrong in the pods, the network, the manager and in time.
Pod       == [NoFaults EXCEPT !.die = 1, !.refuse = 1]
PodAndDb  == [Pod EXCEPT !.db = 1]
Crash     == [NoFaults EXCEPT !.crash = 1, !.claim = 1]
Drop      == [NoFaults EXCEPT !.drop = 1]
Restarted == [NoFaults EXCEPT !.restart = 1, !.claim = 1]
Delays    == [NoFaults EXCEPT !.slow = 1, !.late = 1]

\* What users do.
Rerun        == [NoFaults EXCEPT !.rerun = 1]
CancelRerun  == [NoFaults EXCEPT !.rerun = 1, !.cancel = 1]
DeleteRerun  == [NoFaults EXCEPT !.rerun = 1, !.delete = 1]
CancelDelete == [NoFaults EXCEPT !.cancel = 1, !.delete = 1, !.submit = 1, !.claim = 1]
CancelAndDb  == [NoFaults EXCEPT !.cancel = 1, !.claim = 1, !.db = 1]
DeleteAndDb  == [NoFaults EXCEPT !.delete = 1, !.claim = 1, !.db = 1]
LateSubmit   == [NoFaults EXCEPT !.late = 1, !.submit = 1]

Pods     == {Pod}
Network  == {Drop, Delays, CancelRerun, DeleteRerun, CancelDelete, LateSubmit}
Recovery == {PodAndDb, Rerun, Restarted, Crash, CancelAndDb, DeleteAndDb}

Symmetry == Permutations(Workers)
=============================================================================
