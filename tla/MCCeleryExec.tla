--------------------------- MODULE MCCeleryExec ---------------------------
(* Instances of CeleryExec for TLC.  A behaviour starts with one of the budgets *)
(* of its run; within it, faults and calls come in every order and place.      *)
EXTENDS CeleryExec, TLC

NoFaults == [crash |-> 0, redeliver |-> 0, restart |-> 0, stall |-> 0, scan |-> 0,
             early |-> 0, request |-> 0, db |-> 0]

\* The broker delivers a message again and a child dies.
Redelivery == [NoFaults EXCEPT !.crash = 1, !.redeliver = 1, !.scan = 1]

\* A transaction raises.
Database == [NoFaults EXCEPT !.db = 1, !.redeliver = 1]

\* A user calls the API and a transaction raises.
Restart == [NoFaults EXCEPT !.request = 1, !.db = 1]

\* A user calls the API while the stale scan is at work.
Race == [NoFaults EXCEPT !.request = 1, !.scan = 1, !.early = 1]

\* A user calls the API.
Control == [NoFaults EXCEPT !.request = 1]

\* The stale scan works on a database and heartbeats that may be slow.
Stall == [NoFaults EXCEPT !.stall = 1, !.scan = 1, !.early = 1, !.redeliver = 1]

\* The dispatcher restarts; the stale scan may start before anything is orphaned.
Recovery == [NoFaults EXCEPT !.restart = 1, !.scan = 1, !.early = 1]

OneMessage   == {Redelivery, Database, Restart, Race, Stall}
TwoMessages  == {Control, Recovery}
Redeliveries == {Redelivery}

\* A child dies, the stale scan runs as often as there is something to do.
Endless == {[NoFaults EXCEPT !.crash = 1, !.scan = 4]}

Symmetry == Permutations(Workers)
=============================================================================
