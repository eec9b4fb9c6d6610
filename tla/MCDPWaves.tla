------------------------------ MODULE MCDPWaves -------------------------------
(***************************************************************************)
(* Two engines and two front ends.                                         *)
(***************************************************************************)
EXTENDS DPWaves, TLC

CONSTANTS f1, f2

\* The third request is a second one of the first front end.
MCHome == 1 :> [front |-> f1, engine |-> 1] @@ 2 :> [front |-> f2, engine |-> 0]
              @@ 3 :> [front |-> f1, engine |-> 0]

Budget(R, drops, n) ==
    [reqs |-> R, drops |-> drops, pauses |-> n, stall |-> FALSE]

\* Two requests, of two front ends or of one; a request that is dropped; a
\* request and a pause; two requests of one front end whose second note may wait
\* behind an update.
MCBudgets == {Budget({1, 2}, 0, 0), Budget({1, 3}, 0, 0),
              Budget({1}, 1, 0), Budget({1}, 0, 1),
              [Budget({1, 3}, 0, 0) EXCEPT !.stall = TRUE]}

\* A request that is dropped, and one that is not.
MCDropped == {Budget({1, 2}, 1, 0)}
================================================================================
