-------------------------- MODULE MCModelExecution --------------------------
(* Two runtimes of different sessions, one Run, two Turns, one replacement. *)
EXTENDS ModelExecution, TLC

CONSTANTS p1, p2, r1, c1, d1, m1, o1, s1, s2

MCSessionOf == p1 :> s1 @@ p2 :> s2
=============================================================================
