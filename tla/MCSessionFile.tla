---------------------------- MODULE MCSessionFile ----------------------------
(* Two threads of one process and a second process.                         *)
EXTENDS SessionFile, TLC

CONSTANTS p1, p2, t1, t2, t3

MCOwner == t1 :> p1 @@ t2 :> p1 @@ t3 :> p2
=============================================================================
