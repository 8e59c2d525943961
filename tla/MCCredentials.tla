--------------------------- MODULE MCCredentials ---------------------------
(* A process with a JWT of its own in the environment and one without; or    *)
(* two threads of a process without.                                         *)
EXTENDS Credentials, TLC

CONSTANTS a, b, t1, t2

OfTwo == t1 :> a @@ t2 :> b
OfOne == t1 :> b @@ t2 :> b
MCEnvJWT == a :> [exp |-> 1, secret |-> TRUE] @@ b :> None
=============================================================================
