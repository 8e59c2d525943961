-------------------------- MODULE SessionRegisters --------------------------
(***************************************************************************)
(* What the session file promises its users (SessionInterface,             *)
(* nerd/conf/session.go): three registers, each written at once and alone. *)
(* The promise holds while it is "clean": until the writes of two          *)
(* processes have overlapped or a process has died inside one.             *)
(***************************************************************************)
CONSTANTS
  Values,         \* what a section may hold
  Unset           \* the section is not in the document

VARIABLES
  reg,            \* the sections of the session
  clean           \* the promise still holds

vars == <<reg, clean>>

\* oauth, jwt and project of SessionSnapshot.
Sections == {"oauth", "jwt", "project"}
Docs == [Sections -> Values \cup {Unset}]

Init == reg \in Docs /\ clean = TRUE

\* WriteOAuth, WriteJWT or WriteProject.
Set(s, v) == clean /\ clean' /\ reg' = [reg EXCEPT ![s] = v]

Break == clean' = FALSE /\ reg' \in Docs

Next == (\E s \in Sections, v \in Values \cup {Unset} : Set(s, v)) \/ Break

Spec == Init /\ [][Next]_vars
=============================================================================
