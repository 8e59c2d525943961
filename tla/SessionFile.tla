----------------------------- MODULE SessionFile -----------------------------
(***************************************************************************)
(* The session file ~/.nerd/session.json (nerd/conf/session.go) and its    *)
(* creation at the start of a command (createFile, command/command.go).    *)
(*                                                                         *)
(* Every operation takes the mutex of the Session of its process, reads    *)
(* the whole document, and a write replaces it: os.Create truncates the    *)
(* file and the encoder writes the new document from offset 0.  Nothing    *)
(* excludes another process.  A read or write system call is one step.     *)
(***************************************************************************)
EXTENDS Naturals

CONSTANTS
  Procs,          \* processes of one user: commands and workers
  Threads,        \* goroutines that use the session of their process
  Owner,          \* the process of each thread
  Values,         \* what a section may hold
  Unset,          \* the section is not in the document
  Empty,          \* the file has no content
  Garbage,        \* the file holds parts of two documents
  Absent,         \* there is no file
  CanCrash        \* whether processes may die

ASSUME OwnerAssumption == Owner \in [Threads -> Procs]
ASSUME UnsetAssumption == Unset \notin Values
ASSUME CrashAssumption == CanCrash \in BOOLEAN

Sections == {"oauth", "jwt", "project"}
Docs == [Sections -> Values \cup {Unset}]
NoDoc == {Empty, Garbage, Absent}

ASSUME ContentAssumption ==
  /\ NoDoc \cap Docs = {}
  /\ Empty # Garbage /\ Empty # Absent /\ Garbage # Absent

\* createFile(loc, "{}")
Fresh == [s \in Sections |-> Unset]

VARIABLES
  file,           \* content of the session file
  proc,           \* each process: off, made the empty file, running
  pc,             \* each thread: where it is in Read or in a Write
  sec,            \* the section it writes, or "none" for Read
  val,            \* what it writes there
  snap,           \* the document it has read
  clean           \* no writes of two processes overlapped, none was cut off

callVars == <<pc, sec, val, snap>>
vars == <<file, proc, callVars, clean>>

TypeOK ==
  /\ file \in Docs \cup NoDoc
  /\ proc \in [Procs -> {"off", "made", "running"}]
  /\ pc \in [Threads -> {"idle", "read", "create", "write"}]
  /\ sec \in [Threads -> Sections \cup {"none"}]
  /\ val \in [Threads -> Values \cup {Unset}]
  /\ snap \in [Threads -> Docs]
  /\ clean \in BOOLEAN

Init ==
  /\ file \in {Absent, Fresh}
  /\ proc = [p \in Procs |-> "off"]
  /\ pc = [t \in Threads |-> "idle"]
  /\ sec = [t \in Threads |-> "none"]
  /\ val = [t \in Threads |-> Unset]
  /\ snap = [t \in Threads |-> Fresh]
  /\ clean = TRUE

\* The sync.Mutex of a Session is held from the call to its return.
Locked(p) == \E t \in Threads : Owner[t] = p /\ pc[t] # "idle"

\* A thread that has read the document it is about to replace.
Replacing(t) == pc[t] \in {"create", "write"}

Goes(t, where) == pc' = [pc EXCEPT ![t] = where] /\ UNCHANGED <<sec, val>>

\* The threads of T hold nothing of a session any more.
Return(T) ==
  /\ pc' = [t \in Threads |-> IF t \in T THEN "idle" ELSE pc[t]]
  /\ sec' = [t \in Threads |-> IF t \in T THEN "none" ELSE sec[t]]
  /\ val' = [t \in Threads |-> IF t \in T THEN Unset ELSE val[t]]
  /\ snap' = [t \in Threads |-> IF t \in T THEN Fresh ELSE snap[t]]

-----------------------------------------------------------------------------
\* Mutant: without O_EXCL the file is truncated.
CreateTruncates(p) ==
  /\ proc[p] = "off"
  /\ file' = Empty /\ proc' = [proc EXCEPT ![p] = "made"]
  /\ UNCHANGED <<callVars, clean>>
\* O_CREATE|O_EXCL makes an empty file, or leaves the one that is there alone.
Create(p) ==
  /\ proc[p] = "off"
  /\ \/ file = Absent /\ file' = Empty /\ proc' = [proc EXCEPT ![p] = "made"]
     \/ file # Absent /\ proc' = [proc EXCEPT ![p] = "running"] /\ UNCHANGED file
  /\ UNCHANGED <<callVars, clean>>
\* f.Write([]byte("{}"))
WriteBraces(p) ==
  /\ proc[p] = "made"
  /\ file' \in IF file = Empty THEN {Fresh} ELSE {Fresh, Garbage}
  /\ proc' = [proc EXCEPT ![p] = "running"]
  /\ UNCHANGED <<callVars, clean>>

Enters(t, s, v) ==
  /\ pc' = [pc EXCEPT ![t] = "read"]
  /\ sec' = [sec EXCEPT ![t] = s] /\ val' = [val EXCEPT ![t] = v]
\* Mutant: the mutex is not taken.
CallNoLock(t) ==
  /\ proc[Owner[t]] = "running" /\ pc[t] = "idle"
  /\ \/ \E s \in Sections, v \in Values : Enters(t, s, v)
     \/ Enters(t, "none", Unset)
  /\ UNCHANGED <<file, proc, snap, clean>>
\* Read, or WriteJWT, WriteOAuth, WriteProject with what goes in the section.
Call(t) ==
  /\ proc[Owner[t]] = "running" /\ pc[t] = "idle" /\ ~Locked(Owner[t])
  /\ \/ \E s \in Sections, v \in Values : Enters(t, s, v)
     \/ Enters(t, "none", Unset)
  /\ UNCHANGED <<file, proc, snap, clean>>

\* readFile fails on what json.Unmarshal cannot parse, and the call returns.
ReadFails(t) ==
  /\ pc[t] = "read" /\ file \notin Docs
  /\ Return({t})
  /\ UNCHANGED <<file, proc, clean>>
\* Mutant: what json.Unmarshal left behind is used, its error is not looked at.
ReadUnparsed(t) ==
  /\ pc[t] = "read"
  /\ snap' = [snap EXCEPT ![t] = file]
  /\ Goes(t, "create")
  /\ UNCHANGED <<file, proc, clean>>
ReadFile(t) ==
  /\ pc[t] = "read" /\ file \in Docs
  /\ IF sec[t] = "none"
     THEN Return({t}) /\ UNCHANGED clean
     ELSE /\ snap' = [snap EXCEPT ![t] = file]
          /\ Goes(t, "create")
          /\ clean' = (clean /\ ~\E u \in Threads : Replacing(u))
  /\ UNCHANGED <<file, proc>>
\* os.Create
Truncate(t) ==
  /\ pc[t] = "create"
  /\ file' = Empty
  /\ Goes(t, "write")
  /\ UNCHANGED <<proc, snap, clean>>
NewDoc(t) == [snap[t] EXCEPT ![sec[t]] = val[t]]
\* Mutant: only the section is written, not the document that was read.
EncodeSection(t) ==
  /\ pc[t] = "write"
  /\ file' \in LET doc == [Fresh EXCEPT ![sec[t]] = val[t]] IN
               IF file = Empty THEN {doc} ELSE {doc, Garbage}
  /\ Return({t})
  /\ UNCHANGED <<proc, clean>>
\* enc.Encode(ss): what another process wrote meanwhile may stick out at the end.
Encode(t) ==
  /\ pc[t] = "write"
  /\ file' \in IF file = Empty THEN {NewDoc(t)} ELSE {NewDoc(t), Garbage}
  /\ Return({t})
  /\ UNCHANGED <<proc, clean>>

Session(t) ==
  Call(t) \/ ReadFails(t) \/ ReadFile(t) \/ Truncate(t) \/ Encode(t)

-----------------------------------------------------------------------------
\* The process ends: regularly, between two calls, or anywhere.
Exit(p) ==
  /\ proc[p] # "off"
  /\ CanCrash \/ (proc[p] = "running" /\ ~Locked(p))
  /\ proc' = [proc EXCEPT ![p] = "off"]
  /\ Return({t \in Threads : Owner[t] = p})
  /\ clean' = (clean /\ proc[p] # "made"
                     /\ ~\E t \in Threads : Owner[t] = p /\ pc[t] = "write")
  /\ UNCHANGED file

Next == \/ \E p \in Procs : Create(p) \/ WriteBraces(p) \/ Exit(p)
        \/ \E t \in Threads : Session(t)

Spec == Init /\ [][Next]_vars

-----------------------------------------------------------------------------
\* The document the users of the session should see: while a thread replaces
\* the file, the one it has read.
Document ==
  IF file \in Docs THEN file
  ELSE IF \E t \in Threads : pc[t] = "write"
       THEN snap[CHOOSE t \in Threads : pc[t] = "write"]
       ELSE Fresh

\* Until the writes of two processes overlap, or a process dies inside one, the
\* file is three registers: a write changes its section and no other, whatever
\* the threads of a process do, and the creation never replaces a session.
Registers == INSTANCE SessionRegisters WITH reg <- Document
ImplementsRegisters == Registers!Spec

\* Until then, a read fails only while another process creates or replaces the
\* file: no thread sees what another thread of its process is writing.
ReadsSucceed ==
  \A t \in Threads :
    clean /\ pc[t] = "read" /\ file \notin Docs =>
      \/ \E u \in Threads : Owner[u] # Owner[t] /\ pc[u] = "write"
      \/ \E p \in Procs : p # Owner[t] /\ proc[p] = "made"
=============================================================================
