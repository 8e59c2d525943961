------------------------- MODULE SessionFile_proofs -------------------------
(* Proofs about SessionFile: until the writes of two processes overlap or a  *)
(* process dies inside one, the file is three registers, for any number of   *)
(* processes and threads.                                                    *)
EXTENDS SessionFile, TLAPS

-----------------------------------------------------------------------------
(* The inductive invariant.                                                  *)

\* One thread of a process at a time is in an operation of the session, and the
\* file is there as soon as a process has begun.
MutexInv ==
  /\ \A t, u \in Threads :
       Owner[t] = Owner[u] /\ pc[t] # "idle" /\ pc[u] # "idle" => t = u
  /\ \A t \in Threads : pc[t] # "idle" => proc[Owner[t]] = "running"
  /\ \A t \in Threads : Replacing(t) => sec[t] \in Sections
  /\ \A p \in Procs : proc[p] # "off" => file # Absent

\* Who has the file in hand while the promise holds: nobody and it is a document
\* or absent, or one process that has made it, or one thread that replaces what
\* it has read.
CleanInv ==
  /\ file # Garbage
  /\ \A t, u \in Threads : Replacing(t) /\ Replacing(u) => t = u
  /\ \A p, q \in Procs : proc[p] = "made" /\ proc[q] = "made" => p = q
  /\ \A p \in Procs, t \in Threads : proc[p] = "made" => ~Replacing(t)
  /\ \A p \in Procs : proc[p] = "made" => file = Empty
  /\ \A t \in Threads : pc[t] = "create" => file = snap[t]
  /\ \A t \in Threads : pc[t] = "write" => file = Empty
  /\ file = Empty => \/ \E t \in Threads : pc[t] = "write"
                     \/ \E p \in Procs : proc[p] = "made"

IInv == TypeOK /\ MutexInv /\ (clean => CleanInv)

\* The contents of a file are told apart.
LEMMA Contents ==
  /\ Fresh \in Docs
  /\ Empty \notin Docs /\ Garbage \notin Docs /\ Absent \notin Docs
  /\ Empty # Garbage /\ Empty # Absent /\ Garbage # Absent
BY ContentAssumption DEF Fresh, Docs, NoDoc

\* The initial state satisfies the invariant.
LEMMA InitIInv == Init => IInv
<1> SUFFICES ASSUME Init PROVE IInv
  OBVIOUS
<1>1. TypeOK
  BY Contents DEF Init, TypeOK, NoDoc
<1>2. MutexInv
  BY DEF Init, MutexInv, Replacing
<1>3. CleanInv
  BY Contents, OwnerAssumption DEF Init, CleanInv, Replacing
<1>4. QED BY <1>1, <1>2, <1>3 DEF IInv

\* Every step keeps the state well typed.
LEMMA StepTypeOK == TypeOK /\ MutexInv /\ [Next]_vars => TypeOK'
<1> SUFFICES ASSUME TypeOK, MutexInv, [Next]_vars PROVE TypeOK'
  OBVIOUS
<1> USE DEF TypeOK, callVars, Goes
<1>1. ASSUME NEW p \in Procs, Create(p) PROVE TypeOK'
  BY <1>1 DEF Create, NoDoc
<1>2. ASSUME NEW p \in Procs, WriteBraces(p) PROVE TypeOK'
  BY <1>2, Contents DEF WriteBraces, NoDoc
<1>3. ASSUME NEW p \in Procs, Exit(p) PROVE TypeOK'
  <2>1. /\ pc' \in [Threads -> {"idle", "read", "create", "write"}]
        /\ sec' \in [Threads -> Sections \cup {"none"}]
        /\ val' \in [Threads -> Values \cup {Unset}]
        /\ snap' \in [Threads -> Docs]
    BY <1>3, Contents DEF Exit, Return
  <2>2. clean' \in BOOLEAN /\ proc' \in [Procs -> {"off", "made", "running"}]
        /\ UNCHANGED file
    BY <1>3 DEF Exit
  <2>3. QED BY <2>1, <2>2
<1>4. ASSUME NEW t \in Threads, Session(t) PROVE TypeOK'
  <2>1. CASE Call(t)
    BY <2>1 DEF Call, Enters
  <2>2. CASE ReadFails(t)
    BY <2>2, Contents DEF ReadFails, Return
  <2>3. CASE ReadFile(t)
    BY <2>3, Contents DEF ReadFile, Return
  <2>4. CASE Truncate(t)
    BY <2>4 DEF Truncate, NoDoc
  <2>5. CASE Encode(t)
    <3>1. NewDoc(t) \in Docs
      BY <2>5 DEF NewDoc, Docs
    <3>2. file' \in Docs \cup NoDoc
      BY <2>5, <3>1 DEF Encode, NoDoc
    <3>3. QED BY <2>5, <3>2, Contents DEF Encode, Return
  <2>6. QED BY <1>4, <2>1, <2>2, <2>3, <2>4, <2>5 DEF Session
<1>5. CASE UNCHANGED vars
  BY <1>5 DEF vars
<1>6. QED BY <1>1, <1>2, <1>3, <1>4, <1>5 DEF Next

\* A thread enters the session only when no other of its process is in it.
LEMMA StepMutexInv == TypeOK /\ MutexInv /\ [Next]_vars => MutexInv'
<1> SUFFICES ASSUME TypeOK, MutexInv, [Next]_vars PROVE MutexInv'
  OBVIOUS
<1> USE OwnerAssumption, Contents DEF TypeOK, MutexInv, callVars, Goes, Replacing
<1>1. ASSUME NEW p \in Procs, Create(p) PROVE MutexInv'
  BY <1>1 DEF Create
<1>2. ASSUME NEW p \in Procs, WriteBraces(p) PROVE MutexInv'
  BY <1>2 DEF WriteBraces
<1>3. ASSUME NEW p \in Procs, Exit(p) PROVE MutexInv'
  BY <1>3 DEF Exit, Return
<1>4. ASSUME NEW t \in Threads, Session(t) PROVE MutexInv'
  <2>1. CASE Call(t)
    BY <2>1 DEF Call, Enters, Locked
  <2>2. CASE ReadFails(t)
    BY <2>2 DEF ReadFails, Return
  <2>3. CASE ReadFile(t)
    BY <2>3 DEF ReadFile, Return
  <2>4. CASE Truncate(t)
    BY <2>4 DEF Truncate
  <2>5. CASE Encode(t)
    <3>1. NewDoc(t) \in Docs
      BY <2>5 DEF NewDoc, Docs
    <3>2. file' # Absent
      BY <2>5, <3>1 DEF Encode
    <3>3. QED BY <2>5, <3>2 DEF Encode, Return
  <2>6. QED BY <1>4, <2>1, <2>2, <2>3, <2>4, <2>5 DEF Session
<1>5. CASE UNCHANGED vars
  BY <1>5 DEF vars
<1>6. QED BY <1>1, <1>2, <1>3, <1>4, <1>5 DEF Next

\* While the promise holds, the file changes hands in one piece.
LEMMA StepCleanInv ==
  ASSUME TypeOK, MutexInv, [Next]_vars, clean', clean => CleanInv
  PROVE  CleanInv'
<1> USE OwnerAssumption, Contents DEF TypeOK, MutexInv, callVars, Goes, Replacing
<1>1. ASSUME NEW p \in Procs, Create(p) PROVE CleanInv'
  BY <1>1 DEF Create, CleanInv
<1>2. ASSUME NEW p \in Procs, WriteBraces(p) PROVE CleanInv'
  <2>1. file = Empty /\ file' = Fresh
    BY <1>2 DEF WriteBraces, CleanInv
  <2>2. QED BY <1>2, <2>1 DEF WriteBraces, CleanInv
<1>3. ASSUME NEW p \in Procs, Exit(p) PROVE CleanInv'
  <2>1. /\ clean /\ CleanInv /\ UNCHANGED file /\ proc[p] # "made"
        /\ \A u \in Threads : Owner[u] = p => pc[u] # "write"
    BY <1>3 DEF Exit
  <2>2. \A q \in Procs : proc'[q] = "made" <=> proc[q] = "made"
    BY <1>3, <2>1 DEF Exit
  <2>3. \A u \in Threads : pc'[u] = "write" <=> pc[u] = "write"
    BY <1>3, <2>1 DEF Exit, Return
  <2>4. \A u \in Threads :
          Replacing(u)' => pc'[u] = pc[u] /\ snap'[u] = snap[u]
    BY <1>3 DEF Exit, Return
  <2>5. QED BY <2>1, <2>2, <2>3, <2>4 DEF CleanInv
<1>4. ASSUME NEW t \in Threads, Session(t) PROVE CleanInv'
  <2>1. CASE Call(t)
    BY <2>1 DEF Call, Enters, CleanInv
  <2>2. CASE ReadFails(t)
    BY <2>2 DEF ReadFails, Return, CleanInv
  <2>3. CASE ReadFile(t)
    <3>1. CleanInv /\ UNCHANGED <<file, proc>> /\ file \in Docs
      BY <2>3 DEF ReadFile
    <3>2. /\ file # Empty /\ file # Garbage
          /\ \A p \in Procs : proc[p] # "made"
          /\ \A u \in Threads : pc[u] # "write"
      BY <3>1 DEF CleanInv
    <3>3. CASE sec[t] = "none"
      <4>1. \A u \in Threads : Replacing(u)' => Replacing(u) /\ snap'[u] = snap[u]
                                             /\ pc'[u] = pc[u]
        BY <2>3, <3>3 DEF ReadFile, Return
      <4>2. QED BY <3>1, <3>2, <4>1 DEF CleanInv
    <3>4. CASE sec[t] # "none"
      <4>1. \A u \in Threads : ~Replacing(u)
        BY <2>3, <3>4 DEF ReadFile
      <4>2. pc' = [pc EXCEPT ![t] = "create"] /\ snap' = [snap EXCEPT ![t] = file]
        BY <2>3, <3>4 DEF ReadFile
      <4>3. QED BY <3>1, <3>2, <4>1, <4>2 DEF CleanInv
    <3>5. QED BY <3>3, <3>4
  <2>4. CASE Truncate(t)
    BY <2>4 DEF Truncate, CleanInv
  <2>5. CASE Encode(t)
    <3>1. NewDoc(t) \in Docs /\ file = Empty
      BY <2>5 DEF NewDoc, Docs, Encode, CleanInv
    <3>2. file' = NewDoc(t)
      BY <2>5, <3>1 DEF Encode
    <3>3. QED BY <2>5, <3>1, <3>2 DEF Encode, Return, CleanInv
  <2>6. QED BY <1>4, <2>1, <2>2, <2>3, <2>4, <2>5 DEF Session
<1>5. CASE UNCHANGED vars
  BY <1>5 DEF vars, CleanInv
<1>6. QED BY <1>1, <1>2, <1>3, <1>4, <1>5 DEF Next

\* The inductive invariant holds in every state.
THEOREM Invariance == Spec => []IInv
<1>1. IInv /\ [Next]_vars => IInv'
  BY StepTypeOK, StepMutexInv, StepCleanInv DEF IInv
<1>2. QED BY InitIInv, <1>1, PTL DEF Spec

\* The state of the session is always well typed.
THEOREM SessionTyped == Spec => []TypeOK
<1>1. IInv => TypeOK
  BY DEF IInv
<1>2. QED BY Invariance, <1>1, PTL

\* A read fails, while the promise holds, only next to another process that
\* creates or replaces the file.
THEOREM CleanReads == Spec => []ReadsSucceed
<1>1. IInv => ReadsSucceed
  <2> SUFFICES ASSUME IInv, clean, NEW t \in Threads, pc[t] = "read", file \notin Docs
               PROVE  \/ \E u \in Threads : Owner[u] # Owner[t] /\ pc[u] = "write"
                      \/ \E p \in Procs : p # Owner[t] /\ proc[p] = "made"
    BY DEF ReadsSucceed
  <2>1. proc[Owner[t]] = "running" /\ file = Empty
    BY OwnerAssumption DEF IInv, TypeOK, MutexInv, CleanInv, NoDoc
  <2>2. CASE \E u \in Threads : pc[u] = "write"
    BY <2>2 DEF IInv, MutexInv
  <2>3. CASE \E p \in Procs : proc[p] = "made"
    BY <2>1, <2>3
  <2>4. QED BY <2>1, <2>2, <2>3 DEF IInv, CleanInv
<1>2. QED BY Invariance, <1>1, PTL

-----------------------------------------------------------------------------
(* The refinement.                                                           *)

\* What the users of the session see is a document.
LEMMA DocumentTyped == TypeOK => Document \in Docs
BY Contents DEF TypeOK, Document

\* The writer of a clean file is the one whose document is seen.
LEMMA Writer ==
  ASSUME TypeOK, CleanInv, NEW t \in Threads, pc[t] = "write"
  PROVE  Document = snap[t]
<1>1. file \notin Docs
  BY Contents DEF CleanInv
<1>2. (CHOOSE u \in Threads : pc[u] = "write") = t
  BY DEF CleanInv, Replacing
<1>3. QED BY <1>1, <1>2 DEF Document

\* A step that leaves the file and its writers alone is not seen.
LEMMA Unseen ==
  ASSUME file' = file, \A t \in Threads : pc'[t] = "write" <=> pc[t] = "write",
         \A t \in Threads : pc[t] = "write" => snap'[t] = snap[t]
  PROVE  Document' = Document
<1>1. CASE file \in Docs
  BY <1>1 DEF Document, Docs, Sections
<1>2. CASE file \notin Docs /\ \E t \in Threads : pc[t] = "write"
  <2>1. (CHOOSE t \in Threads : pc'[t] = "write")
          = (CHOOSE t \in Threads : pc[t] = "write")
    OBVIOUS
  <2> DEFINE w == CHOOSE t \in Threads : pc[t] = "write"
  <2>2. w \in Threads /\ pc[w] = "write"
    BY <1>2
  <2>3. Document = snap[w]
    BY <1>2 DEF Document
  <2>4. Document' = snap'[w]
    BY <1>2, <2>1 DEF Document, Docs, Sections
  <2>5. QED BY <2>2, <2>3, <2>4
<1>3. CASE file \notin Docs /\ ~\E t \in Threads : pc[t] = "write"
  BY <1>3 DEF Document, Docs, Sections, Fresh
<1>4. QED BY <1>1, <1>2, <1>3

\* Every step is a write of one register, breaks the promise, or is not seen.
LEMMA StepSimulation ==
  ASSUME IInv, [Next]_vars, IInv'
  PROVE  [Registers!Next]_<<Document, clean>>
<1> USE OwnerAssumption, Contents DEF IInv, TypeOK, callVars, Goes
<1>1. CASE ~clean'
  <2>1. Document' \in Docs
    BY DEF Document
  <2>2. Registers!Break
    BY <1>1, <2>1 DEF Registers!Break, Registers!Docs, Registers!Sections, Docs, Sections
  <2>3. QED BY <2>2 DEF Registers!Next
<1>2. CASE clean'
  <2>1. clean
    BY <1>2 DEF Next, Create, WriteBraces, Exit, Session, Call, ReadFails, ReadFile,
             Truncate, Encode, vars
  <2>2. CleanInv /\ CleanInv'
    BY <1>2, <2>1
  <2>3. ASSUME NEW p \in Procs, Create(p) PROVE Document' = Document
    <3>1. CASE UNCHANGED file
      BY <2>3, <3>1, Unseen DEF Create
    <3>2. CASE file = Absent /\ file' = Empty
      <4>1. \A t \in Threads : pc[t] # "write"
        BY <2>2, <3>2 DEF CleanInv
      <4>2. QED BY <2>3, <3>2, <4>1 DEF Create, Document, Docs, Sections, Fresh
    <3>3. QED BY <2>3, <3>1, <3>2 DEF Create
  <2>4. ASSUME NEW p \in Procs, WriteBraces(p) PROVE Document' = Document
    <3>1. /\ file = Empty /\ file' = Fresh
          /\ \A t \in Threads : pc[t] # "write"
      BY <2>2, <2>4 DEF WriteBraces, CleanInv, Replacing
    <3>2. QED BY <3>1 DEF Document, Docs, Sections, Fresh
  <2>5. ASSUME NEW p \in Procs, Exit(p) PROVE Document' = Document
    <3>1. \A t \in Threads : Owner[t] = p => pc[t] # "write"
      BY <1>2, <2>5 DEF Exit
    <3>2. QED BY <2>5, <3>1, Unseen DEF Exit, Return
  <2>6. ASSUME NEW t \in Threads, Session(t)
        PROVE  Document' = Document \/ Registers!Next
    <3>1. CASE Call(t)
      BY <3>1, Unseen DEF Call, Enters
    <3>2. CASE ReadFails(t)
      BY <3>2, Unseen DEF ReadFails, Return
    <3>3. CASE ReadFile(t)
      BY <3>3, Unseen DEF ReadFile, Return
    <3>4. CASE Truncate(t)
      <4>1. Document = snap[t]
        BY <2>2, <3>4 DEF Truncate, CleanInv, Document
      <4>2. Document' = snap'[t]
        <5>1. pc'[t] = "write" /\ file' \notin Docs
          BY <3>4 DEF Truncate
        <5>2. (CHOOSE u \in Threads : pc'[u] = "write") = t
          BY <2>2, <5>1 DEF CleanInv, Replacing
        <5>3. QED BY <5>1, <5>2 DEF Document, Docs, Sections
      <4>3. QED BY <3>4, <4>1, <4>2 DEF Truncate
    <3>5. CASE Encode(t)
      <4>1. Document = snap[t] /\ file = Empty
        BY <2>2, <3>5, Writer DEF Encode, CleanInv
      <4>2. NewDoc(t) \in Docs
        BY <3>5 DEF NewDoc, Docs
      <4>3. Document' = NewDoc(t)
        BY <3>5, <4>1, <4>2 DEF Encode, Document, Docs, Sections
      <4>4. sec[t] \in Sections /\ val[t] \in Values \cup {Unset}
        BY <3>5 DEF Encode, MutexInv, Replacing
      <4>5. Registers!Set(sec[t], val[t])
        BY <1>2, <2>1, <4>1, <4>3 DEF Registers!Set, NewDoc
      <4>6. QED BY <4>4, <4>5 DEF Registers!Next, Registers!Sections, Sections
    <3>6. QED BY <2>6, <3>1, <3>2, <3>3, <3>4, <3>5 DEF Session
  <2>7. CASE UNCHANGED vars
    BY <2>7, Unseen DEF vars
  <2>8. QED BY <1>2, <2>1, <2>3, <2>4, <2>5, <2>6, <2>7 DEF Next
<1>3. QED BY <1>1, <1>2

\* The session file implements the three registers of SessionRegisters.
THEOREM Refinement == Spec => ImplementsRegisters
<1>1. Init => Registers!Init
  BY DocumentTyped, InitIInv
     DEF Init, IInv, Registers!Init, Registers!Docs, Registers!Sections, Docs, Sections
<1>2. IInv /\ [Next]_vars /\ IInv' => [Registers!Next]_Registers!vars
  BY StepSimulation DEF Registers!vars
<1>3. QED BY <1>1, <1>2, Invariance, PTL DEF Spec, ImplementsRegisters, Registers!Spec
=============================================================================
