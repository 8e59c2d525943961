---------------------------- MODULE Worker_proofs ----------------------------
(* Proofs about Worker: its types and its safety properties, for every set   *)
(* of runs and of faults.                                                    *)
EXTENDS Worker, TLAPS

-----------------------------------------------------------------------------
(* The inductive invariant.                                                  *)

\* Start has not seen the run yet.
Waiting(r) ==
  \/ r \notin issued \/ r \in queue
  \/ recv \in {"beat", "offer"} /\ got = r

\* A message is in the queue until the receiver has deleted it, and a run is
\* handed over once.
OnceInv ==
  /\ recv = "delete" => got \in queue
  /\ recv \in {"beat", "offer"} => got \in issued \ queue
  /\ \A r \in Runs : Waiting(r) =>
       /\ report[r] = {} /\ ~Executing(r) /\ r \notin ended
       /\ beat[r] = "none" /\ output[r] = {}
  /\ \A r \in Runs : Executing(r) => report[r] = {}

\* What ends the context of a run before its result is known.
KillInv ==
  /\ \A r \in Runs : beat[r] = "cancel" => r \in expired
  /\ OnlyExpiredKilled

\* Until its upload, the dataset of a run is empty, and then it has everything.
OutputInv ==
  /\ main \in {"exec", "wait", "output", "upload"} => output[cur] = {}
  /\ main = "clear" => outdir \subseteq output[cur]

IInv ==
  /\ TypeOK /\ OnceInv /\ KillInv /\ OutputInv
  /\ OneVerdict /\ NoOutputLost /\ RunAccounted

\* The end of a run's execution is the one report of it.
ReportedOnce == \A r \in Runs :
  /\ Executing(r) /\ ~Executing(r)' => report'[r] # {}
  /\ report'[r] # report[r] => Executing(r) /\ ~Executing(r)'
  /\ report[r] # {} => ~Executing(r)'

-----------------------------------------------------------------------------
(* Types.                                                                    *)

\* The initial state satisfies the invariant.
LEMMA InitIInv == Init => IInv
<1> SUFFICES ASSUME Init PROVE IInv
  OBVIOUS
<1>1. TypeOK
  BY DEF Init, TypeOK
<1>2. OnceInv /\ KillInv /\ OutputInv
  BY DEF Init, OnceInv, KillInv, OnlyExpiredKilled, OutputInv, Waiting,
         Executing
<1>3. OneVerdict /\ NoOutputLost /\ RunAccounted
  BY DEF Init, OneVerdict, NoOutputLost, RunAccounted
<1>4. QED BY <1>1, <1>2, <1>3 DEF IInv

\* Every step keeps the state well typed.
LEMMA StepTypeOK == IInv /\ [Next]_vars => TypeOK'
<1> SUFFICES ASSUME TypeOK, OnceInv, [Next]_vars PROVE TypeOK'
  BY DEF IInv
<1> USE DEF serverVars, recvVars, mainVars, dirVars
<1>1. CASE Server
  BY <1>1, TypeOK DEF Server, Enqueue, Expire, TypeOK
<1>2. CASE Receiver
  <2>1. CASE ReceiveCheck
    BY <1>2, <2>1 DEF Receiver, ReceiveCheck, TypeOK
  <2>2. CASE ReceivePoll
    BY <1>2, <2>2 DEF Receiver, ReceivePoll, TypeOK
  <2>3. CASE ReceiveDelete
    BY <1>2, <2>3 DEF Receiver, ReceiveDelete, TypeOK
  <2>4. CASE ReceiveBeat
    BY <1>2, <2>4, OnceInv DEF Receiver, ReceiveBeat, TypeOK, OnceInv
  <2>5. QED BY <1>2, <2>1, <2>2, <2>3, <2>4 DEF Receiver
<1>3. CASE Main
  <2>1. CASE Take
    BY <1>3, <2>1, OnceInv DEF Main, Take, TypeOK, OnceInv
  <2>2. CASE TakeError
    BY <1>3, <2>2 DEF Main, TakeError, TypeOK
  <2>3. CASE Stop
    BY <1>3, <2>3 DEF Main, Stop, TypeOK
  <2>4. CASE ExecStart
    BY <1>3, <2>4 DEF Main, ExecStart, TypeOK
  <2>5. CASE ProcessKilled
    BY <1>3, <2>5 DEF Main, ProcessKilled, TypeOK
  <2>6. CASE Output
    BY <1>3, <2>6 DEF Main, Output, TypeOK
  <2>7. CASE Upload
    BY <1>3, <2>7 DEF Main, Upload, TypeOK
  <2>8. CASE Clear
    BY <1>3, <2>8 DEF Main, Clear, TypeOK
  <2>9. CASE ReportSuccess
    BY <1>3, <2>9 DEF Main, ReportSuccess, Reports, TypeOK
  <2>10. CASE ReportFailure
    BY <1>3, <2>10 DEF Main, ReportFailure, Reports, TypeOK
  <2>11. QED
    BY <1>3, <2>1, <2>2, <2>3, <2>4, <2>5, <2>6, <2>7, <2>8, <2>9, <2>10
       DEF Main
<1>4. CASE Process
  BY <1>4 DEF Process, ProcessWrites, ProcessExits, TypeOK
<1>5. CASE CallerCancel
  BY <1>5 DEF CallerCancel, TypeOK
<1>6. ASSUME NEW r \in Runs, Beat(r) PROVE TypeOK'
  BY <1>6 DEF Beat, BeatExpired, BeatCancel, BeatStop, TypeOK
<1>7. CASE UNCHANGED vars
  BY <1>7 DEF vars, TypeOK
<1>8. QED
  BY <1>1, <1>2, <1>3, <1>4, <1>5, <1>6, <1>7 DEF Next

-----------------------------------------------------------------------------
\* A run goes through the worker once.
LEMMA StepOnceInv == IInv /\ [Next]_vars => OnceInv'
<1> SUFFICES ASSUME TypeOK, OnceInv, [Next]_vars PROVE OnceInv'
  BY DEF IInv
<1> USE DEF serverVars, recvVars, mainVars, dirVars,
        TypeOK, OnceInv, Waiting, Executing
<1>1. CASE Server
  BY <1>1 DEF Server, Enqueue, Expire
<1>2. CASE Receiver
  <2>1. CASE ReceiveCheck
    BY <1>2, <2>1 DEF Receiver, ReceiveCheck
  <2>2. CASE ReceivePoll
    BY <1>2, <2>2 DEF Receiver, ReceivePoll
  <2>3. CASE ReceiveDelete
    BY <1>2, <2>3 DEF Receiver, ReceiveDelete
  <2>4. CASE ReceiveBeat
    BY <1>2, <2>4 DEF Receiver, ReceiveBeat
  <2>5. QED BY <1>2, <2>1, <2>2, <2>3, <2>4 DEF Receiver
<1>3. CASE Main
  <2>1. CASE Take
    BY <1>3, <2>1 DEF Main, Take
  <2>2. CASE TakeError
    BY <1>3, <2>2 DEF Main, TakeError
  <2>3. CASE Stop
    BY <1>3, <2>3 DEF Main, Stop
  <2>4. CASE ExecStart
    BY <1>3, <2>4 DEF Main, ExecStart
  <2>5. CASE ProcessKilled
    BY <1>3, <2>5 DEF Main, ProcessKilled
  <2>6. CASE Output
    BY <1>3, <2>6 DEF Main, Output
  <2>7. CASE Upload
    BY <1>3, <2>7 DEF Main, Upload
  <2>8. CASE Clear
    BY <1>3, <2>8 DEF Main, Clear
  <2>9. CASE ReportSuccess
    BY <1>3, <2>9 DEF Main, ReportSuccess, Reports
  <2>10. CASE ReportFailure
    BY <1>3, <2>10 DEF Main, ReportFailure, Reports
  <2>11. QED
    BY <1>3, <2>1, <2>2, <2>3, <2>4, <2>5, <2>6, <2>7, <2>8, <2>9, <2>10
       DEF Main
<1>4. CASE Process
  BY <1>4 DEF Process, ProcessWrites, ProcessExits
<1>5. CASE CallerCancel
  BY <1>5 DEF CallerCancel
<1>6. ASSUME NEW q \in Runs, Beat(q) PROVE OnceInv'
  BY <1>6 DEF Beat, BeatExpired, BeatCancel, BeatStop
<1>7. CASE UNCHANGED vars
  BY <1>7 DEF vars
<1>8. QED
  BY <1>1, <1>2, <1>3, <1>4, <1>5, <1>6, <1>7 DEF Next

-----------------------------------------------------------------------------
\* Only its own expiry or the end of the worker ends a run early.
LEMMA StepKillInv == IInv /\ [Next]_vars => KillInv'
<1> SUFFICES ASSUME TypeOK, OnceInv, KillInv, [Next]_vars PROVE KillInv'
  BY DEF IInv
<1> USE DEF serverVars, recvVars, mainVars, dirVars,
        TypeOK, OnceInv, KillInv, OnlyExpiredKilled, Waiting, Executing
<1>1. CASE Server
  BY <1>1 DEF Server, Enqueue, Expire
<1>2. CASE Receiver
  <2>1. CASE ReceiveCheck
    BY <1>2, <2>1 DEF Receiver, ReceiveCheck
  <2>2. CASE ReceivePoll
    BY <1>2, <2>2 DEF Receiver, ReceivePoll
  <2>3. CASE ReceiveDelete
    BY <1>2, <2>3 DEF Receiver, ReceiveDelete
  <2>4. CASE ReceiveBeat
    BY <1>2, <2>4 DEF Receiver, ReceiveBeat
  <2>5. QED BY <1>2, <2>1, <2>2, <2>3, <2>4 DEF Receiver
<1>3. CASE Main
  <2>1. CASE Take
    BY <1>3, <2>1 DEF Main, Take
  <2>2. CASE TakeError
    BY <1>3, <2>2 DEF Main, TakeError
  <2>3. CASE Stop
    BY <1>3, <2>3 DEF Main, Stop
  <2>4. CASE ExecStart
    BY <1>3, <2>4 DEF Main, ExecStart, RunCtxDone
  <2>5. CASE ProcessKilled
    BY <1>3, <2>5 DEF Main, ProcessKilled, RunCtxDone
  <2>6. CASE Output
    BY <1>3, <2>6 DEF Main, Output
  <2>7. CASE Upload
    BY <1>3, <2>7 DEF Main, Upload, RunCtxDone
  <2>8. CASE Clear
    BY <1>3, <2>8 DEF Main, Clear
  <2>9. CASE ReportSuccess
    BY <1>3, <2>9 DEF Main, ReportSuccess, Reports
  <2>10. CASE ReportFailure
    BY <1>3, <2>10 DEF Main, ReportFailure, Reports
  <2>11. QED
    BY <1>3, <2>1, <2>2, <2>3, <2>4, <2>5, <2>6, <2>7, <2>8, <2>9, <2>10
       DEF Main
<1>4. CASE Process
  BY <1>4 DEF Process, ProcessWrites, ProcessExits
<1>5. CASE CallerCancel
  BY <1>5 DEF CallerCancel
<1>6. ASSUME NEW q \in Runs, Beat(q) PROVE KillInv'
  BY <1>6 DEF Beat, BeatExpired, BeatCancel, BeatStop
<1>7. CASE UNCHANGED vars
  BY <1>7 DEF vars
<1>8. QED
  BY <1>1, <1>2, <1>3, <1>4, <1>5, <1>6, <1>7 DEF Next

-----------------------------------------------------------------------------
\* An upload takes all of the directory.
LEMMA StepOutputInv == IInv /\ [Next]_vars => OutputInv'
<1> SUFFICES ASSUME TypeOK, OnceInv, OutputInv, [Next]_vars PROVE OutputInv'
  BY DEF IInv
<1> USE DEF serverVars, recvVars, mainVars, dirVars,
        TypeOK, OnceInv, OutputInv, Waiting, Executing
<1>1. CASE Server
  BY <1>1 DEF Server, Enqueue, Expire
<1>2. CASE Receiver
  <2>1. CASE ReceiveCheck
    BY <1>2, <2>1 DEF Receiver, ReceiveCheck
  <2>2. CASE ReceivePoll
    BY <1>2, <2>2 DEF Receiver, ReceivePoll
  <2>3. CASE ReceiveDelete
    BY <1>2, <2>3 DEF Receiver, ReceiveDelete
  <2>4. CASE ReceiveBeat
    BY <1>2, <2>4 DEF Receiver, ReceiveBeat
  <2>5. QED BY <1>2, <2>1, <2>2, <2>3, <2>4 DEF Receiver
<1>3. CASE Main
  <2>1. CASE Take
    BY <1>3, <2>1 DEF Main, Take
  <2>2. CASE TakeError
    BY <1>3, <2>2 DEF Main, TakeError
  <2>3. CASE Stop
    BY <1>3, <2>3 DEF Main, Stop
  <2>4. CASE ExecStart
    BY <1>3, <2>4 DEF Main, ExecStart
  <2>5. CASE ProcessKilled
    BY <1>3, <2>5 DEF Main, ProcessKilled
  <2>6. CASE Output
    BY <1>3, <2>6 DEF Main, Output
  <2>7. CASE Upload
    BY <1>3, <2>7 DEF Main, Upload
  <2>8. CASE Clear
    BY <1>3, <2>8 DEF Main, Clear
  <2>9. CASE ReportSuccess
    BY <1>3, <2>9 DEF Main, ReportSuccess, Reports
  <2>10. CASE ReportFailure
    BY <1>3, <2>10 DEF Main, ReportFailure, Reports
  <2>11. QED
    BY <1>3, <2>1, <2>2, <2>3, <2>4, <2>5, <2>6, <2>7, <2>8, <2>9, <2>10
       DEF Main
<1>4. CASE Process
  BY <1>4 DEF Process, ProcessWrites, ProcessExits
<1>5. CASE CallerCancel
  BY <1>5 DEF CallerCancel
<1>6. ASSUME NEW q \in Runs, Beat(q) PROVE OutputInv'
  BY <1>6 DEF Beat, BeatExpired, BeatCancel, BeatStop
<1>7. CASE UNCHANGED vars
  BY <1>7 DEF vars
<1>8. QED
  BY <1>1, <1>2, <1>3, <1>4, <1>5, <1>6, <1>7 DEF Next

-----------------------------------------------------------------------------
\* A run under way has no result yet.
LEMMA StepOneVerdict == IInv /\ [Next]_vars => OneVerdict'
<1> SUFFICES ASSUME TypeOK, OnceInv, OneVerdict, [Next]_vars PROVE OneVerdict'
  BY DEF IInv
<1> USE DEF serverVars, recvVars, mainVars, dirVars,
        TypeOK, OnceInv, OneVerdict, Executing
<1>1. CASE Server
  BY <1>1 DEF Server, Enqueue, Expire
<1>2. CASE Receiver
  <2>1. CASE ReceiveCheck
    BY <1>2, <2>1 DEF Receiver, ReceiveCheck
  <2>2. CASE ReceivePoll
    BY <1>2, <2>2 DEF Receiver, ReceivePoll
  <2>3. CASE ReceiveDelete
    BY <1>2, <2>3 DEF Receiver, ReceiveDelete
  <2>4. CASE ReceiveBeat
    BY <1>2, <2>4 DEF Receiver, ReceiveBeat
  <2>5. QED BY <1>2, <2>1, <2>2, <2>3, <2>4 DEF Receiver
<1>3. CASE Main
  <2>1. CASE Take
    BY <1>3, <2>1 DEF Main, Take
  <2>2. CASE TakeError
    BY <1>3, <2>2 DEF Main, TakeError
  <2>3. CASE Stop
    BY <1>3, <2>3 DEF Main, Stop
  <2>4. CASE ExecStart
    BY <1>3, <2>4 DEF Main, ExecStart
  <2>5. CASE ProcessKilled
    BY <1>3, <2>5 DEF Main, ProcessKilled
  <2>6. CASE Output
    BY <1>3, <2>6 DEF Main, Output
  <2>7. CASE Upload
    BY <1>3, <2>7 DEF Main, Upload
  <2>8. CASE Clear
    BY <1>3, <2>8 DEF Main, Clear
  <2>9. CASE ReportSuccess
    BY <1>3, <2>9 DEF Main, ReportSuccess, Reports
  <2>10. CASE ReportFailure
    BY <1>3, <2>10 DEF Main, ReportFailure, Reports
  <2>11. QED
    BY <1>3, <2>1, <2>2, <2>3, <2>4, <2>5, <2>6, <2>7, <2>8, <2>9, <2>10
       DEF Main
<1>4. CASE Process
  BY <1>4 DEF Process, ProcessWrites, ProcessExits
<1>5. CASE CallerCancel
  BY <1>5 DEF CallerCancel
<1>6. ASSUME NEW q \in Runs, Beat(q) PROVE OneVerdict'
  BY <1>6 DEF Beat, BeatExpired, BeatCancel, BeatStop
<1>7. CASE UNCHANGED vars
  BY <1>7 DEF vars
<1>8. QED
  BY <1>1, <1>2, <1>3, <1>4, <1>5, <1>6, <1>7 DEF Next

-----------------------------------------------------------------------------
\* Only an uploaded directory is cleared.
LEMMA StepNoOutputLost == IInv /\ [Next]_vars => NoOutputLost'
<1> SUFFICES ASSUME TypeOK, OutputInv, NoOutputLost, [Next]_vars PROVE NoOutputLost'
  BY DEF IInv
<1> USE DEF serverVars, recvVars, mainVars, dirVars,
        TypeOK, OutputInv, NoOutputLost
<1>1. CASE Server
  BY <1>1 DEF Server, Enqueue, Expire
<1>2. CASE Receiver
  <2>1. CASE ReceiveCheck
    BY <1>2, <2>1 DEF Receiver, ReceiveCheck
  <2>2. CASE ReceivePoll
    BY <1>2, <2>2 DEF Receiver, ReceivePoll
  <2>3. CASE ReceiveDelete
    BY <1>2, <2>3 DEF Receiver, ReceiveDelete
  <2>4. CASE ReceiveBeat
    BY <1>2, <2>4 DEF Receiver, ReceiveBeat
  <2>5. QED BY <1>2, <2>1, <2>2, <2>3, <2>4 DEF Receiver
<1>3. CASE Main
  <2>1. CASE Take
    BY <1>3, <2>1 DEF Main, Take
  <2>2. CASE TakeError
    BY <1>3, <2>2 DEF Main, TakeError
  <2>3. CASE Stop
    BY <1>3, <2>3 DEF Main, Stop
  <2>4. CASE ExecStart
    BY <1>3, <2>4 DEF Main, ExecStart
  <2>5. CASE ProcessKilled
    BY <1>3, <2>5 DEF Main, ProcessKilled
  <2>6. CASE Output
    BY <1>3, <2>6 DEF Main, Output
  <2>7. CASE Upload
    BY <1>3, <2>7 DEF Main, Upload
  <2>8. CASE Clear
    BY <1>3, <2>8 DEF Main, Clear
  <2>9. CASE ReportSuccess
    BY <1>3, <2>9 DEF Main, ReportSuccess, Reports
  <2>10. CASE ReportFailure
    BY <1>3, <2>10 DEF Main, ReportFailure, Reports
  <2>11. QED
    BY <1>3, <2>1, <2>2, <2>3, <2>4, <2>5, <2>6, <2>7, <2>8, <2>9, <2>10
       DEF Main
<1>4. CASE Process
  BY <1>4 DEF Process, ProcessWrites, ProcessExits
<1>5. CASE CallerCancel
  BY <1>5 DEF CallerCancel
<1>6. ASSUME NEW q \in Runs, Beat(q) PROVE NoOutputLost'
  BY <1>6 DEF Beat, BeatExpired, BeatCancel, BeatStop
<1>7. CASE UNCHANGED vars
  BY <1>7 DEF vars
<1>8. QED
  BY <1>1, <1>2, <1>3, <1>4, <1>5, <1>6, <1>7 DEF Next

-----------------------------------------------------------------------------
\* A run passes from hand to hand.
LEMMA StepRunAccounted == IInv /\ [Next]_vars => RunAccounted'
<1> SUFFICES ASSUME TypeOK, OnceInv, RunAccounted, [Next]_vars PROVE RunAccounted'
  BY DEF IInv
<1> USE DEF serverVars, recvVars, mainVars, dirVars,
        TypeOK, OnceInv, RunAccounted, Executing
<1>1. CASE Server
  BY <1>1 DEF Server, Enqueue, Expire
<1>2. CASE Receiver
  <2>1. CASE ReceiveCheck
    BY <1>2, <2>1 DEF Receiver, ReceiveCheck
  <2>2. CASE ReceivePoll
    BY <1>2, <2>2 DEF Receiver, ReceivePoll
  <2>3. CASE ReceiveDelete
    BY <1>2, <2>3 DEF Receiver, ReceiveDelete
  <2>4. CASE ReceiveBeat
    BY <1>2, <2>4 DEF Receiver, ReceiveBeat
  <2>5. QED BY <1>2, <2>1, <2>2, <2>3, <2>4 DEF Receiver
<1>3. CASE Main
  <2>1. CASE Take
    BY <1>3, <2>1 DEF Main, Take
  <2>2. CASE TakeError
    BY <1>3, <2>2 DEF Main, TakeError
  <2>3. CASE Stop
    BY <1>3, <2>3 DEF Main, Stop
  <2>4. CASE ExecStart
    BY <1>3, <2>4 DEF Main, ExecStart
  <2>5. CASE ProcessKilled
    BY <1>3, <2>5 DEF Main, ProcessKilled
  <2>6. CASE Output
    BY <1>3, <2>6 DEF Main, Output
  <2>7. CASE Upload
    BY <1>3, <2>7 DEF Main, Upload
  <2>8. CASE Clear
    BY <1>3, <2>8 DEF Main, Clear
  <2>9. CASE ReportSuccess
    BY <1>3, <2>9 DEF Main, ReportSuccess, Reports
  <2>10. CASE ReportFailure
    BY <1>3, <2>10 DEF Main, ReportFailure, Reports
  <2>11. QED
    BY <1>3, <2>1, <2>2, <2>3, <2>4, <2>5, <2>6, <2>7, <2>8, <2>9, <2>10
       DEF Main
<1>4. CASE Process
  BY <1>4 DEF Process, ProcessWrites, ProcessExits
<1>5. CASE CallerCancel
  BY <1>5 DEF CallerCancel
<1>6. ASSUME NEW q \in Runs, Beat(q) PROVE RunAccounted'
  BY <1>6 DEF Beat, BeatExpired, BeatCancel, BeatStop
<1>7. CASE UNCHANGED vars
  BY <1>7 DEF vars
<1>8. QED
  BY <1>1, <1>2, <1>3, <1>4, <1>5, <1>6, <1>7 DEF Next

-----------------------------------------------------------------------------
\* Whatever ends the execution of a run reports it, and nothing else does.
LEMMA StepReportedOnce == IInv /\ [Next]_vars => [ReportedOnce]_vars
<1> SUFFICES ASSUME TypeOK, OnceInv, Next PROVE ReportedOnce
  BY DEF IInv
<1> USE DEF serverVars, recvVars, mainVars, dirVars,
        TypeOK, OnceInv, ReportedOnce, Executing, Waiting
<1>1. CASE Server
  BY <1>1 DEF Server, Enqueue, Expire
<1>2. CASE Receiver
  <2>1. CASE ReceiveCheck
    BY <1>2, <2>1 DEF Receiver, ReceiveCheck
  <2>2. CASE ReceivePoll
    BY <1>2, <2>2 DEF Receiver, ReceivePoll
  <2>3. CASE ReceiveDelete
    BY <1>2, <2>3 DEF Receiver, ReceiveDelete
  <2>4. CASE ReceiveBeat
    BY <1>2, <2>4 DEF Receiver, ReceiveBeat
  <2>5. QED BY <1>2, <2>1, <2>2, <2>3, <2>4 DEF Receiver
<1>3. CASE Main
  <2>1. CASE Take
    BY <1>3, <2>1 DEF Main, Take
  <2>2. CASE TakeError
    BY <1>3, <2>2 DEF Main, TakeError
  <2>3. CASE Stop
    BY <1>3, <2>3 DEF Main, Stop
  <2>4. CASE ExecStart
    BY <1>3, <2>4 DEF Main, ExecStart
  <2>5. CASE ProcessKilled
    BY <1>3, <2>5 DEF Main, ProcessKilled
  <2>6. CASE Output
    BY <1>3, <2>6 DEF Main, Output
  <2>7. CASE Upload
    BY <1>3, <2>7 DEF Main, Upload
  <2>8. CASE Clear
    BY <1>3, <2>8 DEF Main, Clear
  <2>9. CASE ReportSuccess
    BY <1>3, <2>9 DEF Main, ReportSuccess, Reports
  <2>10. CASE ReportFailure
    BY <1>3, <2>10 DEF Main, ReportFailure, Reports
  <2>11. QED
    BY <1>3, <2>1, <2>2, <2>3, <2>4, <2>5, <2>6, <2>7, <2>8, <2>9, <2>10
       DEF Main
<1>4. CASE Process
  BY <1>4 DEF Process, ProcessWrites, ProcessExits
<1>5. CASE CallerCancel
  BY <1>5 DEF CallerCancel
<1>6. ASSUME NEW q \in Runs, Beat(q) PROVE ReportedOnce
  BY <1>6 DEF Beat, BeatExpired, BeatCancel, BeatStop
<1>7. QED
  BY <1>1, <1>2, <1>3, <1>4, <1>5, <1>6 DEF Next

-----------------------------------------------------------------------------
(* The theorems.                                                             *)

\* The inductive invariant holds in every state.
THEOREM Invariance == Spec => []IInv
<1>1. IInv /\ [Next]_vars => IInv'
  BY StepTypeOK, StepOnceInv, StepKillInv, StepOutputInv, StepOneVerdict,
     StepNoOutputLost, StepRunAccounted DEF IInv
<1>2. QED BY InitIInv, <1>1, PTL DEF Spec

\* The worker's state is always well typed, and a run is executed whenever
\* Start is not waiting for one.
THEOREM WorkerTyped == Spec => []TypeOK
<1>1. IInv => TypeOK
  BY DEF IInv
<1>2. QED BY Invariance, <1>1, PTL

\* No run is reported both as a success and as a failure.
THEOREM Verdict == Spec => []OneVerdict
<1>1. IInv => OneVerdict
  BY DEF IInv
<1>2. QED BY Invariance, <1>1, PTL

\* Unless clearing the directory failed, what a run wrote is still there or in
\* a dataset.
THEOREM OutputKept == Spec => []NoOutputLost
<1>1. IInv => NoOutputLost
  BY DEF IInv
<1>2. QED BY Invariance, <1>1, PTL

\* No run is lost without a trace between the queue and Start.
THEOREM Accounted == Spec => []RunAccounted
<1>1. IInv => RunAccounted
  BY DEF IInv
<1>2. QED BY Invariance, <1>1, PTL

\* The process of a run is only killed when that run has expired or the worker
\* is stopped: the heartbeat of one run never kills another.
THEOREM KillsExpired == Spec => []OnlyExpiredKilled
<1>1. IInv => OnlyExpiredKilled
  BY DEF IInv, KillInv
<1>2. QED BY Invariance, <1>1, PTL

\* A run that is taken is executed once and reported once: it does not leave
\* startRunExec unreported, however that ends, and is not executed again.  It is
\* TakenRunReported without the fairness.
THEOREM ExactlyOnce == Spec => [][ReportedOnce]_vars
<1>1. IInv /\ [Next]_vars => [ReportedOnce]_vars
  BY StepReportedOnce
<1>2. QED BY Invariance, <1>1, PTL DEF Spec
=============================================================================
