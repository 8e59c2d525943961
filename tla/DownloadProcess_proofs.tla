----------------------- MODULE DownloadProcess_proofs -----------------------
(* Proofs about DownloadProcess: its types, that Download returns nil only   *)
(* for a whole archive unless it was cancelled, and that what is on disk is  *)
(* always a prefix of it, for every archive, concurrency and set of faults.  *)
EXTENDS DownloadProcess, SequenceTheorems, FiniteSetTheorems, TLAPS

-----------------------------------------------------------------------------
(* The inductive invariant.                                                  *)

\* What the uploader guarantees, and what it means once start was called.
RemoteInv ==
  /\ "metadata" \in objects => "index" \in objects /\ index = Archive
  /\ status = "SUCCESS" => "metadata" \in objects
  /\ main \in {"wait", "returned", "closed"} => status = "SUCCESS"

\* The index that was read is the archive's.
KeysInv ==
  /\ keys \in {<<>>, Archive}
  /\ idx \in {"get", "failed"} => keys = <<>>
  /\ idx = "write" => keys = Archive
  /\ next <= scanned

\* The items behind the one fan-in holds are in the channel, up to the one in
\* the hand of fan-out.
ChanInv ==
  /\ cur <= next
  /\ fanOut \in {"put", "bad"} => cur < next
  /\ \A i \in itemCh : cur < i /\ i <= next
  /\ \A i \in itemCh : fanOut \in {"put", "bad"} => i # next
  /\ \A i \in itemCh, j \in Items : cur < j /\ j < i => j \in itemCh
  /\ fanOut # "closed" => \A j \in Items :
       cur < j /\ j <= next /\ (fanOut # "next" => j # next) => j \in itemCh

\* What is on disk are the chunks before the one fan-in holds.
OutInv ==
  /\ out \in Seq(Hashes) /\ Len(out) <= N
  /\ \A i \in 1..Len(out) : out[i] = Archive[i]
  /\ fanIn = "item" => Len(out) = cur
  /\ fanIn \in {"result", "write"} => Len(out) + 1 = cur

\* The worker of a chunk that is on disk has ended.
DoneInv ==
  /\ Len(out) <= cur
  /\ \A i \in Items : i <= Len(out) => worker[i] = "done"
  /\ fanIn = "write" => worker[cur] = "done"

\* No error was sent, and the context is not done.
Calm ==
  /\ main \in {"describe", "sleep", "wait"} /\ ~ctxDone
  /\ doneCh = <<>> \/ Head(doneCh) = "nil"

\* Every item that is left is in the channel, or the last one is an error.
AllQueued ==
  \/ next = N /\ \A j \in Items : cur < j => j \in itemCh
  \/ next \in itemCh /\ worker[next] = "bad"

\* An error of a stage is in doneCh before the end of its stream is visible.
OrderInv ==
  /\ main \in {"describe", "sleep", "wait"} /\ ctxDone => cancelled
  /\ main \in {"describe", "sleep"} => doneCh = <<>>
  /\ Calm =>
       /\ idx \in {"close", "done"} => keys = Archive /\ scanned = N
       /\ fanOut = "closed" /\ fanIn \in {"item", "result", "write"} => AllQueued
       /\ fanIn # "close" /\ (fanIn = "report" => Len(out) # N)
       /\ fanIn = "done" \/ untar = "ok" => Len(out) = N
       /\ doneCh # <<>> => Len(out) = N
  /\ ret = "nil" => cancelled \/ Len(out) = N
  /\ main \in {"returned", "closed"} => ret \in {"nil", "err"}
  /\ panicked => main = "closed"

IInv == /\ TypeOK /\ RemoteInv /\ KeysInv /\ ChanInv /\ OutInv /\ DoneInv
        /\ OrderInv /\ PanicMeansFailure

\* The workers of the items that fan-in may still wait for have not ended.
Alive == {"get", "progress", "ok", "failed"}
ServedInv ==
  /\ ~ctxDone /\ fanIn \in {"item", "result", "write"} =>
       \A i \in itemCh : worker[i] \in Alive \cup {"bad"}
  /\ ~ctxDone /\ fanIn = "result" => worker[cur] \in Alive
  /\ idx = "write" => scanned < Len(keys)
  /\ main \in {"describe", "sleep"} => untar = "check"
  /\ untar = "done" => main # "wait" \/ doneCh # <<>>

\* Items that are not in the channel yet have no worker.
FreshInv ==
  \A i \in Items : next < i \/ (i = next /\ fanOut \in {"put", "bad"}) =>
    worker[i] = "none"

\* The guards of the steps of each goroutine.
MainReady ==
  \/ main \in {"describe", "sleep", "returned"}
  \/ main = "wait" /\ doneCh # <<>>
IndexReady ==
  \/ idx \in {"get", "close"}
  \/ idx = "failed" /\ Len(doneCh) < DoneCap
FanOutReady ==
  \/ fanOut = "next" /\ (next < scanned \/ idx = "done")
  \/ fanOut = "next" /\ idx = "write" /\ scanned < Len(keys)
  \/ fanOut \in {"put", "bad"}
       /\ (Cardinality(itemCh) < Concurrency \/ ChunksCtxDone)
WorkerReady(i) ==
  \/ worker[i] \in {"get", "progress"}
  \/ worker[i] \in {"ok", "failed"} /\ ChunksCtxDone
FanInReady ==
  \/ fanIn = "item" /\ (itemCh # {} \/ fanOut = "closed" \/ ctxDone)
  \/ fanIn = "result" /\ (worker[cur] \in {"ok", "failed"} \/ ctxDone)
  \/ fanIn = "report" /\ Len(doneCh) < DoneCap
  \/ fanIn = "close"
UntarReady ==
  \/ untar = "check"
  \/ untar = "read" /\ (fanIn \in {"write", "done"} \/ Len(out) = N)
  \/ untar \in {"ok", "failed"} /\ Len(doneCh) < DoneCap

\* Until Download has returned it, or once it has called start one of the
\* goroutines it waits for, can take a step.
NoJam ==
  \/ Ended \/ panicked \/ MainReady
  \/ /\ Started
     /\ \/ IndexReady \/ FanOutReady \/ FanInReady \/ UntarReady
        \/ \E i \in Items : WorkerReady(i)

\* How far each goroutine has come.  Until start is called there is no end to
\* how often the dataset is described.
IndexRank == [get |-> 0, failed |-> 1, write |-> 1, close |-> 2, done |-> 3][idx]
FanOutRank == 2 * next
  + [put |-> 0, bad |-> 0, next |-> 1, closed |-> 2][fanOut]
WorkerRank(i) ==
  [none |-> 0, get |-> 1, progress |-> 2, ok |-> 3, failed |-> 3, bad |-> 4,
   done |-> 5][worker[i]]
FanInRank == 3 * cur
  + [result |-> 0, write |-> 1, item |-> 2, report |-> 3, close |-> 4,
     done |-> 5][fanIn]
UntarRank == 2 * Len(out)
  + [check |-> 0, read |-> 1, ok |-> 2, failed |-> 2, done |-> 3][untar]
MainRank == [describe |-> 0, sleep |-> 0, wait |-> 1, returned |-> 2,
             closed |-> 3, failed |-> 3][main]

\* No goroutine goes back.
Forward ==
  /\ IndexRank <= IndexRank' /\ scanned <= scanned'
  /\ FanOutRank <= FanOutRank'
  /\ \A i \in Items : WorkerRank(i) <= WorkerRank(i)'
  /\ FanInRank <= FanInRank' /\ UntarRank <= UntarRank'
  /\ MainRank <= MainRank'
  /\ ctxDone => ctxDone'
  /\ panicked => panicked'

\* Once start has been called one of them or the caller goes forward, unless
\* the uploader or the server took the step.
Advances ==
  /\ Forward
  /\ \/ ~Started \/ Environment
     \/ IndexRank < IndexRank' \/ scanned < scanned'
     \/ FanOutRank < FanOutRank'
     \/ \E i \in Items : WorkerRank(i) < WorkerRank(i)'
     \/ FanInRank < FanInRank' \/ UntarRank < UntarRank'
     \/ MainRank < MainRank'
     \/ ~ctxDone /\ ctxDone'
     \/ ~panicked /\ panicked'

\* Nobody goes further than its end.
RanksBounded ==
  /\ IndexRank \in 0..3 /\ scanned \in 0..N
  /\ FanOutRank \in 0..(2 * N + 2)
  /\ \A i \in Items : WorkerRank(i) \in 0..5
  /\ FanInRank \in 0..(3 * N + 5)
  /\ UntarRank \in 0..(2 * N + 3)
  /\ MainRank \in 0..3

\* What is already published at each step towards SUCCESS.
PublishedSoFar ==
  /\ objects \subseteq {"index", "metadata"}
  /\ "metadata" \in objects => /\ "index" \in objects /\ index = Archive
                               /\ size = Len(Archive)
  /\ status = "SUCCESS" => "metadata" \in objects
  /\ \A i \in DOMAIN index : index[i] \in store

\* When nothing can fail nothing does, until start has returned.
SmoothInv == Faults = {} =>
  /\ ~cancelled /\ (ctxDone => main \in {"returned", "closed"})
  /\ ret = "err" => main = "failed"
  /\ main = "failed" => expired
  /\ main \in {"describe", "sleep", "wait"} =>
       /\ doneCh \in Seq({"nil"})
       /\ idx # "failed" /\ fanOut # "bad" /\ untar # "failed"
       /\ fanIn \in {"item", "result", "write", "done"}
       /\ \A i \in Items :
            /\ worker[i] \notin {"failed", "bad"}
            /\ worker[i] \notin {"none", "done"} =>
                 i \in itemCh \/ (fanIn = "result" /\ i = cur)
       /\ fanIn = "done" => fanOut = "closed" /\ itemCh = {}

\* A download fails only because something did, or before it is started: the
\* upload it waits for has expired.
FaultFree == Faults = {} =>
  /\ ~panicked
  /\ ret = "err" => main = "failed" /\ expired

-----------------------------------------------------------------------------
(* Facts about the constants and the channel of results.                     *)

\* The archive has at least one chunk.
LEMMA ArchiveFacts ==
  /\ Archive \in Seq(Hashes) /\ Len(Archive) = N /\ N \in Nat \ {0}
  /\ \A i \in Items : i \in 1..N /\ Archive[i] \in Hashes
<1>1. Archive \in Seq(Hashes) /\ Archive # <<>>
  BY DownloadArchiveAssumption
<1>2. Len(Archive) \in Nat /\ Len(Archive) # 0
  BY <1>1, EmptySeq
<1>3. \A i \in 1..Len(Archive) : Archive[i] \in Hashes
  BY <1>1
<1>4. QED BY <1>1, <1>2, <1>3 DEF N, Items

\* The index that was read has no chunk or all of them.
LEMMA KeysLength ==
  ASSUME KeysInv
  PROVE  /\ Len(keys) \in {0, N}
         /\ keys # <<>> => keys = Archive /\ Len(keys) = N
         /\ Len(keys) # 0 => keys = Archive
<1>1. Len(<<>>) = 0
  BY EmptySeq
<1>2. QED BY <1>1, ArchiveFacts DEF KeysInv

\* A send keeps the channel a sequence of results, and its head if it has one.
LEMMA SendKeepsHead ==
  ASSUME doneCh \in Seq({"nil", "err"}), NEW v \in {"nil", "err"}, Send(v)
  PROVE  /\ doneCh' \in Seq({"nil", "err"}) /\ doneCh' # <<>>
         /\ doneCh = <<>> => Head(doneCh') = v
         /\ doneCh # <<>> => Head(doneCh') = Head(doneCh)
<1>1. /\ doneCh' = Append(doneCh, v) /\ doneCh' \in Seq({"nil", "err"})
      /\ doneCh' # <<>> /\ doneCh'[Len(doneCh) + 1] = v
      /\ \A i \in 1..Len(doneCh) : doneCh'[i] = doneCh[i]
  BY AppendProperties DEF Send
<1>2. Head(doneCh') = doneCh'[1] /\ Head(doneCh) = doneCh[1]
  OBVIOUS
<1>3. CASE doneCh = <<>>
  BY <1>1, <1>2, <1>3
<1>4. CASE doneCh # <<>>
  <2>1. 1 \in 1..Len(doneCh)
    BY <1>4, EmptySeq
  <2>2. QED BY <1>1, <1>2, <1>4, <2>1
<1>5. QED BY <1>3, <1>4

\* After a send the first result is no error only if it was none before.
LEMMA SendKeepsCalm ==
  ASSUME ChannelType, NEW v \in {"nil", "err"}, Send(v),
         main' = main, ctxDone' = ctxDone
  PROVE  /\ Calm' => Calm
         /\ Calm' /\ v = "err" => doneCh # <<>>
         /\ doneCh' # <<>>
BY SendKeepsHead DEF ChannelType, Calm

\* Only what is put into it leaves the channel.
LEMMA ReceiveType ==
  ASSUME doneCh \in Seq({"nil", "err"}), doneCh # <<>>
  PROVE  /\ Head(doneCh) \in {"nil", "err"}
         /\ Tail(doneCh) \in Seq({"nil", "err"})
BY HeadTailProperties

\* A chunk that is read goes to the end of what is on disk.
LEMMA OutAppend ==
  ASSUME out \in Seq(Hashes), NEW h \in Hashes, out' = Append(out, h)
  PROVE  /\ out' \in Seq(Hashes) /\ Len(out') = Len(out) + 1
         /\ out'[Len(out) + 1] = h
         /\ \A i \in 1..Len(out) : out'[i] = out[i]
BY AppendProperties

\* A read makes what is on disk one chunk longer.
LEMMA UntarReadLength ==
  ASSUME out \in Seq(Hashes), NEW h, out' = Append(out, h)
  PROVE  Len(out') = Len(out) + 1 /\ Len(out) \in Nat
OBVIOUS

\* The indices an uploader may publish are sequences of hashes.
LEMMA ListingsType ==
  ASSUME NEW s \in Remote!Listings PROVE s \in Seq(Hashes \cup {TailHash})
<1> DEFINE H == Hashes \cup {TailHash}
<1>1. Archive \in Seq(H)
  BY ArchiveFacts
<1>2. ASSUME NEW n \in 0..N PROVE SubSeq(Archive, 1, n) \in Seq(H)
  <2>1. \A i \in 1..n : i \in 1..Len(Archive)
    BY ArchiveFacts
  <2>2. QED BY <1>1, <2>1, SubSeqProperties
<1>3. Remote!Truncated \subseteq Seq(H)
  BY <1>2, ArchiveFacts DEF Remote!Truncated
<1>4. CASE s \in Remote!Truncated
  BY <1>3, <1>4
<1>5. CASE s \in {Append(t, TailHash) : t \in Remote!Truncated \ {Archive}}
  BY <1>3, <1>5
<1>6. QED BY <1>4, <1>5 DEF Remote!Listings

\* The initial state satisfies the invariant.
LEMMA InitIInv == Init => IInv
<1> SUFFICES ASSUME Init PROVE IInv
  OBVIOUS
<1> USE ArchiveFacts, EmptySeq
<1>1. RemoteType /\ ChannelType /\ RemoteInv
  BY DEF Init, Remote!Init, RemoteType, ChannelType, RemoteInv
<1>2. StageType
  <2>1. worker \in [Items -> {"none", "get", "progress", "ok", "failed", "bad",
                             "done"}]
    BY DEF Init
  <2>2. scanned \in 0..Len(keys) /\ next \in 0..Len(keys) /\ cur \in 0..N
    BY DEF Init
  <2>3. QED BY <2>1, <2>2 DEF Init, StageType
<1>3. KeysInv /\ ChanInv
  BY DEF Init, KeysInv, ChanInv, Items
<1>4. OutInv /\ DoneInv
  BY DEF Init, OutInv, DoneInv, Items
<1>5. OrderInv /\ PanicMeansFailure
  BY DEF Init, OrderInv, PanicMeansFailure, Calm
<1>6. QED BY <1>1, <1>2, <1>3, <1>4, <1>5 DEF IInv, TypeOK

-----------------------------------------------------------------------------
\* The uploader keeps its side typed, and never replaces an index.
LEMMA StepRemoteType ==
  ASSUME RemoteType, Environment
  PROVE  RemoteType' /\ ("index" \in objects => index' = index)
<1>1. CASE Expire
  BY <1>1 DEF Expire, RemoteType
<1>2. ASSUME NEW h \in Hashes \cup {TailHash}, Remote!StoreChunk(h)
      PROVE  RemoteType' /\ index' = index
  BY <1>2 DEF Remote!StoreChunk, RemoteType
<1>3. CASE Remote!StoreIndex
  <2>1. index' \in Seq(Hashes \cup {TailHash})
    BY <1>3, ListingsType DEF Remote!StoreIndex
  <2>2. QED BY <1>3, <2>1 DEF Remote!StoreIndex, RemoteType
<1>4. CASE Remote!StoreMetadata
  BY <1>4 DEF Remote!StoreMetadata, RemoteType
<1>5. CASE Remote!KeepAlive
  BY <1>5 DEF Remote!KeepAlive, RemoteType
<1>6. CASE Remote!Succeed
  BY <1>6 DEF Remote!Succeed, RemoteType
<1>7. QED
  BY <1>1, <1>2, <1>3, <1>4, <1>5, <1>6 DEF Environment, Publish, Remote!Next

\* A dataset that is SUCCESS stays so, with the same index.
LEMMA StepRemoteInv == IInv /\ [Next]_vars => RemoteInv'
<1> SUFFICES ASSUME RemoteInv, [Next]_vars PROVE RemoteInv'
  BY DEF IInv
<1> USE DEF RemoteInv, remoteVars, mainVars
<1>1. CASE Environment
  <2>1. CASE Expire
    BY <1>1, <2>1 DEF Environment, Expire
  <2>2. ASSUME NEW h \in Hashes \cup {TailHash}, Remote!StoreChunk(h)
        PROVE  RemoteInv'
    BY <1>1, <2>2 DEF Environment, Remote!StoreChunk
  <2>3. CASE Remote!StoreIndex
    <3>1. "metadata" \notin objects /\ status # "SUCCESS"
      BY <2>3 DEF Remote!StoreIndex
    <3>2. QED BY <1>1, <2>3, <3>1 DEF Environment, Remote!StoreIndex
  <2>4. CASE Remote!StoreMetadata
    BY <1>1, <2>4 DEF Environment, Remote!StoreMetadata
  <2>5. CASE Remote!KeepAlive
    BY <1>1, <2>5 DEF Environment, Remote!KeepAlive
  <2>6. CASE Remote!Succeed
    BY <1>1, <2>6 DEF Environment, Remote!Succeed
  <2>7. QED
    BY <1>1, <2>1, <2>2, <2>3, <2>4, <2>5, <2>6
       DEF Environment, Publish, Remote!Next
<1>2. CASE Main
  BY <1>2 DEF Main, Describe, WakeUp, Receive, Close, Goes, Fail, Return
<1>3. CASE UNCHANGED <<remoteVars, mainVars>>
  BY <1>3
<1>4. QED
  BY <1>1, <1>2, <1>3 DEF Next, vars, Index, FanOut, Worker, FanIn, Untar,
     CallerCancel

\* While its stages run, the index of the dataset is the archive's.
LEMMA StartedIndex ==
  ASSUME RemoteInv, Started PROVE index = Archive
BY DEF RemoteInv, Started

-----------------------------------------------------------------------------
\* The index is read once.
LEMMA StepKeysInv == IInv /\ [Next]_vars => KeysInv'
<1> SUFFICES ASSUME StageType, RemoteInv, KeysInv, [Next]_vars
             PROVE  KeysInv'
  BY DEF IInv, TypeOK
<1> USE ArchiveFacts DEF remoteVars, ctxVars, idxVars, fanOutVars, workVars,
        fanInVars, untarVars, mainVars, KeysInv, StageType
<1>1. CASE Environment
  BY <1>1 DEF Environment, Publish, Expire
<1>2. CASE Main
  <2>1. CASE Describe
    BY <1>2, <2>1 DEF Main, Describe, Goes, Fail
  <2>2. CASE WakeUp
    BY <1>2, <2>2 DEF Main, WakeUp, Goes, Fail
  <2>3. CASE Receive
    BY <1>2, <2>3 DEF Main, Receive, Return
  <2>4. CASE Close
    BY <1>2, <2>4 DEF Main, Close, Goes
  <2>5. QED BY <1>2, <2>1, <2>2, <2>3, <2>4 DEF Main
<1>3. CASE Index
  <2>1. CASE IndexGet
    BY <1>3, <2>1, StartedIndex, KeysLength DEF Index, IndexGet
  <2>2. CASE IndexReport
    BY <1>3, <2>2 DEF Index, IndexReport
  <2>3. CASE IndexClose
    BY <1>3, <2>3 DEF Index, IndexClose
  <2>4. QED BY <1>3, <2>1, <2>2, <2>3 DEF Index
<1>4. CASE FanOut
  <2>1. CASE FanOutScan
    BY <1>4, <2>1, KeysLength DEF FanOut, FanOutScan
  <2>2. CASE FanOutRead
    BY <1>4, <2>2, KeysLength DEF FanOut, FanOutRead
  <2>3. CASE FanOutEOF
    BY <1>4, <2>3 DEF FanOut, FanOutEOF
  <2>4. CASE FanOutPut
    BY <1>4, <2>4 DEF FanOut, FanOutPut
  <2>5. CASE FanOutStop
    BY <1>4, <2>5 DEF FanOut, FanOutStop
  <2>6. QED BY <1>4, <2>1, <2>2, <2>3, <2>4, <2>5 DEF FanOut
<1>5. CASE FanIn
  <2>1. CASE FanInItem
    BY <1>5, <2>1 DEF FanIn, FanInItem
  <2>2. CASE FanInEnd
    BY <1>5, <2>2 DEF FanIn, FanInEnd
  <2>3. CASE FanInResult
    BY <1>5, <2>3 DEF FanIn, FanInResult, WorkerGoes
  <2>4. CASE FanInCancelled
    BY <1>5, <2>4 DEF FanIn, FanInCancelled
  <2>5. CASE FanInReport
    BY <1>5, <2>5 DEF FanIn, FanInReport
  <2>6. CASE FanInClose
    BY <1>5, <2>6 DEF FanIn, FanInClose
  <2>7. QED BY <1>5, <2>1, <2>2, <2>3, <2>4, <2>5, <2>6 DEF FanIn
<1>6. CASE Untar
  <2>1. CASE UntarCheck
    BY <1>6, <2>1 DEF Untar, UntarCheck
  <2>2. CASE UntarRead
    BY <1>6, <2>2 DEF Untar, UntarRead
  <2>3. CASE UntarEOF
    BY <1>6, <2>3 DEF Untar, UntarEOF
  <2>4. CASE UntarFail
    BY <1>6, <2>4 DEF Untar, UntarFail
  <2>5. CASE UntarReport
    BY <1>6, <2>5 DEF Untar, UntarReport
  <2>6. QED BY <1>6, <2>1, <2>2, <2>3, <2>4, <2>5 DEF Untar
<1>7. ASSUME NEW w \in Items, Worker(w) PROVE KeysInv'
  BY <1>7 DEF Worker, WorkerGet, WorkerProgress, WorkerGiveUp, WorkerGoes
<1>8. CASE CallerCancel
  BY <1>8 DEF CallerCancel
<1>9. CASE UNCHANGED vars
  BY <1>9 DEF vars
<1>10. QED
  BY <1>1, <1>2, <1>3, <1>4, <1>5, <1>6, <1>7, <1>8, <1>9 DEF Next

-----------------------------------------------------------------------------
\* Every step keeps the stages well typed.
LEMMA StepStageType == IInv /\ [Next]_vars => StageType'
<1> SUFFICES ASSUME StageType, ChannelType, RemoteInv, KeysInv, ChanInv, [Next]_vars
             PROVE  StageType'
  BY DEF IInv, TypeOK
<1> USE ArchiveFacts, KeysLength DEF remoteVars, ctxVars, idxVars,
        fanOutVars, workVars, fanInVars, untarVars, mainVars, StageType
<1>1. CASE Environment
  <2>1. expired' \in BOOLEAN
    BY <1>1 DEF Environment, Publish, Expire
  <2>2. QED BY <1>1, <2>1 DEF Environment
<1>2. CASE Main
  <2>1. CASE Describe
    BY <1>2, <2>1 DEF Main, Describe, Goes, Fail
  <2>2. CASE WakeUp
    BY <1>2, <2>2 DEF Main, WakeUp, Goes, Fail
  <2>3. CASE Receive
    BY <1>2, <2>3, ReceiveType DEF Main, Receive, Return, ChannelType
  <2>4. CASE Close
    BY <1>2, <2>4 DEF Main, Close, Goes
  <2>5. QED BY <1>2, <2>1, <2>2, <2>3, <2>4 DEF Main
<1>3. CASE Index
  <2>1. CASE IndexGet
    BY <1>3, <2>1, StartedIndex DEF Index, IndexGet, KeysInv
  <2>2. CASE IndexReport
    BY <1>3, <2>2 DEF Index, IndexReport
  <2>3. CASE IndexClose
    BY <1>3, <2>3 DEF Index, IndexClose
  <2>4. QED BY <1>3, <2>1, <2>2, <2>3 DEF Index
<1>4. CASE FanOut
  <2>1. CASE FanOutScan
    BY <1>4, <2>1 DEF FanOut, FanOutScan
  <2>2. CASE FanOutRead
    BY <1>4, <2>2 DEF FanOut, FanOutRead
  <2>3. CASE FanOutEOF
    BY <1>4, <2>3 DEF FanOut, FanOutEOF
  <2>4. CASE FanOutPut
    <3>1. worker' \in [Items -> {"none", "get", "progress", "ok", "failed", "bad",
                                "done"}]
      BY <1>4, <2>4 DEF FanOut, FanOutPut, Items
    <3>2. QED BY <1>4, <2>4, <3>1 DEF FanOut, FanOutPut, Items
  <2>5. CASE FanOutStop
    BY <1>4, <2>5 DEF FanOut, FanOutStop
  <2>6. QED BY <1>4, <2>1, <2>2, <2>3, <2>4, <2>5 DEF FanOut
<1>5. CASE FanIn
  <2>1. CASE FanInItem
    BY <1>5, <2>1 DEF FanIn, FanInItem, Items
  <2>2. CASE FanInEnd
    BY <1>5, <2>2 DEF FanIn, FanInEnd
  <2>3. CASE FanInResult
    <3>1. worker' \in [Items -> {"none", "get", "progress", "ok", "failed", "bad",
                                "done"}]
      BY <1>5, <2>3 DEF FanIn, FanInResult, WorkerGoes
    <3>2. QED BY <1>5, <2>3, <3>1 DEF FanIn, FanInResult, WorkerGoes
  <2>4. CASE FanInCancelled
    BY <1>5, <2>4 DEF FanIn, FanInCancelled
  <2>5. CASE FanInReport
    BY <1>5, <2>5 DEF FanIn, FanInReport
  <2>6. CASE FanInClose
    BY <1>5, <2>6 DEF FanIn, FanInClose
  <2>7. QED BY <1>5, <2>1, <2>2, <2>3, <2>4, <2>5, <2>6 DEF FanIn
<1>6. CASE Untar
  <2>1. CASE UntarCheck
    BY <1>6, <2>1 DEF Untar, UntarCheck
  <2>2. CASE UntarRead
    BY <1>6, <2>2 DEF Untar, UntarRead
  <2>3. CASE UntarEOF
    BY <1>6, <2>3 DEF Untar, UntarEOF
  <2>4. CASE UntarFail
    BY <1>6, <2>4 DEF Untar, UntarFail
  <2>5. CASE UntarReport
    BY <1>6, <2>5 DEF Untar, UntarReport
  <2>6. QED BY <1>6, <2>1, <2>2, <2>3, <2>4, <2>5 DEF Untar
<1>7. ASSUME NEW w \in Items, Worker(w) PROVE StageType'
  <2>1. worker' \in [Items -> {"none", "get", "progress", "ok", "failed", "bad",
                              "done"}]
    BY <1>7 DEF Worker, WorkerGet, WorkerProgress, WorkerGiveUp, WorkerGoes
  <2>2. panicked' \in BOOLEAN
    BY <1>7 DEF Worker, WorkerGet, WorkerProgress, WorkerGiveUp
  <2>3. QED BY <1>7, <2>1, <2>2 DEF Worker
<1>8. CASE CallerCancel
  BY <1>8 DEF CallerCancel
<1>9. CASE UNCHANGED vars
  BY <1>9 DEF vars
<1>10. QED
  BY <1>1, <1>2, <1>3, <1>4, <1>5, <1>6, <1>7, <1>8, <1>9 DEF Next

-----------------------------------------------------------------------------
\* Only results go through doneCh.
LEMMA StepChannelType == IInv /\ [Next]_vars => ChannelType'
<1> SUFFICES ASSUME ChannelType, [Next]_vars PROVE ChannelType'
  BY DEF IInv, TypeOK
<1> USE DEF ChannelType
<1>1. CASE \E v \in {"nil", "err"} : Send(v)
  BY <1>1, SendKeepsHead
<1>2. CASE UNCHANGED doneCh
  BY <1>2
<1>3. CASE Receive
  BY <1>3, ReceiveType DEF Receive
<1>4. CASE Main
  BY <1>2, <1>3, <1>4 DEF Main, Describe, WakeUp, Close
<1>5. CASE Index
  BY <1>1, <1>2, <1>5 DEF Index, IndexGet, IndexReport, IndexClose
<1>6. CASE FanIn
  BY <1>1, <1>2, <1>6 DEF FanIn, FanInItem, FanInEnd, FanInResult,
     FanInCancelled, FanInReport, FanInClose
<1>7. CASE Untar
  BY <1>1, <1>2, <1>7 DEF Untar, UntarCheck, UntarRead, UntarEOF, UntarFail,
     UntarReport
<1>8. QED
  BY <1>2, <1>4, <1>5, <1>6, <1>7 DEF Next, vars, Environment, FanOut, Worker,
     CallerCancel

-----------------------------------------------------------------------------
\* The channel keeps the items in order, without a hole.
LEMMA StepChanInv == IInv /\ [Next]_vars => ChanInv'
<1> SUFFICES ASSUME StageType, KeysInv, ChanInv, [Next]_vars
             PROVE  ChanInv'
  BY DEF IInv, TypeOK
<1> USE ArchiveFacts, KeysLength DEF remoteVars, ctxVars, idxVars,
        fanOutVars, workVars, fanInVars, untarVars, mainVars, ChanInv,
        StageType, Items
<1>1. CASE Environment
  BY <1>1 DEF Environment, Publish, Expire
<1>2. CASE Main
  <2>1. CASE Describe
    BY <1>2, <2>1 DEF Main, Describe, Goes, Fail
  <2>2. CASE WakeUp
    BY <1>2, <2>2 DEF Main, WakeUp, Goes, Fail
  <2>3. CASE Receive
    BY <1>2, <2>3 DEF Main, Receive, Return
  <2>4. CASE Close
    BY <1>2, <2>4 DEF Main, Close, Goes
  <2>5. QED BY <1>2, <2>1, <2>2, <2>3, <2>4 DEF Main
<1>3. CASE Index
  <2>1. CASE IndexGet
    BY <1>3, <2>1 DEF Index, IndexGet
  <2>2. CASE IndexReport
    BY <1>3, <2>2 DEF Index, IndexReport
  <2>3. CASE IndexClose
    BY <1>3, <2>3 DEF Index, IndexClose
  <2>4. QED BY <1>3, <2>1, <2>2, <2>3 DEF Index
<1>4. CASE FanOut
  <2>1. CASE FanOutScan
    BY <1>4, <2>1 DEF FanOut, FanOutScan
  <2>2. CASE FanOutRead
    BY <1>4, <2>2 DEF FanOut, FanOutRead
  <2>3. CASE FanOutEOF
    BY <1>4, <2>3 DEF FanOut, FanOutEOF
  <2>4. CASE FanOutPut
    BY <1>4, <2>4 DEF FanOut, FanOutPut
  <2>5. CASE FanOutStop
    BY <1>4, <2>5 DEF FanOut, FanOutStop
  <2>6. QED BY <1>4, <2>1, <2>2, <2>3, <2>4, <2>5 DEF FanOut
<1>5. CASE FanIn
  <2>1. CASE FanInItem
    BY <1>5, <2>1 DEF FanIn, FanInItem
  <2>2. CASE FanInEnd
    BY <1>5, <2>2 DEF FanIn, FanInEnd
  <2>3. CASE FanInResult
    BY <1>5, <2>3 DEF FanIn, FanInResult, WorkerGoes
  <2>4. CASE FanInCancelled
    BY <1>5, <2>4 DEF FanIn, FanInCancelled
  <2>5. CASE FanInReport
    BY <1>5, <2>5 DEF FanIn, FanInReport
  <2>6. CASE FanInClose
    BY <1>5, <2>6 DEF FanIn, FanInClose
  <2>7. QED BY <1>5, <2>1, <2>2, <2>3, <2>4, <2>5, <2>6 DEF FanIn
<1>6. CASE Untar
  <2>1. CASE UntarCheck
    BY <1>6, <2>1 DEF Untar, UntarCheck
  <2>2. CASE UntarRead
    BY <1>6, <2>2 DEF Untar, UntarRead
  <2>3. CASE UntarEOF
    BY <1>6, <2>3 DEF Untar, UntarEOF
  <2>4. CASE UntarFail
    BY <1>6, <2>4 DEF Untar, UntarFail
  <2>5. CASE UntarReport
    BY <1>6, <2>5 DEF Untar, UntarReport
  <2>6. QED BY <1>6, <2>1, <2>2, <2>3, <2>4, <2>5 DEF Untar
<1>7. ASSUME NEW w \in Items, Worker(w) PROVE ChanInv'
  BY <1>7 DEF Worker, WorkerGet, WorkerProgress, WorkerGiveUp, WorkerGoes
<1>8. CASE CallerCancel
  BY <1>8 DEF CallerCancel
<1>9. CASE UNCHANGED vars
  BY <1>9 DEF vars
<1>10. QED
  BY <1>1, <1>2, <1>3, <1>4, <1>5, <1>6, <1>7, <1>8, <1>9 DEF Next

-----------------------------------------------------------------------------
\* Chunks are written in the order of the archive.
LEMMA StepOutInv == IInv /\ [Next]_vars => OutInv'
<1> SUFFICES ASSUME StageType, RemoteInv, KeysInv, ChanInv, OutInv, [Next]_vars
             PROVE  OutInv'
  BY DEF IInv, TypeOK
<1> USE ArchiveFacts DEF remoteVars, ctxVars, idxVars, fanOutVars, workVars,
        fanInVars, untarVars, mainVars, OutInv, StageType, Items
<1>1. CASE Environment
  BY <1>1 DEF Environment, Publish, Expire
<1>2. CASE Main
  <2>1. CASE Describe
    BY <1>2, <2>1 DEF Main, Describe, Goes, Fail
  <2>2. CASE WakeUp
    BY <1>2, <2>2 DEF Main, WakeUp, Goes, Fail
  <2>3. CASE Receive
    BY <1>2, <2>3 DEF Main, Receive, Return
  <2>4. CASE Close
    BY <1>2, <2>4 DEF Main, Close, Goes
  <2>5. QED BY <1>2, <2>1, <2>2, <2>3, <2>4 DEF Main
<1>3. CASE Index
  <2>1. CASE IndexGet
    BY <1>3, <2>1 DEF Index, IndexGet
  <2>2. CASE IndexReport
    BY <1>3, <2>2 DEF Index, IndexReport
  <2>3. CASE IndexClose
    BY <1>3, <2>3 DEF Index, IndexClose
  <2>4. QED BY <1>3, <2>1, <2>2, <2>3 DEF Index
<1>4. CASE FanOut
  <2>1. CASE FanOutScan
    BY <1>4, <2>1 DEF FanOut, FanOutScan
  <2>2. CASE FanOutRead
    BY <1>4, <2>2 DEF FanOut, FanOutRead
  <2>3. CASE FanOutEOF
    BY <1>4, <2>3 DEF FanOut, FanOutEOF
  <2>4. CASE FanOutPut
    BY <1>4, <2>4 DEF FanOut, FanOutPut
  <2>5. CASE FanOutStop
    BY <1>4, <2>5 DEF FanOut, FanOutStop
  <2>6. QED BY <1>4, <2>1, <2>2, <2>3, <2>4, <2>5 DEF FanOut
<1>5. CASE FanIn
  <2>1. CASE FanInItem
    BY <1>5, <2>1, KeysLength DEF FanIn, FanInItem, ChanInv
  <2>2. CASE FanInEnd
    BY <1>5, <2>2 DEF FanIn, FanInEnd
  <2>3. CASE FanInResult
    BY <1>5, <2>3 DEF FanIn, FanInResult, WorkerGoes
  <2>4. CASE FanInCancelled
    BY <1>5, <2>4 DEF FanIn, FanInCancelled
  <2>5. CASE FanInReport
    BY <1>5, <2>5 DEF FanIn, FanInReport
  <2>6. CASE FanInClose
    BY <1>5, <2>6 DEF FanIn, FanInClose
  <2>7. QED BY <1>5, <2>1, <2>2, <2>3, <2>4, <2>5, <2>6 DEF FanIn
<1>6. CASE Untar
  <2>1. CASE UntarCheck
    BY <1>6, <2>1 DEF Untar, UntarCheck
  <2>2. CASE UntarRead
    <3>1. cur \in 1..N /\ keys = Archive
      BY <1>6, <2>2, KeysLength DEF UntarRead, ChanInv, KeysInv
    <3>2. Archive[cur] \in Hashes
      BY <3>1
    <3>3. /\ out' \in Seq(Hashes) /\ Len(out') = Len(out) + 1
          /\ out'[Len(out) + 1] = Archive[cur]
          /\ \A i \in 1..Len(out) : out'[i] = out[i]
      BY <2>2, <3>1, <3>2, OutAppend DEF UntarRead
    <3>4. Len(out) \in Nat
      OBVIOUS
    <3>5. QED BY <1>6, <2>2, <3>1, <3>3, <3>4 DEF Untar, UntarRead
  <2>3. CASE UntarEOF
    BY <1>6, <2>3 DEF Untar, UntarEOF
  <2>4. CASE UntarFail
    BY <1>6, <2>4 DEF Untar, UntarFail
  <2>5. CASE UntarReport
    BY <1>6, <2>5 DEF Untar, UntarReport
  <2>6. QED BY <1>6, <2>1, <2>2, <2>3, <2>4, <2>5 DEF Untar
<1>7. ASSUME NEW w \in Items, Worker(w) PROVE OutInv'
  BY <1>7 DEF Worker, WorkerGet, WorkerProgress, WorkerGiveUp, WorkerGoes
<1>8. CASE CallerCancel
  BY <1>8 DEF CallerCancel
<1>9. CASE UNCHANGED vars
  BY <1>9 DEF vars
<1>10. QED
  BY <1>1, <1>2, <1>3, <1>4, <1>5, <1>6, <1>7, <1>8, <1>9 DEF Next

-----------------------------------------------------------------------------
\* A chunk is written once its worker has ended.
LEMMA StepDoneInv == IInv /\ [Next]_vars => DoneInv'
<1> SUFFICES ASSUME StageType, KeysInv, ChanInv, OutInv, DoneInv, [Next]_vars
             PROVE  DoneInv'
  BY DEF IInv, TypeOK
<1> USE ArchiveFacts DEF remoteVars, ctxVars, idxVars, fanOutVars, workVars,
        fanInVars, untarVars, mainVars, DoneInv, StageType, Items
<1>1. CASE Environment
  BY <1>1 DEF Environment, Publish, Expire
<1>2. CASE Main
  <2>1. CASE Describe
    BY <1>2, <2>1 DEF Main, Describe, Goes, Fail
  <2>2. CASE WakeUp
    BY <1>2, <2>2 DEF Main, WakeUp, Goes, Fail
  <2>3. CASE Receive
    BY <1>2, <2>3 DEF Main, Receive, Return
  <2>4. CASE Close
    BY <1>2, <2>4 DEF Main, Close, Goes
  <2>5. QED BY <1>2, <2>1, <2>2, <2>3, <2>4 DEF Main
<1>3. CASE Index
  <2>1. CASE IndexGet
    BY <1>3, <2>1 DEF Index, IndexGet
  <2>2. CASE IndexReport
    BY <1>3, <2>2 DEF Index, IndexReport
  <2>3. CASE IndexClose
    BY <1>3, <2>3 DEF Index, IndexClose
  <2>4. QED BY <1>3, <2>1, <2>2, <2>3 DEF Index
<1>4. CASE FanOut
  <2>1. CASE FanOutScan
    BY <1>4, <2>1 DEF FanOut, FanOutScan
  <2>2. CASE FanOutRead
    BY <1>4, <2>2 DEF FanOut, FanOutRead
  <2>3. CASE FanOutEOF
    BY <1>4, <2>3 DEF FanOut, FanOutEOF
  <2>4. CASE FanOutPut
    BY <1>4, <2>4 DEF FanOut, FanOutPut, ChanInv
  <2>5. CASE FanOutStop
    BY <1>4, <2>5 DEF FanOut, FanOutStop
  <2>6. QED BY <1>4, <2>1, <2>2, <2>3, <2>4, <2>5 DEF FanOut
<1>5. CASE FanIn
  <2>1. CASE FanInItem
    BY <1>5, <2>1 DEF FanIn, FanInItem, ChanInv, OutInv
  <2>2. CASE FanInEnd
    BY <1>5, <2>2 DEF FanIn, FanInEnd
  <2>3. CASE FanInResult
    BY <1>5, <2>3 DEF FanIn, FanInResult, WorkerGoes, OutInv
  <2>4. CASE FanInCancelled
    BY <1>5, <2>4 DEF FanIn, FanInCancelled
  <2>5. CASE FanInReport
    BY <1>5, <2>5 DEF FanIn, FanInReport
  <2>6. CASE FanInClose
    BY <1>5, <2>6 DEF FanIn, FanInClose
  <2>7. QED BY <1>5, <2>1, <2>2, <2>3, <2>4, <2>5, <2>6 DEF FanIn
<1>6. CASE Untar
  <2>1. CASE UntarCheck
    BY <1>6, <2>1 DEF Untar, UntarCheck
  <2>2. CASE UntarRead
    BY <1>6, <2>2, UntarReadLength DEF Untar, UntarRead, OutInv
  <2>3. CASE UntarEOF
    BY <1>6, <2>3 DEF Untar, UntarEOF
  <2>4. CASE UntarFail
    BY <1>6, <2>4 DEF Untar, UntarFail
  <2>5. CASE UntarReport
    BY <1>6, <2>5 DEF Untar, UntarReport
  <2>6. QED BY <1>6, <2>1, <2>2, <2>3, <2>4, <2>5 DEF Untar
<1>7. ASSUME NEW w \in Items, Worker(w) PROVE DoneInv'
  <2>1. \A i \in Items : worker[i] = "done" => worker'[i] = "done"
    BY <1>7 DEF Worker, WorkerGet, WorkerProgress, WorkerGiveUp, WorkerGoes
  <2>2. fanIn = "write" => cur \in Items
    BY DEF OutInv
  <2>3. QED BY <1>7, <2>1, <2>2 DEF Worker
<1>8. CASE CallerCancel
  BY <1>8 DEF CallerCancel
<1>9. CASE UNCHANGED vars
  BY <1>9 DEF vars
<1>10. QED
  BY <1>1, <1>2, <1>3, <1>4, <1>5, <1>6, <1>7, <1>8, <1>9 DEF Next

-----------------------------------------------------------------------------
\* A nil that is received first comes after the whole archive.
LEMMA StepOrderInv == IInv /\ [Next]_vars => OrderInv'
<1> SUFFICES ASSUME StageType, ChannelType, RemoteInv, KeysInv, ChanInv, OutInv, DoneInv, OrderInv, [Next]_vars
             PROVE  OrderInv'
  BY DEF IInv, TypeOK
<1> USE ArchiveFacts DEF remoteVars, ctxVars, idxVars, fanOutVars, workVars,
        fanInVars, untarVars, mainVars, OrderInv, Calm, AllQueued,
        StageType, Items
<1>1. CASE Environment
  BY <1>1 DEF Environment, Publish, Expire
<1>2. CASE Main
  <2>1. CASE Describe
    BY <1>2, <2>1 DEF Main, Describe, Goes, Fail
  <2>2. CASE WakeUp
    BY <1>2, <2>2 DEF Main, WakeUp, Goes, Fail
  <2>3. CASE Receive
    BY <1>2, <2>3, ReceiveType DEF Main, Receive, Return, ChannelType
  <2>4. CASE Close
    BY <1>2, <2>4 DEF Main, Close, Goes
  <2>5. QED BY <1>2, <2>1, <2>2, <2>3, <2>4 DEF Main
<1>3. CASE Index
  <2>1. CASE IndexGet
    BY <1>3, <2>1, StartedIndex, DownloadArchiveAssumption DEF Index,
       IndexGet, KeysInv
  <2>2. CASE IndexReport
    <3>1. /\ Calm' => Calm /\ doneCh # <<>>
          /\ doneCh' # <<>>
      BY <1>3, <2>2, SendKeepsCalm DEF Index, IndexReport
    <3>2. keys = <<>>
      BY <2>2 DEF IndexReport, KeysInv
    <3>3. Len(keys) = 0
      BY <3>2, EmptySeq
    <3>4. next \in 0..Len(keys) /\ cur <= next /\ Len(out) <= cur /\ cur \in 0..N
      BY DEF DoneInv, ChanInv
    <3>5. Len(out) # N
      BY <3>3, <3>4, Len(out) \in Nat DEF OutInv
    <3>6. ~Calm'
      BY <3>1, <3>5
    <3>7. QED
      <4> HIDE DEF Calm, AllQueued
      <4>1. QED BY <1>3, <2>2, <3>1, <3>6 DEF Index, IndexReport, Started
  <2>3. CASE IndexClose
    BY <1>3, <2>3 DEF Index, IndexClose
  <2>4. QED BY <1>3, <2>1, <2>2, <2>3 DEF Index
<1>4. CASE FanOut
  <2>1. CASE FanOutScan
    BY <1>4, <2>1, KeysLength DEF FanOut, FanOutScan, KeysInv
  <2>2. CASE FanOutRead
    BY <1>4, <2>2 DEF FanOut, FanOutRead
  <2>3. CASE FanOutEOF
    BY <1>4, <2>3 DEF FanOut, FanOutEOF, ChanInv
  <2>4. CASE FanOutPut
    <3>1. next \in Items
      BY <1>4, <2>4, KeysLength DEF ChanInv, FanOutPut
    <3>2. fanOut' = "closed" => next \in itemCh' /\ worker'[next] = "bad"
      BY <1>4, <2>4, <3>1 DEF FanOutPut
    <3>3. QED BY <1>4, <2>4, <3>2 DEF FanOut, FanOutPut
  <2>5. CASE FanOutStop
    BY <1>4, <2>5 DEF FanOut, FanOutStop, ChunksCtxDone
  <2>6. QED BY <1>4, <2>1, <2>2, <2>3, <2>4, <2>5 DEF FanOut
<1>5. CASE FanIn
  <2>1. CASE FanInItem
    <3>1. Len(out) # N
      BY <2>1 DEF FanInItem, ChanInv, OutInv
    <3>2. QED BY <1>5, <2>1, <3>1 DEF FanIn, FanInItem, ChanInv
  <2>2. CASE FanInEnd
    BY <1>5, <2>2 DEF FanIn, FanInEnd, OutInv, ChanInv
  <2>3. CASE FanInResult
    <3>1. Len(out) # N
      BY <2>3 DEF FanInResult, OutInv
    <3>2. worker' = [worker EXCEPT ![cur] = "done"] /\ worker[cur] # "bad"
      BY <2>3 DEF FanInResult, WorkerGoes
    <3>3. AllQueued => AllQueued'
      BY <1>5, <2>3, <3>2 DEF FanIn, FanInResult
    <3>4. QED
      <4> HIDE DEF AllQueued
      <4>1. QED BY <1>5, <2>3, <3>1, <3>3 DEF FanIn, FanInResult
  <2>4. CASE FanInCancelled
    BY <1>5, <2>4 DEF FanIn, FanInCancelled
  <2>5. CASE FanInReport
    <3>1. /\ Calm' => Calm /\ doneCh # <<>>
          /\ doneCh' # <<>>
      BY <1>5, <2>5, SendKeepsCalm DEF FanIn, FanInReport
    <3>2. ~Calm'
      BY <2>5, <3>1 DEF FanInReport
    <3>3. QED
      <4> HIDE DEF Calm, AllQueued
      <4>1. QED BY <1>5, <2>5, <3>1, <3>2 DEF FanIn, FanInReport, Started
  <2>6. CASE FanInClose
    BY <1>5, <2>6 DEF FanIn, FanInClose
  <2>7. QED BY <1>5, <2>1, <2>2, <2>3, <2>4, <2>5, <2>6 DEF FanIn
<1>6. CASE Untar
  <2>1. CASE UntarCheck
    BY <1>6, <2>1 DEF Untar, UntarCheck
  <2>2. CASE UntarRead
    BY <1>6, <2>2, UntarReadLength DEF Untar, UntarRead, OutInv
  <2>3. CASE UntarEOF
    BY <1>6, <2>3 DEF Untar, UntarEOF
  <2>4. CASE UntarFail
    BY <1>6, <2>4 DEF Untar, UntarFail
  <2>5. CASE UntarReport
    <3>1. CASE untar = "ok"
      <4>1. /\ Calm' => Calm
            /\ doneCh' # <<>>
        BY <1>6, <2>5, <3>1, SendKeepsCalm DEF Untar, UntarReport
      <4>2. AllQueued' <=> AllQueued
        BY <1>6, <2>5 DEF Untar, UntarReport
      <4>3. QED
        <5> HIDE DEF Calm, AllQueued
        <5>1. QED BY <1>6, <2>5, <3>1, <4>1, <4>2 DEF Untar, UntarReport, Started
    <3>2. CASE untar = "failed"
      <4>1. /\ Calm' => Calm /\ doneCh # <<>>
            /\ doneCh' # <<>>
        BY <1>6, <2>5, <3>2, SendKeepsCalm DEF Untar, UntarReport
      <4>2. AllQueued' <=> AllQueued
        BY <1>6, <2>5 DEF Untar, UntarReport
      <4>3. QED
        <5> HIDE DEF Calm, AllQueued
        <5>1. QED BY <1>6, <2>5, <3>2, <4>1, <4>2 DEF Untar, UntarReport, Started
    <3>3. QED BY <2>5, <3>1, <3>2 DEF UntarReport
  <2>6. QED BY <1>6, <2>1, <2>2, <2>3, <2>4, <2>5 DEF Untar
<1>7. ASSUME NEW w \in Items, Worker(w) PROVE OrderInv'
  BY <1>7 DEF Worker, WorkerGet, WorkerProgress, WorkerGiveUp, WorkerGoes
<1>8. CASE CallerCancel
  BY <1>8 DEF CallerCancel
<1>9. CASE UNCHANGED vars
  BY <1>9 DEF vars
<1>10. QED
  BY <1>1, <1>2, <1>3, <1>4, <1>5, <1>6, <1>7, <1>8, <1>9 DEF Next

-----------------------------------------------------------------------------
\* After a whole download no worker is left at its progress send.
LEMMA StepPanicMeansFailure == IInv /\ [Next]_vars => PanicMeansFailure'
<1> SUFFICES ASSUME StageType, OutInv, DoneInv, OrderInv, PanicMeansFailure, [Next]_vars
             PROVE  PanicMeansFailure'
  BY DEF IInv, TypeOK
<1> USE ArchiveFacts DEF remoteVars, ctxVars, idxVars, fanOutVars, workVars,
        fanInVars, untarVars, mainVars, PanicMeansFailure, OrderInv,
        StageType
<1>1. CASE Environment
  BY <1>1 DEF Environment, Publish, Expire
<1>2. CASE Main
  <2>1. CASE Describe
    BY <1>2, <2>1 DEF Main, Describe, Goes, Fail
  <2>2. CASE WakeUp
    BY <1>2, <2>2 DEF Main, WakeUp, Goes, Fail
  <2>3. CASE Receive
    BY <1>2, <2>3 DEF Main, Receive, Return
  <2>4. CASE Close
    BY <1>2, <2>4 DEF Main, Close, Goes
  <2>5. QED BY <1>2, <2>1, <2>2, <2>3, <2>4 DEF Main
<1>3. CASE Index
  <2>1. CASE IndexGet
    BY <1>3, <2>1 DEF Index, IndexGet
  <2>2. CASE IndexReport
    BY <1>3, <2>2 DEF Index, IndexReport
  <2>3. CASE IndexClose
    BY <1>3, <2>3 DEF Index, IndexClose
  <2>4. QED BY <1>3, <2>1, <2>2, <2>3 DEF Index
<1>4. CASE FanOut
  <2>1. CASE FanOutScan
    BY <1>4, <2>1 DEF FanOut, FanOutScan
  <2>2. CASE FanOutRead
    BY <1>4, <2>2 DEF FanOut, FanOutRead
  <2>3. CASE FanOutEOF
    BY <1>4, <2>3 DEF FanOut, FanOutEOF
  <2>4. CASE FanOutPut
    BY <1>4, <2>4 DEF FanOut, FanOutPut
  <2>5. CASE FanOutStop
    BY <1>4, <2>5 DEF FanOut, FanOutStop
  <2>6. QED BY <1>4, <2>1, <2>2, <2>3, <2>4, <2>5 DEF FanOut
<1>5. CASE FanIn
  <2>1. CASE FanInItem
    BY <1>5, <2>1 DEF FanIn, FanInItem
  <2>2. CASE FanInEnd
    BY <1>5, <2>2 DEF FanIn, FanInEnd
  <2>3. CASE FanInResult
    BY <1>5, <2>3 DEF FanIn, FanInResult, WorkerGoes
  <2>4. CASE FanInCancelled
    BY <1>5, <2>4 DEF FanIn, FanInCancelled
  <2>5. CASE FanInReport
    BY <1>5, <2>5 DEF FanIn, FanInReport
  <2>6. CASE FanInClose
    BY <1>5, <2>6 DEF FanIn, FanInClose
  <2>7. QED BY <1>5, <2>1, <2>2, <2>3, <2>4, <2>5, <2>6 DEF FanIn
<1>6. CASE Untar
  <2>1. CASE UntarCheck
    BY <1>6, <2>1 DEF Untar, UntarCheck
  <2>2. CASE UntarRead
    BY <1>6, <2>2 DEF Untar, UntarRead
  <2>3. CASE UntarEOF
    BY <1>6, <2>3 DEF Untar, UntarEOF
  <2>4. CASE UntarFail
    BY <1>6, <2>4 DEF Untar, UntarFail
  <2>5. CASE UntarReport
    BY <1>6, <2>5 DEF Untar, UntarReport
  <2>6. QED BY <1>6, <2>1, <2>2, <2>3, <2>4, <2>5 DEF Untar
<1>7. ASSUME NEW w \in Items, Worker(w) PROVE PanicMeansFailure'
  <2>1. CASE WorkerProgress(w)
    <3>1. Len(out) = N => worker[w] = "done"
      BY DEF DoneInv, Items
    <3>2. ret = "nil" => cancelled \/ Len(out) # N
      BY <2>1, <3>1 DEF WorkerProgress
    <3>3. QED BY <1>7, <2>1, <3>2 DEF Worker, WorkerProgress
  <2>2. CASE UNCHANGED panicked
    BY <1>7, <2>2 DEF Worker
  <2>3. QED BY <1>7, <2>1, <2>2 DEF Worker, WorkerGet, WorkerGiveUp
<1>8. CASE CallerCancel
  BY <1>8 DEF CallerCancel
<1>9. CASE UNCHANGED vars
  BY <1>9 DEF vars
<1>10. QED
  BY <1>1, <1>2, <1>3, <1>4, <1>5, <1>6, <1>7, <1>8, <1>9 DEF Next

-----------------------------------------------------------------------------
(* Deadlock.                                                                 *)

\* Every step keeps the worker of each item fan-in may wait for alive.
LEMMA StepServedInv == IInv /\ ServedInv /\ [Next]_vars => ServedInv'
<1> SUFFICES ASSUME RemoteType, StageType, ChannelType, RemoteInv, KeysInv, ChanInv,
                    OutInv, ServedInv, [Next]_vars
             PROVE  ServedInv'
  BY DEF IInv, TypeOK
<1> USE ArchiveFacts, KeysLength DEF ServedInv, Alive, StageType, remoteVars,
        ctxVars, idxVars, fanOutVars, workVars, fanInVars, untarVars, mainVars
<1>s. ASSUME NEW v \in {"nil", "err"}, Send(v) PROVE doneCh' # <<>>
  BY <1>s, SendKeepsHead DEF ChannelType
<1>1. CASE Environment
  BY <1>1 DEF Environment
<1>2. CASE Main
  <2>1. CASE Describe
    BY <1>2, <2>1 DEF Main, Describe, Goes, Fail
  <2>2. CASE WakeUp
    BY <1>2, <2>2 DEF Main, WakeUp, Goes, Fail
  <2>3. CASE Receive
    BY <1>2, <2>3 DEF Main, Receive, Return
  <2>4. CASE Close
    BY <1>2, <2>4 DEF Main, Close, Goes
  <2>5. QED BY <1>2, <2>1, <2>2, <2>3, <2>4 DEF Main
<1>3. CASE Index
  <2>1. CASE IndexGet
    <3>1. scanned = 0
      BY <2>1, EmptySeq DEF IndexGet, KeysInv
    <3>2. idx' = "write" => scanned' < Len(keys')
      <4>1. idx' = "write" => keys' = index /\ index # <<>>
        BY <2>1 DEF IndexGet
      <4>2. index # <<>> => 0 < Len(index)
        BY EmptySeq DEF RemoteType
      <4>3. QED BY <1>3, <3>1, <4>1, <4>2 DEF Index
    <3>3. QED BY <1>3, <2>1, <3>2 DEF Index, IndexGet, Started
  <2>2. CASE IndexReport
    BY <1>3, <2>2, <1>s DEF Index, IndexReport
  <2>3. CASE IndexClose
    BY <1>3, <2>3 DEF Index, IndexClose
  <2>4. QED BY <1>3, <2>1, <2>2, <2>3 DEF Index
<1>4. CASE FanOut
  <2>1. CASE FanOutScan
    BY <1>4, <2>1 DEF FanOut, FanOutScan
  <2>2. CASE FanOutRead
    BY <1>4, <2>2 DEF FanOut, FanOutRead
  <2>3. CASE FanOutEOF
    BY <1>4, <2>3 DEF FanOut, FanOutEOF
  <2>4. CASE FanOutPut
    <3>1. next \in Items
      BY <2>4 DEF FanOutPut, ChanInv, Items
    <3>2. worker'[next] \in {"bad", "get"}
          /\ \A i \in Items \ {next} : worker'[i] = worker[i]
      BY <2>4, <3>1 DEF FanOutPut
    <3>3. fanIn = "result" => cur # next
      BY <2>4 DEF FanOutPut, ChanInv
    <3>4. fanIn = "result" => cur \in Items
      BY DEF OutInv, Items
    <3>5. UNCHANGED <<ctxDone, fanIn, cur, idx, scanned, keys, untar, main, doneCh>>
          /\ itemCh' = itemCh \cup {next}
      BY <1>4, <2>4 DEF FanOut, FanOutPut
    <3>6. QED BY <3>1, <3>2, <3>3, <3>4, <3>5
  <2>5. CASE FanOutStop
    BY <1>4, <2>5 DEF FanOut, FanOutStop
  <2>6. QED BY <1>4, <2>1, <2>2, <2>3, <2>4, <2>5 DEF FanOut
<1>5. CASE FanIn
  <2>1. CASE FanInItem
    BY <1>5, <2>1 DEF FanIn, FanInItem
  <2>2. CASE FanInEnd
    BY <1>5, <2>2 DEF FanIn, FanInEnd
  <2>3. CASE FanInResult
    <3>1. cur \notin itemCh
      BY DEF ChanInv
    <3>2. \A i \in Items \ {cur} : worker'[i] = worker[i]
      BY <2>3 DEF FanInResult, WorkerGoes
    <3>3. QED BY <1>5, <2>3, <3>1, <3>2 DEF FanIn, FanInResult
  <2>4. CASE FanInCancelled
    BY <1>5, <2>4 DEF FanIn, FanInCancelled
  <2>5. CASE FanInReport
    BY <1>5, <2>5, <1>s DEF FanIn, FanInReport
  <2>6. CASE FanInClose
    BY <1>5, <2>6 DEF FanIn, FanInClose
  <2>7. QED BY <1>5, <2>1, <2>2, <2>3, <2>4, <2>5, <2>6 DEF FanIn
<1>6. CASE Untar
  <2>1. CASE UntarCheck
    BY <1>6, <2>1 DEF Untar, UntarCheck, Started
  <2>2. CASE UntarRead
    BY <1>6, <2>2 DEF Untar, UntarRead, Started
  <2>3. CASE UntarEOF
    BY <1>6, <2>3 DEF Untar, UntarEOF, Started
  <2>4. CASE UntarFail
    BY <1>6, <2>4 DEF Untar, UntarFail, Started
  <2>5. CASE UntarReport
    BY <1>6, <2>5, <1>s DEF Untar, UntarReport, Started
  <2>6. QED BY <1>6, <2>1, <2>2, <2>3, <2>4, <2>5 DEF Untar
<1>7. ASSUME NEW w \in Items, Worker(w) PROVE ServedInv'
  <2>1. UNCHANGED <<ctxDone, itemCh, fanIn, cur, idx, scanned, keys, untar, main,
                    doneCh>>
        /\ \A i \in Items \ {w} : worker'[i] = worker[i]
    BY <1>7 DEF Worker, WorkerGet, WorkerProgress, WorkerGiveUp, WorkerGoes
  <2>2. fanIn = "result" => cur \in Items
    BY DEF OutInv, Items
  <2>3. CASE WorkerGiveUp(w)
    BY <2>1, <2>3 DEF WorkerGiveUp, ChunksCtxDone
  <2>4. CASE WorkerGet(w) \/ WorkerProgress(w)
    <3>1. worker'[w] \in Alive
      BY <2>4 DEF WorkerGet, WorkerProgress, WorkerGoes
    <3>2. QED BY <2>1, <2>2, <3>1
  <2>5. QED BY <1>7, <2>3, <2>4 DEF Worker
<1>8. CASE CallerCancel
  BY <1>8 DEF CallerCancel
<1>9. CASE UNCHANGED vars
  BY <1>9 DEF vars
<1>10. QED
  BY <1>1, <1>2, <1>3, <1>4, <1>5, <1>6, <1>7, <1>8, <1>9 DEF Next

\* Downstream first: whoever waits waits for a stage that can go on, from untar
\* back to fan-in and its worker, to fan-out and to the reader of the index.
LEMMA SomeoneReady == IInv /\ ServedInv => NoJam
<1> SUFFICES ASSUME StageType, ChannelType, KeysInv, ChanInv, OutInv, ServedInv,
                    ~Ended, ~panicked, ~MainReady,
                    ~(Started /\ (\/ IndexReady \/ FanOutReady \/ FanInReady
                                  \/ UntarReady
                                  \/ \E i \in Items : WorkerReady(i)))
             PROVE  FALSE
  BY DEF IInv, TypeOK, NoJam
<1>1. main = "wait" /\ doneCh = <<>> /\ Started
  BY DEF MainReady, Ended, Started, StageType
<1>2. /\ ~IndexReady /\ ~FanOutReady /\ ~FanInReady /\ ~UntarReady
      /\ \A i \in Items : ~WorkerReady(i)
  BY <1>1
<1>3. Len(doneCh) < DoneCap
  BY <1>1, EmptySeq DEF DoneCap
<1>4. untar = "read" /\ fanIn \notin {"write", "done"}
  BY <1>1, <1>2, <1>3 DEF UntarReady, StageType, ServedInv
<1>5. fanIn \in {"item", "result"} /\ ~ctxDone
  BY <1>2, <1>3, <1>4 DEF FanInReady, StageType
<1>6. fanIn = "item"
  <2> SUFFICES ASSUME fanIn = "result" PROVE FALSE
    BY <1>5
  <2>1. cur \in Items /\ worker[cur] \in Alive
    BY <1>5, ArchiveFacts DEF ServedInv, OutInv, StageType, Items
  <2>2. worker[cur] \notin {"ok", "failed"}
    BY <1>2 DEF FanInReady
  <2>3. WorkerReady(cur)
    BY <2>1, <2>2 DEF WorkerReady, Alive
  <2>4. QED BY <1>2, <2>1, <2>3
<1>7. itemCh = {} /\ fanOut # "closed"
  BY <1>2, <1>6 DEF FanInReady
<1>8. fanOut = "next"
  <2>1. Cardinality(itemCh) < Concurrency
    BY <1>7, FS_EmptySet, DownloadConcurrencyAssumption
  <2>2. QED BY <1>2, <1>7, <2>1 DEF FanOutReady, StageType
<1>9. idx # "done" /\ idx # "write"
  BY <1>2, <1>8 DEF FanOutReady, ServedInv
<1>10. QED BY <1>2, <1>3, <1>9 DEF IndexReady, StageType

-----------------------------------------------------------------------------
(* Downloads in which nothing fails.                                         *)

\* The uploader keeps what its dataset has published.
LEMMA StepPublishedSoFar ==
  PublishedSoFar /\ [Remote!Next]_Remote!remote => PublishedSoFar'
<1> SUFFICES ASSUME PublishedSoFar, [Remote!Next]_Remote!remote
             PROVE  PublishedSoFar'
  OBVIOUS
<1>1. ASSUME NEW h \in Hashes \cup {TailHash}, Remote!StoreChunk(h)
      PROVE  PublishedSoFar'
  BY <1>1 DEF PublishedSoFar, Remote!StoreChunk
<1>2. CASE Remote!StoreIndex
  <2>1. "metadata" \notin objects /\ status # "SUCCESS"
    BY <1>2 DEF Remote!StoreIndex, PublishedSoFar
  <2>2. \A i \in DOMAIN index' : index'[i] \in store'
    BY <1>2 DEF Remote!StoreIndex
  <2>3. objects' = objects \cup {"index"} /\ status' = status
    BY <1>2 DEF Remote!StoreIndex
  <2>4. QED BY <2>1, <2>2, <2>3 DEF PublishedSoFar
<1>3. CASE Remote!StoreMetadata
  BY <1>3 DEF PublishedSoFar, Remote!StoreMetadata
<1>4. CASE Remote!KeepAlive
  BY <1>4 DEF PublishedSoFar, Remote!KeepAlive
<1>5. CASE Remote!Succeed
  BY <1>5 DEF PublishedSoFar, Remote!Succeed
<1>6. CASE UNCHANGED Remote!remote
  BY <1>6 DEF PublishedSoFar, Remote!remote
<1>7. QED BY <1>1, <1>2, <1>3, <1>4, <1>5, <1>6 DEF Remote!Next

\* No step of the client is one of the uploader.
LEMMA RemoteSteps == [Next]_vars => [Remote!Next]_Remote!remote
<1> SUFFICES ASSUME [Next]_vars PROVE [Remote!Next]_Remote!remote
  OBVIOUS
<1> USE DEF Remote!remote, remoteVars
<1>1. CASE Environment
  BY <1>1 DEF Environment, Publish, Expire
<1>2. CASE UNCHANGED remoteVars
  BY <1>2
<1>3. QED
  BY <1>1, <1>2 DEF Next, vars, Main, Index, FanOut, Worker, FanIn, Untar,
     CallerCancel

\* A send of nil keeps the channel free of errors.
LEMMA SendNil ==
  ASSUME doneCh \in Seq({"nil"}), Send("nil")
  PROVE  doneCh' \in Seq({"nil"})
<1> DEFINE S == {"nil"}
<1>1. doneCh \in Seq(S) /\ "nil" \in S
  OBVIOUS
<1> HIDE DEF S
<1>2. Append(doneCh, "nil") \in Seq(S)
  BY <1>1, AppendProperties
<1>3. QED BY <1>2 DEF Send, S

\* What is received of a channel free of errors is nil.
LEMMA ReceiveNil ==
  ASSUME doneCh \in Seq({"nil"}), doneCh # <<>>
  PROVE  Head(doneCh) = "nil"
<1>1. Head(doneCh) \in {"nil"}
  BY HeadTailProperties
<1>2. QED BY <1>1

\* No step is an error when nothing can fail: the index is there, every key of
\* it resolves, and no stream ends before its time.
LEMMA StepSmoothInv ==
  IInv /\ FreshInv /\ PublishedSoFar /\ SmoothInv /\ [Next]_vars => SmoothInv'
<1> SUFFICES ASSUME StageType, RemoteInv, KeysInv, ChanInv, OutInv, OrderInv,
                    FreshInv, PublishedSoFar, SmoothInv, Faults = {}, [Next]_vars
             PROVE  SmoothInv'
  BY DEF IInv, TypeOK, SmoothInv
<1> USE ArchiveFacts, KeysLength DEF SmoothInv, StageType, remoteVars, ctxVars,
        idxVars, fanOutVars, workVars, fanInVars, untarVars, mainVars
<1>1. CASE Environment
  BY <1>1 DEF Environment, Publish, Expire
<1>2. CASE Main
  <2>1. CASE Describe
    BY <1>2, <2>1 DEF Main, Describe, Goes, Fail
  <2>2. CASE WakeUp
    BY <1>2, <2>2 DEF Main, WakeUp, Goes, Fail
  <2>3. CASE Receive
    <3>1. Head(doneCh) = "nil"
      BY <2>3, ReceiveNil DEF Receive
    <3>2. QED BY <1>2, <2>3, <3>1 DEF Main, Receive, Return
  <2>4. CASE Close
    BY <1>2, <2>4 DEF Main, Close, Goes
  <2>5. QED BY <1>2, <2>1, <2>2, <2>3, <2>4 DEF Main
<1>o. ASSUME Started, UNCHANGED <<ctxVars, mainVars, expired>>, main # "wait"
      PROVE  SmoothInv'
  BY <1>o DEF Started
<1>c. main = "wait" =>
        /\ ~ctxDone /\ doneCh \in Seq({"nil"})
        /\ fanIn = "done" => Len(out) \in FileEnds
        /\ fanIn = "done" => \A i \in Items : worker[i] \in {"none", "done"}
  <2> SUFFICES ASSUME main = "wait" PROVE /\ fanIn = "done" => Len(out) = N
                                          /\ ~ctxDone
    BY FileEndsAssumption
  <2>1. Calm
    BY ReceiveNil DEF Calm
  <2>2. QED BY <2>1 DEF OrderInv
<1>3. CASE Index
  <2> SUFFICES ASSUME main = "wait" PROVE SmoothInv'
    BY <1>3, <1>o DEF Index
  <2>1. CASE IndexGet
    <3>1. "index" \in objects
      BY DEF RemoteInv
    <3>2. QED BY <1>3, <1>c, <2>1, <3>1 DEF Index, IndexGet
  <2>2. CASE IndexReport
    BY <2>2 DEF IndexReport
  <2>3. CASE IndexClose
    BY <1>3, <2>3 DEF Index, IndexClose
  <2>4. QED BY <1>3, <2>1, <2>2, <2>3 DEF Index
<1>4. CASE FanOut
  <2> SUFFICES ASSUME main = "wait" PROVE SmoothInv'
    BY <1>4, <1>o DEF FanOut
  <2>1. CASE FanOutPut
    <3>1. /\ fanOut = "put" /\ next \in Items
          /\ fanIn # "done" /\ itemCh' = itemCh \cup {next}
          /\ worker' = [worker EXCEPT ![next] = "get"]
      BY <2>1 DEF FanOutPut, ChanInv, Items
    <3>2. QED BY <1>4, <2>1, <3>1 DEF FanOut, FanOutPut
  <2>2. CASE FanOutScan \/ FanOutRead \/ FanOutEOF \/ FanOutStop
    BY <1>4, <2>2 DEF FanOut, FanOutScan, FanOutRead, FanOutEOF, FanOutStop
  <2>3. QED BY <1>4, <2>1, <2>2 DEF FanOut
<1>5. CASE FanIn
  <2> SUFFICES ASSUME main = "wait" PROVE SmoothInv'
    BY <1>5, <1>o DEF FanIn
  <2>1. CASE FanInItem
    BY <1>5, <2>1 DEF FanIn, FanInItem
  <2>2. CASE FanInEnd
    BY <1>5, <2>2 DEF FanIn, FanInEnd
  <2>3. CASE FanInResult
    <3>1. cur \in Items
      BY <2>3 DEF FanInResult, OutInv, Items
    <3>2. fanIn' = "write" /\ worker' = [worker EXCEPT ![cur] = "done"]
      BY <2>3, <3>1 DEF FanInResult, WorkerGoes
    <3>3. QED BY <1>5, <2>3, <3>1, <3>2 DEF FanIn, FanInResult
  <2>4. CASE FanInCancelled \/ FanInReport \/ FanInClose
    BY <1>c, <2>4 DEF FanInCancelled, FanInReport, FanInClose
  <2>5. QED BY <1>5, <2>1, <2>2, <2>3, <2>4 DEF FanIn
<1>6. CASE Untar
  <2> SUFFICES ASSUME main = "wait" PROVE SmoothInv'
    BY <1>6, <1>o DEF Untar
  <2>1. CASE UntarCheck
    BY <1>6, <1>c, <2>1 DEF Untar, UntarCheck
  <2>2. CASE UntarRead
    BY <1>6, <2>2 DEF Untar, UntarRead
  <2>3. CASE UntarEOF
    BY <1>6, <1>c, <2>3, FileEndsAssumption DEF Untar, UntarEOF
  <2>4. CASE UntarFail
    BY <2>4 DEF UntarFail
  <2>5. CASE UntarReport
    <3>1. Send("nil")
      BY <2>5 DEF UntarReport
    <3>2. doneCh' \in Seq({"nil"})
      BY <1>c, <3>1, SendNil
    <3>3. QED BY <1>6, <2>5, <3>2 DEF Untar, UntarReport
  <2>6. QED BY <1>6, <2>1, <2>2, <2>3, <2>4, <2>5 DEF Untar
<1>7. ASSUME NEW w \in Items, Worker(w) PROVE SmoothInv'
  <2> SUFFICES ASSUME main = "wait" PROVE SmoothInv'
    BY <1>7, <1>o DEF Worker
  <2>1. /\ UNCHANGED <<itemCh, fanIn, cur, doneCh, idx, fanOut, untar, ctxVars,
                       mainVars, expired>>
        /\ \A i \in Items \ {w} : worker'[i] = worker[i]
    BY <1>7 DEF Worker, WorkerGet, WorkerProgress, WorkerGiveUp, WorkerGoes
  <2>2. worker[w] \in {"get", "progress", "ok"} /\ ~ChunksCtxDone
    BY <1>7, <1>c DEF Worker, WorkerGet, WorkerProgress, WorkerGiveUp, ChunksCtxDone
  <2>3. keys[w] \in store
    <3>1. keys = Archive /\ index = Archive
      <4>1. main = "wait" => index = Archive
        BY DEF RemoteInv
      <4>2. w <= next
        BY <2>2 DEF FreshInv
      <4>3. QED BY <4>1, <4>2 DEF KeysInv, Items
    <3>2. w \in DOMAIN index
      BY <3>1 DEF Items
    <3>3. QED BY <3>1, <3>2 DEF PublishedSoFar
  <2>4. worker'[w] \in {"progress", "ok"}
    BY <1>7, <2>2, <2>3 DEF Worker, WorkerGet, WorkerProgress, WorkerGiveUp,
       WorkerGoes
  <2>5. QED BY <2>1, <2>2, <2>4
<1>8. CASE CallerCancel
  BY <1>8 DEF CallerCancel
<1>9. CASE UNCHANGED vars
  BY <1>9 DEF vars
<1>10. QED
  BY <1>1, <1>2, <1>3, <1>4, <1>5, <1>6, <1>7, <1>8, <1>9 DEF Next

-----------------------------------------------------------------------------
(* Progress.                                                                 *)

\* Every step keeps the items that are to come without a worker.
LEMMA StepFreshInv == IInv /\ FreshInv /\ [Next]_vars => FreshInv'
<1> SUFFICES ASSUME StageType, KeysInv, ChanInv, FreshInv, [Next]_vars
             PROVE  FreshInv'
  BY DEF IInv, TypeOK
<1> USE ArchiveFacts, KeysLength DEF FreshInv, StageType, Items, remoteVars,
        ctxVars, idxVars, fanOutVars, workVars, fanInVars, untarVars, mainVars
<1>1. CASE FanOut
  <2>1. CASE FanOutScan
    BY <1>1, <2>1 DEF FanOut, FanOutScan
  <2>2. CASE FanOutRead
    BY <1>1, <2>2 DEF FanOut, FanOutRead
  <2>3. CASE FanOutEOF
    BY <1>1, <2>3 DEF FanOut, FanOutEOF
  <2>4. CASE FanOutPut
    BY <1>1, <2>4 DEF FanOut, FanOutPut
  <2>5. CASE FanOutStop
    BY <1>1, <2>5 DEF FanOut, FanOutStop
  <2>6. QED BY <1>1, <2>1, <2>2, <2>3, <2>4, <2>5 DEF FanOut
<1>2. CASE FanIn
  <2>1. CASE FanInResult
    BY <1>2, <2>1 DEF FanIn, FanInResult, WorkerGoes, ChanInv
  <2>2. CASE UNCHANGED worker
    BY <1>2, <2>2 DEF FanIn
  <2>3. QED
    BY <1>2, <2>1, <2>2 DEF FanIn, FanInItem, FanInEnd, FanInCancelled,
       FanInReport, FanInClose
<1>3. ASSUME NEW w \in Items, Worker(w) PROVE FreshInv'
  BY <1>3 DEF Worker, WorkerGet, WorkerProgress, WorkerGiveUp, WorkerGoes
<1>4. CASE UNCHANGED <<next, fanOut, worker>>
  BY <1>4
<1>5. QED
  BY <1>1, <1>2, <1>3, <1>4 DEF Next, vars, Environment, Main, Index, Untar,
     CallerCancel

\* No rank is above its bound.
LEMMA RanksTyped ==
  ASSUME StageType, KeysInv, OutInv PROVE RanksBounded
<1> USE ArchiveFacts, KeysLength DEF StageType
<1>1. IndexRank \in 0..3 /\ MainRank \in 0..3
  BY DEF IndexRank, MainRank
<1>2. scanned \in 0..N /\ next \in 0..N
  OBVIOUS
<1>3. FanOutRank \in 0..(2 * N + 2)
  BY <1>2 DEF FanOutRank
<1>4. \A i \in Items : WorkerRank(i) \in 0..5
  BY DEF WorkerRank
<1>5. FanInRank \in 0..(3 * N + 5)
  BY DEF FanInRank
<1>6. UntarRank \in 0..(2 * N + 3)
  <2>1. Len(out) \in 0..N
    BY DEF OutInv
  <2>2. QED BY <2>1 DEF UntarRank
<1>7. QED BY <1>1, <1>2, <1>3, <1>4, <1>5, <1>6 DEF RanksBounded

\* A rank that nothing of is changed stays.
LEMMA RanksStay ==
  ASSUME RanksBounded
  PROVE  /\ UNCHANGED idx => IndexRank <= IndexRank'
         /\ UNCHANGED scanned => scanned <= scanned'
         /\ UNCHANGED <<next, fanOut>> => FanOutRank <= FanOutRank'
         /\ UNCHANGED worker =>
              \A i \in Items : WorkerRank(i) <= WorkerRank(i)'
         /\ UNCHANGED <<cur, fanIn>> => FanInRank <= FanInRank'
         /\ UNCHANGED <<out, untar>> => UntarRank <= UntarRank'
         /\ UNCHANGED main => MainRank <= MainRank'
<1> USE ArchiveFacts
<1>1. UNCHANGED idx => IndexRank' = IndexRank
  BY DEF IndexRank
<1>2. UNCHANGED <<next, fanOut>> => FanOutRank' = FanOutRank
  BY DEF FanOutRank
<1>3. UNCHANGED worker => \A i \in Items : WorkerRank(i)' = WorkerRank(i)
  BY DEF WorkerRank
<1>4. UNCHANGED <<cur, fanIn>> => FanInRank' = FanInRank
  BY DEF FanInRank
<1>5. UNCHANGED <<out, untar>> => UntarRank' = UntarRank
  BY DEF UntarRank
<1>6. UNCHANGED main => MainRank' = MainRank
  BY DEF MainRank
<1>7. QED BY <1>1, <1>2, <1>3, <1>4, <1>5, <1>6 DEF RanksBounded

\* Every step is a step forward, of the environment, or before start is called.
LEMMA StepAdvances == IInv /\ FreshInv /\ [Next]_vars => [Advances]_vars
<1> SUFFICES ASSUME IInv, FreshInv, Next PROVE Advances
  OBVIOUS
<1>r. RanksBounded
  BY RanksTyped DEF IInv, TypeOK
<1> USE ArchiveFacts, KeysLength DEF IInv, TypeOK, StageType, remoteVars,
        ctxVars, idxVars, fanOutVars, workVars, fanInVars, untarVars, mainVars
<1>1. CASE Environment
  BY <1>r, <1>1, RanksStay DEF Environment, Advances, Forward
<1>2. CASE Main
  <2>1. /\ MainRank <= MainRank' /\ (ctxDone => ctxDone')
        /\ Started => MainRank < MainRank'
    BY <1>2 DEF Main, Describe, WakeUp, Receive, Close, Goes, Fail, Return,
       Started, MainRank
  <2>2. QED BY <1>r, <1>2, <2>1, RanksStay DEF Main, Advances, Forward
<1>3. CASE Index
  <2>1. IndexRank < IndexRank' /\ IndexRank <= IndexRank'
    BY <1>3 DEF Index, IndexGet, IndexReport, IndexClose, IndexRank
  <2>2. QED BY <1>r, <1>3, <2>1, RanksStay DEF Index, Advances, Forward
<1>4. CASE FanOut
  <2>1. CASE FanOutScan
    <3>1. /\ IndexRank <= IndexRank'
          /\ scanned < scanned' /\ scanned <= scanned'
      BY <2>1 DEF FanOutScan, IndexRank
    <3>2. QED
      BY <1>r, <1>4, <2>1, <3>1, RanksStay DEF FanOut, FanOutScan, Advances, Forward
  <2>2. CASE FanOutPut
    <3>1. FanOutRank < FanOutRank' /\ FanOutRank <= FanOutRank'
      BY <2>2 DEF FanOutPut, FanOutRank
    <3>2. \A i \in Items : WorkerRank(i) <= WorkerRank(i)'
      <4>1. next \in Items /\ worker[next] = "none"
        BY <2>2 DEF FanOutPut, ChanInv, FreshInv, Items
      <4>2. QED BY <2>2, <4>1 DEF FanOutPut, WorkerRank
    <3>3. QED
      BY <1>r, <1>4, <2>2, <3>1, <3>2, RanksStay
         DEF FanOut, FanOutPut, Advances, Forward
  <2>3. CASE FanOutRead \/ FanOutEOF \/ FanOutStop
    <3>1. FanOutRank < FanOutRank' /\ FanOutRank <= FanOutRank'
      BY <2>3 DEF FanOutRead, FanOutEOF, FanOutStop, FanOutRank
    <3>2. UNCHANGED <<idx, scanned, worker>>
      BY <2>3 DEF FanOutRead, FanOutEOF, FanOutStop
    <3>3. QED
      BY <1>r, <1>4, <3>1, <3>2, RanksStay DEF FanOut, Advances, Forward
  <2>4. QED BY <1>4, <2>1, <2>2, <2>3 DEF FanOut
<1>5. CASE FanIn
  <2>1. FanInRank < FanInRank' /\ FanInRank <= FanInRank'
    BY <1>5 DEF FanIn, FanInItem, FanInEnd, FanInResult, FanInCancelled,
       FanInReport, FanInClose, ChanInv, FanInRank, Items
  <2>2. \A i \in Items : WorkerRank(i) <= WorkerRank(i)'
    <3>1. CASE FanInResult
      BY <3>1 DEF FanInResult, WorkerGoes, WorkerRank
    <3>2. CASE UNCHANGED worker
      BY <1>r, <3>2, RanksStay
    <3>3. QED
      BY <1>5, <3>1, <3>2 DEF FanIn, FanInItem, FanInEnd, FanInCancelled,
         FanInReport, FanInClose
  <2>3. QED BY <1>r, <1>5, <2>1, <2>2, RanksStay DEF FanIn, Advances, Forward
<1>6. CASE Untar
  <2>1. CASE UntarRead
    <3>1. Len(out') = Len(out) + 1 /\ Len(out) \in Nat
      BY <2>1, UntarReadLength DEF UntarRead, OutInv
    <3>2. UntarRank < UntarRank' /\ UntarRank <= UntarRank'
      BY <2>1, <3>1 DEF UntarRead, UntarRank
    <3>3. FanInRank <= FanInRank'
      BY <1>6, <2>1 DEF Untar, UntarRead, FanInRank
    <3>4. QED BY <1>r, <1>6, <3>2, <3>3, RanksStay DEF Untar, Advances, Forward
  <2>2. CASE UntarCheck \/ UntarEOF \/ UntarFail \/ UntarReport
    <3>1. Len(out) \in Nat
      BY DEF OutInv
    <3>2. UntarRank < UntarRank' /\ UntarRank <= UntarRank'
      BY <2>2, <3>1 DEF UntarCheck, UntarEOF, UntarFail, UntarReport, UntarRank
    <3>3. UNCHANGED fanIn
      BY <2>2 DEF UntarCheck, UntarEOF, UntarFail, UntarReport
    <3>4. QED BY <1>r, <1>6, <3>2, <3>3, RanksStay DEF Untar, Advances, Forward
  <2>3. QED BY <1>6, <2>1, <2>2 DEF Untar
<1>7. ASSUME NEW w \in Items, Worker(w) PROVE Advances
  <2>1. \A i \in Items \ {w} : WorkerRank(i) <= WorkerRank(i)'
    <3>1. \A i \in Items \ {w} : worker'[i] = worker[i]
      BY <1>7 DEF Worker, WorkerGet, WorkerProgress, WorkerGiveUp, WorkerGoes
    <3>2. \A i \in Items \ {w} : WorkerRank(i)' = WorkerRank(i)
      BY <3>1 DEF WorkerRank
    <3>3. QED BY <1>r, <3>2 DEF RanksBounded
  <2>2. \/ WorkerRank(w) < WorkerRank(w)' /\ WorkerRank(w) <= WorkerRank(w)'
           /\ UNCHANGED panicked
        \/ UNCHANGED worker /\ ~panicked /\ panicked'
    BY <1>7 DEF Worker, WorkerGet, WorkerProgress, WorkerGiveUp, WorkerGoes,
       WorkerRank, Started
  <2>3. QED BY <1>r, <1>7, <2>1, <2>2, RanksStay DEF Worker, Advances, Forward
<1>8. CASE CallerCancel
  BY <1>r, <1>8, RanksStay DEF CallerCancel, Advances, Forward
<1>9. QED
  BY <1>1, <1>2, <1>3, <1>4, <1>5, <1>6, <1>7, <1>8 DEF Next

-----------------------------------------------------------------------------
(* The theorems.                                                             *)

\* The inductive invariant holds in every state.
THEOREM Invariance == Spec => []IInv
<1>1. IInv /\ [Next]_vars => RemoteType'
  <2> SUFFICES ASSUME RemoteType, [Next]_vars PROVE RemoteType'
    BY DEF IInv, TypeOK
  <2>1. CASE Environment
    BY <2>1, StepRemoteType
  <2>2. CASE UNCHANGED remoteVars
    BY <2>2 DEF remoteVars, RemoteType
  <2>3. QED
    BY <2>1, <2>2 DEF Next, vars, Main, Index, FanOut, Worker, FanIn, Untar,
       CallerCancel
<1>2. IInv /\ [Next]_vars => IInv'
  BY <1>1, StepRemoteInv, StepKeysInv, StepStageType, StepChannelType,
     StepChanInv, StepOutInv, StepDoneInv, StepOrderInv, StepPanicMeansFailure
     DEF IInv, TypeOK
<1>3. QED BY InitIInv, <1>2, PTL DEF Spec

\* The state of the download is always well typed.
THEOREM DownloadTyped == Spec => []TypeOK
<1>1. IInv => TypeOK
  BY DEF IInv
<1>2. QED BY Invariance, <1>1, PTL

\* A sequence whose elements are those of the archive is a prefix of it.
LEMMA PrefixIsSubSeq ==
  ASSUME OutInv PROVE out = SubSeq(Archive, 1, Len(out))
<1> DEFINE s == SubSeq(Archive, 1, Len(out))
<1>1. out \in Seq(Hashes) /\ Len(out) \in Nat /\ Len(out) <= N
  BY DEF OutInv
<1>2. \A i \in 1..Len(out) : i \in 1..Len(Archive)
  BY <1>1, ArchiveFacts
<1>3. /\ s \in Seq(Hashes) /\ Len(s) = Len(out)
      /\ \A i \in 1..Len(out) : s[i] = Archive[i]
  BY <1>1, <1>2, ArchiveFacts, SubSeqProperties
<1>4. \A i \in 1..Len(out) : s[i] = out[i]
  BY <1>3 DEF OutInv
<1> HIDE DEF s
<1>5. s = out
  BY <1>1, <1>3, <1>4, SeqEqual
<1>6. QED BY <1>5 DEF s

\* What is on disk is always a prefix of the archive, also after a failure.
THEOREM Prefix == Spec => []OutIsPrefix
<1>1. IInv => OutIsPrefix
  BY PrefixIsSubSeq DEF IInv, OutInv, OutIsPrefix
<1>2. QED BY Invariance, <1>1, PTL

\* Without a cancellation nil means that the whole archive is on disk.
THEOREM Downloaded == Spec => []NilMeansDownloaded
<1>1. ASSUME IInv, ret = "nil", ~cancelled PROVE out = Archive
  <2>1. Len(out) = N
    BY <1>1 DEF IInv, OrderInv
  <2>2. out = SubSeq(Archive, 1, Len(Archive))
    BY <1>1, <2>1, PrefixIsSubSeq, ArchiveFacts DEF IInv
  <2>3. QED BY <2>2, ArchiveFacts, SubSeqFull
<1>2. IInv => NilMeansDownloaded
  BY <1>1 DEF NilMeansDownloaded
<1>3. QED BY Invariance, <1>2, PTL

\* A worker panics on the closed progress channel only after a download that
\* failed or was cancelled.
THEOREM CalmDownload == Spec => []PanicMeansFailure
<1>1. IInv => PanicMeansFailure
  BY DEF IInv
<1>2. QED BY Invariance, <1>1, PTL

\* The goroutines of a download never deadlock: until Download has returned it
\* or, once start is called, one of its goroutines can take a step, for every
\* archive, concurrency and set of faults, and whatever the uploader does.
THEOREM Unjammed == Spec => []NoJam
<1>1. Init => ServedInv
  BY DEF Init, ServedInv
<1>2. IInv /\ ServedInv /\ [Next]_vars => ServedInv'
  BY StepServedInv
<1>3. IInv /\ ServedInv => NoJam
  BY SomeoneReady
<1>4. QED BY <1>1, <1>2, <1>3, Invariance, PTL DEF Spec

\* Once start is called every step of the client brings the download nearer to
\* its end: no goroutine ever goes back, one goes forward, and there is an end
\* to how far each can go, so there is a bound on the number of those steps.
THEOREM Finite == Spec => [][Advances]_vars /\ []RanksBounded
<1>1. Init => FreshInv
  BY DEF Init, FreshInv
<1>2. IInv /\ FreshInv /\ [Next]_vars => FreshInv' /\ [Advances]_vars
  BY StepFreshInv, StepAdvances
<1>3. IInv => RanksBounded
  BY RanksTyped DEF IInv, TypeOK
<1>4. QED BY <1>1, <1>2, <1>3, Invariance, PTL DEF Spec

\* A download in which nothing can fail does not, once it is started: start
\* returns no error and no worker panics, for every archive and concurrency and
\* whatever the uploader does.  With Unjammed and Finite it is what
\* SuccessIsDownloaded needs beside fairness.
THEOREM Faultless == Spec => []FaultFree
<1>1. Init => FreshInv /\ PublishedSoFar /\ SmoothInv
  <2>1. DOMAIN <<>> = {} /\ <<>> \in Seq({"nil"})
    OBVIOUS
  <2>2. QED BY <2>1 DEF Init, Remote!Init, FreshInv, PublishedSoFar, SmoothInv
<1>2. IInv /\ FreshInv /\ [Next]_vars => FreshInv'
  BY StepFreshInv
<1>3. PublishedSoFar /\ [Next]_vars => PublishedSoFar'
  BY StepPublishedSoFar, RemoteSteps
<1>4. IInv /\ FreshInv /\ PublishedSoFar /\ SmoothInv /\ [Next]_vars => SmoothInv'
  BY StepSmoothInv
<1>5. IInv /\ SmoothInv => FaultFree
  BY DEF IInv, TypeOK, StageType, OrderInv, PanicMeansFailure, SmoothInv, FaultFree
<1>6. QED BY <1>1, <1>2, <1>3, <1>4, <1>5, Invariance, PTL DEF Spec

-----------------------------------------------------------------------------
(* The promise of the uploader, for every archive and every reader.          *)

\* Whoever sees SUCCESS, whenever it looks, can read the whole archive.
THEOREM Readable == Remote!Spec => []Remote!SuccessMeansReadable
<1>1. Remote!Init => PublishedSoFar
  <2>1. DOMAIN <<>> = {}
    OBVIOUS
  <2>2. QED BY <2>1 DEF Remote!Init, PublishedSoFar
<1>2. PublishedSoFar /\ [Remote!Next]_Remote!remote => PublishedSoFar'
  BY StepPublishedSoFar
<1>3. PublishedSoFar => Remote!SuccessMeansReadable
  BY DEF PublishedSoFar, Remote!SuccessMeansReadable
<1>4. QED BY <1>1, <1>2, <1>3, PTL DEF Remote!Spec
=============================================================================
