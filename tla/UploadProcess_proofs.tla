------------------------ MODULE UploadProcess_proofs -------------------------
(* Proofs about UploadProcess: its types, and that a dataset is only marked  *)
(* SUCCESS when it is complete, for every archive, concurrency, and set of   *)
(* faults.                                                                   *)
EXTENDS UploadProcess, SequenceTheorems, FiniteSetTheorems, TLAPS

-----------------------------------------------------------------------------
(* The inductive invariant.                                                  *)

\* The first value that went through doneCh, if any, is not an error.
NoErrorFirst == main = "wait" /\ (doneCh = <<>> \/ Head(doneCh) = "nil")
NilFirst == main = "wait" /\ doneCh # <<>> /\ Head(doneCh) = "nil"

\* How far each stage of the stream is ahead of the next one.
StreamInv ==
  /\ count \in {"check", "read"} => cut = 0 /\ next = counted
  /\ count = "tee" => cut = 0 /\ counted = next + 1
  /\ count = "done" /\ cut = 0 => next = counted
  /\ cut # 0 => count = "done" /\ cut = next /\ next = counted + 1
  /\ count = "done" => countErr \/ tar = "done"
  /\ countErr => ctxDone /\ count = "done"
  /\ fanOut = "closed" => count = "done"
  /\ fanOut = "put" => next # 0
  /\ tar = "write" => counted < NChunks

\* Chunk i was read and is no longer in the hand of fan-out.
Passed(i) == i \in Chunks /\ i <= next /\ (fanOut = "put" => i # next)

\* A chunk that passed fan-out waits, is held by fan-in, or has its key
\* written, unless the context is done.
ChunkInv ==
  /\ \A i \in Chunks : worker[i] # "none" => Passed(i)
  /\ \A i \in itemCh \cup written : Passed(i)
  /\ fanIn = "result" => Passed(cur)
  /\ ~ctxDone /\ fanIn \in {"item", "result"} =>
       \A i \in Chunks : Passed(i) =>
         i \in itemCh \/ i \in written \/ (fanIn = "result" /\ i = cur)
  /\ \A i \in written : worker[i] = "done" /\ KeyOf(i) \in store
  /\ \A i \in Chunks : worker[i] \in {"progress", "ok"} => KeyOf(i) \in store

\* All stages before the index have ended well.
Drained ==
  /\ tar = "done" /\ count = "done" /\ ~countErr /\ counted = NChunks
  /\ fanOut = "closed" /\ cut = 0
  /\ fanIn = "done" /\ written = Chunks

Indexed == Drained /\ idx = "done" /\ "index" \in objects /\ index = Chunks
Described == "metadata" \in objects /\ metaSize = NChunks

\* An error of a stage is in doneCh before the end of its stream is visible.
OrderInv ==
  /\ NoErrorFirst => tar # "close" /\ fanIn # "close"
  /\ NoErrorFirst /\ tar = "done" => counted = NChunks
  /\ NoErrorFirst /\ ~ctxDone /\ fanIn = "done" =>
       /\ fanOut = "closed"
       /\ \A i \in 1..next : i \in written
  /\ idx # "read" => fanIn = "done"
  /\ NoErrorFirst /\ idx \in {"put", "stored"} => Drained
  /\ idx = "stored" => "index" \in objects /\ index = written

MainInv ==
  /\ NilFirst => Indexed
  /\ main \in {"count", "meta", "metaput", "success"} => Indexed
  /\ main = "success" => Described
  /\ status = "SUCCESS" => Indexed /\ Described
                           /\ main \in {"returned", "closed"}
  /\ ret = "nil" => status = "SUCCESS"
  /\ main = "closed" => ret \in {"nil", "err"}
  /\ main = "returned" => ret \in {"nil", "err"}
  /\ panicked => main = "closed" /\ ret = "err"

IInv == TypeOK /\ StreamInv /\ ChunkInv /\ OrderInv /\ MainInv

\* Chunks leave the channel in the order they were sent on it.
FifoInv ==
  /\ \A i \in written, j \in itemCh : i < j
  /\ fanIn = "result" => /\ \A i \in written : i < cur
                         /\ \A j \in itemCh : cur < j

\* The written keys have no hole unless the context is done, and not when the
\* index is put either.
PrefixInv ==
  /\ ~ctxDone \/ idx = "put" => \A i \in written, j \in Chunks :
                                 j <= i => j \in written
  /\ \A i \in index, j \in Chunks : j <= i => j \in index
  /\ index \subseteq written

\* Chunks whose worker has been started and has not ended.
Live == {i \in Chunks : worker[i] \notin {"none", "done"}}

\* A chunk whose worker is alive waits in the channel or is with fan-in, and
\* when fan-in asks for the next item it has none left.
QueueInv ==
  /\ Cardinality(itemCh) <= Concurrency
  /\ Live \subseteq itemCh \cup {cur}
  /\ fanIn = "item" => Live \subseteq itemCh

\* The index is stored by one put, and the metadata after it.
ObjectsInv ==
  /\ idx \in {"read", "check", "put"} => objects = {} /\ index = {}
  /\ index # {} => "index" \in objects
  /\ "metadata" \in objects => main \in {"success", "returned", "closed"}

\* The item fan-in waits for has a worker that has not ended, and so has every
\* item it may still take: the next result does come, or a cancellation.
ServedInv ==
  /\ ~ctxDone /\ fanIn \in {"item", "result"} => itemCh \subseteq Live
  /\ ~ctxDone /\ fanIn = "result" => cur \in Live
  /\ idx = "done" => main # "wait" \/ doneCh # <<>>

\* The guards of the steps of each goroutine.
TarReady ==
  tar \in {"walk", "close"} \/ (tar = "report" /\ Len(doneCh) < DoneCap)
CountReady ==
  count = "check" \/ (count = "read" /\ tar \in {"write", "done"})
FanOutReady ==
  \/ fanOut = "next" /\ count \in {"tee", "done"}
  \/ fanOut = "put" /\ (Cardinality(itemCh) < Concurrency \/ UploadCtxDone)
WorkerReady(i) ==
  \/ worker[i] \in {"exists", "put", "progress"}
  \/ worker[i] = "failed" /\ UploadCtxDone
FanInReady ==
  \/ fanIn = "item" /\ (itemCh # {} \/ fanOut = "closed" \/ ctxDone)
  \/ fanIn = "result" /\ (worker[cur] \in {"ok", "failed"} \/ ctxDone)
  \/ fanIn = "report" /\ Len(doneCh) < DoneCap
  \/ fanIn = "close"
IndexReady ==
  \/ idx = "read" /\ fanIn = "done"
  \/ idx \in {"check", "put"}
  \/ idx \in {"stored", "failed"} /\ Len(doneCh) < DoneCap
MainReady ==
  \/ main = "wait" /\ doneCh # <<>>
  \/ main = "count" /\ count = "done"
  \/ main \in {"meta", "metaput", "success", "returned"}

\* Until Upload has returned one of the goroutines it spawned can take a step:
\* they never all wait for one another.
NoJam ==
  main = "closed" \/ panicked
    \/ TarReady \/ CountReady \/ FanOutReady \/ FanInReady \/ IndexReady
    \/ MainReady \/ (\E i \in Chunks : WorkerReady(i))

\* The item fan-in took last is before all that wait for it.
HandInv ==
  /\ cur # 0 => Passed(cur)
  /\ \A j \in itemCh : cur < j

\* How far each goroutine has come.  A stage that loops has come further with
\* each chunk that went through it, and the heartbeat with each expiry.
TarRank == 2 * counted
  + [walk |-> 0, write |-> 1, report |-> 1, close |-> 2, done |-> 3][tar]
CountRank == 3 * next
  + [check |-> 0, read |-> 1, tee |-> 2, done |-> 3][count]
FanOutRank == 2 * next + [put |-> 0, next |-> 1, closed |-> 2][fanOut]
WorkerRank(i) ==
  [none |-> 0, exists |-> 1, put |-> 2, progress |-> 3, ok |-> 4,
   failed |-> 4, done |-> 5][worker[i]]
FanInRank == 2 * cur
  + [result |-> 0, item |-> 1, report |-> 2, close |-> 3, done |-> 4][fanIn]
IndexRank == [read |-> 0, check |-> 1, put |-> 2, stored |-> 3, failed |-> 3,
              done |-> 4][idx]
MainRank == [wait |-> 0, count |-> 1, meta |-> 2, metaput |-> 3, success |-> 4,
             returned |-> 5, closed |-> 6][main]
BeatRank == 3 * expiries
  + [push |-> 0, cancel |-> 1, wait |-> 2, done |-> 3][beat]
StatusRank == [CREATED |-> 0, UPLOADING |-> 1, SUCCESS |-> 2][status]

\* No goroutine goes back.
Forward ==
  /\ TarRank <= TarRank' /\ CountRank <= CountRank'
  /\ FanOutRank <= FanOutRank'
  /\ \A i \in Chunks : WorkerRank(i) <= WorkerRank(i)'
  /\ FanInRank <= FanInRank' /\ IndexRank <= IndexRank'
  /\ MainRank <= MainRank' /\ BeatRank <= BeatRank'
  /\ StatusRank <= StatusRank'
  /\ ctxDone => ctxDone'
  /\ panicked => panicked'

\* And one of them, the server or the caller goes forward.
Advances ==
  /\ Forward
  /\ \/ TarRank < TarRank' \/ CountRank < CountRank'
     \/ FanOutRank < FanOutRank'
     \/ \E i \in Chunks : WorkerRank(i) < WorkerRank(i)'
     \/ FanInRank < FanInRank' \/ IndexRank < IndexRank'
     \/ MainRank < MainRank' \/ BeatRank < BeatRank'
     \/ StatusRank < StatusRank'
     \/ ~ctxDone /\ ctxDone'
     \/ ~panicked /\ panicked'

\* Nobody goes further than its end.
RanksBounded ==
  /\ TarRank \in 0..(2 * NChunks + 3)
  /\ CountRank \in 0..(3 * NChunks + 3)
  /\ FanOutRank \in 0..(2 * NChunks + 2)
  /\ \A i \in Chunks : WorkerRank(i) \in 0..5
  /\ FanInRank \in 0..(2 * NChunks + 4)
  /\ IndexRank \in 0..4 /\ MainRank \in 0..6
  /\ BeatRank \in 0..(3 * MaxExpiries + 3)
  /\ StatusRank \in 0..2

\* When nothing can fail nothing does: all that is not yet done is on its way,
\* and the context is done only after the last stage and start.
SmoothInv == Faults = {} =>
  /\ ctxDone => main \in {"returned", "closed"}
  /\ ret # "err" /\ doneCh \in Seq({"nil"})
  /\ beat \in {"wait", "done"}
  /\ tar \notin {"report", "close"} /\ ~countErr
  /\ fanIn \in {"item", "result", "done"} /\ idx # "failed"
  /\ \A i \in Chunks : worker[i] # "failed"
  /\ \A i \in Live : i \in itemCh \/ (fanIn = "result" /\ i = cur)
  /\ fanIn = "done" => fanOut = "closed" /\ itemCh = {}
  /\ main # "wait" \/ doneCh # <<>> => idx = "done"

\* An upload fails, or panics, only because something did.
FaultFree == Faults = {} => ret # "err" /\ ~panicked

-----------------------------------------------------------------------------
(* What the buffered channel does to the first value that went through it.   *)

\* A send keeps the channel a sequence of results, and its head if it has one.
LEMMA SendKeepsHead ==
  ASSUME doneCh \in Seq({"nil", "err"}), NEW v \in {"nil", "err"}, Send(v)
  PROVE  /\ doneCh' \in Seq({"nil", "err"}) /\ doneCh' # <<>>
         /\ doneCh = <<>> => Head(doneCh') = v
         /\ doneCh # <<>> => Head(doneCh') = Head(doneCh)
<1>1. /\ doneCh' = Append(doneCh, v) /\ doneCh' \in Seq({"nil", "err"})
      /\ doneCh' # <<>> /\ doneCh'[Len(doneCh) + 1] = v
      /\ \A i \in 1..Len(doneCh) : doneCh'[i] = doneCh[i]
  BY AppendProperties DEF Send
<1>2. Head(doneCh') = doneCh'[1] /\ Head(doneCh) = doneCh[1]
  OBVIOUS
<1>3. CASE doneCh = <<>>
  BY <1>1, <1>2, <1>3
<1>4. CASE doneCh # <<>>
  <2>1. 1 \in 1..Len(doneCh)
    BY <1>4, EmptySeq
  <2>2. QED BY <1>1, <1>2, <1>4, <2>1
<1>5. QED BY <1>3, <1>4

\* Only what is put into it leaves the channel.
LEMMA ReceiveType ==
  ASSUME doneCh \in Seq({"nil", "err"}), doneCh # <<>>
  PROVE  /\ Head(doneCh) \in {"nil", "err"}
         /\ Tail(doneCh) \in Seq({"nil", "err"})
BY HeadTailProperties

-----------------------------------------------------------------------------
(* Types.                                                                    *)

\* The initial state is well typed.
LEMMA InitTypeOK == Init => TypeOK
<1> SUFFICES ASSUME Init PROVE TypeOK
  OBVIOUS
<1>1. PipelineType
  <2>1. 0 \in 0..NChunks
    BY ChunksAssumption
  <2>2. worker \in [Chunks -> {"none", "exists", "put", "progress", "ok",
                              "failed", "done"}]
    BY DEF Init
  <2>3. QED BY <2>1, <2>2 DEF Init, PipelineType
<1>2. ChannelType
  BY EmptySeq DEF Init, ChannelType
<1>3. CallerType
  <2>1. expiries \in 0..MaxExpiries
    BY ExpiryAssumption DEF Init
  <2>2. QED BY <2>1 DEF Init, CallerType
<1>4. RemoteType
  BY ChunksAssumption DEF Init, RemoteType
<1>5. QED BY <1>1, <1>2, <1>3, <1>4 DEF TypeOK

\* Every hash a chunk may have can be stored.
LEMMA KeyOfType ==
  ASSUME NEW i \in Chunks PROVE KeyOf(i) \in Keys \cup {TailKey}
BY KeyAssumption DEF KeyOf, Chunks

\* Every step keeps the state well typed.
LEMMA StepTypeOK == TypeOK /\ StreamInv /\ ChunkInv /\ [Next]_vars => TypeOK'
<1> SUFFICES ASSUME PipelineType, ChannelType, CallerType, RemoteType, StreamInv,
                    ChunkInv, [Next]_vars
             PROVE  TypeOK'
  BY DEF TypeOK
<1> USE ChunksAssumption DEF countVars, fanOutVars, workVars, fanInVars,
        mainVars, beatVars, remoteVars
<1>1. CASE Tar
  <2>1. PipelineType'
    BY <1>1, PipelineType DEF Tar, TarWrite, TarFail, TarReport, TarEnd,
       TarClose, PipelineType, StreamInv, Chunks
  <2>2. ChannelType'
    BY <1>1, ChannelType, SendKeepsHead DEF Tar, TarWrite, TarFail, TarReport,
       TarEnd, TarClose, ChannelType
  <2>3. CallerType'
    BY <1>1, CallerType DEF Tar, TarWrite, TarFail, TarReport, TarEnd,
       TarClose, CallerType
  <2>4. RemoteType'
    BY <1>1, RemoteType, PipelineType DEF Tar, TarWrite, TarFail, TarReport,
       TarEnd, TarClose, RemoteType, PipelineType, Chunks
  <2>5. QED BY <2>1, <2>2, <2>3, <2>4 DEF TypeOK
<1>2. CASE Count
  <2>1. PipelineType'
    <3>1. CASE CountCheck
      BY <1>2, <3>1, PipelineType, StreamInv DEF Count, CountCheck,
         PipelineType, StreamInv, Chunks
    <3>2. CASE CountRead
      BY <1>2, <3>2, PipelineType, StreamInv DEF Count, CountRead,
         PipelineType, StreamInv, Chunks
    <3>3. CASE CountEOF
      BY <1>2, <3>3, PipelineType, StreamInv DEF Count, CountEOF,
         PipelineType, StreamInv, Chunks
    <3>4. QED
      BY <1>2, <3>1, <3>2, <3>3 DEF Count
  <2>2. ChannelType'
    BY <1>2, ChannelType DEF Count, CountCheck, CountRead, CountEOF,
       ChannelType
  <2>3. CallerType'
    BY <1>2, CallerType DEF Count, CountCheck, CountRead, CountEOF, CallerType
  <2>4. RemoteType'
    BY <1>2, RemoteType, PipelineType DEF Count, CountCheck, CountRead,
       CountEOF, RemoteType, PipelineType, Chunks
  <2>5. QED BY <2>1, <2>2, <2>3, <2>4 DEF TypeOK
<1>3. CASE FanOut
  <2>1. PipelineType'
    <3>1. CASE FanOutRead
      BY <1>3, <3>1, PipelineType, StreamInv DEF FanOut, FanOutRead,
         PipelineType, StreamInv, Chunks
    <3>2. CASE FanOutTail
      BY <1>3, <3>2, PipelineType, StreamInv DEF FanOut, FanOutTail,
         PipelineType, StreamInv, Chunks
    <3>3. CASE FanOutEOF
      BY <1>3, <3>3, PipelineType, StreamInv DEF FanOut, FanOutEOF,
         PipelineType, StreamInv, Chunks
    <3>4. CASE FanOutPut
      BY <1>3, <3>4, PipelineType, StreamInv DEF FanOut, FanOutPut,
         PipelineType, StreamInv, Chunks
    <3>5. CASE FanOutSkip
      BY <1>3, <3>5, PipelineType, StreamInv DEF FanOut, FanOutSkip,
         PipelineType, StreamInv, Chunks
    <3>6. QED
      BY <1>3, <3>1, <3>2, <3>3, <3>4, <3>5 DEF FanOut
  <2>2. ChannelType'
    BY <1>3, ChannelType DEF FanOut, FanOutRead, FanOutTail, FanOutEOF,
       FanOutPut, FanOutSkip, ChannelType
  <2>3. CallerType'
    BY <1>3, CallerType DEF FanOut, FanOutRead, FanOutTail, FanOutEOF,
       FanOutPut, FanOutSkip, CallerType
  <2>4. RemoteType'
    BY <1>3, RemoteType, PipelineType DEF FanOut, FanOutRead, FanOutTail,
       FanOutEOF, FanOutPut, FanOutSkip, RemoteType, PipelineType, Chunks
  <2>5. QED BY <2>1, <2>2, <2>3, <2>4 DEF TypeOK
<1>4. CASE \E i \in Chunks : Worker(i)
  <2> PICK i \in Chunks : Worker(i)
    BY <1>4
  <2>1. PipelineType'
    BY PipelineType, ProgressAssumption DEF Worker, WorkerExists,
       WorkerPut, WorkerProgress, WorkerGiveUp, WorkerGoes, Stored,
       PipelineType, StreamInv, Chunks
  <2>2. ChannelType'
    BY ChannelType DEF Worker, WorkerExists, WorkerPut, WorkerProgress,
       WorkerGiveUp, WorkerGoes, Stored, ChannelType
  <2>3. CallerType'
    BY CallerType DEF Worker, WorkerExists, WorkerPut, WorkerProgress,
       WorkerGiveUp, WorkerGoes, Stored, CallerType
  <2>4. RemoteType'
    BY RemoteType, PipelineType, KeyOfType DEF Worker, WorkerExists,
       WorkerPut, WorkerProgress, WorkerGiveUp, WorkerGoes, Stored,
       RemoteType, PipelineType, Chunks
  <2>5. QED BY <2>1, <2>2, <2>3, <2>4 DEF TypeOK
<1>5. CASE FanIn
  <2>1. PipelineType'
    <3>1. CASE FanInItem
      BY <1>5, <3>1, PipelineType DEF FanIn, FanInItem, PipelineType,
         StreamInv, Chunks
    <3>2. CASE FanInEnd
      BY <1>5, <3>2, PipelineType DEF FanIn, FanInEnd, PipelineType,
         StreamInv, Chunks
    <3>3. CASE FanInResult
      <4>1. fanIn = "result" /\ cur \in Chunks
        BY <3>3 DEF FanInResult, ChunkInv, Passed
      <4>2. /\ worker' = [worker EXCEPT ![cur] = "done"]
            /\ fanIn' \in {"item", "report"}
            /\ written' \in {written, written \cup {cur}}
        BY <3>3 DEF FanInResult, WorkerGoes
      <4>3. /\ worker' \in [Chunks -> {"none", "exists", "put", "progress",
                                       "ok", "failed", "done"}]
            /\ written' \in SUBSET Chunks
        BY <4>1, <4>2, PipelineType DEF PipelineType
      <4>4. UNCHANGED <<ctxDone, tar, countVars, fanOutVars, itemCh, cur, idx>>
        BY <1>5, <3>3 DEF FanIn, FanInResult
      <4>5. QED
        BY <4>2, <4>3, <4>4, PipelineType DEF PipelineType, countVars,
           fanOutVars
    <3>4. CASE FanInCancelled
      BY <1>5, <3>4, PipelineType DEF FanIn, FanInCancelled, PipelineType,
         StreamInv, Chunks
    <3>5. CASE FanInReport
      BY <1>5, <3>5, PipelineType DEF FanIn, FanInReport, PipelineType,
         StreamInv, Chunks
    <3>6. CASE FanInClose
      BY <1>5, <3>6, PipelineType DEF FanIn, FanInClose, PipelineType,
         StreamInv, Chunks
    <3>7. QED
      BY <1>5, <3>1, <3>2, <3>3, <3>4, <3>5, <3>6 DEF FanIn
  <2>2. ChannelType'
    BY <1>5, ChannelType, SendKeepsHead DEF FanIn, FanInItem, FanInEnd,
       FanInResult, FanInCancelled, FanInReport, FanInClose, WorkerGoes,
       ChannelType
  <2>3. CallerType'
    BY <1>5, CallerType DEF FanIn, FanInItem, FanInEnd, FanInResult,
       FanInCancelled, FanInReport, FanInClose, WorkerGoes, CallerType
  <2>4. RemoteType'
    BY <1>5, RemoteType, PipelineType DEF FanIn, FanInItem, FanInEnd,
       FanInResult, FanInCancelled, FanInReport, FanInClose, WorkerGoes,
       RemoteType, PipelineType, Chunks
  <2>5. QED BY <2>1, <2>2, <2>3, <2>4 DEF TypeOK
<1>6. CASE Index
  <2>1. PipelineType'
    BY <1>6, PipelineType DEF Index, IndexRead, IndexCheck, IndexPut,
       IndexReport, StoreIndex, PipelineType
  <2>2. ChannelType'
    BY <1>6, ChannelType, SendKeepsHead DEF Index, IndexRead, IndexCheck,
       IndexPut, IndexReport, StoreIndex, ChannelType
  <2>3. CallerType'
    BY <1>6, CallerType DEF Index, IndexRead, IndexCheck, IndexPut,
       IndexReport, StoreIndex, CallerType
  <2>4. RemoteType'
    BY <1>6, RemoteType, PipelineType DEF Index, IndexRead, IndexCheck,
       IndexPut, IndexReport, StoreIndex, RemoteType, PipelineType, Chunks
  <2>5. QED BY <2>1, <2>2, <2>3, <2>4 DEF TypeOK
<1>7. CASE Main
  <2>f. UNCHANGED <<tar, countVars, fanOutVars, workVars, fanInVars, idx>>
    BY <1>7 DEF Main
  <2>c. ctxDone' \in BOOLEAN
    BY <1>7, PipelineType DEF PipelineType, Main, MainReceive, MainCount, MainMetaCheck, MainMetaPut,
       MainSuccess, MainClose, Return, Goes
  <2>1. PipelineType'
    BY <2>f, <2>c, PipelineType DEF PipelineType
  <2>2. ChannelType'
    BY <1>7, ChannelType, ReceiveType DEF Main, MainReceive, MainCount,
       MainMetaCheck, MainMetaPut, MainSuccess, MainClose, StoreMetadata,
       Return, Goes, ChannelType
  <2>3. CallerType'
    BY <1>7, CallerType DEF Main, MainReceive, MainCount, MainMetaCheck,
       MainMetaPut, MainSuccess, MainClose, StoreMetadata, Return, Goes,
       CallerType
  <2>4. RemoteType'
    BY <1>7, RemoteType, PipelineType DEF Main, MainReceive, MainCount,
       MainMetaCheck, MainMetaPut, MainSuccess, MainClose, StoreMetadata,
       Return, Goes, RemoteType, PipelineType, Chunks
  <2>5. QED BY <2>1, <2>2, <2>3, <2>4 DEF TypeOK
<1>8. CASE Beat
  <2>f. UNCHANGED <<tar, countVars, fanOutVars, workVars, fanInVars, idx>>
    BY <1>8 DEF Beat
  <2>c. ctxDone' \in BOOLEAN
    BY <1>8, PipelineType DEF PipelineType, Beat, BeatAlive, BeatExpired, BeatPush, BeatCancel, BeatStop
  <2>1. PipelineType'
    BY <2>f, <2>c, PipelineType DEF PipelineType
  <2>2. ChannelType'
    BY <1>8, ChannelType, SendKeepsHead DEF Beat, BeatAlive, BeatExpired,
       BeatPush, BeatCancel, BeatStop, ChannelType
  <2>3. CallerType'
    BY <1>8, CallerType, ExpiryAssumption DEF Beat, BeatAlive, BeatExpired,
       BeatPush, BeatCancel, BeatStop, CallerType
  <2>4. RemoteType'
    BY <1>8, RemoteType, PipelineType DEF Beat, BeatAlive, BeatExpired,
       BeatPush, BeatCancel, BeatStop, RemoteType, PipelineType, Chunks
  <2>5. QED BY <2>1, <2>2, <2>3, <2>4 DEF TypeOK
<1>9. CASE CallerCancel
  BY <1>9 DEF TypeOK, PipelineType, ChannelType, CallerType, RemoteType, CallerCancel
<1>10. CASE UNCHANGED vars
  BY <1>10 DEF TypeOK, PipelineType, ChannelType, CallerType, RemoteType, vars
<1>11. QED
  BY <1>1, <1>2, <1>3, <1>4, <1>5, <1>6, <1>7, <1>8, <1>9, <1>10
     DEF Next, Step, Finished

-----------------------------------------------------------------------------
(* The stream, and the channel of results.                                   *)

\* Every step keeps the stages of the stream in step with each other.
LEMMA StepStreamInv == TypeOK /\ StreamInv /\ [Next]_vars => StreamInv'
<1> SUFFICES ASSUME PipelineType, StreamInv, [Next]_vars PROVE StreamInv'
  BY DEF TypeOK
<1> USE ChunksAssumption DEF countVars, fanOutVars, workVars, fanInVars, mainVars,
        beatVars, remoteVars
<1>1. CASE Tar
  BY <1>1, PipelineType, StreamInv DEF Tar, TarWrite, TarFail, TarReport,
     TarEnd, TarClose, PipelineType, StreamInv
<1>2. CASE Count
  BY <1>2, PipelineType, StreamInv DEF Count, CountCheck, CountRead, CountEOF,
     PipelineType, StreamInv
<1>3. CASE FanOut
  BY <1>3, PipelineType, StreamInv DEF FanOut, FanOutRead, FanOutTail,
     FanOutEOF, FanOutPut, FanOutSkip, PipelineType, StreamInv
<1>4. CASE \E i \in Chunks : Worker(i)
  BY <1>4, PipelineType, StreamInv DEF Worker, WorkerExists, WorkerPut,
     WorkerProgress, WorkerGiveUp, WorkerGoes, Stored, PipelineType, StreamInv
<1>5. CASE FanIn
  BY <1>5, PipelineType, StreamInv DEF FanIn, FanInItem, FanInEnd,
     FanInResult, FanInCancelled, FanInReport, FanInClose, WorkerGoes,
     PipelineType, StreamInv
<1>6. CASE Index
  BY <1>6, PipelineType, StreamInv DEF Index, IndexRead, IndexCheck, IndexPut,
     IndexReport, StoreIndex, PipelineType, StreamInv
<1>7. CASE Main
  BY <1>7, PipelineType, StreamInv DEF Main, MainReceive, MainCount,
     MainMetaCheck, MainMetaPut, MainSuccess, MainClose, StoreMetadata,
     Return, Goes, PipelineType, StreamInv
<1>8. CASE Beat
  BY <1>8, PipelineType, StreamInv DEF Beat, BeatAlive, BeatExpired, BeatPush,
     BeatCancel, BeatStop, PipelineType, StreamInv
<1>9. CASE CallerCancel
  BY <1>9, PipelineType, StreamInv DEF CallerCancel, PipelineType, StreamInv
<1>10. CASE UNCHANGED vars
  BY <1>10, PipelineType, StreamInv DEF vars, PipelineType, StreamInv
<1>11. QED
  BY <1>1, <1>2, <1>3, <1>4, <1>5, <1>6, <1>7, <1>8, <1>9, <1>10
     DEF Next, Step, Finished

\* After an error is sent the first value is an error, or it was nil before.
LEMMA SendError ==
  ASSUME ChannelType, Send("err"), main' = main
  PROVE  (NoErrorFirst' => NilFirst) /\ (NilFirst' => NilFirst)
BY SendKeepsHead DEF ChannelType, NoErrorFirst, NilFirst

\* The first value does not turn from an error into none or nil, and it becomes
\* nil only when the index goroutine reports that the index is stored.
LEMMA FirstStays ==
  TypeOK /\ [Next]_vars =>
    /\ NoErrorFirst' => NoErrorFirst
    /\ NilFirst' => NilFirst \/ (NoErrorFirst /\ idx = "stored" /\ Index /\ IndexReport)
<1> SUFFICES ASSUME ChannelType, [Next]_vars
             PROVE  /\ NoErrorFirst' => NoErrorFirst
                    /\ NilFirst' => NilFirst \/ (NoErrorFirst /\ idx = "stored"
                                                /\ Index /\ IndexReport)
  BY DEF TypeOK
<1> USE DEF countVars, fanOutVars, workVars, fanInVars, mainVars, beatVars,
        remoteVars
<1>1. CASE Tar
  <2>1. CASE TarReport
    BY <1>1, <2>1, SendError DEF Tar, TarReport, NoErrorFirst, NilFirst
  <2>2. CASE TarWrite \/ TarFail \/ TarEnd \/ TarClose
    BY <1>1, <2>2 DEF Tar, TarReport, TarWrite, TarFail, TarEnd, TarClose,
       NoErrorFirst, NilFirst
  <2>3. QED BY <1>1, <2>1, <2>2 DEF Tar
<1>2. CASE Count
  BY <1>2 DEF Count, CountCheck, CountRead, CountEOF, NoErrorFirst, NilFirst
<1>3. CASE FanOut
  BY <1>3 DEF FanOut, FanOutRead, FanOutTail, FanOutEOF, FanOutPut,
     FanOutSkip, NoErrorFirst, NilFirst
<1>4. CASE \E i \in Chunks : Worker(i)
  BY <1>4 DEF Worker, WorkerExists, WorkerPut, WorkerProgress, WorkerGiveUp,
     WorkerGoes, Stored, NoErrorFirst, NilFirst
<1>5. CASE FanIn
  <2>1. CASE FanInReport
    BY <1>5, <2>1, SendError DEF FanIn, FanInReport, NoErrorFirst, NilFirst
  <2>2. CASE FanInItem \/ FanInEnd \/ FanInResult
             \/ FanInCancelled \/ FanInClose
    BY <1>5, <2>2 DEF FanIn, FanInItem, FanInEnd, FanInResult, FanInCancelled,
       FanInClose, NoErrorFirst, NilFirst
  <2>3. QED BY <1>5, <2>1, <2>2 DEF FanIn
<1>6. CASE Index
  <2>1. CASE idx = "stored" /\ IndexReport
    <3>1. NoErrorFirst' => NoErrorFirst
      <4>1. Send("nil") /\ main' = main
        BY <1>6, <2>1 DEF Index, IndexReport
      <4>2. QED BY <4>1, SendKeepsHead DEF ChannelType, NoErrorFirst
    <3>2. NilFirst' => NoErrorFirst'
      BY DEF NilFirst, NoErrorFirst
    <3>3. QED BY <1>6, <2>1, <3>1, <3>2
  <2>2. CASE idx = "failed" /\ IndexReport
    BY <1>6, <2>2, SendError DEF Index, IndexReport, NoErrorFirst, NilFirst
  <2>3. CASE IndexRead \/ IndexCheck \/ IndexPut
    BY <1>6, <2>3 DEF Index, IndexRead, IndexCheck, IndexPut, NoErrorFirst,
       NilFirst
  <2>4. QED BY <1>6, <2>1, <2>2, <2>3 DEF Index, IndexReport
<1>7. CASE Main
  BY <1>7 DEF Main, MainReceive, MainCount, MainMetaCheck, MainMetaPut,
     MainSuccess, MainClose, StoreMetadata, Return, Goes, NoErrorFirst,
     NilFirst
<1>8. CASE Beat
  <2>1. CASE BeatPush
    BY <1>8, <2>1, SendError DEF Beat, BeatPush, NoErrorFirst, NilFirst
  <2>2. CASE BeatAlive \/ BeatExpired \/ BeatCancel
             \/ BeatStop
    BY <1>8, <2>2 DEF Beat, BeatAlive, BeatExpired, BeatCancel, BeatStop,
       NoErrorFirst, NilFirst
  <2>3. QED BY <1>8, <2>1, <2>2 DEF Beat
<1>9. CASE CallerCancel
  BY <1>9 DEF CallerCancel, NoErrorFirst, NilFirst
<1>10. CASE UNCHANGED vars
  BY <1>10 DEF vars, NoErrorFirst, NilFirst
<1>11. QED
  BY <1>1, <1>2, <1>3, <1>4, <1>5, <1>6, <1>7, <1>8, <1>9, <1>10
     DEF Next, Step, Finished

\* An upload whose stages have drained stays so.
LEMMA DrainedStays == Drained /\ [Next]_vars => Drained'
<1> SUFFICES ASSUME Drained, [Next]_vars PROVE Drained'
  OBVIOUS
<1> USE DEF countVars, fanOutVars, workVars, fanInVars, mainVars, beatVars,
        remoteVars
<1>1. CASE Tar
  BY <1>1, Drained DEF Tar, TarWrite, TarFail, TarReport, TarEnd, TarClose,
     Drained
<1>2. CASE Count
  BY <1>2, Drained DEF Count, CountCheck, CountRead, CountEOF, Drained
<1>3. CASE FanOut
  BY <1>3, Drained DEF FanOut, FanOutRead, FanOutTail, FanOutEOF, FanOutPut,
     FanOutSkip, Drained
<1>4. CASE \E i \in Chunks : Worker(i)
  BY <1>4, Drained DEF Worker, WorkerExists, WorkerPut, WorkerProgress,
     WorkerGiveUp, WorkerGoes, Stored, Drained
<1>5. CASE FanIn
  BY <1>5, Drained DEF FanIn, FanInItem, FanInEnd, FanInResult,
     FanInCancelled, FanInReport, FanInClose, WorkerGoes, Drained
<1>6. CASE Index
  BY <1>6, Drained DEF Index, IndexRead, IndexCheck, IndexPut, IndexReport,
     StoreIndex, Drained
<1>7. CASE Main
  BY <1>7, Drained DEF Main, MainReceive, MainCount, MainMetaCheck,
     MainMetaPut, MainSuccess, MainClose, StoreMetadata, Return, Goes, Drained
<1>8. CASE Beat
  BY <1>8, Drained DEF Beat, BeatAlive, BeatExpired, BeatPush, BeatCancel,
     BeatStop, Drained
<1>9. CASE CallerCancel
  BY <1>9, Drained DEF CallerCancel, Drained
<1>10. CASE UNCHANGED vars
  BY <1>10, Drained DEF vars, Drained
<1>11. QED
  BY <1>1, <1>2, <1>3, <1>4, <1>5, <1>6, <1>7, <1>8, <1>9, <1>10
     DEF Next, Step, Finished

\* An index that lists all chunks is never replaced.
LEMMA IndexedStays == Indexed /\ [Next]_vars => Indexed'
<1> SUFFICES ASSUME Indexed, [Next]_vars PROVE Indexed'
  OBVIOUS
<1> USE DEF countVars, fanOutVars, workVars, fanInVars, mainVars, beatVars,
        remoteVars
<1>0. Drained'
  BY DrainedStays DEF Indexed
<1>1. CASE Tar
  BY <1>1, <1>0, Indexed DEF Tar, TarWrite, TarFail, TarReport, TarEnd,
     TarClose, Indexed, Drained
<1>2. CASE Count
  BY <1>2, <1>0, Indexed DEF Count, CountCheck, CountRead, CountEOF, Indexed,
     Drained
<1>3. CASE FanOut
  BY <1>3, <1>0, Indexed DEF FanOut, FanOutRead, FanOutTail, FanOutEOF,
     FanOutPut, FanOutSkip, Indexed, Drained
<1>4. CASE \E i \in Chunks : Worker(i)
  BY <1>4, <1>0, Indexed DEF Worker, WorkerExists, WorkerPut, WorkerProgress,
     WorkerGiveUp, WorkerGoes, Stored, Indexed, Drained
<1>5. CASE FanIn
  BY <1>5, <1>0, Indexed DEF FanIn, FanInItem, FanInEnd, FanInResult,
     FanInCancelled, FanInReport, FanInClose, WorkerGoes, Indexed, Drained
<1>6. CASE Index
  BY <1>6, <1>0, Indexed DEF Index, IndexRead, IndexCheck, IndexPut,
     IndexReport, StoreIndex, Indexed, Drained
<1>7. CASE Main
  BY <1>7, <1>0, Indexed DEF Main, MainReceive, MainCount, MainMetaCheck,
     MainMetaPut, MainSuccess, MainClose, StoreMetadata, Return, Goes,
     Indexed, Drained
<1>8. CASE Beat
  BY <1>8, <1>0, Indexed DEF Beat, BeatAlive, BeatExpired, BeatPush,
     BeatCancel, BeatStop, Indexed, Drained
<1>9. CASE CallerCancel
  BY <1>9, <1>0, Indexed DEF CallerCancel, Indexed, Drained
<1>10. CASE UNCHANGED vars
  BY <1>10, <1>0, Indexed DEF vars, Indexed, Drained
<1>11. QED
  BY <1>1, <1>2, <1>3, <1>4, <1>5, <1>6, <1>7, <1>8, <1>9, <1>10
     DEF Next, Step, Finished

-----------------------------------------------------------------------------
(* Chunks.                                                                   *)

\* Every step keeps account of the chunks.
LEMMA StepChunkInv ==
  TypeOK /\ StreamInv /\ ChunkInv /\ [Next]_vars => ChunkInv'
<1> SUFFICES ASSUME PipelineType, StreamInv, ChunkInv, [Next]_vars
             PROVE  ChunkInv'
  BY DEF TypeOK
<1> USE ChunksAssumption DEF Chunks, countVars, fanOutVars, workVars, fanInVars, mainVars,
        beatVars, remoteVars
<1>1. CASE Tar
  BY <1>1, PipelineType, ChunkInv DEF Tar, TarWrite, TarFail, TarReport,
     TarEnd, TarClose, PipelineType, ChunkInv, Passed, KeyOf
<1>2. CASE Count
  BY <1>2, PipelineType, ChunkInv DEF Count, CountCheck, CountRead, CountEOF,
     PipelineType, ChunkInv, Passed, KeyOf
<1>3. CASE FanOut
  <2>1. CASE FanOutRead
    BY <1>3, <2>1, PipelineType, StreamInv, ChunkInv DEF FanOut, FanOutRead,
       PipelineType, StreamInv, ChunkInv, Passed, KeyOf
  <2>2. CASE FanOutTail
    BY <1>3, <2>2, PipelineType, StreamInv, ChunkInv DEF FanOut, FanOutTail,
       PipelineType, StreamInv, ChunkInv, Passed, KeyOf
  <2>3. CASE FanOutEOF
    BY <1>3, <2>3, PipelineType, StreamInv, ChunkInv DEF FanOut, FanOutEOF,
       PipelineType, StreamInv, ChunkInv, Passed, KeyOf
  <2>4. CASE FanOutPut
    BY <1>3, <2>4, PipelineType, StreamInv, ChunkInv DEF FanOut, FanOutPut,
       PipelineType, StreamInv, ChunkInv, Passed, KeyOf
  <2>5. CASE FanOutSkip
    BY <1>3, <2>5, PipelineType, StreamInv, ChunkInv DEF FanOut, FanOutSkip,
       UploadCtxDone, PipelineType, StreamInv, ChunkInv, Passed, KeyOf
  <2>6. QED BY <1>3, <2>1, <2>2, <2>3, <2>4, <2>5 DEF FanOut
<1>4. CASE \E i \in Chunks : Worker(i)
  <2> PICK i \in Chunks : Worker(i)
    BY <1>4
  <2>1. UNCHANGED <<ctxDone, fanOut, next, cut, itemCh, fanIn, cur, written>>
    BY DEF Worker
  <2>2. store \subseteq store' /\ \A j \in Chunks \ {i} : worker'[j] = worker[j]
    BY PipelineType DEF Worker, WorkerExists, WorkerPut, WorkerProgress,
       WorkerGiveUp, WorkerGoes, PipelineType
  <2>3. /\ worker[i] \notin {"none", "done"}
        /\ worker'[i] \in {"progress", "ok"} => KeyOf(i) \in store'
    BY PipelineType, ChunkInv DEF Worker, WorkerExists, WorkerPut, WorkerProgress,
       WorkerGiveUp, WorkerGoes, PipelineType, ChunkInv
  <2>4. QED
    BY <2>1, <2>2, <2>3, PipelineType, ChunkInv
       DEF PipelineType, ChunkInv, Passed, KeyOf
<1>5. CASE FanIn
  <2>1. CASE FanInItem
    BY <1>5, <2>1, PipelineType, ChunkInv DEF FanIn, FanInItem, PipelineType,
       ChunkInv, Passed, KeyOf
  <2>2. CASE FanInEnd
    BY <1>5, <2>2, PipelineType, ChunkInv DEF FanIn, FanInEnd, PipelineType,
       ChunkInv, Passed, KeyOf
  <2>3. CASE FanInResult
    BY <1>5, <2>3, PipelineType, ChunkInv DEF FanIn, FanInResult, WorkerGoes,
       PipelineType, ChunkInv, Passed, KeyOf
  <2>4. CASE FanInCancelled
    BY <1>5, <2>4, PipelineType, ChunkInv DEF FanIn, FanInCancelled,
       PipelineType, ChunkInv, Passed, KeyOf
  <2>5. CASE FanInReport
    BY <1>5, <2>5, PipelineType, ChunkInv DEF FanIn, FanInReport,
       PipelineType, ChunkInv, Passed, KeyOf
  <2>6. CASE FanInClose
    BY <1>5, <2>6, PipelineType, ChunkInv DEF FanIn, FanInClose, PipelineType,
       ChunkInv, Passed, KeyOf
  <2>7. QED BY <1>5, <2>1, <2>2, <2>3, <2>4, <2>5, <2>6 DEF FanIn
<1>6. CASE Index
  BY <1>6, PipelineType, ChunkInv DEF Index, IndexRead, IndexCheck, IndexPut,
     IndexReport, StoreIndex, PipelineType, ChunkInv, Passed, KeyOf
<1>7. CASE Main
  BY <1>7, PipelineType, ChunkInv DEF Main, MainReceive, MainCount,
     MainMetaCheck, MainMetaPut, MainSuccess, MainClose, StoreMetadata,
     Return, Goes, PipelineType, ChunkInv, Passed, KeyOf
<1>8. CASE Beat
  BY <1>8, PipelineType, ChunkInv DEF Beat, BeatAlive, BeatExpired, BeatPush,
     BeatCancel, BeatStop, PipelineType, ChunkInv, Passed, KeyOf
<1>9. CASE CallerCancel
  BY <1>9, PipelineType, ChunkInv DEF CallerCancel, PipelineType, ChunkInv,
     Passed, KeyOf
<1>10. CASE UNCHANGED vars
  BY <1>10, PipelineType, ChunkInv DEF vars, PipelineType, ChunkInv, Passed,
     KeyOf
<1>11. QED
  BY <1>1, <1>2, <1>3, <1>4, <1>5, <1>6, <1>7, <1>8, <1>9, <1>10
     DEF Next, Step, Finished

-----------------------------------------------------------------------------
(* The order in which the stages end, and what start does with it.           *)

\* When the index is about to be put and no error came first, every stage
\* before it has ended well.
LEMMA CheckedIndex ==
  TypeOK /\ StreamInv /\ ChunkInv /\ OrderInv /\ NoErrorFirst /\ ~ctxDone
    /\ fanIn = "done" => Drained
<1> SUFFICES ASSUME PipelineType, StreamInv, ChunkInv, OrderInv, NoErrorFirst,
                    ~ctxDone, fanIn = "done"
             PROVE  Drained
  BY DEF TypeOK
<1>1. fanOut = "closed" /\ \A i \in 1..next : i \in written
  BY DEF OrderInv
<1>2. count = "done" /\ ~countErr /\ tar = "done"
  BY <1>1 DEF StreamInv
<1>3. counted = NChunks
  BY <1>2 DEF OrderInv
<1>4. cut = 0 /\ next = NChunks
  BY <1>2, <1>3, ChunksAssumption DEF StreamInv, PipelineType
<1>5. written = Chunks
  BY <1>1, <1>4 DEF PipelineType, Chunks
<1>6. QED BY <1>1, <1>2, <1>3, <1>4, <1>5 DEF Drained

\* Every step keeps the stages ending in order.
LEMMA StepOrderInv == IInv /\ [Next]_vars => OrderInv'
<1> SUFFICES ASSUME IInv, [Next]_vars PROVE OrderInv'
  OBVIOUS
<1> USE DEF IInv, TypeOK
<1>a. NoErrorFirst' => NoErrorFirst
  BY FirstStays
<1>b. NilFirst => tar = "done" /\ fanIn = "done" /\ idx = "done"
  BY DEF MainInv, Indexed, Drained
<1>c. Drained => Drained'
  BY DrainedStays
<1> USE DEF countVars, fanOutVars, workVars, fanInVars, mainVars, beatVars,
        remoteVars
<1>1. CASE Tar
  <2>1. CASE TarReport
    <3>1. ~NoErrorFirst'
      BY <1>1, <2>1, <1>b, SendError DEF Tar, TarReport
    <3>2. QED BY <1>1, <2>1, <3>1 DEF Tar, TarReport, OrderInv
  <2>2. CASE TarWrite \/ TarFail \/ TarEnd \/ TarClose
    BY <1>1, <2>2, <1>a, <1>c
       DEF Tar, TarReport, TarWrite, TarFail, TarEnd, TarClose, OrderInv
  <2>3. QED BY <1>1, <2>1, <2>2 DEF Tar
<1>2. CASE Count
  BY <1>2, <1>a, <1>c DEF Count, CountCheck, CountRead, CountEOF, OrderInv
<1>3. CASE FanOut
  <2>1. CASE FanOutRead
    BY <1>3, <2>1, <1>a, <1>c DEF FanOut, FanOutRead, OrderInv, StreamInv,
       PipelineType
  <2>2. CASE FanOutTail
    BY <1>3, <2>2, <1>a, <1>c DEF FanOut, FanOutTail, OrderInv, StreamInv,
       PipelineType
  <2>3. CASE FanOutEOF
    BY <1>3, <2>3, <1>a, <1>c DEF FanOut, FanOutEOF, OrderInv, StreamInv,
       PipelineType
  <2>4. CASE FanOutPut
    BY <1>3, <2>4, <1>a, <1>c DEF FanOut, FanOutPut, OrderInv, StreamInv,
       PipelineType
  <2>5. CASE FanOutSkip
    BY <1>3, <2>5, <1>a, <1>c DEF FanOut, FanOutSkip, OrderInv, StreamInv,
       PipelineType
  <2>6. QED BY <1>3, <2>1, <2>2, <2>3, <2>4, <2>5 DEF FanOut
<1>4. CASE \E i \in Chunks : Worker(i)
  BY <1>4, <1>a, <1>c DEF Worker, WorkerExists, WorkerPut, WorkerProgress,
     WorkerGiveUp, WorkerGoes, Stored, OrderInv
<1>5. CASE FanIn
  <2>1. CASE FanInItem
    BY <1>5, <2>1, <1>a, <1>c, ChunksAssumption DEF FanIn, FanInItem,
       OrderInv, ChunkInv, Passed, PipelineType, Chunks
  <2>2. CASE FanInEnd
    BY <1>5, <2>2, <1>a, <1>c, ChunksAssumption DEF FanIn, FanInEnd, OrderInv,
       ChunkInv, Passed, PipelineType, Chunks
  <2>3. CASE FanInResult
    BY <1>5, <2>3, <1>a, <1>c, ChunksAssumption DEF FanIn, FanInResult,
       WorkerGoes, OrderInv, ChunkInv, Passed, PipelineType, Chunks
  <2>4. CASE FanInCancelled
    BY <1>5, <2>4, <1>a, <1>c, ChunksAssumption DEF FanIn, FanInCancelled,
       OrderInv, ChunkInv, Passed, PipelineType, Chunks
  <2>5. CASE FanInReport
    <3>1. ~NoErrorFirst'
      BY <1>5, <2>5, <1>b, SendError DEF FanIn, FanInReport
    <3>2. QED BY <1>5, <2>5, <3>1 DEF FanIn, FanInReport, OrderInv
  <2>6. CASE FanInClose
    BY <1>5, <2>6, <1>a, <1>c, ChunksAssumption DEF FanIn, FanInClose,
       OrderInv, ChunkInv, Passed, PipelineType, Chunks
  <2>7. QED BY <1>5, <2>1, <2>2, <2>3, <2>4, <2>5, <2>6 DEF FanIn
<1>6. CASE Index
  <2>1. CASE IndexRead
    BY <1>6, <2>1, <1>a, <1>c DEF Index, IndexRead, OrderInv
  <2>2. CASE IndexCheck
    <3>1. ~ctxDone /\ NoErrorFirst => Drained
      BY <2>2, CheckedIndex DEF IndexCheck, OrderInv
    <3>2. QED BY <1>6, <2>2, <1>a, <1>c, <3>1 DEF Index, IndexCheck, OrderInv
  <2>3. CASE IndexPut
    BY <1>6, <2>3, <1>a, <1>c DEF Index, IndexPut, StoreIndex, OrderInv
  <2>4. CASE IndexReport
    BY <1>6, <2>4, <1>a, <1>c DEF Index, IndexReport, OrderInv
  <2>5. QED BY <1>6, <2>1, <2>2, <2>3, <2>4 DEF Index
<1>7. CASE Main
  BY <1>7, <1>a, <1>c DEF Main, MainReceive, MainCount, MainMetaCheck,
     MainMetaPut, MainSuccess, MainClose, StoreMetadata, Return, Goes,
     OrderInv
<1>8. CASE Beat
  BY <1>8, <1>a, <1>c DEF Beat, BeatAlive, BeatExpired, BeatPush, BeatCancel,
     BeatStop, OrderInv
<1>9. CASE CallerCancel
  BY <1>9, <1>a, <1>c DEF CallerCancel, OrderInv
<1>10. CASE UNCHANGED vars
  BY <1>10, <1>a, <1>c DEF vars, OrderInv
<1>11. QED
  BY <1>1, <1>2, <1>3, <1>4, <1>5, <1>6, <1>7, <1>8, <1>9, <1>10
     DEF Next, Step, Finished

\* Every step keeps what start does in line with the stages.
LEMMA StepMainInv == IInv /\ [Next]_vars => MainInv'
<1> SUFFICES ASSUME IInv, [Next]_vars PROVE MainInv'
  OBVIOUS
<1> USE DEF IInv, TypeOK
<1>a. NilFirst' => NilFirst \/ (NoErrorFirst /\ idx = "stored" /\ Index
                               /\ IndexReport)
  BY FirstStays
<1>b. Indexed => Indexed'
  BY IndexedStays
<1> USE DEF countVars, fanOutVars, workVars, fanInVars, mainVars, beatVars,
        remoteVars
<1>1. CASE Tar
  BY <1>1, <1>a, <1>b DEF Tar, TarWrite, TarFail, TarReport, TarEnd, TarClose,
     IndexReport, MainInv, Described
<1>2. CASE Count
  BY <1>2, <1>a, <1>b DEF Count, CountCheck, CountRead, CountEOF, IndexReport,
     MainInv, Described
<1>3. CASE FanOut
  BY <1>3, <1>a, <1>b DEF FanOut, FanOutRead, FanOutTail, FanOutEOF,
     FanOutPut, FanOutSkip, IndexReport, MainInv, Described
<1>4. CASE \E i \in Chunks : Worker(i)
  <2> PICK i \in Chunks : Worker(i)
    BY <1>4
  <2>1. UNCHANGED <<idx, mainVars, objects, metaSize, status>>
    BY DEF Worker
  <2>2. ~(idx = "stored" /\ IndexReport)
    BY <2>1 DEF IndexReport
  <2>3. panicked' => panicked \/ (main = "closed" /\ worker[i] = "progress")
    BY DEF Worker, WorkerExists, WorkerPut, WorkerProgress, WorkerGiveUp
  <2>4. worker[i] = "progress" => status # "SUCCESS"
    BY DEF MainInv, Indexed, Drained, ChunkInv
  <2>5. QED BY <1>a, <1>b, <2>1, <2>2, <2>3, <2>4 DEF MainInv, Described
<1>5. CASE FanIn
  BY <1>5, <1>a, <1>b DEF FanIn, FanInItem, FanInEnd, FanInResult,
     FanInCancelled, FanInReport, FanInClose, WorkerGoes, IndexReport,
     MainInv, Described
<1>6. CASE Index
  <2>1. UNCHANGED <<mainVars, panicked, metaSize, status>>
        /\ objects \subseteq objects'
    BY <1>6 DEF Index, IndexRead, IndexCheck, IndexPut, IndexReport, StoreIndex
  <2>2. CASE NoErrorFirst /\ idx = "stored" /\ IndexReport
    <3>1. Indexed'
      <4>1. Drained /\ "index" \in objects /\ index = Chunks
        BY <2>2 DEF OrderInv, Drained
      <4>2. QED BY <1>6, <2>2, <4>1, DrainedStays DEF Index, IndexReport, Indexed
    <3>2. QED BY <1>6, <1>a, <1>b, <2>1, <3>1 DEF MainInv, Described
  <2>3. CASE ~(NoErrorFirst /\ idx = "stored" /\ IndexReport)
    BY <1>a, <1>b, <2>1, <2>3 DEF MainInv, Described
  <2>4. QED BY <2>2, <2>3
<1>7. CASE Main
  <2>1. CASE MainReceive
    BY <1>7, <2>1, <1>a, <1>b DEF Main, MainReceive, Return, Goes,
       IndexReport, MainInv, Described, NilFirst
  <2>2. CASE MainCount
    <3>1. Indexed /\ ~countErr
      BY <2>2 DEF MainCount, MainInv, Indexed, Drained
    <3>2. QED
      BY <1>7, <2>2, <1>b, <3>1 DEF Main, MainCount, Goes, MainInv, Described,
         NilFirst
  <2>3. CASE MainMetaCheck
    BY <1>7, <2>3, <1>a, <1>b DEF Main, MainMetaCheck, Return, Goes,
       IndexReport, MainInv, Described, NilFirst
  <2>4. CASE MainMetaPut
    <3>1. Indexed /\ counted = NChunks
      BY <2>4 DEF MainMetaPut, MainInv, Indexed, Drained
    <3>2. QED
      BY <1>7, <2>4, <1>b, <3>1 DEF Main, MainMetaPut, Return, Goes,
         StoreMetadata, MainInv, Described, NilFirst
  <2>5. CASE MainSuccess
    BY <1>7, <2>5, <1>a, <1>b DEF Main, MainSuccess, Return, Goes,
       IndexReport, MainInv, Described, NilFirst
  <2>6. CASE MainClose
    BY <1>7, <2>6, <1>a, <1>b DEF Main, MainClose, Return, Goes, IndexReport,
       MainInv, Described, NilFirst
  <2>7. QED BY <1>7, <2>1, <2>2, <2>3, <2>4, <2>5, <2>6 DEF Main
<1>8. CASE Beat
  BY <1>8, <1>a, <1>b DEF Beat, BeatAlive, BeatExpired, BeatPush, BeatCancel,
     BeatStop, IndexReport, MainInv, Described
<1>9. CASE CallerCancel
  BY <1>9, <1>a, <1>b DEF CallerCancel, IndexReport, MainInv, Described
<1>10. CASE UNCHANGED vars
  BY <1>10, <1>a, <1>b DEF vars, IndexReport, MainInv, Described
<1>11. QED
  BY <1>1, <1>2, <1>3, <1>4, <1>5, <1>6, <1>7, <1>8, <1>9, <1>10
     DEF Next, Step, Finished

-----------------------------------------------------------------------------
(* The stored index.                                                         *)

\* Every step keeps the order of the chunks.
LEMMA StepFifoInv == IInv /\ FifoInv /\ [Next]_vars => FifoInv'
<1> SUFFICES ASSUME PipelineType, StreamInv, ChunkInv, FifoInv, [Next]_vars
             PROVE  FifoInv'
  BY DEF IInv, TypeOK
<1> USE DEF countVars, fanOutVars, workVars, fanInVars, mainVars, beatVars,
        remoteVars
<1>1. CASE Tar
  BY <1>1, FifoInv DEF Tar, TarWrite, TarFail, TarReport, TarEnd, TarClose,
     FifoInv
<1>2. CASE Count
  BY <1>2, FifoInv DEF Count, CountCheck, CountRead, CountEOF, FifoInv
<1>3. CASE FanOut
  <2>1. CASE FanOutRead
    BY <1>3, <2>1, PipelineType, ChunkInv, FifoInv, ChunksAssumption,
       StreamInv DEF FanOut, FanOutRead, PipelineType, ChunkInv, Passed,
       FifoInv, Chunks, StreamInv
  <2>2. CASE FanOutTail
    BY <1>3, <2>2, PipelineType, ChunkInv, FifoInv, ChunksAssumption,
       StreamInv DEF FanOut, FanOutTail, PipelineType, ChunkInv, Passed,
       FifoInv, Chunks, StreamInv
  <2>3. CASE FanOutEOF
    BY <1>3, <2>3, PipelineType, ChunkInv, FifoInv, ChunksAssumption,
       StreamInv DEF FanOut, FanOutEOF, PipelineType, ChunkInv, Passed,
       FifoInv, Chunks, StreamInv
  <2>4. CASE FanOutPut
    BY <1>3, <2>4, PipelineType, ChunkInv, FifoInv, ChunksAssumption,
       StreamInv DEF FanOut, FanOutPut, PipelineType, ChunkInv, Passed,
       FifoInv, Chunks, StreamInv
  <2>5. CASE FanOutSkip
    BY <1>3, <2>5, PipelineType, ChunkInv, FifoInv, ChunksAssumption,
       StreamInv DEF FanOut, FanOutSkip, PipelineType, ChunkInv, Passed,
       FifoInv, Chunks, StreamInv
  <2>6. QED BY <1>3, <2>1, <2>2, <2>3, <2>4, <2>5 DEF FanOut
<1>4. CASE \E i \in Chunks : Worker(i)
  BY <1>4, FifoInv DEF Worker, WorkerExists, WorkerPut, WorkerProgress,
     WorkerGiveUp, WorkerGoes, Stored, FifoInv
<1>5. CASE FanIn
  <2>1. CASE FanInItem
    BY <1>5, <2>1, PipelineType, ChunkInv, FifoInv, ChunksAssumption DEF
       FanIn, FanInItem, PipelineType, ChunkInv, Passed, FifoInv, Chunks
  <2>2. CASE FanInEnd
    BY <1>5, <2>2, PipelineType, ChunkInv, FifoInv, ChunksAssumption DEF
       FanIn, FanInEnd, PipelineType, ChunkInv, Passed, FifoInv, Chunks
  <2>3. CASE FanInResult
    BY <1>5, <2>3, PipelineType, ChunkInv, FifoInv, ChunksAssumption DEF
       FanIn, FanInResult, WorkerGoes, PipelineType, ChunkInv, Passed,
       FifoInv, Chunks
  <2>4. CASE FanInCancelled
    BY <1>5, <2>4, PipelineType, ChunkInv, FifoInv, ChunksAssumption DEF
       FanIn, FanInCancelled, PipelineType, ChunkInv, Passed, FifoInv, Chunks
  <2>5. CASE FanInReport
    BY <1>5, <2>5, PipelineType, ChunkInv, FifoInv, ChunksAssumption DEF
       FanIn, FanInReport, PipelineType, ChunkInv, Passed, FifoInv, Chunks
  <2>6. CASE FanInClose
    BY <1>5, <2>6, PipelineType, ChunkInv, FifoInv, ChunksAssumption DEF
       FanIn, FanInClose, PipelineType, ChunkInv, Passed, FifoInv, Chunks
  <2>7. QED BY <1>5, <2>1, <2>2, <2>3, <2>4, <2>5, <2>6 DEF FanIn
<1>6. CASE Index
  BY <1>6, FifoInv DEF Index, IndexRead, IndexCheck, IndexPut, IndexReport,
     StoreIndex, FifoInv
<1>7. CASE Main
  BY <1>7, FifoInv DEF Main, MainReceive, MainCount, MainMetaCheck,
     MainMetaPut, MainSuccess, MainClose, StoreMetadata, Return, Goes, FifoInv
<1>8. CASE Beat
  BY <1>8, FifoInv DEF Beat, BeatAlive, BeatExpired, BeatPush, BeatCancel,
     BeatStop, FifoInv
<1>9. CASE CallerCancel
  BY <1>9, FifoInv DEF CallerCancel, FifoInv
<1>10. CASE UNCHANGED vars
  BY <1>10, FifoInv DEF vars, FifoInv
<1>11. QED
  BY <1>1, <1>2, <1>3, <1>4, <1>5, <1>6, <1>7, <1>8, <1>9, <1>10
     DEF Next, Step, Finished

\* Every step keeps the stored index without a hole.
LEMMA StepPrefixInv ==
  IInv /\ FifoInv /\ PrefixInv /\ [Next]_vars => PrefixInv'
<1> SUFFICES ASSUME IInv, FifoInv, PrefixInv, [Next]_vars PROVE PrefixInv'
  OBVIOUS
<1>a. ~ctxDone /\ fanIn = "result" =>
        \A j \in Chunks : j <= cur => j \in written \cup {cur}
  <2> SUFFICES ASSUME ~ctxDone, fanIn = "result", NEW j \in Chunks, j <= cur
               PROVE  j \in written \cup {cur}
    OBVIOUS
  <2>1. cur \in Nat /\ Passed(j)
    BY ChunksAssumption DEF IInv, TypeOK, PipelineType, ChunkInv, Passed, Chunks
  <2>2. j \notin itemCh
    BY <2>1, ChunksAssumption DEF FifoInv, Chunks
  <2>3. QED BY <2>1, <2>2 DEF IInv, ChunkInv
<1>b. idx # "read" => fanIn = "done"
  BY DEF IInv, OrderInv
<1> USE DEF countVars, fanOutVars, workVars, fanInVars, mainVars, beatVars,
        remoteVars
<1>1. CASE Tar
  BY <1>1, PrefixInv DEF Tar, TarWrite, TarFail, TarReport, TarEnd, TarClose,
     PrefixInv
<1>2. CASE Count
  BY <1>2, PrefixInv DEF Count, CountCheck, CountRead, CountEOF, PrefixInv
<1>3. CASE FanOut
  BY <1>3, PrefixInv DEF FanOut, FanOutRead, FanOutTail, FanOutEOF, FanOutPut,
     FanOutSkip, PrefixInv
<1>4. CASE \E i \in Chunks : Worker(i)
  BY <1>4, PrefixInv DEF Worker, WorkerExists, WorkerPut, WorkerProgress,
     WorkerGiveUp, WorkerGoes, Stored, PrefixInv
<1>5. CASE FanIn
  <2>1. CASE FanInItem
    BY <1>5, <2>1, PrefixInv, <1>a, <1>b DEF FanIn, FanInItem, PrefixInv
  <2>2. CASE FanInEnd
    BY <1>5, <2>2, PrefixInv, <1>a, <1>b DEF FanIn, FanInEnd, PrefixInv
  <2>3. CASE FanInResult
    BY <1>5, <2>3, PrefixInv, <1>a, <1>b DEF FanIn, FanInResult, WorkerGoes,
       PrefixInv
  <2>4. CASE FanInCancelled
    BY <1>5, <2>4, PrefixInv, <1>a, <1>b DEF FanIn, FanInCancelled, PrefixInv
  <2>5. CASE FanInReport
    BY <1>5, <2>5, PrefixInv, <1>a, <1>b DEF FanIn, FanInReport, PrefixInv
  <2>6. CASE FanInClose
    BY <1>5, <2>6, PrefixInv, <1>a, <1>b DEF FanIn, FanInClose, PrefixInv
  <2>7. QED BY <1>5, <2>1, <2>2, <2>3, <2>4, <2>5, <2>6 DEF FanIn
<1>6. CASE Index
  <2>1. CASE IndexRead
    BY <1>6, <2>1, PrefixInv DEF Index, IndexRead, PrefixInv
  <2>2. CASE IndexCheck
    BY <1>6, <2>2, PrefixInv DEF Index, IndexCheck, PrefixInv
  <2>3. CASE IndexPut
    BY <1>6, <2>3, PrefixInv DEF Index, IndexPut, StoreIndex, PrefixInv
  <2>4. CASE IndexReport
    BY <1>6, <2>4, PrefixInv DEF Index, IndexReport, PrefixInv
  <2>5. QED BY <1>6, <2>1, <2>2, <2>3, <2>4 DEF Index
<1>7. CASE Main
  BY <1>7, PrefixInv DEF Main, MainReceive, MainCount, MainMetaCheck,
     MainMetaPut, MainSuccess, MainClose, StoreMetadata, Return, Goes,
     PrefixInv
<1>8. CASE Beat
  BY <1>8, PrefixInv DEF Beat, BeatAlive, BeatExpired, BeatPush, BeatCancel,
     BeatStop, PrefixInv
<1>9. CASE CallerCancel
  BY <1>9, PrefixInv DEF CallerCancel, PrefixInv
<1>10. CASE UNCHANGED vars
  BY <1>10, PrefixInv DEF vars, PrefixInv
<1>11. QED
  BY <1>1, <1>2, <1>3, <1>4, <1>5, <1>6, <1>7, <1>8, <1>9, <1>10
     DEF Next, Step, Finished

-----------------------------------------------------------------------------
(* The workers.                                                              *)

\* The channel, a set of chunks, is finite.
LEMMA ChannelFinite ==
  ASSUME PipelineType PROVE IsFiniteSet(itemCh) /\ Cardinality(itemCh) \in Nat
<1>1. IsFiniteSet(Chunks)
  BY FS_Interval, ChunksAssumption DEF Chunks
<1>2. itemCh \subseteq Chunks
  BY DEF PipelineType
<1>3. QED BY <1>1, <1>2, FS_Subset, FS_CardinalityType

\* Every step keeps the living workers in the channel or with fan-in.
LEMMA StepQueueInv == IInv /\ QueueInv /\ [Next]_vars => QueueInv'
<1> SUFFICES ASSUME PipelineType, ChunkInv, QueueInv, [Next]_vars
             PROVE  QueueInv'
  BY DEF IInv, TypeOK
<1> USE DEF countVars, fanOutVars, workVars, fanInVars, mainVars, beatVars,
        remoteVars
<1>1. CASE Tar
  BY <1>1, QueueInv DEF Tar, TarWrite, TarFail, TarReport, TarEnd, TarClose,
     QueueInv, Live
<1>2. CASE Count
  BY <1>2, QueueInv DEF Count, CountCheck, CountRead, CountEOF, QueueInv, Live
<1>3. CASE FanOut
  <2>1. CASE FanOutPut
    <3>1. /\ itemCh' = itemCh \cup {next} /\ UNCHANGED <<fanIn, cur>>
          /\ Cardinality(itemCh) < Concurrency
          /\ Live' \subseteq Live \cup {next}
      BY <1>3, <2>1, PipelineType DEF FanOut, FanOutPut, PipelineType, Live
    <3>2. Cardinality(itemCh') <= Cardinality(itemCh) + 1
      BY <3>1, ChannelFinite, FS_AddElement
    <3>3. Cardinality(itemCh') <= Concurrency
      <4>1. Cardinality(itemCh') \in Nat
        BY <3>1, ChannelFinite, FS_AddElement, FS_CardinalityType
      <4>2. QED BY <3>1, <3>2, <4>1, ChannelFinite, ConcurrencyAssumption
    <3>4. QED BY <3>1, <3>3 DEF QueueInv
  <2>2. CASE FanOutRead \/ FanOutTail \/ FanOutEOF \/ FanOutSkip
    BY <1>3, <2>2, QueueInv DEF FanOut, FanOutRead, FanOutTail, FanOutEOF,
       FanOutSkip, QueueInv, Live
  <2>3. QED BY <1>3, <2>1, <2>2 DEF FanOut
<1>4. CASE \E i \in Chunks : Worker(i)
  <2> PICK i \in Chunks : Worker(i)
    BY <1>4
  <2>1. UNCHANGED <<itemCh, fanIn, cur>>
    BY DEF Worker
  <2>2. worker[i] \notin {"none", "done"}
        /\ \A j \in Chunks \ {i} : worker'[j] = worker[j]
    BY PipelineType DEF Worker, WorkerExists, WorkerPut, WorkerProgress,
       WorkerGiveUp, WorkerGoes, PipelineType
  <2>3. Live' \subseteq Live
    BY <2>2 DEF Live
  <2>4. QED BY <2>1, <2>3 DEF QueueInv
<1>5. CASE FanIn
  <2>1. CASE FanInItem
    <3>1. PICK i \in itemCh : itemCh' = itemCh \ {i} /\ cur' = i
      BY <2>1 DEF FanInItem
    <3>2. fanIn = "item" /\ fanIn' = "result" /\ Live' = Live
      BY <1>5, <2>1 DEF FanIn, FanInItem, Live
    <3>3. Cardinality(itemCh') = Cardinality(itemCh) - 1
      BY <3>1, ChannelFinite, FS_RemoveElement
    <3>4. Cardinality(itemCh') <= Concurrency
      BY <3>3, ChannelFinite, ConcurrencyAssumption DEF QueueInv
    <3>5. QED BY <3>1, <3>2, <3>4 DEF QueueInv
  <2>2. CASE FanInResult
    <3>1. /\ UNCHANGED <<itemCh, cur>> /\ cur \in Chunks
          /\ worker' = [worker EXCEPT ![cur] = "done"]
      BY <2>2 DEF FanInResult, WorkerGoes, ChunkInv, Passed
    <3>2. Live' = Live \ {cur}
      BY <3>1, PipelineType DEF PipelineType, Live
    <3>3. QED BY <3>1, <3>2 DEF QueueInv
  <2>3. CASE FanInEnd \/ FanInCancelled \/ FanInReport \/ FanInClose
    BY <1>5, <2>3, QueueInv DEF FanIn, FanInEnd, FanInCancelled, FanInReport,
       FanInClose, QueueInv, Live
  <2>4. QED BY <1>5, <2>1, <2>2, <2>3 DEF FanIn
<1>6. CASE Index
  BY <1>6, QueueInv DEF Index, QueueInv, Live
<1>7. CASE Main
  BY <1>7, QueueInv DEF Main, QueueInv, Live
<1>8. CASE Beat
  BY <1>8, QueueInv DEF Beat, QueueInv, Live
<1>9. CASE CallerCancel
  BY <1>9, QueueInv DEF CallerCancel, QueueInv, Live
<1>10. CASE UNCHANGED vars
  BY <1>10, QueueInv DEF vars, QueueInv, Live
<1>11. QED
  BY <1>1, <1>2, <1>3, <1>4, <1>5, <1>6, <1>7, <1>8, <1>9, <1>10
     DEF Next, Step, Finished

\* The living workers are at most those of a full channel and of one item more.
LEMMA FewAlive == PipelineType /\ QueueInv => WorkersBounded
<1> SUFFICES ASSUME PipelineType, QueueInv PROVE WorkersBounded
  OBVIOUS
<1>1. /\ IsFiniteSet(itemCh \cup {cur})
      /\ Cardinality(itemCh \cup {cur}) <= Cardinality(itemCh) + 1
  BY ChannelFinite, FS_AddElement
<1>2. /\ IsFiniteSet(Live)
      /\ Cardinality(Live) <= Cardinality(itemCh \cup {cur})
  BY <1>1, FS_Subset DEF QueueInv
<1>3. Cardinality(Live) \in Nat /\ Cardinality(itemCh \cup {cur}) \in Nat
  BY <1>1, <1>2, FS_CardinalityType
<1>4. Cardinality(Live) <= Concurrency + 1
  BY <1>1, <1>2, <1>3, ChannelFinite, ConcurrencyAssumption DEF QueueInv
<1>5. QED BY <1>4 DEF WorkersBounded, Live

-----------------------------------------------------------------------------
(* The refinement: what the object store and the server see of an upload.    *)

\* Every step keeps the order of the objects.
LEMMA StepObjectsInv == IInv /\ ObjectsInv /\ [Next]_vars => ObjectsInv'
<1> SUFFICES ASSUME OrderInv, MainInv, ObjectsInv, [Next]_vars
             PROVE  ObjectsInv'
  BY DEF IInv
<1> USE DEF ObjectsInv, countVars, fanOutVars, workVars, fanInVars, mainVars,
        beatVars, remoteVars
<1>1. CASE Index
  BY <1>1 DEF Index, IndexRead, IndexCheck, IndexPut, IndexReport, StoreIndex
<1>2. CASE Main
  BY <1>2 DEF Main, MainReceive, MainCount, MainMetaCheck, MainMetaPut,
     MainSuccess, MainClose, StoreMetadata, Return, Goes, MainInv, Indexed
<1>3. CASE UNCHANGED <<idx, main, objects, index>>
  BY <1>3
<1>4. QED
  BY <1>1, <1>2, <1>3 DEF Next, Step, Finished, vars, Tar, Count, FanOut,
     Worker, FanIn, Beat, CallerCancel

\* A set of chunks without a hole is an interval, as long as it has elements.
LEMMA NoHole ==
  ASSUME NEW S \in SUBSET Chunks,
         \A i \in S, j \in Chunks : j <= i => j \in S
  PROVE  Cardinality(S) \in 0..NChunks /\ S = 1..Cardinality(S)
<1> DEFINE n == Cardinality(S)
<1>1. IsFiniteSet(Chunks) /\ Cardinality(Chunks) = NChunks
  BY FS_Interval, ChunksAssumption DEF Chunks
<1>2. IsFiniteSet(S) /\ n \in Nat /\ n <= NChunks
  BY <1>1, FS_Subset, FS_CardinalityType
<1> HIDE DEF n
<1>3. ASSUME NEW i \in S PROVE i \in 1..n
  <2>1. i \in 1..NChunks /\ 1..i \subseteq S
    BY ChunksAssumption DEF Chunks
  <2>2. Cardinality(1..i) = i
    BY <2>1, FS_Interval, ChunksAssumption
  <2>3. Cardinality(1..i) <= n
    BY <1>2, <2>1, FS_Subset DEF n
  <2>4. QED BY <1>2, <2>1, <2>2, <2>3, ChunksAssumption
<1>4. IsFiniteSet(1..n) /\ Cardinality(1..n) = n
  BY <1>2, FS_Interval
<1>5. S = 1..n
  BY <1>3, <1>4, FS_Subset DEF n
<1>6. QED BY <1>2, <1>5, ChunksAssumption DEF n

\* The keys a stored index lists, in their order.
Listing == [i \in 1..Cardinality(index) |-> KeyOf(i)]

\* The archive is a sequence of hashes.
LEMMA KeyFacts == Key \in Seq(Keys) /\ Len(Key) = NChunks
<1>1. Key \in Seq(Keys)
  BY KeyAssumption, ChunksAssumption, SeqDef
<1>2. QED BY <1>1, KeyAssumption, ChunksAssumption, LenProperties

\* A chunk that has passed fan-out keeps its hash, whatever the stream does.
LEMMA ListingStays ==
  ASSUME PipelineType, StreamInv, ChunkInv, PrefixInv, RemoteType,
         index' = index, cut' = cut \/ FanOutTail
  PROVE  Listing' = Listing
<1>1. index = 1..Cardinality(index)
  BY NoHole DEF RemoteType, PrefixInv
<1>2. ASSUME NEW i \in index PROVE KeyOf(i)' = KeyOf(i)
  <2>1. i \in Chunks /\ i <= next
    BY DEF PrefixInv, ChunkInv, Passed
  <2>2. CASE cut' = cut
    BY <2>2 DEF KeyOf
  <2>3. CASE FanOutTail
    BY <2>1, <2>3, ChunksAssumption
       DEF FanOutTail, KeyOf, PipelineType, Chunks
  <2>4. QED BY <2>2, <2>3
<1>3. QED BY <1>1, <1>2 DEF Listing

\* The keys of the first n chunks are an index of the archive or of one of its
\* truncations, when no more than the last of them is a partial chunk.
LEMMA KeysAreListing ==
  ASSUME PipelineType, NEW n \in 0..NChunks, cut \notin 1..n \/ cut = n
  PROVE  [i \in 1..n |-> KeyOf(i)] \in Publication!Listings
<1> USE KeyFacts, KeyAssumption, ChunksAssumption
<1> DEFINE s == [i \in 1..n |-> KeyOf(i)]
           H == Keys \cup {TailKey}
           Start(m) == SubSeq(Key, 1, m)
<1>1. s \in Seq(H) /\ Len(s) = n
  <2>1. \A i \in 1..n : KeyOf(i) \in H
    BY KeyOfType DEF Chunks
  <2>2. s \in [1..n -> H]
    BY <2>1
  <2>3. s \in Seq(H)
    BY <2>2, SeqDef
  <2>4. QED BY <2>3
<1>2. ASSUME NEW m \in 0..NChunks
      PROVE  /\ Start(m) \in Seq(Keys) /\ Start(m) \in Seq(H)
             /\ Len(Start(m)) = m
             /\ \A i \in 1..m : Start(m)[i] = Key[i]
             /\ Start(m) \in Publication!Truncated
  <2>1. \A i \in 1..m : i \in 1..NChunks
    OBVIOUS
  <2>2. /\ Start(m) \in Seq(Keys) /\ Start(m) \in Seq(H)
        /\ Len(Start(m)) = m
        /\ \A i \in 1..m : Start(m)[i] = Key[i]
    BY <2>1, SubSeqProperties
  <2>3. QED BY <2>2 DEF Publication!Truncated
<1>3. CASE cut \notin 1..n
  <2>1. \A i \in 1..n : s[i] = Key[i]
    BY <1>3 DEF KeyOf
  <2>2. s = Start(n)
    <3> HIDE DEF s, Start
    <3>1. QED BY <1>1, <1>2, <2>1, SeqEqual
  <2>3. QED BY <1>2, <2>2 DEF Publication!Listings
<1>4. CASE cut \in 1..n
  <2> DEFINE t == Append(Start(n - 1), TailKey)
  <2>1. n - 1 \in 0..NChunks /\ n - 1 # NChunks /\ cut = n /\ n >= 1
    BY <1>4
  <2>2. /\ Start(n - 1) \in Seq(H) /\ Len(Start(n - 1)) = n - 1
        /\ \A i \in 1..(n - 1) : Start(n - 1)[i] = Key[i]
        /\ Start(n - 1) \in Publication!Truncated
    BY <1>2, <2>1
  <2>3. Start(n - 1) # Key
    BY <2>1, <2>2
  <2>4. /\ t \in Seq(H) /\ Len(t) = n
        /\ \A i \in 1..(n - 1) : t[i] = Key[i]
        /\ t[n] = TailKey
    <3> HIDE DEF Start
    <3>1. QED BY <2>1, <2>2, AppendProperties
  <2>5. \A i \in 1..n : s[i] = t[i]
    BY <2>1, <2>4 DEF KeyOf
  <2>6. s = t
    <3> HIDE DEF s, t
    <3>1. QED BY <1>1, <2>4, <2>5, SeqEqual
  <2>7. t \in Publication!Listings
    <3> HIDE DEF Start
    <3>1. QED BY <2>2, <2>3 DEF Publication!Listings
  <2>8. QED BY <2>6, <2>7
<1>5. QED BY <1>3, <1>4


\* The index that is put lists the keys of the chunks fan-in has written.
LEMMA StoredListing ==
  ASSUME IInv, FifoInv, PrefixInv, idx = "put", index' = written, cut' = cut
  PROVE  /\ Listing' \in Publication!Listings
         /\ \A i \in DOMAIN Listing' : Listing'[i] \in store
<1> USE ChunksAssumption
<1> DEFINE n == Cardinality(written)
<1>1. n \in 0..NChunks /\ written = 1..n
  BY NoHole DEF PrefixInv, IInv, TypeOK, PipelineType
<1>2. Listing' = [i \in 1..n |-> KeyOf(i)]
  BY DEF Listing, KeyOf
<1>3. cut \notin 1..n \/ cut = n
  <2> SUFFICES ASSUME cut \in 1..n PROVE cut = n
    OBVIOUS
  <2>1. cut = next /\ next \in 0..NChunks
    BY <1>1 DEF IInv, TypeOK, PipelineType, StreamInv
  <2>2. n \in written
    BY <1>1
  <2>3. n <= next
    BY <2>2 DEF IInv, ChunkInv, Passed
  <2> HIDE DEF n
  <2>4. QED BY <1>1, <2>1, <2>3
<1>4. \A i \in written : KeyOf(i) \in store
  BY DEF IInv, ChunkInv
<1> HIDE DEF n
<1>5. [i \in 1..n |-> KeyOf(i)] \in Publication!Listings
  BY <1>1, <1>3, KeysAreListing DEF IInv, TypeOK
<1>6. QED BY <1>1, <1>2, <1>4, <1>5

\* The invariants the refinement rests on.
RefinementInv == IInv /\ FifoInv /\ PrefixInv /\ ObjectsInv

\* Every step is a step of the publication or is not seen.
LEMMA StepPublishes ==
  ASSUME RefinementInv, [Next]_vars
  PROVE  [Publication!Next]_Publication!remote
<1> DEFINE Seen == <<store, objects, Listing, metaSize, status>>
           Simulated == Publication!Next \/ UNCHANGED Seen
<1> SUFFICES Simulated
  BY DEF Publication!remote, Listing
<1> USE DEF RefinementInv, IInv, TypeOK, countVars, fanOutVars, workVars,
        fanInVars, mainVars, beatVars, remoteVars
<1>s. ASSUME UNCHANGED <<cut, index>> PROVE Listing' = Listing
  BY <1>s, ListingStays
<1>1. CASE Tar
  BY <1>1, <1>s DEF Tar
<1>2. CASE Count
  BY <1>2, <1>s DEF Count, CountCheck, CountRead, CountEOF
<1>3. CASE FanOut
  <2>1. cut' = cut \/ FanOutTail
    BY <1>3 DEF FanOut, FanOutRead, FanOutEOF, FanOutPut, FanOutSkip
  <2>2. UNCHANGED <<store, objects, index, metaSize, status>>
    BY <1>3 DEF FanOut
  <2>3. QED BY <2>1, <2>2, ListingStays
<1>4. CASE \E i \in Chunks : Worker(i)
  <2> PICK i \in Chunks : Worker(i)
    BY <1>4
  <2>1. UNCHANGED <<cut, objects, index, metaSize, status>>
    BY DEF Worker
  <2>2. CASE store' = store
    BY <2>1, <2>2, <1>s
  <2>3. CASE store' = store \cup {KeyOf(i)}
    <3>1. Publication!StoreChunk(KeyOf(i))
      BY <2>1, <2>3, <1>s DEF Publication!StoreChunk, Listing
    <3>2. QED BY <3>1, KeyOfType DEF Publication!Next
  <2>4. QED
    BY <2>2, <2>3 DEF Worker, WorkerExists, WorkerPut, WorkerProgress,
       WorkerGiveUp
<1>5. CASE FanIn
  BY <1>5, <1>s DEF FanIn
<1>6. CASE Index
  <2>1. UNCHANGED <<cut, store, metaSize, status>>
    BY <1>6 DEF Index
  <2>2. CASE UNCHANGED <<objects, index>>
    BY <2>1, <2>2, <1>s
  <2>3. CASE idx = "put" /\ StoreIndex
    <3>1. "index" \notin objects /\ index' = written
          /\ objects' = objects \cup {"index"}
      BY <2>3 DEF ObjectsInv, StoreIndex
    <3>2. /\ Listing' \in Publication!Listings
          /\ \A i \in DOMAIN Listing' : Listing'[i] \in store
      BY <2>1, <2>3, <3>1, StoredListing
    <3>3. Publication!StoreIndex
      BY <2>1, <3>1, <3>2 DEF Publication!StoreIndex, Listing
    <3>4. QED BY <3>3 DEF Publication!Next
  <2>4. QED
    BY <1>6, <2>2, <2>3 DEF Index, IndexRead, IndexCheck, IndexPut, IndexReport
<1>7. CASE Main
  <2>1. UNCHANGED <<cut, store, index>>
    BY <1>7 DEF Main
  <2>2. CASE UNCHANGED <<objects, metaSize, status>>
    BY <2>1, <2>2, <1>s
  <2>3. CASE main = "metaput" /\ StoreMetadata /\ status' = status
    <3>1. Indexed /\ "metadata" \notin objects
      BY <2>3 DEF MainInv, ObjectsInv
    <3>2. objects = {"index"}
      BY <3>1 DEF Indexed, RemoteType
    <3>3. Listing = Key
      <4>1. Cardinality(index) = NChunks
        BY <3>1, FS_Interval, ChunksAssumption DEF Indexed, Chunks
      <4>2. Listing = [i \in 1..NChunks |-> Key[i]]
        BY <3>1, <4>1, ChunksAssumption DEF Indexed, Drained, Listing, KeyOf
      <4>3. QED BY <4>2, KeyAssumption
    <3>4. metaSize' = Len(Key)
      BY <2>3, <3>1, KeyFacts DEF StoreMetadata, Indexed, Drained
    <3>5. objects' = objects \cup {"metadata"}
      BY <2>3 DEF StoreMetadata
    <3>6. Publication!StoreMetadata
      BY <2>1, <2>3, <3>2, <3>3, <3>4, <3>5, <1>s
         DEF Publication!StoreMetadata, Listing
    <3>7. QED BY <3>6 DEF Publication!Next
  <2>4. CASE main = "success" /\ UNCHANGED <<objects, metaSize>>
             /\ status' = "SUCCESS"
    <3>1. "metadata" \in objects
      BY <2>4 DEF MainInv, Described
    <3>2. Publication!Succeed
      BY <2>1, <2>4, <3>1, <1>s DEF Publication!Succeed, Listing
    <3>3. QED BY <3>2 DEF Publication!Next
  <2>5. QED
    BY <1>7, <2>2, <2>3, <2>4 DEF Main, MainReceive, MainCount, MainMetaCheck,
       MainMetaPut, MainSuccess, MainClose, Goes
<1>8. CASE Beat
  <2>1. UNCHANGED <<cut, store, objects, index, metaSize>>
    BY <1>8 DEF Beat
  <2>2. CASE BeatAlive
    <3>1. Publication!KeepAlive
      BY <2>1, <2>2, <1>s DEF BeatAlive, Publication!KeepAlive, Listing
    <3>2. QED BY <3>1 DEF Publication!Next
  <2>3. CASE status' = status
    BY <2>1, <2>3, <1>s
  <2>4. QED
    BY <1>8, <2>2, <2>3 DEF Beat, BeatExpired, BeatPush, BeatCancel, BeatStop
<1>9. CASE CallerCancel
  BY <1>9, <1>s DEF CallerCancel
<1>10. CASE UNCHANGED vars
  BY <1>10, <1>s DEF vars
<1>11. QED
  BY <1>1, <1>2, <1>3, <1>4, <1>5, <1>6, <1>7, <1>8, <1>9, <1>10
     DEF Next, Step, Finished

-----------------------------------------------------------------------------
(* Deadlock.                                                                 *)

\* Every step keeps the worker of each item fan-in may wait for alive.
LEMMA StepServedInv ==
  IInv /\ FifoInv /\ ServedInv /\ [Next]_vars => ServedInv'
<1> SUFFICES ASSUME PipelineType, ChannelType, StreamInv, ChunkInv, FifoInv,
                    ServedInv, [Next]_vars
             PROVE  ServedInv'
  BY DEF IInv, TypeOK
<1> USE DEF ServedInv, Live, countVars, fanOutVars, workVars, fanInVars,
        mainVars, beatVars, remoteVars
<1>s. ASSUME NEW v \in {"nil", "err"}, Send(v) PROVE doneCh' # <<>>
  BY <1>s, SendKeepsHead DEF ChannelType
<1>1. CASE Tar
  BY <1>1, <1>s DEF Tar, TarReport
<1>2. CASE Count
  BY <1>2 DEF Count, CountCheck, CountRead, CountEOF
<1>3. CASE FanOut
  <2>1. CASE FanOutPut
    <3>1. /\ UNCHANGED <<ctxDone, fanIn, cur, idx, main, doneCh>>
          /\ next \in Chunks /\ itemCh' = itemCh \cup {next}
          /\ worker' = [worker EXCEPT ![next] = "exists"]
      BY <1>3, <2>1, ChunksAssumption
         DEF FanOut, FanOutPut, StreamInv, PipelineType, Chunks
    <3>2. Live' = Live \cup {next}
      BY <3>1, PipelineType DEF PipelineType
    <3> HIDE DEF Live
    <3>3. QED BY <3>1, <3>2
  <2>2. CASE FanOutRead \/ FanOutTail \/ FanOutEOF \/ FanOutSkip
    BY <1>3, <2>2 DEF FanOut, FanOutRead, FanOutTail, FanOutEOF, FanOutSkip
  <2>3. QED BY <1>3, <2>1, <2>2 DEF FanOut
<1>4. CASE \E i \in Chunks : Worker(i)
  <2> PICK i \in Chunks : Worker(i)
    BY <1>4
  <2>1. UNCHANGED <<ctxDone, itemCh, fanIn, cur, idx, main, doneCh>>
    BY DEF Worker, mainVars
  <2>2. \A j \in Chunks \ {i} : worker'[j] = worker[j]
    BY PipelineType DEF Worker, WorkerExists, WorkerPut, WorkerProgress,
       WorkerGiveUp, WorkerGoes, PipelineType
  <2>3. CASE WorkerGiveUp(i)
    BY <2>1, <2>3 DEF WorkerGiveUp, UploadCtxDone
  <2>4. CASE WorkerExists(i) \/ WorkerPut(i) \/ WorkerProgress(i)
    <3>1. worker'[i] \notin {"none", "done"}
      BY <2>4, PipelineType DEF WorkerExists, WorkerPut, WorkerProgress,
         WorkerGoes, Stored, PipelineType
    <3>2. Live \subseteq Live'
      BY <2>2, <3>1
    <3> HIDE DEF Live
    <3>3. QED BY <2>1, <3>2
  <2>5. QED BY <2>3, <2>4 DEF Worker
<1>5. CASE FanIn
  <2>1. CASE FanInItem
    BY <1>5, <2>1, PipelineType DEF FanIn, FanInItem, PipelineType
  <2>2. CASE FanInResult
    <3>1. /\ UNCHANGED <<ctxDone, itemCh, cur, idx, main, doneCh>>
          /\ fanIn = "result" /\ fanIn' \in {"item", "report"}
          /\ worker' = [worker EXCEPT ![cur] = "done"]
      BY <1>5, <2>2 DEF FanIn, FanInResult, WorkerGoes
    <3>2. cur \notin itemCh
      BY <3>1, ChunksAssumption DEF FifoInv, PipelineType
    <3>3. Live \ {cur} \subseteq Live'
      BY <3>1, PipelineType DEF PipelineType
    <3> HIDE DEF Live
    <3>4. QED BY <3>1, <3>2, <3>3
  <2>3. CASE FanInReport
    BY <1>5, <2>3, <1>s DEF FanIn, FanInReport
  <2>4. CASE FanInEnd \/ FanInCancelled \/ FanInClose
    BY <1>5, <2>4 DEF FanIn, FanInEnd, FanInCancelled, FanInClose
  <2>5. QED BY <1>5, <2>1, <2>2, <2>3, <2>4 DEF FanIn
<1>6. CASE Index
  BY <1>6, <1>s DEF Index, IndexRead, IndexCheck, IndexPut, IndexReport
<1>7. CASE Main
  BY <1>7 DEF Main, MainReceive, MainCount, MainMetaCheck, MainMetaPut,
     MainSuccess, MainClose, Return, Goes
<1>8. CASE Beat
  BY <1>8, <1>s DEF Beat, BeatAlive, BeatExpired, BeatPush, BeatCancel, BeatStop
<1>9. CASE CallerCancel
  BY <1>9 DEF CallerCancel
<1>10. CASE UNCHANGED vars
  BY <1>10 DEF vars
<1>11. QED
  BY <1>1, <1>2, <1>3, <1>4, <1>5, <1>6, <1>7, <1>8, <1>9, <1>10
     DEF Next, Step, Finished

\* Downstream first: whoever waits waits for a stage that can go on, from the
\* index back to fan-in and its worker, to fan-out, to count and to tar.
LEMMA SomeoneReady == IInv /\ ServedInv => NoJam
<1> SUFFICES ASSUME PipelineType, CallerType, StreamInv, ChunkInv, MainInv,
                    OrderInv, ServedInv, main # "closed", ~panicked,
                    ~MainReady, ~IndexReady, ~FanInReady, ~FanOutReady,
                    ~CountReady, ~TarReady,
                    \A i \in Chunks : ~WorkerReady(i)
             PROVE  FALSE
  BY DEF IInv, TypeOK, NoJam
<1>1. main = "wait" /\ doneCh = <<>>
  <2>1. main = "count" => count = "done"
    BY DEF MainInv, Indexed, Drained
  <2>2. QED BY <2>1 DEF MainReady, CallerType
<1>2. Len(doneCh) < DoneCap
  BY <1>1, EmptySeq DEF DoneCap
<1>3. idx = "read" /\ fanIn # "done"
  BY <1>1, <1>2 DEF IndexReady, PipelineType, ServedInv
<1>4. fanIn \in {"item", "result"} /\ ~ctxDone
  BY <1>2, <1>3 DEF FanInReady, PipelineType
<1>5. fanIn = "item"
  <2> SUFFICES ASSUME fanIn = "result" PROVE FALSE
    BY <1>4
  <2>1. cur \in Chunks /\ worker[cur] \notin {"none", "done"}
    BY <1>4 DEF ServedInv, Live
  <2>2. worker[cur] \notin {"ok", "failed"}
    BY <1>4 DEF FanInReady
  <2>3. WorkerReady(cur)
    BY <2>1, <2>2 DEF WorkerReady, PipelineType
  <2>4. QED BY <2>1, <2>3
<1>6. itemCh = {} /\ fanOut # "closed"
  BY <1>5 DEF FanInReady
<1>7. fanOut = "next" /\ count \notin {"tee", "done"}
  <2>1. Cardinality(itemCh) < Concurrency
    BY <1>6, FS_EmptySet, ConcurrencyAssumption
  <2>2. QED BY <1>6, <2>1 DEF FanOutReady, PipelineType
<1>8. tar \notin {"write", "done"}
  BY <1>7 DEF CountReady, PipelineType
<1>9. QED BY <1>2, <1>8 DEF TarReady, PipelineType

-----------------------------------------------------------------------------
(* Uploads in which nothing fails.                                           *)

\* A send of nil keeps the channel free of errors.
LEMMA SendNil ==
  ASSUME doneCh \in Seq({"nil"}), Send("nil")
  PROVE  doneCh' \in Seq({"nil"})
<1> DEFINE S == {"nil"}
<1>1. doneCh \in Seq(S) /\ "nil" \in S
  OBVIOUS
<1> HIDE DEF S
<1>2. Append(doneCh, "nil") \in Seq(S)
  BY <1>1, AppendProperties
<1>3. QED BY <1>2 DEF Send, S

\* What is received of a channel free of errors is nil.
LEMMA ReceiveNil ==
  ASSUME doneCh \in Seq({"nil"}), doneCh # <<>>
  PROVE  Head(doneCh) = "nil" /\ Tail(doneCh) \in Seq({"nil"})
<1>1. Head(doneCh) \in {"nil"} /\ Tail(doneCh) \in Seq({"nil"})
  BY HeadTailProperties
<1>2. QED BY <1>1

\* No step is an error when nothing can fail: the context is done only when
\* nobody looks at it any more.
LEMMA StepSmoothInv == IInv /\ SmoothInv /\ [Next]_vars => SmoothInv'
<1> SUFFICES ASSUME PipelineType, StreamInv, ChunkInv, OrderInv, SmoothInv,
                    Faults = {}, [Next]_vars
             PROVE  SmoothInv'
  BY DEF IInv, TypeOK, SmoothInv
<1> USE DEF SmoothInv, PipelineType, countVars, fanOutVars, workVars, fanInVars,
        mainVars, beatVars, remoteVars
<1>l. \A i \in Chunks : worker[i] \notin {"none", "done"} =>
        i \in itemCh \/ (fanIn = "result" /\ i = cur)
  BY DEF Live
<1>d. main # "wait" \/ doneCh # <<>> => fanIn = "done"
  BY DEF OrderInv
<1>e. fanIn = "done" =>
        /\ tar = "done" /\ count = "done"
        /\ \A i \in Chunks : worker[i] \in {"none", "done"}
  BY <1>l DEF StreamInv
<1>f. ctxDone => fanIn = "done" /\ idx = "done"
  BY <1>d
<1>1. CASE Tar
  <2>1. UNCHANGED <<doneCh, Live>>
    BY <1>1 DEF Tar, TarReport, Live
  <2>2. QED
    BY <1>1, <2>1, <1>e, <1>f DEF Tar, TarReport, TarWrite, TarFail, TarEnd, TarClose
<1>2. CASE Count
  <2>1. UNCHANGED Live
    BY <1>2 DEF Count, Live
  <2>2. QED
    BY <1>2, <2>1, <1>e, <1>f DEF Count, CountCheck, CountRead, CountEOF
<1>3. CASE FanOut
  <2>1. CASE FanOutPut
    <3>1. /\ UNCHANGED <<ctxDone, fanIn, cur, idx, main, ret, doneCh, beat, tar,
                         countErr>>
          /\ fanOut = "put" /\ itemCh' = itemCh \cup {next}
          /\ worker' = [worker EXCEPT ![next] = "exists"]
      BY <1>3, <2>1 DEF FanOut, FanOutPut
    <3>2. Live' \subseteq Live \cup {next}
      BY <3>1 DEF Live
    <3>3. \A i \in Chunks : worker'[i] # "failed"
      BY <3>1
    <3> HIDE DEF Live
    <3>4. QED BY <3>1, <3>2, <3>3
  <2>2. CASE FanOutRead \/ FanOutTail \/ FanOutEOF \/ FanOutSkip
    <3>1. UNCHANGED Live
      BY <1>3, <2>2 DEF FanOut, FanOutRead, FanOutTail, FanOutEOF, FanOutSkip, Live
    <3>2. QED
      BY <1>3, <2>2, <3>1
         DEF FanOut, FanOutRead, FanOutTail, FanOutEOF, FanOutSkip
  <2>3. QED BY <1>3, <2>1, <2>2 DEF FanOut
<1>4. CASE \E i \in Chunks : Worker(i)
  <2> PICK i \in Chunks : Worker(i)
    BY <1>4
  <2>1. UNCHANGED <<ctxDone, itemCh, fanOut, fanIn, cur, idx, main, ret, doneCh,
                    beat, tar, countErr>>
    BY DEF Worker
  <2>2. \A j \in Chunks \ {i} : worker'[j] = worker[j]
    BY DEF Worker, WorkerExists, WorkerPut, WorkerProgress, WorkerGiveUp, WorkerGoes
  <2>3. worker[i] \notin {"none", "done", "failed"} /\ fanIn \notin {"report", "close", "done"}
    BY <1>e DEF Worker, WorkerExists, WorkerPut, WorkerProgress, WorkerGiveUp
  <2>4. ~UploadCtxDone
    BY <1>f, <2>3 DEF UploadCtxDone
  <2>5. worker'[i] # "failed"
    BY <2>3, <2>4 DEF Worker, WorkerExists, WorkerPut, WorkerProgress,
       WorkerGiveUp, WorkerGoes, Stored
  <2>6. Live' \subseteq Live
    BY <2>2, <2>3 DEF Live
  <2> HIDE DEF Live
  <2>7. QED BY <2>1, <2>2, <2>5, <2>6
<1>5. CASE FanIn
  <2>1. CASE FanInItem
    <3>1. UNCHANGED Live
      BY <1>5, <2>1 DEF FanIn, FanInItem, Live
    <3>2. QED BY <1>5, <2>1, <3>1 DEF FanIn, FanInItem
  <2>2. CASE FanInResult
    <3>1. /\ UNCHANGED <<ctxDone, itemCh, fanOut, cur, idx, main, ret, doneCh, beat,
                         tar, countErr>>
          /\ fanIn = "result" /\ fanIn' = "item"
          /\ worker' = [worker EXCEPT ![cur] = "done"]
      BY <1>5, <2>2 DEF FanIn, FanInResult, WorkerGoes, ChunkInv, Passed
    <3>2. Live' \subseteq Live \ {cur}
      BY <3>1 DEF Live, ChunkInv, Passed
    <3>3. \A i \in Chunks : worker'[i] # "failed"
      BY <3>1
    <3> HIDE DEF Live
    <3>4. QED BY <3>1, <3>2, <3>3
  <2>3. CASE FanInEnd
    <3>1. UNCHANGED Live
      BY <1>5, <2>3 DEF FanIn, FanInEnd, Live
    <3>2. QED BY <1>5, <2>3, <3>1 DEF FanIn, FanInEnd
  <2>4. CASE FanInReport \/ FanInCancelled \/ FanInClose
    BY <1>f, <2>4 DEF FanInReport, FanInCancelled, FanInClose
  <2>5. QED BY <1>5, <2>1, <2>2, <2>3, <2>4 DEF FanIn
<1>6. CASE Index
  <2>1. UNCHANGED Live
    BY <1>6 DEF Index, Live
  <2>2. CASE IndexReport
    <3>1. idx = "stored" /\ Send("nil")
      BY <2>2 DEF IndexReport
    <3>2. doneCh' \in Seq({"nil"})
      BY <3>1, SendNil
    <3>3. QED BY <1>6, <2>1, <2>2, <3>2 DEF Index, IndexReport
  <2>3. CASE IndexRead \/ IndexCheck \/ IndexPut
    BY <1>6, <2>1, <2>3, <1>f DEF Index, IndexRead, IndexCheck, IndexPut
  <2>4. QED BY <1>6, <2>2, <2>3 DEF Index
<1>7. CASE Main
  <2>1. UNCHANGED Live
    BY <1>7 DEF Main, Live
  <2>2. CASE MainReceive
    <3>1. Head(doneCh) = "nil" /\ doneCh' \in Seq({"nil"}) /\ idx = "done"
      BY <2>2, ReceiveNil DEF MainReceive
    <3>2. QED BY <1>7, <2>1, <2>2, <3>1 DEF Main, MainReceive, Goes
  <2>3. CASE MainCount \/ MainMetaCheck \/ MainMetaPut \/ MainSuccess \/ MainClose
    BY <1>7, <2>1, <2>3 DEF Main, MainCount, MainMetaCheck, MainMetaPut,
       MainSuccess, MainClose, Return, Goes
  <2>4. QED BY <1>7, <2>2, <2>3 DEF Main
<1>8. CASE Beat
  <2>1. UNCHANGED Live
    BY <1>8 DEF Beat, Live
  <2>2. QED
    BY <1>8, <2>1 DEF Beat, BeatAlive, BeatExpired, BeatPush, BeatCancel, BeatStop
<1>9. CASE CallerCancel
  BY <1>9 DEF CallerCancel
<1>10. CASE UNCHANGED vars
  BY <1>10 DEF vars, Live
<1>11. QED
  BY <1>1, <1>2, <1>3, <1>4, <1>5, <1>6, <1>7, <1>8, <1>9, <1>10
     DEF Next, Step, Finished

-----------------------------------------------------------------------------
(* Progress.                                                                 *)

\* Every step keeps the items in the channel behind the one fan-in has taken.
LEMMA StepHandInv == IInv /\ HandInv /\ [Next]_vars => HandInv'
<1> SUFFICES ASSUME PipelineType, StreamInv, ChunkInv, HandInv, [Next]_vars
             PROVE  HandInv'
  BY DEF IInv, TypeOK
<1> USE ChunksAssumption DEF HandInv, Passed, PipelineType, Chunks, countVars,
        fanOutVars, workVars, fanInVars, mainVars, beatVars, remoteVars
<1>1. CASE FanOut
  <2>1. CASE FanOutRead
    BY <1>1, <2>1 DEF FanOut, FanOutRead
  <2>2. CASE FanOutTail
    BY <1>1, <2>2 DEF FanOut, FanOutTail
  <2>3. CASE FanOutEOF
    BY <1>1, <2>3 DEF FanOut, FanOutEOF
  <2>4. CASE FanOutPut
    BY <1>1, <2>4 DEF FanOut, FanOutPut, StreamInv
  <2>5. CASE FanOutSkip
    BY <1>1, <2>5 DEF FanOut, FanOutSkip
  <2>6. QED BY <1>1, <2>1, <2>2, <2>3, <2>4, <2>5 DEF FanOut
<1>2. CASE FanIn
  <2>1. CASE FanInItem
    BY <1>2, <2>1 DEF FanIn, FanInItem, ChunkInv
  <2>2. CASE UNCHANGED <<itemCh, cur>>
    BY <1>2, <2>2 DEF FanIn
  <2>3. QED
    BY <1>2, <2>1, <2>2 DEF FanIn, FanInEnd, FanInResult, FanInCancelled,
       FanInReport, FanInClose
<1>3. CASE UNCHANGED <<next, fanOut, cur, itemCh>>
  BY <1>3
<1>4. QED
  BY <1>1, <1>2, <1>3 DEF Next, Step, Finished, vars, Tar, Count, CountCheck,
     CountRead, CountEOF, Worker, Index, Main, Beat, CallerCancel

\* No rank is above its bound.
LEMMA RanksTyped == TypeOK => RanksBounded
<1> SUFFICES ASSUME PipelineType, CallerType, RemoteType PROVE RanksBounded
  BY DEF TypeOK
<1> USE ChunksAssumption, ExpiryAssumption DEF PipelineType, CallerType, RemoteType
<1>1. TarRank \in 0..(2 * NChunks + 3)
  BY DEF TarRank
<1>2. CountRank \in 0..(3 * NChunks + 3)
  BY DEF CountRank
<1>3. FanOutRank \in 0..(2 * NChunks + 2)
  BY DEF FanOutRank
<1>4. \A i \in Chunks : WorkerRank(i) \in 0..5
  BY DEF WorkerRank
<1>5. FanInRank \in 0..(2 * NChunks + 4)
  BY DEF FanInRank
<1>6. IndexRank \in 0..4 /\ MainRank \in 0..6 /\ StatusRank \in 0..2
  BY DEF IndexRank, MainRank, StatusRank
<1>7. BeatRank \in 0..(3 * MaxExpiries + 3)
  BY DEF BeatRank
<1>8. QED BY <1>1, <1>2, <1>3, <1>4, <1>5, <1>6, <1>7 DEF RanksBounded

\* A rank that nothing of is changed stays.
LEMMA RanksStay ==
  ASSUME RanksBounded
  PROVE  /\ UNCHANGED <<counted, tar>> => TarRank <= TarRank'
         /\ UNCHANGED <<next, count>> => CountRank <= CountRank'
         /\ UNCHANGED <<next, fanOut>> => FanOutRank <= FanOutRank'
         /\ UNCHANGED worker =>
              \A i \in Chunks : WorkerRank(i) <= WorkerRank(i)'
         /\ UNCHANGED <<cur, fanIn>> => FanInRank <= FanInRank'
         /\ UNCHANGED idx => IndexRank <= IndexRank'
         /\ UNCHANGED main => MainRank <= MainRank'
         /\ UNCHANGED <<expiries, beat>> => BeatRank <= BeatRank'
         /\ UNCHANGED status => StatusRank <= StatusRank'
<1> USE ChunksAssumption, ExpiryAssumption
<1>1. UNCHANGED <<counted, tar>> => TarRank' = TarRank
  BY DEF TarRank
<1>2. UNCHANGED <<next, count>> => CountRank' = CountRank
  BY DEF CountRank
<1>3. UNCHANGED <<next, fanOut>> => FanOutRank' = FanOutRank
  BY DEF FanOutRank
<1>4. UNCHANGED worker => \A i \in Chunks : WorkerRank(i)' = WorkerRank(i)
  BY DEF WorkerRank
<1>5. UNCHANGED <<cur, fanIn>> => FanInRank' = FanInRank
  BY DEF FanInRank
<1>6. UNCHANGED idx => IndexRank' = IndexRank
  BY DEF IndexRank
<1>7. UNCHANGED main => MainRank' = MainRank
  BY DEF MainRank
<1>8. UNCHANGED <<expiries, beat>> => BeatRank' = BeatRank
  BY DEF BeatRank
<1>9. UNCHANGED status => StatusRank' = StatusRank
  BY DEF StatusRank
<1>10. QED
  BY <1>1, <1>2, <1>3, <1>4, <1>5, <1>6, <1>7, <1>8, <1>9 DEF RanksBounded

\* Every step is a step forward.
LEMMA StepAdvances == IInv /\ HandInv /\ [Next]_vars => [Advances]_vars
<1> SUFFICES ASSUME IInv, HandInv, Next, ~UNCHANGED vars PROVE Advances
  OBVIOUS
<1>r. RanksBounded
  BY RanksTyped DEF IInv
<1> USE ChunksAssumption DEF IInv, TypeOK, PipelineType, countVars, fanOutVars,
        workVars, fanInVars, mainVars, beatVars, remoteVars
<1>1. CASE Tar
  <2>1. TarRank < TarRank' /\ TarRank <= TarRank'
    BY <1>1 DEF Tar, TarWrite, TarFail, TarReport, TarEnd, TarClose, TarRank
  <2>2. QED
    BY <1>r, <1>1, <2>1, RanksStay DEF Tar, Advances, Forward
<1>2. CASE Count
  <2>1. TarRank <= TarRank'
    BY <1>2 DEF Count, CountCheck, CountRead, CountEOF, TarRank
  <2>2. CountRank < CountRank' /\ CountRank <= CountRank'
    BY <1>2 DEF Count, CountCheck, CountRead, CountEOF, CountRank
  <2>3. QED
    BY <1>r, <1>2, <2>1, <2>2, RanksStay DEF Count, Advances, Forward
<1>3. CASE FanOut
  <2>1. CountRank <= CountRank'
    BY <1>3 DEF FanOut, FanOutRead, FanOutTail, FanOutEOF, FanOutPut,
       FanOutSkip, CountRank
  <2>2. FanOutRank < FanOutRank' /\ FanOutRank <= FanOutRank'
    BY <1>3 DEF FanOut, FanOutRead, FanOutTail, FanOutEOF, FanOutPut,
       FanOutSkip, FanOutRank
  <2>3. \A i \in Chunks : WorkerRank(i) <= WorkerRank(i)'
    <3>1. CASE FanOutPut
      <4>1. /\ worker' = [worker EXCEPT ![next] = "exists"]
            /\ worker[next] = "none" \/ next \notin Chunks
        BY <3>1 DEF FanOutPut, ChunkInv, Passed
      <4>2. QED BY <4>1 DEF WorkerRank
    <3>2. CASE UNCHANGED worker
      BY <1>r, <3>2, RanksStay
    <3>3. QED
      BY <1>3, <3>1, <3>2 DEF FanOut, FanOutRead, FanOutTail, FanOutEOF,
         FanOutSkip
  <2>4. QED
    BY <1>r, <1>3, <2>1, <2>2, <2>3, RanksStay
       DEF FanOut, Advances, Forward
<1>4. CASE \E i \in Chunks : Worker(i)
  <2> PICK i \in Chunks : Worker(i)
    BY <1>4
  <2>1. \A j \in Chunks \ {i} : WorkerRank(j) <= WorkerRank(j)'
    <3>1. \A j \in Chunks \ {i} : worker'[j] = worker[j]
      BY DEF Worker, WorkerExists, WorkerPut, WorkerProgress, WorkerGiveUp,
         WorkerGoes
    <3>2. \A j \in Chunks \ {i} : WorkerRank(j)' = WorkerRank(j)
      BY <3>1 DEF WorkerRank
    <3>3. QED BY <1>r, <3>2 DEF RanksBounded
  <2>2. \/ WorkerRank(i) < WorkerRank(i)' /\ WorkerRank(i) <= WorkerRank(i)'
           /\ UNCHANGED panicked
        \/ UNCHANGED worker /\ ~panicked /\ panicked'
    BY DEF Worker, WorkerExists, WorkerPut, WorkerProgress, WorkerGiveUp,
       WorkerGoes, Stored, WorkerRank, Next, Step, Finished
  <2>3. QED
    BY <1>r, <2>1, <2>2, RanksStay DEF Worker, Advances, Forward
<1>5. CASE FanIn
  <2>1. FanInRank < FanInRank' /\ FanInRank <= FanInRank'
    BY <1>5 DEF FanIn, FanInItem, FanInEnd, FanInResult, FanInCancelled,
       FanInReport, FanInClose, HandInv, FanInRank, Chunks
  <2>2. \A i \in Chunks : WorkerRank(i) <= WorkerRank(i)'
    <3>1. CASE FanInResult
      BY <3>1 DEF FanInResult, WorkerGoes, WorkerRank
    <3>2. CASE UNCHANGED worker
      BY <1>r, <3>2, RanksStay
    <3>3. QED
      BY <1>5, <3>1, <3>2 DEF FanIn, FanInItem, FanInEnd, FanInCancelled,
         FanInReport, FanInClose
  <2>3. QED
    BY <1>r, <1>5, <2>1, <2>2, RanksStay DEF FanIn, Advances, Forward
<1>6. CASE Index
  <2>1. IndexRank < IndexRank' /\ IndexRank <= IndexRank'
    BY <1>6 DEF Index, IndexRead, IndexCheck, IndexPut, IndexReport, IndexRank
  <2>2. QED
    BY <1>r, <1>6, <2>1, RanksStay DEF Index, Advances, Forward
<1>7. CASE Main
  <2>1. MainRank < MainRank' /\ MainRank <= MainRank'
    BY <1>7 DEF Main, MainReceive, MainCount, MainMetaCheck, MainMetaPut,
       MainSuccess, MainClose, Return, Goes, MainRank
  <2>2. StatusRank <= StatusRank' /\ (ctxDone => ctxDone')
    BY <1>7 DEF Main, MainReceive, MainCount, MainMetaCheck, MainMetaPut,
       MainSuccess, MainClose, Return, Goes, StatusRank, RemoteType
  <2>3. QED
    BY <1>r, <1>7, <2>1, <2>2, RanksStay DEF Main, Advances, Forward
<1>8. CASE Beat
  <2>1. CASE BeatAlive
    <3>1. StatusRank < StatusRank' /\ StatusRank <= StatusRank'
      BY <2>1 DEF BeatAlive, StatusRank
    <3>2. QED
      BY <1>r, <1>8, <2>1, <3>1, RanksStay
         DEF Beat, BeatAlive, Advances, Forward
  <2>2. CASE BeatExpired \/ BeatPush \/ BeatCancel \/ BeatStop
    <3>1. BeatRank < BeatRank' /\ BeatRank <= BeatRank'
      BY <2>2, ExpiryAssumption DEF BeatExpired, BeatPush, BeatCancel, BeatStop,
         BeatRank, CallerType
    <3>2. UNCHANGED status /\ (ctxDone => ctxDone')
      BY <2>2 DEF BeatExpired, BeatPush, BeatCancel, BeatStop
    <3>3. QED
      BY <1>r, <1>8, <3>1, <3>2, RanksStay DEF Beat, Advances, Forward
  <2>3. QED BY <1>8, <2>1, <2>2 DEF Beat
<1>9. CASE CallerCancel
  BY <1>r, <1>9, RanksStay DEF CallerCancel, Advances, Forward
<1>10. QED
  BY <1>1, <1>2, <1>3, <1>4, <1>5, <1>6, <1>7, <1>8, <1>9
     DEF Next, Step, Finished

-----------------------------------------------------------------------------
(* The theorems.                                                             *)

\* The invariant is inductive: it holds initially and every step keeps it.
THEOREM Invariance == Spec => []IInv
<1>1. Init => IInv
  <2> SUFFICES ASSUME Init PROVE IInv
    OBVIOUS
  <2>1. TypeOK
    BY InitTypeOK
  <2>2. StreamInv /\ ChunkInv
    BY ChunksAssumption DEF Init, StreamInv, ChunkInv, Passed
  <2>3. OrderInv /\ MainInv
    BY DEF Init, OrderInv, MainInv, NilFirst
  <2>4. QED BY <2>1, <2>2, <2>3 DEF IInv
<1>2. IInv /\ [Next]_vars => IInv'
  BY StepTypeOK, StepStreamInv, StepChunkInv, StepOrderInv, StepMainInv DEF IInv
<1>3. QED BY <1>1, <1>2, PTL DEF Spec

\* The state is always well typed.
THEOREM TypeCorrect == Spec => []TypeOK
<1>1. IInv => TypeOK
  BY DEF IInv
<1>2. QED BY <1>1, Invariance, PTL

\* A dataset marked SUCCESS is complete: whatever stage fails, whenever the
\* caller cancels or the server lets the upload expire.
THEOREM Completeness == Spec => []SuccessMeansComplete
<1>1. IInv => SuccessMeansComplete
  <2> SUFFICES ASSUME IInv, status = "SUCCESS" PROVE Published
    BY DEF SuccessMeansComplete
  <2>1. Indexed /\ Described
    BY DEF IInv, MainInv
  <2>2. objects = {"index", "metadata"}
    BY <2>1 DEF IInv, TypeOK, RemoteType, Indexed, Described
  <2>3. \A i \in Chunks : KeyOf(i) \in store
    BY <2>1 DEF IInv, ChunkInv, Indexed, Drained
  <2>4. QED BY <2>1, <2>2, <2>3 DEF Published, Indexed, Described, Drained
<1>2. QED BY <1>1, Invariance, PTL

\* start reports success only for a dataset that was marked SUCCESS.
THEOREM HonestReturn == Spec => []NilMeansSuccess
<1>1. IInv => NilMeansSuccess
  BY DEF IInv, MainInv, NilMeansSuccess
<1>2. QED BY <1>1, Invariance, PTL

\* A panic of a worker never follows a successful upload.
THEOREM CalmSuccess == Spec => []PanicMeansFailure
<1>1. IInv => PanicMeansFailure
  BY DEF IInv, MainInv, PanicMeansFailure
<1>2. QED BY <1>1, Invariance, PTL

\* No index is ever stored with a hole in it: FifoInv and PrefixInv carry the
\* order of the chunks through the channel and through the index stream.
THEOREM StoredIndex == Spec => []StoredIndexIsPrefix
<1>1. Init => FifoInv /\ PrefixInv
  BY DEF Init, FifoInv, PrefixInv
<1>2. IInv /\ FifoInv /\ PrefixInv /\ [Next]_vars
        => FifoInv' /\ PrefixInv'
  BY StepFifoInv, StepPrefixInv
<1>3. IInv /\ FifoInv /\ PrefixInv => StoredIndexIsPrefix
  <2> SUFFICES ASSUME PipelineType, RemoteType, PrefixInv,
                      NEW i \in index, NEW j \in 1..i
               PROVE  j \in index
    BY DEF IInv, TypeOK, StoredIndexIsPrefix
  <2>1. j \in Chunks /\ j <= i
    BY ChunksAssumption DEF RemoteType, Chunks
  <2>2. QED BY <2>1 DEF PrefixInv
<1>4. QED BY <1>1, <1>2, <1>3, Invariance, PTL DEF Spec

\* The memory of an upload is bounded: whatever is cancelled or fails, no more
\* workers are alive than the channel has places and fan-in one hand.
THEOREM Bounded == Spec => []WorkersBounded
<1>1. Init => QueueInv
  BY FS_EmptySet, ConcurrencyAssumption DEF Init, QueueInv, Live
<1>2. IInv /\ QueueInv /\ [Next]_vars => QueueInv'
  BY StepQueueInv
<1>3. IInv /\ QueueInv => WorkersBounded
  BY FewAlive DEF IInv, TypeOK
<1>4. QED BY <1>1, <1>2, <1>3, Invariance, PTL DEF Spec

\* Every key a stored index lists is the key of a stored object.
THEOREM StoredKeys == Spec => []StoredIndexResolves
<1>1. Init => FifoInv /\ PrefixInv
  BY DEF Init, FifoInv, PrefixInv
<1>2. IInv /\ FifoInv /\ PrefixInv /\ [Next]_vars
        => FifoInv' /\ PrefixInv'
  BY StepFifoInv, StepPrefixInv
<1>3. IInv /\ FifoInv /\ PrefixInv => StoredIndexResolves
  BY DEF IInv, ChunkInv, PrefixInv, StoredIndexResolves
<1>4. QED BY <1>1, <1>2, <1>3, Invariance, PTL DEF Spec

\* The invariants of the refinement hold in every state.
THEOREM RefinementInvariance == Spec => []RefinementInv
<1>1. Init => FifoInv /\ PrefixInv /\ ObjectsInv
  BY DEF Init, FifoInv, PrefixInv, ObjectsInv
<1>2. IInv /\ FifoInv /\ PrefixInv /\ ObjectsInv /\ [Next]_vars
        => FifoInv' /\ PrefixInv' /\ ObjectsInv'
  BY StepFifoInv, StepPrefixInv, StepObjectsInv
<1>3. QED BY <1>1, <1>2, Invariance, PTL DEF Spec, RefinementInv

\* The upload publishes the dataset as DatasetPublication says: chunks before
\* the index that lists them, one index without holes and repetitions, whole or
\* truncated, the metadata only after a whole one, and SUCCESS only after both.
THEOREM Refinement == Spec => Publishes
<1>1. Init => Publication!Init
  <2> SUFFICES ASSUME Init PROVE Publication!Init
    OBVIOUS
  <2>1. Listing = <<>>
    <3>1. Cardinality(index) = 0
      BY FS_EmptySet DEF Init
    <3>2. QED BY <3>1 DEF Listing
  <2>2. QED BY <2>1 DEF Init, Publication!Init, Listing
<1>2. RefinementInv /\ [Next]_vars => [Publication!Next]_Publication!remote
  BY StepPublishes
<1>3. QED
  BY <1>1, <1>2, RefinementInvariance, PTL DEF Spec, Publishes, Publication!Spec

\* The goroutines of an upload never deadlock: until Upload has returned one of
\* them can take a step, for every archive, concurrency and set of faults, and
\* without the help of a heartbeat or of the caller.
THEOREM Unjammed == Spec => []NoJam
<1>1. Init => FifoInv /\ ServedInv
  BY DEF Init, FifoInv, ServedInv
<1>2. IInv /\ FifoInv /\ ServedInv /\ [Next]_vars => FifoInv' /\ ServedInv'
  BY StepFifoInv, StepServedInv
<1>3. IInv /\ ServedInv => NoJam
  BY SomeoneReady
<1>4. QED BY <1>1, <1>2, <1>3, Invariance, PTL DEF Spec

\* Every step brings the upload nearer to its end: no goroutine ever goes back,
\* one goes forward, and there is an end to how far each can go.  So an upload
\* takes a bounded number of steps, whatever fails and however often it expires.
THEOREM Finite == Spec => [][Advances]_vars /\ []RanksBounded
<1>1. Init => HandInv
  BY DEF Init, HandInv
<1>2. IInv /\ HandInv /\ [Next]_vars => HandInv' /\ [Advances]_vars
  BY StepHandInv, StepAdvances
<1>3. IInv => RanksBounded
  BY RanksTyped DEF IInv
<1>4. QED BY <1>1, <1>2, <1>3, Invariance, PTL DEF Spec

\* An upload in which nothing can fail does not: start returns no error and no
\* worker panics, for every archive and concurrency.  With Unjammed and Finite
\* it is what FaultFreeSucceeds needs beside fairness.
THEOREM Faultless == Spec => []FaultFree
<1>1. Init => SmoothInv
  <2> SUFFICES ASSUME Init PROVE SmoothInv
    OBVIOUS
  <2>1. doneCh \in Seq({"nil"})
    BY DEF Init
  <2>2. Live = {}
    BY DEF Init, Live
  <2> HIDE DEF Live
  <2>3. \A i \in Chunks : worker[i] # "failed"
    BY DEF Init
  <2>4. QED BY <2>1, <2>2, <2>3 DEF Init, SmoothInv
<1>2. IInv /\ SmoothInv /\ [Next]_vars => SmoothInv'
  BY StepSmoothInv
<1>3. IInv /\ SmoothInv => FaultFree
  BY DEF IInv, MainInv, SmoothInv, FaultFree
<1>4. QED BY <1>1, <1>2, <1>3, Invariance, PTL DEF Spec
=============================================================================
