---------------------------- MODULE Transfer_proofs ----------------------------
(* Proofs about Transfer: each client, seen alone, behaves as its own module *)
(* says, so that what is proved of UploadProcess and of DownloadProcess      *)
(* holds of the two together, and what is downloaded is what was uploaded,   *)
(* for every archive and both concurrencies.                                 *)
EXTENDS Transfer, UploadProcess_proofs

-----------------------------------------------------------------------------
(* The constants.                                                            *)

\* The archive of the upload is one DownloadProcess is about.
THEOREM SameArchive ==
  /\ Key \in Seq(Keys) /\ Key # <<>>
  /\ Down!N = NChunks /\ Down!Items = Chunks
  /\ {0, Down!N} \subseteq FileEnds
<1>1. Key \in Seq(Keys) /\ Len(Key) = NChunks /\ Len(<<>>) = 0
  BY KeyFacts, EmptySeq
<1>2. Down!N = NChunks /\ Down!Items = Chunks
  BY <1>1 DEF Down!N, Down!Items, Chunks
<1>3. QED BY <1>1, <1>2, ChunksAssumption, TransferAssumption

-----------------------------------------------------------------------------
(* The uploader.                                                             *)

\* The uploader of a transfer is an upload: the download does not disturb it.
THEOREM TransferUploads == TransferSpec => Spec
<1>1. TransferInit => Init
  BY DEF TransferInit
<1>2. [TransferNext]_transferVars => [Next]_vars
  BY DEF TransferNext, Uploader, Downloader, Downloads, Next, transferVars
<1>3. QED BY <1>1, <1>2, PTL DEF TransferSpec, Spec

-----------------------------------------------------------------------------
(* The downloader.                                                           *)

\* The steps of the remote side are those UploadProcess implements.
LEMMA SameRemote == Publication!Next <=> Down!Remote!Next
BY DEF Publication!Next, Publication!StoreChunk, Publication!StoreIndex,
   Publication!StoreMetadata, Publication!KeepAlive, Publication!Succeed,
   Publication!Listings, Publication!Truncated,
   Down!Remote!Next, Down!Remote!StoreChunk, Down!Remote!StoreIndex,
   Down!Remote!StoreMetadata, Down!Remote!KeepAlive, Down!Remote!Succeed,
   Down!Remote!Listings, Down!Remote!Truncated

\* A step of the real uploader is one that DownloadProcess expects of its
\* environment, or is not seen by the download.
LEMMA UploaderIsEnvironment ==
  ASSUME RefinementInv, Uploader
  PROVE  [Down!Next]_Down!vars
<1>1. UNCHANGED dlVars /\ [Next]_vars
  BY DEF Uploader, Next
<1>2. [Publication!Next]_Publication!remote
  BY <1>1, StepPublishes
<1>3. CASE Publication!Next
  <2>1. Down!Environment
    BY <1>1, <1>3, SameRemote
       DEF dlVars, Down!Environment, Down!Publish, Down!ctxVars, Down!idxVars,
           Down!fanOutVars, Down!workVars, Down!fanInVars, Down!untarVars,
           Down!mainVars
  <2>2. QED BY <2>1 DEF Down!Next
<1>4. CASE UNCHANGED Publication!remote
  BY <1>1, <1>4
     DEF dlVars, Publication!remote, Down!vars, Down!remoteVars, Down!ctxVars,
         Down!idxVars, Down!fanOutVars, Down!workVars, Down!fanInVars,
         Down!untarVars, Down!mainVars
<1>5. QED BY <1>2, <1>3, <1>4

\* The download of a transfer is a download: the real uploader is one of the
\* environments that DownloadProcess was proved correct in.
THEOREM TransferDownloads == TransferSpec => Down!Spec
<1>1. TransferInit => Down!Init
  BY DEF TransferInit
<1>2. RefinementInv /\ [TransferNext]_transferVars => [Down!Next]_Down!vars
  <2> SUFFICES ASSUME RefinementInv, [TransferNext]_transferVars
               PROVE  [Down!Next]_Down!vars
    OBVIOUS
  <2>1. CASE Uploader
    BY <2>1, UploaderIsEnvironment
  <2>2. CASE Downloader
    BY <2>2, SameArchive DEF Downloader, Downloads, Down!Next
  <2>3. CASE UNCHANGED transferVars
    BY <2>3 DEF transferVars, vars, fanOutVars, remoteVars, dlVars, Down!vars,
       Down!remoteVars, Down!ctxVars, Down!idxVars, Down!fanOutVars,
       Down!workVars, Down!fanInVars, Down!untarVars, Down!mainVars, KeyOf
  <2>4. QED BY <2>1, <2>2, <2>3 DEF TransferNext
<1>3. QED
  BY <1>1, <1>2, TransferUploads, RefinementInvariance, PTL
     DEF TransferSpec, Down!Spec

-----------------------------------------------------------------------------
(* What is proved of DownloadProcess, for the download of a transfer.  Down  *)
(* and Proved are the same specification; the provers have to be told.       *)

Proved == INSTANCE DownloadProcess_proofs WITH
  Archive <- Key, Hashes <- Keys, TailHash <- TailKey, Faults <- {},
  index <- [i \in 1..Cardinality(index) |-> KeyOf(i)], size <- metaSize,
  ctxDone <- dlCtxDone, cancelled <- dlCancelled, idx <- dlIdx,
  keys <- dlKeys, scanned <- dlScanned, fanOut <- dlFanOut, next <- dlNext,
  itemCh <- dlItemCh, worker <- dlWorker, fanIn <- dlFanIn, cur <- dlCur,
  untar <- dlUntar, out <- dlOut, doneCh <- dlDoneCh, main <- dlMain,
  ret <- dlRet, panicked <- dlPanicked

\* The number of items in the channel is the same in both.
LEMMA SameCardinality == \A S : Down!Cardinality(S) = Proved!Cardinality(S)
BY DEF Down!Cardinality, Proved!Cardinality

\* They begin in the same states and have the same items and variables.
LEMMA SameInit ==
  /\ Down!Init <=> Proved!Init
  /\ Down!Items = Proved!Items
  /\ Down!vars = Proved!vars /\ Down!vars' = Proved!vars'
<1>1. Down!Remote!Init <=> Proved!Remote!Init
  BY DEF Down!Remote!Init, Proved!Remote!Init
<1>2. Down!Init <=> Proved!Init
  BY <1>1
     DEF Down!Init, Proved!Init, Down!Items, Proved!Items, Down!N, Proved!N
<1>3. /\ Down!Items = Proved!Items
      /\ Down!vars = Proved!vars /\ Down!vars' = Proved!vars'
  BY
     DEF Down!Items, Proved!Items, Down!N, Proved!N, Down!vars, Proved!vars,
         Down!remoteVars, Proved!remoteVars, Down!ctxVars, Proved!ctxVars,
         Down!idxVars, Proved!idxVars, Down!fanOutVars, Proved!fanOutVars,
         Down!workVars, Proved!workVars, Down!fanInVars, Proved!fanInVars,
         Down!untarVars, Proved!untarVars, Down!mainVars, Proved!mainVars
<1>4. QED BY <1>2, <1>3

\* The remote side takes the same steps.
LEMMA SameEnvironment == Down!Environment <=> Proved!Environment
<1>1. Down!Remote!Next <=> Proved!Remote!Next
  BY
     DEF Down!Remote!Next, Proved!Remote!Next, Down!Remote!StoreChunk,
         Proved!Remote!StoreChunk, Down!Remote!StoreIndex,
         Proved!Remote!StoreIndex, Down!Remote!StoreMetadata,
         Proved!Remote!StoreMetadata, Down!Remote!KeepAlive,
         Proved!Remote!KeepAlive, Down!Remote!Succeed, Proved!Remote!Succeed,
         Down!Remote!Listings, Proved!Remote!Listings, Down!Remote!Truncated,
         Proved!Remote!Truncated
<1>2. QED
  BY <1>1
     DEF Down!Environment, Proved!Environment, Down!Publish, Proved!Publish,
         Down!Expire, Proved!Expire, Down!ctxVars, Proved!ctxVars,
         Down!idxVars, Proved!idxVars, Down!fanOutVars, Proved!fanOutVars,
         Down!workVars, Proved!workVars, Down!fanInVars, Proved!fanInVars,
         Down!untarVars, Proved!untarVars, Down!mainVars, Proved!mainVars

\* The goroutines take the same steps.
LEMMA SameGoroutines ==
  /\ Down!Main <=> Proved!Main
  /\ Down!Index <=> Proved!Index
  /\ Down!FanOut <=> Proved!FanOut
  /\ \A i : Down!Worker(i) <=> Proved!Worker(i)
  /\ Down!FanIn <=> Proved!FanIn
  /\ Down!Untar <=> Proved!Untar
  /\ Down!CallerCancel <=> Proved!CallerCancel
<1>1. Down!Main <=> Proved!Main
  BY
     DEF Down!Main, Proved!Main, Down!Describe, Proved!Describe, Down!WakeUp,
         Proved!WakeUp, Down!Receive, Proved!Receive, Down!Close,
         Proved!Close, Down!Return, Proved!Return, Down!Goes, Proved!Goes,
         Down!Fail, Proved!Fail, Down!remoteVars, Proved!remoteVars,
         Down!idxVars, Proved!idxVars, Down!fanOutVars, Proved!fanOutVars,
         Down!workVars, Proved!workVars, Down!fanInVars, Proved!fanInVars,
         Down!untarVars, Proved!untarVars
<1>2. Down!Index <=> Proved!Index
  BY
     DEF Down!Index, Proved!Index, Down!IndexGet, Proved!IndexGet,
         Down!IndexReport, Proved!IndexReport, Down!IndexClose,
         Proved!IndexClose, Down!Send, Proved!Send, Down!DoneCap,
         Proved!DoneCap, Down!Started, Proved!Started, Down!remoteVars,
         Proved!remoteVars, Down!ctxVars, Proved!ctxVars, Down!fanOutVars,
         Proved!fanOutVars, Down!workVars, Proved!workVars, Down!fanInVars,
         Proved!fanInVars, Down!untarVars, Proved!untarVars, Down!mainVars,
         Proved!mainVars
<1>3. Down!FanOut <=> Proved!FanOut
  <2>1. Down!FanOutScan <=> Proved!FanOutScan
    BY
       DEF Down!FanOutScan, Proved!FanOutScan, Down!fanOutVars,
           Proved!fanOutVars, Down!workVars, Proved!workVars
  <2>2. Down!FanOutRead <=> Proved!FanOutRead
    BY
       DEF Down!FanOutRead, Proved!FanOutRead, Down!workVars, Proved!workVars
  <2>3. Down!FanOutEOF <=> Proved!FanOutEOF
    BY
       DEF Down!FanOutEOF, Proved!FanOutEOF, Down!workVars, Proved!workVars
  <2>4. Down!FanOutPut <=> Proved!FanOutPut
    BY SameCardinality
       DEF Down!FanOutPut, Proved!FanOutPut
  <2>5. Down!FanOutStop <=> Proved!FanOutStop
    BY
       DEF Down!FanOutStop, Proved!FanOutStop, Down!ChunksCtxDone,
           Proved!ChunksCtxDone, Down!workVars, Proved!workVars
  <2>6. QED
    BY <2>1, <2>2, <2>3, <2>4, <2>5
       DEF Down!FanOut, Proved!FanOut, Down!Started, Proved!Started,
           Down!remoteVars, Proved!remoteVars, Down!ctxVars, Proved!ctxVars,
           Down!fanInVars, Proved!fanInVars, Down!untarVars, Proved!untarVars,
           Down!mainVars, Proved!mainVars
<1>4. \A i : Down!Worker(i) <=> Proved!Worker(i)
  BY
     DEF Down!Worker, Proved!Worker, Down!WorkerGet, Proved!WorkerGet,
         Down!WorkerProgress, Proved!WorkerProgress, Down!WorkerGiveUp,
         Proved!WorkerGiveUp, Down!WorkerGoes, Proved!WorkerGoes,
         Down!Started, Proved!Started, Down!ChunksCtxDone,
         Proved!ChunksCtxDone, Down!remoteVars, Proved!remoteVars,
         Down!ctxVars, Proved!ctxVars, Down!idxVars, Proved!idxVars,
         Down!fanOutVars, Proved!fanOutVars, Down!fanInVars, Proved!fanInVars,
         Down!untarVars, Proved!untarVars, Down!mainVars, Proved!mainVars
<1>5. Down!FanIn <=> Proved!FanIn
  BY
     DEF Down!FanIn, Proved!FanIn, Down!FanInItem, Proved!FanInItem,
         Down!FanInEnd, Proved!FanInEnd, Down!FanInResult, Proved!FanInResult,
         Down!FanInCancelled, Proved!FanInCancelled, Down!FanInReport,
         Proved!FanInReport, Down!FanInClose, Proved!FanInClose,
         Down!WorkerGoes, Proved!WorkerGoes, Down!Send, Proved!Send,
         Down!DoneCap, Proved!DoneCap, Down!Started, Proved!Started,
         Down!remoteVars, Proved!remoteVars, Down!ctxVars, Proved!ctxVars,
         Down!idxVars, Proved!idxVars, Down!fanOutVars, Proved!fanOutVars,
         Down!workVars, Proved!workVars, Down!untarVars, Proved!untarVars,
         Down!mainVars, Proved!mainVars
<1>6. Down!Untar <=> Proved!Untar
  BY
     DEF Down!Untar, Proved!Untar, Down!UntarCheck, Proved!UntarCheck,
         Down!UntarRead, Proved!UntarRead, Down!UntarEOF, Proved!UntarEOF,
         Down!UntarFail, Proved!UntarFail, Down!UntarReport,
         Proved!UntarReport, Down!Send, Proved!Send, Down!DoneCap,
         Proved!DoneCap, Down!Started, Proved!Started, Down!N, Proved!N,
         Down!remoteVars, Proved!remoteVars, Down!ctxVars, Proved!ctxVars,
         Down!idxVars, Proved!idxVars, Down!fanOutVars, Proved!fanOutVars,
         Down!workVars, Proved!workVars, Down!mainVars, Proved!mainVars
<1>7. Down!CallerCancel <=> Proved!CallerCancel
  BY
     DEF Down!CallerCancel, Proved!CallerCancel, Down!remoteVars,
         Proved!remoteVars, Down!idxVars, Proved!idxVars, Down!fanOutVars,
         Proved!fanOutVars, Down!workVars, Proved!workVars, Down!fanInVars,
         Proved!fanInVars, Down!untarVars, Proved!untarVars, Down!mainVars,
         Proved!mainVars
<1>8. QED BY <1>1, <1>2, <1>3, <1>4, <1>5, <1>6, <1>7

\* The download of a transfer is one the theorems of DownloadProcess are about.
LEMMA SameDownload == Down!Spec => Proved!Spec
<1>1. [Down!Next]_Down!vars => [Proved!Next]_Proved!vars
  BY SameInit, SameEnvironment, SameGoroutines DEF Down!Next, Proved!Next
<1>2. QED BY <1>1, SameInit, PTL DEF Down!Spec, Proved!Spec

\* The constants of a transfer are those the theorems assume.
LEMMA ProvedConstants ==
  /\ Key \in Seq(Keys) /\ Key # <<>>
  /\ {0, Proved!N} \subseteq FileEnds
  /\ Concurrency \in Nat \ {0}
  /\ HasProgress \in BOOLEAN
  /\ {} \subseteq Proved!FaultKinds
BY SameArchive, ConcurrencyAssumption, ProgressAssumption DEF Down!N, Proved!N

-----------------------------------------------------------------------------
(* The two programs together.                                                *)

\* Nobody cancels the download of a transfer, and its upload does not expire.
Undisturbed == ~dlCancelled /\ ~expired

\* Undisturbed holds in every state.
LEMMA StaysUndisturbed == TransferSpec => []Undisturbed
<1>1. TransferInit => Undisturbed
  BY DEF TransferInit, Down!Init, Undisturbed
<1>2. Undisturbed /\ [TransferNext]_transferVars => Undisturbed'
  BY DEF Undisturbed, TransferNext, Uploader, Downloader, Downloads, transferVars,
     dlVars, Down!Main, Down!Index, Down!FanOut, Down!Worker, Down!FanIn,
     Down!Untar, Down!remoteVars, Down!ctxVars
<1>3. QED BY <1>1, <1>2, PTL DEF TransferSpec

\* What the download of a transfer may end with.
Delivered ==
  /\ ~dlPanicked
  /\ dlRet # "none" => dlRet = "nil" /\ dlOut = Key

\* A download in which nothing fails ends with nothing but the whole archive the
\* uploader was given, whenever it is started and whatever becomes of the upload:
\* its failures and cancellations never reach the reader as a shorter archive.
THEOREM TransferDelivers == TransferSpec => []Delivered
<1>1. Proved!Spec => []Proved!TypeOK
  BY ProvedConstants, Proved!DownloadTyped, PTL
<1>2. Proved!Spec => []Proved!NilMeansDownloaded
  BY ProvedConstants, Proved!Downloaded, PTL
<1>3. Proved!Spec => []Proved!FaultFree
  BY ProvedConstants, Proved!Faultless, PTL
<1>4. /\ Undisturbed /\ Proved!TypeOK
      /\ Proved!NilMeansDownloaded /\ Proved!FaultFree
      => Delivered
  BY DEF Undisturbed, Delivered, Proved!TypeOK, Proved!StageType,
     Proved!NilMeansDownloaded, Proved!FaultFree
<1>5. QED
  BY <1>1, <1>2, <1>3, <1>4, TransferDownloads, SameDownload, StaysUndisturbed, PTL

\* Neither client of a transfer ever jams: until each has returned one of its own
\* goroutines can take a step, and the download without the uploader's help.  With
\* Finite and TransferDelivers it is what SuccessIsDownloaded needs beside fairness.
THEOREM TransferUnjammed == TransferSpec => []NoJam /\ []Proved!NoJam
<1>1. Proved!Spec => []Proved!NoJam
  BY ProvedConstants, Proved!Unjammed, PTL
<1>2. QED BY <1>1, Unjammed, TransferUploads, TransferDownloads, SameDownload, PTL
=============================================================================
