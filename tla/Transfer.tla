------------------------------- MODULE Transfer -------------------------------
(***************************************************************************)
(* An upload and a download of the same dataset by two clients, of which   *)
(* the second may start before the first has begun.  They share no more    *)
(* than the object store and the status of the dataset: the remote side    *)
(* DownloadProcess reads is the one UploadProcess writes.  Nothing fails   *)
(* in the download.                                                        *)
(***************************************************************************)
EXTENDS UploadProcess

CONSTANTS
  FileEnds        \* numbers of chunks after which the archive is between files

ASSUME TransferAssumption == {0, NChunks} \subseteq FileEnds

VARIABLES expired, dlCtxDone, dlCancelled, dlIdx, dlKeys, dlScanned, dlFanOut,
          dlNext, dlItemCh, dlWorker, dlFanIn, dlCur, dlUntar, dlOut, dlDoneCh, dlMain,
          dlRet, dlPanicked

dlVars == <<expired, dlCtxDone, dlCancelled, dlIdx, dlKeys, dlScanned, dlFanOut,
            dlNext, dlItemCh, dlWorker, dlFanIn, dlCur, dlUntar, dlOut, dlDoneCh, dlMain,
            dlRet, dlPanicked>>
transferVars == <<vars, dlVars>>

\* The uploader is alive, so its upload does not expire: no step changes expired.
Down == INSTANCE DownloadProcess WITH
  Archive <- Key,
  Hashes <- Keys,
  TailHash <- TailKey,
  Faults <- {},
  index <- [i \in 1..Cardinality(index) |-> KeyOf(i)],
  size <- metaSize,
  ctxDone <- dlCtxDone,
  cancelled <- dlCancelled,
  idx <- dlIdx,
  keys <- dlKeys,
  scanned <- dlScanned,
  fanOut <- dlFanOut,
  next <- dlNext,
  itemCh <- dlItemCh,
  worker <- dlWorker,
  fanIn <- dlFanIn,
  cur <- dlCur,
  untar <- dlUntar,
  out <- dlOut,
  doneCh <- dlDoneCh,
  main <- dlMain,
  ret <- dlRet,
  panicked <- dlPanicked

TransferInit == Init /\ Down!Init

-----------------------------------------------------------------------------
Uploader == Step /\ UNCHANGED dlVars

\* One goroutine of the download takes a step.
Downloads(Goroutine) == UNCHANGED vars /\ Goroutine

Downloader ==
  \/ Downloads(Down!Main) \/ Downloads(Down!Index) \/ Downloads(Down!FanOut)
  \/ \E i \in Chunks : Downloads(Down!Worker(i))
  \/ Downloads(Down!FanIn) \/ Downloads(Down!Untar)

TransferNext == Uploader \/ Downloader

(* The goroutines of both clients are scheduled as in each module alone.    *)
DownFairness ==
  /\ WF_transferVars(Downloads(Down!Main))
  /\ WF_transferVars(Downloads(Down!Index))
  /\ WF_transferVars(Downloads(Down!FanOut))
  /\ \A i \in Chunks : WF_transferVars(Downloads(Down!Worker(i)))
  /\ WF_transferVars(Downloads(Down!FanIn))
  /\ WF_transferVars(Downloads(Down!Untar))

TransferSpec ==
  TransferInit /\ [][TransferNext]_transferVars /\ Fairness /\ DownFairness

-----------------------------------------------------------------------------
\* A download in which nothing fails ends with the whole archive on disk once
\* the upload has succeeded, whenever it was started: its pipeline does not jam,
\* and no stage meets the end of a stream before its time.
SuccessIsDownloaded == status = "SUCCESS" ~> dlRet = "nil" /\ dlOut = Key
=============================================================================
