--------------------------- MODULE DownloadProcess ---------------------------
(***************************************************************************)
(* The download of a dataset that somebody may still be uploading:         *)
(* Download and downloadProcess.start with its goroutines                  *)
(* (nerd/service/datatransfer/v1/download.go and download_process.go).     *)
(*                                                                         *)
(*      index | chunks (fan-out, one worker per key, fan-in) | untar       *)
(*                                                                         *)
(* The remote side takes the steps of DatasetPublication.  The data of a   *)
(* chunk is its hash, and "out" is what untardir has read: the files on    *)
(* disk.  Items are numbered by the position of their key in the index, so *)
(* the FIFO channel itemCh is a set ordered by number.                     *)
(***************************************************************************)
EXTENDS Naturals, Sequences, FiniteSets

CONSTANTS
  Archive,        \* hashes of the chunks of the uploaded archive
  Hashes,         \* content hashes of chunks
  TailHash,       \* hash of the partial last chunk of a truncated archive
  FileEnds,       \* numbers of chunks after which the archive is between files
  Concurrency,    \* downloadProcess.concurrency
  HasProgress,    \* whether downloadProcess.progressCh is set
  Faults          \* what may go wrong in this instance

FaultKinds == {"describe", "index", "key", "chunk", "disk", "cancel"}
N == Len(Archive)

ASSUME DownloadArchiveAssumption == Archive \in Seq(Hashes) /\ Archive # <<>>
ASSUME FileEndsAssumption == {0, N} \subseteq FileEnds
ASSUME DownloadConcurrencyAssumption == Concurrency \in Nat \ {0}
ASSUME DownloadProgressAssumption == HasProgress \in BOOLEAN
ASSUME DownloadFaultsAssumption == Faults \subseteq FaultKinds

Items == 1..N
DoneCap == 3      \* make(chan error, 3)

VARIABLES
  store, objects, index, size, status,   \* remote: see DatasetPublication
  expired,        \* remote: the upload's expiry time has passed
  ctxDone,        \* the context of start is done
  cancelled,      \* the caller has cancelled
  idx,            \* the index goroutine
  keys,           \* the index it has read
  scanned,        \* keys that went to the scanner of the key reader
  fanOut,         \* the goroutine that reads keys and starts workers
  next,           \* number of the last key fan-out has read
  itemCh,         \* channel from fan-out to fan-in
  worker,         \* one goroutine for each item; "bad": the item has an error
  fanIn,          \* downloadChunks, then the end of its goroutine
  cur,            \* the item fan-in holds
  untar,          \* the untar goroutine
  out,            \* the data it has read
  doneCh,         \* results of the stages
  main,           \* Download
  ret,            \* what Download returned
  panicked        \* a worker sent on the closed progress channel

Remote == INSTANCE DatasetPublication

remoteVars == <<store, objects, index, size, status, expired>>
ctxVars    == <<ctxDone, cancelled>>
idxVars    == <<idx, keys, scanned>>
fanOutVars == <<fanOut, next>>
workVars   == <<itemCh, worker>>
fanInVars  == <<fanIn, cur>>
untarVars  == <<untar, out>>
mainVars   == <<main, ret>>
vars == <<remoteVars, ctxVars, idxVars, fanOutVars, workVars, fanInVars,
          untarVars, doneCh, mainVars, panicked>>

RemoteType ==
  /\ store \subseteq Hashes \cup {TailHash}
  /\ index \in Seq(Hashes \cup {TailHash})
  /\ status \in {"CREATED", "UPLOADING", "SUCCESS"}
StageType ==
  /\ ctxDone \in BOOLEAN /\ cancelled \in BOOLEAN /\ expired \in BOOLEAN
  /\ idx \in {"get", "write", "failed", "close", "done"}
  /\ scanned \in 0..Len(keys)
  /\ fanOut \in {"next", "put", "bad", "closed"}
  /\ next \in 0..Len(keys)
  /\ itemCh \in SUBSET Items
  /\ worker \in [Items -> {"none", "get", "progress", "ok", "failed", "bad",
                           "done"}]
  /\ fanIn \in {"item", "result", "write", "report", "close", "done"}
  /\ cur \in 0..N
  /\ untar \in {"check", "read", "ok", "failed", "done"}
  /\ main \in {"describe", "sleep", "wait", "returned", "closed",
              "failed"}
  /\ ret \in {"none", "nil", "err"}
  /\ panicked \in BOOLEAN
ChannelType == doneCh \in Seq({"nil", "err"})
TypeOK == RemoteType /\ StageType /\ ChannelType

Init ==
  /\ Remote!Init /\ expired = FALSE
  /\ ctxDone = FALSE /\ cancelled = FALSE
  /\ idx = "get" /\ keys = <<>> /\ scanned = 0
  /\ fanOut = "next" /\ next = 0
  /\ itemCh = {} /\ worker = [i \in Items |-> "none"]
  /\ fanIn = "item" /\ cur = 0
  /\ untar = "check" /\ out = <<>>
  /\ doneCh = <<>>
  /\ main = "describe" /\ ret = "none"
  /\ panicked = FALSE

\* A send on the buffered doneCh blocks while the buffer is full.
Send(v) == Len(doneCh) < DoneCap /\ doneCh' = Append(doneCh, v)

\* start has spawned its goroutines.
Started == main \in {"wait", "returned", "closed"} /\ ~panicked

\* The child context of downloadChunks: its cancel runs on every return.
ChunksCtxDone == ctxDone \/ fanIn \in {"report", "close", "done"}

-----------------------------------------------------------------------------
(* The uploader and the server.  An expired upload stays expired, yet its   *)
(* uploader may go on.                                                      *)
Publish == Remote!Next /\ UNCHANGED expired
Expire == ~expired /\ expired' = TRUE
          /\ UNCHANGED <<store, objects, index, size, status>>

Environment == /\ Publish \/ Expire
               /\ UNCHANGED <<ctxVars, idxVars, fanOutVars, workVars, fanInVars,
                              untarVars, doneCh, mainVars, panicked>>

-----------------------------------------------------------------------------
(* Download: the loop that waits for the upload, then start.  A dataset     *)
(* that is still CREATED is waited for although its upload has expired.     *)
Return(r) == main' = "returned" /\ ret' = r /\ ctxDone' = TRUE
Goes(m) == main' = m /\ UNCHANGED <<ret, ctxDone>>
\* Download fails before it calls start.
Fail == main' = "failed" /\ ret' = "err" /\ UNCHANGED ctxDone

\* Mutant: the status is only compared with CREATED.
DescribeAnyUpload ==
  /\ main = "describe"
  /\ \/ "describe" \in Faults /\ Fail
     \/ status # "CREATED" /\ Goes("wait")
     \/ status = "CREATED" /\ Goes("sleep")
  /\ UNCHANGED doneCh
\* Mutant: the expiry is not looked at.
DescribePatient ==
  /\ main = "describe"
  /\ \/ "describe" \in Faults /\ Fail
     \/ status = "SUCCESS" /\ Goes("wait")
     \/ status # "SUCCESS" /\ Goes("sleep")
  /\ UNCHANGED doneCh
Describe ==
  /\ main = "describe"
  /\ \/ "describe" \in Faults /\ Fail
     \/ status = "SUCCESS" /\ Goes("wait")
     \/ status = "UPLOADING" /\ expired /\ Fail
     \/ status = "UPLOADING" /\ ~expired /\ Goes("sleep")
     \/ status = "CREATED" /\ Goes("sleep")
  /\ UNCHANGED doneCh
WakeUp ==
  /\ main = "sleep"
  /\ \/ Goes("describe")
     \/ ctxDone /\ Fail
  /\ UNCHANGED doneCh
Receive ==
  /\ main = "wait" /\ doneCh # <<>>
  /\ Return(Head(doneCh))
  /\ doneCh' = Tail(doneCh)
\* Download closes the progress channel after start has returned.
Close == main = "returned" /\ Goes("closed") /\ UNCHANGED doneCh

Main == /\ ~panicked
        /\ Describe \/ WakeUp \/ Receive \/ Close
        /\ UNCHANGED <<remoteVars, cancelled, idxVars, fanOutVars, workVars,
                       fanInVars, untarVars, panicked>>

-----------------------------------------------------------------------------
(* index: the whole index object is read before it is written to the pipe;  *)
(* the write returns when the scanner has taken all of it, or never.        *)
IndexGet ==
  /\ idx = "get"
  /\ \/ /\ "index" \in objects
        /\ keys' = index
        /\ idx' = IF index = <<>> THEN "close" ELSE "write"
     \/ /\ "index" \notin objects \/ "index" \in Faults \/ ctxDone
        /\ idx' = "failed" /\ UNCHANGED keys
  /\ UNCHANGED doneCh
IndexReport == idx = "failed" /\ Send("err") /\ idx' = "close" /\ UNCHANGED keys
IndexClose == idx = "close" /\ idx' = "done" /\ UNCHANGED <<keys, doneCh>>

Index == /\ Started
         /\ IndexGet \/ IndexReport \/ IndexClose
         /\ UNCHANGED <<remoteVars, ctxVars, scanned, fanOutVars, workVars,
                        fanInVars, untarVars, mainVars, panicked>>

-----------------------------------------------------------------------------
(* fan-out: the scanner takes part of the index at a time, at most what its *)
(* buffer holds.  Unlike the upload's, this loop ends with the context.     *)
FanOutScan ==
  /\ fanOut = "next" /\ next = scanned /\ idx = "write"
  /\ \E n \in (scanned + 1)..Len(keys) :
       scanned' = n /\ idx' = IF n = Len(keys) THEN "close" ELSE "write"
  /\ UNCHANGED <<fanOutVars, workVars>>
\* Mutant: an off-by-one in the scanner loop.
FanOutReadMore ==
  /\ fanOut = "next" /\ next <= scanned
  /\ next' = next + 1
  /\ fanOut' \in IF "key" \in Faults THEN {"put", "bad"} ELSE {"put"}
  /\ UNCHANGED <<idx, scanned, workVars>>
FanOutRead ==
  /\ fanOut = "next" /\ next < scanned
  /\ next' = next + 1
  /\ fanOut' \in IF "key" \in Faults THEN {"put", "bad"} ELSE {"put"}
  /\ UNCHANGED <<idx, scanned, workVars>>
\* Mutant: a short read of the pipe is taken for its end.
FanOutEOFEarly ==
  /\ fanOut = "next" /\ next = scanned /\ idx \in {"write", "close", "done"}
  /\ fanOut' = "closed"
  /\ UNCHANGED <<idx, scanned, next, workVars>>
FanOutEOF ==
  /\ fanOut = "next" /\ next = scanned /\ idx = "done"
  /\ fanOut' = "closed"
  /\ UNCHANGED <<idx, scanned, next, workVars>>
FanOutPut ==
  /\ fanOut \in {"put", "bad"} /\ Cardinality(itemCh) < Concurrency
  /\ itemCh' = itemCh \cup {next}
  /\ worker' = [worker EXCEPT ![next] = IF fanOut = "bad" THEN "bad" ELSE "get"]
  /\ fanOut' = IF fanOut = "bad" THEN "closed" ELSE "next"
  /\ UNCHANGED <<idx, scanned, next>>
\* Mutant: the select does not return, as in the upload.
FanOutSkip ==
  /\ fanOut \in {"put", "bad"} /\ ChunksCtxDone
  /\ fanOut' = "next"
  /\ UNCHANGED <<idx, scanned, next, workVars>>
FanOutStop ==
  /\ fanOut \in {"put", "bad"} /\ ChunksCtxDone
  /\ fanOut' = "closed"
  /\ UNCHANGED <<idx, scanned, next, workVars>>

FanOut == /\ Started
          /\ FanOutScan \/ FanOutRead \/ FanOutEOF \/ FanOutPut \/ FanOutStop
          /\ UNCHANGED <<remoteVars, ctxVars, keys, fanInVars, untarVars, doneCh,
                         mainVars, panicked>>

-----------------------------------------------------------------------------
(* work: gets the chunk of one key; each of its sends is in a select with   *)
(* the context.                                                             *)
WorkerGoes(i, s) == worker' = [worker EXCEPT ![i] = s]

WorkerGet(i) ==
  /\ worker[i] = "get"
  /\ \/ keys[i] \in store /\ WorkerGoes(i, IF HasProgress THEN "progress" ELSE "ok")
     \/ /\ keys[i] \notin store \/ "chunk" \in Faults \/ ChunksCtxDone
        /\ WorkerGoes(i, "failed")
  /\ UNCHANGED panicked
WorkerProgress(i) ==
  /\ worker[i] = "progress"
  /\ \/ WorkerGoes(i, "ok") /\ UNCHANGED panicked
     \/ main = "closed" /\ panicked' = TRUE /\ UNCHANGED worker
WorkerGiveUp(i) ==
  /\ worker[i] \in {"ok", "failed"} /\ ChunksCtxDone
  /\ WorkerGoes(i, "done")
  /\ UNCHANGED panicked

Worker(i) ==
  /\ Started
  /\ WorkerGet(i) \/ WorkerProgress(i) \/ WorkerGiveUp(i)
  /\ UNCHANGED <<remoteVars, ctxVars, idxVars, fanOutVars, itemCh, fanInVars,
                 untarVars, doneCh, mainVars>>

-----------------------------------------------------------------------------
(* fan-in: chunks are written in the order of their keys.  A write returns  *)
(* when untar has read the chunk, or never.                                 *)
FanInItem ==
  /\ fanIn = "item"
  /\ \E i \in itemCh :
       /\ \A j \in itemCh : i <= j
       /\ itemCh' = itemCh \ {i} /\ cur' = i
       /\ fanIn' = IF worker[i] = "bad" THEN "report" ELSE "result"
  /\ UNCHANGED <<worker, doneCh>>
\* The closed channel yields a nil item, also when the context is done.
FanInEnd ==
  /\ fanIn = "item" /\ itemCh = {} /\ fanOut = "closed"
  /\ fanIn' = "done"
  /\ UNCHANGED <<workVars, cur, doneCh>>
\* Mutant: a worker sends its result before its progress.
FanInResultEarly ==
  /\ fanIn = "result"
  /\ \/ worker[cur] \in {"progress", "ok"} /\ fanIn' = "write" /\ UNCHANGED worker
     \/ worker[cur] = "failed" /\ fanIn' = "report" /\ WorkerGoes(cur, "done")
  /\ UNCHANGED <<itemCh, cur, doneCh>>
FanInResult ==
  /\ fanIn = "result"
  /\ \/ worker[cur] = "ok" /\ fanIn' = "write"
     \/ worker[cur] = "failed" /\ fanIn' = "report"
  /\ WorkerGoes(cur, "done")
  /\ UNCHANGED <<itemCh, cur, doneCh>>
FanInCancelled ==
  /\ fanIn \in {"item", "result"} /\ ctxDone
  /\ fanIn' = "report"
  /\ UNCHANGED <<workVars, cur, doneCh>>
\* Mutant: the pipe is closed before the error is sent.
FanInReportLate ==
  /\ fanIn = "report" /\ fanIn' = "done" /\ UNCHANGED <<workVars, cur, doneCh>>
FanInReport ==
  /\ fanIn = "report" /\ Send("err") /\ fanIn' = "close"
  /\ UNCHANGED <<workVars, cur>>
FanInClose ==
  /\ fanIn = "close" /\ fanIn' = "done"
  /\ UNCHANGED <<workVars, cur, doneCh>>

FanIn == /\ Started
         /\ \/ FanInItem \/ FanInEnd \/ FanInResult \/ FanInCancelled
            \/ FanInReport \/ FanInClose
         /\ UNCHANGED <<remoteVars, ctxVars, idxVars, fanOutVars, untarVars,
                        mainVars, panicked>>

-----------------------------------------------------------------------------
(* untar: untardir looks at the context between two files.  A stream that   *)
(* ends between two files is taken for a whole archive.                     *)
UntarCheck ==
  /\ untar = "check"
  /\ untar' = IF ctxDone THEN "failed" ELSE "read"
  /\ UNCHANGED <<fanIn, out, doneCh>>
UntarRead ==
  /\ untar = "read" /\ fanIn = "write"
  /\ out' = Append(out, keys[cur])
  /\ fanIn' = "item"
  /\ untar' \in {"check", "read"}
  /\ UNCHANGED doneCh
UntarEOF ==
  /\ untar = "read"
  /\ fanIn = "done" \/ Len(out) = N
  /\ untar' = IF Len(out) \in FileEnds THEN "ok" ELSE "failed"
  /\ UNCHANGED <<fanIn, out, doneCh>>
UntarFail ==
  /\ untar = "read" /\ "disk" \in Faults
  /\ untar' = "failed"
  /\ UNCHANGED <<fanIn, out, doneCh>>
\* Mutant: only an error is sent, as the other stages do.
UntarReportErrors ==
  /\ \/ untar = "ok" /\ UNCHANGED doneCh
     \/ untar = "failed" /\ Send("err")
  /\ untar' = "done"
  /\ UNCHANGED <<fanIn, out>>
UntarReport ==
  /\ \/ untar = "ok" /\ Send("nil")
     \/ untar = "failed" /\ Send("err")
  /\ untar' = "done"
  /\ UNCHANGED <<fanIn, out>>

Untar == /\ Started
         /\ UntarCheck \/ UntarRead \/ UntarEOF \/ UntarFail \/ UntarReport
         /\ UNCHANGED <<remoteVars, ctxVars, idxVars, fanOutVars, workVars, cur,
                        mainVars, panicked>>

-----------------------------------------------------------------------------
\* The caller of Download cancels the context it passed.
CallerCancel ==
  /\ "cancel" \in Faults /\ ~ctxDone
  /\ ctxDone' = TRUE /\ cancelled' = TRUE
  /\ UNCHANGED <<remoteVars, idxVars, fanOutVars, workVars, fanInVars, untarVars,
                 doneCh, mainVars, panicked>>

Next == \/ Environment \/ Main \/ Index \/ FanOut \/ (\E i \in Items : Worker(i))
        \/ FanIn \/ Untar \/ CallerCancel

Spec == Init /\ [][Next]_vars

(* Every goroutine that can take a step is eventually scheduled and every   *)
(* request is answered.  Nothing is assumed of the uploader.                *)
Fairness ==
  /\ WF_vars(Main) /\ WF_vars(Index) /\ WF_vars(FanOut)
  /\ \A i \in Items : WF_vars(Worker(i))
  /\ WF_vars(FanIn) /\ WF_vars(Untar)

FairSpec == Spec /\ Fairness

-----------------------------------------------------------------------------
\* Unless the caller cancels, Download returns nil only when all of the archive
\* is on disk, whatever fails and whenever the uploader publishes.
NilMeansDownloaded == ret = "nil" /\ ~cancelled => out = Archive

\* What is on disk is always a prefix of the archive, in its order, also after
\* a failure or a cancellation.
OutIsPrefix == Len(out) <= N /\ out = SubSeq(Archive, 1, Len(out))

\* A worker sends on the closed progress channel only after a download that
\* failed or was cancelled.
PanicMeansFailure == panicked => ret = "err" \/ cancelled

\* Once start waits for its stages it returns, whatever fails.
StartReturns == main = "wait" ~> (main = "closed" \/ panicked)

Ended == main \in {"closed", "failed"}

\* A download of a dataset whose upload has expired does not wait for ever.
ExpiredUploadEnds ==
  expired /\ status = "UPLOADING" ~> (Ended \/ panicked)

\* Download "downloads a dataset or fails": nil means that it is on disk.
NilMeansWhole == ret = "nil" => out = Archive
=============================================================================
