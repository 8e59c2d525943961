---------------------------- MODULE UploadProcess ----------------------------
(***************************************************************************)
(* The upload of one dataset: uploadProcess.start and the goroutines it    *)
(* spawns (nerd/service/datatransfer/v1/upload_process.go), with the       *)
(* stages of tar.go they run and the remote side they write to.            *)
(*                                                                         *)
(*      tar | count | chunks (fan-out, one worker per chunk, fan-in) | index*)
(*                                                                         *)
(* The archive is a stream of NChunks chunks; chunk i has the content hash *)
(* Key[i], and two chunks may share one.  A stage hands a chunk to the     *)
(* next over a synchronous io.Pipe.  A stream that ends early may end in a *)
(* partial chunk: "cut" is its number and TailKey its hash.                *)
(*                                                                         *)
(* itemCh is a FIFO channel whose items are numbered in the order they are *)
(* sent, so it is a set ordered by number; the same holds for the keys     *)
(* written to the index stream.                                            *)
(***************************************************************************)
EXTENDS Naturals, Sequences, FiniteSets

CONSTANTS
  NChunks,        \* number of chunks the archive of the directory is cut into
  Keys,           \* content hashes of whole chunks
  Key,            \* the hash of each chunk
  TailKey,        \* the hash of a partial last chunk
  Concurrency,    \* uploadProcess.concurrency
  HasProgress,    \* whether uploadProcess.progressCh is set
  MaxExpiries,    \* bound: heartbeats that may be answered with HasExpired
  Faults          \* what may go wrong in this instance

FaultKinds == {"tar", "exists", "put", "index", "meta", "success",
               "cancel", "expire"}

ASSUME ChunksAssumption == NChunks \in Nat \ {0}
ASSUME KeyAssumption == Key \in [1..NChunks -> Keys] /\ TailKey \notin Keys
ASSUME ConcurrencyAssumption == Concurrency \in Nat \ {0}
ASSUME ProgressAssumption == HasProgress \in BOOLEAN
ASSUME ExpiryAssumption == MaxExpiries \in Nat
ASSUME FaultsAssumption == Faults \subseteq FaultKinds

Chunks == 1..NChunks
DoneCap == 4      \* make(chan error, 4)

VARIABLES
  ctxDone,        \* the context of start is done
  tar,            \* the tar goroutine
  count,          \* the count goroutine
  counted,        \* chunks that went from tar to count
  countErr,       \* countBytes returned ctx.Err()
  fanOut,         \* the goroutine that reads chunks and starts workers
  next,           \* number of the last chunk fan-out has read
  cut,            \* number of the partial last chunk, 0 if there is none
  itemCh,         \* channel from fan-out to fan-in
  worker,         \* one goroutine for each chunk that was sent on itemCh
  fanIn,          \* uploadChunks, then the sends of its goroutine
  cur,            \* the item fan-in holds
  written,        \* chunks whose keys went down the index pipe
  idx,            \* the index goroutine
  doneCh,         \* results of the stages and of the heartbeat
  main,           \* start, then the rest of Upload
  ret,            \* what start returned
  panicked,       \* a worker sent on the closed progress channel
  beat,           \* the heartbeat goroutine
  expiries,       \* heartbeats answered with HasExpired
  store,          \* remote: hashes of the stored chunks
  objects,        \* remote: which of "index" and "metadata" are stored
  index,          \* remote: chunks the stored index lists
  metaSize,       \* remote: size in the stored metadata
  status          \* remote: the dataset's upload status

countVars  == <<count, counted, countErr>>
fanOutVars == <<fanOut, next, cut>>
workVars   == <<itemCh, worker>>
fanInVars  == <<fanIn, cur, written>>
mainVars   == <<main, ret>>
beatVars   == <<beat, expiries>>
remoteVars == <<store, objects, index, metaSize, status>>
vars == <<ctxDone, tar, countVars, fanOutVars, workVars, fanInVars, idx, doneCh,
          mainVars, panicked, beatVars, remoteVars>>

KeyOf(i) == IF i = cut THEN TailKey ELSE Key[i]

PipelineType ==
  /\ ctxDone \in BOOLEAN
  /\ tar \in {"walk", "write", "report", "close", "done"}
  /\ count \in {"check", "read", "tee", "done"}
  /\ counted \in 0..NChunks /\ countErr \in BOOLEAN
  /\ fanOut \in {"next", "put", "closed"}
  /\ next \in 0..NChunks /\ cut \in 0..NChunks
  /\ itemCh \in SUBSET Chunks
  /\ worker \in [Chunks -> {"none", "exists", "put", "progress", "ok",
                            "failed", "done"}]
  /\ fanIn \in {"item", "result", "report", "close", "done"}
  /\ cur \in 0..NChunks /\ written \in SUBSET Chunks
  /\ idx \in {"read", "check", "put", "stored", "failed", "done"}
ChannelType == doneCh \in Seq({"nil", "err"})
CallerType ==
  /\ main \in {"wait", "count", "meta", "metaput", "success", "returned",
               "closed"}
  /\ ret \in {"none", "nil", "err"}
  /\ panicked \in BOOLEAN
  /\ beat \in {"wait", "push", "cancel", "done"}
  /\ expiries \in 0..MaxExpiries
RemoteType ==
  /\ store \in SUBSET (Keys \cup {TailKey})
  /\ objects \in SUBSET {"index", "metadata"}
  /\ index \in SUBSET Chunks
  /\ metaSize \in 0..NChunks
  /\ status \in {"CREATED", "UPLOADING", "SUCCESS"}
TypeOK == PipelineType /\ ChannelType /\ CallerType /\ RemoteType

\* CreateDataset has answered; chunks of earlier datasets of the project may
\* already be stored.
Init ==
  /\ ctxDone = FALSE
  /\ tar = "walk"
  /\ count = "check" /\ counted = 0 /\ countErr = FALSE
  /\ fanOut = "next" /\ next = 0 /\ cut = 0
  /\ itemCh = {}
  /\ worker = [i \in Chunks |-> "none"]
  /\ fanIn = "item" /\ cur = 0 /\ written = {}
  /\ idx = "read"
  /\ doneCh = <<>>
  /\ main = "wait" /\ ret = "none"
  /\ panicked = FALSE
  /\ beat = "wait" /\ expiries = 0
  /\ store \in SUBSET Keys
  /\ objects = {} /\ index = {} /\ metaSize = 0
  /\ status = "CREATED"

\* A send on the buffered doneCh blocks while the buffer is full.
Send(v) == Len(doneCh) < DoneCap /\ doneCh' = Append(doneCh, v)

\* The child context of uploadChunks: its deferred cancel runs on every return.
UploadCtxDone == ctxDone \/ fanIn \in {"report", "close", "done"}

-----------------------------------------------------------------------------
(* The steps of each goroutine say what they change of the variables the    *)
(* goroutine may touch; its disjunction says that the rest is unchanged.    *)

(* tar: tardir checks the context between two files only.  A write to the   *)
(* pipe returns when the count stage has read it, or never.                 *)
\* Mutant: one chunk too many.
TarWriteMore == tar = "walk" /\ counted <= NChunks /\ tar' = "write"
TarWrite  == tar = "walk" /\ counted < NChunks /\ tar' = "write"
TarFail   == /\ tar = "walk" /\ counted < NChunks
             /\ ctxDone \/ "tar" \in Faults
             /\ tar' = "report"
\* Mutant: the error is logged and not sent.
TarSwallowsError == tar = "report" /\ tar' = "done" /\ UNCHANGED doneCh
TarReport == tar = "report" /\ Send("err") /\ tar' = "close"
TarEnd    == tar = "walk" /\ counted = NChunks /\ tar' = "done"
TarClose  == tar = "close" /\ tar' = "done"

Tar == /\ \/ TarReport
          \/ (TarWrite \/ TarFail \/ TarEnd \/ TarClose) /\ UNCHANGED doneCh
       /\ UNCHANGED <<ctxDone, countVars, fanOutVars, workVars, fanInVars, idx,
                      mainVars, panicked, beatVars, remoteVars>>

-----------------------------------------------------------------------------
(* count: countBytes over a TeeReader.  What it reads it writes to the      *)
(* chunks pipe before the read returns.  It never closes the end it reads.  *)
(* "done": its result is in countCh and the pipe it writes is closed.       *)
CountCheck ==
  /\ count = "check"
  /\ \/ ctxDone /\ count' = "done" /\ countErr' = TRUE
     \/ ~ctxDone /\ count' = "read" /\ UNCHANGED countErr
  /\ UNCHANGED <<tar, counted>>
CountRead ==
  /\ count = "read" /\ tar = "write"
  /\ counted' = counted + 1
  /\ tar' = "walk" /\ count' = "tee"
  /\ UNCHANGED countErr
CountEOF ==
  /\ count = "read" /\ tar = "done"
  /\ count' = "done"
  /\ UNCHANGED <<tar, counted, countErr>>

Count == /\ CountCheck \/ CountRead \/ CountEOF
         /\ UNCHANGED <<ctxDone, fanOutVars, workVars, fanInVars, idx, doneCh,
                        mainVars, panicked, beatVars, remoteVars>>

-----------------------------------------------------------------------------
(* fan-out: chunks are numbered as they are read.  Once the context is done *)
(* the select may drop the chunk in hand, and the loop goes on reading.     *)
FanOutRead ==
  /\ fanOut = "next" /\ count = "tee"
  /\ count' = "check"
  /\ next' = next + 1
  /\ fanOut' = "put"
  /\ UNCHANGED <<cut, workVars>>
\* The stream ended inside a chunk.
FanOutTail ==
  /\ fanOut = "next" /\ count = "done" /\ next < NChunks /\ cut = 0
  /\ next' = next + 1 /\ cut' = next + 1
  /\ fanOut' = "put"
  /\ UNCHANGED <<count, workVars>>
\* Mutant: the loop goes on at the end of the stream.
FanOutLoops == fanOut = "next" /\ count = "done"
               /\ UNCHANGED <<fanOut, count, next, cut, workVars>>
FanOutEOF ==
  /\ fanOut = "next" /\ count = "done"
  /\ fanOut' = "closed"
  /\ UNCHANGED <<count, next, cut, workVars>>
\* Mutant: an unbounded item channel.
FanOutPutUnbounded ==
  /\ fanOut = "put"
  /\ itemCh' = itemCh \cup {next}
  /\ worker' = [worker EXCEPT ![next] = "exists"]
  /\ fanOut' = "next"
  /\ UNCHANGED <<count, next, cut>>
FanOutPut ==
  /\ fanOut = "put" /\ Cardinality(itemCh) < Concurrency
  /\ itemCh' = itemCh \cup {next}
  /\ worker' = [worker EXCEPT ![next] = "exists"]
  /\ fanOut' = "next"
  /\ UNCHANGED <<count, next, cut>>
\* Mutant: a full channel drops the chunk.
FanOutSkipAlways ==
  /\ fanOut = "put"
  /\ fanOut' = "next"
  /\ UNCHANGED <<count, next, cut, workVars>>
FanOutSkip ==
  /\ fanOut = "put" /\ UploadCtxDone
  /\ fanOut' = "next"
  /\ UNCHANGED <<count, next, cut, workVars>>

FanOut == /\ FanOutRead \/ FanOutTail \/ FanOutEOF \/ FanOutPut \/ FanOutSkip
          /\ UNCHANGED <<ctxDone, tar, counted, countErr, fanInVars, idx, doneCh,
                         mainVars, panicked, beatVars, remoteVars>>

-----------------------------------------------------------------------------
(* work: a chunk is stored under its hash unless the hash is there already. *)
(* The three attempts of Client.Upload are one step: they are idempotent.   *)
WorkerGoes(i, s) == worker' = [worker EXCEPT ![i] = s]
Stored == IF HasProgress THEN "progress" ELSE "ok"

WorkerExists(i) ==
  /\ worker[i] = "exists"
  /\ \/ KeyOf(i) \in store /\ WorkerGoes(i, Stored)
     \/ KeyOf(i) \notin store /\ WorkerGoes(i, "put")
     \/ ("exists" \in Faults \/ UploadCtxDone) /\ WorkerGoes(i, "failed")
  /\ UNCHANGED <<store, panicked>>
\* Mutant: the result of a put is not looked at.
WorkerPutUnchecked(i) ==
  /\ worker[i] = "put"
  /\ store' \in {store, store \cup {KeyOf(i)}}
  /\ WorkerGoes(i, Stored)
  /\ UNCHANGED panicked
\* A put whose response is lost has stored the chunk and failed.
WorkerPut(i) ==
  /\ worker[i] = "put"
  /\ \/ store' = store \cup {KeyOf(i)} /\ WorkerGoes(i, Stored)
     \/ /\ "put" \in Faults \/ UploadCtxDone
        /\ store' \in {store, store \cup {KeyOf(i)}}
        /\ WorkerGoes(i, "failed")
  /\ UNCHANGED panicked
\* The reader of progressCh takes every value until Upload closes the channel.
\* A select that polls the send on the closed channel first panics.
WorkerProgress(i) ==
  /\ worker[i] = "progress"
  /\ \/ WorkerGoes(i, "ok") /\ UNCHANGED panicked
     \/ main = "closed" /\ panicked' = TRUE /\ UNCHANGED worker
  /\ UNCHANGED store
\* Only the error results are sent in a select with the context.
WorkerGiveUp(i) ==
  /\ worker[i] = "failed" /\ UploadCtxDone
  /\ WorkerGoes(i, "done")
  /\ UNCHANGED <<store, panicked>>

Worker(i) ==
  /\ WorkerExists(i) \/ WorkerPut(i) \/ WorkerProgress(i) \/ WorkerGiveUp(i)
  /\ UNCHANGED <<ctxDone, tar, countVars, fanOutVars, itemCh, fanInVars, idx,
                 doneCh, mainVars, beatVars, objects, index, metaSize, status>>

-----------------------------------------------------------------------------
(* fan-in: results are taken in the order of the chunks and their keys go   *)
(* down the index pipe, whose reader always reads.                          *)
FanInItem ==
  /\ fanIn = "item"
  /\ \E i \in itemCh : /\ \A j \in itemCh : i <= j
                       /\ itemCh' = itemCh \ {i} /\ cur' = i
  /\ fanIn' = "result"
  /\ UNCHANGED <<worker, written, doneCh>>
\* The closed channel yields a nil item.
FanInEnd ==
  /\ fanIn = "item" /\ itemCh = {} /\ fanOut = "closed"
  /\ fanIn' = "done"
  /\ UNCHANGED <<workVars, cur, written, doneCh>>
\* Mutant: a worker sends its result before its progress.
FanInResultEarly ==
  /\ fanIn = "result"
  /\ \/ /\ worker[cur] \in {"progress", "ok"}
        /\ written' = written \cup {cur}
        /\ fanIn' = "item"
        /\ UNCHANGED worker
     \/ /\ worker[cur] = "failed"
        /\ fanIn' = "report"
        /\ WorkerGoes(cur, "done") /\ UNCHANGED written
  /\ UNCHANGED <<itemCh, cur, doneCh>>
FanInResult ==
  /\ fanIn = "result"
  /\ \/ /\ worker[cur] = "ok"
        /\ written' = written \cup {cur}
        /\ fanIn' = "item"
     \/ /\ worker[cur] = "failed"
        /\ fanIn' = "report"
        /\ UNCHANGED written
  /\ WorkerGoes(cur, "done")
  /\ UNCHANGED <<itemCh, cur, doneCh>>
FanInCancelled ==
  /\ fanIn \in {"item", "result"} /\ ctxDone
  /\ fanIn' = "report"
  /\ UNCHANGED <<workVars, cur, written, doneCh>>
FanInReport ==
  /\ fanIn = "report" /\ Send("err") /\ fanIn' = "close"
  /\ UNCHANGED <<workVars, cur, written>>
FanInClose ==
  /\ fanIn = "close" /\ fanIn' = "done"
  /\ UNCHANGED <<workVars, cur, written, doneCh>>

FanIn ==
  /\ \/ FanInItem \/ FanInEnd \/ FanInResult \/ FanInCancelled
     \/ FanInReport \/ FanInClose
  /\ UNCHANGED <<ctxDone, tar, countVars, fanOutVars, idx, mainVars, panicked,
                 beatVars, remoteVars>>

-----------------------------------------------------------------------------
(* index: ReadAll ends when the chunks stage has closed its pipe, and       *)
(* Client.Upload looks at the context before it makes a request.            *)
StoreIndex == objects' = objects \cup {"index"} /\ index' = written

IndexRead ==
  /\ idx = "read" /\ fanIn = "done"
  /\ idx' = "check"
  /\ UNCHANGED <<doneCh, objects, index>>
\* Mutant: Client.Upload does not look at the context.
IndexCheckNoContext ==
  idx = "check" /\ idx' = "put" /\ UNCHANGED <<doneCh, objects, index>>
IndexCheck ==
  /\ idx = "check"
  /\ idx' = IF ctxDone THEN "failed" ELSE "put"
  /\ UNCHANGED <<doneCh, objects, index>>
IndexPut ==
  /\ idx = "put"
  /\ \/ StoreIndex /\ idx' = "stored"
     \/ /\ "index" \in Faults \/ ctxDone
        /\ StoreIndex \/ UNCHANGED <<objects, index>>
        /\ idx' = "failed"
  /\ UNCHANGED doneCh
\* Mutant: only an error is sent, as the other stages do.
IndexReportErrors ==
  /\ \/ idx = "stored" /\ UNCHANGED doneCh
     \/ idx = "failed" /\ Send("err")
  /\ idx' = "done"
  /\ UNCHANGED <<objects, index>>
IndexReport ==
  /\ \/ idx = "stored" /\ Send("nil")
     \/ idx = "failed" /\ Send("err")
  /\ idx' = "done"
  /\ UNCHANGED <<objects, index>>

Index == /\ IndexRead \/ IndexCheck \/ IndexPut \/ IndexReport
         /\ UNCHANGED <<ctxDone, tar, countVars, fanOutVars, workVars, fanInVars,
                        mainVars, panicked, beatVars, store, metaSize, status>>

-----------------------------------------------------------------------------
(* start after it has spawned the stages, then the defers of start (cancel) *)
(* and of Upload (close of the progress channel).                           *)
Return(r) == main' = "returned" /\ ret' = r /\ ctxDone' = TRUE
Goes(m) == main' = m /\ UNCHANGED <<ret, ctxDone>>

MainReceive ==
  /\ main = "wait" /\ doneCh # <<>>
  /\ doneCh' = Tail(doneCh)
  /\ \/ Head(doneCh) = "nil" /\ Goes("count")
     \/ Head(doneCh) = "err" /\ Return("err")
  /\ UNCHANGED <<objects, metaSize, status>>
\* On a count error start wraps the nil error of the stages, and returns nil.
MainCount ==
  /\ main = "count" /\ count = "done"
  /\ \/ countErr /\ Return("nil")
     \/ ~countErr /\ Goes("meta")
  /\ UNCHANGED <<doneCh, objects, metaSize, status>>
MainMetaCheck ==
  /\ main = "meta"
  /\ \/ ctxDone /\ Return("err")
     \/ ~ctxDone /\ Goes("metaput")
  /\ UNCHANGED <<doneCh, objects, metaSize, status>>
StoreMetadata == objects' = objects \cup {"metadata"} /\ metaSize' = counted
MainMetaPut ==
  /\ main = "metaput"
  /\ \/ StoreMetadata /\ Goes("success")
     \/ /\ "meta" \in Faults \/ ctxDone
        /\ StoreMetadata \/ UNCHANGED <<objects, metaSize>>
        /\ Return("err")
  /\ UNCHANGED <<doneCh, status>>
\* SendUploadSuccess carries no context; its response may be lost.
MainSuccess ==
  /\ main = "success"
  /\ \/ status' = "SUCCESS" /\ Return("nil")
     \/ /\ "success" \in Faults
        /\ status' \in {status, "SUCCESS"}
        /\ Return("err")
  /\ UNCHANGED <<doneCh, objects, metaSize>>
MainClose ==
  /\ main = "returned" /\ Goes("closed")
  /\ UNCHANGED <<doneCh, objects, metaSize, status>>

Main ==
  /\ \/ MainReceive \/ MainCount \/ MainMetaCheck \/ MainMetaPut
     \/ MainSuccess \/ MainClose
  /\ UNCHANGED <<tar, countVars, fanOutVars, workVars, fanInVars, idx, panicked,
                 beatVars, store, index>>

-----------------------------------------------------------------------------
(* sendHeartbeat: a failed heartbeat changes nothing.  After an expiry it   *)
(* sends, cancels, and loops: a tick that is ready too may win the select.  *)
BeatAlive ==
  /\ beat = "wait" /\ status = "CREATED"
  /\ status' = "UPLOADING"
  /\ UNCHANGED <<ctxDone, doneCh, beatVars>>
BeatExpired ==
  /\ beat = "wait" /\ "expire" \in Faults /\ expiries < MaxExpiries
  /\ beat' = "push" /\ expiries' = expiries + 1
  /\ UNCHANGED <<ctxDone, doneCh, status>>
BeatPush ==
  /\ beat = "push" /\ Send("err") /\ beat' = "cancel"
  /\ UNCHANGED <<ctxDone, expiries, status>>
BeatCancel ==
  /\ beat = "cancel" /\ ctxDone' = TRUE /\ beat' = "wait"
  /\ UNCHANGED <<doneCh, expiries, status>>
BeatStop ==
  /\ beat = "wait" /\ ctxDone /\ beat' = "done"
  /\ UNCHANGED <<ctxDone, doneCh, expiries, status>>

Beat == /\ BeatAlive \/ BeatExpired \/ BeatPush \/ BeatCancel \/ BeatStop
        /\ UNCHANGED <<tar, countVars, fanOutVars, workVars, fanInVars, idx,
                       mainVars, panicked, store, objects, index, metaSize>>

-----------------------------------------------------------------------------
(* The caller of Upload cancels the context it passed.                      *)
CallerCancel ==
  /\ "cancel" \in Faults /\ ~ctxDone
  /\ ctxDone' = TRUE
  /\ UNCHANGED <<tar, countVars, fanOutVars, workVars, fanInVars, idx, doneCh,
                 mainVars, panicked, beatVars, remoteVars>>

\* A panic in a goroutine ends the process.
Step == /\ ~panicked
        /\ \/ Tar \/ Count \/ FanOut \/ (\E i \in Chunks : Worker(i))
           \/ FanIn \/ Index \/ Main \/ Beat \/ CallerCancel

\* Upload has returned, or the process has crashed: nothing more need happen.
Finished == (main = "closed" \/ panicked) /\ UNCHANGED vars

Next == Step \/ Finished

Spec == Init /\ [][Next]_vars

(* Every goroutine that can take a step is eventually scheduled, and every  *)
(* request is eventually answered.  No heartbeat has to expire.             *)
Fairness ==
  /\ WF_vars(~panicked /\ Tar)
  /\ WF_vars(~panicked /\ Count)
  /\ WF_vars(~panicked /\ FanOut)
  /\ \A i \in Chunks : WF_vars(~panicked /\ Worker(i))
  /\ WF_vars(~panicked /\ FanIn)
  /\ WF_vars(~panicked /\ Index)
  /\ WF_vars(~panicked /\ Main)
  /\ WF_vars(~panicked /\ Beat /\ (BeatPush \/ BeatCancel \/ BeatStop))

FairSpec == Spec /\ Fairness

-----------------------------------------------------------------------------
\* The whole archive can be read back: the stored index lists every chunk, the
\* stored metadata has the full size, and the keys listed resolve.
Published ==
  /\ objects = {"index", "metadata"}
  /\ cut = 0 /\ index = Chunks /\ metaSize = NChunks
  /\ \A i \in Chunks : KeyOf(i) \in store

\* A dataset the server has marked SUCCESS is complete, whatever failed, was
\* cancelled or expired: an error of a stage reaches doneCh before the end of
\* the stream the failed stage fed reaches uploadIndex.
SuccessMeansComplete == status = "SUCCESS" => Published

\* start returns nil only for a dataset that was marked SUCCESS, although it
\* wraps a nil error when countBytes failed.
NilMeansSuccess == ret = "nil" => status = "SUCCESS"

\* An index object is never stored with a hole in it, although fan-out drops
\* chunks once the context is done and fan-in may still take the later ones.
StoredIndexIsPrefix == \A i \in index : 1..i \subseteq index

\* Every key a stored index lists is the key of a stored chunk, also when the
\* upload fails and the index covers part of the archive.
StoredIndexResolves == \A i \in index : KeyOf(i) \in store

\* No more than concurrency chunks wait in the channel and one is with fan-in:
\* the memory of the upload is bounded, also while it is being cancelled.
WorkersBounded ==
  Cardinality({i \in Chunks : worker[i] \notin {"none", "done"}})
    <= Concurrency + 1

\* A worker sends on the closed progress channel only after a failed upload:
\* when start returns nil no worker is still at its progress send.
PanicMeansFailure == panicked => ret = "err"

\* The upload publishes the dataset as DatasetPublication says: seen from the
\* object store and the server, all its failures are stops between two steps.
Publication == INSTANCE DatasetPublication WITH
  Archive <- Key,
  Hashes <- Keys,
  TailHash <- TailKey,
  index <- [i \in 1..Cardinality(index) |-> KeyOf(i)],
  size <- metaSize
Publishes == Publication!Spec

\* start always returns, whatever fails: no stage waits for ever for another
\* one that start waits for.
StartReturns == <>(main = "closed")

\* When nothing fails the upload succeeds: the pipeline does not jam.
FaultFreeSucceeds == Faults = {} => <>(ret = "nil")
=============================================================================
