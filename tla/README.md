# A verification of nerd

`nerd` is the command line client of the Nerdalize cloud. Its core moves
datasets: it uploads a directory as content-addressed chunks to an object
store, downloads such a dataset again, and runs a worker that takes task runs
from a queue, downloads their input, runs a process and uploads its output. Around
that core are some thirty commands, which share a session file, and the tokens in
it, with every other process of the user. This directory holds TLA+ modules of those parts, TLC configurations that check
them on small instances, and TLAPS proofs of what matters most for every value
of the constants. Paths below are relative to the root of the repository;
`dt/` stands for `nerd/service/datatransfer/v1/`.

    tlc -config upload_safety.cfg MCUploadProcess.tla     # model checking
    tlapm UploadProcess_proofs.tla                        # proofs

## 1. The system

| component | state it keeps | operations | what it talks to |
|---|---|---|---|
| upload (`dt/upload.go`, `upload_process.go`, `pipe.go`) | six goroutines and one worker per chunk; four pipes, a channel of items, a channel of results, a context | `Upload`, `start`, `uploadChunks`, `uploadIndex`, `uploadMetadata`, `sendHeartbeat` | archive, object store, batch service, the reader of the progress channel |
| download (`dt/download.go`, `download_process.go`) | three stages and one worker per chunk; two pipes, two channels, a context | `Download`, `start`, `downloadChunks`, `downloadIndex` | archive, object store, batch service |
| archive (`dt/tar.go`) | files on disk | `tardir`, `untardir`, `safeFilePath`, `countBytes` | the stages of upload and download |
| object store client (`dt/client/`) | none | `Upload`, `Download`, `Exists` with retries; index and metadata objects | S3 through `nerd/aws/data_client.go` |
| worker (`nerd/service/working/v1/`) | the current run, its process, its output directory | `Start`, `startReceivingRuns`, `startRunExec`, `startRunExecHeartbeat` | batch client, upload, download |
| batch client (`nerd/client/batch/v1/`) | the JWT it has got last, under a mutex | `ReceiveTaskRuns`, heartbeats, results, datasets | batch service, queue |
| auth client (`nerd/client/auth/v1/`) | the access token it has got last | tokens by code, by refresh token; JWTs by project | auth service |
| credentials (`nerd/jwt/`, `nerd/oauth/`) | expiry of the last token | `Retrieve`, `IsExpired` of each provider | session, auth client |
| session (`nerd/conf/session.go`) | one JSON file | `Read`, `WriteJWT`, `WriteOAuth`, `WriteProject` | every process of the user |
| command line (`command/`, `main.go`) | flags; the output directories of a workload | one command each, a sequence of steps that ends in an exit code; login starts a local web server | all of the above |
| output (`command/format/`) | none | table, JSON and template output | the terminal |
| kubernetes service (`svc/`, `cmd/`) | resources in the cluster | `RunJob` | kubernetes API |
| version (`nerd/version.go`) | none | comparison of versions | the update check |
| aws adapter (`nerd/aws/`) | a session per client | put, get, head object; receive, delete message | S3, SQS |

How they interact. `Upload` builds the pipeline

    tardir | countBytes | uploadChunks | uploadIndex

out of goroutines connected by synchronous pipes, beside a heartbeat goroutine
that keeps the dataset alive at the batch service. `start` waits for one result
on `doneCh`, then for the byte count, stores the metadata object and sends
`SendUploadSuccess`. `Download` polls the batch service until the dataset is
`SUCCESS` and runs `downloadIndex | downloadChunks | untardir`. The two never
talk to each other: they meet in the object store and in the dataset's status.
The worker calls both, and the batch client and the worker share the queue: a
message is deleted before the run it carries is started. Every request of the
batch client asks `getJWT` for a token, which goes through a chain of providers:
the environment, the session file, and the auth service with the OAuth token of
the session, which `login` has put there. A command reads the project from the
same session, after `NERD_PROJECT` has been written to it.

What is hard here:

* Every stage of the two pipelines may fail at any moment, while the stages
  after it see no more than an early end of their stream. Whether a truncated
  dataset is ever taken for a whole one depends on the order of a send on
  `doneCh` and of a `Close` in the failing stage.
* A cancelled context makes several cases of a `select` ready at once, in
  several goroutines.
* A heartbeat that learns of an expiry races the end of the upload.
* Another client may download, or begin to download, at any moment.
* Requests are applied although their response is lost; the client may die
  between any two of them.
* The worker's receiver, its main loop and the heartbeats of earlier runs all
  move at once, and runs share one output directory.
* The session file is truncated and written again by every process, under a mutex
  that is per process.
* A refresh token is good for one exchange, several processes hold it, and what it
  was exchanged for must reach the session.
* A command may fail, be killed or lose an answer between any two of its steps,
  and undoes nothing; another terminal may change the session meanwhile.
* Logins share one port, one browser and one session.

## 2. Modules

| module | models | lines of code it stands for |
|---|---|---|
| `DatasetPublication` | the abstract specification of an upload, seen from the object store and the status of the dataset | the remote effects of `dt/upload_process.go` |
| `UploadProcess` | `start`, its goroutines and the defers of `Upload`, with `tardir`, `countBytes` and the remote side | `dt/upload_process.go`, `dt/upload.go:24-43`, `dt/tar.go`, `dt/client/client.go:36-51` |
| `DownloadProcess` | `Download`, `start` and its goroutines, with `untardir`, against any uploader that takes the steps of `DatasetPublication` | `dt/download.go`, `dt/download_process.go`, `dt/tar.go:95-139`, `dt/client/index.go:54-66` |
| `Transfer` | `UploadProcess` and `DownloadProcess` side by side, over the same object store and status | both of the above |
| `Worker` | `Start` and its goroutines: receiving, executing, uploading the output of and reporting runs | `nerd/service/working/v1/working.go`, `nerd/service/working/v1/utils.go`, `nerd/client/batch/v1/task.go:79-118` |
| `SessionRegisters` | the abstract specification of the session file: three registers, while no two processes overlap in a write | the interface of `nerd/conf/session.go` |
| `SessionFile` | `Session` with its mutex and its system calls, `createFile`, several processes that may die | `nerd/conf/session.go`, `command/command.go:188-240` |
| `Credentials` | `getJWT`, the chain of JWT providers, the OAuth provider and its refresh, `login` as seen from the session | `nerd/jwt/`, `nerd/oauth/`, `nerd/client/batch/v1/client.go`, `jwt_provider.go`, `nerd/client/auth/v1/` |
| `LoginFlow` | `login`: its local server, the browser, the code that comes back | `command/login.go` |
| `Commands` | every command as the sequence of the steps of its `DoRun`, over one session, the projects at the server, a cluster and a directory of outputs | `command/*.go`, `main.go`, `nerd/client/batch/v1/`, `svc/`, `cmd/job_run.go` |
| `MCUploadProcess`, `MCDownloadProcess`, `MCTransfer`, `MCSessionFile`, `MCCredentials`, `MCCommands` | the constants of the instances TLC checks | |
| `UploadProcess_proofs`, `DownloadProcess_proofs`, `Transfer_proofs`, `Worker_proofs`, `SessionFile_proofs`, `Credentials_proofs`, `LoginFlow_proofs`, `Commands_proofs` | theorems | |

`UploadProcess` is shown, by TLC and by proof, to implement `DatasetPublication`
(`Publishes`), and `DownloadProcess` is checked, and proved, against *any* uploader that
`DatasetPublication` allows (`Remote == INSTANCE DatasetPublication`). So safety
of the two programs together needs no product of their state spaces: what a
download may meet is what the abstract specification allows an upload to
do. `Transfer` composes the detailed modules. That its two halves behave as each
module says, and that what is downloaded is what was uploaded, is proved; that they
make progress together is model-checked, since the abstract uploader need not do
anything.
`Worker` takes an upload as one step; what it relies on, that `Upload` returns
nil only when the whole directory is in a dataset, is what `UploadProcess`
establishes (`NilMeansSuccess` with `SuccessMeansComplete`). In the same way
`Credentials` and `Commands` read or write a section of the session in one step,
which is what `SessionFile` implements (`ImplementsRegisters`) as long as the
writes of two processes do not overlap; `Commands` takes a transfer, the worker
and the exchange of a login as one step each, with any outcome.

### State and actions of the transfers

Each goroutine has a program counter (`tar`, `count`, `fanOut`, `worker[i]`,
`fanIn`, `idx`, `main`, `beat`, `untar`) and one action per step that another
goroutine, the remote side or a failure can come between. The action named after
the goroutine (`Tar`, `FanIn`, ...) is the disjunction of its steps and says what
they leave unchanged.

* A *pipe* is synchronous: a write is complete when the reader has read it. The
  write is a state of the writer (`tar = "write"`, `count = "tee"`,
  `fanIn = "write"`, `idx = "write"`), and the reader's action moves both. A
  writer whose reader is gone stays there, as in the code. Closing the write end
  is the writer's state `done` (`closed` for fan-out, which closes `itemCh`).
* Data goes through the pipes one *chunk* at a time. A stage that stops between
  two chunks may leave a partial one: `cut` is its number in an upload, and its
  hash is `TailKey`. In a download `FileEnds` says after which chunks the archive
  is between two files: only there an early end looks like the end of the archive
  to `tar.Reader`.
* `itemCh` is a FIFO channel of numbered items, so it is the set of the numbers
  in it and the reader takes the least. The same holds for the keys on the index
  pipe of an upload (`written`).
* `doneCh` is a sequence of `"nil"` and `"err"` with the capacity of the code; a
  send on the full channel blocks.
* A context is a boolean. The child context of the chunk stage is
  `UploadCtxDone`/`ChunksCtxDone`: its deferred cancel runs on every return. A
  request that is under way when its context ends may succeed or fail.
* The *remote side* is `store` (hashes of stored chunks), `objects`, `index`,
  `metaSize` or `size`, and `status`. Faults are per operation (`Faults`); a
  put or `SendUploadSuccess` that fails may have been applied. Chunks of other
  datasets may be stored from the start. A crash of the client is a behaviour
  that takes no further step, and safety holds of those too.
* The three attempts of `Client.Upload` for a chunk are one step, since they are
  idempotent and nothing comes between them that matters. The context check
  before the attempts is a step of its own for the index, where it decides
  between two outcomes.
* `status = "UPLOADING"` is set by the first heartbeat. An expired upload stays
  expired, yet its uploader may go on.
* In `Transfer` the download may start before, during or after the upload. Its
  variables have the prefix `dl`; `store`, `objects`, `status` and the index are
  those of the upload. Nothing fails in the download, and no upload expires.

### State and actions of the worker

* `recv` is the receiving goroutine and the request it is at (`poll`, `delete`,
  `beat`), `got` the run it holds; `offer` and `fail` are its sends on the
  unbuffered channel, which `Take` and `TakeError` complete.
* `main` is `Start` with `startRunExec`, `cur` the run it executes. `ended` are
  the runs whose own context was cancelled: by the deferred cancel at the end of
  `startRunExec`, by an expired heartbeat, or after `RemoveContents` failed.
* `beat[r]` is the heartbeat goroutine of a run. It reads the answer of the server
  (`BeatExpired`) and cancels (`BeatCancel`) in two steps, so it may be late: the
  next run may be under way by then.
* A file in the output directory is the run that wrote it: `outdir` is what is in
  the directory, `wrote` what was ever there, `output[r]` the contents of the
  dataset of `r`. `report[r]` are the results that the worker has tried to send; a
  failed send is logged and not repeated, as in the code.
* The server queues each run once and may let any run expire. Neither the
  redelivery of a message by the queue nor other workers are modelled.
* The command returns on a signal without waiting for `Start`
  (`command/workload_work.go`); the safety properties hold at every point at which
  the process may end, and the liveness properties are about `Start` itself.

### State and actions of the session

* `file` is the content of the session file: a document of three sections, or
  `Empty`, `Garbage` (parts of two documents) or `Absent`. Each system call is a
  step: the read, `os.Create`, which truncates, the write of the encoder. Two
  writes that overlap leave either document or garbage. A read of what is not a
  document fails (`ReadFails`), as `json.Unmarshal` does.
* `pc[t]` is where a goroutine is inside `Read` or one of the writes, `snap[t]` the
  document it has read. Its process holds the mutex exactly while some
  goroutine is not idle (`Locked`).
* `proc[p] = "made"` is a process between the exclusive creation of the file and
  the write of `{}`. `Exit` ends a process anywhere; what it was about to write is
  lost with it.
* `clean` is a history variable: it becomes false when a process reads what it is
  about to replace while another one replaces it, or when one is cut off. The file
  is three registers while it is true.

### State and actions of the credentials

* Time is `now`; a token is the tick at which it expires. The refresh token of a
  login is the number of exchanges it has seen, `gen` what the server has counted:
  the server takes only the last (`RefreshOAuthCredentials` answers 401 to others).
* `lock` is the mutex of the batch client. Between its `Lock` and its release
  the thread goes through the states of `Steps`, one for each provider, each
  request to the auth service and each write to the session.
* `cred` is the JWT `getJWT` keeps, `ocred` and `oexp` the access token of the auth
  client and the expiration its provider has been told; the code sets the two at
  different times, and so do the actions (`Refresh`, `WriteOAuth`).
* `lost` is a history variable: the server has exchanged a refresh token and the
  new one has reached no session, because an answer got lost, a write failed or
  the process ended. After that the user has to log in again; the code can do no
  better with a refresh token that is good for one exchange.
* `DefaultExpireWindow` is 20 as a `time.Duration`, which is 20 ns and no time.

### State and actions of the login

* `pc` is `DoRun`, `server` the goroutine of `spawnServer`, `port` who listens.
  `sends` are the responses that handlers offer on the unbuffered `doneCh`: more
  than one may be blocked there, and `DoRun` takes one of them. `tab` is the page
  in the browser; it goes to whoever has the port when it is loaded.
* The state that the page carries is the login it was opened for. Two random
  states of 32 letters are taken to differ.

### State and actions of the commands

* `Table` has one line per command: the steps of its `DoRun` in the order of the
  code. A step is an action that goes on or ends the command with what
  `HandleError` and `main` make of the error; `at` is the next step, `exit` how
  the command has ended.
* `applied` are the requests that the server has carried out, each with the
  project of its path, whether or not the answer came back. `jobs` are the jobs in
  the cluster, with who made them. `dirs`, `whole` and `visited` are the
  directories of `workload download`.
* `SetSession` is what parsing the flags does before any step: `NERD_PROJECT`
  goes into the session, and an error of that write is dropped. `moved` is a
  history variable: when this command reads the session, the project there need
  not be the one of its `NERD_PROJECT`.

## 3. Runs

| run | instance | shows |
|---|---|---|
| `upload_safety` | 3 chunks, 2 with the same hash, concurrency 1, every fault, 1 expiry; 6.5M states | `SuccessMeansComplete`, `NilMeansSuccess`, `StoredIndexIsPrefix`, `StoredIndexResolves`, `WorkersBounded`, `PanicMeansFailure`, no deadlock before `Upload` has returned |
| `upload_returns` | 2 chunks with the same hash, archive and puts that fail, cancellation, fairness | `StartReturns`, `Publishes` (refinement of `DatasetPublication`) |
| `transfer` | both clients, 4 chunks, concurrency 2, no fault, fairness; 18k states | `FaultFreeSucceeds`, `SuccessIsDownloaded`: neither pipeline jams |
| `download` | 3 chunks, 2 with the same hash, concurrency 1, any uploader, every fault, fairness; 162k states | `NilMeansDownloaded`, `OutIsPrefix`, `PanicMeansFailure`, `StartReturns`, `ExpiredUploadEnds` |
| `worker` | 2 runs, every fault, fairness; 124k states | `OneVerdict`, `NoOutputLost`, `OnlyExpiredKilled`, `RunAccounted`, `ExpiredRunEnds`, `TakenRunReported`, `StopsWithContext` |
| `session` | 2 threads of one process, 1 of another, 2 values, crashes; 680k states | `ReadsSucceed`, `ImplementsRegisters` (refinement of `SessionRegisters`) |
| `credentials` | 2 processes, one with a JWT in its environment, 2 logins, 2 ticks, 1 exchange; 2.8M states | `FreshToken`, `LoginKept` |
| `credentials_shared` | 2 threads of one process, fairness; 10k states | `OneRetrieves`, `RequestEnds` |
| `login` | 3 logins, fairness; 26k states | `OwnCode`, `LoginEnds` |
| `commands` | any command with `NERD_PROJECT`, beside one of five that change what it depends on; 2 projects, 2 outputs, 1 job name; 531k states | `ExitIsTrue`, `OneProject`, `OutputsKept` |
| `download_cancelled` | 2 chunks | finding: a cancelled download may return nil |
| `worker_deaf` | 1 run, failing receives, fairness | finding: a worker that cannot receive goes on |

Every passing run but `upload_returns`, `transfer` and `credentials_shared` also
checks the `TypeOK` of its module.

Bounds. Three chunks are the least with a chunk in the hand of fan-in, one in
the channel and one in the hand of fan-out at concurrency 1, so that every
blocking send really blocks and a dropped chunk can be followed by one that is
not; two hashes for three chunks make one chunk find its hash stored by another.
`transfer` takes four chunks with concurrency 2, where two workers finish in
either order while fan-out still has a chunk to hand out. Two chunks are enough
for the liveness of an upload under faults: one stage waits while the next one
works. `MaxExpiries` bounds how many heartbeats are answered with `HasExpired`;
the code has no bound, since the heartbeat goroutine may tick again before it
sees its context done. `FileEnds` holds one boundary inside the archive and
excludes another. In the worker the second run is the one that the late heartbeat
and the leftover files of the first can reach; a third would meet no more than
the second does.

The session has the three actors that differ: two goroutines under one mutex and a
process outside of it. Two values let a write be told from the one it overlaps. In
the credentials two processes are what it takes for one refresh token to be used
twice; `MaxTime` lets a token of one tick expire twice, and `MaxGen` lets each
login be exchanged once, with a second login to replace it. A third login on the
port is one that meets a server which is not its own and was not the first. In the
commands the first invocation is any line of the table and the second one of those
that change the session, the outputs or the jobs; the others do not meet, since
commands share nothing else.

Fairness. The `FairSpec` of a module is weak fairness of every goroutine: the Go
scheduler runs a goroutine that is not blocked, and requests carry timeouts, so
each is answered. No heartbeat of an upload has to expire (`BeatExpired` and
`BeatAlive` are outside of the fairness of `Beat`), the caller need not cancel,
and nothing is assumed of the uploader a download waits for. The reader of the
progress channel (`command/utils.go` `ProgressBar`) takes every value until the
channel is closed. In the worker the receiver, `Start` and the heartbeats are
fair; the process of a run need not write or exit, which is why `TakenRunReported`
does not promise that it does, and the server need not queue or expire anything.

In the credentials the steps of a provider are weakly fair, and the wait for the
mutex strongly: a `sync.Mutex` in starvation mode hands itself to the longest
waiter. That each request to the auth service is answered is an assumption:
`http.DefaultClient` has no timeout, and a server that never answers holds the
mutex for ever. In the login the steps of `DoRun` and of its server are fair; the
user follows the page that was opened and loads it again while no server is
there, as a browser that cannot connect offers. The session and the commands have
no liveness property and state no fairness.

Deadlock is checked in the upload, where `Finished` names the states in which
nothing more need happen, in the session, the credentials and the commands (`Over`
is their end). The other programs really stop: a download has returned
(sometimes with blocked goroutines), a transfer is complete, a worker's context
is done, all logins have ended. Their runs switch the check off, and
`StartReturns`, `SuccessIsDownloaded`, `StopsWithContext` and `LoginEnds` say what
must not stop before. `upload_returns` does so too: `upload_safety` has the check.

### Findings

* `download_cancelled` (`dt/download_process.go:132,141`): when the context is
  cancelled, fan-out returns and closes `itemCh`; the `select` of fan-in then has
  two ready cases, and if it takes the nil item `downloadChunks` returns nil, the
  pipe to `untardir` is closed without an error, and if that happens between two
  files `Download` returns nil with files missing. `NilMeansDownloaded` shows
  that a cancellation is the only way to this.
* `worker_deaf` (`nerd/service/working/v1/working.go:260`): after an error of the
  receiver, which has ended with it, the `break` leaves the `select` and not the
  loop. The worker stays up and never receives again.

### Known limits of the code

What follows was met while modelling and is part of the models, where it is
allowed; no run is kept for it.

* A writer to a pipe whose reader has gone stays blocked for ever after a
  cancellation: `tardir` when `countBytes` stops (`dt/tar.go:174`), fan-in and the
  index of a download when `untardir` does (`dt/download_process.go:159,179`).
  `TestUploadContext` misses it because its only file fits the writes under way.
* `Download` waits for a dataset that is still being uploaded, although its comment
  says that it fails; `dataset download` and `workload download` ask for the size
  first, which fails while there is no metadata object.
* Any error of the first heartbeat drops a run, not only an expiry, and its message
  has been deleted (`nerd/client/batch/v1/task.go:105-116`).
* When the output directory cannot be cleared the log says that the worker shuts
  down; the cancel that follows is that of the run, which is over
  (`nerd/service/working/v1/working.go:203`). Output of a failed run stays too
  (`:147`), and both end up in the dataset of the next run that succeeds.
* A first command that is cut off in `createFile`, or any command in `write`,
  leaves a session file that no later command can read.
* `DefaultExpireWindow` is said to be in seconds and is in nanoseconds
  (`nerd/jwt/provider.go:10-12`, `nerd/oauth/provider.go`): a token is used until
  the tick at which it expires, and may expire on the way to the server.
* A JWT in `NERD_JWT` alone does not let a command through, although
  `README.md:88-90` says so: `RequireProjectID` asks for an access token in the
  session first.
* `HandleError` looks for an `HTTPError` at the cause of an error, and the `Cause` of
  an `HTTPError` is nil: its messages for 404 and 422 do not appear.
* Concurrent logins: the second finds the port taken and ends with an error, and a
  page of it that reaches the server of the first ends the first as well.
* `task success` panics with exactly four arguments (`command/task_success.go:55`).
* A directory of `workload download` whose download failed is passed over by the
  next invocation, which may end with 0.

## 4. Proofs

All theorems hold for every value of the constants that satisfies the named
assumptions of the modules: at least one chunk, a concurrency of at least one,
`TailKey` not the hash of a whole chunk (no collisions), the begin and the end of
the archive between two files, any set of faults, any set of runs, processes,
threads or logins.

Liveness under fairness and `ENABLED` are out of the prover's reach. For the
main liveness properties the part that is not fairness is a theorem: that somebody can
always move (`Unjammed`, `MutexServed`, `Answered`), that it cannot go on for ever
(`Finite`, `ChainEnds`), and how it ends (`Faultless`, `ExactlyOnce`). What is left to
the runs is the step from there to "eventually".

`UploadProcess_proofs`: `TypeCorrect` (`TypeOK`), `Completeness`
(`SuccessMeansComplete`, the property the whole order of sends and closes is
there for), `HonestReturn` (`NilMeansSuccess`), `CalmSuccess`
(`PanicMeansFailure`), `StoredIndex` (`StoredIndexIsPrefix`) and `StoredKeys`
(`StoredIndexResolves`). The inductive invariant `IInv` has four parts beside the
types. `StreamInv` says how far each stage of the stream is ahead of the next.
`ChunkInv` says where a chunk that fan-out has passed on can be: in the channel,
with fan-in, or written, unless the context is done. `OrderInv` is the heart: as
long as no error is first in `doneCh`, no stage has closed its pipe early, so an
index that is about to be stored covers everything. `MainInv` carries that
through the steps of `start`: the first value of `doneCh` is nil only once the
index is stored, and only then metadata and success follow. `Completeness` alone
is not inductive because `SUCCESS` is sent several steps after the error could
have been lost. `FifoInv` and `PrefixInv` do the same for the stored index: the
channel keeps the order, and a hole can only appear once the context is done,
when `uploadIndex` refuses to make its request.

`Bounded` (`WorkersBounded`) counts the workers that live. `QueueInv` says that they
are all in the channel, which has as many places as the concurrency, or in the one
hand of fan-in, also after a cancellation.

`Refinement` is `Publishes`: each step of an upload is a step of
`DatasetPublication` or changes nothing that is remote. Beside `PrefixInv` it needs
`ObjectsInv`, which says which objects there are at each step of the index stage and
of `start`, also after a request that failed and was applied: the index is stored by
one put, and the metadata not before `start` has seen that it is.

`Unjammed` is that the goroutines of an upload never wait for each other: until
`Upload` has returned one of them can take a step, without the help of a
heartbeat or of the caller. `NoJam` spells out the guards of the actions, since
`ENABLED` cannot be proved about; TLC has compared the two on a small instance.
`ServedInv` is what it takes: while the context is not done, an item that is in the
channel or in the hand of fan-in has a worker that will answer, and the last stage
does not end without a result in `doneCh`. `Finite` gives each goroutine a rank; no
step lowers one (`Forward`), every step raises one, and `RanksBounded` bounds all
of them. `HandInv` (fan-in takes the items in their order) is what keeps the rank of
fan-in from falling. `Faultless` is that an upload in which nothing can fail returns
no error and does not panic, for every archive and concurrency, though its shutdown
cancels contexts and closes channels while goroutines are still there. `SmoothInv`
says that the context is done only after the last stage and `start`, that no result
but nil is ever in `doneCh`, and that every live worker has its item in the channel or
with fan-in. Together the three leave nothing of `StartReturns` and
`FaultFreeSucceeds` to TLC but the fairness.

`DownloadProcess_proofs`: `DownloadTyped` (`TypeOK`), `Downloaded`
(`NilMeansDownloaded`), `Prefix` (`OutIsPrefix`) and `CalmDownload`
(`PanicMeansFailure`). `RemoteInv` is what any uploader guarantees once the
status is `SUCCESS`; `KeysInv` and `ChanInv` follow the keys through the pipe and
the channel in their order; `OutInv` says that what is unpacked is what fan-in has
written. `OrderInv` is again the heart: as long as no error is first in `doneCh`
and the context is not done (`Calm`), a stream that ends early is preceded by its
error, so a nil can only mean that all keys were queued (`AllQueued`). The
condition on the context is needed: without it the property is false, which is
the finding `download_cancelled`. `DoneInv` bounds the results in `doneCh`.

`Unjammed`, `Finite` and `Faultless` are those of the upload. Here `ServedInv` has to
say as well that `untardir` has not begun before `start` is called, and that the
index is never being written beyond its end. `Finite` begins with `start`: until then
a dataset may be described any number of times, and the steps of the uploader do not
count. `Faultless` has one exception, the upload that has expired. All three hold
whatever the uploader does, also if it does nothing. `Readable`, about
the uploader alone (`Remote!Spec`), is that whoever sees `SUCCESS` can read the
archive.

`Transfer_proofs`: `TransferUploads` and `TransferDownloads`, that a transfer, seen
from either side, is an upload (`TransferSpec => Spec`) and a download
(`TransferSpec => Down!Spec`), for every archive, both concurrencies and any moment at
which the download starts. The second is where the modules meet: every step of the
real uploader is an `Environment` step of `DownloadProcess`, by the refinement
`Publishes`, and `SameArchive` shows that the constants satisfy what
`DownloadProcess` assumes of its own. `TransferDelivers` is the result for the two
programs together: whatever fails in the upload, and whenever the download starts,
a download in which nothing fails does not panic and ends with nothing but nil and the whole
archive the uploader was given. `TransferUnjammed` is `Unjammed` of both clients. They
follow from the theorems of `DownloadProcess_proofs`, which are instantiated as
`Proved`: the lemmas `SameInit` to `SameDownload` say that `Proved` and the `Down` of
`Transfer` are one specification, and `ProvedConstants` discharges the assumptions.
No upload of a transfer expires for its reader (`StaysUndisturbed`), which is the
abstraction of `Transfer`: an expired one ends the wait of the download with an error.

`Worker_proofs`: `WorkerTyped` (`TypeOK`), `Verdict` (`OneVerdict`), `OutputKept`
(`NoOutputLost`), `Accounted` (`RunAccounted`) and `KillsExpired`
(`OnlyExpiredKilled`). `OnceInv`: a run is queued once, so it is in
one place of the worker at a time, and has no result before the end of
`startRunExec`. `KillInv`: a heartbeat that is about to cancel belongs to a run
that has expired. `OutputInv`: the dataset of a run is empty until its upload, and
when the directory is about to be cleared that dataset has all that is in it.
`ExactlyOnce` is an action property: a run leaves `startRunExec` only with a report,
it is reported only there, and once it is reported it is not executed again. It is
`TakenRunReported` without the fairness, and says more: not twice.

`SessionFile_proofs`: `SessionTyped` (`TypeOK`), `CleanReads` (`ReadsSucceed`) and
`Refinement` (`ImplementsRegisters`): every step of the session file is a step of
the registers or none of them, for any number of processes and threads.
`MutexInv` is what the mutex gives: one thread of a process at a time. `CleanInv`,
which holds while `clean` does, says that at most one thread in all replaces the
file or one process makes it, and what the file is meanwhile: the document the
writer has read until the truncation, and empty from there to the write. The
refinement maps the registers to that document (`Document`), so that the
truncation is invisible and a write takes effect at its last system call.

`Credentials_proofs`: `CredentialsTyped` (`TypeOK`), `LoginUsable` (`LoginKept`),
`Fresh` (`FreshToken`) and `Exclusive` (`OneRetrieves`). `GenInv` orders the
refresh tokens: nobody has one the server has not issued, and a thread that is to
write one (`WriterInv`) has the last of its login, alone, while the session and
every thread that is still to refresh have an older one. `KeptInv` and `WriteInv` tie
the access token a client keeps to the expiration its provider was told, except
between an exchange and its write; without them `FreshToken` is not inductive.
`MutexServed` (with `HolderInv`) is that whoever waits for the mutex of its client
finds it free or held by a thread that is asking the providers, never by one that has
gone. `ChainEnds` is that such a thread goes down the chain, asks no provider
twice, and has given the mutex back when it leaves, on every error path as well. The
two are `RequestEnds` without the fairness.

`LoginFlow_proofs`: `LoginTyped` (`TypeOK`) and `OwnTokens` (`OwnCode`). `PageInv`
follows a code from the page through the handler and `doneCh` to `DoRun`: what
belongs to a login is of its own page, and is there only if the user has agreed.
`Answered` is `LoginEnds` without the fairness: a login that waits has a response
on its way, or its server is about to start, or it has the port and a page in the
browser. `ServerInv` is why no other login, by ending or by holding the port,
takes that from it.

`Commands_proofs`: `Typed` (`TypeOK`), `ExitCodesTrue` (`ExitIsTrue`), `ProjectKept`
(`OneProject`) and `OutputsApart` (`OutputsKept`), for any number of invocations,
projects, job names and outputs. What they need of the 29 commands is one lemma
about the table, `TableShape`: the session is read before the first request, only
`Check` and `CreateWorkload` come after one, `CreateWorkload` has `GetWorkerJWT`
before it, a job is made once, and nothing is read after `project set` has written.
`RequestInv` and `JobInv` tie what the server and the cluster have to the steps that
are behind an invocation, in both directions; `EnvInv` follows the project of
`NERD_PROJECT` from the session to the snapshot; `DirInv` adds to `OutputsKept`
that the invocation has not passed its directory over. `OneActs` says once what any
step does to the invocation that takes it (`Acts`), and each part of the invariant is
proved from that instead of from the fourteen actions.

Model-checked only: the liveness properties, `StartReturns` (twice),
`FaultFreeSucceeds`, `SuccessIsDownloaded`, `ExpiredUploadEnds`, `ExpiredRunEnds`,
`TakenRunReported`, `StopsWithContext`, `RequestEnds` and `LoginEnds`, for their fairness.
Every invariant, action property and refinement that a passing run checks is also a theorem.

## 5. What is not modelled

* The content of the archive: tar headers, paths and `safeFilePath`, chunking by
  content and hashing. Chunks are opaque, and two have the same hash exactly when
  the instance says so.
* `GetLocalDatasetSize` and `GetRemoteDatasetSize`: the first runs `tardir` and
  `countBytes` once more, without the rest of the pipeline, the second reads one
  object. A local count that fails is returned as a size of 0, which only the
  progress bar sees.
* The AWS adapter: one request of a library per function. Its answers are the
  nondeterminism of the modules that call it. Its credentials provider keeps state
  in that library only.
* Output formats, prompts, the progress bar, the log file: no state a later step
  depends on. The comparison of versions (`nerd/version.go`): three numbers and a
  message.
* OpenID and Kubernetes configuration (`cmd/`, `svc/`) beyond `job run`: the list of
  jobs is a stub, and the rest sets up a client.
* The server: it is the nondeterminism of the modules. Redelivery of messages,
  what becomes of a run that stops beating, and who else uses a project are not
  in this repository.
* Everything under `vendor/`.

What could come next: the redelivery of a message to a second worker; a server
that does not answer, against the mutex of `getJWT`; two uploads that share chunks.
