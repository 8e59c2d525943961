-------------------------------- MODULE Worker --------------------------------
(***************************************************************************)
(* The worker of a workload (nerd/service/working/v1/working.go): one      *)
(* goroutine receives runs from the queue (ReceiveTaskRuns of              *)
(* nerd/client/batch/v1/task.go) and hands them over an unbuffered         *)
(* channel; Start executes one at a time, uploads what it leaves in the    *)
(* output directory and reports the result; one goroutine for each run     *)
(* sends its heartbeats and kills its process when it has expired.         *)
(*                                                                         *)
(* A file in the output directory is named by the run that wrote it.       *)
(* datatransfer's Upload is the step UploadProcess justifies: it returns   *)
(* nil only when all of the directory is in a dataset.                     *)
(***************************************************************************)
EXTENDS Naturals, FiniteSets

CONSTANTS
  Runs,           \* runs of the workload's tasks, by their tokens
  NoRun,
  HasUpload,      \* whether Worker.uploadConf is set
  Faults          \* what may go wrong in this instance

FaultKinds == {"receive", "decode", "delete", "heartbeat", "nocommand", "start",
               "exit", "upload", "readdir", "clear", "expire", "cancel"}

ASSUME WorkerRunsAssumption == NoRun \notin Runs
ASSUME WorkerUploadAssumption == HasUpload \in BOOLEAN
ASSUME WorkerFaultsAssumption == Faults \subseteq FaultKinds

VARIABLES
  queue,          \* server: runs with a message in the queue
  issued,         \* server: runs that were ever queued
  expired,        \* server: runs whose heartbeats are answered with HasExpired
  ctxDone,        \* the context of Start is done
  recv,           \* the receiving goroutine
  got,            \* the run it holds
  dropped,        \* runs it did not consider after their first heartbeat
  main,           \* Start and startRunExec
  cur,            \* the run that is executed
  ended,          \* runs whose own context was cancelled
  beat,           \* the heartbeat goroutine of each run
  outdir,         \* runs with files in the output directory
  wrote,          \* runs that wrote files
  output,         \* what the output dataset of each run contains
  unclear,        \* RemoveContents has failed
  report          \* results sent for each run

serverVars == <<queue, issued, expired>>
recvVars   == <<recv, got, dropped>>
mainVars   == <<main, cur, ended>>
dirVars    == <<outdir, wrote, output, unclear>>
vars == <<serverVars, ctxDone, recvVars, mainVars, beat, dirVars, report>>

TypeOK ==
  /\ queue \subseteq issued /\ issued \subseteq Runs /\ expired \subseteq issued
  /\ ctxDone \in BOOLEAN
  /\ recv \in {"check", "poll", "delete", "beat", "offer", "fail", "done"}
  /\ got \in Runs \cup {NoRun} /\ dropped \subseteq Runs
  /\ main \in {"select", "exec", "wait", "output", "upload", "clear", "success",
               "failure", "stopped"}
  /\ cur \in Runs \cup {NoRun} /\ (main \notin {"select", "stopped"} => cur \in Runs)
  /\ ended \subseteq Runs
  /\ beat \in [Runs -> {"none", "wait", "cancel", "done"}]
  /\ outdir \subseteq wrote /\ wrote \subseteq Runs
  /\ output \in [Runs -> SUBSET Runs]
  /\ unclear \in BOOLEAN
  /\ report \in [Runs -> SUBSET {"success", "failure"}]

Init ==
  /\ queue = {} /\ issued = {} /\ expired = {}
  /\ ctxDone = FALSE
  /\ recv = "check" /\ got = NoRun /\ dropped = {}
  /\ main = "select" /\ cur = NoRun /\ ended = {}
  /\ beat = [r \in Runs |-> "none"]
  /\ outdir = {} /\ wrote = {} /\ output = [r \in Runs |-> {}]
  /\ unclear = FALSE
  /\ report = [r \in Runs |-> {}]

\* The context startRunExec makes for a run.
RunCtxDone(r) == ctxDone \/ r \in ended

-----------------------------------------------------------------------------
(* The server queues a run once, and may give up on it at any time after.   *)
Enqueue(r) ==
  /\ r \notin issued
  /\ queue' = queue \cup {r} /\ issued' = issued \cup {r}
  /\ UNCHANGED expired
Expire(r) ==
  /\ "expire" \in Faults /\ r \in issued \ expired
  /\ expired' = expired \cup {r}
  /\ UNCHANGED <<queue, issued>>

Server == /\ \E r \in Runs : Enqueue(r) \/ Expire(r)
          /\ UNCHANGED <<ctxDone, recvVars, mainVars, beat, dirVars, report>>

-----------------------------------------------------------------------------
(* startReceivingRuns and ReceiveTaskRuns: only the start of the loop looks *)
(* at the context.  After an error the goroutine ends.                      *)
ReceiveCheck ==
  /\ recv = "check"
  /\ \/ ctxDone /\ recv' = "done"
     \/ ~ctxDone /\ recv' = "poll"
     \/ ~ctxDone /\ "receive" \in Faults /\ recv' = "fail"
  /\ UNCHANGED <<queue, got, dropped>>
\* The long poll may time out.
ReceivePoll ==
  /\ recv = "poll"
  /\ \/ \E r \in queue : got' = r /\ recv' = "delete"
     \/ recv' = "check" /\ UNCHANGED got
     \/ "receive" \in Faults /\ recv' = "fail" /\ UNCHANGED got
  /\ UNCHANGED <<queue, dropped>>
\* Mutant: a delete that fails is logged, and the next message received.
ReceiveDeletePolls ==
  /\ recv = "delete"
  /\ \/ queue' = queue \ {got} /\ recv' = "beat"
     \/ "decode" \in Faults /\ recv' = "fail" /\ UNCHANGED queue
     \/ "delete" \in Faults /\ recv' = "poll" /\ queue' \in {queue, queue \ {got}}
  /\ UNCHANGED <<got, dropped>>
\* A delete that fails may have deleted the message.
ReceiveDelete ==
  /\ recv = "delete"
  /\ \/ queue' = queue \ {got} /\ recv' = "beat"
     \/ "decode" \in Faults /\ recv' = "fail" /\ UNCHANGED queue
     \/ "delete" \in Faults /\ recv' = "fail" /\ queue' \in {queue, queue \ {got}}
  /\ UNCHANGED <<got, dropped>>
\* A run whose first heartbeat fails is dropped as if it had expired.
ReceiveBeat ==
  /\ recv = "beat"
  /\ \/ got \notin expired /\ recv' = "offer" /\ UNCHANGED dropped
     \/ /\ got \in expired \/ "heartbeat" \in Faults
        /\ recv' = "poll" /\ dropped' = dropped \cup {got}
  /\ UNCHANGED <<queue, got>>

Receiver ==
  /\ ReceiveCheck \/ ReceivePoll \/ ReceiveDelete \/ ReceiveBeat
  /\ UNCHANGED <<issued, expired, ctxDone, mainVars, beat, dirVars, report>>

-----------------------------------------------------------------------------
(* Start: a select of the next run or error and the end of the context.     *)
Take ==
  /\ main = "select" /\ recv = "offer"
  /\ recv' = "check"
  /\ cur' = got
  /\ \/ main' = "exec" /\ UNCHANGED ended
     \/ "nocommand" \in Faults /\ main' = "select" /\ ended' = ended \cup {got}
  /\ UNCHANGED <<beat, dirVars, report>>
\* Mutant: the error is logged and its nil run executed.
TakeErrorRuns ==
  /\ main = "select" /\ recv = "fail"
  /\ recv' = "done" /\ cur' = NoRun /\ main' = "exec"
  /\ UNCHANGED <<ended, beat, dirVars, report>>
\* The break leaves the select only: the loop goes on.
TakeError ==
  /\ main = "select" /\ recv = "fail"
  /\ recv' = "done"
  /\ UNCHANGED <<mainVars, beat, dirVars, report>>
Stop ==
  /\ main = "select" /\ ctxDone /\ main' = "stopped"
  /\ UNCHANGED <<recv, cur, ended, beat, dirVars, report>>

(* startRunExec *)
ExecStart ==
  /\ main = "exec"
  /\ \/ /\ ~RunCtxDone(cur)
        /\ main' = "wait" /\ beat' = [beat EXCEPT ![cur] = "wait"]
     \/ /\ RunCtxDone(cur) \/ "start" \in Faults
        /\ main' = "failure" /\ UNCHANGED beat
  /\ UNCHANGED <<recv, cur, ended, dirVars, report>>
ProcessWrites ==
  /\ main = "wait" /\ HasUpload /\ cur \notin wrote
  /\ outdir' = outdir \cup {cur} /\ wrote' = wrote \cup {cur}
  /\ UNCHANGED <<recv, mainVars, beat, output, unclear, report>>
ProcessExits ==
  /\ main = "wait"
  /\ \/ main' = "output"
     \/ "exit" \in Faults /\ main' = "failure"
  /\ UNCHANGED <<recv, cur, ended, beat, dirVars, report>>
\* Mutant: the context of the run is not made from the one of Start.
ProcessKilledByExpiry ==
  /\ main = "wait" /\ cur \in ended /\ main' = "failure"
  /\ UNCHANGED <<recv, cur, ended, beat, dirVars, report>>
\* exec.CommandContext kills the process when the run's context is done.
ProcessKilled ==
  /\ main = "wait" /\ RunCtxDone(cur) /\ main' = "failure"
  /\ UNCHANGED <<recv, cur, ended, beat, dirVars, report>>
\* An error of IsEmptyDir skips the upload.
Output ==
  /\ main = "output"
  /\ \/ HasUpload /\ outdir # {} /\ main' = "upload"
     \/ /\ ~HasUpload \/ outdir = {} \/ "readdir" \in Faults
        /\ main' = "success"
  /\ UNCHANGED <<recv, cur, ended, beat, dirVars, report>>
\* Mutant: the directory is cleared whether or not it was uploaded.
UploadClears ==
  /\ main = "upload"
  /\ \/ /\ output' = [output EXCEPT ![cur] = outdir]
        /\ main' = "clear" /\ UNCHANGED outdir
     \/ /\ "upload" \in Faults \/ RunCtxDone(cur)
        /\ outdir' = {}
        /\ main' = "failure" /\ UNCHANGED output
  /\ UNCHANGED <<recv, cur, ended, beat, wrote, unclear, report>>
Upload ==
  /\ main = "upload"
  /\ \/ output' = [output EXCEPT ![cur] = outdir] /\ main' = "clear"
     \/ /\ "upload" \in Faults \/ RunCtxDone(cur)
        /\ main' = "failure" /\ UNCHANGED output
  /\ UNCHANGED <<recv, cur, ended, beat, outdir, wrote, unclear, report>>
\* RemoveContents may stop half way.  The cancel that is to shut down the
\* worker is the one of the run's own context.
Clear ==
  /\ main = "clear" /\ main' = "success"
  /\ \/ outdir' = {} /\ UNCHANGED <<ended, unclear>>
     \/ /\ "clear" \in Faults
        /\ outdir' \in SUBSET outdir /\ unclear' = TRUE
        /\ ended' = ended \cup {cur}
  /\ UNCHANGED <<recv, cur, beat, wrote, output, report>>
\* The deferred cancel ends the context of the run.
Reports(v) ==
  /\ report' = [report EXCEPT ![cur] = @ \cup {v}]
  /\ ended' = ended \cup {cur}
  /\ UNCHANGED <<recv, cur, beat, dirVars>>
ReportSuccess == main = "success" /\ main' = "select" /\ Reports("success")
\* Mutant: no return after the failure of an upload is sent.
ReportFailureGoesOn ==
  /\ main = "failure" /\ Reports("failure")
  /\ main' = IF outdir # {} THEN "success" ELSE "select"
\* Mutant: the failure is not reported once the context is done.
ReportFailureQuits ==
  /\ main = "failure" /\ Reports("failure") /\ main' = "select" /\ ~ctxDone
ReportFailure == main = "failure" /\ main' = "select" /\ Reports("failure")

Main == /\ \/ Take \/ TakeError \/ Stop \/ ExecStart \/ ProcessKilled
           \/ Output \/ Upload \/ Clear \/ ReportSuccess \/ ReportFailure
        /\ UNCHANGED <<serverVars, ctxDone, got, dropped>>
Process == /\ ProcessWrites \/ ProcessExits
           /\ UNCHANGED <<serverVars, ctxDone, got, dropped>>

-----------------------------------------------------------------------------
(* startRunExecHeartbeat: a tick that is ready may win against the context, *)
(* and a failed heartbeat changes nothing.                                  *)
BeatExpired(r) ==
  /\ beat[r] = "wait" /\ r \in expired
  /\ beat' = [beat EXCEPT ![r] = "cancel"]
  /\ UNCHANGED ended
\* Mutant: the goroutine cancels the run that is executed.
BeatCancelCurrent(r) ==
  /\ beat[r] = "cancel"
  /\ ended' = ended \cup {cur}
  /\ beat' = [beat EXCEPT ![r] = "wait"]
\* Mutant: the expiry is only logged.
BeatCancelNot(r) ==
  /\ beat[r] = "cancel"
  /\ beat' = [beat EXCEPT ![r] = "wait"] /\ UNCHANGED ended
BeatCancel(r) ==
  /\ beat[r] = "cancel"
  /\ ended' = ended \cup {r}
  /\ beat' = [beat EXCEPT ![r] = "wait"]
BeatStop(r) ==
  /\ beat[r] = "wait" /\ RunCtxDone(r)
  /\ beat' = [beat EXCEPT ![r] = "done"]
  /\ UNCHANGED ended

Beat(r) == /\ BeatExpired(r) \/ BeatCancel(r) \/ BeatStop(r)
           /\ UNCHANGED <<serverVars, ctxDone, recvVars, main, cur, dirVars,
                          report>>

-----------------------------------------------------------------------------
\* workload work cancels the context when it gets a signal.
CallerCancel ==
  /\ "cancel" \in Faults /\ ~ctxDone /\ ctxDone' = TRUE
  /\ UNCHANGED <<serverVars, recvVars, mainVars, beat, dirVars, report>>

Next == \/ Server \/ Receiver \/ Main \/ Process \/ CallerCancel
        \/ \E r \in Runs : Beat(r)

Spec == Init /\ [][Next]_vars

(* Every goroutine that can take a step is eventually scheduled and every   *)
(* request and upload ends.  A process need not write or exit by itself.    *)
Fairness == WF_vars(Receiver) /\ WF_vars(Main) /\ \A r \in Runs : WF_vars(Beat(r))

FairSpec == Spec /\ Fairness

-----------------------------------------------------------------------------
Executing(r) == cur = r /\ main \notin {"select", "stopped"}

\* No run is reported both as a success and as a failure, although an output
\* that cannot be uploaded turns the one into the other.
OneVerdict == \A r \in Runs : report[r] # {"success", "failure"}

\* What a run wrote is in the output directory until it is in a dataset: it is
\* never cleared away before.
NoOutputLost ==
  ~unclear => \A r \in wrote : r \in outdir \/ \E q \in Runs : r \in output[q]

\* The process of a run is killed and the upload of its output broken off only
\* when that run has itself expired or the worker is stopped: the late heartbeat
\* of an earlier run never ends the next one.
OnlyExpiredKilled ==
  main \in {"exec", "wait", "output", "upload", "clear"} /\ cur \in ended =>
    cur \in expired

\* The process of a run that has expired is ended.
ExpiredRunEnds ==
  \A r \in Runs : r \in expired /\ Executing(r) ~> ~Executing(r)

\* A run that is offered is taken, unless the worker is being stopped or a process
\* does not end; and one that was taken is reported once its process has ended,
\* also when the worker is being stopped.
TakenRunReported ==
  \A r \in Runs :
    /\ recv = "offer" /\ got = r ~> recv # "offer" \/ ctxDone \/ main = "wait"
    /\ Executing(r) /\ main # "wait" ~>
         report[r] # {} \/ (cur = r /\ main = "wait")

\* Start "stops when context ctx ends", whatever it is doing.
StopsWithContext == ctxDone ~> main = "stopped"

\* "We fail the worker at this point": a worker that cannot receive stops.
ReceiveErrorFails == recv = "fail" ~> main = "stopped"

\* Every run the server has queued is still in the queue, in the hands of the
\* receiver, executed, or one the worker is finished with: nothing that fails
\* between the long poll, the delete, the first heartbeat and the hand-over to
\* Start loses a run without a trace.
RunAccounted ==
  \A r \in issued :
    \/ r \in queue \/ r \in dropped \/ r \in ended
    \/ got = r /\ recv \notin {"check", "poll"}
    \/ Executing(r)
=============================================================================
