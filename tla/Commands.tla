------------------------------ MODULE Commands ------------------------------
(***************************************************************************)
(* The command line (command/*.go, main.go): several invocations of nerd   *)
(* by one user, in terminals that share the session file and the projects  *)
(* on the server; and `nerd job run' (cmd/, svc/), whose server is a       *)
(* Kubernetes cluster.                                                     *)
(*                                                                         *)
(* A command is the sequence of the steps of its DoRun.  Each step may     *)
(* fail and then ends the command; nothing is undone.  What a transfer or  *)
(* the worker does inside its step is in the modules of those.             *)
(***************************************************************************)
EXTENDS Naturals, Sequences

CONSTANTS
  Runs,           \* invocations of nerd
  Names,          \* of each invocation, the commands it may be
  Projects,       \* the user's projects
  NoProject,      \* no project is selected
  JobNames,       \* what --name of `job run' may be
  NoName,         \* --name is not given
  EnvProject,     \* NERD_PROJECT of each invocation, NoProject when it is not set
  Outputs         \* the tasks of a workload that have an output

ASSUME ProjectAssumption == NoProject \notin Projects
ASSUME NameAssumption == NoName \notin JobNames
ASSUME EnvAssumption == EnvProject \in [Runs -> Projects \cup {NoProject}]

-----------------------------------------------------------------------------
(* The requests of the batch client (nerd/client/batch/v1/) and of the auth *)
(* client: the method, and the collection it is about.                      *)
Get(what)    == [do |-> "GET", what |-> what]
Post(what)   == [do |-> "POST", what |-> what]
Delete(what) == [do |-> "DELETE", what |-> what]

StartTask        == Post("task")
StopTask         == Delete("task")
ListTasks        == Get("task")
\* Mutant: with the method of another request.
DescribeTaskPost == Post("describe")
DescribeTask     == Get("task")
SendRunHeartbeat == Post("heartbeat")
SendRunSuccess   == Post("success")
SendRunFailure   == Post("failure")
CreateWorkload   == Post("workload")
StopWorkload     == Delete("workload")
ListWorkloads    == Get("workload")
DescribeWorkload == Get("workload")
WorkerLogs       == Get("logs")
ListDatasets     == Get("dataset")
CreateSecret     == Post("secret")
CreatePullSecret == Post("secret")
DeleteSecret     == Delete("secret")
ListSecrets      == Get("secret")
DescribeSecret   == Get("secret")
PlaceProject     == Post("placement")
ExpelProject     == Delete("placement")
GetWorkerJWT     == Post("workerjwt")
ListProjects     == Get("project")

(* The other steps of a DoRun.                                              *)
Step(do)     == [do |-> do, what |-> "-"]
Args         == Step("args")      \* len(args) is compared with a number
Check        == Step("check")     \* an argument, a path, the config, NewDataClient
Client       == Step("check")     \* NewClient: the public key and the endpoints
Read         == Step("read")      \* session.Read
Project      == Step("project")   \* ss.RequireProjectID
WriteProject == Step("write")     \* session.WriteProject
Authorize    == Step("authorize") \* the browser, and the exchange of the code
WriteOAuth   == Step("oauth")     \* session.WriteOAuth
Transfer     == Step("transfer")  \* Upload or Download
Work         == Step("work")      \* worker.Start until a signal, ReceiveTaskRuns
Pair         == Step("pair")      \* <key>=<value>, or the help
Index5       == Step("index5")    \* args[4] of at least four arguments
Download     == Step("download")  \* the outputs of a workload
Create       == Step("create")    \* createResource

InProject == <<Client, Read, Project>>
\* What the auth client asks for, with the OAuth token instead of a JWT.
OAuthRequests == {ListProjects, GetWorkerJWT}
\* The requests that change something.
Requests ==
  {StartTask, StopTask, SendRunHeartbeat, SendRunSuccess, SendRunFailure,
   CreateWorkload, StopWorkload, CreateSecret, DeleteSecret, PlaceProject,
   ExpelProject, GetWorkerJWT}

TaskCreate       == <<Args, Client, Check, Read, Project, StartTask>>
TaskDescribe     == <<Args, Client, Check, Read, Project, DescribeTask, Check>>
TaskFailure      == <<Args, Client, Check, Read, Project, SendRunFailure>>
TaskHeartbeat    == <<Args, Client, Check, Read, Project, SendRunHeartbeat>>
TaskList         == <<Args>> \o InProject \o <<ListTasks>>
TaskReceive      == <<Args>> \o InProject \o <<Check, Work>>
TaskStop         == <<Args, Client, Check, Read, Project, StopTask>>
TaskSuccess      == <<Args, Client, Check, Read, Project, Index5, SendRunSuccess>>
WorkloadStart    == <<Args, Check, Read, Project, GetWorkerJWT, Client, Check,
                      CreateWorkload>>
WorkloadStop     == <<Args>> \o InProject \o <<StopWorkload>>
WorkloadList     == InProject \o <<ListWorkloads>>
WorkloadDescribe == <<Args>> \o InProject \o <<DescribeWorkload>>
WorkloadDownload == <<Args, Check>> \o InProject \o <<Check, ListTasks, Download>>
WorkloadWork     == <<Args, Check>> \o InProject \o <<Check, Work>>
WorkerLogsCmd    == <<Args>> \o InProject \o <<WorkerLogs>>
DatasetUpload    == <<Args, Check>> \o InProject \o <<Check, Transfer>>
DatasetDownload  == <<Args, Check>> \o InProject \o <<Check, Transfer>>
DatasetList      == InProject \o <<ListDatasets>>
ProjectPlace     == <<Args>> \o InProject \o <<PlaceProject>>
ProjectExpel     == InProject \o <<ExpelProject>>
ProjectSet       == <<Args, Check, ListProjects, Check, WriteProject>>
ProjectList      == <<Check, ListProjects, Read>>
SecretCreate     == <<Args>> \o InProject \o <<Pair, CreateSecret>>
SecretCreatePull == <<Args>> \o InProject \o <<CreatePullSecret>>
SecretDelete     == <<Args>> \o InProject \o <<DeleteSecret>>
SecretDescribe   == <<Args>> \o InProject \o <<DescribeSecret>>
SecretList       == InProject \o <<ListSecrets>>
Login            == <<Check, Authorize, WriteOAuth>>
JobRun           == <<Check, Check, Create>>
Table == [
  TaskCreate |-> TaskCreate, TaskDescribe |-> TaskDescribe,
  TaskFailure |-> TaskFailure, TaskHeartbeat |-> TaskHeartbeat,
  TaskList |-> TaskList, TaskReceive |-> TaskReceive, TaskStop |-> TaskStop,
  TaskSuccess |-> TaskSuccess, WorkloadStart |-> WorkloadStart,
  WorkloadStop |-> WorkloadStop, WorkloadList |-> WorkloadList,
  WorkloadDescribe |-> WorkloadDescribe, WorkloadDownload |-> WorkloadDownload,
  WorkloadWork |-> WorkloadWork, WorkerLogs |-> WorkerLogsCmd,
  DatasetUpload |-> DatasetUpload, DatasetDownload |-> DatasetDownload,
  DatasetList |-> DatasetList, ProjectPlace |-> ProjectPlace,
  ProjectExpel |-> ProjectExpel, ProjectSet |-> ProjectSet,
  ProjectList |-> ProjectList, SecretCreate |-> SecretCreate,
  SecretCreatePull |-> SecretCreatePull, SecretDelete |-> SecretDelete,
  SecretDescribe |-> SecretDescribe, SecretList |-> SecretList,
  Login |-> Login, JobRun |-> JobRun]

ASSUME TableAssumption == \A r \in Runs : Names[r] \subseteq DOMAIN Table

-----------------------------------------------------------------------------
VARIABLES
  session,        \* the session file: whether there is an OAuth token; the project
  cmd,            \* what each invocation runs, or "none" before it starts
  at,             \* the step it is at
  snap,           \* the session it has read
  exit,           \* how it ended
  applied,        \* remote: the requests that changed something
  jobs,           \* remote: the jobs in the cluster, with who made them
  dirs,           \* the directories of the outputs: who fills or has filled each
  whole,          \* the outputs whose dataset has arrived
  visited,        \* the outputs each invocation is past
  moved           \* the project is not the one of NERD_PROJECT when it is read

dirVars == <<dirs, whole, visited>>
vars == <<session, cmd, at, snap, exit, applied, jobs, dirVars, moved>>

Exits == {"running", "ok", "usage", "help", "err", "unset", "noproject",
          "panic", "exists", "deadline", "killed"}
AnyProject == Projects \cup {NoProject}
Sessions == [oauth : BOOLEAN, project : AnyProject]

TypeOK ==
  /\ session \in Sessions
  /\ cmd \in [Runs -> (UNION {Names[r] : r \in Runs}) \cup {"none"}]
  /\ at \in [Runs -> Nat \ {0}]
  /\ snap \in [Runs -> Sessions]
  /\ exit \in [Runs -> Exits]
  /\ applied \subseteq [run : Runs, request : Requests, project : AnyProject]
  /\ jobs \subseteq (JobNames \cup {NoName}) \X Runs
  /\ dirs \in [Outputs -> SUBSET Runs] /\ whole \subseteq Outputs
  /\ visited \in [Runs -> SUBSET Outputs]
  /\ moved \in [Runs -> BOOLEAN]

Init ==
  /\ session \in Sessions
  /\ cmd = [r \in Runs |-> "none"]
  /\ at = [r \in Runs |-> 1]
  /\ snap = [r \in Runs |-> [oauth |-> FALSE, project |-> NoProject]]
  /\ exit = [r \in Runs |-> "running"]
  /\ applied = {} /\ jobs = {}
  /\ dirs = [k \in Outputs |-> {}] /\ whole = {}
  /\ visited = [r \in Runs |-> {}]
  /\ moved = [r \in Runs |-> FALSE]

Steps(r) == Table[cmd[r]]
Running(r) == cmd[r] # "none" /\ exit[r] = "running"
At(r, do) == Running(r) /\ at[r] <= Len(Steps(r)) /\ Steps(r)[at[r]].do = do
GoesOn(r) == at' = [at EXCEPT ![r] = at[r] + 1] /\ UNCHANGED exit
Ends(r, how) == exit' = [exit EXCEPT ![r] = how] /\ UNCHANGED at

\* The invocations that will still read the project.
WillRead(r) == Running(r) /\ \E i \in at[r]..Len(Steps(r)) : Steps(r)[i] = Read
\* r writes the project p.
SelectProject(r, p) ==
  /\ session' = [session EXCEPT !.project = p]
  /\ moved' = [q \in Runs |-> moved[q] \/ (q # r /\ WillRead(q))]

-----------------------------------------------------------------------------
\* NERD_PROJECT replaces the project; the error of WriteProject is not looked at.
SetSession(r) ==
  IF EnvProject[r] = NoProject THEN UNCHANGED <<session, moved>>
  ELSE \/ SelectProject(r, EnvProject[r])
       \/ moved' = [moved EXCEPT ![r] = TRUE] /\ UNCHANGED session
\* Run parses the flags, which calls setConfig and setSession.  `job run' has its
\* own Run and no session.
Start(r) ==
  /\ cmd[r] = "none"
  /\ \E c \in Names[r] :
       /\ cmd' = [cmd EXCEPT ![r] = c]
       /\ IF c = "JobRun" THEN UNCHANGED <<session, moved>> ELSE SetSession(r)
  /\ UNCHANGED <<at, snap, exit, applied, jobs, dirVars>>
\* A flag is wrong, or the config cannot be read: the flags before it have had
\* their effect.
BadFlags(r) ==
  /\ cmd[r] = "none"
  /\ \E c \in Names[r], how \in {"usage", "err"} :
       /\ cmd' = [cmd EXCEPT ![r] = c]
       /\ Ends(r, how)
       /\ \/ UNCHANGED <<session, moved>>
          \/ c # "JobRun" /\ SetSession(r)
  /\ UNCHANGED <<snap, applied, jobs, dirVars>>
\* DoRun has returned nil.
Finish(r) ==
  /\ Running(r) /\ at[r] > Len(Steps(r))
  /\ Ends(r, "ok")
  /\ UNCHANGED <<session, cmd, snap, applied, jobs, dirVars, moved>>

CheckArgs(r) ==
  /\ At(r, "args") /\ (GoesOn(r) \/ Ends(r, "help"))
  /\ UNCHANGED <<session, cmd, snap, applied, jobs, dirVars, moved>>
\* What depends on the arguments, the local files or the config alone; an upload,
\* a download and a worker run as their own modules say.
CheckInput(r) ==
  /\ \/ At(r, "check") /\ (GoesOn(r) \/ Ends(r, "err"))
     \/ At(r, "pair") /\ (GoesOn(r) \/ Ends(r, "err") \/ Ends(r, "help"))
     \/ At(r, "index5") /\ (GoesOn(r) \/ Ends(r, "panic"))
     \/ At(r, "transfer") /\ (GoesOn(r) \/ Ends(r, "err"))
     \/ At(r, "work") /\ (GoesOn(r) \/ Ends(r, "err"))
     \/ At(r, "authorize") /\ (GoesOn(r) \/ Ends(r, "err"))
  /\ UNCHANGED <<session, cmd, snap, applied, jobs, dirVars, moved>>

ReadSession(r) ==
  /\ At(r, "read")
  /\ \/ snap' = [snap EXCEPT ![r] = session] /\ GoesOn(r)
     \/ Ends(r, "err") /\ UNCHANGED snap
  /\ UNCHANGED <<session, cmd, applied, jobs, dirVars, moved>>
RequireProjectID(r) ==
  /\ At(r, "project")
  /\ IF ~snap[r].oauth THEN Ends(r, "unset")
     ELSE IF snap[r].project = NoProject THEN Ends(r, "noproject")
     ELSE GoesOn(r)
  /\ UNCHANGED <<session, cmd, snap, applied, jobs, dirVars, moved>>

\* Mutant: the project is read from the session once more.
AppliesAgain(r) ==
  applied' = applied \cup
    {[run |-> r, request |-> Steps(r)[at[r]], project |-> session.project]}
\* What a request that was carried out leaves at the server.
Applies(r) ==
  applied' = applied \cup
    {[run |-> r, request |-> Steps(r)[at[r]], project |-> snap[r].project]}

Method(r, do) ==
  At(r, do) /\ (Steps(r)[at[r]] \in OAuthRequests => session.oauth)
\* A GET, answered or not.
Fetch(r) ==
  /\ Method(r, "GET") /\ (GoesOn(r) \/ Ends(r, "err"))
  /\ UNCHANGED <<session, cmd, snap, applied, jobs, dirVars, moved>>
\* Mutant: the error is logged, not returned.
ChangeLogs(r) ==
  /\ Method(r, "POST") \/ Method(r, "DELETE")
  /\ \/ Applies(r) /\ (GoesOn(r) \/ Ends(r, "err"))
     \/ GoesOn(r) /\ UNCHANGED applied
  /\ UNCHANGED <<session, cmd, snap, jobs, dirVars, moved>>
\* A request is carried out, and the answer may be lost; or it is not.
Change(r) ==
  /\ Method(r, "POST") \/ Method(r, "DELETE")
  /\ \/ Applies(r) /\ (GoesOn(r) \/ Ends(r, "err"))
     \/ Ends(r, "err") /\ UNCHANGED applied
  /\ UNCHANGED <<session, cmd, snap, jobs, dirVars, moved>>
\* The OAuth token of the session is asked for and is not there.
TokenUnset(r) ==
  /\ \E do \in {"GET", "POST"} : At(r, do)
  /\ Steps(r)[at[r]] \in OAuthRequests /\ ~session.oauth
  /\ Ends(r, "unset")
  /\ UNCHANGED <<session, cmd, snap, applied, jobs, dirVars, moved>>

\* project set, login: the last step, which fails when the file cannot be written.
WriteSession(r) ==
  /\ \/ At(r, "write") /\ \E p \in Projects : SelectProject(r, p) /\ GoesOn(r)
     \/ /\ At(r, "oauth") /\ GoesOn(r)
        /\ session' = [session EXCEPT !.oauth = TRUE] /\ UNCHANGED moved
     \/ /\ At(r, "write") \/ At(r, "oauth")
        /\ Ends(r, "err") /\ UNCHANGED <<session, moved>>
  /\ UNCHANGED <<cmd, snap, applied, jobs, dirVars>>

\* A name that is given is taken by at most one job; else the cluster makes one up.
Taken(name) == name # NoName /\ \E q \in Runs : <<name, q>> \in jobs
\* RunJob and createResource: the deadline or another error may pass before or
\* after the cluster has the job.
Submit(r) ==
  /\ At(r, "create")
  /\ \E name \in JobNames \cup {NoName} :
       \/ ~Taken(name) /\ jobs' = jobs \cup {<<name, r>>}
            /\ (GoesOn(r) \/ Ends(r, "deadline") \/ Ends(r, "err"))
       \/ Taken(name) /\ Ends(r, "exists") /\ UNCHANGED jobs
       \/ UNCHANGED jobs /\ (Ends(r, "deadline") \/ Ends(r, "err"))
  /\ UNCHANGED <<session, cmd, snap, applied, dirVars, moved>>

\* Mutant: a directory that is there is used, as by MkdirAll.
EnterAny(r, k) ==
  /\ dirs' = [dirs EXCEPT ![k] = @ \cup {r}]
  /\ UNCHANGED visited
\* os.Mkdir of the directory of an output: one that is there is passed over.
Enter(r, k) ==
  \/ dirs[k] = {} /\ dirs' = [dirs EXCEPT ![k] = {r}] /\ UNCHANGED visited
  \/ dirs[k] # {} /\ visited' = [visited EXCEPT ![r] = @ \cup {k}] /\ UNCHANGED dirs
\* The loop of workload download.  A download that fails leaves its directory.
DownloadOutputs(r) ==
  LET filling == {k \in Outputs \ visited[r] : r \in dirs[k]} IN
  /\ At(r, "download")
  /\ \/ \E k \in filling : /\ whole' = whole \cup {k}
                          /\ visited' = [visited EXCEPT ![r] = @ \cup {k}]
                          /\ UNCHANGED <<at, exit, dirs>>
     \/ /\ filling = {}
        /\ \E k \in Outputs \ visited[r] : Enter(r, k)
        /\ UNCHANGED <<at, exit, whole>>
     \/ Ends(r, "err") /\ UNCHANGED dirVars
     \/ visited[r] = Outputs /\ GoesOn(r) /\ UNCHANGED dirVars
  /\ UNCHANGED <<session, cmd, snap, applied, jobs, moved>>

\* The process is killed; nothing is undone.
Killed(r) ==
  /\ Running(r) /\ Ends(r, "killed")
  /\ UNCHANGED <<session, cmd, snap, applied, jobs, dirVars, moved>>

\* Everything has ended; nothing follows.
Over ==
  /\ \A r \in Runs : cmd[r] # "none" /\ exit[r] # "running"
  /\ UNCHANGED vars

Next ==
  \/ \E r \in Runs :
       \/ Start(r) \/ BadFlags(r) \/ Finish(r) \/ CheckArgs(r) \/ CheckInput(r)
       \/ ReadSession(r) \/ RequireProjectID(r) \/ Fetch(r) \/ Change(r)
       \/ TokenUnset(r) \/ WriteSession(r) \/ Submit(r)
       \/ DownloadOutputs(r) \/ Killed(r)
  \/ Over

Spec == Init /\ [][Next]_vars

-----------------------------------------------------------------------------
Done(r) == {a.request : a \in {b \in applied : b.run = r}}

\* What the exit code says has happened, whatever was lost on the way: a command
\* ends with 0 only if each of its requests has been carried out, and with an
\* error of its arguments or of the session only if none has; `job run' claims
\* a job only if it has made one, and a name as taken only by someone else's.  A
\* workload is never there without the token its workers are to use.
ExitIsTrue ==
  \A r \in Runs : cmd[r] # "none" =>
    /\ exit[r] = "ok" =>
         \A i \in DOMAIN Steps(r) : Steps(r)[i] \in Requests => Steps(r)[i] \in Done(r)
    /\ exit[r] \in {"usage", "unset", "noproject", "help"} => Done(r) = {}
    /\ exit[r] = "ok" /\ cmd[r] = "JobRun" =>
         \E n \in JobNames \cup {NoName} : <<n, r>> \in jobs
    /\ exit[r] = "exists" =>
         \E n \in JobNames, q \in Runs : q # r /\ <<n, q>> \in jobs
    /\ CreateWorkload \in Done(r) => GetWorkerJWT \in Done(r)

\* `project set' or NERD_PROJECT of another terminal never splits a command over
\* two projects: its requests are all in the project of its snapshot, which is
\* that of its NERD_PROJECT unless it could not be written or was replaced before
\* the command read it.
OneProject ==
  \A a \in applied :
    /\ \A b \in applied : a.run = b.run => a.project = b.project
    /\ EnvProject[a.run] # NoProject /\ ~moved[a.run] =>
         a.project = EnvProject[a.run]

\* The outputs two invocations download to one place do not mix, and a directory
\* that is not whole is of an invocation that is at it or has not ended with 0.
\* (Another invocation may end with 0 and have passed it over.)
OutputsKept ==
  \A k \in Outputs :
    /\ \A q, r \in dirs[k] : q = r
    /\ k \notin whole => \A r \in dirs[k] : exit[r] \in {"running", "err", "killed"}
=============================================================================
