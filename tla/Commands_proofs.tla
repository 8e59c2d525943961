-------------------------- MODULE Commands_proofs --------------------------
(* Proofs about Commands: what an exit code says, which project the requests *)
(* of a command go to, and whose the directories of outputs are, for any     *)
(* number of invocations, projects, jobs and outputs.                        *)
EXTENDS Commands, TLAPS

-----------------------------------------------------------------------------
(* The table of commands.                                                    *)

IsRequest(s) == s.do \in {"POST", "DELETE"}
\* Steps that neither ask for a change nor read the session.
Plain(s) == /\ ~IsRequest(s) /\ s.do \notin {"read", "create", "write"}
            /\ s # CreateWorkload

\* What the properties need of a command: the session is read before the first
\* request, and little comes after one; a workload is made with a token that is
\* there; a job is made once; the project is written when the session has been
\* read, or is not.
Shape(S) ==
  /\ Len(S) \in Nat /\ DOMAIN S = 1..Len(S)
  /\ \A i \in 1..Len(S) :
       /\ IsRequest(S[i]) =>
            /\ S[i] \in Requests
            /\ \E j \in 1..i-1 : S[j] = Read
            /\ \A j \in i+1..Len(S) : S[j] \in {Check, CreateWorkload}
       /\ S[i].do = "read" => S[i] = Read
       /\ S[i].do = "create" => \A j \in i+1..Len(S) : S[j].do # "create"
       /\ S[i].do = "write" => \A j \in i+1..Len(S) : S[j] # Read
       /\ S[i] = CreateWorkload => \E j \in 1..i-1 : S[j] = GetWorkerJWT

\* The steps that are plain.
LEMMA PlainSteps ==
  /\ Plain(Args) /\ Plain(Check) /\ Plain(Client) /\ Plain(Project) /\ Plain(Pair)
  /\ Plain(Index5) /\ Plain(Authorize) /\ Plain(WriteOAuth)
  /\ Plain(Transfer) /\ Plain(Work) /\ Plain(Download)
  /\ Plain(ListTasks) /\ Plain(DescribeTask) /\ Plain(ListWorkloads)
  /\ Plain(DescribeWorkload) /\ Plain(WorkerLogs) /\ Plain(ListDatasets)
  /\ Plain(ListSecrets) /\ Plain(DescribeSecret) /\ Plain(ListProjects)
BY DEF Plain, IsRequest, Args, Check, Client, Project, Pair, Index5, Authorize,
   WriteOAuth, Transfer, Work, Download, ListTasks, DescribeTask, ListWorkloads,
   DescribeWorkload, WorkerLogs, ListDatasets, ListSecrets, DescribeSecret,
   ListProjects, Step, CreateWorkload, Post, Get
\* The steps that are not, but are no request either.
LEMMA OtherSteps ==
  /\ Read.do = "read" /\ ~IsRequest(Read) /\ Read # CreateWorkload
  /\ Create.do = "create" /\ ~IsRequest(Create) /\ Create # CreateWorkload
  /\ WriteProject.do = "write" /\ ~IsRequest(WriteProject)
  /\ WriteProject # CreateWorkload
  /\ Check.do = "check" /\ Client = Check
BY DEF Read, Create, WriteProject, IsRequest, Step, CreateWorkload, Post, Check,
   Client
\* The requests.
LEMMA RequestSteps ==
  /\ \A s \in Requests : IsRequest(s) /\ s.do \notin {"create", "read", "write"}
  /\ CreateWorkload \in Requests /\ CreateWorkload \notin OAuthRequests
  /\ \A s \in {StartTask, StopTask, SendRunHeartbeat, SendRunSuccess,
               SendRunFailure, GetWorkerJWT, StopWorkload, CreateSecret,
               CreatePullSecret, DeleteSecret, PlaceProject, ExpelProject} :
       s \in Requests /\ s # CreateWorkload
BY DEF IsRequest, Requests, OAuthRequests, Get, Post, Delete, StartTask, StopTask,
   SendRunHeartbeat, SendRunSuccess, SendRunFailure, CreateWorkload, StopWorkload,
   CreateSecret, CreatePullSecret, DeleteSecret, PlaceProject, ExpelProject,
   GetWorkerJWT, ListProjects

\* Every command has this shape.
LEMMA TableShape == \A c \in DOMAIN Table : Shape(Table[c])
<1> USE PlainSteps, OtherSteps, RequestSteps DEF Shape, Plain, InProject
<1>1. Shape(TaskCreate)
  BY DEF TaskCreate
<1>2. Shape(TaskDescribe)
  BY DEF TaskDescribe
<1>3. Shape(TaskFailure)
  BY DEF TaskFailure
<1>4. Shape(TaskHeartbeat)
  BY DEF TaskHeartbeat
<1>5. Shape(TaskList)
  BY DEF TaskList
<1>6. Shape(TaskReceive)
  BY DEF TaskReceive
<1>7. Shape(TaskStop)
  BY DEF TaskStop
<1>8. Shape(TaskSuccess)
  BY DEF TaskSuccess
<1>9. Shape(WorkloadStart)
  <2> DEFINE S == WorkloadStart
  <2>1. /\ Len(S) = 8 /\ S[1] = Args /\ S[2] = Check /\ S[3] = Read
        /\ S[4] = Project /\ S[5] = GetWorkerJWT /\ S[6] = Check /\ S[7] = Check
        /\ S[8] = CreateWorkload
    BY DEF WorkloadStart
  <2>2. \A i \in 1..Len(S) : i \in {1, 2, 3, 4, 5, 6, 7, 8}
    BY <2>1
  <2> HIDE DEF S
  <2>3. \A i \in 1..Len(S) : IsRequest(S[i]) => i \in {5, 8}
    BY <2>1, <2>2
  <2>4. \A i \in 1..Len(S) : S[i].do # "create" /\ S[i].do # "write"
    BY <2>1, <2>2
  <2>5. \A i \in 1..Len(S) : S[i].do = "read" \/ S[i] = CreateWorkload => i \in {3, 8}
    BY <2>1, <2>2
  <2>6. Shape(S)
    BY <2>1, <2>2, <2>3, <2>4, <2>5
  <2>7. QED BY <2>6 DEF S
<1>10. Shape(WorkloadStop)
  BY DEF WorkloadStop
<1>11. Shape(WorkloadList)
  BY DEF WorkloadList
<1>12. Shape(WorkloadDescribe)
  BY DEF WorkloadDescribe
<1>13. Shape(WorkloadDownload)
  BY DEF WorkloadDownload
<1>14. Shape(WorkloadWork)
  BY DEF WorkloadWork
<1>15. Shape(WorkerLogsCmd)
  BY DEF WorkerLogsCmd
<1>16. Shape(DatasetUpload)
  BY DEF DatasetUpload
<1>17. Shape(DatasetDownload)
  BY DEF DatasetDownload
<1>18. Shape(DatasetList)
  BY DEF DatasetList
<1>19. Shape(ProjectPlace)
  BY DEF ProjectPlace
<1>20. Shape(ProjectExpel)
  BY DEF ProjectExpel
<1>21. Shape(ProjectSet)
  BY DEF ProjectSet
<1>22. Shape(ProjectList)
  BY DEF ProjectList
<1>23. Shape(SecretCreate)
  BY DEF SecretCreate
<1>24. Shape(SecretCreatePull)
  BY DEF SecretCreatePull
<1>25. Shape(SecretDelete)
  BY DEF SecretDelete
<1>26. Shape(SecretDescribe)
  BY DEF SecretDescribe
<1>27. Shape(SecretList)
  BY DEF SecretList
<1>28. Shape(Login)
  BY DEF Login
<1>29. Shape(JobRun)
  BY DEF JobRun
<1> HIDE PlainSteps, OtherSteps, RequestSteps DEF Shape, Plain, InProject
<1>30. QED
  BY <1>1, <1>2, <1>3, <1>4, <1>5, <1>6, <1>7, <1>8, <1>9, <1>10, <1>11,
     <1>12, <1>13, <1>14, <1>15, <1>16, <1>17, <1>18, <1>19, <1>20, <1>21,
     <1>22, <1>23, <1>24, <1>25, <1>26, <1>27, <1>28, <1>29 DEF Table

-----------------------------------------------------------------------------
(* The inductive invariant.                                                  *)

\* An invocation that has not started has left nothing, and is at no step.
IdleInv ==
  \A r \in Runs : cmd[r] = "none" => at[r] = 1 /\ exit[r] = "running"

\* The step i of r is behind it, or the one at which it has ended.
Behind(r, i) == i < at[r] \/ (i = at[r] /\ exit[r] # "running")

\* A request the server has carried out is a step r has come to, in the project of
\* what it had read; and those it has got past have been carried out.
RequestInv ==
  /\ \A a \in applied :
       /\ cmd[a.run] # "none" /\ a.project = snap[a.run].project
       /\ \E i \in 1..Len(Steps(a.run)) :
            Behind(a.run, i) /\ Steps(a.run)[i] = a.request
  /\ \A r \in Runs : cmd[r] # "none" =>
       \A i \in 1..Len(Steps(r)) :
         i < at[r] /\ Steps(r)[i] \in Requests => Steps(r)[i] \in Done(r)

\* The same of the jobs.
JobInv ==
  /\ \A n \in JobNames \cup {NoName}, r \in Runs : <<n, r>> \in jobs =>
       /\ cmd[r] # "none"
       /\ \E i \in 1..Len(Steps(r)) : Behind(r, i) /\ Steps(r)[i].do = "create"
  /\ \A r \in Runs : cmd[r] # "none" =>
       \A i \in 1..Len(Steps(r)) :
         i < at[r] /\ Steps(r)[i].do = "create" =>
           \E n \in JobNames \cup {NoName} : <<n, r>> \in jobs

\* The project of NERD_PROJECT is in the session until it is read, and then in
\* what was read, unless it was moved.
EnvInv ==
  \A r \in Runs : cmd[r] # "none" /\ EnvProject[r] # NoProject /\ ~moved[r] =>
    /\ WillRead(r) => session.project = EnvProject[r]
    /\ \A i \in 1..Len(Steps(r)) :
         i < at[r] /\ Steps(r)[i] = Read => snap[r].project = EnvProject[r]

\* A directory is of one invocation, which is at it until it is whole.
DirInv ==
  \A k \in Outputs :
    /\ \A q, r \in dirs[k] : q = r
    /\ k \notin whole => \A r \in dirs[k] :
         /\ k \notin visited[r]
         /\ exit[r] \in {"err", "killed"} \/ At(r, "download")

IInv ==
  /\ TypeOK /\ IdleInv /\ RequestInv /\ JobInv /\ EnvInv /\ DirInv /\ ExitIsTrue

\* A command that runs is one of the table.
LEMMA CommandShape ==
  ASSUME TypeOK, NEW r \in Runs, cmd[r] # "none"
  PROVE  cmd[r] \in DOMAIN Table /\ Shape(Steps(r))
<1>1. PICK q \in Runs : cmd[r] \in Names[q]
  BY DEF TypeOK
<1>2. cmd[r] \in DOMAIN Table
  BY <1>1, TableAssumption
<1>3. QED BY <1>2, TableShape DEF Steps

\* A name of the table is not "none".
LEMMA NamesInTable ==
  ASSUME NEW r \in Runs, NEW c \in Names[r]
  PROVE  c # "none" /\ c \in DOMAIN Table
<1>1. "none" \notin DOMAIN Table
  BY DEF Table
<1>2. QED BY <1>1, TableAssumption

\* The initial state satisfies the invariant.
LEMMA InitIInv == Init => IInv
<1> SUFFICES ASSUME Init PROVE IInv
  OBVIOUS
<1>1. TypeOK
  <2>1. [oauth |-> FALSE, project |-> NoProject] \in Sessions
    BY DEF Sessions, AnyProject
  <2>2. /\ session \in Sessions /\ snap \in [Runs -> Sessions]
        /\ exit \in [Runs -> Exits] /\ at \in [Runs -> Nat \ {0}]
    BY <2>1 DEF Init, Exits
  <2>3. cmd \in [Runs -> (UNION {Names[r] : r \in Runs}) \cup {"none"}]
    BY DEF Init
  <2>4. QED BY <2>2, <2>3 DEF Init, TypeOK
<1>2. IdleInv /\ RequestInv /\ JobInv /\ EnvInv /\ DirInv
  BY DEF Init, IdleInv, RequestInv, JobInv, EnvInv, DirInv
<1>3. ExitIsTrue
  BY DEF Init, ExitIsTrue
<1>4. QED BY <1>1, <1>2, <1>3 DEF IInv

-----------------------------------------------------------------------------
(* Types.                                                                    *)

\* What a request leaves is a request with the project that was read.
LEMMA AppliesType ==
  ASSUME TypeOK, NEW r \in Runs, Method(r, "POST") \/ Method(r, "DELETE"), Applies(r)
  PROVE  applied' \subseteq [run : Runs, request : Requests, project : AnyProject]
<1>1. at[r] \in 1..Len(Steps(r)) /\ IsRequest(Steps(r)[at[r]]) /\ cmd[r] # "none"
  BY DEF Method, At, Running, IsRequest, TypeOK
<1>2. Steps(r)[at[r]] \in Requests
  BY <1>1, CommandShape DEF Shape
<1>3. snap[r].project \in AnyProject
  BY DEF TypeOK, Sessions
<1>4. QED BY <1>2, <1>3 DEF Applies, TypeOK

\* Every step keeps the state well typed.
LEMMA StepTypeOK == TypeOK /\ [Next]_vars => TypeOK'
<1> SUFFICES ASSUME TypeOK, [Next]_vars PROVE TypeOK'
  OBVIOUS
<1> USE DEF TypeOK, GoesOn, Ends, Exits, dirVars
<1>0. ASSUME NEW r \in Runs, NEW p \in AnyProject, SelectProject(r, p)
      PROVE  session' \in Sessions /\ moved' \in [Runs -> BOOLEAN]
  BY <1>0 DEF SelectProject, Sessions, WillRead
<1>00. ASSUME NEW r \in Runs, SetSession(r)
       PROVE  session' \in Sessions /\ moved' \in [Runs -> BOOLEAN]
  BY <1>00, <1>0, EnvAssumption DEF SetSession, AnyProject
<1>1. ASSUME NEW r \in Runs, Start(r) PROVE TypeOK'
  BY <1>1, <1>00 DEF Start
<1>2. ASSUME NEW r \in Runs, BadFlags(r) PROVE TypeOK'
  BY <1>2, <1>00 DEF BadFlags
<1>3. ASSUME NEW r \in Runs, Finish(r) PROVE TypeOK'
  BY <1>3 DEF Finish
<1>4. ASSUME NEW r \in Runs, CheckArgs(r) PROVE TypeOK'
  BY <1>4 DEF CheckArgs
<1>5. ASSUME NEW r \in Runs, CheckInput(r) PROVE TypeOK'
  BY <1>5 DEF CheckInput
<1>6. ASSUME NEW r \in Runs, ReadSession(r) PROVE TypeOK'
  BY <1>6 DEF ReadSession
<1>7. ASSUME NEW r \in Runs, RequireProjectID(r) PROVE TypeOK'
  BY <1>7 DEF RequireProjectID
<1>8. ASSUME NEW r \in Runs, Fetch(r) PROVE TypeOK'
  BY <1>8 DEF Fetch
<1>9. ASSUME NEW r \in Runs, Change(r) PROVE TypeOK'
  <2>1. applied' \subseteq [run : Runs, request : Requests, project : AnyProject]
    BY <1>9, AppliesType DEF Change
  <2>2. QED BY <1>9, <2>1 DEF Change
<1>10. ASSUME NEW r \in Runs, TokenUnset(r) PROVE TypeOK'
  BY <1>10 DEF TokenUnset
<1>11. ASSUME NEW r \in Runs, WriteSession(r) PROVE TypeOK'
  <2>1. session' \in Sessions /\ moved' \in [Runs -> BOOLEAN]
    BY <1>11, <1>0 DEF WriteSession, AnyProject, Sessions
  <2>2. QED BY <1>11, <2>1 DEF WriteSession
<1>12. ASSUME NEW r \in Runs, Submit(r) PROVE TypeOK'
  BY <1>12 DEF Submit
<1>13. ASSUME NEW r \in Runs, DownloadOutputs(r) PROVE TypeOK'
  BY <1>13 DEF DownloadOutputs, Enter
<1>14. ASSUME NEW r \in Runs, Killed(r) PROVE TypeOK'
  BY <1>14 DEF Killed
<1>15. CASE UNCHANGED vars
  BY <1>15 DEF vars
<1>16. QED
  BY <1>1, <1>2, <1>3, <1>4, <1>5, <1>6, <1>7, <1>8, <1>9, <1>10, <1>11, <1>12,
     <1>13, <1>14, <1>15 DEF Next, Over

-----------------------------------------------------------------------------
(* What a step of an invocation does to it and leaves behind.                *)

AtStep(r) == at[r] \in 1..Len(Steps(r))
ThisStep(r) == Steps(r)[at[r]]

Others(r) ==
  \A q \in Runs \ {r} : /\ cmd'[q] = cmd[q] /\ at'[q] = at[q]
                        /\ exit'[q] = exit[q] /\ snap'[q] = snap[q]
Begins(r) ==
  /\ cmd[r] = "none" /\ cmd'[r] # "none"
  /\ exit'[r] \in {"running", "usage", "err"}
  /\ UNCHANGED <<at, snap, applied, jobs>>
Advances(r) == AtStep(r) /\ at'[r] = at[r] + 1 /\ exit'[r] = "running"
Stops(r) == at'[r] = at[r] /\ exit'[r] # "running"
Moves(r) ==
  /\ Running(r) /\ cmd' = cmd
  /\ Advances(r) \/ Stops(r) \/ (at'[r] = at[r] /\ exit'[r] = "running")
\* The requests, the jobs and the snapshot.
Leaves(r) ==
  /\ \/ applied' = applied /\ (Advances(r) => ~IsRequest(ThisStep(r)))
     \/ /\ AtStep(r) /\ IsRequest(ThisStep(r)) /\ (Advances(r) \/ Stops(r))
        /\ Applies(r)
  /\ \/ jobs' = jobs /\ (Advances(r) => ThisStep(r).do # "create")
     \/ /\ AtStep(r) /\ ThisStep(r).do = "create" /\ (Advances(r) \/ Stops(r))
        /\ \E n \in JobNames \cup {NoName} : jobs' = jobs \cup {<<n, r>>}
  /\ snap'[r] # snap[r] =>
       AtStep(r) /\ ThisStep(r).do = "read" /\ snap'[r] = session
  /\ Advances(r) /\ ThisStep(r).do = "read" => snap'[r] = session
\* Why it ends.
Reasons(r) ==
  /\ exit'[r] \in {"help", "unset", "noproject"} =>
       /\ AtStep(r) /\ \/ ThisStep(r).do \in {"args", "pair", "project"}
                       \/ ThisStep(r) \in OAuthRequests
       /\ applied' = applied
  /\ exit'[r] # "usage"
  /\ exit'[r] = "ok" => at[r] > Len(Steps(r))
  /\ exit'[r] = "exists" =>
       /\ AtStep(r) /\ ThisStep(r).do = "create" /\ jobs' = jobs
       /\ \E n \in JobNames, q \in Runs : <<n, q>> \in jobs

\* The project of the session.
Chooses(r) ==
  \/ /\ session'.project = session.project /\ moved' = moved
     /\ Begins(r) => \/ exit'[r] # "running" \/ cmd'[r] = "JobRun"
                     \/ EnvProject[r] = NoProject
  \/ Begins(r) /\ SelectProject(r, EnvProject[r])
  \/ Begins(r) /\ session' = session /\ moved' = [moved EXCEPT ![r] = TRUE]
  \/ /\ AtStep(r) /\ ThisStep(r).do = "write" /\ Advances(r)
     /\ \E p \in Projects : SelectProject(r, p)
\* The directories of outputs.
Fills(r) ==
  \/ /\ UNCHANGED dirVars
     /\ At(r, "download") => exit'[r] \in {"err", "killed"} \/ visited[r] = Outputs
  \/ DownloadOutputs(r) /\ UNCHANGED <<at, exit>>

Acts(r) ==
  /\ Others(r) /\ Chooses(r) /\ Fills(r)
  /\ Begins(r) \/ (Moves(r) /\ Leaves(r) /\ Reasons(r))

\* Every step is that of one invocation.
LEMMA OneActs ==
  ASSUME TypeOK, IdleInv, Next PROVE UNCHANGED vars \/ \E r \in Runs : Acts(r)
<1> USE DEF TypeOK, GoesOn, Ends, Acts, Others
<1>0. ASSUME NEW r \in Runs, NEW do, At(r, do)
      PROVE  Running(r) /\ AtStep(r) /\ ThisStep(r).do = do
  BY <1>0 DEF At, AtStep, ThisStep
<1>1. ASSUME NEW r \in Runs, Start(r) PROVE Acts(r)
  <2>0. PICK c \in Names[r] :
          /\ cmd' = [cmd EXCEPT ![r] = c]
          /\ IF c = "JobRun" THEN UNCHANGED <<session, moved>> ELSE SetSession(r)
    BY <1>1 DEF Start
  <2>1. cmd' = [cmd EXCEPT ![r] = cmd'[r]] /\ cmd'[r] = c /\ c # "none"
    BY <2>0, NamesInTable
  <2>2. Begins(r)
    BY <1>1, <2>1 DEF Start, Begins, IdleInv
  <2>3. Chooses(r)
    BY <2>0, <2>1, <2>2 DEF Chooses, SetSession
  <2>4. Fills(r)
    BY <1>1 DEF Fills, Start, At, Running
  <2>5. QED BY <1>1, <2>1, <2>2, <2>3, <2>4 DEF Start
<1>2. ASSUME NEW r \in Runs, BadFlags(r) PROVE Acts(r)
  <2>0. PICK c \in Names[r] :
          /\ cmd' = [cmd EXCEPT ![r] = c] /\ exit'[r] \in {"usage", "err"}
          /\ UNCHANGED <<session, moved>> \/ SetSession(r)
    BY <1>2 DEF BadFlags
  <2>1. cmd' = [cmd EXCEPT ![r] = cmd'[r]] /\ cmd'[r] # "none"
    BY <2>0, NamesInTable
  <2>2. Begins(r)
    BY <1>2, <2>1 DEF BadFlags, Begins
  <2>3. Chooses(r)
    BY <2>0, <2>2 DEF Chooses, SetSession
  <2>4. Fills(r)
    BY <1>2 DEF Fills, BadFlags, At, Running
  <2>5. QED BY <1>2, <2>1, <2>2, <2>3, <2>4 DEF BadFlags
<1> USE DEF Moves, Leaves, Reasons, Advances, Stops
<1>a. ASSUME NEW r \in Runs, Running(r), UNCHANGED <<session, moved>>
      PROVE  Chooses(r)
  BY <1>a DEF Chooses, Begins, Running
<1>b. ASSUME NEW r \in Runs, UNCHANGED dirVars, ~At(r, "download") PROVE Fills(r)
  BY <1>b DEF Fills
<1>c. ASSUME NEW r \in Runs, NEW do, At(r, do), do # "download"
      PROVE  ~At(r, "download")
  BY <1>c DEF At
<1>3. ASSUME NEW r \in Runs, Finish(r) PROVE Acts(r)
  <2>1. ~At(r, "download")
    <3>1. SUFFICES ASSUME At(r, "download") PROVE FALSE
      OBVIOUS
    <3>2. Len(Steps(r)) \in Nat
      BY <3>1, CommandShape DEF Shape, At, Running
    <3>3. QED BY <1>3, <3>1, <3>2 DEF Finish, At
  <2>2. Chooses(r) /\ Fills(r)
    BY <1>3, <1>a, <1>b, <2>1 DEF Finish
  <2>3. QED BY <1>3, <2>2 DEF Finish, Running
<1>4. ASSUME NEW r \in Runs, CheckArgs(r) PROVE Acts(r)
  <2>1. Chooses(r) /\ Fills(r)
    BY <1>0, <1>4, <1>a, <1>b, <1>c DEF CheckArgs
  <2>2. QED BY <1>0, <1>4, <2>1 DEF CheckArgs, Running, IsRequest
<1>5. ASSUME NEW r \in Runs, CheckInput(r) PROVE Acts(r)
  <2>1. Chooses(r) /\ Fills(r)
    BY <1>0, <1>5, <1>a, <1>b, <1>c DEF CheckInput
  <2>2. QED BY <1>0, <1>5, <2>1 DEF CheckInput, Running, IsRequest
<1>6. ASSUME NEW r \in Runs, ReadSession(r) PROVE Acts(r)
  <2>1. Chooses(r) /\ Fills(r)
    BY <1>0, <1>6, <1>a, <1>b, <1>c DEF ReadSession
  <2>2. QED BY <1>0, <1>6, <2>1 DEF ReadSession, Running, IsRequest
<1>7. ASSUME NEW r \in Runs, RequireProjectID(r) PROVE Acts(r)
  <2>1. Chooses(r) /\ Fills(r)
    BY <1>0, <1>7, <1>a, <1>b, <1>c DEF RequireProjectID
  <2>2. QED BY <1>0, <1>7, <2>1 DEF RequireProjectID, Running, IsRequest
<1>8. ASSUME NEW r \in Runs, Fetch(r) PROVE Acts(r)
  <2>1. Chooses(r) /\ Fills(r)
    BY <1>0, <1>8, <1>a, <1>b, <1>c DEF Fetch, Method
  <2>2. QED BY <1>0, <1>8, <2>1 DEF Fetch, Method, Running, IsRequest
<1>9. ASSUME NEW r \in Runs, Change(r) PROVE Acts(r)
  <2>1. Chooses(r) /\ Fills(r)
    BY <1>0, <1>9, <1>a, <1>b, <1>c DEF Change, Method
  <2>2. QED BY <1>0, <1>9, <2>1 DEF Change, Method, Running, IsRequest
<1>10. ASSUME NEW r \in Runs, TokenUnset(r) PROVE Acts(r)
  <2>1. Chooses(r) /\ Fills(r)
    BY <1>0, <1>10, <1>a, <1>b, <1>c DEF TokenUnset
  <2>2. QED BY <1>0, <1>10, <2>1 DEF TokenUnset, Running, ThisStep
<1>11. ASSUME NEW r \in Runs, WriteSession(r) PROVE Acts(r)
  <2>1. ~At(r, "download") /\ Running(r) /\ Fills(r)
    BY <1>0, <1>11, <1>b, <1>c DEF WriteSession
  <2>2. Chooses(r)
    <3>1. CASE UNCHANGED <<session, moved>>
      BY <2>1, <3>1, <1>a
    <3>2. CASE session' = [session EXCEPT !.oauth = TRUE] /\ UNCHANGED moved
      BY <2>1, <3>2 DEF Chooses, Begins, Running, Sessions
    <3>3. CASE At(r, "write") /\ GoesOn(r) /\ \E p \in Projects : SelectProject(r, p)
      BY <1>0, <2>1, <3>3 DEF Chooses, Running
    <3>4. QED BY <1>11, <3>1, <3>2, <3>3 DEF WriteSession
  <2>3. QED BY <1>0, <1>11, <2>1, <2>2 DEF WriteSession, Running, IsRequest
<1>12. ASSUME NEW r \in Runs, Submit(r) PROVE Acts(r)
  <2>1. Chooses(r) /\ Fills(r)
    BY <1>0, <1>12, <1>a, <1>b, <1>c DEF Submit
  <2>2. QED BY <1>0, <1>12, <2>1 DEF Submit, Taken, Running, IsRequest
<1>13. ASSUME NEW r \in Runs, DownloadOutputs(r) PROVE Acts(r)
  <2>1. Chooses(r)
    BY <1>0, <1>13, <1>a DEF DownloadOutputs
  <2>2. Fills(r)
    BY <1>13 DEF Fills, DownloadOutputs
  <2>3. QED BY <1>0, <1>13, <2>1, <2>2 DEF DownloadOutputs, Running, IsRequest
<1>14. ASSUME NEW r \in Runs, Killed(r) PROVE Acts(r)
  <2>1. Chooses(r)
    BY <1>14, <1>a DEF Killed
  <2>2. Fills(r)
    BY <1>14 DEF Fills, Killed
  <2>3. QED BY <1>14, <2>1, <2>2 DEF Killed, Running
<1> HIDE DEF Acts
<1>15. QED
  BY <1>1, <1>2, <1>3, <1>4, <1>5, <1>6, <1>7, <1>8, <1>9, <1>10, <1>11, <1>12,
     <1>13, <1>14 DEF Next, Over

-----------------------------------------------------------------------------
(* The steps keep the invariant.                                             *)

\* What a step leaves of an invocation that has started.
LEMMA Frame ==
  ASSUME TypeOK, NEW r \in Runs, Acts(r), NEW q \in Runs, cmd[q] # "none"
  PROVE  /\ cmd'[q] = cmd[q] /\ Steps(q)' = Steps(q)
         /\ at'[q] \in {at[q], at[q] + 1}
         /\ \A i \in Nat : Behind(q, i) => Behind(q, i)'
         /\ exit[q] # "running" => exit'[q] = exit[q] /\ at'[q] = at[q]
         /\ applied \subseteq applied' /\ Done(q) \subseteq Done(q)'
         /\ jobs \subseteq jobs'
<1>1. cmd'[q] = cmd[q] /\ at'[q] \in {at[q], at[q] + 1}
  BY DEF Acts, Others, Begins, Moves, Advances, Stops
<1>2. exit[q] # "running" => exit'[q] = exit[q] /\ at'[q] = at[q]
  BY DEF Acts, Others, Begins, Moves, Running
<1>3. applied \subseteq applied' /\ jobs \subseteq jobs'
  BY DEF Acts, Begins, Leaves, Applies
<1>4. Done(q) \subseteq Done(q)'
  BY <1>3 DEF Done
<1>5. \A i \in Nat : Behind(q, i) => Behind(q, i)'
  BY <1>1, <1>2 DEF Behind, TypeOK
<1>6. QED BY <1>1, <1>2, <1>3, <1>4, <1>5 DEF Steps

\* A request the server has carried out stays behind its invocation, and a new one
\* is the step of the one that acts.
LEMMA StepRequestInv ==
  ASSUME TypeOK, TypeOK', IdleInv, RequestInv, NEW r \in Runs, Acts(r)
  PROVE  RequestInv'
<1>1. ASSUME NEW a \in applied'
      PROVE  /\ cmd'[a.run] # "none" /\ a.project = snap'[a.run].project
             /\ \E i \in 1..Len(Steps(a.run)') :
                  Behind(a.run, i)' /\ Steps(a.run)'[i] = a.request
  <2>1. CASE a \in applied
    <3> DEFINE q == a.run
    <3>1. /\ q \in Runs /\ cmd[q] # "none" /\ a.project = snap[q].project
          /\ \E i \in 1..Len(Steps(q)) : Behind(q, i) /\ Steps(q)[i] = a.request
      BY <2>1 DEF RequestInv, TypeOK
    <3> HIDE DEF q
    <3>2. PICK i \in 1..Len(Steps(q)) : Behind(q, i) /\ Steps(q)[i] = a.request
      BY <3>1
    <3>3. snap'[q] = snap[q]
      <4> SUFFICES ASSUME snap'[q] # snap[q] PROVE FALSE
        OBVIOUS
      <4>1. q = r /\ Running(r) /\ AtStep(r) /\ ThisStep(r).do = "read"
        BY <3>1 DEF Acts, Others, Begins, Moves, Leaves
      <4>2. i < at[r] /\ at[r] \in 1..Len(Steps(r)) /\ Steps(r)[at[r]].do = "read"
        BY <4>1, <3>2 DEF Behind, Running, AtStep, ThisStep
      <4>3. a.request \in Requests
        BY <2>1 DEF TypeOK
      <4>4. IsRequest(Steps(r)[i])
        BY <4>1, <3>2, <4>3, RequestSteps
      <4>5. at[r] \in i+1..Len(Steps(r))
        BY <4>2
      <4>6. Steps(r)[at[r]] \in {Check, CreateWorkload}
        BY <4>1, <3>1, <3>2, <4>4, <4>5, CommandShape DEF Shape
      <4>7. QED BY <4>2, <4>6, OtherSteps, RequestSteps
    <3>4. QED
      BY <3>1, <3>2, <3>3, Frame DEF q
  <2>2. CASE a \notin applied
    <3>1. /\ Moves(r) /\ AtStep(r) /\ IsRequest(ThisStep(r))
          /\ Advances(r) \/ Stops(r)
          /\ Applies(r) /\ Leaves(r)
      BY <2>2 DEF Acts, Begins, Leaves
    <3>2. a = [run |-> r, request |-> ThisStep(r), project |-> snap[r].project]
      BY <2>2, <3>1 DEF Applies, ThisStep
    <3>3. cmd[r] # "none" /\ snap'[r] = snap[r] /\ cmd' = cmd
      BY <3>1 DEF Moves, Running, Leaves, IsRequest
    <3>4. \A i \in {at[r]} : Behind(r, i)'
      BY <3>1, <3>3 DEF Behind, Advances, Stops, TypeOK
    <3>5. Steps(r)' = Steps(r)
      BY <3>3 DEF Steps
    <3>6. a.run = r /\ a.request = ThisStep(r) /\ a.project = snap'[r].project
      BY <3>2, <3>3
    <3>7. at[r] \in 1..Len(Steps(r)') /\ Steps(r)'[at[r]] = ThisStep(r)
      BY <3>1, <3>5 DEF AtStep, ThisStep
    <3>8. QED BY <3>3, <3>4, <3>6, <3>7
  <2>3. QED BY <2>1, <2>2
<1>2. ASSUME NEW q \in Runs, cmd'[q] # "none", NEW i \in 1..Len(Steps(q)'),
             i < at'[q], Steps(q)'[i] \in Requests
      PROVE  Steps(q)'[i] \in Done(q)'
  <2>1. CASE cmd[q] = "none"
    <3>1. at'[q] = at[q] /\ Begins(r) /\ q = r
      BY <1>2, <2>1 DEF Acts, Others, Begins, Moves, Running
    <3>2. QED BY <1>2, <3>1, <2>1 DEF IdleInv
  <2>2. CASE cmd[q] # "none"
    <3>1. CASE i < at[q]
      BY <1>2, <2>2, <3>1, Frame DEF RequestInv
    <3>2. CASE ~(i < at[q])
      <4>1. q = r /\ Moves(r) /\ Advances(r) /\ Leaves(r) /\ i = at[r]
        BY <1>2, <2>2, <3>2 DEF Acts, Others, Begins, Moves, Stops, Advances, TypeOK
      <4>2. Steps(r)' = Steps(r) /\ ThisStep(r) \in Requests
        BY <1>2, <2>2, <4>1, Frame DEF ThisStep
      <4>3. Applies(r)
        BY <4>1, <4>2, RequestSteps DEF Leaves
      <4> DEFINE a == [run |-> r, request |-> ThisStep(r), project |-> snap[r].project]
      <4>4. a \in applied' /\ a.run = r /\ a.request = ThisStep(r)
        BY <4>3 DEF Applies, ThisStep
      <4>5. ThisStep(r) \in Done(r)'
        BY <4>4 DEF Done
      <4>6. QED BY <4>1, <4>2, <4>5 DEF ThisStep
    <3>3. QED BY <3>1, <3>2
  <2>3. QED BY <2>1, <2>2
<1>3. QED BY <1>1, <1>2 DEF RequestInv

\* One that has not started still has nothing.
LEMMA StepIdleInv ==
  ASSUME IdleInv, NEW r \in Runs, Acts(r) PROVE IdleInv'
BY DEF IdleInv, Acts, Others, Begins, Moves, Running

\* A job stays behind its invocation, and a new one is of the one that acts.
LEMMA StepJobInv ==
  ASSUME TypeOK, TypeOK', IdleInv, JobInv, NEW r \in Runs, Acts(r)
  PROVE  JobInv'
<1>1. ASSUME NEW n \in JobNames \cup {NoName}, NEW q \in Runs, <<n, q>> \in jobs'
      PROVE  /\ cmd'[q] # "none"
             /\ \E i \in 1..Len(Steps(q)') :
                  Behind(q, i)' /\ Steps(q)'[i].do = "create"
  <2>1. CASE <<n, q>> \in jobs
    <3>1. /\ cmd[q] # "none"
          /\ \E i \in 1..Len(Steps(q)) : Behind(q, i) /\ Steps(q)[i].do = "create"
      BY <2>1 DEF JobInv
    <3>2. QED BY <3>1, Frame
  <2>2. CASE <<n, q>> \notin jobs
    <3>1. /\ Moves(r) /\ AtStep(r) /\ ThisStep(r).do = "create"
          /\ Advances(r) \/ Stops(r)
          /\ q = r
      BY <1>1, <2>2 DEF Acts, Begins, Leaves
    <3>2. cmd[r] # "none" /\ cmd' = cmd
      BY <3>1 DEF Moves, Running
    <3>3. \A i \in {at[r]} : Behind(r, i)'
      BY <3>1 DEF Behind, Advances, Stops, TypeOK
    <3>4. at[r] \in 1..Len(Steps(r)') /\ Steps(r)'[at[r]] = ThisStep(r)
      BY <3>1, <3>2 DEF AtStep, ThisStep, Steps
    <3>5. QED BY <3>1, <3>2, <3>3, <3>4
  <2>3. QED BY <2>1, <2>2
<1>2. ASSUME NEW q \in Runs, cmd'[q] # "none", NEW i \in 1..Len(Steps(q)'),
             i < at'[q], Steps(q)'[i].do = "create"
      PROVE  \E n \in JobNames \cup {NoName} : <<n, q>> \in jobs'
  <2>1. CASE cmd[q] = "none"
    <3>1. at'[q] = at[q] /\ q = r
      BY <1>2, <2>1 DEF Acts, Others, Begins, Moves, Running
    <3>2. QED BY <1>2, <3>1, <2>1 DEF IdleInv
  <2>2. CASE cmd[q] # "none"
    <3>1. CASE i < at[q]
      BY <1>2, <2>2, <3>1, Frame DEF JobInv
    <3>2. CASE ~(i < at[q])
      <4>1. q = r /\ Moves(r) /\ Advances(r) /\ Leaves(r) /\ i = at[r]
        BY <1>2, <2>2, <3>2 DEF Acts, Others, Begins, Moves, Stops, Advances, TypeOK
      <4>2. Steps(r)' = Steps(r) /\ ThisStep(r).do = "create"
        BY <1>2, <2>2, <4>1, Frame DEF ThisStep
      <4>3. QED BY <4>1, <4>2 DEF Leaves
    <3>3. QED BY <3>1, <3>2
  <2>3. QED BY <2>1, <2>2
<1>3. QED BY <1>1, <1>2 DEF JobInv

\* `job run' has no session.
LEMMA JobRunReadsNot == \A i \in 1..Len(Table["JobRun"]) : Table["JobRun"][i] # Read
<1>1. Len(JobRun) = 3 /\ JobRun[1] = Check /\ JobRun[2] = Check /\ JobRun[3] = Create
  BY DEF JobRun
<1>2. Check # Read /\ Create # Read
  BY OtherSteps
<1>3. \A i \in 1..3 : i \in {1, 2, 3}
  OBVIOUS
<1>4. QED BY <1>1, <1>2, <1>3 DEF Table
\* Check is no request of the auth client.
LEMMA CheckNotOAuth == Check \notin OAuthRequests
BY DEF Check, OAuthRequests, Step, ListProjects, GetWorkerJWT, Get, Post

\* Of an invocation whose step is neither Check nor CreateWorkload, which alone come
\* after a request, no request has been carried out.
LEMMA NoneBefore ==
  ASSUME TypeOK, RequestInv, NEW r \in Runs, Running(r), AtStep(r),
         ThisStep(r) \notin {Check, CreateWorkload}
  PROVE  Done(r) = {}
<1>1. SUFFICES ASSUME NEW a \in applied, a.run = r PROVE FALSE
  BY DEF Done
<1>2. PICK i \in 1..Len(Steps(r)) : Behind(r, i) /\ Steps(r)[i] = a.request
  BY <1>1 DEF RequestInv
<1>3. i < at[r] /\ cmd[r] # "none"
  BY <1>2 DEF Behind, Running
<1>4. IsRequest(Steps(r)[i])
  BY <1>1, <1>2, RequestSteps DEF TypeOK
<1>5. at[r] \in i+1..Len(Steps(r))
  BY <1>2, <1>3 DEF AtStep
<1>6. QED BY <1>3, <1>4, <1>5, CommandShape DEF Shape, ThisStep

\* What the exit code of the invocation that acts says has happened.
LEMMA StepExitIsTrue ==
  ASSUME IInv, TypeOK', RequestInv', JobInv', NEW r \in Runs, Acts(r)
  PROVE  ExitIsTrue'
<1> USE DEF IInv
<1>1. ASSUME NEW q \in Runs, cmd'[q] # "none", exit'[q] = "ok",
             NEW i \in DOMAIN Steps(q)', Steps(q)'[i] \in Requests
      PROVE  Steps(q)'[i] \in Done(q)'
  <2>1. cmd[q] # "none"
    BY <1>1 DEF Acts, Others, Begins, Moves, Running
  <2>2. CASE exit[q] = "ok"
    <3>1. i \in DOMAIN Steps(q) /\ Steps(q)[i] \in Requests
      BY <1>1, <2>1, Frame
    <3>2. Steps(q)[i] \in Done(q)
      BY <2>1, <2>2, <3>1 DEF ExitIsTrue
    <3>3. QED BY <3>2, <2>1, Frame
  <2>3. CASE exit[q] # "ok"
    <3>1. q = r /\ Moves(r) /\ Reasons(r)
      BY <1>1, <2>1, <2>3 DEF Acts, Others, Begins
    <3>2. at[r] > Len(Steps(r)) /\ Steps(r)' = Steps(r)
      BY <1>1, <2>1, <3>1, Frame DEF Reasons
    <3>3. Len(Steps(r)) \in Nat /\ DOMAIN Steps(r) = 1..Len(Steps(r))
      BY <2>1, <3>1, CommandShape DEF Shape
    <3>4. i \in 1..Len(Steps(r)) /\ i < at[r]
      BY <1>1, <3>1, <3>2, <3>3 DEF TypeOK
    <3>5. Steps(r)[i] \in Done(r)
      BY <1>1, <2>1, <3>1, <3>2, <3>4 DEF RequestInv
    <3>6. QED BY <3>1, <3>2, <3>5, <2>1, Frame
  <2>4. QED BY <2>2, <2>3
<1>2. ASSUME NEW q \in Runs, cmd'[q] # "none",
             exit'[q] \in {"usage", "unset", "noproject", "help"}
      PROVE  Done(q)' = {}
  <2>1. SUFFICES ASSUME NEW a \in applied', a.run = q PROVE FALSE
    BY DEF Done
  <2>2. a \in applied
    <3>1. CASE q # r
      BY <2>1, <3>1 DEF Acts, Begins, Leaves, Applies
    <3>2. CASE q = r /\ Begins(r)
      BY <2>1, <3>2 DEF Begins
    <3>3. CASE q = r /\ Moves(r) /\ Leaves(r) /\ Reasons(r)
      <4>1. applied' = applied
        BY <1>2, <3>3 DEF Reasons
      <4>2. QED BY <2>1, <4>1
    <3>4. QED BY <3>1, <3>2, <3>3 DEF Acts
  <2>3. cmd[q] # "none"
    BY <2>1, <2>2 DEF RequestInv
  <2>4. Done(q) # {}
    BY <2>1, <2>2 DEF Done
  <2>5. CASE q # r
    <3>1. exit[q] \in {"usage", "unset", "noproject", "help"}
      BY <1>2, <2>5 DEF Acts, Others
    <3>2. QED BY <2>3, <2>4, <3>1 DEF ExitIsTrue
  <2>6. CASE q = r
    <3>1. /\ AtStep(r) /\ \/ ThisStep(r).do \in {"args", "pair", "project"}
                          \/ ThisStep(r) \in OAuthRequests
          /\ Running(r)
      BY <1>2, <2>3, <2>6 DEF Acts, Begins, Reasons, Moves
    <3>2. ThisStep(r) \notin {Check, CreateWorkload}
      BY <3>1, OtherSteps, RequestSteps, CheckNotOAuth DEF IsRequest
    <3>3. QED BY <2>4, <2>6, <3>1, <3>2, NoneBefore
  <2>7. QED BY <2>5, <2>6
<1>3. ASSUME NEW q \in Runs, cmd'[q] = "JobRun", exit'[q] = "ok"
      PROVE  \E n \in JobNames \cup {NoName} : <<n, q>> \in jobs'
  <2>1. cmd[q] = "JobRun"
    BY <1>3 DEF Acts, Others, Begins, Moves, Running
  <2>2. CASE exit[q] = "ok"
    BY <2>1, <2>2, Frame DEF ExitIsTrue
  <2>3. CASE exit[q] # "ok"
    <3>1. q = r /\ Reasons(r)
      BY <1>3, <2>1, <2>3 DEF Acts, Others, Begins
    <3>2. at[r] > Len(Steps(r))
      BY <1>3, <3>1 DEF Reasons
    <3>3. Len(Steps(r)) = 3 /\ Steps(r)[3].do = "create"
      BY <2>1, <3>1, OtherSteps DEF Steps, Table, JobRun
    <3>4. 3 \in 1..Len(Steps(r)) /\ 3 < at[r] /\ cmd[r] # "none"
      BY <2>1, <3>1, <3>2, <3>3 DEF TypeOK
    <3>5. \E n \in JobNames \cup {NoName} : <<n, r>> \in jobs
      BY <3>3, <3>4 DEF JobInv
    <3>6. QED BY <2>1, <3>1, <3>5, Frame
  <2>4. QED BY <2>2, <2>3
<1>4. ASSUME NEW q \in Runs, cmd'[q] # "none", exit'[q] = "exists"
      PROVE  \E n \in JobNames, p \in Runs : p # q /\ <<n, p>> \in jobs'
  <2>1. cmd[q] # "none"
    BY <1>4 DEF Acts, Others, Begins, Moves, Running
  <2>2. CASE exit[q] = "exists"
    BY <2>1, <2>2, Frame DEF ExitIsTrue
  <2>3. CASE exit[q] # "exists"
    <3>1. q = r /\ Moves(r) /\ Reasons(r)
      BY <1>4, <2>1, <2>3 DEF Acts, Others, Begins
    <3>2. /\ AtStep(r) /\ ThisStep(r).do = "create"
          /\ \E n \in JobNames, p \in Runs : <<n, p>> \in jobs
      BY <1>4, <3>1 DEF Reasons
    <3>3. PICK n \in JobNames, p \in Runs : <<n, p>> \in jobs
      BY <3>2
    <3>4. p # r
      <4> SUFFICES ASSUME p = r PROVE FALSE
        OBVIOUS
      <4>1. PICK i \in 1..Len(Steps(r)) : Behind(r, i) /\ Steps(r)[i].do = "create"
        BY <3>3 DEF JobInv
      <4>2. i < at[r]
        BY <3>1, <4>1 DEF Behind, Moves, Running
      <4>3. at[r] \in i+1..Len(Steps(r))
        BY <3>2, <4>1, <4>2 DEF AtStep
      <4>4. QED BY <2>1, <3>1, <3>2, <4>1, <4>3, CommandShape DEF Shape, ThisStep
    <3>5. QED BY <2>1, <3>1, <3>3, <3>4, Frame
  <2>4. QED BY <2>2, <2>3
<1>5. ASSUME NEW q \in Runs, cmd'[q] # "none", CreateWorkload \in Done(q)'
      PROVE  GetWorkerJWT \in Done(q)'
  <2>1. PICK a \in applied' : a.run = q /\ a.request = CreateWorkload
    BY <1>5 DEF Done
  <2>2. PICK i \in 1..Len(Steps(q)') : Behind(q, i)' /\ Steps(q)'[i] = CreateWorkload
    BY <2>1 DEF RequestInv
  <2>3. Shape(Steps(q)')
    <3>1. PICK p \in Runs : cmd'[q] \in Names[p]
      BY <1>5 DEF TypeOK
    <3>2. QED BY <3>1, TableAssumption, TableShape DEF Steps
  <2>4. PICK j \in 1..i-1 : Steps(q)'[j] = GetWorkerJWT
    BY <2>2, <2>3 DEF Shape
  <2>5. j \in 1..Len(Steps(q)') /\ j < at'[q]
    BY <2>2, <2>4 DEF Behind, TypeOK
  <2>6. QED BY <1>5, <2>4, <2>5, RequestSteps DEF RequestInv
<1>6. QED
  BY <1>1, <1>2, <1>3, <1>4, <1>5 DEF ExitIsTrue

\* The project of NERD_PROJECT of an invocation that another one's step leaves alone.
LEMMA OtherEnv ==
  ASSUME TypeOK, EnvInv, NEW r \in Runs, Acts(r), NEW q \in Runs \ {r},
         cmd'[q] # "none", EnvProject[q] # NoProject, ~moved'[q]
  PROVE  /\ WillRead(q)' => session'.project = EnvProject[q]
         /\ \A i \in 1..Len(Steps(q)') :
              i < at'[q] /\ Steps(q)'[i] = Read => snap'[q].project = EnvProject[q]
<1>1. /\ cmd'[q] = cmd[q] /\ at'[q] = at[q] /\ exit'[q] = exit[q]
      /\ snap'[q] = snap[q]
  BY DEF Acts, Others
<1>2. Steps(q)' = Steps(q) /\ (WillRead(q)' <=> WillRead(q))
  BY <1>1 DEF Steps, WillRead, Running
<1>3. \/ session'.project = session.project /\ ~moved[q]
      \/ ~moved[q] /\ ~WillRead(q)
  BY DEF Acts, Chooses, SelectProject, TypeOK
<1>4. QED BY <1>1, <1>2, <1>3 DEF EnvInv

\* The project of NERD_PROJECT of the invocation that acts.
LEMMA OwnEnv ==
  ASSUME TypeOK, IdleInv, EnvInv, NEW r \in Runs, Acts(r),
         cmd'[r] # "none", EnvProject[r] # NoProject, ~moved'[r]
  PROVE  /\ WillRead(r)' => session'.project = EnvProject[r]
         /\ \A i \in 1..Len(Steps(r)') :
              i < at'[r] /\ Steps(r)'[i] = Read => snap'[r].project = EnvProject[r]
<1>1. CASE Begins(r)
  <2>1. at'[r] = 1
    BY <1>1 DEF Begins, IdleInv
  <2>2. \/ exit'[r] # "running" \/ cmd'[r] = "JobRun"
        \/ session'.project = EnvProject[r]
    BY <1>1 DEF Acts, Chooses, SelectProject, TypeOK, Sessions, Begins, Moves,
       Running, Advances
  <2>3. cmd'[r] = "JobRun" => ~WillRead(r)'
    BY <2>1, JobRunReadsNot DEF WillRead, Steps
  <2>4. QED BY <2>1, <2>2, <2>3 DEF WillRead, Running
<1>2. CASE Moves(r) /\ Leaves(r)
  <2>1. /\ cmd[r] # "none" /\ exit[r] = "running" /\ Steps(r)' = Steps(r)
        /\ at'[r] \in {at[r], at[r] + 1}
    BY <1>2, Frame DEF Moves, Running
  <2>2. \/ session'.project = session.project /\ moved' = moved
        \/ /\ AtStep(r) /\ ThisStep(r).do = "write" /\ Advances(r)
           /\ moved'[r] = moved[r]
    BY <1>2, <2>1 DEF Acts, Chooses, Begins, SelectProject, TypeOK
  <2>3. ~moved[r]
    BY <2>2
  <2>4. WillRead(r)' => WillRead(r)
    BY <2>1 DEF WillRead, Running, TypeOK
  <2>5. WillRead(r)' => session'.project = EnvProject[r]
    <3>1. CASE session'.project = session.project
      BY <2>1, <2>3, <2>4, <3>1 DEF EnvInv
    <3>2. CASE AtStep(r) /\ ThisStep(r).do = "write" /\ Advances(r)
      <4>1. \A j \in at[r]+1..Len(Steps(r)) : Steps(r)[j] # Read
        BY <2>1, <3>2, CommandShape DEF Shape, AtStep, ThisStep
      <4>2. QED BY <2>1, <3>2, <4>1 DEF WillRead, Advances
    <3>3. QED BY <2>2, <3>1, <3>2
  <2>6. AtStep(r) /\ ThisStep(r).do = "read" => session.project = EnvProject[r]
    <3>1. SUFFICES ASSUME AtStep(r), ThisStep(r).do = "read"
                   PROVE  session.project = EnvProject[r]
      OBVIOUS
    <3>2. Steps(r)[at[r]] = Read /\ at[r] \in at[r]..Len(Steps(r))
      BY <2>1, <3>1, CommandShape DEF Shape, AtStep, ThisStep
    <3>3. WillRead(r)
      BY <2>1, <3>2 DEF WillRead, Running
    <3>4. QED BY <2>1, <2>3, <3>3 DEF EnvInv
  <2>7. ASSUME NEW i \in 1..Len(Steps(r)), i < at'[r], Steps(r)[i] = Read
        PROVE  snap'[r].project = EnvProject[r]
    <3>1. CASE snap'[r] # snap[r]
      BY <1>2, <2>6, <3>1 DEF Leaves
    <3>2. CASE snap'[r] = snap[r] /\ i < at[r]
      BY <2>1, <2>3, <3>2, <2>7 DEF EnvInv
    <3>3. CASE ~(i < at[r])
      <4>1. i = at[r] /\ Advances(r)
        BY <1>2, <2>1, <2>7, <3>3 DEF Moves, Stops, TypeOK
      <4>2. ThisStep(r).do = "read" /\ AtStep(r)
        BY <2>7, <4>1, OtherSteps DEF ThisStep, Advances
      <4>3. QED BY <1>2, <2>6, <4>1, <4>2 DEF Leaves
    <3>4. QED BY <3>1, <3>2, <3>3
  <2>8. QED BY <2>1, <2>5, <2>7
<1>3. QED BY <1>1, <1>2 DEF Acts

\* What is selected for an invocation stays until it is read.
LEMMA StepEnvInv ==
  ASSUME TypeOK, IdleInv, EnvInv, NEW r \in Runs, Acts(r) PROVE EnvInv'
BY OtherEnv, OwnEnv DEF EnvInv

\* A directory stays with its invocation.
LEMMA StepDirInv ==
  ASSUME TypeOK, IdleInv, DirInv, NEW r \in Runs, Acts(r) PROVE DirInv'
<1>1. CASE /\ UNCHANGED dirVars
           /\ At(r, "download") => exit'[r] \in {"err", "killed"} \/ visited[r] = Outputs
  <2>1. ASSUME NEW k \in Outputs, k \notin whole, NEW q \in dirs[k]
        PROVE  exit'[q] \in {"err", "killed"} \/ At(q, "download")'
    <3>1. q \in Runs /\ k \notin visited[q]
      BY <2>1 DEF DirInv, TypeOK
    <3>2. exit[q] \in {"err", "killed"} \/ At(q, "download")
      BY <2>1 DEF DirInv
    <3>3. CASE q # r
      BY <3>1, <3>2, <3>3 DEF Acts, Others, At, Running, Steps
    <3>4. CASE q = r
      <4>1. Running(r) /\ At(r, "download")
        BY <3>2, <3>4 DEF Acts, Begins, Moves, IdleInv, At, Running
      <4>2. QED BY <1>1, <3>1, <3>4, <4>1
    <3>5. QED BY <3>3, <3>4
  <2>2. QED BY <1>1, <2>1 DEF DirInv, dirVars
<1>2. CASE DownloadOutputs(r) /\ UNCHANGED <<at, exit>>
  <2>1. /\ \A q \in Runs : At(q, "download")' <=> At(q, "download")
        /\ exit' = exit
    BY <1>2 DEF DownloadOutputs, At, Running, Steps
  <2>2. At(r, "download")
    BY <1>2 DEF DownloadOutputs
  <2>3. CASE \E j \in {k \in Outputs \ visited[r] : r \in dirs[k]} :
               /\ whole' = whole \cup {j} /\ dirs' = dirs
               /\ visited' = [visited EXCEPT ![r] = @ \cup {j}]
    BY <2>1, <2>3 DEF DirInv, TypeOK
  <2>4. CASE /\ {k \in Outputs \ visited[r] : r \in dirs[k]} = {} /\ whole' = whole
             /\ \E k \in Outputs \ visited[r] : Enter(r, k)
    <3>1. PICK j \in Outputs \ visited[r] : Enter(r, j)
      BY <2>4
    <3>2. r \notin dirs[j]
      BY <2>4
    <3>3. CASE dirs[j] = {} /\ dirs' = [dirs EXCEPT ![j] = {r}] /\ visited' = visited
      BY <2>1, <2>2, <2>4, <3>3 DEF DirInv, TypeOK
    <3>4. CASE dirs' = dirs /\ visited' = [visited EXCEPT ![r] = @ \cup {j}]
      BY <2>1, <2>4, <3>2, <3>4 DEF DirInv, TypeOK
    <3>5. QED BY <3>1, <3>3, <3>4 DEF Enter
  <2>5. CASE UNCHANGED dirVars
    BY <2>1, <2>5 DEF DirInv, dirVars, TypeOK
  <2>6. QED BY <1>2, <2>3, <2>4, <2>5 DEF DownloadOutputs
<1>3. QED BY <1>1, <1>2 DEF Acts, Fills

-----------------------------------------------------------------------------
(* The theorems.                                                             *)

\* A stutter keeps the invariant.
LEMMA StutterIInv == IInv /\ UNCHANGED vars => IInv'
<1> SUFFICES ASSUME IInv, UNCHANGED vars PROVE IInv'
  OBVIOUS
<1>1. UNCHANGED <<session, cmd, at, snap, exit, applied, jobs, dirs, whole, visited,
                  moved>>
  BY DEF vars, dirVars
<1>2. /\ \A r \in Runs : Steps(r)' = Steps(r) /\ Done(r)' = Done(r)
      /\ \A r \in Runs : WillRead(r)' <=> WillRead(r)
      /\ \A r \in Runs : At(r, "download")' <=> At(r, "download")
      /\ \A r \in Runs, i \in Nat : Behind(r, i)' <=> Behind(r, i)
  BY <1>1 DEF Steps, Done, WillRead, At, Running, Behind
<1>3. TypeOK' /\ IdleInv' /\ DirInv'
  BY <1>1, <1>2 DEF IInv, TypeOK, IdleInv, DirInv
<1>4. EnvInv'
  BY <1>1, <1>2 DEF IInv, EnvInv
<1>5. RequestInv'
  BY <1>1, <1>2 DEF IInv, RequestInv, TypeOK
<1>6. JobInv'
  <2>1. ASSUME NEW r \in Runs, NEW n \in JobNames \cup {NoName}, <<n, r>> \in jobs
        PROVE  /\ cmd[r] # "none"
               /\ \E i \in 1..Len(Steps(r)) : Behind(r, i)' /\ Steps(r)[i].do = "create"
    BY <2>1, <1>2 DEF IInv, JobInv
  <2>2. ASSUME NEW r \in Runs, cmd[r] # "none", NEW i \in 1..Len(Steps(r)),
               i < at[r], Steps(r)[i].do = "create"
        PROVE  \E n \in JobNames \cup {NoName} : <<n, r>> \in jobs
    BY <2>2 DEF IInv, JobInv
  <2>3. QED BY <1>1, <1>2, <2>1, <2>2 DEF JobInv
<1>7. ExitIsTrue'
  BY <1>1, <1>2 DEF IInv, ExitIsTrue
<1>8. QED BY <1>3, <1>4, <1>5, <1>6, <1>7 DEF IInv

\* IInv holds in every state the program reaches.
THEOREM Invariance == Spec => []IInv
<1>1. ASSUME IInv, Next PROVE IInv'
  <2>1. CASE UNCHANGED vars
    BY <1>1, <2>1, StutterIInv
  <2> USE DEF IInv
  <2>2. ASSUME NEW r \in Runs, Acts(r) PROVE IInv'
    <3>1. TypeOK'
      BY <1>1, StepTypeOK
    <3>2. IdleInv' /\ EnvInv' /\ DirInv'
      BY <1>1, <2>2, StepIdleInv, StepEnvInv, StepDirInv
    <3>3. RequestInv' /\ JobInv'
      BY <1>1, <2>2, <3>1, StepRequestInv, StepJobInv
    <3> HIDE DEF IInv
    <3>4. ExitIsTrue'
      BY <1>1, <2>2, <3>1, <3>3, StepExitIsTrue
    <3>5. QED BY <3>1, <3>2, <3>3, <3>4 DEF IInv
  <2>3. QED BY <1>1, <2>1, <2>2, OneActs
<1>2. QED BY InitIInv, <1>1, StutterIInv, PTL DEF Spec

\* Every variable keeps its type.
THEOREM Typed == Spec => []TypeOK
<1>1. IInv => TypeOK
  BY DEF IInv
<1>2. QED BY <1>1, Invariance, PTL

\* What an exit code says has happened: see ExitIsTrue.
THEOREM ExitCodesTrue == Spec => []ExitIsTrue
<1>1. IInv => ExitIsTrue
  BY DEF IInv
<1>2. QED BY <1>1, Invariance, PTL

\* The requests of a command are all in the project it read, and that is the one of
\* its NERD_PROJECT unless it was moved: the session is read before the first
\* request, so what was read is what EnvInv says.
THEOREM ProjectKept == Spec => []OneProject
<1>1. IInv => OneProject
  <2> SUFFICES ASSUME IInv PROVE OneProject
    OBVIOUS
  <2>1. ASSUME NEW a \in applied
        PROVE  /\ a.run \in Runs /\ a.project = snap[a.run].project
               /\ EnvProject[a.run] # NoProject /\ ~moved[a.run] =>
                    a.project = EnvProject[a.run]
    <3>1. a.run \in Runs /\ a.request \in Requests
      BY DEF IInv, TypeOK
    <3>2. cmd[a.run] # "none" /\ a.project = snap[a.run].project
      BY DEF IInv, RequestInv
    <3>3. PICK i \in 1..Len(Steps(a.run)) :
            Behind(a.run, i) /\ Steps(a.run)[i] = a.request
      BY DEF IInv, RequestInv
    <3>4. PICK j \in 1..i-1 : Steps(a.run)[j] = Read
      BY <3>1, <3>2, <3>3, RequestSteps, CommandShape DEF IInv, Shape
    <3>5. j \in 1..Len(Steps(a.run)) /\ j < at[a.run]
      BY <3>1, <3>3, <3>4 DEF Behind, IInv, TypeOK
    <3>6. QED BY <3>1, <3>2, <3>4, <3>5 DEF IInv, EnvInv
  <2>2. QED BY <2>1 DEF OneProject
<1>2. QED BY <1>1, Invariance, PTL

\* A directory of outputs is of one invocation, which is at it, has failed or was
\* killed as long as it is not whole.
THEOREM OutputsApart == Spec => []OutputsKept
<1>1. IInv => OutputsKept
  BY DEF IInv, DirInv, OutputsKept, At, Running
<1>2. QED BY <1>1, Invariance, PTL
=============================================================================
