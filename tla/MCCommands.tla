----------------------------- MODULE MCCommands -----------------------------
(* An invocation of any command with NERD_PROJECT, beside one that selects   *)
(* another project, logs in or makes a workload or a job, or downloads too.  *)
EXTENDS Commands, TLC

CONSTANTS r1, r2, p1, p2

MCNames ==
  r1 :> DOMAIN Table @@
  r2 :> {"ProjectSet", "Login", "WorkloadStart", "JobRun",
          "WorkloadDownload"}
MCEnvProject == r1 :> p1 @@ r2 :> NoProject
=============================================================================
