----------------------------- MODULE UpgradeJobs -----------------------------
(***************************************************************************)
(* The update jobs of the two updater web applications on one gateway.  A  *)
(* job is a list of phases that a thread of its own works off; requests of *)
(* the operator's browser start threads beside it: a continuation, either  *)
(* rollback, or the commands that stop the agent.  What a phase does to    *)
(* the gateway is in GatewayHost.                                          *)
(*                                                                         *)
(* A phase and a group of commands each take effect as a whole, where they *)
(* end; threads that overlap may so take effect in either order.  Dry runs *)
(* change nothing and are left out.                                        *)
(***************************************************************************)
EXTENDS GatewayHost

CONSTANTS
  Threads,     \* threads of the updaters that touch this gateway
  DevJobs,     \* jobs of the newer updater, the others are of the older one
  Selections,  \* the phases selected, and the options: to use the uploaded
               \* artifact again, not to stop the interface
  MaxRequests, \* how many requests follow those that start the jobs
  MaxFailures, \* how many phases and groups of commands fail
  NoJob        \* the job has not been started

Phases == 0..11
Finished == 12

Statuses == {"queued", "running", "waiting", "failed", "complete"}
CommandNames ==
  {"rollback-ui", "rollback-code", "disable-agent", "list-code-checkpoints"}

(* What parse_upgrade_request lets pass for a real run, and the worker     *)
(* asks for: the standard sets of phases, or some of the three targeted.   *)
UpdateAgent == {0, 1, 2, 3, 4, 5, 7, 9, 10, 11}
TargetedAgentOnly == {0, 7, 9, 10, 11}
UiOnly == {0, 1, 2, 3, 4, 5}
RealRun ==
  {Phases, UpdateAgent, TargetedAgentOnly, UiOnly} \cup SUBSET {4, 5, 11}

ASSUME UpgradeAssumption ==
  /\ DevJobs \subseteq Jobs
  /\ Selections \subseteq
       [phases : RealRun, options : SUBSET {"reuse", "skip"}]
  /\ MaxRequests \in Nat /\ MaxFailures \in Nat
  /\ NoJob \notin Jobs

VARIABLES
  job,      \* JOBS of both applications
  thread,   \* what each thread is doing
  gateway,  \* what the commands left there
  requests, \* continuations and groups of commands begun (bound)
  failures, \* phases and groups of commands that failed (bound)
  last,     \* the job started or continued last (history)
  tampered, \* jobs commands were started for (history)
  shared    \* jobs beside which another thread was at work (history)

upgradeVars ==
  <<job, thread, gateway, requests, failures, last, tampered, shared>>

JobRecord ==
  [release : Releases, selection : Selections,
   status : Statuses, current : 0..Finished, passed : SUBSET Phases,
   token : BOOLEAN]
ASSUME NoJobAssumption == NoJob \notin JobRecord

Free == [job |-> NoJob, at |-> "idle", phase |-> 0]
Doing == CommandNames \cup {"top", "taken", "phase", "check"}

UpgradeTypeOK ==
  /\ DOMAIN job = Jobs /\ \A j \in Jobs : job[j] = NoJob \/ job[j] \in JobRecord
  /\ DOMAIN thread = Threads
  /\ \A t \in Threads :
       \/ thread[t] = Free
       \/ thread[t] \in [job : Jobs, at : Doing, phase : Phases]
  /\ gateway \in Hosts
  /\ requests \in 0..MaxRequests /\ failures \in 0..MaxFailures
  /\ last \in Jobs \cup {NoJob}
  /\ tampered \subseteq Jobs /\ shared \subseteq Jobs

UpgradeInit ==
  /\ job = [j \in Jobs |-> NoJob]
  /\ thread = [t \in Threads |-> Free]
  /\ gateway = FreshHost
  /\ requests = 0 /\ failures = 0 /\ last = NoJob
  /\ tampered = {} /\ shared = {}

-----------------------------------------------------------------------------
Started == {j \in Jobs : job[j] # NoJob}
Busy == {t \in Threads : thread[t] # Free}
AtWork == {thread[t].job : t \in Busy}

(* A new thread begins to work for job j; which of those that are free     *)
(* does not matter.                                                        *)
Begin(t, j, at) ==
  /\ thread[t] = Free /\ t = CHOOSE u \in Threads : thread[u] = Free
  /\ thread' = [thread EXCEPT ![t] = [job |-> j, at |-> at, phase |-> 0]]

(* start_job, for a request of the browser or a claimed one of the cloud.  *)
StartJob(t, j, selection, r) ==
  /\ job[j] = NoJob
  /\ job' = [job EXCEPT ![j] =
       [release |-> r, selection |-> selection,
        status |-> "queued", current |-> 0, passed |-> {}, token |-> FALSE]]
  /\ Begin(t, j, "top")
  /\ last' = j
  /\ shared' = IF Busy = {} THEN shared ELSE shared \cup AtWork \cup {j}
  /\ UNCHANGED <<gateway, requests, failures, tampered>>

(* continue_job asks for waiting only, which a running job is between any  *)
(* two phases.                                                             *)
ContinueJob(t, j) ==
  /\ job[j] # NoJob /\ job[j].status = "waiting"
  /\ requests < MaxRequests /\ requests' = requests + 1
  /\ job' = [job EXCEPT ![j].status = "queued"]
  /\ Begin(t, j, "top")
  /\ shared' = IF Busy = {} THEN shared ELSE shared \cup AtWork \cup {j}
  /\ last' = j
  /\ UNCHANGED <<gateway, failures, tampered>>

(* The page offers these when the job rests; the request does not ask.     *)
StartCommands(t, j, name) ==
  /\ job[j] # NoJob /\ requests < MaxRequests
  /\ job' = [job EXCEPT ![j].status = "running"]
  /\ Begin(t, j, name)
  /\ requests' = requests + 1
  /\ tampered' = tampered \cup {j}
  /\ shared' = (shared \cup AtWork \cup {j, last}) \ {NoJob}
  /\ UNCHANGED <<gateway, failures, last>>

-----------------------------------------------------------------------------
(* run_until_checkpoint.                                                   *)

NextPhase(j) ==
  LET left == {p \in job[j].selection.phases : p >= job[j].current}
  IN  IF left = {} THEN Finished ELSE CHOOSE p \in left : \A q \in left : p <= q

(* The thread goes on: after a phase it looks whether the job has failed   *)
(* or is complete, and then takes the next selected phase.                 *)
StopsAtCheckpoint(t) ==
  /\ thread[t].at = "check"
  /\ job[thread[t].job].status \in {"failed", "complete", "waiting"}
Stops(t) ==
  thread[t].at = "check" /\ job[thread[t].job].status \in {"failed", "complete"}

LeaveJob(t) ==
  /\ Stops(t)
  /\ thread' = [thread EXCEPT ![t] = Free]
  /\ UNCHANGED <<job, gateway, requests, failures, last, tampered, shared>>

(* It takes it in one hold of the lock of JOBS, and says that the job is   *)
(* running in the next.  Each phase that is skipped has a hold of its own  *)
(* before; here they are skipped together.                                 *)
TakePhase(t) ==
  /\ thread[t].at \in {"top", "check"} /\ ~Stops(t)
  /\ LET j == thread[t].job
         p == NextPhase(j)
     IN  IF p = Finished
         THEN /\ job' = [job EXCEPT ![j].status = "complete",
                                    ![j].current = Finished]
              /\ thread' = [thread EXCEPT ![t] = Free]
         ELSE /\ job' = [job EXCEPT ![j].current = p]
              /\ thread' = [thread EXCEPT ![t].at = "taken", ![t].phase = p]
  /\ UNCHANGED <<gateway, requests, failures, last, tampered, shared>>

RunPhase(t) ==
  /\ thread[t].at = "taken"
  /\ job' = [job EXCEPT ![thread[t].job].status = "running"]
  /\ thread' = [thread EXCEPT ![t].at = "phase"]
  /\ UNCHANGED <<gateway, requests, failures, last, tampered, shared>>

-----------------------------------------------------------------------------
(* run_phase.                                                              *)

Option(j, o) == o \in job[j].selection.options

(* What a phase that passes leaves of the gateway.  The final phase of the *)
(* newer updater also wants the agent's process to be another one than     *)
(* before its service phase, which holds for every process it restarted;   *)
(* that of the older one passes whatever its checks find.                  *)
Passing(j, p) ==
  LET r == job[j].release
      dev == j \in DevJobs
  IN  CASE p = 0 -> {gateway}
        [] p = 1 -> Backup(gateway, r)
        [] p = 2 -> IF Option(j, "reuse") THEN ReuseArtifact(gateway)
                    ELSE Upload(gateway, r)
        [] p = 3 -> ApplyUi(gateway, Option(j, "skip"))
        [] p = 4 -> Auth(gateway, j)
        [] p = 5 -> RestartUi(gateway)
        [] p = 6 -> {gateway}
        [] p = 7 -> Repo(gateway, r)
        [] p = 8 -> IF job[j].token THEN Config(gateway) ELSE {}
        [] p = 9 -> IF dev THEN Install(gateway, r)
                    ELSE InstallWithoutCheckout(gateway)
        [] p = 10 -> Service(gateway)
        [] p = 11 -> IF dev THEN Verified(gateway, r) ELSE {gateway}

(* What one that fails may leave.                                          *)
Failing(j, p) ==
  LET r == job[j].release
      dev == j \in DevJobs
  IN  CASE p \in {0, 6, 11} -> {gateway}
        [] p = 1 -> BackupBegun(gateway)
        [] p = 2 -> IF Option(j, "reuse") THEN {gateway}
                    ELSE UploadBegun(gateway)
        [] p = 3 -> ApplyUiBegun(gateway, Option(j, "skip"))
        [] p = 4 -> AuthBegun(gateway, j)
        [] p = 5 -> RestartUiBegun(gateway)
        [] p = 7 -> RepoBegun(gateway, r)
        [] p = 8 -> IF job[j].token THEN ConfigBegun(gateway) ELSE {gateway}
        [] p = 9 -> IF dev THEN InstallBegun(gateway, r)
                    ELSE InstallBegunWithoutCheckout(gateway)
        [] p = 10 -> ServiceBegun(gateway)

(* The bound is on the failures of what could have passed.                 *)
MayFail(passing) ==
  \/ passing = {} /\ UNCHANGED failures
  \/ passing # {} /\ failures < MaxFailures /\ failures' = failures + 1

(* A phase that passes leaves the job waiting, for the moment, unless it   *)
(* is the last of all.  An artifact that is used again is skipped, not     *)
(* passed, and counts as passed here.                                      *)
PassPhase(t) ==
  /\ thread[t].at = "phase"
  /\ LET j == thread[t].job
         p == thread[t].phase
     IN  /\ gateway' \in Passing(j, p)
         /\ job' = [job EXCEPT ![j].passed = @ \cup {p}, ![j].current = p + 1,
                      ![j].token = @ \/ p = 6,
                      ![j].status = IF p = 11 THEN "complete" ELSE "waiting"]
  /\ thread' = [thread EXCEPT ![t].at = "check", ![t].phase = 0]
  /\ UNCHANGED <<requests, failures, last, tampered, shared>>

(* A phase that fails ends the job and the thread.                         *)
FailPhase(t) ==
  /\ thread[t].at = "phase"
  /\ MayFail(Passing(thread[t].job, thread[t].phase))
  /\ LET j == thread[t].job
         p == thread[t].phase
     IN  /\ gateway' \in Failing(j, p)
         /\ job' = [job EXCEPT ![j].passed = @ \ {p}, ![j].status = "failed"]
  /\ thread' = [thread EXCEPT ![t] = Free]
  /\ UNCHANGED <<requests, last, tampered, shared>>

-----------------------------------------------------------------------------
(* run_job_commands leaves the job waiting, whatever it was before.        *)
AfterCommands(j, name) ==
  CASE name = "rollback-ui" -> RestoreBackup(gateway)
    [] name = "rollback-code" -> RestoreCode(gateway, job[j].release)
    [] name = "disable-agent" -> DisableAgent(gateway)
    [] OTHER -> {gateway}

AfterFailedCommands(j, name) ==
  CASE name = "rollback-ui" -> RestoreBackupBegun(gateway)
    [] name = "rollback-code" -> RestoreCodeBegun(gateway, job[j].release)
    [] name = "disable-agent" -> {gateway} \cup DisableAgent(gateway)
    [] OTHER -> {gateway}

EndCommands(t) ==
  /\ thread[t].at \in CommandNames
  /\ LET j == thread[t].job
         name == thread[t].at
     IN  \/ /\ gateway' \in AfterCommands(j, name)
            /\ job' = [job EXCEPT ![j].status = "waiting"]
            /\ UNCHANGED failures
         \/ /\ MayFail(AfterCommands(j, name))
            /\ gateway' \in AfterFailedCommands(j, name)
            /\ job' = [job EXCEPT ![j].status = "failed"]
  /\ thread' = [thread EXCEPT ![t] = Free]
  /\ UNCHANGED <<requests, last, tampered, shared>>

-----------------------------------------------------------------------------
ThreadStep(t) ==
  \/ LeaveJob(t) \/ TakePhase(t) \/ RunPhase(t) \/ PassPhase(t)
  \/ FailPhase(t) \/ EndCommands(t)

OperatorStep(t) ==
  \E j \in Jobs :
    \/ \E selection \in Selections, r \in Releases :
         StartJob(t, j, selection, r)
    \/ ContinueJob(t, j)
    \/ \E name \in CommandNames : StartCommands(t, j, name)

UpgradeNext == \E t \in Threads : ThreadStep(t) \/ OperatorStep(t)

UpgradeFairness == \A t \in Threads : WF_upgradeVars(ThreadStep(t))

UpgradeSpec == UpgradeInit /\ [][UpgradeNext]_upgradeVars /\ UpgradeFairness

-----------------------------------------------------------------------------
(* Work on the gateway is over, and the last job had it for itself.        *)
AtRest == Busy = {} /\ last # NoJob
Alone(j) == j \notin shared

(* A job that was left alone is complete only when each of its phases has  *)
(* passed: no failure is stepped over, by run_phase or by                  *)
(* run_until_checkpoint.                                                   *)
CompleteMeansPassed ==
  \A j \in Started :
    job[j].status = "complete" /\ Alone(j)
      => job[j].passed = job[j].selection.phases

(* After a job that had the gateway for itself and restarted the agent,    *)
(* the process that runs is of the job's release: whatever jobs that       *)
(* failed before it have left in the checkout.                             *)
ReleaseIsRunning ==
  AtRest /\ Alone(last) /\ job[last].status = "complete"
         /\ 10 \in job[last].selection.phases
    => gateway.agentUp /\ gateway.agent = job[last].release

(* After a job that went through the interface's phases in this way the    *)
(* interface runs the code of its artifact, even where an earlier job left *)
(* it stopped, half replaced, or rolled back.                              *)
UpdatedUiIsServed ==
  AtRest /\ Alone(last) /\ job[last].status = "complete"
         /\ job[last].selection.options = {}
         /\ {2, 3, 4, 5} \subseteq job[last].selection.phases
    => gateway.served = job[last].release

(* A job that says complete has done what its phases are for: all have     *)
(* passed, and what they restarted runs the release.                       *)
CompleteIsTrue ==
  CompleteMeansPassed /\ ReleaseIsRunning /\ UpdatedUiIsServed

(* A job for which nobody starts commands ends, even when it is continued  *)
(* while it runs: the cloud worker waits for that, and nothing else ends   *)
(* its wait.                                                               *)
Ended(j) == j \in Started /\ job[j].status \in {"failed", "complete"}
JobEnds ==
  \A j \in Jobs :
    j \in Started ~> j \in tampered \/ (Ended(j) /\ j \notin AtWork)

(* The comment at the claim of a UI-only release says that such a job does *)
(* not change the agent or its credentials, so that interface and agent    *)
(* still share a write token after it.  It fails: phase 4 gives both a new *)
(* one, and the agent that runs keeps what it has read.                    *)
UiReleaseKeepsHandoff ==
  AtRest /\ shared = {} /\ Started = {last} /\ job[last].status = "complete"
         /\ job[last].selection.phases \subseteq 0..5
    => gateway.uiToken = gateway.agentWrite
=============================================================================
