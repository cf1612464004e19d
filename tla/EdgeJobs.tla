------------------------------ MODULE EdgeJobs ------------------------------
(***************************************************************************)
(* The job queue of one gateway: the cloud table edge_jobs, the open       *)
(* jobs/next requests that claim from it, the edge agent's command thread  *)
(* that executes what it is handed, and the result posts on their way      *)
(* back.  Every query of the cloud is filtered by gateway_id, so gateways  *)
(* do not interact through this table and one of them is enough.           *)
(*                                                                         *)
(* Each cloud action is one database transaction (or one read that a later *)
(* transaction relies on); each agent action is the code between two       *)
(* effects that survive a crash.  What the environment may do wrong        *)
(* (a lost response, a crash, a slow gateway ...) takes one unit of the    *)
(* fault budget MaxFaults, which is what keeps the model finite.           *)
(***************************************************************************)
EXTENDS Naturals, FiniteSets

CONSTANTS
  Jobs,        \* jobs that can be created
  WriteJobs,   \* those of type bacnet_write_batch
  Polls,       \* jobs/next requests the cloud can have open at once
  NoJob,       \* "no job" in a response or in the agent's hands
  NoPoll,      \* the agent is not waiting for a response
  FaultKinds,  \* the kinds of fault the environment may show
  MaxFaults    \* how many faults a behaviour may contain

AllFaultKinds == {"response", "poll", "result", "crash", "storage", "delay"}

ASSUME EdgeJobsAssumption ==
  /\ IsFiniteSet(Jobs)
  /\ WriteJobs \subseteq Jobs
  /\ NoJob \notin Jobs
  /\ NoPoll \notin Polls
  /\ FaultKinds \subseteq AllFaultKinds
  /\ MaxFaults \in Nat

VARIABLES
  \* the cloud
  status,       \* edge_jobs.status
  claimAge,     \* edge_jobs.claimed_at against job_claim_timeout_sec
  createdAt,    \* edge_jobs.created_at as a rank; 0 before the job exists
  pollPc,       \* where an open jobs/next request is
  pollSeen,     \* the stale claims it read and is about to requeue
  pollJob,      \* the job it claimed and answers with
  \* the edge agent
  agentPc,      \* where the command thread is
  agentPoll,    \* the request it waits for
  agentJob,     \* the job it was handed
  local,        \* status of the job in the agent's SQLite jobs table
  runs,         \* how often execute_job was started for the job
  outcome,      \* what its latest execution returned
  \* the network and the environment
  reports,      \* result posts that have not been processed
  faults        \* faults so far

cloudVars == <<status, claimAge, createdAt, pollPc, pollSeen, pollJob>>
agentVars == <<agentPc, agentPoll, agentJob, local, runs, outcome>>
vars == <<cloudVars, agentVars, reports, faults>>

Terminal == {"completed", "failed", "deferred"}
Statuses == {"absent", "queued", "claimed"} \cup Terminal
PollPcs  == {"free", "read_stale", "requeue", "claim", "wait", "respond"}
AgentPcs == {"poll", "await", "record", "execute", "running", "store",
             "report", "dead"}

(* A write is dispatched to the local adapter and is never deferred.       *)
OutcomesWithBusy(j) == Terminal \cup {"busy"}

Outcomes(j) == IF j \in WriteJobs THEN {"completed", "failed"} ELSE Terminal

Report == [job : Jobs, run : Nat, status : Terminal]

TypeOK ==
  /\ status    \in [Jobs -> Statuses]
  /\ claimAge  \in [Jobs -> {"none", "fresh", "stale"}]
  /\ createdAt \in [Jobs -> Nat]
  /\ pollPc    \in [Polls -> PollPcs]
  /\ pollSeen  \in [Polls -> SUBSET Jobs]
  /\ pollJob   \in [Polls -> Jobs \cup {NoJob}]
  /\ agentPc   \in AgentPcs
  /\ agentPoll \in Polls \cup {NoPoll}
  /\ agentJob  \in Jobs \cup {NoJob}
  /\ local     \in [Jobs -> Statuses]
  /\ runs      \in [Jobs -> Nat]
  /\ outcome   \in [Jobs -> Terminal \cup {"none"}]
  /\ reports   \subseteq Report
  /\ faults    \in 0..MaxFaults

Init ==
  /\ status    = [j \in Jobs |-> "absent"]
  /\ claimAge  = [j \in Jobs |-> "none"]
  /\ createdAt = [j \in Jobs |-> 0]
  /\ pollPc    = [h \in Polls |-> "free"]
  /\ pollSeen  = [h \in Polls |-> {}]
  /\ pollJob   = [h \in Polls |-> NoJob]
  /\ agentPc   = "poll"
  /\ agentPoll = NoPoll
  /\ agentJob  = NoJob
  /\ local     = [j \in Jobs |-> "absent"]
  /\ runs      = [j \in Jobs |-> 0]
  /\ outcome   = [j \in Jobs |-> "none"]
  /\ reports   = {}
  /\ faults    = 0

Fault(kind) ==
  /\ kind \in FaultKinds
  /\ faults < MaxFaults
  /\ faults' = faults + 1

-----------------------------------------------------------------------------
(* The cloud: creating, claiming and requeueing jobs.                      *)

(* An operator queues a job.  Ties of created_at are broken by the row id, *)
(* so the order of creation is total.                                      *)
CreateJob(j) ==
  /\ status[j] = "absent"
  /\ status' = [status EXCEPT ![j] = "queued"]
  /\ createdAt' = [createdAt EXCEPT
       ![j] = 1 + Cardinality({k \in Jobs : status[k] # "absent"})]
  /\ UNCHANGED <<claimAge, pollPc, pollSeen, pollJob, agentVars, reports,
                 faults>>

(* The first query of a claim pass: the claims older than the timeout.     *)
(* Jobs of type bacnet_write_batch are left out of the query.              *)
StaleClaimsOfAnyType ==
  {j \in Jobs : status[j] = "claimed" /\ claimAge[j] = "stale"}

StaleClaimsStillQueued ==
  {j \in Jobs \ WriteJobs : status[j] = "queued" /\ claimAge[j] = "stale"}

StaleClaims ==
  {j \in Jobs \ WriteJobs : status[j] = "claimed" /\ claimAge[j] = "stale"}

ReadStale(h) ==
  /\ pollPc[h] = "read_stale"
  /\ pollSeen' = [pollSeen EXCEPT ![h] = StaleClaims]
  /\ pollPc' = [pollPc EXCEPT
       ![h] = IF StaleClaims = {} THEN "claim" ELSE "requeue"]
  /\ UNCHANGED <<status, claimAge, createdAt, pollJob, agentVars, reports,
                 faults>>

(* ... and the transaction that requeues them.  The UPDATE the ORM emits   *)
(* selects rows by primary key only: it does not look at the status again. *)
RequeueAsFailed(h) ==
  /\ pollPc[h] = "requeue"
  /\ status' = [j \in Jobs |-> IF j \in pollSeen[h] THEN "failed"
                                                     ELSE status[j]]
  /\ pollSeen' = [pollSeen EXCEPT ![h] = {}]
  /\ pollPc' = [pollPc EXCEPT ![h] = "claim"]
  /\ UNCHANGED <<claimAge, createdAt, pollJob, agentVars, reports, faults>>

Requeue(h) ==
  /\ pollPc[h] = "requeue"
  /\ status' = [j \in Jobs |-> IF j \in pollSeen[h] THEN "queued"
                                                     ELSE status[j]]
  /\ claimAge' = [j \in Jobs |-> IF j \in pollSeen[h] THEN "none"
                                                       ELSE claimAge[j]]
  /\ pollSeen' = [pollSeen EXCEPT ![h] = {}]
  /\ pollPc' = [pollPc EXCEPT ![h] = "claim"]
  /\ UNCHANGED <<createdAt, pollJob, agentVars, reports, faults>>

IsOldestUnfinished(j) ==
  /\ status[j] \in {"queued", "claimed"}
  /\ \A k \in Jobs : status[k] = "queued" => createdAt[j] <= createdAt[k]

IsOldestOfAll(j) ==
  /\ status[j] = "queued"
  /\ \A k \in Jobs : status[k] # "absent" => createdAt[j] <= createdAt[k]

IsOldestQueued(j) ==
  /\ status[j] = "queued"
  /\ \A k \in Jobs : status[k] = "queued" => createdAt[j] <= createdAt[k]

(* SELECT ... FOR UPDATE SKIP LOCKED and the conditional UPDATE: the row   *)
(* lock makes the two one step.                                            *)
Claim(h, j) ==
  /\ pollPc[h] = "claim"
  /\ IsOldestQueued(j)
  /\ status' = [status EXCEPT ![j] = "claimed"]
  /\ claimAge' = [claimAge EXCEPT ![j] = "fresh"]
  /\ pollJob' = [pollJob EXCEPT ![h] = j]
  /\ pollPc' = [pollPc EXCEPT ![h] = "respond"]
  /\ UNCHANGED <<createdAt, pollSeen, agentVars, reports, faults>>

(* Nothing is queued: the request is held, or answers null when its        *)
(* deadline has passed (or it asked not to wait).                          *)
ClaimNothing(h) ==
  /\ pollPc[h] = "claim"
  /\ \A j \in Jobs : status[j] # "queued"
  /\ \E pc \in {"wait", "respond"} : pollPc' = [pollPc EXCEPT ![h] = pc]
  /\ UNCHANGED <<status, claimAge, createdAt, pollSeen, pollJob, agentVars,
                 reports, faults>>

(* A notification or the end of the bounded wait starts another pass.      *)
Wake(h) ==
  /\ pollPc[h] = "wait"
  /\ pollPc' = [pollPc EXCEPT ![h] = "read_stale"]
  /\ UNCHANGED <<status, claimAge, createdAt, pollSeen, pollJob, agentVars,
                 reports, faults>>

(* receive_job_result: whatever the row says now, the posted status wins.  *)
ReceiveResult(m) ==
  /\ m \in reports
  /\ reports' = reports \ {m}
  /\ status' = [status EXCEPT ![m.job] = m.status]
  /\ UNCHANGED <<claimAge, createdAt, pollPc, pollSeen, pollJob, agentVars,
                 faults>>

(* Somebody still works on the job, so that its claim is not abandoned.    *)
InHand(j) ==
  \/ \E h \in Polls : pollPc[h] = "respond" /\ pollJob[h] = j
  \/ agentJob = j
  \/ \E m \in reports : m.job = j

(* claimed_at falls behind job_claim_timeout_sec.  That an abandoned claim *)
(* grows old is no fault; that a job in hand takes so long is a delay.     *)
ClaimGrowsOld(j) ==
  /\ status[j] = "claimed"
  /\ claimAge[j] = "fresh"
  /\ IF InHand(j) THEN Fault("delay") ELSE UNCHANGED faults
  /\ claimAge' = [claimAge EXCEPT ![j] = "stale"]
  /\ UNCHANGED <<status, createdAt, pollPc, pollSeen, pollJob, agentVars,
                 reports>>

-----------------------------------------------------------------------------
(* The edge agent: command_loop and process_next_job.                      *)

SendPoll(h) ==
  /\ agentPc = "poll"
  /\ pollPc[h] = "free"
  /\ pollPc' = [pollPc EXCEPT ![h] = "read_stale"]
  /\ agentPc' = "await"
  /\ agentPoll' = h
  /\ UNCHANGED <<status, claimAge, createdAt, pollSeen, pollJob, agentJob,
                 local, runs, outcome, reports, faults>>

FreePoll(h) ==
  /\ pollPc' = [pollPc EXCEPT ![h] = "free"]
  /\ pollJob' = [pollJob EXCEPT ![h] = NoJob]

ReceivePoll(h) ==
  /\ pollPc[h] = "respond"
  /\ agentPc = "await" /\ agentPoll = h
  /\ FreePoll(h)
  /\ agentPoll' = NoPoll
  /\ agentJob' = pollJob[h]
  /\ agentPc' = IF pollJob[h] = NoJob THEN "poll" ELSE "record"
  /\ UNCHANGED <<status, claimAge, createdAt, pollSeen, local, runs, outcome,
                 reports, faults>>

(* The answer is lost: the claim stands, the agent backs off and polls on. *)
LoseResponse(h) ==
  /\ pollPc[h] = "respond"
  /\ agentPc = "await" /\ agentPoll = h
  /\ Fault("response")
  /\ FreePoll(h)
  /\ agentPoll' = NoPoll
  /\ agentPc' = "poll"
  /\ UNCHANGED <<status, claimAge, createdAt, pollSeen, agentJob, local, runs,
                 outcome, reports>>

(* The agent gives a request up that the cloud still holds: its client     *)
(* timed out or its connection broke.                                      *)
AbandonPoll ==
  /\ agentPc = "await"
  /\ Fault("poll")
  /\ agentPoll' = NoPoll
  /\ agentPc' = "poll"
  /\ UNCHANGED <<cloudVars, agentJob, local, runs, outcome, reports>>

(* The cloud answers a request nobody listens to any more.                 *)
RespondToNobody(h) ==
  /\ pollPc[h] = "respond"
  /\ agentPoll # h
  /\ FreePoll(h)
  /\ UNCHANGED <<status, claimAge, createdAt, pollSeen, agentVars, reports,
                 faults>>

RecordClaimedJob ==
  /\ agentPc = "record"
  /\ local' = [local EXCEPT ![agentJob] = "claimed"]
  /\ agentPc' = "execute"
  /\ UNCHANGED <<cloudVars, agentPoll, agentJob, runs, outcome, reports,
                 faults>>

(* A job's effects on the building start here ...                        *)
StartJob ==
  /\ agentPc = "execute"
  /\ runs' = [runs EXCEPT ![agentJob] = @ + 1]
  /\ agentPc' = "running"
  /\ UNCHANGED <<cloudVars, agentPoll, agentJob, local, outcome, reports,
                 faults>>

(* ... and execute_job returns.                                            *)
FinishJob ==
  /\ agentPc = "running"
  /\ \E o \in Outcomes(agentJob) :
        outcome' = [outcome EXCEPT ![agentJob] = o]
  /\ agentPc' = "store"
  /\ UNCHANGED <<cloudVars, agentPoll, agentJob, local, runs, reports, faults>>

RecordJobResult ==
  /\ agentPc = "store"
  /\ local' = [local EXCEPT ![agentJob] = outcome[agentJob]]
  /\ agentPc' = "report"
  /\ UNCHANGED <<cloudVars, agentPoll, agentJob, runs, outcome, reports,
                 faults>>

(* One attempt to post the result.  Whether it was accepted, refused or    *)
(* timed out decides about a back-off only: the agent polls on.            *)
PostJobResult ==
  /\ agentPc = "report"
  /\ reports' = reports \cup {[job |-> agentJob, run |-> runs[agentJob],
                               status |-> outcome[agentJob]]}
  /\ agentPc' = "poll"
  /\ agentJob' = NoJob
  /\ UNCHANGED <<cloudVars, agentPoll, local, runs, outcome, faults>>

LoseResult(m) ==
  /\ m \in reports
  /\ Fault("result")
  /\ reports' = reports \ {m}
  /\ UNCHANGED <<cloudVars, agentVars>>

(* SQLite raises in record_claimed_job, in record_job_result or in a job   *)
(* that works on the trend tables.  Neither process_next_job nor           *)
(* command_loop catches it: the thread ends.                               *)
StorageError ==
  /\ \/ agentPc \in {"record", "store"}
     \/ agentPc = "running" /\ agentJob \notin WriteJobs
  /\ Fault("storage")
  /\ agentPc' = "dead"
  /\ agentJob' = NoJob
  /\ UNCHANGED <<cloudVars, agentPoll, local, runs, outcome, reports>>

(* The agent process dies and is restarted with a new command thread.  A   *)
(* request it had open stays open at the cloud.                            *)
Restart ==
  /\ Fault("crash")
  /\ agentPc' = "poll"
  /\ agentPoll' = NoPoll
  /\ agentJob' = NoJob
  /\ UNCHANGED <<cloudVars, local, runs, outcome, reports>>

-----------------------------------------------------------------------------
CloudStep(h) ==
  \/ ReadStale(h)
  \/ Requeue(h)
  \/ \E j \in Jobs : Claim(h, j)
  \/ ClaimNothing(h)
  \/ Wake(h)

AgentStep ==
  \/ \E h \in Polls : SendPoll(h)
  \/ \E h \in Polls : ReceivePoll(h)
  \/ RecordClaimedJob
  \/ StartJob
  \/ FinishJob
  \/ RecordJobResult
  \/ PostJobResult

Faulty ==
  \/ \E h \in Polls : LoseResponse(h)
  \/ AbandonPoll
  \/ \E m \in reports : LoseResult(m)
  \/ StorageError
  \/ Restart

Next ==
  \/ \E j \in Jobs : CreateJob(j)
  \/ \E h \in Polls : CloudStep(h)
  \/ \E h \in Polls : RespondToNobody(h)
  \/ \E m \in reports : ReceiveResult(m)
  \/ \E j \in Jobs : ClaimGrowsOld(j)
  \/ AgentStep
  \/ Faulty

Spec == Init /\ [][Next]_vars

(* The event loop runs every open request, the threads of the agent run,   *)
(* posts that are not lost arrive and time passes.  Operators and faults   *)
(* owe nothing.                                                            *)
Fairness ==
  /\ \A h \in Polls : WF_vars(CloudStep(h)) /\ WF_vars(RespondToNobody(h))
  /\ WF_vars(AgentStep)
  /\ WF_vars(\E m \in reports : ReceiveResult(m))
  /\ \A j \in Jobs : WF_vars(~InHand(j) /\ ClaimGrowsOld(j))

FairSpec == Spec /\ Fairness

-----------------------------------------------------------------------------
(* Properties.                                                             *)

(* A BACnet write is sent to the building at most once, whatever is lost,  *)
(* delayed, abandoned or restarted (claim_next_job's promise that a write  *)
(* is never re-executed blindly).                                          *)
WriteRunsAtMostOnce == \A j \in WriteJobs : runs[j] <= 1

(* What the cloud reports of a finished write is what its only execution   *)
(* returned and what the gateway's own database says, also when reports    *)
(* overtake each other or the job was handed out through an abandoned      *)
(* request (receive_job_result keeps whatever comes last).                 *)
WriteReportIsTrue ==
  \A j \in WriteJobs : status[j] \in Terminal =>
     /\ runs[j] = 1
     /\ status[j] = outcome[j]
     /\ local[j] = outcome[j]

(* No job is reported without having been executed, although results are   *)
(* accepted from any state of the row.                                     *)
ReportedWasRun == \A j \in Jobs : status[j] \in Terminal => runs[j] > 0

(* ... because every token that can become a report has been executed.     *)
RunInv ==
  /\ ReportedWasRun
  /\ \A m \in reports : runs[m.job] > 0
  /\ agentPc \in {"running", "store", "report"} => runs[agentJob] > 0

(* As long as nothing goes wrong every job is executed at most once: the   *)
(* reaper, the queue and several open requests alone never repeat one.     *)
RepeatNeedsFault == faults = 0 => \A j \in Jobs : runs[j] <= 1

(* The inductive invariant behind the three properties of writes: there is *)
(* at most one token that can still execute or report a write -- the       *)
(* answer that hands it out, the agent's hands, or the one report -- and   *)
(* every token fits what the cloud and the gateway have on record.         *)
Responding(h, j) == pollPc[h] = "respond" /\ pollJob[h] = j

WriteToken(j) ==
  /\ runs[j] <= 1
  /\ outcome[j] # "deferred"
  /\ \A h \in Polls : j \notin pollSeen[h]
  /\ status[j] # "claimed" =>
       /\ \A h \in Polls : ~Responding(h, j)
       /\ agentJob # j
       /\ \A m \in reports : m.job # j
  /\ status[j] \in {"absent", "queued"} => runs[j] = 0
  /\ \A h \in Polls : Responding(h, j) =>
       /\ runs[j] = 0
       /\ agentJob # j
       /\ \A m \in reports : m.job # j
       /\ \A g \in Polls : Responding(g, j) => g = h
  /\ agentJob = j => \A m \in reports : m.job # j
  /\ agentJob = j /\ agentPc \in {"record", "execute"} => runs[j] = 0
  /\ agentJob = j /\ agentPc \in {"running", "store", "report"} => runs[j] = 1
  /\ agentJob = j /\ agentPc = "report" => local[j] = outcome[j]
  /\ \A m \in reports : m.job = j =>
       /\ m.run = 1 /\ runs[j] = 1
       /\ m.status = outcome[j] /\ local[j] = outcome[j]
  /\ status[j] \in Terminal =>
       runs[j] = 1 /\ status[j] = outcome[j] /\ local[j] = outcome[j]

WriteInv == \A j \in WriteJobs : WriteToken(j)

(* The command thread holds a job exactly while it works on one, and an    *)
(* answer carries a job only between the claim and the response.           *)
HandsInv ==
  /\ agentJob # NoJob <=> agentPc \in {"record", "execute", "running", "store",
                                       "report"}
  /\ agentPc \in {"store", "report"} => outcome[agentJob] # "none"
  /\ \A h \in Polls : pollJob[h] # NoJob => pollPc[h] = "respond"

(* A claimed write never goes back to the queue (the reaper's exclusion of *)
(* bacnet_write_batch), not even through a set of stale claims that was    *)
(* read before.                                                            *)
WriteNeverRequeued ==
  [][\A j \in WriteJobs :
        status[j] \notin {"absent", "queued"} => status'[j] # "queued"]_status

(* For the writes the whole system is the small machine of WriteOnce:      *)
(* queued, handed out, sent at most once, reported after it was sent.      *)
Promise == INSTANCE WriteOnce WITH
  Writes <- WriteJobs,
  phase  <- [w \in WriteJobs |-> status[w]],
  sent   <- {w \in WriteJobs : runs[w] > 0}

WritePromise == Promise!Spec

(* "Jobs claimed longer than this without a result are considered stale    *)
(* and requeued" (config.py): a job that has a result is not requeued.     *)
ResultIsNotRequeued ==
  [][\A j \in Jobs : status[j] \in Terminal => status'[j] # "queued"]_status

(* With finitely many faults every job that is not a write gets a result   *)
(* that stays: the reaper recovers the abandoned claims, and what it       *)
(* requeued by mistake is executed again.  The one exception is a command  *)
(* thread that a storage error has ended for good.                         *)
ThreadIsLost == agentPc = "dead"

ReadsFinish ==
  \A j \in Jobs \ WriteJobs :
     <>[]ThreadIsLost \/ (status[j] = "queued" ~> [](status[j] \in Terminal))

(* A queued write is handed out by a living command thread: only a claimed *)
(* one can be left behind.                                                 *)
WritesLeaveQueue ==
  \A j \in WriteJobs :
     status[j] = "queued" ~> status[j] # "queued" \/ ThreadIsLost
=============================================================================
