----------------------------- MODULE WriteBatch -----------------------------
(***************************************************************************)
(* One staged BACnet write batch: the rows of bacnet_write_batches and     *)
(* bacnet_write_commands, the approval that turns it into one write job    *)
(* per device, and the claim and result transactions of those jobs, each   *)
(* of which recomputes the status of the whole batch.                      *)
(*                                                                         *)
(* The database runs at READ COMMITTED and none of these transactions      *)
(* locks the batch row before it reads, so a transaction is two steps: it  *)
(* reads (Begin...), and later its writes become visible (Commit...).  At  *)
(* most MaxOpen of them overlap.  Whether approvals may is a parameter of   *)
(* its own; doubtful remembers that another transaction had committed      *)
(* since the last one to commit had read.                                  *)
(*                                                                         *)
(* Between the two the jobs behave as EdgeJobs shows: a write job is       *)
(* handed out, sent and reported at most once each (WriteOnce), and one    *)
(* whose answer is lost stays claimed for good.                            *)
(***************************************************************************)
EXTENDS Naturals, FiniteSets

CONSTANTS
  Commands,   \* the writes of the batch
  Devices,    \* BACnet devices
  DeviceOf,   \* the device each command addresses
  Approvers,  \* approval requests (two operators, or one double-click)
  MaxOpen,    \* transactions that may be open at once
  ApprovalsOverlap,  \* whether two approvals may be open at once
  NoJob,      \* edge_job_id before the approval
  NoTxn       \* no transaction is open for a job

(* approve creates one job per device that has commands.                   *)
Jobs == Approvers \X {DeviceOf[c] : c \in Commands}
CommandsFor(j) == {c \in Commands : DeviceOf[c] = j[2]}

VARIABLES
  batch,     \* bacnet_write_batches.status
  command,   \* bacnet_write_commands.status
  jobOf,     \* bacnet_write_commands.edge_job_id
  job,       \* edge_jobs.status of the write jobs
  approval,  \* where each approval request is
  open,      \* the writes of each open claim or result transaction
  reply,     \* what the edge answered for each command of a job
  sentBy,    \* the jobs that sent the command's value to the building
  \* history:
  overtaken, \* open transactions that read before another committed
  doubtful   \* the last transaction to commit was overtaken

history == <<overtaken, doubtful>>
vars == <<batch, command, jobOf, job, approval, open, reply, sentBy, history>>

Settled == {"completed", "failed", "deferred", "partial"}
BatchStatuses == {"absent", "pending_approval", "queued", "claimed"}
                   \cup Settled
CommandStatuses == {"absent", "pending_approval", "queued", "claimed",
                    "succeeded", "failed", "deferred"}
Finished == {"succeeded", "failed", "deferred"}

(* One entry of the results in a job's answer; "omitted" where there is    *)
(* none, as for every command when the dispatch itself failed, "deferred"  *)
(* where the whole job is put off.                                         *)
Answers == {"ok", "error", "omitted", "deferred"}

(* An open transaction: command statuses and the batch status it will      *)
(* write; "keep" where the ORM saw no change and emits no UPDATE.          *)
Keep == "keep"
Txn == [commands : [Commands -> CommandStatuses \cup {Keep}],
        batch    : BatchStatuses \cup {Keep}]

ASSUME WriteBatchAssumption ==
  /\ Commands # {} /\ IsFiniteSet(Commands)
  /\ DeviceOf \in [Commands -> Devices]
  /\ NoJob \notin Approvers \X Devices
  /\ NoTxn \notin Txn
  /\ MaxOpen \in Nat \ {0} /\ ApprovalsOverlap \in BOOLEAN

TypeOK ==
  /\ batch    \in BatchStatuses
  /\ command  \in [Commands -> CommandStatuses]
  /\ jobOf    \in [Commands -> Jobs \cup {NoJob}]
  /\ job      \in [Jobs -> {"absent", "queued", "claimed", "sent", "done"}]
  /\ approval \in [Approvers -> {"idle", "checked", "refused", "done"}]
  /\ open     \in [Jobs -> Txn \cup {NoTxn}]
  /\ reply    \in [Jobs -> [Commands -> Answers]]
  /\ sentBy   \in [Commands -> SUBSET Jobs]
  /\ overtaken \in SUBSET Jobs /\ doubtful \in BOOLEAN

Init ==
  /\ batch    = "absent"
  /\ command  = [c \in Commands |-> "absent"]
  /\ jobOf    = [c \in Commands |-> NoJob]
  /\ job      = [j \in Jobs |-> "absent"]
  /\ approval = [a \in Approvers |-> "idle"]
  /\ open     = [j \in Jobs |-> NoTxn]
  /\ reply    = [j \in Jobs |-> [c \in Commands |-> "omitted"]]
  /\ sentBy   = [c \in Commands |-> {}]
  /\ overtaken = {} /\ doubtful = FALSE

OpenTxns      == {j \in Jobs : open[j] # NoTxn}
OpenApprovals == {a \in Approvers : approval[a] = "checked"}
OpenCount     == Cardinality(OpenTxns) + Cardinality(OpenApprovals)

MayApprove ==
  OpenCount < MaxOpen /\ (ApprovalsOverlap \/ OpenApprovals = {})

BeginJobTxn(j, txn) ==
  /\ open[j] = NoTxn
  /\ OpenCount < MaxOpen
  /\ open' = [open EXCEPT ![j] = txn]

-----------------------------------------------------------------------------
(* The status _refresh_write_batch_status derives from the commands.       *)
AggregateVerbatim(commands) ==
  IF \A c \in Commands : commands[c] = "succeeded" THEN "succeeded"
                                                   ELSE "claimed"

Aggregate(commands) ==
  LET seen == {commands[c] : c \in Commands} IN
  IF "claimed" \in seen THEN "claimed"
  ELSE IF "queued" \in seen THEN "queued"
  ELSE IF seen = {"succeeded"} THEN "completed"
  ELSE IF seen = {"failed"} THEN "failed"
  ELSE IF seen = {"deferred"} THEN "deferred"
  ELSE "partial"

(* A transaction sees its own writes, which it flushes before it reads     *)
(* again, and what others have committed.                                  *)
Overlay(writes) ==
  [c \in Commands |-> IF writes[c] = Keep THEN command[c] ELSE writes[c]]

RefreshUnflushed(writes) ==
  LET status == Aggregate(command) IN
  [commands |-> writes, batch |-> IF status = batch THEN Keep ELSE status]

RefreshWaiting(writes) ==
  LET status == Aggregate(Overlay(writes)) IN
  [commands |-> writes,
   batch |-> IF status \in {batch, "partial"} THEN Keep ELSE status]

RefreshOwnCommands(writes) ==
  LET mine == {c \in Commands : writes[c] # Keep}
      seen == [c \in Commands |->
                 IF mine = {} THEN command[c]
                 ELSE IF c \in mine THEN writes[c]
                 ELSE writes[CHOOSE m \in mine : TRUE]]
      status == Aggregate(seen)
  IN [commands |-> writes, batch |-> IF status = batch THEN Keep ELSE status]

RefreshTxn(writes) ==
  LET status == Aggregate(Overlay(writes)) IN
  [commands |-> writes, batch |-> IF status = batch THEN Keep ELSE status]

(* The claim and the result transaction of job j: the given writes to the  *)
(* commands that name it and, where there are any, a refresh of the batch. *)
CommandsNaming(j) == {c \in Commands : jobOf[c] = j}

JobTxn(j, writes) ==
  IF CommandsNaming(j) = {} THEN [commands |-> writes, batch |-> Keep]
                            ELSE RefreshTxn(writes)

(* A command succeeded only where the answer says so ("ok is True").       *)
StatusUnlessError(answer) ==
  IF answer = "error" THEN "failed"
  ELSE IF answer = "deferred" THEN "deferred" ELSE "succeeded"

StatusOf(answer) ==
  IF answer = "ok" THEN "succeeded"
  ELSE IF answer = "deferred" THEN "deferred" ELSE "failed"

Stage ==
  /\ batch = "absent"
  /\ batch' = "pending_approval"
  /\ command' = [c \in Commands |-> "pending_approval"]
  /\ UNCHANGED <<jobOf, job, approval, open, reply, sentBy, history>>

(* ui_approve_saved_point_write reads the batch and refuses with 409 ...   *)
BeginUnguardedApproval(a) ==
  /\ approval[a] = "idle"
  /\ batch # "absent"
  /\ MayApprove
  /\ approval' = [approval EXCEPT ![a] = "checked"]
  /\ UNCHANGED <<batch, command, jobOf, job, open, reply, sentBy, history>>

BeginApproval(a) ==
  /\ approval[a] = "idle"
  /\ batch # "absent"
  /\ MayApprove
  /\ approval' = [approval EXCEPT
       ![a] = IF batch = "pending_approval" THEN "checked" ELSE "refused"]
  /\ UNCHANGED <<batch, command, jobOf, job, open, reply, sentBy, history>>

(* ... or writes one job per device and points the commands at it.         *)
CommitApproval(a) ==
  /\ approval[a] = "checked"
  /\ approval' = [approval EXCEPT ![a] = "done"]
  /\ batch' = "queued"
  /\ command' = [c \in Commands |-> "queued"]
  /\ jobOf' = [c \in Commands |-> <<a, DeviceOf[c]>>]
  /\ job' = [j \in Jobs |-> IF j[1] = a THEN "queued" ELSE job[j]]
  /\ overtaken' = OpenTxns /\ doubtful' = FALSE
  /\ UNCHANGED <<open, reply, sentBy>>

(* _claim_next_job_once for a write job: its queued commands are claimed,  *)
(* and the batches of all of its commands are refreshed.                   *)
BeginClaim(j) ==
  /\ job[j] = "queued"
  /\ BeginJobTxn(j, JobTxn(j, [c \in Commands |->
       IF c \in CommandsNaming(j) /\ command[c] = "queued"
       THEN "claimed" ELSE Keep]))
  /\ UNCHANGED <<batch, command, jobOf, job, approval, reply, sentBy, history>>

(* dispatch_bacnet_write_batch: the adapter sends the values of the job to *)
(* the building and answers for each, or for some, of them; or the         *)
(* dispatch fails before or after that and answers for none.  The edge     *)
(* defers no write.                                                        *)
SendWrites(j) ==
  /\ job[j] = "claimed" /\ open[j] = NoTxn
  /\ job' = [job EXCEPT ![j] = "sent"]
  /\ \E sent \in BOOLEAN,
        answer \in [CommandsFor(j) -> Answers \ {"deferred"}] :
        /\ ~sent => \A c \in CommandsFor(j) : answer[c] = "omitted"
        /\ sentBy' = [c \in Commands |->
             IF sent /\ c \in CommandsFor(j) THEN sentBy[c] \cup {j}
                                             ELSE sentBy[c]]
        /\ reply' = [reply EXCEPT ![j] = [c \in Commands |->
             IF c \in CommandsFor(j) THEN answer[c] ELSE "omitted"]]
  /\ UNCHANGED <<batch, command, jobOf, approval, open, history>>

(* receive_job_result and _reconcile_bacnet_write_result: the commands     *)
(* that still name this job get the answers, their batch is refreshed.     *)
BeginResult(j) ==
  /\ job[j] = "sent"
  /\ BeginJobTxn(j, JobTxn(j, [c \in Commands |->
       IF c \in CommandsNaming(j) THEN StatusOf(reply[j][c]) ELSE Keep]))
  /\ UNCHANGED <<batch, command, jobOf, job, approval, reply, sentBy, history>>

CommitJobTxn(j) ==
  /\ open[j] # NoTxn
  /\ command' = Overlay(open[j].commands)
  /\ batch' = IF open[j].batch = Keep THEN batch ELSE open[j].batch
  /\ job' = [job EXCEPT ![j] = IF @ = "queued" THEN "claimed" ELSE "done"]
  /\ open' = [open EXCEPT ![j] = NoTxn]
  /\ doubtful' = (j \in overtaken) /\ overtaken' = OpenTxns \ {j}
  /\ UNCHANGED <<jobOf, approval, reply, sentBy>>

Approve == \E a \in Approvers : BeginApproval(a) \/ CommitApproval(a)
JobStep(j) ==
  BeginClaim(j) \/ SendWrites(j) \/ BeginResult(j) \/ CommitJobTxn(j)

Next == Stage \/ Approve \/ \E j \in Jobs : JobStep(j)

Spec == Init /\ [][Next]_vars

-----------------------------------------------------------------------------
(* A settled batch tells the truth about its commands, whatever claims and *)
(* results overlapped: operators decide from this status whether a write   *)
(* took place.                                                             *)
SettledBatchIsRight == batch \in Settled => batch = Aggregate(command)

(* The stored status is the one the commands add up to, whatever claims    *)
(* and results overlapped, unless the last to commit had read before       *)
(* another did: the next one that nothing overtakes puts the status right, *)
(* and a batch whose last answer was recorded so is settled.               *)
StatusFollowsCommands ==
  ~doubtful /\ batch \notin {"absent", "pending_approval"}
    => batch = Aggregate(command)

(* "BACnet writes: protected by the staged/approval batch flow" against a  *)
(* repeated request (cloud-platform-failure-recovery.md): a command's      *)
(* value is sent to the building by one job only.  It holds where          *)
(* approvals do not overlap.                                               *)
SentOnce == \A c \in Commands : Cardinality(sentBy[c]) <= 1

(* The audit row of a command that succeeded names the job that sent the   *)
(* value and was answered ok for it; any other answer of that job, a       *)
(* missing one too, leaves it failed.  Overlapping claims and results of   *)
(* other jobs do not change that.                                          *)
AuditIsTrue ==
  \A c \in Commands : command[c] \in Finished =>
     LET ok == reply[jobOf[c]][c] = "ok" IN
     /\ command[c] = "succeeded" <=> ok
     /\ ok => jobOf[c] \in sentBy[c]
=============================================================================
