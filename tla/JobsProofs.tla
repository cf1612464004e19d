----------------------------- MODULE JobsProofs -----------------------------
(***************************************************************************)
(* What EdgeJobs promises of BACnet writes, for every number of jobs, open *)
(* requests and faults; and, of CommandWait, that no notification is lost  *)
(* on a request that is about to wait.                                     *)
(***************************************************************************)
EXTENDS EdgeJobs, CommandWait, FiniteSetTheorems, TLAPS

USE EdgeJobsAssumption

(* The definitions every leaf about a step needs.                          *)
Types == TypeOK /\ HandsInv

(* The rank CreateJob gives a job is a number.                             *)
LEMMA RankIsNat ==
  1 + Cardinality({k \in Jobs : status[k] # "absent"}) \in Nat
<1>1. IsFiniteSet({k \in Jobs : status[k] # "absent"})
  BY FS_Subset
<1>2. QED
  BY <1>1, FS_CardinalityType

(* Variables keep their types, and the command thread and the open         *)
(* requests hold a job exactly where process_next_job and claim_next_job   *)
(* hold one.                                                               *)
THEOREM Typing == Spec => []Types
<1> USE DEF Types, TypeOK, HandsInv, Statuses, Terminal, PollPcs, AgentPcs,
            Report, Outcomes
<1>1. Init => Types
  BY DEF Init
<1>2. Types /\ [Next]_vars => Types'
  <2> SUFFICES ASSUME Types, [Next]_vars PROVE Types'
    OBVIOUS
  <2> USE DEF cloudVars, agentVars
  <2>1. ASSUME NEW j \in Jobs, CreateJob(j) PROVE Types'
    <3>1. createdAt' \in [Jobs -> Nat]
      BY <2>1, RankIsNat DEF CreateJob
    <3>2. QED
      BY <2>1, <3>1 DEF CreateJob
  <2>2. ASSUME NEW h \in Polls, ReadStale(h) PROVE Types'
    BY <2>2 DEF ReadStale, StaleClaims
  <2>3. ASSUME NEW h \in Polls, Requeue(h) PROVE Types'
    BY <2>3 DEF Requeue
  <2>4. ASSUME NEW h \in Polls, NEW j \in Jobs, Claim(h, j) PROVE Types'
    BY <2>4 DEF Claim, IsOldestQueued
  <2>5. ASSUME NEW h \in Polls, ClaimNothing(h) PROVE Types'
    BY <2>5 DEF ClaimNothing
  <2>6. ASSUME NEW h \in Polls, Wake(h) PROVE Types'
    BY <2>6 DEF Wake
  <2>7. ASSUME NEW h \in Polls, RespondToNobody(h) PROVE Types'
    BY <2>7 DEF RespondToNobody, FreePoll
  <2>8. ASSUME NEW m \in reports, ReceiveResult(m) PROVE Types'
    BY <2>8 DEF ReceiveResult
  <2>9. ASSUME NEW j \in Jobs, ClaimGrowsOld(j) PROVE Types'
    BY <2>9 DEF ClaimGrowsOld, Fault
  <2>10. ASSUME NEW h \in Polls, SendPoll(h) PROVE Types'
    BY <2>10 DEF SendPoll
  <2>11. ASSUME NEW h \in Polls, ReceivePoll(h) PROVE Types'
    BY <2>11 DEF ReceivePoll, FreePoll
  <2>12. CASE RecordClaimedJob
    BY <2>12 DEF RecordClaimedJob
  <2>13. CASE StartJob
    BY <2>13 DEF StartJob
  <2>14. CASE FinishJob
    BY <2>14 DEF FinishJob
  <2>15. CASE RecordJobResult
    BY <2>15 DEF RecordJobResult
  <2>16. CASE PostJobResult
    BY <2>16 DEF PostJobResult
  <2>17. ASSUME NEW h \in Polls, LoseResponse(h) PROVE Types'
    BY <2>17 DEF LoseResponse, FreePoll, Fault
  <2>18. CASE AbandonPoll
    BY <2>18 DEF AbandonPoll, Fault
  <2>19. ASSUME NEW m \in reports, LoseResult(m) PROVE Types'
    BY <2>19 DEF LoseResult, Fault
  <2>20. CASE StorageError
    BY <2>20 DEF StorageError, Fault
  <2>21. CASE Restart
    BY <2>21 DEF Restart, Fault
  <2>22. CASE UNCHANGED vars
    BY <2>22 DEF vars
  <2>23. QED
    BY <2>1, <2>2, <2>3, <2>4, <2>5, <2>6, <2>7, <2>8, <2>9, <2>10, <2>11,
       <2>12, <2>13, <2>14, <2>15, <2>16, <2>17, <2>18, <2>19, <2>20, <2>21,
       <2>22
    DEF Next, CloudStep, AgentStep, Faulty
<1>3. QED
  BY <1>1, <1>2, PTL DEF Spec

(* Every variable of the job queue, the open requests and the agent keeps  *)
(* its type.                                                               *)
THEOREM TypesHold == Spec => []TypeOK
<1>1. Types => TypeOK
  BY DEF Types
<1>2. QED
  BY <1>1, Typing, PTL

(* The token of a write is never doubled (see WriteInv): no request, crash *)
(* or late report brings back a write that was handed out.                 *)
THEOREM WriteTokens == Spec => []WriteInv
<1> USE DEF Types, TypeOK, HandsInv, Terminal, Responding, WriteToken
<1>1. Init => WriteInv
  BY DEF Init, WriteInv
<1>2. Types /\ Types' /\ WriteInv /\ [Next]_vars => WriteInv'
  <2> SUFFICES ASSUME Types, Types', WriteInv, [Next]_vars,
                      NEW w \in WriteJobs
               PROVE  WriteToken(w)'
    BY DEF WriteInv
  <2> w \in Jobs /\ WriteToken(w)
    BY DEF WriteInv
  <2> USE DEF cloudVars, agentVars
  <2>1. ASSUME NEW j \in Jobs, CreateJob(j) PROVE WriteToken(w)'
    BY <2>1 DEF CreateJob
  <2>2. ASSUME NEW h \in Polls, ReadStale(h) PROVE WriteToken(w)'
    BY <2>2 DEF ReadStale, StaleClaims
  <2>3. ASSUME NEW h \in Polls, Requeue(h) PROVE WriteToken(w)'
    BY <2>3 DEF Requeue
  <2>4. ASSUME NEW h \in Polls, NEW j \in Jobs, Claim(h, j)
        PROVE WriteToken(w)'
    BY <2>4 DEF Claim, IsOldestQueued
  <2>5. ASSUME NEW h \in Polls, ClaimNothing(h) PROVE WriteToken(w)'
    BY <2>5 DEF ClaimNothing
  <2>6. ASSUME NEW h \in Polls, Wake(h) PROVE WriteToken(w)'
    BY <2>6 DEF Wake
  <2>7. ASSUME NEW h \in Polls, RespondToNobody(h) PROVE WriteToken(w)'
    BY <2>7 DEF RespondToNobody, FreePoll
  <2>8. ASSUME NEW m \in reports, ReceiveResult(m) PROVE WriteToken(w)'
    BY <2>8 DEF ReceiveResult, Report
  <2>9. ASSUME NEW j \in Jobs, ClaimGrowsOld(j) PROVE WriteToken(w)'
    BY <2>9 DEF ClaimGrowsOld
  <2>10. ASSUME NEW h \in Polls, SendPoll(h) PROVE WriteToken(w)'
    BY <2>10 DEF SendPoll
  <2>11. ASSUME NEW h \in Polls, ReceivePoll(h) PROVE WriteToken(w)'
    BY <2>11 DEF ReceivePoll, FreePoll
  <2>12. CASE RecordClaimedJob
    BY <2>12 DEF RecordClaimedJob
  <2>13. CASE StartJob
    BY <2>13 DEF StartJob
  <2>14. CASE FinishJob
    BY <2>14 DEF FinishJob, Outcomes
  <2>15. CASE RecordJobResult
    BY <2>15 DEF RecordJobResult
  <2>16. CASE PostJobResult
    BY <2>16 DEF PostJobResult
  <2>17. ASSUME NEW h \in Polls, LoseResponse(h) PROVE WriteToken(w)'
    BY <2>17 DEF LoseResponse, FreePoll
  <2>18. CASE AbandonPoll
    BY <2>18 DEF AbandonPoll
  <2>19. ASSUME NEW m \in reports, LoseResult(m) PROVE WriteToken(w)'
    BY <2>19 DEF LoseResult
  <2>20. CASE StorageError
    BY <2>20 DEF StorageError
  <2>21. CASE Restart
    BY <2>21 DEF Restart
  <2>22. CASE UNCHANGED vars
    BY <2>22 DEF vars
  <2>23. QED
    BY <2>1, <2>2, <2>3, <2>4, <2>5, <2>6, <2>7, <2>8, <2>9, <2>10, <2>11,
       <2>12, <2>13, <2>14, <2>15, <2>16, <2>17, <2>18, <2>19, <2>20, <2>21,
       <2>22
    DEF Next, CloudStep, AgentStep, Faulty
<1>3. QED
  BY <1>1, <1>2, Typing, PTL DEF Spec

(* ui_approve_saved_point_write's job reaches the building at most once.   *)
THEOREM WriteAtMostOnce == Spec => []WriteRunsAtMostOnce
<1>1. WriteInv => WriteRunsAtMostOnce
  BY DEF WriteInv, WriteToken, WriteRunsAtMostOnce
<1>2. QED
  BY <1>1, WriteTokens, PTL

(* The reported status of a write is the outcome of its one execution.     *)
THEOREM WriteReports == Spec => []WriteReportIsTrue
<1>1. WriteInv => WriteReportIsTrue
  BY DEF WriteInv, WriteToken, WriteReportIsTrue
<1>2. QED
  BY <1>1, WriteTokens, PTL

(* A write that left the queue never returns to it.                        *)
THEOREM WriteStaysOut == Spec => WriteNeverRequeued
<1> DEFINE Stays == \A j \in WriteJobs :
             status[j] \notin {"absent", "queued"} => status'[j] # "queued"
<1>1. Types /\ WriteInv /\ [Next]_vars => [Stays]_status
  <2> SUFFICES ASSUME Types, WriteInv, [Next]_vars, status' # status,
                      NEW w \in WriteJobs,
                      status[w] \notin {"absent", "queued"}
               PROVE  status'[w] # "queued"
    OBVIOUS
  <2> w \in Jobs
    OBVIOUS
  <2> USE DEF cloudVars, agentVars, Types, TypeOK
  <2>1. ASSUME NEW j \in Jobs, CreateJob(j) PROVE status'[w] # "queued"
    BY <2>1 DEF CreateJob
  <2>2. ASSUME NEW h \in Polls, Requeue(h) PROVE status'[w] # "queued"
    BY <2>2 DEF Requeue, WriteInv, WriteToken
  <2>3. ASSUME NEW h \in Polls, NEW j \in Jobs, Claim(h, j)
        PROVE status'[w] # "queued"
    BY <2>3 DEF Claim
  <2>4. ASSUME NEW m \in reports, ReceiveResult(m) PROVE status'[w] # "queued"
    BY <2>4 DEF ReceiveResult, Report, Terminal
  <2>5. QED
    BY <2>1, <2>2, <2>3, <2>4
    DEF Next, vars, CloudStep, AgentStep, Faulty, ReadStale, ClaimNothing,
        Wake, RespondToNobody, FreePoll, ClaimGrowsOld, SendPoll, ReceivePoll,
        RecordClaimedJob, StartJob, FinishJob, RecordJobResult, PostJobResult,
        LoseResponse, AbandonPoll, LoseResult, StorageError, Restart
<1>2. QED
  BY <1>1, Typing, WriteTokens, PTL DEF Spec, WriteNeverRequeued

(* Results are accepted from any state of the row, and still a job that    *)
(* has one was executed.                                                   *)
THEOREM ReportedRan == Spec => []ReportedWasRun
<1> USE DEF RunInv, ReportedWasRun, Types, TypeOK, HandsInv, Terminal
<1>1. Init => RunInv
  BY DEF Init
<1>2. Types /\ RunInv /\ [Next]_vars => RunInv'
  <2> SUFFICES ASSUME Types, RunInv, [Next]_vars PROVE RunInv'
    OBVIOUS
  <2> USE DEF cloudVars, agentVars
  <2>1. ASSUME NEW j \in Jobs, CreateJob(j) PROVE RunInv'
    BY <2>1 DEF CreateJob
  <2>2. ASSUME NEW h \in Polls, Requeue(h) PROVE RunInv'
    BY <2>2 DEF Requeue
  <2>3. ASSUME NEW h \in Polls, NEW j \in Jobs, Claim(h, j) PROVE RunInv'
    BY <2>3 DEF Claim
  <2>4. ASSUME NEW m \in reports, ReceiveResult(m) PROVE RunInv'
    BY <2>4 DEF ReceiveResult, Report
  <2>5. CASE StartJob
    BY <2>5 DEF StartJob
  <2>6. CASE PostJobResult
    BY <2>6 DEF PostJobResult
  <2>7. CASE ~(\/ \E j \in Jobs : CreateJob(j)
               \/ \E h \in Polls : Requeue(h) \/ \E j \in Jobs : Claim(h, j)
               \/ \E m \in reports : ReceiveResult(m)
               \/ StartJob \/ PostJobResult)
    BY <2>7
    DEF Next, vars, CloudStep, AgentStep, Faulty, ReadStale, ClaimNothing,
        Wake, RespondToNobody, FreePoll, ClaimGrowsOld, SendPoll, ReceivePoll,
        RecordClaimedJob, FinishJob, RecordJobResult,
        LoseResponse, AbandonPoll, LoseResult, StorageError, Restart
  <2>8. QED
    BY <2>1, <2>2, <2>3, <2>4, <2>5, <2>6, <2>7
<1>3. QED
  BY <1>1, <1>2, Typing, PTL DEF Spec

(* Cloud, gateway and network together implement WriteOnce: every step is  *)
(* a step of that machine for one write, or none of its business.          *)
THEOREM WriteRefinement == Spec => WritePromise
<1> USE DEF Promise!Init, Promise!Next, Promise!vars, Promise!Create,
            Promise!HandOut, Promise!Send, Promise!Report, Promise!Move
<1>1. Init => Promise!Init
  BY DEF Init
<1>2. Types /\ WriteInv /\ [Next]_vars => [Promise!Next]_(Promise!vars)
  <2> SUFFICES ASSUME Types, WriteInv, [Next]_vars
               PROVE  [Promise!Next]_(Promise!vars)
    OBVIOUS
  <2> DEFINE Unseen == status' = status /\ runs' = runs
  <2>1. Unseen => [Promise!Next]_(Promise!vars)
    OBVIOUS
  <2> USE DEF cloudVars, agentVars, Types, TypeOK, Terminal
  <2>2. ASSUME NEW j \in Jobs, CreateJob(j)
        PROVE  [Promise!Next]_(Promise!vars)
    <3>1. CASE j \in WriteJobs
      <4>1. Promise!Create(j)
        BY <2>2, <3>1 DEF CreateJob
      <4>2. QED
        BY <4>1, <3>1
    <3>2. CASE j \notin WriteJobs
      BY <2>2, <3>2 DEF CreateJob
    <3>3. QED
      BY <3>1, <3>2
  <2>3. ASSUME NEW h \in Polls, Requeue(h)
        PROVE  [Promise!Next]_(Promise!vars)
    BY <2>3 DEF Requeue, WriteInv, WriteToken
  <2>4. ASSUME NEW h \in Polls, NEW j \in Jobs, Claim(h, j)
        PROVE  [Promise!Next]_(Promise!vars)
    <3>1. CASE j \in WriteJobs
      <4>1. Promise!HandOut(j)
        BY <2>4, <3>1 DEF Claim, IsOldestQueued
      <4>2. QED
        BY <4>1, <3>1
    <3>2. CASE j \notin WriteJobs
      BY <2>4, <3>2 DEF Claim
    <3>3. QED
      BY <3>1, <3>2
  <2>5. ASSUME NEW m \in reports, ReceiveResult(m)
        PROVE  [Promise!Next]_(Promise!vars)
    <3>1. CASE m.job \in WriteJobs
      <4>1. /\ status[m.job] = "claimed"
            /\ runs[m.job] > 0
        BY <3>1 DEF WriteInv, WriteToken
      <4>2. m.status \in {"completed", "failed"}
        BY <3>1 DEF WriteInv, WriteToken, Report
      <4>3. Promise!Report(m.job)
        BY <2>5, <3>1, <4>1, <4>2 DEF ReceiveResult
      <4>4. QED
        BY <4>3, <3>1
    <3>2. CASE m.job \notin WriteJobs
      BY <2>5, <3>2 DEF ReceiveResult, Report
    <3>3. QED
      BY <3>1, <3>2
  <2>6. CASE StartJob
    <3>1. CASE agentJob \in WriteJobs
      <4>1. status[agentJob] = "claimed" /\ runs[agentJob] = 0
        BY <2>6, <3>1 DEF StartJob, WriteInv, WriteToken
      <4>2. Promise!Send(agentJob)
        BY <2>6, <3>1, <4>1 DEF StartJob
      <4>3. QED
        BY <4>2, <3>1
    <3>2. CASE agentJob \notin WriteJobs
      BY <2>6, <3>2 DEF StartJob
    <3>3. QED
      BY <3>1, <3>2
  <2>7. CASE ~(\/ \E j \in Jobs : CreateJob(j)
               \/ \E h \in Polls : Requeue(h) \/ \E j \in Jobs : Claim(h, j)
               \/ \E m \in reports : ReceiveResult(m)
               \/ StartJob)
    <3>1. Unseen
      BY <2>7
      DEF Next, vars, CloudStep, AgentStep, Faulty, ReadStale, ClaimNothing,
          Wake, RespondToNobody, FreePoll, ClaimGrowsOld, SendPoll,
          ReceivePoll, RecordClaimedJob, FinishJob, RecordJobResult,
          PostJobResult, LoseResponse, AbandonPoll, LoseResult, StorageError,
          Restart
    <3>2. QED
      BY <3>1, <2>1
  <2>8. QED
    BY <2>2, <2>3, <2>4, <2>5, <2>6, <2>7
<1>3. QED
  BY <1>1, <1>2, Typing, WriteTokens, PTL DEF Spec, WritePromise, Promise!Spec

-----------------------------------------------------------------------------
(* CommandWait: the requests that wait and the notifications.              *)
HIDE EdgeJobsAssumption
USE CommandWaitAssumption

(* The requests that wait are the registered ones, only they are signalled *)
(* and a claim transaction has a row to commit.                            *)
Shape ==
  /\ WaitTypeOK
  /\ waiters = {h \in Requests : pc[h] = "waiting"}
  /\ \A w \in Writers : signals[w] \subseteq waiters
  /\ \A h \in Requests : pc[h] = "commit" <=> locked[h] \in QueuedJobs

(* A request reads the generation before it looks at the database.  So a   *)
(* row that it did not find, and whose notification is not counted in a    *)
(* later generation, is still to be notified: that is what the comparison  *)
(* in wait_after relies on.                                                *)
Uncounted(w, h) == w \in written /\ Notifies(w) /\ seen[h] = generation

JobSeen(w, h) ==
  /\ Uncounted(w, h) /\ w \in Claimable /\ pc[h] = "loop"
       => writerPc[w] = "committed"
  /\ Notifies(w) /\ w \in Claimable /\ pc[h] = "waiting" => Pending(w, h)

TunnelSeen(h) ==
  /\ Uncounted(Tunnel, h) /\ h \notin told
       /\ pc[h] \in {"select", "commit", "loop"}
       => writerPc[Tunnel] = "committed"
  /\ Notifies(Tunnel) /\ Tunnel \in written
       /\ h \notin told /\ pc[h] = "waiting"
       => Pending(Tunnel, h)

JobsSeen == aborts = 0 => \A w \in QueuedJobs, h \in Requests : JobSeen(w, h)
TunnelsSeen == \A h \in Requests : TunnelSeen(h)

(* Variables keep their types and the notifier's registry lists exactly    *)
(* the requests that wait (wait_after registers and removes them).         *)
THEOREM Registry == WaitSpec => []Shape
<1> USE DEF Shape, WaitTypeOK, Writers, RequestPcs
<1>1. WaitInit => Shape
  BY DEF WaitInit
<1>2. Shape /\ [WaitNext]_waitVars => Shape'
  <2> SUFFICES ASSUME Shape, [WaitNext]_waitVars PROVE Shape'
    OBVIOUS
  <2> USE DEF writerVars, pollVars
  <2>1. ASSUME NEW w \in Writers, CommitRow(w) PROVE Shape'
    BY <2>1 DEF CommitRow, AfterCommit
  <2>2. ASSUME NEW w \in Writers, Notify(w) PROVE Shape'
    BY <2>2 DEF Notify
  <2>3. ASSUME NEW w \in Writers, NEW h \in Requests, Signal(w, h) PROVE Shape'
    BY <2>3 DEF Signal
  <2>4. ASSUME NEW w \in Writers, NotifyReturns(w) PROVE Shape'
    BY <2>4 DEF NotifyReturns
  <2>5. ASSUME NEW h \in Requests, SendHeldPoll(h) PROVE Shape'
    BY <2>5 DEF SendHeldPoll, StartPass
  <2>6. ASSUME NEW h \in Requests, SetTunnelHeaders(h) PROVE Shape'
    BY <2>6 DEF SetTunnelHeaders
  <2>7. ASSUME NEW h \in Requests, NEW j \in QueuedJobs, LockJob(h, j)
        PROVE  Shape'
    BY <2>7 DEF LockJob
  <2>8. ASSUME NEW h \in Requests, CommitClaim(h) PROVE Shape'
    BY <2>8 DEF CommitClaim, Answer, EndRequest
  <2>9. ASSUME NEW h \in Requests, AbortClaim(h) PROVE Shape'
    BY <2>9 DEF AbortClaim, EndRequest
  <2>10. ASSUME NEW h \in Requests, FindNothing(h) PROVE Shape'
    <3>1. CASE Ends(h)
      <4>1. Answer(h, {})
        BY <2>10, <3>1 DEF FindNothing
      <4>2. /\ pc[h] = "select"
            /\ UNCHANGED <<written, writerPc, signals, generation, waiters,
                           event, locked, aborts>>
        BY <2>10 DEF FindNothing
      <4>3. /\ pc' = [pc EXCEPT ![h] = "off"]
            /\ answers' \subseteq Writers
            /\ seen' \in [Requests -> 0..generation]
            /\ told' \subseteq Requests
            /\ late' \in [Requests -> BOOLEAN]
            /\ first' \in [Requests -> BOOLEAN]
        BY <4>1 DEF Answer, EndRequest
      <4>4. QED
        BY <4>2, <4>3
    <3>2. CASE ~Ends(h)
      BY <2>10, <3>2 DEF FindNothing
    <3>3. QED
      BY <3>1, <3>2
  <2>11. ASSUME NEW h \in Requests, WaitAfter(h) PROVE Shape'
    BY <2>11 DEF WaitAfter, Register
  <2>12. ASSUME NEW h \in Requests, Woken(h) PROVE Shape'
    BY <2>12 DEF Woken, Deregister
  <2>13. ASSUME NEW h \in Requests, TimeOut(h) PROVE Shape'
    BY <2>13 DEF TimeOut, Deregister
  <2>14. ASSUME NEW h \in Requests, NextPass(h) PROVE Shape'
    BY <2>14 DEF NextPass, StartPass
  <2>15. CASE ConnectTunnel
    BY <2>15 DEF ConnectTunnel
  <2>16. CASE UNCHANGED waitVars
    BY <2>16 DEF waitVars
  <2>17. QED
    BY <2>1, <2>2, <2>3, <2>4, <2>5, <2>6, <2>7, <2>8, <2>9, <2>10, <2>11,
       <2>12, <2>13, <2>14, <2>15, <2>16
       DEF WaitNext, Notification, Pass, Wait
<1>3. QED
  BY <1>1, <1>2, PTL DEF WaitSpec

(* Every variable of the notifier and the held requests keeps its type; in *)
(* particular only registered waiters have an event that is set.           *)
THEOREM WaitTypesHold == WaitSpec => []WaitTypeOK
<1>1. Shape => WaitTypeOK
  BY DEF Shape
<1>2. QED
  BY <1>1, Registry, PTL

(* A queued job whose writer notifies is not missed by a request that goes *)
(* to sleep, unless a claim failed.                                        *)
THEOREM JobsAreSeen == WaitSpec => []JobsSeen
<1> USE DEF JobsSeen, JobSeen, Uncounted, Pending, Claimable, Notifies
<1>1. WaitInit => JobsSeen
  BY DEF WaitInit
<1>2. Shape /\ Shape' /\ JobsSeen /\ [WaitNext]_waitVars => JobsSeen'
  <2> SUFFICES ASSUME Shape, Shape', JobsSeen, [WaitNext]_waitVars, aborts' = 0,
                      NEW v \in QueuedJobs, NEW g \in Requests
               PROVE JobSeen(v, g)'
    BY DEF JobsSeen
  <2> USE DEF writerVars, pollVars, Shape, WaitTypeOK, Writers, RequestPcs
  <2>1. ASSUME NEW w \in Writers, CommitRow(w) PROVE JobSeen(v, g)'
    BY <2>1 DEF CommitRow, AfterCommit
  <2>2. ASSUME NEW w \in Writers, Notify(w) PROVE JobSeen(v, g)'
    BY <2>2 DEF Notify
  <2>3. ASSUME NEW w \in Writers, NEW h \in Requests, Signal(w, h)
        PROVE JobSeen(v, g)'
    BY <2>3 DEF Signal
  <2>4. ASSUME NEW w \in Writers, NotifyReturns(w) PROVE JobSeen(v, g)'
    BY <2>4 DEF NotifyReturns
  <2>5. ASSUME NEW h \in Requests, SendHeldPoll(h) PROVE JobSeen(v, g)'
    BY <2>5 DEF SendHeldPoll, StartPass
  <2>6. ASSUME NEW h \in Requests, SetTunnelHeaders(h) PROVE JobSeen(v, g)'
    BY <2>6 DEF SetTunnelHeaders
  <2>7. ASSUME NEW h \in Requests, NEW j \in QueuedJobs, LockJob(h, j)
        PROVE JobSeen(v, g)'
    <3>1. Claimable' \subseteq Claimable
      BY <2>7 DEF LockJob
    <3>2. CASE g = h
      <4>1. pc'[g] = "commit"
        BY <2>7, <3>2 DEF LockJob
      <4>2. QED
        BY <4>1
    <3>3. CASE g # h
      <4>1. pc'[g] = pc[g]
        BY <2>7, <3>3 DEF LockJob
      <4>2. JobSeen(v, g)
        BY <2>7 DEF LockJob
      <4>3. QED
        BY <2>7, <3>1, <4>1, <4>2 DEF LockJob
    <3>4. QED
      BY <3>2, <3>3
  <2>8. ASSUME NEW h \in Requests, CommitClaim(h) PROVE JobSeen(v, g)'
    BY <2>8 DEF CommitClaim, Answer, EndRequest
  <2>9. ASSUME NEW h \in Requests, AbortClaim(h) PROVE FALSE
    BY <2>9 DEF AbortClaim, EndRequest
  <2>10. ASSUME NEW h \in Requests, FindNothing(h) PROVE JobSeen(v, g)'
    BY <2>10 DEF FindNothing, Answer, EndRequest
  <2>11. ASSUME NEW h \in Requests, WaitAfter(h) PROVE JobSeen(v, g)'
    BY <2>11 DEF WaitAfter, Register
  <2>12. ASSUME NEW h \in Requests, Woken(h) PROVE JobSeen(v, g)'
    BY <2>12 DEF Woken, Deregister
  <2>13. ASSUME NEW h \in Requests, TimeOut(h) PROVE JobSeen(v, g)'
    BY <2>13 DEF TimeOut, Deregister
  <2>14. ASSUME NEW h \in Requests, NextPass(h) PROVE JobSeen(v, g)'
    BY <2>14 DEF NextPass, StartPass
  <2>15. CASE ConnectTunnel
    BY <2>15 DEF ConnectTunnel
  <2>16. CASE UNCHANGED waitVars
    BY <2>16 DEF waitVars
  <2>17. QED
    BY <2>1, <2>2, <2>3, <2>4, <2>5, <2>6, <2>7, <2>8, <2>9, <2>10, <2>11,
       <2>12, <2>13, <2>14, <2>15, <2>16
       DEF WaitNext, Notification, Pass, Wait
<1>3. QED
  BY <1>1, <1>2, Registry, PTL DEF WaitSpec

(* A requested tunnel that a pass did not see is not missed either; here   *)
(* failed claims do no harm, as nothing locks the row.                     *)
THEOREM TunnelsAreSeen == WaitSpec => []TunnelsSeen
<1> USE DEF TunnelsSeen, TunnelSeen, Uncounted, Pending, Notifies
<1>1. WaitInit => TunnelsSeen
  BY DEF WaitInit
<1>2. Shape /\ Shape' /\ TunnelsSeen /\ [WaitNext]_waitVars => TunnelsSeen'
  <2> SUFFICES ASSUME Shape, Shape', TunnelsSeen, [WaitNext]_waitVars,
                      NEW g \in Requests
               PROVE TunnelSeen(g)'
    BY DEF TunnelsSeen
  <2> USE DEF writerVars, pollVars, Shape, WaitTypeOK, Writers, RequestPcs
  <2>1. ASSUME NEW w \in Writers, CommitRow(w) PROVE TunnelSeen(g)'
    BY <2>1 DEF CommitRow, AfterCommit
  <2>2. ASSUME NEW w \in Writers, Notify(w) PROVE TunnelSeen(g)'
    BY <2>2 DEF Notify
  <2>3. ASSUME NEW w \in Writers, NEW h \in Requests, Signal(w, h)
        PROVE TunnelSeen(g)'
    BY <2>3 DEF Signal
  <2>4. ASSUME NEW w \in Writers, NotifyReturns(w) PROVE TunnelSeen(g)'
    BY <2>4 DEF NotifyReturns
  <2>5. ASSUME NEW h \in Requests, SendHeldPoll(h) PROVE TunnelSeen(g)'
    BY <2>5 DEF SendHeldPoll, StartPass
  <2>6. ASSUME NEW h \in Requests, SetTunnelHeaders(h) PROVE TunnelSeen(g)'
    <3>1. CASE g = h
      <4>1. pc'[g] = "select" /\ written' = written
        BY <2>6, <3>1 DEF SetTunnelHeaders
      <4>2. g \in told' <=> Tunnel \in written
        BY <2>6, <3>1 DEF SetTunnelHeaders
      <4>3. QED
        BY <4>1, <4>2
    <3>2. CASE g # h
      <4>1. pc'[g] = pc[g] /\ (g \in told' <=> g \in told)
        BY <2>6, <3>2 DEF SetTunnelHeaders
      <4>2. QED
        BY <2>6, <4>1 DEF SetTunnelHeaders
    <3>3. QED
      BY <3>1, <3>2
  <2>7. ASSUME NEW h \in Requests, NEW j \in QueuedJobs, LockJob(h, j)
        PROVE TunnelSeen(g)'
    BY <2>7 DEF LockJob
  <2>8. ASSUME NEW h \in Requests, CommitClaim(h) PROVE TunnelSeen(g)'
    BY <2>8 DEF CommitClaim, Answer, EndRequest
  <2>9. ASSUME NEW h \in Requests, AbortClaim(h) PROVE TunnelSeen(g)'
    BY <2>9 DEF AbortClaim, EndRequest
  <2>10. ASSUME NEW h \in Requests, FindNothing(h) PROVE TunnelSeen(g)'
    BY <2>10 DEF FindNothing, Answer, EndRequest
  <2>11. ASSUME NEW h \in Requests, WaitAfter(h) PROVE TunnelSeen(g)'
    BY <2>11 DEF WaitAfter, Register
  <2>12. ASSUME NEW h \in Requests, Woken(h) PROVE TunnelSeen(g)'
    BY <2>12 DEF Woken, Deregister
  <2>13. ASSUME NEW h \in Requests, TimeOut(h) PROVE TunnelSeen(g)'
    BY <2>13 DEF TimeOut, Deregister
  <2>14. ASSUME NEW h \in Requests, NextPass(h) PROVE TunnelSeen(g)'
    BY <2>14 DEF NextPass, StartPass
  <2>15. CASE ConnectTunnel
    BY <2>15 DEF ConnectTunnel
  <2>16. CASE UNCHANGED waitVars
    BY <2>16 DEF waitVars
  <2>17. QED
    BY <2>1, <2>2, <2>3, <2>4, <2>5, <2>6, <2>7, <2>8, <2>9, <2>10, <2>11,
       <2>12, <2>13, <2>14, <2>15, <2>16
       DEF WaitNext, Notification, Pass, Wait
<1>3. QED
  BY <1>1, <1>2, Registry, PTL DEF WaitSpec

(* CommandWaitNotifier's promise: a notification that races with the       *)
(* registration of a waiter causes a recheck instead of a miss.            *)
THEOREM NoWakeupIsLost == WaitSpec => []NoLostWakeup
<1>1. Shape /\ JobsSeen /\ TunnelsSeen => NoLostWakeup
  BY DEF Shape, JobsSeen, JobSeen, TunnelsSeen, TunnelSeen, NoLostWakeup,
         Claimable
<1>2. QED
  BY <1>1, Registry, JobsAreSeen, TunnelsAreSeen, PTL
=============================================================================
