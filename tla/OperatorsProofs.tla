--------------------------- MODULE OperatorsProofs ---------------------------
(***************************************************************************)
(* What operators do in the cloud.                                         *)
(*                                                                         *)
(* Access: what an operator sees grows only by grants.  Memberships are    *)
(* never removed, so an operator who has a scope keeps one, and the sites  *)
(* shown to everybody without a scope are not shown to them again.         *)
(* Approvals stand while an account is invited.                            *)
(*                                                                         *)
(* Sessions: an operator who uses the open pages is not signed out.        *)
(*                                                                         *)
(* WriteBatch: a batch of writes that settles tells the truth, in its      *)
(* status and in its audit rows, for any number of commands, devices and   *)
(* overlapping claims and results, as long as approvals do not overlap.    *)
(***************************************************************************)
EXTENDS Sessions, WriteBatch, FiniteSetTheorems, TLAPS

(* Accounts are not deleted, so one that an invitation has read is there.  *)
AccountsStay ==
  \A u \in Operators :
    inviting[u] \in Accounts \ {NoAccount} => account[u] # NoAccount

AccessInv == AccessTypeOK /\ AccountsStay

LEMMA AccessInvariant == AccessSpec => []AccessInv
<1>1. AccessInit => AccessInv
  BY AccessAssumption DEF AccessInit, AccessTypeOK, Accounts, NoAccount,
     NoInvitation, AccessInv, AccountsStay, Statuses, Roles
<1>2. AccessInv /\ [AccessNext]_accessVars => AccessInv'
  <2> SUFFICES ASSUME AccessInv, [AccessNext]_accessVars
               PROVE  AccessInv'
    OBVIOUS
  <2> USE AccessAssumption DEF AccessTypeOK, AccessInv, AccountsStay
  <2> NoInvitation \notin Accounts
    BY DEF NoInvitation, Accounts, NoAccount, Statuses, Roles
  <2> Pending \in Accounts /\ NoAccount \in Accounts
    BY DEF Accounts, Pending, NoAccount, Roles, Statuses
  <2>1. CASE \E u \in Operators : Register(u)
    BY <2>1 DEF Register, Registered, grantVars
  <2>2. CASE \E u \in Operators : InviteStarts(u)
    <3> PICK u \in Operators : InviteStarts(u)
      BY <2>2
    <3>1. AccessTypeOK'
      BY DEF InviteStarts, Edit, grantVars
    <3>2. AccountsStay'
      BY DEF InviteStarts
    <3> QED  BY <3>1, <3>2
  <2>3. CASE \E u \in Operators : InviteFails(u)
    BY <2>3 DEF InviteFails, grantVars
  <2>4. CASE \E u \in Operators : InviteEnds(u)
    <3> PICK u \in Operators : InviteEnds(u)
      BY <2>4
    <3>1. Invited(inviting[u], account[u]) \in Accounts
      <4>1. CASE inviting[u] = NoAccount
        BY <4>1 DEF Invited
      <4>2. CASE inviting[u] # NoAccount
        <5> DEFINE status == Written(inviting[u].status, "pending",
                                     account[u].status)
                   role == Written(inviting[u].role, "pending",
                                   account[u].role)
        <5>1. account[u] # NoAccount
          BY <4>2 DEF InviteEnds
        <5>2. status \in Statuses /\ role \in Roles
          BY <5>1 DEF Written, Accounts, Statuses, Roles
        <5> QED  BY <4>2, <5>2 DEF Invited, Accounts
      <4> QED  BY <4>1, <4>2
    <3>2. AccessTypeOK'
      BY <3>1 DEF InviteEnds, grantVars
    <3>3. account[u] # NoAccount => account'[u] # NoAccount
      BY DEF InviteEnds, Invited, Pending, NoAccount, Written, Accounts,
         Statuses
    <3>4. AccountsStay'
      BY <3>3 DEF InviteEnds
    <3> QED  BY <3>2, <3>4
  <2>5. CASE \E u \in Operators, status \in Statuses, role \in Roles :
               Upsert(u, status, role)
    <3> PICK u \in Operators, status \in Statuses, role \in Roles :
               Upsert(u, status, role)
      BY <2>5
    <3>1. /\ [status |-> status, role |-> role] \in Accounts
          /\ [status |-> status, role |-> role] # NoAccount
      BY DEF Accounts, NoAccount, Statuses
    <3>2. AccessTypeOK'
      BY <3>1 DEF Upsert, Edit, grantVars
    <3>3. AccountsStay'
      BY <3>1 DEF Upsert, grantVars
    <3> QED  BY <3>2, <3>3
  <2>6. CASE \E u \in Operators, o \in Organizations : JoinOrganization(u, o)
    BY <2>6 DEF JoinOrganization, Edit
  <2>7. CASE \E u \in Operators, s \in Sites : JoinSite(u, s)
    BY <2>7 DEF JoinSite, Edit
  <2>8. CASE \E o \in Organizations : CreateOrganization(o)
    BY <2>8 DEF CreateOrganization, Edit
  <2>9. CASE \E s \in Sites : NewSite(s)
    BY <2>9 DEF NewSite
  <2>10. CASE \E s \in Sites, o \in Organizations : AssignSite(s, o)
    BY <2>10 DEF AssignSite, Edit
  <2>11. CASE UNCHANGED accessVars
    BY <2>11 DEF accessVars, grantVars
  <2> QED
    BY <2>1, <2>2, <2>3, <2>4, <2>5, <2>6, <2>7, <2>8, <2>9, <2>10, <2>11
       DEF AccessNext
<1> QED  BY <1>1, <1>2, PTL DEF AccessSpec

(* Every account, membership and site is one of those that exist.          *)
THEOREM AccessTypeCorrect == AccessSpec => []AccessTypeOK
<1>1. AccessInv => AccessTypeOK  BY DEF AccessInv
<1> QED  BY <1>1, AccessInvariant, PTL

-----------------------------------------------------------------------------
(* Memberships, organizations and sites only grow.                         *)
LEMMA GrantsStay ==
  ASSUME [AccessNext]_accessVars
  PROVE  /\ siteMember \subseteq siteMember' /\ orgMember \subseteq orgMember'
         /\ organizations \subseteq organizations' /\ sites \subseteq sites'
  <1>1. CASE \E u \in Operators :
               \/ Register(u) \/ InviteStarts(u) \/ InviteFails(u)
               \/ InviteEnds(u)
               \/ \E status \in Statuses, role \in Roles :
                    Upsert(u, status, role)
    BY <1>1 DEF Register, InviteStarts, InviteFails, InviteEnds, Upsert,
       grantVars
  <1>2. CASE \E u \in Operators :
               \/ \E o \in Organizations : JoinOrganization(u, o)
               \/ \E s \in Sites : JoinSite(u, s)
    BY <1>2 DEF JoinOrganization, JoinSite
  <1>3. CASE \/ \E o \in Organizations : CreateOrganization(o)
             \/ \E s \in Sites :
                  NewSite(s) \/ \E o \in Organizations : AssignSite(s, o)
    BY <1>3 DEF CreateOrganization, NewSite, AssignSite
  <1>4. CASE UNCHANGED accessVars
    BY <1>4 DEF accessVars, grantVars
  <1> QED  BY <1>1, <1>2, <1>3, <1>4 DEF AccessNext

(* An operator who has a scope keeps one.                                  *)
LEMMA ScopeStays ==
  ASSUME AccessTypeOK, [AccessNext]_accessVars, NEW u \in Operators,
         IsScoped(u)
  PROVE  IsScoped(u)'
  <1>1. CASE \E o \in organizations : <<u, o>> \in orgMember
    BY <1>1, GrantsStay DEF IsScoped
  <1>2. CASE Granted(u) # {}
    <2>1. PICK s \in sites : \/ <<u, s>> \in siteMember
                              \/ <<u, organizationOf[s]>> \in orgMember
      BY <1>2 DEF Granted
    <2>2. CASE <<u, s>> \in siteMember
      <3>1. s \in sites' /\ <<u, s>> \in siteMember'
        BY <2>2, GrantsStay
      <3>2. s \in Granted(u)'
        BY <3>1 DEF Granted
      <3> QED  BY <3>2 DEF IsScoped
    <2>3. CASE <<u, organizationOf[s]>> \in orgMember
      <3>1. organizationOf[s] \in organizations
        BY <2>3 DEF AccessTypeOK
      <3> QED  BY <2>3, <3>1, <1>1
    <2> QED  BY <2>1, <2>2, <2>3
  <1> QED  BY <1>1, <1>2 DEF IsScoped

(* An operator comes to see a site only by a grant or as administrator,    *)
(* however sites move and whatever is created, for all sets of operators,  *)
(* organizations and sites and both ways to treat those with no scope.     *)
THEOREM VisibilityNeedsGrantTheorem == AccessSpec => VisibilityNeedsGrant
<1> DEFINE Fair == \A u \in Operators, s \in sites :
       s \notin Visible(u) /\ s \in Visible(u)' =>
         IsPlatformAdmin(u)' \/ s \in Granted(u)'
<1>1. AccessInv /\ [AccessNext]_accessVars => [Fair]_accessVars
  <2> SUFFICES ASSUME AccessTypeOK, [AccessNext]_accessVars,
                      NEW u \in Operators, NEW s \in sites,
                      s \notin Visible(u), s \in Visible(u)',
                      ~IsPlatformAdmin(u)'
               PROVE  s \in Granted(u)'
    BY DEF AccessInv
  <2>1. ~IsPlatformAdmin(u)
    BY DEF Visible
  <2>2. CASE IsScoped(u)'
    BY <2>2 DEF Visible
  <2>3. CASE ~IsScoped(u)'
    <3>1. ~IsScoped(u)
      BY <2>3, ScopeStays
    <3>2. RequireExplicitMembership
      BY <2>1, <3>1 DEF Visible
    <3>3. Visible(u)' = {}
      BY <2>3, <3>2 DEF Visible
    <3> QED  BY <3>3
  <2> QED  BY <2>2, <2>3
<1>2. AccessSpec => [][Fair]_accessVars
  BY <1>1, AccessInvariant, PTL DEF AccessSpec
<1> QED  BY <1>2 DEF VisibilityNeedsGrant

-----------------------------------------------------------------------------
(* Access: an approval that comes while an invitation is under way.        *)

(* The UPDATE of an invitation that has read what it assigns names no      *)
(* column.                                                                 *)
LEMMA InvitedChangesNothing ==
  ASSUME NEW stored \in Accounts, stored # NoAccount,
         NEW read \in {NoAccount, Pending}
  PROVE  Invited(read, stored) = stored
<1>1. CASE read = NoAccount
  BY <1>1 DEF Invited
<1>2. CASE read = Pending
  <2>1. Pending # NoAccount /\ Pending.status = "pending"
        /\ Pending.role = "pending"
    BY DEF Pending, NoAccount
  <2>2. Invited(read, stored) =
          [status |-> stored.status, role |-> stored.role]
    BY <1>2, <2>1 DEF Invited, Written
  <2> QED  BY <2>2 DEF Accounts
<1> QED  BY <1>1, <1>2

(* An account that is approved while invite_operator_user waits for        *)
(* Supabase stays as the administrator set it, unless the invitation had   *)
(* read an account that was blocked or had a role.  Assumes                *)
(* AccessAssumption.                                                       *)
THEOREM ApprovalTheorem == AccessSpec => ApprovalStands
<1> DEFINE Stands == \A u \in Operators :
      account[u].status = "active" /\ InvitedAsPending(u) =>
        account'[u] = account[u] \/ IsUpserted(u)
<1>1. AccessInv /\ [AccessNext]_accessVars => [Stands]_accessVars
  <2> SUFFICES ASSUME AccessTypeOK, AccessNext, NEW u \in Operators,
                      account[u].status = "active", InvitedAsPending(u),
                      account'[u] # account[u]
               PROVE  IsUpserted(u)
    BY DEF AccessInv
  <2>1. /\ account \in [Operators -> Accounts] /\ account[u] \in Accounts
        /\ account[u] # NoAccount
    BY DEF AccessTypeOK, NoAccount
  <2>2. account' # account
    OBVIOUS
  <2>3. ASSUME NEW v \in Operators
        PROVE  ~Register(v) /\ ~InviteEnds(v)
    <3>1. ~Register(v)
      BY <2>1 DEF Register, Registered
    <3>2. ASSUME InviteEnds(v) PROVE FALSE
      <4>1. /\ inviting[v] # NoInvitation
            /\ account' = [account EXCEPT ![v] = Invited(inviting[v], @)]
        BY <3>2 DEF InviteEnds
      <4>2. v = u
        BY <2>1, <4>1
      <4>3. inviting[u] \in {NoAccount, Pending}
        BY <4>1, <4>2 DEF InvitedAsPending
      <4>4. Invited(inviting[u], account[u]) = account[u]
        BY <2>1, <4>3, InvitedChangesNothing
      <4> QED  BY <2>1, <4>1, <4>2, <4>4
    <3> QED  BY <3>1, <3>2
  <2>4. ASSUME NEW v \in Operators
        PROVE  /\ ~InviteStarts(v) /\ ~InviteFails(v)
               /\ \A o \in Organizations : ~JoinOrganization(v, o)
               /\ \A s \in Sites : ~JoinSite(v, s)
    BY <2>2 DEF InviteStarts, InviteFails, JoinOrganization, JoinSite
  <2>5. /\ \A o \in Organizations : ~CreateOrganization(o)
        /\ \A s \in Sites : /\ ~NewSite(s)
                            /\ \A o \in Organizations : ~AssignSite(s, o)
    BY <2>2 DEF CreateOrganization, NewSite, AssignSite
  <2>6. PICK v \in Operators, status \in Statuses, role \in Roles :
          Upsert(v, status, role)
    BY <2>3, <2>4, <2>5 DEF AccessNext
  <2>7. v = u
    BY <2>1, <2>6 DEF Upsert
  <2> QED  BY <2>6, <2>7 DEF IsUpserted
<1>2. AccessSpec => [][Stands]_accessVars
  BY <1>1, AccessInvariant, PTL DEF AccessSpec
<1> QED  BY <1>2 DEF ApprovalStands

-----------------------------------------------------------------------------
(* WriteBatch.                                                             *)
Unapproved == {"absent", "pending_approval"}

(* Before the approval there is nothing but the staged commands.           *)
NothingBeforeApproval ==
  batch \in Unapproved =>
    /\ \A a \in Approvers : approval[a] # "done"
    /\ \A j \in Jobs : job[j] = "absent"
    /\ \A c \in Commands : command[c] = batch

(* Approvals that do not overlap: one at most has passed the check, and    *)
(* none passes it later.                                                   *)
OneChecked ==
  \A a, b \in Approvers : approval[a] = "checked" =>
    batch = "pending_approval" /\ (approval[b] = "checked" => a = b)

(* The commands name the jobs that exist.                                  *)
JobsOwnCommands ==
  /\ \A j \in Jobs, c \in Commands : job[j] # "absent" =>
       (jobOf[c] = j <=> DeviceOf[c] = j[2])
  /\ batch \notin Unapproved => \A c \in Commands : jobOf[c] \in Jobs

(* How far a job is shows in its commands.                                 *)
CommandsFollowJobs ==
  \A j \in Jobs : \A c \in CommandsNaming(j) :
    /\ job[j] # "absent"
    /\ job[j] = "queued" => command[c] = "queued"
    /\ job[j] \in {"claimed", "sent"} => command[c] = "claimed"
    /\ job[j] = "done" => command[c] = StatusOf(reply[j][c])

(* An open transaction writes the commands of its job ...                  *)
TxnWritesItsCommands ==
  \A j \in Jobs : open[j] # NoTxn =>
    /\ job[j] \in {"queued", "sent"} /\ open[j].batch \notin Unapproved
    /\ \A c \in Commands : open[j].commands[c] =
         IF c \notin CommandsNaming(j) THEN Keep
         ELSE IF job[j] = "queued" THEN "claimed" ELSE StatusOf(reply[j][c])

(* ... and settles the batch only if it is the last one.                   *)
LastTxnSettles ==
  \A j \in Jobs : open[j] # NoTxn /\ open[j].batch \in Settled =>
    /\ open[j].batch = Aggregate(Overlay(open[j].commands))
    /\ \A c \in Commands : c \notin CommandsNaming(j) => command[c] \in Finished

(* A transaction that was not overtaken will leave the batch with what its *)
(* commands add up to.                                                     *)
After(t) == IF t.batch = Keep THEN batch ELSE t.batch

UpToDateTxnIsRight ==
  \A j \in Jobs : open[j] # NoTxn /\ j \notin overtaken =>
    After(open[j]) = Aggregate(Overlay(open[j].commands))

(* What is answered ok was sent, and by the job that the command names.    *)
AnswersAreTrue ==
  /\ \A j \in Jobs, c \in Commands : reply[j][c] = "ok" => j \in sentBy[c]
  /\ \A c \in Commands : sentBy[c] \subseteq {jobOf[c]} \cap Jobs
  /\ \A c \in Commands : \A j \in sentBy[c] : job[j] # "absent"

BatchInv ==
  /\ TypeOK /\ NothingBeforeApproval /\ OneChecked /\ JobsOwnCommands
  /\ CommandsFollowJobs /\ TxnWritesItsCommands /\ LastTxnSettles
  /\ UpToDateTxnIsRight /\ AnswersAreTrue
  /\ SettledBatchIsRight /\ StatusFollowsCommands

(* Commands add up to a settled status just when all are finished.         *)
LEMMA AggregateSettles ==
  ASSUME NEW f \in [Commands -> {"queued", "claimed"} \cup Finished]
  PROVE  /\ Aggregate(f) \in Settled \cup {"queued", "claimed"}
         /\ Aggregate(f) \in Settled <=> \A c \in Commands : f[c] \in Finished
  BY WriteBatchAssumption DEF Aggregate, Settled, Finished

(* Every job has commands, and there is no other job for a command.        *)
LEMMA JobsHaveCommands ==
  ASSUME BatchInv, NEW j \in Jobs, job[j] # "absent"
  PROVE  /\ CommandsNaming(j) # {}
         /\ CommandsNaming(j) = CommandsFor(j)
         /\ batch \notin Unapproved
  BY DEF BatchInv, JobsOwnCommands, Jobs, CommandsNaming, CommandsFor,
     NothingBeforeApproval

(* Once approved, every command belongs to a job.                          *)
LEMMA CommandsInProgress ==
  ASSUME BatchInv, batch \notin Unapproved
  PROVE  /\ \A c \in Commands : c \in CommandsNaming(jobOf[c])
         /\ command \in [Commands -> {"queued", "claimed"} \cup Finished]
<1>1. \A c \in Commands : jobOf[c] \in Jobs /\ c \in CommandsNaming(jobOf[c])
  BY DEF BatchInv, JobsOwnCommands, CommandsNaming
<1>2. \A c \in Commands : command[c] \in {"queued", "claimed"} \cup Finished
  BY <1>1 DEF BatchInv, CommandsFollowJobs, TypeOK, StatusOf, Finished
<1> QED  BY <1>1, <1>2 DEF BatchInv, TypeOK

(* The inductive step, by transaction.                                     *)
LEMMA StageKeeps ==
  ASSUME BatchInv, Stage
  PROVE  BatchInv'
<1> USE DEF BatchInv
<1>1. TypeOK'
  BY DEF Stage, TypeOK, BatchStatuses, CommandStatuses, history
<1>2. NothingBeforeApproval' /\ OneChecked' /\ JobsOwnCommands'
  BY DEF Stage, NothingBeforeApproval, OneChecked, JobsOwnCommands, Unapproved
<1>3. \A j \in Jobs : job[j] = "absent"
  BY DEF Stage, NothingBeforeApproval, Unapproved
<1>4. \A c \in Commands : jobOf[c] \notin Jobs
  BY <1>3 DEF CommandsFollowJobs, CommandsNaming
<1>5. CommandsFollowJobs'
  BY <1>4 DEF Stage, CommandsFollowJobs, CommandsNaming
<1>6. TxnWritesItsCommands' /\ LastTxnSettles' /\ UpToDateTxnIsRight'
  BY <1>3 DEF Stage, TxnWritesItsCommands, LastTxnSettles, UpToDateTxnIsRight
<1>7. AnswersAreTrue'
  BY DEF Stage, AnswersAreTrue
<1>8. SettledBatchIsRight' /\ StatusFollowsCommands'
  BY DEF Stage, SettledBatchIsRight, StatusFollowsCommands, Settled
<1> QED  BY <1>1, <1>2, <1>5, <1>6, <1>7, <1>8

(* An approval that reads the batch while another has read it would break  *)
(* OneChecked; this is where approvals must not overlap.                   *)
LEMMA BeginApprovalKeeps ==
  ASSUME ~ApprovalsOverlap, BatchInv, NEW a \in Approvers, BeginApproval(a)
  PROVE  BatchInv'
<1> USE DEF BatchInv
<1>1. TypeOK'
  BY DEF BeginApproval, TypeOK, history
<1>2. OneChecked'
  BY DEF BeginApproval, OneChecked, MayApprove, OpenApprovals, TypeOK
<1>3. NothingBeforeApproval' /\ JobsOwnCommands'
  BY DEF BeginApproval, NothingBeforeApproval, JobsOwnCommands, TypeOK
<1>4. CommandsFollowJobs' /\ TxnWritesItsCommands'
  BY DEF BeginApproval, CommandsFollowJobs, TxnWritesItsCommands,
         CommandsNaming
<1>5. LastTxnSettles' /\ UpToDateTxnIsRight'
  BY DEF BeginApproval, LastTxnSettles, UpToDateTxnIsRight, After,
     CommandsNaming, Overlay, history
<1>6. AnswersAreTrue' /\ SettledBatchIsRight' /\ StatusFollowsCommands'
  BY DEF BeginApproval, AnswersAreTrue, SettledBatchIsRight,
     StatusFollowsCommands, history
<1> QED  BY <1>1, <1>2, <1>3, <1>4, <1>5, <1>6

(* The one approval that was checked finds the batch without any job.      *)
LEMMA CommitApprovalKeeps ==
  ASSUME BatchInv, NEW a \in Approvers, CommitApproval(a)
  PROVE  BatchInv'
<1> USE DEF BatchInv
<1>1. /\ batch = "pending_approval"
      /\ \A b \in Approvers : approval[b] = "checked" => a = b
  BY DEF CommitApproval, OneChecked
<1>2. /\ \A j \in Jobs : job[j] = "absent" /\ open[j] = NoTxn
      /\ \A c \in Commands : sentBy[c] = {} /\ jobOf[c] \notin Jobs
  BY <1>1 DEF NothingBeforeApproval, Unapproved, TxnWritesItsCommands,
     AnswersAreTrue, CommandsFollowJobs, CommandsNaming
<1>3. \A c \in Commands : <<a, DeviceOf[c]>> \in Jobs
  BY DEF Jobs
<1>4. TypeOK'
  BY <1>3 DEF CommitApproval, TypeOK, BatchStatuses, CommandStatuses, OpenTxns
<1>5. NothingBeforeApproval' /\ OneChecked'
  BY <1>1 DEF CommitApproval, NothingBeforeApproval, OneChecked, Unapproved,
     TypeOK
<1>6. \A j \in Jobs : job'[j] # "absent" => j[1] = a /\ job'[j] = "queued"
  BY <1>2 DEF CommitApproval
<1>7. \A c \in Commands : /\ jobOf'[c] = <<a, DeviceOf[c]>>
                          /\ command'[c] = "queued"
  BY DEF CommitApproval
<1>8. JobsOwnCommands'
  BY <1>3, <1>6, <1>7 DEF JobsOwnCommands, Jobs
<1>9. CommandsFollowJobs'
  <2>1. \A c \in Commands : job'[<<a, DeviceOf[c]>>] = "queued"
    BY <1>3 DEF CommitApproval
  <2> QED  BY <1>7, <2>1 DEF CommandsFollowJobs, CommandsNaming
<1>10. TxnWritesItsCommands' /\ LastTxnSettles' /\ UpToDateTxnIsRight'
  BY <1>2 DEF CommitApproval, TxnWritesItsCommands, LastTxnSettles,
     UpToDateTxnIsRight
<1>11. AnswersAreTrue'
  BY <1>2 DEF CommitApproval, AnswersAreTrue
<1>12. SettledBatchIsRight'
  BY DEF CommitApproval, SettledBatchIsRight, Settled
<1>13. StatusFollowsCommands'
  <2>1. Aggregate(command') = "queued"
    BY <1>7, WriteBatchAssumption DEF Aggregate
  <2> QED  BY <2>1 DEF CommitApproval, StatusFollowsCommands
<1> QED  BY <1>4, <1>5, <1>8, <1>9, <1>10, <1>11, <1>12, <1>13

(* The claim or result transaction of job j begins.                        *)
LEMMA BeginTxnKeeps ==
  ASSUME BatchInv, NEW j \in Jobs, BeginClaim(j) \/ BeginResult(j)
  PROVE  BatchInv'
<1> USE DEF BatchInv
<1> DEFINE writes == [c \in Commands |->
             IF c \notin CommandsNaming(j) THEN Keep
             ELSE IF job[j] = "queued" THEN "claimed"
             ELSE StatusOf(reply[j][c])]
<1>1. /\ job[j] \in {"queued", "sent"} /\ open[j] = NoTxn
      /\ UNCHANGED <<batch, command, jobOf, job, approval, reply, sentBy>>
      /\ UNCHANGED <<overtaken, doubtful>>
  BY DEF BeginClaim, BeginResult, BeginJobTxn, history
<1>2. CommandsNaming(j) # {} /\ batch \notin Unapproved
  BY <1>1, JobsHaveCommands
<1>3. BeginJobTxn(j, JobTxn(j, writes))
  <2>1. CASE BeginClaim(j)
    <3>1. job[j] = "queued"
      BY <2>1 DEF BeginClaim
    <3>2. \A c \in CommandsNaming(j) : command[c] = "queued"
      BY <3>1 DEF CommandsFollowJobs
    <3>3. writes = [c \in Commands |->
            IF c \in CommandsNaming(j) /\ command[c] = "queued"
            THEN "claimed" ELSE Keep]
      BY <3>1, <3>2
    <3> QED  BY <2>1, <3>3 DEF BeginClaim
  <2>2. CASE BeginResult(j)
    <3>1. job[j] = "sent"
      BY <2>2 DEF BeginResult
    <3>2. writes = [c \in Commands |->
            IF c \in CommandsNaming(j) THEN StatusOf(reply[j][c]) ELSE Keep]
      BY <3>1
    <3> QED  BY <2>2, <3>2 DEF BeginResult
  <2> QED  BY <2>1, <2>2
<1> DEFINE status == Aggregate(Overlay(writes))
           txn == [commands |-> writes,
                   batch |-> IF status = batch THEN Keep ELSE status]
<1>4. open' = [open EXCEPT ![j] = txn]
  BY <1>2, <1>3 DEF BeginJobTxn, JobTxn, RefreshTxn
<1>5. writes \in [Commands -> CommandStatuses \cup {Keep}]
  BY DEF CommandStatuses, StatusOf
<1>6. Overlay(writes) \in [Commands -> {"queued", "claimed"} \cup Finished]
  BY <1>2, CommandsInProgress DEF Overlay, Keep, StatusOf, Finished
<1>7. txn \in Txn /\ txn # NoTxn
  BY <1>5, <1>6, AggregateSettles, WriteBatchAssumption
     DEF Txn, BatchStatuses, Settled
<1>8. TypeOK'
  BY <1>1, <1>4, <1>7 DEF TypeOK
<1>9. /\ NothingBeforeApproval' /\ OneChecked' /\ JobsOwnCommands'
      /\ CommandsFollowJobs' /\ AnswersAreTrue'
      /\ SettledBatchIsRight' /\ StatusFollowsCommands'
  <2>1. NothingBeforeApproval' /\ OneChecked' /\ JobsOwnCommands'
    BY <1>1 DEF NothingBeforeApproval, OneChecked, JobsOwnCommands
  <2>2. CommandsFollowJobs'
    BY <1>1 DEF CommandsFollowJobs, CommandsNaming
  <2>3. AnswersAreTrue' /\ SettledBatchIsRight' /\ StatusFollowsCommands'
    BY <1>1 DEF AnswersAreTrue, SettledBatchIsRight, StatusFollowsCommands
  <2> QED  BY <2>1, <2>2, <2>3
<1>10. TxnWritesItsCommands'
  <2> SUFFICES ASSUME NEW k \in Jobs, open'[k] # NoTxn
               PROVE  /\ job[k] \in {"queued", "sent"}
                      /\ open'[k].batch \notin Unapproved
                      /\ \A c \in Commands : open'[k].commands[c] =
                           IF c \notin CommandsNaming(k) THEN Keep
                           ELSE IF job[k] = "queued" THEN "claimed"
                           ELSE StatusOf(reply[k][c])
    BY <1>1 DEF TxnWritesItsCommands, CommandsNaming
  <2>1. CASE k = j
    <3>1. open'[k] = txn
      BY <1>4, <2>1 DEF TypeOK
    <3>2. txn.batch \notin Unapproved
      BY <1>6, AggregateSettles DEF Settled, Unapproved, Keep
    <3> QED  BY <1>1, <2>1, <3>1, <3>2
  <2>2. CASE k # j
    BY <1>4, <2>2 DEF TxnWritesItsCommands, TypeOK
  <2> QED  BY <2>1, <2>2
<1>11. LastTxnSettles'
  <2> SUFFICES ASSUME NEW k \in Jobs, open'[k] # NoTxn,
                      open'[k].batch \in Settled
               PROVE  /\ open'[k].batch = Aggregate(Overlay(open'[k].commands))
                      /\ \A c \in Commands :
                           c \notin CommandsNaming(k) => command[c] \in Finished
    BY <1>1 DEF LastTxnSettles, CommandsNaming, Overlay
  <2>1. CASE k = j
    <3>1. open'[k] = txn
      BY <1>4, <2>1 DEF TypeOK
    <3>2. txn.batch = status /\ txn.commands = writes
      BY <3>1 DEF Settled, Keep
    <3>3. \A c \in Commands : Overlay(writes)[c] \in Finished
      BY <1>6, <3>1, <3>2, AggregateSettles
    <3>4. \A c \in Commands : c \notin CommandsNaming(j) =>
            command[c] \in Finished
      BY <3>3 DEF Overlay
    <3> QED  BY <2>1, <3>1, <3>2, <3>4
  <2>2. CASE k # j
    BY <1>4, <2>2 DEF LastTxnSettles, TypeOK
  <2> QED  BY <2>1, <2>2
<1>12. UpToDateTxnIsRight'
  <2> SUFFICES ASSUME NEW k \in Jobs, open'[k] # NoTxn, k \notin overtaken
               PROVE  After(open'[k]) = Aggregate(Overlay(open'[k].commands))
    BY <1>1 DEF UpToDateTxnIsRight, After, Overlay
  <2>1. CASE k = j
    <3>1. open'[k] = txn
      BY <1>4, <2>1 DEF TypeOK
    <3>2. After(txn) = status
      BY <1>6, AggregateSettles DEF After, Settled, Keep
    <3> QED  BY <3>1, <3>2
  <2>2. CASE k # j
    BY <1>4, <2>2 DEF UpToDateTxnIsRight, TypeOK
  <2> QED  BY <2>1, <2>2
<1> QED  BY <1>8, <1>9, <1>10, <1>11, <1>12

(* The values of the job go to the building, and the answers come back.    *)
LEMMA SendWritesKeeps ==
  ASSUME BatchInv, NEW j \in Jobs, SendWrites(j)
  PROVE  BatchInv'
<1> USE DEF BatchInv
<1>1. /\ job[j] = "claimed" /\ open[j] = NoTxn
      /\ job' = [job EXCEPT ![j] = "sent"]
      /\ UNCHANGED <<batch, command, jobOf, approval, open>>
      /\ UNCHANGED <<overtaken, doubtful>>
  BY DEF SendWrites, history
<1>2. CommandsNaming(j) = CommandsFor(j) /\ batch \notin Unapproved
  BY <1>1, JobsHaveCommands
<1>3. PICK sent \in BOOLEAN,
           answer \in [CommandsFor(j) -> Answers \ {"deferred"}] :
        /\ ~sent => \A c \in CommandsFor(j) : answer[c] = "omitted"
        /\ sentBy' = [c \in Commands |->
             IF sent /\ c \in CommandsFor(j) THEN sentBy[c] \cup {j}
                                             ELSE sentBy[c]]
        /\ reply' = [reply EXCEPT ![j] = [c \in Commands |->
             IF c \in CommandsFor(j) THEN answer[c] ELSE "omitted"]]
  BY DEF SendWrites
<1>4. TypeOK'
  <2>1. [c \in Commands |-> IF c \in CommandsFor(j) THEN answer[c]
                                                   ELSE "omitted"]
          \in [Commands -> Answers]
    BY DEF Answers
  <2>2. reply' \in [Jobs -> [Commands -> Answers]]
    BY <1>3, <2>1 DEF TypeOK
  <2>3. sentBy' \in [Commands -> SUBSET Jobs]
    BY <1>3 DEF TypeOK
  <2> QED  BY <1>1, <2>2, <2>3 DEF TypeOK
<1>5. NothingBeforeApproval' /\ OneChecked' /\ JobsOwnCommands'
  <2>1. NothingBeforeApproval' /\ OneChecked'
    BY <1>1, <1>2 DEF NothingBeforeApproval, OneChecked
  <2>2. JobsOwnCommands'
    BY <1>1 DEF JobsOwnCommands, TypeOK
  <2> QED  BY <2>1, <2>2
<1>6. CommandsFollowJobs'
  BY <1>1, <1>3 DEF CommandsFollowJobs, CommandsNaming, TypeOK
<1>7. TxnWritesItsCommands'
  BY <1>1, <1>3 DEF TxnWritesItsCommands, CommandsNaming, TypeOK
<1>8. LastTxnSettles' /\ UpToDateTxnIsRight'
  BY <1>1 DEF LastTxnSettles, UpToDateTxnIsRight, After, CommandsNaming, Overlay
<1>9. SettledBatchIsRight' /\ StatusFollowsCommands'
  BY <1>1 DEF SettledBatchIsRight, StatusFollowsCommands
<1>10. AnswersAreTrue'
  <2>1. \A k \in Jobs, c \in Commands : reply'[k][c] = "ok" => k \in sentBy'[c]
    <3> SUFFICES ASSUME NEW k \in Jobs, NEW c \in Commands, reply'[k][c] = "ok"
                 PROVE  k \in sentBy'[c]
      OBVIOUS
    <3>1. CASE k = j
      BY <1>3, <3>1 DEF TypeOK
    <3>2. CASE k # j
      BY <1>3, <3>2 DEF TypeOK, AnswersAreTrue
    <3> QED  BY <3>1, <3>2
  <2>2. \A c \in Commands : sentBy'[c] \subseteq {jobOf[c]} \cap Jobs
    BY <1>2, <1>3 DEF AnswersAreTrue, TypeOK, CommandsNaming
  <2>3. \A c \in Commands : \A k \in sentBy'[c] : job'[k] # "absent"
    <3> SUFFICES ASSUME NEW c \in Commands, NEW k \in sentBy'[c]
                 PROVE  job'[k] # "absent"
      OBVIOUS
    <3>1. k \in sentBy[c] \cup {j} /\ k \in Jobs
      BY <1>3, <1>4 DEF TypeOK
    <3> QED  BY <1>1, <3>1 DEF AnswersAreTrue, TypeOK
  <2> QED  BY <1>1, <2>1, <2>2, <2>3 DEF AnswersAreTrue
<1> QED  BY <1>4, <1>5, <1>6, <1>7, <1>8, <1>9, <1>10

(* The claim or result transaction of job j commits.                       *)
LEMMA CommitTxnKeeps ==
  ASSUME BatchInv, NEW j \in Jobs, CommitJobTxn(j)
  PROVE  BatchInv'
<1> USE DEF BatchInv
<1>1. /\ open[j] # NoTxn
      /\ command' = Overlay(open[j].commands)
      /\ batch' = IF open[j].batch = Keep THEN batch ELSE open[j].batch
      /\ job' = [job EXCEPT ![j] = IF @ = "queued" THEN "claimed" ELSE "done"]
      /\ open' = [open EXCEPT ![j] = NoTxn]
      /\ doubtful' = (j \in overtaken) /\ overtaken' = OpenTxns \ {j}
      /\ UNCHANGED <<jobOf, approval, reply, sentBy>>
  BY DEF CommitJobTxn
<1>2. /\ job[j] \in {"queued", "sent"} /\ open[j] \in Txn
      /\ open[j].batch \notin Unapproved
      /\ \A c \in Commands : open[j].commands[c] =
           IF c \notin CommandsNaming(j) THEN Keep
           ELSE IF job[j] = "queued" THEN "claimed" ELSE StatusOf(reply[j][c])
  BY <1>1 DEF TxnWritesItsCommands, TypeOK
<1>3. CommandsNaming(j) # {} /\ batch \notin Unapproved
  BY <1>2, JobsHaveCommands
<1>4. \A c \in Commands : command'[c] =
        IF c \notin CommandsNaming(j) THEN command[c]
        ELSE IF job[j] = "queued" THEN "claimed" ELSE StatusOf(reply[j][c])
  BY <1>1, <1>2 DEF Overlay, Keep, StatusOf
<1>5. command' \in [Commands -> {"queued", "claimed"} \cup Finished]
  BY <1>1, <1>3, <1>4, CommandsInProgress DEF Overlay, StatusOf, Finished
<1>6. /\ open[j].batch \in Settled => open[j].batch = Aggregate(command')
      /\ open[j].batch \in Settled => \A c \in Commands :
            c \notin CommandsNaming(j) => command[c] \in Finished
  BY <1>1 DEF LastTxnSettles
<1>7. TypeOK'
  BY <1>1, <1>2, <1>5 DEF TypeOK, Txn, CommandStatuses, Finished, OpenTxns
<1>8. batch' \notin Unapproved
  BY <1>1, <1>2, <1>3
<1>9. NothingBeforeApproval' /\ OneChecked' /\ JobsOwnCommands'
  <2>1. NothingBeforeApproval'
    BY <1>8 DEF NothingBeforeApproval
  <2>2. OneChecked'
    BY <1>1, <1>3 DEF OneChecked, Unapproved
  <2>3. \A k \in Jobs : job'[k] # "absent" => job[k] # "absent"
    BY <1>1, <1>2 DEF TypeOK
  <2>4. JobsOwnCommands'
    BY <1>1, <1>3, <2>3 DEF JobsOwnCommands
  <2> QED  BY <2>1, <2>2, <2>4
<1>10. CommandsFollowJobs'
  <2> SUFFICES ASSUME NEW k \in Jobs, NEW c \in Commands, jobOf[c] = k
               PROVE  /\ job'[k] # "absent"
                      /\ job'[k] = "queued" => command'[c] = "queued"
                      /\ job'[k] \in {"claimed", "sent"} =>
                           command'[c] = "claimed"
                      /\ job'[k] = "done" =>
                           command'[c] = StatusOf(reply[k][c])
    BY <1>1 DEF CommandsFollowJobs, CommandsNaming
  <2>1. CASE k = j
    <3>1. c \in CommandsNaming(j)
      BY <2>1 DEF CommandsNaming
    <3>2. job'[k] = IF job[j] = "queued" THEN "claimed" ELSE "done"
      BY <1>1, <2>1 DEF TypeOK
    <3>3. command'[c] = IF job[j] = "queued" THEN "claimed"
                                            ELSE StatusOf(reply[j][c])
      BY <1>4, <3>1
    <3> QED  BY <1>2, <2>1, <3>2, <3>3
  <2>2. CASE k # j
    <3>1. command'[c] = command[c] /\ job'[k] = job[k]
      BY <1>1, <1>4, <2>2 DEF CommandsNaming, TypeOK
    <3> QED  BY <3>1 DEF CommandsFollowJobs, CommandsNaming
  <2> QED  BY <2>1, <2>2
<1>11. \A k \in Jobs : open'[k] # NoTxn =>
         k # j /\ open'[k] = open[k] /\ job'[k] = job[k]
  BY <1>1 DEF TypeOK
<1>12. TxnWritesItsCommands'
  BY <1>1, <1>11 DEF TxnWritesItsCommands, CommandsNaming
(* No other transaction can settle the batch: this one was not finished.   *)
<1>13. PICK d \in CommandsNaming(j) : command[d] \in {"queued", "claimed"}
  BY <1>2, <1>3 DEF CommandsFollowJobs, CommandsNaming
<1>14. LastTxnSettles'
  <2> SUFFICES ASSUME NEW k \in Jobs, open'[k] # NoTxn,
                      open'[k].batch \in Settled
               PROVE  FALSE
    BY DEF LastTxnSettles
  <2>1. k # j /\ open[k] # NoTxn /\ open[k].batch \in Settled
    BY <1>11
  <2>2. d \in Commands /\ d \notin CommandsNaming(k)
    BY <1>13, <2>1 DEF CommandsNaming
  <2>3. command[d] \in Finished
    BY <2>1, <2>2 DEF LastTxnSettles
  <2> QED  BY <1>13, <2>3 DEF Finished
<1>15. SettledBatchIsRight'
  <2> SUFFICES ASSUME batch' \in Settled
               PROVE  batch' = Aggregate(command')
    BY DEF SettledBatchIsRight
  <2>1. CASE open[j].batch = Keep
    <3>1. batch \in Settled /\ batch = Aggregate(command)
      BY <1>1, <2>1 DEF SettledBatchIsRight
    <3>2. \A c \in Commands : command[c] \in Finished
      BY <1>3, <3>1, CommandsInProgress, AggregateSettles
    <3> QED  BY <1>13, <3>2 DEF CommandsNaming, Finished
  <2>2. CASE open[j].batch # Keep
    BY <1>1, <1>6, <2>2
  <2> QED  BY <2>1, <2>2
<1>16. AnswersAreTrue'
  <2>1. \A k \in Jobs : job[k] # "absent" => job'[k] # "absent"
    BY <1>1 DEF TypeOK
  <2> QED  BY <1>1, <2>1 DEF AnswersAreTrue
<1>17. UpToDateTxnIsRight'
  BY <1>1, <1>11 DEF UpToDateTxnIsRight, OpenTxns
<1>18. StatusFollowsCommands'
  BY <1>1 DEF StatusFollowsCommands, UpToDateTxnIsRight, After
<1> QED  BY <1>7, <1>9, <1>10, <1>12, <1>14, <1>15, <1>16, <1>17, <1>18

-----------------------------------------------------------------------------
(* Nothing is staged at first.                                             *)
LEMMA BatchInvInit ==
  ASSUME Init
  PROVE  BatchInv
<1> USE DEF Init
<1>1. \A c \in Commands : NoJob \notin Jobs
  BY WriteBatchAssumption DEF Jobs
<1>2. TypeOK
  BY DEF TypeOK, BatchStatuses, CommandStatuses, Answers
<1>3. NothingBeforeApproval /\ OneChecked
  BY DEF NothingBeforeApproval, OneChecked
<1>4. JobsOwnCommands /\ CommandsFollowJobs
  BY <1>1 DEF JobsOwnCommands, CommandsFollowJobs, CommandsNaming, Unapproved
<1>5. TxnWritesItsCommands /\ LastTxnSettles /\ UpToDateTxnIsRight
  BY DEF TxnWritesItsCommands, LastTxnSettles, UpToDateTxnIsRight
<1>6. AnswersAreTrue /\ SettledBatchIsRight /\ StatusFollowsCommands
  BY DEF AnswersAreTrue, SettledBatchIsRight, StatusFollowsCommands, Settled
<1> QED  BY <1>2, <1>3, <1>4, <1>5, <1>6 DEF BatchInv

(* No transaction, however it overlaps with others, breaks the invariant.  *)
LEMMA BatchInvStep ==
  ASSUME ~ApprovalsOverlap, BatchInv, [Next]_vars
  PROVE  BatchInv'
<1>1. CASE Stage
  BY <1>1, StageKeeps
<1>2. CASE Approve
  BY <1>2, BeginApprovalKeeps, CommitApprovalKeeps DEF Approve
<1>3. CASE \E j \in Jobs : JobStep(j)
  BY <1>3, BeginTxnKeeps, SendWritesKeeps, CommitTxnKeeps DEF JobStep
<1>4. CASE UNCHANGED vars
  <2>1. UNCHANGED <<batch, command, jobOf, job, approval, open, reply, sentBy,
                    overtaken, doubtful>>
    BY <1>4 DEF vars, history
  <2>2. LastTxnSettles' /\ TxnWritesItsCommands' /\ UpToDateTxnIsRight'
    BY <2>1 DEF BatchInv, LastTxnSettles, TxnWritesItsCommands, Overlay,
       CommandsNaming, UpToDateTxnIsRight, After
  <2>3. NothingBeforeApproval' /\ OneChecked' /\ JobsOwnCommands'
    BY <2>1 DEF BatchInv, NothingBeforeApproval, OneChecked, JobsOwnCommands
  <2>4. CommandsFollowJobs' /\ AnswersAreTrue'
    BY <2>1 DEF BatchInv, CommandsFollowJobs, CommandsNaming, AnswersAreTrue
  <2>6. SettledBatchIsRight' /\ StatusFollowsCommands'
    BY <2>1 DEF BatchInv, SettledBatchIsRight, StatusFollowsCommands
  <2>5. TypeOK'
    BY <2>1 DEF BatchInv, TypeOK
  <2> QED  BY <2>2, <2>3, <2>4, <2>5, <2>6 DEF BatchInv
<1> QED  BY <1>1, <1>2, <1>3, <1>4 DEF Next

(* Jobs, commands and open transactions stay in step with the batch where  *)
(* approvals do not overlap, whichever claims and results do.              *)
THEOREM BatchInvHolds ==
  ASSUME ~ApprovalsOverlap
  PROVE  Spec => []BatchInv
<1>1. Init => BatchInv
  BY BatchInvInit
<1>2. BatchInv /\ [Next]_vars => BatchInv'
  BY BatchInvStep
<1> QED  BY <1>1, <1>2, PTL DEF Spec

(* A settled batch status is the one that its commands add up to, whatever *)
(* claims and results overlapped, for any number of commands, devices and  *)
(* transactions: the refresh that writes it was of the last job.           *)
THEOREM SettledIsTrue ==
  ASSUME ~ApprovalsOverlap
  PROVE  Spec => []SettledBatchIsRight
<1>1. BatchInv => SettledBatchIsRight
  BY DEF BatchInv
<1> QED  BY <1>1, BatchInvHolds, PTL

(* The status of an approved batch is what its commands add up to, unless  *)
(* the transaction that committed last had read before another committed.  *)
THEOREM StatusFollows ==
  ASSUME ~ApprovalsOverlap
  PROVE  Spec => []StatusFollowsCommands
<1>1. BatchInv => StatusFollowsCommands
  BY DEF BatchInv
<1> QED  BY <1>1, BatchInvHolds, PTL

(* The audit row of every finished command is what the edge answered: it   *)
(* succeeded only if its own job sent the value and was answered ok.       *)
THEOREM AuditHolds ==
  ASSUME ~ApprovalsOverlap
  PROVE  Spec => []AuditIsTrue
<1>1. BatchInv => AuditIsTrue
  <2> SUFFICES ASSUME BatchInv, NEW c \in Commands, command[c] \in Finished
               PROVE  /\ command[c] = "succeeded" <=> reply[jobOf[c]][c] = "ok"
                      /\ reply[jobOf[c]][c] = "ok" => jobOf[c] \in sentBy[c]
    BY DEF AuditIsTrue
  <2>1. jobOf[c] \in Jobs /\ c \in CommandsNaming(jobOf[c])
    BY DEF BatchInv, NothingBeforeApproval, JobsOwnCommands, CommandsNaming,
       Finished, Unapproved
  <2>2. command[c] = StatusOf(reply[jobOf[c]][c])
    BY <2>1 DEF BatchInv, CommandsFollowJobs, TypeOK, Finished
  <2> QED  BY <2>1, <2>2 DEF BatchInv, AnswersAreTrue, StatusOf
<1> QED  BY <1>1, BatchInvHolds, PTL

(* No value is sent to the building by two jobs, unless approvals overlap  *)
(* (the run write_batch_twice shows what happens then).                    *)
THEOREM ValuesSentOnce ==
  ASSUME ~ApprovalsOverlap
  PROVE  Spec => []SentOnce
<1>1. BatchInv => SentOnce
  <2> SUFFICES ASSUME BatchInv, NEW c \in Commands
               PROVE  Cardinality(sentBy[c]) <= 1
    BY DEF SentOnce
  <2>1. sentBy[c] = {} \/ sentBy[c] = {jobOf[c]}
    BY DEF BatchInv, AnswersAreTrue
  <2>2. Cardinality({}) = 0
    BY FS_EmptySet
  <2>3. Cardinality({jobOf[c]}) = 1
    BY FS_Singleton
  <2> QED  BY <2>1, <2>2, <2>3
<1> QED  BY <1>1, BatchInvHolds, PTL

-----------------------------------------------------------------------------
(* Sessions.                                                               *)
USE AccessAssumption, SessionsAssumption

(* From a page that has no record of activity under way: what the cloud    *)
(* heard of last is no older than the page's last record, and when the     *)
(* next record is due, hardly older than the page's last use.              *)
Covered(tb, age) ==
  tb.page = "app" /\ tb.beat = "none" =>
    IF tb.wrote < WriteGap THEN age <= tb.wrote ELSE age < tb.idle + WriteGap

(* A page is in use, and nothing it asks is refused.                       *)
InUse(tb, age) ==
  /\ "refused" \notin {tb.stage, tb.beat, tb.call}
  /\ ~Lapses(tb) /\ Covered(tb, age)
  /\ tb.stage = "me" \/ tb.call = "sent" => age # IdleLimit

OnlyAppAsks(tb) == tb.page # "app" => tb.beat = "none" /\ tb.call = "none"

SessionInv ==
  /\ SessionsTypeOK
  /\ \A t \in Tabs : OnlyAppAsks(tab[t])
  /\ signedIn /\ ~excused =>
       MayWork(Me) /\ \A t \in Tabs : InUse(tab[t], activity)


LEMMA SessionInvInit ==
  ASSUME AccessInit, SessionsInit
  PROVE  SessionInv
<1>1. AccessTypeOK
  BY DEF AccessInit, AccessTypeOK, Accounts
<1>2. Blank("login") \in Tab /\ OnlyAppAsks(Blank("login"))
  BY DEF Blank, Tab, Pages, OnlyAppAsks
<1>3. \A t \in Tabs : tab[t] = Blank("login")
  BY DEF SessionsInit
<1>4. activity \in 0..Never /\ faults \in 0..MaxFaults
  BY DEF SessionsInit, Never
<1>5. signedIn \in BOOLEAN /\ excused \in BOOLEAN
  BY DEF SessionsInit
<1>6. tab \in [Tabs -> Tab]
  BY <1>2 DEF SessionsInit
<1>7. SessionsTypeOK
  BY <1>1, <1>4, <1>5, <1>6 DEF SessionsTypeOK
<1>8. excused
  BY DEF SessionsInit
<1> QED  BY <1>2, <1>3, <1>7, <1>8 DEF SessionInv

(* Nothing but the page of one tab changes, and the cloud may have heard   *)
(* of an activity just now.                                                *)
LEMMA OneTabKeeps ==
  ASSUME SessionInv, NEW t \in Tabs, NEW new \in Tab,
         tab' = [tab EXCEPT ![t] = new],
         activity' \in {activity, 0}, AccessTypeOK',
         signedIn' \in BOOLEAN, excused' \in BOOLEAN,
         faults' \in 0..MaxFaults, OnlyAppAsks(new),
         signedIn' /\ ~excused' =>
           /\ signedIn /\ ~excused
           /\ MayWork(Me)' /\ InUse(new, activity')
  PROVE  SessionInv'
<1>1. SessionsTypeOK /\ activity \in 0..Never
  BY DEF SessionInv, SessionsTypeOK
<1>2. /\ tab'[t] = new
      /\ \A u \in Tabs : u # t => tab'[u] = tab[u] /\ tab[u] \in Tab
  BY <1>1 DEF SessionsTypeOK
<1>3. SessionsTypeOK'
  BY <1>1 DEF SessionsTypeOK, Never
<1>4. \A u \in Tabs : OnlyAppAsks(tab'[u])
  BY <1>2 DEF SessionInv
<1>5. ASSUME signedIn', ~excused', NEW u \in Tabs
      PROVE  InUse(tab'[u], activity')
  <2>1. CASE u = t
    BY <1>2, <1>5, <2>1
  <2>2. CASE u # t
    <3>1. InUse(tab[u], activity) /\ tab[u] \in Tab /\ tab'[u] = tab[u]
      BY <1>2, <1>5, <2>2 DEF SessionInv
    <3>2. tab[u].idle \in Nat /\ tab[u].wrote \in Nat
      BY <3>1 DEF Tab
    <3>3. Covered(tab[u], activity')
      BY <1>1, <3>1, <3>2 DEF InUse, Covered, Never
    <3> QED  BY <3>1, <3>3 DEF InUse
  <2> QED  BY <2>1, <2>2
<1> QED  BY <1>3, <1>4, <1>5 DEF SessionInv

(* A page that is left has nothing under way.                              *)
LEMMA BlankIs ==
  ASSUME NEW page \in Pages
  PROVE  /\ Blank(page) \in Tab /\ OnlyAppAsks(Blank(page))
         /\ page # "app" => \A age : InUse(Blank(page), age)
<1>1. Blank(page) \in Tab /\ OnlyAppAsks(Blank(page))
  BY DEF Blank, Tab, OnlyAppAsks
<1>2. page # "app" => \A age : InUse(Blank(page), age)
  BY DEF Blank, InUse, Covered, Lapses
<1> QED  BY <1>1, <1>2

LEMMA AccessKept ==
  ASSUME SessionInv, UNCHANGED accessVars
  PROVE  AccessTypeOK' /\ (MayWork(Me)' <=> MayWork(Me))
  BY DEF SessionInv, SessionsTypeOK, AccessTypeOK, accessVars, grantVars,
         MayWork

-----------------------------------------------------------------------------
LEMMA SignInKeeps ==
  ASSUME SessionInv, NEW t \in Tabs, SignIn(t)
  PROVE  SessionInv'
<1> DEFINE new == [tab[t] EXCEPT !.stage = "register"]
<1>1. /\ tab[t].page = "login" /\ tab[t].stage = "idle" /\ signedIn' = TRUE
      /\ excused' = (~MayWork(Me) \/ \E other \in Tabs \ {t} :
                       Guarded(other) \/ ~Quiet(other))
      /\ tab' = [tab EXCEPT ![t].stage = "register"]
      /\ UNCHANGED <<accessVars, activity, faults>>
  BY DEF SignIn
<1>2. SessionsTypeOK /\ \A u \in Tabs : tab[u] \in Tab
  BY DEF SessionInv, SessionsTypeOK
<1>3. tab' = [tab EXCEPT ![t] = new]
  BY <1>1, <1>2 DEF SessionsTypeOK
<1>4. tab[t].beat = "none" /\ tab[t].call = "none"
  BY <1>1 DEF SessionInv, OnlyAppAsks
<1>5. /\ new \in Tab /\ new.page = "login" /\ new.stage = "register"
      /\ new.beat = "none" /\ new.call = "none"
  BY <1>1, <1>2, <1>4 DEF Tab
<1> HIDE DEF new
<1>6. /\ tab'[t] = new
      /\ \A u \in Tabs : u # t => tab'[u] = tab[u]
  BY <1>2, <1>3 DEF SessionsTypeOK
<1>7. SessionsTypeOK'
  <2>1. tab' \in [Tabs -> Tab] /\ excused' \in BOOLEAN
    BY <1>1, <1>2, <1>3, <1>5 DEF SessionsTypeOK
  <2> QED  BY <1>1, <1>2, <2>1, AccessKept DEF SessionsTypeOK
<1>8. \A u \in Tabs : OnlyAppAsks(tab'[u])
  BY <1>5, <1>6 DEF SessionInv, OnlyAppAsks
<1>9. ASSUME ~excused'
      PROVE  MayWork(Me)' /\ \A u \in Tabs : InUse(tab'[u], activity')
  <2>1. MayWork(Me)'
    BY <1>1, <1>9, AccessKept
  <2>2. InUse(new, activity')
    BY <1>5 DEF InUse, Lapses, Covered
  <2>3. ASSUME NEW u \in Tabs, u # t
        PROVE  InUse(tab[u], activity')
    <3>1. ~Guarded(u) /\ Quiet(u)
      BY <1>1, <1>9, <2>3
    <3> QED  BY <3>1 DEF Guarded, Quiet, InUse, Lapses, Covered
  <2> QED  BY <1>6, <2>1, <2>2, <2>3
<1> QED  BY <1>7, <1>8, <1>9 DEF SessionInv

(* Where nobody is signed in, or there was a reason, nothing is claimed of *)
(* the pages.                                                              *)
LEMMA LeftKeeps ==
  ASSUME SessionInv, NEW t \in Tabs, NEW page \in Pages, Go(t, page),
         activity' \in {activity, 0}, AccessTypeOK',
         MayWork(Me)' <=> MayWork(Me),
         signedIn' \in BOOLEAN, excused' \in BOOLEAN, UNCHANGED faults,
         signedIn' /\ ~excused' => signedIn /\ ~excused /\ page # "app"
  PROVE  SessionInv'
<1>1. tab' = [tab EXCEPT ![t] = Blank(page)]
  BY DEF Go
<1>2. faults' \in 0..MaxFaults
  BY DEF SessionInv, SessionsTypeOK
<1>3. signedIn' /\ ~excused' =>
        /\ signedIn /\ ~excused
        /\ MayWork(Me)' /\ InUse(Blank(page), activity')
  BY BlankIs DEF SessionInv
<1> QED  BY <1>1, <1>2, <1>3, BlankIs, OneTabKeeps

(* The page of a tab that has just been opened.                            *)
Opened == [Blank("app") EXCEPT !.stage = "register", !.wrote = 0,
                               !.beat = "sent"]
LEMMA OpenedIs ==
  /\ Opened \in Tab /\ OnlyAppAsks(Opened)
  /\ \A age : InUse(Opened, age)
<1> DEFINE blank == Blank("app")
<1>3. blank.page = "app" /\ blank.call = "none" /\ blank.idle = 0
  BY DEF Blank
<1>4. blank \in Tab
  BY BlankIs DEF Pages
<1>5. Opened = [blank EXCEPT !.stage = "register", !.wrote = 0, !.beat = "sent"]
  BY DEF Opened
<1> HIDE DEF blank
<1>6. 0 \in 0..WriteGap
  OBVIOUS
<1>7. Opened \in Tab
  BY <1>4, <1>5, <1>6 DEF Tab
<1>1. /\ Opened.page = "app" /\ Opened.beat = "sent"
      /\ Opened.stage = "register" /\ Opened.call = "none"
      /\ Opened.idle = 0
  BY <1>3, <1>4, <1>5 DEF Tab
<1>2. ~Lapses(Opened)
  BY <1>1 DEF Lapses
<1> QED  BY <1>1, <1>2, <1>7 DEF OnlyAppAsks, InUse, Covered

LEMMA OpenPageKeeps ==
  ASSUME SessionInv, NEW t \in Tabs, OpenPage(t)
  PROVE  SessionInv'
<1>1. UNCHANGED <<accessVars, activity, signedIn, faults, excused>>
  BY DEF OpenPage
<1>2. /\ AccessTypeOK' /\ (MayWork(Me)' <=> MayWork(Me))
      /\ signedIn' \in BOOLEAN /\ excused' \in BOOLEAN
      /\ faults' \in 0..MaxFaults
  BY <1>1, AccessKept DEF SessionInv, SessionsTypeOK
<1>3. CASE signedIn
  <2>1. tab' = [tab EXCEPT ![t] = Opened]
    BY <1>3 DEF OpenPage, Opened
  <2>2. signedIn' /\ ~excused' =>
          /\ signedIn /\ ~excused
          /\ MayWork(Me)' /\ InUse(Opened, activity')
    BY <1>1, <1>2, OpenedIs DEF SessionInv
  <2> QED  BY <1>1, <1>2, <2>1, <2>2, OpenedIs, OneTabKeeps
<1>4. CASE ~signedIn
  <2>1. Go(t, "login") /\ "login" \in Pages
    BY <1>4 DEF OpenPage, Pages
  <2> QED  BY <1>1, <1>2, <1>4, <2>1, LeftKeeps
<1> QED  BY <1>3, <1>4

(* What a page that is in use asks is asked in time.                       *)
LEMMA InTime ==
  ASSUME NEW tb \in Tab, NEW age \in 0..Never, InUse(tb, age),
         tb.page = "app", tb.beat = "none"
  PROVE  age # IdleLimit
<1>1. /\ tb.idle \in Nat /\ tb.wrote \in Nat
      /\ tb.idle <= IdleLimit - WriteGap
  BY DEF InUse, Lapses, Tab
<1>2. IF tb.wrote < WriteGap THEN age <= tb.wrote ELSE age < tb.idle + WriteGap
  BY DEF InUse, Covered
<1> QED  BY <1>1, <1>2 DEF Never

(* The user touches a page, which may ask for something as well.           *)
LEMMA TouchKeeps ==
  ASSUME SessionInv, NEW t \in Tabs, Touch(t)
  PROVE  SessionInv'
<1> DEFINE touched == Recorded(tab[t])
<1>1. /\ Guarded(t) /\ Quiet(t)
      /\ UNCHANGED <<accessVars, activity, signedIn, faults, excused>>
  BY DEF Touch
<1>2. /\ AccessTypeOK' /\ (MayWork(Me)' <=> MayWork(Me))
      /\ signedIn' \in BOOLEAN /\ excused' \in BOOLEAN
      /\ faults' \in 0..MaxFaults
      /\ tab[t] \in Tab /\ tab[t].page = "app" /\ tab[t].stage = "idle"
      /\ tab[t].beat = "none" /\ tab[t].call = "none"
      /\ activity \in 0..Never
  BY <1>1, AccessKept DEF SessionInv, SessionsTypeOK, Guarded, Quiet
<1>3. PICK asks \in BOOLEAN :
        IF ~signedIn /\ (asks \/ touched.beat = "sent") THEN Go(t, "login")
        ELSE tab' = [tab EXCEPT ![t] =
               [touched EXCEPT !.call = IF asks THEN "sent" ELSE "none"]]
  BY DEF Touch
<1>4. CASE ~signedIn /\ Go(t, "login")
  <2>1. "login" \in Pages
    BY DEF Pages
  <2> QED  BY <1>1, <1>2, <1>4, <2>1, LeftKeeps
<1>5. CASE tab' = [tab EXCEPT ![t] =
               [touched EXCEPT !.call = IF asks THEN "sent" ELSE "none"]]
  <2> DEFINE call == IF asks THEN "sent" ELSE "none"
             new == [touched EXCEPT !.call = call]
  <2>1. /\ touched \in Tab /\ touched.page = "app" /\ touched.idle = 0
        /\ touched.stage = "idle"
        /\ \/ touched.beat = "none" /\ touched.wrote = tab[t].wrote
              /\ tab[t].wrote < WriteGap
           \/ touched.beat = "sent"
    <3>1. CASE tab[t].wrote < WriteGap
      <4>1. touched = [tab[t] EXCEPT !.idle = 0]
        BY <3>1 DEF Recorded
      <4> QED  BY <1>2, <3>1, <4>1 DEF Tab
    <3>2. CASE ~(tab[t].wrote < WriteGap)
      <4>1. touched = [tab[t] EXCEPT !.idle = 0, !.wrote = 0, !.beat = "sent"]
        BY <3>2 DEF Recorded
      <4> HIDE DEF touched
      <4>2. 0 \in 0..WriteGap /\ 0 \in 0..IdleLimit
        OBVIOUS
      <4>3. touched \in Tab
        BY <1>2, <4>1, <4>2 DEF Tab
      <4>4. /\ touched.page = "app" /\ touched.idle = 0
            /\ touched.stage = "idle" /\ touched.beat = "sent"
        BY <1>2, <4>1 DEF Tab
      <4> QED  BY <4>3, <4>4
    <3> QED  BY <3>1, <3>2
  <2>2. call \in {"none", "sent"}
    OBVIOUS
  <2> HIDE DEF touched, call
  <2>3. /\ new \in Tab /\ new.page = "app" /\ new.idle = 0
        /\ new.stage = "idle" /\ new.call = call
        /\ new.beat = touched.beat /\ new.wrote = touched.wrote
    BY <2>1, <2>2 DEF Tab
  <2>4. tab' = [tab EXCEPT ![t] = new]
    BY <1>5 DEF call
  <2> HIDE DEF new
  <2>5. ASSUME signedIn, ~excused
        PROVE  InUse(new, activity)
    <3>1. InUse(tab[t], activity)
      BY <2>5 DEF SessionInv
    <3>2. activity # IdleLimit
      BY <1>2, <3>1, InTime
    <3>3. ~Lapses(new)
      BY <2>3 DEF Lapses
    <3>4. Covered(new, activity)
      BY <1>2, <2>1, <2>3, <3>1 DEF InUse, Covered
    <3>5. "refused" \notin {new.stage, new.beat, new.call}
      BY <2>1, <2>2, <2>3
    <3> QED  BY <3>2, <3>3, <3>4, <3>5 DEF InUse
  <2>6. signedIn' /\ ~excused' =>
          /\ signedIn /\ ~excused /\ MayWork(Me)' /\ InUse(new, activity')
    BY <1>1, <1>2, <2>5 DEF SessionInv
  <2>7. OnlyAppAsks(new)
    BY <2>3 DEF OnlyAppAsks
  <2> QED  BY <1>1, <1>2, <2>3, <2>4, <2>6, <2>7, OneTabKeeps
<1> QED  BY <1>3, <1>4, <1>5

(* A page refreshes what it shows.                                         *)
LEMMA RefreshKeeps ==
  ASSUME SessionInv, NEW t \in Tabs, Refresh(t)
  PROVE  SessionInv'
<1> DEFINE new == [tab[t] EXCEPT !.call = "sent"]
<1>1. /\ Guarded(t) /\ Quiet(t)
      /\ UNCHANGED <<accessVars, activity, signedIn, faults, excused>>
  BY DEF Refresh
<1>2. /\ AccessTypeOK' /\ (MayWork(Me)' <=> MayWork(Me))
      /\ signedIn' \in BOOLEAN /\ excused' \in BOOLEAN
      /\ faults' \in 0..MaxFaults /\ tab \in [Tabs -> Tab]
      /\ tab[t] \in Tab /\ tab[t].page = "app" /\ tab[t].stage = "idle"
      /\ tab[t].beat = "none" /\ tab[t].call = "none"
      /\ activity \in 0..Never
  BY <1>1, AccessKept DEF SessionInv, SessionsTypeOK, Guarded, Quiet
<1>3. CASE ~signedIn
  <2>1. Go(t, "login") /\ "login" \in Pages
    BY <1>3 DEF Refresh, Pages
  <2> QED  BY <1>1, <1>2, <1>3, <2>1, LeftKeeps
<1>4. CASE signedIn
  <2>1. tab' = [tab EXCEPT ![t] = new]
    BY <1>2, <1>4 DEF Refresh
  <2>2. /\ new \in Tab /\ new.page = "app" /\ new.stage = "idle"
        /\ new.beat = "none" /\ new.call = "sent"
        /\ new.idle = tab[t].idle /\ new.wrote = tab[t].wrote
    BY <1>2 DEF Tab
  <2> HIDE DEF new
  <2>3. ASSUME ~excused
        PROVE  InUse(new, activity)
    <3>1. InUse(tab[t], activity)
      BY <1>4, <2>3 DEF SessionInv
    <3>2. activity # IdleLimit
      BY <1>2, <3>1, InTime
    <3> QED  BY <1>2, <2>2, <3>1, <3>2 DEF InUse, Lapses, Covered
  <2>4. signedIn' /\ ~excused' =>
          /\ signedIn /\ ~excused /\ MayWork(Me)' /\ InUse(new, activity')
    BY <1>1, <1>2, <1>4, <2>3 DEF SessionInv
  <2>5. OnlyAppAsks(new)
    BY <2>2 DEF OnlyAppAsks
  <2> QED  BY <1>1, <1>2, <2>1, <2>2, <2>4, <2>5, OneTabKeeps
<1> QED  BY <1>3, <1>4

(* A session that ends is not in use, whoever ends it.                     *)
LEMMA SignOutKeeps ==
  ASSUME SessionInv, NEW t \in Tabs, Logout(t) \/ IdleCheck(t) \/ Refused(t)
  PROVE  SessionInv'
<1>1. /\ signedIn' = FALSE /\ Go(t, "login")
      /\ UNCHANGED <<accessVars, activity, faults>>
      /\ excused' \in {excused, TRUE}
  BY DEF Logout, IdleCheck, Refused, SignOut
<1>2. /\ AccessTypeOK' /\ (MayWork(Me)' <=> MayWork(Me))
      /\ excused' \in BOOLEAN /\ "login" \in Pages
  BY <1>1, AccessKept DEF SessionInv, SessionsTypeOK, Pages
<1> QED  BY <1>1, <1>2, LeftKeeps

-----------------------------------------------------------------------------
(* An account is there once it may work, and keeps its type.               *)
LEMMA RegisteredIs ==
  ASSUME SessionInv, Registered(Me),
         UNCHANGED <<inviting, grantVars, edits>>
  PROVE  AccessTypeOK' /\ (MayWork(Me) => MayWork(Me)')
<1>1. /\ account \in [Operators -> Accounts]
      /\ account' =
           [account EXCEPT ![Me] = IF @ = NoAccount THEN Pending ELSE @]
  BY DEF SessionInv, SessionsTypeOK, AccessTypeOK, Registered
<1>2. Pending \in Accounts
  BY DEF Pending, Accounts, Statuses, Roles
<1>3. account' \in [Operators -> Accounts]
  BY <1>1, <1>2
<1>4. AccessTypeOK'
  BY <1>3 DEF SessionInv, SessionsTypeOK, AccessTypeOK, grantVars
<1>5. ASSUME MayWork(Me)
      PROVE  MayWork(Me)'
  <2>1. account[Me] # NoAccount
    BY <1>5 DEF MayWork, NoAccount
  <2>2. account'[Me] = account[Me]
    BY <1>1, <2>1
  <2> QED  BY <1>5, <2>2 DEF MayWork
<1> QED  BY <1>4, <1>5

LEMMA RegisterHandledKeeps ==
  ASSUME SessionInv, NEW t \in Tabs, RegisterHandled(t)
  PROVE  SessionInv'
<1> DEFINE new == [tab[t] EXCEPT !.stage = "me"]
<1>1. /\ tab[t].stage = "register" /\ Registered(Me)
      /\ activity' = IF account[Me].status = "active" THEN 0 ELSE activity
      /\ tab' = [tab EXCEPT ![t].stage = "me"]
      /\ UNCHANGED <<inviting, grantVars, edits, signedIn, faults, excused>>
  BY DEF RegisterHandled
<1>2. /\ AccessTypeOK' /\ (MayWork(Me) => MayWork(Me)')
      /\ signedIn' \in BOOLEAN /\ excused' \in BOOLEAN
      /\ faults' \in 0..MaxFaults /\ tab \in [Tabs -> Tab] /\ tab[t] \in Tab
      /\ activity' \in {activity, 0} /\ OnlyAppAsks(tab[t])
  BY <1>1, RegisteredIs DEF SessionInv, SessionsTypeOK
<1>3. tab' = [tab EXCEPT ![t] = new]
  BY <1>1, <1>2
<1>4. /\ new \in Tab /\ new.page = tab[t].page /\ new.stage = "me"
      /\ new.beat = tab[t].beat /\ new.call = tab[t].call
      /\ new.idle = tab[t].idle /\ new.wrote = tab[t].wrote
  BY <1>2 DEF Tab
<1> HIDE DEF new
<1>5. ASSUME signedIn, ~excused
      PROVE  MayWork(Me) /\ InUse(new, activity')
  <2>1. MayWork(Me) /\ InUse(tab[t], activity)
    BY <1>5 DEF SessionInv
  <2>2. activity' = 0
    BY <1>1, <2>1 DEF MayWork
  <2>3. tab[t].idle \in Nat /\ tab[t].wrote \in Nat
    BY <1>2 DEF Tab
  <2>4. Covered(new, activity')
    BY <1>4, <2>2, <2>3 DEF Covered
  <2>5. ~Lapses(new) /\ "refused" \notin {new.stage, new.beat, new.call}
    BY <1>4, <2>1 DEF InUse, Lapses
  <2> QED  BY <2>1, <2>2, <2>4, <2>5 DEF InUse
<1>6. OnlyAppAsks(new)
  BY <1>2, <1>4 DEF OnlyAppAsks
<1> QED  BY <1>1, <1>2, <1>3, <1>4, <1>5, <1>6, OneTabKeeps

LEMMA BeatHandledKeeps ==
  ASSUME SessionInv, NEW t \in Tabs, BeatHandled(t)
  PROVE  SessionInv'
<1> DEFINE beat == IF account[Me].status = "active" THEN "none" ELSE "refused"
           new == [tab[t] EXCEPT !.beat = beat]
<1>1. /\ tab[t].beat = "sent"
      /\ activity' = IF account[Me].status = "active" THEN 0 ELSE activity
      /\ tab' = [tab EXCEPT ![t].beat = beat]
      /\ UNCHANGED <<accessVars, signedIn, faults, excused>>
  BY DEF BeatHandled
<1>2. /\ AccessTypeOK' /\ (MayWork(Me)' <=> MayWork(Me))
      /\ signedIn' \in BOOLEAN /\ excused' \in BOOLEAN
      /\ faults' \in 0..MaxFaults /\ tab \in [Tabs -> Tab] /\ tab[t] \in Tab
      /\ activity' \in {activity, 0} /\ OnlyAppAsks(tab[t])
      /\ beat \in {"none", "refused"}
  BY <1>1, AccessKept DEF SessionInv, SessionsTypeOK
<1>3. tab' = [tab EXCEPT ![t] = new]
  BY <1>1, <1>2
<1>4. MayWork(Me) => beat = "none" /\ activity' = 0
  BY <1>1 DEF MayWork
<1> HIDE DEF beat
<1>5. /\ new \in Tab /\ new.page = tab[t].page /\ new.stage = tab[t].stage
      /\ new.beat = beat /\ new.call = tab[t].call
      /\ new.idle = tab[t].idle /\ new.wrote = tab[t].wrote
  BY <1>2 DEF Tab
<1> HIDE DEF new
<1>6. ASSUME signedIn, ~excused
      PROVE  MayWork(Me) /\ InUse(new, activity')
  <2>1. MayWork(Me) /\ InUse(tab[t], activity)
    BY <1>6 DEF SessionInv
  <2>3. tab[t].idle \in Nat /\ tab[t].wrote \in Nat
    BY <1>2 DEF Tab
  <2>4. Covered(new, activity')
    BY <1>4, <1>5, <2>1, <2>3 DEF Covered
  <2>5. ~Lapses(new) /\ "refused" \notin {new.stage, new.beat, new.call}
    BY <1>4, <1>5, <2>1 DEF InUse, Lapses
  <2> QED  BY <1>4, <2>1, <2>4, <2>5 DEF InUse
<1>7. OnlyAppAsks(new)
  BY <1>1, <1>2, <1>5 DEF OnlyAppAsks
<1> QED  BY <1>1, <1>2, <1>3, <1>5, <1>6, <1>7, OneTabKeeps

LEMMA CallHandledKeeps ==
  ASSUME SessionInv, NEW t \in Tabs, CallHandled(t)
  PROVE  SessionInv'
<1> DEFINE call == IF MayWork(Me) /\ ~Expired THEN "none" ELSE "refused"
           new == [tab[t] EXCEPT !.call = call]
<1>1. /\ tab[t].call = "sent"
      /\ activity' = IF MayWork(Me) THEN Seen ELSE activity
      /\ tab' = [tab EXCEPT ![t].call = call]
      /\ UNCHANGED <<accessVars, signedIn, faults, excused>>
  BY DEF CallHandled
<1>2. /\ AccessTypeOK' /\ (MayWork(Me)' <=> MayWork(Me))
      /\ signedIn' \in BOOLEAN /\ excused' \in BOOLEAN
      /\ faults' \in 0..MaxFaults /\ tab \in [Tabs -> Tab] /\ tab[t] \in Tab
      /\ activity' \in {activity, 0} /\ OnlyAppAsks(tab[t])
      /\ activity \in 0..Never
      /\ call \in {"none", "refused"}
  BY <1>1, AccessKept DEF SessionInv, SessionsTypeOK, Seen
<1>3. tab' = [tab EXCEPT ![t] = new]
  BY <1>1, <1>2
<1>4. MayWork(Me) /\ activity # IdleLimit => call = "none"
  BY DEF Expired
<1> HIDE DEF call
<1>5. /\ new \in Tab /\ new.page = tab[t].page /\ new.stage = tab[t].stage
      /\ new.beat = tab[t].beat /\ new.call = call
      /\ new.idle = tab[t].idle /\ new.wrote = tab[t].wrote
  BY <1>2 DEF Tab
<1> HIDE DEF new
<1>6. ASSUME signedIn, ~excused
      PROVE  MayWork(Me) /\ InUse(new, activity')
  <2>1. MayWork(Me) /\ InUse(tab[t], activity) /\ activity # IdleLimit
    BY <1>1, <1>6 DEF SessionInv, InUse
  <2>3. tab[t].idle \in Nat /\ tab[t].wrote \in Nat
    BY <1>2 DEF Tab
  <2>4. Covered(new, activity')
    BY <1>2, <1>5, <2>1, <2>3 DEF Covered, InUse, Never
  <2>5. ~Lapses(new) /\ "refused" \notin {new.stage, new.beat, new.call}
    BY <1>4, <1>5, <2>1 DEF InUse, Lapses
  <2>6. activity' # IdleLimit
    BY <1>2, <2>1
  <2> QED  BY <2>1, <2>4, <2>5, <2>6 DEF InUse
<1>7. OnlyAppAsks(new)
  BY <1>1, <1>2, <1>5 DEF OnlyAppAsks
<1> QED  BY <1>1, <1>2, <1>3, <1>5, <1>6, <1>7, OneTabKeeps

LEMMA MeHandledKeeps ==
  ASSUME SessionInv, NEW t \in Tabs, MeHandled(t)
  PROVE  SessionInv'
<1>1. /\ tab[t].stage = "me" /\ activity' = Seen
      /\ UNCHANGED <<accessVars, signedIn, faults, excused>>
  BY DEF MeHandled
<1>2. /\ AccessTypeOK' /\ (MayWork(Me)' <=> MayWork(Me))
      /\ signedIn' \in BOOLEAN /\ excused' \in BOOLEAN
      /\ faults' \in 0..MaxFaults /\ tab \in [Tabs -> Tab] /\ tab[t] \in Tab
      /\ activity' \in {activity, 0} /\ OnlyAppAsks(tab[t])
      /\ activity \in 0..Never
  BY <1>1, AccessKept DEF SessionInv, SessionsTypeOK, Seen
<1>3. ASSUME signedIn, ~excused
      PROVE  /\ MayWork(Me) /\ InUse(tab[t], activity) /\ ~Expired
             /\ activity' # IdleLimit /\ PageFor = "app"
  <2>1. MayWork(Me) /\ InUse(tab[t], activity) /\ ~Expired
    BY <1>1, <1>3 DEF SessionInv, InUse, Expired
  <2>2. activity' # IdleLimit
    BY <1>2, <2>1 DEF Expired
  <2>3. PageFor = "app"
    BY <2>1 DEF PageFor, MayWork
  <2> QED  BY <2>1, <2>2, <2>3
<1>4. ASSUME NEW stage \in {"refused", "idle"},
             stage = "refused" => Expired,
             tab' = [tab EXCEPT ![t].stage = stage]
      PROVE  SessionInv'
  <2> DEFINE new == [tab[t] EXCEPT !.stage = stage]
  <2>1. tab' = [tab EXCEPT ![t] = new]
    BY <1>2, <1>4
  <2>2. /\ new \in Tab /\ new.page = tab[t].page /\ new.stage = stage
        /\ new.beat = tab[t].beat /\ new.call = tab[t].call
        /\ new.idle = tab[t].idle /\ new.wrote = tab[t].wrote
    BY <1>2 DEF Tab
  <2> HIDE DEF new
  <2>3. ASSUME signedIn, ~excused
        PROVE  InUse(new, activity')
    <3>1. tab[t].idle \in Nat /\ tab[t].wrote \in Nat
      BY <1>2 DEF Tab
    <3>2. InUse(tab[t], activity) /\ stage = "idle" /\ activity' # IdleLimit
      BY <1>3, <1>4, <2>3
    <3>3. Covered(new, activity')
      BY <1>2, <2>2, <3>1, <3>2 DEF Covered, InUse, Never
    <3>4. ~Lapses(new) /\ "refused" \notin {new.stage, new.beat, new.call}
      BY <2>2, <3>2 DEF InUse, Lapses
    <3> QED  BY <3>2, <3>3, <3>4 DEF InUse
  <2>4. OnlyAppAsks(new)
    BY <1>2, <2>2 DEF OnlyAppAsks
  <2> QED  BY <1>1, <1>2, <1>3, <2>1, <2>2, <2>3, <2>4, OneTabKeeps
<1>5. CASE Expired
  BY <1>4, <1>5 DEF MeHandled
<1>6. CASE ~Expired /\ PageFor = "app" /\ Guarded(t)
  BY <1>4, <1>6 DEF MeHandled
<1>7. CASE ~Expired /\ PageFor = "app" /\ ~Guarded(t)
  <2>1. tab' = [tab EXCEPT ![t] = Opened]
    BY <1>7 DEF MeHandled, Opened
  <2>2. signedIn' /\ ~excused' =>
          /\ signedIn /\ ~excused
          /\ MayWork(Me)' /\ InUse(Opened, activity')
    BY <1>1, <1>2, <1>3, OpenedIs
  <2> QED  BY <1>1, <1>2, <2>1, <2>2, OpenedIs, OneTabKeeps
<1>8. CASE ~Expired /\ PageFor # "app"
  <2>1. Go(t, PageFor) /\ PageFor \in Pages
    BY <1>8 DEF MeHandled, PageFor, Pages
  <2>2. signedIn' /\ ~excused' => signedIn /\ ~excused /\ PageFor # "app"
    BY <1>1, <1>8
  <2> DEFINE page == PageFor
  <2> HIDE DEF page
  <2>3. Go(t, page) /\ page \in Pages
    BY <2>1 DEF page
  <2>4. signedIn' /\ ~excused' => signedIn /\ ~excused /\ page # "app"
    BY <2>2 DEF page
  <2> QED  BY <1>1, <1>2, <2>3, <2>4, LeftKeeps
<1> QED  BY <1>5, <1>6, <1>7, <1>8

(* A request of a page fails, which excuses what comes of it.              *)
LEMMA RequestFailsKeeps ==
  ASSUME SessionInv, NEW t \in Tabs, RequestFails(t)
  PROVE  SessionInv'
<1>1. /\ excused' = TRUE /\ UNCHANGED <<accessVars, activity, signedIn>>
      /\ faults < MaxFaults /\ faults' = faults + 1
  BY DEF RequestFails
<1>2. /\ AccessTypeOK' /\ signedIn' \in BOOLEAN /\ excused' \in BOOLEAN
      /\ tab \in [Tabs -> Tab] /\ tab[t] \in Tab /\ OnlyAppAsks(tab[t])
  BY <1>1, AccessKept DEF SessionInv, SessionsTypeOK
<1>3. faults' \in 0..MaxFaults
  BY <1>1 DEF SessionInv, SessionsTypeOK
<1>4. CASE tab' = [tab EXCEPT ![t].beat = "none"]
  <2> DEFINE new == [tab[t] EXCEPT !.beat = "none"]
  <2>1. tab' = [tab EXCEPT ![t] = new]
    BY <1>2, <1>4
  <2>2. new \in Tab /\ OnlyAppAsks(new)
    BY <1>2 DEF Tab, OnlyAppAsks
  <2> HIDE DEF new
  <2> QED  BY <1>1, <1>2, <1>3, <2>1, <2>2, OneTabKeeps
<1>5. CASE tab' = [tab EXCEPT ![t].stage = "idle"]
  <2> DEFINE new == [tab[t] EXCEPT !.stage = "idle"]
  <2>1. tab' = [tab EXCEPT ![t] = new]
    BY <1>2, <1>5
  <2>2. new \in Tab /\ OnlyAppAsks(new)
    BY <1>2 DEF Tab, OnlyAppAsks
  <2> HIDE DEF new
  <2> QED  BY <1>1, <1>2, <1>3, <2>1, <2>2, OneTabKeeps
<1> QED  BY <1>4, <1>5 DEF RequestFails

(* An administrator changes the account: it still may work, or there was a *)
(* reason.                                                                 *)
LEMMA AdministerKeeps ==
  ASSUME SessionInv, NEW status \in Statuses, NEW role \in Roles,
         Administer(status, role)
  PROVE  SessionInv'
<1>1. /\ account' = [account EXCEPT ![Me] = [status |-> status, role |-> role]]
      /\ edits < MaxEdits /\ edits' = edits + 1
      /\ UNCHANGED <<inviting, grantVars, activity, signedIn, tab, faults>>
      /\ excused' = (excused \/ status # "active" \/ role = "pending")
  BY DEF Administer, Upsert, Edit
<1>2. AccessTypeOK
  BY DEF SessionInv, SessionsTypeOK
<1>3. account' \in [Operators -> Accounts]
  <2>1. [status |-> status, role |-> role] \in Accounts
    BY DEF Accounts
  <2> QED  BY <1>1, <1>2, <2>1 DEF AccessTypeOK
<1>4. edits' \in 0..MaxEdits
  BY <1>1, <1>2 DEF AccessTypeOK
<1>5. AccessTypeOK'
  BY <1>1, <1>2, <1>3, <1>4 DEF AccessTypeOK, grantVars
<1>6. excused' \in BOOLEAN /\ SessionsTypeOK
  BY <1>1 DEF SessionInv, SessionsTypeOK
<1>7. SessionsTypeOK'
  BY <1>1, <1>5, <1>6 DEF SessionsTypeOK
<1>8. ~excused' => MayWork(Me)' /\ ~excused
  BY <1>1, <1>2 DEF AccessTypeOK, MayWork
<1> QED  BY <1>1, <1>7, <1>8 DEF SessionInv

(* Time passes: a record of activity gets older with the page's own.       *)
LEMMA TickKeeps ==
  ASSUME SessionInv, Tick
  PROVE  SessionInv'
<1> DEFINE older == [t \in Tabs |->
                       IF Guarded(t)
                       THEN [tab[t] EXCEPT !.idle = Aged(@, IdleLimit),
                                           !.wrote = Aged(@, WriteGap)]
                       ELSE tab[t]]
<1>1. /\ \A t \in Tabs : Quiet(t)
      /\ activity' = IF activity = Never THEN Never
                     ELSE Aged(activity, IdleLimit)
      /\ tab' = older
      /\ excused' = (excused \/ \E t \in Tabs : Lapses(tab'[t]))
      /\ UNCHANGED <<accessVars, signedIn, faults>>
  BY DEF Tick
<1>2. SessionsTypeOK /\ AccessTypeOK' /\ (MayWork(Me)' <=> MayWork(Me))
  BY <1>1, AccessKept DEF SessionInv
<1>3. activity \in 0..Never /\ activity' \in 0..Never
  <2>1. activity' = IF activity = Never THEN Never
                    ELSE Aged(activity, IdleLimit)
    BY <1>1
  <2>2. activity \in 0..Never
    BY <1>2 DEF SessionsTypeOK
  <2> QED  BY <2>1, <2>2 DEF Never, Aged
<1>4. ASSUME NEW t \in Tabs
      PROVE  /\ tab[t] \in Tab /\ tab'[t] \in Tab
             /\ tab'[t].page = tab[t].page /\ tab'[t].stage = "idle"
             /\ tab'[t].beat = "none" /\ tab'[t].call = "none"
             /\ tab[t].page = "app" =>
                  /\ tab'[t].idle = Aged(tab[t].idle, IdleLimit)
                  /\ tab'[t].wrote = Aged(tab[t].wrote, WriteGap)
  <2>1. /\ tab[t] \in Tab /\ tab[t].stage = "idle"
        /\ tab[t].beat = "none" /\ tab[t].call = "none"
    BY <1>1, <1>2 DEF SessionsTypeOK, Quiet
  <2> DEFINE idle == Aged(tab[t].idle, IdleLimit)
             wrote == Aged(tab[t].wrote, WriteGap)
  <2>2. idle \in 0..IdleLimit /\ wrote \in 0..WriteGap
    BY <2>1 DEF Tab, Aged
  <2>3. tab'[t] = IF tab[t].page = "app"
                  THEN [tab[t] EXCEPT !.idle = idle, !.wrote = wrote]
                  ELSE tab[t]
    BY <1>1, <2>1 DEF Guarded, Tab
  <2> HIDE DEF idle, wrote
  <2>4. /\ tab'[t] \in Tab
        /\ tab'[t].page = tab[t].page /\ tab'[t].stage = tab[t].stage
        /\ tab'[t].beat = tab[t].beat /\ tab'[t].call = tab[t].call
        /\ tab[t].page = "app" =>
             tab'[t].idle = idle /\ tab'[t].wrote = wrote
    BY <2>1, <2>2, <2>3 DEF Tab
  <2> QED  BY <2>1, <2>4 DEF idle, wrote
<1>5. SessionsTypeOK'
  <2>1. tab' \in [Tabs -> Tab]
    <3>1. DOMAIN older = Tabs /\ older = [t \in Tabs |-> older[t]]
      OBVIOUS
    <3>2. \A t \in Tabs : older[t] \in Tab
      BY <1>1, <1>4
    <3> HIDE DEF older
    <3> QED  BY <1>1, <3>1, <3>2
  <2>2. excused' \in BOOLEAN
    BY <1>1, <1>2 DEF SessionsTypeOK
  <2> QED  BY <1>1, <1>2, <1>3, <2>1, <2>2 DEF SessionsTypeOK
<1>6. \A t \in Tabs : OnlyAppAsks(tab'[t])
  BY <1>4 DEF OnlyAppAsks
<1>7. ASSUME signedIn', ~excused', NEW t \in Tabs
      PROVE  InUse(tab'[t], activity')
  <2>1. /\ signedIn /\ ~excused /\ ~Lapses(tab'[t])
        /\ InUse(tab[t], activity)
    BY <1>1, <1>7 DEF SessionInv
  <2>2. Covered(tab'[t], activity')
    <3> SUFFICES ASSUME tab[t].page = "app"
                 PROVE  Covered(tab'[t], activity')
      BY <1>4 DEF Covered
    <3> DEFINE age == activity
               tb == tab[t]
    <3>1. /\ tb.idle \in 0..IdleLimit /\ tb.wrote \in 0..WriteGap
          /\ tb.idle <= IdleLimit - WriteGap /\ age \in 0..Never
      BY <1>3, <1>4, <2>1 DEF InUse, Lapses, Tab
    <3>2. IF tb.wrote < WriteGap THEN age <= tb.wrote
                                 ELSE age < tb.idle + WriteGap
      <4>1. tb.beat = "none"
        BY <1>1 DEF Quiet
      <4> QED  BY <2>1, <4>1 DEF InUse, Covered
    <3>3. /\ tab'[t].idle = tb.idle + 1
          /\ tab'[t].wrote = IF tb.wrote < WriteGap THEN tb.wrote + 1
                             ELSE tb.wrote
      BY <1>4, <3>1 DEF Aged
    <3>4. activity' = age + 1
      <4>1. age < IdleLimit
        BY <3>1, <3>2
      <4>2. activity' = IF age = Never THEN Never ELSE Aged(age, IdleLimit)
        BY <1>1
      <4> QED  BY <3>1, <4>1, <4>2 DEF Aged, Never
    <3> HIDE DEF age, tb
    <3>5. IF tab'[t].wrote < WriteGap THEN activity' <= tab'[t].wrote
          ELSE activity' < tab'[t].idle + WriteGap
      BY <3>1, <3>2, <3>3, <3>4
    <3> QED  BY <3>5 DEF Covered
  <2> QED  BY <1>4, <2>1, <2>2 DEF InUse
<1>8. signedIn' /\ ~excused' => MayWork(Me)'
  BY <1>1, <1>2 DEF SessionInv
<1> QED  BY <1>5, <1>6, <1>7, <1>8 DEF SessionInv

LEMMA SessionInvStep ==
  ASSUME SessionInv, [SessionsNext]_allVars
  PROVE  SessionInv'
<1>1. CASE UNCHANGED allVars
  <2>1. AccessTypeOK' /\ (MayWork(Me)' <=> MayWork(Me))
    BY <1>1, AccessKept DEF allVars
  <2>2. UNCHANGED <<activity, signedIn, tab, faults, excused>>
    BY <1>1 DEF allVars, sessionVars
  <2>3. SessionsTypeOK'
    BY <2>1, <2>2 DEF SessionInv, SessionsTypeOK
  <2> QED  BY <2>1, <2>2, <2>3 DEF SessionInv
<1>2. ASSUME NEW t \in Tabs, UserActs(t) PROVE SessionInv'
  BY <1>2, SignInKeeps, OpenPageKeeps, TouchKeeps, SignOutKeeps DEF UserActs
<1>3. ASSUME NEW t \in Tabs, Handled(t) PROVE SessionInv'
  BY <1>3, RegisterHandledKeeps, MeHandledKeeps, BeatHandledKeeps,
     CallHandledKeeps DEF Handled
<1>4. ASSUME NEW t \in Tabs,
             Refresh(t) \/ IdleCheck(t) \/ Refused(t) \/ RequestFails(t)
      PROVE  SessionInv'
  BY <1>4, RefreshKeeps, SignOutKeeps, RequestFailsKeeps
<1>5. ASSUME NEW status \in Statuses, NEW role \in Roles,
             Administer(status, role)
      PROVE  SessionInv'
  BY <1>5, AdministerKeeps
<1> QED  BY <1>1, <1>2, <1>3, <1>4, <1>5, TickKeeps DEF SessionsNext

(* Every page that is in use is known to be in use: the cloud's record of  *)
(* the last activity is old enough to refuse a request only where a page   *)
(* was left alone, the account was changed or a request failed.  Assumes   *)
(* AccessAssumption and SessionsAssumption.                                *)
THEOREM SessionInvHolds == SessionsSpec => []SessionInv
<1>1. AccessInit /\ SessionsInit => SessionInv
  BY SessionInvInit
<1>2. SessionInv /\ [SessionsNext]_allVars => SessionInv'
  BY SessionInvStep
<1> QED  BY <1>1, <1>2, PTL DEF SessionsSpec

(* An operator who uses the pages they have open is not signed out, by the *)
(* timer of a page or by the refusal of the cloud (authenticatedResponse), *)
(* for any number of tabs and any limits.                                  *)
THEOREM ActiveStaysTheorem == SessionsSpec => ActiveStays
<1> DEFINE Stays == signedIn /\ ~signedIn' =>
                      excused \/ \E t \in Tabs : Logout(t)
<1>1. ASSUME SessionInv, [SessionsNext]_allVars
      PROVE  [Stays]_allVars
  <2> SUFFICES ASSUME signedIn, ~signedIn', ~excused,
                      ~(\E t \in Tabs : Logout(t))
               PROVE  FALSE
    OBVIOUS
  <2>1. \A t \in Tabs : InUse(tab[t], activity) /\ tab[t] \in Tab
    BY <1>1 DEF SessionInv, SessionsTypeOK
  <2>2. \A t \in Tabs : ~IdleCheck(t)
    BY <2>1 DEF IdleCheck, Guarded, InUse, Lapses
  <2>3. \A t \in Tabs : ~Refused(t)
    BY <2>1 DEF Refused, InUse
  <2>4. ~(UNCHANGED signedIn)
    OBVIOUS
  <2>5. ASSUME NEW t \in Tabs PROVE ~UserActs(t) /\ ~Handled(t)
    BY <2>4 DEF UserActs, Handled, SignIn, OpenPage, Touch, RegisterHandled,
                MeHandled, BeatHandled, CallHandled
  <2>6. ASSUME NEW t \in Tabs PROVE ~Refresh(t) /\ ~RequestFails(t)
    BY <2>4 DEF Refresh, RequestFails
  <2>7. ~Tick /\ \A status \in Statuses, role \in Roles :
                   ~Administer(status, role)
    BY <2>4 DEF Tick, Administer
  <2>8. ~(UNCHANGED allVars)
    BY <2>4 DEF allVars, sessionVars
  <2> QED  BY <1>1, <2>2, <2>3, <2>5, <2>6, <2>7, <2>8 DEF SessionsNext
<1>2. SessionsSpec => []SessionInv
  BY SessionInvHolds
<1> QED  BY <1>1, <1>2, PTL DEF SessionsSpec, ActiveStays

=============================================================================
