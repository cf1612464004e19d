------------------------------- MODULE Access -------------------------------
(***************************************************************************)
(* Who may use the cloud, and which sites they see: the accounts of        *)
(* operators, invitations, and memberships in organizations and sites.     *)
(*                                                                         *)
(* A request is one transaction, except an invitation: it reads the        *)
(* account, asks Supabase to send an email, and then writes what it        *)
(* assigned.  Organizations, sites and memberships are never deleted.      *)
(***************************************************************************)
EXTENDS Naturals

CONSTANTS
  Operators, Organizations, Sites,
  NoOrganization,
  RequireExplicitMembership,   \* settings.require_explicit_membership
  MaxEdits                     \* bound on the requests of administrators

ASSUME AccessAssumption ==
  /\ NoOrganization \notin Organizations
  /\ RequireExplicitMembership \in BOOLEAN
  /\ MaxEdits \in Nat

VARIABLES
  account,        \* operator_users; "none" stands for a missing row
  inviting,       \* the account as an invitation under way has read it
  organizations,  \* those created
  sites,          \* those created
  organizationOf, \* Site.organization_id
  siteMember,     \* site_memberships
  orgMember,      \* organization_memberships
  edits           \* requests of administrators so far

grantVars == <<organizations, sites, organizationOf, siteMember, orgMember>>
accessVars == <<account, inviting, grantVars, edits>>

(* "operator" stands for "viewer" too: both see and ask the same here.     *)
Roles    == {"pending", "operator", "admin"}
Statuses == {"pending", "active", "disabled"}

NoAccount == [status |-> "none", role |-> "none"]
Pending   == [status |-> "pending", role |-> "pending"]
Accounts  == [status : Statuses, role : Roles] \cup {NoAccount}

(* No invitation is under way for the operator.                            *)
NoInvitation == [status |-> "idle", role |-> "idle"]

AccessTypeOK ==
  /\ account \in [Operators -> Accounts]
  /\ inviting \in [Operators -> Accounts \cup {NoInvitation}]
  /\ organizations \subseteq Organizations /\ sites \subseteq Sites
  /\ organizationOf \in [Sites -> organizations \cup {NoOrganization}]
  /\ siteMember \subseteq Operators \X sites
  /\ orgMember \subseteq Operators \X organizations
  /\ edits \in 0..MaxEdits

AccessInit ==
  /\ account = [u \in Operators |-> NoAccount]
  /\ inviting = [u \in Operators |-> NoInvitation]
  /\ organizations = {} /\ sites = {}
  /\ organizationOf = [s \in Sites |-> NoOrganization]
  /\ siteMember = {} /\ orgMember = {}
  /\ edits = 0

Edit == edits < MaxEdits /\ edits' = edits + 1

-----------------------------------------------------------------------------
(* Accounts.                                                               *)

(* register_operator_profile: a new account waits for its approval.        *)
Registered(u) ==
  account' = [account EXCEPT ![u] = IF @ = NoAccount THEN Pending ELSE @]

Register(u) == Registered(u) /\ UNCHANGED <<inviting, grantVars, edits>>

(* invite_operator_user, up to the request to Supabase.                    *)
InviteStarts(u) ==
  /\ inviting[u] = NoInvitation
  /\ account[u].status # "active"
  /\ inviting' = [inviting EXCEPT ![u] = account[u]]
  /\ Edit
  /\ UNCHANGED <<account, grantVars>>

InviteFails(u) ==
  /\ inviting[u] # NoInvitation
  /\ inviting' = [inviting EXCEPT ![u] = NoInvitation]
  /\ UNCHANGED <<account, grantVars, edits>>

(* The UPDATE names only the columns that the assignments have changed     *)
(* from what was read; a second INSERT of an email is refused.             *)
Written(read, assigned, stored) == IF read = assigned THEN stored ELSE assigned

InvitedAnyway(read, stored) == Pending

Invited(read, stored) ==
  IF read = NoAccount
  THEN IF stored = NoAccount THEN Pending ELSE stored
  ELSE [status |-> Written(read.status, "pending", stored.status),
        role   |-> Written(read.role, "pending", stored.role)]

InviteEnds(u) ==
  /\ inviting[u] # NoInvitation
  /\ account' = [account EXCEPT ![u] = Invited(inviting[u], @)]
  /\ inviting' = [inviting EXCEPT ![u] = NoInvitation]
  /\ UNCHANGED <<grantVars, edits>>

(* upsert_operator_user.                                                   *)
Upsert(u, status, role) ==
  /\ account' = [account EXCEPT ![u] = [status |-> status, role |-> role]]
  /\ Edit
  /\ UNCHANGED <<inviting, grantVars>>

-----------------------------------------------------------------------------
(* Organizations, sites and memberships.                                   *)

(* create_organization; a name that exists is refused.                     *)
CreateOrganization(o) ==
  /\ o \notin organizations
  /\ organizations' = organizations \cup {o}
  /\ Edit
  /\ UNCHANGED <<account, inviting, sites, organizationOf, siteMember,
                 orgMember>>

(* A heartbeat or an enrollment names a site for the first time.           *)
NewSite(s) ==
  /\ s \notin sites
  /\ sites' = sites \cup {s}
  /\ UNCHANGED <<account, inviting, organizations, organizationOf,
                 siteMember, orgMember, edits>>

(* upsert_organization_membership and upsert_site_membership.  The role of *)
(* a membership is stored and shown, and decides nothing.                  *)
JoinOrganization(u, o) ==
  /\ account[u] # NoAccount /\ o \in organizations
  /\ orgMember' = orgMember \cup {<<u, o>>}
  /\ Edit
  /\ UNCHANGED <<account, inviting, organizations, sites, organizationOf,
                 siteMember>>

JoinSite(u, s) ==
  /\ account[u] # NoAccount /\ s \in sites
  /\ siteMember' = siteMember \cup {<<u, s>>}
  /\ Edit
  /\ UNCHANGED <<account, inviting, organizations, sites, organizationOf,
                 orgMember>>

(* assign_site_organization: a site moves to another organization.         *)
AssignSite(s, o) ==
  /\ s \in sites /\ o \in organizations
  /\ organizationOf' = [organizationOf EXCEPT ![s] = o]
  /\ Edit
  /\ UNCHANGED <<account, inviting, organizations, sites, siteMember,
                 orgMember>>

-----------------------------------------------------------------------------
(* visible_site_ids.                                                       *)
IsPlatformAdmin(u) == account[u].role = "admin"

Granted(u) ==
  {s \in sites : \/ <<u, s>> \in siteMember
                 \/ <<u, organizationOf[s]>> \in orgMember}

(* Operators from before memberships keep what they see until their first  *)
(* scope, unless memberships are required.                                 *)
IsScopedBySites(u) == Granted(u) # {}

IsScoped(u) ==
  Granted(u) # {} \/ \E o \in organizations : <<u, o>> \in orgMember

Visible(u) ==
  IF IsPlatformAdmin(u) THEN sites
  ELSE IF IsScoped(u) THEN Granted(u)
  ELSE IF RequireExplicitMembership THEN {} ELSE sites

(* require_operator_auth lets the request of an operator in.               *)
MayWork(u) == account[u].status = "active" /\ account[u].role # "pending"

-----------------------------------------------------------------------------
AccessNext ==
  \/ \E u \in Operators :
       \/ Register(u) \/ InviteStarts(u) \/ InviteFails(u) \/ InviteEnds(u)
       \/ \E status \in Statuses, role \in Roles : Upsert(u, status, role)
       \/ \E o \in Organizations : JoinOrganization(u, o)
       \/ \E s \in Sites : JoinSite(u, s)
  \/ \E o \in Organizations : CreateOrganization(o)
  \/ \E s \in Sites : NewSite(s) \/ \E o \in Organizations : AssignSite(s, o)

AccessSpec == AccessInit /\ [][AccessNext]_accessVars

-----------------------------------------------------------------------------
(* A site that an operator did not see comes to be seen only because it is *)
(* granted to them, or because they become platform administrator: never   *)
(* because a site moved away, an organization is empty or nothing is left  *)
(* of their scope.                                                         *)
VisibilityNeedsGrant ==
  [][\A u \in Operators, s \in sites :
       s \notin Visible(u) /\ s \in Visible(u)' =>
         IsPlatformAdmin(u)' \/ s \in Granted(u)']_accessVars

(* An account that is approved while an invitation for it is under way     *)
(* stays as the administrator set it.  (The invitation of an account that  *)
(* was blocked, or had a role, takes the approval back.)                   *)
InvitedAsPending(u) == inviting[u] \in {NoInvitation, NoAccount, Pending}

IsUpserted(u) ==
  \E status \in Statuses, role \in Roles : Upsert(u, status, role)

ApprovalStands ==
  [][\A u \in Operators :
       account[u].status = "active" /\ InvitedAsPending(u) =>
         account'[u] = account[u] \/ IsUpserted(u)]_accessVars

(* ... whatever the account was: not the case.                             *)
EveryApprovalStands ==
  [][\A u \in Operators :
       account[u].status = "active" =>
         account'[u] = account[u] \/ IsUpserted(u)]_accessVars
=============================================================================
