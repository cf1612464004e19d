---------------------------- MODULE MCOperators ----------------------------
(***************************************************************************)
(* What operators do in the cloud.  An instance starts with the approval   *)
(* of a batch of writes, with the session of an operator, with accounts    *)
(* and memberships, or with a page that is about to be opened; what        *)
(* belongs to the others stays as it is.                                   *)
(***************************************************************************)
EXTENDS MCWriteBatch, Sessions, Dashboard, WorkspacePages

CONSTANTS u1, o1, o2, s1, s2, t1, t2

CONSTANT SessionEdits   \* bound on edits while a session is looked at

VARIABLE part   \* "writes", "session", "access", "dashboard", "workspace"

operatorVars == <<part, vars, allVars, dashboardVars, workspaceVars>>

(* Initial states of the other parts are not told apart.                   *)
OperatorsInit ==
  /\ part \in {"writes", "session", "access", "dashboard", "workspace"}
  /\ Init /\ AccessInit /\ SessionsInit /\ DashboardInit /\ WorkspaceInit
  /\ part # "workspace" => tunnel = "closed"

OperatorsNext ==
  \/ part = "writes" /\ Next
       /\ UNCHANGED <<part, allVars, dashboardVars, workspaceVars>>
  \/ part = "session" /\ SessionsNext /\ edits' <= SessionEdits
       /\ UNCHANGED <<part, vars, dashboardVars, workspaceVars>>
  \/ part = "access" /\ AccessNext
       /\ UNCHANGED <<part, vars, sessionVars, dashboardVars, workspaceVars>>
  \/ part = "dashboard" /\ DashboardNext
       /\ UNCHANGED <<part, vars, allVars, workspaceVars>>
  \/ part = "workspace" /\ WorkspaceNext
       /\ UNCHANGED <<part, vars, allVars, dashboardVars>>

(* Nothing that is owed by fairness is open in a part left as it is.       *)
OperatorsSpec ==
  /\ OperatorsInit /\ [][OperatorsNext]_operatorVars
  /\ SessionsFairness /\ DashboardFairness /\ WorkspaceFairness

OperatorsTypeOK == TypeOK /\ SessionsTypeOK
=============================================================================
