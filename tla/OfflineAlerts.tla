---------------------------- MODULE OfflineAlerts ----------------------------
(***************************************************************************)
(* How an operator learns that a gateway is offline or that its backlog of *)
(* trend samples does not drain.  The gateway is heard of through          *)
(* heartbeats, each with the credential its agent has; a scheduler or an   *)
(* administrator has the cloud evaluate what was heard, and evaluations    *)
(* may overlap.  An evaluation reads the rows of GatewayAlertState, sends  *)
(* webhooks while it decides, and commits at the end.                      *)
(***************************************************************************)
EXTENDS GatewayRecord

CONSTANTS
  Credentials,   \* GatewayCredential, 1..N in the order of their creation
  Evaluations,   \* evaluations that may be under way
  BacklogAfter,  \* alert_trend_backlog_age_hours
  MaxDeliveries, \* alert_max_deliveries_per_run
  MaxClock, MaxBeats, MaxTrouble,
  Agent0         \* the agent's version

Types == {"gateway_offline", "trend_backlog"}

ASSUME AlertsAssumption ==
  /\ Credentials \subseteq Nat /\ 1 \in Credentials /\ IsFiniteSet(Credentials)
  /\ BacklogAfter \in Nat /\ MaxDeliveries \in Nat \ {0}
  /\ MaxClock \in Nat /\ MaxBeats \in Nat /\ MaxTrouble \in Nat
  /\ Agent0 \in Versions

VARIABLES
  clock,
  record,     \* EdgeNode of the gateway
  credential, \* "none", "active" or "revoked"
  token,      \* the credential in the agent's configuration
  webhook,    \* alert_webhook_url is configured
  row,        \* GatewayAlertState of the gateway, by type
  run,        \* each evaluation
  told,       \* the last event delivered, by type; with no webhook, the
              \* last acknowledged (history)
  twice,      \* types of which the same was delivered twice (history)
  untrue,     \* types of which an event was sent by an evaluation that
              \* did not commit, or whose row was written by one that was
              \* overtaken (history)
  capped,     \* an event was put off, the run had sent enough (history)
  beats,      \* heartbeats sent (bound)
  trouble     \* deliveries that failed, evaluations that died or
              \* overlapped (bound)

alertVars == <<clock, record, credential, token, webhook, row, run, told,
               twice, untrue, capped, beats, trouble>>

NoRow == [exists |-> FALSE, active |-> FALSE, changed |-> FALSE,
          notified |-> FALSE]
Resting == [on |-> FALSE, now |-> 0, seen |-> Preprovisioned(Agent0, Agent0),
            hook |-> FALSE, left |-> {}, old |-> [t \in Types |-> NoRow],
            new |-> [t \in Types |-> NoRow], tries |-> 0, over |-> {}]
Rows == [exists : BOOLEAN, active : BOOLEAN, changed : BOOLEAN,
         notified : BOOLEAN]

(* An evaluation: what it has read, what it has yet to look at, the rows   *)
(* it will write; over: rows that others have written since (history).     *)
Runs == [on : BOOLEAN, now : 0..MaxClock, seen : Records, hook : BOOLEAN,
         left : SUBSET Types, old : [Types -> Rows], new : [Types -> Rows],
         tries : Nat, over : SUBSET Types]
Told == {"nothing", "alert", "recovered"}

AlertsTypeOK ==
  /\ clock \in 0..MaxClock /\ beats \in 0..MaxBeats
  /\ trouble \in 0..MaxTrouble
  /\ record \in Records
  /\ credential \in [Credentials -> {"none", "active", "revoked"}]
  /\ token \in Credentials /\ webhook \in BOOLEAN
  /\ row \in [Types -> Rows]
  /\ run \in [Evaluations -> Runs]
  /\ told \in [Types -> Told] /\ twice \subseteq Types /\ untrue \subseteq Types
  /\ capped \in BOOLEAN

AlertsInit ==
  /\ clock = 0 /\ beats = 0 /\ trouble = 0
  /\ record = Preprovisioned(Agent0, Agent0)
  /\ credential = [c \in Credentials |-> IF c = 1 THEN "active" ELSE "none"]
  /\ token = 1
  /\ webhook \in BOOLEAN
  /\ row = [t \in Types |-> NoRow]
  /\ run = [e \in Evaluations |-> Resting]
  /\ told = [t \in Types |-> "nothing"]
  /\ twice = {} /\ untrue = {} /\ capped = FALSE

-----------------------------------------------------------------------------
(* Heartbeats and credentials.                                             *)

Tick ==
  /\ clock < MaxClock /\ clock' = clock + 1
  /\ UNCHANGED <<record, credential, token, webhook, row, run, told, twice,
                 untrue, capped, beats, trouble>>

(* _gateway_auth_context: any credential that is not revoked will do.      *)
Accepted(c) == credential[c] = "active"

(* run_once and receive_heartbeat: oldest is when the oldest sample that   *)
(* waits was stored, or Never; when its database cannot be read, Never.    *)
SendHeartbeat(oldest) ==
  /\ beats < MaxBeats /\ beats' = beats + 1
  /\ record' = IF Accepted(token)
               THEN Receive(record, Beat(Agent0, TRUE, oldest, clock))
               ELSE record
  /\ UNCHANGED <<clock, credential, token, webhook, row, run, told, twice,
                 untrue, capped, trouble>>

(* provision_gateway adds a credential and leaves the others valid.        *)
Provision ==
  \E c \in Credentials :
    /\ credential[c] = "none"
    /\ \A d \in Credentials : d < c => credential[d] # "none"
    /\ credential' = [credential EXCEPT ![c] = "active"]
    /\ record' = Reprovisioned(record, Agent0, Agent0)
    /\ UNCHANGED <<clock, token, webhook, row, run, told, twice, untrue,
                   capped, beats, trouble>>

(* The token is written into the agent's configuration.                    *)
InstallToken(c) ==
  /\ credential[c] # "none" /\ token < c
  /\ token' = c
  /\ UNCHANGED <<clock, record, credential, webhook, row, run, told, twice,
                 untrue, capped, beats, trouble>>

(* admin_revoke_gateway_credential; of a credential the agent uses, others *)
(* are not heard of (bound).                                               *)
Revoke(c) ==
  /\ credential[c] = "active" /\ token = c
  /\ credential' = [credential EXCEPT ![c] = "revoked"]
  /\ UNCHANGED <<clock, record, token, webhook, row, run, told, twice, untrue,
                 capped, beats, trouble>>

(* The cloud is started again with an address for its alerts.              *)
EnableWebhook ==
  /\ ~webhook /\ webhook' = TRUE
  /\ UNCHANGED <<clock, record, credential, token, row, run, told, twice,
                 untrue, capped, beats, trouble>>

-----------------------------------------------------------------------------
(* admin_evaluate_alerts.                                                  *)

BacklogAt(r, now) ==
  ~IsOffline(r, now) /\ r.oldest # Never /\ r.oldest < now - BacklogAfter
Holds(t, r, now) ==
  IF t = "gateway_offline" THEN IsOffline(r, now) ELSE BacklogAt(r, now)

Running == {e \in Evaluations : run[e].on}

(* A gateway that was never heard of is not looked at.                     *)
StartEvaluation(e) ==
  /\ ~run[e].on /\ record.at # Never
  /\ \A d \in Evaluations : d < e => run[d].on
  /\ IF Running = {} THEN UNCHANGED trouble
     ELSE trouble < MaxTrouble /\ trouble' = trouble + 1
  /\ run' = [run EXCEPT ![e] =
       [on |-> TRUE, now |-> clock, seen |-> record, hook |-> webhook,
        left |-> Types, old |-> row, new |-> row, tries |-> 0, over |-> {}]]
  /\ UNCHANGED <<clock, record, credential, token, webhook, row, told, twice,
                 untrue, capped, beats>>

NextType(e) ==
  IF "gateway_offline" \in run[e].left THEN "gateway_offline"
  ELSE "trend_backlog"

(* process: the row after the look at the condition.                       *)
SeenAndKept(r, holds) ==
  IF holds = r.active THEN [r EXCEPT !.exists = TRUE]
  ELSE [exists |-> TRUE, active |-> holds, changed |-> TRUE,
        notified |-> r.notified]
Seen(r, holds) ==
  IF holds = r.active THEN [r EXCEPT !.exists = TRUE]
  ELSE [exists |-> TRUE, active |-> holds, changed |-> TRUE, notified |-> FALSE]
PendingAlways(r) == r.changed
Pending(r) == r.changed /\ ~r.notified

(* With no webhook the event is acknowledged; otherwise it is sent, as     *)
(* long as the run may send, and acknowledged if the answer says so.       *)
Process(e) ==
  /\ run[e].on /\ run[e].left # {}
  /\ LET t == NextType(e)
         r == Seen(run[e].new[t], Holds(t, run[e].seen, run[e].now))
         event == IF r.active THEN "alert" ELSE "recovered"
         maySend == run[e].hook /\ run[e].tries < MaxDeliveries
         Keep(s, n) ==
           run' = [run EXCEPT ![e].left = @ \ {t}, ![e].new[t] = s,
                              ![e].tries = @ + n]
     IN  \/ /\ ~Pending(r) \/ (run[e].hook /\ ~maySend)
            /\ Keep(r, 0) /\ capped' = (capped \/ Pending(r))
            /\ UNCHANGED <<told, twice, trouble>>
         \/ /\ Pending(r) /\ (run[e].hook => maySend)
            /\ Keep([r EXCEPT !.notified = TRUE], IF maySend THEN 1 ELSE 0)
            /\ told' = [told EXCEPT ![t] = event]
            /\ twice' = IF told[t] = event THEN twice \cup {t} ELSE twice
            /\ UNCHANGED <<capped, trouble>>
         \/ /\ Pending(r) /\ maySend
            /\ trouble < MaxTrouble /\ trouble' = trouble + 1
            /\ Keep(r, 1) /\ UNCHANGED <<told, twice, capped>>
  /\ UNCHANGED <<clock, record, credential, token, webhook, row, untrue,
                 beats>>

(* The commit writes the columns that were set to something else.  A row   *)
(* that another evaluation has created meanwhile makes all of it fail.     *)
Merge(old, new, now) ==
  [exists   |-> TRUE,
   active   |-> IF new.active # old.active THEN new.active ELSE now.active,
   changed  |-> new.changed \/ now.changed,
   notified |-> IF new.notified # old.notified
                   \/ (old.notified /\ new.active # old.active)
                THEN new.notified ELSE now.notified]
Conflict(e) == \E t \in Types : ~run[e].old[t].exists /\ row[t].exists

(* What the evaluation has told is forgotten if it does not commit; if it  *)
(* is overtaken, the row may say of one event that the other was told.     *)
ToldBy(e) ==
  {t \in Types : LET old == run[e].old[t]
                     new == run[e].new[t]
                 IN  new.notified /\ (~old.notified \/ new.active # old.active)}
Overtake(r, types) ==
  IF r.on THEN [r EXCEPT !.over = @ \cup types] ELSE r

Commit(e) ==
  /\ run[e].on /\ run[e].left = {}
  /\ IF Conflict(e) THEN untrue' = untrue \cup ToldBy(e) /\ UNCHANGED row
     ELSE /\ row' = [t \in Types |->
                       Merge(run[e].old[t], run[e].new[t], row[t])]
          /\ untrue' = untrue \cup run[e].over
  /\ LET written == {t \in Types : row'[t] # row[t]}
     IN  run' = [d \in Evaluations |->
                   IF d = e THEN Resting ELSE Overtake(run[d], written)]
  /\ UNCHANGED <<clock, record, credential, token, webhook, told, twice,
                 capped, beats, trouble>>

(* The process dies; what was sent was sent.                               *)
Die(e) ==
  /\ run[e].on /\ trouble < MaxTrouble /\ trouble' = trouble + 1
  /\ untrue' = untrue \cup ToldBy(e)
  /\ run' = [run EXCEPT ![e] = Resting]
  /\ UNCHANGED <<clock, record, credential, token, webhook, row, told, twice,
                 capped, beats>>

AlertsNext ==
  \/ Tick \/ Provision \/ EnableWebhook
  \/ \E c \in Credentials : InstallToken(c) \/ Revoke(c)
  \/ \E t \in {Never, 0} : SendHeartbeat(t)
  \/ \E e \in Evaluations :
       StartEvaluation(e) \/ Process(e) \/ Commit(e) \/ Die(e)

AlertsSpec == AlertsInit /\ [][AlertsNext]_alertVars

-----------------------------------------------------------------------------
(* Properties.                                                             *)

(* What the table says of an event that was notified is what the operator  *)
(* was told last: an alert while the condition holds, a recovery after;    *)
(* through failed deliveries, runs that send too little, evaluations that  *)
(* die or overlap.  What an evaluation has told that did not commit, or    *)
(* was overtaken by another, is excepted.                                  *)
LastWordIsTrue ==
  Running = {} =>
    \A t \in Types \ untrue :
      row[t].notified =>
        told[t] = IF row[t].active THEN "alert" ELSE "recovered"

(* Without the exception ("Alerts fire on state CHANGES only", "also safe  *)
(* to invoke manually", docstring of admin_evaluate_alerts).               *)
LastWordIsAlwaysTrue ==
  Running = {} =>
    \A t \in Types :
      row[t].notified =>
        told[t] = IF row[t].active THEN "alert" ELSE "recovered"

(* The operator is told the same twice in a row only if a delivery failed, *)
(* or an evaluation died or was overtaken by another, or a run had sent    *)
(* enough and put an event off until it was over; nothing is replayed      *)
(* when a webhook is configured later.                                     *)
TwiceNeedsTrouble == twice # {} => trouble > 0 \/ capped

(* A recovery of the backlog says that the gateway has reported no old     *)
(* samples (docstring of admin_evaluate_alerts: "backlog appears/clears"). *)
ClearedIsClear ==
  [][\A t \in {"trend_backlog"} :
       told[t] = "alert" /\ told'[t] = "recovered" =>
         \/ record.oldest = Never
         \/ record.oldest >= clock - BacklogAfter]_alertVars
=============================================================================
