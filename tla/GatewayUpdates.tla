---------------------------- MODULE GatewayUpdates ----------------------------
(***************************************************************************)
(* Updates that operators queue in the cloud and that the updater          *)
(* applications on a desk claim, run against the gateway and report.  The  *)
(* older updater waits after a job until the gateway has been heard of     *)
(* again; the newer one reports success in the background.  A worker stops *)
(* claiming after HaltAfter failures in a row until it is restarted.       *)
(*                                                                         *)
(* A handler of the cloud reads, decides and commits without a lock: the   *)
(* queueing of a request and a claim are two steps each.  A job is one     *)
(* step here, its phases are in UpgradeJobs.  Time is counted in ends of   *)
(* jobs: a heartbeat carries how many the gateway has seen.                *)
(***************************************************************************)
EXTENDS GatewayRecord, Sequences, Functions

CONSTANTS
  Gateways, Requests,  \* Requests: 1..N, in the order of requested_at
  Legacy, Dev,         \* the workers of the two updaters
  AskedScopes,         \* what operators ask for
  Approved,            \* the version the cloud approves at present
  DevAgent,            \* the agent's version the newer updater is set to
  LegacyRelease,       \* the version the older updater is set to
  HaltAfter,
  Skews,               \* how far a gateway's clock may be ahead
  MaxFaults,           \* answers and reports lost, heartbeats delayed,
                       \* restarts
  NoRequest

Workers == Legacy \cup Dev
ASSUME UpdatesAssumption ==
  /\ Legacy \cap Dev = {} /\ AskedScopes \subseteq Scopes
  /\ Requests \subseteq Nat \ {0} /\ IsFiniteSet(Requests)
  /\ {Approved, DevAgent, LegacyRelease} \subseteq Versions
  /\ \E v \in Versions : v \notin {Approved, DevAgent, LegacyRelease}
  /\ HaltAfter \in Nat \ {0} /\ MaxFaults \in Nat
  /\ Skews \subseteq Nat

VARIABLES
  request,  \* GatewayUpdateRequest
  asked,    \* posts of operators that found no open request
  claims,   \* claims that found the request queued
  node,     \* EdgeNode
  host,     \* what runs on each gateway
  late,     \* heartbeats that are on their way
  skew,     \* how far the clock of each gateway is ahead
  worker,   \* the thread gateway_update_worker of each updater
  reports,  \* reports of success in the background
  ends,     \* how many jobs have ended on each gateway
  faults,   \* answers and reports lost, restarts (bound)
  delays,   \* heartbeats that were delayed (bound)
  done,     \* which worker has completed which request's job (history)
  back,     \* those of them after which the gateway has sent (history)
  raced,    \* two posts or two claims overlapped (history)
  results   \* outcomes of each worker since it was started (history)

vars == <<request, asked, claims, node, host, late, skew, worker, reports,
          ends, faults, delays, done, back, raced, results>>

Open == {"queued", "running"}
Final == {"completed", "failed"}
Idle == [at |-> "idle", list |-> {}, id |-> 0, outcome |-> "none",
         failures |-> 0, halted |-> FALSE, since |-> 0]
Places == {"idle", "claiming", "job", "health", "report"}

RequestRecords ==
  [gateway : Gateways, scope : Scopes, target : Versions,
   status : Open \cup Final, by : SUBSET Workers]
WorkerStates ==
  [at : Places, list : SUBSET Requests, id : Requests \cup {0},
   outcome : Final \cup {"none"}, failures : Nat, halted : BOOLEAN,
   since : Nat]
ASSUME NoRequestAssumption == NoRequest \notin RequestRecords

TypeOK ==
  /\ request \in [Requests -> RequestRecords \cup {NoRequest}]
  /\ asked \in [Gateways \X AskedScopes -> Nat]
  /\ claims \subseteq Workers \X Requests
  /\ node \in [Gateways -> Records]
  /\ host \in [Gateways -> [agent : Versions, ui : Versions]]
  /\ late \in [Gateways -> SUBSET Records]
  /\ skew \in [Gateways -> Skews] /\ ends \in [Gateways -> Nat]
  /\ worker \in [Workers -> WorkerStates]
  /\ reports \subseteq Requests /\ raced \in BOOLEAN
  /\ done \subseteq Workers \X Requests /\ back \subseteq done
  /\ results \in [Workers -> Seq(Final)]

First == CHOOSE v \in Versions : v \notin {Approved, DevAgent, LegacyRelease}

Init ==
  /\ request = [i \in Requests |-> NoRequest]
  /\ asked = [p \in Gateways \X AskedScopes |-> 0]
  /\ claims = {} /\ reports = {}
  /\ host = [g \in Gateways |-> [agent |-> First, ui |-> First]]
  /\ skew \in [Gateways -> Skews]
  /\ ends = [g \in Gateways |-> 0]
  /\ node = [g \in Gateways |->
       Receive(Preprovisioned(First, First), Beat(First, TRUE, Never, skew[g]))]
  /\ late = [g \in Gateways |-> {}]
  /\ worker = [w \in Workers |-> Idle]
  /\ faults = 0 /\ delays = 0 /\ done = {} /\ back = {} /\ raced = FALSE
  /\ results = [w \in Workers |-> <<>>]

-----------------------------------------------------------------------------
(* The cloud.                                                              *)

Known == {i \in Requests : request[i] # NoRequest}
OpenFor(g) ==
  {i \in Known : request[i].gateway = g /\ request[i].status \in Open}
Queued == {i \in Known : request[i].status = "queued"}

(* ui_request_gateway_updates: an open request of the gateway is shared,   *)
(* whatever it is for.  Posts: how many requests there may come to be      *)
(* (bound).                                                                *)
Asked(g) == \E s \in AskedScopes : asked[<<g, s>>] > 0
Posts ==
  Cardinality(Known) + FoldFunction(+, 0, asked)
Ask(g, s) ==
  /\ OpenFor(g) = {} /\ Posts < Cardinality(Requests)
  /\ raced' = (raced \/ Asked(g))
  /\ asked' = [asked EXCEPT ![<<g, s>>] = @ + 1]
  /\ UNCHANGED <<delays, request, claims, node, host, late, skew, worker,
                 reports, ends, faults, done, back, results>>

(* The next of the requests, in the order in which they are asked for.     *)
Oldest(list) == {i \in list : \A k \in list : i <= k}
Insert(g, s) ==
  /\ asked[<<g, s>>] > 0
  /\ asked' = [asked EXCEPT ![<<g, s>>] = @ - 1]
  /\ \E i \in Oldest(Requests \ Known) :
       request' = [request EXCEPT ![i] =
         [gateway |-> g, scope |-> s, target |-> Approved,
          status |-> "queued", by |-> {}]]
  /\ UNCHANGED <<delays, claims, node, host, late, skew, worker, reports,
                 ends, faults, done, back, raced, results>>

(* admin_claim_gateway_update, once it has found the request queued.       *)
CommitClaim(w, i) ==
  /\ <<w, i>> \in claims
  /\ claims' = claims \ {<<w, i>>}
  /\ request' = [request EXCEPT ![i].status = "running", ![i].by = @ \cup {w}]
  /\ worker' = IF worker[w].at = "claiming" /\ worker[w].id = i
               THEN [worker EXCEPT ![w].at = "job"] ELSE worker
  /\ UNCHANGED <<delays, asked, node, host, late, skew, reports, ends, faults,
                 done, back, raced, results>>

(* admin_complete_gateway_update: the first report counts.                 *)
Complete(i, outcome) ==
  IF request[i].status \notin Open THEN UNCHANGED <<request, node>>
  ELSE /\ request' = [request EXCEPT ![i].status = outcome]
       /\ node' = IF outcome # "completed" THEN node
                  ELSE [node EXCEPT ![request[i].gateway] =
                          Marked(@, request[i].scope, request[i].target)]

(* receive_heartbeat.  The history remembers after which jobs the gateway  *)
(* has sent a heartbeat that says its database is in order; one that says  *)
(* it is not matters to a worker that waits for health only (bound).       *)
NewBeat(g, ok) == Beat(host[g].agent, ok, Never, ends[g] + skew[g])
After(g, ok) ==
  IF ok THEN back \cup {p \in done : request[p[2]].gateway = g} ELSE back

Heartbeat(g, ok) ==
  /\ ok \/ \E w \in Workers : worker[w].at = "health"
  /\ node' = [node EXCEPT ![g] = Receive(@, NewBeat(g, ok))]
  /\ back' = After(g, ok)
  /\ UNCHANGED <<delays, request, asked, claims, host, late, skew, worker,
                 reports, ends, faults, done, raced, results>>

DelayHeartbeat(g) ==
  /\ faults + delays < MaxFaults /\ delays' = delays + 1
  /\ late' = [late EXCEPT ![g] = @ \cup {NewBeat(g, TRUE)}]
  /\ back' = After(g, TRUE)
  /\ UNCHANGED <<request, asked, claims, node, host, skew, worker, reports,
                 ends, faults, done, raced, results>>

LateHeartbeat(g) ==
  \E b \in late[g] :
    /\ node' = [node EXCEPT ![g] = Receive(@, b)]
    /\ late' = [late EXCEPT ![g] = @ \ {b}]
    /\ UNCHANGED <<delays, request, asked, claims, host, skew, worker,
                   reports, ends, faults, done, back, raced, results>>

-----------------------------------------------------------------------------
(* The updaters.                                                           *)

Working(g) == {w \in Workers : worker[w].at = "job"
                               /\ request[worker[w].id].gateway = g}

(* gateway_update_worker reads the queue; one that is halted does not.     *)
Poll(w) ==
  /\ worker[w].at = "idle" /\ worker[w].list = {} /\ ~worker[w].halted
  /\ Queued # {}
  /\ worker' = [worker EXCEPT ![w].list = Queued]
  /\ UNCHANGED <<delays, request, asked, claims, node, host, late, skew,
                 reports, ends, faults, done, back, raced, results>>

(* run_queued_gateway_update claims the next of the list.  What was taken  *)
(* meanwhile is refused and does not count as an outcome.                  *)
ClaimAnything(w) ==
  /\ worker[w].at = "idle"
  /\ \E i \in Oldest(worker[w].list) :
       /\ claims' = claims \cup {<<w, i>>}
       /\ worker' = [worker EXCEPT ![w].at = "claiming", ![w].id = i,
                                   ![w].list = @ \ {i}]
       /\ raced' = (raced \/ \E c \in claims : c[2] = i)
  /\ UNCHANGED <<delays, request, asked, node, host, late, skew, reports,
                 ends, faults, done, back, results>>
Claim(w) ==
  /\ worker[w].at = "idle"
  /\ \E i \in Oldest(worker[w].list) :
       IF request[i].status # "queued"
       THEN /\ worker' = [worker EXCEPT ![w].list = @ \ {i}]
            /\ UNCHANGED <<claims, raced>>
       ELSE /\ claims' = claims \cup {<<w, i>>}
            /\ worker' = [worker EXCEPT ![w].at = "claiming", ![w].id = i,
                                        ![w].list = @ \ {i}]
            /\ raced' = (raced \/ \E c \in claims : c[2] = i)
  /\ UNCHANGED <<delays, request, asked, node, host, late, skew, reports,
                 ends, faults, done, back, results>>

(* The answer does not come.  The older updater goes on with its list; the *)
(* newer one leaves it at a time-out, to come back later.  The cloud may   *)
(* have made the claim, or make it yet.                                    *)
LoseClaim(w) ==
  /\ worker[w].at = "claiming" /\ faults + delays < MaxFaults
  /\ faults' = faults + 1
  /\ \E rest \in {worker[w].list} \cup {{} : d \in {w} \cap Dev} :
       worker' = [worker EXCEPT ![w].at = "idle", ![w].id = 0, ![w].list = rest]
  /\ UNCHANGED <<delays, request, asked, claims, node, host, late, skew,
                 reports, ends, done, back, raced, results>>

(* The job ends.  The older updater installs its own release and updates   *)
(* the interface whatever the scope; the newer one takes the interface of  *)
(* the request and the agent it is set to.  A job that fails has changed   *)
(* nothing (it may have been refused for want of an address or a target),  *)
(* the interface, which comes first, or both.                              *)
Updated(w, i, h) ==
  LET s == request[i].scope
  IN  [agent |-> IF s = "ui_only" THEN h.agent
                 ELSE IF w \in Dev THEN DevAgent ELSE LegacyRelease,
       ui    |-> IF w \in Legacy THEN LegacyRelease
                 ELSE IF s = "agent" THEN h.ui ELSE request[i].target]
HalfUpdated(w, i, h) ==
  LET new == Updated(w, i, h) IN {h, [h EXCEPT !.ui = new.ui], new}
CompleteJob(w) ==
  /\ worker[w].at = "job"
  /\ LET i == worker[w].id
         g == request[i].gateway
     IN  /\ host' = [host EXCEPT ![g] = Updated(w, i, @)]
         /\ ends' = [ends EXCEPT ![g] = @ + 1]
         /\ done' = done \cup {<<w, i>>}
         /\ worker' = [worker EXCEPT ![w].since = ends[g] + 1,
              ![w].at = IF w \in Legacy THEN "health" ELSE "report",
              ![w].outcome = "completed"]
  /\ UNCHANGED <<delays, request, asked, claims, node, late, skew, reports,
                 faults, back, raced, results>>
FailJob(w) ==
  /\ worker[w].at = "job"
  /\ LET i == worker[w].id
         g == request[i].gateway
     IN  /\ \E h \in HalfUpdated(w, i, host[g]) : host' = [host EXCEPT ![g] = h]
         /\ ends' = [ends EXCEPT ![g] = @ + 1]
  /\ worker' = [worker EXCEPT ![w].at = "report", ![w].outcome = "failed"]
  /\ UNCHANGED <<delays, request, asked, claims, node, late, skew, reports,
                 faults, done, back, raced, results>>

(* wait_for_post_update_health: a heartbeat since the end, from a gateway  *)
(* whose database is in order; or the time is over.                        *)
HealthyAnyTime(w) == node[request[worker[w].id].gateway].ok
Healthy(w) ==
  LET n == node[request[worker[w].id].gateway]
  IN  n.at >= worker[w].since /\ n.ok
PassHealth(w) ==
  /\ worker[w].at = "health" /\ Healthy(w)
  /\ worker' = [worker EXCEPT ![w].at = "report"]
  /\ UNCHANGED <<delays, request, asked, claims, node, host, late, skew,
                 reports, ends, faults, done, back, raced, results>>
FailHealth(w) ==
  /\ worker[w].at = "health"
  /\ worker' = [worker EXCEPT ![w].at = "report", ![w].outcome = "failed"]
  /\ UNCHANGED <<delays, request, asked, claims, node, host, late, skew,
                 reports, ends, faults, done, back, raced, results>>

(* The worker counts its outcome and halts, or goes on with its list.      *)
CountedPerList(w) ==
  LET me == worker[w]
      fails == IF me.outcome = "failed" THEN me.failures + 1 ELSE 0
      halt == fails >= HaltAfter /\ me.list = {}
  IN  [me EXCEPT !.failures = fails, !.halted = halt,
         !.at = "idle", !.outcome = "none", !.id = 0, !.since = 0]
Counted(w) ==
  LET me == worker[w]
      fails == IF me.outcome = "failed" THEN me.failures + 1 ELSE 0
      halt == fails >= HaltAfter
  IN  [me EXCEPT !.failures = fails, !.halted = halt,
         !.at = "idle", !.list = IF halt THEN {} ELSE @,
         !.outcome = "none", !.id = 0, !.since = 0]

(* The report is made; a success of the newer updater in the background.   *)
(* A report that is lost is not made again.                                *)
ReportSuccess(w) ==
  /\ worker[w].at = "report"
  /\ IF worker[w].outcome = "completed" THEN Complete(worker[w].id, "completed")
     ELSE UNCHANGED <<request, node>>
  /\ results' = [results EXCEPT ![w] = Append(@, worker[w].outcome)]
  /\ worker' = [worker EXCEPT ![w] = Counted(w)]
  /\ UNCHANGED <<delays, asked, claims, host, late, skew, reports, ends,
                 faults, done, back, raced>>
Report(w) ==
  /\ worker[w].at = "report"
  /\ LET i == worker[w].id
         o == worker[w].outcome
     IN  /\ IF w \in Dev /\ o = "completed"
            THEN /\ reports' = reports \cup {i}
                 /\ UNCHANGED <<request, node, faults>>
            ELSE /\ UNCHANGED reports
                 /\ \/ /\ Complete(i, o)
                       /\ UNCHANGED faults
                    \/ /\ faults + delays < MaxFaults
                       /\ faults' = faults + 1
                       /\ UNCHANGED <<request, node>>
         /\ results' = [results EXCEPT ![w] = Append(@, o)]
  /\ worker' = [worker EXCEPT ![w] = Counted(w)]
  /\ UNCHANGED <<delays, asked, claims, host, late, skew, ends, done, back,
                 raced>>

LateReport(i) ==
  /\ i \in reports
  /\ reports' = reports \ {i}
  /\ \/ Complete(i, "completed") /\ UNCHANGED faults
     \/ /\ faults + delays < MaxFaults
        /\ faults' = faults + 1
        /\ UNCHANGED <<request, node>>
  /\ UNCHANGED <<delays, asked, claims, host, late, skew, worker, ends, done,
                 back, raced, results>>

(* The updater is started again: its job ends where it is, its counters    *)
(* are gone.  The cloud does not learn of it.  Where it asks or reports    *)
(* this is an answer or a report that is lost.                             *)
Restart(w) ==
  /\ worker[w].at = "job" \/ worker[w].halted
  /\ faults + delays < MaxFaults
  /\ faults' = faults + 1
  /\ IF worker[w].at = "job"
     THEN LET i == worker[w].id
              g == request[i].gateway
          IN  /\ \E h \in HalfUpdated(w, i, host[g]) :
                   host' = [host EXCEPT ![g] = h]
              /\ ends' = [ends EXCEPT ![g] = @ + 1]
     ELSE UNCHANGED <<host, ends>>
  /\ worker' = [worker EXCEPT ![w] = Idle]
  /\ results' = [results EXCEPT ![w] = <<>>]
  /\ UNCHANGED <<delays, request, asked, claims, node, late, skew, reports,
                 done, back, raced>>

Step(w) ==
  \/ Poll(w) \/ Claim(w) \/ CompleteJob(w) \/ FailJob(w)
  \/ PassHealth(w) \/ FailHealth(w) \/ Report(w)

Next ==
  \/ \E g \in Gateways, s \in AskedScopes : Ask(g, s) \/ Insert(g, s)
  \/ \E g \in Gateways : DelayHeartbeat(g) \/ LateHeartbeat(g)
  \/ \E g \in Gateways, ok \in BOOLEAN : Heartbeat(g, ok)
  \/ \E w \in Workers, i \in Requests : CommitClaim(w, i)
  \/ \E w \in Workers : Step(w) \/ LoseClaim(w) \/ Restart(w)
  \/ \E i \in Requests : LateReport(i)

(* Handlers and threads go on: a claim is answered, a job ends (JobEnds of *)
(* UpgradeJobs), the wait for health has a time-out.  Gateways send        *)
(* heartbeats on a schedule, and most arrive.                              *)
Fairness ==
  /\ \A g \in Gateways :
       /\ WF_vars(Heartbeat(g, TRUE)) /\ WF_vars(LateHeartbeat(g))
  /\ \A w \in Workers :
       WF_vars(Step(w) \/ \E i \in Requests : CommitClaim(w, i))
  /\ WF_vars(\E i \in Requests : LateReport(i))

Spec == Init /\ [][Next]_vars /\ Fairness

-----------------------------------------------------------------------------
(* Properties.                                                             *)

Status(i) == IF request[i] = NoRequest THEN "none" ELSE request[i].status

(* What the older updater reports as completed has come back: after a job  *)
(* that did it the gateway has sent a heartbeat with its database in order *)
(* (evaluate_post_update_health), whatever was delayed on the way and      *)
(* however many workers have claimed it.  A gateway whose clock is ahead   *)
(* is excepted.                                                            *)
CameBack(i) == \E w \in request[i].by : <<w, i>> \in back
CompletedIsBack ==
  \A i \in Known :
    request[i].status = "completed" /\ request[i].by \subseteq Legacy
      /\ skew[request[i].gateway] = 0 => CameBack(i)

(* Without that exception, as the comment of the gate has it.              *)
CompletedIsBackByClock ==
  \A i \in Known :
    request[i].status = "completed" /\ request[i].by \subseteq Legacy
      => CameBack(i)

(* Stop the line: once HaltAfter updates in a row have failed, a worker    *)
(* has no further outcome until it is started again.                       *)
BadReleaseIsHeld ==
  \A w \in Workers :
    \A k \in 1..(Len(results[w]) - HaltAfter) :
      \E j \in k..(k + HaltAfter - 1) : results[w][j] = "completed"

(* Two workers update one gateway at the same time only if two posts or    *)
(* two claims overlapped in the cloud.                                     *)
OneUpdateAtATime ==
  \A g \in Gateways : Cardinality(Working(g)) <= 1 \/ raced

(* What an operator queues ends, unless every worker has halted, a report  *)
(* or an answer is lost or an updater is stopped.                          *)
UpdateEnds ==
  \A i \in Requests :
    Status(i) \in Open ~>
      (Status(i) \in Final \/ faults > 0 \/ \A w \in Workers : worker[w].halted)

(* In the end the cloud shows the version of the agent that runs, though   *)
(* heartbeats are late and a completed request marks what was asked for.   *)
MarkersCatchUp ==
  <>[](\A g \in Gateways : node[g].agent = host[g].agent)

(* The same for the interface (docs/api-contract.md, "ui_version").        *)
UiMarkerCatchesUp ==
  <>[](\A g \in Gateways : node[g].ui = host[g].ui)
=============================================================================
