------------------------------ MODULE FleetProofs ------------------------------
(***************************************************************************)
(* Proofs about the gateways of the fleet: the requests to update one and  *)
(* the workers that do (GatewayUpdates), the alerts about it               *)
(* (OfflineAlerts), the machines that may share its identity               *)
(* (DuplicateIdentity), and the jobs on the gateway (UpgradeJobs).         *)
(***************************************************************************)
EXTENDS GatewayUpdates, OfflineAlerts, DuplicateIdentity, UpgradeJobs,
        FiniteSetTheorems, WellFoundedInduction, TLAPS

-------------------------------------------------------------------------------
(* The requests to update a gateway. *)

LEMMA NewBeatType ==
  ASSUME TypeOK, NEW g \in Gateways, NEW ok \in BOOLEAN
  PROVE  NewBeat(g, ok) \in Records
<1>1. ends[g] \in Nat /\ skew[g] \in Nat
  BY UpdatesAssumption DEF TypeOK
<1> QED  BY <1>1 DEF NewBeat, Beat, Records, Marks, Time, Never, TypeOK

LEMMA ReceiveIs ==
  ASSUME NEW n, NEW b \in Records
  PROVE  Receive(n, b) = b
  BY DEF Receive, Records

LEMMA MarkedType ==
  ASSUME NEW n \in Records, NEW s \in Scopes, NEW v \in Versions
  PROVE  /\ Marked(n, s, v) \in Records
         /\ Marked(n, s, v).ok = n.ok /\ Marked(n, s, v).at = n.at
<1>1. v \in Marks
  BY DEF Marks
<1>2. CASE s = "ui_only"
  BY <1>1, <1>2 DEF Marked, Records
<1>3. CASE s = "edge_release"
  BY <1>1, <1>3 DEF Marked, Records
<1>4. CASE s = "agent"
  BY <1>1, <1>4 DEF Marked, Records
<1> QED  BY <1>2, <1>3, <1>4 DEF Scopes

LEMMA RequestsType ==
  ASSUME TypeOK, NEW i \in Requests
  PROVE  i \in Known <=> request[i] \in RequestRecords
  BY NoRequestAssumption DEF TypeOK, Known

LEMMA UpdatedType ==
  ASSUME NEW w \in Workers, NEW i \in Requests, request[i] \in RequestRecords,
         NEW h \in [agent : Versions, ui : Versions]
  PROVE  /\ Updated(w, i, h) \in [agent : Versions, ui : Versions]
         /\ HalfUpdated(w, i, h) \subseteq [agent : Versions, ui : Versions]
<1>1. request[i].target \in Versions
  BY DEF RequestRecords
<1> DEFINE new == Updated(w, i, h)
<1>2. new \in [agent : Versions, ui : Versions]
  BY <1>1, UpdatesAssumption DEF Updated
<1>3. new.ui \in Versions
  BY <1>2
<1> HIDE DEF new
<1>4. [h EXCEPT !.ui = new.ui] \in [agent : Versions, ui : Versions]
  BY <1>3
<1> QED  BY <1>2, <1>4 DEF HalfUpdated, new

(* What Complete does: a request that is open gets its outcome, the record *)
(* of the gateway gets markers, and keeps what was heard.                  *)
LEMMA CompleteDoes ==
  ASSUME TypeOK, NEW i \in Requests, request[i] \in RequestRecords,
         NEW o \in Final, Complete(i, o)
  PROVE  /\ request' \in [Requests -> RequestRecords \cup {NoRequest}]
         /\ node' \in [Gateways -> Records]
         /\ \A k \in Requests \ {i} : request'[k] = request[k]
         /\ request'[i] \in RequestRecords
         /\ request'[i].by = request[i].by
         /\ request'[i].gateway = request[i].gateway
         /\ \/ request'[i].status = request[i].status
            \/ request'[i].status = o /\ request[i].status \in Open
         /\ request'[i].status \in Final
         /\ \A g \in Gateways : /\ node'[g].ok = node[g].ok
                                /\ node'[g].at = node[g].at
<1> DEFINE g == request[i].gateway
           m == Marked(node[g], request[i].scope, request[i].target)
<1>1. /\ g \in Gateways /\ request[i].scope \in Scopes
      /\ request[i].target \in Versions
  BY DEF RequestRecords
<1>2. m \in Records /\ m.ok = node[g].ok /\ m.at = node[g].at
  BY <1>1, MarkedType DEF TypeOK
<1> HIDE DEF m
<1>3. CASE request[i].status \notin Open
  <2>1. UNCHANGED <<request, node>>
    BY <1>3 DEF Complete
  <2> QED  BY <1>3, <2>1 DEF TypeOK, RequestRecords
<1>4. CASE request[i].status \in Open
  <2>1. request' = [request EXCEPT ![i].status = o]
    BY <1>4 DEF Complete
  <2>2. node' = node \/ node' = [node EXCEPT ![g] = m]
    BY <1>4 DEF Complete, m
  <2>3. /\ node' \in [Gateways -> Records]
        /\ \A h \in Gateways : /\ node'[h].ok = node[h].ok
                               /\ node'[h].at = node[h].at
    BY <1>1, <1>2, <2>2 DEF TypeOK
  <2>4. /\ request'[i] = [request[i] EXCEPT !.status = o]
        /\ \A k \in Requests \ {i} : request'[k] = request[k]
    BY <2>1 DEF TypeOK
  <2>5. /\ request'[i] \in RequestRecords /\ request'[i].status = o
        /\ request'[i].by = request[i].by /\ request'[i].gateway = g
    BY <2>4 DEF RequestRecords
  <2>6. request' \in [Requests -> RequestRecords \cup {NoRequest}]
    BY <2>1, <2>4, <2>5 DEF TypeOK
  <2> QED  BY <1>4, <2>3, <2>4, <2>5, <2>6
<1> QED  BY <1>3, <1>4

(* The worker has a request: its claim has been answered.                  *)
Has(w) == worker[w].at \in {"job", "health", "report"}
Succeeded(w) ==
  \/ worker[w].at = "health"
  \/ worker[w].at = "report" /\ worker[w].outcome = "completed"

(* A request remembers who has claimed it, and is claimed once by each.    *)
ClaimsInv ==
  /\ \A i \in Known : request[i].status = "queued" => request[i].by = {}
  /\ \A w \in Workers, i \in Requests :
       /\ <<w, i>> \in claims => i \in Known /\ w \notin request[i].by
       /\ <<w, i>> \in done => i \in Known /\ w \in request[i].by
  /\ \A i \in reports : i \in Known /\ ~(request[i].by \subseteq Legacy)
  /\ \A w \in Workers :
       /\ Has(w) => /\ worker[w].id \in Known
                    /\ w \in request[worker[w].id].by
       /\ Succeeded(w) => /\ worker[w].outcome = "completed"
                          /\ <<w, worker[w].id>> \in done
       /\ worker[w].at = "health" => w \in Legacy
       /\ worker[w].at = "report" => worker[w].outcome \in Final

(* A step of a worker leaves the others as they are, and puts on its list  *)
(* what it has read of the queue.                                          *)
Goes(w, m) ==
  /\ m \in WorkerStates /\ m.list \subseteq worker[w].list \cup Known
  /\ worker' \in [Workers -> WorkerStates]
  /\ worker'[w] = m /\ \A x \in Workers \ {w} : worker'[x] = worker[x]

LEMMA GoesIs ==
  ASSUME TypeOK, NEW w \in Workers, NEW m \in WorkerStates,
         worker' = [worker EXCEPT ![w] = m],
         m.list \subseteq worker[w].list \cup Known
  PROVE  Goes(w, m)
  BY DEF Goes, TypeOK

LEMMA CommitClaimDoes ==
  ASSUME TypeOK, NEW w \in Workers, NEW i \in Requests, CommitClaim(w, i)
  PROVE  \/ UNCHANGED worker
         \/ /\ worker[w].at = "claiming" /\ worker[w].id = i
            /\ Goes(w, [worker[w] EXCEPT !.at = "job"])
<1> DEFINE m == [worker[w] EXCEPT !.at = "job"]
<1>1. m \in WorkerStates /\ m.list = worker[w].list
  BY DEF TypeOK, WorkerStates, Places
<1>2. \/ UNCHANGED worker
      \/ /\ worker[w].at = "claiming" /\ worker[w].id = i
         /\ worker' = [worker EXCEPT ![w].at = "job"]
  BY DEF CommitClaim
<1>3. [worker EXCEPT ![w].at = "job"] = [worker EXCEPT ![w] = m]
  BY DEF TypeOK
<1> HIDE DEF m
<1>4. UNCHANGED worker \/ /\ worker[w].at = "claiming" /\ worker[w].id = i
                          /\ Goes(w, m)
  BY <1>1, <1>2, <1>3, GoesIs
<1> QED  BY <1>4 DEF m

LEMMA PollDoes ==
  ASSUME TypeOK, NEW w \in Workers, Poll(w)
  PROVE  Goes(w, [worker[w] EXCEPT !.list = Queued])
<1>1. Queued \in SUBSET Requests /\ Queued \subseteq Known
  BY DEF Queued, Known
<1> DEFINE m == [worker[w] EXCEPT !.list = Queued]
<1>2. m \in WorkerStates /\ m.list = Queued
  BY <1>1 DEF TypeOK, WorkerStates
<1>3. worker' = [worker EXCEPT ![w] = m]
  BY DEF Poll
<1> HIDE DEF m
<1>4. Goes(w, m)
  BY <1>1, <1>2, <1>3, GoesIs
<1> QED  BY <1>4 DEF m

LEMMA ClaimDoes ==
  ASSUME TypeOK, NEW w \in Workers, Claim(w)
  PROVE  \E i \in worker[w].list, m \in WorkerStates :
           /\ i \in Requests /\ Goes(w, m) /\ worker[w].at = "idle"
           /\ m.list = worker[w].list \ {i} /\ m.outcome = worker[w].outcome
           /\ m.failures = worker[w].failures /\ m.halted = worker[w].halted
           /\ \/ m.at = "idle" /\ UNCHANGED <<claims, raced>>
              \/ /\ m.at = "claiming" /\ m.id = i
                 /\ request[i].status = "queued"
                 /\ claims' = claims \cup {<<w, i>>}
                 /\ raced' = (raced \/ \E c \in claims : c[2] = i)
<1>1. PICK i \in worker[w].list :
        IF request[i].status # "queued"
        THEN /\ worker' = [worker EXCEPT ![w].list = @ \ {i}]
             /\ UNCHANGED <<claims, raced>>
        ELSE /\ claims' = claims \cup {<<w, i>>}
             /\ worker' = [worker EXCEPT ![w].at = "claiming", ![w].id = i,
                                         ![w].list = @ \ {i}]
             /\ raced' = (raced \/ \E c \in claims : c[2] = i)
  BY DEF Claim, Oldest
<1>2. /\ worker[w].list \in SUBSET Requests /\ worker[w] \in WorkerStates
      /\ worker[w].at = "idle" /\ i \in Requests
  BY DEF TypeOK, WorkerStates, Claim
<1>3. CASE request[i].status # "queued"
  <2> DEFINE m == [worker[w] EXCEPT !.list = worker[w].list \ {i}]
  <2>1. /\ m \in WorkerStates /\ m.list = worker[w].list \ {i}
        /\ m.at = worker[w].at /\ m.outcome = worker[w].outcome
        /\ m.failures = worker[w].failures /\ m.halted = worker[w].halted
    BY <1>2 DEF WorkerStates
  <2>2. worker' = [worker EXCEPT ![w] = m]
    BY <1>1, <1>3
  <2> HIDE DEF m
  <2>3. Goes(w, m)
    BY <2>1, <2>2, GoesIs
  <2> QED  BY <1>1, <1>2, <1>3, <2>1, <2>3
<1>4. CASE request[i].status = "queued"
  <2> DEFINE m == [worker[w] EXCEPT !.at = "claiming", !.id = i,
                                    !.list = worker[w].list \ {i}]
  <2>1. /\ m \in WorkerStates /\ m.list = worker[w].list \ {i}
        /\ m.at = "claiming" /\ m.id = i /\ m.outcome = worker[w].outcome
        /\ m.failures = worker[w].failures /\ m.halted = worker[w].halted
    BY <1>2 DEF WorkerStates, Places
  <2>2. worker' = [worker EXCEPT ![w] = m]
    BY <1>1, <1>2, <1>4 DEF TypeOK
  <2> HIDE DEF m
  <2>3. Goes(w, m)
    BY <2>1, <2>2, GoesIs
  <2> QED  BY <1>1, <1>2, <1>4, <2>1, <2>3
<1> QED  BY <1>3, <1>4

(* What a step keeps of a worker: its list, its counters.                  *)
KeepsCount(w, m) ==
  /\ m.failures = worker[w].failures /\ m.halted = worker[w].halted

LEMMA LoseClaimDoes ==
  ASSUME TypeOK, NEW w \in Workers, LoseClaim(w)
  PROVE  \E m \in WorkerStates :
           /\ Goes(w, m) /\ worker[w].at = "claiming" /\ m.at = "idle"
           /\ KeepsCount(w, m)
<1>1. PICK rest \in {worker[w].list} \cup {{} : d \in {w} \cap Dev} :
        worker' = [worker EXCEPT ![w].at = "idle", ![w].id = 0,
                                 ![w].list = rest]
  BY DEF LoseClaim
<1>2. /\ rest \in SUBSET Requests /\ worker[w] \in WorkerStates
      /\ worker[w].at = "claiming"
  BY DEF TypeOK, WorkerStates, LoseClaim
<1> DEFINE m == [worker[w] EXCEPT !.at = "idle", !.id = 0, !.list = rest]
<1>3. /\ m \in WorkerStates /\ m.at = "idle" /\ KeepsCount(w, m)
      /\ m.list \subseteq worker[w].list
  BY <1>2 DEF WorkerStates, Places, KeepsCount
<1>4. worker' = [worker EXCEPT ![w] = m]
  BY <1>1, <1>2 DEF TypeOK
<1> HIDE DEF m
<1> QED  BY <1>2, <1>3, <1>4, GoesIs

(* The steps of a worker that has a request keep it.                       *)
HasStill(w, m) ==
  Goes(w, m) /\ Has(w) /\ m.id = worker[w].id /\ KeepsCount(w, m)

LEMMA CompleteJobDoes ==
  ASSUME TypeOK, NEW w \in Workers, CompleteJob(w),
         request[worker[w].id].gateway \in Gateways
  PROVE  \E m \in WorkerStates :
           /\ HasStill(w, m) /\ worker[w].at = "job"
           /\ m.at = IF w \in Legacy THEN "health" ELSE "report"
           /\ m.outcome = "completed"
           /\ m.since = ends[request[worker[w].id].gateway] + 1
<1> DEFINE n == ends[request[worker[w].id].gateway] + 1
           p == IF w \in Legacy THEN "health" ELSE "report"
           m == [worker[w] EXCEPT !.since = n, !.at = p,
                                  !.outcome = "completed"]
<1>1. n \in Nat /\ p \in Places /\ worker[w] \in WorkerStates
  BY DEF TypeOK, Places
<1>2. worker[w].at = "job" /\ Has(w)
  BY DEF CompleteJob, Has
<1>3. worker' = [worker EXCEPT ![w].since = n, ![w].at = p,
                               ![w].outcome = "completed"]
  BY DEF CompleteJob
<1> HIDE DEF n, p
<1>4. /\ m \in WorkerStates /\ m.at = p /\ m.outcome = "completed"
      /\ m.since = n /\ m.id = worker[w].id /\ KeepsCount(w, m)
      /\ m.list = worker[w].list
  BY <1>1 DEF WorkerStates, Final, KeepsCount
<1>5. worker' = [worker EXCEPT ![w] = m]
  BY <1>1, <1>3 DEF TypeOK
<1> HIDE DEF m
<1>6. HasStill(w, m)
  BY <1>2, <1>4, <1>5, GoesIs DEF HasStill
<1> QED  BY <1>2, <1>4, <1>6 DEF n, p

LEMMA FailJobDoes ==
  ASSUME TypeOK, NEW w \in Workers, FailJob(w)
  PROVE  \E m \in WorkerStates :
           /\ HasStill(w, m) /\ m.at = "report" /\ m.outcome = "failed"
<1> DEFINE m == [worker[w] EXCEPT !.at = "report", !.outcome = "failed"]
<1>1. /\ m \in WorkerStates /\ m.at = "report" /\ m.outcome = "failed"
      /\ m.id = worker[w].id /\ KeepsCount(w, m)
      /\ m.list = worker[w].list
  BY DEF TypeOK, WorkerStates, Places, Final, KeepsCount
<1>2. worker' = [worker EXCEPT ![w] = m] /\ Has(w)
  BY DEF FailJob, TypeOK, Has
<1> HIDE DEF m
<1> QED  BY <1>1, <1>2, GoesIs DEF HasStill

LEMMA PassHealthDoes ==
  ASSUME TypeOK, NEW w \in Workers, PassHealth(w)
  PROVE  \E m \in WorkerStates :
           /\ HasStill(w, m) /\ worker[w].at = "health" /\ Healthy(w)
           /\ m.at = "report" /\ m.outcome = worker[w].outcome
<1> DEFINE m == [worker[w] EXCEPT !.at = "report"]
<1>1. /\ m \in WorkerStates /\ m.at = "report"
      /\ m.outcome = worker[w].outcome
      /\ m.id = worker[w].id /\ KeepsCount(w, m)
      /\ m.list = worker[w].list
  BY DEF TypeOK, WorkerStates, Places, KeepsCount
<1>2. /\ worker' = [worker EXCEPT ![w] = m] /\ Has(w)
      /\ worker[w].at = "health" /\ Healthy(w)
  BY DEF PassHealth, TypeOK, Has
<1> HIDE DEF m
<1> QED  BY <1>1, <1>2, GoesIs DEF HasStill

LEMMA FailHealthDoes ==
  ASSUME TypeOK, NEW w \in Workers, FailHealth(w)
  PROVE  \E m \in WorkerStates :
           /\ HasStill(w, m) /\ m.at = "report" /\ m.outcome = "failed"
<1> DEFINE m == [worker[w] EXCEPT !.at = "report", !.outcome = "failed"]
<1>1. /\ m \in WorkerStates /\ m.at = "report" /\ m.outcome = "failed"
      /\ m.id = worker[w].id /\ KeepsCount(w, m)
      /\ m.list = worker[w].list
  BY DEF TypeOK, WorkerStates, Places, Final, KeepsCount
<1>2. worker' = [worker EXCEPT ![w] = m] /\ Has(w)
  BY DEF FailHealth, TypeOK, Has
<1> HIDE DEF m
<1> QED  BY <1>1, <1>2, GoesIs DEF HasStill

LEMMA ReportDoes ==
  ASSUME TypeOK, NEW w \in Workers, Report(w)
  PROVE  \E m \in WorkerStates :
           /\ Goes(w, m) /\ m.at = "idle" /\ worker[w].at = "report"
           /\ m.failures = IF worker[w].outcome = "failed"
                           THEN worker[w].failures + 1 ELSE 0
           /\ m.halted = (m.failures >= HaltAfter)
           /\ m.halted => m.list = {}
<1> DEFINE fails == IF worker[w].outcome = "failed"
                    THEN worker[w].failures + 1 ELSE 0
           halt == fails >= HaltAfter
           left == IF halt THEN {} ELSE worker[w].list
           m == [worker[w] EXCEPT !.failures = fails, !.halted = halt,
                   !.at = "idle", !.list = left,
                   !.outcome = "none", !.id = 0, !.since = 0]
<1>1. worker[w] \in WorkerStates /\ worker[w].at = "report"
  BY DEF TypeOK, Report
<1>2. /\ fails \in Nat /\ halt \in BOOLEAN /\ left \in SUBSET Requests
      /\ left \subseteq worker[w].list
  BY <1>1, UpdatesAssumption DEF WorkerStates
<1>3. worker' = [worker EXCEPT ![w] = m]
  BY DEF Report, Counted
<1>4. halt = (fails >= HaltAfter) /\ (halt => left = {})
  OBVIOUS
<1>5. fails = IF worker[w].outcome = "failed"
              THEN worker[w].failures + 1 ELSE 0
  OBVIOUS
<1> HIDE DEF fails, halt, left
<1>6. /\ m \in WorkerStates /\ m.at = "idle" /\ m.failures = fails
      /\ m.halted = halt /\ m.list = left
  BY <1>1, <1>2 DEF WorkerStates, Places
<1> HIDE DEF m
<1> QED  BY <1>1, <1>2, <1>3, <1>4, <1>5, <1>6, GoesIs

LEMMA IdleType ==
  /\ Idle \in WorkerStates /\ Idle.at = "idle" /\ Idle.failures = 0
  /\ ~Idle.halted /\ Idle.list = {}
  BY DEF Idle, WorkerStates, Places

LEMMA RestartDoes ==
  ASSUME TypeOK, NEW w \in Workers, Restart(w)
  PROVE  Goes(w, Idle)
  BY IdleType, GoesIs DEF Restart

LEMMA InsertDoes ==
  ASSUME TypeOK, NEW g \in Gateways, NEW s \in AskedScopes, Insert(g, s)
  PROVE  /\ request' \in [Requests -> RequestRecords \cup {NoRequest}]
         /\ \E i \in Requests \ Known :
              /\ \A k \in Requests \ {i} : request'[k] = request[k]
              /\ request'[i] \in RequestRecords
              /\ request'[i].status = "queued" /\ request'[i].by = {}
              /\ request'[i].gateway = g
<1> DEFINE r == [gateway |-> g, scope |-> s, target |-> Approved,
                 status |-> "queued", by |-> {}]
<1>1. PICK i \in Requests \ Known : request' = [request EXCEPT ![i] = r]
  BY DEF Insert, Oldest
<1>2. r \in RequestRecords
  BY UpdatesAssumption DEF RequestRecords, Open
<1> QED  BY <1>1, <1>2 DEF TypeOK

LEMMA CommitClaimRequests ==
  ASSUME TypeOK, ClaimsInv, NEW w \in Workers, NEW i \in Requests,
         CommitClaim(w, i)
  PROVE  /\ request' \in [Requests -> RequestRecords \cup {NoRequest}]
         /\ \A k \in Requests \ {i} : request'[k] = request[k]
         /\ i \in Known /\ request'[i] \in RequestRecords
         /\ request'[i].status = "running"
         /\ request'[i].by = request[i].by \cup {w}
         /\ request'[i].gateway = request[i].gateway
<1>1. i \in Known /\ request[i] \in RequestRecords
  BY RequestsType DEF CommitClaim, ClaimsInv
<1>2. request' = [request EXCEPT ![i].status = "running", ![i].by = @ \cup {w}]
  BY DEF CommitClaim
<1> DEFINE by == request[i].by \cup {w}
<1>3. request'[i] = [request[i] EXCEPT !.status = "running", !.by = by]
  BY <1>1, <1>2 DEF TypeOK, RequestRecords
<1>6. by \in SUBSET Workers
  BY <1>1 DEF RequestRecords
<1> HIDE DEF by
<1>4. /\ request'[i] \in RequestRecords
      /\ request'[i].status = "running"
      /\ request'[i].by = by
      /\ request'[i].gateway = request[i].gateway
  BY <1>1, <1>3, <1>6 DEF RequestRecords, Open
<1>5. /\ \A k \in Requests \ {i} : request'[k] = request[k]
      /\ request' \in [Requests -> RequestRecords \cup {NoRequest}]
  BY <1>1, <1>2, <1>4 DEF TypeOK
<1> QED  BY <1>1, <1>4, <1>5 DEF by

(* A worker that has a request has one that is known, of a gateway.        *)
LEMMA HasRequest ==
  ASSUME TypeOK, ClaimsInv, NEW w \in Workers, Has(w)
  PROVE  /\ worker[w].id \in Requests
         /\ request[worker[w].id] \in RequestRecords
         /\ request[worker[w].id].gateway \in Gateways
<1>1. worker[w].id \in Requests /\ worker[w].id \in Known
  BY DEF ClaimsInv, Known
<1> QED  BY <1>1, RequestsType DEF RequestRecords

LEMMA TypeStep ==
  ASSUME TypeOK, ClaimsInv, Next
  PROVE  TypeOK'
<1> USE UpdatesAssumption
<1> DEFINE Gear == [agent : Versions, ui : Versions]
<1>1. ASSUME NEW g \in Gateways, NEW s \in AskedScopes, Ask(g, s)
      PROVE  TypeOK'
  BY <1>1 DEF Ask, TypeOK
<1>2. ASSUME NEW g \in Gateways, NEW s \in AskedScopes, Insert(g, s)
      PROVE  TypeOK'
  <2>1. request' \in [Requests -> RequestRecords \cup {NoRequest}]
    BY <1>2, InsertDoes
  <2>2. asked' \in [Gateways \X AskedScopes -> Nat]
    BY <1>2 DEF Insert, TypeOK
  <2> QED  BY <1>2, <2>1, <2>2 DEF Insert, TypeOK
<1>3. ASSUME NEW g \in Gateways, DelayHeartbeat(g)
      PROVE  TypeOK'
  <2>1. NewBeat(g, TRUE) \in Records
    BY NewBeatType
  <2> QED  BY <1>3, <2>1 DEF DelayHeartbeat, After, TypeOK
<1>4. ASSUME NEW g \in Gateways, LateHeartbeat(g)
      PROVE  TypeOK'
  <2>1. PICK b \in late[g] : /\ node' = [node EXCEPT ![g] = Receive(@, b)]
                             /\ late' = [late EXCEPT ![g] = @ \ {b}]
    BY <1>4 DEF LateHeartbeat
  <2>2. b \in Records /\ node' = [node EXCEPT ![g] = b]
    BY <2>1, ReceiveIs DEF TypeOK
  <2> QED  BY <1>4, <2>1, <2>2 DEF LateHeartbeat, TypeOK
<1>5. ASSUME NEW g \in Gateways, NEW ok \in BOOLEAN, Heartbeat(g, ok)
      PROVE  TypeOK'
  <2>1. NewBeat(g, ok) \in Records
    BY NewBeatType
  <2>2. node' = [node EXCEPT ![g] = NewBeat(g, ok)]
    BY <1>5, <2>1, ReceiveIs DEF Heartbeat
  <2>3. node' \in [Gateways -> Records] /\ back' \subseteq done
    BY <1>5, <2>1, <2>2 DEF Heartbeat, After, TypeOK
  <2> QED  BY <1>5, <2>3 DEF Heartbeat, TypeOK
<1>6. ASSUME NEW w \in Workers, NEW i \in Requests, CommitClaim(w, i)
      PROVE  TypeOK'
  <2>1. /\ request' \in [Requests -> RequestRecords \cup {NoRequest}]
        /\ worker' \in [Workers -> WorkerStates]
    BY <1>6, CommitClaimDoes, CommitClaimRequests DEF Goes, TypeOK
  <2> QED  BY <1>6, <2>1 DEF CommitClaim, TypeOK
<1>7. ASSUME NEW w \in Workers, Poll(w)
      PROVE  TypeOK'
  BY <1>7, PollDoes DEF Poll, TypeOK, Goes
<1>8. ASSUME NEW w \in Workers, Claim(w)
      PROVE  TypeOK'
  <2>1. worker' \in [Workers -> WorkerStates]
    BY <1>8, ClaimDoes DEF Goes
  <2>2. PICK i \in Requests :
          \/ UNCHANGED <<claims, raced>>
          \/ /\ claims' = claims \cup {<<w, i>>}
             /\ raced' = (raced \/ \E c \in claims : c[2] = i)
    BY <1>8, ClaimDoes
  <2>3. claims' \subseteq Workers \X Requests /\ raced' \in BOOLEAN
    <3>1. claims' \subseteq Workers \X Requests
      BY <2>2 DEF TypeOK
    <3>2. raced' \in BOOLEAN
      BY <2>2 DEF TypeOK
    <3> QED  BY <3>1, <3>2
  <2> QED  BY <1>8, <2>1, <2>3 DEF Claim, TypeOK
<1>9. ASSUME NEW w \in Workers, LoseClaim(w)
      PROVE  TypeOK'
  BY <1>9, LoseClaimDoes DEF LoseClaim, TypeOK, Goes
<1>10. ASSUME NEW w \in Workers, worker[w].at = "job"
       PROVE  LET i == worker[w].id
                  g == request[i].gateway
              IN  /\ i \in Requests /\ g \in Gateways
                  /\ Updated(w, i, host[g]) \in Gear
                  /\ HalfUpdated(w, i, host[g]) \subseteq Gear
  BY <1>10, HasRequest, UpdatedType DEF Has, TypeOK
<1>11. ASSUME NEW w \in Workers, CompleteJob(w)
       PROVE  TypeOK'
  <2>1. worker[w].at = "job"
    BY <1>11 DEF CompleteJob
  <2>2. worker' \in [Workers -> WorkerStates]
    BY <1>10, <1>11, <2>1, CompleteJobDoes DEF HasStill, Goes
  <2>3. host' \in [Gateways -> Gear] /\ ends' \in [Gateways -> Nat]
    BY <1>10, <1>11, <2>1 DEF CompleteJob, TypeOK
  <2>4. done' \subseteq Workers \X Requests /\ back' \subseteq done'
    BY <1>10, <1>11, <2>1 DEF CompleteJob, TypeOK
  <2> QED  BY <1>11, <2>2, <2>3, <2>4 DEF CompleteJob, TypeOK
<1>12. ASSUME NEW w \in Workers, FailJob(w)
       PROVE  TypeOK'
  <2>1. worker[w].at = "job"
    BY <1>12 DEF FailJob
  <2>2. worker' \in [Workers -> WorkerStates]
    BY <1>12, FailJobDoes DEF HasStill, Goes
  <2>3. host' \in [Gateways -> Gear] /\ ends' \in [Gateways -> Nat]
    BY <1>10, <1>12, <2>1 DEF FailJob, TypeOK
  <2> QED  BY <1>12, <2>2, <2>3 DEF FailJob, TypeOK
<1>13. ASSUME NEW w \in Workers, PassHealth(w)
       PROVE  TypeOK'
  BY <1>13, PassHealthDoes DEF PassHealth, TypeOK, HasStill, Goes
<1>14. ASSUME NEW w \in Workers, FailHealth(w)
       PROVE  TypeOK'
  BY <1>14, FailHealthDoes DEF FailHealth, TypeOK, HasStill, Goes
<1>15. ASSUME NEW w \in Workers, Report(w)
       PROVE  TypeOK'
  <2>1. /\ worker[w].outcome \in Final /\ worker[w].id \in Requests
        /\ request[worker[w].id] \in RequestRecords
    BY <1>15, HasRequest DEF Report, Has, ClaimsInv
  <2>2. /\ request' \in [Requests -> RequestRecords \cup {NoRequest}]
        /\ node' \in [Gateways -> Records]
    BY <1>15, <2>1, CompleteDoes DEF Report, TypeOK
  <2>3. reports' \subseteq Requests
    BY <1>15, <2>1 DEF Report, TypeOK
  <2>4. results' \in [Workers -> Seq(Final)]
    BY <1>15, <2>1 DEF Report, TypeOK
  <2>5. worker' \in [Workers -> WorkerStates]
    BY <1>15, ReportDoes DEF Goes
  <2> QED  BY <1>15, <2>2, <2>3, <2>4, <2>5 DEF Report, TypeOK
<1>16. ASSUME NEW i \in Requests, LateReport(i)
       PROVE  TypeOK'
  <2>1. request[i] \in RequestRecords
    BY <1>16, RequestsType DEF LateReport, ClaimsInv
  <2>2. /\ request' \in [Requests -> RequestRecords \cup {NoRequest}]
        /\ node' \in [Gateways -> Records]
    BY <1>16, <2>1, CompleteDoes DEF LateReport, TypeOK, Final
  <2> QED  BY <1>16, <2>2 DEF LateReport, TypeOK
<1>17. ASSUME NEW w \in Workers, Restart(w)
       PROVE  TypeOK'
  <2>1. worker' \in [Workers -> WorkerStates]
    BY <1>17, RestartDoes DEF Goes
  <2>2. host' \in [Gateways -> Gear] /\ ends' \in [Gateways -> Nat]
    <3>1. CASE worker[w].at = "job"
      <4>1. PICK h \in HalfUpdated(w, worker[w].id,
                                   host[request[worker[w].id].gateway]) :
              host' = [host EXCEPT ![request[worker[w].id].gateway] = h]
        BY <1>17, <3>1 DEF Restart
      <4>2. h \in Gear
        BY <1>10, <3>1
      <4>3. ends' = [ends EXCEPT ![request[worker[w].id].gateway] = @ + 1]
        BY <1>17, <3>1 DEF Restart
      <4>4. host' \in [Gateways -> Gear]
        BY <4>1, <4>2 DEF TypeOK
      <4>5. ends' \in [Gateways -> Nat]
        BY <1>10, <3>1, <4>3 DEF TypeOK
      <4> QED  BY <4>4, <4>5
    <3>2. CASE worker[w].at # "job"
      BY <1>17, <3>2 DEF Restart, TypeOK
    <3> QED  BY <3>1, <3>2
  <2>3. results' \in [Workers -> Seq(Final)]
    BY <1>17 DEF Restart, TypeOK
  <2> QED  BY <1>17, <2>1, <2>2, <2>3 DEF Restart, TypeOK
<1> QED  BY <1>1, <1>2, <1>3, <1>4, <1>5, <1>6, <1>7, <1>8, <1>9, <1>11,
            <1>12, <1>13, <1>14, <1>15, <1>16, <1>17 DEF Next, Step

(* What a worker has read of the queue is known.                           *)
ListsKnown == \A w \in Workers : worker[w].list \subseteq Known

(* What a step keeps of the requests: one that is known stays known, of    *)
(* its gateway, and remembers who has claimed it; one that was claimed is  *)
(* not queued again.                                                       *)
RequestsGo ==
  \A i \in Known : /\ i \in Known' /\ request[i].by \subseteq request'[i].by
                   /\ request'[i].gateway = request[i].gateway
                   /\ request'[i].status = "queued" =>
                        request'[i] = request[i]

LEMMA ClaimsKept ==
  ASSUME TypeOK, ClaimsInv, RequestsGo,
         \A i \in Known' \ Known : request'[i].by = {},
         claims' \subseteq claims, done' = done, reports' \subseteq reports,
         \A w \in Workers, i \in Requests :
           <<w, i>> \in claims' => w \notin request'[i].by,
         \A w \in Workers : worker'[w] # worker[w] => ~Has(w)' /\ ~Succeeded(w)'
  PROVE  ClaimsInv'
<1>1. \A i \in Known' : request'[i].status = "queued" => request'[i].by = {}
  BY DEF ClaimsInv, RequestsGo
<1>2. \A w \in Workers, i \in Requests :
        /\ <<w, i>> \in claims' => i \in Known' /\ w \notin request'[i].by
        /\ <<w, i>> \in done' => i \in Known' /\ w \in request'[i].by
  BY DEF ClaimsInv, RequestsGo
<1>3. \A i \in reports' : i \in Known' /\ ~(request'[i].by \subseteq Legacy)
  BY DEF ClaimsInv, RequestsGo
<1>4. \A w \in Workers :
        /\ Has(w)' => /\ worker'[w].id \in Known'
                      /\ w \in request'[worker'[w].id].by
        /\ Succeeded(w)' => /\ worker'[w].outcome = "completed"
                            /\ <<w, worker'[w].id>> \in done'
        /\ worker'[w].at = "health" => w \in Legacy
        /\ worker'[w].at = "report" => worker'[w].outcome \in Final
  BY DEF ClaimsInv, RequestsGo, Has, Succeeded
<1> QED  BY <1>1, <1>2, <1>3, <1>4 DEF ClaimsInv

LEMMA ClaimsStep ==
  ASSUME TypeOK, ClaimsInv, ListsKnown, TypeOK', Next
  PROVE  ClaimsInv' /\ RequestsGo
<1> USE UpdatesAssumption
<1>1. ASSUME UNCHANGED <<request, claims, done, reports, worker>>
      PROVE  ClaimsInv' /\ RequestsGo
  BY <1>1 DEF ClaimsInv, RequestsGo, Known, Has, Succeeded
<1>2. ASSUME NEW w \in Workers, NEW m \in WorkerStates, HasStill(w, m),
             UNCHANGED <<request, claims, reports>>,
             \/ done' = done
             \/ done' = done \cup {<<w, worker[w].id>>},
             \/ m.at = "report" /\ m.outcome = "failed"
             \/ /\ m.outcome = "completed" /\ <<w, worker[w].id>> \in done'
                /\ m.at \in {"health", "report"}
                /\ m.at = "health" => w \in Legacy
      PROVE  ClaimsInv' /\ RequestsGo
  <2>1. RequestsGo
    BY <1>2 DEF RequestsGo, Known
  <2>2. \A x \in Workers, i \in Requests :
          <<x, i>> \in done' => i \in Known /\ x \in request[i].by
    BY <1>2 DEF ClaimsInv, HasStill
  <2>3. \A x \in Workers \ {w} : worker'[x] = worker[x]
    BY <1>2 DEF HasStill, Goes
  <2>4. /\ worker'[w].id = worker[w].id /\ worker'[w].at = m.at
        /\ worker'[w].outcome = m.outcome /\ Has(w)
    BY <1>2 DEF HasStill, Goes
  <2>5. done \subseteq done'
    BY <1>2
  <2>6. \A x \in Workers :
        /\ Has(x)' => /\ worker'[x].id \in Known
                      /\ x \in request[worker'[x].id].by
        /\ Succeeded(x)' => /\ worker'[x].outcome = "completed"
                            /\ <<x, worker'[x].id>> \in done'
        /\ worker'[x].at = "health" => x \in Legacy
        /\ worker'[x].at = "report" => worker'[x].outcome \in Final
    BY <1>2, <2>3, <2>4, <2>5 DEF ClaimsInv, Has, Succeeded, Final
  <2> QED  BY <1>2, <2>1, <2>2, <2>6 DEF ClaimsInv, Known
<1>3. ASSUME NEW g \in Gateways, NEW s \in AskedScopes, Insert(g, s)
      PROVE  ClaimsInv' /\ RequestsGo
  <2>1. PICK i \in Requests \ Known :
          /\ \A k \in Requests \ {i} : request'[k] = request[k]
          /\ request'[i] \in RequestRecords
          /\ request'[i].by = {}
    BY <1>3, InsertDoes
  <2>2. RequestsGo /\ \A k \in Known' \ Known : request'[k].by = {}
    BY <2>1 DEF RequestsGo, Known
  <2>3. UNCHANGED <<claims, done, reports, worker>>
    BY <1>3 DEF Insert
  <2>4. \A w \in Workers, k \in Requests :
          <<w, k>> \in claims' => w \notin request'[k].by
    BY <2>1, <2>3 DEF ClaimsInv
  <2> QED  BY <2>2, <2>3, <2>4, ClaimsKept
<1>4. ASSUME NEW w \in Workers, NEW i \in Requests, CommitClaim(w, i)
      PROVE  ClaimsInv' /\ RequestsGo
  <2>1. /\ \A k \in Requests \ {i} : request'[k] = request[k]
        /\ i \in Known /\ request'[i] \in RequestRecords
        /\ request'[i].status = "running"
        /\ request'[i].by = request[i].by \cup {w}
        /\ request'[i].gateway = request[i].gateway
    BY <1>4, CommitClaimRequests
  <2>2. RequestsGo /\ Known' = Known
    BY <2>1, RequestsType, NoRequestAssumption DEF RequestsGo, Known
  <2>3. claims' = claims \ {<<w, i>>} /\ UNCHANGED <<done, reports>>
    BY <1>4 DEF CommitClaim
  <2>4. \A x \in Workers, k \in Requests :
          <<x, k>> \in claims' => k \in Known /\ x \notin request'[k].by
    BY <2>1, <2>3 DEF ClaimsInv
  <2>5. \A x \in Workers \ {w} : worker'[x] = worker[x]
    BY <1>4, CommitClaimDoes DEF Goes
  <2>6. \/ worker'[w] = worker[w]
        \/ worker'[w].at = "job" /\ worker'[w].id = i
    <3>1. [worker[w] EXCEPT !.at = "job"].at = "job"
          /\ [worker[w] EXCEPT !.at = "job"].id = worker[w].id
      BY DEF TypeOK, WorkerStates
    <3> QED  BY <1>4, <3>1, CommitClaimDoes DEF Goes
  <2>7. \A x \in Workers :
        /\ Has(x)' => /\ worker'[x].id \in Known'
                      /\ x \in request'[worker'[x].id].by
        /\ Succeeded(x)' => /\ worker'[x].outcome = "completed"
                            /\ <<x, worker'[x].id>> \in done'
        /\ worker'[x].at = "health" => x \in Legacy
        /\ worker'[x].at = "report" => worker'[x].outcome \in Final
    <3>1. Has(w)' => /\ worker'[w].id \in Known'
                     /\ w \in request'[worker'[w].id].by
      BY <2>1, <2>2, <2>6 DEF ClaimsInv, RequestsGo, Has
    <3>2. \A x \in Workers \ {w} :
            Has(x)' => /\ worker'[x].id \in Known'
                       /\ x \in request'[worker'[x].id].by
      BY <2>2, <2>5 DEF ClaimsInv, RequestsGo, Has
    <3> QED  BY <2>3, <2>5, <2>6, <3>1, <3>2 DEF ClaimsInv, Succeeded
  <2>8. \A k \in Known' : request'[k].status = "queued" => request'[k].by = {}
    BY <2>1, <2>2 DEF ClaimsInv, Known
  <2>9. /\ \A x \in Workers, k \in Requests :
             <<x, k>> \in done' => k \in Known' /\ x \in request'[k].by
        /\ \A k \in reports' :
             k \in Known' /\ ~(request'[k].by \subseteq Legacy)
    BY <2>2, <2>3 DEF ClaimsInv, RequestsGo
  <2> QED  BY <2>2, <2>4, <2>7, <2>8, <2>9 DEF ClaimsInv
<1>5. ASSUME NEW i \in Requests, request[i] \in RequestRecords,
             request[i].by # {},
             NEW o \in Final, Complete(i, o) \/ UNCHANGED <<request, node>>
      PROVE  /\ RequestsGo /\ Known' = Known
             /\ \A k \in Known : request'[k].by = request[k].by
  <2>1. CASE UNCHANGED <<request, node>>
    BY <2>1 DEF RequestsGo, Known
  <2>2. CASE Complete(i, o)
    <3>1. /\ \A k \in Requests \ {i} : request'[k] = request[k]
          /\ request'[i] \in RequestRecords
          /\ request'[i].by = request[i].by
          /\ request'[i].gateway = request[i].gateway
          /\ request'[i].status \in Final
      BY <1>5, <2>2, CompleteDoes
    <3> QED  BY <1>5, <3>1, RequestsType, NoRequestAssumption
             DEF RequestsGo, Known, Final
  <2> QED  BY <1>5, <2>1, <2>2
<1>6. ASSUME NEW w \in Workers, Report(w)
      PROVE  ClaimsInv' /\ RequestsGo
  <2> DEFINE i == worker[w].id
  <2>1. /\ i \in Requests /\ i \in Known /\ request[i] \in RequestRecords
        /\ w \in request[i].by /\ worker[w].outcome \in Final
    BY <1>6, HasRequest DEF Report, Has, ClaimsInv
  <2>2. PICK k \in Requests, o \in Final : k = i /\ o = worker[w].outcome
    BY <2>1
  <2>3. /\ UNCHANGED <<claims, done>>
        /\ \/ /\ w \in Dev /\ reports' = reports \cup {k}
              /\ UNCHANGED <<request, node>>
           \/ UNCHANGED reports /\ Complete(k, o)
           \/ UNCHANGED <<reports, request, node>>
    BY <1>6, <2>2 DEF Report
  <2>4. /\ RequestsGo /\ Known' = Known
        /\ \A j \in Known : request'[j].by = request[j].by
    BY <1>5, <2>1, <2>2, <2>3
  <2>5. /\ worker'[w].at = "idle"
        /\ \A x \in Workers \ {w} : worker'[x] = worker[x]
    BY <1>6, ReportDoes DEF Goes
  <2>6. \A j \in Known' : request'[j].status = "queued" => request'[j].by = {}
    BY <2>4 DEF ClaimsInv, RequestsGo
  <2>7. \A x \in Workers, j \in Requests :
          /\ <<x, j>> \in claims' => j \in Known' /\ x \notin request'[j].by
          /\ <<x, j>> \in done' => j \in Known' /\ x \in request'[j].by
    BY <2>3, <2>4 DEF ClaimsInv
  <2>8. \A j \in reports' : j \in Known' /\ ~(request'[j].by \subseteq Legacy)
    BY <2>1, <2>2, <2>3, <2>4 DEF ClaimsInv
  <2>9. \A x \in Workers :
        /\ Has(x)' => /\ worker'[x].id \in Known'
                      /\ x \in request'[worker'[x].id].by
        /\ Succeeded(x)' => /\ worker'[x].outcome = "completed"
                            /\ <<x, worker'[x].id>> \in done'
        /\ worker'[x].at = "health" => x \in Legacy
        /\ worker'[x].at = "report" => worker'[x].outcome \in Final
    BY <2>3, <2>4, <2>5 DEF ClaimsInv, Has, Succeeded
  <2> QED  BY <2>4, <2>6, <2>7, <2>8, <2>9 DEF ClaimsInv
<1>7. ASSUME NEW i \in Requests, LateReport(i)
      PROVE  ClaimsInv' /\ RequestsGo
  <2>1. /\ request[i] \in RequestRecords /\ request[i].by # {}
        /\ "completed" \in Final
    BY <1>7, RequestsType DEF LateReport, ClaimsInv, Final
  <2>2. /\ UNCHANGED <<claims, done, worker>> /\ reports' \subseteq reports
        /\ Complete(i, "completed") \/ UNCHANGED <<request, node>>
    BY <1>7 DEF LateReport
  <2>3. /\ RequestsGo /\ Known' = Known
        /\ \A j \in Known : request'[j].by = request[j].by
    BY <1>5, <2>1, <2>2
  <2>4. \A w \in Workers, j \in Requests :
          <<w, j>> \in claims' => w \notin request'[j].by
    BY <2>2, <2>3 DEF ClaimsInv
  <2> QED  BY <2>2, <2>3, <2>4, ClaimsKept
<1>8. ASSUME NEW w \in Workers, Claim(w)
      PROVE  ClaimsInv' /\ RequestsGo
  <2>1. UNCHANGED <<request, done, reports>>
    BY <1>8 DEF Claim
  <2>2. PICK i \in Known :
          \/ UNCHANGED claims
          \/ request[i].status = "queued" /\ claims' = claims \cup {<<w, i>>}
    BY <1>8, ClaimDoes DEF ListsKnown
  <2>3. /\ worker'[w].at \in {"idle", "claiming"}
        /\ \A x \in Workers \ {w} : worker'[x] = worker[x]
    BY <1>8, ClaimDoes DEF Goes
  <2>4. CASE UNCHANGED claims
    BY <2>1, <2>3, <2>4 DEF ClaimsInv, RequestsGo, Known, Has, Succeeded
  <2>5. CASE request[i].status = "queued" /\ claims' = claims \cup {<<w, i>>}
    <3>1. i \in Known /\ request[i].by = {}
      BY <2>5 DEF ClaimsInv
    <3>2. \A x \in Workers, k \in Requests :
            <<x, k>> \in claims' => k \in Known /\ x \notin request[k].by
      BY <2>5, <3>1 DEF ClaimsInv
    <3>3. \A x \in Workers :
          /\ Has(x)' => /\ worker'[x].id \in Known
                        /\ x \in request[worker'[x].id].by
          /\ Succeeded(x)' => /\ worker'[x].outcome = "completed"
                              /\ <<x, worker'[x].id>> \in done
          /\ worker'[x].at = "health" => x \in Legacy
          /\ worker'[x].at = "report" => worker'[x].outcome \in Final
      BY <2>3 DEF ClaimsInv, Has, Succeeded
    <3> QED  BY <2>1, <3>2, <3>3 DEF ClaimsInv, RequestsGo, Known
  <2> QED  BY <2>2, <2>4, <2>5
<1>9. ASSUME NEW w \in Workers, Poll(w)
      PROVE  ClaimsInv' /\ RequestsGo
  <2>1. UNCHANGED <<request, claims, done, reports>>
    BY <1>9 DEF Poll
  <2>2. /\ worker'[w].at = "idle"
        /\ \A x \in Workers \ {w} : worker'[x] = worker[x]
    BY <1>9, PollDoes DEF Goes, Poll, TypeOK, WorkerStates
  <2> QED  BY <2>1, <2>2 DEF ClaimsInv, RequestsGo, Known, Has, Succeeded
<1>10. ASSUME NEW w \in Workers, LoseClaim(w) \/ Restart(w)
       PROVE  ClaimsInv' /\ RequestsGo
  <2>1. UNCHANGED <<request, claims, done, reports>>
    BY <1>10 DEF LoseClaim, Restart
  <2>2. /\ worker'[w].at = "idle"
        /\ \A x \in Workers \ {w} : worker'[x] = worker[x]
    BY <1>10, LoseClaimDoes, RestartDoes, IdleType DEF Goes
  <2> QED  BY <2>1, <2>2 DEF ClaimsInv, RequestsGo, Known, Has, Succeeded
<1>11. ASSUME NEW w \in Workers, CompleteJob(w)
       PROVE  ClaimsInv' /\ RequestsGo
  <2>1. request[worker[w].id].gateway \in Gateways
    BY <1>11, HasRequest DEF CompleteJob, Has
  <2>2. PICK m \in WorkerStates :
          /\ HasStill(w, m) /\ m.outcome = "completed"
          /\ m.at = IF w \in Legacy THEN "health" ELSE "report"
    BY <1>11, <2>1, CompleteJobDoes
  <2>3. /\ UNCHANGED <<request, claims, reports>>
        /\ done' = done \cup {<<w, worker[w].id>>}
    BY <1>11 DEF CompleteJob
  <2> QED  BY <1>2, <2>2, <2>3
<1>12. ASSUME NEW w \in Workers, FailJob(w) \/ FailHealth(w)
       PROVE  ClaimsInv' /\ RequestsGo
  <2>1. PICK m \in WorkerStates :
          HasStill(w, m) /\ m.at = "report" /\ m.outcome = "failed"
    BY <1>12, FailJobDoes, FailHealthDoes
  <2>2. UNCHANGED <<request, claims, reports, done>>
    BY <1>12 DEF FailJob, FailHealth
  <2> QED  BY <1>2, <2>1, <2>2
<1>13. ASSUME NEW w \in Workers, PassHealth(w)
       PROVE  ClaimsInv' /\ RequestsGo
  <2>1. PICK m \in WorkerStates :
          /\ HasStill(w, m) /\ worker[w].at = "health"
          /\ m.at = "report" /\ m.outcome = worker[w].outcome
    BY <1>13, PassHealthDoes
  <2>2. UNCHANGED <<request, claims, reports, done>>
    BY <1>13 DEF PassHealth
  <2>3. Succeeded(w)
    BY <2>1 DEF Succeeded
  <2>4. m.outcome = "completed" /\ <<w, worker[w].id>> \in done
    BY <2>1, <2>3 DEF ClaimsInv
  <2> QED  BY <1>2, <2>1, <2>2, <2>4
<1>14. ASSUME NEW g \in Gateways, NEW s \in AskedScopes, Ask(g, s)
       PROVE  ClaimsInv' /\ RequestsGo
  BY <1>1, <1>14 DEF Ask
<1>15. ASSUME NEW g \in Gateways, DelayHeartbeat(g) \/ LateHeartbeat(g)
       PROVE  ClaimsInv' /\ RequestsGo
  BY <1>1, <1>15 DEF DelayHeartbeat, LateHeartbeat
<1>16. ASSUME NEW g \in Gateways, NEW ok \in BOOLEAN, Heartbeat(g, ok)
       PROVE  ClaimsInv' /\ RequestsGo
  BY <1>1, <1>16 DEF Heartbeat
<1> QED  BY <1>3, <1>4, <1>6, <1>7, <1>8, <1>9, <1>10, <1>11, <1>12, <1>13,
            <1>14, <1>15, <1>16 DEF Next, Step

(* Which worker a step is of, and what it keeps of the counters: a worker  *)
(* that has halted makes no step but to start again.                       *)
Works(w) ==
  \E m \in WorkerStates : /\ Goes(w, m) /\ KeepsCount(w, m) /\ UNCHANGED results
                          /\ \/ worker[w].at # "idle" \/ worker[w].list # {}
                             \/ ~worker[w].halted

LEMMA WorkerSteps ==
  ASSUME TypeOK, ClaimsInv, Next
  PROVE  \/ UNCHANGED <<worker, results>>
         \/ \E w \in Workers : Works(w) \/ Report(w) \/ Restart(w)
<1>1. CASE \E w \in Workers, i \in Requests : CommitClaim(w, i)
  <2>1. PICK w \in Workers, i \in Requests : CommitClaim(w, i)
    BY <1>1
  <2> DEFINE m == [worker[w] EXCEPT !.at = "job"]
  <2>2. m \in WorkerStates /\ KeepsCount(w, m)
    BY DEF TypeOK, WorkerStates, Places, KeepsCount
  <2>3. UNCHANGED worker \/ (worker[w].at = "claiming" /\ Goes(w, m))
    BY <2>1, CommitClaimDoes
  <2> HIDE DEF m
  <2> QED  BY <2>1, <2>2, <2>3 DEF CommitClaim, Works
<1>2. ASSUME NEW w \in Workers, Poll(w)
      PROVE  Works(w)
  <2> DEFINE m == [worker[w] EXCEPT !.list = Queued]
  <2>1. Queued \in SUBSET Requests
    BY DEF Queued, Known
  <2>2. m \in WorkerStates /\ KeepsCount(w, m)
    BY <2>1 DEF TypeOK, WorkerStates, KeepsCount
  <2>3. Goes(w, m)
    BY <1>2, PollDoes
  <2> HIDE DEF m
  <2> QED  BY <1>2, <2>2, <2>3 DEF Poll, Works
<1>3. ASSUME NEW w \in Workers, Claim(w)
      PROVE  Works(w)
  <2>1. PICK i \in worker[w].list, m \in WorkerStates :
          Goes(w, m) /\ KeepsCount(w, m)
    BY <1>3, ClaimDoes DEF KeepsCount
  <2> QED  BY <1>3, <2>1 DEF Claim, Works
<1>4. ASSUME NEW w \in Workers, LoseClaim(w)
      PROVE  Works(w)
  BY <1>4, LoseClaimDoes DEF LoseClaim, Works
<1>5. ASSUME NEW w \in Workers, NEW m \in WorkerStates, HasStill(w, m),
             UNCHANGED results
      PROVE  Works(w)
  BY <1>5 DEF HasStill, Works, Has
<1>6. ASSUME NEW w \in Workers,
             CompleteJob(w) \/ FailJob(w) \/ PassHealth(w) \/ FailHealth(w)
      PROVE  Works(w)
  <2>1. UNCHANGED results
    BY <1>6 DEF CompleteJob, FailJob, PassHealth, FailHealth
  <2>2. CompleteJob(w) => request[worker[w].id].gateway \in Gateways
    BY HasRequest DEF CompleteJob, Has
  <2>3. \E m \in WorkerStates : HasStill(w, m)
    BY <1>6, <2>2, CompleteJobDoes, FailJobDoes, PassHealthDoes, FailHealthDoes
  <2> QED  BY <1>5, <2>1, <2>3
<1>7. CASE \/ \E g \in Gateways, s \in AskedScopes : Ask(g, s) \/ Insert(g, s)
           \/ \E g \in Gateways : DelayHeartbeat(g) \/ LateHeartbeat(g)
           \/ \E g \in Gateways, ok \in BOOLEAN : Heartbeat(g, ok)
           \/ \E i \in Requests : LateReport(i)
  BY <1>7 DEF Ask, Insert, DelayHeartbeat, LateHeartbeat, Heartbeat, LateReport
<1> QED  BY <1>1, <1>2, <1>3, <1>4, <1>6, <1>7 DEF Next, Step

LEMMA ListsStep ==
  ASSUME TypeOK, ClaimsInv, ListsKnown, Next, RequestsGo
  PROVE  ListsKnown'
<1>1. Known \subseteq Known'
  BY DEF RequestsGo
<1>2. CASE UNCHANGED worker
  BY <1>1, <1>2 DEF ListsKnown
<1>3. ASSUME NEW w \in Workers, NEW m \in WorkerStates, Goes(w, m)
      PROVE  ListsKnown'
  BY <1>1, <1>3 DEF ListsKnown, Goes
<1>4. ASSUME NEW w \in Workers, Report(w)
      PROVE  ListsKnown'
  BY <1>3, <1>4, ReportDoes
<1>5. ASSUME NEW w \in Workers, Restart(w)
      PROVE  ListsKnown'
  BY <1>3, <1>5, RestartDoes, IdleType
<1> QED  BY <1>2, <1>3, <1>4, <1>5, WorkerSteps DEF Works

(* A worker that is not halted has failed less than HaltAfter times in a   *)
(* row: before its last failures there is a success, if there is anything. *)
CountsFailures(w) ==
  LET me == worker[w]
      n == Len(results[w])
  IN  /\ me.failures <= n
      /\ me.failures < n => results[w][n - me.failures] = "completed"
      /\ ~me.halted => me.failures < HaltAfter
      /\ me.halted => me.at = "idle" /\ me.list = {}
HaltInv == BadReleaseIsHeld /\ \A w \in Workers : CountsFailures(w)

LEMMA HaltStep ==
  ASSUME TypeOK, ClaimsInv, HaltInv, TypeOK', Next
  PROVE  HaltInv'
<1> USE UpdatesAssumption
<1>1. CASE UNCHANGED <<worker, results>>
  BY <1>1 DEF HaltInv, BadReleaseIsHeld, CountsFailures
<1>2. ASSUME NEW w \in Workers, Works(w)
      PROVE  HaltInv'
  <2>1. PICK m \in WorkerStates :
          /\ Goes(w, m) /\ KeepsCount(w, m) /\ UNCHANGED results
          /\ ~worker[w].halted
    BY <1>2 DEF Works, HaltInv, CountsFailures
  <2>2. ~worker'[w].halted /\ worker'[w].failures = worker[w].failures
        /\ \A x \in Workers \ {w} : worker'[x] = worker[x]
    BY <2>1 DEF Goes, KeepsCount
  <2>3. BadReleaseIsHeld' /\ CountsFailures(w)
    BY <2>1 DEF HaltInv, BadReleaseIsHeld
  <2>4. CountsFailures(w)'
    BY <2>1, <2>2, <2>3 DEF CountsFailures
  <2>5. \A x \in Workers \ {w} : CountsFailures(x)'
    BY <2>1, <2>2 DEF HaltInv, CountsFailures
  <2> QED  BY <2>3, <2>4, <2>5 DEF HaltInv
<1>3. ASSUME NEW w \in Workers, Report(w)
      PROVE  HaltInv'
  <2> DEFINE o == worker[w].outcome
             f == worker[w].failures
             n == Len(results[w])
  <2>1. /\ o \in Final /\ f \in Nat /\ results[w] \in Seq(Final)
        /\ n \in Nat /\ f < HaltAfter
    BY <1>3 DEF Report, ClaimsInv, TypeOK, WorkerStates, HaltInv, CountsFailures
  <2>2. results' = [results EXCEPT ![w] = Append(@, o)]
    BY <1>3 DEF Report
  <2>3. results'[w] = Append(results[w], o)
        /\ \A x \in Workers \ {w} : results'[x] = results[x]
    BY <2>2 DEF TypeOK
  <2>4. PICK m \in WorkerStates :
          /\ Goes(w, m) /\ m.at = "idle"
          /\ m.failures = IF o = "failed" THEN f + 1 ELSE 0
          /\ m.halted = (m.failures >= HaltAfter)
          /\ m.halted => m.list = {}
    BY <1>3, ReportDoes
  <2> HIDE DEF o, f, n
  <2>5. /\ Len(results'[w]) = n + 1 /\ results'[w][n + 1] = o
        /\ \A k \in 1..n : results'[w][k] = results[w][k]
    BY <2>1, <2>3 DEF n
  <2>6. f <= n /\ (f < n => results[w][n - f] = "completed")
    BY DEF HaltInv, CountsFailures, f, n
  <2>7. CountsFailures(w)'
    <3>1. worker'[w] = m
      BY <2>4 DEF Goes
    <3>2. CASE o = "failed"
      <4>1. m.failures = f + 1 /\ m.halted = (f + 1 >= HaltAfter)
        BY <2>4, <3>2
      <4>2. f < n => n - f \in 1..n /\ (n + 1) - (f + 1) = n - f
        BY <2>1
      <4>3. f + 1 < n + 1 => results'[w][(n + 1) - (f + 1)] = "completed"
        BY <2>1, <2>5, <2>6, <4>2
      <4>4. /\ worker'[w].failures = f + 1 /\ Len(results'[w]) = n + 1
            /\ worker'[w].halted = (f + 1 >= HaltAfter)
            /\ worker'[w].halted => /\ worker'[w].at = "idle"
                                    /\ worker'[w].list = {}
        BY <2>4, <2>5, <3>1, <4>1
      <4>5. f + 1 <= n + 1 /\ (~(f + 1 >= HaltAfter) => f + 1 < HaltAfter)
        BY <2>1, <2>6
      <4> QED  BY <4>3, <4>4, <4>5 DEF CountsFailures
    <3>3. CASE o = "completed"
      BY <2>1, <2>4, <2>5, <2>6, <3>1, <3>3 DEF CountsFailures
    <3> QED  BY <2>1, <3>2, <3>3 DEF Final
  <2>8. \A k \in 1..(n + 1 - HaltAfter) :
          \E j \in k..(k + HaltAfter - 1) : results'[w][j] = "completed"
    <3> SUFFICES ASSUME NEW k \in 1..(n + 1 - HaltAfter)
                 PROVE  \E j \in k..(k + HaltAfter - 1) :
                          results'[w][j] = "completed"
      OBVIOUS
    <3>1. CASE k <= n - HaltAfter
      <4>1. PICK j \in k..(k + HaltAfter - 1) : results[w][j] = "completed"
        BY <2>1, <3>1 DEF HaltInv, BadReleaseIsHeld, n
      <4>2. j \in 1..n
        BY <2>1, <3>1
      <4> QED  BY <2>5, <4>1, <4>2
    <3>2. CASE k = n + 1 - HaltAfter
      <4>1. f < n /\ n - f \in k..(k + HaltAfter - 1) /\ n - f \in 1..n
        BY <2>1, <2>6, <3>2
      <4> QED  BY <2>5, <2>6, <4>1
    <3> QED  BY <2>1, <3>1, <3>2
  <2>9. BadReleaseIsHeld'
    <3> SUFFICES ASSUME NEW x \in Workers
                 PROVE  \A k \in 1..(Len(results'[x]) - HaltAfter) :
                          \E j \in k..(k + HaltAfter - 1) :
                            results'[x][j] = "completed"
      BY DEF BadReleaseIsHeld
    <3>1. CASE x = w
      <4>1. Len(results'[x]) - HaltAfter = n + 1 - HaltAfter
        BY <2>1, <2>5, <3>1
      <4> QED  BY <2>8, <3>1, <4>1
    <3>2. CASE x # w
      BY <2>3, <3>2 DEF HaltInv, BadReleaseIsHeld
    <3> QED  BY <3>1, <3>2
  <2> QED  BY <2>3, <2>4, <2>7, <2>9, ZenonT(60)
           DEF HaltInv, Goes, CountsFailures
<1>4. ASSUME NEW w \in Workers, Restart(w)
      PROVE  HaltInv'
  <2>1. /\ results'[w] = <<>> /\ worker'[w] = Idle
        /\ \A x \in Workers \ {w} : /\ results'[x] = results[x]
                                    /\ worker'[x] = worker[x]
    BY <1>4, RestartDoes DEF Restart, Goes, TypeOK
  <2>2. CountsFailures(w)'
    BY <2>1, IdleType DEF CountsFailures
  <2>3. \A k \in 1..(Len(results'[w]) - HaltAfter) : FALSE
    BY <2>1
  <2>4. BadReleaseIsHeld'
    BY <2>1, <2>3 DEF HaltInv, BadReleaseIsHeld
  <2> QED  BY <2>1, <2>2, <2>4 DEF HaltInv, CountsFailures
<1> QED  BY <1>1, <1>2, <1>3, <1>4, WorkerSteps

(* What has been heard of a gateway, or is on its way.                     *)
Heard(g) == late[g] \cup {node[g]}

(* A heartbeat that the wait for health accepts was sent after the job.    *)
Proves(w, b) ==
  b.ok /\ b.at >= worker[w].since => <<w, worker[w].id>> \in back
Fresh(w) ==
  LET g == request[worker[w].id].gateway
  IN  Succeeded(w) /\ skew[g] = 0 =>
        IF worker[w].at = "health" THEN \A b \in Heard(g) : Proves(w, b)
        ELSE <<w, worker[w].id>> \in back
FreshInv ==
  /\ \A g \in Gateways : skew[g] = 0 => \A b \in Heard(g) : b.at <= ends[g]
  /\ \A w \in Legacy : Fresh(w)

(* A heartbeat that is sent now: with the time of now, and the history     *)
(* knows of it.                                                            *)
SentNow(g, b) ==
  /\ b.at = ends[g] + skew[g]
  /\ b.ok => \A w \in Workers, i \in Requests :
               <<w, i>> \in done /\ request[i].gateway = g => <<w, i>> \in back'
HeardBefore(g, b) ==
  \/ \E c \in Heard(g) : b.ok = c.ok /\ b.at = c.at
  \/ SentNow(g, b)

LEMMA FreshKept ==
  ASSUME TypeOK, ClaimsInv, FreshInv, RequestsGo, TypeOK',
         UNCHANGED skew, back \subseteq back',
         \A g \in Gateways : ends[g] <= ends'[g],
         \A g \in Gateways : \A b \in Heard(g)' : HeardBefore(g, b),
         \A w \in Legacy :
           worker'[w] = worker[w] \/ ~Succeeded(w)' \/ Fresh(w)'
  PROVE  FreshInv'
<1>1. ASSUME NEW g \in Gateways, skew'[g] = 0, NEW b \in Heard(g)'
      PROVE  b.at <= ends'[g]
  <2>1. ends[g] \in Nat /\ ends'[g] \in Nat /\ ends[g] <= ends'[g]
    BY DEF TypeOK
  <2>2. CASE SentNow(g, b)
    BY <1>1, <2>1, <2>2 DEF SentNow
  <2>3. ASSUME NEW c \in Heard(g), b.at = c.at
        PROVE  b.at <= ends'[g]
    <3>1. c.at <= ends[g] /\ c \in Records
      BY <1>1 DEF FreshInv, TypeOK, Heard
    <3>2. c.at \in Int
      BY <3>1 DEF Records, Time, Never
    <3> QED  BY <2>1, <2>3, <3>1, <3>2
  <2> QED  BY <1>1, <2>2, <2>3 DEF HeardBefore
<1>2. ASSUME NEW w \in Legacy, worker'[w] = worker[w], Succeeded(w)
      PROVE  Fresh(w)'
  <2>1. Has(w) /\ w \in Workers
    BY <1>2 DEF Has, Succeeded, Workers
  <2>2. PICK i \in Requests, g \in Gateways :
          /\ i = worker[w].id /\ g = request[i].gateway
          /\ i \in Known /\ <<w, i>> \in done
    BY <1>2, <2>1, HasRequest DEF ClaimsInv
  <2>3. request'[i].gateway = g
    BY <2>2 DEF RequestsGo
  <2>4. ASSUME skew[g] = 0, worker[w].at = "health", NEW b \in Heard(g)'
        PROVE  b.ok /\ b.at >= worker[w].since => <<w, i>> \in back'
    <3>1. CASE SentNow(g, b)
      BY <2>1, <2>2, <3>1 DEF SentNow
    <3>2. ASSUME NEW c \in Heard(g), b.ok = c.ok, b.at = c.at
          PROVE  b.ok /\ b.at >= worker[w].since => <<w, i>> \in back'
      BY <1>2, <2>2, <2>4, <3>2 DEF FreshInv, Fresh, Proves
    <3> QED  BY <2>2, <2>4, <3>1, <3>2 DEF HeardBefore
  <2>5. ASSUME skew[g] = 0, worker[w].at # "health"
        PROVE  <<w, i>> \in back'
    BY <1>2, <2>2, <2>5 DEF FreshInv, Fresh
  <2>6. /\ worker'[w].id = i /\ worker'[w].at = worker[w].at
        /\ worker'[w].since = worker[w].since /\ skew'[g] = skew[g]
    BY <1>2, <2>2
  <2> QED  BY <2>3, <2>4, <2>5, <2>6 DEF Fresh, Proves
<1>3. ASSUME NEW w \in Legacy, worker'[w] = worker[w]
      PROVE  Fresh(w)'
  <2>1. Succeeded(w)' <=> Succeeded(w)
    BY <1>3 DEF Succeeded
  <2> QED  BY <1>2, <1>3, <2>1 DEF Fresh
<1>4. ASSUME NEW w \in Legacy, ~Succeeded(w)'
      PROVE  Fresh(w)'
  BY <1>4 DEF Fresh
<1> QED  BY <1>1, <1>3, <1>4 DEF FreshInv

LEMMA FreshStep ==
  ASSUME TypeOK, ClaimsInv, FreshInv, RequestsGo, TypeOK', Next
  PROVE  FreshInv' /\ back \subseteq back' /\ UNCHANGED skew
<1> DEFINE Goal == FreshInv' /\ back \subseteq back' /\ UNCHANGED skew
<1> USE DEF Workers
<1>1. ASSUME UNCHANGED <<node, late, back, skew>>,
             \A g \in Gateways : ends[g] <= ends'[g],
             \A w \in Legacy :
               worker'[w] = worker[w] \/ ~Succeeded(w)' \/ Fresh(w)'
      PROVE  Goal
  <2>1. \A g \in Gateways : \A b \in Heard(g)' : HeardBefore(g, b)
    BY <1>1 DEF Heard, HeardBefore
  <2> QED  BY <1>1, <2>1, FreshKept
<1>2. ASSUME UNCHANGED ends
      PROVE  \A g \in Gateways : ends[g] <= ends'[g]
  BY <1>2 DEF TypeOK
<1>3. CASE \E g \in Gateways, s \in AskedScopes : Ask(g, s) \/ Insert(g, s)
  BY <1>1, <1>2, <1>3 DEF Ask, Insert
<1>4. ASSUME NEW w \in Workers, NEW i \in Requests, CommitClaim(w, i)
      PROVE  Goal
  <2>1. \A x \in Legacy : worker'[x] = worker[x] \/ ~Succeeded(x)'
    <3>1. [worker[w] EXCEPT !.at = "job"].at = "job"
      BY DEF TypeOK, WorkerStates
    <3> QED  BY <1>4, <3>1, CommitClaimDoes DEF Goes, Succeeded
  <2>2. UNCHANGED <<node, late, back, skew, ends>>
    BY <1>4 DEF CommitClaim
  <2> QED  BY <1>1, <1>2, <2>1, <2>2
<1>5. ASSUME NEW w \in Workers, Poll(w) \/ Claim(w) \/ LoseClaim(w)
      PROVE  Goal
  <2>1. [worker[w] EXCEPT !.list = Queued].at = worker[w].at
    BY DEF TypeOK, WorkerStates
  <2>2. \A x \in Legacy : worker'[x] = worker[x] \/ ~Succeeded(x)'
    BY <1>5, <2>1, PollDoes, ClaimDoes, LoseClaimDoes
       DEF Goes, Succeeded, Poll
  <2>3. UNCHANGED <<node, late, back, skew, ends>>
    BY <1>5 DEF Poll, Claim, LoseClaim
  <2> QED  BY <1>1, <1>2, <2>2, <2>3
<1>6. ASSUME NEW w \in Workers, FailJob(w) \/ FailHealth(w) \/ Restart(w)
      PROVE  Goal
  <2>1. \A x \in Legacy : worker'[x] = worker[x] \/ ~Succeeded(x)'
    BY <1>6, FailJobDoes, FailHealthDoes, RestartDoes, IdleType
       DEF HasStill, Goes, Succeeded
  <2>2. UNCHANGED <<node, late, back, skew>>
    BY <1>6 DEF FailJob, FailHealth, Restart
  <2>3. \A g \in Gateways : ends[g] <= ends'[g]
    <3>1. \/ UNCHANGED ends
          \/ \E g : ends' = [ends EXCEPT ![g] = @ + 1]
      BY <1>6 DEF FailJob, FailHealth, Restart
    <3>2. ASSUME NEW g, ends' = [ends EXCEPT ![g] = @ + 1]
          PROVE  \A h \in Gateways : ends[h] <= ends'[h]
      <4>1. CASE g \in Gateways
        BY <3>2, <4>1 DEF TypeOK
      <4>2. CASE g \notin Gateways
        <5>1. ends' = ends
          BY <3>2, <4>2 DEF TypeOK
        <5> QED  BY <1>2, <5>1
      <4> QED  BY <4>1, <4>2
    <3> QED  BY <1>2, <3>1, <3>2
  <2> QED  BY <1>1, <2>1, <2>2, <2>3
<1>7. ASSUME NEW w \in Workers, CompleteJob(w)
      PROVE  Goal
  <2>1. /\ worker[w].id \in Requests
        /\ request[worker[w].id].gateway \in Gateways
    BY <1>7, HasRequest DEF CompleteJob, Has
  <2>2. PICK i \in Requests, g \in Gateways :
          i = worker[w].id /\ g = request[i].gateway
    BY <2>1
  <2>3. PICK m \in WorkerStates :
          /\ HasStill(w, m)
          /\ m.at = IF w \in Legacy THEN "health" ELSE "report"
          /\ m.since = ends[g] + 1
    BY <1>7, <2>2, CompleteJobDoes
  <2>4. /\ UNCHANGED <<node, late, back, skew, request>>
        /\ ends' = [ends EXCEPT ![g] = @ + 1]
    BY <1>7, <2>2 DEF CompleteJob
  <2>5. \A h \in Gateways : ends[h] <= ends'[h]
    BY <2>4 DEF TypeOK
  <2>6. ASSUME w \in Legacy, skew[g] = 0, NEW b \in Heard(g)
        PROVE  ~(b.at >= m.since)
    <3>1. b.at <= ends[g] /\ b \in Records
      BY <2>6 DEF FreshInv, TypeOK, Heard
    <3>2. b.at \in Int /\ ends[g] \in Nat
      BY <3>1 DEF Records, Time, Never, TypeOK
    <3> QED  BY <2>3, <3>1, <3>2
  <2>7. w \in Legacy => Fresh(w)'
    <3>1. /\ worker'[w].id = i /\ worker'[w].at = m.at
          /\ worker'[w].since = m.since
      BY <2>2, <2>3 DEF HasStill, Goes
    <3> QED  BY <2>2, <2>3, <2>4, <2>6, <3>1 DEF Fresh, Proves, Heard
  <2>8. \A x \in Legacy : worker'[x] = worker[x] \/ Fresh(x)'
    BY <2>3, <2>7 DEF HasStill, Goes
  <2> QED  BY <1>1, <2>4, <2>5, <2>8
<1>8. ASSUME NEW w \in Workers, PassHealth(w)
      PROVE  Goal
  <2>1. PICK m \in WorkerStates :
          /\ HasStill(w, m) /\ worker[w].at = "health" /\ Healthy(w)
          /\ m.at = "report" /\ m.outcome = worker[w].outcome
    BY <1>8, PassHealthDoes
  <2>2. UNCHANGED <<node, late, back, skew, request, ends>>
    BY <1>8 DEF PassHealth
  <2>3. w \in Legacy => Fresh(w)'
    BY <2>1, <2>2 DEF HasStill, Goes, FreshInv, Fresh, Proves, Healthy, Heard,
                     Succeeded
  <2>4. \A x \in Legacy : worker'[x] = worker[x] \/ Fresh(x)'
    BY <2>1, <2>3 DEF HasStill, Goes
  <2> QED  BY <1>1, <1>2, <2>2, <2>4
<1>9. ASSUME UNCHANGED <<late, back, skew, ends>>,
             \A g \in Gateways : /\ node'[g].ok = node[g].ok
                                 /\ node'[g].at = node[g].at,
             \A w \in Legacy : worker'[w] = worker[w] \/ ~Succeeded(w)'
      PROVE  Goal
  <2>1. \A g \in Gateways : \A b \in Heard(g)' : HeardBefore(g, b)
    BY <1>9 DEF Heard, HeardBefore
  <2> QED  BY <1>2, <1>9, <2>1, FreshKept
<1>10. ASSUME NEW w \in Workers, Report(w)
       PROVE  Goal
  <2>1. /\ worker[w].outcome \in Final /\ worker[w].id \in Requests
        /\ request[worker[w].id] \in RequestRecords
    BY <1>10, HasRequest DEF Report, Has, ClaimsInv
  <2>2. UNCHANGED node \/ Complete(worker[w].id, worker[w].outcome)
    BY <1>10 DEF Report
  <2>3. \A g \in Gateways : /\ node'[g].ok = node[g].ok
                            /\ node'[g].at = node[g].at
    BY <2>1, <2>2, CompleteDoes
  <2>4. \A x \in Legacy : worker'[x] = worker[x] \/ ~Succeeded(x)'
    BY <1>10, ReportDoes DEF Goes, Succeeded
  <2>5. UNCHANGED <<late, back, skew, ends>>
    BY <1>10 DEF Report
  <2> QED  BY <1>9, <2>3, <2>4, <2>5
<1>11. ASSUME NEW i \in Requests, LateReport(i)
       PROVE  Goal
  <2>1. request[i] \in RequestRecords /\ "completed" \in Final
    BY <1>11, RequestsType DEF LateReport, ClaimsInv, Final
  <2>2. UNCHANGED node \/ Complete(i, "completed")
    BY <1>11 DEF LateReport
  <2>3. \A g \in Gateways : /\ node'[g].ok = node[g].ok
                            /\ node'[g].at = node[g].at
    BY <2>1, <2>2, CompleteDoes
  <2>4. UNCHANGED <<late, back, skew, ends, worker>>
    BY <1>11 DEF LateReport
  <2> QED  BY <1>9, <2>3, <2>4
<1>12. ASSUME NEW g \in Gateways, NEW ok \in BOOLEAN, back' = After(g, ok)
       PROVE  back \subseteq back' /\ SentNow(g, NewBeat(g, ok))
  BY <1>12 DEF SentNow, NewBeat, Beat, After
<1>13. ASSUME NEW g \in Gateways, NEW ok \in BOOLEAN, Heartbeat(g, ok)
       PROVE  Goal
  <2>1. NewBeat(g, ok) \in Records
    BY NewBeatType
  <2>2. node' = [node EXCEPT ![g] = NewBeat(g, ok)]
    BY <1>13, <2>1, ReceiveIs DEF Heartbeat
  <2>3. back \subseteq back' /\ SentNow(g, NewBeat(g, ok))
    BY <1>12, <1>13 DEF Heartbeat
  <2>4. UNCHANGED <<late, skew, ends, worker>>
    BY <1>13 DEF Heartbeat
  <2>5. \A h \in Gateways : \A b \in Heard(h)' : HeardBefore(h, b)
    BY <2>2, <2>3, <2>4 DEF Heard, HeardBefore, TypeOK
  <2> QED  BY <1>2, <2>3, <2>4, <2>5, FreshKept
<1>14. ASSUME NEW g \in Gateways, DelayHeartbeat(g)
       PROVE  Goal
  <2>1. late' = [late EXCEPT ![g] = @ \cup {NewBeat(g, TRUE)}]
    BY <1>14 DEF DelayHeartbeat
  <2>2. back \subseteq back' /\ SentNow(g, NewBeat(g, TRUE))
    BY <1>12, <1>14 DEF DelayHeartbeat
  <2>3. UNCHANGED <<node, skew, ends, worker>>
    BY <1>14 DEF DelayHeartbeat
  <2>4. \A h \in Gateways : \A b \in Heard(h)' : HeardBefore(h, b)
    BY <2>1, <2>2, <2>3 DEF Heard, HeardBefore, TypeOK
  <2> QED  BY <1>2, <2>2, <2>3, <2>4, FreshKept
<1>15. ASSUME NEW g \in Gateways, LateHeartbeat(g)
       PROVE  Goal
  <2>1. PICK b \in late[g] : /\ node' = [node EXCEPT ![g] = Receive(@, b)]
                             /\ late' = [late EXCEPT ![g] = @ \ {b}]
    BY <1>15 DEF LateHeartbeat
  <2>2. b \in Records /\ node' = [node EXCEPT ![g] = b]
    BY <2>1, ReceiveIs DEF TypeOK
  <2>3. UNCHANGED <<back, skew, ends, worker>>
    BY <1>15 DEF LateHeartbeat
  <2>4. \A h \in Gateways : \A c \in Heard(h)' : HeardBefore(h, c)
    BY <2>1, <2>2 DEF Heard, HeardBefore, TypeOK
  <2> QED  BY <1>2, <2>3, <2>4, FreshKept
<1> QED  BY <1>3, <1>4, <1>5, <1>6, <1>7, <1>8, <1>10, <1>11, <1>13, <1>14,
            <1>15 DEF Next, Step

LEMMA CompletedStep ==
  ASSUME TypeOK, ClaimsInv, FreshInv, CompletedIsBack, RequestsGo, TypeOK',
         back \subseteq back', UNCHANGED skew, Next
  PROVE  CompletedIsBack'
<1> DEFINE Before(i) == i \in Known /\ request[i].status = "completed"
<1>1. ASSUME NEW i \in Known', Before(i), request'[i].by \subseteq Legacy,
             skew'[request'[i].gateway] = 0
      PROVE  CameBack(i)'
  BY <1>1 DEF CompletedIsBack, CameBack, RequestsGo
<1>2. ASSUME NEW i \in Known', request'[i].status = "completed", ~Before(i),
             request'[i].by \subseteq Legacy, skew'[request'[i].gateway] = 0
      PROVE  CameBack(i)'
  <2>1. i \in Requests
    BY DEF Known
  <2>2. \/ \E w \in Workers : Report(w)
        \/ \E k \in Requests : LateReport(k)
    <3>1. UNCHANGED request => Before(i)
      BY <1>2 DEF Known
    <3>2. ASSUME NEW g \in Gateways, NEW s \in AskedScopes, Insert(g, s)
          PROVE  Before(i)
      BY <1>2, <2>1, <3>2, InsertDoes DEF Known
    <3>3. ASSUME NEW w \in Workers, NEW k \in Requests, CommitClaim(w, k)
          PROVE  Before(i)
      BY <1>2, <2>1, <3>3, CommitClaimRequests DEF Known
    <3> QED  BY <1>2, <3>1, <3>2, <3>3
             DEF Next, Step, Ask, DelayHeartbeat, LateHeartbeat, Heartbeat,
                 Poll,
                 Claim, CompleteJob, FailJob, PassHealth, FailHealth, LoseClaim,
                 Restart
  <2>3. ASSUME NEW k \in Requests, NEW o \in Final, Complete(k, o),
               request[k] \in RequestRecords
        PROVE  /\ i = k /\ o = "completed" /\ request'[i].by = request[i].by
               /\ request'[i].gateway = request[i].gateway
    BY <1>2, <2>1, <2>3, CompleteDoes, RequestsType DEF Known
  <2>4. ASSUME NEW k \in Requests, LateReport(k)
        PROVE  FALSE
    <3>1. /\ request[k] \in RequestRecords /\ "completed" \in Final
          /\ ~(request[k].by \subseteq Legacy)
      BY <2>4, RequestsType DEF LateReport, ClaimsInv, Final
    <3>2. Complete(k, "completed")
      BY <1>2, <2>4 DEF LateReport, Known
    <3> QED  BY <1>2, <2>3, <3>1, <3>2
  <2>5. ASSUME NEW w \in Workers, Report(w)
        PROVE  CameBack(i)'
    <3>1. /\ worker[w].outcome \in Final /\ worker[w].id \in Requests
          /\ request[worker[w].id] \in RequestRecords
          /\ w \in request[worker[w].id].by
      BY <2>5, HasRequest DEF Report, Has, ClaimsInv
    <3>2. Complete(worker[w].id, worker[w].outcome)
      BY <1>2, <2>5 DEF Report, Known
    <3>3. /\ i = worker[w].id /\ worker[w].outcome = "completed"
          /\ request'[i].by = request[i].by
          /\ request'[i].gateway = request[i].gateway
      BY <2>3, <3>1, <3>2
    <3>4. w \in Legacy /\ Succeeded(w) /\ worker[w].at = "report"
      BY <1>2, <2>5, <3>1, <3>3 DEF Report, Succeeded
    <3>5. <<w, i>> \in back
      BY <1>2, <3>3, <3>4 DEF FreshInv, Fresh
    <3> QED  BY <3>1, <3>3, <3>5 DEF CameBack
  <2> QED  BY <2>2, <2>4, <2>5
<1> QED  BY <1>1, <1>2 DEF CompletedIsBack

(* While nothing has overlapped: one post for a gateway at a time, and     *)
(* none while a request of it is open; one open request of a gateway; one  *)
(* claim of a request, while it is queued; one worker that has it.         *)
Alike(i, k) == request[i].gateway = request[k].gateway
IsOpen(i) == i \in Known /\ request[i].status \in Open
OneByOne ==
  /\ \A g \in Gateways, s \in AskedScopes : asked[<<g, s>>] > 0 =>
       /\ asked[<<g, s>>] = 1 /\ OpenFor(g) = {}
       /\ \A r \in AskedScopes : asked[<<g, r>>] > 0 => r = s
  /\ \A i, k \in Requests : IsOpen(i) /\ IsOpen(k) /\ Alike(i, k) => i = k
  /\ \A w, x \in Workers, i \in Requests : <<w, i>> \in claims =>
       request[i].status = "queued" /\ (<<x, i>> \in claims => x = w)
  /\ \A w \in Workers : Has(w) =>
       /\ request[worker[w].id].status = "running"
       /\ request[worker[w].id].by = {w}
       /\ worker[w].id \notin reports
TurnInv == ~raced => OneByOne

(* A step that opens no request, makes no claim, and gives no request to a *)
(* worker leaves this as it is, as long as no request that a worker has is *)
(* closed.                                                                 *)
LEMMA TurnKept ==
  ASSUME TypeOK, ClaimsInv, OneByOne, RequestsGo, TypeOK',
         UNCHANGED asked, Known' = Known, claims' \subseteq claims,
         \A i \in Known : IsOpen(i)' => IsOpen(i),
         \A w \in Workers, i \in Requests :
           <<w, i>> \in claims' => request'[i].status = request[i].status,
         \A w \in Workers : Has(w)' =>
           /\ Has(w) /\ worker'[w].id = worker[w].id
           /\ request'[worker[w].id] = request[worker[w].id]
           /\ worker[w].id \in reports' => worker[w].id \in reports
  PROVE  OneByOne'
<1>1. \A g \in Gateways : OpenFor(g)' \subseteq OpenFor(g)
  BY DEF OpenFor, IsOpen, RequestsGo
<1>2. \A g \in Gateways, s \in AskedScopes : asked'[<<g, s>>] > 0 =>
        /\ asked'[<<g, s>>] = 1 /\ OpenFor(g)' = {}
        /\ \A r \in AskedScopes : asked'[<<g, r>>] > 0 => r = s
  BY <1>1 DEF OneByOne
<1>3. \A i, k \in Requests : IsOpen(i)' /\ IsOpen(k)' /\ Alike(i, k)' => i = k
  BY DEF OneByOne, IsOpen, Alike, RequestsGo
<1>4. \A w, x \in Workers, i \in Requests : <<w, i>> \in claims' =>
        request'[i].status = "queued" /\ (<<x, i>> \in claims' => x = w)
  BY DEF OneByOne
<1>5. \A w \in Workers : Has(w)' =>
        /\ request'[worker'[w].id].status = "running"
        /\ request'[worker'[w].id].by = {w}
        /\ worker'[w].id \notin reports'
  BY DEF OneByOne
<1> QED  BY <1>2, <1>3, <1>4, <1>5 DEF OneByOne

LEMMA TurnStep ==
  ASSUME TypeOK, ClaimsInv, ListsKnown, TurnInv, RequestsGo, TypeOK', Next
  PROVE  TurnInv'
<1>1. raced => raced'
  <2>1. ASSUME NEW w \in Workers, Claim(w)
        PROVE  raced => raced'
    BY <2>1, ClaimDoes DEF TypeOK
  <2> QED  BY <2>1 DEF Next, Step, Ask, Insert, DelayHeartbeat, LateHeartbeat,
                  Heartbeat, CommitClaim, Poll, CompleteJob, FailJob,
                  PassHealth,
                  FailHealth, Report, LoseClaim, Restart, LateReport, TypeOK
<1> SUFFICES ASSUME ~raced', ~raced, OneByOne
             PROVE  OneByOne'
  BY <1>1 DEF TurnInv
<1>2. ASSUME UNCHANGED <<asked, request, claims, reports, worker>>
      PROVE  OneByOne'
  BY <1>2 DEF OneByOne, IsOpen, Known, Alike, OpenFor, Has
<1>3. ASSUME NEW w \in Workers, NEW m, worker'[w] = m,
             \A x \in Workers \ {w} : worker'[x] = worker[x],
             \/ m.at \in {"idle", "claiming"}
             \/ Has(w) /\ m.id = worker[w].id,
             UNCHANGED <<asked, request, claims, reports>>
      PROVE  OneByOne'
  <2>1. /\ Known' = Known /\ \A i \in Known : IsOpen(i)' <=> IsOpen(i)
    BY <1>3 DEF Known, IsOpen
  <2>2. \A x \in Workers : Has(x)' => Has(x) /\ worker'[x].id = worker[x].id
    BY <1>3 DEF Has
  <2> QED  BY <1>3, <2>1, <2>2, TurnKept
<1>4. ASSUME NEW g \in Gateways, NEW s \in AskedScopes, Ask(g, s)
      PROVE  OneByOne'
  <2>1. /\ OpenFor(g) = {} /\ ~Asked(g)
        /\ asked' = [asked EXCEPT ![<<g, s>>] = @ + 1]
        /\ UNCHANGED <<request, claims, reports, worker>>
    BY <1>4 DEF Ask
  <2>2. \A r \in AskedScopes : asked[<<g, r>>] = 0
    <3>1. \A r \in AskedScopes : asked[<<g, r>>] \in Nat
      BY DEF TypeOK
    <3> QED  BY <2>1, <3>1 DEF Asked
  <2>3. /\ asked'[<<g, s>>] = 1
        /\ \A h \in Gateways, r \in AskedScopes :
             <<h, r>> # <<g, s>> => asked'[<<h, r>>] = asked[<<h, r>>]
    BY <2>1, <2>2 DEF TypeOK
  <2>4. \A h \in Gateways : OpenFor(h)' = OpenFor(h)
    BY <2>1 DEF OpenFor, Known
  <2>5. \A h \in Gateways, r \in AskedScopes : asked'[<<h, r>>] > 0 =>
          /\ asked'[<<h, r>>] = 1 /\ OpenFor(h)' = {}
          /\ \A q \in AskedScopes : asked'[<<h, q>>] > 0 => q = r
    <3> SUFFICES ASSUME NEW h \in Gateways, NEW r \in AskedScopes,
                        asked'[<<h, r>>] > 0
                 PROVE  /\ asked'[<<h, r>>] = 1 /\ OpenFor(h)' = {}
                        /\ \A q \in AskedScopes : asked'[<<h, q>>] > 0 => q = r
      OBVIOUS
    <3>1. CASE h = g
      <4>1. \A q \in AskedScopes \ {s} : asked'[<<g, q>>] = 0
        BY <2>2, <2>3
      <4> QED  BY <2>1, <2>3, <2>4, <3>1, <4>1
    <3>2. CASE h # g
      BY <2>3, <2>4, <3>2 DEF OneByOne
    <3> QED  BY <3>1, <3>2
  <2> QED  BY <2>1, <2>5 DEF OneByOne, IsOpen, Known, Alike, Has
<1>5. ASSUME NEW g \in Gateways, NEW s \in AskedScopes, Insert(g, s)
      PROVE  OneByOne'
  <2>1. PICK i \in Requests \ Known :
          /\ \A k \in Requests \ {i} : request'[k] = request[k]
          /\ request'[i] \in RequestRecords
          /\ request'[i].status = "queued" /\ request'[i].by = {}
          /\ request'[i].gateway = g
    BY <1>5, InsertDoes
  <2>2. /\ asked[<<g, s>>] > 0
        /\ asked' = [asked EXCEPT ![<<g, s>>] = @ - 1]
        /\ UNCHANGED <<claims, reports, worker>>
    BY <1>5 DEF Insert
  <2>3. /\ OpenFor(g) = {} /\ asked[<<g, s>>] = 1
        /\ \A r \in AskedScopes \ {s} : ~(asked[<<g, r>>] > 0)
    BY <2>2 DEF OneByOne
  <2>4. \A r \in AskedScopes : ~(asked'[<<g, r>>] > 0)
    BY <2>2, <2>3 DEF TypeOK
  <2>5. \A h \in Gateways \ {g}, r \in AskedScopes :
          asked'[<<h, r>>] = asked[<<h, r>>]
    BY <2>2 DEF TypeOK
  <2>6. /\ Known' = Known \cup {i}
        /\ \A k \in Known : request'[k] = request[k]
    BY <2>1, NoRequestAssumption DEF Known
  <2>7. \A h \in Gateways \ {g} : OpenFor(h)' = OpenFor(h)
    BY <2>1, <2>6 DEF OpenFor
  <2>8. \A h \in Gateways, r \in AskedScopes : asked'[<<h, r>>] > 0 =>
          /\ asked'[<<h, r>>] = 1 /\ OpenFor(h)' = {}
          /\ \A q \in AskedScopes : asked'[<<h, q>>] > 0 => q = r
    BY <2>4, <2>5, <2>7 DEF OneByOne
  <2>9. \A k, l \in Requests : IsOpen(k)' /\ IsOpen(l)' /\ Alike(k, l)' => k = l
    <3>1. \A k \in Known : IsOpen(k)' => IsOpen(k) /\ request'[k].gateway # g
      BY <2>3, <2>6 DEF IsOpen, OpenFor
    <3>2. \A k, l \in Known : IsOpen(k)' /\ IsOpen(l)' /\ Alike(k, l)' => k = l
      BY <2>6, <3>1 DEF OneByOne, Alike, Known
    <3> QED  BY <2>1, <2>6, <3>1, <3>2 DEF IsOpen, Alike
  <2>10. \A w \in Workers, k \in Requests :
           <<w, k>> \in claims => k \in Known
    BY DEF ClaimsInv
  <2>11. \A w, x \in Workers, k \in Requests : <<w, k>> \in claims' =>
           request'[k].status = "queued" /\ (<<x, k>> \in claims' => x = w)
    BY <2>2, <2>6, <2>10 DEF OneByOne
  <2>12. \A w \in Workers : Has(w)' =>
           /\ request'[worker'[w].id].status = "running"
           /\ request'[worker'[w].id].by = {w}
           /\ worker'[w].id \notin reports'
    BY <2>2, <2>6 DEF OneByOne, ClaimsInv, Has
  <2> QED  BY <2>8, <2>9, <2>11, <2>12 DEF OneByOne
<1>6. ASSUME NEW w \in Workers, NEW i \in Requests, CommitClaim(w, i)
      PROVE  OneByOne'
  <2>1. /\ \A k \in Requests \ {i} : request'[k] = request[k]
        /\ i \in Known /\ request'[i] \in RequestRecords
        /\ request'[i].status = "running"
        /\ request'[i].by = request[i].by \cup {w}
        /\ request'[i].gateway = request[i].gateway
    BY <1>6, CommitClaimRequests
  <2>2. /\ <<w, i>> \in claims /\ claims' = claims \ {<<w, i>>}
        /\ UNCHANGED <<asked, reports>>
    BY <1>6 DEF CommitClaim
  <2>3. /\ request[i].status = "queued" /\ request[i].by = {}
        /\ \A x \in Workers : <<x, i>> \notin claims'
    BY <2>1, <2>2 DEF OneByOne, ClaimsInv
  <2>4. i \notin reports
    BY <2>3 DEF ClaimsInv
  <2>5. Known' = Known /\ \A k \in Requests : IsOpen(k)' <=> IsOpen(k)
    BY <2>1, <2>3, NoRequestAssumption DEF Known, IsOpen, Open
  <2>6. \A k \in Known : request'[k].gateway = request[k].gateway
    BY <2>1 DEF Known
  <2>7. \A g \in Gateways : OpenFor(g)' = OpenFor(g)
    BY <2>5, <2>6 DEF OpenFor, IsOpen, Known
  <2>8. \A g \in Gateways, s \in AskedScopes : asked'[<<g, s>>] > 0 =>
          /\ asked'[<<g, s>>] = 1 /\ OpenFor(g)' = {}
          /\ \A r \in AskedScopes : asked'[<<g, r>>] > 0 => r = s
    BY <2>2, <2>7 DEF OneByOne
  <2>9. \A k, l \in Requests : IsOpen(k)' /\ IsOpen(l)' /\ Alike(k, l)' => k = l
    BY <2>5, <2>6 DEF OneByOne, IsOpen, Alike
  <2>10. \A x, y \in Workers, k \in Requests : <<x, k>> \in claims' =>
           request'[k].status = "queued" /\ (<<y, k>> \in claims' => x = y)
    BY <2>1, <2>2, <2>3 DEF OneByOne
  <2>11. \A x \in Workers : Has(x) => worker[x].id # i
    BY <2>3 DEF OneByOne
  <2>12. \A x \in Workers : Has(x)' =>
           \/ x = w /\ worker'[x].id = i
           \/ Has(x) /\ worker'[x].id = worker[x].id
    <3>1. [worker[w] EXCEPT !.at = "job"].id = worker[w].id
      BY DEF TypeOK, WorkerStates
    <3> QED  BY <1>6, <3>1, CommitClaimDoes DEF Goes, Has
  <2>13. \A x \in Workers : Has(x)' =>
           /\ request'[worker'[x].id].status = "running"
           /\ request'[worker'[x].id].by = {x}
           /\ worker'[x].id \notin reports'
    <3> SUFFICES ASSUME NEW x \in Workers, Has(x)'
                 PROVE  /\ request'[worker'[x].id].status = "running"
                        /\ request'[worker'[x].id].by = {x}
                        /\ worker'[x].id \notin reports'
      OBVIOUS
    <3>1. CASE x = w /\ worker'[x].id = i
      BY <2>1, <2>2, <2>3, <2>4, <3>1
    <3>2. CASE Has(x) /\ worker'[x].id = worker[x].id
      <4>1. worker[x].id \in Requests \ {i}
        BY <2>11, <3>2, HasRequest
      <4> QED  BY <2>1, <2>2, <3>2, <4>1 DEF OneByOne
    <3> QED  BY <2>12, <3>1, <3>2
  <2> QED  BY <2>8, <2>9, <2>10, <2>13 DEF OneByOne
<1>7. ASSUME NEW w \in Workers, Claim(w)
      PROVE  OneByOne'
  <2>1. UNCHANGED <<asked, request, reports>>
    BY <1>7 DEF Claim
  <2>2. PICK i \in worker[w].list, m \in WorkerStates :
          /\ i \in Requests /\ Goes(w, m) /\ m.at \in {"idle", "claiming"}
          /\ \/ UNCHANGED claims
             \/ /\ request[i].status = "queued"
                /\ claims' = claims \cup {<<w, i>>}
                /\ raced' = (raced \/ \E c \in claims : c[2] = i)
    BY <1>7, ClaimDoes
  <2>3. worker'[w] = m /\ \A x \in Workers \ {w} : worker'[x] = worker[x]
    BY <2>2 DEF Goes
  <2>4. CASE UNCHANGED claims
    BY <1>3, <2>1, <2>2, <2>3, <2>4
  <2>5. CASE /\ request[i].status = "queued" /\ claims' = claims \cup {<<w, i>>}
             /\ raced' = (raced \/ \E c \in claims : c[2] = i)
    <3>1. \A x \in Workers : <<x, i>> \notin claims
      BY <2>5
    <3>2. \A x, y \in Workers, k \in Requests : <<x, k>> \in claims' =>
            request'[k].status = "queued" /\ (<<y, k>> \in claims' => y = x)
      BY <2>1, <2>5, <3>1 DEF OneByOne
    <3>3. \A x \in Workers : Has(x)' => Has(x) /\ worker'[x] = worker[x]
      BY <2>2, <2>3 DEF Has
    <3> QED  BY <2>1, <3>2, <3>3 DEF OneByOne, IsOpen, Known, Alike, OpenFor
  <2> QED  BY <2>2, <2>4, <2>5
<1>8. ASSUME NEW w \in Workers,
             \/ Poll(w) \/ LoseClaim(w) \/ Restart(w)
             \/ CompleteJob(w) \/ FailJob(w) \/ PassHealth(w) \/ FailHealth(w)
      PROVE  OneByOne'
  <2>1. UNCHANGED <<asked, request, claims, reports>>
    BY <1>8 DEF Poll, LoseClaim, Restart, CompleteJob, FailJob, PassHealth,
                FailHealth
  <2>2. CompleteJob(w) => request[worker[w].id].gateway \in Gateways
    BY HasRequest DEF CompleteJob, Has
  <2>3. Poll(w) => [worker[w] EXCEPT !.list = Queued].at = "idle"
    BY DEF Poll, TypeOK, WorkerStates
  <2>4. \E m \in WorkerStates :
          /\ Goes(w, m)
          /\ \/ m.at \in {"idle", "claiming"}
             \/ Has(w) /\ m.id = worker[w].id
    BY <1>8, <2>2, <2>3, PollDoes, LoseClaimDoes, RestartDoes, IdleType,
       CompleteJobDoes, FailJobDoes, PassHealthDoes, FailHealthDoes, ZenonT(60)
       DEF HasStill, Goes
  <2> QED  BY <1>3, <2>1, <2>4 DEF Goes
<1>9. ASSUME NEW k \in Requests, NEW o \in Final, request[k] \in RequestRecords,
             request[k].by # {},
             Complete(k, o) \/ UNCHANGED <<request, node>>,
             UNCHANGED <<asked, claims>>,
             \A x \in Workers : Has(x)' =>
               /\ Has(x) /\ worker'[x].id = worker[x].id /\ worker[x].id # k
               /\ worker[x].id \in reports' => worker[x].id \in reports
      PROVE  OneByOne'
  <2>1. /\ \A i \in Requests \ {k} : request'[i] = request[i]
        /\ Known' = Known
        /\ \A i \in Known : IsOpen(i)' => IsOpen(i)
    <3>1. CASE UNCHANGED <<request, node>>
      BY <3>1 DEF Known, IsOpen
    <3>2. CASE Complete(k, o)
      BY <1>9, <3>2, CompleteDoes, NoRequestAssumption
         DEF Known, IsOpen, Final, Open
    <3> QED  BY <1>9, <3>1, <3>2
  <2>2. \A w \in Workers : <<w, k>> \notin claims
    BY <1>9 DEF OneByOne, ClaimsInv
  <2>3. \A w \in Workers, i \in Requests :
          <<w, i>> \in claims' => request'[i].status = request[i].status
    BY <1>9, <2>1, <2>2
  <2>4. \A w \in Workers : Has(w) => worker[w].id \in Requests
    BY HasRequest
  <2> QED  BY <1>9, <2>1, <2>3, <2>4, TurnKept
<1>10. ASSUME NEW w \in Workers, Report(w)
       PROVE  OneByOne'
  <2>1. /\ worker[w].outcome \in Final /\ worker[w].id \in Requests
        /\ request[worker[w].id] \in RequestRecords
        /\ w \in request[worker[w].id].by
    BY <1>10, HasRequest DEF Report, Has, ClaimsInv
  <2>2. PICK k \in Requests, o \in Final :
          k = worker[w].id /\ o = worker[w].outcome
    BY <2>1
  <2>3. /\ UNCHANGED <<asked, claims>> /\ Has(w)
        /\ \/ reports' = reports \cup {k} /\ UNCHANGED <<request, node>>
           \/ UNCHANGED reports /\ Complete(k, o)
           \/ UNCHANGED <<reports, request, node>>
    BY <1>10, <2>2 DEF Report, Has
  <2>4. ~Has(w)' /\ \A x \in Workers \ {w} : worker'[x] = worker[x]
    BY <1>10, ReportDoes DEF Goes, Has
  <2>5. \A x \in Workers \ {w} : Has(x) => worker[x].id # k
    BY <2>2, <2>3 DEF OneByOne
  <2>6. \A x \in Workers : Has(x)' =>
          /\ Has(x) /\ worker'[x].id = worker[x].id /\ worker[x].id # k
          /\ worker[x].id \in reports' => worker[x].id \in reports
    BY <2>3, <2>4, <2>5 DEF Has
  <2> QED  BY <1>9, <2>1, <2>2, <2>3, <2>6
<1>11. ASSUME NEW i \in Requests, LateReport(i)
       PROVE  OneByOne'
  <2>1. /\ request[i] \in RequestRecords /\ request[i].by # {}
        /\ "completed" \in Final
    BY <1>11, RequestsType DEF LateReport, ClaimsInv, Final
  <2>2. /\ UNCHANGED <<asked, claims, worker>> /\ reports' \subseteq reports
        /\ Complete(i, "completed") \/ UNCHANGED <<request, node>>
    BY <1>11 DEF LateReport
  <2>3. \A x \in Workers : Has(x)' =>
          /\ Has(x) /\ worker'[x].id = worker[x].id /\ worker[x].id # i
          /\ worker[x].id \in reports' => worker[x].id \in reports
    BY <1>11, <2>2 DEF OneByOne, LateReport, Has
  <2> QED  BY <1>9, <2>1, <2>2, <2>3
<1>12. CASE \/ \E g \in Gateways : DelayHeartbeat(g) \/ LateHeartbeat(g)
            \/ \E g \in Gateways, ok \in BOOLEAN : Heartbeat(g, ok)
  BY <1>2, <1>12 DEF DelayHeartbeat, LateHeartbeat, Heartbeat
<1> QED  BY <1>4, <1>5, <1>6, <1>7, <1>8, <1>10, <1>11, <1>12 DEF Next, Step

(* What every reachable state of the updates satisfies.                    *)
UpdatesInv ==
  /\ TypeOK /\ ClaimsInv /\ ListsKnown
  /\ HaltInv /\ FreshInv /\ CompletedIsBack /\ TurnInv

LEMMA UpdatesInitInv ==
  ASSUME Init
  PROVE  UpdatesInv
<1> USE UpdatesAssumption DEF Init
<1>1. First \in Versions
  BY DEF First
<1>2. \A g \in Gateways :
        /\ node[g] = Beat(First, TRUE, Never, skew[g]) /\ node[g] \in Records
        /\ node[g].at = skew[g] /\ skew[g] \in Nat
  <2> SUFFICES ASSUME NEW g \in Gateways
               PROVE  /\ node[g] = Beat(First, TRUE, Never, skew[g])
                      /\ node[g] \in Records
                      /\ node[g].at = skew[g] /\ skew[g] \in Nat
    OBVIOUS
  <2>1. skew[g] \in Nat
    OBVIOUS
  <2>2. Beat(First, TRUE, Never, skew[g]) \in Records
    BY <1>1, <2>1 DEF Beat, Records, Marks, Time, Never
  <2> QED  BY <2>1, <2>2, ReceiveIs DEF Beat
<1>3. TypeOK
  <2>1. worker \in [Workers -> WorkerStates]
    BY IdleType
  <2>2. asked \in [Gateways \X AskedScopes -> Nat]
    OBVIOUS
  <2>3. node \in [Gateways -> Records] /\ late \in [Gateways -> SUBSET Records]
    BY <1>2
  <2>4. host \in [Gateways -> [agent : Versions, ui : Versions]]
    BY <1>1
  <2>5. request \in [Requests -> RequestRecords \cup {NoRequest}]
    OBVIOUS
  <2>6. skew \in [Gateways -> Skews] /\ ends \in [Gateways -> Nat]
    OBVIOUS
  <2>7. results \in [Workers -> Seq(Final)]
    OBVIOUS
  <2> QED  BY <2>1, <2>2, <2>3, <2>4, <2>5, <2>6, <2>7 DEF TypeOK
<1>4. Known = {} /\ \A w \in Workers : worker[w] = Idle /\ results[w] = <<>>
  BY DEF Known
<1>5. ClaimsInv /\ ListsKnown
  BY <1>4, IdleType DEF ClaimsInv, ListsKnown, Has, Succeeded
<1>6. HaltInv
  <2>1. \A w \in Workers : \A k \in 1..(Len(results[w]) - HaltAfter) : FALSE
    BY <1>4
  <2>2. \A w \in Workers : CountsFailures(w)
    BY <1>4, IdleType DEF CountsFailures
  <2> QED  BY <2>1, <2>2 DEF HaltInv, BadReleaseIsHeld
<1>7. FreshInv
  <2>1. \A g \in Gateways : skew[g] = 0 => \A b \in Heard(g) : b.at <= ends[g]
    <3> SUFFICES ASSUME NEW g \in Gateways, skew[g] = 0, NEW b \in Heard(g)
                 PROVE  b.at <= ends[g]
      OBVIOUS
    <3>1. late[g] = {} /\ ends[g] = 0
      OBVIOUS
    <3>2. b = node[g]
      BY <3>1 DEF Heard
    <3> HIDE DEF Init
    <3>3. b.at = 0
      BY <1>2, <3>2
    <3> QED  BY <3>1, <3>3
  <2>2. \A w \in Legacy : Fresh(w)
    BY <1>4, IdleType DEF Fresh, Succeeded, Workers
  <2> QED  BY <2>1, <2>2 DEF FreshInv
<1>8. CompletedIsBack
  BY <1>4 DEF CompletedIsBack
<1>9. TurnInv
  BY <1>4, IdleType DEF TurnInv, OneByOne, IsOpen, Has
<1> QED  BY <1>3, <1>5, <1>6, <1>7, <1>8, <1>9 DEF UpdatesInv

(* Every step of the posts, the workers, the gateways and their heartbeats *)
(* keeps the invariant: types, claims, lists, failures, freshness and, as  *)
(* long as no claims or posts have overlapped, turns.                      *)
THEOREM UpdatesInvHolds == Spec => []UpdatesInv
<1>1. ASSUME UpdatesInv, [Next]_vars
      PROVE  UpdatesInv'
  <2>1. CASE Next
    <3>1. TypeOK'
      BY <1>1, <2>1, TypeStep DEF UpdatesInv
    <3>2. ClaimsInv' /\ RequestsGo
      BY <1>1, <2>1, <3>1, ClaimsStep DEF UpdatesInv
    <3>3. ListsKnown' /\ HaltInv' /\ TurnInv'
      BY <1>1, <2>1, <3>1, <3>2, ListsStep, HaltStep, TurnStep DEF UpdatesInv
    <3>4. FreshInv' /\ CompletedIsBack'
      BY <1>1, <2>1, <3>1, <3>2, FreshStep, CompletedStep DEF UpdatesInv
    <3> QED  BY <3>1, <3>2, <3>3, <3>4 DEF UpdatesInv
  <2>2. CASE UNCHANGED vars
    <3> USE <2>2 DEF vars
    <3>1. TypeOK' /\ Known' = Known
      BY <1>1 DEF UpdatesInv, TypeOK, Known
    <3>2. ClaimsInv' /\ ListsKnown'
      BY <1>1, <3>1 DEF UpdatesInv, ClaimsInv, ListsKnown, Has, Succeeded
    <3>3. HaltInv'
      BY <1>1 DEF UpdatesInv, HaltInv, BadReleaseIsHeld, CountsFailures
    <3>4. FreshInv'
      BY <1>1 DEF UpdatesInv, FreshInv, Heard, Fresh, Proves, Succeeded
    <3>5. CompletedIsBack'
      BY <1>1, <3>1 DEF UpdatesInv, CompletedIsBack, CameBack
    <3>6. TurnInv'
      BY <1>1, <3>1 DEF UpdatesInv, TurnInv, OneByOne, IsOpen, Alike, OpenFor,
                        Has
    <3> QED  BY <3>1, <3>2, <3>3, <3>4, <3>5, <3>6 DEF UpdatesInv
  <2> QED  BY <1>1, <2>1, <2>2
<1> QED  BY <1>1, UpdatesInitInv, PTL DEF Spec

(* What the older updater reports as completed has come back: whatever was *)
(* delayed, its wait for health is never satisfied by a heartbeat that was *)
(* sent before the job, unless the gateway's clock is ahead.               *)
THEOREM CompletedTheorem == Spec => []CompletedIsBack
<1>1. UpdatesInv => CompletedIsBack
  BY DEF UpdatesInv
<1> QED  BY <1>1, UpdatesInvHolds, PTL

(* Stop the line: once HaltAfter updates in a row have failed, a worker    *)
(* has no further outcome until it is started again.                       *)
THEOREM ReleaseTheorem == Spec => []BadReleaseIsHeld
<1>1. UpdatesInv => BadReleaseIsHeld
  BY DEF UpdatesInv, HaltInv
<1> QED  BY <1>1, UpdatesInvHolds, PTL

(* Two workers update one gateway at the same time only if two posts or    *)
(* two claims overlapped in the cloud.                                     *)
THEOREM OneUpdateTheorem == Spec => []OneUpdateAtATime
<1>1. ASSUME UpdatesInv
      PROVE  OneUpdateAtATime
  <2> SUFFICES ASSUME NEW g \in Gateways, ~raced
               PROVE  Cardinality(Working(g)) <= 1
    BY DEF OneUpdateAtATime
  <2>1. \A w, x \in Working(g) : w = x
    <3> SUFFICES ASSUME NEW w \in Working(g), NEW x \in Working(g)
                 PROVE  w = x
      OBVIOUS
    <3>1. /\ w \in Workers /\ Has(w) /\ x \in Workers /\ Has(x)
          /\ Alike(worker[w].id, worker[x].id)
      BY DEF Working, Has, Alike
    <3>2. /\ IsOpen(worker[w].id) /\ worker[w].id \in Requests
          /\ IsOpen(worker[x].id) /\ worker[x].id \in Requests
          /\ request[worker[w].id].by = {w} /\ request[worker[x].id].by = {x}
      BY <1>1, <3>1, HasRequest
         DEF UpdatesInv, ClaimsInv, TurnInv, OneByOne, IsOpen, Open
    <3>3. worker[w].id = worker[x].id
      BY <1>1, <3>1, <3>2 DEF UpdatesInv, TurnInv, OneByOne
    <3> QED  BY <3>2, <3>3
  <2>2. CASE Working(g) = {}
    BY <2>2, FS_EmptySet
  <2>3. ASSUME NEW w \in Working(g)
        PROVE  Cardinality(Working(g)) <= 1
    <3>1. Working(g) = {w}
      BY <2>1
    <3> QED  BY <3>1, FS_Singleton
  <2> QED  BY <2>2, <2>3
<1> QED  BY <1>1, UpdatesInvHolds, PTL

-------------------------------------------------------------------------------
(* The alerts about a gateway. *)

(* What the operator knows when he was told last of this row.              *)
WordOf(r) == IF r.active THEN "alert" ELSE "recovered"

(* An evaluation that has told something of a type and not committed yet.  *)
Telling(e, t) == run[e].on /\ t \in ToldBy(e)

(* An evaluation that nobody has overtaken has read the row that is there, *)
(* and has decided nothing about what it has yet to look at.               *)
ReadsAreCurrent ==
  \A e \in Evaluations, t \in Types : run[e].on =>
    /\ t \notin run[e].over => run[e].old[t] = row[t]
    /\ t \in run[e].left => run[e].new[t] = run[e].old[t]

(* The last word is the row's; while one evaluation alone has told         *)
(* something that it will commit, it is that one's.  Of two that have, the *)
(* one that commits first overtakes the other.                             *)
LastWordIsKnown ==
  \A t \in Types \ untrue :
    /\ (\A e \in Evaluations : ~Telling(e, t)) =>
         (row[t].notified => told[t] = WordOf(row[t]))
    /\ \A e \in Evaluations :
         /\ Telling(e, t) /\ t \notin run[e].over
         /\ \A d \in Evaluations : Telling(d, t) => d = e
         => told[t] = WordOf(run[e].new[t])

(* What every reachable state of the alerts satisfies.                     *)
AlertsInv == AlertsTypeOK /\ ReadsAreCurrent /\ LastWordIsKnown

RestUnchanged == UNCHANGED <<row, run, told, untrue>>

LEMMA RestKeeps ==
  ASSUME AlertsInv, AlertsTypeOK', RestUnchanged
  PROVE  AlertsInv'
  BY DEF AlertsInv, RestUnchanged, ReadsAreCurrent, LastWordIsKnown, Telling,
         ToldBy

LEMMA SendHeartbeatKeeps ==
  ASSUME AlertsInv, NEW oldest \in {Never, 0}, SendHeartbeat(oldest)
  PROVE  AlertsInv'
<1> USE AlertsAssumption DEF AlertsInv, AlertsTypeOK
<1>1. clock \in Nat /\ beats' \in 0..MaxBeats
  BY DEF SendHeartbeat
<1>2. Beat(Agent0, TRUE, oldest, clock) \in Records
  BY <1>1 DEF Beat, Records, Marks, Time, Never
<1>3. record' \in Records
  BY <1>2 DEF SendHeartbeat, Receive, Records
<1>4. AlertsTypeOK' /\ RestUnchanged
  BY <1>1, <1>3 DEF SendHeartbeat, RestUnchanged
<1> QED  BY <1>4, RestKeeps

LEMMA OutsideKeeps ==
  ASSUME AlertsInv,
         \/ Tick \/ Provision \/ EnableWebhook
         \/ \E c \in Credentials : InstallToken(c) \/ Revoke(c)
  PROVE  AlertsInv'
<1> USE AlertsAssumption DEF AlertsInv, AlertsTypeOK
<1>1. CASE Tick
  <2>1. AlertsTypeOK' /\ RestUnchanged
    BY <1>1 DEF Tick, RestUnchanged
  <2> QED  BY <2>1, RestKeeps
<1>2. CASE Provision
  <2>1. record' \in Records
    BY <1>2 DEF Provision, Reprovisioned, Records, Marks
  <2>2. AlertsTypeOK' /\ RestUnchanged
    BY <1>2, <2>1 DEF Provision, RestUnchanged
  <2> QED  BY <2>2, RestKeeps
<1>3. CASE EnableWebhook
  <2>1. AlertsTypeOK' /\ RestUnchanged
    BY <1>3 DEF EnableWebhook, RestUnchanged
  <2> QED  BY <2>1, RestKeeps
<1>4. ASSUME NEW c \in Credentials, InstallToken(c)
      PROVE  AlertsInv'
  <2>1. AlertsTypeOK' /\ RestUnchanged
    BY <1>4 DEF InstallToken, RestUnchanged
  <2> QED  BY <2>1, RestKeeps
<1>5. ASSUME NEW c \in Credentials, Revoke(c)
      PROVE  AlertsInv'
  <2>1. AlertsTypeOK' /\ RestUnchanged
    BY <1>5 DEF Revoke, RestUnchanged
  <2> QED  BY <2>1, RestKeeps
<1> QED  BY <1>1, <1>2, <1>3, <1>4, <1>5

LEMMA RestingType ==
  /\ Resting \in Runs /\ ~Resting.on /\ Resting.left = {}
<1> USE AlertsAssumption
<1>1. NoRow \in Rows
  BY DEF NoRow, Rows
<1>2. Preprovisioned(Agent0, Agent0) \in Records
  BY DEF Preprovisioned, Records, Marks, Time, Never
<1> QED  BY <1>1, <1>2 DEF Resting, Runs

LEMMA StartKeeps ==
  ASSUME AlertsInv, NEW e \in Evaluations, StartEvaluation(e)
  PROVE  AlertsInv'
<1> USE AlertsAssumption DEF AlertsInv, AlertsTypeOK
<1> DEFINE new == [on |-> TRUE, now |-> clock, seen |-> record,
             hook |-> webhook, left |-> Types, old |-> row, new |-> row,
             tries |-> 0, over |-> {}]
<1>1. /\ run' = [run EXCEPT ![e] = new] /\ ~run[e].on
      /\ UNCHANGED <<row, told, untrue>>
  BY DEF StartEvaluation
<1>2. new \in Runs
  BY DEF Runs
<1>3. trouble' \in 0..MaxTrouble
  BY DEF StartEvaluation
<1>4. AlertsTypeOK'
  BY <1>1, <1>2, <1>3 DEF StartEvaluation
<1>5. ReadsAreCurrent'
  BY <1>1, <1>2 DEF ReadsAreCurrent, Runs
<1>6. \A t \in Types, d \in Evaluations :
        /\ Telling(d, t)' <=> Telling(d, t)
        /\ Telling(d, t) => run'[d] = run[d]
  <2> SUFFICES ASSUME NEW t \in Types, NEW d \in Evaluations
               PROVE  /\ Telling(d, t)' <=> Telling(d, t)
                      /\ Telling(d, t) => run'[d] = run[d]
    OBVIOUS
  <2>1. CASE d = e
    BY <1>1, <2>1 DEF Telling, ToldBy
  <2>2. CASE d # e
    BY <1>1, <2>2 DEF Telling, ToldBy
  <2> QED  BY <2>1, <2>2
<1>7. LastWordIsKnown'
  BY <1>1, <1>6 DEF LastWordIsKnown
<1> QED  BY <1>4, <1>5, <1>7

(* The step of Process: type t is done, and its row will be s.             *)
TypeDone(e, t, s) ==
  /\ run' \in [Evaluations -> Runs] /\ ReadsAreCurrent'
  /\ \A d \in Evaluations : run'[d].over = run[d].over
  /\ \A d \in Evaluations, u \in Types : <<d, u>> # <<e, t>> =>
        /\ Telling(d, u)' <=> Telling(d, u)
        /\ run'[d].new[u] = run[d].new[u]
  /\ run'[e].new[t] = s /\ run'[e].on
  /\ run'[e].old[t] = run[e].old[t] /\ run[e].new[t] = run[e].old[t]

LEMMA ProcessType ==
  ASSUME AlertsInv, NEW e \in Evaluations, run[e].on,
         NEW t \in run[e].left, NEW s \in Rows, NEW n \in Nat,
         run' = [run EXCEPT ![e].left = @ \ {t}, ![e].new[t] = s,
                            ![e].tries = @ + n],
         UNCHANGED row
  PROVE  TypeDone(e, t, s)
<1> USE DEF AlertsInv, AlertsTypeOK
<1> DEFINE rows == [run[e].new EXCEPT ![t] = s]
           new == [run[e] EXCEPT !.left = run[e].left \ {t}, !.new = rows,
                                 !.tries = run[e].tries + n]
<1>1. run[e] \in Runs /\ t \in Types
  BY DEF Runs
<1>2. run' = [run EXCEPT ![e] = new]
  OBVIOUS
<1>3. rows \in [Types -> Rows] /\ run[e].new \in [Types -> Rows]
  BY <1>1 DEF Runs
<1>4. /\ new.on /\ new.over = run[e].over /\ new.old = run[e].old
      /\ new.left = run[e].left \ {t} /\ new.new = rows
  BY <1>1 DEF Runs
<1>11. new \in Runs
  <2> HIDE DEF rows
  <2>1. run[e].left \ {t} \in SUBSET Types /\ run[e].tries + n \in Nat
    BY <1>1 DEF Runs
  <2> QED  BY <1>1, <1>3, <2>1 DEF Runs
<1> HIDE DEF new
<1>5. run'[e] = new /\ \A d \in Evaluations \ {e} : run'[d] = run[d]
  BY <1>2
<1>6. run' \in [Evaluations -> Runs]
  BY <1>2, <1>11
<1>7. ReadsAreCurrent'
  BY <1>1, <1>3, <1>4, <1>5 DEF ReadsAreCurrent
<1>8. \A d \in Evaluations, u \in Types : <<d, u>> # <<e, t>> =>
              /\ Telling(d, u)' <=> Telling(d, u)
              /\ run'[d].new[u] = run[d].new[u]
  BY <1>1, <1>3, <1>4, <1>5, SMTT(60) DEF Telling, ToldBy
<1>9. \A d \in Evaluations : run'[d].over = run[d].over
  BY <1>4, <1>5
<1>10. /\ run'[e].new[t] = s /\ run'[e].on
       /\ run'[e].old[t] = run[e].old[t] /\ run[e].new[t] = run[e].old[t]
  BY <1>1, <1>3, <1>4, <1>5 DEF ReadsAreCurrent
<1> QED  BY <1>6, <1>7, <1>8, <1>9, <1>10 DEF TypeDone

(* The type that Process looks at, the row that it has made of it, and how *)
(* it was told: in no event, or in one of the row's state.                 *)
Looked(e, t, r, n) ==
  /\ run' = [run EXCEPT ![e].left = @ \ {t}, ![e].new[t] = r,
                        ![e].tries = @ + n]
  /\ UNCHANGED <<row, untrue>>

LEMMA TellingMeans ==
  ASSUME NEW e \in Evaluations, NEW t \in Types
  PROVE  LET old == run[e].old[t]
             new == run[e].new[t]
         IN  Telling(e, t) <=> /\ run[e].on /\ new.notified
                               /\ ~old.notified \/ new.active # old.active
  BY DEF Telling, ToldBy

(* The event of a type is put off, or was not delivered, or there is none. *)
LEMMA NothingTold ==
  ASSUME AlertsInv, NEW e \in Evaluations, NEW t \in Types, NEW r \in Rows,
         TypeDone(e, t, r), UNCHANGED <<row, told, untrue>>,
         r.notified => /\ run[e].old[t].notified
                       /\ r.active = run[e].old[t].active
  PROVE  LastWordIsKnown'
<1>1. ~Telling(e, t)'
  BY TellingMeans DEF TypeDone, Telling, ToldBy
<1>2. ~Telling(e, t)
  BY TellingMeans DEF TypeDone
<1>3. \A d \in Evaluations, u \in Types :
        /\ Telling(d, u)' <=> Telling(d, u)
        /\ Telling(d, u) => run'[d].new[u] = run[d].new[u]
  BY <1>1, <1>2 DEF TypeDone
<1> QED  BY <1>3 DEF AlertsInv, TypeDone, LastWordIsKnown

(* The event is told, and the evaluation tells of its type from now on.    *)
LEMMA EventTold ==
  ASSUME AlertsInv, NEW e \in Evaluations, NEW t \in Types, NEW r \in Rows,
         TypeDone(e, t, r), UNCHANGED <<row, untrue>>,
         r.notified,
         ~run[e].old[t].notified \/ r.active # run[e].old[t].active,
         told' = [told EXCEPT ![t] = WordOf(r)]
  PROVE  LastWordIsKnown'
<1>1. Telling(e, t)'
  BY DEF TypeDone, Telling, ToldBy
<1>2. told'[t] = WordOf(r) /\ \A u \in Types \ {t} : told'[u] = told[u]
  BY DEF AlertsInv, AlertsTypeOK
<1> SUFFICES ASSUME NEW u \in Types \ untrue
             PROVE  /\ (\A d \in Evaluations : ~Telling(d, u)') =>
                         (row[u].notified => told'[u] = WordOf(row[u]))
                    /\ \A d \in Evaluations :
                         /\ Telling(d, u)' /\ u \notin run'[d].over
                         /\ \A c \in Evaluations : Telling(c, u)' => c = d
                         => told'[u] = WordOf(run'[d].new[u])
  BY DEF LastWordIsKnown, WordOf
<1>3. CASE u = t
  BY <1>1, <1>2, <1>3 DEF TypeDone
<1>4. CASE u # t
  <2>1. \A d \in Evaluations : /\ Telling(d, u)' <=> Telling(d, u)
                               /\ run'[d].new[u] = run[d].new[u]
    BY <1>4 DEF TypeDone
  <2> QED  BY <2>1, <1>2, <1>4 DEF TypeDone, AlertsInv, LastWordIsKnown
<1> QED  BY <1>3, <1>4

LEMMA ProcessKeeps ==
  ASSUME AlertsInv, NEW e \in Evaluations, Process(e)
  PROVE  AlertsInv'
<1> USE DEF AlertsInv
<1>1. NextType(e) \in run[e].left /\ NextType(e) \in Types
  <2>1. run[e].left \subseteq Types /\ run[e].left # {}
    BY DEF Process, AlertsTypeOK, Runs
  <2> QED  BY <2>1 DEF NextType, Types
<1>2. PICK t \in Types : t = NextType(e)
  BY <1>1
<1>3. run[e].new[t] \in Rows /\ run[e].old[t] \in Rows
  BY DEF AlertsTypeOK, Runs
<1>4. PICK holds \in BOOLEAN : holds = Holds(t, run[e].seen, run[e].now)
  BY DEF Holds, IsOffline, BacklogAt
<1>5. PICK r \in Rows : r = Seen(run[e].new[t], holds)
  BY <1>3 DEF Seen, Rows
<1>6. /\ run[e].on /\ t \in run[e].left
      /\ run[e].new[t] = run[e].old[t]
      /\ r.notified => run[e].old[t].notified /\ r.active = run[e].old[t].active
      /\ r.active = run[e].old[t].active => r.notified = run[e].old[t].notified
  BY <1>1, <1>2, <1>3, <1>5 DEF Process, ReadsAreCurrent, Seen, Rows
<1>7. /\ UNCHANGED <<clock, record, credential, token, webhook, row, untrue,
                     beats>>
      /\ \/ /\ \E n \in {0, 1} : Looked(e, t, r, n)
            /\ UNCHANGED <<told, twice>>
         \/ /\ ~r.notified
            /\ \E n \in {0, 1} :
                 Looked(e, t, [r EXCEPT !.notified = TRUE], n)
            /\ told' = [told EXCEPT ![t] = WordOf(r)]
            /\ twice' \in {twice, twice \cup {t}}
  BY <1>2, <1>4, <1>5 DEF Process, Looked, Pending, WordOf
<1>8. trouble' \in 0..MaxTrouble /\ capped' \in BOOLEAN
  <2>1. /\ \/ trouble' = trouble
           \/ trouble < MaxTrouble /\ trouble' = trouble + 1
        /\ capped' = capped \/ \E b \in BOOLEAN : capped' = (capped \/ b)
    BY <1>2, <1>4, <1>5 DEF Process, Pending, Rows
  <2> QED  BY <2>1, AlertsAssumption DEF AlertsTypeOK
<1>9. CASE /\ \E n \in {0, 1} : Looked(e, t, r, n)
           /\ UNCHANGED <<told, twice>>
  <2>1. TypeDone(e, t, r)
    BY <1>6, <1>9, ProcessType DEF Looked
  <2>2. LastWordIsKnown'
    BY <1>6, <1>7, <1>9, <2>1, NothingTold
  <2>3. AlertsTypeOK'
    BY <1>7, <1>8, <1>9, <2>1 DEF TypeDone, AlertsTypeOK
  <2> QED  BY <2>1, <2>2, <2>3 DEF TypeDone
<1>10. ASSUME ~r.notified, NEW s \in Rows, s = [r EXCEPT !.notified = TRUE],
              \E n \in {0, 1} : Looked(e, t, s, n),
              told' = [told EXCEPT ![t] = WordOf(r)],
              twice' \in {twice, twice \cup {t}}
       PROVE  AlertsInv'
  <2>1. TypeDone(e, t, s)
    BY <1>6, <1>10, ProcessType DEF Looked
  <2>2. s.active = r.active /\ s.notified
    BY <1>10 DEF Rows
  <2>3. LastWordIsKnown'
    BY <1>6, <1>7, <1>10, <2>1, <2>2, EventTold DEF WordOf
  <2>4. AlertsTypeOK'
    BY <1>7, <1>8, <1>10, <2>1 DEF TypeDone, AlertsTypeOK, Told, WordOf
  <2> QED  BY <2>1, <2>3, <2>4 DEF TypeDone
<1>11. [r EXCEPT !.notified = TRUE] \in Rows
  BY DEF Rows
<1> QED  BY <1>7, <1>9, <1>10, <1>11

(* An evaluation ends and writes nothing: what it has told is excepted.    *)
LEMMA LostKeeps ==
  ASSUME AlertsInv, NEW e \in Evaluations, run[e].on,
         untrue' = untrue \cup ToldBy(e), UNCHANGED <<row, told>>,
         run' = [run EXCEPT ![e] = Resting]
  PROVE  /\ run' \in [Evaluations -> Runs] /\ untrue' \subseteq Types
         /\ ReadsAreCurrent' /\ LastWordIsKnown'
<1> USE DEF AlertsInv, AlertsTypeOK
<1>1. run' \in [Evaluations -> Runs] /\ untrue' \subseteq Types
  BY RestingType DEF ToldBy
<1>2. ReadsAreCurrent'
  BY RestingType DEF ReadsAreCurrent
<1>3. \A t \in Types \ untrue', d \in Evaluations :
        /\ Telling(d, t)' <=> Telling(d, t)
        /\ Telling(d, t) => run'[d] = run[d]
  <2> SUFFICES ASSUME NEW t \in Types \ untrue', NEW d \in Evaluations
               PROVE  /\ Telling(d, t)' <=> Telling(d, t)
                      /\ Telling(d, t) => run'[d] = run[d]
    OBVIOUS
  <2>1. CASE d = e
    BY <2>1, RestingType DEF Telling, ToldBy
  <2>2. CASE d # e
    BY <2>2 DEF Telling, ToldBy
  <2> QED  BY <2>1, <2>2
<1>4. LastWordIsKnown'
  BY <1>3 DEF LastWordIsKnown
<1> QED  BY <1>1, <1>2, <1>4

(* What the merge makes of a row that is still as it was read.             *)
LEMMA MergeOfCurrent ==
  ASSUME NEW old \in Rows, NEW new \in Rows
  PROVE  /\ Merge(old, new, old).active = new.active
         /\ Merge(old, new, old).notified = new.notified
  BY DEF Merge, Rows

LEMMA MergeType ==
  ASSUME NEW old \in Rows, NEW new \in Rows, NEW now \in Rows
  PROVE  Merge(old, new, now) \in Rows
  BY DEF Merge, Rows

LEMMA CommitKeeps ==
  ASSUME AlertsInv, NEW e \in Evaluations, Commit(e)
  PROVE  AlertsInv'
<1> USE DEF AlertsInv
<1>1. PICK written \in SUBSET Types :
        /\ written = {t \in Types : row'[t] # row[t]}
        /\ run' = [d \in Evaluations |->
                     IF d = e THEN Resting ELSE Overtake(run[d], written)]
  BY DEF Commit
<1>2. /\ run[e].on /\ UNCHANGED told
      /\ UNCHANGED <<clock, record, credential, token, webhook, told, twice,
                     capped, beats, trouble>>
  BY DEF Commit
<1>3. CASE Conflict(e)
  <2>1. UNCHANGED row /\ untrue' = untrue \cup ToldBy(e)
    BY <1>3 DEF Commit
  <2>2. \A d \in Evaluations : Overtake(run[d], written) = run[d]
    BY <1>1, <2>1 DEF Overtake, AlertsTypeOK, Runs
  <2>3. run' = [run EXCEPT ![e] = Resting]
    BY <1>1, <2>2 DEF AlertsTypeOK
  <2>4. /\ run' \in [Evaluations -> Runs] /\ untrue' \subseteq Types
        /\ ReadsAreCurrent' /\ LastWordIsKnown'
    BY <1>2, <2>1, <2>3, LostKeeps
  <2> QED  BY <1>2, <2>1, <2>4 DEF AlertsTypeOK
<1>4. CASE ~Conflict(e)
  <2>1. /\ row' = [t \in Types |->
                     Merge(run[e].old[t], run[e].new[t], row[t])]
        /\ untrue' = untrue \cup run[e].over
    BY <1>4 DEF Commit
  <2>2. \A d \in Evaluations : /\ run[d].old \in [Types -> Rows]
                               /\ run[d].new \in [Types -> Rows]
                               /\ run[d].over \subseteq Types
    BY DEF AlertsTypeOK, Runs
  <2>3. row' \in [Types -> Rows] /\ untrue' \subseteq Types
    <3>1. \A t \in Types : Merge(run[e].old[t], run[e].new[t], row[t]) \in Rows
      BY <2>2, MergeType DEF AlertsTypeOK
    <3> QED  BY <2>1, <2>2, <3>1 DEF AlertsTypeOK
  <2>4. \A d \in Evaluations \ {e} :
          /\ run'[d] \in Runs /\ run'[d].on = run[d].on
          /\ run'[d].old = run[d].old /\ run'[d].new = run[d].new
          /\ run'[d].left = run[d].left
          /\ run[d].on => run'[d].over = run[d].over \cup written
    BY <1>1, ZenonT(60) DEF Overtake, AlertsTypeOK, Runs
  <2>5. run'[e] = Resting
    BY <1>1
  <2>6. AlertsTypeOK'
    <3>1. run' \in [Evaluations -> Runs]
      BY <1>1, <2>4, <2>5, RestingType
    <3> QED  BY <1>2, <2>3, <3>1 DEF AlertsTypeOK
  <2>7. ReadsAreCurrent'
    <3> SUFFICES ASSUME NEW d \in Evaluations, NEW t \in Types, run'[d].on
                 PROVE  /\ t \notin run'[d].over => run'[d].old[t] = row'[t]
                        /\ t \in run'[d].left => run'[d].new[t] = run'[d].old[t]
      BY DEF ReadsAreCurrent
    <3>1. d # e
      BY <2>5, RestingType
    <3>2. /\ run[d].on /\ run'[d].old[t] = run[d].old[t]
                    /\ run'[d].new[t] = run[d].new[t]
                    /\ run'[d].left = run[d].left
                    /\ run'[d].over = run[d].over \cup written
      BY <2>4, <3>1
    <3>3. t \notin written => row'[t] = row[t]
      BY <1>1
    <3> QED  BY <3>2, <3>3 DEF ReadsAreCurrent
  <2>8. \A t \in Types, d \in Evaluations :
          Telling(d, t)' <=> d # e /\ Telling(d, t)
    <3> SUFFICES ASSUME NEW t \in Types, NEW d \in Evaluations
                 PROVE  Telling(d, t)' <=> d # e /\ Telling(d, t)
      OBVIOUS
    <3>1. CASE d = e
      BY <2>5, <3>1, RestingType DEF Telling
    <3>2. CASE d # e
      BY <2>4, <3>2 DEF Telling, ToldBy
    <3> QED  BY <3>1, <3>2
  <2>9. LastWordIsKnown'
    <3> SUFFICES ASSUME NEW t \in Types \ untrue'
                 PROVE  /\ (\A d \in Evaluations : ~Telling(d, t)') =>
                             (row'[t].notified => told[t] = WordOf(row'[t]))
                        /\ \A d \in Evaluations :
                             /\ Telling(d, t)' /\ t \notin run'[d].over
                             /\ \A c \in Evaluations : Telling(c, t)' => c = d
                             => told[t] = WordOf(run'[d].new[t])
      BY <1>2 DEF LastWordIsKnown, WordOf
    <3>1. t \in Types \ untrue /\ t \notin run[e].over
      BY <2>1
    <3>2. run[e].old[t] = row[t]
      BY <1>2, <3>1 DEF ReadsAreCurrent
    <3>3. /\ row'[t].active = run[e].new[t].active
          /\ row'[t].notified = run[e].new[t].notified
      BY <2>1, <2>2, <3>2, MergeOfCurrent
    <3>4. CASE Telling(e, t)
      <4>1. t \in written
        BY <1>1, <3>2, <3>3, <3>4, TellingMeans
      <4>2. (\A d \in Evaluations : ~Telling(d, t)') =>
              told[t] = WordOf(run[e].new[t])
        BY <2>8, <3>1, <3>4 DEF LastWordIsKnown
      <4>3. \A d \in Evaluations : Telling(d, t)' => t \in run'[d].over
        BY <2>4, <2>8, <4>1 DEF Telling
      <4> QED  BY <3>3, <4>2, <4>3 DEF WordOf
    <3>5. CASE ~Telling(e, t)
      <4>1. row'[t].notified =>
              row[t].notified /\ row'[t].active = row[t].active
        BY <1>2, <3>2, <3>3, <3>5, TellingMeans
      <4>2. (\A d \in Evaluations : ~Telling(d, t)') =>
              (row'[t].notified => told[t] = WordOf(row'[t]))
        BY <2>8, <3>1, <3>5, <4>1 DEF LastWordIsKnown, WordOf
      <4>3. \A d \in Evaluations :
              /\ Telling(d, t)' /\ t \notin run'[d].over
              /\ \A c \in Evaluations : Telling(c, t)' => c = d
              => told[t] = WordOf(run'[d].new[t])
        <5> SUFFICES ASSUME NEW d \in Evaluations,
                            Telling(d, t)', t \notin run'[d].over,
                            \A c \in Evaluations : Telling(c, t)' => c = d
                     PROVE  told[t] = WordOf(run'[d].new[t])
          OBVIOUS
        <5>1. d # e /\ Telling(d, t) /\ t \notin run[d].over
          BY <2>4, <2>8 DEF Telling
        <5>2. \A c \in Evaluations : Telling(c, t) => c = d
          BY <2>8, <3>5
        <5> QED  BY <2>4, <3>1, <5>1, <5>2 DEF LastWordIsKnown
      <4> QED  BY <4>2, <4>3
    <3> QED  BY <3>4, <3>5
  <2> QED  BY <2>6, <2>7, <2>9
<1> QED  BY <1>3, <1>4

LEMMA DieKeeps ==
  ASSUME AlertsInv, NEW e \in Evaluations, Die(e)
  PROVE  AlertsInv'
<1>1. /\ run' \in [Evaluations -> Runs] /\ untrue' \subseteq Types
      /\ ReadsAreCurrent' /\ LastWordIsKnown'
  BY LostKeeps DEF Die
<1>2. trouble' \in 0..MaxTrouble
  BY AlertsAssumption DEF Die, AlertsInv, AlertsTypeOK
<1> QED  BY <1>1, <1>2 DEF Die, AlertsInv, AlertsTypeOK

LEMMA AlertsInitInv ==
  ASSUME AlertsInit
  PROVE  AlertsInv
<1> USE AlertsAssumption DEF AlertsInit
<1>1. NoRow \in Rows /\ ~NoRow.notified
  BY DEF NoRow, Rows
<1>2. Preprovisioned(Agent0, Agent0) \in Records
  BY DEF Preprovisioned, Records, Marks, Time, Never
<1>3. AlertsTypeOK
  <2>1. /\ clock \in 0..MaxClock /\ beats \in 0..MaxBeats
        /\ trouble \in 0..MaxTrouble
    OBVIOUS
  <2>2. /\ credential \in [Credentials -> {"none", "active", "revoked"}]
        /\ token \in Credentials
    OBVIOUS
  <2>3. row \in [Types -> Rows] /\ run \in [Evaluations -> Runs]
    BY <1>1, RestingType
  <2>4. told \in [Types -> Told]
    BY DEF Told
  <2> QED  BY <1>2, <2>1, <2>2, <2>3, <2>4 DEF AlertsTypeOK
<1>4. ReadsAreCurrent /\ LastWordIsKnown
  BY <1>1, RestingType DEF ReadsAreCurrent, LastWordIsKnown, Telling
<1> QED  BY <1>3, <1>4 DEF AlertsInv

(* Every step of the alerts keeps what evaluations have read and what the  *)
(* operator was told last within what the rows say.                        *)
THEOREM AlertsInvHolds == AlertsSpec => []AlertsInv
<1>1. ASSUME AlertsInv, [AlertsNext]_alertVars
      PROVE  AlertsInv'
  <2>1. CASE AlertsNext
    BY <1>1, <2>1, OutsideKeeps, SendHeartbeatKeeps, StartKeeps, ProcessKeeps,
       CommitKeeps, DieKeeps DEF AlertsNext
  <2>2. CASE UNCHANGED alertVars
    <3>1. AlertsTypeOK' /\ RestUnchanged
      BY <1>1, <2>2 DEF alertVars, AlertsInv, AlertsTypeOK, RestUnchanged
    <3> QED  BY <1>1, <3>1, RestKeeps
  <2> QED  BY <1>1, <2>1, <2>2
<1> QED  BY <1>1, AlertsInitInv, PTL DEF AlertsSpec

(* What the operator was told last of a notified event is what its row     *)
(* says, unless an evaluation that told of it was overtaken or died.       *)
THEOREM LastWordTheorem == AlertsSpec => []LastWordIsTrue
<1>1. AlertsInv => LastWordIsTrue
  BY DEF AlertsInv, LastWordIsKnown, LastWordIsTrue, Running, Telling, WordOf
<1> QED  BY <1>1, AlertsInvHolds, PTL

-------------------------------------------------------------------------------
(* The machines that may share an identity. *)

(* What a stored heartbeat says of the machine that sent it: its clock is  *)
(* off by what it always is, its installation is the one it has, and what  *)
(* it could not detect is unknown.                                         *)
SaysWhatIs(beat) ==
  /\ beat.sent <= time
  /\ beat.at - beat.sent \in -MaxSkew..MaxSkew
  /\ beat.id \in {installation[beat.of], Unknown}
  /\ beat.mac \in {beat.of, Unknown}

(* What every reachable state of the identities satisfies.                 *)
IdentityInv ==
  /\ IdentityTypeOK /\ IsFiniteSet(heard)
  /\ \A beat \in heard : SaysWhatIs(beat)

(* Values differ when two of them do.                                      *)
LEMMA DifferIsTwo ==
  ASSUME NEW S, IsFiniteSet(S)
  PROVE  Differ(S) <=> \E x, y \in S : x # y
<1>1. CASE S = {}
  <2>1. Cardinality(S) = 0
    BY <1>1, FS_EmptySet
  <2> QED  BY <1>1, <2>1 DEF Differ
<1>2. CASE S # {}
  <2>1. PICK x \in S : TRUE
    BY <1>2
  <2>2. CASE S = {x}
    <3>1. Cardinality(S) = 1
      BY <2>2, FS_Singleton
    <3> QED  BY <2>2, <3>1 DEF Differ
  <2>3. CASE S # {x}
    <3>1. Cardinality(S) # 1
      BY <2>1, <2>3, FS_Singleton
    <3>2. Cardinality(S) \in Nat /\ Cardinality(S) # 0
      BY <1>2, FS_CardinalityType, FS_EmptySet
    <3>3. \E y \in S : x # y
      BY <2>1, <2>3
    <3> QED  BY <2>1, <3>1, <3>2, <3>3 DEF Differ
  <2> QED  BY <2>2, <2>3
<1> QED  BY <1>1, <1>2

LEMMA HearKeeps ==
  ASSUME IdentityInv, NEW m \in Machines, Hear(m)
  PROVE  IdentityInv'
<1> USE DuplicateIdentityAssumption DEF IdentityInv, IdentityTypeOK
<1>1. PICK missing \in SUBSET {"id", "mac", "address"} :
        /\ misses' = misses + Cardinality(missing) /\ misses' <= MaxMisses
        /\ heard' = heard \cup
               {[of |-> m, sent |-> time, at |-> time + ahead[m],
                 id |-> IF "id" \in missing THEN Unknown ELSE installation[m],
                 mac |-> IF "mac" \in missing THEN Unknown ELSE m,
                 name |-> name[m],
                 address |-> IF "address" \in missing THEN Unknown
                                                      ELSE address[m]]}
  BY DEF Hear
<1> DEFINE beat ==
      [of |-> m, sent |-> time, at |-> time + ahead[m],
       id |-> IF "id" \in missing THEN Unknown ELSE installation[m],
       mac |-> IF "mac" \in missing THEN Unknown ELSE m,
       name |-> name[m],
       address |-> IF "address" \in missing THEN Unknown ELSE address[m]]
<1>2. UNCHANGED <<installation, name, address, ahead, time, moves>>
      /\ Cardinality(heard) < MaxHeard
  BY DEF Hear
<1>3. ahead[m] \in Int /\ ahead[m] \in -MaxSkew..MaxSkew /\ time \in Int
  OBVIOUS
<1>4. beat \in Heartbeats
  BY <1>3 DEF Heartbeats
<1>5. SaysWhatIs(beat)
  BY <1>3 DEF SaysWhatIs
<1>6. IsFiniteSet(heard') /\ Cardinality(heard') <= MaxHeard
  <2>1. /\ IsFiniteSet(heard \cup {beat})
        /\ \/ Cardinality(heard \cup {beat}) = Cardinality(heard)
           \/ Cardinality(heard \cup {beat}) = Cardinality(heard) + 1
    BY FS_AddElement, ZenonT(60)
  <2>2. Cardinality(heard) \in Nat
    BY FS_CardinalityType
  <2> QED  BY <1>1, <1>2, <2>1, <2>2
<1>7. misses' \in 0..MaxMisses
  <2>1. IsFiniteSet({"id", "mac", "address"})
    <3>1. IsFiniteSet({"id"})
      BY FS_Singleton
    <3>2. IsFiniteSet({"id"} \cup {"mac"})
      BY <3>1, FS_AddElement
    <3>3. IsFiniteSet(({"id"} \cup {"mac"}) \cup {"address"})
      BY <3>2, FS_AddElement
    <3>4. ({"id"} \cup {"mac"}) \cup {"address"} = {"id", "mac", "address"}
      OBVIOUS
    <3> QED  BY <3>3, <3>4
  <2>2. IsFiniteSet(missing)
    BY <2>1, FS_Subset
  <2>3. Cardinality(missing) \in Nat
    BY <2>2, FS_CardinalityType
  <2> QED  BY <1>1, <2>3
<1>8. IdentityTypeOK'
  BY <1>1, <1>2, <1>4, <1>6, <1>7
<1>9. \A b \in heard' : SaysWhatIs(b)'
  BY <1>1, <1>2, <1>5 DEF SaysWhatIs
<1> QED  BY <1>6, <1>8, <1>9

(* Every heartbeat keeps saying what was, whatever moves afterwards.       *)
THEOREM HeartbeatsSayWhatIs == IdentitySpec => []IdentityInv
<1>1. IdentityInit => IdentityInv
  BY DuplicateIdentityAssumption, FS_EmptySet
     DEF IdentityInit, IdentityInv, IdentityTypeOK
<1>2. IdentityInv /\ [IdentityNext]_identityVars => IdentityInv'
  <2> SUFFICES ASSUME IdentityInv, [IdentityNext]_identityVars
               PROVE  IdentityInv'
    OBVIOUS
  <2> USE DuplicateIdentityAssumption
  <2>1. ASSUME NEW m \in Machines, Move(m) PROVE IdentityInv'
    <3>1. UNCHANGED <<installation, ahead, time, heard, misses>>
          /\ moves' \in 0..MaxMoves
      BY <2>1 DEF Move, IdentityInv, IdentityTypeOK
    <3>2. name' \in [Machines -> Names] /\ address' \in [Machines -> Addresses]
      BY <2>1 DEF Move, IdentityInv, IdentityTypeOK
    <3> QED  BY <3>1, <3>2 DEF IdentityInv, IdentityTypeOK, SaysWhatIs
  <2>2. CASE Pass
    <3>1. time' \in 0..Horizon /\ time' = time + 1
          /\ UNCHANGED <<installation, name, address, ahead, heard, moves,
                         misses>>
      BY <2>2 DEF Pass, IdentityInv, IdentityTypeOK
    <3>2. \A beat \in heard : beat.sent \in Int
      BY DEF IdentityInv, IdentityTypeOK, Heartbeats
    <3> QED  BY <3>1, <3>2 DEF IdentityInv, IdentityTypeOK, SaysWhatIs
  <2>3. CASE UNCHANGED identityVars
    BY <2>3 DEF identityVars, IdentityInv, IdentityTypeOK, SaysWhatIs
  <2> QED  BY <2>1, <2>2, <2>3, HearKeeps DEF IdentityNext
<1> QED  BY <1>1, <1>2, PTL DEF IdentitySpec

(* A heartbeat that the clocks make recent was sent not long before the    *)
(* window, and one sent well within the window is recent.                  *)
LEMMA RecentIsSent ==
  ASSUME IdentityInv
  PROVE  /\ SentWithin(Window - MaxSkew) \subseteq Recent
         /\ Recent \subseteq SentWithin(Window + MaxSkew)
<1> USE DuplicateIdentityAssumption DEF IdentityInv
<1> SUFFICES ASSUME NEW beat \in heard
             PROVE  /\ beat.sent >= time - (Window - MaxSkew) =>
                         beat.at >= time - Window
                    /\ beat.at >= time - Window =>
                         beat.sent >= time - (Window + MaxSkew)
  BY DEF Recent, SentWithin
<1>1. /\ beat.sent \in Int /\ beat.at \in Int /\ time \in Int
      /\ beat.at - beat.sent \in -MaxSkew..MaxSkew
  BY DEF IdentityTypeOK, Heartbeats, SaysWhatIs
<1> QED  BY <1>1

(* Finitely many heartbeats say finitely many things.                      *)
LEMMA ValuesAreFinite ==
  ASSUME NEW f, IsFiniteSet(DOMAIN f), f = [x \in DOMAIN f |-> f[x]]
  PROVE  IsFiniteSet({f[x] : x \in DOMAIN f})
<1> DEFINE T == {f[x] : x \in DOMAIN f}
<1>1. f \in Surjection(DOMAIN f, T)
  BY DEF Surjection
<1> QED  BY <1>1, FS_Surjection

LEMMA BeatsAreFinite ==
  ASSUME IdentityInv, NEW batch \in SUBSET heard, NEW k
  PROVE  IsFiniteSet({beat[k] : beat \in batch})
<1> DEFINE f == [beat \in batch |-> beat[k]]
<1> HIDE DEF f
<1>1. IsFiniteSet(batch)
  BY FS_Subset DEF IdentityInv
<1>2. DOMAIN f = batch /\ f = [x \in DOMAIN f |-> f[x]]
  BY DEF f
<1>3. {f[x] : x \in DOMAIN f} = {beat[k] : beat \in batch}
  BY DEF f
<1>4. IsFiniteSet({f[x] : x \in DOMAIN f})
  BY <1>1, <1>2, ValuesAreFinite
<1> QED  BY <1>3, <1>4

(* The known values of heartbeats differ when two heartbeats say so.       *)
LEMMA BeatsDiffer ==
  ASSUME IdentityInv, NEW batch \in SUBSET heard, NEW k
  PROVE  /\ Differ({beat[k] : beat \in batch}) <=>
              \E a, b \in batch : a[k] # b[k]
         /\ DifferKnown({beat[k] : beat \in batch}) <=>
              \E a, b \in batch :
                a[k] # b[k] /\ Unknown \notin {a[k], b[k]}
<1> DEFINE S == {beat[k] : beat \in batch}
<1> HIDE DEF S
<1>1. IsFiniteSet(S)
  BY BeatsAreFinite DEF S
<1>2. IsFiniteSet(S \ {Unknown})
  BY <1>1, FS_RemoveElement
<1>3. Differ(S) <=> \E x, y \in S : x # y
  BY <1>1, DifferIsTwo
<1>4. DifferKnown(S) <=> \E x, y \in S \ {Unknown} : x # y
  BY <1>2, DifferIsTwo DEF DifferKnown
<1>5. (\E x, y \in S : x # y) <=> \E a, b \in batch : a[k] # b[k]
  BY DEF S
<1>6. (\E x, y \in S \ {Unknown} : x # y) <=>
        \E a, b \in batch : a[k] # b[k] /\ Unknown \notin {a[k], b[k]}
  BY DEF S
<1>7. /\ Differ(S) <=> \E a, b \in batch : a[k] # b[k]
      /\ DifferKnown(S) <=> \E a, b \in batch :
           a[k] # b[k] /\ Unknown \notin {a[k], b[k]}
  BY <1>3, <1>4, <1>5, <1>6
<1> QED  BY <1>7 DEF S

(* The cloud warns of what can be told apart in recent heartbeats, and of  *)
(* nothing else, unless detections, moves or clocks account for it.        *)
THEOREM WarningTheorem == IdentitySpec => []WarningIsTrue
<1>1. IdentityInv => WarningIsTrue
  <2> SUFFICES ASSUME IdentityInv
               PROVE  WarningIsTrue
    OBVIOUS
  <2>1. Recent \in SUBSET heard
    BY DEF Recent
  <2>2. ASSUME NEW a \in Recent, NEW b \in Recent, ToldApart(a, b)
        PROVE  Suspected
    <3>1. CASE a.id # b.id /\ Unknown \notin {a.id, b.id}
      <4>1. DifferKnown({beat["id"] : beat \in Recent})
        BY <2>1, <2>2, <3>1, BeatsDiffer
      <4> QED  BY <4>1 DEF Suspected
    <3>2. CASE a.mac # b.mac /\ Unknown \notin {a.mac, b.mac}
      <4>1. DifferKnown({beat["mac"] : beat \in Recent})
        BY <2>1, <2>2, <3>2, BeatsDiffer
      <4> QED  BY <4>1 DEF Suspected
    <3> QED  BY <2>2, <3>1, <3>2 DEF ToldApart
  <2> DEFINE batch == SentWithin(Window + MaxSkew)
  <2>3. batch \in SUBSET heard
    BY DEF SentWithin
  <2> HIDE DEF batch
  <2>4. Recent \subseteq batch
    BY RecentIsSent DEF batch
  <2>5. ASSUME NEW a \in Recent, NEW b \in Recent, ToldApart(a, b)
        PROVE  Differ({beat.of : beat \in batch})
    <3>1. a.of # b.of
      BY <2>1, <2>5 DEF IdentityInv, SaysWhatIs, ToldApart
    <3>2. Differ({beat["of"] : beat \in batch})
      BY <2>3, <2>4, <3>1, BeatsDiffer
    <3> QED  BY <3>2
  <2>6. ASSUME DifferKnown({beat.name : beat \in Recent}),
               DifferKnown({beat.address : beat \in Recent})
        PROVE  /\ Differ({beat.name : beat \in batch})
               /\ Differ({beat.address : beat \in batch} \ {Unknown})
    <3>1. \E a, b \in Recent : a["name"] # b["name"]
      BY <2>1, <2>6, BeatsDiffer
    <3>2. Differ({beat["name"] : beat \in batch})
      BY <2>3, <2>4, <3>1, BeatsDiffer
    <3>3. \E a, b \in Recent : /\ a["address"] # b["address"]
                                /\ Unknown \notin {a["address"], b["address"]}
      BY <2>1, <2>6, BeatsDiffer
    <3>4. DifferKnown({beat["address"] : beat \in batch})
      BY <2>3, <2>4, <3>3, BeatsDiffer
    <3> QED  BY <3>2, <3>4 DEF DifferKnown
  <2>7. Suspected =>
          \/ \E a, b \in Recent : ToldApart(a, b)
          \/ /\ DifferKnown({beat.name : beat \in Recent})
             /\ DifferKnown({beat.address : beat \in Recent})
    <3>1. /\ DifferKnown({beat["id"] : beat \in Recent}) =>
               \E a, b \in Recent : ToldApart(a, b)
          /\ DifferKnown({beat["mac"] : beat \in Recent}) =>
               \E a, b \in Recent : ToldApart(a, b)
      BY <2>1, BeatsDiffer DEF ToldApart
    <3> QED  BY <3>1 DEF Suspected
  <2> QED  BY <2>2, <2>5, <2>6, <2>7, RecentIsSent DEF WarningIsTrue, batch
<1> QED  BY <1>1, HeartbeatsSayWhatIs, PTL

-------------------------------------------------------------------------------
(* The jobs that the updaters work off on a gateway. *)

USE HostAssumption, UpgradeAssumption, NoJobAssumption

(* A job that is in nobody's way is worked off by one thread at most, and  *)
(* no other thread is at work then; commands are never started alone.      *)
AloneInv ==
  /\ \A t \in Busy : job[thread[t].job] # NoJob
  /\ \A t, u \in Busy : t # u => thread[t].job \in shared
  /\ \A t \in Busy : thread[t].at \in CommandNames => thread[t].job \in shared
  /\ last \notin shared => \A t \in Busy : thread[t].job = last

(* Where a thread is, and what its job says then.                          *)
InPlace(w, entry) ==
  /\ w.at = "top" => entry.status = "queued"
  /\ w.at = "check" => entry.status \in {"waiting", "complete"}
  /\ w.at = "taken" => /\ entry.current = w.phase
                       /\ entry.status \in {"queued", "waiting"}
                       /\ w.phase \in entry.selection.phases
  /\ w.at = "phase" => /\ entry.current = w.phase
                       /\ entry.status = "running"
                       /\ w.phase \in entry.selection.phases

(* The selected phases below the one a job is at have passed.              *)
InOrder(entry) ==
  /\ entry.status # "failed" =>
       entry.passed = {q \in entry.selection.phases : q < entry.current}
  /\ entry.status = "complete" => entry.current = Finished

(* A job that is alone has passed the phases before the one it is at.      *)
ProgressInv ==
  /\ \A t \in Busy : thread[t].job \notin shared =>
       InPlace(thread[t], job[thread[t].job])
  /\ \A j \in Started \ shared :
       /\ InOrder(job[j])
       /\ j \notin AtWork => job[j].status \in {"failed", "complete"}

(* What the phases that the last job has passed left on the gateway.       *)
Passed(p) == p \in job[last].passed
GatewayInv ==
  last # NoJob /\ last \notin shared /\ job[last].status # "failed" =>
    /\ Passed(10) => gateway.agentUp /\ gateway.agent = gateway.repo
    /\ Passed(7) => gateway.repo = job[last].release
    /\ job[last].selection.options = {} =>
         /\ Passed(2) => gateway.artifact = job[last].release
         /\ Passed(2) /\ Passed(3) => gateway.ui = job[last].release
         /\ Passed(2) /\ Passed(3) /\ ~Passed(5) => gateway.served = None
         /\ Passed(2) /\ Passed(3) /\ Passed(5) =>
              gateway.served = job[last].release

UpgradeInv ==
  /\ UpgradeTypeOK /\ AloneInv /\ ProgressInv /\ GatewayInv
  /\ last \in Started \/ (last = NoJob /\ Started = {})

(* A set of numbers has a least one.                                       *)
LEMMA LeastOf ==
  ASSUME NEW T \in SUBSET Nat, T # {}
  PROVE  \E n \in T : \A k \in T : n <= k
<1>1. PICK n \in T : \A k \in T : ~(<<k, n>> \in OpToRel(<, Nat))
  BY NatLessThanWellFounded, WFMin, Zenon
<1>2. \A k \in T : ~(k < n)
  BY <1>1 DEF OpToRel
<1> QED  BY <1>2

(* Who selects the agent's restart selects its checkout.                   *)
LEMMA SelectionIs ==
  ASSUME NEW selection \in Selections
  PROVE  /\ selection.phases \subseteq Phases
         /\ 10 \in selection.phases => 7 \in selection.phases
<1>1. selection.phases \in RealRun
  OBVIOUS
<1> QED  BY <1>1
            DEF RealRun, Phases, UpdateAgent, TargetedAgentOnly, UiOnly

(* What a field of a gateway is.                                           *)
LEMMA FieldsOf ==
  ASSUME NEW h \in Hosts
  PROVE  /\ h.ui \in Code /\ h.served \in Code \cup {None}
         /\ h.uiToken \in Token /\ h.artifact \in Releases \cup {None}
         /\ h.backup \in [code : Code \cup {None}, token : Token]
         /\ h.checkpoint \in [Releases -> Code \cup {None}]
         /\ h.writeEnv \in Token /\ h.repo \in Releases \cup {Old}
         /\ h.package \in Releases \cup {Old}
         /\ h.agent \in Releases \cup {Old} /\ h.agentWrite \in Token
         /\ h.agentUp \in BOOLEAN
  BY DEF Hosts

(* A gateway with one field changed.                                       *)
LEMMA OneField ==
  ASSUME NEW h \in Hosts
  PROVE  /\ \A x \in Code : [h EXCEPT !.ui = x] \in Hosts
         /\ \A x \in Code \cup {None} : [h EXCEPT !.served = x] \in Hosts
         /\ \A x \in Token : [h EXCEPT !.uiToken = x] \in Hosts
         /\ \A x \in Releases \cup {None} : [h EXCEPT !.artifact = x] \in Hosts
         /\ \A x \in Token : [h EXCEPT !.writeEnv = x] \in Hosts
         /\ \A x \in Releases \cup {Old} :
              /\ [h EXCEPT !.repo = x] \in Hosts
              /\ [h EXCEPT !.package = x] \in Hosts
         /\ \A x \in BOOLEAN : [h EXCEPT !.agentUp = x] \in Hosts
  BY DEF Hosts

(* The copies and the restarts that the commands make.                     *)
LEMMA CopyFields ==
  ASSUME NEW h \in Hosts, NEW r \in Releases
  PROVE  /\ FullBackup(h) \in Hosts /\ CodeCheckpoint(h, r) \in Hosts
         /\ RestartAgent(h) \in Hosts /\ StartUi(h) \in Hosts
         /\ StopUi(h) \in Hosts
<1>1. FullBackup(h) \in Hosts
  BY DEF Hosts, FullBackup
<1>2. CodeCheckpoint(h, r) \in Hosts
  BY DEF Hosts, CodeCheckpoint
<1>3. RestartAgent(h) \in Hosts
  BY DEF Hosts, RestartAgent
<1>4. StartUi(h) \in Hosts /\ StopUi(h) \in Hosts
  BY OneField, FieldsOf DEF StartUi, StopUi
<1> QED  BY <1>1, <1>2, <1>3, <1>4

(* What a phase leaves is a gateway.                                       *)
LEMMA PassingTypes ==
  ASSUME gateway \in Hosts, NEW j \in Jobs, job[j] \in JobRecord,
         NEW p \in Phases
  PROVE  Passing(j, p) \subseteq Hosts /\ Failing(j, p) \subseteq Hosts
<1> DEFINE h == gateway  r == job[j].release
<1>1. /\ r \in Releases /\ r \in Code /\ Old \in Token /\ None \in Token
      /\ j \in Token /\ Mixed \in Code
  BY DEF JobRecord, Code, Token
<1> HIDE DEF r
<1>2. CASE p \in {0, 6}
  BY <1>2 DEF Passing, Failing
<1>3. CASE p = 1
  <2>1. Backup(h, r) \subseteq Hosts /\ BackupBegun(h) \subseteq Hosts
    BY <1>1, CopyFields DEF Backup, BackupBegun
  <2> QED  BY <1>3, <2>1 DEF Passing, Failing, r
<1>4. CASE p = 2
  <2>1. /\ Upload(h, r) \subseteq Hosts /\ UploadBegun(h) \subseteq Hosts
        /\ ReuseArtifact(h) \subseteq Hosts
    BY <1>1, OneField DEF Upload, UploadBegun, ReuseArtifact
  <2> QED  BY <1>4, <2>1 DEF Passing, Failing, r
<1>5. CASE p = 3
  <2>1. \A skip \in BOOLEAN : /\ ApplyUi(h, skip) \subseteq Hosts
                              /\ ApplyUiBegun(h, skip) \subseteq Hosts
    <3> SUFFICES ASSUME NEW skip \in BOOLEAN
                 PROVE  /\ ApplyUi(h, skip) \subseteq Hosts
                        /\ ApplyUiBegun(h, skip) \subseteq Hosts
      OBVIOUS
    <3>1. Unless(skip, h) \in Hosts
      BY CopyFields, <1>1 DEF Unless
    <3>2. h.artifact # None => h.artifact \in Code
      BY FieldsOf DEF Code
    <3> QED  BY <1>1, <3>1, <3>2, OneField DEF ApplyUi, ApplyUiBegun
  <2>2. Option(j, "skip") \in BOOLEAN
    BY DEF Option
  <2> QED  BY <1>5, <2>1, <2>2 DEF Passing, Failing
<1>6. CASE p = 4
  <2>1. WriteUiToken(h, j) \in Hosts
    BY <1>1, OneField DEF WriteUiToken
  <2>2. WriteAgentToken(WriteUiToken(h, j), j) \in Hosts
    BY <1>1, <2>1, OneField DEF WriteAgentToken
  <2>3. Auth(h, j) \subseteq Hosts /\ AuthBegun(h, j) \subseteq Hosts
    BY <2>1, <2>2 DEF Auth, AuthBegun
  <2> QED  BY <1>6, <2>3 DEF Passing, Failing
<1>7. CASE p = 5
  <2>1. RestartUi(h) \subseteq Hosts /\ RestartUiBegun(h) \subseteq Hosts
    BY <1>1, CopyFields DEF RestartUi, RestartUiBegun
  <2> QED  BY <1>7, <2>1 DEF Passing, Failing
<1>8. CASE p = 7
  <2>1. Repo(h, r) \subseteq Hosts /\ RepoBegun(h, r) \subseteq Hosts
    BY <1>1, OneField DEF Repo, RepoBegun, Checkout
  <2> QED  BY <1>8, <2>1 DEF Passing, Failing, r
<1>9. CASE p = 8
  <2>1. Config(h) \subseteq Hosts /\ ConfigBegun(h) \subseteq Hosts
    BY <1>1, OneField DEF Config, ConfigBegun
  <2> QED  BY <1>9, <2>1 DEF Passing, Failing
<1>10. CASE p = 9
  <2>1. [h EXCEPT !.repo = r, !.package = r] \in Hosts
    BY <1>1 DEF Hosts
  <2>2. h.repo \in Releases \cup {Old}
    BY FieldsOf
  <2>4. Checkout(h, r) \in Hosts /\ [h EXCEPT !.package = h.repo] \in Hosts
    BY <1>1, <2>2, OneField DEF Checkout
  <2>3. /\ Install(h, r) \subseteq Hosts
        /\ InstallWithoutCheckout(h) \subseteq Hosts
        /\ InstallBegun(h, r) \subseteq Hosts
        /\ InstallBegunWithoutCheckout(h) \subseteq Hosts
    BY <2>1, <2>4
       DEF Install, InstallWithoutCheckout, InstallBegun,
           InstallBegunWithoutCheckout
  <2> QED  BY <1>10, <2>3 DEF Passing, Failing, r
<1>11. CASE p = 10
  <2>1. RestartAgent(h) \in Hosts
    BY <1>1, CopyFields
  <2>2. Service(h) \subseteq Hosts /\ ServiceBegun(h) \subseteq Hosts
    BY <2>1, OneField DEF Service, ServiceBegun
  <2> QED  BY <1>11, <2>2 DEF Passing, Failing
<1>12. CASE p = 11
  <2>1. Verified(h, r) \subseteq Hosts
    BY DEF Verified
  <2> QED  BY <1>12, <2>1 DEF Passing, Failing, r
<1>13. p \in 0..11
  BY DEF Phases
<1> QED  BY <1>2, <1>3, <1>4, <1>5, <1>6, <1>7, <1>8, <1>9, <1>10, <1>11,
            <1>12, <1>13

(* What a group of commands leaves is a gateway.                           *)
LEMMA CommandTypes ==
  ASSUME gateway \in Hosts, NEW j \in Jobs, job[j] \in JobRecord, NEW command
  PROVE  /\ AfterCommands(j, command) \subseteq Hosts
         /\ AfterFailedCommands(j, command) \subseteq Hosts
<1> DEFINE h == gateway  r == job[j].release
<1>1. r \in Releases /\ Mixed \in Code
  BY DEF JobRecord, Code
<1> HIDE DEF r
<1>2. h.backup.code \in Code \cup {None} /\ h.backup.token \in Token
  BY FieldsOf
<1>3. h.checkpoint[r] \in Code \cup {None}
  BY <1>1, FieldsOf
<1>4. h.backup.code # None => RestoredBackup(h) \in Hosts
  BY <1>2 DEF Hosts, RestoredBackup
<1>5. RestoreBackup(h) \subseteq Hosts /\ RestoreBackupBegun(h) \subseteq Hosts
  BY <1>1, <1>4, CopyFields DEF RestoreBackup, RestoreBackupBegun
<1>6. \A x \in Code : [h EXCEPT !.ui = x, !.served = x] \in Hosts
  BY DEF Hosts
<1>7. /\ RestoreCode(h, r) \subseteq Hosts
      /\ RestoreCodeBegun(h, r) \subseteq Hosts
  <2>1. StopUi(h) \in Hosts /\ [StopUi(h) EXCEPT !.ui = Mixed] \in Hosts
    BY <1>1, CopyFields, OneField
  <2>2. RestoreCodeBegun(h, r) \subseteq Hosts
    BY <2>1 DEF RestoreCodeBegun
  <2>3. RestoreCode(h, r) \subseteq Hosts
    BY <1>3, <1>6 DEF RestoreCode
  <2> QED  BY <2>2, <2>3
<1>8. DisableAgent(h) \subseteq Hosts
  BY OneField DEF DisableAgent
<1> QED  BY <1>5, <1>7, <1>8 DEF AfterCommands, AfterFailedCommands, r

(* What the phases that pass do to what the last ones will look at.        *)
LEMMA PassingDoes ==
  ASSUME gateway \in Hosts, NEW j \in Jobs, job[j] \in JobRecord,
         NEW p \in Phases, NEW new \in Passing(j, p)
  PROVE  /\ p = 10 => new.agentUp /\ new.agent = new.repo
         /\ p = 11 => new = gateway
         /\ p = 7 => new.repo = job[j].release
         /\ p > 7 => new.repo \in {gateway.repo, job[j].release}
         /\ p = 2 /\ ~Option(j, "reuse") => new.artifact = job[j].release
         /\ p = 3 => /\ new.artifact = gateway.artifact
                     /\ new.ui = gateway.artifact
         /\ p = 3 /\ ~Option(j, "skip") => new.served = None
         /\ p > 3 => /\ new.artifact = gateway.artifact
                     /\ new.ui = gateway.ui
         /\ p = 5 => new.served = IF gateway.served = None THEN gateway.ui
                                  ELSE gateway.served
         /\ p > 3 /\ p # 5 => new.served = gateway.served
<1> DEFINE h == gateway  r == job[j].release
<1>1. p \in 0..11
  BY DEF Phases
<1> USE DEF Hosts
<1>2. CASE p \in {0, 1}
  BY <1>2
<1>3. CASE p = 2
  <2>1. ~Option(j, "reuse") => new \in Upload(h, r)
    BY <1>3 DEF Passing
  <2> QED  BY <1>3, <2>1 DEF Upload
<1>4. CASE p = 3
  <2>1. new \in ApplyUi(h, Option(j, "skip"))
    BY <1>4 DEF Passing
  <2> QED  BY <1>4, <2>1 DEF ApplyUi, Unless, StopUi
<1>5. CASE p = 4
  <2>1. new \in Auth(h, j)
    BY <1>5 DEF Passing
  <2> DEFINE h1 == [h EXCEPT !.uiToken = j]
             h2 == [h1 EXCEPT !.writeEnv = j]
  <2>2. h1 \in Hosts /\ h2 \in Hosts
    <3> HIDE DEF Hosts
    <3>1. j \in Token /\ h \in Hosts
      BY DEF Token
    <3>2. h1 \in Hosts
      BY <3>1, OneField
    <3> HIDE DEF h1
    <3> QED  BY <3>1, <3>2, OneField
  <2>3. /\ h1.artifact = h.artifact /\ h1.ui = h.ui /\ h1.served = h.served
        /\ h2.artifact = h1.artifact /\ h2.ui = h1.ui
        /\ h2.served = h1.served
    BY <2>2
  <2>4. new = h2
    BY <2>1 DEF Auth, WriteUiToken, WriteAgentToken
  <2> HIDE DEF h1, h2
  <2> QED  BY <1>5, <2>3, <2>4
<1>6. CASE p = 5
  <2>1. new \in RestartUi(h)
    BY <1>6 DEF Passing
  <2> QED  BY <1>6, <2>1 DEF RestartUi, StartUi
<1>7. CASE p = 6
  BY <1>7 DEF Passing
<1>8. CASE p = 7
  <2>1. new \in Repo(h, r)
    BY <1>8 DEF Passing
  <2> QED  BY <1>8, <2>1 DEF Repo, Checkout
<1>9. CASE p = 8
  <2>1. new \in Config(h)
    BY <1>9 DEF Passing
  <2> QED  BY <1>9, <2>1 DEF Config
<1>10. CASE p = 9
  <2>1. new \in Install(h, r) \/ new \in InstallWithoutCheckout(h)
    BY <1>10 DEF Passing
  <2>2. \/ new = [h EXCEPT !.repo = r, !.package = r]
        \/ new = [h EXCEPT !.package = h.repo]
    BY <2>1 DEF Install, InstallWithoutCheckout
  <2>3. /\ new.artifact = h.artifact /\ new.ui = h.ui
        /\ new.served = h.served /\ new.repo \in {h.repo, r}
    BY <2>2
  <2> QED  BY <1>10, <2>3
<1>11. CASE p = 10
  <2>1. new \in Service(h)
    BY <1>11 DEF Passing
  <2>2. new = [h EXCEPT !.agent = h.repo, !.agentWrite = h.writeEnv,
                        !.agentUp = TRUE]
    BY <2>1 DEF Service, RestartAgent
  <2>3. /\ new.artifact = h.artifact /\ new.ui = h.ui
        /\ new.served = h.served
        /\ new.agentUp /\ new.agent = h.repo /\ new.repo = h.repo
    BY <2>2
  <2> QED  BY <1>11, <2>3
<1>12. CASE p = 11
  <2>1. new \in Verified(h, r) \/ new = h
    BY <1>12 DEF Passing
  <2> QED  BY <1>12, <2>1 DEF Verified
<1> QED  BY <1>1, <1>2, <1>3, <1>4, <1>5, <1>6, <1>7, <1>8, <1>9, <1>10,
            <1>11, <1>12

LEMMA UpgradeInvInit ==
  ASSUME UpgradeInit
  PROVE  UpgradeInv
<1>1. FreshHost \in Hosts
  BY DEF FreshHost, Hosts, Code, Token
<1>2. Busy = {} /\ Started = {} /\ last = NoJob
  BY DEF UpgradeInit, Busy, Started
<1>3. UpgradeTypeOK
  BY <1>1 DEF UpgradeInit, UpgradeTypeOK
<1>4. AloneInv /\ ProgressInv /\ GatewayInv
  BY <1>2 DEF AloneInv, ProgressInv, GatewayInv
<1> QED  BY <1>2, <1>3, <1>4 DEF UpgradeInv

(* What the types say of a thread that is at work.                         *)
LEMMA BusyIs ==
  ASSUME UpgradeInv, NEW t \in Busy
  PROVE  /\ t \in Threads /\ thread[t].job \in Jobs
         /\ thread[t] \in [job : Jobs, at : Doing, phase : Phases]
         /\ thread[t].at \in Doing /\ thread[t].phase \in Phases
         /\ job[thread[t].job] \in JobRecord
         /\ thread[t].job \in Started /\ thread[t].job \in AtWork
<1>1. t \in Threads /\ thread[t] # Free
  BY DEF Busy
<1>2. thread[t] \in [job : Jobs, at : Doing, phase : Phases]
  BY <1>1 DEF UpgradeInv, UpgradeTypeOK
<1>3. thread[t].job \in Jobs /\ job[thread[t].job] # NoJob
  BY <1>2 DEF UpgradeInv, AloneInv
<1> QED  BY <1>1, <1>2, <1>3 DEF UpgradeInv, UpgradeTypeOK, Started, AtWork

(* A thread begins: the others go on as before.                            *)
LEMMA BeginIs ==
  ASSUME UpgradeInv, NEW t \in Threads, NEW j \in Jobs, NEW at \in Doing,
         Begin(t, j, at)
  PROVE  /\ t \notin Busy /\ Busy' = Busy \cup {t}
         /\ AtWork' = AtWork \cup {j}
         /\ thread'[t] = [job |-> j, at |-> at, phase |-> 0]
         /\ \A u \in Busy : thread'[u] = thread[u]
         /\ DOMAIN thread' = Threads
         /\ \A u \in Threads :
              \/ thread'[u] = Free
              \/ thread'[u] \in [job : Jobs, at : Doing, phase : Phases]
<1> DEFINE new == [job |-> j, at |-> at, phase |-> 0]
<1>1. /\ thread[t] = Free /\ thread' = [thread EXCEPT ![t] = new]
      /\ DOMAIN thread = Threads
  BY DEF Begin, UpgradeInv, UpgradeTypeOK
<1>2. new # Free /\ new \in [job : Jobs, at : Doing, phase : Phases]
      /\ new.job = j
  BY DEF Free, Phases
<1> HIDE DEF new
<1>3. /\ t \notin Busy /\ thread'[t] = new /\ DOMAIN thread' = Threads
      /\ \A u \in Threads : u # t => thread'[u] = thread[u]
  BY <1>1 DEF Busy
<1>4. Busy' = Busy \cup {t}
  BY <1>1, <1>2, <1>3 DEF Busy
<1>5. AtWork' = AtWork \cup {j}
  BY <1>2, <1>3, <1>4 DEF AtWork, Busy
<1>6. \A u \in Threads :
        \/ thread'[u] = Free
        \/ thread'[u] \in [job : Jobs, at : Doing, phase : Phases]
  BY <1>2, <1>3 DEF UpgradeInv, UpgradeTypeOK
<1> QED  BY <1>3, <1>4, <1>5, <1>6 DEF Busy, new

(* A thread starts beside others, or for a job that was no longer alone:   *)
(* all that are at work are in each other's way then.                      *)
LEMMA SharedKeeps ==
  ASSUME UpgradeInv, UpgradeTypeOK', last' \in Started', last' \in shared',
         shared \subseteq shared',
         \A t \in Busy' : /\ thread'[t].job \in shared'
                          /\ thread'[t].job \in Started',
         \A j \in Jobs \ shared' : job'[j] = job[j],
         AtWork \subseteq AtWork'
  PROVE  UpgradeInv'
<1>1. AloneInv'
  BY DEF AloneInv, Started
<1>2. ProgressInv'
  <2>1. ASSUME NEW j \in Started' \ shared'
        PROVE  /\ InOrder(job'[j])
               /\ j \notin AtWork' => job'[j].status \in {"failed", "complete"}
    <3>1. j \in Started \ shared /\ job'[j] = job[j]
      BY <2>1 DEF Started
    <3>2. j \notin AtWork' => j \notin AtWork
      OBVIOUS
    <3> QED  BY <3>1, <3>2 DEF UpgradeInv, ProgressInv
  <2> QED  BY <2>1 DEF ProgressInv
<1>3. GatewayInv'
  BY DEF GatewayInv
<1> QED  BY <1>1, <1>2, <1>3 DEF UpgradeInv

(* A job starts: alone, or beside the threads that are at work.            *)
LEMMA StartJobKeeps ==
  ASSUME UpgradeInv, NEW t \in Threads, NEW j \in Jobs,
         NEW selection \in Selections, NEW r \in Releases,
         StartJob(t, j, selection, r)
  PROVE  UpgradeInv'
<1> DEFINE new == [release |-> r, selection |-> selection,
                   status |-> "queued", current |-> 0, passed |-> {},
                   token |-> FALSE]
<1>1. /\ job[j] = NoJob /\ job' = [job EXCEPT ![j] = new]
      /\ Begin(t, j, "top") /\ last' = j
      /\ shared' = IF Busy = {} THEN shared ELSE shared \cup AtWork \cup {j}
      /\ UNCHANGED <<gateway, requests, failures, tampered>>
  BY DEF StartJob
<1>2. new \in JobRecord
  BY DEF JobRecord, Statuses, Finished, Phases
<1>3. /\ new.status = "queued" /\ new.passed = {} /\ new.current = 0
      /\ new.selection.phases \subseteq Phases
  BY SelectionIs
<1> HIDE DEF new
<1>4. UpgradeTypeOK /\ "top" \in Doing
  BY DEF UpgradeInv, Doing
<1>5. /\ job'[j] = new /\ DOMAIN job' = Jobs
      /\ \A k \in Jobs : k # j => job'[k] = job[k]
      /\ new # NoJob
  BY <1>1, <1>2, <1>4 DEF UpgradeTypeOK
<1>6. /\ t \notin Busy /\ Busy' = Busy \cup {t}
      /\ AtWork' = AtWork \cup {j}
      /\ thread'[t] = [job |-> j, at |-> "top", phase |-> 0]
      /\ \A u \in Busy : thread'[u] = thread[u]
      /\ DOMAIN thread' = Threads
      /\ \A u \in Threads :
           \/ thread'[u] = Free
           \/ thread'[u] \in [job : Jobs, at : Doing, phase : Phases]
  BY <1>1, <1>4, BeginIs
<1>7. AtWork \subseteq Jobs
  BY BusyIs DEF AtWork
<1>8. UpgradeTypeOK'
  <2>1. \A k \in Jobs : job'[k] = NoJob \/ job'[k] \in JobRecord
    BY <1>2, <1>4, <1>5 DEF UpgradeTypeOK
  <2>2. shared' \subseteq Jobs /\ last' \in Jobs
    BY <1>1, <1>4, <1>7 DEF UpgradeTypeOK
  <2> QED  BY <1>1, <1>4, <1>5, <1>6, <2>1, <2>2 DEF UpgradeTypeOK
<1>9. last' = j /\ j \in Started' /\ Started \subseteq Started'
  BY <1>1, <1>5 DEF Started
<1>10. CASE Busy # {}
  <2>1. shared' = shared \cup AtWork \cup {j}
    BY <1>1, <1>10
  <2>2. \A u \in Busy' : /\ thread'[u].job \in shared'
                         /\ thread'[u].job \in Started'
    BY <1>6, <1>9, <2>1, BusyIs
  <2> QED  BY <1>5, <1>6, <1>8, <1>9, <2>1, <2>2, SharedKeeps
<1>11. CASE Busy = {}
  <2>1. /\ shared' = shared /\ Busy' = {t} /\ thread'[t].job = j
        /\ thread'[t].at = "top"
    BY <1>1, <1>6, <1>11
  <2>2. AloneInv'
    BY <1>5, <1>9, <2>1 DEF AloneInv, CommandNames
  <2>3. ProgressInv'
    <3>1. InPlace(thread'[t], job'[j])
      BY <1>3, <1>5, <2>1 DEF InPlace
    <3>2. InOrder(job'[j])
      BY <1>3, <1>5 DEF InOrder, Phases
    <3>3. j \in AtWork'
      BY <1>6
    <3>4. ASSUME NEW k \in Started' \ shared', k # j
          PROVE  /\ InOrder(job'[k])
                 /\ k \notin AtWork' =>
                      job'[k].status \in {"failed", "complete"}
      <4>1. k \in Started \ shared /\ job'[k] = job[k]
        BY <1>5, <2>1, <3>4 DEF Started
      <4> QED  BY <1>6, <4>1 DEF UpgradeInv, ProgressInv
    <3> QED  BY <2>1, <3>1, <3>2, <3>3, <3>4 DEF ProgressInv
  <2>4. GatewayInv'
    BY <1>3, <1>5, <1>9 DEF GatewayInv, Passed
  <2> QED  BY <1>8, <1>9, <2>2, <2>3, <2>4 DEF UpgradeInv
<1> QED  BY <1>10, <1>11

(* A thread starts for a job that is not alone, and sets its status.       *)
LEMMA JoinKeeps ==
  ASSUME UpgradeInv, NEW t \in Threads, NEW j \in Jobs, NEW at \in Doing,
         NEW status \in Statuses, Begin(t, j, at), j \in Started,
         job' = [job EXCEPT ![j].status = status],
         last' \in {j, last}, shared \subseteq shared', shared' \subseteq Jobs,
         j \in shared', last' \in shared', AtWork \subseteq shared',
         requests' \in 0..MaxRequests, tampered' \subseteq Jobs,
         UNCHANGED <<gateway, failures>>
  PROVE  UpgradeInv'
<1> DEFINE new == [job[j] EXCEPT !.status = status]
<1>1. UpgradeTypeOK /\ DOMAIN job = Jobs /\ job[j] \in JobRecord
  BY DEF UpgradeInv, UpgradeTypeOK, Started
<1>2. new \in JobRecord /\ new # NoJob
  BY <1>1 DEF JobRecord
<1> HIDE DEF new
<1>3. /\ job' = [job EXCEPT ![j] = new]
      /\ job'[j] = new /\ DOMAIN job' = Jobs
      /\ \A k \in Jobs : k # j => job'[k] = job[k]
  BY <1>1 DEF new
<1>4. /\ t \notin Busy /\ Busy' = Busy \cup {t}
      /\ AtWork' = AtWork \cup {j}
      /\ thread'[t] = [job |-> j, at |-> at, phase |-> 0]
      /\ \A u \in Busy : thread'[u] = thread[u]
      /\ DOMAIN thread' = Threads
      /\ \A u \in Threads :
           \/ thread'[u] = Free
           \/ thread'[u] \in [job : Jobs, at : Doing, phase : Phases]
  BY BeginIs
<1>5. Started' = Started
  BY <1>2, <1>3 DEF Started
<1>6. last' \in Started'
  <2>1. last \in Started
    BY DEF UpgradeInv
  <2> QED  BY <1>5, <2>1
<1>7. UpgradeTypeOK'
  <2>1. \A k \in Jobs : job'[k] = NoJob \/ job'[k] \in JobRecord
    BY <1>1, <1>2, <1>3 DEF UpgradeTypeOK
  <2>2. last' \in Jobs
    BY <1>6 DEF Started
  <2> QED  BY <1>1, <1>3, <1>4, <2>1, <2>2 DEF UpgradeTypeOK
<1>8. \A u \in Busy' : thread'[u].job \in shared' /\ thread'[u].job \in Started'
  BY <1>4, <1>5, BusyIs
<1> QED  BY <1>3, <1>4, <1>6, <1>7, <1>8, SharedKeeps

(* A job that waits is being worked off, so that its continuation joins.   *)
LEMMA ContinueKeeps ==
  ASSUME UpgradeInv, NEW t \in Threads, NEW j \in Jobs, ContinueJob(t, j)
  PROVE  UpgradeInv'
<1>1. /\ job[j] # NoJob /\ job[j].status = "waiting"
      /\ requests < MaxRequests /\ requests' = requests + 1
      /\ job' = [job EXCEPT ![j].status = "queued"]
      /\ Begin(t, j, "top") /\ last' = j
      /\ shared' = IF Busy = {} THEN shared ELSE shared \cup AtWork \cup {j}
      /\ UNCHANGED <<gateway, failures, tampered>>
  BY DEF ContinueJob
<1>2. UpgradeTypeOK /\ "top" \in Doing /\ "queued" \in Statuses
  BY DEF UpgradeInv, Doing, Statuses
<1>3. j \in Started /\ AtWork \subseteq Jobs
  BY <1>1, BusyIs DEF Started, AtWork
<1>4. j \in shared'
  <2>1. CASE Busy = {}
    <3>1. j \notin AtWork
      BY <2>1 DEF AtWork
    <3> QED  BY <1>1, <1>3, <2>1, <3>1 DEF UpgradeInv, ProgressInv
  <2>2. CASE Busy # {}
    BY <1>1, <2>2
  <2> QED  BY <2>1, <2>2
<1>5. /\ AtWork \subseteq shared' /\ shared \subseteq shared'
      /\ shared' \subseteq Jobs
  BY <1>1, <1>2, <1>3 DEF AtWork, UpgradeTypeOK
<1>6. requests' \in 0..MaxRequests /\ tampered' \subseteq Jobs
  BY <1>1, <1>2 DEF UpgradeTypeOK
<1> QED  BY <1>1, <1>2, <1>3, <1>4, <1>5, <1>6, JoinKeeps

(* Commands share the gateway with the last job, even one that has ended.  *)
LEMMA CommandsKeep ==
  ASSUME UpgradeInv, NEW t \in Threads, NEW j \in Jobs,
         NEW command \in CommandNames, StartCommands(t, j, command)
  PROVE  UpgradeInv'
<1>1. /\ job[j] # NoJob /\ requests < MaxRequests
      /\ job' = [job EXCEPT ![j].status = "running"]
      /\ Begin(t, j, command) /\ requests' = requests + 1
      /\ tampered' = tampered \cup {j}
      /\ shared' = (shared \cup AtWork \cup {j, last}) \ {NoJob}
      /\ UNCHANGED <<gateway, failures, last>>
  BY DEF StartCommands
<1>2. UpgradeTypeOK /\ command \in Doing /\ "running" \in Statuses
  BY DEF UpgradeInv, Doing, Statuses
<1>3. j \in Started /\ AtWork \subseteq Jobs
  BY <1>1, BusyIs DEF Started, AtWork
<1>4. last \in Jobs
  BY <1>3 DEF UpgradeInv, Started
<1>5. /\ AtWork \subseteq shared' /\ shared \subseteq shared'
      /\ shared' \subseteq Jobs
      /\ j \in shared' /\ last' \in shared' /\ last' = last
  BY <1>1, <1>2, <1>3, <1>4 DEF UpgradeTypeOK
<1>6. requests' \in 0..MaxRequests /\ tampered' \subseteq Jobs
  BY <1>1, <1>2 DEF UpgradeTypeOK
<1> QED  BY <1>1, <1>2, <1>3, <1>5, <1>6, JoinKeeps

-----------------------------------------------------------------------------
(* A step of a thread: what it does for a job that is alone decides.       *)
LEMMA ThreadKeeps ==
  ASSUME UpgradeInv, NEW t \in Busy, NEW j, j = thread[t].job,
         NEW new \in JobRecord, job'[j] = new, DOMAIN job' = Jobs,
         \A k \in Jobs : k # j => job'[k] = job[k],
         NEW to, thread' = [thread EXCEPT ![t] = to],
         \/ to = Free
         \/ /\ to \in [job : Jobs, at : Doing \ CommandNames, phase : Phases]
            /\ to.job = j,
         gateway' \in Hosts, failures' \in 0..MaxFailures,
         UNCHANGED <<requests, last, tampered, shared>>,
         j \notin shared =>
           /\ InOrder(new)
           /\ IF to = Free THEN new.status \in {"failed", "complete"}
              ELSE InPlace(to, new)
           /\ j = last => GatewayInv'
  PROVE  UpgradeInv'
<1>1. /\ UpgradeTypeOK /\ t \in Threads /\ j \in Jobs
      /\ DOMAIN job = Jobs /\ DOMAIN thread = Threads
      /\ j \in Started /\ j \in AtWork
  BY BusyIs DEF UpgradeInv, UpgradeTypeOK
<1>2. /\ job'[j] = new /\ DOMAIN job' = Jobs /\ new # NoJob
      /\ \A k \in Jobs : k # j => job'[k] = job[k]
  BY <1>1
<1>3. /\ thread'[t] = to /\ DOMAIN thread' = Threads
      /\ \A u \in Threads : u # t => thread'[u] = thread[u]
  BY <1>1
<1>4. to # Free => /\ to \in [job : Jobs, at : Doing, phase : Phases]
                   /\ to.at \notin CommandNames /\ to.job = j
  OBVIOUS
<1>5. UpgradeTypeOK'
  <2>1. \A k \in Jobs : job'[k] = NoJob \/ job'[k] \in JobRecord
    BY <1>1, <1>2 DEF UpgradeTypeOK
  <2>2. \A u \in Threads :
          \/ thread'[u] = Free
          \/ thread'[u] \in [job : Jobs, at : Doing, phase : Phases]
    BY <1>1, <1>3, <1>4 DEF UpgradeTypeOK
  <2> QED  BY <1>1, <1>2, <1>3, <2>1, <2>2 DEF UpgradeTypeOK
<1>6. Started' = Started
  BY <1>1, <1>2 DEF Started
<1>7. /\ Busy' \subseteq Busy
      /\ \A u \in Busy' : /\ thread'[u].job = thread[u].job
                          /\ u # t => thread'[u] = thread[u]
      /\ t \in Busy' <=> to # Free
  BY <1>1, <1>3, <1>4 DEF Busy
<1>8. AloneInv'
  <2>1. \A u \in Busy' : job'[thread'[u].job] # NoJob
    BY <1>6, <1>7, BusyIs DEF Started
  <2>2. \A u, v \in Busy' : u # v => thread'[u].job \in shared'
    BY <1>7 DEF UpgradeInv, AloneInv
  <2>3. \A u \in Busy' :
          thread'[u].at \in CommandNames => thread'[u].job \in shared'
    BY <1>3, <1>4, <1>7 DEF UpgradeInv, AloneInv
  <2>4. last' \notin shared' => \A u \in Busy' : thread'[u].job = last'
    BY <1>7 DEF UpgradeInv, AloneInv
  <2> QED  BY <2>1, <2>2, <2>3, <2>4 DEF AloneInv
<1>9. ProgressInv'
  <2>1. ASSUME NEW u \in Busy', thread'[u].job \notin shared'
        PROVE  InPlace(thread'[u], job'[thread'[u].job])
    <3>1. u = t
      BY <1>7, <2>1 DEF UpgradeInv, AloneInv
    <3> QED  BY <1>2, <1>3, <1>4, <1>7, <2>1, <3>1
  <2>2. ASSUME NEW k \in Started' \ shared'
        PROVE  /\ InOrder(job'[k])
               /\ k \notin AtWork' => job'[k].status \in {"failed", "complete"}
    <3>1. CASE k = j
      <4>1. j \notin shared
        BY <2>2, <3>1
      <4>2. to # Free => j \in AtWork'
        BY <1>3, <1>4, <1>7 DEF AtWork
      <4> QED  BY <1>2, <3>1, <4>1, <4>2
    <3>2. CASE k # j
      <4>1. k \in Started \ shared /\ job'[k] = job[k]
        BY <1>2, <1>6, <2>2, <3>2 DEF Started
      <4>2. ASSUME k \in AtWork
            PROVE  k \in AtWork'
        <5>1. PICK u \in Busy : thread[u].job = k
          BY <4>2 DEF AtWork
        <5>2. u # t /\ u \in Threads /\ thread[u] # Free
          BY <3>2, <5>1 DEF Busy
        <5>3. u \in Busy' /\ thread'[u].job = k
          BY <1>3, <5>1, <5>2 DEF Busy
        <5> QED  BY <5>3 DEF AtWork
      <4> QED  BY <4>1, <4>2 DEF UpgradeInv, ProgressInv
    <3> QED  BY <3>1, <3>2
  <2> QED  BY <2>1, <2>2 DEF ProgressInv
<1>10. GatewayInv'
  <2>1. CASE last \in shared
    BY <2>1 DEF GatewayInv
  <2>2. CASE last \notin shared
    <3>1. j = last
      BY <2>2 DEF UpgradeInv, AloneInv
    <3> QED  BY <2>2, <3>1
  <2> QED  BY <2>1, <2>2
<1> QED  BY <1>5, <1>6, <1>8, <1>9, <1>10 DEF UpgradeInv

(* A thread that rests from its job changes no job.                        *)
LEMMA LeaveKeeps ==
  ASSUME UpgradeInv, NEW t \in Threads, LeaveJob(t)
  PROVE  UpgradeInv'
<1> DEFINE j == thread[t].job
<1>1. /\ thread[t].at = "check" /\ job[j].status \in {"failed", "complete"}
      /\ thread' = [thread EXCEPT ![t] = Free]
      /\ UNCHANGED <<job, gateway, requests, failures, last, tampered, shared>>
  BY DEF LeaveJob, Stops
<1>2. t \in Busy
  BY <1>1 DEF Busy, Free
<1>3. /\ UpgradeTypeOK /\ job[j] \in JobRecord /\ DOMAIN job = Jobs
      /\ j \in Jobs /\ j \in Started
  BY <1>2, BusyIs DEF UpgradeInv, UpgradeTypeOK
<1> HIDE DEF j
<1>4. /\ job'[j] = job[j] /\ DOMAIN job' = Jobs
      /\ \A k \in Jobs : k # j => job'[k] = job[k]
  BY <1>1, <1>3
<1>5. gateway' \in Hosts /\ failures' \in 0..MaxFailures
  BY <1>1, <1>3 DEF UpgradeTypeOK
<1>6. j \notin shared => InOrder(job[j])
  BY <1>3 DEF UpgradeInv, ProgressInv
<1>7. GatewayInv'
  BY <1>1 DEF UpgradeInv, GatewayInv, Passed
<1> QED  BY <1>1, <1>2, <1>3, <1>4, <1>5, <1>6, <1>7, ThreadKeeps DEF j

(* The next phase is the first selected one that is not behind.            *)
LEMMA NextPhaseIs ==
  ASSUME NEW j \in Jobs, job[j] \in JobRecord
  PROVE  LET left == {p \in job[j].selection.phases : p >= job[j].current}
             next == NextPhase(j)
         IN  \/ left = {} /\ next = Finished
             \/ /\ next \in left /\ next \in Phases /\ next # Finished
                /\ \A q \in left : next <= q
<1> DEFINE left == {p \in job[j].selection.phases : p >= job[j].current}
<1>1. left \subseteq 0..11
  BY SelectionIs DEF JobRecord, Phases
<1>2. CASE left = {}
  BY <1>2 DEF NextPhase
<1>3. CASE left # {}
  <2>1. \E p \in left : \A q \in left : p <= q
    <3>1. left \subseteq Nat
      BY <1>1
    <3>2. PICK p \in left : \A q \in left : p <= q
      BY <1>3, <3>1, LeastOf
    <3> QED  BY <3>2
  <2>2. NextPhase(j) = CHOOSE p \in left : \A q \in left : p <= q
    BY <1>3 DEF NextPhase
  <2>3. NextPhase(j) \in left /\ \A q \in left : NextPhase(j) <= q
    <3> HIDE DEF left
    <3> QED  BY <2>1, <2>2
  <2>4. NextPhase(j) \in 0..11
    BY <1>1, <2>3
  <2> QED  BY <2>3, <2>4 DEF Phases, Finished
<1> QED  BY <1>2, <1>3

(* A thread takes the next phase, or finds that there is none.             *)
LEMMA TakePhaseKeeps ==
  ASSUME UpgradeInv, NEW t \in Threads, TakePhase(t)
  PROVE  UpgradeInv'
<1> DEFINE j == thread[t].job  p == NextPhase(j)
           selected == job[j].selection.phases
           At(n, s) == [job[j] EXCEPT !.status = s, !.current = n]
<1>1. /\ thread[t].at \in {"top", "check"} /\ ~Stops(t)
      /\ UNCHANGED <<gateway, requests, failures, last, tampered, shared>>
  BY DEF TakePhase
<1>2. t \in Busy
  BY <1>1 DEF Busy, Free
<1>3. /\ UpgradeTypeOK /\ job[j] \in JobRecord /\ DOMAIN job = Jobs
      /\ j \in Jobs /\ j \in Started /\ DOMAIN thread = Threads
      /\ thread[t] \in [job : Jobs, at : Doing, phase : Phases]
      /\ gateway' \in Hosts /\ failures' \in 0..MaxFailures
  BY <1>1, <1>2, BusyIs DEF UpgradeInv, UpgradeTypeOK
<1>4. /\ selected \subseteq 0..11 /\ job[j].current \in 0..12
      /\ job[j].passed \subseteq 0..11
  BY <1>3, SelectionIs DEF JobRecord, Phases, Finished
<1>5. \/ /\ p = Finished /\ \A q \in selected : q < job[j].current
      \/ /\ p \in selected /\ p \in Phases /\ p # Finished
         /\ p >= job[j].current
         /\ \A q \in selected : q >= job[j].current => p <= q
  <2>1. \A q \in selected : q < job[j].current \/ q >= job[j].current
    BY <1>4
  <2> HIDE DEF p
  <2> QED  BY <1>3, <2>1, NextPhaseIs DEF p
<1>13. j \notin shared => job[j].status \in {"queued", "waiting"}
  BY <1>1, <1>2 DEF UpgradeInv, ProgressInv, InPlace, Stops
<1>6. j \notin shared =>
        job[j].passed = {q \in selected : q < job[j].current}
  BY <1>3, <1>13 DEF UpgradeInv, ProgressInv, InOrder
<1>8. \A n \in 0..Finished, s \in Statuses :
        /\ At(n, s) \in JobRecord
        /\ At(n, s).status = s /\ At(n, s).current = n
        /\ At(n, s).release = job[j].release
        /\ At(n, s).passed = job[j].passed
        /\ At(n, s).selection = job[j].selection
  BY <1>3 DEF JobRecord
<1>12. "complete" \in Statuses /\ job[j].status \in Statuses
       /\ Finished \in 0..Finished /\ 0..11 \subseteq 0..Finished
  BY <1>3 DEF JobRecord, Statuses, Finished
<1>9. ASSUME NEW new \in JobRecord, new.release = job[j].release,
             new.selection = job[j].selection, new.passed = job[j].passed,
             job'[j] = new, j \notin shared, j = last
      PROVE  GatewayInv'
  <2>1. job[last].status # "failed"
    BY <1>1, <1>2, <1>9 DEF UpgradeInv, ProgressInv, InPlace, Stops
  <2> QED  BY <1>1, <1>3, <1>9, <2>1 DEF UpgradeInv, GatewayInv, Passed, Started
<1>10. CASE p = Finished
  <2> DEFINE new == At(Finished, "complete")
  <2>1. /\ job' = [job EXCEPT ![j] = new]
        /\ thread' = [thread EXCEPT ![t] = Free]
    BY <1>3, <1>10 DEF TakePhase
  <2>2. /\ new \in JobRecord /\ new.status = "complete"
        /\ new.current = Finished
        /\ new.release = job[j].release /\ new.passed = job[j].passed
        /\ new.selection = job[j].selection
    <3> HIDE DEF At
    <3> QED  BY <1>8, <1>12
  <2> HIDE DEF new
  <2>3. /\ job'[j] = new /\ DOMAIN job' = Jobs
        /\ \A k \in Jobs : k # j => job'[k] = job[k]
    BY <1>3, <2>1
  <2>4. j \notin shared => InOrder(new)
    <3>1. ASSUME j \notin shared
          PROVE  new.passed = {q \in selected : q < Finished}
      <4>1. \A q \in selected : q < job[j].current /\ q < Finished
        BY <1>4, <1>5, <1>10 DEF Finished
      <4> QED  BY <1>6, <2>2, <3>1, <4>1
    <3> QED  BY <2>2, <3>1 DEF InOrder
  <2>5. j \notin shared =>
          /\ InOrder(new) /\ new.status \in {"failed", "complete"}
          /\ j = last => GatewayInv'
    BY <1>9, <2>2, <2>3, <2>4
  <2>6. /\ j = thread[t].job /\ new \in JobRecord
        /\ thread' = [thread EXCEPT ![t] = Free]
        /\ gateway' \in Hosts /\ failures' \in 0..MaxFailures
        /\ UNCHANGED <<requests, last, tampered, shared>>
    BY <1>1, <1>3, <2>1, <2>2
  <2> HIDE DEF j, p, At, selected
  <2> QED  BY <1>2, <2>3, <2>5, <2>6, ThreadKeeps
<1>11. CASE p # Finished
  <2> DEFINE new == [job[j] EXCEPT !.current = p]
             to == [thread[t] EXCEPT !.at = "taken", !.phase = p]
  <2>1. /\ job' = [job EXCEPT ![j] = new]
        /\ thread' = [thread EXCEPT ![t] = to]
    BY <1>3, <1>11 DEF TakePhase
  <2>2. /\ p \in 0..11 /\ p \in selected /\ p >= job[j].current
        /\ \A q \in selected : q >= job[j].current => p <= q
    BY <1>5, <1>11 DEF Phases
  <2> HIDE DEF p
  <2>3. /\ new \in JobRecord /\ new.status = job[j].status
        /\ new.current = p
        /\ new.release = job[j].release /\ new.passed = job[j].passed
        /\ new.selection = job[j].selection
    BY <1>3, <1>12, <2>2 DEF JobRecord
  <2>4. /\ to \in [job : Jobs, at : Doing \ CommandNames, phase : Phases]
        /\ to.job = j /\ to.at = "taken" /\ to.phase = p
    BY <1>3, <2>2 DEF Doing, CommandNames, Phases
  <2> HIDE DEF new, to
  <2>5. /\ job'[j] = new /\ DOMAIN job' = Jobs
        /\ \A k \in Jobs : k # j => job'[k] = job[k]
    BY <1>3, <2>1
  <2>6. j \notin shared => InOrder(new)
    <3>1. {q \in selected : q < job[j].current} = {q \in selected : q < p}
      BY <1>4, <2>2
    <3>2. j \notin shared => job[j].status # "complete"
      BY <1>13
    <3> QED  BY <1>6, <2>3, <3>1, <3>2 DEF InOrder
  <2>7. j \notin shared => InPlace(to, new)
    BY <1>13, <2>2, <2>3, <2>4 DEF InPlace
  <2>8. to # Free
    BY <2>4 DEF Free
  <2> HIDE DEF j
  <2> QED  BY <1>1, <1>2, <1>3, <1>9, <2>1, <2>3, <2>4, <2>5, <2>6, <2>7,
              <2>8, ThreadKeeps DEF j
<1> QED  BY <1>10, <1>11

(* The job says that it is running the phase its thread has taken.         *)
LEMMA RunPhaseKeeps ==
  ASSUME UpgradeInv, NEW t \in Threads, RunPhase(t)
  PROVE  UpgradeInv'
<1> DEFINE j == thread[t].job
           new == [job[j] EXCEPT !.status = "running"]
           to == [thread[t] EXCEPT !.at = "phase"]
<1>1. /\ thread[t].at = "taken"
      /\ UNCHANGED <<gateway, requests, failures, last, tampered, shared>>
  BY DEF RunPhase
<1>2. t \in Busy
  BY <1>1 DEF Busy, Free
<1>3. /\ UpgradeTypeOK /\ job[j] \in JobRecord /\ DOMAIN job = Jobs
      /\ j \in Jobs /\ j \in Started /\ DOMAIN thread = Threads
      /\ thread[t] \in [job : Jobs, at : Doing, phase : Phases]
      /\ gateway' \in Hosts /\ failures' \in 0..MaxFailures
  BY <1>1, <1>2, BusyIs DEF UpgradeInv, UpgradeTypeOK
<1>4. /\ job' = [job EXCEPT ![j] = new]
      /\ thread' = [thread EXCEPT ![t] = to]
  BY <1>3 DEF RunPhase
<1>5. /\ new \in JobRecord /\ new.status = "running"
      /\ new.current = job[j].current
      /\ new.release = job[j].release /\ new.passed = job[j].passed
      /\ new.selection = job[j].selection
  BY <1>3 DEF JobRecord, Statuses
<1>6. /\ to \in [job : Jobs, at : Doing \ CommandNames, phase : Phases]
      /\ to.job = j /\ to.at = "phase" /\ to.phase = thread[t].phase
  BY <1>3 DEF Doing, CommandNames
<1> HIDE DEF new, to
<1>7. /\ job'[j] = new /\ DOMAIN job' = Jobs
      /\ \A k \in Jobs : k # j => job'[k] = job[k]
  BY <1>3, <1>4
<1>8. j \notin shared =>
        /\ job[j].current = thread[t].phase
        /\ job[j].status \in {"queued", "waiting"}
        /\ thread[t].phase \in job[j].selection.phases
  BY <1>1, <1>2 DEF UpgradeInv, ProgressInv, InPlace
<1>9. j \notin shared => InOrder(new)
  BY <1>3, <1>5, <1>8 DEF UpgradeInv, ProgressInv, InOrder
<1>10. j \notin shared => InPlace(to, new)
  BY <1>5, <1>6, <1>8 DEF InPlace
<1>11. j \notin shared /\ j = last => GatewayInv'
  BY <1>1, <1>3, <1>5, <1>7, <1>8
     DEF UpgradeInv, GatewayInv, Passed, Started
<1>12. to # Free
  BY <1>6 DEF Free
<1> HIDE DEF j
<1> QED  BY <1>1, <1>2, <1>3, <1>4, <1>5, <1>6, <1>7, <1>9, <1>10, <1>11,
            <1>12, ThreadKeeps DEF j

(* The phase a job is at passes.                                           *)
LEMMA PassPhaseKeeps ==
  ASSUME UpgradeInv, NEW t \in Threads, PassPhase(t)
  PROVE  UpgradeInv'
<1> DEFINE j == thread[t].job  p == thread[t].phase
           selected == job[j].selection.phases
           new == [job[j] EXCEPT !.passed = @ \cup {p}, !.current = p + 1,
                     !.token = @ \/ p = 6,
                     !.status = IF p = 11 THEN "complete" ELSE "waiting"]
           to == [thread[t] EXCEPT !.at = "check", !.phase = 0]
<1>1. /\ thread[t].at = "phase" /\ gateway' \in Passing(j, p)
      /\ UNCHANGED <<requests, failures, last, tampered, shared>>
  BY DEF PassPhase
<1>2. t \in Busy
  BY <1>1 DEF Busy, Free
<1>3. /\ UpgradeTypeOK /\ job[j] \in JobRecord /\ DOMAIN job = Jobs
      /\ j \in Jobs /\ j \in Started /\ DOMAIN thread = Threads
      /\ thread[t] \in [job : Jobs, at : Doing, phase : Phases]
      /\ failures' \in 0..MaxFailures /\ gateway \in Hosts
      /\ p \in Phases
  BY <1>1, <1>2, BusyIs DEF UpgradeInv, UpgradeTypeOK
<1>4. /\ job' = [job EXCEPT ![j] = new]
      /\ thread' = [thread EXCEPT ![t] = to]
  BY <1>3 DEF PassPhase
<1>5. /\ selected \subseteq 0..11 /\ p \in 0..11
      /\ p + 1 \in 0..Finished
      /\ p = 11 => p + 1 = Finished
  BY <1>3, SelectionIs DEF JobRecord, Phases, Finished
<1>6. gateway' \in Hosts
  BY <1>1, <1>3, PassingTypes
<1> HIDE DEF p
<1>7. /\ new \in JobRecord /\ new.release = job[j].release
      /\ new.selection = job[j].selection
      /\ new.passed = job[j].passed \cup {p} /\ new.current = p + 1
      /\ new.status = IF p = 11 THEN "complete" ELSE "waiting"
  <2> DEFINE passed == job[j].passed \cup {p}
             carries == job[j].token \/ p = 6
             status == IF p = 11 THEN "complete" ELSE "waiting"
  <2>1. passed \in SUBSET Phases /\ p + 1 \in 0..Finished
    BY <1>3, <1>5 DEF JobRecord
  <2>2. carries \in BOOLEAN /\ status \in Statuses
    BY DEF Statuses
  <2>3. new = [job[j] EXCEPT !.passed = passed, !.current = p + 1,
                             !.token = carries, !.status = status]
    OBVIOUS
  <2> HIDE DEF new, passed, carries, status
  <2>4. /\ new \in JobRecord
        /\ new.release = job[j].release /\ new.selection = job[j].selection
        /\ new.passed = passed /\ new.current = p + 1 /\ new.status = status
    <3> HIDE DEF j
    <3>1. job[j] \in JobRecord
      BY <1>3
    <3> QED  BY <3>1, <2>1, <2>2, <2>3 DEF JobRecord
  <2>5. new.passed = job[j].passed \cup {p}
    BY <2>4, Zenon DEF passed
  <2>6. new.status = IF p = 11 THEN "complete" ELSE "waiting"
    BY <2>4, Zenon DEF status
  <2> QED  BY <2>4, <2>5, <2>6, Zenon
<1>8. /\ to \in [job : Jobs, at : Doing \ CommandNames, phase : Phases]
      /\ to.job = j /\ to.at = "check"
  <2>1. thread[t] \in [job : Jobs, at : Doing, phase : Phases]
    BY <1>3
  <2>2. "check" \in Doing \ CommandNames /\ 0 \in Phases
    BY DEF Doing, CommandNames, Phases
  <2> QED  BY <2>1, <2>2
<1> HIDE DEF new, to
<1>9. /\ job'[j] = new /\ DOMAIN job' = Jobs
      /\ \A k \in Jobs : k # j => job'[k] = job[k]
  BY <1>3, <1>4
<1>10. InPlace(to, new) /\ to # Free
  BY <1>7, <1>8 DEF InPlace, Free
<1>11. ASSUME j \notin shared
       PROVE  /\ p \in selected /\ job[j].status = "running"
              /\ job[j].passed = {q \in selected : q < p}
  BY <1>1, <1>2, <1>3, <1>11
     DEF UpgradeInv, ProgressInv, InPlace, InOrder, p
<1>12. ASSUME j \notin shared
       PROVE  InOrder(new)
  <2>1. new.passed = {q \in selected : q < new.current}
    <3>1. \A q \in selected : q < p + 1 <=> q < p \/ q = p
      BY <1>5
    <3> QED  BY <1>7, <1>11, <1>12, <3>1
  <2>2. new.status = "complete" => p = 11
    BY <1>7, Zenon
  <2>3. new.status = "complete" => new.current = Finished
    BY <1>5, <1>7, <2>2, Zenon
  <2>4. /\ new.status # "failed" =>
             new.passed = {q \in new.selection.phases : q < new.current}
        /\ new.status = "complete" => new.current = Finished
    BY <1>7, <2>1, <2>3
  <2> QED  BY <2>4, Zenon DEF InOrder
<1>13. ASSUME j \notin shared, j = last
       PROVE  GatewayInv'
  <2> DEFINE r == job[j].release  before == job[j].passed
  <2>1. /\ job[j].status = "running" /\ before = {q \in selected : q < p}
        /\ new.passed = before \cup {p}
    BY <1>7, <1>11, <1>13
  <2>2. /\ last # NoJob /\ last' = last /\ job'[last'] = new
        /\ new.release = r /\ new.selection = job[j].selection
    BY <1>1, <1>3, <1>7, <1>9, <1>13
  <2>3. /\ 10 \in before => gateway.agentUp /\ gateway.agent = gateway.repo
        /\ 7 \in before => gateway.repo = r
        /\ job[j].selection.options = {} =>
             /\ 2 \in before => gateway.artifact = r
             /\ 2 \in before /\ 3 \in before => gateway.ui = r
             /\ 2 \in before /\ 3 \in before /\ 5 \notin before =>
                  gateway.served = None
             /\ 2 \in before /\ 3 \in before /\ 5 \in before =>
                  gateway.served = r
    BY <1>5, <1>13, <2>1, <2>2 DEF UpgradeInv, GatewayInv, Passed
  <2>4. /\ p = 10 => gateway'.agentUp /\ gateway'.agent = gateway'.repo
        /\ p = 11 => gateway' = gateway
        /\ p = 7 => gateway'.repo = r
        /\ p > 7 => gateway'.repo \in {gateway.repo, r}
        /\ p = 3 => /\ gateway'.artifact = gateway.artifact
                    /\ gateway'.ui = gateway.artifact
        /\ p > 3 => /\ gateway'.artifact = gateway.artifact
                    /\ gateway'.ui = gateway.ui
        /\ p = 5 => gateway'.served = IF gateway.served = None
                                      THEN gateway.ui ELSE gateway.served
        /\ p > 3 /\ p # 5 => gateway'.served = gateway.served
        /\ job[j].selection.options = {} =>
             /\ p = 2 => gateway'.artifact = r
             /\ p = 3 => gateway'.served = None
    BY <1>1, <1>3, PassingDoes DEF Option
  <2> HIDE DEF r, before
  <2>5. r \in Releases /\ r # None
    BY <1>3 DEF JobRecord, r
  <2>6. 10 \in new.passed => gateway'.agentUp /\ gateway'.agent = gateway'.repo
    BY <1>5, <2>1, <2>3, <2>4
  <2>7. 7 \in new.passed => gateway'.repo = r
    BY <1>5, <2>1, <2>3, <2>4
  <2>8. ASSUME job[j].selection.options = {}
        PROVE  /\ 2 \in new.passed => gateway'.artifact = r
               /\ 2 \in new.passed /\ 3 \in new.passed => gateway'.ui = r
               /\ 2 \in new.passed /\ 3 \in new.passed
                    /\ 5 \notin new.passed => gateway'.served = None
               /\ 2 \in new.passed /\ 3 \in new.passed
                    /\ 5 \in new.passed => gateway'.served = r
    <3>1. CASE p < 2
      BY <1>5, <2>1, <3>1
    <3>2. CASE p = 2
      BY <1>5, <2>1, <2>4, <2>8, <3>2
    <3>3. CASE p = 3
      BY <1>5, <2>1, <2>3, <2>4, <2>8, <3>3
    <3>4. CASE p = 5
      BY <1>5, <2>1, <2>3, <2>4, <2>5, <2>8, <3>4
    <3>5. CASE p > 3 /\ p # 5
      BY <1>5, <2>1, <2>3, <2>4, <2>8, <3>5
    <3> QED  BY <1>5, <3>1, <3>2, <3>3, <3>4, <3>5
  <2> QED  BY <2>2, <2>6, <2>7, <2>8 DEF GatewayInv, Passed
<1> HIDE DEF j
<1> QED  BY <1>1, <1>2, <1>3, <1>4, <1>6, <1>7, <1>8, <1>9, <1>10, <1>12,
            <1>13, ThreadKeeps DEF j

(* The phase a job is at fails.                                            *)
LEMMA FailPhaseKeeps ==
  ASSUME UpgradeInv, NEW t \in Threads, FailPhase(t)
  PROVE  UpgradeInv'
<1> DEFINE j == thread[t].job  p == thread[t].phase
           new == [job[j] EXCEPT !.passed = @ \ {p}, !.status = "failed"]
<1>1. /\ thread[t].at = "phase" /\ gateway' \in Failing(j, p)
      /\ MayFail(Passing(j, p)) /\ thread' = [thread EXCEPT ![t] = Free]
      /\ UNCHANGED <<requests, last, tampered, shared>>
  BY DEF FailPhase
<1>2. t \in Busy
  BY <1>1 DEF Busy, Free
<1>3. /\ UpgradeTypeOK /\ job[j] \in JobRecord /\ DOMAIN job = Jobs
      /\ j \in Jobs /\ j \in Started /\ gateway \in Hosts /\ p \in Phases
      /\ failures \in 0..MaxFailures
  BY <1>2, BusyIs DEF UpgradeInv, UpgradeTypeOK
<1>4. job' = [job EXCEPT ![j] = new]
  BY <1>3 DEF FailPhase
<1>5. gateway' \in Hosts
  BY <1>1, <1>3, PassingTypes
<1>6. failures' \in 0..MaxFailures
  <2> HIDE DEF p, j
  <2> QED  BY <1>1, <1>3 DEF MayFail
<1>7. /\ new \in JobRecord /\ new.status = "failed"
  <2>1. "failed" \in Statuses
    BY DEF Statuses
  <2>2. job[j] \in JobRecord
    BY <1>3
  <2> HIDE DEF j, p
  <2> QED  BY <2>1, <2>2 DEF JobRecord
<1> HIDE DEF new
<1>8. /\ job'[j] = new /\ DOMAIN job' = Jobs
      /\ \A k \in Jobs : k # j => job'[k] = job[k]
  BY <1>3, <1>4
<1>9. InOrder(new)
  BY <1>7 DEF InOrder
<1>10. j = last => GatewayInv'
  BY <1>1, <1>7, <1>8 DEF GatewayInv
<1> HIDE DEF j
<1> QED  BY <1>1, <1>2, <1>5, <1>6, <1>7, <1>8, <1>9, <1>10, ThreadKeeps DEF j

(* A group of commands ends; its job was not alone.                        *)
LEMMA EndCommandsKeeps ==
  ASSUME UpgradeInv, NEW t \in Threads, EndCommands(t)
  PROVE  UpgradeInv'
<1> DEFINE j == thread[t].job  command == thread[t].at
<1>1. /\ command \in CommandNames /\ thread' = [thread EXCEPT ![t] = Free]
      /\ UNCHANGED <<requests, last, tampered, shared>>
  BY DEF EndCommands
<1>2. t \in Busy
  BY <1>1 DEF Busy, Free, CommandNames
<1>3. /\ UpgradeTypeOK /\ job[j] \in JobRecord /\ DOMAIN job = Jobs
      /\ j \in Jobs /\ gateway \in Hosts /\ failures \in 0..MaxFailures
  BY <1>2, BusyIs DEF UpgradeInv, UpgradeTypeOK
<1>4. j \in shared
  BY <1>1, <1>2 DEF UpgradeInv, AloneInv
<1>5. /\ \/ gateway' \in AfterCommands(j, command)
         \/ gateway' \in AfterFailedCommands(j, command)
      /\ UNCHANGED failures \/ MayFail(AfterCommands(j, command))
      /\ \E s \in Statuses : job' = [job EXCEPT ![j].status = s]
  <2>1. "waiting" \in Statuses /\ "failed" \in Statuses
    BY DEF Statuses
  <2> QED  BY <2>1 DEF EndCommands
<1>6. gateway' \in Hosts
  BY <1>3, <1>5, CommandTypes
<1>7. failures' \in 0..MaxFailures
  <2> HIDE DEF command, j
  <2> QED  BY <1>3, <1>5 DEF MayFail
<1>8. PICK s \in Statuses : job' = [job EXCEPT ![j].status = s]
  BY <1>5
<1> DEFINE new == [job[j] EXCEPT !.status = s]
<1>9. job' = [job EXCEPT ![j] = new]
  BY <1>3, <1>8
<1>10. new \in JobRecord
  <2>1. job[j] \in JobRecord
    BY <1>3
  <2> HIDE DEF j
  <2> QED  BY <2>1 DEF JobRecord
<1> HIDE DEF new
<1>11. /\ job'[j] = new /\ DOMAIN job' = Jobs
       /\ \A k \in Jobs : k # j => job'[k] = job[k]
  BY <1>3, <1>9
<1> HIDE DEF j
<1> QED  BY <1>1, <1>2, <1>4, <1>6, <1>7, <1>10, <1>11, ThreadKeeps DEF j

LEMMA UpgradeInvStep ==
  ASSUME UpgradeInv, [UpgradeNext]_upgradeVars
  PROVE  UpgradeInv'
<1>1. ASSUME NEW t \in Threads, ThreadStep(t)
      PROVE  UpgradeInv'
  BY <1>1, LeaveKeeps, TakePhaseKeeps, RunPhaseKeeps, PassPhaseKeeps,
     FailPhaseKeeps, EndCommandsKeeps
     DEF ThreadStep
<1>2. ASSUME NEW t \in Threads, OperatorStep(t)
      PROVE  UpgradeInv'
  BY <1>2, StartJobKeeps, ContinueKeeps, CommandsKeep DEF OperatorStep
<1>3. CASE UNCHANGED upgradeVars
  <2> USE <1>3 DEF upgradeVars
  <2>1. UpgradeTypeOK'
    BY DEF UpgradeInv, UpgradeTypeOK
  <2>2. AloneInv'
    BY DEF UpgradeInv, AloneInv, Busy
  <2>3. ProgressInv'
    BY DEF UpgradeInv, ProgressInv, Busy, Started, AtWork
  <2>4. GatewayInv'
    BY DEF UpgradeInv, GatewayInv, Passed
  <2> QED  BY <2>1, <2>2, <2>3, <2>4 DEF UpgradeInv, Started
<1> QED  BY <1>1, <1>2, <1>3 DEF UpgradeNext

(* Every reachable state satisfies UpgradeInv: with any number of jobs,    *)
(* threads and releases, and each selection that parse_upgrade_request     *)
(* lets pass, a job that nothing works beside has passed exactly the       *)
(* selected phases below the one it is at, and the gateway holds what      *)
(* those phases left (run_until_checkpoint, run_phase).                    *)
THEOREM UpgradeInvHolds == UpgradeSpec => []UpgradeInv
<1>1. UpgradeInit => UpgradeInv
  BY UpgradeInvInit
<1>2. UpgradeInv /\ [UpgradeNext]_upgradeVars => UpgradeInv'
  BY UpgradeInvStep
<1> QED  BY <1>1, <1>2, PTL DEF UpgradeSpec

(* A job that says complete, and that no thread worked beside, has passed  *)
(* all of its phases.  If it is the last one and restarted the agent, its  *)
(* release is what runs, for no selection of a real run restarts the agent *)
(* without checking the release out; if it went through the interface's    *)
(* phases, its release is what is served: whatever failed before it, at    *)
(* whichever command, and whatever the final checks of the older updater   *)
(* found.                                                                  *)
THEOREM CompleteTheorem == UpgradeSpec => []CompleteIsTrue
<1>1. ASSUME UpgradeInv
      PROVE  CompleteIsTrue
  <2>1. ASSUME NEW k \in Started, job[k].status = "complete", Alone(k)
        PROVE  job[k].passed = job[k].selection.phases
    <3>1. /\ job[k].current = Finished
          /\ job[k].passed =
               {q \in job[k].selection.phases : q < job[k].current}
      BY <1>1, <2>1 DEF UpgradeInv, ProgressInv, InOrder, Alone
    <3>2. job[k].selection.phases \subseteq 0..11
      BY <1>1, SelectionIs
         DEF UpgradeInv, UpgradeTypeOK, Started, JobRecord, Phases
    <3> QED  BY <3>1, <3>2 DEF Finished
  <2>2. CompleteMeansPassed
    BY <2>1 DEF CompleteMeansPassed
  <2>3. ASSUME last # NoJob, Alone(last), job[last].status = "complete"
        PROVE  /\ last \in Started /\ job[last].status # "failed"
               /\ job[last].passed = job[last].selection.phases
               /\ last \notin shared
    BY <1>1, <2>1, <2>3 DEF UpgradeInv, Alone
  <2>4. ReleaseIsRunning
    <3>1. ASSUME last # NoJob, Alone(last), job[last].status = "complete",
                 10 \in job[last].selection.phases
          PROVE  Passed(7) /\ Passed(10)
      <4>1. job[last].selection \in Selections
        BY <1>1, <2>3, <3>1
           DEF UpgradeInv, UpgradeTypeOK, Started, JobRecord
      <4> QED  BY <2>3, <3>1, <4>1, SelectionIs DEF Passed
    <3> QED  BY <1>1, <2>3, <3>1
                DEF ReleaseIsRunning, AtRest, UpgradeInv, GatewayInv
  <2>5. UpdatedUiIsServed
    BY <1>1, <2>3
       DEF UpdatedUiIsServed, AtRest, UpgradeInv, GatewayInv, Passed
  <2> QED  BY <2>2, <2>4, <2>5 DEF CompleteIsTrue
<1> QED  BY <1>1, UpgradeInvHolds, PTL

===============================================================================
