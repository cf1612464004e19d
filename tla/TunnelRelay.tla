----------------------------- MODULE TunnelRelay -----------------------------
(***************************************************************************)
(* The operator tunnel of a gateway that is selected for the relay.  The   *)
(* lease is a row of the database; any cloud worker admits the edge by it  *)
(* and pipes its WebSocket to the tunnel owner, one process that keeps the *)
(* registry of tunnels, the console sessions and the requests under way,   *)
(* and that ends each connection when the lease it was admitted with ends. *)
(* The edge is told to dial by the answer of a jobs/next call.             *)
(*                                                                         *)
(* Abstracted: one gateway; the lease_ended frame, which the edge answers  *)
(* with an error (TunnelLease); whether a request's console session is     *)
(* valid, so that a request may come at any time; the edge's pauses between *)
(* two dials.                                                              *)
(***************************************************************************)
EXTENDS Naturals, FiniteSets

CONSTANTS
  Links,      \* chains edge - cloud worker - owner; a closed one is reused
  NoLink,     \* no connection
  Requests,   \* console requests of the operator
  NoRequest,  \* the edge handles no request
  Horizon,    \* the last instant
  MaxEvents   \* operator opens, dropped links, owner crashes, unheard
              \* closes, lost polls and time-outs of the console together

ASSUME TunnelRelayAssumption ==
  /\ NoLink \notin Links /\ NoRequest \notin Requests
  /\ Horizon \in Nat \ {0} /\ MaxEvents \in Nat

VARIABLES
  now,         \* the time
  row,         \* GatewayTunnelRequest: expires_at if requested, 0 if closed
  closing,     \* an operator's close has yet to reach the owner
  relay,       \* the cloud worker's end of each link
  lease,       \* the expiry a link was admitted with: expires_at of its URL
  owner,       \* the owner's end of each link
  alarm,       \* links whose expiry task sleeps in the owner
  registered,  \* TunnelManager._tunnels of the gateway
  ownerUp,     \* the owner process runs
  mine,        \* the link whose other end the edge holds
  worker,      \* where the edge's tunnel thread is
  edgeLease,   \* TunnelLeaseWorker._lease_expires_at
  poll,        \* how far the edge's jobs/next call has come, and the lease
               \* that its answer will carry
  waiting,     \* requests whose operator waits for the owner
  pending,     \* GatewayTunnel.pending: links with the requests under way
  unread,      \* requests on the edge's link that it has not read
  busy,        \* the request the edge is working on
  events       \* operator opens and faults so far (bound)

ownerVars == <<owner, alarm, registered, pending>>
linkVars == <<relay, lease>>
edgeVars == <<mine, worker, edgeLease, poll>>
requestVars == <<waiting, unread, busy>>
vars == <<now, row, closing, linkVars, ownerVars, ownerUp, edgeVars,
          requestVars, events>>

TypeOK ==
  /\ now \in 0..Horizon /\ row \in 0..Horizon
  /\ closing \in BOOLEAN /\ ownerUp \in BOOLEAN
  /\ relay \in [Links -> {"free", "dialing", "connecting", "piping",
                          "closed"}]
  /\ lease \in [Links -> 0..Horizon]
  /\ owner \in [Links -> {"none", "serving", "closing", "closed"}]
  /\ alarm \subseteq Links
  /\ registered \in Links \cup {NoLink}
  /\ mine \in Links \cup {NoLink}
  /\ worker \in {"dead", "check", "dialing", "open"}
  /\ edgeLease \in 0..Horizon
  /\ poll \in [at : {"none", "row", "owner"}, lease : 0..Horizon]
  /\ waiting \subseteq Requests /\ pending \subseteq Links \X Requests
  /\ unread \subseteq Requests
  /\ busy \in Requests \cup {NoRequest}
  /\ events \in 0..MaxEvents

Init ==
  /\ now = 0 /\ row = 0 /\ closing = FALSE
  /\ relay = [l \in Links |-> "free"] /\ lease = [l \in Links |-> 0]
  /\ owner = [l \in Links |-> "none"] /\ alarm = {}
  /\ registered = NoLink /\ ownerUp = TRUE
  /\ mine = NoLink /\ worker = "dead" /\ edgeLease = 0
  /\ poll = [at |-> "none", lease |-> 0]
  /\ waiting = {} /\ pending = {}
  /\ unread = {} /\ busy = NoRequest
  /\ events = 0

Event == events < MaxEvents /\ events' = events + 1

Tick ==
  /\ now < Horizon /\ now' = now + 1
  /\ UNCHANGED <<row, closing, linkVars, ownerVars, ownerUp, edgeVars,
                 requestVars, events>>

-----------------------------------------------------------------------------
(* The operator and the cloud workers.                                     *)

(* ui_open_gateway_tunnel: the durable row is written or extended.  The    *)
(* owner is not told.                                                      *)
Open(e) ==
  /\ Event
  /\ row' = e
  /\ UNCHANGED <<now, closing, linkVars, ownerVars, ownerUp, edgeVars,
                 requestVars>>

(* ui_close_gateway_tunnel up to the call of the owner.                    *)
Close ==
  /\ row # 0 /\ ~closing
  /\ row' = 0 /\ closing' = TRUE
  /\ UNCHANGED <<now, linkVars, ownerVars, ownerUp, edgeVars, requestVars,
                 events>>

(* An owner that cannot be reached is passed over.                         *)
CloseUnheard ==
  /\ closing /\ closing' = FALSE
  /\ Event
  /\ UNCHANGED <<now, row, linkVars, ownerVars, ownerUp, edgeVars,
                 requestVars>>

Active == row > now

(* edge_tunnel: admission by the row, accept, and on to relay_client.      *)
Admit(l) ==
  /\ relay[l] = "dialing"
  /\ relay' = [relay EXCEPT ![l] = IF Active THEN "connecting" ELSE "closed"]
  /\ lease' = [lease EXCEPT ![l] = IF Active THEN row ELSE @]
  /\ worker' = IF Active /\ mine = l THEN "open" ELSE worker
  /\ UNCHANGED <<now, row, closing, ownerVars, ownerUp, mine, edgeLease,
                 poll, requestVars, events>>

RefuseWithoutOwner(l) ==
  /\ relay[l] = "connecting" /\ ~ownerUp
  /\ relay' = [relay EXCEPT ![l] = "closed"]
  /\ UNCHANGED <<now, row, closing, lease, ownerVars, ownerUp, edgeVars,
                 requestVars, events>>

(* One of the two pipes ends: the edge has left or the owner closed.       *)
RelayEnds(l) ==
  /\ relay[l] = "piping"
  /\ mine # l \/ owner[l] = "closed"
  /\ relay' = [relay EXCEPT ![l] = "closed"]
  /\ UNCHANGED <<now, row, closing, lease, ownerVars, ownerUp, edgeVars,
                 requestVars, events>>

(* A jobs/next answer carries the lease only if the owner is known to have *)
(* no tunnel of the gateway (_set_tunnel_instruction_headers).  The worker *)
(* reads the row ...                                                       *)
LookAtRow ==
  /\ poll.at = "none"
  /\ poll' = IF Active THEN [at |-> "row", lease |-> row]
             ELSE [at |-> "owner", lease |-> 0]
  /\ UNCHANGED <<now, row, closing, linkVars, ownerVars, ownerUp, mine, worker,
                 edgeLease, requestVars, events>>

(* ... asks the owner, which may have changed its mind since ...           *)
Instructs == ownerUp /\ registered = NoLink

LookAtOwner ==
  /\ poll.at = "row"
  /\ poll' = [at |-> "owner", lease |-> IF Instructs THEN poll.lease ELSE 0]
  /\ UNCHANGED <<now, row, closing, linkVars, ownerVars, ownerUp, mine, worker,
                 edgeLease, requestVars, events>>

(* ... and the edge takes what the answer carries when it has arrived,     *)
(* also nothing, for its lease (TunnelLeaseWorker.update).                 *)
TakeAnswer ==
  /\ poll.at = "owner"
  /\ poll' = [at |-> "none", lease |-> 0]
  /\ edgeLease' = poll.lease
  /\ worker' = IF now < poll.lease /\ worker = "dead" THEN "check" ELSE worker
  /\ UNCHANGED <<now, row, closing, linkVars, ownerVars, ownerUp, mine,
                 requestVars, events>>

(* "Job poll failed": the lease stays what it was.                         *)
PollFails ==
  /\ poll.at # "none" /\ Event
  /\ poll' = [at |-> "none", lease |-> 0]
  /\ UNCHANGED <<now, row, closing, linkVars, ownerVars, ownerUp, mine, worker,
                 edgeLease, requestVars>>

Poll == LookAtRow \/ LookAtOwner \/ TakeAnswer

-----------------------------------------------------------------------------
(* The tunnel owner.                                                       *)

(* GatewayTunnel.fail_pending: the owner's answer is an error.             *)
Fail(ls) ==
  /\ pending' = {p \in pending : p[1] \notin ls}
  /\ waiting' = {r \in waiting : \A l \in ls : <<l, r>> \notin pending}

(* The owner accepts a link: it replaces the one that is registered.       *)
ConnectKeepingPending(l) ==
  /\ relay[l] = "connecting" /\ ownerUp
  /\ relay' = [relay EXCEPT ![l] = "piping"]
  /\ owner' = [owner EXCEPT ![l] = "serving"]
  /\ alarm' = alarm \cup {l}
  /\ registered' = l
  /\ UNCHANGED <<now, row, closing, lease, pending, ownerUp, edgeVars,
                 requestVars, events>>

Connect(l) ==
  /\ relay[l] = "connecting" /\ ownerUp
  /\ relay' = [relay EXCEPT ![l] = "piping"]
  /\ owner' = [owner EXCEPT ![l] = "serving"]
  /\ alarm' = alarm \cup {l}
  /\ registered' = l
  /\ Fail({registered})
  /\ UNCHANGED <<now, row, closing, lease, ownerUp, edgeVars, unread, busy,
                 events>>

(* close_gateway up to its first await: whichever tunnel is registered is  *)
(* the one that is closed.                                                 *)
CloseRegistered ==
  /\ registered' = NoLink
  /\ owner' = [l \in Links |-> IF l = registered THEN "closing" ELSE owner[l]]
  /\ Fail({registered})

(* The expiry task of a link.                                              *)
ExpireIfRequested(l) ==
  /\ l \in alarm /\ lease[l] <= now
  /\ alarm' = alarm \ {l}
  /\ IF Active THEN UNCHANGED <<registered, owner, pending, waiting>>
     ELSE CloseRegistered
  /\ UNCHANGED <<now, row, closing, linkVars, ownerUp, edgeVars, unread, busy,
                 events>>

Expire(l) ==
  /\ l \in alarm /\ lease[l] <= now
  /\ alarm' = alarm \ {l}
  /\ CloseRegistered
  /\ UNCHANGED <<now, row, closing, linkVars, ownerUp, edgeVars, unread, busy,
                 events>>

(* The close of an operator arrives, or finds no owner.                    *)
CloseHeard ==
  /\ closing /\ closing' = FALSE
  /\ IF ownerUp THEN CloseRegistered
     ELSE UNCHANGED <<registered, owner, pending, waiting>>
  /\ UNCHANGED <<now, row, linkVars, alarm, ownerUp, edgeVars, unread, busy,
                 events>>

(* The receive loop of a link ends, because the owner closed it or because *)
(* the worker has gone: the task is cancelled and the tunnel unregistered, *)
(* if it still is the registered one.                                      *)
LoopEndsKeepingTunnel(l) ==
  /\ \/ owner[l] = "closing"
     \/ owner[l] = "serving" /\ relay[l] = "closed"
  /\ owner' = [owner EXCEPT ![l] = "closed"]
  /\ alarm' = alarm \ {l}
  /\ UNCHANGED <<now, row, closing, linkVars, registered, pending, ownerUp,
                 edgeVars, requestVars, events>>

LoopEnds(l) ==
  /\ \/ owner[l] = "closing"
     \/ owner[l] = "serving" /\ relay[l] = "closed"
  /\ owner' = [owner EXCEPT ![l] = "closed"]
  /\ alarm' = alarm \ {l}
  /\ IF registered = l THEN registered' = NoLink /\ Fail({l})
     ELSE UNCHANGED <<registered, pending, waiting>>
  /\ UNCHANGED <<now, row, closing, linkVars, ownerUp, edgeVars, unread, busy,
                 events>>

(* The owner dies with all it knows; its peers see closed connections.     *)
OwnerStops ==
  /\ ownerUp /\ Event
  /\ ownerUp' = FALSE
  /\ registered' = NoLink /\ alarm' = {}
  /\ owner' = [l \in Links |-> IF owner[l] = "none" THEN "none" ELSE "closed"]
  /\ Fail(Links)
  /\ UNCHANGED <<now, row, closing, linkVars, edgeVars, unread, busy>>

OwnerStarts ==
  /\ ~ownerUp /\ ownerUp' = TRUE
  /\ UNCHANGED <<now, row, closing, linkVars, ownerVars, edgeVars,
                 requestVars, events>>

-----------------------------------------------------------------------------
(* Console requests.                                                       *)

(* The proxy forwards a request to whichever tunnel is registered; without *)
(* one the operator gets an error.                                         *)
Forward(r) ==
  /\ r \notin waiting \cup unread \cup {busy}
  /\ \A l \in Links : <<l, r>> \notin pending
  /\ ownerUp /\ registered # NoLink
  /\ waiting' = waiting \cup {r}
  /\ pending' = pending \cup {<<registered, r>>}
  /\ unread' = IF mine = registered THEN unread \cup {r} ELSE unread
  /\ UNCHANGED <<now, row, closing, linkVars, owner, alarm, registered,
                 ownerUp, edgeVars, busy, events>>

(* The worker's call of the owner times out long before the owner's wait   *)
(* for the edge; the request stays under way.                              *)
GiveUp(r) ==
  /\ r \in waiting /\ Event
  /\ waiting' = waiting \ {r}
  /\ UNCHANGED <<now, row, closing, linkVars, ownerVars, ownerUp, edgeVars,
                 unread, busy>>

(* The edge handles one frame after the other, and no lease meanwhile.     *)
Take(r) ==
  /\ worker = "open" /\ busy = NoRequest
  /\ r \in unread
  /\ unread' = unread \ {r} /\ busy' = r
  /\ UNCHANGED <<now, row, closing, linkVars, ownerVars, ownerUp, edgeVars,
                 waiting, events>>

(* Its response resolves the future, if the tunnel still has it.           *)
Respond(r) ==
  /\ busy = r /\ busy' = NoRequest
  /\ pending' = pending \ {<<mine, r>>}
  /\ waiting' = IF <<mine, r>> \in pending THEN waiting \ {r} ELSE waiting
  /\ UNCHANGED <<now, row, closing, linkVars, owner, alarm, registered,
                 ownerUp, edgeVars, unread, events>>

-----------------------------------------------------------------------------
(* The edge.                                                               *)

Wanted == now < edgeLease

Dial(l) ==
  /\ worker = "check" /\ Wanted
  /\ relay[l] = "free" /\ l = CHOOSE k \in Links : relay[k] = "free"
  /\ relay' = [relay EXCEPT ![l] = "dialing"]
  /\ mine' = l /\ worker' = "dialing"
  /\ UNCHANGED <<now, row, closing, lease, ownerVars, ownerUp, edgeLease, poll,
                 requestVars, events>>

Leave ==
  /\ mine' = NoLink
  /\ unread' = {} /\ busy' = NoRequest
  /\ UNCHANGED <<now, row, closing, linkVars, ownerVars, ownerUp, edgeLease,
                 poll, waiting>>

(* The dial was refused or the worker closed: try again.                   *)
LoseLink ==
  /\ worker \in {"dialing", "open"} /\ busy = NoRequest
  /\ relay[mine] = "closed"
  /\ Leave /\ worker' = "check"
  /\ UNCHANGED events

(* Between two frames an edge without a lease leaves its tunnel.           *)
LeaveTunnel ==
  /\ worker = "open" /\ busy = NoRequest /\ ~Wanted
  /\ Leave /\ worker' = "dead"
  /\ UNCHANGED events

(* The network drops the link; the edge notices first.                     *)
Drop ==
  /\ worker = "open" /\ Event
  /\ Leave /\ worker' = "check"

StopThread ==
  /\ worker = "check" /\ ~Wanted
  /\ worker' = "dead"
  /\ UNCHANGED <<now, row, closing, linkVars, ownerVars, ownerUp, mine,
                 edgeLease, poll, requestVars, events>>

(* All ends are closed: the identifier stands for a new chain.             *)
Forget(l) ==
  /\ relay[l] = "closed" /\ mine # l /\ owner[l] \in {"none", "closed"}
  /\ relay' = [relay EXCEPT ![l] = "free"]
  /\ owner' = [owner EXCEPT ![l] = "none"]
  /\ lease' = [lease EXCEPT ![l] = 0]
  /\ UNCHANGED <<now, row, closing, alarm, registered, pending, ownerUp,
                 edgeVars, waiting, unread, busy, events>>

-----------------------------------------------------------------------------
LinkStep(l) ==
  \/ Admit(l) \/ RefuseWithoutOwner(l) \/ Connect(l) \/ RelayEnds(l)
  \/ LoopEnds(l) \/ Forget(l)

EdgeStep ==
  \/ \E l \in Links : Dial(l)
  \/ \E r \in Requests : Take(r) \/ Respond(r)
  \/ LoseLink \/ LeaveTunnel \/ StopThread

Next ==
  \/ Tick
  \/ \E e \in now+1..Horizon : Open(e)
  \/ Close \/ CloseHeard \/ CloseUnheard
  \/ \E l \in Links : LinkStep(l) \/ Expire(l)
  \/ OwnerStops \/ OwnerStarts
  \/ \E r \in Requests : Forward(r) \/ GiveUp(r)
  \/ Poll \/ PollFails
  \/ EdgeStep \/ Drop

Spec == Init /\ [][Next]_vars

(* The processes run, the owner is started again, and polls are answered   *)
(* again and again.  Neither time, an operator, nor a request's timeout is *)
(* needed.                                                                 *)
Fairness ==
  /\ \A l \in Links : WF_vars(LinkStep(l) \/ Expire(l))
  /\ WF_vars(OwnerStarts)
  /\ WF_vars(Poll)
  /\ WF_vars(EdgeStep)

FairSpec == Spec /\ Fairness

-----------------------------------------------------------------------------
(* A request that waits in the owner waits in the registered tunnel: no    *)
(* replacement, close or late disconnect leaves one behind in a tunnel     *)
(* that will never answer (fail_pending), nor an operator waiting for one  *)
(* that the owner has forgotten.                                           *)
PendingIsServed ==
  /\ \A p \in pending : p[1] = registered
  /\ \A r \in waiting : <<registered, r>> \in pending

(* A tunnel does not stay registered beyond the lease it was admitted      *)
(* with, whatever became of the row, of the connections it replaced and of *)
(* the edge: its expiry task pops it.                                      *)
TunnelEndsWithLease ==
  (registered # NoLink /\ lease[registered] <= now)
     ~> (registered = NoLink \/ lease[registered] > now)

(* An active request of the operator brings the edge into a tunnel, through *)
(* a crash of the owner, lost links and tunnels of it that are still       *)
(* registered when their edge is gone.                                     *)
ActiveReachesEdge == Active ~> (~Active \/ worker = "open")

(* "Connected means the authorization is already satisfied": an edge with  *)
(* an active request does not leave its tunnel of its own accord.          *)
ConnectedStays ==
  [][LeaveTunnel => ~Active]_vars

(* "Safely replaced/extended by repeated operator opens": the owner does   *)
(* not end a tunnel while the operator's request is active.                *)
ExtendedStays ==
  [][\A l \in Links : Expire(l) => ~Active]_vars
=============================================================================
