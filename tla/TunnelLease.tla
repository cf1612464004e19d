---------------------------- MODULE TunnelLease ----------------------------
(***************************************************************************)
(* The operator tunnel to one gateway without the relay: the lease in the  *)
(* cloud's TunnelAllowlist and the task that ends it, the WebSockets in    *)
(* TunnelManager, and the edge's TunnelLeaseWorker, which dials while the  *)
(* lease it was told of is valid.                                          *)
(*                                                                         *)
(* The cloud handlers run on one event loop, so a handler is atomic from   *)
(* one await to the next.  Time is a small counter that both sides read;   *)
(* a lease is the instant at which it expires.                             *)
(***************************************************************************)
EXTENDS Naturals, FiniteSets

CONSTANTS
  Sockets,    \* WebSocket connections; a closed one is used again
  NoSocket,   \* no connection
  NoHeader,   \* no jobs/next answer is under way
  Horizon,    \* the last instant
  MaxOpens,   \* how often the operator opens the tunnel
  MaxDrops    \* how many connections the network drops

ASSUME TunnelLeaseAssumption ==
  /\ NoSocket \notin Sockets
  /\ Horizon \in Nat \ {0} /\ MaxOpens \in Nat /\ MaxDrops \in Nat
  /\ NoHeader \notin 0..Horizon

VARIABLES
  now,         \* the time
  lease,       \* TunnelAllowlist._expires of the gateway, 0 if absent
  task,        \* the instant the pending expiry task sleeps until, 0 if none
  registered,  \* TunnelManager._tunnels of the gateway
  server,      \* the cloud's end of each socket
  closer,      \* who is closing it, and how far: close_gateway awaits twice
  ended,       \* sockets with a lease_ended frame under way
  client,      \* the edge's end of each socket
  worker,      \* where the edge's tunnel thread is
  edgeLease,   \* TunnelLeaseWorker._lease_expires_at
  header,      \* X-IOT-Tunnel-Expires-At under way to the edge, 0 for none
  promised,    \* the expiry the operator was last shown, 0 after a close
               \* (history)
  revoked,     \* the edge was told that its lease ended (history)
  opens,       \* operator opens so far
  drops        \* dropped connections so far

cloudVars == <<lease, task, registered, server, closer>>
edgeVars == <<worker, edgeLease, revoked>>
vars == <<now, cloudVars, ended, client, edgeVars, header, promised, opens,
          drops>>

Closers == {"none", "task_send", "task_close", "ui_send", "ui_close"}

TypeOK ==
  /\ now        \in 0..Horizon
  /\ lease      \in 0..Horizon
  /\ task       \in 0..Horizon
  /\ registered \in Sockets \cup {NoSocket}
  /\ server     \in [Sockets -> {"free", "accepting", "serving", "closed"}]
  /\ closer     \in [Sockets -> Closers]
  /\ ended      \subseteq Sockets
  /\ client     \in [Sockets -> {"free", "dialing", "open", "closed"}]
  /\ worker     \in {"dead", "check", "dialing", "open", "retry", "ending"}
  /\ edgeLease  \in 0..Horizon
  /\ header     \in 0..Horizon \cup {NoHeader}
  /\ revoked    \in BOOLEAN
  /\ promised   \in 0..Horizon
  /\ opens      \in 0..MaxOpens
  /\ drops      \in 0..MaxDrops

Init ==
  /\ now = 0 /\ lease = 0 /\ task = 0
  /\ registered = NoSocket
  /\ server = [s \in Sockets |-> "free"]
  /\ closer = [s \in Sockets |-> "none"]
  /\ ended = {}
  /\ client = [s \in Sockets |-> "free"]
  /\ worker = "dead" /\ edgeLease = 0 /\ header = NoHeader
  /\ promised = 0 /\ revoked = FALSE
  /\ opens = 0 /\ drops = 0

Tick ==
  /\ now < Horizon
  /\ now' = now + 1
  /\ UNCHANGED <<cloudVars, ended, client, edgeVars, header, promised, opens,
                 drops>>

-----------------------------------------------------------------------------
(* The cloud.                                                              *)

(* What is left of a lease when it is read: an expired one is dropped.     *)
Unexpired(l) == IF l > now THEN l ELSE 0

(* Cancelling the expiry task interrupts it where it awaits, also in the   *)
(* middle of close_gateway.                                                *)
CancelTask(closers) ==
  [s \in Sockets |-> IF closers[s] \in {"task_send", "task_close"}
                     THEN "none" ELSE closers[s]]

(* ui_open_gateway_tunnel: reserve or extend the lease, replace its task.  *)
OpenKeepingTask(e) ==
  /\ opens < MaxOpens /\ opens' = opens + 1
  /\ lease' = e
  /\ promised' = e
  /\ task' = IF task = 0 THEN e ELSE task
  /\ UNCHANGED <<now, registered, server, closer, ended, client, edgeVars,
                 header, drops>>

OpenKeepingLease(e) ==
  /\ opens < MaxOpens /\ opens' = opens + 1
  /\ lease' = IF lease > now THEN lease ELSE e
  /\ task' = IF lease > now THEN lease ELSE e
  /\ promised' = e
  /\ UNCHANGED <<now, registered, server, closer, ended, client, edgeVars,
                 header, drops>>

Open(e) ==
  /\ opens < MaxOpens /\ opens' = opens + 1
  /\ lease' = e
  /\ promised' = e
  /\ task' = e
  /\ closer' = CancelTask(closer)
  /\ UNCHANGED <<now, registered, server, ended, client, edgeVars, header,
                 drops>>

(* TunnelManager.close_gateway up to its first await.                      *)
PopTunnel(closers, stage) ==
  /\ registered' = NoSocket
  /\ closer' = IF registered = NoSocket THEN closers
               ELSE [closers EXCEPT ![registered] = stage]

(* _expire_active_tunnel wakes up.  If its lease is no longer the current  *)
(* one, renewed or dropped by a reader, it leaves the tunnel alone.        *)
Expire ==
  /\ task # 0 /\ now >= task
  /\ task' = 0
  /\ IF lease = task THEN lease' = 0 /\ PopTunnel(closer, "task_send")
                     ELSE UNCHANGED <<lease, registered, closer>>
  /\ UNCHANGED <<now, server, ended, client, edgeVars, header, promised,
                 opens, drops>>

(* ui_close_gateway_tunnel.                                                *)
Close ==
  /\ lease' = 0 /\ task' = 0
  /\ promised' = 0
  /\ PopTunnel(CancelTask(closer), "ui_send")
  /\ UNCHANGED <<now, server, ended, client, edgeVars, header, opens, drops>>

(* The rest of close_gateway: a last control frame ...                     *)
SendLeaseEnded(s) ==
  /\ closer[s] \in {"task_send", "ui_send"}
  /\ ended' = IF client[s] = "open" THEN ended \cup {s} ELSE ended
  /\ closer' = [closer EXCEPT
       ![s] = IF @ = "task_send" THEN "task_close" ELSE "ui_close"]
  /\ UNCHANGED <<now, lease, task, registered, server, client, edgeVars,
                 header, promised, opens, drops>>

(* ... and the close itself.                                               *)
CloseSocket(s) ==
  /\ closer[s] \in {"task_close", "ui_close"}
  /\ closer' = [closer EXCEPT ![s] = "none"]
  /\ server' = [server EXCEPT ![s] = "closed"]
  /\ UNCHANGED <<now, lease, task, registered, ended, client, edgeVars,
                 header, promised, opens, drops>>

(* edge_tunnel up to its first await: admission by the lease.              *)
Admit(s) ==
  /\ client[s] = "dialing" /\ server[s] = "free"
  /\ lease' = Unexpired(lease)
  /\ server' = [server EXCEPT
       ![s] = IF lease > now THEN "accepting" ELSE "closed"]
  /\ UNCHANGED <<now, task, registered, closer, ended, client, edgeVars,
                 header, promised, opens, drops>>

(* accept returns, the tunnel is registered; one that it replaces stays    *)
(* open without being used.                                                *)
Register(s) ==
  /\ server[s] = "accepting"
  /\ server' = [server EXCEPT ![s] = "serving"]
  /\ client' = [client EXCEPT ![s] = IF @ = "dialing" THEN "open" ELSE @]
  /\ registered' = s
  /\ UNCHANGED <<now, lease, task, closer, ended, edgeVars, header, promised,
                 opens, drops>>

(* The receive loop ends because the peer is gone: unregister, if it still *)
(* is the current tunnel.                                                  *)
Disconnect(s) ==
  /\ server[s] = "serving" /\ client[s] = "closed"
  /\ server' = [server EXCEPT ![s] = "closed"]
  /\ registered' = IF registered = s THEN NoSocket ELSE registered
  /\ UNCHANGED <<now, lease, task, closer, ended, client, edgeVars, header,
                 promised, opens, drops>>

(* A jobs/next pass reads the lease for the headers of its answer.         *)
ReadLease ==
  /\ header = NoHeader
  /\ lease' = Unexpired(lease)
  /\ header' = Unexpired(lease)
  /\ UNCHANGED <<now, task, registered, server, closer, ended, client,
                 edgeVars, promised, opens, drops>>

-----------------------------------------------------------------------------
(* The edge.                                                               *)

Requested == now < edgeLease

(* TunnelLeaseWorker.update: a thread is started unless one is alive.      *)
UpdateWithNone ==
  /\ header # NoHeader
  /\ header' = NoHeader
  /\ edgeLease' = IF header = 0 THEN NoHeader ELSE header
  /\ worker' = IF now < header /\ worker = "dead" THEN "check" ELSE worker
  /\ revoked' = (revoked /\ header = 0)
  /\ UNCHANGED <<now, cloudVars, ended, client, promised, opens, drops>>

Update ==
  /\ header # NoHeader
  /\ header' = NoHeader
  /\ edgeLease' = header
  /\ worker' = IF now < header /\ worker = "dead" THEN "check" ELSE worker
  /\ revoked' = (revoked /\ header = 0)
  /\ UNCHANGED <<now, cloudVars, ended, client, promised, opens, drops>>

(* run_tunnel_forever: dial while the lease is valid.                      *)
Dial(s) ==
  /\ worker = "check" /\ Requested
  /\ client[s] = "free" /\ server[s] = "free"
  /\ client' = [client EXCEPT ![s] = "dialing"]
  /\ worker' = "dialing"
  /\ UNCHANGED <<now, cloudVars, ended, edgeLease, revoked, header, promised,
                 opens, drops>>

StopWorker ==
  /\ worker = "check" /\ ~Requested
  /\ worker' = "ending"
  /\ UNCHANGED <<now, cloudVars, ended, client, edgeLease, revoked, header,
                 promised, opens, drops>>

Connected(s) ==
  /\ worker = "dialing" /\ client[s] = "open"
  /\ worker' = "open"
  /\ UNCHANGED <<now, cloudVars, ended, client, edgeLease, revoked, header,
                 promised, opens, drops>>

(* The dial is refused or the connection ends: an exception, after which   *)
(* the thread backs off or, without a lease, ends.                         *)
LoseConnection(s) ==
  /\ worker \in {"dialing", "open"}
  /\ client[s] \in {"dialing", "open"} /\ server[s] = "closed"
  /\ s \notin ended
  /\ client' = [client EXCEPT ![s] = "closed"]
  /\ worker' = IF Requested THEN "retry" ELSE "ending"
  /\ UNCHANGED <<now, cloudVars, ended, edgeLease, revoked, header, promised,
                 opens, drops>>

BackOff ==
  /\ worker = "retry"
  /\ worker' = "check"
  /\ UNCHANGED <<now, cloudVars, ended, client, edgeLease, revoked, header,
                 promised, opens, drops>>

(* run_tunnel looks at its lease once a second and leaves without one.     *)
LeaveWhenTold(s) ==
  /\ worker = "open" /\ client[s] = "open"
  /\ s \in ended
  /\ client' = [client EXCEPT ![s] = "closed"]
  /\ ended' = ended \ {s}
  /\ worker' = "ending"
  /\ UNCHANGED <<now, cloudVars, edgeLease, revoked, header, promised, opens,
                 drops>>

LeaveTunnel(s) ==
  /\ worker = "open" /\ client[s] = "open"
  /\ ~Requested
  /\ client' = [client EXCEPT ![s] = "closed"]
  /\ ended' = ended \ {s}
  /\ worker' = "ending"
  /\ UNCHANGED <<now, cloudVars, edgeLease, revoked, header, promised, opens,
                 drops>>

(* A lease_ended frame arrives.  The edge knows a frame lease_revoked, not *)
(* this one: it answers with an error and stays.                           *)
ReceiveLeaseEnded(s) ==
  /\ worker = "open" /\ client[s] = "open" /\ s \in ended
  /\ ended' = ended \ {s}
  /\ revoked' = TRUE
  /\ UNCHANGED <<now, cloudVars, client, worker, edgeLease, header, promised,
                 opens, drops>>

WorkerExits ==
  /\ worker = "ending"
  /\ worker' = "dead"
  /\ UNCHANGED <<now, cloudVars, ended, client, edgeLease, revoked, header,
                 promised, opens, drops>>

(* The network drops a connection; the edge notices.                       *)
Drop(s) ==
  /\ drops < MaxDrops /\ drops' = drops + 1
  /\ worker = "open" /\ client[s] = "open"
  /\ client' = [client EXCEPT ![s] = "closed"]
  /\ ended' = ended \ {s}
  /\ worker' = IF Requested THEN "retry" ELSE "ending"
  /\ UNCHANGED <<now, cloudVars, edgeLease, revoked, header, promised, opens>>

(* Both ends are closed: the identifier stands for a new connection.       *)
Forget(s) ==
  /\ client[s] = "closed" /\ server[s] = "closed" /\ closer[s] = "none"
  /\ client' = [client EXCEPT ![s] = "free"]
  /\ server' = [server EXCEPT ![s] = "free"]
  /\ UNCHANGED <<now, lease, task, registered, closer, ended, edgeVars,
                 header, promised, opens, drops>>

-----------------------------------------------------------------------------
CloudSocket(s) ==
  \/ SendLeaseEnded(s) \/ CloseSocket(s)
  \/ Admit(s) \/ Register(s) \/ Disconnect(s)

EdgeSocket(s) ==
  \/ Dial(s) \/ Connected(s) \/ LoseConnection(s) \/ LeaveTunnel(s)
  \/ ReceiveLeaseEnded(s) \/ Forget(s)

EdgeThread ==
  StopWorker \/ BackOff \/ WorkerExits \/ \E s \in Sockets : EdgeSocket(s)

Next ==
  \/ Tick
  \/ \E e \in now+1..Horizon : Open(e)
  \/ Close
  \/ Expire
  \/ ReadLease
  \/ Update
  \/ EdgeThread
  \/ \E s \in Sockets : CloudSocket(s) \/ Drop(s)

Spec == Init /\ [][Next]_vars

(* Time passes, the event loop and the edge's threads run, and polls are   *)
(* answered again and again.                                               *)
Fairness ==
  /\ WF_vars(Tick) /\ WF_vars(Expire)
  /\ WF_vars(ReadLease) /\ WF_vars(Update)
  /\ \A s \in Sockets : WF_vars(CloudSocket(s))
  /\ WF_vars(EdgeThread)

FairSpec == Spec /\ Fairness

-----------------------------------------------------------------------------
LeaseIsValid == lease > now

(* "A renewed lease owns a newer expiry task and must not be closed by the *)
(* superseded one": before the instant that the operator was shown last    *)
(* the cloud drops a tunnel only because the peer is gone.                 *)
RenewedTunnelStays ==
  [][registered # NoSocket /\ registered' = NoSocket
       /\ now < promised /\ promised' = promised
       => client[registered] = "closed"]_vars

(* A valid lease has the task that will end it.                            *)
LeaseHasTask == LeaseIsValid => task = lease

(* Once leases have run out no tunnel stays registered and no connection   *)
(* open, although the expiry task finds nothing to close when a reader has *)
(* dropped the lease before, and cancelling it can leave a socket open:    *)
(* then the edge leaves on its own.                                        *)
TunnelEnds ==
  ~LeaseIsValid ~>
     \/ LeaseIsValid
     \/ registered = NoSocket /\ \A s \in Sockets : client[s] # "open"

(* "The close still revokes the tunnel": none is registered after it,      *)
(* before the operator opens the tunnel again.                             *)
NoneAfterClose ==
  [][lease = 0 /\ registered = NoSocket /\ registered' # NoSocket
       => promised # 0]_vars

(* "Run only while a current Cloud lease says this gateway is wanted": an  *)
(* edge that was told that its lease ended does not dial again before it   *)
(* hears of another one.                                                   *)
StopsWhenLeaseEnds ==
  [][revoked /\ worker = "check" => worker' # "dialing"]_vars
=============================================================================
