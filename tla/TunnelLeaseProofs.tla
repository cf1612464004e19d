-------------------------- MODULE TunnelLeaseProofs --------------------------
(***************************************************************************)
(* A valid lease owns the task that ends it, and no superseded task closes *)
(* a renewed tunnel, for any number of sockets, opens and instants.        *)
(***************************************************************************)
EXTENDS TunnelLease, TLAPS

USE TunnelLeaseAssumption

(* The cloud handlers cannot confuse the lease, its task and what the      *)
(* operator was shown: until it expires the three are one instant.         *)
LeaseInv ==
  /\ now < promised => lease = promised
  /\ LeaseHasTask

ClocksOK ==
  /\ now \in 0..Horizon
  /\ lease \in 0..Horizon
  /\ task \in 0..Horizon
  /\ promised \in 0..Horizon

(* Every variable of the cloud, the sockets and the edge keeps its type.   *)
THEOREM TypesHold == Spec => []TypeOK
<1> USE DEF TypeOK, Closers
<1>1. Init => TypeOK
  <2> SUFFICES ASSUME Init PROVE TypeOK
    OBVIOUS
  <2>1. now \in 0..Horizon /\ opens \in 0..MaxOpens /\ drops \in 0..MaxDrops
    BY DEF Init
  <2>2. lease \in 0..Horizon /\ task \in 0..Horizon
        /\ edgeLease \in 0..Horizon /\ promised \in 0..Horizon
    BY DEF Init
  <2>3. QED
    BY <2>1, <2>2, Zenon DEF Init
<1>2. TypeOK /\ [Next]_vars => TypeOK'
  <2> SUFFICES ASSUME TypeOK, [Next]_vars PROVE TypeOK'
    OBVIOUS
  <2> USE DEF cloudVars, edgeVars
  <2>1. CASE Tick
    BY <2>1 DEF Tick
  <2>2. ASSUME NEW e \in now+1..Horizon, Open(e) PROVE TypeOK'
    BY <2>2 DEF Open, CancelTask
  <2>3. CASE Close
    BY <2>3 DEF Close, PopTunnel, CancelTask
  <2>4. CASE Expire
    BY <2>4 DEF Expire, PopTunnel
  <2>5. CASE ReadLease
    BY <2>5 DEF ReadLease, Unexpired
  <2>6. CASE Update
    BY <2>6 DEF Update
  <2>7. CASE EdgeThread
    <3>1. CASE StopWorker \/ BackOff \/ WorkerExits
      BY <3>1 DEF StopWorker, BackOff, WorkerExits
    <3>2. ASSUME NEW s \in Sockets, EdgeSocket(s) PROVE TypeOK'
      BY <3>2 DEF EdgeSocket, Dial, Connected, LoseConnection, LeaveTunnel,
                  ReceiveLeaseEnded, Forget
    <3>3. QED
      BY <2>7, <3>1, <3>2 DEF EdgeThread
  <2>8. ASSUME NEW s \in Sockets, CloudSocket(s) PROVE TypeOK'
    <3>1. CASE SendLeaseEnded(s)
      BY <3>1 DEF SendLeaseEnded
    <3>2. CASE CloseSocket(s)
      BY <3>2 DEF CloseSocket
    <3>3. CASE Admit(s)
      BY <3>3 DEF Admit, Unexpired
    <3>4. CASE Register(s)
      BY <3>4 DEF Register
    <3>5. CASE Disconnect(s)
      BY <3>5 DEF Disconnect
    <3>6. QED
      BY <2>8, <3>1, <3>2, <3>3, <3>4, <3>5 DEF CloudSocket
  <2>9. ASSUME NEW s \in Sockets, Drop(s) PROVE TypeOK'
    BY <2>9 DEF Drop
  <2>10. CASE UNCHANGED vars
    BY <2>10 DEF vars
  <2>11. QED
    BY <2>1, <2>2, <2>3, <2>4, <2>5, <2>6, <2>7, <2>8, <2>9, <2>10 DEF Next
<1>3. QED
  BY <1>1, <1>2, PTL DEF Spec

(* Steps of the edge and of the network leave the cloud's clocks alone.    *)
LEMMA EdgeLeavesLease ==
  ASSUME EdgeThread \/ (\E s \in Sockets : Drop(s))
  PROVE  UNCHANGED <<now, lease, task, promised>>
<1> USE DEF cloudVars, edgeVars
<1>1. CASE StopWorker \/ BackOff \/ WorkerExits
  BY <1>1 DEF StopWorker, BackOff, WorkerExits
<1>2. ASSUME NEW s \in Sockets, EdgeSocket(s)
      PROVE  UNCHANGED <<now, lease, task, promised>>
  BY <1>2 DEF EdgeSocket, Dial, Connected, LoseConnection, LeaveTunnel,
              ReceiveLeaseEnded, Forget
<1>3. ASSUME NEW s \in Sockets, Drop(s)
      PROVE  UNCHANGED <<now, lease, task, promised>>
  BY <1>3 DEF Drop
<1>4. QED
  BY <1>1, <1>2, <1>3 DEF EdgeThread

(* The invariant of allow, remove_if_current and _schedule_tunnel_expiry.  *)
THEOREM LeaseIsOwned == Spec => []LeaseInv
<1> USE DEF LeaseInv, LeaseHasTask, LeaseIsValid, ClocksOK
<1>1. Init => LeaseInv
  BY DEF Init
<1>2. ClocksOK /\ LeaseInv /\ [Next]_vars => LeaseInv'
  <2> SUFFICES ASSUME ClocksOK, LeaseInv, [Next]_vars PROVE LeaseInv'
    OBVIOUS
  <2> USE DEF cloudVars, edgeVars
  <2>1. CASE Tick
    BY <2>1 DEF Tick
  <2>2. ASSUME NEW e \in now+1..Horizon, Open(e) PROVE LeaseInv'
    BY <2>2 DEF Open
  <2>3. CASE Close
    BY <2>3 DEF Close
  <2>4. CASE Expire
    BY <2>4 DEF Expire
  <2>5. CASE ReadLease
    BY <2>5 DEF ReadLease, Unexpired
  <2>6. CASE Update
    BY <2>6 DEF Update
  <2>7. CASE EdgeThread \/ \E s \in Sockets : Drop(s)
    BY <2>7, EdgeLeavesLease
  <2>8. ASSUME NEW s \in Sockets, CloudSocket(s) PROVE LeaseInv'
    BY <2>8 DEF CloudSocket, SendLeaseEnded, CloseSocket, Admit, Unexpired,
                Register, Disconnect
  <2>9. CASE UNCHANGED vars
    BY <2>9 DEF vars
  <2>10. QED
    BY <2>1, <2>2, <2>3, <2>4, <2>5, <2>6, <2>7, <2>8, <2>9 DEF Next
<1>3. TypeOK => ClocksOK
  BY DEF TypeOK
<1>4. QED
  BY <1>1, <1>2, <1>3, TypesHold, PTL DEF Spec

(* A valid lease has the task that will end it.                            *)
THEOREM LeaseKeepsTask == Spec => []LeaseHasTask
<1>1. LeaseInv => LeaseHasTask
  BY DEF LeaseInv
<1>2. QED
  BY <1>1, LeaseIsOwned, PTL

(* Before the instant that the operator was shown last no superseded task, *)
(* reader or second close takes the tunnel away: only a peer that is gone. *)
THEOREM RenewalIsKept == Spec => RenewedTunnelStays
<1> DEFINE Stays ==
      registered # NoSocket /\ registered' = NoSocket
        /\ now < promised /\ promised' = promised
        => client[registered] = "closed"
<1>1. TypeOK /\ LeaseInv /\ [Next]_vars => Stays
  <2> SUFFICES ASSUME TypeOK, LeaseInv, Next,
                      registered # NoSocket, registered' = NoSocket,
                      now < promised, promised' = promised
               PROVE  client[registered] = "closed"
    BY DEF vars, cloudVars
  <2> USE DEF cloudVars, edgeVars
  <2>1. lease = promised /\ task = lease /\ lease > now
    BY DEF LeaseInv, LeaseHasTask, LeaseIsValid, TypeOK
  <2>2. ~Expire /\ ~Close
    BY <2>1 DEF Expire, Close, TypeOK
  <2>3. ~Tick /\ ~ReadLease /\ ~Update /\ (\A e \in now+1..Horizon : ~Open(e))
    BY DEF Tick, ReadLease, Update, Open
  <2>4. ~EdgeThread /\ \A s \in Sockets : ~Drop(s)
    <3>1. ~StopWorker /\ ~BackOff /\ ~WorkerExits
      BY DEF StopWorker, BackOff, WorkerExits
    <3>2. \A s \in Sockets : ~EdgeSocket(s)
      BY DEF EdgeSocket, Dial, Connected, LoseConnection, LeaveTunnel,
             ReceiveLeaseEnded, Forget
    <3>3. \A s \in Sockets : ~Drop(s)
      BY DEF Drop
    <3>4. QED
      BY <3>1, <3>2, <3>3 DEF EdgeThread
  <2>5. PICK s \in Sockets : CloudSocket(s)
    BY <2>2, <2>3, <2>4 DEF Next
  <2>6. Disconnect(s)
    BY <2>5 DEF CloudSocket, SendLeaseEnded, CloseSocket, Admit, Register
  <2>7. QED
    BY <2>6 DEF Disconnect
<1>2. QED
  BY <1>1, TypesHold, LeaseIsOwned, PTL DEF Spec, RenewedTunnelStays
=============================================================================
