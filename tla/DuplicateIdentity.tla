-------------------------- MODULE DuplicateIdentity --------------------------
(***************************************************************************)
(* When does the cloud suspect that two machines report under the identity *)
(* of one gateway?  It compares what recent heartbeats say of the machine  *)
(* that sent them: the id of the installation, which a cloned disk shares  *)
(* with the original, the hardware address, the host name and the address  *)
(* in the local network.  A machine may fail to detect any but the name.   *)
(*                                                                         *)
(* A heartbeat is recent by the clock of the machine that wrote it.  Fewer *)
(* heartbeats than the comparison is limited to fall into its window.      *)
(***************************************************************************)
EXTENDS Integers, FiniteSets

CONSTANTS
  Machines,       \* that hold the credential of the gateway
  Names,          \* host names
  Addresses,      \* addresses in local networks
  Unknown,        \* what could not be detected
  Window,         \* how far back heartbeats are compared
  MaxSkew,        \* how far a clock is off
  MaxHeard,       \* bound on heartbeats
  MaxMoves,       \* bound on machines renamed or moved
  MaxMisses,      \* bound on detections that fail
  Horizon         \* bound on the time

ASSUME DuplicateIdentityAssumption ==
  /\ Unknown \notin Machines \cup Addresses
  /\ Window \in Nat /\ MaxSkew \in 0..Window
  /\ MaxHeard \in 1..200
  /\ MaxMoves \in Nat /\ MaxMisses \in Nat /\ Horizon \in Nat

VARIABLES
  installation,  \* the machine id each machine has
  name, address, \* its host name and its address
  ahead,         \* how far its clock is ahead
  time,
  heard,         \* the heartbeats the cloud has stored, with the machine
                 \* and the time that each was really sent (history)
  moves, misses

identityVars ==
  <<installation, name, address, ahead, time, heard, moves, misses>>

Heartbeats ==
  [of : Machines, sent : 0..Horizon, at : Int,
   id : Machines \cup {Unknown}, mac : Machines \cup {Unknown},
   name : Names, address : Addresses \cup {Unknown}]

IdentityTypeOK ==
  /\ installation \in [Machines -> Machines]
  /\ name \in [Machines -> Names] /\ address \in [Machines -> Addresses]
  /\ ahead \in [Machines -> -MaxSkew..MaxSkew]
  /\ time \in 0..Horizon
  /\ heard \subseteq Heartbeats /\ Cardinality(heard) <= MaxHeard
  /\ moves \in 0..MaxMoves /\ misses \in 0..MaxMisses

IdentityInit ==
  /\ installation \in [Machines -> Machines]
  /\ name \in [Machines -> Names] /\ address \in [Machines -> Addresses]
  /\ ahead \in [Machines -> -MaxSkew..MaxSkew]
  /\ time = 0 /\ heard = {} /\ moves = 0 /\ misses = 0

(* collect_status on machine m and receive_heartbeat in the cloud, which   *)
(* stores the time of the machine.                                         *)
Hear(m) ==
  /\ Cardinality(heard) < MaxHeard
  /\ \E missing \in SUBSET {"id", "mac", "address"} :
       /\ misses' = misses + Cardinality(missing) /\ misses' <= MaxMisses
       /\ LET Detected(what, value) ==
                 IF what \in missing THEN Unknown ELSE value
          IN heard' = heard \cup
               {[of |-> m, sent |-> time, at |-> time + ahead[m],
                 id |-> Detected("id", installation[m]),
                 mac |-> Detected("mac", m), name |-> name[m],
                 address |-> Detected("address", address[m])]}
  /\ UNCHANGED <<installation, name, address, ahead, time, moves>>

(* A machine gets another host name or another address.                    *)
Move(m) ==
  /\ moves < MaxMoves /\ moves' = moves + 1
  /\ \/ \E other \in Names \ {name[m]} :
          name' = [name EXCEPT ![m] = other] /\ UNCHANGED address
     \/ \E other \in Addresses \ {address[m]} :
          address' = [address EXCEPT ![m] = other] /\ UNCHANGED name
  /\ UNCHANGED <<installation, ahead, time, heard, misses>>

Pass ==
  /\ time < Horizon /\ time' = time + 1
  /\ UNCHANGED <<installation, name, address, ahead, heard, moves, misses>>

IdentityNext == Pass \/ \E m \in Machines : Hear(m) \/ Move(m)

IdentitySpec == IdentityInit /\ [][IdentityNext]_identityVars

-----------------------------------------------------------------------------
(* _duplicate_identity_status and its copy for lists.                      *)

Recent == {beat \in heard : beat.at >= time - Window}

Differ(values) == Cardinality(values) > 1
DifferOrUnknown(values) == Differ(values)
DifferKnown(values) == Differ(values \ {Unknown})

Suspected ==
  \/ DifferKnown({beat.id : beat \in Recent})
  \/ DifferKnown({beat.mac : beat \in Recent})
  \/ /\ DifferKnown({beat.name : beat \in Recent})
     /\ DifferKnown({beat.address : beat \in Recent})

-----------------------------------------------------------------------------
SentWithin(age) == {beat \in heard : beat.sent >= time - age}

ToldApart(a, b) ==
  \/ a.id # b.id /\ Unknown \notin {a.id, b.id}
  \/ a.mac # b.mac /\ Unknown \notin {a.mac, b.mac}

(* The operator is warned of every two machines that were heard within the *)
(* window, less what clocks are off, and told their difference.  He is     *)
(* never warned of a gateway of which, within the window and what clocks   *)
(* are off, one machine alone was heard, unless that machine was given     *)
(* both another name and another address meanwhile: not when a detection   *)
(* fails, and not for what was heard before.                               *)
WarningIsTrue ==
  /\ (\E a, b \in SentWithin(Window - MaxSkew) : ToldApart(a, b)) => Suspected
  /\ Suspected =>
       LET beats == SentWithin(Window + MaxSkew) IN
       \/ Differ({beat.of : beat \in beats})
       \/ /\ Differ({beat.name : beat \in beats})
          /\ Differ({beat.address : beat \in beats} \ {Unknown})
=============================================================================
