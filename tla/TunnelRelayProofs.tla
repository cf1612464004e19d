------------------------- MODULE TunnelRelayProofs -------------------------
(***************************************************************************)
(* No request waits in a tunnel that is no longer used, and no operator    *)
(* for a request that is forgotten, for any number of links, requests,     *)
(* opens and faults; and the addresses of a gateway's     *)
(* pages stay in the tunnel, for every set of routes, every session path   *)
(* and every address.                                                      *)
(***************************************************************************)
EXTENDS MCTunnelRelay, SequenceTheorems, TLAPS

(* PendingIsServed is inductive together with the types it needs.          *)
PendingInv ==
  /\ registered \in Links \cup {NoLink}
  /\ pending \subseteq Links \X Requests
  /\ PendingIsServed

(* What every step does to the requests of the tunnels: it leaves them and *)
(* the registry alone, or it clears all of them, or it adds one to the     *)
(* registered tunnel or ends one.                                          *)
Kept == UNCHANGED <<registered, pending>> /\ waiting' \subseteq waiting

Cleared ==
  registered' \in Links \cup {NoLink} /\ pending' = {} /\ waiting' = {}

Grown ==
  /\ registered' = registered
  /\ \E r \in Requests :
       \/ /\ registered \in Links
          /\ pending' = pending \cup {<<registered, r>>}
          /\ waiting' = waiting \cup {r}
       \/ /\ pending' = pending \ {<<mine, r>>}
          /\ waiting' = IF <<mine, r>> \in pending THEN waiting \ {r}
                        ELSE waiting

(* fail_pending of the registered tunnel leaves nothing.                   *)
LEMMA FailClears ==
  ASSUME PendingInv, Fail({registered})
  PROVE  pending' = {} /\ waiting' = {}
  BY DEF Fail, PendingInv, PendingIsServed

LEMMA CloseClears ==
  ASSUME PendingInv, CloseRegistered  PROVE Cleared
  BY FailClears DEF CloseRegistered, Cleared

LEMMA ConnectClears ==
  ASSUME PendingInv, NEW l \in Links, Connect(l)  PROVE Cleared
  BY FailClears DEF Connect, Cleared

LEMMA ExpireClears ==
  ASSUME PendingInv, NEW l \in Links, Expire(l)  PROVE Cleared
  BY CloseClears DEF Expire

LEMMA CloseHeardClears ==
  ASSUME PendingInv, CloseHeard  PROVE Cleared \/ Kept
  BY CloseClears DEF CloseHeard, Kept

LEMMA LoopEndClears ==
  ASSUME PendingInv, NEW l \in Links, LoopEnds(l)  PROVE Cleared \/ Kept
  BY FailClears DEF LoopEnds, Cleared, Kept

(* A crash of the owner clears everything.                                 *)
LEMMA StopClears ==
  ASSUME PendingInv, OwnerStops  PROVE Cleared
  <1>1. registered' = NoLink BY DEF OwnerStops
  <1>2. pending' = {} /\ waiting' = {}
    BY DEF OwnerStops, Fail, PendingInv, PendingIsServed
  <1> QED BY <1>1, <1>2 DEF Cleared

LEMMA ForwardGrows ==
  ASSUME PendingInv, NEW r \in Requests, Forward(r)  PROVE Grown
  BY DEF Forward, Grown, PendingInv

LEMMA RespondShrinks ==
  ASSUME PendingInv, NEW r \in Requests, Respond(r)  PROVE Grown
  BY DEF Respond, Grown

LEMMA StepOutcome ==
  ASSUME PendingInv, [Next]_vars  PROVE Kept \/ Cleared \/ Grown
  <1>1. CASE \E l \in Links : Connect(l) BY <1>1, ConnectClears
  <1>2. CASE \E l \in Links : Expire(l) BY <1>2, ExpireClears
  <1>3. CASE CloseHeard BY <1>3, CloseHeardClears
  <1>4. CASE \E l \in Links : LoopEnds(l) BY <1>4, LoopEndClears
  <1>5. CASE OwnerStops BY <1>5, StopClears
  <1>6. CASE \E r \in Requests : Forward(r) BY <1>6, ForwardGrows
  <1>7. CASE \E r \in Requests : Respond(r) BY <1>7, RespondShrinks
  <1>8. CASE \E l \in Links : Admit(l) \/ RefuseWithoutOwner(l)
                                \/ RelayEnds(l) \/ Forget(l) \/ Dial(l)
    BY <1>8 DEF Admit, RefuseWithoutOwner, RelayEnds, Forget, Dial, Kept,
                ownerVars, requestVars
  <1>9. CASE \E r \in Requests : GiveUp(r) \/ Take(r)
    BY <1>9 DEF GiveUp, Take, Kept, ownerVars, requestVars
  <1>10. CASE Tick \/ (\E e \in now+1..Horizon : Open(e)) \/ Close
                \/ CloseUnheard \/ OwnerStarts
    BY <1>10 DEF Tick, Open, Close, CloseUnheard, OwnerStarts, Kept,
                 ownerVars, requestVars
  <1>13. CASE Poll \/ PollFails
    BY <1>13 DEF Poll, LookAtRow, LookAtOwner, TakeAnswer, PollFails, Kept,
                 ownerVars, requestVars
  <1>11. CASE LoseLink \/ LeaveTunnel \/ StopThread \/ Drop
    BY <1>11 DEF LoseLink, LeaveTunnel, StopThread, Drop, Leave, Kept,
                 ownerVars, requestVars
  <1>12. CASE UNCHANGED vars BY <1>12 DEF vars, ownerVars, requestVars, Kept
  <1> QED
    BY <1>1, <1>2, <1>3, <1>4, <1>5, <1>6, <1>7, <1>8, <1>9, <1>10, <1>11,
       <1>12, <1>13 DEF Next, LinkStep, EdgeStep

LEMMA Preserved ==
  ASSUME PendingInv, Kept \/ Cleared \/ Grown  PROVE PendingInv'
  <1>1. CASE Kept BY <1>1 DEF Kept, PendingInv, PendingIsServed
  <1>2. CASE Cleared BY <1>2 DEF Cleared, PendingInv, PendingIsServed
  <1>3. CASE Grown BY <1>3 DEF Grown, PendingInv, PendingIsServed
  <1> QED BY <1>1, <1>2, <1>3

(* A request that waits in the owner waits in the registered tunnel, and   *)
(* so does every request that an operator waits for (fail_pending).        *)
THEOREM PendingIsServedTheorem == Spec => []PendingIsServed
  <1>1. Init => PendingInv BY DEF Init, PendingInv, PendingIsServed
  <1>2. PendingInv /\ [Next]_vars => PendingInv'
    BY StepOutcome, Preserved
  <1>3. PendingInv => PendingIsServed BY DEF PendingInv
  <1> QED BY <1>1, <1>2, <1>3, PTL DEF Spec

-----------------------------------------------------------------------------
(* TunnelRewrite: the addresses.                                           *)

(* A path behind the session's path is below it, and what the proxy strips *)
(* off again is the session's path.                                        *)
LEMMA Behind ==
  ASSUME NEW path \in Seq(Segments)
  PROVE  Below(Prefix \o path) /\ Upstream(Prefix \o path) = path
  <1>1. Prefix \in Seq(Segments) BY RewriteAssumption
  <1>2. Below(Prefix \o path) BY <1>1 DEF Below
  <1>3. Upstream(Prefix \o path) = path BY <1>1, SMTT(30) DEF Upstream
  <1> QED BY <1>2, <1>3

(* An address below the session is no known route of the gateway, so that  *)
(* the rewriting of scripts and of JSON leaves it alone.                   *)
LEMMA BelowIsNotLocal ==
  ASSUME NEW u \in Address, Below(u.path)
  PROVE  ~IsLocal(u)
  <1>1. Prefix[1] \notin LocalRoutes /\ Len(Prefix) >= 1
    BY RewriteAssumption
  <1>2. u.path[1] = Prefix[1] BY <1>1, RewriteAssumption DEF Below
  <1> QED BY <1>1, <1>2 DEF IsLocal

(* Rewriting an address that was rewritten changes nothing: pages that     *)
(* pass several rewritings get the session's path once.                    *)
THEOREM RewritingIsIdempotent ==
  ASSUME NEW u \in Address
  PROVE  /\ RootRelative(RootRelative(u)) = RootRelative(u)
         /\ RootRelative(JsonUrl(u)) = RootRelative(u)
         /\ ScriptUrl(JsonUrl(u)) = JsonUrl(u)
  <1> DEFINE v == RootRelative(u)
  <1>1. IsRootRelative(u) => Below(v.path)
    BY Behind DEF RootRelative, Address
  <1>2. IsRootRelative(v) <=> IsRootRelative(u)
    BY DEF RootRelative, Address, IsRootRelative
  <1>3. RootRelative(v) = v
    BY <1>1, <1>2 DEF RootRelative
  <1>4. v \in Address
    <2>1. \A q \in Seq(Segments) : [u EXCEPT !.path = q] \in Address
      BY DEF Address
    <2>2. Prefix \o u.path \in Seq(Segments)
      BY RewriteAssumption DEF Address
    <2> QED BY <2>1, <2>2 DEF RootRelative
  <1>5. IsRootRelative(u) => ~IsLocal(v)
    BY <1>1, <1>4, BelowIsNotLocal
  <1> QED BY <1>3, <1>5 DEF JsonUrl, ScriptUrl, IsLocal

(* Every address of the local site reaches the gateway through the         *)
(* session by every way it can take.                                       *)
THEOREM LinksStayTheorem == LinksStay
  <1> SUFFICES ASSUME NEW u \in Address, NEW page \in Seq(Segments),
                      OfTheSite(u)
               PROVE  StaysInTunnel(u, page)
    BY DEF LinksStay
  <1>1. u.path \in Seq(Segments) /\ u.rooted /\ u.origin \in Origins
    BY DEF Address, OfTheSite
  <1>2. Reaches(Prefix \o u.path, u.path) BY <1>1, Behind DEF Reaches
  <1>3. Location(u) \in Address /\ Below(Location(u).path)
    BY <1>1, Behind, RewriteAssumption DEF Location, Root, Address, Origins
  <1>4. ScriptUrl(Location(u)) = Location(u)
    BY <1>3, BelowIsNotLocal DEF ScriptUrl
  <1>5. Attribute(u) = Location(u)
    BY <1>1, <1>4 DEF Attribute, OfTheSite, IsOnlyFragment
  <1>6. u.origin = "here" =>
          RootRelative(u).rooted /\ RootRelative(u).path = Prefix \o u.path
    BY <1>1 DEF RootRelative, IsRootRelative, OfTheSite, Address
  <1>7. FetchedFromJson(u) = RootRelative(u)
    BY RewritingIsIdempotent DEF FetchedFromJson
  <1>8. FetchedFromScript(u) = RootRelative(u)
    BY RewritingIsIdempotent DEF FetchedFromScript
  <1>9. Location(u).rooted /\ Location(u).path = Prefix \o u.path
    BY DEF Location, Root
  <1> QED
    BY <1>2, <1>5, <1>6, <1>7, <1>8, <1>9
    DEF StaysInTunnel, Resolved, Redirected, Linked, Fetched

(* What TLC evaluates for short addresses while the console is served.     *)
THEOREM ServedLinksStay == Spec => []LinksStayInTunnel
  <1>1. Paths \subseteq Seq(Segments)
    <2> SUFFICES ASSUME NEW n \in 0..3, NEW path \in [1..n -> Segments]
                 PROVE  path \in Seq(Segments)
      BY DEF Paths
    <2> QED BY n \in Nat, SeqDef
  <1>2. SmallAddress \subseteq Address
    BY <1>1 DEF SmallAddress, Address
  <1>3. LinksStayInTunnel
    BY <1>1, <1>2, LinksStayTheorem
    DEF LinksStayInTunnel, SmallLinksStay, LinksStay
  <1> QED BY <1>3, PTL
=============================================================================
