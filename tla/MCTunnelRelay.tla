--------------------------- MODULE MCTunnelRelay ---------------------------
(***************************************************************************)
(* Instances of TunnelRelay for TLC, with the addresses that the console's *)
(* requests come from: all those with at most three segments.              *)
(***************************************************************************)
EXTENDS TunnelRelay, TunnelRewrite

CONSTANTS l1, l2, r1

SessionPath == <<"gateways", "id">>

Paths == UNION {[1..n -> Segments] : n \in 0..3}

SmallAddress == [origin : Origins, rooted : BOOLEAN, path : Paths,
                 fragment : BOOLEAN]

(* LinksStay for these addresses.                                          *)
SmallLinksStay ==
  \A u \in SmallAddress, page \in Paths :
    OfTheSite(u) => StaysInTunnel(u, page)

(* While the gateway has a tunnel to serve console requests, every address *)
(* that the local site can put into a page or a redirect reaches the       *)
(* gateway through the session, whichever rewritings it passes.            *)
LinksStayInTunnel == registered # NoLink => SmallLinksStay
=============================================================================
