---------------------------- MODULE TunnelRewrite ----------------------------
(***************************************************************************)
(* What the cloud does to the addresses in a gateway's answer, so that the *)
(* pages of its local site work below the path of a console session.       *)
(*                                                                         *)
(* An address is its origin, whether its path starts at the root, its path *)
(* as a sequence of segments and whether it has a fragment; a query is     *)
(* always kept and left out.  The text that surrounds an address, and how  *)
(* it is found there, is not modelled.                                     *)
(***************************************************************************)
EXTENDS Naturals, Sequences

CONSTANTS
  Segments,     \* segments of paths
  LocalRoutes,  \* TUNNEL_GATEWAY_LOCAL_ROUTE_PREFIXES
  Prefix        \* the path of the console session

ASSUME RewriteAssumption ==
  /\ LocalRoutes \subseteq Segments
  /\ Prefix \in Seq(Segments) /\ Prefix # <<>>
  /\ Prefix[1] \notin LocalRoutes

(* "here" is no origin at all, "gateway" the local site's own.             *)
Origins == {"here", "gateway", "elsewhere"}

Address == [origin : Origins, rooted : BOOLEAN, path : Seq(Segments),
            fragment : BOOLEAN]

Root(path) ==
  [origin |-> "here", rooted |-> TRUE, path |-> path, fragment |-> FALSE]

IsRootRelative(u) == u.origin = "here" /\ u.rooted

Below(path) ==
  /\ Len(path) >= Len(Prefix)
  /\ \A i \in 1..Len(Prefix) : path[i] = Prefix[i]

(* _rewrite_tunnel_session_root_relative_url; the helper script does the   *)
(* same to the argument of fetch and XMLHttpRequest.open.                  *)
AlwaysRootRelative(u) ==
  IF IsRootRelative(u)
  THEN [u EXCEPT !.path = Prefix \o @]
  ELSE u

RootRelative(u) ==
  IF IsRootRelative(u) /\ ~Below(u.path)
  THEN [u EXCEPT !.path = Prefix \o @]
  ELSE u

(* _is_tunnel_gateway_local_url.                                           *)
IsLocal(u) ==
  IsRootRelative(u) /\ u.path # <<>> /\ u.path[1] \in LocalRoutes

(* A string of JSON, or a quoted path of a script: only known routes.      *)
JsonUrl(u)   == IF IsLocal(u) THEN RootRelative(u) ELSE u
ScriptUrl(u) == IF IsLocal(u) THEN RootRelative(u) ELSE u

(* _rewrite_tunnel_redirect_location: an address elsewhere is refused with *)
(* 502; any other becomes a path below the session, without its fragment.  *)
IsRefused(u) == u.origin = "elsewhere"
Location(u)  == Root(Prefix \o u.path)

(* An attribute of a page, which the rewriting of scripts sees as well.    *)
IsOnlyFragment(u) == u.origin = "here" /\ ~u.rooted /\ u.path = <<>>

Attribute(u) ==
  IF IsOnlyFragment(u) \/ IsRefused(u) THEN u ELSE ScriptUrl(Location(u))

(* The ways an address of an answer takes to the browser.                  *)
Redirected(u) == Location(u)
Linked(u)     == Attribute(u)
Fetched(u)    == RootRelative(u)
FetchedFromJson(u)   == RootRelative(JsonUrl(u))
FetchedFromScript(u) == RootRelative(ScriptUrl(JsonUrl(u)))

(* What the browser asks for, on a page at the path "page".                *)
Directory(page) == IF page = <<>> THEN <<>> ELSE SubSeq(page, 1, Len(page) - 1)

Resolved(page, u) == IF u.rooted THEN u.path ELSE Directory(page) \o u.path

(* proxy_gateway_tunnel_session strips the session's path.                 *)
Upstream(path) == SubSeq(path, Len(Prefix) + 1, Len(path))

(* The browser asks for "asked" in a session as it would for "wanted" on   *)
(* the gateway itself.                                                     *)
Reaches(asked, wanted) == Below(asked) /\ Upstream(asked) = wanted

(* An address that the local site can have in a page: a path from the      *)
(* root, in its own origin or none, that is not below the session.         *)
OfTheSite(u) == ~IsRefused(u) /\ u.rooted /\ ~Below(u.path)

(* An address reaches the gateway's page through the session by each of    *)
(* its ways, whatever page it stands on: no rewriting is left out, and     *)
(* none is done twice where several apply.                                 *)
StaysInTunnel(u, page) ==
  LET asked(v) == Resolved(Prefix \o page, v) IN
  /\ Reaches(asked(Redirected(u)), u.path)
  /\ Reaches(asked(Linked(u)), u.path)
  /\ u.origin = "here" =>
       /\ Reaches(asked(Fetched(u)), u.path)
       /\ Reaches(asked(FetchedFromJson(u)), u.path)
       /\ Reaches(asked(FetchedFromScript(u)), u.path)

LinksStay ==
  \A u \in Address, page \in Seq(Segments) :
    OfTheSite(u) => StaysInTunnel(u, page)
=============================================================================
