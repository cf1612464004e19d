----------------------------- MODULE Dashboard -----------------------------
(***************************************************************************)
(* The dashboard page: the list of gateways and of their updates, which a  *)
(* timer refreshes, the gateway that is selected in it, and the inspector, *)
(* which asks the cloud for the weather and the heartbeats of the selected *)
(* gateway.  Answers arrive in any order, and whatever a request waits for *)
(* has been looked up when it was sent.                                    *)
(*                                                                         *)
(* Every gateway has a site of its own and needs an update.  Of several    *)
(* requests for the same thing by elements that were replaced since, the   *)
(* page keeps one.                                                         *)
(***************************************************************************)
EXTENDS Naturals, FiniteSets

CONSTANTS
  Gateways,     \* in the order of their identifiers
  Located,      \* gateways whose site has a latitude and a longitude
  Caches,       \* the lists a browser may have kept
  MaxEvents     \* bound on clicks, failures and changes in the cloud

ASSUME DashboardAssumption ==
  /\ Gateways \subseteq Nat \ {0} /\ IsFiniteSet(Gateways)
  /\ Located \subseteq Gateways /\ Caches \subseteq SUBSET Gateways
  /\ MaxEvents \in Nat

VARIABLES
  shown,     \* the gateways this operator may see
  requested, \* the updates of each gateway that are not completed
  list,      \* dashboardGateways
  updates,   \* dashboardGatewayUpdates
  selected,  \* selectedDashboardGatewayId
  rows,      \* the gateways in the table, which may be older
  panel,     \* the gateway in the inspector
  text,      \* what the inspector says of the weather and the heartbeats
  known,     \* dashboardWeather and dashboardHeartbeatTrends
  loads,     \* requests for them, for elements that are live or replaced
  step,      \* how far the refresh in flight has come
  saved,     \* savedGatewayId of that refresh
  got,       \* the answers under way to it
  queueing,  \* queueGatewayUpdates
  events     \* how many clicks, failures and changes there were

cloudVars == <<shown, requested>>
pageVars == <<list, updates, selected>>
inspectorVars == <<rows, panel, text, known, loads>>
refreshVars == <<step, saved, got>>
dashboardVars == <<cloudVars, pageVars, inspectorVars, refreshVars,
                   queueing, events>>

Nobody == 0

Pieces == {"weather", "trend"}

NoUpdates == [g \in Gateways |-> "none"]

Nothing == [list |-> {}, updates |-> NoUpdates]

Idle == [at |-> "no", ids |-> {}, updates |-> NoUpdates]

(* ui_list_gateway_updates: the newest request of each visible gateway     *)
(* that is queued, running (which counts as queued here) or failed.        *)
ListingOf(requests) ==
  [g \in Gateways |->
     IF g \notin shown THEN "none"
     ELSE IF requests[g] = "requeued" THEN "queued" ELSE requests[g]]

Listing == ListingOf(requested)

(* ui_list_gateways.                                                       *)
Listed == [Nothing EXCEPT !.list = shown]

(* The selection if the list has it, and the first gateway otherwise.      *)
KeptIn(l, g) ==
  IF g \in l THEN g
  ELSE IF l = {} THEN Nobody
  ELSE CHOOSE first \in l : \A other \in l : first <= other

(* loadGatewayWeather is given the gateway in the panel, and does nothing  *)
(* when that is not the selected one.                                      *)
TextAtFirst(p, s, piece) ==
  IF p \in known[piece] /\ (piece = "trend" \/ p = s) THEN "known"
  ELSE IF piece = "weather" /\ p = s /\ p \notin Located THEN "gps"
  ELSE "loading"

Asks(p, s, piece) ==
  /\ p # Nobody /\ p \notin known[piece]
  /\ piece = "weather" => p = s /\ p \in Located

(* renderGatewayList: the rows, from which a gateway can be selected.      *)
Tabulate(l) == rows' = l

(* renderGatewayInspector, with the elements that its requests fill.       *)
Inspect(l, s) ==
  LET p == KeptIn(l, s) IN
  /\ panel' = p
  /\ text' = [piece \in Pieces |-> TextAtFirst(p, s, piece)]
  /\ loads' = {[load EXCEPT !.live = FALSE] : load \in loads} \cup
              {[of |-> p, piece |-> piece, live |-> TRUE] :
                 piece \in {each \in Pieces : Asks(p, s, each)}}
  /\ UNCHANGED known

(* renderDashboardFromCurrentState, for a list and a selection.            *)
Render(l, s) == Tabulate(l) /\ Inspect(l, s)

DashboardInit ==
  /\ shown = Gateways /\ requested = NoUpdates
  /\ list = {} /\ updates = NoUpdates /\ selected = Nobody
  /\ rows = {} /\ panel = Nobody /\ text = [piece \in Pieces |-> "none"]
  /\ known = [piece \in Pieces |-> {}] /\ loads = {}
  /\ step = "closed" /\ saved = Nobody /\ got = Nothing
  /\ queueing = Idle
  /\ events = 0

(* initDashboard: the page is opened with the list and the selection that  *)
(* the browser has kept, which are shown until the first refresh ends.     *)
OpenDashboard ==
  /\ step = "closed"
  /\ \E cached \in Caches, chosen \in Gateways \cup {Nobody} :
       /\ list' = cached /\ saved' = chosen
       /\ selected' = KeptIn(cached, chosen)
       /\ Render(cached, selected')
  /\ step' = "lists" /\ got' = Listed
  /\ UNCHANGED <<cloudVars, updates, queueing, events>>

Event == events < MaxEvents /\ events' = events + 1

-----------------------------------------------------------------------------
(* What changes in the cloud meanwhile.                                    *)

Reveal(g) ==
  shown' = IF g \in shown THEN shown \ {g} ELSE shown \cup {g}

(* A request that is completed no longer hides one that failed before it.  *)
UpdateEnds(g) ==
  \/ /\ requested[g] = "queued"
     /\ \E outcome \in {"none", "failed"} :
          requested' = [requested EXCEPT ![g] = outcome]
  \/ /\ requested[g] = "requeued"
     /\ requested' = [requested EXCEPT ![g] = "failed"]

CloudChanges(g) ==
  /\ Event
  /\ \/ Reveal(g) /\ UNCHANGED requested
     \/ UpdateEnds(g) /\ UNCHANGED shown
  /\ UNCHANGED <<pageVars, inspectorVars, refreshVars, queueing>>

-----------------------------------------------------------------------------
(* The requests of the inspector.                                          *)

(* An answer is told to the element that was there when it was asked for,  *)
(* unless another gateway is selected now.                                 *)
IsStillOf(load) ==
  load.of = IF load.piece = "weather" THEN selected ELSE KeptIn(list, selected)

Told(load, what) ==
  text' = IF load.live THEN [text EXCEPT ![load.piece] = what] ELSE text

Learns(load) ==
  /\ known' = [known EXCEPT ![load.piece] = @ \cup {load.of}]
  /\ IF IsStillOf(load) THEN Told(load, "known") ELSE UNCHANGED text

Ends(load) ==
  /\ loads' = loads \ {load}
  /\ UNCHANGED <<shown, requested, pageVars, rows, panel, refreshVars,
                 queueing>>

(* The heartbeats, or a weather that the cloud has cached or has asked for *)
(* now; how old it is, the page does not ask.                              *)
PieceArrives(load) == Learns(load) /\ Ends(load) /\ UNCHANGED events

(* Also the 502 of a weather service that does not answer, and the second  *)
(* of two first requests at once, whose insert fails.                      *)
LoadFails(load) ==
  /\ Event /\ Ends(load) /\ UNCHANGED known
  /\ IF load.piece = "trend" \/ IsStillOf(load) THEN Told(load, "error")
                                                ELSE UNCHANGED text

Answered ==
  \E load \in loads : PieceArrives(load)

-----------------------------------------------------------------------------
(* refreshDashboardGatewayData: one at a time, with the selection of its   *)
(* start.                                                                  *)

StartRefresh ==
  /\ step = "none"
  /\ step' = "lists" /\ saved' = selected
  /\ got' = Listed
  /\ UNCHANGED <<cloudVars, pageVars, inspectorVars, queueing, events>>

ListsArrive ==
  /\ step = "lists"
  /\ list' = got.list
  /\ step' = "updates" /\ got' = [list |-> {}, updates |-> Listing]
  /\ UNCHANGED <<cloudVars, updates, selected, inspectorVars, saved, queueing,
                 events>>

UpdatesArrive ==
  /\ step = "updates"
  /\ updates' = got.updates /\ step' = "jobs" /\ got' = Nothing
  /\ UNCHANGED <<cloudVars, list, selected, inspectorVars, saved, queueing,
                 events>>

JobsArriveForSaved ==
  /\ step = "jobs"
  /\ selected' = saved /\ step' = "metrics" /\ saved' = Nobody
  /\ UNCHANGED <<cloudVars, list, updates, inspectorVars, got, queueing,
                 events>>

(* The selection of the start is back, if the list still has it.           *)
JobsArrive ==
  /\ step = "jobs"
  /\ selected' = KeptIn(list, saved)
  /\ step' = "metrics" /\ saved' = Nobody
  /\ UNCHANGED <<cloudVars, list, updates, inspectorVars, got, queueing,
                 events>>

(* loadCloudMetrics does not fail the refresh.                             *)
MetricsArrive ==
  /\ step = "metrics"
  /\ Render(list, selected) /\ step' = "none"
  /\ UNCHANGED <<cloudVars, pageVars, saved, got, queueing, events>>

RefreshFails ==
  /\ step \in {"lists", "updates", "jobs"} /\ Event
  /\ IF list # {} THEN Render(list, selected)
                  ELSE Tabulate({}) /\ UNCHANGED <<panel, text, known, loads>>
  /\ step' = "none" /\ saved' = Nobody /\ got' = Nothing
  /\ UNCHANGED <<cloudVars, pageVars, queueing>>

Refreshed ==
  StartRefresh \/ ListsArrive \/ UpdatesArrive \/ JobsArrive \/ MetricsArrive

-----------------------------------------------------------------------------
(* queueGatewayUpdates; a second one starts when the first has ended.      *)

Post(ids) ==
  /\ queueing.at = "no" /\ ids # {}
  /\ queueing' = [Idle EXCEPT !.at = "post", !.ids = ids]

(* ui_request_gateway_updates, of which a request that is open is reused.  *)
Queued ==
  requested' = [g \in Gateways |->
                  IF g \notin queueing.ids THEN requested[g]
                  ELSE CASE requested[g] = "none" -> "queued"
                         [] requested[g] = "failed" -> "requeued"
                         [] OTHER -> requested[g]]

PostArrives ==
  /\ queueing.at = "post" /\ queueing.ids \subseteq shown
  /\ Queued
  /\ queueing' = [Idle EXCEPT !.at = "list",
                              !.updates = ListingOf(requested')]
  /\ UNCHANGED <<shown, list, updates, selected, inspectorVars,
                 refreshVars, events>>

QueueListArrives ==
  /\ queueing.at = "list"
  /\ updates' = queueing.updates /\ queueing' = Idle
  /\ Tabulate(list)
  /\ UNCHANGED <<cloudVars, list, selected, panel, text, known, loads,
                 refreshVars, events>>

(* A gateway that is no longer visible refuses all of them.                *)
PostRefused ==
  /\ queueing.at = "post" /\ ~(queueing.ids \subseteq shown)
  /\ queueing' = Idle
  /\ UNCHANGED <<cloudVars, pageVars, inspectorVars, refreshVars, events>>

(* A request fails, or the cloud has handled it and its answer is lost.    *)
QueueFails ==
  /\ queueing.at # "no" /\ Event
  /\ \/ UNCHANGED requested
     \/ queueing.at = "post" /\ queueing.ids \subseteq shown /\ Queued
  /\ queueing' = Idle
  /\ UNCHANGED <<shown, pageVars, inspectorVars, refreshVars>>

QueueAnswered == PostArrives \/ QueueListArrives \/ PostRefused

-----------------------------------------------------------------------------
(* What the user does.                                                     *)

(* selectDashboardGateway, of a row or a marker of the map.                *)
Select(g) ==
  /\ g \in rows
  /\ selected' = g /\ Render(list, g)
  /\ UNCHANGED <<list, updates, queueing>>

(* The button of a gateway whose update is not under way, or that for all  *)
(* gateways whose boxes are ticked, also those that have left the list.    *)
ClickUpdate(ids) ==
  /\ rows # {}
  /\ Post(ids) /\ UNCHANGED <<pageVars, inspectorVars>>

Clicks ==
  /\ Event
  /\ \/ \E g \in Gateways : Select(g)
     \/ \E ids \in SUBSET Gateways : ClickUpdate(ids)
  /\ UNCHANGED <<cloudVars, refreshVars>>

-----------------------------------------------------------------------------
DashboardNext ==
  \/ OpenDashboard
  \/ \E g \in Gateways : CloudChanges(g)
  \/ Answered
  \/ \E load \in loads : LoadFails(load)
  \/ Refreshed \/ RefreshFails
  \/ QueueAnswered \/ QueueFails
  \/ Clicks

(* The timer of the page runs, and requests are answered.                  *)
DashboardFairness ==
  /\ WF_dashboardVars(Refreshed)
  /\ WF_dashboardVars(Answered)
  /\ WF_dashboardVars(QueueAnswered)

-----------------------------------------------------------------------------
(* The page shows what the cloud has, and everything of one gateway.       *)
CaughtUp ==
  /\ list = shown /\ updates = Listing
  /\ selected = panel /\ panel = KeptIn(list, panel)
  /\ panel # Nobody =>
       /\ text["weather"] = IF panel \in Located THEN "known" ELSE "gps"
       /\ text["trend"] = "known"

(* Whatever failed, was clicked in between or arrived late, the page shows *)
(* the cloud's gateways and updates in the end, and the inspector is that  *)
(* of the selected gateway and has left "Loading..." for good.             *)
DashboardCatchesUp == <>[](step # "closed" => CaughtUp)
=============================================================================
