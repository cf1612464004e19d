--------------------------- MODULE WorkspacePages ---------------------------
(***************************************************************************)
(* The pages from which operators reach a gateway: the dashboard with its  *)
(* Remote Tunnel button, the gateway's workspace and the tunnel console.   *)
(* What a click starts takes several requests, disables the button, and    *)
(* may open a window that waits for the tunnel.                            *)
(*                                                                         *)
(* The tunnel is what TunnelLease makes of it, and is closed, opening or   *)
(* connected here.  A flow is not started again before it has ended.       *)
(***************************************************************************)
EXTENDS Naturals, FiniteSets

CONSTANT MaxIncidents  \* bound on clicks, failures and losses of the tunnel

ASSUME WorkspacePagesAssumption == MaxIncidents \in Nat

VARIABLES
  tunnel,   \* ui_gateway_tunnel_status
  discovery, \* the job of the last discovery
  stage,    \* how far each flow has come
  off,      \* the disabled buttons, by the flow they start
  view,     \* the tunnel as the workspace shows it
  asked,    \* the tunnel as the workspace's loads under way will show it
  devices,  \* whether the workspace lists discovered devices
  console,  \* the tunnel when the console page was loaded
  window,   \* the windows opened by the dashboard and the console page
  incidents  \* how many clicks, failures and losses there were

buttonVars == <<off, view, asked, devices, console, window>>
workspaceVars == <<tunnel, discovery, stage, buttonVars, incidents>>

Loads == {"init", "device", "site"}   \* flows that load the workspace

Flows == Loads \cup {"establish", "connect", "close", "discover",
                     "remote", "open", "reclose", "console"}

ConsoleFlows == {"open", "reclose", "console"}

Openers == {"remote", "console"}

WorkspaceInit ==
  /\ tunnel \in {"closed", "opening", "connected"}
  /\ discovery = "none"
  /\ stage = [f \in Flows |-> "no"]
  /\ off = {} /\ view = "none" /\ devices = FALSE
  /\ asked = [f \in Loads |-> "unknown"]
  /\ console = "none"
  /\ window = [o \in Openers |-> "none"]
  /\ incidents = 0

Incident == incidents < MaxIncidents /\ incidents' = incidents + 1

Goes(f, to) == stage' = [stage EXCEPT ![f] = to]

FlowEnds(f) == Goes(f, "no") /\ off' = off \ {f}

(* The cloud's part of a click on a button that opens or closes.           *)
Opens == tunnel' = IF tunnel = "closed" THEN "opening" ELSE tunnel

-----------------------------------------------------------------------------
(* What happens in the cloud.                                              *)

EdgeConnects ==
  /\ tunnel = "opening" /\ tunnel' = "connected"
  /\ UNCHANGED <<discovery, stage, buttonVars, incidents>>

(* The edge is lost, or the tunnel expires or is closed elsewhere.         *)
TunnelLost ==
  /\ tunnel # "closed" /\ Incident
  /\ tunnel' \in {"opening", "closed"} \ {tunnel}
  /\ UNCHANGED <<discovery, stage, buttonVars>>

(* The edge claims and ends the job, or fifty newer ones hide it.          *)
JobMoves ==
  /\ \/ discovery = "queued" /\ discovery' \in {"claimed", "hidden"}
     \/ /\ discovery = "claimed"
        /\ discovery' \in {"completed", "failed", "hidden"}
  /\ UNCHANGED <<tunnel, stage, buttonVars, incidents>>

-----------------------------------------------------------------------------
(* Loads of the workspace, alone or as the end of a flow.                  *)

Load(f) ==
  /\ Goes(f, "load") /\ asked' = [asked EXCEPT ![f] = tunnel]

(* initGatewayWorkspace; the buttons work before the first load is done.   *)
OpenWorkspace ==
  /\ view = "none" /\ view' = "unknown"
  /\ Load("init")
  /\ UNCHANGED <<tunnel, discovery, off, devices, console, window, incidents>>

(* renderSiteInfo.                                                         *)
LoadArrives(f) ==
  /\ stage[f] = "load"
  /\ view' = asked[f] /\ asked' = [asked EXCEPT ![f] = "unknown"]
  /\ FlowEnds(f)
  /\ UNCHANGED <<tunnel, discovery, devices, console, window, incidents>>

Submit(f) ==
  /\ f \in {"device", "site"}
  /\ stage[f] = "no" /\ view # "none" /\ f = "device" => devices
  /\ Goes(f, "sent") /\ off' = off \cup ({f} \cap {"device"})
  /\ UNCHANGED <<view, asked, devices, console, window>>

Submitted(f) ==
  /\ f \in {"device", "site"} /\ stage[f] = "sent"
  /\ Load(f)
  /\ UNCHANGED <<tunnel, discovery, off, view, devices, console, window,
                 incidents>>

-----------------------------------------------------------------------------
(* The tunnel in the workspace.                                            *)

(* Establish is not offered while the page says that a tunnel is opening.  *)
ClickEstablish ==
  /\ view = "closed" /\ stage["establish"] = "no"
  /\ view' = "opening" /\ Goes("establish", "sent")
  /\ UNCHANGED <<off, asked, devices, console, window>>

EstablishSent ==
  /\ stage["establish"] = "sent"
  /\ Opens /\ Goes("establish", "poll")
  /\ UNCHANGED <<discovery, buttonVars, incidents>>

EstablishPolls ==
  /\ stage["establish"] = "poll"
  /\ view' = tunnel
  /\ IF tunnel = "connected" THEN Goes("establish", "no")
                             ELSE UNCHANGED stage
  /\ UNCHANGED <<tunnel, discovery, off, asked, devices, console, window,
                 incidents>>

EstablishGivesUp ==
  /\ stage["establish"] # "no" /\ Goes("establish", "no")
  /\ view' = "closed"
  /\ UNCHANGED <<tunnel, discovery, off, asked, devices, console, window>>

(* Connect and Close are shown with a connected tunnel.                    *)
Click(f) ==
  /\ f \in {"connect", "close"} /\ view = "connected"
  /\ stage[f] = "no" /\ f \notin off
  /\ Goes(f, "sent") /\ off' = off \cup {f}
  /\ UNCHANGED <<view, asked, devices, console, window>>

(* ui_create_gateway_tunnel_session answers 503 without a connection.      *)
ConnectSent ==
  /\ stage["connect"] = "sent"
  /\ FlowEnds("connect")
  /\ UNCHANGED <<tunnel, discovery, view, asked, devices, console, window,
                 incidents>>

(* The button of a tunnel that has been closed remains disabled.           *)
CloseSent ==
  /\ stage["close"] = "sent"
  /\ tunnel' = "closed" /\ view' = "closed" /\ Goes("close", "no")
  /\ UNCHANGED <<discovery, off, asked, devices, console, window, incidents>>

-----------------------------------------------------------------------------
(* Discovery: ui_discover_devices and pollDiscoveryJob.                    *)

ClickDiscover ==
  /\ view # "none" /\ stage["discover"] = "no"
  /\ Goes("discover", "sent") /\ off' = off \cup {"discover"}
  /\ UNCHANGED <<view, asked, devices, console, window>>

DiscoverSent ==
  /\ stage["discover"] = "sent"
  /\ discovery' = "queued" /\ Goes("discover", "poll")
  /\ UNCHANGED <<tunnel, buttonVars, incidents>>

(* renderDiscoveredDevices, of a completed job.                            *)
DiscoverPolls ==
  /\ stage["discover"] = "poll" /\ discovery \in {"completed", "failed"}
  /\ devices' = (devices \/ discovery = "completed")
  /\ FlowEnds("discover")
  /\ UNCHANGED <<tunnel, discovery, view, asked, console, window, incidents>>

-----------------------------------------------------------------------------
(* openRemoteTunnel of the dashboard.                                      *)

ClickRemote ==
  /\ stage["remote"] = "no" /\ window["remote"] = "none"
  /\ Goes("remote", "status")
  /\ UNCHANGED buttonVars

(* The window is opened after an answer, so the browser may refuse it.     *)
RemoteStatus ==
  /\ stage["remote"] = "status"
  /\ IF tunnel = "connected"
       THEN Goes("remote", "session") /\ UNCHANGED window
       ELSE /\ Goes("remote", "sent")
            /\ \E w \in {"none", "waiting"} :
                 window' = [window EXCEPT !["remote"] = w]
  /\ UNCHANGED <<tunnel, discovery, off, view, asked, devices, console,
                 incidents>>

RemoteSent ==
  /\ stage["remote"] = "sent"
  /\ Opens /\ Goes("remote", "poll")
  /\ UNCHANGED <<discovery, buttonVars, incidents>>

RemotePolls ==
  /\ stage["remote"] = "poll" /\ tunnel = "connected"
  /\ Goes("remote", "session")
  /\ UNCHANGED <<tunnel, discovery, buttonVars, incidents>>

RemoteSession ==
  /\ stage["remote"] = "session" /\ tunnel = "connected"
  /\ Goes("remote", "no")
  /\ \E w \in {"none", "gateway"} : /\ window["remote"] = "waiting"
                                        => w = "gateway"
                                    /\ window' = [window EXCEPT !["remote"] = w]
  /\ UNCHANGED <<tunnel, discovery, off, view, asked, devices, console,
                 incidents>>

RemoteGivesUpOpen ==
  /\ stage["remote"] # "no" /\ Goes("remote", "no")
  /\ UNCHANGED <<tunnel, discovery, buttonVars>>

RemoteGivesUp ==
  /\ stage["remote"] # "no" /\ Goes("remote", "no")
  /\ window' = [window EXCEPT !["remote"] =
                  IF @ = "waiting" THEN "closed" ELSE @]
  /\ UNCHANGED <<tunnel, discovery, off, view, asked, devices, console>>

-----------------------------------------------------------------------------
(* The console page, which shows the tunnel of its last load.              *)

OpenConsole ==
  /\ console = "none" /\ console' = tunnel
  /\ UNCHANGED <<tunnel, discovery, stage, off, view, asked, devices, window,
                 incidents>>

ClickConsole(f) ==
  /\ f \in ConsoleFlows
  /\ f = "open" => console = "closed"
  /\ f = "reclose" => console \in {"opening", "connected"}
  /\ f = "console" => console = "connected" /\ window["console"] = "none"
  /\ stage[f] = "no"
  /\ Goes(f, "sent") /\ off' = off \cup {f}
  /\ IF f = "console" THEN \E w \in {"none", "waiting"} :
                             window' = [window EXCEPT !["console"] = w]
                      ELSE UNCHANGED window
  /\ UNCHANGED <<view, asked, devices, console>>

(* The page is loaded again, and with it goes what it was waiting for; a   *)
(* window that it has opened stays as it is.                               *)
Reloaded ==
  /\ stage' = [f \in Flows |-> IF f \in ConsoleFlows THEN "no" ELSE stage[f]]
  /\ off' = off \ ConsoleFlows
  /\ console' = tunnel'
  /\ window' = [window EXCEPT !["console"] =
                  IF @ = "waiting" THEN "abandoned" ELSE @]
  /\ UNCHANGED <<discovery, view, asked, devices>>

ConsoleOpens ==
  /\ stage["open"] = "sent"
  /\ Opens /\ Reloaded /\ UNCHANGED incidents

ConsoleCloses ==
  /\ stage["reclose"] = "sent"
  /\ tunnel' = "closed" /\ Reloaded /\ UNCHANGED incidents

(* The window goes to the gateway; a refused one is replaced by a link.    *)
ConsoleSession ==
  /\ stage["console"] = "sent" /\ tunnel = "connected"
  /\ FlowEnds("console")
  /\ window' = [window EXCEPT !["console"] =
                  IF @ = "waiting" THEN "gateway" ELSE @]
  /\ UNCHANGED <<tunnel, discovery, view, asked, devices, console, incidents>>

ConsoleSessionFails ==
  /\ stage["console"] = "sent"
  /\ FlowEnds("console")
  /\ window' = [window EXCEPT !["console"] =
                  IF @ = "waiting" THEN "closed" ELSE @]
  /\ UNCHANGED <<tunnel, discovery, view, asked, devices, console>>

-----------------------------------------------------------------------------
(* A request of any other flow fails, and enables the button again.        *)
FlowFails(f) ==
  /\ f \in Flows \ {"establish", "remote", "console"} /\ stage[f] # "no"
  /\ FlowEnds(f)
  /\ asked' = [g \in Loads |-> IF g = f THEN "unknown" ELSE asked[g]]
  /\ UNCHANGED <<tunnel, discovery, view, devices, console, window>>

Fails ==
  /\ Incident
  /\ \/ EstablishGivesUp \/ RemoteGivesUp \/ ConsoleSessionFails
     \/ \E f \in Flows : FlowFails(f)

(* The ends of 30 seconds of polling, of 300 seconds, and the refusals of  *)
(* a session.                                                              *)
TimesOut ==
  /\ \/ stage["establish"] = "poll" /\ EstablishGivesUp
     \/ stage["remote"] = "poll" /\ RemoteGivesUp
     \/ stage["remote"] = "session" /\ tunnel # "connected" /\ RemoteGivesUp
     \/ tunnel # "connected" /\ ConsoleSessionFails
     \/ stage["discover"] = "poll" /\ FlowFails("discover")
  /\ UNCHANGED incidents

UserClicks ==
  /\ Incident
  /\ \/ ClickEstablish \/ ClickDiscover \/ ClickRemote
     \/ \E f \in Flows : Submit(f) \/ Click(f) \/ ClickConsole(f)
  /\ UNCHANGED <<tunnel, discovery>>

RequestAnswered ==
  \/ \E f \in Loads : LoadArrives(f) \/ Submitted(f)
  \/ EstablishSent \/ ConnectSent \/ CloseSent
  \/ DiscoverSent \/ DiscoverPolls
  \/ RemoteStatus \/ RemoteSent \/ RemotePolls \/ RemoteSession
  \/ ConsoleOpens \/ ConsoleCloses \/ ConsoleSession

WorkspaceNext ==
  \/ OpenWorkspace \/ OpenConsole
  \/ EdgeConnects \/ TunnelLost \/ JobMoves
  \/ UserClicks \/ RequestAnswered \/ EstablishPolls \/ Fails \/ TimesOut

(* Requests are answered, and the clocks of the polling loops run.         *)
WorkspaceFairness ==
  /\ WF_workspaceVars(RequestAnswered)
  /\ WF_workspaceVars(TimesOut)

-----------------------------------------------------------------------------
(* Whatever a request meets, every click comes to its end: the buttons are *)
(* enabled again, except Close in the workspace when it has succeeded, and *)
(* no window that was opened for the tunnel is left waiting for it by a    *)
(* page that is still there.                                               *)
ClicksEnd ==
  <>[](/\ \A f \in Flows : stage[f] = "no"
       /\ off \subseteq {"close"}
       /\ \A o \in Openers : window[o] # "waiting")
=============================================================================
