# Verification of the IoT cloud commissioning platform

TLA+ models of the cloud API (`src/cloud-api`), its pages, the edge agent
(`src/edge-agent`), the updaters (`src/tools`) and what passes between them,
checked with TLC and, where a result should hold for every number of jobs,
requests and gateways, proved with TLAPS.  `PROJECT.json` names the source lines
of every definition, the runs, a plausible bug (mutant) that breaks each
property, the hazards and the theorems.

## 1. The system

A cloud service (FastAPI, PostgreSQL, one event loop plus worker threads), an
optional relay process that owns the tunnels, the operators' browsers, and one
agent per building gateway (Python threads, SQLite).  The gateway always calls
the cloud; the cloud never dials the gateway.  Updater applications run on a
desk, reach gateways over SSH and report to the cloud.

| Component | State | Operations | Met by | Correct when |
|---|---|---|---|---|
| Job queue (`main.py` create_job, _claim_next_job_once, receive_job_result) | `edge_jobs` rows: type, status, claim time, result | create, requeue stale claims, claim with SKIP LOCKED, store a result | operators, held polls, agent | a write is executed at most once, a report is true, a read job ends |
| Edge command loop (`jobs.py`, `main.py`, `db.py`) | thread position, local `jobs` table | poll, record, execute, record result, post once | cloud over HTTP | the same, through crashes and lost messages |
| Write approval (`main.py` 1487-1602, 3439-3575) | batch, commands, job pointers | stage, approve, claim, dispatch, reconcile, refresh status | job queue, audit pages | status and audit rows tell what was sent |
| Held polls (`main.py` 262-310, 4615-4649) | generation and waiters per gateway | read, claim pass, wait, notify | job queue, tunnel | no notification is lost, no job waits for ever |
| Operator tunnel (`tunnel.py` on both sides, `main.py` 339-373, 2373-2587) | lease table, expiry tasks, registered sockets; edge lease thread | open, close, expire, admit, register, dial | held polls carry the lease | a renewed lease keeps its tunnel, an ended one loses it |
| Relay and relay owner (`tunnel_relay_*.py`) | request row, registry, pipes, expiry tasks | admit, pipe, register, expire, crash | operator tunnel | a tunnel ends with its lease, an active request gets one |
| Tunnel multiplexing and console sessions (`tunnel.py`, `main.py` 995-1300, 2590-2780) | pending requests, sessions, rewritten addresses | request, respond, fail pending, rewrite | operator tunnel | no request waits in a dead tunnel, addresses stay in the session |
| Edge trends (`trends.py`, `db.py`) | samples, outbox, quarantine, runs | sample a group, defer, queue, upload, bisect, quarantine | BACnet port, cloud | runs add up, budget and interval are kept |
| BACnet port and reads (`bacnet.py`) | lock file, route records, results | acquire, wait, give up, release; read, bulk read, load points | trends, job execution | one reader at a time; a reported value belongs to its point |
| Inventory (`main.py` 2780-3940) | devices, points, groups, roles, templates, trend configurations | save, retire, import, sync, assign, bind | agent, operators | what an operator retired stays off, a point is read at its device's address |
| Fleet record (`main.py` 432-530, 4068-4150, 4197-4535) | heartbeats, alert rows, credentials, update requests | heartbeat, compare identities, evaluate, provision, revoke, queue, claim, complete | agent, operators, updaters | the last word an operator hears is true |
| Updaters (`tools/`) | job record, phases, service states, checkpoints | stop, back up, replace, restart, verify, roll back | gateway host, cloud | complete means done, a job ends, a bad release is held |
| Accounts and access (`auth.py`, `access.py`) | users, invitations, memberships, activity | register, invite, administer, decide, sign out | all operator handlers | sites are seen by a grant, an approval stands |
| Pages (`ui.py`) | lists, selection, buttons, windows, idle time | refresh, select, queue, open and close a tunnel | all handlers for operators | a page catches up, a click comes to its end |

What is hard: handlers run on several threads and one event loop under READ
COMMITTED; an agent may answer twice or never; leases are held by both sides
with different views; asyncio tasks are cancelled at any await; nothing on the
edge replays what a crash interrupted; answers reach a page in any order.  The
hazards of `PROJECT.json` give the line at which each of these bites.

## 2. The modules

| Module | Models | Theorems in |
|---|---|---|
| `WriteOnce` | what operators rely on: a write job is queued, perhaps executed, executed at most once, reported truthfully | |
| `EdgeJobs` | job queue, held polls, agent and network; implements `WriteOnce` | `JobsProofs` |
| `WriteBatch` | approval and audit of one batch of writes | `OperatorsProofs` |
| `CommandWait` | `CommandWaitNotifier` and the loop of `claim_next_job` | `JobsProofs` |
| `TunnelLease` | lease, expiry task, sockets and edge worker without relay | `TunnelLeaseProofs` |
| `TunnelRelay` | request row, relay pipes, tunnel owner, requests under way and the edge worker | `TunnelRelayProofs` |
| `TunnelRewrite` | the rewriting of addresses below a console session | `TunnelRelayProofs` |
| `BacnetPort` | the lock file that keeps BACnet commands apart | `BacnetPortProofs` |
| `BacnetReads` | the commands of one read job, with routes and fallbacks | `BacnetPortProofs` |
| `EdgeTrends` | the trend sampling cycles of the agent | `EdgeTrendsProofs` |
| `Inventory` | devices, points and trend configurations, by handlers that overlap | `InventoryProofs` |
| `EquipmentRoles` | group, template and roles of a device, mapping templates | `InventoryProofs` |
| `GatewayRecord` | operators on the row of a gateway: heartbeat, markers, status | |
| `GatewayUpdates` | queued updates, both updater workers, the health gate | `FleetProofs` |
| `GatewayHost` | what the commands of an updater leave behind on a gateway | |
| `UpgradeJobs` | the jobs and threads of both updaters; uses `GatewayHost` | `FleetProofs` |
| `OfflineAlerts` | heartbeats, credentials and evaluations of alerts | `FleetProofs` |
| `DuplicateIdentity` | the comparison of the machines behind recent heartbeats | `FleetProofs` |
| `Access` | accounts, invitations, memberships, sites in view | `OperatorsProofs` |
| `Sessions` | idle sign-out of pages and cloud; uses `Access` | `OperatorsProofs` |
| `Dashboard` | the refreshing list of gateways and its inspector | |
| `WorkspacePages` | the buttons and windows of workspace, console and remote tunnel | |

`MC*` modules give TLC its model values.  Four of them (`MCBacnetPort`,
`MCFleet`, `MCTunnelRelay`, `MCOperators`) put modules side by side whose state
does not touch: an instance of such a run chooses its `part` in the initial state
and leaves the variables of the others alone.  Nothing of a composition is
claimed there.  The proof modules are grouped in the same way, one for the theorems
of several modules; each theorem names the specification it is about.

The compositions that are real: `EdgeJobs` composes the cloud's queue with the
agent and the messages between them and abstracts the wake-up of a held request
into one action, `Wake`; `CommandWait` is the detailed model of that wake-up and
abstracts the stale claims in turn.  `WriteBatch` looks at the same job
transactions from the side of one batch, where two of them may overlap.
`GatewayUpdates` and `OfflineAlerts` both write the row of `GatewayRecord`;
`UpgradeJobs` keeps its gateway by the operators of `GatewayHost`; `Sessions` asks
`Access`.

### EdgeJobs

`status`, `result` and the claim's age are the `edge_jobs` row; `pollPc` is where
a `jobs/next` request is, `agentPc` where the command thread is; `inFlight`
results are the posts under way.  One action per transaction of the cloud, per
storage call, execution and HTTP call of the agent.  Faults (`FaultKinds`) are the
ones the code meets: a lost answer, an abandoned poll, a lost result, a crash, a
SQLite error (which ends the thread for good, `main.py` 135-150), a claim that
grows old.  `MaxFaults` bounds how many strike.  `receive_job_result` accepts a
report from any status, as the code does.

### WriteBatch

The claim and the result transaction read at `Begin...` and write at
`CommitJobTxn`, so that two of them overlap as READ COMMITTED lets them;
`RefreshTxn` is `_refresh_write_batch_status` on what the transaction sees.
`overtaken` and `doubtful` are history: open transactions that read before another
committed, and whether the last to commit was one.  An answer may be `deferred`, which
the handler records; the edge never defers a write (`jobs.py` 135-138).
`MaxOpen` bounds the open transactions, `ApprovalsOverlap` says whether two
approval requests may run at once.

### CommandWait

A writer commits and then notifies, or never notifies (`AfterCommit`); a request
reads the generation, makes a pass over the database and waits.  `MaxAborts`
bounds failed claims.  Answers are removed from the queue when they commit.

### TunnelLease

`lease`, `task` and `registered` are the cloud's three views of one tunnel; a
handler is atomic up to its next await, so `close_gateway` is three actions and
`edge_tunnel` two.  `CancelTask` interrupts an expiry task in the middle of its
closing, which the code does.  Time is `now`, at most `Horizon`; both sides read
the same clock.  Sockets are used again when both ends are closed.

### TunnelRelay

The lease is a database row here, and the registry is in another process.  A
`link` is a dial of the edge: the worker that admits it, the pipe to the owner
and the owner's connection.  Admission reads the row and registers later, so a
close may come in between.  The owner may crash, which drops every link and every
request under way; a link may be lost on either side alone; a close may not reach
the owner.  Expiry tasks sleep until the lease they were started with and close
whatever is registered then.  A `jobs/next` call is three steps: the worker looks at
the request row (`LookAtRow`), asks the owner whether it has a tunnel (`LookAtOwner`),
and the edge takes what the answer carries (`TakeAnswer`); anything may happen in
between, and the call may fail.  An answer without a lease makes the edge leave its
tunnel.  One call is under way at a time, since one thread of the agent makes them.

### TunnelRewrite

An address is its origin, whether it starts at the root, its path as segments and
whether it has a fragment.  The operators are the rewritings of the cloud and of
the helper script it puts into pages; an address passes those that apply to its
way (redirect, attribute, JSON, script, fetch).  The query of an address, which every
rewriting keeps as it is (`main.py` 1023), and how an address is found in text are not
modelled; `LinksStay` is claimed for the addresses of `OfTheSite` only, to which
relative addresses do not belong.

### BacnetPort

`file`, `written`, `dead` and `old` are the lock file: who created it, whether
the pid is in it, whether that process still runs, whether it is over age.  One
action per file operation of `acquire`, `release` and `bacnet_runtime_lock_held`,
because two threads of one process and other processes meet on the file only.
`holders` and `taken` are history: who created a lock and has not released it,
and from whom it was removed meanwhile.  Left out: an `OSError` when a file is
unlinked (file permissions) and the reuse of a pid by another program.

### BacnetReads

One job between taking and releasing the port.  `stage` is where it is: the single
command, a batch, the values of a batch, a block of the object list, an item, the
names.  Every command resolves the route anew from the records (`routed`, `native`,
`cached`), which `ChangeRecords` rewrites at any time.  A command fails, or answers
for a subset of what it asked; `values`, `points` and `names` are the result.  What
a command answers for an object is the object itself, so a value that reached the
wrong point shows.  A request for one value may name any object.  The lists that
recur in the code (filtering, joining without repetition) are functions of a
prefix, so that they can be reasoned about.

### EdgeTrends

The whole cycle is one SQLite transaction: `tx` is what it holds, `run` what is
committed, `writer` who has it open.  One action per decision of
`sample_local_edge_trends` and `_sample_local_group`: skip, probe, insert the run
row, read a batch, stop early, complete.  `age` is the time since the last
committed `started_at`; it stops at `MaxAge`, where a group is due whatever
happens.  A group is given by the sizes of its batches; `_chunked` per device
gives any such list.  Whether a read succeeds does not matter: a sample is
stored for every point.  Of a group that raises in the middle of a batch the
model keeps the complete batches.  `EdgeTrends` takes the port as something that
may be busy whenever it is asked; `BacnetPort` says what it does.

### Inventory

`profile`, `instance`, `live`, `address` and `enabled` are columns of devices and
points, `trend` those of the configurations.  Every handler, job result, import of a
template and snapshot of the edge is two steps: `Begin` reads and assigns, and
`CommitRequest` writes the columns that differ from what was read (`NetChange`), or
the request rolls back.  Sessions have `autoflush=False` (`database.py` 66) and the
database READ COMMITTED, so nothing keeps others from committing in between; an insert
of a row that somebody else inserted meanwhile fails.  The queries of one handler are
one look, and an import has one device of its template.  History: `stopped` are points
an operator retired and nobody switched on since (`stops` before the commit); `late`
and `strayed` are devices and points whose addresses others wrote since the look of a
handler, or which a snapshot left out when it moved their device.

The agent asks for trend configurations in its legacy mode only (`trend_transport_mode`,
by default `edge_local`, `config.py` 60), and uses each answer for one cycle; that is
left out.

### EquipmentRoles

A handler either runs undisturbed or is held (`open`) between its validation
and its commit while others commit; the partial unique index refuses a role that is
bound twice.  `overlapped` and `moved` are history: rows changed under a handler, or
the category under a template.

### GatewayHost and UpgradeJobs

`GatewayHost` is a library of operators: for each group of commands the states it
may leave, with every prefix of the group if a command fails.  In `UpgradeJobs` a
thread works off the phases of its job on `gateway`; continuations and rollbacks
start threads beside it.  A thread takes its next phase in one hold of the lock
(`TakePhase`, which also passes over phases that are not selected) and says that the job
is running in another (`RunPhase`).  `RealRun` is what `parse_upgrade_request` lets pass
for a real run: a standard set of phases, or some of 4, 5 and 11.  The final phase of the
older updater runs its checks with `stop_on_failure=False`
(`legacy_edge_upgrade_webapp.py` 1825) and passes whatever they find; that of the newer
one wants services that run and the release.  The interface's checks are satisfied by
files of two releases.  The checkpoint between phases, the release checks, the write
token and its handoff are modelled; SSH, dry runs and the checks of an artifact before
upload are not.  `shared` and `tampered` are history: jobs that did not have the gateway
for themselves, and jobs for which an operator started commands.

### GatewayRecord, GatewayUpdates

The row of a gateway and what a heartbeat, a completed update and a provisioning
write into it.  Queueing and claiming each read and commit in two steps (`asked`
and `claims`), because the code takes no lock.  The older updater waits for its
job and then for health; the newer one reports in the background, also late.  The
health gate reads what the cloud has heard by the gateway's own clock.  `faults`
counts lost answers, lost reports and restarts.  The history (`done`, `back`) is
kept for each worker and request, since a request that is claimed twice is done
twice, and a heartbeat between the two shows one of them only.

### OfflineAlerts

Heartbeats with a credential that may have been revoked, and evaluations that read
the alert rows, send webhooks while they decide and commit at the end, where an
insert may conflict.  `told` is what the operator heard last; `twice`, `untrue` and
`capped` are history, and so is `over`: the rows that were committed by another
evaluation since this one read them.  Those are in `untrue` when it commits, and
so is what it told if it conflicts or dies.

### DuplicateIdentity

Machines that hold one gateway's credential, each with a machine id (a cloned disk
shares it), a hardware address, a host name, an address and a clock.  `Suspected` is
the comparison of the heartbeats that are recent by the machines' own clocks.  What
was not detected is `Unknown` and does not count.  The code compares at most the 200
newest heartbeats; the model has fewer in a window.

### Access and Sessions

`Access`: accounts, memberships and sites; an invitation is two actions, because it
waits for Supabase between reading the account and writing it.  `Sessions`: two tabs
with an idle time of their own, the activity record of the cloud and the sign-out
that they share.  A tick is two minutes.  `excused` is history: the operator paused
too long on a page, or an administrator intervened.

### Dashboard and WorkspacePages

`Dashboard`: the steps of a refresh, the table, the selection, the inspector's
requests and what their answers still belong to; jobs, failures and clicks come at
any time, and whatever waits was looked up when it was sent.  How old the weather in
the cloud's cache is makes no difference to the page and is left out.  `WorkspacePages`: the
flows a click starts (open, close, discovery, console, remote tunnel), their
requests, the disabled buttons and the windows they opened; the tunnel may be lost
or closed elsewhere meanwhile.

## 3. The runs

| Run | Bounds | Shows |
|---|---|---|
| `edge_jobs` | one read, one write, two polls, two faults of six kinds | safety of writes, refinement of `WriteOnce`, every read job ends |
| `operators` | three commands on two devices, two approvals, three open transactions; one operator, two organizations and sites, six edits; two tabs, limit of four ticks, two edits, one fault; dashboard of two gateways, two events; pages with two incidents | batch and audit, sites in view, approvals, idle sign-out, pages that catch up and clicks that end |
| `write_batch_twice` (violation) | two overlapping approvals | the values are sent twice |
| `command_wait` | relay gateway, one job, one tunnel request, two polls, one failed claim | no lost wake-up, everything is handed out |
| `tunnel_lease` | two sockets, four instants, two opens, one dropped connection | renewals are safe, tunnels end |
| `tunnel_relay` | two links, one request, three instants, two events: opens, time-outs, lost polls or faults; paths of up to three of four segments | requests and their operators wait in live tunnels only, tunnels end with leases, an active request gets one, addresses stay in the session |
| `bacnet_port` | command thread, trend thread, agent by hand, one crash; three objects, batches and blocks of two, two route records, one change, two failed commands | commands meet only where a lock was taken, the port stays in use, reports of reads are true |
| `edge_trends` | agent and one by hand, groups of batches 1,1 and 2, budget 2, one failure, cycles of one tick at most | budget and interval are kept, groups that fit are read again and again |
| `inventory` | two device rows, two instances, one object, one profile, one load; two handlers at a time; rows and handlers together at most four | what is retired stays off, points have the address of their device |
| `equipment_roles` | two points, one group, one category, one mapping template, one held transaction, requests for one point at a time | roles fit their template unless handlers overlap |
| `upgrade_jobs` | one job of each updater, of the interface, the agent or phase 5, two threads, one request beside them, one failure at any command | complete means done, every job ends |
| `fleet` | one gateway, two requests, one worker of each updater, halt after one failure, one fault; two credentials, two evaluations, one delivery per run, two heartbeats, one trouble; two machines, two heartbeats, one move, one failed detection, clocks one unit off | updates that are reported are back, a bad release is held, alerts and warnings are true |

Why the bounds suffice: every race in these components is between two actors
over one row, one waiter list, one registry or one file.  Two polls give an
abandoned request and its successor; a read and a write job give both sides of the
reaper's distinction; two faults give a retry of what a first fault interrupted;
three commands on two devices give a device with several commands and two jobs of
one batch; two opens give a superseded lease, two sockets or links a replaced
connection, and in `tunnel_relay` an open and a fault give an answer that came too late.
Two threads of one process and a third of another give every relation
of pids; two groups give one that uses up the budget and one that starves, and a
group of two batches can be cut between them.  Two device rows of one instance are
what a discovery and a snapshot make of one device, and two handlers over one point of
one device are a look and what is committed between it and its commit.  Two update
requests give one that is halted by the failure of the other.  Two machines are the original and a
clone, and two heartbeats are all the comparison tells apart.  Two gateways on the
dashboard give one that is selected and one that is clicked meanwhile.  Symmetry is
used in no run that checks liveness.

Where a bound is tight on purpose: `Skews = {0}` in `fleet`, since a clock that is
ahead passes the health gate (section 4); thresholds of zero in `OfflineAlerts`,
where one unit of time makes a gateway late; `HaltAfter = 1`, the smallest line
that can be stopped; two events in `tunnel_relay` and one fault in `fleet`, because each
of these runs already has some hundred thousand states; in `upgrade_jobs` selections
without phases 6 and 8 and without options, which the theorems cover.

`MCBacnetPort.cfg`, `MCEdgeTrends.cfg`, `MCInventory.cfg` and
`MCEquipmentRoles.cfg` also check that the model never stops.  The other runs do
not: jobs, approvals, opens, edits and time are finite there, and when they are
used up the system rests.

### Fairness

All of it is weak unless said otherwise, and each of these steps stays possible
until it is taken.

- `EdgeJobs`: cloud handlers and the agent's thread take their steps and polls are
  sent again; no operator, fault or reaper time-out is owed, except that a claim
  does grow old.
- `CommandWait`: threads and the event loop run, bounded waits end
  (`asyncio.wait_for`), the agent polls again (`fetch_next_job` is called in an
  endless loop).
- `TunnelLease`: time passes, due timers fire, polls are answered.  `TunnelRelay`:
  the same for every link; a crashed owner is started again by its supervisor; the
  edge's thread runs.  No operator and no fault is owed.
- `BacnetPort` adds strong fairness of `GiveUp`: a wait that is interrupted by
  attempts to create the file ends at its deadline all the same; commands end
  because they have time-outs, and the trend thread comes back every 30 seconds
  (`main.py` 187-210); no command of an operator is owed.
- `EdgeTrends`: time passes, samplers run, the maintenance loop comes back; strong
  fairness of the probe and of each batch says that the port is not busy every time
  one and the same batch is tried, without which no trend can be promised.
  `MaxCycle` bounds a cycle since every BACnet command has a time-out.
- `UpgradeJobs`: threads run.  That is more than the code has in one place: in direct
  mode `recv_exit_status` (`legacy_edge_upgrade_webapp.py` 972) waits without a time-out
  for a command that stays silent, and only the end of the SSH connection ends it;
  `JobEnds` assumes that each command does end.
- `GatewayUpdates`: gateways send heartbeats and late ones arrive; workers and
  claims go on; background reports are sent.
- `Sessions`: requests are answered, the page's timer fires, refusals are acted
  upon; time passes (strong, since a tick waits for requests of this tick).
- `Dashboard` and `WorkspacePages`: requests are answered or fail, refreshes are
  repeated by the timer, the poll of a discovery gives up at its deadline.  Clicks
  are not owed.

`WriteBatch`, `BacnetReads`, `Inventory`, `EquipmentRoles`, `OfflineAlerts`,
`DuplicateIdentity` and `Access` are checked for safety and action properties only.

## 4. Disagreements between code and documents

One is a registered finding with a run that TLC must find violated:
`write_batch_twice`, two approvals that overlap send the values twice although
`docs/cloud-platform-failure-recovery.md:54` calls the flow protected.

Others have a configuration that reproduces them with `tlc -config`, outside the
runs: `MCEdgeJobsRequeue.cfg` (the requeue of stale claims overwrites a result that
has just landed; read jobs only), `MCTunnelLeaseClose.cfg` (an admitted handshake
registers after a close), `MCBacnetPortOne.cfg` (a lock file taken over from a
living holder lets two commands run at once), `MCUpgradeJobsHandoff.cfg` (a job for
the interface only writes a new write token and does not restart the agent,
`legacy_edge_upgrade_webapp.py` 1209).

The rest are definitions beside the properties (named here where they exist) that
do not hold, or remarks from reading; none is an error of a run.

*Jobs and writes.* `StatusFollowsCommands` excepts a status stored by a transaction
that read before another committed: two result transactions of one batch that overlap
each see the other's commands as claimed and may leave the batch `claimed` for good.
The edge posts a result once (`jobs.py` 209-216), so a write whose report is lost stays
claimed, and its batch with it.

*Tunnel without relay.* The edge does not know the frame `lease_ended`
(`StopsWhenLeaseEnds`).

*Relay.* While a tunnel is connected a `jobs/next` answer carries no lease
(`main.py` 364-368), so the edge leaves its tunnel and dials again
(`ConnectedStays`); if the poll is quick this repeats.  A renewal is not told to
the owner, so a tunnel ends at the expiry of its handshake (`ExtendedStays`).  The
expiry task of a replaced connection closes the present one.  A handshake admitted
before a close registers after it; a close that does not reach the owner takes
effect when the lease ends.  The cloud gives up after 15 s on a request that may
take 900 s, so the operator reads 503 while the edge goes on.

*Rewriting.* `Location` and attributes lose fragments and make relative addresses
start at the root, and `Location` is moved into the session even if it is there
already.  `OfTheSite` names the addresses for which `LinksStay` is claimed.

*BACnet.* A lock file looks stale until its pid is written, so two commands may run
at once (`OneCommandAtATime`); a single read is prepared before it has the port, so
its route may be old.  A list of objects of which a block failed is reported as
`ok` (`LoadIsWhole`).  The route in the diagnostics is looked up once, each command
looks it up anew.  An object that is listed twice gets its name once.

*Trends.* A group whose first batch finds the port busy is not retried in the next
cycle but after an interval.  The legacy upload, switched off in this release,
would retry a batch for ever that the cloud refuses for good.

*Inventory.* The address of a point is a copy of its device's instance that not
every handler renews (`AddressIsTheDevices`, ERD.md:331 and 344).  A bulk read is
applied by point id, so its value may belong to the address before; a write's
read-back is compared first.

*Updaters.* A checkpoint folder is named after the release and overwritten by a
second run (`release-governance.md:62`); the status `waiting` between phases lets
"Continue" start a second thread; the final phase of the older updater completes a job
whose checks have failed (`legacy_edge_upgrade_webapp.py` 1825), and that of either
passes beside an agent that still runs old code if the job did not restart it; phase 8
of the configuration drops `EDGE_AGENT_WRITE_TOKEN`.

*Fleet.* Webhooks are sent before the commit (`main.py` 4411-4535), so
evaluations that overlap lose a transition (`LastWordIsAlwaysTrue`), the cap on
deliveries may suppress a recovery, and a backlog is called cleared when the
gateway stopped reporting it (`ClearedIsClear`).  The health gate compares the
gateway's clock (`CompletedIsBackByClock`).  `ui_version` is a constant of the
configuration, so the next heartbeat reverts the marker of a completed update
(`UiMarkerCatchesUp`, `docs/api-contract.md:141`).  The comparison of identities
goes by the gateway's clock although the time of receipt is stored; a machine that
was renamed and moved warns of itself for a window, clones that differ only in what
was not detected pass as one, and a machine that sends 200 heartbeats between two of
another hides it.

*Access and sessions.* An invitation of a blocked account takes back an approval
given meanwhile (`EveryApprovalStands`).  An account that waits for approval is not
always told (`WaitingIsTold`).  An idle tab signs out the one that is in use
(`ActiveAnywhereStays`).  The role of a membership is never consulted.

*Pages.* A selection made during a refresh is reverted; an older list of updates
may overwrite a newer; queueing updates clears boxes ticked meanwhile; a box of a
gateway that left the list makes the whole request fail; a gateway's weather and
heartbeats are not renewed while the page is open, and two first requests for the
weather of a site insert it twice.  "Close Tunnel" stays disabled after a successful
close; a workspace loaded while the tunnel opens stays busy; reloading the console
while it asks for a session leaves an empty window; a discovery hidden by fifty
newer jobs times out.

## 5. The proofs

The assumptions are the named ASSUMEs on constants: the types of the parameters, values
that stand for "none" and are no records (`NoRequestAssumption`, `NoJobAssumption`),
and for `GatewayUpdates` a version before the ones that are handed out.  The theorems on
`WriteBatch` have a hypothesis of their own, see there; nothing else is assumed.

*EdgeJobs.*  `WriteInv` is the inductive strengthening for writes.  It counts
the tokens that can still make a write happen or be reported: the queued row, the
answer that carries it, the agent that holds it, the report under way.  At
most one exists, and it agrees with what the cloud and the gateway have stored.
"Executed at most once" alone is not inductive: a second token in an answer
would be a state from which it breaks.  `HandsInv` ties requests to the claims
they carry.  From these follow `WriteRunsAtMostOnce`, `WriteReportIsTrue`,
`WriteNeverRequeued`, `ReportedWasRun`, and the refinement of `WriteOnce` step
by step.

*CommandWait.*  `Shape` says that the registered waiters are exactly the
requests that wait.  The key is `JobSeen`: a request reads the generation before
it looks at the database, so a row it did not find and whose notification it has
not counted is still to be notified.  `NoLostWakeup` follows for any number of
writers and requests.

*TunnelLease.*  `LeaseInv` says that until the instant the operator was shown
last the lease, its task and the promise are one and the same instant; so an
expiry task that is due never belongs to a valid lease, and `LeaseHasTask` and
`RenewedTunnelStays` follow.

*TunnelRelay.*  `PendingIsServed` is inductive with its types.  Every step leaves
registry and requests alone and at most sends an operator away (`Kept`), changes the
registry and fails all requests with their operators (`Cleared`), or adds one to the
registered tunnel or ends one (`Grown`); one lemma per kind of step.

*TunnelRewrite.*  What is below the session is not a local route, so no rewriting
sees its own result as something to rewrite: `RewritingIsIdempotent`.
`LinksStayTheorem` follows each of the ways an address can take, for every session
path, set of routes and address; it is `LinksStay` of the module, of which the run's
`LinksStayInTunnel` is the bounded instance.

*BacnetPort.*  `OwnInv` says that whoever has acquired a lock that was not taken
is the creator of the file in place.  There is one file, so there is one such
thread: `ExclusiveUnlessTaken` and `ReleaseTakesOwn` follow for any number of
threads, processes and crashes.

*EdgeTrends.*  `TrendInv` relates the open transaction to the position of its
writer.  `AtInv` and `TxInv`: a group that is being sampled has exactly the batches
before the present one in its run, and only the writer has runs open.
`ChargeInv`: what was read in a cycle is what was charged plus what the
present group has attempted, so `BudgetHeld` follows from `attempted <= left`.
`DueInv`: while no other cycle has overlapped, a group that is still to come or that
is in the transaction was due when the cycle began, and has aged with it.
`RunsAddUp` is not inductive without these, since a commit would turn any wrong
transaction into wrong runs.  `OverlapInv` says that cycles that are open
together all know of each other.

*BacnetReads.*  `ReadsInv` says, for each stage, where the batches, blocks, indices
and names of the job stand against the list that was asked for: what is already
reported is the beginning of that list, or the points of the indices read so far, and
without a failure all of them.  `NeverBlind` and `ReportsAreTrue` follow for lists,
batches, blocks and limits of any size.  The filter and the union of lists recur over
data, which the library's induction theorems do not reach here; `Counting` is
induction by the least counterexample of a well-founded order, `StepByStep` gets from
it the list that such a function computes, and `OnlyKeeps` and `AddedAdds` say what it
contains.

*Inventory.*  `InventoryInv` adds to the properties what makes them inductive.
`StopsWillBeOff`: a point that a retirement under way retires, and that nobody has
switched on since its look, is not trended now or will be off by what is to be written.
`CopiesWhatItRead`: what a request will write leaves the points that it inserts or names
with the instance of their device, as long as nobody else wrote an address of the device
since its look.  `RetiredStaysStopped` and
`AddressIsCopied` follow for any number of requests that overlap in any way without a
lock.

*EquipmentRoles.*  `RolesInv`: the transaction of a handler that nobody has overtaken
leaves roles that fit the template it leaves (`OpenFits`), and the mappings to import
fit theirs.  `RolesFitUnlessOverlapped` follows for any templates, groups, mapping
templates, points and handlers.  `CategoryInv` adds the category (`TemplateSuits`).
The run has one
category, since a second one makes it too long; `TemplateSuits` is the result on
categories.

*WriteBatch.*  `BatchInv` ties three things together: what a job has reached shows
in the commands that name it (`CommandsFollowJobs`), an open transaction writes
the commands of its own job only, and it settles the batch only if all others are
finished (`LastTxnSettles`).  `SettledBatchIsRight`, `StatusFollowsCommands` (a
transaction that nothing overtook has read what is there) and `AuditIsTrue` follow for any
number of commands and devices and any overlap of claims and results.  The theorems
assume `~ApprovalsOverlap`: where approvals overlap the values are sent twice, as the
run `write_batch_twice` shows; `ValuesSentOnce` proves that they are not where
approvals do not.

*GatewayUpdates.*  `UpdatesInv` joins who claimed and completed what (`ClaimsInv`),
the queue a worker has read (`ListsKnown`), the failures in a row (`HaltInv`, for
`BadReleaseIsHeld`), how old a heartbeat is (`FreshInv`, for `CompletedIsBack`) and,
while no two posts and no two claims overlapped, that there is one post, one open
request, one claim and one worker for each gateway (`TurnInv`, for
`OneUpdateAtATime`).  The first version of `CompletedIsBack` kept its history for
each request; no invariant supported it, because of two workers that claim one
request the heartbeat after the first job looked like an answer to the second.
The history is one of workers and requests since.

*OfflineAlerts.*  `AlertsInv`: an evaluation that nobody has overtaken has read the
rows that are there (`ReadsAreCurrent`); and of every event the last word is what the
row says, or what the one evaluation that told of it will commit (`LastWordIsKnown`).
Comparing an evaluation's reading with the row at its commit is not enough: two others
may have changed the row and changed it back while this one told of the event.
The history `over` came from this failed proof.

*DuplicateIdentity.*  `IdentityInv` says that a stored heartbeat keeps saying what
was true of its sender.  That machines with different ids or hardware addresses are
told apart, however many heartbeats there are, is a fact on cardinality
(`DifferIsTwo`): a set has more than one element when two of them differ.

*UpgradeJobs.*  A job with the gateway to itself has one thread at most (`AloneInv`);
it has passed exactly the selected phases below the one it is at (`ProgressInv`, where
the next phase is the least one left, by well-foundedness); and what the passed phases
left is still on the gateway (`GatewayInv`), no more than the phases check.
`CompleteIsTrue` is the case of a job that says complete, for any number of jobs,
threads, releases and failures and each selection in `RealRun`: in those the agent is
restarted (phase 10) only after the release is checked out (phase 7).  With phase 10 and
without phase 7 the older updater would complete a job whose release is nowhere.

*Access.*  Memberships and organizations are never removed, so an operator who has
a scope keeps one (`ScopeStays`) and every grant stays (`GrantsStay`).  A site that
comes into view was therefore not one of those shown to everybody without a scope:
`VisibilityNeedsGrant`, for both settings of the fallback.  `AccountsStay` is what
an invitation under way needs for the types.  `ApprovalStands` rests on
`InvitedChangesNothing`: an UPDATE that assigns what it has read names no column.

*Sessions.*  `SessionInv` says why the cloud's record, which may miss the last
activities of a gap, is never too old for a page in use: from a page with no record
under way the record is no older than the page's own, and once the next is due, less
than a gap older than the last use (`Covered`).  A page that was used within the limit
less the gap is therefore never refused (`InTime`), and its own timer is not due:
`ActiveStays`, for any number of tabs and any limits.

Every safety invariant and every action property that a run checks is stated by a
theorem.  Only model-checked: liveness, which depends on fairness and ENABLED and is
out of the prover's reach (`JobsHandedOut`, `JobEnds`, `TunnelEnds`,
`TunnelEndsWithLease`, `ActiveReachesEdge`, `PortStaysUsable`, `ReadsFinish`,
`KeepsReading`, `UpdateEnds`, `MarkersCatchUp`,
`IdlePageIsLeft`, `DashboardCatchesUp`, `ClicksEnd`);
and `Dashboard` and `WorkspacePages`, whose properties are all of this kind.

## 6. Not modelled, and what could come next

Left out, with the reason:

- upload of trend samples, outbox and quarantine (`trends.py` 88-218, 563-787): the
  constant that gates them is off in this release, so no run of the program takes
  these steps;
- discovery and the write command on the gateway, whose use of the port is in
  `BacnetPort`; text parsing of BACnet output; the building of commands;
- authentication: decoding of tokens and cookies, the tunnel's authentication gate
  and global switch, expiry of credentials, the link to the Supabase user;
- display settings, the reading of saved points and the read-back value of a write;
- pages: layout and styles, sign-up and password pages, the points, configuration
  and administration pages; the workbench of saved points in the workspace, which no
  page reaches (`currentGatewayTree` is set only by a function that is called with
  it);
- comparison of release versions for display, formatting, metrics and health pages;
- schema migrations, release and load scripts: sequential, run once.

What could come next: the upload path when a release turns it on; saved point values,
whose time of reading may be renewed without the value; a refinement that joins the
wake-up of `CommandWait` to the queue of `EdgeJobs`.
