---------------------------- MODULE CommandWait ----------------------------
(***************************************************************************)
(* The held jobs/next requests of one gateway (claim_next_job) and the     *)
(* in-process CommandWaitNotifier that wakes them.                         *)
(*                                                                         *)
(* A request alternates between a claim pass, which runs on a worker       *)
(* thread with a database session of its own, and a wait on the event loop *)
(* that holds neither.  Operators commit jobs (and, for relay gateways,    *)
(* tunnel requests) on other threads and notify afterwards; some endpoints *)
(* never notify.  EdgeJobs abstracts all of this into its action Wake;     *)
(* what a pass does with stale claims is modelled there.                   *)
(***************************************************************************)
EXTENDS Naturals, FiniteSets

CONSTANTS
  QueuedJobs, \* jobs that are queued in a behaviour
  Tunnel,     \* the operator's request for a tunnel, a writer like the jobs
  Requests,   \* jobs/next requests
  NoRow,      \* no row is locked
  Canary,     \* the gateway is selected for the tunnel relay
  MaxAborts   \* how many claim transactions may fail

Writers == QueuedJobs \cup {Tunnel}

ASSUME CommandWaitAssumption ==
  /\ Tunnel \notin QueuedJobs
  /\ NoRow \notin QueuedJobs
  /\ Canary \in BOOLEAN
  /\ MaxAborts \in Nat

VARIABLES
  written,     \* the writers whose row is committed and still open: a queued
               \* job, a requested tunnel that is not connected
  writerPc,    \* where each writer is
  signals,     \* the waiters a notification still has to signal
  generation,  \* CommandWaitNotifier._generations of the gateway
  waiters,     \* the requests registered in CommandWaitNotifier._waiters
  event,       \* those whose event is set
  pc,          \* where each request is
  seen,        \* the generation it read last
  locked,      \* the row its claim transaction has locked
  told,        \* those whose answer will carry X-IOT-Tunnel-Requested
  late,        \* its deadline has passed
  first,       \* it is in its first pass
  answers,     \* the writers that have reached the gateway
  aborts       \* failed claim transactions

writerVars == <<writerPc, signals>>
pollVars == <<pc, seen, locked, told, late, first>>
waitVars == <<written, writerVars, generation, waiters, event, pollVars,
              answers, aborts>>

RequestPcs ==
  {"off", "headers", "select", "commit", "loop", "waiting", "leaving"}

WaitTypeOK ==
  /\ written    \subseteq Writers
  /\ writerPc   \in [Writers -> {"idle", "committed", "signalling", "done",
                              "silent"}]
  /\ signals    \in [Writers -> SUBSET Requests]
  /\ generation \in Nat
  /\ waiters    \subseteq Requests
  /\ event      \subseteq waiters
  /\ pc         \in [Requests -> RequestPcs]
  /\ seen       \in [Requests -> 0..generation]
  /\ locked     \in [Requests -> QueuedJobs \cup {NoRow}]
  /\ told       \subseteq Requests
  /\ late       \in [Requests -> BOOLEAN]
  /\ first      \in [Requests -> BOOLEAN]
  /\ answers    \subseteq Writers
  /\ aborts     \in 0..MaxAborts

WaitInit ==
  /\ written    = {}
  /\ writerPc   = [w \in Writers |-> "idle"]
  /\ signals    = [w \in Writers |-> {}]
  /\ generation = 0
  /\ waiters    = {}
  /\ event      = {}
  /\ pc         = [h \in Requests |-> "off"]
  /\ seen       = [h \in Requests |-> 0]
  /\ locked     = [h \in Requests |-> NoRow]
  /\ told       = {}
  /\ late       = [h \in Requests |-> FALSE]
  /\ first      = [h \in Requests |-> FALSE]
  /\ answers    = {}
  /\ aborts     = 0

-----------------------------------------------------------------------------
(* The writers: commit first, notify afterwards.                           *)

(* Some endpoints that queue jobs notify, some never do; opening a tunnel   *)
(* notifies for relay gateways only.                                       *)
AfterCommit(w) ==
  IF w \in QueuedJobs THEN {"committed", "silent"}
                ELSE IF Canary THEN {"committed"} ELSE {"silent"}

CommitRow(w) ==
  /\ writerPc[w] = "idle"
  /\ written' = written \cup {w}
  /\ \E pc1 \in AfterCommit(w) : writerPc' = [writerPc EXCEPT ![w] = pc1]
  /\ UNCHANGED <<signals, generation, waiters, event, pollVars, answers,
                 aborts>>

(* CommandWaitNotifier.notify: under the lock the generation is raised and *)
(* the waiters are copied; they are signalled after the lock is released.  *)
NotifyWaitersOnly(w) ==
  /\ writerPc[w] = "committed"
  /\ signals' = [signals EXCEPT ![w] = waiters]
  /\ writerPc' = [writerPc EXCEPT ![w] = "signalling"]
  /\ UNCHANGED <<written, generation, waiters, event, pollVars, answers,
                 aborts>>

Notify(w) ==
  /\ writerPc[w] = "committed"
  /\ generation' = generation + 1
  /\ signals' = [signals EXCEPT ![w] = waiters]
  /\ writerPc' = [writerPc EXCEPT ![w] = "signalling"]
  /\ UNCHANGED <<written, waiters, event, pollVars, answers, aborts>>

Signal(w, h) ==
  /\ h \in signals[w]
  /\ event' = event \cup {h}
  /\ signals' = [signals EXCEPT ![w] = @ \ {h}]
  /\ UNCHANGED <<written, writerPc, generation, waiters, pollVars, answers,
                 aborts>>

NotifyReturns(w) ==
  /\ writerPc[w] = "signalling" /\ signals[w] = {}
  /\ writerPc' = [writerPc EXCEPT ![w] = "done"]
  /\ UNCHANGED <<written, signals, generation, waiters, event, pollVars,
                 answers, aborts>>

-----------------------------------------------------------------------------
(* The held request.                                                       *)

(* The generation is read before the pass that looks at the database.      *)
StartPass(h, isFirst) ==
  /\ seen' = [seen EXCEPT ![h] = generation]
  /\ first' = [first EXCEPT ![h] = isFirst]
  /\ pc' = [pc EXCEPT ![h] = "headers"]

SendHeldPoll(h) ==
  /\ pc[h] = "off"
  /\ StartPass(h, TRUE)
  /\ late' = [late EXCEPT ![h] = FALSE]
  /\ UNCHANGED <<written, writerVars, generation, waiters, event, locked,
                 told, answers, aborts>>

(* A pass first sets the tunnel headers anew ...                           *)
SetTunnelHeaders(h) ==
  /\ pc[h] = "headers"
  /\ told' = IF Tunnel \in written THEN told \cup {h} ELSE told \ {h}
  /\ pc' = [pc EXCEPT ![h] = "select"]
  /\ UNCHANGED <<written, writerVars, generation, waiters, event, seen,
                 locked, late, first, answers, aborts>>

(* ... then selects a queued row that nobody has locked ...                *)
Claimable == {j \in QueuedJobs \cap written : \A h \in Requests : locked[h] # j}

LockJob(h, j) ==
  /\ pc[h] = "select"
  /\ j \in Claimable
  /\ locked' = [locked EXCEPT ![h] = j]
  /\ pc' = [pc EXCEPT ![h] = "commit"]
  /\ UNCHANGED <<written, writerVars, generation, waiters, event, seen, told,
                 late, answers, aborts, first>>

(* A request that has ended keeps nothing.                                 *)
EndRequest(h) ==
  /\ pc' = [pc EXCEPT ![h] = "off"]
  /\ seen' = [seen EXCEPT ![h] = 0]
  /\ told' = told \ {h}
  /\ late' = [late EXCEPT ![h] = FALSE]
  /\ first' = [first EXCEPT ![h] = FALSE]

(* The answer takes along what it says of the tunnel.                      *)
Answer(h, jobs) ==
  /\ answers' = answers \cup jobs \cup (IF h \in told THEN {Tunnel} ELSE {})
  /\ EndRequest(h)

CommitClaim(h) ==
  /\ pc[h] = "commit"
  /\ written' = written \ {locked[h]}
  /\ locked' = [locked EXCEPT ![h] = NoRow]
  /\ Answer(h, {locked[h]})
  /\ UNCHANGED <<writerVars, generation, waiters, event, aborts>>

(* The transaction fails: it is rolled back and the request ends with 500. *)
AbortClaim(h) ==
  /\ pc[h] = "commit"
  /\ aborts < MaxAborts
  /\ aborts' = aborts + 1
  /\ locked' = [locked EXCEPT ![h] = NoRow]
  /\ EndRequest(h)
  /\ UNCHANGED <<written, writerVars, generation, waiters, event, answers>>

(* ... or finds nothing.  After the first pass the request waits; after a  *)
(* later one a relay gateway is told of a tunnel at once, and a request    *)
(* past its deadline answers null.                                         *)
EndsAtDeadline(h) == ~first[h] /\ late[h]

Ends(h) == ~first[h] /\ (late[h] \/ (Canary /\ h \in told))

FindNothing(h) ==
  /\ pc[h] = "select"
  /\ Claimable = {}
  /\ IF Ends(h) THEN Answer(h, {})
                ELSE /\ pc' = [pc EXCEPT ![h] = "loop"]
                     /\ UNCHANGED <<answers, seen, told, late, first>>
  /\ UNCHANGED <<written, writerVars, generation, waiters, event, locked,
                 aborts>>

(* wait_after: under the lock the generation is compared and the waiter    *)
(* registered.                                                             *)
Register(h) ==
  /\ waiters' = waiters \cup {h}
  /\ pc' = [pc EXCEPT ![h] = "waiting"]

WaitUnchecked(h) ==
  /\ pc[h] = "loop"
  /\ Register(h)
  /\ UNCHANGED <<written, writerVars, generation, event, seen, locked, told,
                 late, answers, aborts, first>>

WaitAfter(h) ==
  /\ pc[h] = "loop"
  /\ IF generation # seen[h]
       THEN pc' = [pc EXCEPT ![h] = "leaving"] /\ UNCHANGED waiters
       ELSE Register(h)
  /\ UNCHANGED <<written, writerVars, generation, event, seen, locked, told,
                 late, answers, aborts, first>>

(* The wait ends and the waiter is removed; a signal still on its way to   *)
(* it sets an event nobody looks at.                                       *)
DeregisterLeavingSignals(h) ==
  /\ waiters' = waiters \ {h}
  /\ event' = event \ {h}
  /\ pc' = [pc EXCEPT ![h] = "leaving"]
  /\ UNCHANGED signals

Deregister(h) ==
  /\ waiters' = waiters \ {h}
  /\ event' = event \ {h}
  /\ signals' = [w \in Writers |-> signals[w] \ {h}]
  /\ pc' = [pc EXCEPT ![h] = "leaving"]

Woken(h) ==
  /\ pc[h] = "waiting" /\ h \in event
  /\ Deregister(h)
  /\ UNCHANGED <<written, writerPc, generation, seen, locked, told, late,
                 answers, aborts, first>>

(* The bounded wait ends by time: after ten seconds for a relay gateway,   *)
(* at the deadline for the others.                                         *)
TimeOutIntoWait(h) ==
  /\ pc[h] = "waiting"
  /\ waiters' = waiters \ {h}
  /\ event' = event \ {h}
  /\ signals' = [w \in Writers |-> signals[w] \ {h}]
  /\ pc' = [pc EXCEPT ![h] = "loop"]
  /\ UNCHANGED <<written, writerPc, generation, seen, locked, told, late,
                 answers, aborts, first>>

TimeOut(h) ==
  /\ pc[h] = "waiting"
  /\ late' = [late EXCEPT ![h] = late[h] \/ ~Canary]
  /\ Deregister(h)
  /\ UNCHANGED <<written, writerPc, generation, seen, locked, told, answers,
                 aborts, first>>

(* The generation is read again before the next pass; the deadline may     *)
(* pass meanwhile.                                                         *)
NextPass(h) ==
  /\ pc[h] = "leaving"
  /\ StartPass(h, FALSE)
  /\ \E passes \in BOOLEAN :
        late' = [late EXCEPT ![h] = late[h] \/ passes]
  /\ UNCHANGED <<written, writerVars, generation, waiters, event, locked,
                 told, answers, aborts>>

(* The gateway connects the tunnel it was told of.                         *)
ConnectTunnel ==
  /\ Tunnel \in written \cap answers
  /\ written' = written \ {Tunnel}
  /\ UNCHANGED <<writerVars, generation, waiters, event, pollVars, answers,
                 aborts>>

-----------------------------------------------------------------------------
Notification(w) ==
  Notify(w) \/ NotifyReturns(w) \/ \E h \in Requests : Signal(w, h)

Pass(h) ==
  \/ SetTunnelHeaders(h)
  \/ \E j \in QueuedJobs : LockJob(h, j)
  \/ CommitClaim(h)
  \/ FindNothing(h)

Wait(h) == WaitAfter(h) \/ Woken(h) \/ TimeOut(h) \/ NextPass(h)

WaitNext ==
  \/ \E w \in Writers : CommitRow(w) \/ Notification(w)
  \/ \E h \in Requests : SendHeldPoll(h) \/ Pass(h) \/ AbortClaim(h) \/ Wait(h)
  \/ ConnectTunnel

WaitSpec == WaitInit /\ [][WaitNext]_waitVars

(* Threads and the event loop run, time passes, and the agent polls again  *)
(* whenever its request has ended.                                         *)
WaitFairness ==
  /\ \A w \in Writers : WF_waitVars(Notification(w))
  /\ \A h \in Requests :
       /\ WF_waitVars(Pass(h)) /\ WF_waitVars(Wait(h))
       /\ WF_waitVars(SendHeldPoll(h))

FairWaitSpec == WaitSpec /\ WaitFairness

-----------------------------------------------------------------------------
(* "A notification that races with waiter registration causes an immediate *)
(* durable recheck instead of a miss": no request sleeps beside a job that *)
(* it could claim, or (for a relay gateway) a tunnel it has not read of,   *)
(* once the notification has come and gone.  A claim that is rolled back   *)
(* under another request's SKIP LOCKED is the one exception (aborts).      *)
Notifies(w) == writerPc[w] # "silent"
Pending(w, h) == writerPc[w] = "committed" \/ h \in signals[w] \cup event

NoLostWakeup ==
  aborts = 0 =>
    \A h \in waiters, w \in Writers : Notifies(w) =>
       /\ w \in Claimable => Pending(w, h)
       /\ w = Tunnel /\ w \in written /\ h \notin told => Pending(w, h)

(* Every queued job is handed out, also when its writer never notifies or  *)
(* a claim fails ("a missed notification remains safe"): the bounded waits *)
(* see to that.                                                            *)
JobsHandedOut == \A j \in QueuedJobs : j \in written ~> j \in answers

(* A tunnel request reaches the gateway even when no job ever comes up.    *)
TunnelIsTold == Tunnel \in written ~> Tunnel \in answers
=============================================================================
