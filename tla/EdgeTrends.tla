----------------------------- MODULE EdgeTrends -----------------------------
(***************************************************************************)
(* sample_local_edge_trends: one cycle reads the due trend groups of a     *)
(* gateway over BACnet and stores samples and run rows in one SQLite       *)
(* transaction.  The maintenance loop of the agent runs cycles for ever;   *)
(* an agent started by hand with --once runs one beside it.                *)
(*                                                                         *)
(* A group is known by its id and the sizes of its batches, in the order   *)
(* in which they are read.  The port may be busy whenever it is asked.     *)
(* Uploads are switched off in the code (TREND_CLOUD_UPLOAD_ENABLED).      *)
(***************************************************************************)
EXTENDS Naturals, Sequences, FiniteSetsExt

CONSTANTS
  Groups,      \* ids of the enabled trend groups
  Sizes,       \* the sizes of the batches of each group
  Interval,    \* interval_sec of each group
  Budget,      \* trend_max_points_per_cycle
  Samplers, Loops,   \* the processes; those that run cycles for ever
  Nobody,      \* nobody holds the write lock of the database
  MaxCycle,    \* how long a cycle takes at most
  MaxFaults,   \* how many groups and cycles may fail
  MaxByHand    \* how many cycles are started by hand

ASSUME EdgeTrendsAssumption ==
  /\ Groups \subseteq Nat
  /\ Sizes \in [Groups -> Seq(Nat \ {0})]
  /\ Interval \in [Groups -> Nat \ {0}]
  /\ Budget \in Nat \ {0}
  /\ Loops \subseteq Samplers
  /\ Nobody \notin Samplers
  /\ MaxCycle \in Nat /\ MaxFaults \in Nat /\ MaxByHand \in Nat

VARIABLES
  age,         \* time since MAX(started_at) of each group, as committed
  run,         \* the run of each group that was committed last
  tx,          \* the runs in the open transaction
  writer,      \* who has it open
  pc,          \* where each sampler is
  todo,        \* due groups it has still to sample
  left,        \* remaining_budget
  cur, at,     \* the group and the batch it is at
  attempted,   \* points read of that group
  since,       \* time since its cycle began
  total,       \* points read in its cycle (history)
  failed,      \* a group of its cycle has failed (history)
  overlapped,  \* its cycle has overlapped another one (history)
  faults, byHand

dbVars == <<age, run, tx, writer>>
loopVars == <<pc, todo, left, cur, at, attempted>>
history == <<total, failed, overlapped>>
vars == <<dbVars, loopVars, since, history, faults, byHand>>

Batches(g) == 1..Len(Sizes[g])
NoRun == [read |-> {}, deferred |-> {}, ended |-> "none"]
NewRun == [read |-> {}, deferred |-> {}, ended |-> "open"]
Runs == [read : SUBSET Nat, deferred : SUBSET Nat,
         ended : {"none", "open", "complete", "failed"}]
MaxAge(g) == Interval[g] + MaxCycle

DbTypes ==
  /\ age \in [Groups -> Nat] /\ \A g \in Groups : age[g] <= MaxAge(g)
  /\ run \in [Groups -> Runs] /\ tx \in [Groups -> Runs]
  /\ writer \in Samplers \cup {Nobody}

LoopTypes ==
  /\ pc \in [Samplers -> {"idle", "groups", "insert", "batch"}]
  /\ todo \in [Samplers -> SUBSET Groups]
  /\ left \in [Samplers -> 0..Budget]
  /\ cur \in [Samplers -> Groups \cup {0}]
  /\ at \in [Samplers -> Nat \ {0}]
  /\ attempted \in [Samplers -> 0..Budget]

CycleTypes ==
  /\ since \in [Samplers -> 0..MaxCycle]
  /\ total \in [Samplers -> Nat]
  /\ failed \in [Samplers -> BOOLEAN] /\ overlapped \in [Samplers -> BOOLEAN]
  /\ faults \in 0..MaxFaults /\ byHand \in 0..MaxByHand

TypeOK == DbTypes /\ LoopTypes /\ CycleTypes

Init ==
  /\ age = [g \in Groups |-> MaxAge(g)]
  /\ run = [g \in Groups |-> NoRun] /\ tx = [g \in Groups |-> NoRun]
  /\ writer = Nobody
  /\ pc = [s \in Samplers |-> "idle"]
  /\ todo = [s \in Samplers |-> {}]
  /\ left = [s \in Samplers |-> Budget]
  /\ cur = [s \in Samplers |-> 0] /\ at = [s \in Samplers |-> 1]
  /\ attempted = [s \in Samplers |-> 0]
  /\ since = [s \in Samplers |-> 0]
  /\ total = [s \in Samplers |-> 0]
  /\ failed = [s \in Samplers |-> FALSE]
  /\ overlapped = [s \in Samplers |-> FALSE]
  /\ faults = 0 /\ byHand = 0

Lesser(m, n) == IF m < n THEN m ELSE n

-----------------------------------------------------------------------------
(* Time passes for everybody; a cycle takes MaxCycle at most.              *)
Tick ==
  /\ \A s \in Samplers : pc[s] # "idle" => since[s] < MaxCycle
  /\ age' = [g \in Groups |-> Lesser(age[g] + 1, MaxAge(g))]
  /\ since' = [s \in Samplers |->
                 IF pc[s] = "idle" THEN since[s] ELSE since[s] + 1]
  /\ UNCHANGED <<run, tx, writer, loopVars, history, faults, byHand>>

-----------------------------------------------------------------------------
(* sample_local_edge_trends.                                               *)
DueEarly(g) == age[g] + 1 >= Interval[g]

Due(g) == age[g] >= Interval[g]

(* The enabled groups are loaded, and which of them are due follows from   *)
(* what is committed at that moment.                                       *)
StartCycle(s) ==
  LET others == {r \in Samplers \ {s} : pc[r] # "idle"} IN
  /\ pc[s] = "idle"
  /\ IF s \in Loops THEN UNCHANGED byHand
     ELSE byHand < MaxByHand /\ byHand' = byHand + 1
  /\ pc' = [pc EXCEPT ![s] = "groups"]
  /\ todo' = [todo EXCEPT ![s] = {g \in Groups : Due(g)}]
  /\ overlapped' = [r \in Samplers |->
                      IF r = s THEN others # {}
                      ELSE overlapped[r] \/ r \in others]
  /\ UNCHANGED <<dbVars, left, cur, at, attempted, since, total,
                 failed, faults>>

(* The group with the lowest id comes next.                                *)
IsNext(s, g) ==
  /\ pc[s] = "groups"
  /\ g \in todo[s] /\ \A h \in todo[s] : g <= h

LeaveGroup(s) ==
  /\ pc' = [pc EXCEPT ![s] = "groups"]
  /\ cur' = [cur EXCEPT ![s] = 0] /\ at' = [at EXCEPT ![s] = 1]
  /\ attempted' = [attempted EXCEPT ![s] = 0]

(* The cycle is over, and its local variables with it.                     *)
LeaveCycle(s) ==
  /\ pc' = [pc EXCEPT ![s] = "idle"]
  /\ todo' = [todo EXCEPT ![s] = {}]
  /\ left' = [left EXCEPT ![s] = Budget]
  /\ cur' = [cur EXCEPT ![s] = 0] /\ at' = [at EXCEPT ![s] = 1]
  /\ attempted' = [attempted EXCEPT ![s] = 0]
  /\ since' = [since EXCEPT ![s] = 0]
  /\ total' = [total EXCEPT ![s] = 0]
  /\ failed' = [failed EXCEPT ![s] = FALSE]
  /\ overlapped' = [overlapped EXCEPT ![s] = FALSE]

DropGroup(s, g) == todo' = [todo EXCEPT ![s] = @ \ {g}]

(* Nothing is left of the budget, or the port is in use: no run row.       *)
SkipGroup(s, g) ==
  /\ IsNext(s, g)
  /\ DropGroup(s, g)
  /\ UNCHANGED <<dbVars, pc, left, cur, at, attempted, since,
                 history, faults, byHand>>

(* The port is free: the group is to be sampled.                           *)
ProbeFree(s, g) ==
  /\ IsNext(s, g) /\ left[s] > 0
  /\ DropGroup(s, g)
  /\ pc' = [pc EXCEPT ![s] = "insert"]
  /\ cur' = [cur EXCEPT ![s] = g]
  /\ UNCHANGED <<dbVars, left, at, attempted, since, history, faults,
                 byHand>>

-----------------------------------------------------------------------------
(* _sample_local_group.                                                    *)

(* The first INSERT opens the transaction, which keeps others from writing.*)
InsertRun(s) ==
  /\ pc[s] = "insert" /\ writer \in {s, Nobody}
  /\ writer' = s
  /\ tx' = [tx EXCEPT ![cur[s]] = NewRun]
  /\ pc' = [pc EXCEPT ![s] = "batch"]
  /\ at' = [at EXCEPT ![s] = 1]
  /\ attempted' = [attempted EXCEPT ![s] = 0]
  /\ UNCHANGED <<age, run, todo, left, cur, since, history, faults, byHand>>

(* Another writer keeps the database for longer than the ten seconds the   *)
(* connection waits: the group is logged as failed, with nothing to keep.  *)
LockedOut(s) ==
  /\ pc[s] = "insert" /\ writer \notin {s, Nobody}
  /\ LeaveGroup(s)
  /\ UNCHANGED <<dbVars, todo, left, since, history, faults, byHand>>

(* A batch is read and a sample stored for every point of it, whether the  *)
(* device answered or not.                                                 *)
ReadAnyway(s) ==
  LET g == cur[s]
      n == attempted[s] + Sizes[g][at[s]]
  IN  /\ pc[s] = "batch" /\ at[s] \in Batches(g)
      /\ tx' = [tx EXCEPT ![g].read = @ \cup {at[s]}]
      /\ attempted' = [attempted EXCEPT ![s] = n]
      /\ total' = [total EXCEPT ![s] = @ + Sizes[g][at[s]]]
      /\ at' = [at EXCEPT ![s] = @ + 1]
      /\ UNCHANGED <<age, run, writer, pc, todo, left, cur, since, failed,
                     overlapped, faults, byHand>>

ReadBelowBudget(s) ==
  LET g == cur[s]
      n == attempted[s] + Sizes[g][at[s]]
  IN  /\ pc[s] = "batch" /\ at[s] \in Batches(g)
      /\ n < left[s]
      /\ tx' = [tx EXCEPT ![g].read = @ \cup {at[s]}]
      /\ attempted' = [attempted EXCEPT ![s] = n]
      /\ total' = [total EXCEPT ![s] = @ + Sizes[g][at[s]]]
      /\ at' = [at EXCEPT ![s] = @ + 1]
      /\ UNCHANGED <<age, run, writer, pc, todo, left, cur, since, failed,
                     overlapped, faults, byHand>>

ReadBatch(s) ==
  LET g == cur[s]
      n == attempted[s] + Sizes[g][at[s]]
  IN  /\ pc[s] = "batch" /\ at[s] \in Batches(g)
      /\ n <= left[s]
      /\ tx' = [tx EXCEPT ![g].read = @ \cup {at[s]}]
      /\ attempted' = [attempted EXCEPT ![s] = n]
      /\ total' = [total EXCEPT ![s] = @ + Sizes[g][at[s]]]
      /\ at' = [at EXCEPT ![s] = @ + 1]
      /\ UNCHANGED <<age, run, writer, pc, todo, left, cur, since,
                     failed, overlapped, faults, byHand>>

(* The run row is completed and the budget charged.                        *)
CompleteUncharged(s, unread) ==
  /\ tx' = [tx EXCEPT ![cur[s]].deferred = unread,
                      ![cur[s]].ended = "complete"]
  /\ UNCHANGED left
  /\ LeaveGroup(s)
  /\ UNCHANGED <<age, run, writer, todo, since, history, faults, byHand>>

Complete(s, unread) ==
  /\ tx' = [tx EXCEPT ![cur[s]].deferred = unread,
                      ![cur[s]].ended = "complete"]
  /\ left' = [left EXCEPT ![s] = @ - attempted[s]]
  /\ LeaveGroup(s)
  /\ UNCHANGED <<age, run, writer, todo, since, history, faults, byHand>>

(* The next batch exceeds the budget or finds the port busy: it and all    *)
(* batches after it, of this device and the following ones, are deferred.  *)
YieldDeferringBatch(s) ==
  /\ pc[s] = "batch" /\ at[s] \in Batches(cur[s])
  /\ Complete(s, {at[s]})

Yield(s) ==
  /\ pc[s] = "batch" /\ at[s] \in Batches(cur[s])
  /\ Complete(s, {b \in Batches(cur[s]) : b >= at[s]})

Finish(s) ==
  /\ pc[s] = "batch" /\ at[s] \notin Batches(cur[s])
  /\ Complete(s, {})

-----------------------------------------------------------------------------
(* What the transaction of s holds takes effect.                           *)
CommitTx(s, kept) ==
  /\ writer' = IF writer = s THEN Nobody ELSE writer
  /\ IF writer = s
       THEN /\ run' = [g \in Groups |-> IF kept[g] = NoRun THEN run[g]
                                                           ELSE kept[g]]
            /\ age' = [g \in Groups |-> IF kept[g] = NoRun THEN age[g]
                                        ELSE Lesser(age[g], since[s])]
            /\ tx' = [g \in Groups |-> NoRun]
       ELSE UNCHANGED <<run, age, tx>>

(* The group raises: what was stored so far, of this group too, is         *)
(* committed, its points are not charged, and the next group follows.      *)
GroupFails(s) ==
  /\ pc[s] = "batch"
  /\ faults < MaxFaults /\ faults' = faults + 1
  /\ CommitTx(s, [tx EXCEPT ![cur[s]].ended = "failed"])
  /\ LeaveGroup(s)
  /\ failed' = [failed EXCEPT ![s] = TRUE]
  /\ UNCHANGED <<todo, left, since, total, overlapped, byHand>>

EndCycle(s) ==
  /\ pc[s] = "groups" /\ todo[s] = {}
  /\ CommitTx(s, tx)
  /\ LeaveCycle(s)
  /\ UNCHANGED <<faults, byHand>>

(* The process dies, or the commit itself fails: SQLite rolls back.        *)
Abandon(s) ==
  /\ pc[s] # "idle"
  /\ faults < MaxFaults /\ faults' = faults + 1
  /\ IF writer = s THEN writer' = Nobody /\ tx' = [g \in Groups |-> NoRun]
                   ELSE UNCHANGED <<writer, tx>>
  /\ LeaveCycle(s)
  /\ UNCHANGED <<age, run, byHand>>

-----------------------------------------------------------------------------
Step(s) ==
  \/ \E g \in Groups : SkipGroup(s, g) \/ ProbeFree(s, g)
  \/ InsertRun(s) \/ LockedOut(s)
  \/ ReadBatch(s) \/ Yield(s) \/ Finish(s)
  \/ EndCycle(s)

Next ==
  \/ Tick
  \/ \E s \in Samplers : StartCycle(s) \/ Step(s) \/ GroupFails(s)
                           \/ Abandon(s)

Spec == Init /\ [][Next]_vars

(* Time passes, samplers run, the loop comes back every thirty seconds,    *)
(* and the port is not busy each time one and the same batch is tried.     *)
Fairness ==
  /\ WF_vars(Tick)
  /\ \A s \in Samplers : WF_vars(Step(s))
  /\ \A s \in Loops : WF_vars(StartCycle(s))
  /\ \A g \in Groups :
       /\ SF_vars(\E s \in Samplers : ProbeFree(s, g))
       /\ \A b \in Batches(g) :
            SF_vars(\E s \in Samplers :
                      cur[s] = g /\ at[s] = b /\ ReadBatch(s))

FairSpec == Spec /\ Fairness

-----------------------------------------------------------------------------
(* In a completed run every point was either sampled or counted as         *)
(* deferred, never both; the only runs without an end are those of a group *)
(* that raised.  So neither a crash nor another group that fails leaves a  *)
(* run behind that tells less than what happened.                          *)
RunsAddUp ==
  \A g \in Groups :
    /\ run[g].ended # "open"
    /\ run[g].read \cap run[g].deferred = {}
    /\ run[g].ended = "complete" =>
         run[g].read \cup run[g].deferred = Batches(g)

(* A cycle reads no more points than the budget, unless a group raised.    *)
BudgetHeld == \A s \in Samplers : ~failed[s] => total[s] <= Budget

(* A run begins at least an interval after the one before it: also when   *)
(* time passes in its cycle, when its cycle commits in several parts and   *)
(* when cycles were abandoned.  Only the agent and one started by hand     *)
(* that sample at the same time may both read a group.                     *)
IntervalKept ==
  \A s \in Samplers, g \in Groups :
     writer = s /\ tx[g] # NoRun /\ ~overlapped[s]
       => age[g] >= Interval[g] + since[s]

(* The points of g and of the groups before it fit into one cycle.         *)
Fits(g) ==
  MapThenSumSet(LAMBDA h : MapThenSumSet(LAMBDA b : Sizes[h][b], Batches(h)),
                {h \in Groups : h <= g}) <= Budget

(* Every batch of such a group is read again and again.                    *)
KeepsReading ==
  \A g \in Groups : Fits(g) => \A b \in Batches(g) :
    []<>(b \in run[g].read /\ age[g] < MaxAge(g))

(* "record no sample, leave the group due, and try again on the next       *)
(* cycle" (trends.py, of a batch that finds the port busy): a group of     *)
(* which nothing was read is still due.                                    *)
BusyGroupStaysDue ==
  \A g \in Groups : run[g].ended = "complete" /\ run[g].read = {} => Due(g)
=============================================================================
