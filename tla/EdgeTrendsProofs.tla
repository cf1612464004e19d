-------------------------- MODULE EdgeTrendsProofs --------------------------
(***************************************************************************)
(* What a cycle of local trend sampling guarantees for any number of       *)
(* groups, batches, samplers and faults.                                   *)
(***************************************************************************)
EXTENDS EdgeTrends, TLAPS

USE EdgeTrendsAssumption

AddsUp(r, g) ==
  /\ r.read \cap r.deferred = {}
  /\ r.ended = "complete" => r.read \cup r.deferred = Batches(g)

(* A sampler is at a group it has taken from its list; the run of a group  *)
(* that is being read has the batches before the next one.                 *)
AtInv ==
  \A s \in Samplers :
    /\ pc[s] \in {"insert", "batch"} => cur[s] \in Groups \ todo[s]
    /\ pc[s] = "batch" =>
         /\ writer = s
         /\ at[s] <= Len(Sizes[cur[s]]) + 1
         /\ tx[cur[s]].read = {b \in Batches(cur[s]) : b < at[s]}
         /\ tx[cur[s]].deferred = {} /\ tx[cur[s]].ended = "open"

(* The transaction holds runs of its writer's cycle; only that of the      *)
(* group the writer is at is open.                                         *)
TxInv ==
  /\ writer # Nobody => pc[writer] # "idle"
  /\ \A g \in Groups :
       /\ tx[g].ended = "open" =>
            writer # Nobody /\ pc[writer] = "batch" /\ cur[writer] = g
       /\ tx[g] # NoRun => writer # Nobody /\ g \notin todo[writer]

(* The runs of the transaction add up like those that are committed.       *)
TxAddsUp ==
  \A g \in Groups :
    /\ tx[g].read \cap tx[g].deferred = {}
    /\ tx[g].ended = "complete" =>
         tx[g].read \cup tx[g].deferred = Batches(g)

(* What was read and what is left of the budget make up the budget.        *)
ChargeInv ==
  \A s \in Samplers :
    /\ attempted[s] <= left[s]
    /\ pc[s] = "idle" => total[s] = 0 /\ left[s] = Budget
    /\ pc[s] # "batch" => attempted[s] = 0
    /\ ~failed[s] => total[s] + left[s] = Budget + attempted[s]

IdleInv ==
  \A s \in Samplers : pc[s] = "idle" => todo[s] = {} /\ since[s] = 0

(* Cycles that are under way at the same time know it.                     *)
OverlapInv ==
  \A r, s \in Samplers :
    r # s /\ pc[r] # "idle" /\ pc[s] # "idle" => overlapped[s]

(* A group that a cycle has still to sample, samples or has sampled was    *)
(* due when the cycle began.                                               *)
InHand(s, g) ==
  \/ g \in todo[s]
  \/ pc[s] \in {"insert", "batch"} /\ g = cur[s]
  \/ writer = s /\ tx[g] # NoRun

DueInv ==
  \A s \in Samplers, g \in Groups :
    InHand(s, g) /\ ~overlapped[s] => age[g] >= Interval[g] + since[s]

TrendInv ==
  /\ TypeOK /\ AtInv /\ TxInv /\ TxAddsUp /\ RunsAddUp /\ ChargeInv
  /\ IdleInv /\ OverlapInv /\ DueInv

-----------------------------------------------------------------------------
(* Batches have sizes.                                                     *)
LEMMA SizeType ==
  \A g \in Groups : /\ Len(Sizes[g]) \in Nat
                    /\ \A b \in Batches(g) : Sizes[g][b] \in Nat \ {0}
  BY DEF Batches

(* What the actions on runs and transactions do, point by point.           *)
ReadOutcome(s) ==
  /\ tx' \in [Groups -> Runs]
  /\ tx'[cur[s]].read = tx[cur[s]].read \cup {at[s]}
  /\ tx'[cur[s]].deferred = tx[cur[s]].deferred
  /\ tx'[cur[s]].ended = tx[cur[s]].ended
  /\ \A g \in Groups \ {cur[s]} : tx'[g] = tx[g]
  /\ pc[s] = "batch" /\ at[s] \in Batches(cur[s])
  /\ at' = [at EXCEPT ![s] = @ + 1]
  /\ UNCHANGED <<age, run, writer, pc, todo, left, cur, since, failed,
                 overlapped, faults, byHand>>

(* A batch that is read is added to the run of its group.                  *)
LEMMA ReadEffect ==
  ASSUME TypeOK, AtInv, NEW s \in Samplers, ReadBatch(s)
  PROVE  ReadOutcome(s)
<1> DEFINE c == cur[s]
           r == [tx[c] EXCEPT !.read = @ \cup {at[s]}]
<1>1. c \in Groups /\ at[s] \in Nat /\ tx \in [Groups -> Runs]
  BY DEF ReadBatch, AtInv, TypeOK, DbTypes, LoopTypes
<1>2. tx' = [tx EXCEPT ![c].read = @ \cup {at[s]}]
  BY Zenon DEF ReadBatch
<1>3. tx' = [tx EXCEPT ![c] = r]
  BY <1>1, <1>2
<1>4. /\ r \in Runs /\ r.read = tx[c].read \cup {at[s]}
      /\ r.deferred = tx[c].deferred /\ r.ended = tx[c].ended
  BY <1>1 DEF Runs
<1>5. /\ pc[s] = "batch" /\ at[s] \in Batches(cur[s])
      /\ at' = [at EXCEPT ![s] = @ + 1]
      /\ UNCHANGED <<age, run, writer, pc, todo, left, cur, since, failed,
                     overlapped, faults, byHand>>
  BY DEF ReadBatch
<1> HIDE DEF r
<1>6. QED
  BY <1>1, <1>3, <1>4, <1>5 DEF ReadOutcome

(* A batch that is read is charged, within what is left.                   *)
LEMMA ReadCharge ==
  ASSUME TypeOK, AtInv, NEW s \in Samplers, ReadBatch(s)
  PROVE  \E n \in Nat :
           /\ attempted' = [attempted EXCEPT ![s] = @ + n]
           /\ total' = [total EXCEPT ![s] = @ + n]
           /\ attempted[s] + n <= left[s]
<1>1. cur[s] \in Groups /\ at[s] \in Batches(cur[s])
  BY DEF ReadBatch, AtInv
<1>2. Sizes[cur[s]][at[s]] \in Nat
  BY <1>1, SizeType
<1>3. QED
  BY <1>2 DEF ReadBatch

(* Completing a run changes that run only.                                 *)
LEMMA CompleteEffect ==
  ASSUME TypeOK, AtInv, NEW s \in Samplers, pc[s] = "batch",
         NEW unread \in SUBSET Nat, Complete(s, unread)
  PROVE  /\ tx' \in [Groups -> Runs]
         /\ tx'[cur[s]].read = tx[cur[s]].read
         /\ tx'[cur[s]].deferred = unread
         /\ tx'[cur[s]].ended = "complete"
         /\ \A g \in Groups \ {cur[s]} : tx'[g] = tx[g]
<1> DEFINE c == cur[s]
<1>1. c \in Groups /\ tx \in [Groups -> Runs]
  BY DEF AtInv, TypeOK, DbTypes
<1>2. tx' = [tx EXCEPT ![c] = [@ EXCEPT !.deferred = unread,
                                        !.ended = "complete"]]
  BY <1>1 DEF Complete, Runs
<1>3. [tx[c] EXCEPT !.deferred = unread, !.ended = "complete"] \in Runs
  BY <1>1 DEF Runs
<1>4. QED
  BY <1>1, <1>2, <1>3 DEF Runs

EndOutcome(s) ==
  /\ tx' \in [Groups -> Runs]
  /\ tx'[cur[s]].read = tx[cur[s]].read
  /\ tx'[cur[s]].deferred = {b \in Batches(cur[s]) : b >= at[s]}
  /\ tx'[cur[s]].ended = "complete"
  /\ \A g \in Groups \ {cur[s]} : tx'[g] = tx[g]
  /\ pc[s] = "batch"
  /\ left' = [left EXCEPT ![s] = @ - attempted[s]]
  /\ LeaveGroup(s)
  /\ UNCHANGED <<age, run, writer, todo, since, total, failed,
                 overlapped, faults, byHand>>

(* A run that ends has everything from the next batch on deferred.         *)
LEMMA EndEffect ==
  ASSUME TypeOK, AtInv, NEW s \in Samplers, Yield(s) \/ Finish(s)
  PROVE  EndOutcome(s)
<1> DEFINE U == {b \in Batches(cur[s]) : b >= at[s]}
<1>1. pc[s] = "batch" /\ cur[s] \in Groups
  BY DEF Yield, Finish, AtInv
<1>2. U \in SUBSET Nat
  BY DEF Batches
<1>3. Complete(s, U)
  <2>1. CASE Yield(s)
    BY <2>1 DEF Yield
  <2>2. CASE Finish(s)
    <3>1. at[s] \in Nat \ {0} /\ at[s] \notin Batches(cur[s])
      BY <2>2 DEF Finish, TypeOK, LoopTypes
    <3>2. U = {}
      BY <1>1, <3>1, SizeType DEF Batches
    <3>3. QED
      BY <2>2, <3>2 DEF Finish
  <2>3. QED
    BY <2>1, <2>2
<1>4. /\ left' = [left EXCEPT ![s] = @ - attempted[s]]
      /\ LeaveGroup(s)
      /\ UNCHANGED <<age, run, writer, todo, since, total, failed,
                     overlapped, faults, byHand>>
  BY <1>3 DEF Complete, history
<1> HIDE DEF U
<1>5. /\ tx' \in [Groups -> Runs]
      /\ tx'[cur[s]].read = tx[cur[s]].read
      /\ tx'[cur[s]].deferred = U
      /\ tx'[cur[s]].ended = "complete"
      /\ \A g \in Groups \ {cur[s]} : tx'[g] = tx[g]
  BY <1>1, <1>2, <1>3, CompleteEffect
<1>6. QED
  BY <1>1, <1>4, <1>5 DEF U, EndOutcome

(* A commit stores what is kept, and nothing else changes.                 *)
LEMMA CommitEffect ==
  ASSUME TypeOK, NEW s \in Samplers, NEW kept \in [Groups -> Runs],
         CommitTx(s, kept)
  PROVE  /\ DbTypes'
         /\ writer' = IF writer = s THEN Nobody ELSE writer
         /\ \A g \in Groups :
              IF writer = s /\ kept[g] # NoRun
                THEN run'[g] = kept[g]
                ELSE run'[g] = run[g] /\ age'[g] = age[g]
         /\ IF writer = s THEN \A g \in Groups : tx'[g] = NoRun
                          ELSE tx' = tx
<1>1. NoRun \in Runs
  BY DEF NoRun, Runs
<1>2. CASE writer = s
  <2>1. /\ run' = [g \in Groups |-> IF kept[g] = NoRun THEN run[g] ELSE kept[g]]
        /\ age' = [g \in Groups |-> IF kept[g] = NoRun THEN age[g]
                                    ELSE Lesser(age[g], since[s])]
        /\ tx' = [g \in Groups |-> NoRun]
        /\ writer' = Nobody
    BY <1>2 DEF CommitTx
  <2>2. run' \in [Groups -> Runs]
    BY <2>1 DEF TypeOK, DbTypes
  <2>3. \A g \in Groups : age[g] \in Nat /\ since[s] \in Nat
    BY DEF TypeOK, DbTypes, CycleTypes
  <2>4. \A g \in Groups : age'[g] \in Nat /\ age'[g] <= age[g]
    BY <2>1, <2>3 DEF Lesser
  <2>5. age' \in [Groups -> Nat] /\ \A g \in Groups : age'[g] <= MaxAge(g)
    <3>1. \A g \in Groups : MaxAge(g) \in Nat /\ age[g] <= MaxAge(g)
      BY DEF TypeOK, DbTypes, MaxAge
    <3>2. \A g \in Groups : age'[g] <= MaxAge(g)
      BY <2>3, <2>4, <3>1
    <3>3. age' \in [Groups -> Nat]
      BY <2>1, <2>4
    <3>4. QED
      BY <3>2, <3>3
  <2>6. DbTypes'
    BY <1>1, <2>1, <2>2, <2>5 DEF DbTypes, MaxAge
  <2>7. QED
    BY <1>2, <2>1, <2>6
<1>3. CASE writer # s
  BY <1>3 DEF CommitTx, TypeOK, DbTypes
<1>4. QED
  BY <1>2, <1>3

FailOutcome(s) ==
  /\ DbTypes' /\ pc[s] = "batch" /\ writer = s /\ writer' = Nobody
  /\ run'[cur[s]].read = tx[cur[s]].read
  /\ run'[cur[s]].deferred = {} /\ run'[cur[s]].ended = "failed"
  /\ \A g \in Groups \ {cur[s]} :
       \/ tx[g] # NoRun /\ run'[g] = tx[g]
       \/ tx[g] = NoRun /\ run'[g] = run[g] /\ age'[g] = age[g]
  /\ \A g \in Groups : tx'[g] = NoRun
  /\ LeaveGroup(s) /\ failed' = [failed EXCEPT ![s] = TRUE]
  /\ faults' \in 0..MaxFaults
  /\ UNCHANGED <<todo, left, since, total, overlapped, byHand>>

(* A failing group commits the runs of its cycle, its own without an end.  *)
LEMMA FailedEffect ==
  ASSUME TypeOK, AtInv, NEW s \in Samplers, GroupFails(s)
  PROVE  FailOutcome(s)
<1> DEFINE kept == [tx EXCEPT ![cur[s]].ended = "failed"]
<1>1. /\ pc[s] = "batch" /\ CommitTx(s, kept)
      /\ LeaveGroup(s) /\ failed' = [failed EXCEPT ![s] = TRUE]
      /\ faults' \in 0..MaxFaults
      /\ UNCHANGED <<todo, left, since, total, overlapped, byHand>>
  BY DEF GroupFails, TypeOK, CycleTypes
<1>2. writer = s /\ cur[s] \in Groups /\ tx[cur[s]].deferred = {}
  BY <1>1 DEF AtInv
<1>3. /\ kept \in [Groups -> Runs]
      /\ kept[cur[s]].read = tx[cur[s]].read
      /\ kept[cur[s]].deferred = tx[cur[s]].deferred
      /\ kept[cur[s]].ended = "failed"
      /\ kept[cur[s]] # NoRun
      /\ \A g \in Groups \ {cur[s]} : kept[g] = tx[g]
  <2> DEFINE r == [tx[cur[s]] EXCEPT !.ended = "failed"]
  <2>1. tx \in [Groups -> Runs]
    BY DEF TypeOK, DbTypes
  <2>2. kept = [tx EXCEPT ![cur[s]] = r]
    OBVIOUS
  <2>3. /\ r \in Runs /\ r.read = tx[cur[s]].read
        /\ r.deferred = tx[cur[s]].deferred /\ r.ended = "failed"
    BY <1>2, <2>1 DEF Runs
  <2>4. r # NoRun
    BY <2>3 DEF NoRun
  <2> HIDE DEF r, kept
  <2>5. QED
    BY <1>2, <2>1, <2>2, <2>3, <2>4
<1> HIDE DEF kept
<1>4. /\ DbTypes' /\ writer' = Nobody
      /\ \A g \in Groups :
           IF kept[g] # NoRun THEN run'[g] = kept[g]
                              ELSE run'[g] = run[g] /\ age'[g] = age[g]
      /\ \A g \in Groups : tx'[g] = NoRun
  BY <1>1, <1>2, <1>3, CommitEffect
<1>5. \A g \in Groups \ {cur[s]} :
        \/ tx[g] # NoRun /\ run'[g] = tx[g]
        \/ tx[g] = NoRun /\ run'[g] = run[g] /\ age'[g] = age[g]
  BY <1>3, <1>4
<1>6. QED
  BY <1>1, <1>2, <1>3, <1>4, <1>5 DEF FailOutcome

EndCycleOutcome(s) ==
  /\ DbTypes' /\ pc[s] = "groups" /\ LeaveCycle(s)
  /\ writer' = IF writer = s THEN Nobody ELSE writer
  /\ \A g \in Groups :
       IF writer = s /\ tx[g] # NoRun
         THEN run'[g] = tx[g]
         ELSE run'[g] = run[g] /\ age'[g] = age[g]
  /\ IF writer = s THEN \A g \in Groups : tx'[g] = NoRun ELSE tx' = tx
  /\ UNCHANGED <<faults, byHand>>

(* The end of a cycle commits all its runs.                                *)
LEMMA EndCycleEffect ==
  ASSUME TypeOK, NEW s \in Samplers, EndCycle(s)
  PROVE  EndCycleOutcome(s)
<1>1. CommitTx(s, tx) /\ tx \in [Groups -> Runs]
  BY DEF EndCycle, TypeOK, DbTypes
<1>2. QED
  BY <1>1, CommitEffect DEF EndCycle, EndCycleOutcome

Outcomes ==
  \A s \in Samplers :
    /\ ReadBatch(s) => ReadOutcome(s)
    /\ Yield(s) \/ Finish(s) => EndOutcome(s)
    /\ EndCycle(s) => EndCycleOutcome(s)
    /\ GroupFails(s) => FailOutcome(s)

LEMMA OutcomesHold ==
  ASSUME TypeOK, AtInv PROVE Outcomes
  BY ReadEffect, EndEffect, EndCycleEffect, FailedEffect DEF Outcomes

-----------------------------------------------------------------------------
USE DEF dbVars, loopVars, history, IsNext, DropGroup, LeaveGroup, LeaveCycle

(* Every step keeps the types of the database.                             *)
LEMMA DbTypesStep == TrendInv /\ [Next]_vars => DbTypes'
<1> SUFFICES ASSUME TrendInv, [Next]_vars PROVE DbTypes'
  OBVIOUS
<1>0. TypeOK /\ AtInv
  BY DEF TrendInv
<1>a. Outcomes
  BY <1>0, OutcomesHold
<1> USE DEF TrendInv, TypeOK, DbTypes, LoopTypes, CycleTypes, AtInv, Runs,
            NoRun, NewRun, MaxAge, Lesser, Batches
<1>1. CASE Tick
  <2>1. \A g \in Groups : age[g] + 1 \in Nat /\ MaxAge(g) \in Nat
    BY <1>0 DEF TypeOK, DbTypes, MaxAge
  <2>2. /\ age' \in [Groups -> Nat]
        /\ \A g \in Groups : age'[g] <= MaxAge(g)
    BY <1>1, <2>1 DEF Tick, Lesser
  <2>3. QED
    BY <1>0, <1>1, <2>2 DEF Tick, TypeOK, DbTypes, MaxAge
<1>2. ASSUME NEW s \in Samplers, NEW g \in Groups, SkipGroup(s, g)
      PROVE  DbTypes'
  BY <1>2 DEF SkipGroup
<1>3. ASSUME NEW s \in Samplers, NEW g \in Groups, ProbeFree(s, g)
      PROVE  DbTypes'
  BY <1>3 DEF ProbeFree
<1>4. ASSUME NEW s \in Samplers, InsertRun(s) PROVE DbTypes'
  BY <1>4 DEF InsertRun
<1>5. ASSUME NEW s \in Samplers, LockedOut(s) PROVE DbTypes'
  BY <1>5 DEF LockedOut
<1>6. ASSUME NEW s \in Samplers, ReadBatch(s) PROVE DbTypes'
  <2>1. ReadOutcome(s)
    BY <1>a, <1>6, Zenon DEF Outcomes
  <2>2. QED
    BY <2>1 DEF ReadOutcome
<1>7. ASSUME NEW s \in Samplers, Yield(s) \/ Finish(s) PROVE DbTypes'
  <2>1. EndOutcome(s)
    BY <1>a, <1>7, Zenon DEF Outcomes
  <2>2. QED
    BY <2>1 DEF EndOutcome
<1>8. ASSUME NEW s \in Samplers, EndCycle(s) PROVE DbTypes'
  <2>1. EndCycleOutcome(s)
    BY <1>a, <1>8, Zenon DEF Outcomes
  <2>2. QED
    BY <2>1 DEF EndCycleOutcome
<1>9. ASSUME NEW s \in Samplers, GroupFails(s) PROVE DbTypes'
  <2>1. FailOutcome(s)
    BY <1>a, <1>9, Zenon DEF Outcomes
  <2>2. QED
    BY <2>1 DEF FailOutcome
<1>10. ASSUME NEW s \in Samplers, Abandon(s) PROVE DbTypes'
  <2> HIDE DEF TrendInv, TypeOK, DbTypes, LoopTypes, CycleTypes, AtInv,
              NewRun, MaxAge, Lesser, Batches
  <2>1. NoRun \in Runs
    BY DEF NoRun, Runs
  <2> HIDE DEF NoRun, Runs
  <2>2. tx' \in [Groups -> Runs] /\ writer' \in Samplers \cup {Nobody}
    BY <1>0, <1>10, <2>1 DEF Abandon, TypeOK, DbTypes
  <2>3. UNCHANGED <<age, run>>
    BY <1>10 DEF Abandon
  <2>4. QED
    BY <1>0, <2>2, <2>3 DEF TypeOK, DbTypes, MaxAge
<1>11. ASSUME NEW s \in Samplers, StartCycle(s) PROVE DbTypes'
  BY <1>11 DEF StartCycle
<1>12. CASE UNCHANGED vars
  BY <1>12 DEF vars
<1>13. QED
  BY <1>1, <1>2, <1>3, <1>4, <1>5, <1>6, <1>7, <1>8, <1>9, <1>10, <1>11, <1>12
     DEF Next, Step

(* Every step keeps the types of the local variables.                      *)
LEMMA LoopTypesStep == TrendInv /\ [Next]_vars => LoopTypes'
<1> SUFFICES ASSUME TrendInv, [Next]_vars PROVE LoopTypes'
  OBVIOUS
<1>0. TypeOK /\ AtInv
  BY DEF TrendInv
<1>a. Outcomes
  BY <1>0, OutcomesHold
<1>b. \A s \in Samplers : ReadBatch(s) =>
        \E n \in Nat : /\ attempted' = [attempted EXCEPT ![s] = @ + n]
                      /\ total' = [total EXCEPT ![s] = @ + n]
                      /\ attempted[s] + n <= left[s]
  BY <1>0, ReadCharge
<1> USE DEF TrendInv, TypeOK, LoopTypes, ChargeInv
<1>1. CASE Tick
  BY <1>1 DEF Tick
<1>2. ASSUME NEW s \in Samplers, NEW g \in Groups, SkipGroup(s, g)
      PROVE  LoopTypes'
  BY <1>2 DEF SkipGroup
<1>3. ASSUME NEW s \in Samplers, NEW g \in Groups, ProbeFree(s, g)
      PROVE  LoopTypes'
  BY <1>3 DEF ProbeFree
<1>4. ASSUME NEW s \in Samplers, InsertRun(s) PROVE LoopTypes'
  BY <1>4 DEF InsertRun
<1>5. ASSUME NEW s \in Samplers, LockedOut(s) PROVE LoopTypes'
  BY <1>5 DEF LockedOut
<1>6. ASSUME NEW s \in Samplers, ReadBatch(s) PROVE LoopTypes'
  <2>1. ReadOutcome(s)
    BY <1>a, <1>6, Zenon DEF Outcomes
  <2>2. PICK n \in Nat : /\ attempted' = [attempted EXCEPT ![s] = @ + n]
                         /\ total' = [total EXCEPT ![s] = @ + n]
                         /\ attempted[s] + n <= left[s]
    BY <1>b, <1>6, Zenon
  <2>3. QED
    BY <2>1, <2>2 DEF ReadOutcome
<1>7. ASSUME NEW s \in Samplers, Yield(s) \/ Finish(s) PROVE LoopTypes'
  <2>1. EndOutcome(s)
    BY <1>a, <1>7, Zenon DEF Outcomes
  <2>2. QED
    BY <2>1 DEF EndOutcome
<1>8. ASSUME NEW s \in Samplers, EndCycle(s) PROVE LoopTypes'
  <2>1. EndCycleOutcome(s)
    BY <1>a, <1>8, Zenon DEF Outcomes
  <2>2. QED
    BY <2>1 DEF EndCycleOutcome
<1>9. ASSUME NEW s \in Samplers, GroupFails(s) PROVE LoopTypes'
  <2>1. FailOutcome(s)
    BY <1>a, <1>9, Zenon DEF Outcomes
  <2>2. QED
    BY <2>1 DEF FailOutcome
<1>10. ASSUME NEW s \in Samplers, Abandon(s) PROVE LoopTypes'
  BY <1>10 DEF Abandon
<1>11. ASSUME NEW s \in Samplers, StartCycle(s) PROVE LoopTypes'
  BY <1>11 DEF StartCycle
<1>12. CASE UNCHANGED vars
  BY <1>12 DEF vars
<1>13. QED
  BY <1>1, <1>2, <1>3, <1>4, <1>5, <1>6, <1>7, <1>8, <1>9, <1>10, <1>11, <1>12
     DEF Next, Step

(* Every step keeps the types of clocks and counters.                      *)
LEMMA CycleTypesStep == TrendInv /\ [Next]_vars => CycleTypes'
<1> SUFFICES ASSUME TrendInv, [Next]_vars PROVE CycleTypes'
  OBVIOUS
<1>0. TypeOK /\ AtInv
  BY DEF TrendInv
<1>a. Outcomes
  BY <1>0, OutcomesHold
<1>b. \A s \in Samplers : ReadBatch(s) =>
        \E n \in Nat : /\ attempted' = [attempted EXCEPT ![s] = @ + n]
                      /\ total' = [total EXCEPT ![s] = @ + n]
                      /\ attempted[s] + n <= left[s]
  BY <1>0, ReadCharge
<1> USE DEF TrendInv, TypeOK, LoopTypes, CycleTypes
<1>1. CASE Tick
  BY <1>1 DEF Tick
<1>2. ASSUME NEW s \in Samplers, NEW g \in Groups, SkipGroup(s, g)
      PROVE  CycleTypes'
  BY <1>2 DEF SkipGroup
<1>3. ASSUME NEW s \in Samplers, NEW g \in Groups, ProbeFree(s, g)
      PROVE  CycleTypes'
  BY <1>3 DEF ProbeFree
<1>4. ASSUME NEW s \in Samplers, InsertRun(s) PROVE CycleTypes'
  BY <1>4 DEF InsertRun
<1>5. ASSUME NEW s \in Samplers, LockedOut(s) PROVE CycleTypes'
  BY <1>5 DEF LockedOut
<1>6. ASSUME NEW s \in Samplers, ReadBatch(s) PROVE CycleTypes'
  <2>1. ReadOutcome(s)
    BY <1>a, <1>6, Zenon DEF Outcomes
  <2>2. PICK n \in Nat : /\ attempted' = [attempted EXCEPT ![s] = @ + n]
                         /\ total' = [total EXCEPT ![s] = @ + n]
                         /\ attempted[s] + n <= left[s]
    BY <1>b, <1>6, Zenon
  <2>3. QED
    BY <2>1, <2>2 DEF ReadOutcome
<1>7. ASSUME NEW s \in Samplers, Yield(s) \/ Finish(s) PROVE CycleTypes'
  <2>1. EndOutcome(s)
    BY <1>a, <1>7, Zenon DEF Outcomes
  <2>2. QED
    BY <2>1 DEF EndOutcome
<1>8. ASSUME NEW s \in Samplers, EndCycle(s) PROVE CycleTypes'
  <2>1. EndCycleOutcome(s)
    BY <1>a, <1>8, Zenon DEF Outcomes
  <2>2. QED
    BY <2>1 DEF EndCycleOutcome
<1>9. ASSUME NEW s \in Samplers, GroupFails(s) PROVE CycleTypes'
  <2>1. FailOutcome(s)
    BY <1>a, <1>9, Zenon DEF Outcomes
  <2>2. QED
    BY <2>1 DEF FailOutcome
<1>10. ASSUME NEW s \in Samplers, Abandon(s) PROVE CycleTypes'
  BY <1>10 DEF Abandon
<1>11. ASSUME NEW s \in Samplers, StartCycle(s) PROVE CycleTypes'
  <2> HIDE DEF TrendInv, TypeOK, LoopTypes, CycleTypes
  <2>1. overlapped' \in [Samplers -> BOOLEAN]
    BY <1>11, Zenon DEF StartCycle
  <2>2. QED
    BY <1>11, <2>1 DEF StartCycle, TrendInv, TypeOK, CycleTypes, dbVars
<1>12. CASE UNCHANGED vars
  BY <1>12 DEF vars
<1>13. QED
  BY <1>1, <1>2, <1>3, <1>4, <1>5, <1>6, <1>7, <1>8, <1>9, <1>10, <1>11, <1>12
     DEF Next, Step

(* Every step keeps a sampler at a group of its own.                       *)
LEMMA AtStep == TrendInv /\ [Next]_vars => AtInv'
<1> SUFFICES ASSUME TrendInv, [Next]_vars PROVE AtInv'
  OBVIOUS
<1>0. TypeOK /\ AtInv
  BY DEF TrendInv
<1>a. Outcomes
  BY <1>0, OutcomesHold
<1> USE DEF TrendInv, TypeOK, DbTypes, LoopTypes, AtInv, Runs, NewRun,
            Batches
<1>1. CASE Tick
  BY <1>1 DEF Tick
<1>2. ASSUME NEW s \in Samplers, NEW g \in Groups, SkipGroup(s, g)
      PROVE  AtInv'
  BY <1>2 DEF SkipGroup
<1>3. ASSUME NEW s \in Samplers, NEW g \in Groups, ProbeFree(s, g)
      PROVE  AtInv'
  BY <1>3 DEF ProbeFree
<1>4. ASSUME NEW s \in Samplers, InsertRun(s) PROVE AtInv'
  BY <1>4 DEF InsertRun
<1>5. ASSUME NEW s \in Samplers, LockedOut(s) PROVE AtInv'
  BY <1>5 DEF LockedOut
<1>6. ASSUME NEW s \in Samplers, ReadBatch(s) PROVE AtInv'
  <2>1. ReadOutcome(s)
    BY <1>a, <1>6 DEF Outcomes
  <2>2. /\ cur[s] \in Groups /\ writer = s
        /\ at[s] \in 1..Len(Sizes[cur[s]]) /\ Len(Sizes[cur[s]]) \in Nat
        /\ at'[s] = at[s] + 1
    BY <1>0, <2>1, SizeType
       DEF ReadOutcome, AtInv, Batches, TypeOK, LoopTypes
  <2>3. tx'[cur[s]].read = {b \in Batches(cur[s]) : b < at'[s]}
    BY <1>0, <2>1, <2>2 DEF ReadOutcome, AtInv, Batches
  <2>4. \A t \in Samplers : pc[t] = "batch" => t = s
    BY <1>0, <2>2 DEF AtInv
  <2>5. ASSUME NEW t \in Samplers, pc'[t] \in {"insert", "batch"}
        PROVE  cur'[t] \in Groups \ todo'[t]
    BY <1>0, <2>1, <2>5 DEF ReadOutcome, AtInv
  <2>6. ASSUME NEW t \in Samplers, pc'[t] = "batch"
        PROVE  /\ writer' = t
               /\ at'[t] <= Len(Sizes[cur'[t]]) + 1
               /\ tx'[cur'[t]].read = {b \in Batches(cur'[t]) : b < at'[t]}
               /\ tx'[cur'[t]].deferred = {} /\ tx'[cur'[t]].ended = "open"
    <3>1. t = s /\ cur'[t] = cur[s] /\ writer' = writer
      BY <2>1, <2>4, <2>6 DEF ReadOutcome
    <3>2. at'[s] <= Len(Sizes[cur[s]]) + 1
      BY <2>2
    <3>3. tx'[cur[s]].deferred = {} /\ tx'[cur[s]].ended = "open"
      BY <1>0, <2>1 DEF ReadOutcome, AtInv
    <3>4. QED
      BY <2>2, <2>3, <3>1, <3>2, <3>3
  <2>7. QED
    BY <2>5, <2>6 DEF AtInv
<1>7. ASSUME NEW s \in Samplers, Yield(s) \/ Finish(s) PROVE AtInv'
  <2>1. EndOutcome(s)
    BY <1>a, <1>7, Zenon DEF Outcomes
  <2>2. QED
    BY <2>1 DEF EndOutcome
<1>8. ASSUME NEW s \in Samplers, EndCycle(s) PROVE AtInv'
  <2>1. EndCycleOutcome(s)
    BY <1>a, <1>8, Zenon DEF Outcomes
  <2>2. QED
    BY <2>1 DEF EndCycleOutcome
<1>9. ASSUME NEW s \in Samplers, GroupFails(s) PROVE AtInv'
  <2>1. FailOutcome(s)
    BY <1>a, <1>9, Zenon DEF Outcomes
  <2>2. QED
    BY <2>1 DEF FailOutcome
<1>10. ASSUME NEW s \in Samplers, Abandon(s) PROVE AtInv'
  BY <1>10 DEF Abandon
<1>11. ASSUME NEW s \in Samplers, StartCycle(s) PROVE AtInv'
  BY <1>11 DEF StartCycle
<1>12. CASE UNCHANGED vars
  BY <1>12 DEF vars
<1>13. QED
  BY <1>1, <1>2, <1>3, <1>4, <1>5, <1>6, <1>7, <1>8, <1>9, <1>10, <1>11, <1>12
     DEF Next, Step

(* Every step keeps the transaction with its writer.                       *)
LEMMA TxStep == TrendInv /\ [Next]_vars => TxInv'
<1> SUFFICES ASSUME TrendInv, [Next]_vars PROVE TxInv'
  OBVIOUS
<1>0. TypeOK /\ AtInv
  BY DEF TrendInv
<1>a. Outcomes
  BY <1>0, OutcomesHold
<1> USE DEF TrendInv, TypeOK, DbTypes, LoopTypes, AtInv, TxInv, Runs, NoRun,
            NewRun
<1>1. CASE Tick
  BY <1>1 DEF Tick
<1>2. ASSUME NEW s \in Samplers, NEW g \in Groups, SkipGroup(s, g)
      PROVE  TxInv'
  BY <1>2 DEF SkipGroup
<1>3. ASSUME NEW s \in Samplers, NEW g \in Groups, ProbeFree(s, g)
      PROVE  TxInv'
  BY <1>3 DEF ProbeFree
<1>4. ASSUME NEW s \in Samplers, InsertRun(s) PROVE TxInv'
  BY <1>4 DEF InsertRun
<1>5. ASSUME NEW s \in Samplers, LockedOut(s) PROVE TxInv'
  BY <1>5 DEF LockedOut
<1>6. ASSUME NEW s \in Samplers, ReadBatch(s) PROVE TxInv'
  <2>1. ReadOutcome(s)
    BY <1>a, <1>6, Zenon DEF Outcomes
  <2>2. QED
    BY <2>1 DEF ReadOutcome
<1>7. ASSUME NEW s \in Samplers, Yield(s) \/ Finish(s) PROVE TxInv'
  <2> HIDE DEF TrendInv, TypeOK, DbTypes, LoopTypes, AtInv, TxInv, Runs,
              NoRun, NewRun
  <2>1. EndOutcome(s)
    BY <1>a, <1>7 DEF Outcomes
  <2>2. /\ writer = s /\ cur[s] \in Groups \ todo[s] /\ pc'[s] = "groups"
        /\ UNCHANGED <<writer, todo>>
    BY <1>0, <2>1 DEF EndOutcome, AtInv, LeaveGroup, TypeOK, LoopTypes
  <2>3. \A g \in Groups : tx'[g].ended # "open"
    BY <2>1, <2>2 DEF EndOutcome, TrendInv, TxInv
  <2>4. \A g \in Groups : tx'[g] # NoRun => g \notin todo'[s]
    BY <2>1, <2>2 DEF EndOutcome, TrendInv, TxInv
  <2>5. QED
    BY <2>2, <2>3, <2>4 DEF TxInv
<1>8. ASSUME NEW s \in Samplers, EndCycle(s) PROVE TxInv'
  <2>1. EndCycleOutcome(s)
    BY <1>a, <1>8, Zenon DEF Outcomes
  <2>2. QED
    BY <2>1 DEF EndCycleOutcome
<1>9. ASSUME NEW s \in Samplers, GroupFails(s) PROVE TxInv'
  <2>1. FailOutcome(s)
    BY <1>a, <1>9, Zenon DEF Outcomes
  <2>2. QED
    BY <2>1 DEF FailOutcome
<1>10. ASSUME NEW s \in Samplers, Abandon(s) PROVE TxInv'
  <2>1. CASE writer = s
    <3>1. writer' = Nobody /\ \A g \in Groups : tx'[g] = NoRun
      BY <1>10, <2>1 DEF Abandon
    <3>2. QED
      BY <3>1 DEF TxInv, NoRun
  <2>2. CASE writer # s
    <3>1. UNCHANGED <<writer, tx>>
      BY <1>10, <2>2 DEF Abandon
    <3>2. \A t \in Samplers \ {s} :
            /\ pc'[t] = pc[t] /\ cur'[t] = cur[t] /\ todo'[t] = todo[t]
      BY <1>10 DEF Abandon, LeaveCycle, TrendInv, TypeOK, LoopTypes
    <3>3. QED
      BY <2>2, <3>1, <3>2 DEF TrendInv, TxInv, TypeOK, DbTypes
  <2>3. QED
    BY <2>1, <2>2
<1>11. ASSUME NEW s \in Samplers, StartCycle(s) PROVE TxInv'
  BY <1>11 DEF StartCycle
<1>12. CASE UNCHANGED vars
  BY <1>12 DEF vars
<1>13. QED
  BY <1>1, <1>2, <1>3, <1>4, <1>5, <1>6, <1>7, <1>8, <1>9, <1>10, <1>11, <1>12
     DEF Next, Step

(* Every run of the transaction adds up.                                   *)
LEMMA TxAddsUpStep == TrendInv /\ [Next]_vars => TxAddsUp'
<1> SUFFICES ASSUME TrendInv, [Next]_vars PROVE TxAddsUp'
  OBVIOUS
<1>0. TypeOK /\ AtInv
  BY DEF TrendInv
<1>a. Outcomes
  BY <1>0, OutcomesHold
<1> USE DEF TrendInv, TypeOK, DbTypes, LoopTypes, AtInv, TxAddsUp, Runs,
            NoRun, NewRun, Batches
<1>1. CASE Tick
  BY <1>1 DEF Tick
<1>2. ASSUME NEW s \in Samplers, NEW g \in Groups, SkipGroup(s, g)
      PROVE  TxAddsUp'
  BY <1>2 DEF SkipGroup
<1>3. ASSUME NEW s \in Samplers, NEW g \in Groups, ProbeFree(s, g)
      PROVE  TxAddsUp'
  BY <1>3 DEF ProbeFree
<1>4. ASSUME NEW s \in Samplers, InsertRun(s) PROVE TxAddsUp'
  BY <1>4 DEF InsertRun
<1>5. ASSUME NEW s \in Samplers, LockedOut(s) PROVE TxAddsUp'
  BY <1>5 DEF LockedOut
<1>6. ASSUME NEW s \in Samplers, ReadBatch(s) PROVE TxAddsUp'
  <2>1. ReadOutcome(s)
    BY <1>a, <1>6 DEF Outcomes
  <2>2. /\ cur[s] \in Groups /\ tx[cur[s]].deferred = {}
        /\ tx[cur[s]].ended = "open"
    BY <1>0, <2>1 DEF ReadOutcome, AtInv
  <2>3. QED
    BY <2>1, <2>2, ZenonT(60) DEF ReadOutcome, TrendInv, TxAddsUp
<1>7. ASSUME NEW s \in Samplers, Yield(s) \/ Finish(s) PROVE TxAddsUp'
  <2>1. EndOutcome(s)
    BY <1>a, <1>7 DEF Outcomes
  <2>2. /\ cur[s] \in Groups
        /\ tx[cur[s]].read = {b \in Batches(cur[s]) : b < at[s]}
        /\ at[s] \in Nat /\ Batches(cur[s]) \subseteq Nat
    BY <1>0, <2>1 DEF EndOutcome, AtInv, TypeOK, LoopTypes, Batches
  <2>3. /\ tx'[cur[s]].read \cap tx'[cur[s]].deferred = {}
        /\ tx'[cur[s]].read \cup tx'[cur[s]].deferred = Batches(cur[s])
    BY <2>1, <2>2 DEF EndOutcome
  <2>4. QED
    BY <2>1, <2>3 DEF EndOutcome, TrendInv, TxAddsUp
<1>8. ASSUME NEW s \in Samplers, EndCycle(s) PROVE TxAddsUp'
  <2>1. EndCycleOutcome(s)
    BY <1>a, <1>8, Zenon DEF Outcomes
  <2>2. QED
    BY <2>1 DEF EndCycleOutcome
<1>9. ASSUME NEW s \in Samplers, GroupFails(s) PROVE TxAddsUp'
  <2>1. FailOutcome(s)
    BY <1>a, <1>9, Zenon DEF Outcomes
  <2>2. QED
    BY <2>1 DEF FailOutcome
<1>10. ASSUME NEW s \in Samplers, Abandon(s) PROVE TxAddsUp'
  BY <1>10 DEF Abandon
<1>11. ASSUME NEW s \in Samplers, StartCycle(s) PROVE TxAddsUp'
  BY <1>11 DEF StartCycle
<1>12. CASE UNCHANGED vars
  BY <1>12 DEF vars
<1>13. QED
  BY <1>1, <1>2, <1>3, <1>4, <1>5, <1>6, <1>7, <1>8, <1>9, <1>10, <1>11, <1>12
     DEF Next, Step

(* Only runs that add up are committed.                                    *)
LEMMA RunsStep == TrendInv /\ [Next]_vars => RunsAddUp'
<1> SUFFICES ASSUME TrendInv, [Next]_vars PROVE RunsAddUp'
  OBVIOUS
<1>0. TypeOK /\ AtInv
  BY DEF TrendInv
<1>a. Outcomes
  BY <1>0, OutcomesHold
<1> USE DEF TrendInv, TypeOK, DbTypes, LoopTypes, AtInv, TxInv, TxAddsUp,
            RunsAddUp, Runs, NoRun, NewRun
<1>1. CASE Tick
  BY <1>1 DEF Tick
<1>2. ASSUME NEW s \in Samplers, NEW g \in Groups, SkipGroup(s, g)
      PROVE  RunsAddUp'
  BY <1>2 DEF SkipGroup
<1>3. ASSUME NEW s \in Samplers, NEW g \in Groups, ProbeFree(s, g)
      PROVE  RunsAddUp'
  BY <1>3 DEF ProbeFree
<1>4. ASSUME NEW s \in Samplers, InsertRun(s) PROVE RunsAddUp'
  BY <1>4 DEF InsertRun
<1>5. ASSUME NEW s \in Samplers, LockedOut(s) PROVE RunsAddUp'
  BY <1>5 DEF LockedOut
<1>6. ASSUME NEW s \in Samplers, ReadBatch(s) PROVE RunsAddUp'
  <2>1. ReadOutcome(s)
    BY <1>a, <1>6, Zenon DEF Outcomes
  <2>2. QED
    BY <2>1 DEF ReadOutcome
<1>7. ASSUME NEW s \in Samplers, Yield(s) \/ Finish(s) PROVE RunsAddUp'
  <2>1. EndOutcome(s)
    BY <1>a, <1>7, Zenon DEF Outcomes
  <2>2. QED
    BY <2>1 DEF EndOutcome
<1>8. ASSUME NEW s \in Samplers, EndCycle(s) PROVE RunsAddUp'
  <2>1. EndCycleOutcome(s)
    BY <1>a, <1>8, Zenon DEF Outcomes
  <2>2. QED
    BY <2>1 DEF EndCycleOutcome
<1>9. ASSUME NEW s \in Samplers, GroupFails(s) PROVE RunsAddUp'
  <2>1. FailOutcome(s)
    BY <1>a, <1>9 DEF Outcomes
  <2>2. \A g \in Groups \ {cur[s]} : tx[g].ended # "open"
    BY <1>0, <2>1 DEF FailOutcome, TrendInv, TxInv
  <2>3. ASSUME NEW g \in Groups
        PROVE  /\ run'[g].ended # "open"
               /\ run'[g].read \cap run'[g].deferred = {}
               /\ run'[g].ended = "complete" =>
                    run'[g].read \cup run'[g].deferred = Batches(g)
    <3>1. CASE g = cur[s]
      BY <2>1, <3>1 DEF FailOutcome
    <3>2. CASE g # cur[s]
      <4>1. run'[g] = tx[g] \/ run'[g] = run[g]
        BY <2>1, <3>2 DEF FailOutcome
      <4>2. QED
        BY <2>2, <3>2, <4>1 DEF TrendInv, TxAddsUp, RunsAddUp
    <3>3. QED
      BY <3>1, <3>2
  <2>4. QED
    BY <2>3 DEF RunsAddUp
<1>10. ASSUME NEW s \in Samplers, Abandon(s) PROVE RunsAddUp'
  BY <1>10 DEF Abandon
<1>11. ASSUME NEW s \in Samplers, StartCycle(s) PROVE RunsAddUp'
  BY <1>11 DEF StartCycle
<1>12. CASE UNCHANGED vars
  BY <1>12 DEF vars
<1>13. QED
  BY <1>1, <1>2, <1>3, <1>4, <1>5, <1>6, <1>7, <1>8, <1>9, <1>10, <1>11, <1>12
     DEF Next, Step

(* Every point that is read is charged, or belongs to a failed group.      *)
LEMMA ChargeStep == TrendInv /\ [Next]_vars => ChargeInv'
<1> SUFFICES ASSUME TrendInv, [Next]_vars PROVE ChargeInv'
  OBVIOUS
<1>0. TypeOK /\ AtInv
  BY DEF TrendInv
<1>a. Outcomes
  BY <1>0, OutcomesHold
<1>b. \A s \in Samplers : ReadBatch(s) =>
        \E n \in Nat : /\ attempted' = [attempted EXCEPT ![s] = @ + n]
                      /\ total' = [total EXCEPT ![s] = @ + n]
                      /\ attempted[s] + n <= left[s]
  BY <1>0, ReadCharge
<1> USE DEF TrendInv, TypeOK, LoopTypes, CycleTypes, ChargeInv
<1>1. CASE Tick
  BY <1>1 DEF Tick
<1>2. ASSUME NEW s \in Samplers, NEW g \in Groups, SkipGroup(s, g)
      PROVE  ChargeInv'
  BY <1>2 DEF SkipGroup
<1>3. ASSUME NEW s \in Samplers, NEW g \in Groups, ProbeFree(s, g)
      PROVE  ChargeInv'
  BY <1>3 DEF ProbeFree
<1>4. ASSUME NEW s \in Samplers, InsertRun(s) PROVE ChargeInv'
  BY <1>4 DEF InsertRun
<1>5. ASSUME NEW s \in Samplers, LockedOut(s) PROVE ChargeInv'
  BY <1>5 DEF LockedOut
<1>6. ASSUME NEW s \in Samplers, ReadBatch(s) PROVE ChargeInv'
  <2> HIDE DEF TrendInv, TypeOK, LoopTypes, CycleTypes, ChargeInv
  <2>1. ReadOutcome(s)
    BY <1>a, <1>6 DEF Outcomes
  <2>2. PICK n \in Nat :
          /\ attempted' = [attempted EXCEPT ![s] = @ + n]
          /\ total' = [total EXCEPT ![s] = @ + n]
          /\ attempted[s] + n <= left[s]
    BY <1>0, <1>6, ReadCharge
  <2>3. /\ attempted'[s] = attempted[s] + n /\ total'[s] = total[s] + n
        /\ left[s] \in Nat /\ attempted[s] \in Nat /\ total[s] \in Nat
        /\ \A t \in Samplers \ {s} :
             attempted'[t] = attempted[t] /\ total'[t] = total[t]
    BY <1>0, <2>2 DEF TypeOK, LoopTypes, CycleTypes
  <2>4. UNCHANGED <<pc, left, failed>> /\ pc[s] = "batch"
    BY <2>1 DEF ReadOutcome
  <2>5. attempted'[s] <= left'[s]
    BY <2>2, <2>3, <2>4
  <2>0. ~failed[s] => total[s] + left[s] = Budget + attempted[s]
    BY DEF TrendInv, ChargeInv
  <2>6. ~failed[s] => total'[s] + left'[s] = Budget + attempted'[s]
    BY <2>0, <2>3, <2>4, SMTT(60)
  <2>7. QED
    BY <2>3, <2>4, <2>5, <2>6 DEF TrendInv, ChargeInv
<1>7. ASSUME NEW s \in Samplers, Yield(s) \/ Finish(s) PROVE ChargeInv'
  <2>1. EndOutcome(s)
    BY <1>a, <1>7 DEF Outcomes
  <2>2. /\ attempted'[s] = 0 /\ left'[s] = left[s] - attempted[s]
        /\ pc'[s] = "groups"
        /\ left[s] \in Nat /\ attempted[s] \in Nat /\ total[s] \in Nat
        /\ \A t \in Samplers \ {s} :
             attempted'[t] = attempted[t] /\ left'[t] = left[t] /\ pc'[t] = pc[t]
    BY <1>0, <2>1 DEF EndOutcome, LeaveGroup, TypeOK, LoopTypes, CycleTypes
  <2>3. UNCHANGED <<failed, total>>
    BY <2>1 DEF EndOutcome
  <2>4. attempted'[s] <= left'[s]
    BY <2>2 DEF TrendInv, ChargeInv
  <2>5. ~failed[s] => total'[s] + left'[s] = Budget + attempted'[s]
    BY <2>2, <2>3 DEF TrendInv, ChargeInv
  <2>6. QED
    BY <2>2, <2>3, <2>4, <2>5 DEF TrendInv, ChargeInv
<1>8. ASSUME NEW s \in Samplers, EndCycle(s) PROVE ChargeInv'
  <2>1. EndCycleOutcome(s)
    BY <1>a, <1>8, Zenon DEF Outcomes
  <2>2. QED
    BY <2>1 DEF EndCycleOutcome
<1>9. ASSUME NEW s \in Samplers, GroupFails(s) PROVE ChargeInv'
  <2>1. FailOutcome(s)
    BY <1>a, <1>9, Zenon DEF Outcomes
  <2>2. QED
    BY <2>1 DEF FailOutcome
<1>10. ASSUME NEW s \in Samplers, Abandon(s) PROVE ChargeInv'
  BY <1>10 DEF Abandon
<1>11. ASSUME NEW s \in Samplers, StartCycle(s) PROVE ChargeInv'
  BY <1>11 DEF StartCycle
<1>12. CASE UNCHANGED vars
  BY <1>12 DEF vars
<1>13. QED
  BY <1>1, <1>2, <1>3, <1>4, <1>5, <1>6, <1>7, <1>8, <1>9, <1>10, <1>11, <1>12
     DEF Next, Step

(* An idle sampler has nothing to do.                                      *)
LEMMA IdleStep == TrendInv /\ [Next]_vars => IdleInv'
<1> SUFFICES ASSUME TrendInv, [Next]_vars PROVE IdleInv'
  OBVIOUS
<1>0. TypeOK /\ AtInv
  BY DEF TrendInv
<1>a. Outcomes
  BY <1>0, OutcomesHold
<1> USE DEF TrendInv, TypeOK, LoopTypes, CycleTypes, IdleInv
<1>1. CASE Tick
  BY <1>1 DEF Tick
<1>2. ASSUME NEW s \in Samplers, NEW g \in Groups, SkipGroup(s, g)
      PROVE  IdleInv'
  BY <1>2 DEF SkipGroup
<1>3. ASSUME NEW s \in Samplers, NEW g \in Groups, ProbeFree(s, g)
      PROVE  IdleInv'
  BY <1>3 DEF ProbeFree
<1>4. ASSUME NEW s \in Samplers, InsertRun(s) PROVE IdleInv'
  BY <1>4 DEF InsertRun
<1>5. ASSUME NEW s \in Samplers, LockedOut(s) PROVE IdleInv'
  BY <1>5 DEF LockedOut
<1>6. ASSUME NEW s \in Samplers, ReadBatch(s) PROVE IdleInv'
  <2>1. ReadOutcome(s)
    BY <1>a, <1>6, Zenon DEF Outcomes
  <2>2. QED
    BY <2>1 DEF ReadOutcome
<1>7. ASSUME NEW s \in Samplers, Yield(s) \/ Finish(s) PROVE IdleInv'
  <2>1. EndOutcome(s)
    BY <1>a, <1>7, Zenon DEF Outcomes
  <2>2. QED
    BY <2>1 DEF EndOutcome
<1>8. ASSUME NEW s \in Samplers, EndCycle(s) PROVE IdleInv'
  <2>1. EndCycleOutcome(s)
    BY <1>a, <1>8, Zenon DEF Outcomes
  <2>2. QED
    BY <2>1 DEF EndCycleOutcome
<1>9. ASSUME NEW s \in Samplers, GroupFails(s) PROVE IdleInv'
  <2>1. FailOutcome(s)
    BY <1>a, <1>9, Zenon DEF Outcomes
  <2>2. QED
    BY <2>1 DEF FailOutcome
<1>10. ASSUME NEW s \in Samplers, Abandon(s) PROVE IdleInv'
  BY <1>10 DEF Abandon
<1>11. ASSUME NEW s \in Samplers, StartCycle(s) PROVE IdleInv'
  BY <1>11 DEF StartCycle
<1>12. CASE UNCHANGED vars
  BY <1>12 DEF vars
<1>13. QED
  BY <1>1, <1>2, <1>3, <1>4, <1>5, <1>6, <1>7, <1>8, <1>9, <1>10, <1>11, <1>12
     DEF Next, Step

(* Cycles that overlap know it.                                            *)
LEMMA OverlapStep == TrendInv /\ [Next]_vars => OverlapInv'
<1> SUFFICES ASSUME TrendInv, [Next]_vars PROVE OverlapInv'
  OBVIOUS
<1>0. TypeOK /\ AtInv
  BY DEF TrendInv
<1>a. Outcomes
  BY <1>0, OutcomesHold
<1> USE DEF TrendInv, TypeOK, LoopTypes, CycleTypes, OverlapInv
<1>1. CASE Tick
  BY <1>1 DEF Tick
<1>2. ASSUME NEW s \in Samplers, NEW g \in Groups, SkipGroup(s, g)
      PROVE  OverlapInv'
  BY <1>2 DEF SkipGroup
<1>3. ASSUME NEW s \in Samplers, NEW g \in Groups, ProbeFree(s, g)
      PROVE  OverlapInv'
  BY <1>3 DEF ProbeFree
<1>4. ASSUME NEW s \in Samplers, InsertRun(s) PROVE OverlapInv'
  BY <1>4 DEF InsertRun
<1>5. ASSUME NEW s \in Samplers, LockedOut(s) PROVE OverlapInv'
  BY <1>5 DEF LockedOut
<1>6. ASSUME NEW s \in Samplers, ReadBatch(s) PROVE OverlapInv'
  <2>1. ReadOutcome(s)
    BY <1>a, <1>6, Zenon DEF Outcomes
  <2>2. QED
    BY <2>1 DEF ReadOutcome
<1>7. ASSUME NEW s \in Samplers, Yield(s) \/ Finish(s) PROVE OverlapInv'
  <2>1. EndOutcome(s)
    BY <1>a, <1>7, Zenon DEF Outcomes
  <2>2. QED
    BY <2>1, SMTT(60) DEF EndOutcome
<1>8. ASSUME NEW s \in Samplers, EndCycle(s) PROVE OverlapInv'
  <2>1. EndCycleOutcome(s)
    BY <1>a, <1>8, Zenon DEF Outcomes
  <2>2. QED
    BY <2>1 DEF EndCycleOutcome
<1>9. ASSUME NEW s \in Samplers, GroupFails(s) PROVE OverlapInv'
  <2>1. FailOutcome(s)
    BY <1>a, <1>9, Zenon DEF Outcomes
  <2>2. QED
    BY <2>1 DEF FailOutcome
<1>10. ASSUME NEW s \in Samplers, Abandon(s) PROVE OverlapInv'
  BY <1>10 DEF Abandon
<1>11. ASSUME NEW s \in Samplers, StartCycle(s) PROVE OverlapInv'
  BY <1>11 DEF StartCycle
<1>12. CASE UNCHANGED vars
  BY <1>12 DEF vars
<1>13. QED
  BY <1>1, <1>2, <1>3, <1>4, <1>5, <1>6, <1>7, <1>8, <1>9, <1>10, <1>11, <1>12
     DEF Next, Step

(* Nothing that a cycle has in hand becomes too young.                     *)
LEMMA DueStep == TrendInv /\ [Next]_vars => DueInv'
<1> SUFFICES ASSUME TrendInv, [Next]_vars PROVE DueInv'
  OBVIOUS
<1>0. TypeOK /\ AtInv
  BY DEF TrendInv
<1>a. Outcomes
  BY <1>0, OutcomesHold
<1> USE DEF TrendInv, TypeOK, DbTypes, LoopTypes, CycleTypes, AtInv, TxInv,
            IdleInv, OverlapInv, DueInv, InHand, Due, Runs, NoRun, NewRun,
            MaxAge, Lesser
<1>1. CASE Tick
  <2>1. ASSUME NEW t \in Samplers, NEW h \in Groups, InHand(t, h)',
               ~overlapped'[t]
        PROVE  age'[h] >= Interval[h] + since'[t]
    <3>1. InHand(t, h) /\ ~overlapped[t]
      BY <1>1, <2>1 DEF Tick, InHand, loopVars, history
    <3>2. age[h] >= Interval[h] + since[t]
      BY <3>1 DEF TrendInv, DueInv
    <3>3. /\ age[h] \in Nat /\ since[t] \in Nat /\ Interval[h] \in Nat
          /\ since[t] <= MaxCycle
      BY <1>0 DEF TypeOK, DbTypes, CycleTypes
    <3>4. age'[h] = Lesser(age[h] + 1, Interval[h] + MaxCycle)
      BY <1>1 DEF Tick, MaxAge
    <3>5. \/ since'[t] = since[t]
          \/ since'[t] = since[t] + 1 /\ since[t] < MaxCycle
      BY <1>1 DEF Tick
    <3>6. QED
      BY <3>2, <3>3, <3>4, <3>5, SMTT(60) DEF Lesser
  <2>2. QED
    BY <2>1 DEF DueInv
<1>2. ASSUME NEW s \in Samplers, NEW g \in Groups, SkipGroup(s, g)
      PROVE  DueInv'
  BY <1>2 DEF SkipGroup
<1>3. ASSUME NEW s \in Samplers, NEW g \in Groups, ProbeFree(s, g)
      PROVE  DueInv'
  <2> HIDE DEF TrendInv, TypeOK, DbTypes, LoopTypes, CycleTypes, AtInv,
              TxInv, IdleInv, OverlapInv, DueInv, InHand, Due, Runs, NoRun,
              NewRun, MaxAge, Lesser
  <2>1. UNCHANGED <<age, since, overlapped>>
    BY <1>3 DEF ProbeFree, history, dbVars
  <2>2. ASSUME NEW t \in Samplers, NEW h \in Groups, InHand(t, h)'
       PROVE  InHand(t, h)
    BY <1>0, <1>3, <2>2
       DEF ProbeFree, IsNext, DropGroup, InHand, TypeOK, LoopTypes, dbVars
  <2>3. QED
    BY <2>1, <2>2 DEF TrendInv, DueInv
<1>4. ASSUME NEW s \in Samplers, InsertRun(s) PROVE DueInv'
  <2> HIDE DEF TrendInv, TypeOK, DbTypes, LoopTypes, CycleTypes, AtInv,
              TxInv, IdleInv, OverlapInv, DueInv, InHand, Due, Runs, NoRun,
              NewRun, MaxAge, Lesser
  <2>1. UNCHANGED <<age, since, overlapped>>
    BY <1>4 DEF InsertRun, history
  <2>2. ASSUME NEW t \in Samplers, NEW h \in Groups, InHand(t, h)'
       PROVE  InHand(t, h)
    BY <1>0, <1>4, <2>2
       DEF InsertRun, InHand, AtInv, TypeOK, LoopTypes, DbTypes,
           TrendInv, TxInv
  <2>3. QED
    BY <2>1, <2>2 DEF TrendInv, DueInv
<1>5. ASSUME NEW s \in Samplers, LockedOut(s) PROVE DueInv'
  <2> HIDE DEF TrendInv, TypeOK, DbTypes, LoopTypes, CycleTypes, AtInv,
              TxInv, IdleInv, OverlapInv, DueInv, InHand, Due, Runs, NoRun,
              NewRun, MaxAge, Lesser
  <2>1. UNCHANGED <<age, since, overlapped>>
    BY <1>5 DEF LockedOut, history, dbVars
  <2>2. ASSUME NEW t \in Samplers, NEW h \in Groups, InHand(t, h)'
       PROVE  InHand(t, h)
    BY <1>0, <1>5, <2>2
       DEF LockedOut, LeaveGroup, InHand, TypeOK, LoopTypes, dbVars
  <2>3. QED
    BY <2>1, <2>2 DEF TrendInv, DueInv
<1>6. ASSUME NEW s \in Samplers, ReadBatch(s) PROVE DueInv'
  <2> HIDE DEF TrendInv, TypeOK, DbTypes, LoopTypes, CycleTypes, AtInv, TxInv,
              IdleInv, OverlapInv, DueInv, InHand, Runs, NoRun
  <2>1. ReadOutcome(s)
    BY <1>a, <1>6 DEF Outcomes
  <2>2. UNCHANGED <<age, since, overlapped>>
    BY <2>1 DEF ReadOutcome
  <2>3. ASSUME NEW t \in Samplers, NEW h \in Groups, InHand(t, h)'
        PROVE  InHand(t, h)
    <3>1. CASE t = s /\ h = cur[s]
      BY <2>1, <3>1 DEF ReadOutcome, InHand
    <3>2. CASE t # s \/ h # cur[s]
      <4>1. writer = s
        BY <1>0, <2>1 DEF ReadOutcome, AtInv
      <4>2. tx'[h] # NoRun /\ writer' = t => tx[h] # NoRun /\ writer = t
        BY <2>1, <3>2, <4>1 DEF ReadOutcome
      <4>3. QED
        BY <2>1, <2>3, <4>2 DEF ReadOutcome, InHand
    <3>3. QED
      BY <3>1, <3>2
  <2>4. QED
    BY <2>2, <2>3 DEF TrendInv, DueInv
<1>7. ASSUME NEW s \in Samplers, Yield(s) \/ Finish(s) PROVE DueInv'
  <2> HIDE DEF TrendInv, TypeOK, DbTypes, LoopTypes, CycleTypes, AtInv, TxInv,
              IdleInv, OverlapInv, DueInv, InHand, Runs, NoRun
  <2>1. EndOutcome(s)
    BY <1>a, <1>7 DEF Outcomes
  <2>2. UNCHANGED <<age, since, overlapped, todo, writer>>
    BY <2>1 DEF EndOutcome
  <2>3. /\ pc'[s] = "groups"
        /\ \A t \in Samplers \ {s} : pc'[t] = pc[t] /\ cur'[t] = cur[t]
    BY <1>0, <2>1 DEF EndOutcome, LeaveGroup, TypeOK, LoopTypes
  <2>4. writer = s /\ pc[s] = "batch"
    BY <1>0, <2>1 DEF EndOutcome, AtInv
  <2>5. ASSUME NEW t \in Samplers, NEW h \in Groups, InHand(t, h)'
        PROVE  InHand(t, h)
    <3>1. CASE t = s /\ h = cur[s]
      BY <2>4, <3>1 DEF InHand
    <3>2. CASE t # s \/ h # cur[s]
      <4>1. tx'[h] # NoRun /\ writer' = t => tx[h] # NoRun /\ writer = t
        BY <2>1, <2>2, <2>4, <3>2 DEF EndOutcome
      <4>2. QED
        BY <2>2, <2>3, <2>5, <4>1 DEF InHand
    <3>3. QED
      BY <3>1, <3>2
  <2>6. QED
    BY <2>2, <2>5 DEF TrendInv, DueInv
<1>8. ASSUME NEW s \in Samplers, EndCycle(s) PROVE DueInv'
  <2>1. EndCycleOutcome(s)
    BY <1>a, <1>8 DEF Outcomes
  <2>2. /\ pc[s] # "idle" /\ pc'[s] = "idle" /\ todo'[s] = {} /\ writer' # s
        /\ \A t \in Samplers \ {s} :
             /\ pc'[t] = pc[t] /\ todo'[t] = todo[t] /\ cur'[t] = cur[t]
             /\ since'[t] = since[t] /\ overlapped'[t] = overlapped[t]
        /\ writer' # Nobody => UNCHANGED <<writer, tx>>
    BY <2>1 DEF EndCycleOutcome
  <2> HIDE DEF TrendInv, TypeOK, DbTypes, LoopTypes, CycleTypes, AtInv, TxInv,
              IdleInv, OverlapInv, DueInv, InHand, NoRun, Runs
  <2>4. ASSUME NEW t \in Samplers, NEW h \in Groups, InHand(t, h)',
               ~overlapped'[t]
        PROVE  age'[h] >= Interval[h] + since'[t]
    <3>1. t # s /\ InHand(t, h) /\ ~overlapped[t]
      BY <2>2, <2>4 DEF InHand
    <3>2. pc[t] # "idle"
      BY <3>1 DEF InHand, TrendInv, IdleInv, TxInv
    <3>3. FALSE
      BY <2>2, <3>1, <3>2 DEF TrendInv, OverlapInv
    <3>4. QED
      BY <3>3
  <2>5. QED
    BY <2>4 DEF DueInv
<1>9. ASSUME NEW s \in Samplers, GroupFails(s) PROVE DueInv'
  <2> HIDE DEF TrendInv, TypeOK, DbTypes, LoopTypes, CycleTypes, AtInv,
              TxInv, IdleInv, OverlapInv, DueInv, InHand, Due, Runs, NoRun,
              NewRun, MaxAge, Lesser
  <2>1. FailOutcome(s)
    BY <1>a, <1>9 DEF Outcomes
  <2>2. UNCHANGED <<todo, since, overlapped>> /\ writer' = Nobody
    BY <2>1 DEF FailOutcome
  <2>3. ASSUME NEW t \in Samplers, NEW h \in Groups, InHand(t, h)',
               ~overlapped[t]
        PROVE  h \in todo[s] /\ t = s
    <3>1. h \in todo[t] \/ (t # s /\ pc[t] \in {"insert", "batch"})
      BY <2>1, <2>2, <2>3
        
            DEF FailOutcome, LeaveGroup, InHand, TrendInv, TypeOK, LoopTypes,
                DbTypes
    <3>2. pc[t] # "idle" /\ pc[s] # "idle"
      BY <2>1, <3>1 DEF FailOutcome, TrendInv, IdleInv
    <3>3. t = s
      BY <2>3, <3>2 DEF TrendInv, OverlapInv
    <3>4. QED
      BY <3>1, <3>3
  <2>4. ASSUME NEW h \in todo[s] PROVE h \in Groups /\ age'[h] = age[h]
    <3>1. h \in Groups /\ tx[h] = NoRun /\ h # cur[s]
      BY <1>0, <2>1 DEF FailOutcome, AtInv, TrendInv, TxInv, TypeOK, LoopTypes
    <3>2. QED
      BY <2>1, <3>1 DEF FailOutcome
  <2>5. QED
    BY <2>2, <2>3, <2>4 DEF TrendInv, DueInv, InHand
<1>10. ASSUME NEW s \in Samplers, Abandon(s) PROVE DueInv'
  <2>1. /\ pc'[s] = "idle" /\ todo'[s] = {}
        /\ writer' # s
        /\ \A t \in Samplers \ {s} :
             /\ pc'[t] = pc[t] /\ todo'[t] = todo[t] /\ cur'[t] = cur[t]
             /\ since'[t] = since[t] /\ overlapped'[t] = overlapped[t]
        /\ UNCHANGED age
        /\ writer' # Nobody => UNCHANGED <<writer, tx>>
    BY <1>10 DEF Abandon
  <2> HIDE DEF TrendInv, TypeOK, DbTypes, LoopTypes, CycleTypes, AtInv, TxInv,
              IdleInv, OverlapInv, DueInv, InHand
  <2>2. ASSUME NEW t \in Samplers, NEW h \in Groups, InHand(t, h)'
        PROVE  t # s /\ InHand(t, h)
    BY <2>1, <2>2 DEF InHand
  <2>3. QED
    BY <2>1, <2>2 DEF TrendInv, DueInv
<1>11. ASSUME NEW s \in Samplers, StartCycle(s) PROVE DueInv'
  <2>1. /\ pc[s] = "idle" /\ since[s] = 0 /\ writer # s
        /\ UNCHANGED <<age, since, writer, tx, cur>>
    BY <1>11 DEF StartCycle, TrendInv, IdleInv, TxInv, TypeOK, DbTypes, dbVars
  <2>2. \A h \in Groups : age[h] \in Nat /\ Interval[h] \in Nat
    BY <1>0 DEF TypeOK, DbTypes
  <2>3. /\ todo'[s] = {h \in Groups : Due(h)} /\ pc'[s] = "groups"
        /\ \A t \in Samplers \ {s} :
             /\ todo'[t] = todo[t] /\ pc'[t] = pc[t]
             /\ ~overlapped'[t] => ~overlapped[t]
    BY <1>0, <1>11 DEF StartCycle, TypeOK, LoopTypes
  <2>4. ASSUME NEW t \in Samplers, NEW h \in Groups, InHand(t, h)',
               ~overlapped'[t]
        PROVE  age'[h] >= Interval[h] + since'[t]
    <3>1. CASE t = s
      BY <2>1, <2>2, <2>3, <2>4, <3>1 DEF InHand, Due
    <3>2. CASE t # s
      BY <2>1, <2>3, <2>4, <3>2 DEF InHand, TrendInv, DueInv
    <3>3. QED
      BY <3>1, <3>2
  <2>5. QED
    BY <2>4 DEF DueInv
<1>12. CASE UNCHANGED vars
  BY <1>12 DEF vars
<1>13. QED
  BY <1>1, <1>2, <1>3, <1>4, <1>5, <1>6, <1>7, <1>8, <1>9, <1>10, <1>11, <1>12
     DEF Next, Step

-----------------------------------------------------------------------------
(* The invariant of a cycle: what is in the transaction, what was charged, *)
(* and what was due when the cycle began.                                  *)
THEOREM CycleIsOrderly == Spec => []TrendInv
<1>1. Init => TrendInv
  <2> SUFFICES ASSUME Init PROVE TrendInv
    OBVIOUS
  <2>1. DbTypes
    BY DEF Init, DbTypes, Runs, NoRun, MaxAge
  <2>2. LoopTypes
    BY DEF Init, LoopTypes
  <2>3. CycleTypes
    <3>1. faults \in 0..MaxFaults /\ byHand \in 0..MaxByHand
      BY DEF Init
    <3>2. since \in [Samplers -> 0..MaxCycle] /\ total \in [Samplers -> Nat]
      BY DEF Init
    <3>3. QED
      BY <3>1, <3>2, Zenon DEF Init, CycleTypes
  <2>4. AtInv /\ TxInv /\ TxAddsUp /\ RunsAddUp
    BY DEF Init, AtInv, TxInv, TxAddsUp, RunsAddUp, NoRun
  <2>5. ChargeInv
    BY DEF Init, ChargeInv
  <2>6. IdleInv /\ OverlapInv
    BY DEF Init, IdleInv, OverlapInv
  <2>7. DueInv
    BY DEF Init, DueInv, InHand, NoRun
  <2>8. QED
    BY <2>1, <2>2, <2>3, <2>4, <2>5, <2>6, <2>7 DEF TrendInv, TypeOK
<1>2. TrendInv /\ [Next]_vars => TrendInv'
  BY DbTypesStep, LoopTypesStep, CycleTypesStep, AtStep, TxStep, TxAddsUpStep,
     RunsStep, ChargeStep, IdleStep, OverlapStep, DueStep
     DEF TrendInv, TypeOK
<1>3. QED
  BY <1>1, <1>2, PTL DEF Spec

(* Type correctness of the database and the cycles.                        *)
THEOREM TypesHold == Spec => []TypeOK
<1>1. TrendInv => TypeOK
  BY DEF TrendInv
<1>2. QED
  BY <1>1, CycleIsOrderly, PTL

(* Committed runs account for every point, whatever fails.                 *)
THEOREM RunsAreComplete == Spec => []RunsAddUp
<1>1. TrendInv => RunsAddUp
  BY DEF TrendInv
<1>2. QED
  BY <1>1, CycleIsOrderly, PTL

(* Without a failed group the points of a cycle stay within the budget.    *)
THEOREM BudgetIsKept == Spec => []BudgetHeld
<1>1. TrendInv => BudgetHeld
  BY DEF TrendInv, TypeOK, LoopTypes, CycleTypes, ChargeInv, BudgetHeld
<1>2. QED
  BY <1>1, CycleIsOrderly, PTL

(* Without an overlapping cycle no group is sampled before its interval.   *)
THEOREM IntervalIsKept == Spec => []IntervalKept
<1>1. TrendInv => IntervalKept
  BY DEF TrendInv, DueInv, InHand, IntervalKept
<1>2. QED
  BY <1>1, CycleIsOrderly, PTL
=============================================================================
