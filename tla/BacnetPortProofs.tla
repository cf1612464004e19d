-------------------------- MODULE BacnetPortProofs --------------------------
(***************************************************************************)
(* What the lock file of BacnetRuntimeLock guarantees for any number of    *)
(* threads, processes and crashes, and what a read job that holds it       *)
(* reports, for lists, batches and blocks of any size.                     *)
(***************************************************************************)
EXTENDS BacnetPort, BacnetReads, WellFoundedInduction, TLAPS

USE BacnetPortAssumption

(* The holder of an untaken lock is the creator of the lock file, which is *)
(* why there is only one.                                                  *)
OwnInv ==
  /\ TypeOK
  /\ \A t \in holders \ taken : file = t
  /\ \A t \in Threads :
       /\ pc[t] \in {"write", "run"} => t \in holders
       /\ pc[t] \in {"release", "remove"}
            => t \in holders \/ op[t] = "discover"
       /\ t \in holders => pc[t] \in {"write", "run", "release", "remove"}

(* An acquired lock stays the acquirer's until it is taken or released.    *)
THEOREM LockIsOwned == Spec => []OwnInv
<1> USE DEF OwnInv, TypeOK, Pcs, Ops
<1>1. Init => OwnInv
  <2> SUFFICES ASSUME Init PROVE OwnInv
    OBVIOUS
  <2>1. crashes \in 0..MaxCrashes
    BY DEF Init
  <2>2. \A t \in Threads : pc[t] = "idle"
    BY DEF Init
  <2>3. TypeOK
    BY <2>1, Zenon DEF Init
  <2>4. QED
    BY <2>2, <2>3 DEF Init
<1>2. OwnInv /\ [Next]_vars => OwnInv'
  <2> SUFFICES ASSUME OwnInv, [Next]_vars PROVE OwnInv'
    OBVIOUS
  <2> USE DEF fileVars, Goto
  <2>1. ASSUME NEW t \in Threads, Begin(t) PROVE OwnInv'
    BY <2>1 DEF Begin
  <2>2. ASSUME NEW t \in Threads, Probing(t) PROVE OwnInv'
    <3>1. CASE Probe(t)
      BY <3>1 DEF Probe, AfterProbe
    <3>2. CASE ProbePid(t)
      BY <3>2 DEF ProbePid
    <3>3. CASE ProbeAge(t)
      BY <3>3 DEF ProbeAge, AfterProbe
    <3>4. CASE ProbeUnlink(t)
      BY <3>4 DEF ProbeUnlink, AfterProbe, Unlink
    <3>5. QED
      BY <2>2, <3>1, <3>2, <3>3, <3>4 DEF Probing
  <2>3. ASSUME NEW t \in Threads, Acquiring(t) PROVE OwnInv'
    <3>1. CASE Create(t)
      BY <3>1, ZenonT(60) DEF Create
    <3>2. CASE WritePid(t)
      BY <3>2 DEF WritePid
    <3>3. CASE CheckPid(t)
      BY <3>3 DEF CheckPid
    <3>4. CASE CheckAge(t)
      BY <3>4 DEF CheckAge
    <3>5. CASE RemoveStale(t)
      BY <3>5 DEF RemoveStale, Unlink
    <3>6. CASE Retry(t)
      BY <3>6 DEF Retry
    <3>7. QED
      BY <2>3, <3>1, <3>2, <3>3, <3>4, <3>5, <3>6 DEF Acquiring
  <2>4. ASSUME NEW t \in Threads, GiveUp(t) PROVE OwnInv'
    BY <2>4 DEF GiveUp
  <2>5. ASSUME NEW t \in Threads, Releasing(t) PROVE OwnInv'
    <3>1. CASE Finish(t)
      BY <3>1 DEF Finish
    <3>2. CASE Release(t)
      BY <3>2 DEF Release
    <3>3. CASE Remove(t)
      BY <3>3 DEF Remove
    <3>4. QED
      BY <2>5, <3>1, <3>2, <3>3 DEF Releasing
  <2>6. CASE GrowOld
    BY <2>6 DEF GrowOld
  <2>7. ASSUME NEW p \in Processes, Crash(p) PROVE OwnInv'
    BY <2>7 DEF Crash
  <2>8. CASE UNCHANGED vars
    BY <2>8 DEF vars
  <2>9. QED
    BY <2>1, <2>2, <2>3, <2>4, <2>5, <2>6, <2>7, <2>8 DEF Next
<1>3. QED
  BY <1>1, <1>2, PTL DEF Spec

(* The flags, holders and program counters of the lock keep their types;   *)
(* a lock file that is gone has no pid and no age.                         *)
THEOREM TypesHold == Spec => []TypeOK
<1>1. OwnInv => TypeOK
  BY DEF OwnInv
<1>2. QED
  BY <1>1, LockIsOwned, PTL

(* Two BACnet commands run at once only where a lock was taken.            *)
THEOREM Exclusive == Spec => []ExclusiveUnlessTaken
<1>1. OwnInv => ExclusiveUnlessTaken
  BY DEF OwnInv, ExclusiveUnlessTaken, Running
<1>2. QED
  BY <1>1, LockIsOwned, PTL

(* release removes no lock of another thread, with the two exceptions.     *)
THEOREM ReleaseIsOwn == Spec => []ReleaseTakesOwn
<1>1. OwnInv => ReleaseTakesOwn
  BY DEF OwnInv, ReleaseTakesOwn
<1>2. QED
  BY <1>1, LockIsOwned, PTL

-----------------------------------------------------------------------------
HIDE BacnetPortAssumption

(* A set of numbers that is not empty has a least one: induction by a      *)
(* least counterexample, which needs no operator as a parameter.           *)
LEMMA Least ==
  ASSUME NEW T \in SUBSET Nat, T # {}
  PROVE  \E n \in T : \A k \in T : n <= k
<1>1. PICK n \in T : \A k \in T : ~(<<k, n>> \in OpToRel(<, Nat))
  BY NatLessThanWellFounded, WFMin, Zenon
<1>2. \A k \in T : ~(k < n)
  BY <1>1 DEF OpToRel
<1> QED  BY <1>2

(* A set that has 0, and with each number below N the next, has them all.  *)
LEMMA Counting ==
  ASSUME NEW N \in Nat, NEW T, 0 \in T,
         \A n \in 1..N : n - 1 \in T => n \in T
  PROVE  \A n \in 0..N : n \in T
<1> DEFINE Missing == (0..N) \ T
<1>1. Missing \in SUBSET Nat
  OBVIOUS
<1> HIDE DEF Missing
<1>2. CASE Missing # {}
  <2>1. PICK n \in Missing : \A k \in Missing : n <= k
    BY <1>1, <1>2, Least
  <2>2. n \in 1..N /\ n \notin T
    BY <2>1 DEF Missing
  <2>3. n - 1 \notin Missing
    BY <2>1, <2>2
  <2>4. n - 1 \in T
    BY <2>2, <2>3 DEF Missing
  <2> QED  BY <2>2, <2>4
<1>3. CASE Missing = {}
  BY <1>3 DEF Missing
<1> QED  BY <1>2, <1>3

(* A list of values that starts with base and goes on by step.             *)
Goes(g, N, S, base, step) ==
  /\ g \in [0..N -> S] /\ g[0] = base
  /\ \A n \in 1..N : g[n] = step[<<n, g[n - 1]>>]

(* Such a list is there for any step, so what a function that recurs on a  *)
(* prefix computes is the list that its definition describes.              *)
LEMMA StepByStep ==
  ASSUME NEW N \in Nat, NEW S, NEW base \in S, NEW step,
         \A n \in 1..N, x \in S : step[<<n, x>>] \in S
  PROVE  \E g : Goes(g, N, S, base, step)
<1> DEFINE T == {m \in 0..N : \E g : Goes(g, m, S, base, step)}
<1>1. 0 \in T
  <2>1. Goes([n \in 0..0 |-> base], 0, S, base, step)
    BY DEF Goes
  <2> QED  BY <2>1
<1>2. ASSUME NEW m \in 1..N, m - 1 \in T
      PROVE  m \in T
  <2>1. PICK g : Goes(g, m - 1, S, base, step)
    BY <1>2, Zenon
  <2> DEFINE h == [n \in 0..m |->
                     IF n = m THEN step[<<m, g[m - 1]>>] ELSE g[n]]
  <2>2. m - 1 \in 0..(m - 1) /\ g[m - 1] \in S /\ step[<<m, g[m - 1]>>] \in S
    <3>1. g \in [0..(m - 1) -> S] /\ m - 1 \in 0..(m - 1)
      BY <2>1 DEF Goes
    <3> QED  BY <3>1
  <2>3. \A n \in 0..m : n # m => n \in 0..(m - 1)
    OBVIOUS
  <2>4. h \in [0..m -> S] /\ h[0] = base
    BY <2>1, <2>2, <2>3 DEF Goes
  <2>5. ASSUME NEW n \in 1..m
        PROVE  h[n] = step[<<n, h[n - 1]>>]
    <3>1. n - 1 \in 0..m /\ n - 1 # m /\ h[n - 1] = g[n - 1]
      OBVIOUS
    <3>2. CASE n = m
      BY <3>1, <3>2
    <3>3. CASE n # m
      <4>1. n \in 1..(m - 1)
        BY <3>3
      <4> QED  BY <2>1, <3>1, <3>3, <4>1 DEF Goes
    <3> QED  BY <3>2, <3>3
  <2> HIDE DEF h
  <2>6. Goes(h, m, S, base, step)
    BY <2>4, <2>5 DEF Goes
  <2> QED  BY <2>6
<1> HIDE DEF T
<1>3. \A m \in 0..N : m \in T
  BY <1>1, <1>2, Counting
<1> QED  BY <1>3 DEF T

(* Elements of a list that grows by one.                                   *)
LEMMA AppendElements ==
  ASSUME NEW A, NEW s \in Seq(A), NEW a \in A
  PROVE  /\ Append(s, a) \in Seq(A) /\ Len(Append(s, a)) = Len(s) + 1
         /\ Elements(Append(s, a)) = Elements(s) \cup {a}
<1>1. /\ Append(s, a) \in Seq(A) /\ Len(Append(s, a)) = Len(s) + 1
      /\ DOMAIN Append(s, a) = 1..(Len(s) + 1) /\ DOMAIN s = 1..Len(s)
      /\ \A i \in 1..Len(s) : Append(s, a)[i] = s[i]
      /\ Append(s, a)[Len(s) + 1] = a /\ Len(s) \in Nat
  OBVIOUS
<1>2. 1..(Len(s) + 1) = 1..Len(s) \cup {Len(s) + 1}
  BY <1>1
<1> QED  BY <1>1, <1>2 DEF Elements

(* What Only keeps of a list.                                              *)
LEMMA OnlyKeeps ==
  ASSUME NEW A, NEW s \in Seq(A), NEW S
  PROVE  /\ Only(s, S) \in Seq(A) /\ Len(Only(s, S)) <= Len(s)
         /\ Elements(Only(s, S)) = Elements(s) \cap S
<1> DEFINE Step(g, n) == IF s[n] \in S THEN Append(g[n - 1], s[n]) ELSE g[n - 1]
           step == [p \in (1..Len(s)) \X Seq(A) |->
                      IF s[p[1]] \in S THEN Append(p[2], s[p[1]]) ELSE p[2]]
<1>1. Len(s) \in Nat /\ \A n \in 1..Len(s) : s[n] \in A
  OBVIOUS
<1>2. \A n \in 1..Len(s), x \in Seq(A) :
        /\ step[<<n, x>>] = IF s[n] \in S THEN Append(x, s[n]) ELSE x
        /\ step[<<n, x>>] \in Seq(A)
  BY <1>1
<1>3. <<>> \in Seq(A)
  OBVIOUS
<1>4. PICK f : Goes(f, Len(s), Seq(A), <<>>, step)
  <2> DEFINE Q == Seq(A)
  <2>1. /\ Len(s) \in Nat /\ <<>> \in Q
        /\ \A n \in 1..Len(s), x \in Q : step[<<n, x>>] \in Q
    BY <1>1, <1>2, <1>3
  <2> HIDE DEF Q, step
  <2>2. \E g : Goes(g, Len(s), Q, <<>>, step)
    BY <2>1, StepByStep
  <2> QED  BY <2>2 DEF Q
<1> HIDE DEF step
<1>5. f = [n \in 0..Len(s) |-> IF n = 0 THEN <<>> ELSE Step(f, n)]
  <2>1. \A n \in 1..Len(s) : f[n] = Step(f, n)
    <3> SUFFICES ASSUME NEW n \in 1..Len(s)
                 PROVE  f[n] = Step(f, n)
      OBVIOUS
    <3>1. n - 1 \in 0..Len(s)
      BY <1>1
    <3>2. f[n - 1] \in Seq(A) /\ f[n] = step[<<n, f[n - 1]>>]
      BY <1>4, <3>1 DEF Goes
    <3> QED  BY <1>2, <3>2
  <2> HIDE DEF Step
  <2>2. \A n \in 0..Len(s) : n # 0 => n \in 1..Len(s)
    BY <1>1
  <2>3. \A n \in 0..Len(s) :
          f[n] = IF n = 0 THEN <<>> ELSE Step(f, n)
    BY <1>4, <2>1, <2>2 DEF Goes
  <2>4. f = [n \in 0..Len(s) |-> f[n]]
    BY <1>4 DEF Goes
  <2> QED  BY <2>3, <2>4
<1>11. PICK g :
        /\ g = [n \in 0..Len(s) |-> IF n = 0 THEN <<>> ELSE Step(g, n)]
        /\ Only(s, S) = g[Len(s)]
  BY <1>5 DEF Only
<1>10. /\ g[0] = <<>>
       /\ \A n \in 1..Len(s) : g[n] = Step(g, n)
  <2> HIDE DEF Step
  <2>1. \A n \in 1..Len(s) : n \in 0..Len(s) /\ n # 0
    BY <1>1
  <2>2. 0 \in 0..Len(s)
    BY <1>1
  <2> QED  BY <1>11, <2>1, <2>2
<1> DEFINE T == {n \in 0..Len(s) :
                   /\ g[n] \in Seq(A) /\ Len(g[n]) <= n
                   /\ Elements(g[n]) = {s[i] : i \in 1..n} \cap S}
<1>6. 0 \in T
  <2>1. g[0] = <<>> /\ {s[i] : i \in 1..0} = {}
    BY <1>10
  <2>2. Elements(<<>>) = {}
    BY DEF Elements
  <2>3. g[0] \in Seq(A) /\ Len(g[0]) <= 0
    BY <2>1
  <2>4. Elements(g[0]) = {s[i] : i \in 1..0} \cap S
    BY <2>1, <2>2
  <2>5. 0 \in 0..Len(s)
    BY <1>1
  <2> QED  BY <2>3, <2>4, <2>5
<1>7. ASSUME NEW n \in 1..Len(s), n - 1 \in T
      PROVE  n \in T
  <2> DEFINE x == g[n - 1]
  <2>1. /\ x \in Seq(A) /\ Len(x) <= n - 1
        /\ Elements(x) = {s[i] : i \in 1..(n - 1)} \cap S
    BY <1>7
  <2>2. g[n] = IF s[n] \in S THEN Append(x, s[n]) ELSE x
    BY <1>10
  <2>3. {s[i] : i \in 1..n} = {s[i] : i \in 1..(n - 1)} \cup {s[n]}
    <3>1. 1..n = 1..(n - 1) \cup {n}
      OBVIOUS
    <3> QED  BY <3>1
  <2>4. s[n] \in A
    BY <1>1
  <2> HIDE DEF x
  <2>5. CASE s[n] \in S
    <3>1. g[n] \in Seq(A) /\ Len(g[n]) <= n
      BY <2>1, <2>2, <2>4, <2>5
    <3>2. Elements(g[n]) = Elements(x) \cup {s[n]}
      BY <2>1, <2>2, <2>4, <2>5, AppendElements
    <3> QED  BY <1>1, <2>1, <2>3, <2>5, <3>1, <3>2
  <2>6. CASE s[n] \notin S
    <3>1. g[n] = x
      BY <2>2, <2>6
    <3>2. Len(x) \in Nat /\ Len(x) <= n
      BY <2>1
    <3>3. {s[i] : i \in 1..n} \cap S = {s[i] : i \in 1..(n - 1)} \cap S
      BY <2>3, <2>6
    <3>4. n \in 0..Len(s)
      BY <1>1
    <3> QED  BY <2>1, <3>1, <3>2, <3>3, <3>4
  <2> QED  BY <2>5, <2>6
<1>8. Len(s) \in T
  <2> HIDE DEF T
  <2>1. \A n \in 0..Len(s) : n \in T
    BY <1>1, <1>6, <1>7, Counting
  <2> QED  BY <1>1, <2>1
<1>9. Elements(s) = {s[i] : i \in 1..Len(s)}
  BY DEF Elements
<1> QED  BY <1>11, <1>8, <1>9

(* What Added makes of a list and the lines of an answer.                  *)
LEMMA AddedAdds ==
  ASSUME NEW A, NEW found \in Seq(A), NEW lines \in Seq(A)
  PROVE  /\ Added(found, lines) \in Seq(A)
         /\ Len(Added(found, lines)) <= Len(found) + Len(lines)
         /\ Elements(Added(found, lines)) = Elements(found) \cup Elements(lines)
<1> DEFINE Step(g, n) == With(g[n - 1], lines[n])
           step == [p \in (1..Len(lines)) \X Seq(A) |-> With(p[2], lines[p[1]])]
<1>1. Len(lines) \in Nat /\ \A n \in 1..Len(lines) : lines[n] \in A
  OBVIOUS
<1>2. \A x \in Seq(A), a \in A :
        /\ With(x, a) \in Seq(A) /\ Len(With(x, a)) <= Len(x) + 1
        /\ Elements(With(x, a)) = Elements(x) \cup {a}
  BY AppendElements DEF With
<1>3. \A n \in 1..Len(lines), x \in Seq(A) :
        step[<<n, x>>] = With(x, lines[n]) /\ step[<<n, x>>] \in Seq(A)
  BY <1>1, <1>2
<1>4. PICK f : Goes(f, Len(lines), Seq(A), found, step)
  <2> DEFINE Q == Seq(A)
  <2>1. /\ Len(lines) \in Nat /\ found \in Q
        /\ \A n \in 1..Len(lines), x \in Q : step[<<n, x>>] \in Q
    BY <1>1, <1>3
  <2> HIDE DEF Q, step
  <2>2. \E g : Goes(g, Len(lines), Q, found, step)
    BY <2>1, StepByStep
  <2> QED  BY <2>2 DEF Q
<1> HIDE DEF step
<1>5. f = [n \in 0..Len(lines) |-> IF n = 0 THEN found ELSE Step(f, n)]
  <2>1. \A n \in 1..Len(lines) : f[n] = Step(f, n)
    <3> SUFFICES ASSUME NEW n \in 1..Len(lines)
                 PROVE  f[n] = Step(f, n)
      OBVIOUS
    <3>1. n - 1 \in 0..Len(lines)
      BY <1>1
    <3>2. f[n - 1] \in Seq(A) /\ f[n] = step[<<n, f[n - 1]>>]
      BY <1>4, <3>1 DEF Goes
    <3> QED  BY <1>3, <3>2
  <2> HIDE DEF Step
  <2>2. \A n \in 0..Len(lines) : n # 0 => n \in 1..Len(lines)
    BY <1>1
  <2>3. \A n \in 0..Len(lines) :
          f[n] = IF n = 0 THEN found ELSE Step(f, n)
    BY <1>4, <2>1, <2>2 DEF Goes
  <2>4. f = [n \in 0..Len(lines) |-> f[n]]
    BY <1>4 DEF Goes
  <2> QED  BY <2>3, <2>4
<1>11. PICK g :
        /\ g = [n \in 0..Len(lines) |-> IF n = 0 THEN found ELSE Step(g, n)]
        /\ Added(found, lines) = g[Len(lines)]
  BY <1>5 DEF Added
<1>10. /\ g[0] = found
       /\ \A n \in 1..Len(lines) : g[n] = Step(g, n)
  <2> HIDE DEF Step
  <2>1. \A n \in 1..Len(lines) : n \in 0..Len(lines) /\ n # 0
    BY <1>1
  <2>2. 0 \in 0..Len(lines)
    BY <1>1
  <2> QED  BY <1>11, <2>1, <2>2
<1> DEFINE T == {n \in 0..Len(lines) :
                   /\ g[n] \in Seq(A) /\ Len(g[n]) <= Len(found) + n
                   /\ Elements(g[n]) =
                        Elements(found) \cup {lines[i] : i \in 1..n}}
<1>6. 0 \in T
  <2>1. /\ g[0] = found /\ {lines[i] : i \in 1..0} = {}
        /\ Len(found) \in Nat /\ 0 \in 0..Len(lines)
    BY <1>1, <1>10
  <2>2. Elements(g[0]) = Elements(found) \cup {lines[i] : i \in 1..0}
    BY <2>1
  <2> QED  BY <2>1, <2>2
<1>7. ASSUME NEW n \in 1..Len(lines), n - 1 \in T
      PROVE  n \in T
  <2> DEFINE x == g[n - 1]
  <2>1. /\ x \in Seq(A) /\ Len(x) <= Len(found) + (n - 1)
        /\ Elements(x) = Elements(found) \cup {lines[i] : i \in 1..(n - 1)}
    BY <1>7
  <2>2. g[n] = With(x, lines[n])
    BY <1>10
  <2>3. {lines[i] : i \in 1..n} = {lines[i] : i \in 1..(n - 1)} \cup {lines[n]}
    <3>1. 1..n = 1..(n - 1) \cup {n}
      OBVIOUS
    <3> QED  BY <3>1
  <2>4. lines[n] \in A
    BY <1>1
  <2> HIDE DEF x
  <2>5. /\ g[n] \in Seq(A) /\ Len(g[n]) <= Len(x) + 1
        /\ Elements(g[n]) = Elements(x) \cup {lines[n]}
    <3> DEFINE Q == Seq(A)
    <3>1. /\ x \in Q /\ lines[n] \in A /\ g[n] = With(x, lines[n])
      BY <2>1, <2>2, <2>4
    <3>2. \A y \in Q, a \in A :
            /\ With(y, a) \in Q /\ Len(With(y, a)) <= Len(y) + 1
            /\ Elements(With(y, a)) = Elements(y) \cup {a}
      BY <1>2
    <3> HIDE DEF Q
    <3>3. /\ With(x, lines[n]) \in Q
          /\ Len(With(x, lines[n])) <= Len(x) + 1
          /\ Elements(With(x, lines[n])) = Elements(x) \cup {lines[n]}
      BY <3>1, <3>2, Zenon
    <3> QED  BY <3>1, <3>3 DEF Q
  <2>6. Len(g[n]) <= Len(found) + n
    <3>1. Len(g[n]) \in Nat /\ Len(x) \in Nat /\ Len(found) \in Nat
      BY <2>1, <2>5
    <3> QED  BY <2>1, <2>5, <3>1
  <2> QED  BY <1>1, <2>1, <2>3, <2>5, <2>6
<1>8. Len(lines) \in T
  <2> HIDE DEF T
  <2>1. \A n \in 0..Len(lines) : n \in T
    BY <1>1, <1>6, <1>7, Counting
  <2> QED  BY <1>1, <2>1
<1>9. Elements(lines) = {lines[i] : i \in 1..Len(lines)}
  BY DEF Elements
<1> QED  BY <1>11, <1>8, <1>9

(* A slice of a list.                                                      *)
LEMMA SliceIs ==
  ASSUME NEW A, NEW s \in Seq(A), NEW from \in Nat \ {0}, NEW to \in Nat
  PROVE  LET last == Shorter(to, Len(s))
             b == Slice(s, from, to)
         IN  /\ b \in Seq(A) /\ last \in Nat /\ last <= to /\ last <= Len(s)
             /\ Len(b) = IF from <= last THEN last - from + 1 ELSE 0
             /\ \A i \in 1..Len(b) : b[i] = s[from + i - 1]
             /\ Elements(b) = {s[i] : i \in from..last}
<1> DEFINE last == Shorter(to, Len(s))
           b == SubSeq(s, from, last)
<1>1. last \in Nat /\ last <= to /\ last <= Len(s) /\ Len(s) \in Nat
  BY DEF Shorter
<1>2. /\ b \in Seq(A)
      /\ Len(b) = IF from <= last THEN last - from + 1 ELSE 0
  <2> HIDE DEF last
  <2>1. \A i \in from..last : i \in 1..Len(s) /\ s[i] \in A
    BY <1>1
  <2> QED  BY <1>1, <2>1
<1>3. \A i \in 1..Len(b) : b[i] = s[from + i - 1]
  <2> HIDE DEF last
  <2> QED  BY <1>1
<1>4. Elements(b) = {s[i] : i \in from..last}
  <2> HIDE DEF last, b
  <2>1. DOMAIN b = 1..Len(b)
    BY <1>2
  <2>2. \A i \in 1..Len(b) : from + i - 1 \in from..last
    BY <1>1, <1>2
  <2>3. \A k \in from..last : /\ k - from + 1 \in 1..Len(b)
                              /\ b[k - from + 1] = s[k]
    <3> SUFFICES ASSUME NEW k \in from..last
                 PROVE  /\ k - from + 1 \in 1..Len(b)
                        /\ b[k - from + 1] = s[k]
      OBVIOUS
    <3>1. k - from + 1 \in 1..Len(b) /\ from + (k - from + 1) - 1 = k
      BY <1>1, <1>2
    <3> QED  BY <1>3, <3>1
  <2>4. Elements(b) = {b[i] : i \in 1..Len(b)}
    BY <2>1 DEF Elements
  <2>5. {b[i] : i \in 1..Len(b)} \subseteq {s[i] : i \in from..last}
    BY <1>3, <2>2
  <2>6. {s[i] : i \in from..last} \subseteq {b[i] : i \in 1..Len(b)}
    BY <2>3
  <2> QED  BY <2>4, <2>5, <2>6
<1> HIDE DEF last, b
<1> QED  BY <1>1, <1>2, <1>3, <1>4 DEF Slice, last, b

(* What is asked of the first n indices of the device's list.              *)
Prefix(n) == {asked[i] : i \in {k \in 1..Len(asked) : k <= n /\ k <= Limit}}

(* What a command answers is of its batch.                                 *)
LEMMA AnswersAre ==
  ASSUME NEW batch \in Seq(Objects), NEW lines \in Answers(batch)
  PROVE  /\ lines \in Seq(Objects) /\ Len(lines) <= Len(batch)
         /\ Elements(lines) \subseteq Elements(batch)
<1>1. PICK given \in SUBSET Elements(batch) : lines = Only(batch, given)
  BY DEF Answers
<1> QED  BY <1>1, OnlyKeeps

(* What is read of an answer for an object is its own value or none.       *)
LEMMA ByObjectIs ==
  ASSUME NEW lines, NEW batch
  PROVE  \A o \in Objects : /\ ByObject(lines, batch)[o] \in {o, Nothing}
                            /\ o \in DOMAIN ByObject(lines, batch)
  BY DEF ByObject

-----------------------------------------------------------------------------
(* No command has gone to a device behind a router by the default route.   *)
LEMMA RouteIsFound ==
  ASSUME ~blind
  PROVE  Resolve = "default" => ~Behind
  BY DEF Resolve, Behind, SaidWhere, SaidBehind

(* The stages of each kind of job, and what a job consists of.             *)
LoadStages == {"blocks", "count", "items", "list", "names", "each name"}
StageInv ==
  /\ \/ kind = "none" /\ stage = "idle"
     \/ kind = "read" /\ stage \in {"single", "done"}
     \/ kind = "bulk" /\ stage \in {"batch", "done"}
     \/ kind = "load" /\ (stage \in LoadStages \/ stage = "done")
  /\ status \in {"none", "ok", "partial", "error", "deferred"}
  /\ hasRpm \in BOOLEAN /\ missed \in BOOLEAN /\ next \in Nat \ {0}

Readings == [point : Objects, value : Objects \cup {Nothing}]
ListTypes ==
  /\ asked \in Seq(Objects) /\ allowed \subseteq Objects
  /\ chunk \in Seq(Objects) /\ points \in Seq(Objects)
  /\ values \in Seq(Readings)

(* A job that is not there, or has not been sent, has read nothing.        *)
NewInv ==
  /\ stage \in {"idle", "single"} =>
       next = 1 /\ chunk = <<>> /\ values = <<>> /\ points = <<>> /\ ~missed
  /\ kind = "read" => Len(asked) = 1

JobTypes == StageInv /\ ListTypes /\ NewInv

(* The values read so far, those of the batch that are still to come, and  *)
(* what its answer was read as.                                            *)
BatchInv ==
  stage = "batch" =>
    /\ Len(values) + Len(chunk) = Shorter(next - 1, Len(asked))
    /\ \A i \in 1..Len(chunk) : chunk[i] = asked[Len(values) + i]
    /\ \A i \in 1..Len(values) : /\ values[i].point = asked[i]
                                 /\ values[i].value \in {Nothing, asked[i]}
    /\ chunk # <<>> => \A o \in Objects : parsed[o] \in {o, Nothing}

(* The points found so far are of the indices read so far.                 *)
FoundOf(n) ==
  /\ Elements(points) \subseteq Prefix(n) /\ Len(points) <= Limit
  /\ ~missed => Elements(points) = Prefix(n)
FoundInv ==
  /\ stage = "blocks" => FoundOf(next - 1) /\ Len(points) <= next - 1
                         /\ (~hasRpm => next = 1)
  /\ stage = "count" => points = <<>> /\ ~missed /\ next = 1
  /\ stage = "items" => FoundOf(next - 1) /\ Len(points) <= next - 1
  /\ stage = "list" => FoundOf(Limit)

(* The points that were chosen, and their names.                           *)
NamedInv ==
  stage \in {"names", "each name"} =>
    /\ Elements(points) \subseteq Within
    /\ ~missed => Elements(points) = Within
    /\ DOMAIN names = DOMAIN points
    /\ \A i \in DOMAIN points : names[i] \in {Nothing, points[i]}

ReadsInv ==
  /\ JobTypes /\ BatchInv /\ FoundInv /\ NamedInv
  /\ NeverBlind /\ ReportsAreTrue

USE BacnetReadsAssumption

(* A command that is sent, or is not for want of a route, finds the route  *)
(* of a device that the records have behind a router.                      *)
LEMMA SentKeepsRoute ==
  ASSUME NeverBlind, Succeed \/ Fail
  PROVE  NeverBlind'
  BY RouteIsFound DEF NeverBlind, Succeed, Fail, Sent

(* A change of the records touches no job.                                 *)
LEMMA RestKeeps ==
  ASSUME ReadsInv, ChangeRecords \/ UNCHANGED readVars
  PROVE  ReadsInv'
<1>1. UNCHANGED jobVars /\ NeverBlind'
  BY DEF ChangeRecords, readVars, ReadsInv, NeverBlind
<1> USE <1>1 DEF ReadsInv, jobVars
<1>2. JobTypes'
  BY DEF JobTypes, StageInv, ListTypes, NewInv
<1>3. BatchInv'
  BY DEF BatchInv
<1>4. FoundInv'
  BY DEF FoundInv, FoundOf, Prefix
<1>5. NamedInv' /\ ReportsAreTrue'
  BY DEF NamedInv, Within, ReportsAreTrue, ValuesAreTrue, ListIsTrue
<1> QED  BY <1>2, <1>3, <1>4, <1>5

(* Of a job that has ended, or of none, only the report matters.           *)
LEMMA EndKeeps ==
  ASSUME JobTypes', NeverBlind', ReportsAreTrue', stage' \in {"idle", "done"}
  PROVE  ReadsInv'
<1>1. BatchInv'
  BY DEF BatchInv
<1>2. FoundInv'
  BY DEF FoundInv
<1>3. NamedInv'
  BY DEF NamedInv
<1> QED  BY <1>1, <1>2, <1>3 DEF ReadsInv

(* A job ends in an error, waits for the port, or is not there.            *)
LEMMA ErrorKeeps ==
  ASSUME JobTypes', NeverBlind',
         stage' \in {"idle", "done"}, status' \in {"error", "deferred", "none"}
  PROVE  ReadsInv'
<1>1. ReportsAreTrue'
  BY DEF ReportsAreTrue, ValuesAreTrue, ListIsTrue
<1> QED  BY <1>1, EndKeeps

(* While a job goes on, nothing is reported.                               *)
LEMMA WorkKeeps ==
  ASSUME JobTypes', NeverBlind', stage' # "done",
         BatchInv', FoundInv', NamedInv'
  PROVE  ReadsInv'
  BY DEF ReadsInv, ReportsAreTrue, ValuesAreTrue, ListIsTrue

(* A job that starts has read nothing.                                     *)
LEMMA StartKeeps ==
  ASSUME ReadsInv, StartRead \/ StartBulk \/ StartLoad
  PROVE  ReadsInv'
<1>1. /\ stage = "idle" /\ hasRpm' \in BOOLEAN
      /\ UNCHANGED <<next, chunk, parsed, values, points, names, missed>>
  BY DEF StartRead, StartBulk, StartLoad, Start
<1>2. NeverBlind'
  BY RouteIsFound DEF StartRead, StartBulk, StartLoad, Start, ReadsInv,
                      NeverBlind
<1>3. /\ asked' \in Seq(Objects) /\ allowed' \subseteq Objects
      /\ kind' = "read" => Len(asked') = 1
  <2>1. CASE StartRead
    <3>1. PICK point \in Objects : asked' = <<point>> /\ allowed' = {}
      BY <2>1 DEF StartRead
    <3> QED  BY <3>1
  <2>2. CASE StartBulk
    BY <2>2 DEF StartBulk, Start
  <2>3. CASE StartLoad
    BY <2>3 DEF StartLoad, Start
  <2> QED  BY <2>1, <2>2, <2>3
<1>4. \/ kind' = "read" /\ stage' \in {"single", "done"}
      \/ kind' = "bulk" /\ stage' \in {"batch", "done"}
      \/ kind' = "load" /\ stage' \in {"blocks", "done"}
  BY Zenon DEF StartRead, StartBulk, StartLoad, Start
<1>5. /\ status' \in {"none", "error", "deferred"}
      /\ stage' = "done" => status' \in {"error", "deferred"}
  BY Zenon DEF StartRead, StartBulk, StartLoad, Start
<1>6. /\ next = 1 /\ chunk = <<>> /\ values = <<>> /\ points = <<>> /\ ~missed
      /\ missed \in BOOLEAN
  BY <1>1 DEF ReadsInv, JobTypes, NewInv, StageInv
<1>7. JobTypes'
  <2>1. StageInv'
    <3>1. next' \in Nat \ {0} /\ missed' \in BOOLEAN /\ hasRpm' \in BOOLEAN
      BY <1>1, <1>6
    <3>2. status' \in {"none", "ok", "partial", "error", "deferred"}
      BY <1>5
    <3> QED  BY <1>4, <3>1, <3>2 DEF StageInv, LoadStages
  <2>2. ListTypes'
    BY <1>1, <1>3, <1>6 DEF ListTypes
  <2>3. NewInv'
    BY <1>1, <1>3, <1>6 DEF NewInv
  <2> QED  BY <2>1, <2>2, <2>3 DEF JobTypes
<1>8. CASE stage' = "done"
  BY <1>2, <1>5, <1>7, <1>8, ErrorKeeps
<1>9. CASE stage' # "done"
  <2>1. /\ next' = 1 /\ chunk' = <<>> /\ values' = <<>> /\ points' = <<>>
        /\ ~missed' /\ stage' \in {"single", "batch", "blocks"}
    BY <1>1, <1>4, <1>6, <1>9
  <2>2. Len(asked)' \in Nat /\ Shorter(0, Len(asked)') = 0
    BY <1>3 DEF Shorter
  <2>3. BatchInv'
    BY <2>1, <2>2 DEF BatchInv
  <2>4. Elements(points)' = {} /\ Prefix(0)' = {}
    BY <2>1, <2>2 DEF Elements, Prefix
  <2>5. FoundInv'
    <3>1. Len(points)' = 0 /\ next' - 1 = 0
      BY <2>1
    <3>2. FoundOf(0)'
      BY <2>4, <3>1 DEF FoundOf
    <3> QED  BY <2>1, <3>1, <3>2 DEF FoundInv
  <2>6. NamedInv'
    BY <2>1 DEF NamedInv
  <2> QED  BY <1>2, <1>7, <1>9, <2>3, <2>5, <2>6, WorkKeeps
<1> QED  BY <1>8, <1>9

(* A result that is stored leaves nothing behind for the next job.         *)
LEMMA StoreKeeps ==
  ASSUME ReadsInv, StoreResult
  PROVE  ReadsInv'
<1>1. /\ stage' = "idle" /\ status' = "none" /\ kind' = "none"
      /\ asked' = <<>> /\ allowed' = {} /\ hasRpm' = TRUE /\ next' = 1
      /\ chunk' = <<>> /\ values' = <<>> /\ points' = <<>> /\ missed' = FALSE
      /\ blind' = blind
  BY DEF StoreResult
<1>2. StageInv'
  <2>1. next' \in Nat \ {0}
    BY <1>1
  <2>2. missed' \in BOOLEAN /\ hasRpm' \in BOOLEAN
    BY <1>1, Zenon
  <2> QED  BY <1>1, <2>1, <2>2 DEF StageInv
<1>3. ListTypes'
  BY <1>1 DEF ListTypes
<1>4. NewInv'
  BY <1>1 DEF NewInv
<1> QED  BY <1>1, <1>2, <1>3, <1>4, ErrorKeeps
         DEF ReadsInv, NeverBlind, JobTypes

(* A single read answers for the point it asked.                           *)
LEMMA ReadPointKeeps ==
  ASSUME ReadsInv, ReadPoint
  PROVE  ReadsInv'
<1>1. kind = "read" /\ stage = "single"
  BY DEF ReadPoint, ReadsInv, JobTypes, StageInv, LoadStages
<1>2. /\ asked \in Seq(Objects) /\ Len(asked) = 1 /\ asked[1] \in Objects
      /\ ~missed /\ values \in Seq(Readings) /\ asked[1] # Nothing
  BY <1>1 DEF ReadsInv, JobTypes, NewInv, ListTypes
<1>3. /\ stage' = "done" /\ NeverBlind' /\ status' \in {"error", "ok"}
      /\ UNCHANGED <<kind, asked, allowed, hasRpm, next, chunk, points, missed>>
      /\ status' # "error" =>
           values' = <<[point |-> asked[1], value |-> asked[1]]>>
      /\ status' = "error" => values' = values
  BY DEF ReadPoint, Ends, ReadsInv, NeverBlind
<1>4. JobTypes'
  <2>1. [point |-> asked[1], value |-> asked[1]] \in Readings
    BY <1>2 DEF Readings
  <2>2. values' \in Seq(Readings)
    <3>1. CASE status' = "error"
      BY <1>2, <1>3, <3>1
    <3>2. CASE status' # "error"
      <4>1. values' = <<[point |-> asked[1], value |-> asked[1]]>>
        BY <1>3, <3>2
      <4>2. \A r \in Readings : <<r>> \in Seq(Readings)
        OBVIOUS
      <4> QED  BY <2>1, <4>1, <4>2
    <3> QED  BY <3>1, <3>2
  <2>3. ListTypes'
    BY <1>3, <2>2 DEF ReadsInv, JobTypes, ListTypes
  <2>4. StageInv'
    BY <1>1, <1>3 DEF ReadsInv, JobTypes, StageInv
  <2>5. NewInv'
    BY <1>2, <1>3 DEF NewInv
  <2> QED  BY <2>3, <2>4, <2>5 DEF JobTypes
<1>5. CASE status' = "error"
  BY <1>3, <1>4, <1>5, ErrorKeeps
<1>6. CASE status' # "error"
  <2>1. ValuesAreTrue'
    <3>1. /\ Len(values') = 1 /\ values'[1].point = asked'[1]
          /\ values'[1].value = asked'[1] /\ Len(asked') = 1
          /\ DOMAIN values' = 1..1 /\ DOMAIN asked' = 1..1
      BY <1>2, <1>3, <1>6
    <3> QED  BY <1>2, <1>3, <1>6, <3>1 DEF ValuesAreTrue
  <2>2. ListIsTrue'
    BY <1>1, <1>3 DEF ListIsTrue
  <2> QED  BY <1>3, <1>4, <2>1, <2>2, EndKeeps DEF ReportsAreTrue
<1> QED  BY <1>5, <1>6

(* The kind of job that is at a stage.                                     *)
LEMMA KindOf ==
  ASSUME ReadsInv
  PROVE  /\ JobTypes /\ StageInv /\ ListTypes /\ NewInv /\ NeverBlind
         /\ stage = "batch" => kind = "bulk"
         /\ stage \in LoadStages => kind = "load"
         /\ Len(asked) \in Nat /\ DOMAIN asked = 1..Len(asked)
         /\ Len(points) \in Nat /\ DOMAIN points = 1..Len(points)
         /\ Len(values) \in Nat /\ DOMAIN values = 1..Len(values)
<1>1. JobTypes /\ StageInv /\ ListTypes /\ NewInv /\ NeverBlind
  BY DEF ReadsInv, JobTypes
<1>2. /\ stage = "batch" => kind = "bulk"
      /\ stage \in LoadStages => kind = "load"
  BY <1>1 DEF StageInv, LoadStages
<1>3. /\ Len(asked) \in Nat /\ DOMAIN asked = 1..Len(asked)
      /\ Len(points) \in Nat /\ DOMAIN points = 1..Len(points)
      /\ Len(values) \in Nat /\ DOMAIN values = 1..Len(values)
  BY <1>1 DEF ListTypes
<1> QED  BY <1>1, <1>2, <1>3

(* A step of a job that goes on keeps what the job consists of.            *)
LEMMA TypesKeep ==
  ASSUME ReadsInv, UNCHANGED <<kind, asked, allowed, hasRpm>>,
         \/ stage = "batch" /\ stage' \in {"batch", "done"}
         \/ stage \in LoadStages /\ stage' \in LoadStages \cup {"done"},
         status' \in {"none", "ok", "partial", "error", "deferred"},
         next' \in Nat \ {0}, missed' \in BOOLEAN,
         chunk' \in Seq(Objects), points' \in Seq(Objects),
         values' \in Seq(Readings)
  PROVE  JobTypes'
<1>1. /\ JobTypes /\ StageInv /\ ListTypes
      /\ stage = "batch" => kind = "bulk"
      /\ stage \in LoadStages => kind = "load"
  BY KindOf
<1>2. StageInv'
  <2>1. \/ kind' = "bulk" /\ stage' \in {"batch", "done"}
        \/ kind' = "load" /\ (stage' \in LoadStages \/ stage' = "done")
    BY <1>1
  <2> QED  BY <1>1, <2>1 DEF StageInv
<1>3. ListTypes'
  BY <1>1 DEF ListTypes
<1>4. NewInv'
  BY <1>1 DEF NewInv, LoadStages
<1> QED  BY <1>2, <1>3, <1>4 DEF JobTypes

(* A batch starts where the values end.                                    *)
LEMMA ReadBatchKeeps ==
  ASSUME ReadsInv, ReadBatch
  PROVE  ReadsInv'
<1> DEFINE batch == Slice(asked, next, next + BatchSize - 1)
           last == Shorter(next + BatchSize - 1, Len(asked))
<1>1. /\ stage = "batch" /\ chunk = <<>> /\ batch # <<>> /\ chunk' = batch
      /\ next' = next + BatchSize
      /\ UNCHANGED <<kind, stage, status, asked, allowed, hasRpm, values,
                     points>>
  BY DEF ReadBatch
<1>2. /\ NeverBlind'
      /\ (\E lines : parsed' = ByObject(lines, batch))
  BY KindOf, SentKeepsRoute DEF ReadBatch
<1>3. missed' \in BOOLEAN
  BY KindOf DEF StageInv, ReadBatch
<1>4. /\ ListTypes /\ StageInv /\ Len(asked) \in Nat /\ Len(values) \in Nat
      /\ asked \in Seq(Objects) /\ next \in Nat \ {0}
      /\ next + BatchSize - 1 \in Nat
  BY KindOf DEF ListTypes, StageInv
<1>5. /\ batch \in Seq(Objects) /\ last \in Nat
      /\ Len(batch) = IF next <= last THEN last - next + 1 ELSE 0
      /\ \A i \in 1..Len(batch) : batch[i] = asked[next + i - 1]
  <2> DEFINE to == next + BatchSize - 1
  <2>1. asked \in Seq(Objects) /\ next \in Nat \ {0} /\ to \in Nat
    BY <1>4
  <2> HIDE DEF to
  <2>2. LET l == Shorter(to, Len(asked))
            b == Slice(asked, next, to)
        IN  /\ b \in Seq(Objects) /\ l \in Nat
            /\ Len(b) = IF next <= l THEN l - next + 1 ELSE 0
            /\ \A i \in 1..Len(b) : b[i] = asked[next + i - 1]
    BY <2>1, SliceIs
  <2> QED  BY <2>2 DEF to
<1>6. /\ Len(values) + Len(chunk) = Shorter(next - 1, Len(asked))
      /\ \A i \in 1..Len(values) : /\ values[i].point = asked[i]
                                   /\ values[i].value \in {Nothing, asked[i]}
  BY <1>1 DEF ReadsInv, BatchInv
<1> HIDE DEF batch
<1>7. next <= last /\ Len(batch) = last - next + 1
  BY <1>1, <1>5
<1>8. Len(values) = next - 1
  <2>1. Len(chunk) = 0
    BY <1>1
  <2>2. next - 1 < Len(asked)
    BY <1>4, <1>7 DEF Shorter
  <2> QED  BY <1>4, <1>6, <2>1, <2>2 DEF Shorter
<1>9. BatchInv'
  <2>1. Len(values') + Len(chunk') = Shorter(next' - 1, Len(asked'))
    <3>1. Len(values') + Len(chunk') = last /\ next' - 1 = next + BatchSize - 1
      BY <1>1, <1>4, <1>5, <1>7, <1>8
    <3> QED  BY <1>1, <3>1
  <2>2. \A i \in 1..Len(chunk') : chunk'[i] = asked'[Len(values') + i]
    <3>1. \A i \in 1..Len(batch) : next + i - 1 = Len(values) + i
      BY <1>4, <1>7, <1>8
    <3> QED  BY <1>1, <1>5, <3>1
  <2>3. \A o \in Objects : parsed'[o] \in {o, Nothing}
    BY <1>2, ByObjectIs
  <2> QED  BY <1>1, <1>6, <2>1, <2>2, <2>3 DEF BatchInv
<1>10. JobTypes'
  <2>1. next' \in Nat \ {0}
    BY <1>1, <1>4
  <2> QED  BY <1>1, <1>3, <1>4, <1>5, <2>1, TypesKeep DEF ListTypes, StageInv
<1>11. FoundInv' /\ NamedInv'
  BY <1>1 DEF FoundInv, NamedInv
<1> QED  BY <1>1, <1>2, <1>9, <1>10, <1>11, WorkKeeps

(* The next value is that of the next point asked.                         *)
LEMMA ReadValueKeeps ==
  ASSUME ReadsInv, ReadValue
  PROVE  ReadsInv'
<1>1. /\ stage = "batch" /\ chunk # <<>> /\ chunk' = Tail(chunk)
      /\ UNCHANGED <<kind, stage, status, asked, allowed, hasRpm, next, parsed,
                     points, missed>>
  BY DEF ReadValue
<1>2. PICK value \in {parsed[Head(chunk)], Head(chunk), Nothing} :
        /\ values' = Append(values, [point |-> Head(chunk), value |-> value])
        /\ (UNCHANGED blind \/ Succeed \/ Fail)
  BY DEF ReadValue
<1>3. NeverBlind'
  BY <1>2, KindOf, SentKeepsRoute DEF NeverBlind
<1>4. /\ ListTypes /\ StageInv /\ Len(asked) \in Nat /\ Len(values) \in Nat
      /\ asked \in Seq(Objects) /\ next \in Nat \ {0}
      /\ chunk \in Seq(Objects) /\ values \in Seq(Readings)
  BY KindOf DEF ListTypes, StageInv
<1>5. /\ Len(values) + Len(chunk) = Shorter(next - 1, Len(asked))
      /\ \A i \in 1..Len(chunk) : chunk[i] = asked[Len(values) + i]
      /\ \A i \in 1..Len(values) : /\ values[i].point = asked[i]
                                   /\ values[i].value \in {Nothing, asked[i]}
      /\ \A o \in Objects : parsed[o] \in {o, Nothing}
  BY <1>1 DEF ReadsInv, BatchInv
<1> DEFINE o == Head(chunk)  n == Len(values)
           new == [point |-> o, value |-> value]
<1>6. /\ o \in Objects /\ Tail(chunk) \in Seq(Objects)
      /\ Len(chunk) \in Nat \ {0} /\ Len(Tail(chunk)) = Len(chunk) - 1
      /\ \A i \in 1..Len(Tail(chunk)) : Tail(chunk)[i] = chunk[i + 1]
      /\ o = chunk[1]
  BY <1>1, <1>4
<1>7. o = asked[n + 1] /\ value \in {o, Nothing}
  BY <1>2, <1>5, <1>6
<1>8. new \in Readings /\ new.point = o /\ new.value = value
  BY <1>6, <1>7 DEF Readings
<1> HIDE DEF o, n, new
<1>9. /\ values' \in Seq(Readings) /\ Len(values') = n + 1 /\ n \in Nat
      /\ \A i \in 1..n : values'[i] = values[i]
      /\ values'[n + 1] = new
  BY <1>2, <1>4, <1>8 DEF n, o, new
<1>10. BatchInv'
  <2>1. Len(values') + Len(chunk') = Shorter(next' - 1, Len(asked'))
    BY <1>1, <1>4, <1>5, <1>6, <1>9 DEF n
  <2>2. \A i \in 1..Len(chunk') : chunk'[i] = asked'[Len(values') + i]
    <3> SUFFICES ASSUME NEW i \in 1..Len(chunk')
                 PROVE  chunk'[i] = asked'[Len(values') + i]
      OBVIOUS
    <3>1. i + 1 \in 1..Len(chunk) /\ chunk'[i] = chunk[i + 1]
      BY <1>1, <1>6
    <3>2. n + (i + 1) = (n + 1) + i
      BY <1>9
    <3> QED  BY <1>1, <1>5, <1>9, <3>1, <3>2 DEF n
  <2>3. ASSUME NEW i \in 1..Len(values')
        PROVE  /\ values'[i].point = asked'[i]
               /\ values'[i].value \in {Nothing, asked'[i]}
    <3>1. CASE i \in 1..n
      BY <1>1, <1>5, <1>9, <3>1 DEF n
    <3>2. CASE i = n + 1
      BY <1>1, <1>7, <1>8, <1>9, <3>2
    <3> QED  BY <1>9, <3>1, <3>2
  <2> QED  BY <1>1, <1>5, <2>1, <2>2, <2>3 DEF BatchInv
<1>11. JobTypes'
  BY <1>1, <1>4, <1>6, <1>9, TypesKeep DEF ListTypes, StageInv
<1>12. FoundInv' /\ NamedInv'
  BY <1>1 DEF FoundInv, NamedInv
<1> QED  BY <1>1, <1>3, <1>10, <1>11, <1>12, WorkKeeps

(* When the batches are done, every point asked has its value.             *)
LEMMA FinishBulkKeeps ==
  ASSUME ReadsInv, FinishBulk
  PROVE  ReadsInv'
<1>1. /\ stage = "batch" /\ chunk = <<>> /\ next > Len(asked)
      /\ stage' = "done"
      /\ status' = IF \A i \in DOMAIN values : values[i].value = Nothing
                   THEN "error" ELSE IF missed THEN "partial" ELSE "ok"
      /\ UNCHANGED <<kind, asked, allowed, hasRpm, next, chunk, values, points,
                     missed, blind>>
  BY DEF FinishBulk, Ends
<1>2. /\ ListTypes /\ StageInv /\ Len(asked) \in Nat /\ Len(values) \in Nat
      /\ NeverBlind /\ kind = "bulk" /\ next \in Nat \ {0}
      /\ DOMAIN asked = 1..Len(asked) /\ DOMAIN values = 1..Len(values)
      /\ missed \in BOOLEAN
  BY <1>1, KindOf DEF StageInv
<1>3. /\ Len(values) = Len(asked)
      /\ \A i \in 1..Len(values) : /\ values[i].point = asked[i]
                                   /\ values[i].value \in {Nothing, asked[i]}
  <2>1. Len(chunk) = 0 /\ Shorter(next - 1, Len(asked)) = Len(asked)
    BY <1>1, <1>2 DEF Shorter
  <2> QED  BY <1>1, <1>2, <2>1 DEF ReadsInv, BatchInv
<1>4. ValuesAreTrue'
  BY <1>1, <1>2, <1>3 DEF ValuesAreTrue
<1>5. ListIsTrue' /\ NeverBlind'
  BY <1>1, <1>2 DEF ListIsTrue, NeverBlind
<1>6. JobTypes'
  BY <1>1, <1>2, TypesKeep DEF ListTypes
<1> QED  BY <1>1, <1>4, <1>5, <1>6, EndKeeps DEF ReportsAreTrue

-----------------------------------------------------------------------------
(* The loading of the device's points.                                     *)
LEMMA PrefixIs ==
  ASSUME asked \in Seq(Objects), NEW n \in Nat, NEW m \in Nat, n <= m
  PROVE  /\ Prefix(n) \subseteq Prefix(m)
         /\ \A last \in Nat :
              (last = Shorter(m, Shorter(Limit, Len(asked)))) =>
                Prefix(m) = Prefix(n) \cup {asked[i] : i \in (n + 1)..last}
<1>1. Len(asked) \in Nat
  OBVIOUS
<1>2. Prefix(n) \subseteq Prefix(m)
  BY <1>1 DEF Prefix
<1>3. ASSUME NEW last \in Nat, last = Shorter(m, Shorter(Limit, Len(asked)))
      PROVE  Prefix(m) = Prefix(n) \cup {asked[i] : i \in (n + 1)..last}
  <2>1. last <= m /\ last <= Limit /\ last <= Len(asked)
    BY <1>1, <1>3 DEF Shorter
  <2>2. \A i \in 1..Len(asked) : i <= m /\ i <= Limit => i <= last
    BY <1>1, <1>3 DEF Shorter
  <2>3. {k \in 1..Len(asked) : k <= m /\ k <= Limit} =
          {k \in 1..Len(asked) : k <= n /\ k <= Limit} \cup ((n + 1)..last)
    BY <1>1, <2>1, <2>2
  <2> QED  BY <2>3 DEF Prefix
<1> QED  BY <1>2, <1>3

(* Points of the device's list: only the given ones may be wanted.         *)
LEMMA WithinIs ==
  ASSUME asked \in Seq(Objects)
  PROVE  Within = Prefix(Limit) \cap allowed
<1>1. Elements(Slice(asked, 1, Limit)) =
        {asked[i] : i \in 1..Shorter(Limit, Len(asked))}
  <2>1. Limit \in Nat /\ 1 \in Nat \ {0}
    OBVIOUS
  <2>2. LET l == Shorter(Limit, Len(asked))
            b == Slice(asked, 1, Limit)
        IN  Elements(b) = {asked[i] : i \in 1..l}
    BY <2>1, SliceIs
  <2> QED  BY <2>2
<1>2. Len(asked) \in Nat
  OBVIOUS
<1>3. 1..Shorter(Limit, Len(asked)) =
        {k \in 1..Len(asked) : k <= Limit /\ k <= Limit}
  BY <1>2 DEF Shorter
<1> QED  BY <1>1, <1>3 DEF Within, Prefix

(* A block of indices is added to the points found before it.              *)
LEMMA ReadBlockKeeps ==
  ASSUME ReadsInv, ReadBlock
  PROVE  ReadsInv'
<1>1. /\ stage = "blocks" /\ hasRpm /\ next <= Limit
      /\ next' = next + BlockSize
      /\ UNCHANGED <<kind, stage, status, asked, allowed, hasRpm, chunk,
                     values>>
  BY DEF ReadBlock
<1>2. NeverBlind'
  BY KindOf, SentKeepsRoute DEF ReadBlock
<1>3. /\ ListTypes /\ StageInv /\ Len(asked) \in Nat /\ Len(points) \in Nat
      /\ asked \in Seq(Objects) /\ points \in Seq(Objects)
      /\ next \in Nat \ {0} /\ missed \in BOOLEAN
  BY KindOf DEF ListTypes, StageInv
<1>4. FoundOf(next - 1) /\ Len(points) <= next - 1
  BY <1>1 DEF ReadsInv, FoundInv
<1>5. /\ next - 1 \in Nat /\ next' - 1 \in Nat /\ next - 1 <= next' - 1
      /\ next' \in Nat \ {0} /\ next' - 1 = next + BlockSize - 1
  BY <1>1, <1>3
<1>6. Prefix(next - 1) \subseteq Prefix(next' - 1)
  BY <1>3, <1>5, PrefixIs
<1>7. /\ missed' \in BOOLEAN /\ points' \in Seq(Objects)
      /\ Len(points') <= next' - 1 /\ Len(points') <= Limit
      /\ Elements(points') \subseteq Prefix(next' - 1)
      /\ ~missed' => Elements(points') = Prefix(next' - 1)
  <2>1. CASE Fail /\ missed' = TRUE /\ UNCHANGED points
    BY <1>1, <1>3, <1>4, <1>5, <1>6, <2>1 DEF FoundOf
  <2>2. CASE ~(Fail /\ missed' = TRUE /\ UNCHANGED points)
    <3> DEFINE to == Shorter(Limit, next + BlockSize - 1)
               block == Slice(asked, next, to)
               last == Shorter(to, Len(asked))
    <3>1. PICK lines \in Answers(block) :
            /\ points' = Added(points, lines)
            /\ missed' = (missed \/ lines # block)
      BY <2>2 DEF ReadBlock
    <3>2. /\ to \in Nat /\ to <= Limit /\ to <= next' - 1 /\ next <= to
          /\ last \in Nat
          /\ last = Shorter(next' - 1, Shorter(Limit, Len(asked)))
      BY <1>1, <1>3, <1>5 DEF Shorter
    <3> HIDE DEF to
    <3>3. /\ block \in Seq(Objects) /\ last <= to
          /\ Len(block) = IF next <= last THEN last - next + 1 ELSE 0
          /\ Elements(block) = {asked[i] : i \in next..last}
      <4>1. asked \in Seq(Objects) /\ next \in Nat \ {0} /\ to \in Nat
        BY <1>3, <3>2
      <4> QED  BY <4>1, SliceIs
    <3> HIDE DEF block, last
    <3>4. /\ lines \in Seq(Objects) /\ Len(lines) <= Len(block)
          /\ Elements(lines) \subseteq Elements(block)
      BY <3>3, AnswersAre
    <3>5. /\ points' \in Seq(Objects)
          /\ Len(points') <= Len(points) + Len(lines)
          /\ Elements(points') = Elements(points) \cup Elements(lines)
      BY <1>3, <3>1, <3>4, AddedAdds
    <3>6. Len(points') <= to
      <4>1. /\ Len(lines) \in Nat /\ Len(points') \in Nat
            /\ Len(block) <= to - next + 1 /\ Len(block) \in Nat
        BY <1>3, <3>2, <3>3, <3>4, <3>5
      <4> QED  BY <1>3, <1>4, <3>2, <3>4, <3>5, <4>1
    <3>7. Prefix(next' - 1) = Prefix(next - 1) \cup Elements(block)
      <4> DEFINE n == next - 1  m == next' - 1
      <4>1. n \in Nat /\ m \in Nat /\ n <= m
        BY <1>5
      <4>4. n + 1 = next
        BY <1>3
      <4>3. last = Shorter(m, Shorter(Limit, Len(asked)))
        BY <3>2
      <4> HIDE DEF n, m
      <4>2. Prefix(m) = Prefix(n) \cup {asked[i] : i \in (n + 1)..last}
        BY <1>3, <3>2, <4>1, <4>3, PrefixIs
      <4> QED  BY <3>3, <4>4, <4>2 DEF n, m
    <3>8. missed' \in BOOLEAN /\ (~missed' => ~missed /\ lines = block)
      BY <1>3, <3>1, Zenon
    <3>9. Len(points') <= next' - 1 /\ Len(points') <= Limit
      <4>1. Len(points') \in Nat
        BY <3>5
      <4>2. \A a, b, c \in Nat : a <= b /\ b <= c => a <= c
        OBVIOUS
      <4>3. Limit \in Nat
        OBVIOUS
      <4> QED  BY ONLY <1>5, <3>2, <3>6, <4>1, <4>2, <4>3
    <3> QED  BY <1>4, <3>4, <3>5, <3>7, <3>8, <3>9 DEF FoundOf
  <2> QED  BY <2>1, <2>2
<1>8. FoundInv'
  <2>1. FoundOf(next - 1)'
    BY <1>1, <1>7 DEF FoundOf, Prefix
  <2> QED  BY <1>1, <1>7, <2>1 DEF FoundInv
<1>9. JobTypes'
  BY <1>1, <1>3, <1>5, <1>7, TypesKeep DEF ListTypes, StageInv, LoadStages
<1>10. BatchInv' /\ NamedInv'
  BY <1>1 DEF BatchInv, NamedInv
<1> QED  BY <1>1, <1>2, <1>8, <1>9, <1>10, WorkKeeps

(* The blocks end behind the limit, or have found nothing.                 *)
LEMMA EndBlocksKeeps ==
  ASSUME ReadsInv, EndBlocks
  PROVE  ReadsInv'
<1>1. /\ stage = "blocks" /\ (~hasRpm \/ next > Limit) /\ next' = 1
      /\ stage' = IF points = <<>> THEN "count" ELSE "list"
      /\ missed' = (missed /\ points # <<>>)
      /\ UNCHANGED <<kind, status, asked, allowed, hasRpm, chunk, values,
                     points, blind>>
  BY DEF EndBlocks
<1>2. /\ ListTypes /\ StageInv /\ NeverBlind /\ Len(points) \in Nat
      /\ asked \in Seq(Objects) /\ points \in Seq(Objects)
      /\ next \in Nat \ {0} /\ missed \in BOOLEAN
  BY KindOf DEF ListTypes, StageInv
<1>3. /\ FoundOf(next - 1) /\ Len(points) <= next - 1
      /\ ~hasRpm => next = 1
  BY <1>1 DEF ReadsInv, FoundInv
<1>4. missed' \in BOOLEAN /\ (points = <<>> => ~missed') /\ (missed' => missed)
      /\ (points # <<>> => missed' = missed)
  BY <1>1, <1>2, Zenon
<1>5. next' \in Nat \ {0}
  BY <1>1
<1>6. JobTypes'
  BY <1>1, <1>2, <1>4, <1>5, TypesKeep DEF ListTypes, StageInv, LoadStages
<1>7. FoundInv'
  <2>1. CASE points = <<>>
    BY <1>1, <1>4, <2>1 DEF FoundInv
  <2>2. CASE points # <<>>
    <3>1. next > Limit
      BY <1>1, <1>2, <1>3, <2>2
    <3>2. Prefix(next - 1) = Prefix(Limit)
      BY <1>2, <3>1 DEF Prefix
    <3>3. FoundOf(Limit)'
      BY <1>1, <1>3, <1>4, <2>2, <3>2 DEF FoundOf, Prefix
    <3> QED  BY <1>1, <2>2, <3>3 DEF FoundInv
  <2> QED  BY <2>1, <2>2
<1>8. NeverBlind' /\ BatchInv' /\ NamedInv' /\ stage' # "done"
  BY <1>1, <1>2 DEF BatchInv, NamedInv, NeverBlind
<1> QED  BY <1>6, <1>7, <1>8, WorkKeeps

(* Reading by index starts from nothing.                                   *)
LEMMA ReadCountKeeps ==
  ASSUME ReadsInv, ReadCount
  PROVE  ReadsInv'
<1>1. /\ stage = "count" /\ (Succeed \/ Fail)
      /\ UNCHANGED <<kind, asked, allowed, hasRpm, next, chunk, values, points,
                     missed>>
      /\ \/ stage' = "done" /\ status' = "error"
         \/ stage' = "items" /\ status' = status
  BY DEF ReadCount, Ends
<1>2. ListTypes /\ StageInv /\ NeverBlind'
  BY <1>1, KindOf, SentKeepsRoute
<1>3. /\ points = <<>> /\ ~missed /\ next = 1 /\ asked \in Seq(Objects)
  BY <1>1, <1>2 DEF ReadsInv, FoundInv, ListTypes
<1>4. JobTypes'
  BY <1>1, <1>2, TypesKeep DEF ListTypes, StageInv, LoadStages
<1>5. CASE stage' = "done"
  BY <1>1, <1>2, <1>4, <1>5, ErrorKeeps
<1>6. CASE stage' # "done"
  <2>1. stage' = "items"
    BY <1>1, <1>6
  <2>2. /\ Elements(points') = {} /\ Len(points') = 0 /\ next' - 1 = 0
        /\ ~missed'
    BY <1>1, <1>3 DEF Elements
  <2>3. Prefix(0)' = {}
    BY <1>1, <1>3 DEF Prefix
  <2>4. FoundOf(0)'
    BY <2>2, <2>3 DEF FoundOf
  <2>5. FoundInv'
    BY <2>1, <2>2, <2>4 DEF FoundInv
  <2>6. BatchInv' /\ NamedInv'
    BY <2>1 DEF BatchInv, NamedInv
  <2> QED  BY <1>2, <1>4, <2>1, <2>5, <2>6, WorkKeeps
<1> QED  BY <1>5, <1>6

(* Elements of two lists in a row.                                         *)
LEMMA ConcatElements ==
  ASSUME NEW A, NEW s \in Seq(A), NEW t \in Seq(A)
  PROVE  /\ s \o t \in Seq(A) /\ Len(s \o t) = Len(s) + Len(t)
         /\ Elements(s \o t) = Elements(s) \cup Elements(t)
<1>1. /\ s \o t \in Seq(A) /\ Len(s \o t) = Len(s) + Len(t)
      /\ Len(s) \in Nat /\ Len(t) \in Nat
      /\ DOMAIN s = 1..Len(s) /\ DOMAIN t = 1..Len(t)
      /\ DOMAIN (s \o t) = 1..(Len(s) + Len(t))
  OBVIOUS
<1>2. /\ \A i \in 1..Len(s) : (s \o t)[i] = s[i]
      /\ \A i \in 1..Len(t) : (s \o t)[Len(s) + i] = t[i]
  OBVIOUS
<1> DEFINE u == s \o t
<1> HIDE DEF u
<1>3. Elements(u) \subseteq Elements(s) \cup Elements(t)
  <2> SUFFICES ASSUME NEW i \in 1..(Len(s) + Len(t))
               PROVE  u[i] \in Elements(s) \cup Elements(t)
    BY <1>1 DEF Elements, u
  <2>1. CASE i <= Len(s)
    <3>1. i \in 1..Len(s)
      BY <1>1, <2>1
    <3> QED  BY <1>1, <1>2, <3>1 DEF Elements, u
  <2>2. CASE ~(i <= Len(s))
    <3>1. i - Len(s) \in 1..Len(t) /\ Len(s) + (i - Len(s)) = i
      BY <1>1, <2>2
    <3>2. u[i] = t[i - Len(s)]
      BY <1>2, <3>1 DEF u
    <3> QED  BY <1>1, <3>1, <3>2 DEF Elements
  <2> QED  BY <2>1, <2>2
<1>4. Elements(s) \subseteq Elements(u) /\ Elements(t) \subseteq Elements(u)
  <2>1. \A i \in 1..Len(s) : i \in 1..(Len(s) + Len(t)) /\ u[i] = s[i]
    BY <1>1, <1>2 DEF u
  <2>2. \A i \in 1..Len(t) : /\ Len(s) + i \in 1..(Len(s) + Len(t))
                             /\ u[Len(s) + i] = t[i]
    BY <1>1, <1>2 DEF u
  <2>3. DOMAIN u = 1..(Len(s) + Len(t))
    BY <1>1 DEF u
  <2> QED  BY <1>1, <2>1, <2>2, <2>3 DEF Elements
<1> QED  BY <1>1, <1>3, <1>4 DEF u

(* One more index is read.                                                 *)
LEMMA ReadItemKeeps ==
  ASSUME ReadsInv, ReadItem
  PROVE  ReadsInv'
<1>1. /\ stage = "items" /\ next <= Shorter(Len(asked), Limit)
      /\ (Succeed \/ Fail)
      /\ UNCHANGED <<kind, asked, allowed, hasRpm, chunk, values>>
  BY DEF ReadItem
<1>2. /\ ListTypes /\ StageInv /\ NeverBlind' /\ Len(asked) \in Nat
      /\ asked \in Seq(Objects) /\ points \in Seq(Objects)
      /\ next \in Nat \ {0} /\ missed \in BOOLEAN /\ Len(points) \in Nat
  BY <1>1, KindOf, SentKeepsRoute DEF ListTypes, StageInv
<1>3. FoundOf(next - 1) /\ Len(points) <= next - 1
  BY <1>1 DEF ReadsInv, FoundInv
<1>4. CASE stage' = "done" /\ status' = "error"
           /\ UNCHANGED <<points, next, missed>>
  <2>1. JobTypes'
    BY <1>1, <1>2, <1>4, TypesKeep DEF ListTypes, StageInv, LoadStages
  <2> QED  BY <1>2, <1>4, <2>1, ErrorKeeps
<1>5. CASE ~(stage' = "done" /\ status' = "error"
             /\ UNCHANGED <<points, next, missed>>)
  <2>1. /\ UNCHANGED <<stage, status>> /\ next' = next + 1
        /\ \E lines \in Answers(<<asked[next]>>) :
             /\ points' = points \o lines
             /\ missed' = (missed \/ lines = <<>>)
    BY <1>5 DEF ReadItem, Ends
  <2> DEFINE item == asked[next]
  <2>2. PICK lines \in Answers(<<item>>) :
          /\ points' = points \o lines
          /\ missed' = (missed \/ lines = <<>>)
    BY <2>1
  <2>3. /\ next <= Len(asked) /\ next <= Limit /\ item \in Objects
        /\ <<item>> \in Seq(Objects)
    BY <1>1, <1>2 DEF Shorter
  <2>4. Elements(<<item>>) = {item} /\ Len(<<item>>) = 1
    <3>1. /\ DOMAIN <<item>> = 1..1 /\ <<item>>[1] = item /\ Len(<<item>>) = 1
          /\ \A i \in 1..1 : i = 1
      OBVIOUS
    <3> QED  BY <3>1 DEF Elements
  <2> DEFINE batch == <<item>>
  <2> HIDE DEF item, batch
  <2>5. /\ lines \in Seq(Objects) /\ Len(lines) <= 1 /\ Len(lines) \in Nat
        /\ Elements(lines) \subseteq {item}
    <3>1. /\ batch \in Seq(Objects) /\ lines \in Answers(batch)
          /\ Elements(batch) = {item} /\ Len(batch) = 1
      BY <2>2, <2>3, <2>4 DEF batch
    <3>2. /\ lines \in Seq(Objects) /\ Len(lines) <= Len(batch)
          /\ Elements(lines) \subseteq Elements(batch)
      BY <3>1, AnswersAre
    <3> QED  BY <3>1, <3>2
  <2>6. lines # <<>> => Elements(lines) = {item}
    <3>1. lines # <<>> => 1 \in DOMAIN lines
      BY <2>5
    <3>2. 1 \in DOMAIN lines => lines[1] \in Elements(lines)
      BY DEF Elements
    <3> QED  BY <2>5, <3>1, <3>2
  <2>7. /\ points' \in Seq(Objects) /\ Len(points') = Len(points) + Len(lines)
        /\ Elements(points') = Elements(points) \cup Elements(lines)
    BY <1>2, <2>2, <2>5, ConcatElements
  <2>8. /\ missed' \in BOOLEAN
        /\ ~missed' => ~missed /\ lines # <<>>
    BY <1>2, <2>2, Zenon
  <2>9. Prefix(next) = Prefix(next - 1) \cup {item}
    <3> DEFINE n == next - 1
    <3>1. n \in Nat /\ n <= next /\ next \in Nat /\ n + 1 = next
      BY <1>2
    <3>2. next = Shorter(next, Shorter(Limit, Len(asked)))
      BY <1>2, <2>3 DEF Shorter
    <3> HIDE DEF n
    <3>3. Prefix(next) = Prefix(n) \cup {asked[i] : i \in (n + 1)..next}
      BY <1>2, <3>1, <3>2, PrefixIs
    <3>4. (n + 1)..next = {next}
      BY <3>1
    <3> QED  BY <3>3, <3>4 DEF n, item
  <2>10. /\ Len(points') <= next' - 1 /\ Len(points') <= Limit
         /\ next' \in Nat \ {0} /\ next' - 1 = next
    BY <1>2, <1>3, <2>1, <2>3, <2>5, <2>7
  <2>11. FoundOf(next - 1)'
    <3>1. Prefix(next - 1)' = Prefix(next)
      BY <1>1, <2>10 DEF Prefix
    <3>2. /\ Elements(points') \subseteq Prefix(next)
          /\ ~missed' => Elements(points') = Prefix(next)
      BY <1>3, <2>5, <2>6, <2>7, <2>8, <2>9 DEF FoundOf
    <3> QED  BY <2>10, <3>1, <3>2 DEF FoundOf
  <2>12. FoundInv'
    BY <1>1, <2>1, <2>10, <2>11 DEF FoundInv
  <2>13. JobTypes'
    BY <1>1, <1>2, <2>1, <2>7, <2>8, <2>10, TypesKeep
       DEF ListTypes, StageInv, LoadStages
  <2>14. BatchInv' /\ NamedInv'
    BY <1>1, <2>1 DEF BatchInv, NamedInv
  <2> QED  BY <1>1, <1>2, <2>1, <2>12, <2>13, <2>14, WorkKeeps
<1> QED  BY <1>4, <1>5

(* The indices end at the end of the list, or at the limit.                *)
LEMMA EndItemsKeeps ==
  ASSUME ReadsInv, EndItems
  PROVE  ReadsInv'
<1>1. /\ stage = "items" /\ next > Shorter(Len(asked), Limit)
      /\ stage' = "list" /\ next' = 1
      /\ UNCHANGED <<kind, status, asked, allowed, hasRpm, chunk, values,
                     points, missed, blind>>
  BY DEF EndItems
<1>2. /\ ListTypes /\ StageInv /\ NeverBlind /\ Len(asked) \in Nat
      /\ asked \in Seq(Objects) /\ points \in Seq(Objects)
      /\ next \in Nat \ {0} /\ next' \in Nat \ {0} /\ missed \in BOOLEAN
  BY <1>1, KindOf DEF ListTypes, StageInv
<1>3. FoundOf(next - 1)
  BY <1>1 DEF ReadsInv, FoundInv
<1>4. Prefix(next - 1) = Prefix(Limit)
  <2>1. \A k \in 1..Len(asked) : k <= Limit => k <= next - 1
    BY <1>1, <1>2 DEF Shorter
  <2> QED  BY <1>2, <2>1 DEF Prefix
<1>5. FoundInv'
  <2>1. FoundOf(Limit)'
    BY <1>1, <1>3, <1>4 DEF FoundOf, Prefix
  <2> QED  BY <1>1, <2>1 DEF FoundInv
<1>6. JobTypes'
  BY <1>1, <1>2, TypesKeep DEF ListTypes, StageInv, LoadStages
<1>7. NeverBlind' /\ BatchInv' /\ NamedInv' /\ stage' # "done"
  BY <1>1, <1>2 DEF BatchInv, NamedInv, NeverBlind
<1> QED  BY <1>5, <1>6, <1>7, WorkKeeps

(* Choosing the types cuts nothing off: no more than Limit were found.     *)
LEMMA ChooseTypesKeeps ==
  ASSUME ReadsInv, ChooseTypes
  PROVE  ReadsInv'
<1>1. /\ stage = "list" /\ points' = Chosen
      /\ names' = [i \in DOMAIN points' |-> Nothing]
      /\ \/ stage' \in {"names", "each name"} /\ status' = status
         \/ stage' = "done" /\ status' = "ok"
      /\ UNCHANGED <<kind, asked, allowed, hasRpm, next, chunk, values, missed,
                     blind>>
  BY DEF ChooseTypes, Ends
<1>2. /\ ListTypes /\ StageInv /\ NeverBlind /\ kind = "load"
      /\ asked \in Seq(Objects) /\ points \in Seq(Objects)
      /\ missed \in BOOLEAN
  BY <1>1, KindOf DEF ListTypes, StageInv, LoadStages
<1>3. /\ Elements(points) \subseteq Prefix(Limit) /\ Len(points) <= Limit
      /\ ~missed => Elements(points) = Prefix(Limit)
  BY <1>1 DEF ReadsInv, FoundInv, FoundOf
<1>4. /\ points' \in Seq(Objects)
      /\ Elements(points') = Elements(points) \cap allowed
  <2> DEFINE kept == Only(points, allowed)
             last == Shorter(Limit, Len(kept))
  <2>1. /\ kept \in Seq(Objects) /\ Len(kept) <= Len(points)
        /\ Elements(kept) = Elements(points) \cap allowed
    BY <1>2, OnlyKeeps
  <2> HIDE DEF kept
  <2>2. last = Len(kept)
    BY <1>2, <1>3, <2>1 DEF Shorter
  <2>3. Limit \in Nat /\ 1 \in Nat \ {0}
    OBVIOUS
  <2>4. /\ Slice(kept, 1, Limit) \in Seq(Objects)
        /\ Elements(Slice(kept, 1, Limit)) = {kept[i] : i \in 1..last}
    BY <2>1, <2>3, SliceIs
  <2>5. Elements(kept) = {kept[i] : i \in 1..last}
    <3>1. DOMAIN kept = 1..last
      BY <2>1, <2>2
    <3> QED  BY <3>1 DEF Elements
  <2> QED  BY <1>1, <2>1, <2>4, <2>5 DEF Chosen, kept
<1>5. /\ Elements(points') \subseteq Within
      /\ ~missed => Elements(points') = Within
  BY <1>2, <1>3, <1>4, WithinIs
<1>6. /\ DOMAIN names' = DOMAIN points'
      /\ \A i \in DOMAIN points' : names'[i] = Nothing
  BY <1>1
<1>7. JobTypes'
  BY <1>1, <1>2, <1>4, TypesKeep DEF ListTypes, StageInv, LoadStages
<1>8. NeverBlind' /\ Within' = Within
  BY <1>1, <1>2 DEF NeverBlind, Within
<1>9. CASE stage' = "done"
  <2>1. ListIsTrue'
    BY <1>1, <1>5, <1>6, <1>8 DEF ListIsTrue
  <2>2. ValuesAreTrue'
    BY <1>1, <1>2 DEF ValuesAreTrue
  <2> QED  BY <1>7, <1>8, <1>9, <2>1, <2>2, EndKeeps DEF ReportsAreTrue
<1>10. CASE stage' # "done"
  <2>1. NamedInv'
    BY <1>1, <1>5, <1>6, <1>8 DEF NamedInv
  <2>2. BatchInv' /\ FoundInv'
    BY <1>1, <1>10 DEF BatchInv, FoundInv
  <2> QED  BY <1>7, <1>8, <1>10, <2>1, <2>2, WorkKeeps
<1> QED  BY <1>9, <1>10

(* A step that reads names changes names alone, and gives each point its   *)
(* own.                                                                    *)
LEMMA NamesKeep ==
  ASSUME ReadsInv, NeverBlind', stage \in {"names", "each name"},
         UNCHANGED <<kind, asked, allowed, hasRpm, values, points, missed>>,
         next' \in Nat \ {0}, chunk' \in Seq(Objects),
         DOMAIN names' = DOMAIN points,
         \A i \in DOMAIN points : names'[i] \in {Nothing, points[i]},
         \/ stage' \in {"names", "each name"} /\ status' = status
         \/ stage' = "done" /\ status' = "ok"
  PROVE  ReadsInv'
<1>1. ListTypes /\ StageInv /\ kind = "load"
  BY KindOf DEF LoadStages
<1>2. /\ Elements(points) \subseteq Within
      /\ ~missed => Elements(points) = Within
  BY DEF ReadsInv, NamedInv
<1>3. JobTypes'
  BY <1>1, TypesKeep DEF ListTypes, StageInv, LoadStages
<1>4. Within' = Within
  BY DEF Within
<1>5. CASE stage' = "done"
  <2>1. ListIsTrue'
    BY <1>2, <1>4 DEF ListIsTrue
  <2>2. ValuesAreTrue'
    BY <1>1 DEF ValuesAreTrue
  <2> QED  BY <1>3, <1>5, <2>1, <2>2, EndKeeps DEF ReportsAreTrue
<1>6. CASE stage' # "done"
  <2>1. NamedInv'
    BY <1>2, <1>4 DEF NamedInv
  <2>2. BatchInv' /\ FoundInv'
    BY <1>6 DEF BatchInv, FoundInv
  <2> QED  BY <1>3, <1>6, <2>1, <2>2, WorkKeeps
<1> QED  BY <1>5, <1>6

(* What is known of the names so far.                                      *)
LEMMA NamesSoFar ==
  ASSUME ReadsInv, stage \in {"names", "each name"}
  PROVE  /\ ListTypes /\ StageInv /\ NeverBlind
         /\ points \in Seq(Objects) /\ next \in Nat \ {0}
         /\ Len(points) \in Nat /\ DOMAIN points = 1..Len(points)
         /\ chunk \in Seq(Objects) /\ DOMAIN names = DOMAIN points
         /\ \A i \in DOMAIN points : /\ points[i] \in Objects
                                     /\ names[i] \in {Nothing, points[i]}
<1>1. /\ ListTypes /\ StageInv /\ NeverBlind
      /\ Len(points) \in Nat /\ DOMAIN points = 1..Len(points)
  BY KindOf
<1>2. /\ points \in Seq(Objects) /\ chunk \in Seq(Objects)
      /\ next \in Nat \ {0}
  BY <1>1 DEF ListTypes, StageInv
<1>3. \A i \in DOMAIN points : points[i] \in Objects
  <2>1. points \in Seq(Objects)
    BY <1>2
  <2> QED  BY ONLY <2>1
<1>4. /\ DOMAIN names = DOMAIN points
      /\ \A i \in DOMAIN points : names[i] \in {Nothing, points[i]}
  BY DEF ReadsInv, NamedInv
<1> QED  BY <1>1, <1>2, <1>3, <1>4

(* Names read from an answer go to their own points.                       *)
LEMMA NamedIs ==
  ASSUME ReadsInv, stage \in {"names", "each name"}, NEW lines, NEW batch
  PROVE  LET new == Named(ByObject(lines, batch)) IN
         /\ DOMAIN new = DOMAIN points
         /\ \A i \in DOMAIN points : new[i] \in {Nothing, points[i]}
<1> DEFINE read == ByObject(lines, batch)
<1>1. \A o \in Objects : read[o] \in {o, Nothing}
  BY ByObjectIs
<1> HIDE DEF read
<1>2. \A i \in DOMAIN points : /\ points[i] \in Objects
                               /\ names[i] \in {Nothing, points[i]}
  BY NamesSoFar
<1>3. /\ DOMAIN Named(read) = DOMAIN points
      /\ \A i \in DOMAIN points : Named(read)[i] \in {Nothing, points[i]}
  BY <1>1, <1>2 DEF Named
<1> QED  BY <1>3 DEF read

(* A batch of names, read by object.                                       *)
LEMMA ReadNamesKeeps ==
  ASSUME ReadsInv, ReadNames
  PROVE  ReadsInv'
<1> DEFINE to == Shorter(ToName, next + BatchSize - 1)
           batch == SubSeq(points, next, to)
<1>1. /\ stage = "names" /\ next' = next + BatchSize
      /\ UNCHANGED <<kind, stage, status, asked, allowed, hasRpm, values,
                     points, missed>>
      /\ \/ Fail /\ chunk' = batch /\ names' = names
         \/ /\ Succeed
            /\ \E lines \in Answers(batch) :
                 /\ names' = Named(ByObject(lines, batch))
                 /\ chunk' = Only(batch, Objects \ Elements(lines))
  BY DEF ReadNames
<1>2. /\ points \in Seq(Objects) /\ next \in Nat \ {0} /\ Len(points) \in Nat
      /\ DOMAIN names = DOMAIN points
      /\ \A i \in DOMAIN points : /\ points[i] \in Objects
                                  /\ names[i] \in {Nothing, points[i]}
  BY <1>1, NamesSoFar
<1>3. to \in Nat /\ to <= Len(points)
  BY <1>2 DEF Shorter, ToName
<1>4. batch \in Seq(Objects)
  <2> HIDE DEF to
  <2>1. \A i \in next..to : i \in 1..Len(points)
    BY <1>2, <1>3
  <2> QED  BY <1>2, <1>3, <2>1
<1> HIDE DEF batch
<1>5. NeverBlind' /\ next' \in Nat \ {0}
  BY <1>1, <1>2, KindOf, SentKeepsRoute
<1>6. CASE Fail /\ chunk' = batch /\ names' = names
  BY <1>1, <1>2, <1>4, <1>5, <1>6, NamesKeep
<1>7. ASSUME NEW lines \in Answers(batch),
             names' = Named(ByObject(lines, batch)),
             chunk' = Only(batch, Objects \ Elements(lines))
      PROVE  ReadsInv'
  <2>1. chunk' \in Seq(Objects)
    BY <1>4, <1>7, OnlyKeeps
  <2>2. /\ DOMAIN names' = DOMAIN points
        /\ \A i \in DOMAIN points : names'[i] \in {Nothing, points[i]}
    BY <1>1, <1>7, NamedIs
  <2> QED  BY <1>1, <1>5, <2>1, <2>2, NamesKeep
<1> QED  BY <1>1, <1>6, <1>7

(* A name that its batch did not give.                                     *)
LEMMA ReadNameKeeps ==
  ASSUME ReadsInv, ReadName
  PROVE  ReadsInv'
<1>1. /\ stage = "names" /\ chunk # <<>> /\ chunk' = Tail(chunk)
      /\ UNCHANGED <<kind, stage, status, asked, allowed, hasRpm, next, values,
                     points, missed>>
      /\ Succeed \/ Fail
      /\ \/ names' = names
         \/ \E lines, batch : names' = Named(ByObject(lines, batch))
  BY DEF ReadName
<1>2. /\ chunk \in Seq(Objects) /\ next \in Nat \ {0}
      /\ DOMAIN names = DOMAIN points
      /\ \A i \in DOMAIN points : names[i] \in {Nothing, points[i]}
  BY <1>1, NamesSoFar
<1>3. chunk' \in Seq(Objects) /\ next' \in Nat \ {0}
  BY <1>1, <1>2
<1>4. /\ DOMAIN names' = DOMAIN points
      /\ \A i \in DOMAIN points : names'[i] \in {Nothing, points[i]}
  BY <1>1, <1>2, NamedIs
<1>5. NeverBlind'
  BY <1>1, KindOf, SentKeepsRoute
<1> QED  BY <1>1, <1>3, <1>4, <1>5, NamesKeep

(* The names are done, or are begun again one by one.                      *)
LEMMA EndNamesKeeps ==
  ASSUME ReadsInv, EndNames
  PROVE  ReadsInv'
<1>1. /\ stage = "names"
      /\ \/ stage' \in {"names", "each name"} /\ status' = status
         \/ stage' = "done" /\ status' = "ok"
      /\ next' = next \/ next' = 1
      /\ UNCHANGED <<kind, asked, allowed, hasRpm, chunk, values, points,
                     names, missed, blind>>
  BY DEF EndNames, Ends
<1>2. /\ chunk \in Seq(Objects) /\ next \in Nat \ {0} /\ NeverBlind
      /\ DOMAIN names = DOMAIN points
      /\ \A i \in DOMAIN points : names[i] \in {Nothing, points[i]}
  BY <1>1, NamesSoFar
<1>3. NeverBlind'
  BY <1>1, <1>2 DEF NeverBlind
<1>4. next' \in Nat \ {0}
  <2>1. next' = next \/ next' = 1
    BY <1>1
  <2>2. next \in Nat \ {0}
    BY <1>2
  <2> QED  BY ONLY <2>1, <2>2
<1> QED  BY <1>1, <1>2, <1>3, <1>4, NamesKeep

(* A name, read by itself, goes to the point it was asked for.             *)
LEMMA ReadEachNameKeeps ==
  ASSUME ReadsInv, ReadEachName
  PROVE  ReadsInv'
<1>1. /\ stage = "each name" /\ next' = next + 1
      /\ names' = names \/ names' = [names EXCEPT ![next] = points[next]]
      /\ Succeed \/ Fail
      /\ UNCHANGED <<kind, stage, status, asked, allowed, hasRpm, chunk, values,
                     points, missed>>
  BY DEF ReadEachName
<1>2. /\ chunk \in Seq(Objects) /\ next \in Nat \ {0}
      /\ DOMAIN names = DOMAIN points
      /\ \A i \in DOMAIN points : names[i] \in {Nothing, points[i]}
  BY <1>1, NamesSoFar
<1>3. /\ DOMAIN names' = DOMAIN points
      /\ \A i \in DOMAIN points : names'[i] \in {Nothing, points[i]}
  BY <1>1, <1>2
<1>4. NeverBlind'
  BY <1>1, KindOf, SentKeepsRoute
<1>5. next' \in Nat \ {0}
  <2>1. next' = next + 1
    BY <1>1
  <2>2. next \in Nat \ {0}
    BY <1>2
  <2> QED  BY ONLY <2>1, <2>2
<1> QED  BY <1>1, <1>2, <1>3, <1>4, <1>5, NamesKeep

(* The last name is done.                                                  *)
LEMMA EndEachNameKeeps ==
  ASSUME ReadsInv, EndEachName
  PROVE  ReadsInv'
<1>1. /\ stage = "each name" /\ stage' = "done" /\ status' = "ok"
      /\ UNCHANGED <<kind, asked, allowed, hasRpm, next, chunk, values, points,
                     names, missed, blind>>
  BY DEF EndEachName, Ends
<1>2. /\ chunk \in Seq(Objects) /\ next \in Nat \ {0} /\ NeverBlind
      /\ DOMAIN names = DOMAIN points
      /\ \A i \in DOMAIN points : names[i] \in {Nothing, points[i]}
  BY <1>1, NamesSoFar
<1>3. NeverBlind'
  BY <1>1, <1>2 DEF NeverBlind
<1> QED  BY <1>1, <1>2, <1>3, NamesKeep

-----------------------------------------------------------------------------
(* At the start there is no job.                                           *)
LEMMA ReadsInvInit ==
  ASSUME ReadsInit
  PROVE  ReadsInv
<1>1. StageInv /\ ListTypes /\ NewInv
  <2>1. 1 \in Nat \ {0}
    OBVIOUS
  <2>2. hasRpm \in BOOLEAN /\ missed \in BOOLEAN
    BY Zenon DEF ReadsInit
  <2>3. StageInv
    BY <2>1, <2>2 DEF ReadsInit, StageInv
  <2>4. ListTypes
    BY DEF ReadsInit, ListTypes
  <2>5. NewInv
    BY DEF ReadsInit, NewInv
  <2> QED  BY <2>3, <2>4, <2>5
<1>2. stage = "idle" /\ NeverBlind
  BY DEF ReadsInit, NeverBlind
<1> QED  BY <1>1, <1>2 DEF ReadsInv, JobTypes, BatchInv, FoundInv, NamedInv,
            ReportsAreTrue, ValuesAreTrue, ListIsTrue

(* Every step of a job keeps the invariant.                                *)
LEMMA ReadsStep ==
  ASSUME ReadsInv, [ReadsNext]_readVars
  PROVE  ReadsInv'
<1>1. CASE ChangeRecords \/ UNCHANGED readVars
  BY <1>1, RestKeeps
<1>2. CASE StartRead \/ StartBulk \/ StartLoad
  BY <1>2, StartKeeps
<1>3. CASE ReadsNext /\ ~ChangeRecords /\ ~(StartRead \/ StartBulk \/ StartLoad)
  BY <1>3, StoreKeeps, ReadPointKeeps, ReadBatchKeeps, ReadValueKeeps,
     FinishBulkKeeps, ReadBlockKeeps, EndBlocksKeeps, ReadCountKeeps,
     ReadItemKeeps, EndItemsKeeps, ChooseTypesKeeps, ReadNamesKeeps,
     ReadNameKeeps, EndNamesKeeps, ReadEachNameKeeps, EndEachNameKeeps, Zenon
     DEF ReadsNext
<1> QED  BY <1>1, <1>2, <1>3 DEF ReadsNext

(* The invariant of a read job holds for lists, batches, blocks and limits *)
(* of any size, and any number of failures.                                *)
THEOREM ReadsInvHolds == ReadsSpec => []ReadsInv
<1>1. ReadsInit => ReadsInv
  BY ReadsInvInit
<1>2. ReadsInv /\ [ReadsNext]_readVars => ReadsInv'
  BY ReadsStep
<1> QED  BY <1>1, <1>2, PTL DEF ReadsSpec

(* No command goes by the default route to a device that a record has      *)
(* behind a router (resolve_bacnet_route), however the records change.     *)
THEOREM RouteTheorem == ReadsSpec => []NeverBlind
<1>1. ReadsInv => NeverBlind
  BY DEF ReadsInv
<1> QED  BY <1>1, ReadsInvHolds, PTL

(* What run_bacnet_read, run_bacnet_read_bulk and run_bacnet_load_points   *)
(* report of a point was answered for that point, and nothing that was     *)
(* asked for is lost without the report saying so.                         *)
THEOREM ReportsTheorem == ReadsSpec => []ReportsAreTrue
<1>1. ReadsInv => ReportsAreTrue
  BY DEF ReadsInv
<1> QED  BY <1>1, ReadsInvHolds, PTL
=============================================================================
