----------------------------- MODULE BacnetPort -----------------------------
(***************************************************************************)
(* BacnetRuntimeLock: the lock file that keeps the BACnet commands of a    *)
(* gateway apart.  The agent's command thread and its trend thread share   *)
(* one process, and so one pid; further processes (an agent started by     *)
(* hand with --once) take the same file.                                   *)
(*                                                                         *)
(* Every file operation is a step.  A file is known by the thread that     *)
(* created it; the pid in it is that of the thread's process, of which     *)
(* only the present incarnation is running.                                *)
(***************************************************************************)
EXTENDS Naturals

CONSTANTS
  Threads, Processes,
  ProcOf,      \* the process of each thread
  Does,        \* the kinds of operation each thread runs
  NoThread,    \* there is no lock file
  MaxCrashes   \* how many processes may die

Ops == {"read", "discover", "trend", "check"}

ASSUME BacnetPortAssumption ==
  /\ ProcOf \in [Threads -> Processes]
  /\ Does \in [Threads -> SUBSET Ops]
  /\ NoThread \notin Threads
  /\ MaxCrashes \in Nat

VARIABLES
  file,      \* the thread that created the lock file
  written,   \* the file has its pid
  dead,      \* that process is no longer running
  old,       \* the file is older than bacnet_lock_stale_sec
  pc, op,    \* where each thread is, in which operation
  holders,   \* threads that created a lock file and have not released it
  taken,     \* those whose file somebody else has removed (history)
  crashes    \* processes that died so far

fileVars == <<file, written, dead, old>>
vars == <<fileVars, pc, op, holders, taken, crashes>>

Pcs == {"idle", "probe", "probe_pid", "probe_age", "probe_unlink",
        "create", "pid", "age", "unlink", "busy", "write", "run",
        "release", "remove"}

TypeOK ==
  /\ file    \in Threads \cup {NoThread}
  /\ written \in BOOLEAN /\ dead \in BOOLEAN /\ old \in BOOLEAN
  /\ file = NoThread => ~written /\ ~dead /\ ~old
  /\ pc      \in [Threads -> Pcs]
  /\ op      \in [Threads -> Ops]
  /\ holders \subseteq Threads
  /\ taken   \subseteq holders
  /\ crashes \in 0..MaxCrashes

Init ==
  /\ file = NoThread /\ written = FALSE /\ dead = FALSE /\ old = FALSE
  /\ pc = [t \in Threads |-> "idle"]
  /\ op = [t \in Threads |-> "check"]
  /\ holders = {} /\ taken = {}
  /\ crashes = 0

Goto(t, there) == pc' = [pc EXCEPT ![t] = there]

(* A thread unlinks the file.                                              *)
Unlink(t) ==
  /\ file' = NoThread
  /\ written' = FALSE /\ dead' = FALSE /\ old' = FALSE
  /\ taken' = IF file = t \/ file \notin holders THEN taken
                                                 ELSE taken \cup {file}

-----------------------------------------------------------------------------
(* An operation starts.  A trend group and the runtime check first ask     *)
(* whether the lock is held; the others acquire it.                        *)
Begin(t) ==
  /\ pc[t] = "idle"
  /\ \E o \in Does[t] :
       /\ op' = [op EXCEPT ![t] = o]
       /\ Goto(t, IF o \in {"trend", "check"} THEN "probe" ELSE "create")
  /\ UNCHANGED <<fileVars, holders, taken, crashes>>

(* A lock without a readable pid or whose process is gone is stale ...     *)
PidLooksStaleByAge == file = NoThread \/ ~written

PidLooksStale == file = NoThread \/ ~written \/ dead

(* ... and so is one that is too old, or gone by now.                      *)
AgeLooksStale == file = NoThread \/ old

(* bacnet_runtime_lock_held.                                               *)
AfterProbe(t, held) ==
  Goto(t, IF op[t] = "trend" /\ ~held THEN "create" ELSE "idle")

Probe(t) ==
  /\ pc[t] = "probe"
  /\ IF file = NoThread THEN AfterProbe(t, FALSE) ELSE Goto(t, "probe_pid")
  /\ UNCHANGED <<fileVars, op, holders, taken, crashes>>

ProbePid(t) ==
  /\ pc[t] = "probe_pid"
  /\ Goto(t, IF PidLooksStale THEN "probe_unlink" ELSE "probe_age")
  /\ UNCHANGED <<fileVars, op, holders, taken, crashes>>

ProbeAge(t) ==
  /\ pc[t] = "probe_age"
  /\ IF AgeLooksStale THEN Goto(t, "probe_unlink") ELSE AfterProbe(t, TRUE)
  /\ UNCHANGED <<fileVars, op, holders, taken, crashes>>

ProbeUnlink(t) ==
  /\ pc[t] = "probe_unlink"
  /\ Unlink(t)
  /\ AfterProbe(t, FALSE)
  /\ UNCHANGED <<op, holders, crashes>>

-----------------------------------------------------------------------------
(* BacnetRuntimeLock.acquire.                                              *)

(* os.open with O_CREAT and O_EXCL.                                        *)
CreateAnyway(t) ==
  /\ pc[t] = "create"
  /\ file' = t /\ written' = FALSE /\ dead' = FALSE /\ old' = FALSE
  /\ holders' = holders \cup {t}
  /\ Goto(t, "write")
  /\ UNCHANGED <<op, taken, crashes>>

Create(t) ==
  /\ pc[t] = "create"
  /\ IF file = NoThread
       THEN /\ file' = t /\ written' = FALSE /\ dead' = FALSE /\ old' = FALSE
            /\ holders' = holders \cup {t}
            /\ Goto(t, "write")
       ELSE /\ Goto(t, "pid")
            /\ UNCHANGED <<fileVars, holders>>
  /\ UNCHANGED <<op, taken, crashes>>

(* The pid is written to the file that was opened, in place or not.        *)
WritePidByPath(t) ==
  /\ pc[t] = "write"
  /\ written' = TRUE
  /\ Goto(t, "run")
  /\ UNCHANGED <<file, dead, old, op, holders, taken, crashes>>

WritePid(t) ==
  /\ pc[t] = "write"
  /\ written' = (written \/ file = t)
  /\ Goto(t, "run")
  /\ UNCHANGED <<file, dead, old, op, holders, taken, crashes>>

CheckPid(t) ==
  /\ pc[t] = "pid"
  /\ Goto(t, IF PidLooksStale THEN "unlink" ELSE "age")
  /\ UNCHANGED <<fileVars, op, holders, taken, crashes>>

CheckAge(t) ==
  /\ pc[t] = "age"
  /\ Goto(t, IF AgeLooksStale THEN "unlink" ELSE "busy")
  /\ UNCHANGED <<fileVars, op, holders, taken, crashes>>

(* The stale lock is removed, whichever file it is by now.                 *)
RemoveStale(t) ==
  /\ pc[t] = "unlink"
  /\ Unlink(t)
  /\ Goto(t, "create")
  /\ UNCHANGED <<op, holders, crashes>>

Retry(t) ==
  /\ pc[t] = "busy"
  /\ Goto(t, "create")
  /\ UNCHANGED <<fileVars, op, holders, taken, crashes>>

(* The deadline has passed: the operation is deferred.  A discovery calls  *)
(* release in its finally clause although it holds nothing.                *)
GiveUpReleasing(t) ==
  /\ pc[t] = "busy"
  /\ Goto(t, "release")
  /\ UNCHANGED <<fileVars, op, holders, taken, crashes>>

GiveUp(t) ==
  /\ pc[t] = "busy"
  /\ Goto(t, IF op[t] = "discover" THEN "release" ELSE "idle")
  /\ UNCHANGED <<fileVars, op, holders, taken, crashes>>

-----------------------------------------------------------------------------
(* BacnetRuntimeLock.release.                                              *)
Finish(t) ==
  /\ pc[t] = "run"
  /\ Goto(t, "release")
  /\ UNCHANGED <<fileVars, op, holders, taken, crashes>>

(* The file is left alone unless the pid in it is the own one.             *)
HasForeignPid(t) ==
  file # NoThread /\ written /\ ~dead /\ ProcOf[file] # ProcOf[t]

HasOwnPid(t) ==
  file # NoThread /\ written /\ ~dead /\ ProcOf[file] = ProcOf[t]

Release(t) ==
  /\ pc[t] = "release"
  /\ IF HasOwnPid(t)
       THEN Goto(t, "remove") /\ UNCHANGED <<holders, taken>>
       ELSE /\ Goto(t, "idle")
            /\ holders' = holders \ {t} /\ taken' = taken \ {t}
  /\ UNCHANGED <<fileVars, op, crashes>>

Remove(t) ==
  /\ pc[t] = "remove"
  /\ file' = NoThread
  /\ written' = FALSE /\ dead' = FALSE /\ old' = FALSE
  /\ holders' = holders \ {t}
  /\ taken' = (IF file \in holders THEN taken \cup {file} ELSE taken) \ {t}
  /\ Goto(t, "idle")
  /\ UNCHANGED <<op, crashes>>

-----------------------------------------------------------------------------
(* A command runs for longer than bacnet_lock_stale_sec.                   *)
GrowOld ==
  /\ file # NoThread /\ ~old
  /\ old' = TRUE
  /\ UNCHANGED <<file, written, dead, pc, op, holders, taken, crashes>>

(* A process dies and is started again with another pid.                   *)
Crash(p) ==
  LET ofP == {t \in Threads : ProcOf[t] = p} IN
  /\ crashes < MaxCrashes /\ crashes' = crashes + 1
  /\ pc' = [t \in Threads |-> IF t \in ofP THEN "idle" ELSE pc[t]]
  /\ dead' = (dead \/ file \in ofP)
  /\ holders' = holders \ ofP /\ taken' = taken \ ofP
  /\ UNCHANGED <<file, written, old, op>>

Probing(t) == Probe(t) \/ ProbePid(t) \/ ProbeAge(t) \/ ProbeUnlink(t)

Acquiring(t) ==
  \/ Create(t) \/ WritePid(t) \/ CheckPid(t) \/ CheckAge(t)
  \/ RemoveStale(t) \/ Retry(t)

Releasing(t) == Finish(t) \/ Release(t) \/ Remove(t)

Next ==
  \/ \E t \in Threads : Begin(t) \/ Probing(t) \/ Acquiring(t) \/ GiveUp(t)
                          \/ Releasing(t)
  \/ GrowOld
  \/ \E p \in Processes : Crash(p)

Spec == Init /\ [][Next]_vars

(* Threads run, commands end (they have time-outs), a deadline ends every  *)
(* wait, and the trend thread comes back every thirty seconds.             *)
Fairness ==
  \A t \in Threads :
    /\ WF_vars(Probing(t)) /\ WF_vars(Acquiring(t)) /\ WF_vars(Releasing(t))
    /\ SF_vars(GiveUp(t))
    /\ "trend" \in Does[t] => WF_vars(Begin(t))

FairSpec == Spec /\ Fairness

-----------------------------------------------------------------------------
Running == {t \in Threads : pc[t] = "run"}

(* The file protocol itself is sound: two commands use the port at once    *)
(* only where a lock file was removed under the thread that held it.       *)
ExclusiveUnlessTaken ==
  \A t, u \in Running : t # u => t \in taken \/ u \in taken

(* release is about to remove the lock that its caller created, and        *)
(* another one only when that one was taken before, or when a discovery    *)
(* gave up.                                                                *)
ReleaseTakesOwn ==
  \A t \in Threads : pc[t] = "remove" /\ file # NoThread =>
     file = t \/ t \in taken \/ op[t] = "discover"

(* A lock that a crash left behind is removed by the next operation, long  *)
(* before it is old.                                                       *)
OrphanIsCleared == dead ~> ~dead

(* The port never falls out of use, whatever is stolen, left behind or     *)
(* given up: again and again some command runs.                            *)
PortStaysUsable == []<>(Running # {})

(* "subprocess.run should not be called while BACnet runtime lock is held" *)
(* (test_bacnet.py): no two commands run at the same time.                 *)
OneCommandAtATime == \A t, u \in Running : t = u
=============================================================================
