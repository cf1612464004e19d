----------------------------- MODULE BacnetReads -----------------------------
(***************************************************************************)
(* One read job of the agent at one BACnet device: the read of a point,    *)
(* the read of many points, and the loading of the device's points.  Every *)
(* bacrp and bacrpm command is a step; it may fail (which stands for an    *)
(* answer that cannot be read as well), and an answer to several objects   *)
(* may leave some of them out.  What a command answers for an object is    *)
(* written as the object itself.                                           *)
(*                                                                         *)
(* The route to the device is looked up anew for every command, in the     *)
(* records of the edge router, of saved devices and of discoveries, which  *)
(* the local interface changes meanwhile.  The port is taken before the    *)
(* first command (BacnetPort) and released in every end.                   *)
(***************************************************************************)
EXTENDS Naturals, Sequences

CONSTANTS
  Objects,      \* objects of point types, of this device
  Requests,     \* the sequences of points that are asked for
  Lists,        \* the object-lists the device may have
  BatchSize,    \* BACNET_POINT_LOAD_BATCH_SIZE
  BlockSize,    \* BACNET_OBJECT_LIST_INDEX_BLOCK_SIZE
  Limit, NameLimit,
  Nothing,      \* no value, no name
  Records,      \* how many cached records name the device
  MaxFailures,  \* bound on commands that fail
  MaxChanges    \* bound on changes of the records

ASSUME BacnetReadsAssumption ==
  /\ Requests \subseteq Seq(Objects) /\ Lists \subseteq Seq(Objects)
  /\ BatchSize \in Nat \ {0} /\ BlockSize \in Nat \ {0}
  /\ Limit \in Nat \ {0} /\ NameLimit \in 0..Limit
  /\ Nothing \notin Objects
  /\ Records \in Nat /\ MaxFailures \in Nat /\ MaxChanges \in Nat

VARIABLES
  routed,    \* the edge router's status names the device
  native,    \* a saved device has a native endpoint for it
  cached,    \* what each cached record says of it, in the order read
  changes,   \* changes of the records so far
  kind, stage, status,
  asked,     \* the points asked for, or the object-list of the device
  allowed,   \* the objects whose types are asked for
  hasRpm,    \* bacrpm can be run
  next,      \* index of the next block, item or name
  chunk,     \* what is left of the current batch
  parsed,    \* what its answer was read as
  values,    \* the values of the result
  points, names,  \* the points of the result
  used,      \* bacrpm has read a name
  missed,    \* a batch or a block has failed
  failures,  \* commands that failed so far
  blind      \* a command to a device known as routed had no route (history)

recordVars == <<routed, native, cached, changes>>
jobVars == <<kind, stage, status, asked, allowed, hasRpm, next, chunk,
             parsed, values, points, names, used, missed>>
readVars == <<recordVars, jobVars, failures, blind>>

(* A cached record says nothing, that the device is behind a router, or    *)
(* which router, network and address it has.  One with a native address    *)
(* says nothing.                                                           *)
Says == {"nothing", "behind", "where"}

ReadsInit ==
  /\ routed \in BOOLEAN /\ native \in BOOLEAN
  /\ cached \in [1..Records -> Says]
  /\ changes = 0 /\ failures = 0 /\ blind = FALSE
  /\ kind = "none" /\ stage = "idle" /\ status = "none"
  /\ asked = <<>> /\ allowed = {} /\ hasRpm = TRUE /\ next = 1
  /\ chunk = <<>> /\ parsed = <<>> /\ values = <<>>
  /\ points = <<>> /\ names = <<>> /\ used = FALSE /\ missed = FALSE

-----------------------------------------------------------------------------
(* resolve_bacnet_route.                                                   *)
SaidBehind == \E i \in 1..Records : cached[i] = "behind"
SaidWhere  == \E i \in 1..Records : cached[i] = "where"

ResolveByCompleteRecord ==
  IF routed THEN "router"
  ELSE IF native THEN "native"
  ELSE IF SaidWhere THEN "cached"
  ELSE "default"

(* A record that lacks a part is passed over for a complete one, and is an *)
(* error if there is none.                                                 *)
Resolve ==
  IF routed THEN "router"
  ELSE IF native THEN "native"
  ELSE IF SaidWhere THEN "cached"
  ELSE IF SaidBehind THEN "error"
  ELSE "default"

Behind == routed \/ (~native /\ (SaidBehind \/ SaidWhere))

(* A command is prepared with the route and sent.                          *)
Sent ==
  /\ Resolve # "error"
  /\ blind' = (blind \/ (Resolve = "default" /\ Behind))
  /\ UNCHANGED recordVars

Succeed == Sent /\ UNCHANGED failures

Break == failures < MaxFailures /\ failures' = failures + 1

(* A command is not sent for want of a route, or it fails.                 *)
Fail ==
  \/ Sent /\ Break
  \/ Resolve = "error" /\ UNCHANGED <<recordVars, failures, blind>>

(* The local interface writes its files.                                   *)
ChangeRecords ==
  /\ changes < MaxChanges /\ changes' = changes + 1
  /\ \/ routed' = ~routed /\ UNCHANGED <<native, cached>>
     \/ native' = ~native /\ UNCHANGED <<routed, cached>>
     \/ \E i \in 1..Records, says \in Says :
          cached' = [cached EXCEPT ![i] = says] /\ UNCHANGED <<routed, native>>
  /\ UNCHANGED <<jobVars, failures, blind>>

-----------------------------------------------------------------------------
(* A job starts: with a route for reads, and when the port is free.        *)
Start(k, first) ==
  /\ stage = "idle"
  /\ kind' = k
  /\ hasRpm' \in BOOLEAN
  /\ LET fails == \/ k # "load" /\ Resolve = "error"
                  \/ k = "bulk" /\ ~hasRpm'
     IN \/ fails  /\ stage' = "done" /\ status' = "error"
        \/ ~fails /\ stage' = "done" /\ status' = "deferred"
        \/ ~fails /\ stage' = first  /\ status' = "none"
  /\ UNCHANGED <<recordVars, next, chunk, parsed, values, points, names,
                 used, missed, failures>>

(* The command of a single read is prepared before the port is taken.      *)
StartRead == \E point \in Objects :
  /\ Start("read", "single")
  /\ asked' = <<point>> /\ allowed' = {}
  /\ blind' = (blind \/ (Resolve = "default" /\ Behind))

StartBulk == \E request \in Requests :
  /\ Start("bulk", "batch")
  /\ asked' = request /\ allowed' = {} /\ UNCHANGED blind

StartLoad == \E list \in Lists, types \in SUBSET Objects :
  /\ Start("load", "blocks")
  /\ asked' = list /\ allowed' = types /\ UNCHANGED blind

(* The result is stored, and the thread asks for the next job.             *)
StoreResult ==
  /\ stage = "done"
  /\ kind' = "none" /\ stage' = "idle" /\ status' = "none"
  /\ asked' = <<>> /\ allowed' = {} /\ hasRpm' = TRUE /\ next' = 1
  /\ chunk' = <<>> /\ parsed' = <<>> /\ values' = <<>>
  /\ points' = <<>> /\ names' = <<>> /\ used' = FALSE /\ missed' = FALSE
  /\ UNCHANGED <<recordVars, failures, blind>>

Ends(result) == stage' = "done" /\ status' = result

-----------------------------------------------------------------------------
(* run_bacnet_read.                                                        *)
ReadPoint ==
  /\ stage = "single"
  /\ \/ Break /\ Ends("error") /\ UNCHANGED values
     \/ /\ Ends("ok")
        /\ values' = <<[point |-> asked[1], value |-> asked[1]]>>
        /\ UNCHANGED failures
  /\ UNCHANGED <<recordVars, blind, kind, asked, allowed, hasRpm, next,
                 chunk, parsed, points, names, used, missed>>

-----------------------------------------------------------------------------
(* run_bacnet_read_bulk.                                                   *)

Shorter(a, b) == IF a < b THEN a ELSE b

Slice(s, from, to) == SubSeq(s, from, Shorter(to, Len(s)))

(* Functions of a prefix, and not SelectSeq or FoldLeft, so that a proof   *)
(* can go through a list element by element.                               *)
Elements(s) == {s[i] : i \in DOMAIN s}

(* The elements of s that are in S, in their order.                        *)
Only(s, S) ==
  LET kept[n \in 0..Len(s)] ==
        IF n = 0 THEN <<>>
        ELSE IF s[n] \in S THEN Append(kept[n - 1], s[n]) ELSE kept[n - 1]
  IN  kept[Len(s)]

(* What was read from an answer is found by type and instance.             *)
ByPosition(lines, batch) ==
  [o \in Objects |->
     IF \E i \in DOMAIN lines : batch[i] = o
     THEN lines[CHOOSE i \in DOMAIN lines : batch[i] = o] ELSE Nothing]

ByObject(lines, batch) ==
  [o \in Objects |-> IF o \in Elements(lines) THEN o ELSE Nothing]

(* An answer to a batch leaves some objects out.                           *)
Answers(batch) == {Only(batch, given) : given \in SUBSET Elements(batch)}

ReadBatch ==
  LET batch == Slice(asked, next, next + BatchSize - 1) IN
  /\ stage = "batch" /\ chunk = <<>> /\ batch # <<>>
  /\ \/ /\ Fail
        /\ missed' = TRUE /\ parsed' = ByObject(<<>>, batch)
     \/ /\ Succeed
        /\ \E lines \in Answers(batch) : parsed' = ByObject(lines, batch)
        /\ UNCHANGED missed
  /\ chunk' = batch
  /\ next' = next + BatchSize
  /\ UNCHANGED <<kind, stage, status, asked, allowed, hasRpm, values, points,
                 names, used>>

(* The value of a point from the batch, or by a read of its own.           *)
ReadValue ==
  /\ stage = "batch" /\ chunk # <<>>
  /\ \E value \in {parsed[Head(chunk)], Head(chunk), Nothing} :
       /\ values' = Append(values, [point |-> Head(chunk), value |-> value])
       /\ IF parsed[Head(chunk)] # Nothing
            THEN /\ value = parsed[Head(chunk)]
                 /\ UNCHANGED <<recordVars, failures, blind>>
            ELSE (value # Nothing /\ Succeed) \/ (value = Nothing /\ Fail)
  /\ chunk' = Tail(chunk)
  /\ UNCHANGED <<kind, stage, status, asked, allowed, hasRpm, next, parsed,
                 points, names, used, missed>>

FinishBulk ==
  /\ stage = "batch" /\ chunk = <<>> /\ next > Len(asked)
  /\ Ends(IF \A i \in DOMAIN values : values[i].value = Nothing THEN "error"
          ELSE IF missed THEN "partial" ELSE "ok")
  /\ UNCHANGED <<recordVars, failures, blind, kind, asked, allowed, hasRpm,
                 next, chunk, parsed, values, points, names, used, missed>>

-----------------------------------------------------------------------------
(* run_bacnet_load_points: the object-list, by blocks of indices or one by *)
(* one, and then the names.                                                *)
With(found, o) == IF o \in Elements(found) THEN found ELSE Append(found, o)

Added(found, lines) ==
  LET all[n \in 0..Len(lines)] ==
        IF n = 0 THEN found ELSE With(all[n - 1], lines[n])
  IN  all[Len(lines)]

(* A block that cannot be read is left out, and so is an index in it.      *)
ReadBlock ==
  /\ stage = "blocks" /\ hasRpm /\ next <= Limit
  /\ \/ Fail /\ missed' = TRUE /\ UNCHANGED points
     \/ LET block == Slice(asked, next, Shorter(Limit, next + BlockSize - 1))
        IN
        /\ Succeed
        /\ \E lines \in Answers(block) :
             /\ points' = Added(points, lines)
             /\ missed' = (missed \/ lines # block)
  /\ next' = next + BlockSize
  /\ UNCHANGED <<kind, stage, status, asked, allowed, hasRpm, chunk, parsed,
                 values, names, used>>

EndBlocks ==
  /\ stage = "blocks" /\ (~hasRpm \/ next > Limit)
  /\ stage' = IF points = <<>> THEN "count" ELSE "list"
  /\ next' = 1
  /\ missed' = (missed /\ points # <<>>)
  /\ UNCHANGED <<recordVars, failures, blind, kind, status, asked, allowed,
                 hasRpm, chunk, parsed, values, points, names, used>>

ReadCount ==
  /\ stage = "count"
  /\ \/ Fail /\ Ends("error")
     \/ Succeed /\ stage' = "items" /\ UNCHANGED status
  /\ UNCHANGED <<kind, asked, allowed, hasRpm, next, chunk, parsed, values,
                 points, names, used, missed>>

ReadItem ==
  /\ stage = "items" /\ next <= Shorter(Len(asked), Limit)
  /\ \/ Fail /\ Ends("error") /\ UNCHANGED <<points, next, missed>>
     \/ /\ Succeed /\ UNCHANGED <<stage, status>>
        /\ \E lines \in Answers(<<asked[next]>>) :
             /\ points' = points \o lines
             /\ missed' = (missed \/ lines = <<>>)
        /\ next' = next + 1
  /\ UNCHANGED <<kind, asked, allowed, hasRpm, chunk, parsed, values, names,
                 used>>

EndItems ==
  /\ stage = "items" /\ next > Shorter(Len(asked), Limit)
  /\ stage' = "list" /\ next' = 1
  /\ UNCHANGED <<recordVars, failures, blind, kind, status, asked, allowed,
                 hasRpm, chunk, parsed, values, points, names, used, missed>>

(* The types asked for, within the limit.                                  *)
Chosen == Slice(Only(points, allowed), 1, Limit)

ChooseTypes ==
  /\ stage = "list"
  /\ points' = Chosen
  /\ names' = [i \in DOMAIN Chosen |-> Nothing]
  /\ \/ /\ stage' = IF hasRpm THEN "names" ELSE "each name"
        /\ UNCHANGED status
     \/ Ends("ok")                          \* include_object_names = FALSE
  /\ UNCHANGED <<recordVars, failures, blind, kind, asked, allowed, hasRpm,
                 next, chunk, parsed, values, used, missed>>

ToName == Shorter(Len(points), NameLimit)

(* A name goes to the first point of its object.                           *)
Named(read) ==
  [i \in DOMAIN points |->
     IF points[i] \in DOMAIN read /\ read[points[i]] # Nothing
        /\ \A j \in 1..i - 1 : points[j] # points[i]
     THEN read[points[i]] ELSE names[i]]

ReadNames ==
  LET batch == SubSeq(points, next, Shorter(ToName, next + BatchSize - 1)) IN
  /\ stage = "names" /\ chunk = <<>> /\ next <= ToName
  /\ \/ /\ Fail
        /\ chunk' = batch /\ UNCHANGED <<names, used>>
     \/ /\ Succeed
        /\ \E lines \in Answers(batch) :
             /\ names' = Named(ByObject(lines, batch))
             /\ chunk' = Only(batch, Objects \ Elements(lines))
        /\ used' = TRUE
  /\ next' = next + BatchSize
  /\ UNCHANGED <<kind, stage, status, asked, allowed, hasRpm, parsed, values,
                 points, missed>>

(* A name that its batch did not give, by bacrpm.                          *)
ReadName ==
  /\ stage = "names" /\ chunk # <<>>
  /\ \/ Fail /\ UNCHANGED <<names, used>>
     \/ /\ Succeed
        /\ \E lines \in Answers(<<Head(chunk)>>) :
             names' = Named(ByObject(lines, <<Head(chunk)>>))
        /\ used' = TRUE
  /\ chunk' = Tail(chunk)
  /\ UNCHANGED <<kind, stage, status, asked, allowed, hasRpm, next, parsed,
                 values, points, missed>>

(* bacrp is tried when bacrpm has not answered at all.                     *)
EndNames ==
  /\ stage = "names" /\ chunk = <<>> /\ next > ToName
  /\ IF used THEN Ends("ok") /\ UNCHANGED next
     ELSE stage' = "each name" /\ next' = 1 /\ UNCHANGED status
  /\ UNCHANGED <<recordVars, failures, blind, kind, asked, allowed, hasRpm,
                 chunk, parsed, values, points, names, used, missed>>

ReadEachName ==
  /\ stage = "each name" /\ next <= ToName
  /\ \/ Fail /\ UNCHANGED names
     \/ Succeed /\ names' = [names EXCEPT ![next] = points[next]]
  /\ next' = next + 1
  /\ UNCHANGED <<kind, stage, status, asked, allowed, hasRpm, chunk, parsed,
                 values, points, used, missed>>

EndEachName ==
  /\ stage = "each name" /\ next > ToName
  /\ Ends("ok")
  /\ UNCHANGED <<recordVars, failures, blind, kind, asked, allowed, hasRpm,
                 next, chunk, parsed, values, points, names, used, missed>>

-----------------------------------------------------------------------------
ReadsNext ==
  \/ ChangeRecords
  \/ StartRead \/ StartBulk \/ StartLoad \/ StoreResult
  \/ ReadPoint
  \/ ReadBatch \/ ReadValue \/ FinishBulk
  \/ ReadBlock \/ EndBlocks \/ ReadCount \/ ReadItem \/ EndItems
  \/ ChooseTypes \/ ReadNames \/ ReadName \/ EndNames
  \/ ReadEachName \/ EndEachName

ReadsSpec == ReadsInit /\ [][ReadsNext]_readVars

-----------------------------------------------------------------------------
(* No command goes to a device by the default route when a record has it   *)
(* behind a router: it would be answered by another device, or by none.    *)
NeverBlind == ~blind

(* What a job reports of a point was answered for that point, every point  *)
(* that was asked for is in the result once, in the order asked, and a     *)
(* result that says ok has no failed batch.                                *)
ValuesAreTrue ==
  (stage = "done" /\ kind # "load" /\ status \in {"ok", "partial"}) =>
    /\ Len(values) = Len(asked)
    /\ \A i \in DOMAIN asked :
         /\ values[i].point = asked[i]
         /\ values[i].value \in {Nothing, asked[i]}
    /\ \E i \in DOMAIN values : values[i].value # Nothing
    /\ missed <=> status = "partial"

(* A list that is loaded has the objects of the device's list as far as    *)
(* the limit, of the types asked for and with their own names; it lacks    *)
(* only what was left out.                                                 *)
Within == {o \in Elements(Slice(asked, 1, Limit)) : o \in allowed}

ListIsTrue ==
  (stage = "done" /\ kind = "load" /\ status = "ok") =>
    /\ Elements(points) \subseteq Within
    /\ ~missed => Elements(points) = Within
    /\ \A i \in DOMAIN points : names[i] \in {Nothing, points[i]}

(* Both, of every job that reads points or loads the list of a device.     *)
ReportsAreTrue == ValuesAreTrue /\ ListIsTrue

(* A loaded list is whole: not the case when something was left out.       *)
LoadIsWhole ==
  (stage = "done" /\ kind = "load" /\ status = "ok") =>
    Elements(points) = Within
=============================================================================
