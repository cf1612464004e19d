----------------------------- MODULE WriteOnce -----------------------------
(***************************************************************************)
(* What the cloud and the gateway together promise of BACnet write jobs,   *)
(* without requests, threads or messages: a write is queued, handed out    *)
(* once, sent to the building at most once, and reported only after it was *)
(* sent.  A write may stop for good after any of these steps ("claimed for *)
(* manual review").                                                        *)
(***************************************************************************)
CONSTANT Writes
VARIABLES
  phase,   \* what the cloud says of the write
  sent     \* the writes the building has seen

vars == <<phase, sent>>

Init ==
  /\ phase = [w \in Writes |-> "absent"]
  /\ sent = {}

Move(w, from, to) ==
  /\ phase[w] = from
  /\ phase' = [phase EXCEPT ![w] = to]

Create(w)  == Move(w, "absent", "queued") /\ UNCHANGED sent
HandOut(w) == Move(w, "queued", "claimed") /\ UNCHANGED sent

Send(w) ==
  /\ phase[w] = "claimed"
  /\ w \notin sent
  /\ sent' = sent \cup {w}
  /\ UNCHANGED phase

Report(w) ==
  /\ w \in sent
  /\ \E result \in {"completed", "failed"} : Move(w, "claimed", result)
  /\ UNCHANGED sent

Next == \E w \in Writes : Create(w) \/ HandOut(w) \/ Send(w) \/ Report(w)

Spec == Init /\ [][Next]_vars
=============================================================================
