--------------------------- MODULE FrontInvariant ---------------------------
(***************************************************************************)
(* What keeps the two ends of the handshakes of FrontEnd in agreement from *)
(* one stage's tick to the next: an inductive invariant.                   *)
(***************************************************************************)
EXTENDS FrontEnd

\* A sequence, of whatever it holds.
Queue(q) == Len(q) \in Nat /\ q = [k \in 1..Len(q) |-> q[k]]

\* The fields the stages signal and wait with.
StageShape ==
  /\ {"stall", "queue"} \subseteq DOMAIN f
  /\ {"status", "insts", "skid", "stall", "block", "unblock"} \subseteq DOMAIN d
  /\ {"status", "insts", "skid", "stall", "block", "unblock"} \subseteq DOMAIN r
  /\ {"status", "insts", "skid", "block", "unblock"} \subseteq DOMAIN i
  /\ "decode" \in DOMAIN out
  /\ {f.stall, d.stall, d.block, d.unblock, r.stall, r.block, r.unblock, i.block, i.unblock}
       \subseteq BOOLEAN
  /\ \A q \in {f.queue, out.decode, wire.decode, d.insts, d.skid} : Queue(q)

\* The states in which decode or IEW, and rename, hold instructions back.
Held == {"Blocked", "Unblocking"}
HeldBack == Held \cup {"SerializeStall"}

\* A stage w that has ticked and the stage before it, whose own flag is stall,
\* agree whether instructions are held back.
Agree(stall, w, held) ==
  /\ w.unblock => stall /\ ~w.block
  /\ Stalled(stall, w) <=> w.status \in held

\* Between the tick of a stage and that of the stage after it the wire has been
\* read, and the flag alone says it.
HandshakeInv ==
  /\ StageShape
  /\ IF phase = "decode" THEN f.stall <=> d.status \in Held ELSE Agree(f.stall, d, Held)
  /\ IF phase = "rename" THEN d.stall <=> r.status \in HeldBack ELSE Agree(d.stall, r, HeldBack)
  /\ IF phase = "iew" THEN r.stall <=> i.status \in Held ELSE Agree(r.stall, i, Held)
=============================================================================
