---------------------------- MODULE StoreBuffer ----------------------------
(***************************************************************************)
(* What the load/store queue promises the program: memory operations       *)
(* retire in program order; a retired store waits in a FIFO buffer until   *)
(* it is written to memory, one cache line at a time; and a load retires   *)
(* with the newest value older stores have written to each of its words.   *)
(* A value is the position in the program of the store it comes from.      *)
(***************************************************************************)
EXTENDS Integers, Sequences

CONSTANT Words

VARIABLES
  prog,     \* the program: [kind, words] records
  mem,      \* per word, the position of the last store written to it
  buffer,   \* retired stores not (completely) written, oldest first
  retired   \* the last operation retired and the value it loaded

vars == <<prog, mem, buffer, retired>>

NoValue == [w \in Words |-> -1]

Init ==
  /\ mem = [w \in Words |-> 0]
  /\ buffer = <<>>
  /\ retired = [pos |-> 0, val |-> NoValue]

\* What a load sees of word w: the newest entry of the buffer that holds it.
View(w) ==
  LET holding == {k \in DOMAIN buffer : w \in buffer[k].words}
  IN  IF holding = {} THEN mem[w]
      ELSE buffer[CHOOSE k \in holding : \A j \in holding : j <= k].pos

Retire ==
  LET p == retired.pos + 1
      op == prog[p]
  IN  /\ p \in DOMAIN prog
      /\ \/ /\ op.kind = "load"
            /\ retired' = [pos |-> p,
                 val |-> [w \in Words |-> IF w \in op.words THEN View(w) ELSE -1]]
            /\ UNCHANGED buffer
         \/ /\ op.kind = "store"
            /\ retired' = [pos |-> p, val |-> NoValue]
            /\ buffer' = Append(buffer, [pos |-> p, words |-> op.words])
      /\ UNCHANGED <<prog, mem>>

\* Some words of the oldest store are written; it leaves with the last of them.
Drain ==
  /\ buffer # <<>>
  /\ \E written \in (SUBSET buffer[1].words) \ {{}} :
       /\ mem' = [w \in Words |-> IF w \in written THEN buffer[1].pos ELSE mem[w]]
       /\ buffer' = IF written = buffer[1].words
                    THEN Tail(buffer)
                    ELSE [buffer EXCEPT ![1].words = @ \ written]
  /\ UNCHANGED <<prog, retired>>

Next == Retire \/ Drain

Spec == Init /\ [][Next]_vars

Finished == retired.pos = Len(prog) /\ buffer = <<>>
=============================================================================
