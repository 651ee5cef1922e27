--------------------------- MODULE RegValueProofs ---------------------------
(***************************************************************************)
(* What the registers hold is what in-order execution leaves there, for    *)
(* every program, every number of registers and every width.               *)
(***************************************************************************)
EXTENDS RegHeldProofs, ValueInvariant

-----------------------------------------------------------------------------
(* What is in flight.                                                       *)

\* What a step does not change of an instruction.
LEMMA StaticFields ==
  ASSUME NEW i
  PROVE  /\ Static(i).sn = i.sn /\ Static(i).pos = i.pos
         /\ Static(i).dst = i.dst /\ Static(i).src = i.src
BY DEF Static

LEMMA SameStatic ==
  ASSUME NEW i, NEW j, j.sn = i.sn, j.pos = i.pos, j.dst = i.dst, j.src = i.src
  PROVE  Static(j) = Static(i)
BY DEF Static

LEMMA EvolvesStatic ==
  ASSUME NEW i, NEW j, Evolves(i, j)
  PROVE  Static(j) = Static(i)
BY DEF Static, Evolves

\* Sequence numbers name instructions, in the order of their age; what is alive has
\* its register on record.
LEMMA InstFacts ==
  ASSUME TypeOK, HeldInv
  PROVE  /\ \A i \in Insts \cup Queue :
              i \in RegInst /\ i.sn \in Nat /\ 0 < i.sn /\ i.sn < nextSn
         /\ \A i, j \in Insts : i.sn = j.sn => i = j
         /\ \A i, j \in Queue : i.sn = j.sn => i = j
         /\ \A i \in Insts : \A j \in Queue : i.sn < j.sn
         /\ ~sig.squash => \A i \in Insts \cup Queue : sig.done < i.sn
         /\ sig.squash => QueuedInsts = {} /\ \A i \in LiveInsts : i.sn <= sig.done
         /\ LiveInsts \subseteq Insts /\ QueuedInsts \subseteq Queue
         /\ \A i \in LiveInsts \cup QueuedInsts : Recorded(i)
<1>1. FlightOrder /\ SignalPhases /\ SignalSound /\ HistoryMatches
  BY DEF HeldInv
<1>2. /\ \A k \in DOMAIN rob : rob[k] \in RegInst /\ rob[k].sn \in Nat /\ k \in Nat
      /\ \A k \in DOMAIN renameNow :
           renameNow[k] \in RegInst /\ renameNow[k].sn \in Nat /\ k \in Nat
      /\ \A k \in DOMAIN renameNext :
           renameNext[k] \in RegInst /\ renameNext[k].sn \in Nat /\ k \in Nat
  BY FlightTypes
<1>3. ASSUME NEW i \in Insts
      PROVE  /\ i \in RegInst /\ i.sn \in Nat /\ 0 < i.sn /\ i.sn < nextSn
             /\ ~sig.squash => sig.done < i.sn
             /\ sig.squash /\ ~Gone(i) => i.sn <= sig.done
             /\ ~Gone(i) => Recorded(i)
  <2>1. PICK k \in DOMAIN rob : i = rob[k]
    BY <1>3 DEF Insts, Range
  <2>2. i \in RegInst /\ i.sn \in Nat /\ 0 < i.sn /\ i.sn < nextSn
    BY <1>1, <1>2, <2>1 DEF FlightOrder, Oldest, Youngest
  <2>3. ~sig.squash => sig.done < i.sn
    BY <1>1, <2>1 DEF SignalSound, Oldest
  <2>4. sig.squash /\ ~Gone(i) => i.sn <= sig.done
    <3> SUFFICES ASSUME sig.squash, ~Gone(i) PROVE i.sn <= sig.done
      OBVIOUS
    <3>1. status = "ROBSquashing" /\ squashTo = sig.done
      BY <1>1, <2>1, FlightTypes DEF SignalPhases, SignalSound
    <3> QED BY <2>2, <3>1, FlightTypes DEF Gone
  <2>5. ~Gone(i) => Recorded(i)
    BY <1>1, <2>1 DEF HistoryMatches
  <2> QED BY <2>2, <2>3, <2>4, <2>5
<1>4. ASSUME NEW i \in Queue
      PROVE  /\ i \in RegInst /\ i.sn \in Nat /\ 0 < i.sn /\ i.sn < nextSn
             /\ ~sig.squash => sig.done < i.sn
             /\ status = "Running" => Recorded(i)
  <2>1. CASE \E k \in DOMAIN renameNow : i = renameNow[k]
    BY <1>1, <1>2, <2>1 DEF FlightOrder, Oldest, Youngest, SignalSound, HistoryMatches
  <2>2. CASE \E k \in DOMAIN renameNext : i = renameNext[k]
    BY <1>1, <1>2, <2>2 DEF FlightOrder, Oldest, Youngest, SignalSound, HistoryMatches
  <2> QED BY <1>4, <2>1, <2>2 DEF Queue, Range
<1>5. ASSUME NEW i \in Insts, NEW j \in Insts, i.sn = j.sn
      PROVE  i = j
  <2>1. PICK m \in DOMAIN rob, n \in DOMAIN rob : i = rob[m] /\ j = rob[n]
    BY <1>5 DEF Insts, Range
  <2>2. ~(m < n) /\ ~(n < m)
    BY <1>1, <1>2, <1>5, <2>1 DEF FlightOrder, AgeOrder
  <2>3. m = n
    BY <1>2, <2>2
  <2> QED BY <2>1, <2>3
<1>6. ASSUME NEW i \in Insts, NEW j \in Queue
      PROVE  i.sn < j.sn
  BY <1>1, <1>6 DEF FlightOrder, Older, Insts, Queue, Range
<1>7. ASSUME NEW i \in Queue, NEW j \in Queue, i.sn = j.sn
      PROVE  i = j
  <2>1. CASE \E m, n \in DOMAIN renameNow : i = renameNow[m] /\ j = renameNow[n]
    <3>1. PICK m, n \in DOMAIN renameNow : i = renameNow[m] /\ j = renameNow[n]
      BY <2>1
    <3>2. ~(m < n) /\ ~(n < m)
      BY <1>1, <1>2, <1>7, <3>1 DEF FlightOrder, AgeOrder
    <3>3. m = n
      BY <1>2, <3>2
    <3> QED BY <3>1, <3>3
  <2>2. CASE \E m, n \in DOMAIN renameNext : i = renameNext[m] /\ j = renameNext[n]
    <3>1. PICK m, n \in DOMAIN renameNext : i = renameNext[m] /\ j = renameNext[n]
      BY <2>2
    <3>2. ~(m < n) /\ ~(n < m)
      BY <1>1, <1>2, <1>7, <3>1 DEF FlightOrder, AgeOrder
    <3>3. m = n
      BY <1>2, <3>2
    <3> QED BY <3>1, <3>3
  <2>3. \A m \in DOMAIN renameNow : \A n \in DOMAIN renameNext :
          renameNow[m].sn # renameNext[n].sn
    BY <1>1, <1>2 DEF FlightOrder, Older
  <2> QED BY <1>7, <2>1, <2>2, <2>3 DEF Queue, Range
<1>8. sig.squash => QueuedInsts = {}
  BY <1>1 DEF SignalPhases, QueuedInsts
<1>9. LiveInsts \subseteq Insts /\ QueuedInsts \subseteq Queue
  BY DEF LiveInsts, QueuedInsts
<1>10. \A i \in LiveInsts \cup QueuedInsts : Recorded(i)
  BY <1>3, <1>4 DEF LiveInsts, QueuedInsts
<1>11. sig.squash => \A i \in LiveInsts : i.sn <= sig.done
  BY <1>3 DEF LiveInsts
<1> QED BY <1>3, <1>4, <1>5, <1>6, <1>7, <1>8, <1>9, <1>10, <1>11

\* What is in flight is in program order, and has an entry of its own in the
\* history if it writes a register.
LEMMA FlightFacts ==
  ASSUME TypeOK, HeldInv
  PROVE  /\ \A x \in Flight :
              /\ x.sn \in Nat /\ x.pos \in Nat /\ x.dst \in Phys \cup {None}
              /\ x.src \in Phys \cup {None} /\ 0 < x.sn /\ x.sn < nextSn
              /\ Kept(x.sn) /\ CommitSn <= x.sn
              /\ sig.squash => x.sn <= sig.done
              /\ x.dst # None => \E h \in DOMAIN history : Owns(x, history[h])
         /\ \A x, y \in Flight : x.sn = y.sn => x = y
         /\ \A h \in DOMAIN history :
              Kept(history[h].sn) => \E x \in Flight : Owns(x, history[h])
<1>1. ASSUME NEW x \in Flight
      PROVE  \E i \in LiveInsts \cup QueuedInsts :
               /\ x = Static(i) /\ i \in RegInst /\ x.sn = i.sn /\ x.pos = i.pos
               /\ x.dst = i.dst /\ x.src = i.src
               /\ 0 < i.sn /\ i.sn < nextSn /\ Recorded(i)
               /\ sig.squash => i.sn <= sig.done
               /\ ~sig.squash => sig.done < i.sn
  <2>1. PICK i \in LiveInsts \cup QueuedInsts : x = Static(i)
    BY <1>1 DEF Flight
  <2>2. i \in Insts \cup Queue /\ (sig.squash => i \in LiveInsts)
    BY <2>1, InstFacts
  <2> QED BY <2>1, <2>2, InstFacts, StaticFields
<1>2. ASSUME NEW x \in Flight
      PROVE  /\ x.sn \in Nat /\ x.pos \in Nat /\ x.dst \in Phys \cup {None}
             /\ x.src \in Phys \cup {None} /\ 0 < x.sn /\ x.sn < nextSn
             /\ Kept(x.sn) /\ CommitSn <= x.sn
             /\ sig.squash => x.sn <= sig.done
             /\ x.dst # None => \E h \in DOMAIN history : Owns(x, history[h])
  <2>1. PICK i \in LiveInsts \cup QueuedInsts :
               /\ x = Static(i) /\ i \in RegInst /\ x.sn = i.sn /\ x.pos = i.pos
               /\ x.dst = i.dst /\ x.src = i.src
               /\ 0 < i.sn /\ i.sn < nextSn /\ Recorded(i)
               /\ sig.squash => i.sn <= sig.done
               /\ ~sig.squash => sig.done < i.sn
    BY <1>1, <1>2
  <2>2. i.sn \in Nat /\ i.pos \in Nat /\ i.dst \in Phys \cup {None}
        /\ i.src \in Phys \cup {None}
    BY <2>1, InstFields
  <2>3. Kept(x.sn) /\ CommitSn <= x.sn
    BY <2>1, <2>2, FlightTypes DEF Kept, CommitSn
  <2>4. x.dst # None => \E h \in DOMAIN history : Owns(x, history[h])
    BY <2>1 DEF Recorded, Owns, OpOf
  <2> QED BY <2>1, <2>2, <2>3, <2>4
<1>3. ASSUME NEW x \in Flight, NEW y \in Flight, x.sn = y.sn
      PROVE  x = y
  <2>1. PICK i, j \in LiveInsts \cup QueuedInsts : x = Static(i) /\ y = Static(j)
    BY <1>3 DEF Flight
  <2>2. i.sn = j.sn /\ i \in Insts \cup Queue /\ j \in Insts \cup Queue
    BY <1>3, <2>1, StaticFields, InstFacts
  <2>3. ~(i \in Insts /\ j \in Queue) /\ ~(i \in Queue /\ j \in Insts)
    <3>1. i.sn \in Nat /\ j.sn \in Nat
      BY <2>2, InstFacts
    <3> QED BY <2>2, <3>1, InstFacts
  <2>4. i = j
    BY <2>2, <2>3, InstFacts
  <2> QED BY <2>1, <2>4
<1>4. ASSUME NEW h \in DOMAIN history, Kept(history[h].sn)
      PROVE  \E x \in Flight : Owns(x, history[h])
  <2>1. \/ \E j \in DOMAIN rob : ~Gone(rob[j]) /\ Owns(rob[j], history[h])
        \/ status = "Running" /\ (Owned(renameNow, history[h]) \/ Owned(renameNext, history[h]))
    BY <1>4 DEF HeldInv, HistoryMatches
  <2>2. \E i \in LiveInsts \cup QueuedInsts : Owns(i, history[h])
    BY <2>1 DEF LiveInsts, QueuedInsts, Insts, Queue, Range, Owned
  <2>3. PICK i \in LiveInsts \cup QueuedInsts : Owns(i, history[h])
    BY <2>2
  <2>4. Static(i) \in Flight /\ Owns(Static(i), history[h])
    BY <2>3, StaticFields DEF Flight, Owns, OpOf
  <2> QED BY <2>4
<1> QED BY <1>2, <1>3, <1>4

-----------------------------------------------------------------------------
(* Registers no two have.                                                   *)

\* An entry's register is mapped, or what the next newer entry replaced.
LEMMA NewHolder ==
  ASSUME TypeOK, HistoryChain, NEW h \in DOMAIN history
  PROVE  LET a == history[h].arch
         IN  \/ /\ \A j \in DOMAIN history : j < h => history[j].arch # a
                /\ renameMap[a] = history[h].new
             \/ \E m \in DOMAIN history :
                  /\ m < h /\ history[m].arch = a /\ history[m].prev = history[h].new
                  /\ \A j \in DOMAIN history : j < h /\ history[j].arch = a => j <= m
<1> DEFINE a == history[h].arch
           newer == {j \in 1..(h - 1) : history[j].arch = a}
<1>1. /\ Len(history) \in Nat /\ DOMAIN history = 1..Len(history) /\ h \in Nat
      /\ \A k \in DOMAIN history : k \in Nat
  BY FlightTypes
<1>2. newer \in SUBSET (1..Len(history))
  BY <1>1
<1>3. \A j \in DOMAIN history : j < h /\ history[j].arch = a => j \in newer
  BY <1>1
<1>4. \A j \in newer : j \in DOMAIN history /\ j < h /\ history[j].arch = a
  BY <1>1
<1>5. /\ newer = {} => renameMap[a] = history[h].new
      /\ \A j \in newer : (\A i \in newer : i <= j) => history[j].prev = history[h].new
  BY DEF HistoryChain
<1> HIDE DEF newer
<1>6. CASE newer = {}
  BY <1>3, <1>5, <1>6
<1>7. CASE newer # {}
  <2>1. PICK m \in newer : \A j \in newer : j <= m
    BY <1>1, <1>2, <1>7, LargestIndex
  <2> QED BY <1>3, <1>4, <1>5, <2>1
<1> QED BY <1>6, <1>7

\* Each entry has a register of its own, and none of the free ones.
LEMMA NewsApart ==
  ASSUME TypeOK, RegsConserved, HistoryChain, NEW h \in DOMAIN history
  PROVE  /\ history[h].new \notin Range(freeList)
         /\ \A k \in DOMAIN history : history[k].new = history[h].new => k = h
<1>1. \A k \in DOMAIN history :
        /\ k \in Nat /\ history[k].arch \in Arch /\ history[k].prev \in PrevRegs
        /\ renameMap[history[k].arch] \in Range(renameMap)
  BY FlightTypes DEF TypeOK, PrevRegs, Range
<1>2. /\ \A q, r \in Arch : renameMap[q] = renameMap[r] => q = r
      /\ \A j, k \in DOMAIN history : history[j].prev = history[k].prev => j = k
      /\ Range(freeList) \cap Range(renameMap) = {}
      /\ Range(freeList) \cap PrevRegs = {}
      /\ Range(renameMap) \cap PrevRegs = {}
  BY DEF RegsConserved
<1>3. history[h].new \in Range(renameMap) \cup PrevRegs
  BY <1>1, NewHolder
<1>4. history[h].new \notin Range(freeList)
  BY <1>2, <1>3
<1>5. ASSUME NEW k \in DOMAIN history, history[k].new = history[h].new
      PROVE  k = h
  <2> DEFINE Mapped(n) == /\ \A j \in DOMAIN history :
                               j < n => history[j].arch # history[n].arch
                          /\ renameMap[history[n].arch] = history[n].new
             Replaced(n, m) == /\ m < n /\ history[m].arch = history[n].arch
                               /\ history[m].prev = history[n].new
                               /\ \A j \in DOMAIN history :
                                    j < n /\ history[j].arch = history[n].arch => j <= m
  <2>1. Mapped(h) \/ \E m \in DOMAIN history : Replaced(h, m)
    BY NewHolder
  <2>2. Mapped(k) \/ \E m \in DOMAIN history : Replaced(k, m)
    BY NewHolder
  <2>3. CASE Mapped(h) /\ Mapped(k)
    <3>1. history[k].arch = history[h].arch
      BY <1>1, <1>2, <1>5, <2>3
    <3>2. ~(k < h) /\ ~(h < k)
      BY <2>3, <3>1
    <3> QED BY <1>1, <3>2
  <2>4. CASE Mapped(h) /\ ~Mapped(k)
    <3>1. PICK m \in DOMAIN history : Replaced(k, m)
      BY <2>2, <2>4
    <3>2. history[m].prev = renameMap[history[h].arch]
      BY <1>5, <2>4, <3>1
    <3> QED BY <1>1, <1>2, <3>2
  <2>5. CASE ~Mapped(h) /\ Mapped(k)
    <3>1. PICK m \in DOMAIN history : Replaced(h, m)
      BY <2>1, <2>5
    <3>2. history[m].prev = renameMap[history[k].arch]
      BY <1>5, <2>5, <3>1
    <3> QED BY <1>1, <1>2, <3>2
  <2>6. CASE ~Mapped(h) /\ ~Mapped(k)
    <3>1. PICK m \in DOMAIN history : Replaced(h, m)
      BY <2>1, <2>6
    <3>2. PICK n \in DOMAIN history : Replaced(k, n)
      BY <2>2, <2>6
    <3>3. n = m
      BY <1>2, <1>5, <3>1, <3>2
    <3>4. m < h /\ m < k /\ history[k].arch = history[h].arch
      BY <3>1, <3>2, <3>3
    <3>5. ~(k < h)
      BY <1>1, <3>1, <3>4
    <3>6. ~(h < k)
      BY <1>1, <3>2, <3>3, <3>4
    <3> QED BY <1>1, <3>5, <3>6
  <2> QED BY <2>3, <2>4, <2>5, <2>6
<1> QED BY <1>4, <1>5

\* The register of an instruction in flight is nobody else's, and not free.
LEMMA FlightDst ==
  ASSUME TypeOK, RegInv, HeldInv, NEW x \in Flight, x.dst # None
  PROVE  /\ x.dst \notin Range(freeList)
         /\ \A y \in Flight : y.dst = x.dst => y = x
         /\ \A h \in DOMAIN history : history[h].new = x.dst => history[h].sn = x.sn
<1>0. RegsConserved /\ HistoryChain
  BY DEF RegInv
<1>1. PICK h \in DOMAIN history : Owns(x, history[h])
  BY FlightFacts
<1>2. history[h].new = x.dst /\ history[h].sn = x.sn
  BY <1>1 DEF Owns
<1>3. \A k \in DOMAIN history : history[k].new = x.dst => history[k].sn = x.sn
  BY <1>0, <1>2, NewsApart
<1>4. ASSUME NEW y \in Flight, y.dst = x.dst PROVE y = x
  <2>1. PICK k \in DOMAIN history : Owns(y, history[k])
    BY <1>4, FlightFacts
  <2>2. history[k].new = x.dst /\ history[k].sn = y.sn
    BY <1>4, <2>1 DEF Owns
  <2> QED BY <1>3, <2>2, FlightFacts
<1> QED BY <1>0, <1>2, <1>3, <1>4, NewsApart

\* What a mapping leads to is not free, and from there on nobody's.
LEMMA LeadsApart ==
  ASSUME TypeOK, RegInv, HeldInv, NEW r \in Arch, NEW sn \in Int, NEW p, Leads(r, sn, p)
  PROVE  /\ p \in Phys /\ p \notin Range(freeList)
         /\ \A h \in DOMAIN history : sn <= history[h].sn => history[h].new # p
         /\ \A x \in Flight : sn <= x.sn => x.dst # p
         /\ \A q : Leads(r, sn, q) => q = p
<1>0. RegsConserved /\ HistoryChain
  BY DEF RegInv
<1>1. p \in Range(renameMap) \cup PrevRegs
  BY LeadsHeld
<1>2. p \in Phys /\ p \notin Range(freeList)
  <2>1. PrevRegs \subseteq Phys
    BY FlightTypes DEF PrevRegs
  <2>2. Range(renameMap) \subseteq Phys
    BY DEF Range, TypeOK
  <2> QED BY <1>0, <1>1, <2>1, <2>2 DEF RegsConserved
<1>3. \A h \in DOMAIN history : sn <= history[h].sn => history[h].new # p
  BY <1>0, LeadsElsewhere
<1>4. ASSUME NEW x \in Flight, sn <= x.sn PROVE x.dst # p
  <2>1. SUFFICES ASSUME x.dst # None PROVE x.dst # p
    <3>1. p # None
      BY <1>2, RegAssumption DEF Phys, None
    <3> QED BY <3>1
  <2>2. PICK h \in DOMAIN history : Owns(x, history[h])
    BY <2>1, FlightFacts
  <2> QED BY <1>3, <1>4, <2>2 DEF Owns
<1>5. ASSUME NEW q, Leads(r, sn, q) PROVE q = p
  <2>1. CASE Since(r, sn) = {}
    BY <1>5, <2>1 DEF Leads
  <2>2. CASE Since(r, sn) # {}
    <3>1. Since(r, sn) \in SUBSET (1..Len(history)) /\ Len(history) \in Nat
      BY FlightTypes DEF Since
    <3>2. PICK m \in Since(r, sn) : \A j \in Since(r, sn) : j <= m
      BY <2>2, <3>1, LargestIndex
    <3> QED BY <1>5, <3>2 DEF Leads
  <2> QED BY <2>1, <2>2
<1> QED BY <1>2, <1>3, <1>4, <1>5

-----------------------------------------------------------------------------
(* Who writes a register last.                                              *)

\* In-order execution, as the model computes it: the last one to write r before p.
LEMMA LastWriterIs ==
  ASSUME NEW p \in Int, NEW r, NEW q \in Int, 1 <= q, q < p, prog[q].dst = r,
         \A x \in Int : q < x /\ x < p => prog[x].dst # r
  PROVE  LastWriter(p, r) = q
<1> DEFINE W == {x \in 1..(p - 1) : prog[x].dst = r}
<1>1. q \in W /\ \A x \in W : x <= q
  OBVIOUS
<1>2. \A y \in W : (\A x \in W : x <= y) => y = q
  BY <1>1
<1>3. (CHOOSE y \in W : \A x \in W : x <= y) = q
  <2> HIDE DEF W
  <2> QED BY <1>1, <1>2
<1>4. LastWriter(p, r) =
        IF \E y \in W : \A x \in W : x <= y
        THEN CHOOSE y \in W : \A x \in W : x <= y ELSE 0
  BY DEF LastWriter
<1> HIDE DEF W
<1> QED BY <1>1, <1>3, <1>4

\* Instructions that do not write r do not change what r holds.
LEMMA LastWriterSame ==
  ASSUME NEW a \in Int, NEW b \in Int, NEW r, a <= b,
         \A x \in Int : a <= x /\ x < b => prog[x].dst # r
  PROVE  LastWriter(b, r) = LastWriter(a, r)
<1>1. {x \in 1..(b - 1) : prog[x].dst = r} = {x \in 1..(a - 1) : prog[x].dst = r}
  OBVIOUS
<1> QED BY <1>1 DEF LastWriter

LEMMA SmallestIndex ==
  ASSUME NEW n \in Nat, NEW W \in SUBSET (1..n), W # {}
  PROVE  \E k \in W : \A j \in W : k <= j
<1> DEFINE T == {n + 1 - k : k \in W}
<1>1. T \in SUBSET (1..n) /\ T # {}
  <2>1. \A k \in W : k \in Int /\ 1 <= k /\ k <= n
    OBVIOUS
  <2>2. \A t \in T : t \in 1..n
    BY <2>1
  <2>3. PICK k \in W : TRUE
    OBVIOUS
  <2>4. n + 1 - k \in T
    BY <2>3
  <2> HIDE DEF T
  <2> QED BY <2>2, <2>4
<1>2. \A k \in W : n + 1 - k \in T /\ k \in Int
  OBVIOUS
<1>3. \A t \in T : n + 1 - t \in W /\ t \in Int
  OBVIOUS
<1> HIDE DEF T
<1>4. PICK t \in T : \A s \in T : s <= t
  BY <1>1, LargestIndex
<1> QED BY <1>2, <1>3, <1>4

\* What an instruction reads is the register of the youngest writer before it in
\* flight, or else what is mapped for the next to commit.
LEMMA Producer ==
  ASSUME TypeOK, RegInv, HeldInv, Positions, SourcesLead, NEW x \in Flight, x.src # None,
         NEW r, r = prog[x.pos].src
  PROVE  \/ \E y \in Flight :
              y.sn < x.sn /\ y.dst = x.src /\ LastWriter(x.pos, r) = y.pos
         \/ Leads(r, CommitSn, x.src) /\ LastWriter(x.pos, r) = LastWriter(pc, r)
<1> DEFINE W == {h \in 1..Len(history) :
                   history[h].arch = r /\ CommitSn <= history[h].sn /\ history[h].sn < x.sn}
<1>0. HistoryChain /\ HistoryOrder
  BY DEF RegInv, HeldInv
<1>1. /\ Len(history) \in Nat /\ DOMAIN history = 1..Len(history)
      /\ \A h \in DOMAIN history : h \in Nat /\ history[h].sn \in Nat
      /\ \A j, k \in DOMAIN history : j < k => history[k].sn < history[j].sn
      /\ sig.done \in Int /\ CommitSn \in Int
  BY <1>0, FlightTypes DEF HistoryOrder, CommitSn
<1>2. /\ x.sn \in Nat /\ x.pos \in Nat /\ CommitSn <= x.sn /\ (sig.squash => x.sn <= sig.done)
      /\ pc <= x.pos /\ x.pos < End
  BY FlightFacts DEF Positions
<1>3. r \in Arch /\ Leads(r, x.sn, x.src)
  BY DEF SourcesLead, SourceLeads
<1>4. \A y \in Flight : /\ y.sn \in Nat /\ y.pos \in Nat /\ y.pos \in DOMAIN prog
                        /\ y.sn < x.sn => y.pos < x.pos
                        /\ y.dst = None <=> prog[y.pos].dst = None
  BY FlightFacts DEF Positions, SourcesLead, SourceLeads
<1>5. pc \in Nat /\ End \in Int
  BY DEF TypeOK, End
\* Whoever writes r before x is in flight and in W.
<1>6. ASSUME NEW q \in Int, pc <= q, q < x.pos
      PROVE  /\ \E y \in Flight : y.pos = q /\ y.sn < x.sn
             /\ prog[q].dst = r =>
                  \E y \in Flight : \E h \in W :
                    y.pos = q /\ y.sn = history[h].sn /\ y.dst = history[h].new
  <2>1. q \in pc..(End - 1)
    BY <1>2, <1>5, <1>6
  <2>2. PICK y \in Flight : y.pos = q
    BY <2>1 DEF Positions
  <2>3. y.sn < x.sn
    <3>1. ~(x.sn < y.sn)
      BY <1>2, <1>6, <2>2 DEF Positions
    <3>2. y.sn # x.sn
      BY <1>6, <2>2, <1>2, FlightFacts
    <3> QED BY <1>2, <1>4, <3>1, <3>2
  <2>4. ASSUME prog[q].dst = r PROVE \E h \in W : y.sn = history[h].sn /\ y.dst = history[h].new
    <3>1. r # None
      BY <1>3, ArchNotNone
    <3>2. PICK h \in DOMAIN history : Owns(y, history[h])
      BY <1>4, <2>2, <2>4, <3>1, FlightFacts
    <3>3. /\ y.sn = history[h].sn /\ y.dst = history[h].new /\ history[h].arch = r
          /\ CommitSn <= y.sn
      BY <2>2, <2>4, <3>2, FlightFacts DEF Owns, OpOf
    <3> QED BY <1>1, <2>3, <3>3
  <2> QED BY <2>2, <2>3, <2>4
<1>7. \A h \in W : /\ h \in DOMAIN history /\ history[h].arch = r
                   /\ CommitSn <= history[h].sn /\ history[h].sn < x.sn
  BY <1>1
<1>8. \A h \in DOMAIN history :
        history[h].arch = r /\ CommitSn <= history[h].sn /\ history[h].sn < x.sn => h \in W
  BY <1>1
<1>9. W \in SUBSET (1..Len(history))
  OBVIOUS
<1> HIDE DEF W
<1>10. CASE W = {}
  <2>1. \A q \in Int : pc <= q /\ q < x.pos => prog[q].dst # r
    BY <1>6, <1>10
  <2>2. LastWriter(x.pos, r) = LastWriter(pc, r)
    BY <1>2, <1>5, <2>1, LastWriterSame
  <2>3. \A h \in DOMAIN history :
          history[h].arch = r => (x.sn <= history[h].sn <=> CommitSn <= history[h].sn)
    BY <1>1, <1>2, <1>8, <1>10
  <2>4. Leads(r, CommitSn, x.src)
    BY <1>3, <2>3, SameSince
  <2> QED BY <2>2, <2>4
<1>11. CASE W # {}
  <2>1. PICK m \in W : \A j \in W : m <= j
    BY <1>1, <1>9, <1>11, SmallestIndex
  <2>2. /\ m \in DOMAIN history /\ history[m].arch = r /\ Kept(history[m].sn)
        /\ CommitSn <= history[m].sn /\ history[m].sn < x.sn
    <3>1. /\ m \in DOMAIN history /\ history[m].arch = r
          /\ CommitSn <= history[m].sn /\ history[m].sn < x.sn
      BY <2>1, <1>7
    <3>2. /\ sig.done \in Int /\ history[m].sn \in Int
          /\ sig.squash => history[m].sn <= sig.done
      BY <1>1, <1>2, <3>1
    <3>3. Kept(history[m].sn)
      BY <3>1, <3>2 DEF Kept, CommitSn
    <3> QED BY <3>1, <3>3
  <2>3. PICK y \in Flight : Owns(y, history[m])
    BY <2>2, FlightFacts
  <2>4. y.sn = history[m].sn /\ y.dst = history[m].new /\ prog[y.pos].dst = r
    BY <2>2, <2>3 DEF Owns, OpOf
  \* The entries of r from x on are those newer than m.
  <2>5. \A j \in DOMAIN history : j \in Since(r, x.sn) <=> j < m /\ history[j].arch = r
    <3> TAKE j \in DOMAIN history
    <3>1. ASSUME j < m, history[j].arch = r PROVE j \in Since(r, x.sn)
      <4>1. history[m].sn < history[j].sn /\ CommitSn <= history[j].sn
        BY <1>1, <2>2, <3>1
      <4>2. j \notin W
        <5>1. SUFFICES ASSUME j \in W PROVE FALSE
          OBVIOUS
        <5>2. m <= j
          BY <2>1, <5>1
        <5> QED BY <1>1, <2>2, <3>1, <5>2
      <4>3. ~(history[j].sn < x.sn)
        BY <1>8, <3>1, <4>1, <4>2
      <4>4. x.sn <= history[j].sn
        BY <1>1, <1>2, <4>3
      <4> QED BY <3>1, <4>4 DEF Since
    <3>2. ASSUME j \in Since(r, x.sn) PROVE j < m /\ history[j].arch = r
      <4>1. history[j].arch = r /\ history[m].sn < history[j].sn
        BY <1>1, <1>2, <2>2, <3>2 DEF Since
      <4> QED BY <1>1, <2>2, <4>1
    <3> QED BY <3>1, <3>2
  <2>6. history[m].new = x.src
    <3>1. CASE \A j \in DOMAIN history : j < m => history[j].arch # r
      <4>1. renameMap[r] = history[m].new
        BY <1>0, <2>2, <3>1, NewHolder
      <4>2. Since(r, x.sn) = {}
        BY <2>5, <3>1 DEF Since
      <4> QED BY <1>3, <4>1, <4>2 DEF Leads
    <3>2. CASE ~ \A j \in DOMAIN history : j < m => history[j].arch # r
      <4>1. PICK n \in DOMAIN history :
              /\ n < m /\ history[n].arch = r /\ history[n].prev = history[m].new
              /\ \A j \in DOMAIN history : j < m /\ history[j].arch = r => j <= n
        BY <1>0, <2>2, <3>2, NewHolder
      <4>2. n \in Since(r, x.sn) /\ \A j \in Since(r, x.sn) : j <= n
        BY <2>5, <4>1 DEF Since
      <4> QED BY <1>3, <4>1, <4>2 DEF Leads
    <3> QED BY <3>1, <3>2
  <2>7. LastWriter(x.pos, r) = y.pos
    <3>1. ASSUME NEW q \in Int, y.pos < q, q < x.pos PROVE prog[q].dst # r
      <4>1. SUFFICES ASSUME prog[q].dst = r PROVE FALSE
        OBVIOUS
      <4>2. pc <= q
        <5>1. pc <= y.pos /\ y.pos \in Nat
          BY <1>4 DEF Positions
        <5> QED BY <1>5, <3>1, <5>1
      <4>3. PICK z \in Flight, h \in W :
              z.pos = q /\ z.sn = history[h].sn /\ z.dst = history[h].new
        BY <1>6, <3>1, <4>1, <4>2
      <4>4. y.sn < z.sn
        <5>1. ~(z.sn < y.sn)
          BY <1>4, <3>1, <4>3 DEF Positions
        <5>2. z.sn # y.sn
          BY <1>4, <3>1, <4>3, FlightFacts
        <5> QED BY <1>4, <5>1, <5>2
      <4>5. m <= h /\ h \in DOMAIN history /\ h # m
        BY <1>1, <1>7, <2>1, <2>4, <4>3, <4>4
      <4>6. history[h].sn < history[m].sn
        BY <1>1, <2>2, <4>5
      <4> QED BY <1>1, <1>4, <2>2, <2>4, <4>3, <4>4, <4>5, <4>6
    <3>2. y.pos \in Int /\ 1 <= y.pos /\ y.pos < x.pos
      <4>1. y.pos \in DOMAIN prog /\ y.pos \in Nat /\ y.pos < x.pos
        BY <1>4, <2>2, <2>4
      <4>2. DOMAIN prog = 1..Len(prog)
        BY SeqFacts DEF TypeOK
      <4> QED BY <4>1, <4>2
    <3> QED BY <1>2, <2>4, <3>1, <3>2, LastWriterIs
  <2> QED BY <2>2, <2>3, <2>4, <2>6, <2>7
<1> QED BY <1>10, <1>11

-----------------------------------------------------------------------------
(* What is in flight, step by step.                                         *)

\* A step in place leaves what is live where it is.
LEMMA InPlaceInsts ==
  ASSUME InPlace, \A k \in DOMAIN rob : Gone(rob[k])' <=> Gone(rob[k])
  PROVE  /\ \A k \in DOMAIN rob : rob[k] \in Insts /\ rob'[k] \in Insts'
         /\ \A j \in Insts' : \E k \in DOMAIN rob :
              /\ j = rob'[k] /\ Evolves(rob[k], j) /\ (Gone(j)' <=> Gone(rob[k]))
              /\ j \in LiveInsts' <=> rob[k] \in LiveInsts
         /\ \A j \in LiveInsts' : \E k \in DOMAIN rob :
              j = rob'[k] /\ Evolves(rob[k], j) /\ rob[k] \in LiveInsts
         /\ \A i \in LiveInsts : \E k \in DOMAIN rob : i = rob[k] /\ rob'[k] \in LiveInsts'
         /\ {Static(i) : i \in LiveInsts'} = {Static(i) : i \in LiveInsts}
<1>1. \A k \in DOMAIN rob : rob[k] \in Insts /\ rob'[k] \in Insts'
  BY DEF InPlace, Insts, Range
<1>2. ASSUME NEW j \in Insts'
      PROVE  \E k \in DOMAIN rob :
               /\ j = rob'[k] /\ Evolves(rob[k], j) /\ (Gone(j)' <=> Gone(rob[k]))
               /\ j \in LiveInsts' <=> rob[k] \in LiveInsts
  <2>1. PICK k \in DOMAIN rob : j = rob'[k]
    BY <1>2 DEF InPlace, Insts, Range
  <2>2. Gone(j)' <=> Gone(rob[k])
    BY <2>1 DEF Gone
  <2> QED BY <1>1, <1>2, <2>1, <2>2 DEF InPlace, LiveInsts
<1>3. ASSUME NEW i \in LiveInsts
      PROVE  \E k \in DOMAIN rob : i = rob[k] /\ rob'[k] \in LiveInsts'
  <2>1. PICK k \in DOMAIN rob : i = rob[k]
    BY <1>3 DEF LiveInsts, Insts, Range
  <2>2. ~Gone(rob[k])'
    BY <1>3, <2>1 DEF LiveInsts
  <2> QED BY <1>1, <2>1, <2>2 DEF LiveInsts, Gone
<1>4. \A j \in LiveInsts' : j \in Insts'
  BY DEF LiveInsts
<1>5. \A k \in DOMAIN rob : Static(rob'[k]) = Static(rob[k])
  BY EvolvesStatic DEF InPlace
<1>6. {Static(i) : i \in LiveInsts'} = {Static(i) : i \in LiveInsts}
  BY <1>2, <1>3, <1>4, <1>5
<1> QED BY <1>1, <1>2, <1>3, <1>4, <1>6

LEMMA QuietInsts ==
  ASSUME Quiet
  PROVE  /\ Flight' = Flight /\ Queue' = Queue /\ QueuedInsts' = QueuedInsts
         /\ InPlace /\ \A k \in DOMAIN rob : Gone(rob[k])' <=> Gone(rob[k])
<1>1. InPlace /\ \A k \in DOMAIN rob : Gone(rob[k])' <=> Gone(rob[k])
  BY QuietGone DEF Quiet
<1>2. Queue' = Queue /\ QueuedInsts' = QueuedInsts
  BY DEF Quiet, Queue, QueuedInsts
<1>3. {Static(i) : i \in LiveInsts'} = {Static(i) : i \in LiveInsts}
  BY <1>1, InPlaceInsts
<1>4. /\ Flight = {Static(i) : i \in LiveInsts} \cup {Static(i) : i \in QueuedInsts}
      /\ Flight' = {Static(i) : i \in LiveInsts'} \cup {Static(i) : i \in QueuedInsts'}
  BY DEF Flight, Static
<1> QED BY <1>1, <1>2, <1>3, <1>4

\* On the wires a squash stays until IEW has seen it.
LEMMA QuietWires ==
  ASSUME TypeOK, HeldInv, Quiet, QuietPhase
  PROVE  OnWires' <=> OnWires
<1>1. sig' = sig
  BY DEF Quiet
<1>2. sig.squash => phase \notin {"free", "walk", "select"}
  BY DEF HeldInv, SignalPhases
<1> QED BY <1>1, <1>2 DEF OnWires, QuietPhase, IewPhases

\* What comes on its way to commit is in the ROB.
PendingFromRob ==
  \A e \in pending' : (\E d \in pending : d.sn = e.sn) \/ \E k \in DOMAIN rob : e.sn = rob[k].sn

\* The instruction at its place before the step.
LEMMA PlaceBefore ==
  ASSUME InPlace, SameMode, \A k \in DOMAIN rob : Gone(rob[k])' <=> Gone(rob[k]),
         NEW j \in Insts'
  PROVE  \E k \in DOMAIN rob :
           /\ j = rob'[k] /\ rob[k] \in Insts /\ (Gone(j)' <=> Gone(rob[k]))
           /\ j \in LiveInsts' <=> rob[k] \in LiveInsts
           /\ j.sn = rob[k].sn /\ j.dst = rob[k].dst /\ j.runahead = rob[k].runahead
           /\ rob[k].squashed => j.squashed
<1>1. PICK k \in DOMAIN rob :
        /\ j = rob'[k] /\ Evolves(rob[k], j) /\ (Gone(j)' <=> Gone(rob[k]))
        /\ j \in LiveInsts' <=> rob[k] \in LiveInsts
  BY InPlaceInsts
<1> QED BY <1>1, InPlaceInsts DEF Evolves, SameMode

\* A step in which no instruction comes or goes, is squashed or changes its place.
LEMMA FlightInPlace ==
  ASSUME TypeOK, HeldInv, FlightInv, PendingFromRob,
         InPlace, SameMode, \A k \in DOMAIN rob : Gone(rob[k])' <=> Gone(rob[k]),
         Queue' \subseteq Queue, QueuedInsts' = QueuedInsts, End' = End,
         sig'.squash /\ phase' \in {"dispatch"} \cup IewPhases => fetchPos' = sig'.pos,
         UNCHANGED <<prog, nextSn, pc, inRunahead>>, RestorePending' => RestorePending,
         UNCHANGED <<renameMap, history>> \/ Flight = {},
         GoneRegisters', IewFollows'
  PROVE  FlightInv'
<1>1. Flight' = Flight
  <2>1. {Static(i) : i \in LiveInsts'} = {Static(i) : i \in LiveInsts}
    BY InPlaceInsts
  <2>2. /\ Flight = {Static(i) : i \in LiveInsts} \cup {Static(i) : i \in QueuedInsts}
        /\ Flight' = {Static(i) : i \in LiveInsts'} \cup {Static(i) : i \in QueuedInsts'}
    BY DEF Flight, Static
  <2> QED BY <2>1, <2>2
<1>2. Positions'
  BY <1>1 DEF FlightInv, Positions
<1>3. SourcesLead'
  <2>1. SUFFICES ASSUME NEW x \in Flight PROVE SourceLeads(x)'
    BY <1>1 DEF SourcesLead
  <2>2. SourceLeads(x)
    BY DEF FlightInv, SourcesLead
  <2>3. PICK r, sn, p : r = prog[x.pos].src /\ sn = x.sn /\ p = x.src
    OBVIOUS
  <2>4. Leads(r, sn, p)' <=> Leads(r, sn, p)
    BY SameMapLeads
  <2> QED BY <2>2, <2>3, <2>4 DEF SourceLeads, Arch
<1>4. ModesAgree'
  <2>1. ModesAgree
    BY DEF FlightInv
  <2>2. inRunahead' => \A i \in Insts' \cup Queue' : i.runahead
    BY <2>1, PlaceBefore DEF ModesAgree
  <2>3. \A i \in Insts' : Stale(i)' /\ ~i.squashed => LiveInsts' = {}
    <3> SUFFICES ASSUME NEW i \in Insts', Stale(i)', ~i.squashed, NEW j \in LiveInsts'
                 PROVE  FALSE
      OBVIOUS
    <3>1. PICK k \in DOMAIN rob : rob[k] \in Insts /\ Stale(rob[k]) /\ ~rob[k].squashed
      BY PlaceBefore DEF Stale
    <3>2. PICK m \in DOMAIN rob : rob[m] \in LiveInsts
      BY InPlaceInsts
    <3> QED BY <2>1, <3>1, <3>2 DEF ModesAgree
  <2>4. RestorePending' => \A i \in Insts' : Stale(i)'
    BY <2>1, PlaceBefore DEF ModesAgree, Stale
  <2> QED BY <2>2, <2>3, <2>4 DEF ModesAgree
<1>5. QueuedWait'
  BY DEF FlightInv, QueuedWait
<1>6. PendingOld'
  <2> SUFFICES ASSUME NEW e \in pending'
               PROVE  e.sn < nextSn /\ \A i \in Queue : e.sn < i.sn
    BY DEF PendingOld
  <2>1. CASE \E d \in pending : d.sn = e.sn
    BY <2>1 DEF FlightInv, PendingOld
  <2>2. CASE \E k \in DOMAIN rob : e.sn = rob[k].sn
    BY <2>2, InstFacts, InPlaceInsts
  <2> QED BY <2>1, <2>2 DEF PendingFromRob
<1> QED BY <1>2, <1>3, <1>4, <1>5, <1>6 DEF FlightInv

\* One that does not touch squashes or the mode either.
LEMMA FlightQuiet ==
  ASSUME TypeOK, HeldInv, FlightInv, Quiet, QuietPhase, PendingFromRob,
         pc' = pc, freeList' = freeList,
         SquashRename \/ (fetchPos' = fetchPos /\ (phase = "rename" => phase' # "dispatch"))
  PROVE  FlightInv'
<1>1. /\ Queue' = Queue /\ QueuedInsts' = QueuedInsts
      /\ InPlace /\ SameMode /\ \A k \in DOMAIN rob : Gone(rob[k])' <=> Gone(rob[k])
  BY QuietInsts DEF Quiet
<1>2. /\ prog' = prog /\ nextSn' = nextSn /\ renameMap' = renameMap /\ history' = history
      /\ sig' = sig /\ status' = status /\ squashTo' = squashTo
      /\ iewRange' = iewRange /\ inRunahead' = inRunahead
      /\ restoreNext' = restoreNext /\ restoreNow' = restoreNow
  BY DEF Quiet
<1>3. End' = End
  <2>1. CASE fetchPos' = fetchPos
    BY <1>2, <2>1 DEF End
  <2>2. CASE SquashRename
    BY <1>2, <2>2 DEF End, SquashRename
  <2> QED BY <2>1, <2>2
<1>4. sig'.squash /\ phase' \in {"dispatch"} \cup IewPhases => fetchPos' = sig'.pos
  <2>1. CASE SquashRename
    BY <1>2, <2>1 DEF SquashRename
  <2>2. CASE ~SquashRename
    <3>1. fetchPos' = fetchPos /\ (phase = "rename" => phase' # "dispatch")
      BY <2>2
    <3>2. sig.squash => phase # "free"
      BY DEF HeldInv, SignalPhases
    <3> QED BY <1>2, <3>1, <3>2 DEF FlightInv, Positions, QuietPhase, IewPhases
  <2> QED BY <2>1, <2>2
<1>5. GoneRegisters'
  <2> SUFFICES ASSUME NEW i \in Insts', Gone(i)', ~i.squashed, ~Stale(i)', i.dst # None
               PROVE  \/ i.dst \in Range(freeList)
                      \/ sig.squash /\ \E h \in DOMAIN history :
                           history[h].new = i.dst /\ sig.done < history[h].sn
    BY <1>2 DEF GoneRegisters
  <2>1. PICK k \in DOMAIN rob :
          /\ rob[k] \in Insts /\ Gone(rob[k]) /\ ~rob[k].squashed /\ ~Stale(rob[k])
          /\ rob[k].dst = i.dst
    BY <1>1, <1>2, PlaceBefore DEF Stale
  <2> QED BY <2>1 DEF FlightInv, GoneRegisters
<1>6. IewFollows'
  <2>1. OnWires' <=> OnWires
    BY QuietWires
  <2>2. IewFollows
    BY DEF FlightInv
  <2>3. CASE OnWires
    BY <1>1, <1>2, <2>1, <2>2, <2>3, PlaceBefore DEF IewFollows
  <2>4. CASE ~OnWires
    <3> SUFFICES ASSUME NEW j \in Insts', Gone(j)' PROVE SquashedForIew(j)'
      BY <2>1, <2>4 DEF IewFollows
    <3>1. PICK k \in DOMAIN rob :
            /\ rob[k] \in Insts /\ Gone(rob[k]) /\ j.sn = rob[k].sn
            /\ j.runahead = rob[k].runahead /\ (rob[k].squashed => j.squashed)
      BY <1>1, PlaceBefore
    <3>2. SquashedForIew(rob[k])
      BY <2>2, <2>4, <3>1 DEF IewFollows
    <3> QED BY <1>2, <3>1, <3>2 DEF SquashedForIew, Stale
  <2> QED BY <2>3, <2>4
<1> QED BY <1>1, <1>2, <1>3, <1>4, <1>5, <1>6, FlightInPlace DEF RestorePending

LEMMA CommitPending ==
  ASSUME NEW k \in DOMAIN rob, InstToCommit(rob[k].sn)
  PROVE  PendingFromRob
BY DEF InstToCommit, PendingFromRob

LEMMA FlightQuietActions ==
  ASSUME TypeOK, HeldInv, FlightInv,
         \/ \E k \in DOMAIN rob : LoadReturns(k)
         \/ StartTick \/ SquashRename \/ RenameDone \/ FreeDone \/ DispatchDone
         \/ Execute \/ ExecuteDone \/ WriteBack \/ Issue
         \/ SelectNothing \/ PoisonRunaheadLLL \/ StopCommit
  PROVE  FlightInv'
<1>1. Quiet /\ QuietPhase
  BY QuietAre
<1>2. pc' = pc /\ freeList' = freeList
  BY DEF LoadReturns, StartTick, SquashRename, RenameDone, FreeDone, DispatchDone,
         Execute, ExecuteDone, WriteBack, Issue, SelectNothing, PoisonRunaheadLLL,
         StopCommit, mapVars, commitVars
<1>3. SquashRename \/ (fetchPos' = fetchPos /\ (phase = "rename" => phase' # "dispatch"))
  BY DEF LoadReturns, StartTick, RenameDone, FreeDone, DispatchDone, AtHead, LoadAtHead,
         Execute, Executing, SkipSquashed, SkipPoisoned, ExecuteOp, ExecuteLoad,
         ExecuteDone, WriteBack, Issue, SelectNothing, PoisonRunaheadLLL,
         StopCommit, frontVars
<1>4. PendingFromRob
  <2>1. ASSUME NEW k \in DOMAIN rob, LoadReturns(k) PROVE PendingFromRob
    BY <2>1, CommitPending DEF LoadReturns
  <2>2. ASSUME Execute PROVE PendingFromRob
    <3>1. PICK k \in DOMAIN rob :
            SkipSquashed(k) \/ SkipPoisoned(k) \/ ExecuteOp(k) \/ ExecuteLoad(k)
      BY <2>2 DEF Execute
    <3>2. pending' = pending \/ InstToCommit(rob[k].sn)
      BY <3>1 DEF SkipSquashed, SkipPoisoned, ExecuteOp, ExecuteLoad
    <3> QED BY <3>2, CommitPending DEF PendingFromRob
  <2>3. ASSUME WriteBack PROVE PendingFromRob
    BY <2>3 DEF WriteBack, PendingFromRob
  <2>4. ASSUME \/ StartTick \/ SquashRename \/ RenameDone \/ FreeDone \/ DispatchDone
               \/ ExecuteDone \/ Issue \/ SelectNothing \/ PoisonRunaheadLLL \/ StopCommit
        PROVE  PendingFromRob
    <3>1. pending' = pending
      BY <2>4 DEF StartTick, SquashRename, RenameDone, FreeDone, DispatchDone,
         ExecuteDone, Issue, SelectNothing, PoisonRunaheadLLL, StopCommit, iewVars
    <3> QED BY <3>1 DEF PendingFromRob
  <2> QED BY <2>1, <2>2, <2>3, <2>4
<1> QED BY <1>1, <1>2, <1>3, <1>4, FlightQuiet

\* Steps of the history leave what is in flight alone.
LEMMA FlightSameInsts ==
  ASSUME UNCHANGED <<rob, renameNow, renameNext, status, squashTo>>
  PROVE  /\ Flight' = Flight /\ Queue' = Queue /\ QueuedInsts' = QueuedInsts
         /\ Insts' = Insts /\ LiveInsts' = LiveInsts
         /\ \A i : Gone(i)' <=> Gone(i)
<1>1. \A i : Gone(i)' <=> Gone(i)
  BY DEF Gone
<1>2. Insts' = Insts /\ Queue' = Queue /\ QueuedInsts' = QueuedInsts
  BY DEF Insts, Queue, QueuedInsts
<1>3. LiveInsts' = LiveInsts
  BY <1>1, <1>2 DEF LiveInsts
<1> QED BY <1>1, <1>2, <1>3 DEF Flight, Static

\* A step of rename that only changes where the history leads to.
LEMMA FlightHistory ==
  ASSUME TypeOK, HeldInv, FlightInv,
         UNCHANGED <<phase, prog, fetchPos, nextSn, renameNow, renameNext, rob, squashTo,
                     iewRange, pending, sig, status, pc, inRunahead, restoreNext,
                     restoreNow>>,
         \A r \in Arch, sn \in Int : \A p :
           Leads(r, sn, p) /\ CommitSn <= sn /\ (sig.squash => sn <= sig.done) =>
             Leads(r, sn, p)',
         Range(freeList) \subseteq Range(freeList'),
         sig.squash => \A h \in DOMAIN history :
           \/ \E k \in DOMAIN history' : history'[k] = history[h]
           \/ history[h].new \in Range(freeList')
  PROVE  FlightInv'
<1>1. /\ Flight' = Flight /\ Queue' = Queue /\ Insts' = Insts /\ LiveInsts' = LiveInsts
      /\ \A i : Gone(i)' <=> Gone(i)
  BY FlightSameInsts
<1>2. Positions'
  BY <1>1 DEF FlightInv, Positions, End
<1>3. SourcesLead'
  <2> SUFFICES ASSUME NEW x \in Flight PROVE SourceLeads(x)'
    BY <1>1 DEF SourcesLead
  <2>1. SourceLeads(x)
    BY DEF FlightInv, SourcesLead
  <2>2. SUFFICES ASSUME x.src # None
                 PROVE  prog[x.pos].src \in Arch /\ Leads(prog[x.pos].src, x.sn, x.src)'
    BY <2>1 DEF SourceLeads, Arch
  <2>3. PICK r, sn, p : r = prog[x.pos].src /\ sn = x.sn /\ p = x.src
    OBVIOUS
  <2>4. r \in Arch /\ Leads(r, sn, p)
    BY <2>1, <2>2, <2>3 DEF SourceLeads
  <2>5. sn \in Int /\ CommitSn <= sn /\ (sig.squash => sn <= sig.done)
    BY <2>3, FlightFacts
  <2>6. Leads(r, sn, p)'
    BY <2>4, <2>5
  <2> QED BY <2>3, <2>4, <2>6
<1>4. ModesAgree'
  BY <1>1 DEF FlightInv, ModesAgree, Stale, RestorePending
<1>5. QueuedWait' /\ PendingOld'
  BY <1>1 DEF FlightInv, QueuedWait, PendingOld
<1>6. GoneRegisters'
  <2> SUFFICES ASSUME NEW i \in Insts, Gone(i), ~i.squashed, ~Stale(i), i.dst # None
               PROVE  \/ i.dst \in Range(freeList')
                      \/ sig.squash /\ \E h \in DOMAIN history' :
                           history'[h].new = i.dst /\ sig.done < history'[h].sn
    BY <1>1 DEF GoneRegisters, Stale
  <2>1. \/ i.dst \in Range(freeList)
        \/ sig.squash /\ \E h \in DOMAIN history :
             history[h].new = i.dst /\ sig.done < history[h].sn
    BY DEF FlightInv, GoneRegisters
  <2> QED BY <2>1
<1>7. IewFollows'
  <2>1. OnWires' <=> OnWires
    BY DEF OnWires
  <2> QED BY <1>1, <2>1 DEF FlightInv, IewFollows, SquashedForIew, Stale
<1> QED BY <1>2, <1>3, <1>4, <1>5, <1>6, <1>7 DEF FlightInv

LEMMA AppendRange ==
  ASSUME NEW S, NEW s \in Seq(S), NEW e \in S
  PROVE  Range(Append(s, e)) = Range(s) \cup {e}
<1>1. /\ Append(s, e) \in Seq(S) /\ Len(s) \in Nat /\ DOMAIN s = 1..Len(s)
      /\ DOMAIN Append(s, e) = 1..(Len(s) + 1)
      /\ Append(s, e)[Len(s) + 1] = e
      /\ \A k \in DOMAIN s : Append(s, e)[k] = s[k] /\ k \in DOMAIN Append(s, e)
      /\ \A k \in DOMAIN Append(s, e) : k \in DOMAIN s \/ k = Len(s) + 1
      /\ Len(s) + 1 \in DOMAIN Append(s, e)
  OBVIOUS
<1> DEFINE t == Append(s, e)
<1> HIDE DEF t
<1>2. \A x : x \in Range(t) <=> x \in Range(s) \cup {e}
  BY <1>1 DEF Range, t
<1> QED BY <1>2 DEF t

\* The undo drops mappings of what is squashed only.
LEMMA FlightUndo ==
  ASSUME TypeOK, HeldInv, FlightInv, UndoRename
  PROVE  FlightInv'
<1>1. /\ sig.squash /\ history # <<>> /\ sig.done < history[1].sn
      /\ history' = Tail(history) /\ freeList' = Append(freeList, history[1].new)
  BY FlightTypes DEF UndoRename, MustUndo
<1>2. 1 \in DOMAIN history /\ history[1].new \in Phys /\ history[1].sn \in Nat
  <2>1. 1 \in DOMAIN history
    BY <1>1, SeqFacts DEF TypeOK
  <2> QED BY <2>1, FlightTypes
<1>3. Range(freeList') = Range(freeList) \cup {history[1].new}
  <2>1. freeList \in Seq(Phys)
    BY DEF TypeOK
  <2> QED BY <1>1, <1>2, <2>1, AppendRange
<1>4. ASSUME NEW r \in Arch, NEW sn \in Int, NEW p, Leads(r, sn, p), sn <= sig.done
      PROVE  Leads(r, sn, p)'
  <2>1. sig.done \in Int
    BY FlightTypes
  <2>2. sn <= history[1].sn
    BY <1>1, <1>2, <1>4, <2>1
  <2> QED BY <1>4, <2>2, UndoLeads
<1>5. \A h \in DOMAIN history : h # 1 => \E k \in DOMAIN history' : history'[k] = history[h]
  <2>1. /\ Len(history) \in Nat /\ DOMAIN history = 1..Len(history)
        /\ DOMAIN history' = 1..(Len(history) - 1)
        /\ \A k \in DOMAIN history' : history'[k] = history[k + 1]
    BY <1>1, SeqFacts DEF TypeOK
  <2>2. \A h \in DOMAIN history : h # 1 => h - 1 \in DOMAIN history' /\ history'[h - 1] = history[h]
    BY <2>1
  <2> QED BY <2>2
<1> QED BY <1>1, <1>3, <1>4, <1>5, FlightHistory
        DEF UndoRename, frontVars, queueVars, robVars, iewVars, commitVars, modeVars, wireVars

\* What is freed was replaced by an instruction that has committed or is gone.
LEMMA FlightFree ==
  ASSUME TypeOK, HeldInv, FlightInv, FreePrevious
  PROVE  FlightInv'
<1>1. /\ ~sig.squash /\ history # <<>> /\ history[Len(history)].sn <= sig.done
      /\ freeList' = Append(freeList, history[Len(history)].prev)
  BY DEF FreePrevious, MustFree, FreedBy, HeldInv, SignalPhases
<1>2. Len(history) \in DOMAIN history /\ history[Len(history)].prev \in Phys
      /\ history[Len(history)].sn \in Nat
  <2>1. 1 \in DOMAIN history
    BY <1>1, SeqFacts DEF TypeOK
  <2> QED BY <2>1, FlightTypes
<1>3. Range(freeList') = Range(freeList) \cup {history[Len(history)].prev}
  BY <1>1, <1>2, AppendRange DEF TypeOK
<1>4. ASSUME NEW r \in Arch, NEW sn \in Int, NEW p, Leads(r, sn, p), CommitSn <= sn
      PROVE  Leads(r, sn, p)'
  BY <1>1, <1>2, <1>4, FreeLeads, FlightTypes DEF CommitSn
<1> QED BY <1>1, <1>3, <1>4, FlightHistory
        DEF FreePrevious, frontVars, queueVars, robVars, iewVars, commitVars, modeVars, wireVars

\* The instruction that rename takes in.
LEMMA RenamedIs ==
  ASSUME TypeOK, HeldInv, RenameInst
  PROVE  \E e \in RegInst :
           /\ renameNext' = Append(renameNext, e) /\ Queue' = Queue \cup {e}
           /\ e.sn = nextSn /\ e.pos = fetchPos /\ ~e.squashed /\ e.runahead = inRunahead
           /\ e.state = "waiting" /\ ~e.poisoned
           /\ e.dst = None <=> prog[fetchPos].dst = None
           /\ e.srcReady => e.src = None \/ e.src \in ready
           /\ e.dst \notin ready' /\ ready' \subseteq ready
           /\ e.src # None => OpOf(e).src \in Arch /\ Leads(OpOf(e).src, e.sn, e.src)'
           /\ \A r \in Arch, sn \in Int : \A p :
                sn <= nextSn /\ Leads(r, sn, p) => Leads(r, sn, p)'
<1>1. PICK e \in RegInst :
        /\ renameNext' = Append(renameNext, e)
        /\ e.sn = nextSn /\ ~e.squashed /\ e.runahead = inRunahead
        /\ e.src # None => OpOf(e).src \in Arch /\ Leads(OpOf(e).src, e.sn, e.src)'
        /\ \A r \in Arch, sn \in Int : \A p :
             sn <= nextSn /\ Leads(r, sn, p) => Leads(r, sn, p)'
  BY RenameEffect
<1> DEFINE op == prog[fetchPos]
           d == IF op.dst = None THEN None ELSE Head(freeList)
<1>2. renameNext \in Seq(RegInst) /\ fetchPos \in DOMAIN prog
      /\ (op.dst # None => freeList # <<>>)
  BY DEF TypeOK, RenameInst, CanRename
<1>3. d \in Phys \cup {None} /\ nextSn \in Nat \ {0}
      /\ (op.dst # None => Head(freeList) \in Phys)
  BY <1>2, SeqFacts DEF TypeOK
<1>4. Renamed(op, d) \in RegInst
  BY <1>2, <1>3, RenamedType
<1>5. renameNext' = Append(renameNext, Renamed(op, d))
  BY DEF RenameInst
<1>6. e = Renamed(op, d)
  <2> HIDE DEF op, d
  <2>1. PICK f \in RegInst : f = Renamed(op, d)
    BY <1>4
  <2>2. /\ Append(renameNext, e)[Len(renameNext) + 1] = e
        /\ Append(renameNext, f)[Len(renameNext) + 1] = f
    BY <1>2
  <2> QED BY <1>1, <1>5, <2>1, <2>2
<1>7. /\ e.pos = fetchPos /\ e.state = "waiting" /\ ~e.poisoned /\ e.dst = d
      /\ e.srcReady => e.src = None \/ e.src \in ready
  BY <1>6 DEF Renamed
<1>8. None \notin Phys
  BY DEF None, Phys
<1>9. e.dst \notin ready' /\ ready' \subseteq ready
  <2>1. CASE op.dst = None
    BY <1>7, <1>8, <2>1 DEF RenameInst, TypeOK
  <2>2. CASE op.dst # None
    <3>1. ready' = ready \ {Head(freeList)}
      BY <2>2 DEF RenameInst, RenameDest
    <3> QED BY <1>7, <2>2, <3>1
  <2> QED BY <2>1, <2>2
<1>10. e.dst = None <=> op.dst = None
  BY <1>3, <1>7, <1>8
<1>11. Queue' = Queue \cup {e}
  <2>1. Range(renameNext') = Range(renameNext) \cup {e}
    BY <1>1, <1>2, AppendRange
  <2>2. renameNow' = renameNow
    BY DEF RenameInst
  <2> QED BY <2>1, <2>2 DEF Queue
<1> QED BY <1>1, <1>7, <1>9, <1>10, <1>11

\* A renamed instruction reads the mapping of its place, since all before it are in
\* flight or committed and all it undoes is undone.
LEMMA FlightRename ==
  ASSUME TypeOK, HeldInv, FlightInv, RenameInst
  PROVE  FlightInv'
<1>1. PICK e \in RegInst :
        /\ Queue' = Queue \cup {e} /\ e.sn = nextSn /\ e.pos = fetchPos /\ ~e.squashed
        /\ e.runahead = inRunahead /\ e.state = "waiting" /\ ~e.poisoned
        /\ e.dst = None <=> prog[fetchPos].dst = None
        /\ e.src # None => OpOf(e).src \in Arch /\ Leads(OpOf(e).src, e.sn, e.src)'
        /\ \A r \in Arch, sn \in Int : \A p :
             sn <= nextSn /\ Leads(r, sn, p) => Leads(r, sn, p)'
  BY RenamedIs
<1>2. /\ phase = "rename" /\ ~sig.squash /\ status = "Running"
      /\ fetchPos \in DOMAIN prog /\ fetchPos' = fetchPos + 1 /\ nextSn' = nextSn + 1
      /\ UNCHANGED <<phase, prog, renameNow, rob, squashTo, iewRange, pending, sig,
                     status, pc, inRunahead, restoreNext, restoreNow>>
  BY DEF RenameInst, TypeOK, robVars, iewVars, commitVars, modeVars, wireVars
<1>3. /\ Insts' = Insts /\ LiveInsts' = LiveInsts /\ \A i : Gone(i)' <=> Gone(i)
  <2>1. \A i : Gone(i)' <=> Gone(i)
    BY <1>2 DEF Gone
  <2>2. Insts' = Insts
    BY <1>2 DEF Insts
  <2> QED BY <2>1, <2>2 DEF LiveInsts
<1>4. Flight' = Flight \cup {Static(e)}
  <2>1. QueuedInsts = Queue /\ QueuedInsts' = Queue'
    BY <1>2 DEF QueuedInsts
  <2> QED BY <1>1, <1>3, <2>1 DEF Flight, Static
<1>5. /\ Static(e).sn = nextSn /\ Static(e).pos = fetchPos
      /\ Static(e).dst = e.dst /\ Static(e).src = e.src
  BY <1>1, StaticFields
<1>6. \A x \in Flight : x.sn \in Nat /\ x.pos \in Nat /\ x.sn < nextSn
  BY FlightFacts
<1>7. nextSn \in Nat /\ fetchPos \in Nat /\ pc \in Nat
  BY DEF TypeOK
<1>8. Positions'
  <2>1. End = fetchPos /\ End' = fetchPos + 1
    BY <1>2 DEF End
  <2>2. pc <= fetchPos
    BY <2>1 DEF FlightInv, Positions
  <2>3. \A x \in Flight : pc <= x.pos /\ x.pos < fetchPos
    BY <2>1 DEF FlightInv, Positions
  <2>4. \A x \in Flight' : pc <= x.pos /\ x.pos < fetchPos + 1
    BY <1>4, <1>5, <1>6, <1>7, <2>2, <2>3
  <2>5. \A x, y \in Flight : x.sn < y.sn => x.pos < y.pos
    BY DEF FlightInv, Positions
  <2>6. \A x, y \in Flight' : x.sn < y.sn => x.pos < y.pos
    BY <1>4, <1>5, <1>6, <1>7, <2>3, <2>5
  <2>7. ASSUME NEW q \in pc..fetchPos PROVE \E x \in Flight' : x.pos = q
    <3>1. CASE q = fetchPos
      BY <1>4, <1>5, <3>1
    <3>2. CASE q # fetchPos
      <4>1. q \in pc..(End - 1)
        BY <1>7, <2>1, <3>2
      <4> QED BY <1>4, <4>1 DEF FlightInv, Positions
    <3> QED BY <3>1, <3>2
  <2>8. \A q \in pc..(End' - 1) : \E x \in Flight' : x.pos = q
    BY <1>7, <2>1, <2>7
  <2>9. pc <= fetchPos + 1
    BY <1>7, <2>2
  <2> QED BY <1>2, <2>1, <2>4, <2>6, <2>8, <2>9 DEF Positions
<1>9. SourcesLead'
  <2> SUFFICES ASSUME NEW x \in Flight' PROVE SourceLeads(x)'
    BY DEF SourcesLead
  <2>1. CASE x = Static(e)
    BY <1>1, <1>2, <1>5, <2>1 DEF SourceLeads, OpOf, Arch
  <2>2. CASE x \in Flight
    <3>1. SourceLeads(x)
      BY <2>2 DEF FlightInv, SourcesLead
    <3>2. SUFFICES ASSUME x.src # None
                   PROVE  prog[x.pos].src \in Arch /\ Leads(prog[x.pos].src, x.sn, x.src)'
      BY <1>2, <3>1 DEF SourceLeads, Arch
    <3>3. PICK r, sn, p : r = prog[x.pos].src /\ sn = x.sn /\ p = x.src
      OBVIOUS
    <3>4. r \in Arch /\ Leads(r, sn, p) /\ sn \in Int /\ sn <= nextSn
      BY <1>6, <1>7, <2>2, <3>1, <3>2, <3>3 DEF SourceLeads
    <3>5. Leads(r, sn, p)'
      BY <1>1, <3>4
    <3> QED BY <1>2, <3>3, <3>4, <3>5
  <2> QED BY <1>4, <2>1, <2>2
<1>10. ModesAgree'
  BY <1>1, <1>2, <1>3 DEF FlightInv, ModesAgree, Stale, RestorePending
<1>11. QueuedWait'
  BY <1>1 DEF FlightInv, QueuedWait
<1>12. PendingOld'
  <2>1. \A d \in pending : d.sn \in Nat
    BY DEF TypeOK
  <2> QED BY <1>1, <1>2, <1>7, <2>1 DEF FlightInv, PendingOld
<1>13. GoneRegisters'
  BY <1>2, <1>3 DEF GoneRegisters, Gone
<1>14. IewFollows'
  BY <1>2, <1>3 DEF FlightInv, IewFollows, OnWires, SquashedForIew, Stale
<1> QED BY <1>8, <1>9, <1>10, <1>11, <1>12, <1>13, <1>14 DEF FlightInv

\* IEW squashes what the signal says and nothing else is gone.
LEMMA SquashIewGone ==
  ASSUME TypeOK, HeldInv, SquashIew
  PROVE  /\ InPlace /\ SameMode
         /\ status = "ROBSquashing" /\ status' = status /\ squashTo' = squashTo
         /\ \A k \in DOMAIN rob :
              /\ squashTo = sig.done /\ (Gone(rob[k])' <=> Gone(rob[k]))
              /\ ~Gone(rob[k]) => rob'[k] = rob[k]
<1>1. InPlace /\ SameMode /\ \A k \in DOMAIN rob : rob[k].sn <= sig.done => rob'[k] = rob[k]
  BY SquashIewInPlace
<1>2. /\ sig.squash /\ status = "ROBSquashing" /\ status' = status /\ squashTo' = squashTo
      /\ rob # <<>> => squashTo = sig.done
  BY DEF SquashIew, commitVars, HeldInv, SignalPhases, SignalSound
<1>3. ASSUME NEW k \in DOMAIN rob
      PROVE  /\ squashTo = sig.done /\ (Gone(rob[k])' <=> Gone(rob[k]))
             /\ ~Gone(rob[k]) => rob'[k] = rob[k]
  <2>1. squashTo = sig.done /\ rob[k].sn \in Nat /\ sig.done \in Int
    BY <1>2, FlightTypes
  <2>2. CASE rob[k].sn <= sig.done
    BY <1>1, <1>2, <2>1, <2>2 DEF Gone
  <2>3. CASE ~(rob[k].sn <= sig.done)
    <3>1. squashTo < rob[k].sn /\ rob'[k].sn = rob[k].sn
      BY <1>1, <2>1, <2>3 DEF InPlace, Evolves
    <3> QED BY <1>2, <2>1, <3>1 DEF Gone
  <2> QED BY <2>2, <2>3
<1> QED BY <1>1, <1>2, <1>3

\* IEW learns of a squash: the wires are read.
LEMMA FlightSquashIew ==
  ASSUME TypeOK, HeldInv, FlightInv, SquashIew
  PROVE  FlightInv'
<1>1. /\ InPlace /\ SameMode /\ status = "ROBSquashing" /\ status' = status
      /\ squashTo' = squashTo
      /\ \A k \in DOMAIN rob : squashTo = sig.done /\ (Gone(rob[k])' <=> Gone(rob[k]))
  BY SquashIewGone
<1>2. /\ phase = "dispatch" /\ phase' = "execute" /\ sig.squash
      /\ renameNow' = <<>> /\ renameNext' = renameNext
      /\ iewRange'.lo = sig.done /\ iewRange'.hi = sig.tail
      /\ UNCHANGED <<prog, fetchPos, nextSn, freeList, history, renameMap, sig, pending,
                     inRunahead, pc, restoreNext, restoreNow>>
  BY DEF SquashIew, frontVars, mapVars, commitVars, modeVars, wireVars
<1>3. Queue' \subseteq Queue /\ QueuedInsts' = QueuedInsts
  <2>1. Range(<<>>) = {}
    BY DEF Range
  <2> QED BY <1>1, <1>2, <2>1 DEF Queue, QueuedInsts
<1>4. End' = End /\ fetchPos' = sig'.pos
  BY <1>2 DEF End, FlightInv, Positions
<1>5. GoneRegisters'
  <2> SUFFICES ASSUME NEW i \in Insts', Gone(i)', ~i.squashed, ~Stale(i)', i.dst # None
               PROVE  \/ i.dst \in Range(freeList)
                      \/ sig.squash /\ \E h \in DOMAIN history :
                           history[h].new = i.dst /\ sig.done < history[h].sn
    BY <1>2 DEF GoneRegisters
  <2>1. PICK k \in DOMAIN rob :
          /\ rob[k] \in Insts /\ Gone(rob[k]) /\ ~rob[k].squashed /\ ~Stale(rob[k])
          /\ rob[k].dst = i.dst
    BY <1>1, <1>2, PlaceBefore DEF Stale
  <2> QED BY <2>1 DEF FlightInv, GoneRegisters
<1>6. IewFollows'
  <2> SUFFICES ASSUME NEW j \in Insts', Gone(j)' PROVE SquashedForIew(j)'
    BY <1>2 DEF IewFollows, OnWires
  <2>1. PICK k \in DOMAIN rob : rob[k] \in Insts /\ j.sn = rob[k].sn
    BY <1>1, PlaceBefore
  <2>2. j.sn <= sig.tail
    BY <1>2, <2>1 DEF FlightInv, IewFollows, OnWires
  <2>3. j.squashed \/ sig.done < j.sn
    BY <1>1, <2>1 DEF Gone
  <2> QED BY <1>2, <2>1, <2>2, <2>3, FlightTypes DEF SquashedForIew
<1>7. PendingFromRob
  BY <1>2 DEF PendingFromRob
<1> QED BY <1>1, <1>2, <1>3, <1>4, <1>5, <1>6, <1>7, FlightInPlace DEF RestorePending

LEMMA SameInsts ==
  ASSUME TypeOK, rob' = rob
  PROVE  /\ InPlace /\ SameMode
         /\ UNCHANGED <<status, squashTo>> =>
              \A k \in DOMAIN rob : Gone(rob[k])' <=> Gone(rob[k])
<1>1. InPlace /\ SameMode
  BY SameInPlace DEF TypeOK
<1> QED BY <1>1 DEF Gone

\* IEW has told commit what executed; the signal is taken back.
LEMMA FlightIewDone ==
  ASSUME TypeOK, HeldInv, FlightInv, IewDone
  PROVE  FlightInv'
<1>1. /\ phase = "issue" /\ phase' = "walk" /\ sig' = NoSig
      /\ UNCHANGED <<prog, fetchPos, nextSn, renameNow, renameNext, renameMap, freeList,
                     history, rob, status, squashTo, iewRange, pending, pc, inRunahead,
                     restoreNext, restoreNow>>
  BY DEF IewDone, frontVars, queueVars, mapVars, robVars, iewVars, commitVars,
         modeVars, wireVars
<1>2. InPlace /\ SameMode /\ \A k \in DOMAIN rob : Gone(rob[k])' <=> Gone(rob[k])
  BY <1>1, SameInsts
<1>3. sig'.squash = FALSE
  BY <1>1 DEF NoSig
<1>4. End' = End
  BY <1>1, <1>3 DEF End, FlightInv, Positions, IewPhases
<1>5. Queue' = Queue /\ QueuedInsts' = QueuedInsts /\ Insts' = Insts
      /\ \A i : (Gone(i)' <=> Gone(i)) /\ (Stale(i)' <=> Stale(i))
  BY <1>1 DEF Queue, QueuedInsts, Insts, Gone, Stale
<1>6. GoneRegisters'
  <2> SUFFICES ASSUME NEW i \in Insts, Gone(i), ~i.squashed, ~Stale(i), i.dst # None
               PROVE  i.dst \in Range(freeList)
    BY <1>1, <1>5 DEF GoneRegisters
  <2>1. \/ i.dst \in Range(freeList)
        \/ sig.squash /\ \E h \in DOMAIN history :
             history[h].new = i.dst /\ sig.done < history[h].sn
    BY DEF FlightInv, GoneRegisters
  <2>2. \A h \in DOMAIN history : Kept(history[h].sn)
    BY <1>1 DEF HeldInv, SignalSound, IewPhases
  <2> QED BY <2>1, <2>2, FlightTypes DEF Kept
<1>7. IewFollows'
  <2>1. \A i \in Insts : Gone(i) => SquashedForIew(i)
    BY <1>1 DEF FlightInv, IewFollows, OnWires
  <2> QED BY <1>1, <1>3, <1>5, <2>1 DEF IewFollows, OnWires, SquashedForIew
<1>8. PendingFromRob
  BY <1>1 DEF PendingFromRob
<1> QED BY <1>1, <1>2, <1>3, <1>4, <1>5, <1>6, <1>7, <1>8, FlightInPlace DEF RestorePending

\* The walk marks what was gone before.
LEMMA WalkGone ==
  ASSUME TypeOK, HeldInv, RobWalk
  PROVE  /\ InPlace /\ SameMode
         /\ \A k \in DOMAIN rob : Gone(rob[k])' <=> Gone(rob[k])
         /\ Queue' = Queue /\ QueuedInsts' = QueuedInsts
<1>1. /\ phase = "walk"
      /\ UNCHANGED <<prog, nextSn, renameNow, renameNext, squashTo, inRunahead>>
  BY DEF RobWalk, frontVars, queueVars, modeVars
<1>2. WalkReaches /\ SignalPhases /\ FlightOrder
  BY DEF HeldInv
<1>3. CASE status = "ROBSquashing" /\ squashIt # 0
  <2>1. /\ rob' = Rob!MarkSquashed(rob, Rob!WalkMarks(rob, squashIt, squashTo, SquashWidth))
        /\ squashIt' = Rob!WalkNext(rob, squashIt, squashTo, SquashWidth)
        /\ status' = status
    BY <1>3 DEF RobWalk
  <2>2. /\ InPlace /\ SameMode
        /\ \A k \in DOMAIN rob : rob'[k].squashed => rob[k].squashed \/ squashTo < rob[k].sn
    BY <2>1, WalkStep DEF TypeOK
  <2>3. ASSUME NEW k \in DOMAIN rob PROVE Gone(rob[k])' <=> Gone(rob[k])
    <3>1. rob'[k].sn = rob[k].sn /\ (rob[k].squashed => rob'[k].squashed)
      BY <2>2 DEF InPlace, Evolves
    <3> QED BY <1>1, <1>3, <2>1, <2>2, <3>1 DEF Gone
  <2> QED BY <1>1, <2>1, <2>2, <2>3 DEF Queue, QueuedInsts
<1>4. CASE ~(status = "ROBSquashing" /\ squashIt # 0)
  <2>1. rob' = rob /\ status' = "Running"
    BY <1>4 DEF RobWalk
  <2>2. InPlace /\ SameMode
    BY <2>1, SameInsts
  <2>3. ASSUME NEW k \in DOMAIN rob PROVE Gone(rob[k])' <=> Gone(rob[k])
    <3>1. status = "ROBSquashing" => (squashTo < rob[k].sn => rob[k].squashed)
      BY <1>2, <1>4, FlightTypes DEF WalkReaches
    <3> QED BY <1>1, <2>1, <3>1 DEF Gone
  <2>4. status = "ROBSquashing" => Queue = {}
    <3>1. status = "ROBSquashing" => renameNow = <<>> /\ renameNext = <<>>
      BY <1>1, <1>2 DEF SignalPhases
    <3>2. Range(<<>>) = {}
      BY DEF Range
    <3> QED BY <3>1, <3>2 DEF Queue
  <2>5. Queue' = Queue
    BY <1>1 DEF Queue
  <2>6. QueuedInsts' = QueuedInsts
    BY <2>1, <2>4, <2>5 DEF QueuedInsts, TypeOK
  <2> QED BY <2>2, <2>3, <2>5, <2>6
<1> QED BY <1>3, <1>4

\* The ROB walk marks what was gone already.
LEMMA FlightWalk ==
  ASSUME TypeOK, HeldInv, FlightInv, RobWalk
  PROVE  FlightInv'
<1>1. /\ InPlace /\ SameMode /\ Queue' = Queue /\ QueuedInsts' = QueuedInsts
      /\ \A k \in DOMAIN rob : Gone(rob[k])' <=> Gone(rob[k])
  BY WalkGone
<1>2. /\ phase = "walk" /\ phase' = "select" /\ sig = NoSig
      /\ UNCHANGED <<prog, fetchPos, nextSn, renameMap, freeList, history, sig, iewRange,
                     pending, pc, inRunahead, restoreNext, restoreNow>>
  BY DEF RobWalk, frontVars, mapVars, iewVars, modeVars, wireVars, HeldInv, SignalPhases
<1>3. sig.squash = FALSE
  BY <1>2 DEF NoSig
<1>4. End' = End
  BY <1>2 DEF End
<1>5. GoneRegisters'
  <2> SUFFICES ASSUME NEW i \in Insts', Gone(i)', ~i.squashed, ~Stale(i)', i.dst # None
               PROVE  i.dst \in Range(freeList)
    BY <1>2 DEF GoneRegisters
  <2>1. PICK k \in DOMAIN rob :
          /\ rob[k] \in Insts /\ Gone(rob[k]) /\ ~rob[k].squashed /\ ~Stale(rob[k])
          /\ rob[k].dst = i.dst
    BY <1>1, <1>2, PlaceBefore DEF Stale
  <2> QED BY <1>3, <2>1 DEF FlightInv, GoneRegisters
<1>6. IewFollows'
  <2> SUFFICES ASSUME NEW j \in Insts', Gone(j)' PROVE SquashedForIew(j)'
    BY <1>2 DEF IewFollows, OnWires
  <2>1. PICK k \in DOMAIN rob :
          /\ rob[k] \in Insts /\ Gone(rob[k]) /\ j.sn = rob[k].sn
          /\ j.runahead = rob[k].runahead /\ (rob[k].squashed => j.squashed)
    BY <1>1, PlaceBefore
  <2>2. SquashedForIew(rob[k])
    BY <1>2, <2>1 DEF FlightInv, IewFollows, OnWires
  <2> QED BY <1>2, <2>1, <2>2 DEF SquashedForIew, Stale
<1>7. PendingFromRob
  BY <1>2 DEF PendingFromRob
<1> QED BY <1>1, <1>2, <1>3, <1>4, <1>5, <1>6, <1>7, FlightInPlace DEF RestorePending

\* The instruction that enters the ROB.
LEMMA DispatchEffect ==
  ASSUME TypeOK, HeldInv, DispatchInst
  PROVE  \E i \in Queue, d \in RegInst :
           /\ d = Dispatched(i) /\ Evolves(i, d) /\ Static(d) = Static(i)
           /\ d.runahead = i.runahead /\ ~d.squashed /\ d.state = i.state
           /\ d.poisoned = i.poisoned /\ ~Stale(i)
           /\ d.srcReady => i.srcReady \/ i.src \in iqReady
           /\ Insts' = Insts \cup {d} /\ Queue = Queue' \cup {i}
           /\ \A j \in Queue' : i.sn < j.sn
           /\ LiveInsts' = LiveInsts \cup {d}
           /\ QueuedInsts = Queue /\ QueuedInsts' = Queue'
           /\ iqReady' = iqReady \ {i.dst}
           /\ Flight' = Flight /\ \A j : Gone(j)' <=> Gone(j)
<1>1. /\ phase = "dispatch" /\ ~sig.squash /\ renameNow # <<>>
      /\ rob' = Append(rob, Dispatched(Head(renameNow)))
      /\ renameNow' = Tail(renameNow)
      /\ UNCHANGED <<phase, renameNext, status, squashTo>>
  BY DEF DispatchInst, commitVars
<1>2. FlightOrder /\ SignalPhases /\ IewKnows
  BY DEF HeldInv
<1>3. status = "Running"
  BY <1>1, <1>2 DEF SignalPhases, TypeOK
<1>4. /\ 1 \in DOMAIN renameNow /\ Head(renameNow) = renameNow[1] /\ renameNow[1] \in RegInst
      /\ DOMAIN renameNow' = 1..(Len(renameNow) - 1) /\ DOMAIN renameNow = 1..Len(renameNow)
      /\ Len(renameNow) \in Nat
      /\ \A k \in 1..(Len(renameNow) - 1) : renameNow'[k] = renameNow[k + 1]
  BY <1>1, SeqFacts DEF TypeOK
<1>5. PICK i \in RegInst, d \in RegInst : i = renameNow[1] /\ d = Dispatched(i)
        /\ Evolves(i, d) /\ d.runahead = i.runahead /\ d.squashed = i.squashed
        /\ d.state = i.state
  BY <1>4, DispatchedInst
<1>6. /\ i \in Queue /\ ~i.squashed /\ ~Stale(i)
      /\ d.poisoned = i.poisoned
      /\ d.srcReady => i.srcReady \/ i.src \in iqReady
  <2>1. i \in Queue /\ ~i.squashed /\ ~Stale(i)
    BY <1>2, <1>3, <1>4, <1>5 DEF Queue, Range, IewKnows
  <2>2. d.poisoned = i.poisoned /\ (d.srcReady => i.srcReady \/ i.src \in iqReady)
    BY <1>5 DEF Dispatched, RegInst
  <2> QED BY <2>1, <2>2
<1>7. Insts' = Insts \cup {d}
  BY <1>1, <1>4, <1>5, AppendRange DEF Insts, TypeOK
<1>8. Queue = Queue' \cup {i}
  <2>1. \A k \in DOMAIN renameNow : k = 1 \/ (k - 1 \in DOMAIN renameNow' /\ renameNow'[k - 1] = renameNow[k])
    BY <1>4
  <2>2. \A k \in DOMAIN renameNow' : k + 1 \in DOMAIN renameNow /\ renameNow'[k] = renameNow[k + 1]
    BY <1>4
  <2>3. Range(renameNow) = Range(renameNow') \cup {renameNow[1]}
    BY <1>4, <2>1, <2>2 DEF Range
  <2> QED BY <1>1, <1>5, <2>3 DEF Queue
<1>9. ASSUME NEW j \in Queue' PROVE i.sn < j.sn
  <2>1. CASE j \in Range(renameNow')
    <3>1. PICK k \in DOMAIN renameNow' : j = renameNow'[k]
      BY <2>1 DEF Range
    <3>2. j = renameNow[k + 1] /\ k + 1 \in DOMAIN renameNow /\ 1 < k + 1
      BY <1>4, <3>1
    <3> QED BY <1>2, <1>4, <1>5, <3>2 DEF FlightOrder, AgeOrder
  <2>2. CASE j \in Range(renameNext)
    BY <1>2, <1>4, <1>5, <2>2 DEF FlightOrder, Older, Range
  <2> QED BY <1>1, <1>9, <2>1, <2>2 DEF Queue
<1>10. \A j : Gone(j)' <=> Gone(j)
  BY <1>1 DEF Gone
<1>11. LiveInsts' = LiveInsts \cup {d}
  <2>1. ~Gone(d)
    BY <1>3, <1>5, <1>6 DEF Gone
  <2> QED BY <1>7, <1>10, <2>1 DEF LiveInsts
<1>12. QueuedInsts = Queue /\ QueuedInsts' = Queue'
  BY <1>1, <1>3 DEF QueuedInsts
<1>13. Static(d) = Static(i)
  BY <1>5, EvolvesStatic
<1>14. Flight' = Flight
  BY <1>8, <1>11, <1>12, <1>13 DEF Flight, Static
<1>15. iqReady' = iqReady \ {i.dst}
  BY <1>4, <1>5 DEF DispatchInst
<1>16. d = Dispatched(i) /\ Evolves(i, d) /\ d.runahead = i.runahead /\ ~d.squashed
       /\ d.state = i.state
  BY <1>5, <1>6
<1> QED BY <1>6, <1>7, <1>8, <1>9, <1>10, <1>11, <1>12, <1>13, <1>14, <1>15, <1>16

\* An instruction enters the ROB, or is dropped because it is squashed.
LEMMA FlightDispatch ==
  ASSUME TypeOK, HeldInv, FlightInv, DispatchInst
  PROVE  FlightInv'
<1>1. PICK i \in Queue, d \in RegInst :
        /\ Evolves(i, d) /\ d.runahead = i.runahead /\ ~d.squashed /\ ~Stale(i)
        /\ Insts' = Insts \cup {d} /\ Queue = Queue' \cup {i}
        /\ Flight' = Flight /\ \A j : Gone(j)' <=> Gone(j)
  BY DispatchEffect
<1>2. /\ phase = "dispatch" /\ ~sig.squash /\ status = "Running" /\ ~restoreNow /\ ~restoreNext
      /\ UNCHANGED <<phase, prog, fetchPos, nextSn, renameMap, history, freeList, sig, status,
                     squashTo, iewRange, pending, pc, inRunahead, restoreNext, restoreNow>>
  BY DEF DispatchInst, frontVars, mapVars, iewVars, commitVars, modeVars, wireVars, HeldInv,
         SignalPhases, AllGone, TypeOK
<1>3. Positions'
  BY <1>1, <1>2 DEF FlightInv, Positions, End
<1>4. SourcesLead'
  <2>1. SUFFICES ASSUME NEW x \in Flight PROVE SourceLeads(x)'
    BY <1>1 DEF SourcesLead
  <2>2. SourceLeads(x)
    BY DEF FlightInv, SourcesLead
  <2>3. PICK r, sn, p : r = prog[x.pos].src /\ sn = x.sn /\ p = x.src
    OBVIOUS
  <2>4. Leads(r, sn, p)' <=> Leads(r, sn, p)
    BY <1>2, SameMapLeads
  <2> QED BY <1>2, <2>2, <2>3, <2>4 DEF SourceLeads, Arch
<1>5. ModesAgree'
  <2>1. ModesAgree
    BY DEF FlightInv
  <2>2. inRunahead => \A j \in Insts' \cup Queue' : j.runahead
    BY <1>1, <2>1 DEF ModesAgree
  <2>3. ~Stale(d)
    BY <1>1 DEF Stale
  <2>4. ASSUME NEW j \in Insts, Stale(j), ~j.squashed PROVE FALSE
    <3>1. j \in LiveInsts
      BY <1>2, <2>4 DEF LiveInsts, Gone
    <3> QED BY <2>1, <2>4, <3>1 DEF ModesAgree
  <2>5. ~RestorePending'
    BY <1>2 DEF RestorePending
  <2> QED BY <1>1, <1>2, <2>2, <2>3, <2>4, <2>5 DEF ModesAgree, Stale
<1>6. QueuedWait'
  BY <1>1 DEF FlightInv, QueuedWait
<1>7. GoneRegisters'
  BY <1>1, <1>2 DEF GoneRegisters, Gone
<1>8. IewFollows'
  <2>1. \A j \in Insts : Gone(j) => SquashedForIew(j)
    BY <1>2 DEF FlightInv, IewFollows, OnWires
  <2>2. ~Gone(d)
    BY <1>1, <1>2 DEF Gone
  <2> QED BY <1>1, <1>2, <2>1, <2>2 DEF IewFollows, OnWires, SquashedForIew, Stale
<1>9. PendingOld'
  BY <1>1, <1>2 DEF FlightInv, PendingOld
<1> QED BY <1>3, <1>4, <1>5, <1>6, <1>7, <1>8, <1>9 DEF FlightInv

\* A squash leaves of what is in flight what is not younger than it says.
LEMMA SquashEffect ==
  ASSUME TypeOK, HeldInv, NEW to \in Int, NEW pos \in Nat, SquashFrom(to, pos),
         status = "ROBSquashing" => to <= squashTo
  PROVE  /\ InPlace /\ SameMode /\ status' = "ROBSquashing" /\ QueuedInsts' = {}
         /\ sig'.squash /\ sig'.done = to /\ sig'.pos = pos /\ End' = pos
         /\ \A k \in DOMAIN rob : Gone(rob[k])' <=> Gone(rob[k]) \/ to < rob[k].sn
         /\ \A j \in Insts' : j.sn <= sig'.tail
         /\ \A j \in Insts' : \E k \in DOMAIN rob :
              /\ j = rob'[k] /\ rob[k] \in Insts /\ Evolves(rob[k], j)
              /\ j.runahead = rob[k].runahead /\ (rob[k].squashed => j.squashed)
              /\ Gone(j)' <=> Gone(rob[k]) \/ to < rob[k].sn
         /\ \A j \in LiveInsts' : \E k \in DOMAIN rob :
              j = rob'[k] /\ rob[k] \in LiveInsts /\ rob[k].sn <= to
         /\ Flight' = {Static(i) : i \in {j \in LiveInsts : j.sn <= to}}
<1>1. /\ InPlace /\ SameMode
      /\ \A k \in DOMAIN rob : rob'[k].squashed => rob[k].squashed \/ to < rob[k].sn
      /\ rob # <<>> => squashTo' = to
      /\ sig'.squash /\ sig'.done = to /\ status' = "ROBSquashing"
      /\ sig'.tail = IF rob = <<>> THEN to ELSE rob[Len(rob)].sn
  BY SquashFromInPlace
<1>2. sig'.pos = pos /\ End' = pos
  BY <1>1 DEF SquashFrom, End
<1>3. QueuedInsts' = {}
  BY <1>1 DEF QueuedInsts
<1>4. ASSUME NEW k \in DOMAIN rob
      PROVE  /\ Gone(rob[k])' <=> Gone(rob[k]) \/ to < rob[k].sn
             /\ Evolves(rob[k], rob'[k]) /\ rob'[k].runahead = rob[k].runahead
             /\ rob'[k].sn = rob[k].sn /\ (rob[k].squashed => rob'[k].squashed)
             /\ rob[k].sn <= sig'.tail
  <2>1. /\ Evolves(rob[k], rob'[k]) /\ rob'[k].runahead = rob[k].runahead
        /\ rob'[k].sn = rob[k].sn /\ (rob[k].squashed => rob'[k].squashed)
    BY <1>1 DEF InPlace, SameMode, Evolves
  <2>2. squashTo' = to /\ squashTo \in Int /\ rob[k].sn \in Nat
    BY <1>1, FlightTypes
  <2>3. Gone(rob[k])' <=> Gone(rob[k]) \/ to < rob[k].sn
    BY <1>1, <2>1, <2>2 DEF Gone
  <2>4. rob[k].sn <= sig'.tail
    <3>1. rob # <<>> /\ k <= Len(rob) /\ Len(rob) \in DOMAIN rob /\ k \in Nat /\ Len(rob) \in Nat
      BY FlightTypes
    <3>2. k = Len(rob) \/ rob[k].sn < rob[Len(rob)].sn
      BY <3>1 DEF HeldInv, FlightOrder, AgeOrder
    <3>3. rob[Len(rob)].sn \in Nat
      BY <3>1, FlightTypes
    <3> QED BY <1>1, <2>2, <3>1, <3>2, <3>3
  <2> QED BY <2>1, <2>3, <2>4
<1>5. ASSUME NEW j \in Insts'
      PROVE  \E k \in DOMAIN rob :
              /\ j = rob'[k] /\ rob[k] \in Insts /\ Evolves(rob[k], j)
              /\ j.runahead = rob[k].runahead /\ (rob[k].squashed => j.squashed)
              /\ Gone(j)' <=> Gone(rob[k]) \/ to < rob[k].sn
  <2>1. PICK k \in DOMAIN rob : j = rob'[k]
    BY <1>1, <1>5 DEF InPlace, Insts, Range
  <2>2. rob[k] \in Insts
    BY DEF Insts, Range
  <2>3. Gone(j)' <=> Gone(rob[k])'
    BY <2>1 DEF Gone
  <2> QED BY <1>4, <2>1, <2>2, <2>3
<1>6. ASSUME NEW j \in LiveInsts'
      PROVE  \E k \in DOMAIN rob : j = rob'[k] /\ rob[k] \in LiveInsts /\ rob[k].sn <= to
  <2>1. j \in Insts' /\ ~Gone(j)'
    BY <1>6 DEF LiveInsts
  <2>2. PICK k \in DOMAIN rob :
          j = rob'[k] /\ rob[k] \in Insts /\ ~Gone(rob[k]) /\ ~(to < rob[k].sn)
    BY <1>5, <2>1
  <2>3. rob[k].sn \in Nat
    BY FlightTypes
  <2> QED BY <2>2, <2>3 DEF LiveInsts
<1>7. \A j \in Insts' : j.sn <= sig'.tail
  BY <1>1, <1>4 DEF InPlace, Insts, Range
<1>8. Flight' = {Static(i) : i \in {j \in LiveInsts : j.sn <= to}}
  <2>1. Flight' = {Static(i) : i \in LiveInsts'}
    BY <1>3 DEF Flight, Static
  <2>2. ASSUME NEW i \in LiveInsts, i.sn <= to
        PROVE  \E j \in LiveInsts' : Static(j) = Static(i)
    <3>1. PICK k \in DOMAIN rob : i = rob[k] /\ ~Gone(rob[k])
      BY DEF LiveInsts, Insts, Range
    <3>2. ~(to < rob[k].sn)
      BY <2>2, <3>1, FlightTypes
    <3>3. rob'[k] \in Insts' /\ ~Gone(rob[k])'
      BY <1>1, <1>4, <3>1, <3>2 DEF InPlace, Insts, Range
    <3>4. rob'[k] \in LiveInsts'
      BY <3>3 DEF LiveInsts, Gone
    <3> QED BY <1>4, <3>1, <3>4, EvolvesStatic
  <2>3. ASSUME NEW j \in LiveInsts'
        PROVE  \E i \in LiveInsts : i.sn <= to /\ Static(j) = Static(i)
    BY <1>4, <1>6, EvolvesStatic
  <2> QED BY <2>1, <2>2, <2>3
<1> QED BY <1>1, <1>2, <1>3, <1>4, <1>5, <1>6, <1>7, <1>8

\* What IEW asks for.
LEMMA IewSquashIs ==
  ASSUME TypeOK, SquashFromIew
  PROVE  \E n \in DOMAIN rob, to \in Int, pos \in Nat :
           /\ CanRedirect(rob[n]) /\ SquashFrom(to, pos) /\ rob[n] \in LiveInsts
           /\ status = "ROBSquashing" => to <= squashTo
           /\ \/ to = rob[n].sn /\ pos = rob[n].pos + 1
              \/ to = rob[n].sn - 1 /\ pos = rob[n].pos
<1>1. PICK n \in DOMAIN rob :
        /\ CanRedirect(rob[n])
        /\ \/ OpOf(rob[n]).kind = "branch" /\ SquashFrom(rob[n].sn, rob[n].pos + 1)
           \/ OpOf(rob[n]).kind = "load" /\ SquashFrom(rob[n].sn - 1, rob[n].pos)
  BY DEF SquashFromIew
<1>2. rob[n].sn \in Nat /\ rob[n].pos \in Nat /\ squashTo \in Int
  BY SeqFacts, InstFields DEF TypeOK
<1>3. status = "ROBSquashing" => rob[n].sn <= squashTo
  BY <1>1 DEF CanRedirect
<1>4. rob[n] \in LiveInsts
  BY <1>1, <1>2, <1>3 DEF CanRedirect, LiveInsts, Insts, Range, Gone
<1>5. CASE SquashFrom(rob[n].sn, rob[n].pos + 1)
  BY <1>1, <1>2, <1>3, <1>4, <1>5
<1>6. CASE SquashFrom(rob[n].sn - 1, rob[n].pos)
  <2>1. status = "ROBSquashing" => rob[n].sn - 1 <= squashTo
    BY <1>2, <1>3
  <2> QED BY <1>1, <1>2, <1>4, <1>6, <2>1
<1> QED BY <1>1, <1>5, <1>6

\* A squash for a branch or a violation: what is older goes on, fetch goes on behind it.
LEMMA FlightSquashFromIew ==
  ASSUME TypeOK, HeldInv, FlightInv, SquashFromIew
  PROVE  FlightInv'
<1>1. PICK n \in DOMAIN rob, to \in Int, pos \in Nat :
        /\ SquashFrom(to, pos) /\ rob[n] \in LiveInsts
        /\ status = "ROBSquashing" => to <= squashTo
        /\ \/ to = rob[n].sn /\ pos = rob[n].pos + 1
           \/ to = rob[n].sn - 1 /\ pos = rob[n].pos
  BY IewSquashIs
<1>2. /\ sig'.squash /\ sig'.done = to /\ End' = pos
      /\ \A j \in Insts' : j.sn <= sig'.tail
      /\ \A j \in Insts' : \E k \in DOMAIN rob :
              /\ j = rob'[k] /\ rob[k] \in Insts /\ Evolves(rob[k], j)
              /\ j.runahead = rob[k].runahead /\ (rob[k].squashed => j.squashed)
              /\ Gone(j)' <=> Gone(rob[k]) \/ to < rob[k].sn
      /\ Flight' = {Static(i) : i \in {j \in LiveInsts : j.sn <= to}}
  BY <1>1, SquashEffect
<1>3. /\ phase = "select" /\ phase' = "insts" /\ sig = NoSig
      /\ UNCHANGED <<prog, fetchPos, nextSn, renameNow, renameNext, renameMap, freeList,
                     history, pending, pc, inRunahead, restoreNext, restoreNow>>
  BY DEF SquashFromIew, frontVars, queueVars, mapVars, iewVars, modeVars, wireVars,
         HeldInv, SignalPhases
<1>4. sig.squash = FALSE /\ End = fetchPos
  BY <1>3 DEF NoSig, End
<1>5. PICK x0 \in Flight : x0 = Static(rob[n]) /\ x0.sn = rob[n].sn /\ x0.pos = rob[n].pos
  BY <1>1, StaticFields DEF Flight
<1>6. \A x \in Flight : /\ x.sn \in Nat /\ x.pos \in Nat /\ pc <= x.pos /\ x.pos < fetchPos
                        /\ \A y \in Flight : x.sn < y.sn => x.pos < y.pos
                        /\ \A y \in Flight : x.sn = y.sn => x = y
  BY <1>4, FlightFacts DEF FlightInv, Positions
<1>7. \A x \in Flight : x.sn <= to <=> x.pos < pos
  <2> TAKE x \in Flight
  <2>1. x.sn < x0.sn => x.pos < x0.pos
    BY <1>6
  <2>2. x0.sn < x.sn => x0.pos < x.pos
    BY <1>6
  <2>3. x.sn = x0.sn => x.pos = x0.pos
    BY <1>6
  <2>4. x.sn \in Nat /\ x.pos \in Nat /\ x0.sn \in Nat /\ x0.pos \in Nat
    BY <1>6
  <2>5. CASE to = x0.sn /\ pos = x0.pos + 1
    BY <2>1, <2>2, <2>3, <2>4, <2>5
  <2>6. CASE to = x0.sn - 1 /\ pos = x0.pos
    BY <2>1, <2>2, <2>3, <2>4, <2>6
  <2> QED BY <1>1, <1>5, <2>5, <2>6
<1>8. \A x \in Flight : x.sn <= to => x \in Flight'
  <2> SUFFICES ASSUME NEW x \in Flight, x.sn <= to PROVE x \in Flight'
    OBVIOUS
  <2>1. PICK i \in LiveInsts \cup QueuedInsts : x = Static(i) /\ x.sn = i.sn
    BY StaticFields DEF Flight
  <2>2. i \notin QueuedInsts
    <3>1. SUFFICES ASSUME i \in Queue PROVE FALSE
      BY InstFacts
    <3>2. rob[n] \in Insts /\ rob[n].sn < i.sn /\ rob[n].sn \in Nat /\ i.sn \in Nat
      BY <1>1, <3>1, InstFacts
    <3> QED BY <1>1, <2>1, <3>2
  <2> QED BY <1>2, <2>1, <2>2
<1>9. \A x \in Flight' : x \in Flight /\ x.sn <= to
  BY <1>2, StaticFields DEF Flight
<1>10. Positions'
  <2>1. pc \in Nat /\ fetchPos \in Nat /\ pc' = pc
    BY <1>3 DEF TypeOK
  <2>2. pc <= pos /\ pos <= fetchPos
    <3>1. pc <= x0.pos /\ x0.pos < fetchPos /\ x0.pos \in Nat
      BY <1>6
    <3>2. pos = x0.pos \/ pos = x0.pos + 1
      BY <1>1, <1>5
    <3> QED BY <2>1, <3>1, <3>2
  <2>3. \A x \in Flight' : pc <= x.pos /\ x.pos < pos
    BY <1>6, <1>7, <1>9
  <2>4. \A x, y \in Flight' : x.sn < y.sn => x.pos < y.pos
    BY <1>6, <1>9
  <2>5. ASSUME NEW q \in pc..(pos - 1) PROVE \E x \in Flight' : x.pos = q
    <3>1. q \in pc..(End - 1) /\ q < pos
      BY <1>4, <2>1, <2>2
    <3>2. PICK x \in Flight : x.pos = q
      BY <3>1 DEF FlightInv, Positions
    <3> QED BY <1>7, <1>8, <3>1, <3>2
  <2> QED BY <1>2, <1>3, <2>1, <2>2, <2>3, <2>4, <2>5 DEF Positions, IewPhases
<1>11. SourcesLead'
  <2>1. SUFFICES ASSUME NEW x \in Flight PROVE SourceLeads(x)'
    BY <1>9 DEF SourcesLead
  <2>2. SourceLeads(x)
    BY DEF FlightInv, SourcesLead
  <2>3. PICK r, sn, p : r = prog[x.pos].src /\ sn = x.sn /\ p = x.src
    OBVIOUS
  <2>4. Leads(r, sn, p)' <=> Leads(r, sn, p)
    BY <1>3, SameMapLeads
  <2> QED BY <1>3, <2>2, <2>3, <2>4 DEF SourceLeads, Arch
<1>12. Queue' = Queue
  BY <1>3 DEF Queue
<1>13. ModesAgree'
  <2>1. ModesAgree
    BY DEF FlightInv
  <2>2. inRunahead' => \A i \in Insts' \cup Queue' : i.runahead
    BY <1>2, <1>3, <1>12, <2>1 DEF ModesAgree
  <2>3. ASSUME NEW j \in Insts', Stale(j)', ~j.squashed PROVE FALSE
    <3>1. PICK k \in DOMAIN rob : rob[k] \in Insts /\ Stale(rob[k]) /\ ~rob[k].squashed
      BY <1>2, <1>3, <2>3 DEF Stale
    <3> QED BY <1>1, <2>1, <3>1 DEF ModesAgree
  <2>4. RestorePending' => \A i \in Insts' : Stale(i)'
    BY <1>2, <1>3, <2>1 DEF ModesAgree, Stale, RestorePending
  <2> QED BY <2>2, <2>3, <2>4 DEF ModesAgree
<1>14. QueuedWait' /\ PendingOld'
  BY <1>3, <1>12 DEF FlightInv, QueuedWait, PendingOld
<1>15. GoneRegisters'
  <2> SUFFICES ASSUME NEW j \in Insts', Gone(j)', ~j.squashed, ~Stale(j)', j.dst # None
               PROVE  \/ j.dst \in Range(freeList)
                      \/ \E h \in DOMAIN history : history[h].new = j.dst /\ to < history[h].sn
    BY <1>2, <1>3 DEF GoneRegisters
  <2>1. PICK k \in DOMAIN rob :
          /\ rob[k] \in Insts /\ Evolves(rob[k], j) /\ ~rob[k].squashed
          /\ ~Stale(rob[k]) /\ (Gone(rob[k]) \/ to < rob[k].sn)
    BY <1>2, <1>3 DEF Stale
  <2>2. rob[k].dst = j.dst
    BY <2>1 DEF Evolves
  <2>3. CASE Gone(rob[k])
    BY <1>4, <2>1, <2>2, <2>3 DEF FlightInv, GoneRegisters
  <2>4. CASE ~Gone(rob[k])
    <3>1. Recorded(rob[k])
      BY <2>1, <2>4, InstFacts DEF LiveInsts
    <3> QED BY <2>1, <2>2, <2>4, <3>1 DEF Recorded, Owns
  <2> QED BY <2>3, <2>4
<1>16. IewFollows'
  BY <1>2, <1>3 DEF IewFollows, OnWires
<1> QED BY <1>10, <1>11, <1>13, <1>14, <1>15, <1>16 DEF FlightInv

\* The exit from runahead leaves nothing in flight.
LEMMA ExitEffect ==
  ASSUME TypeOK, HeldInv, FlightInv, SquashFromRunaheadExit
  PROVE  /\ InPlace /\ SameMode /\ LiveInsts' = {} /\ QueuedInsts' = {} /\ Flight' = {}
         /\ sig'.squash /\ sig'.done = cause - 1 /\ End' = storedPc
         /\ \A i \in Insts' : Stale(i)' /\ i.sn <= sig'.tail
<1>1. cause - 1 \in Int /\ storedPc \in Nat /\ SquashFrom(cause - 1, storedPc) /\ inRunahead
  BY DEF TypeOK, SquashFromRunaheadExit
<1>2. PICK to \in Int, pos \in Nat : to = cause - 1 /\ pos = storedPc /\ SquashFrom(to, pos)
  BY <1>1
<1>3. /\ InPlace /\ SameMode
      /\ rob # <<>> => squashTo' = to
      /\ sig'.squash /\ sig'.done = to /\ status' = "ROBSquashing"
      /\ sig'.tail = IF rob = <<>> THEN to ELSE rob[Len(rob)].sn
  BY <1>2, SquashFromInPlace
<1>4. sig'.pos = pos
  BY <1>2 DEF SquashFrom
<1>5. ASSUME NEW j \in Insts'
      PROVE  Gone(j)' /\ Stale(j)' /\ j.sn <= sig'.tail
  <2>1. PICK k \in DOMAIN rob : j = rob'[k] /\ j.sn = rob[k].sn /\ j.runahead = rob[k].runahead
    BY <1>3, <1>5 DEF InPlace, SameMode, Evolves, Insts, Range
  <2>2. rob[k] \in Insts /\ rob[k].sn \in Nat /\ k \in Nat
    BY FlightTypes DEF Insts, Range
  <2>3. to < rob[k].sn
    BY <1>1, <1>2 DEF HeldInv, CauseOldest, Oldest
  <2>4. rob # <<>> /\ k <= Len(rob) /\ Len(rob) \in DOMAIN rob /\ Len(rob) \in Nat
    BY <2>2, FlightTypes
  <2>5. Gone(j)'
    BY <1>3, <2>1, <2>3, <2>4 DEF Gone
  <2>6. Stale(j)'
    <3>1. rob[k].runahead
      BY <1>1, <2>2 DEF FlightInv, ModesAgree
    <3> QED BY <2>1, <3>1 DEF Stale, SquashFromRunaheadExit
  <2>7. j.sn <= sig'.tail
    <3>1. k = Len(rob) \/ rob[k].sn < rob[Len(rob)].sn
      BY <2>2, <2>4 DEF HeldInv, FlightOrder, AgeOrder
    <3>2. rob[Len(rob)].sn \in Nat
      BY <2>4, FlightTypes
    <3> QED BY <1>3, <2>1, <2>2, <2>4, <3>1, <3>2
  <2> QED BY <2>5, <2>6, <2>7
<1>6. LiveInsts' = {}
  BY <1>5 DEF LiveInsts
<1>7. QueuedInsts' = {}
  BY <1>3 DEF QueuedInsts
<1>8. Flight' = {}
  BY <1>6, <1>7 DEF Flight
<1> QED BY <1>2, <1>3, <1>4, <1>5, <1>6, <1>7, <1>8 DEF End

\* The exit of runahead: nothing in flight stays, and fetch goes back to the cause.
LEMMA FlightExit ==
  ASSUME TypeOK, HeldInv, FlightInv, SquashFromRunaheadExit
  PROVE  FlightInv'
<1>1. /\ LiveInsts' = {} /\ Flight' = {} /\ sig'.squash /\ End' = storedPc
      /\ \A i \in Insts' : Stale(i)' /\ i.sn <= sig'.tail
  BY ExitEffect
<1>2. /\ phase' = "insts" /\ pc' = storedPc /\ storedPc \in Nat /\ inRunahead' = FALSE
      /\ UNCHANGED <<nextSn, renameNow, renameNext, pending>>
  BY DEF SquashFromRunaheadExit, frontVars, queueVars, iewVars, TypeOK
<1>3. Positions'
  BY <1>1, <1>2 DEF Positions, IewPhases
<1>4. SourcesLead'
  BY <1>1 DEF SourcesLead
<1>5. ModesAgree'
  BY <1>1, <1>2 DEF ModesAgree
<1>6. QueuedWait' /\ PendingOld'
  <2>1. Queue' = Queue
    BY <1>2 DEF Queue
  <2> QED BY <1>2, <2>1 DEF FlightInv, QueuedWait, PendingOld
<1>7. GoneRegisters'
  BY <1>1 DEF GoneRegisters
<1>8. IewFollows'
  BY <1>1, <1>2 DEF IewFollows, OnWires
<1> QED BY <1>3, <1>4, <1>5, <1>6, <1>7, <1>8 DEF FlightInv

\* What leaves at the head.
LEMMA HeadLeaves ==
  ASSUME TypeOK, HeldInv, AtHead, rob' = Tail(rob),
         UNCHANGED <<renameNow, renameNext, status, squashTo>>
  PROVE  /\ Head0 \in Insts /\ Insts = Insts' \cup {Head0} /\ Head0 \notin Insts'
         /\ Queue' = Queue /\ QueuedInsts' = QueuedInsts /\ QueuedInsts = Queue
         /\ \A i : Gone(i)' <=> Gone(i) /\ i.squashed
         /\ \A i : Gone(i) <=> i.squashed
         /\ LiveInsts' = LiveInsts \ {Head0}
         /\ \A i \in Insts' \cup Queue : Head0.sn < i.sn
<1>1. status = "Running" /\ rob # <<>> /\ FlightOrder
  BY DEF AtHead, HeldInv
<1>2. /\ 1 \in DOMAIN rob /\ DOMAIN rob' = 1..(Len(rob) - 1) /\ DOMAIN rob = 1..Len(rob)
      /\ Len(rob) \in Nat /\ \A k \in 1..(Len(rob) - 1) : rob'[k] = rob[k + 1]
  BY <1>1, SeqFacts DEF TypeOK
<1>3. Insts = Insts' \cup {Head0}
  <2>1. \A k \in DOMAIN rob : k = 1 \/ (k - 1 \in DOMAIN rob' /\ rob'[k - 1] = rob[k])
    BY <1>2
  <2>2. \A k \in DOMAIN rob' : k + 1 \in DOMAIN rob /\ rob'[k] = rob[k + 1]
    BY <1>2
  <2> QED BY <1>2, <2>1, <2>2 DEF Insts, Range, Head0
<1>4. ASSUME NEW i \in Insts' \cup Queue PROVE Head0.sn < i.sn
  <2>1. CASE i \in Insts'
    <3>1. PICK k \in DOMAIN rob' : i = rob'[k]
      BY <2>1 DEF Insts, Range
    <3>2. k + 1 \in DOMAIN rob /\ i = rob[k + 1] /\ 1 < k + 1
      BY <1>2, <3>1
    <3> QED BY <1>1, <1>2, <3>2 DEF FlightOrder, AgeOrder, Head0
  <2>2. CASE i \in Queue
    BY <1>3, <2>2, InstFacts
  <2> QED BY <1>4, <2>1, <2>2
<1>5. Head0 \in Insts /\ Head0.sn \in Nat
  BY <1>3, InstFacts
<1>6. Head0 \notin Insts'
  BY <1>4, <1>5
<1>7. \A i : (Gone(i)' <=> i.squashed) /\ (Gone(i) <=> i.squashed)
  BY <1>1 DEF Gone
<1>8. Queue' = Queue /\ QueuedInsts' = QueuedInsts /\ QueuedInsts = Queue
  BY <1>1 DEF Queue, QueuedInsts
<1>9. LiveInsts' = LiveInsts \ {Head0}
  BY <1>3, <1>6, <1>7 DEF LiveInsts
<1> QED BY <1>3, <1>4, <1>5, <1>6, <1>7, <1>8, <1>9

\* The head leaves the ROB.
LEMMA FlightLeaves ==
  ASSUME TypeOK, HeldInv, FlightInv, AtHead, rob' = Tail(rob),
         UNCHANGED <<phase, prog, fetchPos, nextSn, renameNow, renameNext, renameMap, freeList,
                     history, status, squashTo, iewRange, pending, inRunahead, restoreNext,
                     restoreNow>>,
         sig'.squash = sig.squash, Positions'
  PROVE  FlightInv'
<1>1. /\ Insts' \subseteq Insts /\ Queue' = Queue /\ QueuedInsts' = QueuedInsts
      /\ LiveInsts' \subseteq LiveInsts /\ \A i : (Gone(i)' <=> i.squashed) /\ (Gone(i) <=> i.squashed)
  BY HeadLeaves
<1>2. phase = "insts" /\ status = "Running" /\ sig.squash = FALSE
  BY DEF AtHead, HeldInv, SignalPhases, TypeOK
<1>3. Flight' \subseteq Flight
  BY <1>1 DEF Flight, Static
<1>4. SourcesLead'
  <2>1. SUFFICES ASSUME NEW x \in Flight PROVE SourceLeads(x)'
    BY <1>3 DEF SourcesLead
  <2>2. SourceLeads(x)
    BY DEF FlightInv, SourcesLead
  <2>3. PICK r, sn, p : r = prog[x.pos].src /\ sn = x.sn /\ p = x.src
    OBVIOUS
  <2>4. Leads(r, sn, p)' <=> Leads(r, sn, p)
    BY SameMapLeads
  <2> QED BY <2>2, <2>3, <2>4 DEF SourceLeads, Arch
<1>5. ModesAgree'
  BY <1>1 DEF FlightInv, ModesAgree, Stale, RestorePending
<1>6. QueuedWait' /\ PendingOld'
  BY <1>1 DEF FlightInv, QueuedWait, PendingOld
<1>7. GoneRegisters'
  BY <1>1 DEF GoneRegisters
<1>8. IewFollows'
  BY <1>1, <1>2 DEF FlightInv, IewFollows, OnWires, SquashedForIew, Stale
<1> QED BY <1>4, <1>5, <1>6, <1>7, <1>8 DEF FlightInv

\* A squashed head leaves: what is in flight is the same.
LEMMA FlightRetireSquashed ==
  ASSUME TypeOK, HeldInv, FlightInv, RetireSquashed
  PROVE  FlightInv'
<1>1. /\ AtHead /\ rob' = Tail(rob) /\ Head0.squashed
      /\ UNCHANGED <<phase, prog, fetchPos, nextSn, renameNow, renameNext, renameMap, freeList,
                     history, status, squashTo, iewRange, pending, inRunahead, restoreNext,
                     restoreNow, sig, pc>>
  BY DEF RetireSquashed, frontVars, queueVars, mapVars, iewVars, commitVars, modeVars, wireVars
<1>2. /\ QueuedInsts' = QueuedInsts /\ LiveInsts' = LiveInsts \ {Head0}
      /\ \A i : Gone(i) <=> i.squashed
  BY <1>1, HeadLeaves
<1>3. LiveInsts' = LiveInsts
  BY <1>1, <1>2 DEF LiveInsts
<1>4. Flight' = Flight
  BY <1>2, <1>3 DEF Flight, Static
<1>5. Positions'
  BY <1>1, <1>4 DEF FlightInv, Positions, End
<1> QED BY <1>1, <1>5, FlightLeaves

\* What commits is where the PC is.
LEMMA CommitEffect ==
  ASSUME TypeOK, HeldInv, FlightInv, CommitHead
  PROVE  /\ Head0 \in LiveInsts /\ Static(Head0) \in Flight /\ Head0.pos = pc /\ pc' = pc + 1
         /\ pc \in Nat /\ pc < End
         /\ Flight' = Flight \ {Static(Head0)}
         /\ LiveInsts' = LiveInsts \ {Head0} /\ QueuedInsts' = QueuedInsts
         /\ \A x \in Flight' : Head0.sn < x.sn
<1>1. AtHead /\ rob' = Tail(rob) /\ ~Head0.squashed /\ pc' = Head0.pos + 1
      /\ UNCHANGED <<renameNow, renameNext, status, squashTo>>
  BY DEF CommitHead, queueVars
<1>2. /\ Head0 \in Insts /\ Insts = Insts' \cup {Head0}
      /\ QueuedInsts' = QueuedInsts /\ QueuedInsts = Queue
      /\ \A i : Gone(i) <=> i.squashed
      /\ LiveInsts' = LiveInsts \ {Head0}
      /\ \A i \in Insts' \cup Queue : Head0.sn < i.sn
  BY <1>1, HeadLeaves
<1>3. Head0 \in LiveInsts
  BY <1>1, <1>2 DEF LiveInsts
<1>4. PICK x0 \in Flight : x0 = Static(Head0) /\ x0.sn = Head0.sn /\ x0.pos = Head0.pos
  BY <1>3, StaticFields DEF Flight
<1>5. \A x \in Flight' : Head0.sn < x.sn
  <2>1. \A i \in LiveInsts' \cup QueuedInsts' : Head0.sn < i.sn
    BY <1>2 DEF LiveInsts
  <2> QED BY <2>1, StaticFields DEF Flight, Static
<1>6. Flight' = Flight \ {Static(Head0)}
  <2>1. Flight = Flight' \cup {Static(Head0)}
    BY <1>2, <1>3 DEF Flight, Static
  <2>2. Head0.sn \in Nat
    BY <1>2, InstFacts
  <2>3. Static(Head0) \notin Flight'
    BY <1>4, <1>5, <2>2
  <2> QED BY <2>1, <2>3
<1>7. pc \in Nat /\ x0.pos \in Nat /\ pc <= x0.pos /\ x0.pos < End /\ End \in Nat
  BY FlightFacts DEF FlightInv, Positions, TypeOK, End
<1>8. x0.pos = pc
  <2>1. pc \in pc..(End - 1)
    BY <1>7
  <2>2. PICK x \in Flight : x.pos = pc
    BY <2>1 DEF FlightInv, Positions
  <2>3. CASE x = x0
    BY <2>2, <2>3
  <2>4. CASE x # x0
    <3>1. x0.sn < x.sn
      BY <1>4, <1>5, <1>6, <2>4
    <3>2. x0.pos < x.pos
      BY <3>1 DEF FlightInv, Positions
    <3> QED BY <1>7, <2>2, <3>2
  <2> QED BY <2>3, <2>4
<1> QED BY <1>1, <1>2, <1>3, <1>4, <1>5, <1>6, <1>7, <1>8

\* A live head commits: it is the one at the PC, and its mapping becomes commit's.
LEMMA FlightCommitHead ==
  ASSUME TypeOK, HeldInv, FlightInv, CommitHead
  PROVE  FlightInv'
<1>1. /\ AtHead /\ rob' = Tail(rob) /\ sig' = [sig EXCEPT !.done = Head0.sn]
      /\ UNCHANGED <<phase, prog, fetchPos, nextSn, renameNow, renameNext, renameMap, freeList,
                     history, status, squashTo, iewRange, pending, inRunahead, restoreNext,
                     restoreNow>>
  BY DEF CommitHead, frontVars, queueVars, mapVars, iewVars, modeVars, wireVars
<1>2. sig'.squash = sig.squash /\ sig'.pos = sig.pos
  BY <1>1 DEF TypeOK
<1>3. End' = End
  BY <1>1, <1>2 DEF End
<1>4. /\ Static(Head0) \in Flight /\ Head0.pos = pc /\ pc' = pc + 1
      /\ pc \in Nat /\ pc < End /\ Flight' = Flight \ {Static(Head0)}
      /\ \A x \in Flight' : Head0.sn < x.sn
  BY CommitEffect
<1>5. PICK x0 \in Flight : x0 = Static(Head0) /\ x0.sn = Head0.sn /\ x0.pos = pc
  BY <1>4, StaticFields
<1>6. End \in Nat /\ \A x \in Flight : x.pos \in Nat
  BY FlightFacts DEF End, TypeOK
<1>7. Positions'
  <2>1. \A x \in Flight' : pc + 1 <= x.pos /\ x.pos < End
    <3> SUFFICES ASSUME NEW x \in Flight' PROVE pc + 1 <= x.pos /\ x.pos < End
      OBVIOUS
    <3>1. x \in Flight /\ x0.sn < x.sn
      BY <1>4, <1>5
    <3>2. x0.pos < x.pos /\ x.pos < End /\ x.pos \in Nat
      BY <1>6, <3>1 DEF FlightInv, Positions
    <3> QED BY <1>4, <1>5, <3>2
  <2>2. \A x, y \in Flight' : x.sn < y.sn => x.pos < y.pos
    BY <1>4 DEF FlightInv, Positions
  <2>3. ASSUME NEW q \in (pc + 1)..(End - 1) PROVE \E x \in Flight' : x.pos = q
    <3>1. q \in pc..(End - 1) /\ q # pc
      BY <1>4, <1>6
    <3>2. PICK x \in Flight : x.pos = q
      BY <3>1 DEF FlightInv, Positions
    <3> QED BY <1>4, <1>5, <3>1, <3>2
  <2>4. pc + 1 <= End
    BY <1>4, <1>6
  <2>5. phase' \notin {"dispatch"} \cup IewPhases
    BY <1>1 DEF AtHead, IewPhases
  <2> QED BY <1>3, <1>4, <2>1, <2>2, <2>3, <2>4, <2>5 DEF Positions
<1> QED BY <1>1, <1>2, <1>7, FlightLeaves

\* All of it is of runahead now.
LEMMA RunaheadFields ==
  ASSUME NEW s \in Seq(RegInst)
  PROVE  LET t == SetRunahead(s)
         IN  /\ t \in Seq(RegInst) /\ DOMAIN t = DOMAIN s
             /\ \A k \in DOMAIN s :
                  /\ Static(t[k]) = Static(s[k]) /\ t[k].sn = s[k].sn /\ t[k].runahead
                  /\ t[k].state = s[k].state /\ t[k].srcReady = s[k].srcReady
                  /\ t[k].result = s[k].result /\ t[k].poisoned = s[k].poisoned
                  /\ t[k].squashed = s[k].squashed
                  /\ t[k].pos = s[k].pos /\ t[k].dst = s[k].dst /\ t[k].src = s[k].src
<1> DEFINE t == SetRunahead(s)
<1>1. t \in Seq(RegInst) /\ DOMAIN t = DOMAIN s
  BY RunaheadInst
<1>2. ASSUME NEW k \in DOMAIN s
      PROVE  /\ Static(t[k]) = Static(s[k]) /\ t[k].sn = s[k].sn /\ t[k].runahead
             /\ t[k].state = s[k].state /\ t[k].srcReady = s[k].srcReady
             /\ t[k].result = s[k].result /\ t[k].poisoned = s[k].poisoned
             /\ t[k].squashed = s[k].squashed
             /\ t[k].pos = s[k].pos /\ t[k].dst = s[k].dst /\ t[k].src = s[k].src
  <2>1. s[k] \in RegInst /\ t[k] = [s[k] EXCEPT !.runahead = TRUE]
    BY SeqFacts DEF SetRunahead
  <2> QED BY <2>1 DEF RegInst, Static
<1> QED BY <1>1, <1>2

\* What entry into runahead does to the instructions.
LEMMA EnterEffect ==
  ASSUME TypeOK, HeldInv, EnterRunahead
  PROVE  /\ InPlace /\ SameMarks /\ 1 \in DOMAIN rob /\ rob'[1].poisoned /\ Head0 = rob[1]
         /\ Head0 \in LiveInsts /\ Head0.state = "sent" /\ ~RestorePending
         /\ \A k \in DOMAIN rob :
              /\ Static(rob'[k]) = Static(rob[k]) /\ rob'[k].sn = rob[k].sn
              /\ rob'[k].pos = rob[k].pos /\ rob'[k].dst = rob[k].dst /\ rob'[k].src = rob[k].src
              /\ rob'[k].runahead /\ rob'[k].state = rob[k].state
              /\ rob'[k].srcReady = rob[k].srcReady /\ rob'[k].result = rob[k].result
              /\ k # 1 => rob'[k].poisoned = rob[k].poisoned
              /\ Gone(rob[k])' <=> Gone(rob[k])
         /\ renameNow = <<>> /\ QueuedInsts = Queue /\ QueuedInsts' = Queue'
         /\ Queue = Range(renameNext)
         /\ \A j \in Queue' : \E i \in Queue :
              /\ Static(j) = Static(i) /\ j.sn = i.sn /\ j.runahead
              /\ j.state = i.state /\ j.srcReady = i.srcReady /\ j.poisoned = i.poisoned
         /\ \A i \in Queue : \E j \in Queue' : Static(j) = Static(i)
         /\ Flight' = Flight
<1>1. /\ AtHead /\ phase = "insts" /\ status = "Running" /\ ~Head0.squashed
      /\ Head0.state = "sent" /\ rob # <<>>
      /\ rob' = [SetRunahead(rob) EXCEPT ![1].poisoned = TRUE]
      /\ renameNext' = SetRunahead(renameNext)
      /\ UNCHANGED <<status, squashTo, renameNow>>
  BY DEF EnterRunahead, LoadAtHead, AtHead, robVars, commitVars
<1>2. InPlace /\ SameMarks
  BY EnterInPlace
<1>3. rob \in Seq(RegInst) /\ renameNext \in Seq(RegInst) /\ 1 \in DOMAIN rob /\ Head0 = rob[1]
  BY <1>1, SeqFacts DEF TypeOK, Head0
<1>4. Head0 \in LiveInsts
  BY <1>1, <1>3 DEF LiveInsts, Insts, Range, Gone
<1>5. ~RestorePending
  BY <1>3, <1>4 DEF HeldInv, AllGone, LiveInsts
<1> DEFINE t == SetRunahead(rob)
<1>6. /\ t \in Seq(RegInst) /\ DOMAIN t = DOMAIN rob
      /\ \A k \in DOMAIN rob :
                  /\ Static(t[k]) = Static(rob[k]) /\ t[k].sn = rob[k].sn /\ t[k].runahead
                  /\ t[k].state = rob[k].state /\ t[k].srcReady = rob[k].srcReady
                  /\ t[k].result = rob[k].result /\ t[k].poisoned = rob[k].poisoned
                  /\ t[k].pos = rob[k].pos /\ t[k].dst = rob[k].dst /\ t[k].src = rob[k].src
  BY <1>3, RunaheadFields
<1> HIDE DEF t
<1>7. rob' = [t EXCEPT ![1].poisoned = TRUE]
  BY <1>1 DEF t
<1>8. ASSUME NEW k \in DOMAIN rob
      PROVE  /\ Static(rob'[k]) = Static(rob[k]) /\ rob'[k].sn = rob[k].sn
             /\ rob'[k].pos = rob[k].pos /\ rob'[k].dst = rob[k].dst /\ rob'[k].src = rob[k].src
             /\ rob'[k].runahead /\ rob'[k].state = rob[k].state
             /\ rob'[k].srcReady = rob[k].srcReady /\ rob'[k].result = rob[k].result
             /\ k # 1 => rob'[k].poisoned = rob[k].poisoned
             /\ k = 1 => rob'[k].poisoned
             /\ Gone(rob[k])' <=> Gone(rob[k])
  <2>1. t[k] \in RegInst
    BY <1>6, SeqFacts
  <2>2. rob'[k] = IF k = 1 THEN [t[k] EXCEPT !.poisoned = TRUE] ELSE t[k]
    BY <1>6, <1>7
  <2>3. rob'[k].squashed = rob[k].squashed
    BY <1>2 DEF SameMarks
  <2>4. /\ Static(rob'[k]) = Static(t[k]) /\ rob'[k].sn = t[k].sn
        /\ rob'[k].pos = t[k].pos /\ rob'[k].dst = t[k].dst /\ rob'[k].src = t[k].src
        /\ rob'[k].runahead = t[k].runahead /\ rob'[k].state = t[k].state
        /\ rob'[k].srcReady = t[k].srcReady /\ rob'[k].result = t[k].result
        /\ k # 1 => rob'[k].poisoned = t[k].poisoned
        /\ k = 1 => rob'[k].poisoned
    BY <2>1, <2>2 DEF RegInst, Static
  <2> QED BY <1>1, <1>6, <2>3, <2>4 DEF Gone
<1>9. renameNow = <<>>
  BY <1>1 DEF HeldInv, SignalPhases, CommitPhases
<1>10. Queue = Range(renameNext) /\ Queue' = Range(renameNext')
  <2>1. Range(<<>>) = {}
    BY DEF Range
  <2> QED BY <1>1, <1>9, <2>1 DEF Queue
<1>11. QueuedInsts = Queue /\ QueuedInsts' = Queue'
  BY <1>1 DEF QueuedInsts
<1> DEFINE u == SetRunahead(renameNext)
<1>12. /\ DOMAIN u = DOMAIN renameNext
       /\ \A k \in DOMAIN renameNext :
            /\ Static(u[k]) = Static(renameNext[k]) /\ u[k].sn = renameNext[k].sn
            /\ u[k].runahead /\ u[k].state = renameNext[k].state
            /\ u[k].srcReady = renameNext[k].srcReady /\ u[k].poisoned = renameNext[k].poisoned
  BY <1>3, RunaheadFields
<1> HIDE DEF u
<1>13. renameNext' = u
  BY <1>1 DEF u
<1>14. \A j \in Queue' : \E i \in Queue :
              /\ Static(j) = Static(i) /\ j.sn = i.sn /\ j.runahead
              /\ j.state = i.state /\ j.srcReady = i.srcReady /\ j.poisoned = i.poisoned
  BY <1>10, <1>12, <1>13 DEF Range
<1>15. \A i \in Queue : \E j \in Queue' : Static(j) = Static(i)
  BY <1>10, <1>12, <1>13 DEF Range
<1>16. Flight' = Flight
  <2>1. {Static(i) : i \in LiveInsts'} = {Static(i) : i \in LiveInsts}
    BY <1>2, <1>8, InPlaceInsts
  <2>2. {Static(i) : i \in Queue'} = {Static(i) : i \in Queue}
    BY <1>14, <1>15
  <2>3. /\ Flight = {Static(i) : i \in LiveInsts} \cup {Static(i) : i \in Queue}
        /\ Flight' = {Static(i) : i \in LiveInsts'} \cup {Static(i) : i \in Queue'}
    BY <1>11 DEF Flight, Static
  <2> QED BY <2>1, <2>2, <2>3
<1>17. /\ InPlace /\ SameMarks /\ 1 \in DOMAIN rob /\ rob'[1].poisoned /\ Head0 = rob[1]
       /\ Head0 \in LiveInsts /\ Head0.state = "sent" /\ ~RestorePending
  <2>1. rob'[1].poisoned
    BY <1>3, <1>8
  <2> QED BY <1>1, <1>2, <1>3, <1>4, <1>5, <2>1
<1>18. renameNow = <<>> /\ QueuedInsts = Queue /\ QueuedInsts' = Queue' /\ Queue = Range(renameNext)
  BY <1>9, <1>10, <1>11
<1> QED BY <1>8, <1>14, <1>15, <1>16, <1>17, <1>18

\* Entry: everything in flight is of runahead from here on.
LEMMA FlightEnter ==
  ASSUME TypeOK, HeldInv, FlightInv, EnterRunahead
  PROVE  FlightInv'
<1>1. /\ InPlace /\ ~RestorePending
      /\ \A k \in DOMAIN rob : rob'[k].runahead /\ (Gone(rob[k])' <=> Gone(rob[k]))
      /\ \A j \in Queue' : \E i \in Queue :
           /\ j.sn = i.sn /\ j.runahead /\ j.state = i.state /\ j.poisoned = i.poisoned
      /\ Flight' = Flight
  BY EnterEffect
<1>2. /\ phase = "insts" /\ phase' = "update" /\ status' = "Running" /\ status = "Running"
      /\ sig.squash = FALSE /\ inRunahead' = TRUE
      /\ UNCHANGED <<prog, fetchPos, nextSn, renameMap, freeList, history, squashTo, iewRange,
                     pending, pc, sig, restoreNext, restoreNow>>
  BY DEF EnterRunahead, LoadAtHead, AtHead, frontVars, mapVars, iewVars, commitVars, wireVars,
         HeldInv, SignalPhases, TypeOK
<1>3. Positions'
  BY <1>1, <1>2 DEF FlightInv, Positions, End, IewPhases
<1>4. SourcesLead'
  <2>1. SUFFICES ASSUME NEW x \in Flight PROVE SourceLeads(x)'
    BY <1>1 DEF SourcesLead
  <2>2. SourceLeads(x)
    BY DEF FlightInv, SourcesLead
  <2>3. PICK r, sn, p : r = prog[x.pos].src /\ sn = x.sn /\ p = x.src
    OBVIOUS
  <2>4. Leads(r, sn, p)' <=> Leads(r, sn, p)
    BY <1>2, SameMapLeads
  <2> QED BY <1>2, <2>2, <2>3, <2>4 DEF SourceLeads, Arch
<1>5. ModesAgree'
  <2>1. \A j \in Insts' \cup Queue' : j.runahead
    BY <1>1, InPlaceInsts
  <2>2. ~RestorePending'
    BY <1>1, <1>2 DEF RestorePending
  <2> QED BY <1>2, <2>1, <2>2 DEF ModesAgree, Stale
<1>6. QueuedWait'
  BY <1>1 DEF FlightInv, QueuedWait
<1>7. PendingOld'
  BY <1>1, <1>2 DEF FlightInv, PendingOld
<1>8. GoneRegisters'
  BY <1>2 DEF GoneRegisters, Gone
<1>9. IewFollows'
  BY <1>2 DEF IewFollows, OnWires, Gone, SquashedForIew
<1> QED BY <1>3, <1>4, <1>5, <1>6, <1>7, <1>8, <1>9 DEF FlightInv

\* At the end of a cycle.
LEMMA EndTickEffect ==
  ASSUME TypeOK, HeldInv, FlightInv, EndTick
  PROVE  /\ InPlace /\ SameMode /\ SameMarks
         /\ \A k \in DOMAIN rob :
              /\ Gone(rob[k])' <=> Gone(rob[k])
              /\ rob'[k] = rob[k] \/ (rob[k].state = "written" /\ rob'[k] = [rob[k] EXCEPT !.state = "done"])
         /\ Queue' = Queue /\ QueuedInsts' = QueuedInsts /\ Flight' = Flight
         /\ sig' = sig /\ (OnWires' <=> OnWires)
         /\ restoreNow => /\ LiveInsts = {} /\ Queue = {} /\ Flight = {}
                          /\ \A i \in Insts : Stale(i)
<1>1. InPlace /\ SameMode /\ SameMarks
  BY EndTickInPlace
<1>2. /\ phase = "update" /\ phase' = "events" /\ renameNow' = renameNext /\ renameNext' = <<>>
      /\ renameNow = <<>>
      /\ UNCHANGED <<sig, status, squashTo>>
  BY DEF EndTick, HeldInv, SignalPhases, CommitPhases
<1>3. ASSUME NEW k \in DOMAIN rob
      PROVE  /\ Gone(rob[k])' <=> Gone(rob[k])
             /\ rob'[k] = rob[k] \/ (rob[k].state = "written" /\ rob'[k] = [rob[k] EXCEPT !.state = "done"])
  <2>1. rob'[k].squashed = rob[k].squashed /\ rob'[k].sn = rob[k].sn
    BY <1>1 DEF InPlace, SameMarks, Evolves
  <2> QED BY <1>2, <2>1 DEF EndTick, Gone
<1>4. Queue' = Queue
  BY <1>2 DEF Queue
<1>5. QueuedInsts' = QueuedInsts
  BY <1>2, <1>4 DEF QueuedInsts
<1>6. Flight' = Flight
  <2>1. {Static(i) : i \in LiveInsts'} = {Static(i) : i \in LiveInsts}
    BY <1>1, <1>3, InPlaceInsts
  <2>2. /\ Flight = {Static(i) : i \in LiveInsts} \cup {Static(i) : i \in QueuedInsts}
        /\ Flight' = {Static(i) : i \in LiveInsts'} \cup {Static(i) : i \in QueuedInsts'}
    BY DEF Flight, Static
  <2> QED BY <1>5, <2>1, <2>2
<1>7. OnWires' <=> OnWires
  BY <1>2 DEF OnWires
<1>8. ASSUME restoreNow
      PROVE  /\ LiveInsts = {} /\ Queue = {} /\ Flight = {}
             /\ \A i \in Insts : Stale(i)
  <2>1. renameNext = <<>> /\ \A k \in DOMAIN rob : Gone(rob[k])
    BY <1>2, <1>8 DEF HeldInv, AllGone, CommitPhases, RestorePending
  <2>2. LiveInsts = {}
    BY <2>1 DEF LiveInsts, Insts, Range
  <2>3. Range(<<>>) = {}
    BY DEF Range
  <2>4. Queue = {}
    BY <1>2, <2>1, <2>3 DEF Queue
  <2>5. Flight = {}
    BY <2>2, <2>4 DEF Flight, QueuedInsts
  <2>6. \A i \in Insts : Stale(i)
    BY <1>8 DEF FlightInv, ModesAgree, RestorePending
  <2> QED BY <2>2, <2>4, <2>5, <2>6
<1> QED BY <1>1, <1>2, <1>3, <1>4, <1>5, <1>6, <1>7, <1>8

\* The cycle ends; the wires move on by one.
LEMMA FlightEndTick ==
  ASSUME TypeOK, HeldInv, FlightInv, EndTick
  PROVE  FlightInv'
<1>1. /\ InPlace /\ SameMode /\ \A k \in DOMAIN rob : Gone(rob[k])' <=> Gone(rob[k])
      /\ Queue' = Queue /\ QueuedInsts' = QueuedInsts /\ sig' = sig /\ (OnWires' <=> OnWires)
      /\ restoreNow => Flight = {} /\ \A i \in Insts : Stale(i)
  BY EndTickEffect
<1>2. /\ phase' = "events" /\ restoreNow' = restoreNext /\ restoreNext' = FALSE
      /\ UNCHANGED <<prog, fetchPos, nextSn, iewRange, pending, pc, inRunahead>>
      /\ ~restoreNow => UNCHANGED <<renameMap, freeList, history>>
  BY DEF EndTick, frontVars, iewVars, modeVars, mapVars
<1>3. RestorePending' => RestorePending
  BY <1>2 DEF RestorePending
<1>4. End' = End
  BY <1>1, <1>2 DEF End
<1>5. GoneRegisters'
  <2> SUFFICES ASSUME NEW j \in Insts', Gone(j)', ~j.squashed, ~Stale(j)', j.dst # None
               PROVE  \/ j.dst \in Range(freeList')
                      \/ sig.squash /\ \E h \in DOMAIN history' :
                           history'[h].new = j.dst /\ sig.done < history'[h].sn
    BY <1>1 DEF GoneRegisters
  <2>1. PICK k \in DOMAIN rob :
          /\ rob[k] \in Insts /\ Gone(rob[k]) /\ ~rob[k].squashed /\ ~Stale(rob[k])
          /\ rob[k].dst = j.dst
    BY <1>1, <1>2, PlaceBefore DEF Stale
  <2>2. ~restoreNow
    BY <1>1, <2>1
  <2> QED BY <1>2, <2>1, <2>2 DEF FlightInv, GoneRegisters
<1>6. IewFollows'
  <2>1. IewFollows
    BY DEF FlightInv
  <2>2. CASE OnWires
    BY <1>1, <1>2, <2>1, <2>2, PlaceBefore DEF IewFollows
  <2>3. CASE ~OnWires
    <3> SUFFICES ASSUME NEW j \in Insts', Gone(j)' PROVE SquashedForIew(j)'
      BY <1>1, <2>3 DEF IewFollows
    <3>1. PICK k \in DOMAIN rob :
            /\ rob[k] \in Insts /\ Gone(rob[k]) /\ j.sn = rob[k].sn
            /\ j.runahead = rob[k].runahead /\ (rob[k].squashed => j.squashed)
      BY <1>1, PlaceBefore
    <3>2. SquashedForIew(rob[k])
      BY <2>1, <2>3, <3>1 DEF IewFollows
    <3> QED BY <1>2, <3>1, <3>2 DEF SquashedForIew, Stale
  <2> QED BY <2>2, <2>3
<1>7. PendingFromRob
  BY <1>2 DEF PendingFromRob
<1>8. sig'.squash /\ phase' \in {"dispatch"} \cup IewPhases => fetchPos' = sig'.pos
  BY <1>2 DEF IewPhases
<1>9. UNCHANGED <<renameMap, history>> \/ Flight = {}
  BY <1>1, <1>2
<1> QED BY <1>1, <1>2, <1>3, <1>4, <1>5, <1>6, <1>7, <1>8, <1>9, FlightInPlace

\* FlightInv holds to begin with.
LEMMA FlightInit == Init => FlightInv
<1> SUFFICES ASSUME Init PROVE FlightInv
  OBVIOUS
<1>1. /\ rob = <<>> /\ renameNow = <<>> /\ renameNext = <<>> /\ pending = {}
      /\ sig.squash = FALSE /\ pc = 1 /\ fetchPos = 1 /\ inRunahead = FALSE
      /\ restoreNext = FALSE /\ restoreNow = FALSE
  BY DEF Init, NoSig
<1>2. Range(<<>>) = {}
  BY DEF Range
<1>3. Insts = {} /\ Queue = {}
  BY <1>1, <1>2 DEF Insts, Queue
<1>4. LiveInsts = {} /\ QueuedInsts = {}
  BY <1>3 DEF LiveInsts, QueuedInsts
<1>5. Flight = {}
  BY <1>4 DEF Flight
<1>6. Positions
  BY <1>1, <1>5 DEF Positions, End
<1> QED BY <1>1, <1>3, <1>5, <1>6 DEF FlightInv, SourcesLead, ModesAgree, QueuedWait,
        GoneRegisters, IewFollows, PendingOld, OnWires, RestorePending

\* Every step keeps FlightInv.
LEMMA FlightStep == TypeOK /\ HeldInv /\ FlightInv /\ [Next]_vars => FlightInv'
<1> SUFFICES ASSUME TypeOK, HeldInv, FlightInv, [Next]_vars PROVE FlightInv'
  OBVIOUS
<1>1. CASE \/ \E k \in DOMAIN rob : LoadReturns(k)
           \/ StartTick \/ SquashRename \/ RenameDone \/ FreeDone \/ DispatchDone
           \/ Execute \/ ExecuteDone \/ WriteBack \/ Issue
           \/ SelectNothing \/ PoisonRunaheadLLL \/ StopCommit
  BY <1>1, FlightQuietActions
<1>2. CASE UndoRename
  BY <1>2, FlightUndo
<1>3. CASE RenameInst
  BY <1>3, FlightRename
<1>4. CASE FreePrevious
  BY <1>4, FlightFree
<1>5. CASE SquashIew
  BY <1>5, FlightSquashIew
<1>6. CASE DispatchInst
  BY <1>6, FlightDispatch
<1>7. CASE IewDone
  BY <1>7, FlightIewDone
<1>8. CASE RobWalk
  BY <1>8, FlightWalk
<1>9. CASE SquashFromIew
  BY <1>9, FlightSquashFromIew
<1>10. CASE SquashFromRunaheadExit
  BY <1>10, FlightExit
<1>11. CASE RetireSquashed
  BY <1>11, FlightRetireSquashed
<1>12. CASE CommitHead
  BY <1>12, FlightCommitHead
<1>13. CASE EnterRunahead
  BY <1>13, FlightEnter
<1>14. CASE EndTick
  BY <1>14, FlightEndTick
<1>15. CASE UNCHANGED vars
  <2>1. /\ rob' = rob /\ renameNow' = renameNow /\ renameNext' = renameNext /\ status' = status
        /\ squashTo' = squashTo /\ phase' = phase /\ prog' = prog /\ fetchPos' = fetchPos
        /\ nextSn' = nextSn /\ renameMap' = renameMap /\ freeList' = freeList
        /\ history' = history /\ sig' = sig /\ iewRange' = iewRange /\ pending' = pending
        /\ pc' = pc /\ inRunahead' = inRunahead /\ restoreNext' = restoreNext
        /\ restoreNow' = restoreNow
    BY <1>15 DEF vars, frontVars, queueVars, mapVars, robVars, iewVars, commitVars, modeVars,
                 wireVars
  <2> QED BY <2>1, FlightHistory, SameMapLeads
<1> QED BY <1>1, <1>2, <1>3, <1>4, <1>5, <1>6, <1>7, <1>8, <1>9, <1>10, <1>11, <1>12, <1>13,
           <1>14, <1>15 DEF Next

-----------------------------------------------------------------------------
(* Who may write what.                                                      *)

Inv == TypeOK /\ RegInv /\ HeldInv /\ FlightInv

\* What runahead left behind is alone.
LEMMA StaleAlone ==
  ASSUME Inv, NEW i \in Insts, Stale(i), ~i.squashed
  PROVE  LiveInsts = {} /\ QueuedInsts = {} /\ Flight = {}
<1>1. LiveInsts = {}
  BY DEF Inv, FlightInv, ModesAgree
<1>2. QueuedInsts = {}
  <2>1. SUFFICES ASSUME status = "Running" PROVE FALSE
    BY DEF QueuedInsts
  <2>2. ~Gone(i)
    BY <2>1 DEF Gone
  <2> QED BY <1>1, <2>2 DEF LiveInsts
<1> QED BY <1>1, <1>2 DEF Flight

\* What lives is of the mode the machine is in, and no restore is on its way.
LEMMA LiveMode ==
  ASSUME Inv, NEW i \in LiveInsts
  PROVE  /\ i \in Insts /\ i \in RegInst /\ ~i.squashed /\ ~Gone(i) /\ ~Stale(i)
         /\ i.runahead <=> inRunahead
         /\ ~RestorePending /\ Static(i) \in Flight
<1>1. i \in Insts /\ ~Gone(i) /\ ~i.squashed
  BY DEF LiveInsts, Gone
<1>2. i \in RegInst /\ i.runahead \in BOOLEAN /\ inRunahead \in BOOLEAN
  BY <1>1, InstFacts, InstFields DEF Inv, TypeOK
<1>3. ~Stale(i)
  BY <1>1, StaleAlone
<1>4. inRunahead => i.runahead
  BY <1>1 DEF Inv, FlightInv, ModesAgree
<1>5. ~RestorePending
  BY <1>1 DEF Inv, HeldInv, AllGone, Insts, Range
<1>6. Static(i) \in Flight
  BY DEF Flight
<1> QED BY <1>1, <1>2, <1>3, <1>4, <1>5, <1>6 DEF Stale

\* What an instruction that runs may write is not what someone reads.
LEMMA WriterAway ==
  ASSUME Inv, NEW i \in Insts, ~i.squashed, i.dst # None
  PROVE  /\ \A r \in Arch, sn \in Int : \A p :
              /\ Leads(r, sn, p) /\ ~Stale(i)
              /\ ~Gone(i) => sn <= i.sn
              /\ Gone(i) /\ sig.squash => sn <= 0 \/ sn <= sig.done + 1
              => p # i.dst
         /\ \A x \in Flight : x.dst = i.dst => i \in LiveInsts /\ x = Static(i)
<1>0. TypeOK /\ RegInv /\ HeldInv /\ FlightInv
  BY DEF Inv
<1>1. CASE ~Gone(i)
  <2>1. i \in LiveInsts /\ Static(i) \in Flight /\ Static(i).dst = i.dst /\ Static(i).sn = i.sn
    BY <1>1, StaticFields DEF LiveInsts, Flight
  <2>2. \A r \in Arch, sn \in Int : \A p : Leads(r, sn, p) /\ sn <= i.sn => p # i.dst
    BY <1>0, <2>1, LeadsApart
  <2>3. \A x \in Flight : x.dst = i.dst => x = Static(i)
    BY <1>0, <2>1, FlightDst
  <2> QED BY <1>1, <2>1, <2>2, <2>3
<1>2. CASE Gone(i)
  <2>1. ~Stale(i) =>
          \/ i.dst \in Range(freeList)
          \/ sig.squash /\ \E h \in DOMAIN history :
               history[h].new = i.dst /\ sig.done < history[h].sn
    BY <1>0, <1>2 DEF FlightInv, GoneRegisters
  <2>2. \A h \in DOMAIN history : history[h].sn \in Nat /\ sig.done \in Int
    BY <1>0, FlightTypes
  <2>3. ASSUME NEW r \in Arch, NEW sn \in Int, NEW p, Leads(r, sn, p), ~Stale(i),
               sig.squash => sn <= 0 \/ sn <= sig.done + 1
        PROVE  p # i.dst
    <3>1. /\ p \notin Range(freeList)
          /\ \A h \in DOMAIN history : sn <= history[h].sn => history[h].new # p
      BY <1>0, <2>3, LeadsApart
    <3>2. \A h \in DOMAIN history : sig.squash /\ sig.done < history[h].sn => sn <= history[h].sn
      BY <2>2, <2>3
    <3> QED BY <2>1, <2>3, <3>1, <3>2
  <2>4. ASSUME NEW x \in Flight, x.dst = i.dst PROVE FALSE
    <3>1. ~Stale(i)
      BY <2>4, StaleAlone
    <3>2. /\ x.dst \notin Range(freeList)
          /\ \A h \in DOMAIN history : history[h].new = x.dst => history[h].sn = x.sn
      BY <1>0, <2>4, FlightDst
    <3>3. sig.squash => x.sn <= sig.done /\ x.sn \in Nat
      BY <1>0, FlightFacts
    <3> QED BY <2>1, <2>2, <2>4, <3>1, <3>2, <3>3
  <2> QED BY <1>2, <2>3, <2>4
<1> QED BY <1>1, <1>2

\* What an instruction that may issue reads is not written any more.
LEMMA SourceAway ==
  ASSUME Inv, NEW i \in LiveInsts, SourceWritten(i), i.srcReady, i.src # None,
         NEW j \in Insts, ~j.squashed, ~Stale(j), j.state \in {"issued", "sent"}
  PROVE  j.dst # i.src
<1>1. SUFFICES ASSUME j.dst # None PROVE j.dst # i.src
  OBVIOUS
<1>2. /\ Static(i) \in Flight /\ Static(i).sn = i.sn /\ Static(i).src = i.src
      /\ Static(i).pos = i.pos
  BY StaticFields DEF Flight
<1>3. PICK r, sn, p : r = prog[i.pos].src /\ sn = i.sn /\ p = i.src
  OBVIOUS
<1>4. r \in Arch /\ Leads(r, sn, p)
  BY <1>2, <1>3 DEF Inv, FlightInv, SourcesLead, SourceLeads
<1>5. sn \in Nat /\ j.sn \in Nat /\ sig.done \in Int /\ (sig.squash => sn <= sig.done)
  BY <1>3, InstFacts, FlightTypes DEF Inv
<1>6. CASE Gone(j) \/ sn <= j.sn
  BY <1>1, <1>3, <1>4, <1>5, <1>6, WriterAway
<1>7. CASE ~Gone(j) /\ j.sn < sn
  <2>1. Static(j) \in InProduction
    BY <1>7 DEF InProduction, LiveInsts, Unwritten
  <2> QED BY <1>3, <1>7, <2>1, StaticFields DEF SourceWritten
<1> QED BY <1>5, <1>6, <1>7

\* An instruction that may issue reads what in-order execution gives it, or in
\* runahead something poisoned.
LEMMA ReadyTrue ==
  ASSUME Inv, ValueInv, NEW i \in LiveInsts, SourceWritten(i), i.srcReady, i.src # None
  PROVE  value[i.src] = InOrderSource(i) \/ (inRunahead /\ i.src \in poison)
<1>0. TypeOK /\ RegInv /\ HeldInv /\ FlightInv /\ ResultsTrue /\ BaseTrue
  BY DEF Inv, ValueInv
<1>1. /\ Static(i) \in Flight /\ Static(i).sn = i.sn /\ Static(i).src = i.src
      /\ Static(i).pos = i.pos
  BY StaticFields DEF Flight
<1>2. PICK x, r : /\ x \in Flight /\ x = Static(i) /\ r = prog[x.pos].src
                  /\ x.src = i.src /\ x.sn = i.sn /\ x.pos = i.pos
  BY <1>1
<1>3. /\ InOrderSource(i) = LastWriter(x.pos, r)
      /\ r \in Arch
  BY <1>0, <1>2 DEF InOrderSource, OpOf, FlightInv, SourcesLead, SourceLeads
<1>4. \/ \E y \in Flight :
           y.sn < x.sn /\ y.dst = x.src /\ LastWriter(x.pos, r) = y.pos
      \/ Leads(r, CommitSn, x.src) /\ LastWriter(x.pos, r) = LastWriter(pc, r)
  BY <1>0, <1>2, Producer DEF FlightInv
<1>5. CASE \E y \in Flight :
             y.sn < x.sn /\ y.dst = x.src /\ LastWriter(x.pos, r) = y.pos
  <2>1. PICK y \in Flight : y.sn < x.sn /\ y.dst = x.src /\ LastWriter(x.pos, r) = y.pos
    BY <1>5
  <2>2. y \notin InProduction
    BY <1>2, <2>1 DEF SourceWritten
  <2>3. PICK j \in LiveInsts : y = Static(j) /\ ~Unwritten(j)
    BY <2>2 DEF Flight, InProduction
  <2>4. y.dst = j.dst /\ y.pos = j.pos
    BY <2>3, StaticFields
  <2>5. j.state \in {"written", "done"}
    BY <2>3, LiveMode, InstFields DEF Unwritten, States
  <2>6. ResultTrue(j)
    BY <1>0 DEF ResultsTrue
  <2>7. CASE j.poisoned
    BY <1>2, <2>1, <2>4, <2>5, <2>6, <2>7, LiveMode DEF ResultTrue
  <2>8. CASE ~j.poisoned
    BY <1>2, <1>3, <2>1, <2>4, <2>5, <2>6, <2>8 DEF ResultTrue
  <2> QED BY <2>7, <2>8
<1>6. CASE Leads(r, CommitSn, x.src) /\ LastWriter(x.pos, r) = LastWriter(pc, r)
  <2>1. PICK p \in Phys : Leads(r, CommitSn, p) /\ Holds(p, r)
    BY <1>0, <1>3, LiveMode DEF BaseTrue
  <2>2. CommitSn \in Int
    BY <1>0, FlightTypes DEF CommitSn
  <2>3. p = x.src
    BY <1>0, <1>3, <1>6, <2>1, <2>2, LeadsApart
  <2> QED BY <1>2, <1>3, <1>6, <2>1, <2>3 DEF Holds
<1> QED BY <1>4, <1>5, <1>6

-----------------------------------------------------------------------------
(* Steps that change nothing of what is live but what is marked.            *)

\* The part of the invariant that is about what is live.
Live == NotReadyYet /\ ResultsTrue /\ SourcesWritten /\ IssuedTrue /\ PendingOnce

\* Equal but for the mark of the squash.
Like(i, j) ==
  /\ j.sn = i.sn /\ j.pos = i.pos /\ j.dst = i.dst /\ j.src = i.src
  /\ j.srcReady = i.srcReady /\ j.state = i.state /\ j.result = i.result
  /\ j.runahead = i.runahead /\ j.poisoned = i.poisoned

\* What holds of live instructions stays so when fewer are alive and no register is written.
LEMMA LiveFrame ==
  ASSUME Live, \A j \in LiveInsts' : \E i \in LiveInsts : Like(i, j),
         QueuedInsts' \subseteq QueuedInsts,
         UNCHANGED <<prog, value, poison, ready, iqReady, pending>>
  PROVE  Live'
<1>1. InProduction' \subseteq InProduction
  BY DEF InProduction, Unwritten, Like, Static
<1>2. NotReadyYet'
  BY <1>1 DEF Live, NotReadyYet, Unwritten, Like
<1>3. ResultsTrue'
  BY DEF Live, ResultsTrue, ResultTrue, Like
<1>4. SourcesWritten'
  BY <1>1 DEF Live, SourcesWritten, SourceWritten, Like
<1>5. IssuedTrue'
  <2> SUFFICES ASSUME NEW j \in LiveInsts', j.state = "issued"
               PROVE  j.srcReady /\ SourceHolds(j)'
    BY DEF IssuedTrue
  <2>1. PICK i \in LiveInsts : Like(i, j)
    OBVIOUS
  <2>2. i.srcReady /\ SourceHolds(i)
    BY <2>1 DEF Live, IssuedTrue, Like
  <2>3. InOrderSource(j)' = InOrderSource(i)
    BY <2>1 DEF InOrderSource, OpOf, LastWriter, Like
  <2> QED BY <2>1, <2>2, <2>3 DEF SourceHolds, Like
<1>6. PendingOnce'
  BY DEF Live, PendingOnce, Like
<1> QED BY <1>2, <1>3, <1>4, <1>5, <1>6 DEF Live

\* The mapping of the next to commit, where the history is left alone.
LEMMA BaseFrame ==
  ASSUME TypeOK, BaseTrue, RestorePending => RestorePending',
         UNCHANGED <<history, renameMap, prog, pc>>, inRunahead => inRunahead',
         \A k \in DOMAIN history : CommitSn <= history[k].sn <=> CommitSn' <= history[k].sn,
         \A r \in Arch : \A p \in Phys : ~RestorePending /\ Leads(r, CommitSn, p) =>
           value'[p] = value[p] /\ (inRunahead /\ p \in poison => p \in poison')
  PROVE  BaseTrue'
<1> SUFFICES ASSUME ~RestorePending', NEW r \in Arch
             PROVE  \E p \in Phys : Leads(r, CommitSn, p)' /\ Holds(p, r)'
  BY DEF BaseTrue, Arch, Phys
<1>1. PICK p \in Phys : Leads(r, CommitSn, p) /\ Holds(p, r)
  BY DEF BaseTrue
<1>2. PICK a, b : a = CommitSn /\ b = CommitSn'
  OBVIOUS
<1>3. Leads(r, b, p)
  BY <1>1, <1>2, SameSince
<1>4. Leads(r, b, p)' <=> Leads(r, b, p)
  BY SameMapLeads
<1>5. Leads(r, CommitSn, p)'
  BY <1>2, <1>3, <1>4
<1>6. LastWriter(pc, r)' = LastWriter(pc, r)
  BY DEF LastWriter
<1>7. Holds(p, r)'
  BY <1>1, <1>6 DEF Holds
<1> QED BY <1>5, <1>7

\* The checkpoint is taken at entry, and the restore returns to the place it is of.
LEMMA CheckpointFrame ==
  ASSUME CheckpointTrue, UNCHANGED <<prog, storedPc, checkpoint>>,
         inRunahead' => inRunahead, RestorePending' => RestorePending /\ pc' = pc
  PROVE  CheckpointTrue'
<1>1. \A r : LastWriter(storedPc, r)' = LastWriter(storedPc, r)
  BY DEF LastWriter
<1> QED BY <1>1 DEF CheckpointTrue, Arch

\* What a squash hits stays as it is on the wires.
LEMMA WiresFrame ==
  ASSUME WiresTrue, UNCHANGED <<prog, value, inRunahead, iewRange, status, squashTo, sig>>,
         UNCHANGED <<poison, rob>>, OnWires' => OnWires,
         OnWires' /\ phase' \in {"insts", "update", "events"} =>
           phase \in {"insts", "update", "events"}
  PROVE  WiresTrue'
<1>1. \A i : /\ Gone(i)' <=> Gone(i)
             /\ SquashedForIew(i)' <=> SquashedForIew(i)
             /\ Stale(i)' <=> Stale(i)
  BY DEF Gone, SquashedForIew, Stale
<1>2. \A i : SourceHolds(i)' <=> SourceHolds(i)
  BY DEF SourceHolds, InOrderSource, LastWriter, OpOf
<1>3. Insts' = Insts
  BY DEF Insts
<1> QED BY <1>1, <1>2, <1>3 DEF WiresTrue

\* A step that neither moves instructions nor touches registers.
LEMMA ValueStill ==
  ASSUME TypeOK, ValueInv,
         UNCHANGED <<prog, rob, squashTo, renameNow, renameNext, renameMap, history, ready, iqReady,
                     value, poison, iewRange, pending, sig, status, pc, inRunahead,
                     storedPc, checkpoint, restoreNext, restoreNow>>,
         OnWires' => OnWires,
         OnWires' /\ phase' \in {"insts", "update", "events"} =>
           phase \in {"insts", "update", "events"}
  PROVE  ValueInv'
<1>1. LiveInsts' = LiveInsts /\ QueuedInsts' = QueuedInsts
  BY FlightSameInsts
<1>2. Live'
  BY <1>1, LiveFrame DEF ValueInv, Live, Like
<1>3. RestorePending' <=> RestorePending
  BY DEF RestorePending
<1>4. CommitSn' = CommitSn
  BY DEF CommitSn
<1>5. BaseTrue'
  BY <1>3, <1>4, BaseFrame DEF ValueInv
<1>6. CheckpointTrue'
  BY <1>3, CheckpointFrame DEF ValueInv
<1>7. WiresTrue'
  BY WiresFrame DEF ValueInv
<1> QED BY <1>2, <1>5, <1>6, <1>7 DEF ValueInv, Live

LEMMA ValueStillActions ==
  ASSUME TypeOK, HeldInv, ValueInv,
         \/ StartTick \/ SquashRename \/ RenameDone \/ FreeDone \/ DispatchDone
         \/ ExecuteDone \/ SelectNothing \/ StopCommit \/ UNCHANGED vars
  PROVE  ValueInv'
<1>1. UNCHANGED <<prog, rob, squashTo, renameNow, renameNext, renameMap, history, ready, iqReady,
                     value, poison, iewRange, pending, sig, status, pc, inRunahead,
                     storedPc, checkpoint, restoreNext, restoreNow>>
  BY DEF StartTick, SquashRename, RenameDone, FreeDone, DispatchDone, ExecuteDone,
         SelectNothing, StopCommit, vars, frontVars, queueVars, mapVars, readyVars, regVars,
         robVars, iewVars, commitVars, modeVars, saveVars, wireVars
<1>2. \/ phase' = phase
      \/ phase = "events" /\ phase' = "rename"
      \/ phase = "rename" /\ phase' = "dispatch"
      \/ ~sig.squash
      \/ phase' \notin {"insts", "update", "events", "rename", "dispatch"}
      \/ phase = "insts" /\ phase' = "update"
  BY DEF StartTick, SquashRename, RenameDone, FreeDone, DispatchDone, ExecuteDone,
         SelectNothing, StopCommit, vars, HeldInv, SignalPhases, NoSig
<1>3. /\ OnWires' => OnWires
      /\ OnWires' /\ phase' \in {"insts", "update", "events"} =>
           phase \in {"insts", "update", "events"}
  BY <1>1, <1>2 DEF OnWires
<1> QED BY <1>1, <1>3, ValueStill

-----------------------------------------------------------------------------
(* Rename.                                                                  *)

\* The history changes, and with it the mapping of the next to commit.
LEMMA ValueHistory ==
  ASSUME TypeOK, HeldInv, ValueInv,
         UNCHANGED <<phase, prog, rob, squashTo, renameNow, renameNext, ready, iqReady,
                     value, poison, iewRange, pending, sig, status, pc, inRunahead,
                     storedPc, checkpoint, restoreNext, restoreNow>>,
         \A r \in Arch : \A p \in Phys : Leads(r, CommitSn, p) => Leads(r, CommitSn, p)'
  PROVE  ValueInv'
<1>1. LiveInsts' = LiveInsts /\ QueuedInsts' = QueuedInsts
  BY FlightSameInsts
<1>2. Live'
  BY <1>1, LiveFrame DEF ValueInv, Live, Like
<1>3. RestorePending' <=> RestorePending
  BY DEF RestorePending
<1>4. BaseTrue'
  <2> SUFFICES ASSUME ~RestorePending, NEW r \in Arch
               PROVE  \E p \in Phys : Leads(r, CommitSn, p)' /\ Holds(p, r)'
    BY <1>3 DEF BaseTrue, Arch, Phys
  <2>1. PICK p \in Phys : Leads(r, CommitSn, p) /\ Holds(p, r)
    BY DEF ValueInv, BaseTrue
  <2>2. Holds(p, r)'
    BY <2>1 DEF Holds, LastWriter
  <2> QED BY <2>1, <2>2
<1>5. CheckpointTrue'
  BY <1>3, CheckpointFrame DEF ValueInv
<1>6. OnWires' <=> OnWires
  BY DEF OnWires
<1>7. WiresTrue'
  BY <1>6, WiresFrame DEF ValueInv
<1> QED BY <1>2, <1>4, <1>5, <1>7 DEF ValueInv, Live

\* An undo leaves the mapping of what lives, hence the values it finds there.
LEMMA ValueUndo ==
  ASSUME TypeOK, HeldInv, ValueInv, UndoRename
  PROVE  ValueInv'
<1>1. sig.squash /\ history # <<>> /\ sig.done < history[1].sn
  BY DEF UndoRename, MustUndo
<1>2. 1 \in DOMAIN history /\ history[1].sn \in Nat /\ CommitSn = 0
  BY <1>1, FlightTypes, SeqFacts DEF TypeOK, CommitSn
<1>3. CommitSn' = CommitSn
  BY DEF UndoRename, CommitSn
<1>4. \A r \in Arch : \A p \in Phys : Leads(r, CommitSn, p) => Leads(r, CommitSn, p)'
  <2> SUFFICES ASSUME NEW r \in Arch, NEW p \in Phys, Leads(r, CommitSn, p)
               PROVE  Leads(r, CommitSn, p)'
    OBVIOUS
  <2>1. PICK a \in Int : a = CommitSn /\ a = CommitSn' /\ a <= history[1].sn
    BY <1>2, <1>3
  <2>2. Leads(r, a, p)'
    BY <2>1, UndoLeads
  <2> QED BY <2>1, <2>2
<1> QED BY <1>4, ValueHistory DEF UndoRename, queueVars, readyVars, regVars, robVars, iewVars,
           commitVars, modeVars, saveVars, wireVars

\* So does the freeing of registers.
LEMMA ValueFree ==
  ASSUME TypeOK, HeldInv, ValueInv, FreePrevious
  PROVE  ValueInv'
<1>1. ~sig.squash /\ history # <<>> /\ history[Len(history)].sn <= sig.done
  BY DEF FreePrevious, MustFree, HeldInv, SignalPhases
<1>2. Len(history) \in DOMAIN history /\ history[Len(history)].sn \in Nat /\ sig.done \in Int
      /\ CommitSn = sig.done + 1
  BY <1>1, FlightTypes, SeqFacts DEF TypeOK, CommitSn
<1>3. CommitSn' = CommitSn
  BY DEF FreePrevious, CommitSn
<1>4. \A r \in Arch : \A p \in Phys : Leads(r, CommitSn, p) => Leads(r, CommitSn, p)'
  <2> SUFFICES ASSUME NEW r \in Arch, NEW p \in Phys, Leads(r, CommitSn, p)
               PROVE  Leads(r, CommitSn, p)'
    OBVIOUS
  <2>1. PICK a \in Int : a = CommitSn /\ a = CommitSn' /\ history[Len(history)].sn < a
    BY <1>1, <1>2, <1>3
  <2>2. Leads(r, a, p)'
    BY <2>1, FreeLeads
  <2> QED BY <2>1, <2>2
<1> QED BY <1>4, ValueHistory DEF FreePrevious, queueVars, readyVars, regVars, robVars, iewVars,
           commitVars, modeVars, saveVars, wireVars

\* A renamed instruction has a register in which nothing is expected to be ready; its
\* source is ready only if nobody is to write it any more.
LEMMA ValueRename ==
  ASSUME TypeOK, HeldInv, ValueInv, RenameInst
  PROVE  ValueInv'
<1>1. PICK e \in RegInst :
        /\ Queue' = Queue \cup {e} /\ e.sn = nextSn
        /\ e.srcReady => e.src = None \/ e.src \in ready
        /\ e.dst \notin ready' /\ ready' \subseteq ready
        /\ \A r \in Arch, sn \in Int : \A p :
             sn <= nextSn /\ Leads(r, sn, p) => Leads(r, sn, p)'
  BY RenamedIs
<1>2. /\ phase = "rename" /\ ~sig.squash /\ status = "Running"
      /\ UNCHANGED <<phase, prog, rob, squashTo, iqReady, value, poison, iewRange, pending, sig,
                     status, pc, inRunahead, storedPc, checkpoint, restoreNext, restoreNow>>
  BY DEF RenameInst, TypeOK, regVars, robVars, iewVars, commitVars, modeVars, saveVars, wireVars
<1>3. Insts' = Insts /\ LiveInsts' = LiveInsts /\ QueuedInsts = Queue /\ QueuedInsts' = Queue'
  <2>1. \A i : Gone(i)' <=> Gone(i)
    BY <1>2 DEF Gone
  <2>2. Insts' = Insts
    BY <1>2 DEF Insts
  <2>3. QueuedInsts = Queue /\ QueuedInsts' = Queue'
    BY <1>2 DEF QueuedInsts
  <2> QED BY <2>1, <2>2, <2>3 DEF LiveInsts
<1>4. InProduction' = InProduction \cup {Static(e)}
  BY <1>1, <1>3 DEF InProduction, Static, Unwritten
<1>5. /\ Static(e).sn = nextSn /\ Static(e).dst = e.dst
      /\ \A i \in LiveInsts \cup QueuedInsts : i.sn \in Nat /\ i.sn < nextSn
      /\ \A x \in InProduction : x.dst \notin ready
  BY <1>1, StaticFields, InstFacts DEF ValueInv, NotReadyYet
<1>6. NotReadyYet'
  <2>1. \A x \in InProduction' : x.dst \notin ready'
    BY <1>1, <1>4, <1>5
  <2>2. \A i \in LiveInsts' : Unwritten(i)' => i.dst \notin iqReady'
    BY <1>2, <1>3 DEF ValueInv, NotReadyYet, Unwritten
  <2> QED BY <2>1, <2>2 DEF NotReadyYet
<1>7. ResultsTrue' /\ PendingOnce'
  BY <1>2, <1>3 DEF ValueInv, ResultsTrue, ResultTrue, PendingOnce
<1>8. ASSUME NEW i \in LiveInsts \cup QueuedInsts, SourceWritten(i) PROVE SourceWritten(i)'
  <2>1. nextSn \in Nat /\ ~(nextSn < i.sn)
    BY <1>5 DEF TypeOK
  <2> QED BY <1>4, <1>5, <1>8, <2>1 DEF SourceWritten
<1>9. SourceWritten(e)'
  <2> SUFFICES ASSUME e.srcReady, e.src # None, NEW x \in InProduction', x.sn < e.sn
               PROVE  x.dst # e.src
    BY DEF SourceWritten
  <2>1. x \in InProduction
    BY <1>1, <1>4, <1>5 DEF TypeOK
  <2> QED BY <1>1, <1>5, <2>1
<1>10. SourcesWritten'
  BY <1>1, <1>3, <1>8, <1>9 DEF ValueInv, SourcesWritten
<1>11. IssuedTrue'
  BY <1>2, <1>3 DEF ValueInv, IssuedTrue, SourceHolds, InOrderSource, OpOf, LastWriter
<1>12. WiresTrue'
  BY <1>2 DEF WiresTrue, OnWires
<1>13. RestorePending' <=> RestorePending
  BY <1>2 DEF RestorePending
<1>14. BaseTrue'
  <2> SUFFICES ASSUME ~RestorePending, NEW r \in Arch
               PROVE  \E p \in Phys : Leads(r, CommitSn, p)' /\ Holds(p, r)'
    BY <1>13 DEF BaseTrue, Arch, Phys
  <2>1. PICK p \in Phys : Leads(r, CommitSn, p) /\ Holds(p, r)
    BY DEF ValueInv, BaseTrue
  <2>2. Holds(p, r)'
    BY <1>2, <2>1 DEF Holds, LastWriter
  <2>3. PICK a \in Int : a = CommitSn /\ a = CommitSn' /\ a <= nextSn
    <3>1. sig.done < nextSn /\ sig.done \in Int /\ nextSn \in Nat
      BY FlightTypes DEF HeldInv, SignalSound
    <3> QED BY <1>2, <3>1 DEF CommitSn
  <2>4. Leads(r, a, p)'
    BY <1>1, <2>1, <2>3
  <2> QED BY <2>2, <2>3, <2>4
<1>15. CheckpointTrue'
  BY <1>2, <1>13, CheckpointFrame DEF ValueInv
<1> QED BY <1>6, <1>7, <1>10, <1>11, <1>12, <1>14, <1>15 DEF ValueInv

-----------------------------------------------------------------------------
(* Squashes.                                                                *)

LEMMA MarkedLike ==
  ASSUME NEW s \in Seq(RegInst), NEW K, NEW k \in DOMAIN s
  PROVE  Like(s[k], Rob!MarkSquashed(s, K)[k])
<1>1. s[k] \in RegInst
  BY SeqFacts
<1>2. Rob!MarkSquashed(s, K)[k] = IF k \in K THEN [s[k] EXCEPT !.squashed = TRUE] ELSE s[k]
  BY DEF Rob!MarkSquashed
<1> QED BY <1>1, <1>2 DEF RegInst, Like

\* IEW stops what it now knows to be squashed.
LEMMA ValueSquashIew ==
  ASSUME Inv, ValueInv, SquashIew
  PROVE  ValueInv'
<1>0. TypeOK /\ HeldInv
  BY DEF Inv
<1>1. /\ InPlace /\ status = "ROBSquashing" /\ status' = status
      /\ \A k \in DOMAIN rob : /\ Gone(rob[k])' <=> Gone(rob[k])
                               /\ ~Gone(rob[k]) => rob'[k] = rob[k]
  BY <1>0, SquashIewGone
<1>2. /\ phase' = "execute"
      /\ UNCHANGED <<prog, renameMap, history, ready, iqReady, value, poison, pending, sig, pc,
                     inRunahead, storedPc, checkpoint, restoreNext, restoreNow>>
  BY DEF SquashIew, mapVars, readyVars, regVars, commitVars, modeVars, saveVars, wireVars
<1>3. \A j \in LiveInsts' : \E i \in LiveInsts : Like(i, j)
  <2> SUFFICES ASSUME NEW j \in LiveInsts' PROVE \E i \in LiveInsts : Like(i, j)
    OBVIOUS
  <2>1. PICK k \in DOMAIN rob : j = rob'[k] /\ rob[k] \in LiveInsts
    BY <1>1, InPlaceInsts
  <2>2. j = rob[k]
    BY <1>1, <2>1 DEF LiveInsts
  <2> QED BY <2>1, <2>2 DEF Like
<1>4. QueuedInsts' \subseteq QueuedInsts
  BY <1>1 DEF QueuedInsts
<1>5. Live'
  BY <1>2, <1>3, <1>4, LiveFrame DEF ValueInv, Live
<1>6. RestorePending' <=> RestorePending
  BY <1>2 DEF RestorePending
<1>7. CommitSn' = CommitSn
  BY <1>2 DEF CommitSn
<1>8. BaseTrue'
  BY <1>0, <1>2, <1>6, <1>7, BaseFrame DEF ValueInv
<1>9. CheckpointTrue'
  BY <1>2, <1>6, CheckpointFrame DEF ValueInv
<1>10. WiresTrue'
  BY <1>2 DEF WiresTrue, OnWires
<1> QED BY <1>5, <1>8, <1>9, <1>10 DEF ValueInv, Live

LEMMA ValueIewDone ==
  ASSUME TypeOK, HeldInv, ValueInv, IewDone
  PROVE  ValueInv'
<1>1. /\ phase = "issue" /\ phase' = "walk" /\ sig' = NoSig
      /\ UNCHANGED <<prog, rob, squashTo, renameNow, renameNext, renameMap, history, ready,
                     iqReady, value, poison, iewRange, pending, status, pc, inRunahead,
                     storedPc, checkpoint, restoreNext, restoreNow>>
  BY DEF IewDone, queueVars, mapVars, readyVars, regVars, robVars, iewVars, commitVars,
         modeVars, saveVars, wireVars
<1>2. LiveInsts' = LiveInsts /\ QueuedInsts' = QueuedInsts
  BY <1>1, FlightSameInsts
<1>3. Live'
  BY <1>1, <1>2, LiveFrame DEF ValueInv, Live, Like
<1>4. RestorePending' <=> RestorePending
  BY <1>1 DEF RestorePending
<1>5. \A k \in DOMAIN history : CommitSn <= history[k].sn <=> CommitSn' <= history[k].sn
  <2> SUFFICES ASSUME NEW k \in DOMAIN history
               PROVE  CommitSn <= history[k].sn /\ CommitSn' <= history[k].sn
    OBVIOUS
  <2>1. CommitSn' = 1
    BY <1>1 DEF CommitSn, NoSig
  <2>2. Kept(history[k].sn) /\ 0 < history[k].sn
    BY <1>1 DEF HeldInv, HistoryOrder, SignalSound, IewPhases
  <2> QED BY <2>1, <2>2, FlightTypes DEF Kept, CommitSn
<1>6. BaseTrue'
  BY <1>1, <1>4, <1>5, BaseFrame DEF ValueInv
<1>7. CheckpointTrue'
  BY <1>1, <1>4, CheckpointFrame DEF ValueInv
<1>8. WiresTrue'
  BY <1>1 DEF WiresTrue, OnWires
<1> QED BY <1>3, <1>6, <1>7, <1>8 DEF ValueInv, Live

\* Marks change nothing of what lives.
LEMMA ValueWalk ==
  ASSUME TypeOK, HeldInv, ValueInv, RobWalk
  PROVE  ValueInv'
<1>1. /\ InPlace /\ QueuedInsts' = QueuedInsts
      /\ \A k \in DOMAIN rob : Gone(rob[k])' <=> Gone(rob[k])
  BY WalkGone
<1>2. /\ phase' = "select"
      /\ UNCHANGED <<prog, renameMap, history, ready, iqReady, value, poison, pending, sig, pc,
                     inRunahead, storedPc, checkpoint, restoreNext, restoreNow>>
  BY DEF RobWalk, mapVars, readyVars, regVars, iewVars, modeVars, saveVars, wireVars
<1>3. \A k \in DOMAIN rob : Like(rob[k], rob'[k])
  BY MarkedLike DEF RobWalk, TypeOK, Like
<1>4. \A j \in LiveInsts' : \E i \in LiveInsts : Like(i, j)
  BY <1>1, <1>3, InPlaceInsts
<1>5. Live'
  BY <1>1, <1>2, <1>4, LiveFrame DEF ValueInv, Live
<1>6. RestorePending' <=> RestorePending
  BY <1>2 DEF RestorePending
<1>7. CommitSn' = CommitSn
  BY <1>2 DEF CommitSn
<1>8. BaseTrue'
  BY <1>2, <1>6, <1>7, BaseFrame DEF ValueInv
<1>9. CheckpointTrue'
  BY <1>2, <1>6, CheckpointFrame DEF ValueInv
<1>10. WiresTrue'
  BY <1>2 DEF WiresTrue, OnWires
<1> QED BY <1>5, <1>8, <1>9, <1>10 DEF ValueInv, Live

LEMMA SquashLike ==
  ASSUME TypeOK, NEW to, NEW pos, SquashFrom(to, pos), NEW k \in DOMAIN rob
  PROVE  Like(rob[k], rob'[k])
BY MarkedLike DEF SquashFrom, TypeOK, robVars, Like

\* Behind the squash there is nothing whose values matter; the next to commit stays.
LEMMA ValueSquashFromIew ==
  ASSUME Inv, ValueInv, SquashFromIew
  PROVE  ValueInv'
<1>0. TypeOK /\ HeldInv /\ FlightInv
  BY DEF Inv
<1>1. PICK to \in Int, pos \in Nat :
        SquashFrom(to, pos) /\ (status = "ROBSquashing" => to <= squashTo)
  BY <1>0, IewSquashIs
<1>2. /\ QueuedInsts' = {} /\ InPlace
      /\ \A j \in Insts' : \E k \in DOMAIN rob :
           /\ j = rob'[k] /\ rob[k] \in Insts /\ (rob[k].squashed => j.squashed)
           /\ j.sn = rob[k].sn /\ j.runahead = rob[k].runahead
      /\ \A j \in LiveInsts' : \E k \in DOMAIN rob : j = rob'[k] /\ rob[k] \in LiveInsts
  BY <1>0, <1>1, SquashEffect DEF Evolves
<1>3. /\ phase = "select" /\ phase' = "insts" /\ sig = NoSig
      /\ UNCHANGED <<prog, renameMap, history, ready, iqReady, value, poison, iewRange, pending,
                     pc, inRunahead, storedPc, checkpoint, restoreNext, restoreNow>>
  BY <1>0 DEF SquashFromIew, mapVars, readyVars, regVars, iewVars, modeVars, saveVars,
         wireVars, HeldInv, SignalPhases
<1>4. \A k \in DOMAIN rob : Like(rob[k], rob'[k])
  BY <1>0, <1>1, SquashLike
<1>5. Live'
  BY <1>2, <1>3, <1>4, LiveFrame DEF ValueInv, Live
<1>6. RestorePending' <=> RestorePending
  BY <1>3 DEF RestorePending
<1>7. \A k \in DOMAIN history : CommitSn <= history[k].sn <=> CommitSn' <= history[k].sn
  <2> SUFFICES ASSUME NEW k \in DOMAIN history
               PROVE  CommitSn <= history[k].sn /\ CommitSn' <= history[k].sn
    OBVIOUS
  <2>1. CommitSn = 1 /\ CommitSn' = 0
    BY <1>1, <1>3 DEF CommitSn, NoSig, SquashFrom
  <2>2. 0 < history[k].sn /\ history[k].sn \in Nat
    BY <1>0, FlightTypes DEF HeldInv, HistoryOrder
  <2> QED BY <2>1, <2>2
<1>8. BaseTrue'
  BY <1>0, <1>3, <1>6, <1>7, BaseFrame DEF ValueInv
<1>9. CheckpointTrue'
  BY <1>3, <1>6, CheckpointFrame DEF ValueInv
\* Who is hit was live and may have been about to issue.
<1>10. WiresTrue'
  <2> SUFFICES ASSUME NEW j \in Insts', ~SquashedForIew(j)', j.state \in {"waiting", "issued"},
                      j.srcReady, j.src # None
               PROVE  /\ \/ SourceHolds(j)'
                         \/ j.runahead /\ j.state = "waiting" /\ j.src \in poison
                      /\ \A m \in Insts' :
                           m.state = "sent" /\ ~m.squashed /\ ~Stale(m)' => m.dst # j.src
    BY <1>3 DEF WiresTrue
  <2>1. PICK k \in DOMAIN rob :
          /\ j = rob'[k] /\ rob[k] \in Insts /\ (rob[k].squashed => j.squashed)
          /\ j.sn = rob[k].sn /\ j.runahead = rob[k].runahead
    BY <1>2
  <2>2. Like(rob[k], j)
    BY <1>4, <2>1
  <2>3. ~SquashedForIew(rob[k])
    BY <1>3, <2>1 DEF SquashedForIew, Stale
  <2>4. rob[k] \in LiveInsts
    BY <1>0, <1>3, <2>1, <2>3 DEF FlightInv, IewFollows, OnWires, LiveInsts
  <2> DEFINE i == rob[k]
  <2>5. i.state = j.state /\ i.srcReady /\ i.src = j.src /\ i.src # None
        /\ i.runahead = j.runahead /\ i.poisoned = j.poisoned /\ i.pos = j.pos
    BY <2>2 DEF Like
  <2>6. SourceWritten(i)
    BY <2>4, <2>5 DEF ValueInv, SourcesWritten
  <2>7. SourceHolds(j)' <=> SourceHolds(i)
    BY <1>3, <2>5 DEF SourceHolds, InOrderSource, LastWriter, OpOf
  <2>8. SourceHolds(j)' \/ (j.runahead /\ j.state = "waiting" /\ j.src \in poison)
    <3>1. CASE j.state = "issued"
      BY <2>4, <2>5, <2>7, <3>1 DEF ValueInv, IssuedTrue
    <3>2. CASE j.state = "waiting"
      BY <2>4, <2>5, <2>6, <2>7, <3>2, ReadyTrue, LiveMode DEF SourceHolds
    <3> QED BY <3>1, <3>2
  <2>9. ASSUME NEW m \in Insts', m.state = "sent", ~m.squashed, ~Stale(m)' PROVE m.dst # j.src
    <3>1. PICK n \in DOMAIN rob :
            /\ m = rob'[n] /\ rob[n] \in Insts /\ (rob[n].squashed => m.squashed)
            /\ m.runahead = rob[n].runahead
      BY <1>2
    <3>2. Like(rob[n], m)
      BY <1>4, <3>1
    <3>3. ~rob[n].squashed /\ ~Stale(rob[n]) /\ rob[n].state = "sent" /\ rob[n].dst = m.dst
      BY <1>3, <2>9, <3>1, <3>2 DEF Like, Stale
    <3>4. rob[n].dst # i.src
      BY <2>4, <2>5, <2>6, <3>1, <3>3, SourceAway
    <3> QED BY <2>5, <3>3, <3>4
  <2> QED BY <2>8, <2>9
<1> QED BY <1>5, <1>8, <1>9, <1>10 DEF ValueInv, Live

\* With the exit, registers no longer count until the restore.
LEMMA ValueExit ==
  ASSUME Inv, ValueInv, SquashFromRunaheadExit
  PROVE  ValueInv'
<1>1. /\ LiveInsts' = {} /\ QueuedInsts' = {} /\ \A i \in Insts' : Stale(i)'
  BY ExitEffect DEF Inv
<1>2. /\ inRunahead /\ pc' = storedPc /\ inRunahead' = FALSE /\ restoreNext' = TRUE
      /\ UNCHANGED <<prog, ready, iqReady, value, poison, pending, storedPc, checkpoint>>
  BY DEF SquashFromRunaheadExit, readyVars, regVars, iewVars, saveVars
<1>3. Live'
  BY <1>1, <1>2, LiveFrame DEF ValueInv, Live
<1>4. BaseTrue'
  BY <1>2 DEF BaseTrue, RestorePending
<1>5. CheckpointTrue'
  <2>1. \A r : LastWriter(storedPc, r)' = LastWriter(storedPc, r)
    BY <1>2 DEF LastWriter
  <2> QED BY <1>2, <2>1 DEF ValueInv, CheckpointTrue, Arch
<1>6. WiresTrue'
  BY <1>1 DEF WiresTrue, SquashedForIew
<1> QED BY <1>3, <1>4, <1>5, <1>6 DEF ValueInv, Live

-----------------------------------------------------------------------------
(* Commit.                                                                  *)

\* A squashed head leaves commit's map as it is.
LEMMA ValueRetireSquashed ==
  ASSUME Inv, ValueInv, RetireSquashed
  PROVE  ValueInv'
<1>0. TypeOK /\ HeldInv
  BY DEF Inv
<1>1. /\ AtHead /\ rob' = Tail(rob) /\ Head0.squashed
      /\ UNCHANGED <<phase, prog, renameNow, renameNext, renameMap, history, ready, iqReady, value,
                     poison, pending, status, squashTo, sig, pc, inRunahead, storedPc,
                     checkpoint, restoreNext, restoreNow>>
  BY DEF RetireSquashed, queueVars, mapVars, readyVars, regVars, iewVars, commitVars, modeVars,
         saveVars, wireVars
<1>2. QueuedInsts' = QueuedInsts /\ LiveInsts' = LiveInsts \ {Head0}
  BY <1>0, <1>1, HeadLeaves
<1>3. Live'
  BY <1>1, <1>2, LiveFrame DEF ValueInv, Live, Like
<1>4. RestorePending' <=> RestorePending
  BY <1>1 DEF RestorePending
<1>5. CommitSn' = CommitSn
  BY <1>1 DEF CommitSn
<1>6. BaseTrue'
  BY <1>0, <1>1, <1>4, <1>5, BaseFrame DEF ValueInv
<1>7. CheckpointTrue'
  BY <1>1, <1>4, CheckpointFrame DEF ValueInv
<1>8. WiresTrue'
  <2>1. ~sig.squash
    BY <1>0, <1>1 DEF AtHead, HeldInv, SignalPhases
  <2> QED BY <1>1, <2>1 DEF WiresTrue, OnWires
<1> QED BY <1>3, <1>6, <1>7, <1>8 DEF ValueInv, Live

\* Commit: the head's result becomes that of its register, and nothing else's.
LEMMA ValueCommitHead ==
  ASSUME Inv, ValueInv, CommitHead
  PROVE  ValueInv'
<1>0. TypeOK /\ RegInv /\ HeldInv /\ FlightInv /\ HistoryChain
  BY DEF Inv, RegInv
<1>1. /\ AtHead /\ rob' = Tail(rob) /\ Head0.state = "done" /\ ~Head0.squashed
      /\ sig' = [sig EXCEPT !.done = Head0.sn]
      /\ UNCHANGED <<phase, prog, renameNow, renameNext, renameMap, history, ready, iqReady, value,
                     poison, pending, status, squashTo, inRunahead, storedPc, checkpoint,
                     restoreNext, restoreNow>>
  BY DEF CommitHead, queueVars, mapVars, readyVars, regVars, iewVars, modeVars, saveVars, wireVars
<1>2. /\ Head0 \in LiveInsts /\ Static(Head0) \in Flight /\ Head0.pos = pc /\ pc' = pc + 1
      /\ pc \in Nat /\ LiveInsts' = LiveInsts \ {Head0} /\ QueuedInsts' = QueuedInsts
  BY <1>0, CommitEffect
<1>3. Live'
  BY <1>1, <1>2, LiveFrame DEF ValueInv, Live, Like
<1>4. ~RestorePending /\ ~RestorePending' /\ (Head0.runahead <=> inRunahead)
  BY <1>1, <1>2, LiveMode DEF RestorePending
<1>5. /\ ~sig.squash /\ phase = "insts" /\ status = "Running" /\ rob # <<>> /\ Head0 = rob[1]
      /\ CommitSn = sig.done + 1 /\ CommitSn' = Head0.sn + 1
  BY <1>0, <1>1 DEF AtHead, HeldInv, SignalPhases, Head0, CommitSn, TypeOK
<1>6. BaseTrue'
  <2> SUFFICES ASSUME NEW r \in Arch
               PROVE  \E p \in Phys : Leads(r, CommitSn, p)' /\ Holds(p, r)'
    BY DEF BaseTrue, Arch, Phys
  <2>1. PICK p \in Phys : Leads(r, CommitSn, p) /\ Holds(p, r)
    BY <1>4 DEF ValueInv, BaseTrue
  <2>2. PICK n : n = rob[1].sn /\ n \in Nat
    BY <1>2, <1>5, LiveMode, InstFields
  <2>3. PICK q : q = IF rob[1].dst # None /\ OpOf(rob[1]).dst = r THEN rob[1].dst ELSE p
    OBVIOUS
  <2>4. Leads(r, n + 1, q)
    BY <1>0, <1>1, <1>5, <2>1, <2>2, <2>3, CommitMoves
  <2>5. Leads(r, n + 1, q)'
    BY <1>1, <2>4, SameMapLeads
  <2>6. Leads(r, CommitSn, q)'
    BY <1>5, <2>2, <2>5
  <2>7. /\ Static(Head0).pos = pc /\ Static(Head0).dst = Head0.dst
        /\ SourceLeads(Static(Head0))
    BY <1>0, <1>2, StaticFields DEF FlightInv, SourcesLead
  <2>8. /\ pc \in DOMAIN prog /\ OpOf(rob[1]) = prog[pc] /\ 1 <= pc
        /\ rob[1].dst = None <=> prog[pc].dst = None
    <3>1. DOMAIN prog = 1..Len(prog)
      BY <1>0, SeqFacts DEF TypeOK
    <3> QED BY <1>2, <1>5, <2>7, <3>1 DEF SourceLeads, OpOf
  <2>9. LastWriter(pc, r)' = LastWriter(pc', r)
    BY <1>1 DEF LastWriter
  <2>10. CASE rob[1].dst # None /\ prog[pc].dst = r
    <3>1. q = rob[1].dst /\ q \in Phys
      BY <1>2, <1>5, <2>3, <2>8, <2>10, LiveMode, InstFields
    <3>2. LastWriter(pc + 1, r) = pc
      <4>1. PICK a, b \in Int : a = pc + 1 /\ b = pc /\ b < a /\ 1 <= b
        BY <1>2, <2>8
      <4>2. prog[b].dst = r /\ \A x \in Int : ~(b < x /\ x < a)
        BY <2>10, <4>1
      <4>3. LastWriter(a, r) = b
        BY <4>1, <4>2, LastWriterIs
      <4> QED BY <4>1, <4>3
    <3>3. ResultTrue(Head0) /\ Head0.state = "done" /\ Head0.dst # None
      BY <1>1, <1>2, <1>5, <2>10 DEF ValueInv, ResultsTrue
    <3>4. Head0.poisoned => inRunahead /\ q \in poison
      BY <1>4, <1>5, <3>1, <3>3 DEF ResultTrue
    <3>5. Head0.poisoned \/ value[q] = pc
      BY <1>2, <1>5, <3>1, <3>3 DEF ResultTrue
    <3>6. value'[q] = LastWriter(pc, r)' \/ (inRunahead' /\ q \in poison')
      BY <1>1, <1>2, <2>9, <3>2, <3>4, <3>5
    <3>7. Holds(q, r)'
      BY <3>6 DEF Holds
    <3> QED BY <2>6, <3>1, <3>7
  <2>11. CASE ~(rob[1].dst # None /\ prog[pc].dst = r)
    <3>1. q = p
      BY <2>3, <2>8, <2>11
    <3>2. prog[pc].dst # r
      BY <2>8, <2>11, ArchNotNone
    <3>3. \A x \in Int : pc <= x /\ x < pc + 1 => x = pc
      BY <1>2
    <3>4. LastWriter(pc + 1, r) = LastWriter(pc, r)
      BY <1>2, <3>2, <3>3, LastWriterSame
    <3>5. Holds(p, r)'
      BY <1>1, <1>2, <2>1, <2>9, <3>4 DEF Holds
    <3> QED BY <2>6, <3>1, <3>5
  <2> QED BY <2>10, <2>11
<1>7. CheckpointTrue'
  BY <1>1, <1>4, CheckpointFrame DEF ValueInv
<1>8. WiresTrue'
  BY <1>1, <1>5 DEF WiresTrue, OnWires, TypeOK, AtHead
<1> QED BY <1>3, <1>6, <1>7, <1>8 DEF ValueInv, Live

LEMMA InProductionIs ==
  /\ \A x : x \in InProduction <=>
       \/ \E i \in LiveInsts : Unwritten(i) /\ x = Static(i)
       \/ \E i \in QueuedInsts : x = Static(i)
  /\ \A x : x \in InProduction' <=>
       \/ \E i \in LiveInsts' : Unwritten(i) /\ x = Static(i)
       \/ \E i \in QueuedInsts' : x = Static(i)
BY DEF InProduction, Unwritten, Static

\* Everything becomes of runahead and the load at the head is known to be invalid.
LEMMA ValueEnter ==
  ASSUME Inv, ValueInv, EnterRunahead
  PROVE  ValueInv'
<1>0. TypeOK /\ RegInv /\ HeldInv /\ FlightInv
  BY DEF Inv
<1>1. /\ InPlace /\ Head0 \in LiveInsts /\ Head0.state = "sent" /\ ~RestorePending
      /\ Head0 = rob[1] /\ rob'[1].poisoned
      /\ \A k \in DOMAIN rob :
           /\ Static(rob'[k]) = Static(rob[k]) /\ rob'[k].sn = rob[k].sn
           /\ rob'[k].pos = rob[k].pos /\ rob'[k].dst = rob[k].dst /\ rob'[k].src = rob[k].src
           /\ rob'[k].runahead /\ rob'[k].state = rob[k].state
           /\ rob'[k].srcReady = rob[k].srcReady /\ rob'[k].result = rob[k].result
           /\ k # 1 => rob'[k].poisoned = rob[k].poisoned
           /\ Gone(rob[k])' <=> Gone(rob[k])
      /\ \A j \in QueuedInsts' : \E i \in QueuedInsts :
           Static(j) = Static(i) /\ j.sn = i.sn /\ j.srcReady = i.srcReady
  BY <1>0, EnterEffect
<1>2. /\ ~inRunahead /\ inRunahead' = TRUE /\ checkpoint' = Saved /\ storedPc' = pc
      /\ ~sig.squash
      /\ UNCHANGED <<prog, renameMap, history, ready, iqReady, value, poison, pending, sig, pc,
                     restoreNext, restoreNow>>
  BY <1>0 DEF EnterRunahead, LoadAtHead, AtHead, mapVars, readyVars, regVars, iewVars,
         commitVars, wireVars, HeldInv, SignalPhases
<1>3. ASSUME NEW j \in LiveInsts'
      PROVE  \E i \in LiveInsts :
               /\ Static(j) = Static(i) /\ j.sn = i.sn /\ j.pos = i.pos /\ j.dst = i.dst
               /\ j.src = i.src /\ j.runahead /\ j.state = i.state /\ j.srcReady = i.srcReady
               /\ j.result = i.result
               /\ j.poisoned = i.poisoned \/ (j.poisoned /\ j.state = "sent")
  <2>1. PICK k \in DOMAIN rob : j = rob'[k] /\ rob[k] \in LiveInsts
    BY <1>1, <1>3, InPlaceInsts
  <2>2. j.poisoned = rob[k].poisoned \/ (j.poisoned /\ j.state = "sent")
    <3>1. CASE k = 1
      <4>1. rob'[1].poisoned /\ rob'[1].state = rob[1].state /\ rob[1].state = "sent"
        BY <1>1, <2>1, <3>1
      <4> QED BY <2>1, <3>1, <4>1
    <3>2. CASE k # 1
      BY <1>1, <2>1, <3>2
    <3> QED BY <3>1, <3>2
  <2>3. /\ Static(j) = Static(rob[k]) /\ j.sn = rob[k].sn /\ j.pos = rob[k].pos
        /\ j.dst = rob[k].dst /\ j.src = rob[k].src /\ j.runahead /\ j.state = rob[k].state
        /\ j.srcReady = rob[k].srcReady /\ j.result = rob[k].result
    BY <1>1, <2>1
  <2> QED BY <2>1, <2>2, <2>3
<1>4. InProduction' \subseteq InProduction
  <2>1. \A j \in LiveInsts' : Unwritten(j) => \E i \in LiveInsts : Unwritten(i) /\ Static(j) = Static(i)
    BY <1>3 DEF Unwritten
  <2>2. \A j \in QueuedInsts' : \E i \in QueuedInsts : Static(j) = Static(i)
    BY <1>1
  <2> QED BY <2>1, <2>2, InProductionIs
<1>5. NotReadyYet'
  BY <1>2, <1>3, <1>4 DEF ValueInv, NotReadyYet, Unwritten
<1>6. ResultsTrue'
  BY <1>2, <1>3 DEF ValueInv, ResultsTrue, ResultTrue
<1>7. SourcesWritten'
  <2>1. \A j \in LiveInsts' : j.state \in {"waiting", "issued"} => SourceWritten(j)'
    BY <1>3, <1>4 DEF ValueInv, SourcesWritten, SourceWritten
  <2>2. \A j \in QueuedInsts' : SourceWritten(j)'
    <3> SUFFICES ASSUME NEW j \in QueuedInsts' PROVE SourceWritten(j)'
      OBVIOUS
    <3>1. PICK i \in QueuedInsts :
            Static(j) = Static(i) /\ j.sn = i.sn /\ j.srcReady = i.srcReady
      BY <1>1
    <3>2. j.src = i.src
      BY <3>1, StaticFields
    <3> QED BY <1>4, <3>1, <3>2 DEF ValueInv, SourcesWritten, SourceWritten
  <2> QED BY <2>1, <2>2 DEF SourcesWritten
<1>8. IssuedTrue'
  <2> SUFFICES ASSUME NEW j \in LiveInsts', j.state = "issued"
               PROVE  j.srcReady /\ SourceHolds(j)'
    BY DEF IssuedTrue
  <2>1. PICK i \in LiveInsts :
          /\ i.state = "issued" /\ j.srcReady = i.srcReady /\ j.poisoned = i.poisoned
          /\ j.src = i.src /\ j.pos = i.pos
    BY <1>3
  <2>2. i.srcReady /\ SourceHolds(i)
    BY <2>1 DEF ValueInv, IssuedTrue
  <2>3. InOrderSource(j)' = InOrderSource(i)
    BY <1>2, <2>1 DEF InOrderSource, OpOf, LastWriter
  <2> QED BY <1>2, <2>1, <2>2, <2>3 DEF SourceHolds
<1>9. PendingOnce'
  BY <1>2, <1>3 DEF ValueInv, PendingOnce
<1>10. WiresTrue'
  BY <1>2 DEF WiresTrue, OnWires
<1>11. BaseTrue'
  <2>1. CommitSn' = CommitSn /\ RestorePending' = RestorePending
    BY <1>2 DEF CommitSn, RestorePending
  <2> QED BY <1>0, <1>2, <2>1, BaseFrame DEF ValueInv
<1>12. CheckpointTrue'
  <2> SUFFICES ASSUME NEW r \in Arch PROVE checkpoint'[r] = LastWriter(storedPc, r)'
    BY <1>1, <1>2 DEF CheckpointTrue, RestorePending, Arch
  <2>1. Leads(r, CommitSn, commitMap[r])
    BY <1>0, <1>1, <1>2 DEF HeldInv, CommitMapLeads, CommitSn
  <2>2. PICK p \in Phys : Leads(r, CommitSn, p) /\ Holds(p, r)
    BY <1>1 DEF ValueInv, BaseTrue
  <2>3. CommitSn \in Int
    BY <1>0, FlightTypes DEF CommitSn
  <2>4. p = commitMap[r]
    BY <1>0, <2>1, <2>2, <2>3, LeadsApart
  <2>5. checkpoint'[r] = value[p]
    BY <1>2, <2>4 DEF Saved
  <2>6. LastWriter(storedPc, r)' = LastWriter(pc, r)
    BY <1>2 DEF LastWriter
  <2> QED BY <1>2, <2>2, <2>5, <2>6 DEF Holds
<1> QED BY <1>5, <1>6, <1>7, <1>8, <1>9, <1>10, <1>11, <1>12 DEF ValueInv

-----------------------------------------------------------------------------
(* One instruction moves on.                                                *)

\* Everyone else stays as he is.
LEMMA OneMovesOn ==
  ASSUME Inv, NEW k \in DOMAIN rob, NEW j \in RegInst, rob' = [rob EXCEPT ![k] = j],
         Evolves(rob[k], j), j.runahead = rob[k].runahead, j.squashed = rob[k].squashed,
         UNCHANGED <<status, squashTo, renameNow, renameNext>>
  PROVE  /\ rob[k] \in Insts /\ rob[k] \in RegInst /\ j.sn = rob[k].sn
         /\ Gone(j)' <=> Gone(rob[k])
         /\ \A i : Gone(i)' <=> Gone(i)
         /\ \A i \in Insts' : i = j \/ (i \in Insts /\ i.sn # rob[k].sn)
         /\ \A i \in LiveInsts' : \/ i = j /\ rob[k] \in LiveInsts
                                  \/ i \in LiveInsts /\ i.sn # rob[k].sn
         /\ QueuedInsts' = QueuedInsts
<1>0. TypeOK /\ HeldInv
  BY DEF Inv
<1>1. /\ DOMAIN rob' = DOMAIN rob /\ rob'[k] = j
      /\ \A m \in DOMAIN rob : rob[m] \in RegInst /\ (m # k => rob'[m] = rob[m])
  BY <1>0, SeqFacts DEF TypeOK
<1>2. \A m, n \in DOMAIN rob : rob[m].sn = rob[n].sn => m = n
  <2>1. \A m, n \in DOMAIN rob : m < n => rob[m].sn < rob[n].sn
    <3>1. AgeOrder(rob)
      BY <1>0 DEF HeldInv, FlightOrder
    <3> QED BY <3>1 DEF AgeOrder
  <2>2. \A m \in DOMAIN rob : m \in Int /\ rob[m].sn \in Int
    BY <1>0, FlightTypes
  <2> QED BY <2>1, <2>2
<1>3. \A i : Gone(i)' <=> Gone(i)
  BY DEF Gone
<1>4. Gone(j) <=> Gone(rob[k])
  BY DEF Gone, Evolves
<1>5. rob[k] \in Insts /\ j.sn = rob[k].sn
  BY DEF Insts, Range, Evolves
<1>6. \A i \in Insts' : i = j \/ (i \in Insts /\ i.sn # rob[k].sn)
  BY <1>1, <1>2 DEF Insts, Range
<1>7. \A i \in LiveInsts' : \/ i = j /\ rob[k] \in LiveInsts
                            \/ i \in LiveInsts /\ i.sn # rob[k].sn
  BY <1>3, <1>4, <1>5, <1>6 DEF LiveInsts
<1>8. QueuedInsts' = QueuedInsts
  BY DEF QueuedInsts, Queue
<1> QED BY <1>1, <1>3, <1>4, <1>5, <1>6, <1>7, <1>8

\* A result goes to a register nobody reads or has written.
LEMMA OneStep ==
  ASSUME Inv, ValueInv,
         NEW k \in DOMAIN rob, NEW j \in RegInst, rob' = [rob EXCEPT ![k] = j],
         Evolves(rob[k], j), j.runahead = rob[k].runahead, j.squashed = rob[k].squashed,
         j.srcReady = rob[k].srcReady,
         rob[k].state \in {"waiting", "issued", "sent"}, Unwritten(j),
         j.state \in {"waiting", "issued"} => rob[k].state \in {"waiting", "issued"},
         UNCHANGED <<prog, renameNow, renameNext, renameMap, history, ready, iqReady, poison,
                     squashTo, iewRange, sig, status, pc, inRunahead, storedPc, checkpoint,
                     restoreNext, restoreNow>>,
         \A p \in Phys : value'[p] = value[p] \/ p = rob[k].dst,
         \/ value' = value
         \/ rob[k].state \in {"issued", "sent"} /\ ~rob[k].squashed /\ ~Stale(rob[k]),
         pending' = pending \/ (j.state = "executed"
                                /\ \E e : e.sn = rob[k].sn /\ pending' = pending \cup {e}),
         rob[k] \in LiveInsts =>
           ResultTrue(j)' /\ (j.state = "issued" => j.srcReady /\ SourceHolds(j)'),
         ~OnWires' \/ (phase = "events" /\ phase' = phase /\ rob[k].state = "sent")
  PROVE  ValueInv'
<1>0. TypeOK /\ RegInv /\ HeldInv /\ FlightInv
  BY DEF Inv
<1> DEFINE b == rob[k]
<1>1. /\ b \in Insts /\ b \in RegInst /\ j.sn = b.sn
      /\ \A i : Gone(i)' <=> Gone(i)
      /\ \A i \in Insts' : i = j \/ (i \in Insts /\ i.sn # b.sn)
      /\ \A i \in LiveInsts' : \/ i = j /\ b \in LiveInsts
                               \/ i \in LiveInsts /\ i.sn # b.sn
      /\ QueuedInsts' = QueuedInsts
  BY OneMovesOn
<1>2. /\ j.pos = b.pos /\ j.dst = b.dst /\ j.src = b.src /\ Static(j) = Static(b)
      /\ Unwritten(b)
  BY EvolvesStatic DEF Evolves, Unwritten
<1>3. InProduction' \subseteq InProduction
  BY <1>1, <1>2, InProductionIs
<1>4. NotReadyYet'
  BY <1>1, <1>2, <1>3 DEF ValueInv, NotReadyYet, Unwritten
<1>5. /\ \A i \in Insts : i.dst \in Phys \cup {None} /\ i.src \in Phys \cup {None}
      /\ None \notin Phys
  BY <1>0, InstFacts, InstFields DEF Phys, None
<1>6. ASSUME NEW i \in LiveInsts, i.sn # b.sn, i.dst # None PROVE value'[i.dst] = value[i.dst]
  <2>1. CASE value' = value
    BY <2>1
  <2>2. CASE ~b.squashed /\ ~Stale(b) /\ i.dst = b.dst
    <3>1. Static(i) \in Flight /\ Static(i).dst = b.dst /\ Static(i).sn # Static(b).sn
      BY <1>6, <2>2, LiveMode, StaticFields
    <3> QED BY <1>1, <1>6, <2>2, <3>1, WriterAway
  <2>3. i \in Insts
    BY DEF LiveInsts
  <2> QED BY <1>5, <1>6, <2>1, <2>2, <2>3
<1>7. ResultsTrue'
  <2> SUFFICES ASSUME NEW i \in LiveInsts' PROVE ResultTrue(i)'
    BY DEF ResultsTrue
  <2>1. CASE i = j /\ b \in LiveInsts
    BY <2>1
  <2>2. CASE i \in LiveInsts /\ i.sn # b.sn
    <3>1. ResultTrue(i)
      BY <2>2 DEF ValueInv, ResultsTrue
    <3> QED BY <1>6, <2>2, <3>1 DEF ResultTrue
  <2> QED BY <1>1, <2>1, <2>2
<1>8. \A i : SourceWritten(i) => SourceWritten(i)'
  BY <1>3 DEF SourceWritten
<1>9. SourcesWritten'
  <2>1. ASSUME NEW i \in LiveInsts', i.state \in {"waiting", "issued"} PROVE SourceWritten(i)'
    <3>1. CASE i \in LiveInsts
      BY <1>8, <2>1, <3>1 DEF ValueInv, SourcesWritten
    <3>2. CASE i = j /\ b \in LiveInsts
      <4>1. SourceWritten(b)
        BY <2>1, <3>2 DEF ValueInv, SourcesWritten
      <4> QED BY <1>1, <1>2, <1>3, <3>2, <4>1 DEF SourceWritten
    <3> QED BY <1>1, <3>1, <3>2
  <2>2. \A i \in QueuedInsts' : SourceWritten(i)'
    BY <1>1, <1>8 DEF ValueInv, SourcesWritten
  <2> QED BY <2>1, <2>2 DEF SourcesWritten
<1>10. ASSUME NEW i \in Insts, i.src # None, value' = value \/ i.src # b.dst
       PROVE  SourceHolds(i)' <=> SourceHolds(i)
  <2>1. value'[i.src] = value[i.src]
    BY <1>5, <1>10
  <2>2. InOrderSource(i)' = InOrderSource(i)
    BY DEF InOrderSource, OpOf, LastWriter
  <2> QED BY <2>1, <2>2 DEF SourceHolds
<1>11. IssuedTrue'
  <2> SUFFICES ASSUME NEW i \in LiveInsts', i.state = "issued"
               PROVE  i.srcReady /\ SourceHolds(i)'
    BY DEF IssuedTrue
  <2>1. CASE i = j /\ b \in LiveInsts
    BY <2>1
  <2>2. CASE i \in LiveInsts
    <3>1. i.srcReady /\ SourceHolds(i) /\ SourceWritten(i) /\ i \in Insts
      BY <2>2 DEF ValueInv, IssuedTrue, SourcesWritten, LiveInsts
    <3>2. i.src # None => value' = value \/ i.src # b.dst
      BY <1>1, <2>2, <3>1, SourceAway
    <3>3. i.src = None => SourceHolds(i)'
      BY DEF SourceHolds
    <3> QED BY <1>10, <3>1, <3>2, <3>3
  <2> QED BY <1>1, <2>1, <2>2
<1>12. PendingOnce'
  <2> SUFFICES ASSUME NEW i \in LiveInsts', NEW e \in pending', e.sn = i.sn
               PROVE  /\ i.state = "executed"
                      /\ \A d \in pending' : d.sn = e.sn => d = e
    BY DEF PendingOnce
  <2>1. CASE i = j /\ b \in LiveInsts
    <3>1. \A d \in pending : d.sn # b.sn
      BY <2>1 DEF ValueInv, PendingOnce
    <3> QED BY <1>1, <2>1, <3>1
  <2>2. CASE i \in LiveInsts /\ i.sn # b.sn
    <3>1. \A d \in pending' : d.sn = i.sn => d \in pending
      BY <2>2
    <3> QED BY <2>2, <3>1 DEF ValueInv, PendingOnce
  <2> QED BY <1>1, <2>1, <2>2
<1>13. RestorePending' <=> RestorePending
  BY DEF RestorePending
<1>14. CommitSn' = CommitSn
  BY DEF CommitSn
<1>15. \A r \in Arch : \A p \in Phys : ~RestorePending /\ Leads(r, CommitSn, p) =>
         value'[p] = value[p]
  <2> SUFFICES ASSUME NEW r \in Arch, NEW p \in Phys, Leads(r, CommitSn, p), value' # value,
                      p = b.dst
               PROVE  FALSE
    OBVIOUS
  <2>1. ~b.squashed /\ ~Stale(b) /\ b.dst # None
    BY <1>5
  <2>2. PICK a \in Int : a = CommitSn
    BY <1>0, FlightTypes DEF CommitSn
  <2>3. /\ ~Gone(b) => a <= b.sn
        /\ Gone(b) /\ sig.squash => a <= 0
    <3>1. b.sn \in Nat /\ 0 < b.sn /\ sig.done \in Int /\ (~sig.squash => sig.done < b.sn)
      BY <1>0, <1>1, InstFacts, FlightTypes
    <3> QED BY <2>2, <3>1 DEF CommitSn
  <2>4. Leads(r, a, p)
    BY <2>2
  <2> QED BY <1>1, <2>1, <2>3, <2>4, WriterAway
<1>16. BaseTrue'
  BY <1>0, <1>13, <1>14, <1>15, BaseFrame DEF ValueInv
<1>17. CheckpointTrue'
  BY <1>13, CheckpointFrame DEF ValueInv
<1>18. WiresTrue'
  <2> SUFFICES ASSUME OnWires', phase = "events", phase' = phase, b.state = "sent",
                      NEW i \in Insts', Gone(i), ~SquashedForIew(i)',
                      i.state \in {"waiting", "issued"}, i.srcReady, i.src # None
               PROVE  /\ \/ SourceHolds(i)'
                         \/ i.runahead /\ i.state = "waiting" /\ i.src \in poison
                      /\ \A m \in Insts' :
                           m.state = "sent" /\ ~m.squashed /\ ~Stale(m)' => m.dst # i.src
    BY <1>1 DEF WiresTrue
  <2>1. i \in Insts
    BY <1>1
  <2>2. OnWires
    BY DEF OnWires
  <2>3. ~SquashedForIew(i)
    BY DEF SquashedForIew, Stale
  <2>4. /\ SourceHolds(i) \/ (i.runahead /\ i.state = "waiting" /\ i.src \in poison)
        /\ \A m \in Insts : m.state = "sent" /\ ~m.squashed /\ ~Stale(m) => m.dst # i.src
    BY <2>1, <2>2, <2>3 DEF ValueInv, WiresTrue
  <2>5. value' = value \/ i.src # b.dst
    BY <1>1, <2>4
  <2>6. SourceHolds(i)' <=> SourceHolds(i)
    BY <1>10, <2>1, <2>5
  <2>7. ASSUME NEW m \in Insts', m.state = "sent", ~m.squashed, ~Stale(m)' PROVE m.dst # i.src
    <3>1. ~Stale(m)
      BY <2>7 DEF Stale
    <3>2. CASE m = j
      BY <1>1, <1>2, <2>4, <2>7, <3>1, <3>2 DEF Stale
    <3>3. CASE m \in Insts
      BY <2>4, <2>7, <3>1, <3>3
    <3> QED BY <1>1, <3>2, <3>3
  <2> QED BY <2>4, <2>6, <2>7
<1> QED BY <1>4, <1>7, <1>9, <1>11, <1>12, <1>16, <1>17, <1>18 DEF ValueInv

\* The steps an instruction takes.
LEMMA Poisons ==
  ASSUME NEW i \in RegInst, NEW j, j = [i EXCEPT !.poisoned = TRUE]
  PROVE  /\ j \in RegInst /\ Evolves(i, j) /\ j.runahead = i.runahead
         /\ j.squashed = i.squashed /\ j.srcReady = i.srcReady
         /\ j.state = i.state /\ j.result = i.result /\ j.poisoned
BY DEF RegInst, Evolves

LEMMA Executes ==
  ASSUME NEW i \in RegInst, NEW j, j = [i EXCEPT !.state = "executed"]
  PROVE  /\ j \in RegInst /\ Evolves(i, j) /\ j.runahead = i.runahead
         /\ j.squashed = i.squashed /\ j.srcReady = i.srcReady
         /\ j.state = "executed" /\ j.result = i.result /\ j.poisoned = i.poisoned
BY DEF RegInst, States, Evolves

\* The cause of runahead is given up: its result is poison, not a value.
LEMMA ValuePoison ==
  ASSUME Inv, ValueInv, PoisonRunaheadLLL
  PROVE  ValueInv'
<1>0. TypeOK /\ HeldInv
  BY DEF Inv
<1>1. /\ AtHead /\ Head0.state = "sent" /\ ~Head0.squashed /\ inRunahead
      /\ rob' = [rob EXCEPT ![1].poisoned = TRUE]
      /\ UNCHANGED <<prog, renameNow, renameNext, renameMap, history, ready, iqReady, value, poison,
                     pending, squashTo, iewRange, sig, status, pc, inRunahead, storedPc,
                     checkpoint, restoreNext, restoreNow>>
  BY DEF PoisonRunaheadLLL, LoadAtHead, queueVars, mapVars, readyVars, regVars, iewVars,
         commitVars, modeVars, saveVars, wireVars
<1>2. 1 \in DOMAIN rob /\ rob[1] \in RegInst /\ rob[1].state = "sent" /\ ~sig.squash
  BY <1>0, <1>1, SeqFacts DEF AtHead, TypeOK, HeldInv, SignalPhases, Head0
<1>3. PICK j : j = [rob[1] EXCEPT !.poisoned = TRUE]
  OBVIOUS
<1>4. /\ j \in RegInst /\ Evolves(rob[1], j) /\ j.runahead = rob[1].runahead
      /\ j.squashed = rob[1].squashed /\ j.srcReady = rob[1].srcReady /\ j.state = "sent"
      /\ j.result = rob[1].result /\ j.poisoned
  BY <1>2, <1>3, Poisons
<1>5. rob' = [rob EXCEPT ![1] = j]
  BY <1>1, <1>3
<1>6. rob[1] \in LiveInsts => ResultTrue(j)'
  <2> SUFFICES ASSUME rob[1] \in LiveInsts PROVE ResultTrue(j)'
    OBVIOUS
  <2>1. rob[1].runahead
    BY <1>1, LiveMode
  <2> QED BY <1>4, <2>1 DEF ResultTrue
<1>7. ~OnWires' /\ Unwritten(j)
  BY <1>1, <1>2, <1>4 DEF OnWires, Unwritten
<1> QED BY <1>1, <1>2, <1>4, <1>5, <1>6, <1>7, OneStep

\* What issues has its source ready, and so its producer has written.
LEMMA ValueIssue ==
  ASSUME Inv, ValueInv, Issue
  PROVE  ValueInv'
<1>0. TypeOK
  BY DEF Inv
<1>1. PICK k \in DOMAIN rob :
        /\ rob[k].state = "waiting" /\ rob[k].srcReady
        /\ rob' = [rob EXCEPT ![k].state = "issued", ![k].poisoned = PoisonedAtIssue(rob[k])]
  BY DEF Issue
<1>2. /\ phase = "issue" /\ phase' = phase /\ rob[k] \in RegInst
      /\ UNCHANGED <<prog, renameNow, renameNext, renameMap, history, ready, iqReady, value, poison,
                     pending, squashTo, iewRange, sig, status, pc, inRunahead, storedPc,
                     checkpoint, restoreNext, restoreNow>>
  BY <1>0, SeqFacts DEF Issue, queueVars, mapVars, readyVars, regVars, iewVars,
         commitVars, modeVars, saveVars, wireVars, TypeOK
<1>3. PICK b : b = PoisonedAtIssue(rob[k]) /\ b \in BOOLEAN
  BY <1>2, InstFields DEF PoisonedAtIssue
<1>4. PICK j : j = [rob[k] EXCEPT !.state = "issued", !.poisoned = b]
  OBVIOUS
<1>5. /\ j \in RegInst /\ Evolves(rob[k], j) /\ j.runahead = rob[k].runahead
      /\ j.squashed = rob[k].squashed
  BY <1>2, <1>3, <1>4 DEF RegInst, States, Evolves
<1>6. j.srcReady = rob[k].srcReady /\ j.state = "issued" /\ j.poisoned = b
  BY <1>2, <1>3, <1>4 DEF RegInst, States, Evolves
<1>7. rob' = [rob EXCEPT ![k] = j]
  BY <1>1, <1>3, <1>4
<1>8. ASSUME rob[k] \in LiveInsts PROVE ResultTrue(j)' /\ j.srcReady /\ SourceHolds(j)'
  <2>1. rob[k].poisoned => rob[k].runahead
    BY <1>8 DEF ValueInv, ResultsTrue, ResultTrue
  <2>2. ResultTrue(j)'
    BY <1>3, <1>5, <1>6, <2>1 DEF ResultTrue, PoisonedAtIssue
  <2>3. SourceWritten(rob[k])
    BY <1>1, <1>8 DEF ValueInv, SourcesWritten
  <2>4. rob[k].src # None => value[rob[k].src] = InOrderSource(rob[k]) \/ b
    BY <1>1, <1>3, <1>8, <2>3, ReadyTrue, LiveMode DEF PoisonedAtIssue
  <2>5. j.src = rob[k].src /\ InOrderSource(j)' = InOrderSource(rob[k])
    BY <1>2, <1>5 DEF Evolves, InOrderSource, OpOf, LastWriter
  <2> QED BY <1>1, <1>2, <1>6, <2>2, <2>4, <2>5 DEF SourceHolds
<1>9. ~OnWires' /\ Unwritten(j)
  BY <1>2, <1>6 DEF OnWires, Unwritten
<1> QED BY <1>1, <1>2, <1>5, <1>6, <1>7, <1>8, <1>9, OneStep

\* What a write leaves alone, and what it writes.
LEMMA Written ==
  ASSUME TypeOK, NEW d \in Phys \cup {None}, NEW v, WriteReg(d, v)
  PROVE  /\ \A p \in Phys : value'[p] = value[p] \/ p = d
         /\ d # None => value'[d] = v
BY DEF WriteReg, TypeOK, Phys, None

LEMMA OneToCommit ==
  ASSUME NEW sn, InstToCommit(sn)
  PROVE  \E e : e.sn = sn /\ pending' = pending \cup {e}
<1>1. PICK wait \in 0..WbBacklog : pending' = pending \cup {[sn |-> sn, wait |-> wait]}
  BY DEF InstToCommit
<1>2. PICK e : e = [sn |-> sn, wait |-> wait]
  OBVIOUS
<1> QED BY <1>1, <1>2

\* A load writes its register when memory answers: in-order execution's value, into a
\* register nobody alive reads as another's, even between commit's squash and IEW's.
LEMMA ValueLoadReturns ==
  ASSUME Inv, ValueInv, NEW k \in DOMAIN rob, LoadReturns(k)
  PROVE  ValueInv'
<1>0. TypeOK
  BY DEF Inv
<1>1. /\ phase = "events" /\ phase' = phase /\ rob[k] \in RegInst
      /\ rob[k].state = "sent" /\ ~rob[k].squashed /\ ~Stale(rob[k])
      /\ rob' = [rob EXCEPT ![k].state = "executed"]
      /\ WriteReg(rob[k].dst, IF rob[k].poisoned THEN Bogus ELSE rob[k].result)
      /\ UNCHANGED <<prog, renameNow, renameNext, renameMap, history, ready, iqReady, poison,
                     squashTo, iewRange, sig, status, pc, inRunahead, storedPc,
                     checkpoint, restoreNext, restoreNow>>
  BY <1>0, SeqFacts DEF LoadReturns, queueVars, mapVars, readyVars,
         commitVars, modeVars, saveVars, wireVars, TypeOK
<1>2. PICK j : j = [rob[k] EXCEPT !.state = "executed"]
  OBVIOUS
<1>3. /\ j \in RegInst /\ Evolves(rob[k], j) /\ j.runahead = rob[k].runahead
      /\ j.squashed = rob[k].squashed
  BY <1>1, <1>2, Executes
<1>4. j.srcReady = rob[k].srcReady /\ j.state = "executed" /\ j.poisoned = rob[k].poisoned
      /\ j.pos = rob[k].pos /\ j.dst = rob[k].dst
  BY <1>1, <1>2, <1>3, Executes DEF Evolves
<1>5. rob' = [rob EXCEPT ![k] = j]
  BY <1>1, <1>2
<1>6. \E e : e.sn = rob[k].sn /\ pending' = pending \cup {e}
  BY OneToCommit DEF LoadReturns
<1>7. PICK v : v = IF rob[k].poisoned THEN Bogus ELSE rob[k].result
  OBVIOUS
<1>8. /\ rob[k].dst \in Phys \cup {None} /\ \A p \in Phys : value'[p] = value[p] \/ p = rob[k].dst
      /\ rob[k].dst # None => value'[rob[k].dst] = v
  BY <1>0, <1>1, <1>7, InstFields, Written
<1>9. ASSUME rob[k] \in LiveInsts PROVE ResultTrue(j)'
  <2>1. ResultTrue(rob[k])
    BY <1>9 DEF ValueInv, ResultsTrue
  <2> QED BY <1>1, <1>3, <1>4, <1>7, <1>8, <2>1 DEF ResultTrue
<1>10. Unwritten(j)
  BY <1>4 DEF Unwritten
<1> QED BY <1>1, <1>3, <1>4, <1>5, <1>6, <1>8, <1>9, <1>10, OneStep

\* What is executed is alive: while IEW executes it knows who is squashed.
LEMMA ValueExecutes ==
  ASSUME Inv, ValueInv, NEW k \in DOMAIN rob, phase = "execute", phase' = phase,
         SkipPoisoned(k) \/ ExecuteOp(k) \/ ExecuteLoad(k),
         UNCHANGED <<prog, renameNow, renameNext, renameMap, history, ready, iqReady, poison,
                     squashTo, iewRange, sig, status, pc, inRunahead, storedPc, checkpoint,
                     restoreNext, restoreNow>>
  PROVE  ValueInv'
<1>0. TypeOK /\ FlightInv
  BY DEF Inv
<1>1. /\ rob[k].state = "issued" /\ rob[k] \in RegInst /\ ~SquashedForIew(rob[k])
      /\ ~rob[k].squashed /\ ~Stale(rob[k])
  BY <1>0, SeqFacts DEF SkipPoisoned, ExecuteOp, ExecuteLoad, Executing, SquashedForIew, TypeOK
<1>2. rob[k] \in LiveInsts
  BY <1>0, <1>1 DEF FlightInv, IewFollows, OnWires, LiveInsts, Insts, Range
<1>3. rob[k].poisoned => rob[k].runahead
  BY <1>2 DEF ValueInv, ResultsTrue, ResultTrue
<1>4. ~rob[k].poisoned => Computed(rob[k]) = rob[k].pos
  BY <1>1, <1>2 DEF ValueInv, IssuedTrue, SourceHolds, Computed
<1>5. PICK v : v = Computed(rob[k]) /\ v \in Nat \cup {Bogus}
  BY <1>1, InstFields DEF Computed
<1>6. CASE SkipPoisoned(k) \/ ExecuteOp(k)
  <2>1. PICK j : j = [rob[k] EXCEPT !.state = "executed"]
    OBVIOUS
  <2>2. /\ j \in RegInst /\ Evolves(rob[k], j) /\ j.runahead = rob[k].runahead
        /\ j.squashed = rob[k].squashed
    BY <1>1, <2>1, Executes
  <2>3. j.srcReady = rob[k].srcReady /\ j.state = "executed" /\ j.poisoned = rob[k].poisoned
        /\ j.pos = rob[k].pos /\ j.dst = rob[k].dst
    BY <1>1, <2>1, <2>2, Executes DEF Evolves
  <2>4. rob' = [rob EXCEPT ![k] = j]
    BY <1>6, <2>1 DEF SkipPoisoned, ExecuteOp
  <2>5. \E e : e.sn = rob[k].sn /\ pending' = pending \cup {e}
    BY <1>6, OneToCommit DEF SkipPoisoned, ExecuteOp
  <2>6. \A p \in Phys : value'[p] = value[p] \/ p = rob[k].dst
    BY <1>0, <1>1, <1>6, InstFields, Written DEF SkipPoisoned, ExecuteOp
  <2>7. ResultTrue(j)'
    <3>1. CASE rob[k].poisoned
      BY <1>3, <2>2, <2>3, <3>1 DEF ResultTrue
    <3>2. CASE ~rob[k].poisoned
      <4>1. WriteReg(rob[k].dst, v)
        BY <1>5, <1>6, <3>2 DEF SkipPoisoned, ExecuteOp
      <4>2. rob[k].dst # None => value'[rob[k].dst] = rob[k].pos
        BY <1>0, <1>1, <1>4, <1>5, <3>2, <4>1, InstFields, Written
      <4> QED BY <2>3, <3>2, <4>2 DEF ResultTrue
    <3> QED BY <3>1, <3>2
  <2>8. Unwritten(j) /\ ~OnWires'
    BY <2>3 DEF Unwritten, OnWires
  <2> QED BY <1>1, <2>2, <2>3, <2>4, <2>5, <2>6, <2>7, <2>8, OneStep
<1>7. CASE ExecuteLoad(k)
  <2>1. PICK j : j = [rob[k] EXCEPT !.state = "sent", !.result = v]
    OBVIOUS
  <2>2. /\ j \in RegInst /\ Evolves(rob[k], j) /\ j.runahead = rob[k].runahead
        /\ j.squashed = rob[k].squashed
    BY <1>1, <1>5, <2>1 DEF RegInst, States, Evolves
  <2>3. j.srcReady = rob[k].srcReady /\ j.state = "sent" /\ j.poisoned = rob[k].poisoned
        /\ j.pos = rob[k].pos /\ j.result = v
    BY <1>1, <1>5, <2>1, <2>2 DEF RegInst, Evolves
  <2>4. rob' = [rob EXCEPT ![k] = j] /\ pending' = pending /\ value' = value
    BY <1>5, <1>7, <2>1 DEF ExecuteLoad
  <2>5. ResultTrue(j)'
    BY <1>3, <1>4, <1>5, <2>2, <2>3 DEF ResultTrue
  <2>6. Unwritten(j) /\ ~OnWires'
    BY <2>3 DEF Unwritten, OnWires
  <2> QED BY <1>1, <2>2, <2>3, <2>4, <2>5, <2>6, OneStep
<1> QED BY <1>6, <1>7

\* Who is skipped is gone already.
LEMMA ValueSkips ==
  ASSUME Inv, ValueInv, NEW k \in DOMAIN rob, phase = "execute", phase' = phase,
         SkipSquashed(k),
         UNCHANGED <<prog, renameNow, renameNext, renameMap, history, ready, iqReady, poison,
                     squashTo, iewRange, sig, status, pc, inRunahead, storedPc, checkpoint,
                     restoreNext, restoreNow>>
  PROVE  ValueInv'
<1>0. TypeOK /\ HeldInv /\ rob \in Seq(RegInst)
  BY DEF Inv, TypeOK
<1>1. /\ SquashedForIew(rob[k]) /\ pending' = pending /\ value' = value
      /\ rob' = [rob EXCEPT ![k].squashed = TRUE, ![k].state = "done"]
  BY DEF SkipSquashed
<1>2. Gone(rob[k])
  BY <1>0, <1>1 DEF HeldInv, IewKnows
<1>3. \A i : Gone(i)' <=> Gone(i)
  BY DEF Gone
<1>4. rob'[k].squashed /\ DOMAIN rob' = DOMAIN rob /\ \A m \in DOMAIN rob : m # k => rob'[m] = rob[m]
  <2>1. rob[k] \in RegInst
    BY <1>0, SeqFacts
  <2>2. PICK j : j = [rob[k] EXCEPT !.squashed = TRUE, !.state = "done"]
    OBVIOUS
  <2>3. j.squashed /\ rob' = [rob EXCEPT ![k] = j]
    BY <1>1, <2>1, <2>2 DEF RegInst
  <2> QED BY <1>0, <2>3, SeqFacts
<1>5. LiveInsts' \subseteq LiveInsts
  BY <1>3, <1>4 DEF LiveInsts, Insts, Range, Gone
<1>6. QueuedInsts' = QueuedInsts
  BY DEF QueuedInsts, Queue
<1>7. Live'
  BY <1>1, <1>5, <1>6, LiveFrame DEF ValueInv, Live, Like
<1>8. RestorePending' = RestorePending /\ CommitSn' = CommitSn
  BY DEF RestorePending, CommitSn
<1>9. BaseTrue'
  BY <1>0, <1>1, <1>8, BaseFrame DEF ValueInv
<1>10. CheckpointTrue'
  BY <1>8, CheckpointFrame DEF ValueInv
<1>11. WiresTrue'
  BY DEF WiresTrue, OnWires
<1> QED BY <1>7, <1>9, <1>10, <1>11 DEF ValueInv, Live

\* What executes computes from what it reads, or inherits its poison.
LEMMA ValueExecute ==
  ASSUME Inv, ValueInv, Execute
  PROVE  ValueInv'
<1>1. PICK k \in DOMAIN rob :
        SkipSquashed(k) \/ SkipPoisoned(k) \/ ExecuteOp(k) \/ ExecuteLoad(k)
  BY DEF Execute
<1>2. /\ phase = "execute" /\ phase' = phase
      /\ UNCHANGED <<prog, renameNow, renameNext, renameMap, history, ready, iqReady, poison,
                     squashTo, iewRange, sig, status, pc, inRunahead, storedPc, checkpoint,
                     restoreNext, restoreNow>>
  BY <1>1 DEF SkipSquashed, SkipPoisoned, ExecuteOp, ExecuteLoad, Executing, Execute, queueVars,
         mapVars, readyVars, commitVars, modeVars, saveVars, wireVars
<1> QED BY <1>1, <1>2, ValueExecutes, ValueSkips

\* Dispatch looks the source up in the queue's own scoreboard.
LEMMA ValueDispatch ==
  ASSUME Inv, ValueInv, DispatchInst
  PROVE  ValueInv'
<1>0. TypeOK /\ HeldInv /\ FlightInv
  BY DEF Inv
<1>1. PICK i \in Queue, d \in RegInst :
        /\ d = Dispatched(i) /\ Evolves(i, d) /\ Static(d) = Static(i)
        /\ d.runahead = i.runahead /\ ~d.squashed /\ d.state = i.state
        /\ d.poisoned = i.poisoned /\ ~Stale(i)
        /\ d.srcReady => i.srcReady \/ i.src \in iqReady
        /\ Insts' = Insts \cup {d} /\ Queue = Queue' \cup {i}
        /\ \A j \in Queue' : i.sn < j.sn
        /\ LiveInsts' = LiveInsts \cup {d}
        /\ QueuedInsts = Queue /\ QueuedInsts' = Queue'
        /\ iqReady' = iqReady \ {i.dst}
        /\ Flight' = Flight /\ \A j : Gone(j)' <=> Gone(j)
  BY <1>0, DispatchEffect
<1>2. /\ phase = "dispatch" /\ ~sig.squash
      /\ UNCHANGED <<phase, prog, renameMap, history, ready, value, poison, pending, sig, pc,
                     inRunahead, storedPc, checkpoint, restoreNext, restoreNow>>
  BY DEF DispatchInst, mapVars, regVars, iewVars, commitVars, modeVars, saveVars, wireVars
<1>3. /\ i.state = "waiting" /\ ~i.poisoned /\ d.sn = i.sn /\ d.dst = i.dst /\ d.src = i.src
      /\ i.sn \in Nat
  BY <1>0, <1>1, InstFacts DEF FlightInv, QueuedWait, Evolves
<1>4. InProduction' \subseteq InProduction
  <2> SUFFICES ASSUME NEW x \in InProduction' PROVE x \in InProduction
    OBVIOUS
  <2>1. CASE \E j \in LiveInsts' : Unwritten(j) /\ x = Static(j)
    <3>1. PICK j \in LiveInsts' : Unwritten(j) /\ x = Static(j)
      BY <2>1
    <3>2. CASE j = d
      BY <1>1, <3>1, <3>2, InProductionIs
    <3>3. CASE j \in LiveInsts
      BY <3>1, <3>3, InProductionIs
    <3> QED BY <1>1, <3>2, <3>3
  <2>2. CASE \E j \in QueuedInsts' : x = Static(j)
    BY <1>1, <2>2, InProductionIs
  <2> QED BY <2>1, <2>2, InProductionIs
<1>5. NotReadyYet'
  <2>1. \A x \in InProduction' : x.dst \notin ready'
    BY <1>2, <1>4 DEF ValueInv, NotReadyYet
  <2>2. ASSUME NEW j \in LiveInsts', Unwritten(j) PROVE j.dst \notin iqReady'
    <3>1. CASE j = d
      BY <1>1, <1>3, <3>1
    <3>2. CASE j \in LiveInsts
      BY <1>1, <2>2, <3>2 DEF ValueInv, NotReadyYet
    <3> QED BY <1>1, <3>1, <3>2
  <2> QED BY <2>1, <2>2 DEF NotReadyYet, Unwritten
<1>6. ResultsTrue'
  <2>1. ResultTrue(d)'
    BY <1>1, <1>3 DEF ResultTrue
  <2>2. \A j \in LiveInsts : ResultTrue(j)'
    BY <1>2 DEF ValueInv, ResultsTrue, ResultTrue
  <2> QED BY <1>1, <2>1, <2>2 DEF ResultsTrue
<1>7. SourcesWritten'
  <2>1. \A j : SourceWritten(j) => SourceWritten(j)'
    BY <1>4 DEF SourceWritten
  <2>2. SourceWritten(d)'
    <3> SUFFICES ASSUME d.srcReady, d.src # None, NEW x \in InProduction', x.sn < d.sn,
                        x.dst = d.src
                 PROVE  FALSE
      BY DEF SourceWritten
    <3>1. CASE i.srcReady
      <4>1. SourceWritten(i)
        BY <1>1 DEF ValueInv, SourcesWritten
      <4> QED BY <1>3, <1>4, <3>1, <4>1 DEF SourceWritten
    <3>2. CASE i.src \in iqReady
      <4>1. CASE \E j \in LiveInsts' : Unwritten(j) /\ x = Static(j)
        <5>1. PICK j \in LiveInsts' : Unwritten(j) /\ x = Static(j)
          BY <4>1
        <5>2. x.sn = j.sn /\ x.dst = j.dst
          BY <5>1, StaticFields
        <5>3. j \in LiveInsts
          BY <1>1, <1>3, <5>2
        <5> QED BY <1>3, <3>2, <5>1, <5>2, <5>3 DEF ValueInv, NotReadyYet
      <4>2. CASE \E j \in QueuedInsts' : x = Static(j)
        <5>1. PICK j \in QueuedInsts' : x = Static(j)
          BY <4>2
        <5>2. x.sn = j.sn
          BY <5>1, StaticFields
        <5>3. i.sn < j.sn /\ j.sn \in Nat
          BY <1>0, <1>1, <5>1, InstFacts
        <5> QED BY <1>3, <5>2, <5>3
      <4> QED BY <4>1, <4>2, InProductionIs
    <3> QED BY <1>1, <3>1, <3>2
  <2> QED BY <1>1, <2>1, <2>2 DEF ValueInv, SourcesWritten
<1>8. IssuedTrue'
  <2> SUFFICES ASSUME NEW j \in LiveInsts, j.state = "issued"
               PROVE  j.srcReady /\ SourceHolds(j)'
    BY <1>1, <1>3 DEF IssuedTrue
  <2>1. j.srcReady /\ SourceHolds(j)
    BY DEF ValueInv, IssuedTrue
  <2>2. InOrderSource(j)' = InOrderSource(j)
    BY <1>2 DEF InOrderSource, OpOf, LastWriter
  <2> QED BY <1>2, <2>1, <2>2 DEF SourceHolds
<1>9. PendingOnce'
  <2>1. \A e \in pending : e.sn < d.sn
    BY <1>0, <1>3 DEF FlightInv, PendingOld
  <2>2. \A e \in pending : e.sn # d.sn
    BY <1>3, <2>1
  <2> QED BY <1>1, <1>2, <2>2 DEF ValueInv, PendingOnce
<1>10. RestorePending' = RestorePending /\ CommitSn' = CommitSn
  BY <1>2 DEF RestorePending, CommitSn
<1>11. BaseTrue'
  BY <1>0, <1>2, <1>10, BaseFrame DEF ValueInv
<1>12. CheckpointTrue'
  BY <1>2, <1>10, CheckpointFrame DEF ValueInv
<1>13. WiresTrue'
  BY <1>2 DEF WiresTrue, OnWires
<1> QED BY <1>5, <1>6, <1>7, <1>8, <1>9, <1>11, <1>12, <1>13 DEF ValueInv

-----------------------------------------------------------------------------
(* Write-back.                                                              *)

\* What write-back does to one instruction.
LEMMA WokenIs ==
  ASSUME NEW i \in RegInst, NEW K, NEW j, j = Woken(i, K)
  PROVE  /\ j.poisoned = i.poisoned /\ j.result = i.result /\ j.runahead = i.runahead
         /\ Due(i) => j.state = "written"
         /\ ~Due(i) => j.state = i.state
         /\ i.srcReady => j.srcReady
         /\ j.srcReady => i.srcReady \/ i.src \in Dsts(K)
BY DEF Woken, RegInst

LEMMA DstsIs ==
  ASSUME NEW K, NEW p, p \in Dsts(K)
  PROVE  p # None /\ \E m \in K : p = rob[m].dst
BY DEF Dsts

\* Write-back tells both scoreboards, for what has executed and for squashed leftovers
\* of the ROB walk, whose registers nobody alive reads.
LEMMA ValueWriteBack ==
  ASSUME Inv, ValueInv, WriteBack
  PROVE  ValueInv'
<1>0. TypeOK /\ RegInv /\ HeldInv /\ FlightInv
  BY DEF Inv
<1> DEFINE D == Dsts(WrittenBack)
<1>1. /\ phase' = "issue"
      /\ rob' = [k \in DOMAIN rob |-> Woken(rob[k], WrittenBack)]
      /\ ready' = ready \cup D /\ iqReady' = iqReady \cup D
      /\ poison' = (poison \ CuredBy(WrittenBack)) \cup PoisonedBy(WrittenBack)
      /\ pending' = {[sn |-> e.sn, wait |-> e.wait - 1] : e \in {x \in pending : x.wait > 0}}
      /\ UNCHANGED <<prog, renameNow, renameNext, renameMap, history, value, squashTo, sig,
                     status, pc, inRunahead, storedPc, checkpoint, restoreNext, restoreNow>>
  BY DEF WriteBack, queueVars, mapVars, commitVars, modeVars, saveVars, wireVars
<1>2. InPlace /\ \A k \in DOMAIN rob : Gone(rob[k])' <=> Gone(rob[k])
  <2>1. InPlace /\ SameMarks
    BY <1>0, WriteBackInPlace
  <2> QED BY <1>1, <2>1 DEF SameMarks, InPlace, Evolves, Gone
<1>3. QueuedInsts' = QueuedInsts
  BY <1>1 DEF QueuedInsts, Queue
<1>4. ASSUME NEW j \in LiveInsts'
      PROVE  \E i \in LiveInsts :
               /\ j.sn = i.sn /\ j.pos = i.pos /\ j.dst = i.dst /\ j.src = i.src
               /\ Static(j) = Static(i)
               /\ j.poisoned = i.poisoned /\ j.result = i.result /\ j.runahead = i.runahead
               /\ Due(i) => j.state = "written"
               /\ ~Due(i) => j.state = i.state
               /\ i.srcReady => j.srcReady
               /\ j.srcReady => i.srcReady \/ i.src \in D
  <2>1. PICK k \in DOMAIN rob : j = rob'[k] /\ Evolves(rob[k], j) /\ rob[k] \in LiveInsts
    BY <1>2, InPlaceInsts
  <2>2. j = Woken(rob[k], WrittenBack) /\ rob[k] \in RegInst
    BY <1>1, <2>1, LiveMode
  <2> QED BY <2>1, <2>2, WokenIs, EvolvesStatic DEF Evolves
\* Two that write back to one register are one.
<1>5. ASSUME NEW p \in D
      PROVE  \E b \in Insts : /\ b.dst = p /\ p # None /\ Due(b) /\ ~b.squashed
                              /\ \A x \in Flight : x.dst = p => b \in LiveInsts /\ x = Static(b)
  <2>1. PICK m \in WrittenBack : p = rob[m].dst /\ p # None
    BY <1>5, DstsIs
  <2>2. m \in DOMAIN rob /\ Due(rob[m]) /\ ~rob[m].squashed /\ rob[m] \in Insts
    BY <2>1 DEF WrittenBack, Due, Insts, Range
  <2> QED BY <2>1, <2>2, WriterAway
<1>6. ASSUME NEW i \in LiveInsts, i.dst \in D PROVE Due(i)
  <2>1. PICK b \in Insts : Due(b) /\ \A x \in Flight : x.dst = i.dst => x = Static(b)
    BY <1>5, <1>6
  <2>2. Static(i) = Static(b) /\ i \in Insts
    BY <2>1, LiveMode, StaticFields
  <2>3. i.sn = b.sn
    BY <2>2, StaticFields
  <2> QED BY <1>0, <2>1, <2>2, <2>3, InstFacts
<1>7. ASSUME NEW i \in QueuedInsts PROVE i.dst \notin D
  <2> SUFFICES ASSUME i.dst \in D PROVE FALSE
    OBVIOUS
  <2>1. PICK b \in Insts : \A x \in Flight : x.dst = i.dst => x = Static(b)
    BY <1>5
  <2>2. Static(i) = Static(b) /\ i \in Queue
    BY <1>0, <2>1, StaticFields, InstFacts DEF Flight
  <2>3. i.sn = b.sn
    BY <2>2, StaticFields
  <2>4. b.sn < i.sn /\ b.sn \in Nat
    BY <1>0, <2>2, InstFacts
  <2> QED BY <2>3, <2>4
<1>8. \A x \in InProduction' : x \in InProduction /\ x.dst \notin D
  <2> SUFFICES ASSUME NEW x \in InProduction' PROVE x \in InProduction /\ x.dst \notin D
    OBVIOUS
  <2>1. CASE \E j \in LiveInsts' : Unwritten(j) /\ x = Static(j)
    <3>1. PICK j \in LiveInsts' : Unwritten(j) /\ x = Static(j)
      BY <2>1
    <3>2. PICK i \in LiveInsts : /\ Static(j) = Static(i) /\ j.dst = i.dst
                                 /\ Due(i) => j.state = "written"
                                 /\ ~Due(i) => j.state = i.state
      BY <1>4
    <3>3. ~Due(i) /\ Unwritten(i)
      BY <3>1, <3>2 DEF Unwritten
    <3>4. i.dst \notin D /\ x.dst = i.dst
      BY <1>6, <3>1, <3>2, <3>3, StaticFields
    <3> QED BY <3>1, <3>2, <3>3, <3>4, InProductionIs
  <2>2. CASE \E j \in QueuedInsts' : x = Static(j)
    BY <1>3, <1>7, <2>2, StaticFields, InProductionIs
  <2> QED BY <2>1, <2>2, InProductionIs
<1>9. \A i \in LiveInsts : Due(i) =>
        /\ i.state = "executed"
        /\ \A d \in pending : d.sn = i.sn => d.wait = 0
  <2> SUFFICES ASSUME NEW i \in LiveInsts, Due(i)
               PROVE  /\ i.state = "executed"
                      /\ \A d \in pending : d.sn = i.sn => d.wait = 0
    OBVIOUS
  <2>1. PICK e : e = [sn |-> i.sn, wait |-> 0] /\ e \in pending /\ e.sn = i.sn /\ e.wait = 0
    BY DEF Due
  <2> QED BY <2>1 DEF ValueInv, PendingOnce
<1>10. NotReadyYet'
  <2>1. \A x \in InProduction' : x.dst \notin ready'
    BY <1>1, <1>8 DEF ValueInv, NotReadyYet
  <2>2. ASSUME NEW j \in LiveInsts', Unwritten(j) PROVE j.dst \notin iqReady'
    <3>1. PICK i \in LiveInsts : /\ j.dst = i.dst
                                 /\ Due(i) => j.state = "written"
                                 /\ ~Due(i) => j.state = i.state
      BY <1>4
    <3>2. ~Due(i) /\ Unwritten(i)
      BY <2>2, <3>1 DEF Unwritten
    <3>3. i.dst \notin iqReady /\ i.dst \notin D
      BY <1>6, <3>2 DEF ValueInv, NotReadyYet
    <3> QED BY <1>1, <3>1, <3>3
  <2> QED BY <2>1, <2>2 DEF NotReadyYet, Unwritten
<1>11. ASSUME NEW i \in LiveInsts, Due(i), i.runahead, i.poisoned, i.dst # None
       PROVE  i.dst \in poison'
  <2>1. PICK k \in DOMAIN rob : i = rob[k]
    BY DEF LiveInsts, Insts, Range
  <2>2. i.dst \in PoisonedBy(WrittenBack)
    BY <1>11, <2>1 DEF PoisonedBy, Dsts, WrittenBack
  <2> QED BY <1>1, <2>2
<1>12. CuredBy(WrittenBack) \subseteq D
  BY DEF CuredBy, Dsts
<1>13. ResultsTrue'
  <2> SUFFICES ASSUME NEW j \in LiveInsts' PROVE ResultTrue(j)'
    BY DEF ResultsTrue
  <2>1. PICK i \in LiveInsts :
          /\ j.sn = i.sn /\ j.pos = i.pos /\ j.dst = i.dst
          /\ j.poisoned = i.poisoned /\ j.result = i.result /\ j.runahead = i.runahead
          /\ Due(i) => j.state = "written"
          /\ ~Due(i) => j.state = i.state
    BY <1>4
  <2>2. ResultTrue(i) /\ value' = value
    BY <1>1 DEF ValueInv, ResultsTrue
  <2>3. CASE Due(i)
    BY <1>9, <1>11, <2>1, <2>2, <2>3 DEF ResultTrue
  <2>4. CASE ~Due(i)
    <3>1. i.dst \in poison => i.dst \in poison'
      BY <1>1, <1>6, <1>12, <2>4
    <3> QED BY <2>1, <2>2, <2>4, <3>1 DEF ResultTrue
  <2> QED BY <2>3, <2>4
<1>14. SourcesWritten'
  <2>1. ASSUME NEW j \in LiveInsts', j.state \in {"waiting", "issued"} PROVE SourceWritten(j)'
    <3>1. PICK i \in LiveInsts : /\ j.sn = i.sn /\ j.src = i.src
                                 /\ Due(i) => j.state = "written"
                                 /\ ~Due(i) => j.state = i.state
                                 /\ j.srcReady => i.srcReady \/ i.src \in D
      BY <1>4
    <3>2. SourceWritten(i)
      BY <2>1, <3>1 DEF ValueInv, SourcesWritten
    <3> QED BY <1>8, <3>1, <3>2 DEF SourceWritten
  <2>2. \A i : SourceWritten(i) => SourceWritten(i)'
    BY <1>8 DEF SourceWritten
  <2> QED BY <1>3, <2>1, <2>2 DEF ValueInv, SourcesWritten
<1>15. IssuedTrue'
  <2> SUFFICES ASSUME NEW j \in LiveInsts', j.state = "issued"
               PROVE  j.srcReady /\ SourceHolds(j)'
    BY DEF IssuedTrue
  <2>1. PICK i \in LiveInsts : /\ j.pos = i.pos /\ j.src = i.src /\ j.poisoned = i.poisoned
                               /\ Due(i) => j.state = "written"
                               /\ ~Due(i) => j.state = i.state
                               /\ i.srcReady => j.srcReady
    BY <1>4
  <2>2. i.srcReady /\ SourceHolds(i)
    BY <2>1 DEF ValueInv, IssuedTrue
  <2>3. InOrderSource(j)' = InOrderSource(i)
    BY <1>1, <2>1 DEF InOrderSource, OpOf, LastWriter
  <2> QED BY <1>1, <2>1, <2>2, <2>3 DEF SourceHolds
<1>16. PendingOnce'
  <2> SUFFICES ASSUME NEW j \in LiveInsts', NEW e \in pending', e.sn = j.sn
               PROVE  /\ j.state = "executed"
                      /\ \A d \in pending' : d.sn = e.sn => d = e
    BY DEF PendingOnce
  <2>1. PICK i \in LiveInsts : /\ j.sn = i.sn
                               /\ Due(i) => j.state = "written"
                               /\ ~Due(i) => j.state = i.state
    BY <1>4
  <2>2. \A d \in pending' : \E c \in pending :
          d = [sn |-> c.sn, wait |-> c.wait - 1] /\ c.wait > 0 /\ d.sn = c.sn
    BY <1>1
  <2>3. PICK c \in pending : e = [sn |-> c.sn, wait |-> c.wait - 1] /\ c.wait > 0 /\ e.sn = c.sn
    BY <2>2
  <2>4. i.state = "executed" /\ \A d \in pending : d.sn = i.sn => d = c
    BY <2>1, <2>3 DEF ValueInv, PendingOnce
  <2>5. ~Due(i)
    BY <1>9, <2>1, <2>3
  <2>6. ASSUME NEW d \in pending', d.sn = e.sn PROVE d = e
    <3>1. PICK b \in pending : d = [sn |-> b.sn, wait |-> b.wait - 1] /\ d.sn = b.sn
      BY <2>2
    <3>2. b = c
      BY <2>1, <2>4, <2>6, <3>1
    <3> QED BY <2>3, <3>1, <3>2
  <2> QED BY <2>1, <2>4, <2>5, <2>6
<1>17. RestorePending' = RestorePending /\ CommitSn' = CommitSn
  BY <1>1 DEF RestorePending, CommitSn
<1>18. ASSUME NEW r \in Arch, NEW p \in Phys, Leads(r, CommitSn, p), inRunahead, p \in poison
       PROVE  p \in poison'
  <2> SUFFICES ASSUME p \in CuredBy(WrittenBack) PROVE FALSE
    BY <1>1, <1>18
  <2>1. PICK m \in {k \in WrittenBack : rob[k].runahead /\ ~rob[k].poisoned} :
          p = rob[m].dst /\ p # None
    BY DstsIs DEF CuredBy
  <2>2. rob[m] \in Insts /\ ~rob[m].squashed /\ ~Stale(rob[m])
    BY <1>18, <2>1 DEF WrittenBack, Due, Insts, Range, Stale
  <2>3. PICK a \in Int : a = CommitSn
    BY <1>0, FlightTypes DEF CommitSn
  <2>4. /\ ~Gone(rob[m]) => a <= rob[m].sn
        /\ Gone(rob[m]) /\ sig.squash => a <= 0
    <3>1. /\ rob[m].sn \in Nat /\ 0 < rob[m].sn /\ sig.done \in Int
          /\ ~sig.squash => sig.done < rob[m].sn
      BY <1>0, <2>2, InstFacts, FlightTypes
    <3> QED BY <2>3, <3>1 DEF CommitSn
  <2>5. Leads(r, a, p)
    BY <1>18, <2>3
  <2> QED BY <2>1, <2>2, <2>4, <2>5, WriterAway
<1>19. BaseTrue'
  BY <1>0, <1>1, <1>17, <1>18, BaseFrame DEF ValueInv
<1>20. CheckpointTrue'
  BY <1>1, <1>17, CheckpointFrame DEF ValueInv
<1>21. WiresTrue'
  BY <1>1 DEF WiresTrue, OnWires
<1> QED BY <1>10, <1>13, <1>14, <1>15, <1>16, <1>19, <1>20, <1>21 DEF ValueInv

-----------------------------------------------------------------------------
(* The end of a cycle, and the restore.                                     *)

\* The restore writes the checkpoint through commit's map, cures the poison and sets all
\* it writes ready.
LEMMA ValueRestore ==
  ASSUME Inv, ValueInv, EndTick, restoreNow
  PROVE  ValueInv'
<1>0. TypeOK /\ HeldInv /\ FlightInv
  BY DEF Inv
<1>1. /\ InPlace /\ \A k \in DOMAIN rob : Gone(rob[k])' <=> Gone(rob[k])
      /\ QueuedInsts' = QueuedInsts
      /\ SameMode /\ LiveInsts = {} /\ Queue = {} /\ \A i \in Insts : Stale(i)
  BY <1>0, EndTickEffect
<1>2. /\ history' = <<>> /\ renameMap' = IdentityMap /\ value' = RestoredValue
      /\ restoreNow' = restoreNext /\ restoreNext' = FALSE
      /\ UNCHANGED <<prog, sig, pc, inRunahead, storedPc, checkpoint>>
  BY DEF EndTick, RestoreCheckpointState, commitVars, modeVars, saveVars
<1>3. LiveInsts' = {} /\ QueuedInsts' = {}
  <2>1. LiveInsts' = {}
    BY <1>1, InPlaceInsts
  <2>2. QueuedInsts' = {}
    BY <1>1 DEF QueuedInsts
  <2> QED BY <2>1, <2>2
<1>4. Live'
  <2>1. InProduction' = {}
    BY <1>3, InProductionIs
  <2> QED BY <1>3, <2>1 DEF Live, NotReadyYet, ResultsTrue, SourcesWritten, IssuedTrue,
             PendingOnce
<1>5. RestorePending' => RestorePending
  BY <1>2 DEF RestorePending
<1>6. CheckpointTrue'
  BY <1>2, <1>5, CheckpointFrame DEF ValueInv
<1>7. BaseTrue'
  <2> SUFFICES ASSUME NEW r \in Arch
               PROVE  \E p \in Phys : Leads(r, CommitSn, p)' /\ Holds(p, r)'
    BY DEF BaseTrue, Arch, Phys
  <2>1. r \in Phys
    BY RegAssumption DEF Arch, Phys
  <2>2. DOMAIN history' = {} /\ renameMap'[r] = r
    BY <1>2 DEF IdentityMap
  <2>3. Leads(r, CommitSn, r)'
    BY <2>2 DEF Leads, Since
  <2>4. value'[r] = checkpoint[r]
    BY <1>2, <2>1 DEF RestoredValue
  <2>5. checkpoint[r] = LastWriter(storedPc, r) /\ pc = storedPc
    BY DEF ValueInv, CheckpointTrue, RestorePending
  <2>6. LastWriter(pc, r)' = LastWriter(pc, r)
    BY <1>2 DEF LastWriter
  <2>7. Holds(r, r)'
    BY <2>4, <2>5, <2>6 DEF Holds
  <2> QED BY <2>1, <2>3, <2>7
<1>8. WiresTrue'
  <2>1. \A j \in Insts' : SquashedForIew(j)'
    <3> SUFFICES ASSUME NEW j \in Insts' PROVE SquashedForIew(j)'
      OBVIOUS
    <3>1. PICK k \in DOMAIN rob : j = rob'[k] /\ rob[k] \in Insts
      BY <1>1, InPlaceInsts
    <3>2. Stale(j)'
      BY <1>1, <1>2, <3>1 DEF SameMode, Stale
    <3> QED BY <3>2 DEF SquashedForIew
  <2> QED BY <2>1 DEF WiresTrue
<1> QED BY <1>4, <1>6, <1>7, <1>8 DEF ValueInv, Live

\* Without a restore only the wires move.
LEMMA ValueEndTick ==
  ASSUME Inv, ValueInv, EndTick, ~restoreNow
  PROVE  ValueInv'
<1>0. TypeOK /\ HeldInv /\ FlightInv /\ rob \in Seq(RegInst)
  BY DEF Inv, TypeOK
<1>1. /\ InPlace /\ SameMode /\ SameMarks
      /\ \A k \in DOMAIN rob :
           /\ Gone(rob[k])' <=> Gone(rob[k])
           /\ rob'[k] = rob[k] \/ (rob[k].state = "written"
                                   /\ rob'[k] = [rob[k] EXCEPT !.state = "done"])
      /\ QueuedInsts' = QueuedInsts /\ (OnWires' <=> OnWires)
  BY <1>0, EndTickEffect
<1>2. /\ phase = "update" /\ phase' = "events"
      /\ UNCHANGED <<prog, renameMap, history, ready, iqReady, value, poison, iewRange, pending,
                     squashTo, sig, status, pc, inRunahead, storedPc, checkpoint>>
      /\ restoreNow' = restoreNext /\ restoreNext' = FALSE
  BY DEF EndTick, mapVars, regVars, iewVars, commitVars, modeVars, saveVars
<1>3. ASSUME NEW k \in DOMAIN rob
      PROVE  LET i == rob[k]
                 j == rob'[k]
             IN  /\ j = i \/ (i.state = "written" /\ j.state = "done")
                 /\ j.sn = i.sn /\ j.pos = i.pos /\ j.dst = i.dst /\ j.src = i.src
                 /\ j.srcReady = i.srcReady /\ j.poisoned = i.poisoned /\ j.runahead = i.runahead
                 /\ Static(j) = Static(i)
  <2>1. rob[k] \in RegInst
    BY <1>0, SeqFacts
  <2>2. CASE rob'[k] = rob[k]
    BY <2>2
  <2>3. CASE rob[k].state = "written" /\ rob'[k] = [rob[k] EXCEPT !.state = "done"]
    BY <2>1, <2>3 DEF RegInst, Static
  <2> QED BY <1>1, <2>2, <2>3
<1>4. ASSUME NEW j \in LiveInsts'
      PROVE  \E i \in LiveInsts :
               /\ j = i \/ (i.state = "written" /\ j.state = "done")
               /\ j.sn = i.sn /\ j.pos = i.pos /\ j.dst = i.dst /\ j.src = i.src
               /\ j.srcReady = i.srcReady /\ j.poisoned = i.poisoned /\ j.runahead = i.runahead
               /\ Static(j) = Static(i)
  <2>1. PICK k \in DOMAIN rob : j = rob'[k] /\ rob[k] \in LiveInsts
    BY <1>1, InPlaceInsts
  <2> QED BY <1>3, <2>1
<1>5. \A j \in LiveInsts' : j.state \notin {"done"} => j \in LiveInsts
  BY <1>4
<1>6. InProduction' \subseteq InProduction
  BY <1>1, <1>5, InProductionIs DEF Unwritten
<1>7. NotReadyYet'
  BY <1>2, <1>5, <1>6 DEF ValueInv, NotReadyYet, Unwritten
<1>8. ResultsTrue'
  BY <1>2, <1>4 DEF ValueInv, ResultsTrue, ResultTrue
<1>9. SourcesWritten'
  BY <1>1, <1>5, <1>6 DEF ValueInv, SourcesWritten, SourceWritten
<1>10. \A i : SourceHolds(i)' <=> SourceHolds(i)
  BY <1>2 DEF SourceHolds, InOrderSource, OpOf, LastWriter
<1>11. IssuedTrue'
  BY <1>5, <1>10 DEF ValueInv, IssuedTrue
<1>12. PendingOnce'
  BY <1>2, <1>4 DEF ValueInv, PendingOnce
<1>13. RestorePending' = RestorePending /\ CommitSn' = CommitSn
  BY <1>2 DEF RestorePending, CommitSn
<1>14. BaseTrue'
  BY <1>0, <1>2, <1>13, BaseFrame DEF ValueInv
<1>15. CheckpointTrue'
  BY <1>2, <1>13, CheckpointFrame DEF ValueInv
<1>16. WiresTrue'
  <2>1. \A i : /\ Gone(i)' <=> Gone(i)
               /\ SquashedForIew(i)' <=> SquashedForIew(i)
               /\ Stale(i)' <=> Stale(i)
    BY <1>2 DEF Gone, SquashedForIew, Stale
  <2>2. \A j \in Insts' : j.state # "done" => j \in Insts
    <3> SUFFICES ASSUME NEW j \in Insts', j.state # "done" PROVE j \in Insts
      OBVIOUS
    <3>1. PICK k \in DOMAIN rob : j = rob'[k]
      BY <1>1 DEF Insts, Range, InPlace
    <3>2. rob'[k] = rob[k]
      BY <1>3, <3>1
    <3> QED BY <3>1, <3>2 DEF Insts, Range
  <2>3. WiresTrue
    BY DEF ValueInv
  <2>4. OnWires' => OnWires /\ (phase' \in {"insts", "update", "events"} =>
                                 phase \in {"insts", "update", "events"})
    BY <1>1, <1>2 DEF OnWires
  <2> QED BY <1>1, <1>2, <1>10, <2>1, <2>2, <2>3, <2>4 DEF WiresTrue
<1> QED BY <1>7, <1>8, <1>9, <1>11, <1>12, <1>14, <1>15, <1>16 DEF ValueInv

-----------------------------------------------------------------------------
(* The invariant.                                                           *)

\* ValueInv holds to begin with.
LEMMA ValueInit == Init => ValueInv
<1> SUFFICES ASSUME Init PROVE ValueInv
  OBVIOUS
<1>1. /\ rob = <<>> /\ renameNow = <<>> /\ renameNext = <<>> /\ status = "Running"
      /\ sig = NoSig /\ history = <<>> /\ renameMap = IdentityMap /\ pc = 1
      /\ value = [p \in Phys |-> 0] /\ ~inRunahead /\ ~RestorePending
  BY DEF Init, RestorePending
<1>2. Insts = {} /\ LiveInsts = {} /\ Queue = {} /\ QueuedInsts = {}
  BY <1>1 DEF Insts, LiveInsts, Queue, QueuedInsts, Range
<1>3. InProduction = {}
  BY <1>2, InProductionIs
<1>4. ~sig.squash
  BY <1>1 DEF NoSig
<1>5. BaseTrue
  <2> SUFFICES ASSUME NEW r \in Arch
               PROVE  \E p \in Phys : Leads(r, CommitSn, p) /\ Holds(p, r)
    BY DEF BaseTrue
  <2>1. r \in Phys
    BY RegAssumption DEF Arch, Phys
  <2>2. Leads(r, CommitSn, r)
    <3>1. DOMAIN history = {} /\ renameMap[r] = r
      BY <1>1 DEF IdentityMap
    <3> QED BY <3>1 DEF Leads, Since
  <2>3. 1..(pc - 1) = {}
    BY <1>1
  <2>4. LastWriter(pc, r) = 0
    BY <2>3 DEF LastWriter
  <2> QED BY <1>1, <2>1, <2>2, <2>4 DEF Holds
<1> QED BY <1>1, <1>2, <1>3, <1>4, <1>5 DEF ValueInv, NotReadyYet, ResultsTrue, SourcesWritten,
           IssuedTrue, WiresTrue, OnWires, CheckpointTrue, PendingOnce

\* Every step keeps ValueInv.
LEMMA ValueStep == Inv /\ ValueInv /\ [Next]_vars => ValueInv'
<1> SUFFICES ASSUME Inv, ValueInv, [Next]_vars PROVE ValueInv'
  OBVIOUS
<1>0. TypeOK /\ HeldInv
  BY DEF Inv
<1>1. CASE \/ StartTick \/ SquashRename \/ RenameDone \/ FreeDone \/ DispatchDone
           \/ ExecuteDone \/ SelectNothing \/ StopCommit \/ UNCHANGED vars
  BY <1>0, <1>1, ValueStillActions
<1>2. ASSUME NEW k \in DOMAIN rob, LoadReturns(k) PROVE ValueInv'
  BY <1>2, ValueLoadReturns
<1>3. CASE UndoRename
  BY <1>0, <1>3, ValueUndo
<1>4. CASE RenameInst
  BY <1>0, <1>4, ValueRename
<1>5. CASE FreePrevious
  BY <1>0, <1>5, ValueFree
<1>6. CASE SquashIew
  BY <1>6, ValueSquashIew
<1>7. CASE DispatchInst
  BY <1>7, ValueDispatch
<1>8. CASE Execute
  BY <1>8, ValueExecute
<1>9. CASE WriteBack
  BY <1>9, ValueWriteBack
<1>10. CASE Issue
  BY <1>10, ValueIssue
<1>11. CASE IewDone
  BY <1>0, <1>11, ValueIewDone
<1>12. CASE RobWalk
  BY <1>0, <1>12, ValueWalk
<1>13. CASE SquashFromIew
  BY <1>13, ValueSquashFromIew
<1>14. CASE SquashFromRunaheadExit
  BY <1>14, ValueExit
<1>15. CASE RetireSquashed
  BY <1>15, ValueRetireSquashed
<1>16. CASE CommitHead
  BY <1>16, ValueCommitHead
<1>17. CASE EnterRunahead
  BY <1>17, ValueEnter
<1>18. CASE PoisonRunaheadLLL
  BY <1>18, ValuePoison
<1>19. CASE EndTick
  BY <1>19, ValueRestore, ValueEndTick
<1> QED BY <1>1, <1>2, <1>3, <1>4, <1>5, <1>6, <1>7, <1>8, <1>9, <1>10, <1>11, <1>12, <1>13,
           <1>14, <1>15, <1>16, <1>17, <1>18, <1>19 DEF Next

\* An instruction that may issue, or has issued and not yet read its source,
\* reads what in-order execution gives it or is known to be poisoned
\* (iew.cc:1510-1533, inst_queue.cc:798-811).
LEMMA SourcesAre ==
  ASSUME Inv, ValueInv
  PROVE  SourcesTrue
<1> SUFFICES ASSUME NEW k \in DOMAIN rob,
                    rob[k].state \in {"waiting", "issued"}, rob[k].srcReady, rob[k].src # None,
                    ~rob[k].squashed, ~Stale(rob[k]), ~SquashedForIew(rob[k])
             PROVE  \/ value[rob[k].src] = InOrderSource(rob[k])
                    \/ rob[k].poisoned
                    \/ rob[k].runahead /\ rob[k].state = "waiting" /\ rob[k].src \in poison
  BY DEF SourcesTrue
<1>1. PICK i \in Insts : i = rob[k]
  BY DEF Insts, Range
<1>2. CASE i \in LiveInsts /\ i.state = "waiting"
  <2>1. SourceWritten(i)
    BY <1>2 DEF ValueInv, SourcesWritten
  <2> QED BY <1>1, <1>2, <2>1, ReadyTrue, LiveMode
<1>3. CASE i \in LiveInsts /\ i.state = "issued"
  BY <1>1, <1>3 DEF ValueInv, IssuedTrue, SourceHolds
<1>4. CASE Gone(i)
  <2>1. OnWires
    BY <1>1, <1>4 DEF Inv, FlightInv, IewFollows
  <2> QED BY <1>1, <1>4, <2>1 DEF ValueInv, WiresTrue, SourceHolds
<1> QED BY <1>1, <1>2, <1>3, <1>4 DEF LiveInsts

\* What commits poisoned has poisoned its register.
LEMMA HeadTrue ==
  ASSUME Inv, ValueInv
  PROVE  PoisonedRetirePoisoned
<1> SUFFICES ASSUME AtHead, Head0.state = "done", Head0.poisoned, ~Head0.squashed
             PROVE  Head0.runahead /\ (Head0.dst = None \/ Head0.dst \in poison)
  BY DEF PoisonedRetirePoisoned
<1>1. rob # <<>> /\ rob \in Seq(RegInst) /\ status = "Running"
  BY DEF AtHead, Inv, TypeOK
<1>2. 1 \in DOMAIN rob /\ Head0 = rob[1]
  BY <1>1 DEF Head0
<1>3. Head0 \in LiveInsts
  BY <1>1, <1>2 DEF LiveInsts, Insts, Range, Gone
<1> QED BY <1>3 DEF ValueInv, ResultsTrue, ResultTrue

\* The invariants ValueInv rests on hold to begin with.
LEMMA InvInit == Init => Inv
BY InitType, RegInit, InitHeld, FlightInit DEF Inv

\* Every step keeps them.
LEMMA InvStep == Inv /\ [Next]_vars => Inv'
BY TypeStep, RegStep, HeldStep, FlightStep DEF Inv

\* No scoreboard says ready too early, no register is freed or restored under a
\* reader and no poison is lost: what may issue reads what in-order execution
\* gives it or is known to be poisoned (iew.cc:1510-1533, inst_queue.cc:798-811).
THEOREM SourcesTrueInvariant == Spec => []SourcesTrue
<1>1. Init => Inv /\ ValueInv
  BY InvInit, ValueInit
<1>2. Inv /\ ValueInv /\ [Next]_vars => (Inv /\ ValueInv)'
  BY InvStep, ValueStep
<1>3. Inv /\ ValueInv => SourcesTrue
  BY SourcesAre
<1> QED BY <1>1, <1>2, <1>3, PTL DEF Spec

-----------------------------------------------------------------------------
(* When poison is over.                                                     *)

\* Who was there before, in which mode.
AsBefore ==
  \A i \in Insts' : \/ \E b \in Insts : b.sn = i.sn /\ b.runahead = i.runahead
                    \/ \A e \in pending : e.sn # i.sn

LEMMA InPlaceBefore ==
  ASSUME InPlace, SameMode
  PROVE  AsBefore
BY DEF InPlace, SameMode, Evolves, AsBefore, Insts, Range

LEMMA PoisonFrame ==
  ASSUME PoisonEnds, AsBefore, BeforeWriteBack => BeforeWriteBack',
         UNCHANGED <<pending, poison, inRunahead, restoreNext, restoreNow>>
  PROVE  PoisonEnds'
<1> SUFFICES ASSUME WbBacklog <= 1 PROVE PoisonEnds'
  BY DEF PoisonEnds
<1>1. \A e \in pending' : e.wait <= 1 /\ (~BeforeWriteBack' => e.wait = 0)
  BY DEF PoisonEnds
<1>2. ASSUME NEW e \in pending', NEW i \in Insts', Stale(i)', e.sn = i.sn
      PROVE  e.wait = 0 /\ (restoreNext' \/ (restoreNow' /\ BeforeWriteBack'))
  <2>1. PICK b \in Insts : b.sn = i.sn /\ b.runahead = i.runahead
    BY <1>2 DEF AsBefore
  <2>2. Stale(b)
    BY <1>2, <2>1 DEF Stale
  <2> QED BY <1>2, <2>1, <2>2 DEF PoisonEnds
<1>3. ~inRunahead' /\ ~RestorePending' => poison' = {}
  BY DEF PoisonEnds, RestorePending
<1> QED BY <1>1, <1>2, <1>3 DEF PoisonEnds

\* What goes to commit in this cycle is of the mode the machine is in.
LEMMA PoisonCommits ==
  ASSUME TypeOK, PoisonEnds, InPlace, SameMode, NEW k \in DOMAIN rob, ~Stale(rob[k]),
         \A b \in Insts : b.sn = rob[k].sn => b = rob[k],
         pending' = pending \/ InstToCommit(rob[k].sn), BeforeWriteBack, BeforeWriteBack',
         UNCHANGED <<poison, inRunahead, restoreNext, restoreNow>>
  PROVE  PoisonEnds'
<1> SUFFICES ASSUME WbBacklog <= 1 PROVE PoisonEnds'
  BY DEF PoisonEnds
<1>1. CASE pending' = pending
  BY <1>1, InPlaceBefore, PoisonFrame
<1>2. CASE InstToCommit(rob[k].sn)
  <2>1. PICK w \in 0..WbBacklog : pending' = pending \cup {[sn |-> rob[k].sn, wait |-> w]}
    BY <1>2 DEF InstToCommit
  <2>2. w <= 1
    BY WidthAssumption
  <2>3. \A e \in pending' : e \in pending \/ (e.sn = rob[k].sn /\ e.wait = w)
    BY <2>1
  <2>4. \A e \in pending' : e.wait <= 1
    BY <2>2, <2>3 DEF PoisonEnds
  <2>5. ASSUME NEW e \in pending', NEW i \in Insts', Stale(i)', e.sn = i.sn
        PROVE  e.wait = 0 /\ (restoreNext' \/ (restoreNow' /\ BeforeWriteBack'))
    <3>1. PICK b \in Insts : b.sn = i.sn /\ b.runahead = i.runahead
      BY DEF InPlace, SameMode, Evolves, Insts, Range
    <3>2. Stale(b)
      BY <2>5, <3>1 DEF Stale
    <3>3. e \in pending
      BY <2>3, <2>5, <3>1, <3>2
    <3> QED BY <2>5, <3>1, <3>2, <3>3 DEF PoisonEnds
  <2>6. ~inRunahead' /\ ~RestorePending' => poison' = {}
    BY DEF PoisonEnds, RestorePending
  <2> QED BY <2>4, <2>5, <2>6 DEF PoisonEnds
<1> QED BY <1>1, <1>2

\* What waited its one cycle writes back, so nothing of the period is left at the restore.
LEMMA PoisonWriteBack ==
  ASSUME TypeOK, HeldInv, PoisonEnds, WriteBack
  PROVE  PoisonEnds'
<1> SUFFICES ASSUME WbBacklog <= 1 PROVE PoisonEnds'
  BY DEF PoisonEnds
<1>1. /\ phase' = "issue"
      /\ poison' = (poison \ CuredBy(WrittenBack)) \cup PoisonedBy(WrittenBack)
      /\ pending' = {[sn |-> e.sn, wait |-> e.wait - 1] : e \in {x \in pending : x.wait > 0}}
      /\ UNCHANGED <<inRunahead, restoreNext, restoreNow>>
  BY DEF WriteBack, modeVars, wireVars
<1>2. \A e \in pending : e.wait \in Nat /\ e.wait <= 1
  BY DEF TypeOK, PoisonEnds
<1>3. \A d \in pending' : \E e \in pending : d.sn = e.sn /\ e.wait # 0 /\ d.wait = 0
  <2> SUFFICES ASSUME NEW d \in pending'
               PROVE  \E e \in pending : d.sn = e.sn /\ e.wait # 0 /\ d.wait = 0
    OBVIOUS
  <2>1. PICK e \in pending : e.wait > 0 /\ d = [sn |-> e.sn, wait |-> e.wait - 1]
    BY <1>1
  <2>2. e.wait = 1
    BY <1>2, <2>1
  <2> QED BY <2>1, <2>2
<1>4. ASSUME NEW d \in pending', NEW i \in Insts', Stale(i)', d.sn = i.sn PROVE FALSE
  <2>1. PICK e \in pending : d.sn = e.sn /\ e.wait # 0
    BY <1>3
  <2>2. PICK b \in Insts : b.sn = i.sn /\ b.runahead = i.runahead
    <3>1. InPlace /\ SameMode
      BY WriteBackInPlace
    <3> QED BY <3>1 DEF InPlace, SameMode, Evolves, Insts, Range
  <2>3. Stale(b)
    BY <1>1, <1>4, <2>2 DEF Stale
  <2> QED BY <1>4, <2>1, <2>2, <2>3 DEF PoisonEnds
<1>5. ASSUME ~inRunahead, ~RestorePending PROVE poison' = {}
  <2>1. PoisonedBy(WrittenBack) = {}
    <3> SUFFICES ASSUME NEW m \in WrittenBack, rob[m].runahead PROVE FALSE
      BY DEF PoisonedBy, Dsts
    <3>1. rob[m] \in Insts /\ Stale(rob[m]) /\ Due(rob[m])
      BY <1>5 DEF WrittenBack, Insts, Range, Stale
    <3>2. PICK e : e = [sn |-> rob[m].sn, wait |-> 0] /\ e \in pending /\ e.sn = rob[m].sn
      BY <3>1 DEF Due
    <3>3. restoreNext \/ restoreNow
      BY <3>1, <3>2 DEF PoisonEnds
    <3> QED BY <1>5, <3>3 DEF RestorePending
  <2>2. poison = {}
    BY <1>5 DEF PoisonEnds
  <2> QED BY <1>1, <2>1, <2>2
<1>6. RestorePending' = RestorePending
  BY <1>1 DEF RestorePending
<1>7. \A d \in pending' : d.wait <= 1 /\ d.wait = 0
  BY <1>3
<1> QED BY <1>1, <1>4, <1>5, <1>6, <1>7 DEF PoisonEnds

\* The restore comes at the end of the next cycle, a write-back by then.
LEMMA PoisonExit ==
  ASSUME PoisonEnds, SquashFromRunaheadExit
  PROVE  PoisonEnds'
<1>1. /\ ~BeforeWriteBack /\ restoreNext' = TRUE /\ pending' = pending
  BY DEF SquashFromRunaheadExit, BeforeWriteBack, iewVars
<1> QED BY <1>1 DEF PoisonEnds, RestorePending

\* The restore clears the poison after the last write-back of the period.
LEMMA PoisonEndTick ==
  ASSUME TypeOK, HeldInv, FlightInv, PoisonEnds, EndTick
  PROVE  PoisonEnds'
<1>1. /\ phase = "update" /\ phase' = "events" /\ UNCHANGED <<pending, inRunahead>>
      /\ restoreNow' = restoreNext /\ restoreNext' = FALSE
      /\ IF restoreNow THEN poison' = {} ELSE poison' = poison
  BY DEF EndTick, RestoreCheckpointState, PoisonCleared, regVars, iewVars, modeVars
<1>2. ~BeforeWriteBack /\ BeforeWriteBack'
  BY <1>1 DEF BeforeWriteBack
<1>3. ASSUME NEW i \in Insts' PROVE \E b \in Insts : b.sn = i.sn /\ b.runahead = i.runahead
  <2>1. InPlace /\ SameMode
    BY EndTickInPlace
  <2> QED BY <2>1 DEF InPlace, SameMode, Evolves, Insts, Range
<1> QED BY <1>1, <1>2, <1>3 DEF PoisonEnds, RestorePending, Stale

LEMMA PoisonEnter ==
  ASSUME PoisonEnds, EnterRunahead
  PROVE  PoisonEnds'
<1>1. inRunahead' = TRUE /\ pending' = pending /\ ~BeforeWriteBack
  BY DEF EnterRunahead, LoadAtHead, AtHead, iewVars, BeforeWriteBack
<1> QED BY <1>1 DEF PoisonEnds, Stale

LEMMA PoisonResults ==
  ASSUME TypeOK, HeldInv, PoisonEnds, (\E k \in DOMAIN rob : LoadReturns(k)) \/ Execute
  PROVE  PoisonEnds'
<1>1. Quiet
  BY QuietAre
<1>2. InPlace /\ SameMode /\ UNCHANGED <<inRunahead, restoreNext, restoreNow>>
  BY <1>1 DEF Quiet
<1>3. phase \in {"events", "execute"} /\ phase' = phase /\ poison' = poison
  BY DEF LoadReturns, Execute, SkipSquashed, SkipPoisoned, ExecuteOp, ExecuteLoad, Executing
<1>4. PICK k \in DOMAIN rob :
        \/ ~Stale(rob[k]) /\ (pending' = pending \/ InstToCommit(rob[k].sn))
        \/ pending' = pending
  BY DEF LoadReturns, Execute, SkipSquashed, SkipPoisoned, ExecuteOp, ExecuteLoad, SquashedForIew
<1>5. BeforeWriteBack /\ BeforeWriteBack'
  BY <1>3 DEF BeforeWriteBack
<1>6. CASE pending' = pending
  BY <1>2, <1>3, <1>5, <1>6, InPlaceBefore, PoisonFrame
<1>7. CASE ~Stale(rob[k]) /\ InstToCommit(rob[k].sn)
  <2>1. \A b \in Insts : b.sn = rob[k].sn => b = rob[k]
    BY InstFacts DEF Insts, Range
  <2> QED BY <1>2, <1>3, <1>5, <1>7, <2>1, PoisonCommits
<1> QED BY <1>4, <1>6, <1>7

LEMMA PoisonQuiet ==
  ASSUME TypeOK, HeldInv, PoisonEnds,
         \/ StartTick \/ SquashRename \/ RenameDone \/ FreeDone \/ DispatchDone
         \/ ExecuteDone \/ Issue \/ SelectNothing \/ PoisonRunaheadLLL \/ StopCommit
  PROVE  PoisonEnds'
<1>1. Quiet
  BY QuietAre
<1>2. AsBefore /\ UNCHANGED <<inRunahead, restoreNext, restoreNow>>
  BY <1>1, InPlaceBefore DEF Quiet
<1>3. UNCHANGED <<pending, poison>>
  BY DEF StartTick, SquashRename, RenameDone, FreeDone, DispatchDone, ExecuteDone, Issue,
         SelectNothing, PoisonRunaheadLLL, StopCommit, iewVars, regVars
<1>4. BeforeWriteBack => BeforeWriteBack'
  BY DEF StartTick, SquashRename, RenameDone, FreeDone, DispatchDone, ExecuteDone, Issue,
         SelectNothing, PoisonRunaheadLLL, LoadAtHead, AtHead, StopCommit, BeforeWriteBack
<1> QED BY <1>2, <1>3, <1>4, PoisonFrame

LEMMA PoisonOthers ==
  ASSUME TypeOK, HeldInv, FlightInv, PoisonEnds,
         \/ UndoRename \/ RenameInst \/ FreePrevious \/ SquashIew \/ DispatchInst \/ IewDone
         \/ RobWalk \/ SquashFromIew \/ RetireSquashed \/ CommitHead \/ UNCHANGED vars
  PROVE  PoisonEnds'
<1>1. UNCHANGED <<pending, poison, inRunahead, restoreNext, restoreNow>>
  BY DEF UndoRename, RenameInst, FreePrevious, SquashIew, DispatchInst, IewDone, RobWalk,
         SquashFromIew, RetireSquashed, CommitHead, vars, regVars, iewVars, modeVars, wireVars
<1>2. BeforeWriteBack => BeforeWriteBack'
  BY DEF UndoRename, RenameInst, FreePrevious, SquashIew, DispatchInst, IewDone, RobWalk,
         SquashFromIew, RetireSquashed, CommitHead, AtHead, vars, BeforeWriteBack
<1>3. AsBefore
  <2>1. CASE UndoRename \/ RenameInst \/ FreePrevious \/ IewDone \/ UNCHANGED vars
    <3>1. rob' = rob
      BY <2>1 DEF UndoRename, RenameInst, FreePrevious, IewDone, vars, robVars
    <3> QED BY <3>1 DEF AsBefore, Insts
  <2>2. CASE SquashIew
    BY <2>2, SquashIewGone, InPlaceBefore
  <2>3. CASE RobWalk
    BY <2>3, WalkGone, InPlaceBefore
  <2>4. CASE DispatchInst
    <3>1. PICK i \in Queue, d \in RegInst : Evolves(i, d) /\ Insts' = Insts \cup {d}
      BY <2>4, DispatchEffect
    <3>2. \A e \in pending : e.sn < d.sn
      BY <3>1 DEF FlightInv, PendingOld, Evolves
    <3>3. d.sn \in Nat
      BY <3>1, InstFields
    <3>4. \A e \in pending : e.sn # d.sn
      BY <3>2, <3>3
    <3> QED BY <3>1, <3>4 DEF AsBefore
  <2>5. CASE SquashFromIew
    <3>1. PICK to \in Int, pos \in Nat :
            SquashFrom(to, pos) /\ (status = "ROBSquashing" => to <= squashTo)
      BY <2>5, IewSquashIs
    <3> QED BY <3>1, SquashEffect, InPlaceBefore
  <2>6. CASE RetireSquashed \/ CommitHead
    <3>1. AtHead /\ rob' = Tail(rob) /\ UNCHANGED <<renameNow, renameNext, status, squashTo>>
      BY <2>6 DEF RetireSquashed, CommitHead, queueVars, commitVars
    <3>2. Insts' \subseteq Insts
      BY <3>1, HeadLeaves
    <3> QED BY <3>2 DEF AsBefore
  <2> QED BY <2>1, <2>2, <2>3, <2>4, <2>5, <2>6
<1> QED BY <1>1, <1>2, <1>3, PoisonFrame

\* PoisonEnds holds to begin with.
LEMMA PoisonInit == Init => PoisonEnds
BY DEF Init, PoisonEnds

\* Every step keeps PoisonEnds.
LEMMA PoisonStep == TypeOK /\ HeldInv /\ FlightInv /\ PoisonEnds /\ [Next]_vars => PoisonEnds'
<1> SUFFICES ASSUME TypeOK, HeldInv, FlightInv, PoisonEnds, [Next]_vars PROVE PoisonEnds'
  OBVIOUS
<1>1. CASE (\E k \in DOMAIN rob : LoadReturns(k)) \/ Execute
  BY <1>1, PoisonResults
<1>2. CASE \/ StartTick \/ SquashRename \/ RenameDone \/ FreeDone \/ DispatchDone
           \/ ExecuteDone \/ Issue \/ SelectNothing \/ PoisonRunaheadLLL \/ StopCommit
  BY <1>2, PoisonQuiet
<1>3. CASE \/ UndoRename \/ RenameInst \/ FreePrevious \/ SquashIew \/ DispatchInst \/ IewDone
           \/ RobWalk \/ SquashFromIew \/ RetireSquashed \/ CommitHead \/ UNCHANGED vars
  BY <1>3, PoisonOthers
<1>4. CASE WriteBack
  BY <1>4, PoisonWriteBack
<1>5. CASE SquashFromRunaheadExit
  BY <1>5, PoisonExit
<1>6. CASE EnterRunahead
  BY <1>6, PoisonEnter
<1>7. CASE EndTick
  BY <1>7, PoisonEndTick
<1> QED BY <1>1, <1>2, <1>3, <1>4, <1>5, <1>6, <1>7 DEF Next

\* Poison is there as long as an invalid value is, and not longer: what a
\* poisoned instruction pseudoretires with are poisoned registers
\* (commit.cc:1727-1732), and with write-back at most one cycle behind none
\* outlives the restore (cpu.cc:1861, iew.cc:1499-1520).
THEOREM PoisonSoundInvariant == Spec => []PoisonSound
<1>1. Init => Inv /\ ValueInv /\ PoisonEnds
  BY InvInit, ValueInit, PoisonInit
<1>2. Inv /\ ValueInv /\ PoisonEnds /\ [Next]_vars => (Inv /\ ValueInv /\ PoisonEnds)'
  BY InvStep, ValueStep, PoisonStep DEF Inv
<1>3. Inv /\ ValueInv /\ PoisonEnds => PoisonSound
  <2>1. Inv /\ ValueInv => PoisonedRetirePoisoned
    BY HeadTrue
  <2>2. PoisonEnds => NoPoisonInNormal
    BY DEF PoisonEnds, NoPoisonInNormal
  <2> QED BY <2>1, <2>2 DEF PoisonSound
<1> QED BY <1>1, <1>2, <1>3, PTL DEF Spec

-----------------------------------------------------------------------------
(* The registers of an in-order machine.                                    *)

Place == IF inRunahead THEN storedPc ELSE pc

File == IF inRunahead \/ RestorePending THEN checkpoint
        ELSE [r \in Arch |-> value[commitMap[r]]]

\* The file is what the program has left up to its place.
FileTrue == File = [r \in Arch |-> LastWriter(Place, r)]

\* Out of runahead and restore, the register file seen through commit's map is that of
\* in-order execution at the PC.
LEMMA FileIs == Inv /\ ValueInv => FileTrue
<1> SUFFICES ASSUME Inv, ValueInv
             PROVE  File = [r \in Arch |-> LastWriter(Place, r)]
  BY DEF FileTrue
<1>0. TypeOK /\ RegInv /\ HeldInv
  BY DEF Inv
<1>1. CASE inRunahead \/ RestorePending
  <2>1. \A r \in Arch : checkpoint[r] = LastWriter(storedPc, r)
    BY <1>1 DEF ValueInv, CheckpointTrue
  <2>2. Place = storedPc
    BY <1>1 DEF ValueInv, CheckpointTrue, Place
  <2>3. checkpoint = [r \in Arch |-> checkpoint[r]]
    BY <1>0 DEF TypeOK
  <2>4. checkpoint = [r \in Arch |-> LastWriter(storedPc, r)]
    BY <2>1, <2>3
  <2> QED BY <1>1, <2>2, <2>4 DEF File
<1>2. CASE ~inRunahead /\ ~RestorePending
  <2>1. ASSUME NEW r \in Arch PROVE value[commitMap[r]] = LastWriter(pc, r)
    <3>1. Leads(r, CommitSn, commitMap[r])
      BY <1>0, <1>2 DEF HeldInv, CommitMapLeads, CommitSn
    <3>2. PICK p \in Phys : Leads(r, CommitSn, p) /\ Holds(p, r)
      BY <1>2 DEF ValueInv, BaseTrue
    <3>3. PICK a \in Int : a = CommitSn
      BY <1>0, FlightTypes DEF CommitSn
    <3>4. p = commitMap[r]
      BY <1>0, <3>1, <3>2, <3>3, LeadsApart
    <3> QED BY <1>2, <3>2, <3>4 DEF Holds
  <2>2. Place = pc
    BY <1>2 DEF Place
  <2> QED BY <1>2, <2>1, <2>2 DEF File
<1> QED BY <1>1, <1>2

\* One more instruction is one more write.
LEMMA OneMore ==
  ASSUME NEW p \in Nat, 1 <= p, NEW r \in Arch
  PROVE  LastWriter(p + 1, r) = IF prog[p].dst = r THEN p ELSE LastWriter(p, r)
<1>1. CASE prog[p].dst = r
  <2>1. PICK a, b \in Int : a = p + 1 /\ b = p /\ b < a /\ 1 <= b
    OBVIOUS
  <2>2. prog[b].dst = r /\ \A x \in Int : ~(b < x /\ x < a)
    BY <1>1, <2>1
  <2>3. LastWriter(a, r) = b
    BY <2>1, <2>2, LastWriterIs
  <2> QED BY <1>1, <2>1, <2>3
<1>2. CASE prog[p].dst # r
  <2>1. \A x \in Int : p <= x /\ x < p + 1 => x = p
    OBVIOUS
  <2> QED BY <1>2, <2>1, LastWriterSame
<1> QED BY <1>1, <1>2

\* Only what commits outside runahead moves on in the program.
LEMMA PlaceMoves ==
  ASSUME Inv, [Next]_vars
  PROVE  /\ prog' = prog
         /\ Place' = Place \/ (CommitHead /\ ~inRunahead /\ Place = pc /\ Place' = pc')
<1>1. CASE UNCHANGED <<prog, pc, inRunahead, storedPc>>
  BY <1>1 DEF Place
<1>2. CASE CommitHead
  <2>1. UNCHANGED <<prog, inRunahead, storedPc>>
    BY <1>2 DEF CommitHead, modeVars
  <2> QED BY <1>2, <2>1 DEF Place
<1>3. CASE SquashFromRunaheadExit
  <2>1. inRunahead /\ inRunahead' = FALSE /\ pc' = storedPc /\ prog' = prog
    BY <1>3 DEF SquashFromRunaheadExit
  <2> QED BY <2>1 DEF Place
<1>4. CASE EnterRunahead
  <2>1. ~inRunahead /\ inRunahead' = TRUE /\ storedPc' = pc /\ prog' = prog
    BY <1>4 DEF EnterRunahead
  <2> QED BY <2>1 DEF Place
<1>5. CASE \/ \E k \in DOMAIN rob : LoadReturns(k)
           \/ StartTick \/ UndoRename \/ SquashRename \/ RenameInst \/ RenameDone \/ FreePrevious
           \/ FreeDone \/ SquashIew \/ DispatchInst \/ DispatchDone \/ Execute \/ ExecuteDone
           \/ WriteBack \/ Issue \/ IewDone
  <2>1. UNCHANGED <<prog, commitVars, modeVars>>
    BY <1>5 DEF LoadReturns, StartTick, UndoRename, SquashRename, RenameInst, RenameDone,
           FreePrevious, FreeDone, SquashIew, DispatchInst, DispatchDone, Execute, ExecuteDone,
           WriteBack, Issue, IewDone
  <2> QED BY <1>1, <2>1 DEF commitVars, modeVars
<1>6. CASE \/ RobWalk \/ SquashFromIew \/ SelectNothing \/ RetireSquashed \/ PoisonRunaheadLLL
           \/ StopCommit \/ EndTick \/ UNCHANGED vars
  <2>1. UNCHANGED <<prog, pc, modeVars>>
    BY <1>6 DEF RobWalk, SquashFromIew, SelectNothing, RetireSquashed, PoisonRunaheadLLL,
           StopCommit, EndTick, vars, commitVars
  <2> QED BY <1>1, <2>1 DEF modeVars
<1> QED BY <1>2, <1>3, <1>4, <1>5, <1>6 DEF Next

\* What commits leaves its place in the program in the register it writes.
LEMMA CommitWrites ==
  ASSUME Inv, FileTrue, FileTrue', CommitHead, ~inRunahead
  PROVE  /\ pc \in DOMAIN prog /\ pc' = pc + 1
         /\ File' = IF prog[pc].dst = None THEN File ELSE [File EXCEPT ![prog[pc].dst] = pc]
<1>1. /\ Head0 \in LiveInsts /\ Static(Head0) \in Flight /\ Head0.pos = pc /\ pc' = pc + 1
      /\ pc \in Nat
  BY CommitEffect DEF Inv
<1>2. prog' = prog /\ inRunahead' = inRunahead
  BY DEF CommitHead, modeVars
<1>3. pc \in DOMAIN prog
  BY <1>1, StaticFields DEF Inv, FlightInv, SourcesLead, SourceLeads
<1>4. 1 <= pc /\ prog[pc] \in Op
  BY <1>3, SeqFacts DEF Inv, TypeOK
<1>5. prog[pc].dst \in Arch \cup {None}
  BY <1>4 DEF Op
<1>6. File = [r \in Arch |-> LastWriter(pc, r)]
  BY DEF FileTrue, Place
<1>7. \A r : LastWriter(pc, r)' = LastWriter(pc', r)
  BY <1>2 DEF LastWriter
<1>8. File' = [r \in Arch |-> IF prog[pc].dst = r THEN pc ELSE LastWriter(pc, r)]
  <2>1. File' = [r \in Arch |-> LastWriter(pc, r)']
    BY <1>2 DEF FileTrue, Place, Arch
  <2>2. \A r \in Arch : LastWriter(pc, r)' = IF prog[pc].dst = r THEN pc ELSE LastWriter(pc, r)
    BY <1>1, <1>4, <1>7, OneMore
  <2> QED BY <2>1, <2>2
<1>9. CASE prog[pc].dst = None
  <2>1. \A r \in Arch : prog[pc].dst # r
    BY <1>9, ArchNotNone
  <2> QED BY <1>1, <1>3, <1>6, <1>8, <1>9, <2>1
<1>10. CASE prog[pc].dst # None
  BY <1>1, <1>3, <1>5, <1>6, <1>8, <1>10
<1> QED BY <1>9, <1>10

\* Every step is a step of the in-order machine or leaves its registers alone.
LEMMA RegistersStep ==
  ASSUME Inv, FileTrue, FileTrue', [Next]_vars
  PROVE  [Registers!Step]_<<prog, Place, File>>
<1>1. CASE Place' = Place
  <2>1. prog' = prog
    BY PlaceMoves
  <2>2. \A r \in Arch : LastWriter(Place, r)' = LastWriter(Place, r)
    BY <1>1, <2>1 DEF LastWriter
  <2>3. File' = [r \in Arch |-> LastWriter(Place, r)']
    BY DEF FileTrue, Arch
  <2>4. File' = File
    BY <2>2, <2>3 DEF FileTrue
  <2> QED BY <1>1, <2>1, <2>4
<1>2. CASE CommitHead /\ ~inRunahead /\ Place = pc /\ Place' = pc'
  <2>1. prog' = prog
    BY PlaceMoves
  <2>2. /\ pc \in DOMAIN prog /\ pc' = pc + 1
        /\ File' = IF prog[pc].dst = None THEN File ELSE [File EXCEPT ![prog[pc].dst] = pc]
    BY <1>2, CommitWrites
  <2>3. /\ Place \in DOMAIN prog /\ Place' = Place + 1
        /\ File' = IF prog[Place].dst = None THEN File
                   ELSE [File EXCEPT ![prog[Place].dst] = Place]
    BY <1>2, <2>2
  <2>4. Registers!Step
    BY <2>1, <2>3 DEF Registers!Step, Place, File
  <2> QED BY <2>4
<1> QED BY <1>1, <1>2, PlaceMoves

\* Whatever is squashed, poisoned or restored, software sees the registers of a
\* machine that executes its program in order, the checkpoint standing for them
\* in runahead and until the restore (commit.cc:1721-1725, cpu.cc:1831-1861).
THEOREM RegistersRefine == Spec => RegistersInOrder
<1>1. Init => Inv /\ ValueInv
  BY InvInit, ValueInit
<1>2. Inv /\ ValueInv /\ [Next]_vars => (Inv /\ ValueInv)'
  BY InvStep, ValueStep
<1>3. Inv /\ ValueInv => FileTrue
  BY FileIs
<1>4. Init => Registers!Init
  <2> SUFFICES ASSUME Init PROVE Registers!Init
    OBVIOUS
  <2>1. /\ pc = 1 /\ ~inRunahead /\ ~RestorePending /\ commitMap = IdentityMap
        /\ value = [p \in Phys |-> 0]
    BY DEF Init, RestorePending
  <2>2. \A r \in Arch : commitMap[r] = r /\ r \in Phys
    BY <2>1, RegAssumption DEF IdentityMap, Arch, Phys
  <2>3. \A r \in Arch : value[commitMap[r]] = 0
    BY <2>1, <2>2
  <2> QED BY <2>1, <2>3 DEF Registers!Init
<1>5. Inv /\ FileTrue /\ FileTrue' /\ [Next]_vars => [Registers!Step]_<<prog, Place, File>>
  BY RegistersStep
<1> QED BY <1>1, <1>2, <1>3, <1>4, <1>5, PTL
        DEF Spec, RegistersInOrder, Registers!Spec, Place, File
=============================================================================
