--------------------------- MODULE RegHeldProofs ---------------------------
(***************************************************************************)
(* The physical registers of the register model: their conservation, the   *)
(* types of its state, and what is never handed out, for every program,    *)
(* every number of registers and every width.                              *)
(***************************************************************************)
EXTENDS RegInvariant, TLAPS, SequenceTheorems, WellFoundedInduction

-----------------------------------------------------------------------------
(* No register is lost or duplicated.                                       *)

\* Taking the first of a sequence without repetitions.
LEMMA TakeHead ==
  ASSUME NEW S, NEW s \in Seq(S), s # <<>>,
         \A j, k \in DOMAIN s : s[j] = s[k] => j = k
  PROVE  /\ Head(s) \in S
         /\ Head(s) \in Range(s)
         /\ Tail(s) \in Seq(S)
         /\ \A j, k \in DOMAIN Tail(s) : Tail(s)[j] = Tail(s)[k] => j = k
         /\ Range(Tail(s)) = Range(s) \ {Head(s)}
<1>1. /\ Tail(s) \in Seq(S) /\ Head(s) = s[1] /\ Len(s) \in Nat \ {0}
      /\ DOMAIN s = 1..Len(s) /\ DOMAIN Tail(s) = 1..(Len(s) - 1)
      /\ \A k \in 1..(Len(s) - 1) : Tail(s)[k] = s[k + 1]
  OBVIOUS
<1>2. Head(s) \in S /\ Head(s) \in Range(s)
  BY <1>1 DEF Range
<1>3. \A j, k \in DOMAIN Tail(s) : Tail(s)[j] = Tail(s)[k] => j = k
  BY <1>1
<1>4. Range(Tail(s)) = Range(s) \ {Head(s)}
  <2>1. ASSUME NEW x \in Range(Tail(s))
        PROVE  x \in Range(s) \ {Head(s)}
    <3>1. PICK k \in 1..(Len(s) - 1) : x = Tail(s)[k]
      BY <1>1 DEF Range
    <3>2. x = s[k + 1] /\ k + 1 \in 1..Len(s) /\ k + 1 # 1
      BY <1>1, <3>1
    <3> QED BY <1>1, <3>2 DEF Range
  <2>2. ASSUME NEW x \in Range(s), x # Head(s)
        PROVE  x \in Range(Tail(s))
    <3>1. PICK k \in 1..Len(s) : x = s[k]
      BY <1>1 DEF Range
    <3>2. k - 1 \in 1..(Len(s) - 1) /\ Tail(s)[k - 1] = x
      BY <1>1, <2>2, <3>1
    <3> QED BY <1>1, <3>2 DEF Range
  <2> QED BY <2>1, <2>2
<1> QED BY <1>1, <1>2, <1>3, <1>4

\* Appending an element that is not there yet.
LEMMA AppendNew ==
  ASSUME NEW S, NEW s \in Seq(S), NEW e \in S, e \notin Range(s),
         \A j, k \in DOMAIN s : s[j] = s[k] => j = k
  PROVE  /\ Append(s, e) \in Seq(S)
         /\ \A j, k \in DOMAIN Append(s, e) : Append(s, e)[j] = Append(s, e)[k] => j = k
         /\ Range(Append(s, e)) = Range(s) \cup {e}
<1> DEFINE t == Append(s, e)
<1>1. /\ t \in Seq(S) /\ Len(s) \in Nat
      /\ DOMAIN s = 1..Len(s) /\ DOMAIN t = 1..(Len(s) + 1)
      /\ \A k \in 1..Len(s) : t[k] = s[k]
      /\ t[Len(s) + 1] = e
  OBVIOUS
<1>2. \A k \in 1..Len(s) : t[k] # e
  BY <1>1 DEF Range
<1> HIDE DEF t
<1>3. \A j, k \in DOMAIN t : t[j] = t[k] => j = k
  BY <1>1, <1>2
<1>4. Range(t) = Range(s) \cup {e}
  <2>1. ASSUME NEW x \in Range(t) PROVE x \in Range(s) \cup {e}
    <3>1. PICK k \in 1..(Len(s) + 1) : x = t[k]
      BY <1>1 DEF Range
    <3> QED BY <1>1, <3>1 DEF Range
  <2>2. ASSUME NEW x \in Range(s) PROVE x \in Range(t)
    <3>1. PICK k \in 1..Len(s) : x = s[k]
      BY <1>1 DEF Range
    <3>2. k \in 1..(Len(s) + 1) /\ t[k] = x
      BY <1>1, <3>1
    <3> QED BY <1>1, <3>2 DEF Range
  <2>3. e \in Range(t)
    BY <1>1 DEF Range
  <2> QED BY <2>1, <2>2, <2>3
<1> QED BY <1>1, <1>3, <1>4 DEF t

\* The types conservation relies on.
MapType ==
  /\ prog \in Seq(Op) /\ nextSn \in Nat
  /\ renameMap \in [Arch -> Phys] /\ freeList \in Seq(Phys)
  /\ history \in Seq(HistoryEntry)

\* The inductive invariant.
RegInv == MapType /\ RegsConserved /\ HistoryChain

\* The reset lists split the registers among them.
LEMMA ResetLists ==
  /\ IdentityMap \in [Arch -> Phys] /\ InitialFreeList \in Seq(Phys)
  /\ \A j, k \in DOMAIN InitialFreeList : InitialFreeList[j] = InitialFreeList[k] => j = k
  /\ \A q, r \in Arch : IdentityMap[q] = IdentityMap[r] => q = r
  /\ Range(IdentityMap) = Arch /\ Range(InitialFreeList) = Phys \ Arch
  /\ Arch \subseteq Phys
<1>1. NumArch \in Nat /\ NumPhys \in Nat /\ NumArch < NumPhys
  BY RegAssumption
<1>2. IdentityMap \in [Arch -> Phys] /\ InitialFreeList \in Seq(Phys)
  BY <1>1 DEF IdentityMap, InitialFreeList, Arch, Phys
<1>3. Range(IdentityMap) = Arch
  BY DEF IdentityMap, Range
<1>4. Range(InitialFreeList) = Phys \ Arch
  <2>1. ASSUME NEW x \in Range(InitialFreeList) PROVE x \in Phys \ Arch
    BY <1>1 DEF InitialFreeList, Range, Arch, Phys
  <2>2. ASSUME NEW x \in Phys \ Arch PROVE x \in Range(InitialFreeList)
    <3>1. /\ x - NumArch \in 1..(NumPhys - NumArch)
          /\ InitialFreeList[x - NumArch] = x
      BY <1>1 DEF InitialFreeList, Arch, Phys
    <3> QED BY <3>1 DEF InitialFreeList, Range
  <2> QED BY <2>1, <2>2
<1>5. Arch \subseteq Phys
  BY <1>1 DEF Arch, Phys
<1>6. \A j, k \in DOMAIN InitialFreeList : InitialFreeList[j] = InitialFreeList[k] => j = k
  BY <1>1 DEF InitialFreeList
<1>7. \A q, r \in Arch : IdentityMap[q] = IdentityMap[r] => q = r
  BY DEF IdentityMap
<1> QED BY <1>2, <1>3, <1>4, <1>5, <1>6, <1>7

\* Changing one value of an injective function to a new one.
LEMMA RemapNew ==
  ASSUME NEW f \in [Arch -> Phys], NEW a \in Arch, NEW y \in Phys,
         y \notin Range(f), \A q, r \in Arch : f[q] = f[r] => q = r
  PROVE  /\ [f EXCEPT ![a] = y] \in [Arch -> Phys]
         /\ \A q, r \in Arch : [f EXCEPT ![a] = y][q] = [f EXCEPT ![a] = y][r] => q = r
         /\ Range([f EXCEPT ![a] = y]) = (Range(f) \ {f[a]}) \cup {y}
<1> DEFINE g == [f EXCEPT ![a] = y]
<1>1. /\ g \in [Arch -> Phys] /\ DOMAIN g = Arch /\ DOMAIN f = Arch
      /\ g[a] = y /\ \A q \in Arch : q # a => g[q] = f[q]
  OBVIOUS
<1>2. \A q \in Arch : f[q] \in Range(f) /\ f[q] # y
  BY <1>1 DEF Range
<1> HIDE DEF g
<1>3. \A q, r \in Arch : g[q] = g[r] => q = r
  BY <1>1, <1>2
<1>4. Range(g) = (Range(f) \ {f[a]}) \cup {y}
  <2>1. ASSUME NEW x \in Range(g) PROVE x \in (Range(f) \ {f[a]}) \cup {y}
    <3>1. PICK q \in Arch : x = g[q]
      BY <1>1 DEF Range
    <3> QED BY <1>1, <1>2, <3>1
  <2>2. ASSUME NEW x \in Range(f), x # f[a] PROVE x \in Range(g)
    <3>1. PICK q \in Arch : x = f[q]
      BY <1>1 DEF Range
    <3> QED BY <1>1, <2>2, <3>1 DEF Range
  <2>3. y \in Range(g)
    BY <1>1 DEF Range
  <2> QED BY <2>1, <2>2, <2>3
<1> QED BY <1>1, <1>3, <1>4 DEF g

LEMMA ArchNotNone == None \notin Arch
BY DEF Arch, None

-----------------------------------------------------------------------------
(* SimpleRenameMap::rename and the history entry.                           *)

LEMMA RenameDestStep ==
  ASSUME RegInv, NEW arch \in Arch, freeList # <<>>, RenameDest(arch),
         prog' = prog, nextSn' = nextSn + 1
  PROVE  RegInv'
<1> DEFINE p == Head(freeList)
           m == renameMap[arch]
           e == [sn |-> nextSn, arch |-> arch, new |-> p, prev |-> m]
<1>1. /\ MapType /\ RegsConserved /\ HistoryChain
  BY DEF RegInv
<1>2. /\ renameMap' = [renameMap EXCEPT ![arch] = p]
      /\ freeList' = Tail(freeList)
      /\ history' = <<e>> \o history
  BY DEF RenameDest
<1>3. /\ p \in Phys /\ p \in Range(freeList) /\ freeList' \in Seq(Phys)
      /\ \A j, k \in DOMAIN freeList' : freeList'[j] = freeList'[k] => j = k
      /\ Range(freeList') = Range(freeList) \ {p}
  <2>1. /\ freeList \in Seq(Phys) /\ freeList # <<>>
        /\ \A j, k \in DOMAIN freeList : freeList[j] = freeList[k] => j = k
    BY <1>1 DEF MapType, RegsConserved, RenameDest
  <2>2. /\ Head(freeList) \in Phys /\ Head(freeList) \in Range(freeList)
        /\ Tail(freeList) \in Seq(Phys)
        /\ \A j, k \in DOMAIN Tail(freeList) : Tail(freeList)[j] = Tail(freeList)[k] => j = k
        /\ Range(Tail(freeList)) = Range(freeList) \ {Head(freeList)}
    BY <2>1, TakeHead
  <2>3. freeList' = Tail(freeList) /\ p = Head(freeList)
    BY <1>2
  <2> HIDE DEF p
  <2> QED BY <2>2, <2>3
<1>4. p \notin Range(renameMap) /\ p \notin PrevRegs
  BY <1>1, <1>3 DEF RegsConserved
<1>5. /\ renameMap' \in [Arch -> Phys]
      /\ \A q, r \in Arch : renameMap'[q] = renameMap'[r] => q = r
      /\ Range(renameMap') = (Range(renameMap) \ {m}) \cup {p}
  <2>1. /\ renameMap \in [Arch -> Phys] /\ p \in Phys /\ p \notin Range(renameMap)
        /\ \A q, r \in Arch : renameMap[q] = renameMap[r] => q = r
    BY <1>1, <1>3, <1>4 DEF MapType, RegsConserved
  <2> HIDE DEF p
  <2> DEFINE g == [renameMap EXCEPT ![arch] = p]
  <2>2. /\ g \in [Arch -> Phys]
        /\ \A q, r \in Arch : g[q] = g[r] => q = r
        /\ Range(g) = (Range(renameMap) \ {renameMap[arch]}) \cup {p}
    BY <2>1, RemapNew
  <2>3. renameMap' = g
    BY <1>2
  <2> HIDE DEF g
  <2> QED BY <2>2, <2>3
<1>6. /\ m \in Phys /\ m \in Range(renameMap) /\ m \notin PrevRegs
      /\ e \in HistoryEntry /\ nextSn' \in Nat
  BY <1>1, <1>3 DEF MapType, RegsConserved, HistoryEntry, Range
<1>7. /\ history' \in Seq(HistoryEntry)
      /\ DOMAIN history = 1..Len(history) /\ Len(history) \in Nat
      /\ DOMAIN history' = 1..(Len(history) + 1)
      /\ history'[1] = e
      /\ \A k \in 1..Len(history) : history'[k + 1] = history[k]
      /\ \A k \in 2..(Len(history) + 1) :
           k - 1 \in 1..Len(history) /\ history'[k] = history[k - 1]
  <2> HIDE DEF e
  <2>1. history \in Seq(HistoryEntry)
    BY <1>1 DEF MapType
  <2> QED BY <1>2, <1>6, <2>1
<1>8. MapType'
  BY <1>1, <1>3, <1>5, <1>6, <1>7 DEF MapType
<1>9. /\ PrevRegs' = PrevRegs \cup {m}
      /\ \A j, k \in DOMAIN history' : history'[j].prev = history'[k].prev => j = k
  <2>1. e.prev = m
    OBVIOUS
  <2> HIDE DEF e, m
  <2>2. \A k \in 1..Len(history) : history[k].prev \in PrevRegs /\ history[k].prev # m
    BY <1>6, <1>7 DEF PrevRegs
  <2>3. ASSUME NEW x \in PrevRegs' PROVE x \in PrevRegs \cup {m}
    <3>1. PICK k \in 1..(Len(history) + 1) : x = history'[k].prev
      BY <1>7 DEF PrevRegs
    <3>2. CASE k = 1
      BY <1>7, <2>1, <3>1, <3>2
    <3>3. CASE k # 1
      BY <1>7, <2>2, <3>1, <3>3
    <3> QED BY <3>2, <3>3
  <2>4. ASSUME NEW x \in PrevRegs PROVE x \in PrevRegs'
    <3>1. PICK k \in 1..Len(history) : x = history[k].prev
      BY <1>7 DEF PrevRegs
    <3>2. k + 1 \in DOMAIN history' /\ history'[k + 1].prev = x
      BY <1>7, <3>1
    <3> QED BY <3>2 DEF PrevRegs
  <2>5. m \in PrevRegs'
    BY <1>7, <2>1 DEF PrevRegs
  <2>6. PrevRegs' = PrevRegs \cup {m}
    BY <2>3, <2>4, <2>5
  <2>7. ASSUME NEW j \in DOMAIN history', NEW k \in DOMAIN history',
               history'[j].prev = history'[k].prev
        PROVE  j = k
    <3>1. CASE j = 1 \/ k = 1
      BY <1>7, <2>1, <2>2, <2>7, <3>1
    <3>2. CASE j # 1 /\ k # 1
      <4>1. j - 1 \in DOMAIN history /\ k - 1 \in DOMAIN history
        BY <1>7, <3>2
      <4>2. history[j - 1].prev = history[k - 1].prev
        BY <1>7, <2>7, <3>2
      <4>3. j - 1 = k - 1
        BY <1>1, <4>1, <4>2 DEF RegsConserved
      <4> QED BY <1>7, <4>3
    <3> QED BY <3>1, <3>2
  <2> QED BY <2>6, <2>7
<1>10. RegsConserved'
  <2> HIDE DEF p, m
  <2>1. /\ Range(freeList) \cap Range(renameMap) = {}
        /\ Range(freeList) \cap PrevRegs = {}
        /\ Range(renameMap) \cap PrevRegs = {}
        /\ Range(freeList) \cup Range(renameMap) \cup PrevRegs = Phys
    BY <1>1 DEF RegsConserved
  <2>2. /\ Range(freeList') \cap Range(renameMap') = {}
        /\ Range(freeList') \cap PrevRegs' = {}
        /\ Range(renameMap') \cap PrevRegs' = {}
        /\ Range(freeList') \cup Range(renameMap') \cup PrevRegs' = Phys
    BY <1>3, <1>4, <1>5, <1>6, <1>9, <2>1
  <2> QED BY <1>3, <1>5, <1>9, <2>2 DEF RegsConserved
<1>11. HistoryChain'
  <2>1. e.arch = arch /\ e.new = p /\ e.prev = m
    OBVIOUS
  <2>2. renameMap'[arch] = p /\ \A r \in Arch : r # arch => renameMap'[r] = renameMap[r]
    BY <1>1, <1>2 DEF MapType
  <2>3. m = renameMap[arch]
    OBVIOUS
  <2> HIDE DEF e, p, m
  <2> SUFFICES ASSUME NEW k \in DOMAIN history'
               PROVE  LET newer == {j \in 1..(k - 1) : history'[j].arch = history'[k].arch}
                      IN  /\ newer = {} => renameMap'[history'[k].arch] = history'[k].new
                          /\ \A j \in newer :
                               (\A i \in newer : i <= j) => history'[j].prev = history'[k].new
    BY DEF HistoryChain
  <2>4. CASE k = 1
    BY <1>7, <2>1, <2>2, <2>4
  <2>5. CASE k # 1
    <3> DEFINE h == history[k - 1]
               old == {j \in 1..((k - 1) - 1) : history[j].arch = h.arch}
               new == {j \in 1..(k - 1) : history'[j].arch = history'[k].arch}
    <3>1. k - 1 \in DOMAIN history /\ history'[k] = h /\ h.arch \in Arch
      <4>1. k \in 2..(Len(history) + 1)
        BY <1>7, <2>5
      <4>2. h \in HistoryEntry
        BY <1>1, <1>7, <4>1 DEF MapType
      <4> QED BY <1>7, <4>1, <4>2 DEF HistoryEntry
    <3>2. /\ old = {} => renameMap[h.arch] = h.new
          /\ \A j \in old : (\A i \in old : i <= j) => history[j].prev = h.new
      BY <1>1, <3>1 DEF HistoryChain
    <3>3. \A j \in old : j + 1 \in new /\ history'[j + 1] = history[j]
      BY <1>7, <3>1
    <3>4. 1 \in new <=> h.arch = arch
      BY <1>7, <2>1, <2>5, <3>1
    <3>5. \A j \in new : j # 1 => j - 1 \in old /\ history'[j] = history[j - 1]
      BY <1>7, <3>1
    <3>a. \A j \in old : j \in Nat /\ j >= 1
      OBVIOUS
    <3>b. \A j \in new : j \in Nat /\ j >= 1
      BY <1>7, <2>5
    <3> HIDE DEF h, old, new
    <3>6. new = {} => renameMap'[h.arch] = h.new
      BY <2>2, <3>1, <3>2, <3>3, <3>4
    <3>7. ASSUME NEW j \in new, \A i \in new : i <= j
          PROVE  history'[j].prev = h.new
      <4>1. CASE j = 1
        <5>1. old = {}
          BY <3>3, <3>7, <3>a, <4>1
        <5> QED BY <1>7, <2>1, <2>3, <3>2, <3>4, <4>1, <5>1
      <4>2. CASE j # 1
        <5>1. j - 1 \in old /\ history'[j] = history[j - 1]
          BY <3>5, <4>2
        <5>2. \A i \in old : i <= j - 1
          BY <3>3, <3>7, <3>a, <3>b
        <5> QED BY <3>2, <5>1, <5>2
      <4> QED BY <4>1, <4>2
    <3> QED BY <3>1, <3>6, <3>7 DEF new
  <2> QED BY <2>4, <2>5
<1> QED BY <1>8, <1>10, <1>11 DEF RegInv
-----------------------------------------------------------------------------
(* Rename::doSquash: the newest entry is undone.                            *)

LEMMA UndoStep ==
  ASSUME RegInv, UndoRename
  PROVE  RegInv'
<1> DEFINE h == history[1]
<1>1. /\ MapType /\ RegsConserved /\ HistoryChain
  BY DEF RegInv
<1>2. /\ history # <<>> /\ history' = Tail(history)
      /\ renameMap' = [renameMap EXCEPT ![h.arch] = h.prev]
      /\ freeList' = Append(freeList, h.new)
      /\ prog' = prog /\ nextSn' = nextSn
  BY DEF UndoRename, MustUndo, frontVars
<1>3. /\ Len(history) \in Nat \ {0} /\ DOMAIN history = 1..Len(history)
      /\ history' \in Seq(HistoryEntry) /\ DOMAIN history' = 1..(Len(history) - 1)
      /\ \A k \in DOMAIN history' : history'[k] = history[k + 1]
      /\ h \in HistoryEntry
  BY <1>1, <1>2 DEF MapType
<1>4. h.arch \in Arch /\ h.prev \in Phys /\ h.new \in Phys
  BY <1>3 DEF HistoryEntry
<1>5. renameMap[h.arch] = h.new
  BY <1>1, <1>3 DEF HistoryChain
<1>6. h.prev \in PrevRegs /\ h.prev \notin Range(renameMap)
  BY <1>1, <1>3 DEF PrevRegs, RegsConserved
<1>7. h.new \in Range(renameMap) /\ h.new \notin Range(freeList)
  <2> HIDE DEF h
  <2>1. h.arch \in DOMAIN renameMap
    BY <1>1, <1>4 DEF MapType
  <2>2. h.new \in Range(renameMap)
    BY <1>5, <2>1 DEF Range
  <2> QED BY <1>1, <2>2 DEF RegsConserved
<1>8. /\ renameMap' \in [Arch -> Phys]
      /\ \A q, r \in Arch : renameMap'[q] = renameMap'[r] => q = r
      /\ Range(renameMap') = (Range(renameMap) \ {h.new}) \cup {h.prev}
      /\ renameMap'[h.arch] = h.prev
      /\ \A r \in Arch : r # h.arch => renameMap'[r] = renameMap[r]
  <2>1. renameMap \in [Arch -> Phys] /\ \A q, r \in Arch : renameMap[q] = renameMap[r] => q = r
    BY <1>1 DEF MapType, RegsConserved
  <2>2. PICK a \in Arch, y \in Phys : a = h.arch /\ y = h.prev
    BY <1>4
  <2> HIDE DEF h
  <2> DEFINE g == [renameMap EXCEPT ![a] = y]
  <2>3. /\ g \in [Arch -> Phys]
        /\ \A q, r \in Arch : g[q] = g[r] => q = r
        /\ Range(g) = (Range(renameMap) \ {renameMap[a]}) \cup {y}
    <3>1. y \notin Range(renameMap)
      BY <1>6, <2>2
    <3> QED BY <2>1, <3>1, RemapNew
  <2>4. g[a] = y /\ \A r \in Arch : r # a => g[r] = renameMap[r]
    BY <2>1
  <2>5. renameMap' = g
    BY <1>2, <2>2
  <2> HIDE DEF g
  <2> QED BY <1>5, <2>2, <2>3, <2>4, <2>5
<1>9. /\ freeList' \in Seq(Phys)
      /\ \A j, k \in DOMAIN freeList' : freeList'[j] = freeList'[k] => j = k
      /\ Range(freeList') = Range(freeList) \cup {h.new}
  <2>1. /\ freeList \in Seq(Phys)
        /\ \A j, k \in DOMAIN freeList : freeList[j] = freeList[k] => j = k
    BY <1>1 DEF MapType, RegsConserved
  <2>2. PICK y \in Phys : y = h.new
    BY <1>4
  <2> HIDE DEF h
  <2> DEFINE f == Append(freeList, y)
  <2>3. /\ f \in Seq(Phys)
        /\ \A j, k \in DOMAIN f : f[j] = f[k] => j = k
        /\ Range(f) = Range(freeList) \cup {y}
    <3>1. y \notin Range(freeList)
      BY <1>7, <2>2
    <3> QED BY <2>1, <3>1, AppendNew
  <2>4. freeList' = f
    BY <1>2, <2>2
  <2> HIDE DEF f
  <2> QED BY <2>2, <2>3, <2>4
<1>10. MapType'
  BY <1>1, <1>2, <1>3, <1>8, <1>9 DEF MapType
<1>11. /\ PrevRegs' = PrevRegs \ {h.prev}
       /\ \A j, k \in DOMAIN history' : history'[j].prev = history'[k].prev => j = k
  <2>1. \A j, k \in DOMAIN history : history[j].prev = history[k].prev => j = k
    BY <1>1 DEF RegsConserved
  <2>2. ASSUME NEW x \in PrevRegs' PROVE x \in PrevRegs \ {h.prev}
    <3>1. PICK k \in DOMAIN history' : x = history'[k].prev
      BY DEF PrevRegs
    <3>2. k + 1 \in DOMAIN history /\ k + 1 # 1 /\ 1 \in DOMAIN history
      BY <1>3, <3>1
    <3> QED BY <1>3, <2>1, <3>1, <3>2 DEF PrevRegs
  <2>3. ASSUME NEW x \in PrevRegs, x # h.prev PROVE x \in PrevRegs'
    <3>1. PICK k \in DOMAIN history : x = history[k].prev
      BY DEF PrevRegs
    <3>2. k - 1 \in DOMAIN history' /\ history'[k - 1] = history[k]
      BY <1>3, <2>3, <3>1
    <3> QED BY <3>1, <3>2 DEF PrevRegs
  <2>4. ASSUME NEW j \in DOMAIN history', NEW k \in DOMAIN history',
               history'[j].prev = history'[k].prev
        PROVE  j = k
    <3>1. j + 1 \in DOMAIN history /\ k + 1 \in DOMAIN history
      BY <1>3
    <3>2. j + 1 = k + 1
      BY <1>3, <2>1, <2>4, <3>1
    <3> QED BY <1>3, <3>2
  <2> QED BY <2>2, <2>3, <2>4
<1>12. RegsConserved'
  <2> HIDE DEF h
  <2>1. /\ Range(freeList) \cap Range(renameMap) = {}
        /\ Range(freeList) \cap PrevRegs = {}
        /\ Range(renameMap) \cap PrevRegs = {}
        /\ Range(freeList) \cup Range(renameMap) \cup PrevRegs = Phys
    BY <1>1 DEF RegsConserved
  <2>2. /\ Range(freeList') \cap Range(renameMap') = {}
        /\ Range(freeList') \cap PrevRegs' = {}
        /\ Range(renameMap') \cap PrevRegs' = {}
        /\ Range(freeList') \cup Range(renameMap') \cup PrevRegs' = Phys
    BY <1>6, <1>7, <1>8, <1>9, <1>11, <2>1
  <2> QED BY <1>8, <1>9, <1>11, <2>2 DEF RegsConserved
<1>13. HistoryChain'
  <2> SUFFICES ASSUME NEW k \in DOMAIN history'
               PROVE  LET newer == {j \in 1..(k - 1) : history'[j].arch = history'[k].arch}
                      IN  /\ newer = {} => renameMap'[history'[k].arch] = history'[k].new
                          /\ \A j \in newer :
                               (\A i \in newer : i <= j) => history'[j].prev = history'[k].new
    BY DEF HistoryChain
  <2> DEFINE e == history[k + 1]
             old == {j \in 1..((k + 1) - 1) : history[j].arch = e.arch}
             new == {j \in 1..(k - 1) : history'[j].arch = history'[k].arch}
  <2>1. k + 1 \in DOMAIN history /\ history'[k] = e /\ e.arch \in Arch /\ k \in Nat \ {0}
    <3>1. k + 1 \in DOMAIN history /\ history'[k] = e /\ k \in Nat \ {0}
      BY <1>3
    <3>2. e \in HistoryEntry
      BY <1>1, <3>1 DEF MapType
    <3> QED BY <3>1, <3>2 DEF HistoryEntry
  <2>2. /\ old = {} => renameMap[e.arch] = e.new
        /\ \A j \in old : (\A i \in old : i <= j) => history[j].prev = e.new
    BY <1>1, <2>1 DEF HistoryChain
  <2>3. \A j \in new : j + 1 \in old /\ history'[j] = history[j + 1]
    <3> SUFFICES ASSUME NEW j \in new PROVE j + 1 \in old /\ history'[j] = history[j + 1]
      OBVIOUS
    <3>1. history'[j].arch = e.arch /\ j \in Nat /\ 1 <= j /\ j <= k - 1
      BY <2>1
    <3>2. j \in DOMAIN history'
      BY <1>3, <2>1, <3>1
    <3>3. history'[j] = history[j + 1]
      BY <1>3, <3>2
    <3>4. j + 1 \in 1..((k + 1) - 1)
      BY <2>1, <3>1
    <3> QED BY <3>1, <3>3, <3>4
  <2>4. \A j \in old : j \in Nat /\ (j # 1 => j - 1 \in new)
    <3> SUFFICES ASSUME NEW j \in old PROVE j \in Nat /\ (j # 1 => j - 1 \in new)
      OBVIOUS
    <3>1. history[j].arch = e.arch /\ j \in Nat /\ 1 <= j /\ j <= k
      BY <2>1
    <3>2. ASSUME j # 1 PROVE j - 1 \in new
      <4>1. j - 1 \in 1..(k - 1) /\ j - 1 \in DOMAIN history' /\ (j - 1) + 1 = j
        BY <1>3, <2>1, <3>1, <3>2
      <4>2. history'[j - 1] = history[j]
        BY <1>3, <4>1
      <4> QED BY <2>1, <3>1, <4>1, <4>2
    <3> QED BY <3>1, <3>2
  <2>5. 1 \in old <=> e.arch = h.arch
    BY <1>3, <2>1
  <2>6. \A j \in new : j \in Nat /\ j >= 1
    BY <2>1
  <2> HIDE DEF h, e, old, new
  <2>7. ASSUME new = {} PROVE renameMap'[e.arch] = e.new
    <3>1. \A j \in old : j = 1
      BY <2>4, <2>7
    <3>2. CASE 1 \in old
      <4>1. history[1].prev = e.new
        BY <2>2, <3>1, <3>2
      <4>2. h.prev = e.new
        BY <4>1 DEF h
      <4> QED BY <1>8, <2>5, <3>2, <4>2
    <3>3. CASE 1 \notin old
      <4>1. old = {} /\ e.arch # h.arch
        BY <2>5, <3>1, <3>3
      <4> QED BY <1>8, <2>1, <2>2, <4>1
    <3> QED BY <3>2, <3>3
  <2>8. ASSUME NEW j \in new, \A i \in new : i <= j
        PROVE  history'[j].prev = e.new
    <3>1. \A i \in old : i <= j + 1
      BY <2>4, <2>6, <2>8
    <3> QED BY <2>2, <2>3, <3>1
  <2> QED BY <2>1, <2>7, <2>8 DEF new
<1> QED BY <1>10, <1>12, <1>13 DEF RegInv

-----------------------------------------------------------------------------
(* Rename::removeFromHistory: the oldest entry goes, and its former register*)
(* is free.                                                                 *)

LEMMA FreeStep ==
  ASSUME RegInv, FreePrevious
  PROVE  RegInv'
<1> DEFINE n == Len(history)
           p == history[n].prev
<1>1. /\ MapType /\ RegsConserved /\ HistoryChain
  BY DEF RegInv
<1>2. /\ history # <<>> /\ history' = SubSeq(history, 1, n - 1)
      /\ freeList' = Append(freeList, p)
      /\ renameMap' = renameMap /\ prog' = prog /\ nextSn' = nextSn
  BY DEF FreePrevious, MustFree, FreedBy, frontVars
<1>3. /\ n \in Nat \ {0} /\ DOMAIN history = 1..n
      /\ history' \in Seq(HistoryEntry) /\ DOMAIN history' = 1..(n - 1)
      /\ \A k \in DOMAIN history' : history'[k] = history[k]
      /\ p \in Phys
  <2>1. history \in Seq(HistoryEntry)
    BY <1>1 DEF MapType
  <2>2. n \in Nat \ {0} /\ DOMAIN history = 1..n
    BY <1>2, <2>1
  <2>3. history[n] \in HistoryEntry
    BY <2>1, <2>2
  <2>4. p \in Phys
    BY <2>3 DEF HistoryEntry
  <2> HIDE DEF n, p
  <2>5. /\ history' \in Seq(HistoryEntry) /\ DOMAIN history' = 1..(n - 1)
        /\ \A k \in DOMAIN history' : history'[k] = history[k]
    BY <1>2, <2>1, <2>2
  <2> QED BY <2>2, <2>4, <2>5
<1>4. p \in PrevRegs /\ p \notin Range(freeList)
  BY <1>1, <1>3 DEF PrevRegs, RegsConserved
<1> HIDE DEF n, p
<1>5. /\ freeList' \in Seq(Phys)
      /\ \A j, k \in DOMAIN freeList' : freeList'[j] = freeList'[k] => j = k
      /\ Range(freeList') = Range(freeList) \cup {p}
  <2>1. /\ freeList \in Seq(Phys)
        /\ \A j, k \in DOMAIN freeList : freeList[j] = freeList[k] => j = k
    BY <1>1 DEF MapType, RegsConserved
  <2>2. p \in Phys /\ p \notin Range(freeList)
    BY <1>3, <1>4
  <2> DEFINE f == Append(freeList, p)
  <2>3. /\ f \in Seq(Phys)
        /\ \A j, k \in DOMAIN f : f[j] = f[k] => j = k
        /\ Range(f) = Range(freeList) \cup {p}
    BY <2>1, <2>2, AppendNew
  <2>4. freeList' = f
    BY <1>2
  <2> HIDE DEF f
  <2> QED BY <2>3, <2>4
<1>6. MapType'
  BY <1>1, <1>2, <1>3, <1>5 DEF MapType
<1>7. /\ PrevRegs' = PrevRegs \ {p}
      /\ \A j, k \in DOMAIN history' : history'[j].prev = history'[k].prev => j = k
  <2>1. \A j, k \in DOMAIN history : history[j].prev = history[k].prev => j = k
    BY <1>1 DEF RegsConserved
  <2>2. ASSUME NEW x \in PrevRegs' PROVE x \in PrevRegs \ {p}
    <3>1. PICK k \in DOMAIN history' : x = history'[k].prev
      BY DEF PrevRegs
    <3>2. k \in DOMAIN history /\ k # n /\ n \in DOMAIN history /\ x = history[k].prev
      BY <1>3, <3>1
    <3> QED BY <2>1, <3>2 DEF PrevRegs, p
  <2>3. ASSUME NEW x \in PrevRegs, x # p PROVE x \in PrevRegs'
    <3>1. PICK k \in DOMAIN history : x = history[k].prev
      BY DEF PrevRegs
    <3>2. k # n
      BY <2>3, <3>1 DEF p
    <3>3. k \in DOMAIN history' /\ history'[k] = history[k]
      BY <1>3, <3>2
    <3> QED BY <3>1, <3>3 DEF PrevRegs
  <2>4. \A k \in DOMAIN history' : k \in DOMAIN history
    BY <1>3
  <2> QED BY <1>3, <2>1, <2>2, <2>3, <2>4
<1>8. RegsConserved'
  <2>1. /\ \A q, r \in Arch : renameMap[q] = renameMap[r] => q = r
        /\ Range(freeList) \cap Range(renameMap) = {}
        /\ Range(freeList) \cap PrevRegs = {}
        /\ Range(renameMap) \cap PrevRegs = {}
        /\ Range(freeList) \cup Range(renameMap) \cup PrevRegs = Phys
    BY <1>1 DEF RegsConserved
  <2>2. /\ Range(freeList') \cap Range(renameMap') = {}
        /\ Range(freeList') \cap PrevRegs' = {}
        /\ Range(renameMap') \cap PrevRegs' = {}
        /\ Range(freeList') \cup Range(renameMap') \cup PrevRegs' = Phys
    BY <1>2, <1>4, <1>5, <1>7, <2>1
  <2> QED BY <1>2, <1>5, <1>7, <2>1, <2>2 DEF RegsConserved
<1>9. HistoryChain'
  <2> SUFFICES ASSUME NEW k \in DOMAIN history'
               PROVE  LET newer == {j \in 1..(k - 1) : history'[j].arch = history'[k].arch}
                      IN  /\ newer = {} => renameMap'[history'[k].arch] = history'[k].new
                          /\ \A j \in newer :
                               (\A i \in newer : i <= j) => history'[j].prev = history'[k].new
    BY DEF HistoryChain
  <2> DEFINE old == {j \in 1..(k - 1) : history[j].arch = history[k].arch}
             new == {j \in 1..(k - 1) : history'[j].arch = history'[k].arch}
  <2>1. k \in DOMAIN history /\ history'[k] = history[k]
        /\ \A j \in 1..(k - 1) : history'[j] = history[j]
    BY <1>3
  <2>2. new = old
    BY <2>1
  <2>3. /\ old = {} => renameMap[history[k].arch] = history[k].new
        /\ \A j \in old : (\A i \in old : i <= j) => history[j].prev = history[k].new
    BY <1>1, <2>1 DEF HistoryChain
  <2>4. \A j \in old : history'[j] = history[j]
    BY <2>1
  <2> HIDE DEF old, new
  <2> QED BY <1>2, <2>1, <2>2, <2>3, <2>4 DEF new
<1> QED BY <1>6, <1>8, <1>9 DEF RegInv

-----------------------------------------------------------------------------
LEMMA Untouched ==
  ASSUME RegInv, UNCHANGED <<mapVars, prog>>, nextSn' \in Nat
  PROVE  RegInv'
<1>1. renameMap' = renameMap /\ freeList' = freeList /\ history' = history /\ prog' = prog
  BY DEF mapVars
<1>2. MapType'
  BY <1>1 DEF RegInv, MapType
<1>3. RegsConserved'
  BY <1>1 DEF RegInv, RegsConserved, PrevRegs
<1>4. HistoryChain'
  BY <1>1 DEF RegInv, HistoryChain
<1> QED BY <1>2, <1>3, <1>4 DEF RegInv

\* The restore (CPU::restoreCheckpointState) starts over from the identity.
LEMMA RestoreStep ==
  ASSUME RegInv, RestoreCheckpointState, prog' = prog, nextSn' = nextSn
  PROVE  RegInv'
<1>1. renameMap' = IdentityMap /\ freeList' = InitialFreeList /\ history' = <<>>
  BY DEF RestoreCheckpointState
<1>2. prog' \in Seq(Op) /\ nextSn' \in Nat
  BY DEF RegInv, MapType
<1>3. PrevRegs' = {}
  BY <1>1 DEF PrevRegs
<1>4. MapType'
  BY <1>1, <1>2, ResetLists DEF MapType
<1>5. RegsConserved'
  BY <1>1, <1>3, ResetLists DEF RegsConserved
<1>6. HistoryChain'
  BY <1>1 DEF HistoryChain
<1> QED BY <1>4, <1>5, <1>6 DEF RegInv

-----------------------------------------------------------------------------
LEMMA RegInit == Init => RegInv
<1> SUFFICES ASSUME Init PROVE RegInv
  OBVIOUS
<1>1. renameMap = IdentityMap /\ freeList = InitialFreeList /\ history = <<>>
  BY DEF Init
<1>2. prog \in Seq(Op) /\ nextSn \in Nat
  BY OpsAssumption DEF Init
<1>3. PrevRegs = {}
  BY <1>1 DEF PrevRegs
<1>4. MapType
  BY <1>1, <1>2, ResetLists DEF MapType
<1>5. RegsConserved
  BY <1>1, <1>3, ResetLists DEF RegsConserved
<1>6. HistoryChain
  BY <1>1 DEF HistoryChain
<1> QED BY <1>4, <1>5, <1>6 DEF RegInv

LEMMA RegStep == RegInv /\ [Next]_vars => RegInv'
<1> SUFFICES ASSUME RegInv, [Next]_vars PROVE RegInv'
  OBVIOUS
<1>0. nextSn \in Nat /\ nextSn + 1 \in Nat /\ prog \in Seq(Op)
  BY DEF RegInv, MapType
<1>1. CASE RenameInst
  <2> DEFINE op == prog[fetchPos]
  <2>1. prog' = prog /\ nextSn' = nextSn + 1 /\ fetchPos \in DOMAIN prog
    BY <1>1 DEF RenameInst
  <2>2. CASE op.dst = None
    <3>1. UNCHANGED mapVars
      BY <1>1, <2>2 DEF RenameInst
    <3> QED BY <1>0, <2>1, <3>1, Untouched
  <2>3. CASE op.dst # None
    <3>1. op \in Op
      BY <1>0, <2>1
    <3>2. op.dst \in Arch
      BY <2>3, <3>1 DEF Op
    <3>3. freeList # <<>> /\ RenameDest(op.dst)
      BY <1>1, <2>3 DEF RenameInst, CanRename
    <3> HIDE DEF op
    <3> QED BY <2>1, <3>2, <3>3, RenameDestStep
  <2> QED BY <2>2, <2>3
<1>2. CASE UndoRename
  BY <1>2, UndoStep
<1>3. CASE FreePrevious
  BY <1>3, FreeStep
<1>4. CASE EndTick
  <2>1. prog' = prog /\ nextSn' = nextSn
    BY <1>4 DEF EndTick, frontVars
  <2>2. CASE restoreNow
    <3>1. RestoreCheckpointState
      BY <1>4, <2>2 DEF EndTick
    <3> QED BY <2>1, <3>1, RestoreStep
  <2>3. CASE ~restoreNow
    <3>1. UNCHANGED mapVars
      BY <1>4, <2>3 DEF EndTick
    <3> QED BY <1>0, <2>1, <3>1, Untouched
  <2> QED BY <2>2, <2>3
<1>5. CASE StartTick \/ SquashRename \/ RenameDone \/ FreeDone
  <2>1. UNCHANGED <<mapVars, prog>> /\ nextSn' = nextSn
    BY <1>5 DEF StartTick, SquashRename, RenameDone, FreeDone, frontVars
  <2> QED BY <1>0, <2>1, Untouched
<1>6. CASE \/ \E k \in DOMAIN rob : LoadReturns(k)
          \/ SquashIew \/ DispatchInst \/ DispatchDone \/ Execute
          \/ ExecuteDone \/ WriteBack \/ Issue \/ IewDone
  <2>1. UNCHANGED <<mapVars, prog>> /\ nextSn' = nextSn
    BY <1>6 DEF LoadReturns, SquashIew, DispatchInst, DispatchDone, Execute,
                ExecuteDone, WriteBack, Issue, IewDone, frontVars
  <2> QED BY <1>0, <2>1, Untouched
<1>7. CASE \/ RobWalk \/ SquashFromIew \/ SquashFromRunaheadExit
          \/ SelectNothing \/ RetireSquashed \/ CommitHead
          \/ EnterRunahead \/ PoisonRunaheadLLL \/ StopCommit
  <2>1. UNCHANGED <<mapVars, prog>> /\ nextSn' = nextSn
    BY <1>7 DEF RobWalk, SquashFromIew, SquashFromRunaheadExit, SelectNothing,
                RetireSquashed, CommitHead, EnterRunahead, PoisonRunaheadLLL,
                StopCommit, frontVars
  <2> QED BY <1>0, <2>1, Untouched
<1>8. CASE UNCHANGED vars
  <2>1. UNCHANGED <<mapVars, prog>> /\ nextSn' = nextSn
    BY <1>8 DEF vars, frontVars
  <2> QED BY <1>0, <2>1, Untouched
<1> QED BY <1>1, <1>2, <1>3, <1>4, <1>5, <1>6, <1>7, <1>8 DEF Next

\* Rename never loses a physical register nor hands one out twice: at every
\* moment each register is on the free list, in the rename map, or in the
\* history buffer waiting to be freed or restored (rename.cc:919-1141), also
\* across the restore of a checkpoint (cpu.cc:1831-1858).
THEOREM RegsConservedInvariant == Spec => []RegsConserved
<1>1. RegInv => RegsConserved
  BY DEF RegInv
<1> QED BY <1>1, RegInit, RegStep, PTL DEF Spec

\* An undo finds what it needs: the newest history entry of a register is what
\* the rename map holds, each older one what the next newer one replaced
\* (rename.cc:941-963), whatever was committed, squashed or restored before.
THEOREM HistoryChainInvariant == Spec => []HistoryChain
<1>1. RegInv => HistoryChain
  BY DEF RegInv
<1> QED BY <1>1, RegInit, RegStep, PTL DEF Spec

-----------------------------------------------------------------------------
(* Instructions and sequences of them.                                      *)

\* What j, a later state of i, has in common with it.
Evolves(i, j) ==
  /\ j.sn = i.sn /\ j.pos = i.pos /\ j.dst = i.dst /\ j.src = i.src
  /\ i.squashed => j.squashed
  /\ j.state = "waiting" => i.state = "waiting"

LEMMA InstFields ==
  ASSUME NEW i \in RegInst
  PROVE  /\ i.sn \in Nat /\ i.pos \in Nat /\ i.dst \in Phys \cup {None}
         /\ i.src \in Phys \cup {None} /\ i.srcReady \in BOOLEAN
         /\ i.state \in States /\ i.result \in Nat \cup {Bogus}
         /\ i.runahead \in BOOLEAN /\ i.poisoned \in BOOLEAN
         /\ i.squashed \in BOOLEAN
BY DEF RegInst

LEMMA InstUpdates ==
  ASSUME NEW i \in RegInst
  PROVE  /\ \A st \in States \ {"waiting"} :
              LET j == [i EXCEPT !.state = st]
              IN  j \in RegInst /\ Evolves(i, j) /\ j.runahead = i.runahead
                  /\ j.squashed = i.squashed /\ j.state = st
         /\ LET j == [i EXCEPT !.squashed = TRUE]
            IN  j \in RegInst /\ Evolves(i, j) /\ j.runahead = i.runahead /\ j.squashed
         /\ LET j == [i EXCEPT !.squashed = TRUE, !.state = "done"]
            IN  j \in RegInst /\ Evolves(i, j) /\ j.runahead = i.runahead
         /\ LET j == [i EXCEPT !.srcReady = TRUE]
            IN  j \in RegInst /\ Evolves(i, j) /\ j.runahead = i.runahead
                /\ j.squashed = i.squashed
         /\ LET j == [i EXCEPT !.poisoned = TRUE]
            IN  j \in RegInst /\ Evolves(i, j) /\ j.runahead = i.runahead
                /\ j.squashed = i.squashed
         /\ LET j == [i EXCEPT !.runahead = TRUE]
            IN  j \in RegInst /\ Evolves(i, j) /\ j.squashed = i.squashed
                /\ j.state = i.state
         /\ \A v \in Nat \cup {Bogus} :
              LET j == [i EXCEPT !.state = "sent", !.result = v]
              IN  j \in RegInst /\ Evolves(i, j) /\ j.runahead = i.runahead
                  /\ j.squashed = i.squashed
         /\ \A b \in BOOLEAN :
              LET j == [i EXCEPT !.state = "issued", !.poisoned = b]
              IN  j \in RegInst /\ Evolves(i, j) /\ j.runahead = i.runahead
                  /\ j.squashed = i.squashed
         /\ \A b \in BOOLEAN :
              LET j == [i EXCEPT !.srcReady = b]
              IN  j \in RegInst /\ Evolves(i, j) /\ j.runahead = i.runahead
                  /\ j.squashed = i.squashed /\ j.state = i.state
         /\ Evolves(i, i)
<1>1. \A st \in States \ {"waiting"} :
       LET j == [i EXCEPT !.state = st]
       IN  j \in RegInst /\ Evolves(i, j) /\ j.runahead = i.runahead
           /\ j.squashed = i.squashed /\ j.state = st
  BY DEF RegInst, Evolves, States
<1>2. LET j == [i EXCEPT !.squashed = TRUE]
     IN  j \in RegInst /\ Evolves(i, j) /\ j.runahead = i.runahead /\ j.squashed
  BY DEF RegInst, Evolves, States
<1>3. LET j == [i EXCEPT !.squashed = TRUE, !.state = "done"]
     IN  j \in RegInst /\ Evolves(i, j) /\ j.runahead = i.runahead
  BY DEF RegInst, Evolves, States
<1>4. LET j == [i EXCEPT !.srcReady = TRUE]
     IN  j \in RegInst /\ Evolves(i, j) /\ j.runahead = i.runahead
         /\ j.squashed = i.squashed
  BY DEF RegInst, Evolves, States
<1>5. LET j == [i EXCEPT !.poisoned = TRUE]
     IN  j \in RegInst /\ Evolves(i, j) /\ j.runahead = i.runahead
         /\ j.squashed = i.squashed
  BY DEF RegInst, Evolves, States
<1>6. LET j == [i EXCEPT !.runahead = TRUE]
     IN  j \in RegInst /\ Evolves(i, j) /\ j.squashed = i.squashed
         /\ j.state = i.state
  BY DEF RegInst, Evolves, States
<1>7. \A v \in Nat \cup {Bogus} :
       LET j == [i EXCEPT !.state = "sent", !.result = v]
       IN  j \in RegInst /\ Evolves(i, j) /\ j.runahead = i.runahead
           /\ j.squashed = i.squashed
  BY DEF RegInst, Evolves, States
<1>8. \A b \in BOOLEAN :
       LET j == [i EXCEPT !.state = "issued", !.poisoned = b]
       IN  j \in RegInst /\ Evolves(i, j) /\ j.runahead = i.runahead
           /\ j.squashed = i.squashed
  BY DEF RegInst, Evolves, States
<1>9. \A b \in BOOLEAN :
       LET j == [i EXCEPT !.srcReady = b]
       IN  j \in RegInst /\ Evolves(i, j) /\ j.runahead = i.runahead
           /\ j.squashed = i.squashed /\ j.state = i.state
  BY DEF RegInst, Evolves, States
<1>10. Evolves(i, i)
  BY DEF RegInst, Evolves, States
<1> QED BY <1>1, <1>2, <1>3, <1>4, <1>5, <1>6, <1>7, <1>8, <1>9, <1>10

\* Changing the instructions of a sequence one by one leaves a sequence.
LEMMA MapSeq ==
  ASSUME NEW S, NEW s \in Seq(S), NEW t,
         t = [k \in DOMAIN s |-> t[k]], \A k \in DOMAIN s : t[k] \in S
  PROVE  t \in Seq(S) /\ Len(t) = Len(s) /\ DOMAIN t = DOMAIN s
<1>1. DOMAIN s = 1..Len(s) /\ Len(s) \in Nat
  BY LenProperties
<1>2. t \in [1..Len(s) -> S]
  BY <1>1
<1> QED BY <1>1, <1>2, IsASeq, LenProperties

LEMMA ExceptInst ==
  ASSUME NEW s \in Seq(RegInst), NEW k \in DOMAIN s, NEW i \in RegInst
  PROVE  /\ [s EXCEPT ![k] = i] \in Seq(RegInst)
         /\ DOMAIN [s EXCEPT ![k] = i] = DOMAIN s
         /\ Len([s EXCEPT ![k] = i]) = Len(s)
         /\ [s EXCEPT ![k] = i][k] = i
         /\ \A j \in DOMAIN s : j # k => [s EXCEPT ![k] = i][j] = s[j]
BY ExceptSeq, LenProperties

LEMMA SeqFacts ==
  ASSUME NEW S, NEW s \in Seq(S)
  PROVE  /\ Len(s) \in Nat /\ DOMAIN s = 1..Len(s)
         /\ \A k \in DOMAIN s : s[k] \in S
         /\ s # <<>> <=> 1 \in DOMAIN s
         /\ s # <<>> =>
              /\ Head(s) = s[1] /\ s[1] \in S /\ s[Len(s)] \in S /\ Len(s) \in DOMAIN s
              /\ Tail(s) \in Seq(S) /\ Len(Tail(s)) = Len(s) - 1
              /\ DOMAIN Tail(s) = 1..(Len(s) - 1)
              /\ \A k \in 1..(Len(s) - 1) :
                   Tail(s)[k] = s[k + 1] /\ k \in DOMAIN s /\ k + 1 \in DOMAIN s
              /\ SubSeq(s, 1, Len(s) - 1) \in Seq(S)
              /\ Len(SubSeq(s, 1, Len(s) - 1)) = Len(s) - 1
              /\ DOMAIN SubSeq(s, 1, Len(s) - 1) = 1..(Len(s) - 1)
              /\ \A k \in 1..(Len(s) - 1) : SubSeq(s, 1, Len(s) - 1)[k] = s[k]
         /\ \A e \in S :
              /\ Append(s, e) \in Seq(S) /\ Len(Append(s, e)) = Len(s) + 1
              /\ DOMAIN Append(s, e) = 1..(Len(s) + 1)
              /\ Append(s, e)[Len(s) + 1] = e
              /\ \A k \in DOMAIN s : Append(s, e)[k] = s[k]
<1>1. Len(s) \in Nat /\ DOMAIN s = 1..Len(s) /\ \A k \in DOMAIN s : s[k] \in S
  BY LenProperties, ElementOfSeq
<1>2. s # <<>> <=> 1 \in DOMAIN s
  BY <1>1, EmptySeq
<1>3. ASSUME s # <<>>
      PROVE  /\ Head(s) = s[1] /\ s[1] \in S /\ s[Len(s)] \in S /\ Len(s) \in DOMAIN s
             /\ Tail(s) \in Seq(S) /\ Len(Tail(s)) = Len(s) - 1
             /\ DOMAIN Tail(s) = 1..(Len(s) - 1)
             /\ \A k \in 1..(Len(s) - 1) :
                  Tail(s)[k] = s[k + 1] /\ k \in DOMAIN s /\ k + 1 \in DOMAIN s
  BY <1>1, <1>2, <1>3
<1>4. ASSUME s # <<>>
      PROVE  /\ SubSeq(s, 1, Len(s) - 1) \in Seq(S)
             /\ Len(SubSeq(s, 1, Len(s) - 1)) = Len(s) - 1
             /\ DOMAIN SubSeq(s, 1, Len(s) - 1) = 1..(Len(s) - 1)
             /\ \A k \in 1..(Len(s) - 1) : SubSeq(s, 1, Len(s) - 1)[k] = s[k]
  BY <1>1, <1>2, <1>4
<1>5. ASSUME NEW e \in S
      PROVE  /\ Append(s, e) \in Seq(S) /\ Len(Append(s, e)) = Len(s) + 1
             /\ DOMAIN Append(s, e) = 1..(Len(s) + 1)
             /\ Append(s, e)[Len(s) + 1] = e
             /\ \A k \in DOMAIN s : Append(s, e)[k] = s[k]
  BY <1>1, AppendProperties
<1> QED BY <1>1, <1>2, <1>3, <1>4, <1>5

LEMMA MarkedInst ==
  ASSUME NEW s \in Seq(RegInst), NEW K
  PROVE  LET t == Rob!MarkSquashed(s, K)
         IN  /\ t \in Seq(RegInst) /\ Len(t) = Len(s) /\ DOMAIN t = DOMAIN s
             /\ \A k \in DOMAIN s :
                  /\ Evolves(s[k], t[k]) /\ t[k].runahead = s[k].runahead
                  /\ k \in K => t[k].squashed
                  /\ k \notin K => t[k] = s[k]
<1> DEFINE t == Rob!MarkSquashed(s, K)
<1>1. t = [k \in DOMAIN s |-> t[k]]
  BY DEF Rob!MarkSquashed
<1>2. ASSUME NEW k \in DOMAIN s
      PROVE  /\ t[k] \in RegInst /\ Evolves(s[k], t[k]) /\ t[k].runahead = s[k].runahead
             /\ k \in K => t[k].squashed
             /\ k \notin K => t[k] = s[k]
  <2>1. s[k] \in RegInst
    BY SeqFacts
  <2>2. PICK i \in RegInst : i = [s[k] EXCEPT !.squashed = TRUE]
    BY <2>1, InstUpdates
  <2>3. Evolves(s[k], i) /\ i.runahead = s[k].runahead /\ i.squashed
    BY <2>1, <2>2 DEF RegInst, Evolves
  <2>4. Evolves(s[k], s[k])
    BY <2>1, InstUpdates
  <2>5. t[k] = IF k \in K THEN i ELSE s[k]
    BY <2>2 DEF Rob!MarkSquashed
  <2> QED BY <2>1, <2>3, <2>4, <2>5
<1> HIDE DEF t
<1>3. t \in Seq(RegInst) /\ Len(t) = Len(s) /\ DOMAIN t = DOMAIN s
  BY <1>1, <1>2, MapSeq
<1> QED BY <1>2, <1>3 DEF t

LEMMA RunaheadInst ==
  ASSUME NEW s \in Seq(RegInst)
  PROVE  LET t == SetRunahead(s)
         IN  /\ t \in Seq(RegInst) /\ Len(t) = Len(s) /\ DOMAIN t = DOMAIN s
             /\ \A k \in DOMAIN s :
                  /\ Evolves(s[k], t[k]) /\ t[k].squashed = s[k].squashed
                  /\ t[k].state = s[k].state
<1> DEFINE t == SetRunahead(s)
<1>1. t = [k \in DOMAIN s |-> t[k]]
  BY DEF SetRunahead
<1>2. ASSUME NEW k \in DOMAIN s
      PROVE  /\ t[k] \in RegInst /\ Evolves(s[k], t[k])
             /\ t[k].squashed = s[k].squashed /\ t[k].state = s[k].state
  <2>1. s[k] \in RegInst
    BY SeqFacts
  <2>2. t[k] = [s[k] EXCEPT !.runahead = TRUE]
    BY DEF SetRunahead
  <2>3. PICK i \in RegInst : i = [s[k] EXCEPT !.runahead = TRUE]
    BY <2>1, InstUpdates
  <2>4. Evolves(s[k], i) /\ i.squashed = s[k].squashed /\ i.state = s[k].state
    BY <2>1, <2>3 DEF RegInst, Evolves
  <2> HIDE DEF t
  <2> QED BY <2>2, <2>3, <2>4
<1> HIDE DEF t
<1>3. t \in Seq(RegInst) /\ Len(t) = Len(s) /\ DOMAIN t = DOMAIN s
  BY <1>1, <1>2, MapSeq
<1> QED BY <1>2, <1>3 DEF t

-----------------------------------------------------------------------------
(* The steps that change the instructions of the ROB in place.              *)

InPlace ==
  /\ rob' \in Seq(RegInst) /\ Len(rob') = Len(rob) /\ DOMAIN rob' = DOMAIN rob
  /\ \A k \in DOMAIN rob : Evolves(rob[k], rob'[k])

SameMode == \A k \in DOMAIN rob : rob'[k].runahead = rob[k].runahead
SameMarks == \A k \in DOMAIN rob : rob'[k].squashed = rob[k].squashed

LEMMA SameInPlace ==
  ASSUME rob \in Seq(RegInst), rob' = rob
  PROVE  InPlace /\ SameMode /\ SameMarks
BY SeqFacts, InstUpdates DEF InPlace, SameMode, SameMarks

LEMMA OneInPlace ==
  ASSUME rob \in Seq(RegInst), NEW k \in DOMAIN rob, NEW i \in RegInst,
         Evolves(rob[k], i), rob' = [rob EXCEPT ![k] = i]
  PROVE  /\ InPlace
         /\ i.runahead = rob[k].runahead => SameMode
         /\ i.squashed = rob[k].squashed => SameMarks
         /\ rob'[k] = i /\ \A j \in DOMAIN rob : j # k => rob'[j] = rob[j]
<1>1. /\ rob' \in Seq(RegInst) /\ DOMAIN rob' = DOMAIN rob /\ Len(rob') = Len(rob)
      /\ rob'[k] = i /\ \A j \in DOMAIN rob : j # k => rob'[j] = rob[j]
  BY ExceptInst
<1>2. \A j \in DOMAIN rob : Evolves(rob[j], rob[j])
  BY SeqFacts, InstUpdates
<1> QED BY <1>1, <1>2 DEF InPlace, SameMode, SameMarks

LEMMA LoadReturnsInPlace ==
  ASSUME TypeOK, NEW k \in DOMAIN rob, LoadReturns(k)
  PROVE  InPlace /\ SameMode /\ SameMarks
<1>1. rob \in Seq(RegInst) /\ rob[k] \in RegInst
  BY SeqFacts DEF TypeOK
<1>2. PICK i \in RegInst : i = [rob[k] EXCEPT !.state = "executed"]
  BY <1>1, InstUpdates DEF States
<1>3. Evolves(rob[k], i) /\ i.runahead = rob[k].runahead /\ i.squashed = rob[k].squashed
  BY <1>1, <1>2 DEF RegInst, Evolves
<1>4. rob' = [rob EXCEPT ![k] = i]
  BY <1>2 DEF LoadReturns
<1> QED BY <1>1, <1>3, <1>4, OneInPlace

LEMMA SquashIewInPlace ==
  ASSUME TypeOK, SquashIew
  PROVE  /\ InPlace /\ SameMode
         /\ \A k \in DOMAIN rob :
              /\ rob[k].sn <= sig.done => rob'[k] = rob[k]
              /\ sig.done < rob[k].sn => rob'[k].state # "waiting"
<1>1. rob \in Seq(RegInst) /\ sig.done \in Int
  BY DEF TypeOK
<1>2. rob' = [k \in DOMAIN rob |-> SquashedInIew(rob[k])]
  BY DEF SquashIew
<1>3. ASSUME NEW k \in DOMAIN rob
      PROVE  /\ rob'[k] \in RegInst /\ Evolves(rob[k], rob'[k])
             /\ rob'[k].runahead = rob[k].runahead
             /\ rob[k].sn <= sig.done => rob'[k] = rob[k]
             /\ sig.done < rob[k].sn => rob'[k].state # "waiting"
  <2>1. rob[k] \in RegInst /\ rob'[k] = SquashedInIew(rob[k])
    BY <1>1, <1>2, SeqFacts
  <2>2. CASE rob[k].sn <= sig.done
    <3>1. rob'[k] = rob[k]
      BY <2>1, <2>2 DEF SquashedInIew
    <3>2. Evolves(rob[k], rob[k])
      BY DEF Evolves
    <3>3. ~(sig.done < rob[k].sn)
      BY <1>1, <2>1, <2>2, InstFields
    <3> QED BY <2>1, <2>2, <3>1, <3>2, <3>3
  <2>3. CASE ~(rob[k].sn <= sig.done)
    <3>1. rob'[k] = [rob[k] EXCEPT !.squashed = @ \/ OpOf(rob[k]).kind = "load",
                                   !.state = IF @ = "waiting" THEN "done" ELSE @]
      BY <2>1, <2>3 DEF SquashedInIew
    <3> DEFINE b == rob[k].squashed \/ OpOf(rob[k]).kind = "load"
               st == IF rob[k].state = "waiting" THEN "done" ELSE rob[k].state
    <3>2. b \in BOOLEAN /\ (rob[k].squashed => b)
      OBVIOUS
    <3>3. st \in States /\ st # "waiting"
      BY <2>1 DEF RegInst, States
    <3>4. rob'[k] = [rob[k] EXCEPT !.squashed = b, !.state = st]
      BY <3>1
    <3> HIDE DEF b, st
    <3> QED BY <2>1, <2>3, <3>2, <3>3, <3>4 DEF RegInst, Evolves
  <2> QED BY <2>2, <2>3
<1>4. rob' \in Seq(RegInst) /\ Len(rob') = Len(rob) /\ DOMAIN rob' = DOMAIN rob
  BY <1>1, <1>2, <1>3, MapSeq
<1> QED BY <1>3, <1>4 DEF InPlace, SameMode

LEMMA WriteBackInPlace ==
  ASSUME TypeOK, WriteBack
  PROVE  InPlace /\ SameMode /\ SameMarks
<1>1. rob \in Seq(RegInst)
  BY DEF TypeOK
<1>2. rob' = [k \in DOMAIN rob |-> Woken(rob[k], WrittenBack)]
  BY DEF WriteBack
<1>3. ASSUME NEW k \in DOMAIN rob
      PROVE  /\ rob'[k] \in RegInst /\ Evolves(rob[k], rob'[k])
             /\ rob'[k].runahead = rob[k].runahead /\ rob'[k].squashed = rob[k].squashed
  <2>1. rob[k] \in RegInst /\ rob'[k] = Woken(rob[k], WrittenBack)
    BY <1>1, <1>2, SeqFacts
  <2>2. \/ rob'[k] = [rob[k] EXCEPT !.state = "written"]
        \/ rob'[k] = [rob[k] EXCEPT !.srcReady = TRUE]
        \/ rob'[k] = rob[k]
    BY <2>1 DEF Woken
  <2> QED BY <2>1, <2>2 DEF RegInst, Evolves, States
<1>4. rob' \in Seq(RegInst) /\ Len(rob') = Len(rob) /\ DOMAIN rob' = DOMAIN rob
  BY <1>1, <1>2, <1>3, MapSeq
<1> QED BY <1>3, <1>4 DEF InPlace, SameMode, SameMarks

LEMMA EndTickInPlace ==
  ASSUME TypeOK, EndTick
  PROVE  InPlace /\ SameMode /\ SameMarks
<1>1. rob \in Seq(RegInst)
  BY DEF TypeOK
<1>2. rob' = [k \in DOMAIN rob |->
                IF rob[k].state = "written" THEN [rob[k] EXCEPT !.state = "done"]
                ELSE rob[k]]
  BY DEF EndTick
<1>3. ASSUME NEW k \in DOMAIN rob
      PROVE  /\ rob'[k] \in RegInst /\ Evolves(rob[k], rob'[k])
             /\ rob'[k].runahead = rob[k].runahead /\ rob'[k].squashed = rob[k].squashed
  <2>1. rob[k] \in RegInst
    BY <1>1, SeqFacts
  <2>2. rob'[k] = [rob[k] EXCEPT !.state = "done"] \/ rob'[k] = rob[k]
    BY <1>2
  <2> QED BY <2>1, <2>2 DEF RegInst, Evolves, States
<1>4. rob' \in Seq(RegInst) /\ Len(rob') = Len(rob) /\ DOMAIN rob' = DOMAIN rob
  BY <1>1, <1>2, <1>3, MapSeq
<1> QED BY <1>3, <1>4 DEF InPlace, SameMode, SameMarks

LEMMA IssueInPlace ==
  ASSUME TypeOK, Issue
  PROVE  InPlace /\ SameMode /\ SameMarks
<1>1. PICK k \in DOMAIN rob :
        rob' = [rob EXCEPT ![k].state = "issued", ![k].poisoned = PoisonedAtIssue(rob[k])]
  BY DEF Issue
<1>2. rob \in Seq(RegInst) /\ rob[k] \in RegInst
  BY SeqFacts DEF TypeOK
<1>3. PICK b \in BOOLEAN : b = PoisonedAtIssue(rob[k])
  BY <1>2, InstFields DEF PoisonedAtIssue
<1>4. PICK i \in RegInst : i = [rob[k] EXCEPT !.state = "issued", !.poisoned = b]
  BY <1>2, InstUpdates
<1>5. Evolves(rob[k], i) /\ i.runahead = rob[k].runahead /\ i.squashed = rob[k].squashed
  BY <1>2, <1>4 DEF RegInst, Evolves
<1>6. rob' = [rob EXCEPT ![k] = i]
  BY <1>1, <1>3, <1>4
<1> QED BY <1>2, <1>5, <1>6, OneInPlace

LEMMA LastWriterType ==
  ASSUME NEW p \in Int, NEW r
  PROVE  LastWriter(p, r) \in Nat
<1> DEFINE W == {q \in 1..(p - 1) : prog[q].dst = r}
           last == CHOOSE q \in W : \A x \in W : x <= q
<1>1. LastWriter(p, r) = IF \E q \in W : \A x \in W : x <= q THEN last ELSE 0
  BY DEF LastWriter
<1>2. CASE \E q \in W : \A x \in W : x <= q
  <2>1. last \in W
    BY <1>2, Zenon
  <2>2. last \in Nat
    <3>1. last \in 1..(p - 1)
      BY <2>1
    <3> HIDE DEF last
    <3> QED BY <3>1
  <2> HIDE DEF last, W
  <2> QED BY <1>1, <1>2, <2>2
<1>3. CASE ~ \E q \in W : \A x \in W : x <= q
  <2> HIDE DEF last, W
  <2> QED BY <1>1, <1>3
<1> QED BY <1>2, <1>3

LEMMA ComputedType ==
  ASSUME NEW i \in RegInst
  PROVE  Computed(i) \in Nat \cup {Bogus}
BY InstFields DEF Computed

LEMMA ExecuteInPlace ==
  ASSUME TypeOK, Execute
  PROVE  /\ InPlace /\ SameMode
         /\ \A k \in DOMAIN rob :
              rob'[k].squashed => rob[k].squashed \/ SquashedForIew(rob[k])
<1>1. PICK k \in DOMAIN rob :
        SkipSquashed(k) \/ SkipPoisoned(k) \/ ExecuteOp(k) \/ ExecuteLoad(k)
  BY DEF Execute
<1>2. rob \in Seq(RegInst) /\ rob[k] \in RegInst
  BY SeqFacts DEF TypeOK
<1>3. CASE SkipSquashed(k)
  <2>1. PICK i \in RegInst : i = [rob[k] EXCEPT !.squashed = TRUE, !.state = "done"]
    BY <1>2, InstUpdates
  <2>2. Evolves(rob[k], i) /\ i.runahead = rob[k].runahead
    BY <1>2, <2>1 DEF RegInst, Evolves
  <2>3. rob' = [rob EXCEPT ![k] = i] /\ SquashedForIew(rob[k])
    BY <1>3, <2>1 DEF SkipSquashed
  <2> QED BY <1>2, <2>2, <2>3, OneInPlace
<1>4. CASE SkipPoisoned(k) \/ ExecuteOp(k)
  <2>1. PICK i \in RegInst : i = [rob[k] EXCEPT !.state = "executed"]
    BY <1>2, InstUpdates DEF States
  <2>2. Evolves(rob[k], i) /\ i.runahead = rob[k].runahead /\ i.squashed = rob[k].squashed
    BY <1>2, <2>1 DEF RegInst, Evolves
  <2>3. rob' = [rob EXCEPT ![k] = i]
    BY <1>4, <2>1 DEF SkipPoisoned, ExecuteOp
  <2> QED BY <1>2, <2>2, <2>3, OneInPlace DEF SameMarks
<1>5. CASE ExecuteLoad(k)
  <2>1. PICK v \in Nat \cup {Bogus} : v = Computed(rob[k])
    BY <1>2, ComputedType
  <2>2. PICK i \in RegInst : i = [rob[k] EXCEPT !.state = "sent", !.result = v]
    BY <1>2, InstUpdates
  <2>3. Evolves(rob[k], i) /\ i.runahead = rob[k].runahead /\ i.squashed = rob[k].squashed
    BY <1>2, <2>2 DEF RegInst, Evolves
  <2>4. rob' = [rob EXCEPT ![k] = i]
    BY <1>5, <2>1, <2>2 DEF ExecuteLoad
  <2> QED BY <1>2, <2>3, <2>4, OneInPlace DEF SameMarks
<1> QED BY <1>1, <1>3, <1>4, <1>5

LEMMA PoisonInPlace ==
  ASSUME TypeOK, PoisonRunaheadLLL
  PROVE  InPlace /\ SameMode /\ SameMarks
<1>1. 1 \in DOMAIN rob /\ rob \in Seq(RegInst) /\ rob[1] \in RegInst
  BY SeqFacts DEF TypeOK, PoisonRunaheadLLL, LoadAtHead, AtHead
<1>2. PICK i \in RegInst : i = [rob[1] EXCEPT !.poisoned = TRUE]
  BY <1>1, InstUpdates
<1>3. Evolves(rob[1], i) /\ i.runahead = rob[1].runahead /\ i.squashed = rob[1].squashed
  BY <1>1, <1>2 DEF RegInst, Evolves
<1>4. rob' = [rob EXCEPT ![1] = i]
  BY <1>2 DEF PoisonRunaheadLLL
<1> QED BY <1>1, <1>3, <1>4, OneInPlace

LEMMA EnterInPlace ==
  ASSUME TypeOK, EnterRunahead
  PROVE  InPlace /\ SameMarks
<1>1. 1 \in DOMAIN rob /\ rob \in Seq(RegInst)
  BY SeqFacts DEF TypeOK, EnterRunahead, LoadAtHead, AtHead
<1> DEFINE t == SetRunahead(rob)
<1>2. /\ t \in Seq(RegInst) /\ Len(t) = Len(rob) /\ DOMAIN t = DOMAIN rob
      /\ \A k \in DOMAIN rob : Evolves(rob[k], t[k]) /\ t[k].squashed = rob[k].squashed
  BY <1>1, RunaheadInst
<1>3. rob' = [t EXCEPT ![1].poisoned = TRUE]
  BY DEF EnterRunahead
<1> HIDE DEF t
<1>4. t[1] \in RegInst
  BY <1>1, <1>2, SeqFacts
<1>5. PICK i \in RegInst : i = [t[1] EXCEPT !.poisoned = TRUE]
  BY <1>4, InstUpdates
<1>6. Evolves(rob[1], i) /\ i.squashed = rob[1].squashed
  BY <1>1, <1>2, <1>4, <1>5 DEF RegInst, Evolves
<1>7. rob' = [t EXCEPT ![1] = i]
  BY <1>3, <1>5
<1>8. /\ rob' \in Seq(RegInst) /\ DOMAIN rob' = DOMAIN t /\ Len(rob') = Len(t)
      /\ rob'[1] = i /\ \A j \in DOMAIN t : j # 1 => rob'[j] = t[j]
  BY <1>1, <1>2, <1>7, ExceptInst
<1> QED BY <1>2, <1>6, <1>8 DEF InPlace, SameMarks

\* One cycle of the ROB's walk.
LEMMA WalkStep ==
  ASSUME rob \in Seq(RegInst), NEW from \in Nat, NEW to \in Int,
         rob' = Rob!MarkSquashed(rob, Rob!WalkMarks(rob, from, to, SquashWidth)),
         squashIt' = Rob!WalkNext(rob, from, to, SquashWidth)
  PROVE  /\ InPlace /\ SameMode /\ squashIt' \in Nat /\ squashIt' <= Len(rob)
         /\ \A k \in DOMAIN rob : rob'[k].squashed => rob[k].squashed \/ to < rob[k].sn
         /\ \A k \in DOMAIN rob : rob'[k].state = rob[k].state
         /\ /\ AgeOrder(rob) /\ from <= Len(rob)
            /\ \A k \in DOMAIN rob : to < rob[k].sn => rob[k].squashed \/ k <= from
            => \A k \in DOMAIN rob : to < rob[k].sn => rob'[k].squashed \/ k <= squashIt'
<1> DEFINE K == Rob!WalkMarks(rob, from, to, SquashWidth)
           t == Rob!MarkSquashed(rob, K)
           next == from - SquashWidth
<1>1. /\ t \in Seq(RegInst) /\ Len(t) = Len(rob) /\ DOMAIN t = DOMAIN rob
      /\ \A k \in DOMAIN rob :
           /\ Evolves(rob[k], t[k]) /\ t[k].runahead = rob[k].runahead
           /\ k \in K => t[k].squashed
           /\ k \notin K => t[k] = rob[k]
  BY MarkedInst
<1>2. \A k \in DOMAIN rob : t[k].state = rob[k].state
  <2> SUFFICES ASSUME NEW k \in DOMAIN rob PROVE t[k].state = rob[k].state
    OBVIOUS
  <2>1. rob[k] \in RegInst /\ (t[k] = [rob[k] EXCEPT !.squashed = TRUE] \/ t[k] = rob[k])
    BY SeqFacts DEF Rob!MarkSquashed
  <2> HIDE DEF t
  <2> QED BY <2>1 DEF RegInst
<1>3. \A k \in DOMAIN rob : k \in K <=> k <= from /\ k > next /\ rob[k].sn > to
  BY DEF Rob!WalkMarks
<1>4. squashIt' = IF next \in DOMAIN rob /\ rob[next].sn > to THEN next ELSE 0
  BY DEF Rob!WalkNext
<1>5. next \in Int /\ Len(rob) \in Nat /\ DOMAIN rob = 1..Len(rob)
      /\ \A k \in DOMAIN rob : rob[k].sn \in Nat
  BY WidthAssumption, SeqFacts, InstFields
<1>6. rob' = t
  OBVIOUS
<1> HIDE DEF K, t, next
<1>7. squashIt' \in Nat /\ squashIt' <= Len(rob)
  BY <1>4, <1>5
<1>8. \A k \in DOMAIN rob : rob'[k].squashed => rob[k].squashed \/ to < rob[k].sn
  BY <1>1, <1>3, <1>5, <1>6
<1>9. ASSUME AgeOrder(rob), from <= Len(rob),
             \A k \in DOMAIN rob : to < rob[k].sn => rob[k].squashed \/ k <= from,
             NEW k \in DOMAIN rob, to < rob[k].sn
      PROVE  rob'[k].squashed \/ k <= squashIt'
  <2>1. CASE rob[k].squashed
    BY <1>1, <1>6, <2>1 DEF Evolves
  <2>2. CASE ~rob[k].squashed /\ k > next
    BY <1>1, <1>3, <1>5, <1>6, <1>9, <2>2
  <2>3. CASE k <= next
    <3>1. next \in DOMAIN rob
      BY <1>5, <1>9, <2>3, WidthAssumption DEF next
    <3>2. k = next \/ rob[k].sn < rob[next].sn
      BY <1>5, <1>9, <2>3, <3>1 DEF AgeOrder
    <3>3. rob[next].sn > to
      BY <1>5, <1>9, <3>1, <3>2
    <3> QED BY <1>4, <2>3, <3>1, <3>3
  <2> QED BY <1>5, <1>9, <2>1, <2>2, <2>3
<1>10. InPlace /\ SameMode
  BY <1>1, <1>6 DEF InPlace, SameMode
<1> QED BY <1>2, <1>6, <1>7, <1>8, <1>9, <1>10

LEMMA SquashFromInPlace ==
  ASSUME TypeOK, NEW to \in Int, NEW pos \in Nat, SquashFrom(to, pos)
  PROVE  /\ InPlace /\ SameMode /\ squashIt' \in Nat /\ squashTo' \in Int
         /\ \A k \in DOMAIN rob : rob'[k].squashed => rob[k].squashed \/ to < rob[k].sn
         /\ \A k \in DOMAIN rob : rob'[k].state = rob[k].state
         /\ rob # <<>> => squashTo' = to
         /\ rob = <<>> => squashIt' = squashIt
         /\ squashIt <= Len(rob) => squashIt' <= Len(rob)
         /\ AgeOrder(rob) =>
              \A k \in DOMAIN rob : to < rob[k].sn => rob'[k].squashed \/ k <= squashIt'
         /\ sig' \in [squash : BOOLEAN, done : Int, tail : Int, pos : Nat]
         /\ sig'.squash /\ sig'.done = to /\ status' = "ROBSquashing"
         /\ sig'.tail = IF rob = <<>> THEN to ELSE rob[Len(rob)].sn
<1>1. rob \in Seq(RegInst) /\ squashIt \in Nat /\ squashTo \in Int
  BY DEF TypeOK
<1>2. Len(rob) \in Nat /\ DOMAIN rob = 1..Len(rob)
      /\ (rob # <<>> => rob[Len(rob)] \in RegInst)
      /\ (rob # <<>> <=> 1 \in DOMAIN rob)
  BY <1>1, SeqFacts
<1>3. sig' = [squash |-> TRUE, done |-> to, pos |-> pos,
              tail |-> IF rob = <<>> THEN to ELSE rob[Len(rob)].sn]
  BY DEF SquashFrom
<1>4. rob # <<>> => rob[Len(rob)].sn \in Nat
  BY <1>2, InstFields
<1>5. /\ sig' \in [squash : BOOLEAN, done : Int, tail : Int, pos : Nat]
      /\ sig'.squash /\ sig'.done = to
      /\ sig'.tail = IF rob = <<>> THEN to ELSE rob[Len(rob)].sn
  BY <1>3, <1>4
<1>6. CASE rob = <<>>
  <2>1. UNCHANGED <<rob, squashIt, squashTo>> /\ status' = "ROBSquashing"
    BY <1>6 DEF SquashFrom, robVars
  <2>2. InPlace /\ SameMode /\ SameMarks
    BY <1>1, <2>1, SameInPlace
  <2>3. \A k \in DOMAIN rob : FALSE
    BY <1>2, <1>6
  <2> QED BY <1>1, <1>5, <1>6, <2>1, <2>2, <2>3
<1>7. CASE rob # <<>>
  <2>1. /\ rob' = Rob!MarkSquashed(rob, Rob!WalkMarks(rob, Len(rob), to, SquashWidth))
        /\ squashIt' = Rob!WalkNext(rob, Len(rob), to, SquashWidth)
        /\ squashTo' = to /\ status' = "ROBSquashing"
    BY <1>7 DEF SquashFrom
  <2>2. /\ InPlace /\ SameMode /\ squashIt' \in Nat /\ squashIt' <= Len(rob)
        /\ \A k \in DOMAIN rob : rob'[k].squashed => rob[k].squashed \/ to < rob[k].sn
        /\ \A k \in DOMAIN rob : rob'[k].state = rob[k].state
        /\ /\ AgeOrder(rob) /\ Len(rob) <= Len(rob)
           /\ \A k \in DOMAIN rob : to < rob[k].sn => rob[k].squashed \/ k <= Len(rob)
           => \A k \in DOMAIN rob : to < rob[k].sn => rob'[k].squashed \/ k <= squashIt'
    BY <1>1, <1>2, <2>1, WalkStep
  <2>3. Len(rob) <= Len(rob) /\ \A k \in DOMAIN rob : k <= Len(rob)
    BY <1>2
  <2> QED BY <1>5, <1>7, <2>1, <2>2, <2>3
<1> QED BY <1>6, <1>7

\* A squash IEW asks for.
LEMMA IewSquash ==
  ASSUME TypeOK, SquashFromIew
  PROVE  \E k \in DOMAIN rob, to \in Int, pos \in Nat :
           /\ CanRedirect(rob[k]) /\ SquashFrom(to, pos)
           /\ to = rob[k].sn \/ to = rob[k].sn - 1
<1>1. PICK k \in DOMAIN rob :
        /\ CanRedirect(rob[k])
        /\ \/ OpOf(rob[k]).kind = "branch" /\ SquashFrom(rob[k].sn, rob[k].pos + 1)
           \/ OpOf(rob[k]).kind = "load" /\ SquashFrom(rob[k].sn - 1, rob[k].pos)
  BY DEF SquashFromIew
<1>2. rob[k].sn \in Nat /\ rob[k].pos \in Nat
  BY SeqFacts, InstFields DEF TypeOK
<1> QED BY <1>1, <1>2

-----------------------------------------------------------------------------
(* Types.                                                                   *)

LEMMA InitType == Init => TypeOK
<1> SUFFICES ASSUME Init PROVE TypeOK
  OBVIOUS
<1>1. /\ renameMap \in [Arch -> Phys] /\ commitMap \in [Arch -> Phys]
      /\ freeList \in Seq(Phys)
  BY ResetLists DEF Init
<1>2. /\ value \in [Phys -> Nat \cup {Bogus}] /\ poison \in SUBSET Phys
      /\ checkpoint \in [Arch -> Nat \cup {Bogus}]
      /\ ready \in SUBSET Phys /\ iqReady \in SUBSET Phys
  BY DEF Init
<1>3. prog \in Seq(Op)
  BY OpsAssumption DEF Init
<1>4. /\ renameNext \in Seq(RegInst) /\ renameNow \in Seq(RegInst) /\ rob \in Seq(RegInst)
      /\ history \in Seq(HistoryEntry)
  BY DEF Init
<1>5. /\ fetchPos = 1 /\ nextSn = 1 /\ refill = 0 /\ squashIt = 0 /\ squashTo = 0
      /\ pc = 1 /\ misc = 0 /\ cause = 0 /\ storedPc = 0 /\ miscCheckpoint = 0
      /\ status = "Running"
  BY DEF Init
<1>7. inRunahead \in BOOLEAN /\ restoreNext \in BOOLEAN /\ restoreNow \in BOOLEAN
  <2>1. inRunahead = FALSE /\ restoreNext = FALSE /\ restoreNow = FALSE
    BY DEF Init
  <2> QED BY <2>1
<1>6. /\ iewRange \in [lo : Int, hi : Int] /\ pending \in SUBSET [sn : Nat, wait : Nat]
      /\ sig \in [squash : BOOLEAN, done : Int, tail : Int, pos : Nat]
      /\ phase = "events"
  BY DEF Init, NoSig
<1> QED BY SMTT(60), <1>1, <1>2, <1>3, <1>4, <1>5, <1>6, <1>7 DEF TypeOK

\* IEW::instToCommit
LEMMA PendingType ==
  ASSUME pending \in SUBSET [sn : Nat, wait : Nat], NEW sn \in Nat, InstToCommit(sn)
  PROVE  pending' \in SUBSET [sn : Nat, wait : Nat]
<1>1. PICK wait \in 0..WbBacklog : pending' = pending \cup {[sn |-> sn, wait |-> wait]}
  BY DEF InstToCommit
<1>2. wait \in Nat
  BY <1>1, WidthAssumption
<1>3. [sn |-> sn, wait |-> wait] \in [sn : Nat, wait : Nat]
  BY <1>2
<1> QED BY <1>1, <1>3

LEMMA WriteRegType ==
  ASSUME value \in [Phys -> Nat \cup {Bogus}], NEW p, NEW v \in Nat \cup {Bogus},
         WriteReg(p, v)
  PROVE  value' \in [Phys -> Nat \cup {Bogus}]
BY DEF WriteReg

LEMMA EventType ==
  ASSUME TypeOK, (\E k \in DOMAIN rob : LoadReturns(k)) \/ StartTick
  PROVE  TypeOK'
<1>1. CASE StartTick
  BY <1>1 DEF StartTick, TypeOK, frontVars, queueVars, mapVars, readyVars, regVars,
     robVars, iewVars, commitVars, modeVars, saveVars, wireVars
<1>2. ASSUME NEW k \in DOMAIN rob, LoadReturns(k)
      PROVE  TypeOK'
  <2>1. rob[k] \in RegInst
    BY SeqFacts DEF TypeOK
  <2>2. rob' \in Seq(RegInst)
    BY <1>2, LoadReturnsInPlace DEF InPlace
  <2>3. rob[k].sn \in Nat /\ rob[k].result \in Nat \cup {Bogus}
    BY <2>1, InstFields
  <2>4. pending' \in SUBSET [sn : Nat, wait : Nat]
    <3>1. InstToCommit(rob[k].sn)
      BY <1>2 DEF LoadReturns
    <3>2. pending \in SUBSET [sn : Nat, wait : Nat]
      BY DEF TypeOK
    <3> QED BY <2>3, <3>1, <3>2, PendingType
  <2>5. value' \in [Phys -> Nat \cup {Bogus}]
    <3> DEFINE v == IF rob[k].poisoned THEN Bogus ELSE rob[k].result
    <3>1. WriteReg(rob[k].dst, v)
      BY <1>2 DEF LoadReturns
    <3>2. v \in Nat \cup {Bogus}
      BY <2>3
    <3>3. value \in [Phys -> Nat \cup {Bogus}]
      BY DEF TypeOK
    <3> HIDE DEF v
    <3> QED BY <3>1, <3>2, <3>3, WriteRegType
  <2> QED BY <1>2, <2>2, <2>4, <2>5 DEF LoadReturns, TypeOK, frontVars, queueVars,
          mapVars, readyVars, commitVars, modeVars, saveVars, wireVars
<1> QED BY <1>1, <1>2

\* What rename makes of an instruction.
LEMMA RenamedType ==
  ASSUME TypeOK, fetchPos \in DOMAIN prog, NEW dst \in Phys \cup {None}
  PROVE  LET op == prog[fetchPos]  i == Renamed(op, dst)
         IN  /\ i \in RegInst /\ i.sn = nextSn /\ i.pos = fetchPos /\ i.dst = dst
             /\ i.src = (IF op.src = None THEN None ELSE renameMap[op.src])
             /\ ~i.squashed /\ i.runahead = inRunahead /\ i.state = "waiting"
             /\ op \in Op
<1> DEFINE op == prog[fetchPos]
           src == IF op.src = None THEN None ELSE renameMap[op.src]
           b == src = None \/ src \in ready
<1>1. op \in Op
  BY SeqFacts DEF TypeOK
<1>2. op.src \in Arch \cup {None}
  BY <1>1 DEF Op
<1>3. src \in Phys \cup {None}
  BY <1>2 DEF TypeOK
<1>4. b \in BOOLEAN
  OBVIOUS
<1>5. Renamed(op, dst) =
        [sn |-> nextSn, pos |-> fetchPos, dst |-> dst, src |-> src,
         srcReady |-> b, state |-> "waiting", result |-> 0, runahead |-> inRunahead,
         poisoned |-> FALSE, squashed |-> FALSE]
  BY DEF Renamed
<1>6. nextSn \in Nat /\ fetchPos \in Nat /\ inRunahead \in BOOLEAN
  BY DEF TypeOK
<1>7. /\ Renamed(op, dst) \in RegInst
      /\ Renamed(op, dst).sn = nextSn /\ Renamed(op, dst).pos = fetchPos
      /\ Renamed(op, dst).dst = dst /\ Renamed(op, dst).src = src
      /\ ~Renamed(op, dst).squashed /\ Renamed(op, dst).runahead = inRunahead
      /\ Renamed(op, dst).state = "waiting"
  <2> HIDE DEF b, src, op
  <2> QED BY <1>3, <1>4, <1>5, <1>6 DEF RegInst, States
<1> QED BY <1>1, <1>7

LEMMA RenameInstType ==
  ASSUME TypeOK, RenameInst
  PROVE  TypeOK'
<1> DEFINE op == prog[fetchPos]
<1>1. /\ fetchPos \in DOMAIN prog /\ fetchPos' = fetchPos + 1 /\ nextSn' = nextSn + 1
      /\ CanRename(op)
      /\ UNCHANGED <<phase, prog, refill, renameNow, iqReady, regVars, robVars,
                     iewVars, sig, commitVars, modeVars, saveVars, wireVars>>
  BY DEF RenameInst
<1>2. op \in Op /\ None \in Phys \cup {None}
  BY <1>1, SeqFacts DEF TypeOK
<1>3. renameNext' \in Seq(RegInst) /\ ready' \in SUBSET Phys
      /\ renameMap' \in [Arch -> Phys] /\ freeList' \in Seq(Phys)
      /\ history' \in Seq(HistoryEntry)
  <2>1. CASE op.dst = None
    <3>1. renameNext' = Append(renameNext, Renamed(op, None)) /\ UNCHANGED <<mapVars, ready>>
      BY <2>1 DEF RenameInst
    <3>2. Renamed(op, None) \in RegInst
      BY <1>1, <1>2, RenamedType
    <3> QED BY <3>1, <3>2, SeqFacts DEF TypeOK, mapVars
  <2>2. CASE op.dst # None
    <3>1. /\ renameNext' = Append(renameNext, Renamed(op, Head(freeList)))
          /\ RenameDest(op.dst) /\ freeList # <<>>
      BY <1>1, <2>2 DEF RenameInst, CanRename
    <3>2. op.dst \in Arch
      BY <1>2, <2>2 DEF Op
    <3>3. /\ freeList \in Seq(Phys) /\ renameMap \in [Arch -> Phys] /\ ready \in SUBSET Phys
          /\ history \in Seq(HistoryEntry) /\ nextSn \in Nat /\ renameNext \in Seq(RegInst)
      BY DEF TypeOK
    <3>4. PICK p \in Phys : p = Head(freeList)
      BY <3>1, <3>3
    <3>5. Renamed(op, p) \in RegInst
      BY <1>1, RenamedType
    <3>6. renameNext' \in Seq(RegInst)
      BY <3>1, <3>3, <3>4, <3>5
    <3> DEFINE e == [sn |-> nextSn, arch |-> op.dst, new |-> p, prev |-> renameMap[op.dst]]
    <3>7. e \in HistoryEntry
      BY <3>2, <3>3 DEF HistoryEntry
    <3>8. /\ renameMap' = [renameMap EXCEPT ![op.dst] = p] /\ freeList' = Tail(freeList)
          /\ history' = <<e>> \o history /\ ready' = ready \ {p}
      BY <3>1, <3>4 DEF RenameDest
    <3> HIDE DEF e, op
    <3>9. history' \in Seq(HistoryEntry)
      BY <3>3, <3>7, <3>8
    <3>10. renameMap' \in [Arch -> Phys]
      BY <3>3, <3>8
    <3>11. freeList' \in Seq(Phys)
      BY <3>1, <3>3, <3>8
    <3>12. ready' \in SUBSET Phys
      BY <3>3, <3>8
    <3> QED BY <3>6, <3>9, <3>10, <3>11, <3>12
  <2> QED BY <2>1, <2>2
<1> QED BY SMTT(60), <1>1, <1>3 DEF TypeOK, regVars, robVars, iewVars, commitVars, modeVars,
        saveVars, wireVars

LEMMA FrontType ==
  ASSUME TypeOK, \/ UndoRename \/ SquashRename \/ RenameDone \/ FreePrevious \/ FreeDone
  PROVE  TypeOK'
<1>1. CASE UndoRename
  <2>1. history # <<>> /\ history \in Seq(HistoryEntry)
    BY <1>1 DEF UndoRename, MustUndo, TypeOK
  <2>2. PICK h \in HistoryEntry : h = history[1]
    BY <2>1
  <2>3. h.arch \in Arch /\ h.new \in Phys /\ h.prev \in Phys
    BY DEF HistoryEntry
  <2>4. /\ renameMap' = [renameMap EXCEPT ![h.arch] = h.prev]
        /\ freeList' = Append(freeList, h.new) /\ history' = Tail(history)
    BY <1>1, <2>2 DEF UndoRename
  <2>5. /\ renameMap' \in [Arch -> Phys] /\ freeList' \in Seq(Phys)
        /\ history' \in Seq(HistoryEntry)
    BY <2>1, <2>3, <2>4 DEF TypeOK
  <2> QED BY <1>1, <2>5 DEF UndoRename, TypeOK, frontVars, queueVars, readyVars,
          regVars, robVars, iewVars, commitVars, modeVars, saveVars, wireVars
<1>2. CASE SquashRename
  <2>1. fetchPos' \in Nat /\ refill' \in Nat
    BY <1>2, WidthAssumption DEF SquashRename, TypeOK
  <2> QED BY <1>2, <2>1 DEF SquashRename, TypeOK, queueVars, mapVars, readyVars,
          regVars, robVars, iewVars, commitVars, modeVars, saveVars, wireVars
<1>3. CASE RenameDone
  <2>1. refill' \in Nat
    BY <1>3 DEF RenameDone, TypeOK
  <2> QED BY <1>3, <2>1 DEF RenameDone, TypeOK, queueVars, mapVars, readyVars,
          regVars, robVars, iewVars, commitVars, modeVars, saveVars, wireVars
<1>4. CASE FreePrevious
  <2>1. history # <<>> /\ history \in Seq(HistoryEntry)
    BY <1>4 DEF FreePrevious, MustFree, TypeOK
  <2>2. /\ history' = SubSeq(history, 1, Len(history) - 1)
        /\ freeList' = Append(freeList, history[Len(history)].prev)
    BY <1>4 DEF FreePrevious, FreedBy
  <2>3. history' \in Seq(HistoryEntry) /\ history[Len(history)] \in HistoryEntry
    BY <2>1, <2>2, SeqFacts
  <2>4. history[Len(history)].prev \in Phys
    BY <2>3 DEF HistoryEntry
  <2>5. freeList' \in Seq(Phys)
    BY <2>2, <2>4, SeqFacts DEF TypeOK
  <2> QED BY <1>4, <2>3, <2>5 DEF FreePrevious, TypeOK, frontVars, queueVars,
          readyVars, regVars, robVars, iewVars, commitVars, modeVars, saveVars, wireVars
<1>5. CASE FreeDone
  BY <1>5 DEF FreeDone, TypeOK, frontVars, queueVars, mapVars, readyVars, regVars,
     robVars, iewVars, commitVars, modeVars, saveVars, wireVars
<1> QED BY <1>1, <1>2, <1>3, <1>4, <1>5

LEMMA DispatchedInst ==
  ASSUME NEW i \in RegInst
  PROVE  /\ Dispatched(i) \in RegInst /\ Evolves(i, Dispatched(i))
         /\ Dispatched(i).runahead = i.runahead /\ Dispatched(i).squashed = i.squashed
         /\ Dispatched(i).state = i.state
<1> DEFINE b == i.srcReady \/ i.src \in iqReady
<1>1. Dispatched(i) = [i EXCEPT !.srcReady = b] /\ b \in BOOLEAN
  BY DEF Dispatched
<1> HIDE DEF b
<1> QED BY <1>1 DEF RegInst, Evolves

LEMMA IewType ==
  ASSUME TypeOK, \/ SquashIew \/ DispatchInst \/ DispatchDone \/ Execute \/ ExecuteDone
                 \/ WriteBack \/ Issue \/ IewDone
  PROVE  TypeOK'
<1> USE DEF frontVars, queueVars, mapVars, readyVars, regVars, commitVars, modeVars,
            saveVars, wireVars
<1>1. CASE SquashIew
  <2>1. rob' \in Seq(RegInst)
    BY <1>1, SquashIewInPlace DEF InPlace
  <2>2. iewRange' \in [lo : Int, hi : Int] /\ renameNow' \in Seq(RegInst)
    BY <1>1 DEF SquashIew, TypeOK
  <2> QED BY <1>1, <2>1, <2>2 DEF SquashIew, TypeOK
<1>2. CASE DispatchInst
  <2>1. renameNow \in Seq(RegInst) /\ renameNow # <<>> /\ rob \in Seq(RegInst)
    BY <1>2 DEF DispatchInst, TypeOK
  <2>2. Tail(renameNow) \in Seq(RegInst) /\ Head(renameNow) \in RegInst
    BY <2>1
  <2>3. Append(rob, Dispatched(Head(renameNow))) \in Seq(RegInst)
    BY <2>1, <2>2, DispatchedInst, SeqFacts
  <2>4. rob' \in Seq(RegInst) /\ renameNow' \in Seq(RegInst)
    BY <1>2, <2>2, <2>3 DEF DispatchInst
  <2>5. iqReady' \in SUBSET Phys
    BY <1>2 DEF DispatchInst, TypeOK
  <2> QED BY <1>2, <2>4, <2>5 DEF DispatchInst, TypeOK, iewVars
<1>3. CASE DispatchDone
  BY <1>3 DEF DispatchDone, TypeOK, robVars, iewVars
<1>4. CASE Execute
  <2>1. rob' \in Seq(RegInst)
    BY <1>4, ExecuteInPlace DEF InPlace
  <2>2. PICK k \in DOMAIN rob :
          SkipSquashed(k) \/ SkipPoisoned(k) \/ ExecuteOp(k) \/ ExecuteLoad(k)
    BY <1>4 DEF Execute
  <2>3. /\ rob[k].sn \in Nat /\ Computed(rob[k]) \in Nat \cup {Bogus}
        /\ pending \in SUBSET [sn : Nat, wait : Nat] /\ value \in [Phys -> Nat \cup {Bogus}]
    BY SeqFacts, InstFields, ComputedType DEF TypeOK
  <2>4. pending' \in SUBSET [sn : Nat, wait : Nat]
    <3>1. pending' = pending \/ InstToCommit(rob[k].sn)
      BY <2>2 DEF SkipSquashed, SkipPoisoned, ExecuteOp, ExecuteLoad
    <3> QED BY <2>3, <3>1, PendingType
  <2>5. value' \in [Phys -> Nat \cup {Bogus}]
    <3>1. value' = value \/ WriteReg(rob[k].dst, Computed(rob[k]))
      BY <2>2 DEF SkipSquashed, SkipPoisoned, ExecuteOp, ExecuteLoad
    <3> QED BY <2>3, <3>1, WriteRegType
  <2> QED BY <1>4, <2>1, <2>4, <2>5 DEF Execute, TypeOK
<1>5. CASE ExecuteDone
  BY <1>5 DEF ExecuteDone, TypeOK, robVars, iewVars
<1>6. CASE WriteBack
  <2>1. rob' \in Seq(RegInst)
    BY <1>6, WriteBackInPlace DEF InPlace
  <2>2. \A K \in SUBSET DOMAIN rob : Dsts(K) \subseteq Phys
    <3>1. \A k \in DOMAIN rob : rob[k].dst \in Phys \cup {None}
      BY SeqFacts, InstFields DEF TypeOK
    <3> QED BY <3>1 DEF Dsts
  <2>3. Dsts(WrittenBack) \subseteq Phys
    BY <2>2 DEF WrittenBack
  <2>4. PoisonedBy(WrittenBack) \subseteq Phys
    <3>1. {k \in WrittenBack : rob[k].runahead /\ rob[k].poisoned} \in SUBSET DOMAIN rob
      BY DEF WrittenBack
    <3> QED BY <2>2, <3>1 DEF PoisonedBy
  <2>5. /\ ready' \in SUBSET Phys /\ iqReady' \in SUBSET Phys
        /\ poison' \in SUBSET Phys
    BY <1>6, <2>3, <2>4 DEF WriteBack, TypeOK
  <2>6. pending' \in SUBSET [sn : Nat, wait : Nat]
    <3>1. pending' = {[sn |-> e.sn, wait |-> e.wait - 1] : e \in {x \in pending : x.wait > 0}}
      BY <1>6 DEF WriteBack
    <3>2. \A e \in pending : e.sn \in Nat /\ e.wait \in Nat
      BY DEF TypeOK
    <3>3. \A e \in {x \in pending : x.wait > 0} :
            [sn |-> e.sn, wait |-> e.wait - 1] \in [sn : Nat, wait : Nat]
      BY <3>2
    <3> QED BY <3>1, <3>3
  <2> QED BY <1>6, <2>1, <2>5, <2>6 DEF WriteBack, TypeOK
<1>7. CASE Issue
  <2>1. rob' \in Seq(RegInst)
    BY <1>7, IssueInPlace DEF InPlace
  <2> QED BY <1>7, <2>1 DEF Issue, TypeOK, iewVars
<1>8. CASE IewDone
  <2>1. sig' \in [squash : BOOLEAN, done : Int, tail : Int, pos : Nat]
    BY <1>8 DEF IewDone, NoSig
  <2> QED BY <1>8, <2>1 DEF IewDone, TypeOK, robVars, iewVars
<1> QED BY <1>1, <1>2, <1>3, <1>4, <1>5, <1>6, <1>7, <1>8

LEMMA RestoreType ==
  ASSUME TypeOK, RestoreCheckpointState
  PROVE  /\ renameMap' \in [Arch -> Phys] /\ commitMap' \in [Arch -> Phys]
         /\ freeList' \in Seq(Phys) /\ history' \in Seq(HistoryEntry)
         /\ ready' \in SUBSET Phys /\ poison' \in SUBSET Phys
         /\ value' \in [Phys -> Nat \cup {Bogus}]
<1>1. /\ renameMap' \in [Arch -> Phys] /\ commitMap' \in [Arch -> Phys]
      /\ freeList' \in Seq(Phys) /\ history' \in Seq(HistoryEntry)
  BY ResetLists DEF RestoreCheckpointState
<1>2. ready' \in SUBSET Phys /\ poison' \in SUBSET Phys
  BY ResetLists DEF RestoreCheckpointState, PoisonCleared, TypeOK
<1>3. value' \in [Phys -> Nat \cup {Bogus}]
  <2>1. \A p \in Arch : checkpoint[p] \in Nat \cup {Bogus}
    BY DEF TypeOK
  <2>2. \A p \in Phys : value[p] \in Nat \cup {Bogus}
    BY DEF TypeOK
  <2> QED BY <2>1, <2>2 DEF RestoreCheckpointState, RestoredValue
<1> QED BY <1>1, <1>2, <1>3

LEMMA CommitType ==
  ASSUME TypeOK, \/ RobWalk \/ SquashFromIew \/ SquashFromRunaheadExit \/ SelectNothing
                 \/ RetireSquashed \/ CommitHead \/ EnterRunahead \/ PoisonRunaheadLLL
                 \/ StopCommit \/ EndTick
  PROVE  TypeOK'
<1> USE DEF frontVars, mapVars, readyVars, regVars, iewVars, saveVars
<1>0. rob \in Seq(RegInst) /\ squashIt \in Nat /\ squashTo \in Int /\ cause \in Nat
      /\ storedPc \in Nat
  BY DEF TypeOK
<1>1. CASE RobWalk
  <2>1. rob' \in Seq(RegInst) /\ squashIt' \in Nat
    <3>1. CASE status = "ROBSquashing" /\ squashIt # 0
      BY <1>0, <1>1, <3>1, WalkStep DEF RobWalk, InPlace
    <3>2. CASE ~(status = "ROBSquashing" /\ squashIt # 0)
      BY <1>0, <1>1, <3>2 DEF RobWalk
    <3> QED BY <3>1, <3>2
  <2>2. status' \in {"Running", "ROBSquashing"}
    BY <1>1 DEF RobWalk, TypeOK
  <2> QED BY <1>1, <2>1, <2>2 DEF RobWalk, TypeOK, queueVars, modeVars, wireVars
<1>2. CASE SquashFromIew
  <2>1. PICK k \in DOMAIN rob, to \in Int, pos \in Nat : SquashFrom(to, pos)
    BY <1>2, IewSquash
  <2>2. /\ rob' \in Seq(RegInst) /\ squashIt' \in Nat /\ squashTo' \in Int
        /\ sig' \in [squash : BOOLEAN, done : Int, tail : Int, pos : Nat]
        /\ status' = "ROBSquashing"
    BY <2>1, SquashFromInPlace DEF InPlace
  <2> QED BY <1>2, <2>2 DEF SquashFromIew, TypeOK, queueVars, modeVars, wireVars
<1>3. CASE SquashFromRunaheadExit
  <2>1. SquashFrom(cause - 1, storedPc) /\ cause - 1 \in Int
    BY <1>0, <1>3 DEF SquashFromRunaheadExit
  <2>2. /\ rob' \in Seq(RegInst) /\ squashIt' \in Nat /\ squashTo' \in Int
        /\ sig' \in [squash : BOOLEAN, done : Int, tail : Int, pos : Nat]
        /\ status' = "ROBSquashing"
    BY <1>0, <2>1, SquashFromInPlace DEF InPlace
  <2>3. pc' \in Nat /\ inRunahead' \in BOOLEAN /\ restoreNext' \in BOOLEAN
    BY <1>0, <1>3 DEF SquashFromRunaheadExit
  <2> QED BY <1>3, <2>2, <2>3 DEF SquashFromRunaheadExit, TypeOK, queueVars
<1>4. CASE SelectNothing
  BY <1>4 DEF SelectNothing, TypeOK, queueVars, robVars, commitVars, modeVars, wireVars
<1>5. CASE RetireSquashed
  <2>1. rob' \in Seq(RegInst)
    BY <1>0, <1>5 DEF RetireSquashed, AtHead
  <2> QED BY <1>5, <2>1 DEF RetireSquashed, TypeOK, queueVars, commitVars, modeVars, wireVars
<1>6. CASE CommitHead
  <2>1. rob # <<>> /\ rob' = Tail(rob)
    BY <1>6 DEF CommitHead, AtHead
  <2>2. rob' \in Seq(RegInst) /\ rob[1] \in RegInst
    BY <1>0, <2>1
  <2>3. rob[1].sn \in Nat /\ rob[1].pos \in Nat /\ rob[1].dst \in Phys \cup {None}
    BY <2>2, InstFields
  <2>4. /\ pc' \in Nat /\ misc' \in Nat
        /\ sig' \in [squash : BOOLEAN, done : Int, tail : Int, pos : Nat]
    <3>1. /\ pc' = rob[1].pos + 1 /\ (misc' = rob[1].pos \/ misc' = misc)
          /\ sig' = [sig EXCEPT !.done = rob[1].sn]
      BY <1>6 DEF CommitHead, Head0
    <3>2. misc \in Nat /\ sig \in [squash : BOOLEAN, done : Int, tail : Int, pos : Nat]
      BY DEF TypeOK
    <3> QED BY <2>3, <3>1, <3>2
  <2>5. commitMap' \in [Arch -> Phys]
    <3>1. CASE UpdatesCommitMap(Head0) /\ Head0.dst # None
      <4>1. commitMap' = [commitMap EXCEPT ![OpOf(rob[1]).dst] = rob[1].dst]
        BY <1>6, <3>1 DEF CommitHead, Head0
      <4>2. rob[1].dst \in Phys
        BY <2>3, <3>1 DEF Head0
      <4> QED BY <4>1, <4>2 DEF TypeOK
    <3>2. CASE ~(UpdatesCommitMap(Head0) /\ Head0.dst # None)
      BY <1>6, <3>2 DEF CommitHead, TypeOK
    <3> QED BY <3>1, <3>2
  <2> QED BY <1>6, <2>2, <2>4, <2>5 DEF CommitHead, TypeOK, queueVars, modeVars, wireVars
<1>7. CASE EnterRunahead
  <2>1. rob' \in Seq(RegInst)
    BY <1>7, EnterInPlace DEF InPlace
  <2>2. renameNext' \in Seq(RegInst)
    BY <1>7, RunaheadInst DEF EnterRunahead, TypeOK
  <2>3. rob # <<>>
    BY <1>7 DEF EnterRunahead, LoadAtHead, AtHead
  <2>4. rob[1].sn \in Nat
    BY <1>0, <2>3, SeqFacts, InstFields
  <2>5. inRunahead' \in BOOLEAN /\ cause' \in Nat /\ storedPc' \in Nat /\ miscCheckpoint' \in Nat
    BY <1>7, <2>4 DEF EnterRunahead, Head0, TypeOK
  <2>6. checkpoint' \in [Arch -> Nat \cup {Bogus}]
    <3>1. checkpoint' = [r \in Arch |-> value[commitMap[r]]]
      BY <1>7 DEF EnterRunahead, Saved
    <3> QED BY <3>1 DEF TypeOK
  <2> QED BY <1>7, <2>1, <2>2, <2>5, <2>6 DEF EnterRunahead, TypeOK, commitVars, wireVars
<1>8. CASE PoisonRunaheadLLL
  <2>1. rob' \in Seq(RegInst)
    BY <1>8, PoisonInPlace DEF InPlace
  <2> QED BY <1>8, <2>1 DEF PoisonRunaheadLLL, TypeOK, queueVars, commitVars, modeVars, wireVars
<1>9. CASE StopCommit
  BY <1>9 DEF StopCommit, TypeOK, queueVars, robVars, commitVars, modeVars, wireVars
<1>10. CASE EndTick
  <2>1. rob' \in Seq(RegInst)
    BY <1>10, EndTickInPlace DEF InPlace
  <2>2. /\ renameMap' \in [Arch -> Phys] /\ commitMap' \in [Arch -> Phys]
        /\ freeList' \in Seq(Phys) /\ history' \in Seq(HistoryEntry)
        /\ ready' \in SUBSET Phys /\ poison' \in SUBSET Phys
        /\ value' \in [Phys -> Nat \cup {Bogus}]
    <3>1. CASE restoreNow
      BY <1>10, <3>1, RestoreType DEF EndTick
    <3>2. CASE ~restoreNow
      BY <1>10, <3>2 DEF EndTick, TypeOK
    <3> QED BY <3>1, <3>2
  <2>3. /\ restoreNow' \in BOOLEAN /\ restoreNext' \in BOOLEAN
        /\ renameNow' \in Seq(RegInst) /\ renameNext' \in Seq(RegInst)
    <3>1. /\ restoreNow' = restoreNext /\ restoreNext' = FALSE
          /\ renameNow' = renameNext /\ renameNext' = <<>>
      BY <1>10 DEF EndTick
    <3>2. restoreNext \in BOOLEAN /\ renameNext \in Seq(RegInst)
      BY DEF TypeOK
    <3>3. restoreNow' \in BOOLEAN
      BY <3>1, <3>2, Zenon
    <3>4. restoreNext' \in BOOLEAN
      BY <3>1, Zenon
    <3>5. renameNow' \in Seq(RegInst) /\ renameNext' \in Seq(RegInst)
      BY <3>1, <3>2
    <3> QED BY <3>3, <3>4, <3>5
  <2> QED BY <1>10, <2>1, <2>2, <2>3 DEF EndTick, TypeOK, modeVars
<1> QED BY <1>1, <1>2, <1>3, <1>4, <1>5, <1>6, <1>7, <1>8, <1>9, <1>10

LEMMA TypeStep == TypeOK /\ [Next]_vars => TypeOK'
<1> SUFFICES ASSUME TypeOK, [Next]_vars PROVE TypeOK'
  OBVIOUS
<1>1. CASE UNCHANGED vars
  BY <1>1 DEF TypeOK, vars, frontVars, queueVars, mapVars, readyVars, regVars,
     robVars, iewVars, commitVars, modeVars, saveVars, wireVars
<1> QED BY <1>1, EventType, RenameInstType, FrontType, IewType, CommitType DEF Next

\* No step of rename, IEW or commit makes a value out of range: a map entry that
\* is no register, a result of no instruction (rename_map.cc, regfile.hh).
THEOREM RegTypeInvariant == Spec => []TypeOK
BY InitType, TypeStep, PTL DEF Spec

-----------------------------------------------------------------------------
(* What is in flight, step by step.                                         *)

Follows(s, t) == DOMAIN t = DOMAIN s /\ \A k \in DOMAIN s : Evolves(s[k], t[k])

LEMMA SameFollows ==
  ASSUME NEW s
  PROVE  Follows(s, s)
BY DEF Follows, Evolves

LEMMA InPlaceFollows == InPlace => Follows(rob, rob')
BY DEF InPlace, Follows

LEMMA FlightTypes ==
  ASSUME TypeOK
  PROVE  /\ \A k \in DOMAIN rob : rob[k] \in RegInst /\ rob[k].sn \in Nat /\ k \in Nat
         /\ \A k \in DOMAIN renameNow :
              renameNow[k] \in RegInst /\ renameNow[k].sn \in Nat /\ k \in Nat
         /\ \A k \in DOMAIN renameNext :
              renameNext[k] \in RegInst /\ renameNext[k].sn \in Nat /\ k \in Nat
         /\ \A k \in DOMAIN history :
              /\ history[k] \in HistoryEntry /\ history[k].sn \in Nat /\ k \in Nat
              /\ history[k].arch \in Arch /\ history[k].new \in Phys /\ history[k].prev \in Phys
         /\ nextSn \in Nat /\ sig.done \in Int /\ sig.tail \in Int
         /\ sig.squash \in BOOLEAN /\ squashTo \in Int /\ squashIt \in Nat /\ cause \in Nat
         /\ iewRange.lo \in Int /\ iewRange.hi \in Int
         /\ status \in {"Running", "ROBSquashing"} /\ inRunahead \in BOOLEAN
         /\ restoreNext \in BOOLEAN /\ restoreNow \in BOOLEAN
         /\ Len(rob) \in Nat /\ DOMAIN rob = 1..Len(rob) /\ (rob = <<>> <=> DOMAIN rob = {})
         /\ Len(history) \in Nat /\ DOMAIN history = 1..Len(history)
         /\ rob # <<>> <=> 1 \in DOMAIN rob
<1>1. \A k \in DOMAIN rob : rob[k] \in RegInst /\ rob[k].sn \in Nat /\ k \in Nat
  BY SeqFacts, InstFields DEF TypeOK
<1>2. \A k \in DOMAIN renameNow :
        renameNow[k] \in RegInst /\ renameNow[k].sn \in Nat /\ k \in Nat
  BY SeqFacts, InstFields DEF TypeOK
<1>3. \A k \in DOMAIN renameNext :
        renameNext[k] \in RegInst /\ renameNext[k].sn \in Nat /\ k \in Nat
  BY SeqFacts, InstFields DEF TypeOK
<1>4. \A k \in DOMAIN history :
        /\ history[k] \in HistoryEntry /\ history[k].sn \in Nat /\ k \in Nat
        /\ history[k].arch \in Arch /\ history[k].new \in Phys /\ history[k].prev \in Phys
  <2>1. \A k \in DOMAIN history : history[k] \in HistoryEntry /\ k \in Nat
    BY SeqFacts DEF TypeOK
  <2> QED BY <2>1 DEF HistoryEntry
<1>5. /\ nextSn \in Nat /\ sig.done \in Int /\ sig.tail \in Int
      /\ sig.squash \in BOOLEAN /\ squashTo \in Int /\ squashIt \in Nat /\ cause \in Nat
      /\ iewRange.lo \in Int /\ iewRange.hi \in Int
  BY DEF TypeOK
<1>6. /\ status \in {"Running", "ROBSquashing"} /\ inRunahead \in BOOLEAN
      /\ restoreNext \in BOOLEAN /\ restoreNow \in BOOLEAN
  BY DEF TypeOK
<1>7. /\ Len(rob) \in Nat /\ DOMAIN rob = 1..Len(rob) /\ (rob = <<>> <=> DOMAIN rob = {})
      /\ Len(history) \in Nat /\ DOMAIN history = 1..Len(history)
      /\ rob # <<>> <=> 1 \in DOMAIN rob
  BY SeqFacts DEF TypeOK
<1> QED BY <1>1, <1>2, <1>3, <1>4, <1>5, <1>6, <1>7

LEMMA FlightFrame ==
  ASSUME FlightOrder, Follows(rob, rob'), Follows(renameNow, renameNow'),
         Follows(renameNext, renameNext'), nextSn' = nextSn
  PROVE  FlightOrder'
<1>1. DOMAIN rob' = DOMAIN rob /\ \A k \in DOMAIN rob : rob'[k].sn = rob[k].sn
  BY DEF Follows, Evolves
<1>2. DOMAIN renameNow' = DOMAIN renameNow
      /\ \A k \in DOMAIN renameNow : renameNow'[k].sn = renameNow[k].sn
  BY DEF Follows, Evolves
<1>3. DOMAIN renameNext' = DOMAIN renameNext
      /\ \A k \in DOMAIN renameNext : renameNext'[k].sn = renameNext[k].sn
  BY DEF Follows, Evolves
<1>4. AgeOrder(rob)' /\ AgeOrder(renameNow)' /\ AgeOrder(renameNext)'
  BY <1>1, <1>2, <1>3 DEF FlightOrder, AgeOrder
<1>5. Older(rob, renameNow)' /\ Older(rob, renameNext)' /\ Older(renameNow, renameNext)'
  BY <1>1, <1>2, <1>3 DEF FlightOrder, Older
<1>6. Youngest(rob, nextSn)' /\ Youngest(renameNow, nextSn)' /\ Youngest(renameNext, nextSn)'
  BY <1>1, <1>2, <1>3 DEF FlightOrder, Youngest
<1>7. Oldest(rob, 0)' /\ Oldest(renameNow, 0)' /\ Oldest(renameNext, 0)'
  BY <1>1, <1>2, <1>3 DEF FlightOrder, Oldest
<1> QED BY <1>4, <1>5, <1>6, <1>7 DEF FlightOrder

LEMMA FollowsOldest ==
  ASSUME NEW s, NEW t, Follows(s, t), NEW sn, Oldest(s, sn)
  PROVE  Oldest(t, sn)
BY DEF Follows, Evolves, Oldest

LEMMA SameMapLeads ==
  ASSUME UNCHANGED <<history, renameMap>>, NEW r, NEW sn, NEW p
  PROVE  Leads(r, sn, p)' <=> Leads(r, sn, p)
<1>1. Since(r, sn)' = Since(r, sn)
  BY DEF Since
<1> QED BY <1>1 DEF Leads

\* Instructions that stay in flight keep their history entries.
LEMMA RobRecorded ==
  ASSUME Follows(rob, rob'), prog' = prog, history' = history
  PROVE  \A j \in DOMAIN rob :
           /\ \A k \in DOMAIN history : Owns(rob[j], history[k])' <=> Owns(rob[j], history[k])
           /\ Recorded(rob[j])' <=> Recorded(rob[j])
<1> SUFFICES ASSUME NEW j \in DOMAIN rob
             PROVE  /\ \A k \in DOMAIN history :
                         Owns(rob[j], history[k])' <=> Owns(rob[j], history[k])
                    /\ Recorded(rob[j])' <=> Recorded(rob[j])
  OBVIOUS
<1>1. /\ rob'[j].sn = rob[j].sn /\ rob'[j].pos = rob[j].pos /\ rob'[j].dst = rob[j].dst
  BY DEF Follows, Evolves
<1>2. \A k \in DOMAIN history : Owns(rob[j], history[k])' <=> Owns(rob[j], history[k])
  BY <1>1 DEF Owns, OpOf
<1> QED BY <1>1, <1>2 DEF Recorded

LEMMA RenameNowRecorded ==
  ASSUME Follows(renameNow, renameNow'), prog' = prog, history' = history
  PROVE  /\ \A k \in DOMAIN history :
              Owned(renameNow, history[k])' <=> Owned(renameNow, history[k])
         /\ \A j \in DOMAIN renameNow : Recorded(renameNow[j])' <=> Recorded(renameNow[j])
<1>1. ASSUME NEW j \in DOMAIN renameNow
      PROVE  /\ \A k \in DOMAIN history :
                  Owns(renameNow[j], history[k])' <=> Owns(renameNow[j], history[k])
             /\ Recorded(renameNow[j])' <=> Recorded(renameNow[j])
  <2>1. /\ renameNow'[j].sn = renameNow[j].sn /\ renameNow'[j].pos = renameNow[j].pos
        /\ renameNow'[j].dst = renameNow[j].dst
    BY <1>1 DEF Follows, Evolves
  <2>2. \A k \in DOMAIN history :
          Owns(renameNow[j], history[k])' <=> Owns(renameNow[j], history[k])
    BY <2>1 DEF Owns, OpOf
  <2> QED BY <2>1, <2>2 DEF Recorded
<1>2. DOMAIN renameNow' = DOMAIN renameNow
  BY DEF Follows
<1> QED BY <1>1, <1>2 DEF Owned

LEMMA RenameNextRecorded ==
  ASSUME Follows(renameNext, renameNext'), prog' = prog, history' = history
  PROVE  /\ \A k \in DOMAIN history :
              Owned(renameNext, history[k])' <=> Owned(renameNext, history[k])
         /\ \A j \in DOMAIN renameNext : Recorded(renameNext[j])' <=> Recorded(renameNext[j])
<1>1. ASSUME NEW j \in DOMAIN renameNext
      PROVE  /\ \A k \in DOMAIN history :
                  Owns(renameNext[j], history[k])' <=> Owns(renameNext[j], history[k])
             /\ Recorded(renameNext[j])' <=> Recorded(renameNext[j])
  <2>1. /\ renameNext'[j].sn = renameNext[j].sn /\ renameNext'[j].pos = renameNext[j].pos
        /\ renameNext'[j].dst = renameNext[j].dst
    BY <1>1 DEF Follows, Evolves
  <2>2. \A k \in DOMAIN history :
          Owns(renameNext[j], history[k])' <=> Owns(renameNext[j], history[k])
    BY <2>1 DEF Owns, OpOf
  <2> QED BY <2>1, <2>2 DEF Recorded
<1>2. DOMAIN renameNext' = DOMAIN renameNext
  BY DEF Follows
<1> QED BY <1>1, <1>2 DEF Owned

\* A step that keeps the history: the entries left over have their instructions
\* as long as none of those goes that the squash signal leaves.
LEMMA MatchesFrame ==
  ASSUME HistoryMatches, Follows(rob, rob'), prog' = prog, history' = history,
         \A k \in DOMAIN history : Kept(history[k].sn)' => Kept(history[k].sn),
         \A j \in DOMAIN rob : Gone(rob[j]) => Gone(rob[j])',
         \A j \in DOMAIN rob : \A k \in DOMAIN history :
           ~Gone(rob[j]) /\ Gone(rob[j])' /\ rob[j].sn = history[k].sn => ~Kept(history[k].sn)',
         \/ /\ status' = status
            /\ Follows(renameNow, renameNow') /\ Follows(renameNext, renameNext')
         \/ /\ status' = "Running" => DOMAIN renameNow' = {} /\ DOMAIN renameNext' = {}
            /\ status = "Running" =>
                 \A k \in DOMAIN history :
                   Owned(renameNow, history[k]) \/ Owned(renameNext, history[k]) =>
                     ~Kept(history[k].sn)'
  PROVE  HistoryMatches'
<1> DEFINE InRob(k) == \E j \in DOMAIN rob : ~Gone(rob[j]) /\ Owns(rob[j], history[k])
           InQueue(k) == status = "Running" /\ (Owned(renameNow, history[k])
                                                \/ Owned(renameNext, history[k]))
<1>1. /\ \A k \in DOMAIN history : Kept(history[k].sn) => InRob(k) \/ InQueue(k)
      /\ \A j \in DOMAIN rob : ~Gone(rob[j]) => Recorded(rob[j])
      /\ status = "Running" => /\ \A j \in DOMAIN renameNow : Recorded(renameNow[j])
                               /\ \A j \in DOMAIN renameNext : Recorded(renameNext[j])
  BY DEF HistoryMatches
<1>2. DOMAIN rob' = DOMAIN rob /\ \A j \in DOMAIN rob : rob'[j].sn = rob[j].sn
  BY DEF Follows, Evolves
<1>3. \A j \in DOMAIN rob :
        /\ \A k \in DOMAIN history : Owns(rob[j], history[k])' <=> Owns(rob[j], history[k])
        /\ Recorded(rob[j])' <=> Recorded(rob[j])
  BY RobRecorded
<1>4. ASSUME NEW k \in DOMAIN history, Kept(history[k].sn)'
      PROVE  InRob(k)' \/ InQueue(k)'
  <2>1. CASE InRob(k)
    <3>1. PICK j \in DOMAIN rob : ~Gone(rob[j]) /\ Owns(rob[j], history[k])
      BY <2>1
    <3>2. rob[j].sn = history[k].sn
      BY <3>1 DEF Owns
    <3>3. ~Gone(rob[j])'
      BY <1>4, <3>1, <3>2
    <3> QED BY <1>2, <1>3, <3>1, <3>3
  <2>2. CASE InQueue(k)
    <3>1. /\ status' = status
          /\ Follows(renameNow, renameNow') /\ Follows(renameNext, renameNext')
      BY <1>4, <2>2
    <3> QED BY <2>2, <3>1, RenameNowRecorded, RenameNextRecorded
  <2> QED BY <1>1, <1>4, <2>1, <2>2
<1>5. ASSUME NEW j \in DOMAIN rob, ~Gone(rob[j])'
      PROVE  Recorded(rob[j])'
  BY <1>1, <1>3, <1>5
<1>6. ASSUME status' = "Running"
      PROVE  /\ \A j \in DOMAIN renameNow' : Recorded(renameNow[j])'
             /\ \A j \in DOMAIN renameNext' : Recorded(renameNext[j])'
  <2>1. CASE /\ status' = status
             /\ Follows(renameNow, renameNow') /\ Follows(renameNext, renameNext')
    <3>1. DOMAIN renameNow' = DOMAIN renameNow /\ DOMAIN renameNext' = DOMAIN renameNext
      BY <2>1 DEF Follows
    <3> QED BY <1>1, <1>6, <2>1, <3>1, RenameNowRecorded, RenameNextRecorded
  <2>2. CASE DOMAIN renameNow' = {} /\ DOMAIN renameNext' = {}
    BY <2>2
  <2> QED BY <1>6, <2>1, <2>2
<1> QED BY <1>2, <1>4, <1>5, <1>6 DEF HistoryMatches

LEMMA RobReaders ==
  ASSUME Follows(rob, rob'), prog' = prog, UNCHANGED <<history, renameMap>>
  PROVE  \A k \in DOMAIN rob : ReaderLeads(rob[k]) => ReaderLeads(rob[k])'
<1> SUFFICES ASSUME NEW k \in DOMAIN rob, ReaderLeads(rob[k]),
                    rob'[k].state = "waiting", rob'[k].src # None
             PROVE  OpOf(rob[k])'.src \in Arch
                    /\ Leads(OpOf(rob[k]).src, rob[k].sn, rob[k].src)'
  BY DEF ReaderLeads, Arch
<1>1. /\ rob'[k].sn = rob[k].sn /\ rob'[k].pos = rob[k].pos /\ rob'[k].src = rob[k].src
      /\ rob[k].state = "waiting"
  BY DEF Follows, Evolves
<1>2. PICK r, sn, p : r = OpOf(rob[k]).src /\ sn = rob[k].sn /\ p = rob[k].src
  OBVIOUS
<1>3. r = prog'[rob'[k].pos].src /\ sn = rob'[k].sn /\ p = rob'[k].src
  BY <1>1, <1>2 DEF OpOf
<1>4. r \in Arch /\ Leads(r, sn, p)
  BY <1>1, <1>2 DEF ReaderLeads
<1>5. Leads(r, sn, p)'
  BY <1>4, SameMapLeads
<1> QED BY <1>3, <1>4, <1>5 DEF OpOf, Arch

\* What no instruction of the queues loses by waiting there.
LEMMA RenameNowReaders ==
  ASSUME Follows(renameNow, renameNow'), prog' = prog, UNCHANGED <<history, renameMap>>
  PROVE  \A k \in DOMAIN renameNow : ReaderLeads(renameNow[k]) => ReaderLeads(renameNow[k])'
<1> SUFFICES ASSUME NEW k \in DOMAIN renameNow, ReaderLeads(renameNow[k]),
                    renameNow'[k].state = "waiting", renameNow'[k].src # None
             PROVE  OpOf(renameNow[k])'.src \in Arch
                    /\ Leads(OpOf(renameNow[k]).src, renameNow[k].sn, renameNow[k].src)'
  BY DEF ReaderLeads, Arch
<1>1. /\ renameNow'[k].sn = renameNow[k].sn /\ renameNow'[k].pos = renameNow[k].pos
      /\ renameNow'[k].src = renameNow[k].src /\ renameNow[k].state = "waiting"
  BY DEF Follows, Evolves
<1>2. PICK r, sn, p :
        r = OpOf(renameNow[k]).src /\ sn = renameNow[k].sn /\ p = renameNow[k].src
  OBVIOUS
<1>3. r = prog'[renameNow'[k].pos].src /\ sn = renameNow'[k].sn /\ p = renameNow'[k].src
  BY <1>1, <1>2 DEF OpOf
<1>4. r \in Arch /\ Leads(r, sn, p)
  BY <1>1, <1>2 DEF ReaderLeads
<1>5. Leads(r, sn, p)'
  BY <1>4, SameMapLeads
<1> QED BY <1>3, <1>4, <1>5 DEF OpOf, Arch

LEMMA RenameNextReaders ==
  ASSUME Follows(renameNext, renameNext'), prog' = prog, UNCHANGED <<history, renameMap>>
  PROVE  \A k \in DOMAIN renameNext : ReaderLeads(renameNext[k]) => ReaderLeads(renameNext[k])'
<1> SUFFICES ASSUME NEW k \in DOMAIN renameNext, ReaderLeads(renameNext[k]),
                    renameNext'[k].state = "waiting", renameNext'[k].src # None
             PROVE  OpOf(renameNext[k])'.src \in Arch
                    /\ Leads(OpOf(renameNext[k]).src, renameNext[k].sn, renameNext[k].src)'
  BY DEF ReaderLeads, Arch
<1>1. /\ renameNext'[k].sn = renameNext[k].sn /\ renameNext'[k].pos = renameNext[k].pos
      /\ renameNext'[k].src = renameNext[k].src /\ renameNext[k].state = "waiting"
  BY DEF Follows, Evolves
<1>2. PICK r, sn, p :
        r = OpOf(renameNext[k]).src /\ sn = renameNext[k].sn /\ p = renameNext[k].src
  OBVIOUS
<1>3. r = prog'[renameNext'[k].pos].src /\ sn = renameNext'[k].sn /\ p = renameNext'[k].src
  BY <1>1, <1>2 DEF OpOf
<1>4. r \in Arch /\ Leads(r, sn, p)
  BY <1>1, <1>2 DEF ReaderLeads
<1>5. Leads(r, sn, p)'
  BY <1>4, SameMapLeads
<1> QED BY <1>3, <1>4, <1>5 DEF OpOf, Arch

LEMMA CommitMapFrame ==
  ASSUME CommitMapLeads, UNCHANGED <<history, renameMap>>,
         ~inRunahead' /\ ~RestorePending' =>
           /\ ~inRunahead /\ ~RestorePending /\ commitMap' = commitMap
           /\ sig'.squash = sig.squash /\ sig'.done = sig.done
  PROVE  CommitMapLeads'
<1> SUFFICES ASSUME ~inRunahead' /\ ~RestorePending', NEW r \in Arch
             PROVE  Leads(r, IF sig.squash THEN 0 ELSE sig.done + 1, commitMap[r])'
  BY DEF CommitMapLeads
<1>1. PICK sn, p : sn = (IF sig.squash THEN 0 ELSE sig.done + 1) /\ p = commitMap[r]
  OBVIOUS
<1>2. Leads(r, sn, p)
  BY <1>1 DEF CommitMapLeads
<1>3. Leads(r, sn, p)'
  BY <1>2, SameMapLeads
<1>4. sn = (IF sig'.squash THEN 0 ELSE sig'.done + 1) /\ p = commitMap'[r]
  BY <1>1
<1> QED BY <1>3, <1>4

-----------------------------------------------------------------------------
(* Steps that change nothing of this but states and readiness.              *)

Quiet ==
  /\ InPlace /\ SameMode
  /\ \A k \in DOMAIN rob : rob'[k].squashed => Gone(rob[k])
  /\ UNCHANGED <<prog, nextSn, renameNow, renameNext, renameMap, history, sig,
                 status, squashTo, iewRange, inRunahead, cause,
                 commitMap, restoreNext, restoreNow>>
  /\ squashIt' = squashIt \/ WalkReaches'

LEMMA QuietGone ==
  ASSUME Quiet
  PROVE  \A k \in DOMAIN rob : Gone(rob[k])' <=> Gone(rob[k])
<1> SUFFICES ASSUME NEW k \in DOMAIN rob PROVE Gone(rob[k])' <=> Gone(rob[k])
  OBVIOUS
<1>1. /\ rob'[k].sn = rob[k].sn
      /\ rob[k].squashed => rob'[k].squashed
      /\ rob'[k].squashed => Gone(rob[k])
  BY DEF Quiet, InPlace, Evolves
<1>2. status' = status /\ squashTo' = squashTo
  BY DEF Quiet
<1> QED BY <1>1, <1>2 DEF Gone

LEMMA QuietFrame ==
  ASSUME TypeOK, HeldInv, Quiet
  PROVE  /\ FlightOrder' /\ HistoryOrder' /\ WalkReaches' /\ IewKnows' /\ CauseOldest'
         /\ HistoryMatches' /\ CommitMapLeads'
         /\ \A k \in DOMAIN rob' : Kept(rob[k].sn)' => ReaderLeads(rob[k])'
         /\ ~sig'.squash =>
              /\ \A k \in DOMAIN renameNow' : ReaderLeads(renameNow[k])'
              /\ \A k \in DOMAIN renameNext' : ReaderLeads(renameNext[k])'
<1>1. /\ Follows(rob, rob') /\ Follows(renameNow, renameNow')
      /\ Follows(renameNext, renameNext')
  BY InPlaceFollows, SameFollows DEF Quiet
<1>2. /\ prog' = prog /\ nextSn' = nextSn /\ renameNow' = renameNow
      /\ renameNext' = renameNext /\ renameMap' = renameMap /\ history' = history
      /\ sig' = sig /\ status' = status /\ squashTo' = squashTo
      /\ iewRange' = iewRange /\ inRunahead' = inRunahead /\ cause' = cause
      /\ commitMap' = commitMap /\ restoreNext' = restoreNext /\ restoreNow' = restoreNow
  BY DEF Quiet
<1>3. /\ DOMAIN rob' = DOMAIN rob /\ Len(rob') = Len(rob)
      /\ \A k \in DOMAIN rob : /\ rob'[k].sn = rob[k].sn
                               /\ rob[k].squashed => rob'[k].squashed
                               /\ rob'[k].runahead = rob[k].runahead
                               /\ rob'[k].squashed => Gone(rob[k])
  BY DEF Quiet, InPlace, SameMode, Evolves
<1>4. \A k \in DOMAIN rob : Gone(rob[k])' <=> Gone(rob[k])
  BY QuietGone
<1>5. FlightOrder'
  BY <1>1, <1>2, FlightFrame DEF HeldInv
<1>6. HistoryOrder'
  BY <1>2 DEF HeldInv, HistoryOrder
<1>7. WalkReaches'
  <2>1. CASE squashIt' = squashIt
    BY <1>2, <1>3, <2>1 DEF HeldInv, WalkReaches
  <2> QED BY <2>1 DEF Quiet
<1>8. IewKnows'
  <2>1. IewKnows
    BY DEF HeldInv
  <2>2. \A k \in DOMAIN rob : SquashedForIew(rob[k])' => Gone(rob[k])'
    <3> SUFFICES ASSUME NEW k \in DOMAIN rob, SquashedForIew(rob[k])' PROVE Gone(rob[k])
      BY <1>4
    <3>1. SquashedForIew(rob[k]) \/ rob'[k].squashed
      BY <1>2, <1>3 DEF SquashedForIew, Stale
    <3> QED BY <1>3, <2>1, <3>1 DEF IewKnows
  <2> QED BY <1>2, <1>3, <2>1, <2>2 DEF IewKnows, Oldest, Stale
<1>9. CauseOldest'
  <2>1. CauseOldest
    BY DEF HeldInv
  <2> QED BY <1>2, <1>3, <2>1 DEF CauseOldest, Oldest
<1>10. HistoryMatches'
  <2>1. HistoryMatches
    BY DEF HeldInv
  <2>2. \A k \in DOMAIN history : Kept(history[k].sn)' => Kept(history[k].sn)
    BY <1>2 DEF Kept
  <2> QED BY <1>1, <1>2, <1>4, <2>1, <2>2, MatchesFrame
<1>11. CommitMapLeads'
  BY <1>2, CommitMapFrame DEF HeldInv, RestorePending
<1>12. ASSUME NEW k \in DOMAIN rob, Kept(rob[k].sn)'
       PROVE  ReaderLeads(rob[k])'
  <2>1. Kept(rob[k].sn)
    BY <1>2, <1>3, <1>12 DEF Kept
  <2>2. ReaderLeads(rob[k])
    BY <2>1 DEF HeldInv, ReadersLead
  <2> QED BY <1>1, <1>2, <2>2, RobReaders
<1>13. ASSUME ~sig'.squash
       PROVE  /\ \A k \in DOMAIN renameNow' : ReaderLeads(renameNow[k])'
              /\ \A k \in DOMAIN renameNext' : ReaderLeads(renameNext[k])'
  BY <1>1, <1>2, <1>13, RenameNowReaders, RenameNextReaders DEF HeldInv, ReadersLead
<1> QED BY <1>3, <1>5, <1>6, <1>7, <1>8, <1>9, <1>10, <1>11, <1>12, <1>13

\* How the phase may move on.
QuietPhase ==
  \/ phase' = phase
  \/ phase = "events" /\ phase' = "rename"
  \/ phase = "rename" /\ phase' = "free" /\ ~sig.squash
  \/ phase = "rename" /\ phase' = "dispatch" /\ sig.squash /\ ~MustUndo
  \/ phase = "free" /\ phase' = "dispatch" /\ ~MustFree
  \/ phase = "dispatch" /\ phase' = "execute" /\ ~sig.squash /\ renameNow = <<>>
  \/ phase \in {"execute", "writeback"} /\ phase' \in IewPhases
  \/ phase = "walk" /\ phase' = "select"
  \/ phase = "select" /\ phase' = "insts"
  \/ phase = "insts" /\ phase' = "update"

LEMMA HistoryKept ==
  ASSUME TypeOK, HistoryOrder,
         \/ sig.squash /\ ~MustUndo
         \/ ~sig.squash /\ ~MustFree
  PROVE  \A k \in DOMAIN history : Kept(history[k].sn)
<1>1. /\ \A k \in DOMAIN history : history[k].sn \in Nat /\ k \in Nat
      /\ sig.done \in Int /\ sig.squash \in BOOLEAN
      /\ Len(history) \in Nat /\ DOMAIN history = 1..Len(history)
  BY FlightTypes
<1> SUFFICES ASSUME NEW k \in DOMAIN history PROVE Kept(history[k].sn)
  OBVIOUS
<1>2. history # <<>>
  BY SeqFacts DEF TypeOK
<1>3. 1 \in DOMAIN history /\ Len(history) \in DOMAIN history
  BY <1>1
<1>4. CASE sig.squash /\ ~MustUndo
  <2>1. history[1].sn <= sig.done
    BY <1>1, <1>2, <1>3, <1>4 DEF MustUndo
  <2>2. k = 1 \/ history[k].sn < history[1].sn
    BY <1>1, <1>3 DEF HistoryOrder
  <2> QED BY <1>1, <1>3, <1>4, <2>1, <2>2 DEF Kept
<1>5. CASE ~sig.squash /\ ~MustFree
  <2>1. sig.done < history[Len(history)].sn
    BY <1>1, <1>2, <1>3, <1>5 DEF MustFree
  <2>2. k = Len(history) \/ history[Len(history)].sn < history[k].sn
    BY <1>1, <1>3 DEF HistoryOrder
  <2> QED BY <1>1, <1>3, <1>5, <2>1, <2>2 DEF Kept
<1> QED BY <1>4, <1>5

LEMMA QuietStep ==
  ASSUME TypeOK, HeldInv, Quiet, QuietPhase
  PROVE  HeldInv'
<1>1. /\ renameNow' = renameNow /\ renameNext' = renameNext /\ history' = history
      /\ sig' = sig /\ status' = status /\ squashTo' = squashTo /\ nextSn' = nextSn
      /\ iewRange' = iewRange /\ inRunahead' = inRunahead
      /\ restoreNext' = restoreNext /\ restoreNow' = restoreNow
  BY DEF Quiet
<1>2. /\ DOMAIN rob' = DOMAIN rob
      /\ \A k \in DOMAIN rob : /\ rob'[k].sn = rob[k].sn
                               /\ rob'[k].state = "waiting" => rob[k].state = "waiting"
  BY DEF Quiet, InPlace, Evolves
<1>3. SignalPhases /\ SignalSound /\ AllGone /\ ReadersLead /\ HistoryOrder
  BY DEF HeldInv
<1>4. /\ rob' = <<>> <=> rob = <<>>
      /\ \A k \in DOMAIN history : k \in Nat /\ history[k].sn \in Nat
      /\ sig.done \in Int /\ sig.squash \in BOOLEAN
  <2>1. Len(rob') = Len(rob) /\ rob' \in Seq(RegInst)
    BY DEF Quiet, InPlace
  <2> QED BY <1>2, <2>1, SeqFacts, FlightTypes
<1>5. SignalPhases'
  BY <1>1, <1>3 DEF SignalPhases, QuietPhase, IewPhases, CommitPhases
<1>6. SignalSound'
  <2>1. /\ sig'.done < nextSn' /\ sig'.tail < nextSn' /\ iewRange'.hi < nextSn'
        /\ ~sig'.squash => /\ Oldest(rob, sig.done)' /\ Oldest(renameNow, sig.done)'
                           /\ Oldest(renameNext, sig.done)'
        /\ sig'.squash => /\ rob' # <<>> => squashTo' = sig'.done
                          /\ Oldest(renameNow, sig.done)' /\ Oldest(renameNext, sig.done)'
    BY <1>1, <1>2, <1>3, <1>4 DEF SignalSound, Oldest
  <2>2. phase' \in {"dispatch"} \cup IewPhases => \A k \in DOMAIN history : Kept(history[k].sn)
    <3>1. CASE phase \in {"dispatch"} \cup IewPhases
      BY <1>3, <3>1 DEF SignalSound
    <3>2. CASE phase = "rename" /\ phase' = "dispatch" /\ sig.squash /\ ~MustUndo
      BY <1>3, <3>2, HistoryKept
    <3>3. CASE phase = "free" /\ phase' = "dispatch" /\ ~MustFree
      <4>1. ~sig.squash
        BY <1>3, <3>3 DEF SignalPhases
      <4> QED BY <1>3, <3>3, <4>1, HistoryKept
    <3> QED BY <3>1, <3>2, <3>3 DEF QuietPhase, IewPhases
  <2> QED BY <1>1, <2>1, <2>2 DEF SignalSound, Kept
<1>7. AllGone'
  <2>1. \A k \in DOMAIN rob : Gone(rob[k])' <=> Gone(rob[k])
    BY QuietGone
  <2>2. restoreNow /\ phase' \notin {"events", "rename"} => history = <<>>
    <3>1. CASE phase \notin {"events", "rename"}
      BY <1>3, <3>1 DEF AllGone
    <3>2. CASE phase = "rename" /\ phase' = "dispatch" /\ sig.squash /\ ~MustUndo
      <4>1. SUFFICES ASSUME restoreNow, NEW k \in DOMAIN history PROVE FALSE
        BY SeqFacts, FlightTypes DEF TypeOK
      <4>2. sig.done < history[k].sn
        BY <1>3, <3>2, <4>1 DEF AllGone, Oldest
      <4>3. Kept(history[k].sn)
        BY <1>3, <3>2, HistoryKept
      <4> QED BY <1>4, <3>2, <4>2, <4>3 DEF Kept
    <3>3. CASE phase \in {"events", "rename"} /\ ~(phase' = "dispatch")
      BY <1>3, <3>3 DEF AllGone, QuietPhase
    <3> QED BY <3>1, <3>2, <3>3 DEF QuietPhase
  <2>a. restoreNow => phase # "free" /\ (phase = "dispatch" => sig.squash)
                      /\ (phase = "rename" => sig.squash)
    BY <1>3 DEF AllGone, SignalPhases
  <2>b. /\ restoreNow /\ phase' \in {"events", "rename", "free", "dispatch"} =>
             phase \in {"events", "rename", "dispatch"} /\ phase' # "free"
        /\ restoreNow /\ phase' \in {"events", "rename"} => phase \in {"events", "rename"}
        /\ restoreNow /\ phase' \in IewPhases => phase \in IewPhases
        /\ restoreNow /\ phase' \in CommitPhases => phase \in CommitPhases
        /\ restoreNext => phase' \in {"insts", "update"}
    BY <1>3, <2>a DEF AllGone, QuietPhase, IewPhases, CommitPhases
  <2>3. /\ restoreNext => sig.squash /\ phase' \in {"insts", "update"}
        /\ restoreNow /\ phase' \in {"events", "rename", "free", "dispatch"} \cup IewPhases =>
             sig.squash
        /\ restoreNow /\ phase' \in IewPhases \cup CommitPhases => renameNext = <<>>
    BY <1>3, <2>b DEF AllGone
  <2>4. /\ RestorePending => ~inRunahead /\ \A k \in DOMAIN rob : Gone(rob[k])
        /\ restoreNext \/ (restoreNow /\ phase' \in {"events", "rename", "dispatch"}) =>
             Oldest(rob, sig.done)
        /\ restoreNext \/ (restoreNow /\ phase' \in {"events", "rename"}) =>
             Oldest(history, sig.done)
    BY <1>3, <2>b DEF AllGone
  <2>5. restoreNow /\ phase' \in {"events", "rename", "dispatch"} => Oldest(rob, sig.done)'
    BY <1>1, <1>2, <2>4 DEF Oldest
  <2>6. restoreNext => Oldest(rob, sig.done)'
    BY <1>1, <1>2, <2>4 DEF Oldest
  <2>7. restoreNext \/ (restoreNow /\ phase' \in {"events", "rename"}) =>
             Oldest(history, sig.done)'
    BY <1>1, <2>4 DEF Oldest
  <2>8. RestorePending' <=> RestorePending
    BY <1>1 DEF RestorePending
  <2> QED BY <1>1, <1>2, <2>1, <2>2, <2>3, <2>4, <2>5, <2>6, <2>7, <2>8 DEF AllGone
<1>8. ReadersLead'
  <2>1. sig'.squash /\ phase' \in IewPhases =>
          \A k \in DOMAIN rob' : sig'.done < rob'[k].sn => rob'[k].state # "waiting"
    BY <1>1, <1>2, <1>3 DEF ReadersLead, QuietPhase, IewPhases
  <2>2. restoreNow' /\ phase' \in IewPhases \cup CommitPhases =>
          \A k \in DOMAIN rob' : rob'[k].state # "waiting"
    <3>1. restoreNow /\ phase = "dispatch" => sig.squash
      BY <1>3 DEF AllGone
    <3>2. restoreNow /\ phase' \in IewPhases \cup CommitPhases =>
            phase \in IewPhases \cup CommitPhases
      BY <3>1 DEF QuietPhase, IewPhases, CommitPhases
    <3> QED BY <1>1, <1>2, <1>3, <3>2 DEF ReadersLead
  <2> QED BY <1>2, <2>1, <2>2, QuietFrame DEF ReadersLead
<1> QED BY <1>5, <1>6, <1>7, <1>8, QuietFrame DEF HeldInv

LEMMA QuietAre ==
  ASSUME TypeOK, HeldInv,
         \/ \E k \in DOMAIN rob : LoadReturns(k)
         \/ StartTick \/ SquashRename \/ RenameDone \/ FreeDone \/ DispatchDone
         \/ Execute \/ ExecuteDone \/ WriteBack \/ Issue
         \/ SelectNothing \/ PoisonRunaheadLLL \/ StopCommit
  PROVE  Quiet /\ QuietPhase
<1> USE DEF frontVars, queueVars, mapVars, commitVars, modeVars, wireVars
<1>0. rob \in Seq(RegInst)
  BY DEF TypeOK
<1>1. ASSUME NEW k \in DOMAIN rob, LoadReturns(k) PROVE Quiet /\ QuietPhase
  <2>1. InPlace /\ SameMode /\ SameMarks
    BY <1>1, LoadReturnsInPlace
  <2> QED
    BY <1>1, <2>1 DEF LoadReturns, Quiet, QuietPhase, SameMarks, Gone
<1>2. CASE StartTick
  <2>1. InPlace /\ SameMode /\ SameMarks
    BY <1>0, <1>2, SameInPlace DEF StartTick, robVars
  <2> QED
    BY <1>2, <2>1 DEF StartTick, Quiet, QuietPhase, SameMarks, Gone, robVars, iewVars
<1>3. CASE SquashRename
  <2>1. InPlace /\ SameMode /\ SameMarks
    BY <1>0, <1>3, SameInPlace DEF SquashRename, robVars
  <2> QED
    BY <1>3, <2>1 DEF SquashRename, Quiet, QuietPhase, SameMarks, Gone, robVars, iewVars
<1>4. CASE RenameDone
  <2>1. InPlace /\ SameMode /\ SameMarks
    BY <1>0, <1>4, SameInPlace DEF RenameDone, robVars
  <2> QED
    BY <1>4, <2>1 DEF RenameDone, Quiet, QuietPhase, SameMarks, Gone, robVars, iewVars
<1>5. CASE FreeDone
  <2>1. InPlace /\ SameMode /\ SameMarks
    BY <1>0, <1>5, SameInPlace DEF FreeDone, robVars
  <2> QED
    BY <1>5, <2>1 DEF FreeDone, Quiet, QuietPhase, SameMarks, Gone, robVars, iewVars
<1>6. CASE DispatchDone
  <2>1. InPlace /\ SameMode /\ SameMarks
    BY <1>0, <1>6, SameInPlace DEF DispatchDone, robVars
  <2> QED
    BY <1>6, <2>1 DEF DispatchDone, Quiet, QuietPhase, SameMarks, Gone, robVars, iewVars
<1>7. CASE Execute
  <2>1. /\ InPlace /\ SameMode
        /\ \A k \in DOMAIN rob : rob'[k].squashed => rob[k].squashed \/ SquashedForIew(rob[k])
    BY <1>7, ExecuteInPlace
  <2>2. \A k \in DOMAIN rob : rob'[k].squashed => Gone(rob[k])
    BY <2>1 DEF HeldInv, IewKnows, Gone
  <2>3. Quiet /\ QuietPhase
    BY <1>7, <2>1, <2>2 DEF Execute, Quiet, QuietPhase
  <2> QED BY <2>3, QuietStep
<1>8. CASE ExecuteDone
  <2>1. InPlace /\ SameMode /\ SameMarks
    BY <1>0, <1>8, SameInPlace DEF ExecuteDone, robVars
  <2> QED
    BY <1>8, <2>1 DEF ExecuteDone, Quiet, QuietPhase, SameMarks, Gone, robVars, iewVars, IewPhases
<1>9. CASE WriteBack
  <2>1. InPlace /\ SameMode /\ SameMarks
    BY <1>9, WriteBackInPlace
  <2> QED
    BY <1>9, <2>1 DEF WriteBack, Quiet, QuietPhase, SameMarks, Gone, IewPhases
<1>10. CASE Issue
  <2>1. InPlace /\ SameMode /\ SameMarks
    BY <1>10, IssueInPlace
  <2> QED
    BY <1>10, <2>1 DEF Issue, Quiet, QuietPhase, SameMarks, Gone, iewVars
<1>11. CASE SelectNothing
  <2>1. InPlace /\ SameMode /\ SameMarks
    BY <1>0, <1>11, SameInPlace DEF SelectNothing, robVars
  <2> QED
    BY <1>11, <2>1 DEF SelectNothing, Quiet, QuietPhase, SameMarks, Gone, robVars, iewVars
<1>12. CASE PoisonRunaheadLLL
  <2>1. InPlace /\ SameMode /\ SameMarks
    BY <1>12, PoisonInPlace
  <2> QED
    BY <1>12, <2>1 DEF PoisonRunaheadLLL, LoadAtHead, AtHead, Quiet, QuietPhase,
                       SameMarks, Gone, iewVars
<1>13. CASE StopCommit
  <2>1. InPlace /\ SameMode /\ SameMarks
    BY <1>0, <1>13, SameInPlace DEF StopCommit, robVars
  <2> QED
    BY <1>13, <2>1 DEF StopCommit, Quiet, QuietPhase, SameMarks, Gone, robVars, iewVars
<1> QED BY <1>1, <1>2, <1>3, <1>4, <1>5, <1>6, <1>7, <1>8, <1>9, <1>10, <1>11,
           <1>12, <1>13

LEMMA QuietActions ==
  ASSUME TypeOK, HeldInv,
         \/ \E k \in DOMAIN rob : LoadReturns(k)
         \/ StartTick \/ SquashRename \/ RenameDone \/ FreeDone \/ DispatchDone
         \/ Execute \/ ExecuteDone \/ WriteBack \/ Issue
         \/ SelectNothing \/ PoisonRunaheadLLL \/ StopCommit
  PROVE  HeldInv'
BY QuietAre, QuietStep

-----------------------------------------------------------------------------
(* How the mapping for a place in the program changes with the history.     *)

LEMMA UndoLeads ==
  ASSUME TypeOK, UndoRename, NEW r \in Arch, NEW sn \in Int, NEW p,
         sn <= history[1].sn, Leads(r, sn, p)
  PROVE  Leads(r, sn, p)'
<1> DEFINE h == history[1]
           old == Since(r, sn)
           new == {k \in DOMAIN history' : history'[k].arch = r /\ sn <= history'[k].sn}
<1>1. /\ history # <<>> /\ history' = Tail(history)
      /\ renameMap' = [renameMap EXCEPT ![h.arch] = h.prev]
  BY DEF UndoRename, MustUndo
<1>2. /\ Len(history) \in Nat /\ DOMAIN history = 1..Len(history) /\ 1 \in DOMAIN history
      /\ DOMAIN history' = 1..(Len(history) - 1)
      /\ \A k \in DOMAIN history' : history'[k] = history[k + 1] /\ k + 1 \in DOMAIN history
  BY SMTT(60), <1>1, SeqFacts DEF TypeOK
<1>3. h.arch \in Arch /\ renameMap \in [Arch -> Phys]
  BY <1>2, FlightTypes DEF TypeOK
<1>4. renameMap'[r] = IF h.arch = r THEN h.prev ELSE renameMap[r]
  BY <1>1, <1>3
<1>5. \A k \in old : k \in DOMAIN history /\ k \in Nat
  BY <1>2 DEF Since
<1>6. 1 \in old <=> h.arch = r
  BY <1>2 DEF Since
<1>7. \A k \in new : k \in Nat /\ k + 1 \in old /\ history'[k] = history[k + 1]
  BY <1>2 DEF Since
<1>8. \A k \in old : k # 1 => k - 1 \in new
  BY <1>2 DEF Since
<1>9. /\ old = {} => renameMap[r] = p
      /\ \A k \in old : (\A j \in old : j <= k) => history[k].prev = p
  BY DEF Leads
<1> HIDE DEF h, old, new
<1>10. ASSUME new = {} PROVE renameMap'[r] = p
  <2>1. \A k \in old : k = 1
    BY <1>5, <1>8, <1>10
  <2>2. CASE h.arch = r
    <3>1. 1 \in old /\ \A j \in old : j <= 1
      BY <1>6, <2>1, <2>2
    <3> QED BY <1>4, <1>9, <2>2, <3>1 DEF h
  <2>3. CASE h.arch # r
    BY <1>4, <1>6, <1>9, <2>1, <2>3
  <2> QED BY <2>2, <2>3
<1>11. ASSUME NEW k \in new, \A j \in new : j <= k
       PROVE  history'[k].prev = p
  <2>1. \A j \in old : j <= k + 1
    BY <1>5, <1>7, <1>8, <1>11
  <2> QED BY <1>7, <1>9, <1>11, <2>1
<1> QED BY <1>10, <1>11 DEF Leads, Since, new

LEMMA RenameLeads ==
  ASSUME TypeOK, NEW arch \in Arch, freeList # <<>>, RenameDest(arch),
         NEW r \in Arch, NEW sn \in Int, NEW p, sn <= nextSn, Leads(r, sn, p)
  PROVE  Leads(r, sn, p)'
<1> DEFINE e == [sn |-> nextSn, arch |-> arch, new |-> Head(freeList),
                 prev |-> renameMap[arch]]
           old == Since(r, sn)
           new == {k \in DOMAIN history' : history'[k].arch = r /\ sn <= history'[k].sn}
<1>1. /\ renameMap' = [renameMap EXCEPT ![arch] = Head(freeList)]
      /\ history' = <<e>> \o history
  BY DEF RenameDest
<1>2. e.sn = nextSn /\ e.arch = arch /\ e.prev = renameMap[arch]
  OBVIOUS
<1>3. /\ Len(history) \in Nat /\ DOMAIN history = 1..Len(history)
      /\ DOMAIN history' = 1..(Len(history) + 1) /\ history'[1] = e
      /\ \A k \in DOMAIN history : history'[k + 1] = history[k] /\ k + 1 \in DOMAIN history'
      /\ \A k \in DOMAIN history' : k # 1 => k - 1 \in DOMAIN history /\ history'[k] = history[k - 1]
  <2>1. history \in Seq(HistoryEntry)
    BY DEF TypeOK
  <2> HIDE DEF e
  <2> QED BY <1>1, <2>1
<1>4. r # arch => renameMap'[r] = renameMap[r]
  BY <1>1 DEF TypeOK
<1>5. \A k \in old : k \in Nat /\ k >= 1
  BY <1>3 DEF Since
<1>6. 1 \in new <=> arch = r
  BY <1>2, <1>3
<1>7. \A k \in old : k + 1 \in new /\ history'[k + 1] = history[k]
  BY <1>3 DEF Since
<1>8. \A k \in new : k \in Nat /\ (k # 1 => k - 1 \in old /\ history'[k] = history[k - 1])
  BY <1>3 DEF Since
<1>9. /\ old = {} => renameMap[r] = p
      /\ \A k \in old : (\A j \in old : j <= k) => history[k].prev = p
  BY DEF Leads
<1> HIDE DEF e, old, new
<1>10. ASSUME new = {} PROVE renameMap'[r] = p
  BY <1>4, <1>6, <1>7, <1>9, <1>10
<1>11. ASSUME NEW k \in new, \A j \in new : j <= k
       PROVE  history'[k].prev = p
  <2>1. CASE k = 1
    <3>1. old = {}
      BY <1>5, <1>7, <1>11, <2>1
    <3> QED BY <1>2, <1>3, <1>6, <1>9, <1>11, <2>1, <3>1
  <2>2. CASE k # 1
    <3>1. \A j \in old : j <= k - 1
      BY <1>5, <1>7, <1>8, <1>11
    <3> QED BY <1>8, <1>9, <1>11, <2>2, <3>1
  <2> QED BY <2>1, <2>2
<1> QED BY <1>10, <1>11 DEF Leads, Since, new

LEMMA FreeLeads ==
  ASSUME TypeOK, FreePrevious, NEW r \in Arch, NEW sn \in Int, NEW p,
         history[Len(history)].sn < sn, Leads(r, sn, p)
  PROVE  Leads(r, sn, p)'
<1>1. /\ history # <<>> /\ history' = SubSeq(history, 1, Len(history) - 1)
      /\ renameMap' = renameMap
  BY DEF FreePrevious, MustFree
<1>2. /\ Len(history) \in Nat /\ DOMAIN history = 1..Len(history)
      /\ DOMAIN history' = 1..(Len(history) - 1)
      /\ \A k \in DOMAIN history' : history'[k] = history[k]
      /\ \A k \in DOMAIN history : k # Len(history) => k \in DOMAIN history'
  BY SMTT(60), <1>1, SeqFacts DEF TypeOK
<1>3. \A k \in DOMAIN history : history[k].sn \in Nat
  BY FlightTypes
<1>4. Since(r, sn)' = Since(r, sn)
  BY <1>2, <1>3 DEF Since
<1>5. \A k \in Since(r, sn) : history'[k] = history[k]
  BY <1>2, <1>4 DEF Since
<1> QED BY <1>1, <1>4, <1>5 DEF Leads

\* What has no entry after it reads the rename map.
LEMMA NewLeads ==
  ASSUME TypeOK, NEW r, NEW sn \in Int, \A k \in DOMAIN history : history[k].sn < sn
  PROVE  Leads(r, sn, renameMap[r])
<1>1. Since(r, sn) = {}
  BY FlightTypes DEF Since
<1> QED BY <1>1 DEF Leads

-----------------------------------------------------------------------------
(* Rename and history steps.                                                *)

\* What an undo and a free leave alone.
LEMMA HistoryStepFrame ==
  ASSUME HeldInv,
         UNCHANGED <<phase, prog, nextSn, renameNow, renameNext, rob, squashIt,
                     squashTo, iewRange, sig, status, commitMap, inRunahead,
                     cause, restoreNext, restoreNow>>
  PROVE  /\ FlightOrder' /\ SignalPhases' /\ WalkReaches' /\ IewKnows' /\ CauseOldest'
         /\ \A k \in DOMAIN rob : Gone(rob[k])' <=> Gone(rob[k])
<1>1. FlightOrder'
  BY DEF HeldInv, FlightOrder, AgeOrder, Older, Youngest, Oldest
<1>2. SignalPhases'
  BY DEF HeldInv, SignalPhases
<1>3. WalkReaches'
  BY DEF HeldInv, WalkReaches
<1>4. \A k \in DOMAIN rob : Gone(rob[k])' <=> Gone(rob[k])
  BY DEF Gone
<1>5. IewKnows'
  BY <1>4 DEF HeldInv, IewKnows, SquashedForIew, Stale, Oldest
<1>6. CauseOldest'
  BY DEF HeldInv, CauseOldest, Oldest
<1> QED BY <1>1, <1>2, <1>3, <1>4, <1>5, <1>6

LEMMA UndoHeld ==
  ASSUME TypeOK, HeldInv, UndoRename
  PROVE  HeldInv'
<1>1. /\ phase = "rename" /\ sig.squash /\ history # <<>> /\ sig.done < history[1].sn
      /\ history' = Tail(history)
  BY FlightTypes, SeqFacts DEF UndoRename, MustUndo, TypeOK
<1>2. UNCHANGED <<phase, prog, nextSn, renameNow, renameNext, rob, squashIt,
                  squashTo, iewRange, sig, status, commitMap, inRunahead,
                  cause, restoreNext, restoreNow>>
  BY DEF UndoRename, frontVars, queueVars, robVars, iewVars, commitVars, modeVars, wireVars
<1>3. /\ Len(history) \in Nat /\ DOMAIN history = 1..Len(history) /\ 1 \in DOMAIN history
      /\ DOMAIN history' = 1..(Len(history) - 1)
      /\ \A k \in DOMAIN history' : history'[k] = history[k + 1] /\ k + 1 \in DOMAIN history
  BY <1>1, SeqFacts DEF TypeOK
<1>4. /\ FlightOrder' /\ SignalPhases' /\ WalkReaches' /\ IewKnows' /\ CauseOldest'
      /\ \A k \in DOMAIN rob : Gone(rob[k])' <=> Gone(rob[k])
  BY <1>2, HistoryStepFrame
<1>5. /\ HistoryOrder /\ SignalSound /\ AllGone /\ HistoryMatches /\ CommitMapLeads
      /\ ReadersLead /\ SignalPhases
  BY DEF HeldInv
<1>6. HistoryOrder'
  <2>1. \A j, k \in DOMAIN history' : j < k => history'[k].sn < history'[j].sn
    BY <1>3, <1>5 DEF HistoryOrder
  <2> QED BY <1>2, <1>3, <1>5, <2>1 DEF HistoryOrder
<1>7. SignalSound'
  BY <1>1, <1>2, <1>5 DEF SignalSound, Oldest, IewPhases
<1>8. AllGone'
  <2>1. Oldest(history, sig.done) => Oldest(history, sig.done)'
    BY <1>2, <1>3 DEF Oldest
  <2> QED BY <1>1, <1>2, <1>4, <1>5, <2>1 DEF AllGone, IewPhases, CommitPhases, Oldest, RestorePending
<1>9. HistoryMatches'
  <2>1. status = "ROBSquashing" /\ status' = status
    BY <1>1, <1>2, <1>5 DEF SignalPhases
  <2>2. ASSUME NEW k \in DOMAIN history', Kept(history[k].sn)'
        PROVE  \E j \in DOMAIN rob' : ~Gone(rob[j])' /\ Owns(rob[j], history[k])'
    <3>1. history'[k] = history[k + 1] /\ k + 1 \in DOMAIN history /\ Kept(history[k + 1].sn)
      BY <1>2, <1>3, <2>2 DEF Kept
    <3>2. PICK j \in DOMAIN rob : ~Gone(rob[j]) /\ Owns(rob[j], history[k + 1])
      BY <1>5, <2>1, <3>1 DEF HistoryMatches
    <3>3. Owns(rob[j], history[k])'
      BY <1>2, <3>1, <3>2 DEF Owns, OpOf
    <3> QED BY <1>2, <1>4, <3>2, <3>3
  <2>3. ASSUME NEW j \in DOMAIN rob, ~Gone(rob[j])'
        PROVE  Recorded(rob[j])'
    <3>1. ~Gone(rob[j]) /\ Recorded(rob[j])
      BY <1>4, <1>5, <2>3 DEF HistoryMatches
    <3>2. SUFFICES ASSUME rob[j].dst # None
                   PROVE  \E k \in DOMAIN history' : Owns(rob[j], history[k])'
      BY <1>2 DEF Recorded
    <3>3. PICK k \in DOMAIN history : Owns(rob[j], history[k])
      BY <3>1, <3>2 DEF Recorded
    <3>4. rob[j].sn <= squashTo
      BY <2>1, <3>1, FlightTypes DEF Gone
    <3>5. squashTo = sig.done
      <4>1. rob # <<>>
        BY FlightTypes
      <4> QED BY <1>1, <1>5, <4>1 DEF SignalSound
    <3>6. k # 1
      BY <1>1, <3>3, <3>4, <3>5, FlightTypes DEF Owns
    <3>7. k - 1 \in DOMAIN history' /\ history'[k - 1] = history[k]
      BY <1>3, <3>6
    <3>8. Owns(rob[j], history[k - 1])'
      BY <1>2, <3>3, <3>7 DEF Owns, OpOf
    <3> QED BY <3>7, <3>8
  <2> QED BY <1>2, <2>1, <2>2, <2>3 DEF HistoryMatches
<1>10. CommitMapLeads'
  <2> SUFFICES ASSUME ~inRunahead' /\ ~RestorePending', NEW r \in Arch
               PROVE  Leads(r, IF sig.squash THEN 0 ELSE sig.done + 1, commitMap[r])'
    BY DEF CommitMapLeads
  <2>1. PICK p : p = commitMap[r]
    OBVIOUS
  <2>2. Leads(r, 0, p)
    BY <1>1, <1>2, <1>5, <2>1 DEF CommitMapLeads, RestorePending
  <2>3. 0 <= history[1].sn
    BY <1>3, FlightTypes
  <2>4. Leads(r, 0, p)'
    BY <2>2, <2>3, UndoLeads
  <2> QED BY <1>1, <1>2, <2>1, <2>4
<1>11. ReadersLead'
  <2>1. ASSUME NEW k \in DOMAIN rob, Kept(rob[k].sn)'
        PROVE  ReaderLeads(rob[k])'
    <3> SUFFICES ASSUME rob[k].state = "waiting", rob[k].src # None
                 PROVE  OpOf(rob[k])'.src \in Arch
                        /\ Leads(OpOf(rob[k]).src, rob[k].sn, rob[k].src)'
      BY <1>2 DEF ReaderLeads, Arch
    <3>1. PICK r, sn, p : r = OpOf(rob[k]).src /\ sn = rob[k].sn /\ p = rob[k].src
      OBVIOUS
    <3>2. sn <= history[1].sn /\ sn \in Int
      BY SMTT(60), <1>1, <1>2, <1>3, <2>1, <3>1, FlightTypes DEF Kept
    <3>3. r \in Arch /\ Leads(r, sn, p)
      BY <1>2, <1>5, <2>1, <3>1 DEF ReadersLead, ReaderLeads, Kept
    <3>4. Leads(r, sn, p)'
      BY <3>2, <3>3, UndoLeads
    <3> QED BY <1>2, <3>1, <3>3, <3>4 DEF OpOf, Arch
  <2> QED BY <1>1, <1>2, <1>5, <2>1 DEF ReadersLead, IewPhases, CommitPhases
<1> QED BY <1>4, <1>6, <1>7, <1>8, <1>9, <1>10, <1>11 DEF HeldInv

LEMMA FreeHeld ==
  ASSUME TypeOK, HeldInv, FreePrevious
  PROVE  HeldInv'
<1>0. /\ HistoryOrder /\ SignalSound /\ AllGone /\ HistoryMatches /\ CommitMapLeads
      /\ ReadersLead /\ SignalPhases
  BY DEF HeldInv
<1>1. /\ phase = "free" /\ ~sig.squash /\ history # <<>>
      /\ history[Len(history)].sn <= sig.done
      /\ history' = SubSeq(history, 1, Len(history) - 1)
  BY <1>0 DEF FreePrevious, MustFree, SignalPhases
<1>2. UNCHANGED <<phase, prog, nextSn, renameNow, renameNext, rob, squashIt,
                  squashTo, iewRange, sig, status, commitMap, inRunahead,
                  cause, restoreNext, restoreNow>>
  BY DEF FreePrevious, frontVars, queueVars, robVars, iewVars, commitVars, modeVars, wireVars
<1>3. /\ Len(history) \in Nat /\ DOMAIN history = 1..Len(history)
      /\ DOMAIN history' = 1..(Len(history) - 1) /\ Len(history) \in DOMAIN history
      /\ \A k \in DOMAIN history' : history'[k] = history[k] /\ k \in DOMAIN history
      /\ \A k \in DOMAIN history : k # Len(history) => k \in DOMAIN history'
  BY SMTT(60), <1>1, SeqFacts DEF TypeOK
<1>4. /\ FlightOrder' /\ SignalPhases' /\ WalkReaches' /\ IewKnows' /\ CauseOldest'
      /\ \A k \in DOMAIN rob : Gone(rob[k])' <=> Gone(rob[k])
  BY <1>2, HistoryStepFrame
<1>5. ~restoreNow /\ ~restoreNext
  BY <1>0, <1>1 DEF AllGone
<1>6. HistoryOrder'
  BY <1>0, <1>2, <1>3 DEF HistoryOrder
<1>7. SignalSound'
  BY <1>0, <1>1, <1>2 DEF SignalSound, Oldest, IewPhases
<1>8. AllGone'
  BY <1>2, <1>5 DEF AllGone, RestorePending
<1>a. \A k \in DOMAIN history : sig.done < history[k].sn => k \in DOMAIN history'
  BY <1>1, <1>3, FlightTypes
<1>9. HistoryMatches'
  <2>1. ASSUME NEW k \in DOMAIN history', Kept(history[k].sn)'
        PROVE  \/ \E j \in DOMAIN rob' : ~Gone(rob[j])' /\ Owns(rob[j], history[k])'
               \/ status' = "Running"
                  /\ (Owned(renameNow, history[k])' \/ Owned(renameNext, history[k])')
    <3>1. Kept(history[k].sn) /\ k \in DOMAIN history /\ history'[k] = history[k]
      BY <1>2, <1>3, <2>1 DEF Kept
    <3>2. CASE \E j \in DOMAIN rob : ~Gone(rob[j]) /\ Owns(rob[j], history[k])
      <4>1. PICK j \in DOMAIN rob : ~Gone(rob[j]) /\ Owns(rob[j], history[k])
        BY <3>2
      <4>2. Owns(rob[j], history[k])'
        BY <1>2, <3>1, <4>1 DEF Owns, OpOf
      <4> QED BY <1>2, <1>4, <4>1, <4>2
    <3>3. CASE status = "Running" /\ Owned(renameNow, history[k])
      BY <1>2, <3>1, <3>3 DEF Owned, Owns, OpOf
    <3>4. CASE status = "Running" /\ Owned(renameNext, history[k])
      BY <1>2, <3>1, <3>4 DEF Owned, Owns, OpOf
    <3> QED BY <1>0, <3>1, <3>2, <3>3, <3>4 DEF HistoryMatches
  <2>2. ASSUME NEW j \in DOMAIN rob, Recorded(rob[j]) PROVE Recorded(rob[j])'
    <3>1. sig.done < rob[j].sn
      BY <1>0, <1>1 DEF SignalSound, Oldest
    <3> QED BY <1>2, <1>3, <1>a, <2>2, <3>1 DEF Recorded, Owns, OpOf
  <2>3. ASSUME NEW j \in DOMAIN renameNow, Recorded(renameNow[j])
        PROVE  Recorded(renameNow[j])'
    <3>1. sig.done < renameNow[j].sn
      BY <1>0, <1>1 DEF SignalSound, Oldest
    <3> QED BY <1>2, <1>3, <1>a, <2>3, <3>1 DEF Recorded, Owns, OpOf
  <2>4. ASSUME NEW j \in DOMAIN renameNext, Recorded(renameNext[j])
        PROVE  Recorded(renameNext[j])'
    <3>1. sig.done < renameNext[j].sn
      BY <1>0, <1>1 DEF SignalSound, Oldest
    <3> QED BY <1>2, <1>3, <1>a, <2>4, <3>1 DEF Recorded, Owns, OpOf
  <2>5. /\ \A j \in DOMAIN rob : ~Gone(rob[j]) => Recorded(rob[j])
        /\ status = "Running" => /\ \A j \in DOMAIN renameNow : Recorded(renameNow[j])
                                 /\ \A j \in DOMAIN renameNext : Recorded(renameNext[j])
    BY <1>0 DEF HistoryMatches
  <2>6. /\ \A j \in DOMAIN rob' : ~Gone(rob[j])' => Recorded(rob[j])'
        /\ status' = "Running" => /\ \A j \in DOMAIN renameNow' : Recorded(renameNow[j])'
                                  /\ \A j \in DOMAIN renameNext' : Recorded(renameNext[j])'
    BY <1>2, <1>4, <2>2, <2>3, <2>4, <2>5
  <2> QED BY <2>1, <2>6 DEF HistoryMatches
<1>b. sig.done \in Int /\ history[Len(history)].sn \in Nat
  BY <1>3, FlightTypes
<1>c. ASSUME NEW r \in Arch, NEW sn \in Int, NEW p, sig.done < sn, Leads(r, sn, p)
      PROVE  Leads(r, sn, p)'
  <2>1. history[Len(history)].sn < sn
    BY <1>1, <1>b, <1>c
  <2> QED BY <1>c, <2>1, FreeLeads
<1>10. CommitMapLeads'
  <2> SUFFICES ASSUME ~inRunahead' /\ ~RestorePending', NEW r \in Arch
               PROVE  Leads(r, IF sig.squash THEN 0 ELSE sig.done + 1, commitMap[r])'
    BY DEF CommitMapLeads
  <2>1. PICK sn, p : sn = sig.done + 1 /\ p = commitMap[r]
    OBVIOUS
  <2>2. Leads(r, sn, p)
    BY <1>0, <1>1, <1>2, <2>1 DEF CommitMapLeads, RestorePending
  <2>3. Leads(r, sn, p)'
    <3>1. sn \in Int /\ sig.done < sn
      BY <1>b, <2>1
    <3> QED BY <1>c, <2>2, <3>1
  <2> QED BY <1>1, <1>2, <2>1, <2>3
<1>11. ReadersLead'
  <2>1. ASSUME NEW k \in DOMAIN rob, ReaderLeads(rob[k]) PROVE ReaderLeads(rob[k])'
    <3> SUFFICES ASSUME rob[k].state = "waiting", rob[k].src # None
                 PROVE  OpOf(rob[k])'.src \in Arch
                        /\ Leads(OpOf(rob[k]).src, rob[k].sn, rob[k].src)'
      BY <1>2 DEF ReaderLeads, Arch
    <3>1. PICK r, sn, p : r = OpOf(rob[k]).src /\ sn = rob[k].sn /\ p = rob[k].src
      OBVIOUS
    <3>2. r \in Arch /\ Leads(r, sn, p) /\ sn \in Int /\ sig.done < sn
      BY <1>0, <1>1, <2>1, <3>1, FlightTypes DEF ReaderLeads, SignalSound, Oldest
    <3>3. Leads(r, sn, p)'
      BY <1>c, <3>2
    <3> QED BY <1>2, <3>1, <3>2, <3>3 DEF OpOf, Arch
  <2>2. ASSUME NEW k \in DOMAIN renameNow, ReaderLeads(renameNow[k])
        PROVE  ReaderLeads(renameNow[k])'
    <3> SUFFICES ASSUME renameNow[k].state = "waiting", renameNow[k].src # None
                 PROVE  OpOf(renameNow[k])'.src \in Arch
                        /\ Leads(OpOf(renameNow[k]).src, renameNow[k].sn, renameNow[k].src)'
      BY <1>2 DEF ReaderLeads, Arch
    <3>1. PICK r, sn, p :
            r = OpOf(renameNow[k]).src /\ sn = renameNow[k].sn /\ p = renameNow[k].src
      OBVIOUS
    <3>2. r \in Arch /\ Leads(r, sn, p) /\ sn \in Int /\ sig.done < sn
      BY <1>0, <1>1, <2>2, <3>1, FlightTypes DEF ReaderLeads, SignalSound, Oldest
    <3>3. Leads(r, sn, p)'
      BY <1>c, <3>2
    <3> QED BY <1>2, <3>1, <3>2, <3>3 DEF OpOf, Arch
  <2>3. ASSUME NEW k \in DOMAIN renameNext, ReaderLeads(renameNext[k])
        PROVE  ReaderLeads(renameNext[k])'
    <3> SUFFICES ASSUME renameNext[k].state = "waiting", renameNext[k].src # None
                 PROVE  OpOf(renameNext[k])'.src \in Arch
                        /\ Leads(OpOf(renameNext[k]).src, renameNext[k].sn, renameNext[k].src)'
      BY <1>2 DEF ReaderLeads, Arch
    <3>1. PICK r, sn, p :
            r = OpOf(renameNext[k]).src /\ sn = renameNext[k].sn /\ p = renameNext[k].src
      OBVIOUS
    <3>2. r \in Arch /\ Leads(r, sn, p) /\ sn \in Int /\ sig.done < sn
      BY <1>0, <1>1, <2>3, <3>1, FlightTypes DEF ReaderLeads, SignalSound, Oldest
    <3>3. Leads(r, sn, p)'
      BY <1>c, <3>2
    <3> QED BY <1>2, <3>1, <3>2, <3>3 DEF OpOf, Arch
  <2>4. /\ \A k \in DOMAIN rob : Kept(rob[k].sn) => ReaderLeads(rob[k])
        /\ ~sig.squash => /\ \A k \in DOMAIN renameNow : ReaderLeads(renameNow[k])
                          /\ \A k \in DOMAIN renameNext : ReaderLeads(renameNext[k])
    BY <1>0 DEF ReadersLead
  <2>5. \A k \in DOMAIN rob : Kept(rob[k].sn)' <=> Kept(rob[k].sn)
    BY <1>2 DEF Kept
  <2>6. /\ \A k \in DOMAIN rob' : Kept(rob[k].sn)' => ReaderLeads(rob[k])'
        /\ ~sig'.squash => /\ \A k \in DOMAIN renameNow' : ReaderLeads(renameNow[k])'
                           /\ \A k \in DOMAIN renameNext' : ReaderLeads(renameNext[k])'
    BY <1>2, <2>1, <2>2, <2>3, <2>4, <2>5
  <2> QED BY <1>1, <1>2, <2>6 DEF ReadersLead, IewPhases, CommitPhases
<1> QED BY <1>4, <1>6, <1>7, <1>8, <1>9, <1>10, <1>11 DEF HeldInv

-----------------------------------------------------------------------------
(* The steps of IEW and of the ROB walk.                                    *)

LEMMA WalkHeld ==
  ASSUME TypeOK, HeldInv, RobWalk
  PROVE  HeldInv'
<1> USE DEF frontVars, queueVars, mapVars, commitVars, modeVars, wireVars
<1>1. /\ phase = "walk" /\ phase' = "select"
      /\ UNCHANGED <<prog, nextSn, renameNow, renameNext, renameMap, history, sig,
                     squashTo, iewRange, inRunahead, cause, commitMap, restoreNext,
                     restoreNow>>
  BY DEF RobWalk, iewVars
<1>2. rob \in Seq(RegInst) /\ squashIt \in Nat /\ squashTo \in Int
  BY DEF TypeOK
<1>3. FlightOrder /\ WalkReaches /\ SignalPhases /\ IewKnows /\ HistoryMatches /\ ReadersLead
  BY DEF HeldInv
<1>4. CASE status = "ROBSquashing" /\ squashIt # 0
  <2>1. /\ rob' = Rob!MarkSquashed(rob, Rob!WalkMarks(rob, squashIt, squashTo, SquashWidth))
        /\ squashIt' = Rob!WalkNext(rob, squashIt, squashTo, SquashWidth)
        /\ status' = status
    BY <1>4 DEF RobWalk
  <2>2. /\ InPlace /\ SameMode /\ squashIt' \in Nat /\ squashIt' <= Len(rob)
        /\ \A k \in DOMAIN rob : rob'[k].squashed => rob[k].squashed \/ squashTo < rob[k].sn
        /\ /\ AgeOrder(rob) /\ squashIt <= Len(rob)
           /\ \A k \in DOMAIN rob : squashTo < rob[k].sn => rob[k].squashed \/ k <= squashIt
           => \A k \in DOMAIN rob : squashTo < rob[k].sn => rob'[k].squashed \/ k <= squashIt'
    BY <1>2, <2>1, WalkStep
  <2>3. /\ AgeOrder(rob) /\ squashIt <= Len(rob)
        /\ \A k \in DOMAIN rob : squashTo < rob[k].sn => rob[k].squashed \/ k <= squashIt
    BY <1>2, <1>3, <1>4, FlightTypes DEF FlightOrder, WalkReaches
  <2>4. /\ DOMAIN rob' = DOMAIN rob /\ Len(rob') = Len(rob)
        /\ \A k \in DOMAIN rob : rob'[k].sn = rob[k].sn
    BY <2>2 DEF InPlace, Evolves
  <2>5. WalkReaches'
    <3>1. \A k \in DOMAIN rob : squashTo < rob[k].sn => rob'[k].squashed \/ k <= squashIt'
      BY <2>2, <2>3
    <3>2. \A k \in DOMAIN rob : rob[k].sn > squashTo <=> squashTo < rob[k].sn
      BY FlightTypes
    <3>3. status' = "ROBSquashing"
      BY <1>4, <2>1
    <3> QED BY <1>1, <2>2, <2>4, <3>1, <3>2, <3>3 DEF WalkReaches
  <2>6. \A k \in DOMAIN rob : rob'[k].squashed => Gone(rob[k])
    BY <1>4, <2>2 DEF Gone
  <2>7. Quiet /\ QuietPhase
    BY <1>1, <2>1, <2>2, <2>5, <2>6 DEF Quiet, QuietPhase
  <2> QED BY <2>7, QuietStep
<1>5. CASE status = "Running"
  <2>1. rob' = rob /\ squashIt' = squashIt /\ status' = status
    BY <1>5 DEF RobWalk
  <2>2. InPlace /\ SameMode /\ SameMarks
    BY <1>2, <2>1, SameInPlace
  <2>3. Quiet /\ QuietPhase
    BY <1>1, <2>1, <2>2 DEF Quiet, QuietPhase, SameMarks, Gone
  <2> QED BY <2>3, QuietStep
<1>6. CASE status = "ROBSquashing" /\ squashIt = 0
  <2>1. rob' = rob /\ squashIt' = squashIt /\ status' = "Running"
    BY <1>6 DEF RobWalk
  <2>2. \A k \in DOMAIN rob : Gone(rob[k]) <=> rob[k].squashed
    <3>1. \A k \in DOMAIN rob : squashTo < rob[k].sn => rob[k].squashed
      BY <1>2, <1>3, <1>6, FlightTypes DEF WalkReaches
    <3> QED BY <1>6, <3>1 DEF Gone
  <2>3. \A k \in DOMAIN rob : Gone(rob[k])' <=> Gone(rob[k])
    BY <2>1, <2>2 DEF Gone
  <2>4. ~sig.squash /\ ~sig'.squash /\ renameNow = <<>> /\ renameNext = <<>>
    BY <1>1, <1>3, <1>6 DEF SignalPhases, NoSig
  <2>5. DOMAIN renameNow = {} /\ DOMAIN renameNext = {}
    BY <2>4
  <2>6. Follows(rob, rob') /\ Follows(renameNow, renameNow') /\ Follows(renameNext, renameNext')
    BY <1>1, <2>1, SameFollows
  <2>7. FlightOrder'
    BY <1>1, <1>3, <2>6, FlightFrame
  <2>8. SignalPhases'
    BY <1>1, <1>3, <2>1 DEF SignalPhases, IewPhases, CommitPhases
  <2>9. WalkReaches'
    BY <1>3, <1>6, <2>1 DEF WalkReaches
  <2>10. IewKnows'
    BY <1>1, <1>3, <2>1, <2>3, <2>5 DEF IewKnows, SquashedForIew, Stale, Oldest
  <2>11. HistoryMatches'
    <3>1. \A k \in DOMAIN history : Kept(history[k].sn)' => Kept(history[k].sn)
      BY <1>1 DEF Kept
    <3>2. status' = "Running" => DOMAIN renameNow' = {} /\ DOMAIN renameNext' = {}
      BY <1>1, <2>5
    <3> QED BY <1>1, <1>3, <1>6, <2>3, <2>6, <3>1, <3>2, MatchesFrame
  <2>12. CommitMapLeads'
    BY <1>1, CommitMapFrame DEF HeldInv, RestorePending
  <2>13. HistoryOrder' /\ CauseOldest'
    BY <1>1, <2>1 DEF HeldInv, HistoryOrder, CauseOldest, Oldest
  <2>14. SignalSound'
    BY <1>1, <2>1, <2>4 DEF HeldInv, SignalSound, Oldest, IewPhases
  <2>15. AllGone'
    BY <1>1, <2>1, <2>3 DEF HeldInv, AllGone, IewPhases, CommitPhases, RestorePending, Oldest
  <2>16. ReadersLead'
    <3>1. \A k \in DOMAIN rob : ReaderLeads(rob[k]) => ReaderLeads(rob[k])'
      BY <1>1, <2>6, RobReaders
    <3>2. \A k \in DOMAIN rob : Kept(rob[k].sn)' => Kept(rob[k].sn)
      BY <1>1, <2>1 DEF Kept
    <3> QED BY <1>1, <1>3, <2>1, <2>4, <2>5, <3>1, <3>2
            DEF ReadersLead, IewPhases, CommitPhases
  <2> QED BY <2>7, <2>8, <2>9, <2>10, <2>11, <2>12, <2>13, <2>14, <2>15, <2>16 DEF HeldInv
<1> QED BY <1>4, <1>5, <1>6 DEF TypeOK

\* Places in the program with the same history entries after them.
LEMMA SameSince ==
  ASSUME NEW r, NEW a, NEW b, NEW p,
         \A k \in DOMAIN history :
           history[k].arch = r => (a <= history[k].sn <=> b <= history[k].sn)
  PROVE  Leads(r, a, p) <=> Leads(r, b, p)
<1>1. Since(r, a) = Since(r, b)
  BY DEF Since
<1> QED BY <1>1 DEF Leads

LEMMA IewDoneHeld ==
  ASSUME TypeOK, HeldInv, IewDone
  PROVE  HeldInv'
<1>1. /\ phase = "issue" /\ phase' = "walk" /\ sig' = NoSig
      /\ UNCHANGED <<prog, nextSn, renameNow, renameNext, renameMap, history, rob,
                     status, squashIt, squashTo, iewRange, inRunahead, cause,
                     commitMap, restoreNext, restoreNow>>
  BY DEF IewDone, frontVars, queueVars, mapVars, robVars, iewVars, commitVars,
         modeVars, wireVars
<1>2. /\ FlightOrder /\ HistoryOrder /\ SignalPhases /\ SignalSound /\ WalkReaches
      /\ IewKnows /\ CauseOldest /\ AllGone /\ HistoryMatches /\ CommitMapLeads
      /\ ReadersLead
  BY DEF HeldInv
<1>3. sig'.squash = FALSE /\ sig'.done = 0 /\ sig'.tail = 0
  BY <1>1 DEF NoSig
<1>4. nextSn \in Nat \ {0}
  BY DEF TypeOK
<1>5. renameNow = <<>> /\ DOMAIN renameNow = {} /\ (sig.squash => renameNext = <<>>)
  BY <1>1, <1>2 DEF SignalPhases, IewPhases
<1>6. \A k \in DOMAIN rob : Gone(rob[k])' <=> Gone(rob[k])
  BY <1>1 DEF Gone
<1>7. FlightOrder' /\ HistoryOrder' /\ WalkReaches' /\ CauseOldest'
  <2>1. FlightOrder'
    BY <1>1, <1>2, SameFollows, FlightFrame
  <2>2. HistoryOrder' /\ WalkReaches' /\ CauseOldest'
    BY <1>1, <1>2 DEF HistoryOrder, WalkReaches, CauseOldest, Oldest
  <2> QED BY <2>1, <2>2
<1>8. IewKnows'
  BY <1>1, <1>2, <1>6 DEF IewKnows, SquashedForIew, Stale, Oldest
<1>9. SignalPhases'
  BY <1>1, <1>2, <1>3, <1>5 DEF SignalPhases, IewPhases, CommitPhases
<1>10. SignalSound'
  BY <1>1, <1>2, <1>3, <1>4 DEF SignalSound, FlightOrder, Oldest, IewPhases
<1>11. AllGone'
  BY <1>1, <1>2, <1>6 DEF AllGone, IewPhases, CommitPhases, RestorePending
<1>12. \A k \in DOMAIN history : Kept(history[k].sn)
  BY <1>1, <1>2 DEF SignalSound, IewPhases
<1>13. HistoryMatches'
  <2>1. /\ Follows(rob, rob') /\ Follows(renameNow, renameNow')
        /\ Follows(renameNext, renameNext')
    BY <1>1, SameFollows
  <2> QED BY <1>1, <1>2, <1>6, <1>12, <2>1, MatchesFrame
<1>14. CommitMapLeads'
  <2> SUFFICES ASSUME ~inRunahead' /\ ~RestorePending', NEW r \in Arch
               PROVE  Leads(r, IF sig.squash THEN 0 ELSE sig.done + 1, commitMap[r])'
    BY DEF CommitMapLeads
  <2>1. PICK sn, p : sn = (IF sig.squash THEN 0 ELSE sig.done + 1) /\ p = commitMap[r]
    OBVIOUS
  <2>2. Leads(r, sn, p)
    BY <1>1, <1>2, <2>1 DEF CommitMapLeads, RestorePending
  <2>3. \A k \in DOMAIN history : sn <= history[k].sn <=> 1 <= history[k].sn
    BY <1>2, <1>12, <2>1, FlightTypes DEF HistoryOrder, Kept
  <2>4. Leads(r, 1, p)
    BY <2>2, <2>3, SameSince
  <2>5. Leads(r, 1, p)'
    BY <1>1, <2>4, SameMapLeads
  <2> QED BY <1>1, <1>3, <2>1, <2>5
<1>15. ReadersLead'
  <2>1. \A k \in DOMAIN rob : ReaderLeads(rob[k])
    <3> TAKE k \in DOMAIN rob
    <3>1. CASE Kept(rob[k].sn)
      BY <1>2, <3>1 DEF ReadersLead
    <3>2. CASE ~Kept(rob[k].sn)
      <4>1. sig.squash /\ sig.done < rob[k].sn
        BY <1>2, <3>2, FlightTypes DEF Kept, SignalSound, Oldest
      <4> QED BY <1>1, <1>2, <4>1 DEF ReadersLead, ReaderLeads, IewPhases
    <3> QED BY <3>1, <3>2
  <2>2. \A k \in DOMAIN rob : ReaderLeads(rob[k])'
    BY <1>1, <2>1, SameFollows, RobReaders
  <2>3. \A k \in DOMAIN renameNext : ReaderLeads(renameNext[k])
    BY <1>2, <1>5 DEF ReadersLead
  <2>4. \A k \in DOMAIN renameNext : ReaderLeads(renameNext[k])'
    BY <1>1, <2>3, SameFollows, RenameNextReaders
  <2> QED BY <1>1, <1>2, <1>3, <1>5, <2>2, <2>4 DEF ReadersLead, IewPhases, CommitPhases
<1> QED BY <1>7, <1>8, <1>9, <1>10, <1>11, <1>13, <1>14, <1>15 DEF HeldInv

LEMMA SquashIewHeld ==
  ASSUME TypeOK, HeldInv, SquashIew
  PROVE  HeldInv'
<1>1. /\ phase = "dispatch" /\ phase' = "execute" /\ sig.squash /\ renameNow' = <<>>
      /\ iewRange'.lo = sig.done /\ iewRange'.hi = sig.tail
      /\ UNCHANGED <<prog, nextSn, renameNext, renameMap, history, sig, status,
                     squashIt, squashTo, inRunahead, cause, commitMap, restoreNext,
                     restoreNow>>
  BY DEF SquashIew, frontVars, mapVars, commitVars, modeVars, wireVars
<1>2. /\ FlightOrder /\ HistoryOrder /\ SignalPhases /\ SignalSound /\ WalkReaches
      /\ IewKnows /\ CauseOldest /\ AllGone /\ HistoryMatches /\ CommitMapLeads
      /\ ReadersLead
  BY DEF HeldInv
<1>3. /\ status = "ROBSquashing" /\ renameNext = <<>>
      /\ DOMAIN renameNow' = {} /\ DOMAIN renameNext = {}
  BY <1>1, <1>2 DEF SignalPhases
<1>4. /\ InPlace /\ SameMode
      /\ \A k \in DOMAIN rob :
           /\ rob[k].sn <= sig.done => rob'[k] = rob[k]
           /\ sig.done < rob[k].sn => rob'[k].state # "waiting"
  BY SquashIewInPlace
<1>5. /\ DOMAIN rob' = DOMAIN rob /\ Len(rob') = Len(rob)
      /\ \A k \in DOMAIN rob : /\ rob'[k].sn = rob[k].sn
                               /\ rob[k].squashed => rob'[k].squashed
                               /\ rob'[k].runahead = rob[k].runahead
  BY <1>4 DEF InPlace, SameMode, Evolves
<1>6. \A k \in DOMAIN rob : squashTo = sig.done /\ (Gone(rob[k]) <=> Gone(rob[k])')
      /\ (sig.done < rob[k].sn => Gone(rob[k]))
  <2> TAKE k \in DOMAIN rob
  <2>1. squashTo = sig.done
    BY <1>1, <1>2, FlightTypes DEF SignalSound
  <2>2. rob[k].sn <= sig.done \/ sig.done < rob[k].sn
    BY FlightTypes
  <2> QED BY <1>1, <1>3, <1>4, <1>5, <2>1, <2>2 DEF Gone
<1>7. /\ rob' = <<>> <=> rob = <<>>
  BY <1>4, <1>5, SeqFacts DEF InPlace, TypeOK
<1>8. FlightOrder'
  BY <1>1, <1>2, <1>3, <1>5 DEF FlightOrder, AgeOrder, Older, Youngest, Oldest
<1>9. HistoryOrder' /\ CauseOldest'
  BY <1>1, <1>2, <1>3, <1>5 DEF HistoryOrder, CauseOldest, Oldest
<1>10. SignalPhases'
  BY <1>1, <1>2, <1>3 DEF SignalPhases, IewPhases, CommitPhases
<1>11. SignalSound'
  BY <1>1, <1>2, <1>3, <1>5, <1>7 DEF SignalSound, Oldest, IewPhases, Kept
<1>12. WalkReaches'
  BY <1>1, <1>2, <1>3, <1>5 DEF WalkReaches
<1>13. IewKnows'
  <2>1. ASSUME NEW k \in DOMAIN rob, SquashedForIew(rob[k])' PROVE Gone(rob[k])'
    <3>1. CASE rob'[k].squashed
      BY <3>1 DEF Gone
    <3>2. CASE sig.done < rob[k].sn
      BY <1>6, <3>2
    <3>3. CASE Stale(rob[k])
      BY <1>2, <1>6, <3>3 DEF IewKnows, SquashedForIew
    <3>4. rob'[k].sn > iewRange'.lo => sig.done < rob[k].sn
      BY <1>1, <1>5, FlightTypes
    <3> QED BY <1>1, <1>5, <2>1, <3>1, <3>2, <3>3, <3>4 DEF SquashedForIew, Stale
  <2> QED BY <1>1, <1>3, <1>5, <2>1 DEF IewKnows, Oldest
<1>14. AllGone'
  BY <1>1, <1>2, <1>3, <1>5, <1>6 DEF AllGone, IewPhases, CommitPhases, RestorePending
<1>15. HistoryMatches'
  <2>1. Follows(rob, rob')
    BY <1>4, InPlaceFollows
  <2>2. \A k \in DOMAIN history : Kept(history[k].sn)' => Kept(history[k].sn)
    BY <1>1 DEF Kept
  <2>3. status # "Running" /\ status' # "Running"
    BY <1>1, <1>3
  <2> QED BY <1>1, <1>2, <1>6, <2>1, <2>2, <2>3, MatchesFrame
<1>16. CommitMapLeads'
  BY <1>1, <1>2, CommitMapFrame DEF RestorePending
<1>17. ReadersLead'
  <2>1. ASSUME NEW k \in DOMAIN rob, Kept(rob[k].sn)' PROVE ReaderLeads(rob[k])'
    <3>1. Kept(rob[k].sn)
      BY <1>1, <1>5, <2>1 DEF Kept
    <3>2. Follows(rob, rob')
      BY <1>4, InPlaceFollows
    <3> QED BY <1>1, <1>2, <3>1, <3>2, RobReaders DEF ReadersLead
  <2>2. restoreNow => \A k \in DOMAIN rob : sig.done < rob[k].sn
    BY <1>1, <1>2 DEF AllGone, Oldest
  <2> QED BY <1>1, <1>3, <1>4, <1>5, <2>1, <2>2 DEF ReadersLead, IewPhases, CommitPhases
<1> QED BY <1>8, <1>9, <1>10, <1>11, <1>12, <1>13, <1>14, <1>15, <1>16, <1>17 DEF HeldInv

-----------------------------------------------------------------------------
(* The steps of commit.                                                     *)

LEMMA SquashFromIewHeld ==
  ASSUME TypeOK, HeldInv, SquashFromIew
  PROVE  HeldInv'
<1>1. /\ phase = "select" /\ phase' = "insts"
      /\ UNCHANGED <<prog, nextSn, renameNow, renameNext, renameMap, history,
                     iewRange, inRunahead, cause, commitMap, restoreNext, restoreNow>>
  BY DEF SquashFromIew, frontVars, queueVars, mapVars, iewVars, modeVars, wireVars
<1>2. /\ FlightOrder /\ HistoryOrder /\ SignalPhases /\ SignalSound /\ WalkReaches
      /\ IewKnows /\ CauseOldest /\ AllGone /\ HistoryMatches /\ CommitMapLeads
      /\ ReadersLead
  BY DEF HeldInv
<1>3. PICK n \in DOMAIN rob, to \in Int, pos \in Nat :
        /\ CanRedirect(rob[n]) /\ SquashFrom(to, pos)
        /\ to = rob[n].sn \/ to = rob[n].sn - 1
  BY IewSquash
<1>4. /\ InPlace /\ SameMode /\ squashIt' \in Nat
      /\ \A k \in DOMAIN rob : rob'[k].squashed => rob[k].squashed \/ to < rob[k].sn
      /\ \A k \in DOMAIN rob : rob'[k].state = rob[k].state
      /\ rob # <<>> => squashTo' = to
      /\ squashIt <= Len(rob) => squashIt' <= Len(rob)
      /\ AgeOrder(rob) =>
           \A k \in DOMAIN rob : to < rob[k].sn => rob'[k].squashed \/ k <= squashIt'
      /\ sig'.squash /\ sig'.done = to /\ status' = "ROBSquashing"
      /\ sig'.tail = IF rob = <<>> THEN to ELSE rob[Len(rob)].sn
  BY <1>3, SquashFromInPlace
<1>5. /\ DOMAIN rob' = DOMAIN rob /\ Len(rob') = Len(rob)
      /\ \A k \in DOMAIN rob : /\ rob'[k].sn = rob[k].sn
                               /\ rob[k].squashed => rob'[k].squashed
                               /\ rob'[k].runahead = rob[k].runahead
  BY <1>4 DEF InPlace, SameMode, Evolves
<1>6. /\ rob # <<>> /\ squashTo' = to /\ rob[Len(rob)].sn < nextSn
      /\ rob[n].sn \in Nat /\ nextSn \in Nat /\ rob[n].sn < nextSn
      /\ to <= rob[n].sn /\ to < nextSn
  <2>1. rob # <<>>
    BY <1>3, FlightTypes
  <2>2. Len(rob) \in DOMAIN rob
    BY <2>1, SeqFacts DEF TypeOK
  <2> QED BY SMTT(60), <1>2, <1>3, <1>4, <2>1, <2>2, FlightTypes DEF FlightOrder, Youngest
<1>7. /\ sig = NoSig /\ sig.squash = FALSE /\ sig.done = 0
      /\ renameNow = <<>> /\ DOMAIN renameNow = {}
  BY <1>1, <1>2 DEF SignalPhases, NoSig, CommitPhases
<1>8. ~Gone(rob[n]) /\ (status = "ROBSquashing" => rob[n].sn <= squashTo)
  BY <1>3, FlightTypes DEF CanRedirect, Gone
<1>9. ~restoreNow /\ ~restoreNext
  BY <1>2, <1>8 DEF AllGone, RestorePending
<1>10. \A k \in DOMAIN rob :
         /\ Gone(rob[k]) => Gone(rob[k])'
         /\ to < rob[k].sn => Gone(rob[k])'
         /\ ~Gone(rob[k]) /\ Gone(rob[k])' => to < rob[k].sn
  <2> TAKE k \in DOMAIN rob
  <2>1. status = "ROBSquashing" /\ squashTo < rob[k].sn => to < rob[k].sn
    BY <1>6, <1>8, FlightTypes
  <2> QED BY <1>4, <1>5, <1>6, <2>1 DEF Gone
<1>11. FlightOrder'
  BY <1>1, <1>2, <1>4, InPlaceFollows, SameFollows, FlightFrame
<1>12. HistoryOrder' /\ CauseOldest'
  BY <1>1, <1>2, <1>5 DEF HistoryOrder, CauseOldest, Oldest
<1>13. SignalPhases'
  BY <1>1, <1>2, <1>4 DEF SignalPhases, IewPhases, CommitPhases
<1>14. SignalSound'
  <2>1. Oldest(renameNext, to)
    BY <1>2, <1>6, FlightTypes DEF FlightOrder, Older, Oldest
  <2>2. sig'.done < nextSn' /\ sig'.tail < nextSn' /\ iewRange'.hi < nextSn'
    BY <1>1, <1>2, <1>4, <1>6 DEF SignalSound
  <2> QED BY <1>1, <1>4, <1>6, <1>7, <2>1, <2>2 DEF SignalSound, Oldest, IewPhases
<1>15. WalkReaches'
  <2>1. \A k \in DOMAIN rob' : rob'[k].sn > squashTo' => rob'[k].squashed \/ k <= squashIt'
    BY <1>2, <1>4, <1>5, <1>6, FlightTypes DEF FlightOrder
  <2> QED BY <1>2, <1>4, <1>5, <2>1 DEF WalkReaches
<1>16. IewKnows'
  <2>1. ASSUME NEW k \in DOMAIN rob, SquashedForIew(rob[k])' PROVE Gone(rob[k])'
    <3>1. rob'[k].squashed \/ SquashedForIew(rob[k])
      BY <1>1, <1>5, <2>1 DEF SquashedForIew, Stale
    <3> QED BY <1>2, <1>10, <3>1 DEF IewKnows, Gone
  <2> QED BY <1>1, <1>2, <1>4, <1>5, <2>1 DEF IewKnows, Oldest
<1>17. AllGone'
  BY <1>1, <1>9 DEF AllGone, RestorePending
<1>18. HistoryMatches'
  <2>1. Follows(rob, rob')
    BY <1>4, InPlaceFollows
  <2>2. \A k \in DOMAIN history : Kept(history[k].sn)' => Kept(history[k].sn)
    BY <1>2, <1>7 DEF Kept, HistoryOrder
  <2>3. \A j \in DOMAIN rob : \A k \in DOMAIN history :
          ~Gone(rob[j]) /\ Gone(rob[j])' /\ rob[j].sn = history[k].sn => ~Kept(history[k].sn)'
    BY <1>1, <1>4, <1>10, FlightTypes DEF Kept
  <2>4. ASSUME NEW k \in DOMAIN history,
               Owned(renameNow, history[k]) \/ Owned(renameNext, history[k])
        PROVE  ~Kept(history[k].sn)'
    <3>1. PICK j \in DOMAIN renameNext : renameNext[j].sn = history[k].sn
      BY <1>7, <2>4 DEF Owned, Owns
    <3>2. to < renameNext[j].sn
      BY <1>2, <1>6, FlightTypes DEF FlightOrder, Older
    <3> QED BY <1>1, <1>4, <3>1, <3>2, FlightTypes DEF Kept
  <2>5. status' # "Running"
    BY <1>4
  <2> QED BY <1>1, <1>2, <1>10, <2>1, <2>2, <2>3, <2>4, <2>5, MatchesFrame
<1>19. CommitMapLeads'
  <2> SUFFICES ASSUME ~inRunahead' /\ ~RestorePending', NEW r \in Arch
               PROVE  Leads(r, 0, commitMap[r])'
    BY <1>4 DEF CommitMapLeads
  <2>1. PICK p : p = commitMap[r]
    OBVIOUS
  <2>2. Leads(r, 1, p)
    BY <1>1, <1>2, <1>7, <2>1 DEF CommitMapLeads, RestorePending
  <2>3. \A k \in DOMAIN history : 1 <= history[k].sn <=> 0 <= history[k].sn
    BY <1>2, FlightTypes DEF HistoryOrder
  <2>4. Leads(r, 0, p)
    BY <2>2, <2>3, SameSince
  <2> QED BY <1>1, <2>1, <2>4, SameMapLeads
<1>20. ReadersLead'
  <2>1. ASSUME NEW k \in DOMAIN rob PROVE ReaderLeads(rob[k])'
    <3>1. Kept(rob[k].sn)
      BY <1>2, <1>7 DEF Kept, FlightOrder, Oldest
    <3>2. ReaderLeads(rob[k])
      BY <1>2, <3>1 DEF ReadersLead
    <3> QED BY <1>1, <1>4, <3>2, InPlaceFollows, RobReaders
  <2> QED BY <1>1, <1>4, <1>5, <1>9, <2>1 DEF ReadersLead, IewPhases, CommitPhases
<1> QED BY <1>11, <1>12, <1>13, <1>14, <1>15, <1>16, <1>17, <1>18, <1>19, <1>20 DEF HeldInv

LEMMA ExitHeld ==
  ASSUME TypeOK, HeldInv, SquashFromRunaheadExit
  PROVE  HeldInv'
<1>1. /\ phase = "select" /\ phase' = "insts" /\ inRunahead
      /\ inRunahead' = FALSE /\ restoreNext' = TRUE
      /\ SquashFrom(cause - 1, storedPc)
      /\ UNCHANGED <<prog, nextSn, renameNow, renameNext, renameMap, history,
                     iewRange, cause, commitMap, restoreNow>>
  BY DEF SquashFromRunaheadExit, frontVars, queueVars, mapVars, iewVars
<1>2. /\ FlightOrder /\ HistoryOrder /\ SignalPhases /\ SignalSound /\ WalkReaches
      /\ IewKnows /\ CauseOldest /\ AllGone /\ HistoryMatches /\ ReadersLead
  BY DEF HeldInv
<1>3. PICK to \in Int, pos \in Nat : to = cause - 1 /\ SquashFrom(to, pos)
  <2>1. cause - 1 \in Int /\ storedPc \in Nat
    BY DEF TypeOK
  <2> QED BY <1>1, <2>1
<1>4. /\ InPlace /\ SameMode /\ squashIt' \in Nat
      /\ rob # <<>> => squashTo' = to
      /\ squashIt <= Len(rob) => squashIt' <= Len(rob)
      /\ AgeOrder(rob) =>
           \A k \in DOMAIN rob : to < rob[k].sn => rob'[k].squashed \/ k <= squashIt'
      /\ sig'.squash /\ sig'.done = to /\ status' = "ROBSquashing"
      /\ sig'.tail = IF rob = <<>> THEN to ELSE rob[Len(rob)].sn
  BY <1>3, SquashFromInPlace
<1>5. /\ DOMAIN rob' = DOMAIN rob /\ Len(rob') = Len(rob)
      /\ \A k \in DOMAIN rob : rob'[k].sn = rob[k].sn
  BY <1>4 DEF InPlace, Evolves
<1>6. /\ sig = NoSig /\ sig.squash = FALSE /\ sig.done = 0
      /\ renameNow = <<>> /\ DOMAIN renameNow = {}
  BY <1>1, <1>2 DEF SignalPhases, NoSig, CommitPhases
<1>7. /\ to < nextSn /\ Oldest(rob, to) /\ Oldest(renameNext, to)
      /\ sig'.tail < nextSn
  <2>1. to < nextSn /\ Oldest(rob, to) /\ Oldest(renameNext, to)
    BY <1>1, <1>2, <1>3, FlightTypes DEF CauseOldest
  <2>2. rob # <<>> => rob[Len(rob)].sn < nextSn
    <3>1. rob # <<>> => Len(rob) \in DOMAIN rob
      BY SeqFacts DEF TypeOK
    <3> QED BY <1>2, <3>1 DEF FlightOrder, Youngest
  <2> QED BY <1>4, <2>1, <2>2
<1>8. \A k \in DOMAIN rob : squashTo' = to /\ Gone(rob[k])'
  <2> TAKE k \in DOMAIN rob
  <2>1. squashTo' = to
    BY <1>4, FlightTypes
  <2> QED BY <1>4, <1>5, <1>7, <2>1 DEF Gone, Oldest
<1>9. rob' = <<>> <=> rob = <<>>
  BY <1>4, <1>5, SeqFacts DEF InPlace, TypeOK
<1>10. ~restoreNow
  BY <1>1, <1>2 DEF AllGone, RestorePending
<1>11. Oldest(history, to)
  <2> SUFFICES ASSUME NEW k \in DOMAIN history PROVE to < history[k].sn
    BY DEF Oldest
  <2>1. Kept(history[k].sn)
    BY <1>2, <1>6 DEF Kept, HistoryOrder
  <2>2. CASE \E j \in DOMAIN rob : Owns(rob[j], history[k])
    BY <1>7, <2>2 DEF Oldest, Owns
  <2>3. CASE Owned(renameNext, history[k])
    BY <1>7, <2>3 DEF Oldest, Owned, Owns
  <2>4. ~Owned(renameNow, history[k])
    BY <1>6 DEF Owned
  <2> QED BY <1>2, <2>1, <2>2, <2>3, <2>4 DEF HistoryMatches
<1>12. FlightOrder'
  BY <1>1, <1>2, <1>4, InPlaceFollows, SameFollows, FlightFrame
<1>13. HistoryOrder' /\ CauseOldest'
  BY <1>1, <1>2 DEF HistoryOrder, CauseOldest
<1>14. SignalPhases'
  BY <1>1, <1>2, <1>4 DEF SignalPhases, IewPhases, CommitPhases
<1>15. SignalSound'
  <2>1. sig'.done < nextSn' /\ sig'.tail < nextSn' /\ iewRange'.hi < nextSn'
    BY <1>1, <1>2, <1>4, <1>7 DEF SignalSound
  <2>2. rob' # <<>> => squashTo' = sig'.done
    BY <1>4, <1>9
  <2> QED BY <1>1, <1>4, <1>6, <1>7, <2>1, <2>2 DEF SignalSound, Oldest, IewPhases
<1>16. WalkReaches'
  <2>1. \A k \in DOMAIN rob' : rob'[k].sn > squashTo' => rob'[k].squashed \/ k <= squashIt'
    BY <1>2, <1>4, <1>5, <1>7, <1>8 DEF FlightOrder, Oldest
  <2> QED BY <1>2, <1>4, <1>5, <2>1 DEF WalkReaches
<1>17. IewKnows'
  BY <1>1, <1>2, <1>4, <1>5, <1>8 DEF IewKnows, Oldest
<1>18. AllGone'
  BY <1>1, <1>4, <1>5, <1>7, <1>8, <1>10, <1>11
     DEF AllGone, RestorePending, Oldest, IewPhases, CommitPhases
<1>19. HistoryMatches'
  <2>1. \A k \in DOMAIN history' : ~Kept(history[k].sn)'
    BY <1>1, <1>4, <1>7, <1>11, FlightTypes DEF Kept, Oldest
  <2> QED BY <1>4, <1>5, <1>8, <2>1 DEF HistoryMatches
<1>20. CommitMapLeads'
  BY <1>1 DEF CommitMapLeads, RestorePending
<1>21. ReadersLead'
  <2>1. \A k \in DOMAIN rob : ~Kept(rob[k].sn)'
    BY <1>4, <1>5, <1>7, FlightTypes DEF Kept, Oldest
  <2> QED BY <1>1, <1>4, <1>5, <1>10, <2>1 DEF ReadersLead, IewPhases
<1> QED BY <1>12, <1>13, <1>14, <1>15, <1>16, <1>17, <1>18, <1>19, <1>20, <1>21 DEF HeldInv

LEMMA TailRob ==
  ASSUME TypeOK, FlightOrder, rob # <<>>, rob' = Tail(rob),
         UNCHANGED <<nextSn, renameNow, renameNext>>
  PROVE  /\ FlightOrder' /\ 1 \in DOMAIN rob
         /\ \A k \in DOMAIN rob' :
              k + 1 \in DOMAIN rob /\ rob'[k] = rob[k + 1] /\ rob[1].sn < rob'[k].sn
         /\ \A k \in DOMAIN rob : k # 1 => k - 1 \in DOMAIN rob' /\ rob'[k - 1] = rob[k]
<1>1. /\ Len(rob) \in Nat /\ DOMAIN rob = 1..Len(rob) /\ 1 \in DOMAIN rob
      /\ DOMAIN rob' = 1..(Len(rob) - 1)
      /\ \A k \in DOMAIN rob' : k + 1 \in DOMAIN rob /\ rob'[k] = rob[k + 1]
  BY SeqFacts DEF TypeOK
<1>2. \A k \in DOMAIN rob : k # 1 => k - 1 \in DOMAIN rob' /\ rob'[k - 1] = rob[k]
  BY <1>1
<1>3. \A k \in DOMAIN rob' : rob[1].sn < rob'[k].sn
  BY <1>1 DEF FlightOrder, AgeOrder
<1>4. AgeOrder(rob)'
  BY <1>1 DEF FlightOrder, AgeOrder
<1>5. Older(rob, renameNow)' /\ Older(rob, renameNext)' /\ Youngest(rob, nextSn)' /\ Oldest(rob, 0)'
  BY <1>1 DEF FlightOrder, Older, Youngest, Oldest
<1>6. FlightOrder'
  BY <1>4, <1>5 DEF FlightOrder, AgeOrder, Older, Youngest, Oldest
<1> QED BY <1>1, <1>2, <1>3, <1>6

LEMMA RetireSquashedHeld ==
  ASSUME TypeOK, HeldInv, RetireSquashed
  PROVE  HeldInv'
<1>1. /\ phase = "insts" /\ status = "Running" /\ rob # <<>> /\ rob[1].squashed
      /\ rob' = Tail(rob)
      /\ UNCHANGED <<phase, prog, nextSn, renameNow, renameNext, renameMap, history,
                     sig, status, squashIt, squashTo, iewRange, inRunahead, cause,
                     commitMap, restoreNext, restoreNow>>
  BY DEF RetireSquashed, AtHead, Head0, frontVars, queueVars, mapVars, iewVars,
         commitVars, modeVars, wireVars
<1>2. /\ FlightOrder /\ HistoryOrder /\ SignalPhases /\ SignalSound /\ WalkReaches
      /\ IewKnows /\ CauseOldest /\ AllGone /\ HistoryMatches /\ CommitMapLeads
      /\ ReadersLead
  BY DEF HeldInv
<1>3. /\ FlightOrder' /\ 1 \in DOMAIN rob
      /\ \A k \in DOMAIN rob' :
           k + 1 \in DOMAIN rob /\ rob'[k] = rob[k + 1] /\ rob[1].sn < rob'[k].sn
      /\ \A k \in DOMAIN rob : k # 1 => k - 1 \in DOMAIN rob' /\ rob'[k - 1] = rob[k]
  BY <1>1, <1>2, TailRob
<1>4. ~sig.squash
  BY <1>1, <1>2 DEF SignalPhases
<1>5. \A k \in DOMAIN rob' : Gone(rob[k])' <=> Gone(rob[k + 1])
  BY <1>1, <1>3 DEF Gone
<1>6. HistoryOrder' /\ SignalPhases'
  BY <1>1, <1>2 DEF HistoryOrder, SignalPhases
<1>7. CauseOldest'
  BY <1>1, <1>2, <1>3 DEF CauseOldest, Oldest
<1>8. SignalSound'
  BY <1>1, <1>2, <1>3, <1>4 DEF SignalSound, Oldest, IewPhases
<1>9. WalkReaches'
  <2>1. Len(rob') \in Nat /\ squashIt = 0
    BY <1>1, <1>2, SeqFacts DEF WalkReaches, TypeOK
  <2> QED BY <1>1, <2>1 DEF WalkReaches
<1>10. IewKnows'
  <2>1. \A k \in DOMAIN rob' : SquashedForIew(rob[k])' <=> SquashedForIew(rob[k + 1])
    BY <1>1, <1>3 DEF SquashedForIew, Stale
  <2> QED BY <1>1, <1>2, <1>3, <1>5, <2>1 DEF IewKnows, Stale, Oldest
<1>11. AllGone'
  BY <1>1, <1>2, <1>3, <1>5 DEF AllGone, RestorePending, Oldest, IewPhases, CommitPhases
<1>12. HistoryMatches'
  <2>1. ASSUME NEW k \in DOMAIN history,
               \E j \in DOMAIN rob : ~Gone(rob[j]) /\ Owns(rob[j], history[k])
        PROVE  \E j \in DOMAIN rob' : ~Gone(rob[j])' /\ Owns(rob[j], history[k])'
    <3>1. PICK j \in DOMAIN rob : ~Gone(rob[j]) /\ Owns(rob[j], history[k])
      BY <2>1
    <3>2. j # 1
      BY <1>1, <3>1 DEF Gone
    <3>3. j - 1 \in DOMAIN rob' /\ rob'[j - 1] = rob[j]
      BY <1>3, <3>2
    <3>4. ~Gone(rob[j - 1])' /\ Owns(rob[j - 1], history[k])'
      BY <1>1, <3>1, <3>3 DEF Gone, Owns, OpOf
    <3> QED BY <3>3, <3>4
  <2>2. \A k \in DOMAIN history :
          /\ Owned(renameNow, history[k])' <=> Owned(renameNow, history[k])
          /\ Owned(renameNext, history[k])' <=> Owned(renameNext, history[k])
    BY <1>1 DEF Owned, Owns, OpOf
  <2>3. \A j \in DOMAIN rob' : ~Gone(rob[j])' => Recorded(rob[j])'
    BY <1>1, <1>2, <1>3, <1>5 DEF HistoryMatches, Recorded, Owns, OpOf
  <2>4. /\ \A j \in DOMAIN renameNow : Recorded(renameNow[j])' <=> Recorded(renameNow[j])
        /\ \A j \in DOMAIN renameNext : Recorded(renameNext[j])' <=> Recorded(renameNext[j])
    BY <1>1 DEF Recorded, Owns, OpOf
  <2>5. \A k \in DOMAIN history : Kept(history[k].sn)' <=> Kept(history[k].sn)
    BY <1>1 DEF Kept
  <2> QED BY <1>1, <1>2, <2>1, <2>2, <2>3, <2>4, <2>5 DEF HistoryMatches
<1>13. CommitMapLeads'
  BY <1>1, <1>2, CommitMapFrame DEF RestorePending
<1>14. ReadersLead'
  <2>1. ASSUME NEW k \in DOMAIN rob', Kept(rob[k].sn)' PROVE ReaderLeads(rob[k])'
    <3>1. ReaderLeads(rob[k + 1])
      BY <1>1, <1>2, <1>3, <2>1 DEF Kept, ReadersLead
    <3> QED BY <1>1, <1>3, <3>1 DEF ReaderLeads, OpOf, Leads, Since, Arch
  <2>2. /\ \A k \in DOMAIN renameNow : ReaderLeads(renameNow[k])'
        /\ \A k \in DOMAIN renameNext : ReaderLeads(renameNext[k])'
    BY <1>1, <1>2, <1>4, SameFollows, RenameNowReaders, RenameNextReaders DEF ReadersLead
  <2> QED BY <1>1, <1>2, <1>3, <1>4, <2>1, <2>2 DEF ReadersLead, IewPhases, CommitPhases
<1> QED BY <1>3, <1>6, <1>7, <1>8, <1>9, <1>10, <1>11, <1>12, <1>13, <1>14 DEF HeldInv

\* The mapping moves past the instruction at the head of the ROB as the commit
\* map does.
LEMMA CommitMoves ==
  ASSUME TypeOK, HeldInv, HistoryChain, phase = "insts", status = "Running",
         rob # <<>>, ~rob[1].squashed, NEW r \in Arch, NEW n, n = rob[1].sn, NEW p,
         Leads(r, sig.done + 1, p)
  PROVE  Leads(r, n + 1, IF rob[1].dst # None /\ OpOf(rob[1]).dst = r THEN rob[1].dst ELSE p)
<1>1. /\ FlightOrder /\ HistoryOrder /\ SignalPhases /\ SignalSound /\ HistoryMatches
  BY DEF HeldInv
<1>2. ~sig.squash /\ renameNow = <<>> /\ ~Gone(rob[1]) /\ 1 \in DOMAIN rob
  BY <1>1, FlightTypes DEF SignalPhases, CommitPhases, Gone
<1>3. n \in Nat /\ sig.done \in Int /\ sig.done < n
  BY <1>1, <1>2, FlightTypes DEF SignalSound, Oldest
\* Every entry not yet freed is that of the head or of something younger.
<1>4. ASSUME NEW k \in DOMAIN history, sig.done < history[k].sn
      PROVE  n < history[k].sn \/ Owns(rob[1], history[k])
  <2>1. Kept(history[k].sn)
    BY <1>2, <1>4 DEF Kept
  <2>2. CASE \E j \in DOMAIN rob : Owns(rob[j], history[k])
    <3>1. PICK j \in DOMAIN rob : Owns(rob[j], history[k])
      BY <2>2
    <3>2. j = 1 \/ rob[1].sn < rob[j].sn
      BY SMTT(60), <1>1, <1>2, <3>1, FlightTypes DEF FlightOrder, AgeOrder
    <3> QED BY <3>1, <3>2 DEF Owns
  <2>3. CASE Owned(renameNext, history[k])
    BY <1>1, <1>2, <2>3 DEF Owned, Owns, FlightOrder, Older
  <2>4. ~Owned(renameNow, history[k])
    BY <1>2 DEF Owned
  <2> QED BY <1>1, <2>1, <2>2, <2>3, <2>4 DEF HistoryMatches
<1>5. CASE rob[1].dst # None /\ OpOf(rob[1]).dst = r
  <2>1. PICK k \in DOMAIN history : Owns(rob[1], history[k])
    BY <1>1, <1>2, <1>5 DEF HistoryMatches, Recorded
  <2>2. history[k].sn = n /\ history[k].new = rob[1].dst /\ history[k].arch = r
    BY <1>5, <2>1 DEF Owns
  <2> DEFINE newer == {j \in 1..(k - 1) : history[j].arch = history[k].arch}
  <2>3. Since(r, n + 1) = newer
    <3>1. \A j \in DOMAIN history : n + 1 <= history[j].sn <=> j < k
      <4> TAKE j \in DOMAIN history
      <4>1. /\ j < k => history[k].sn < history[j].sn
            /\ k < j => history[j].sn < history[k].sn
        BY <1>1 DEF HistoryOrder
      <4>2. j \in Nat /\ k \in Nat /\ history[j].sn \in Nat /\ history[k].sn \in Nat
        BY FlightTypes
      <4> QED BY <1>3, <2>2, <4>1, <4>2
    <3>2. \A j : j \in 1..(k - 1) <=> j \in DOMAIN history /\ j < k
      <4>1. Len(history) \in Nat /\ DOMAIN history = 1..Len(history) /\ k \in Nat
        BY FlightTypes
      <4> QED BY <4>1
    <3> QED BY <2>2, <3>1, <3>2 DEF Since
  <2>4. /\ newer = {} => renameMap[r] = history[k].new
        /\ \A j \in newer : (\A i \in newer : i <= j) => history[j].prev = history[k].new
    BY <2>2 DEF HistoryChain
  <2> HIDE DEF newer
  <2>5. Leads(r, n + 1, history[k].new)
    BY <2>3, <2>4 DEF Leads
  <2> QED BY <1>5, <2>2, <2>5
<1>6. CASE ~(rob[1].dst # None /\ OpOf(rob[1]).dst = r)
  <2>1. ASSUME NEW k \in DOMAIN history, history[k].arch = r
        PROVE  sig.done + 1 <= history[k].sn <=> n + 1 <= history[k].sn
    <3>1. ~Owns(rob[1], history[k])
      <4>1. history[k].new \in Phys
        BY FlightTypes
      <4> QED BY <1>6, <2>1, <4>1 DEF Owns, Phys, None
    <3> QED BY SMTT(60), <1>3, <1>4, <3>1, FlightTypes
  <2>2. Leads(r, n + 1, p)
    BY <2>1, SameSince
  <2> QED BY <1>6, <2>2
<1> QED BY <1>5, <1>6

LEMMA CommitHeadHeld ==
  ASSUME TypeOK, HeldInv, HistoryChain, CommitHead
  PROVE  HeldInv'
<1>1. /\ phase = "insts" /\ status = "Running" /\ rob # <<>> /\ ~rob[1].squashed
      /\ rob' = Tail(rob) /\ sig' = [sig EXCEPT !.done = rob[1].sn]
      /\ commitMap' = IF ~rob[1].runahead /\ rob[1].dst # None
                      THEN [commitMap EXCEPT ![OpOf(rob[1]).dst] = rob[1].dst]
                      ELSE commitMap
      /\ UNCHANGED <<phase, prog, nextSn, renameNow, renameNext, renameMap, history,
                     status, squashIt, squashTo, iewRange, inRunahead, cause,
                     restoreNext, restoreNow>>
  BY DEF CommitHead, UpdatesCommitMap, AtHead, Head0, frontVars, queueVars, mapVars,
         iewVars, modeVars, wireVars
<1>2. /\ FlightOrder /\ HistoryOrder /\ SignalPhases /\ SignalSound /\ WalkReaches
      /\ IewKnows /\ CauseOldest /\ AllGone /\ HistoryMatches /\ CommitMapLeads
      /\ ReadersLead
  BY DEF HeldInv
<1>3. /\ FlightOrder' /\ 1 \in DOMAIN rob
      /\ \A k \in DOMAIN rob' :
           k + 1 \in DOMAIN rob /\ rob'[k] = rob[k + 1] /\ rob[1].sn < rob'[k].sn
      /\ \A k \in DOMAIN rob : k # 1 => k - 1 \in DOMAIN rob' /\ rob'[k - 1] = rob[k]
  BY <1>1, <1>2, TailRob
<1>4. ~sig.squash /\ ~Gone(rob[1]) /\ renameNow = <<>>
  BY <1>1, <1>2 DEF SignalPhases, Gone, CommitPhases
<1>5. /\ sig'.squash = sig.squash /\ sig'.done = rob[1].sn /\ sig'.tail = sig.tail
      /\ rob[1].sn \in Nat /\ sig.done \in Int /\ sig.done < rob[1].sn
  <2>1. sig'.squash = sig.squash /\ sig'.done = rob[1].sn /\ sig'.tail = sig.tail
    BY <1>1 DEF TypeOK
  <2> QED BY <1>2, <1>3, <1>4, <2>1, FlightTypes DEF SignalSound, Oldest
<1>6. \A k \in DOMAIN rob' : Gone(rob[k])' <=> Gone(rob[k + 1])
  BY <1>1, <1>3 DEF Gone
<1>7. ~restoreNext /\ ~restoreNow
  BY <1>2, <1>3, <1>4 DEF AllGone, RestorePending
<1>8. HistoryOrder' /\ SignalPhases'
  BY <1>1, <1>2, <1>4, <1>5 DEF HistoryOrder, SignalPhases
<1>9. CauseOldest'
  BY <1>1, <1>2, <1>3 DEF CauseOldest, Oldest
<1>10. SignalSound'
  BY <1>1, <1>2, <1>3, <1>4, <1>5
     DEF SignalSound, FlightOrder, Older, Youngest, Oldest, IewPhases
<1>11. WalkReaches'
  <2>1. Len(rob') \in Nat /\ squashIt = 0
    BY <1>1, <1>2, SeqFacts DEF WalkReaches, TypeOK
  <2> QED BY <1>1, <2>1 DEF WalkReaches
<1>12. IewKnows'
  <2>1. \A k \in DOMAIN rob' : SquashedForIew(rob[k])' <=> SquashedForIew(rob[k + 1])
    BY <1>1, <1>3 DEF SquashedForIew, Stale
  <2> QED BY <1>1, <1>2, <1>3, <1>6, <2>1 DEF IewKnows, Stale, Oldest
<1>13. AllGone'
  BY <1>1, <1>7 DEF AllGone, RestorePending
<1>14. \A k \in DOMAIN history : Kept(history[k].sn)' =>
         Kept(history[k].sn) /\ rob[1].sn < history[k].sn
  BY SMTT(60), <1>1, <1>4, <1>5, FlightTypes DEF Kept
<1>15. HistoryMatches'
  <2>1. ASSUME NEW k \in DOMAIN history, rob[1].sn < history[k].sn,
               \E j \in DOMAIN rob : ~Gone(rob[j]) /\ Owns(rob[j], history[k])
        PROVE  \E j \in DOMAIN rob' : ~Gone(rob[j])' /\ Owns(rob[j], history[k])'
    <3>1. PICK j \in DOMAIN rob : ~Gone(rob[j]) /\ Owns(rob[j], history[k])
      BY <2>1
    <3>2. j # 1
      BY <1>5, <2>1, <3>1 DEF Owns
    <3>3. j - 1 \in DOMAIN rob' /\ rob'[j - 1] = rob[j]
      BY <1>3, <3>2
    <3>4. ~Gone(rob[j - 1])' /\ Owns(rob[j - 1], history[k])'
      BY <1>1, <3>1, <3>3 DEF Gone, Owns, OpOf
    <3> QED BY <3>3, <3>4
  <2>2. \A k \in DOMAIN history :
          /\ Owned(renameNow, history[k])' <=> Owned(renameNow, history[k])
          /\ Owned(renameNext, history[k])' <=> Owned(renameNext, history[k])
    BY <1>1 DEF Owned, Owns, OpOf
  <2>3. \A j \in DOMAIN rob' : ~Gone(rob[j])' => Recorded(rob[j])'
    BY <1>1, <1>2, <1>3, <1>6 DEF HistoryMatches, Recorded, Owns, OpOf
  <2>4. /\ \A j \in DOMAIN renameNow : Recorded(renameNow[j])' <=> Recorded(renameNow[j])
        /\ \A j \in DOMAIN renameNext : Recorded(renameNext[j])' <=> Recorded(renameNext[j])
    BY <1>1 DEF Recorded, Owns, OpOf
  <2> QED BY <1>1, <1>2, <1>14, <2>1, <2>2, <2>3, <2>4 DEF HistoryMatches
<1>16. CommitMapLeads'
  <2> SUFFICES ASSUME ~inRunahead', NEW r \in Arch
               PROVE  Leads(r, sig.done + 1, commitMap[r])'
    BY <1>4, <1>5 DEF CommitMapLeads
  <2>1. ~rob[1].runahead
    BY <1>1, <1>2, <1>3, <1>4 DEF IewKnows, SquashedForIew, Stale
  <2>2. PICK n, p, m : n = rob[1].sn /\ p = commitMap[r]
                       /\ m = (IF rob[1].dst # None /\ OpOf(rob[1]).dst = r
                               THEN rob[1].dst ELSE p)
    OBVIOUS
  <2>3. Leads(r, sig.done + 1, p)
    BY <1>1, <1>2, <1>4, <1>7, <2>2 DEF CommitMapLeads, RestorePending
  <2>4. Leads(r, n + 1, m)
    BY <1>1, <2>2, <2>3, CommitMoves
  <2>5. commitMap'[r] = m
    BY <1>1, <2>1, <2>2 DEF TypeOK
  <2> QED BY <1>1, <1>5, <2>2, <2>4, <2>5, SameMapLeads
<1>17. ReadersLead'
  <2>1. ASSUME NEW k \in DOMAIN rob' PROVE ReaderLeads(rob[k])'
    <3>1. Kept(rob[k + 1].sn)
      BY <1>2, <1>3, <1>4 DEF Kept, SignalSound, Oldest
    <3>2. ReaderLeads(rob[k + 1])
      BY <1>2, <1>3, <3>1 DEF ReadersLead
    <3> QED BY <1>1, <1>3, <3>2 DEF ReaderLeads, OpOf, Leads, Since, Arch
  <2>2. /\ \A k \in DOMAIN renameNow : ReaderLeads(renameNow[k])'
        /\ \A k \in DOMAIN renameNext : ReaderLeads(renameNext[k])'
    BY <1>1, <1>2, <1>4, SameFollows, RenameNowReaders, RenameNextReaders DEF ReadersLead
  <2> QED BY <1>1, <1>4, <1>5, <1>7, <2>1, <2>2 DEF ReadersLead, IewPhases, CommitPhases
<1> QED BY <1>3, <1>8, <1>9, <1>10, <1>11, <1>12, <1>13, <1>15, <1>16, <1>17 DEF HeldInv

LEMMA EnterHeld ==
  ASSUME TypeOK, HeldInv, EnterRunahead
  PROVE  HeldInv'
<1>1. /\ phase = "insts" /\ phase' = "update" /\ status = "Running" /\ rob # <<>>
      /\ ~rob[1].squashed /\ inRunahead' = TRUE /\ cause' = rob[1].sn
      /\ renameNext' = SetRunahead(renameNext)
      /\ UNCHANGED <<prog, nextSn, renameNow, renameMap, history, sig, status, squashIt,
                     squashTo, iewRange, commitMap, restoreNext, restoreNow>>
  BY DEF EnterRunahead, LoadAtHead, AtHead, Head0, frontVars, mapVars,
         iewVars, commitVars, wireVars
<1>2. /\ FlightOrder /\ HistoryOrder /\ SignalPhases /\ SignalSound /\ WalkReaches
      /\ IewKnows /\ CauseOldest /\ AllGone /\ HistoryMatches /\ ReadersLead
  BY DEF HeldInv
<1>3. InPlace /\ SameMarks
  BY EnterInPlace
<1>4. /\ DOMAIN rob' = DOMAIN rob /\ Len(rob') = Len(rob)
      /\ \A k \in DOMAIN rob : rob'[k].sn = rob[k].sn /\ rob'[k].squashed = rob[k].squashed
  BY <1>3 DEF InPlace, SameMarks, Evolves
<1>5. /\ DOMAIN renameNext' = DOMAIN renameNext
      /\ \A k \in DOMAIN renameNext :
           /\ Evolves(renameNext[k], renameNext'[k])
           /\ renameNext'[k].squashed = renameNext[k].squashed
  BY <1>1, RunaheadInst DEF TypeOK
<1>6. /\ Follows(rob, rob') /\ Follows(renameNow, renameNow')
      /\ Follows(renameNext, renameNext')
  BY <1>1, <1>3, <1>5, InPlaceFollows, SameFollows DEF Follows
<1>7. \A k \in DOMAIN renameNext : renameNext'[k].sn = renameNext[k].sn
  BY <1>5 DEF Evolves
<1>8. ~sig.squash /\ renameNow = <<>> /\ 1 \in DOMAIN rob /\ ~Gone(rob[1])
      /\ DOMAIN renameNow = {}
  BY <1>1, <1>2, FlightTypes DEF SignalPhases, Gone, CommitPhases
<1>9. ~restoreNext /\ ~restoreNow
  BY <1>2, <1>8 DEF AllGone, RestorePending
<1>10. \A k \in DOMAIN rob : Gone(rob[k])' <=> Gone(rob[k])
  BY <1>1, <1>4 DEF Gone
<1>11. FlightOrder'
  BY <1>1, <1>2, <1>6, FlightFrame
<1>12. HistoryOrder'
  BY <1>1, <1>2 DEF HistoryOrder
<1>13. SignalPhases'
  BY <1>1, <1>2, <1>8 DEF SignalPhases, IewPhases, CommitPhases
<1>14. SignalSound'
  BY <1>1, <1>2, <1>4, <1>5, <1>7, <1>8 DEF SignalSound, Oldest, IewPhases
<1>15. WalkReaches'
  BY <1>1, <1>2, <1>4 DEF WalkReaches
<1>16. IewKnows'
  <2>1. \A k \in DOMAIN rob : SquashedForIew(rob[k])' => SquashedForIew(rob[k])
    BY <1>1, <1>4 DEF SquashedForIew, Stale
  <2> QED BY <1>1, <1>2, <1>4, <1>5, <1>7, <1>10, <2>1 DEF IewKnows, Stale, Oldest
<1>17. CauseOldest'
  <2>1. rob[1].sn \in Nat /\ rob[1].sn < nextSn
    BY <1>2, <1>8, FlightTypes DEF FlightOrder, Youngest
  <2>2. \A k \in DOMAIN rob : rob[1].sn - 1 < rob[k].sn
    <3> TAKE k \in DOMAIN rob
    <3>1. k = 1 \/ 1 < k
      BY SeqFacts DEF TypeOK
    <3>2. k = 1 \/ rob[1].sn < rob[k].sn
      BY <1>2, <1>8, <3>1 DEF FlightOrder, AgeOrder
    <3> QED BY <2>1, <3>2, FlightTypes
  <2>3. \A k \in DOMAIN renameNext : rob[1].sn - 1 < renameNext[k].sn
    <3> TAKE k \in DOMAIN renameNext
    <3>1. rob[1].sn < renameNext[k].sn
      BY <1>2, <1>8 DEF FlightOrder, Older
    <3> QED BY <2>1, <3>1, FlightTypes
  <2> QED BY <1>1, <1>4, <1>5, <1>7, <1>8, <2>1, <2>2, <2>3 DEF CauseOldest, Oldest
<1>18. AllGone'
  BY <1>1, <1>9 DEF AllGone, RestorePending
<1>19. HistoryMatches'
  <2>1. \A k \in DOMAIN history : Kept(history[k].sn)' => Kept(history[k].sn)
    BY <1>1 DEF Kept
  <2> QED BY <1>1, <1>2, <1>6, <1>10, <2>1, MatchesFrame
<1>20. CommitMapLeads'
  BY <1>1 DEF CommitMapLeads
<1>21. ReadersLead'
  <2>1. ASSUME NEW k \in DOMAIN rob PROVE ReaderLeads(rob[k])'
    <3>1. Kept(rob[k].sn)
      BY <1>2, <1>8 DEF Kept, SignalSound, Oldest
    <3> QED BY <1>1, <1>2, <1>6, <3>1, RobReaders DEF ReadersLead
  <2>2. \A k \in DOMAIN renameNext : ReaderLeads(renameNext[k])'
    BY <1>1, <1>2, <1>6, <1>8, RenameNextReaders DEF ReadersLead
  <2> QED BY <1>1, <1>4, <1>5, <1>8, <1>9, <2>1, <2>2 DEF ReadersLead, IewPhases, CommitPhases
<1> QED BY <1>11, <1>12, <1>13, <1>14, <1>15, <1>16, <1>17, <1>18, <1>19, <1>20, <1>21 DEF HeldInv

LEMMA EndTickHeld ==
  ASSUME TypeOK, HeldInv, EndTick
  PROVE  HeldInv'
<1>1. /\ phase = "update" /\ phase' = "events"
      /\ restoreNow' = restoreNext /\ restoreNext' = FALSE
      /\ renameNow' = renameNext /\ renameNext' = <<>>
      /\ UNCHANGED <<prog, nextSn, sig, status, squashIt, squashTo, iewRange,
                     inRunahead, cause>>
  BY DEF EndTick, frontVars, iewVars, modeVars
<1>2. /\ FlightOrder /\ HistoryOrder /\ SignalPhases /\ SignalSound /\ WalkReaches
      /\ IewKnows /\ CauseOldest /\ AllGone /\ HistoryMatches /\ CommitMapLeads
      /\ ReadersLead
  BY DEF HeldInv
<1>3. InPlace /\ SameMode /\ SameMarks
  BY EndTickInPlace
<1>4. /\ DOMAIN rob' = DOMAIN rob /\ Len(rob') = Len(rob)
      /\ \A k \in DOMAIN rob :
           /\ rob'[k].sn = rob[k].sn /\ rob'[k].squashed = rob[k].squashed
           /\ rob'[k].runahead = rob[k].runahead
           /\ rob'[k].state = "waiting" => rob[k].state = "waiting"
  BY <1>3 DEF InPlace, SameMode, SameMarks, Evolves
<1>5. renameNow = <<>> /\ DOMAIN renameNow = {} /\ DOMAIN renameNext' = {}
  BY <1>1, <1>2 DEF SignalPhases, CommitPhases
<1>6. /\ restoreNow => history = <<>> /\ history' = <<>> /\ renameMap' = IdentityMap
                       /\ commitMap' = IdentityMap
      /\ ~restoreNow => history' = history /\ renameMap' = renameMap /\ commitMap' = commitMap
  <2>1. restoreNow => history = <<>>
    BY <1>1, <1>2 DEF AllGone
  <2>2. CASE restoreNow
    BY <2>1, <2>2 DEF EndTick, RestoreCheckpointState
  <2>3. CASE ~restoreNow
    BY <2>3 DEF EndTick, mapVars
  <2> QED BY <2>2, <2>3
<1>7. history' = history /\ (rob' = <<>> <=> rob = <<>>)
  <2>1. history' = history
    BY <1>6
  <2> QED BY <1>3, <1>4, <2>1, SeqFacts DEF InPlace, TypeOK
<1>8. \A k \in DOMAIN rob : Gone(rob[k])' <=> Gone(rob[k])
  BY <1>1, <1>4 DEF Gone
<1>9. FlightOrder'
  BY <1>1, <1>2, <1>4, <1>5 DEF FlightOrder, AgeOrder, Older, Youngest, Oldest
<1>10. HistoryOrder' /\ CauseOldest'
  BY <1>1, <1>2, <1>4, <1>5, <1>7 DEF HistoryOrder, CauseOldest, Oldest
<1>11. SignalPhases'
  BY <1>1, <1>2 DEF SignalPhases, IewPhases, CommitPhases
<1>12. SignalSound'
  BY <1>1, <1>2, <1>4, <1>5, <1>7 DEF SignalSound, Oldest, IewPhases
<1>13. WalkReaches'
  BY <1>1, <1>2, <1>4 DEF WalkReaches
<1>14. IewKnows'
  <2>1. \A k \in DOMAIN rob : SquashedForIew(rob[k])' <=> SquashedForIew(rob[k])
    BY <1>1, <1>4 DEF SquashedForIew, Stale
  <2> QED BY <1>1, <1>2, <1>4, <1>5, <1>8, <2>1 DEF IewKnows, Stale, Oldest
<1>15. AllGone'
  <2>1. RestorePending' => restoreNext /\ RestorePending
    BY <1>1 DEF RestorePending
  <2> QED BY <1>1, <1>2, <1>4, <1>7, <1>8, <2>1 DEF AllGone, Oldest, IewPhases, CommitPhases
<1>16. HistoryMatches'
  <2>1. Follows(rob, rob')
    BY <1>3, InPlaceFollows
  <2>2. \A j \in DOMAIN rob :
          /\ \A k \in DOMAIN history : Owns(rob[j], history[k])' <=> Owns(rob[j], history[k])
          /\ Recorded(rob[j])' <=> Recorded(rob[j])
    BY <1>1, <1>7, <2>1, RobRecorded
  <2>3. \A k \in DOMAIN history :
          /\ ~Owned(renameNow, history[k])
          /\ Owned(renameNow, history[k])' <=> Owned(renameNext, history[k])
    BY <1>1, <1>5, <1>7 DEF Owned, Owns, OpOf
  <2>4. \A j \in DOMAIN renameNext : Recorded(renameNow[j])' <=> Recorded(renameNext[j])
    BY <1>1, <1>7 DEF Recorded, Owns, OpOf
  <2>5. \A k \in DOMAIN history : Kept(history[k].sn)' => Kept(history[k].sn)
    BY <1>1, <1>7 DEF Kept
  <2>6. ASSUME NEW k \in DOMAIN history, Kept(history[k].sn)
        PROVE  \/ \E j \in DOMAIN rob' : ~Gone(rob[j])' /\ Owns(rob[j], history[k])'
               \/ status' = "Running" /\ Owned(renameNow, history[k])'
    <3>1. \/ \E j \in DOMAIN rob : ~Gone(rob[j]) /\ Owns(rob[j], history[k])
          \/ status = "Running" /\ Owned(renameNext, history[k])
      BY <1>2, <2>3, <2>6 DEF HistoryMatches
    <3> QED BY <1>1, <1>4, <1>8, <2>2, <2>3, <3>1
  <2>7. /\ \A j \in DOMAIN rob' : ~Gone(rob[j])' => Recorded(rob[j])'
        /\ status' = "Running" => \A j \in DOMAIN renameNow' : Recorded(renameNow[j])'
    BY <1>1, <1>2, <1>4, <1>8, <2>2, <2>4 DEF HistoryMatches
  <2> QED BY <1>5, <1>7, <2>5, <2>6, <2>7 DEF HistoryMatches
<1>17. CommitMapLeads'
  <2>1. CASE restoreNow
    <3>1. ASSUME NEW r \in Arch PROVE renameMap'[r] = r /\ commitMap'[r] = r
      BY <1>6, <2>1, <3>1 DEF IdentityMap
    <3>2. DOMAIN history' = {}
      BY <1>6, <2>1
    <3> QED BY <3>1, <3>2 DEF CommitMapLeads, Leads, Since
  <2>2. CASE ~restoreNow
    BY <1>1, <1>2, <1>6, <2>2, CommitMapFrame DEF RestorePending
  <2> QED BY <2>1, <2>2
<1>18. ReadersLead'
  <2>1. CASE restoreNow
    <3>1. /\ \A k \in DOMAIN rob : rob'[k].state # "waiting"
          /\ renameNext = <<>>
      BY <1>1, <1>2, <1>4, <2>1 DEF ReadersLead, AllGone, CommitPhases
    <3>2. DOMAIN renameNow' = {}
      BY <1>1, <3>1
    <3> QED BY <1>1, <1>4, <1>5, <3>1, <3>2 DEF ReadersLead, ReaderLeads, IewPhases, CommitPhases
  <2>2. CASE ~restoreNow
    <3>1. Follows(rob, rob')
      BY <1>3, InPlaceFollows
    <3>2. \A k \in DOMAIN rob : ReaderLeads(rob[k]) => ReaderLeads(rob[k])'
      BY <1>1, <1>6, <2>2, <3>1, RobReaders
    <3>3. \A k \in DOMAIN rob : Kept(rob[k].sn)' => Kept(rob[k].sn)
      BY <1>1, <1>4 DEF Kept
    <3>4. ~sig.squash => \A k \in DOMAIN renameNext : ReaderLeads(renameNow[k])'
      BY <1>1, <1>2, <1>6, <2>2 DEF ReadersLead, ReaderLeads, OpOf, Leads, Since, Arch
    <3> QED BY <1>1, <1>2, <1>4, <1>5, <3>2, <3>3, <3>4
            DEF ReadersLead, IewPhases, CommitPhases
  <2> QED BY <2>1, <2>2
<1> QED BY <1>9, <1>10, <1>11, <1>12, <1>13, <1>14, <1>15, <1>16, <1>17, <1>18 DEF HeldInv

-----------------------------------------------------------------------------
(* Rename and dispatch.                                                     *)

LEMMA DispatchHeld ==
  ASSUME TypeOK, HeldInv, DispatchInst
  PROVE  HeldInv'
<1>1. /\ phase = "dispatch" /\ ~sig.squash /\ renameNow # <<>>
      /\ rob' = Append(rob, Dispatched(Head(renameNow)))
      /\ renameNow' = Tail(renameNow)
      /\ UNCHANGED <<phase, prog, nextSn, renameNext, renameMap, history, sig,
                     status, squashIt, squashTo, iewRange, inRunahead, cause,
                     commitMap, restoreNext, restoreNow>>
  BY DEF DispatchInst, frontVars, mapVars, iewVars, commitVars, modeVars, wireVars
<1>2. /\ FlightOrder /\ HistoryOrder /\ SignalPhases /\ SignalSound /\ WalkReaches
      /\ IewKnows /\ CauseOldest /\ AllGone /\ HistoryMatches /\ CommitMapLeads
      /\ ReadersLead
  BY DEF HeldInv
<1>3. status = "Running" /\ ~restoreNow /\ ~restoreNext
  BY <1>1, <1>2 DEF SignalPhases, AllGone, TypeOK
<1>4. PICK i \in RegInst, e \in RegInst : i = renameNow[1] /\ e = Dispatched(i)
        /\ Evolves(i, e) /\ e.runahead = i.runahead /\ e.squashed = i.squashed
        /\ e.state = i.state
  <2>1. renameNow[1] \in RegInst
    BY <1>1, SeqFacts DEF TypeOK
  <2> QED BY <2>1, DispatchedInst
<1>a. PICK n : n = Len(rob) + 1
  OBVIOUS
<1>5. /\ n \in DOMAIN rob' /\ rob'[n] = e /\ DOMAIN rob' = DOMAIN rob \cup {n}
      /\ \A k \in DOMAIN rob : rob'[k] = rob[k] /\ k < n
      /\ Len(rob') \in Nat /\ n \in Nat /\ \A k \in DOMAIN rob' : k \in Nat /\ k <= n
  <2>1. Head(renameNow) = renameNow[1]
    BY <1>1, SeqFacts DEF TypeOK
  <2>2. rob \in Seq(RegInst)
    BY DEF TypeOK
  <2> QED BY <1>1, <1>4, <1>a, <2>1, <2>2, SeqFacts
<1>6. /\ 1 \in DOMAIN renameNow
      /\ \A k \in DOMAIN renameNow' :
           k + 1 \in DOMAIN renameNow /\ renameNow'[k] = renameNow[k + 1] /\ 1 < k + 1
      /\ \A k \in DOMAIN renameNow : k # 1 =>
           k - 1 \in DOMAIN renameNow' /\ renameNow'[k - 1] = renameNow[k]
      /\ \A j, k \in DOMAIN renameNow' : j < k => j + 1 < k + 1
  <2>1. /\ Len(renameNow) \in Nat /\ DOMAIN renameNow = 1..Len(renameNow)
        /\ 1 \in DOMAIN renameNow /\ DOMAIN renameNow' = 1..(Len(renameNow) - 1)
        /\ \A k \in 1..(Len(renameNow) - 1) : renameNow'[k] = renameNow[k + 1]
    BY <1>1, SeqFacts DEF TypeOK
  <2>2. \A k \in DOMAIN renameNow : k # 1 => k - 1 \in 1..(Len(renameNow) - 1)
    BY <2>1
  <2>3. \A k \in DOMAIN renameNow : k # 1 => renameNow'[k - 1] = renameNow[k]
    BY <2>1, <2>2
  <2> QED BY <2>1, <2>2, <2>3
<1>7. /\ e.sn = i.sn /\ e.dst = i.dst /\ e.src = i.src /\ e.pos = i.pos
  BY <1>4 DEF Evolves
<1>8. /\ e.sn < nextSn /\ 0 < e.sn /\ sig.done < e.sn
      /\ \A k \in DOMAIN rob : rob[k].sn < e.sn
      /\ \A k \in DOMAIN renameNow' : e.sn < renameNow'[k].sn
      /\ \A k \in DOMAIN renameNext : e.sn < renameNext[k].sn
  BY <1>1, <1>2, <1>4, <1>6, <1>7
     DEF FlightOrder, AgeOrder, Older, Youngest, Oldest, SignalSound
<1>9. FlightOrder'
  <2>1. AgeOrder(rob)'
    <3> SUFFICES ASSUME NEW j \in DOMAIN rob', NEW k \in DOMAIN rob', j < k
                 PROVE  rob'[j].sn < rob'[k].sn
      BY DEF AgeOrder
    <3>1. j \in DOMAIN rob
      BY <1>5
    <3> QED BY <1>2, <1>5, <1>8, <3>1 DEF FlightOrder, AgeOrder
  <2>2. AgeOrder(renameNow)' /\ AgeOrder(renameNext)'
    BY <1>1, <1>2, <1>6 DEF FlightOrder, AgeOrder
  <2>3. Older(rob, renameNow)' /\ Older(rob, renameNext)' /\ Older(renameNow, renameNext)'
    BY <1>1, <1>2, <1>5, <1>6, <1>8 DEF FlightOrder, Older
  <2>4. /\ Youngest(rob, nextSn)' /\ Youngest(renameNow, nextSn)' /\ Youngest(renameNext, nextSn)'
        /\ Oldest(rob, 0)' /\ Oldest(renameNow, 0)' /\ Oldest(renameNext, 0)'
    BY <1>1, <1>2, <1>5, <1>6, <1>8 DEF FlightOrder, Youngest, Oldest
  <2> QED BY <2>1, <2>2, <2>3, <2>4 DEF FlightOrder
<1>10. HistoryOrder' /\ SignalPhases'
  BY <1>1, <1>2, <1>3 DEF HistoryOrder, SignalPhases, IewPhases, CommitPhases
<1>11. SignalSound'
  BY <1>1, <1>2, <1>5, <1>6, <1>8 DEF SignalSound, Oldest, IewPhases, Kept
<1>12. WalkReaches'
  BY <1>1, <1>2, <1>3, <1>5 DEF WalkReaches
<1>13. \A k \in DOMAIN rob : Gone(rob[k])' <=> Gone(rob[k])
  BY <1>1, <1>5 DEF Gone
<1>14. ~Gone(rob[n])' /\ ~SquashedForIew(rob[n])'
  <2>1. ~i.squashed /\ ~Stale(i) /\ iewRange.hi < i.sn
    BY <1>2, <1>3, <1>4, <1>6 DEF IewKnows, Oldest
  <2>2. ~(i.sn <= iewRange.hi)
    BY <1>4, <2>1, InstFields DEF TypeOK
  <2> QED BY <1>1, <1>3, <1>4, <1>5, <1>7, <2>1, <2>2 DEF Gone, SquashedForIew, Stale
<1>15. IewKnows'
  <2>1. \A k \in DOMAIN rob : SquashedForIew(rob[k])' <=> SquashedForIew(rob[k])
    BY <1>1, <1>5 DEF SquashedForIew, Stale
  <2> QED BY <1>1, <1>2, <1>5, <1>6, <1>13, <1>14, <2>1 DEF IewKnows, Stale, Oldest
<1>16. CauseOldest'
  BY <1>1, <1>2, <1>4, <1>5, <1>6, <1>7 DEF CauseOldest, Oldest
<1>17. AllGone'
  BY <1>1, <1>3 DEF AllGone, RestorePending
<1>18. HistoryMatches'
  <2>1. ASSUME NEW k \in DOMAIN history,
               \E j \in DOMAIN rob : ~Gone(rob[j]) /\ Owns(rob[j], history[k])
        PROVE  \E j \in DOMAIN rob' : ~Gone(rob[j])' /\ Owns(rob[j], history[k])'
    BY <1>1, <1>5, <1>13, <2>1 DEF Owns, OpOf
  <2>2. ASSUME NEW k \in DOMAIN history, Owned(renameNow, history[k])
        PROVE  \/ \E j \in DOMAIN rob' : ~Gone(rob[j])' /\ Owns(rob[j], history[k])'
               \/ Owned(renameNow, history[k])'
    <3>1. PICK j \in DOMAIN renameNow : Owns(renameNow[j], history[k])
      BY <2>2 DEF Owned
    <3>2. CASE j = 1
      <4>1. Owns(rob[n], history[k])'
        BY <1>1, <1>4, <1>5, <1>7, <3>1, <3>2 DEF Owns, OpOf
      <4> QED BY <1>5, <1>14, <4>1
    <3>3. CASE j # 1
      <4>1. j - 1 \in DOMAIN renameNow' /\ renameNow'[j - 1] = renameNow[j]
        BY <1>6, <3>3
      <4>2. Owns(renameNow[j - 1], history[k])'
        BY <1>1, <3>1, <4>1 DEF Owns, OpOf
      <4> QED BY <4>1, <4>2 DEF Owned
    <3> QED BY <3>2, <3>3
  <2>3. \A k \in DOMAIN history :
          Owned(renameNext, history[k])' <=> Owned(renameNext, history[k])
    BY <1>1 DEF Owned, Owns, OpOf
  <2>4. \A k \in DOMAIN history : Kept(history[k].sn)' <=> Kept(history[k].sn)
    BY <1>1 DEF Kept
  <2>5. \A j \in DOMAIN rob : Recorded(rob[j])' <=> Recorded(rob[j])
    BY <1>1, <1>5 DEF Recorded, Owns, OpOf
  <2>6. Recorded(rob[n])'
    <3>1. Recorded(renameNow[1])
      BY <1>2, <1>3, <1>6 DEF HistoryMatches
    <3> QED BY <1>1, <1>4, <1>5, <1>7, <3>1 DEF Recorded, Owns, OpOf
  <2>7. /\ \A j \in DOMAIN renameNow' : Recorded(renameNow[j])' <=> Recorded(renameNow[j + 1])
        /\ \A j \in DOMAIN renameNext : Recorded(renameNext[j])' <=> Recorded(renameNext[j])
    BY <1>1, <1>6 DEF Recorded, Owns, OpOf
  <2>8. /\ \A j \in DOMAIN rob' : ~Gone(rob[j])' => Recorded(rob[j])'
        /\ \A j \in DOMAIN renameNow' : Recorded(renameNow[j])'
        /\ \A j \in DOMAIN renameNext' : Recorded(renameNext[j])'
    BY <1>1, <1>2, <1>3, <1>5, <1>6, <1>13, <2>5, <2>6, <2>7 DEF HistoryMatches
  <2>9. ASSUME NEW k \in DOMAIN history, Kept(history[k].sn)
        PROVE  \/ \E j \in DOMAIN rob' : ~Gone(rob[j])' /\ Owns(rob[j], history[k])'
               \/ status' = "Running"
                  /\ (Owned(renameNow, history[k])' \/ Owned(renameNext, history[k])')
    BY <1>1, <1>2, <1>3, <2>1, <2>2, <2>3, <2>9 DEF HistoryMatches
  <2> QED BY <1>1, <2>4, <2>8, <2>9 DEF HistoryMatches
<1>19. CommitMapLeads'
  BY <1>1, <1>2, CommitMapFrame DEF RestorePending
<1>20. ReadersLead'
  <2>1. ASSUME NEW k \in DOMAIN rob PROVE ReaderLeads(rob[k])'
    <3>1. Kept(rob[k].sn)
      BY <1>1, <1>2 DEF Kept, SignalSound, Oldest
    <3>2. ReaderLeads(rob[k])
      BY <1>2, <3>1 DEF ReadersLead
    <3>3. PICK r, sn, p, o : r = OpOf(rob[k]).src /\ sn = rob[k].sn /\ p = rob[k].src
                             /\ o = rob[k].state
      OBVIOUS
    <3>4. o = "waiting" /\ p # None => r \in Arch /\ Leads(r, sn, p)'
      BY <1>1, <3>2, <3>3, SameMapLeads DEF ReaderLeads
    <3>5. /\ rob'[k].state = o /\ rob'[k].src = p /\ rob'[k].sn = sn
          /\ prog'[rob'[k].pos].src = r
      BY <1>1, <1>5, <3>3 DEF OpOf
    <3> QED BY <3>4, <3>5 DEF ReaderLeads, OpOf, Arch
  <2>2. ReaderLeads(rob[n])'
    <3>1. ReaderLeads(renameNow[1])
      BY <1>1, <1>2, <1>6 DEF ReadersLead
    <3>2. PICK r, sn, p, o : r = OpOf(i).src /\ sn = i.sn /\ p = i.src /\ o = i.state
      OBVIOUS
    <3>3. o = "waiting" /\ p # None => r \in Arch /\ Leads(r, sn, p)'
      BY <1>1, <1>4, <3>1, <3>2, SameMapLeads DEF ReaderLeads
    <3>4. /\ rob'[n].state = o /\ rob'[n].src = p /\ rob'[n].sn = sn
          /\ prog'[rob'[n].pos].src = r
      BY <1>1, <1>4, <1>5, <3>2 DEF OpOf, Evolves
    <3> QED BY <3>3, <3>4 DEF ReaderLeads, OpOf, Arch
  <2>3. ASSUME NEW k \in DOMAIN renameNow' PROVE ReaderLeads(renameNow[k])'
    <3>1. ReaderLeads(renameNow[k + 1])
      BY <1>1, <1>2, <1>6 DEF ReadersLead
    <3>2. PICK i1 : i1 = renameNow[k + 1]
      OBVIOUS
    <3>3. PICK r, sn, p : r = OpOf(i1).src /\ sn = i1.sn /\ p = i1.src
      OBVIOUS
    <3>4. i1.state = "waiting" /\ p # None => r \in Arch /\ Leads(r, sn, p)'
      BY <1>1, <3>1, <3>2, <3>3, SameMapLeads DEF ReaderLeads
    <3>5. renameNow'[k] = i1 /\ prog'[i1.pos].src = r
      BY <1>1, <1>6, <3>2, <3>3 DEF OpOf
    <3> QED BY <3>3, <3>4, <3>5 DEF ReaderLeads, OpOf, Arch
  <2>4. \A k \in DOMAIN renameNext : ReaderLeads(renameNext[k])'
    BY <1>1, <1>2, SameFollows, RenameNextReaders DEF ReadersLead
  <2> QED BY <1>1, <1>3, <1>5, <2>1, <2>2, <2>3, <2>4 DEF ReadersLead
<1> QED BY <1>9, <1>10, <1>11, <1>12, <1>15, <1>16, <1>17, <1>18, <1>19, <1>20 DEF HeldInv

\* The instruction that is renamed, its history entry and the mapping it reads.
LEMMA RenameEffect ==
  ASSUME TypeOK, HeldInv, RenameInst
  PROVE  \E e \in RegInst :
           /\ renameNext' = Append(renameNext, e)
           /\ e.sn = nextSn /\ ~e.squashed /\ e.runahead = inRunahead
           /\ \A k \in DOMAIN history : \E m \in DOMAIN history' : history'[m] = history[k]
           /\ \A m \in DOMAIN history' :
                \/ \E k \in DOMAIN history : history'[m] = history[k]
                \/ Owns(e, history'[m])
           /\ e.dst # None => \E m \in DOMAIN history' : Owns(e, history'[m])
           /\ \A j, k \in DOMAIN history' : j < k => history'[k].sn < history'[j].sn
           /\ \A k \in DOMAIN history' : 0 < history'[k].sn /\ history'[k].sn < nextSn + 1
           /\ \A r \in Arch, sn \in Int : \A p :
                sn <= nextSn /\ Leads(r, sn, p) => Leads(r, sn, p)'
           /\ e.src # None => OpOf(e).src \in Arch /\ Leads(OpOf(e).src, e.sn, e.src)'
<1> DEFINE op == prog[fetchPos]
           d == IF op.dst = None THEN None ELSE Head(freeList)
<1>1. /\ fetchPos \in DOMAIN prog /\ (op.dst # None => freeList # <<>>)
      /\ prog' = prog
  BY DEF RenameInst, CanRename
<1>2. d \in Phys \cup {None} /\ nextSn \in Nat \ {0}
      /\ freeList \in Seq(Phys) /\ (op.dst # None => Head(freeList) \in Phys)
      /\ history \in Seq(HistoryEntry)
  BY <1>1, SeqFacts DEF TypeOK
<1>3. LET i == Renamed(op, d)
      IN  /\ i \in RegInst /\ i.sn = nextSn /\ i.pos = fetchPos /\ i.dst = d
          /\ i.src = (IF op.src = None THEN None ELSE renameMap[op.src])
          /\ ~i.squashed /\ i.runahead = inRunahead
          /\ op \in Op
  BY <1>1, <1>2, RenamedType
<1>4. PICK e \in RegInst :
        /\ e = Renamed(op, d) /\ e.sn = nextSn /\ e.pos = fetchPos /\ e.dst = d
        /\ e.src = (IF op.src = None THEN None ELSE renameMap[op.src])
        /\ ~e.squashed /\ e.runahead = inRunahead
  BY <1>3
<1>5. op.dst \in Arch \cup {None} /\ op.src \in Arch \cup {None} /\ OpOf(e) = op
  BY <1>3, <1>4 DEF Op, OpOf
<1>6. /\ op.dst = None => UNCHANGED mapVars
      /\ op.dst # None => RenameDest(op.dst)
      /\ renameNext' = Append(renameNext, Renamed(op, d))
  BY DEF RenameInst
<1>7. HistoryOrder
  BY DEF HeldInv
<1>8. /\ \A k \in DOMAIN history : 0 < history[k].sn /\ history[k].sn < nextSn
      /\ \A j, k \in DOMAIN history : j < k => history[k].sn < history[j].sn
      /\ \A k \in DOMAIN history : history[k].sn \in Nat
  BY <1>7, FlightTypes DEF HistoryOrder
<1>9. ASSUME NEW r \in Arch, NEW sn \in Int, NEW p, sn <= nextSn, Leads(r, sn, p)
      PROVE  Leads(r, sn, p)'
  <2>1. CASE op.dst = None
    <3>1. UNCHANGED <<history, renameMap>>
      BY <1>6, <2>1 DEF mapVars
    <3> QED BY <1>9, <3>1, SameMapLeads
  <2>2. CASE op.dst # None
    <3>1. PICK arch \in Arch : arch = op.dst
      BY <1>5, <2>2
    <3>2. RenameDest(arch) /\ freeList # <<>>
      BY <1>1, <1>6, <2>2, <3>1
    <3> QED BY <1>9, <3>2, RenameLeads
  <2> QED BY <2>1, <2>2
<1>10. ASSUME e.src # None
       PROVE  OpOf(e).src \in Arch /\ Leads(OpOf(e).src, e.sn, e.src)'
  <2>1. PICK r \in Arch : r = op.src
    BY <1>4, <1>5, <1>10
  <2>2. PICK p, sn : p = renameMap[r] /\ sn = nextSn
    OBVIOUS
  <2>3. Leads(r, sn, p)
    BY <1>2, <1>8, <2>2, NewLeads
  <2>4. Leads(r, sn, p)'
    BY <1>2, <1>9, <2>2, <2>3
  <2>5. e.sn = sn /\ e.src = p
    BY <1>4, <1>10, <2>1, <2>2
  <2>6. OpOf(e)' = OpOf(e)
    BY <1>1 DEF OpOf
  <2> QED BY <1>5, <2>1, <2>4, <2>5, <2>6
<1>11. CASE op.dst = None
  <2>1. history' = history
    BY <1>6, <1>11 DEF mapVars
  <2>2. e.dst = None
    BY <1>4, <1>11
  <2> HIDE DEF op, d
  <2> QED BY <1>2, <1>4, <1>6, <1>8, <1>9, <1>10, <2>1, <2>2
<1>12. CASE op.dst # None
  <2>1. PICK h \in HistoryEntry :
          h = [sn |-> nextSn, arch |-> op.dst, new |-> Head(freeList),
               prev |-> renameMap[op.dst]]
    BY <1>2, <1>5, <1>12 DEF HistoryEntry, TypeOK
  <2>2. h.sn = nextSn /\ h.arch = op.dst /\ h.new = Head(freeList)
    BY <2>1
  <2>3. history' = <<h>> \o history
    BY <1>6, <1>12, <2>1 DEF RenameDest
  <2>4. Owns(e, h)
    BY <1>4, <1>5, <1>12, <2>2 DEF Owns
  <2> HIDE DEF op, d
  <2>5. /\ Len(history) \in Nat /\ DOMAIN history = 1..Len(history)
        /\ DOMAIN history' = 1..(Len(history) + 1) /\ history'[1] = h
        /\ \A k \in DOMAIN history : history'[k + 1] = history[k] /\ k + 1 \in DOMAIN history'
        /\ \A k \in DOMAIN history' : k # 1 => k - 1 \in DOMAIN history /\ history'[k] = history[k - 1]
    BY <1>2, <2>3
  <2>6. \A k \in DOMAIN history : \E m \in DOMAIN history' : history'[m] = history[k]
    BY <2>5
  <2>7. \A m \in DOMAIN history' :
          \/ \E k \in DOMAIN history : history'[m] = history[k]
          \/ Owns(e, history'[m])
    BY <2>4, <2>5
  <2>8. \E m \in DOMAIN history' : Owns(e, history'[m])
    BY <2>4, <2>5
  <2>9. ASSUME NEW j \in DOMAIN history', NEW k \in DOMAIN history', j < k
        PROVE  history'[k].sn < history'[j].sn
    <3>1. k # 1 /\ k \in Nat /\ j \in Nat
      BY <2>5, <2>9
    <3>2. k - 1 \in DOMAIN history /\ history'[k] = history[k - 1]
      BY <2>5, <3>1
    <3>3. CASE j = 1
      BY <1>8, <2>2, <2>5, <3>2, <3>3
    <3>4. CASE j # 1
      <4>1. j - 1 \in DOMAIN history /\ history'[j] = history[j - 1] /\ j - 1 < k - 1
        BY <2>5, <2>9, <3>1, <3>4
      <4> QED BY <1>8, <3>2, <4>1
    <3> QED BY <3>3, <3>4
  <2>10. ASSUME NEW k \in DOMAIN history'
         PROVE  0 < history'[k].sn /\ history'[k].sn < nextSn + 1
    <3>1. CASE k = 1
      BY <1>2, <2>2, <2>5, <3>1
    <3>2. CASE k # 1
      <4>1. k - 1 \in DOMAIN history /\ history'[k] = history[k - 1]
        BY <2>5, <3>2
      <4> QED BY <1>2, <1>8, <4>1
    <3> QED BY <3>1, <3>2
  <2> QED BY <1>4, <1>6, <1>9, <1>10, <2>6, <2>7, <2>8, <2>9, <2>10
<1> QED BY <1>11, <1>12

LEMMA RenameHeld ==
  ASSUME TypeOK, HeldInv, RenameInst
  PROVE  HeldInv'
<1>1. /\ phase = "rename" /\ ~sig.squash /\ status # "ROBSquashing"
      /\ nextSn' = nextSn + 1
      /\ UNCHANGED <<phase, prog, renameNow, rob, squashIt, squashTo, iewRange, sig,
                     status, inRunahead, cause, commitMap, restoreNext, restoreNow>>
  BY DEF RenameInst, robVars, iewVars, commitVars, modeVars, wireVars
<1>2. /\ FlightOrder /\ HistoryOrder /\ SignalPhases /\ SignalSound /\ WalkReaches
      /\ IewKnows /\ CauseOldest /\ AllGone /\ HistoryMatches /\ CommitMapLeads
      /\ ReadersLead
  BY DEF HeldInv
<1>3. status = "Running" /\ ~restoreNow /\ ~restoreNext
  BY <1>1, <1>2 DEF AllGone, TypeOK
<1>4. PICK e \in RegInst :
        /\ renameNext' = Append(renameNext, e)
        /\ e.sn = nextSn /\ ~e.squashed /\ e.runahead = inRunahead
        /\ \A k \in DOMAIN history : \E m \in DOMAIN history' : history'[m] = history[k]
        /\ \A m \in DOMAIN history' :
             \/ \E k \in DOMAIN history : history'[m] = history[k]
             \/ Owns(e, history'[m])
        /\ e.dst # None => \E m \in DOMAIN history' : Owns(e, history'[m])
        /\ \A j, k \in DOMAIN history' : j < k => history'[k].sn < history'[j].sn
        /\ \A k \in DOMAIN history' : 0 < history'[k].sn /\ history'[k].sn < nextSn + 1
        /\ \A r \in Arch, sn \in Int : \A p :
             sn <= nextSn /\ Leads(r, sn, p) => Leads(r, sn, p)'
        /\ e.src # None => OpOf(e).src \in Arch /\ Leads(OpOf(e).src, e.sn, e.src)'
  BY RenameEffect
<1>5. PICK n : n = Len(renameNext) + 1
  OBVIOUS
<1>6. /\ n \in DOMAIN renameNext' /\ renameNext'[n] = e
      /\ DOMAIN renameNext' = DOMAIN renameNext \cup {n}
      /\ \A k \in DOMAIN renameNext : renameNext'[k] = renameNext[k] /\ k < n
      /\ n \in Nat /\ \A k \in DOMAIN renameNext' : k \in Nat /\ k <= n
  <2>1. renameNext' = Append(renameNext, e) /\ renameNext \in Seq(RegInst)
    BY <1>4 DEF TypeOK
  <2> QED BY <1>5, <2>1, SeqFacts
<1>7. /\ nextSn \in Nat \ {0}
      /\ \A k \in DOMAIN rob : rob[k].sn \in Nat /\ rob[k].sn < nextSn
      /\ \A k \in DOMAIN renameNow : renameNow[k].sn \in Nat /\ renameNow[k].sn < nextSn
      /\ \A k \in DOMAIN renameNext : renameNext[k].sn \in Nat /\ renameNext[k].sn < nextSn
  <2>1. nextSn \in Nat \ {0}
    BY DEF TypeOK
  <2> QED BY <1>2, <2>1, FlightTypes DEF FlightOrder, Youngest
<1>8. FlightOrder'
  <2>1. AgeOrder(renameNext)'
    <3> SUFFICES ASSUME NEW j \in DOMAIN renameNext', NEW k \in DOMAIN renameNext', j < k
                 PROVE  renameNext'[j].sn < renameNext'[k].sn
      BY DEF AgeOrder
    <3>1. j \in DOMAIN renameNext
      BY <1>6
    <3> QED BY <1>2, <1>4, <1>6, <1>7, <3>1 DEF FlightOrder, AgeOrder
  <2>2. AgeOrder(rob)' /\ AgeOrder(renameNow)' /\ Older(rob, renameNow)'
    BY <1>1, <1>2 DEF FlightOrder, AgeOrder, Older
  <2>3. Older(rob, renameNext)' /\ Older(renameNow, renameNext)'
    BY <1>1, <1>2, <1>4, <1>6, <1>7 DEF FlightOrder, Older
  <2>4. Youngest(rob, nextSn)' /\ Youngest(renameNow, nextSn)' /\ Youngest(renameNext, nextSn)'
    BY <1>1, <1>4, <1>6, <1>7 DEF Youngest
  <2>5. Oldest(rob, 0)' /\ Oldest(renameNow, 0)' /\ Oldest(renameNext, 0)'
    BY <1>1, <1>2, <1>4, <1>6, <1>7 DEF FlightOrder, Oldest
  <2> QED BY <2>1, <2>2, <2>3, <2>4, <2>5 DEF FlightOrder
<1>9. HistoryOrder'
  BY <1>1, <1>4 DEF HistoryOrder
<1>10. SignalPhases'
  BY <1>1, <1>2 DEF SignalPhases, IewPhases, CommitPhases
<1>11. SignalSound'
  <2>1. /\ sig.done < nextSn /\ sig.tail < nextSn /\ iewRange.hi < nextSn
        /\ Oldest(rob, sig.done) /\ Oldest(renameNow, sig.done) /\ Oldest(renameNext, sig.done)
    BY <1>1, <1>2 DEF SignalSound
  <2>2. sig.done < nextSn + 1 /\ sig.tail < nextSn + 1 /\ iewRange.hi < nextSn + 1
    BY <1>7, <2>1, FlightTypes
  <2> QED BY <1>1, <1>4, <1>6, <2>1, <2>2 DEF SignalSound, Oldest, IewPhases
<1>12. WalkReaches'
  BY <1>1, <1>2 DEF WalkReaches
<1>13. \A k \in DOMAIN rob : Gone(rob[k])' <=> Gone(rob[k])
  BY <1>1 DEF Gone
<1>14. IewKnows'
  <2>1. \A k \in DOMAIN rob : SquashedForIew(rob[k])' <=> SquashedForIew(rob[k])
    BY <1>1 DEF SquashedForIew, Stale
  <2>2. iewRange.hi < nextSn
    BY <1>2 DEF SignalSound
  <2>3. ~Stale(renameNext[n])'
    BY <1>1, <1>4, <1>6 DEF Stale
  <2> QED BY <1>1, <1>2, <1>3, <1>4, <1>6, <1>13, <2>1, <2>2, <2>3
          DEF IewKnows, Stale, Oldest
<1>15. CauseOldest'
  <2>1. inRunahead => cause < nextSn + 1 /\ cause - 1 < nextSn
    BY <1>2, <1>7, FlightTypes DEF CauseOldest
  <2> QED BY <1>1, <1>2, <1>4, <1>6, <2>1 DEF CauseOldest, Oldest
<1>16. AllGone'
  BY <1>1, <1>3 DEF AllGone, RestorePending
<1>17. HistoryMatches'
  <2>1. ASSUME NEW m \in DOMAIN history', Kept(history[m].sn)'
        PROVE  \/ \E j \in DOMAIN rob' : ~Gone(rob[j])' /\ Owns(rob[j], history[m])'
               \/ Owned(renameNow, history[m])' \/ Owned(renameNext, history[m])'
    <3>1. CASE Owns(e, history'[m])
      <4>1. Owns(renameNext[n], history[m])'
        BY <1>1, <1>6, <3>1 DEF Owns, OpOf
      <4> QED BY <1>6, <4>1 DEF Owned
    <3>2. CASE \E k \in DOMAIN history : history'[m] = history[k]
      <4>1. PICK k \in DOMAIN history : history'[m] = history[k]
        BY <3>2
      <4>2. Kept(history[k].sn)
        BY <1>1, <2>1, <4>1 DEF Kept
      <4>3. CASE \E j \in DOMAIN rob : ~Gone(rob[j]) /\ Owns(rob[j], history[k])
        BY <1>1, <1>13, <4>1, <4>3 DEF Owns, OpOf
      <4>4. CASE Owned(renameNow, history[k])
        BY <1>1, <4>1, <4>4 DEF Owned, Owns, OpOf
      <4>5. CASE Owned(renameNext, history[k])
        BY <1>1, <1>6, <4>1, <4>5 DEF Owned, Owns, OpOf
      <4> QED BY <1>2, <4>2, <4>3, <4>4, <4>5 DEF HistoryMatches
    <3> QED BY <1>4, <3>1, <3>2
  <2>2. \A j \in DOMAIN rob : Recorded(rob[j]) => Recorded(rob[j])'
    <3> SUFFICES ASSUME NEW j \in DOMAIN rob, Recorded(rob[j]), rob[j].dst # None
                 PROVE  \E m \in DOMAIN history' : Owns(rob[j], history[m])'
      BY <1>1 DEF Recorded
    <3>1. PICK k \in DOMAIN history : Owns(rob[j], history[k])
      BY DEF Recorded
    <3>2. PICK m \in DOMAIN history' : history'[m] = history[k]
      BY <1>4
    <3> QED BY <1>1, <3>1, <3>2 DEF Owns, OpOf
  <2>3. \A j \in DOMAIN renameNow : Recorded(renameNow[j]) => Recorded(renameNow[j])'
    <3> SUFFICES ASSUME NEW j \in DOMAIN renameNow, Recorded(renameNow[j]),
                        renameNow[j].dst # None
                 PROVE  \E m \in DOMAIN history' : Owns(renameNow[j], history[m])'
      BY <1>1 DEF Recorded
    <3>1. PICK k \in DOMAIN history : Owns(renameNow[j], history[k])
      BY DEF Recorded
    <3>2. PICK m \in DOMAIN history' : history'[m] = history[k]
      BY <1>4
    <3> QED BY <1>1, <3>1, <3>2 DEF Owns, OpOf
  <2>4. \A j \in DOMAIN renameNext : Recorded(renameNext[j]) => Recorded(renameNext[j])'
    <3> SUFFICES ASSUME NEW j \in DOMAIN renameNext, Recorded(renameNext[j]),
                        renameNext[j].dst # None
                 PROVE  \E m \in DOMAIN history' : Owns(renameNext[j], history[m])'
      BY <1>6 DEF Recorded
    <3>1. PICK k \in DOMAIN history : Owns(renameNext[j], history[k])
      BY DEF Recorded
    <3>2. PICK m \in DOMAIN history' : history'[m] = history[k]
      BY <1>4
    <3> QED BY <1>1, <1>6, <3>1, <3>2 DEF Owns, OpOf
  <2>5. Recorded(renameNext[n])'
    <3> SUFFICES ASSUME e.dst # None
                 PROVE  \E m \in DOMAIN history' : Owns(renameNext[n], history[m])'
      BY <1>6 DEF Recorded
    <3>1. PICK m \in DOMAIN history' : Owns(e, history'[m])
      BY <1>4
    <3> QED BY <1>1, <1>6, <3>1 DEF Owns, OpOf
  <2>6. /\ \A j \in DOMAIN rob' : ~Gone(rob[j])' => Recorded(rob[j])'
        /\ \A j \in DOMAIN renameNow' : Recorded(renameNow[j])'
        /\ \A j \in DOMAIN renameNext' : Recorded(renameNext[j])'
    BY <1>1, <1>2, <1>3, <1>6, <1>13, <2>2, <2>3, <2>4, <2>5 DEF HistoryMatches
  <2> QED BY <1>1, <1>3, <2>1, <2>6 DEF HistoryMatches
<1>18. CommitMapLeads'
  <2> SUFFICES ASSUME ~inRunahead', NEW r \in Arch
               PROVE  Leads(r, sig.done + 1, commitMap[r])'
    BY <1>1 DEF CommitMapLeads
  <2>1. PICK sn, p : sn = sig.done + 1 /\ p = commitMap[r]
    OBVIOUS
  <2>2. Leads(r, sn, p)
    BY <1>1, <1>2, <1>3, <2>1 DEF CommitMapLeads, RestorePending
  <2>3. sn \in Int /\ sn <= nextSn
    BY <1>2, <1>7, <2>1, FlightTypes DEF SignalSound
  <2>4. Leads(r, sn, p)'
    BY <1>4, <2>2, <2>3
  <2> QED BY <1>1, <2>1, <2>4
\* What is in flight keeps its mapping.
<1>19. ASSUME NEW i \in RegInst, i.sn < nextSn, ReaderLeads(i)
       PROVE  ReaderLeads(i)'
  <2> SUFFICES ASSUME i.state = "waiting", i.src # None
               PROVE  OpOf(i)'.src \in Arch /\ Leads(OpOf(i).src, i.sn, i.src)'
    BY DEF ReaderLeads, Arch
  <2>1. PICK r, sn, p : r = OpOf(i).src /\ sn = i.sn /\ p = i.src
    OBVIOUS
  <2>2. r \in Arch /\ Leads(r, sn, p)
    BY <1>19, <2>1 DEF ReaderLeads
  <2>3. sn \in Int /\ sn <= nextSn
    BY <1>7, <1>19, <2>1, InstFields
  <2>4. Leads(r, sn, p)'
    BY <1>4, <2>2, <2>3
  <2> QED BY <1>1, <2>1, <2>2, <2>4 DEF OpOf, Arch
<1>20. ReadersLead'
  <2>1. ASSUME NEW k \in DOMAIN rob PROVE ReaderLeads(rob[k])'
    <3>1. Kept(rob[k].sn)
      BY <1>1, <1>2 DEF Kept, SignalSound, Oldest
    <3>2. PICK i \in RegInst : i = rob[k]
      BY FlightTypes
    <3>3. ReaderLeads(i) /\ i.sn < nextSn
      BY <1>2, <1>7, <3>1, <3>2 DEF ReadersLead
    <3>4. ReaderLeads(i)'
      BY <1>19, <3>3
    <3> QED BY <1>1, <3>2, <3>4
  <2>2. ASSUME NEW k \in DOMAIN renameNow PROVE ReaderLeads(renameNow[k])'
    <3>1. PICK i \in RegInst : i = renameNow[k]
      BY FlightTypes
    <3>2. ReaderLeads(i) /\ i.sn < nextSn
      BY <1>1, <1>2, <1>7, <3>1 DEF ReadersLead
    <3>3. ReaderLeads(i)'
      BY <1>19, <3>2
    <3> QED BY <1>1, <3>1, <3>3
  <2>3. ASSUME NEW k \in DOMAIN renameNext PROVE ReaderLeads(renameNext[k])'
    <3>1. PICK i \in RegInst : i = renameNext[k]
      BY FlightTypes
    <3>2. ReaderLeads(i) /\ i.sn < nextSn
      BY <1>1, <1>2, <1>7, <3>1 DEF ReadersLead
    <3>3. ReaderLeads(i)'
      BY <1>19, <3>2
    <3> QED BY <1>6, <3>1, <3>3
  <2>4. ReaderLeads(renameNext[n])'
    BY <1>1, <1>4, <1>6 DEF ReaderLeads, OpOf, Leads, Since, Arch
  <2> QED BY <1>1, <1>3, <1>6, <2>1, <2>2, <2>3, <2>4 DEF ReadersLead
<1> QED BY <1>8, <1>9, <1>10, <1>11, <1>12, <1>14, <1>15, <1>16, <1>17, <1>18, <1>20 DEF HeldInv

-----------------------------------------------------------------------------
(* The invariant, and what it is for.                                       *)

LEMMA InitHeld == Init => HeldInv
<1> SUFFICES ASSUME Init PROVE HeldInv
  OBVIOUS
<1> USE DEF Init
<1>1. /\ DOMAIN rob = {} /\ DOMAIN renameNow = {} /\ DOMAIN renameNext = {}
      /\ DOMAIN history = {} /\ Len(rob) = 0
  OBVIOUS
<1>2. sig.squash = FALSE /\ sig.done = 0 /\ sig.tail = 0 /\ iewRange.lo = 0 /\ iewRange.hi = 0
  BY DEF NoSig
<1>3. FlightOrder /\ HistoryOrder
  BY <1>1 DEF FlightOrder, AgeOrder, Older, Youngest, Oldest, HistoryOrder
<1>4. SignalPhases
  BY <1>2 DEF SignalPhases, IewPhases, CommitPhases
<1>5. SignalSound
  BY <1>1, <1>2 DEF SignalSound, Oldest, IewPhases
<1>6. WalkReaches
  BY <1>1 DEF WalkReaches
<1>7. IewKnows /\ CauseOldest
  BY <1>1 DEF IewKnows, CauseOldest, Oldest
<1>8. AllGone
  BY DEF AllGone, RestorePending
<1>9. HistoryMatches
  BY <1>1 DEF HistoryMatches
<1>10. CommitMapLeads
  <2>1. \A r \in Arch : renameMap[r] = commitMap[r]
    OBVIOUS
  <2> QED BY <1>1, <2>1 DEF CommitMapLeads, Leads, Since
<1>11. ReadersLead
  BY <1>1, <1>2 DEF ReadersLead, IewPhases, CommitPhases
<1> QED BY <1>3, <1>4, <1>5, <1>6, <1>7, <1>8, <1>9, <1>10, <1>11 DEF HeldInv

LEMMA HeldStep == TypeOK /\ RegInv /\ HeldInv /\ [Next]_vars => HeldInv'
<1> SUFFICES ASSUME TypeOK, RegInv, HeldInv, [Next]_vars PROVE HeldInv'
  OBVIOUS
<1>1. HistoryChain
  BY DEF RegInv
<1>2. CASE UNCHANGED vars
  <2>1. rob \in Seq(RegInst) /\ rob' = rob
    BY <1>2 DEF vars, robVars, TypeOK
  <2>2. InPlace /\ SameMode /\ SameMarks
    BY <2>1, SameInPlace
  <2>3. Quiet /\ QuietPhase
    BY <1>2, <2>1, <2>2
       DEF vars, frontVars, queueVars, mapVars, robVars, iewVars, commitVars,
           modeVars, wireVars, Quiet, QuietPhase, SameMarks, Gone
  <2> QED BY <2>3, QuietStep
<1>3. CASE Next
  BY <1>1, <1>3, QuietActions, UndoHeld, RenameHeld, FreeHeld, SquashIewHeld,
     DispatchHeld, IewDoneHeld, WalkHeld, SquashFromIewHeld, ExitHeld,
     RetireSquashedHeld, CommitHeadHeld, EnterHeld, EndTickHeld DEF Next
<1> QED BY <1>2, <1>3

\* A set of indexes has a largest.
LEMMA LargestIndex ==
  ASSUME NEW n \in Nat, NEW W \in SUBSET (1..n), W # {}
  PROVE  \E k \in W : \A j \in W : j <= k
<1> DEFINE R == OpToRel(<, Nat)
           T == {n - k : k \in W}
<1>1. T \subseteq Nat /\ T # {}
  <2>1. PICK w \in W : TRUE
    OBVIOUS
  <2>2. n - w \in T
    OBVIOUS
  <2>3. T \subseteq Nat
    OBVIOUS
  <2> HIDE DEF T
  <2> QED BY <2>2, <2>3
<1>2. \E x \in T : \A y \in T : ~(<<y, x>> \in R)
  <2> HIDE DEF T, R
  <2>1. IsWellFoundedOn(R, Nat)
    BY NatLessThanWellFounded DEF R
  <2> QED BY <1>1, <2>1, WFMin
<1>3. PICK x \in T : \A y \in T : ~(<<y, x>> \in R)
  BY <1>2
<1>4. \A y \in T : x <= y
  <2> HIDE DEF T
  <2> TAKE y \in T
  <2>1. x \in Nat /\ y \in Nat /\ ~(<<y, x>> \in R)
    BY <1>1, <1>3
  <2>2. R = {ss \in Nat \X Nat : ss[1] < ss[2]}
    BY DEF OpToRel
  <2>3. ~(y < x)
    BY <2>1, <2>2
  <2>4. x \in Nat /\ y \in Nat
    BY <1>1
  <2> QED BY <2>3, <2>4
<1>5. PICK k \in W : x = n - k
  OBVIOUS
<1>6. \A j \in W : n - k <= n - j
  BY <1>4, <1>5
<1> HIDE DEF T, R
<1>7. \A j \in W : j <= k
  BY <1>6
<1> QED BY <1>7

\* What leads somewhere is mapped or held for an undo.
LEMMA LeadsHeld ==
  ASSUME TypeOK, NEW r \in Arch, NEW sn \in Int, NEW p, Leads(r, sn, p)
  PROVE  p \in Range(renameMap) \cup PrevRegs
<1>1. CASE Since(r, sn) = {}
  <2>1. renameMap[r] = p /\ r \in DOMAIN renameMap
    BY <1>1 DEF Leads, TypeOK
  <2> QED BY <2>1 DEF Range
<1>2. CASE Since(r, sn) # {}
  <2>1. Since(r, sn) \subseteq DOMAIN history /\ DOMAIN history = 1..Len(history)
        /\ Len(history) \in Nat
    BY FlightTypes DEF Since
  <2>2. PICK k \in Since(r, sn) : \A j \in Since(r, sn) : j <= k
    <3>1. Since(r, sn) \in SUBSET (1..Len(history))
      BY <2>1
    <3> QED BY <1>2, <2>1, <3>1, LargestIndex
  <2>3. history[k].prev = p /\ k \in DOMAIN history
    BY <2>1, <2>2 DEF Leads
  <2> QED BY <2>3 DEF PrevRegs
<1> QED BY <1>1, <1>2

\* The register an entry hands out is not what an older place leads to.
LEMMA LeadsElsewhere ==
  ASSUME TypeOK, RegsConserved, HistoryChain, NEW r \in Arch, NEW sn \in Int, NEW p,
         Leads(r, sn, p), NEW h \in DOMAIN history, sn <= history[h].sn
  PROVE  history[h].new # p
<1> DEFINE a == history[h].arch
           newer == {j \in 1..(h - 1) : history[j].arch = a}
           S == Since(r, sn)
<1>1. /\ Len(history) \in Nat /\ DOMAIN history = 1..Len(history) /\ h \in Nat
      /\ a \in Arch /\ renameMap \in [Arch -> Phys]
  BY FlightTypes DEF TypeOK
<1>2. newer \in SUBSET (1..Len(history)) /\ \A j \in newer : j < h /\ j \in DOMAIN history
  BY <1>1
<1>3. S \in SUBSET (1..Len(history)) /\ \A j \in S : j \in DOMAIN history /\ history[j].arch = r
  BY <1>1 DEF Since
<1>4. a = r => h \in S
  BY DEF Since
<1>5. /\ S = {} => renameMap[r] = p
      /\ \A k \in S : (\A j \in S : j <= k) => history[k].prev = p
  BY DEF Leads
<1>6. /\ newer = {} => renameMap[a] = history[h].new
      /\ \A j \in newer : (\A i \in newer : i <= j) => history[j].prev = history[h].new
  BY DEF HistoryChain
<1>7. \A q \in Arch : renameMap[q] \in Range(renameMap)
  BY <1>1 DEF Range
<1>8. \A k \in DOMAIN history : history[k].prev \in PrevRegs
  BY DEF PrevRegs
<1>9. /\ \A q, s \in Arch : renameMap[q] = renameMap[s] => q = s
      /\ \A j, k \in DOMAIN history : history[j].prev = history[k].prev => j = k
      /\ Range(renameMap) \cap PrevRegs = {}
  BY DEF RegsConserved
<1> SUFFICES ASSUME history[h].new = p PROVE FALSE
  OBVIOUS
<1>10. S = {} \/ \E m \in S : \A j \in S : j <= m
  <2> HIDE DEF S
  <2> QED BY <1>1, <1>3, LargestIndex
<1>11. newer = {} \/ \E m \in newer : \A j \in newer : j <= m
  <2> HIDE DEF newer
  <2> QED BY <1>1, <1>2, LargestIndex
<1>12. \A j \in newer : history[j].arch = a
  OBVIOUS
<1> HIDE DEF a, newer, S
<1>13. CASE newer = {} /\ S = {}
  BY <1>1, <1>4, <1>5, <1>6, <1>9, <1>13
<1>14. CASE newer = {} /\ S # {}
  <2>1. PICK m \in S : \A j \in S : j <= m
    BY <1>10, <1>14
  <2> QED BY <1>1, <1>3, <1>5, <1>6, <1>7, <1>8, <1>9, <1>14, <2>1
<1>15. CASE newer # {} /\ S = {}
  <2>1. PICK m \in newer : \A j \in newer : j <= m
    BY <1>11, <1>15
  <2> QED BY <1>1, <1>2, <1>5, <1>6, <1>7, <1>8, <1>9, <1>15, <2>1
<1>16. CASE newer # {} /\ S # {}
  <2>1. PICK m \in S : \A j \in S : j <= m
    BY <1>10, <1>16
  <2>2. PICK n \in newer : \A j \in newer : j <= n
    BY <1>11, <1>16
  <2>3. n = m
    <3>1. m \in DOMAIN history /\ history[m].prev = p
      BY <1>3, <1>5, <2>1
    <3>2. n \in DOMAIN history /\ history[n].prev = history[h].new
      BY <1>2, <1>6, <2>2
    <3>3. history[n].prev = history[m].prev
      BY <3>1, <3>2
    <3> QED BY <1>9, <3>1, <3>2, <3>3
  <2>4. a = r /\ h \in S /\ h <= m /\ n < h
    BY <1>2, <1>3, <1>4, <1>12, <2>1, <2>2, <2>3
  <2> QED BY <1>1, <1>3, <2>1, <2>3, <2>4
<1> QED BY <1>13, <1>14, <1>15, <1>16

LEMMA HeldEnough == TypeOK /\ RegInv /\ HeldInv => RegsHeld
<1> SUFFICES ASSUME TypeOK, RegInv, HeldInv PROVE RegsHeld
  OBVIOUS
<1>1. RegsConserved /\ HistoryChain
  BY DEF RegInv
<1>2. /\ FlightOrder /\ SignalPhases /\ SignalSound /\ AllGone /\ HistoryMatches
      /\ CommitMapLeads /\ ReadersLead
  BY DEF HeldInv
<1>3. CommittedNotFree
  <2> SUFFICES ASSUME ~inRunahead, ~RestorePending, NEW p \in Range(commitMap)
               PROVE  p \notin Range(freeList)
    BY DEF CommittedNotFree
  <2>1. PICK r \in Arch : p = commitMap[r]
    BY DEF Range, TypeOK
  <2>2. PICK sn : sn = IF sig.squash THEN 0 ELSE sig.done + 1
    OBVIOUS
  <2>3. sn \in Int /\ Leads(r, sn, p)
    BY <1>2, <2>1, <2>2, FlightTypes DEF CommitMapLeads
  <2>4. p \in Range(renameMap) \cup PrevRegs
    BY <2>3, LeadsHeld
  <2> QED BY <1>1, <2>4 DEF RegsConserved
<1>4. OneProducer
  <2> SUFFICES ASSUME phase = "dispatch", ~sig.squash, renameNow # <<>>,
                      Head(renameNow).dst # None, NEW k \in DOMAIN rob,
                      rob[k].state = "waiting"
               PROVE  rob[k].src # Head(renameNow).dst
    BY DEF OneProducer
  <2>1. Head(renameNow) = renameNow[1] /\ 1 \in DOMAIN renameNow
    BY SeqFacts DEF TypeOK
  <2>2. status = "Running"
    BY <1>2 DEF SignalPhases, TypeOK
  <2>3. PICK h \in DOMAIN history : Owns(renameNow[1], history[h])
    BY <1>2, <2>1, <2>2 DEF HistoryMatches, Recorded
  <2>4. CASE rob[k].src = None
    BY <2>4
  <2>5. CASE rob[k].src # None
    <3>1. PICK r, sn, p : r = OpOf(rob[k]).src /\ sn = rob[k].sn /\ p = rob[k].src
      OBVIOUS
    <3>2. Kept(rob[k].sn)
      BY <1>2 DEF Kept, SignalSound, Oldest
    <3>3. r \in Arch /\ Leads(r, sn, p)
      BY <1>2, <2>5, <3>1, <3>2 DEF ReadersLead, ReaderLeads
    <3>4. sn \in Int /\ sn <= history[h].sn
      <4>1. rob[k].sn < renameNow[1].sn
        BY <1>2, <2>1 DEF FlightOrder, Older
      <4> QED BY <2>1, <2>3, <3>1, <4>1, FlightTypes DEF Owns
    <3>5. history[h].new # p
      BY <1>1, <3>3, <3>4, LeadsElsewhere
    <3> QED BY <2>1, <2>3, <3>1, <3>5 DEF Owns
  <2> QED BY <2>4, <2>5
<1>5. HistoryEmptyAtRestore
  BY <1>2 DEF HistoryEmptyAtRestore, AllGone
<1> QED BY <1>3, <1>4, <1>5 DEF RegsHeld

\* No register is handed out while something still leads to it: the commit map
\* outside runahead (rename_map.cc, free_list.hh), an instruction that waits in
\* the queue for its former contents (the panic of inst_queue.cc:1420-1429), or
\* an undo pending when the checkpoint is restored (cpu.cc:1840).
THEOREM RegsHeldInvariant == Spec => []RegsHeld
<1>1. Init => TypeOK /\ RegInv /\ HeldInv
  BY InitType, RegInit, InitHeld
<1>2. TypeOK /\ RegInv /\ HeldInv /\ [Next]_vars => (TypeOK /\ RegInv /\ HeldInv)'
  BY TypeStep, RegStep, HeldStep
<1> QED BY <1>1, <1>2, HeldEnough, PTL DEF Spec
=============================================================================
