---------------------------- MODULE IqStepProofs ----------------------------
(***************************************************************************)
(* The steps of RunaheadIq that keep IqInv and add no instruction and      *)
(* write none back: the events between cycles, schedule and execute,       *)
(* retirement, the squashes and the start of a cycle.                      *)
(***************************************************************************)
EXTENDS IqInvariant, SequenceTheorems, FiniteSetTheorems, WellFoundedInduction, TLAPS

-----------------------------------------------------------------------------
(* Sequences without repetition *)

\* What a sequence holds, by its places.
LEMMA SeqBasics ==
  ASSUME NEW S, NEW s \in Seq(S)
  PROVE  /\ Len(s) \in Nat /\ DOMAIN s = 1..Len(s)
         /\ \A i \in DOMAIN s : s[i] \in S /\ s[i] \in Range(s)
         /\ \A x \in Range(s) : \E i \in DOMAIN s : s[i] = x
         /\ Range(s) \subseteq S /\ (s = <<>> <=> Len(s) = 0) /\ (s = <<>> <=> Range(s) = {})
<1>1. Len(s) \in Nat /\ DOMAIN s = 1..Len(s) /\ \A i \in DOMAIN s : s[i] \in S
  BY LenProperties, ElementOfSeq
<1>2. s = <<>> <=> Len(s) = 0
  BY <1>1, EmptySeq
<1>3. Range(s) = {s[i] : i \in DOMAIN s}
  BY DEF Range
<1>4. s = <<>> <=> Range(s) = {}
  <2>1. s = <<>> => DOMAIN s = {}
    BY <1>1, <1>2
  <2>2. s # <<>> => s[1] \in Range(s)
    BY <1>1, <1>2, <1>3
  <2> QED BY <1>3, <2>1, <2>2
<1> QED BY <1>1, <1>2, <1>3, <1>4

LEMMA AppendSeq ==
  ASSUME NEW S, NEW s \in Seq(S), NEW e \in S
  PROVE  /\ Append(s, e) \in Seq(S) /\ Append(s, e) # <<>>
         /\ Range(Append(s, e)) = Range(s) \cup {e}
         /\ Distinct(s) /\ e \notin Range(s) => Distinct(Append(s, e))
<1> DEFINE t == Append(s, e)
<1>1. /\ t \in Seq(S) /\ t # <<>> /\ Len(t) = Len(s) + 1 /\ t[Len(s) + 1] = e
      /\ \A i \in 1..Len(s) : t[i] = s[i]
  BY AppendProperties
<1>2. Len(s) \in Nat /\ DOMAIN s = 1..Len(s) /\ DOMAIN t = 1..(Len(s) + 1)
  BY <1>1, SeqBasics
<1> HIDE DEF t
<1>3. Range(t) = Range(s) \cup {e}
  <2>1. \A i \in DOMAIN t : t[i] \in Range(s) \cup {e}
    BY <1>1, <1>2 DEF Range
  <2>2. \A x \in Range(s) : \E i \in DOMAIN t : t[i] = x
    BY <1>1, <1>2 DEF Range
  <2>3. \E i \in DOMAIN t : t[i] = e
    BY <1>1, <1>2
  <2> QED BY <2>1, <2>2, <2>3 DEF Range
<1>4. ASSUME Distinct(s), e \notin Range(s) PROVE Distinct(t)
  <2>1. \A i \in 1..Len(s) : s[i] # e
    BY <1>2, <1>4 DEF Range
  <2> QED BY <1>1, <1>2, <1>4, <2>1 DEF Distinct
<1> QED BY <1>1, <1>3, <1>4 DEF t

LEMMA AppendAscending ==
  ASSUME NEW s \in Seq(Nat), NEW e \in Nat, Ascending(s), \A x \in Range(s) : x < e
  PROVE  Ascending(Append(s, e))
<1> DEFINE t == Append(s, e)
<1>1. /\ t \in Seq(Nat) /\ Len(t) = Len(s) + 1 /\ t[Len(s) + 1] = e
      /\ \A i \in 1..Len(s) : t[i] = s[i]
  BY AppendProperties
<1>2. Len(s) \in Nat /\ DOMAIN s = 1..Len(s) /\ DOMAIN t = 1..(Len(s) + 1)
  BY <1>1, SeqBasics
<1> HIDE DEF t
<1>3. \A i \in 1..Len(s) : t[i] < e
  BY <1>1, <1>2 DEF Range
<1>4. \A i, j \in 1..Len(s) : i < j => t[i] < t[j]
  BY <1>1, <1>2 DEF Ascending
<1>5. Ascending(t)
  <2> SUFFICES ASSUME NEW i \in DOMAIN t, NEW j \in DOMAIN t, i < j PROVE t[i] < t[j]
    BY DEF Ascending
  <2>1. CASE j = Len(s) + 1
    <3>1. i \in 1..Len(s)
      BY <1>2, <2>1
    <3> QED BY <1>1, <1>3, <2>1, <3>1
  <2>2. CASE j # Len(s) + 1
    <3>1. i \in 1..Len(s) /\ j \in 1..Len(s)
      BY <1>2, <2>2
    <3> QED BY <1>4, <3>1
  <2> QED BY <2>1, <2>2
<1> QED BY <1>5 DEF t

LEMMA TailSeq ==
  ASSUME NEW S, NEW s \in Seq(S), s # <<>>
  PROVE  /\ Tail(s) \in Seq(S) /\ Head(s) \in S /\ Head(s) = s[1]
         /\ Range(s) = Range(Tail(s)) \cup {Head(s)}
         /\ Distinct(s) => Distinct(Tail(s)) /\ Head(s) \notin Range(Tail(s))
<1> DEFINE t == Tail(s)
<1>1. /\ t \in Seq(S) /\ Head(s) \in S /\ Len(t) = Len(s) - 1
      /\ \A i \in 1..Len(t) : t[i] = s[i + 1]
  BY HeadTailProperties
<1>2. /\ Len(s) \in Nat /\ Len(s) # 0 /\ DOMAIN s = 1..Len(s) /\ DOMAIN t = 1..(Len(s) - 1)
      /\ Head(s) = s[1]
  BY <1>1, SeqBasics
<1> HIDE DEF t
<1>3. Range(s) = Range(t) \cup {Head(s)}
  <2>1. \A i \in DOMAIN t : t[i] \in Range(s)
    BY <1>1, <1>2 DEF Range
  <2>2. \A i \in DOMAIN s : i # 1 => i - 1 \in DOMAIN t /\ t[i - 1] = s[i]
    BY <1>1, <1>2
  <2>3. \A i \in DOMAIN s : s[i] \in Range(t) \cup {Head(s)}
    BY <1>2, <2>2 DEF Range
  <2>4. Head(s) \in Range(s)
    BY <1>2 DEF Range
  <2> QED BY <2>1, <2>3, <2>4 DEF Range
<1>4. ASSUME Distinct(s) PROVE Distinct(t) /\ Head(s) \notin Range(t)
  <2>1. \A i \in DOMAIN t : i + 1 \in DOMAIN s /\ t[i] = s[i + 1] /\ i + 1 # 1 /\ 1 \in DOMAIN s
    BY <1>1, <1>2
  <2>2. \A i \in DOMAIN t : t[i] # s[1]
    BY <1>4, <2>1 DEF Distinct
  <2>3. Distinct(t)
    BY <1>2, <1>4, <2>1 DEF Distinct
  <2> QED BY <1>2, <2>2, <2>3 DEF Range
<1> QED BY <1>1, <1>2, <1>3, <1>4 DEF t

LEMMA TailAscending ==
  ASSUME NEW s \in Seq(Nat), s # <<>>, Ascending(s)
  PROVE  Ascending(Tail(s)) /\ \A x \in Range(Tail(s)) : Head(s) < x
<1> DEFINE t == Tail(s)
<1>1. /\ t \in Seq(Nat) /\ Len(t) = Len(s) - 1 /\ Head(s) = s[1]
      /\ \A i \in 1..Len(t) : t[i] = s[i + 1]
  BY HeadTailProperties, TailSeq
<1>2. Len(s) \in Nat /\ Len(s) # 0 /\ DOMAIN s = 1..Len(s) /\ DOMAIN t = 1..(Len(s) - 1)
  BY <1>1, SeqBasics
<1> HIDE DEF t
<1>3. \A i \in DOMAIN t : i + 1 \in DOMAIN s /\ t[i] = s[i + 1] /\ 1 < i + 1 /\ 1 \in DOMAIN s
  BY <1>1, <1>2
<1>4. \A i \in DOMAIN t : Head(s) < t[i]
  BY <1>1, <1>3 DEF Ascending
<1>5. Ascending(t)
  BY <1>2, <1>3 DEF Ascending
<1> QED BY <1>4, <1>5 DEF t, Range

LEMMA ConcatSeq ==
  ASSUME NEW S, NEW s \in Seq(S), NEW t \in Seq(S)
  PROVE  /\ s \o t \in Seq(S) /\ Range(s \o t) = Range(s) \cup Range(t)
         /\ Distinct(s) /\ Distinct(t) /\ Range(s) \cap Range(t) = {} => Distinct(s \o t)
<1> DEFINE u == s \o t
<1>1. /\ u \in Seq(S) /\ Len(u) = Len(s) + Len(t)
      /\ \A i \in 1..(Len(s) + Len(t)) : u[i] = IF i <= Len(s) THEN s[i] ELSE t[i - Len(s)]
      /\ Range(u) = Range(s) \cup Range(t)
  BY ConcatProperties, RangeConcatenation
<1>2. /\ Len(s) \in Nat /\ Len(t) \in Nat
      /\ DOMAIN s = 1..Len(s) /\ DOMAIN t = 1..Len(t) /\ DOMAIN u = 1..(Len(s) + Len(t))
  BY <1>1, SeqBasics
<1> HIDE DEF u
<1>3. ASSUME Distinct(s), Distinct(t), Range(s) \cap Range(t) = {} PROVE Distinct(u)
  <2>1. \A i \in DOMAIN s, j \in DOMAIN t : s[i] # t[j]
    BY <1>3 DEF Range
  <2> SUFFICES ASSUME NEW i \in DOMAIN u, NEW j \in DOMAIN u, u[i] = u[j], i < j PROVE FALSE
    BY <1>2 DEF Distinct
  <2>2. CASE j <= Len(s)
    <3>1. i \in DOMAIN s /\ j \in DOMAIN s /\ u[i] = s[i] /\ u[j] = s[j]
      BY <1>1, <1>2, <2>2
    <3>2. i = j
      BY <1>3, <3>1 DEF Distinct
    <3> QED BY <1>2, <3>2
  <2>3. CASE i <= Len(s) /\ ~(j <= Len(s))
    <3>1. i \in DOMAIN s /\ j - Len(s) \in DOMAIN t /\ u[i] = s[i] /\ u[j] = t[j - Len(s)]
      BY <1>1, <1>2, <2>3
    <3> QED BY <2>1, <3>1
  <2>4. CASE ~(i <= Len(s))
    <3>1. /\ i - Len(s) \in DOMAIN t /\ j - Len(s) \in DOMAIN t /\ i - Len(s) # j - Len(s)
          /\ u[i] = t[i - Len(s)] /\ u[j] = t[j - Len(s)]
      BY <1>1, <1>2, <2>4
    <3> QED BY <1>3, <3>1 DEF Distinct
  <2> QED BY <1>2, <2>2, <2>3, <2>4
<1> QED BY <1>1, <1>3 DEF u

LEMMA RemoveAtElements ==
  ASSUME NEW S, NEW s \in Seq(S), NEW i \in DOMAIN s
  PROVE  /\ RemoveAt(s, i) \in Seq(S) /\ Len(RemoveAt(s, i)) = Len(s) - 1
         /\ \A j \in 1..(Len(s) - 1) : RemoveAt(s, i)[j] = IF j < i THEN s[j] ELSE s[j + 1]
<1>1. Len(s) \in Nat /\ DOMAIN s = 1..Len(s) /\ \A j \in 1..Len(s) : s[j] \in S
  BY SeqBasics
<1> DEFINE a == SubSeq(s, 1, i - 1)
           b == SubSeq(s, i + 1, Len(s))
<1>2. /\ a \in Seq(S) /\ Len(a) = i - 1 /\ \A j \in 1..(i - 1) : a[j] = s[j]
  <2>1. i - 1 \in Int /\ \A j \in 1..(i - 1) : s[j] \in S
    BY <1>1
  <2>2. /\ a \in Seq(S) /\ Len(a) = IF 1 <= i - 1 THEN i - 1 - 1 + 1 ELSE 0
        /\ \A j \in 1..(i - 1 - 1 + 1) : a[j] = s[1 + j - 1]
    BY <2>1, SubSeqProperties
  <2> HIDE DEF a
  <2> QED BY <1>1, <2>2
<1>3. /\ b \in Seq(S) /\ Len(b) = Len(s) - i /\ \A j \in 1..(Len(s) - i) : b[j] = s[j + i]
  <2>1. i + 1 \in Int /\ Len(s) \in Int /\ \A j \in (i + 1)..Len(s) : s[j] \in S
    BY <1>1
  <2>2. /\ b \in Seq(S) /\ Len(b) = IF i + 1 <= Len(s) THEN Len(s) - (i + 1) + 1 ELSE 0
        /\ \A j \in 1..(Len(s) - (i + 1) + 1) : b[j] = s[(i + 1) + j - 1]
    BY <2>1, SubSeqProperties
  <2> HIDE DEF b
  <2>3. Len(b) = Len(s) - i
    BY <1>1, <2>2
  <2>4. ASSUME NEW j \in 1..(Len(s) - i) PROVE b[j] = s[j + i]
    <3>1. j \in 1..(Len(s) - (i + 1) + 1) /\ (i + 1) + j - 1 = j + i
      BY <1>1
    <3>2. b[j] = s[(i + 1) + j - 1]
      BY <2>2, <3>1
    <3> QED BY <3>1, <3>2
  <2> QED BY <2>2, <2>3, <2>4
<1>4. RemoveAt(s, i) = a \o b
  BY DEF RemoveAt
<1> HIDE DEF a, b
<1>5. /\ a \o b \in Seq(S) /\ Len(a \o b) = Len(a) + Len(b)
      /\ \A j \in 1..(Len(a) + Len(b)) : (a \o b)[j] = IF j <= Len(a) THEN a[j] ELSE b[j - Len(a)]
  BY <1>2, <1>3, ConcatProperties
<1>6. ASSUME NEW j \in 1..(Len(s) - 1)
      PROVE  (a \o b)[j] = IF j < i THEN s[j] ELSE s[j + 1]
  <2>1. (a \o b)[j] = IF j <= Len(a) THEN a[j] ELSE b[j - Len(a)]
    BY <1>1, <1>2, <1>3, <1>5
  <2>2. CASE j < i
    BY <1>1, <1>2, <2>1, <2>2
  <2>3. CASE ~(j < i)
    <3>1. j - (i - 1) \in 1..(Len(s) - i) /\ (j - (i - 1)) + i = j + 1
      BY <1>1, <2>3
    <3>2. b[j - (i - 1)] = s[j + 1]
      BY <1>3, <3>1
    <3> QED BY <1>1, <1>2, <2>1, <2>3, <3>2
  <2> QED BY <2>2, <2>3
<1> QED BY <1>1, <1>2, <1>3, <1>4, <1>5, <1>6

LEMMA RemoveAtSeq ==
  ASSUME NEW S, NEW s \in Seq(S), NEW i \in DOMAIN s
  PROVE  /\ RemoveAt(s, i) \in Seq(S) /\ Range(s) = Range(RemoveAt(s, i)) \cup {s[i]}
         /\ Distinct(s) => Distinct(RemoveAt(s, i)) /\ s[i] \notin Range(RemoveAt(s, i))
<1> DEFINE t == RemoveAt(s, i)
<1>1. /\ t \in Seq(S) /\ Len(t) = Len(s) - 1
      /\ \A j \in 1..(Len(s) - 1) : t[j] = IF j < i THEN s[j] ELSE s[j + 1]
  BY RemoveAtElements
<1>2. Len(s) \in Nat /\ DOMAIN s = 1..Len(s) /\ DOMAIN t = 1..(Len(s) - 1)
  BY <1>1, SeqBasics
<1> HIDE DEF t
<1>3. \A j \in DOMAIN t : \E m \in DOMAIN s : m # i /\ t[j] = s[m] /\ m = IF j < i THEN j ELSE j + 1
  <2> TAKE j \in DOMAIN t
  <2>1. CASE j < i
    BY <1>1, <1>2, <2>1
  <2>2. CASE ~(j < i)
    BY <1>1, <1>2, <2>2
  <2> QED BY <2>1, <2>2
<1>4. \A m \in DOMAIN s : m # i => \E j \in DOMAIN t : t[j] = s[m]
  <2> TAKE m \in DOMAIN s
  <2>1. CASE m < i
    <3>1. m \in DOMAIN t /\ t[m] = s[m]
      BY <1>1, <1>2, <2>1
    <3> QED BY <3>1
  <2>2. CASE i < m
    <3>1. m - 1 \in DOMAIN t /\ t[m - 1] = s[m]
      BY <1>1, <1>2, <2>2
    <3> QED BY <3>1
  <2> QED BY <1>2, <2>1, <2>2
<1>5. Range(s) = Range(t) \cup {s[i]}
  <2>1. \A j \in DOMAIN t : t[j] \in Range(s)
    BY <1>3 DEF Range
  <2>2. \A m \in DOMAIN s : s[m] \in Range(t) \cup {s[i]}
    <3> TAKE m \in DOMAIN s
    <3>1. CASE m = i
      BY <3>1
    <3>2. CASE m # i
      BY <1>4, <3>2 DEF Range
    <3> QED BY <3>1, <3>2
  <2> QED BY <2>1, <2>2 DEF Range
<1>6. ASSUME Distinct(s) PROVE Distinct(t) /\ s[i] \notin Range(t)
  <2>1. \A j \in DOMAIN t : t[j] # s[i]
    BY <1>3, <1>6 DEF Distinct
  <2>2. ASSUME NEW j \in DOMAIN t, NEW k \in DOMAIN t, t[j] = t[k] PROVE j = k
    <3>1. PICK m \in DOMAIN s : t[j] = s[m] /\ m = IF j < i THEN j ELSE j + 1
      BY <1>3
    <3>2. PICK n \in DOMAIN s : t[k] = s[n] /\ n = IF k < i THEN k ELSE k + 1
      BY <1>3
    <3>3. m = n
      BY <1>6, <2>2, <3>1, <3>2 DEF Distinct
    <3> QED BY <1>2, <3>1, <3>2, <3>3
  <2> QED BY <2>1, <2>2 DEF Distinct, Range
<1> QED BY <1>1, <1>5, <1>6 DEF t

-----------------------------------------------------------------------------
(* Sequences in order *)

LEMMA InsertAtElements ==
  ASSUME NEW S, NEW s \in Seq(S), NEW e \in S, NEW i \in 1..(Len(s) + 1)
  PROVE  /\ InsertAt(s, i, e) \in Seq(S) /\ Len(InsertAt(s, i, e)) = Len(s) + 1
         /\ \A j \in 1..(Len(s) + 1) :
              InsertAt(s, i, e)[j] = IF j < i THEN s[j] ELSE IF j = i THEN e ELSE s[j - 1]
<1>1. Len(s) \in Nat /\ DOMAIN s = 1..Len(s) /\ \A j \in 1..Len(s) : s[j] \in S
  BY SeqBasics
<1> DEFINE a == SubSeq(s, 1, i - 1)
           b == SubSeq(s, i, Len(s))
<1>2. /\ a \in Seq(S) /\ Len(a) = i - 1 /\ \A j \in 1..(i - 1) : a[j] = s[j]
  <2>1. i - 1 \in Int /\ \A j \in 1..(i - 1) : s[j] \in S
    BY <1>1
  <2>2. /\ a \in Seq(S) /\ Len(a) = IF 1 <= i - 1 THEN i - 1 - 1 + 1 ELSE 0
        /\ \A j \in 1..(i - 1 - 1 + 1) : a[j] = s[1 + j - 1]
    BY <2>1, SubSeqProperties
  <2> HIDE DEF a
  <2> QED BY <1>1, <2>2
<1>3. /\ b \in Seq(S) /\ Len(b) = Len(s) - i + 1 /\ \A j \in 1..(Len(s) - i + 1) : b[j] = s[i + j - 1]
  <2>1. i \in Int /\ Len(s) \in Int /\ \A j \in i..Len(s) : s[j] \in S
    BY <1>1
  <2>2. /\ b \in Seq(S) /\ Len(b) = IF i <= Len(s) THEN Len(s) - i + 1 ELSE 0
        /\ \A j \in 1..(Len(s) - i + 1) : b[j] = s[i + j - 1]
    BY <2>1, SubSeqProperties
  <2> HIDE DEF b
  <2> QED BY <1>1, <2>2
<1>4. /\ <<e>> \in Seq(S) /\ Len(<<e>>) = 1 /\ <<e>>[1] = e
  OBVIOUS
<1>5. InsertAt(s, i, e) = a \o <<e>> \o b
  BY DEF InsertAt
<1> DEFINE c == a \o <<e>>
<1>6. /\ c \in Seq(S) /\ Len(c) = i
      /\ \A j \in 1..i : c[j] = IF j < i THEN s[j] ELSE e
  <2> HIDE DEF a
  <2>1. /\ c \in Seq(S) /\ Len(c) = Len(a) + Len(<<e>>)
        /\ \A j \in 1..(Len(a) + Len(<<e>>)) :
             c[j] = IF j <= Len(a) THEN a[j] ELSE <<e>>[j - Len(a)]
    BY <1>2, <1>4, ConcatProperties
  <2> HIDE DEF c
  <2>2. Len(c) = i
    BY <1>1, <1>2, <1>4, <2>1
  <2>3. ASSUME NEW j \in 1..i PROVE c[j] = IF j < i THEN s[j] ELSE e
    <3>1. c[j] = IF j <= i - 1 THEN a[j] ELSE <<e>>[j - (i - 1)]
      BY <1>1, <1>2, <1>4, <2>1
    <3>2. CASE j < i
      BY <1>1, <1>2, <3>1, <3>2
    <3>3. CASE ~(j < i)
      <4>1. j - (i - 1) = 1
        BY <1>1, <3>3
      <4> QED BY <1>1, <1>4, <3>1, <3>3, <4>1
    <3> QED BY <3>2, <3>3
  <2> QED BY <2>1, <2>2, <2>3
<1> HIDE DEF a, b, c
<1>7. /\ c \o b \in Seq(S) /\ Len(c \o b) = Len(c) + Len(b)
      /\ \A j \in 1..(Len(c) + Len(b)) : (c \o b)[j] = IF j <= Len(c) THEN c[j] ELSE b[j - Len(c)]
  BY <1>3, <1>6, ConcatProperties
<1>8. ASSUME NEW j \in 1..(Len(s) + 1)
      PROVE  (c \o b)[j] = IF j < i THEN s[j] ELSE IF j = i THEN e ELSE s[j - 1]
  <2>1. (c \o b)[j] = IF j <= i THEN c[j] ELSE b[j - i]
    BY <1>1, <1>3, <1>6, <1>7
  <2>2. CASE j <= i
    BY <1>1, <1>6, <2>1, <2>2
  <2>3. CASE ~(j <= i)
    <3>1. j - i \in 1..(Len(s) - i + 1) /\ i + (j - i) - 1 = j - 1
      BY <1>1, <2>3
    <3>2. b[j - i] = s[j - 1]
      BY <1>3, <3>1
    <3> QED BY <1>1, <2>1, <2>3, <3>2
  <2> QED BY <2>2, <2>3
<1>9. Len(c \o b) = Len(s) + 1
  BY <1>1, <1>3, <1>6, <1>7
<1> QED BY <1>5, <1>7, <1>8, <1>9 DEF c

LEMMA InsertAtRange ==
  ASSUME NEW S, NEW s \in Seq(S), NEW e \in S, NEW i \in 1..(Len(s) + 1)
  PROVE  /\ InsertAt(s, i, e) \in Seq(S) /\ InsertAt(s, i, e) # <<>>
         /\ Range(InsertAt(s, i, e)) = Range(s) \cup {e}
<1> DEFINE t == InsertAt(s, i, e)
<1>1. /\ t \in Seq(S) /\ Len(t) = Len(s) + 1
      /\ \A j \in 1..(Len(s) + 1) : t[j] = IF j < i THEN s[j] ELSE IF j = i THEN e ELSE s[j - 1]
  BY InsertAtElements
<1>2. Len(s) \in Nat /\ DOMAIN s = 1..Len(s) /\ DOMAIN t = 1..(Len(s) + 1) /\ t # <<>>
  BY <1>1, SeqBasics
<1> HIDE DEF t
<1>3. ASSUME NEW j \in DOMAIN t PROVE t[j] \in Range(s) \cup {e}
  <2>1. CASE j < i
    <3>1. j \in DOMAIN s /\ t[j] = s[j]
      BY <1>1, <1>2, <2>1
    <3> QED BY <3>1 DEF Range
  <2>2. CASE j = i
    BY <1>1, <1>2, <2>2
  <2>3. CASE i < j
    <3>1. j - 1 \in DOMAIN s /\ t[j] = s[j - 1]
      BY <1>1, <1>2, <2>3
    <3> QED BY <3>1 DEF Range
  <2> QED BY <1>2, <2>1, <2>2, <2>3
<1>4. ASSUME NEW j \in DOMAIN s PROVE s[j] \in Range(t)
  <2>1. CASE j < i
    <3>1. j \in DOMAIN t /\ t[j] = s[j]
      BY <1>1, <1>2, <2>1
    <3> QED BY <3>1 DEF Range
  <2>2. CASE ~(j < i)
    <3>1. j + 1 \in DOMAIN t /\ t[j + 1] = s[j]
      BY <1>1, <1>2, <2>2
    <3> QED BY <3>1 DEF Range
  <2> QED BY <2>1, <2>2
<1>5. e \in Range(t)
  <2>1. i \in DOMAIN t /\ t[i] = e
    BY <1>1, <1>2
  <2> QED BY <2>1 DEF Range
<1>6. Range(t) = Range(s) \cup {e}
  BY <1>3, <1>4, <1>5 DEF Range
<1> QED BY <1>1, <1>2, <1>6 DEF t

\* Induction over numbers, stated without an operator: a set of numbers that
\* is not empty has a smallest, which Min picks.
LEMMA SmallestOf ==
  ASSUME NEW W \in SUBSET Nat, W # {}
  PROVE  /\ \E n \in W : \A m \in W : n <= m
         /\ Min(W) \in W /\ \A m \in W : Min(W) <= m
<1> DEFINE R == OpToRel(<, Nat)
<1>1. \E n \in W : \A m \in W : ~(<<m, n>> \in R)
  <2>1. IsWellFoundedOn(R, Nat)
    BY NatLessThanWellFounded
  <2> HIDE DEF R
  <2> QED BY <2>1, WFMin
<1>2. PICK n \in W : \A m \in W : ~(<<m, n>> \in R)
  BY <1>1
<1> HIDE DEF R
<1>3. \A m \in W : n <= m
  <2> TAKE m \in W
  <2>1. n \in Nat /\ m \in Nat /\ ~(<<m, n>> \in R)
    BY <1>2
  <2>2. ~(m < n)
    BY <2>1 DEF R, OpToRel
  <2> QED BY <2>1, <2>2
<1>4. Min(W) \in W /\ \A m \in W : Min(W) <= m
  BY <1>3 DEF Min
<1> QED BY <1>3, <1>4

\* A set of numbers below n has the largest that Max picks.
LEMMA LargestOf ==
  ASSUME NEW n \in Nat, NEW W \in SUBSET (0..n), W # {}
  PROVE  Max(W) \in W /\ \A m \in W : m <= Max(W)
<1> DEFINE T == {n - k : k \in W}
<1>1. \E x \in T : \A y \in T : x <= y
  <2>1. T \in SUBSET Nat
    OBVIOUS
  <2>2. PICK k \in W : TRUE
    OBVIOUS
  <2>3. n - k \in T
    OBVIOUS
  <2> HIDE DEF T
  <2> QED BY <2>1, <2>3, SmallestOf
<1>2. PICK k \in W : \A y \in T : n - k <= y
  BY <1>1
<1>3. \A j \in W : n - k <= n - j
  BY <1>2
<1> HIDE DEF T
<1>4. \A j \in W : k >= j
  BY <1>3
<1>5. Max(W) \in W /\ \A j \in W : Max(W) >= j
  BY <1>4 DEF Max
<1>6. \A j \in W : j \in Nat
  OBVIOUS
<1> QED BY <1>5, <1>6

\* How many come before: in a sequence that is ascending in what f gives of its
\* elements, the first `place` ones have at most x and the others have more.
LEMMA PlaceOf ==
  ASSUME NEW n \in Nat, NEW f \in [1..n -> Nat], NEW x \in Nat,
         \A i, j \in 1..n : i < j => f[i] < f[j]
  PROVE  LET p == Max({0} \cup {i \in 1..n : f[i] <= x})
         IN  /\ p \in 0..n /\ \A i \in 1..n : i <= p => f[i] <= x
             /\ \A i \in 1..n : p < i => x < f[i]
<1> DEFINE W == {0} \cup {i \in 1..n : f[i] <= x}
           p == Max(W)
<1>1. p \in W /\ \A m \in W : m <= p
  <2>1. W \in SUBSET (0..n) /\ W # {}
    OBVIOUS
  <2> HIDE DEF W
  <2> QED BY <2>1, LargestOf
<1>2. p \in 0..n
  <2> HIDE DEF p
  <2> QED BY <1>1
<1>3. ASSUME NEW i \in 1..n, i <= p PROVE f[i] <= x
  <2>1. p \in 1..n /\ f[p] <= x
    <3> HIDE DEF p
    <3> QED BY <1>1, <1>2, <1>3
  <2> HIDE DEF W, p
  <2>2. CASE i = p
    BY <2>1, <2>2
  <2>3. CASE i # p
    <3>1. f[i] < f[p]
      BY <1>2, <1>3, <2>1, <2>3
    <3> QED BY <2>1, <3>1
  <2> QED BY <2>2, <2>3
<1>4. ASSUME NEW i \in 1..n, p < i PROVE x < f[i]
  <2>1. i \notin W
    <3> HIDE DEF W, p
    <3> QED BY <1>1, <1>2, <1>4
  <2>2. ~(f[i] <= x) /\ f[i] \in Nat
    BY <2>1
  <2> QED BY <2>2
<1> HIDE DEF W
<1> QED BY <1>2, <1>3, <1>4 DEF W

\* UpTo cuts an ascending sequence of numbers.
LEMMA UpToCuts ==
  ASSUME NEW S \in SUBSET Nat, NEW s \in Seq(S), Ascending(s), NEW n \in Nat
  PROVE  /\ UpTo(s, n) \in 0..Len(s)
         /\ \A i \in 1..Len(s) : (i <= UpTo(s, n) => s[i] <= n) /\ (UpTo(s, n) < i => n < s[i])
<1>1. Len(s) \in Nat /\ DOMAIN s = 1..Len(s) /\ \A i \in 1..Len(s) : s[i] \in Nat
  <2>1. Len(s) \in Nat /\ DOMAIN s = 1..Len(s) /\ \A i \in DOMAIN s : s[i] \in S
    BY SeqBasics
  <2> QED BY <2>1
<1> DEFINE f == [i \in 1..Len(s) |-> s[i]]
<1>2. f \in [1..Len(s) -> Nat] /\ \A i, j \in 1..Len(s) : i < j => f[i] < f[j]
  <2>1. \A i \in 1..Len(s) : f[i] = s[i] /\ f[i] \in Nat
    BY <1>1
  <2>2. f = [i \in 1..Len(s) |-> f[i]]
    OBVIOUS
  <2> HIDE DEF f
  <2>3. f \in [1..Len(s) -> Nat]
    BY <2>1, <2>2
  <2> QED BY <1>1, <2>1, <2>3 DEF Ascending
<1>3. {i \in 1..Len(s) : f[i] <= n} = {i \in DOMAIN s : s[i] <= n}
  BY <1>1
<1>4. \A i \in 1..Len(s) : f[i] = s[i]
  OBVIOUS
<1> HIDE DEF f
<1>5. UpTo(s, n) = Max({0} \cup {i \in 1..Len(s) : f[i] <= n})
  BY <1>3 DEF UpTo
<1> DEFINE p == UpTo(s, n)
<1>6. /\ p \in 0..Len(s) /\ \A i \in 1..Len(s) : i <= p => f[i] <= n
      /\ \A i \in 1..Len(s) : p < i => n < f[i]
  BY <1>1, <1>2, <1>5, PlaceOf
<1> HIDE DEF p
<1> QED BY <1>4, <1>6 DEF p


\* A number put where UpTo says keeps the sequence in order.
LEMMA InsertAscending ==
  ASSUME NEW S \in SUBSET Nat, NEW s \in Seq(S), Ascending(s), NEW n \in S, n \notin Range(s)
  PROVE  LET t == InsertAt(s, UpTo(s, n) + 1, n)
         IN  /\ t \in Seq(S) /\ t # <<>> /\ Ascending(t) /\ Range(t) = Range(s) \cup {n}
             /\ Head(t) = IF s = <<>> \/ n < Head(s) THEN n ELSE Head(s)
<1> DEFINE p == UpTo(s, n)
           m == p + 1
           t == InsertAt(s, m, n)
<1>1. Len(s) \in Nat /\ DOMAIN s = 1..Len(s) /\ \A i \in 1..Len(s) : s[i] \in Nat
  <2>1. Len(s) \in Nat /\ DOMAIN s = 1..Len(s) /\ \A i \in DOMAIN s : s[i] \in S
    BY SeqBasics
  <2> QED BY <2>1
<1>2. /\ p \in 0..Len(s)
      /\ \A i \in 1..Len(s) : (i <= p => s[i] <= n) /\ (p < i => n < s[i])
  BY UpToCuts
<1> HIDE DEF p
<1>3. m \in 1..(Len(s) + 1)
  BY <1>1, <1>2
<1> HIDE DEF m
<1>4. /\ t \in Seq(S) /\ Len(t) = Len(s) + 1
      /\ \A j \in 1..(Len(s) + 1) :
           t[j] = IF j < m THEN s[j] ELSE IF j = m THEN n ELSE s[j - 1]
  BY <1>3, InsertAtElements
<1>5. Range(t) = Range(s) \cup {n} /\ t # <<>>
  BY <1>3, InsertAtRange
<1>6. DOMAIN t = 1..(Len(s) + 1)
  BY <1>1, <1>4, SeqBasics
<1>7. \A i \in 1..Len(s) : s[i] # n
  BY <1>1 DEF Range
<1> USE DEF m
<1> HIDE DEF t
<1>8. Ascending(t)
  <2> SUFFICES ASSUME NEW i \in DOMAIN t, NEW j \in DOMAIN t, i < j PROVE t[i] < t[j]
    BY DEF Ascending
  <2>1. CASE j < p + 1
    <3>1. i < p + 1 /\ i \in DOMAIN s /\ j \in DOMAIN s
      BY <1>1, <1>2, <1>6, <2>1
    <3>2. t[i] = s[i] /\ t[j] = s[j]
      BY <1>4, <1>6, <2>1, <3>1
    <3> QED BY <3>1, <3>2 DEF Ascending
  <2>2. CASE j = p + 1
    <3>1. i \in 1..Len(s) /\ i <= p /\ t[i] = s[i] /\ t[j] = n
      BY <1>1, <1>2, <1>4, <1>6, <2>2
    <3> QED BY <1>1, <1>2, <1>7, <3>1
  <2>3. CASE p + 1 < j /\ i < p + 1
    <3>1. i \in DOMAIN s /\ j - 1 \in DOMAIN s /\ i < j - 1
      BY <1>1, <1>2, <1>6, <2>3
    <3>2. t[i] = s[i] /\ t[j] = s[j - 1]
      BY <1>2, <1>4, <1>6, <2>3
    <3> QED BY <3>1, <3>2 DEF Ascending
  <2>4. CASE p + 1 < j /\ i = p + 1
    <3>1. j - 1 \in 1..Len(s) /\ p < j - 1 /\ t[i] = n /\ t[j] = s[j - 1]
      BY <1>1, <1>2, <1>4, <1>6, <2>4
    <3> QED BY <1>2, <3>1
  <2>5. CASE p + 1 < i
    <3>1. p + 1 < j /\ i - 1 \in DOMAIN s /\ j - 1 \in DOMAIN s /\ i - 1 < j - 1
      BY <1>1, <1>2, <1>6, <2>5
    <3>2. t[i] = s[i - 1] /\ t[j] = s[j - 1]
      BY <1>2, <1>4, <1>6, <2>5, <3>1
    <3> QED BY <3>1, <3>2 DEF Ascending
  <2> QED BY <1>2, <1>6, <2>1, <2>2, <2>3, <2>4, <2>5
<1>9. Head(t) = IF s = <<>> \/ n < Head(s) THEN n ELSE Head(s)
  <2>1. Head(t) = t[1]
    BY <1>4, <1>5, TailSeq
  <2>2. t[1] = IF p = 0 THEN n ELSE s[1]
    BY <1>1, <1>2, <1>4
  <2>3. s = <<>> => p = 0
    BY <1>1, <1>2, SeqBasics
  <2>4. s # <<>> => Head(s) = s[1] /\ 1 \in 1..Len(s)
    BY <1>1, SeqBasics, TailSeq
  <2>5. s # <<>> => (p = 0 <=> n < Head(s))
    BY <1>1, <1>2, <2>4
  <2> QED BY <2>1, <2>2, <2>3, <2>4, <2>5
<1> QED BY <1>4, <1>5, <1>8, <1>9 DEF p, t, m

-----------------------------------------------------------------------------
(* The ready lists *)

Entries == [class : Kinds, oldest : Nat]

\* The order list as numbers, by which it is ascending.
LEMMA OrderBasics ==
  ASSUME NEW order, OrderOK(order)
  PROVE  /\ order \in Seq(Entries) /\ Len(order) \in Nat /\ DOMAIN order = 1..Len(order)
         /\ Range(order) \subseteq Entries
         /\ \A i \in DOMAIN order : /\ order[i] \in Entries /\ order[i] \in Range(order)
                                    /\ order[i].oldest \in Nat /\ order[i].class \in Kinds
         /\ \A x \in Range(order) : \E i \in DOMAIN order : order[i] = x
         /\ \A i, j \in DOMAIN order : order[i].oldest = order[j].oldest => i = j
         /\ Distinct(order)
<1>1. order \in Seq(Entries)
  BY DEF OrderOK, Entries
<1>2. /\ Len(order) \in Nat /\ DOMAIN order = 1..Len(order) /\ Range(order) \subseteq Entries
      /\ \A i \in DOMAIN order : order[i] \in Entries /\ order[i] \in Range(order)
      /\ \A x \in Range(order) : \E i \in DOMAIN order : order[i] = x
  BY <1>1, SeqBasics
<1>3. \A x \in Entries : x.oldest \in Nat /\ x.class \in Kinds
  BY DEF Entries
<1>4. \A i, j \in DOMAIN order : order[i].oldest = order[j].oldest => i = j
  <2> SUFFICES ASSUME NEW i \in DOMAIN order, NEW j \in DOMAIN order,
                      order[i].oldest = order[j].oldest, i < j
               PROVE  FALSE
    BY <1>2
  <2>1. order[i].oldest < order[j].oldest
    BY DEF OrderOK
  <2>2. order[i].oldest \in Nat
    BY <1>2, <1>3
  <2> QED BY <2>1, <2>2
<1>5. Distinct(order)
  BY <1>4 DEF Distinct
<1> QED BY <1>1, <1>2, <1>3, <1>4, <1>5

LEMMA OrderRemove ==
  ASSUME NEW order, OrderOK(order), NEW i \in DOMAIN order
  PROVE  OrderOK(RemoveAt(order, i)) /\ Range(RemoveAt(order, i)) = Range(order) \ {order[i]}
<1> DEFINE t == RemoveAt(order, i)
<1>1. /\ order \in Seq(Entries) /\ Len(order) \in Nat /\ DOMAIN order = 1..Len(order)
      /\ Distinct(order)
  BY OrderBasics
<1>2. /\ t \in Seq(Entries) /\ Len(t) = Len(order) - 1
      /\ \A j \in 1..(Len(order) - 1) : t[j] = IF j < i THEN order[j] ELSE order[j + 1]
  BY <1>1, RemoveAtElements
<1>3. Range(order) = Range(t) \cup {order[i]} /\ order[i] \notin Range(t)
  BY <1>1, RemoveAtSeq
<1>4. DOMAIN t = 1..(Len(order) - 1)
  BY <1>1, <1>2, SeqBasics
<1> HIDE DEF t
<1>5. ASSUME NEW j \in DOMAIN t, NEW k \in DOMAIN t, j < k PROVE t[j].oldest < t[k].oldest
  <2> DEFINE m == IF j < i THEN j ELSE j + 1
             n == IF k < i THEN k ELSE k + 1
  <2>1. m \in DOMAIN order /\ n \in DOMAIN order /\ m < n
    BY <1>1, <1>4, <1>5
  <2>2. t[j] = order[m] /\ t[k] = order[n]
    BY <1>2, <1>4
  <2> HIDE DEF m, n
  <2>3. order[m].oldest < order[n].oldest
    BY <2>1 DEF OrderOK
  <2> QED BY <2>2, <2>3
<1>6. OrderOK(t)
  BY <1>2, <1>5 DEF OrderOK, Entries
<1> QED BY <1>3, <1>6 DEF t

LEMMA OrderAdd ==
  ASSUME NEW order, OrderOK(order), NEW e \in Entries,
         \A x \in Range(order) : x.oldest # e.oldest
  PROVE  /\ OrderOK(AddToOrderList(order, e))
         /\ Range(AddToOrderList(order, e)) = Range(order) \cup {e}
<1>1. /\ order \in Seq(Entries) /\ Len(order) \in Nat /\ DOMAIN order = 1..Len(order)
      /\ \A i \in DOMAIN order : order[i].oldest \in Nat /\ order[i] \in Range(order)
  BY OrderBasics
<1> DEFINE n == Len(order)
           f == [i \in 1..n |-> order[i].oldest]
           p == Max({0} \cup {i \in 1..n : f[i] <= e.oldest})
           m == p + 1
           t == InsertAt(order, m, e)
<1>2. e.oldest \in Nat
  BY DEF Entries
<1>3. /\ p \in 0..n /\ \A i \in 1..n : i <= p => f[i] <= e.oldest
      /\ \A i \in 1..n : p < i => e.oldest < f[i]
  <2>1. \A i \in 1..n : f[i] = order[i].oldest /\ f[i] \in Nat
    BY <1>1
  <2>2. f = [i \in 1..n |-> f[i]]
    OBVIOUS
  <2> HIDE DEF f
  <2>3. f \in [1..n -> Nat]
    BY <2>1, <2>2
  <2>4. \A i, j \in 1..n : i < j => f[i] < f[j]
    BY <1>1, <2>1 DEF OrderOK
  <2> HIDE DEF n
  <2>5. n \in Nat
    BY <1>1 DEF n
  <2> QED BY <1>2, <2>3, <2>4, <2>5, PlaceOf
<1>4. AddToOrderList(order, e) = t
  <2>1. {i \in 1..n : f[i] <= e.oldest} = {i \in DOMAIN order : order[i].oldest <= e.oldest}
    BY <1>1
  <2> HIDE DEF f, n
  <2>2. 1 + p = m
    BY <1>3, <1>1 DEF n
  <2>3. AddToOrderList(order, e) = InsertAt(order, 1 + p, e)
    BY <2>1 DEF AddToOrderList
  <2> HIDE DEF p, m
  <2> QED BY <2>2, <2>3
<1>5. ASSUME NEW i \in 1..n
      PROVE  (i <= p => order[i].oldest < e.oldest) /\ (p < i => e.oldest < order[i].oldest)
  <2>1. /\ f[i] = order[i].oldest /\ order[i].oldest \in Nat /\ order[i].oldest # e.oldest
    BY <1>1
  <2> HIDE DEF f, p
  <2> QED BY <1>2, <1>3, <2>1
<1> HIDE DEF p
<1>6. m \in 1..(Len(order) + 1)
  BY <1>1, <1>3
<1> HIDE DEF m
<1>7. /\ t \in Seq(Entries) /\ Len(t) = Len(order) + 1 /\ Range(t) = Range(order) \cup {e}
      /\ \A j \in 1..(Len(order) + 1) :
           t[j] = IF j < m THEN order[j] ELSE IF j = m THEN e ELSE order[j - 1]
  <2>1. Range(t) = Range(order) \cup {e}
    BY <1>1, <1>6, InsertAtRange
  <2>2. /\ t \in Seq(Entries) /\ Len(t) = Len(order) + 1
        /\ \A j \in 1..(Len(order) + 1) :
             t[j] = IF j < m THEN order[j] ELSE IF j = m THEN e ELSE order[j - 1]
    BY <1>1, <1>6, InsertAtElements
  <2> QED BY <2>1, <2>2
<1> USE DEF m
<1>8. DOMAIN t = 1..(Len(order) + 1)
  BY <1>1, <1>7, SeqBasics
<1> HIDE DEF t
<1>9. ASSUME NEW i \in DOMAIN t, NEW j \in DOMAIN t, i < j PROVE t[i].oldest < t[j].oldest
  <2>1. CASE j < m
    <3>1. i < m /\ i \in DOMAIN order /\ j \in DOMAIN order
      BY <1>1, <1>6, <1>8, <1>9, <2>1
    <3>2. t[i] = order[i] /\ t[j] = order[j]
      BY <1>7, <1>8, <2>1, <3>1
    <3> QED BY <1>9, <3>1, <3>2 DEF OrderOK
  <2>2. CASE j = m
    <3>1. i < m /\ i \in 1..n /\ i <= p
      BY <1>1, <1>3, <1>6, <1>8, <1>9, <2>2
    <3>2. t[i] = order[i] /\ t[j] = e
      BY <1>7, <1>8, <2>2, <3>1
    <3> QED BY <1>5, <3>1, <3>2
  <2>3. CASE m < j /\ i < m
    <3>1. i \in DOMAIN order /\ j - 1 \in DOMAIN order /\ i < j - 1
      BY <1>1, <1>6, <1>8, <2>3
    <3>2. t[i] = order[i] /\ t[j] = order[j - 1]
      BY <1>6, <1>7, <1>8, <2>3
    <3> QED BY <3>1, <3>2 DEF OrderOK
  <2>4. CASE m < j /\ i = m
    <3>1. j - 1 \in 1..n /\ p < j - 1
      BY <1>1, <1>3, <1>6, <1>8, <2>4
    <3>2. t[i] = e /\ t[j] = order[j - 1]
      BY <1>6, <1>7, <1>8, <2>4
    <3> QED BY <1>5, <3>1, <3>2
  <2>5. CASE m < i
    <3>1. m < j /\ i - 1 \in DOMAIN order /\ j - 1 \in DOMAIN order /\ i - 1 < j - 1
      BY <1>1, <1>6, <1>8, <1>9, <2>5
    <3>2. t[i] = order[i - 1] /\ t[j] = order[j - 1]
      BY <1>6, <1>7, <1>8, <2>5, <3>1
    <3> QED BY <3>1, <3>2 DEF OrderOK
  <2> QED BY <1>6, <1>8, <1>9, <2>1, <2>2, <2>3, <2>4, <2>5
<1>10. OrderOK(t)
  BY <1>7, <1>9 DEF OrderOK, Entries
<1> QED BY <1>4, <1>7, <1>10

\* The instructions that are ready.
ReadySet(r) == UNION {Range(r.insts[k]) : k \in Kinds}

\* r with the list of class k replaced, where the order is as it should be.
LEMMA ReadyReplaced ==
  ASSUME NEW r, ReadyOK(r), NEW k \in Kinds, NEW list \in Seq(Nat), Ascending(list),
         NEW order, OrderOK(order),
         Range(order) = {x \in Range(r.order) : x.class # k} \cup
                          (IF list = <<>> THEN {} ELSE {[class |-> k, oldest |-> Head(list)]})
  PROVE  ReadyOK([insts |-> [r.insts EXCEPT ![k] = list], order |-> order])
<1> DEFINE insts == [r.insts EXCEPT ![k] = list]
<1>1. /\ insts \in [Kinds -> Seq(Nat)] /\ insts[k] = list
      /\ \A j \in Kinds : j # k => insts[j] = r.insts[j]
  BY DEF ReadyOK
<1> HIDE DEF insts
<1>2. \A j \in Kinds : Ascending(insts[j])
  BY <1>1 DEF ReadyOK
<1>3. ASSUME NEW j \in Kinds, insts[j] # <<>> PROVE \E x \in Range(order) : x.class = j
  <2>1. CASE j = k
    <3>1. [class |-> k, oldest |-> Head(list)] \in Range(order)
      BY <1>1, <1>3, <2>1
    <3> QED BY <2>1, <3>1
  <2>2. CASE j # k
    BY <1>1, <1>3, <2>2 DEF ReadyOK
  <2> QED BY <2>1, <2>2
<1>4. ASSUME NEW x \in Range(order)
      PROVE  insts[x.class] # <<>> /\ x.oldest = Head(insts[x.class])
  <2>1. CASE x \in Range(r.order) /\ x.class # k
    <3>1. x.class \in Kinds
      BY <2>1, OrderBasics DEF ReadyOK, Entries
    <3> QED BY <1>1, <2>1, <3>1 DEF ReadyOK
  <2>2. CASE list # <<>> /\ x = [class |-> k, oldest |-> Head(list)]
    BY <1>1, <2>2
  <2> QED BY <2>1, <2>2
<1> QED BY <1>1, <1>2, <1>3, <1>4 DEF ReadyOK, insts

LEMMA AddReadyOK ==
  ASSUME NEW r, ReadyOK(r), NEW k \in Kinds, NEW sn \in Nat, sn \notin ReadySet(r)
  PROVE  /\ ReadyOK(AddReady(r, k, sn))
         /\ \A j \in Kinds : Range(AddReady(r, k, sn).insts[j]) =
                               Range(r.insts[j]) \cup (IF j = k THEN {sn} ELSE {})
         /\ ReadySet(AddReady(r, k, sn)) = ReadySet(r) \cup {sn}
<1> DEFINE list == r.insts[k]
           new == InsertAt(list, UpTo(list, sn) + 1, sn)
           it == ReadyIt(r.order, k)
           others == IF list = <<>> THEN r.order ELSE RemoveAt(r.order, it)
           e == [class |-> k, oldest |-> sn]
           order == IF list = <<>> \/ sn < Head(list) THEN AddToOrderList(others, e) ELSE r.order
<1>1. list \in Seq(Nat) /\ Ascending(list) /\ sn \notin Range(list)
  BY DEF ReadyOK, ReadySet
<1>2. /\ new \in Seq(Nat) /\ new # <<>> /\ Ascending(new) /\ Range(new) = Range(list) \cup {sn}
      /\ Head(new) = IF list = <<>> \/ sn < Head(list) THEN sn ELSE Head(list)
  <2>1. Nat \in SUBSET Nat
    OBVIOUS
  <2> HIDE DEF list
  <2> QED BY <1>1, <2>1, InsertAscending
<1>3. AddReady(r, k, sn) = [insts |-> [r.insts EXCEPT ![k] = new], order |-> order]
  BY DEF AddReady
<1>4. /\ OrderOK(r.order) /\ Range(r.order) \subseteq Entries
      /\ \A x \in Range(r.order) : /\ x.class \in Kinds /\ x.oldest \in Nat
                                   /\ x.oldest \in Range(r.insts[x.class])
                                   /\ r.insts[x.class] # <<>> /\ x.oldest = Head(r.insts[x.class])
  <2>1. OrderOK(r.order) /\ Range(r.order) \subseteq Entries
    BY OrderBasics DEF ReadyOK
  <2>2. ASSUME NEW x \in Range(r.order)
        PROVE  /\ x.class \in Kinds /\ x.oldest \in Nat /\ x.oldest \in Range(r.insts[x.class])
               /\ r.insts[x.class] # <<>> /\ x.oldest = Head(r.insts[x.class])
    <3>1. x.class \in Kinds /\ x.oldest \in Nat
      BY <2>1 DEF Entries
    <3>2. r.insts[x.class] # <<>> /\ x.oldest = Head(r.insts[x.class])
      BY DEF ReadyOK
    <3>3. r.insts[x.class] \in Seq(Nat)
      BY <3>1 DEF ReadyOK
    <3>4. Head(r.insts[x.class]) \in Range(r.insts[x.class])
      BY <3>2, <3>3, TailSeq
    <3> QED BY <3>1, <3>2, <3>4
  <2> QED BY <2>1, <2>2
<1>5. \A x \in Range(r.order) : x.oldest # sn
  BY <1>4 DEF ReadySet
<1>6. e \in Entries /\ e.oldest = sn /\ e.class = k
  BY DEF Entries
<1>7. OrderOK(others) /\ Range(others) = {x \in Range(r.order) : x.class # k}
  <2>1. CASE list = <<>>
    <3>1. \A x \in Range(r.order) : x.class # k
      BY <1>4, <2>1
    <3> QED BY <1>4, <2>1, <3>1
  <2>2. CASE list # <<>>
    <3>1. PICK x \in Range(r.order) : x.class = k
      BY <2>2 DEF ReadyOK
    <3>2. PICK i \in DOMAIN r.order : r.order[i] = x
      BY <1>4, OrderBasics
    <3>3. it \in DOMAIN r.order /\ r.order[it].class = k
      BY <3>1, <3>2 DEF ReadyIt
    <3> HIDE DEF it
    <3>4. OrderOK(others) /\ Range(others) = Range(r.order) \ {r.order[it]}
      BY <1>4, <2>2, <3>3, OrderRemove
    <3>5. ASSUME NEW y \in Range(r.order), y.class = k PROVE y = r.order[it]
      <4>1. PICK j \in DOMAIN r.order : r.order[j] = y
        BY <1>4, OrderBasics
      <4>2. r.order[it] \in Range(r.order)
        BY <1>4, <3>3, OrderBasics
      <4>3. y.oldest = r.order[it].oldest
        BY <1>4, <3>3, <3>5, <4>2
      <4>4. j = it
        BY <1>4, <3>3, <4>1, <4>3, OrderBasics
      <4> QED BY <4>1, <4>4
    <3>6. r.order[it] \in Range(r.order)
      BY <1>4, <3>3, OrderBasics
    <3> QED BY <3>3, <3>4, <3>5
  <2> QED BY <2>1, <2>2
<1> HIDE DEF list, others, new, e
<1>8. OrderOK(order) /\ Range(order) = {x \in Range(r.order) : x.class # k} \cup
                                         {[class |-> k, oldest |-> Head(new)]}
  <2>1. CASE list = <<>> \/ sn < Head(list)
    <3>1. order = AddToOrderList(others, e)
      BY <2>1
    <3>2. \A x \in Range(others) : x.oldest # e.oldest
      BY <1>5, <1>6, <1>7
    <3>3. OrderOK(order) /\ Range(order) = Range(others) \cup {e}
      BY <1>6, <1>7, <3>1, <3>2, OrderAdd
    <3>4. e = [class |-> k, oldest |-> Head(new)]
      BY <1>2, <2>1 DEF e
    <3> QED BY <1>7, <3>3, <3>4
  <2>2. CASE ~(list = <<>> \/ sn < Head(list))
    <3>1. order = r.order /\ Head(new) = Head(list)
      BY <1>2, <2>2
    <3>2. ASSUME NEW x \in Range(r.order), x.class = k
          PROVE  x = [class |-> k, oldest |-> Head(new)]
      <4>1. x.oldest = Head(new)
        BY <1>4, <3>1, <3>2 DEF list
      <4>2. x \in Entries
        BY <1>4
      <4> QED BY <3>2, <4>1, <4>2 DEF Entries
    <3>3. \E x \in Range(r.order) : x.class = k
      BY <2>2 DEF ReadyOK, list
    <3> QED BY <1>4, <3>1, <3>2, <3>3
  <2> QED BY <2>1, <2>2
<1> HIDE DEF order
<1>9. ReadyOK(AddReady(r, k, sn))
  BY <1>2, <1>3, <1>8, ReadyReplaced
<1>10. \A j \in Kinds : Range(AddReady(r, k, sn).insts[j]) =
                          Range(r.insts[j]) \cup (IF j = k THEN {sn} ELSE {})
  <2>1. \A j \in Kinds : AddReady(r, k, sn).insts[j] = IF j = k THEN new ELSE r.insts[j]
    BY <1>3 DEF ReadyOK
  <2> QED BY <1>2, <2>1 DEF list
<1> QED BY <1>9, <1>10 DEF ReadySet

\* What is left of a ready list when its top has been taken.
ReadyApart(r) == \A j, k \in Kinds : j # k => Range(r.insts[j]) \cap Range(r.insts[k]) = {}

LEMMA PopAtOK ==
  ASSUME NEW r, ReadyOK(r), NEW i \in DOMAIN r.order, ReadyApart(r),
         NEW k, k = r.order[i].class
  PROVE  /\ k \in Kinds /\ r.insts[k] # <<>> /\ Head(r.insts[k]) \in Range(r.insts[k])
         /\ ReadyOK(PopAt(r, i))
         /\ Range(PopAt(r, i).insts[k]) = Range(r.insts[k]) \ {Head(r.insts[k])}
         /\ \A j \in Kinds : j # k => PopAt(r, i).insts[j] = r.insts[j]
<1> DEFINE list == r.insts[k]
           rest == Tail(list)
           others == RemoveAt(r.order, i)
           e == [class |-> k, oldest |-> Head(rest)]
           order == IF rest = <<>> THEN others ELSE AddToOrderList(others, e)
<1>1. /\ OrderOK(r.order) /\ r.order[i] \in Range(r.order) /\ k \in Kinds
      /\ r.order[i].oldest \in Nat /\ r.order[i].oldest = Head(list) /\ list # <<>>
      /\ \A x \in Range(r.order) : x \in Entries /\ \E j \in DOMAIN r.order : r.order[j] = x
      /\ \A j, m \in DOMAIN r.order : r.order[j].oldest = r.order[m].oldest => j = m
  BY OrderBasics DEF ReadyOK
<1>2. list \in Seq(Nat) /\ Ascending(list)
  BY <1>1 DEF ReadyOK
<1>3. PopAt(r, i) = [insts |-> [r.insts EXCEPT ![k] = rest], order |-> order]
  BY DEF PopAt
<1>4. \A x \in Range(r.order) : x.class = k => x = r.order[i]
  <2> TAKE x \in Range(r.order)
  <2> HAVE x.class = k
  <2>1. PICK j \in DOMAIN r.order : r.order[j] = x
    BY <1>1
  <2>2. x.oldest = Head(list)
    BY DEF ReadyOK
  <2>3. r.order[j].oldest = r.order[i].oldest
    BY <1>1, <2>1, <2>2
  <2>4. j = i
    BY <1>1, <2>3
  <2> QED BY <2>1, <2>4
<1>5. OrderOK(others) /\ Range(others) = {x \in Range(r.order) : x.class # k}
  <2>1. OrderOK(others) /\ Range(others) = Range(r.order) \ {r.order[i]}
    BY <1>1, OrderRemove
  <2> QED BY <1>1, <1>4, <2>1
<1>6. /\ rest \in Seq(Nat) /\ Ascending(rest) /\ Head(list) \in Range(list)
      /\ Range(rest) = Range(list) \ {Head(list)}
  <2>1. /\ rest \in Seq(Nat) /\ Range(list) = Range(rest) \cup {Head(list)}
        /\ Ascending(rest) /\ \A x \in Range(rest) : Head(list) < x
    BY <1>1, <1>2, TailSeq, TailAscending
  <2>2. Head(list) \notin Range(rest)
    <3>1. Head(list) \in Nat
      BY <1>1
    <3>2. ~(Head(list) < Head(list))
      BY <3>1
    <3> QED BY <2>1, <3>2
  <2> QED BY <2>1, <2>2
<1>7. OrderOK(order) /\ Range(order) = {x \in Range(r.order) : x.class # k} \cup
                                         (IF rest = <<>> THEN {} ELSE {e})
  <2>1. CASE rest = <<>>
    BY <1>5, <2>1
  <2>2. CASE rest # <<>>
    <3>1. Head(rest) \in Range(rest) /\ Head(rest) \in Nat
      <4> HIDE DEF rest
      <4>1. Range(rest) = Range(Tail(rest)) \cup {Head(rest)} /\ Head(rest) \in Nat
        BY <1>6, <2>2, TailSeq
      <4> QED BY <4>1
    <3>2. e \in Entries /\ e.oldest = Head(rest)
      BY <1>1, <3>1 DEF Entries
    <3>3. ASSUME NEW x \in Range(others), x.oldest = Head(rest) PROVE FALSE
      <4>1. x \in Range(r.order) /\ x.class # k /\ x.class \in Kinds
        BY <1>1, <1>5 DEF Entries
      <4>2. x.oldest = Head(r.insts[x.class]) /\ r.insts[x.class] # <<>>
        BY <4>1 DEF ReadyOK
      <4>3. x.oldest \in Range(r.insts[x.class])
        BY <4>1, <4>2, TailSeq DEF ReadyOK
      <4>4. x.oldest \in Range(list)
        BY <1>6, <3>1, <3>3
      <4> QED BY <1>1, <4>1, <4>3, <4>4 DEF ReadyApart
    <3> HIDE DEF e, others, rest
    <3>4. OrderOK(order) /\ Range(order) = Range(others) \cup {e}
      BY <1>5, <2>2, <3>2, <3>3, OrderAdd
    <3> QED BY <1>5, <2>2, <3>4
  <2> QED BY <2>1, <2>2
<1> HIDE DEF order, rest, others
<1>8. ReadyOK(PopAt(r, i))
  <2>1. k \in Kinds /\ rest \in Seq(Nat) /\ Ascending(rest)
    BY <1>1, <1>6
  <2>2. ReadyOK([insts |-> [r.insts EXCEPT ![k] = rest], order |-> order])
    BY ONLY <1>7, <2>1, ReadyOK(r), ReadyReplaced
  <2> QED BY <1>3, <2>2
<1>9. /\ Range(PopAt(r, i).insts[k]) = Range(r.insts[k]) \ {Head(r.insts[k])}
      /\ \A j \in Kinds : j # k => PopAt(r, i).insts[j] = r.insts[j]
  <2>1. \A j \in Kinds : PopAt(r, i).insts[j] = IF j = k THEN rest ELSE r.insts[j]
    BY <1>1, <1>3 DEF ReadyOK
  <2> QED BY <1>1, <1>6, <2>1
<1> QED BY <1>1, <1>6, <1>8, <1>9

Bounded(S) == \E b \in Nat : S \in SUBSET (0..b)

\* The largest of a set of numbers up to b, and the set without it.
LEMMA FiniteMax ==
  ASSUME NEW T, Bounded(T)
  PROVE  /\ IsFiniteSet(T) /\ Cardinality(T) \in Nat /\ (Cardinality(T) = 0 <=> T = {})
         /\ T # {} => /\ Max(T) \in T /\ \A x \in T : x <= Max(T)
                      /\ Bounded(T \ {Max(T)})
                      /\ Cardinality(T \ {Max(T)}) = Cardinality(T) - 1
<1> PICK b \in Nat : T \in SUBSET (0..b)
  BY DEF Bounded
<1>1. IsFiniteSet(T)
  <2>1. IsFiniteSet(0..b)
    BY FS_Interval
  <2> QED BY <2>1, FS_Subset
<1>2. Cardinality(T) \in Nat /\ (Cardinality(T) = 0 <=> T = {})
  BY <1>1, FS_CardinalityType, FS_EmptySet
<1>3. ASSUME T # {} PROVE Max(T) \in T /\ \A x \in T : x <= Max(T)
  BY <1>3, LargestOf
<1>4. ASSUME T # {} PROVE Cardinality(T \ {Max(T)}) = Cardinality(T) - 1
  BY <1>1, <1>3, <1>4, FS_RemoveElement
<1>5. Bounded(T \ {Max(T)})
  <2>1. T \ {Max(T)} \in SUBSET (0..b)
    OBVIOUS
  <2> QED BY <2>1 DEF Bounded
<1> QED BY <1>1, <1>2, <1>3, <1>4, <1>5

\* The operators of AddAllReady, for sets of at most n instructions.
AddsTo(r, D, g) == g = [T \in D |-> IF T = {} THEN r
                                    ELSE AddReady(g[T \ {Max(T)}], Kind(Max(T)), Max(T))]
UpToSize(S, n) == {U \in SUBSET S : Cardinality(U) <= n}

LEMMA AddExists ==
  ASSUME NEW r, NEW S, Bounded(S), NEW n, n \in Nat
  PROVE  \E g : AddsTo(r, UpToSize(S, n), g)
<1> DEFINE Small(m) == UpToSize(S, m)
           Adds(m, g) == AddsTo(r, Small(m), g)
           W == {m \in Nat : ~ \E g : Adds(m, g)}
<1> USE DEF AddsTo, UpToSize
<1>1. ASSUME NEW T \in SUBSET S, T # {}
      PROVE  /\ Max(T) \in T /\ T \ {Max(T)} \in SUBSET S
             /\ Cardinality(T \ {Max(T)}) = Cardinality(T) - 1
             /\ Cardinality(T) \in Nat /\ Cardinality(T) # 0
  <2>1. Bounded(T)
    BY DEF Bounded
  <2>2. /\ Max(T) \in T /\ Cardinality(T \ {Max(T)}) = Cardinality(T) - 1
        /\ Cardinality(T) \in Nat /\ Cardinality(T) # 0
    BY <1>1, <2>1, FiniteMax
  <2> QED BY <2>2
<1>3. W = {}
  <2> SUFFICES ASSUME W # {} PROVE FALSE
    OBVIOUS
  <2>1. PICK m \in W : \A j \in W : m <= j
    <3>1. W \in SUBSET Nat
      OBVIOUS
    <3> HIDE DEF W
    <3> QED BY <3>1, SmallestOf
  <2>2. m \in Nat /\ ~ \E g : Adds(m, g)
    BY <2>1
  <2>3. CASE m = 0
    <3> DEFINE g == [T \in Small(0) |-> r]
    <3>1. ASSUME NEW T \in Small(0) PROVE T = {}
      <4>1. Cardinality(T) \in Nat /\ Cardinality(T) # 0 => ~(Cardinality(T) <= 0)
        OBVIOUS
      <4> QED BY <1>1, <4>1
    <3>2. Adds(0, g)
      <4> HIDE DEF Small
      <4> QED BY <3>1
    <3> QED BY <2>2, <2>3, <3>2
  <2>4. CASE m # 0
    <3>1. m - 1 \in Nat /\ ~(m <= m - 1)
      BY <2>2, <2>4
    <3>2. PICK g : Adds(m - 1, g)
      <4>1. m - 1 \notin W
        BY <2>1, <3>1
      <4> QED BY <3>1, <4>1
    <3> DEFINE Next1(T, f) == IF T = {} THEN r
                              ELSE AddReady(f[T \ {Max(T)}], Kind(Max(T)), Max(T))
               h == [T \in Small(m) |-> Next1(T, g)]
    <3>3. ASSUME NEW T \in Small(m), T # {} PROVE h[T \ {Max(T)}] = g[T \ {Max(T)}]
      <4> DEFINE U == T \ {Max(T)}
      <4>1. U \in Small(m - 1) /\ U \in Small(m)
        BY <1>1, <2>2, <3>1, <3>3
      <4> HIDE DEF U, Small
      <4>2. g[U] = Next1(U, g)
        BY <3>2, <4>1
      <4>3. h[U] = Next1(U, g)
        BY <4>1
      <4> QED BY <4>2, <4>3 DEF U
    <3>4. \A T \in Small(m) : h[T] = Next1(T, h)
      <4> TAKE T \in Small(m)
      <4>1. h[T] = Next1(T, g)
        OBVIOUS
      <4> HIDE DEF h, Small
      <4> QED BY <3>3, <4>1
    <3>5. h = [T \in Small(m) |-> h[T]]
      <4> HIDE DEF Next1, Small
      <4> QED OBVIOUS
    <3>6. Adds(m, h)
      <4> HIDE DEF h, Small
      <4> QED BY <3>4, <3>5
    <3> QED BY <2>2, <3>6
  <2> QED BY <2>3, <2>4
<1>4. n \notin W
  BY <1>3
<1> QED BY <1>4

LEMMA AddAllReadyOK ==
  ASSUME NEW r, ReadyOK(r), NEW S, Bounded(S), S \cap ReadySet(r) = {},
         \A sn \in S : Kind(sn) \in Kinds
  PROVE  /\ ReadyOK(AddAllReady(r, S))
         /\ \A j \in Kinds : Range(AddAllReady(r, S).insts[j]) =
                               Range(r.insts[j]) \cup {sn \in S : Kind(sn) = j}
<1> DEFINE F(g) == AddsTo(r, SUBSET S, g)
           add == CHOOSE g : F(g)
<1>1. \E g : F(g)
  <2>1. Cardinality(S) \in Nat /\ IsFiniteSet(S)
    BY FiniteMax
  <2>2. UpToSize(S, Cardinality(S)) = SUBSET S
    BY <2>1, FS_Subset DEF UpToSize
  <2>3. \E g : AddsTo(r, UpToSize(S, Cardinality(S)), g)
    BY <2>1, AddExists
  <2> QED BY <2>2, <2>3
<1>2. F(add)
  BY <1>1
<1>3. AddAllReady(r, S) = add[S]
  BY DEF AddAllReady, AddsTo
<1> HIDE DEF add
<1>4. ASSUME NEW T \in SUBSET S
      PROVE  add[T] = IF T = {} THEN r ELSE AddReady(add[T \ {Max(T)}], Kind(Max(T)), Max(T))
  BY <1>2 DEF AddsTo
<1> DEFINE Good(T) == /\ ReadyOK(add[T])
                      /\ \A j \in Kinds : Range(add[T].insts[j]) =
                                            Range(r.insts[j]) \cup {sn \in T : Kind(sn) = j}
           W == {m \in Nat : \E T \in SUBSET S : Cardinality(T) = m /\ ~Good(T)}
<1>5. W = {}
  <2> SUFFICES ASSUME W # {} PROVE FALSE
    OBVIOUS
  <2>1. PICK m \in W : \A j \in W : m <= j
    <3>1. W \in SUBSET Nat
      OBVIOUS
    <3> HIDE DEF W
    <3> QED BY <3>1, SmallestOf
  <2>2. PICK T \in SUBSET S : Cardinality(T) = m /\ m \in Nat /\ ~Good(T)
    BY <2>1
  <2>3. CASE T = {}
    <3>1. add[T] = r
      BY <1>4, <2>3
    <3> QED BY <2>2, <2>3, <3>1
  <2>4. CASE T # {}
    <3> DEFINE top == Max(T)
               U == T \ {top}
    <3>1. top \in T /\ Cardinality(U) = m - 1 /\ m # 0
      <4>1. Bounded(T)
        BY DEF Bounded
      <4> QED BY <2>2, <2>4, <4>1, FiniteMax
    <3>2. add[T] = AddReady(add[U], Kind(top), top)
      BY <1>4, <2>4
    <3> HIDE DEF top
    <3>3. U \in SUBSET S /\ T = U \cup {top} /\ top \notin U /\ top \in S
      BY <3>1
    <3>4. Good(U)
      <4>1. m - 1 \notin W /\ m - 1 \in Nat
        BY <2>1, <2>2, <3>1
      <4> HIDE DEF Good, U
      <4> QED BY <3>1, <3>3, <4>1
    <3> HIDE DEF U
    <3>5. top \notin ReadySet(add[U])
      <4>1. \A j \in Kinds : top \notin Range(r.insts[j])
        BY <3>3 DEF ReadySet
      <4> QED BY <3>3, <3>4, <4>1 DEF ReadySet
    <3>6. Kind(top) \in Kinds
      BY <3>3
    <3>7. /\ ReadyOK(add[T])
          /\ \A j \in Kinds : Range(add[T].insts[j]) =
                                Range(add[U].insts[j]) \cup (IF j = Kind(top) THEN {top} ELSE {})
      <4>1. top \in Nat
        BY <3>3 DEF Bounded
      <4>2. ReadyOK(add[U])
        BY <3>4
      <4> HIDE DEF Good
      <4> QED BY ONLY <3>2, <3>5, <3>6, <4>1, <4>2, AddReadyOK
    <3>8. \A j \in Kinds : {sn \in T : Kind(sn) = j} =
                             {sn \in U : Kind(sn) = j} \cup (IF j = Kind(top) THEN {top} ELSE {})
      BY <3>3
    <3>9. Good(T)
      BY <3>4, <3>7, <3>8
    <3> QED BY <2>2, <3>9
  <2> QED BY <2>3, <2>4
<1>6. Good(S)
  <2>1. Cardinality(S) \in Nat
    BY FiniteMax
  <2>2. Cardinality(S) \notin W
    BY <1>5
  <2> HIDE DEF Good
  <2> QED BY <2>1, <2>2
<1> QED BY <1>3, <1>6

-----------------------------------------------------------------------------
(* The memory dependence predictor *)

LEMMA IndexRange ==
  ASSUME NEW pc \in Nat
  PROVE  Index(pc) \in Indexes /\ SSID(pc) \in SSIDs
BY StoreSetAssumption DEF Index, SSID, Indexes, SSIDs

LEMMA SetOfRange ==
  ASSUME NEW p, PredictorOK(p), NEW pc \in Nat
  PROVE  SetOf(p, pc) \in SSIDs \cup {NoSet}
BY IndexRange DEF PredictorOK, SetOf

\* A predictor with one of its parts replaced.
LEMMA PredictorUpdates ==
  ASSUME NEW a, NEW b, NEW c, NEW d, NEW e, NEW x, NEW p,
         p = [SSIT |-> a, LFST |-> b, valid |-> c, storeList |-> d, memOps |-> e]
  PROVE  /\ [p EXCEPT !.SSIT = x] =
              [SSIT |-> x, LFST |-> b, valid |-> c, storeList |-> d, memOps |-> e]
         /\ [p EXCEPT !.LFST = x] =
              [SSIT |-> a, LFST |-> x, valid |-> c, storeList |-> d, memOps |-> e]
         /\ [p EXCEPT !.valid = x] =
              [SSIT |-> a, LFST |-> b, valid |-> x, storeList |-> d, memOps |-> e]
         /\ [p EXCEPT !.storeList = x] =
              [SSIT |-> a, LFST |-> b, valid |-> c, storeList |-> x, memOps |-> e]
         /\ [p EXCEPT !.memOps = x] =
              [SSIT |-> a, LFST |-> b, valid |-> c, storeList |-> d, memOps |-> x]
OBVIOUS

\* A predictor that differs in these.
LEMMA PredictorChanged ==
  ASSUME NEW p, PredictorOK(p), NEW q,
         q = [SSIT |-> q.SSIT, LFST |-> q.LFST, valid |-> q.valid,
              storeList |-> q.storeList, memOps |-> q.memOps],
         q.SSIT \in [Indexes -> SSIDs \cup {NoSet}], q.valid \in [SSIDs -> BOOLEAN],
         q.LFST = p.LFST, DOMAIN q.storeList \subseteq DOMAIN p.storeList,
         \A sn \in DOMAIN q.storeList : q.storeList[sn] = p.storeList[sn]
  PROVE  PredictorOK(q)
BY DEF PredictorOK, ListBehindLFST

LEMMA ViolationOK ==
  ASSUME NEW p, PredictorOK(p), NEW store \in Nat, NEW load \in Nat
  PROVE  PredictorOK(Violation(p, store, load)) /\ Violation(p, store, load).LFST = p.LFST
<1> DEFINE l == SetOf(p, load)
           s == SetOf(p, store)
<1>1. /\ l \in SSIDs \cup {NoSet} /\ s \in SSIDs \cup {NoSet}
      /\ Index(store) \in Indexes /\ Index(load) \in Indexes /\ SSID(load) \in SSIDs
  BY SetOfRange, IndexRange
<1> HIDE DEF l, s
<1>2. ASSUME NEW f \in [Indexes -> SSIDs \cup {NoSet}]
      PROVE  PredictorOK([p EXCEPT !.SSIT = f]) /\ [p EXCEPT !.SSIT = f].LFST = p.LFST
  <2> DEFINE q == [p EXCEPT !.SSIT = f]
  <2>1. q = [SSIT |-> f, LFST |-> p.LFST, valid |-> p.valid,
             storeList |-> p.storeList, memOps |-> p.memOps]
    BY DEF PredictorOK
  <2> HIDE DEF q
  <2>2. PredictorOK(q)
    BY <2>1 DEF PredictorOK, ListBehindLFST
  <2> QED BY <2>1, <2>2 DEF q
<1>3. CASE l = NoSet /\ s = NoSet
  <2> DEFINE f == [i \in Indexes |-> IF i \in {Index(load), Index(store)} THEN SSID(load)
                                     ELSE p.SSIT[i]]
  <2>1. f \in [Indexes -> SSIDs \cup {NoSet}]
    BY <1>1 DEF PredictorOK
  <2>2. Violation(p, store, load) = [p EXCEPT !.SSIT = f]
    BY <1>3 DEF Violation, l, s
  <2> HIDE DEF f
  <2> QED BY <1>2, <2>1, <2>2
<1>4. CASE ~(l = NoSet /\ s = NoSet) /\ l # NoSet /\ (s = NoSet \/ s > l)
  <2> DEFINE f == [p.SSIT EXCEPT ![Index(store)] = l]
  <2>1. f \in [Indexes -> SSIDs \cup {NoSet}]
    BY <1>1 DEF PredictorOK
  <2>2. Violation(p, store, load) = [p EXCEPT !.SSIT = f]
    BY <1>4 DEF Violation, l, s
  <2> HIDE DEF f
  <2> QED BY <1>2, <2>1, <2>2
<1>5. CASE ~(l = NoSet /\ s = NoSet) /\ ~(l # NoSet /\ (s = NoSet \/ s > l))
  <2> DEFINE f == [p.SSIT EXCEPT ![Index(load)] = s]
  <2>1. f \in [Indexes -> SSIDs \cup {NoSet}]
    BY <1>1 DEF PredictorOK
  <2>2. Violation(p, store, load) = [p EXCEPT !.SSIT = f]
    BY <1>5 DEF Violation, l, s
  <2> HIDE DEF f
  <2> QED BY <1>2, <2>1, <2>2
<1> QED BY <1>3, <1>4, <1>5

LEMMA CheckClearOK ==
  ASSUME NEW p, PredictorOK(p)
  PROVE  PredictorOK(CheckClear(p)) /\ CheckClear(p).LFST = p.LFST
<1>1. ASSUME NEW m
      PROVE  /\ PredictorOK([Clear(p) EXCEPT !.memOps = m])
             /\ [Clear(p) EXCEPT !.memOps = m].LFST = p.LFST
  <2> DEFINE q == [Clear(p) EXCEPT !.memOps = m]
  <2>1. q = [SSIT |-> [i \in Indexes |-> NoSet], LFST |-> p.LFST,
             valid |-> [s \in SSIDs |-> FALSE], storeList |-> [sn \in {} |-> 0], memOps |-> m]
    <3> DEFINE a == [i \in Indexes |-> NoSet]
               c == [s \in SSIDs |-> FALSE]
               d == [sn \in {} |-> 0]
               p1 == [p EXCEPT !.SSIT = a]
               p2 == [p1 EXCEPT !.valid = c]
               p3 == [p2 EXCEPT !.storeList = d]
    <3>1. q = [p3 EXCEPT !.memOps = m]
      BY DEF Clear
    <3> HIDE DEF a, c, d, q
    <3>2. p1 = [SSIT |-> a, LFST |-> p.LFST, valid |-> p.valid, storeList |-> p.storeList,
                memOps |-> p.memOps]
      BY PredictorUpdates DEF PredictorOK
    <3> HIDE DEF p1
    <3>3. p2 = [SSIT |-> a, LFST |-> p.LFST, valid |-> c, storeList |-> p.storeList,
                memOps |-> p.memOps]
      BY <3>2, PredictorUpdates
    <3> HIDE DEF p2
    <3>4. p3 = [SSIT |-> a, LFST |-> p.LFST, valid |-> c, storeList |-> d, memOps |-> p.memOps]
      BY <3>3, PredictorUpdates
    <3> HIDE DEF p3
    <3>5. q = [SSIT |-> a, LFST |-> p.LFST, valid |-> c, storeList |-> d, memOps |-> m]
      BY <3>1, <3>4, PredictorUpdates
    <3> QED BY <3>5 DEF a, c, d
  <2> HIDE DEF q
  <2>2. DOMAIN q.storeList = {} /\ q.SSIT \in [Indexes -> SSIDs \cup {NoSet}]
        /\ q.valid \in [SSIDs -> BOOLEAN] /\ q.LFST = p.LFST
    BY <2>1
  <2>3. PredictorOK(q)
    BY <2>1, <2>2 DEF PredictorOK, ListBehindLFST
  <2> QED BY <2>2, <2>3 DEF q
<1>2. ASSUME NEW m
      PROVE  PredictorOK([p EXCEPT !.memOps = m]) /\ [p EXCEPT !.memOps = m].LFST = p.LFST
  <2> DEFINE q == [p EXCEPT !.memOps = m]
  <2>1. q = [SSIT |-> p.SSIT, LFST |-> p.LFST, valid |-> p.valid,
             storeList |-> p.storeList, memOps |-> m]
    BY DEF PredictorOK
  <2> HIDE DEF q
  <2>2. PredictorOK(q)
    BY <2>1 DEF PredictorOK, ListBehindLFST
  <2> QED BY <2>1, <2>2 DEF q
<1>3. CheckClear(p) = [Clear(p) EXCEPT !.memOps = 0] \/ CheckClear(p) = [p EXCEPT !.memOps = p.memOps + 1]
  BY DEF CheckClear
<1> QED BY <1>1, <1>2, <1>3

\* A store that is younger than what the predictor has seen.
LEMMA InsertStoreOK ==
  ASSUME NEW p, PredictorOK(p), NEW pc \in Nat, NEW sn \in Nat,
         \A s \in SSIDs : p.LFST[s] <= sn
  PROVE  /\ PredictorOK(InsertStore(p, pc, sn))
         /\ \A s \in SSIDs : InsertStore(p, pc, sn).LFST[s] \in {p.LFST[s], sn}
<1> DEFINE q == CheckClear(p)
           s == SetOf(q, pc)
           l == [x \in DOMAIN q.storeList \cup {sn} |-> IF x = sn THEN s ELSE q.storeList[x]]
           u == [q EXCEPT !.LFST[s] = sn, !.valid[s] = TRUE, !.storeList = l]
<1>1. PredictorOK(q) /\ q.LFST = p.LFST
  BY CheckClearOK
<1>2. InsertStore(p, pc, sn) = IF s = NoSet THEN q ELSE u
  BY DEF InsertStore
<1> HIDE DEF q
<1>3. s \in SSIDs \cup {NoSet}
  BY <1>1, SetOfRange
<1> HIDE DEF s
<1>4. CASE s = NoSet
  BY <1>1, <1>2, <1>4
<1>5. CASE s # NoSet
  <2>1. s \in SSIDs
    BY <1>3, <1>5
  <2>2. u = [SSIT |-> q.SSIT, LFST |-> [q.LFST EXCEPT ![s] = sn],
             valid |-> [q.valid EXCEPT ![s] = TRUE], storeList |-> l, memOps |-> q.memOps]
    <3> DEFINE L == [q.LFST EXCEPT ![s] = sn]
               V == [q.valid EXCEPT ![s] = TRUE]
               q1 == [q EXCEPT !.LFST = L]
               q2 == [q1 EXCEPT !.valid = V]
    <3> HIDE DEF l, L
    <3>1. q1 = [SSIT |-> q.SSIT, LFST |-> L, valid |-> q.valid, storeList |-> q.storeList,
                memOps |-> q.memOps]
      <4>1. q = [SSIT |-> q.SSIT, LFST |-> q.LFST, valid |-> q.valid,
                 storeList |-> q.storeList, memOps |-> q.memOps]
        BY <1>1 DEF PredictorOK
      <4> QED BY ONLY <4>1, PredictorUpdates
    <3>2. u = [q2 EXCEPT !.storeList = l]
      <4>1. q1.valid = q.valid
        BY <3>1
      <4> QED BY <4>1 DEF L
    <3> HIDE DEF q1, V, u
    <3>3. q2 = [SSIT |-> q.SSIT, LFST |-> L, valid |-> V, storeList |-> q.storeList,
                memOps |-> q.memOps]
      BY <3>1, PredictorUpdates
    <3> HIDE DEF q2
    <3>4. u = [SSIT |-> q.SSIT, LFST |-> L, valid |-> V, storeList |-> l, memOps |-> q.memOps]
      BY <3>2, <3>3, PredictorUpdates
    <3> QED BY <3>4 DEF L, V
  <2> DEFINE L == [q.LFST EXCEPT ![s] = sn]
             V == [q.valid EXCEPT ![s] = TRUE]
  <2>3. /\ L \in [SSIDs -> Nat] /\ V \in [SSIDs -> BOOLEAN] /\ L[s] = sn
        /\ \A x \in SSIDs : x # s => L[x] = p.LFST[x]
    BY <1>1, <2>1 DEF PredictorOK
  <2>4. /\ DOMAIN l = DOMAIN q.storeList \cup {sn} /\ l[sn] = s
        /\ \A x \in DOMAIN q.storeList : x # sn => l[x] = q.storeList[x]
    OBVIOUS
  <2> HIDE DEF u, L, V, l
  <2>5. \A x \in DOMAIN l : x \in Nat /\ l[x] \in SSIDs
    BY <1>1, <2>1, <2>4 DEF PredictorOK
  <2>6. ASSUME NEW x \in DOMAIN l PROVE x <= L[l[x]]
    <3>1. CASE x = sn
      BY <2>3, <2>4, <3>1
    <3>2. CASE x # sn
      <4>1. /\ x \in DOMAIN q.storeList /\ l[x] = q.storeList[x] /\ x \in Nat
            /\ l[x] \in SSIDs /\ x <= p.LFST[l[x]] /\ p.LFST[l[x]] <= sn /\ p.LFST[l[x]] \in Nat
        BY <1>1, <2>4, <2>5, <3>2 DEF PredictorOK, ListBehindLFST
      <4> QED BY <2>3, <4>1
    <3> QED BY <3>1, <3>2
  <2>7. u.SSIT = q.SSIT /\ u.LFST = L /\ u.valid = V /\ u.storeList = l /\ u.memOps = q.memOps
    BY <2>2 DEF L, V
  <2>8. PredictorOK(u)
    <3>1. u = [SSIT |-> u.SSIT, LFST |-> u.LFST, valid |-> u.valid,
               storeList |-> u.storeList, memOps |-> u.memOps]
      BY <2>2, <2>7
    <3>2. ListBehindLFST(u)
      BY <2>6, <2>7 DEF ListBehindLFST
    <3> QED BY <1>1, <2>3, <2>5, <2>7, <3>1, <3>2 DEF PredictorOK
  <2>9. \A x \in SSIDs : u.LFST[x] \in {p.LFST[x], sn}
    BY <2>3, <2>7
  <2> QED BY <1>2, <1>5, <2>8, <2>9
<1> QED BY <1>4, <1>5

LEMMA StoreIssuedOK ==
  ASSUME NEW p, PredictorOK(p), NEW pc \in Nat, NEW sn
  PROVE  PredictorOK(StoreIssued(p, pc, sn)) /\ StoreIssued(p, pc, sn).LFST = p.LFST
<1> DEFINE l == Restrict(p.storeList, DOMAIN p.storeList \ {sn})
           q == [p EXCEPT !.storeList = l]
           s == SetOf(p, pc)
           u == [q EXCEPT !.valid[s] = q.valid[s] /\ p.LFST[s] # sn]
<1>1. StoreIssued(p, pc, sn) = IF s = NoSet THEN q ELSE u
  BY DEF StoreIssued
<1>2. s \in SSIDs \cup {NoSet}
  BY SetOfRange
<1>3. DOMAIN l \subseteq DOMAIN p.storeList /\ \A x \in DOMAIN l : l[x] = p.storeList[x]
  BY DEF Restrict
<1> HIDE DEF s, l
<1>4. q = [SSIT |-> p.SSIT, LFST |-> p.LFST, valid |-> p.valid, storeList |-> l,
           memOps |-> p.memOps]
  BY DEF PredictorOK
<1> HIDE DEF q
<1>5. PredictorOK(q) /\ q.LFST = p.LFST
  BY <1>3, <1>4 DEF PredictorOK, ListBehindLFST
<1>6. CASE s # NoSet
  <2> DEFINE v == [q.valid EXCEPT ![s] = q.valid[s] /\ p.LFST[s] # sn]
  <2>1. u = [SSIT |-> q.SSIT, LFST |-> q.LFST, valid |-> v, storeList |-> q.storeList,
             memOps |-> q.memOps]
    BY <1>4
  <2>2. v \in [SSIDs -> BOOLEAN]
    BY <1>2, <1>5, <1>6 DEF PredictorOK
  <2> HIDE DEF u, v
  <2>3. PredictorOK(u) /\ u.LFST = p.LFST
    BY <1>5, <2>1, <2>2 DEF PredictorOK, ListBehindLFST
  <2> QED BY <1>1, <1>6, <2>3
<1> QED BY <1>1, <1>5, <1>6

LEMMA SquashStoresOK ==
  ASSUME NEW p, PredictorOK(p), NEW to
  PROVE  PredictorOK(SquashStores(p, to)) /\ SquashStores(p, to).LFST = p.LFST
<1> DEFINE gone == {sn \in DOMAIN p.storeList : sn > to}
           l == Restrict(p.storeList, DOMAIN p.storeList \ gone)
           v == [s \in SSIDs |-> p.valid[s] /\ \A sn \in gone : p.storeList[sn] # s]
           q == [p EXCEPT !.storeList = l, !.valid = v]
<1>1. SquashStores(p, to) = q
  BY DEF SquashStores
<1>2. DOMAIN l \subseteq DOMAIN p.storeList /\ \A x \in DOMAIN l : l[x] = p.storeList[x]
  <2> HIDE DEF gone
  <2> QED BY DEF Restrict
<1>3. v \in [SSIDs -> BOOLEAN]
  <2> DEFINE w(s) == p.valid[s] /\ \A sn \in gone : p.storeList[sn] # s
  <2>1. \A s \in SSIDs : w(s) \in BOOLEAN
    BY DEF PredictorOK
  <2>2. v = [s \in SSIDs |-> w(s)]
    OBVIOUS
  <2> HIDE DEF w, v
  <2> QED BY <2>1, <2>2
<1> HIDE DEF l, v
<1>4. q = [SSIT |-> p.SSIT, LFST |-> p.LFST, valid |-> v, storeList |-> l, memOps |-> p.memOps]
  <2> DEFINE p1 == [p EXCEPT !.storeList = l]
  <2>1. q = [p1 EXCEPT !.valid = v]
    OBVIOUS
  <2> HIDE DEF q
  <2>2. p1 = [SSIT |-> p.SSIT, LFST |-> p.LFST, valid |-> p.valid, storeList |-> l,
              memOps |-> p.memOps]
    BY PredictorUpdates DEF PredictorOK
  <2> HIDE DEF p1
  <2> QED BY <2>1, <2>2, PredictorUpdates
<1> HIDE DEF q
<1>5. PredictorOK(q) /\ q.LFST = p.LFST
  BY <1>2, <1>3, <1>4 DEF PredictorOK, ListBehindLFST
<1> QED BY <1>1, <1>5

LEMMA BehindEnds ==
  ASSUME NEW p, PredictorOK(p), NEW to \in Nat
  PROVE  SquashEnds(p, to)
<1> SUFFICES ASSUME NEW sn \in DOMAIN p.storeList, sn > to
             PROVE  p.LFST[p.storeList[sn]] > to
  BY DEF SquashEnds
<1>1. sn \in Nat /\ p.storeList[sn] \in SSIDs /\ sn <= p.LFST[p.storeList[sn]]
  BY DEF PredictorOK, ListBehindLFST
<1>2. p.LFST[p.storeList[sn]] \in Nat
  BY <1>1 DEF PredictorOK
<1> QED BY <1>1, <1>2

-----------------------------------------------------------------------------
(* What the invariant says, in the form it is used in *)

LEMMA InstTypes ==
  ASSUME NEW x, x \in InstType
  PROVE  /\ x.pos \in Nat /\ x.unready \in Nat /\ x.wb \in {"no", "fresh", "ready"}
         /\ x.runahead \in BOOLEAN /\ x.issued \in BOOLEAN /\ x.executed \in BOOLEAN
         /\ x.memOpDone \in BOOLEAN /\ x.translated \in BOOLEAN
         /\ x.fault \in BOOLEAN /\ x.squashed \in BOOLEAN
BY DEF InstType

\* An instruction with one of its fields set.
LEMMA InstSets ==
  ASSUME NEW x, x \in InstType
  PROVE  /\ \A b \in BOOLEAN :
              /\ [x EXCEPT !.issued = b] \in InstType /\ [x EXCEPT !.executed = b] \in InstType
              /\ [x EXCEPT !.translated = b] \in InstType /\ [x EXCEPT !.fault = b] \in InstType
              /\ [x EXCEPT !.squashed = b] \in InstType /\ [x EXCEPT !.runahead = b] \in InstType
              /\ [x EXCEPT !.memOpDone = b] \in InstType
         /\ \A n \in Nat : [x EXCEPT !.unready = n] \in InstType
         /\ \A w \in {"no", "fresh", "ready"} : [x EXCEPT !.wb = w] \in InstType
BY DEF InstType

LEMMA ScTypes ==
  ASSUME Shape
  PROVE  /\ sc \in Scenario /\ sc.prog \in Seq(Op) /\ sc.units \in [Kinds -> Nat]
         /\ \A p \in DOMAIN sc.prog : p \in Nat \ {0} /\ sc.prog[p] \in Op
                                      /\ sc.prog[p].kind \in Kinds
<1>1. sc \in Scenario
  BY IqScenarioAssumption DEF Shape
<1>2. sc.prog \in Seq(Op) /\ sc.units \in [Kinds -> Nat]
  BY <1>1 DEF Scenario
<1>3. ASSUME NEW p \in DOMAIN sc.prog
      PROVE  p \in Nat \ {0} /\ sc.prog[p] \in Op /\ sc.prog[p].kind \in Kinds
  <2>1. Len(sc.prog) \in Nat /\ DOMAIN sc.prog = 1..Len(sc.prog) /\ sc.prog[p] \in Op
    BY <1>2, SeqBasics
  <2> QED BY <2>1 DEF Op
<1> QED BY <1>1, <1>2, <1>3

LEMMA ShapeFacts ==
  ASSUME Shape
  PROVE  /\ nextSn \in Nat /\ rob \in Seq(Nat) /\ Ascending(rob)
         /\ Range(rob) \subseteq DOMAIN inst /\ instList \subseteq DOMAIN inst
         /\ \A sn \in DOMAIN inst :
              /\ sn \in Nat /\ 0 < sn /\ sn < nextSn /\ inst[sn] \in InstType
              /\ inst[sn].pos \in DOMAIN sc.prog /\ Kind(sn) \in Kinds
         /\ done \in Nat /\ nonSpecSig \in Nat
         /\ walk.to \in Nat /\ squashSig.to \in Nat /\ squashed.to \in Nat
         /\ walk.on \in BOOLEAN /\ squashSig.on \in BOOLEAN
<1>1. /\ nextSn \in Nat /\ rob \in Seq(Nat) /\ Ascending(rob)
      /\ Range(rob) \subseteq DOMAIN inst /\ instList \subseteq DOMAIN inst
      /\ done \in Nat /\ nonSpecSig \in Nat /\ {walk, squashSig, squashed} \subseteq Signal
  BY DEF Shape
<1>2. ASSUME NEW sn \in DOMAIN inst
      PROVE  /\ sn \in Nat /\ 0 < sn /\ sn < nextSn /\ inst[sn] \in InstType
             /\ inst[sn].pos \in DOMAIN sc.prog /\ Kind(sn) \in Kinds
  <2>1. sn \in 1..(nextSn - 1) /\ inst[sn] \in InstType /\ inst[sn].pos \in DOMAIN sc.prog
    BY DEF Shape
  <2>2. Kind(sn) \in Kinds
    BY <2>1, ScTypes DEF Kind, OpOf
  <2> QED BY <1>1, <2>1, <2>2
<1>3. /\ walk.to \in Nat /\ squashSig.to \in Nat /\ squashed.to \in Nat
      /\ walk.on \in BOOLEAN /\ squashSig.on \in BOOLEAN
  BY <1>1 DEF Signal
<1> QED BY <1>1, <1>2, <1>3

LEMMA AtIs ==
  /\ At["ready"] = ReadySet(ready) /\ At["blocked"] = Range(blocked)
  /\ At["retry"] = Range(retry) /\ At["nonSpec"] = nonSpecInsts
  /\ At["execute"] = Range(instsToExecute) /\ At["unit"] = inUnit
  /\ At["deferred"] = Range(deferred) /\ At["replay"] = instsToReplay
  /\ At["memory"] = {sn \in sent : ~inst[sn].executed} /\ At["commit"] = Range(iewQueue)
BY DEF At, ReadySet

LEMMA AtIsNext ==
  /\ At["ready"]' = ReadySet(ready') /\ At["blocked"]' = Range(blocked')
  /\ At["retry"]' = Range(retry') /\ At["nonSpec"]' = nonSpecInsts'
  /\ At["execute"]' = Range(instsToExecute') /\ At["unit"]' = inUnit'
  /\ At["deferred"]' = Range(deferred') /\ At["replay"]' = instsToReplay'
  /\ At["memory"]' = {sn \in sent' : ~inst'[sn].executed} /\ At["commit"]' = Range(iewQueue')
BY DEF At, ReadySet

LEMMA PlacesAre ==
  ASSUME NEW p \in Places
  PROVE  \/ p = "ready" \/ p = "blocked" \/ p = "retry" \/ p = "nonSpec" \/ p = "execute"
         \/ p = "unit" \/ p = "deferred" \/ p = "replay" \/ p = "memory" \/ p = "commit"
BY DEF Places

-----------------------------------------------------------------------------
(* Moving instructions from place to place *)

\* inst changes only in the instructions of S, and not in what an instruction
\* is, what it waits for and whether it was written back.
Mild(S) ==
  /\ DOMAIN inst' = DOMAIN inst /\ inst' = [sn \in DOMAIN inst' |-> inst'[sn]]
  /\ \A sn \in DOMAIN inst :
       /\ inst'[sn] \in InstType /\ inst'[sn].pos = inst[sn].pos
       /\ inst'[sn].unready = inst[sn].unready /\ inst'[sn].memOpDone = inst[sn].memOpDone
       /\ (inst'[sn].wb = "no" <=> inst[sn].wb = "no")
       /\ (inst'[sn].runahead => inst[sn].runahead \/ inRunahead')
       /\ (inst[sn].squashed => inst'[sn].squashed) /\ (inst[sn].fault => inst'[sn].fault)
       /\ (inst[sn].executed => inst'[sn].executed)
       /\ (inst'[sn].fault => inst[sn].fault \/ inst'[sn].executed)
       /\ sn \notin S => /\ inst'[sn].issued = inst[sn].issued
                         /\ inst'[sn].executed = inst[sn].executed
                         /\ inst'[sn].squashed = inst[sn].squashed
                         /\ inst'[sn].fault = inst[sn].fault

\* What the queue knows of registers and stores, and the signals, stay.
KnowsSame ==
  /\ UNCHANGED <<sc, nextSn, rob, instList, dependGraph, regScoreboard, memDepHash>>
  /\ UNCHANGED <<barrierSNs, squashed, squashSig, walk, done>> /\ (inRunahead => inRunahead')

\* A barrier may be told to execute, the oldest instruction.
SigKept ==
  \/ nonSpecSig' = nonSpecSig /\ (nonSpecSig = 0 \/ phase' # "commit")
  \/ /\ nonSpecSig' \in nonSpecInsts /\ phase # "events" /\ phase' # "commit"
     /\ \A r \in Range(rob) : nonSpecSig' <= r

\* S moves to the place q, if it is one.
Moves(S, q) ==
  \A p \in Places : At[p]' = (At[p] \ S) \cup (IF p = q THEN S ELSE {})

Move(S, q) ==
  /\ Mild(S) /\ KnowsSame /\ Moves(S, q)
  /\ \A sn \in S : \E p \in Places \ {"nonSpec"} : sn \in At[p]
  /\ \A sn \in S : IF q \in Places THEN q # "nonSpec" /\ PlaceOK(q, sn)'
                   ELSE inst'[sn].squashed
  /\ \A sn \in S : inst'[sn].squashed => inst[sn].squashed \/ sn \notin Live

LEMMA MildKeeps ==
  ASSUME Shape, NEW S, Mild(S), KnowsSame
  PROVE  \A sn \in DOMAIN inst :
           /\ Kind(sn)' = Kind(sn) /\ (IsMemRef(sn)' <=> IsMemRef(sn)) /\ OpOf(sn)' = OpOf(sn)
           /\ (IsBarrier(sn)' <=> IsBarrier(sn))
           /\ (WaitsReg(sn)' <=> WaitsReg(sn)) /\ (WaitsMem(sn)' <=> WaitsMem(sn))
           /\ (Pending(sn) => Pending(sn)') /\ (InRange(sn)' <=> InRange(sn))
<1> TAKE sn \in DOMAIN inst
<1>1. inst'[sn].pos = inst[sn].pos /\ sc' = sc /\ inst'[sn].unready = inst[sn].unready
  BY DEF Mild, KnowsSame
<1>2. OpOf(sn)' = OpOf(sn)
  BY <1>1 DEF OpOf
<1>3. Kind(sn)' = Kind(sn)
  BY <1>2 DEF Kind
<1>4. (IsMemRef(sn)' <=> IsMemRef(sn)) /\ (IsBarrier(sn)' <=> IsBarrier(sn))
  BY <1>3 DEF IsMemRef, IsBarrier
<1>5. (WaitsReg(sn)' <=> WaitsReg(sn)) /\ (WaitsMem(sn)' <=> WaitsMem(sn))
  BY <1>1 DEF WaitsReg, WaitsMem, KnowsSame
<1>6. Pending(sn) => Pending(sn)'
  BY DEF Pending, Mild
<1>7. InRange(sn)' <=> InRange(sn)
  BY DEF InRange, KnowsSame
<1> QED BY <1>2, <1>3, <1>4, <1>5, <1>6, <1>7

\* What moves does not wait, and has not been written back.
LEMMA MoveNotWaiting ==
  ASSUME PlaceInv, NEW S, NEW q, Move(S, q), NEW sn \in S
  PROVE  ~WaitsReg(sn) /\ ~WaitsMem(sn) /\ inst[sn].wb = "no"
BY DEF Move, PlaceInv, PlaceOK

LEMMA MoveApart ==
  ASSUME Shape, PlaceInv, NEW S, NEW q, Move(S, q)
  PROVE  PlacesApart' /\ \A p \in Places : At[p]' \subseteq DOMAIN inst'
<1>1. S \subseteq DOMAIN inst
  BY DEF Shape, Move
<1>2. \A p \in Places : At[p]' = (At[p] \ S) \cup (IF p = q THEN S ELSE {})
  BY DEF Move, Moves
<1>3. DOMAIN inst' = DOMAIN inst
  BY DEF Move, Mild
<1>4. \A p \in Places : At[p]' \subseteq DOMAIN inst'
  BY <1>1, <1>2, <1>3 DEF Shape
<1>5. PlacesApart'
  BY <1>2 DEF PlacesApart, PlaceInv
<1> QED BY <1>4, <1>5

LEMMA MovePlaceOK ==
  ASSUME Shape, PlaceInv, NEW S, NEW q, Move(S, q), NEW p \in Places, NEW sn \in At[p]'
  PROVE  PlaceOK(p, sn)'
<1>1. At[p]' = (At[p] \ S) \cup (IF p = q THEN S ELSE {})
  BY DEF Move, Moves
<1>2. CASE sn \in S
  BY <1>1, <1>2 DEF Move
<1>3. CASE sn \notin S
  <2>1. sn \in At[p] /\ PlaceOK(p, sn) /\ sn \in DOMAIN inst
    BY <1>1, <1>3 DEF PlaceInv, Shape
  <2>2. /\ Kind(sn)' = Kind(sn) /\ (IsMemRef(sn)' <=> IsMemRef(sn))
        /\ (WaitsReg(sn)' <=> WaitsReg(sn)) /\ (WaitsMem(sn)' <=> WaitsMem(sn))
    BY <2>1, MildKeeps DEF Move
  <2>3. /\ (inst'[sn].wb = "no" <=> inst[sn].wb = "no") /\ inst'[sn].issued = inst[sn].issued
        /\ inst'[sn].executed = inst[sn].executed /\ inst'[sn].squashed = inst[sn].squashed
        /\ instList' = instList
    BY <1>3, <2>1 DEF Move, Mild, KnowsSame
  <2> QED BY <2>1, <2>2, <2>3 DEF PlaceOK
<1> QED BY <1>2, <1>3

LEMMA MovePlaces ==
  ASSUME Shape, PlaceInv, NEW S, NEW q, Move(S, q), SigKept
  PROVE  PlaceInv'
<1>1. PlacesApart' /\ \A p \in Places : \A sn \in At[p]' : PlaceOK(p, sn)'
  BY MoveApart, MovePlaceOK
<1>2. nonSpecInsts' = nonSpecInsts
  <2>1. nonSpecInsts' = (nonSpecInsts \ S) \cup (IF "nonSpec" = q THEN S ELSE {})
    BY AtIs, AtIsNext DEF Move, Moves, Places
  <2>2. nonSpecInsts \cap S = {} /\ ("nonSpec" = q => S = {})
    BY AtIs DEF Move, PlaceInv, PlacesApart, Places
  <2> QED BY <2>1, <2>2
<1>3. nonSpecSig' # 0 => nonSpecSig' \in nonSpecInsts /\ phase' # "commit"
  BY DEF SigKept, PlaceInv
<1> QED BY <1>1, <1>2, <1>3 DEF PlaceInv

LEMMA MoveSomewhere ==
  ASSUME Shape, PlaceInv, Somewhere, NEW S, NEW q, Move(S, q)
  PROVE  Somewhere'
<1> SUFFICES ASSUME NEW sn \in instList', ~inst'[sn].squashed, inst'[sn].wb = "no"
             PROVE  \/ \E p \in Places : sn \in At[p]'
                    \/ ~inst'[sn].executed /\ (WaitsReg(sn)' \/ WaitsMem(sn)')
  BY DEF Somewhere, SomewhereOK
<1>1. sn \in instList /\ sn \in DOMAIN inst
  BY DEF Move, KnowsSame, Shape
<1>2. ~inst[sn].squashed /\ inst[sn].wb = "no"
  BY <1>1 DEF Move, Mild
<1>3. CASE sn \in S
  <2>1. q \in Places
    BY <1>3 DEF Move
  <2>2. sn \in At[q]'
    BY <1>3, <2>1 DEF Move, Moves
  <2> QED BY <2>1, <2>2
<1>4. CASE sn \notin S
  <2>1. CASE \E p \in Places : sn \in At[p]
    <3>1. PICK p \in Places : sn \in At[p]
      BY <2>1
    <3>2. sn \in At[p]'
      BY <1>4, <3>1 DEF Move, Moves
    <3> QED BY <3>2
  <2>2. CASE ~inst[sn].executed /\ (WaitsReg(sn) \/ WaitsMem(sn))
    <3>1. inst'[sn].executed = inst[sn].executed
      BY <1>1, <1>4 DEF Move, Mild
    <3> QED BY <1>1, <2>2, <3>1, MildKeeps DEF Move
  <2> QED BY <1>1, <1>2, <2>1, <2>2 DEF Somewhere, SomewhereOK
<1> QED BY <1>3, <1>4

LEMMA MoveFlags ==
  ASSUME Shape, PlaceInv, FlagInv, NEW S, NEW q, Move(S, q)
  PROVE  FlagInv'
<1>1. DOMAIN inst' = DOMAIN inst /\ instList' = instList /\ instList \subseteq DOMAIN inst
  BY DEF Move, Mild, KnowsSame, Shape
<1>2. ASSUME NEW sn \in DOMAIN inst PROVE FlagOK(sn)'
  <2>1. /\ inst'[sn].memOpDone = inst[sn].memOpDone /\ (inst'[sn].wb = "no" <=> inst[sn].wb = "no")
        /\ (inst[sn].squashed => inst'[sn].squashed) /\ (inst[sn].fault => inst'[sn].fault)
        /\ (inst[sn].executed => inst'[sn].executed)
        /\ (inst'[sn].fault => inst[sn].fault \/ inst'[sn].executed)
    BY DEF Move, Mild
  <2>2. FlagOK(sn) /\ (IsMemRef(sn)' <=> IsMemRef(sn))
    BY MildKeeps DEF FlagInv, Move
  <2>3. CASE sn \in S
    <3>1. inst[sn].wb = "no"
      BY <2>3, MoveNotWaiting
    <3> QED BY <2>1, <2>2, <3>1 DEF FlagOK
  <2>4. CASE sn \notin S
    <3>1. inst'[sn].executed = inst[sn].executed /\ inst'[sn].issued = inst[sn].issued
      BY <2>4 DEF Move, Mild
    <3> QED BY <2>1, <2>2, <3>1 DEF FlagOK
  <2> QED BY <2>3, <2>4
<1>3. ASSUME NEW sn \in instList PROVE WaitOK(sn)'
  <2>1. sn \in DOMAIN inst /\ WaitOK(sn)
    BY <1>1 DEF FlagInv
  <2>2. (WaitsReg(sn)' <=> WaitsReg(sn)) /\ (WaitsMem(sn)' <=> WaitsMem(sn))
    BY <2>1, MildKeeps DEF Move
  <2>3. sn \notin S => /\ inst'[sn].executed = inst[sn].executed
                       /\ inst'[sn].issued = inst[sn].issued /\ (inst'[sn].wb = "no" <=> inst[sn].wb = "no")
    BY <2>1 DEF Move, Mild
  <2>4. sn \in S => ~WaitsReg(sn) /\ ~WaitsMem(sn)
    BY MoveNotWaiting
  <2> QED BY <2>1, <2>2, <2>3, <2>4 DEF WaitOK
<1> QED BY <1>1, <1>2, <1>3 DEF FlagInv

LEMMA MoveLive ==
  ASSUME Shape, LiveInv, NEW S, NEW q, Move(S, q)
  PROVE  LiveInv'
<1>1. Live' = Live /\ Listed' = Listed
  BY DEF Live, Listed, Move, KnowsSame
<1>2. ASSUME NEW sn \in Live PROVE LiveOK(sn)'
  <2>1. LiveOK(sn) /\ sn \in DOMAIN inst
    BY DEF LiveInv, Live, Shape
  <2>2. (InRange(sn)' <=> InRange(sn)) /\ (inRunahead => inRunahead')
    BY <2>1, MildKeeps DEF Move, KnowsSame
  <2>3. inst'[sn].runahead => inst[sn].runahead \/ inRunahead'
    BY <2>1 DEF Move, Mild
  <2>4. inst'[sn].squashed => inst[sn].squashed
    BY <2>1 DEF Move, Mild
  <2> QED BY <2>1, <2>2, <2>3, <2>4 DEF LiveOK
<1> QED BY <1>1, <1>2 DEF LiveInv

LEMMA MoveRob ==
  ASSUME Shape, PlaceInv, RobInv, NEW S, NEW q, Move(S, q)
  PROVE  RobInv'
<1>1. /\ DOMAIN inst' = DOMAIN inst /\ instList' = instList /\ rob' = rob /\ done' = done
      /\ walk' = walk /\ instList \subseteq DOMAIN inst
  BY DEF Move, Mild, KnowsSame, Shape
<1>2. ASSUME NEW sn \in instList PROVE ListedOK(sn)'
  <2>1. sn \in DOMAIN inst /\ ListedOK(sn)
    BY <1>1 DEF RobInv
  <2>2. /\ (inst'[sn].wb = "no" <=> inst[sn].wb = "no") /\ (inst[sn].squashed => inst'[sn].squashed)
        /\ inst'[sn].memOpDone = inst[sn].memOpDone /\ (IsMemRef(sn)' <=> IsMemRef(sn))
    BY <2>1, MildKeeps DEF Move, Mild
  <2>3. sn \in S => inst[sn].wb = "no"
    BY MoveNotWaiting
  <2>4. sn \notin S => inst'[sn].issued = inst[sn].issued
    BY <2>1 DEF Move, Mild
  <2>5. sn <= done => inst'[sn].wb # "no" /\ ~InQueue(sn)'
    BY <2>1, <2>2, <2>3, <2>4 DEF ListedOK, InQueue
  <2> QED BY <1>1, <2>1, <2>2, <2>5 DEF ListedOK
<1>3. ASSUME NEW sn \in DOMAIN inst \ instList PROVE UnlistedOK(sn)'
  <2>1. /\ UnlistedOK(sn) /\ (inst[sn].squashed => inst'[sn].squashed)
        /\ (InRange(sn)' <=> InRange(sn)) /\ (inst'[sn].wb = "no" <=> inst[sn].wb = "no")
    BY MildKeeps DEF RobInv, Move, Mild
  <2> QED BY <1>1, <2>1 DEF UnlistedOK
<1> QED BY <1>1, <1>2, <1>3 DEF RobInv

LEMMA MoveGraph ==
  ASSUME Shape, GraphInv, NEW S, NEW q, Move(S, q)
  PROVE  GraphInv'
<1>1. /\ DOMAIN inst' = DOMAIN inst /\ instList' = instList /\ rob' = rob /\ done' = done
      /\ dependGraph' = dependGraph /\ regScoreboard' = regScoreboard
      /\ instList \subseteq DOMAIN inst /\ Range(rob) \subseteq DOMAIN inst
  BY DEF Move, Mild, KnowsSame, Shape
<1>2. ASSUME NEW d \in dependGraph PROVE EdgeOK(d)'
  <2>1. EdgeOK(d)
    BY DEF GraphInv
  <2>2. Pending(d[1])' /\ OpOf(d[1])' = OpOf(d[1]) /\ (IsBarrier(d[2])' <=> IsBarrier(d[2]))
    BY <1>1, <2>1, MildKeeps DEF EdgeOK, Move
  <2> QED BY <1>1, <2>1, <2>2 DEF EdgeOK
<1>3. ASSUME NEW sn \in instList
      PROVE  /\ inst'[sn].unready = Cardinality(EdgesTo(sn)')
             /\ ~IsBarrier(sn)' => SourcesOK(sn)'
  <2>1. sn \in DOMAIN inst /\ inst[sn].unready = Cardinality(EdgesTo(sn))
    BY <1>1 DEF GraphInv
  <2>2. EdgesTo(sn)' = EdgesTo(sn) /\ inst'[sn].unready = inst[sn].unready
    BY <1>1, <2>1 DEF EdgesTo, Move, Mild
  <2>3. (IsBarrier(sn)' <=> IsBarrier(sn)) /\ OpOf(sn)' = OpOf(sn)
    BY <2>1, MildKeeps DEF Move
  <2>4. \A r \in Range(rob) : inst'[r].pos = inst[r].pos
    BY <1>1 DEF Move, Mild
  <2>5. SourcesOK(sn) => SourcesOK(sn)'
    BY <1>1, <2>3, <2>4 DEF SourcesOK
  <2> QED BY <2>1, <2>2, <2>3, <2>5 DEF GraphInv
<1>4. ASSUME NEW x \in Range(rob), x \in regScoreboard
      PROVE  Pending(x)' /\ HasDest(OpOf(x)')
  <2>1. Pending(x) /\ HasDest(OpOf(x)) /\ x \in DOMAIN inst
    BY <1>1, <1>4 DEF GraphInv
  <2>2. (Pending(x) => Pending(x)') /\ OpOf(x)' = OpOf(x)
    BY <2>1, MildKeeps DEF Move
  <2> QED BY <2>1, <2>2
<1>5. \A r \in regScoreboard' : r \in Nat /\ r < nextSn'
  BY DEF GraphInv, Move, KnowsSame
<1> QED BY <1>1, <1>2, <1>3, <1>4, <1>5 DEF GraphInv

LEMMA MoveHash ==
  ASSUME Shape, HashInv, NEW S, NEW q, Move(S, q)
  PROVE  HashInv'
<1>1. /\ DOMAIN inst' = DOMAIN inst /\ instList' = instList /\ done' = done
      /\ memDepHash' = memDepHash /\ nextSn' = nextSn /\ instList \subseteq DOMAIN inst
  BY DEF Move, Mild, KnowsSame, Shape
<1>2. ASSUME NEW sn \in DOMAIN memDepHash PROVE HashOK(sn)'
  <2>1. HashOK(sn) /\ sn \in DOMAIN inst
    BY <1>1 DEF HashInv, HashOK
  <2>2. /\ (IsMemRef(sn)' <=> IsMemRef(sn)) /\ (IsBarrier(sn)' <=> IsBarrier(sn))
        /\ (Pending(sn) => Pending(sn)') /\ (WaitsReg(sn)' <=> WaitsReg(sn))
        /\ Kind(sn)' = Kind(sn)
    BY <2>1, MildKeeps DEF Move
  <2>3. Producers(sn)' = Producers(sn)
    BY <1>1 DEF Producers
  <2>4. \A c \in DOMAIN inst : IsMemRef(c)' <=> IsMemRef(c)
    BY MildKeeps DEF Move
  <2> QED BY <1>1, <2>1, <2>2, <2>3, <2>4 DEF HashOK
<1>3. ASSUME NEW sn \in instList, IsMemRef(sn)' \/ IsBarrier(sn)', inst'[sn].wb = "no"
      PROVE  sn \in DOMAIN memDepHash
  <2>1. sn \in DOMAIN inst /\ (inst'[sn].wb = "no" <=> inst[sn].wb = "no")
    BY <1>1 DEF Move, Mild
  <2>2. (IsMemRef(sn)' <=> IsMemRef(sn)) /\ (IsBarrier(sn)' <=> IsBarrier(sn))
    BY <2>1, MildKeeps DEF Move
  <2> QED BY <1>3, <2>1, <2>2 DEF HashInv
<1> QED BY <1>1, <1>2, <1>3 DEF HashInv

LEMMA MoveBarriers ==
  ASSUME Shape, HashInv, BarrierInv, NEW S, NEW q, Move(S, q), SigKept
  PROVE  BarrierInv'
<1>1. /\ DOMAIN inst' = DOMAIN inst /\ instList' = instList /\ barrierSNs' = barrierSNs
      /\ memDepHash' = memDepHash /\ rob' = rob
      /\ instList \subseteq DOMAIN inst /\ DOMAIN memDepHash \subseteq DOMAIN inst
      /\ \A p \in Places : At[p] \subseteq DOMAIN inst
  BY DEF Move, Mild, KnowsSame, Shape, HashInv, HashOK
<1>2. \A sn \in DOMAIN inst : (IsMemRef(sn)' <=> IsMemRef(sn)) /\ (IsBarrier(sn)' <=> IsBarrier(sn))
  BY MildKeeps DEF Move
<1>3. \A sn \in DOMAIN inst : (inst'[sn].wb = "no" <=> inst[sn].wb = "no")
  BY DEF Move, Mild
<1>4. ASSUME NEW p \in Places \ {"nonSpec"}, NEW sn \in At[p]', IsBarrier(sn)'
      PROVE  \A r \in Range(rob) : sn <= r
  <2>1. PICK o \in Places \ {"nonSpec"} : sn \in At[o]
    BY <1>4 DEF Move, Moves
  <2> QED BY <1>1, <1>2, <1>4, <2>1 DEF BarrierInv
<1>5. \A b \in DOMAIN memDepHash : IsBarrier(b)' /\ inst'[b].wb = "no" =>
        /\ b \in barrierSNs
        /\ \A c \in DOMAIN memDepHash : IsMemRef(c)' /\ b < c => c \in memDepHash[b].dependInsts
  BY <1>1, <1>2, <1>3 DEF BarrierInv
<1>6. \A sn \in barrierSNs : sn \in DOMAIN memDepHash /\ IsBarrier(sn)'
  BY <1>1, <1>2 DEF BarrierInv
<1>7. nonSpecSig' # 0 => \A r \in Range(rob) : nonSpecSig' <= r
  BY DEF SigKept, BarrierInv
<1> QED BY <1>1, <1>4, <1>5, <1>6, <1>7 DEF BarrierInv

\* What else a step that only moves instructions may change.
Quiet ==
  /\ phase' \in Phases /\ (phase' = phase \/ phase # "events") /\ SigKept
  /\ UNCHANGED <<nextPos, robSquashing>>
  /\ orderIt' \in Nat /\ freeEntries' \in Nat
  /\ {inRunahead', exitRunahead'} \subseteq BOOLEAN /\ (exitRunahead' => inRunahead')
  /\ cause'.pos \in Nat /\ (inRunahead' => cause'.pos > 0)
  /\ RedirectOK(iewSquash') /\ RedirectOK(iewSquashNow') /\ sent' \subseteq DOMAIN inst
  /\ \A s \in Lists' : s \in Seq(Nat) /\ Distinct(s)

LEMMA MoveShape ==
  ASSUME Shape, PlaceInv, NEW S, NEW q, Move(S, q), Quiet
  PROVE  Shape'
<1>1. /\ DOMAIN inst' = DOMAIN inst /\ inst' = [sn \in DOMAIN inst' |-> inst'[sn]]
      /\ \A sn \in DOMAIN inst : inst'[sn] \in InstType /\ inst'[sn].pos = inst[sn].pos
  BY DEF Move, Mild
<1>2. /\ UNCHANGED <<sc, nextSn, rob, instList, squashed, squashSig, walk>>
      /\ done' = done
  BY DEF Move, KnowsSame
<1>3. \A p \in Places : At[p]' \subseteq DOMAIN inst'
  BY MoveApart
<1>4. \A sn \in DOMAIN inst' : inst'[sn] \in InstType /\ inst'[sn].pos \in DOMAIN sc'.prog
  BY <1>1, <1>2 DEF Shape
<1>5. /\ sc' \in Scenarios /\ nextSn' \in Nat \ {0} /\ nextPos' \in Nat \ {0}
      /\ DOMAIN inst' \subseteq 1..(nextSn' - 1)
      /\ rob' \in Seq(Nat) /\ Ascending(rob') /\ Range(rob') \subseteq DOMAIN inst'
      /\ instList' \subseteq DOMAIN inst'
  BY <1>1, <1>2 DEF Shape, Quiet
<1>6. /\ {walk', squashSig', squashed'} \subseteq Signal /\ RedirectOK(iewSquashNow')
      /\ done' \in Nat /\ nonSpecSig' \in Nat /\ cause'.pos \in Nat
      /\ (inRunahead' => cause'.pos > 0) /\ {inRunahead', exitRunahead'} \subseteq BOOLEAN
      /\ (exitRunahead' => inRunahead')
  <2>1. At["nonSpec"] \subseteq Nat
    BY ShapeFacts DEF Shape, Places
  <2>2. nonSpecSig' \in Nat
    BY <2>1, AtIs DEF Shape, Quiet, SigKept
  <2> QED BY <1>2, <2>2 DEF Shape, Quiet
<1>7. /\ phase' \in Phases /\ freeEntries' \in Nat /\ orderIt' \in Nat
      /\ RedirectOK(iewSquash') /\ sent' \subseteq DOMAIN inst'
      /\ \A s \in Lists' : s \in Seq(Nat) /\ Distinct(s)
  BY <1>1 DEF Quiet
<1> QED BY <1>1, <1>3, <1>4, <1>5, <1>6, <1>7 DEF Shape

LEMMA MoveSignals ==
  ASSUME SignalInv, NEW S, NEW q, Move(S, q), Quiet
  PROVE  SignalInv'
<1>1. UNCHANGED <<walk, squashSig, squashed, nextSn, done, robSquashing>>
  BY DEF Move, KnowsSame, Quiet
<1>2. squashSig.on => phase' = "events"
  BY DEF SignalInv, Quiet
<1>3. squashSig.on => nonSpecSig' = 0
  BY DEF SignalInv, Quiet, SigKept
<1> QED BY <1>1, <1>2, <1>3 DEF SignalInv

\* A step that moves instructions keeps all but what it adds to or takes from
\* the ready lists, the predictor, the units and the free entries.
Kept ==
  /\ Shape' /\ PlaceInv' /\ Somewhere' /\ FlagInv' /\ SignalInv' /\ LiveInv'
  /\ RobInv' /\ GraphInv' /\ HashInv' /\ BarrierInv'

LEMMA MoveKeeps ==
  ASSUME IqInv, NEW S, NEW q, Move(S, q), Quiet
  PROVE  Kept
<1>1. /\ Shape /\ PlaceInv /\ Somewhere /\ FlagInv /\ SignalInv /\ LiveInv
      /\ RobInv /\ GraphInv /\ HashInv /\ BarrierInv
  BY DEF IqInv
<1>2. Shape' /\ SignalInv'
  BY <1>1, MoveShape, MoveSignals
<1>3. PlaceInv'
  BY <1>1, MovePlaces DEF Quiet
<1>4. Somewhere' /\ FlagInv'
  BY <1>1, MoveSomewhere, MoveFlags
<1>5. LiveInv' /\ RobInv'
  BY <1>1, MoveLive, MoveRob
<1>6. GraphInv' /\ HashInv'
  BY <1>1, MoveGraph, MoveHash
<1>7. BarrierInv'
  BY <1>1, MoveBarriers DEF Quiet
<1> QED BY <1>2, <1>3, <1>4, <1>5, <1>6, <1>7 DEF Kept

LEMMA SameReady ==
  ASSUME Shape, ReadyInv, NEW S, NEW q, Move(S, q), PlaceInv, ready' = ready
  PROVE  ReadyInv'
<1>1. \A k \in Kinds : Range(ready.insts[k]) \subseteq DOMAIN inst
  BY AtIs DEF Shape, Places, ReadySet
<1>2. \A sn \in DOMAIN inst : Kind(sn)' = Kind(sn)
  BY MildKeeps DEF Move
<1> QED BY <1>1, <1>2 DEF ReadyInv

\* The predictor knows of no more stores.
PredictorKept == PredictorOK(depPred') /\ depPred'.LFST = depPred.LFST

LEMMA SamePredictor ==
  ASSUME Shape, PredictorInv, NEW S, NEW q, Move(S, q), PredictorKept
  PROVE  PredictorInv'
<1>1. \A sn \in DOMAIN inst : Kind(sn)' = Kind(sn)
  BY MildKeeps DEF Move
<1>2. DOMAIN inst' = DOMAIN inst /\ nextSn' = nextSn
  BY DEF Move, Mild, KnowsSame
<1> QED BY <1>1, <1>2 DEF PredictorInv, PredictorKept

LEMMA SameUnits ==
  ASSUME Shape, UnitInv, NEW S, NEW q, Move(S, q),
         UNCHANGED <<inUnit, unitBusy, unitsToBeFreed>>
  PROVE  UnitInv'
<1>1. \A sn \in inUnit : Kind(sn)' = Kind(sn)
  <2>1. inUnit \subseteq DOMAIN inst
    BY AtIs DEF Shape, Places
  <2> QED BY <2>1, MildKeeps DEF Move
<1>2. sc' = sc
  BY DEF Move, KnowsSame
<1>3. ASSUME NEW k \in Kinds
      PROVE  {sn \in inUnit' : Kind(sn)' = k} = {sn \in inUnit : Kind(sn) = k}
  BY <1>1
<1> QED BY <1>2, <1>3 DEF UnitInv, UnitsConserved

\* What moves keeps its entry of the queue, or has none.
KeepsEntry(S) == \A sn \in S : inst'[sn].issued = inst[sn].issued \/ IsMemRef(sn)

LEMMA SameQueue ==
  ASSUME Shape, PlaceInv, FlagInv, NEW S, NEW q, Move(S, q),
         KeepsEntry(S)
  PROVE  \A sn \in instList : InQueue(sn)' <=> InQueue(sn)
<1> TAKE sn \in instList
<1>1. sn \in DOMAIN inst
  BY DEF Shape
<1>2. inst'[sn].memOpDone = inst[sn].memOpDone /\ (IsMemRef(sn)' <=> IsMemRef(sn))
  BY <1>1, MildKeeps DEF Move, Mild
<1>3. CASE inst'[sn].issued = inst[sn].issued
  BY <1>2, <1>3 DEF InQueue
<1>4. CASE inst'[sn].issued # inst[sn].issued
  <2>1. sn \in S
    BY <1>1, <1>4 DEF Move, Mild
  <2>2. ~inst[sn].memOpDone
    BY <2>1, <1>1, MoveNotWaiting DEF FlagInv, FlagOK
  <2>3. IsMemRef(sn)
    BY <2>1, <1>4 DEF KeepsEntry
  <2> QED BY <1>2, <1>4, <2>2, <2>3 DEF InQueue
<1> QED BY <1>3, <1>4

LEMMA SameEntries ==
  ASSUME IqInv, NEW S, NEW q, Move(S, q), freeEntries' = freeEntries,
         KeepsEntry(S)
  PROVE  EntriesConserved'
<1>1. instList' = instList
  BY DEF Move, KnowsSame
<1>2. {sn \in instList' : InQueue(sn)'} = {sn \in instList : InQueue(sn)}
  BY <1>1, SameQueue DEF IqInv
<1> QED BY <1>2 DEF EntriesConserved, IqInv

LEMMA SameKept ==
  ASSUME IqInv, depPred' = depPred
  PROVE  PredictorKept
BY DEF IqInv, PredictorInv, PredictorKept

\* All of it, for a step that does none of these.
LEMMA MoveOnly ==
  ASSUME IqInv, NEW S, NEW q, Move(S, q), Quiet, PredictorKept,
         UNCHANGED <<ready, inUnit, unitBusy, unitsToBeFreed, freeEntries>>,
         KeepsEntry(S)
  PROVE  IqInv'
<1>1. Kept /\ EntriesConserved'
  BY MoveKeeps, SameEntries
<1>2. Shape /\ ReadyInv /\ PlaceInv /\ PredictorInv /\ UnitInv
  BY DEF IqInv
<1>3. ReadyInv' /\ UnitInv'
  BY <1>2, SameReady, SameUnits
<1>4. PredictorInv'
  BY <1>2, SamePredictor
<1> QED BY <1>1, <1>3, <1>4 DEF IqInv, Kept

-----------------------------------------------------------------------------
(* Steps that move instructions *)

QueueOK(s) == s \in Seq(Nat) /\ Distinct(s)

LEMMA ListsAre ==
  ASSUME Shape
  PROVE  QueueOK(deferred) /\ QueueOK(blocked) /\ QueueOK(retry)
         /\ QueueOK(instsToExecute) /\ QueueOK(iewQueue)
BY DEF Shape, Lists, QueueOK

LEMMA ListsNext ==
  ASSUME QueueOK(deferred'), QueueOK(blocked'), QueueOK(retry'),
         QueueOK(instsToExecute'), QueueOK(iewQueue')
  PROVE  \A s \in Lists' : s \in Seq(Nat) /\ Distinct(s)
BY DEF Lists, QueueOK

LEMMA QueueAppend ==
  ASSUME NEW s, QueueOK(s), NEW x, x \in Nat, x \notin Range(s)
  PROVE  QueueOK(Append(s, x)) /\ Range(Append(s, x)) = Range(s) \cup {x}
BY AppendSeq DEF QueueOK

LEMMA QueueTail ==
  ASSUME NEW s, QueueOK(s), s # <<>>
  PROVE  /\ QueueOK(Tail(s)) /\ Head(s) \in Range(s)
         /\ Range(Tail(s)) = Range(s) \ {Head(s)}
<1>1. s \in Seq(Nat) /\ Distinct(s)
  BY DEF QueueOK
<1>2. /\ Tail(s) \in Seq(Nat) /\ Range(s) = Range(Tail(s)) \cup {Head(s)}
      /\ Distinct(Tail(s)) /\ Head(s) \notin Range(Tail(s))
  BY ONLY <1>1, s # <<>>, TailSeq
<1> QED BY <1>2 DEF QueueOK

LEMMA QueueConcat ==
  ASSUME NEW s, NEW t, QueueOK(s), QueueOK(t), Range(s) \cap Range(t) = {}
  PROVE  QueueOK(s \o t) /\ Range(s \o t) = Range(s) \cup Range(t)
BY ConcatSeq DEF QueueOK

LEMMA QueueRemoveAt ==
  ASSUME NEW s, QueueOK(s), NEW i \in DOMAIN s
  PROVE  QueueOK(RemoveAt(s, i)) /\ Range(RemoveAt(s, i)) = Range(s) \ {s[i]}
BY RemoveAtSeq DEF QueueOK

LEMMA QueueEmpty == QueueOK(<<>>) /\ Range(<<>>) = {}
<1>1. <<>> \in Seq(Nat)
  OBVIOUS
<1>3. Range(<<>>) = {}
  BY DEF Range
<1>2. Distinct(<<>>)
  BY DEF Distinct
<1> QED BY <1>1, <1>2, <1>3 DEF QueueOK

\* Nothing that Mild constrains changes.
LEMMA MildSame ==
  ASSUME Shape, inst' = inst, NEW S
  PROVE  Mild(S)
BY DEF Shape, Mild

LEMMA MildOne ==
  ASSUME Shape, NEW sn \in DOMAIN inst, NEW x, x \in InstType,
         inst' = [inst EXCEPT ![sn] = x],
         x.pos = inst[sn].pos, x.runahead = inst[sn].runahead, x.unready = inst[sn].unready,
         x.memOpDone = inst[sn].memOpDone, x.wb = inst[sn].wb,
         inst[sn].squashed => x.squashed, inst[sn].fault => x.fault,
         inst[sn].executed => x.executed, x.fault => inst[sn].fault \/ x.executed
  PROVE  Mild({sn}) /\ inst'[sn] = x
<1>1. DOMAIN inst' = DOMAIN inst /\ inst' = [n \in DOMAIN inst' |-> inst'[n]]
  OBVIOUS
<1>2. inst'[sn] = x /\ \A n \in DOMAIN inst : n # sn => inst'[n] = inst[n]
  OBVIOUS
<1>3. \A n \in DOMAIN inst : inst[n] \in InstType
  BY DEF Shape
<1> QED BY <1>1, <1>2, <1>3 DEF Mild

LEMMA PlacesNext ==
  ASSUME NEW S, NEW q,
         ReadySet(ready') = (ReadySet(ready) \ S) \cup (IF q = "ready" THEN S ELSE {}),
         Range(blocked') = (Range(blocked) \ S) \cup (IF q = "blocked" THEN S ELSE {}),
         Range(retry') = (Range(retry) \ S) \cup (IF q = "retry" THEN S ELSE {}),
         nonSpecInsts' = (nonSpecInsts \ S) \cup (IF q = "nonSpec" THEN S ELSE {}),
         Range(instsToExecute') = (Range(instsToExecute) \ S) \cup (IF q = "execute" THEN S ELSE {}),
         inUnit' = (inUnit \ S) \cup (IF q = "unit" THEN S ELSE {}),
         Range(deferred') = (Range(deferred) \ S) \cup (IF q = "deferred" THEN S ELSE {}),
         instsToReplay' = (instsToReplay \ S) \cup (IF q = "replay" THEN S ELSE {}),
         At["memory"]' = (At["memory"] \ S) \cup (IF q = "memory" THEN S ELSE {}),
         Range(iewQueue') = (Range(iewQueue) \ S) \cup (IF q = "commit" THEN S ELSE {})
  PROVE  Moves(S, q)
<1> SUFFICES ASSUME NEW p \in Places
             PROVE  At[p]' = (At[p] \ S) \cup (IF p = q THEN S ELSE {})
  BY DEF Moves
<1>1. CASE p = "ready"
  BY <1>1, AtIs, AtIsNext
<1>2. CASE p = "blocked"
  BY <1>2, AtIs, AtIsNext
<1>3. CASE p = "retry"
  BY <1>3, AtIs, AtIsNext
<1>4. CASE p = "nonSpec"
  BY <1>4, AtIs, AtIsNext
<1>5. CASE p = "execute"
  BY <1>5, AtIs, AtIsNext
<1>6. CASE p = "unit"
  BY <1>6, AtIs, AtIsNext
<1>7. CASE p = "deferred"
  BY <1>7, AtIs, AtIsNext
<1>8. CASE p = "replay"
  BY <1>8, AtIs, AtIsNext
<1>9. CASE p = "memory"
  BY <1>9
<1>10. CASE p = "commit"
  BY <1>10, AtIs, AtIsNext
<1> QED BY <1>1, <1>2, <1>3, <1>4, <1>5, <1>6, <1>7, <1>8, <1>9, <1>10, PlacesAre

\* An instruction is in no other place.
LEMMA Elsewhere ==
  ASSUME PlaceInv, NEW p \in Places, NEW sn \in At[p], NEW q \in Places, q # p
  PROVE  sn \notin At[q]
BY DEF PlaceInv, PlacesApart

\* What an instruction needs to arrive at a place.
LEMMA Arrives ==
  ASSUME Shape, NEW S, Mild(S), KnowsSame, NEW sn \in DOMAIN inst,
         NEW p \in Places, PlaceOK(p, sn), NEW q \in Places, Fits(q, Kind(sn)),
         inst'[sn].executed <=> q = "commit",
         ~inst'[sn].squashed =>
           /\ q \notin Unissued => inst'[sn].issued
           /\ q \in Unissued /\ ~IsMemRef(sn) => ~inst'[sn].issued
           /\ q \in Unissued \/ IsMemRef(sn) => sn \in instList,
         q \in {"replay", "nonSpec"} => sn \in instList
  PROVE  PlaceOK(q, sn)'
<1>1. /\ Kind(sn)' = Kind(sn) /\ (IsMemRef(sn)' <=> IsMemRef(sn))
      /\ (WaitsReg(sn)' <=> WaitsReg(sn)) /\ (WaitsMem(sn)' <=> WaitsMem(sn))
  BY MildKeeps
<1>2. (inst'[sn].wb = "no" <=> inst[sn].wb = "no") /\ instList' = instList
  BY DEF Mild, KnowsSame
<1> QED BY <1>1, <1>2 DEF PlaceOK

\* Nothing moves.
LEMMA StayPut ==
  ASSUME Shape, NEW q, q \notin Places, Mild({}), KnowsSame, UNCHANGED <<ready, lists>>,
         UNCHANGED <<nonSpecInsts, instsToExecute, inUnit, instsToReplay, iewQueue>>,
         At["memory"]' = At["memory"]
  PROVE  Move({}, q)
<1>1. Moves({}, q)
  BY PlacesNext DEF lists
<1> QED BY <1>1 DEF Move

LEMMA StayOnly ==
  ASSUME IqInv, inst' = inst, KnowsSame, UNCHANGED <<ready, lists, fuVars, depPred>>,
         UNCHANGED <<nonSpecInsts, instsToExecute, inUnit, instsToReplay, iewQueue, sent>>,
         UNCHANGED <<freeEntries, nextPos, nonSpecSig, inRunahead, robSquashing, iewSquash, iewSquashNow, cause>>,
         UNCHANGED exitRunahead,
         phase' \in Phases, phase' = phase \/ phase # "events",
         nonSpecSig = 0 \/ phase' # "commit", orderIt' \in Nat
  PROVE  IqInv'
<1>1. Shape
  BY DEF IqInv
<1>2. Move({}, "none")
  <2>1. At["memory"]' = At["memory"]
    BY AtIs, AtIsNext
  <2> QED BY <1>1, <2>1, MildSame, StayPut DEF Places
<1>3. Quiet
  <2>1. \A s \in Lists' : s \in Seq(Nat) /\ Distinct(s)
    BY <1>1, ListsAre, ListsNext DEF lists
  <2>2. /\ freeEntries' \in Nat /\ RedirectOK(iewSquash') /\ sent' \subseteq DOMAIN inst
        /\ exitRunahead' \in BOOLEAN /\ (exitRunahead' => inRunahead)
        /\ cause.pos \in Nat /\ (inRunahead => cause.pos > 0) /\ inRunahead \in BOOLEAN
        /\ RedirectOK(iewSquashNow)
    BY <1>1 DEF Shape
  <2> QED BY <2>1, <2>2 DEF Quiet, SigKept
<1>4. KeepsEntry({})
  BY DEF KeepsEntry
<1> QED BY <1>2, <1>3, <1>4, SameKept, MoveOnly DEF fuVars

LEMMA EndDispatchStep ==
  ASSUME IqInv, EndDispatch
  PROVE  IqInv'
<1>1. phase' \in Phases /\ phase # "events" /\ phase' # "commit" /\ orderIt' \in Nat
  BY DEF EndDispatch, Phases, IqInv, Shape, loopVars
<1> QED BY <1>1, StayOnly
        DEF EndDispatch, KnowsSame, robVars, iqVars, mdVars, memVars, iewVars, sigVars, modeVars

LEMMA EndExecuteStep ==
  ASSUME IqInv, EndExecute
  PROVE  IqInv'
<1>1. phase' \in Phases /\ phase # "events" /\ phase' # "commit" /\ orderIt' \in Nat
  BY DEF EndExecute, Phases, IqInv, Shape, loopVars
<1> QED BY <1>1, StayOnly
        DEF EndExecute, KnowsSame, robVars, iqVars, mdVars, memVars, iewVars, sigVars, modeVars

LEMMA EndWritebackStep ==
  ASSUME IqInv, EndWriteback
  PROVE  IqInv'
<1>1. phase' \in Phases /\ phase # "events" /\ phase' # "commit" /\ orderIt' \in Nat
  BY DEF EndWriteback, Phases
<1> QED BY <1>1, StayOnly
        DEF EndWriteback, KnowsSame, robVars, iqVars, mdVars, memVars, iewVars, sigVars, modeVars

LEMMA StartLoopStep ==
  ASSUME IqInv, StartLoop
  PROVE  IqInv'
<1>1. phase' \in Phases /\ phase' = phase /\ phase' # "commit" /\ orderIt' \in Nat
  BY DEF StartLoop, Phases
<1> QED BY <1>1, StayOnly
        DEF StartLoop, KnowsSame, robVars, iqVars, mdVars, memVars, iewVars, sigVars, modeVars

LEMMA UnitBusyStep ==
  ASSUME IqInv, NEW k, UnitBusy(k)
  PROVE  IqInv'
<1>1. phase' \in Phases /\ phase' = phase /\ phase' # "commit" /\ orderIt' \in Nat
  BY DEF UnitBusy, AtOrder, Scheduling, Phases, IqInv, Shape
<1> QED BY <1>1, StayOnly
        DEF UnitBusy, KnowsSame, robVars, iqVars, mdVars, memVars, iewVars, sigVars, modeVars

LEMMA NewReady ==
  ASSUME Shape, NEW S, NEW q, Move(S, q), ReadyOK(ready'),
         \A k \in Kinds : \A sn \in Range(ready'.insts[k]) : sn \in DOMAIN inst /\ Kind(sn) = k
  PROVE  ReadyInv'
<1>1. \A sn \in DOMAIN inst : Kind(sn)' = Kind(sn)
  BY MildKeeps DEF Move
<1> QED BY <1>1 DEF ReadyInv

\* Subsets of the instructions are finite.
LEMMA InstSubsets ==
  ASSUME Shape, NEW T, T \subseteq DOMAIN inst
  PROVE  /\ Bounded(T) /\ IsFiniteSet(T) /\ Cardinality(T) \in Nat
         /\ \A x \in T : Cardinality(T \ {x}) = Cardinality(T) - 1 /\ Cardinality(T) > 0
         /\ \A x : x \notin T => Cardinality(T \cup {x}) = Cardinality(T) + 1
<1>1. DOMAIN inst \subseteq 1..(nextSn - 1) /\ nextSn \in Nat
  BY DEF Shape
<1>2. T \in SUBSET (0..nextSn)
  BY <1>1
<1>3. Bounded(T)
  BY <1>1, <1>2 DEF Bounded
<1>4. IsFiniteSet(T) /\ Cardinality(T) \in Nat /\ (Cardinality(T) = 0 <=> T = {})
  BY <1>3, FiniteMax
<1>5. \A x \in T : Cardinality(T \ {x}) = Cardinality(T) - 1 /\ Cardinality(T) > 0
  <2> TAKE x \in T
  <2>1. Cardinality(T \ {x}) = Cardinality(T) - 1
    BY ONLY <1>4, x \in T, FS_RemoveElement
  <2>2. Cardinality(T) # 0 /\ Cardinality(T) \in Nat
    BY <1>4
  <2> QED BY <2>1, <2>2
<1>6. \A x : x \notin T => Cardinality(T \cup {x}) = Cardinality(T) + 1
  BY <1>4, FS_AddElement
<1> QED BY <1>3, <1>4, <1>5, <1>6

LEMMA TranslationDoneStep ==
  ASSUME IqInv, NEW sn, TranslationDone(sn)
  PROVE  IqInv'
<1>1. Shape /\ sn \in DOMAIN inst
  BY ListsAre, AtIs DEF TranslationDone, IqInv, Shape, Places
<1>2. inst' = [inst EXCEPT ![sn] = [inst[sn] EXCEPT !.translated = TRUE]]
  BY DEF TranslationDone
<1>3. Mild({}) /\ \A n \in DOMAIN inst : inst'[n].executed = inst[n].executed
  <2>1. \A n \in DOMAIN inst : inst[n] \in InstType
    BY <1>1 DEF Shape
  <2>2. [inst[sn] EXCEPT !.translated = TRUE] \in InstType
    BY <1>1, <2>1, InstSets
  <2>3. DOMAIN inst' = DOMAIN inst /\ inst' = [n \in DOMAIN inst' |-> inst'[n]]
    BY <1>2
  <2>4. \A n \in DOMAIN inst : n # sn => inst'[n] = inst[n]
    BY <1>2
  <2>5. inst'[sn] = [inst[sn] EXCEPT !.translated = TRUE]
    BY <1>1, <1>2
  <2>6. /\ inst'[sn].pos = inst[sn].pos /\ inst'[sn].runahead = inst[sn].runahead
        /\ inst'[sn].unready = inst[sn].unready /\ inst'[sn].memOpDone = inst[sn].memOpDone
        /\ inst'[sn].wb = inst[sn].wb /\ inst'[sn].squashed = inst[sn].squashed
        /\ inst'[sn].fault = inst[sn].fault /\ inst'[sn].issued = inst[sn].issued
        /\ inst'[sn].executed = inst[sn].executed
    BY <1>1, <2>1, <2>5 DEF InstType
  <2> QED BY <2>1, <2>2, <2>3, <2>4, <2>5, <2>6 DEF Mild
<1>4. KnowsSame /\ UNCHANGED <<ready, lists, fuVars, depPred, phase>>
      /\ UNCHANGED <<nonSpecInsts, instsToExecute, inUnit, instsToReplay, iewQueue, sent>>
      /\ UNCHANGED <<freeEntries, nextPos, nonSpecSig, inRunahead, robSquashing, iewSquash, iewSquashNow, cause>>
      /\ UNCHANGED <<exitRunahead, orderIt>>
  BY DEF TranslationDone, KnowsSame, robVars, iqVars, mdVars, memVars, iewVars, sigVars,
         modeVars, loopVars
<1>5. Move({}, "none")
  <2>1. At["memory"]' = At["memory"]
    <3>1. sent \subseteq DOMAIN inst
      BY <1>1 DEF Shape
    <3> QED BY <1>3, <1>4, <3>1, AtIs, AtIsNext
  <2> QED BY <1>1, <1>3, <1>4, <2>1, StayPut DEF Places
<1>6. Quiet
  <2>1. \A s \in Lists' : s \in Seq(Nat) /\ Distinct(s)
    BY <1>1, <1>4, ListsAre, ListsNext DEF lists
  <2>2. phase # "commit"
    BY DEF TranslationDone
  <2> QED BY <1>1, <1>4, <2>1, <2>2 DEF Quiet, SigKept, Shape
<1>7. KeepsEntry({})
  BY DEF KeepsEntry
<1> QED BY <1>4, <1>5, <1>6, <1>7, SameKept, MoveOnly DEF fuVars

LEMMA CacheUnblockedStep ==
  ASSUME IqInv, CacheUnblocked
  PROVE  IqInv'
<1>1. Shape /\ PlaceInv
  BY DEF IqInv
<1>0. PICK S : S = Range(blocked)
  OBVIOUS
<1>2. KnowsSame /\ UNCHANGED <<ready, deferred, fuVars, depPred, phase, inst>>
      /\ UNCHANGED <<nonSpecInsts, instsToExecute, inUnit, instsToReplay, iewQueue, sent>>
      /\ UNCHANGED <<freeEntries, nextPos, nonSpecSig, inRunahead, robSquashing, iewSquash, iewSquashNow, cause>>
      /\ UNCHANGED <<exitRunahead, orderIt>>
      /\ retry' = retry \o blocked /\ blocked' = <<>> /\ phase = "events"
  BY DEF CacheUnblocked, SpliceBlocked, KnowsSame, robVars, iqVars, mdVars, memVars, iewVars,
         sigVars, modeVars, loopVars
<1>3. QueueOK(retry') /\ Range(retry') = Range(retry) \cup S
  <2>1. Range(retry) \cap Range(blocked) = {}
    BY <1>1, AtIs DEF PlaceInv, PlacesApart, Places
  <2> QED BY <1>0, <1>1, <1>2, <2>1, ListsAre, QueueConcat
<1>4. QueueOK(blocked') /\ Range(blocked') = {}
  BY <1>2, QueueEmpty
<1>5. Mild(S)
  BY <1>1, <1>2, MildSame
<1>6. S = At["blocked"] /\ S \subseteq DOMAIN inst
  BY <1>0, <1>1, AtIs DEF Shape, Places
<1>7. \A p \in Places \ {"blocked"} : At[p] \cap S = {}
  BY <1>1, <1>6 DEF PlaceInv, PlacesApart, Places
<1>8. Moves(S, "retry")
  <2>1. /\ ReadySet(ready) \cap S = {} /\ Range(retry) \cap S = {} /\ nonSpecInsts \cap S = {}
        /\ Range(instsToExecute) \cap S = {} /\ inUnit \cap S = {} /\ Range(deferred) \cap S = {}
        /\ instsToReplay \cap S = {} /\ At["memory"] \cap S = {} /\ Range(iewQueue) \cap S = {}
    BY <1>7, AtIs DEF Places
  <2>2. At["memory"]' = At["memory"]
    BY <1>2, AtIs, AtIsNext
  <2> QED BY <1>0, <1>2, <1>3, <1>4, <2>1, <2>2, PlacesNext
<1>9. ASSUME NEW sn \in S
      PROVE  PlaceOK("retry", sn)' /\ ~(inst'[sn].squashed /\ ~inst[sn].squashed)
             /\ inst'[sn].issued = inst[sn].issued
  <2>1. PlaceOK("blocked", sn) /\ sn \in DOMAIN inst
    BY <1>1, <1>6 DEF PlaceInv, Places
  <2>2. Fits("retry", Kind(sn))
    BY <2>1 DEF PlaceOK, Fits
  <2>3. inst'[sn] = inst[sn]
    BY <1>2
  <2>4. PlaceOK("retry", sn)'
    BY <1>1, <1>2, <1>5, <2>1, <2>2, <2>3, Arrives DEF PlaceOK, Places, Unissued
  <2> QED BY <2>3, <2>4
<1>10. Move(S, "retry")
  BY <1>2, <1>5, <1>6, <1>8, <1>9 DEF Move, Places
<1>11. Quiet
  <2>1. \A s \in Lists' : s \in Seq(Nat) /\ Distinct(s)
    BY <1>1, <1>2, <1>3, <1>4, ListsAre, ListsNext
  <2> QED BY <1>1, <1>2, <2>1 DEF Quiet, SigKept, Shape
<1>12. KeepsEntry(S)
  BY <1>9 DEF KeepsEntry
<1>13. PredictorKept /\ UNCHANGED <<ready, inUnit, unitBusy, unitsToBeFreed, freeEntries>>
  BY <1>2, SameKept DEF fuVars
<1> QED BY <1>10, <1>11, <1>12, <1>13, MoveOnly

-----------------------------------------------------------------------------
(* IEW::executeInsts *)

\* The next instruction to execute leaves for the place q, or for none.
Executes(sn, q) ==
  /\ Executing(sn) /\ instsToExecute' = Tail(instsToExecute) /\ ExecuteFrame
  /\ Mild({sn}) /\ RedirectOK(iewSquash') /\ PredictorKept
  /\ deferred' = IF q = "deferred" THEN Append(deferred, sn) ELSE deferred
  /\ blocked' = IF q = "blocked" THEN Append(blocked, sn) ELSE blocked
  /\ instsToReplay' = IF q = "replay" THEN instsToReplay \cup {sn} ELSE instsToReplay
  /\ sent' = IF q = "memory" THEN sent \cup {sn} ELSE sent
  /\ iewQueue' = IF q = "commit" THEN Append(iewQueue, sn) ELSE iewQueue
  /\ inst'[sn].executed <=> q \in {"commit", "none"}

LEMMA ExecutingFacts ==
  ASSUME IqInv, NEW sn, Executing(sn)
  PROVE  /\ sn \in At["execute"] /\ sn \in DOMAIN inst /\ sn \in Nat /\ inst[sn] \in InstType
         /\ PlaceOK("execute", sn) /\ ~inst[sn].executed /\ sn \notin sent
         /\ \A p \in Places : p # "execute" => sn \notin At[p]
         /\ QueueOK(Tail(instsToExecute)) /\ phase = "execute"
         /\ Range(Tail(instsToExecute)) = Range(instsToExecute) \ {sn}
<1>1. Shape /\ PlaceInv /\ phase = "execute" /\ instsToExecute # <<>> /\ sn = Head(instsToExecute)
  BY DEF IqInv, Executing
<1>2. /\ QueueOK(Tail(instsToExecute)) /\ sn \in Range(instsToExecute)
      /\ Range(Tail(instsToExecute)) = Range(instsToExecute) \ {sn}
  BY <1>1, ListsAre, QueueTail
<1>3. sn \in At["execute"] /\ "execute" \in Places
  BY <1>2, AtIs DEF Places
<1>4. sn \in DOMAIN inst /\ sn \in Nat /\ inst[sn] \in InstType
  BY <1>1, <1>3, ShapeFacts DEF Shape
<1>5. PlaceOK("execute", sn) /\ \A p \in Places : p # "execute" => sn \notin At[p]
  BY <1>1, <1>3, Elsewhere DEF PlaceInv
<1>6. ~inst[sn].executed
  BY <1>5 DEF PlaceOK
<1>7. sn \notin sent
  BY <1>5, <1>6, AtIs DEF Places
<1> QED BY <1>1, <1>2, <1>3, <1>4, <1>5, <1>6, <1>7

LEMMA ExecutesMoves ==
  ASSUME IqInv, NEW sn, NEW q, Executes(sn, q),
         q \in {"deferred", "blocked", "replay", "memory", "commit", "none"}
  PROVE  Moves({sn}, q) /\ Quiet
<1>1. Shape /\ PlaceInv /\ Executing(sn)
  BY DEF IqInv, Executes
<1>2. /\ UNCHANGED <<ready, retry, nonSpecInsts, inUnit>>
      /\ UNCHANGED <<phase, nextPos, nonSpecSig, inRunahead, robSquashing, iewSquashNow, cause, orderIt, freeEntries>>
      /\ UNCHANGED exitRunahead
  BY DEF Executes, ExecuteFrame, robVars, iqVars, loopVars, sigVars, modeVars
<1>3. QueueOK(deferred') /\ Range(deferred') = Range(deferred) \cup (IF q = "deferred" THEN {sn} ELSE {})
  <2>1. sn \notin Range(deferred) /\ QueueOK(deferred) /\ sn \in Nat
    BY <1>1, ExecutingFacts, ListsAre, AtIs DEF Places
  <2> QED BY <2>1, QueueAppend DEF Executes
<1>4. QueueOK(blocked') /\ Range(blocked') = Range(blocked) \cup (IF q = "blocked" THEN {sn} ELSE {})
  <2>1. sn \notin Range(blocked) /\ QueueOK(blocked) /\ sn \in Nat
    BY <1>1, ExecutingFacts, ListsAre, AtIs DEF Places
  <2> QED BY <2>1, QueueAppend DEF Executes
<1>5. QueueOK(iewQueue') /\ Range(iewQueue') = Range(iewQueue) \cup (IF q = "commit" THEN {sn} ELSE {})
  <2>1. sn \notin Range(iewQueue) /\ QueueOK(iewQueue) /\ sn \in Nat
    BY <1>1, ExecutingFacts, ListsAre, AtIs DEF Places
  <2> QED BY <2>1, QueueAppend DEF Executes
<1>6. QueueOK(instsToExecute') /\ Range(instsToExecute') = Range(instsToExecute) \ {sn}
  BY <1>1, ExecutingFacts DEF Executes
<1>7. At["memory"]' = At["memory"] \cup (IF q = "memory" THEN {sn} ELSE {})
  <2>1. sent \subseteq DOMAIN inst /\ \A n \in DOMAIN inst : n # sn => inst'[n].executed = inst[n].executed
    BY <1>1 DEF Shape, Executes, Mild
  <2>2. sn \notin sent
    BY <1>1, ExecutingFacts
  <2>3. sent' = sent \cup (IF q = "memory" THEN {sn} ELSE {}) /\ (q = "memory" => ~inst'[sn].executed)
    BY DEF Executes
  <2>4. {n \in sent' : ~inst'[n].executed} =
          {n \in sent : ~inst[n].executed} \cup (IF q = "memory" THEN {sn} ELSE {})
    BY <2>1, <2>2, <2>3
  <2> QED BY <2>4, AtIs, AtIsNext
<1>8. /\ sn \notin ReadySet(ready) /\ sn \notin Range(retry) /\ sn \notin nonSpecInsts
      /\ sn \notin inUnit /\ sn \notin Range(deferred) /\ sn \notin Range(blocked)
      /\ sn \notin instsToReplay /\ sn \notin At["memory"] /\ sn \notin Range(iewQueue)
  BY <1>1, ExecutingFacts, AtIs DEF Places
<1>9. Moves({sn}, q)
  <2>1. instsToReplay' = instsToReplay \cup (IF q = "replay" THEN {sn} ELSE {})
    BY DEF Executes
  <2>2. q # "ready" /\ q # "retry" /\ q # "nonSpec" /\ q # "execute" /\ q # "unit"
    OBVIOUS
  <2> QED BY <1>2, <1>3, <1>4, <1>5, <1>6, <1>7, <1>8, <2>1, <2>2, PlacesNext
<1>10. Quiet
  <2>1. QueueOK(retry')
    BY <1>1, <1>2, ListsAre
  <2>2. \A s \in Lists' : s \in Seq(Nat) /\ Distinct(s)
    BY <1>3, <1>4, <1>5, <1>6, <2>1, ListsNext
  <2>3. sent' \subseteq DOMAIN inst
    BY <1>1, ExecutingFacts DEF Executes, Shape
  <2>4. phase = "execute"
    BY <1>1, ExecutingFacts
  <2> QED BY <1>1, <1>2, <2>2, <2>3, <2>4 DEF Quiet, SigKept, Shape, Executes
<1> QED BY <1>9, <1>10

\* The instruction may be there, or is squashed.
LEMMA ExecutesStep ==
  ASSUME IqInv, NEW sn, NEW q, Executes(sn, q),
         q \in {"deferred", "blocked", "replay", "memory", "commit", "none"},
         inst'[sn].squashed => inst[sn].squashed \/ sn \notin Live,
         q = "none" => inst'[sn].squashed,
         q # "none" => ~inst[sn].squashed /\ Fits(q, Kind(sn)),
         inst'[sn].issued = inst[sn].issued \/ IsMemRef(sn),
         q # "none" => (q = "blocked" <=> ~inst'[sn].issued)
  PROVE  IqInv'
<1>1. Shape /\ PlaceInv /\ Executing(sn) /\ Mild({sn})
  BY DEF IqInv, Executes
<1>2. KnowsSame
  BY DEF Executes, ExecuteFrame, KnowsSame, robVars, iqVars, iewVars, sigVars, modeVars
<1>3. q \in Places => q # "nonSpec" /\ PlaceOK(q, sn)'
  <2> SUFFICES ASSUME q \in Places PROVE q # "nonSpec" /\ PlaceOK(q, sn)'
    OBVIOUS
  <2>1. PlaceOK("execute", sn) /\ sn \in DOMAIN inst /\ "execute" \in Places
    BY <1>1, ExecutingFacts DEF Places
  <2>2. q # "none" /\ q # "nonSpec"
    BY DEF Places
  <2>3. inst'[sn].executed <=> q = "commit"
    BY <2>2 DEF Executes
  <2>4. ~inst[sn].squashed /\ Fits(q, Kind(sn)) /\ (q = "blocked" <=> ~inst'[sn].issued)
    BY <2>2
  <2>5. (q \in Unissued \/ q = "replay") => IsMemRef(sn)
    BY <2>2, <2>4 DEF Fits, Unissued, IsMemRef
  <2>6. IsMemRef(sn) => sn \in instList
    BY <2>1, <2>4 DEF PlaceOK
  <2>7. q \notin Unissued => inst'[sn].issued
    BY <2>2, <2>4 DEF Unissued
  <2>8. PlaceOK(q, sn)'
    BY <1>1, <1>2, <2>1, <2>2, <2>3, <2>4, <2>5, <2>6, <2>7, Arrives
  <2> QED BY <2>2, <2>8
<1>4. q \notin Places => inst'[sn].squashed
  BY DEF Places
<1>5. sn \in At["execute"] /\ "execute" \in Places \ {"nonSpec"}
  BY <1>1, ExecutingFacts DEF Places
<1>6. Move({sn}, q)
  BY <1>1, <1>2, <1>3, <1>4, <1>5, ExecutesMoves DEF Move
<1>7. KeepsEntry({sn})
  BY DEF KeepsEntry
<1>8. PredictorKept /\ UNCHANGED <<ready, inUnit, unitBusy, unitsToBeFreed, freeEntries>>
  BY DEF Executes, ExecuteFrame, iqVars, fuVars
<1> QED BY <1>6, <1>7, <1>8, ExecutesMoves, MoveOnly

\* One record of inst set: two fields, or one.
LEMMA MildFields ==
  ASSUME Shape, NEW sn \in DOMAIN inst, NEW x,
         x \in {[inst[sn] EXCEPT !.executed = TRUE, !.squashed = TRUE],
                [inst[sn] EXCEPT !.executed = TRUE, !.fault = TRUE],
                [inst[sn] EXCEPT !.executed = TRUE, !.fault = inst[sn].fault],
                [inst[sn] EXCEPT !.executed = TRUE],
                [inst[sn] EXCEPT !.issued = FALSE], [inst[sn] EXCEPT !.issued = TRUE],
                [inst[sn] EXCEPT !.translated = FALSE]},
         inst' = [inst EXCEPT ![sn] = x]
  PROVE  Mild({sn}) /\ inst'[sn] = x
<1>1. inst[sn] \in InstType
  BY DEF Shape
<1>2. /\ x \in InstType /\ x.pos = inst[sn].pos /\ x.runahead = inst[sn].runahead
      /\ x.unready = inst[sn].unready /\ x.memOpDone = inst[sn].memOpDone
      /\ x.wb = inst[sn].wb /\ (inst[sn].squashed => x.squashed)
      /\ (inst[sn].fault => x.fault) /\ (inst[sn].executed => x.executed)
      /\ (x.fault => inst[sn].fault \/ x.executed)
  BY <1>1 DEF InstType
<1> QED BY <1>2, MildOne

LEMMA SkipSquashedStep ==
  ASSUME IqInv, NEW sn, SkipSquashed(sn)
  PROVE  IqInv'
<1> DEFINE x == [inst[sn] EXCEPT !.executed = TRUE, !.squashed = TRUE]
<1>1. Shape /\ Executing(sn)
  BY DEF IqInv, SkipSquashed
<1>2. sn \in DOMAIN inst /\ inst[sn] \in InstType
  BY <1>1, ExecutingFacts
<1>3. inst' = [inst EXCEPT ![sn] = x]
  BY <1>2 DEF SkipSquashed, InstType
<1>4. Mild({sn}) /\ inst'[sn] = x
  BY <1>1, <1>2, <1>3, MildFields
<1>5. inst'[sn].squashed /\ inst'[sn].executed /\ inst'[sn].issued = inst[sn].issued
  BY <1>2, <1>4 DEF InstType
<1>6. RedirectOK(iewSquash') /\ PredictorKept
  BY <1>1, SameKept DEF SkipSquashed, NoRedirect, Shape
<1>7. Executes(sn, "none")
  BY <1>1, <1>4, <1>5, <1>6 DEF SkipSquashed, memVars, Executes
<1>8. inst[sn].squashed \/ sn \notin Live
  BY DEF SkipSquashed, Skipped, Stale, IqInv, LiveInv, LiveOK
<1> QED BY <1>5, <1>7, <1>8, ExecutesStep

\* Instructions that execute are marked issued.
LEMMA ExecutingIssued ==
  ASSUME IqInv, NEW sn, Executing(sn), ~Skipped(sn)
  PROVE  ~inst[sn].squashed /\ inst[sn].issued
<1>1. PlaceOK("execute", sn)
  BY ExecutingFacts
<1> QED BY <1>1 DEF Skipped, PlaceOK, Unissued

LEMMA ToCommitStep ==
  ASSUME IqInv, NEW sn, NEW fault \in BOOLEAN, ToCommit(sn, fault),
         RedirectOK(iewSquash'), PredictorKept
  PROVE  IqInv'
<1> DEFINE x == [inst[sn] EXCEPT !.executed = TRUE, !.fault = fault]
<1>1. Shape /\ Executing(sn) /\ ~Skipped(sn)
  BY DEF IqInv, ToCommit
<1>2. sn \in DOMAIN inst /\ inst[sn] \in InstType
  BY <1>1, ExecutingFacts
<1>0. ~inst[sn].fault /\ ~inst[sn].executed
  BY <1>1, <1>2, ExecutingFacts DEF IqInv, FlagInv, FlagOK
<1>3. inst' = [inst EXCEPT ![sn] = x]
  BY <1>2 DEF ToCommit, InstType
<1>4. Mild({sn}) /\ inst'[sn] = x
  <2>1. /\ x \in InstType /\ x.pos = inst[sn].pos /\ x.runahead = inst[sn].runahead
        /\ x.unready = inst[sn].unready /\ x.memOpDone = inst[sn].memOpDone
        /\ x.wb = inst[sn].wb /\ (inst[sn].squashed => x.squashed)
        /\ (inst[sn].fault => x.fault) /\ (inst[sn].executed => x.executed)
        /\ (x.fault => inst[sn].fault \/ x.executed)
    BY <1>2, <1>0 DEF InstType
  <2> HIDE DEF x
  <2> QED BY <1>1, <1>2, <1>3, <2>1, MildOne
<1>5. inst'[sn].squashed = inst[sn].squashed /\ inst'[sn].executed
      /\ inst'[sn].issued = inst[sn].issued
  BY <1>2, <1>4 DEF InstType
<1>6. Executes(sn, "commit")
  BY <1>1, <1>4, <1>5 DEF ToCommit, memVars, Executes
<1>7. ~inst[sn].squashed /\ inst[sn].issued
  BY <1>1, ExecutingIssued
<1>8. Fits("commit", Kind(sn))
  BY DEF Fits
<1> QED BY <1>5, <1>6, <1>7, <1>8, ExecutesStep

LEMMA ReportOK ==
  ASSUME RedirectOK(iewSquash), NEW sn, NEW to, NEW pos,
         sn \in Nat, to \in Nat, pos \in Nat, to <= sn, pos > 0, Report(sn, to, pos)
  PROVE  RedirectOK(iewSquash')
BY DEF Report, RedirectOK

LEMMA ComputeStep ==
  ASSUME IqInv, NEW sn, Compute(sn)
  PROVE  IqInv'
<1>1. Shape /\ ToCommit(sn, FALSE) /\ Executing(sn) /\ RedirectOK(iewSquash)
  BY DEF IqInv, Compute, ToCommit, Shape
<1>2. depPred' = depPred /\ (iewSquash' = iewSquash \/ Report(sn, sn, inst[sn].pos + 1))
  BY DEF Compute, NoRedirect
<1>3. sn \in Nat /\ inst[sn].pos \in Nat
  BY <1>1, ExecutingFacts DEF InstType
<1>4. RedirectOK(iewSquash')
  BY <1>1, <1>2, <1>3, ReportOK
<1> QED BY <1>1, <1>2, <1>4, SameKept, ToCommitStep

LEMMA FaultStep ==
  ASSUME IqInv, NEW sn, Fault(sn)
  PROVE  IqInv'
<1>1. ToCommit(sn, TRUE) /\ RedirectOK(iewSquash') /\ depPred' = depPred
  BY DEF IqInv, Fault, NoRedirect, Shape
<1> QED BY <1>1, SameKept, ToCommitStep

LEMMA ExecuteStoreStep ==
  ASSUME IqInv, NEW sn, ExecuteStore(sn)
  PROVE  IqInv'
<1>1. /\ Shape /\ ToCommit(sn, FALSE) /\ Executing(sn) /\ RedirectOK(iewSquash)
      /\ PredictorOK(depPred)
  BY DEF IqInv, ExecuteStore, ToCommit, Shape, PredictorInv
<1>2. CASE NoRedirect
  BY <1>1, <1>2, SameKept, ToCommitStep DEF NoRedirect
<1>3. CASE ~NoRedirect
  <2>1. PICK load : /\ load = Min(Violators(sn)) /\ Violators(sn) # {}
                    /\ Report(load, load - 1, inst[load].pos)
                    /\ depPred' = Violation(depPred, inst[sn].pos, inst[load].pos)
    BY <1>3 DEF ExecuteStore
  <2>2. Violators(sn) \subseteq DOMAIN inst
    BY <1>1 DEF Violators, Shape
  <2>3. load \in DOMAIN inst
    <3>1. Violators(sn) \subseteq Nat
      BY <1>1, <2>2, ShapeFacts
    <3> QED BY <2>1, <2>2, <3>1, SmallestOf
  <2>4. load \in Nat /\ load > 0 /\ inst[load].pos \in Nat /\ inst[load].pos > 0
    BY <1>1, <2>3, ShapeFacts, ScTypes
  <2>5. inst[sn].pos \in Nat
    BY <1>1, ExecutingFacts DEF InstType
  <2>6. RedirectOK(iewSquash')
    BY <1>1, <2>1, <2>4, ReportOK
  <2>7. PredictorKept
    BY <1>1, <2>1, <2>4, <2>5, ViolationOK DEF PredictorKept
  <2> QED BY <1>1, <2>6, <2>7, ToCommitStep
<1> QED BY <1>2, <1>3

LEMMA DeferMemInstStep ==
  ASSUME IqInv, NEW sn, DeferMemInst(sn)
  PROVE  IqInv'
<1>1. Shape /\ Executing(sn) /\ ~Skipped(sn) /\ inst' = inst
  BY DEF IqInv, DeferMemInst
<1>2. ~inst[sn].executed /\ ~inst[sn].squashed /\ inst[sn].issued
  BY <1>1, ExecutingFacts, ExecutingIssued
<1>3. RedirectOK(iewSquash') /\ PredictorKept /\ Mild({sn})
  BY <1>1, SameKept, MildSame DEF DeferMemInst, NoRedirect, Shape
<1>4. Executes(sn, "deferred")
  BY <1>1, <1>2, <1>3 DEF DeferMemInst, Executes
<1>5. Fits("deferred", Kind(sn))
  BY DEF DeferMemInst, IsMemRef, Fits
<1> QED BY <1>1, <1>2, <1>4, <1>5, ExecutesStep

LEMMA BlockMemInstStep ==
  ASSUME IqInv, NEW sn, BlockMemInst(sn)
  PROVE  IqInv'
<1> DEFINE x == [inst[sn] EXCEPT !.issued = FALSE]
<1>1. Shape /\ Executing(sn) /\ ~Skipped(sn) /\ Kind(sn) = "load"
  BY DEF IqInv, BlockMemInst, ExecutesLoad
<1>2. ~inst[sn].executed /\ ~inst[sn].squashed /\ sn \in DOMAIN inst /\ inst[sn] \in InstType
  BY <1>1, ExecutingFacts, ExecutingIssued
<1>3. inst' = [inst EXCEPT ![sn] = x]
  BY <1>2 DEF BlockMemInst
<1>4. Mild({sn}) /\ inst'[sn] = x
  BY <1>1, <1>2, <1>3, MildFields
<1>5. inst'[sn].squashed = inst[sn].squashed /\ ~inst'[sn].executed /\ ~inst'[sn].issued
  BY <1>2, <1>4 DEF InstType
<1>6. RedirectOK(iewSquash') /\ PredictorKept
  BY <1>1, SameKept DEF BlockMemInst, ExecutesLoad, NoRedirect, Shape
<1>7. Executes(sn, "blocked")
  BY <1>1, <1>4, <1>5, <1>6 DEF BlockMemInst, ExecutesLoad, Executes
<1>8. Fits("blocked", Kind(sn)) /\ IsMemRef(sn)
  BY <1>1 DEF Fits, IsMemRef
<1> QED BY <1>2, <1>5, <1>7, <1>8, ExecutesStep

LEMMA RescheduleMemInstStep ==
  ASSUME IqInv, NEW sn, RescheduleMemInst(sn)
  PROVE  IqInv'
<1> DEFINE x == [inst[sn] EXCEPT !.translated = FALSE]
<1>1. Shape /\ Executing(sn) /\ ~Skipped(sn) /\ Kind(sn) = "load"
  BY DEF IqInv, RescheduleMemInst, ExecutesLoad
<1>2. /\ ~inst[sn].executed /\ ~inst[sn].squashed /\ inst[sn].issued
      /\ sn \in DOMAIN inst /\ inst[sn] \in InstType
  BY <1>1, ExecutingFacts, ExecutingIssued
<1>3. inst' = [inst EXCEPT ![sn] = x]
  BY <1>2 DEF RescheduleMemInst
<1>4. Mild({sn}) /\ inst'[sn] = x
  BY <1>1, <1>2, <1>3, MildFields
<1>5. inst'[sn].squashed = inst[sn].squashed /\ ~inst'[sn].executed /\ inst'[sn].issued
  BY <1>2, <1>4 DEF InstType
<1>6. RedirectOK(iewSquash') /\ PredictorKept
  BY <1>1, SameKept DEF RescheduleMemInst, ExecutesLoad, NoRedirect, Shape
<1>7. Executes(sn, "replay")
  BY <1>1, <1>4, <1>5, <1>6 DEF RescheduleMemInst, ExecutesLoad, memVars, Executes
<1>8. Fits("replay", Kind(sn))
  BY <1>1 DEF Fits
<1> QED BY <1>2, <1>5, <1>7, <1>8, ExecutesStep

LEMMA SendLoadStep ==
  ASSUME IqInv, NEW sn, SendLoad(sn)
  PROVE  IqInv'
<1>1. Shape /\ Executing(sn) /\ ~Skipped(sn) /\ Kind(sn) = "load" /\ inst' = inst
  BY DEF IqInv, SendLoad, ExecutesLoad
<1>2. ~inst[sn].executed /\ ~inst[sn].squashed /\ inst[sn].issued
  BY <1>1, ExecutingFacts, ExecutingIssued
<1>3. RedirectOK(iewSquash') /\ PredictorKept /\ Mild({sn})
  BY <1>1, SameKept, MildSame DEF SendLoad, ExecutesLoad, NoRedirect, Shape
<1>4. Executes(sn, "memory")
  BY <1>1, <1>2, <1>3 DEF SendLoad, ExecutesLoad, Executes
<1>5. Fits("memory", Kind(sn))
  BY <1>1 DEF Fits
<1> QED BY <1>1, <1>2, <1>4, <1>5, ExecutesStep

-----------------------------------------------------------------------------
(* Events *)

LEMMA ResponseStep ==
  ASSUME IqInv, NEW sn, Response(sn)
  PROVE  IqInv'
<1>1. /\ Shape /\ PlaceInv /\ sn \in sent /\ sn \in DOMAIN inst /\ sn \in Nat
      /\ inst[sn] \in InstType
  BY ShapeFacts DEF IqInv, Response, Shape
<1>2. /\ KnowsSame /\ PredictorKept
      /\ UNCHANGED <<ready, inUnit, unitBusy, unitsToBeFreed, freeEntries>>
      /\ UNCHANGED <<phase, nextPos, nonSpecSig, inRunahead, robSquashing, iewSquash, iewSquashNow, cause, orderIt>>
      /\ UNCHANGED <<deferred, blocked, retry, instsToExecute, nonSpecInsts, instsToReplay>>
      /\ sent' = sent \ {sn} /\ phase = "events"
  BY SameKept DEF Response, KnowsSame, robVars, iqVars, lists, fuVars, loopVars, mdVars,
                  iewVars, sigVars
<1>3. exitRunahead' \in BOOLEAN /\ (exitRunahead' => inRunahead)
  BY <1>1 DEF Shape, Response
<1>4. ASSUME QueueOK(iewQueue') PROVE Quiet
  <2>1. \A s \in Lists' : s \in Seq(Nat) /\ Distinct(s)
    BY <1>1, <1>2, <1>4, ListsAre, ListsNext
  <2> QED BY <1>1, <1>2, <1>3, <2>1 DEF Quiet, SigKept, Shape
<1>5. At["memory"] = {n \in sent : ~inst[n].executed}
  BY AtIs
<1>6. At["memory"]' = {n \in sent' : ~inst'[n].executed}
  BY AtIsNext
<1>7. CASE inst[sn].squashed \/ inst[sn].executed
  <2>1. UNCHANGED <<inst, iewQueue>>
    BY <1>7 DEF Response
  <2>2. CASE inst[sn].executed
    <3>1. At["memory"]' = At["memory"]
      BY <1>2, <1>5, <1>6, <2>1, <2>2
    <3>2. Move({}, "none")
      BY <1>1, <1>2, <2>1, <3>1, MildSame, StayPut DEF Places, lists
    <3>3. Quiet /\ KeepsEntry({})
      BY <1>1, <1>4, <2>1, ListsAre DEF KeepsEntry
    <3> QED BY <1>2, <3>2, <3>3, MoveOnly
  <2>3. CASE ~inst[sn].executed
    <3>1. At["memory"]' = At["memory"] \ {sn} /\ sn \in At["memory"]
      BY <1>1, <1>2, <1>5, <1>6, <2>1, <2>3
    <3>2. \A p \in Places : p # "memory" => sn \notin At[p]
      BY <1>1, <3>1, Elsewhere DEF Places
    <3>3. /\ sn \notin ReadySet(ready) /\ sn \notin Range(retry) /\ sn \notin nonSpecInsts
          /\ sn \notin inUnit /\ sn \notin Range(deferred) /\ sn \notin Range(blocked)
          /\ sn \notin instsToReplay /\ sn \notin Range(iewQueue) /\ sn \notin Range(instsToExecute)
      BY <3>2, AtIs DEF Places
    <3>4. Moves({sn}, "none")
      BY <1>2, <2>1, <3>1, <3>3, PlacesNext
    <3>5. Move({sn}, "none")
      BY <1>1, <1>2, <1>7, <2>1, <2>3, <3>1, <3>4, MildSame DEF Move, Places
    <3>6. Quiet /\ KeepsEntry({sn})
      BY <1>1, <1>4, <2>1, ListsAre DEF KeepsEntry
    <3> QED BY <1>2, <3>5, <3>6, MoveOnly
  <2> QED BY <2>2, <2>3
<1>8. CASE ~(inst[sn].squashed \/ inst[sn].executed)
  <2> DEFINE x == [inst[sn] EXCEPT !.executed = TRUE]
  <2>1. inst' = [inst EXCEPT ![sn] = x] /\ iewQueue' = Append(iewQueue, sn)
    BY <1>1, <1>8 DEF Response
  <2>2. Mild({sn}) /\ inst'[sn] = x
    BY <1>1, <2>1, MildFields
  <2>3. inst'[sn].executed /\ ~inst'[sn].squashed /\ inst'[sn].issued = inst[sn].issued
    BY <1>1, <1>8, <2>2 DEF InstType
  <2>4. At["memory"]' = At["memory"] \ {sn} /\ sn \in At["memory"]
    <3>1. sent \subseteq DOMAIN inst /\ \A n \in DOMAIN inst : n # sn => inst'[n].executed = inst[n].executed
      BY <1>1, <2>2 DEF Shape, Mild
    <3> QED BY <1>1, <1>2, <1>5, <1>6, <1>8, <2>3, <3>1
  <2>5. \A p \in Places : p # "memory" => sn \notin At[p]
    BY <1>1, <2>4, Elsewhere DEF Places
  <2>6. /\ sn \notin ReadySet(ready) /\ sn \notin Range(retry) /\ sn \notin nonSpecInsts
        /\ sn \notin inUnit /\ sn \notin Range(deferred) /\ sn \notin Range(blocked)
        /\ sn \notin instsToReplay /\ sn \notin Range(iewQueue) /\ sn \notin Range(instsToExecute)
    BY <2>5, AtIs DEF Places
  <2>7. QueueOK(iewQueue') /\ Range(iewQueue') = Range(iewQueue) \cup {sn}
    BY <1>1, <2>1, <2>6, ListsAre, QueueAppend
  <2>8. Moves({sn}, "commit")
    BY <1>2, <2>4, <2>6, <2>7, PlacesNext
  <2>9. PlaceOK("memory", sn) /\ "memory" \in Places /\ "commit" \in Places
    BY <1>1, <2>4 DEF PlaceInv, Places
  <2>10. PlaceOK("commit", sn)'
    <3>1. inst[sn].issued /\ (IsMemRef(sn) => sn \in instList)
      BY <1>8, <2>9 DEF PlaceOK, Unissued
    <3>2. Fits("commit", Kind(sn))
      BY DEF Fits
    <3> QED BY <1>1, <1>2, <2>2, <2>3, <2>9, <3>1, <3>2, Arrives DEF Unissued
  <2>11. Move({sn}, "commit")
    BY <1>1, <1>2, <2>2, <2>3, <2>4, <2>8, <2>9, <2>10 DEF Move
  <2>12. Quiet /\ KeepsEntry({sn})
    BY <1>4, <2>3, <2>7 DEF KeepsEntry
  <2> QED BY <1>2, <2>11, <2>12, MoveOnly
<1> QED BY <1>7, <1>8

LEMMA ProcessFUCompletionStep ==
  ASSUME IqInv, NEW sn, ProcessFUCompletion(sn)
  PROVE  IqInv'
<1>1. /\ Shape /\ PlaceInv /\ ReadyInv /\ UnitInv /\ sn \in At["unit"] /\ "unit" \in Places
      /\ "execute" \in Places
  BY AtIs DEF IqInv, ProcessFUCompletion, Places
<1>2. /\ KnowsSame /\ PredictorKept /\ UNCHANGED <<ready, unitBusy, freeEntries, inst>>
      /\ UNCHANGED <<phase, nextPos, nonSpecSig, inRunahead, robSquashing, iewSquash, iewSquashNow, cause, orderIt>>
      /\ UNCHANGED <<deferred, blocked, retry, nonSpecInsts, instsToReplay, iewQueue, sent>>
      /\ UNCHANGED exitRunahead /\ phase = "events"
      /\ inUnit' = inUnit \ {sn} /\ instsToExecute' = Append(instsToExecute, sn)
      /\ unitsToBeFreed' = [unitsToBeFreed EXCEPT ![Kind(sn)] = @ + 1]
  BY SameKept DEF ProcessFUCompletion, KnowsSame, robVars, iqVars, lists, loopVars, mdVars,
                  iewVars, sigVars, memVars, modeVars
<1>3. sn \in DOMAIN inst /\ sn \in Nat /\ Kind(sn) \in Kinds /\ PlaceOK("unit", sn)
  BY <1>1, ShapeFacts DEF Shape, PlaceInv
<1>4. \A p \in Places : p # "unit" => sn \notin At[p]
  BY <1>1, Elsewhere
<1>5. /\ sn \notin ReadySet(ready) /\ sn \notin Range(retry) /\ sn \notin nonSpecInsts
      /\ sn \notin At["memory"] /\ sn \notin Range(deferred) /\ sn \notin Range(blocked)
      /\ sn \notin instsToReplay /\ sn \notin Range(iewQueue) /\ sn \notin Range(instsToExecute)
  BY <1>4, AtIs DEF Places
<1>6. QueueOK(instsToExecute') /\ Range(instsToExecute') = Range(instsToExecute) \cup {sn}
  BY <1>1, <1>2, <1>3, <1>5, ListsAre, QueueAppend
<1>7. Mild({sn})
  BY <1>1, <1>2, MildSame
<1>8. Moves({sn}, "execute")
  <2>1. At["memory"]' = At["memory"]
    BY <1>2, AtIs, AtIsNext
  <2> QED BY <1>2, <1>5, <1>6, <2>1, PlacesNext
<1>9. PlaceOK("execute", sn)'
  <2>1. Fits("execute", Kind(sn)) /\ ~inst'[sn].executed
    BY <1>2, <1>3 DEF Fits, PlaceOK
  <2>2. ~inst'[sn].squashed => inst'[sn].issued /\ (IsMemRef(sn) => sn \in instList)
    BY <1>2, <1>3 DEF PlaceOK, Unissued
  <2> QED BY <1>1, <1>2, <1>3, <1>7, <2>1, <2>2, Arrives DEF Unissued
<1>10. Move({sn}, "execute")
  BY <1>1, <1>2, <1>7, <1>8, <1>9 DEF Move
<1>11. Quiet
  <2>1. \A s \in Lists' : s \in Seq(Nat) /\ Distinct(s)
    BY <1>1, <1>2, <1>6, ListsAre, ListsNext
  <2> QED BY <1>1, <1>2, <2>1 DEF Quiet, SigKept, Shape
<1>12. KeepsEntry({sn})
  BY <1>2 DEF KeepsEntry
<1>13. UnitInv'
  <2>1. \A n \in inUnit : Kind(n)' = Kind(n)
    <3>1. inUnit \subseteq DOMAIN inst
      BY <1>1, AtIs DEF Shape
    <3> QED BY <1>1, <1>2, <1>7, <3>1, MildKeeps
  <2>2. unitBusy' \in [Kinds -> Nat] /\ unitsToBeFreed' \in [Kinds -> Nat]
    BY <1>1, <1>2, <1>3 DEF UnitInv
  <2>3. ASSUME NEW k \in Kinds
        PROVE  /\ unitBusy'[k] = unitsToBeFreed'[k] + Cardinality({n \in inUnit' : Kind(n)' = k})
               /\ unitBusy'[k] <= sc'.units[k]
    <3> DEFINE T == {n \in inUnit : Kind(n) = k}
    <3>1. {n \in inUnit' : Kind(n)' = k} = T \ {sn}
      BY <1>2, <2>1
    <3>2. unitBusy[k] = unitsToBeFreed[k] + Cardinality(T) /\ unitBusy[k] <= sc.units[k]
      BY <1>1 DEF UnitInv, UnitsConserved
    <3>3. T \subseteq DOMAIN inst
      BY <1>1, AtIs DEF Shape
    <3>4. /\ Cardinality(T) \in Nat
          /\ sn \in T => Cardinality(T \ {sn}) = Cardinality(T) - 1
      BY <1>1, <3>3, InstSubsets
    <3>5. sn \in T <=> Kind(sn) = k
      BY <1>1, AtIs
    <3>6. unitsToBeFreed'[k] = IF Kind(sn) = k THEN unitsToBeFreed[k] + 1 ELSE unitsToBeFreed[k]
      BY <1>1, <1>2, <1>3 DEF UnitInv
    <3>7. sc' = sc /\ unitBusy' = unitBusy /\ unitsToBeFreed[k] \in Nat
      BY <1>1, <1>2 DEF KnowsSame, UnitInv
    <3>8. sn \notin T => T \ {sn} = T
      OBVIOUS
    <3>9. PICK c : c = Cardinality({n \in inUnit' : Kind(n)' = k})
      OBVIOUS
    <3>10. c = Cardinality(T \ {sn})
      BY <3>1, <3>9
    <3>11. unitBusy[k] = unitsToBeFreed'[k] + c
      <4> HIDE DEF T
      <4>1. CASE sn \in T
        BY <3>2, <3>4, <3>5, <3>6, <3>7, <3>10, <4>1
      <4>2. CASE sn \notin T
        BY <3>2, <3>5, <3>6, <3>7, <3>8, <3>10, <4>2
      <4> QED BY <4>1, <4>2
    <3> QED BY <3>2, <3>7, <3>9, <3>11
  <2> QED BY <2>2, <2>3 DEF UnitInv, UnitsConserved
<1>14. ReadyInv' /\ Kept /\ EntriesConserved' /\ PredictorInv'
  <2>1. IqInv /\ PredictorInv
    BY DEF IqInv
  <2>2. ReadyInv'
    BY <1>1, <1>2, <1>10, SameReady
  <2>3. Kept
    BY <1>10, <1>11, MoveKeeps
  <2>4. EntriesConserved'
    BY <1>2, <1>10, <1>12, SameEntries
  <2>5. PredictorInv'
    BY <1>1, <1>2, <1>10, <2>1, SamePredictor
  <2> QED BY <2>2, <2>3, <2>4, <2>5
<1> QED BY <1>13, <1>14 DEF IqInv, Kept

-----------------------------------------------------------------------------
(* To the ready lists and from them *)

\* S leaves the place p for the ready lists.
LEMMA ToReady ==
  ASSUME IqInv, NEW S, NEW p \in {"deferred", "retry", "replay"}, S \subseteq At[p],
         inst' = inst, KnowsSame, Moves(S, "ready"), Quiet, depPred' = depPred,
         UNCHANGED <<inUnit, unitBusy, unitsToBeFreed, freeEntries>>,
         ReadyOK(ready'),
         \A k \in Kinds : \A sn \in Range(ready'.insts[k]) :
           sn \in Range(ready.insts[k]) \/ (sn \in S /\ Kind(sn) = k)
  PROVE  IqInv'
<1>1. /\ Shape /\ PlaceInv /\ ReadyInv /\ UnitInv /\ PredictorInv
      /\ p \in Places \ {"nonSpec"} /\ "ready" \in Places \ {"nonSpec"}
  BY DEF IqInv, Places
<1>2. Mild(S)
  BY <1>1, MildSame
<1>3. ASSUME NEW sn \in S PROVE PlaceOK("ready", sn)'
  <2>1. PlaceOK(p, sn) /\ sn \in DOMAIN inst
    BY <1>1 DEF PlaceInv, Shape
  <2>2. IsMemRef(sn)
    BY <2>1 DEF PlaceOK, Fits, IsMemRef
  <2>3. ~inst'[sn].squashed => sn \in instList
    BY <2>1, <2>2 DEF PlaceOK
  <2>4. ~inst'[sn].executed /\ Fits("ready", Kind(sn))
    BY <2>1 DEF PlaceOK, Fits
  <2> QED BY <1>1, <1>2, <2>1, <2>2, <2>3, <2>4, Arrives DEF Unissued
<1>4. Move(S, "ready")
  BY <1>1, <1>2, <1>3 DEF Move
<1>5. ReadyInv'
  <2>1. ReadySet(ready) \subseteq DOMAIN inst /\ S \subseteq DOMAIN inst
    BY <1>1, AtIs DEF Shape, Places
  <2>2. ASSUME NEW k \in Kinds, NEW sn \in Range(ready'.insts[k])
        PROVE  sn \in DOMAIN inst /\ Kind(sn) = k
    BY <1>1, <2>1 DEF ReadyInv, ReadySet
  <2> QED BY <1>1, <1>4, <2>2, NewReady
<1>6. Kept
  BY <1>4, MoveKeeps
<1>7. EntriesConserved'
  BY <1>4, SameEntries DEF KeepsEntry
<1>8. PredictorInv' /\ UnitInv'
  BY <1>1, <1>4, SameKept, SamePredictor, SameUnits
<1> QED BY <1>5, <1>6, <1>7, <1>8 DEF IqInv, Kept

LEMMA ReplayMemInstStep ==
  ASSUME IqInv, ReplayMemInst
  PROVE  IqInv'
<1>0. PICK S : S = instsToReplay
  OBVIOUS
<1>1. /\ Shape /\ PlaceInv /\ ReadyInv /\ S = At["replay"] /\ "replay" \in Places
      /\ S \subseteq DOMAIN inst
  BY <1>0, AtIs DEF IqInv, Places, Shape
<1>2. /\ KnowsSame /\ UNCHANGED <<depPred, unitBusy, unitsToBeFreed, freeEntries, inst>>
      /\ UNCHANGED <<phase, nextPos, nonSpecSig, inRunahead, robSquashing, iewSquash, iewSquashNow, cause, orderIt>>
      /\ UNCHANGED <<deferred, blocked, retry, nonSpecInsts, instsToExecute, inUnit, iewQueue, sent>>
      /\ UNCHANGED exitRunahead /\ phase = "events"
      /\ ready' = AddAllReady(ready, S) /\ instsToReplay' = {}
  BY <1>0 DEF ReplayMemInst, KnowsSame, robVars, iqVars, lists, loopVars, fuVars,
                  iewVars, sigVars, memVars, modeVars
<1>3. \A q \in Places : q # "replay" => At[q] \cap S = {}
  BY <1>1 DEF PlaceInv, PlacesApart
<1>4. /\ ReadySet(ready) \cap S = {} /\ Range(retry) \cap S = {} /\ nonSpecInsts \cap S = {}
      /\ Range(instsToExecute) \cap S = {} /\ inUnit \cap S = {} /\ Range(deferred) \cap S = {}
      /\ Range(blocked) \cap S = {} /\ At["memory"] \cap S = {} /\ Range(iewQueue) \cap S = {}
  BY <1>3, AtIs DEF Places
<1>5. /\ ReadyOK(ready')
      /\ \A j \in Kinds : Range(ready'.insts[j]) =
                            Range(ready.insts[j]) \cup {sn \in S : Kind(sn) = j}
  <2>1. ReadyOK(ready) /\ Bounded(S) /\ \A sn \in S : Kind(sn) \in Kinds
    BY <1>1, InstSubsets, ShapeFacts DEF ReadyInv
  <2>2. S \cap ReadySet(ready) = {}
    BY <1>4
  <2> QED BY <1>2, <2>1, <2>2, AddAllReadyOK
<1>6. ReadySet(ready') = ReadySet(ready) \cup S
  <2>1. \A sn \in S : Kind(sn) \in Kinds
    BY <1>1, ShapeFacts
  <2> QED BY <1>5, <2>1 DEF ReadySet
<1>7. Moves(S, "ready")
  <2>1. At["memory"]' = At["memory"]
    BY <1>2, AtIs, AtIsNext
  <2>2. instsToReplay' = instsToReplay \ S
    BY <1>0, <1>2
  <2> QED BY <1>2, <1>4, <1>6, <2>1, <2>2, PlacesNext
<1>8. Quiet
  <2>1. \A s \in Lists' : s \in Seq(Nat) /\ Distinct(s)
    BY <1>1, <1>2, ListsAre, ListsNext
  <2> QED BY <1>1, <1>2, <2>1 DEF Quiet, SigKept, Shape
<1>9. \A k \in Kinds : \A sn \in Range(ready'.insts[k]) :
        sn \in Range(ready.insts[k]) \/ (sn \in S /\ Kind(sn) = k)
  BY <1>5
<1>10. S \subseteq At["replay"]
  BY <1>1
<1> QED BY <1>2, <1>5, <1>7, <1>8, <1>9, <1>10, ToReady

\* One instruction, of the place p.
LEMMA OneToReady ==
  ASSUME IqInv, NEW sn, NEW p \in {"deferred", "retry"}, sn \in At[p],
         ready' = AddReady(ready, Kind(sn), sn),
         inst' = inst, KnowsSame, depPred' = depPred,
         UNCHANGED <<inUnit, unitBusy, unitsToBeFreed, freeEntries>>,
         UNCHANGED <<phase, nextPos, nonSpecSig, inRunahead, robSquashing, iewSquash, iewSquashNow, cause, orderIt>>,
         UNCHANGED <<exitRunahead, blocked, nonSpecInsts, instsToExecute, instsToReplay>>,
         UNCHANGED <<iewQueue, sent>>, phase = "schedule",
         QueueOK(deferred'), QueueOK(retry'),
         Range(deferred') = Range(deferred) \ (IF p = "deferred" THEN {sn} ELSE {}),
         Range(retry') = Range(retry) \ (IF p = "retry" THEN {sn} ELSE {})
  PROVE  IqInv'
<1>1. Shape /\ PlaceInv /\ ReadyInv /\ p \in Places
  BY DEF IqInv, Places
<1>2. sn \in DOMAIN inst /\ sn \in Nat /\ Kind(sn) \in Kinds
  BY <1>1, ShapeFacts DEF Shape
<1>3. \A q \in Places : q # p => sn \notin At[q]
  BY <1>1, Elsewhere
<1>4. /\ sn \notin ReadySet(ready) /\ sn \notin Range(blocked) /\ sn \notin nonSpecInsts
      /\ sn \notin Range(instsToExecute) /\ sn \notin inUnit /\ sn \notin instsToReplay
      /\ sn \notin At["memory"] /\ sn \notin Range(iewQueue)
      /\ (p # "deferred" => sn \notin Range(deferred)) /\ (p # "retry" => sn \notin Range(retry))
  BY <1>3, AtIs DEF Places
<1>5. /\ ReadyOK(ready') /\ ReadySet(ready') = ReadySet(ready) \cup {sn}
      /\ \A j \in Kinds : Range(ready'.insts[j]) =
                            Range(ready.insts[j]) \cup (IF j = Kind(sn) THEN {sn} ELSE {})
  <2>1. ReadyOK(ready) /\ sn \notin ReadySet(ready)
    BY <1>1, <1>4 DEF ReadyInv
  <2>2. PICK k : k = Kind(sn) /\ k \in Kinds /\ ready' = AddReady(ready, k, sn)
    BY <1>2
  <2>3. /\ ReadyOK(ready') /\ ReadySet(ready') = ReadySet(ready) \cup {sn}
        /\ \A j \in Kinds : Range(ready'.insts[j]) =
                              Range(ready.insts[j]) \cup (IF j = k THEN {sn} ELSE {})
    BY ONLY <1>2, <2>1, <2>2, AddReadyOK
  <2> QED BY <2>2, <2>3
<1>6. Moves({sn}, "ready")
  <2>1. At["memory"]' = At["memory"]
    BY AtIs, AtIsNext
  <2>2. Range(deferred') = Range(deferred) \ {sn} /\ Range(retry') = Range(retry) \ {sn}
    BY <1>4
  <2> QED BY <1>4, <1>5, <2>1, <2>2, PlacesNext
<1>7. Quiet
  <2>1. \A s \in Lists' : s \in Seq(Nat) /\ Distinct(s)
    BY <1>1, ListsAre, ListsNext
  <2> QED BY <1>1, <2>1 DEF Quiet, SigKept, Shape
<1>8. \A k \in Kinds : \A n \in Range(ready'.insts[k]) :
        n \in Range(ready.insts[k]) \/ (n \in {sn} /\ Kind(n) = k)
  BY <1>5
<1>9. {sn} \subseteq At[p] /\ p \in {"deferred", "retry", "replay"}
  OBVIOUS
<1> QED BY <1>5, <1>6, <1>7, <1>8, <1>9, ToReady

LEMMA GetDeferredStep ==
  ASSUME IqInv, GetDeferred
  PROVE  IqInv'
<1>1. Shape /\ Deferrable # {}
  BY DEF IqInv, GetDeferred
<1>2. PICK i : i = Min(Deferrable)
  OBVIOUS
<1>3. i \in DOMAIN deferred
  <2>1. deferred \in Seq(Nat)
    BY <1>1, ListsAre DEF QueueOK
  <2>2. Deferrable \subseteq DOMAIN deferred /\ DOMAIN deferred \subseteq Nat
    BY <2>1, SeqBasics DEF Deferrable
  <2> QED BY <1>1, <1>2, <2>2, SmallestOf
<1>4. PICK sn : sn = deferred[i]
  OBVIOUS
<1>5. deferred' = RemoveAt(deferred, i) /\ ready' = AddReady(ready, Kind(sn), sn)
  BY <1>2, <1>4 DEF GetDeferred
<1>6. QueueOK(deferred') /\ Range(deferred') = Range(deferred) \ {sn}
  BY <1>1, <1>3, <1>4, <1>5, ListsAre, QueueRemoveAt
<1>7. sn \in At["deferred"]
  BY <1>3, <1>4, AtIs DEF Range
<1>8. retry' = retry /\ QueueOK(retry')
  BY <1>1, ListsAre DEF GetDeferred
<1> QED BY <1>5, <1>6, <1>7, <1>8, OneToReady
        DEF GetDeferred, KnowsSame, robVars, iqVars, fuVars, loopVars, mdVars, memVars,
            iewVars, sigVars, modeVars

LEMMA GetBlockedStep ==
  ASSUME IqInv, GetBlocked
  PROVE  IqInv'
<1>1. Shape /\ retry # <<>>
  BY DEF IqInv, GetBlocked
<1>2. PICK sn : sn = Head(retry)
  OBVIOUS
<1>3. retry' = Tail(retry) /\ ready' = AddReady(ready, Kind(sn), sn)
  BY <1>2 DEF GetBlocked
<1>4. QueueOK(retry') /\ Range(retry') = Range(retry) \ {sn} /\ sn \in At["retry"]
  BY <1>1, <1>2, <1>3, ListsAre, QueueTail, AtIs
<1>5. deferred' = deferred /\ QueueOK(deferred')
  BY <1>1, ListsAre DEF GetBlocked
<1> QED BY <1>3, <1>4, <1>5, OneToReady
        DEF GetBlocked, KnowsSame, robVars, iqVars, fuVars, loopVars, mdVars, memVars,
            iewVars, sigVars, modeVars

LEMMA ReadyKinds ==
  ASSUME Shape, ReadyInv
  PROVE  \A k \in Kinds : \A sn \in Range(ready.insts[k]) : sn \in DOMAIN inst /\ Kind(sn) = k
<1>1. ReadySet(ready) \subseteq DOMAIN inst
  BY AtIs DEF Shape, Places
<1>2. \A k \in Kinds : Range(ready.insts[k]) \subseteq ReadySet(ready)
  BY DEF ReadySet
<1> QED BY <1>1, <1>2 DEF ReadyInv

\* The instruction at the iterator is taken from its ready list.
LEMMA TopTaken ==
  ASSUME IqInv, NEW k, AtOrder(k), NEW sn, sn = Top(k), ready' = PopAt(ready, orderIt)
  PROVE  /\ k \in Kinds /\ sn \in At["ready"] /\ sn \in DOMAIN inst /\ sn \in Nat /\ Kind(sn) = k
         /\ PlaceOK("ready", sn) /\ \A p \in Places : p # "ready" => sn \notin At[p]
         /\ ReadyOK(ready') /\ ReadySet(ready') = ReadySet(ready) \ {sn}
         /\ \A j \in Kinds : Range(ready'.insts[j]) \subseteq Range(ready.insts[j])
<1>1. Shape /\ PlaceInv /\ ReadyInv /\ "ready" \in Places
  BY DEF IqInv, Places
<1>2. orderIt \in DOMAIN ready.order /\ k = ready.order[orderIt].class
  BY DEF AtOrder
<1>3. PICK i : i = orderIt /\ i \in DOMAIN ready.order /\ k = ready.order[i].class
  BY <1>2
<1>4. PICK r : r = ready
  OBVIOUS
<1>5. ReadyOK(r) /\ ReadyApart(r)
  BY <1>1, <1>4 DEF ReadyInv, ReadyApart
<1>6. /\ k \in Kinds /\ r.insts[k] # <<>> /\ Head(r.insts[k]) \in Range(r.insts[k])
      /\ ReadyOK(PopAt(r, i))
      /\ \A j \in Kinds : Range(PopAt(r, i).insts[j]) =
                            Range(r.insts[j]) \ (IF j = k THEN {Head(r.insts[k])} ELSE {})
  <2>1. i \in DOMAIN r.order
    BY <1>3, <1>4
  <2>2. k = r.order[i].class
    BY <1>3, <1>4
  <2>3. ReadyOK(PopAt(r, i))
    BY ONLY <1>5, <2>1, PopAtOK
  <2>4. k \in Kinds /\ r.insts[k] # <<>> /\ Head(r.insts[k]) \in Range(r.insts[k])
    BY ONLY <1>5, <2>1, <2>2, PopAtOK
  <2>5. /\ Range(PopAt(r, i).insts[k]) = Range(r.insts[k]) \ {Head(r.insts[k])}
        /\ \A j \in Kinds : j # k => PopAt(r, i).insts[j] = r.insts[j]
    BY ONLY <1>5, <2>1, <2>2, PopAtOK
  <2> QED BY <2>3, <2>4, <2>5
<1>7. sn = Head(r.insts[k]) /\ ready' = PopAt(r, i) /\ sn \in Range(r.insts[k])
  BY <1>3, <1>4, <1>6 DEF Top
<1>8. /\ ReadyOK(ready') /\ \A j \in Kinds : Range(ready'.insts[j]) =
                                               Range(ready.insts[j]) \ (IF j = k THEN {sn} ELSE {})
  BY <1>4, <1>6, <1>7
<1>9. \A j \in Kinds : j # k => sn \notin Range(ready.insts[j])
  <2> TAKE j \in Kinds
  <2> HAVE j # k
  <2>1. Range(r.insts[j]) \cap Range(r.insts[k]) = {}
    BY <1>5, <1>6 DEF ReadyApart
  <2> QED BY <1>4, <1>7, <2>1
<1>10. ReadySet(ready') = ReadySet(ready) \ {sn}
  BY <1>8, <1>9 DEF ReadySet
<1>11. sn \in ReadySet(ready) /\ Kind(sn) = k
  BY <1>1, <1>4, <1>6, <1>7 DEF ReadySet, ReadyInv
<1>12. sn \in At["ready"]
  BY <1>11, AtIs
<1>13. sn \in DOMAIN inst /\ sn \in Nat /\ PlaceOK("ready", sn)
  BY <1>1, <1>12, ShapeFacts DEF Shape, PlaceInv
<1>14. \A p \in Places : p # "ready" => sn \notin At[p]
  BY <1>1, <1>12, Elsewhere
<1> QED BY <1>6, <1>8, <1>10, <1>11, <1>12, <1>13, <1>14

LEMMA PopSquashedStep ==
  ASSUME IqInv, NEW k, PopSquashed(k)
  PROVE  IqInv'
<1>0. PICK sn : sn = Top(k)
  OBVIOUS
<1>1. AtOrder(k) /\ ready' = PopAt(ready, orderIt) /\ inst[sn].squashed /\ Shape
      /\ ReadyInv /\ UnitInv /\ PredictorInv /\ PlaceInv
  BY <1>0 DEF PopSquashed, IqInv
<1>2. /\ KnowsSame /\ UNCHANGED <<depPred, unitBusy, unitsToBeFreed, freeEntries, inst>>
      /\ UNCHANGED <<phase, nextPos, nonSpecSig, inRunahead, robSquashing, iewSquash, iewSquashNow, cause, orderIt>>
      /\ UNCHANGED <<deferred, blocked, retry, nonSpecInsts, instsToExecute, inUnit, iewQueue, sent>>
      /\ UNCHANGED <<exitRunahead, instsToReplay>> /\ phase = "schedule"
  BY DEF PopSquashed, AtOrder, Scheduling, KnowsSame, robVars, iqVars, lists, loopVars, fuVars,
         mdVars, iewVars, sigVars, memVars, modeVars
<1>3. /\ sn \in At["ready"] /\ \A p \in Places : p # "ready" => sn \notin At[p]
      /\ ReadyOK(ready') /\ ReadySet(ready') = ReadySet(ready) \ {sn}
      /\ \A j \in Kinds : Range(ready'.insts[j]) \subseteq Range(ready.insts[j])
  BY <1>0, <1>1, TopTaken
<1>4. /\ sn \notin Range(retry) /\ sn \notin Range(blocked) /\ sn \notin nonSpecInsts
      /\ sn \notin Range(instsToExecute) /\ sn \notin inUnit /\ sn \notin instsToReplay
      /\ sn \notin At["memory"] /\ sn \notin Range(iewQueue) /\ sn \notin Range(deferred)
  BY <1>3, AtIs DEF Places
<1>5. Moves({sn}, "none")
  <2>1. At["memory"]' = At["memory"]
    BY <1>2, AtIs, AtIsNext
  <2> QED BY <1>2, <1>3, <1>4, <2>1, PlacesNext
<1>6. Mild({sn})
  BY <1>1, <1>2, MildSame
<1>7. Move({sn}, "none")
  BY <1>1, <1>2, <1>3, <1>5, <1>6 DEF Move, Places
<1>8. Quiet
  <2>1. \A s \in Lists' : s \in Seq(Nat) /\ Distinct(s)
    BY <1>1, <1>2, ListsAre, ListsNext
  <2> QED BY <1>1, <1>2, <2>1 DEF Quiet, SigKept, Shape
<1>9. ReadyInv'
  <2>1. ASSUME NEW j \in Kinds, NEW n \in Range(ready'.insts[j])
        PROVE  n \in DOMAIN inst /\ Kind(n) = j
    BY <1>1, <1>3, ReadyKinds
  <2> QED BY <1>1, <1>3, <1>7, <2>1, NewReady
<1>10. Kept /\ EntriesConserved'
  BY <1>2, <1>7, <1>8, MoveKeeps, SameEntries DEF KeepsEntry
<1>11. PredictorInv' /\ UnitInv'
  BY <1>1, <1>2, <1>7, SameKept, SamePredictor, SameUnits
<1> QED BY <1>9, <1>10, <1>11 DEF IqInv, Kept

\* What FUPool counts when the instruction sn of kind k issues.
LEMMA IssueUnits ==
  ASSUME Shape, UnitInv, NEW sn \in DOMAIN inst, sn \notin inUnit, Mild({sn}), KnowsSame,
         NEW k \in Kinds, Kind(sn) = k, UnitFree(k),
         inUnit' = IF k = "div" THEN inUnit \cup {sn} ELSE inUnit,
         unitBusy' = [unitBusy EXCEPT ![k] = IF k = "barrier" THEN @ ELSE @ + 1],
         unitsToBeFreed' = FreeUnitNextCycle(k)
  PROVE  UnitInv'
<1>1. inUnit \subseteq DOMAIN inst /\ sc.units \in [Kinds -> Nat]
  BY AtIs, ScTypes DEF Shape, Places
<1>2. \A n \in inUnit' : Kind(n)' = Kind(n)
  <2>1. inUnit' \subseteq DOMAIN inst
    BY <1>1
  <2> QED BY <2>1, MildKeeps
<1>3. unitBusy' \in [Kinds -> Nat] /\ unitsToBeFreed' \in [Kinds -> Nat]
  BY DEF UnitInv, FreeUnitNextCycle
<1>4. ASSUME NEW j \in Kinds
      PROVE  /\ unitBusy'[j] = unitsToBeFreed'[j] + Cardinality({n \in inUnit' : Kind(n)' = j})
             /\ unitBusy'[j] <= sc'.units[j]
  <2> DEFINE T == {n \in inUnit : Kind(n) = j}
  <2>1. PICK c : c = Cardinality({n \in inUnit' : Kind(n)' = j})
    OBVIOUS
  <2>2. {n \in inUnit' : Kind(n)' = j} = IF j = k /\ k = "div" THEN T \cup {sn} ELSE T
    BY <1>2
  <2>3. /\ unitBusy[j] = unitsToBeFreed[j] + Cardinality(T) /\ unitBusy[j] <= sc.units[j]
        /\ unitBusy[j] \in Nat /\ unitsToBeFreed[j] \in Nat /\ sc.units[j] \in Nat /\ sc' = sc
    BY <1>1 DEF UnitInv, UnitsConserved, KnowsSame
  <2>4. Cardinality(T) \in Nat /\ Cardinality(T \cup {sn}) = Cardinality(T) + 1
    <3>1. T \subseteq DOMAIN inst /\ sn \notin T
      BY <1>1
    <3> QED BY <3>1, InstSubsets
  <2>5. /\ unitBusy'[j] = IF j = k /\ k # "barrier" THEN unitBusy[j] + 1 ELSE unitBusy[j]
        /\ unitsToBeFreed'[j] = IF j = k /\ k \notin {"barrier", "div"} THEN unitsToBeFreed[j] + 1
                                ELSE unitsToBeFreed[j]
    BY DEF UnitInv, FreeUnitNextCycle
  <2>6. j = k /\ k # "barrier" => unitBusy[j] + 1 <= sc.units[j]
    BY <2>3 DEF UnitFree
  <2>7. c = IF j = k /\ k = "div" THEN Cardinality(T) + 1 ELSE Cardinality(T)
    BY <2>1, <2>2, <2>4
  <2> HIDE DEF T
  <2>8. unitBusy'[j] = unitsToBeFreed'[j] + c /\ unitBusy'[j] <= sc'.units[j]
    BY <2>3, <2>4, <2>5, <2>6, <2>7
  <2> QED BY <2>1, <2>8
<1> QED BY <1>3, <1>4 DEF UnitInv, UnitsConserved

LEMMA IssueStep ==
  ASSUME IqInv, NEW k, Issue(k)
  PROVE  IqInv'
<1>0. PICK sn : sn = Top(k)
  OBVIOUS
<1> DEFINE x == [inst[sn] EXCEPT !.issued = TRUE]
           q == IF k = "div" THEN "unit" ELSE "execute"
<1>1. AtOrder(k) /\ ready' = PopAt(ready, orderIt) /\ ~inst[sn].squashed /\ UnitFree(k) /\ Shape
      /\ ReadyInv /\ UnitInv /\ PredictorInv /\ PlaceInv /\ FlagInv /\ EntriesConserved
  BY <1>0 DEF Issue, IqInv
<1>2. /\ KnowsSame
      /\ UNCHANGED <<phase, nextPos, nonSpecSig, inRunahead, robSquashing, iewSquash, iewSquashNow, cause, orderIt>>
      /\ UNCHANGED <<deferred, blocked, retry, nonSpecInsts, iewQueue, sent>>
      /\ UNCHANGED <<exitRunahead, instsToReplay>> /\ phase = "schedule"
  BY DEF Issue, AtOrder, Scheduling, KnowsSame, robVars, lists, iewVars, sigVars, memVars, modeVars
<1>3. /\ inst' = [inst EXCEPT ![sn].issued = TRUE]
      /\ freeEntries' = (IF LeavesAtIssue(sn) THEN freeEntries + 1 ELSE freeEntries)
      /\ depPred' = (IF k = "store" THEN StoreIssued(depPred, inst[sn].pos, sn) ELSE depPred)
      /\ inUnit' = (IF k = "div" THEN inUnit \cup {sn} ELSE inUnit)
      /\ instsToExecute' = (IF k = "div" THEN instsToExecute ELSE Append(instsToExecute, sn))
      /\ unitBusy' = [unitBusy EXCEPT ![k] = IF k = "barrier" THEN @ ELSE @ + 1]
      /\ unitsToBeFreed' = FreeUnitNextCycle(k)
  BY <1>0 DEF Issue
<1>4. /\ k \in Kinds /\ sn \in At["ready"] /\ sn \in DOMAIN inst /\ sn \in Nat /\ Kind(sn) = k
      /\ PlaceOK("ready", sn) /\ \A p \in Places : p # "ready" => sn \notin At[p]
      /\ ReadyOK(ready') /\ ReadySet(ready') = ReadySet(ready) \ {sn}
      /\ \A j \in Kinds : Range(ready'.insts[j]) \subseteq Range(ready.insts[j])
  BY <1>0, <1>1, TopTaken
<1>5. /\ sn \notin Range(retry) /\ sn \notin Range(blocked) /\ sn \notin nonSpecInsts
      /\ sn \notin Range(instsToExecute) /\ sn \notin inUnit /\ sn \notin instsToReplay
      /\ sn \notin At["memory"] /\ sn \notin Range(iewQueue) /\ sn \notin Range(deferred)
  BY <1>4, AtIs DEF Places
<1>6. inst[sn] \in InstType
  BY <1>1, <1>4 DEF Shape
<1>7. inst' = [inst EXCEPT ![sn] = x]
  BY <1>3, <1>4
<1>8. Mild({sn}) /\ inst'[sn] = x
  BY <1>1, <1>4, <1>7, MildFields
<1>9. /\ inst'[sn].issued /\ inst'[sn].executed = inst[sn].executed
      /\ inst'[sn].squashed = inst[sn].squashed /\ inst'[sn].memOpDone = inst[sn].memOpDone
  BY <1>6, <1>8 DEF InstType
<1>10. /\ QueueOK(instsToExecute')
       /\ Range(instsToExecute') = Range(instsToExecute) \cup (IF k = "div" THEN {} ELSE {sn})
  BY <1>1, <1>3, <1>4, <1>5, ListsAre, QueueAppend
<1>11. Moves({sn}, q)
  <2>1. At["memory"]' = At["memory"]
    <3>1. sent \subseteq DOMAIN inst /\ \A n \in DOMAIN inst : inst'[n].executed = inst[n].executed
      BY <1>1, <1>8, <1>9 DEF Shape, Mild
    <3> QED BY <1>2, <3>1, AtIs, AtIsNext
  <2> QED BY <1>2, <1>3, <1>4, <1>5, <1>10, <2>1, PlacesNext
<1>12. PlaceOK(q, sn)'
  <2>1. q \in Places /\ q \notin Unissued /\ q # "commit" /\ q # "replay" /\ q # "nonSpec"
        /\ "ready" \in Places
    BY DEF Places, Unissued
  <2>2. Fits(q, Kind(sn))
    BY <1>4 DEF Fits
  <2>3. ~inst'[sn].executed /\ (IsMemRef(sn) => sn \in instList)
    BY <1>1, <1>4, <1>9 DEF PlaceOK, Unissued
  <2> HIDE DEF q
  <2>4. q \in Unissued \/ IsMemRef(sn) => sn \in instList
    BY <2>1, <2>3
  <2>5. PICK o : o = q
    OBVIOUS
  <2>6. PlaceOK(o, sn)'
    BY <1>1, <1>2, <1>4, <1>8, <1>9, <2>1, <2>2, <2>3, <2>5, Arrives
  <2> QED BY <2>5, <2>6 DEF q
<1>13. Move({sn}, q)
  BY <1>1, <1>2, <1>4, <1>8, <1>9, <1>11, <1>12 DEF Move, Places
<1>14. Quiet
  <2>1. \A s \in Lists' : s \in Seq(Nat) /\ Distinct(s)
    BY <1>1, <1>2, <1>10, ListsAre, ListsNext
  <2>2. freeEntries' \in Nat
    BY <1>1, <1>3 DEF Shape
  <2> QED BY <1>1, <1>2, <2>1, <2>2 DEF Quiet, SigKept, Shape
<1>15. ReadyInv'
  <2>1. ASSUME NEW j \in Kinds, NEW n \in Range(ready'.insts[j])
        PROVE  n \in DOMAIN inst /\ Kind(n) = j
    BY <1>1, <1>4, ReadyKinds
  <2> QED BY <1>1, <1>4, <1>13, <2>1, NewReady
<1>16. PredictorInv'
  <2>1. PredictorKept
    <3>1. inst[sn].pos \in Nat /\ PredictorOK(depPred)
      BY <1>1, <1>6 DEF InstType, PredictorInv
    <3> QED BY <1>3, <1>4, <3>1, StoreIssuedOK DEF PredictorKept
  <2> QED BY <1>1, <1>13, <2>1, SamePredictor
<1>17. UnitInv'
  BY <1>1, <1>2, <1>3, <1>4, <1>5, <1>8, IssueUnits
<1>18. EntriesConserved'
  <2>1. CASE IsMemRef(sn)
    BY <1>3, <1>13, <2>1, SameEntries DEF KeepsEntry, LeavesAtIssue
  <2>2. CASE ~IsMemRef(sn)
    <3> DEFINE T == {n \in instList : InQueue(n)}
    <3>1. ~inst[sn].issued /\ sn \in instList
      BY <1>1, <1>4, <2>2 DEF PlaceOK, Unissued
    <3>2. sn \in T
      BY <3>1 DEF InQueue
    <3>3. instList' = instList /\ instList \subseteq DOMAIN inst
      BY <1>1, <1>2 DEF KnowsSame, Shape
    <3>4. \A n \in instList : n # sn => (InQueue(n)' <=> InQueue(n))
      BY <1>1, <1>2, <1>8, <3>3, MildKeeps DEF InQueue, Mild
    <3>5. ~InQueue(sn)'
      BY <1>1, <1>2, <1>4, <1>8, <1>9, <2>2, MildKeeps DEF InQueue
    <3>6. {n \in instList' : InQueue(n)'} = T \ {sn}
      BY <3>3, <3>4, <3>5
    <3>7. Cardinality(T) \in Nat /\ Cardinality(T \ {sn}) = Cardinality(T) - 1
      BY <1>1, <3>2, <3>3, InstSubsets
    <3>8. freeEntries' = freeEntries + 1 /\ freeEntries \in Nat
      BY <1>1, <1>3, <2>2 DEF LeavesAtIssue, Shape
    <3>9. freeEntries + Cardinality(T) = NumEntries
      BY <1>1 DEF EntriesConserved
    <3>10. PICK c : c = Cardinality({n \in instList' : InQueue(n)'})
      OBVIOUS
    <3>11. c = Cardinality(T) - 1
      BY <3>6, <3>7, <3>10
    <3> HIDE DEF T
    <3>12. freeEntries' + c = NumEntries
      BY <3>7, <3>8, <3>9, <3>11
    <3> QED BY <3>10, <3>12 DEF EntriesConserved
  <2> QED BY <2>1, <2>2
<1>19. Kept
  BY <1>13, <1>14, MoveKeeps
<1> QED BY <1>15, <1>16, <1>17, <1>18, <1>19 DEF IqInv, Kept

-----------------------------------------------------------------------------
(* Commit *)

\* What an instruction is after commit's tick.
LEMMA AgedIs ==
  ASSUME NEW f, NEW D, f = [sn \in D |-> f[sn]], NEW sn \in D, f[sn] \in InstType
  PROVE  /\ Aged(f)[sn] \in InstType /\ Aged(f)[sn].pos = f[sn].pos
         /\ Aged(f)[sn].runahead = f[sn].runahead /\ Aged(f)[sn].unready = f[sn].unready
         /\ Aged(f)[sn].memOpDone = f[sn].memOpDone /\ Aged(f)[sn].issued = f[sn].issued
         /\ Aged(f)[sn].executed = f[sn].executed /\ Aged(f)[sn].fault = f[sn].fault
         /\ Aged(f)[sn].squashed = f[sn].squashed
         /\ (Aged(f)[sn].wb = "no" <=> f[sn].wb = "no")
<1>1. DOMAIN f = D
  OBVIOUS
<1>2. Aged(f)[sn] = [f[sn] EXCEPT !.wb = IF @ = "fresh" THEN "ready" ELSE @]
  BY <1>1 DEF Aged
<1> QED BY <1>2 DEF InstType

LEMMA AgedDomain ==
  ASSUME NEW f
  PROVE  DOMAIN Aged(f) = DOMAIN f /\ Aged(f) = [sn \in DOMAIN f |-> Aged(f)[sn]]
BY DEF Aged

\* inst becomes f, at the end of the tick.
Ages(f) ==
  /\ inst' = Aged(f) /\ f = [sn \in DOMAIN inst |-> f[sn]]
  /\ \A sn \in DOMAIN inst : f[sn] \in InstType

LEMMA AgedFrom ==
  ASSUME NEW f, Ages(f)
  PROVE  /\ DOMAIN inst' = DOMAIN inst /\ inst' = [sn \in DOMAIN inst' |-> inst'[sn]]
         /\ \A sn \in DOMAIN inst :
              /\ inst'[sn] \in InstType /\ inst'[sn].pos = f[sn].pos
              /\ inst'[sn].runahead = f[sn].runahead /\ inst'[sn].unready = f[sn].unready
              /\ inst'[sn].memOpDone = f[sn].memOpDone /\ inst'[sn].issued = f[sn].issued
              /\ inst'[sn].executed = f[sn].executed /\ inst'[sn].fault = f[sn].fault
              /\ inst'[sn].squashed = f[sn].squashed
              /\ (inst'[sn].wb = "no" <=> f[sn].wb = "no")
<1>1. DOMAIN f = DOMAIN inst /\ inst' = Aged(f)
  BY DEF Ages
<1>2. DOMAIN inst' = DOMAIN inst /\ inst' = [sn \in DOMAIN inst' |-> inst'[sn]]
  BY <1>1, AgedDomain
<1>3. PICK D : D = DOMAIN inst
  OBVIOUS
<1>4. f = [sn \in D |-> f[sn]] /\ \A sn \in D : f[sn] \in InstType
  BY <1>3 DEF Ages
<1>5. \A sn \in D :
        /\ Aged(f)[sn] \in InstType /\ Aged(f)[sn].pos = f[sn].pos
        /\ Aged(f)[sn].runahead = f[sn].runahead /\ Aged(f)[sn].unready = f[sn].unready
        /\ Aged(f)[sn].memOpDone = f[sn].memOpDone /\ Aged(f)[sn].issued = f[sn].issued
        /\ Aged(f)[sn].executed = f[sn].executed /\ Aged(f)[sn].fault = f[sn].fault
        /\ Aged(f)[sn].squashed = f[sn].squashed
        /\ (Aged(f)[sn].wb = "no" <=> f[sn].wb = "no")
  BY ONLY <1>4, AgedIs
<1> QED BY <1>1, <1>2, <1>3, <1>5

\* R is marked to be in runahead, h has executed.
Forges(R, h) ==
  inst' = Aged([sn \in DOMAIN inst |->
            [inst[sn] EXCEPT !.runahead = @ \/ sn \in R, !.executed = @ \/ sn = h]])

LEMMA AgedForge ==
  ASSUME Shape, NEW R, NEW h, Forges(R, h)
  PROVE  /\ DOMAIN inst' = DOMAIN inst /\ inst' = [sn \in DOMAIN inst' |-> inst'[sn]]
         /\ \A sn \in DOMAIN inst :
              /\ inst'[sn] \in InstType /\ inst'[sn].pos = inst[sn].pos
              /\ inst'[sn].unready = inst[sn].unready /\ inst'[sn].memOpDone = inst[sn].memOpDone
              /\ inst'[sn].issued = inst[sn].issued /\ inst'[sn].fault = inst[sn].fault
              /\ inst'[sn].squashed = inst[sn].squashed
              /\ (inst'[sn].wb = "no" <=> inst[sn].wb = "no")
              /\ (inst'[sn].runahead <=> inst[sn].runahead \/ sn \in R)
              /\ (inst'[sn].executed <=> inst[sn].executed \/ sn = h)
<1>1. PICK f : f = [sn \in DOMAIN inst |->
                     [inst[sn] EXCEPT !.runahead = @ \/ sn \in R, !.executed = @ \/ sn = h]]
  OBVIOUS
<1>2. ASSUME NEW sn \in DOMAIN inst
      PROVE  /\ f[sn] \in InstType /\ f[sn].pos = inst[sn].pos
             /\ f[sn].unready = inst[sn].unready /\ f[sn].memOpDone = inst[sn].memOpDone
             /\ f[sn].issued = inst[sn].issued /\ f[sn].fault = inst[sn].fault
             /\ f[sn].squashed = inst[sn].squashed /\ f[sn].wb = inst[sn].wb
             /\ (f[sn].runahead <=> inst[sn].runahead \/ sn \in R)
             /\ (f[sn].executed <=> inst[sn].executed \/ sn = h)
  <2>1. inst[sn] \in InstType
    BY DEF Shape
  <2>2. PICK r \in BOOLEAN : r <=> sn \in R
    OBVIOUS
  <2>3. PICK e \in BOOLEAN : e <=> sn = h
    OBVIOUS
  <2>4. f[sn] = [inst[sn] EXCEPT !.runahead = @ \/ r, !.executed = @ \/ e]
    BY <1>1, <2>1, <2>2, <2>3 DEF InstType
  <2> QED BY <2>1, <2>2, <2>3, <2>4 DEF InstType
<1>3. Ages(f)
  <2>1. f = [sn \in DOMAIN inst |-> f[sn]]
    BY <1>1
  <2>2. inst' = Aged(f)
    BY <1>1 DEF Forges
  <2> QED BY <1>2, <2>1, <2>2 DEF Ages
<1>4. DOMAIN inst' = DOMAIN inst /\ inst' = [sn \in DOMAIN inst' |-> inst'[sn]]
  BY <1>3, AgedFrom
<1>5. ASSUME NEW sn \in DOMAIN inst
      PROVE  /\ inst'[sn] \in InstType /\ inst'[sn].pos = inst[sn].pos
             /\ inst'[sn].unready = inst[sn].unready /\ inst'[sn].memOpDone = inst[sn].memOpDone
             /\ inst'[sn].issued = inst[sn].issued /\ inst'[sn].fault = inst[sn].fault
             /\ inst'[sn].squashed = inst[sn].squashed
             /\ (inst'[sn].wb = "no" <=> inst[sn].wb = "no")
             /\ (inst'[sn].runahead <=> inst[sn].runahead \/ sn \in R)
             /\ (inst'[sn].executed <=> inst[sn].executed \/ sn = h)
  <2>1. /\ inst'[sn] \in InstType /\ inst'[sn].pos = f[sn].pos
        /\ inst'[sn].runahead = f[sn].runahead /\ inst'[sn].unready = f[sn].unready
        /\ inst'[sn].memOpDone = f[sn].memOpDone /\ inst'[sn].issued = f[sn].issued
        /\ inst'[sn].executed = f[sn].executed /\ inst'[sn].fault = f[sn].fault
        /\ inst'[sn].squashed = f[sn].squashed
        /\ (inst'[sn].wb = "no" <=> f[sn].wb = "no")
    BY <1>3, AgedFrom
  <2> QED BY <1>2, <2>1
<1> QED BY <1>4, <1>5

\* Q is marked squashed.
Squashes(Q) ==
  inst' = Aged([sn \in DOMAIN inst |-> [inst[sn] EXCEPT !.squashed = @ \/ sn \in Q]])

LEMMA AgedSquash ==
  ASSUME Shape, NEW Q, Squashes(Q)
  PROVE  /\ DOMAIN inst' = DOMAIN inst /\ inst' = [sn \in DOMAIN inst' |-> inst'[sn]]
         /\ \A sn \in DOMAIN inst :
              /\ inst'[sn] \in InstType /\ inst'[sn].pos = inst[sn].pos
              /\ inst'[sn].runahead = inst[sn].runahead
              /\ inst'[sn].unready = inst[sn].unready /\ inst'[sn].memOpDone = inst[sn].memOpDone
              /\ inst'[sn].issued = inst[sn].issued /\ inst'[sn].fault = inst[sn].fault
              /\ inst'[sn].executed = inst[sn].executed
              /\ (inst'[sn].wb = "no" <=> inst[sn].wb = "no")
              /\ (inst'[sn].squashed <=> inst[sn].squashed \/ sn \in Q)
<1>1. PICK f : f = [sn \in DOMAIN inst |-> [inst[sn] EXCEPT !.squashed = @ \/ sn \in Q]]
  OBVIOUS
<1>2. ASSUME NEW sn \in DOMAIN inst
      PROVE  /\ f[sn] \in InstType /\ f[sn].pos = inst[sn].pos
             /\ f[sn].runahead = inst[sn].runahead
             /\ f[sn].unready = inst[sn].unready /\ f[sn].memOpDone = inst[sn].memOpDone
             /\ f[sn].issued = inst[sn].issued /\ f[sn].fault = inst[sn].fault
             /\ f[sn].executed = inst[sn].executed /\ f[sn].wb = inst[sn].wb
             /\ (f[sn].squashed <=> inst[sn].squashed \/ sn \in Q)
  <2>1. inst[sn] \in InstType
    BY DEF Shape
  <2>2. PICK r \in BOOLEAN : r <=> sn \in Q
    OBVIOUS
  <2>3. f[sn] = [inst[sn] EXCEPT !.squashed = @ \/ r]
    BY <1>1, <2>1, <2>2 DEF InstType
  <2> QED BY <2>1, <2>2, <2>3 DEF InstType
<1>3. Ages(f)
  <2>1. f = [sn \in DOMAIN inst |-> f[sn]]
    BY <1>1
  <2>2. inst' = Aged(f)
    BY <1>1 DEF Squashes
  <2> QED BY <1>2, <2>1, <2>2 DEF Ages
<1>4. DOMAIN inst' = DOMAIN inst /\ inst' = [sn \in DOMAIN inst' |-> inst'[sn]]
  BY <1>3, AgedFrom
<1>5. ASSUME NEW sn \in DOMAIN inst
      PROVE  /\ inst'[sn] \in InstType /\ inst'[sn].pos = inst[sn].pos
             /\ inst'[sn].runahead = inst[sn].runahead
             /\ inst'[sn].unready = inst[sn].unready /\ inst'[sn].memOpDone = inst[sn].memOpDone
             /\ inst'[sn].issued = inst[sn].issued /\ inst'[sn].fault = inst[sn].fault
             /\ inst'[sn].executed = inst[sn].executed
             /\ (inst'[sn].wb = "no" <=> inst[sn].wb = "no")
             /\ (inst'[sn].squashed <=> inst[sn].squashed \/ sn \in Q)
  <2>1. /\ inst'[sn] \in InstType /\ inst'[sn].pos = f[sn].pos
        /\ inst'[sn].runahead = f[sn].runahead /\ inst'[sn].unready = f[sn].unready
        /\ inst'[sn].memOpDone = f[sn].memOpDone /\ inst'[sn].issued = f[sn].issued
        /\ inst'[sn].executed = f[sn].executed /\ inst'[sn].fault = f[sn].fault
        /\ inst'[sn].squashed = f[sn].squashed
        /\ (inst'[sn].wb = "no" <=> f[sn].wb = "no")
    BY <1>3, AgedFrom
  <2> QED BY <1>2, <2>1
<1> QED BY <1>4, <1>5

LEMMA CommitFrameFacts ==
  ASSUME IqInv, Commits, CommitFrame
  PROVE  /\ phase = "commit" /\ phase' = "events" /\ nonSpecSig = 0
         /\ UNCHANGED <<sc, nextSn, nextPos, rob, instList, freeEntries, dependGraph, regScoreboard>>
         /\ UNCHANGED <<nonSpecInsts, ready, deferred, blocked, retry, instsToExecute, inUnit>>
         /\ UNCHANGED <<unitBusy, unitsToBeFreed, orderIt, memDepHash, barrierSNs, instsToReplay>>
         /\ UNCHANGED <<depPred, sent, squashed, squashSig, walk, robSquashing, done>>
         /\ RedirectOK(iewSquash') /\ RedirectOK(iewSquashNow')
<1>1. phase = "commit" /\ ~walk.on
  BY DEF Commits
<1>2. robSquashing = walk.on /\ walk.on \in BOOLEAN
  BY ShapeFacts DEF IqInv, SignalInv
<1>3. robSquashing' = robSquashing
  BY <1>1, <1>2 DEF CommitFrame
<1>4. RedirectOK(NoReport)
  BY DEF RedirectOK, NoReport
<1>5. RedirectOK(iewSquash') /\ RedirectOK(iewSquashNow')
  BY <1>4 DEF IqInv, Shape, CommitFrame, EndsTick
<1>6. nonSpecSig = 0
  BY <1>1 DEF IqInv, PlaceInv
<1> QED BY <1>1, <1>3, <1>5, <1>6
        DEF CommitFrame, EndsTick, iqVars, lists, fuVars, loopVars, mdVars, memVars

\* Commit's tick ends with instructions aged.
LEMMA CommitStays ==
  ASSUME IqInv, Commits, CommitFrame, inst' = Aged(inst), UNCHANGED <<iewQueue, modeVars>>,
         nonSpecSig' = 0 \/ (rob # <<>> /\ nonSpecSig' = rob[1] /\ rob[1] \in nonSpecInsts)
  PROVE  IqInv'
<1>1. Shape /\ PlaceInv
  BY DEF IqInv
<1>2. /\ phase = "commit" /\ phase' = "events" /\ nonSpecSig = 0
      /\ UNCHANGED <<sc, nextSn, nextPos, rob, instList, freeEntries, dependGraph, regScoreboard>>
      /\ UNCHANGED <<nonSpecInsts, ready, deferred, blocked, retry, instsToExecute, inUnit>>
      /\ UNCHANGED <<unitBusy, unitsToBeFreed, orderIt, memDepHash, barrierSNs, instsToReplay>>
      /\ UNCHANGED <<depPred, sent, squashed, squashSig, walk, robSquashing, done>>
      /\ RedirectOK(iewSquash') /\ RedirectOK(iewSquashNow')
      /\ UNCHANGED <<inRunahead, cause, exitRunahead, iewQueue>>
  BY CommitFrameFacts DEF modeVars
<1>3. PICK f : f = inst
  OBVIOUS
<1>4. Ages(f)
  BY <1>1, <1>3 DEF Ages, Shape
<1>5. Mild({})
  <2>1. DOMAIN inst' = DOMAIN inst /\ inst' = [sn \in DOMAIN inst' |-> inst'[sn]]
    BY <1>4, AgedFrom
  <2>2. ASSUME NEW sn \in DOMAIN inst
        PROVE  /\ inst'[sn] \in InstType /\ inst'[sn].pos = inst[sn].pos
               /\ inst'[sn].unready = inst[sn].unready
               /\ inst'[sn].memOpDone = inst[sn].memOpDone
               /\ (inst'[sn].wb = "no" <=> inst[sn].wb = "no")
               /\ inst'[sn].runahead = inst[sn].runahead /\ inst'[sn].issued = inst[sn].issued
               /\ inst'[sn].executed = inst[sn].executed
               /\ inst'[sn].squashed = inst[sn].squashed
               /\ inst'[sn].fault = inst[sn].fault
    BY <1>3, <1>4, AgedFrom
  <2> QED BY <2>1, <2>2 DEF Mild
<1>6. At["memory"]' = At["memory"]
  <2>1. sent \subseteq DOMAIN inst /\ \A n \in DOMAIN inst : inst'[n].executed = inst[n].executed
    BY <1>1, <1>5 DEF Shape, Mild
  <2> QED BY <1>2, <2>1, AtIs, AtIsNext
<1>7. KnowsSame
  BY <1>2 DEF KnowsSame
<1>8. Move({}, "none")
  BY <1>1, <1>2, <1>5, <1>6, <1>7, StayPut DEF Places, lists
<1>9. SigKept
  <2>1. CASE nonSpecSig' = 0
    BY <1>2, <2>1 DEF SigKept
  <2>2. CASE rob # <<>> /\ nonSpecSig' = rob[1] /\ rob[1] \in nonSpecInsts
    <3>1. \A r \in Range(rob) : rob[1] <= r
      <4>1. rob \in Seq(Nat) /\ Ascending(rob)
        BY <1>1, ShapeFacts
      <4>2. Len(rob) \in Nat /\ DOMAIN rob = 1..Len(rob) /\ Len(rob) # 0
            /\ \A i \in DOMAIN rob : rob[i] \in Nat
        BY <2>2, <4>1, SeqBasics
      <4>3. \A i \in DOMAIN rob : rob[1] <= rob[i]
        BY <4>1, <4>2 DEF Ascending
      <4> QED BY <4>3 DEF Range
    <3> QED BY <1>2, <2>2, <3>1 DEF SigKept
  <2> QED BY <2>1, <2>2
<1>10. Quiet
  <2>1. \A s \in Lists' : s \in Seq(Nat) /\ Distinct(s)
    BY <1>1, <1>2, ListsAre, ListsNext
  <2>2. phase' \in Phases /\ phase # "events"
    BY <1>2 DEF Phases
  <2> QED BY <1>1, <1>2, <1>9, <2>1, <2>2 DEF Quiet, Shape
<1>11. KeepsEntry({})
  BY DEF KeepsEntry
<1> QED BY <1>2, <1>8, <1>10, <1>11, SameKept, MoveOnly

LEMMA NonSpecHeadStep ==
  ASSUME IqInv, NonSpecHead
  PROVE  IqInv'
BY CommitStays DEF NonSpecHead, modeVars

LEMMA EndCommitStep ==
  ASSUME IqInv, EndCommit
  PROVE  IqInv'
<1>1. nonSpecSig = 0
  BY DEF IqInv, PlaceInv, EndCommit, Commits
<1> QED BY <1>1, CommitStays DEF EndCommit, modeVars

\* The load at the head, from memory to commit.
LEMMA ForgeStep ==
  ASSUME IqInv, NEW R, Commits, LLLAtHead, Forge(R), R = {} \/ inRunahead',
         inRunahead => inRunahead', inRunahead' \in BOOLEAN, exitRunahead' = exitRunahead,
         cause'.pos \in Nat, inRunahead' => cause'.pos > 0
  PROVE  IqInv'
<1>1. Shape /\ PlaceInv /\ CommitFrame
  BY DEF IqInv, Forge
<1>2. /\ phase = "commit" /\ phase' = "events" /\ nonSpecSig = 0
      /\ UNCHANGED <<sc, nextSn, nextPos, rob, instList, freeEntries, dependGraph, regScoreboard>>
      /\ UNCHANGED <<nonSpecInsts, ready, deferred, blocked, retry, instsToExecute, inUnit>>
      /\ UNCHANGED <<unitBusy, unitsToBeFreed, orderIt, memDepHash, barrierSNs, instsToReplay>>
      /\ UNCHANGED <<depPred, sent, squashed, squashSig, walk, robSquashing, done>>
      /\ RedirectOK(iewSquash') /\ RedirectOK(iewSquashNow')
  BY <1>1, CommitFrameFacts
<1>3. PICK h : h = rob[1]
  OBVIOUS
<1>4. h \in sent /\ ~inst[h].executed /\ h \in DOMAIN inst /\ h \in Nat /\ Kind(h) \in Kinds
  BY <1>1, <1>3, ShapeFacts DEF LLLAtHead, Shape
<1>5. Forges(R, h) /\ iewQueue' = Append(iewQueue, h) /\ nonSpecSig' = nonSpecSig
  BY <1>3 DEF Forge, Forges
<1>6. /\ DOMAIN inst' = DOMAIN inst /\ inst' = [sn \in DOMAIN inst' |-> inst'[sn]]
      /\ \A sn \in DOMAIN inst :
           /\ inst'[sn] \in InstType /\ inst'[sn].pos = inst[sn].pos
           /\ inst'[sn].unready = inst[sn].unready /\ inst'[sn].memOpDone = inst[sn].memOpDone
           /\ inst'[sn].issued = inst[sn].issued /\ inst'[sn].fault = inst[sn].fault
           /\ inst'[sn].squashed = inst[sn].squashed
           /\ (inst'[sn].wb = "no" <=> inst[sn].wb = "no")
           /\ (inst'[sn].runahead <=> inst[sn].runahead \/ sn \in R)
           /\ (inst'[sn].executed <=> inst[sn].executed \/ sn = h)
  BY <1>1, <1>5, AgedForge
<1>7. Mild({h})
  <2>1. ASSUME NEW sn \in DOMAIN inst
        PROVE  inst'[sn].runahead => inst[sn].runahead \/ inRunahead'
    BY <1>6
  <2>2. ASSUME NEW sn \in DOMAIN inst, sn # h
        PROVE  inst'[sn].executed = inst[sn].executed
    <3>1. inst'[sn] \in InstType /\ inst[sn] \in InstType
      BY <1>1, <1>6 DEF Shape
    <3>2. inst'[sn].executed \in BOOLEAN /\ inst[sn].executed \in BOOLEAN
      BY <3>1, InstTypes
    <3>3. inst'[sn].executed <=> inst[sn].executed
      BY <1>6, <2>2
    <3> QED BY <3>2, <3>3
  <2> QED BY <1>6, <2>1, <2>2 DEF Mild
<1>8. KnowsSame
  BY <1>2 DEF KnowsSame
<1>9. "memory" \in Places /\ "commit" \in Places
  BY DEF Places
<1>10. h \in At["memory"] /\ \A p \in Places : p # "memory" => h \notin At[p]
  <2>1. h \in At["memory"]
    BY <1>4, AtIs
  <2> QED BY <1>1, <1>9, <2>1, Elsewhere
<1>11. /\ h \notin ReadySet(ready) /\ h \notin Range(retry) /\ h \notin nonSpecInsts
       /\ h \notin inUnit /\ h \notin Range(deferred) /\ h \notin Range(blocked)
       /\ h \notin instsToReplay /\ h \notin Range(iewQueue) /\ h \notin Range(instsToExecute)
  BY <1>10, AtIs DEF Places
<1>12. QueueOK(iewQueue') /\ Range(iewQueue') = Range(iewQueue) \cup {h}
  BY <1>1, <1>4, <1>5, <1>11, ListsAre, QueueAppend
<1>13. At["memory"]' = At["memory"] \ {h}
  <2>1. sent \subseteq DOMAIN inst
    BY <1>1 DEF Shape
  <2>2. {n \in sent' : ~inst'[n].executed} = {n \in sent : ~inst[n].executed} \ {h}
    BY <1>2, <1>6, <2>1
  <2> QED BY <2>2, AtIs, AtIsNext
<1>14. Moves({h}, "commit")
  BY <1>2, <1>11, <1>12, <1>13, PlacesNext
<1>15. PlaceOK("commit", h)'
  <2>1. PlaceOK("memory", h)
    BY <1>1, <1>9, <1>10 DEF PlaceInv
  <2>2. ~inst'[h].squashed => inst'[h].issued /\ (IsMemRef(h) => h \in instList)
    BY <1>4, <1>6, <2>1 DEF PlaceOK, Unissued
  <2>3. Fits("commit", Kind(h)) /\ inst'[h].executed
    BY <1>4, <1>6 DEF Fits
  <2> QED BY <1>1, <1>4, <1>7, <1>8, <1>9, <2>1, <2>2, <2>3, Arrives DEF Unissued
<1>16. Move({h}, "commit")
  <2>1. inst'[h].squashed => inst[h].squashed
    BY <1>4, <1>6
  <2> QED BY <1>7, <1>8, <1>9, <1>10, <1>14, <1>15, <2>1 DEF Move
<1>17. Quiet
  <2>1. \A s \in Lists' : s \in Seq(Nat) /\ Distinct(s)
    BY <1>1, <1>2, <1>12, ListsAre, ListsNext
  <2>2. phase' \in Phases /\ phase # "events"
    BY <1>2 DEF Phases
  <2>3. SigKept
    BY <1>2, <1>5 DEF SigKept
  <2> QED BY <1>1, <1>2, <2>1, <2>2, <2>3 DEF Quiet, Shape
<1>18. KeepsEntry({h})
  BY <1>4, <1>6 DEF KeepsEntry
<1> QED BY <1>2, <1>16, <1>17, <1>18, SameKept, MoveOnly

LEMMA EnterRunaheadStep ==
  ASSUME IqInv, EnterRunahead
  PROVE  IqInv'
<1>1. PICK R : R = Range(rob)
  OBVIOUS
<1>2. Commits /\ LLLAtHead /\ Forge(R) /\ inRunahead' /\ inRunahead' \in BOOLEAN
      /\ exitRunahead' = exitRunahead /\ cause'.pos = inst[rob[1]].pos
  BY <1>1 DEF EnterRunahead
<1>3. cause'.pos \in Nat \ {0}
  <2>1. Shape /\ rob[1] \in DOMAIN inst
    BY <1>2 DEF IqInv, LLLAtHead, Shape
  <2>2. inst[rob[1]].pos \in DOMAIN sc.prog
    BY <2>1, ShapeFacts
  <2> QED BY <1>2, <2>1, <2>2, ScTypes
<1>4. cause'.pos \in Nat /\ cause'.pos > 0
  BY <1>3
<1> QED BY <1>2, <1>4, ForgeStep

LEMMA PoisonLLLStep ==
  ASSUME IqInv, PoisonLLL
  PROVE  IqInv'
<1>1. PICK R : R = {}
  OBVIOUS
<1>2. Commits /\ LLLAtHead /\ Forge(R) /\ UNCHANGED <<inRunahead, exitRunahead, cause>>
  BY <1>1 DEF PoisonLLL, modeVars
<1>3. inRunahead \in BOOLEAN /\ cause.pos \in Nat /\ (inRunahead => cause.pos > 0)
  BY DEF IqInv, Shape
<1> QED BY <1>1, <1>2, <1>3, ForgeStep

-----------------------------------------------------------------------------
(* Instructions leave the reorder buffer *)

\* Instructions are squashed, and nothing else happens to them.
SameInst ==
  /\ DOMAIN inst' = DOMAIN inst /\ inst' = [sn \in DOMAIN inst' |-> inst'[sn]]
  /\ \A sn \in DOMAIN inst :
       /\ inst'[sn] \in InstType /\ inst'[sn].pos = inst[sn].pos
       /\ inst'[sn].runahead = inst[sn].runahead /\ inst'[sn].unready = inst[sn].unready
       /\ inst'[sn].memOpDone = inst[sn].memOpDone /\ inst'[sn].issued = inst[sn].issued
       /\ inst'[sn].fault = inst[sn].fault /\ inst'[sn].executed = inst[sn].executed
       /\ (inst'[sn].wb = "no" <=> inst[sn].wb = "no")
       /\ (inst[sn].squashed => inst'[sn].squashed)

\* No instruction retires before it has completed.
Passes == \A sn \in instList : Pending(sn) /\ sn > done => sn > done'

Leaves ==
  /\ SameInst /\ Passes /\ Range(rob') \subseteq Range(rob) /\ nonSpecSig = 0
  /\ UNCHANGED <<sc, nextSn, instList, freeEntries, dependGraph, regScoreboard>>
  /\ UNCHANGED <<nonSpecInsts, ready, deferred, blocked, retry, instsToExecute, inUnit>>
  /\ UNCHANGED <<unitBusy, unitsToBeFreed, memDepHash, barrierSNs, instsToReplay, depPred>>
  /\ UNCHANGED <<iewQueue, sent, squashed, nonSpecSig>>

LEMMA LeavesKeeps ==
  ASSUME Shape, Leaves
  PROVE  /\ \A sn \in DOMAIN inst :
              /\ Kind(sn)' = Kind(sn) /\ (IsMemRef(sn)' <=> IsMemRef(sn)) /\ OpOf(sn)' = OpOf(sn)
              /\ (IsBarrier(sn)' <=> IsBarrier(sn))
              /\ (WaitsReg(sn)' <=> WaitsReg(sn)) /\ (WaitsMem(sn)' <=> WaitsMem(sn))
              /\ (Pending(sn) => Pending(sn)') /\ (InQueue(sn)' <=> InQueue(sn))
         /\ \A sn : InRange(sn)' <=> InRange(sn)
<1>1. ASSUME NEW sn \in DOMAIN inst
      PROVE  /\ Kind(sn)' = Kind(sn) /\ (IsMemRef(sn)' <=> IsMemRef(sn)) /\ OpOf(sn)' = OpOf(sn)
             /\ (IsBarrier(sn)' <=> IsBarrier(sn))
             /\ (WaitsReg(sn)' <=> WaitsReg(sn)) /\ (WaitsMem(sn)' <=> WaitsMem(sn))
             /\ (Pending(sn) => Pending(sn)') /\ (InQueue(sn)' <=> InQueue(sn))
  <2>1. inst'[sn].pos = inst[sn].pos /\ sc' = sc /\ inst'[sn].unready = inst[sn].unready
        /\ inst'[sn].issued = inst[sn].issued /\ inst'[sn].memOpDone = inst[sn].memOpDone
    BY DEF Leaves, SameInst
  <2>2. OpOf(sn)' = OpOf(sn)
    BY <2>1 DEF OpOf
  <2>3. Kind(sn)' = Kind(sn)
    BY <2>2 DEF Kind
  <2>4. (IsMemRef(sn)' <=> IsMemRef(sn)) /\ (IsBarrier(sn)' <=> IsBarrier(sn))
    BY <2>3 DEF IsMemRef, IsBarrier
  <2>5. (WaitsReg(sn)' <=> WaitsReg(sn)) /\ (WaitsMem(sn)' <=> WaitsMem(sn))
    BY <2>1 DEF WaitsReg, WaitsMem, Leaves
  <2>6. Pending(sn) => Pending(sn)'
    BY DEF Pending, Leaves, SameInst
  <2>7. InQueue(sn)' <=> InQueue(sn)
    BY <2>1, <2>4 DEF InQueue
  <2> QED BY <2>2, <2>3, <2>4, <2>5, <2>6, <2>7
<1>2. \A sn : InRange(sn)' <=> InRange(sn)
  BY DEF InRange, Leaves
<1> QED BY <1>1, <1>2

LEMMA LeavesAt ==
  ASSUME Shape, Leaves
  PROVE  \A p \in Places : At[p]' = At[p]
<1>1. sent \subseteq DOMAIN inst /\ \A n \in DOMAIN inst : inst'[n].executed = inst[n].executed
  BY DEF Shape, Leaves, SameInst
<1>2. {sn \in sent' : ~inst'[sn].executed} = {sn \in sent : ~inst[sn].executed}
  BY <1>1 DEF Leaves
<1>3. At' = At
  BY <1>2 DEF At, Leaves
<1> QED BY <1>3

LEMMA LeavesPlaces ==
  ASSUME Shape, PlaceInv, Leaves
  PROVE  PlaceInv'
<1>1. PlacesApart'
  BY LeavesAt DEF PlaceInv, PlacesApart
<1>2. ASSUME NEW p \in Places, NEW sn \in At[p]' PROVE PlaceOK(p, sn)'
  <2>1. sn \in At[p] /\ sn \in DOMAIN inst
    BY <1>2, LeavesAt DEF Shape
  <2>2. PlaceOK(p, sn)
    BY <2>1 DEF PlaceInv
  <2>3. /\ Kind(sn)' = Kind(sn) /\ (IsMemRef(sn)' <=> IsMemRef(sn))
        /\ (WaitsReg(sn)' <=> WaitsReg(sn)) /\ (WaitsMem(sn)' <=> WaitsMem(sn))
    BY <2>1, LeavesKeeps
  <2>4. /\ (inst'[sn].wb = "no" <=> inst[sn].wb = "no") /\ inst'[sn].issued = inst[sn].issued
        /\ inst'[sn].executed = inst[sn].executed /\ (inst[sn].squashed => inst'[sn].squashed)
        /\ instList' = instList
    BY <2>1 DEF Leaves, SameInst
  <2> QED BY <2>2, <2>3, <2>4 DEF PlaceOK
<1>3. nonSpecSig' = 0
  BY DEF Leaves
<1> QED BY <1>1, <1>2, <1>3 DEF PlaceInv

LEMMA LeavesFlags ==
  ASSUME Shape, Somewhere, FlagInv, Leaves
  PROVE  Somewhere' /\ FlagInv'
<1>1. instList' = instList /\ DOMAIN inst' = DOMAIN inst /\ instList \subseteq DOMAIN inst
  BY DEF Leaves, SameInst, Shape
<1>2. ASSUME NEW sn \in instList PROVE SomewhereOK(sn)'
  <2>1. SomewhereOK(sn) /\ (WaitsReg(sn)' <=> WaitsReg(sn)) /\ (WaitsMem(sn)' <=> WaitsMem(sn))
    BY <1>1, LeavesKeeps DEF Somewhere
  <2>2. /\ (inst'[sn].wb = "no" <=> inst[sn].wb = "no")
        /\ inst'[sn].executed = inst[sn].executed /\ (inst[sn].squashed => inst'[sn].squashed)
    BY <1>1 DEF Leaves, SameInst
  <2>3. \A p \in Places : At[p]' = At[p]
    BY LeavesAt
  <2> QED BY <2>1, <2>2, <2>3 DEF SomewhereOK
<1>3. ASSUME NEW sn \in DOMAIN inst PROVE FlagOK(sn)'
  <2>1. FlagOK(sn) /\ (IsMemRef(sn)' <=> IsMemRef(sn))
    BY LeavesKeeps DEF FlagInv
  <2>2. /\ (inst'[sn].wb = "no" <=> inst[sn].wb = "no") /\ inst'[sn].issued = inst[sn].issued
        /\ inst'[sn].executed = inst[sn].executed /\ (inst[sn].squashed => inst'[sn].squashed)
        /\ inst'[sn].fault = inst[sn].fault /\ inst'[sn].memOpDone = inst[sn].memOpDone
    BY DEF Leaves, SameInst
  <2> QED BY <2>1, <2>2 DEF FlagOK
<1>4. ASSUME NEW sn \in instList PROVE WaitOK(sn)'
  <2>1. WaitOK(sn) /\ (WaitsReg(sn)' <=> WaitsReg(sn)) /\ (WaitsMem(sn)' <=> WaitsMem(sn))
    BY <1>1, LeavesKeeps DEF FlagInv
  <2>2. /\ (inst'[sn].wb = "no" <=> inst[sn].wb = "no") /\ inst'[sn].issued = inst[sn].issued
        /\ inst'[sn].executed = inst[sn].executed
    BY <1>1 DEF Leaves, SameInst
  <2> QED BY <2>1, <2>2 DEF WaitOK
<1> QED BY <1>1, <1>2, <1>3, <1>4 DEF Somewhere, FlagInv

LEMMA LeavesGraph ==
  ASSUME Shape, GraphInv, Leaves
  PROVE  GraphInv'
<1>1. /\ DOMAIN inst' = DOMAIN inst /\ instList' = instList /\ Range(rob') \subseteq Range(rob)
      /\ dependGraph' = dependGraph /\ regScoreboard' = regScoreboard
      /\ instList \subseteq DOMAIN inst /\ Range(rob) \subseteq DOMAIN inst
  BY DEF Leaves, SameInst, Shape
<1>2. ASSUME NEW d \in dependGraph PROVE EdgeOK(d)'
  <2>1. EdgeOK(d) /\ d[1] \in DOMAIN inst /\ d[2] \in DOMAIN inst
    BY <1>1 DEF GraphInv, EdgeOK
  <2>2. (Pending(d[1]) => Pending(d[1])') /\ OpOf(d[1])' = OpOf(d[1])
        /\ (IsBarrier(d[2])' <=> IsBarrier(d[2]))
    BY <2>1, LeavesKeeps
  <2>3. d[1] > done'
    BY <2>1 DEF EdgeOK, Leaves, Passes
  <2> QED BY <1>1, <2>1, <2>2, <2>3 DEF EdgeOK
<1>3. ASSUME NEW sn \in instList
      PROVE  /\ inst'[sn].unready = Cardinality(EdgesTo(sn)')
             /\ ~IsBarrier(sn)' => SourcesOK(sn)'
  <2>1. sn \in DOMAIN inst /\ inst[sn].unready = Cardinality(EdgesTo(sn))
    BY <1>1 DEF GraphInv
  <2>2. EdgesTo(sn)' = EdgesTo(sn) /\ inst'[sn].unready = inst[sn].unready
    BY <1>1, <2>1 DEF EdgesTo, Leaves, SameInst
  <2>3. (IsBarrier(sn)' <=> IsBarrier(sn)) /\ OpOf(sn)' = OpOf(sn)
    BY <2>1, LeavesKeeps
  <2>4. \A r \in Range(rob) : inst'[r].pos = inst[r].pos
    BY <1>1 DEF Leaves, SameInst
  <2>5. SourcesOK(sn) => SourcesOK(sn)'
    BY <1>1, <2>3, <2>4 DEF SourcesOK
  <2> QED BY <2>1, <2>2, <2>3, <2>5 DEF GraphInv
<1>4. ASSUME NEW x \in Range(rob'), x \in regScoreboard
      PROVE  Pending(x)' /\ HasDest(OpOf(x)')
  <2>1. Pending(x) /\ HasDest(OpOf(x)) /\ x \in DOMAIN inst
    BY <1>1, <1>4 DEF GraphInv
  <2>2. (Pending(x) => Pending(x)') /\ OpOf(x)' = OpOf(x)
    BY <2>1, LeavesKeeps
  <2> QED BY <2>1, <2>2
<1>5. dependGraph' \subseteq Nat \X Nat
  BY <1>1 DEF GraphInv
<1>6. \A r \in regScoreboard' : r \in Nat /\ r < nextSn'
  BY DEF GraphInv, Leaves
<1> QED BY <1>1, <1>2, <1>3, <1>4, <1>5, <1>6 DEF GraphInv

LEMMA LeavesHash ==
  ASSUME Shape, HashInv, BarrierInv, Leaves
  PROVE  HashInv' /\ BarrierInv'
<1>1. /\ DOMAIN inst' = DOMAIN inst /\ instList' = instList /\ Range(rob') \subseteq Range(rob)
      /\ memDepHash' = memDepHash /\ barrierSNs' = barrierSNs /\ nextSn' = nextSn
      /\ instList \subseteq DOMAIN inst /\ DOMAIN memDepHash \subseteq instList
      /\ \A p \in Places : At[p] \subseteq DOMAIN inst
  BY DEF Leaves, SameInst, Shape, HashInv, HashOK
<1>2. ASSUME NEW sn \in DOMAIN memDepHash PROVE HashOK(sn)'
  <2>1. HashOK(sn) /\ sn \in DOMAIN inst /\ sn \in instList
    BY <1>1 DEF HashInv
  <2>2. /\ (IsMemRef(sn)' <=> IsMemRef(sn)) /\ (IsBarrier(sn)' <=> IsBarrier(sn))
        /\ (Pending(sn) => Pending(sn)') /\ (WaitsReg(sn)' <=> WaitsReg(sn))
        /\ Kind(sn)' = Kind(sn)
    BY <2>1, LeavesKeeps
  <2>3. Producers(sn)' = Producers(sn)
    BY <1>1 DEF Producers
  <2>4. \A c \in DOMAIN inst : IsMemRef(c)' <=> IsMemRef(c)
    BY LeavesKeeps
  <2>5. sn > done'
    BY <2>1 DEF HashOK, Leaves, Passes
  <2> QED BY <1>1, <2>1, <2>2, <2>3, <2>4, <2>5 DEF HashOK
<1>3. ASSUME NEW sn \in instList, IsMemRef(sn)' \/ IsBarrier(sn)', inst'[sn].wb = "no"
      PROVE  sn \in DOMAIN memDepHash
  <2>1. sn \in DOMAIN inst /\ (inst'[sn].wb = "no" <=> inst[sn].wb = "no")
    BY <1>1 DEF Leaves, SameInst
  <2>2. (IsMemRef(sn)' <=> IsMemRef(sn)) /\ (IsBarrier(sn)' <=> IsBarrier(sn))
    BY <2>1, LeavesKeeps
  <2> QED BY <1>3, <2>1, <2>2 DEF HashInv
<1>4. HashInv'
  <2>1. memDepHash' = [sn \in DOMAIN memDepHash' |-> memDepHash'[sn]]
    BY <1>1 DEF HashInv
  <2> QED BY <1>1, <1>2, <1>3, <2>1 DEF HashInv
<1>5. \A sn \in DOMAIN inst : /\ (IsMemRef(sn)' <=> IsMemRef(sn)) /\ (IsBarrier(sn)' <=> IsBarrier(sn))
                              /\ (inst'[sn].wb = "no" <=> inst[sn].wb = "no")
  BY LeavesKeeps DEF Leaves, SameInst
<1>6. ASSUME NEW p \in Places \ {"nonSpec"}, NEW sn \in At[p]', IsBarrier(sn)'
      PROVE  \A r \in Range(rob') : sn <= r
  BY <1>1, <1>5, <1>6, LeavesAt DEF BarrierInv
<1>7. \A b \in DOMAIN memDepHash : IsBarrier(b)' /\ inst'[b].wb = "no" =>
        /\ b \in barrierSNs
        /\ \A c \in DOMAIN memDepHash : IsMemRef(c)' /\ b < c => c \in memDepHash[b].dependInsts
  BY <1>1, <1>5 DEF BarrierInv
<1>8. \A sn \in barrierSNs : sn \in DOMAIN memDepHash /\ IsBarrier(sn)'
  BY <1>1, <1>5 DEF BarrierInv
<1>9. nonSpecSig' = 0
  BY DEF Leaves
<1>10. BarrierInv'
  BY <1>1, <1>6, <1>7, <1>8, <1>9 DEF BarrierInv
<1> QED BY <1>4, <1>10

LEMMA LeavesRest ==
  ASSUME Shape, ReadyInv, PredictorInv, UnitInv, EntriesConserved, Leaves
  PROVE  ReadyInv' /\ PredictorInv' /\ UnitInv' /\ EntriesConserved'
<1>1. \A sn \in DOMAIN inst : Kind(sn)' = Kind(sn) /\ (InQueue(sn)' <=> InQueue(sn))
  BY LeavesKeeps
<1>2. ReadyInv'
  <2>1. ready' = ready
    BY DEF Leaves
  <2>2. \A k \in Kinds : \A sn \in Range(ready.insts[k]) : sn \in DOMAIN inst /\ Kind(sn) = k
    BY ReadyKinds
  <2> QED BY <1>1, <2>1, <2>2 DEF ReadyInv
<1>3. PredictorInv'
  <2>1. depPred' = depPred /\ nextSn' = nextSn /\ DOMAIN inst' = DOMAIN inst
    BY DEF Leaves, SameInst
  <2> QED BY <1>1, <2>1 DEF PredictorInv
<1>4. UnitInv'
  <2>1. UNCHANGED <<inUnit, unitBusy, unitsToBeFreed, sc>>
    BY DEF Leaves
  <2>2. inUnit \subseteq DOMAIN inst
    BY AtIs DEF Shape, Places
  <2>3. ASSUME NEW k \in Kinds
        PROVE  {sn \in inUnit' : Kind(sn)' = k} = {sn \in inUnit : Kind(sn) = k}
    BY <1>1, <2>1, <2>2
  <2> QED BY <2>1, <2>3 DEF UnitInv, UnitsConserved
<1>5. EntriesConserved'
  <2>1. instList' = instList /\ freeEntries' = freeEntries /\ instList \subseteq DOMAIN inst
    BY DEF Leaves, Shape
  <2>2. {sn \in instList' : InQueue(sn)'} = {sn \in instList : InQueue(sn)}
    BY <1>1, <2>1
  <2> QED BY <2>1, <2>2 DEF EntriesConserved
<1> QED BY <1>2, <1>3, <1>4, <1>5

\* What else is left to show of such a step.
LeftOK ==
  /\ phase' \in Phases /\ nextPos' \in Nat \ {0} /\ rob' \in Seq(Nat) /\ Ascending(rob')
  /\ {walk', squashSig'} \subseteq Signal /\ RedirectOK(iewSquash') /\ RedirectOK(iewSquashNow')
  /\ done' \in Nat /\ orderIt' \in Nat /\ {inRunahead', exitRunahead'} \subseteq BOOLEAN
  /\ (exitRunahead' => inRunahead') /\ cause'.pos \in Nat /\ (inRunahead' => cause'.pos > 0)

LEMMA LeavesOnly ==
  ASSUME IqInv, Leaves, LeftOK, SignalInv', LiveInv', RobInv'
  PROVE  IqInv'
<1>1. /\ Shape /\ ReadyInv /\ PlaceInv /\ Somewhere /\ FlagInv /\ GraphInv /\ HashInv
      /\ BarrierInv /\ PredictorInv /\ UnitInv /\ EntriesConserved
  BY DEF IqInv
<1>2. Shape'
  <2>1. /\ sc' = sc /\ nextSn' = nextSn /\ DOMAIN inst' = DOMAIN inst /\ instList' = instList
        /\ inst' = [sn \in DOMAIN inst' |-> inst'[sn]] /\ Range(rob') \subseteq Range(rob)
        /\ freeEntries' = freeEntries /\ sent' = sent /\ squashed' = squashed
        /\ nonSpecSig' = nonSpecSig
    BY DEF Leaves, SameInst
  <2>2. \A sn \in DOMAIN inst : inst'[sn] \in InstType /\ inst'[sn].pos \in DOMAIN sc.prog
    BY <1>1 DEF Leaves, SameInst, Shape
  <2>3. \A s \in Lists' : s \in Seq(Nat) /\ Distinct(s)
    BY <1>1, ListsAre, ListsNext DEF Leaves
  <2>4. \A p \in Places : At[p]' \subseteq DOMAIN inst
    BY <1>1, LeavesAt DEF Shape
  <2>5. /\ sc \in Scenarios /\ nextSn \in Nat \ {0} /\ DOMAIN inst \subseteq 1..(nextSn - 1)
        /\ instList \subseteq DOMAIN inst /\ freeEntries \in Nat /\ sent \subseteq DOMAIN inst
        /\ squashed \in Signal /\ nonSpecSig \in Nat /\ Range(rob) \subseteq DOMAIN inst
    BY <1>1 DEF Shape
  <2> QED BY <2>1, <2>2, <2>3, <2>4, <2>5 DEF Shape, LeftOK
<1>3. PlaceInv' /\ Somewhere' /\ FlagInv'
  BY <1>1, LeavesPlaces, LeavesFlags
<1>4. GraphInv' /\ HashInv' /\ BarrierInv'
  BY <1>1, LeavesGraph, LeavesHash
<1>5. ReadyInv' /\ PredictorInv' /\ UnitInv' /\ EntriesConserved'
  BY <1>1, LeavesRest
<1> QED BY <1>2, <1>3, <1>4, <1>5 DEF IqInv

LEMMA FrontPart ==
  ASSUME NEW s \in Seq(Nat), Ascending(s), NEW m \in 0..Len(s)
  PROVE  /\ SubSeq(s, 1, m) \in Seq(Nat) /\ Ascending(SubSeq(s, 1, m))
         /\ Range(SubSeq(s, 1, m)) = {s[i] : i \in 1..m}
<1> DEFINE t == SubSeq(s, 1, m)
<1>1. Len(s) \in Nat /\ DOMAIN s = 1..Len(s) /\ \A i \in 1..Len(s) : s[i] \in Nat
  BY SeqBasics
<1>2. m \in Nat /\ m <= Len(s) /\ m \in Int /\ \A i \in 1..m : s[i] \in Nat
  BY <1>1
<1>3. t \in Seq(Nat) /\ Len(t) = m /\ \A i \in 1..m : t[i] = s[i]
  <2>1. /\ t \in Seq(Nat) /\ Len(t) = (IF 1 <= m THEN m - 1 + 1 ELSE 0)
        /\ \A i \in 1..(m - 1 + 1) : t[i] = s[1 + i - 1]
    BY <1>2, SubSeqProperties
  <2>2. \A i \in 1..m : t[i] = s[i]
    <3> TAKE i \in 1..m
    <3>1. i \in 1..(m - 1 + 1) /\ 1 + i - 1 = i
      BY <1>2
    <3> QED BY <2>1, <3>1
  <2> QED BY <1>2, <2>1, <2>2
<1> HIDE DEF t
<1>4. DOMAIN t = 1..m
  BY <1>3, SeqBasics
<1>5. Ascending(t)
  BY <1>1, <1>2, <1>3, <1>4 DEF Ascending
<1>6. Range(t) = {s[i] : i \in 1..m}
  BY <1>3, <1>4 DEF Range
<1> QED BY <1>3, <1>5, <1>6 DEF t

\* ROB::doSquash: what is left is older than what is marked.
LEMMA RobMarksFacts ==
  ASSUME Shape, NEW to \in Nat, RobMarks(to)
  PROVE  /\ rob' \in Seq(Nat) /\ Ascending(rob') /\ Range(rob') \subseteq Range(rob)
         /\ Squashes(Range(rob) \ Range(rob'))
         /\ \A x \in Range(rob) \ Range(rob') : x > to /\ \A r \in Range(rob') : r < x
         /\ robSquashing' = walk'.on /\ walk' \in Signal /\ (walk'.on => walk'.to = to)
         /\ (~walk'.on => \A r \in Range(rob') : r <= to)
<1>1. PICK s : s = rob
  OBVIOUS
<1>2. /\ s \in Seq(Nat) /\ Ascending(s) /\ Len(s) \in Nat /\ DOMAIN s = 1..Len(s)
      /\ \A i \in 1..Len(s) : s[i] \in Nat
  BY <1>1, ShapeFacts, SeqBasics
<1>3. PICK u : u = UpTo(s, to)
  OBVIOUS
<1>4. /\ u \in Nat /\ u <= Len(s)
      /\ \A i \in 1..Len(s) : (i <= u => s[i] <= to) /\ (u < i => to < s[i])
  <2>1. /\ u \in 0..Len(s)
        /\ \A i \in 1..Len(s) : (i <= u => s[i] <= to) /\ (u < i => to < s[i])
    BY <1>2, <1>3, UpToCuts
  <2> QED BY <1>2, <2>1
<1>5. PICK y : y = Len(After(s, to))
  OBVIOUS
<1>6. y = Len(s) - u
  <2>1. \A i \in (u + 1)..Len(s) : s[i] \in Nat
    BY <1>2, <1>4
  <2>2. u + 1 \in Int /\ Len(s) \in Int
    BY <1>2, <1>4
  <2>3. Len(SubSeq(s, u + 1, Len(s))) = IF u + 1 <= Len(s) THEN Len(s) - (u + 1) + 1 ELSE 0
    BY <2>1, <2>2, SubSeqProperties
  <2>4. y = IF u + 1 <= Len(s) THEN Len(s) - (u + 1) + 1 ELSE 0
    BY <1>3, <1>5, <2>3 DEF After
  <2>5. PICK l : l = Len(s)
    OBVIOUS
  <2>6. l \in Nat /\ u \in Nat /\ u <= l /\ y = IF u + 1 <= l THEN l - (u + 1) + 1 ELSE 0
    BY <1>2, <1>4, <2>4, <2>5
  <2>7. y = l - u
    BY ONLY <2>6
  <2> QED BY <2>5, <2>7
<1>7. PICK n : n = IF y < SquashWidth THEN y ELSE SquashWidth
  OBVIOUS
<1>8. n \in Nat /\ n <= y /\ y \in Nat
  <2>1. y \in Nat
    <3>1. PICK l : l = Len(s)
      OBVIOUS
    <3>2. l \in Nat /\ u \in Nat /\ u <= l /\ y = l - u
      BY <1>2, <1>4, <1>6, <3>1
    <3> QED BY ONLY <3>2
  <2>2. SquashWidth \in Nat
    BY IqAssumption
  <2> QED BY ONLY <1>7, <2>1, <2>2
<1>9. PICK m : m = Len(s) - n
  OBVIOUS
<1>10. m \in Nat /\ m <= Len(s) /\ u <= m /\ m \in 0..Len(s) /\ (n = y <=> m = u)
  <2>1. PICK l : l = Len(s)
    OBVIOUS
  <2>2. l \in Nat /\ u \in Nat /\ u <= l /\ y = l - u /\ m = l - n
    BY <1>2, <1>4, <1>6, <1>9, <2>1
  <2>3. m \in Nat /\ m <= l /\ u <= m /\ m \in 0..l /\ (n = y <=> m = u)
    BY ONLY <1>8, <2>2
  <2> QED BY <2>1, <2>3
<1>11. PICK Q : Q = {s[k] : k \in (m + 1)..Len(s)}
  OBVIOUS
<1>12. /\ rob' = SubSeq(s, 1, m) /\ Squashes(Q) /\ robSquashing' = (n < y)
       /\ walk' = IF n < y THEN [on |-> TRUE, to |-> to, tail |-> 0] ELSE NoSquash
  BY <1>1, <1>5, <1>7, <1>9, <1>11 DEF RobMarks, Squashes
<1>13. rob' \in Seq(Nat) /\ Ascending(rob') /\ Range(rob') = {s[i] : i \in 1..m}
  BY <1>2, <1>10, <1>12, FrontPart
<1>14. \A i, j \in 1..Len(s) : i < j => s[i] < s[j]
  BY <1>2 DEF Ascending
<1>15. ASSUME NEW i \in 1..m, NEW k \in (m + 1)..Len(s)
       PROVE  s[i] < s[k] /\ to < s[k]
  <2>1. i \in 1..Len(s) /\ k \in 1..Len(s) /\ i < k /\ u < k
    BY <1>2, <1>4, <1>10
  <2> QED BY <1>4, <1>14, <2>1
<1>16. ASSUME NEW k \in (m + 1)..Len(s)
       PROVE  to < s[k] /\ s[k] \in Range(s)
  <2>1. k \in 1..Len(s) /\ u < k
    BY <1>2, <1>4, <1>10
  <2> QED BY <1>2, <1>4, <2>1 DEF Range
<1>17. Range(s) = Range(rob') \cup Q
  <2>1. \A i \in 1..Len(s) : i \in 1..m \/ i \in (m + 1)..Len(s)
    BY <1>2, <1>10
  <2>2. \A i \in 1..m : i \in 1..Len(s)
    BY <1>2, <1>10
  <2> QED BY <1>2, <1>11, <1>13, <1>16, <2>1, <2>2 DEF Range
<1>18. \A x \in Q : x > to /\ \A r \in Range(rob') : r < x
  <2> TAKE x \in Q
  <2>1. PICK k \in (m + 1)..Len(s) : x = s[k]
    BY <1>11
  <2>2. k \in 1..Len(s)
    BY <1>2, <1>10
  <2>3. x > to /\ x \in Nat
    BY <1>2, <1>16, <2>1, <2>2
  <2>4. \A r \in Range(rob') : r < x
    BY <1>13, <1>15, <2>1
  <2> QED BY <2>3, <2>4
<1>19. Q = Range(rob) \ Range(rob')
  <2>1. \A x \in Q : x \in Nat /\ \A r \in Range(rob') : r < x
    <3> TAKE x \in Q
    <3>1. PICK k \in (m + 1)..Len(s) : x = s[k]
      BY <1>11
    <3>2. k \in 1..Len(s)
      BY <1>2, <1>10
    <3> QED BY <1>2, <1>18, <3>1, <3>2
  <2>2. \A x \in Q : x \notin Range(rob')
    BY <2>1
  <2> QED BY <1>1, <1>17, <2>2
<1>20. robSquashing' = walk'.on /\ walk' \in Signal /\ (walk'.on => walk'.to = to)
  <2>1. (n < y) \in BOOLEAN
    BY <1>8
  <2>2. CASE n < y
    <3>1. robSquashing' = TRUE /\ walk' = [on |-> TRUE, to |-> to, tail |-> 0]
      BY <1>12, <2>2
    <3> QED BY ONLY <3>1, to \in Nat DEF Signal
  <2>3. CASE ~(n < y)
    <3>1. robSquashing' = FALSE /\ walk' = [on |-> FALSE, to |-> 0, tail |-> 0]
      BY <1>12, <2>1, <2>3 DEF NoSquash
    <3> QED BY ONLY <3>1 DEF Signal
  <2> QED BY <2>1, <2>2, <2>3
<1>21. ASSUME ~walk'.on PROVE \A r \in Range(rob') : r <= to
  <2>1. ~(n < y)
    BY <1>12, <1>21
  <2>2. m = u
    BY <1>8, <1>10, <2>1
  <2>3. \A i \in 1..m : i \in 1..Len(s) /\ i <= u
    BY <1>2, <1>10, <2>2
  <2> QED BY <1>4, <1>13, <2>3
<1>22. Range(rob') \subseteq Range(rob)
  BY <1>1, <1>17
<1> QED BY <1>12, <1>13, <1>18, <1>19, <1>20, <1>21, <1>22

\* What the reorder buffer drops is squashed, and all else stays.
LEMMA MarksLeave ==
  ASSUME IqInv, phase = "commit", NEW to \in Nat, RobMarks(to), EndsTick,
         UNCHANGED <<done, nonSpecSig, iewQueue>>
  PROVE  /\ Leaves /\ DOMAIN inst' = DOMAIN inst
         /\ \A sn \in DOMAIN inst :
              inst'[sn].squashed <=> inst[sn].squashed \/ sn \in Range(rob) \ Range(rob')
<1>1. Shape /\ PlaceInv
  BY DEF IqInv
<1>2. PICK Q : Q = Range(rob) \ Range(rob')
  OBVIOUS
<1>3. Squashes(Q) /\ Range(rob') \subseteq Range(rob)
  BY <1>1, <1>2, RobMarksFacts
<1>4. DOMAIN inst' = DOMAIN inst /\ inst' = [sn \in DOMAIN inst' |-> inst'[sn]]
  BY <1>1, <1>3, AgedSquash
<1>5. ASSUME NEW sn \in DOMAIN inst
      PROVE  /\ inst'[sn] \in InstType /\ inst'[sn].pos = inst[sn].pos
             /\ inst'[sn].runahead = inst[sn].runahead /\ inst'[sn].unready = inst[sn].unready
             /\ inst'[sn].memOpDone = inst[sn].memOpDone /\ inst'[sn].issued = inst[sn].issued
             /\ inst'[sn].fault = inst[sn].fault /\ inst'[sn].executed = inst[sn].executed
             /\ (inst'[sn].wb = "no" <=> inst[sn].wb = "no")
             /\ (inst'[sn].squashed <=> inst[sn].squashed \/ sn \in Q)
  BY <1>1, <1>3, AgedSquash
<1>6. SameInst
  BY <1>4, <1>5 DEF SameInst
<1>7. Passes
  BY DEF Passes
<1>8. nonSpecSig = 0
  BY <1>1 DEF PlaceInv
<1>9. Leaves
  BY <1>3, <1>6, <1>7, <1>8 DEF Leaves, EndsTick, iqVars, lists, fuVars, mdVars, memVars
<1> QED BY <1>2, <1>4, <1>5, <1>9

\* The same of every squash and of the walk that follows it.
LEMMA SquashesLeft ==
  ASSUME IqInv, phase = "commit", NEW to \in Nat, RobMarks(to), EndsTick,
         UNCHANGED <<done, nonSpecSig, iewQueue>>,
         \A sn \in Range(rob) : sn <= to => (walk.on => sn <= walk.to)
  PROVE  /\ \A sn \in instList : ListedOK(sn)'
         /\ \A sn \in DOMAIN inst \ instList : UnlistedOK(sn)'
         /\ RobInv'
<1>1. /\ Shape /\ RobInv /\ Leaves /\ DOMAIN inst' = DOMAIN inst
      /\ \A sn \in DOMAIN inst :
           inst'[sn].squashed <=> inst[sn].squashed \/ sn \in Range(rob) \ Range(rob')
  BY MarksLeave DEF IqInv
<1>2. /\ Range(rob') \subseteq Range(rob)
      /\ \A x \in Range(rob) \ Range(rob') : x > to /\ \A r \in Range(rob') : r < x
      /\ (walk'.on => walk'.to = to) /\ (~walk'.on => \A r \in Range(rob') : r <= to)
  BY <1>1, RobMarksFacts
<1>3. \A sn \in DOMAIN inst : sn \in Nat
  BY <1>1, ShapeFacts
<1>4. instList \subseteq DOMAIN inst /\ Range(rob) \subseteq DOMAIN inst /\ instList' = instList
      /\ done' = done
  BY <1>1 DEF Shape, Leaves
<1>5. ASSUME NEW sn \in instList PROVE ListedOK(sn)'
  <2>1. ListedOK(sn) /\ sn \in DOMAIN inst
    BY <1>1, <1>4 DEF RobInv
  <2>2. sn > done => sn \in Range(rob') \/ inst'[sn].squashed
    BY <1>1, <2>1 DEF ListedOK
  <2>3. sn <= done => inst'[sn].wb # "no" /\ ~InQueue(sn)'
    BY <1>1, <2>1, LeavesKeeps DEF ListedOK, Leaves, SameInst
  <2>4. ASSUME NEW r \in Range(rob')
        PROVE  (r < sn => r \in instList) /\ (done < sn /\ sn < r => sn \in Range(rob'))
    <3>1. r \in Range(rob) /\ r \in Nat /\ sn \in Nat
      BY <1>2, <1>3, <1>4, <2>1
    <3>2. done < sn /\ sn < r => sn \in Range(rob)
      BY <2>1, <3>1 DEF ListedOK
    <3>3. sn \in Range(rob) \ Range(rob') => r < sn
      BY <1>2
    <3> QED BY <2>1, <3>1, <3>2, <3>3 DEF ListedOK
  <2> QED BY <1>4, <2>2, <2>3, <2>4 DEF ListedOK
<1>6. ASSUME NEW sn \in DOMAIN inst, sn \notin instList PROVE UnlistedOK(sn)'
  <2> SUFFICES ASSUME ~inst'[sn].squashed
               PROVE  \/ sn \in Range(rob') /\ walk'.on /\ sn > walk'.to /\ InRange(sn)'
                      \/ inst'[sn].wb # "no" /\ \A r \in Range(rob') : sn < r
    BY DEF UnlistedOK
  <2>1. UnlistedOK(sn) /\ ~inst[sn].squashed /\ (sn \in Range(rob) => sn \in Range(rob'))
    BY <1>1, <1>6 DEF RobInv
  <2>2. CASE inst[sn].wb # "no" /\ \A r \in Range(rob) : sn < r
    <3>1. inst'[sn].wb # "no"
      BY <1>1, <1>6, <2>2 DEF Leaves, SameInst
    <3> QED BY <1>2, <2>2, <3>1
  <2>3. CASE sn \in Range(rob) /\ walk.on /\ sn > walk.to /\ InRange(sn)
    <3>1. sn \in Range(rob') /\ InRange(sn)'
      BY <1>1, <2>1, <2>3, LeavesKeeps
    <3>2. walk.to \in Nat /\ sn \in Nat
      BY <1>1, <1>3, ShapeFacts
    <3>3. ~(sn <= to)
      BY <2>3, <3>2
    <3>4. walk'.on /\ walk'.to = to /\ sn > to
      BY <1>2, <3>1, <3>2, <3>3
    <3> QED BY <3>1, <3>4
  <2> QED BY <2>1, <2>2, <2>3 DEF UnlistedOK
<1>7. \A sn \in Range(rob') : sn > done'
  BY <1>1, <1>2, <1>4 DEF RobInv
<1>8. RobInv'
  BY <1>1, <1>4, <1>5, <1>6, <1>7 DEF RobInv
<1> QED BY <1>5, <1>6, <1>8

LEMMA SquashFromStep ==
  ASSUME IqInv, phase = "commit", NEW to \in Nat, NEW pos \in Nat \ {0}, SquashFrom(to, pos),
         \A sn \in Range(rob) : sn <= to => (walk.on => sn <= walk.to),
         \A sn \in Range(rob) : sn <= to => inRunahead' = inRunahead,
         {inRunahead', exitRunahead'} \subseteq BOOLEAN, exitRunahead' => inRunahead',
         cause'.pos \in Nat, inRunahead' => cause'.pos > 0
  PROVE  IqInv'
<1>1. /\ Shape /\ PlaceInv /\ SignalInv /\ LiveInv
      /\ squashSig' = [on |-> TRUE, to |-> to, tail |-> nextSn - 1] /\ nextPos' = pos
      /\ RobMarks(to) /\ EndsTick /\ UNCHANGED <<done, nonSpecSig, iewQueue>>
  BY DEF IqInv, SquashFrom
<1>2. /\ Leaves /\ DOMAIN inst' = DOMAIN inst /\ RobInv'
      /\ \A sn \in DOMAIN inst :
           inst'[sn].squashed <=> inst[sn].squashed \/ sn \in Range(rob) \ Range(rob')
  BY <1>1, MarksLeave, SquashesLeft
<1>3. /\ rob' \in Seq(Nat) /\ Ascending(rob') /\ Range(rob') \subseteq Range(rob)
      /\ \A x \in Range(rob) \ Range(rob') : x > to /\ \A r \in Range(rob') : r < x
      /\ robSquashing' = walk'.on /\ walk' \in Signal /\ (walk'.on => walk'.to = to)
      /\ (~walk'.on => \A r \in Range(rob') : r <= to)
  BY <1>1, RobMarksFacts
<1>4. nextSn \in Nat /\ nextSn > 0 /\ nextSn - 1 \in Nat /\ nextSn' = nextSn /\ nonSpecSig = 0
      /\ squashed' = squashed /\ nonSpecSig' = 0 /\ instList' = instList
  BY <1>1, <1>2 DEF Shape, Leaves
<1>5. squashSig' \in Signal /\ squashSig'.on /\ squashSig'.to = to /\ squashSig'.tail = nextSn - 1
  <2>1. PICK t : t = nextSn - 1 /\ t \in Nat
    BY <1>4
  <2>2. squashSig' = [on |-> TRUE, to |-> to, tail |-> t]
    BY <1>1, <2>1
  <2>3. squashSig' \in Signal /\ squashSig'.on /\ squashSig'.to = to /\ squashSig'.tail = t
    BY ONLY <2>1, <2>2, to \in Nat DEF Signal
  <2> QED BY <2>1, <2>3
<1>6. ~squashSig.on
  BY <1>1 DEF SignalInv
<1>7. LeftOK
  <2>1. RedirectOK(NoReport)
    BY DEF RedirectOK, NoReport
  <2>2. phase' \in Phases /\ RedirectOK(iewSquash') /\ RedirectOK(iewSquashNow') /\ done' \in Nat
        /\ orderIt' \in Nat
    BY <1>1, <2>1 DEF EndsTick, Phases, Shape, loopVars
  <2> QED BY <1>1, <1>3, <1>5, <2>2 DEF LeftOK
<1>8. SignalInv'
  <2>1. phase' = "events" /\ squashed.tail < nextSn /\ done < nextSn
    BY <1>1 DEF EndsTick, SignalInv
  <2> QED BY <1>1, <1>3, <1>4, <1>5, <2>1 DEF SignalInv
<1>9. Live' = {sn \in Range(rob) : sn <= to}
  <2>1. \A sn \in Range(rob) \ Range(rob') : ~(sn <= to)
    <3>1. \A sn \in Range(rob) : sn \in Nat
      BY <1>1, ShapeFacts
    <3> QED BY <1>3, <3>1
  <2> QED BY <1>3, <2>1 DEF Live
<1>10. {sn \in Range(rob) : sn <= to} = {sn \in Live : sn <= to}
  BY DEF Live
<1>11. Listed' = {sn \in Listed : sn <= to}
  BY <1>1, <1>4, <1>5, <1>6 DEF Listed
<1>12. LiveInv'
  <2>1. Live' = Listed'
    BY <1>1, <1>9, <1>10, <1>11 DEF LiveInv
  <2>2. ASSUME NEW sn \in Live' PROVE LiveOK(sn)'
    <3>1. sn \in Live /\ sn <= to /\ sn \in Range(rob) /\ sn \in DOMAIN inst
      BY <1>1, <1>9, <1>10, <2>2 DEF Shape, Live
    <3>2. LiveOK(sn) /\ (InRange(sn)' <=> InRange(sn)) /\ inRunahead' = inRunahead
      BY <1>1, <1>2, <3>1, LeavesKeeps DEF LiveInv
    <3>3. inst'[sn].runahead = inst[sn].runahead
      BY <1>2, <3>1 DEF Leaves, SameInst
    <3>4. sn \in Range(rob')
      BY <2>2 DEF Live
    <3>5. ~inst'[sn].squashed
      BY <1>2, <3>1, <3>2, <3>4 DEF LiveOK
    <3> QED BY <3>2, <3>3, <3>5 DEF LiveOK
  <2> QED BY <2>1, <2>2 DEF LiveInv
<1> QED BY <1>2, <1>7, <1>8, <1>12, LeavesOnly

LEMMA RobWalkStep ==
  ASSUME IqInv, RobWalk
  PROVE  IqInv'
<1>0. PICK to : to = walk.to
  OBVIOUS
<1>1. /\ Shape /\ PlaceInv /\ SignalInv /\ LiveInv /\ phase = "commit" /\ walk.on /\ to \in Nat
      /\ RobMarks(to) /\ EndsTick /\ UNCHANGED <<done, nonSpecSig, iewQueue, nextPos, squashSig>>
      /\ UNCHANGED <<inRunahead, cause, exitRunahead>>
  BY <1>0, ShapeFacts DEF IqInv, RobWalk, modeVars
<1>2. /\ Leaves /\ DOMAIN inst' = DOMAIN inst /\ RobInv'
      /\ \A sn \in DOMAIN inst :
           inst'[sn].squashed <=> inst[sn].squashed \/ sn \in Range(rob) \ Range(rob')
  BY <1>0, <1>1, MarksLeave, SquashesLeft
<1>3. /\ rob' \in Seq(Nat) /\ Ascending(rob') /\ Range(rob') \subseteq Range(rob)
      /\ \A x \in Range(rob) \ Range(rob') : x > to /\ \A r \in Range(rob') : r < x
      /\ robSquashing' = walk'.on /\ walk' \in Signal /\ (walk'.on => walk'.to = to)
      /\ (~walk'.on => \A r \in Range(rob') : r <= to)
  BY <1>1, RobMarksFacts
<1>4. nextSn' = nextSn /\ squashed' = squashed /\ nonSpecSig' = nonSpecSig /\ instList' = instList
      /\ squashSig' = squashSig /\ ~squashSig.on
  BY <1>1, <1>2 DEF Leaves, SignalInv
<1>5. LeftOK
  <2>1. RedirectOK(NoReport)
    BY DEF RedirectOK, NoReport
  <2>2. phase' \in Phases /\ RedirectOK(iewSquash') /\ RedirectOK(iewSquashNow') /\ done' \in Nat
        /\ orderIt' \in Nat
    BY <1>1, <2>1 DEF EndsTick, Phases, Shape, loopVars
  <2> QED BY <1>1, <1>3, <1>4, <2>2 DEF LeftOK, Shape
<1>6. SignalInv'
  <2>1. phase' = "events" /\ squashed.tail < nextSn /\ done < nextSn
        /\ squashed.to = to /\ squashed.tail = nextSn - 1
    BY <1>0, <1>1, <1>4 DEF EndsTick, SignalInv
  <2> QED BY <1>1, <1>3, <1>4, <2>1 DEF SignalInv
<1>7. Live' = Live
  <2>1. \A sn \in Range(rob) \ Range(rob') : ~(sn <= to)
    <3>1. to \in Nat /\ \A sn \in Range(rob) : sn \in Nat
      BY <1>1, ShapeFacts
    <3>2. \A x \in Range(rob) \ Range(rob') : x > to
      BY <1>3
    <3> QED BY ONLY <3>1, <3>2
  <2>2. Live = {sn \in Range(rob) : sn <= to}
    BY <1>0, <1>1 DEF Live
  <2>3. Live' = {sn \in Range(rob) : sn <= to}
    BY <1>3, <2>1 DEF Live
  <2> QED BY <2>2, <2>3
<1>8. Listed' = Listed
  BY <1>1, <1>4 DEF Listed
<1>9. LiveInv'
  <2>1. ASSUME NEW sn \in Live' PROVE LiveOK(sn)'
    <3>1. sn \in Live /\ sn \in Range(rob) /\ sn \in DOMAIN inst
      BY <1>1, <1>7 DEF Shape, Live
    <3>2. LiveOK(sn) /\ (InRange(sn)' <=> InRange(sn)) /\ inRunahead' = inRunahead
      BY <1>1, <1>2, <3>1, LeavesKeeps DEF LiveInv
    <3>3. inst'[sn].runahead = inst[sn].runahead
      BY <1>2, <3>1 DEF Leaves, SameInst
    <3>4. sn \in Range(rob')
      BY <2>1 DEF Live
    <3>5. ~inst'[sn].squashed
      BY <1>2, <3>1, <3>2, <3>4 DEF LiveOK
    <3> QED BY <3>2, <3>3, <3>5 DEF LiveOK
  <2> QED BY <1>1, <1>7, <1>8, <2>1 DEF LiveInv
<1> QED BY <1>2, <1>5, <1>6, <1>9, LeavesOnly

\* The head of the reorder buffer is its oldest instruction.
LEMMA HeadFacts ==
  ASSUME Shape, rob # <<>>
  PROVE  /\ rob[1] \in Range(rob) /\ rob[1] \in DOMAIN inst /\ rob[1] \in Nat /\ rob[1] > 0
         /\ Head(rob) = rob[1] /\ \A r \in Range(rob) : rob[1] <= r
<1>1. rob \in Seq(Nat) /\ Ascending(rob) /\ Range(rob) \subseteq DOMAIN inst
      /\ \A sn \in DOMAIN inst : sn \in Nat /\ 0 < sn
  BY ShapeFacts
<1>2. Range(rob) = Range(Tail(rob)) \cup {Head(rob)} /\ Head(rob) = rob[1]
      /\ \A x \in Range(Tail(rob)) : Head(rob) < x
  BY <1>1, TailSeq, TailAscending
<1>3. rob[1] \in Range(rob) /\ rob[1] \in DOMAIN inst /\ rob[1] \in Nat /\ rob[1] > 0
  BY <1>1, <1>2
<1>4. \A r \in Range(rob) : r \in Nat /\ (rob[1] < r \/ r = rob[1])
  BY <1>1, <1>2
<1> QED BY <1>2, <1>3, <1>4

LEMMA ExitSquashStep ==
  ASSUME IqInv, ExitSquash
  PROVE  IqInv'
<1>1. PICK to : to = OldestInFlight - 1
  OBVIOUS
<1>2. PICK pos : pos = cause.pos
  OBVIOUS
<1>3. /\ Shape /\ phase = "commit" /\ SquashFrom(to, pos) /\ cause' = cause
      /\ inRunahead' = FALSE /\ exitRunahead' = FALSE /\ exitRunahead
  BY <1>1, <1>2 DEF IqInv, ExitSquash
<1>4. pos \in Nat \ {0} /\ cause'.pos \in Nat
  BY <1>2, <1>3 DEF Shape
<1>5. to \in Nat /\ \A sn \in Range(rob) : ~(sn <= to)
  <2>1. CASE rob = <<>>
    <3>1. to = nextSn - 1 /\ nextSn \in Nat \ {0}
      BY <1>1, <1>3, <2>1 DEF Shape, OldestInFlight
    <3>2. Range(rob) = {}
      BY <1>3, <2>1, ShapeFacts, SeqBasics
    <3>3. to \in Nat
      BY ONLY <3>1
    <3> QED BY <3>2, <3>3
  <2>2. CASE rob # <<>>
    <3>1. PICK h : h = rob[1]
      OBVIOUS
    <3>2. to = h - 1 /\ h \in Nat /\ h > 0 /\ \A r \in Range(rob) : r \in Nat /\ h <= r
      BY <1>1, <1>3, <2>2, <3>1, HeadFacts, ShapeFacts DEF OldestInFlight
    <3> QED BY ONLY <3>2
  <2> QED BY <2>1, <2>2
<1> QED BY <1>3, <1>4, <1>5, SquashFromStep

LEMMA TrapSquashStep ==
  ASSUME IqInv, TrapSquash
  PROVE  IqInv'
<1>1. PICK h : h = rob[1]
  OBVIOUS
<1>2. PICK to : to = h - 1
  OBVIOUS
<1>3. PICK pos : pos = inst[h].pos
  OBVIOUS
<1>4. /\ Shape /\ phase = "commit" /\ SquashFrom(to, pos) /\ rob # <<>>
      /\ UNCHANGED <<inRunahead, cause, exitRunahead>>
  BY <1>1, <1>2, <1>3 DEF IqInv, TrapSquash, HeadReady, modeVars
<1>5. h \in DOMAIN inst /\ h \in Nat /\ h > 0 /\ \A r \in Range(rob) : r \in Nat /\ h <= r
  BY <1>1, <1>4, HeadFacts, ShapeFacts
<1>6. to \in Nat /\ \A sn \in Range(rob) : ~(sn <= to)
  BY ONLY <1>2, <1>5
<1>7. pos \in Nat \ {0}
  BY <1>3, <1>4, <1>5, ShapeFacts, ScTypes
<1>8. /\ {inRunahead, exitRunahead} \subseteq BOOLEAN /\ (exitRunahead => inRunahead)
      /\ cause.pos \in Nat /\ (inRunahead => cause.pos > 0)
  BY <1>4 DEF Shape
<1> QED BY <1>4, <1>6, <1>7, <1>8, SquashFromStep

LEMMA IewSquashesStep ==
  ASSUME IqInv, IewSquashes
  PROVE  IqInv'
<1>1. PICK to : to = iewSquashNow.to
  OBVIOUS
<1>2. PICK pos : pos = iewSquashNow.pos
  OBVIOUS
<1>3. /\ Shape /\ phase = "commit" /\ SquashFrom(to, pos) /\ iewSquashNow.on
      /\ iewSquashNow.sn <= YoungestSeqNum /\ UNCHANGED <<inRunahead, cause, exitRunahead>>
  BY <1>1, <1>2 DEF IqInv, IewSquashes, LiveReport, modeVars
<1>4. to \in Nat /\ pos \in Nat \ {0} /\ to <= iewSquashNow.sn /\ iewSquashNow.sn \in Nat
  BY <1>1, <1>2, <1>3 DEF Shape, RedirectOK
<1>5. ASSUME NEW sn \in Range(rob), sn <= to, walk.on PROVE sn <= walk.to
  <2>1. walk.to \in Nat /\ sn \in Nat /\ iewSquashNow.sn <= walk.to
    BY <1>3, <1>5, ShapeFacts DEF YoungestSeqNum
  <2> QED BY <1>4, <1>5, <2>1
<1>6. /\ {inRunahead, exitRunahead} \subseteq BOOLEAN /\ (exitRunahead => inRunahead)
      /\ cause.pos \in Nat /\ (inRunahead => cause.pos > 0)
  BY <1>3 DEF Shape
<1> QED BY <1>3, <1>4, <1>5, <1>6, SquashFromStep

LEMMA RetireStep ==
  ASSUME IqInv, Retire
  PROVE  IqInv'
<1>0. PICK h : h = rob[1]
  OBVIOUS
<1>1. /\ Shape /\ PlaceInv /\ FlagInv /\ SignalInv /\ LiveInv /\ RobInv
      /\ phase = "commit" /\ ~walk.on /\ rob # <<>> /\ inst[h].wb = "ready" /\ ~inst[h].fault
      /\ rob' = Tail(rob) /\ done' = h
  BY <1>0 DEF IqInv, Retire, Commits, HeadReady
<1>2. /\ UNCHANGED <<phase, sc, nextSn, nextPos, inst, instList, freeEntries, dependGraph>>
      /\ UNCHANGED <<regScoreboard, nonSpecInsts, ready, deferred, blocked, retry, instsToExecute>>
      /\ UNCHANGED <<inUnit, unitBusy, unitsToBeFreed, orderIt, memDepHash, barrierSNs>>
      /\ UNCHANGED <<instsToReplay, depPred, iewQueue, sent, iewSquash, iewSquashNow, squashed>>
      /\ UNCHANGED <<squashSig, walk, robSquashing, nonSpecSig, inRunahead, cause, exitRunahead>>
  BY DEF Retire, iqVars, lists, fuVars, loopVars, mdVars, memVars, iewVars, modeVars
<1>3. /\ h \in Range(rob) /\ h \in DOMAIN inst /\ h \in Nat /\ h > 0
      /\ \A r \in Range(rob) : r \in Nat /\ h <= r
  BY <1>0, <1>1, HeadFacts, ShapeFacts
<1>4. /\ rob' \in Seq(Nat) /\ Ascending(rob') /\ Range(rob) = Range(rob') \cup {h}
      /\ \A x \in Range(rob') : h < x
  BY <1>0, <1>1, HeadFacts, ShapeFacts, TailSeq, TailAscending
<1>5. ~squashSig.on /\ ~squashSig'.on /\ ~walk'.on
  BY <1>1, <1>2 DEF SignalInv
<1>6. done \in Nat /\ h > done
  BY <1>1, <1>3, ShapeFacts DEF RobInv
<1>7. \A sn \in instList : sn \in Nat /\ (sn > done => sn \in Range(rob))
  BY <1>1, <1>5, ShapeFacts DEF LiveInv, Live, Listed
<1>8. Range(rob) \subseteq instList
  BY <1>1, <1>5 DEF LiveInv, Live, Listed
<1>9. \A sn \in instList : sn > done => sn = h \/ (h < sn /\ sn \in Range(rob'))
  BY <1>3, <1>4, <1>7
<1>10. LiveOK(h)
  BY <1>1, <1>3 DEF LiveInv, Live
<1>11. ~Pending(h)
  BY <1>1, <1>10 DEF Pending, LiveOK
<1>12. ~InQueue(h)
  BY <1>1, <1>3, <1>10 DEF FlagInv, FlagOK, LiveOK, InQueue
<1>13. Leaves
  <2>1. SameInst
    BY <1>1, <1>2, ShapeFacts DEF SameInst, Shape
  <2>2. Passes
    BY <1>1, <1>9, <1>11 DEF Passes
  <2>3. nonSpecSig = 0
    BY <1>1 DEF PlaceInv
  <2> QED BY <1>2, <1>4, <2>1, <2>2, <2>3 DEF Leaves
<1>14. LeftOK
  BY <1>1, <1>2, <1>3, <1>4 DEF LeftOK, Shape
<1>15. SignalInv'
  <2>1. h < nextSn
    BY <1>1, <1>3, ShapeFacts
  <2>2. UNCHANGED <<phase, nextSn, squashed, squashSig, walk, robSquashing, nonSpecSig>>
    BY <1>2
  <2> QED BY <1>1, <2>1, <2>2 DEF SignalInv
<1>16. LiveInv'
  <2>1. Live' = Range(rob')
    BY <1>5 DEF Live
  <2>2. Listed' = {sn \in instList : sn > h}
    BY <1>1, <1>2, <1>5 DEF Listed
  <2>3. \A sn \in instList : sn > h => sn \in Range(rob')
    BY <1>3, <1>6, <1>7, <1>9
  <2>4. Range(rob') \subseteq instList /\ \A x \in Range(rob') : x > h
    BY <1>3, <1>4, <1>8
  <2>5. Live' = Listed'
    BY <2>1, <2>2, <2>3, <2>4
  <2>6. ASSUME NEW sn \in Live' PROVE LiveOK(sn)'
    <3>1. LiveOK(sn)
      BY <1>1, <1>4, <2>1 DEF LiveInv, Live
    <3> QED BY <1>2, <3>1 DEF LiveOK, InRange
  <2> QED BY <2>5, <2>6 DEF LiveInv
<1>17. RobInv'
  <2>1. \A sn \in Range(rob') : sn > done'
    BY <1>1, <1>3, <1>4
  <2>2. ASSUME NEW sn \in instList PROVE ListedOK(sn)'
    <3>1. ListedOK(sn) /\ sn \in Nat
      BY <1>1, <1>7 DEF RobInv
    <3>2. sn > h => sn \in Range(rob')
      BY <1>3, <1>6, <1>9, <3>1
    <3>3. sn <= h => inst[sn].wb # "no" /\ ~InQueue(sn)
      <4>1. CASE sn <= done
        BY <3>1, <4>1 DEF ListedOK
      <4>2. CASE sn > done
        BY <1>1, <1>3, <1>9, <1>12, <3>1, <4>2
      <4> QED BY <1>6, <3>1, <4>1, <4>2
    <3>4. \A r \in Range(rob') : (r < sn => r \in instList) /\ (h < sn /\ sn < r => sn \in Range(rob'))
      BY <1>4, <1>8, <3>2, <1>3, <3>1
    <3>5. InQueue(sn)' <=> InQueue(sn)
      BY <1>2 DEF InQueue, IsMemRef, Kind, OpOf
    <3>6. inst' = inst /\ instList' = instList /\ done' = h
      BY <1>1, <1>2
    <3> QED BY <3>2, <3>3, <3>4, <3>5, <3>6 DEF ListedOK
  <2>3. ASSUME NEW sn \in DOMAIN inst, sn \notin instList PROVE UnlistedOK(sn)'
    <3>1. UnlistedOK(sn)
      BY <1>1, <2>3 DEF RobInv
    <3> QED BY <1>1, <1>2, <1>4, <3>1 DEF UnlistedOK
  <2> QED BY <1>2, <2>1, <2>2, <2>3 DEF RobInv
<1> QED BY <1>13, <1>14, <1>15, <1>16, <1>17, LeavesOnly

-----------------------------------------------------------------------------
(* The queue hears of what commit did *)

LEMMA SameReads ==
  ASSUME inst' = inst, sc' = sc, memDepHash' = memDepHash
  PROVE  /\ \A sn : Kind(sn)' = Kind(sn) /\ OpOf(sn)' = OpOf(sn)
         /\ \A sn : (IsMemRef(sn)' <=> IsMemRef(sn)) /\ (IsBarrier(sn)' <=> IsBarrier(sn))
         /\ \A sn : (WaitsReg(sn)' <=> WaitsReg(sn)) /\ (WaitsMem(sn)' <=> WaitsMem(sn))
         /\ \A sn : (Pending(sn)' <=> Pending(sn)) /\ (InQueue(sn)' <=> InQueue(sn))
<1>1. \A sn : Kind(sn)' = Kind(sn) /\ OpOf(sn)' = OpOf(sn)
  BY DEF Kind, OpOf
<1>2. \A sn : (IsMemRef(sn)' <=> IsMemRef(sn)) /\ (IsBarrier(sn)' <=> IsBarrier(sn))
  BY <1>1 DEF IsMemRef, IsBarrier
<1>3. \A sn : (WaitsReg(sn)' <=> WaitsReg(sn)) /\ (WaitsMem(sn)' <=> WaitsMem(sn))
  BY DEF WaitsReg, WaitsMem
<1>4. \A sn : (Pending(sn)' <=> Pending(sn)) /\ (InQueue(sn)' <=> InQueue(sn))
  BY <1>2 DEF Pending, InQueue
<1> QED BY <1>1, <1>2, <1>3, <1>4

LEMMA EndScheduleStep ==
  ASSUME IqInv, EndSchedule
  PROVE  IqInv'
<1>0. PICK b : b = nonSpecSig
  OBVIOUS
<1>1. /\ Shape /\ ReadyInv /\ PlaceInv /\ Somewhere /\ FlagInv /\ SignalInv /\ LiveInv
      /\ RobInv /\ GraphInv /\ HashInv /\ BarrierInv /\ PredictorInv /\ UnitInv
      /\ EntriesConserved
  BY DEF IqInv
<1>2. /\ UNCHANGED <<sc, nextSn, nextPos, rob, inst, freeEntries, dependGraph, regScoreboard>>
      /\ UNCHANGED <<deferred, blocked, retry, instsToExecute, inUnit, unitBusy, unitsToBeFreed>>
      /\ UNCHANGED <<memDepHash, barrierSNs, instsToReplay, depPred, iewQueue, sent>>
      /\ UNCHANGED <<iewSquash, iewSquashNow, squashed, squashSig, walk, robSquashing>>
      /\ UNCHANGED <<inRunahead, cause, exitRunahead>>
  BY DEF EndSchedule, robVars, lists, fuVars, mdVars, memVars, iewVars, modeVars
<1>3. /\ phase = "schedule" /\ phase' = "commit" /\ orderIt' = 0 /\ done' = 0 /\ nonSpecSig' = 0
      /\ instList' = {sn \in instList : sn > done}
      /\ nonSpecInsts' = nonSpecInsts \ {b}
      /\ ready' = IF b = 0 THEN ready ELSE AddReady(ready, "barrier", b)
  BY <1>0 DEF EndSchedule
<1>4. /\ instList \subseteq DOMAIN inst /\ Range(rob) \subseteq DOMAIN inst /\ done \in Nat
      /\ \A sn \in DOMAIN inst : sn \in Nat /\ sn > 0
  BY <1>1, ShapeFacts
<1>5. /\ \A sn : Kind(sn)' = Kind(sn) /\ OpOf(sn)' = OpOf(sn)
      /\ \A sn : (IsMemRef(sn)' <=> IsMemRef(sn)) /\ (IsBarrier(sn)' <=> IsBarrier(sn))
      /\ \A sn : (WaitsReg(sn)' <=> WaitsReg(sn)) /\ (WaitsMem(sn)' <=> WaitsMem(sn))
      /\ \A sn : (Pending(sn)' <=> Pending(sn)) /\ (InQueue(sn)' <=> InQueue(sn))
  BY <1>2, SameReads
<1>6. \A sn \in instList : sn \notin instList' => inst[sn].wb # "no" /\ ~InQueue(sn) /\ sn <= done
  <2> TAKE sn \in instList
  <2>1. ListedOK(sn) /\ sn \in Nat
    BY <1>1, <1>4 DEF RobInv
  <2> QED BY <1>3, <1>4, <2>1 DEF ListedOK
<1>7. /\ b # 0 => b \in nonSpecInsts /\ b \in DOMAIN inst /\ b \notin At["ready"]
      /\ b # 0 => PlaceOK("nonSpec", b) /\ Kind(b) = "barrier"
      /\ b # 0 => \A r \in Range(rob) : b <= r
  <2> SUFFICES ASSUME b # 0 PROVE /\ b \in nonSpecInsts /\ b \in DOMAIN inst /\ b \notin At["ready"]
                                  /\ PlaceOK("nonSpec", b) /\ Kind(b) = "barrier"
                                  /\ \A r \in Range(rob) : b <= r
    OBVIOUS
  <2>1. "nonSpec" \in Places /\ "ready" \in Places /\ b \in At["nonSpec"]
    BY <1>0, <1>1, AtIs DEF PlaceInv, Places
  <2>2. b \in DOMAIN inst /\ PlaceOK("nonSpec", b) /\ b \notin At["ready"]
    BY <1>1, <2>1, Elsewhere DEF Shape, PlaceInv
  <2>3. Kind(b) = "barrier"
    BY <2>2 DEF PlaceOK, Fits
  <2> QED BY <1>0, <1>1, <2>1, <2>2, <2>3, AtIs DEF BarrierInv
<1>8. /\ ReadyOK(ready') /\ \A k \in Kinds : Range(ready'.insts[k]) =
           Range(ready.insts[k]) \cup (IF b # 0 /\ k = "barrier" THEN {b} ELSE {})
      /\ ReadySet(ready') = ReadySet(ready) \cup (IF b # 0 THEN {b} ELSE {})
  <2>1. CASE b = 0
    BY <1>1, <1>3, <2>1 DEF ReadyInv
  <2>2. CASE b # 0
    <3>1. b \in Nat /\ b \notin ReadySet(ready) /\ ReadyOK(ready) /\ "barrier" \in Kinds
      BY <1>1, <1>4, <1>7, <2>2, AtIs DEF ReadyInv, Kinds
    <3> QED BY <1>3, <2>2, <3>1, AddReadyOK
  <2> QED BY <2>1, <2>2
<1>9. \A p \in Places : At[p]' = (At[p] \ (IF p = "nonSpec" THEN {b} ELSE {})) \cup
                                   (IF p = "ready" /\ b # 0 THEN {b} ELSE {})
  <2> TAKE p \in Places
  <2>1. /\ Range(blocked') = Range(blocked) /\ Range(retry') = Range(retry)
        /\ Range(instsToExecute') = Range(instsToExecute) /\ inUnit' = inUnit
        /\ Range(deferred') = Range(deferred) /\ instsToReplay' = instsToReplay
        /\ sent' = sent /\ inst' = inst /\ Range(iewQueue') = Range(iewQueue)
    BY <1>2
  <2>2. CASE p = "ready"
    BY <1>8, <2>2, AtIs, AtIsNext
  <2>3. CASE p = "nonSpec"
    BY <1>3, <2>3, AtIs, AtIsNext
  <2>4. CASE p = "memory"
    BY <2>1, <2>4, AtIs, AtIsNext
  <2>5. CASE p \notin {"ready", "nonSpec", "memory"}
    BY <2>1, <2>5, AtIs, AtIsNext, PlacesAre
  <2> QED BY <2>2, <2>3, <2>4, <2>5
<1>10. ASSUME NEW p \in Places, NEW sn \in At[p]
       PROVE  PlaceOK(p, sn) /\ sn \in DOMAIN inst /\ (sn \in instList => sn \in instList')
  <2>1. PlaceOK(p, sn) /\ sn \in DOMAIN inst
    BY <1>1 DEF PlaceInv, Shape
  <2>2. inst[sn].wb = "no"
    BY <2>1 DEF PlaceOK
  <2> QED BY <1>6, <2>1, <2>2
<1>11. ASSUME NEW p \in Places, NEW sn \in At[p]' PROVE PlaceOK(p, sn)' /\ sn \in DOMAIN inst
  <2>1. CASE sn \in At[p]
    <3>1. PlaceOK(p, sn) /\ sn \in DOMAIN inst /\ (sn \in instList => sn \in instList')
      BY <1>10, <2>1
    <3>2. inst' = inst /\ Kind(sn)' = Kind(sn) /\ (IsMemRef(sn)' <=> IsMemRef(sn))
          /\ (WaitsReg(sn)' <=> WaitsReg(sn)) /\ (WaitsMem(sn)' <=> WaitsMem(sn))
      BY <1>2, <1>5
    <3> QED BY <3>1, <3>2 DEF PlaceOK
  <2>2. CASE sn \notin At[p]
    <3>1. sn = b /\ b # 0 /\ p = "ready"
      BY <1>9, <2>2
    <3>2. PlaceOK("nonSpec", b) /\ b \in DOMAIN inst /\ (b \in instList => b \in instList')
      BY <1>7, <1>10, <3>1, AtIs DEF Places
    <3>3. inst' = inst /\ Kind(b)' = Kind(b) /\ (IsMemRef(b)' <=> IsMemRef(b))
          /\ (WaitsReg(b)' <=> WaitsReg(b)) /\ (WaitsMem(b)' <=> WaitsMem(b))
      BY <1>2, <1>5
    <3>4. PlaceOK("ready", b)'
      BY <3>2, <3>3 DEF PlaceOK, Fits, Unissued
    <3> QED BY <3>1, <3>2, <3>4
  <2> QED BY <2>1, <2>2
<1>12. Shape'
  <2>1. /\ instList' \subseteq DOMAIN inst /\ \A p \in Places : At[p]' \subseteq DOMAIN inst
        /\ phase' \in Phases /\ done' \in Nat /\ nonSpecSig' \in Nat /\ orderIt' \in Nat
    BY <1>3, <1>4, <1>11 DEF Phases
  <2>2. \A s \in Lists' : s \in Seq(Nat) /\ Distinct(s)
    BY <1>1, <1>2, ListsAre, ListsNext
  <2> QED BY <1>1, <1>2, <2>1, <2>2 DEF Shape
<1>13. ReadyInv'
  <2>1. ASSUME NEW k \in Kinds, NEW sn \in Range(ready'.insts[k]) PROVE Kind(sn)' = k
    BY <1>1, <1>5, <1>7, <1>8, <2>1 DEF ReadyInv
  <2> QED BY <1>8, <2>1 DEF ReadyInv
<1>14. PlaceInv'
  <2>1. PlacesApart'
    <3> SUFFICES ASSUME NEW p \in Places, NEW q \in Places, p # q, NEW x, x \in At[p]', x \in At[q]'
                 PROVE  FALSE
      BY DEF PlacesApart
    <3>1. ~(x \in At[p] /\ x \in At[q])
      BY <1>1 DEF PlaceInv, PlacesApart
    <3>2. x = b /\ b # 0
      BY <1>9, <3>1
    <3>3. \A r \in Places : b \in At[r] => r = "nonSpec"
      BY <1>1, <1>7, <3>2, AtIs, Elsewhere DEF Places
    <3>4. \A r \in Places : x \in At[r]' => r = "ready"
      BY <1>9, <3>2, <3>3
    <3> QED BY <3>4
  <2> QED BY <1>3, <1>11, <2>1 DEF PlaceInv
<1>15. Somewhere'
  <2>1. ASSUME NEW sn \in instList' PROVE SomewhereOK(sn)'
    <3>1. SomewhereOK(sn)
      BY <1>1, <1>3 DEF Somewhere
    <3>2. (\E p \in Places : sn \in At[p]) => \E p \in Places : sn \in At[p]'
      <4> SUFFICES ASSUME NEW p \in Places, sn \in At[p] PROVE \E q \in Places : sn \in At[q]'
        OBVIOUS
      <4>1. CASE p = "nonSpec" /\ sn = b
        <5>1. "ready" \in Places /\ b # 0
          BY <1>4, <1>3, <4>1 DEF Places
        <5> QED BY <1>9, <4>1, <5>1
      <4>2. CASE ~(p = "nonSpec" /\ sn = b)
        <5>1. sn \in At[p]'
          BY <1>9, <4>2
        <5> QED BY <5>1
      <4> QED BY <4>1, <4>2
    <3> QED BY <1>2, <1>5, <3>1, <3>2 DEF SomewhereOK
  <2> QED BY <2>1 DEF Somewhere
<1>16. FlagInv'
  <2>1. ASSUME NEW sn \in DOMAIN inst PROVE FlagOK(sn)'
    <3>1. FlagOK(sn)
      BY <1>1 DEF FlagInv
    <3> QED BY <1>2, <1>5, <3>1 DEF FlagOK
  <2>2. ASSUME NEW sn \in instList' PROVE WaitOK(sn)'
    <3>1. WaitOK(sn)
      BY <1>1, <1>3 DEF FlagInv
    <3> QED BY <1>2, <1>5, <3>1 DEF WaitOK
  <2> QED BY <1>2, <2>1, <2>2 DEF FlagInv
<1>17. SignalInv'
  <2>1. ~squashSig.on /\ 0 < nextSn
    BY <1>1, <1>3 DEF SignalInv, Shape
  <2>2. UNCHANGED <<nextSn, squashed, squashSig, walk, robSquashing>>
    BY <1>2
  <2> QED BY <1>1, <1>3, <2>1, <2>2 DEF SignalInv
<1>18. LiveInv'
  <2>1. Live' = Live
    BY <1>2 DEF Live
  <2>2. Listed' = Listed
    <3>1. \A sn \in instList : sn > 0
      BY <1>4
    <3> QED BY <1>2, <1>3, <3>1 DEF Listed
  <2>3. \A sn \in Live : LiveOK(sn) => LiveOK(sn)'
    BY <1>2 DEF LiveOK, InRange
  <2> QED BY <1>1, <2>1, <2>2, <2>3 DEF LiveInv
<1>19. RobInv'
  <2>1. \A sn \in Range(rob) : sn > done /\ sn \in Nat /\ sn > 0
    BY <1>1, <1>4 DEF RobInv
  <2>2. ASSUME NEW sn \in instList' PROVE ListedOK(sn)'
    <3>1. ListedOK(sn) /\ sn > done /\ sn \in Nat /\ sn > 0 /\ sn \in instList
      BY <1>1, <1>3, <1>4 DEF RobInv
    <3>2. \A r \in Range(rob) : r < sn => r \in instList'
      BY <1>3, <2>1, <3>1 DEF ListedOK
    <3>3. ~(sn <= 0)
      BY <3>1
    <3> QED BY <1>2, <1>3, <3>1, <3>2, <3>3 DEF ListedOK
  <2>3. ASSUME NEW sn \in DOMAIN inst, sn \notin instList' PROVE UnlistedOK(sn)'
    <3>1. CASE sn \notin instList
      <4>1. UnlistedOK(sn)
        BY <1>1, <3>1 DEF RobInv
      <4> QED BY <1>2, <4>1 DEF UnlistedOK, InRange
    <3>2. CASE sn \in instList
      <4>1. sn <= done /\ sn \in Nat
        BY <1>4, <1>6, <2>3, <3>2
      <4>2. inst[sn].wb # "no" /\ \A r \in Range(rob) : sn < r
        BY <1>1, <1>4, <2>1, <3>2, <4>1 DEF RobInv, ListedOK
      <4> QED BY <1>2, <4>2 DEF UnlistedOK
    <3> QED BY <3>1, <3>2
  <2> QED BY <1>2, <1>3, <2>1, <2>2, <2>3 DEF RobInv
<1>20. GraphInv'
  <2>1. ASSUME NEW d \in dependGraph PROVE EdgeOK(d)'
    <3>1. EdgeOK(d) /\ d[1] \in instList /\ d[2] \in instList
      BY <1>1 DEF GraphInv, EdgeOK
    <3>2. d[1] > done /\ d[1] < d[2] /\ d[1] \in Nat /\ d[2] \in Nat
      BY <1>4, <3>1 DEF EdgeOK
    <3>3. d[1] \in instList' /\ d[2] \in instList' /\ d[1] > 0
      BY <1>3, <1>4, <3>1, <3>2
    <3> QED BY <1>2, <1>3, <1>5, <3>1, <3>3 DEF EdgeOK
  <2>2. ASSUME NEW sn \in instList'
        PROVE  inst'[sn].unready = Cardinality(EdgesTo(sn)') /\ (~IsBarrier(sn)' => SourcesOK(sn)')
    <3>1. sn \in instList /\ inst[sn].unready = Cardinality(EdgesTo(sn))
          /\ (~IsBarrier(sn) => SourcesOK(sn))
      BY <1>1, <1>3 DEF GraphInv
    <3>2. EdgesTo(sn)' = EdgesTo(sn)
      BY <1>2 DEF EdgesTo
    <3>3. SourcesOK(sn) => SourcesOK(sn)'
      BY <1>2, <1>5 DEF SourcesOK
    <3> QED BY <1>2, <1>5, <3>1, <3>2, <3>3
  <2>3. \A r \in Range(rob) : r \in regScoreboard => Pending(r)' /\ HasDest(OpOf(r)')
    BY <1>1, <1>5 DEF GraphInv
  <2> QED BY <1>1, <1>2, <2>1, <2>2, <2>3 DEF GraphInv
<1>21. HashInv'
  <2>1. ASSUME NEW sn \in DOMAIN memDepHash PROVE HashOK(sn)'
    <3>1. HashOK(sn) /\ sn \in instList /\ sn > done /\ sn \in Nat /\ sn > 0
      BY <1>1, <1>4 DEF HashInv, HashOK
    <3>2. sn \in instList'
      BY <1>3, <3>1
    <3>3. Producers(sn)' = Producers(sn)
      BY <1>2 DEF Producers
    <3> QED BY <1>2, <1>3, <1>5, <3>1, <3>2, <3>3 DEF HashOK
  <2>2. \A sn \in instList' : (IsMemRef(sn)' \/ IsBarrier(sn)') /\ inst[sn].wb = "no" =>
                                sn \in DOMAIN memDepHash
    BY <1>1, <1>3, <1>5 DEF HashInv
  <2> QED BY <1>1, <1>2, <2>1, <2>2 DEF HashInv
<1>22. BarrierInv'
  <2>1. ASSUME NEW p \in Places \ {"nonSpec"}, NEW sn \in At[p]', IsBarrier(sn)'
        PROVE  \A r \in Range(rob) : sn <= r
    <3>1. sn \in At[p] \/ (sn = b /\ b # 0)
      BY <1>9, <2>1
    <3> QED BY <1>1, <1>5, <1>7, <2>1, <3>1 DEF BarrierInv
  <2>2. \A c \in barrierSNs : c \in DOMAIN memDepHash /\ IsBarrier(c)'
    BY <1>1, <1>5 DEF BarrierInv
  <2>3. \A c \in DOMAIN memDepHash : IsBarrier(c)' /\ inst[c].wb = "no" =>
          /\ c \in barrierSNs
          /\ \A e \in DOMAIN memDepHash : IsMemRef(e)' /\ c < e => e \in memDepHash[c].dependInsts
    BY <1>1, <1>5 DEF BarrierInv
  <2> QED BY <1>2, <1>3, <2>1, <2>2, <2>3 DEF BarrierInv
<1>23. PredictorInv' /\ UnitInv'
  BY <1>1, <1>2, <1>5 DEF PredictorInv, UnitInv, UnitsConserved
<1>24. EntriesConserved'
  <2>1. {sn \in instList' : InQueue(sn)'} = {sn \in instList : InQueue(sn)}
    BY <1>3, <1>5, <1>6
  <2> QED BY <1>1, <1>2, <2>1 DEF EntriesConserved
<1> QED BY <1>12, <1>13, <1>14, <1>15, <1>16, <1>17, <1>18, <1>19, <1>20, <1>21, <1>22, <1>23,
           <1>24 DEF IqInv

-----------------------------------------------------------------------------
(* The queue is squashed, at the start of a cycle *)

\* The edges to an instruction are as many as the registers it waits for.
LEMMA EdgesFinite ==
  ASSUME Shape, GraphInv, NEW sn
  PROVE  /\ IsFiniteSet(EdgesTo(sn)) /\ Cardinality(EdgesTo(sn)) \in Nat
         /\ (Cardinality(EdgesTo(sn)) = 0 <=> EdgesTo(sn) = {})
<1>1. PICK E : E = EdgesTo(sn)
  OBVIOUS
<1>2. \A d \in E : d = <<d[1], d[2]>> /\ d[2] = sn /\ d[1] \in instList
  BY <1>1 DEF GraphInv, EdgesTo, EdgeOK
<1>3. PICK f : f = [d \in E |-> d[1]]
  OBVIOUS
<1>4. PICK L : L = instList
  OBVIOUS
<1>5. f \in Injection(E, L)
  BY <1>2, <1>3, <1>4 DEF Injection, IsInjective
<1>6. IsFiniteSet(L)
  BY <1>4, InstSubsets DEF Shape
<1>7. IsFiniteSet(E)
  BY <1>5, <1>6, FS_Injection
<1> QED BY <1>1, <1>7, FS_CardinalityType, FS_EmptySet

\* What is younger than to is squashed.  Without a squash, nothing is.
Cuts(to) ==
  /\ IF squashSig.on THEN to = squashSig.to /\ squashed' = squashSig
                     ELSE to = nextSn /\ squashed' = squashed
  /\ phase' = "dispatch" /\ squashSig' = NoSquash /\ iewSquash' = NoReport
  /\ inst' = [sn \in Referred |-> inst'[sn]]
  /\ \A sn \in Referred :
       /\ inst'[sn] \in InstType /\ inst'[sn].pos = inst[sn].pos
       /\ inst'[sn].runahead = inst[sn].runahead /\ inst'[sn].unready = inst[sn].unready
       /\ inst'[sn].memOpDone = inst[sn].memOpDone /\ inst'[sn].wb = inst[sn].wb
       /\ inst'[sn].fault = inst[sn].fault /\ inst'[sn].executed = inst[sn].executed
       /\ (inst'[sn].issued <=> inst[sn].issued \/ sn \in Freed(to))
       /\ (inst'[sn].squashed <=> inst[sn].squashed \/ Marked(sn, to))
  /\ freeEntries' = freeEntries + Cardinality(Freed(to)) /\ dependGraph' = DropConsumers(to)
  /\ nonSpecInsts' = {sn \in nonSpecInsts : sn <= to}
  /\ instList' = {sn \in instList : sn <= to}
  /\ regScoreboard' \subseteq regScoreboard
  /\ \A r \in regScoreboard : r \in Nat /\ r <= to => r \in regScoreboard'
  /\ instsToReplay' = {sn \in instsToReplay : sn <= to}
  /\ barrierSNs' = {sn \in barrierSNs : sn <= to}
  /\ memDepHash' = Restrict(memDepHash, {sn \in DOMAIN memDepHash : sn <= to})
  /\ PredictorOK(depPred') /\ depPred'.LFST = depPred.LFST
  /\ unitBusy' = [k \in Kinds |-> unitBusy[k] - unitsToBeFreed[k]]
  /\ unitsToBeFreed' = [k \in Kinds |-> 0]
  /\ UNCHANGED <<sc, nextSn, nextPos, rob, ready, deferred, blocked, retry, instsToExecute>>
  /\ UNCHANGED <<inUnit, orderIt, iewQueue, sent, iewSquashNow, walk, robSquashing, done>>
  /\ UNCHANGED <<nonSpecSig, inRunahead, cause, exitRunahead>>

LEMMA ReferredIs ==
  ASSUME Shape, HashInv, PlaceInv
  PROVE  /\ Referred \subseteq DOMAIN inst /\ Range(rob) \subseteq Referred
         /\ instList \subseteq Referred /\ sent \subseteq Referred
         /\ DOMAIN memDepHash \subseteq Referred
         /\ \A p \in Places : At[p] \subseteq Referred
<1>1. /\ At["ready"] = UNION {Range(ready.insts[k]) : k \in Kinds} /\ At["blocked"] = Range(blocked)
      /\ At["retry"] = Range(retry) /\ At["nonSpec"] = nonSpecInsts
      /\ At["execute"] = Range(instsToExecute) /\ At["unit"] = inUnit
      /\ At["deferred"] = Range(deferred) /\ At["replay"] = instsToReplay
      /\ At["memory"] \subseteq sent /\ At["commit"] = Range(iewQueue)
  BY AtIs DEF ReadySet
<1>2. \A p \in {"ready", "blocked", "retry", "execute", "unit", "deferred", "commit"} :
        At[p] \subseteq DOMAIN inst
  BY DEF Shape, Places
<1>3. /\ Range(rob) \subseteq DOMAIN inst /\ instList \subseteq DOMAIN inst
      /\ sent \subseteq DOMAIN inst /\ DOMAIN memDepHash \subseteq instList
  BY DEF Shape, HashInv, HashOK
<1>4. Referred \subseteq DOMAIN inst
  BY <1>1, <1>2, <1>3 DEF Referred
<1>5. At["nonSpec"] \subseteq instList /\ At["replay"] \subseteq instList
  BY DEF PlaceInv, PlaceOK, Places
<1>6. /\ instList \subseteq Referred /\ sent \subseteq Referred /\ Range(rob) \subseteq Referred
      /\ DOMAIN memDepHash \subseteq Referred
  BY DEF Referred
<1>7. \A p \in {"ready", "blocked", "retry", "execute", "unit", "deferred", "commit"} :
        At[p] \subseteq Referred
  BY <1>1 DEF Referred
<1>8. ASSUME NEW p \in Places PROVE At[p] \subseteq Referred
  <2>1. At["memory"] \subseteq Referred /\ At["nonSpec"] \subseteq Referred /\ At["replay"] \subseteq Referred
    BY <1>1, <1>5, <1>6
  <2> QED BY <1>7, <2>1, PlacesAre
<1> QED BY <1>3, <1>4, <1>6, <1>8

\* What is squashed gives back its entry if it is in the queue.
LEMMA FreedIs ==
  ASSUME Shape, NEW to \in Nat
  PROVE  /\ Freed(to) = {sn \in instList : sn > to /\ InQueue(sn)}
         /\ \A sn : Marked(sn, to) <=> sn \in Freed(to) \/ (sn > to /\ IsMemRef(sn))
BY DEF Freed, Marked, InQueue

LEMMA StartTickCuts ==
  ASSUME IqInv, StartTick
  PROVE  \E to \in Nat : Cuts(to)
<1>1. Shape /\ PlaceInv /\ HashInv /\ BarrierInv /\ PredictorInv
  BY DEF IqInv
<1>2. /\ UNCHANGED <<sc, nextSn, nextPos, rob, ready, deferred, blocked, retry, instsToExecute>>
      /\ UNCHANGED <<inUnit, orderIt, iewQueue, sent, iewSquashNow, walk, robSquashing, done>>
      /\ UNCHANGED <<nonSpecSig, inRunahead, cause, exitRunahead>>
      /\ unitBusy' = [k \in Kinds |-> unitBusy[k] - unitsToBeFreed[k]]
      /\ unitsToBeFreed' = [k \in Kinds |-> 0]
      /\ phase' = "dispatch" /\ squashSig' = NoSquash /\ iewSquash' = NoReport
  BY DEF StartTick, robVars, lists, loopVars, memVars, modeVars
<1>3. \A sn \in Referred : sn \in DOMAIN inst /\ inst[sn] \in InstType /\ sn \in Nat /\ sn < nextSn
  BY <1>1, ReferredIs, ShapeFacts
<1>4. CASE squashSig.on
  <2>1. PICK to : to = squashSig.to
    OBVIOUS
  <2>2. to \in Nat
    BY <1>1, <2>1, ShapeFacts
  <2>3. squashed' = squashSig /\ IqSquash(to) /\ MemDepSquash(to) /\ MarkSquashed(to)
    BY <1>4, <2>1 DEF StartTick
  <2>4. PICK F : F = Freed(to)
    OBVIOUS
  <2>5. inst' = [sn \in Referred |-> inst'[sn]]
    BY <2>3 DEF MarkSquashed
  <2>6. ASSUME NEW sn \in Referred
        PROVE  /\ inst'[sn] \in InstType /\ inst'[sn].pos = inst[sn].pos
               /\ inst'[sn].runahead = inst[sn].runahead /\ inst'[sn].unready = inst[sn].unready
               /\ inst'[sn].memOpDone = inst[sn].memOpDone /\ inst'[sn].wb = inst[sn].wb
               /\ inst'[sn].fault = inst[sn].fault /\ inst'[sn].executed = inst[sn].executed
               /\ (inst'[sn].issued <=> inst[sn].issued \/ sn \in F)
               /\ (inst'[sn].squashed <=> inst[sn].squashed \/ Marked(sn, to))
    <3>1. PICK x : x = inst[sn]
      OBVIOUS
    <3>2. PICK a : a = (x.squashed \/ Marked(sn, to))
      OBVIOUS
    <3>3. PICK b : b = (x.issued \/ sn \in F)
      OBVIOUS
    <3>4. PICK y : y = inst'[sn]
      OBVIOUS
    <3>5. y = [x EXCEPT !.squashed = a, !.issued = b]
      BY <2>3, <2>4, <3>1, <3>2, <3>3, <3>4 DEF MarkSquashed
    <3>6. x \in InstType
      BY <1>3, <3>1
    <3>7. a \in BOOLEAN
      BY <3>2, Zenon
    <3>8. b \in BOOLEAN
      BY <3>3, Zenon
    <3>9. /\ y \in InstType /\ y.pos = x.pos /\ y.runahead = x.runahead
          /\ y.unready = x.unready /\ y.memOpDone = x.memOpDone /\ y.wb = x.wb
          /\ y.fault = x.fault /\ y.executed = x.executed /\ y.issued = b /\ y.squashed = a
      BY ONLY <3>5, <3>6, <3>7, <3>8 DEF InstType
    <3>10. y.issued <=> x.issued \/ sn \in F
      BY <3>3, <3>8, <3>9
    <3>11. y.squashed <=> x.squashed \/ Marked(sn, to)
      BY <3>2, <3>7, <3>9
    <3> QED BY <3>1, <3>4, <3>9, <3>10, <3>11
  <2>7. PredictorOK(depPred') /\ depPred'.LFST = depPred.LFST
    BY <1>1, <2>3, SquashStoresOK DEF PredictorInv, MemDepSquash
  <2>8. /\ regScoreboard' \subseteq regScoreboard
        /\ \A r \in regScoreboard : r \in Nat /\ r <= to => r \in regScoreboard'
    BY <2>3 DEF IqSquash
  <2>9. /\ freeEntries' = freeEntries + Cardinality(Freed(to)) /\ dependGraph' = DropConsumers(to)
        /\ nonSpecInsts' = {sn \in nonSpecInsts : sn <= to}
        /\ instList' = {sn \in instList : sn <= to}
        /\ instsToReplay' = {sn \in instsToReplay : sn <= to}
        /\ barrierSNs' = {sn \in barrierSNs : sn <= to}
        /\ memDepHash' = Restrict(memDepHash, {sn \in DOMAIN memDepHash : sn <= to})
    BY <2>3 DEF IqSquash, MemDepSquash, ReplayUpTo
  <2>10. Cuts(to)
    BY <1>2, <1>4, <2>1, <2>3, <2>4, <2>5, <2>6, <2>7, <2>8, <2>9 DEF Cuts
  <2> QED BY <2>2, <2>10
<1>5. CASE ~squashSig.on
  <2>1. PICK to : to = nextSn
    OBVIOUS
  <2>2. to \in Nat
    BY <1>1, <2>1, ShapeFacts
  <2>3. /\ inst' = Restrict(inst, Referred)
        /\ UNCHANGED <<squashed, instList, freeEntries, dependGraph, regScoreboard, nonSpecInsts>>
        /\ UNCHANGED <<memDepHash, barrierSNs, instsToReplay, depPred>>
    BY <1>5 DEF StartTick, iqVars, mdVars
  <2>4. /\ \A sn \in instList : sn <= to /\ ~(sn > to)
        /\ \A sn \in Referred : sn <= to /\ ~(sn > to)
    <3>1. \A sn \in Referred : sn <= to /\ ~(sn > to)
      BY <1>3, <2>1, <2>2
    <3> QED BY <1>1, <3>1, ReferredIs
  <2>5. Freed(to) = {} /\ \A sn \in Referred : ~Marked(sn, to)
    BY <2>4 DEF Freed, Marked
  <2>6. ASSUME NEW sn \in Referred
        PROVE  /\ inst'[sn] = inst[sn] /\ inst'[sn] \in InstType /\ sn \notin Freed(to)
               /\ ~Marked(sn, to)
    BY <1>3, <2>3, <2>5 DEF Restrict
  <2>7. inst' = [sn \in Referred |-> inst'[sn]]
    BY <2>3 DEF Restrict
  <2>8. \A sn \in Referred :
          /\ inst'[sn] \in InstType /\ inst'[sn].pos = inst[sn].pos
          /\ inst'[sn].runahead = inst[sn].runahead /\ inst'[sn].unready = inst[sn].unready
          /\ inst'[sn].memOpDone = inst[sn].memOpDone /\ inst'[sn].wb = inst[sn].wb
          /\ inst'[sn].fault = inst[sn].fault /\ inst'[sn].executed = inst[sn].executed
          /\ (inst'[sn].issued <=> inst[sn].issued \/ sn \in Freed(to))
          /\ (inst'[sn].squashed <=> inst[sn].squashed \/ Marked(sn, to))
    BY <2>6
  <2>9. freeEntries' = freeEntries + Cardinality(Freed(to))
    <3>1. freeEntries \in Nat /\ Cardinality(Freed(to)) = 0
      BY <1>1, <2>5, FS_EmptySet DEF Shape
    <3> QED BY <2>3, <3>1
  <2>10. dependGraph' = DropConsumers(to)
    BY <2>3, <2>5 DEF DropConsumers
  <2>11. /\ nonSpecInsts \subseteq Referred /\ instsToReplay \subseteq Referred
         /\ DOMAIN memDepHash \subseteq Referred /\ barrierSNs \subseteq DOMAIN memDepHash
    BY <1>1, ReferredIs, AtIs DEF Places, BarrierInv
  <2>12. /\ nonSpecInsts' = {sn \in nonSpecInsts : sn <= to}
         /\ instList' = {sn \in instList : sn <= to}
         /\ instsToReplay' = {sn \in instsToReplay : sn <= to}
         /\ barrierSNs' = {sn \in barrierSNs : sn <= to}
    BY <2>3, <2>4, <2>11
  <2>13. memDepHash' = Restrict(memDepHash, {sn \in DOMAIN memDepHash : sn <= to})
    <3>1. {sn \in DOMAIN memDepHash : sn <= to} = DOMAIN memDepHash
      BY <2>4, <2>11
    <3>2. memDepHash = [sn \in DOMAIN memDepHash |-> memDepHash[sn]]
      BY <1>1 DEF HashInv
    <3> QED BY <2>3, <3>1, <3>2 DEF Restrict
  <2>14. PredictorOK(depPred') /\ depPred'.LFST = depPred.LFST
    BY <1>1, <2>3 DEF PredictorInv
  <2>15. regScoreboard' = regScoreboard
    BY <2>3
  <2>16. Cuts(to)
    BY <1>2, <1>5, <2>1, <2>3, <2>7, <2>8, <2>9, <2>10, <2>12, <2>13, <2>14, <2>15 DEF Cuts
  <2> QED BY <2>2, <2>16
<1> QED BY <1>4, <1>5

LEMMA CutHash ==
  ASSUME NEW to, Cuts(to)
  PROVE  /\ DOMAIN memDepHash' = {sn \in DOMAIN memDepHash : sn <= to}
         /\ memDepHash' = [sn \in DOMAIN memDepHash' |-> memDepHash'[sn]]
         /\ \A sn \in DOMAIN memDepHash' : memDepHash'[sn] = memDepHash[sn]
BY DEF Cuts, Restrict

LEMMA CutKeeps ==
  ASSUME Shape, HashInv, PlaceInv, NEW to \in Nat, Cuts(to)
  PROVE  /\ DOMAIN inst' = Referred /\ Referred \subseteq DOMAIN inst
         /\ \A sn \in Referred :
              /\ sn \in Nat /\ Kind(sn)' = Kind(sn) /\ OpOf(sn)' = OpOf(sn)
              /\ (IsMemRef(sn)' <=> IsMemRef(sn)) /\ (IsBarrier(sn)' <=> IsBarrier(sn))
              /\ (WaitsReg(sn)' <=> WaitsReg(sn)) /\ (WaitsMem(sn)' <=> WaitsMem(sn) /\ sn <= to)
              /\ (Pending(sn) => Pending(sn)')
              /\ sn <= to => /\ (inst'[sn].squashed <=> inst[sn].squashed)
                             /\ (inst'[sn].issued <=> inst[sn].issued)
                             /\ (InQueue(sn)' <=> InQueue(sn))
<1>1. DOMAIN inst' = Referred
  BY DEF Cuts
<1>2. Referred \subseteq DOMAIN inst /\ \A sn \in DOMAIN inst : sn \in Nat
  BY ReferredIs, ShapeFacts
<1>3. ASSUME NEW sn \in Referred
      PROVE  /\ sn \in Nat /\ Kind(sn)' = Kind(sn) /\ OpOf(sn)' = OpOf(sn)
             /\ (IsMemRef(sn)' <=> IsMemRef(sn)) /\ (IsBarrier(sn)' <=> IsBarrier(sn))
             /\ (WaitsReg(sn)' <=> WaitsReg(sn)) /\ (WaitsMem(sn)' <=> WaitsMem(sn) /\ sn <= to)
             /\ (Pending(sn) => Pending(sn)')
             /\ sn <= to => /\ (inst'[sn].squashed <=> inst[sn].squashed)
                            /\ (inst'[sn].issued <=> inst[sn].issued)
                            /\ (InQueue(sn)' <=> InQueue(sn))
  <2>1. /\ inst'[sn].pos = inst[sn].pos /\ sc' = sc /\ inst'[sn].unready = inst[sn].unready
        /\ inst'[sn].memOpDone = inst[sn].memOpDone /\ inst'[sn].wb = inst[sn].wb
        /\ inst'[sn].fault = inst[sn].fault
        /\ (inst'[sn].issued <=> inst[sn].issued \/ sn \in Freed(to))
        /\ (inst'[sn].squashed <=> inst[sn].squashed \/ Marked(sn, to))
    BY DEF Cuts
  <2>2. OpOf(sn)' = OpOf(sn)
    BY <2>1 DEF OpOf
  <2>3. Kind(sn)' = Kind(sn)
    BY <2>2 DEF Kind
  <2>4. (IsMemRef(sn)' <=> IsMemRef(sn)) /\ (IsBarrier(sn)' <=> IsBarrier(sn))
    BY <2>3 DEF IsMemRef, IsBarrier
  <2>5. WaitsReg(sn)' <=> WaitsReg(sn)
    BY <2>1 DEF WaitsReg
  <2>6. WaitsMem(sn)' <=> WaitsMem(sn) /\ sn <= to
    BY CutHash DEF WaitsMem
  <2>7. Pending(sn) => Pending(sn)'
    BY <2>1 DEF Pending
  <2>8. sn \in Nat
    BY <1>2
  <2>9. sn <= to => sn \notin Freed(to) /\ ~Marked(sn, to)
    BY <2>8, FreedIs
  <2>10. sn <= to => /\ (inst'[sn].squashed <=> inst[sn].squashed)
                     /\ (inst'[sn].issued <=> inst[sn].issued)
    BY <2>1, <2>9
  <2>11. sn <= to => (InQueue(sn)' <=> InQueue(sn))
    BY <2>1, <2>4, <2>10 DEF InQueue
  <2> QED BY <2>2, <2>3, <2>4, <2>5, <2>6, <2>7, <2>8, <2>10, <2>11
<1> QED BY <1>1, <1>2, <1>3

\* Of what is squashed, the replays and the barriers to be told to execute go.
LEMMA CutAt ==
  ASSUME Shape, HashInv, PlaceInv, NEW to \in Nat, Cuts(to)
  PROVE  /\ \A p \in Places \ {"nonSpec", "replay"} : At[p]' = At[p]
         /\ \A p \in {"nonSpec", "replay"} : At[p]' = {sn \in At[p] : sn <= to}
<1>1. /\ Range(blocked') = Range(blocked) /\ Range(retry') = Range(retry)
      /\ Range(instsToExecute') = Range(instsToExecute) /\ inUnit' = inUnit
      /\ Range(deferred') = Range(deferred) /\ ReadySet(ready') = ReadySet(ready)
      /\ Range(iewQueue') = Range(iewQueue) /\ sent' = sent
      /\ \A sn \in Referred : inst'[sn].executed = inst[sn].executed
  BY DEF Cuts
<1>2. {sn \in sent' : ~inst'[sn].executed} = {sn \in sent : ~inst[sn].executed}
  BY <1>1, ReferredIs
<1>3. ASSUME NEW p \in Places \ {"nonSpec", "replay"} PROVE At[p]' = At[p]
  <2>1. \/ p = "ready" \/ p = "blocked" \/ p = "retry" \/ p = "execute" \/ p = "unit"
        \/ p = "deferred" \/ p = "memory" \/ p = "commit"
    BY PlacesAre
  <2> QED BY <1>1, <1>2, <2>1, AtIs, AtIsNext
<1>4. At["nonSpec"]' = {sn \in At["nonSpec"] : sn <= to} /\ At["replay"]' = {sn \in At["replay"] : sn <= to}
  BY AtIs, AtIsNext DEF Cuts
<1> QED BY <1>3, <1>4

LEMMA CutPlaces ==
  ASSUME Shape, HashInv, PlaceInv, SignalInv, NEW to \in Nat, Cuts(to)
  PROVE  /\ PlaceInv' /\ \A p \in Places : At[p]' \subseteq At[p] /\ At[p]' \subseteq Referred
         /\ \A p \in Places : \A sn \in At[p] : sn <= to => sn \in At[p]'
<1>1. /\ \A p \in Places \ {"nonSpec", "replay"} : At[p]' = At[p]
      /\ \A p \in {"nonSpec", "replay"} : At[p]' = {sn \in At[p] : sn <= to}
  BY CutAt
<1>2. \A p \in Places : At[p]' \subseteq At[p] /\ \A sn \in At[p] : sn <= to => sn \in At[p]'
  BY <1>1
<1>3. \A p \in Places : At[p] \subseteq Referred
  BY ReferredIs
<1>4. PlacesApart'
  BY <1>2 DEF PlaceInv, PlacesApart
<1>5. ASSUME NEW p \in Places, NEW sn \in At[p]' PROVE PlaceOK(p, sn)'
  <2>1. sn \in At[p] /\ sn \in Referred /\ (p \in {"nonSpec", "replay"} => sn <= to)
    BY <1>1, <1>2, <1>3
  <2>2. PlaceOK(p, sn)
    BY <2>1 DEF PlaceInv
  <2>3. /\ sn \in Nat /\ Kind(sn)' = Kind(sn) /\ (IsMemRef(sn)' <=> IsMemRef(sn))
        /\ (WaitsReg(sn)' <=> WaitsReg(sn)) /\ (WaitsMem(sn)' => WaitsMem(sn))
    BY <2>1, CutKeeps
  <2>4. /\ inst'[sn].wb = inst[sn].wb /\ inst'[sn].executed = inst[sn].executed
        /\ (inst'[sn].issued <=> inst[sn].issued \/ sn \in Freed(to))
        /\ (inst'[sn].squashed <=> inst[sn].squashed \/ Marked(sn, to))
        /\ instList' = {x \in instList : x <= to}
    BY <2>1 DEF Cuts
  <2>5. /\ Marked(sn, to) <=> sn \in Freed(to) \/ (sn > to /\ IsMemRef(sn))
        /\ sn \in Freed(to) <=> sn \in instList /\ sn > to /\ InQueue(sn)
    BY FreedIs
  <2>6. ASSUME ~inst'[sn].squashed
        PROVE  /\ p \notin Unissued => inst'[sn].issued
               /\ p \in Unissued /\ ~IsMemRef(sn)' => ~inst'[sn].issued
               /\ p \in Unissued \/ IsMemRef(sn)' => sn \in instList'
    <3>1. ~inst[sn].squashed /\ sn \notin Freed(to) /\ ~(sn > to /\ IsMemRef(sn))
      BY <2>4, <2>5, <2>6
    <3>2. /\ p \notin Unissued => inst[sn].issued
          /\ p \in Unissued /\ ~IsMemRef(sn) => ~inst[sn].issued
          /\ p \in Unissued \/ IsMemRef(sn) => sn \in instList
      BY <2>2, <3>1 DEF PlaceOK
    <3>3. sn \in instList /\ InQueue(sn) => sn <= to
      BY <2>3, <2>5, <3>1
    <3>4. IsMemRef(sn) => sn <= to
      BY <2>3, <3>1
    <3>5. ~inst[sn].issued => InQueue(sn)
      BY DEF InQueue
    <3> QED BY <2>3, <2>4, <3>1, <3>2, <3>3, <3>4, <3>5
  <2>7. p \in {"replay", "nonSpec"} => sn \in instList'
    BY <2>1, <2>2, <2>4 DEF PlaceOK
  <2>8. /\ Fits(p, Kind(sn)') /\ inst'[sn].wb = "no" /\ ~WaitsReg(sn)' /\ ~WaitsMem(sn)'
        /\ (inst'[sn].executed <=> p = "commit")
    BY <2>2, <2>3, <2>4 DEF PlaceOK
  <2> QED BY <2>6, <2>7, <2>8 DEF PlaceOK
<1>6. nonSpecSig' # 0 => nonSpecSig' \in nonSpecInsts' /\ phase' # "commit"
  <2> SUFFICES ASSUME nonSpecSig # 0 PROVE nonSpecSig \in nonSpecInsts'
    BY DEF Cuts
  <2>1. ~squashSig.on /\ nonSpecSig \in nonSpecInsts
    BY DEF SignalInv, PlaceInv
  <2>2. nonSpecSig \in DOMAIN inst
    BY <2>1, AtIs DEF Shape, Places
  <2>3. to = nextSn /\ nonSpecSig < nextSn /\ nonSpecSig \in Nat /\ nextSn \in Nat
    BY <2>1, <2>2, ShapeFacts DEF Cuts
  <2> QED BY <2>1, <2>3 DEF Cuts
<1> QED BY <1>2, <1>3, <1>4, <1>5, <1>6 DEF PlaceInv

LEMMA CutFlags ==
  ASSUME Shape, HashInv, PlaceInv, SignalInv, Somewhere, FlagInv, NEW to \in Nat, Cuts(to)
  PROVE  Somewhere' /\ FlagInv'
<1>1. /\ DOMAIN inst' = Referred /\ Referred \subseteq DOMAIN inst /\ instList \subseteq Referred
      /\ \A sn \in instList' : sn \in instList /\ sn <= to
  BY CutKeeps, ReferredIs DEF Cuts
<1>2. ASSUME NEW sn \in instList' PROVE SomewhereOK(sn)' /\ WaitOK(sn)'
  <2>1. SomewhereOK(sn) /\ WaitOK(sn) /\ sn \in Referred /\ sn <= to
    BY <1>1 DEF Somewhere, FlagInv
  <2>2. /\ (WaitsReg(sn)' <=> WaitsReg(sn)) /\ (WaitsMem(sn)' <=> WaitsMem(sn))
        /\ (inst'[sn].squashed <=> inst[sn].squashed) /\ (inst'[sn].issued <=> inst[sn].issued)
    BY <2>1, CutKeeps
  <2>3. inst'[sn].wb = inst[sn].wb /\ inst'[sn].executed = inst[sn].executed
    BY <2>1 DEF Cuts
  <2>4. (\E p \in Places : sn \in At[p]) => \E p \in Places : sn \in At[p]'
    BY <2>1, CutPlaces
  <2> QED BY <2>1, <2>2, <2>3, <2>4 DEF SomewhereOK, WaitOK
<1>3. ASSUME NEW sn \in Referred PROVE FlagOK(sn)'
  <2>1. FlagOK(sn) /\ (IsMemRef(sn)' <=> IsMemRef(sn))
    BY <1>1, CutKeeps DEF FlagInv
  <2>2. /\ inst'[sn].wb = inst[sn].wb /\ inst'[sn].executed = inst[sn].executed
        /\ inst'[sn].fault = inst[sn].fault /\ inst'[sn].memOpDone = inst[sn].memOpDone
        /\ (inst[sn].issued => inst'[sn].issued) /\ (inst[sn].squashed => inst'[sn].squashed)
    BY DEF Cuts
  <2> QED BY <2>1, <2>2 DEF FlagOK
<1> QED BY <1>1, <1>2, <1>3 DEF Somewhere, FlagInv

LEMMA CutSignals ==
  ASSUME Shape, SignalInv, NEW to \in Nat, Cuts(to)
  PROVE  SignalInv'
<1>1. /\ UNCHANGED <<nextSn, walk, robSquashing, done>> /\ ~squashSig'.on
  BY DEF Cuts, NoSquash
<1>2. CASE squashSig.on
  <2>1. /\ squashed' = squashSig /\ squashSig.tail = nextSn - 1 /\ nextSn \in Nat
        /\ (walk.on => walk.to = squashSig.to)
    BY <1>2, ShapeFacts DEF Cuts, SignalInv
  <2>2. squashed'.tail < nextSn
    BY <2>1
  <2> QED BY <1>1, <2>1, <2>2 DEF SignalInv
<1>3. CASE ~squashSig.on
  BY <1>1, <1>3 DEF Cuts, SignalInv
<1> QED BY <1>2, <1>3

\* What stays in the reorder buffer is not squashed, nor in the range.
LEMMA CutLive ==
  ASSUME Shape, HashInv, PlaceInv, SignalInv, LiveInv, NEW to \in Nat, Cuts(to)
  PROVE  LiveInv'
<1>1. /\ instList \subseteq DOMAIN inst /\ \A sn \in DOMAIN inst : sn \in Nat /\ sn < nextSn
      /\ Range(rob) \subseteq Referred /\ nextSn \in Nat
  BY ShapeFacts, ReferredIs
<1>2. Live' = Live
  BY DEF Cuts, Live
<1>3. \A sn \in Listed : sn <= to
  <2>1. CASE squashSig.on
    BY <2>1 DEF Cuts, Listed
  <2>2. CASE ~squashSig.on
    BY <1>1, <2>2 DEF Cuts, Listed
  <2> QED BY <2>1, <2>2
<1>4. Listed' = Listed
  <2>1. Listed' = {sn \in instList : sn <= to /\ sn > done}
    BY DEF Cuts, Listed, NoSquash
  <2>2. CASE squashSig.on
    BY <2>1, <2>2 DEF Listed, Cuts
  <2>3. CASE ~squashSig.on
    <3>1. Listed = {sn \in instList : sn > done}
      BY <2>3 DEF Listed
    <3>2. \A sn \in instList : sn <= to
      BY <1>1, <2>3 DEF Cuts
    <3> QED BY <2>1, <3>1, <3>2
  <2> QED BY <2>2, <2>3
<1>5. ASSUME NEW sn \in Live PROVE LiveOK(sn)'
  <2>1. LiveOK(sn) /\ sn <= to /\ sn \in Referred /\ sn \in Nat
    BY <1>1, <1>3 DEF LiveInv, Live, Listed
  <2>2. (inst'[sn].squashed <=> inst[sn].squashed)
    BY <2>1, CutKeeps
  <2>3. inst'[sn].runahead = inst[sn].runahead /\ inRunahead' = inRunahead
    BY <2>1 DEF Cuts
  <2>4. ~InRange(sn)'
    <3>1. CASE squashSig.on
      <4>1. squashed'.to = to
        BY <3>1 DEF Cuts
      <4> QED BY <2>1, <4>1 DEF InRange
    <3>2. CASE ~squashSig.on
      BY <2>1, <3>2 DEF LiveOK, InRange, Cuts
    <3> QED BY <3>1, <3>2
  <2> QED BY <2>1, <2>2, <2>3, <2>4 DEF LiveOK
<1> QED BY <1>2, <1>4, <1>5 DEF LiveInv

LEMMA CutRob ==
  ASSUME Shape, HashInv, PlaceInv, SignalInv, LiveInv, RobInv, NEW to \in Nat, Cuts(to)
  PROVE  RobInv'
<1>1. /\ DOMAIN inst' = Referred /\ Referred \subseteq DOMAIN inst /\ instList \subseteq Referred
      /\ instList' = {sn \in instList : sn <= to} /\ rob' = rob /\ done' = done /\ walk' = walk
  BY CutKeeps, ReferredIs DEF Cuts
<1>2. /\ \A sn \in DOMAIN inst : sn \in Nat /\ sn < nextSn
      /\ Range(rob) \subseteq DOMAIN inst /\ nextSn \in Nat /\ done \in Nat
      /\ walk.to \in Nat
  BY ShapeFacts
<1>3. ASSUME NEW sn \in instList' PROVE ListedOK(sn)'
  <2>1. ListedOK(sn) /\ sn \in Referred /\ sn <= to /\ sn \in Nat
    BY <1>1, <1>2 DEF RobInv
  <2>2. (inst[sn].squashed => inst'[sn].squashed) /\ inst'[sn].wb = inst[sn].wb
    BY <2>1 DEF Cuts
  <2>3. InQueue(sn)' <=> InQueue(sn)
    BY <2>1, CutKeeps
  <2>4. \A r \in Range(rob) : r < sn => r \in instList'
    <3> TAKE r \in Range(rob)
    <3> HAVE r < sn
    <3>1. r \in instList /\ r \in Nat
      BY <1>2, <2>1 DEF ListedOK
    <3> QED BY <1>1, <2>1, <3>1
  <2> QED BY <1>1, <2>1, <2>2, <2>3, <2>4 DEF ListedOK
<1>4. ASSUME NEW sn \in Referred, sn \notin instList' PROVE UnlistedOK(sn)'
  <2> SUFFICES ASSUME ~inst'[sn].squashed
               PROVE  \/ sn \in Range(rob) /\ walk.on /\ sn > walk.to /\ InRange(sn)'
                      \/ inst[sn].wb # "no" /\ \A r \in Range(rob) : sn < r
    BY <1>1, <1>4 DEF UnlistedOK, Cuts
  <2>1. ~inst[sn].squashed /\ sn \in DOMAIN inst /\ sn \in Nat /\ sn < nextSn
    BY <1>1, <1>2 DEF Cuts
  <2>2. ASSUME walk.on, sn > walk.to, InRange(sn) \/ squashSig.on PROVE InRange(sn)'
    <3>1. CASE squashSig.on
      <4>1. squashed'.to = walk.to /\ squashed'.tail = nextSn - 1
        BY <2>2, <3>1 DEF Cuts, SignalInv
      <4>2. walk.to < sn /\ sn <= nextSn - 1
        BY <1>2, <2>1, <2>2
      <4> QED BY <4>1, <4>2 DEF InRange
    <3>2. CASE ~squashSig.on
      BY <2>2, <3>2 DEF Cuts, InRange
    <3> QED BY <3>1, <3>2
  <2>3. CASE sn \notin instList
    <3>1. UnlistedOK(sn)
      BY <2>1, <2>3 DEF RobInv
    <3> QED BY <2>1, <2>2, <3>1 DEF UnlistedOK
  <2>4. CASE sn \in instList
    <3>1. ~(sn <= to)
      BY <1>1, <1>4, <2>4
    <3>2. squashSig.on /\ to = squashSig.to
      BY <1>2, <2>1, <3>1 DEF Cuts
    <3>3. CASE sn > done
      <4>1. sn \in Range(rob)
        BY <1>1, <2>1, <2>4, <3>3 DEF RobInv, ListedOK
      <4>2. sn \notin Listed
        BY <3>1, <3>2 DEF Listed
      <4>3. walk.on /\ ~(sn <= walk.to)
        BY <4>1, <4>2 DEF LiveInv, Live
      <4>4. sn > walk.to
        BY <1>2, <2>1, <4>3
      <4> QED BY <2>2, <3>2, <4>1, <4>3, <4>4
    <3>4. CASE ~(sn > done)
      <4>1. \A r \in Range(rob) : r > done /\ r \in Nat
        BY <1>2 DEF RobInv
      <4>2. sn <= done
        BY <1>2, <2>1, <3>4
      <4>3. inst[sn].wb # "no"
        BY <2>4, <4>2 DEF RobInv, ListedOK
      <4> QED BY <1>2, <2>1, <4>1, <4>2, <4>3
    <3> QED BY <3>3, <3>4
  <2> QED BY <2>3, <2>4
<1>5. \A sn \in Range(rob) : sn > done
  BY DEF RobInv
<1> QED BY <1>1, <1>3, <1>4, <1>5 DEF RobInv

\* A consumer that is squashed has not issued, so that its edges go.
LEMMA CutGraph ==
  ASSUME Shape, HashInv, PlaceInv, FlagInv, GraphInv, NEW to \in Nat, Cuts(to)
  PROVE  GraphInv'
<1>1. /\ DOMAIN inst' = Referred /\ Referred \subseteq DOMAIN inst /\ instList \subseteq Referred
      /\ instList' = {sn \in instList : sn <= to} /\ rob' = rob /\ done' = done
      /\ dependGraph' = {d \in dependGraph : d[2] \notin Freed(to)}
      /\ Range(rob) \subseteq Referred
  BY CutKeeps, ReferredIs DEF Cuts, DropConsumers
<1>2. \A sn \in DOMAIN inst : sn \in Nat
  BY ShapeFacts
<1>3. ASSUME NEW d \in dependGraph'
      PROVE  EdgeOK(d) /\ d[1] \in instList' /\ d[2] \in instList'
  <2>1. EdgeOK(d) /\ d \in dependGraph /\ d[2] \notin Freed(to)
    BY <1>1 DEF GraphInv
  <2>2. d[1] \in instList /\ d[2] \in instList /\ d[1] < d[2] /\ d[1] \in Nat /\ d[2] \in Nat
    BY <1>1, <1>2, <2>1 DEF EdgeOK
  <2>3. EdgesTo(d[2]) # {}
    BY <2>1 DEF EdgesTo
  <2>4. inst[d[2]].unready > 0
    <3>1. inst[d[2]].unready = Cardinality(EdgesTo(d[2]))
      BY <2>2 DEF GraphInv
    <3>2. Cardinality(EdgesTo(d[2])) \in Nat /\ Cardinality(EdgesTo(d[2])) # 0
      BY <2>3, EdgesFinite
    <3> QED BY <3>1, <3>2
  <2>5. InQueue(d[2])
    BY <2>2, <2>4 DEF FlagInv, WaitOK, WaitsReg, InQueue
  <2>6. d[2] <= to
    BY <2>1, <2>2, <2>5, FreedIs
  <2>7. d[1] <= to
    BY <2>2, <2>6
  <2> QED BY <1>1, <2>1, <2>2, <2>6, <2>7
<1>4. ASSUME NEW d \in dependGraph' PROVE EdgeOK(d)'
  <2>1. EdgeOK(d) /\ d[1] \in instList' /\ d[2] \in instList' /\ d[1] \in Referred /\ d[2] \in Referred
        /\ d[1] <= to /\ d[1] \in Nat
    BY <1>1, <1>2, <1>3
  <2>2. /\ (Pending(d[1]) => Pending(d[1])') /\ OpOf(d[1])' = OpOf(d[1])
        /\ (IsBarrier(d[2])' <=> IsBarrier(d[2]))
    BY <2>1, CutKeeps
  <2>3. d[1] \in regScoreboard => d[1] \in regScoreboard'
    BY <2>1 DEF Cuts
  <2> QED BY <1>1, <2>1, <2>2, <2>3 DEF EdgeOK
<1>5. ASSUME NEW sn \in instList'
      PROVE  inst'[sn].unready = Cardinality(EdgesTo(sn)') /\ (~IsBarrier(sn)' => SourcesOK(sn)')
  <2>1. /\ sn \in instList /\ sn \in Referred /\ sn <= to /\ sn \in Nat /\ sn \notin Freed(to)
        /\ inst[sn].unready = Cardinality(EdgesTo(sn)) /\ (~IsBarrier(sn) => SourcesOK(sn))
    BY <1>1, <1>2, FreedIs DEF GraphInv
  <2>2. EdgesTo(sn)' = EdgesTo(sn)
    BY <1>1, <2>1 DEF EdgesTo
  <2>3. /\ OpOf(sn)' = OpOf(sn) /\ (IsBarrier(sn)' <=> IsBarrier(sn))
        /\ inst'[sn].unready = inst[sn].unready
    BY <2>1, CutKeeps DEF Cuts
  <2>4. SourcesOK(sn) => SourcesOK(sn)'
    <3> SUFFICES ASSUME SourcesOK(sn), NEW r \in Range(rob), r < sn, inst'[r].pos \in OpOf(sn)'.src,
                        r \in regScoreboard'
                 PROVE  <<r, sn>> \in dependGraph'
      BY <1>1 DEF SourcesOK
    <3>1. inst'[r].pos = inst[r].pos /\ r \in regScoreboard
      BY <1>1 DEF Cuts
    <3>2. <<r, sn>> \in dependGraph
      BY <2>3, <3>1 DEF SourcesOK
    <3> QED BY <1>1, <2>1, <3>2
  <2> QED BY <2>1, <2>2, <2>3, <2>4
<1>6. ASSUME NEW r \in Range(rob), r \in regScoreboard' PROVE Pending(r)' /\ HasDest(OpOf(r)')
  <2>1. r \in regScoreboard /\ r \in Referred
    BY <1>1, <1>6 DEF Cuts
  <2>2. (Pending(r) => Pending(r)') /\ OpOf(r)' = OpOf(r)
    BY <2>1, CutKeeps
  <2> QED BY <2>1, <2>2 DEF GraphInv
<1>7. dependGraph' \subseteq Nat \X Nat
  BY <1>1 DEF GraphInv
<1>8. \A r \in regScoreboard' : r \in Nat /\ r < nextSn'
  BY DEF GraphInv, Cuts
<1> QED BY <1>1, <1>4, <1>5, <1>6, <1>7, <1>8 DEF GraphInv

LEMMA CutHashOK ==
  ASSUME Shape, HashInv, PlaceInv, NEW to \in Nat, Cuts(to), NEW sn, sn \in DOMAIN memDepHash'
  PROVE  HashOK(sn)'
<1>1. /\ DOMAIN inst' = Referred /\ Referred \subseteq DOMAIN inst /\ instList \subseteq Referred
      /\ instList' = {x \in instList : x <= to} /\ done' = done /\ nextSn' = nextSn
  BY CutKeeps, ReferredIs DEF Cuts
<1>2. /\ DOMAIN memDepHash' = {x \in DOMAIN memDepHash : x <= to}
      /\ \A x \in DOMAIN memDepHash' : memDepHash'[x] = memDepHash[x]
  BY CutHash
<1>3. HashOK(sn) /\ sn \in DOMAIN memDepHash /\ sn <= to /\ memDepHash'[sn] = memDepHash[sn]
  BY <1>2 DEF HashInv
<1>4. sn \in instList' /\ sn \in Referred /\ sn \in Nat
  BY <1>1, <1>3, ShapeFacts DEF HashOK
<1>5. /\ (IsMemRef(sn)' <=> IsMemRef(sn)) /\ (IsBarrier(sn)' <=> IsBarrier(sn))
      /\ (Pending(sn) => Pending(sn)') /\ (WaitsReg(sn)' <=> WaitsReg(sn)) /\ Kind(sn)' = Kind(sn)
  BY <1>4, CutKeeps
<1>6. Producers(sn)' = Producers(sn)
  <2>1. ASSUME NEW s \in DOMAIN memDepHash, sn \in memDepHash[s].dependInsts PROVE s <= to
    <3>1. HashOK(s)
      BY DEF HashInv
    <3>2. s < sn /\ s \in Nat
      BY <2>1, <3>1, ShapeFacts DEF HashOK
    <3> QED BY <1>3, <1>4, <3>2
  <2> QED BY <1>2, <2>1 DEF Producers
<1>7. \A c : c \in DOMAIN inst' => c \in DOMAIN inst /\ (IsMemRef(c)' <=> IsMemRef(c))
  BY <1>1, CutKeeps
<1> QED BY <1>1, <1>3, <1>4, <1>5, <1>6, <1>7 DEF HashOK

LEMMA CutHashInv ==
  ASSUME Shape, HashInv, PlaceInv, SignalInv, BarrierInv, NEW to \in Nat, Cuts(to)
  PROVE  HashInv' /\ BarrierInv'
<1>1. /\ DOMAIN inst' = Referred /\ Referred \subseteq DOMAIN inst /\ instList \subseteq Referred
      /\ instList' = {x \in instList : x <= to} /\ rob' = rob /\ nonSpecSig' = nonSpecSig
      /\ barrierSNs' = {x \in barrierSNs : x <= to}
  BY CutKeeps, ReferredIs DEF Cuts
<1>2. /\ DOMAIN memDepHash' = {x \in DOMAIN memDepHash : x <= to}
      /\ memDepHash' = [x \in DOMAIN memDepHash' |-> memDepHash'[x]]
      /\ \A x \in DOMAIN memDepHash' : memDepHash'[x] = memDepHash[x]
  BY CutHash
<1>3. \A sn \in Referred : /\ (IsMemRef(sn)' <=> IsMemRef(sn)) /\ (IsBarrier(sn)' <=> IsBarrier(sn))
                           /\ inst'[sn].wb = inst[sn].wb
  BY CutKeeps DEF Cuts
<1>4. DOMAIN memDepHash \subseteq Referred
  BY ReferredIs
<1>5. \A sn \in instList' : (IsMemRef(sn)' \/ IsBarrier(sn)') /\ inst'[sn].wb = "no" =>
                              sn \in DOMAIN memDepHash'
  BY <1>1, <1>2, <1>3 DEF HashInv
<1>6. \A sn \in DOMAIN memDepHash' : HashOK(sn)'
  BY CutHashOK
<1>7. HashInv'
  BY <1>2, <1>5, <1>6 DEF HashInv
<1>8. \A sn \in barrierSNs' : sn \in DOMAIN memDepHash' /\ IsBarrier(sn)'
  BY <1>1, <1>2, <1>3, <1>4 DEF BarrierInv
<1>9. \A b \in DOMAIN memDepHash' : IsBarrier(b)' /\ inst'[b].wb = "no" =>
        /\ b \in barrierSNs'
        /\ \A c \in DOMAIN memDepHash' : IsMemRef(c)' /\ b < c => c \in memDepHash'[b].dependInsts
  BY <1>1, <1>2, <1>3, <1>4 DEF BarrierInv
<1>10. ASSUME NEW p \in Places \ {"nonSpec"}, NEW sn \in At[p]', IsBarrier(sn)'
       PROVE  \A r \in Range(rob) : sn <= r
  <2>1. sn \in At[p] /\ sn \in Referred
    BY CutPlaces
  <2> QED BY <1>3, <1>10, <2>1 DEF BarrierInv
<1>11. nonSpecSig # 0 => \A r \in Range(rob) : nonSpecSig <= r
  BY DEF BarrierInv
<1>12. BarrierInv'
  BY <1>1, <1>8, <1>9, <1>10, <1>11 DEF BarrierInv
<1> QED BY <1>7, <1>12

LEMMA CutShape ==
  ASSUME Shape, HashInv, PlaceInv, SignalInv, NEW to \in Nat, Cuts(to)
  PROVE  Shape'
<1>1. /\ DOMAIN inst' = Referred /\ Referred \subseteq DOMAIN inst /\ instList \subseteq Referred
      /\ Range(rob) \subseteq Referred /\ sent \subseteq Referred
  BY CutKeeps, ReferredIs
<1>2. /\ UNCHANGED <<sc, nextSn, nextPos, rob, sent, done, nonSpecSig, orderIt, walk, iewSquashNow>>
      /\ UNCHANGED <<inRunahead, cause, exitRunahead>>
      /\ phase' = "dispatch" /\ squashSig' = NoSquash /\ iewSquash' = NoReport
      /\ instList' \subseteq instList
  BY DEF Cuts
<1>3. inst' = [sn \in DOMAIN inst' |-> inst'[sn]] /\ DOMAIN inst' \subseteq 1..(nextSn - 1)
  BY <1>1 DEF Cuts, Shape
<1>4. \A sn \in Referred : inst'[sn] \in InstType /\ inst'[sn].pos \in DOMAIN sc.prog
  BY <1>1 DEF Cuts, Shape
<1>5. freeEntries' \in Nat
  <2>1. PICK c : c = Cardinality(Freed(to))
    OBVIOUS
  <2>2. c \in Nat
    <3>1. Freed(to) \subseteq DOMAIN inst
      BY FreedIs DEF Shape
    <3> QED BY <2>1, <3>1, InstSubsets
  <2>3. freeEntries \in Nat /\ freeEntries' = freeEntries + c
    BY <2>1 DEF Shape, Cuts
  <2> QED BY <2>2, <2>3
<1>6. \A s \in Lists' : s \in Seq(Nat) /\ Distinct(s)
  BY ListsAre, ListsNext DEF Cuts
<1>7. \A p \in Places : At[p]' \subseteq DOMAIN inst'
  BY <1>1, CutPlaces
<1>8. {walk', squashSig', squashed'} \subseteq Signal
  <2>1. NoSquash \in Signal
    BY DEF NoSquash, Signal
  <2>2. {walk, squashSig, squashed} \subseteq Signal
    BY DEF Shape
  <2>3. squashed' = squashSig \/ squashed' = squashed
    BY DEF Cuts
  <2> QED BY <1>2, <2>1, <2>2, <2>3
<1>9. RedirectOK(iewSquash') /\ RedirectOK(iewSquashNow')
  <2>1. RedirectOK(NoReport)
    BY DEF RedirectOK, NoReport
  <2> QED BY <1>2, <2>1 DEF Shape
<1>10. phase' \in Phases
  BY <1>2 DEF Phases
<1>11. /\ sc \in Scenarios /\ nextSn \in Nat \ {0} /\ nextPos \in Nat \ {0} /\ rob \in Seq(Nat)
       /\ Ascending(rob) /\ done \in Nat /\ nonSpecSig \in Nat /\ orderIt \in Nat
       /\ {inRunahead, exitRunahead} \subseteq BOOLEAN
       /\ (exitRunahead => inRunahead) /\ cause.pos \in Nat /\ (inRunahead => cause.pos > 0)
  BY DEF Shape
<1>12. /\ Range(rob') \subseteq DOMAIN inst' /\ instList' \subseteq DOMAIN inst'
       /\ sent' \subseteq DOMAIN inst'
       /\ \A sn \in DOMAIN inst' : inst'[sn] \in InstType /\ inst'[sn].pos \in DOMAIN sc'.prog
  BY <1>1, <1>2, <1>4
<1>13. DOMAIN inst' \subseteq 1..(nextSn' - 1)
  BY <1>2, <1>3
<1> QED BY <1>2, <1>3, <1>5, <1>6, <1>7, <1>8, <1>9, <1>10, <1>11, <1>12, <1>13 DEF Shape

LEMMA CutUnits ==
  ASSUME Shape, HashInv, PlaceInv, UnitInv, NEW to \in Nat, Cuts(to)
  PROVE  UnitInv'
<1>1. \A sn \in inUnit : Kind(sn)' = Kind(sn)
  BY CutKeeps, ReferredIs, AtIs DEF Places
<1>2. /\ unitBusy' = [k \in Kinds |-> unitBusy[k] - unitsToBeFreed[k]]
      /\ unitsToBeFreed' = [k \in Kinds |-> 0] /\ inUnit' = inUnit /\ sc' = sc
  BY DEF Cuts
<1>3. ASSUME NEW k \in Kinds
      PROVE  /\ unitBusy'[k] \in Nat /\ unitsToBeFreed'[k] = 0
             /\ unitBusy'[k] = 0 + Cardinality({sn \in inUnit' : Kind(sn)' = k})
             /\ unitBusy'[k] <= sc'.units[k]
  <2>1. {sn \in inUnit' : Kind(sn)' = k} = {sn \in inUnit : Kind(sn) = k}
    BY <1>1, <1>2
  <2>2. PICK c : c = Cardinality({sn \in inUnit : Kind(sn) = k})
    OBVIOUS
  <2>3. c \in Nat
    <3>1. {sn \in inUnit : Kind(sn) = k} \subseteq DOMAIN inst
      BY AtIs DEF Shape, Places
    <3> QED BY <2>2, <3>1, InstSubsets
  <2>4. /\ unitBusy[k] \in Nat /\ unitsToBeFreed[k] \in Nat /\ unitBusy[k] = unitsToBeFreed[k] + c
        /\ unitBusy[k] <= sc.units[k] /\ sc.units[k] \in Nat
    BY <2>2, ScTypes DEF UnitInv, UnitsConserved
  <2>5. unitBusy'[k] = unitBusy[k] - unitsToBeFreed[k] /\ unitsToBeFreed'[k] = 0
    BY <1>2
  <2>6. PICK u, f, n : u = unitBusy[k] /\ f = unitsToBeFreed[k] /\ n = sc.units[k]
    OBVIOUS
  <2>7. u \in Nat /\ f \in Nat /\ n \in Nat /\ u = f + c /\ u <= n /\ unitBusy'[k] = u - f
    BY <2>4, <2>5, <2>6
  <2>8. u - f = c /\ c <= n
    BY ONLY <2>3, <2>7
  <2>9. unitBusy'[k] = c /\ unitsToBeFreed'[k] = 0 /\ c \in Nat /\ c <= n /\ 0 + c = c
    BY <2>3, <2>5, <2>7, <2>8
  <2>10. sc'.units[k] = n /\ Cardinality({sn \in inUnit' : Kind(sn)' = k}) = c
    BY <1>2, <2>1, <2>2, <2>6
  <2> QED BY <2>9, <2>10
<1>4. unitBusy' \in [Kinds -> Nat] /\ unitsToBeFreed' \in [Kinds -> Nat]
  <2>1. PICK g, h : g = unitBusy' /\ h = unitsToBeFreed'
    OBVIOUS
  <2>2. \A k \in Kinds : g[k] \in Nat /\ h[k] \in Nat
    <3> TAKE k \in Kinds
    <3>1. g[k] \in Nat /\ h[k] = 0
      BY <1>3, <2>1
    <3> QED BY ONLY <3>1
  <2>3. DOMAIN g = Kinds /\ DOMAIN h = Kinds
    BY <1>2, <2>1
  <2>4. g = [k \in Kinds |-> g[k]] /\ h = [k \in Kinds |-> h[k]]
    <3>1. PICK x, y : x = unitBusy /\ y = unitsToBeFreed
      OBVIOUS
    <3>2. g = [k \in Kinds |-> x[k] - y[k]] /\ h = [k \in Kinds |-> 0]
      BY <1>2, <2>1, <3>1
    <3> QED BY ONLY <3>2
  <2>5. g \in [Kinds -> Nat] /\ h \in [Kinds -> Nat]
    BY ONLY <2>2, <2>4
  <2> QED BY <2>1, <2>5
<1> QED BY <1>3, <1>4 DEF UnitInv, UnitsConserved

\* The entries of what is squashed in the queue are free again.
LEMMA CutEntries ==
  ASSUME Shape, HashInv, PlaceInv, EntriesConserved, NEW to \in Nat, Cuts(to)
  PROVE  EntriesConserved'
<1>1. PICK A : A = {sn \in instList : InQueue(sn)}
  OBVIOUS
<1>2. PICK F : F = Freed(to)
  OBVIOUS
<1>3. F = {sn \in A : sn > to}
  BY <1>1, <1>2, FreedIs
<1>4. \A sn \in A : sn \in Nat /\ sn \in Referred /\ sn \in DOMAIN inst
  BY <1>1, ShapeFacts, ReferredIs
<1>5. {sn \in instList' : InQueue(sn)'} = A \ F
  <2>1. \A sn \in instList : sn \in Nat /\ sn \in Referred /\ (sn <= to => (InQueue(sn)' <=> InQueue(sn)))
    BY ReferredIs, CutKeeps
  <2>2. instList' = {sn \in instList : sn <= to}
    BY DEF Cuts
  <2>3. \A sn \in Nat : ~(sn > to) <=> sn <= to
    OBVIOUS
  <2> QED BY <1>1, <1>3, <2>1, <2>2, <2>3
<1>6. IsFiniteSet(A) /\ F \subseteq A
  BY <1>3, <1>4, InstSubsets
<1>7. A \cap F = F
  BY <1>6
<1>8. Cardinality(A \ F) = Cardinality(A) - Cardinality(F) /\ IsFiniteSet(F)
  BY <1>6, <1>7, FS_Difference, FS_Subset
<1>9. PICK a, f, e : a = Cardinality(A) /\ f = Cardinality(F) /\ e = freeEntries
  OBVIOUS
<1>10. a \in Nat /\ f \in Nat /\ e \in Nat /\ e + a = NumEntries /\ freeEntries' = e + f
  BY <1>1, <1>2, <1>6, <1>8, <1>9, FS_CardinalityType DEF Shape, EntriesConserved, Cuts
<1>11. (e + f) + (a - f) = NumEntries
  BY ONLY <1>10
<1> QED BY <1>5, <1>8, <1>9, <1>10, <1>11 DEF EntriesConserved

LEMMA CutRest ==
  ASSUME Shape, HashInv, PlaceInv, ReadyInv, PredictorInv, NEW to \in Nat, Cuts(to)
  PROVE  ReadyInv' /\ PredictorInv'
<1>1. \A sn \in Referred : Kind(sn)' = Kind(sn)
  BY CutKeeps
<1>2. \A k \in Kinds : Range(ready.insts[k]) \subseteq Referred
  BY DEF Referred
<1>3. ReadyInv'
  BY <1>1, <1>2 DEF ReadyInv, Cuts
<1>4. DOMAIN inst' = Referred /\ Referred \subseteq DOMAIN inst
  BY CutKeeps
<1>5. PredictorOK(depPred') /\ depPred'.LFST = depPred.LFST /\ nextSn' = nextSn
  BY DEF Cuts
<1>6. PredictorInv'
  BY <1>1, <1>4, <1>5 DEF PredictorInv
<1> QED BY <1>3, <1>6

LEMMA StartTickStep ==
  ASSUME IqInv, StartTick
  PROVE  IqInv'
<1>1. PICK to \in Nat : Cuts(to)
  BY StartTickCuts
<1>2. /\ Shape /\ ReadyInv /\ PlaceInv /\ Somewhere /\ FlagInv /\ SignalInv /\ LiveInv
      /\ RobInv /\ GraphInv /\ HashInv /\ BarrierInv /\ PredictorInv /\ UnitInv
      /\ EntriesConserved
  BY DEF IqInv
<1>3. Shape' /\ PlaceInv' /\ Somewhere' /\ FlagInv' /\ SignalInv'
  BY <1>1, <1>2, CutShape, CutPlaces, CutFlags, CutSignals
<1>4. LiveInv' /\ RobInv' /\ GraphInv' /\ HashInv' /\ BarrierInv'
  BY <1>1, <1>2, CutLive, CutRob, CutGraph, CutHashInv
<1>5. UnitInv' /\ EntriesConserved' /\ ReadyInv' /\ PredictorInv'
  BY <1>1, <1>2, CutUnits, CutEntries, CutRest
<1> QED BY <1>3, <1>4, <1>5 DEF IqInv
=============================================================================
