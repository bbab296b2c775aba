---------------------------- MODULE ReusePoolProofs -------------------------
(* Theorems about ReusePool: if values are freed only by their holders, the  *)
(* free list, the counter and the users agree, a value that is taken back    *)
(* rests before its reuse, and the pool refines IdAllocator.                 *)
EXTENDS ReusePool, TLAPS, FiniteSetTheorems, WellFoundedInduction

\* Two segments have no value in common.
Apart(a, b) == a.last < b.first \/ b.last < a.first

\* Every segment of list s has values, and no value is in two of them.
Good(s) ==
  /\ s \in Seq(Segment)
  /\ \A i \in DOMAIN s : s[i].first <= s[i].last
  /\ \A i, j \in DOMAIN s : i # j => Apart(s[i], s[j])

\* The values on list s.
FreeOf(s) == UNION {Span(s[i]) : i \in DOMAIN s}

-----------------------------------------------------------------------------
(* Lists of segments *)

\* A set of numbers that is not empty has a least one.
LEMMA MinIsIn == ASSUME NEW Q \in SUBSET Nat, Q # {} PROVE Min(Q) \in Q /\ \A q \in Q : Min(Q) <= q
<1> DEFINE R == {s \in Nat \X Nat : s[1] < s[2]}
<1>1. R = OpToRel(<, Nat)
  BY DEF OpToRel
<1>2. IsWellFoundedOn(R, Nat)
  BY <1>1, NatLessThanWellFounded
<1>3. \A x, y \in Nat : y < x => <<y, x>> \in R
  OBVIOUS
<1> HIDE DEF R
<1>4. PICK x \in Q : \A y \in Q : ~(<<y, x>> \in R)
  BY <1>2, WFMin
<1>5. \A y \in Q : ~(y < x)
  BY <1>3, <1>4
<1>6. \A y \in Q : x <= y
  BY <1>5
<1> QED
  BY <1>6 DEF Min

\* The values of a segment are numbers of the pool's range.
LEMMA SegmentIs ==
  ASSUME NEW a \in Segment
  PROVE  /\ a.first \in Int /\ a.last \in Int
         /\ MinValue <= a.first /\ a.first <= MaxValue
         /\ MinValue <= a.last /\ a.last <= MaxValue
         /\ Span(a) \subseteq Values
         /\ \A v : v \in Span(a) <=> v \in Int /\ a.first <= v /\ v <= a.last
  BY PoolAssumption DEF Segment, Values, Span

\* Segments that have values are apart exactly when they share none.
LEMMA ApartIs ==
  ASSUME NEW a \in Segment, NEW b \in Segment, a.first <= a.last, b.first <= b.last
  PROVE  Apart(a, b) <=> Span(a) \cap Span(b) = {}
<1>1. /\ a.first \in Int /\ a.last \in Int /\ b.first \in Int /\ b.last \in Int
  BY SegmentIs
<1>2. Apart(a, b) => Span(a) \cap Span(b) = {}
  BY <1>1 DEF Apart, Span
<1>3. ~Apart(a, b) => a.first \in Span(a) \cap Span(b) \/ b.first \in Span(a) \cap Span(b)
  BY <1>1 DEF Apart, Span
<1> QED
  BY <1>2, <1>3

\* The values on a list, one by one.
LEMMA FreeHas ==
  ASSUME NEW s, NEW v
  PROVE  v \in FreeOf(s) <=> \E i \in DOMAIN s : v \in Span(s[i])
  BY DEF FreeOf

\* The segments of a good list.
LEMMA GoodHas ==
  ASSUME NEW s, Good(s)
  PROVE  /\ s \in Seq(Segment) /\ DOMAIN s = 1..Len(s) /\ Len(s) \in Nat
         /\ \A i \in DOMAIN s : s[i] \in Segment /\ s[i].first <= s[i].last
         /\ \A i, j \in DOMAIN s : i # j => Apart(s[i], s[j])
         /\ \A i \in DOMAIN s : Span(s[i]) \subseteq FreeOf(s)
         /\ FreeOf(s) \subseteq Values
<1>1. s \in Seq(Segment)
  BY DEF Good
<1>2. \A i \in DOMAIN s : s[i] \in Segment
  BY <1>1
<1>3. \A i \in DOMAIN s : Span(s[i]) \subseteq Values
  BY <1>2, SegmentIs
<1> QED
  BY <1>1, <1>2, <1>3 DEF Good, FreeOf

\* What a concatenation is.
LEMMA ConcatIs ==
  ASSUME NEW S, NEW a \in Seq(S), NEW b \in Seq(S)
  PROVE  /\ a \o b \in Seq(S) /\ Len(a \o b) = Len(a) + Len(b)
         /\ Len(a) \in Nat /\ Len(b) \in Nat
         /\ DOMAIN (a \o b) = 1..(Len(a) + Len(b))
         /\ \A j \in 1..(Len(a) + Len(b)) :
              (a \o b)[j] = IF j <= Len(a) THEN a[j] ELSE b[j - Len(a)]
  OBVIOUS

\* What RemoveAt of a sequence is.
LEMMA RemoveAtIs ==
  ASSUME NEW S, NEW s \in Seq(S), NEW i \in 1..Len(s)
  PROVE  /\ RemoveAt(s, i) \in Seq(S) /\ Len(RemoveAt(s, i)) = Len(s) - 1
         /\ DOMAIN RemoveAt(s, i) = 1..(Len(s) - 1)
         /\ \A j \in 1..(Len(s) - 1) : RemoveAt(s, i)[j] = IF j < i THEN s[j] ELSE s[j + 1]
<1> DEFINE a == SubSeq(s, 1, i - 1)
           b == SubSeq(s, i + 1, Len(s))
<1>1. /\ a \in Seq(S) /\ Len(a) = i - 1 /\ \A j \in 1..(i - 1) : a[j] = s[j]
  OBVIOUS
<1>2. /\ b \in Seq(S) /\ Len(b) = Len(s) - i /\ \A j \in 1..(Len(s) - i) : b[j] = s[i + j]
  OBVIOUS
<1> HIDE DEF a, b
<1>3. /\ a \o b \in Seq(S) /\ Len(a \o b) = Len(a) + Len(b)
      /\ DOMAIN (a \o b) = 1..(Len(a) + Len(b))
      /\ \A j \in 1..(Len(a) + Len(b)) : (a \o b)[j] = IF j <= Len(a) THEN a[j] ELSE b[j - Len(a)]
  BY <1>1, <1>2, ConcatIs
<1>4. RemoveAt(s, i) = a \o b
  BY DEF RemoveAt, a, b
<1>5. Len(a) + Len(b) = Len(s) - 1
  BY <1>1, <1>2
<1>6. ASSUME NEW j \in 1..(Len(s) - 1)
      PROVE  (a \o b)[j] = IF j < i THEN s[j] ELSE s[j + 1]
  <2>1. CASE j < i
    BY <1>1, <1>3, <1>5, <2>1
  <2>2. CASE ~(j < i)
    <3>1. (a \o b)[j] = b[j - (i - 1)] /\ j - (i - 1) \in 1..(Len(s) - i)
      BY <1>1, <1>3, <1>5, <2>2
    <3>2. i + (j - (i - 1)) = j + 1
      OBVIOUS
    <3> QED
      BY <1>2, <2>2, <3>1, <3>2
  <2> QED
    BY <2>1, <2>2
<1> QED
  BY <1>3, <1>4, <1>5, <1>6

\* What InsertAt of a sequence is.
LEMMA InsertAtIs ==
  ASSUME NEW S, NEW s \in Seq(S), NEW e \in S, NEW i \in 1..(Len(s) + 1)
  PROVE  /\ InsertAt(s, i, e) \in Seq(S) /\ Len(InsertAt(s, i, e)) = Len(s) + 1
         /\ DOMAIN InsertAt(s, i, e) = 1..(Len(s) + 1)
         /\ \A j \in 1..(Len(s) + 1) :
              InsertAt(s, i, e)[j] = IF j < i THEN s[j] ELSE IF j = i THEN e ELSE s[j - 1]
<1> DEFINE a == SubSeq(s, 1, i - 1)
           b == SubSeq(s, i, Len(s))
           c == a \o <<e>>
<1>1. /\ a \in Seq(S) /\ Len(a) = i - 1 /\ \A j \in 1..(i - 1) : a[j] = s[j]
  OBVIOUS
<1>2. /\ b \in Seq(S) /\ Len(b) = Len(s) - i + 1
      /\ \A j \in 1..(Len(s) - i + 1) : b[j] = s[i + j - 1]
  OBVIOUS
<1>3. /\ c \in Seq(S) /\ Len(c) = i /\ c[i] = e /\ \A j \in 1..(i - 1) : c[j] = s[j]
  <2> HIDE DEF a
  <2>1. /\ c \in Seq(S) /\ Len(c) = Len(a) + 1
        /\ \A j \in 1..(Len(a) + 1) : c[j] = IF j <= Len(a) THEN a[j] ELSE e
    BY <1>1
  <2> HIDE DEF c
  <2> QED
    BY <1>1, <2>1
<1>4. InsertAt(s, i, e) = c \o b
  BY DEF InsertAt
<1> HIDE DEF a, b, c
<1>5. /\ c \o b \in Seq(S) /\ Len(c \o b) = Len(c) + Len(b)
      /\ DOMAIN (c \o b) = 1..(Len(c) + Len(b))
      /\ \A j \in 1..(Len(c) + Len(b)) : (c \o b)[j] = IF j <= Len(c) THEN c[j] ELSE b[j - Len(c)]
  BY <1>2, <1>3, ConcatIs
<1>6. Len(c) + Len(b) = Len(s) + 1
  BY <1>2, <1>3
<1>7. ASSUME NEW j \in 1..(Len(s) + 1)
      PROVE  (c \o b)[j] = IF j < i THEN s[j] ELSE IF j = i THEN e ELSE s[j - 1]
  <2>1. CASE j <= i
    BY <1>3, <1>5, <1>6, <2>1
  <2>2. CASE ~(j <= i)
    <3>1. (c \o b)[j] = b[j - i] /\ j - i \in 1..(Len(s) - i + 1)
      BY <1>3, <1>5, <1>6, <2>2
    <3>2. i + (j - i) - 1 = j - 1
      OBVIOUS
    <3> QED
      BY <1>2, <2>2, <3>1, <3>2
  <2> QED
    BY <2>1, <2>2
<1> QED
  BY <1>4, <1>5, <1>6, <1>7

\* A segment is unlinked.
LEMMA GoodRemove ==
  ASSUME NEW s, Good(s), NEW i \in DOMAIN s
  PROVE  Good(RemoveAt(s, i)) /\ FreeOf(RemoveAt(s, i)) = FreeOf(s) \ Span(s[i])
<1> DEFINE t == RemoveAt(s, i)
<1>1. /\ s \in Seq(Segment) /\ DOMAIN s = 1..Len(s) /\ Len(s) \in Nat
      /\ \A j \in DOMAIN s : s[j] \in Segment /\ s[j].first <= s[j].last
      /\ \A j, k \in DOMAIN s : j # k => Apart(s[j], s[k])
  BY GoodHas
<1>2. /\ t \in Seq(Segment) /\ DOMAIN t = 1..(Len(s) - 1)
      /\ \A j \in DOMAIN t : t[j] = IF j < i THEN s[j] ELSE s[j + 1]
  BY <1>1, RemoveAtIs
<1> HIDE DEF t
<1>3. Good(t)
  <2>1. \A j \in DOMAIN t : t[j].first <= t[j].last
    BY <1>1, <1>2
  <2>2. ASSUME NEW j \in DOMAIN t, NEW k \in DOMAIN t, j # k PROVE Apart(t[j], t[k])
    <3> DEFINE m(x) == IF x < i THEN x ELSE x + 1
    <3>1. m(j) \in DOMAIN s /\ m(k) \in DOMAIN s /\ m(j) # m(k)
      BY <1>1, <1>2, <2>2
    <3>2. t[j] = s[m(j)] /\ t[k] = s[m(k)]
      BY <1>2
    <3> QED
      BY <1>1, <3>1, <3>2
  <2> QED
    BY <1>2, <2>1, <2>2 DEF Good
<1>4. ASSUME NEW v PROVE v \in FreeOf(t) <=> v \in FreeOf(s) /\ v \notin Span(s[i])
  <2>1. ASSUME NEW j \in DOMAIN t, v \in Span(t[j])
        PROVE  v \in FreeOf(s) /\ v \notin Span(s[i])
    <3> DEFINE k == IF j < i THEN j ELSE j + 1
    <3>1. k \in DOMAIN s /\ k # i /\ v \in Span(s[k])
      BY <1>1, <1>2, <2>1
    <3>2. Span(s[k]) \cap Span(s[i]) = {}
      BY <1>1, <3>1, ApartIs
    <3> QED
      BY <3>1, <3>2, FreeHas
  <2>2. ASSUME NEW k \in DOMAIN s, v \in Span(s[k]), v \notin Span(s[i]) PROVE v \in FreeOf(t)
    <3> DEFINE j == IF k < i THEN k ELSE k - 1
    <3>1. k # i
      BY <2>2
    <3>2. j \in DOMAIN t /\ t[j] = s[k]
      <4>1. CASE k < i
        <5>1. j \in DOMAIN t /\ j < i /\ j = k
          BY <1>1, <1>2, <4>1
        <5> QED
          BY <1>2, <5>1
      <4>2. CASE ~(k < i)
        <5>1. j \in DOMAIN t /\ ~(j < i) /\ j + 1 = k
          BY <1>1, <1>2, <3>1, <4>2
        <5> QED
          BY <1>2, <5>1
      <4> QED
        BY <4>1, <4>2
    <3> QED
      BY <2>2, <3>2, FreeHas
  <2> QED
    BY <2>1, <2>2, FreeHas
<1> QED
  BY <1>3, <1>4 DEF t

\* A segment is inserted.
LEMMA GoodInsert ==
  ASSUME NEW s, Good(s), NEW i \in 1..(Len(s) + 1), NEW e \in Segment, e.first <= e.last,
         \A j \in DOMAIN s : Apart(e, s[j])
  PROVE  Good(InsertAt(s, i, e)) /\ FreeOf(InsertAt(s, i, e)) = FreeOf(s) \cup Span(e)
<1> DEFINE t == InsertAt(s, i, e)
<1>1. /\ s \in Seq(Segment) /\ DOMAIN s = 1..Len(s) /\ Len(s) \in Nat
      /\ \A j \in DOMAIN s : s[j] \in Segment /\ s[j].first <= s[j].last
      /\ \A j, k \in DOMAIN s : j # k => Apart(s[j], s[k])
  BY GoodHas
<1>2. /\ t \in Seq(Segment) /\ DOMAIN t = 1..(Len(s) + 1)
      /\ \A j \in DOMAIN t : t[j] = IF j < i THEN s[j] ELSE IF j = i THEN e ELSE s[j - 1]
  <2>1. /\ t \in Seq(Segment) /\ DOMAIN t = 1..(Len(s) + 1)
        /\ \A j \in 1..(Len(s) + 1) :
             t[j] = IF j < i THEN s[j] ELSE IF j = i THEN e ELSE s[j - 1]
    BY <1>1, InsertAtIs
  <2> QED
    BY <2>1
<1> HIDE DEF t
<1> DEFINE m(x) == IF x < i THEN x ELSE x - 1
<1>3. /\ \A j \in DOMAIN t : j # i => m(j) \in DOMAIN s /\ t[j] = s[m(j)]
      /\ t[i] = e /\ i \in DOMAIN t
      /\ \A j, k \in DOMAIN t : j # i /\ k # i /\ j # k => m(j) # m(k)
  BY <1>1, <1>2
<1>4. \A k \in DOMAIN s : \E j \in DOMAIN t : t[j] = s[k]
  <2> SUFFICES ASSUME NEW k \in DOMAIN s PROVE \E j \in DOMAIN t : t[j] = s[k]
    OBVIOUS
  <2>1. CASE k < i
    BY <1>1, <1>2, <2>1
  <2>2. CASE k >= i
    <3>1. k + 1 \in DOMAIN t /\ t[k + 1] = s[k]
      BY <1>1, <1>2, <2>2
    <3> QED
      BY <3>1
  <2> QED
    BY <1>1, <2>1, <2>2
<1> HIDE DEF m
<1>5. Good(t)
  <2>1. \A j \in DOMAIN t : t[j].first <= t[j].last
    BY <1>1, <1>3
  <2>2. ASSUME NEW j \in DOMAIN t, NEW k \in DOMAIN t, j # k PROVE Apart(t[j], t[k])
    <3>1. CASE j = i \/ k = i
      BY <1>3, <2>2, <3>1 DEF Apart
    <3>2. CASE j # i /\ k # i
      BY <1>1, <1>3, <2>2, <3>2
    <3> QED
      BY <3>1, <3>2
  <2> QED
    BY <1>2, <2>1, <2>2 DEF Good
<1>6. ASSUME NEW v PROVE v \in FreeOf(t) <=> v \in FreeOf(s) \/ v \in Span(e)
  BY <1>3, <1>4, FreeHas
<1> QED
  BY <1>5, <1>6 DEF t

\* An element of a sequence changes.
LEMMA ReplaceIs ==
  ASSUME NEW S, NEW s \in Seq(S), NEW i \in DOMAIN s, NEW e \in S, NEW t, t = [s EXCEPT ![i] = e]
  PROVE  /\ t \in Seq(S) /\ Len(t) = Len(s) /\ DOMAIN t = DOMAIN s /\ t[i] = e
         /\ \A j \in DOMAIN s : j # i => t[j] = s[j]
  OBVIOUS

\* A segment changes.
LEMMA GoodReplace ==
  ASSUME NEW s, Good(s), NEW i \in DOMAIN s, NEW e \in Segment, e.first <= e.last,
         \A j \in DOMAIN s : j # i => Apart(e, s[j]),
         NEW t \in Seq(Segment), DOMAIN t = DOMAIN s, t[i] = e,
         \A j \in DOMAIN s : j # i => t[j] = s[j]
  PROVE  Good(t) /\ FreeOf(t) = (FreeOf(s) \ Span(s[i])) \cup Span(e)
<1>1. /\ s \in Seq(Segment) /\ DOMAIN s = 1..Len(s) /\ Len(s) \in Nat
      /\ \A j \in DOMAIN s : s[j] \in Segment /\ s[j].first <= s[j].last
      /\ \A j, k \in DOMAIN s : j # k => Apart(s[j], s[k])
  BY GoodHas
<1>2. \A j \in DOMAIN s : t[j] = IF j = i THEN e ELSE s[j]
  OBVIOUS
<1>3. Good(t)
  <2>1. \A j \in DOMAIN t : t[j].first <= t[j].last
    BY <1>1, <1>2
  <2>2. ASSUME NEW j \in DOMAIN t, NEW k \in DOMAIN t, j # k PROVE Apart(t[j], t[k])
    BY <1>1, <1>2, <2>2 DEF Apart
  <2> QED
    BY <1>2, <2>1, <2>2 DEF Good
<1>4. \A j \in DOMAIN s : j # i => Span(s[j]) \cap Span(s[i]) = {}
  BY <1>1, ApartIs
<1>5. ASSUME NEW v PROVE v \in FreeOf(t) <=> (v \in FreeOf(s) /\ v \notin Span(s[i])) \/ v \in Span(e)
  BY <1>2, <1>4, FreeHas
<1> QED
  BY <1>3, <1>5

-----------------------------------------------------------------------------
(* What the list operations do to the free values *)

\* Use takes exactly the value out.
LEMMA TakenOut ==
  ASSUME NEW s, Good(s), NEW i \in DOMAIN s, NEW v \in Span(s[i])
  PROVE  Good(TakeOut(s, i, v)) /\ FreeOf(TakeOut(s, i, v)) = FreeOf(s) \ {v}
<1> DEFINE a == s[i].first
           b == s[i].last
<1>1. /\ DOMAIN s = 1..Len(s) /\ Len(s) \in Nat /\ s \in Seq(Segment)
      /\ \A j \in DOMAIN s : s[j] \in Segment /\ s[j].first <= s[j].last
      /\ \A j, k \in DOMAIN s : j # k => Apart(s[j], s[k])
      /\ Span(s[i]) \subseteq FreeOf(s)
  BY GoodHas
<1>2. /\ a \in Int /\ b \in Int /\ v \in Int /\ a <= v /\ v <= b
      /\ a \in Values /\ b \in Values /\ v \in Values /\ Span(s[i]) = a..b
      /\ s[i] = [first |-> a, last |-> b]
  <2>1. s[i] \in Segment
    BY <1>1
  <2> QED
    BY <2>1, SegmentIs DEF Segment, Span
<1>3. \A j \in DOMAIN s : s[j].first \in Int /\ s[j].last \in Int
  BY <1>1, SegmentIs
<1>4. \A w \in a..b : w \in Values
  BY <1>2, PoolAssumption DEF Values
<1>5. ASSUME NEW c \in Values, NEW d \in Values, a <= c, c <= d, d <= b,
             NEW e, e = [first |-> c, last |-> d], NEW t \in Seq(Segment),
             DOMAIN t = DOMAIN s, t[i] = e, \A j \in DOMAIN s : j # i => t[j] = s[j]
      PROVE  /\ e \in Segment /\ e.first = c /\ e.last = d /\ Span(e) = c..d
             /\ \A j \in DOMAIN s : j # i => Apart(e, s[j])
             /\ Good(t) /\ FreeOf(t) = (FreeOf(s) \ (a..b)) \cup (c..d)
  <2>1. e \in Segment /\ e.first = c /\ e.last = d /\ Span(e) = c..d
    BY <1>5 DEF Segment, Span
  <2>2. c \in Int /\ d \in Int
    BY DEF Values
  <2>3. \A j \in DOMAIN s : j # i => Apart(e, s[j])
    <3> SUFFICES ASSUME NEW j \in DOMAIN s, j # i PROVE Apart(e, s[j])
      OBVIOUS
    <3>1. Apart(s[i], s[j])
      BY <1>1
    <3> QED
      BY <1>2, <1>3, <1>5, <2>1, <2>2, <3>1 DEF Apart
  <2>4. Good(t) /\ FreeOf(t) = (FreeOf(s) \ Span(s[i])) \cup Span(e)
    <3>1. e.first <= e.last
      BY <1>5, <2>1
    <3>2. e \in Segment
      BY <2>1
    <3>3. DOMAIN t = DOMAIN s /\ t[i] = e /\ \A j \in DOMAIN s : j # i => t[j] = s[j]
      BY <1>5
    <3> QED
      BY <2>3, <3>1, <3>2, <3>3, GoodReplace
  <2> QED
    BY <1>2, <2>1, <2>3, <2>4
<1>6. (a..b) \subseteq FreeOf(s)
  BY <1>1, <1>2
<1> HIDE DEF a, b
<1>7. CASE Span(s[i]) = {v}
  <2>1. a = v /\ b = v
    <3>1. a \in a..b /\ b \in a..b
      BY <1>2
    <3> QED
      BY <1>2, <1>7, <3>1
  <2>2. TakeOut(s, i, v) = RemoveAt(s, i)
    BY <1>7, <2>1 DEF TakeOut, a, b
  <2> QED
    BY <1>7, <2>2, GoodRemove
<1>8. CASE Span(s[i]) # {v} /\ v = a
  <2> DEFINE e == [first |-> a + 1, last |-> b]
             t == [s EXCEPT ![i] = e]
  <2>1. a # b
    BY <1>2, <1>8
  <2>2. a + 1 \in Values /\ a + 1 <= b /\ a <= a + 1
    BY <1>2, <1>4, <2>1
  <2>3. TakeOut(s, i, v) = t
    <3>1. TakeOut(s, i, v) = [s EXCEPT ![i].first = v + 1]
      BY <1>8, <2>1 DEF TakeOut, a, b
    <3>2. [s[i] EXCEPT !.first = v + 1] = e
      BY <1>2, <1>8
    <3> QED
      BY <3>1, <3>2
  <2>4. Good(t) /\ FreeOf(t) = (FreeOf(s) \ (a..b)) \cup ((a + 1)..b)
    <3>1. e \in Segment
      BY <1>2, <2>2 DEF Segment
    <3>2. /\ t \in Seq(Segment) /\ DOMAIN t = DOMAIN s /\ t[i] = e
          /\ \A j \in DOMAIN s : j # i => t[j] = s[j]
      <4> HIDE DEF e
      <4> QED
        BY <1>1, <3>1
    <3> HIDE DEF t
    <3> QED
      BY <1>2, <1>5, <2>2, <3>2
  <2>5. (FreeOf(s) \ (a..b)) \cup ((a + 1)..b) = FreeOf(s) \ {v}
    BY <1>2, <1>6, <1>8
  <2> QED
    BY <2>3, <2>4, <2>5
<1>9. CASE v # a /\ v = b
  <2> DEFINE e == [first |-> a, last |-> b - 1]
             t == [s EXCEPT ![i] = e]
  <2>1. a # b /\ Span(s[i]) # {v}
    <3>1. a \in a..b
      BY <1>2
    <3> QED
      BY <1>2, <1>9, <3>1
  <2>2. b - 1 \in Values /\ a <= b - 1 /\ b - 1 <= b
    BY <1>2, <1>4, <2>1
  <2>3. TakeOut(s, i, v) = t
    <3>1. TakeOut(s, i, v) = [s EXCEPT ![i].last = v - 1]
      BY <1>9, <2>1 DEF TakeOut, a, b
    <3>2. [s[i] EXCEPT !.last = v - 1] = e
      BY <1>2, <1>9
    <3> QED
      BY <3>1, <3>2
  <2>4. Good(t) /\ FreeOf(t) = (FreeOf(s) \ (a..b)) \cup (a..(b - 1))
    <3>1. e \in Segment
      BY <1>2, <2>2 DEF Segment
    <3>2. /\ t \in Seq(Segment) /\ DOMAIN t = DOMAIN s /\ t[i] = e
          /\ \A j \in DOMAIN s : j # i => t[j] = s[j]
      <4> HIDE DEF e
      <4> QED
        BY <1>1, <3>1
    <3> HIDE DEF t
    <3> QED
      BY <1>2, <1>5, <2>2, <3>2
  <2>5. (FreeOf(s) \ (a..b)) \cup (a..(b - 1)) = FreeOf(s) \ {v}
    BY <1>2, <1>6, <1>9
  <2> QED
    BY <2>3, <2>4, <2>5
<1>10. CASE v # a /\ v # b
  <2> DEFINE f == [first |-> a, last |-> v - 1]
             t == [s EXCEPT ![i] = f]
             e == [first |-> v + 1, last |-> b]
  <2>1. Span(s[i]) # {v}
    <3>1. a \in a..b
      BY <1>2
    <3> QED
      BY <1>2, <1>10, <3>1
  <2>2. a <= v - 1 /\ v - 1 <= b /\ a <= v + 1 /\ v + 1 <= b
    BY <1>2, <1>10
  <2>3. v - 1 \in Values /\ v + 1 \in Values
    <3>1. v - 1 \in a..b /\ v + 1 \in a..b
      BY <1>2, <2>2
    <3> QED
      BY <1>4, <3>1
  <2>4. TakeOut(s, i, v) = InsertAt(t, i + 1, e)
    <3>1. TakeOut(s, i, v) = InsertAt([s EXCEPT ![i].last = v - 1], i + 1, e)
      BY <1>10, <2>1 DEF TakeOut, a, b
    <3>2. [s[i] EXCEPT !.last = v - 1] = f
      BY <1>2
    <3> HIDE DEF e
    <3> QED
      BY <3>1, <3>2
  <2>5. /\ f.last = v - 1
        /\ Good(t) /\ FreeOf(t) = (FreeOf(s) \ (a..b)) \cup (a..(v - 1))
    <3>1. f \in Segment
      BY <1>2, <2>3 DEF Segment
    <3>2. /\ t \in Seq(Segment) /\ DOMAIN t = DOMAIN s /\ t[i] = f
          /\ \A j \in DOMAIN s : j # i => t[j] = s[j]
      <4> HIDE DEF f
      <4> QED
        BY <1>1, <3>1
    <3> HIDE DEF t
    <3> QED
      BY <1>2, <1>5, <2>2, <2>3, <3>2
  <2>6. /\ e \in Segment /\ e.first = v + 1 /\ e.last = b /\ Span(e) = (v + 1)..b
        /\ \A j \in DOMAIN s : j # i => Apart(e, s[j])
    <3> DEFINE u == [s EXCEPT ![i] = e]
    <3> HIDE DEF t, f
    <3>1. e \in Segment
      BY <1>2, <2>3 DEF Segment
    <3>2. /\ u \in Seq(Segment) /\ DOMAIN u = DOMAIN s /\ u[i] = e
          /\ \A j \in DOMAIN s : j # i => u[j] = s[j]
      <4> HIDE DEF e
      <4> QED
        BY <1>1, <3>1
    <3> HIDE DEF u
    <3> QED
      BY <1>2, <1>5, <2>2, <2>3, <3>2
  <2> HIDE DEF e, f
  <2>7. /\ DOMAIN t = DOMAIN s /\ Len(t) = Len(s)
        /\ \A j \in DOMAIN t : t[j] = IF j = i THEN f ELSE s[j]
    BY <1>1
  <2> HIDE DEF t
  <2>8. \A j \in DOMAIN t : Apart(e, t[j])
    <3>1. Apart(e, f)
      BY <1>2, <2>5, <2>6 DEF Apart
    <3> QED
      BY <2>6, <2>7, <3>1
  <2>9. i + 1 \in 1..(Len(t) + 1) /\ e.first <= e.last
    BY <1>1, <1>2, <2>2, <2>6, <2>7
  <2>10. /\ Good(InsertAt(t, i + 1, e))
         /\ FreeOf(InsertAt(t, i + 1, e)) = FreeOf(t) \cup Span(e)
    BY <2>5, <2>6, <2>8, <2>9, GoodInsert
  <2>11. ((FreeOf(s) \ (a..b)) \cup (a..(v - 1))) \cup ((v + 1)..b) = FreeOf(s) \ {v}
    BY <1>2, <1>6
  <2> QED
    BY <2>4, <2>5, <2>6, <2>10, <2>11
<1> QED
  BY <1>7, <1>8, <1>9, <1>10

\* A segment grows by the value behind it, and is joined with the next one.
LEMMA Extended ==
  ASSUME NEW s, Good(s), NEW i \in DOMAIN s, NEW v \in Values \ FreeOf(s), v = s[i].last + 1
  PROVE  /\ Good(ExtendLast(s, i)) /\ FreeOf(ExtendLast(s, i)) = FreeOf(s) \cup {v}
         /\ DOMAIN ExtendLast(s, i) # {}
         /\ \A j \in 1..i : j \in DOMAIN ExtendLast(s, i) /\ ExtendLast(s, i)[j].first = s[j].first
<1> DEFINE a == s[i].first
           b == s[i].last
<1>1. /\ DOMAIN s = 1..Len(s) /\ Len(s) \in Nat /\ s \in Seq(Segment)
      /\ \A j \in DOMAIN s : s[j] \in Segment /\ s[j].first <= s[j].last
      /\ \A j, k \in DOMAIN s : j # k => Apart(s[j], s[k])
      /\ \A j \in DOMAIN s : Span(s[j]) \subseteq FreeOf(s)
  BY GoodHas
<1>2. /\ \A j \in DOMAIN s : s[j].first \in Int /\ s[j].last \in Int /\ s[j].last \in Values
      /\ s[i] = [first |-> a, last |-> b] /\ a \in Values /\ v \in Int /\ Span(s[i]) = a..b
  <2>1. s[i] \in Segment /\ \A j \in DOMAIN s : s[j] \in Segment
    BY <1>1
  <2> QED
    BY <2>1, SegmentIs DEF Segment, Span, Values
<1>3. \A j \in DOMAIN s : v < s[j].first \/ s[j].last < v
  <2> SUFFICES ASSUME NEW j \in DOMAIN s, s[j].first <= v, v <= s[j].last PROVE FALSE
    BY <1>2
  <2>1. v \in Span(s[j])
    BY <1>2 DEF Span
  <2> QED
    BY <1>1, <2>1
<1>4. CASE i < Len(s) /\ b + 2 = s[i + 1].first
  <2> DEFINE t == RemoveAt(s, i + 1)
             d == s[i + 1].last
             e == [first |-> a, last |-> d]
  <2>1. i + 1 \in DOMAIN s
    BY <1>1, <1>4
  <2>2. Good(t) /\ FreeOf(t) = FreeOf(s) \ Span(s[i + 1])
    BY <2>1, GoodRemove
  <2>3. /\ t \in Seq(Segment) /\ DOMAIN t = 1..(Len(s) - 1)
        /\ \A j \in 1..(Len(s) - 1) : t[j] = IF j < i + 1 THEN s[j] ELSE s[j + 1]
    BY <1>1, <2>1, RemoveAtIs
  <2>4. i \in DOMAIN t /\ t[i] = s[i]
    BY <1>1, <1>4, <2>3
  <2>5. d \in Values /\ d \in Int /\ v + 1 = s[i + 1].first /\ v + 1 <= d /\ a <= b /\ v = b + 1
        /\ Span(s[i + 1]) = (v + 1)..d
    BY <1>1, <1>2, <1>4, <2>1 DEF Span
  <2>6. ExtendLast(s, i) = [t EXCEPT ![i] = e]
    <3>1. ExtendLast(s, i) = [t EXCEPT ![i].last = d]
      BY <1>4 DEF ExtendLast
    <3>2. [t[i] EXCEPT !.last = d] = e
      BY <1>2, <2>4
    <3> HIDE DEF t, e
    <3> QED
      BY <3>1, <3>2
  <2>7. e \in Segment /\ e.first = a /\ e.last = d /\ e.first <= e.last /\ Span(e) = a..d
    BY <1>2, <2>5 DEF Segment, Span
  <2> HIDE DEF t, e, d
  <2>8. \A k \in DOMAIN s : k # i /\ k # i + 1 => Apart(e, s[k])
    <3> SUFFICES ASSUME NEW k \in DOMAIN s, k # i, k # i + 1 PROVE Apart(e, s[k])
      OBVIOUS
    <3>1. Apart(s[k], s[i]) /\ Apart(s[k], s[i + 1])
      BY <1>1, <2>1
    <3>2. s[k].first <= s[k].last /\ (v < s[k].first \/ s[k].last < v)
      BY <1>1, <1>3
    <3> QED
      BY <1>2, <2>1, <2>5, <2>7, <3>1, <3>2 DEF Apart, d
  <2>9. \A j \in DOMAIN t : j # i => Apart(e, t[j])
    <3> SUFFICES ASSUME NEW j \in DOMAIN t, j # i PROVE Apart(e, t[j])
      OBVIOUS
    <3>1. CASE j < i + 1
      BY <1>1, <2>3, <2>8, <3>1
    <3>2. CASE ~(j < i + 1)
      <4>1. j + 1 \in DOMAIN s /\ j + 1 # i /\ j + 1 # i + 1 /\ t[j] = s[j + 1]
        BY <1>1, <2>3, <3>2
      <4> QED
        BY <2>8, <4>1
    <3> QED
      BY <3>1, <3>2
  <2>10. /\ Good([t EXCEPT ![i] = e])
         /\ FreeOf([t EXCEPT ![i] = e]) = (FreeOf(t) \ Span(t[i])) \cup Span(e)
    <3> DEFINE u == [t EXCEPT ![i] = e]
    <3>1. /\ u \in Seq(Segment) /\ DOMAIN u = DOMAIN t /\ u[i] = e
          /\ \A j \in DOMAIN t : j # i => u[j] = t[j]
      BY <2>3, <2>4, <2>7
    <3> HIDE DEF u
    <3>2. e \in Segment /\ e.first <= e.last
      BY <2>7
    <3>3. Good(t) /\ i \in DOMAIN t
      BY <2>2, <2>4
    <3>4. Good(u) /\ FreeOf(u) = (FreeOf(t) \ Span(t[i])) \cup Span(e)
      BY <2>9, <3>1, <3>2, <3>3, GoodReplace
    <3> QED
      BY <3>4 DEF u
  <2>11. ((FreeOf(s) \ ((v + 1)..d)) \ (a..b)) \cup (a..d) = FreeOf(s) \cup {v}
    <3>1. (a..b) \subseteq FreeOf(s) /\ ((v + 1)..d) \subseteq FreeOf(s)
      BY <1>1, <1>2, <2>1, <2>5
    <3>2. a..d = (a..b) \cup {v} \cup ((v + 1)..d)
      BY <1>2, <2>5
    <3> QED
      BY <3>1, <3>2
  <2>12. ASSUME NEW j \in 1..i
         PROVE  j \in DOMAIN [t EXCEPT ![i] = e] /\ [t EXCEPT ![i] = e][j].first = s[j].first
    <3>1. j \in DOMAIN t /\ t[j] = s[j]
      BY <1>1, <1>4, <2>3
    <3> QED
      BY <2>4, <2>7, <3>1
  <2>13. FreeOf(ExtendLast(s, i)) = FreeOf(s) \cup {v}
    BY <1>2, <2>2, <2>4, <2>5, <2>6, <2>7, <2>10, <2>11
  <2>14. DOMAIN [t EXCEPT ![i] = e] # {}
    BY <2>4
  <2> QED
    BY <2>6, <2>10, <2>12, <2>13, <2>14
<1>5. CASE ~(i < Len(s) /\ b + 2 = s[i + 1].first)
  <2> DEFINE e == [first |-> a, last |-> v]
  <2>1. a <= b /\ v = b + 1
    BY <1>1
  <2>2. ExtendLast(s, i) = [s EXCEPT ![i] = e]
    <3>1. ExtendLast(s, i) = [s EXCEPT ![i].last = @ + 1]
      BY <1>5 DEF ExtendLast
    <3>2. [s[i] EXCEPT !.last = @ + 1] = e
      BY <1>2, <2>1
    <3> QED
      BY <3>1, <3>2
  <2>3. e \in Segment /\ e.first = a /\ e.last = v /\ e.first <= e.last /\ Span(e) = a..v
    BY <1>2, <2>1 DEF Segment, Span
  <2> HIDE DEF e
  <2>4. \A j \in DOMAIN s : j # i => Apart(e, s[j])
    <3> SUFFICES ASSUME NEW j \in DOMAIN s, j # i PROVE Apart(e, s[j])
      OBVIOUS
    <3>1. Apart(s[j], s[i]) /\ (v < s[j].first \/ s[j].last < v) /\ s[j].first <= s[j].last
      BY <1>1, <1>3
    <3> QED
      BY <1>2, <2>1, <2>3, <3>1 DEF Apart
  <2>5. /\ Good([s EXCEPT ![i] = e])
        /\ FreeOf([s EXCEPT ![i] = e]) = (FreeOf(s) \ Span(s[i])) \cup Span(e)
    <3> DEFINE u == [s EXCEPT ![i] = e]
    <3>1. /\ u \in Seq(Segment) /\ DOMAIN u = DOMAIN s /\ u[i] = e
          /\ \A j \in DOMAIN s : j # i => u[j] = s[j]
      BY <1>1, <2>3, <2>4
    <3> HIDE DEF u
    <3>2. Good(u) /\ FreeOf(u) = (FreeOf(s) \ Span(s[i])) \cup Span(e)
      <4>1. e \in Segment /\ e.first <= e.last
        BY <2>3
      <4> QED
        BY <2>4, <3>1, <4>1, GoodReplace
    <3> QED
      BY <3>2 DEF u
  <2>6. (FreeOf(s) \ (a..b)) \cup (a..v) = FreeOf(s) \cup {v}
    <3>1. (a..b) \subseteq FreeOf(s) /\ a..v = (a..b) \cup {v}
      BY <1>1, <1>2, <2>1
    <3> QED
      BY <3>1
  <2>7. ASSUME NEW j \in 1..i
        PROVE  j \in DOMAIN [s EXCEPT ![i] = e] /\ [s EXCEPT ![i] = e][j].first = s[j].first
    BY <1>1, <2>3
  <2>8. DOMAIN [s EXCEPT ![i] = e] # {}
    BY <1>1
  <2>9. FreeOf(ExtendLast(s, i)) = FreeOf(s) \cup {v}
    BY <1>2, <2>2, <2>3, <2>5, <2>6
  <2> QED
    BY <2>2, <2>5, <2>7, <2>8, <2>9
<1> QED
  BY <1>4, <1>5

\* Free looks up to a segment of the list, or to none.
LEMMA StopIs ==
  ASSUME NEW s, Good(s), NEW v
  PROVE  \/ Stop(s, v) = 0
         \/ Stop(s, v) \in 2..Len(s) /\ v <= s[Stop(s, v)].last + 1
<1> DEFINE near == {i \in 2..Len(s) : v <= s[i].last + 1}
<1>1. near \subseteq Nat
  BY GoodHas
<1>2. CASE near = {}
  BY <1>2 DEF Stop
<1>3. CASE near # {}
  <2>1. Stop(s, v) = Min(near)
    BY <1>3 DEF Stop
  <2>2. Min(near) \in near
    <3> HIDE DEF near
    <3> QED
      BY <1>1, <1>3, MinIsIn
  <2> QED
    BY <2>1, <2>2
<1> QED
  BY <1>2, <1>3

\* Free finds only what is on the list, and puts back exactly the value, never
\* before the values of the head.
LEMMA PutBack ==
  ASSUME NEW s, Good(s), NEW v \in Values \ FreeOf(s)
  PROVE  /\ ~Found(s, v)
         /\ Good(Put(s, v)) /\ FreeOf(Put(s, v)) = FreeOf(s) \cup {v}
         /\ s # <<>> => Put(s, v)[1].first = s[1].first
<1> DEFINE i == Stop(s, v)
           one == Single(v)
<1>1. /\ DOMAIN s = 1..Len(s) /\ Len(s) \in Nat /\ s \in Seq(Segment)
      /\ \A j \in DOMAIN s : s[j] \in Segment /\ s[j].first <= s[j].last
      /\ \A j, k \in DOMAIN s : j # k => Apart(s[j], s[k])
      /\ \A j \in DOMAIN s : Span(s[j]) \subseteq FreeOf(s)
  BY GoodHas
<1>2. /\ \A j \in DOMAIN s : s[j].first \in Int /\ s[j].last \in Int
                            /\ s[j].first \in Values /\ s[j].last \in Values
      /\ v \in Int
  <2>1. \A j \in DOMAIN s : s[j].first \in Values /\ s[j].last \in Values
    BY <1>1 DEF Segment
  <2> QED
    BY <2>1 DEF Values
<1>3. /\ one \in Segment /\ one.first = v /\ one.last = v /\ one.first <= one.last
      /\ Span(one) = {v}
  BY <1>2 DEF Single, Segment, Span
<1> HIDE DEF one
<1>4. \A j \in DOMAIN s : v < s[j].first \/ s[j].last < v
  <2> SUFFICES ASSUME NEW j \in DOMAIN s, s[j].first <= v, v <= s[j].last PROVE FALSE
    BY <1>2
  <2>1. v \in Span(s[j])
    BY <1>2 DEF Span
  <2> QED
    BY <1>1, <2>1
<1>5. \A j \in DOMAIN s : Apart(one, s[j])
  BY <1>3, <1>4 DEF Apart
<1>6. i = 0 \/ (i \in 2..Len(s) /\ v <= s[i].last + 1)
  BY StopIs
<1>7. s # <<>> => 1 \in DOMAIN s
  BY <1>1
<1> HIDE DEF i
<1>8. ~Found(s, v)
  <2>1. \A j \in DOMAIN s : v \notin Span(s[j])
    BY <1>1
  <2>2. i # 0 => i \in DOMAIN s
    BY <1>1, <1>6
  <2> QED
    BY <1>7, <2>1, <2>2 DEF Found, i
<1>9. ASSUME NEW j \in 1..(Len(s) + 1), s # <<>> => j # 1, Put(s, v) = InsertAt(s, j, one)
      PROVE  /\ Good(Put(s, v)) /\ FreeOf(Put(s, v)) = FreeOf(s) \cup {v}
             /\ s # <<>> => Put(s, v)[1].first = s[1].first
  <2>1. Good(Put(s, v)) /\ FreeOf(Put(s, v)) = FreeOf(s) \cup {v}
    BY <1>3, <1>5, <1>9, GoodInsert
  <2>2. ASSUME s # <<>> PROVE Put(s, v)[1].first = s[1].first
    <3>1. \A k \in 1..(Len(s) + 1) :
            InsertAt(s, j, one)[k] = IF k < j THEN s[k] ELSE IF k = j THEN one ELSE s[k - 1]
      BY <1>1, <1>3, InsertAtIs
    <3>2. 1 \in 1..(Len(s) + 1) /\ 1 < j
      BY <1>1, <1>9, <2>2
    <3> QED
      BY <1>9, <3>1, <3>2
  <2> QED
    BY <2>1, <2>2
<1>10. CASE s = <<>>
  <2>1. Put(s, v) = <<one>>
    BY <1>10 DEF Put, one
  <2>2. Len(s) = 0 /\ DOMAIN s = {}
    BY <1>1, <1>10
  <2>3. DOMAIN <<one>> = {1} /\ <<one>>[1] = one /\ <<one>> \in Seq(Segment)
    BY <1>3
  <2>4. Good(<<one>>)
    BY <1>3, <2>3 DEF Good
  <2>5. FreeOf(<<one>>) = {v} /\ FreeOf(s) = {}
    BY <1>3, <2>2, <2>3 DEF FreeOf
  <2> QED
    BY <1>8, <1>10, <2>1, <2>4, <2>5
<1>11. CASE s # <<>> /\ v = s[1].last + 1
  <2>1. Put(s, v) = ExtendLast(s, 1)
    BY <1>11 DEF Put
  <2>2. 1 \in 1..1 /\ 1 \in DOMAIN s
    BY <1>7, <1>11
  <2> QED
    BY <1>8, <1>11, <2>1, <2>2, Extended
<1>12. CASE s # <<>> /\ v # s[1].last + 1 /\ i = 0
  <2>1. Put(s, v) = Append(s, one)
    BY <1>12 DEF Put, i, one
  <2>2. Append(s, one) = InsertAt(s, Len(s) + 1, one)
    <3> DEFINE n == Len(s) + 1
    <3>1. s \in Seq(Segment) /\ one \in Segment /\ n \in 1..(Len(s) + 1)
      BY <1>1, <1>3
    <3>2. /\ InsertAt(s, Len(s) + 1, one) \in Seq(Segment)
          /\ Len(InsertAt(s, Len(s) + 1, one)) = Len(s) + 1
          /\ \A k \in 1..(Len(s) + 1) :
               InsertAt(s, Len(s) + 1, one)[k] =
                 IF k < Len(s) + 1 THEN s[k] ELSE IF k = Len(s) + 1 THEN one ELSE s[k - 1]
      <4> HIDE DEF n
      <4>1. /\ InsertAt(s, n, one) \in Seq(Segment) /\ Len(InsertAt(s, n, one)) = Len(s) + 1
            /\ \A k \in 1..(Len(s) + 1) :
                 InsertAt(s, n, one)[k] = IF k < n THEN s[k] ELSE IF k = n THEN one ELSE s[k - 1]
        BY <3>1, InsertAtIs
      <4> QED
        BY <4>1 DEF n
    <3>3. /\ Append(s, one) \in Seq(Segment) /\ Len(Append(s, one)) = Len(s) + 1
          /\ \A k \in 1..(Len(s) + 1) : Append(s, one)[k] = IF k < Len(s) + 1 THEN s[k] ELSE one
      BY <1>1, <1>3
    <3>4. \A k \in 1..(Len(s) + 1) : Append(s, one)[k] = InsertAt(s, Len(s) + 1, one)[k]
      BY <1>1, <3>2, <3>3
    <3> QED
      BY <3>2, <3>3, <3>4
  <2>3. Len(s) + 1 # 1 /\ Len(s) + 1 \in 1..(Len(s) + 1)
    BY <1>1, <1>7, <1>12
  <2> QED
    BY <1>8, <1>9, <2>1, <2>2, <2>3
<1>13. CASE s # <<>> /\ v # s[1].last + 1 /\ i # 0
  <2>1. /\ i \in DOMAIN s /\ i \in 2..Len(s) /\ i # 1 /\ i \in 1..(Len(s) + 1)
        /\ v <= s[i].last + 1
    BY <1>1, <1>6, <1>13
  <2>2. v < s[i].first - 1 \/ v = s[i].first - 1 \/ v = s[i].last + 1
    BY <1>2, <1>4, <2>1
  <2>3. s[i].first <= s[i].last
    BY <1>1, <2>1
  <2>4. Put(s, v) = CASE v < s[i].first - 1 -> InsertAt(s, i, one)
                      [] v = s[i].first - 1 -> [s EXCEPT ![i].first = v]
                      [] v = s[i].last + 1  -> ExtendLast(s, i)
    BY <1>13 DEF Put, i, one
  <2>5. CASE v < s[i].first - 1
    <3>1. Put(s, v) = InsertAt(s, i, one)
      BY <1>2, <2>1, <2>3, <2>4, <2>5
    <3> QED
      BY <1>8, <1>9, <2>1, <3>1
  <2>6. CASE v = s[i].first - 1
    <3> DEFINE e == [first |-> v, last |-> s[i].last]
    <3>1. Put(s, v) = [s EXCEPT ![i] = e]
      <4>1. Put(s, v) = [s EXCEPT ![i].first = v]
        BY <1>2, <2>1, <2>3, <2>4, <2>6
      <4>2. [s[i] EXCEPT !.first = v] = e
        BY <1>1, <2>1 DEF Segment
      <4> QED
        BY <4>1, <4>2
    <3>2. /\ e \in Segment /\ e.first = v /\ e.last = s[i].last /\ e.first <= e.last
          /\ Span(e) = v..s[i].last
      BY <1>2, <2>1, <2>3, <2>6 DEF Segment, Span
    <3> HIDE DEF e
    <3>3. \A j \in DOMAIN s : j # i => Apart(e, s[j])
      <4> SUFFICES ASSUME NEW j \in DOMAIN s, j # i PROVE Apart(e, s[j])
        OBVIOUS
      <4>1. Apart(s[j], s[i]) /\ (v < s[j].first \/ s[j].last < v) /\ s[j].first <= s[j].last
        BY <1>1, <1>4, <2>1
      <4> QED
        BY <1>2, <2>1, <2>6, <3>2, <4>1 DEF Apart
    <3>4. /\ Good([s EXCEPT ![i] = e])
          /\ FreeOf([s EXCEPT ![i] = e]) = (FreeOf(s) \ Span(s[i])) \cup Span(e)
      <4> DEFINE u == [s EXCEPT ![i] = e]
      <4>1. /\ u \in Seq(Segment) /\ DOMAIN u = DOMAIN s /\ u[i] = e
            /\ \A j \in DOMAIN s : j # i => u[j] = s[j]
        BY <1>1, <2>1, <3>2, <3>3
      <4> HIDE DEF u
      <4>2. Good(u) /\ FreeOf(u) = (FreeOf(s) \ Span(s[i])) \cup Span(e)
        <5>1. e \in Segment /\ e.first <= e.last /\ i \in DOMAIN s
          BY <2>1, <3>2
        <5> QED
          BY <3>3, <4>1, <5>1, GoodReplace
      <4> QED
        BY <4>2 DEF u
    <3>5. Span(s[i]) \subseteq FreeOf(s) /\ Span(e) = Span(s[i]) \cup {v}
      BY <1>1, <1>2, <2>1, <2>3, <2>6, <3>2 DEF Span
    <3>6. Put(s, v)[1].first = s[1].first
      BY <1>7, <1>13, <2>1, <3>1
    <3> QED
      BY <1>8, <3>1, <3>4, <3>5, <3>6
  <2>7. CASE v = s[i].last + 1
    <3>1. Put(s, v) = ExtendLast(s, i)
      BY <1>2, <2>1, <2>3, <2>4, <2>7
    <3>2. 1 \in 1..i
      BY <2>1
    <3> QED
      BY <1>8, <2>1, <2>7, <3>1, <3>2, Extended
  <2> QED
    BY <2>2, <2>5, <2>6, <2>7
<1> QED
  BY <1>10, <1>11, <1>12, <1>13

-----------------------------------------------------------------------------
(* Reserve *)

\* The parts of a segment that CutOut keeps: what is left and right of the range.
LeftOf(g, first) == [first |-> g.first, last |-> Min({g.last, first - 1})]
RightOf(g, last) == [first |-> Max({g.first, last + 1}), last |-> g.last]
Kept(r) == IF r.first <= r.last THEN <<r>> ELSE <<>>
Pieces(g, first, last) == Kept(LeftOf(g, first)) \o Kept(RightOf(g, last))

\* A list is appended to another one.
LEMMA GoodConcat ==
  ASSUME NEW a, NEW b, Good(a), Good(b), FreeOf(a) \cap FreeOf(b) = {}
  PROVE  Good(a \o b) /\ FreeOf(a \o b) = FreeOf(a) \cup FreeOf(b)
<1> DEFINE t == a \o b
<1>1. /\ a \in Seq(Segment) /\ b \in Seq(Segment)
      /\ DOMAIN a = 1..Len(a) /\ Len(a) \in Nat /\ DOMAIN b = 1..Len(b) /\ Len(b) \in Nat
      /\ \A j \in DOMAIN a : /\ a[j] \in Segment /\ a[j].first <= a[j].last
                             /\ Span(a[j]) \subseteq FreeOf(a)
      /\ \A j \in DOMAIN b : /\ b[j] \in Segment /\ b[j].first <= b[j].last
                             /\ Span(b[j]) \subseteq FreeOf(b)
      /\ \A j, k \in DOMAIN a : j # k => Apart(a[j], a[k])
      /\ \A j, k \in DOMAIN b : j # k => Apart(b[j], b[k])
  BY GoodHas
<1>2. /\ t \in Seq(Segment) /\ DOMAIN t = 1..(Len(a) + Len(b))
      /\ \A j \in 1..(Len(a) + Len(b)) : t[j] = IF j <= Len(a) THEN a[j] ELSE b[j - Len(a)]
  BY <1>1, ConcatIs
<1> HIDE DEF t
<1>3. \A j \in DOMAIN t : \/ j \in DOMAIN a /\ t[j] = a[j]
                          \/ j \notin DOMAIN a /\ j - Len(a) \in DOMAIN b /\ t[j] = b[j - Len(a)]
  BY <1>1, <1>2
<1>4. \A j \in DOMAIN a : j \in DOMAIN t /\ t[j] = a[j]
  BY <1>1, <1>2
<1>5. \A j \in DOMAIN b : Len(a) + j \in DOMAIN t /\ t[Len(a) + j] = b[j]
  BY <1>1, <1>2
<1>6. \A j \in DOMAIN a, k \in DOMAIN b : Apart(a[j], b[k]) /\ Apart(b[k], a[j])
  <2> SUFFICES ASSUME NEW j \in DOMAIN a, NEW k \in DOMAIN b PROVE Apart(a[j], b[k])
    BY DEF Apart
  <2>1. Span(a[j]) \cap Span(b[k]) = {}
    BY <1>1
  <2> QED
    BY <1>1, <2>1, ApartIs
<1>7. Good(t)
  <2>1. \A j \in DOMAIN t : t[j].first <= t[j].last
    BY <1>1, <1>3
  <2>2. ASSUME NEW j \in DOMAIN t, NEW k \in DOMAIN t, j # k PROVE Apart(t[j], t[k])
    <3>1. CASE j \in DOMAIN a /\ k \in DOMAIN a
      BY <1>1, <1>4, <2>2, <3>1
    <3>2. CASE j \notin DOMAIN a /\ k \notin DOMAIN a
      <4>1. j - Len(a) # k - Len(a)
        BY <1>1, <1>2, <2>2
      <4> QED
        BY <1>1, <1>3, <3>2, <4>1
    <3>3. CASE ~(j \in DOMAIN a <=> k \in DOMAIN a)
      BY <1>3, <1>6, <3>3
    <3> QED
      BY <3>1, <3>2, <3>3
  <2> QED
    BY <1>2, <2>1, <2>2 DEF Good
<1>8. ASSUME NEW v PROVE v \in FreeOf(t) <=> v \in FreeOf(a) \/ v \in FreeOf(b)
  BY <1>3, <1>4, <1>5, FreeHas
<1> QED
  BY <1>7, <1>8 DEF t

\* A list of one segment, or of none.
LEMMA GoodKept ==
  ASSUME NEW r, r.first \in Int, r.last \in Int, r.first <= r.last => r \in Segment
  PROVE  Good(Kept(r)) /\ FreeOf(Kept(r)) = r.first..r.last
<1>1. CASE r.first <= r.last
  <2>1. Kept(r) = <<r>> /\ r \in Segment
    BY <1>1 DEF Kept
  <2> DEFINE t == <<r>>
  <2>2. DOMAIN t = {1} /\ t[1] = r /\ t \in Seq(Segment)
    BY <2>1
  <2>3. Kept(r) = t
    BY <2>1
  <2> HIDE DEF t
  <2>4. Good(t)
    BY <1>1, <2>2 DEF Good
  <2>5. FreeOf(t) = Span(r)
    BY <2>2 DEF FreeOf
  <2> QED
    BY <2>3, <2>4, <2>5 DEF Span
<1>2. CASE ~(r.first <= r.last)
  <2>1. Kept(r) = <<>> /\ DOMAIN <<>> = {} /\ <<>> \in Seq(Segment) /\ r.first..r.last = {}
    BY <1>2 DEF Kept
  <2> QED
    BY <2>1 DEF Good, FreeOf
<1> QED
  BY <1>1, <1>2

\* A segment keeps what lies outside of the range.
LEMMA PiecesAre ==
  ASSUME NEW g \in Segment, g.first <= g.last, NEW f \in Values, NEW l \in Values, f <= l
  PROVE  Good(Pieces(g, f, l)) /\ FreeOf(Pieces(g, f, l)) = Span(g) \ (f..l)
<1> DEFINE a == g.first
           b == g.last
           c == IF b <= f - 1 THEN b ELSE f - 1
           d == IF a >= l + 1 THEN a ELSE l + 1
           x == LeftOf(g, f)
           y == RightOf(g, l)
<1>1. a \in Values /\ b \in Values /\ a \in Int /\ b \in Int /\ f \in Int /\ l \in Int
      /\ Span(g) = a..b /\ a <= b /\ f <= l
  BY DEF Segment, Values, Span
<1>2. Min({b, f - 1}) = c
  <2>1. c \in {b, f - 1} /\ \A q \in {b, f - 1} : c <= q
    BY <1>1
  <2>2. \A p \in {b, f - 1} : (\A q \in {b, f - 1} : p <= q) => p = c
    BY <1>1
  <2> HIDE DEF c
  <2> QED
    BY <2>1, <2>2 DEF Min
<1>3. Max({a, l + 1}) = d
  <2>1. d \in {a, l + 1} /\ \A q \in {a, l + 1} : d >= q
    BY <1>1
  <2>2. \A p \in {a, l + 1} : (\A q \in {a, l + 1} : p >= q) => p = d
    BY <1>1
  <2> HIDE DEF d
  <2> QED
    BY <2>1, <2>2 DEF Max
<1>4. x = [first |-> a, last |-> c] /\ y = [first |-> d, last |-> b]
  BY <1>2, <1>3 DEF LeftOf, RightOf
<1>5. /\ c \in Int /\ d \in Int /\ c < f /\ l < d
      /\ a <= c => c \in Values
      /\ d <= b => d \in Values
  <2>1. MinValue \in Int /\ MaxValue \in Int
    BY PoolAssumption
  <2> QED
    BY <1>1, <2>1 DEF Values
<1>6. a..b = (a..c) \cup (d..b) \cup ((a..b) \cap (f..l)) /\ (a..c) \cap (d..b) = {}
      /\ ((a..c) \cup (d..b)) \cap (f..l) = {}
  BY <1>1
<1>7. /\ x.first = a /\ x.last = c /\ y.first = d /\ y.last = b
      /\ x.first <= x.last => x \in Segment
      /\ y.first <= y.last => y \in Segment
  BY <1>1, <1>4, <1>5 DEF Segment
<1> HIDE DEF a, b, c, d, x, y
<1>8. Good(Kept(x)) /\ FreeOf(Kept(x)) = a..c /\ Good(Kept(y)) /\ FreeOf(Kept(y)) = d..b
  BY <1>1, <1>5, <1>7, GoodKept
<1>9. Pieces(g, f, l) = Kept(x) \o Kept(y)
  BY DEF Pieces, x, y
<1> DEFINE p == Kept(x)
           q == Kept(y)
<1>10. Good(p) /\ Good(q) /\ FreeOf(p) \cap FreeOf(q) = {}
  BY <1>6, <1>8
<1>11. Pieces(g, f, l) = p \o q /\ FreeOf(p) = a..c /\ FreeOf(q) = d..b
  BY <1>8, <1>9
<1> HIDE DEF p, q
<1>12. Good(p \o q) /\ FreeOf(p \o q) = FreeOf(p) \cup FreeOf(q)
  BY <1>10, GoodConcat
<1> QED
  BY <1>1, <1>6, <1>11, <1>12

\* What FlattenSeq computes, one element after the other.
Flattens(g, q, n) == g = [i \in 1..n |-> IF i = 1 THEN q[i] ELSE g[i - 1] \o q[i]]

\* FlattenSeq's recursion has a solution.
LEMMA FlattenExists == ASSUME NEW q, NEW n \in Nat \ {0} PROVE \E g : Flattens(g, q, n)
<1> DEFINE N == {m \in Nat \ {0} : ~ \E g : Flattens(g, q, m)}
<1> SUFFICES ASSUME N # {} PROVE FALSE
  OBVIOUS
<1>1. PICK m \in N : \A k \in N : m <= k
  <2>1. N \subseteq Nat
    OBVIOUS
  <2> HIDE DEF N
  <2> QED
    BY <2>1, MinIsIn
<1>2. m \in Nat \ {0} /\ ~ \E g : Flattens(g, q, m)
  OBVIOUS
<1>3. CASE m = 1
  <2> DEFINE h == [i \in 1..1 |-> q[i]]
  <2>1. h = [i \in 1..1 |-> IF i = 1 THEN q[i] ELSE h[i - 1] \o q[i]]
    <3>1. \A i \in 1..1 : h[i] = IF i = 1 THEN q[i] ELSE h[i - 1] \o q[i]
      OBVIOUS
    <3> QED
      BY <3>1
  <2>2. Flattens(h, q, 1)
    BY <2>1 DEF Flattens
  <2> QED
    BY <1>2, <1>3, <2>2
<1>4. CASE m # 1
  <2>1. m - 1 \in Nat \ {0} /\ m - 1 \notin N
    BY <1>1, <1>2, <1>4
  <2>2. PICK g : Flattens(g, q, m - 1)
    BY <2>1
  <2>3. g = [i \in 1..(m - 1) |-> IF i = 1 THEN q[i] ELSE g[i - 1] \o q[i]]
    BY <2>2 DEF Flattens
  <2> DEFINE h == [i \in 1..m |-> IF i = m THEN g[m - 1] \o q[m] ELSE g[i]]
  <2>4. ASSUME NEW i \in 1..m PROVE h[i] = IF i = 1 THEN q[i] ELSE h[i - 1] \o q[i]
    <3>1. CASE i = m
      <4>1. m - 1 \in 1..m /\ m - 1 # m
        BY <2>1
      <4>2. h[i] = g[m - 1] \o q[m] /\ h[i - 1] = g[m - 1]
        BY <3>1, <4>1
      <4> QED
        BY <1>4, <3>1, <4>2
    <3>2. CASE i # m
      <4>1. i \in 1..(m - 1) /\ h[i] = g[i]
        BY <1>2, <3>2
      <4>2. g[i] = IF i = 1 THEN q[i] ELSE g[i - 1] \o q[i]
        BY <2>3, <4>1
      <4>3. i # 1 => i - 1 \in 1..m /\ i - 1 # m /\ h[i - 1] = g[i - 1]
        BY <1>2, <4>1
      <4> QED
        BY <4>1, <4>2, <4>3
    <3> QED
      BY <3>1, <3>2
  <2>5. h = [i \in 1..m |-> h[i]]
    OBVIOUS
  <2> HIDE DEF h
  <2>6. Flattens(h, q, m)
    <3>1. [i \in 1..m |-> h[i]] = [i \in 1..m |-> IF i = 1 THEN q[i] ELSE h[i - 1] \o q[i]]
      BY <2>4
    <3> QED
      BY <2>5, <3>1 DEF Flattens
  <2> QED
    BY <1>2, <2>6
<1> QED
  BY <1>3, <1>4

\* Good lists without common values are flattened to a good list of their values.
LEMMA Flattened ==
  ASSUME NEW q, NEW n \in Nat, DOMAIN q = 1..n, Len(q) = n,
         \A j \in 1..n : Good(q[j]),
         \A j, k \in 1..n : j # k => FreeOf(q[j]) \cap FreeOf(q[k]) = {}
  PROVE  /\ n # 0 => Good(FlattenSeq(q))
         /\ n # 0 => FreeOf(FlattenSeq(q)) = UNION {FreeOf(q[j]) : j \in 1..n}
         /\ n = 0 => FlattenSeq(q) = q
<1>1. CASE n = 0
  BY <1>1 DEF FlattenSeq
<1>2. CASE n # 0
  <2> DEFINE g == CHOOSE g : Flattens(g, q, n)
  <2>1. Flattens(g, q, n)
    BY <1>2, FlattenExists
  <2>2. FlattenSeq(q) = g[n]
    BY <1>2 DEF FlattenSeq, Flattens
  <2> HIDE DEF g
  <2>3. \A i \in 1..n : g[i] = IF i = 1 THEN q[i] ELSE g[i - 1] \o q[i]
    BY <2>1 DEF Flattens
  <2> DEFINE Fine(i) == Good(g[i]) /\ FreeOf(g[i]) = UNION {FreeOf(q[j]) : j \in 1..i}
             N == {i \in 1..n : ~Fine(i)}
  <2>4. N = {}
    <3> SUFFICES ASSUME N # {} PROVE FALSE
      OBVIOUS
    <3>1. PICK m \in N : \A k \in N : m <= k
      <4>1. N \subseteq Nat
        OBVIOUS
      <4> HIDE DEF N
      <4> QED
        BY <4>1, MinIsIn
    <3>2. m \in 1..n /\ ~Fine(m)
      OBVIOUS
    <3>3. CASE m = 1
      <4>1. g[1] = q[1] /\ Good(q[1])
        BY <2>3, <3>2, <3>3
      <4>2. UNION {FreeOf(q[j]) : j \in 1..1} = FreeOf(q[1])
        OBVIOUS
      <4> QED
        BY <3>2, <3>3, <4>1, <4>2
    <3>4. CASE m # 1
      <4>1. m - 1 \in 1..n /\ m - 1 \notin N
        BY <3>1, <3>2, <3>4
      <4>2. Good(g[m - 1]) /\ FreeOf(g[m - 1]) = UNION {FreeOf(q[j]) : j \in 1..(m - 1)}
        BY <4>1
      <4>3. FreeOf(g[m - 1]) \cap FreeOf(q[m]) = {}
        <5>1. \A j \in 1..(m - 1) : j \in 1..n /\ j # m
          BY <3>2
        <5>2. \A j \in 1..(m - 1) : FreeOf(q[j]) \cap FreeOf(q[m]) = {}
          BY <3>2, <5>1
        <5> QED
          BY <4>2, <5>2
      <4>4. g[m] = g[m - 1] \o q[m] /\ Good(q[m])
        BY <2>3, <3>2, <3>4
      <4>5. Good(g[m]) /\ FreeOf(g[m]) = FreeOf(g[m - 1]) \cup FreeOf(q[m])
        BY <4>2, <4>3, <4>4, GoodConcat
      <4>6. 1..m = (1..(m - 1)) \cup {m}
        BY <3>2
      <4>7. UNION {FreeOf(q[j]) : j \in 1..m}
              = (UNION {FreeOf(q[j]) : j \in 1..(m - 1)}) \cup FreeOf(q[m])
        BY <4>6
      <4> QED
        BY <3>2, <4>2, <4>5, <4>7
    <3> QED
      BY <3>3, <3>4
  <2>5. n \in 1..n
    BY <1>2
  <2>6. Fine(n)
    BY <2>4, <2>5
  <2> QED
    BY <1>2, <2>2, <2>6
<1> QED
  BY <1>1, <1>2

\* Reserve takes exactly its range off the list.
LEMMA CutOutIs ==
  ASSUME NEW s, Good(s), NEW f \in Values, NEW l \in Values, f <= l
  PROVE  Good(CutOut(s, f, l)) /\ FreeOf(CutOut(s, f, l)) = FreeOf(s) \ (f..l)
<1> DEFINE q == [i \in DOMAIN s |-> Pieces(s[i], f, l)]
           n == Len(s)
<1>1. CutOut(s, f, l) = FlattenSeq(q)
  BY DEF CutOut, Pieces, Kept, LeftOf, RightOf
<1>2. /\ s \in Seq(Segment) /\ DOMAIN s = 1..n /\ n \in Nat
      /\ \A i \in DOMAIN s : s[i] \in Segment /\ s[i].first <= s[i].last
      /\ \A i, j \in DOMAIN s : i # j => Apart(s[i], s[j])
  BY GoodHas
<1>3. DOMAIN q = 1..n /\ Len(q) = n
  BY <1>2
<1>4. \A i \in 1..n : q[i] = Pieces(s[i], f, l)
  BY <1>2
<1> HIDE DEF q, n
<1>5. \A i \in 1..n : Good(q[i]) /\ FreeOf(q[i]) = Span(s[i]) \ (f..l)
  BY <1>2, <1>4, PiecesAre
<1>6. \A i, j \in 1..n : i # j => FreeOf(q[i]) \cap FreeOf(q[j]) = {}
  <2>1. \A i, j \in 1..n : i # j => Span(s[i]) \cap Span(s[j]) = {}
    BY <1>2, ApartIs
  <2> QED
    BY <1>5, <2>1
<1>7. UNION {FreeOf(q[i]) : i \in 1..n} = FreeOf(s) \ (f..l)
  BY <1>2, <1>5 DEF FreeOf
<1>8. CASE n # 0
  BY <1>1, <1>2, <1>3, <1>5, <1>6, <1>7, <1>8, Flattened
<1>9. CASE n = 0
  <2>1. CutOut(s, f, l) = q
    BY <1>1, <1>2, <1>3, <1>5, <1>6, <1>9, Flattened
  <2>2. s = <<>> /\ DOMAIN s = {} /\ DOMAIN q = {}
    BY <1>2, <1>3, <1>9 DEF n
  <2>3. q = s
    BY <2>2 DEF q
  <2>4. FreeOf(s) = {}
    BY <2>2 DEF FreeOf
  <2> QED
    BY <2>1, <2>3, <2>4
<1> QED
  BY <1>8, <1>9

-----------------------------------------------------------------------------
(* The pool *)

\* The inductive invariant: the free list is good, the counter is the number of
\* values on it, and nobody holds a value that is on it.
PoolInv ==
  /\ Good(segs)
  /\ remain = Cardinality(Free)
  /\ Free \cap held = {}
  /\ held \subseteq Values
  /\ serving \in BOOLEAN
  /\ res \in [ok : BOOLEAN, value : Int]

\* The free values are finitely many values of the range.
LEMMA FreeIs ==
  ASSUME PoolInv
  PROVE  /\ Free = FreeOf(segs) /\ Free \subseteq Values /\ IsFiniteSet(Free)
         /\ \A i \in DOMAIN segs : segs[i].first \in Span(segs[i])
         /\ segs = <<>> <=> Free = {}
         /\ segs # <<>> => 1 \in DOMAIN segs
<1>1. Free = FreeOf(segs)
  BY DEF Free, FreeOf
<1>2. /\ segs \in Seq(Segment) /\ DOMAIN segs = 1..Len(segs) /\ Len(segs) \in Nat
      /\ \A i \in DOMAIN segs : segs[i] \in Segment /\ segs[i].first <= segs[i].last
      /\ FreeOf(segs) \subseteq Values
  BY GoodHas DEF PoolInv
<1>3. IsFiniteSet(Values)
  BY PoolAssumption, FS_Interval DEF Values
<1>4. IsFiniteSet(Free)
  BY <1>1, <1>2, <1>3, FS_Subset
<1>5. \A i \in DOMAIN segs : segs[i].first \in Span(segs[i])
  BY <1>2, SegmentIs
<1>6. segs # <<>> => 1 \in DOMAIN segs
  BY <1>2
<1>7. segs = <<>> => Free = {}
  BY <1>1, <1>2, FreeHas
<1>8. segs # <<>> => Free # {}
  BY <1>1, <1>5, <1>6, FreeHas
<1> QED
  BY <1>1, <1>2, <1>4, <1>5, <1>6, <1>7, <1>8

\* The pool starts with its whole range on the list.
LEMMA PoolStarts == ASSUME Init PROVE PoolInv /\ Free = Values
<1> DEFINE e == [first |-> MinValue, last |-> MaxValue]
<1>1. e \in Segment /\ e.first <= e.last /\ Span(e) = Values
  BY PoolAssumption DEF Segment, Values, Span
<1>2. segs = <<e>>
  BY DEF Init
<1> HIDE DEF e
<1>3. DOMAIN segs = {1} /\ segs[1] = e /\ segs \in Seq(Segment)
  BY <1>1, <1>2
<1>4. Good(segs)
  BY <1>1, <1>3 DEF Good
<1>5. Free = Values
  BY <1>1, <1>3 DEF Free
<1>6. Cardinality(Values) = MaxValue - MinValue + 1
  BY PoolAssumption, FS_Interval DEF Values
<1>7. /\ remain = MaxValue - MinValue + 1 /\ serving = FALSE /\ held = {}
      /\ res = [ok |-> TRUE, value |-> 0]
  BY DEF Init
<1>8. Cardinality(Free) = Cardinality(Values)
  BY <1>5
<1>9. remain = Cardinality(Free)
  BY <1>6, <1>7, <1>8
<1>10. serving \in BOOLEAN /\ res \in [ok : BOOLEAN, value : Int]
  <2>1. [ok |-> TRUE, value |-> 0] \in [ok : BOOLEAN, value : Int]
    OBVIOUS
  <2> QED
    BY <1>7, <2>1, Zenon
<1>11. Free \cap held = {} /\ held \subseteq Values
  BY <1>7
<1> QED
  BY <1>4, <1>5, <1>9, <1>10, <1>11 DEF PoolInv

\* Reserve takes its range off the list.
LEMMA ExcludeStep ==
  ASSUME PoolInv, NEW first \in Values, NEW last \in Values, Exclude(first, last)
  PROVE  PoolInv' /\ Free' = Free \ (first..last) /\ res' = res
<1>1. /\ first <= last /\ segs' = CutOut(segs, first, last)
      /\ remain' = remain - Cardinality((first..last) \cap Free)
      /\ serving' = serving /\ held' = held /\ res' = res
  BY DEF Exclude
<1>2. Free = FreeOf(segs) /\ IsFiniteSet(Free)
  BY FreeIs
<1>3. Good(segs)
  BY DEF PoolInv
<1>4. Good(segs') /\ FreeOf(segs') = FreeOf(segs) \ (first..last)
  BY <1>1, <1>3, CutOutIs
<1>5. Free' = Free \ (first..last)
  BY <1>2, <1>4 DEF Free, FreeOf
<1>6. Cardinality(Free') = Cardinality(Free) - Cardinality((first..last) \cap Free)
  <2>1. (first..last) \cap Free = Free \cap (first..last)
    OBVIOUS
  <2>2. Cardinality(Free \ (first..last)) = Cardinality(Free) - Cardinality(Free \cap (first..last))
    BY <1>2, FS_Difference
  <2> QED
    BY <1>5, <2>1, <2>2
<1> QED
  BY <1>1, <1>4, <1>5, <1>6 DEF PoolInv

\* A value is taken off the list and is held from then on.
LEMMA TakeStep ==
  ASSUME PoolInv, NEW i \in DOMAIN segs, NEW v \in Span(segs[i]),
         segs' = TakeOut(segs, i, v), remain' = remain - 1, held' = held \cup {v},
         serving' = TRUE, res' = [ok |-> TRUE, value |-> v]
  PROVE  PoolInv' /\ v \in Free /\ Free' = Free \ {v}
<1>1. Free = FreeOf(segs) /\ IsFiniteSet(Free) /\ Free \subseteq Values
  BY FreeIs
<1>2. Good(segs)
  BY DEF PoolInv
<1>3. Good(segs') /\ FreeOf(segs') = FreeOf(segs) \ {v}
  BY <1>2, TakenOut
<1>4. Free' = Free \ {v}
  BY <1>1, <1>3 DEF Free, FreeOf
<1>5. v \in Free
  BY DEF Free
<1>6. Cardinality(Free \ {v}) = Cardinality(Free) - 1
  BY <1>1, <1>5, FS_RemoveElement
<1>7. v \in Int
  BY <1>1, <1>5 DEF Values
<1> QED
  BY <1>1, <1>3, <1>4, <1>5, <1>6, <1>7 DEF PoolInv

\* Allocate hands out a free value, and fails only when there is none.
LEMMA AllocateStep ==
  ASSUME PoolInv, Allocate
  PROVE  /\ PoolInv'
         /\ \/ Free = {} /\ Free' = Free /\ res' = [ok |-> FALSE, value |-> 0]
            \/ \E v \in Free : Free' = Free \ {v} /\ res' = [ok |-> TRUE, value |-> v]
<1>1. CASE segs = <<>>
  <2>1. /\ segs' = segs /\ remain' = remain /\ held' = held /\ serving' = TRUE
        /\ res' = [ok |-> FALSE, value |-> 0]
    BY <1>1 DEF Allocate
  <2>2. Free = {} /\ Free' = Free
    BY <1>1, <2>1, FreeIs DEF Free
  <2> QED
    BY <2>1, <2>2 DEF PoolInv
<1>2. CASE segs # <<>>
  <2> DEFINE v == segs[1].first
  <2>1. 1 \in DOMAIN segs /\ v \in Span(segs[1])
    BY <1>2, FreeIs
  <2>2. Head(segs).first = v
    <3>1. segs \in Seq(Segment)
      BY DEF PoolInv, Good
    <3> QED
      BY <1>2, <3>1
  <2>3. /\ segs' = TakeOut(segs, 1, v) /\ remain' = remain - 1 /\ held' = held \cup {v}
        /\ serving' = TRUE /\ res' = [ok |-> TRUE, value |-> v]
    BY <1>2, <2>2 DEF Allocate
  <2> HIDE DEF v
  <2>4. PoolInv' /\ v \in Free /\ Free' = Free \ {v}
    BY <2>1, <2>3, TakeStep
  <2> QED
    BY <2>3, <2>4
<1> QED
  BY <1>1, <1>2

\* Use takes a given value if it is free, and fails otherwise.
LEMMA UseStep ==
  ASSUME PoolInv, NEW v \in Int, Use(v)
  PROVE  PoolInv' /\ Free' = Free \ {v} /\ res' = [ok |-> v \in Free, value |-> v]
<1> DEFINE at == {i \in DOMAIN segs : v \in Span(segs[i])}
<1>1. /\ serving' = TRUE /\ res' = [ok |-> at # {}, value |-> v]
      /\ \/ at = {} /\ segs' = segs /\ remain' = remain /\ held' = held
         \/ /\ at # {} /\ segs' = TakeOut(segs, Min(at), v) /\ remain' = remain - 1
            /\ held' = held \cup {v}
  BY DEF Use
<1>2. at # {} <=> v \in Free
  BY DEF Free
<1>3. at # {} => Min(at) \in at
  <2>1. at \subseteq Nat
    BY GoodHas DEF PoolInv
  <2> HIDE DEF at
  <2> QED
    BY <2>1, MinIsIn
<1>4. CASE at = {}
  <2>1. segs' = segs /\ remain' = remain /\ held' = held
    BY <1>1, <1>4
  <2>2. Free' = Free /\ v \notin Free
    BY <1>2, <1>4, <2>1 DEF Free
  <2>3. res' = [ok |-> FALSE, value |-> v]
    BY <1>1, <1>4
  <2>4. Good(segs') /\ remain' = Cardinality(Free') /\ Free' \cap held' = {} /\ held' \subseteq Values
    BY <2>1, <2>2 DEF PoolInv
  <2>5. serving' \in BOOLEAN /\ res' \in [ok : BOOLEAN, value : Int]
    BY <1>1, <2>3
  <2>6. PoolInv'
    BY <2>4, <2>5 DEF PoolInv
  <2>7. (v \in Free) = FALSE /\ Free \ {v} = Free
    BY <2>2
  <2> QED
    BY <2>2, <2>3, <2>6, <2>7, Zenon
<1>5. CASE at # {}
  <2> DEFINE i == Min(at)
  <2>1. i \in DOMAIN segs /\ v \in Span(segs[i])
    BY <1>3, <1>5
  <2>2. /\ segs' = TakeOut(segs, i, v) /\ remain' = remain - 1 /\ held' = held \cup {v}
        /\ serving' = TRUE /\ res' = [ok |-> TRUE, value |-> v]
    BY <1>1, <1>5
  <2> HIDE DEF i, at
  <2>3. PoolInv' /\ v \in Free /\ Free' = Free \ {v}
    BY <2>1, <2>2, TakeStep
  <2> QED
    BY <2>2, <2>3
<1> QED
  BY <1>4, <1>5

\* Free takes back the value its holder returns, behind the head of the list, and
\* refuses a value outside of the range.
LEMMA ReleaseStep ==
  ASSUME PoolInv, ~DuplicateFrees, NEW v \in Freed, Release(v)
  PROVE  /\ PoolInv' /\ v \in MinValue - 1..MaxValue + 1 /\ v \notin Free
         /\ Free' = IF v \in Values THEN Free \cup {v} ELSE Free
         /\ res' = [ok |-> v \in Values, value |-> v]
         /\ (segs # <<>> => segs'[1].first = segs[1].first)
<1>1. /\ Good(segs) /\ Free = FreeOf(segs) /\ IsFiniteSet(Free) /\ Free \subseteq Values
      /\ held \subseteq Values /\ Free \cap held = {}
  BY FreeIs DEF PoolInv
<1>2. /\ serving' = TRUE /\ held' = held \ {v}
      /\ res' = [ok |-> v \in Values /\ ~Found(segs, v), value |-> v]
      /\ \/ res'.ok /\ segs' = Put(segs, v) /\ remain' = remain + 1
         \/ ~res'.ok /\ segs' = segs /\ remain' = remain
  BY DEF Release
<1>3. v \in held \/ v = MinValue - 1 \/ v = MaxValue + 1
  BY DEF Freed
<1>4. v \in MinValue - 1..MaxValue + 1 /\ v \notin Free /\ v \in Int /\ (v \in Values <=> v \in held)
  <2>1. MinValue \in Int /\ MaxValue \in Int /\ MinValue <= MaxValue
    BY PoolAssumption
  <2>2. CASE v \in held
    <3>1. v \in Values /\ v \notin Free
      BY <1>1, <2>2
    <3> QED
      BY <2>1, <2>2, <3>1 DEF Values
  <2>3. CASE v \notin held
    <3>1. v = MinValue - 1 \/ v = MaxValue + 1
      BY <1>3, <2>3
    <3>2. v \in Int /\ v \notin Values /\ v \in MinValue - 1..MaxValue + 1
      BY <2>1, <3>1 DEF Values
    <3> QED
      BY <1>1, <2>3, <3>2
  <2> QED
    BY <2>2, <2>3
<1>5. CASE v \in Values
  <2>1. /\ ~Found(segs, v) /\ Good(Put(segs, v)) /\ FreeOf(Put(segs, v)) = FreeOf(segs) \cup {v}
        /\ segs # <<>> => Put(segs, v)[1].first = segs[1].first
    <3>1. v \in Values \ FreeOf(segs)
      BY <1>1, <1>4, <1>5
    <3> QED
      BY <1>1, <3>1, PutBack
  <2>2. res' = [ok |-> TRUE, value |-> v] /\ segs' = Put(segs, v) /\ remain' = remain + 1
    BY <1>2, <1>5, <2>1
  <2>3. Free' = Free \cup {v}
    BY <1>1, <2>1, <2>2 DEF Free, FreeOf
  <2>4. Cardinality(Free \cup {v}) = Cardinality(Free) + 1
    BY <1>1, <1>4, FS_AddElement
  <2>5. Good(segs') /\ (segs # <<>> => segs'[1].first = segs[1].first)
    BY <2>1, <2>2
  <2>6. Free' \cap held' = {} /\ held' \subseteq Values
    BY <1>1, <1>2, <2>3
  <2>7. PoolInv'
    BY <1>2, <1>4, <2>2, <2>3, <2>4, <2>5, <2>6 DEF PoolInv
  <2> QED
    BY <1>4, <1>5, <2>2, <2>3, <2>5, <2>7
<1>6. CASE v \notin Values
  <2>1. res' = [ok |-> FALSE, value |-> v] /\ segs' = segs /\ remain' = remain
    BY <1>2, <1>6
  <2>2. Free' = Free /\ held' = held
    BY <1>2, <1>4, <1>6, <2>1 DEF Free
  <2>3. PoolInv'
    BY <1>2, <1>4, <2>1, <2>2 DEF PoolInv
  <2>4. Free' = IF v \in Values THEN Free \cup {v} ELSE Free
    BY <1>6, <2>2
  <2>5. res' = [ok |-> v \in Values, value |-> v]
    <3>1. (v \in Values) = FALSE
      BY <1>6
    <3> QED
      BY <2>1, <3>1, Zenon
  <2>6. segs # <<>> => segs'[1].first = segs[1].first
    BY <2>1
  <2> QED
    BY <1>4, <2>3, <2>4, <2>5, <2>6
<1> QED
  BY <1>5, <1>6

\* Every step of a pool whose values are freed by their holders keeps the invariant.
LEMMA PoolInvSteps == ASSUME PoolInv, ~DuplicateFrees, [Next]_vars PROVE PoolInv'
<1>1. ASSUME NEW first \in Values, NEW last \in Values, Exclude(first, last) PROVE PoolInv'
  BY <1>1, ExcludeStep
<1>2. CASE Allocate
  BY <1>2, AllocateStep
<1>3. ASSUME NEW v \in MinValue - 1..MaxValue + 1, Use(v) PROVE PoolInv'
  <2>1. v \in Int
    OBVIOUS
  <2> QED
    BY <1>3, <2>1, UseStep
<1>4. ASSUME NEW v \in Freed, Release(v) PROVE PoolInv'
  BY <1>4, ReleaseStep
<1>5. CASE UNCHANGED vars
  BY <1>5 DEF vars, PoolInv, Free
<1> QED
  BY <1>1, <1>2, <1>3, <1>4, <1>5 DEF Next

\* A pool whose values are freed by their holders keeps the invariant.
THEOREM PoolSafe == ~DuplicateFrees => (Spec => []PoolInv)
<1> SUFFICES ASSUME ~DuplicateFrees PROVE Spec => []PoolInv
  OBVIOUS
<1>1. Init => PoolInv
  BY PoolStarts
<1>2. PoolInv /\ [Next]_vars => PoolInv'
  BY PoolInvSteps
<1> QED
  BY <1>1, <1>2, PTL DEF Spec

-----------------------------------------------------------------------------
(* What the invariant gives *)

\* NewUEIPPool's counter never leaves the size of the range, and every segment of
\* the list lies in it.
THEOREM TypesSafe == ~DuplicateFrees => (Spec => []TypeOK)
<1> SUFFICES ASSUME ~DuplicateFrees PROVE Spec => []TypeOK
  OBVIOUS
<1>1. PoolInv => TypeOK
  <2> SUFFICES ASSUME PoolInv PROVE TypeOK
    OBVIOUS
  <2>1. Free \subseteq Values /\ IsFiniteSet(Free)
    BY FreeIs
  <2>2. /\ IsFiniteSet(Values) /\ Cardinality(Values) = MaxValue - MinValue + 1
        /\ MaxValue - MinValue + 1 \in Nat
    BY PoolAssumption, FS_Interval DEF Values
  <2>3. Cardinality(Free) \in Nat /\ Cardinality(Free) <= Cardinality(Values)
    BY <2>1, <2>2, FS_Subset, FS_CardinalityType
  <2>4. remain \in 0..MaxValue - MinValue + 1
    BY <2>2, <2>3 DEF PoolInv
  <2> QED
    BY <2>4 DEF TypeOK, PoolInv, Good
<1> QED
  BY <1>1, PoolSafe, PTL

\* The list, the counter and the users agree: no value is on the list twice, the
\* counter is their number, and none of them is held by anybody.
THEOREM ConsistentSafe == ~DuplicateFrees => (Spec => []PoolConsistent)
<1> SUFFICES ASSUME ~DuplicateFrees PROVE Spec => []PoolConsistent
  OBVIOUS
<1>1. PoolInv => PoolConsistent
  <2> SUFFICES ASSUME PoolInv PROVE PoolConsistent
    OBVIOUS
  <2>1. /\ \A i \in DOMAIN segs : segs[i] \in Segment /\ segs[i].first <= segs[i].last
        /\ \A i, j \in DOMAIN segs : i # j => Apart(segs[i], segs[j])
    BY GoodHas DEF PoolInv
  <2>2. \A i, j \in DOMAIN segs : i # j => Span(segs[i]) \cap Span(segs[j]) = {}
    BY <2>1, ApartIs
  <2> QED
    BY <2>1, <2>2 DEF PoolConsistent, PoolInv
<1> QED
  BY <1>1, PoolSafe, PTL

\* A value that is taken back while others are free never becomes the head of the
\* list, which is the value that Allocate hands out next.
THEOREM LazySafe == ~DuplicateFrees => (Spec => ReuseIsLazy)
<1> SUFFICES ASSUME ~DuplicateFrees PROVE Spec => ReuseIsLazy
  OBVIOUS
<1> DEFINE Lazy == (segs # <<>> /\ Free # Free' /\ Free \subseteq Free')
                   => segs'[1].first = segs[1].first
<1>1. PoolInv /\ [Next]_vars => [Lazy]_vars
  <2> SUFFICES ASSUME PoolInv, Next PROVE Lazy
    OBVIOUS
  <2>1. ASSUME NEW first \in Values, NEW last \in Values, Exclude(first, last) PROVE Lazy
    BY <2>1, ExcludeStep
  <2>2. CASE Allocate
    BY <2>2, AllocateStep
  <2>3. ASSUME NEW v \in MinValue - 1..MaxValue + 1, Use(v) PROVE Lazy
    <3>1. v \in Int
      OBVIOUS
    <3> QED
      BY <2>3, <3>1, UseStep
  <2>4. ASSUME NEW v \in Freed, Release(v) PROVE Lazy
    BY <2>4, ReleaseStep
  <2> HIDE DEF Lazy
  <2> QED
    BY <2>1, <2>2, <2>3, <2>4 DEF Next
<1> QED
  BY <1>1, PoolSafe, PTL DEF Spec, ReuseIsLazy

\* The pool refines the pool of identifiers: a request fails only when nothing is
\* free, what it hands out had no user, and what nobody uses is not taken back.
THEOREM PoolRefines == ~DuplicateFrees => (Spec => AllocatorSpec)
<1> SUFFICES ASSUME ~DuplicateFrees PROVE Spec => AllocatorSpec
  OBVIOUS
<1>1. Init => Abstract!Init
  <2> SUFFICES ASSUME Init PROVE Abstract!Init
    OBVIOUS
  <2>1. Values \ Free = {} /\ res = [ok |-> TRUE, value |-> 0]
    BY PoolStarts DEF Init
  <2> QED
    BY <2>1 DEF Abstract!Init
<1>2. PoolInv /\ [Next]_vars => [Abstract!Next]_(Abstract!vars)
  <2> SUFFICES ASSUME PoolInv, [Next]_vars PROVE [Abstract!Next]_(Abstract!vars)
    OBVIOUS
  <2>1. Free \subseteq Values /\ Abstract!Ids = Values
    BY FreeIs DEF Abstract!Ids, Values
  <2>2. ASSUME NEW first \in Values, NEW last \in Values, Exclude(first, last)
        PROVE  Abstract!Withdraw(first, last)
    <3>1. Free' = Free \ (first..last) /\ res' = res
      BY <2>2, ExcludeStep
    <3>2. Values \ Free' = (Values \ Free) \cup ((first..last) \cap Values)
      BY <3>1
    <3> QED
      BY <2>1, <3>1, <3>2 DEF Abstract!Withdraw, Values
  <2>3. ASSUME Allocate PROVE Abstract!Take
    <3>1. \/ Free = {} /\ Free' = Free /\ res' = [ok |-> FALSE, value |-> 0]
          \/ \E v \in Free : Free' = Free \ {v} /\ res' = [ok |-> TRUE, value |-> v]
      BY <2>3, AllocateStep
    <3>2. CASE Free = {} /\ Free' = Free /\ res' = [ok |-> FALSE, value |-> 0]
      <4>1. Values \subseteq Values \ Free /\ Values \ Free' = Values \ Free
        BY <3>2
      <4>2. Abstract!Ids \subseteq Values \ Free
        BY <2>1, <4>1
      <4>3. (Values \ Free)' = Values \ Free
        BY <3>2 DEF Values
      <4> QED
        BY <3>2, <4>2, <4>3 DEF Abstract!Take
    <3>3. ASSUME NEW v \in Free, Free' = Free \ {v}, res' = [ok |-> TRUE, value |-> v]
          PROVE  Abstract!Take
      <4>1. v \in Abstract!Ids \ (Values \ Free)
        BY <2>1, <3>3
      <4>2. (Values \ Free)' = (Values \ Free) \cup {v}
        BY <2>1, <3>3 DEF Values
      <4> QED
        BY <3>3, <4>1, <4>2 DEF Abstract!Take
    <3>4. CASE \E v \in Free : Free' = Free \ {v} /\ res' = [ok |-> TRUE, value |-> v]
      <4>1. PICK v \in Free : Free' = Free \ {v} /\ res' = [ok |-> TRUE, value |-> v]
        BY <3>4
      <4> QED
        BY <3>3, <4>1
    <3> QED
      BY <3>1, <3>2, <3>4
  <2>4. ASSUME NEW v \in MinValue - 1..MaxValue + 1, Use(v) PROVE Abstract!TakeThis(v)
    <3>1. v \in Int
      OBVIOUS
    <3>2. Free' = Free \ {v} /\ res' = [ok |-> v \in Free, value |-> v]
      BY <2>4, <3>1, UseStep
    <3> QED
      BY <2>1, <3>2 DEF Abstract!TakeThis, Values
  <2>5. ASSUME NEW v \in Freed, Release(v)
        PROVE  v \in MinValue - 1..MaxValue + 1 /\ Abstract!Give(v)
    <3>1. /\ v \in MinValue - 1..MaxValue + 1 /\ v \notin Free
          /\ Free' = IF v \in Values THEN Free \cup {v} ELSE Free
          /\ res' = [ok |-> v \in Values, value |-> v]
      BY <2>5, ReleaseStep
    <3> QED
      BY <2>1, <3>1 DEF Abstract!Give, Values
  <2>6. CASE UNCHANGED vars
    BY <2>6 DEF vars, Abstract!vars, Free, Values
  <2>7. CASE Next
    <3>1. CASE \E first, last \in Values : Exclude(first, last)
      <4>1. PICK first \in Values, last \in Values : Exclude(first, last)
        BY <3>1
      <4>2. Abstract!Withdraw(first, last)
        BY <2>2, <4>1
      <4>3. \E x, y \in Abstract!Ids : Abstract!Withdraw(x, y)
        BY <2>1, <4>2
      <4> QED
        BY <4>3 DEF Abstract!Next
    <3>2. CASE Allocate
      BY <2>3, <3>2 DEF Abstract!Next
    <3>3. CASE \E v \in MinValue - 1..MaxValue + 1 : Use(v)
      BY <2>4, <3>3 DEF Abstract!Next
    <3>4. CASE \E v \in Freed : Release(v)
      BY <2>5, <3>4 DEF Abstract!Next
    <3> QED
      BY <2>7, <3>1, <3>2, <3>3, <3>4 DEF Next
  <2> QED
    BY <2>6, <2>7
<1> QED
  BY <1>1, <1>2, PoolSafe, PTL DEF Spec, AllocatorSpec, Abstract!Spec
=============================================================================
