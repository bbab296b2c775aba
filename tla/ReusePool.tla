----------------------------- MODULE ReusePool -----------------------------
(* The pool of UE addresses (UeIPPool) over the linked list of free         *)
(* segments that reuses values lazily (LazyReusePool).  Every operation     *)
(* runs under the pool's mutex, so it is one action; Reserve takes no mutex *)
(* and is only called while the configuration is read, before the pool      *)
(* serves anybody.  Addresses are their integer values, as in the code.     *)
EXTENDS Integers, Sequences, FiniteSets, SequencesExt

CONSTANTS
  MinValue, MaxValue,      \* the address range of the pool
  DuplicateFrees    \* whether a value is ever freed by one who does not hold it

ASSUME PoolAssumption == /\ MinValue \in Int /\ MaxValue \in Int /\ MinValue <= MaxValue
                         /\ DuplicateFrees \in BOOLEAN

VARIABLES
  segs,             \* the free segments, in list order; segs[1] is the head
  remain,           \* the counter of free values
  serving,          \* FALSE while the configuration is read
  held,             \* the values the users of the pool hold
  res               \* what the last operation answered

vars == <<segs, remain, serving, held, res>>

Values == MinValue .. MaxValue
Segment == [first : Values, last : Values]
Single(v) == [first |-> v, last |-> v]
Span(s) == s.first .. s.last

\* The values on the free list.
Free == UNION { Span(segs[i]) : i \in DOMAIN segs }

-----------------------------------------------------------------------------
(* The list operations *)

\* Mutant: the joined segment ends where the extended one did.
ExtendLastShort(s, i) ==
  IF i < Len(s) /\ s[i].last + 2 = s[i + 1].first
  THEN [RemoveAt(s, i + 1) EXCEPT ![i].last = @ + 1]
  ELSE [s EXCEPT ![i].last = @ + 1]

\* extendLast: grow segment i by one and join it with the next one if they touch.
ExtendLast(s, i) ==
  IF i < Len(s) /\ s[i].last + 2 = s[i + 1].first
  THEN [RemoveAt(s, i + 1) EXCEPT ![i].last = s[i + 1].last]
  ELSE [s EXCEPT ![i].last = @ + 1]

\* Use takes v out of segment i: a one-value segment is unlinked, others split.
TakeOut(s, i, v) ==
  CASE Span(s[i]) = {v}                     -> RemoveAt(s, i)
    [] v = s[i].first /\ v # s[i].last      -> [s EXCEPT ![i].first = v + 1]
    [] v # s[i].first /\ v = s[i].last      -> [s EXCEPT ![i].last = v - 1]
    [] v # s[i].first /\ v # s[i].last      ->
         InsertAt([s EXCEPT ![i].last = v - 1], i + 1,
                  [first |-> v + 1, last |-> s[i].last])

\* The first segment after the head that v does not lie well beyond, or 0.
Stop(s, v) == LET near == {i \in 2 .. Len(s) : v <= s[i].last + 1}
              IN  IF near = {} THEN 0 ELSE Min(near)

\* Free finds v on the list: it compares v with the head, and then with the
\* segments up to Stop, unless the head takes v at its back.
Found(s, v) == /\ s # <<>>
               /\ \/ v \in Span(s[1])
                  \/ /\ v # s[1].last + 1
                     /\ Stop(s, v) # 0
                     /\ v \in Span(s[Stop(s, v)])

\* Mutant: a freed value becomes the new head, to be reused at once.
PutFirst(s, v) == <<Single(v)>> \o s

\* The list after Free(v) took v back.
Put(s, v) ==
  LET i == Stop(s, v) IN
  IF s = <<>> THEN <<Single(v)>>
  ELSE IF v = s[1].last + 1 THEN ExtendLast(s, 1)
  ELSE IF i = 0 THEN Append(s, Single(v))
  ELSE CASE v < s[i].first - 1 -> InsertAt(s, i, Single(v))
         [] v = s[i].first - 1 -> [s EXCEPT ![i].first = v]
         [] v = s[i].last + 1  -> ExtendLast(s, i)

\* Mutant: the cut keeps the last reserved value on the list.
CutOneShort(s, first, last) ==
  LET left(seg)  == [first |-> seg.first, last |-> Min({seg.last, first - 1})]
      right(seg) == [first |-> Max({seg.first, last}), last |-> seg.last]
      kept(r)    == IF r.first <= r.last THEN <<r>> ELSE <<>>
  IN  FlattenSeq([i \in DOMAIN s |-> kept(left(s[i])) \o kept(right(s[i]))])

\* The list after Reserve(first, last): every segment keeps what lies outside.
CutOut(s, first, last) ==
  LET left(seg)  == [first |-> seg.first, last |-> Min({seg.last, first - 1})]
      right(seg) == [first |-> Max({seg.first, last + 1}), last |-> seg.last]
      kept(r)    == IF r.first <= r.last THEN <<r>> ELSE <<>>
  IN  FlattenSeq([i \in DOMAIN s |-> kept(left(s[i])) \o kept(right(s[i]))])

-----------------------------------------------------------------------------
(* The operations of the pool *)

\* NewUEIPPool: the whole range is one free segment.
Init == /\ segs = <<[first |-> MinValue, last |-> MaxValue]>>
        /\ remain = MaxValue - MinValue + 1
        /\ serving = FALSE
        /\ held = {}
        /\ res = [ok |-> TRUE, value |-> 0]

\* Exclude: a static pool's range is reserved while the configuration is read.
Exclude(first, last) ==
  /\ ~serving
  /\ first <= last /\ MinValue <= first /\ last <= MaxValue
  /\ segs' = CutOut(segs, first, last)
  /\ remain' = remain - Cardinality((first .. last) \cap Free)
  /\ UNCHANGED <<serving, held, res>>

\* UeIPPool.Allocate without a requested address: the first value of the head.
Allocate ==
  /\ serving' = TRUE
  /\ \/ /\ segs = <<>>
        /\ res' = [ok |-> FALSE, value |-> 0]
        /\ UNCHANGED <<segs, remain, held>>
     \/ /\ segs # <<>>
        /\ LET v == Head(segs).first IN
             /\ segs' = TakeOut(segs, 1, v)
             /\ remain' = remain - 1
             /\ held' = held \cup {v}
             /\ res' = [ok |-> TRUE, value |-> v]

\* UeIPPool.Allocate with a requested (static) address.
Use(v) ==
  LET at == {i \in DOMAIN segs : v \in Span(segs[i])} IN
  /\ serving' = TRUE
  /\ res' = [ok |-> at # {}, value |-> v]
  /\ \/ /\ at = {}
        /\ UNCHANGED <<segs, remain, held>>
     \/ /\ at # {}
        /\ segs' = TakeOut(segs, Min(at), v)
        /\ remain' = remain - 1
        /\ held' = held \cup {v}

\* Mutant: the counter does not follow a value that is freed into an empty pool.
ReleaseUncounted(v) ==
  /\ serving' = TRUE
  /\ held' = held \ {v}
  /\ res' = [ok |-> v \in Values /\ ~Found(segs, v), value |-> v]
  /\ segs' = IF res'.ok THEN Put(segs, v) ELSE segs
  /\ remain' = IF res'.ok /\ segs # <<>> THEN remain + 1 ELSE remain

\* UeIPPool.Release: Free of a value by one who holds it, or by one who does not.
Release(v) ==
  /\ serving' = TRUE
  /\ held' = held \ {v}
  /\ res' = [ok |-> v \in Values /\ ~Found(segs, v), value |-> v]
  /\ \/ /\ res'.ok
        /\ segs' = Put(segs, v)
        /\ remain' = remain + 1
     \/ /\ ~res'.ok
        /\ UNCHANGED <<segs, remain>>

\* The values that are freed: held ones, ones outside of the range, and, if
\* DuplicateFrees, values that are free already.
Freed == held \cup {MinValue - 1, MaxValue + 1}
         \cup {v \in Free : DuplicateFrees}

Next == \/ \E first, last \in Values : Exclude(first, last)
        \/ Allocate
        \/ \E v \in MinValue - 1 .. MaxValue + 1 : Use(v)
        \/ \E v \in Freed : Release(v)

Spec == Init /\ [][Next]_vars

-----------------------------------------------------------------------------
(* Properties *)

TypeOK == /\ segs \in Seq(Segment)
          /\ remain \in 0 .. MaxValue - MinValue + 1
          /\ serving \in BOOLEAN
          /\ held \subseteq Values
          /\ res \in [ok : BOOLEAN, value : Int]

\* The counter, the list and the users agree: no value is on the list twice,
\* the counter is the number of values on it, and none of them is held.
PoolConsistent ==
  /\ \A i \in DOMAIN segs : segs[i].first <= segs[i].last
  /\ \A i, j \in DOMAIN segs : i # j => Span(segs[i]) \cap Span(segs[j]) = {}
  /\ remain = Cardinality(Free)
  /\ Free \cap held = {}

\* Lazy reuse: a value that is taken back while others are free does not become
\* the next one to be handed out, so a released address rests before its reuse.
ReuseIsLazy ==
  [][(segs # <<>> /\ Free # Free' /\ Free \subseteq Free') =>
       segs'[1].first = segs[1].first]_vars

\* A value that nobody holds cannot be freed a second time: the comment and the
\* tests of Free call this a duplicate free and expect it to be refused.
DuplicateFreeRefused ==
  [][\A v \in Values \ held : (Release(v) /\ v \in Free) => segs' = segs]_vars

\* The pool does what a pool of identifiers promises (IdAllocator).
Abstract == INSTANCE IdAllocator WITH inUse <- Values \ Free
AllocatorSpec == Abstract!Spec
=============================================================================
