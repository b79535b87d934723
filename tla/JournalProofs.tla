---------------------------- MODULE JournalProofs ----------------------------
(***************************************************************************)
(* Proofs about Journal.tla, for every set of bodies and every bound.      *)
(***************************************************************************)
EXTENDS Journal, SequenceTheorems, TLAPS

(***************************************************************************)
(* ChainHolds compares each entry with its neighbour only.  To reason      *)
(* about many entries at once without an induction, the invariant says the *)
(* same of all of them together: every hash is an initial segment of the   *)
(* head's.                                                                 *)
(***************************************************************************)
Chained(b, es) ==
    LET h == HeadOf(b, es).hash
    IN  /\ Len(h) = b.seq + Len(es)
        /\ b.hash = SubSeq(h, 1, b.seq)
        /\ \A i \in 1..Len(es) :
              /\ es[i].seq = b.seq + i
              /\ es[i].hash = SubSeq(h, 1, b.seq + i)

FileInv ==
    /\ Verified(LoadedBase(file), LoadedEntries(file))
    /\ Chained(LoadedBase(file), LoadedEntries(file))
    /\ Len(LoadedEntries(file)) <= MaxPending

JournalInv ==
    /\ JournalTypeOK
    /\ Verified(base, entries)
    /\ Chained(base, entries)
    /\ FileInv
    /\ FileIsCurrent

-----------------------------------------------------------------------------
\* An initial segment of a sequence is that of the sequence made longer.
LEMMA SegmentOfAppend ==
    ASSUME NEW S, NEW s \in Seq(S), NEW x \in S, NEW m \in 0..Len(s)
    PROVE  /\ SubSeq(Append(s, x), 1, m) = SubSeq(s, 1, m)
           /\ SubSeq(s, 1, m) \in Seq(S)
           /\ Len(SubSeq(s, 1, m)) = m
<1>1. /\ Append(s, x) \in Seq(S)
      /\ Len(Append(s, x)) = Len(s) + 1
      /\ \A i \in 1..Len(s) : Append(s, x)[i] = s[i]
  BY AppendProperties
<1>2. /\ SubSeq(s, 1, m) \in Seq(S)
      /\ Len(SubSeq(s, 1, m)) = m
      /\ \A i \in 1..m : SubSeq(s, 1, m)[i] = s[i]
  BY SubSeqProperties
<1>3. /\ SubSeq(Append(s, x), 1, m) \in Seq(S)
      /\ Len(SubSeq(Append(s, x), 1, m)) = m
      /\ \A i \in 1..m : SubSeq(Append(s, x), 1, m)[i] = Append(s, x)[i]
  BY <1>1, SubSeqProperties
<1>4. QED
  BY <1>1, <1>2, <1>3, SeqEqual

\* A whole sequence is its own initial segment.
LEMMA WholeSegment ==
    ASSUME NEW S, NEW s \in Seq(S)
    PROVE  SubSeq(s, 1, Len(s)) = s
BY SubSeqFull

\* A sequence with an element is not the empty one.
LEMMA NonEmpty ==
    ASSUME NEW s, Len(s) > 0
    PROVE  s # <<>>
OBVIOUS

\* Appending to a chain makes a chain whose head is the new entry.
LEMMA AppendChains ==
    ASSUME NEW b \in Point, NEW es \in Seq(Entry), Verified(b, es), Chained(b, es),
           NEW body \in Body, NEW e,
           e = [seq  |-> HeadOf(b, es).seq + 1,
                body |-> body,
                prev |-> HeadOf(b, es).hash,
                hash |-> entry_hash(HeadOf(b, es).seq + 1, body, HeadOf(b, es).hash)]
    PROVE  /\ e \in Entry
           /\ Append(es, e) \in Seq(Entry)
           /\ Verified(b, Append(es, e))
           /\ Chained(b, Append(es, e))
           /\ HeadOf(b, Append(es, e)) = PointOf(e)
<1> DEFINE h == HeadOf(b, es).hash
           k == HeadOf(b, es).seq
           fs == Append(es, e)
           x == <<k + 1, body>>
           Item == Nat \X Body
<1>0. /\ b.seq \in Nat
      /\ b.hash \in Hash
      /\ Len(es) \in Nat
  BY LenProperties DEF Point
<1>1. /\ HeadOf(b, es) \in Point
      /\ h \in Hash
      /\ k \in Nat
      /\ k = b.seq + Len(es)
      /\ Len(h) = k
  <2>1. CASE es = <<>>
    BY <2>1 DEF HeadOf, Point, Chained
  <2>2. CASE es # <<>>
    <3>1. /\ Len(es) \in 1..Len(es)
          /\ Last(es) \in Entry
      BY <2>2, EmptySeq DEF Last
    <3>2. QED
      BY <2>2, <3>1 DEF HeadOf, Point, Entry, Last, PointOf, Chained
  <2>3. QED
    BY <2>1, <2>2
<1>2. /\ x \in Item
      /\ e \in Entry
      /\ e.hash = Append(h, x)
      /\ e.seq = k + 1
      /\ e.prev = h
      /\ e.body = body
  BY <1>1 DEF Entry, Hash, entry_hash
<1>3. /\ fs \in Seq(Entry)
      /\ Len(fs) = Len(es) + 1
      /\ fs # <<>>
      /\ \A i \in 1..Len(es) : fs[i] = es[i]
      /\ fs[Len(es) + 1] = e
      /\ Last(fs) = e
  BY <1>2, AppendProperties DEF Last
<1>4. HeadOf(b, fs) = PointOf(e)
  BY <1>3 DEF HeadOf
<1>5. Chained(b, fs)
  <2>1. HeadOf(b, fs).hash = Append(h, x)
    BY <1>2, <1>4 DEF PointOf
  <2>2. Len(Append(h, x)) = b.seq + Len(fs)
    <3>1. h \in Seq(Item)
      BY <1>1 DEF Hash
    <3>2. k = b.seq + Len(es) /\ Len(h) = k
      BY <1>1
    <3>3. Len(fs) = Len(es) + 1
      BY <1>3
    <3> HIDE DEF h, k, fs, x, Item
    <3>4. Len(Append(h, x)) = Len(h) + 1
      BY <1>2, <3>1, AppendProperties
    <3>5. QED
      BY <1>0, <3>2, <3>3, <3>4
  <2>3. \A m \in 0..Len(h) :
           SubSeq(Append(h, x), 1, m) = SubSeq(h, 1, m)
    <3>1. h \in Seq(Item)
      BY <1>1 DEF Hash
    <3> HIDE DEF h, k, x, Item
    <3>2. QED
      BY <1>2, <3>1, SegmentOfAppend
  <2>4. b.hash = SubSeq(Append(h, x), 1, b.seq)
    BY <1>1, <2>3 DEF Chained, Point
  <2>5. ASSUME NEW i \in 1..Len(fs)
        PROVE  /\ fs[i].seq = b.seq + i
               /\ fs[i].hash = SubSeq(Append(h, x), 1, b.seq + i)
    <3>1. CASE i \in 1..Len(es)
      <4>1. b.seq + i \in 0..Len(h)
        BY <1>1, <3>1 DEF Point
      <4>2. QED
        BY <1>3, <2>3, <3>1, <4>1 DEF Chained
    <3>2. CASE i = Len(es) + 1
      <4>1. Append(h, x) \in Seq(Item)
        <5>1. h \in Seq(Item)
          BY <1>1 DEF Hash
        <5> HIDE DEF h, k, x, Item
        <5>2. QED
          BY <1>2, <5>1, AppendProperties
      <4>2. SubSeq(Append(h, x), 1, b.seq + i) = Append(h, x)
        <5>1. Len(Append(h, x)) = b.seq + i
          BY <1>0, <1>3, <2>2, <3>2
        <5> HIDE DEF h, k, x, Item
        <5>2. QED
          BY <4>1, <5>1, WholeSegment
      <4>3. QED
        <5>1. /\ fs[i] = e
              /\ i = Len(es) + 1
              /\ k = b.seq + Len(es)
              /\ k + 1 = b.seq + i
          BY <1>0, <1>1, <1>3, <3>2
        <5> HIDE DEF h, k, fs, x, Item
        <5>2. e.seq = k + 1 /\ e.hash = Append(h, x)
          BY <1>2
        <5>3. e.seq = b.seq + i
          BY <5>1, <5>2
        <5>4. QED
          BY <4>2, <5>1, <5>2, <5>3
    <3>3. i \in 1..Len(es) \/ i = Len(es) + 1
      BY <1>0, <1>3
    <3>4. QED
      BY <3>1, <3>2, <3>3
  <2>6. QED
    BY <2>1, <2>2, <2>4, <2>5 DEF Chained
<1>6. Verified(b, fs)
  <2>1. ASSUME NEW i \in 1..Len(fs)
        PROVE  LET before == IF i = 1 THEN b ELSE PointOf(fs[i - 1])
               IN  /\ fs[i].seq = before.seq + 1
                   /\ fs[i].prev = before.hash
                   /\ fs[i].hash = entry_hash(fs[i].seq, fs[i].body, fs[i].prev)
    <3>1. CASE i \in 1..Len(es)
      <4>1. fs[i] = es[i] /\ (i # 1 => fs[i - 1] = es[i - 1])
        BY <1>3, <3>1
      <4>2. QED
        BY <3>1, <4>1 DEF Verified
    <3>2. CASE i = Len(es) + 1
      <4>1. (IF i = 1 THEN b ELSE PointOf(fs[i - 1])) = HeadOf(b, es)
        BY <1>3, <3>2, EmptySeq DEF HeadOf, Last
      <4>2. QED
        BY <1>2, <1>3, <3>2, <4>1 DEF entry_hash
    <3>3. QED
      BY <1>0, <1>3, <3>1, <3>2
  <2>2. QED
    BY <2>1 DEF Verified
<1>7. QED
  BY <1>2, <1>3, <1>4, <1>5, <1>6

\* Taking entries off the front leaves a chain with the same head.
LEMMA TakeChains ==
    ASSUME NEW b \in Point, NEW es \in Seq(Entry), Verified(b, es), Chained(b, es),
           NEW n \in 1..Len(es),
           NEW fs, fs = SubSeq(es, n + 1, Len(es))
    PROVE  /\ PointOf(es[n]) \in Point
           /\ fs \in Seq(Entry)
           /\ Len(fs) = Len(es) - n
           /\ Verified(PointOf(es[n]), fs)
           /\ Chained(PointOf(es[n]), fs)
           /\ HeadOf(PointOf(es[n]), fs) = HeadOf(b, es)
<1>1. /\ Len(es) \in Nat
      /\ n \in Nat
      /\ b.seq \in Nat
      /\ \A i \in 1..Len(es) : es[i] \in Entry
  BY ElementOfSeq, LenProperties DEF Point
<1>2. /\ PointOf(es[n]) \in Point
      /\ PointOf(es[n]).seq = b.seq + n
      /\ PointOf(es[n]).hash = es[n].hash
  BY <1>1 DEF PointOf, Point, Entry, Chained
<1>3. /\ fs \in Seq(Entry)
      /\ Len(fs) = Len(es) - n
      /\ \A i \in 1..Len(fs) : fs[i] = es[n + i]
  <2>1. \A i \in (n + 1)..Len(es) : es[i] \in Entry
    BY <1>1
  <2>2. n + 1 \in Int /\ Len(es) \in Int
    BY <1>1
  <2>3. /\ SubSeq(es, n + 1, Len(es)) \in Seq(Entry)
        /\ Len(SubSeq(es, n + 1, Len(es))) =
              IF n + 1 <= Len(es) THEN Len(es) - (n + 1) + 1 ELSE 0
        /\ \A i \in 1..(Len(es) - (n + 1) + 1) :
              SubSeq(es, n + 1, Len(es))[i] = es[(n + 1) + i - 1]
    BY <2>1, <2>2, SubSeqProperties
  <2>4. QED
    BY <1>1, <2>3
<1>4. HeadOf(PointOf(es[n]), fs) = HeadOf(b, es)
  <2>1. CASE n = Len(es)
    BY <1>1, <1>3, <2>1, EmptySeq DEF HeadOf, Last
  <2>2. CASE n < Len(es)
    <3>1. fs # <<>> /\ es # <<>>
      <4>1. Len(fs) > 0 /\ Len(es) > 0
        BY <1>1, <1>3, <2>2
      <4>2. QED
        BY <4>1, NonEmpty
    <3>2. Last(fs) = Last(es)
      <4>1. Len(fs) \in 1..Len(fs) /\ n + Len(fs) = Len(es)
        BY <1>1, <1>3, <2>2
      <4>2. fs[Len(fs)] = es[Len(es)]
        BY <1>3, <4>1
      <4>3. QED
        BY <4>2 DEF Last
    <3>3. QED
      BY <3>1, <3>2 DEF HeadOf
  <2>3. QED
    BY <1>1, <2>1, <2>2
<1>5. Chained(PointOf(es[n]), fs)
  <2> DEFINE h == HeadOf(b, es).hash
  <2>1. Len(h) = b.seq + n + Len(fs)
    BY <1>1, <1>3 DEF Chained
  <2>2. es[n].hash = SubSeq(h, 1, b.seq + n)
    BY DEF Chained
  <2>3. ASSUME NEW i \in 1..Len(fs)
        PROVE  /\ fs[i].seq = b.seq + n + i
               /\ fs[i].hash = SubSeq(h, 1, b.seq + n + i)
    <3>1. /\ n + i \in 1..Len(es)
          /\ b.seq + (n + i) = b.seq + n + i
      BY <1>1, <1>3
    <3>2. /\ es[n + i].seq = b.seq + (n + i)
          /\ es[n + i].hash = SubSeq(h, 1, b.seq + (n + i))
      BY <3>1 DEF Chained
    <3>3. QED
      BY <1>3, <3>1, <3>2
  <2>4. QED
    BY <1>2, <1>4, <2>1, <2>2, <2>3 DEF Chained
<1>6. Verified(PointOf(es[n]), fs)
  <2>1. ASSUME NEW i \in 1..Len(fs)
        PROVE  LET before == IF i = 1 THEN PointOf(es[n]) ELSE PointOf(fs[i - 1])
               IN  /\ fs[i].seq = before.seq + 1
                   /\ fs[i].prev = before.hash
                   /\ fs[i].hash = entry_hash(fs[i].seq, fs[i].body, fs[i].prev)
    <3>1. /\ n + i \in 1..Len(es)
          /\ n + i # 1
          /\ fs[i] = es[n + i]
      BY <1>1, <1>3
    <3>2. (IF i = 1 THEN PointOf(es[n]) ELSE PointOf(fs[i - 1])) = PointOf(es[(n + i) - 1])
      <4>1. CASE i = 1
        BY <1>1, <4>1
      <4>2. CASE i # 1
        <5>1. i - 1 \in 1..Len(fs) /\ n + (i - 1) = (n + i) - 1
          BY <1>1, <1>3, <4>2
        <5>2. QED
          BY <1>3, <4>2, <5>1
      <4>3. QED
        BY <4>1, <4>2
    <3>3. QED
      BY <3>1, <3>2 DEF Verified
  <2>2. QED
    BY <2>1 DEF Verified
<1>7. QED
  BY <1>2, <1>3, <1>4, <1>5, <1>6

\* The empty journal is a chain.
LEMMA EmptyChains ==
    /\ Origin \in Point
    /\ <<>> \in Seq(Entry)
    /\ Verified(Origin, <<>>)
    /\ Chained(Origin, <<>>)
<1>1. /\ GENESIS \in Hash
      /\ Len(GENESIS) = 0
      /\ SubSeq(GENESIS, 1, 0) = GENESIS
  BY EmptySeq, SubSeqEmpty DEF GENESIS, Hash
<1>2. QED
  BY <1>1, EmptySeq DEF Origin, Point, Verified, Chained, HeadOf

\* Of two initial segments of a sequence, the shorter is a prefix.
LEMMA SegmentsArePrefixes ==
    ASSUME NEW S, NEW h \in Seq(S), NEW m \in 0..Len(h), NEW n \in 0..Len(h), m <= n
    PROVE  /\ IsPrefix(SubSeq(h, 1, m), SubSeq(h, 1, n))
           /\ IsPrefix(SubSeq(h, 1, m), h)
           /\ Len(SubSeq(h, 1, m)) = m
<1>1. /\ Len(h) \in Nat
      /\ \A i \in 1..Len(h) : h[i] \in S
  BY ElementOfSeq, LenProperties
<1>2. ASSUME NEW k \in 0..Len(h)
      PROVE  /\ SubSeq(h, 1, k) \in Seq(S)
             /\ Len(SubSeq(h, 1, k)) = k
             /\ \A i \in 1..k : SubSeq(h, 1, k)[i] = h[i]
  BY <1>1, SubSeqProperties
<1>3. ASSUME NEW k \in m..Len(h)
      PROVE  IsPrefix(SubSeq(h, 1, m), SubSeq(h, 1, k))
  <2> DEFINE s == SubSeq(h, 1, m)
             t == SubSeq(h, 1, k)
  <2>1. /\ s \in Seq(S) /\ Len(s) = m /\ \A i \in 1..m : s[i] = h[i]
        /\ t \in Seq(S) /\ Len(t) = k /\ \A i \in 1..k : t[i] = h[i]
        /\ m \in Nat /\ k \in Nat /\ m <= k
    BY <1>1, <1>2
  <2> HIDE DEF s, t
  <2>2. SubSeq(s, 1, Len(s)) = s
    BY <2>1, WholeSegment
  <2>3. /\ SubSeq(t, 1, m) \in Seq(S)
        /\ Len(SubSeq(t, 1, m)) = m
        /\ \A i \in 1..m : SubSeq(t, 1, m)[i] = t[i]
    <3>1. \A i \in 1..m : t[i] \in S
      BY <2>1, ElementOfSeq
    <3>2. QED
      BY <2>1, <3>1, SubSeqProperties
  <2>4. SubSeq(t, 1, m) = s
    BY <2>1, <2>3, SeqEqual
  <2>5. IsPrefix(s, t)
    BY <2>1, <2>2, <2>4 DEF IsPrefix
  <2>6. QED
    BY <2>5 DEF s, t
<1>4. IsPrefix(SubSeq(h, 1, m), SubSeq(h, 1, n))
  BY <1>1, <1>3
<1>5. IsPrefix(SubSeq(h, 1, m), SubSeq(h, 1, Len(h)))
  BY <1>1, <1>3
<1>6. SubSeq(h, 1, Len(h)) = h
  BY WholeSegment
<1>7. QED
  BY <1>2, <1>4, <1>5, <1>6

\* An initial segment of an initial segment is one of the whole.
LEMMA SegmentOfSegment ==
    ASSUME NEW S, NEW h \in Seq(S), NEW m \in 0..Len(h), NEW k \in 0..m
    PROVE  SubSeq(SubSeq(h, 1, m), 1, k) = SubSeq(h, 1, k)
<1>1. /\ Len(h) \in Nat
      /\ \A i \in 1..Len(h) : h[i] \in S
  BY ElementOfSeq, LenProperties
<1>2. /\ SubSeq(h, 1, m) \in Seq(S)
      /\ Len(SubSeq(h, 1, m)) = m
      /\ \A i \in 1..m : SubSeq(h, 1, m)[i] = h[i]
  BY <1>1, SubSeqProperties
<1>3. /\ SubSeq(h, 1, k) \in Seq(S)
      /\ Len(SubSeq(h, 1, k)) = k
      /\ \A i \in 1..k : SubSeq(h, 1, k)[i] = h[i]
  BY <1>1, SubSeqProperties
<1> DEFINE t == SubSeq(h, 1, m)
<1> HIDE DEF t
<1>4. t \in Seq(S) /\ Len(t) = m /\ \A i \in 1..m : t[i] = h[i]
  BY <1>2 DEF t
<1>5. /\ SubSeq(t, 1, k) \in Seq(S)
      /\ Len(SubSeq(t, 1, k)) = k
      /\ \A i \in 1..k : SubSeq(t, 1, k)[i] = t[i]
  <2>1. \A i \in 1..k : t[i] \in S
    BY <1>1, <1>4
  <2>2. QED
    BY <1>1, <2>1, SubSeqProperties
<1>6. SubSeq(t, 1, k) = SubSeq(h, 1, k)
  BY <1>3, <1>4, <1>5, SeqEqual
<1>7. QED
  BY <1>6 DEF t

\* The last entry of a chain taken off leaves a chain, with an earlier head.
LEMMA FrontChains ==
    ASSUME NEW b \in Point, NEW es \in Seq(Entry), Verified(b, es), Chained(b, es),
           es # <<>>, HeadOf(b, es).hash \in Hash
    PROVE  /\ Front(es) \in Seq(Entry)
           /\ Len(Front(es)) = Len(es) - 1
           /\ Verified(b, Front(es))
           /\ Chained(b, Front(es))
           /\ IsPrefix(HeadOf(b, Front(es)).hash, HeadOf(b, es).hash)
<1> DEFINE fs == Front(es)
           h == HeadOf(b, es).hash
           n == Len(es)
           m == b.seq + (n - 1)
           Item == Nat \X Body
<1>1. /\ n \in Nat \ {0}
      /\ b.seq \in Nat
      /\ \A i \in 1..n : es[i] \in Entry
  BY ElementOfSeq, EmptySeq, LenProperties DEF Point
<1>2. /\ h \in Seq(Item)
      /\ Len(h) = b.seq + n
      /\ b.hash = SubSeq(h, 1, b.seq)
      /\ \A i \in 1..n : es[i].seq = b.seq + i /\ es[i].hash = SubSeq(h, 1, b.seq + i)
  BY DEF Chained, Hash
<1>3. /\ fs \in Seq(Entry)
      /\ Len(fs) = n - 1
      /\ \A i \in 1..(n - 1) : fs[i] = es[i]
  <2>1. \A i \in 1..(n - 1) : es[i] \in Entry
    BY <1>1
  <2>2. /\ SubSeq(es, 1, n - 1) \in Seq(Entry)
        /\ Len(SubSeq(es, 1, n - 1)) = IF 1 <= n - 1 THEN (n - 1) - 1 + 1 ELSE 0
        /\ \A i \in 1..((n - 1) - 1 + 1) : SubSeq(es, 1, n - 1)[i] = es[1 + i - 1]
    BY <1>1, <2>1, SubSeqProperties
  <2>3. fs = SubSeq(es, 1, n - 1)
    BY DEF Front
  <2> HIDE DEF fs, n
  <2>4. QED
    BY <1>1, <2>2, <2>3
<1>4. HeadOf(b, fs).hash = SubSeq(h, 1, m)
  <2>1. CASE n = 1
    <3>1. fs = <<>>
      BY <1>3, <2>1, EmptySeq
    <3>2. m = b.seq
      BY <1>1, <2>1
    <3>3. QED
      BY <1>2, <3>1, <3>2 DEF HeadOf
  <2>2. CASE n # 1
    <3>1. n - 1 \in 1..n /\ n - 1 \in 1..(n - 1)
      <4>1. n \in Nat \ {0}
        BY <1>1
      <4> HIDE DEF n
      <4>2. QED
        BY <4>1, <2>2
    <3>2. fs # <<>> /\ Last(fs) = es[n - 1]
      <4> HIDE DEF fs, n
      <4>1. Len(fs) = n - 1 /\ n - 1 > 0 /\ fs[n - 1] = es[n - 1]
        BY <1>3, <3>1
      <4>2. QED
        BY <4>1, NonEmpty DEF Last
    <3>3. QED
      BY <1>2, <3>1, <3>2 DEF HeadOf, PointOf
  <2>3. QED
    BY <2>1, <2>2
<1> HIDE DEF fs, h, n, m, Item
<1>5. m \in 0..Len(h) /\ m = b.seq + Len(fs)
  BY <1>1, <1>2, <1>3 DEF m
<1>6. /\ Len(SubSeq(h, 1, m)) = m
      /\ IsPrefix(SubSeq(h, 1, m), h)
  BY <1>2, <1>5, SegmentsArePrefixes
<1>7. \A k \in 0..m : SubSeq(SubSeq(h, 1, m), 1, k) = SubSeq(h, 1, k)
  BY <1>2, <1>5, SegmentOfSegment
<1>8. Chained(b, fs)
  <2>1. b.seq \in 0..m
    BY <1>1 DEF m
  <2>2. b.hash = SubSeq(SubSeq(h, 1, m), 1, b.seq)
    BY <1>2, <1>7, <2>1
  <2>3. ASSUME NEW i \in 1..Len(fs)
        PROVE  /\ fs[i].seq = b.seq + i
               /\ fs[i].hash = SubSeq(SubSeq(h, 1, m), 1, b.seq + i)
    <3>1. i \in 1..n /\ i \in 1..(n - 1) /\ b.seq + i \in 0..m
      BY <1>1, <1>3 DEF m
    <3>2. fs[i] = es[i]
      BY <1>3, <3>1
    <3>3. QED
      BY <1>2, <1>7, <3>1, <3>2
  <2>4. QED
    BY <1>4, <1>5, <1>6, <2>2, <2>3 DEF Chained
<1>9. Verified(b, fs)
  <2>1. ASSUME NEW i \in 1..Len(fs)
        PROVE  /\ i \in 1..Len(es)
               /\ fs[i] = es[i]
               /\ i # 1 => fs[i - 1] = es[i - 1]
    BY <1>1, <1>3 DEF n
  <2>2. QED
    BY <2>1 DEF Verified
<1>10. QED
  BY <1>3, <1>4, <1>6, <1>8, <1>9 DEF fs, h, n

\* An earlier base with no entry is a chain.
LEMMA EarlierBaseChains ==
    ASSUME NEW b \in Point, Chained(b, <<>>), NEW n \in 0..(b.seq - 1),
           NEW c, c = [seq |-> n, hash |-> SubSeq(b.hash, 1, n)]
    PROVE  /\ c \in Point
           /\ Verified(c, <<>>)
           /\ Chained(c, <<>>)
           /\ IsPrefix(c.hash, b.hash)
<1> DEFINE Item == Nat \X Body
<1>1. /\ b.seq \in Nat
      /\ b.hash \in Seq(Item)
      /\ Len(b.hash) = b.seq
  BY DEF Point, Hash, Chained, HeadOf
<1>2. n \in 0..Len(b.hash) /\ n \in Nat
  BY <1>1
<1>3. /\ SubSeq(b.hash, 1, n) \in Seq(Item)
      /\ Len(SubSeq(b.hash, 1, n)) = n
      /\ IsPrefix(SubSeq(b.hash, 1, n), b.hash)
  <2>1. \A i \in 1..n : b.hash[i] \in Item
    BY <1>1, <1>2, ElementOfSeq
  <2>2. SubSeq(b.hash, 1, n) \in Seq(Item)
    BY <1>2, <2>1, SubSeqProperties
  <2>3. QED
    BY <1>1, <1>2, <2>2, SegmentsArePrefixes
<1>4. /\ c.seq = n
      /\ c.hash = SubSeq(b.hash, 1, n)
      /\ c \in Point
  BY <1>2, <1>3 DEF Point, Hash
<1>5. SubSeq(c.hash, 1, n) = c.hash
  BY <1>3, <1>4, WholeSegment
<1>6. QED
  BY <1>2, <1>3, <1>4, <1>5 DEF Verified, Chained, HeadOf

\* RemoveAt closes the gap.
LEMMA RemoveAtProperties ==
    ASSUME NEW S, NEW s \in Seq(S), NEW i \in 1..(Len(s) - 1)
    PROVE  /\ RemoveAt(s, i) \in Seq(S)
           /\ Len(RemoveAt(s, i)) = Len(s) - 1
           /\ \A j \in 1..(i - 1) : RemoveAt(s, i)[j] = s[j]
           /\ RemoveAt(s, i)[i] = s[i + 1]
<1> DEFINE front == SubSeq(s, 1, i - 1)
           back == SubSeq(s, i + 1, Len(s))
<1>1. /\ Len(s) \in Nat
      /\ i \in Nat
      /\ 1 <= i
      /\ i + 1 <= Len(s)
      /\ \A j \in 1..Len(s) : s[j] \in S
  BY ElementOfSeq, LenProperties
<1>2. /\ front \in Seq(S)
      /\ Len(front) = i - 1
      /\ \A j \in 1..(i - 1) : front[j] = s[j]
  <2>1. \A j \in 1..(i - 1) : s[j] \in S
    BY <1>1
  <2>2. /\ front \in Seq(S)
        /\ Len(front) = IF 1 <= i - 1 THEN (i - 1) - 1 + 1 ELSE 0
        /\ \A j \in 1..((i - 1) - 1 + 1) : front[j] = s[1 + j - 1]
    BY <1>1, <2>1, SubSeqProperties
  <2> HIDE DEF front
  <2>3. QED
    BY <1>1, <2>2
<1>3. /\ back \in Seq(S)
      /\ Len(back) = Len(s) - i
      /\ back[1] = s[i + 1]
  <2>1. \A j \in (i + 1)..Len(s) : s[j] \in S
    BY <1>1
  <2>2. i + 1 \in Int /\ Len(s) \in Int
    BY <1>1
  <2>3. /\ back \in Seq(S)
        /\ Len(back) = IF i + 1 <= Len(s) THEN Len(s) - (i + 1) + 1 ELSE 0
        /\ \A j \in 1..(Len(s) - (i + 1) + 1) : back[j] = s[(i + 1) + j - 1]
    BY <2>1, <2>2, SubSeqProperties
  <2> HIDE DEF back
  <2>4. 1 \in 1..(Len(s) - (i + 1) + 1) /\ (i + 1) + 1 - 1 = i + 1
    BY <1>1
  <2>5. back[1] = s[(i + 1) + 1 - 1]
    BY <2>3, <2>4
  <2>6. QED
    BY <1>1, <2>3, <2>4, <2>5
<1>4. RemoveAt(s, i) = front \o back
  BY DEF RemoveAt
<1> HIDE DEF front, back
<1>5. /\ front \o back \in Seq(S)
      /\ Len(front \o back) = Len(front) + Len(back)
      /\ \A j \in 1..(Len(front) + Len(back)) : (front \o back)[j] =
            IF j <= Len(front) THEN front[j] ELSE back[j - Len(front)]
  BY <1>2, <1>3, ConcatProperties
<1>6. i \in 1..(Len(front) + Len(back)) /\ ~(i <= Len(front)) /\ i - Len(front) = 1
  BY <1>1, <1>2, <1>3
<1>7. (front \o back)[i] = back[1]
  BY <1>5, <1>6
<1>8. \A j \in 1..(i - 1) : (front \o back)[j] = s[j]
  BY <1>1, <1>2, <1>3, <1>5
<1>9. Len(front \o back) = Len(s) - 1
  BY <1>1, <1>2, <1>3, <1>5
<1>10. QED
  BY <1>3, <1>4, <1>5, <1>7, <1>8, <1>9

\* What verification says of one entry of a chain.
LEMMA VerifiedEntry ==
    ASSUME NEW b, NEW es, Verified(b, es), NEW i \in 1..Len(es)
    PROVE  es[i].hash = entry_hash(es[i].seq, es[i].body, es[i].prev)
BY DEF Verified

\* What is left of a document is a first part of what it held.
FirstPart(b, es, doc) ==
    /\ IsPrefix(HeadOf(b, es).hash, HeadOf(LoadedBase(doc), LoadedEntries(doc)).hash)
    /\ IsPrefix(b.hash, LoadedBase(doc).hash)

\* The empty sequence, and a sequence itself, are first parts of it.
LEMMA PrefixEnds ==
    ASSUME NEW S, NEW s \in Seq(S)
    PROVE  IsPrefix(<<>>, s) /\ IsPrefix(s, s)
<1>1. Len(s) \in Nat /\ Len(<<>>) = 0
  BY LenProperties
<1>2. SubSeq(s, 1, 0) = <<>> /\ SubSeq(s, 1, Len(s)) = s /\ SubSeq(<<>>, 1, 0) = <<>>
  BY SubSeqEmpty, WholeSegment
<1>3. QED
  BY <1>1, <1>2 DEF IsPrefix

\* The head of a journal is bound by a hash.
LEMMA HeadHash ==
    ASSUME NEW b \in Point, NEW es \in Seq(Entry)
    PROVE  HeadOf(b, es).hash \in Hash
<1>1. CASE es = <<>>
  BY <1>1 DEF HeadOf, Point
<1>2. CASE es # <<>>
  <2>1. Len(es) \in 1..Len(es)
    BY <1>2, EmptySeq
  <2>2. es[Len(es)] \in Entry
    BY <2>1, ElementOfSeq
  <2>3. QED
    BY <1>2, <2>2 DEF HeadOf, Last, PointOf, Entry
<1>3. QED
  BY <1>1, <1>2

\* What a document loads as has the hashes of a chain.
LEMMA LoadedHashes ==
    ASSUME NEW doc \in Document, Chained(LoadedBase(doc), LoadedEntries(doc))
    PROVE  /\ LoadedBase(doc) \in Point
           /\ LoadedEntries(doc) \in Seq(Entry)
           /\ LoadedBase(doc).hash \in Hash
           /\ HeadOf(LoadedBase(doc), LoadedEntries(doc)).hash \in Hash
<1> DEFINE b == LoadedBase(doc)
           es == LoadedEntries(doc)
<1>1. b \in Point /\ es \in Seq(Entry)
  BY EmptyChains DEF Document, LoadedBase, LoadedEntries
<1>2. HeadOf(b, es).hash \in Hash
  BY <1>1, HeadHash
<1>3. QED
  BY <1>1, <1>2 DEF Point

\* A shortened document is a chain, and a first part of what it was.
LEMMA ShortenedChains ==
    ASSUME NEW doc \in Document, Replayable(doc),
           Chained(LoadedBase(doc), LoadedEntries(doc)),
           NEW f \in Shortened(doc)
    PROVE  /\ f \in Document
           /\ Replayable(f)
           /\ Len(f.entries) <= Len(doc.entries)
           /\ Chained(f.base, f.entries)
           /\ FirstPart(f.base, f.entries, doc)
<1> DEFINE b == doc.base
           es == doc.entries
<1>1. /\ LoadedBase(doc) = b
      /\ LoadedEntries(doc) = es
      /\ doc.kind = "ours"
      /\ Verified(b, es)
  BY DEF LoadedBase, LoadedEntries, Replayable
<1>2. /\ b \in Point
      /\ es \in Seq(Entry)
      /\ Len(es) \in Nat
      /\ b.hash \in Hash
      /\ HeadOf(b, es).hash \in Hash
      /\ Chained(b, es)
  BY <1>1, LoadedHashes, LenProperties
<1>3. CASE es # <<>>
  <2>1. f = [doc EXCEPT !.entries = Front(es)]
    BY <1>3 DEF Shortened
  <2>2. /\ Front(es) \in Seq(Entry)
        /\ Len(Front(es)) = Len(es) - 1
        /\ Verified(b, Front(es))
        /\ Chained(b, Front(es))
        /\ IsPrefix(HeadOf(b, Front(es)).hash, HeadOf(b, es).hash)
    BY <1>1, <1>2, <1>3, FrontChains
  <2>3. f \in Document /\ f.kind = "ours" /\ f.base = b /\ f.entries = Front(es)
    BY <1>1, <2>1, <2>2 DEF Document
  <2>4. IsPrefix(b.hash, b.hash)
    BY <1>2, PrefixEnds DEF Hash
  <2>5. QED
    BY <1>1, <1>2, <2>2, <2>3, <2>4 DEF Replayable, FirstPart
<1>4. CASE es = <<>>
  <2>1. PICK n \in 0..(b.seq - 1) :
            f = [doc EXCEPT !.base = [seq |-> n, hash |-> SubSeq(b.hash, 1, n)]]
    BY <1>4 DEF Shortened
  <2> DEFINE c == [seq |-> n, hash |-> SubSeq(b.hash, 1, n)]
  <2>2. f = [doc EXCEPT !.base = c]
    BY <2>1
  <2>3. /\ c \in Point
        /\ Verified(c, <<>>)
        /\ Chained(c, <<>>)
        /\ IsPrefix(c.hash, b.hash)
    BY <1>2, <1>4, EarlierBaseChains
  <2> HIDE DEF c
  <2>4. f \in Document /\ f.kind = "ours" /\ f.base = c /\ f.entries = <<>>
    BY <1>1, <1>4, <2>2, <2>3 DEF Document
  <2>5. QED
    BY <1>1, <1>2, <1>4, <2>3, <2>4 DEF Replayable, FirstPart, HeadOf
<1>5. QED
  BY <1>3, <1>4

\* What a restart reads is a chain, and the file it leaves reads the same.
LEMMA LoadChains ==
    ASSUME NEW doc \in Document,
           Chained(LoadedBase(doc), LoadedEntries(doc)),
           Len(LoadedEntries(doc)) <= MaxPending,
           NEW found \in Found(doc), NEW left \in AfterLoad(found)
    PROVE  /\ left \in Document
           /\ LoadedBase(left) = LoadedBase(found)
           /\ LoadedEntries(left) = LoadedEntries(found)
           /\ LoadedBase(found) \in Point
           /\ LoadedEntries(found) \in Seq(Entry)
           /\ Len(LoadedEntries(found)) <= MaxPending
           /\ Verified(LoadedBase(found), LoadedEntries(found))
           /\ Chained(LoadedBase(found), LoadedEntries(found))
           /\ found = doc \/ FirstPart(LoadedBase(found), LoadedEntries(found), doc)
<1>1. ASSUME NEW kind \in FileKinds
      PROVE  /\ NoDocument(kind) \in Document
             /\ LoadedBase(NoDocument(kind)) = Origin
             /\ LoadedEntries(NoDocument(kind)) = <<>>
  BY EmptyChains DEF NoDocument, Document, LoadedBase, LoadedEntries, Replayable
<1>2. ASSUME Replayable(doc), NEW i \in 1..Len(doc.entries), NEW body \in Body
      PROVE  LET f == [doc EXCEPT !.entries[i].body = body]
             IN  /\ f \in Document
                 /\ f = doc \/ ~Replayable(f)
  <2> DEFINE f == [doc EXCEPT !.entries[i].body = body]
             e == doc.entries[i]
             fe == [e EXCEPT !.body = body]
  <2>1. /\ doc.entries \in Seq(Entry)
        /\ doc.kind \in FileKinds
        /\ doc.base \in Point
        /\ doc = [kind |-> doc.kind, base |-> doc.base, entries |-> doc.entries]
        /\ e \in Entry
    BY ElementOfSeq DEF Document
  <2>2. /\ fe \in Entry
        /\ fe.seq = e.seq /\ fe.prev = e.prev /\ fe.hash = e.hash /\ fe.body = body
    BY <2>1 DEF Entry
  <2>3. /\ f.entries = [doc.entries EXCEPT ![i] = fe]
        /\ f.base = doc.base
        /\ f.kind = doc.kind
        /\ f \in [kind: FileKinds, base: Point, entries: {f.entries}]
    BY <2>1
  <2>4. /\ f.entries \in Seq(Entry)
        /\ Len(f.entries) = Len(doc.entries)
        /\ f.entries[i] = fe
    BY <2>1, <2>2, <2>3, ExceptSeq
  <2>5. f \in Document
    BY <2>1, <2>3, <2>4 DEF Document
  <2>6. ASSUME Replayable(f)
        PROVE  f = doc
    <3>1. e.hash = Append(e.prev, <<e.seq, e.body>>)
      <4>1. Verified(doc.base, doc.entries)
        BY <1>2 DEF Replayable
      <4>2. QED
        BY <4>1, <1>2, VerifiedEntry DEF entry_hash
    <3>2. fe.hash = Append(fe.prev, <<fe.seq, fe.body>>)
      <4>1. Verified(f.base, f.entries)
        BY <2>6 DEF Replayable
      <4>2. i \in 1..Len(f.entries)
        BY <1>2, <2>4
      <4> HIDE DEF f, fe
      <4>3. f.entries[i].hash =
               entry_hash(f.entries[i].seq, f.entries[i].body, f.entries[i].prev)
        BY <4>1, <4>2, VerifiedEntry
      <4>4. QED
        BY <2>4, <4>3 DEF entry_hash
    <3>3. <<e.seq, e.body>> = <<e.seq, body>>
      <4>1. e.prev \in Seq(Nat \X Body)
        BY <2>1 DEF Entry, Hash
      <4>2. <<e.seq, e.body>> \in Nat \X Body /\ <<e.seq, body>> \in Nat \X Body
        BY <2>1 DEF Entry
      <4>3. Append(e.prev, <<e.seq, e.body>>) = Append(e.prev, <<e.seq, body>>)
        BY <2>2, <3>1, <3>2
      <4> HIDE DEF e, f, fe
      <4>4. QED
        BY <4>1, <4>2, <4>3, AppendInjective
    <3>4. fe = e
      BY <2>1, <3>3 DEF Entry
    <3>5. f.entries = doc.entries
      BY <2>1, <2>3, <3>4
    <3>6. QED
      BY <2>1, <3>5
  <2>7. QED
    BY <2>5, <2>6
<1>3. ASSUME Replayable(doc), NEW i \in 1..(Len(doc.entries) - 1)
      PROVE  LET f == [doc EXCEPT !.entries = RemoveAt(@, i)]
             IN  /\ f \in Document
                 /\ ~Replayable(f)
  <2> DEFINE es == doc.entries
             g == RemoveAt(es, i)
             f == [doc EXCEPT !.entries = RemoveAt(@, i)]
  <2>1. /\ es \in Seq(Entry)
        /\ Len(es) \in Nat
        /\ i \in 1..Len(es) /\ i + 1 \in 1..Len(es)
        /\ \A j \in 1..Len(es) : es[j] \in Entry
        /\ f.entries = g /\ f.base = doc.base /\ f.kind = doc.kind
        /\ doc.base.seq \in Nat
    BY ElementOfSeq, LenProperties DEF Document, Point
  <2>2. /\ g \in Seq(Entry)
        /\ Len(g) = Len(es) - 1
        /\ \A j \in 1..(i - 1) : g[j] = es[j]
        /\ g[i] = es[i + 1]
    BY <2>1, <1>3, RemoveAtProperties
  <2>3. f \in Document
    BY <2>1, <2>2 DEF Document
  <2>4. ASSUME Replayable(f)
        PROVE  FALSE
    <3>1. es[i + 1].seq = doc.base.seq + (i + 1)
      BY <2>1, <1>3 DEF Chained, LoadedBase, LoadedEntries
    <3>2. (IF i = 1 THEN doc.base ELSE PointOf(g[i - 1])).seq = doc.base.seq + (i - 1)
      <4>1. CASE i = 1
        BY <2>1, <4>1
      <4>2. CASE i # 1
        <5>1. i - 1 \in 1..(i - 1) /\ i - 1 \in 1..Len(es)
          BY <2>1, <4>2
        <5>2. es[i - 1].seq = doc.base.seq + (i - 1)
          BY <5>1, <1>3 DEF Chained, LoadedBase, LoadedEntries
        <5>3. QED
          BY <2>2, <4>2, <5>1, <5>2 DEF PointOf
      <4>3. QED
        BY <4>1, <4>2
    <3>3. g[i].seq = (IF i = 1 THEN doc.base ELSE PointOf(g[i - 1])).seq + 1
      <4>1. Verified(doc.base, g)
        BY <2>1, <2>4 DEF Replayable
      <4>2. i \in 1..Len(g)
        BY <2>1, <2>2
      <4> HIDE DEF g
      <4>3. QED
        BY <4>1, <4>2 DEF Verified
    <3>4. QED
      BY <2>1, <2>2, <3>1, <3>2, <3>3
  <2>5. QED
    BY <2>3, <2>4
<1>4. /\ found \in Document
      /\ \/ found = doc
         \/ ~Replayable(found)
         \/ Replayable(doc) /\ found \in Shortened(doc)
  <2>1. CASE ~Replayable(doc)
    BY <2>1 DEF Found
  <2>2. CASE Replayable(doc) /\ found \in {NoDocument("foreign"), NoDocument("unreadable")}
    BY <2>2, <1>1 DEF FileKinds, NoDocument, Replayable
  <2>3. ASSUME Replayable(doc), NEW i \in 1..Len(doc.entries), NEW body \in Body,
               found = [doc EXCEPT !.entries[i].body = body]
        PROVE  /\ found \in Document
               /\ found = doc \/ ~Replayable(found)
    BY <1>2, <2>3
  <2>4. ASSUME Replayable(doc), NEW i \in 1..(Len(doc.entries) - 1),
               found = [doc EXCEPT !.entries = RemoveAt(@, i)]
        PROVE  /\ found \in Document
               /\ found = doc \/ ~Replayable(found)
    BY <1>3, <2>4
  <2>5. CASE found = doc
    BY <2>5
  <2>6. \/ ~Replayable(doc)
        \/ Replayable(doc) /\ found \in {NoDocument("foreign"), NoDocument("unreadable")}
        \/ found = doc
        \/ /\ Replayable(doc)
           /\ \E i \in 1..Len(doc.entries), body \in Body :
                 found = [doc EXCEPT !.entries[i].body = body]
        \/ /\ Replayable(doc)
           /\ \E i \in 1..(Len(doc.entries) - 1) :
                 found = [doc EXCEPT !.entries = RemoveAt(@, i)]
        \/ Replayable(doc) /\ found \in Shortened(doc)
    <3>1. \/ ~Replayable(doc)
          \/ Replayable(doc) /\ found \in {NoDocument("foreign"), NoDocument("unreadable")}
          \/ found = doc
          \/ Replayable(doc) /\ found \in Edited(doc)
          \/ Replayable(doc) /\ found \in Shortened(doc)
      BY DEF Found
    <3>2. found \in Edited(doc) =>
             \/ \E i \in 1..Len(doc.entries), body \in Body :
                   found = [doc EXCEPT !.entries[i].body = body]
             \/ \E i \in 1..(Len(doc.entries) - 1) :
                   found = [doc EXCEPT !.entries = RemoveAt(@, i)]
      BY DEF Edited
    <3>3. QED
      BY <3>1, <3>2
  <2>7. CASE Replayable(doc) /\ found \in Shortened(doc)
    BY <2>7, ShortenedChains
  <2>8. QED
    BY <2>1, <2>2, <2>3, <2>4, <2>5, <2>6, <2>7
<1>5. /\ left \in Document
      /\ LoadedBase(left) = LoadedBase(found)
      /\ LoadedEntries(left) = LoadedEntries(found)
  BY <1>1, <1>4 DEF AfterLoad, Replayable, LoadedBase, LoadedEntries, FileKinds
<1>6. CASE ~Replayable(found)
  <2>1. LoadedBase(found) = Origin /\ LoadedEntries(found) = <<>>
    BY <1>6 DEF LoadedBase, LoadedEntries
  <2>2. Len(LoadedEntries(found)) <= MaxPending
    BY <2>1, MaxPendingAssumption, EmptySeq
  <2>3. FirstPart(Origin, <<>>, doc)
    <3>1. /\ IsPrefix(<<>>, HeadOf(LoadedBase(doc), LoadedEntries(doc)).hash)
          /\ IsPrefix(<<>>, LoadedBase(doc).hash)
      BY LoadedHashes, PrefixEnds DEF Hash
    <3>2. QED
      BY <3>1 DEF FirstPart, HeadOf, Origin, GENESIS
  <2>4. QED
    BY <1>5, <2>1, <2>2, <2>3, EmptyChains
<1>7. CASE found = doc /\ Replayable(doc)
  <2>1. LoadedBase(doc) \in Point /\ LoadedEntries(doc) \in Seq(Entry)
    BY <1>7 DEF LoadedBase, LoadedEntries, Document
  <2>2. Verified(LoadedBase(doc), LoadedEntries(doc))
    BY <1>7 DEF LoadedBase, LoadedEntries, Replayable
  <2>3. QED
    BY <1>5, <1>7, <2>1, <2>2
<1>8. CASE Replayable(doc) /\ found \in Shortened(doc)
  <2>1. /\ Replayable(found)
        /\ Len(found.entries) <= Len(doc.entries)
        /\ Chained(found.base, found.entries)
        /\ FirstPart(found.base, found.entries, doc)
    BY <1>8, ShortenedChains
  <2>2. /\ LoadedBase(found) = found.base
        /\ LoadedEntries(found) = found.entries
        /\ LoadedEntries(doc) = doc.entries
        /\ Verified(found.base, found.entries)
    BY <1>8, <2>1 DEF LoadedBase, LoadedEntries, Replayable
  <2>3. found.base \in Point /\ found.entries \in Seq(Entry)
    BY <1>4 DEF Document
  <2>4. Len(found.entries) <= MaxPending
    <3>1. Len(doc.entries) \in Nat /\ Len(found.entries) \in Nat
      BY <1>4, LenProperties DEF Document
    <3>2. Len(doc.entries) <= MaxPending
      BY <2>2
    <3> HIDE DEF Document
    <3>3. QED
      BY <2>1, <3>1, <3>2, MaxPendingAssumption
  <2>5. QED
    BY <1>5, <2>1, <2>2, <2>3, <2>4
<1>9. QED
  BY <1>4, <1>6, <1>7, <1>8

-----------------------------------------------------------------------------
(* The inductive invariant.                                                *)

\* A save leaves the file as it was or makes it the memory's copy.
LEMMA SaveKeeps ==
    ASSUME NEW b \in Point, NEW es \in Seq(Entry), Len(es) <= MaxPending,
           Verified(b, es), Chained(b, es),
           JournalTypeOK, FileInv, NEW ok \in BOOLEAN, Save(b, es, ok),
           base' = b, entries' = es
    PROVE  /\ saveFailed' \in BOOLEAN
           /\ file' \in Document
           /\ FileInv'
           /\ FileIsCurrent'
<1>1. CASE ~HasFile
  BY <1>1 DEF Save, JournalTypeOK, FileInv, FileIsCurrent
<1>2. CASE HasFile /\ ~ok
  BY <1>2 DEF Save, JournalTypeOK, FileInv, FileIsCurrent
<1>3. CASE HasFile /\ ok
  <2>1. file' = Saved(b, es) /\ saveFailed' = FALSE
    BY <1>3 DEF Save
  <2>2. /\ Saved(b, es) \in Document
        /\ LoadedBase(Saved(b, es)) = b
        /\ LoadedEntries(Saved(b, es)) = es
    BY DEF Saved, Document, FileKinds, LoadedBase, LoadedEntries, Replayable
  <2>3. QED
    BY <2>1, <2>2 DEF FileInv, FileIsCurrent
<1>4. QED
  BY <1>1, <1>2, <1>3

\* The head counts every entry since the chain began.
LEMMA HeadIsPoint ==
    ASSUME JournalTypeOK, Chained(base, entries)
    PROVE  /\ head \in Point
           /\ head.seq = base.seq + Len(entries)
           /\ Len(head.hash) = head.seq
<1>1. /\ base.seq \in Nat
      /\ Len(entries) \in Nat
      /\ base \in Point
  BY LenProperties DEF JournalTypeOK, Point
<1>2. CASE entries = <<>>
  BY <1>1, <1>2 DEF head, HeadOf, Chained, Point
<1>3. CASE entries # <<>>
  <2>1. /\ Len(entries) \in 1..Len(entries)
        /\ Last(entries) \in Entry
        /\ Last(entries) = entries[Len(entries)]
    BY <1>3, EmptySeq, ElementOfSeq DEF Last, JournalTypeOK
  <2>2. head = PointOf(Last(entries))
    BY <1>3 DEF head, HeadOf
  <2>3. QED
    BY <1>1, <2>1, <2>2 DEF Chained, head, PointOf, Entry, Point
<1>4. QED
  BY <1>2, <1>3

\* append that keeps its entry.
LEMMA AppendKeptInv ==
    ASSUME JournalInv, NEW body \in Body, NEW durable \in BOOLEAN,
           AppendKept(body, durable)
    PROVE  /\ JournalInv'
           /\ head' = PointOf(NewEntry(body))
           /\ NewEntry(body) \in Entry
<1>1. /\ base \in Point
      /\ entries \in Seq(Entry)
      /\ Verified(base, entries)
      /\ Chained(base, entries)
      /\ base' = base
      /\ entries' = Append(entries, NewEntry(body))
      /\ Len(entries) < MaxPending
  BY DEF JournalInv, JournalTypeOK, AppendKept, CanAppend
<1>2. /\ NewEntry(body) \in Entry
      /\ entries' \in Seq(Entry)
      /\ Verified(base, entries')
      /\ Chained(base, entries')
      /\ HeadOf(base, entries') = PointOf(NewEntry(body))
  BY <1>1, AppendChains DEF NewEntry, head
<1>3. Len(entries') <= MaxPending
  BY <1>1, <1>2, AppendProperties, LenProperties, MaxPendingAssumption
<1>4. PICK ok \in BOOLEAN : Save(base, entries', ok)
  BY DEF AppendKept
<1>5. /\ saveFailed' \in BOOLEAN
      /\ file' \in Document
      /\ FileInv'
      /\ FileIsCurrent'
  BY <1>1, <1>2, <1>3, <1>4, SaveKeeps DEF JournalInv
<1>6. QED
  BY <1>1, <1>2, <1>3, <1>5 DEF JournalInv, JournalTypeOK, head

\* append that takes its entry back.
LEMMA AppendUndoneInv ==
    ASSUME JournalInv, AppendUndone
    PROVE  JournalInv' /\ UNCHANGED <<base, entries>>
<1>1. PICK ok \in BOOLEAN : Save(base, entries, ok)
  BY DEF AppendUndone
<1>2. UNCHANGED <<base, entries>>
  BY DEF AppendUndone
<1>3. /\ saveFailed' \in BOOLEAN
      /\ file' \in Document
      /\ FileInv'
      /\ FileIsCurrent'
  BY <1>1, <1>2, SaveKeeps DEF JournalInv, JournalTypeOK
<1>4. QED
  BY <1>2, <1>3 DEF JournalInv, JournalTypeOK

\* settle and settle_through: the head stays, the base moves n entries on.
LEMMA TakeInv ==
    ASSUME JournalInv, NEW n \in Nat, Take(n)
    PROVE  /\ JournalInv'
           /\ head' = head
           /\ base'.seq = base.seq + n
           /\ n > 0
           /\ base'.seq <= head.seq
<1>1. /\ base \in Point
      /\ base.seq \in Nat
      /\ entries \in Seq(Entry)
      /\ Len(entries) \in Nat
      /\ Verified(base, entries)
      /\ Chained(base, entries)
      /\ n \in 1..Len(entries)
      /\ base' = PointOf(entries[n])
      /\ entries' = SubSeq(entries, n + 1, Len(entries))
      /\ Len(entries) <= MaxPending
  BY LenProperties DEF JournalInv, JournalTypeOK, Take, Point
<1>2. /\ base' \in Point
      /\ entries' \in Seq(Entry)
      /\ Len(entries') = Len(entries) - n
      /\ Verified(base', entries')
      /\ Chained(base', entries')
      /\ HeadOf(base', entries') = HeadOf(base, entries)
  BY <1>1, TakeChains
<1>3. Len(entries') <= MaxPending
  BY <1>1, <1>2, MaxPendingAssumption
<1>4. PICK ok \in BOOLEAN : Save(base', entries', ok)
  BY DEF Take
<1>5. /\ saveFailed' \in BOOLEAN
      /\ file' \in Document
      /\ FileInv'
      /\ FileIsCurrent'
  BY <1>2, <1>3, <1>4, SaveKeeps DEF JournalInv
<1>6. JournalInv' /\ head' = head
  BY <1>2, <1>3, <1>5 DEF JournalInv, JournalTypeOK, head
<1>7. base'.seq = base.seq + n
  BY <1>1 DEF PointOf, Chained
<1>8. base'.seq <= head.seq
  BY <1>1, <1>7, HeadIsPoint DEF JournalInv
<1>9. QED
  BY <1>1, <1>6, <1>7, <1>8

\* A restart, whatever happened to the file in the meantime.
LEMMA RestartInv ==
    ASSUME JournalInv, Restart
    PROVE  /\ JournalInv'
           /\ \/ /\ base' = LoadedBase(file)
                 /\ entries' = LoadedEntries(file)
              \/ FirstPart(base', entries', file)
           /\ LoadedBase(file') = base'
           /\ LoadedEntries(file') = entries'
<1>1. PICK doc \in Found(file) : Load(doc)
  BY DEF Restart
<1>2. /\ file \in Document
      /\ Chained(LoadedBase(file), LoadedEntries(file))
      /\ Len(LoadedEntries(file)) <= MaxPending
  BY DEF JournalInv, JournalTypeOK, FileInv
<1>3. /\ base' = LoadedBase(doc)
      /\ entries' = LoadedEntries(doc)
      /\ saveFailed' = FALSE
      /\ file' \in AfterLoad(doc)
  BY <1>1 DEF Load
<1>4. /\ file' \in Document
      /\ LoadedBase(file') = base'
      /\ LoadedEntries(file') = entries'
      /\ base' \in Point
      /\ entries' \in Seq(Entry)
      /\ Len(entries') <= MaxPending
      /\ Verified(base', entries')
      /\ Chained(base', entries')
      /\ doc = file \/ FirstPart(base', entries', file)
  BY <1>2, <1>3, LoadChains
<1>5. QED
  BY <1>3, <1>4 DEF JournalInv, JournalTypeOK, FileInv, FileIsCurrent

\* The first start.
LEMMA InitInv == JournalInit => JournalInv
<1> SUFFICES ASSUME JournalInit PROVE JournalInv
  OBVIOUS
<1>1. /\ NoDocument("missing") \in Document
      /\ LoadedBase(NoDocument("missing")) = Origin
      /\ LoadedEntries(NoDocument("missing")) = <<>>
  BY EmptyChains DEF NoDocument, Document, FileKinds, LoadedBase, LoadedEntries, Replayable
<1>2. Len(<<>>) <= MaxPending
  BY MaxPendingAssumption
<1>3. QED
  BY <1>1, <1>2, EmptyChains
     DEF JournalInit, JournalInv, JournalTypeOK, FileInv, FileIsCurrent

\* Every step keeps the invariant.
LEMMA NextInv == JournalInv /\ [JournalNext]_journalVars => JournalInv'
<1> SUFFICES ASSUME JournalInv, [JournalNext]_journalVars PROVE JournalInv'
  OBVIOUS
<1>1. ASSUME NEW body \in Body, NEW durable \in BOOLEAN, AppendKept(body, durable)
      PROVE  JournalInv'
  BY <1>1, AppendKeptInv
<1>2. CASE AppendUndone
  BY <1>2, AppendUndoneInv
<1>3. ASSUME NEW n \in 1..Len(entries), Take(n)
      PROVE  JournalInv'
  BY <1>3, TakeInv
<1>4. CASE Restart
  BY <1>4, RestartInv
<1>5. CASE UNCHANGED journalVars
  <2>1. UNCHANGED <<base, entries, saveFailed, file>>
    BY <1>5 DEF journalVars
  <2>2. JournalTypeOK'
    BY <2>1 DEF JournalInv, JournalTypeOK
  <2>3. Verified(base, entries)' /\ Chained(base, entries)'
    BY <2>1 DEF JournalInv
  <2>4. FileInv'
    BY <2>1 DEF JournalInv, FileInv
  <2>5. FileIsCurrent'
    BY <2>1 DEF JournalInv, FileIsCurrent
  <2>6. QED
    BY <2>2, <2>3, <2>4, <2>5 DEF JournalInv
<1>6. ASSUME NEW seq \in 1..MaxSeq, settle(seq)
      PROVE  \E n \in 1..Len(entries) : Take(n)
  BY <1>6 DEF settle, Take
<1>7. ASSUME NEW seq \in 1..MaxSeq, settle_through(seq)
      PROVE  \E n \in 1..Len(entries) : Take(n)
  BY <1>7 DEF settle_through
<1>8. QED
  BY <1>1, <1>2, <1>3, <1>4, <1>5, <1>6, <1>7 DEF JournalNext

\* So it always holds.
LEMMA InvHolds == JournalSpec => []JournalInv
BY InitInv, NextInv, PTL DEF JournalSpec

(***************************************************************************)
(* Every reachable state of the journal is well typed and within its       *)
(* bound: append never lets more than MAX_PENDING entries wait.            *)
(***************************************************************************)
THEOREM JournalTypeCorrect == JournalSpec => []JournalTypeOK
<1>1. JournalInv => JournalTypeOK
  BY DEF JournalInv
<1>2. QED
  BY <1>1, InvHolds, PTL

(***************************************************************************)
(* The chain never breaks, in memory or in what a restart would replay:    *)
(* append, the roll-back of a durable append, settle, settle_through and a *)
(* restart on a damaged file all keep it.                                  *)
(***************************************************************************)
THEOREM ChainAlwaysHolds == JournalSpec => []ChainHolds
<1>1. JournalInv => ChainHolds
  BY DEF JournalInv, FileInv, ChainHolds
<1>2. QED
  BY <1>1, InvHolds, PTL

(***************************************************************************)
(* _save_failed can be trusted: when it is False, the file holds exactly   *)
(* what memory holds.                                                      *)
(***************************************************************************)
THEOREM FileAlwaysCurrent == JournalSpec => []FileIsCurrent
<1>1. JournalInv => FileIsCurrent
  BY DEF JournalInv
<1>2. QED
  BY <1>1, InvHolds, PTL

-----------------------------------------------------------------------------
(* The journal implements the outbox.                                      *)

\* A save makes all of memory safe, or nothing.
LEMMA SaveSecures ==
    ASSUME NEW b, NEW es, Verified(b, es), NEW ok \in BOOLEAN, Save(b, es, ok)
    PROVE  \/ /\ LoadedBase(file') = b
              /\ LoadedEntries(file') = es
           \/ UNCHANGED file
BY DEF Save, Saved, LoadedBase, LoadedEntries, Replayable

\* The first start is the empty outbox.
LEMMA InitPromise == JournalInit => Promise!Init
BY DEF JournalInit, Promise!Init, head, HeadOf, Origin, GENESIS, NoDocument, LoadedBase,
   LoadedEntries, Replayable

\* What leaves the journal is settled, and nothing else changes.
LEMMA TakePromise ==
    ASSUME JournalInv, NEW n \in 1..Len(entries), Take(n)
    PROVE  Promise!Settle
<1>0. n \in Nat
  OBVIOUS
<1>1. /\ JournalInv'
      /\ head' = head
      /\ base'.seq = base.seq + n
      /\ n > 0
      /\ base'.seq <= head.seq
      /\ base.seq \in Nat
  BY <1>0, TakeInv DEF JournalInv, JournalTypeOK, Point
<1>2. /\ head.hash \in Seq(Nat \X Body)
      /\ Len(head.hash) = head.seq
      /\ head.seq \in Nat
  BY HeadIsPoint DEF JournalInv, Point, Hash
<1>3. /\ base.hash = SubSeq(head.hash, 1, base.seq)
      /\ base'.hash = SubSeq(head.hash, 1, base'.seq)
  BY <1>1 DEF JournalInv, Chained, head
<1>4. /\ IsPrefix(base.hash, base'.hash)
      /\ IsPrefix(base'.hash, head.hash)
      /\ Len(base.hash) = base.seq
      /\ Len(base'.hash) = base'.seq
  <2>1. base.seq \in 0..Len(head.hash) /\ base'.seq \in 0..Len(head.hash)
    BY <1>0, <1>1, <1>2
  <2>2. base.seq <= base'.seq /\ base'.seq <= base'.seq
    BY <1>0, <1>1
  <2>3. QED
    BY <1>2, <1>3, <2>1, <2>2, SegmentsArePrefixes
<1>5. base.hash # base'.hash
  BY <1>0, <1>1, <1>4
<1>6. PICK ok \in BOOLEAN : Save(base', entries', ok)
  BY DEF Take
<1>7. \/ /\ LoadedBase(file') = base'
         /\ LoadedEntries(file') = entries'
      \/ UNCHANGED file
  BY <1>1, <1>6, SaveSecures DEF JournalInv
<1>8. \/ /\ HeadOf(LoadedBase(file), LoadedEntries(file)).hash' = head.hash
         /\ LoadedBase(file).hash' = base'.hash
      \/ UNCHANGED <<HeadOf(LoadedBase(file), LoadedEntries(file)).hash,
                     LoadedBase(file).hash>>
  BY <1>1, <1>7 DEF head, HeadOf, LoadedBase, LoadedEntries, Replayable
<1>9. QED
  BY <1>1, <1>4, <1>5, <1>8
     DEF Promise!Settle, Promise!Secure, Promise!IsStrictPrefix, Promise!IsPrefix, IsPrefix

\* Appending extends the log by one at its end, and leaves what is settled.
LEMMA AppendPromise ==
    ASSUME JournalInv, NEW body \in Body, NEW durable \in BOOLEAN,
           AppendKept(body, durable)
    PROVE  Promise!Extend
<1> DEFINE h == head.hash
           Item == Nat \X Body
           x == <<head.seq + 1, body>>
<1>1. /\ JournalInv'
      /\ head' = PointOf(NewEntry(body))
      /\ NewEntry(body).hash = Append(h, x)
      /\ base' = base
  BY AppendKeptInv DEF NewEntry, entry_hash, AppendKept
<1>2. /\ h \in Seq(Item)
      /\ x \in Item
      /\ Len(h) \in Nat
  <2>1. head \in Point
    BY HeadIsPoint DEF JournalInv
  <2>2. head.seq \in Nat /\ h \in Seq(Item)
    BY <2>1 DEF Point, Hash
  <2>3. QED
    BY <2>2, LenProperties
<1>3. head.hash' = Append(h, x)
  BY <1>1 DEF PointOf
<1>4. Len(Append(h, x)) = Len(h) + 1 /\ IsPrefix(h, Append(h, x))
  <2> HIDE DEF h, x, Item
  <2>1. Len(Append(h, x)) = Len(h) + 1
    BY <1>2, AppendProperties
  <2>2. SubSeq(Append(h, x), 1, Len(h)) = SubSeq(h, 1, Len(h))
    BY <1>2, SegmentOfAppend
  <2>3. QED
    BY <1>2, <2>1, <2>2 DEF IsPrefix
<1>5. PICK ok \in BOOLEAN : Save(base, entries', ok)
  BY DEF AppendKept
<1>6. \/ /\ LoadedBase(file') = base
         /\ LoadedEntries(file') = entries'
      \/ UNCHANGED file
  BY <1>1, <1>5, SaveSecures DEF JournalInv
<1>7. \/ /\ HeadOf(LoadedBase(file), LoadedEntries(file)).hash' = head.hash'
         /\ LoadedBase(file).hash' = base.hash
      \/ UNCHANGED <<HeadOf(LoadedBase(file), LoadedEntries(file)).hash,
                     LoadedBase(file).hash>>
  BY <1>1, <1>6 DEF head, HeadOf, LoadedBase, LoadedEntries, Replayable
<1>8. QED
  BY <1>1, <1>3, <1>4, <1>7
     DEF Promise!Extend, Promise!Secure, Promise!IsPrefix, IsPrefix

\* The roll-back of a durable append is no more than a save.
LEMMA UndonePromise ==
    ASSUME JournalInv, AppendUndone
    PROVE  Promise!Flush
<1>1. /\ UNCHANGED <<base, entries>>
      /\ JournalInv'
  BY AppendUndoneInv
<1>2. PICK ok \in BOOLEAN : Save(base, entries, ok)
  BY DEF AppendUndone
<1>3. \/ /\ LoadedBase(file') = base
         /\ LoadedEntries(file') = entries
      \/ UNCHANGED file
  BY <1>2, SaveSecures DEF JournalInv
<1>4. UNCHANGED <<head.hash, base.hash>>
  BY <1>1 DEF head, HeadOf
<1>5. \/ /\ HeadOf(LoadedBase(file), LoadedEntries(file)).hash' = head.hash
         /\ LoadedBase(file).hash' = base.hash
      \/ UNCHANGED <<HeadOf(LoadedBase(file), LoadedEntries(file)).hash,
                     LoadedBase(file).hash>>
  BY <1>3 DEF head, HeadOf, LoadedBase, LoadedEntries, Replayable
<1>6. QED
  BY <1>4, <1>5 DEF Promise!Flush, Promise!Secure

\* What is settled is a first part of the log.
LEMMA BaseBeforeHead ==
    ASSUME NEW b \in Point, NEW es \in Seq(Entry), Chained(b, es)
    PROVE  IsPrefix(b.hash, HeadOf(b, es).hash)
<1> DEFINE h == HeadOf(b, es).hash
<1>1. h \in Seq(Nat \X Body)
  BY HeadHash DEF Hash
<1>2. Len(h) = b.seq + Len(es) /\ b.seq \in Nat /\ Len(es) \in Nat
  BY LenProperties DEF Chained, Point
<1>3. b.hash = SubSeq(h, 1, b.seq)
  BY DEF Chained
<1> HIDE DEF h
<1>4. b.seq \in 0..Len(h)
  BY <1>2
<1>5. IsPrefix(SubSeq(h, 1, b.seq), h)
  BY <1>1, <1>4, SegmentsArePrefixes
<1>6. QED
  BY <1>3, <1>5 DEF h

\* A restart starts from what was safe, or, when the file was damaged or is
\* another gateway's, from a first part of it.
LEMMA RestartPromise ==
    ASSUME JournalInv, Restart
    PROVE  Promise!Recover \/ Promise!Lose
<1>1. /\ \/ /\ base' = LoadedBase(file)
            /\ entries' = LoadedEntries(file)
         \/ FirstPart(base', entries', file)
      /\ LoadedBase(file') = base'
      /\ LoadedEntries(file') = entries'
      /\ JournalInv'
  BY RestartInv
<1>2. CASE base' = LoadedBase(file) /\ entries' = LoadedEntries(file)
  <2>1. /\ head.hash' = HeadOf(LoadedBase(file), LoadedEntries(file)).hash
        /\ base.hash' = LoadedBase(file).hash
        /\ UNCHANGED <<HeadOf(LoadedBase(file), LoadedEntries(file)).hash,
                       LoadedBase(file).hash>>
    BY <1>1, <1>2 DEF head, HeadOf, LoadedBase, LoadedEntries, Replayable
  <2>2. QED
    BY <2>1 DEF Promise!Recover
<1>3. CASE FirstPart(base', entries', file)
  <2>1. /\ IsPrefix(head.hash', HeadOf(LoadedBase(file), LoadedEntries(file)).hash)
        /\ IsPrefix(base.hash', LoadedBase(file).hash)
    BY <1>3 DEF FirstPart, head
  <2>2. IsPrefix(base.hash', head.hash')
    <3>1. base' \in Point /\ entries' \in Seq(Entry) /\ Chained(base', entries')
      BY <1>1 DEF JournalInv, JournalTypeOK
    <3>2. head' = HeadOf(base', entries')
      BY DEF head
    <3>3. QED
      BY <3>1, <3>2, BaseBeforeHead
  <2>3. /\ HeadOf(LoadedBase(file), LoadedEntries(file)).hash' = head.hash'
        /\ LoadedBase(file).hash' = base.hash'
    BY <1>1 DEF head, HeadOf, LoadedBase, LoadedEntries, Replayable
  <2>4. QED
    BY <2>1, <2>2, <2>3 DEF Promise!Lose, Promise!IsPrefix, IsPrefix
<1>4. QED
  BY <1>1, <1>2, <1>3

\* Started on the file as it was left, it starts from what was safe.
LEMMA LoadPromise ==
    ASSUME JournalInv, Load(file)
    PROVE  Promise!Recover
<1>1. Restart
  BY DEF Restart, Found
<1>2. /\ base' = LoadedBase(file) /\ entries' = LoadedEntries(file)
      /\ LoadedBase(file') = base' /\ LoadedEntries(file') = entries'
  BY <1>1, RestartInv DEF Load
<1>3. /\ head.hash' = HeadOf(LoadedBase(file), LoadedEntries(file)).hash
      /\ base.hash' = LoadedBase(file).hash
      /\ UNCHANGED <<HeadOf(LoadedBase(file), LoadedEntries(file)).hash,
                     LoadedBase(file).hash>>
  BY <1>2 DEF head, HeadOf, LoadedBase, LoadedEntries, Replayable
<1> QED
  BY <1>3 DEF Promise!Recover

\* A step elsewhere is none of the outbox.
LEMMA RestPromise ==
    ASSUME UNCHANGED journalVars
    PROVE  UNCHANGED Promise!vars
<1>1. UNCHANGED <<base, entries, file>>
  BY DEF journalVars
<1>2. UNCHANGED head.hash
  BY <1>1 DEF head, HeadOf
<1>3. UNCHANGED base.hash
  BY <1>1
<1>4. UNCHANGED HeadOf(LoadedBase(file), LoadedEntries(file)).hash
  BY <1>1 DEF HeadOf, LoadedBase, LoadedEntries, Replayable
<1>5. UNCHANGED LoadedBase(file).hash
  BY <1>1 DEF LoadedBase, Replayable
<1> QED
  BY <1>2, <1>3, <1>4, <1>5 DEF Promise!vars

\* What keeps the outbox where nobody damages it implements the outbox.
LEMMA UndamagedIsOutbox == KeepsOutbox => ImplementsOutbox
<1>1. [Promise!Undamaged]_(Promise!vars) => [Promise!Next]_(Promise!vars)
  BY DEF Promise!Undamaged, Promise!Next
<1> QED
  BY <1>1, PTL DEF KeepsOutbox, ImplementsOutbox, Promise!UndamagedSpec, Promise!Spec

\* Every step of the journal is one of the outbox, or none.
LEMMA NextPromise ==
    JournalInv /\ [JournalNext]_journalVars => [Promise!Next]_(Promise!vars)
<1> SUFFICES ASSUME JournalInv, [JournalNext]_journalVars
             PROVE  [Promise!Next]_(Promise!vars)
  OBVIOUS
<1>1. ASSUME NEW body \in Body, NEW durable \in BOOLEAN, AppendKept(body, durable)
      PROVE  Promise!Next
  BY <1>1, AppendPromise DEF Promise!Next
<1>2. CASE AppendUndone
  BY <1>2, UndonePromise DEF Promise!Next
<1>3. ASSUME NEW n \in 1..Len(entries), Take(n)
      PROVE  Promise!Next
  BY <1>3, TakePromise DEF Promise!Next
<1>4. CASE Restart
  BY <1>4, RestartPromise DEF Promise!Next
<1>5. CASE UNCHANGED journalVars
  BY <1>5, RestPromise
<1>6. ASSUME NEW seq \in 1..MaxSeq, settle(seq)
      PROVE  \E n \in 1..Len(entries) : Take(n)
  BY <1>6 DEF settle, Take
<1>7. ASSUME NEW seq \in 1..MaxSeq, settle_through(seq)
      PROVE  \E n \in 1..Len(entries) : Take(n)
  BY <1>7 DEF settle_through
<1>8. QED
  BY <1>1, <1>2, <1>3, <1>4, <1>5, <1>6, <1>7 DEF JournalNext

(***************************************************************************)
(* The journal implements the outbox: whatever is appended, settled, saved *)
(* or not saved, the log only grows at its end, what is settled is always  *)
(* its oldest part, and a restart goes back to what was safe and to        *)
(* nothing else; when the file does not hold it starts again empty, and    *)
(* when a hand shortened it, from a first part of what it held.            *)
(***************************************************************************)
THEOREM JournalImplementsOutbox == JournalSpec => ImplementsOutbox
<1>1. JournalInit => Promise!Init
  BY InitPromise
<1>2. JournalInv /\ [JournalNext]_journalVars => [Promise!Next]_(Promise!vars)
  BY NextPromise
<1>3. QED
  BY <1>1, <1>2, InvHolds, PTL DEF JournalSpec, ImplementsOutbox, Promise!Spec
=============================================================================
