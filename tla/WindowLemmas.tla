---------------------------- MODULE WindowLemmas ----------------------------
(***************************************************************************)
(* Facts about sliding windows, for the proofs about the limiters: their   *)
(* rings hold times in ascending order, and what a limiter throws away of  *)
(* one is what has left its window, at the head.                           *)
(***************************************************************************)
EXTENDS Integers, Sequences, FiniteSets, FiniteSetTheorems, SequenceTheorems, TLAPS

Ascending(times) == \A i, j \in DOMAIN times : i <= j => times[i] <= times[j]

\* As many times taken from the head as there are below the cutoff.
From(times, cutoff) ==
    SubSeq(times, Cardinality({i \in DOMAIN times : times[i] < cutoff}) + 1, Len(times))

\* A sequence that is `times' without its first n members, which are the ones below the
\* cutoff.
IsFrom(kept, times, cutoff, n) ==
    /\ n \in 0..Len(times)
    /\ Len(kept) = Len(times) - n
    /\ \A i \in 1..(Len(times) - n) : kept[i] = times[n + i] /\ kept[i] >= cutoff
    /\ \A i \in 1..n : times[i] < cutoff

\* A set of positive numbers that contains every number below its members is the
\* interval from one to its size.
LEMMA InitialSegment ==
    ASSUME NEW m \in Nat, NEW D \in SUBSET (1..m),
           \A i \in D : \A j \in 1..i : j \in D
    PROVE  Cardinality(D) \in 0..m /\ D = 1..Cardinality(D)
<1>1. IsFiniteSet(1..m) /\ Cardinality(1..m) = m
  BY FS_Interval
<1>2. IsFiniteSet(D) /\ Cardinality(D) \in Nat /\ Cardinality(D) <= m
  <2>1. IsFiniteSet(D) /\ Cardinality(D) <= Cardinality(1..m)
    BY <1>1, FS_Subset
  <2>2. Cardinality(D) \in Nat
    BY <2>1, FS_CardinalityType
  <2>. QED  BY <1>1, <2>1, <2>2
<1>3. ASSUME NEW i \in D
      PROVE  i <= Cardinality(D)
  <2>1. i \in Nat
    OBVIOUS
  <2>2. Cardinality(1..i) = i
    BY <2>1, FS_Interval
  <2>3. (1..i) \in SUBSET D
    OBVIOUS
  <2>4. Cardinality(1..i) <= Cardinality(D)
    BY <1>2, <2>3, FS_Subset
  <2>. QED  BY <2>2, <2>4
<1>4. ASSUME NEW i \in 1..Cardinality(D), i \notin D
      PROVE  FALSE
  <2>1. i \in Nat /\ i <= Cardinality(D)
    BY <1>2
  <2>2. i - 1 \in Int /\ 1 \in Int
    BY <2>1
  <2>3. IsFiniteSet(1..(i - 1)) /\ Cardinality(1..(i - 1)) = IF 1 > i - 1 THEN 0 ELSE (i - 1) - 1 + 1
    BY <2>2, FS_Interval
  <2>4. D \in SUBSET (1..(i - 1))
    <3>1. ASSUME NEW k \in D
          PROVE  k \in 1..(i - 1)
      <4>1. k \in Nat /\ 1 <= k
        OBVIOUS
      <4>2. ~(i <= k)
        BY <1>4, <2>1, <4>1
      <4>. QED  BY <2>1, <4>1, <4>2
    <3>. QED  BY <3>1
  <2>5. Cardinality(D) <= Cardinality(1..(i - 1))
    BY <2>3, <2>4, FS_Subset
  <2>. QED  BY <1>2, <1>4, <2>1, <2>3, <2>5
<1>. QED
  <2>1. ASSUME NEW i \in D
        PROVE  i \in 1..Cardinality(D)
    BY <1>2, <1>3
  <2>2. D = 1..Cardinality(D)
    BY <1>4, <2>1
  <2>. QED  BY <1>2, <2>2

\* Without its first n members, a sequence holds the others in their places.
LEMMA HeadDropped ==
    ASSUME NEW S, NEW times \in Seq(S), NEW n \in 0..Len(times)
    PROVE  LET kept == SubSeq(times, n + 1, Len(times)) IN
           /\ kept \in Seq(S) /\ Len(kept) = Len(times) - n
           /\ \A i \in 1..(Len(times) - n) : kept[i] = times[n + i]
<1> DEFINE kept == SubSeq(times, n + 1, Len(times))
<1>1. Len(times) \in Nat /\ DOMAIN times = 1..Len(times) /\ n \in Nat /\ n <= Len(times)
  OBVIOUS
<1>2. n + 1 \in Int /\ Len(times) \in Int /\ \A i \in (n + 1)..Len(times) : times[i] \in S
  BY <1>1
<1>3. /\ kept \in Seq(S)
      /\ Len(kept) = IF n + 1 <= Len(times) THEN Len(times) - (n + 1) + 1 ELSE 0
      /\ \A i \in 1..(Len(times) - (n + 1) + 1) : kept[i] = times[(n + 1) + i - 1]
  BY <1>2, SubSeqProperties
<1>. HIDE DEF kept
<1>4. Len(kept) = Len(times) - n
  <2>1. \A k, l \in Nat : k <= l => (IF k + 1 <= l THEN l - (k + 1) + 1 ELSE 0) = l - k
    OBVIOUS
  <2>. QED  BY <1>1, <1>3, <2>1
<1>5. ASSUME NEW i \in 1..(Len(times) - n)  PROVE kept[i] = times[n + i]
  <2>1. i \in 1..(Len(times) - (n + 1) + 1) /\ (n + 1) + i - 1 = n + i
    BY <1>1
  <2>. QED  BY <1>3, <2>1
<1>. QED  BY <1>3, <1>4, <1>5 DEF kept

\* What is below a cutoff in ascending times is at their head, and the others stay as they
\* are, still in ascending order.
LEMMA FromDropsHead ==
    ASSUME NEW times \in Seq(Nat), Ascending(times), NEW cutoff \in Int
    PROVE  /\ From(times, cutoff) \in Seq(Nat) /\ Ascending(From(times, cutoff))
           /\ \E n \in 0..Len(times) : IsFrom(From(times, cutoff), times, cutoff, n)
<1> DEFINE below == {i \in DOMAIN times : times[i] < cutoff}
           n == Cardinality(below)
           kept == From(times, cutoff)
<1>1. Len(times) \in Nat /\ DOMAIN times = 1..Len(times) /\ \A i \in DOMAIN times : times[i] \in Nat
  OBVIOUS
<1>2. n \in 0..Len(times) /\ below = 1..n
  <2>1. below \in SUBSET (1..Len(times))
    BY <1>1
  <2>2. ASSUME NEW i \in below, NEW j \in 1..i  PROVE j \in below
    <3>1. i \in DOMAIN times /\ j \in DOMAIN times /\ j <= i /\ times[i] < cutoff
      BY <1>1
    <3>2. times[j] <= times[i]
      BY <3>1 DEF Ascending
    <3>. QED  BY <1>1, <3>1, <3>2
  <2>. QED  BY <1>1, <2>1, <2>2, InitialSegment
<1>3. kept = SubSeq(times, n + 1, Len(times))
  BY DEF From
<1>. HIDE DEF n, kept
<1>4. /\ kept \in Seq(Nat) /\ Len(kept) = Len(times) - n
      /\ \A i \in 1..(Len(times) - n) : kept[i] = times[n + i]
  BY <1>2, <1>3, HeadDropped
<1>5. ASSUME NEW i \in 1..(Len(times) - n)
      PROVE  n + i \in DOMAIN times /\ n + i \notin below
  BY <1>1, <1>2
<1>6. \A i \in 1..(Len(times) - n) : kept[i] >= cutoff
  BY <1>1, <1>4, <1>5
<1>7. Ascending(kept)
  <2>1. DOMAIN kept = 1..(Len(times) - n)
    BY <1>4
  <2>2. ASSUME NEW i \in DOMAIN kept, NEW j \in DOMAIN kept, i <= j
        PROVE  kept[i] <= kept[j]
    <3>1. n + i <= n + j /\ n + i \in DOMAIN times /\ n + j \in DOMAIN times
      BY <1>2, <1>5, <2>1, <2>2
    <3>. QED  BY <1>4, <2>1, <3>1 DEF Ascending
  <2>. QED  BY <2>2 DEF Ascending
<1>8. \A i \in 1..n : times[i] < cutoff
  BY <1>2
<1>9. IsFrom(kept, times, cutoff, n)
  BY <1>2, <1>4, <1>6, <1>8 DEF IsFrom
<1>. QED  BY <1>2, <1>4, <1>7, <1>9 DEF kept

\* There is only one such sequence.
LEMMA FromIsUnique ==
    ASSUME NEW times \in Seq(Nat), Ascending(times), NEW cutoff \in Int,
           NEW other \in Seq(Nat), NEW m \in 0..Len(times), IsFrom(other, times, cutoff, m)
    PROVE  other = From(times, cutoff)
<1> DEFINE kept == From(times, cutoff)
<1>1. kept \in Seq(Nat) /\ \E n \in 0..Len(times) : IsFrom(kept, times, cutoff, n)
  BY FromDropsHead
<1>. HIDE DEF kept
<1>2. PICK n \in 0..Len(times) : IsFrom(kept, times, cutoff, n)
  BY <1>1
<1>3. Len(times) \in Nat /\ \A i \in 1..Len(times) : times[i] \in Nat
  OBVIOUS
<1>4. ~(n < m)
  <2>. SUFFICES ASSUME n < m  PROVE FALSE
    OBVIOUS
  <2>1. 1 \in 1..(Len(times) - n) /\ n + 1 \in 1..m /\ n + 1 \in 1..Len(times)
    BY <1>3
  <2>2. times[n + 1] >= cutoff /\ times[n + 1] < cutoff
    BY <1>2, <2>1 DEF IsFrom
  <2>. QED  BY <1>3, <2>1, <2>2
<1>5. ~(m < n)
  <2>. SUFFICES ASSUME m < n  PROVE FALSE
    OBVIOUS
  <2>1. 1 \in 1..(Len(times) - m) /\ m + 1 \in 1..n /\ m + 1 \in 1..Len(times)
    BY <1>3
  <2>2. times[m + 1] >= cutoff /\ times[m + 1] < cutoff
    BY <1>2, <2>1 DEF IsFrom
  <2>. QED  BY <1>3, <2>1, <2>2
<1>6. m = n
  BY <1>4, <1>5
<1>7. Len(other) = Len(kept) /\ \A i \in 1..Len(kept) : other[i] = kept[i]
  BY <1>2, <1>6 DEF IsFrom
<1>. QED  BY <1>1, <1>7, SeqEqual DEF kept

\* A later cutoff takes the same from what an earlier one left.
LEMMA FromOfFrom ==
    ASSUME NEW times \in Seq(Nat), Ascending(times), NEW c \in Int, NEW d \in Int, c <= d
    PROVE  From(From(times, c), d) = From(times, d)
<1> DEFINE first == From(times, c)
           kept == From(first, d)
<1>1. first \in Seq(Nat) /\ Ascending(first)
      /\ \E n \in 0..Len(times) : IsFrom(first, times, c, n)
  BY FromDropsHead
<1>2. PICK n \in 0..Len(times) : IsFrom(first, times, c, n)
  BY <1>1
<1>. HIDE DEF first
<1>3. kept \in Seq(Nat) /\ \E m \in 0..Len(first) : IsFrom(kept, first, d, m)
  BY <1>1, FromDropsHead
<1>4. PICK m \in 0..Len(first) : IsFrom(kept, first, d, m)
  BY <1>3
<1>. HIDE DEF kept
<1>5. Len(times) \in Nat /\ n \in Nat /\ m \in Nat /\ Len(first) = Len(times) - n
      /\ m <= Len(times) - n /\ \A i \in 1..Len(times) : times[i] \in Nat
  BY <1>2 DEF IsFrom
<1>6. n + m \in 0..Len(times) /\ Len(times) - n - m = Len(times) - (n + m)
  BY <1>5
<1>7. Len(kept) = Len(times) - (n + m)
  BY <1>4, <1>5 DEF IsFrom
<1>8. ASSUME NEW i \in 1..(Len(times) - (n + m))
      PROVE  kept[i] = times[n + m + i] /\ kept[i] >= d
  <2>1. i \in 1..(Len(first) - m) /\ m + i \in 1..(Len(times) - n) /\ n + (m + i) = n + m + i
    BY <1>5
  <2>2. kept[i] = first[m + i] /\ kept[i] >= d
    BY <1>4, <2>1 DEF IsFrom
  <2>3. first[m + i] = times[n + m + i]
    BY <1>2, <2>1 DEF IsFrom
  <2>. QED  BY <2>2, <2>3
<1>9. ASSUME NEW i \in 1..(n + m)
      PROVE  times[i] < d
  <2>1. CASE i <= n
    <3>1. i \in 1..n /\ i \in 1..Len(times)
      BY <1>5, <2>1
    <3>2. times[i] < c /\ times[i] \in Nat
      BY <1>2, <1>5, <3>1 DEF IsFrom
    <3>. QED  BY <3>2
  <2>2. CASE ~(i <= n)
    <3>1. i - n \in 1..m /\ i - n \in 1..(Len(times) - n) /\ n + (i - n) = i
      BY <1>5, <2>2
    <3>2. first[i - n] < d
      BY <1>4, <3>1 DEF IsFrom
    <3>3. first[i - n] = times[n + (i - n)]
      BY <1>2, <3>1 DEF IsFrom
    <3>. QED  BY <3>1, <3>2, <3>3
  <2>. QED  BY <2>1, <2>2
<1>10. IsFrom(kept, times, d, n + m)
  BY <1>6, <1>7, <1>8, <1>9 DEF IsFrom
<1>. QED  BY <1>3, <1>6, <1>10, FromIsUnique DEF kept, first

\* A time pushed last stays while it is not below the cutoff; no other does longer.
LEMMA FromOfAppend ==
    ASSUME NEW times \in Seq(Nat), Ascending(times), NEW x \in Nat,
           \A i \in DOMAIN times : times[i] <= x, NEW cutoff \in Int
    PROVE  /\ Ascending(Append(times, x))
           /\ From(Append(times, x), cutoff) =
                  IF x >= cutoff THEN Append(From(times, cutoff), x) ELSE <<>>
<1> DEFINE longer == Append(times, x)
           kept == From(times, cutoff)
<1>1. /\ Len(times) \in Nat /\ DOMAIN times = 1..Len(times)
      /\ \A i \in DOMAIN times : times[i] \in Nat
      /\ longer \in Seq(Nat) /\ Len(longer) = Len(times) + 1 /\ DOMAIN longer = 1..(Len(times) + 1)
      /\ \A i \in 1..Len(times) : longer[i] = times[i]
      /\ longer[Len(times) + 1] = x
  OBVIOUS
<1>. HIDE DEF longer
<1>2. Ascending(longer)
  <2>1. ASSUME NEW i \in 1..(Len(times) + 1), NEW j \in 1..(Len(times) + 1), i <= j
        PROVE  longer[i] <= longer[j]
    <3>1. CASE j \in 1..Len(times)
      <4>1. i \in 1..Len(times)
        BY <1>1, <2>1, <3>1
      <4>2. longer[i] = times[i] /\ longer[j] = times[j]
        BY <1>1, <3>1, <4>1
      <4>. QED  BY <1>1, <2>1, <3>1, <4>1, <4>2 DEF Ascending
    <3>2. CASE j = Len(times) + 1
      <4>1. longer[j] = x /\ (i \in 1..Len(times) \/ longer[i] = x)
        BY <1>1, <3>2
      <4>2. i \in 1..Len(times) => longer[i] = times[i] /\ times[i] <= x
        BY <1>1
      <4>. QED  BY <4>1, <4>2
    <3>. QED  BY <1>1, <3>1, <3>2
  <2>. QED  BY <1>1, <2>1 DEF Ascending
<1>3. kept \in Seq(Nat) /\ \E n \in 0..Len(times) : IsFrom(kept, times, cutoff, n)
  BY FromDropsHead
<1>4. PICK n \in 0..Len(times) : IsFrom(kept, times, cutoff, n)
  BY <1>3
<1>. HIDE DEF kept
<1>5. CASE x >= cutoff
  <2> DEFINE more == Append(kept, x)
  <2>1. /\ more \in Seq(Nat) /\ Len(kept) \in Nat /\ Len(more) = Len(kept) + 1
        /\ \A i \in 1..Len(kept) : more[i] = kept[i]
        /\ more[Len(kept) + 1] = x
    BY <1>3
  <2>. HIDE DEF more
  <2>2. Len(kept) = Len(times) - n /\ n \in Nat /\ n <= Len(times)
    BY <1>1, <1>4 DEF IsFrom
  <2>3. n \in 0..Len(longer) /\ Len(more) = Len(longer) - n
    BY <1>1, <2>1, <2>2
  <2>4. ASSUME NEW i \in 1..(Len(longer) - n)
        PROVE  more[i] = longer[n + i] /\ more[i] >= cutoff
    <3>1. CASE i = Len(kept) + 1
      <4>1. n + i = Len(times) + 1
        BY <1>1, <2>2, <3>1
      <4>. QED  BY <1>1, <1>5, <2>1, <3>1, <4>1
    <3>2. CASE i # Len(kept) + 1
      <4>1. i \in 1..Len(kept) /\ n + i \in 1..Len(times)
        BY <1>1, <2>2, <3>2
      <4>. QED  BY <1>1, <1>4, <2>1, <2>2, <4>1 DEF IsFrom
    <3>. QED  BY <3>1, <3>2
  <2>5. ASSUME NEW i \in 1..n  PROVE longer[i] < cutoff
    <3>1. i \in 1..Len(times)
      BY <1>1, <2>2
    <3>. QED  BY <1>1, <1>4, <3>1 DEF IsFrom
  <2>6. IsFrom(more, longer, cutoff, n)
    BY <2>3, <2>4, <2>5 DEF IsFrom
  <2>7. more = From(longer, cutoff)
    BY <1>1, <1>2, <2>1, <2>3, <2>6, FromIsUnique
  <2>. QED  BY <1>2, <1>5, <2>7 DEF longer, more, kept
<1>6. CASE ~(x >= cutoff)
  <2>1. \A i \in 1..Len(longer) : longer[i] < cutoff
    <3>1. ASSUME NEW i \in 1..(Len(times) + 1)  PROVE longer[i] < cutoff
      <4>1. i \in 1..Len(times) \/ i = Len(times) + 1
        BY <1>1
      <4>2. longer[i] \in Nat /\ longer[i] <= x
        <5>1. CASE i \in 1..Len(times)
          BY <1>1, <5>1
        <5>2. CASE i = Len(times) + 1
          BY <1>1, <5>2
        <5>. QED  BY <4>1, <5>1, <5>2
      <4>. QED  BY <1>6, <4>2
    <3>. QED  BY <1>1, <3>1
  <2>2. <<>> \in Seq(Nat) /\ Len(<<>>) = 0
    OBVIOUS
  <2>3. Len(longer) \in 0..Len(longer) /\ Len(longer) - Len(longer) = 0
    BY <1>1
  <2>4. IsFrom(<<>>, longer, cutoff, Len(longer))
    BY <2>1, <2>2, <2>3 DEF IsFrom
  <2>5. <<>> = From(longer, cutoff)
    BY <1>1, <1>2, <2>2, <2>3, <2>4, FromIsUnique
  <2>. QED  BY <1>2, <1>6, <2>5 DEF longer
<1>. QED  BY <1>5, <1>6

LEMMA FromOfNone ==
    ASSUME NEW cutoff \in Int
    PROVE  Ascending(<<>>) /\ From(<<>>, cutoff) = <<>>
<1>1. <<>> \in Seq(Nat) /\ Len(<<>>) = 0 /\ DOMAIN <<>> = {}
  OBVIOUS
<1>2. Ascending(<<>>)
  BY <1>1 DEF Ascending
<1>3. IsFrom(<<>>, <<>>, cutoff, 0)
  BY <1>1 DEF IsFrom
<1>4. 0 \in 0..Len(<<>>)
  BY <1>1
<1>. QED  BY <1>1, <1>2, <1>3, <1>4, FromIsUnique
=============================================================================
