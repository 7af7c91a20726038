------------------------ MODULE PasscodeGateProofs ------------------------
(***************************************************************************)
(* The limiter of PasscodeGate counts what it should, for every window,    *)
(* threshold, cooldown and number of concurrent joins: the ring of a key,  *)
(* pruned only when somebody looks, always ends the history of its wrong   *)
(* answers and lacks nothing that still counts.                            *)
(***************************************************************************)
EXTENDS PasscodeGate, WindowLemmas

-----------------------------------------------------------------------------
(* The ring.                                                               *)

\* InWindow drops n failures from the head of an ordered ring: those, and only those,
\* that left the window.
LEMMA InWindowSplits ==
    ASSUME NEW ring \in Seq(Nat), NEW t \in Nat, InOrder(ring, t)
    PROVE  \E n \in 0..Len(ring) :
              /\ InWindow(ring, t) \in Seq(Nat)
              /\ Len(InWindow(ring, t)) = Len(ring) - n
              /\ \A i \in 1..(Len(ring) - n) : InWindow(ring, t)[i] = ring[n + i]
              /\ \A i \in 1..n : ring[i] < t - WINDOW
              /\ \A i \in 1..(Len(ring) - n) : InWindow(ring, t)[i] >= t - WINDOW
              /\ InOrder(InWindow(ring, t), t)
<1> DEFINE kept == From(ring, t - WINDOW)
<1>1. /\ Len(ring) \in Nat /\ DOMAIN ring = 1..Len(ring) /\ t - WINDOW \in Int
      /\ \A i \in DOMAIN ring : ring[i] \in Nat
  BY LimiterAssumption
<1>2. Ascending(ring)
  BY DEF Ascending, InOrder
<1>3. kept = InWindow(ring, t)
  <2>1. {i \in DOMAIN ring : ring[i] < t - WINDOW}
            = {i \in DOMAIN ring : \A j \in 1..i : ring[j] < t - WINDOW}
    <3>1. ASSUME NEW i \in DOMAIN ring, ring[i] < t - WINDOW, NEW j \in 1..i
          PROVE  ring[j] < t - WINDOW
      <4>1. j \in DOMAIN ring /\ j <= i
        BY <1>1
      <4>2. ring[j] <= ring[i]
        BY <1>2, <4>1 DEF Ascending
      <4>. QED  BY <1>1, <3>1, <4>1, <4>2
    <3>2. \A i \in DOMAIN ring : i \in 1..i
      BY <1>1
    <3>. QED  BY <3>1, <3>2
  <2>. QED  BY <2>1 DEF InWindow, From
<1>4. kept \in Seq(Nat) /\ Ascending(kept) /\ \E n \in 0..Len(ring) : IsFrom(kept, ring, t - WINDOW, n)
  BY <1>1, <1>2, FromDropsHead
<1>. HIDE DEF kept
<1>5. PICK n \in 0..Len(ring) : IsFrom(kept, ring, t - WINDOW, n)
  BY <1>4
<1>6. InOrder(kept, t)
  <2>1. DOMAIN kept = 1..(Len(ring) - n)
    BY <1>4, <1>5 DEF IsFrom
  <2>2. ASSUME NEW i \in DOMAIN kept  PROVE n + i \in DOMAIN ring /\ kept[i] = ring[n + i]
    <3>1. i \in 1..(Len(ring) - n) /\ n \in Nat
      BY <1>4, <2>1
    <3>2. \A l \in Nat : \A k \in 1..(l - n) : n + k \in 1..l
      BY <3>1
    <3>. QED  BY <1>1, <1>5, <3>1, <3>2 DEF IsFrom
  <2>3. \A i \in DOMAIN kept : kept[i] <= t
    BY <2>2 DEF InOrder
  <2>. QED  BY <1>4, <2>3 DEF InOrder, Ascending
<1>. QED  BY <1>3, <1>4, <1>5, <1>6 DEF IsFrom

-----------------------------------------------------------------------------
(* The operations on one key.                                              *)

History == Seq([at : Nat, hash : Passcodes \cup {NoPasscode}])

\* Pruning keeps the invariant of a key, and what it leaves is recent.
LEMMA PruneKeepsKeyInv ==
    ASSUME NEW b \in Bucket, NEW ms \in History, NEW t \in Nat, KeyInv(b, ms, t)
    PROVE  /\ Prune(b, t) \in Bucket
           /\ Len(Prune(b, t).failures) <= Len(b.failures)
           /\ KeyInv(Prune(b, t), ms, t)
           /\ \A i \in DOMAIN Prune(b, t).failures : Prune(b, t).failures[i] >= t - WINDOW
           /\ Prune(b, t).cooldownUntil = IF Lapsed(b, t) THEN 0 ELSE b.cooldownUntil
<1> DEFINE ring == b.failures
<1>0. /\ ring \in Seq(Nat) /\ Len(ring) \in Nat /\ b.cooldownUntil \in Nat
      /\ WINDOW \in Nat /\ THRESHOLD \in Nat /\ THRESHOLD > 0
      /\ Len(ms) \in Nat
  BY LimiterAssumption DEF Bucket, History
<1>1. CASE Lapsed(b, t)
  <2>1. Prune(b, t) = EmptyBucket /\ ms = <<>>
    BY <1>0, <1>1 DEF Prune, Lapsed, KeyInv
  <2>2. EmptyBucket \in Bucket /\ EmptyBucket.failures = <<>> /\ EmptyBucket.cooldownUntil = 0
    BY DEF EmptyBucket, Bucket
  <2>. QED  BY <1>0, <1>1, <2>1, <2>2 DEF KeyInv, InOrder, EndsHistory
<1>2. CASE ~Lapsed(b, t)
  <2> DEFINE kept == InWindow(ring, t)
  <2>1. InOrder(ring, t)
    BY DEF KeyInv
  <2>2. PICK n \in 0..Len(ring) :
              /\ kept \in Seq(Nat)
              /\ Len(kept) = Len(ring) - n
              /\ \A i \in 1..(Len(ring) - n) : kept[i] = ring[n + i]
              /\ \A i \in 1..n : ring[i] < t - WINDOW
              /\ \A i \in 1..(Len(ring) - n) : kept[i] >= t - WINDOW
              /\ InOrder(kept, t)
    BY <1>0, <2>1, InWindowSplits
  <2>3. Prune(b, t) = [failures |-> kept, cooldownUntil |-> b.cooldownUntil]
    BY <1>2 DEF Prune, Bucket
  <2>. HIDE DEF kept
  <2>4. DOMAIN kept = 1..(Len(ring) - n) /\ n \in Nat /\ n <= Len(ring)
    BY <1>0, <2>2
  <2>5. ASSUME b.cooldownUntil = 0
        PROVE  Len(kept) < THRESHOLD /\ EndsHistory(kept, ms, t)
    <3> DEFINE gone == Len(ms) - Len(ring)
    <3>1. /\ Len(ring) < THRESHOLD
          /\ gone >= 0 /\ gone \in Int
          /\ \A i \in 1..Len(ring) : ms[gone + i].at = ring[i]
          /\ \A i \in 1..gone : ms[i].at < t - WINDOW
      <4>1. Len(ring) < THRESHOLD /\ EndsHistory(ring, ms, t)
        BY <2>5 DEF KeyInv
      <4>2. gone \in Int
        BY <1>0
      <4>. QED  BY <4>1, <4>2 DEF EndsHistory
    <3>2. Len(ms) - Len(kept) = gone + n
      <4>1. Len(kept) = Len(ring) - n
        BY <2>2
      <4>. QED  BY <1>0, <2>4, <4>1
    <3>. HIDE DEF gone
    <3>3. ASSUME NEW i \in 1..Len(kept)
          PROVE  ms[(gone + n) + i].at = kept[i]
      <4>1. n + i \in 1..Len(ring) /\ (gone + n) + i = gone + (n + i)
        BY <1>0, <2>2, <2>4, <3>1
      <4>. QED  BY <2>2, <2>4, <3>1, <4>1
    <3>4. ASSUME NEW i \in 1..(gone + n)
          PROVE  ms[i].at < t - WINDOW
      <4>1. CASE i <= gone
        BY <3>1, <4>1
      <4>2. CASE i > gone
        <5>1. i - gone \in 1..n /\ i - gone \in 1..Len(ring) /\ gone + (i - gone) = i
          BY <1>0, <2>4, <3>1, <4>2
        <5>. QED  BY <2>2, <3>1, <5>1
      <4>. QED  BY <3>1, <4>1, <4>2
    <3>5. Len(kept) < THRESHOLD /\ gone + n >= 0
      <4>1. Len(kept) = Len(ring) - n
        BY <2>2
      <4>. QED  BY <1>0, <2>4, <3>1, <4>1
    <3>. QED  BY <3>2, <3>3, <3>4, <3>5 DEF EndsHistory
  <2>6. Prune(b, t) \in Bucket
    BY <1>0, <2>2, <2>3 DEF Bucket
  <2>. QED  BY <1>0, <1>2, <2>2, <2>3, <2>4, <2>5, <2>6 DEF KeyInv
<1>. QED  BY <1>1, <1>2

\* Recording a wrong answer keeps the invariant of the key, and fewer than THRESHOLD
\* recent ones open no cooldown.
LEMMA RecordFailureKeepsKeyInv ==
    ASSUME NEW b \in Bucket, NEW ms \in History, NEW t \in Nat, KeyInv(b, ms, t),
           NEW m \in [at : Nat, hash : Passcodes \cup {NoPasscode}], m.at = t,
           Len(b.failures) <= THRESHOLD
    PROVE  LET b2 == RecordFailure(b, t)
               ms2 == IF t < b2.cooldownUntil THEN <<>> ELSE Append(ms, m)
           IN /\ b2 \in Bucket
              /\ Len(b2.failures) <= THRESHOLD
              /\ ms2 \in History
              /\ KeyInv(b2, ms2, t)
<1> DEFINE p == Prune(b, t)
<1> DEFINE b2 == RecordFailure(b, t)
<1> DEFINE ms2 == IF t < b2.cooldownUntil THEN <<>> ELSE Append(ms, m)
<1>0. /\ THRESHOLD \in Nat /\ THRESHOLD > 0 /\ COOLDOWN \in Nat /\ COOLDOWN > 0
      /\ Len(ms) \in Nat
  BY LimiterAssumption DEF History
<1>1. /\ p \in Bucket /\ KeyInv(p, ms, t)
      /\ Len(p.failures) <= Len(b.failures)
      /\ p.cooldownUntil = IF Lapsed(b, t) THEN 0 ELSE b.cooldownUntil
  BY PruneKeepsKeyInv
<1>2. ms2 \in History
  <2> DEFINE Miss == [at : Nat, hash : Passcodes \cup {NoPasscode}]
  <2>1. ms \in Seq(Miss) /\ m \in Miss
    BY DEF History
  <2>. HIDE DEF Miss, b2
  <2>2. <<>> \in Seq(Miss) /\ Append(ms, m) \in Seq(Miss)
    BY <2>1
  <2>. QED  BY <2>2 DEF History, Miss
<1>3. CASE p.cooldownUntil # 0
  <2>1. b2 = p
    BY <1>3 DEF RecordFailure
  <2>2. t < p.cooldownUntil /\ ms = <<>>
    BY <1>1, <1>3 DEF Lapsed, Bucket, KeyInv
  <2>3. ms2 = ms
    BY <2>1, <2>2
  <2>4. Len(p.failures) <= THRESHOLD
    BY <1>0, <1>1 DEF Bucket
  <2>. QED  BY <1>1, <1>2, <2>1, <2>3, <2>4
<1>4. CASE p.cooldownUntil = 0
  <2> DEFINE ring == p.failures
  <2> DEFINE longer == Append(ring, t)
  <2>1. b2 = [failures |-> longer,
              cooldownUntil |-> IF Len(longer) >= THRESHOLD THEN t + COOLDOWN ELSE 0]
    BY <1>4 DEF RecordFailure, AddFailure
  <2>2. /\ ring \in Seq(Nat) /\ Len(ring) \in Nat /\ Len(ring) < THRESHOLD
        /\ InOrder(ring, t) /\ EndsHistory(ring, ms, t)
    BY <1>1, <1>4 DEF KeyInv, Bucket
  <2>3. /\ longer \in Seq(Nat) /\ Len(longer) = Len(ring) + 1
        /\ DOMAIN longer = 1..(Len(ring) + 1)
        /\ \A i \in 1..Len(ring) : longer[i] = ring[i]
        /\ longer[Len(ring) + 1] = t
    BY <2>2
  <2>. HIDE DEF longer, ring
  <2>4. b2 \in Bucket /\ Len(b2.failures) <= THRESHOLD
    BY <1>0, <2>1, <2>2, <2>3 DEF Bucket
  <2>5. InOrder(longer, t)
    <3>1. DOMAIN ring = 1..Len(ring)
      BY <2>2
    <3>2. \A i \in 1..Len(ring) : ring[i] \in Nat /\ ring[i] <= t
      BY <2>2, <3>1 DEF InOrder
    <3>3. ASSUME NEW i \in DOMAIN longer  PROVE longer[i] <= t
      <4>1. i \in 1..Len(ring) \/ i = Len(ring) + 1
        BY <2>2, <2>3
      <4>2. i \in 1..Len(ring) => longer[i] = ring[i] /\ ring[i] <= t
        BY <2>3, <3>2
      <4>3. t <= t
        BY <1>0
      <4>. QED  BY <2>3, <4>1, <4>2, <4>3
    <3>4. ASSUME NEW i \in DOMAIN longer, NEW j \in DOMAIN longer, i <= j
          PROVE  longer[i] <= longer[j]
      <4>1. CASE j = Len(ring) + 1
        BY <2>3, <3>3, <4>1
      <4>2. CASE j \in 1..Len(ring)
        <5>1. i \in 1..Len(ring)
          BY <2>2, <2>3, <3>4, <4>2
        <5>. QED  BY <2>2, <2>3, <3>1, <3>4, <4>2, <5>1 DEF InOrder
      <4>. QED  BY <2>2, <2>3, <4>1, <4>2
    <3>. QED  BY <3>4, <3>3 DEF InOrder
  <2>6. CASE Len(longer) >= THRESHOLD
    <3>1. b2.cooldownUntil = t + COOLDOWN /\ t + COOLDOWN # 0 /\ t < t + COOLDOWN
      BY <1>0, <2>1, <2>6
    <3>2. ms2 = <<>>
      BY <3>1
    <3>. QED  BY <1>2, <2>1, <2>4, <2>5, <3>1, <3>2 DEF KeyInv
  <2>7. CASE ~(Len(longer) >= THRESHOLD)
    <3>1. b2.cooldownUntil = 0 /\ ms2 = Append(ms, m)
      BY <2>1, <2>7
    <3>2. /\ Len(ms2) = Len(ms) + 1
          /\ \A i \in 1..Len(ms) : ms2[i] = ms[i]
          /\ ms2[Len(ms) + 1] = m
      BY <1>0, <3>1 DEF History
    <3>3. EndsHistory(longer, ms2, t)
      <4> DEFINE gone == Len(ms) - Len(ring)
      <4>1. gone \in Nat
        BY <1>0, <2>2 DEF EndsHistory
      <4>2. Len(ms2) - Len(longer) = gone
        BY <1>0, <2>2, <2>3, <3>2
      <4>3. ASSUME NEW i \in 1..Len(longer)
            PROVE  ms2[gone + i].at = longer[i]
        <5>1. CASE i <= Len(ring)
          <6>1. i \in 1..Len(ring) /\ gone + i \in 1..Len(ms)
            BY <1>0, <2>2, <2>3, <4>1, <5>1
          <6>2. ms[gone + i].at = ring[i]
            BY <2>2, <6>1 DEF EndsHistory
          <6>. QED  BY <2>3, <3>2, <6>1, <6>2
        <5>2. CASE ~(i <= Len(ring))
          <6>1. i = Len(ring) + 1
            BY <2>2, <2>3, <5>2
          <6>2. gone + i = Len(ms) + 1
            BY <1>0, <2>2, <6>1
          <6>. QED  BY <2>3, <3>2, <6>1, <6>2
        <5>. QED  BY <5>1, <5>2
      <4>4. ASSUME NEW i \in 1..gone
            PROVE  ms2[i].at < t - WINDOW
        <5>1. i \in 1..Len(ms)
          BY <1>0, <2>2, <4>1
        <5>2. ms[i].at < t - WINDOW
          BY <2>2 DEF EndsHistory
        <5>. QED  BY <3>2, <5>1, <5>2
      <4>. HIDE DEF gone
      <4>5. gone >= 0
        BY <4>1
      <4>. QED  BY <4>2, <4>3, <4>4, <4>5 DEF EndsHistory
    <3>. QED  BY <1>2, <2>1, <2>4, <2>5, <2>7, <3>1, <3>3, <2>2, <2>3, <1>0 DEF KeyInv
  <2>. QED  BY <2>6, <2>7
<1>. QED  BY <1>3, <1>4

RecentOf(ms, t) == {i \in DOMAIN ms : ms[i].at >= t - WINDOW}

\* Out of cooldown the ring counts at least every recent wrong answer, and in a
\* pruned ring every failure is one.
LEMMA RingCountsRecent ==
    ASSUME NEW b \in Bucket, NEW ms \in History, NEW t \in Nat, KeyInv(b, ms, t)
    PROVE  /\ IsFiniteSet(RecentOf(ms, t)) /\ Cardinality(RecentOf(ms, t)) \in Nat
           /\ b.cooldownUntil = 0 => Cardinality(RecentOf(ms, t)) <= Len(b.failures)
           /\ b.cooldownUntil # 0 => Cardinality(RecentOf(ms, t)) = 0
           /\ b.cooldownUntil = 0
              /\ (\A i \in DOMAIN b.failures : b.failures[i] >= t - WINDOW)
                 => Cardinality(RecentOf(ms, t)) >= Len(b.failures)
<1> DEFINE ring == b.failures
<1> DEFINE gone == Len(ms) - Len(ring)
<1> DEFINE R == RecentOf(ms, t)
<1>0. /\ Len(ms) \in Nat /\ DOMAIN ms = 1..Len(ms)
      /\ Len(ring) \in Nat /\ DOMAIN ring = 1..Len(ring)
      /\ \A i \in 1..Len(ms) : ms[i].at \in Nat
      /\ WINDOW \in Nat
  <2> DEFINE Miss == [at : Nat, hash : Passcodes \cup {NoPasscode}]
  <2>1. \A m \in Miss : m.at \in Nat
    OBVIOUS
  <2>. HIDE DEF Miss
  <2>2. ms \in Seq(Miss)
    BY DEF History, Miss
  <2>. QED  BY <2>1, <2>2, LimiterAssumption DEF Bucket
<1>. HIDE DEF ring
<1>n. Len(ms) \in Nat /\ Len(ring) \in Nat
  BY <1>0
<1>1. IsFiniteSet(R) /\ Cardinality(R) \in Nat
  <2>1. IsFiniteSet(1..Len(ms))
    BY <1>0, FS_Interval
  <2>2. R \in SUBSET (1..Len(ms))
    BY <1>0 DEF RecentOf
  <2>. QED  BY <2>1, <2>2, FS_Subset, FS_CardinalityType
<1>2. ASSUME b.cooldownUntil # 0
      PROVE  Cardinality(R) = 0
  <2>1. R = {}
    BY <1>2 DEF KeyInv, RecentOf
  <2>. QED  BY <2>1, FS_EmptySet
<1>3. ASSUME b.cooldownUntil = 0
      PROVE  /\ gone \in Nat
             /\ \A i \in 1..Len(ring) : ms[gone + i].at = ring[i]
             /\ \A i \in 1..gone : ms[i].at < t - WINDOW
             /\ IsFiniteSet((gone + 1)..Len(ms)) /\ Cardinality((gone + 1)..Len(ms)) = Len(ring)
  <2>1. EndsHistory(ring, ms, t)
    BY <1>3 DEF KeyInv, ring
  <2>2. gone \in Nat
    BY <1>0, <2>1 DEF EndsHistory
  <2>3. gone + 1 \in Int /\ Len(ms) \in Int
    BY <1>0, <2>2
  <2>4. /\ IsFiniteSet((gone + 1)..Len(ms))
        /\ Cardinality((gone + 1)..Len(ms)) =
              IF gone + 1 > Len(ms) THEN 0 ELSE Len(ms) - (gone + 1) + 1
    BY <2>3, FS_Interval
  <2>5. (IF gone + 1 > Len(ms) THEN 0 ELSE Len(ms) - (gone + 1) + 1) = Len(ring)
    BY <1>n, <2>2
  <2>. QED  BY <2>1, <2>2, <2>4, <2>5 DEF EndsHistory
<1>4. ASSUME b.cooldownUntil = 0
      PROVE  Cardinality(R) <= Len(ring)
  <2>. HIDE DEF gone
  <2>1. ASSUME NEW i \in R
        PROVE  i \in (gone + 1)..Len(ms)
    <3>1. i \in 1..Len(ms) /\ ms[i].at >= t - WINDOW
      BY <1>0 DEF RecentOf
    <3>2. ~(i \in 1..gone)
      BY <1>0, <1>3, <1>4, <3>1
    <3>. QED  BY <1>0, <1>3, <1>4, <3>1, <3>2
  <2>2. R \in SUBSET ((gone + 1)..Len(ms))
    BY <2>1
  <2>. QED  BY <1>3, <1>4, <2>2, FS_Subset
<1>5. ASSUME b.cooldownUntil = 0, \A i \in DOMAIN ring : ring[i] >= t - WINDOW
      PROVE  Cardinality(R) >= Len(ring)
  <2>1. ASSUME NEW i \in (gone + 1)..Len(ms)
        PROVE  i \in R
    <3>1. i - gone \in 1..Len(ring) /\ gone + (i - gone) = i /\ i \in 1..Len(ms)
      <4>1. gone \in Nat
        BY <1>3, <1>5
      <4>. QED  BY <1>n, <4>1
    <3>2. ms[i].at = ring[i - gone]
      BY <1>3, <1>5, <3>1
    <3>. QED  BY <1>0, <1>5, <3>1, <3>2 DEF RecentOf
  <2>2. ((gone + 1)..Len(ms)) \in SUBSET R
    BY <2>1
  <2>3. Cardinality((gone + 1)..Len(ms)) <= Cardinality(R)
    BY <1>1, <2>2, FS_Subset
  <2>. QED  BY <1>1, <1>3, <1>5, <2>3
<1>. QED  BY <1>1, <1>2, <1>4, <1>5 DEF ring

-----------------------------------------------------------------------------
(* The steps of the gate.                                                  *)

\* The limiter's part of a step: nothing, a look at one key, a wrong answer of one
\* key, or the forgiveness of some keys; or the clock ticks.
LooksAt(k) ==
    /\ buckets' = [buckets EXCEPT ![k] = Prune(@, now)]
    /\ UNCHANGED <<misses, now>>

FailsAt(k, h) ==
    /\ buckets' = [buckets EXCEPT ![k] = RecordFailure(@, now)]
    /\ misses' = [misses EXCEPT ![k] =
                     IF now < buckets'[k].cooldownUntil THEN <<>>
                     ELSE Append(@, [at |-> now, hash |-> h])]
    /\ UNCHANGED now

Forgives(S) ==
    /\ buckets' = [k \in Keys |-> IF k \in S THEN EmptyBucket ELSE buckets[k]]
    /\ misses' = [k \in Keys |-> IF k \in S THEN <<>> ELSE misses[k]]
    /\ UNCHANGED now

\* To the limiter and its history every step is a look at a bucket, a failure of one
\* key, the forgiving of some keys, or a tick of the clock.
LEMMA LimiterSteps ==
    ASSUME TypeOK, [Next]_vars
    PROVE  \/ \E k \in Keys : LooksAt(k)
           \/ \E k \in Keys, h \in Passcodes \cup {NoPasscode} : FailsAt(k, h)
           \/ \E S \in SUBSET Keys : Forgives(S)
           \/ now' = now + 1 /\ UNCHANGED <<buckets, misses>>
<1>1. ASSUME NEW c \in Clients, JoinWrong(c)
      PROVE  \E k \in Keys, h \in Passcodes \cup {NoPasscode} : FailsAt(k, h)
  <2>1. attempt[c].key \in Keys /\ attempt[c].hash \in Passcodes \cup {NoPasscode}
    BY <1>1 DEF JoinWrong, TypeOK, Attempt
  <2>. QED  BY <1>1, <2>1 DEF JoinWrong, FailsAt
<1>2. ASSUME NEW c \in Clients, JoinRight(c)
      PROVE  \E S \in SUBSET Keys : Forgives(S)
  <2>1. attempt[c].key \in Keys
    BY <1>2 DEF JoinRight, TypeOK, Attempt
  <2>2. Forgives({attempt[c].key})
    BY <1>2, <2>1 DEF JoinRight, Forgives, TypeOK
  <2>. QED  BY <2>1, <2>2
<1>3. ASSUME NEW s, Forgive(s), UNCHANGED now
      PROVE  \E S \in SUBSET Keys : Forgives(S)
  <2>1. Forgives({k \in Keys : k[2] = s})
    BY <1>3 DEF Forgive, Clear, Forgives
  <2>. QED  BY <2>1
<1>4. CASE UNCHANGED <<buckets, misses, now>>
  <2>1. Forgives({})
    BY <1>4 DEF Forgives, TypeOK
  <2>. QED  BY <2>1
<1>. QED
  BY <1>1, <1>2, <1>3, <1>4
  DEF Next, vars, JoinThrottled, JoinStart, LooksAt, ClearPasscode, HashStart, HashFinish, Advance

\* A forgiven key agrees with an empty history.
LEMMA EmptyKeyInv ==
    ASSUME NEW t \in Nat
    PROVE  EmptyBucket \in Bucket /\ EmptyBucket.failures = <<>> /\ EmptyBucket.cooldownUntil = 0
           /\ KeyInv(EmptyBucket, <<>>, t)
<1>1. EmptyBucket \in Bucket /\ EmptyBucket.failures = <<>> /\ EmptyBucket.cooldownUntil = 0
  BY DEF EmptyBucket, Bucket
<1>2. THRESHOLD \in Nat /\ 0 < THRESHOLD
  BY LimiterAssumption
<1>3. InOrder(<<>>, t) /\ EndsHistory(<<>>, <<>>, t)
  BY DEF InOrder, EndsHistory
<1>. QED  BY <1>1, <1>2, <1>3 DEF KeyInv

\* Time passes: what had left the window stays out of it.
LEMMA TickKeepsKeyInv ==
    ASSUME NEW b \in Bucket, NEW ms \in History, NEW t \in Nat, KeyInv(b, ms, t),
           NEW u \in Nat, t <= u
    PROVE  KeyInv(b, ms, u)
<1> DEFINE Miss == [at : Nat, hash : Passcodes \cup {NoPasscode}]
<1>1. \A m \in Miss : m.at \in Nat
  OBVIOUS
<1>2. ms \in Seq(Miss) /\ b.failures \in Seq(Nat) /\ WINDOW \in Nat
  BY LimiterAssumption DEF History, Bucket
<1>. HIDE DEF Miss
<1>3. InOrder(b.failures, u)
  BY <1>2 DEF KeyInv, InOrder
<1>4. ASSUME EndsHistory(b.failures, ms, t)
      PROVE  EndsHistory(b.failures, ms, u)
  <2> DEFINE gone == Len(ms) - Len(b.failures)
  <2>1. ASSUME NEW i \in 1..gone
        PROVE  ms[i].at < u - WINDOW
    <3>1. Len(ms) \in Nat /\ Len(b.failures) \in Nat
      BY <1>2
    <3>2. i \in 1..Len(ms)
      BY <3>1
    <3>3. ms[i].at \in Nat /\ ms[i].at < t - WINDOW
      BY <1>1, <1>2, <1>4, <3>2 DEF EndsHistory
    <3>. QED  BY <1>2, <3>3
  <2>2. gone >= 0 /\ \A i \in 1..Len(b.failures) : ms[gone + i].at = b.failures[i]
    BY <1>4 DEF EndsHistory
  <2>. QED  BY <2>1, <2>2 DEF EndsHistory
<1>. QED  BY <1>3, <1>4 DEF KeyInv

\* The part of TypeOK that the limiter can disturb.
LimiterTypeOK ==
    /\ buckets \in [Keys -> Bucket]
    /\ \A k \in Keys : Len(buckets[k].failures) <= THRESHOLD
    /\ misses \in [Keys -> History]

\* Every step keeps every ring in agreement with its history.
LEMMA LimiterInductive ==
    ASSUME TypeOK, GateInv, [Next]_vars
    PROVE  LimiterTypeOK' /\ GateInv'
<1>0. /\ now \in Nat /\ buckets \in [Keys -> Bucket] /\ misses \in [Keys -> History]
      /\ \A k \in Keys : Len(buckets[k].failures) <= THRESHOLD
      /\ \A k \in Keys : KeyInv(buckets[k], misses[k], now)
      /\ THRESHOLD \in Nat
  BY LimiterAssumption DEF TypeOK, GateInv, History
<1>1. ASSUME NEW k \in Keys, LooksAt(k)
      PROVE  LimiterTypeOK' /\ GateInv'
  <2>1. /\ Prune(buckets[k], now) \in Bucket
        /\ Len(Prune(buckets[k], now).failures) <= Len(buckets[k].failures)
        /\ KeyInv(Prune(buckets[k], now), misses[k], now)
    BY <1>0, PruneKeepsKeyInv
  <2>2. Len(Prune(buckets[k], now).failures) <= THRESHOLD
    BY <1>0, <2>1 DEF Bucket
  <2>. QED  BY <1>0, <1>1, <2>1, <2>2 DEF LooksAt, LimiterTypeOK, GateInv
<1>2. ASSUME NEW k \in Keys, NEW h \in Passcodes \cup {NoPasscode}, FailsAt(k, h)
      PROVE  LimiterTypeOK' /\ GateInv'
  <2> DEFINE m == [at |-> now, hash |-> h]
  <2> DEFINE b2 == RecordFailure(buckets[k], now)
  <2> DEFINE ms2 == IF now < b2.cooldownUntil THEN <<>> ELSE Append(misses[k], m)
  <2>1. m \in [at : Nat, hash : Passcodes \cup {NoPasscode}] /\ m.at = now
    BY <1>0
  <2>2. /\ b2 \in Bucket /\ Len(b2.failures) <= THRESHOLD
        /\ ms2 \in History /\ KeyInv(b2, ms2, now)
    <3>. HIDE DEF m
    <3>. QED  BY <1>0, <2>1, RecordFailureKeepsKeyInv
  <2>3. /\ buckets' = [buckets EXCEPT ![k] = b2]
        /\ misses' = [misses EXCEPT ![k] = ms2]
        /\ now' = now
    BY <1>0, <1>2 DEF FailsAt
  <2>. HIDE DEF b2, ms2
  <2>. QED  BY <1>0, <2>2, <2>3 DEF LimiterTypeOK, GateInv
<1>3. ASSUME NEW S \in SUBSET Keys, Forgives(S)
      PROVE  LimiterTypeOK' /\ GateInv'
  <2>1. <<>> \in History
    BY DEF History
  <2>. QED  BY <1>0, <1>3, <2>1, EmptyKeyInv DEF Forgives, LimiterTypeOK, GateInv
<1>4. CASE now' = now + 1 /\ UNCHANGED <<buckets, misses>>
  <2>1. now + 1 \in Nat /\ now <= now + 1
    BY <1>0
  <2>2. \A k \in Keys : KeyInv(buckets[k], misses[k], now + 1)
    BY <1>0, <2>1, TickKeepsKeyInv
  <2>. QED  BY <1>0, <1>4, <2>2 DEF LimiterTypeOK, GateInv
<1>. QED  BY <1>1, <1>2, <1>3, <1>4, LimiterSteps

\* The part of TypeOK that the handlers can disturb.
RestTypeOK ==
    /\ now \in Nat
    /\ protected \in [Slugs -> BOOLEAN]
    /\ hash \in [Slugs -> Passcodes \cup {NoPasscode}]
    /\ attempt \in [Clients -> Attempt]
    /\ update \in [Hosts -> Update]

\* Every step keeps the types of all that is not in the limiter.
LEMMA RestTyped ==
    ASSUME TypeOK, [Next]_vars
    PROVE  RestTypeOK'
<1>0. RestTypeOK
  BY DEF TypeOK, RestTypeOK
<1>1. ASSUME NEW k \in Keys, JoinThrottled(k)
      PROVE  RestTypeOK'
  BY <1>0, <1>1 DEF JoinThrottled, RestTypeOK
<1>2. ASSUME NEW c \in Clients, NEW k \in Keys, NEW guess \in Passcodes, JoinStart(c, k, guess)
      PROVE  RestTypeOK'
  <2>1. k[2] \in Slugs
    BY DEF Keys
  <2>2. [kind |-> "verify", key |-> k, hash |-> hash[k[2]], guess |-> guess] \in Attempt
    BY <1>0, <2>1 DEF RestTypeOK, Attempt
  <2>. QED  BY <1>0, <1>2, <2>2 DEF JoinStart, RestTypeOK
<1>3. ASSUME NEW c \in Clients, JoinWrong(c) \/ JoinRight(c)
      PROVE  RestTypeOK'
  <2>1. Idle \in Attempt
    BY DEF Idle, Attempt
  <2>. QED  BY <1>0, <1>3, <2>1 DEF JoinWrong, JoinRight, RestTypeOK
<1>4. ASSUME NEW s \in Slugs, ClearPasscode(s)
      PROVE  RestTypeOK'
  BY <1>0, <1>4 DEF ClearPasscode, RestTypeOK
<1>5. ASSUME NEW h \in Hosts, NEW kind \in {"rotate", "set-passcode"}, NEW s \in Slugs,
             NEW passcode \in Passcodes, HashStart(h, kind, s, passcode)
      PROVE  RestTypeOK'
  <2>1. [kind |-> kind, slug |-> s, passcode |-> passcode] \in Update
    BY DEF Update
  <2>. QED  BY <1>0, <1>5, <2>1 DEF HashStart, RestTypeOK
<1>6. ASSUME NEW h \in Hosts, HashFinish(h)
      PROVE  RestTypeOK'
  <2>1. update[h] \in [kind : {"rotate", "set-passcode"}, slug : Slugs, passcode : Passcodes]
    BY <1>0, <1>6 DEF HashFinish, RestTypeOK, Update
  <2>2. Idle \in Update
    BY DEF Idle, Update
  <2>3. (protected[update[h].slug] \/ update[h].kind = "set-passcode") \in BOOLEAN
    OBVIOUS
  <2>4. /\ hash' = [hash EXCEPT ![update[h].slug] = update[h].passcode]
        /\ protected' = [protected EXCEPT ![update[h].slug] =
                            protected[update[h].slug] \/ update[h].kind = "set-passcode"]
        /\ update' = [update EXCEPT ![h] = Idle]
        /\ UNCHANGED <<now, attempt>>
    BY <1>6 DEF HashFinish
  <2>5. protected' \in [Slugs -> BOOLEAN]
    BY <1>0, <2>1, <2>3, <2>4, Zenon DEF RestTypeOK
  <2>6. hash' \in [Slugs -> Passcodes \cup {NoPasscode}]
    BY <1>0, <2>1, <2>4 DEF RestTypeOK
  <2>. QED  BY <1>0, <2>2, <2>4, <2>5, <2>6 DEF RestTypeOK
<1>7. CASE Advance
  BY <1>0, <1>7 DEF Advance, RestTypeOK
<1>8. CASE UNCHANGED vars
  BY <1>0, <1>8 DEF vars, RestTypeOK
<1>. QED  BY <1>1, <1>2, <1>3, <1>4, <1>5, <1>6, <1>7, <1>8 DEF Next

\* The invariant of the gate: types, the bound of every ring, and the agreement of
\* every ring with its history.
THEOREM GateInvariant == Spec => [](TypeOK /\ GateInv)
<1>1. Init => TypeOK /\ GateInv
  <2>. SUFFICES ASSUME Init
                PROVE  TypeOK /\ GateInv
    OBVIOUS
  <2>1. <<>> \in Seq([at : Nat, hash : Passcodes \cup {NoPasscode}]) /\ THRESHOLD \in Nat
    BY LimiterAssumption
  <2>2. TypeOK
    BY <2>1, EmptyKeyInv DEF Init, TypeOK, Idle, Attempt, Update
  <2>3. GateInv
    BY EmptyKeyInv DEF Init, GateInv
  <2>. QED  BY <2>2, <2>3
<1>2. TypeOK /\ GateInv /\ [Next]_vars => TypeOK' /\ GateInv'
  <2>. SUFFICES ASSUME TypeOK, GateInv, [Next]_vars
                PROVE  TypeOK' /\ GateInv'
    OBVIOUS
  <2>1. LimiterTypeOK' /\ GateInv'
    BY LimiterInductive
  <2>2. /\ now' \in Nat
        /\ protected' \in [Slugs -> BOOLEAN]
        /\ hash' \in [Slugs -> Passcodes \cup {NoPasscode}]
        /\ attempt' \in [Clients -> Attempt]
        /\ update' \in [Hosts -> Update]
    BY RestTyped DEF RestTypeOK
  <2>. QED  BY <2>1, <2>2 DEF TypeOK, LimiterTypeOK, History
<1>. QED  BY <1>1, <1>2, PTL DEF Spec

-----------------------------------------------------------------------------
(* The promises of the gate.                                               *)

\* Recent counts in the history what RecentOf counts in any sequence of wrong answers.
LEMMA RecentIsRecentOf == \A k \in Keys : Recent(k) = RecentOf(misses[k], now)
BY DEF Recent, RecentOf

\* No key out of cooldown has THRESHOLD failures that still count, however many
\* verifications were in flight at once.
THEOREM NoFreeGuessHolds == Spec => []NoFreeGuess
<1>1. TypeOK /\ GateInv => NoFreeGuess
  <2>. SUFFICES ASSUME TypeOK, GateInv, NEW k \in Keys, ~Running(k)
                PROVE  Cardinality(Recent(k)) < THRESHOLD
    BY DEF NoFreeGuess
  <2> DEFINE b == buckets[k]
  <2>1. b \in Bucket /\ misses[k] \in History /\ now \in Nat /\ KeyInv(b, misses[k], now)
    BY DEF TypeOK, GateInv, History
  <2>2. THRESHOLD \in Nat /\ 0 < THRESHOLD /\ Len(b.failures) \in Nat
    BY <2>1, LimiterAssumption DEF Bucket
  <2>3. /\ Cardinality(Recent(k)) \in Nat
        /\ b.cooldownUntil = 0 => Cardinality(Recent(k)) <= Len(b.failures)
        /\ b.cooldownUntil # 0 => Cardinality(Recent(k)) = 0
    BY <2>1, RingCountsRecent, RecentIsRecentOf
  <2>4. b.cooldownUntil = 0 => Len(b.failures) < THRESHOLD
    BY <2>1 DEF KeyInv
  <2>. HIDE DEF b
  <2>. QED  BY <2>2, <2>3, <2>4
<1>. QED  BY <1>1, GateInvariant, PTL

\* Only a wrong answer opens a cooldown, and only when the recent wrong answers of
\* its key, this one included, are THRESHOLD.
THEOREM CooldownIsEarnedHolds == Spec => CooldownIsEarned
<1>1. TypeOK /\ GateInv /\ [Next]_vars =>
        \A k \in Keys : ~Running(k) /\ Running(k)' =>
            Cardinality(Recent(k)) + 1 >= THRESHOLD
  <2>. SUFFICES ASSUME TypeOK, GateInv, [Next]_vars, NEW k \in Keys, ~Running(k), Running(k)'
                PROVE  Cardinality(Recent(k)) + 1 >= THRESHOLD
    OBVIOUS
  <2> DEFINE b == buckets[k]
  <2> DEFINE p == Prune(b, now)
  <2>1. /\ b \in Bucket /\ misses[k] \in History /\ now \in Nat /\ KeyInv(b, misses[k], now)
        /\ THRESHOLD \in Nat /\ buckets \in [Keys -> Bucket]
    BY LimiterAssumption DEF TypeOK, GateInv, History
  <2>2. /\ p \in Bucket /\ KeyInv(p, misses[k], now)
        /\ \A i \in DOMAIN p.failures : p.failures[i] >= now - WINDOW
        /\ p.cooldownUntil = IF Lapsed(b, now) THEN 0 ELSE b.cooldownUntil
    BY <2>1, PruneKeepsKeyInv
  <2>3. p.cooldownUntil = 0
    BY <2>1, <2>2 DEF Lapsed, Running, Bucket
  <2>4. Cardinality(Recent(k)) >= Len(p.failures) /\ Cardinality(Recent(k)) \in Nat
    BY <2>1, <2>2, <2>3, RingCountsRecent, RecentIsRecentOf
  <2>5. Len(p.failures) \in Nat /\ p.failures \in Seq(Nat)
    BY <2>2 DEF Bucket
  <2>6. b.cooldownUntil \in Nat /\ ~(now < b.cooldownUntil)
    BY <2>1 DEF Bucket, Running
  <2>7. ASSUME NEW j \in Keys, LooksAt(j)
        PROVE  FALSE
    <3>1. buckets'[k].cooldownUntil \in {b.cooldownUntil, p.cooldownUntil} /\ now' = now
      BY <2>1, <2>7 DEF LooksAt
    <3>. QED  BY <2>1, <2>3, <2>6, <3>1 DEF Running
  <2>8. ASSUME NEW j \in Keys, NEW h, FailsAt(j, h)
        PROVE  Len(p.failures) + 1 >= THRESHOLD
    <3>1. j = k
      BY <2>1, <2>6, <2>8 DEF FailsAt, Running
    <3>2. buckets'[k] = AddFailure(p, now) /\ now' = now
      BY <2>1, <2>3, <2>8, <3>1 DEF FailsAt, RecordFailure
    <3>3. Len(Append(p.failures, now)) = Len(p.failures) + 1
      BY <2>1, <2>5
    <3>4. ~(Len(Append(p.failures, now)) >= THRESHOLD) => buckets'[k].cooldownUntil = 0
      BY <3>2 DEF AddFailure
    <3>. QED  BY <2>1, <2>5, <3>2, <3>3, <3>4 DEF Running
  <2>9. ASSUME NEW S \in SUBSET Keys, Forgives(S)
        PROVE  FALSE
    BY <2>1, <2>6, <2>9, EmptyKeyInv DEF Forgives, Running
  <2>10. CASE now' = now + 1 /\ UNCHANGED <<buckets, misses>>
    BY <2>1, <2>6, <2>10 DEF Running
  <2>. QED  BY <2>1, <2>4, <2>5, <2>7, <2>8, <2>9, <2>10, LimiterSteps
<1>. QED  BY <1>1, GateInvariant, PTL DEF CooldownIsEarned, Spec

\* Neither a look nor a wrong answer moves the end of a running cooldown.
LEMMA RunningCooldownKept ==
    ASSUME TypeOK, GateInv, NEW k \in Keys, Running(k),
           NEW j \in Keys, NEW h, LooksAt(j) \/ FailsAt(j, h)
    PROVE  buckets'[k].cooldownUntil = buckets[k].cooldownUntil
<1> DEFINE b == buckets[k]
<1>1. /\ b \in Bucket /\ misses[k] \in History /\ now \in Nat /\ KeyInv(b, misses[k], now)
      /\ buckets \in [Keys -> Bucket]
  BY DEF TypeOK, GateInv, History
<1>2. Prune(b, now).cooldownUntil = b.cooldownUntil /\ b.cooldownUntil # 0
  <2>1. now < b.cooldownUntil /\ b.cooldownUntil \in Nat
    BY <1>1 DEF Running, Bucket
  <2>2. ~Lapsed(b, now) /\ b.cooldownUntil # 0
    BY <1>1, <2>1 DEF Lapsed
  <2>3. Prune(b, now).cooldownUntil = IF Lapsed(b, now) THEN 0 ELSE b.cooldownUntil
    BY <1>1, PruneKeepsKeyInv
  <2>. QED  BY <2>2, <2>3
<1>. QED  BY <1>1, <1>2 DEF LooksAt, FailsAt, RecordFailure

\* The end of a running cooldown is fixed when it opens: a right answer of its key or a
\* settings change of its room lifts it, and nothing else moves it.
THEOREM CooldownStandsHolds == Spec => CooldownStands
<1> DEFINE Right(k) ==
        \E c \in Clients : attempt[c].kind = "verify" /\ attempt[c].key = k
                          /\ Matches(c) /\ attempt'[c] = Idle
<1> DEFINE Changed(k) ==
        \/ \E h \in Hosts : update[h].kind # "idle" /\ update[h].slug = k[2]
                            /\ update'[h] = Idle
        \/ ~protected'[k[2]]
<1>1. TypeOK /\ GateInv /\ [Next]_vars =>
        \A k \in Keys : Running(k) /\ buckets'[k].cooldownUntil # buckets[k].cooldownUntil =>
            buckets'[k].cooldownUntil = 0 /\ (Right(k) \/ Changed(k))
  <2>. SUFFICES ASSUME TypeOK, GateInv, [Next]_vars, NEW k \in Keys, Running(k),
                       buckets'[k].cooldownUntil # buckets[k].cooldownUntil
                PROVE  buckets'[k].cooldownUntil = 0 /\ (Right(k) \/ Changed(k))
    OBVIOUS
  <2>0. buckets'[k].cooldownUntil = 0
    <3>1. ASSUME NEW S \in SUBSET Keys, Forgives(S)
          PROVE  buckets'[k].cooldownUntil \in {0, buckets[k].cooldownUntil}
      BY <3>1, EmptyKeyInv DEF Forgives, TypeOK
    <3>. QED  BY <3>1, LimiterSteps, RunningCooldownKept
  <2>1. /\ k[2] \in Slugs
        /\ buckets \in [Keys -> Bucket] /\ attempt \in [Clients -> Attempt]
        /\ protected \in [Slugs -> BOOLEAN] /\ update \in [Hosts -> Update]
    BY DEF TypeOK, Running, Bucket, Keys
  <2>2. ASSUME NEW c \in Clients, JoinRight(c)
        PROVE  Right(k)
    <3>1. attempt[c].key = k
      BY <2>1, <2>2 DEF JoinRight
    <3>. QED  BY <2>1, <2>2, <3>1 DEF JoinRight
  <2>3. ASSUME NEW s \in Slugs, ClearPasscode(s)
        PROVE  Changed(k)
    <3>1. k[2] = s
      BY <2>1, <2>3 DEF ClearPasscode, Forgive, Clear
    <3>. QED  BY <2>1, <2>3, <3>1 DEF ClearPasscode
  <2>4. ASSUME NEW h \in Hosts, HashFinish(h)
        PROVE  Changed(k)
    <3>1. k[2] = update[h].slug
      BY <2>1, <2>4 DEF HashFinish, Forgive, Clear
    <3>. QED  BY <2>1, <2>4, <3>1 DEF HashFinish
  <2>5. ASSUME NEW j \in Keys, JoinThrottled(j)
        PROVE  FALSE
    BY <2>1, <2>5, RunningCooldownKept DEF JoinThrottled, LooksAt
  <2>6. ASSUME NEW c \in Clients, NEW j \in Keys, NEW guess \in Passcodes, JoinStart(c, j, guess)
        PROVE  FALSE
    BY <2>1, <2>6, RunningCooldownKept DEF JoinStart, LooksAt
  <2>7. ASSUME NEW c \in Clients, JoinWrong(c)
        PROVE  FALSE
    <3>1. attempt[c].key \in Keys
      BY <2>1, <2>7 DEF JoinWrong, Attempt
    <3>2. FailsAt(attempt[c].key, attempt[c].hash)
      BY <2>7 DEF JoinWrong, FailsAt
    <3>. QED  BY <2>1, <3>1, <3>2, RunningCooldownKept
  <2>8. CASE UNCHANGED buckets
    BY <2>1, <2>8
  <2>. QED
    BY <2>0, <2>2, <2>3, <2>4, <2>5, <2>6, <2>7, <2>8 DEF Next, vars, HashStart, Advance
<1>2. TypeOK /\ GateInv /\ [Next]_vars =>
        \A k \in Keys : Running(k) /\ buckets'[k].cooldownUntil # buckets[k].cooldownUntil =>
            /\ buckets'[k].cooldownUntil = 0
            /\ \/ \E c \in Clients : attempt[c].kind = "verify" /\ attempt[c].key = k
                                     /\ Matches(c) /\ attempt'[c] = Idle
               \/ \E h \in Hosts : update[h].kind # "idle" /\ update[h].slug = k[2]
                                   /\ update'[h] = Idle
               \/ ~protected'[k[2]]
  BY <1>1
<1>. QED  BY <1>2, GateInvariant, PTL DEF CooldownStands, Spec
=============================================================================
