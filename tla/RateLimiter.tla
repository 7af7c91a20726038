---------------------------- MODULE RateLimiter ----------------------------
(***************************************************************************)
(* The in-memory limiter of failed attempts, the same code for passcodes   *)
(* and for host secrets: a ring of failure times in a sliding window, and  *)
(* a cooldown once the ring holds THRESHOLD of them.  A bucket that does   *)
(* not exist is created empty when it is first read, so the two are one.   *)
(***************************************************************************)
EXTENDS Integers, Sequences, FiniteSets

CONSTANTS
    WINDOW,       \* how long a failure counts
    THRESHOLD,    \* failures in the window that open a cooldown
    COOLDOWN      \* how long a cooldown lasts

\* TRUE of the defaults: 5 minutes, 5 failures, 60 seconds.
ASSUME LimiterAssumption ==
    WINDOW \in Nat \ {0} /\ THRESHOLD \in Nat \ {0} /\ COOLDOWN \in Nat \ {0}

\* A cooldownUntil of 0 stands for null.
Bucket == [failures : Seq(Nat), cooldownUntil : Nat]

EmptyBucket == [failures |-> <<>>, cooldownUntil |-> 0]

\* The ring without the failures at its head that left the window by time t.
InWindow(failures, t) ==
    LET stale == {i \in DOMAIN failures : \A j \in 1..i : failures[j] < t - WINDOW}
    IN SubSeq(failures, Cardinality(stale) + 1, Len(failures))

Lapsed(bucket, t) == bucket.cooldownUntil # 0 /\ t >= bucket.cooldownUntil

\* prune, which every read does first: a cooldown that is over empties the ring.
Prune(bucket, t) ==
    IF Lapsed(bucket, t) THEN EmptyBucket
    ELSE [bucket EXCEPT !.failures = InWindow(@, t)]

\* shouldAllow returns this, and leaves the bucket pruned.
ShouldAllow(bucket, t) == Prune(bucket, t).cooldownUntil = 0

AddFailure(bucket, t) ==
    LET failures == Append(bucket.failures, t)
    IN [failures |-> failures,
        cooldownUntil |-> IF Len(failures) >= THRESHOLD THEN t + COOLDOWN ELSE 0]

RecordFailure_Extends(bucket, t) == AddFailure(Prune(bucket, t), t)

RecordFailure_NoPrune(bucket, t) ==
    IF bucket.cooldownUntil # 0 THEN bucket ELSE AddFailure(bucket, t)

RecordFailure_OneMore(bucket, t) ==
    LET pruned == Prune(bucket, t)
        failures == Append(pruned.failures, t)
    IN IF pruned.cooldownUntil # 0 THEN pruned
       ELSE [failures |-> failures,
             cooldownUntil |-> IF Len(failures) > THRESHOLD THEN t + COOLDOWN ELSE 0]

\* recordFailure: while a cooldown is active failures do not count.
RecordFailure(bucket, t) ==
    LET pruned == Prune(bucket, t)
    IN IF pruned.cooldownUntil # 0 THEN pruned ELSE AddFailure(pruned, t)
=============================================================================
