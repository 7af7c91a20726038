------------------------------ MODULE CreateGate ------------------------------
(***************************************************************************)
(* POST /api/rooms and the limiter of creations, for one client address:   *)
(* only requests that fail validation count against it, and a creation     *)
(* with a passcode waits for its hash while others are handled.            *)
(***************************************************************************)
EXTENDS RoomValidation, FiniteSets, Sequences, SequencesExt

CONSTANTS
    CreateBodies,   \* bodies a client sends
    WINDOW_MS, CREATE_THRESHOLD, COOLDOWN_MS,
    MaxHashing,     \* bound: creations that wait for their hash
    MaxTicks        \* bound: the clock

ASSUME CreateAssumption ==
    /\ WINDOW_MS \in Nat \ {0} /\ CREATE_THRESHOLD \in Nat \ {0} /\ COOLDOWN_MS \in Nat \ {0}
    /\ MaxHashing \in Nat /\ MaxTicks \in Nat

VARIABLES
    bucket,         \* the address's bucket; 0 for no cooldown
    hashing,        \* when the creations that wait for their hash were let in
    ticks,          \* the clock
    failed,         \* history: times of the failures since the last room or cooldown
    openedAt        \* history: when the last cooldown was opened

createVars == <<bucket, hashing, ticks, failed, openedAt>>

CreateInit ==
    /\ bucket = [failures |-> <<>>, cooldownUntil |-> 0]
    /\ hashing = <<>> /\ ticks = 1
    /\ failed = <<>> /\ openedAt = 0

\* The filter t > cutoff.  Failures are pushed as the clock goes, so those it takes out are
\* at the head.
InWindow(times, at) ==
    LET old == {i \in DOMAIN times : times[i] <= at - WINDOW_MS}
    IN  SubSeq(times, Cardinality(old) + 1, Len(times))

PruneBucket(b) == [b EXCEPT !.failures = InWindow(@, ticks)]

ShouldAllow == bucket.cooldownUntil = 0 \/ ticks >= bucket.cooldownUntil

\* The bucket once shouldAllow has said yes: a cooldown that is over starts a fresh window.
Allowing ==
    PruneBucket(IF bucket.cooldownUntil = 0 THEN bucket ELSE [failures |-> <<>>, cooldownUntil |-> 0])

RecordFailure(b) ==
    LET failures == Append(PruneBucket(b).failures, ticks)
        opens == Len(failures) >= CREATE_THRESHOLD /\ b.cooldownUntil = 0
    IN  [failures |-> failures, cooldownUntil |-> IF opens THEN ticks + COOLDOWN_MS ELSE b.cooldownUntil]

\* recordSuccess, as the answer is made.
RoomCreated ==
    /\ bucket' = [failures |-> <<>>, cooldownUntil |-> 0]
    /\ failed' = <<>>

CreateRefused ==
    /\ ShouldAllow
    /\ \E body \in CreateBodies : ~ValidateCreate(body).ok
    /\ bucket' = RecordFailure(Allowing)
    /\ IF bucket'.cooldownUntil # 0
       THEN failed' = <<>> /\ openedAt' = ticks
       ELSE failed' = Append(failed, ticks) /\ UNCHANGED openedAt
    /\ UNCHANGED <<hashing, ticks>>

CreateAtOnce_Unlimited ==
    /\ \E body \in CreateBodies :
        LET d == ValidateCreate(body) IN d.ok /\ ~Sent(d.value, "passcode")
    /\ RoomCreated
    /\ UNCHANGED <<hashing, ticks, openedAt>>

CreateAtOnce ==
    /\ ShouldAllow
    /\ \E body \in CreateBodies :
        LET d == ValidateCreate(body) IN d.ok /\ ~Sent(d.value, "passcode")
    /\ RoomCreated
    /\ UNCHANGED <<hashing, ticks, openedAt>>

CreateHashing ==
    /\ ShouldAllow /\ Len(hashing) < MaxHashing
    /\ \E body \in CreateBodies :
        LET d == ValidateCreate(body) IN d.ok /\ Sent(d.value, "passcode")
    /\ bucket' = Allowing
    /\ hashing' = Append(hashing, ticks)
    /\ UNCHANGED <<ticks, failed, openedAt>>

\* The limiter is not asked again.
Hashed ==
    /\ \E i \in DOMAIN hashing : hashing' = RemoveAt(hashing, i)
    /\ RoomCreated
    /\ UNCHANGED <<ticks, openedAt>>

CreateTick ==
    /\ ticks < MaxTicks
    /\ ticks' = ticks + 1
    /\ UNCHANGED <<bucket, hashing, failed, openedAt>>

CreateNext == CreateRefused \/ CreateAtOnce \/ CreateHashing \/ Hashed \/ CreateTick

CreateSpec == CreateInit /\ [][CreateNext]_createVars

-----------------------------------------------------------------------------
(* Properties.                                                             *)

\* An address that may create has failed fewer than CREATE_THRESHOLD times in the last
\* window since its last room or cooldown: no order of requests, hashes and pauses makes
\* the bucket forget a failure that counts, or keep one that a cooldown has paid for.
FailuresCounted ==
    ShouldAllow => /\ Len(InWindow(failed, ticks)) < CREATE_THRESHOLD
                   /\ InWindow(Allowing.failures, ticks) = InWindow(failed, ticks)

\* A cooldown ends before its time only by a room whose creation was let in when, or
\* before, the cooldown was opened; nothing moves its end.
LiftedByEarlier ==
    [][~ShouldAllow /\ bucket'.cooldownUntil # bucket.cooldownUntil =>
           /\ bucket'.cooldownUntil = 0
           /\ \E i \in DOMAIN hashing : hashing' = RemoveAt(hashing, i) /\ hashing[i] <= openedAt]_createVars

\* The limiter of creations, in time and across the await.
CreationsLimited == []FailuresCounted /\ LiftedByEarlier
=============================================================================
