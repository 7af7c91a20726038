---------------------------- MODULE PasscodeGate ----------------------------
(***************************************************************************)
(* The gate in front of passcode rooms: the limiter that joins consult     *)
(* before an awaited Argon2id verification and report to after it, while   *)
(* the host rotates, sets or clears the passcode and thereby clears the    *)
(* limiter of the room.  Rooms, seats and the lobby are in RoomServer; here*)
(* a room is its access mode and its hash, and the hash is the passcode it *)
(* verifies.                                                               *)
(***************************************************************************)
EXTENDS RateLimiter

CONSTANTS
    Ips,            \* client addresses
    Slugs,          \* rooms
    Clients,        \* join requests that can be verifying at once
    Hosts,          \* settings requests that can be hashing at once
    Passcodes,      \* passcodes that pass validation
    NoPasscode      \* null passcode hash

ASSUME GateAssumption == NoPasscode \notin Passcodes

VARIABLES
    now,            \* the clock
    protected,      \* protected[s]: is the access mode of room s "passcode"?
    hash,           \* hash[s]: the passcode hash of room s
    buckets,        \* buckets[k]: the bucket of key k = <<ip, slug>>
    attempt,        \* attempt[c]: the join suspended in slot c
    update,         \* update[h]: the settings request suspended in slot h
    misses          \* history: misses[k] are the wrong answers for key k since it was
                    \* last forgiven (a success, a clear) or put in cooldown

vars == <<now, protected, hash, buckets, attempt, update, misses>>

Keys == Ips \X Slugs

Idle == [kind |-> "idle"]

Attempt ==
    [kind : {"idle"}]
    \cup [kind : {"verify"}, key : Keys, hash : Passcodes \cup {NoPasscode}, guess : Passcodes]

Update ==
    [kind : {"idle"}]
    \cup [kind : {"rotate", "set-passcode"}, slug : Slugs, passcode : Passcodes]

TypeOK ==
    /\ now \in Nat
    /\ protected \in [Slugs -> BOOLEAN]
    /\ hash \in [Slugs -> Passcodes \cup {NoPasscode}]
    /\ buckets \in [Keys -> Bucket]
    /\ \A k \in Keys : Len(buckets[k].failures) <= THRESHOLD
    /\ attempt \in [Clients -> Attempt]
    /\ update \in [Hosts -> Update]
    /\ misses \in [Keys -> Seq([at : Nat, hash : Passcodes \cup {NoPasscode}])]

\* Every room was created with a passcode.
Init ==
    /\ now = 0
    /\ protected = [s \in Slugs |-> TRUE]
    /\ hash \in [Slugs -> Passcodes]
    /\ buckets = [k \in Keys |-> EmptyBucket]
    /\ attempt = [c \in Clients |-> Idle]
    /\ update = [h \in Hosts |-> Idle]
    /\ misses = [k \in Keys |-> <<>>]

-----------------------------------------------------------------------------
(* POST /api/rooms/:slug/join with a passcode.                             *)

\* In cooldown: denied with invalid_passcode, the verifier is not invoked.
JoinThrottled(k) ==
    /\ protected[k[2]]
    /\ ~ShouldAllow(buckets[k], now)
    /\ buckets' = [buckets EXCEPT ![k] = Prune(@, now)]
    /\ UNCHANGED <<now, protected, hash, attempt, update, misses>>

\* Up to the await: the hash is read, the bucket pruned.
JoinStart(c, k, guess) ==
    /\ attempt[c] = Idle
    /\ protected[k[2]]
    /\ ShouldAllow(buckets[k], now)
    /\ buckets' = [buckets EXCEPT ![k] = Prune(@, now)]
    /\ attempt' = [attempt EXCEPT ![c] = [kind |-> "verify", key |-> k,
                                          hash |-> hash[k[2]], guess |-> guess]]
    /\ UNCHANGED <<now, protected, hash, update, misses>>

Matches(c) == attempt[c].hash = attempt[c].guess

Running(k) == now < buckets[k].cooldownUntil

Recent(k) == {i \in DOMAIN misses[k] : misses[k][i].at >= now - WINDOW}

\* The verifier answered: no match.
JoinWrong(c) ==
    /\ attempt[c].kind = "verify"
    /\ ~Matches(c)
    /\ LET k == attempt[c].key IN
        /\ buckets' = [buckets EXCEPT ![k] = RecordFailure(@, now)]
        /\ misses' = [misses EXCEPT ![k] =
                         IF now < buckets'[k].cooldownUntil THEN <<>>
                         ELSE Append(@, [at |-> now, hash |-> attempt[c].hash])]
    /\ attempt' = [attempt EXCEPT ![c] = Idle]
    /\ UNCHANGED <<now, protected, hash, update>>

\* The verifier answered: match; recordSuccess empties the bucket, cooldown or not.
JoinRight(c) ==
    /\ attempt[c].kind = "verify"
    /\ Matches(c)
    /\ LET k == attempt[c].key IN
        /\ buckets' = [buckets EXCEPT ![k] = EmptyBucket]
        /\ misses' = [misses EXCEPT ![k] = <<>>]
    /\ attempt' = [attempt EXCEPT ![c] = Idle]
    /\ UNCHANGED <<now, protected, hash, update>>

-----------------------------------------------------------------------------
(* POST /api/rooms/:slug/settings.                                         *)

\* passcodeRateLimiter.clear(slug)
Clear(s) == buckets' = [k \in Keys |-> IF k[2] = s THEN EmptyBucket ELSE buckets[k]]

Forgive(s) ==
    /\ Clear(s)
    /\ misses' = [k \in Keys |-> IF k[2] = s THEN <<>> ELSE misses[k]]

ClearPasscode(s) ==
    /\ protected' = [protected EXCEPT ![s] = FALSE]
    /\ hash' = [hash EXCEPT ![s] = NoPasscode]
    /\ Forgive(s)
    /\ UNCHANGED <<now, attempt, update>>

HashStart(h, kind, s, passcode) ==
    /\ update[h] = Idle
    /\ kind = "rotate" => protected[s]
    /\ update' = [update EXCEPT ![h] = [kind |-> kind, slug |-> s, passcode |-> passcode]]
    /\ UNCHANGED <<now, protected, hash, buckets, attempt, misses>>

HashFinish(h) ==
    /\ update[h].kind # "idle"
    /\ LET s == update[h].slug IN
        /\ hash' = [hash EXCEPT ![s] = update[h].passcode]
        /\ protected' = [protected EXCEPT ![s] = @ \/ update[h].kind = "set-passcode"]
        /\ Forgive(s)
    /\ update' = [update EXCEPT ![h] = Idle]
    /\ UNCHANGED <<now, attempt>>

Advance ==
    /\ now' = now + 1
    /\ UNCHANGED <<protected, hash, buckets, attempt, update, misses>>

-----------------------------------------------------------------------------
Next ==
    \/ \E k \in Keys : JoinThrottled(k)
    \/ \E c \in Clients, k \in Keys, guess \in Passcodes : JoinStart(c, k, guess)
    \/ \E c \in Clients : JoinWrong(c) \/ JoinRight(c)
    \/ \E s \in Slugs : ClearPasscode(s)
    \/ \E h \in Hosts, kind \in {"rotate", "set-passcode"}, s \in Slugs,
          passcode \in Passcodes : HashStart(h, kind, s, passcode)
    \/ \E h \in Hosts : HashFinish(h)
    \/ Advance

Spec == Init /\ [][Next]_vars

-----------------------------------------------------------------------------
(* What relates the ring to the history, and makes the properties inductive. *)

\* Failures are recorded in order and not ahead of the clock.
InOrder(ring, t) ==
    /\ \A i, j \in DOMAIN ring : i <= j => ring[i] <= ring[j]
    /\ \A i \in DOMAIN ring : ring[i] <= t

\* The ring is the end of the history, and what it lacks of it has left the window.
EndsHistory(ring, history, t) ==
    LET gone == Len(history) - Len(ring) IN
    /\ gone >= 0
    /\ \A i \in 1..Len(ring) : history[gone + i].at = ring[i]
    /\ \A i \in 1..gone : history[i].at < t - WINDOW

\* Out of cooldown the ring tells what the history does and is short of THRESHOLD.
KeyInv(bucket, history, t) ==
    /\ InOrder(bucket.failures, t)
    /\ bucket.cooldownUntil = 0 =>
          Len(bucket.failures) < THRESHOLD /\ EndsHistory(bucket.failures, history, t)
    /\ bucket.cooldownUntil # 0 => history = <<>>

\* The inductive invariant: the lazily pruned ring of each key tells what its
\* history does.
GateInv == \A k \in Keys : KeyInv(buckets[k], misses[k], now)

-----------------------------------------------------------------------------
(* Properties.                                                             *)

\* A key that is not in cooldown has failed fewer than THRESHOLD times within the
\* last window since it was last forgiven or cooled down, however many verifications
\* it had in flight: the lazily pruned ring forgets no failure that still counts.
NoFreeGuess == \A k \in Keys : ~Running(k) => Cardinality(Recent(k)) < THRESHOLD

\* A cooldown opens only on the THRESHOLD-th failure of its own key within the window;
\* failures that left the window, that came before or during the previous cooldown or
\* before a success or a rotation do not add up to it.
CooldownIsEarned ==
    [][\A k \in Keys : ~Running(k) /\ Running(k)' =>
         Cardinality(Recent(k)) + 1 >= THRESHOLD]_vars

\* A running cooldown is lifted only by a right answer of its own key or by a change of the
\* passcode or access mode of its own room, and nothing moves its end: answers to
\* verifications that were in flight when it opened neither extend nor shorten it.
CooldownStands ==
    [][\A k \in Keys : Running(k) /\ buckets'[k].cooldownUntil # buckets[k].cooldownUntil =>
         /\ buckets'[k].cooldownUntil = 0
         /\ \/ \E c \in Clients : attempt[c].kind = "verify" /\ attempt[c].key = k
                                  /\ Matches(c) /\ attempt'[c] = Idle
            \/ \E h \in Hosts : update[h].kind # "idle" /\ update[h].slug = k[2]
                                /\ update'[h] = Idle
            \/ ~protected'[k[2]]]_vars
=============================================================================
