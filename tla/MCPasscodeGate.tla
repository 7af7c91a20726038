--------------------------- MODULE MCPasscodeGate ---------------------------
(***************************************************************************)
(* Small instances of PasscodeGate for TLC.  The clock is unbounded: a     *)
(* state is identified by its view, in which every time is counted from    *)
(* now, and a failure that left the window or a cooldown that is over by   *)
(* any amount is the same.  The limiter compares times with now and with   *)
(* the window only, so states with the same view have the same futures.    *)
(***************************************************************************)
EXTENDS PasscodeGate, TLC

Age(t) == IF now - t > WINDOW THEN WINDOW + 1 ELSE now - t

BucketView(bucket) ==
    <<[i \in DOMAIN bucket.failures |-> Age(bucket.failures[i])],
      IF bucket.cooldownUntil = 0 THEN "none"
      ELSE IF bucket.cooldownUntil <= now THEN "over"
      ELSE ToString(bucket.cooldownUntil - now)>>

MissView(k) ==
    [i \in 1..Cardinality(Recent(k)) |->
        LET m == misses[k][i + Len(misses[k]) - Cardinality(Recent(k))]
        IN [m EXCEPT !.at = now - @]]

View ==
    <<protected, hash, [k \in Keys |-> BucketView(buckets[k])],
      [k \in Keys |-> MissView(k)], attempt, update>>

Symmetry ==
    Permutations(Ips) \cup Permutations(Slugs) \cup Permutations(Clients)
    \cup Permutations(Passcodes)
=============================================================================
