----------------------------- MODULE RedisLimiter -----------------------------
(***************************************************************************)
(* The Redis-backed limiters of passcode guesses, host reclaims and room   *)
(* creations, which send the same commands for a key.  Several servers     *)
(* share the key; Redis runs each command as one step, and between two     *)
(* commands of one call those of other servers come in.  Redis itself is   *)
(* external.                                                               *)
(***************************************************************************)
EXTENDS Integers, FiniteSets

CONSTANTS
    Servers,
    Window, Threshold, CoolingTime,     \* the options
    MaxClock,       \* bound: the clock
    MaxMisses       \* bound: failures recorded

ASSUME LimiterAssumption ==
    /\ Window \in Nat \ {0} /\ Threshold \in Nat \ {0} /\ CoolingTime \in Nat \ {0}
    /\ MaxClock \in Nat /\ MaxMisses \in Nat

VARIABLES
    failures,       \* the sorted set: [n, at], n for the random part of a member
    cooldown,       \* cooldown.until is the value, cooldown.gone when PX removes it; or NoKey
    call,           \* call[s]: the limiter's method that server s is in, and its next command
    clock,
    misses,         \* failures recorded so far
    unanswered      \* history: members no cooldown was set after

limiterVars == <<failures, cooldown, call, clock, misses, unanswered>>

NoKey == [until |-> 0, gone |-> 0]
NoCall == [next |-> "none", at |-> 0, seen |-> {}]

LInit ==
    /\ failures = {} /\ cooldown = NoKey
    /\ call = [s \in Servers |-> NoCall]
    /\ clock = 1 /\ misses = 0 /\ unanswered = {}

\* Does the cooldown's key exist?
Cooling == clock < cooldown.gone

Goes(s, next) == call' = [call EXCEPT ![s].next = next]
Returns(s) == call' = [call EXCEPT ![s] = NoCall]

Recording == {s \in Servers : call[s].next \in {"prune", "add"}}

\* now() is read when the method is called, before its first command.
Begin(s) ==
    /\ call[s] = NoCall
    /\ \E first \in {"get", "prune", "forgive", "scan"} :
        /\ first = "prune" => Cardinality(Recording) + misses < MaxMisses
        /\ call' = [call EXCEPT ![s] = [next |-> first, at |-> clock, seen |-> {}]]
    /\ UNCHANGED <<failures, cooldown, clock, misses, unanswered>>

Forget(kept) == failures' = kept /\ unanswered' = unanswered \cap kept

RecentAt(at) == {f \in failures : f.at > at - Window}

-----------------------------------------------------------------------------
(* shouldAllow.                                                            *)

GetCooldown(s) ==
    /\ call[s].next = "get"
    /\ \/ ~Cooling /\ Goes(s, "pruneOnly")
       \/ Cooling /\ call[s].at < cooldown.until /\ Returns(s)
       \/ Cooling /\ call[s].at >= cooldown.until /\ Goes(s, "delCooldown")
    /\ UNCHANGED <<failures, cooldown, clock, misses, unanswered>>

DelCooldown(s) ==
    /\ call[s].next = "delCooldown"
    /\ cooldown' = NoKey
    /\ Goes(s, "pruneOnly")
    /\ UNCHANGED <<failures, clock, misses, unanswered>>

\* The ZCARD that follows is not looked at.
PruneOnly(s) ==
    /\ call[s].next = "pruneOnly"
    /\ Forget(RecentAt(call[s].at))
    /\ Returns(s)
    /\ UNCHANGED <<cooldown, clock, misses>>

-----------------------------------------------------------------------------
(* recordFailure.                                                          *)

Prune(s) ==
    /\ call[s].next = "prune"
    /\ Forget(RecentAt(call[s].at))
    /\ Goes(s, "add")
    /\ UNCHANGED <<cooldown, clock, misses>>

Add(s) ==
    LET f == [n |-> misses, at |-> call[s].at] IN
    /\ call[s].next = "add"
    /\ failures' = failures \cup {f} /\ unanswered' = unanswered \cup {f}
    /\ misses' = misses + 1
    /\ Goes(s, "count")
    /\ UNCHANGED <<cooldown, clock>>

Count_Exceeds(s) ==
    /\ call[s].next = "count"
    /\ IF Cardinality(failures) > Threshold THEN Goes(s, "set") ELSE Returns(s)
    /\ UNCHANGED <<failures, cooldown, clock, misses, unanswered>>

Count(s) ==
    /\ call[s].next = "count"
    /\ IF Cardinality(failures) >= Threshold THEN Goes(s, "set") ELSE Returns(s)
    /\ UNCHANGED <<failures, cooldown, clock, misses, unanswered>>

\* The value counts from the call, the key's expiry from the command.
SetCooldown(s) ==
    /\ call[s].next = "set"
    /\ cooldown' = [until |-> call[s].at + CoolingTime, gone |-> clock + CoolingTime]
    /\ unanswered' = {}
    /\ Returns(s)
    /\ UNCHANGED <<failures, clock, misses>>

-----------------------------------------------------------------------------
(* recordSuccess, and clear.                                               *)

Forgive(s) ==
    /\ call[s].next = "forgive"
    /\ Forget({})
    /\ Goes(s, "lift")
    /\ UNCHANGED <<cooldown, clock, misses>>

Lift(s) ==
    /\ call[s].next = "lift"
    /\ cooldown' = NoKey
    /\ Returns(s)
    /\ UNCHANGED <<failures, clock, misses, unanswered>>

\* SCAN lists the keys that exist; they are deleted by one command.
Scan(s) ==
    /\ call[s].next = "scan"
    /\ call' = [call EXCEPT ![s].next = "delSeen",
                   ![s].seen = {k \in {"failures", "cooldown"} :
                                   IF k = "failures" THEN failures # {} ELSE Cooling}]
    /\ UNCHANGED <<failures, cooldown, clock, misses, unanswered>>

DelSeen(s) ==
    /\ call[s].next = "delSeen"
    /\ Forget(IF "failures" \in call[s].seen THEN {} ELSE failures)
    /\ cooldown' = IF "cooldown" \in call[s].seen THEN NoKey ELSE cooldown
    /\ Returns(s)
    /\ UNCHANGED <<clock, misses>>

Pass ==
    /\ clock < MaxClock
    /\ clock' = clock + 1
    /\ UNCHANGED <<failures, cooldown, call, misses, unanswered>>

LNext ==
    \/ Pass
    \/ \E s \in Servers :
        \/ Begin(s) \/ GetCooldown(s) \/ DelCooldown(s) \/ PruneOnly(s)
        \/ Prune(s) \/ Add(s) \/ Count(s) \/ SetCooldown(s)
        \/ Forgive(s) \/ Lift(s) \/ Scan(s) \/ DelSeen(s)

LSpec == LInit /\ [][LNext]_limiterVars

-----------------------------------------------------------------------------
(* Properties.                                                             *)

Counting == \E s \in Servers : call[s].next \in {"count", "set"}

\* However the commands of several servers interleave, the failures of a key never reach
\* the threshold unnoticed: once the calls that recorded them returned, a cooldown was set
\* after the last of them.
ThresholdLocks == Cardinality(failures) >= Threshold /\ unanswered # {} => Counting
=============================================================================
