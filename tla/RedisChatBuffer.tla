---------------------------- MODULE RedisChatBuffer ----------------------------
(***************************************************************************)
(* The Redis-backed chat history of a room: append pushes to the head of a *)
(* list and then trims it, in two commands, while other servers append.    *)
(***************************************************************************)
EXTENDS Naturals, Sequences, SequencesExt

CONSTANTS
    Writers,
    Entries,
    Capacity        \* entries kept

ASSUME CapacityAssumption == Capacity \in Nat \ {0}

VARIABLES
    log,            \* the list in Redis, newest first
    trimming        \* servers that pushed and have still to trim

chatVars == <<log, trimming>>

ChatInit == log = <<>> /\ trimming = {}

Kept(s) == SubSeq(s, 1, IF Len(s) < Capacity THEN Len(s) ELSE Capacity)

\* list: LRANGE 0 capacity - 1, reversed.
Listed == Reverse(Kept(log))

Lpush_Tail(s) ==
    /\ s \notin trimming
    /\ \E e \in Entries : log' = Append(log, e)
    /\ trimming' = trimming \cup {s}

Lpush(s) ==
    /\ s \notin trimming
    /\ \E e \in Entries : log' = <<e>> \o log
    /\ trimming' = trimming \cup {s}

Ltrim(s) ==
    /\ s \in trimming
    /\ log' = Kept(log)
    /\ trimming' = trimming \ {s}

ChatNext == \E s \in Writers : Lpush(s) \/ Ltrim(s)

ChatSpec == ChatInit /\ [][ChatNext]_chatVars

\* What list answers is, at every moment, what the in-memory buffer would: the entries
\* pushed last, in their order, although trims of several servers come late or twice.
Buffer == INSTANCE ChatBuffer WITH list <- Listed
ImplementsBuffer == Buffer!BufferSpec
=============================================================================
