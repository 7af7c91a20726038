------------------------------ MODULE RedisLobby ------------------------------
(***************************************************************************)
(* The Redis-backed lobby queue of a room.  A decision reads the queue,    *)
(* deletes it, pushes back what remains and logs itself, in five commands, *)
(* between which other servers enqueue and decide.                         *)
(***************************************************************************)
EXTENDS Naturals, Sequences, SequencesExt

CONSTANTS
    Servers,
    Guests,         \* lobby requests; each is enqueued once
    DecisionsCap

VARIABLES
    queue,          \* the queue in Redis, newest first
    decisions,      \* the log in Redis, newest first
    deciding,       \* deciding[s]: the decision server s is at, and its next command
    enqueued,       \* history: requests that were enqueued
    decided         \* history: requests whose decision was answered with ok

lobbyVars == <<queue, decisions, deciding, enqueued, decided>>

Idle == [next |-> "none"]

LobbyInit ==
    /\ queue = <<>> /\ decisions = <<>>
    /\ deciding = [s \in Servers |-> Idle]
    /\ enqueued = {} /\ decided = {}

Enqueue(g) ==
    /\ g \notin enqueued
    /\ queue' = <<g>> \o queue
    /\ enqueued' = enqueued \cup {g}
    /\ UNCHANGED <<decisions, deciding, decided>>

\* LRANGE; a request that is not there is answered ok: false at once.
ReadQueue(s) ==
    /\ deciding[s] = Idle
    /\ \E g \in ToSet(queue) :
        deciding' = [deciding EXCEPT ![s] =
            [next |-> "delete", request |-> g, remaining |-> SelectSeq(queue, LAMBDA r : r # g)]]
    /\ UNCHANGED <<queue, decisions, enqueued, decided>>

At(s, next) == deciding[s].next = next
Goes(s, next) == deciding' = [deciding EXCEPT ![s].next = next]

DeleteQueue(s) ==
    /\ At(s, "delete")
    /\ queue' = <<>>
    /\ Goes(s, IF deciding[s].remaining = <<>> THEN "log" ELSE "push")
    /\ UNCHANGED <<decisions, enqueued, decided>>

\* LPUSH pushes its values one by one, so they come out reversed.
PushRemaining(s) ==
    /\ At(s, "push")
    /\ queue' = Reverse(deciding[s].remaining) \o queue
    /\ Goes(s, "log")
    /\ UNCHANGED <<decisions, enqueued, decided>>

LogDecision(s) ==
    /\ At(s, "log")
    /\ decisions' = <<deciding[s].request>> \o decisions
    /\ Goes(s, "trim")
    /\ UNCHANGED <<queue, enqueued, decided>>

TrimLog(s) ==
    /\ At(s, "trim")
    /\ decisions' = SubSeq(decisions, 1, IF Len(decisions) < DecisionsCap THEN Len(decisions) ELSE DecisionsCap)
    /\ deciding' = [deciding EXCEPT ![s] = Idle]
    /\ decided' = decided \cup {deciding[s].request}
    /\ UNCHANGED <<queue, enqueued>>

LobbyNext ==
    \/ \E g \in Guests : Enqueue(g)
    \/ \E s \in Servers :
        ReadQueue(s) \/ DeleteQueue(s) \/ PushRemaining(s) \/ LogDecision(s) \/ TrimLog(s)

LobbySpec == LobbyInit /\ [][LobbyNext]_lobbyVars

-----------------------------------------------------------------------------

\* While no decision is under way the queue holds the guests that were not decided, as
\* the in-memory lobby's does: the rewrite of a decision loses nobody who queued meanwhile
\* and brings back nobody another server decided.
QueueIsUndecided ==
    (\A s \in Servers : deciding[s] = Idle) => ToSet(queue) = enqueued \ decided
=============================================================================
