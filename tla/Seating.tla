------------------------------ MODULE Seating ------------------------------
(***************************************************************************)
(* What the room store promises, without clocks, passcodes, lobbies or     *)
(* requests in flight: rooms open once, hold at most their capacity, hand  *)
(* out session ids that are never handed out again, and lose seats and     *)
(* whole rooms only by departure.  RoomServer implements this              *)
(* specification.                                                          *)
(***************************************************************************)
EXTENDS Integers, FiniteSets

CONSTANTS
    Slugs,        \* the room slugs that can be drawn
    SessionIds    \* the session ids that can be drawn

VARIABLES
    open,         \* the rooms that exist
    drawn,        \* the slugs drawn so far, open or not
    capacity,     \* capacity[s]: the seats of room s
    seats,        \* seats[s]: the sessions seated in room s
    issued        \* the session ids handed out so far

vars == <<open, drawn, capacity, seats, issued>>

TypeOK ==
    /\ open \subseteq drawn
    /\ drawn \subseteq Slugs
    /\ capacity \in [Slugs -> Nat]
    /\ seats \in [Slugs -> SUBSET SessionIds]
    /\ issued \subseteq SessionIds

Init ==
    /\ open = {}
    /\ drawn = {}
    /\ capacity \in [Slugs -> Nat]
    /\ seats = [s \in Slugs |-> {}]
    /\ issued = {}

\* A slug is drawn for a new, empty room of some capacity.
Open(s) ==
    /\ s \in Slugs \ drawn
    /\ open' = open \cup {s}
    /\ drawn' = drawn \cup {s}
    /\ capacity' \in [Slugs -> Nat]
    /\ \A t \in Slugs \ {s} : capacity'[t] = capacity[t]
    /\ UNCHANGED <<seats, issued>>

\* A free seat of an open room goes to a session id nobody ever had.
Admit(s, i) ==
    /\ s \in open
    /\ i \in SessionIds \ issued
    /\ Cardinality(seats[s]) < capacity[s]
    /\ seats' = [seats EXCEPT ![s] = @ \cup {i}]
    /\ issued' = issued \cup {i}
    /\ UNCHANGED <<open, drawn, capacity>>

\* Sessions leave, rooms close; a closed room keeps nobody.
Depart ==
    /\ open' \subseteq open
    /\ seats' \in [Slugs -> SUBSET SessionIds]
    /\ \A s \in Slugs : seats'[s] \subseteq seats[s]
    /\ \A s \in Slugs \ open' : seats'[s] = {}
    /\ UNCHANGED <<drawn, capacity, issued>>

Next ==
    \/ \E s \in Slugs : Open(s)
    \/ \E s \in Slugs, i \in SessionIds : Admit(s, i)
    \/ Depart

Spec == Init /\ [][Next]_vars
=============================================================================
