------------------------------ MODULE SignalHub ------------------------------
(***************************************************************************)
(* The signalling route and the signal bus, for one room: sockets connect  *)
(* as a session of the room, are subscribed to its events and registered   *)
(* as the peer of their session, chat, relay, and close, while the host    *)
(* changes settings and the cleanup loop takes sessions and the room away. *)
(* The bus and the registry keep rooms apart by slug, so one room is       *)
(* enough.  TCP delivers what is sent to an open socket in order: a client *)
(* has seen, or will see, what its socket was sent.                        *)
(*                                                                         *)
(* Frames the route answers to the sender alone and that change nothing    *)
(* (a pong, a soft error) are not steps.                                   *)
(***************************************************************************)
EXTENDS Integers, Sequences, FiniteSets

CONSTANTS
    Sessions,       \* session ids, each given out once
    Sockets,        \* slots for WebSocket connections: this many at once
    QualityCaps,    \* QualityPreset
    Capacity,       \* maxParticipants of the room
    MaxChat,        \* bound: chat messages
    NoSession,      \* connectedSessionId before room.connect
    NoSocket,       \* no entry in the registry
    NoSettings      \* no summary sent yet

ASSUME HubAssumption ==
    /\ NoSession \notin Sessions
    /\ NoSocket \notin Sockets
    /\ Capacity \in Nat
    /\ MaxChat \in Nat

VARIABLES
    live,           \* is the room in the store?
    seats,          \* ids of room.sessions
    gone,           \* session ids that lost their seat
    settings,       \* what settings calls change of the room's summary
    hashing,        \* the settings call suspended at its hash
    conn,           \* conn[k]: socket k, the closure variables of its handler, what it was sent
    subscribers,    \* sockets whose handler is subscribed to the room
    registry,       \* registry[i]: the socket that P2P frames for session i go to
    said            \* number of chat messages published

vars == <<live, seats, gone, settings, hashing, conn, subscribers, registry, said>>

roomVars == <<live, seats, gone>>

AccessMode == {"open", "passcode", "lobby"}

Settings == [accessMode : AccessMode, qualityCap : QualityCaps]

\* session is connectedSessionId and connected is connectReceived.  told, heard and
\* offered are the last summary, the chat messages and whether a switch to P2P were
\* sent; since is the number of messages published before the socket connected.
Socket ==
    [phase : {"closed", "open", "closing", "failed"},
     connected : BOOLEAN, session : Sessions \cup {NoSession},
     told : Settings \cup {NoSettings}, since : Nat, heard : Seq(Nat), offered : BOOLEAN]

NewSocket(phase) ==
    [phase |-> phase, connected |-> FALSE, session |-> NoSession,
     told |-> NoSettings, since |-> 0, heard |-> <<>>, offered |-> FALSE]

TypeOK ==
    /\ live \in BOOLEAN
    /\ seats \subseteq Sessions /\ gone \subseteq Sessions
    /\ settings \in Settings
    /\ hashing \in {"none", "rotate", "set-passcode"}
    /\ conn \in [Sockets -> Socket]
    /\ \A k \in Sockets : Len(conn[k].heard) + conn[k].since <= said
    /\ subscribers \subseteq Sockets
    /\ registry \in [Sessions -> Sockets \cup {NoSocket}]
    /\ said \in Nat

\* A room that was just created.
Init ==
    /\ live = TRUE
    /\ seats = {} /\ gone = {}
    /\ settings \in Settings
    /\ hashing = "none"
    /\ conn = [k \in Sockets |-> NewSocket("closed")]
    /\ subscribers = {}
    /\ registry = [i \in Sessions |-> NoSocket]
    /\ said = 0

-----------------------------------------------------------------------------
(* The room.                                                               *)

Join(i) ==
    /\ live /\ i \notin seats \cup gone
    /\ Cardinality(seats) < Capacity
    /\ seats' = seats \cup {i}
    /\ UNCHANGED <<live, gone, settings, hashing, conn, subscribers, registry, said>>

\* The reaper, or the host, takes the seat; the socket of the session is not told.
Reap(i) ==
    /\ i \in seats
    /\ seats' = seats \ {i}
    /\ gone' = gone \cup {i}
    /\ UNCHANGED <<live, settings, hashing, conn, subscribers, registry, said>>

DeleteRoom ==
    /\ live
    /\ live' = FALSE
    /\ seats' = {}
    /\ gone' = gone \cup seats
    /\ UNCHANGED <<settings, hashing, conn, subscribers, registry, said>>

-----------------------------------------------------------------------------
(* Sending and publishing.  Sending on a socket that is not open does      *)
(* nothing.                                                                *)

Hears(k) == conn[k].phase = "open" /\ k \in subscribers

\* signalBus.publish of room.settings_updated with the summary s.
PublishSettings(s) ==
    conn' = [k \in Sockets |-> IF Hears(k) THEN [conn[k] EXCEPT !.told = s] ELSE conn[k]]

\* signalBus.publish of chat.received.
PublishChat(n) ==
    conn' = [k \in Sockets |->
                IF Hears(k) THEN [conn[k] EXCEPT !.heard = Append(@, n)] ELSE conn[k]]

-----------------------------------------------------------------------------
(* POST /api/rooms/:slug/settings.                                         *)

SetQualityCap(cap) ==
    /\ live
    /\ settings' = [settings EXCEPT !.qualityCap = cap]
    /\ PublishSettings(settings')
    /\ UNCHANGED <<roomVars, hashing, subscribers, registry, said>>

ClearPasscode(mode) ==
    /\ live
    /\ settings' = [settings EXCEPT !.accessMode = mode]
    /\ PublishSettings(settings')
    /\ UNCHANGED <<roomVars, hashing, subscribers, registry, said>>

HashStart(kind) ==
    /\ live /\ hashing = "none"
    /\ kind = "rotate" => settings.accessMode = "passcode"
    /\ hashing' = kind
    /\ UNCHANGED <<roomVars, settings, conn, subscribers, registry, said>>

HashFinish_StaleSummary ==
    /\ hashing # "none"
    /\ settings' = IF hashing = "rotate" THEN settings
                   ELSE [settings EXCEPT !.accessMode = "passcode"]
    /\ hashing' = "none"
    /\ PublishSettings(settings)
    /\ UNCHANGED <<roomVars, subscribers, registry, said>>

\* After the await: the room may be gone from the store, its sockets are told all the same.
HashFinish ==
    /\ hashing # "none"
    /\ settings' = IF hashing = "rotate" THEN settings
                   ELSE [settings EXCEPT !.accessMode = "passcode"]
    /\ hashing' = "none"
    /\ PublishSettings(settings')
    /\ UNCHANGED <<roomVars, subscribers, registry, said>>

-----------------------------------------------------------------------------
(* GET /signal.                                                            *)

Open(k) ==
    /\ conn[k].phase = "closed"
    /\ conn' = [conn EXCEPT ![k] = NewSocket("open")]
    /\ UNCHANGED <<roomVars, settings, hashing, subscribers, registry, said>>

\* Frames that were under way when the server closed a socket still reach its handler.
Receiving(k) == conn[k].phase \in {"open", "closing"}

\* closeWithError, and the answer to the ping of a session that is gone.
StartClosing(k) ==
    /\ conn' = [conn EXCEPT ![k].phase = "closing"]
    /\ UNCHANGED <<roomVars, settings, hashing, subscribers, registry, said>>

\* A frame that is no record with a kind, at any time.
BadMessage(k) ==
    /\ conn[k].phase = "open"
    /\ StartClosing(k)

\* A first frame that is no room.connect of a session the room has.
ConnectRefused(k) ==
    /\ conn[k].phase = "open" /\ ~conn[k].connected
    /\ StartClosing(k)

Peers == {i \in Sessions : registry[i] # NoSocket}

\* The snapshot, the subscription, the entry in the registry, and, with the second
\* of two peers, the offer to switch to P2P.
Connect(k, i) ==
    /\ Receiving(k) /\ ~conn[k].connected
    /\ live /\ i \in seats
    /\ subscribers' = subscribers \cup {k}
    /\ registry' = [registry EXCEPT ![i] = k]
    /\ LET snapshot == [conn[k] EXCEPT !.connected = TRUE, !.session = i, !.since = said,
                            !.told = IF conn[k].phase = "open" THEN settings ELSE @]
           offer == Capacity = 2 /\ Cardinality(Peers') = 2
           welcomed == [conn EXCEPT ![k] = snapshot]
       IN conn' = [j \in Sockets |->
                      IF offer /\ welcomed[j].phase = "open" /\ \E p \in Sessions : registry'[p] = j
                      THEN [welcomed[j] EXCEPT !.offered = TRUE] ELSE welcomed[j]]
    /\ UNCHANGED <<roomVars, settings, hashing, said>>

\* room.ping of a session that is gone.
PingExpired(k) ==
    /\ Receiving(k) /\ conn[k].connected
    /\ conn[k].session \notin seats
    /\ StartClosing(k)

ChatSend(k) ==
    /\ Receiving(k) /\ conn[k].connected
    /\ live /\ conn[k].session \in seats
    /\ said < MaxChat
    /\ said' = said + 1
    /\ PublishChat(said')
    /\ UNCHANGED <<roomVars, settings, hashing, subscribers, registry>>

Cleanup_BySession(k) ==
    /\ subscribers' = {j \in subscribers : conn[j].session # conn[k].session}
    /\ registry' = IF conn[k].connected THEN [registry EXCEPT ![conn[k].session] = NoSocket]
                   ELSE registry

Cleanup_KeepsEntry(k) ==
    /\ subscribers' = subscribers \ {k}
    /\ UNCHANGED registry

\* cleanup: the entry of the session goes, whichever socket it names.
Cleanup(k) ==
    /\ subscribers' = subscribers \ {k}
    /\ registry' = IF conn[k].connected THEN [registry EXCEPT ![conn[k].session] = NoSocket]
                   ELSE registry

\* The error event, which the close event follows.
SocketError(k) ==
    /\ Receiving(k)
    /\ Cleanup(k)
    /\ conn' = [conn EXCEPT ![k].phase = "failed"]
    /\ UNCHANGED <<roomVars, settings, hashing, said>>

Close(k) ==
    /\ conn[k].phase \in {"open", "closing", "failed"}
    /\ Cleanup(k)
    /\ conn' = [conn EXCEPT ![k] = NewSocket("closed")]
    /\ UNCHANGED <<roomVars, settings, hashing, said>>

-----------------------------------------------------------------------------
Next ==
    \/ \E i \in Sessions : Join(i) \/ Reap(i)
    \/ DeleteRoom
    \/ \E cap \in QualityCaps : SetQualityCap(cap)
    \/ \E mode \in {"open", "lobby"} : ClearPasscode(mode)
    \/ \E kind \in {"rotate", "set-passcode"} : HashStart(kind)
    \/ HashFinish
    \/ \E k \in Sockets : \/ Open(k) \/ BadMessage(k) \/ ConnectRefused(k)
                          \/ PingExpired(k) \/ ChatSend(k) \/ SocketError(k) \/ Close(k)
    \/ \E k \in Sockets, i \in Sessions : Connect(k, i)

Spec == Init /\ [][Next]_vars

-----------------------------------------------------------------------------
(* Properties.                                                             *)

\* Nothing outlives its socket: a subscription is that of a connected socket that is
\* not closed, and such a socket has one; an entry of the registry names a socket that
\* can still be sent to and that connected as that very session.
HubInv ==
    /\ subscribers = {k \in Sockets : Receiving(k) /\ conn[k].connected}
    /\ \A i \in Peers : registry[i] \in subscribers /\ conn[registry[i]].session = i

Connected(k) == conn[k].phase = "open" /\ conn[k].connected

\* What the last summary says of the settings is what they are, for every client that
\* is connected, whenever it connected and however settings calls overlap.
SummaryCurrent == \A k \in Sockets : Connected(k) => conn[k].told = settings

\* A client that is connected is sent every chat message published since it connected,
\* once and in the order of publication, whatever other sockets of its session do.
ChatExactlyOnce ==
    \A k \in Sockets : Connected(k) =>
        conn[k].heard = [n \in 1..(said - conn[k].since) |-> conn[k].since + n]

\* "Emit transport.switch_available to both sessions when the second session connects
\* to a 1:1 room" (routes/signal.ts): when both sessions are connected, and no socket
\* is closing, a socket of each has been sent it.
BothOffered ==
    \A k, j \in Sockets :
        /\ Capacity = 2
        /\ \A o \in Sockets : conn[o].phase # "closing"
        /\ Connected(k) /\ Connected(j)
        /\ {conn[k].session, conn[j].session} = seats /\ conn[k].session # conn[j].session
        => \E o \in Sockets : conn[o].session = conn[k].session /\ conn[o].offered
=============================================================================
