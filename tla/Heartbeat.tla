------------------------------ MODULE Heartbeat ------------------------------
(***************************************************************************)
(* One session kept alive over the signalling socket: the web hook with    *)
(* its ping interval, the signalling route that touches the session, and   *)
(* the reaper that takes its seat after RECONNECT_WINDOW of silence.       *)
(*                                                                         *)
(* Frames arrive, and the hook's interval fires, within one unit of time:  *)
(* the clock waits for them.  It waits for the tick too, which by          *)
(* RoomServer!SilentSessionsGo comes less than CLEANUP_INTERVAL after the  *)
(* window is over.                                                         *)
(***************************************************************************)
EXTENDS Integers, Sequences

CONSTANTS
    PING_INTERVAL,      \* between two pings of the hook
    RECONNECT_WINDOW,   \* silence after which the reaper takes the seat
    CLEANUP_INTERVAL,   \* between two ticks
    MaxUpdates,         \* bound: settings updates
    MaxSends            \* bound: chat messages, P2P frames and token requests of the client

ASSUME HeartbeatAssumption ==
    /\ PING_INTERVAL \in Nat \ {0}
    /\ RECONNECT_WINDOW \in Nat \ {0} /\ CLEANUP_INTERVAL \in Nat \ {0}
    /\ MaxUpdates \in Nat /\ MaxSends \in Nat

VARIABLES
    seated,         \* is the session in room.sessions?
    silent,         \* time since its lastSeenAt, while it is
    server,         \* the route's side of the socket
    socket,         \* the hook's side of the socket
    up, down,       \* frames under way to the server, to the client
    late,           \* is the close event of a socket that the page left still to come?
    signalState,    \* signalState of the hook ("closed" stands for "idle" as well)
    sessionExpired, \* sessionExpired of the hook
    timer,          \* time until the ping interval fires, or Off
    updates, sends, \* settings updates and client requests so far
    pinged,         \* history: has the server handled a ping on this socket?
    lost            \* history: by how much stops and restarts of the interval have put off
                    \* the ping since, and the whole interval once that ping is sent

vars == <<seated, silent, server, socket, up, down, late, signalState, sessionExpired,
          timer, updates, sends, pinged, lost>>

Off == -1

UpFrame == {"room.connect", "room.ping", "chat", "p2p"}

DownFrame ==
    {"room.snapshot", "room.settings_updated", "room.pong",
     "unauthorized", "session_expired", "p2p_not_ready", "close"}

Errors == {"unauthorized", "session_expired", "p2p_not_ready"}

TypeOK ==
    /\ seated \in BOOLEAN
    /\ silent \in 0..(RECONNECT_WINDOW + CLEANUP_INTERVAL - 1)
    /\ server \in {"none", "open", "connected"}
    /\ socket \in {"none", "open", "closed"}
    /\ up \in Seq(UpFrame)
    /\ down \in Seq(DownFrame)
    /\ late \in BOOLEAN
    /\ signalState \in {"connecting", "connected", "error", "closed"}
    /\ sessionExpired \in BOOLEAN
    /\ timer \in {Off} \cup 0..PING_INTERVAL
    /\ timer # Off => socket = "open"
    /\ updates \in 0..MaxUpdates /\ sends \in 0..MaxSends
    /\ pinged \in BOOLEAN
    /\ lost \in Nat

\* A session that was just created, whose page has not opened its socket; the page may
\* have left an earlier session's.
Init ==
    /\ seated = TRUE /\ silent = 0
    /\ server = "none" /\ socket = "none"
    /\ up = <<>> /\ down = <<>> /\ late \in BOOLEAN
    /\ signalState = "closed" /\ sessionExpired = FALSE /\ timer = Off
    /\ updates = 0 /\ sends = 0
    /\ pinged = FALSE /\ lost = 0

-----------------------------------------------------------------------------
(* The interval.                                                           *)

\* What of the current interval is over.
Elapsed == IF timer = Off THEN 0 ELSE PING_INTERVAL - timer

PutOff(d) == lost' = IF seated /\ pinged THEN lost + d ELSE lost

StopPing ==
    /\ timer' = Off
    /\ PutOff(Elapsed)

\* startPing stops the interval that is running and sets a new one.
StartPing ==
    /\ timer' = PING_INTERVAL
    /\ PutOff(Elapsed)

PingFires ==
    /\ timer = 0
    /\ up' = IF socket = "open" THEN Append(up, "room.ping") ELSE up
    /\ timer' = PING_INTERVAL
    /\ PutOff(PING_INTERVAL)
    /\ UNCHANGED <<seated, silent, server, socket, down, signalState, sessionExpired,
                   updates, sends, pinged, late>>

-----------------------------------------------------------------------------
(* The hook.                                                               *)

\* The effect runs: a page of the call opens the socket and sends room.connect.
Mount ==
    /\ socket # "open"
    /\ socket' = "open" /\ server' = "open"
    /\ up' = <<"room.connect">> /\ down' = <<>>
    /\ signalState' = "connecting" /\ sessionExpired' = FALSE /\ timer' = Off
    /\ pinged' = FALSE /\ lost' = 0
    /\ UNCHANGED <<seated, silent, updates, sends, late>>

\* The page leaves the call or the network fails, with what was under way.  The socket of
\* a page that leaves may see its close event later.
Disconnect ==
    /\ socket = "open"
    /\ socket' = "closed" /\ server' = "none"
    /\ up' = <<>> /\ down' = <<>>
    /\ signalState' \in {"closed", "error"} /\ late' \in {late, TRUE}
    /\ StopPing
    /\ UNCHANGED <<seated, silent, sessionExpired, updates, sends, pinged>>

LateClose_KeepsState ==
    /\ late
    /\ late' = FALSE
    /\ StopPing
    /\ UNCHANGED <<seated, silent, server, socket, up, down, signalState, sessionExpired,
                   updates, sends, pinged>>

\* The close event of a socket the page left earlier, with the error event before it if the
\* connection failed: their handlers stop the interval that the hook's one reference names,
\* whichever socket that serves.
LateClose ==
    /\ late
    /\ late' = FALSE
    /\ signalState' \in {"error", IF signalState = "error" THEN "error" ELSE "closed"}
    /\ StopPing
    /\ UNCHANGED <<seated, silent, server, socket, up, down, sessionExpired, updates, sends,
                   pinged>>

\* A chat message, or a P2P frame, which the hook offers to send and the pages as they are
\* put together never ask for (BrowserTabProofs!FallbackIsNeverInitiated).
SendFrame ==
    /\ socket = "open" /\ sends < MaxSends
    /\ \E frame \in {"chat", "p2p"} : up' = Append(up, frame)
    /\ sends' = sends + 1
    /\ UNCHANGED <<seated, silent, server, socket, down, signalState, sessionExpired,
                   timer, updates, pinged, lost, late>>

Receiving(frame) == socket = "open" /\ down # <<>> /\ Head(down) = frame

ReceiveSummary ==
    /\ Receiving("room.snapshot") \/ Receiving("room.settings_updated")
    /\ signalState' = "connected"
    /\ StartPing
    /\ down' = Tail(down)
    /\ UNCHANGED <<seated, silent, server, socket, up, sessionExpired, updates, sends,
                   pinged, late>>

ReceivePong ==
    /\ Receiving("room.pong")
    /\ down' = Tail(down)
    /\ UNCHANGED <<seated, silent, server, socket, up, signalState, sessionExpired,
                   timer, updates, sends, pinged, lost, late>>

\* Any error frame stops the heartbeat.
ReceiveError ==
    /\ \E e \in Errors : Receiving(e)
    /\ sessionExpired' = (sessionExpired \/ Head(down) = "session_expired")
    /\ signalState' = "error"
    /\ StopPing
    /\ down' = Tail(down)
    /\ UNCHANGED <<seated, silent, server, socket, up, updates, sends, pinged, late>>

ReceiveClose ==
    /\ Receiving("close")
    /\ socket' = "closed"
    /\ signalState' = IF signalState = "error" THEN "error" ELSE "closed"
    /\ StopPing
    /\ up' = <<>> /\ down' = <<>>
    /\ UNCHANGED <<seated, silent, server, sessionExpired, updates, sends, pinged, late>>

-----------------------------------------------------------------------------
(* The server.                                                             *)

Handling(frame) == up # <<>> /\ Head(up) = frame

\* Frames to a socket that the server closed come to nothing.
HandleConnect ==
    /\ server = "open" /\ Handling("room.connect")
    /\ IF seated
       THEN server' = "connected" /\ down' = Append(down, "room.snapshot")
       ELSE server' = "none" /\ down' = down \o <<"unauthorized", "close">>
    /\ up' = Tail(up)
    /\ UNCHANGED <<seated, silent, socket, signalState, sessionExpired, timer, updates,
                   sends, pinged, lost, late>>

HandlePing_Untouched ==
    /\ server = "connected" /\ Handling("room.ping")
    /\ IF seated
       THEN /\ down' = Append(down, "room.pong")
            /\ pinged' = TRUE /\ lost' = 0
            /\ UNCHANGED <<silent, server>>
       ELSE /\ server' = "none" /\ down' = down \o <<"session_expired", "close">>
            /\ UNCHANGED <<silent, pinged, lost>>
    /\ up' = Tail(up)
    /\ UNCHANGED <<seated, socket, signalState, sessionExpired, timer, updates, sends,
                   late>>

HandlePing_NoAnswer ==
    /\ server = "connected" /\ Handling("room.ping")
    /\ IF seated
       THEN /\ silent' = 0 /\ down' = Append(down, "room.pong")
            /\ pinged' = TRUE /\ lost' = 0
       ELSE UNCHANGED <<silent, down, pinged, lost>>
    /\ up' = Tail(up)
    /\ UNCHANGED <<seated, server, socket, signalState, sessionExpired, timer, updates,
                   sends, late>>

HandlePing ==
    /\ server = "connected" /\ Handling("room.ping")
    /\ IF seated
       THEN /\ silent' = 0 /\ down' = Append(down, "room.pong")
            /\ pinged' = TRUE /\ lost' = 0
            /\ UNCHANGED server
       ELSE /\ server' = "none" /\ down' = down \o <<"session_expired", "close">>
            /\ UNCHANGED <<silent, pinged, lost>>
    /\ up' = Tail(up)
    /\ UNCHANGED <<seated, socket, signalState, sessionExpired, timer, updates, sends,
                   late>>

\* The relay, which answers with a soft error unless the other session is connected.
HandleP2P ==
    /\ server = "connected" /\ Handling("p2p")
    /\ \/ UNCHANGED down
       \/ down' = Append(down, "p2p_not_ready")
    /\ up' = Tail(up)
    /\ UNCHANGED <<seated, silent, server, socket, signalState, sessionExpired, timer,
                   updates, sends, pinged, lost, late>>

\* A chat message of a session that was reaped is answered with an error, and the socket
\* stays open; what is broadcast otherwise changes nothing here.
HandleChat ==
    /\ server = "connected" /\ Handling("chat")
    /\ down' = IF seated THEN down ELSE Append(down, "session_expired")
    /\ up' = Tail(up)
    /\ UNCHANGED <<seated, silent, server, socket, signalState, sessionExpired, timer,
                   updates, sends, pinged, lost, late>>

\* A frame that arrives after the server closed the socket.
HandleNothing ==
    /\ server = "none" /\ up # <<>>
    /\ up' = Tail(up)
    /\ UNCHANGED <<seated, silent, server, socket, down, signalState, sessionExpired,
                   timer, updates, sends, pinged, lost, late>>

\* The host changes a setting, and every subscribed socket is told.
UpdateSettings ==
    /\ server = "connected" /\ updates < MaxUpdates
    /\ down' = Append(down, "room.settings_updated") /\ updates' = updates + 1
    /\ UNCHANGED <<seated, silent, server, socket, up, signalState, sessionExpired,
                   timer, sends, pinged, lost, late>>

\* A token request, which touches the session.
Token ==
    /\ seated /\ sends < MaxSends
    /\ silent' = 0 /\ sends' = sends + 1
    /\ UNCHANGED <<seated, server, socket, up, down, signalState, sessionExpired, timer,
                   updates, pinged, lost, late>>

Reap ==
    /\ seated /\ silent >= RECONNECT_WINDOW
    /\ seated' = FALSE /\ silent' = 0
    /\ UNCHANGED <<server, socket, up, down, signalState, sessionExpired, timer, updates,
                   sends, pinged, lost, late>>

-----------------------------------------------------------------------------
Advance ==
    /\ up = <<>> /\ down = <<>> /\ timer # 0
    /\ silent + 1 < RECONNECT_WINDOW + CLEANUP_INTERVAL
    /\ silent' = IF seated THEN silent + 1 ELSE silent
    /\ IF timer = Off THEN timer' = Off /\ PutOff(1) ELSE timer' = timer - 1 /\ UNCHANGED lost
    /\ UNCHANGED <<seated, server, socket, up, down, signalState, sessionExpired,
                   updates, sends, pinged, late>>

Client == ReceiveSummary \/ ReceivePong \/ ReceiveError \/ ReceiveClose \/ PingFires

Server == HandleConnect \/ HandlePing \/ HandleP2P \/ HandleChat \/ HandleNothing

Next ==
    \/ Client \/ Server
    \/ Mount \/ Disconnect \/ LateClose \/ SendFrame
    \/ UpdateSettings \/ Token \/ Reap
    \/ Advance

Spec == Init /\ [][Next]_vars

\* Frames are delivered, the interval fires, the reaper's tick comes and time passes;
\* pages, hosts and the network do what they do.
FairSpec == Spec /\ WF_vars(Client) /\ WF_vars(Server) /\ WF_vars(Reap) /\ WF_vars(Advance)

-----------------------------------------------------------------------------
(* Properties.                                                             *)

\* What the next property follows from: once a ping was handled, the session has been
\* silent for no longer than the interval that is running and what stops and restarts have
\* cost.
SilenceAccounted == seated /\ pinged => silent <= lost + Elapsed

\* A session that pinged is not reaped unless its heartbeat was stopped or kept from
\* firing for the whole window but one interval: a heartbeat that is left alone, however
\* its frames interleave with the tick and with other traffic, saves the seat.
ReapedForSilence ==
    [][seated /\ ~seated' /\ pinged => lost >= RECONNECT_WINDOW - PING_INTERVAL]_vars

\* A client that believes it is connected can find out: its interval runs, over a socket
\* that the server still reads, or else the server's close is on its way to it.
ConnectedIsHeard ==
    signalState = "connected" =>
        /\ timer # Off /\ socket = "open"
        /\ server = "connected" \/ \E i \in DOMAIN down : down[i] = "close"

\* A client does not go on believing it is connected after its session was reaped: its
\* next ping is answered session_expired and its socket closed, if no chat message was
\* answered so before.
GhostsAreTold == (signalState = "connected" /\ ~seated) ~> signalState # "connected"
=============================================================================
