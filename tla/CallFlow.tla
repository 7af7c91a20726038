------------------------------- MODULE CallFlow -------------------------------
(***************************************************************************)
(* useCallFlow: the calls of one browser tab.  An effect connects whenever *)
(* the page shown or the session changes; each connectCall goes on across  *)
(* its awaits (media token, SFU connection, publishing) whatever the tab   *)
(* shows by then, and learns from its cancelled flag that it came late.    *)
(*                                                                         *)
(* The token route and the SFU are external: they answer either way, at    *)
(* any time.  An SFU connection that drops while media is being published  *)
(* makes the publishing fail.                                              *)
(***************************************************************************)
EXTENDS Naturals, Sequences

CONSTANTS
    Slugs,
    None            \* null

VARIABLES
    page,           \* the view that was rendered last: the effects have run for it
    callSession,    \* the session of the call page
    callStatus,
    attempts,       \* the runs of connectCall so far
    callRoom,       \* callRoomRef: the attempt whose room it holds, or 0
    open,           \* attempts whose room is connected at the SFU
    reloaded,       \* was callSession set since the connecting effect last ran?
    fallback        \* history: has initiateFallback been called?

callVars == <<page, callSession, callStatus, attempts, callRoom, open, reloaded, fallback>>

Home == [kind |-> "home"]
RoomPage(s) == [kind |-> "room", slug |-> s]
CallPage(s) == [kind |-> "call", slug |-> s]

Session(s, n, byHost) == [room |-> s, id |-> n, byHost |-> byHost]
Sessions == [room : Slugs, id : Nat, byHost : BOOLEAN]

NewAttempt(s, session, two) ==
    [slug |-> s, session |-> session, roomOfTwo |-> two, cancelled |-> FALSE,
     stage |-> "token"]

CallInit ==
    /\ page = Home /\ callSession = None /\ callStatus = "idle"
    /\ attempts = <<>> /\ callRoom = 0 /\ open = {}
    /\ reloaded = FALSE /\ fallback = FALSE

-----------------------------------------------------------------------------
(* Rendering.                                                              *)

RunCallEffects_NoCancel(v, fresh, loaded, two) ==
    LET again == fresh \/ reloaded
        starts == again /\ v.kind = "call" /\ callSession # None
    IN  /\ page' = v
        /\ callSession' = IF fresh THEN loaded ELSE callSession
        /\ reloaded' = (fresh /\ {callSession, loaded} # {None})
        /\ attempts' = IF starts THEN Append(attempts, NewAttempt(v.slug, callSession, two))
                                 ELSE attempts
        /\ open' = IF again THEN open \ {callRoom} ELSE open
        /\ callRoom' = IF again THEN 0 ELSE callRoom
        /\ callStatus' = IF starts THEN "requesting_token"
                         ELSE IF fresh /\ loaded = None THEN "idle" ELSE callStatus
        /\ UNCHANGED fallback

\* The two effects of a render that shows view v; `fresh` when viewState was set since the
\* last one.  The first loads the session of a call page, `loaded` (None for other pages);
\* the second, which still sees the session of that render and runs again for the one
\* just loaded, cancels the attempt of its last run, disconnects and connects anew.
\* `two` says whether the render knows the room to be one for two.
RunCallEffects(v, fresh, loaded, two) ==
    LET again == fresh \/ reloaded
        starts == again /\ v.kind = "call" /\ callSession # None
        stopped == [i \in DOMAIN attempts |-> [attempts[i] EXCEPT !.cancelled = TRUE]]
        earlier == IF again THEN stopped ELSE attempts
    IN  /\ page' = v
        /\ callSession' = IF fresh THEN loaded ELSE callSession
        /\ reloaded' = (fresh /\ {callSession, loaded} # {None})
        /\ attempts' = IF starts THEN Append(earlier, NewAttempt(v.slug, callSession, two))
                                 ELSE earlier
        /\ open' = IF again THEN open \ {callRoom} ELSE open
        /\ callRoom' = IF again THEN 0 ELSE callRoom
        /\ callStatus' = IF starts THEN "requesting_token"
                         ELSE IF fresh /\ loaded = None THEN "idle" ELSE callStatus
        /\ UNCHANGED fallback

-----------------------------------------------------------------------------
(* connectCall.                                                            *)

At(i, stages) == i \in DOMAIN attempts /\ attempts[i].stage \in stages

MoveTo(i, stage) == attempts' = [attempts EXCEPT ![i].stage = stage]

GiveUp_KeepsStatus(i, mayFallBack) ==
    LET a == attempts[i] IN
    /\ MoveTo(i, "over")
    /\ fallback' = (fallback \/ (mayFallBack /\ ~a.cancelled /\ a.roomOfTwo))
    /\ UNCHANGED callStatus

\* A failure from which a room for two may fall back to P2P leaves the status as it is;
\* any other one, of an attempt that is still wanted, shows the error.
GiveUp(i, mayFallBack) ==
    LET a == attempts[i] IN
    /\ MoveTo(i, "over")
    /\ fallback' = (fallback \/ (mayFallBack /\ ~a.cancelled /\ a.roomOfTwo))
    /\ callStatus' = IF a.cancelled \/ (mayFallBack /\ a.roomOfTwo) THEN callStatus ELSE "idle"

\* 503, when no SFU is configured, may fall back; every other answer may not.
TokenRefused(i) ==
    /\ At(i, {"token"})
    /\ \E noSfu \in BOOLEAN : GiveUp(i, noSfu)
    /\ UNCHANGED <<page, callSession, callRoom, open, reloaded>>

\* The route knows a session in its own room only.
TokenGranted(i) ==
    /\ At(i, {"token"}) /\ attempts[i].session.room = attempts[i].slug
    /\ IF attempts[i].cancelled
       THEN MoveTo(i, "over") /\ UNCHANGED callStatus
       ELSE MoveTo(i, "connecting") /\ callStatus' = "connecting"
    /\ UNCHANGED <<page, callSession, callRoom, open, reloaded, fallback>>

SfuConnected(i) ==
    /\ At(i, {"connecting"})
    /\ MoveTo(i, "publishing")
    /\ open' = open \cup {i}
    /\ UNCHANGED <<page, callSession, callStatus, callRoom, reloaded, fallback>>

SfuFailed_LeavesRoom(i) ==
    /\ At(i, {"connecting", "publishing"})
    /\ GiveUp(i, TRUE)
    /\ UNCHANGED <<page, callSession, callRoom, open, reloaded>>

\* connectToSfu disconnects its room before it passes the error on.
SfuFailed(i) ==
    /\ At(i, {"connecting", "publishing"})
    /\ GiveUp(i, TRUE)
    /\ open' = open \ {i}
    /\ UNCHANGED <<page, callSession, callRoom, reloaded>>

Published(i) ==
    /\ At(i, {"publishing"})
    /\ MoveTo(i, "over")
    /\ IF attempts[i].cancelled
       THEN open' = open \ {i} /\ UNCHANGED <<callRoom, callStatus>>
       ELSE /\ open' = open \ {callRoom}
            /\ callRoom' = i
            /\ callStatus' = "connected"
    /\ UNCHANGED <<page, callSession, reloaded, fallback>>

Disconnected_KeepsStatus(i) ==
    /\ At(i, {"over"}) /\ i \in open
    /\ open' = open \ {i}
    /\ UNCHANGED <<page, callSession, attempts, callStatus, callRoom, reloaded, fallback>>

\* The "disconnected" event of a room whose listeners are installed.
Disconnected(i) ==
    /\ At(i, {"over"}) /\ i \in open
    /\ open' = open \ {i}
    /\ callStatus' = "idle"
    /\ UNCHANGED <<page, callSession, attempts, callRoom, reloaded, fallback>>

Connecting(i) ==
    TokenRefused(i) \/ TokenGranted(i) \/ SfuConnected(i) \/ SfuFailed(i) \/ Published(i)

-----------------------------------------------------------------------------
(* Properties.                                                             *)

Stages == {"token", "connecting", "publishing", "over"}

CallTypeOK ==
    /\ callStatus \in {"idle", "requesting_token", "connecting", "connected"}
    /\ callSession \in Sessions \cup {None}
    /\ attempts \in Seq([slug : Slugs, session : Sessions, roomOfTwo : BOOLEAN,
                         cancelled : BOOLEAN, stage : Stages])
    /\ callRoom \in {0} \cup DOMAIN attempts
    /\ open \subseteq DOMAIN attempts
    /\ {reloaded, fallback} \subseteq BOOLEAN

\* Every room that is connected at the SFU is the one callRoomRef holds, or still in the
\* hands of its attempt: whatever pages come and go while connectCall waits, no call goes
\* on, with camera and microphone, that no button can end.
NoRoomLeaks == \A i \in open : i = callRoom \/ attempts[i].stage = "publishing"

\* The room held is of the page that is shown and, once the effects have come to rest, of
\* its session; an attempt for another page or session is cancelled, so it never gets there.
OnlyThisCall ==
    \A i \in DOMAIN attempts :
        i = callRoom \/ (attempts[i].stage # "over" /\ ~attempts[i].cancelled) =>
            /\ page = CallPage(attempts[i].slug)
            /\ ~reloaded => attempts[i].session = callSession

\* The page that says connected holds a room that is connected: the event of its loss, and
\* every cleanup, takes the status back.
ConnectedIsOpen == callStatus = "connected" => callRoom \in open
=============================================================================
