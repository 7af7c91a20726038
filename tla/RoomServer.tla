---------------------------- MODULE RoomServer ----------------------------
(***************************************************************************)
(* The room store of the LowTime server and every handler that changes it: *)
(* room creation, joining, the lobby, host settings, token requests,       *)
(* signalling heartbeats, participant removal and the cleanup tick.        *)
(*                                                                         *)
(* The server is one Node.js process: the code between two awaits runs     *)
(* without interruption and is one action.  Two handlers await in the      *)
(* middle of their work, the join of a passcode room (Argon2id verify) and *)
(* the passcode update (Argon2id hash); each is two actions, and between   *)
(* them any other handler, the clock and the cleanup tick may run.         *)
(*                                                                         *)
(* A hash is represented by the passcode it verifies.  Slugs, session ids  *)
(* and request ids are random strings in the code and are never drawn      *)
(* twice here.  Host requests are those with the right host secret; every  *)
(* other one is refused before it changes anything.  No code sets a room's *)
(* status to "closed", so that status does not occur.                      *)
(***************************************************************************)
EXTENDS Integers, FiniteSets

CONSTANTS
    Slugs,                \* room slugs
    Clients,              \* request slots: the requests that can be awaiting at once
    Passcodes,            \* passcodes that pass validation
    NoPasscode,           \* null passcode hash
    RoomSizes,            \* maxParticipants a creator may choose
    QualityCaps,          \* room quality caps
    MaxSessions,          \* bound: session ids that can be drawn
    MaxRequests,          \* bound: lobby request ids that can be drawn
    ROOM_TTL,             \* inactivity before a room expires, in clock ticks
    RECONNECT_WINDOW,     \* silence before a session is reaped
    LOBBY_REQUEST_TTL,    \* wait before a lobby request times out
    CLEANUP_INTERVAL,     \* time between two cleanup ticks
    RemovalRegistered     \* is the participant-removal route registered?

\* TRUE of validateCreateRoomRequest (2..4), room-store.ts, room-cleanup.ts and
\* index.ts (60 s < 5 min < 10 min < 2 h); the proofs need no more than this.
ASSUME SizesAssumption == RoomSizes \subseteq Nat /\ RoomSizes # {}
ASSUME CapsAssumption == QualityCaps # {}
ASSUME PasscodeAssumption == NoPasscode \notin Passcodes
ASSUME BoundsAssumption == MaxSessions \in Nat /\ MaxRequests \in Nat
ASSUME TimesAssumption ==
    /\ ROOM_TTL \in Nat \ {0}
    /\ RECONNECT_WINDOW \in Nat \ {0}
    /\ LOBBY_REQUEST_TTL \in Nat \ {0}
    /\ CLEANUP_INTERVAL \in Nat \ {0}
ASSUME RemovalAssumption == RemovalRegistered \in BOOLEAN

VARIABLES
    now,              \* the clock
    lastSweep,        \* when the cleanup tick last ran
    drawnSlugs,       \* slugs drawn so far
    live,             \* the slugs that are keys of the rooms map
    rooms,            \* rooms[s]: the stored room, meaningful while s is live
    sessions,         \* sessions[s]: ids of the sessions of room s
    lastSeenAt,       \* lastSeenAt[i]: when session i was last heard of
    lobbyRequests,    \* lobbyRequests[s]: ids of the requests of room s
    request,          \* request[q]: the stored lobby request
    nextSession,      \* the next session id to draw
    nextRequest,      \* the next request id to draw
    inflight          \* inflight[c]: the suspended handler of client c

roomVars == <<drawnSlugs, live, rooms>>
sessionVars == <<sessions, lastSeenAt, nextSession>>
lobbyVars == <<lobbyRequests, request, nextRequest>>
clockVars == <<now, lastSweep>>
vars == <<clockVars, roomVars, sessionVars, lobbyVars, inflight>>

-----------------------------------------------------------------------------
SessionIds == 1..MaxSessions
RequestIds == 1..MaxRequests
AccessMode == {"open", "lobby", "passcode"}
Hashes == Passcodes \cup {NoPasscode}

\* StoredRoom, without what never changes after creation or is only shown.
StoredRoom ==
    [status : {"created", "active"}, accessMode : AccessMode,
     maxParticipants : RoomSizes, qualityCap : QualityCaps,
     passcodeHash : Hashes, lastActivityAt : Nat, expiresAt : Nat]

\* What rooms[s] holds before s is drawn; nobody reads it.
NoRoom ==
    [status |-> "created", accessMode |-> "open",
     maxParticipants |-> CHOOSE n \in RoomSizes : TRUE,
     qualityCap |-> CHOOSE q \in QualityCaps : TRUE,
     passcodeHash |-> NoPasscode, lastActivityAt |-> 0, expiresAt |-> 0]

\* StoredLobbyRequest; sessionId 0 and reason "none" stand for undefined.
StoredLobbyRequest ==
    [status : {"waiting", "approved", "denied"}, createdAt : Nat,
     sessionId : SessionIds \cup {0},
     reason : {"none", "host_denied", "room_expired", "lobby_timeout"}]

\* A handler suspended at an await, with the locals it will resume with.
Task ==
    [kind : {"idle"}]
    \cup [kind : {"verify"}, slug : Slugs, hash : Hashes, guess : Passcodes]
    \cup [kind : {"rotate", "set-passcode"}, slug : Slugs, passcode : Passcodes]

Idle == [kind |-> "idle"]

TypeOK ==
    /\ now \in Nat
    /\ lastSweep \in Nat
    /\ drawnSlugs \in SUBSET Slugs
    /\ live \in SUBSET drawnSlugs
    /\ rooms \in [Slugs -> StoredRoom]
    /\ sessions \in [Slugs -> SUBSET SessionIds]
    /\ lastSeenAt \in [SessionIds -> Nat]
    /\ lobbyRequests \in [Slugs -> SUBSET RequestIds]
    /\ request \in [RequestIds -> StoredLobbyRequest]
    /\ nextSession \in 1..(MaxSessions + 1)
    /\ nextRequest \in 1..(MaxRequests + 1)
    /\ inflight \in [Clients -> Task]

Init ==
    /\ now = 0
    /\ lastSweep = 0
    /\ drawnSlugs = {}
    /\ live = {}
    /\ rooms = [s \in Slugs |-> NoRoom]
    /\ sessions = [s \in Slugs |-> {}]
    /\ lastSeenAt = [i \in SessionIds |-> 0]
    /\ lobbyRequests = [s \in Slugs |-> {}]
    /\ request = [q \in RequestIds |-> [status |-> "denied", createdAt |-> 0,
                                        sessionId |-> 0, reason |-> "none"]]
    /\ nextSession = 1
    /\ nextRequest = 1
    /\ inflight = [c \in Clients |-> Idle]

-----------------------------------------------------------------------------
(* Reading the store.                                                      *)

\* Each definition named <Name>_<Bug> is <Name> with a plausible bug; nothing
\* uses it but the mutation runs.

Expired_Exclusive(s) == rooms[s].expiresAt < now

\* getRoomStatus(room, now) = "expired"
Expired(s) == rooms[s].expiresAt <= now

Full_OffByOne(s) == Cardinality(sessions[s]) > rooms[s].maxParticipants

\* room.sessions.length >= room.maxParticipants
Full(s) == Cardinality(sessions[s]) >= rooms[s].maxParticipants

Waiting(s) == {q \in lobbyRequests[s] : request[q].status = "waiting"}

\* Seats taken or spoken for, against which a new lobby request is measured.
LobbyFull(s) ==
    Cardinality(sessions[s]) + Cardinality(Waiting(s)) >= rooms[s].maxParticipants

-----------------------------------------------------------------------------
(* Writing the store.                                                      *)

RecordRoomActivity_KeepsExpiry(s, room) ==
    IF Expired(s) THEN room ELSE [room EXCEPT !.lastActivityAt = now]

\* recordRoomActivity: an expired room is not revived.
RecordRoomActivity(s, room) ==
    IF Expired(s) THEN room
    ELSE [room EXCEPT !.lastActivityAt = now, !.expiresAt = now + ROOM_TTL]

CreateSession_Orphan(s) ==
    /\ ~Full(s)
    /\ nextSession <= MaxSessions
    /\ sessions' = [sessions EXCEPT ![s] = @ \cup {nextSession}]
    /\ lastSeenAt' = [lastSeenAt EXCEPT ![nextSession] = now]
    /\ nextSession' = nextSession + 1

\* createSession draws an id and takes a seat, or fails when there is none.
CreateSession(s) ==
    /\ s \in live
    /\ ~Full(s)
    /\ nextSession <= MaxSessions
    /\ sessions' = [sessions EXCEPT ![s] = @ \cup {nextSession}]
    /\ lastSeenAt' = [lastSeenAt EXCEPT ![nextSession] = now]
    /\ nextSession' = nextSession + 1

\* What every admission does after createSession.
MarkActive(s) ==
    rooms' = [rooms EXCEPT ![s] =
                 RecordRoomActivity(s, [rooms[s] EXCEPT !.status = "active"])]

CreateLobbyRequest(s) ==
    /\ s \in live
    /\ ~LobbyFull(s)
    /\ nextRequest <= MaxRequests
    /\ lobbyRequests' = [lobbyRequests EXCEPT ![s] = @ \cup {nextRequest}]
    /\ request' = [request EXCEPT ![nextRequest] =
                      [status |-> "waiting", createdAt |-> now,
                       sessionId |-> 0, reason |-> "none"]]
    /\ nextRequest' = nextRequest + 1

DenyLobbyRequest_Overwrites(r, reason) ==
    [r EXCEPT !.status = "denied", !.reason = reason]

\* denyLobbyRequest keeps the record of a request that already has a reason.
DenyLobbyRequest(r, reason) ==
    IF r.status # "waiting" /\ r.reason # "none" THEN r
    ELSE [r EXCEPT !.status = "denied", !.reason = reason]

-----------------------------------------------------------------------------
(* POST /api/rooms.  Nothing is read before the hash is awaited, so the    *)
(* whole handler takes effect where it resumes.                            *)
CreateRoom(s, mode, size, cap, passcode) ==
    /\ s \notin drawnSlugs
    /\ (mode = "passcode") <=> (passcode # NoPasscode)
    /\ drawnSlugs' = drawnSlugs \cup {s}
    /\ live' = live \cup {s}
    /\ rooms' = [rooms EXCEPT ![s] =
                    [status |-> "created", accessMode |-> mode,
                     maxParticipants |-> size, qualityCap |-> cap,
                     passcodeHash |-> passcode,
                     lastActivityAt |-> now, expiresAt |-> now + ROOM_TTL]]
    /\ UNCHANGED <<clockVars, sessionVars, lobbyVars, inflight>>

(* POST /api/rooms/:slug/join, for each access mode.                       *)
JoinDirect(s) ==
    /\ s \in live
    /\ ~Expired(s)
    /\ rooms[s].accessMode = "open"
    /\ CreateSession(s)
    /\ MarkActive(s)
    /\ UNCHANGED <<clockVars, drawnSlugs, live, lobbyVars, inflight>>

JoinLobby(s) ==
    /\ s \in live
    /\ ~Expired(s)
    /\ ~Full(s)
    /\ rooms[s].accessMode = "lobby"
    /\ CreateLobbyRequest(s)
    /\ UNCHANGED <<clockVars, roomVars, sessionVars, inflight>>

\* Up to the await: the room was checked, its hash captured.
JoinPasscodeStart(c, s, guess) ==
    /\ inflight[c] = Idle
    /\ s \in live
    /\ ~Expired(s)
    /\ ~Full(s)
    /\ rooms[s].accessMode = "passcode"
    /\ inflight' = [inflight EXCEPT ![c] =
                       [kind |-> "verify", slug |-> s,
                        hash |-> rooms[s].passcodeHash, guess |-> guess]]
    /\ UNCHANGED <<clockVars, roomVars, sessionVars, lobbyVars>>

Verified(c) ==
    /\ inflight[c].kind = "verify"
    /\ inflight[c].hash = inflight[c].guess

Release(c) == inflight' = [inflight EXCEPT ![c] = Idle]

\* The verifier answered: the guess was wrong.
JoinPasscodeRejected(c) ==
    /\ inflight[c].kind = "verify"
    /\ ~Verified(c)
    /\ Release(c)
    /\ UNCHANGED <<clockVars, roomVars, sessionVars, lobbyVars>>

JoinPasscodeAdmitted_StaleMode(c) ==
    /\ Verified(c)
    /\ CreateSession(inflight[c].slug)
    /\ MarkActive(inflight[c].slug)
    /\ Release(c)
    /\ UNCHANGED <<clockVars, drawnSlugs, live, lobbyVars>>

\* The guess was right and the room, no longer checked for expiry, has a seat.
JoinPasscodeAdmitted(c) ==
    /\ Verified(c)
    /\ LET s == inflight[c].slug IN
        /\ rooms[s].accessMode # "lobby"
        /\ CreateSession(s)
        /\ MarkActive(s)
    /\ Release(c)
    /\ UNCHANGED <<clockVars, drawnSlugs, live, lobbyVars>>

\* The guess was right but the host meanwhile turned the lobby on.
JoinPasscodeQueued(c) ==
    /\ Verified(c)
    /\ rooms[inflight[c].slug].accessMode = "lobby"
    /\ CreateLobbyRequest(inflight[c].slug)
    /\ Release(c)
    /\ UNCHANGED <<clockVars, roomVars, sessionVars>>

\* The guess was right but the room is gone, or filled up during the await.
JoinPasscodeTurnedAway(c) ==
    /\ Verified(c)
    /\ LET s == inflight[c].slug IN
        \/ s \notin live
        \/ s \in live /\ rooms[s].accessMode = "lobby" /\ LobbyFull(s)
        \/ s \in live /\ rooms[s].accessMode # "lobby" /\ Full(s)
    /\ Release(c)
    /\ UNCHANGED <<clockVars, roomVars, sessionVars, lobbyVars>>

-----------------------------------------------------------------------------
(* The lobby routes.                                                       *)

\* GET /lobby/:requestId writes only when the room has expired.
PollExpired(s, q) ==
    /\ s \in live
    /\ q \in lobbyRequests[s]
    /\ Expired(s)
    /\ request' = [request EXCEPT ![q] = DenyLobbyRequest(request[q], "room_expired")]
    /\ UNCHANGED <<clockVars, roomVars, sessionVars, lobbyRequests, nextRequest, inflight>>

Approvable_Decided(s, q) == q \in lobbyRequests[s] /\ ~Expired(s)

Approvable(s, q) == q \in Waiting(s) /\ ~Expired(s)

Approve(s, q) ==
    /\ s \in live
    /\ Approvable(s, q)
    /\ CreateSession(s)
    /\ MarkActive(s)
    /\ request' = [request EXCEPT ![q].status = "approved", ![q].sessionId = nextSession]
    /\ UNCHANGED <<clockVars, drawnSlugs, live, lobbyRequests, nextRequest, inflight>>

Deny(s, q) ==
    /\ s \in live
    /\ q \in lobbyRequests[s]
    /\ request' = [request EXCEPT ![q] = DenyLobbyRequest(request[q], "host_denied")]
    /\ UNCHANGED <<clockVars, roomVars, sessionVars, lobbyRequests, nextRequest, inflight>>

-----------------------------------------------------------------------------
(* POST /api/rooms/:slug/settings.  None of its branches asks whether the  *)
(* room has expired.                                                       *)
SetQualityCap(s, cap) ==
    /\ s \in live
    /\ rooms' = [rooms EXCEPT ![s] =
                    RecordRoomActivity(s, [rooms[s] EXCEPT !.qualityCap = cap])]
    /\ UNCHANGED <<clockVars, drawnSlugs, live, sessionVars, lobbyVars, inflight>>

ClearPasscode(s, mode) ==
    /\ s \in live
    /\ rooms' = [rooms EXCEPT ![s] = RecordRoomActivity(s,
                    [rooms[s] EXCEPT !.accessMode = mode, !.passcodeHash = NoPasscode])]
    /\ UNCHANGED <<clockVars, drawnSlugs, live, sessionVars, lobbyVars, inflight>>

HashStart_EagerMode(c, kind, s, passcode) ==
    /\ inflight[c] = Idle
    /\ s \in live
    /\ kind = "rotate" => rooms[s].accessMode = "passcode"
    /\ rooms' = [rooms EXCEPT ![s].accessMode = "passcode"]
    /\ inflight' = [inflight EXCEPT ![c] =
                       [kind |-> kind, slug |-> s, passcode |-> passcode]]
    /\ UNCHANGED <<clockVars, drawnSlugs, live, sessionVars, lobbyVars>>

\* Up to the await: only a rotation looks at the access mode.
HashStart(c, kind, s, passcode) ==
    /\ inflight[c] = Idle
    /\ s \in live
    /\ kind = "rotate" => rooms[s].accessMode = "passcode"
    /\ inflight' = [inflight EXCEPT ![c] =
                       [kind |-> kind, slug |-> s, passcode |-> passcode]]
    /\ UNCHANGED <<clockVars, roomVars, sessionVars, lobbyVars>>

\* The hash is there: it is stored whatever the access mode is by now.
HashFinish(c) ==
    /\ inflight[c].kind \in {"rotate", "set-passcode"}
    /\ LET s == inflight[c].slug
           mode == IF inflight[c].kind = "set-passcode" THEN "passcode"
                   ELSE rooms[s].accessMode
       IN \/ /\ s \in live
             /\ rooms' = [rooms EXCEPT ![s] = RecordRoomActivity(s,
                             [rooms[s] EXCEPT !.accessMode = mode,
                                              !.passcodeHash = inflight[c].passcode])]
          \/ s \notin live /\ UNCHANGED rooms
    /\ Release(c)
    /\ UNCHANGED <<clockVars, drawnSlugs, live, sessionVars, lobbyVars>>

-----------------------------------------------------------------------------
(* Staying alive, being removed.                                           *)

TouchSession(s, i) ==
    /\ s \in live
    /\ i \in sessions[s]
    /\ lastSeenAt' = [lastSeenAt EXCEPT ![i] = now]
    /\ UNCHANGED <<clockVars, roomVars, sessions, nextSession, lobbyVars, inflight>>

\* POST /api/rooms/:slug/token
Token(s, i) == ~Expired(s) /\ TouchSession(s, i)

\* A room.ping frame; the room may have expired.
Ping(s, i) == TouchSession(s, i)

\* POST .../participants/:sessionId/remove, which nothing registers in buildApp.
RemoveParticipant(s, i) ==
    /\ RemovalRegistered
    /\ s \in live
    /\ i \in sessions[s]
    /\ Cardinality(sessions[s]) > 1
    /\ sessions' = [sessions EXCEPT ![s] = @ \ {i}]
    /\ rooms' = [rooms EXCEPT ![s].lastActivityAt = now]
    /\ UNCHANGED <<clockVars, drawnSlugs, live, lastSeenAt, nextSession, lobbyVars, inflight>>

-----------------------------------------------------------------------------
(* Time.  The tick runs every CLEANUP_INTERVAL; the clock does not pass    *)
(* the instant at which it is due (setInterval is taken to be punctual).   *)

ReapSession(s, i) == i \in sessions[s] /\ lastSeenAt[i] + RECONNECT_WINDOW <= now

LobbyTimedOut_AnyStatus(s, q) ==
    q \in lobbyRequests[s] /\ request[q].createdAt + LOBBY_REQUEST_TTL <= now

LobbyTimedOut(s, q) == q \in Waiting(s) /\ request[q].createdAt + LOBBY_REQUEST_TTL <= now

RunCleanupTick ==
    LET kept == {s \in live : ~Expired(s)} IN
    /\ now = lastSweep + CLEANUP_INTERVAL
    /\ lastSweep' = now
    /\ live' = kept
    /\ sessions' = [s \in Slugs |->
                       IF s \in kept THEN {i \in sessions[s] : ~ReapSession(s, i)} ELSE {}]
    /\ lobbyRequests' = [s \in Slugs |-> IF s \in kept THEN lobbyRequests[s] ELSE {}]
    /\ request' = [q \in RequestIds |->
                      IF \E s \in kept : LobbyTimedOut(s, q)
                      THEN DenyLobbyRequest(request[q], "lobby_timeout")
                      ELSE request[q]]
    /\ UNCHANGED <<now, drawnSlugs, rooms, lastSeenAt, nextSession, nextRequest, inflight>>

Advance ==
    /\ now < lastSweep + CLEANUP_INTERVAL
    /\ now' = now + 1
    /\ UNCHANGED <<lastSweep, roomVars, sessionVars, lobbyVars, inflight>>

-----------------------------------------------------------------------------
Next ==
    \/ \E s \in Slugs, mode \in AccessMode, size \in RoomSizes,
          cap \in QualityCaps, passcode \in Hashes :
            CreateRoom(s, mode, size, cap, passcode)
    \/ \E s \in Slugs : JoinDirect(s) \/ JoinLobby(s)
    \/ \E c \in Clients, s \in Slugs, guess \in Passcodes : JoinPasscodeStart(c, s, guess)
    \/ \E c \in Clients :
            \/ JoinPasscodeRejected(c)
            \/ JoinPasscodeAdmitted(c)
            \/ JoinPasscodeQueued(c)
            \/ JoinPasscodeTurnedAway(c)
    \/ \E s \in Slugs, q \in RequestIds : PollExpired(s, q) \/ Approve(s, q) \/ Deny(s, q)
    \/ \E s \in Slugs, cap \in QualityCaps : SetQualityCap(s, cap)
    \/ \E s \in Slugs, mode \in {"open", "lobby"} : ClearPasscode(s, mode)
    \/ \E c \in Clients, kind \in {"rotate", "set-passcode"}, s \in Slugs,
          passcode \in Passcodes : HashStart(c, kind, s, passcode)
    \/ \E c \in Clients : HashFinish(c)
    \/ \E s \in Slugs, i \in SessionIds :
            Token(s, i) \/ Ping(s, i) \/ RemoveParticipant(s, i)
    \/ RunCleanupTick
    \/ Advance

Spec == Init /\ [][Next]_vars

-----------------------------------------------------------------------------
(* Safety invariants.                                                      *)

\* No room ever seats more participants than it was created for, whatever was
\* awaited between the check of the join route and createSession.
SeatLimit == \A s \in live : Cardinality(sessions[s]) <= rooms[s].maxParticipants

\* A room in passcode mode always has a hash to verify against, however the
\* updates of its settings overlap: it never locks everybody out.
PasscodeRoomHasHash ==
    \A s \in live : rooms[s].accessMode = "passcode" => rooms[s].passcodeHash # NoPasscode

\* A lobby request reported as timed out never holds a seat: the tick that
\* times requests out does not race with the host approving them.
TimedOutHoldsNoSeat ==
    \A s \in live : \A q \in lobbyRequests[s] :
        request[q].reason = "lobby_timeout" => request[q].sessionId = 0

\* An expired room is gone one cleanup interval after its expiry at the latest,
\* although handlers that started before may still write to it.
ExpiredRoomsGo == \A s \in live : now < rooms[s].expiresAt + CLEANUP_INTERVAL

\* A session nobody heard of for the reconnect window gives up its seat within
\* one cleanup interval more.
SilentSessionsGo ==
    \A s \in live : \A i \in sessions[s] :
        now < lastSeenAt[i] + RECONNECT_WINDOW + CLEANUP_INTERVAL

\* A guest waits in the lobby no longer than the request TTL and one interval.
StaleRequestsGo ==
    \A s \in live : \A q \in Waiting(s) :
        now < request[q].createdAt + LOBBY_REQUEST_TTL + CLEANUP_INTERVAL

\* All three: whatever handlers do between two ticks, nothing outstays its time by a
\* cleanup interval.
DeadlinesKept == ExpiredRoomsGo /\ SilentSessionsGo /\ StaleRequestsGo

-----------------------------------------------------------------------------
(* What makes those invariants inductive.                                  *)

\* A slug that is no room has neither sessions nor requests, so a new room starts
\* with none.
VacantOutsideStore ==
    \A s \in Slugs \ live : sessions[s] = {} /\ lobbyRequests[s] = {}

\* The counters are ahead of every id in use.
IdsAreFresh ==
    /\ \A s \in Slugs : \A i \in sessions[s] : i < nextSession
    /\ \A s \in Slugs : \A q \in lobbyRequests[s] : q < nextRequest
    /\ \A q \in RequestIds : q >= nextRequest => request[q].sessionId = 0

\* An undecided request has neither a reason nor a seat, and timing out gives none.
RequestsAreConsistent ==
    \A q \in RequestIds :
        /\ request[q].status = "waiting" => request[q].reason = "none" /\ request[q].sessionId = 0
        /\ request[q].reason = "lobby_timeout" => request[q].sessionId = 0

\* The last tick left nothing behind that was due by then, and the next is not late.
SweptUpToDate ==
    /\ lastSweep <= now /\ now <= lastSweep + CLEANUP_INTERVAL
    /\ \A s \in live : lastSweep < rooms[s].expiresAt
    /\ \A s \in live : \A i \in sessions[s] : lastSweep < lastSeenAt[i] + RECONNECT_WINDOW
    /\ \A s \in live : \A q \in Waiting(s) :
          lastSweep < request[q].createdAt + LOBBY_REQUEST_TTL

\* The inductive invariant, checked where all its parts are at work: every seat,
\* request and deadline of the store is accounted for.
StoreInv ==
    /\ VacantOutsideStore
    /\ IdsAreFresh
    /\ RequestsAreConsistent
    /\ SweptUpToDate
    /\ SeatLimit
    /\ PasscodeRoomHasHash

-----------------------------------------------------------------------------
(* Action properties.                                                      *)

\* While the lobby is on, the only new seats are those of approved requests;
\* a join that was verifying a passcode when the lobby came on is queued.
LobbyGate ==
    [][\A s \in live : \A i \in sessions'[s] \ sessions[s] :
         rooms[s].accessMode = "lobby" =>
            \E q \in Waiting(s) : request'[q].sessionId = i]_vars

\* The seat of an approved request is settled once: no later approval, denial,
\* poll or tick gives the request another one.
OneSeatPerRequest ==
    [][\A q \in RequestIds : request[q].sessionId # 0 =>
         request'[q].sessionId = request[q].sessionId]_vars

\* The reason a guest was first denied for is the one every later poll reports.
FirstReasonStands ==
    [][\A q \in RequestIds : q < nextRequest /\ request[q].reason # "none" =>
         request'[q].reason = request[q].reason]_vars

\* A room is deleted only when nothing was recorded in it for the whole TTL.
RoomsOutliveActivity ==
    [][\A s \in live \ live' : rooms[s].lastActivityAt + ROOM_TTL <= now]_vars

-----------------------------------------------------------------------------
(* The room store keeps the promise of Seating.                            *)
Seats == INSTANCE Seating WITH
    open <- live,
    drawn <- drawnSlugs,
    capacity <- [s \in Slugs |-> rooms[s].maxParticipants],
    seats <- sessions,
    issued <- 1..(nextSession - 1)

\* Whatever the handlers, awaits and ticks do, the rooms are opened once, hold at
\* most their capacity, and no session id is ever seated a second time.
ImplementsSeating == Seats!Spec
=============================================================================
