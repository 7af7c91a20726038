------------------------- MODULE RoomServerProofs -------------------------
(***************************************************************************)
(* Theorems about RoomServer for every value of its constants.             *)
(***************************************************************************)
EXTENDS RoomServer, FiniteSetTheorems, TLAPS

-----------------------------------------------------------------------------
(* Lemmas about the operators of the model.                                *)

\* Recording activity gives a stored room again and changes nothing but the
\* two timestamps of the room; an expired room keeps those too.
LEMMA RecordRoomActivityFacts ==
    ASSUME TypeOK, NEW s \in Slugs, NEW room \in StoredRoom
    PROVE  /\ RecordRoomActivity(s, room) \in StoredRoom
           /\ RecordRoomActivity(s, room).status = room.status
           /\ RecordRoomActivity(s, room).accessMode = room.accessMode
           /\ RecordRoomActivity(s, room).maxParticipants = room.maxParticipants
           /\ RecordRoomActivity(s, room).passcodeHash = room.passcodeHash
           /\ \/ RecordRoomActivity(s, room) = room
              \/ RecordRoomActivity(s, room).expiresAt = now + ROOM_TTL
<1>1. now \in Nat /\ now + ROOM_TTL \in Nat
  BY TimesAssumption DEF TypeOK
<1>2. CASE Expired(s)
  BY <1>2 DEF RecordRoomActivity
<1>3. CASE ~Expired(s)
  BY <1>1, <1>3 DEF RecordRoomActivity, StoredRoom
<1>. QED  BY <1>2, <1>3

\* Denying a request gives a stored request again, which keeps its seat and its
\* age; it is not waiting afterwards.
LEMMA DenyLobbyRequestFacts ==
    ASSUME NEW r \in StoredLobbyRequest,
           NEW reason \in {"host_denied", "room_expired", "lobby_timeout"}
    PROVE  /\ DenyLobbyRequest(r, reason) \in StoredLobbyRequest
           /\ DenyLobbyRequest(r, reason).sessionId = r.sessionId
           /\ DenyLobbyRequest(r, reason).createdAt = r.createdAt
           /\ DenyLobbyRequest(r, reason).status # "waiting"
           /\ DenyLobbyRequest(r, reason).reason \in {r.reason, reason}
           /\ r.reason # "none" /\ r.status # "waiting" => DenyLobbyRequest(r, reason) = r
BY DEF DenyLobbyRequest, StoredLobbyRequest

\* Setting the access mode and the hash of a stored room gives a stored room.
LEMMA AccessUpdateType ==
    ASSUME NEW room \in StoredRoom, NEW mode \in AccessMode, NEW hash \in Hashes
    PROVE  [room EXCEPT !.accessMode = mode, !.passcodeHash = hash] \in StoredRoom
BY DEF StoredRoom

\* Seat counts are numbers.
LEMMA SeatCount ==
    ASSUME TypeOK, NEW s \in Slugs
    PROVE  IsFiniteSet(sessions[s]) /\ Cardinality(sessions[s]) \in Nat
<1>1. IsFiniteSet(SessionIds)
  BY BoundsAssumption, FS_Interval DEF SessionIds
<1>2. sessions[s] \in SUBSET SessionIds
  BY DEF TypeOK
<1>. QED  BY <1>1, <1>2, FS_Subset, FS_CardinalityType

-----------------------------------------------------------------------------
(* Type correctness.                                                       *)

\* The empty store is well typed.
LEMMA InitTypeOK == Init => TypeOK
<1>1. NoRoom \in StoredRoom
  BY SizesAssumption, CapsAssumption DEF NoRoom, StoredRoom, AccessMode, Hashes
<1>2. [status |-> "denied", createdAt |-> 0, sessionId |-> 0, reason |-> "none"]
        \in StoredLobbyRequest
  BY DEF StoredLobbyRequest
<1>3. Idle \in Task
  BY DEF Idle, Task
<1>4. 1 \in 1..(MaxSessions + 1) /\ 1 \in 1..(MaxRequests + 1)
  BY BoundsAssumption
<1>. QED  BY <1>1, <1>2, <1>3, <1>4 DEF Init, TypeOK

\* createSession keeps the types of the session table.
LEMMA CreateSessionType ==
    ASSUME TypeOK, NEW s \in Slugs, CreateSession(s)
    PROVE  /\ sessions' \in [Slugs -> SUBSET SessionIds]
           /\ lastSeenAt' \in [SessionIds -> Nat]
           /\ nextSession \in SessionIds
           /\ nextSession' \in 1..(MaxSessions + 1)
<1>1. nextSession \in SessionIds /\ nextSession + 1 \in 1..(MaxSessions + 1)
  BY BoundsAssumption DEF TypeOK, CreateSession, SessionIds
<1>. QED  BY <1>1 DEF TypeOK, CreateSession

\* createLobbyRequest keeps the types of the lobby.
LEMMA CreateLobbyRequestType ==
    ASSUME TypeOK, NEW s \in Slugs, CreateLobbyRequest(s)
    PROVE  /\ lobbyRequests' \in [Slugs -> SUBSET RequestIds]
           /\ request' \in [RequestIds -> StoredLobbyRequest]
           /\ nextRequest' \in 1..(MaxRequests + 1)
<1>1. nextRequest \in RequestIds /\ nextRequest + 1 \in 1..(MaxRequests + 1)
  BY BoundsAssumption DEF TypeOK, CreateLobbyRequest, RequestIds
<1>2. [status |-> "waiting", createdAt |-> now, sessionId |-> 0, reason |-> "none"]
        \in StoredLobbyRequest
  BY DEF TypeOK, StoredLobbyRequest
<1>. QED  BY <1>1, <1>2 DEF TypeOK, CreateLobbyRequest

\* Whatever fields of a stored room a handler sets before recording activity,
\* the rooms map stays well typed.
LEMMA MarkActiveType ==
    ASSUME TypeOK, NEW s \in Slugs, MarkActive(s)
    PROVE  rooms' \in [Slugs -> StoredRoom]
<1>1. [rooms[s] EXCEPT !.status = "active"] \in StoredRoom
  BY DEF TypeOK, StoredRoom
<1>. QED  BY <1>1, RecordRoomActivityFacts DEF TypeOK, MarkActive

\* A client whose handler is over has no suspended task.
LEMMA ReleaseType ==
    ASSUME TypeOK, NEW c \in Clients, Release(c)
    PROVE  inflight' \in [Clients -> Task]
BY DEF TypeOK, Release, Idle, Task

\* Every step keeps the types.
LEMMA NextTypeOK == TypeOK /\ [Next]_vars => TypeOK'
<1>. SUFFICES ASSUME TypeOK, [Next]_vars PROVE TypeOK'
  OBVIOUS
<1>. USE DEF clockVars, roomVars, sessionVars, lobbyVars
<1>1. ASSUME NEW s \in Slugs, NEW mode \in AccessMode, NEW size \in RoomSizes,
             NEW cap \in QualityCaps, NEW passcode \in Hashes,
             CreateRoom(s, mode, size, cap, passcode)
      PROVE  TypeOK'
  <2>1. [status |-> "created", accessMode |-> mode, maxParticipants |-> size,
         qualityCap |-> cap, passcodeHash |-> passcode,
         lastActivityAt |-> now, expiresAt |-> now + ROOM_TTL] \in StoredRoom
    BY TimesAssumption DEF TypeOK, StoredRoom
  <2>. QED  BY <1>1, <2>1 DEF TypeOK, CreateRoom
<1>2. ASSUME NEW s \in Slugs, JoinDirect(s)
      PROVE  TypeOK'
  BY <1>2, CreateSessionType, MarkActiveType DEF TypeOK, JoinDirect
<1>3. ASSUME NEW s \in Slugs, JoinLobby(s)
      PROVE  TypeOK'
  BY <1>3, CreateLobbyRequestType DEF TypeOK, JoinLobby
<1>4. ASSUME NEW c \in Clients, NEW s \in Slugs, NEW guess \in Passcodes,
             JoinPasscodeStart(c, s, guess)
      PROVE  TypeOK'
  <2>1. rooms[s].passcodeHash \in Hashes
    BY DEF TypeOK, StoredRoom
  <2>2. [kind |-> "verify", slug |-> s, hash |-> rooms[s].passcodeHash, guess |-> guess]
          \in Task
    BY <2>1 DEF Task
  <2>. QED  BY <1>4, <2>2 DEF TypeOK, JoinPasscodeStart
<1>5. ASSUME NEW c \in Clients, JoinPasscodeRejected(c)
      PROVE  TypeOK'
  BY <1>5, ReleaseType DEF TypeOK, JoinPasscodeRejected
<1>6. ASSUME NEW c \in Clients, JoinPasscodeAdmitted(c)
      PROVE  TypeOK'
  <2>1. inflight[c].slug \in Slugs
    BY <1>6 DEF TypeOK, JoinPasscodeAdmitted, Verified, Task
  <2>. QED  BY <1>6, <2>1, ReleaseType, CreateSessionType, MarkActiveType
            DEF TypeOK, JoinPasscodeAdmitted
<1>7. ASSUME NEW c \in Clients, JoinPasscodeQueued(c)
      PROVE  TypeOK'
  <2>1. inflight[c].slug \in Slugs
    BY <1>7 DEF TypeOK, JoinPasscodeQueued, Verified, Task
  <2>. QED  BY <1>7, <2>1, ReleaseType, CreateLobbyRequestType
            DEF TypeOK, JoinPasscodeQueued
<1>8. ASSUME NEW c \in Clients, JoinPasscodeTurnedAway(c)
      PROVE  TypeOK'
  BY <1>8, ReleaseType DEF TypeOK, JoinPasscodeTurnedAway
<1>9. ASSUME NEW s \in Slugs, NEW q \in RequestIds, PollExpired(s, q)
      PROVE  TypeOK'
  BY <1>9, DenyLobbyRequestFacts DEF TypeOK, PollExpired
<1>10. ASSUME NEW s \in Slugs, NEW q \in RequestIds, Approve(s, q)
       PROVE  TypeOK'
  <2>1. [request[q] EXCEPT !.status = "approved", !.sessionId = nextSession]
          \in StoredLobbyRequest
    BY <1>10, CreateSessionType DEF TypeOK, Approve, StoredLobbyRequest
  <2>. QED  BY <1>10, <2>1, CreateSessionType, MarkActiveType DEF TypeOK, Approve
<1>11. ASSUME NEW s \in Slugs, NEW q \in RequestIds, Deny(s, q)
       PROVE  TypeOK'
  BY <1>11, DenyLobbyRequestFacts DEF TypeOK, Deny
<1>12. ASSUME NEW s \in Slugs, NEW cap \in QualityCaps, SetQualityCap(s, cap)
       PROVE  TypeOK'
  <2>1. [rooms[s] EXCEPT !.qualityCap = cap] \in StoredRoom
    BY DEF TypeOK, StoredRoom
  <2>. QED  BY <1>12, <2>1, RecordRoomActivityFacts DEF TypeOK, SetQualityCap
<1>13. ASSUME NEW s \in Slugs, NEW mode \in {"open", "lobby"}, ClearPasscode(s, mode)
       PROVE  TypeOK'
  <2>1. [rooms[s] EXCEPT !.accessMode = mode, !.passcodeHash = NoPasscode] \in StoredRoom
    BY AccessUpdateType DEF TypeOK, AccessMode, Hashes
  <2>. QED  BY <1>13, <2>1, RecordRoomActivityFacts DEF TypeOK, ClearPasscode
<1>14. ASSUME NEW c \in Clients, NEW kind \in {"rotate", "set-passcode"}, NEW s \in Slugs,
              NEW passcode \in Passcodes, HashStart(c, kind, s, passcode)
       PROVE  TypeOK'
  <2>1. [kind |-> kind, slug |-> s, passcode |-> passcode] \in Task
    BY DEF Task
  <2>. QED  BY <1>14, <2>1 DEF TypeOK, HashStart
<1>15. ASSUME NEW c \in Clients, HashFinish(c)
       PROVE  TypeOK'
  <2>. DEFINE s == inflight[c].slug
              mode == IF inflight[c].kind = "set-passcode" THEN "passcode"
                      ELSE rooms[s].accessMode
  <2>1. s \in Slugs /\ inflight[c].passcode \in Passcodes
    BY <1>15 DEF TypeOK, HashFinish, Task
  <2>2. mode \in AccessMode /\ rooms[s] \in StoredRoom
    BY <2>1 DEF TypeOK, StoredRoom, AccessMode
  <2>3. [rooms[s] EXCEPT !.accessMode = mode, !.passcodeHash = inflight[c].passcode]
          \in StoredRoom
    BY <2>1, <2>2, AccessUpdateType DEF Hashes
  <2>4. rooms' \in [Slugs -> StoredRoom]
    BY <1>15, <2>1, <2>3, RecordRoomActivityFacts DEF TypeOK, HashFinish
  <2>. QED  BY <1>15, <2>4, ReleaseType DEF TypeOK, HashFinish
<1>16. ASSUME NEW s \in Slugs, NEW i \in SessionIds, Token(s, i) \/ Ping(s, i)
       PROVE  TypeOK'
  BY <1>16 DEF TypeOK, Token, Ping, TouchSession
<1>17. ASSUME NEW s \in Slugs, NEW i \in SessionIds, RemoveParticipant(s, i)
       PROVE  TypeOK'
  <2>1. [rooms[s] EXCEPT !.lastActivityAt = now] \in StoredRoom
    BY DEF TypeOK, StoredRoom
  <2>. QED  BY <1>17, <2>1 DEF TypeOK, RemoveParticipant
<1>18. ASSUME RunCleanupTick
       PROVE  TypeOK'
  BY <1>18, DenyLobbyRequestFacts DEF TypeOK, RunCleanupTick
<1>19. ASSUME Advance
       PROVE  TypeOK'
  BY <1>19 DEF TypeOK, Advance
<1>20. CASE UNCHANGED vars
  BY <1>20 DEF TypeOK, vars
<1>. QED
  BY <1>1, <1>2, <1>3, <1>4, <1>5, <1>6, <1>7, <1>8, <1>9, <1>10, <1>11, <1>12, <1>13,
     <1>14, <1>15, <1>16, <1>17, <1>18, <1>19, <1>20 DEF Next

\* Every value a handler leaves in the store, in a suspended task or in a counter
\* has its type.
THEOREM TypeCorrect == Spec => []TypeOK
BY InitTypeOK, NextTypeOK, PTL DEF Spec

-----------------------------------------------------------------------------
(* The inductive invariant.  Four lemmas say what the recurring pieces of  *)
(* the handlers do to it; then each action is taken in turn.               *)

\* The empty store accounts for everything it holds.
LEMMA InitStoreInv == Init => StoreInv
<1>. SUFFICES ASSUME Init PROVE StoreInv
  OBVIOUS
<1>1. VacantOutsideStore /\ IdsAreFresh /\ RequestsAreConsistent
  BY DEF Init, VacantOutsideStore, IdsAreFresh, RequestsAreConsistent
<1>2. SweptUpToDate /\ SeatLimit /\ PasscodeRoomHasHash
  BY TimesAssumption DEF Init, SweptUpToDate, SeatLimit, PasscodeRoomHasHash
<1>. QED  BY <1>1, <1>2 DEF StoreInv

\* A step that touches neither the clock, the rooms, the sessions nor the lobby
\* keeps the invariant.
LEMMA FrameStoreInv ==
    ASSUME StoreInv, UNCHANGED <<clockVars, roomVars, sessionVars, lobbyVars>>
    PROVE  StoreInv'
BY DEF StoreInv, VacantOutsideStore, IdsAreFresh, RequestsAreConsistent, SweptUpToDate,
       SeatLimit, PasscodeRoomHasHash, Waiting, clockVars, roomVars, sessionVars, lobbyVars

\* Replacing a stored room, its size kept, by one that has a hash if it needs one
\* and whose expiry the last tick could not have met.
LEMMA RoomUpdateStoreInv ==
    ASSUME TypeOK, StoreInv, NEW s \in Slugs, NEW room \in StoredRoom,
           rooms' = [rooms EXCEPT ![s] = room],
           room.maxParticipants = rooms[s].maxParticipants,
           s \in live => lastSweep < room.expiresAt,
           room.accessMode = "passcode" => room.passcodeHash # NoPasscode,
           UNCHANGED <<clockVars, live, sessionVars, lobbyVars>>
    PROVE  StoreInv'
<1>. USE DEF clockVars, sessionVars, lobbyVars, TypeOK, StoreInv
<1>1. VacantOutsideStore' /\ IdsAreFresh' /\ RequestsAreConsistent'
  BY DEF VacantOutsideStore, IdsAreFresh, RequestsAreConsistent
<1>2. SeatLimit' /\ PasscodeRoomHasHash'
  BY DEF SeatLimit, PasscodeRoomHasHash
<1>3. SweptUpToDate'
  BY DEF SweptUpToDate, Waiting
<1>. QED  BY <1>1, <1>2, <1>3

\* Activity recorded in a room leaves its expiry ahead of the last tick.
LEMMA ActivityIsAhead ==
    ASSUME TypeOK, StoreInv, NEW s \in live, NEW room \in StoredRoom,
           room.expiresAt = rooms[s].expiresAt
    PROVE  lastSweep < RecordRoomActivity(s, room).expiresAt
<1>1. lastSweep < rooms[s].expiresAt /\ lastSweep <= now
  BY DEF StoreInv, SweptUpToDate
<1>2. lastSweep < now + ROOM_TTL
  BY <1>1, TimesAssumption DEF TypeOK
<1>. QED  BY <1>1, <1>2, RecordRoomActivityFacts DEF TypeOK

\* An admission: the seat was free, its id new, and the room becomes active.  The
\* conclusion leaves out the lobby, which only an approval changes.
LEMMA AdmissionFacts ==
    ASSUME TypeOK, StoreInv, NEW s \in Slugs, CreateSession(s), MarkActive(s),
           UNCHANGED <<clockVars, live>>
    PROVE  /\ SeatLimit' /\ PasscodeRoomHasHash'
           /\ \A t \in Slugs \ live' : sessions'[t] = {}
           /\ \A t \in Slugs : \A i \in sessions'[t] : i < nextSession'
           /\ \A t \in live' : lastSweep' < rooms'[t].expiresAt
           /\ \A t \in live' : \A i \in sessions'[t] :
                 lastSweep' < lastSeenAt'[i] + RECONNECT_WINDOW
<1>. DEFINE room == [rooms[s] EXCEPT !.status = "active"]
<1>0. s \in live /\ nextSession \in SessionIds /\ nextSession \in Nat
  <2>1. nextSession \in SessionIds
    BY CreateSessionType
  <2>. QED  BY <2>1, BoundsAssumption DEF CreateSession, SessionIds
<1>1. /\ room \in StoredRoom /\ room.maxParticipants = rooms[s].maxParticipants
      /\ room.accessMode = rooms[s].accessMode /\ room.passcodeHash = rooms[s].passcodeHash
      /\ room.expiresAt = rooms[s].expiresAt
  BY DEF TypeOK, StoredRoom
<1>2. /\ rooms' = [rooms EXCEPT ![s] = RecordRoomActivity(s, room)]
      /\ RecordRoomActivity(s, room).maxParticipants = rooms[s].maxParticipants
      /\ RecordRoomActivity(s, room).accessMode = rooms[s].accessMode
      /\ RecordRoomActivity(s, room).passcodeHash = rooms[s].passcodeHash
      /\ lastSweep < RecordRoomActivity(s, room).expiresAt
  <2>. HIDE DEF room
  <2>1. rooms' = [rooms EXCEPT ![s] = RecordRoomActivity(s, room)]
    BY DEF MarkActive, room
  <2>. QED  BY <1>0, <1>1, <2>1, RecordRoomActivityFacts, ActivityIsAhead
<1>. HIDE DEF room
<1>3. SeatLimit'
  <2>1. Cardinality(sessions[s] \cup {nextSession}) <= Cardinality(sessions[s]) + 1
    BY SeatCount, FS_AddElement
  <2>2. rooms[s].maxParticipants \in Nat
    BY SizesAssumption DEF TypeOK, StoredRoom
  <2>3. Cardinality(sessions[s]) + 1 <= rooms[s].maxParticipants
    BY <2>2, SeatCount DEF CreateSession, Full
  <2>4. Cardinality(sessions[s] \cup {nextSession}) \in Nat
    BY SeatCount, FS_AddElement, FS_CardinalityType
  <2>5. Cardinality(sessions'[s]) <= rooms'[s].maxParticipants
    BY <1>2, <2>1, <2>2, <2>3, <2>4, SeatCount DEF CreateSession, TypeOK
  <2>6. ASSUME NEW t \in live, t # s
        PROVE  sessions'[t] = sessions[t] /\ rooms'[t] = rooms[t]
    BY <1>2, <2>6 DEF CreateSession, TypeOK
  <2>. QED  BY <2>5, <2>6 DEF SeatLimit, StoreInv
<1>4. PasscodeRoomHasHash'
  BY <1>2 DEF PasscodeRoomHasHash, StoreInv, TypeOK
<1>5. \A t \in Slugs \ live' : sessions'[t] = {}
  BY <1>0 DEF CreateSession, StoreInv, VacantOutsideStore, TypeOK
<1>6. \A t \in Slugs : \A i \in sessions'[t] : i < nextSession'
  BY <1>0 DEF CreateSession, StoreInv, IdsAreFresh, TypeOK, SessionIds
<1>7. \A t \in live' : lastSweep' < rooms'[t].expiresAt
  BY <1>2 DEF StoreInv, SweptUpToDate, TypeOK, clockVars
<1>8. \A t \in live' : \A i \in sessions'[t] :
         lastSweep' < lastSeenAt'[i] + RECONNECT_WINDOW
  <2>1. lastSweep < now + RECONNECT_WINDOW
    BY TimesAssumption DEF StoreInv, SweptUpToDate, TypeOK
  <2>. QED  BY <1>0, <2>1 DEF CreateSession, StoreInv, SweptUpToDate, TypeOK, clockVars
<1>. QED  BY <1>3, <1>4, <1>5, <1>6, <1>7, <1>8

\* A new lobby request: fresh, undecided, and as old as now.
LEMMA LobbyRequestStoreInv ==
    ASSUME TypeOK, StoreInv, NEW s \in Slugs, CreateLobbyRequest(s),
           UNCHANGED <<clockVars, roomVars, sessionVars>>
    PROVE  StoreInv'
<1>. USE DEF clockVars, roomVars, sessionVars, StoreInv
<1>1. s \in live /\ nextRequest \in RequestIds /\ nextRequest \in Nat
  BY BoundsAssumption DEF CreateLobbyRequest, RequestIds, TypeOK
<1>2. SeatLimit' /\ PasscodeRoomHasHash'
  BY DEF SeatLimit, PasscodeRoomHasHash
<1>3. VacantOutsideStore'
  BY <1>1 DEF VacantOutsideStore, CreateLobbyRequest, TypeOK
<1>4. IdsAreFresh'
  BY <1>1 DEF IdsAreFresh, CreateLobbyRequest, TypeOK, RequestIds
<1>5. RequestsAreConsistent'
  BY <1>1 DEF RequestsAreConsistent, CreateLobbyRequest, TypeOK
<1>6. SweptUpToDate'
  <2>1. lastSweep < now + LOBBY_REQUEST_TTL
    BY TimesAssumption DEF SweptUpToDate, TypeOK
  <2>2. \A t \in live' : \A q \in Waiting(t)' :
           lastSweep' < request'[q].createdAt + LOBBY_REQUEST_TTL
    BY <1>1, <2>1 DEF SweptUpToDate, CreateLobbyRequest, TypeOK, Waiting
  <2>. QED  BY <2>2 DEF SweptUpToDate
<1>. QED  BY <1>2, <1>3, <1>4, <1>5, <1>6

\* An admission that leaves the lobby alone.
LEMMA AdmissionStoreInv ==
    ASSUME TypeOK, StoreInv, NEW s \in Slugs, CreateSession(s), MarkActive(s),
           UNCHANGED <<clockVars, drawnSlugs, live, lobbyVars>>
    PROVE  StoreInv'
<1>. USE DEF clockVars, lobbyVars
<1>1. /\ SeatLimit' /\ PasscodeRoomHasHash'
      /\ \A t \in Slugs \ live' : sessions'[t] = {}
      /\ \A t \in Slugs : \A i \in sessions'[t] : i < nextSession'
      /\ \A t \in live' : lastSweep' < rooms'[t].expiresAt
      /\ \A t \in live' : \A i \in sessions'[t] :
            lastSweep' < lastSeenAt'[i] + RECONNECT_WINDOW
  BY AdmissionFacts
<1>2. VacantOutsideStore' /\ IdsAreFresh' /\ RequestsAreConsistent'
  BY <1>1 DEF StoreInv, VacantOutsideStore, IdsAreFresh, RequestsAreConsistent
<1>3. SweptUpToDate'
  BY <1>1 DEF StoreInv, SweptUpToDate, Waiting
<1>. QED  BY <1>1, <1>2, <1>3 DEF StoreInv

\* Denying one request that exists.
LEMMA DenialStoreInv ==
    ASSUME TypeOK, StoreInv, NEW q \in RequestIds,
           NEW reason \in {"host_denied", "room_expired"},
           request' = [request EXCEPT ![q] = DenyLobbyRequest(request[q], reason)],
           UNCHANGED <<clockVars, roomVars, sessionVars, lobbyRequests, nextRequest>>
    PROVE  StoreInv'
<1>. USE DEF clockVars, roomVars, sessionVars, StoreInv
<1>0. request \in [RequestIds -> StoredLobbyRequest]
  BY DEF TypeOK
<1>1. /\ request'[q].sessionId = request[q].sessionId
      /\ request'[q].status # "waiting"
      /\ request'[q].reason \in {request[q].reason, reason}
      /\ \A r \in RequestIds : r # q => request'[r] = request[r]
  BY <1>0, DenyLobbyRequestFacts
<1>2. VacantOutsideStore' /\ SeatLimit' /\ PasscodeRoomHasHash'
  BY DEF VacantOutsideStore, SeatLimit, PasscodeRoomHasHash
<1>3. IdsAreFresh'
  BY <1>1 DEF IdsAreFresh
<1>4. RequestsAreConsistent'
  BY <1>1 DEF RequestsAreConsistent
<1>5. SweptUpToDate'
  BY <1>1 DEF SweptUpToDate, Waiting, TypeOK
<1>. QED  BY <1>2, <1>3, <1>4, <1>5

\* A new room starts empty, with a hash if it needs one and a whole TTL ahead.
LEMMA CreateRoomStoreInv ==
    ASSUME TypeOK, StoreInv, NEW s \in Slugs, NEW mode \in AccessMode, NEW size \in RoomSizes,
           NEW cap \in QualityCaps, NEW passcode \in Hashes,
           CreateRoom(s, mode, size, cap, passcode)
    PROVE  StoreInv'
<1>. USE DEF clockVars, sessionVars, lobbyVars, StoreInv, CreateRoom
<1>1. s \notin live /\ sessions[s] = {} /\ lobbyRequests[s] = {} /\ size \in Nat
  BY SizesAssumption DEF VacantOutsideStore, TypeOK
<1>2. VacantOutsideStore' /\ IdsAreFresh' /\ RequestsAreConsistent'
  BY DEF VacantOutsideStore, IdsAreFresh, RequestsAreConsistent
<1>3. SeatLimit'
  <2>1. Cardinality(sessions'[s]) <= rooms'[s].maxParticipants
    BY <1>1, FS_EmptySet DEF TypeOK
  <2>2. \A t \in live : sessions'[t] = sessions[t] /\ rooms'[t] = rooms[t]
    BY <1>1 DEF TypeOK
  <2>. QED  BY <2>1, <2>2 DEF SeatLimit
<1>4. PasscodeRoomHasHash'
  BY DEF PasscodeRoomHasHash, TypeOK
<1>5. SweptUpToDate'
  <2>1. lastSweep < now + ROOM_TTL
    BY TimesAssumption DEF SweptUpToDate, TypeOK
  <2>. QED  BY <1>1, <2>1 DEF SweptUpToDate, Waiting, TypeOK
<1>. QED  BY <1>2, <1>3, <1>4, <1>5

\* An approval admits one guest and settles that guest's request.
LEMMA ApproveStoreInv ==
    ASSUME TypeOK, StoreInv, NEW s \in Slugs, NEW q \in RequestIds, Approve(s, q)
    PROVE  StoreInv'
<1>. USE DEF clockVars
<1>0. /\ request \in [RequestIds -> StoredLobbyRequest]
      /\ request' = [request EXCEPT ![q].status = "approved", ![q].sessionId = nextSession]
      /\ lobbyRequests' = lobbyRequests /\ nextRequest' = nextRequest
      /\ q \in lobbyRequests[s] /\ request[q].status = "waiting"
  BY DEF TypeOK, Approve, Approvable, Waiting
<1>1. /\ SeatLimit' /\ PasscodeRoomHasHash'
      /\ \A t \in Slugs \ live' : sessions'[t] = {}
      /\ \A t \in Slugs : \A i \in sessions'[t] : i < nextSession'
      /\ \A t \in live' : lastSweep' < rooms'[t].expiresAt
      /\ \A t \in live' : \A i \in sessions'[t] :
            lastSweep' < lastSeenAt'[i] + RECONNECT_WINDOW
  BY AdmissionFacts DEF Approve
<1>2. /\ request'[q].status # "waiting" /\ request'[q].reason = request[q].reason
      /\ \A r \in RequestIds : r # q => request'[r] = request[r]
  BY <1>0 DEF StoredLobbyRequest
<1>3. VacantOutsideStore'
  BY <1>0, <1>1 DEF StoreInv, VacantOutsideStore, Approve
<1>4. q < nextRequest /\ q \in Nat /\ nextRequest \in Nat
  <2>1. q < nextRequest
    BY <1>0 DEF StoreInv, IdsAreFresh
  <2>. QED  BY <2>1, BoundsAssumption DEF TypeOK, RequestIds
<1>5. IdsAreFresh'
  BY <1>0, <1>1, <1>2, <1>4 DEF StoreInv, IdsAreFresh
<1>6. RequestsAreConsistent'
  BY <1>0, <1>2 DEF StoreInv, RequestsAreConsistent
<1>7. SweptUpToDate'
  BY <1>0, <1>1, <1>2 DEF StoreInv, SweptUpToDate, Waiting, Approve, TypeOK
<1>. QED  BY <1>1, <1>3, <1>5, <1>6, <1>7 DEF StoreInv

\* A settings update that stores a room with a hash if it needs one.
LEMMA SettingsStoreInv ==
    ASSUME TypeOK, StoreInv,
           NEW s \in live, NEW room \in StoredRoom,
           room.maxParticipants = rooms[s].maxParticipants,
           room.expiresAt = rooms[s].expiresAt,
           room.accessMode = "passcode" => room.passcodeHash # NoPasscode,
           rooms' = [rooms EXCEPT ![s] = RecordRoomActivity(s, room)],
           UNCHANGED <<clockVars, live, sessionVars, lobbyVars>>
    PROVE  StoreInv'
<1>1. s \in Slugs
  BY DEF TypeOK
<1>2. lastSweep < RecordRoomActivity(s, room).expiresAt
  BY ActivityIsAhead
<1>3. /\ RecordRoomActivity(s, room) \in StoredRoom
      /\ RecordRoomActivity(s, room).maxParticipants = rooms[s].maxParticipants
      /\ RecordRoomActivity(s, room).accessMode = "passcode"
            => RecordRoomActivity(s, room).passcodeHash # NoPasscode
  BY <1>1, RecordRoomActivityFacts
<1>. QED  BY <1>1, <1>2, <1>3, RoomUpdateStoreInv

\* Changing the quality cap touches neither access mode nor hash.
LEMMA SetQualityCapStoreInv ==
    ASSUME TypeOK, StoreInv, NEW s \in Slugs, NEW cap \in QualityCaps, SetQualityCap(s, cap)
    PROVE  StoreInv'
<1>. DEFINE room == [rooms[s] EXCEPT !.qualityCap = cap]
<1>1. /\ room \in StoredRoom /\ room.maxParticipants = rooms[s].maxParticipants
      /\ room.expiresAt = rooms[s].expiresAt /\ room.accessMode = rooms[s].accessMode
      /\ room.passcodeHash = rooms[s].passcodeHash
  BY DEF TypeOK, StoredRoom
<1>2. s \in live /\ rooms' = [rooms EXCEPT ![s] = RecordRoomActivity(s, room)]
  BY DEF SetQualityCap
<1>3. rooms[s].accessMode = "passcode" => rooms[s].passcodeHash # NoPasscode
  BY <1>2 DEF StoreInv, PasscodeRoomHasHash
<1>4. UNCHANGED <<clockVars, live, sessionVars, lobbyVars>>
  BY DEF SetQualityCap
<1>. HIDE DEF room
<1>. QED  BY <1>1, <1>2, <1>3, <1>4, SettingsStoreInv

\* Clearing the passcode leaves passcode mode in the same step.
LEMMA ClearPasscodeStoreInv ==
    ASSUME TypeOK, StoreInv, NEW s \in Slugs, NEW mode \in {"open", "lobby"},
           ClearPasscode(s, mode)
    PROVE  StoreInv'
<1>. DEFINE room == [rooms[s] EXCEPT !.accessMode = mode, !.passcodeHash = NoPasscode]
<1>1. room \in StoredRoom
  BY AccessUpdateType DEF TypeOK, AccessMode, Hashes
<1>2. /\ room.maxParticipants = rooms[s].maxParticipants
      /\ room.expiresAt = rooms[s].expiresAt /\ room.accessMode # "passcode"
  BY DEF TypeOK, StoredRoom
<1>3. s \in live /\ rooms' = [rooms EXCEPT ![s] = RecordRoomActivity(s, room)]
  BY DEF ClearPasscode
<1>4. UNCHANGED <<clockVars, live, sessionVars, lobbyVars>>
  BY DEF ClearPasscode
<1>. HIDE DEF room
<1>. QED  BY <1>1, <1>2, <1>3, <1>4, SettingsStoreInv

\* A hash that arrives late is never null, whatever the access mode is by now.
LEMMA HashFinishStoreInv ==
    ASSUME TypeOK, StoreInv, NEW c \in Clients, HashFinish(c)
    PROVE  StoreInv'
<1>. DEFINE s == inflight[c].slug
            mode == IF inflight[c].kind = "set-passcode" THEN "passcode" ELSE rooms[s].accessMode
            room == [rooms[s] EXCEPT !.accessMode = mode, !.passcodeHash = inflight[c].passcode]
<1>1. s \in Slugs /\ inflight[c].passcode \in Passcodes
  BY DEF TypeOK, HashFinish, Task
<1>2. mode \in AccessMode /\ rooms[s] \in StoredRoom
  BY <1>1 DEF TypeOK, StoredRoom, AccessMode
<1>3. room \in StoredRoom
  BY <1>1, <1>2, AccessUpdateType DEF Hashes
<1>4. /\ room.maxParticipants = rooms[s].maxParticipants
      /\ room.expiresAt = rooms[s].expiresAt /\ room.passcodeHash # NoPasscode
  BY <1>1, <1>2, PasscodeAssumption DEF StoredRoom
<1>5. UNCHANGED <<clockVars, drawnSlugs, live, sessionVars, lobbyVars>>
  BY DEF HashFinish
<1>6. CASE s \in live
  <2>1. rooms' = [rooms EXCEPT ![s] = RecordRoomActivity(s, room)]
    BY <1>6 DEF HashFinish
  <2>. HIDE DEF s, mode, room
  <2>. QED  BY <1>3, <1>4, <1>5, <1>6, <2>1, SettingsStoreInv
<1>7. CASE s \notin live
  <2>1. UNCHANGED rooms
    BY <1>7 DEF HashFinish
  <2>. QED  BY <1>5, <2>1, FrameStoreInv DEF roomVars
<1>. QED  BY <1>6, <1>7

\* A ping or a token request only makes a session younger.
LEMMA TouchSessionStoreInv ==
    ASSUME TypeOK, StoreInv, NEW s \in Slugs, NEW i \in SessionIds, TouchSession(s, i)
    PROVE  StoreInv'
<1>. USE DEF clockVars, roomVars, lobbyVars, TouchSession, StoreInv
<1>1. /\ VacantOutsideStore' /\ IdsAreFresh' /\ RequestsAreConsistent'
      /\ SeatLimit' /\ PasscodeRoomHasHash'
  BY DEF VacantOutsideStore, IdsAreFresh, RequestsAreConsistent, SeatLimit, PasscodeRoomHasHash
<1>2. lastSweep < now + RECONNECT_WINDOW
  BY TimesAssumption DEF SweptUpToDate, TypeOK
<1>3. SweptUpToDate'
  BY <1>2 DEF SweptUpToDate, Waiting, TypeOK
<1>. QED  BY <1>1, <1>3

\* A removal frees a seat and leaves the expiry of the room alone.
LEMMA RemoveParticipantStoreInv ==
    ASSUME TypeOK, StoreInv, NEW s \in Slugs, NEW i \in SessionIds, RemoveParticipant(s, i)
    PROVE  StoreInv'
<1>. USE DEF clockVars, lobbyVars, StoreInv
<1>1. /\ sessions' = [sessions EXCEPT ![s] = sessions[s] \ {i}]
      /\ rooms' = [rooms EXCEPT ![s].lastActivityAt = now]
      /\ UNCHANGED <<clockVars, live, lastSeenAt, nextSession, lobbyVars>>
  BY DEF RemoveParticipant
<1>2. \A t \in Slugs : /\ rooms'[t].maxParticipants = rooms[t].maxParticipants
                       /\ rooms'[t].accessMode = rooms[t].accessMode
                       /\ rooms'[t].passcodeHash = rooms[t].passcodeHash
                       /\ rooms'[t].expiresAt = rooms[t].expiresAt
                       /\ sessions'[t] \subseteq sessions[t]
  BY <1>1 DEF TypeOK, StoredRoom
<1>3. VacantOutsideStore' /\ IdsAreFresh' /\ RequestsAreConsistent' /\ PasscodeRoomHasHash'
  BY <1>1, <1>2 DEF VacantOutsideStore, IdsAreFresh, RequestsAreConsistent,
                    PasscodeRoomHasHash, TypeOK
<1>4. SeatLimit'
  <2>1. \A t \in Slugs : /\ Cardinality(sessions'[t]) <= Cardinality(sessions[t])
                         /\ Cardinality(sessions'[t]) \in Nat
                         /\ Cardinality(sessions[t]) \in Nat
    BY <1>2, SeatCount, FS_Subset, FS_CardinalityType
  <2>2. \A t \in Slugs : rooms[t].maxParticipants \in Nat
    BY SizesAssumption DEF TypeOK, StoredRoom
  <2>3. ASSUME NEW t \in live
        PROVE  Cardinality(sessions'[t]) <= rooms'[t].maxParticipants
    <3>1. t \in Slugs /\ Cardinality(sessions[t]) <= rooms[t].maxParticipants
      BY DEF SeatLimit, TypeOK
    <3>. QED  BY <3>1, <1>2, <2>1, <2>2
  <2>. QED  BY <1>1, <2>3 DEF SeatLimit
<1>5. SweptUpToDate'
  BY <1>1, <1>2 DEF SweptUpToDate, Waiting, TypeOK
<1>. QED  BY <1>3, <1>4, <1>5

\* The clock never passes the instant at which the next tick is due.
LEMMA AdvanceStoreInv ==
    ASSUME TypeOK, StoreInv, Advance
    PROVE  StoreInv'
<1>. USE DEF roomVars, sessionVars, lobbyVars, Advance, StoreInv
<1>1. /\ VacantOutsideStore' /\ IdsAreFresh' /\ RequestsAreConsistent'
      /\ SeatLimit' /\ PasscodeRoomHasHash'
  BY DEF VacantOutsideStore, IdsAreFresh, RequestsAreConsistent, SeatLimit, PasscodeRoomHasHash
<1>2. SweptUpToDate'
  BY TimesAssumption DEF SweptUpToDate, Waiting, TypeOK
<1>. QED  BY <1>1, <1>2

\* The tick: whoever is left was not due at now, the instant of this tick.
LEMMA RunCleanupTickStoreInv ==
    ASSUME TypeOK, StoreInv, RunCleanupTick
    PROVE  StoreInv'
<1>. USE DEF StoreInv
<1>1. /\ live' = {s \in live : ~Expired(s)}
      /\ lastSweep' = now /\ now' = now
      /\ UNCHANGED <<rooms, lastSeenAt, nextSession, nextRequest>>
  BY DEF RunCleanupTick
<1>2. \A s \in Slugs :
        /\ sessions'[s] = IF s \in live' THEN {i \in sessions[s] : ~ReapSession(s, i)} ELSE {}
        /\ lobbyRequests'[s] = IF s \in live' THEN lobbyRequests[s] ELSE {}
  BY DEF RunCleanupTick
<1>3. \A q \in RequestIds :
        request'[q] = IF \E s \in live' : LobbyTimedOut(s, q)
                      THEN DenyLobbyRequest(request[q], "lobby_timeout") ELSE request[q]
  BY DEF RunCleanupTick
<1>4. \A q \in RequestIds :
        /\ request'[q].sessionId = request[q].sessionId
        /\ request'[q].createdAt = request[q].createdAt
        /\ request'[q].status = "waiting" => request'[q] = request[q]
        /\ request'[q] # request[q] => request[q].status = "waiting"
  <2>. TAKE q \in RequestIds
  <2>1. request[q] \in StoredLobbyRequest
    BY DEF TypeOK
  <2>2. CASE \E s \in live' : LobbyTimedOut(s, q)
    <3>1. request[q].status = "waiting"
      BY <2>2 DEF LobbyTimedOut, Waiting
    <3>. QED  BY <1>3, <2>1, <2>2, <3>1, DenyLobbyRequestFacts
  <2>. QED  BY <1>3, <2>2
<1>5. VacantOutsideStore'
  BY <1>2 DEF VacantOutsideStore
<1>6. IdsAreFresh'
  BY <1>1, <1>2, <1>4 DEF IdsAreFresh
<1>7. RequestsAreConsistent'
  BY <1>4 DEF RequestsAreConsistent
<1>8. SeatLimit'
  <2>1. ASSUME NEW s \in live'
        PROVE  Cardinality(sessions'[s]) <= rooms'[s].maxParticipants
    <3>1. s \in live /\ s \in Slugs /\ sessions'[s] \subseteq sessions[s]
      BY <1>1, <1>2 DEF TypeOK
    <3>2. /\ Cardinality(sessions'[s]) <= Cardinality(sessions[s])
          /\ Cardinality(sessions'[s]) \in Nat /\ Cardinality(sessions[s]) \in Nat
      BY <3>1, SeatCount, FS_Subset, FS_CardinalityType
    <3>3. rooms[s].maxParticipants \in Nat
      BY <3>1, SizesAssumption DEF TypeOK, StoredRoom
    <3>. QED  BY <1>1, <3>1, <3>2, <3>3 DEF SeatLimit
  <2>. QED  BY <2>1 DEF SeatLimit
<1>9. PasscodeRoomHasHash'
  BY <1>1 DEF PasscodeRoomHasHash
<1>10. SweptUpToDate'
  <2>1. lastSweep' <= now' /\ now' <= lastSweep' + CLEANUP_INTERVAL
    BY <1>1, TimesAssumption DEF TypeOK
  <2>2. ASSUME NEW s \in live'
        PROVE  lastSweep' < rooms'[s].expiresAt
    <3>1. s \in Slugs /\ rooms[s].expiresAt \in Nat
      BY <1>1 DEF TypeOK, StoredRoom
    <3>. QED  BY <1>1, <3>1 DEF Expired, TypeOK
  <2>3. ASSUME NEW s \in live', NEW i \in sessions'[s]
        PROVE  lastSweep' < lastSeenAt'[i] + RECONNECT_WINDOW
    <3>1. s \in Slugs /\ i \in sessions[s] /\ ~ReapSession(s, i)
      BY <1>1, <1>2 DEF TypeOK
    <3>2. lastSeenAt[i] + RECONNECT_WINDOW \in Nat
      BY <3>1, TimesAssumption DEF TypeOK
    <3>. QED  BY <1>1, <3>1, <3>2 DEF ReapSession, TypeOK
  <2>4. ASSUME NEW s \in live', NEW q \in Waiting(s)'
        PROVE  lastSweep' < request'[q].createdAt + LOBBY_REQUEST_TTL
    <3>1. s \in Slugs /\ q \in lobbyRequests[s] /\ q \in RequestIds
      BY <1>1, <1>2 DEF Waiting, TypeOK
    <3>2. request'[q] = request[q] /\ request[q].status = "waiting"
      BY <1>4, <3>1 DEF Waiting
    <3>3. ~LobbyTimedOut(s, q)
      <4>1. request[q] \in StoredLobbyRequest
        BY <3>1 DEF TypeOK
      <4>2. DenyLobbyRequest(request[q], "lobby_timeout").status # "waiting"
        BY <4>1, DenyLobbyRequestFacts
      <4>. QED  BY <1>3, <3>1, <3>2, <4>2
    <3>4. request[q].createdAt + LOBBY_REQUEST_TTL \in Nat
      BY <3>1, TimesAssumption DEF TypeOK, StoredLobbyRequest
    <3>. QED  BY <1>1, <3>1, <3>2, <3>3, <3>4 DEF LobbyTimedOut, Waiting, TypeOK
  <2>. QED  BY <2>1, <2>2, <2>3, <2>4 DEF SweptUpToDate
<1>. QED  BY <1>5, <1>6, <1>7, <1>8, <1>9, <1>10

\* Every step keeps the inductive invariant.
LEMMA NextStoreInv == TypeOK /\ StoreInv /\ [Next]_vars => StoreInv'
<1>. SUFFICES ASSUME TypeOK, StoreInv, [Next]_vars PROVE StoreInv'
  OBVIOUS
<1>1. ASSUME NEW s \in Slugs, NEW mode \in AccessMode, NEW size \in RoomSizes,
             NEW cap \in QualityCaps, NEW passcode \in Hashes,
             CreateRoom(s, mode, size, cap, passcode)
      PROVE  StoreInv'
  BY <1>1, CreateRoomStoreInv
<1>2. ASSUME NEW s \in Slugs, JoinDirect(s)
      PROVE  StoreInv'
  BY <1>2, AdmissionStoreInv DEF JoinDirect
<1>3. ASSUME NEW s \in Slugs, JoinLobby(s)
      PROVE  StoreInv'
  BY <1>3, LobbyRequestStoreInv DEF JoinLobby
<1>4. ASSUME NEW c \in Clients, NEW s \in Slugs, NEW guess \in Passcodes,
             JoinPasscodeStart(c, s, guess)
      PROVE  StoreInv'
  BY <1>4, FrameStoreInv DEF JoinPasscodeStart
<1>5. ASSUME NEW c \in Clients, JoinPasscodeRejected(c) \/ JoinPasscodeTurnedAway(c)
      PROVE  StoreInv'
  BY <1>5, FrameStoreInv DEF JoinPasscodeRejected, JoinPasscodeTurnedAway
<1>6. ASSUME NEW c \in Clients, JoinPasscodeAdmitted(c)
      PROVE  StoreInv'
  <2>1. inflight[c].slug \in Slugs
    BY <1>6 DEF TypeOK, JoinPasscodeAdmitted, Verified, Task
  <2>. QED  BY <1>6, <2>1, AdmissionStoreInv DEF JoinPasscodeAdmitted
<1>7. ASSUME NEW c \in Clients, JoinPasscodeQueued(c)
      PROVE  StoreInv'
  <2>1. inflight[c].slug \in Slugs
    BY <1>7 DEF TypeOK, JoinPasscodeQueued, Verified, Task
  <2>. QED  BY <1>7, <2>1, LobbyRequestStoreInv DEF JoinPasscodeQueued
<1>8. ASSUME NEW s \in Slugs, NEW q \in RequestIds, PollExpired(s, q) \/ Deny(s, q)
      PROVE  StoreInv'
  BY <1>8, DenialStoreInv DEF PollExpired, Deny
<1>9. ASSUME NEW s \in Slugs, NEW q \in RequestIds, Approve(s, q)
      PROVE  StoreInv'
  BY <1>9, ApproveStoreInv
<1>10. ASSUME NEW s \in Slugs, NEW cap \in QualityCaps, SetQualityCap(s, cap)
       PROVE  StoreInv'
  BY <1>10, SetQualityCapStoreInv
<1>11. ASSUME NEW s \in Slugs, NEW mode \in {"open", "lobby"}, ClearPasscode(s, mode)
       PROVE  StoreInv'
  BY <1>11, ClearPasscodeStoreInv
<1>12. ASSUME NEW c \in Clients, NEW kind \in {"rotate", "set-passcode"}, NEW s \in Slugs,
              NEW passcode \in Passcodes, HashStart(c, kind, s, passcode)
       PROVE  StoreInv'
  BY <1>12, FrameStoreInv DEF HashStart
<1>13. ASSUME NEW c \in Clients, HashFinish(c)
       PROVE  StoreInv'
  BY <1>13, HashFinishStoreInv
<1>14. ASSUME NEW s \in Slugs, NEW i \in SessionIds, Token(s, i) \/ Ping(s, i)
       PROVE  StoreInv'
  BY <1>14, TouchSessionStoreInv DEF Token, Ping
<1>15. ASSUME NEW s \in Slugs, NEW i \in SessionIds, RemoveParticipant(s, i)
       PROVE  StoreInv'
  BY <1>15, RemoveParticipantStoreInv
<1>16. CASE RunCleanupTick
  BY <1>16, RunCleanupTickStoreInv
<1>17. CASE Advance
  BY <1>17, AdvanceStoreInv
<1>18. CASE UNCHANGED vars
  BY <1>18, FrameStoreInv DEF vars
<1>. QED
  BY <1>1, <1>2, <1>3, <1>4, <1>5, <1>6, <1>7, <1>8, <1>9, <1>10, <1>11, <1>12, <1>13,
     <1>14, <1>15, <1>16, <1>17, <1>18 DEF Next

\* Every seat, request and deadline of the store is accounted for, always.
THEOREM StoreInvariant == Spec => []StoreInv
BY InitStoreInv, NextStoreInv, TypeCorrect, PTL DEF Spec

\* No interleaving of joins, approvals, removals and ticks seats more participants
\* than a room was created for.
THEOREM SeatLimitHolds == Spec => []SeatLimit
<1>1. StoreInv => SeatLimit
  BY DEF StoreInv
<1>. QED  BY <1>1, StoreInvariant, PTL

\* Overlapping settings updates never leave a passcode room without a hash.
THEOREM PasscodeRoomHasHashHolds == Spec => []PasscodeRoomHasHash
<1>1. StoreInv => PasscodeRoomHasHash
  BY DEF StoreInv
<1>. QED  BY <1>1, StoreInvariant, PTL

\* A request that timed out holds no seat.
THEOREM TimedOutHoldsNoSeatHolds == Spec => []TimedOutHoldsNoSeat
<1>1. TypeOK /\ StoreInv => TimedOutHoldsNoSeat
  BY DEF StoreInv, RequestsAreConsistent, TimedOutHoldsNoSeat, TypeOK
<1>. QED  BY <1>1, StoreInvariant, TypeCorrect, PTL

\* Rooms, sessions and lobby requests outstay their time by less than one cleanup
\* interval: what the last tick left was not yet due, and the next tick is not late.
THEOREM DeadlinesHold == Spec => []DeadlinesKept
<1>. SUFFICES TypeOK /\ StoreInv => DeadlinesKept
  BY StoreInvariant, TypeCorrect, PTL
<1>. SUFFICES ASSUME TypeOK, StoreInv
              PROVE  DeadlinesKept
  OBVIOUS
<1>0. /\ now \in Nat /\ lastSweep \in Nat /\ CLEANUP_INTERVAL \in Nat
      /\ RECONNECT_WINDOW \in Nat /\ LOBBY_REQUEST_TTL \in Nat
      /\ now <= lastSweep + CLEANUP_INTERVAL
  BY TimesAssumption DEF TypeOK, StoreInv, SweptUpToDate
<1>1. ASSUME NEW s \in live
      PROVE  now < rooms[s].expiresAt + CLEANUP_INTERVAL
  <2>1. rooms[s].expiresAt \in Nat /\ lastSweep < rooms[s].expiresAt
    BY DEF TypeOK, StoredRoom, StoreInv, SweptUpToDate
  <2>. QED  BY <1>0, <2>1
<1>2. ASSUME NEW s \in live, NEW i \in sessions[s]
      PROVE  now < lastSeenAt[i] + RECONNECT_WINDOW + CLEANUP_INTERVAL
  <2>1. lastSeenAt[i] \in Nat /\ lastSweep < lastSeenAt[i] + RECONNECT_WINDOW
    BY DEF TypeOK, StoreInv, SweptUpToDate
  <2>. QED  BY <1>0, <2>1
<1>3. ASSUME NEW s \in live, NEW q \in Waiting(s)
      PROVE  now < request[q].createdAt + LOBBY_REQUEST_TTL + CLEANUP_INTERVAL
  <2>1. q \in RequestIds
    BY DEF TypeOK, Waiting
  <2>2. request[q].createdAt \in Nat /\ lastSweep < request[q].createdAt + LOBBY_REQUEST_TTL
    BY <2>1 DEF TypeOK, StoredLobbyRequest, StoreInv, SweptUpToDate
  <2>. QED  BY <1>0, <2>2
<1>. QED  BY <1>1, <1>2, <1>3 DEF DeadlinesKept, ExpiredRoomsGo, SilentSessionsGo, StaleRequestsGo

-----------------------------------------------------------------------------
(* Refinement: every step of the server is a step of Seating or stutters.  *)

\* The size of a room never changes once it is drawn.
LEMMA CapacityStays ==
    ASSUME NEW s \in Slugs, NEW room \in StoredRoom, TypeOK,
           room.maxParticipants = rooms[s].maxParticipants,
           rooms' = [rooms EXCEPT ![s] = room]
    PROVE  [t \in Slugs |-> rooms[t].maxParticipants]' = [t \in Slugs |-> rooms[t].maxParticipants]
BY DEF TypeOK

\* Seating counts with its own instance of FiniteSets.
LEMMA SeatsCardinality ==
    ASSUME NEW S
    PROVE  Seats!Cardinality(S) = Cardinality(S)
BY DEF Seats!Cardinality, Cardinality

\* The empty store is an empty Seating.
LEMMA InitSeats == Init => Seats!Init
<1>. SUFFICES ASSUME Init PROVE Seats!Init
  OBVIOUS
<1>1. \A s \in Slugs : rooms[s].maxParticipants \in Nat
  <2>1. NoRoom \in StoredRoom
    BY SizesAssumption, CapsAssumption DEF NoRoom, StoredRoom, AccessMode, Hashes
  <2>. QED  BY <2>1, SizesAssumption DEF Init, StoredRoom
<1>2. 1..(nextSession - 1) = {}
  BY DEF Init
<1>. QED  BY <1>1, <1>2 DEF Init, Seats!Init

\* A step that changes a room, but not its size, and no seat is a stutter.
LEMMA RoomUpdateSeats ==
    ASSUME TypeOK, NEW s \in Slugs, NEW room \in StoredRoom,
           room.maxParticipants = rooms[s].maxParticipants,
           rooms' = [rooms EXCEPT ![s] = room],
           UNCHANGED <<drawnSlugs, live, sessions, nextSession>>
    PROVE  UNCHANGED Seats!vars
BY CapacityStays DEF Seats!vars

\* An admission is an Admit of the next session id.
LEMMA AdmissionSeats ==
    ASSUME TypeOK, StoreInv, NEW s \in Slugs, CreateSession(s), MarkActive(s),
           UNCHANGED <<drawnSlugs, live>>
    PROVE  Seats!Next
<1>1. s \in live /\ nextSession \in SessionIds /\ nextSession \in Nat
  <2>1. nextSession \in SessionIds
    BY CreateSessionType
  <2>. QED  BY <2>1, BoundsAssumption DEF CreateSession, SessionIds
<1>2. nextSession \notin 1..(nextSession - 1)
  BY <1>1
<1>3. Cardinality(sessions[s]) < rooms[s].maxParticipants
  <2>1. rooms[s].maxParticipants \in Nat
    BY SizesAssumption DEF TypeOK, StoredRoom
  <2>. QED  BY <2>1, SeatCount DEF CreateSession, Full
<1>4. [t \in Slugs |-> rooms[t].maxParticipants]' = [t \in Slugs |-> rooms[t].maxParticipants]
  <2>. DEFINE room == [rooms[s] EXCEPT !.status = "active"]
  <2>1. room \in StoredRoom /\ room.maxParticipants = rooms[s].maxParticipants
    BY DEF TypeOK, StoredRoom
  <2>2. rooms' = [rooms EXCEPT ![s] = RecordRoomActivity(s, room)]
    BY DEF MarkActive
  <2>. HIDE DEF room
  <2>. QED  BY <2>1, <2>2, RecordRoomActivityFacts, CapacityStays
<1>5. (1..(nextSession - 1))' = 1..(nextSession - 1) \cup {nextSession}
  BY <1>1 DEF CreateSession, SessionIds
<1>6. Seats!Admit(s, nextSession)
  <2>1. nextSession \in SessionIds \ 1..(nextSession - 1)
    BY <1>1, <1>2
  <2>2. Cardinality(sessions[s]) < [t \in Slugs |-> rooms[t].maxParticipants][s]
    BY <1>3
  <2>3. sessions' = [sessions EXCEPT ![s] = @ \cup {nextSession}]
    BY DEF CreateSession
  <2>. QED  BY <1>1, <1>4, <1>5, <2>1, <2>2, <2>3, SeatsCardinality DEF Seats!Admit
<1>. QED  BY <1>1, <1>6 DEF Seats!Next

\* A step that touches neither rooms nor sessions is a stutter.
LEMMA FrameSeats ==
    ASSUME UNCHANGED <<roomVars, sessions, nextSession>>
    PROVE  UNCHANGED Seats!vars
BY DEF Seats!vars, roomVars

\* The tick and a removal are departures.
LEMMA DepartureSeats ==
    ASSUME TypeOK, live' \subseteq live, sessions' \in [Slugs -> SUBSET SessionIds],
           \A s \in Slugs : sessions'[s] \subseteq sessions[s],
           \A s \in Slugs \ live' : sessions'[s] = {},
           \A s \in Slugs : rooms'[s].maxParticipants = rooms[s].maxParticipants,
           UNCHANGED <<drawnSlugs, nextSession>>
    PROVE  Seats!Next
<1>1. [t \in Slugs |-> rooms[t].maxParticipants]' = [t \in Slugs |-> rooms[t].maxParticipants]
  OBVIOUS
<1>2. Seats!Depart
  BY <1>1 DEF Seats!Depart
<1>. QED  BY <1>2 DEF Seats!Next

\* Every step of the store is a step of Seating or a stutter.
LEMMA NextSeats == TypeOK /\ TypeOK' /\ StoreInv /\ [Next]_vars => [Seats!Next]_(Seats!vars)
<1>. SUFFICES ASSUME TypeOK, TypeOK', StoreInv, [Next]_vars
              PROVE  Seats!Next \/ UNCHANGED Seats!vars
  OBVIOUS
<1>. USE DEF roomVars, sessionVars
<1>1. ASSUME NEW s \in Slugs, NEW mode \in AccessMode, NEW size \in RoomSizes,
             NEW cap \in QualityCaps, NEW passcode \in Hashes,
             CreateRoom(s, mode, size, cap, passcode)
      PROVE  Seats!Next
  <2>1. \A t \in Slugs : rooms'[t].maxParticipants \in Nat
    BY SizesAssumption DEF TypeOK, StoredRoom
  <2>2. \A t \in Slugs \ {s} : rooms'[t] = rooms[t]
    BY <1>1 DEF CreateRoom, TypeOK
  <2>3. Seats!Open(s)
    BY <1>1, <2>1, <2>2 DEF CreateRoom, Seats!Open
  <2>. QED  BY <2>3 DEF Seats!Next
<1>2. ASSUME NEW s \in Slugs, JoinDirect(s)
      PROVE  Seats!Next
  BY <1>2, AdmissionSeats DEF JoinDirect
<1>3. ASSUME NEW s \in Slugs, JoinLobby(s)
      PROVE  UNCHANGED Seats!vars
  BY <1>3, FrameSeats DEF JoinLobby
<1>4. ASSUME NEW c \in Clients, NEW s \in Slugs, NEW guess \in Passcodes,
             JoinPasscodeStart(c, s, guess)
      PROVE  UNCHANGED Seats!vars
  BY <1>4, FrameSeats DEF JoinPasscodeStart
<1>5. ASSUME NEW c \in Clients,
             JoinPasscodeRejected(c) \/ JoinPasscodeTurnedAway(c) \/ JoinPasscodeQueued(c)
      PROVE  UNCHANGED Seats!vars
  BY <1>5, FrameSeats DEF JoinPasscodeRejected, JoinPasscodeTurnedAway, JoinPasscodeQueued
<1>6. ASSUME NEW c \in Clients, JoinPasscodeAdmitted(c)
      PROVE  Seats!Next
  <2>1. inflight[c].slug \in Slugs
    BY <1>6 DEF TypeOK, JoinPasscodeAdmitted, Verified, Task
  <2>. QED  BY <1>6, <2>1, AdmissionSeats DEF JoinPasscodeAdmitted
<1>7. ASSUME NEW s \in Slugs, NEW q \in RequestIds, PollExpired(s, q) \/ Deny(s, q)
      PROVE  UNCHANGED Seats!vars
  BY <1>7, FrameSeats DEF PollExpired, Deny
<1>8. ASSUME NEW s \in Slugs, NEW q \in RequestIds, Approve(s, q)
      PROVE  Seats!Next
  BY <1>8, AdmissionSeats DEF Approve
<1>9. ASSUME NEW s \in Slugs, NEW cap \in QualityCaps, SetQualityCap(s, cap)
      PROVE  UNCHANGED Seats!vars
  <2>. DEFINE room == [rooms[s] EXCEPT !.qualityCap = cap]
  <2>0. rooms[s] \in StoredRoom
    BY DEF TypeOK
  <2>1. room \in StoredRoom /\ room.maxParticipants = rooms[s].maxParticipants
    BY <2>0 DEF StoredRoom
  <2>2. /\ rooms' = [rooms EXCEPT ![s] = RecordRoomActivity(s, room)]
        /\ UNCHANGED <<drawnSlugs, live, sessions, nextSession>>
    BY <1>9 DEF SetQualityCap
  <2>. HIDE DEF room
  <2>. QED  BY <2>1, <2>2, RecordRoomActivityFacts, RoomUpdateSeats
<1>10. ASSUME NEW s \in Slugs, NEW mode \in {"open", "lobby"}, ClearPasscode(s, mode)
       PROVE  UNCHANGED Seats!vars
  <2>. DEFINE room == [rooms[s] EXCEPT !.accessMode = mode, !.passcodeHash = NoPasscode]
  <2>1. room \in StoredRoom
    BY AccessUpdateType DEF TypeOK, AccessMode, Hashes
  <2>2. room.maxParticipants = rooms[s].maxParticipants
    BY DEF TypeOK, StoredRoom
  <2>3. /\ rooms' = [rooms EXCEPT ![s] = RecordRoomActivity(s, room)]
        /\ UNCHANGED <<drawnSlugs, live, sessions, nextSession>>
    BY <1>10 DEF ClearPasscode
  <2>. HIDE DEF room
  <2>. QED  BY <2>1, <2>2, <2>3, RecordRoomActivityFacts, RoomUpdateSeats
<1>11. ASSUME NEW c \in Clients, NEW kind \in {"rotate", "set-passcode"}, NEW s \in Slugs,
              NEW passcode \in Passcodes, HashStart(c, kind, s, passcode)
       PROVE  UNCHANGED Seats!vars
  BY <1>11, FrameSeats DEF HashStart
<1>12. ASSUME NEW c \in Clients, HashFinish(c)
       PROVE  UNCHANGED Seats!vars
  <2>. DEFINE s == inflight[c].slug
              mode == IF inflight[c].kind = "set-passcode" THEN "passcode"
                      ELSE rooms[s].accessMode
              room == [rooms[s] EXCEPT !.accessMode = mode, !.passcodeHash = inflight[c].passcode]
  <2>1. s \in Slugs /\ inflight[c].passcode \in Passcodes
    BY <1>12 DEF TypeOK, HashFinish, Task
  <2>2. mode \in AccessMode /\ rooms[s] \in StoredRoom
    BY <2>1 DEF TypeOK, StoredRoom, AccessMode
  <2>3. room \in StoredRoom
    BY <2>1, <2>2, AccessUpdateType DEF Hashes
  <2>4. room.maxParticipants = rooms[s].maxParticipants
    BY <2>1, <2>2 DEF StoredRoom
  <2>5. /\ UNCHANGED <<drawnSlugs, live, sessions, nextSession>>
        /\ \/ rooms' = [rooms EXCEPT ![s] = RecordRoomActivity(s, room)]
           \/ UNCHANGED rooms
    BY <1>12 DEF HashFinish
  <2>. HIDE DEF s, mode, room
  <2>6. CASE rooms' = [rooms EXCEPT ![s] = RecordRoomActivity(s, room)]
    BY <2>1, <2>3, <2>4, <2>5, <2>6, RecordRoomActivityFacts, RoomUpdateSeats
  <2>7. CASE UNCHANGED rooms
    BY <2>5, <2>7, FrameSeats
  <2>. QED  BY <2>5, <2>6, <2>7
<1>13. ASSUME NEW s \in Slugs, NEW i \in SessionIds, Token(s, i) \/ Ping(s, i)
       PROVE  UNCHANGED Seats!vars
  BY <1>13, FrameSeats DEF Token, Ping, TouchSession
<1>14. ASSUME NEW s \in Slugs, NEW i \in SessionIds, RemoveParticipant(s, i)
       PROVE  Seats!Next
  <2>1. \A t \in Slugs : /\ sessions'[t] \subseteq sessions[t]
                         /\ rooms'[t].maxParticipants = rooms[t].maxParticipants
    BY <1>14 DEF RemoveParticipant, TypeOK, StoredRoom
  <2>2. \A t \in Slugs \ live' : sessions'[t] = {}
    BY <1>14, <2>1 DEF RemoveParticipant, StoreInv, VacantOutsideStore
  <2>3. sessions' \in [Slugs -> SUBSET SessionIds]
    BY DEF TypeOK
  <2>. QED  BY <1>14, <2>1, <2>2, <2>3, DepartureSeats DEF RemoveParticipant
<1>15. CASE RunCleanupTick
  <2>1. live' \subseteq live /\ UNCHANGED <<drawnSlugs, rooms, nextSession>>
    BY <1>15 DEF RunCleanupTick
  <2>2. /\ \A s \in Slugs : sessions'[s] \subseteq sessions[s]
        /\ \A s \in Slugs \ live' : sessions'[s] = {}
    BY <1>15 DEF RunCleanupTick, ReapSession
  <2>3. sessions' \in [Slugs -> SUBSET SessionIds]
    BY DEF TypeOK
  <2>. QED  BY <2>1, <2>2, <2>3, DepartureSeats
<1>16. CASE Advance \/ UNCHANGED vars
  BY <1>16, FrameSeats DEF Advance, vars
<1>. QED
  BY <1>1, <1>2, <1>3, <1>4, <1>5, <1>6, <1>7, <1>8, <1>9, <1>10, <1>11, <1>12, <1>13,
     <1>14, <1>15, <1>16 DEF Next

\* The room store implements Seating: rooms open once and within capacity, and no
\* session id is seated a second time, in any room.
THEOREM RoomServerImplementsSeating == Spec => ImplementsSeating
<1>1. TypeOK /\ TypeOK' /\ StoreInv /\ [Next]_vars => [Seats!Next]_(Seats!vars)
  BY NextSeats
<1>. QED  BY <1>1, InitSeats, TypeCorrect, StoreInvariant, PTL
          DEF Spec, ImplementsSeating, Seats!Spec
-----------------------------------------------------------------------------
(***************************************************************************)
(* What a step of the room server may never do.  Each theorem rests on one *)
(* lemma that sorts the steps by what they do to the lobby requests, to    *)
(* the seats or to the rooms, and on the invariant above.                  *)
(***************************************************************************)
-----------------------------------------------------------------------------
(* Lobby requests.                                                         *)

Reasons == {"host_denied", "room_expired", "lobby_timeout"}

\* The four things that can happen to the record of request q.
RequestStep(q) ==
    \/ request'[q] = request[q]
    \/ q = nextRequest
    \/ /\ request[q].status = "waiting"
       /\ request'[q] = [request[q] EXCEPT !.status = "approved", !.sessionId = nextSession]
    \/ \E reason \in Reasons : request'[q] = DenyLobbyRequest(request[q], reason)

\* Nothing else happens to a request in any step.
LEMMA RequestSteps ==
    ASSUME TypeOK, [Next]_vars, NEW q \in RequestIds
    PROVE  RequestStep(q)
<1>. USE DEF lobbyVars
<1>1. ASSUME NEW s \in Slugs, JoinLobby(s)
      PROVE  RequestStep(q)
  BY <1>1 DEF JoinLobby, CreateLobbyRequest, RequestStep, TypeOK
<1>2. ASSUME NEW c \in Clients, JoinPasscodeQueued(c)
      PROVE  RequestStep(q)
  BY <1>2 DEF JoinPasscodeQueued, CreateLobbyRequest, RequestStep, TypeOK
<1>3. ASSUME NEW s \in Slugs, NEW p \in RequestIds, PollExpired(s, p) \/ Deny(s, p)
      PROVE  RequestStep(q)
  BY <1>3 DEF PollExpired, Deny, RequestStep, Reasons, TypeOK
<1>4. ASSUME NEW s \in Slugs, NEW p \in RequestIds, Approve(s, p)
      PROVE  RequestStep(q)
  BY <1>4 DEF Approve, Approvable, Waiting, RequestStep, TypeOK
<1>5. CASE RunCleanupTick
  BY <1>5 DEF RunCleanupTick, RequestStep, Reasons
<1>6. CASE UNCHANGED request
  BY <1>6 DEF RequestStep
<1>. QED
  BY <1>1, <1>2, <1>3, <1>4, <1>5, <1>6
  DEF Next, vars, CreateRoom, JoinDirect, JoinPasscodeStart, JoinPasscodeRejected,
      JoinPasscodeAdmitted, JoinPasscodeTurnedAway, SetQualityCap, ClearPasscode,
      HashStart, HashFinish, Token, Ping, TouchSession, RemoveParticipant, Advance

\* What the invariant says of a request that is settled, one way or the other.
LEMMA SettledRequests ==
    ASSUME TypeOK, StoreInv, NEW q \in RequestIds
    PROVE  /\ request[q].sessionId # 0 => q # nextRequest /\ request[q].status # "waiting"
           /\ request[q].reason # "none" => request[q].status # "waiting"
<1>1. q \in Nat /\ nextRequest \in Nat
  <2>1. MaxRequests \in Nat
    BY BoundsAssumption
  <2>. QED  BY <2>1 DEF TypeOK, RequestIds
<1>2. request[q].sessionId # 0 => ~(q >= nextRequest)
  BY DEF StoreInv, IdsAreFresh
<1>3. request[q].status = "waiting" => request[q].reason = "none" /\ request[q].sessionId = 0
  BY DEF StoreInv, RequestsAreConsistent
<1>. QED  BY <1>1, <1>2, <1>3

\* Denying changes at most the status and the reason, and the reason only once.
LEMMA DenialKeeps ==
    ASSUME NEW r \in StoredLobbyRequest, NEW reason \in Reasons
    PROVE  /\ DenyLobbyRequest(r, reason).sessionId = r.sessionId
           /\ r.status # "waiting" /\ r.reason # "none" =>
                 DenyLobbyRequest(r, reason).reason = r.reason
BY DEF DenyLobbyRequest, StoredLobbyRequest

\* The seat of an approved request is settled once: approving needs a waiting
\* request, which has no seat, and denying leaves the seat alone.
THEOREM OneSeatPerRequestHolds == Spec => OneSeatPerRequest
<1>1. TypeOK /\ StoreInv /\ [Next]_vars =>
        \A q \in RequestIds : request[q].sessionId # 0 =>
            request'[q].sessionId = request[q].sessionId
  <2>. SUFFICES ASSUME TypeOK, StoreInv, [Next]_vars,
                       NEW q \in RequestIds, request[q].sessionId # 0
                PROVE  request'[q].sessionId = request[q].sessionId
    OBVIOUS
  <2>1. request[q] \in StoredLobbyRequest
    BY DEF TypeOK
  <2>2. q # nextRequest /\ request[q].status # "waiting"
    BY SettledRequests
  <2>3. RequestStep(q)
    BY RequestSteps
  <2>. QED  BY <2>1, <2>2, <2>3, DenialKeeps DEF RequestStep
<1>. QED  BY <1>1, TypeCorrect, StoreInvariant, PTL DEF Spec, OneSeatPerRequest

\* The reason of a denial is final: only a waiting request is approved, and a
\* second denial keeps the record.
THEOREM FirstReasonStandsHolds == Spec => FirstReasonStands
<1>1. TypeOK /\ StoreInv /\ [Next]_vars =>
        \A q \in RequestIds : q < nextRequest /\ request[q].reason # "none" =>
            request'[q].reason = request[q].reason
  <2>. SUFFICES ASSUME TypeOK, StoreInv, [Next]_vars, NEW q \in RequestIds,
                       q < nextRequest, request[q].reason # "none"
                PROVE  request'[q].reason = request[q].reason
    OBVIOUS
  <2>1. request[q] \in StoredLobbyRequest
    BY DEF TypeOK
  <2>2. q \in Nat /\ nextRequest \in Nat
    <3>1. MaxRequests \in Nat
      BY BoundsAssumption
    <3>. QED  BY <3>1 DEF TypeOK, RequestIds
  <2>3. q # nextRequest /\ request[q].status # "waiting"
    BY <2>2, SettledRequests
  <2>4. RequestStep(q)
    BY RequestSteps
  <2>. QED  BY <2>1, <2>3, <2>4, DenialKeeps DEF RequestStep
<1>. QED  BY <1>1, TypeCorrect, StoreInvariant, PTL DEF Spec, FirstReasonStands

-----------------------------------------------------------------------------
(* Seats.                                                                  *)

\* A new seat of room s is the next session id, and if the lobby is on it is
\* recorded in a request that was waiting.
NewSeatStep(s, i) ==
    /\ i = nextSession
    /\ rooms[s].accessMode = "lobby" => \E q \in Waiting(s) : request'[q].sessionId = i

\* No other seat is ever taken.
LEMMA NewSeats ==
    ASSUME TypeOK, [Next]_vars, NEW s \in live, NEW i \in sessions'[s] \ sessions[s]
    PROVE  NewSeatStep(s, i)
<1>. USE DEF sessionVars
<1>0. s \in Slugs
  BY DEF TypeOK
<1>1. ASSUME NEW t \in Slugs, JoinDirect(t)
      PROVE  NewSeatStep(s, i)
  BY <1>0, <1>1 DEF JoinDirect, CreateSession, NewSeatStep, TypeOK
<1>2. ASSUME NEW c \in Clients, JoinPasscodeAdmitted(c)
      PROVE  NewSeatStep(s, i)
  BY <1>0, <1>2 DEF JoinPasscodeAdmitted, CreateSession, NewSeatStep, TypeOK
<1>3. ASSUME NEW t \in Slugs, NEW q \in RequestIds, Approve(t, q)
      PROVE  NewSeatStep(s, i)
  <2>1. t = s /\ i = nextSession
    BY <1>0, <1>3 DEF Approve, CreateSession, TypeOK
  <2>2. q \in Waiting(s) /\ request'[q].sessionId = nextSession
    BY <1>3, <2>1 DEF Approve, Approvable, TypeOK, StoredLobbyRequest
  <2>. QED  BY <2>1, <2>2 DEF NewSeatStep
<1>4. CASE RunCleanupTick
  BY <1>0, <1>4 DEF RunCleanupTick
<1>5. ASSUME NEW t \in Slugs, NEW j \in SessionIds, RemoveParticipant(t, j)
      PROVE  FALSE
  BY <1>0, <1>5 DEF RemoveParticipant, TypeOK
<1>6. CASE UNCHANGED sessions
  BY <1>6
<1>. QED
  BY <1>1, <1>2, <1>3, <1>4, <1>5, <1>6
  DEF Next, vars, CreateRoom, JoinLobby, JoinPasscodeStart, JoinPasscodeRejected,
      JoinPasscodeQueued, JoinPasscodeTurnedAway, PollExpired, Deny, SetQualityCap,
      ClearPasscode, HashStart, HashFinish, Token, Ping, TouchSession, Advance

\* While the lobby is on, nobody is seated unapproved, whatever was awaited when
\* the host turned it on.
THEOREM LobbyGateHolds == Spec => LobbyGate
<1>1. TypeOK /\ [Next]_vars =>
        \A s \in live : \A i \in sessions'[s] \ sessions[s] :
            rooms[s].accessMode = "lobby" =>
                \E q \in Waiting(s) : request'[q].sessionId = i
  BY NewSeats DEF NewSeatStep
<1>. QED  BY <1>1, TypeCorrect, PTL DEF Spec, LobbyGate

-----------------------------------------------------------------------------
(* Rooms.                                                                  *)

\* What makes the deadline of a room its last activity plus the TTL: nothing but
\* the removal route moves one without the other.
ExpiryFollowsActivity ==
    \A s \in live : rooms[s].expiresAt = rooms[s].lastActivityAt + ROOM_TTL

\* Every recorded activity restores the relation, and an expired room keeps it.
LEMMA RecordingKeepsExpiry ==
    ASSUME NEW s, NEW room \in StoredRoom,
           room.expiresAt = room.lastActivityAt + ROOM_TTL
    PROVE  RecordRoomActivity(s, room).expiresAt =
               RecordRoomActivity(s, room).lastActivityAt + ROOM_TTL
BY DEF RecordRoomActivity, StoredRoom

\* Every step but a removal keeps the expiry of a room one TTL after its last activity.
LEMMA ExpiryFollowsActivityStep ==
    ASSUME TypeOK, ExpiryFollowsActivity, [Next]_vars, ~RemovalRegistered, NEW s \in live'
    PROVE  rooms'[s].expiresAt = rooms'[s].lastActivityAt + ROOM_TTL
<1>. USE DEF roomVars
<1>0. /\ live \subseteq Slugs
      /\ \A t \in live : /\ rooms[t] \in StoredRoom
                         /\ rooms[t].expiresAt = rooms[t].lastActivityAt + ROOM_TTL
  BY DEF TypeOK, ExpiryFollowsActivity
<1>1. ASSUME NEW t \in Slugs, NEW mode \in AccessMode, NEW size \in RoomSizes,
             NEW cap \in QualityCaps, NEW passcode \in Hashes,
             CreateRoom(t, mode, size, cap, passcode)
      PROVE  rooms'[s].expiresAt = rooms'[s].lastActivityAt + ROOM_TTL
  BY <1>0, <1>1 DEF CreateRoom, TypeOK
<1>r. ASSUME NEW t \in live, NEW room \in StoredRoom, live' = live,
             room.expiresAt = rooms[t].expiresAt, room.lastActivityAt = rooms[t].lastActivityAt,
             rooms' = [rooms EXCEPT ![t] = RecordRoomActivity(t, room)]
      PROVE  rooms'[s].expiresAt = rooms'[s].lastActivityAt + ROOM_TTL
  BY <1>0, <1>r, RecordingKeepsExpiry DEF TypeOK
<1>2. ASSUME NEW t \in live, MarkActive(t), live' = live
      PROVE  rooms'[s].expiresAt = rooms'[s].lastActivityAt + ROOM_TTL
  <2> DEFINE room == [rooms[t] EXCEPT !.status = "active"]
  <2>1. room \in StoredRoom
    BY <1>0 DEF StoredRoom
  <2>2. room.expiresAt = rooms[t].expiresAt /\ room.lastActivityAt = rooms[t].lastActivityAt
    BY <1>0, <1>2 DEF StoredRoom
  <2>3. t \in live /\ live' = live /\ rooms' = [rooms EXCEPT ![t] = RecordRoomActivity(t, room)]
    BY <1>2 DEF MarkActive
  <2>. HIDE DEF room
  <2>. QED  BY <1>r, <2>1, <2>2, <2>3
<1>3. ASSUME NEW t \in Slugs, NEW cap \in QualityCaps, SetQualityCap(t, cap)
      PROVE  rooms'[s].expiresAt = rooms'[s].lastActivityAt + ROOM_TTL
  <2> DEFINE room == [rooms[t] EXCEPT !.qualityCap = cap]
  <2>1. room \in StoredRoom
    BY <1>0, <1>3 DEF StoredRoom, SetQualityCap
  <2>2. room.expiresAt = rooms[t].expiresAt /\ room.lastActivityAt = rooms[t].lastActivityAt
    BY <1>0, <1>3 DEF StoredRoom, SetQualityCap
  <2>3. t \in live /\ live' = live /\ rooms' = [rooms EXCEPT ![t] = RecordRoomActivity(t, room)]
    BY <1>3 DEF SetQualityCap
  <2>. HIDE DEF room
  <2>. QED  BY <1>r, <2>1, <2>2, <2>3
<1>4. ASSUME NEW t \in Slugs, NEW mode \in {"open", "lobby"}, ClearPasscode(t, mode)
      PROVE  rooms'[s].expiresAt = rooms'[s].lastActivityAt + ROOM_TTL
  <2> DEFINE room == [rooms[t] EXCEPT !.accessMode = mode, !.passcodeHash = NoPasscode]
  <2>1. room \in StoredRoom
    BY <1>0, <1>4 DEF StoredRoom, ClearPasscode, AccessMode, Hashes
  <2>2. room.expiresAt = rooms[t].expiresAt /\ room.lastActivityAt = rooms[t].lastActivityAt
    BY <1>0, <1>4 DEF StoredRoom, ClearPasscode
  <2>3. t \in live /\ live' = live /\ rooms' = [rooms EXCEPT ![t] = RecordRoomActivity(t, room)]
    BY <1>4 DEF ClearPasscode
  <2>. HIDE DEF room
  <2>. QED  BY <1>r, <2>1, <2>2, <2>3
<1>5. ASSUME NEW c \in Clients, HashFinish(c)
      PROVE  rooms'[s].expiresAt = rooms'[s].lastActivityAt + ROOM_TTL
  <2> DEFINE t == inflight[c].slug
  <2> DEFINE mode == IF inflight[c].kind = "set-passcode" THEN "passcode" ELSE rooms[t].accessMode
  <2> DEFINE room == [rooms[t] EXCEPT !.accessMode = mode, !.passcodeHash = inflight[c].passcode]
  <2>1. CASE t \in live
    <3>1. inflight[c].passcode \in Hashes
      BY <1>5 DEF HashFinish, TypeOK, Task, Hashes
    <3>2. mode \in AccessMode
      BY <1>0, <2>1 DEF StoredRoom, AccessMode
    <3>3. /\ room \in StoredRoom
          /\ room.expiresAt = rooms[t].expiresAt
          /\ room.lastActivityAt = rooms[t].lastActivityAt
      <4>1. rooms[t] \in StoredRoom
        BY <1>0, <2>1
      <4>. HIDE DEF mode
      <4>. QED  BY <3>1, <3>2, <4>1 DEF StoredRoom
    <3>4. rooms' = [rooms EXCEPT ![t] = RecordRoomActivity(t, room)] /\ live' = live
      BY <1>5, <2>1 DEF HashFinish
    <3>. HIDE DEF room
    <3>. QED  BY <1>r, <2>1, <3>3, <3>4
  <2>2. CASE t \notin live
    BY <1>0, <1>5, <2>2 DEF HashFinish
  <2>. QED  BY <2>1, <2>2
<1>6. CASE RunCleanupTick
  BY <1>0, <1>6 DEF RunCleanupTick
<1>7. CASE UNCHANGED <<rooms, live>>
  BY <1>0, <1>7
<1>8. ASSUME NEW t, CreateSession(t), MarkActive(t), UNCHANGED live
      PROVE  rooms'[s].expiresAt = rooms'[s].lastActivityAt + ROOM_TTL
  BY <1>2, <1>8 DEF CreateSession
<1>. QED
  BY <1>1, <1>3, <1>4, <1>5, <1>6, <1>7, <1>8
  DEF Next, vars, JoinDirect, JoinLobby, JoinPasscodeStart, JoinPasscodeRejected,
      JoinPasscodeAdmitted, JoinPasscodeQueued, JoinPasscodeTurnedAway, PollExpired, Approve,
      Deny, HashStart, Token, Ping, TouchSession, RemoveParticipant, Advance

\* As buildApp registers the routes, only the tick deletes a room, and only one in
\* which nothing was recorded for the whole TTL.
THEOREM RoomsOutliveActivityHolds ==
    ASSUME ~RemovalRegistered
    PROVE  Spec => RoomsOutliveActivity
<1>1. Init => ExpiryFollowsActivity
  BY DEF Init, ExpiryFollowsActivity
<1>2. TypeOK /\ ExpiryFollowsActivity /\ [Next]_vars => ExpiryFollowsActivity'
  BY ExpiryFollowsActivityStep DEF ExpiryFollowsActivity
<1>3. TypeOK /\ ExpiryFollowsActivity /\ [Next]_vars =>
        \A s \in live \ live' : rooms[s].lastActivityAt + ROOM_TTL <= now
  <2>. SUFFICES ASSUME TypeOK, ExpiryFollowsActivity, [Next]_vars, NEW s \in live \ live'
                PROVE  rooms[s].lastActivityAt + ROOM_TTL <= now
    OBVIOUS
  <2>1. rooms[s].expiresAt <= now
    <3>1. CASE RunCleanupTick
      BY <3>1 DEF RunCleanupTick, Expired
    <3>2. CASE live \subseteq live'
      BY <3>2
    <3>. QED
      BY <3>1, <3>2
      DEF Next, vars, roomVars, CreateRoom, JoinDirect, JoinLobby, JoinPasscodeStart,
          JoinPasscodeRejected, JoinPasscodeAdmitted, JoinPasscodeQueued,
          JoinPasscodeTurnedAway, PollExpired, Approve, Deny, SetQualityCap, ClearPasscode,
          HashStart, HashFinish, Token, Ping, TouchSession, RemoveParticipant, Advance
  <2>. QED  BY <2>1 DEF ExpiryFollowsActivity
<1>. QED  BY <1>1, <1>2, <1>3, TypeCorrect, PTL DEF Spec, RoomsOutliveActivity
=============================================================================
