---------------------------- MODULE RoomValidation ----------------------------
(***************************************************************************)
(* The validators of request bodies.  A body is a record that has a field  *)
(* only if the client sent it.  Of a text what the validators look at      *)
(* counts: whether it is a string, null or something else, how long it is  *)
(* once trimmed, whether trimming takes anything off, and whether it holds *)
(* a control character.                                                    *)
(***************************************************************************)
EXTENDS Integers

AccessModes == {"open", "lobby", "passcode"}
QualityCaps == {"low", "balanced", "high"}

Null == [kind |-> "null", length |-> 0, padded |-> FALSE, control |-> FALSE]

Sent(body, field) == field \in DOMAIN body
Get(body, field, default) == IF Sent(body, field) THEN body[field] ELSE default

\* The object spread: the fields of a body, and those that are given in place of its own.
Spread(body, given) ==
    [f \in DOMAIN body \cup DOMAIN given |-> IF f \in DOMAIN given THEN given[f] ELSE body[f]]

Refused == [ok |-> FALSE]
Accepted(value) == [ok |-> TRUE, value |-> value]

\* trim(): the text itself stays, so a length is what it was.
Trim(t) == [t EXCEPT !.padded = FALSE]

\* Null and the empty string are missing; 64 characters are the most.
ValidPasscode(t) ==
    t.kind = "string" /\ ~t.padded /\ ~t.control /\ t.length \in 4..64

-----------------------------------------------------------------------------

Filled(body) ==
    [accessMode |-> Get(body, "accessMode", "open"),
     maxParticipants |-> Get(body, "maxParticipants", 4),
     qualityCap |-> Get(body, "qualityCap", "balanced"),
     allowScreenShare |-> Get(body, "allowScreenShare", "true")]

\* A passcode is looked at only for a room that has one.
ValidRoom(room, passcode) ==
    /\ room.accessMode \in AccessModes
    /\ room.maxParticipants \in 2..4
    /\ room.qualityCap \in QualityCaps
    /\ room.allowScreenShare \in {"true", "false"}
    /\ room.accessMode = "passcode" => ValidPasscode(passcode)

ValidateCreate_KeepsStray(body) ==
    LET room == Filled(body)
        passcode == Get(body, "passcode", Null)
    IN  IF ~ValidRoom(room, passcode) THEN Refused
        ELSE Accepted(IF Sent(body, "passcode") THEN Spread(room, [passcode |-> passcode]) ELSE room)

\* A passcode sent for a room of another mode is ignored.
ValidateCreate(body) ==
    LET room == Filled(body)
        passcode == Get(body, "passcode", Null)
    IN  IF ~ValidRoom(room, passcode) THEN Refused
        ELSE Accepted(IF room.accessMode = "passcode" THEN Spread(room, [passcode |-> passcode]) ELSE room)

\* Access mode and passcode come before the cap, which is dropped when one of them is sent,
\* but must be valid even so.
ValidateUpdate(body) ==
    LET passcode == Get(body, "passcode", Null)
        ofAccess == Sent(body, "accessMode") \/ Sent(body, "passcode")
        clears == Sent(body, "accessMode") /\ body.accessMode # "passcode"
    IN  IF Sent(body, "qualityCap") /\ body.qualityCap \notin QualityCaps THEN Refused
        ELSE CASE ~ofAccess /\ ~Sent(body, "qualityCap") -> Refused
               [] ~ofAccess /\ Sent(body, "qualityCap") ->
                      Accepted([kind |-> "set-quality-cap", qualityCap |-> body.qualityCap])
               [] ofAccess /\ clears ->
                      IF body.accessMode \in AccessModes
                      THEN Accepted([kind |-> "clear-passcode", accessMode |-> body.accessMode])
                      ELSE Refused
               [] ofAccess /\ ~clears ->
                      IF ValidPasscode(passcode)
                      THEN Accepted([kind |-> IF Sent(body, "accessMode") THEN "set-passcode" ELSE "rotate",
                                     passcode |-> passcode])
                      ELSE Refused

ValidateJoin(body) ==
    LET displayName == Trim(Get(body, "displayName", Null)) IN
    IF displayName.length \in 1..40
    THEN Accepted(Spread(body, [displayName |-> displayName])) ELSE Refused

ValidateMediaToken(body) ==
    LET sessionId == Trim(Get(body, "sessionId", Null))
        transport == Get(body, "transportPreference", "sfu")
    IN  IF sessionId.length > 0 /\ transport \in {"sfu", "p2p"}
        THEN Accepted(Spread(body, [sessionId |-> sessionId, transportPreference |-> transport]))
        ELSE Refused
-----------------------------------------------------------------------------
(* Properties.                                                             *)

\* What a decision must be, whatever the order of the checks that came to it: a new room
\* is in a mode that its passcode fits, and otherwise as asked or as by default; an update
\* is one that its body asks for, and a passcode is never stored for an open or lobby
\* room; a name and a session id are not blank.
SoundDecision(route, body) ==
    LET d == CASE route = "create" -> ValidateCreate(body)
               [] route = "update" -> ValidateUpdate(body)
               [] route = "join" -> ValidateJoin(body)
               [] route = "media" -> ValidateMediaToken(body)
        v == d.value
    IN  d.ok =>
        CASE route = "create" ->
                 /\ v.accessMode = "passcode" <=> Sent(v, "passcode")
                 /\ Sent(v, "passcode") => ~v.passcode.padded /\ v.passcode.length >= 4
                 /\ \A f \in DOMAIN body \ {"passcode"} : v[f] = body[f]
          [] route = "update" ->
                 /\ Sent(v, "passcode") => v.passcode = body.passcode /\ v.passcode.length >= 4
                 /\ v.kind = "clear-passcode" => body.accessMode \in {"open", "lobby"}
                 /\ v.kind = "set-passcode" => body.accessMode = "passcode"
                 /\ v.kind = "rotate" => ~Sent(body, "accessMode")
          [] route = "join" -> v.displayName.length \in 1..40 /\ ~v.displayName.padded
          [] route = "media" -> v.sessionId.length > 0 /\ Sent(v, "transportPreference")
=============================================================================
