------------------------------- MODULE MCParts -------------------------------
(***************************************************************************)
(* The parts of the program that keep state of their own and share none    *)
(* with the rest: two clients that negotiate P2P, the quality control of   *)
(* one client, the limiter and the chat history in Redis, and the creation *)
(* of rooms with the validators.  Each is checked for itself: a behaviour  *)
(* is of one part, and the variables of the others stay as they are.       *)
(***************************************************************************)
EXTENDS P2PNegotiation, QualityControl, RedisLimiter, RedisChatBuffer, CreateGate

VARIABLES
    part,
    request         \* the request that is validated

partsVars == <<p2pVars, qualityVars, limiterVars, chatVars, createVars, part, request>>

\* A user who set no limits, and one whose own limits are below every preset and below
\* the floors of the ladder and of groups.
Unlimited == [resolution |-> "unset", fps |-> 0, kbps |-> 0, audioOnly |-> FALSE]
Thrifty == [resolution |-> "p240", fps |-> 5, kbps |-> 60, audioOnly |-> FALSE]

MCChoices ==
    {[preset |-> "best_quality", prefs |-> Unlimited, video |-> TRUE],
     [preset |-> "balanced", prefs |-> Thrifty, video |-> FALSE]}

-----------------------------------------------------------------------------
(* Request bodies.                                                         *)

Texts == {Null} \cup [kind : {"string"}, length : {0, 3, 4, 40, 41, 64, 65},
                      padded : BOOLEAN, control : BOOLEAN]

\* A body without the field, or with one of the values.
Maybe(field, values) == {<<>>} \cup [{field} -> values]

Passcodes == Maybe("passcode", Texts \cup {[Null EXCEPT !.kind = "number"]})

CreateRequests ==
    {Spread(Spread(a, b), c) :
        a \in Maybe("accessMode", {"open", "passcode", "private"}),
        b \in Maybe("maxParticipants", {1, 2, 5}) \cup Maybe("allowScreenShare", {"false", "yes"}),
        c \in Passcodes}

UpdateRequests ==
    {Spread(Spread(a, b), c) :
        a \in Maybe("accessMode", {"lobby", "passcode", "private"}),
        b \in Maybe("qualityCap", {"low", "ultra"}), c \in Passcodes}

JoinRequests == Maybe("displayName", Texts)

MediaRequests ==
    {Spread(a, b) :
        a \in Maybe("sessionId", Texts), b \in Maybe("transportPreference", {"p2p", "turn"})}

Requests == [route : {"create"}, body : CreateRequests] \cup [route : {"update"}, body : UpdateRequests]
                \cup [route : {"join"}, body : JoinRequests] \cup [route : {"media"}, body : MediaRequests]

\* What one address sends: nothing valid, an open room, and a room with a passcode.
MCCreateBodies ==
    {[accessMode |-> "passcode"], [accessMode |-> "open"],
     [accessMode |-> "passcode",
      passcode |-> [kind |-> "string", length |-> 4, padded |-> FALSE, control |-> FALSE]]}

ValidatedSound == SoundDecision(request.route, request.body)

-----------------------------------------------------------------------------

othersOfP2P == <<qualityVars, limiterVars, chatVars, createVars, part, request>>
othersOfQuality == <<p2pVars, limiterVars, chatVars, createVars, part, request>>

PartsInit ==
    /\ part \in {"p2p", "quality", "limiter", "chat", "create", "validation"}
    /\ P2PInit /\ QInit /\ LInit /\ ChatInit /\ CreateInit
    /\ part # "quality" => cap = "low" /\ choice.prefs = Unlimited
    /\ request \in IF part = "validation" THEN Requests ELSE {[route |-> "join", body |-> <<>>]}

PartsNext ==
    \/ part = "p2p" /\ P2PNext /\ UNCHANGED othersOfP2P
    \/ part = "quality" /\ QNext /\ UNCHANGED othersOfQuality
    \/ part = "limiter" /\ LNext
       /\ UNCHANGED <<p2pVars, qualityVars, chatVars, createVars, part, request>>
    \/ part = "chat" /\ ChatNext
       /\ UNCHANGED <<p2pVars, qualityVars, limiterVars, createVars, part, request>>
    \/ part = "create" /\ CreateNext
       /\ UNCHANGED <<p2pVars, qualityVars, limiterVars, chatVars, part, request>>

\* What QFairSpec and P2PFairSpec assume.
PartsFairness ==
    /\ \A p \in Peers : WF_p2pVars(part = "p2p" /\ Settling(p) /\ UNCHANGED othersOfP2P)
    /\ \A p \in Peers : WF_p2pVars(part = "p2p" /\ Receiving(p) /\ UNCHANGED othersOfP2P)
    /\ WF_qualityVars(part = "quality" /\ Tick /\ UNCHANGED othersOfQuality)
    /\ WF_qualityVars(part = "quality" /\ Elapse /\ UNCHANGED othersOfQuality)

PartsSpec == PartsInit /\ [][PartsNext]_partsVars /\ PartsFairness
=============================================================================
