---------------------------- MODULE P2PNegotiation ----------------------------
(***************************************************************************)
(* useP2PFallback in the two clients of a room for two, and the relay of   *)
(* the signalling route between their sockets.  Each handler goes on       *)
(* across its awaits while other messages arrive and the user may leave.   *)
(*                                                                         *)
(* Each client falls back once.  RTCPeerConnection is external: what is    *)
(* pending on a connection that is closed never settles, what is called on *)
(* one throws, and candidates are found once a local description is set.   *)
(***************************************************************************)
EXTENDS Naturals, Sequences

CONSTANTS
    Caller, Callee, \* the sessions, in the order of the room: issueP2PToken's roles
    MaxCandidates   \* bound: candidates each side finds

ASSUME P2PAssumption == MaxCandidates \in Nat

Peers == {Caller, Callee}
Other(p) == IF p = Caller THEN Callee ELSE Caller
Candidates == 1..MaxCandidates

VARIABLES
    status,         \* p2pStatus
    config,         \* peers whose sessionConfigRef is set
    ref,            \* peers whose peerConnectionRef holds the connection
    pc,             \* the connection itself: "none", "open" or "closed"
    local, remote,  \* peers whose connection has its local, its remote description
    added,          \* candidates of the other side added to it
    pending,        \* pendingIceCandidatesRef
    initiating,     \* where initiateFallback's task waits
    answering,      \* where the task of the offer or answer received waits
    found,          \* candidates found so far
    channel,        \* frames on their way to a peer
    socket,         \* "new", "registered" or "closed"
    got,            \* history: candidates that arrived since the connection was made
    broken          \* history: peers whose token was refused or whose link failed

p2pVars == <<status, config, ref, pc, local, remote, added, pending, initiating, answering,
             found, channel, socket, got, broken>>

P2PInit ==
    /\ status = [p \in Peers |-> "idle"]
    /\ config = {} /\ ref = {}
    /\ pc = [p \in Peers |-> "none"]
    /\ local = {} /\ remote = {}
    /\ added = [p \in Peers |-> {}] /\ pending = [p \in Peers |-> {}]
    /\ initiating = [p \in Peers |-> "none"] /\ answering = [p \in Peers |-> "none"]
    /\ found = [p \in Peers |-> 0] /\ channel = [p \in Peers |-> <<>>]
    /\ socket = [p \in Peers |-> "new"]
    /\ got = [p \in Peers |-> {}] /\ broken = {}

-----------------------------------------------------------------------------
(* Sockets and the relay.                                                  *)

Register(p) ==
    /\ socket[p] = "new"
    /\ socket' = [socket EXCEPT ![p] = "registered"]
    /\ UNCHANGED <<status, config, ref, pc, local, remote, added, pending, initiating, answering,
                   found, channel, got, broken>>

\* The hook does not open a socket that closed again.
Close(p) ==
    /\ socket[p] = "registered"
    /\ socket' = [socket EXCEPT ![p] = "closed"]
    /\ channel' = [channel EXCEPT ![p] = <<>>]
    /\ UNCHANGED <<status, config, ref, pc, local, remote, added, pending, initiating, answering,
                   found, got, broken>>

\* sendSignalMessage and the relay: a frame is lost unless both sockets are registered.
Send(p, frame) ==
    channel' = IF \A q \in Peers : socket[q] = "registered"
               THEN [channel EXCEPT ![Other(p)] = Append(@, frame)]
               ELSE channel

-----------------------------------------------------------------------------
(* initiateFallback.                                                       *)

CreatePeerConnection(p) ==
    /\ pc' = [pc EXCEPT ![p] = "open"] /\ ref' = ref \cup {p}
    /\ local' = local \ {p} /\ remote' = remote \ {p}
    /\ added' = [added EXCEPT ![p] = {}] /\ got' = [got EXCEPT ![p] = {}]

Initiate(p) ==
    /\ initiating[p] = "none"
    /\ initiating' = [initiating EXCEPT ![p] = "token"]
    /\ status' = [status EXCEPT ![p] = "requesting_token"]
    /\ pending' = [pending EXCEPT ![p] = {}]
    /\ UNCHANGED <<config, ref, pc, local, remote, added, answering, found, channel, socket, got,
                   broken>>

TokenRefused(p) ==
    /\ initiating[p] = "token"
    /\ initiating' = [initiating EXCEPT ![p] = "over"]
    /\ status' = [status EXCEPT ![p] = "failed"] /\ broken' = broken \cup {p}
    /\ UNCHANGED <<config, ref, pc, local, remote, added, pending, answering, found, channel,
                   socket, got>>

\* Only the caller makes a connection; the callee waits for the offer.
TokenGranted(p) ==
    /\ initiating[p] = "token"
    /\ config' = config \cup {p}
    /\ status' = [status EXCEPT ![p] = "negotiating"]
    /\ initiating' = [initiating EXCEPT ![p] = IF p = Caller THEN "offer" ELSE "over"]
    /\ IF p = Caller THEN CreatePeerConnection(p)
                     ELSE UNCHANGED <<pc, ref, local, remote, added, got>>
    /\ UNCHANGED <<pending, answering, found, channel, socket, broken>>

OfferMade(p) ==
    /\ initiating[p] = "offer" /\ pc[p] = "open"
    /\ initiating' = [initiating EXCEPT ![p] = "over"]
    /\ local' = local \cup {p}
    /\ Send(p, [kind |-> "offer"])
    /\ UNCHANGED <<status, config, ref, pc, remote, added, pending, answering, found, socket, got,
                   broken>>

\* onicecandidate.
CandidateFound(p) ==
    /\ p \in local /\ pc[p] = "open" /\ found[p] < MaxCandidates
    /\ found' = [found EXCEPT ![p] = @ + 1]
    /\ Send(p, [kind |-> "ice", n |-> found'[p]])
    /\ UNCHANGED <<status, config, ref, pc, local, remote, added, pending, initiating, answering,
                   socket, got, broken>>

-----------------------------------------------------------------------------
(* handleP2PMessage.                                                       *)

Has(p, kind) == channel[p] # <<>> /\ Head(channel[p]).kind = kind

Take(p, kind) == Has(p, kind) /\ channel' = [channel EXCEPT ![p] = Tail(@)]

Throws(p) == status' = [status EXCEPT ![p] = "failed"]

\* An offer that comes before the token is dropped.
ReceiveOffer(p) ==
    /\ Take(p, "offer")
    /\ IF p \in config
       THEN CreatePeerConnection(p) /\ answering' = [answering EXCEPT ![p] = "setRemote"]
       ELSE UNCHANGED <<pc, ref, local, remote, added, got, answering>>
    /\ UNCHANGED <<status, config, pending, initiating, found, socket, broken>>

ReceiveAnswer(p) ==
    /\ Take(p, "answer")
    /\ \/ p \notin ref /\ UNCHANGED <<status, answering>>
       \/ /\ p \in ref /\ pc[p] = "open"
          /\ answering' = [answering EXCEPT ![p] = "setRemote"] /\ UNCHANGED status
       \/ p \in ref /\ pc[p] # "open" /\ Throws(p) /\ UNCHANGED answering
    /\ UNCHANGED <<config, ref, pc, local, remote, added, pending, initiating, found, socket, got,
                   broken>>

Arrived(p) == got' = [got EXCEPT ![p] = @ \cup {Head(channel[p]).n}]

ReceiveCandidate_PcOnly(p) ==
    /\ Take(p, "ice") /\ Arrived(p)
    /\ IF p \in ref
       THEN added' = [added EXCEPT ![p] = @ \cup {Head(channel[p]).n}] /\ UNCHANGED <<status, pending>>
       ELSE /\ pending' = [pending EXCEPT ![p] = @ \cup {Head(channel[p]).n}]
            /\ UNCHANGED <<status, added>>
    /\ UNCHANGED <<config, ref, pc, local, remote, initiating, answering, found, socket, broken>>

ReceiveCandidate(p) ==
    LET c == Head(channel[p]).n IN
    /\ Take(p, "ice") /\ Arrived(p)
    /\ \/ /\ p \notin ref \/ p \notin remote
          /\ pending' = [pending EXCEPT ![p] = @ \cup {c}] /\ UNCHANGED <<status, added>>
       \/ /\ p \in ref /\ p \in remote /\ pc[p] = "open"
          /\ added' = [added EXCEPT ![p] = @ \cup {c}] /\ UNCHANGED <<status, pending>>
       \/ p \in ref /\ p \in remote /\ pc[p] # "open" /\ Throws(p) /\ UNCHANGED <<added, pending>>
    /\ UNCHANGED <<config, ref, pc, local, remote, initiating, answering, found, socket, broken>>

At(p, stage) == answering[p] = stage /\ pc[p] = "open"

RemoteSet(p) ==
    /\ At(p, "setRemote")
    /\ remote' = remote \cup {p}
    /\ answering' = [answering EXCEPT ![p] = "drain"]
    /\ UNCHANGED <<status, config, ref, pc, local, added, pending, initiating, found, channel, socket,
                   got, broken>>

\* One buffered candidate after the other.
Drain(p) ==
    /\ At(p, "drain")
    /\ \E c \in pending[p] :
        /\ added' = [added EXCEPT ![p] = @ \cup {c}]
        /\ pending' = [pending EXCEPT ![p] = @ \ {c}]
    /\ UNCHANGED <<status, config, ref, pc, local, remote, initiating, answering, found, channel,
                   socket, got, broken>>

Drained_CallerAnswers(p) ==
    /\ At(p, "drain") /\ pending[p] = {}
    /\ answering' = [answering EXCEPT ![p] = "over"]
    /\ UNCHANGED <<status, config, ref, pc, local, remote, added, pending, initiating, found, channel,
                   socket, got, broken>>

\* The callee goes on to its answer.
Drained(p) ==
    /\ At(p, "drain") /\ pending[p] = {}
    /\ answering' = [answering EXCEPT ![p] = IF p = Callee THEN "answer" ELSE "over"]
    /\ UNCHANGED <<status, config, ref, pc, local, remote, added, pending, initiating, found, channel,
                   socket, got, broken>>

AnswerMade(p) ==
    /\ At(p, "answer")
    /\ answering' = [answering EXCEPT ![p] = "over"]
    /\ local' = local \cup {p}
    /\ Send(p, [kind |-> "answer"])
    /\ UNCHANGED <<status, config, ref, pc, remote, added, pending, initiating, found, socket, got,
                   broken>>

-----------------------------------------------------------------------------

\* onconnectionstatechange.
Connected(p) ==
    /\ pc[p] = "open" /\ p \in local /\ p \in remote /\ status[p] # "connected"
    /\ \A q \in Peers : pc[q] = "open" /\ q \in remote
    /\ status' = [status EXCEPT ![p] = "connected"]
    /\ UNCHANGED <<config, ref, pc, local, remote, added, pending, initiating, answering, found,
                   channel, socket, got, broken>>

LinkFailed(p) ==
    /\ pc[p] = "open" /\ p \in local /\ p \in remote /\ status[p] # "failed"
    /\ status' = [status EXCEPT ![p] = "failed"] /\ broken' = broken \cup {p}
    /\ UNCHANGED <<config, ref, pc, local, remote, added, pending, initiating, answering, found,
                   channel, socket, got>>

Cleanup_KeepsRef(p) ==
    /\ status[p] # "idle"
    /\ pc' = [pc EXCEPT ![p] = IF p \in ref THEN "closed" ELSE @]
    /\ config' = config \ {p} /\ pending' = [pending EXCEPT ![p] = {}]
    /\ status' = [status EXCEPT ![p] = "idle"]
    /\ UNCHANGED <<ref, local, remote, added, initiating, answering, found, channel, socket, got, broken>>

\* cleanup, when the user leaves the call.
Cleanup(p) ==
    /\ status[p] # "idle"
    /\ pc' = [pc EXCEPT ![p] = IF p \in ref THEN "closed" ELSE @]
    /\ ref' = ref \ {p}
    /\ config' = config \ {p} /\ pending' = [pending EXCEPT ![p] = {}]
    /\ status' = [status EXCEPT ![p] = "idle"]
    /\ UNCHANGED <<local, remote, added, initiating, answering, found, channel, socket, got, broken>>

Settling(p) ==
    \/ TokenRefused(p) \/ TokenGranted(p) \/ OfferMade(p)
    \/ RemoteSet(p) \/ Drain(p) \/ Drained(p) \/ AnswerMade(p)

Receiving(p) == ReceiveOffer(p) \/ ReceiveAnswer(p) \/ ReceiveCandidate(p)

P2PNext ==
    \E p \in Peers :
        \/ Register(p) \/ Close(p) \/ Initiate(p) \/ CandidateFound(p)
        \/ Settling(p) \/ Receiving(p) \/ Connected(p) \/ LinkFailed(p) \/ Cleanup(p)

P2PSpec == P2PInit /\ [][P2PNext]_p2pVars

\* Requests are answered, promises settle and frames arrive.
P2PFairSpec == P2PSpec /\ \A p \in Peers : WF_p2pVars(Settling(p)) /\ WF_p2pVars(Receiving(p))

-----------------------------------------------------------------------------
(* Properties.                                                             *)

Frames == {[kind |-> "offer"], [kind |-> "answer"]} \cup [kind : {"ice"}, n : Candidates]

Statuses == {"idle", "requesting_token", "negotiating", "connected", "failed"}
InitiateStages == {"none", "token", "offer", "over"}
AnswerStages == {"none", "setRemote", "drain", "answer", "over"}

P2PTypeOK ==
    /\ status \in [Peers -> Statuses] /\ pc \in [Peers -> {"none", "open", "closed"}]
    /\ UNION {config, ref, local, remote, broken} \subseteq Peers
    /\ {added, pending, got} \subseteq [Peers -> SUBSET Candidates]
    /\ initiating \in [Peers -> InitiateStages] /\ answering \in [Peers -> AnswerStages]
    /\ found \in [Peers -> 0..MaxCandidates] /\ channel \in [Peers -> Seq(Frames)]
    /\ socket \in [Peers -> {"new", "registered", "closed"}]

\* A candidate is never given to a connection without a remote description, which would
\* throw: those that overtake the description's promise wait in the buffer.
NoEarlyCandidate == \A p \in Peers : added[p] # {} => p \in remote

\* No candidate that arrived for a connection is lost between the buffer and the
\* connection, whichever of description, drain and arrival comes first.
CandidatesKept == \A p \in Peers : pc[p] = "open" => got[p] \subseteq added[p] \cup pending[p]

\* Both, for they pull in opposite directions: the buffer must hold candidates back long
\* enough and give all of them out.
CandidatesSafe == NoEarlyCandidate /\ CandidatesKept

\* The page says failed only when the server refused or the link broke: neither leaving
\* nor what arrives after it makes a handler throw.
FailureIsReal == \A p \in Peers : status[p] = "failed" => p \in broken

\* An offer that finds the callee ready settles the negotiation, unless somebody leaves
\* or loses the socket or the link.
ReadyOfferSettles ==
    (Has(Callee, "offer") /\ Callee \in config /\ pc[Caller] = "open") ~>
        \/ Caller \in remote /\ Callee \in remote
        \/ \E p \in Peers : p \notin config \/ socket[p] = "closed" \/ p \in broken
=============================================================================
