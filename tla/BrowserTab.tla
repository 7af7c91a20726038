------------------------------ MODULE BrowserTab ------------------------------
(***************************************************************************)
(* One browser tab of the web client: App with its routes, the join form,  *)
(* the waiting room's poll, the tab's session storage and, from CallFlow,  *)
(* the calls.  A click or the Back button renders before anything else     *)
(* happens; a page change that an answer makes is rendered later, and      *)
(* other answers may come in between.                                      *)
(*                                                                         *)
(* The server is what the tab sees of it: it answers a join directly, with *)
(* a lobby request, or not at all, and the host decides requests.          *)
(***************************************************************************)
EXTENDS CallFlow

CONSTANTS
    MaxMoves,       \* bound: clicks, navigations and reloads
    MaxIssued       \* bound: session and request ids the server gives out

ASSUME TabAssumption ==
    /\ MaxMoves \in Nat /\ MaxIssued \in Nat
    /\ None \notin Slugs \cup Sessions \cup [room : Slugs, id : Nat]

VARIABLES
    view,           \* viewState
    pushed,         \* was viewState set since it was last rendered?
    stored,         \* stored[s]: the call session kept under slug s
    waiting,        \* waiting[s]: the lobby request kept under slug s
    joining,        \* slug of the join request under way, or None (isJoining)
    issued,         \* ids given out so far
    requests,       \* lobby requests at the server
    polls,          \* runs of pollStatus
    waitingError,   \* is an error shown on the waiting page?
    roomSummary,    \* does useRoomPageData hold a summary?
    moves

tabVars == <<view, pushed, stored, waiting, joining, issued, requests, polls, waitingError,
             roomSummary, moves>>

vars == <<callVars, tabVars>>

WaitingPage(r) == [kind |-> "waiting", slug |-> r.room, id |-> r.id]

Request(s, n) == [room |-> s, id |-> n]

Requested == {r.request : r \in requests}
StatusOf(q) == (CHOOSE r \in requests : r.request = q).status

Views == {Home} \cup {RoomPage(s) : s \in Slugs} \cup {CallPage(s) : s \in Slugs}
             \cup {WaitingPage(q) : q \in Requested}

\* The tab is opened at the home page or with the link of a room.
Init ==
    /\ CallInit
    /\ view \in {Home} \cup {RoomPage(s) : s \in Slugs} /\ pushed = TRUE
    /\ stored = [s \in Slugs |-> None] /\ waiting = [s \in Slugs |-> None]
    /\ joining = None /\ issued = 0 /\ requests = {}
    /\ polls = {} /\ waitingError = FALSE
    /\ roomSummary = FALSE
    /\ moves = 0

Moving == moves < MaxMoves /\ moves' = moves + 1

-----------------------------------------------------------------------------
(* Rendering.                                                              *)

NewPoll(q) == [request |-> q, cancelled |-> FALSE, stage |-> "asked"]

Cancelled(p) == [p EXCEPT !.cancelled = TRUE]

\* useWaitingRoomState: the cleanup clears the timer and cancels the poll under way; a
\* waiting page whose request the tab does not hold is told to rejoin.
RunWaitingEffect(v) ==
    LET asked == {p \in polls : p.stage = "asked"}
        known == v.kind = "waiting" /\ waiting'[v.slug] = Request(v.slug, v.id)
    IN  IF v = page \/ "waiting" \notin {v.kind, page.kind}
        THEN UNCHANGED <<polls, waitingError>>
        ELSE /\ polls' = {Cancelled(p) : p \in asked}
                             \cup (IF known THEN {NewPoll(waiting'[v.slug])} ELSE {})
             /\ waitingError' = (v.kind = "waiting" /\ ~known)

\* useRoomPageData drops the summary only where no room page follows.
RunRoomEffect(v) ==
    roomSummary' = (roomSummary /\ v.kind = "room")

Loaded(v) == IF v.kind = "call" THEN stored'[v.slug] ELSE None

RunEffects(v, fresh) ==
    /\ RunCallEffects(v, fresh, Loaded(v), roomSummary)
    /\ RunWaitingEffect(v)
    /\ RunRoomEffect(v)

Render ==
    /\ pushed \/ reloaded
    /\ pushed' = FALSE
    /\ UNCHANGED <<view, stored, waiting, joining, issued, requests, moves>>
    /\ RunEffects(view, pushed)

\* What the user does.
Show(v) == view' = v /\ pushed' = FALSE /\ RunEffects(v, TRUE)

Navigate ==
    /\ Moving
    /\ \E v \in Views \ {page} :
        /\ UNCHANGED <<stored, waiting>>
        /\ Show(v)
    /\ UNCHANGED <<joining, issued, requests>>

\* handleLeaveCall; cleanup of the fallback ends with the room that replaces it.
LeaveCall ==
    /\ page.kind = "call" /\ callSession # None
    /\ Moving
    /\ stored' = [stored EXCEPT ![page.slug] = None] /\ UNCHANGED waiting
    /\ Show(RoomPage(page.slug))
    /\ UNCHANGED <<joining, issued, requests>>

BackFromWaiting ==
    /\ page.kind = "waiting"
    /\ Moving
    /\ waiting' = [waiting EXCEPT ![page.slug] = None] /\ UNCHANGED stored
    /\ Show(RoomPage(page.slug))
    /\ UNCHANGED <<joining, issued, requests>>

\* The page is loaded again: what React holds is gone, the storage is not.
Reload ==
    /\ Moving
    /\ page' = Home /\ callSession' = None /\ callStatus' = "idle"
    /\ attempts' = [i \in DOMAIN attempts |->
                        [attempts[i] EXCEPT !.cancelled = TRUE, !.stage = "over"]]
    /\ callRoom' = 0 /\ open' = {}
    /\ reloaded' = FALSE /\ fallback' = FALSE
    /\ pushed' = TRUE
    /\ joining' = None /\ polls' = {} /\ waitingError' = FALSE
    /\ roomSummary' = FALSE
    /\ UNCHANGED <<view, stored, waiting, issued, requests>>

-----------------------------------------------------------------------------
(* Answers.                                                                *)

\* A page change made by an answer: pushRoute, outside any event of the user.
Push(v) == view' = v /\ pushed' = TRUE /\ UNCHANGED <<callVars, polls, waitingError, roomSummary>>

\* The summary of the page's room comes, or the one of the last page goes with an error.
LoadRoom ==
    /\ page.kind = "room"
    /\ roomSummary' = ~roomSummary
    /\ UNCHANGED <<callVars, view, pushed, stored, waiting, joining, issued, requests, polls,
                   waitingError, moves>>

\* The join form is rendered beside a summary only.
SubmitJoin ==
    /\ page.kind = "room" /\ roomSummary /\ joining = None
    /\ Moving
    /\ joining' = page.slug
    /\ UNCHANGED <<callVars, view, pushed, stored, waiting, issued, requests, polls, waitingError,
                   roomSummary>>

\* handleJoinRoom files the answer under the slug it asked with, and shows that room's
\* page whatever the tab shows by then.
JoinDirect ==
    /\ joining # None /\ issued < MaxIssued
    /\ issued' = issued + 1
    /\ stored' = [stored EXCEPT ![joining] = Session(joining, issued', FALSE)]
    /\ Push(CallPage(joining))
    /\ joining' = None
    /\ UNCHANGED <<waiting, requests, moves>>

JoinQueued ==
    /\ joining # None /\ issued < MaxIssued
    /\ issued' = issued + 1
    /\ LET q == Request(joining, issued') IN
        /\ requests' = requests \cup {[request |-> q, status |-> "waiting"]}
        /\ waiting' = [waiting EXCEPT ![joining] = q]
        /\ Push(WaitingPage(q))
    /\ joining' = None
    /\ UNCHANGED <<stored, moves>>

JoinRefused ==
    /\ joining # None
    /\ joining' = None
    /\ UNCHANGED <<callVars, view, pushed, stored, waiting, issued, requests, polls, waitingError,
                   roomSummary, moves>>

Decide ==
    /\ \E r \in {q \in requests : q.status = "waiting"}, to \in {"approved", "denied"} :
        requests' = (requests \ {r}) \cup {[r EXCEPT !.status = to]}
    /\ UNCHANGED <<callVars, view, pushed, stored, waiting, joining, issued, polls, waitingError,
                   roomSummary, moves>>

PollFails(p) ==
    /\ p \in polls /\ p.stage = "asked"
    /\ polls' = polls \ {p}
    /\ waitingError' = (waitingError \/ ~p.cancelled)
    /\ UNCHANGED <<callVars, view, pushed, stored, waiting, joining, issued, requests, roomSummary,
                   moves>>

PollIgnored(p) ==
    /\ p \in polls /\ p.stage = "asked" /\ p.cancelled
    /\ polls' = polls \ {p}
    /\ UNCHANGED <<callVars, view, pushed, stored, waiting, joining, issued, requests, waitingError,
                   roomSummary, moves>>

PollUndecided_Stops(p) ==
    /\ p \in polls /\ p.stage = "asked" /\ ~p.cancelled /\ StatusOf(p.request) # "approved"
    /\ polls' = polls \ {p}
    /\ UNCHANGED <<callVars, view, pushed, stored, waiting, joining, issued, requests, waitingError,
                   roomSummary, moves>>

\* Waiting: ask again in three seconds.  Denied: that is all.
PollUndecided(p) ==
    /\ p \in polls /\ p.stage = "asked" /\ ~p.cancelled /\ StatusOf(p.request) # "approved"
    /\ polls' = (polls \ {p}) \cup (IF StatusOf(p.request) = "waiting"
                                     THEN {[p EXCEPT !.stage = "timer"]} ELSE {})
    /\ UNCHANGED <<callVars, view, pushed, stored, waiting, joining, issued, requests, waitingError,
                   roomSummary, moves>>

PollTimer(p) ==
    /\ p \in polls /\ p.stage = "timer"
    /\ polls' = (polls \ {p}) \cup {[p EXCEPT !.stage = "asked"]}
    /\ UNCHANGED <<callVars, view, pushed, stored, waiting, joining, issued, requests, waitingError,
                   roomSummary, moves>>

PollApproved_Unchecked(p) ==
    LET s == p.request.room IN
    /\ p \in polls /\ p.stage = "asked" /\ StatusOf(p.request) = "approved"
    /\ waiting' = [waiting EXCEPT ![s] = None]
    /\ stored' = [stored EXCEPT ![s] = Session(s, p.request.id, TRUE)]
    /\ view' = CallPage(s) /\ pushed' = TRUE
    /\ polls' = polls \ {p}
    /\ UNCHANGED <<callVars, joining, issued, requests, waitingError, roomSummary,
                   moves>>

\* waitingApprovalHandler.
PollApproved(p) ==
    LET s == p.request.room IN
    /\ p \in polls /\ p.stage = "asked" /\ ~p.cancelled /\ StatusOf(p.request) = "approved"
    /\ waiting' = [waiting EXCEPT ![s] = None]
    /\ stored' = [stored EXCEPT ![s] = Session(s, p.request.id, TRUE)]
    /\ view' = CallPage(s) /\ pushed' = TRUE
    /\ polls' = polls \ {p}
    /\ UNCHANGED <<callVars, joining, issued, requests, waitingError, roomSummary,
                   moves>>

-----------------------------------------------------------------------------

Call ==
    /\ \E i \in DOMAIN attempts : Connecting(i) \/ Disconnected(i)
    /\ UNCHANGED tabVars

Poll ==
    \E p \in polls : PollFails(p) \/ PollIgnored(p) \/ PollUndecided(p) \/ PollTimer(p) \/ PollApproved(p)

Next ==
    \/ Render \/ Navigate \/ LeaveCall \/ BackFromWaiting \/ Reload
    \/ LoadRoom \/ SubmitJoin \/ JoinDirect \/ JoinQueued \/ JoinRefused
    \/ Decide \/ Poll \/ Call

\* The browser renders what was set, answers come or fail, and timers fire.
Fairness ==
    /\ WF_vars(Render)
    /\ WF_vars(Poll)
    /\ \A i \in 1..(2 * MaxMoves + 2 * MaxIssued) : WF_vars(Connecting(i) /\ UNCHANGED tabVars)

Spec == Init /\ [][Next]_vars
FairSpec == Spec /\ Fairness

-----------------------------------------------------------------------------
(* Properties.                                                             *)

TypeOK ==
    /\ CallTypeOK
    /\ {page, view} \subseteq Views
    /\ \A s \in Slugs : stored[s] \in Sessions \cup {None}
    /\ \A s \in Slugs : waiting[s] \in Requested \cup {None}
    /\ joining \in Slugs \cup {None}
    /\ \A p \in polls : p.request \in Requested /\ p.stage \in {"asked", "timer"}
    /\ roomSummary \in BOOLEAN

\* The host's approval takes a guest into the call only from the waiting page of that
\* request: a guest who went elsewhere while a poll was under way is left there.
ApprovalOnItsPage ==
    [][\A s \in Slugs :
        stored'[s] # stored[s] /\ stored'[s] # None /\ stored'[s].byHost =>
            page = WaitingPage(Request(s, stored'[s].id))]_vars

\* A poll that is not cancelled is for the page that is shown.
PollsForPage == \A p \in polls : ~p.cancelled => page = WaitingPage(p.request)

\* A guest who stays is told: once the host approved, the waiting page goes over to the
\* call or shows an error.
ApprovedIsTold ==
    \A s \in Slugs, n \in 1..MaxIssued :
        (page = WaitingPage(Request(s, n)) /\ [request |-> Request(s, n), status |-> "approved"] \in requests)
            ~> (view # WaitingPage(Request(s, n)) \/ waitingError)

\* A call page with a session comes to a call or to an error: no attempt is cancelled
\* without another in its place.
CallSettles ==
    (page.kind = "call" /\ callSession # None) ~>
        (page.kind # "call" \/ callSession = None \/ callStatus \in {"idle", "connected"})

\* A call page never waits for nothing: while it says that it asks for the token or
\* connects, an attempt that is still wanted is under way, or the effects are due again.
CallIsPursued ==
    page.kind = "call" /\ callSession # None /\ callStatus \in {"requesting_token", "connecting"} =>
        \/ reloaded
        \/ \E i \in DOMAIN attempts : attempts[i].stage # "over" /\ ~attempts[i].cancelled

\* What the call page says of the call is so: connected means that a room is, and anything
\* short of it that somebody is at work on it.
CallStatusIsTrue == ConnectedIsOpen /\ CallIsPursued

\* A waiting page never waits for nothing either: unless it shows an error, the guest was denied, or another page
\* is about to be shown, the request of this very page is polled.
GuestIsPolled ==
    page.kind = "waiting" /\ view = page /\ ~waitingError =>
        LET q == Request(page.slug, page.id) IN
        \/ [request |-> q, status |-> "denied"] \in requests
        \/ \E p \in polls : p.request = q /\ ~p.cancelled

\* In a room for two, as every room here is, an SFU that fails leads on to P2P: an attempt
\* that is still wanted and fails to connect or to publish initiates the fallback.
FallbackOffered ==
    [][\A i \in DOMAIN attempts :
        /\ page' = page /\ ~attempts[i].cancelled
        /\ attempts[i].stage \in {"connecting", "publishing"}
        /\ attempts'[i].stage = "over" /\ i \notin open'
        => fallback']_vars
=============================================================================
