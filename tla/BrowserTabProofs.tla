--------------------------- MODULE BrowserTabProofs ---------------------------
(***************************************************************************)
(* Proofs about the calls of a browser tab, for any number of rooms, moves *)
(* of the user and answers: one inductive invariant of CallFlow, kept by   *)
(* each of its actions, and one of BrowserTab, which says what the effects *)
(* are run with; and, with these, that no call page and no waiting page    *)
(* waits for nothing.                                                      *)
(***************************************************************************)
EXTENDS BrowserTab, TLAPS

Attempt == [slug : Slugs, session : Sessions, roomOfTwo : BOOLEAN, cancelled : BOOLEAN,
            stage : Stages]

AttemptsOK ==
    /\ attempts \in Seq(Attempt)
    /\ callRoom \in {0} \cup DOMAIN attempts
    /\ open \subseteq DOMAIN attempts

\* The attempts that may still become the call: the one whose room is held, and those
\* that are wanted and under way.
Counts(i) == i = callRoom \/ (attempts[i].stage # "over" /\ ~attempts[i].cancelled)

\* Beyond NoRoomLeaks, OnlyThisCall and ConnectedIsOpen themselves: the room held is of an
\* attempt that ended; one that publishes has an open room; past the token the session
\* is of the page's room; and an attempt of that kind means that the page has a session.
AttemptInv(i) ==
    /\ i = callRoom => attempts[i].stage = "over"
    /\ attempts[i].stage = "publishing" => i \in open
    /\ i = callRoom \/ attempts[i].stage \in {"connecting", "publishing"} =>
           attempts[i].session.room = attempts[i].slug
    /\ Counts(i) /\ attempts[i].session.room = attempts[i].slug => callSession # None
    /\ i \in open => i = callRoom \/ attempts[i].stage = "publishing"
    /\ Counts(i) => /\ page = CallPage(attempts[i].slug)
                    /\ ~reloaded => attempts[i].session = callSession

CallInv == AttemptsOK /\ (\A i \in DOMAIN attempts : AttemptInv(i)) /\ ConnectedIsOpen

LobbyRequests == [room : Slugs, id : Nat]

IsPage(v) ==
    /\ v.kind # "home" => v.slug \in Slugs
    /\ v.kind = "call" => v = CallPage(v.slug)
    /\ v.kind = "waiting" => v.id \in Nat /\ v = WaitingPage(Request(v.slug, v.id))

Polled == [request : LobbyRequests, cancelled : BOOLEAN, stage : {"asked", "timer"}]

PollInv(p) == p \in Polled /\ (~p.cancelled => page = WaitingPage(p.request))

\* The tab: what was set is rendered before anything rests on it; a session kept under a
\* slug is of that room; and the session of a call page is of its room, under whose slug
\* there still is one.  A poll that is not cancelled is for the page that is shown.
TabInv ==
    /\ pushed \in BOOLEAN /\ reloaded \in BOOLEAN
    /\ ~pushed => view = page
    /\ stored \in [Slugs -> Sessions \cup {None}]
    /\ \A s \in Slugs : stored[s] # None => stored[s].room = s
    /\ callSession \in Sessions \cup {None}
    /\ callSession # None => page = CallPage(callSession.room) /\ stored[callSession.room] # None
    /\ joining \in Slugs \cup {None}
    /\ issued \in Nat /\ roomSummary \in BOOLEAN
    /\ IsPage(view) /\ IsPage(page)
    /\ requests \subseteq [request : LobbyRequests, status : {"waiting", "approved", "denied"}]
    /\ \A p \in polls : PollInv(p)

-----------------------------------------------------------------------------
(* The effects of a render.                                                *)

LEMMA StoppedTyped ==
    ASSUME attempts \in Seq(Attempt)
    PROVE  LET stopped == [i \in DOMAIN attempts |-> [attempts[i] EXCEPT !.cancelled = TRUE]]
           IN  stopped \in Seq(Attempt) /\ Len(stopped) = Len(attempts)
<1>. DEFINE stopped == [i \in DOMAIN attempts |-> [attempts[i] EXCEPT !.cancelled = TRUE]]
            n == Len(attempts)
<1>1. n \in Nat /\ DOMAIN attempts = 1..n /\ \A i \in 1..n : attempts[i] \in Attempt
  OBVIOUS
<1>2. \A a \in Attempt : [a EXCEPT !.cancelled = TRUE] \in Attempt
  BY DEF Attempt
<1>3. stopped \in [1..n -> Attempt]
  BY <1>1, <1>2
<1>4. stopped \in Seq(Attempt) /\ Len(stopped) = n
  BY <1>1, <1>3
<1>. QED  BY <1>4

\* What the attempts are once the effects have run: all earlier ones cancelled, and at
\* most a new one.
LEMMA EffectsTyped ==
    ASSUME AttemptsOK, callSession \in Sessions \cup {None}, NEW v, IsPage(v), NEW fresh \in BOOLEAN,
           NEW loaded, NEW two \in BOOLEAN, fresh \/ reloaded, RunCallEffects(v, fresh, loaded, two)
    PROVE  /\ AttemptsOK' /\ callRoom' = 0 /\ 0 \notin DOMAIN attempts'
           /\ \A i \in DOMAIN attempts :
                /\ i \in DOMAIN attempts'
                /\ attempts'[i] = [attempts[i] EXCEPT !.cancelled = TRUE]
                /\ attempts[i] \in Attempt
           /\ \A i \in DOMAIN attempts' \ DOMAIN attempts :
                /\ v.kind = "call" /\ callSession # None
                /\ attempts'[i] = NewAttempt(v.slug, callSession, two)
<1>. DEFINE stopped == [i \in DOMAIN attempts |-> [attempts[i] EXCEPT !.cancelled = TRUE]]
            n == Len(attempts)
            new == NewAttempt(v.slug, callSession, two)
            starts == v.kind = "call" /\ callSession # None
<1>1. /\ n \in Nat /\ DOMAIN attempts = 1..n
      /\ stopped \in Seq(Attempt) /\ Len(stopped) = n /\ DOMAIN stopped = 1..n
      /\ \A i \in 1..n : stopped[i] = [attempts[i] EXCEPT !.cancelled = TRUE] /\ attempts[i] \in Attempt
  <2>1. n \in Nat /\ DOMAIN attempts = 1..n /\ \A i \in 1..n : attempts[i] \in Attempt
    BY DEF AttemptsOK
  <2>2. stopped \in Seq(Attempt) /\ Len(stopped) = n
    BY StoppedTyped DEF AttemptsOK
  <2>3. DOMAIN stopped = DOMAIN attempts
    OBVIOUS
  <2>. QED  BY <2>1, <2>2, <2>3
<1>2. /\ attempts' = IF starts THEN Append(stopped, new) ELSE stopped
      /\ open' = open \ {callRoom} /\ callRoom' = 0
  BY Zenon DEF RunCallEffects
<1>3. open' \subseteq 1..n
  BY <1>1, <1>2 DEF AttemptsOK
<1>. HIDE DEF stopped, n
<1>4. CASE starts
  <2>1. v.slug \in Slugs /\ callSession \in Sessions
    BY <1>4 DEF IsPage, CallPage
  <2>2. new \in Attempt
    BY <2>1 DEF NewAttempt, Attempt, Stages
  <2>. HIDE DEF new
  <2>3. /\ Append(stopped, new) \in Seq(Attempt)
        /\ DOMAIN Append(stopped, new) = 1..(n + 1)
        /\ Append(stopped, new)[n + 1] = new
        /\ \A i \in 1..n : Append(stopped, new)[i] = stopped[i]
    BY <1>1, <2>2
  <2>4. attempts' = Append(stopped, new)
    BY <1>2, <1>4
  <2>5. AttemptsOK'
    BY <1>1, <1>2, <1>3, <2>3, <2>4 DEF AttemptsOK
  <2>6. \A i \in DOMAIN attempts' \ DOMAIN attempts : i = n + 1
    BY <1>1, <2>3, <2>4
  <2>7. \A i \in DOMAIN attempts : i \in DOMAIN attempts' /\ attempts'[i] = stopped[i]
    BY <1>1, <2>3, <2>4
  <2>8. 0 \notin DOMAIN attempts'
    BY <1>1, <2>3, <2>4
  <2>. QED  BY <1>1, <1>2, <1>4, <2>3, <2>4, <2>5, <2>6, <2>7, <2>8 DEF new
<1>5. CASE ~starts
  <2>1. attempts' = stopped
    BY <1>2, <1>5
  <2>2. AttemptsOK'
    BY <1>1, <1>2, <1>3, <2>1 DEF AttemptsOK
  <2>3. DOMAIN attempts' = DOMAIN attempts /\ 0 \notin DOMAIN attempts
    BY <1>1, <2>1
  <2>4. \A i \in DOMAIN attempts :
          attempts'[i] = [attempts[i] EXCEPT !.cancelled = TRUE] /\ attempts[i] \in Attempt
    BY <1>1, <2>1
  <2>. QED  BY <1>2, <2>2, <2>3, <2>4
<1>. QED  BY <1>4, <1>5

\* The effects keep the invariant when they are run with what the tab runs them with: a
\* session that was just loaded is of a call page, and the page of the session shown so
\* far still has one.
LEMMA EffectsKeep ==
    ASSUME CallInv, callSession \in Sessions \cup {None}, NEW v, IsPage(v), NEW fresh \in BOOLEAN,
           NEW loaded, NEW two \in BOOLEAN, fresh \/ reloaded, RunCallEffects(v, fresh, loaded, two),
           ~fresh => v = page,
           fresh /\ loaded # None => v.kind = "call",
           fresh /\ v.kind = "call" /\ callSession # None /\ callSession.room = v.slug => loaded # None
    PROVE  CallInv'
<1>1. /\ page' = v /\ callSession' = IF fresh THEN loaded ELSE callSession
      /\ reloaded' = (fresh /\ {callSession, loaded} # {None})
      /\ open' = open \ {callRoom} /\ callRoom' = 0
  BY Zenon DEF RunCallEffects
<1>2. callStatus' = IF v.kind = "call" /\ callSession # None THEN "requesting_token"
                    ELSE IF fresh /\ loaded = None THEN "idle" ELSE callStatus
  BY Zenon DEF RunCallEffects
<1>3. /\ AttemptsOK' /\ 0 \notin DOMAIN attempts'
      /\ \A i \in DOMAIN attempts :
            /\ i \in DOMAIN attempts'
            /\ attempts'[i] = [attempts[i] EXCEPT !.cancelled = TRUE]
            /\ attempts[i] \in Attempt
      /\ \A i \in DOMAIN attempts' \ DOMAIN attempts :
            /\ v.kind = "call" /\ callSession # None
            /\ attempts'[i] = NewAttempt(v.slug, callSession, two)
  BY EffectsTyped DEF CallInv
<1>4. ASSUME NEW i \in DOMAIN attempts'  PROVE AttemptInv(i)'
  <2>1. CASE i \in DOMAIN attempts
    <3>1. /\ attempts'[i].stage = attempts[i].stage /\ attempts'[i].cancelled = TRUE
          /\ attempts'[i].slug = attempts[i].slug /\ attempts'[i].session = attempts[i].session
      BY <1>3, <2>1 DEF Attempt
    <3>2. ~Counts(i)' /\ i # callRoom'
      BY <1>1, <1>3, <3>1 DEF Counts
    <3>3. AttemptInv(i)
      BY <2>1 DEF CallInv
    <3>4. attempts[i].stage = "publishing" => i \in open'
      BY <1>1, <3>3 DEF AttemptInv
    <3>. QED  BY <1>1, <3>1, <3>2, <3>3, <3>4 DEF AttemptInv
  <2>2. CASE i \notin DOMAIN attempts
    <3>1. /\ v.kind = "call" /\ callSession # None
          /\ attempts'[i] = NewAttempt(v.slug, callSession, two)
      BY <1>3, <2>2
    <3>2. /\ attempts'[i].stage = "token" /\ attempts'[i].slug = v.slug
          /\ attempts'[i].session = callSession
      BY <3>1 DEF NewAttempt
    <3>3. i # callRoom' /\ i \notin open'
      BY <1>1, <1>3, <2>2 DEF CallInv, AttemptsOK
    <3>4. page' = CallPage(v.slug)
      BY <1>1, <3>1 DEF IsPage, CallPage
    <3>5. callSession.room = v.slug => callSession' # None
      BY <1>1, <3>1
    <3>6. ~reloaded' => callSession' = callSession
      BY <1>1, <3>1
    <3>. QED  BY <3>2, <3>3, <3>4, <3>5, <3>6 DEF AttemptInv
  <2>. QED  BY <2>1, <2>2
<1>5. ConnectedIsOpen'
  <2>1. callStatus = "connected" => callSession # None /\ page.kind = "call"
    <3>. HAVE callStatus = "connected"
    <3>1. callRoom \in DOMAIN attempts
      BY DEF CallInv, ConnectedIsOpen, AttemptsOK
    <3>2. AttemptInv(callRoom)
      BY <3>1 DEF CallInv
    <3>. QED  BY <3>2 DEF AttemptInv, Counts, CallPage
  <2>2. callStatus' # "connected"
    BY <1>2, <2>1
  <2>. QED  BY <2>2 DEF ConnectedIsOpen
<1>. QED  BY <1>3, <1>4, <1>5 DEF CallInv

-----------------------------------------------------------------------------
(* connectCall.                                                            *)

LEMMA MoveToTyped ==
    ASSUME AttemptsOK, NEW i \in DOMAIN attempts, NEW stage \in Stages, MoveTo(i, stage)
    PROVE  /\ attempts' \in Seq(Attempt) /\ DOMAIN attempts' = DOMAIN attempts
           /\ attempts'[i].stage = stage
           /\ attempts'[i].slug = attempts[i].slug /\ attempts'[i].session = attempts[i].session
           /\ attempts'[i].cancelled = attempts[i].cancelled
           /\ \A j \in DOMAIN attempts \ {i} : attempts'[j] = attempts[j]
           /\ i # 0
<1>. DEFINE n == Len(attempts)
            moved == [attempts[i] EXCEPT !.stage = stage]
<1>1. n \in Nat /\ DOMAIN attempts = 1..n /\ \A j \in 1..n : attempts[j] \in Attempt
  BY DEF AttemptsOK
<1>2. attempts' = [attempts EXCEPT ![i] = moved]
  BY DEF MoveTo
<1>3. attempts[i] \in Attempt
  BY <1>1
<1>4. /\ moved \in Attempt /\ moved.stage = stage /\ moved.slug = attempts[i].slug
      /\ moved.session = attempts[i].session /\ moved.cancelled = attempts[i].cancelled
  BY <1>3 DEF Attempt
<1>. HIDE DEF moved, n
<1>5. attempts' \in [1..n -> Attempt]
  <2>1. attempts \in [1..n -> Attempt]
    BY <1>1 DEF AttemptsOK
  <2>. QED  BY <1>1, <1>2, <1>4, <2>1
<1>6. attempts' \in Seq(Attempt)
  BY <1>1, <1>5
<1>. QED  BY <1>1, <1>2, <1>4, <1>5, <1>6

\* What a step of attempt i must see to, for itself and for the others.
LEMMA MoveKeeps ==
    ASSUME CallInv, NEW i \in DOMAIN attempts, NEW stage \in Stages, MoveTo(i, stage),
           UNCHANGED <<page, callSession, reloaded>>,
           open' \subseteq DOMAIN attempts, callRoom' \in {callRoom, i},
           stage = "publishing" => i \in open',
           stage \in {"connecting", "publishing"} => attempts[i].session.room = attempts[i].slug,
           stage # "over" => attempts[i].stage # "over",
           callRoom' = i => stage = "over" /\ ~attempts[i].cancelled
                            /\ attempts[i].stage = "publishing",
           i \in open' => i = callRoom' \/ stage = "publishing",
           open' \ {i} \subseteq open,
           callRoom' # callRoom => open' = open \ {callRoom},
           callRoom' = callRoom => open \ {i} \subseteq open',
           ConnectedIsOpen'
    PROVE  CallInv'
<1>1. AttemptsOK
  BY DEF CallInv
<1>2. /\ attempts' \in Seq(Attempt) /\ DOMAIN attempts' = DOMAIN attempts
      /\ attempts'[i].stage = stage
      /\ attempts'[i].slug = attempts[i].slug /\ attempts'[i].session = attempts[i].session
      /\ attempts'[i].cancelled = attempts[i].cancelled
      /\ \A j \in DOMAIN attempts \ {i} : attempts'[j] = attempts[j]
  BY <1>1, MoveToTyped
<1>3. AttemptsOK'
  BY <1>1, <1>2 DEF AttemptsOK
<1>4. AttemptInv(i)'
  <2>1. AttemptInv(i)
    BY DEF CallInv
  <2>2. Counts(i)' => Counts(i)
    BY <1>2 DEF Counts
  <2>. QED  BY <1>2, <2>1, <2>2 DEF AttemptInv, Counts
<1>5. ASSUME NEW j \in DOMAIN attempts, j # i  PROVE AttemptInv(j)'
  <2>1. AttemptInv(j) /\ attempts'[j] = attempts[j]
    BY <1>2, <1>5 DEF CallInv
  <2>2. Counts(j)' => Counts(j)
    BY <1>5, <2>1 DEF Counts
  <2>3. attempts[j].stage = "publishing" => j \in open'
    BY <1>5, <2>1 DEF AttemptInv
  <2>4. j \in open' => j = callRoom' \/ attempts[j].stage = "publishing"
    BY <1>5, <2>1 DEF AttemptInv
  <2>. QED  BY <1>5, <2>1, <2>2, <2>3, <2>4 DEF AttemptInv
<1>. QED  BY <1>2, <1>3, <1>4, <1>5 DEF CallInv

LEMMA ConnectingKeeps ==
    ASSUME CallInv, NEW i \in DOMAIN attempts, Connecting(i) \/ Disconnected(i)
    PROVE  CallInv' /\ UNCHANGED <<page, callSession, reloaded>>
<1>. USE DEF Stages
<1>0. AttemptInv(i) /\ AttemptsOK /\ ConnectedIsOpen
  BY DEF CallInv
<1>1. CASE TokenRefused(i)
  <2>1. /\ MoveTo(i, "over") /\ UNCHANGED <<page, callSession, callRoom, open, reloaded>>
        /\ callStatus' \in {callStatus, "idle"} /\ attempts[i].stage = "token"
    BY <1>1 DEF TokenRefused, GiveUp, At
  <2>2. i # callRoom /\ i \notin open /\ ConnectedIsOpen'
    BY <1>0, <2>1 DEF AttemptInv, ConnectedIsOpen
  <2>. QED  BY <1>0, <2>1, <2>2, MoveKeeps DEF AttemptsOK
<1>2. CASE TokenGranted(i)
  <2>1. PICK stage \in {"over", "connecting"} : MoveTo(i, stage)
    BY <1>2 DEF TokenGranted
  <2>2. /\ UNCHANGED <<page, callSession, callRoom, open, reloaded>>
        /\ callStatus' \in {callStatus, "connecting"} /\ attempts[i].stage = "token"
        /\ attempts[i].session.room = attempts[i].slug
    BY <1>2 DEF TokenGranted, At
  <2>3. i # callRoom /\ i \notin open /\ ConnectedIsOpen'
    BY <1>0, <2>2 DEF AttemptInv, ConnectedIsOpen
  <2>. QED  BY <1>0, <2>1, <2>2, <2>3, MoveKeeps DEF AttemptsOK
<1>3. CASE SfuConnected(i)
  <2>1. /\ MoveTo(i, "publishing") /\ UNCHANGED <<page, callSession, callStatus, callRoom, reloaded>>
        /\ open' = open \cup {i} /\ attempts[i].stage = "connecting"
    BY <1>3 DEF SfuConnected, At
  <2>2. i # callRoom /\ attempts[i].session.room = attempts[i].slug /\ ConnectedIsOpen'
    BY <1>0, <2>1 DEF AttemptInv, ConnectedIsOpen
  <2>. QED  BY <1>0, <2>1, <2>2, MoveKeeps DEF AttemptsOK
<1>4. CASE SfuFailed(i)
  <2>1. /\ MoveTo(i, "over") /\ UNCHANGED <<page, callSession, callRoom, reloaded>>
        /\ open' = open \ {i} /\ attempts[i].stage \in {"connecting", "publishing"}
        /\ callStatus' \in {callStatus, "idle"}
    BY <1>4 DEF SfuFailed, GiveUp, At
  <2>2. i # callRoom /\ ConnectedIsOpen'
    BY <1>0, <2>1 DEF AttemptInv, ConnectedIsOpen
  <2>. QED  BY <1>0, <2>1, <2>2, MoveKeeps DEF AttemptsOK
<1>5. CASE Published(i)
  <2>1. /\ MoveTo(i, "over") /\ UNCHANGED <<page, callSession, reloaded>>
        /\ attempts[i].stage = "publishing"
    BY <1>5 DEF Published, At
  <2>2. i # callRoom /\ i \in open
    BY <1>0, <2>1 DEF AttemptInv
  <2>3. CASE attempts[i].cancelled
    <3>1. open' = open \ {i} /\ UNCHANGED <<callRoom, callStatus>>
      BY <1>5, <2>3 DEF Published
    <3>2. ConnectedIsOpen'
      BY <1>0, <2>2, <3>1 DEF ConnectedIsOpen
    <3>. QED  BY <1>0, <2>1, <2>2, <3>1, <3>2, MoveKeeps DEF AttemptsOK
  <2>4. CASE ~attempts[i].cancelled
    <3>1. open' = open \ {callRoom} /\ callRoom' = i /\ callStatus' = "connected"
      BY <1>5, <2>4 DEF Published
    <3>2. ConnectedIsOpen'
      BY <2>2, <3>1 DEF ConnectedIsOpen
    <3>. QED  BY <1>0, <2>1, <2>2, <2>4, <3>1, <3>2, MoveKeeps DEF AttemptsOK
  <2>. QED  BY <2>3, <2>4
<1>6. CASE Disconnected(i)
  <2>1. /\ UNCHANGED <<page, callSession, attempts, callRoom, reloaded>>
        /\ open' = open \ {i} /\ callStatus' = "idle" /\ attempts[i].stage = "over"
    BY <1>6 DEF Disconnected, At
  <2>2. AttemptsOK' /\ ConnectedIsOpen'
    BY <1>0, <2>1 DEF AttemptsOK, ConnectedIsOpen
  <2>3. ASSUME NEW j \in DOMAIN attempts  PROVE AttemptInv(j)'
    <3>1. AttemptInv(j)
      BY DEF CallInv
    <3>. QED  BY <2>1, <3>1 DEF AttemptInv, Counts
  <2>. QED  BY <2>1, <2>2, <2>3 DEF CallInv
<1>7. UNCHANGED <<page, callSession, reloaded>>
  BY DEF Connecting, TokenRefused, TokenGranted, SfuConnected, SfuFailed, Published, Disconnected
<1>. QED  BY <1>1, <1>2, <1>3, <1>4, <1>5, <1>6, <1>7 DEF Connecting

-----------------------------------------------------------------------------
(* The tab.                                                                *)

\* The effects of a render, as the tab runs them.
LEMMA RunEffectsKeep ==
    ASSUME CallInv, TabInv, NEW v, IsPage(v), NEW fresh \in BOOLEAN, fresh \/ reloaded,
           RunEffects(v, fresh), ~fresh => v = page,
           view' = v, pushed' = FALSE, UNCHANGED <<joining, issued, requests>>,
           stored' \in [Slugs -> Sessions \cup {None}],
           \A s \in Slugs : stored'[s] # None => stored'[s].room = s,
           v.kind = "call" => stored' = stored
    PROVE  CallInv' /\ TabInv'
<1>1. /\ RunCallEffects(v, fresh, Loaded(v), roomSummary)
      /\ roomSummary' = (roomSummary /\ v.kind = "room")
  BY DEF RunEffects, RunRoomEffect
<1>2. /\ Loaded(v) \in Sessions \cup {None}
      /\ Loaded(v) # None => /\ v.kind = "call" /\ v = CallPage(Loaded(v).room)
                             /\ stored'[Loaded(v).room] # None
  BY DEF Loaded, IsPage, CallPage
<1>3. fresh /\ v.kind = "call" /\ callSession # None /\ callSession.room = v.slug => Loaded(v) # None
  BY DEF TabInv, Loaded, CallPage
<1>4. CallInv'
  <2>1. callSession \in Sessions \cup {None} /\ roomSummary \in BOOLEAN
    BY DEF TabInv
  <2>2. fresh /\ Loaded(v) # None => v.kind = "call"
    BY <1>2
  <2>. HIDE DEF Loaded
  <2>. QED  BY <1>1, <1>3, <2>1, <2>2, EffectsKeep
<1>5. /\ page' = v /\ callSession' = IF fresh THEN Loaded(v) ELSE callSession
      /\ reloaded' \in BOOLEAN
  BY <1>1, Zenon DEF RunCallEffects
<1>6. /\ callSession' \in Sessions \cup {None}
      /\ callSession' # None => /\ page' = CallPage(callSession'.room)
                                /\ stored'[callSession'.room] # None
  <2>1. CASE fresh
    BY <1>2, <1>5, <2>1
  <2>2. CASE ~fresh
    <3>1. callSession' = callSession /\ page' = page
      BY <1>5, <2>2
    <3>2. callSession # None => stored' = stored
      BY <1>5, <2>2, <3>1 DEF TabInv, CallPage
    <3>. QED  BY <3>1, <3>2 DEF TabInv
  <2>. QED  BY <2>1, <2>2
<1>7. roomSummary' \in BOOLEAN
  BY <1>1, Zenon DEF TabInv
<1>8. pushed' \in BOOLEAN /\ view' = page' /\ IsPage(view)' /\ IsPage(page)'
  BY <1>5 DEF IsPage
<1>9. ASSUME NEW p \in polls'  PROVE PollInv(p)'
  <2>1. CASE v = page \/ "waiting" \notin {v.kind, page.kind}
    <3>1. polls' = polls
      BY <2>1 DEF RunEffects, RunWaitingEffect
    <3>2. PollInv(p)
      BY <3>1, <1>9 DEF TabInv
    <3>3. v # page => p.cancelled
      BY <2>1, <3>2 DEF PollInv, WaitingPage
    <3>. QED  BY <1>5, <3>2, <3>3 DEF PollInv
  <2>2. CASE ~(v = page \/ "waiting" \notin {v.kind, page.kind})
    <3>. DEFINE known == v.kind = "waiting" /\ waiting'[v.slug] = Request(v.slug, v.id)
    <3>1. polls' = {Cancelled(q) : q \in {q \in polls : q.stage = "asked"}}
                       \cup (IF known THEN {NewPoll(waiting'[v.slug])} ELSE {})
      BY <2>2 DEF RunEffects, RunWaitingEffect
    <3>2. CASE known /\ p = NewPoll(waiting'[v.slug])
      <4>1. p.request = Request(v.slug, v.id) /\ v.slug \in Slugs /\ v.id \in Nat
            /\ v = WaitingPage(Request(v.slug, v.id))
        BY <3>2 DEF NewPoll, IsPage
      <4>2. p \in Polled
        BY <3>2, <4>1 DEF NewPoll, Polled, LobbyRequests, Request
      <4>. QED  BY <1>5, <4>1, <4>2 DEF PollInv
    <3>3. CASE \E q \in polls : p = Cancelled(q)
      <4>1. PICK q \in polls : p = Cancelled(q)
        BY <3>3
      <4>2. q \in Polled
        BY DEF TabInv, PollInv
      <4>3. p \in Polled /\ p.cancelled
        BY <4>1, <4>2 DEF Cancelled, Polled
      <4>. QED  BY <4>3 DEF PollInv
    <3>. QED  BY <1>9, <3>1, <3>2, <3>3
  <2>. QED  BY <2>1, <2>2
<1>10. requests' = requests /\ joining' = joining /\ issued' = issued
  OBVIOUS
<1>. QED  BY <1>4, <1>5, <1>6, <1>7, <1>8, <1>9, <1>10 DEF TabInv

\* An answer that is filed under the slug of its own session.
LEMMA AnswerKeeps ==
    ASSUME CallInv, TabInv, UNCHANGED callVars, NEW s \in Slugs, NEW n \in Nat, NEW byHost \in BOOLEAN,
           stored' = [stored EXCEPT ![s] = Session(s, n, byHost)],
           view' = CallPage(s), pushed' = TRUE, UNCHANGED <<requests, roomSummary>>,
           joining' \in {joining, None}, issued' \in Nat, polls' \subseteq polls
    PROVE  CallInv' /\ TabInv'
<1>1. Session(s, n, byHost) \in Sessions /\ Session(s, n, byHost).room = s
  BY DEF Session, Sessions
<1>2. Session(s, n, byHost) # None
  BY <1>1, TabAssumption
<1>3. /\ stored' \in [Slugs -> Sessions \cup {None}]
      /\ \A t \in Slugs : stored'[t] # None => stored'[t].room = t
      /\ \A t \in Slugs : stored[t] # None => stored'[t] # None
  BY <1>1, <1>2 DEF TabInv
<1>4. IsPage(view)' /\ IsPage(page)' /\ \A p \in polls' : PollInv(p)'
  BY DEF IsPage, TabInv, CallPage, PollInv, callVars
<1>5. callSession # None => callSession.room \in Slugs
  BY DEF TabInv, Sessions
<1>6. TabInv'
  BY <1>3, <1>4, <1>5 DEF TabInv, callVars
<1>7. CallInv'
  BY DEF callVars, CallInv, AttemptsOK, AttemptInv, Counts, ConnectedIsOpen
<1>. QED  BY <1>6, <1>7

\* What changes neither the calls nor what the pages rest on.
LEMMA OtherKeeps ==
    ASSUME CallInv, TabInv, UNCHANGED <<callVars, stored>>,
           UNCHANGED <<view, pushed>> \/ (pushed' = TRUE /\ IsPage(view)'),
           joining' \in Slugs \cup {None}, issued' \in Nat, roomSummary' \in BOOLEAN,
           requests' \subseteq [request : LobbyRequests, status : {"waiting", "approved", "denied"}],
           \A p \in polls' : p \in Polled /\ (p.cancelled \/ \E q \in polls : ~q.cancelled /\ q.request = p.request)
    PROVE  CallInv' /\ TabInv'
<1>1. CallInv'
  BY DEF callVars, CallInv, AttemptsOK, AttemptInv, Counts, ConnectedIsOpen
<1>2. IsPage(view)' /\ IsPage(page)' /\ \A p \in polls' : PollInv(p)'
  BY DEF TabInv, IsPage, PollInv, callVars
<1>. QED  BY <1>1, <1>2 DEF callVars, TabInv

LEMMA ReloadKeeps ==
    ASSUME CallInv, TabInv, Reload
    PROVE  CallInv' /\ TabInv'
<1>1. AttemptsOK
  BY DEF CallInv
<1>. DEFINE gone == [i \in DOMAIN attempts |->
                        [attempts[i] EXCEPT !.cancelled = TRUE, !.stage = "over"]]
            n == Len(attempts)
<1>2. n \in Nat /\ DOMAIN attempts = 1..n /\ \A i \in 1..n : attempts[i] \in Attempt
  BY <1>1 DEF AttemptsOK
<1>3. /\ \A a \in Attempt : /\ [a EXCEPT !.cancelled = TRUE, !.stage = "over"] \in Attempt
                            /\ [a EXCEPT !.cancelled = TRUE, !.stage = "over"].stage = "over"
                            /\ [a EXCEPT !.cancelled = TRUE, !.stage = "over"].cancelled
  BY DEF Attempt, Stages
<1>4. gone \in [1..n -> Attempt] /\ \A i \in 1..n : gone[i].stage = "over" /\ gone[i].cancelled
  BY <1>2, <1>3
<1>5. gone \in Seq(Attempt) /\ DOMAIN gone = 1..n
  <2>1. DOMAIN gone = 1..n
    BY <1>2
  <2>. HIDE DEF gone, n
  <2>. QED  BY <1>2, <1>4, <2>1
<1>6. /\ attempts' = gone /\ callRoom' = 0 /\ open' = {} /\ callSession' = None
      /\ callStatus' = "idle" /\ reloaded' = FALSE /\ pushed' = TRUE
      /\ joining' = None /\ roomSummary' = FALSE /\ UNCHANGED <<view, stored, issued, requests>>
  BY DEF Reload
<1>. HIDE DEF gone, n
<1>7. AttemptsOK' /\ ConnectedIsOpen'
  BY <1>5, <1>6 DEF AttemptsOK, ConnectedIsOpen
<1>8. \A i \in DOMAIN attempts' : AttemptInv(i)'
  BY <1>4, <1>5, <1>6 DEF AttemptInv, Counts
<1>9. TabInv'
  <2>1. IsPage(view)' /\ IsPage(page)' /\ polls' = {}
    BY <1>6 DEF TabInv, IsPage, Reload, Home
  <2>. QED  BY <1>6, <2>1 DEF TabInv
<1>. QED  BY <1>7, <1>8, <1>9 DEF CallInv

LEMMA ViewsArePages ==
    ASSUME TabInv, NEW v \in Views
    PROVE  IsPage(v)
<1>1. \A q \in Requested : q \in LobbyRequests
  BY DEF TabInv, Requested
<1>. QED  BY <1>1 DEF Views, IsPage, Home, RoomPage, CallPage, WaitingPage, Request, LobbyRequests

LEMMA TabInductive ==
    ASSUME CallInv, TabInv, [Next]_vars
    PROVE  CallInv' /\ TabInv'
<1>0. \A p \in polls : p \in Polled /\ (p.cancelled \/ \E q \in polls : ~q.cancelled /\ q.request = p.request)
  BY DEF TabInv, PollInv, Polled
<1>1. CASE UNCHANGED vars
  BY <1>0, <1>1, OtherKeeps DEF vars, tabVars, TabInv
<1>2. CASE Render
  <2>1. pushed \in BOOLEAN /\ (~pushed => view = page) /\ IsPage(view)
    BY DEF TabInv
  <2>2. RunEffects(view, pushed) /\ pushed' = FALSE /\ (pushed \/ reloaded)
        /\ UNCHANGED <<view, stored, joining, issued, requests>>
    BY <1>2 DEF Render
  <2>3. /\ stored' \in [Slugs -> Sessions \cup {None}]
        /\ \A s \in Slugs : stored'[s] # None => stored'[s].room = s
    BY <2>2 DEF TabInv
  <2>. QED  BY <2>1, <2>2, <2>3, RunEffectsKeep
<1>3. CASE Navigate
  <2>1. PICK v \in Views : Show(v) /\ UNCHANGED <<stored, joining, issued, requests>>
    BY <1>3 DEF Navigate
  <2>2. RunEffects(v, TRUE) /\ view' = v /\ pushed' = FALSE
    BY <2>1 DEF Show
  <2>3. /\ stored' \in [Slugs -> Sessions \cup {None}]
        /\ \A s \in Slugs : stored'[s] # None => stored'[s].room = s
    BY <2>1 DEF TabInv
  <2>. QED  BY <2>1, <2>2, <2>3, ViewsArePages, RunEffectsKeep
<1>4. CASE LeaveCall
  <2>. DEFINE v == RoomPage(page.slug)
  <2>1. /\ RunEffects(v, TRUE) /\ view' = v /\ pushed' = FALSE
        /\ UNCHANGED <<joining, issued, requests>>
    BY <1>4 DEF LeaveCall, Show
  <2>2. stored' = [stored EXCEPT ![page.slug] = None] /\ callSession # None
    BY <1>4 DEF LeaveCall
  <2>3. /\ stored' \in [Slugs -> Sessions \cup {None}]
        /\ \A s \in Slugs : stored'[s] # None => stored'[s].room = s
    BY <2>2 DEF TabInv
  <2>4. v.kind # "call"
    BY DEF RoomPage
  <2>5. IsPage(v)
    BY <1>4 DEF LeaveCall, TabInv, RoomPage, IsPage
  <2>. HIDE DEF v
  <2>. QED  BY <2>1, <2>3, <2>4, <2>5, RunEffectsKeep
<1>5. CASE BackFromWaiting
  <2>. DEFINE v == RoomPage(page.slug)
  <2>1. /\ RunEffects(v, TRUE) /\ view' = v /\ pushed' = FALSE
        /\ UNCHANGED <<stored, joining, issued, requests>>
    BY <1>5 DEF BackFromWaiting, Show
  <2>2. /\ stored' \in [Slugs -> Sessions \cup {None}]
        /\ \A s \in Slugs : stored'[s] # None => stored'[s].room = s
    BY <2>1 DEF TabInv
  <2>3. IsPage(v)
    BY <1>5 DEF BackFromWaiting, TabInv, RoomPage, IsPage
  <2>. HIDE DEF v
  <2>. QED  BY <2>1, <2>2, <2>3, RunEffectsKeep
<1>6. CASE Reload
  BY <1>6, ReloadKeeps
<1>7. CASE LoadRoom
  <2>1. roomSummary' \in BOOLEAN
    BY <1>7, Zenon DEF LoadRoom
  <2>. QED  BY <1>7, <2>1, <1>0, OtherKeeps DEF LoadRoom, TabInv
<1>8. CASE SubmitJoin
  <2>1. page.slug \in Slugs
    BY <1>8 DEF SubmitJoin, TabInv, IsPage
  <2>. QED  BY <1>8, <2>1, <1>0, OtherKeeps DEF SubmitJoin, TabInv
<1>9. CASE JoinDirect
  <2>1. joining \in Slugs /\ issued' \in Nat /\ joining' = None
    BY <1>9 DEF JoinDirect, TabInv
  <2>. QED  BY <1>9, <2>1, AnswerKeeps DEF JoinDirect, Push
<1>10. CASE JoinQueued
  <2>1. joining \in Slugs /\ issued' \in Nat /\ joining' = None
    BY <1>10 DEF JoinQueued, TabInv
  <2>. DEFINE q == Request(joining, issued')
  <2>2. q \in LobbyRequests
    BY <2>1 DEF Request, LobbyRequests
  <2>3. requests' \subseteq [request : LobbyRequests, status : {"waiting", "approved", "denied"}]
    BY <1>10, <2>2 DEF JoinQueued, TabInv
  <2>4. IsPage(view)' /\ pushed' = TRUE /\ UNCHANGED <<callVars, stored, roomSummary, polls>>
    BY <1>10, <2>1 DEF JoinQueued, Push, WaitingPage, IsPage, Request
  <2>. QED  BY <1>0, <2>1, <2>3, <2>4, OtherKeeps DEF TabInv
<1>11. CASE JoinRefused
  BY <1>0, <1>11, OtherKeeps DEF JoinRefused, TabInv
<1>12. CASE Decide
  <2>1. requests' \subseteq [request : LobbyRequests, status : {"waiting", "approved", "denied"}]
    BY <1>12 DEF Decide, TabInv
  <2>. QED  BY <1>0, <1>12, <2>1, OtherKeeps DEF Decide, TabInv
<1>13. CASE Poll
  <2>1. PICK p \in polls : \/ PollFails(p) \/ PollIgnored(p) \/ PollUndecided(p) \/ PollTimer(p)
                           \/ PollApproved(p)
    BY <1>13 DEF Poll
  <2>2. CASE PollFails(p) \/ PollIgnored(p) \/ PollUndecided(p) \/ PollTimer(p)
    <3>1. /\ polls' \subseteq polls \cup {[p EXCEPT !.stage = "timer"], [p EXCEPT !.stage = "asked"]}
          /\ UNCHANGED <<callVars, stored, view, pushed, joining, issued, requests, roomSummary>>
      BY <2>2 DEF PollFails, PollIgnored, PollUndecided, PollTimer
    <3>2. \A stage \in {"timer", "asked"} :
            LET q == [p EXCEPT !.stage = stage] IN
            q \in Polled /\ q.cancelled = p.cancelled /\ q.request = p.request
      BY <1>0 DEF Polled
    <3>. QED  BY <1>0, <3>1, <3>2, OtherKeeps DEF TabInv
  <2>3. CASE PollApproved(p)
    <3>1. p.request.room \in Slugs /\ p.request.id \in Nat
      BY <1>0 DEF Polled, LobbyRequests
    <3>. QED  BY <2>3, <3>1, AnswerKeeps DEF PollApproved, TabInv
  <2>. QED  BY <2>1, <2>2, <2>3
<1>14. CASE Call
  <2>1. PICK i \in DOMAIN attempts : Connecting(i) \/ Disconnected(i)
    BY <1>14 DEF Call
  <2>2. CallInv' /\ UNCHANGED <<page, callSession, reloaded>>
    BY <2>1, ConnectingKeeps
  <2>3. UNCHANGED tabVars
    BY <1>14 DEF Call
  <2>4. TabInv'
    BY <2>2, <2>3 DEF tabVars, TabInv, IsPage, PollInv
  <2>. QED  BY <2>2, <2>4
<1>. QED
  BY <1>1, <1>2, <1>3, <1>4, <1>5, <1>6, <1>7, <1>8, <1>9, <1>10, <1>11, <1>12, <1>13, <1>14
  DEF Next

LEMMA TabInvariant == Spec => [](CallInv /\ TabInv)
<1>1. Init => CallInv /\ TabInv
  <2>. USE DEF Init, CallInit
  <2>1. Init => CallInv
    <3>1. <<>> \in Seq(Attempt) /\ DOMAIN <<>> = {}
      OBVIOUS
    <3>. QED  BY <3>1 DEF CallInv, AttemptsOK, ConnectedIsOpen
  <2>2. Init => IsPage(view) /\ IsPage(page)
    BY DEF IsPage, Home, RoomPage
  <2>3. Init => /\ pushed \in BOOLEAN /\ reloaded \in BOOLEAN /\ (~pushed => view = page)
                /\ roomSummary \in BOOLEAN
    BY Zenon
  <2>4. Init => /\ stored \in [Slugs -> Sessions \cup {None}]
                /\ \A s \in Slugs : stored[s] # None => stored[s].room = s
    OBVIOUS
  <2>5. Init => TabInv
    BY <2>2, <2>3, <2>4 DEF TabInv
  <2>. QED  BY <2>1, <2>5
<1>. QED  BY <1>1, TabInductive, PTL DEF Spec

\* Whatever pages come and go while connectCall waits, a room that is connected at the SFU
\* is the one the leave button ends, or its attempt still has it in hand and will end it.
THEOREM NoRoomIsLeaked == Spec => []NoRoomLeaks
<1>1. CallInv => NoRoomLeaks
  BY DEF CallInv, AttemptsOK, AttemptInv, NoRoomLeaks
<1>. QED  BY <1>1, TabInvariant, PTL

\* An attempt whose page or session the tab has left never becomes the call.
THEOREM CallIsOfThisPage == Spec => []OnlyThisCall
<1>1. CallInv => OnlyThisCall
  BY DEF CallInv, AttemptInv, Counts, OnlyThisCall
<1>. QED  BY <1>1, TabInvariant, PTL

\* A guest is taken into a call by the host's approval only from the waiting page of the
\* request that was approved.
THEOREM ApprovalComesToItsPage == Spec => ApprovalOnItsPage
<1>. DEFINE Filed(s) ==
        stored'[s] # stored[s] /\ stored'[s] # None /\ stored'[s].byHost =>
            page = WaitingPage(Request(s, stored'[s].id))
<1>1. ASSUME TabInv, [Next]_vars, NEW s \in Slugs  PROVE Filed(s)
  <2>1. CASE stored' = stored
    BY <2>1
  <2>2. CASE LeaveCall
    <3>1. stored' = [stored EXCEPT ![page.slug] = None]
      BY <2>2 DEF LeaveCall
    <3>. QED  BY <1>1, <3>1 DEF TabInv
  <2>3. CASE JoinDirect
    <3>1. stored' = [stored EXCEPT ![joining] = Session(joining, issued', FALSE)]
      BY <2>3 DEF JoinDirect
    <3>. QED  BY <1>1, <3>1 DEF TabInv, Session
  <2>4. CASE \E p \in polls : PollApproved(p)
    <3>1. PICK p \in polls : PollApproved(p)
      BY <2>4
    <3>2. /\ page = WaitingPage(p.request)
          /\ p.request = Request(p.request.room, p.request.id) /\ p.request.room \in Slugs
      BY <1>1, <3>1 DEF PollApproved, TabInv, PollInv, Polled, LobbyRequests, Request
    <3>3. stored' = [stored EXCEPT ![p.request.room] = Session(p.request.room, p.request.id, TRUE)]
      BY <3>1 DEF PollApproved
    <3>. QED  BY <1>1, <3>2, <3>3 DEF TabInv, Session
  <2>5. stored' = stored \/ LeaveCall \/ JoinDirect \/ \E p \in polls : PollApproved(p)
    BY <1>1
    DEF Next, vars, tabVars, Render, Navigate, BackFromWaiting, Reload, LoadRoom, SubmitJoin,
        JoinQueued, JoinRefused, Decide, Poll, PollFails, PollIgnored, PollUndecided, PollTimer, Call
  <2>. QED  BY <2>1, <2>2, <2>3, <2>4, <2>5
<1>2. TabInv /\ [Next]_vars => [\A s \in Slugs : Filed(s)]_vars
  BY <1>1
<1>3. Spec => []TabInv /\ [][Next]_vars
  BY TabInvariant, PTL DEF Spec
<1>. QED  BY <1>2, <1>3, PTL DEF ApprovalOnItsPage
-----------------------------------------------------------------------------
(* No page waits for nothing.                                              *)

\* The call page never knows how large its room is, so no attempt may fall back.
FallbackInv ==
    /\ ~fallback
    /\ roomSummary => page.kind = "room"
    /\ \A i \in DOMAIN attempts : ~attempts[i].roomOfTwo

PursuitInv == FallbackInv /\ CallIsPursued

Wanted(i) == attempts[i].stage # "over" /\ ~attempts[i].cancelled

\* The effects start an attempt for whatever status they set, or are due again.
LEMMA EffectsPursue ==
    ASSUME CallInv, TabInv, PursuitInv, NEW v, IsPage(v), NEW fresh \in BOOLEAN, fresh \/ reloaded,
           RunEffects(v, fresh)
    PROVE  PursuitInv'
<1>. DEFINE starts == v.kind = "call" /\ callSession # None
            two == roomSummary
            loaded == Loaded(v)
<1>1. /\ RunCallEffects(v, fresh, loaded, two)
      /\ roomSummary' = (roomSummary /\ v.kind = "room")
  BY DEF RunEffects, RunRoomEffect
<1>. HIDE DEF loaded
<1>2. /\ page' = v /\ callSession' = IF fresh THEN loaded ELSE callSession
      /\ reloaded' = (fresh /\ {callSession, loaded} # {None})
      /\ fallback' = fallback
      /\ callStatus' = IF starts THEN "requesting_token"
                       ELSE IF fresh /\ loaded = None THEN "idle" ELSE callStatus
  BY <1>1, Zenon DEF RunCallEffects
<1>3. starts => ~roomSummary
  BY DEF PursuitInv, FallbackInv, TabInv, CallPage
<1>4. /\ \A i \in DOMAIN attempts :
            /\ i \in DOMAIN attempts'
            /\ attempts'[i] = [attempts[i] EXCEPT !.cancelled = TRUE]
            /\ attempts[i] \in Attempt
      /\ \A i \in DOMAIN attempts' \ DOMAIN attempts :
            starts /\ attempts'[i] = NewAttempt(v.slug, callSession, two)
  BY <1>1, EffectsTyped DEF CallInv, TabInv
<1>5. starts => \E i \in DOMAIN attempts' : Wanted(i)'
  <2>. HAVE starts
  <2>1. PICK s \in Seq(Attempt) : attempts' = Append(s, NewAttempt(v.slug, callSession, two))
    BY <1>1, StoppedTyped, Zenon DEF RunCallEffects, CallInv, AttemptsOK
  <2>. DEFINE new == NewAttempt(v.slug, callSession, two)
  <2>2. new \in Attempt
    BY DEF NewAttempt, Attempt, Stages, IsPage, CallPage, TabInv
  <2>3. new.stage = "token" /\ new.cancelled = FALSE
    BY DEF NewAttempt
  <2>. HIDE DEF new
  <2>4. Len(s) + 1 \in DOMAIN Append(s, new) /\ Append(s, new)[Len(s) + 1] = new
    BY <2>1, <2>2
  <2>. QED  BY <2>1, <2>3, <2>4 DEF Wanted, new
<1>6. ASSUME NEW i \in DOMAIN attempts'  PROVE ~attempts'[i].roomOfTwo
  <2>1. CASE i \in DOMAIN attempts
    <3>1. attempts'[i].roomOfTwo = attempts[i].roomOfTwo
      BY <1>4, <2>1 DEF Attempt
    <3>. QED  BY <2>1, <3>1, Zenon DEF PursuitInv, FallbackInv
  <2>2. CASE i \notin DOMAIN attempts
    <3>1. attempts'[i].roomOfTwo = roomSummary /\ starts
      BY <1>4, <2>2 DEF NewAttempt
    <3>. QED  BY <1>3, <3>1, Zenon
  <2>. QED  BY <2>1, <2>2
<1>7. FallbackInv'
  <2>1. roomSummary' => page'.kind = "room"
    BY <1>1, <1>2, Zenon
  <2>. QED  BY <1>2, <1>6, <2>1, Zenon DEF PursuitInv, FallbackInv
<1>8. CallIsPursued'
  <2>1. CASE starts
    BY <1>5, <2>1 DEF CallIsPursued, Wanted
  <2>2. CASE ~starts /\ fresh
    BY <1>2, <2>2 DEF CallIsPursued
  <2>3. CASE ~starts /\ ~fresh
    BY <1>2, <2>3 DEF CallIsPursued
  <2>. QED  BY <2>1, <2>2, <2>3
<1>. QED  BY <1>7, <1>8 DEF PursuitInv

\* A step of connectCall goes on with its attempt, or leaves a status the user can act on.
LEMMA ConnectingPursues ==
    ASSUME CallInv, PursuitInv, NEW i \in DOMAIN attempts, Connecting(i) \/ Disconnected(i),
           roomSummary' = roomSummary
    PROVE  PursuitInv'
<1>. USE DEF Stages
<1>1. AttemptsOK /\ UNCHANGED <<page, callSession, reloaded>>
  BY ConnectingKeeps DEF CallInv
<1>2. ~attempts[i].roomOfTwo
  BY DEF PursuitInv, FallbackInv
<1>3. CASE Disconnected(i)
  <2>1. attempts' = attempts /\ fallback' = fallback /\ callStatus' = "idle"
    BY <1>3 DEF Disconnected
  <2>2. FallbackInv'
    BY <1>1, <2>1, Zenon DEF PursuitInv, FallbackInv
  <2>3. CallIsPursued'
    BY <2>1 DEF CallIsPursued
  <2>. QED  BY <2>2, <2>3 DEF PursuitInv
<1>4. CASE Connecting(i)
  <2>1. /\ \E stage \in Stages : MoveTo(i, stage)
        /\ fallback' = fallback \/ \E may \in BOOLEAN : GiveUp(i, may)
    BY <1>4 DEF Connecting, TokenRefused, TokenGranted, SfuConnected, SfuFailed, Published, GiveUp
  <2>2. PICK stage \in Stages : MoveTo(i, stage)
    BY <2>1
  <2>3. /\ DOMAIN attempts' = DOMAIN attempts
        /\ attempts'[i].stage = stage /\ attempts'[i].cancelled = attempts[i].cancelled
        /\ \A j \in DOMAIN attempts \ {i} : attempts'[j] = attempts[j]
    BY <1>1, <2>2, MoveToTyped
  <2>4. attempts'[i].roomOfTwo = attempts[i].roomOfTwo
    <3>1. attempts[i] \in Attempt
      BY <1>1 DEF AttemptsOK
    <3>2. attempts'[i] = [attempts[i] EXCEPT !.stage = stage]
      BY <1>1, <2>2 DEF MoveTo, AttemptsOK
    <3>. QED  BY <3>1, <3>2 DEF Attempt
  <2>5. ~fallback'
    BY <1>2, <2>1, Zenon DEF GiveUp, PursuitInv, FallbackInv
  <2>6. FallbackInv'
    <3>1. \A j \in DOMAIN attempts' : attempts'[j].roomOfTwo = attempts[j].roomOfTwo
      BY <2>3, <2>4
    <3>. QED  BY <1>1, <2>3, <2>5, <3>1, Zenon DEF PursuitInv, FallbackInv
  <2>7. \/ callStatus' \in {"idle", "connected"}
        \/ callStatus' = "connecting" /\ stage = "connecting" /\ ~attempts[i].cancelled
        \/ callStatus' = callStatus /\ (stage # "over" \/ attempts[i].cancelled)
    <3>1. attempts'[i].stage = stage
      BY <2>3
    <3>2. \A s \in Stages : MoveTo(i, s) => stage = s
      BY <1>1, <2>2, MoveToTyped
    <3>. QED  BY <1>2, <1>4, <3>2 DEF Connecting, TokenRefused, TokenGranted, SfuConnected, SfuFailed,
                Published, GiveUp
  <2>8. CallIsPursued'
    <3>1. CASE callStatus' \in {"idle", "connected"}
      BY <3>1 DEF CallIsPursued
    <3>2. CASE stage # "over" /\ ~attempts[i].cancelled
      BY <2>3, <3>2 DEF CallIsPursued
    <3>3. CASE callStatus' = callStatus /\ (stage # "over" \/ attempts[i].cancelled)
      <4>. SUFFICES ASSUME (page.kind = "call" /\ callSession # None
                            /\ callStatus \in {"requesting_token", "connecting"})', ~reloaded'
                    PROVE  \E j \in DOMAIN attempts' : Wanted(j)'
        BY DEF CallIsPursued, Wanted
      <4>1. PICK j \in DOMAIN attempts : Wanted(j)
        BY <1>1, <3>3 DEF PursuitInv, CallIsPursued, Wanted
      <4>2. CASE j = i
        BY <2>3, <3>3, <4>1, <4>2 DEF Wanted
      <4>3. CASE j # i
        BY <2>3, <4>1, <4>3 DEF Wanted
      <4>. QED  BY <4>2, <4>3
    <3>. QED  BY <2>7, <3>1, <3>2, <3>3
  <2>. QED  BY <2>6, <2>8 DEF PursuitInv
<1>. QED  BY <1>3, <1>4

LEMMA PursuitInductive ==
    ASSUME CallInv, TabInv, PursuitInv, [Next]_vars
    PROVE  PursuitInv'
<1>1. CASE UNCHANGED <<callVars, roomSummary>>
  <2>1. FallbackInv'
    BY <1>1, Zenon DEF PursuitInv, FallbackInv, callVars
  <2>. QED  BY <1>1, <2>1 DEF PursuitInv, CallIsPursued, callVars
<1>2. CASE Render
  BY <1>2, EffectsPursue DEF Render, TabInv
<1>3. CASE Navigate
  BY <1>3, EffectsPursue, ViewsArePages DEF Navigate, Show
<1>4. CASE LeaveCall \/ BackFromWaiting
  <2>. DEFINE v == RoomPage(page.slug)
  <2>1. RunEffects(v, TRUE)
    BY <1>4 DEF LeaveCall, BackFromWaiting, Show
  <2>2. IsPage(v)
    BY <1>4 DEF LeaveCall, BackFromWaiting, TabInv, RoomPage, IsPage
  <2>. HIDE DEF v
  <2>. QED  BY <2>1, <2>2, EffectsPursue
<1>5. CASE Reload
  <2>1. /\ ~fallback' /\ ~roomSummary' /\ callStatus' = "idle" /\ DOMAIN attempts' = DOMAIN attempts
    BY <1>5 DEF Reload
  <2>2. \A i \in DOMAIN attempts' : attempts'[i].roomOfTwo = attempts[i].roomOfTwo
    <3>1. \A i \in DOMAIN attempts : attempts[i] \in Attempt
      BY DEF CallInv, AttemptsOK
    <3>2. \A i \in DOMAIN attempts :
            attempts'[i] = [attempts[i] EXCEPT !.cancelled = TRUE, !.stage = "over"]
      BY <1>5 DEF Reload
    <3>. QED  BY <2>1, <3>1, <3>2 DEF Attempt
  <2>3. FallbackInv'
    BY <2>1, <2>2, Zenon DEF PursuitInv, FallbackInv
  <2>. QED  BY <2>1, <2>3 DEF PursuitInv, CallIsPursued
<1>6. CASE LoadRoom
  <2>1. FallbackInv'
    BY <1>6, Zenon DEF LoadRoom, PursuitInv, FallbackInv, callVars
  <2>. QED  BY <1>6, <2>1 DEF LoadRoom, PursuitInv, CallIsPursued, callVars
<1>7. CASE Call
  BY <1>7, ConnectingPursues DEF Call, tabVars
<1>8. CASE SubmitJoin \/ JoinDirect \/ JoinQueued \/ JoinRefused \/ Decide \/ Poll
  BY <1>1, <1>8 DEF SubmitJoin, JoinDirect, JoinQueued, JoinRefused, Decide, Poll, Push, PollFails,
                    PollIgnored, PollUndecided, PollTimer, PollApproved
<1>. QED
  BY <1>1, <1>2, <1>3, <1>4, <1>5, <1>6, <1>7, <1>8 DEF Next, vars, tabVars

LEMMA PursuitInvariant == Spec => []PursuitInv
<1>1. Init => PursuitInv
  <2>1. Init => FallbackInv
    BY DEF Init, CallInit, FallbackInv
  <2>. QED  BY <2>1 DEF Init, CallInit, PursuitInv, CallIsPursued
<1>. QED  BY <1>1, TabInvariant, PursuitInductive, PTL DEF Spec

\* However calls, cancellations and failures interleave, a call page says connected only
\* while the room it holds is, and connecting only while an attempt is under way or about
\* to start.
THEOREM CallStatusIsTrueHolds == Spec => []CallStatusIsTrue
<1>1. CallInv /\ PursuitInv => CallStatusIsTrue
  BY DEF CallInv, PursuitInv, CallStatusIsTrue
<1>. QED  BY <1>1, TabInvariant, PursuitInvariant, PTL

\* The branches of connectCall that fall back to P2P are dead: with no sequence of pages,
\* answers and failures does an attempt know that its room is one for two.
THEOREM FallbackIsNeverInitiated == Spec => [](~fallback /\ \A i \in DOMAIN attempts : ~attempts[i].roomOfTwo)
<1>1. PursuitInv => ~fallback /\ \A i \in DOMAIN attempts : ~attempts[i].roomOfTwo
  BY DEF PursuitInv, FallbackInv
<1>. QED  BY <1>1, PursuitInvariant, PTL
-----------------------------------------------------------------------------
(* No guest waits for nothing.                                             *)

\* Ids are given out once; the tab keeps requests that were made; and a waiting page
\* without an error is of such a request.
RequestsInv ==
    /\ requests \subseteq [request : LobbyRequests, status : {"waiting", "approved", "denied"}]
    /\ \A r \in requests : r.request.id <= issued
    /\ \A r, t \in requests : r.request = t.request => r = t
    /\ DOMAIN waiting = Slugs
    /\ \A s \in Slugs : waiting[s] # None => waiting[s] \in Requested
    /\ page.kind = "waiting" /\ ~waitingError => Request(page.slug, page.id) \in Requested

\* The poll of the page that is shown, which PollInv makes one of this very page's request.
Polling == \E p \in polls : ~p.cancelled

Denied(q) == [request |-> q, status |-> "denied"] \in requests

PageIsPolled ==
    page.kind = "waiting" /\ view = page /\ ~waitingError =>
        Denied(Request(page.slug, page.id)) \/ Polling

GuestInv == RequestsInv /\ PageIsPolled

\* The effects of a waiting page start a poll of its request, or show that it is not known.
LEMMA EffectsPoll ==
    ASSUME TabInv, GuestInv, NEW v, IsPage(v), NEW fresh, RunEffects(v, fresh), view' = v,
           UNCHANGED <<issued, requests>>, v = page => view = page,
           DOMAIN waiting' = Slugs,
           \A s \in Slugs : waiting'[s] # None => waiting'[s] \in Requested
    PROVE  GuestInv'
<1>. DEFINE q == Request(v.slug, v.id)
            known == v.kind = "waiting" /\ waiting'[v.slug] = q
<1>1. page' = v
  BY Zenon DEF RunEffects, RunCallEffects
<1>2. Requested' = Requested /\ \A r : Denied(r)' = Denied(r)
  BY DEF Requested, Denied
<1>3. CASE v = page
  <2>1. UNCHANGED <<polls, waitingError, page, view>>
    BY <1>1, <1>3 DEF RunEffects, RunWaitingEffect
  <2>2. RequestsInv'
    BY <1>2, <2>1 DEF GuestInv, RequestsInv
  <2>. QED  BY <1>2, <2>1, <2>2 DEF GuestInv, PageIsPolled, Polling
<1>4. CASE v # page /\ "waiting" \notin {v.kind, page.kind}
  <2>1. page'.kind # "waiting"
    BY <1>1, <1>4
  <2>2. RequestsInv'
    BY <1>2, <2>1 DEF GuestInv, RequestsInv
  <2>. QED  BY <2>1, <2>2 DEF GuestInv, PageIsPolled
<1>5. CASE v # page /\ "waiting" \in {v.kind, page.kind}
  <2>1. /\ known => NewPoll(q) \in polls'
        /\ waitingError' = (v.kind = "waiting" /\ ~known)
    BY <1>5, Zenon DEF RunEffects, RunWaitingEffect
  <2>2. v.kind = "waiting" => v.slug \in Slugs /\ v.id \in Nat
    BY DEF IsPage
  <2>3. v.kind = "waiting" => q # None
    BY <2>2, TabAssumption DEF Request
  <2>4. known => q \in Requested
    BY <2>2, <2>3
  <2>5. page'.kind = "waiting" /\ ~waitingError' => known
    BY <1>1, <2>1, Zenon
  <2>6. known => Polling'
    BY <2>1 DEF NewPoll, Polling
  <2>7. Request(page'.slug, page'.id) = q
    BY <1>1
  <2>. HIDE DEF q, known
  <2>8. RequestsInv'
    BY <1>2, <2>4, <2>5, <2>7 DEF GuestInv, RequestsInv
  <2>. QED  BY <2>5, <2>6, <2>8 DEF GuestInv, PageIsPolled
<1>. QED  BY <1>3, <1>4, <1>5

\* An answer takes the poll of the page with it only when it ends the wait.
LEMMA PollKeeps ==
    ASSUME TabInv, GuestInv, NEW p \in polls,
           PollFails(p) \/ PollIgnored(p) \/ PollUndecided(p) \/ PollTimer(p) \/ PollApproved(p)
    PROVE  GuestInv'
<1>1. UNCHANGED <<page, issued, requests>> /\ Requested' = Requested
  BY DEF PollFails, PollIgnored, PollUndecided, PollTimer, PollApproved, callVars, Requested
<1>2. p \in Polled /\ (~p.cancelled => page = WaitingPage(p.request))
  BY DEF TabInv, PollInv
<1>3. DOMAIN waiting' = Slugs
  BY DEF PollFails, PollIgnored, PollUndecided, PollTimer, PollApproved, GuestInv, RequestsInv
<1>4. waitingError => waitingError'
  BY Zenon DEF PollFails, PollIgnored, PollUndecided, PollTimer, PollApproved
<1>5. \A s \in Slugs : waiting'[s] # None => waiting'[s] \in Requested
  <2>1. CASE PollApproved(p)
    <3>1. waiting' = [waiting EXCEPT ![p.request.room] = None]
      BY <2>1 DEF PollApproved
    <3>2. \A s \in Slugs : waiting'[s] \in {waiting[s], None}
      BY <3>1 DEF GuestInv, RequestsInv
    <3>. QED  BY <3>2 DEF GuestInv, RequestsInv
  <2>2. CASE UNCHANGED waiting
    BY <2>2 DEF GuestInv, RequestsInv
  <2>. QED
    BY <2>1, <2>2 DEF PollFails, PollIgnored, PollUndecided, PollTimer
<1>6. RequestsInv'
  <2>1. page'.kind = "waiting" /\ ~waitingError' => Request(page'.slug, page'.id) \in Requested'
    BY <1>1, <1>4, Zenon DEF GuestInv, RequestsInv
  <2>. QED  BY <1>1, <1>3, <1>5, <2>1 DEF GuestInv, RequestsInv
<1>7. PageIsPolled'
  <2>. SUFFICES ASSUME page.kind = "waiting", view' = page, ~waitingError',
                       ~Denied(Request(page.slug, page.id))
                PROVE  Polling'
    BY <1>1 DEF PageIsPolled, Denied
  <2>. DEFINE r == Request(page.slug, page.id)
  <2>1. CASE PollApproved(p)
    <3>1. view' = CallPage(p.request.room) /\ ~p.cancelled
      BY <2>1 DEF PollApproved
    <3>. QED  BY <3>1 DEF CallPage
  <2>2. CASE ~PollApproved(p)
    <3>1. view' = view /\ view = page
      BY <2>2 DEF PollFails, PollIgnored, PollUndecided, PollTimer
    <3>2. PICK q \in polls : ~q.cancelled
      BY <1>4, <3>1 DEF GuestInv, PageIsPolled, Polling
    <3>3. CASE q # p
      <4>1. q \in polls'
        BY <2>2, <3>3 DEF PollFails, PollIgnored, PollUndecided, PollTimer
      <4>. QED  BY <3>2, <4>1 DEF Polling
    <3>4. CASE q = p
      <4>1. p.request = r /\ r \in Requested
        <5>1. p.request \in LobbyRequests /\ page = WaitingPage(p.request)
          BY <1>2, <3>2, <3>4 DEF Polled
        <5>2. p.request = r
          BY <5>1 DEF WaitingPage, LobbyRequests, Request
        <5>. QED  BY <1>4, <5>2 DEF GuestInv, RequestsInv
      <4>2. CASE PollFails(p)
        BY <3>2, <3>4, <4>2, Zenon DEF PollFails
      <4>3. CASE PollIgnored(p)
        BY <3>2, <3>4, <4>3 DEF PollIgnored
      <4>4. CASE PollTimer(p)
        <5>1. [p EXCEPT !.stage = "asked"] \in polls'
          BY <4>4 DEF PollTimer
        <5>. QED  BY <1>2, <3>2, <3>4, <5>1 DEF Polling, Polled
      <4>5. CASE PollUndecided(p)
        <5>1. StatusOf(r) # "approved"
              /\ (StatusOf(r) = "waiting" => [p EXCEPT !.stage = "timer"] \in polls')
          BY <4>1, <4>5 DEF PollUndecided
        <5>2. PICK t \in requests : t.request = r /\ StatusOf(r) = t.status
          BY <4>1 DEF StatusOf, Requested
        <5>3. t = [request |-> r, status |-> t.status] /\ t.status \in {"waiting", "approved", "denied"}
          BY <5>2 DEF GuestInv, RequestsInv
        <5>4. StatusOf(r) = "waiting"
          BY <5>1, <5>2, <5>3 DEF Denied
        <5>. QED  BY <1>2, <3>2, <3>4, <5>1, <5>4 DEF Polling, Polled
      <4>. QED  BY <2>2, <4>2, <4>3, <4>4, <4>5
    <3>. QED  BY <3>3, <3>4
  <2>. QED  BY <2>1, <2>2
<1>. QED  BY <1>6, <1>7 DEF GuestInv

\* The host decides a request once.
LEMMA DecideKeeps ==
    ASSUME TabInv, GuestInv, Decide
    PROVE  GuestInv'
<1>1. PICK r \in requests, to \in {"approved", "denied"} :
        r.status = "waiting" /\ requests' = (requests \ {r}) \cup {[r EXCEPT !.status = to]}
  BY DEF Decide
<1>. DEFINE d == [r EXCEPT !.status = to]
<1>2. /\ d \in [request : LobbyRequests, status : {"waiting", "approved", "denied"}]
      /\ d.request = r.request
  BY DEF GuestInv, RequestsInv
<1>. HIDE DEF d
<1>3. requests' = (requests \ {r}) \cup {d}
  BY <1>1 DEF d
<1>4. Requested' = Requested
  BY <1>2, <1>3 DEF Requested
<1>5. UNCHANGED <<page, view, issued, polls, waiting, waitingError>>
  BY DEF Decide, callVars
<1>6. RequestsInv'
  <2>1. \A t \in requests' : t.request.id <= issued
    BY <1>2, <1>3 DEF GuestInv, RequestsInv
  <2>2. \A t, u \in requests' : t.request = u.request => t = u
    BY <1>2, <1>3 DEF GuestInv, RequestsInv
  <2>3. requests' \subseteq [request : LobbyRequests, status : {"waiting", "approved", "denied"}]
    BY <1>2, <1>3 DEF GuestInv, RequestsInv
  <2>. QED  BY <1>4, <1>5, <2>1, <2>2, <2>3 DEF GuestInv, RequestsInv
<1>7. \A q : Denied(q) => Denied(q)'
  BY <1>1, <1>3 DEF Denied
<1>. QED  BY <1>5, <1>6, <1>7 DEF GuestInv, PageIsPolled, Polling

\* A join that is queued makes a request that no page is of yet.
LEMMA QueuedKeeps ==
    ASSUME TabInv, GuestInv, JoinQueued, issued \in Nat
    PROVE  GuestInv'
<1>. DEFINE q == Request(joining, issued + 1)
            r == [request |-> q, status |-> "waiting"]
<1>1. /\ issued' = issued + 1 /\ requests' = requests \cup {r}
      /\ waiting' = [waiting EXCEPT ![joining] = q] /\ view' = WaitingPage(q)
      /\ UNCHANGED <<page, polls, waitingError>>
  BY DEF JoinQueued, Push, callVars
<1>2. q \in LobbyRequests /\ q.id = issued + 1
  BY DEF JoinQueued, TabInv, Request, LobbyRequests
<1>3. r.request = q /\ r \in [request : LobbyRequests, status : {"waiting", "approved", "denied"}]
  BY <1>2
<1>4. \A t \in requests : t.request # q /\ t.request.id \in Nat /\ t.request.id <= issued
  BY <1>2 DEF GuestInv, RequestsInv, LobbyRequests
<1>. HIDE DEF r
<1>5. Requested' = Requested \cup {q}
  BY <1>1, <1>3 DEF Requested
<1>. HIDE DEF q
<1>6. RequestsInv'
  <2>1. \A t \in requests' : t.request.id <= issued'
    BY <1>1, <1>2, <1>3, <1>4
  <2>2. \A t, u \in requests' : t.request = u.request => t = u
    BY <1>1, <1>3, <1>4 DEF GuestInv, RequestsInv
  <2>3. \A s \in Slugs : waiting'[s] # None => waiting'[s] \in Requested'
    <3>1. \A s \in Slugs : waiting'[s] = waiting[s] \/ waiting'[s] = q
      BY <1>1 DEF GuestInv, RequestsInv
    <3>. QED  BY <1>5, <3>1 DEF GuestInv, RequestsInv
  <2>4. DOMAIN waiting' = Slugs
    BY <1>1 DEF GuestInv, RequestsInv
  <2>. QED  BY <1>1, <1>3, <1>5, <2>1, <2>2, <2>3, <2>4 DEF GuestInv, RequestsInv
<1>7. page.kind = "waiting" /\ ~waitingError => view' # page
  <2>1. page.kind = "waiting" /\ ~waitingError => page.id # q.id
    BY <1>2, <1>4 DEF GuestInv, RequestsInv, Requested, Request
  <2>. QED  BY <1>1, <2>1 DEF WaitingPage
<1>. QED  BY <1>1, <1>6, <1>7 DEF GuestInv, PageIsPolled

LEMMA GuestInductive ==
    ASSUME CallInv, TabInv, GuestInv, [Next]_vars
    PROVE  GuestInv'
<1>. DEFINE steady == /\ UNCHANGED <<page, issued, requests, polls, waitingError, waiting>>
                      /\ UNCHANGED view \/ view'.kind # "waiting"
<1>0. DOMAIN waiting = Slugs /\ \A s \in Slugs : waiting[s] # None => waiting[s] \in Requested
  BY DEF GuestInv, RequestsInv
<1>1. CASE steady
  <2>1. Requested' = Requested /\ \A q : Denied(q)' = Denied(q)
    BY <1>1 DEF Requested, Denied
  <2>2. RequestsInv'
    BY <1>1, <2>1 DEF GuestInv, RequestsInv
  <2>. QED  BY <1>1, <2>1, <2>2 DEF GuestInv, PageIsPolled, Polling
<1>2. CASE Render
  BY <1>0, <1>2, EffectsPoll DEF Render, TabInv
<1>3. CASE Navigate
  <2>1. PICK v \in Views \ {page} : Show(v) /\ UNCHANGED <<waiting, issued, requests>>
    BY <1>3 DEF Navigate
  <2>. QED  BY <1>0, <2>1, ViewsArePages, EffectsPoll DEF Show
<1>4. CASE LeaveCall \/ BackFromWaiting
  <2>. DEFINE v == RoomPage(page.slug)
  <2>1. RunEffects(v, TRUE) /\ view' = v /\ UNCHANGED <<issued, requests>>
    BY <1>4 DEF LeaveCall, BackFromWaiting, Show
  <2>2. IsPage(v)
    BY <1>4 DEF LeaveCall, BackFromWaiting, TabInv, RoomPage, IsPage
  <2>3. v.kind = "room" /\ page.kind # "room"
    BY <1>4 DEF LeaveCall, BackFromWaiting, RoomPage
  <2>4. DOMAIN waiting' = Slugs /\ \A s \in Slugs : waiting'[s] # None => waiting'[s] \in Requested
    <3>1. waiting' = waiting \/ waiting' = [waiting EXCEPT ![page.slug] = None]
      BY <1>4 DEF LeaveCall, BackFromWaiting
    <3>2. DOMAIN waiting' = Slugs /\ \A s \in Slugs : waiting'[s] \in {waiting[s], None}
      BY <1>0, <3>1
    <3>. QED  BY <1>0, <3>2
  <2>. HIDE DEF v
  <2>. QED  BY <2>1, <2>2, <2>3, <2>4, EffectsPoll
<1>5. CASE Reload
  <2>1. page'.kind # "waiting" /\ UNCHANGED <<waiting, issued, requests>>
    BY <1>5 DEF Reload, Home
  <2>2. RequestsInv'
    BY <2>1 DEF GuestInv, RequestsInv, Requested
  <2>. QED  BY <2>1, <2>2 DEF GuestInv, PageIsPolled
<1>6. CASE JoinQueued
  BY <1>6, QueuedKeeps DEF TabInv
<1>7. CASE Decide
  BY <1>7, DecideKeeps
<1>8. CASE Poll
  BY <1>8, PollKeeps DEF Poll
<1>9. CASE Call
  <2>1. UNCHANGED <<page, tabVars>>
    BY <1>9, ConnectingKeeps DEF Call
  <2>. QED  BY <1>1, <2>1 DEF tabVars
<1>10. CASE UNCHANGED vars \/ LoadRoom \/ SubmitJoin \/ JoinRefused
  BY <1>1, <1>10 DEF vars, callVars, tabVars, LoadRoom, SubmitJoin, JoinRefused
<1>11. CASE JoinDirect
  <2>1. /\ UNCHANGED <<page, requests, polls, waitingError, waiting>>
        /\ issued' = issued + 1 /\ view'.kind = "call"
    BY <1>11 DEF JoinDirect, Push, callVars, CallPage
  <2>2. \A r \in requests : r.request.id <= issued'
    BY <2>1 DEF GuestInv, RequestsInv, TabInv, LobbyRequests
  <2>3. RequestsInv'
    BY <2>1, <2>2 DEF GuestInv, RequestsInv, Requested
  <2>. QED  BY <2>1, <2>3 DEF GuestInv, PageIsPolled
<1>. QED
  BY <1>2, <1>3, <1>4, <1>5, <1>6, <1>7, <1>8, <1>9, <1>10, <1>11 DEF Next

LEMMA GuestInvariant == Spec => []GuestInv
<1>1. Init => GuestInv
  BY DEF Init, CallInit, Home, GuestInv, RequestsInv, PageIsPolled
<1>. QED  BY <1>1, TabInvariant, GuestInductive, PTL DEF Spec

\* Whatever is answered, lost or decided meanwhile, and wherever the guest has been, a
\* waiting page is polled for its own request until it shows how the wait ended.
THEOREM GuestsArePolled == Spec => []GuestIsPolled
<1>1. TabInv /\ GuestInv => GuestIsPolled
  <2>. SUFFICES ASSUME TabInv, GuestInv, page.kind = "waiting", view = page, ~waitingError,
                       ~Denied(Request(page.slug, page.id))
                PROVE  \E p \in polls : p.request = Request(page.slug, page.id) /\ ~p.cancelled
    BY DEF GuestIsPolled, Denied
  <2>1. PICK p \in polls : ~p.cancelled
    BY DEF GuestInv, PageIsPolled, Polling
  <2>2. page = WaitingPage(p.request) /\ p.request \in LobbyRequests
    BY <2>1 DEF TabInv, PollInv, Polled
  <2>. QED  BY <2>1, <2>2 DEF WaitingPage, Request, LobbyRequests
<1>. QED  BY <1>1, TabInvariant, GuestInvariant, PTL
=============================================================================
