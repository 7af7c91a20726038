----------------------------- MODULE PartsProofs -----------------------------
(***************************************************************************)
(* Proofs about the parts that MCParts puts side by side: the negotiation  *)
(* of two P2P clients, for any number of ICE candidates; the ladder, the   *)
(* prompt and the limits of one call, for any caps, join choices and       *)
(* length of run; the Redis limiter and the creation gate, for any window, *)
(* threshold and cooldown; the chat list, which implements the buffer for  *)
(* any number of servers and capacity; the validators, for any body; and   *)
(* that MCParts is each of them for itself.                                *)
(***************************************************************************)
EXTENDS MCParts, WindowLemmas

-----------------------------------------------------------------------------
(* Two clients that negotiate.                                             *)

\* A connection is open exactly while its ref holds it, and nothing holds a connection or
\* works on one before the token was granted; a drain or an answer follows the remote
\* description.  So no handler ever meets a closed connection.
RefIsOpen(p) == p \in ref <=> pc[p] = "open"

NothingBeforeToken(p) ==
    p \in config \/ p \in ref \/ answering[p] # "none" => initiating[p] \in {"offer", "over"}

AnswersDescribed(p) ==
    answering[p] \in {"drain", "answer"} /\ pc[p] = "open" => p \in remote

Negotiates(p) ==
    /\ RefIsOpen(p) /\ NothingBeforeToken(p) /\ AnswersDescribed(p)
    /\ added[p] # {} => p \in remote
    /\ pc[p] = "open" => got[p] \subseteq added[p] \cup pending[p]
    /\ status[p] = "failed" => p \in broken

NegotiationInv == P2PTypeOK /\ \A p \in Peers : Negotiates(p)

LEMMA SendTyped ==
    ASSUME P2PTypeOK, NEW p \in Peers, NEW frame \in Frames, Send(p, frame)
    PROVE  channel' \in [Peers -> Seq(Frames)]
<1>1. Other(p) \in Peers
  BY DEF Other, Peers
<1>2. channel[Other(p)] \in Seq(Frames) /\ channel \in [Peers -> Seq(Frames)]
  BY <1>1 DEF P2PTypeOK
<1>3. Append(channel[Other(p)], frame) \in Seq(Frames)
  BY <1>2
<1>. QED  BY <1>2, <1>3 DEF Send

LEMMA TakeTyped ==
    ASSUME P2PTypeOK, NEW p \in Peers, NEW kind, Take(p, kind)
    PROVE  /\ channel' \in [Peers -> Seq(Frames)]
           /\ Head(channel[p]) \in Frames /\ Head(channel[p]).kind = kind
<1>1. channel[p] \in Seq(Frames) /\ channel[p] # <<>>
  BY DEF P2PTypeOK, Take, Has
<1>2. Tail(channel[p]) \in Seq(Frames) /\ Head(channel[p]) \in Frames
  BY <1>1
<1>. QED  BY <1>2 DEF P2PTypeOK, Take, Has

LEMMA CandidateTyped ==
    ASSUME P2PTypeOK, NEW p \in Peers, Take(p, "ice")
    PROVE  Head(channel[p]).n \in Candidates
BY TakeTyped DEF Frames

\* The types.
LEMMA P2PTypeInductive ==
    ASSUME P2PTypeOK, [P2PNext]_p2pVars
    PROVE  P2PTypeOK'
<1>. USE DEF P2PTypeOK
<1>1. CASE UNCHANGED p2pVars
  BY <1>1 DEF p2pVars
<1>2. ASSUME NEW p \in Peers, Register(p) \/ Close(p)  PROVE P2PTypeOK'
  <2>1. socket' \in [Peers -> {"new", "registered", "closed"}]
    BY <1>2 DEF Register, Close
  <2>2. channel' \in [Peers -> Seq(Frames)]
    <3>1. <<>> \in Seq(Frames)
      OBVIOUS
    <3>. QED  BY <1>2, <3>1 DEF Register, Close
  <2>. QED  BY <1>2, <2>1, <2>2 DEF Register, Close
<1>3. ASSUME NEW p \in Peers, Initiate(p)  PROVE P2PTypeOK'
  <2>. USE <1>3 DEF Initiate
  <2>1. status' \in [Peers -> Statuses] /\ initiating' \in [Peers -> InitiateStages]
    BY DEF Statuses, InitiateStages
  <2>2. pending' \in [Peers -> SUBSET Candidates]
    OBVIOUS
  <2>. QED  BY <2>1, <2>2
<1>4. ASSUME NEW p \in Peers, TokenRefused(p)  PROVE P2PTypeOK'
  <2>. USE <1>4 DEF TokenRefused
  <2>1. status' \in [Peers -> Statuses] /\ initiating' \in [Peers -> InitiateStages]
    BY DEF Statuses, InitiateStages
  <2>. QED  BY <2>1
<1>5. ASSUME NEW p \in Peers, CreatePeerConnection(p)
      PROVE  /\ pc' \in [Peers -> {"none", "open", "closed"}]
             /\ UNION {ref', local', remote'} \subseteq Peers
             /\ {added', got'} \subseteq [Peers -> SUBSET Candidates]
  <2>1. added' \in [Peers -> SUBSET Candidates] /\ got' \in [Peers -> SUBSET Candidates]
    BY <1>5 DEF CreatePeerConnection
  <2>. QED  BY <1>5, <2>1 DEF CreatePeerConnection
<1>6. ASSUME NEW p \in Peers, TokenGranted(p)  PROVE P2PTypeOK'
  <2>. USE <1>6 DEF TokenGranted
  <2>1. status' \in [Peers -> Statuses] /\ initiating' \in [Peers -> InitiateStages]
    BY DEF Statuses, InitiateStages
  <2>2. CASE p = Caller
    BY <2>1, <2>2, <1>5
  <2>3. CASE p # Caller
    BY <2>1, <2>3
  <2>. QED  BY <2>2, <2>3
<1>7. ASSUME NEW p \in Peers, OfferMade(p) \/ AnswerMade(p)  PROVE P2PTypeOK'
  <2>1. [kind |-> "offer"] \in Frames /\ [kind |-> "answer"] \in Frames
    BY DEF Frames
  <2>2. channel' \in [Peers -> Seq(Frames)]
    BY <1>7, <2>1, SendTyped DEF OfferMade, AnswerMade
  <2>3. initiating' \in [Peers -> InitiateStages] /\ answering' \in [Peers -> AnswerStages]
    BY <1>7 DEF OfferMade, AnswerMade, InitiateStages, AnswerStages
  <2>. QED  BY <1>7, <2>2, <2>3 DEF OfferMade, AnswerMade
<1>8. ASSUME NEW p \in Peers, CandidateFound(p)  PROVE P2PTypeOK'
  <2>1. found' \in [Peers -> 0..MaxCandidates] /\ found'[p] \in Candidates
    BY <1>8, P2PAssumption DEF CandidateFound, Candidates
  <2>2. [kind |-> "ice", n |-> found'[p]] \in Frames
    BY <2>1 DEF Frames
  <2>3. channel' \in [Peers -> Seq(Frames)]
    BY <1>8, <2>2, SendTyped DEF CandidateFound
  <2>. QED  BY <1>8, <2>1, <2>3 DEF CandidateFound
<1>9. ASSUME NEW p \in Peers, ReceiveOffer(p)  PROVE P2PTypeOK'
  <2>. USE <1>9 DEF ReceiveOffer
  <2>1. channel' \in [Peers -> Seq(Frames)]
    BY TakeTyped
  <2>2. CASE p \in config
    <3>1. answering' \in [Peers -> AnswerStages]
      BY <2>2 DEF AnswerStages
    <3>. QED  BY <2>1, <2>2, <3>1, <1>5
  <2>3. CASE p \notin config
    BY <2>1, <2>3
  <2>. QED  BY <2>2, <2>3
<1>10. ASSUME NEW p \in Peers, ReceiveAnswer(p)  PROVE P2PTypeOK'
  <2>1. channel' \in [Peers -> Seq(Frames)]
    BY <1>10, TakeTyped DEF ReceiveAnswer
  <2>2. status' \in [Peers -> Statuses] /\ answering' \in [Peers -> AnswerStages]
    BY <1>10 DEF ReceiveAnswer, Throws, Statuses, AnswerStages
  <2>. QED  BY <1>10, <2>1, <2>2 DEF ReceiveAnswer
<1>11. ASSUME NEW p \in Peers, ReceiveCandidate(p)  PROVE P2PTypeOK'
  <2>1. channel' \in [Peers -> Seq(Frames)] /\ Head(channel[p]).n \in Candidates
    BY <1>11, TakeTyped, CandidateTyped DEF ReceiveCandidate
  <2>2. status' \in [Peers -> Statuses]
    BY <1>11 DEF ReceiveCandidate, Throws, Statuses
  <2>. DEFINE c == Head(channel[p]).n
              with(f) == [f EXCEPT ![p] = @ \cup {c}]
  <2>6. \A f \in [Peers -> SUBSET Candidates] : with(f) \in [Peers -> SUBSET Candidates]
    BY <2>1
  <2>. HIDE DEF c
  <2>3. added' \in [Peers -> SUBSET Candidates]
    <3>1. added' = added \/ added' = with(added)
      BY <1>11 DEF ReceiveCandidate, c
    <3>2. added \in [Peers -> SUBSET Candidates]
      OBVIOUS
    <3>. HIDE DEF with
    <3>. QED  BY <2>6, <3>1, <3>2
  <2>4. pending' \in [Peers -> SUBSET Candidates]
    <3>1. pending' = pending \/ pending' = with(pending)
      BY <1>11 DEF ReceiveCandidate, c
    <3>2. pending \in [Peers -> SUBSET Candidates]
      OBVIOUS
    <3>. HIDE DEF with
    <3>. QED  BY <2>6, <3>1, <3>2
  <2>5. got' \in [Peers -> SUBSET Candidates]
    BY <1>11, <2>1 DEF ReceiveCandidate, Arrived
  <2>. QED  BY <1>11, <2>1, <2>2, <2>3, <2>4, <2>5 DEF ReceiveCandidate
<1>12. ASSUME NEW p \in Peers, RemoteSet(p) \/ Drained(p)  PROVE P2PTypeOK'
  <2>1. answering' \in [Peers -> AnswerStages]
    BY <1>12 DEF RemoteSet, Drained, AnswerStages
  <2>. QED  BY <1>12, <2>1 DEF RemoteSet, Drained
<1>13. ASSUME NEW p \in Peers, Drain(p)  PROVE P2PTypeOK'
  <2>1. added' \in [Peers -> SUBSET Candidates] /\ pending' \in [Peers -> SUBSET Candidates]
    BY <1>13 DEF Drain
  <2>. QED  BY <1>13, <2>1 DEF Drain
<1>14. ASSUME NEW p \in Peers, Connected(p) \/ LinkFailed(p)  PROVE P2PTypeOK'
  <2>1. status' \in [Peers -> Statuses]
    BY <1>14 DEF Connected, LinkFailed, Statuses
  <2>. QED  BY <1>14, <2>1 DEF Connected, LinkFailed
<1>15. ASSUME NEW p \in Peers, Cleanup(p)  PROVE P2PTypeOK'
  <2>. USE <1>15 DEF Cleanup
  <2>1. status' \in [Peers -> Statuses] /\ pc' \in [Peers -> {"none", "open", "closed"}]
    BY DEF Statuses
  <2>2. pending' \in [Peers -> SUBSET Candidates]
    OBVIOUS
  <2>. QED  BY <2>1, <2>2
<1>. QED
  BY <1>1, <1>2, <1>3, <1>4, <1>6, <1>7, <1>8, <1>9, <1>10, <1>11, <1>12, <1>13, <1>14, <1>15
  DEF P2PNext, Settling, Receiving

\* The strengthened invariant, one action at a time.
LEMMA NegotiationInductive ==
    ASSUME NegotiationInv, [P2PNext]_p2pVars
    PROVE  NegotiationInv'
<1>1. P2PTypeOK /\ P2PTypeOK'
  BY P2PTypeInductive DEF NegotiationInv
<1>2. /\ DOMAIN status = Peers /\ DOMAIN pc = Peers /\ DOMAIN added = Peers
      /\ DOMAIN pending = Peers /\ DOMAIN got = Peers /\ DOMAIN initiating = Peers
      /\ DOMAIN answering = Peers
  BY <1>1 DEF P2PTypeOK
<1>3. SUFFICES ASSUME NEW q \in Peers  PROVE Negotiates(q)'
  BY <1>1 DEF NegotiationInv
<1>4. Negotiates(q)
  BY DEF NegotiationInv
<1>. USE <1>2, <1>4 DEF Negotiates, RefIsOpen, NothingBeforeToken, AnswersDescribed
<1>5. CASE UNCHANGED p2pVars
  BY <1>5 DEF p2pVars
<1>6. ASSUME NEW p \in Peers, Register(p) \/ Close(p) \/ CandidateFound(p)
      PROVE  Negotiates(q)'
  BY <1>6 DEF Register, Close, CandidateFound
<1>7. ASSUME NEW p \in Peers, Initiate(p)  PROVE Negotiates(q)'
  BY <1>7 DEF Initiate
<1>8. ASSUME NEW p \in Peers, TokenRefused(p)  PROVE Negotiates(q)'
  BY <1>8 DEF TokenRefused
<1>9. ASSUME NEW p \in Peers, TokenGranted(p)  PROVE Negotiates(q)'
  BY <1>9 DEF TokenGranted, CreatePeerConnection
<1>10. ASSUME NEW p \in Peers, OfferMade(p)  PROVE Negotiates(q)'
  BY <1>10 DEF OfferMade
<1>11. ASSUME NEW p \in Peers, ReceiveOffer(p)  PROVE Negotiates(q)'
  BY <1>11 DEF ReceiveOffer, CreatePeerConnection
<1>12. ASSUME NEW p \in Peers, ReceiveAnswer(p)  PROVE Negotiates(q)'
  <2>1. ~(p \in ref /\ pc[p] # "open")
    BY DEF NegotiationInv
  <2>. QED  BY <1>12, <2>1 DEF ReceiveAnswer
<1>13. ASSUME NEW p \in Peers, ReceiveCandidate(p)  PROVE Negotiates(q)'
  <2>1. ~(p \in ref /\ pc[p] # "open")
    BY DEF NegotiationInv
  <2>. QED  BY <1>13, <2>1 DEF ReceiveCandidate, Arrived
<1>14. ASSUME NEW p \in Peers, RemoteSet(p) \/ Drained(p) \/ AnswerMade(p)
       PROVE  Negotiates(q)'
  BY <1>14 DEF RemoteSet, Drained, AnswerMade, At
<1>15. ASSUME NEW p \in Peers, Drain(p)  PROVE Negotiates(q)'
  <2>1. p = q => p \in remote
    BY <1>15 DEF Drain, At
  <2>. QED  BY <1>15, <2>1 DEF Drain, At
<1>16. ASSUME NEW p \in Peers, Connected(p) \/ LinkFailed(p)  PROVE Negotiates(q)'
  BY <1>16 DEF Connected, LinkFailed
<1>17. ASSUME NEW p \in Peers, Cleanup(p)  PROVE Negotiates(q)'
  BY <1>17 DEF Cleanup
<1>. QED
  BY <1>5, <1>6, <1>7, <1>8, <1>9, <1>10, <1>11, <1>12, <1>13, <1>14, <1>15, <1>16, <1>17
  DEF P2PNext, Settling, Receiving

LEMMA NegotiationInvariant == P2PSpec => []NegotiationInv
<1>1. P2PInit => NegotiationInv
  <2>1. P2PInit => P2PTypeOK
    <3>1. <<>> \in Seq(Frames)
      OBVIOUS
    <3>. QED  BY <3>1, P2PAssumption DEF P2PInit, P2PTypeOK, Statuses, InitiateStages, AnswerStages
  <2>2. P2PInit => \A p \in Peers : Negotiates(p)
    BY DEF P2PInit, Negotiates, RefIsOpen, NothingBeforeToken, AnswersDescribed
  <2>. QED  BY <2>1, <2>2 DEF NegotiationInv
<1>. QED  BY <1>1, NegotiationInductive, PTL DEF P2PSpec

\* For any number of candidates on each side, none is given to a connection that has no
\* remote description, and none that arrived for one is lost.
THEOREM CandidatesAreSafe == P2PSpec => []CandidatesSafe
<1>1. NegotiationInv => CandidatesSafe
  BY DEF NegotiationInv, Negotiates, CandidatesSafe, NoEarlyCandidate, CandidatesKept
<1>. QED  BY <1>1, NegotiationInvariant, PTL

\* Whatever arrives after the user left, no handler throws: the status becomes failed only
\* when the server refused a token or the link broke.
THEOREM FailuresAreReal == P2PSpec => []FailureIsReal
<1>1. NegotiationInv => FailureIsReal
  BY DEF NegotiationInv, Negotiates, FailureIsReal
<1>. QED  BY <1>1, NegotiationInvariant, PTL

-----------------------------------------------------------------------------
(* The ladder and the prompt of one call.                                  *)

\* Without a call the ladder is at its top; the prompt is hidden above its bottom, where a
\* dismissal is at least as old as the rung; paused and age count together at the bottom; a
\* dismissed prompt waits with its timers in step; and one that is hidden or shown there
\* was not dismissed in this pause, or a minute ago.
LadderInv ==
    /\ rung \in 0..Paused /\ age \in 0..Trigger
    /\ lasted \in 0..(Paused * Dwell + Trigger)
    /\ paused \in 0..Cooldown
    /\ quiet \in (0..Cooldown) \cup {NotDismissed}
    /\ ~active => rung = 0
    /\ LadderPaced

PromptInv ==
    /\ prompt \in {"hidden", "suggested", "accepted", "dismissed"}
    /\ rung # Paused => prompt = "hidden" /\ quiet >= age
    /\ rung = Paused => age = UpTo(Trigger, paused)
    /\ rung = Paused /\ prompt \in {"hidden", "suggested"} => quiet >= Cooldown \/ quiet > paused
    /\ prompt \in {"suggested", "dismissed"} => age = Trigger
    /\ prompt = "dismissed" => dismissedAge = quiet /\ quiet # NotDismissed

QualityInv == LadderInv /\ PromptInv

\* A tick, a change of health or a click on Restore goes at most one rung down, and only
\* after the dwell.
LEMMA NextRungStays ==
    ASSUME NEW h, NEW r \in 0..Paused, NEW since \in 0..Trigger
    PROVE  /\ NextRung(h, r, since) \in 0..Paused
           /\ NextRung(h, r, since) <= r + 1
           /\ since < Dwell => NextRung(h, r, since) <= r
BY DEF NextRung, Paused, Trigger, Dwell

LEMMA GoToKeeps ==
    ASSUME QualityInv, NEW r \in 0..Paused, r <= rung + 1, age < Dwell => r <= rung,
           active, active', UNCHANGED quiet, GoTo(r),
           lasted' = lasted \/ (r = 0 /\ rung # 0 /\ lasted' = 0)
    PROVE  QualityInv'
<1>. USE DEF QualityInv, Paused, Trigger, Dwell, Cooldown, NotDismissed
<1>1. LadderInv'
  BY DEF GoTo, LadderInv, PromptInv, LadderPaced
<1>2. PromptInv'
  <2>. DEFINE step == PromptStep(r, age', prompt, dismissedAge)
  <2>1. /\ rung' = r /\ prompt' = step.state /\ dismissedAge' = step.dismissed /\ quiet' = quiet
        /\ r = rung => age' = age /\ paused' = paused
        /\ r # rung => age' = 0 /\ paused' = 0
    BY DEF GoTo, RunPromptEffect
  <2>2. CASE r # Paused
    <3>1. step.state = "hidden"
      BY <2>2 DEF PromptStep
    <3>2. quiet >= age'
      BY <2>1, <2>2 DEF PromptInv, LadderInv
    <3>. HIDE DEF step
    <3>. QED  BY <2>1, <2>2, <3>1, <3>2 DEF PromptInv
  <2>3. CASE r = Paused /\ rung # Paused
    <3>1. prompt = "hidden" /\ quiet >= 1 /\ age' = 0 /\ paused' = 0
      BY <2>1, <2>3 DEF PromptInv, LadderInv
    <3>2. step.state = "hidden"
      BY <2>3, <3>1 DEF PromptStep
    <3>3. quiet \in Int
      BY DEF LadderInv
    <3>. HIDE DEF step
    <3>. QED  BY <2>1, <2>3, <3>1, <3>2, <3>3 DEF PromptInv, UpTo
  <2>4. CASE r = Paused /\ rung = Paused
    <3>1. UNCHANGED <<rung, age, paused, quiet>>
      BY <2>1, <2>4
    <3>2. \/ step = [state |-> prompt, dismissed |-> dismissedAge]
          \/ /\ prompt \in {"hidden", "dismissed"} /\ age = Trigger
             /\ prompt = "dismissed" => dismissedAge >= Cooldown
             /\ step = [state |-> "suggested", dismissed |-> NotDismissed]
      BY <2>4, <3>1 DEF PromptStep, PromptInv, LadderInv
    <3>3. step = [state |-> prompt, dismissed |-> dismissedAge] => PromptInv'
      BY <2>1, <3>1 DEF PromptInv
    <3>4. step.state = "suggested" /\ prompt \in {"hidden", "dismissed"} /\ age = Trigger
          /\ (prompt = "dismissed" => dismissedAge >= Cooldown) => PromptInv'
      <4>. HAVE step.state = "suggested" /\ prompt \in {"hidden", "dismissed"} /\ age = Trigger
                /\ (prompt = "dismissed" => dismissedAge >= Cooldown)
      <4>1. prompt' = "suggested" /\ rung' = Paused /\ age' = Trigger /\ age' = UpTo(Trigger, paused')
            /\ UNCHANGED <<paused, quiet>>
        BY <2>1, <2>4, <3>1 DEF PromptInv
      <4>2. quiet >= Cooldown \/ quiet > paused
        BY <2>4 DEF PromptInv
      <4>. HIDE DEF step
      <4>. QED  BY <4>1, <4>2 DEF PromptInv
    <3>. QED  BY <3>2, <3>3, <3>4
  <2>. QED  BY <2>2, <2>3, <2>4
<1>. QED  BY <1>1, <1>2

LEMMA QualityInductive ==
    ASSUME QualityInv, [QNext]_qualityVars
    PROVE  QualityInv'
<1>0. rung \in 0..Paused /\ age \in 0..Trigger
  BY DEF QualityInv, LadderInv
<1>1. CASE UNCHANGED qualityVars
  BY <1>1 DEF qualityVars, QualityInv, LadderInv, PromptInv, LadderPaced
<1>2. CASE Connect \/ CapChange \/ ToggleCamera
  BY <1>2 DEF Connect, CapChange, ToggleCamera, QualityInv, LadderInv, PromptInv, LadderPaced
<1>3. CASE Idle
  BY <1>3 DEF Idle, QualityInv, LadderInv, PromptInv, LadderPaced, Paused, Trigger, Dwell
<1>4. CASE Reset
  BY <1>4 DEF Reset, QualityInv, LadderInv, PromptInv, LadderPaced, Paused, Trigger, Dwell,
              Cooldown, NotDismissed, UpTo
<1>5. CASE Tick
  <2>1. NextRung(health, rung, age) \in 0..Paused /\ NextRung(health, rung, age) <= rung + 1
        /\ (age < Dwell => NextRung(health, rung, age) <= rung)
    BY <1>0, NextRungStays
  <2>2. GoTo(NextRung(health, rung, age)) /\ active /\ active' /\ lasted' = lasted /\ quiet' = quiet
    BY <1>5 DEF Tick
  <2>. QED  BY <2>1, <2>2, GoToKeeps
<1>6. CASE HealthChange
  <2>1. PICK h \in Healths(TRUE) : GoTo(NextRung(h, rung, age))
    BY <1>6 DEF HealthChange
  <2>2. NextRung(h, rung, age) \in 0..Paused /\ NextRung(h, rung, age) <= rung + 1
        /\ (age < Dwell => NextRung(h, rung, age) <= rung)
    BY <1>0, NextRungStays
  <2>3. active /\ active' /\ lasted' = lasted /\ quiet' = quiet
    BY <1>6 DEF HealthChange
  <2>. QED  BY <2>1, <2>2, <2>3, GoToKeeps
<1>7. CASE Restore
  BY <1>0, <1>7, GoToKeeps DEF Restore, Dwell, Paused
<1>8. CASE AcceptAudioOnly \/ Dismiss
  <2>1. LadderInv'
    BY <1>8 DEF AcceptAudioOnly, Dismiss, QualityInv, LadderInv, LadderPaced, Cooldown, NotDismissed
  <2>2. PromptInv'
    BY <1>8 DEF AcceptAudioOnly, Dismiss, QualityInv, PromptInv, NotDismissed
  <2>. QED  BY <2>1, <2>2 DEF QualityInv
<1>9. CASE Elapse
  <2>1. LadderInv'
    BY <1>9 DEF Elapse, Older, UpTo, QualityInv, LadderInv, LadderPaced, Paused, Trigger, Dwell,
                Cooldown, NotDismissed
  <2>2. /\ age \in 0..3 /\ paused \in 0..6 /\ quiet \in (0..6) \cup {99}
        /\ age' = UpTo(3, age + 1) /\ paused' = (IF rung = Paused THEN UpTo(6, paused + 1) ELSE 0)
        /\ quiet' = Older(6, quiet) /\ dismissedAge' = Older(6, dismissedAge)
        /\ UNCHANGED <<rung, prompt>>
    BY <1>9 DEF Elapse, QualityInv, LadderInv, Trigger, Cooldown, NotDismissed
  <2>3. quiet >= age => quiet' >= age'
    BY <2>2 DEF Older, UpTo, NotDismissed
  <2>4. rung = Paused /\ age = UpTo(3, paused) => age' = UpTo(3, paused')
    BY <2>2 DEF UpTo
  <2>5. rung = Paused /\ (quiet >= 6 \/ quiet > paused) => quiet' >= 6 \/ quiet' > paused'
    BY <2>2 DEF Older, UpTo, NotDismissed
  <2>6. (age = 3 => age' = 3) /\ (quiet # 99 => quiet' # 99)
    BY <2>2 DEF Older, UpTo, NotDismissed
  <2>7. PromptInv'
    BY <2>2, <2>3, <2>4, <2>5, <2>6 DEF QualityInv, PromptInv, Trigger, Cooldown, NotDismissed
  <2>. QED  BY <2>1, <2>7 DEF QualityInv
<1>. QED  BY <1>1, <1>2, <1>3, <1>4, <1>5, <1>6, <1>7, <1>8, <1>9 DEF QNext

LEMMA QualityInvariant == QSpec => []QualityInv
<1>1. QInit => QualityInv
  BY DEF QInit, QualityInv, LadderInv, PromptInv, LadderPaced, Paused, Trigger, Dwell,
         Cooldown, NotDismissed, UpTo
<1>. QED  BY <1>1, QualityInductive, PTL DEF QSpec

\* Whatever the link and the renders do, for a call of any length, each rung was held for
\* the dwell since the ladder was last reset.
THEOREM LadderIsPaced == QSpec => []LadderPaced
<1>1. QualityInv => LadderPaced
  BY DEF QualityInv, LadderInv
<1>. QED  BY <1>1, QualityInvariant, PTL

\* The prompt comes only after thirty seconds of paused video in one go, and within a
\* minute of a dismissal only in a later pause than the one it was dismissed in.
THEOREM UserIsNotNagged == QSpec => []NotNagged
<1>1. QualityInv => NotNagged
  BY DEF QualityInv, LadderInv, PromptInv, NotNagged, Cooldown, UpTo, Trigger
<1>. QED  BY <1>1, QualityInvariant, PTL

\* What is derived from preset, cap and limits, before the ladder.
PublishOptions ==
    [width : Nat, height : Nat, fps : Nat, kbps : Nat, audioOnly : BOOLEAN]

Within(options, p) ==
    /\ options.width <= PresetProfiles[p].width /\ options.height <= PresetProfiles[p].height
    /\ options.fps <= PresetProfiles[p].fps /\ options.kbps <= PresetProfiles[p].kbps

LEMMA Profiles ==
    /\ DOMAIN PresetProfiles = {"data_saver", "balanced", "best_quality"}
    /\ DOMAIN PresetRank = {"data_saver", "balanced", "best_quality"}
    /\ DOMAIN CapRank = {"low", "balanced", "high"}
    /\ DOMAIN ResolutionPixels = {"p240", "p360", "p480", "p720"}
    /\ \A p \in DOMAIN PresetProfiles : DOMAIN PresetProfiles[p] = {"width", "height", "fps", "kbps"}
BY DEF PresetProfiles, PresetRank, CapRank, ResolutionPixels

LEMMA ClampIsAllowed ==
    ASSUME NEW preset \in DOMAIN PresetRank, NEW limit \in DOMAIN CapRank
    PROVE  ClampPresetToCap(preset, limit) \in Allowed[limit]
<1>1. CASE PresetRank[preset] <= CapRank[limit]
  BY <1>1, Profiles DEF ClampPresetToCap, PresetRank, CapRank, Allowed
<1>2. CASE ~(PresetRank[preset] <= CapRank[limit])
  <2>1. \E p \in DOMAIN PresetRank : PresetRank[p] = CapRank[limit]
    BY Profiles DEF PresetRank, CapRank
  <2>2. \A p \in DOMAIN PresetRank : PresetRank[p] = CapRank[limit] => p \in Allowed[limit]
    BY Profiles DEF PresetRank, CapRank, Allowed
  <2>. QED  BY <1>2, <2>1, <2>2 DEF ClampPresetToCap
<1>. QED  BY <1>1, <1>2

\* The user's own limits only ever lower the preset.
LEMMA EffectiveWithin ==
    ASSUME NEW c \in JoinChoice, NEW limit \in DOMAIN CapRank
    PROVE  LET options == EffectivePublishOptions(c.preset, limit, c.prefs) IN
           /\ options \in PublishOptions /\ options.width >= 320 /\ options.height >= 240
           /\ \E p \in Allowed[limit] : p \in DOMAIN PresetProfiles /\ Within(options, p)
<1> DEFINE p == ClampPresetToCap(c.preset, limit)
           profile == PresetProfiles[p]
           pixels == ResolutionPixels[c.prefs.resolution]
           options == EffectivePublishOptions(c.preset, limit, c.prefs)
<1>1. p \in Allowed[limit] /\ p \in DOMAIN PresetProfiles
  <2>1. p \in Allowed[limit]
    BY ClampIsAllowed DEF JoinChoice
  <2>. QED  BY <2>1, Profiles DEF Allowed
<1>. HIDE DEF p
<1>2. c.prefs.fps \in Nat /\ c.prefs.kbps \in Nat /\ c.prefs.audioOnly \in BOOLEAN
      /\ c.prefs.resolution \in {"unset", "p240", "p360", "p480", "p720"}
  BY Profiles DEF JoinChoice
<1>3. /\ profile.width \in Nat /\ profile.height \in Nat /\ profile.fps \in Nat /\ profile.kbps \in Nat
      /\ profile.width >= 320 /\ profile.height >= 240
  BY <1>1 DEF PresetProfiles
<1>4. c.prefs.resolution # "unset" /\ Area(pixels) < Area(profile) =>
          /\ pixels.width \in Nat /\ pixels.height \in Nat /\ pixels.width >= 320 /\ pixels.height >= 240
          /\ pixels.width <= profile.width /\ pixels.height <= profile.height
  BY <1>1, <1>2, Profiles DEF PresetProfiles, ResolutionPixels, Area
<1>. HIDE DEF pixels, profile
<1>5. \A own, limited \in Nat : Tighter(own, limited) \in Nat /\ Tighter(own, limited) <= limited
  BY DEF Tighter
<1> DEFINE source == IF c.prefs.resolution # "unset" /\ Area(pixels) < Area(profile) THEN pixels ELSE profile
<1>6. source.width \in Nat /\ source.height \in Nat /\ source.width >= 320 /\ source.height >= 240
      /\ source.width <= profile.width /\ source.height <= profile.height
  BY <1>3, <1>4
<1>7. options = [width |-> source.width, height |-> source.height,
                 fps |-> Tighter(c.prefs.fps, profile.fps), kbps |-> Tighter(c.prefs.kbps, profile.kbps),
                 audioOnly |-> c.prefs.audioOnly]
  BY DEF EffectivePublishOptions, p, profile, pixels
<1>. HIDE DEF source, options
<1>8. options \in PublishOptions
  BY <1>2, <1>3, <1>5, <1>6, <1>7 DEF PublishOptions
<1>9. Within(options, p)
  BY <1>2, <1>3, <1>5, <1>6, <1>7 DEF Within, profile
<1>. QED  BY <1>1, <1>6, <1>7, <1>8, <1>9 DEF options

\* Down the ladder nothing gets larger than it was, or than the floor of its rung.
LEMMA RungLowers ==
    ASSUME NEW base \in PublishOptions, base.width >= 320, base.height >= 240, NEW r \in 0..Paused
    PROVE  LET options == DeriveRungOptions(base, r) IN
           /\ options \in PublishOptions
           /\ options.width <= base.width /\ options.height <= base.height
           /\ options.fps <= AtLeast(6, base.fps) /\ options.kbps <= AtLeast(50, base.kbps)
<1> DEFINE low == AtLeast(50, base.kbps \div 2)
           halfRate == [base EXCEPT !.kbps = low]
           halfSize == [halfRate EXCEPT !.width = AtLeast(160, @ \div 2), !.height = AtLeast(120, @ \div 2)]
<1>1. base.width \in Nat /\ base.height \in Nat /\ base.fps \in Nat /\ base.kbps \in Nat
      /\ DOMAIN base = {"width", "height", "fps", "kbps", "audioOnly"}
  BY DEF PublishOptions
<1>2. \A floor, n \in Nat : /\ AtLeast(floor, n \div 2) \in Nat /\ AtLeast(floor, n) \in Nat
                            /\ AtLeast(floor, n \div 2) <= AtLeast(floor, n)
                            /\ n >= 2 * floor => AtLeast(floor, n \div 2) <= n
                            /\ n <= AtLeast(floor, n)
  BY DEF AtLeast
<1>3. /\ halfRate \in PublishOptions
      /\ halfRate.width = base.width /\ halfRate.height = base.height /\ halfRate.fps = base.fps
      /\ halfRate.kbps <= AtLeast(50, base.kbps)
  BY <1>1, <1>2 DEF PublishOptions
<1>. HIDE DEF halfRate
<1>4. /\ halfSize \in PublishOptions
      /\ halfSize.width <= base.width /\ halfSize.height <= base.height /\ halfSize.fps = base.fps
      /\ halfSize.kbps <= AtLeast(50, base.kbps)
  <2>1. AtLeast(160, halfRate.width \div 2) \in Nat /\ AtLeast(160, halfRate.width \div 2) <= base.width
    BY <1>1, <1>3 DEF AtLeast
  <2>2. AtLeast(120, halfRate.height \div 2) \in Nat /\ AtLeast(120, halfRate.height \div 2) <= base.height
    BY <1>1, <1>3 DEF AtLeast
  <2>. QED  BY <1>3, <2>1, <2>2 DEF PublishOptions
<1>. HIDE DEF halfSize
<1> DEFINE slower == [halfSize EXCEPT !.fps = AtLeast(6, @ \div 2)]
           voice == [base EXCEPT !.audioOnly = TRUE]
<1>5. /\ slower \in PublishOptions
      /\ slower.width <= base.width /\ slower.height <= base.height
      /\ slower.fps <= AtLeast(6, base.fps) /\ slower.kbps <= AtLeast(50, base.kbps)
  BY <1>1, <1>2, <1>4 DEF PublishOptions
<1>6. voice \in PublishOptions /\ voice.width = base.width /\ voice.height = base.height
      /\ voice.fps = base.fps /\ voice.kbps = base.kbps
  BY DEF PublishOptions
<1>. HIDE DEF slower, voice
<1>7. DeriveRungOptions(base, r) \in {base, halfRate, halfSize, slower, voice}
  BY DEF DeriveRungOptions, Paused, halfRate, halfSize, slower, voice
<1>8. base.fps <= AtLeast(6, base.fps) /\ base.kbps <= AtLeast(50, base.kbps)
  BY <1>1 DEF AtLeast
<1> DEFINE options == DeriveRungOptions(base, r)
<1>. HIDE DEF options
<1>9. /\ options \in PublishOptions
      /\ options.width <= base.width /\ options.height <= base.height
      /\ options.fps <= AtLeast(6, base.fps) /\ options.kbps <= AtLeast(50, base.kbps)
  <2>1. CASE options = base
    BY <1>1, <1>8, <2>1
  <2>2. CASE options = halfRate
    BY <1>1, <1>3, <1>8, <2>2
  <2>3. CASE options = halfSize
    BY <1>4, <1>8, <2>3
  <2>4. CASE options = slower
    BY <1>5, <2>4
  <2>5. CASE options = voice
    BY <1>1, <1>6, <1>8, <2>5
  <2>. QED  BY <1>7, <2>1, <2>2, <2>3, <2>4, <2>5 DEF options
<1>. QED  BY <1>9 DEF options

\* The choice is one that the user made, or the same without video.
ChoiceInv == choice \in JoinChoice /\ cap \in DOMAIN CapRank

LEMMA ChoiceInvariant == QSpec => []ChoiceInv
<1>1. QInit => ChoiceInv
  BY QualityAssumption DEF QInit, ChoiceInv
<1>2. ASSUME ChoiceInv, [QNext]_qualityVars
      PROVE  ChoiceInv'
  <2>1. AudioOnly(choice) \in JoinChoice
    BY <1>2 DEF AudioOnly, ChoiceInv, JoinChoice
  <2>2. CASE Reset
    BY <1>2, <2>1, <2>2 DEF Reset, ChoiceInv
  <2>3. CASE CapChange
    BY <1>2, <2>3, QualityAssumption DEF CapChange, ChoiceInv
  <2>4. CASE UNCHANGED <<choice, cap>>
    BY <1>2, <2>4 DEF ChoiceInv
  <2>. QED  BY <1>2, <2>2, <2>3, <2>4
            DEF QNext, qualityVars, Connect, Idle, Tick, HealthChange, Restore, ToggleCamera,
                AcceptAudioOnly, Dismiss, Elapse
<1>. QED  BY <1>1, <1>2, PTL DEF QSpec

\* For every preset, cap and limits of the user, also limits below the floors: what is
\* derived for the ladder stays within the cap at every rung, and goes up only to a floor.
\* These are the numbers the call page computes and shows; LiveKit is not given them.
THEOREM RungStaysWithinCap == QSpec => []RungWithinCap
<1>1. QualityInv /\ ChoiceInv => RungWithinCap
  <2>. SUFFICES ASSUME QualityInv, ChoiceInv  PROVE RungWithinCap
    OBVIOUS
  <2> DEFINE options == DeriveRungOptions(Base, rung)
  <2>1. /\ Base \in PublishOptions /\ Base.width >= 320 /\ Base.height >= 240
        /\ \E p \in Allowed[cap] : p \in DOMAIN PresetProfiles /\ Within(Base, p)
    BY EffectiveWithin DEF ChoiceInv, Base
  <2>2. /\ options \in PublishOptions
        /\ options.width <= Base.width /\ options.height <= Base.height
        /\ options.fps <= AtLeast(6, Base.fps) /\ options.kbps <= AtLeast(50, Base.kbps)
    BY <2>1, RungLowers DEF QualityInv, LadderInv
  <2>3. PICK p \in Allowed[cap] : p \in DOMAIN PresetProfiles /\ Within(Base, p)
    BY <2>1
  <2>4. /\ Base.width \in Nat /\ Base.height \in Nat /\ Base.fps \in Nat /\ Base.kbps \in Nat
        /\ options.width \in Nat /\ options.height \in Nat /\ options.fps \in Nat /\ options.kbps \in Nat
    BY <2>1, <2>2 DEF PublishOptions
  <2>. HIDE DEF options
  <2>5. Within(options, p)
    BY <2>2, <2>3, <2>4 DEF Within, AtLeast, PresetProfiles
  <2>6. \A axis \in DOMAIN PresetProfiles[p] :
            options[axis] <= PresetProfiles[p][axis] /\ Base[axis] <= PresetProfiles[p][axis]
    BY <2>3, <2>5, Profiles DEF Within
  <2>7. \A axis \in DOMAIN RungFloor : options[axis] <= AtLeast(RungFloor[axis], Base[axis])
    <3>1. DOMAIN RungFloor = {"width", "height", "fps", "kbps"}
      BY DEF RungFloor
    <3>2. RungFloor.width = 0 /\ RungFloor.height = 0 /\ RungFloor.fps = 6 /\ RungFloor.kbps = 50
      BY DEF RungFloor
    <3>3. options.width <= AtLeast(0, Base.width) /\ options.height <= AtLeast(0, Base.height)
      BY <2>2, <2>4 DEF AtLeast
    <3>. QED  BY <2>2, <3>1, <3>2, <3>3
  <2>8. GroupTuned(Base, TRUE).kbps <= AtLeast(GroupFloor, Base.kbps)
    <3>1. GroupTuned(Base, TRUE).kbps = AtLeast(80, (6 * Base.kbps + 5) \div 10)
      BY <2>1 DEF GroupTuned, PublishOptions
    <3>2. \A n \in Nat : AtLeast(80, (6 * n + 5) \div 10) <= AtLeast(80, n)
      BY DEF AtLeast
    <3>. QED  BY <2>4, <3>1, <3>2 DEF GroupFloor
  <2>. QED  BY <2>6, <2>7, <2>8 DEF RungWithinCap, options
<1>. QED  BY <1>1, QualityInvariant, ChoiceInvariant, PTL

-----------------------------------------------------------------------------
(* The limiter in Redis.                                                   *)

\* A failure no cooldown answered is still in the set, and while it is there with enough
\* others, a call that recorded one has still to set the cooldown.
LimiterInv ==
    /\ IsFiniteSet(failures)
    /\ unanswered \subseteq failures
    /\ DOMAIN call = Servers
    /\ \A s \in Servers : DOMAIN call[s] = {"next", "at", "seen"}
    /\ ThresholdLocks

\* Forgetting failures never reaches the threshold.
LEMMA ForgetKeeps ==
    ASSUME LimiterInv, NEW kept \in SUBSET failures, Forget(kept), Counting => Counting',
           DOMAIN call' = Servers, \A s \in Servers : DOMAIN call'[s] = {"next", "at", "seen"}
    PROVE  LimiterInv'
<1>1. IsFiniteSet(kept) /\ Cardinality(kept) <= Cardinality(failures)
  BY FS_Subset DEF LimiterInv
<1>2. Cardinality(kept) \in Nat /\ Cardinality(failures) \in Nat
  BY <1>1, FS_CardinalityType DEF LimiterInv
<1>. QED  BY <1>1, <1>2, LimiterAssumption DEF LimiterInv, Forget, ThresholdLocks

\* A step of server s leaves the calls of the others alone.
StepOf(s) ==
    /\ DOMAIN call' = Servers /\ \A t \in Servers : DOMAIN call'[t] = {"next", "at", "seen"}
    /\ \A t \in Servers \ {s} : call'[t] = call[t]

LEMMA LimiterInductive ==
    ASSUME LimiterInv, [LNext]_limiterVars
    PROVE  LimiterInv'
<1>1. DOMAIN call = Servers /\ \A s \in Servers : DOMAIN call[s] = {"next", "at", "seen"}
  BY DEF LimiterInv
<1>2. ASSUME NEW s \in Servers, NEW next, Goes(s, next) \/ Returns(s) \/ Begin(s) \/ Scan(s)
      PROVE  StepOf(s)
  BY <1>1, <1>2 DEF Goes, Returns, Begin, Scan, NoCall, StepOf
<1>3. ASSUME NEW s \in Servers, call[s].next \notin {"count", "set"}, StepOf(s)
      PROVE  Counting => Counting'
  BY <1>3 DEF Counting, StepOf
<1>4. CASE UNCHANGED limiterVars
  BY <1>4 DEF limiterVars, LimiterInv, ThresholdLocks, Counting
<1>5. CASE Pass
  BY <1>5 DEF Pass, LimiterInv, ThresholdLocks, Counting
<1>6. ASSUME NEW s \in Servers, Begin(s) \/ GetCooldown(s) \/ DelCooldown(s) \/ Lift(s) \/ Scan(s)
      PROVE  LimiterInv'
  <2>1. UNCHANGED <<failures, unanswered>> /\ call[s].next \notin {"count", "set"}
    BY <1>6 DEF Begin, GetCooldown, DelCooldown, Lift, Scan, NoCall
  <2>2. StepOf(s)
    BY <1>2, <1>6 DEF GetCooldown, DelCooldown, Lift
  <2>. QED  BY <1>3, <2>1, <2>2 DEF LimiterInv, ThresholdLocks, StepOf
<1>7. ASSUME NEW s \in Servers, PruneOnly(s) \/ Prune(s) \/ Forgive(s) \/ DelSeen(s)
      PROVE  LimiterInv'
  <2>1. call[s].next \notin {"count", "set"} /\ \E kept \in SUBSET failures : Forget(kept)
    BY <1>7 DEF PruneOnly, Prune, Forgive, DelSeen, RecentAt
  <2>2. StepOf(s)
    BY <1>2, <1>7 DEF PruneOnly, Prune, Forgive, DelSeen
  <2>3. PICK kept \in SUBSET failures : Forget(kept)
    BY <2>1
  <2>4. Counting => Counting'
    BY <1>3, <2>1, <2>2
  <2>. QED  BY <2>2, <2>3, <2>4, ForgetKeeps DEF StepOf
<1>8. ASSUME NEW s \in Servers, Add(s)  PROVE LimiterInv'
  <2>1. IsFiniteSet(failures') /\ unanswered' \subseteq failures'
    BY <1>8, FS_AddElement DEF Add, LimiterInv
  <2>2. Goes(s, "count")
    BY <1>8 DEF Add
  <2>3. call'[s].next = "count"
    BY <1>1, <2>2 DEF Goes
  <2>4. StepOf(s)
    BY <1>2, <2>2
  <2>. QED  BY <2>1, <2>3, <2>4 DEF LimiterInv, ThresholdLocks, Counting, StepOf
<1>9. ASSUME NEW s \in Servers, Count(s)  PROVE LimiterInv'
  <2>1. UNCHANGED <<failures, unanswered>> /\ (Goes(s, "set") \/ Returns(s))
    BY <1>9 DEF Count
  <2>0. StepOf(s)
    BY <1>2, <2>1
  <2>2. CASE Cardinality(failures) >= Threshold
    <3>1. call'[s].next = "set"
      BY <1>1, <1>9, <2>2 DEF Count, Goes
    <3>. QED  BY <2>0, <2>1, <3>1 DEF LimiterInv, ThresholdLocks, Counting, StepOf
  <2>3. CASE ~(Cardinality(failures) >= Threshold)
    BY <2>0, <2>1, <2>3 DEF LimiterInv, ThresholdLocks, StepOf
  <2>. QED  BY <2>2, <2>3
<1>10. ASSUME NEW s \in Servers, SetCooldown(s)  PROVE LimiterInv'
  <2>1. unanswered' = {} /\ failures' = failures /\ Returns(s)
    BY <1>10 DEF SetCooldown
  <2>2. StepOf(s)
    BY <1>2, <2>1
  <2>. QED  BY <2>1, <2>2 DEF LimiterInv, ThresholdLocks, StepOf
<1>. QED  BY <1>4, <1>5, <1>6, <1>7, <1>8, <1>9, <1>10 DEF LNext

LEMMA LimiterInvariant == LSpec => []LimiterInv
<1>1. LInit => LimiterInv
  BY FS_EmptySet DEF LInit, LimiterInv, ThresholdLocks, NoCall
<1>. QED  BY <1>1, LimiterInductive, PTL DEF LSpec

\* However many servers share a key, and however their commands interleave, failures never
\* reach the threshold without a cooldown set after the last of them, or about to be.
THEOREM ThresholdAlwaysLocks == LSpec => []ThresholdLocks
<1>1. LimiterInv => ThresholdLocks
  BY DEF LimiterInv
<1>. QED  BY <1>1, LimiterInvariant, PTL

-----------------------------------------------------------------------------
(* Creations from one address, and their limiter.                          *)

\* An ascending record of times that the clock has reached.
Recorded(times) ==
    times \in Seq(Nat) /\ Ascending(times) /\ \A i \in DOMAIN times : times[i] <= ticks

\* While no cooldown is set the bucket lacks nothing of the history that is, or ever will
\* be, in the window.
NothingForgotten == \A t \in Nat : t >= ticks => InWindow(bucket.failures, t) = InWindow(failed, t)

\* A cooldown that is set has paid for all of the history.  While it runs nobody is let in,
\* so what waits for its hash was let in before.
CreateInv ==
    /\ bucket \in [failures : Seq(Nat), cooldownUntil : Nat]
    /\ hashing \in Seq(Nat) /\ ticks \in Nat /\ openedAt \in Nat
    /\ Recorded(bucket.failures) /\ Recorded(failed)
    /\ \A i \in DOMAIN hashing : hashing[i] <= ticks
    /\ bucket.cooldownUntil # 0 => failed = <<>> /\ bucket.cooldownUntil = openedAt + COOLDOWN_MS
    /\ bucket.cooldownUntil = 0 => Len(bucket.failures) < CREATE_THRESHOLD /\ NothingForgotten
    /\ ~ShouldAllow => \A i \in DOMAIN hashing : hashing[i] <= openedAt

\* InWindow takes what is not below a cutoff.
LEMMA InWindowIsFrom ==
    ASSUME NEW times \in Seq(Nat), NEW at \in Nat
    PROVE  InWindow(times, at) = From(times, at - WINDOW_MS + 1) /\ at - WINDOW_MS + 1 \in Int
<1>1. WINDOW_MS \in Nat /\ \A i \in DOMAIN times : times[i] \in Nat
  BY CreateAssumption
<1>2. {i \in DOMAIN times : times[i] <= at - WINDOW_MS}
          = {i \in DOMAIN times : times[i] < at - WINDOW_MS + 1}
  BY <1>1
<1>3. at - WINDOW_MS + 1 \in Int
  BY <1>1
<1>. QED  BY <1>2, <1>3 DEF InWindow, From

\* Pruning a record of times leaves one, no longer, that forgot nothing still in the window.
LEMMA PruneRecord ==
    ASSUME ticks \in Nat, NEW times, Recorded(times), NEW at \in Nat
    PROVE  /\ Recorded(InWindow(times, at)) /\ Len(InWindow(times, at)) <= Len(times)
           /\ \A t \in Nat : t >= at => InWindow(InWindow(times, at), t) = InWindow(times, t)
<1> DEFINE kept == InWindow(times, at)
           c == at - WINDOW_MS + 1
<1>1. times \in Seq(Nat) /\ Ascending(times) /\ \A i \in 1..Len(times) : times[i] <= ticks
  BY DEF Recorded
<1>2. kept = From(times, c) /\ c \in Int
  BY <1>1, InWindowIsFrom
<1>. HIDE DEF kept, c
<1>3. kept \in Seq(Nat) /\ Ascending(kept) /\ \E n \in 0..Len(times) : IsFrom(kept, times, c, n)
  BY <1>1, <1>2, FromDropsHead
<1>4. PICK n \in 0..Len(times) : IsFrom(kept, times, c, n)
  BY <1>3
<1>5. Len(times) \in Nat /\ n \in Nat /\ Len(kept) = Len(times) - n /\ DOMAIN kept = 1..Len(kept)
  <2>1. Len(times) \in Nat /\ DOMAIN kept = 1..Len(kept)
    BY <1>1, <1>3
  <2>. QED  BY <1>4, <2>1 DEF IsFrom
<1>6. ASSUME NEW i \in DOMAIN kept  PROVE kept[i] <= ticks
  <2>1. i \in 1..(Len(times) - n) /\ n + i \in 1..Len(times)
    BY <1>5
  <2>. QED  BY <1>1, <1>4, <2>1 DEF IsFrom
<1>7. ASSUME NEW t \in Nat, t >= at
      PROVE  InWindow(kept, t) = InWindow(times, t)
  <2>1. InWindow(kept, t) = From(kept, t - WINDOW_MS + 1) /\ InWindow(times, t) = From(times, t - WINDOW_MS + 1)
        /\ t - WINDOW_MS + 1 \in Int
    BY <1>1, <1>3, InWindowIsFrom
  <2>2. c <= t - WINDOW_MS + 1
    BY <1>7, CreateAssumption DEF c
  <2>. QED  BY <1>1, <1>2, <2>1, <2>2, FromOfFrom
<1>. QED  BY <1>3, <1>5, <1>6, <1>7 DEF Recorded, kept

\* Two records that agree on every window from now on agree after a failure now.
LEMMA RecordOneMore ==
    ASSUME ticks \in Nat, NEW times, Recorded(times)
    PROVE  /\ Recorded(Append(times, ticks)) /\ Len(Append(times, ticks)) = Len(times) + 1
           /\ \A t \in Nat : InWindow(Append(times, ticks), t)
                  = IF ticks > t - WINDOW_MS THEN Append(InWindow(times, t), ticks) ELSE <<>>
<1>1. times \in Seq(Nat) /\ Ascending(times) /\ \A i \in DOMAIN times : times[i] <= ticks
  BY DEF Recorded
<1>2. Append(times, ticks) \in Seq(Nat) /\ Len(Append(times, ticks)) = Len(times) + 1
  BY <1>1
<1>3. Ascending(Append(times, ticks))
  BY <1>1, FromOfAppend
<1>4. \A i \in DOMAIN Append(times, ticks) : Append(times, ticks)[i] <= ticks
  BY <1>1
<1>5. ASSUME NEW t \in Nat
      PROVE  InWindow(Append(times, ticks), t)
                 = IF ticks > t - WINDOW_MS THEN Append(InWindow(times, t), ticks) ELSE <<>>
  <2> DEFINE c == t - WINDOW_MS + 1
  <2>1. /\ InWindow(times, t) = From(times, c) /\ c \in Int
        /\ InWindow(Append(times, ticks), t) = From(Append(times, ticks), c)
    BY <1>1, <1>2, InWindowIsFrom
  <2>2. ticks > t - WINDOW_MS <=> ticks >= c
    BY CreateAssumption
  <2>. HIDE DEF c
  <2>. QED  BY <1>1, <2>1, <2>2, FromOfAppend
<1>. QED  BY <1>2, <1>3, <1>4, <1>5 DEF Recorded

LEMMA NoRecord ==
    ASSUME NEW t \in Nat
    PROVE  <<>> \in Seq(Nat) /\ Recorded(<<>>) /\ InWindow(<<>>, t) = <<>> /\ Len(<<>>) = 0
<1>1. <<>> \in Seq(Nat) /\ Len(<<>>) = 0 /\ DOMAIN <<>> = {} /\ 0 \in Int
  OBVIOUS
<1>2. InWindow(<<>>, t) = From(<<>>, t - WINDOW_MS + 1) /\ t - WINDOW_MS + 1 \in Int
  BY <1>1, InWindowIsFrom
<1>. QED  BY <1>1, <1>2, FromOfNone DEF Recorded


\* The bucket that a request finds once it is let in, and the one a failure leaves.
LEMMA AllowingFacts ==
    ASSUME CreateInv, ShouldAllow
    PROVE  /\ Allowing \in [failures : Seq(Nat), cooldownUntil : {0}]
           /\ Recorded(Allowing.failures) /\ Len(Allowing.failures) < CREATE_THRESHOLD
           /\ \A t \in Nat : t >= ticks => InWindow(Allowing.failures, t) = InWindow(failed, t)
<1>1. ticks \in Nat /\ bucket \in [failures : Seq(Nat), cooldownUntil : Nat] /\ CREATE_THRESHOLD \in Nat \ {0}
  BY CreateAssumption DEF CreateInv
<1>2. CASE bucket.cooldownUntil = 0
  <2>1. Allowing = [failures |-> InWindow(bucket.failures, ticks), cooldownUntil |-> 0]
    BY <1>1, <1>2 DEF Allowing, PruneBucket
  <2>2. Recorded(bucket.failures) /\ Len(bucket.failures) < CREATE_THRESHOLD /\ NothingForgotten
    BY <1>2 DEF CreateInv
  <2>3. /\ Recorded(InWindow(bucket.failures, ticks))
        /\ Len(InWindow(bucket.failures, ticks)) <= Len(bucket.failures)
        /\ \A t \in Nat : t >= ticks => InWindow(InWindow(bucket.failures, ticks), t) = InWindow(bucket.failures, t)
    BY <1>1, <2>2, PruneRecord
  <2>4. Len(InWindow(bucket.failures, ticks)) \in Nat /\ Len(bucket.failures) \in Nat
    BY <2>2, <2>3 DEF Recorded
  <2>5. Len(InWindow(bucket.failures, ticks)) < CREATE_THRESHOLD
    BY <1>1, <2>2, <2>3, <2>4
  <2>. QED  BY <2>1, <2>2, <2>3, <2>5 DEF NothingForgotten, Recorded
<1>3. CASE bucket.cooldownUntil # 0
  <2>1. failed = <<>>
    BY <1>3 DEF CreateInv
  <2>2. /\ InWindow(<<>>, ticks) = <<>> /\ Recorded(<<>>) /\ Len(<<>>) = 0 /\ <<>> \in Seq(Nat)
        /\ \A t \in Nat : InWindow(<<>>, t) = <<>>
    BY <1>1, NoRecord
  <2>3. Allowing = [failures |-> <<>>, cooldownUntil |-> 0]
    BY <1>3, <2>2 DEF Allowing, PruneBucket
  <2>. QED  BY <1>1, <2>1, <2>2, <2>3
<1>. QED  BY <1>2, <1>3

LEMMA FailureRecorded ==
    ASSUME CreateInv, ShouldAllow, NEW after, after = RecordFailure(Allowing)
    PROVE  /\ after \in [failures : Seq(Nat), cooldownUntil : {0, ticks + COOLDOWN_MS}]
           /\ Recorded(after.failures)
           /\ after.cooldownUntil = 0 =>
                  /\ Len(after.failures) < CREATE_THRESHOLD
                  /\ \A t \in Nat : t >= ticks => InWindow(after.failures, t) = InWindow(Append(failed, ticks), t)
<1> DEFINE kept == InWindow(Allowing.failures, ticks)
           pushed == Append(kept, ticks)
<1>0. Allowing \in [failures : Seq(Nat), cooldownUntil : {0}] /\ Recorded(Allowing.failures)
      /\ \A t \in Nat : t >= ticks => InWindow(Allowing.failures, t) = InWindow(failed, t)
  BY AllowingFacts
<1>1. ticks \in Nat /\ COOLDOWN_MS \in Nat \ {0} /\ Recorded(failed) /\ CREATE_THRESHOLD \in Nat
  BY CreateAssumption DEF CreateInv
<1>2. /\ Recorded(kept)
      /\ \A t \in Nat : t >= ticks => InWindow(kept, t) = InWindow(Allowing.failures, t)
  BY <1>0, <1>1, PruneRecord
<1>3. after = [failures |-> pushed,
               cooldownUntil |-> IF Len(pushed) >= CREATE_THRESHOLD THEN ticks + COOLDOWN_MS ELSE 0]
  BY <1>0 DEF RecordFailure, PruneBucket
<1>. HIDE DEF kept
<1>4. /\ Recorded(pushed) /\ Len(pushed) = Len(kept) + 1 /\ pushed \in Seq(Nat)
      /\ \A t \in Nat : InWindow(pushed, t)
             = IF ticks > t - WINDOW_MS THEN Append(InWindow(kept, t), ticks) ELSE <<>>
  BY <1>1, <1>2, RecordOneMore DEF Recorded
<1>5. \A t \in Nat : InWindow(Append(failed, ticks), t)
             = IF ticks > t - WINDOW_MS THEN Append(InWindow(failed, t), ticks) ELSE <<>>
  BY <1>1, RecordOneMore
<1>6. ASSUME NEW t \in Nat, t >= ticks
      PROVE  InWindow(pushed, t) = InWindow(Append(failed, ticks), t)
  <2>1. InWindow(kept, t) = InWindow(failed, t)
    BY <1>0, <1>2, <1>6
  <2>. QED  BY <1>4, <1>5, <2>1
<1>7. Len(pushed) \in Nat
  BY <1>4
<1>. HIDE DEF pushed
<1>8. after.cooldownUntil = 0 => Len(pushed) < CREATE_THRESHOLD
  BY <1>1, <1>3, <1>7
<1>. QED  BY <1>1, <1>3, <1>4, <1>6, <1>8

\* What the clock, and what the hashes that are still computed, keep of the invariant.
LEMMA TicksKeep ==
    ASSUME CreateInv, CreateTick
    PROVE  CreateInv'
<1>1. ticks \in Nat /\ ticks' = ticks + 1 /\ UNCHANGED <<bucket, hashing, failed, openedAt>>
  BY DEF CreateInv, CreateTick
<1>2. ASSUME NEW times \in Seq(Nat), \A i \in DOMAIN times : times[i] <= ticks
      PROVE  \A i \in DOMAIN times : times[i] <= ticks'
  <2>1. \A i \in DOMAIN times : times[i] \in Nat
    OBVIOUS
  <2>. QED  BY <1>1, <1>2, <2>1
<1>3. Recorded(bucket.failures)' /\ Recorded(failed)'
  BY <1>1, <1>2 DEF CreateInv, Recorded
<1>4. \A i \in DOMAIN hashing' : hashing'[i] <= ticks'
  BY <1>1, <1>2 DEF CreateInv
<1>5. NothingForgotten => NothingForgotten'
  BY <1>1 DEF NothingForgotten
<1>6. ~ShouldAllow' => ~ShouldAllow
  BY <1>1 DEF ShouldAllow, CreateInv
<1>. QED  BY <1>1, <1>3, <1>4, <1>5, <1>6 DEF CreateInv

LEMMA CreationKeeps ==
    ASSUME CreateInv, RoomCreated, hashing' \in Seq(Nat), UNCHANGED <<ticks, openedAt>>,
           \A i \in DOMAIN hashing' : hashing'[i] <= ticks
    PROVE  CreateInv'
<1>1. /\ bucket' = [failures |-> <<>>, cooldownUntil |-> 0] /\ failed' = <<>>
      /\ ticks \in Nat /\ openedAt \in Nat /\ CREATE_THRESHOLD \in Nat \ {0}
  BY CreateAssumption DEF CreateInv, RoomCreated
<1>2. Recorded(<<>>)' /\ <<>> \in Seq(Nat) /\ Len(<<>>) = 0
  BY <1>1, NoRecord DEF Recorded
<1>3. NothingForgotten'
  BY <1>1 DEF NothingForgotten
<1>4. ShouldAllow'
  BY <1>1 DEF ShouldAllow
<1>. QED  BY <1>1, <1>2, <1>3, <1>4 DEF CreateInv

\* What is left when one member is removed was there.
LEMMA RemovedFrom ==
    ASSUME NEW S, NEW s \in Seq(S), NEW i \in DOMAIN s
    PROVE  /\ RemoveAt(s, i) \in Seq(S)
           /\ \A j \in DOMAIN RemoveAt(s, i) : \E k \in DOMAIN s : RemoveAt(s, i)[j] = s[k]
<1> DEFINE before == SubSeq(s, 1, i - 1)
           after == SubSeq(s, i + 1, Len(s))
<1>1. Len(s) \in Nat /\ DOMAIN s = 1..Len(s) /\ i \in 1..Len(s) /\ \A k \in 1..Len(s) : s[k] \in S
  OBVIOUS
<1>2. RemoveAt(s, i) = before \o after
  BY DEF RemoveAt
<1>3. /\ before \in Seq(S) /\ Len(before) = i - 1
      /\ \A k \in 1..(i - 1) : before[k] = s[k]
  <2>1. 1 \in Int /\ i - 1 \in Int /\ \A k \in 1..(i - 1) : s[k] \in S
    BY <1>1
  <2>2. /\ before \in Seq(S)
        /\ Len(before) = IF 1 <= i - 1 THEN (i - 1) - 1 + 1 ELSE 0
        /\ \A k \in 1..((i - 1) - 1 + 1) : before[k] = s[1 + k - 1]
    BY <2>1, SubSeqProperties
  <2>. HIDE DEF before
  <2>3. (IF 1 <= i - 1 THEN (i - 1) - 1 + 1 ELSE 0) = i - 1 /\ (i - 1) - 1 + 1 = i - 1
        /\ \A k \in 1..(i - 1) : 1 + k - 1 = k
    BY <1>1
  <2>. QED  BY <2>2, <2>3
<1>4. /\ after \in Seq(S) /\ Len(after) = Len(s) - i
      /\ \A k \in 1..(Len(s) - i) : after[k] = s[i + k]
  <2>1. i \in 0..Len(s)
    BY <1>1
  <2>. QED  BY <2>1, HeadDropped
<1>. HIDE DEF before, after
<1>5. /\ before \o after \in Seq(S) /\ Len(before \o after) = Len(before) + Len(after)
      /\ DOMAIN (before \o after) = 1..(Len(s) - 1)
  <2>1. before \o after \in Seq(S) /\ Len(before \o after) = Len(before) + Len(after)
    BY <1>3, <1>4, ConcatProperties
  <2>2. Len(before) + Len(after) = Len(s) - 1
    BY <1>1, <1>3, <1>4
  <2>. QED  BY <2>1, <2>2
<1>6. ASSUME NEW j \in DOMAIN (before \o after)
      PROVE  \E k \in DOMAIN s : (before \o after)[j] = s[k]
  <2>1. j \in 1..(Len(s) - 1)
    BY <1>1, <1>5
  <2>2. CASE j <= i - 1
    <3>1. (before \o after)[j] = before[j] /\ j \in 1..(i - 1) /\ j \in DOMAIN s
      BY <1>1, <1>3, <1>4, <2>1, <2>2, ConcatProperties
    <3>. QED  BY <1>3, <3>1
  <2>3. CASE ~(j <= i - 1)
    <3>0. j \in 1..(Len(before) + Len(after)) /\ ~(j <= Len(before))
      BY <1>1, <1>3, <1>4, <2>1, <2>3
    <3>1. (before \o after)[j] = after[j - (i - 1)]
      <4>1. (before \o after)[j] = IF j <= Len(before) THEN before[j] ELSE after[j - Len(before)]
        BY <1>3, <1>4, <3>0, ConcatProperties
      <4>. QED  BY <1>3, <3>0, <4>1
    <3>2. j - (i - 1) \in 1..(Len(s) - i) /\ i + (j - (i - 1)) \in DOMAIN s
      BY <1>1, <2>1, <2>3
    <3>. QED  BY <1>4, <3>1, <3>2
  <2>. QED  BY <2>2, <2>3
<1>. QED  BY <1>2, <1>5, <1>6

LEMMA CreateInductive ==
    ASSUME CreateInv, [CreateNext]_createVars
    PROVE  CreateInv'
<1>0. /\ bucket \in [failures : Seq(Nat), cooldownUntil : Nat]
      /\ hashing \in Seq(Nat) /\ ticks \in Nat /\ openedAt \in Nat
      /\ Recorded(failed) /\ \A i \in DOMAIN hashing : hashing[i] <= ticks
      /\ COOLDOWN_MS \in Nat \ {0}
  BY CreateAssumption DEF CreateInv
<1>1. CASE UNCHANGED createVars
  BY <1>1 DEF createVars, CreateInv, Recorded, NothingForgotten, ShouldAllow
<1>2. CASE CreateRefused
  <2>1. ShouldAllow /\ bucket' = RecordFailure(Allowing) /\ UNCHANGED <<hashing, ticks>>
    BY <1>2 DEF CreateRefused
  <2>2. /\ bucket' \in [failures : Seq(Nat), cooldownUntil : {0, ticks + COOLDOWN_MS}]
        /\ Recorded(bucket'.failures)
        /\ bucket'.cooldownUntil = 0 =>
               /\ Len(bucket'.failures) < CREATE_THRESHOLD
               /\ \A t \in Nat : t >= ticks => InWindow(bucket'.failures, t) = InWindow(Append(failed, ticks), t)
    BY <2>1, FailureRecorded
  <2>3. CASE bucket'.cooldownUntil # 0
    <3>1. failed' = <<>> /\ openedAt' = ticks /\ bucket'.cooldownUntil = ticks + COOLDOWN_MS
      BY <1>2, <2>2, <2>3 DEF CreateRefused
    <3>2. Recorded(<<>>)
      BY <1>0, NoRecord
    <3>. QED  BY <1>0, <2>1, <2>2, <2>3, <3>1, <3>2 DEF CreateInv, Recorded
  <2>4. CASE bucket'.cooldownUntil = 0
    <3>1. failed' = Append(failed, ticks) /\ openedAt' = openedAt
      BY <1>2, <2>4 DEF CreateRefused
    <3>2. Recorded(failed')
      BY <1>0, <3>1, RecordOneMore
    <3>3. NothingForgotten' /\ ShouldAllow'
      BY <2>1, <2>2, <2>4, <3>1 DEF NothingForgotten, ShouldAllow
    <3>. QED  BY <1>0, <2>1, <2>2, <2>4, <3>1, <3>2, <3>3 DEF CreateInv, Recorded
  <2>. QED  BY <2>3, <2>4
<1>3. CASE CreateAtOnce
  BY <1>0, <1>3, CreationKeeps DEF CreateAtOnce
<1>4. CASE CreateHashing
  <2>1. /\ ShouldAllow /\ bucket' = Allowing /\ hashing' = Append(hashing, ticks)
        /\ UNCHANGED <<ticks, failed, openedAt>>
    BY <1>4 DEF CreateHashing
  <2>2. /\ Allowing \in [failures : Seq(Nat), cooldownUntil : {0}]
        /\ Recorded(Allowing.failures) /\ Len(Allowing.failures) < CREATE_THRESHOLD
        /\ \A t \in Nat : t >= ticks => InWindow(Allowing.failures, t) = InWindow(failed, t)
    BY <2>1, AllowingFacts
  <2>3. hashing' \in Seq(Nat) /\ \A i \in DOMAIN hashing' : hashing'[i] <= ticks'
    BY <1>0, <2>1
  <2>4. NothingForgotten' /\ ShouldAllow'
    BY <2>1, <2>2 DEF NothingForgotten, ShouldAllow
  <2>. QED  BY <1>0, <2>1, <2>2, <2>3, <2>4 DEF CreateInv, Recorded
<1>5. CASE Hashed
  <2>1. PICK i \in DOMAIN hashing : hashing' = RemoveAt(hashing, i)
    BY <1>5 DEF Hashed
  <2>2. hashing' \in Seq(Nat) /\ \A j \in DOMAIN hashing' : \E k \in DOMAIN hashing : hashing'[j] = hashing[k]
    BY <1>0, <2>1, RemovedFrom
  <2>3. \A j \in DOMAIN hashing' : hashing'[j] <= ticks
    BY <1>0, <2>2
  <2>. QED  BY <1>5, <2>2, <2>3, CreationKeeps DEF Hashed
<1>6. CASE CreateTick
  BY <1>6, TicksKeep
<1>. QED  BY <1>1, <1>2, <1>3, <1>4, <1>5, <1>6 DEF CreateNext

LEMMA CreateInvariant == CreateSpec => []CreateInv
<1>1. CreateInit => CreateInv
  <2>. SUFFICES ASSUME CreateInit  PROVE CreateInv
    OBVIOUS
  <2>1. bucket = [failures |-> <<>>, cooldownUntil |-> 0] /\ hashing = <<>> /\ ticks = 1 /\ failed = <<>>
        /\ openedAt = 0 /\ CREATE_THRESHOLD \in Nat \ {0}
    BY CreateAssumption DEF CreateInit
  <2>2. Recorded(<<>>) /\ <<>> \in Seq(Nat) /\ Len(<<>>) = 0
    BY <2>1, NoRecord
  <2>. QED  BY <2>1, <2>2 DEF CreateInv, NothingForgotten, ShouldAllow
<1>. QED  BY <1>1, CreateInductive, PTL DEF CreateSpec

\* For any window, threshold and cooldown, and any number of creations that wait for their
\* hash: the bucket of an address counts exactly what it should, and nothing but a room
\* that was let in before a cooldown was opened ends it early.
THEOREM CreationsAreLimited == CreateSpec => CreationsLimited
<1>1. CreateInv => FailuresCounted
  <2>. SUFFICES ASSUME CreateInv, ShouldAllow
                PROVE  /\ Len(InWindow(failed, ticks)) < CREATE_THRESHOLD
                       /\ InWindow(Allowing.failures, ticks) = InWindow(failed, ticks)
    BY DEF FailuresCounted
  <2>1. /\ Recorded(Allowing.failures) /\ Len(Allowing.failures) < CREATE_THRESHOLD
        /\ ticks \in Nat /\ CREATE_THRESHOLD \in Nat
        /\ InWindow(Allowing.failures, ticks) = InWindow(failed, ticks)
    BY AllowingFacts, CreateAssumption DEF CreateInv
  <2>2. Recorded(InWindow(Allowing.failures, ticks))
        /\ Len(InWindow(Allowing.failures, ticks)) <= Len(Allowing.failures)
    BY <2>1, PruneRecord
  <2>3. Len(InWindow(Allowing.failures, ticks)) \in Nat /\ Len(Allowing.failures) \in Nat
    BY <2>1, <2>2 DEF Recorded
  <2>. QED  BY <2>1, <2>2, <2>3
<1>2. CreateInv /\ [CreateNext]_createVars =>
          [~ShouldAllow /\ bucket'.cooldownUntil # bucket.cooldownUntil =>
               /\ bucket'.cooldownUntil = 0
               /\ \E i \in DOMAIN hashing : hashing' = RemoveAt(hashing, i) /\ hashing[i] <= openedAt]_createVars
  <2>. SUFFICES ASSUME CreateInv, CreateNext, ~ShouldAllow, bucket'.cooldownUntil # bucket.cooldownUntil
                PROVE  /\ bucket'.cooldownUntil = 0
                       /\ \E i \in DOMAIN hashing : hashing' = RemoveAt(hashing, i) /\ hashing[i] <= openedAt
    BY DEF createVars
  <2>1. Hashed
    BY DEF CreateNext, CreateRefused, CreateAtOnce, CreateHashing, CreateTick
  <2>2. \A i \in DOMAIN hashing : hashing[i] <= openedAt
    BY DEF CreateInv
  <2>. QED  BY <2>1, <2>2 DEF Hashed, RoomCreated
<1>. QED  BY <1>1, <1>2, CreateInvariant, PTL DEF CreateSpec, CreationsLimited, LiftedByEarlier

-----------------------------------------------------------------------------
(* The chat history in Redis.                                              *)

\* What trimming keeps, and what list answers.
LEMMA KeptFacts ==
    ASSUME NEW S, NEW s \in Seq(S)
    PROVE  LET m == IF Len(s) < Capacity THEN Len(s) ELSE Capacity IN
           /\ m \in Nat /\ m <= Len(s)
           /\ Kept(s) \in Seq(S) /\ Len(Kept(s)) = m
           /\ \A i \in 1..m : Kept(s)[i] = s[i]
           /\ Reverse(Kept(s)) \in Seq(S) /\ Len(Reverse(Kept(s))) = m
           /\ \A i \in 1..m : Reverse(Kept(s))[i] = s[m - i + 1]
<1> DEFINE m == IF Len(s) < Capacity THEN Len(s) ELSE Capacity
<1>1. Len(s) \in Nat /\ Capacity \in Nat /\ m \in Nat /\ m <= Len(s) /\ \A i \in 1..Len(s) : s[i] \in S
  BY CapacityAssumption
<1>2. Kept(s) = SubSeq(s, 1, m)
  BY DEF Kept
<1>. HIDE DEF m
<1>3. /\ SubSeq(s, 1, m) \in Seq(S)
      /\ Len(SubSeq(s, 1, m)) = IF 1 <= m THEN m - 1 + 1 ELSE 0
      /\ \A i \in 1..(m - 1 + 1) : SubSeq(s, 1, m)[i] = s[1 + i - 1]
  <2>1. 1 \in Int /\ m \in Int /\ \A i \in 1..m : s[i] \in S
    BY <1>1
  <2>. QED  BY <2>1, SubSeqProperties
<1>4. (IF 1 <= m THEN m - 1 + 1 ELSE 0) = m /\ m - 1 + 1 = m /\ \A i \in 1..m : 1 + i - 1 = i
  BY <1>1
<1>5. Kept(s) \in Seq(S) /\ Len(Kept(s)) = m /\ \A i \in 1..m : Kept(s)[i] = s[i]
  BY <1>2, <1>3, <1>4
<1>6. /\ DOMAIN Reverse(Kept(s)) = 1..m
      /\ \A i \in 1..m : Reverse(Kept(s))[i] = Kept(s)[m - i + 1]
  BY <1>5 DEF Reverse
<1>7. ASSUME NEW i \in 1..m  PROVE m - i + 1 \in 1..m
  BY <1>1
<1>8. Reverse(Kept(s)) = [i \in 1..m |-> s[m - i + 1]]
  <2>1. Reverse(Kept(s)) = [i \in 1..m |-> Kept(s)[m - i + 1]]
    BY <1>5 DEF Reverse
  <2>. QED  BY <1>5, <1>7, <2>1
<1>9. \A i \in 1..m : s[m - i + 1] \in S
  BY <1>1, <1>7
<1>10. Reverse(Kept(s)) \in Seq(S) /\ Len(Reverse(Kept(s))) = m
  BY <1>1, <1>8, <1>9
<1>. QED  BY <1>1, <1>5, <1>6, <1>7, <1>10 DEF m

\* Trimming twice keeps what trimming once does, so a late trim changes no answer.
LEMMA KeptTwice ==
    ASSUME NEW S, NEW s \in Seq(S)
    PROVE  Kept(Kept(s)) = Kept(s)
<1>1. /\ Kept(s) \in Seq(S) /\ Kept(Kept(s)) \in Seq(S)
      /\ Len(Kept(s)) = IF Len(s) < Capacity THEN Len(s) ELSE Capacity
      /\ Len(Kept(Kept(s))) = IF Len(Kept(s)) < Capacity THEN Len(Kept(s)) ELSE Capacity
      /\ \A i \in 1..Len(Kept(Kept(s))) : Kept(Kept(s))[i] = Kept(s)[i]
  BY KeptFacts
<1>2. Len(Kept(Kept(s))) = Len(Kept(s))
  BY <1>1, CapacityAssumption
<1>. QED  BY <1>1, <1>2, SeqEqual

\* An entry at the head of the list is, for whoever reads the list, one more at the end of
\* the newest.
LEMMA PushAppends ==
    ASSUME NEW S, NEW s \in Seq(S), NEW e \in S
    PROVE  Reverse(Kept(<<e>> \o s)) = Buffer!Newest(Append(Reverse(Kept(s)), e))
<1> DEFINE longer == <<e>> \o s
           m == IF Len(s) < Capacity THEN Len(s) ELSE Capacity
           n == IF Len(longer) < Capacity THEN Len(longer) ELSE Capacity
           old == Reverse(Kept(s))
           new == Reverse(Kept(longer))
           more == Append(old, e)
<1>1. Len(s) \in Nat /\ Capacity \in Nat \ {0}
  BY CapacityAssumption
<1>2. longer \in Seq(S) /\ Len(longer) = Len(s) + 1 /\ longer[1] = e
      /\ \A i \in 1..Len(s) : longer[i + 1] = s[i]
  BY <1>1
<1>3. m \in Nat /\ m <= Len(s) /\ old \in Seq(S) /\ Len(old) = m /\ \A i \in 1..m : old[i] = s[m - i + 1]
  BY KeptFacts
<1>. HIDE DEF longer
<1>4. n \in Nat /\ n <= Len(longer) /\ new \in Seq(S) /\ Len(new) = n /\ \A i \in 1..n : new[i] = longer[n - i + 1]
  BY <1>2, KeptFacts
<1>. HIDE DEF old, new
<1>5. /\ more \in Seq(S) /\ Len(more) = m + 1 /\ more[m + 1] = e
      /\ \A i \in 1..m : more[i] = s[m - i + 1]
  BY <1>3
<1>. HIDE DEF more
<1>6. CASE Len(s) < Capacity
  <2>1. m = Len(s) /\ n = m + 1 /\ ~(Len(more) > Capacity)
    BY <1>1, <1>2, <1>5, <1>6
  <2>2. Buffer!Newest(more) = more
    BY <2>1 DEF Buffer!Newest
  <2>. HIDE DEF m, n
  <2>3. ASSUME NEW i \in 1..(m + 1)  PROVE new[i] = more[i]
    <3>1. CASE i = m + 1
      <4>1. n - i + 1 = 1 /\ i \in 1..n
        BY <1>3, <2>1, <3>1
      <4>. QED  BY <1>2, <1>4, <1>5, <3>1, <4>1
    <3>2. CASE i # m + 1
      <4>1. i \in 1..m /\ i \in 1..n /\ n - i + 1 = (m - i + 1) + 1 /\ m - i + 1 \in 1..Len(s)
        BY <1>3, <2>1, <3>2
      <4>. QED  BY <1>2, <1>4, <1>5, <4>1
    <3>. QED  BY <3>1, <3>2
  <2>4. new = more
    BY <1>3, <1>4, <1>5, <2>1, <2>3, SeqEqual
  <2>. QED  BY <2>2, <2>4 DEF new, more, old, longer
<1>7. CASE ~(Len(s) < Capacity)
  <2>1. m = Capacity /\ n = Capacity /\ Len(more) = Capacity + 1 /\ Len(more) > Capacity
    BY <1>1, <1>2, <1>5, <1>7
  <2>. HIDE DEF m, n
  <2> DEFINE rest == SubSeq(more, 2, Len(more))
  <2>2. Buffer!Newest(more) = rest
    <3>1. Len(more) - Capacity + 1 = 2
      BY <1>1, <2>1
    <3>. QED  BY <2>1, <3>1 DEF Buffer!Newest
  <2>3. rest \in Seq(S) /\ Len(rest) = Capacity /\ \A i \in 1..Capacity : rest[i] = more[i + 1]
    <3>1. 1 \in 0..Len(more) /\ 1 + 1 = 2 /\ Len(more) - 1 = Capacity /\ \A i \in 1..Capacity : 1 + i = i + 1
      BY <1>1, <2>1
    <3>2. /\ SubSeq(more, 1 + 1, Len(more)) \in Seq(S)
          /\ Len(SubSeq(more, 1 + 1, Len(more))) = Len(more) - 1
          /\ \A i \in 1..(Len(more) - 1) : SubSeq(more, 1 + 1, Len(more))[i] = more[1 + i]
      BY <1>5, <3>1, HeadDropped
    <3>. QED  BY <3>1, <3>2
  <2>. HIDE DEF rest
  <2>4. ASSUME NEW i \in 1..Capacity  PROVE new[i] = rest[i]
    <3>1. CASE i = Capacity
      <4>1. n - i + 1 = 1 /\ i \in 1..n /\ i + 1 = m + 1
        BY <1>1, <2>1, <3>1
      <4>. QED  BY <1>2, <1>4, <1>5, <2>3, <4>1
    <3>2. CASE i # Capacity
      <4>1. /\ i \in 1..n /\ i + 1 \in 1..m /\ n - i + 1 = (m - (i + 1) + 1) + 1
            /\ m - (i + 1) + 1 \in 1..Len(s)
        BY <1>1, <1>3, <2>1, <3>2
      <4>. QED  BY <1>2, <1>4, <1>5, <2>3, <4>1
    <3>. QED  BY <3>1, <3>2
  <2>5. new = rest
    BY <1>1, <1>4, <2>1, <2>3, <2>4, SeqEqual
  <2>. QED  BY <2>2, <2>5 DEF new, more, old, longer
<1>. QED  BY <1>6, <1>7

\* A push is an append and a trim is a stutter, for any number of servers that push and
\* trim in any order, and for every capacity: two commands implement the one step of the
\* buffer in memory.
THEOREM ChatListImplementsBuffer == ChatSpec => ImplementsBuffer
<1> DEFINE Typed == log \in Seq(Entries)
<1>1. ChatInit => Typed /\ Buffer!BufferInit
  <2>. SUFFICES ASSUME log = <<>>  PROVE Typed /\ Listed = <<>>
    BY DEF ChatInit, Buffer!BufferInit
  <2>1. <<>> \in Seq(Entries) /\ Len(<<>>) = 0 /\ ~(Capacity < 0) /\ 0 < Capacity
    BY CapacityAssumption
  <2>2. Listed \in Seq(Entries) /\ Len(Listed) = 0
    BY <2>1, KeptFacts DEF Listed
  <2>. QED  BY <2>1, <2>2
<1>2. ASSUME Typed, NEW s \in Writers, Lpush(s)
      PROVE  Typed' /\ Buffer!AppendEntry
  <2>1. PICK e \in Entries : log' = <<e>> \o log
    BY <1>2 DEF Lpush
  <2>2. log' \in Seq(Entries)
    BY <1>2, <2>1
  <2>3. Listed' = Buffer!Newest(Append(Listed, e))
    BY <1>2, <2>1, PushAppends DEF Listed
  <2>. QED  BY <2>2, <2>3 DEF Buffer!AppendEntry
<1>3. ASSUME Typed, NEW s \in Writers, Ltrim(s)
      PROVE  Typed' /\ Listed' = Listed
  <2>1. log' = Kept(log)
    BY <1>3 DEF Ltrim
  <2>. QED  BY <1>3, <2>1, KeptFacts, KeptTwice DEF Listed
<1>4. Typed /\ [ChatNext]_chatVars => Typed' /\ [Buffer!AppendEntry]_Listed
  BY <1>2, <1>3 DEF ChatNext, chatVars, Listed
<1>. HIDE DEF Typed
<1>. QED  BY <1>1, <1>4, PTL DEF ChatSpec, ImplementsBuffer, Buffer!BufferSpec

-----------------------------------------------------------------------------
(* The validators.                                                         *)

Text(kinds) == [kind : kinds, length : Nat, padded : BOOLEAN, control : BOOLEAN]

\* A passcode may be anything that JSON has; trim() throws for a name or a session id that
\* is neither a text nor missing, so those are out of the validators' reach.
Kinds(field) == IF field = "passcode" THEN {"string", "null", "number"} ELSE {"string", "null"}

\* The fields of a body that may be sent on each route.
Fields(route) ==
    CASE route = "create" ->
             {"accessMode", "maxParticipants", "qualityCap", "allowScreenShare", "passcode"}
      [] route = "update" -> {"accessMode", "qualityCap", "passcode"}
      [] route = "join" -> {"displayName"}
      [] route = "media" -> {"sessionId", "transportPreference"}

\* Whatever the other fields hold, these hold a text of any length.
IsBody(route, body) ==
    /\ DOMAIN body \subseteq Fields(route)
    /\ \A f \in DOMAIN body \cap {"passcode", "displayName", "sessionId"} : body[f] \in Text(Kinds(f))

LEMMA TextsAreTexts ==
    /\ Null \in Text({"string", "null"})
    /\ Texts \subseteq Text({"string", "null"})
    /\ Text({"string", "null"}) \subseteq Text(Kinds("passcode"))
    /\ [Null EXCEPT !.kind = "number"] \in Text(Kinds("passcode"))
<1>1. Null \in Text({"string", "null"})
  BY DEF Null, Text
<1>2. [Null EXCEPT !.kind = "number"] \in Text(Kinds("passcode"))
  BY DEF Null, Text, Kinds
<1>3. [kind : {"string"}, length : {0, 3, 4, 40, 41, 64, 65}, padded : BOOLEAN, control : BOOLEAN]
          \subseteq Text({"string", "null"})
  BY DEF Text
<1>4. Text({"string", "null"}) \subseteq Text(Kinds("passcode"))
  BY DEF Text, Kinds
<1>. QED  BY <1>1, <1>2, <1>3, <1>4 DEF Texts

LEMMA CreateSound ==
    ASSUME NEW body, IsBody("create", body)
    PROVE  SoundDecision("create", body)
<1> DEFINE d == ValidateCreate(body)
           passcode == Get(body, "passcode", Null)
           room == Filled(body)
<1>1. SUFFICES ASSUME d.ok
               PROVE  /\ d.value.accessMode = "passcode" <=> Sent(d.value, "passcode")
                      /\ Sent(d.value, "passcode") => ~d.value.passcode.padded /\ d.value.passcode.length >= 4
                      /\ \A f \in DOMAIN body \ {"passcode"} : d.value[f] = body[f]
  BY DEF SoundDecision
<1>2. ValidRoom(room, passcode)
      /\ d.value = IF room.accessMode = "passcode" THEN Spread(room, [passcode |-> passcode]) ELSE room
  <2>. HIDE DEF room, passcode
  <2>. QED  BY <1>1 DEF ValidateCreate, Accepted, Refused, room, passcode
<1>3. DOMAIN room = {"accessMode", "maxParticipants", "qualityCap", "allowScreenShare"}
      /\ \A f \in DOMAIN body \ {"passcode"} : f \in DOMAIN room /\ room[f] = body[f]
  BY DEF IsBody, Fields, Filled, Get, Sent
<1>. HIDE DEF room
<1>4. CASE room.accessMode = "passcode"
  <2>1. DOMAIN [passcode |-> passcode] = {"passcode"} /\ [passcode |-> passcode].passcode = passcode
    OBVIOUS
  <2>2. /\ "passcode" \in DOMAIN d.value /\ d.value["passcode"] = passcode
        /\ \A f \in DOMAIN room : d.value[f] = room[f]
    BY <1>2, <1>3, <1>4, <2>1 DEF Spread
  <2>3. ~passcode.padded /\ passcode.length >= 4
    BY <1>2, <1>4 DEF ValidRoom, ValidPasscode
  <2>. HIDE DEF d, passcode
  <2>. QED  BY <1>3, <1>4, <2>2, <2>3 DEF Sent
<1>5. CASE room.accessMode # "passcode"
  <2>. HIDE DEF d
  <2>. QED  BY <1>2, <1>3, <1>5 DEF Sent
<1>. QED  BY <1>4, <1>5

LEMMA UpdateSound ==
    ASSUME NEW body, IsBody("update", body)
    PROVE  SoundDecision("update", body)
<1> DEFINE d == ValidateUpdate(body)
           passcode == Get(body, "passcode", Null)
<1>1. SUFFICES ASSUME d.ok
               PROVE  /\ Sent(d.value, "passcode") => d.value.passcode = body.passcode /\ d.value.passcode.length >= 4
                      /\ d.value.kind = "clear-passcode" => body.accessMode \in {"open", "lobby"}
                      /\ d.value.kind = "set-passcode" => body.accessMode = "passcode"
                      /\ d.value.kind = "rotate" => ~Sent(body, "accessMode")
  BY DEF SoundDecision
<1>2. \/ d.value = [kind |-> "set-quality-cap", qualityCap |-> body.qualityCap]
      \/ /\ body.accessMode \in AccessModes \ {"passcode"}
         /\ d.value = [kind |-> "clear-passcode", accessMode |-> body.accessMode]
      \/ /\ ValidPasscode(passcode)
         /\ Sent(body, "accessMode") => body.accessMode = "passcode"
         /\ d.value = [kind |-> IF Sent(body, "accessMode") THEN "set-passcode" ELSE "rotate",
                       passcode |-> passcode]
  <2>1. \/ d = Accepted([kind |-> "set-quality-cap", qualityCap |-> body.qualityCap])
        \/ /\ body.accessMode \in AccessModes \ {"passcode"}
           /\ d = Accepted([kind |-> "clear-passcode", accessMode |-> body.accessMode])
        \/ /\ ValidPasscode(passcode)
           /\ Sent(body, "accessMode") => body.accessMode = "passcode"
           /\ d = Accepted([kind |-> IF Sent(body, "accessMode") THEN "set-passcode" ELSE "rotate",
                            passcode |-> passcode])
    <3>. HIDE DEF passcode
    <3>. QED  BY <1>1 DEF ValidateUpdate, Refused, Sent, passcode
  <2>. HIDE DEF d
  <2>. QED  BY <2>1 DEF Accepted
<1>. HIDE DEF d
<1>3. CASE d.value = [kind |-> "set-quality-cap", qualityCap |-> body.qualityCap]
  BY <1>3 DEF Sent
<1>4. CASE /\ body.accessMode \in AccessModes \ {"passcode"}
           /\ d.value = [kind |-> "clear-passcode", accessMode |-> body.accessMode]
  BY <1>4 DEF Sent, AccessModes
<1>5. CASE /\ ValidPasscode(passcode)
           /\ Sent(body, "accessMode") => body.accessMode = "passcode"
           /\ d.value = [kind |-> IF Sent(body, "accessMode") THEN "set-passcode" ELSE "rotate",
                         passcode |-> passcode]
  <2>1. passcode = body.passcode /\ passcode.length >= 4
    BY <1>5 DEF ValidPasscode, Get, Null
  <2>2. d.value.passcode = passcode /\ d.value.kind = IF Sent(body, "accessMode") THEN "set-passcode" ELSE "rotate"
    BY <1>5
  <2>. HIDE DEF passcode
  <2>. QED  BY <1>5, <2>1, <2>2
<1>. QED  BY <1>2, <1>3, <1>4, <1>5

LEMMA JoinSound ==
    ASSUME NEW body, IsBody("join", body)
    PROVE  SoundDecision("join", body)
<1> DEFINE d == ValidateJoin(body)
           name == Get(body, "displayName", Null)
<1>1. SUFFICES ASSUME d.ok
               PROVE  d.value.displayName.length \in 1..40 /\ ~d.value.displayName.padded
  BY DEF SoundDecision
<1>2. Trim(name).length \in 1..40 /\ d.value = Spread(body, [displayName |-> Trim(name)])
  BY <1>1 DEF ValidateJoin, Accepted, Refused
<1>3. name \in Text({"string", "null"})
  BY TextsAreTexts DEF IsBody, Kinds, Get, Sent
<1>4. ~Trim(name).padded
  BY <1>3 DEF Trim, Text
<1>. HIDE DEF d, name
<1>5. d.value["displayName"] = Trim(name)
  <2>1. "displayName" \in DOMAIN [displayName |-> Trim(name)]
        /\ [displayName |-> Trim(name)]["displayName"] = Trim(name)
    OBVIOUS
  <2>. QED  BY <1>2, <2>1 DEF Spread
<1>. QED  BY <1>2, <1>4, <1>5

LEMMA MediaTokenSound ==
    ASSUME NEW body, IsBody("media", body)
    PROVE  SoundDecision("media", body)
<1> DEFINE d == ValidateMediaToken(body)
           sessionId == Trim(Get(body, "sessionId", Null))
           transport == Get(body, "transportPreference", "sfu")
           given == [sessionId |-> sessionId, transportPreference |-> transport]
<1>1. SUFFICES ASSUME d.ok
               PROVE  d.value.sessionId.length > 0 /\ Sent(d.value, "transportPreference")
  BY DEF SoundDecision
<1>2. sessionId.length > 0 /\ d.value = Spread(body, given)
  BY <1>1 DEF ValidateMediaToken, Accepted, Refused
<1>3. DOMAIN given = {"sessionId", "transportPreference"} /\ given["sessionId"] = sessionId
  OBVIOUS
<1>. HIDE DEF d, given, sessionId
<1>4. d.value["sessionId"] = sessionId /\ "transportPreference" \in DOMAIN d.value
  BY <1>2, <1>3 DEF Spread
<1>. QED  BY <1>2, <1>4 DEF Sent

Routes == {"create", "update", "join", "media"}

\* For texts of any length and any values of the other fields: what a validator accepts is
\* what it must be.
THEOREM DecisionsAreSound ==
    ASSUME NEW route \in Routes, NEW body, IsBody(route, body)
    PROVE  SoundDecision(route, body)
BY CreateSound, UpdateSound, JoinSound, MediaTokenSound DEF Routes

\* The bodies of MCParts are such bodies.
LEMMA OneField ==
    ASSUME NEW field, NEW values, NEW body \in Maybe(field, values)
    PROVE  DOMAIN body \subseteq {field} /\ \A f \in DOMAIN body : body[f] \in values
BY DEF Maybe

LEMMA RequestsAreBodies ==
    ASSUME NEW r \in Requests
    PROVE  r.route \in Routes /\ IsBody(r.route, r.body)
<1>1. CASE r \in [route : {"create"}, body : CreateRequests]
  <2>1. r.route = "create" /\ r.body \in CreateRequests
    BY <1>1
  <2>2. PICK a \in Maybe("accessMode", {"open", "passcode", "private"}),
             b \in Maybe("maxParticipants", {1, 2, 5}) \cup Maybe("allowScreenShare", {"false", "yes"}),
             c \in Passcodes : r.body = Spread(Spread(a, b), c)
    BY <2>1 DEF CreateRequests
  <2>3. DOMAIN a \subseteq {"accessMode"} /\ DOMAIN b \subseteq {"maxParticipants", "allowScreenShare"}
        /\ DOMAIN c \subseteq {"passcode"} /\ \A f \in DOMAIN c : c[f] \in Text(Kinds("passcode"))
    BY OneField, TextsAreTexts DEF Passcodes
  <2>4. /\ DOMAIN r.body = DOMAIN a \cup DOMAIN b \cup DOMAIN c
        /\ \A f \in DOMAIN c : r.body[f] = c[f]
    BY <2>2 DEF Spread
  <2>5. \A f \in DOMAIN r.body \cap {"passcode", "displayName", "sessionId"} : r.body[f] \in Text(Kinds(f))
    BY <2>3, <2>4 DEF Kinds
  <2>. QED  BY <2>1, <2>3, <2>4, <2>5 DEF IsBody, Fields, Routes
<1>2. CASE r \in [route : {"update"}, body : UpdateRequests]
  <2>1. r.route = "update" /\ r.body \in UpdateRequests
    BY <1>2
  <2>2. PICK a \in Maybe("accessMode", {"lobby", "passcode", "private"}),
             b \in Maybe("qualityCap", {"low", "ultra"}),
             c \in Passcodes : r.body = Spread(Spread(a, b), c)
    BY <2>1 DEF UpdateRequests
  <2>3. DOMAIN a \subseteq {"accessMode"} /\ DOMAIN b \subseteq {"qualityCap"}
        /\ DOMAIN c \subseteq {"passcode"} /\ \A f \in DOMAIN c : c[f] \in Text(Kinds("passcode"))
    BY OneField, TextsAreTexts DEF Passcodes
  <2>4. /\ DOMAIN r.body = DOMAIN a \cup DOMAIN b \cup DOMAIN c
        /\ \A f \in DOMAIN c : r.body[f] = c[f]
    BY <2>2 DEF Spread
  <2>5. \A f \in DOMAIN r.body \cap {"passcode", "displayName", "sessionId"} : r.body[f] \in Text(Kinds(f))
    BY <2>3, <2>4 DEF Kinds
  <2>. QED  BY <2>1, <2>3, <2>4, <2>5 DEF IsBody, Fields, Routes
<1>3. CASE r \in [route : {"join"}, body : JoinRequests]
  <2>1. r.route = "join" /\ r.body \in JoinRequests
    BY <1>3
  <2>2. DOMAIN r.body \subseteq {"displayName"} /\ \A f \in DOMAIN r.body : r.body[f] \in Text({"string", "null"})
    BY <2>1, OneField, TextsAreTexts DEF JoinRequests
  <2>. QED  BY <2>1, <2>2 DEF IsBody, Fields, Kinds, Routes
<1>4. CASE r \in [route : {"media"}, body : MediaRequests]
  <2>1. r.route = "media" /\ r.body \in MediaRequests
    BY <1>4
  <2>2. PICK a \in Maybe("sessionId", Texts), b \in Maybe("transportPreference", {"p2p", "turn"}) :
            r.body = Spread(a, b)
    BY <2>1 DEF MediaRequests
  <2>3. DOMAIN a \subseteq {"sessionId"} /\ DOMAIN b \subseteq {"transportPreference"}
        /\ \A f \in DOMAIN a : a[f] \in Text({"string", "null"})
    BY OneField, TextsAreTexts
  <2>4. DOMAIN r.body = DOMAIN a \cup DOMAIN b /\ \A f \in DOMAIN a : r.body[f] = a[f]
    BY <2>2, <2>3 DEF Spread
  <2>5. \A f \in DOMAIN r.body \cap {"passcode", "displayName", "sessionId"} : r.body[f] \in Text(Kinds(f))
    BY <2>3, <2>4 DEF Kinds
  <2>. QED  BY <2>1, <2>3, <2>4, <2>5 DEF IsBody, Fields, Routes
<1>. QED  BY <1>1, <1>2, <1>3, <1>4 DEF Requests

\* The same, of the request that a behaviour of MCParts is about.
THEOREM EveryDecisionIsSound == PartsSpec => []ValidatedSound
<1>1. PartsInit => ValidatedSound
  <2>. SUFFICES ASSUME PartsInit  PROVE ValidatedSound
    OBVIOUS
  <2>1. request \in Requests \/ request = [route |-> "join", body |-> <<>>]
    BY DEF PartsInit
  <2>2. request.route \in Routes /\ IsBody(request.route, request.body)
    <3>1. IsBody("join", <<>>) /\ "join" \in Routes
      BY DEF IsBody, Routes
    <3>. QED  BY <2>1, <3>1, RequestsAreBodies
  <2>. QED  BY <2>2, DecisionsAreSound DEF ValidatedSound
<1>2. ValidatedSound /\ [PartsNext]_partsVars => ValidatedSound'
  BY DEF PartsNext, partsVars, othersOfP2P, othersOfQuality, ValidatedSound
<1>. QED  BY <1>1, <1>2, PTL DEF PartsSpec

-----------------------------------------------------------------------------
(* The parts of MCParts.                                                   *)

\* A behaviour of MCParts is, for the variables of each part, a behaviour of that part
\* for itself: the theorems above hold of the run that puts the parts side by side.
THEOREM EachPartForItself ==
    PartsSpec => P2PSpec /\ QSpec /\ LSpec /\ ChatSpec /\ CreateSpec
<1>1. PartsInit => P2PInit /\ QInit /\ LInit /\ ChatInit /\ CreateInit
  BY DEF PartsInit
<1>2. [PartsNext]_partsVars =>
          /\ [P2PNext]_p2pVars /\ [QNext]_qualityVars /\ [LNext]_limiterVars
          /\ [ChatNext]_chatVars /\ [CreateNext]_createVars
  BY DEF PartsNext, partsVars, othersOfP2P, othersOfQuality
<1>. QED  BY <1>1, <1>2, PTL DEF PartsSpec, P2PSpec, QSpec, LSpec, ChatSpec, CreateSpec
=============================================================================
