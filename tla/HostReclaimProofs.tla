------------------------- MODULE HostReclaimProofs -------------------------
(***************************************************************************)
(* What HostReclaim keeps for every set of rooms and any number of checks  *)
(* under way: a page shows itself unlocked with a vouched secret only, and *)
(* a cached secret is right and is not thrown away for nothing.            *)
(***************************************************************************)
EXTENDS HostReclaim, TLAPS

\* What the answers under way carry: the strengthening the theorems need.
AnswersVouched ==
    /\ silent # NoCall =>
          /\ silent.secret = silent.slug
          /\ hostSecret = silent.secret \/ hostSecret \in accepted
          /\ silent.answer = "ok" => silent.secret \in accepted
          /\ silent.answer = "unauthorized" =>
                room[silent.slug] = "gone" \/ silent.slug \in cooled
    /\ \A c \in manual : c.answer = "ok" => c.secret = c.slug /\ c.secret \in accepted

ReclaimInv == TypeOK /\ UnlockedIsVouched /\ StoredOpensRoom /\ AnswersVouched

(* A page that starts holds no secret and has asked nothing.               *)
LEMMA InitReclaim == Init => ReclaimInv
<1>. SUFFICES ASSUME Init PROVE ReclaimInv
  OBVIOUS
<1>1. stored \in [Slugs -> Slugs \cup {NoSecret}] /\ StoredOpensRoom
  BY DEF Init, StoredOpensRoom
<1>2. TypeOK
  BY <1>1 DEF Init, TypeOK
<1>. QED  BY <1>1, <1>2 DEF Init, ReclaimInv, UnlockedIsVouched, AnswersVouched

(* The hook's effect leaves a page that is not unlocked, or as it was, and *)
(* no check under way but one of the room's own cached secret.             *)
LEMMA EffectKeeps ==
    ASSUME ReclaimInv, NEW s \in Slugs \cup {NoSlug}, NEW has \in BOOLEAN,
           Effect(s, has), UNCHANGED <<serverVars, stored, manual>>
    PROVE  /\ UnlockedIsVouched' /\ StoredOpensRoom' /\ AnswersVouched'
           /\ status' \in {"idle", "checking", "unlocked", "needs-secret", "unavailable"}
           /\ hostSecret' \in Slugs \cup {NoSecret}
           /\ hasFired' \in Slugs \cup {NoSlug}
           /\ silent' \in Call \cup {NoCall}
<1>. USE DEF ReclaimInv, TypeOK, serverVars
<1>1. StoredOpensRoom'
  BY DEF StoredOpensRoom
<1>2. \A c \in manual' : c.answer = "ok" => c.secret = c.slug /\ c.secret \in accepted'
  BY DEF AnswersVouched
<1>3. CASE Reset
  BY <1>1, <1>2, <1>3 DEF Reset, UnlockedIsVouched, AnswersVouched
<1>4. CASE OfferForm(s) /\ s \in Slugs
  BY <1>1, <1>2, <1>4 DEF OfferForm, UnlockedIsVouched, AnswersVouched
<1>5. CASE StartCheck(s) /\ s \in Slugs /\ stored[s] # NoSecret
  <2>1. stored[s] = s
    BY <1>5 DEF StoredOpensRoom
  <2>2. silent' \in Call /\ silent'.secret = s /\ silent'.slug = s /\ silent'.answer = "pending"
    BY <1>5, <2>1 DEF StartCheck, Check, Call, Answer
  <2>3. hostSecret' = s /\ status' = "checking" /\ hasFired' = s
    BY <1>5, <2>1 DEF StartCheck
  <2>. QED  BY <1>1, <1>2, <1>5, <2>2, <2>3 DEF UnlockedIsVouched, AnswersVouched
<1>6. CASE silent' = NoCall /\ UNCHANGED hookVars
  BY <1>1, <1>2, <1>6 DEF hookVars, UnlockedIsVouched, AnswersVouched
<1>. QED  BY <1>3, <1>4, <1>5, <1>6 DEF Effect

(* A judgement vouches for the secrets it accepts and takes back none.     *)
LEMMA AnswersKeep ==
    ASSUME ReclaimInv, NEW c \in Call, NEW a \in Answer, Answers(c, a)
    PROVE  /\ room' = room /\ cooled \subseteq cooled' /\ cooled' \subseteq Slugs
           /\ accepted \subseteq accepted' /\ accepted' \subseteq Slugs
           /\ a = "ok" => c.secret = c.slug /\ c.secret \in accepted'
           /\ a = "unauthorized" /\ c.secret = c.slug =>
                 room'[c.slug] = "gone" \/ c.slug \in cooled'
<1>0. c.slug \in Slugs /\ c.secret \in Slugs
  BY DEF Call
<1>1. ASSUME NEW v, Judge(c, v)
      PROVE  /\ room' = room /\ cooled \subseteq cooled' /\ cooled' \subseteq Slugs
             /\ accepted \subseteq accepted' /\ accepted' \subseteq Slugs
             /\ v = "ok" => c.secret = c.slug /\ c.secret \in accepted'
             /\ v = "unauthorized" /\ c.secret = c.slug =>
                   room'[c.slug] = "gone" \/ c.slug \in cooled'
  BY <1>0, <1>1 DEF Judge, Verdicts, ReclaimInv, TypeOK
<1>2. CASE Judge(c, a)
  BY <1>1, <1>2
<1>3. CASE a = "error" /\ (UNCHANGED serverVars \/ \E v \in Verdicts(c) : Judge(c, v))
  BY <1>1, <1>3 DEF serverVars, ReclaimInv, TypeOK
<1>4. CASE a = "torn" /\ Judge(c, "ok")
  BY <1>1, <1>4
<1>. QED  BY <1>2, <1>3, <1>4 DEF Answers

(* Every step keeps the invariant.                                         *)
LEMMA NextReclaim == ReclaimInv /\ [Next]_vars => ReclaimInv'
<1>. SUFFICES ASSUME ReclaimInv, [Next]_vars PROVE ReclaimInv'
  OBVIOUS
<1>1. ASSUME NEW s \in Slugs \cup {NoSlug}, Navigate(s) PROVE ReclaimInv'
  <2>1. UNCHANGED <<serverVars, stored, manual>> /\ Effect(s, hasRoomSummary)
    BY <1>1 DEF Navigate
  <2>2. hasRoomSummary \in BOOLEAN
    BY DEF ReclaimInv, TypeOK
  <2>3. TypeOK'
    BY <1>1, <2>1, <2>2, EffectKeeps DEF Navigate, ReclaimInv, TypeOK, serverVars
  <2>. QED  BY <2>1, <2>2, <2>3, EffectKeeps DEF ReclaimInv
<1>2. CASE NoteSummary
  <2>1. UNCHANGED <<serverVars, stored, manual>> /\ Effect(slug, hasRoomSummary')
    BY <1>2 DEF NoteSummary
  <2>2. hasRoomSummary' \in BOOLEAN /\ slug \in Slugs \cup {NoSlug}
    BY <1>2 DEF NoteSummary, ReclaimInv, TypeOK
  <2>3. TypeOK'
    BY <1>2, <2>1, <2>2, EffectKeeps DEF NoteSummary, ReclaimInv, TypeOK, serverVars
  <2>. QED  BY <2>1, <2>2, <2>3, EffectKeeps DEF ReclaimInv
<1>3. CASE Load
  <2>1. UNCHANGED <<room, accepted, cooled, slug, hasRoomSummary, status, hostSecret, hasFired,
                    stored, silent, manual>>
    BY <1>3 DEF Load, serverVars, hookVars
  <2>2. loading' \in BOOLEAN /\ roomSummary' \in Slugs \cup {NoSlug}
    BY <1>3 DEF Load, ReclaimInv, TypeOK
  <2>3. TypeOK'
    BY <2>1, <2>2 DEF ReclaimInv, TypeOK
  <2>4. UnlockedIsVouched' /\ StoredOpensRoom' /\ AnswersVouched'
    BY <2>1 DEF ReclaimInv, UnlockedIsVouched, StoredOpensRoom, AnswersVouched
  <2>. QED  BY <2>3, <2>4 DEF ReclaimInv
<1>4. ASSUME NEW x \in Slugs, Submit(x) PROVE ReclaimInv'
  <2>1. Check(slug, x) \in Call /\ Check(slug, x).answer = "pending"
    BY <1>4 DEF Submit, Check, Call, Answer, ReclaimInv, TypeOK
  <2>2. /\ status' = "checking" /\ manual' = manual \cup {Check(slug, x)}
        /\ UNCHANGED <<serverVars, pageVars, hostSecret, hasFired, stored, silent>>
    BY <1>4 DEF Submit
  <2>3. TypeOK'
    BY <2>1, <2>2 DEF ReclaimInv, TypeOK, serverVars, pageVars
  <2>. QED  BY <2>1, <2>2, <2>3 DEF ReclaimInv, UnlockedIsVouched, StoredOpensRoom,
                                    AnswersVouched, serverVars
<1>5. CASE ServeSilent
  <2>1. PICK a \in Answer \ {"pending"} :
            Answers(silent, a) /\ silent' = [silent EXCEPT !.answer = a]
    BY <1>5 DEF ServeSilent
  <2>2. silent \in Call /\ silent # NoCall
    BY <1>5 DEF ServeSilent, ReclaimInv, TypeOK
  <2>3. /\ silent' \in Call /\ silent'.answer = a
        /\ silent'.slug = silent.slug /\ silent'.secret = silent.secret
    BY <2>1, <2>2 DEF Call
  <2>4. UNCHANGED <<pageVars, hookVars, stored, manual>>
    BY <1>5 DEF ServeSilent
  <2>5. /\ room' = room /\ cooled \subseteq cooled' /\ cooled' \subseteq Slugs
        /\ accepted \subseteq accepted' /\ accepted' \subseteq Slugs
        /\ a = "ok" => silent.secret \in accepted'
        /\ a = "unauthorized" /\ silent.secret = silent.slug =>
              room'[silent.slug] = "gone" \/ silent.slug \in cooled'
    BY <2>1, <2>2, AnswersKeep
  <2>6. TypeOK'
    BY <2>3, <2>4, <2>5 DEF ReclaimInv, TypeOK, pageVars, hookVars
  <2>7. AnswersVouched'
    BY <2>2, <2>3, <2>4, <2>5 DEF ReclaimInv, AnswersVouched, hookVars
  <2>. QED  BY <2>4, <2>5, <2>6, <2>7 DEF ReclaimInv, UnlockedIsVouched, StoredOpensRoom, hookVars
<1>6. ASSUME NEW c \in manual, ServeManual(c) PROVE ReclaimInv'
  <2>1. PICK a \in Answer \ {"pending"} :
            Answers(c, a) /\ manual' = (manual \ {c}) \cup {[c EXCEPT !.answer = a]}
    BY <1>6 DEF ServeManual
  <2>2. c \in Call
    BY DEF ReclaimInv, TypeOK
  <2>. DEFINE d == [c EXCEPT !.answer = a]
  <2>3. d \in Call /\ d.answer = a /\ d.slug = c.slug /\ d.secret = c.secret
    BY <2>1, <2>2 DEF Call
  <2>4. UNCHANGED <<pageVars, hookVars, stored, silent>>
    BY <1>6 DEF ServeManual
  <2>5. /\ room' = room /\ cooled \subseteq cooled' /\ cooled' \subseteq Slugs
        /\ accepted \subseteq accepted' /\ accepted' \subseteq Slugs
        /\ a = "ok" => c.secret = c.slug /\ c.secret \in accepted'
    BY <2>1, <2>2, AnswersKeep
  <2>6. manual' = (manual \ {c}) \cup {d}
    BY <2>1
  <2>. HIDE DEF d
  <2>7. TypeOK'
    BY <2>3, <2>4, <2>5, <2>6 DEF ReclaimInv, TypeOK, pageVars, hookVars
  <2>8. AnswersVouched'
    BY <2>3, <2>4, <2>5, <2>6 DEF ReclaimInv, AnswersVouched, hookVars
  <2>. QED  BY <2>4, <2>5, <2>7, <2>8 DEF ReclaimInv, UnlockedIsVouched, StoredOpensRoom, hookVars
<1>7. CASE ReceiveSilent
  <2>1. silent \in Call /\ silent # NoCall
    BY <1>7 DEF ReceiveSilent, Answered, ReclaimInv, TypeOK
  <2>2. TypeOK'
    BY <1>7, <2>1 DEF ReceiveSilent, ReclaimInv, TypeOK, serverVars, pageVars
  <2>3. UnlockedIsVouched'
    BY <1>7, <2>1 DEF ReceiveSilent, Answered, ReclaimInv, UnlockedIsVouched, AnswersVouched, serverVars
  <2>4. StoredOpensRoom'
    BY <1>7, <2>1 DEF ReceiveSilent, ReclaimInv, TypeOK, StoredOpensRoom
  <2>5. AnswersVouched'
    BY <1>7, <2>1 DEF ReceiveSilent, ReclaimInv, AnswersVouched, serverVars
  <2>. QED  BY <2>2, <2>3, <2>4, <2>5 DEF ReclaimInv
<1>8. ASSUME NEW c \in manual, ReceiveManual(c) PROVE ReclaimInv'
  <2>1. c \in Call /\ c.slug \in Slugs /\ c.secret \in Slugs
    BY DEF ReclaimInv, TypeOK, Call
  <2>2. TypeOK'
    BY <1>8, <2>1 DEF ReceiveManual, ReclaimInv, TypeOK, serverVars, pageVars
  <2>3. UnlockedIsVouched'
    BY <1>8, <2>1 DEF ReceiveManual, ReclaimInv, UnlockedIsVouched, AnswersVouched, serverVars
  <2>4. StoredOpensRoom'
    BY <1>8, <2>1 DEF ReceiveManual, ReclaimInv, TypeOK, StoredOpensRoom, AnswersVouched
  <2>5. AnswersVouched'
    BY <1>8, <2>1 DEF ReceiveManual, ReclaimInv, AnswersVouched, serverVars
  <2>. QED  BY <2>2, <2>3, <2>4, <2>5 DEF ReclaimInv
<1>9. ASSUME NEW s \in Slugs, Throttle(s) \/ Expire(s) \/ Sweep(s) PROVE ReclaimInv'
  <2>1. /\ UNCHANGED <<accepted, pageVars, hookVars, stored, silent, manual>>
        /\ room' \in [Slugs -> {"open", "expired", "gone"}]
        /\ cooled \subseteq cooled' /\ cooled' \subseteq Slugs
        /\ \A x \in Slugs : room[x] = "gone" => room'[x] = "gone"
    BY <1>9 DEF Throttle, Expire, Sweep, ReclaimInv, TypeOK
  <2>2. TypeOK'
    BY <2>1 DEF ReclaimInv, TypeOK, pageVars, hookVars
  <2>3. silent # NoCall => silent.slug \in Slugs
    BY DEF ReclaimInv, TypeOK, Call
  <2>4. AnswersVouched'
    BY <2>1, <2>3 DEF ReclaimInv, AnswersVouched, hookVars
  <2>. QED  BY <2>1, <2>2, <2>4 DEF ReclaimInv, UnlockedIsVouched, StoredOpensRoom, hookVars
<1>10. CASE UNCHANGED vars
  BY <1>10 DEF vars, serverVars, pageVars, hookVars, ReclaimInv, TypeOK, UnlockedIsVouched,
               StoredOpensRoom, AnswersVouched
<1>11. ASSUME SilentRejects \/ \E c \in manual : ManualRejects(c) PROVE ReclaimInv'
  <2>1. /\ UNCHANGED <<serverVars, pageVars, hookVars, stored>>
        /\ silent' \in {silent, NoCall} /\ manual' \subseteq manual
    BY <1>11 DEF SilentRejects, ManualRejects
  <2>2. TypeOK'
    BY <2>1 DEF ReclaimInv, TypeOK, serverVars, pageVars, hookVars
  <2>3. AnswersVouched'
    BY <2>1 DEF ReclaimInv, AnswersVouched, serverVars, hookVars
  <2>. QED  BY <2>1, <2>2, <2>3 DEF ReclaimInv, UnlockedIsVouched, StoredOpensRoom, serverVars, hookVars
<1>. QED  BY <1>1, <1>2, <1>3, <1>4, <1>5, <1>6, <1>7, <1>8, <1>9, <1>10, <1>11 DEF Next

(* For every set of rooms: a page is unlocked with a secret the server     *)
(* vouched for, and what it caches for a room opens that room              *)
(* (room-effects.ts:219-223, 271-276).                                     *)
THEOREM ReclaimIsVouched == Spec => []SecretsVouched
<1>1. ReclaimInv => SecretsVouched
  BY DEF ReclaimInv, SecretsVouched
<1>. QED  BY InitReclaim, NextReclaim, <1>1, PTL DEF Spec

(* For every set of rooms: a right cached secret goes only for a room that *)
(* is gone or an address that was in cooldown (room-effects.ts:229-245).   *)
THEOREM KeptUnlessRefusedHolds == Spec => KeptUnlessRefused
<1>1. ASSUME ReclaimInv, [Next]_vars, NEW s \in Slugs, stored[s] = s, stored'[s] = NoSecret
      PROVE  room[s] = "gone" \/ s \in cooled
  <2>1. NoSecret # s /\ stored' # stored
    BY <1>1, ReclaimAssumption
  <2>2. CASE ReceiveSilent
    <3>1. silent.answer = "unauthorized" /\ silent # NoCall
          /\ stored' = [stored EXCEPT ![silent.slug] = NoSecret]
      BY <2>1, <2>2 DEF ReceiveSilent, Answered
    <3>2. silent.slug = s
      BY <1>1, <2>1, <3>1 DEF ReclaimInv, TypeOK
    <3>. QED  BY <1>1, <3>1, <3>2 DEF ReclaimInv, AnswersVouched
  <2>3. ASSUME NEW c \in manual, ReceiveManual(c) PROVE FALSE
    <3>1. c.secret \in Slugs /\ stored' = [stored EXCEPT ![c.slug] = c.secret]
      BY <1>1, <2>1, <2>3 DEF ReceiveManual, ReclaimInv, TypeOK, Call
    <3>. QED  BY <1>1, <2>1, <3>1, ReclaimAssumption DEF ReclaimInv, TypeOK
  <2>. QED
    BY <1>1, <2>1, <2>2, <2>3
    DEF Next, Navigate, Load, NoteSummary, Submit, ServeSilent, ServeManual, Throttle, Expire,
        Sweep, SilentRejects, ManualRejects, vars
<1>2. ReclaimInv /\ [Next]_vars =>
        [\A s \in Slugs : stored[s] = s /\ stored'[s] = NoSecret =>
              room[s] = "gone" \/ s \in cooled]_vars
  BY <1>1
<1>. QED  BY InitReclaim, NextReclaim, <1>2, PTL DEF Spec, KeptUnlessRefused
=============================================================================
