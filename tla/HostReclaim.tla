---------------------------- MODULE HostReclaim ----------------------------
(***************************************************************************)
(* A browser tab proving to the server that it is the host of the room it  *)
(* shows: the useHostReclaim hook with its silent check of the cached      *)
(* secret and the form for a pasted one, the room-page hook whose summary  *)
(* it waits for, and the reclaim route with its limiter.                   *)
(*                                                                         *)
(* The user moves between rooms while requests are under way.  A request   *)
(* is answered by the server, or lost, and its answer is received later.   *)
(* The secret that opens a room is represented by the room's slug, so the  *)
(* other rooms' slugs are wrong secrets.  The limiter, whose code is that  *)
(* of RateLimiter, is here what the route sees of it: a room for which the *)
(* address was put in cooldown may refuse it, for the cooldown may be over *)
(* or not.  The messages beside the form are left out.                     *)
(***************************************************************************)
EXTENDS FiniteSets, Integers

CONSTANTS
    Slugs,          \* rooms the tab may show
    NoSlug,         \* a page that shows no room
    NoSecret,       \* null
    NoCall,         \* no check under way
    MaxSubmits,     \* bound: submitted checks under way at once
    MaxEnded        \* bound: rooms that expire

ASSUME ReclaimAssumption ==
    /\ NoSlug \notin Slugs /\ NoSecret \notin Slugs
    /\ MaxSubmits \in Nat /\ MaxEnded \in Nat

VARIABLES
    room,           \* room[s]: the room on the server
    cooled,         \* rooms for which the tab's address was put in cooldown
    slug,           \* the room page's slug
    loading,        \* is the room page's GET under way?
    roomSummary,    \* the room whose summary the page holds
    hasRoomSummary, \* the App's copy of roomSummary # null
    status, hostSecret, \* the hook's state
    hasFired,       \* hasFiredRef.current
    stored,         \* stored[s]: the cached host secret
    silent,         \* the silent check that is not aborted
    manual,         \* the submitted checks
    accepted        \* history: secrets that proved right

serverVars == <<room, cooled, accepted>>
pageVars == <<slug, loading, roomSummary, hasRoomSummary>>
hookVars == <<status, hostSecret, hasFired>>
vars == <<serverVars, pageVars, hookVars, stored, silent, manual>>

\* "torn" is a 200 whose body is lost or cannot be parsed.
Answer == {"pending", "ok", "torn", "unauthorized", "unavailable", "error"}

Call == [slug : Slugs, secret : Slugs, answer : Answer]

TypeOK ==
    /\ room \in [Slugs -> {"open", "expired", "gone"}]
    /\ slug \in Slugs \cup {NoSlug}
    /\ loading \in BOOLEAN
    /\ roomSummary \in Slugs \cup {NoSlug}
    /\ hasRoomSummary \in BOOLEAN
    /\ status \in {"idle", "checking", "unlocked", "needs-secret", "unavailable"}
    /\ hostSecret \in Slugs \cup {NoSecret}
    /\ hasFired \in Slugs \cup {NoSlug}
    /\ stored \in [Slugs -> Slugs \cup {NoSecret}]
    /\ silent \in Call \cup {NoCall}
    /\ manual \subseteq Call
    /\ accepted \subseteq Slugs
    /\ cooled \subseteq Slugs

\* A tab that shows no room yet; it may have created any of them.
Init ==
    /\ room = [s \in Slugs |-> "open"]
    /\ accepted = {} /\ cooled = {}
    /\ slug = NoSlug /\ loading = FALSE
    /\ roomSummary = NoSlug /\ hasRoomSummary = FALSE
    /\ status = "idle" /\ hostSecret = NoSecret
    /\ hasFired = NoSlug
    /\ stored \in {f \in [Slugs -> Slugs \cup {NoSecret}] : \A s \in Slugs : f[s] \in {s, NoSecret}}
    /\ silent = NoCall /\ manual = {}

-----------------------------------------------------------------------------
(* The effect of useHostReclaim.                                           *)

Check(s, secret) == [slug |-> s, secret |-> secret, answer |-> "pending"]

Reset ==
    /\ status' = "idle" /\ hostSecret' = NoSecret
    /\ hasFired' = NoSlug
    /\ silent' = NoCall

\* No cached secret: the form is offered once the summary says that the room exists.
OfferForm(s) ==
    /\ status' = "needs-secret" /\ hostSecret' = NoSecret /\ hasFired' = s
    /\ silent' = NoCall

StartCheck(s) ==
    /\ status' = "checking" /\ hostSecret' = stored[s]
    /\ hasFired' = s
    /\ silent' = Check(s, stored[s])

\* Mutant: the cleanup leaves the check of the run before alone.
Effect_NoAbort(s, has) ==
    \/ /\ s = NoSlug /\ status' = "idle" /\ hostSecret' = NoSecret
       /\ hasFired' = NoSlug /\ UNCHANGED silent
    \/ s # NoSlug /\ hasFired # s /\ stored[s] # NoSecret /\ StartCheck(s)
    \/ /\ s # NoSlug /\ hasFired # s /\ stored[s] = NoSecret /\ has
       /\ status' = "needs-secret" /\ hostSecret' = NoSecret /\ hasFired' = s
       /\ UNCHANGED silent
    \/ /\ s # NoSlug
       /\ hasFired = s \/ (stored[s] = NoSecret /\ ~has)
       /\ UNCHANGED <<hookVars, silent>>

\* The effect runs for page s: its cleanup aborts the silent check of the run before.
Effect(s, has) ==
    \/ s = NoSlug /\ Reset
    \/ s # NoSlug /\ hasFired # s /\ stored[s] # NoSecret /\ StartCheck(s)
    \/ s # NoSlug /\ hasFired # s /\ stored[s] = NoSecret /\ has /\ OfferForm(s)
    \/ /\ s # NoSlug
       /\ hasFired = s \/ (stored[s] = NoSecret /\ ~has)
       /\ silent' = NoCall
       /\ UNCHANGED hookVars

-----------------------------------------------------------------------------
(* The page.                                                               *)

\* The user goes to another page; a page without a room drops the summary.
Navigate(s) ==
    /\ s # slug
    /\ slug' = s /\ loading' = (s # NoSlug)
    /\ roomSummary' = IF s = NoSlug THEN NoSlug ELSE roomSummary
    /\ Effect(s, hasRoomSummary)
    /\ UNCHANGED <<serverVars, hasRoomSummary, stored, manual>>

\* loadRoom ends, well or not.
Load ==
    /\ loading
    /\ loading' = FALSE
    /\ \/ room[slug] # "gone" /\ roomSummary' = slug
       \/ roomSummary' = NoSlug
    /\ UNCHANGED <<serverVars, slug, hasRoomSummary, hookVars, stored, silent, manual>>

\* The App's effect copies whether there is a summary, and the hook's effect runs again.
NoteSummary ==
    /\ hasRoomSummary # (roomSummary # NoSlug)
    /\ hasRoomSummary' = (roomSummary # NoSlug)
    /\ Effect(slug, hasRoomSummary')
    /\ UNCHANGED <<serverVars, slug, loading, roomSummary, stored, manual>>

\* The form, which the page shows beside a summary when a secret is needed.
Submit(secret) ==
    /\ slug # NoSlug /\ roomSummary # NoSlug /\ status = "needs-secret"
    /\ Cardinality(manual) < MaxSubmits
    /\ status' = "checking"
    /\ manual' = manual \cup {Check(slug, secret)}
    /\ UNCHANGED <<serverVars, pageVars, hostSecret, hasFired, stored, silent>>

-----------------------------------------------------------------------------
(* The reclaim route.  An address in cooldown is refused as if the secret  *)
(* were wrong, and so is a slug that is no room.                           *)

Verdicts(c) ==
    IF room[c.slug] = "gone" \/ c.secret # c.slug THEN {"unauthorized"}
    ELSE {IF room[c.slug] = "expired" THEN "unavailable" ELSE "ok"}
            \cup (IF c.slug \in cooled THEN {"unauthorized"} ELSE {})

\* A wrong secret counts against the address and may put it in cooldown.
Judge(c, verdict) ==
    /\ verdict \in Verdicts(c)
    /\ \/ UNCHANGED cooled
       \/ room[c.slug] # "gone" /\ c.secret # c.slug /\ cooled' = cooled \cup {c.slug}
    /\ accepted' = IF verdict = "ok" THEN accepted \cup {c.secret} ELSE accepted
    /\ UNCHANGED room

\* The request is judged and answered, or it or its answer is lost; of a yes the body may
\* be lost alone.
Answers(c, a) ==
    \/ Judge(c, a)
    \/ a = "torn" /\ Judge(c, "ok")
    \/ a = "error" /\ (UNCHANGED serverVars \/ \E verdict \in Verdicts(c) : Judge(c, verdict))

ServeSilent ==
    /\ silent # NoCall /\ silent.answer = "pending"
    /\ \E a \in Answer \ {"pending"} :
          Answers(silent, a) /\ silent' = [silent EXCEPT !.answer = a]
    /\ UNCHANGED <<pageVars, hookVars, stored, manual>>

ServeManual(c) ==
    /\ c \in manual /\ c.answer = "pending"
    /\ \E a \in Answer \ {"pending"} :
          Answers(c, a) /\ manual' = (manual \ {c}) \cup {[c EXCEPT !.answer = a]}
    /\ UNCHANGED <<pageVars, hookVars, stored, silent>>

\* Somebody else at the tab's address fails once too often.
Throttle(s) ==
    /\ room[s] # "gone" /\ s \notin cooled
    /\ cooled' = cooled \cup {s}
    /\ UNCHANGED <<room, accepted, pageVars, hookVars, stored, silent, manual>>

Expire(s) ==
    /\ room[s] = "open" /\ Cardinality({x \in Slugs : room[x] # "open"}) < MaxEnded
    /\ room' = [room EXCEPT ![s] = "expired"]
    /\ UNCHANGED <<accepted, cooled, pageVars, hookVars, stored, silent, manual>>

Sweep(s) ==
    /\ room[s] = "expired"
    /\ room' = [room EXCEPT ![s] = "gone"]
    /\ UNCHANGED <<accepted, cooled, pageVars, hookVars, stored, silent, manual>>

-----------------------------------------------------------------------------
(* Answers.                                                                *)

Answered(c) == c # NoCall /\ c.answer \notin {"pending", "torn"}

\* reclaimHostRole reads the body of a 200 outside its try: without one it rejects, and so
\* does the caller, which has set nothing yet.
Torn(c) == c # NoCall /\ c.answer = "torn"

SilentRejects ==
    /\ Torn(silent)
    /\ silent' = NoCall
    /\ UNCHANGED <<serverVars, pageVars, hookVars, stored, manual>>

ManualRejects(c) ==
    /\ c \in manual /\ Torn(c)
    /\ manual' = manual \ {c}
    /\ UNCHANGED <<serverVars, pageVars, hookVars, stored, silent>>

\* Mutant: anything but a yes clears the cached secret.
ReceiveSilent_ClearsOnAny ==
    /\ Answered(silent)
    /\ silent' = NoCall
    /\ status' = CASE silent.answer = "ok" -> "unlocked"
                   [] silent.answer = "unavailable" -> "unavailable"
                   [] OTHER -> "needs-secret"
    /\ IF silent.answer # "ok"
       THEN stored' = [stored EXCEPT ![silent.slug] = NoSecret] /\ hostSecret' = NoSecret
       ELSE UNCHANGED <<stored, hostSecret>>
    /\ UNCHANGED <<serverVars, pageVars, hasFired, manual>>

ReceiveSilent ==
    /\ Answered(silent)
    /\ silent' = NoCall
    /\ status' = CASE silent.answer = "ok" -> "unlocked"
                   [] silent.answer = "unavailable" -> "unavailable"
                   [] OTHER -> "needs-secret"
    /\ IF silent.answer = "unauthorized"
       THEN stored' = [stored EXCEPT ![silent.slug] = NoSecret] /\ hostSecret' = NoSecret
       ELSE UNCHANGED <<stored, hostSecret>>
    /\ UNCHANGED <<serverVars, pageVars, hasFired, manual>>

\* Mutant: an unexpected error leaves the status as it is.
ReceiveManual_KeepsChecking(c) ==
    /\ c \in manual /\ Answered(c)
    /\ manual' = manual \ {c}
    /\ status' = CASE c.answer = "ok" -> "unlocked"
                   [] c.answer = "unavailable" -> "unavailable"
                   [] c.answer = "unauthorized" -> "needs-secret"
                   [] OTHER -> status
    /\ IF c.answer = "ok"
       THEN stored' = [stored EXCEPT ![c.slug] = c.secret] /\ hostSecret' = c.secret
       ELSE UNCHANGED <<stored, hostSecret>>
    /\ UNCHANGED <<serverVars, pageVars, hasFired, silent>>

\* The callback resumes with the slug it was called with, whatever page is shown now.
ReceiveManual(c) ==
    /\ c \in manual /\ Answered(c)
    /\ manual' = manual \ {c}
    /\ status' = CASE c.answer = "ok" -> "unlocked"
                   [] c.answer = "unavailable" -> "unavailable"
                   [] OTHER -> "needs-secret"
    /\ IF c.answer = "ok"
       THEN stored' = [stored EXCEPT ![c.slug] = c.secret] /\ hostSecret' = c.secret
       ELSE UNCHANGED <<stored, hostSecret>>
    /\ UNCHANGED <<serverVars, pageVars, hasFired, silent>>

-----------------------------------------------------------------------------
Next ==
    \/ \E s \in Slugs \cup {NoSlug} : Navigate(s)
    \/ Load \/ NoteSummary
    \/ \E x \in Slugs : Submit(x)
    \/ ServeSilent \/ ReceiveSilent \/ SilentRejects
    \/ \E c \in manual : ServeManual(c) \/ ReceiveManual(c) \/ ManualRejects(c)
    \/ \E s \in Slugs : Throttle(s) \/ Expire(s) \/ Sweep(s)

Spec == Init /\ [][Next]_vars

\* Requests are answered or fail, and what was answered is handled; users, and rooms
\* do what they do.
FairSpec ==
    /\ Spec
    /\ WF_vars(Load) /\ WF_vars(NoteSummary)
    /\ WF_vars(ServeSilent) /\ WF_vars(ReceiveSilent \/ SilentRejects)
    /\ WF_vars(\E c \in manual : ServeManual(c))
    /\ WF_vars(\E c \in manual : ReceiveManual(c) \/ ManualRejects(c))

-----------------------------------------------------------------------------
(* Safety.                                                                 *)

(* A page that shows itself unlocked holds a secret that the server has    *)
(* found right, through navigation, aborted checks and answers in any      *)
(* order (room-effects.ts:219-223, 271-276).                               *)
UnlockedIsVouched == status = "unlocked" => hostSecret \in accepted

(* A secret cached for a room opens that room: a late answer never files a *)
(* secret under the room that happens to be shown (room-effects.ts:272).   *)
StoredOpensRoom == \A s \in Slugs : stored[s] \in {s, NoSecret}

(* Both: what the page believes and what it keeps agree with the server.   *)
SecretsVouched == UnlockedIsVouched /\ StoredOpensRoom

(* A cached secret that opens its room is thrown away only for a room that *)
(* is gone or an address that has been in cooldown: a network failure, a   *)
(* room that is over, or leaving the page keep it                          *)
(* (room-effects.ts:229-245).                                              *)
KeptUnlessRefused ==
    [][\A s \in Slugs : stored[s] = s /\ stored'[s] = NoSecret =>
          room[s] = "gone" \/ s \in cooled]_vars

-----------------------------------------------------------------------------
(* Liveness.                                                               *)

(* The form does not hang: whatever pages are visited meanwhile, a         *)
(* submitted check brings the page out of "checking", unless the body of a *)
(* yes to a submitted check is lost                                        *)
(* (room-effects.ts:263-292, room-actions.ts:104-106).                     *)
SubmissionEnds ==
    (status = "checking" /\ manual # {}) ~> (status # "checking" \/ \E c \in manual : Torn(c))

-----------------------------------------------------------------------------
(* What the comments say.                                                  *)

(* "If present, calls `/reclaim` once and transitions to "unlocked" on     *)
(* success" (room-effects.ts:149-150): a page that stays until its cached  *)
(* secret was found right unlocks.                                         *)
SuccessUnlocks ==
    \A s \in Slugs :
        (hasFired = s /\ silent # NoCall /\ silent.answer = "ok")
            ~> (status = "unlocked" \/ slug # s)
=============================================================================
