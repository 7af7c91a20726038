---------------------------- MODULE QualityControl ----------------------------
(***************************************************************************)
(* What a client sends of its camera during a call: the preset clamped to  *)
(* the host's cap and the user's own limits, the downgrade ladder of       *)
(* useAutoDowngrade with its dwell, and the audio-only prompt.             *)
(*                                                                         *)
(* Time counts units of 10 seconds.  Both hooks make `now` anew in every   *)
(* render, so their effects run, and tick, at any render as well as every  *)
(* three seconds: a tick may come at any time.  LiveKit is external and    *)
(* does what it is asked to.                                               *)
(***************************************************************************)
EXTENDS Integers

CONSTANTS
    JoinChoices,        \* join choices: [preset, prefs, video]
    Caps,           \* quality caps the host sets
    MaxActs         \* bound: connections and ends of the call, changes of health or cap, and clicks

VARIABLES
    active,         \* connected, with a room (isActive)
    health,         \* networkHealth
    cap,            \* qualityCap of the room's summary
    choice,         \* the stored call session
    rung,           \* how far down the ladder: 0 is none, Paused is video-paused
    age,            \* time since lastTransitionAt
    prompt,         \* promptState
    dismissedAge,   \* time since dismissedAt, or NotDismissed
    camera,         \* does LiveKit publish the camera?
    shown,          \* isCameraEnabled: what the button says
    lasted,         \* history: time since the ladder was last reset
    paused,         \* history: time the video has been paused
    quiet,          \* history: time since the user last dismissed the prompt in this call
    accepted,       \* history: was audio-only accepted in this call?
    acts

qualityVars == <<active, health, cap, choice, rung, age, prompt, dismissedAge, camera, shown,
                 lasted, paused, quiet, accepted, acts>>

-----------------------------------------------------------------------------
(* Publish options.                                                        *)

PresetProfiles ==
    [data_saver   |-> [width |-> 320, height |-> 240, fps |-> 12, kbps |-> 200],
     balanced     |-> [width |-> 640, height |-> 360, fps |-> 15, kbps |-> 500],
     best_quality |-> [width |-> 1280, height |-> 720, fps |-> 24, kbps |-> 1200]]

ResolutionPixels ==
    [p240 |-> [width |-> 320, height |-> 240], p360 |-> [width |-> 640, height |-> 360],
     p480 |-> [width |-> 854, height |-> 480], p720 |-> [width |-> 1280, height |-> 720]]

PresetRank == [data_saver |-> 0, balanced |-> 1, best_quality |-> 2]
CapRank == [low |-> 0, balanced |-> 1, high |-> 2]

ClampPresetToCap(preset, limit) ==
    IF PresetRank[preset] <= CapRank[limit] THEN preset
    ELSE CHOOSE p \in DOMAIN PresetRank : PresetRank[p] = CapRank[limit]

\* What a user may choose on the way into a call.
JoinChoice ==
    [preset : DOMAIN PresetRank, video : BOOLEAN,
     prefs : [resolution : {"unset"} \cup DOMAIN ResolutionPixels, fps : Nat, kbps : Nat,
              audioOnly : BOOLEAN]]

ASSUME QualityAssumption ==
    JoinChoices \subseteq JoinChoice /\ Caps \subseteq DOMAIN CapRank /\ MaxActs \in Nat

Area(r) == r.width * r.height

Tighter(own, limit) == IF own \in 1..(limit - 1) THEN own ELSE limit

\* computeEffectivePublishOptions; 0 and "unset" stand for a preference that is not set.
EffectivePublishOptions(preset, limit, prefs) ==
    LET profile == PresetProfiles[ClampPresetToCap(preset, limit)]
        smaller == /\ prefs.resolution # "unset"
                   /\ Area(ResolutionPixels[prefs.resolution]) < Area(profile)
        source == IF smaller THEN ResolutionPixels[prefs.resolution] ELSE profile
    IN  [width |-> source.width, height |-> source.height,
         fps |-> Tighter(prefs.fps, profile.fps), kbps |-> Tighter(prefs.kbps, profile.kbps),
         audioOnly |-> prefs.audioOnly]

AtLeast(floor, n) == IF n < floor THEN floor ELSE n

\* applyGroupRoomTuning, with Math.round of 0.6 times the bitrate.
GroupTuned(options, isGroup) ==
    IF isGroup THEN [options EXCEPT !.kbps = AtLeast(80, (6 * options.kbps + 5) \div 10)]
    ELSE options

\* Rungs: 0 none, 1 bitrate, 2 resolution, 3 frame-rate, 4 video-paused.
Paused == 4

DeriveRungOptions_Floor(base, r) ==
    LET halfRate == [base EXCEPT !.kbps = AtLeast(250, @ \div 2)]
        halfSize == [halfRate EXCEPT !.width = AtLeast(160, @ \div 2), !.height = AtLeast(120, @ \div 2)]
    IN  CASE r = 0 -> base
          [] r = 1 -> halfRate
          [] r = 2 -> halfSize
          [] r = 3 -> [halfSize EXCEPT !.fps = AtLeast(6, @ \div 2)]
          [] r = Paused -> [base EXCEPT !.audioOnly = TRUE]

DeriveRungOptions(base, r) ==
    LET halfRate == [base EXCEPT !.kbps = AtLeast(50, @ \div 2)]
        halfSize == [halfRate EXCEPT !.width = AtLeast(160, @ \div 2), !.height = AtLeast(120, @ \div 2)]
    IN  CASE r = 0 -> base
          [] r = 1 -> halfRate
          [] r = 2 -> halfSize
          [] r = 3 -> [halfSize EXCEPT !.fps = AtLeast(6, @ \div 2)]
          [] r = Paused -> [base EXCEPT !.audioOnly = TRUE]

\* basePublishOptions of the call page.
Base == EffectivePublishOptions(choice.preset, cap, choice.prefs)

-----------------------------------------------------------------------------
(* The ladder.                                                             *)

Dwell == 1

\* assessNetworkHealth: without a connected call there is no more to say than offline.
Healths(connected) ==
    IF connected THEN {"offline", "poor", "fair", "good"} ELSE {"offline", "reconnecting"}

\* computeDowngradeStep: the rungs a tick may go to.
NextRung_NeverPauses(h, r, since) ==
    LET up == (h = "good" /\ r > 0) \/ (h = "fair" /\ r > 1)
        down == (h = "poor") /\ r < Paused - 1
    IN  IF since >= Dwell /\ up THEN r - 1
        ELSE IF since >= Dwell /\ down THEN r + 1 ELSE r

NextRung(h, r, since) ==
    LET up == (h = "good" /\ r > 0) \/ (h = "fair" /\ r > 1)
        down == (h = "poor") /\ r < Paused
    IN  IF since >= Dwell /\ up THEN r - 1
        ELSE IF since >= Dwell /\ down THEN r + 1 ELSE r

NotDismissed == 99
Trigger == 3
Cooldown == 6

UpTo(limit, n) == IF n > limit THEN limit ELSE n

\* computePromptState: the prompt and its dismissal after a tick at rung r.
PromptStep_NoCooldown(r, since, state, dismissed) ==
    LET fires == state = "dismissed" /\ dismissed # NotDismissed
        from == IF fires THEN [state |-> "hidden", dismissed |-> NotDismissed]
                ELSE [state |-> state, dismissed |-> dismissed]
    IN  IF r # Paused THEN [state |-> "hidden", dismissed |-> NotDismissed]
        ELSE IF since >= Trigger /\ from.state = "hidden"
        THEN [state |-> "suggested", dismissed |-> NotDismissed]
        ELSE from

PromptStep(r, since, state, dismissed) ==
    LET again == state = "dismissed" /\ dismissed # NotDismissed /\ dismissed >= Cooldown
        from == IF again THEN [state |-> "hidden", dismissed |-> NotDismissed]
                ELSE [state |-> state, dismissed |-> dismissed]
    IN  IF r # Paused THEN [state |-> "hidden", dismissed |-> NotDismissed]
        ELSE IF since >= Trigger /\ from.state = "hidden"
        THEN [state |-> "suggested", dismissed |-> NotDismissed]
        ELSE from

RunPromptEffect(r, since) ==
    LET step == PromptStep(r, since, prompt, dismissedAge) IN
    prompt' = step.state /\ dismissedAge' = step.dismissed

-----------------------------------------------------------------------------

\* The effect that applies a rung to the room: at the top it turns the camera on unless
\* the base is audio-only, at the bottom off, and between it only asks for a lower quality.
CameraAt(r, base) == IF base.audioOnly \/ r = Paused THEN FALSE
                     ELSE IF r = 0 THEN TRUE ELSE camera

\* The ladder goes to rung r; the effects that depend on it follow.
GoTo(r) ==
    /\ rung' = r
    /\ age' = IF r = rung THEN age ELSE 0
    /\ camera' = IF r = rung THEN camera ELSE CameraAt(r, Base)
    /\ paused' = IF r = rung THEN paused ELSE 0
    /\ RunPromptEffect(r, age')

QInit ==
    /\ active = FALSE /\ health = "reconnecting" /\ cap \in Caps
    /\ choice \in JoinChoices
    /\ rung = 0 /\ age = 0 /\ prompt = "hidden" /\ dismissedAge = NotDismissed
    /\ camera = FALSE /\ shown = choice.video
    /\ lasted = 0 /\ paused = 0 /\ quiet = NotDismissed /\ accepted = FALSE /\ acts = 0

AudioOnly(c) == [c EXCEPT !.prefs.audioOnly = TRUE]

Acting == acts < MaxActs /\ acts' = acts + 1

\* connectToSfu publishes the camera only when asked to; then the hook applies rung 0.
Connect ==
    /\ ~active /\ Acting
    /\ active' = TRUE
    /\ \E h \in Healths(TRUE) : health' = h
    /\ camera' = CameraAt(0, Base)
    /\ UNCHANGED <<cap, choice, rung, age, prompt, dismissedAge, shown, lasted, paused, quiet,
                   accepted>>

\* Every render without a call resets the hook, but none needs to come while it connects.
Idle ==
    /\ ~active /\ lasted > 0
    /\ age' = 0 /\ lasted' = 0
    /\ UNCHANGED <<active, health, cap, choice, rung, prompt, dismissedAge, camera, shown, paused,
                   quiet, accepted, acts>>

\* The call ends; joining it again starts from the stored session.
Reset ==
    /\ active /\ Acting
    /\ active' = FALSE /\ health' = "reconnecting"
    /\ rung' = 0 /\ age' = 0 /\ lasted' = 0 /\ paused' = 0
    /\ prompt' = "hidden" /\ dismissedAge' = NotDismissed /\ quiet' = NotDismissed
    /\ camera' = FALSE /\ shown' = choice.video /\ accepted' = FALSE
    /\ choice' = IF accepted THEN AudioOnly(choice) ELSE choice
    /\ UNCHANGED cap

Tick ==
    /\ active
    /\ GoTo(NextRung(health, rung, age))
    /\ UNCHANGED <<active, health, cap, choice, shown, lasted, quiet, accepted, acts>>

\* A change of health is evaluated at once.
HealthChange ==
    /\ active /\ Acting
    /\ \E h \in Healths(TRUE) \ {health} :
        /\ health' = h
        /\ GoTo(NextRung(h, rung, age))
    /\ UNCHANGED <<active, cap, choice, shown, lasted, quiet, accepted>>

Restore_KeepsAge ==
    /\ active /\ rung > 0 /\ Acting
    /\ rung' = 0 /\ camera' = CameraAt(0, Base) /\ lasted' = 0 /\ paused' = 0
    /\ RunPromptEffect(0, 0)
    /\ UNCHANGED <<active, health, cap, choice, age, shown, quiet, accepted>>

Restore ==
    /\ active /\ rung > 0 /\ Acting
    /\ GoTo(0) /\ lasted' = 0
    /\ UNCHANGED <<active, health, cap, choice, shown, quiet, accepted>>

\* The host's new cap makes new base options, which are applied at the current rung.
CapChange ==
    /\ Acting
    /\ \E c \in Caps \ {cap} :
        /\ cap' = c
        /\ camera' = IF active THEN CameraAt(rung, EffectivePublishOptions(choice.preset, c, choice.prefs))
                     ELSE camera
    /\ UNCHANGED <<active, health, choice, rung, age, prompt, dismissedAge, shown, lasted, paused,
                   quiet, accepted>>

ToggleCamera ==
    /\ active /\ Acting
    /\ shown' = ~shown /\ camera' = ~shown
    /\ UNCHANGED <<active, health, cap, choice, rung, age, prompt, dismissedAge, lasted, paused,
                   quiet, accepted>>

\* handleAcceptAudioOnly stores the preference; the session of this call is not changed.
AcceptAudioOnly ==
    /\ prompt = "suggested" /\ Acting
    /\ prompt' = "accepted" /\ dismissedAge' = NotDismissed
    /\ accepted' = TRUE
    /\ UNCHANGED <<active, health, cap, choice, rung, age, camera, shown, lasted, paused, quiet>>

Dismiss ==
    /\ prompt = "suggested" /\ Acting
    /\ prompt' = "dismissed" /\ dismissedAge' = 0 /\ quiet' = 0
    /\ UNCHANGED <<active, health, cap, choice, rung, age, camera, shown, lasted, paused, accepted>>

Older(limit, n) == IF n = NotDismissed THEN n ELSE UpTo(limit, n + 1)

Elapse ==
    /\ age' = UpTo(Trigger, age + 1) /\ lasted' = UpTo(Paused * Dwell + Trigger, lasted + 1)
    /\ paused' = IF rung = Paused THEN UpTo(Cooldown, paused + 1) ELSE 0
    /\ dismissedAge' = Older(Cooldown, dismissedAge) /\ quiet' = Older(Cooldown, quiet)
    /\ UNCHANGED <<active, health, cap, choice, rung, prompt, camera, shown, accepted, acts>>

QNext ==
    \/ Connect \/ Idle \/ Reset \/ Tick \/ HealthChange \/ Restore \/ CapChange
    \/ ToggleCamera \/ AcceptAudioOnly \/ Dismiss \/ Elapse

QSpec == QInit /\ [][QNext]_qualityVars
\* The interval ticks and time passes.
QFairSpec == QSpec /\ WF_qualityVars(Tick) /\ WF_qualityVars(Elapse)

-----------------------------------------------------------------------------
(* Properties.                                                             *)

QTypeOK ==
    /\ {active, camera, shown, accepted} \subseteq BOOLEAN
    /\ health \in Healths(active) /\ cap \in Caps
    /\ choice \in JoinChoices \cup {AudioOnly(c) : c \in JoinChoices}
    /\ rung \in 0..Paused /\ age \in 0..Trigger
    /\ prompt \in {"hidden", "suggested", "accepted", "dismissed"}
    /\ dismissedAge \in (0..Cooldown) \cup {NotDismissed}
    /\ (dismissedAge # NotDismissed) = (prompt = "dismissed")
    /\ lasted \in 0..(Paused * Dwell + Trigger) /\ paused \in 0..Cooldown
    /\ quiet \in (0..Cooldown) \cup {NotDismissed}

\* The ladder is paced: each rung was held for the dwell, counted from the last reset (a
\* click on Restore, or the last render without a call), so a link that flickers or a
\* burst of renders never takes more than one rung from a call in ten seconds.
LadderPaced == rung * Dwell + age <= lasted

\* The user is asked about audio-only when video has been paused for thirty seconds in
\* one go, and not within a minute of having said no in the same pause (quiet > paused:
\* the dismissal is older than the pause): once video came back at all, the cooldown is
\* forgotten with the dismissal.
NotNagged ==
    prompt = "suggested" =>
        rung = Paused /\ paused >= Trigger /\ (quiet >= Cooldown \/ quiet > paused)

\* The presets that a cap allows, as documented.
Allowed == [low |-> {"data_saver"}, balanced |-> {"data_saver", "balanced"},
            high |-> {"data_saver", "balanced", "best_quality"}]

\* Below these a rung, and the tuning for groups, lower nothing.
RungFloor == [width |-> 0, height |-> 0, fps |-> 6, kbps |-> 50]
GroupFloor == 80

\* Whatever the rung and the user's own limits, what is derived for the ladder stays within
\* the preset the cap allows; and neither a rung nor a group ever raises what was asked
\* for, unless that was below the floor it is raised to.
RungWithinCap ==
    LET options == DeriveRungOptions(Base, rung) IN
    /\ \E p \in Allowed[cap] : \A axis \in DOMAIN PresetProfiles[p] :
           options[axis] <= PresetProfiles[p][axis] /\ Base[axis] <= PresetProfiles[p][axis]
    /\ \A axis \in DOMAIN RungFloor : options[axis] <= AtLeast(RungFloor[axis], Base[axis])
    /\ GroupTuned(Base, TRUE).kbps <= AtLeast(GroupFloor, Base.kbps)

\* On a link that stays poor the call ends up audio-only, and the user is asked.
PoorPauses ==
    (active /\ health = "poor") ~> (prompt # "hidden" \/ ~active \/ health # "poor")

\* On a link that stays good video comes back, all the way.
GoodRestores == (active /\ health = "good") ~> (rung = 0 \/ ~active \/ health # "good")

\* Both ends of the ladder are reached.
LadderSettles == PoorPauses /\ GoodRestores
=============================================================================
