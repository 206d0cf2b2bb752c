----------------------------- MODULE BrowserAudio -----------------------------
(***************************************************************************)
(* Ducking and playout suspension of the browser client's audio element    *)
(* (vox-rtc-client/src/client.ts).                                         *)
(*                                                                         *)
(* Vox's control events come over the gateway socket and over the data     *)
(* channel, so in any order.  Two sources duck the volume; it is restored  *)
(* some time after both were cleared.  A suspension mutes the element      *)
(* until its owner resumes it.  The user sets volume and mute at any time; *)
(* what they set while the client ducks or suspends is not kept.           *)
(***************************************************************************)
EXTENDS Naturals

CONSTANTS
    Volumes,        \* the volumes the user sets
    DuckVolume,     \* audioDucking.duckVolume
    CandidateIds,   \* ids of interruption candidates
    Null

ASSUME AudioAssumption ==
    /\ Volumes \subseteq Nat /\ Volumes # {}
    /\ DuckVolume \in Nat
    /\ Null \notin CandidateIds /\ Null \notin Volumes /\ Null \notin BOOLEAN

Sources == {"speech", "hold"}

(* Timers are told apart only from the one they replace, so two names do.  *)
Timers == {1, 2}
NoTimer == 0

VARIABLES
    volume, muted,              \* of the audio element
    audioDuckingSources,
    audioDuckingBaseVolume,
    audioDuckingReleaseTimer,   \* the timer that is set, or NoTimer
    playoutSuspendOwner,
    mutedBeforePlayoutSuspend,
    userVolume, userMuted,      \* what the user set last, outside a duck or mute
    touched,                    \* what the user changed under a duck or mute
    releaseDelay                \* audioDucking.releaseDelayMs > 0

ducking == <<volume, audioDuckingSources, audioDuckingBaseVolume,
             audioDuckingReleaseTimer>>
playout == <<muted, playoutSuspendOwner, mutedBeforePlayoutSuspend>>
settings == <<userVolume, userMuted, releaseDelay>>
vars == <<ducking, playout, settings, touched>>

Init ==
    /\ volume \in Volumes /\ userVolume = volume
    /\ muted \in BOOLEAN /\ userMuted = muted
    /\ audioDuckingSources = {}
    /\ audioDuckingBaseVolume = Null
    /\ audioDuckingReleaseTimer = NoTimer
    /\ playoutSuspendOwner = Null
    /\ mutedBeforePlayoutSuspend = Null
    /\ touched = {}
    /\ releaseDelay \in BOOLEAN

Lower(a, b) == IF a < b THEN a ELSE b

-----------------------------------------------------------------------------
(* Mutant of BaseVolume: the base is taken anew at every start.            *)
BaseVolumeAnew == volume

(* The volume to come back to: kept while ducking is in force.             *)
BaseVolume == IF audioDuckingBaseVolume = Null THEN volume
              ELSE audioDuckingBaseVolume

(* #engageAudioDuckingSource and #beginAudioDucking.                       *)
Engage(source) ==
    /\ audioDuckingSources' = audioDuckingSources \cup {source}
    /\ audioDuckingReleaseTimer' = NoTimer
    /\ audioDuckingBaseVolume' = BaseVolume
    /\ volume' = Lower(BaseVolume, DuckVolume)
    /\ touched' = touched \ {"volume"}

(* #restoreDuckedVolume.                                                   *)
Restore ==
    /\ volume' = BaseVolume
    /\ audioDuckingBaseVolume' = Null
    /\ audioDuckingSources' = {}

(* #clearAudioDuckingSource and #requestAudioDuckingRelease: restore after *)
(* the delay once no source is left.  A timer that is already running is   *)
(* cleared and replaced by a new one, so a further stop event starts the   *)
(* delay again.                                                            *)
Clear(source) ==
    \/ /\ audioDuckingSources \ {source} # {}
       /\ audioDuckingSources' = audioDuckingSources \ {source}
       /\ UNCHANGED <<volume, audioDuckingBaseVolume, audioDuckingReleaseTimer>>
    \/ /\ audioDuckingSources \ {source} = {}
       /\ \/ /\ releaseDelay
             /\ audioDuckingSources' = {}
             /\ audioDuckingReleaseTimer' \in Timers \ {audioDuckingReleaseTimer}
             /\ UNCHANGED <<volume, audioDuckingBaseVolume>>
          \/ /\ ~releaseDelay
             /\ Restore
             /\ UNCHANGED audioDuckingReleaseTimer

(* Mutant of TimerFires: the sources are not looked at again, and nothing  *)
(* is restored.                                                            *)
TimerFiresIdle ==
    /\ audioDuckingReleaseTimer # NoTimer
    /\ audioDuckingReleaseTimer' = NoTimer
    /\ UNCHANGED <<volume, audioDuckingBaseVolume, audioDuckingSources, playout,
                   settings, touched>>

(* The release timer fires.                                                *)
TimerFires ==
    /\ audioDuckingReleaseTimer # NoTimer
    /\ audioDuckingReleaseTimer' = NoTimer
    /\ \/ audioDuckingSources = {} /\ Restore
       \/ /\ audioDuckingSources # {}
          /\ UNCHANGED <<volume, audioDuckingBaseVolume, audioDuckingSources>>
    /\ UNCHANGED <<playout, settings, touched>>

-----------------------------------------------------------------------------
(* Mutant of MutedBefore: a second suspension remembers the first's mute.  *)
MutedBeforeAnew == muted

(* The mute to come back to: kept while a suspension is in force.          *)
MutedBefore == IF mutedBeforePlayoutSuspend = Null THEN muted
               ELSE mutedBeforePlayoutSuspend

(* #releasePlayoutSuspend.                                                 *)
ReleasePlayout ==
    /\ muted' = MutedBefore
    /\ playoutSuspendOwner' = Null
    /\ mutedBeforePlayoutSuspend' = Null

(* speech_started, interruption.detected.                                  *)
SpeechStarts == Engage("speech") /\ UNCHANGED <<playout, settings>>

(* speech_stopped, interruption.false_positive.                            *)
SpeechStops == Clear("speech") /\ UNCHANGED <<playout, settings, touched>>

(* response.audio.clear, response.cancelled, response.done: the playout    *)
(* handler comes first.                                                    *)
ResponseEnds ==
    ReleasePlayout /\ Clear("speech") /\ UNCHANGED <<settings, touched>>

(* turn.state_changed to paused, listening or interrupted.                 *)
TurnHeld == Engage("hold") /\ UNCHANGED <<playout, settings>>

(* turn.state_changed to idle, thinking or speaking.                       *)
TurnReleased == Clear("hold") /\ UNCHANGED <<playout, settings, touched>>

(* response.audio.suspend with a valid candidate id.                       *)
Suspend(id) ==
    /\ mutedBeforePlayoutSuspend' = MutedBefore
    /\ playoutSuspendOwner' = id
    /\ muted' = TRUE
    /\ touched' = touched \ {"muted"}
    /\ UNCHANGED <<ducking, settings>>

(* response.audio.resume: only the owner's counts.                         *)
Resume(id) ==
    /\ id = playoutSuspendOwner
    /\ ReleasePlayout
    /\ UNCHANGED <<ducking, settings, touched>>

(* #cleanup: #releasePlayoutSuspend and #stopAudioDucking.                 *)
Cleanup ==
    /\ ReleasePlayout
    /\ Restore
    /\ audioDuckingReleaseTimer' = NoTimer
    /\ UNCHANGED <<settings, touched>>

(* The user moves the slider ...                                           *)
UserSetsVolume(v) ==
    /\ volume' = v
    /\ \/ /\ audioDuckingBaseVolume = Null
          /\ userVolume' = v
          /\ touched' = touched \ {"volume"}
       \/ /\ audioDuckingBaseVolume # Null
          /\ touched' = touched \cup {"volume"}
          /\ UNCHANGED userVolume
    /\ UNCHANGED <<audioDuckingSources, audioDuckingBaseVolume,
                   audioDuckingReleaseTimer, playout, userMuted, releaseDelay>>

(* ... or presses the mute button.                                         *)
UserSetsMuted(b) ==
    /\ muted' = b
    /\ \/ /\ mutedBeforePlayoutSuspend = Null
          /\ userMuted' = b
          /\ touched' = touched \ {"muted"}
       \/ /\ mutedBeforePlayoutSuspend # Null
          /\ touched' = touched \cup {"muted"}
          /\ UNCHANGED userMuted
    /\ UNCHANGED <<ducking, playoutSuspendOwner, mutedBeforePlayoutSuspend,
                   userVolume, releaseDelay>>

Next ==
    \/ SpeechStarts \/ SpeechStops \/ ResponseEnds \/ TurnHeld \/ TurnReleased
    \/ \E id \in CandidateIds : Suspend(id) \/ Resume(id)
    \/ TimerFires \/ Cleanup
    \/ \E v \in Volumes : UserSetsVolume(v)
    \/ \E b \in BOOLEAN : UserSetsMuted(b)

Spec == Init /\ [][Next]_vars

(* Fairness: a release timer fires unless it is cleared or replaced before *)
(* its delay is over.  A timer replaced again and again never fires.       *)
FairSpec ==
    /\ Spec
    /\ \A t \in Timers : WF_vars(audioDuckingReleaseTimer = t /\ TimerFires)

-----------------------------------------------------------------------------
TypeOK ==
    /\ volume \in Volumes \cup {DuckVolume} /\ userVolume \in Volumes
    /\ muted \in BOOLEAN /\ userMuted \in BOOLEAN
    /\ audioDuckingSources \subseteq Sources
    /\ audioDuckingBaseVolume \in Volumes \cup {Null}
    /\ audioDuckingReleaseTimer \in Timers \cup {NoTimer}
    /\ playoutSuspendOwner \in CandidateIds \cup {Null}
    /\ mutedBeforePlayoutSuspend \in BOOLEAN \cup {Null}
    /\ touched \subseteq {"volume", "muted"}
    /\ releaseDelay \in BOOLEAN

(* A source holds the duck, or its release is still pending.               *)
Held == \/ audioDuckingSources # {}
        \/ audioDuckingReleaseTimer # NoTimer /\ audioDuckingBaseVolume # Null

(* "Playback returns to its original volume once both have cleared": in    *)
(* any order of starts, stops and timers the volume is the one the user    *)
(* chose outside a duck, and while the duck is held the lower of that one  *)
(* and the duck volume, unless the user moves the slider meanwhile.        *)
VolumeIsUsersOrDucked ==
    /\ ~Held => volume = userVolume
    /\ Held /\ "volume" \notin touched => volume = Lower(userVolume, DuckVolume)

(* The element is muted by the user or by the suspension in force: however *)
(* suspensions overlap, the last one gives back the user's own choice.     *)
MuteIsUsersOrSuspension ==
    /\ playoutSuspendOwner = Null => muted = userMuted
    /\ playoutSuspendOwner # Null => muted \/ "muted" \in touched

(* When no signal holds the duck any more, the volume comes back, unless a *)
(* signal ducks it again or a further stop event replaces the timer and    *)
(* starts the delay anew: a stop event that comes again within every delay *)
(* puts the release off for ever.                                          *)
DuckIsReleased ==
    \A t \in Timers :
        (audioDuckingSources = {} /\ audioDuckingReleaseTimer \in {t, NoTimer}) ~>
            \/ audioDuckingSources # {}
            \/ audioDuckingReleaseTimer \notin {t, NoTimer}
            \/ volume = userVolume
=============================================================================
