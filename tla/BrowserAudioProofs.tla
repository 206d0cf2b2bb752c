-------------------------- MODULE BrowserAudioProofs --------------------------
(***************************************************************************)
(* Proofs about BrowserAudio, for every set of volumes, every duck volume, *)
(* with and without a release delay.                                       *)
(*                                                                         *)
(* Neither property is inductive as it stands: both talk of the audio      *)
(* element, whose values come back from what the client saved.  AudioInv   *)
(* adds what is saved and when.                                            *)
(***************************************************************************)
EXTENDS BrowserAudio, TLAPS

(* A volume is saved exactly while a source or a running timer is going to *)
(* give it back, and it is the user's.                                     *)
DuckInv ==
    /\ audioDuckingSources # {} => audioDuckingBaseVolume # Null
    /\ audioDuckingBaseVolume # Null =>
          /\ audioDuckingBaseVolume = userVolume
          /\ audioDuckingSources # {} \/ audioDuckingReleaseTimer # NoTimer
          /\ "volume" \notin touched => volume = Lower(userVolume, DuckVolume)
    /\ audioDuckingBaseVolume = Null => volume = userVolume

(* A mute is saved exactly while a candidate owns the suspension, and it   *)
(* is the user's.                                                          *)
SuspendInv ==
    /\ playoutSuspendOwner = Null <=> mutedBeforePlayoutSuspend = Null
    /\ playoutSuspendOwner = Null => muted = userMuted
    /\ playoutSuspendOwner # Null =>
          /\ mutedBeforePlayoutSuspend = userMuted
          /\ muted \/ "muted" \in touched

AudioInv == TypeOK /\ DuckInv /\ SuspendInv

USE AudioAssumption

(* Ducking takes one of the two volumes.                                   *)
LEMMA LowerIsOne ==
    ASSUME NEW a, NEW b
    PROVE  Lower(a, b) \in {a, b}
BY DEF Lower

(* Saved values are told apart from no value.                              *)
LEMMA NullIsNoValue ==
    /\ \A v \in Volumes : v # Null
    /\ \A b \in BOOLEAN : b # Null
    /\ \A id \in CandidateIds : id # Null
BY Zenon DEF AudioAssumption

(* A new client has ducked and suspended nothing.                          *)
LEMMA InitAudio == Init => AudioInv
<1> SUFFICES ASSUME Init PROVE AudioInv
  OBVIOUS
<1>1. TypeOK
  BY DEF Init, TypeOK, Sources
<1>2. DuckInv
  BY DEF Init, DuckInv
<1>3. SuspendInv
  BY DEF Init, SuspendInv
<1> QED
  BY <1>1, <1>2, <1>3 DEF AudioInv

(* The volume to come back to is the user's.                               *)
LEMMA BaseIsUsers ==
    ASSUME TypeOK, DuckInv
    PROVE  BaseVolume = userVolume
BY DEF BaseVolume, DuckInv

(* The mute to come back to is the user's.                                 *)
LEMMA MuteIsUsers ==
    ASSUME TypeOK, SuspendInv
    PROVE  MutedBefore = userMuted
BY DEF MutedBefore, SuspendInv

(* A source that starts: a volume is saved, and the duck volume in force.  *)
LEMMA EngageStep ==
    ASSUME NEW source \in Sources, TypeOK, DuckInv,
           Engage(source), UNCHANGED settings
    PROVE  /\ DuckInv'
           /\ volume' \in Volumes \cup {DuckVolume}
           /\ audioDuckingSources' \subseteq Sources
           /\ audioDuckingBaseVolume' \in Volumes
           /\ audioDuckingReleaseTimer' \in Timers \cup {NoTimer}
           /\ touched' \subseteq touched
<1>1. BaseVolume = userVolume /\ userVolume \in Volumes
  BY BaseIsUsers DEF TypeOK
<1>2. /\ audioDuckingSources' = audioDuckingSources \cup {source}
      /\ audioDuckingReleaseTimer' = NoTimer
      /\ audioDuckingBaseVolume' = userVolume
      /\ volume' = Lower(userVolume, DuckVolume)
      /\ touched' = touched \ {"volume"}
      /\ userVolume' = userVolume
  BY <1>1 DEF Engage, settings
<1>3. userVolume # Null
  BY <1>1, NullIsNoValue
<1>4. DuckInv'
  BY <1>2, <1>3 DEF DuckInv, Lower
<1>5. volume' \in Volumes \cup {DuckVolume}
  BY <1>1, <1>2, LowerIsOne
<1> QED
  BY <1>1, <1>2, <1>4, <1>5 DEF TypeOK

(* Giving the volume back leaves nothing saved.                            *)
LEMMA RestoreStep ==
    ASSUME TypeOK, DuckInv, Restore, UNCHANGED userVolume
    PROVE  /\ DuckInv'
           /\ volume' \in Volumes
           /\ audioDuckingSources' = {}
           /\ audioDuckingBaseVolume' = Null
<1>1. BaseVolume = userVolume /\ userVolume \in Volumes
  BY BaseIsUsers DEF TypeOK
<1> QED
  BY <1>1 DEF Restore, DuckInv

(* A source that stops: what is left is another source, a running timer,   *)
(* or the user's volume.                                                   *)
LEMMA ClearStep ==
    ASSUME NEW source \in Sources, TypeOK, DuckInv,
           Clear(source), UNCHANGED <<settings, touched>>
    PROVE  /\ DuckInv'
           /\ volume' \in Volumes \cup {DuckVolume}
           /\ audioDuckingSources' \subseteq Sources
           /\ audioDuckingBaseVolume' \in Volumes \cup {Null}
           /\ audioDuckingReleaseTimer' \in Timers \cup {NoTimer}
<1>1. CASE /\ audioDuckingSources \ {source} # {}
           /\ audioDuckingSources' = audioDuckingSources \ {source}
           /\ UNCHANGED <<volume, audioDuckingBaseVolume, audioDuckingReleaseTimer>>
  BY <1>1 DEF DuckInv, TypeOK, settings, Lower
<1>2. CASE /\ audioDuckingSources' = {}
           /\ audioDuckingReleaseTimer' \in Timers
           /\ UNCHANGED <<volume, audioDuckingBaseVolume>>
  BY <1>2 DEF DuckInv, TypeOK, settings, Lower, Timers, NoTimer
<1>3. CASE Restore /\ UNCHANGED audioDuckingReleaseTimer
  BY <1>3, RestoreStep DEF TypeOK, settings
<1> QED
  BY <1>1, <1>2, <1>3 DEF Clear

(* The end of a suspension leaves nothing saved.                           *)
LEMMA ReleaseStep ==
    ASSUME TypeOK, SuspendInv, ReleasePlayout, UNCHANGED userMuted
    PROVE  /\ SuspendInv'
           /\ muted' \in BOOLEAN
           /\ playoutSuspendOwner' = Null
           /\ mutedBeforePlayoutSuspend' = Null
<1>1. MutedBefore = userMuted /\ userMuted \in BOOLEAN
  BY MuteIsUsers DEF TypeOK
<1> QED
  BY <1>1 DEF ReleasePlayout, SuspendInv

(* Nothing of a suspension changes but what the user did to the slider.    *)
LEMMA SuspendUnchanged ==
    ASSUME SuspendInv, UNCHANGED <<playout, userMuted>>,
           "muted" \in touched => "muted" \in touched'
    PROVE  SuspendInv'
BY DEF SuspendInv, playout

(* Nothing of the duck changes but what the user did to the mute button.   *)
LEMMA DuckUnchanged ==
    ASSUME DuckInv, UNCHANGED <<ducking, userVolume>>,
           "volume" \in touched => "volume" \in touched'
    PROVE  DuckInv'
BY DEF DuckInv, ducking, Lower

(* Every handler, timer and user action keeps the strengthening.           *)
LEMMA NextAudio == AudioInv /\ [Next]_vars => AudioInv'
<1> SUFFICES ASSUME AudioInv, [Next]_vars PROVE AudioInv'
  OBVIOUS
<1> USE DEF AudioInv
<1>1. ASSUME NEW source \in Sources, Engage(source),
             UNCHANGED <<playout, settings>>
      PROVE  AudioInv'
  <2>1. SuspendInv'
    BY <1>1, SuspendUnchanged DEF settings, Engage
  <2>2. TypeOK'
    BY <1>1, EngageStep DEF TypeOK, playout, settings
  <2> QED
    BY <1>1, <2>1, <2>2, EngageStep DEF settings
<1>2. ASSUME NEW source \in Sources, Clear(source),
             UNCHANGED <<playout, settings, touched>>
      PROVE  AudioInv'
  <2>1. SuspendInv'
    BY <1>2, SuspendUnchanged DEF settings
  <2>2. TypeOK'
    BY <1>2, ClearStep DEF TypeOK, playout, settings
  <2> QED
    BY <1>2, <2>1, <2>2, ClearStep
<1>3. CASE ResponseEnds
  <2>1. DuckInv' /\ SuspendInv'
    BY <1>3, ClearStep, ReleaseStep DEF ResponseEnds, Sources, settings
  <2>2. TypeOK'
    BY <1>3, ClearStep, ReleaseStep DEF ResponseEnds, Sources, settings, TypeOK
  <2> QED
    BY <2>1, <2>2
<1>4. ASSUME NEW id \in CandidateIds, Suspend(id)
      PROVE  AudioInv'
  <2>1. MutedBefore = userMuted /\ userMuted \in BOOLEAN
    BY MuteIsUsers DEF TypeOK
  <2>2. id # Null /\ userMuted # Null
    BY <2>1, NullIsNoValue
  <2>3. SuspendInv'
    BY <1>4, <2>1, <2>2 DEF Suspend, SuspendInv, settings
  <2>4. DuckInv'
    BY <1>4, DuckUnchanged DEF Suspend, settings
  <2>5. TypeOK'
    BY <1>4, <2>1 DEF Suspend, TypeOK, ducking, settings
  <2> QED
    BY <2>3, <2>4, <2>5
<1>5. ASSUME NEW id \in CandidateIds, Resume(id)
      PROVE  AudioInv'
  <2>1. SuspendInv'
    BY <1>5, ReleaseStep DEF Resume, settings
  <2>2. DuckInv'
    BY <1>5, DuckUnchanged DEF Resume, settings
  <2>3. TypeOK'
    BY <1>5, ReleaseStep DEF Resume, TypeOK, ducking, settings
  <2> QED
    BY <2>1, <2>2, <2>3
<1>6. CASE TimerFires
  <2>1. SuspendInv'
    BY <1>6, SuspendUnchanged DEF TimerFires, settings
  <2>2. CASE audioDuckingSources = {} /\ Restore
    <3>1. TypeOK'
      BY <1>6, <2>2, RestoreStep DEF TimerFires, TypeOK, playout, settings
    <3> QED
      BY <1>6, <2>1, <2>2, <3>1, RestoreStep DEF TimerFires, settings
  <2>3. CASE /\ audioDuckingSources # {}
             /\ UNCHANGED <<volume, audioDuckingBaseVolume, audioDuckingSources>>
    <3>1. TypeOK'
      BY <1>6, <2>3 DEF TimerFires, TypeOK, playout, settings
    <3>2. DuckInv'
      BY <1>6, <2>3 DEF TimerFires, DuckInv, settings, Lower
    <3> QED
      BY <2>1, <3>1, <3>2
  <2> QED
    BY <1>6, <2>2, <2>3 DEF TimerFires
<1>7. CASE Cleanup
  <2>1. DuckInv' /\ SuspendInv'
    BY <1>7, RestoreStep, ReleaseStep DEF Cleanup, settings
  <2>2. TypeOK'
    BY <1>7, RestoreStep, ReleaseStep DEF Cleanup, TypeOK, settings
  <2> QED
    BY <2>1, <2>2
<1>8. ASSUME NEW v \in Volumes, UserSetsVolume(v)
      PROVE  AudioInv'
  <2>1. SuspendInv'
    BY <1>8, SuspendUnchanged DEF UserSetsVolume
  <2>2. DuckInv'
    BY <1>8 DEF UserSetsVolume, DuckInv, Lower
  <2>3. TypeOK'
    BY <1>8 DEF UserSetsVolume, TypeOK, playout
  <2> QED
    BY <2>1, <2>2, <2>3
<1>9. ASSUME NEW b \in BOOLEAN, UserSetsMuted(b)
      PROVE  AudioInv'
  <2>1. DuckInv'
    BY <1>9, DuckUnchanged DEF UserSetsMuted
  <2>2. SuspendInv'
    BY <1>9 DEF UserSetsMuted, SuspendInv
  <2>3. TypeOK'
    BY <1>9 DEF UserSetsMuted, TypeOK, ducking
  <2> QED
    BY <2>1, <2>2, <2>3
<1>10. CASE UNCHANGED vars
  BY <1>10 DEF vars, ducking, playout, settings, TypeOK, DuckInv, SuspendInv, Lower
<1>11. CASE SpeechStarts \/ TurnHeld
  BY <1>1, <1>11 DEF SpeechStarts, TurnHeld, Sources
<1>12. CASE SpeechStops \/ TurnReleased
  BY <1>2, <1>12 DEF SpeechStops, TurnReleased, Sources
<1> QED
  BY <1>3, <1>4, <1>5, <1>6, <1>7, <1>8, <1>9, <1>10, <1>11, <1>12 DEF Next

(* The strengthening is an invariant of the audio element's handlers.      *)
THEOREM AudioInvariant == Spec => []AudioInv
<1>1. Init => AudioInv
  BY InitAudio
<1>2. AudioInv /\ [Next]_vars => AudioInv'
  BY NextAudio
<1> QED
  BY <1>1, <1>2, PTL DEF Spec

(* The state of ducking and suspension stays well formed: what is saved is *)
(* a volume or a mute of the user's, or nothing.                           *)
THEOREM AudioTypes == Spec => []TypeOK
<1>1. AudioInv => TypeOK
  BY DEF AudioInv
<1> QED
  BY <1>1, AudioInvariant, PTL

(* In every order of control events, timers, cleanups and user actions the *)
(* volume is the user's own once the duck is over, and the lower of it and *)
(* the duck volume while it is held.                                       *)
THEOREM VolumeComesBack == Spec => []VolumeIsUsersOrDucked
<1>1. AudioInv => VolumeIsUsersOrDucked
  BY DEF AudioInv, DuckInv, VolumeIsUsersOrDucked, Held
<1> QED
  BY <1>1, AudioInvariant, PTL

(* However suspensions overlap, the element is muted by the one in force   *)
(* or as the user left it.                                                 *)
THEOREM MuteComesBack == Spec => []MuteIsUsersOrSuspension
<1>1. AudioInv => MuteIsUsersOrSuspension
  BY DEF AudioInv, SuspendInv, MuteIsUsersOrSuspension
<1> QED
  BY <1>1, AudioInvariant, PTL
=============================================================================
