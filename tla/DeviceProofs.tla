---------------------------- MODULE DeviceProofs ----------------------------
(***************************************************************************)
(* Proofs about the small peripherals, the resumable fetch, and MCDevices, *)
(* which runs them with the firmware update, the page cache and the audio  *)
(* player: HapticMotor for any patterns and repeats, UsbMassStorage        *)
(* whatever the host does, TouchSampler for any number of strokes.         *)
(*                                                                         *)
(* ResumableFetch, for a resource of any number of versions of any sizes   *)
(* and for any limits on attempts and redirects.  Trying says what a fetch *)
(* that still runs may count on, Answered how the response that is being   *)
(* read fits what the sink holds, and OneVersion whose units those are.    *)
(***************************************************************************)
EXTENDS MCDevices, StorageProofs, AudioManagerProofs

(* Only an enabled motor that has begun is played, so that a refused call  *)
(* cannot leave a pattern behind for a callback to find.                   *)
Played == playing => begun /\ enabled
HapticInv == HapticTypeOK /\ Played /\ MotorIsTimed

LEMMA PatternLength ==
  ASSUME NEW p \in Pattern, NEW n \in Repeats
  PROVE  Len(p) * n \in Nat /\ Len(p) * n > 0
  <1>1. p \in Seq(BOOLEAN) /\ p # <<>> /\ n \in Nat \ {0}
    BY HapticAssumption
  <1>2. Len(p) \in Nat \ {0}
    BY <1>1
  <1>3. \A a, b \in Nat \ {0} : a * b \in Nat \ {0}
    OBVIOUS
  <1> QED BY <1>1, <1>2, <1>3

THEOREM HapticInitially == HapticInit => HapticInv
  <1> SUFFICES ASSUME HapticInit PROVE HapticInv
    OBVIOUS
  <1>1. PatternEnd \in Nat
    BY PatternLength DEF HapticInit, PatternEnd
  <1>2. 0 \in 0..PatternEnd
    BY <1>1
  <1>3. HapticTypeOK
    BY <1>2 DEF HapticInit, HapticTypeOK
  <1>4. Played /\ MotorIsTimed
    BY DEF HapticInit, Played, MotorIsTimed
  <1> QED BY <1>3, <1>4 DEF HapticInv

-----------------------------------------------------------------------------
(* stopLocked() and serviceLocked() leave a motor that is off, or one that *)
(* is played with a timer within the pattern.                              *)
Settles ==
  /\ begun' \in BOOLEAN /\ playing' \in BOOLEAN /\ motor' \in BOOLEAN
  /\ \/ ~motor' /\ ~playing' /\ timer' = 0
     \/ playing' /\ begun' = begun /\ timer' \in 1..PatternEnd'

LEMMA StopSettles ==
  ASSUME HapticInv, StopLocked
  PROVE  Settles /\ ~playing'
  BY DEF HapticInv, HapticTypeOK, MotorIsTimed, StopLocked, SwitchedOff, Settles

LEMMA ServiceSettles ==
  ASSUME HapticInv, NEW mute \in BOOLEAN, NEW t \in Nat,
         pattern' \in Pattern, repeats' \in Repeats,
         ServiceLocked(pattern', repeats', t, mute)
  PROVE  Settles
  <1> DEFINE end == Len(pattern') * repeats'
  <1>1. end \in Nat /\ PatternEnd' = end
    BY PatternLength DEF PatternEnd
  <1>2. CASE StopLocked
    BY <1>2, StopSettles
  <1>3. CASE ~StopLocked
    <2>1. t < end /\ timer' = t + 1 /\ playing' = TRUE /\ begun' = begun /\ motor' \in BOOLEAN
      <3> HIDE DEF end
      <3>1. ~(t >= end) => t < end
        BY <1>1
      <3> USE DEF end
      <3> QED BY <1>3, <3>1 DEF ServiceLocked
    <2>2. timer' \in 1..PatternEnd'
      <3> HIDE DEF end
      <3> QED BY <1>1, <2>1
    <2> QED BY <2>1, <2>2 DEF Settles, HapticInv, HapticTypeOK
  <1> QED BY <1>2, <1>3

(* What settles keeps the invariant, when it starts from or keeps enabled. *)
LEMMA SettledKeeps ==
  ASSUME HapticInv, Settles, pattern' \in Pattern, repeats' \in Repeats,
         enabled' \in BOOLEAN, silent' \in BOOLEAN, queued' \in BOOLEAN, elapsed' \in 0..PatternEnd',
         playing' => begun /\ enabled'
  PROVE  HapticInv'
  <1>1. PatternEnd' \in Nat
    BY PatternLength DEF PatternEnd
  <1> QED BY <1>1 DEF HapticInv, HapticTypeOK, Played, MotorIsTimed, Settles

LEMMA HapticStays == HapticInv /\ [HapticNext]_hapticVars => HapticInv'
  <1> SUFFICES ASSUME HapticInv, [HapticNext]_hapticVars PROVE HapticInv'
    OBVIOUS
  <1>t. HapticTypeOK /\ PatternEnd \in Nat /\ elapsed \in Nat
    BY PatternLength DEF HapticInv, HapticTypeOK, PatternEnd
  <1>p. UNCHANGED <<pattern, repeats>> => PatternEnd' = PatternEnd
    BY DEF PatternEnd
  <1>1. CASE BeginHaptic
    BY <1>1, <1>t, <1>p DEF BeginHaptic, HapticInv, HapticTypeOK, Played, MotorIsTimed
  <1>2. CASE EndHaptic
    <2>1. Settles /\ ~playing'
      BY <1>2 DEF EndHaptic, Settles
    <2> QED BY <1>2, <1>t, <1>p, <2>1, SettledKeeps DEF EndHaptic, HapticTypeOK
  <1>3. CASE Play
    <2>1. CASE UNCHANGED <<pattern, repeats, elapsed>> /\ begun' = FALSE /\ motor' = FALSE /\ playing' = FALSE /\ timer' = 0
      <3>1. Settles /\ ~playing'
        BY <2>1 DEF Settles
      <3> QED BY <1>3, <1>t, <1>p, <2>1, <3>1, SettledKeeps DEF Play, HapticTypeOK
    <2>2. CASE pattern' \in Pattern /\ repeats' \in Repeats /\ elapsed' = 0 /\ ServiceLocked(pattern', repeats', 0, silent)
      <3>1. Settles
        BY <1>t, <2>2, ServiceSettles DEF HapticTypeOK
      <3>2. PatternEnd' \in Nat
        BY <2>2, PatternLength DEF PatternEnd
      <3>3. elapsed' \in 0..PatternEnd'
        BY <2>2, <3>2
      <3> QED BY <1>3, <1>t, <2>2, <3>1, <3>3, SettledKeeps DEF Play, HapticTypeOK
    <2> QED BY <1>3, <2>1, <2>2 DEF Play
  <1>4. CASE StopHaptic
    <2>1. Settles /\ ~playing'
      BY <1>4, StopSettles DEF StopHaptic
    <2> QED BY <1>4, <1>t, <1>p, <2>1, SettledKeeps DEF StopHaptic, HapticTypeOK
  <1>5. CASE SetEnabled
    <2>1. CASE enabled' /\ UNCHANGED <<begun, playing, timer, motor>>
      BY <1>5, <1>t, <1>p, <2>1 DEF SetEnabled, HapticInv, HapticTypeOK, Played, MotorIsTimed
    <2>2. CASE StopLocked
      <3>1. Settles /\ ~playing'
        BY <2>2, StopSettles
      <3> QED BY <1>5, <1>t, <1>p, <3>1, SettledKeeps DEF SetEnabled, HapticTypeOK
    <2> QED BY <1>5, <2>1, <2>2 DEF SetEnabled
  <1>6. CASE SetIntensity
    <2>1. CASE playing
      <3>1. Settles
        BY <1>6, <1>t, <2>1, ServiceSettles DEF SetIntensity, HapticTypeOK
      <3> QED BY <1>6, <1>t, <2>1, <1>p, <3>1, SettledKeeps DEF SetIntensity, HapticTypeOK, HapticInv, Played
    <2>2. CASE ~playing
      BY <1>6, <1>t, <1>p, <2>2 DEF SetIntensity, HapticInv, HapticTypeOK, Played, MotorIsTimed
    <2> QED BY <2>1, <2>2
  <1>7. CASE TimerFires
    BY <1>7, <1>t, <1>p DEF TimerFires, HapticInv, HapticTypeOK, Played, MotorIsTimed
  <1>8. CASE TimerCallback
    <2>1. CASE playing
      <3>1. Settles
        BY <1>8, <1>t, <2>1, ServiceSettles DEF TimerCallback, HapticTypeOK
      <3> QED BY <1>8, <1>t, <2>1, <1>p, <3>1, SettledKeeps DEF TimerCallback, HapticTypeOK, HapticInv, Played
    <2>2. CASE ~playing
      BY <1>8, <1>t, <1>p, <2>2 DEF TimerCallback, HapticInv, HapticTypeOK, Played, MotorIsTimed
    <2> QED BY <2>1, <2>2
  <1>9. CASE Tick
    BY <1>9, <1>t, <1>p DEF Tick, HapticInv, HapticTypeOK, Played, MotorIsTimed
  <1>10. CASE UNCHANGED hapticVars
    BY <1>10, <1>p DEF hapticVars, HapticInv, HapticTypeOK, Played, MotorIsTimed
  <1> QED BY <1>1, <1>2, <1>3, <1>4, <1>5, <1>6, <1>7, <1>8, <1>9, <1>10 DEF HapticNext, HapticCall

-----------------------------------------------------------------------------
(* A motor that runs has a timer within its pattern, or its callback, to   *)
(* stop it, whichever call, failure or stale callback came last.           *)
THEOREM MotorAlwaysTimed == HapticSpec => []MotorIsTimed
  <1>1. HapticInv => MotorIsTimed
    BY DEF HapticInv
  <1> QED BY <1>1, HapticInitially, HapticStays, PTL DEF HapticSpec

-----------------------------------------------------------------------------
(* While begin() sets a session up and while end(), or a begin() that      *)
(* fails, takes one down, no session is active.  EjectStands begins where  *)
(* the callbacks are served, before begin() has marked the session active: *)
(* a host that an earlier end() left mounted may eject there already.      *)
SessionInOrder ==
  app.pc \in {"setOwner", "setState", "serve", "attach", "activate", "dropOwner", "dropDev", "dropMsc", "reset"}
    => ~active
EjectKept == (active \/ app.pc \in {"serve", "attach", "activate"}) /\ ejected => published \in {"Ejected", "IoError"}
UsbInv == UsbTypeOK /\ SessionInOrder /\ EjectKept

LEMMA UsbInitially == UsbInit => UsbInv
  <1> SUFFICES ASSUME UsbInit PROVE UsbInv
    OBVIOUS
  <1>1. UsbTypeOK
    BY DEF UsbInit, UsbTypeOK, State, UsbPc, AppPc
  <1>2. SessionInOrder /\ EjectKept
    BY DEF UsbInit, SessionInOrder, EjectKept
  <1> QED BY <1>1, <1>2 DEF UsbInv

LEMMA UsbTyped == UsbInv /\ [UsbNext]_usbVars => UsbTypeOK'
  <1> SUFFICES ASSUME UsbInv, [UsbNext]_usbVars PROVE UsbTypeOK'
    OBVIOUS
  <1> USE DEF UsbInv, UsbTypeOK
  <1>1. CASE BeginUsb
    BY <1>1 DEF BeginUsb, AppPc
  <1>2. CASE SetOwner
    BY <1>2 DEF SetOwner, AppPc
  <1>3. CASE SetState
    BY <1>3 DEF SetState, State, AppPc
  <1>4. CASE Serve
    BY <1>4 DEF Serve, AppPc
  <1>5. CASE Attach
    BY <1>5 DEF Attach, AppPc
  <1>6. CASE BeginFails
    BY <1>6 DEF BeginFails, AppPc
  <1>7. CASE Activate
    BY <1>7 DEF Activate, AppPc
  <1>8. CASE DisconnectHost
    BY <1>8 DEF DisconnectHost, AppPc
  <1>9. CASE EndUsb
    BY <1>9 DEF EndUsb, AppPc
  <1>10. CASE Drained
    BY <1>10 DEF Drained, AppPc
  <1>11. CASE DropOwner
    BY <1>11 DEF DropOwner, AppPc
  <1>12. CASE DropDev
    BY <1>12 DEF DropDev, AppPc
  <1>13. CASE DropMsc
    BY <1>13 DEF DropMsc, AppPc
  <1>14. CASE Reset
    BY <1>14 DEF Reset, State, AppPc
  <1>15. CASE LoadPublished
    BY <1>15 DEF LoadPublished, AppPc
  <1>16. CASE NoteHost
    BY <1>16 DEF NoteHost, AppPc
  <1>17. CASE Connect
    BY <1>17 DEF Connect, State, AppPc
  <1>18. CASE Mounted
    BY <1>18 DEF Mounted
  <1>19. CASE Unmounted
    BY <1>19 DEF Unmounted
  <1>20. CASE HostLeft
    BY <1>20 DEF HostLeft
  <1>21. CASE LoadDev
    BY <1>21 DEF LoadDev, UsbPc
  <1>22. CASE LoadOwner
    BY <1>22 DEF LoadOwner, UsbPc
  <1>23. CASE CheckRange
    BY <1>23 DEF CheckRange, UsbPc
  <1>24. CASE MoveSectors
    BY <1>24 DEF MoveSectors, UsbPc
  <1>25. CASE MarkAccessed
    BY <1>25 DEF MarkAccessed, State, UsbPc
  <1>26. CASE MarkIoError
    BY <1>26 DEF MarkIoError, State, UsbPc
  <1>27. CASE TakeEject
    BY <1>27 DEF TakeEject, UsbPc
  <1>28. CASE MarkEjected
    BY <1>28 DEF MarkEjected, State, UsbPc
  <1>29. CASE UNCHANGED usbVars
    BY <1>29 DEF usbVars
  <1> QED BY <1>1, <1>2, <1>3, <1>4, <1>5, <1>6, <1>7, <1>8, <1>9, <1>10, <1>11, <1>12, <1>13, <1>14,
             <1>15, <1>16, <1>17, <1>18, <1>19, <1>20, <1>21, <1>22, <1>23, <1>24, <1>25, <1>26, <1>27,
             <1>28, <1>29
          DEF UsbNext, AppUsb, HostUsb

LEMMA SessionStays == UsbInv /\ [UsbNext]_usbVars => (SessionInOrder /\ EjectKept)'
  <1> SUFFICES ASSUME UsbInv, [UsbNext]_usbVars PROVE (SessionInOrder /\ EjectKept)'
    OBVIOUS
  <1> USE DEF UsbInv, UsbTypeOK, SessionInOrder, EjectKept
  <1>1. CASE BeginUsb
    BY <1>1 DEF BeginUsb
  <1>2. CASE SetOwner
    BY <1>2 DEF SetOwner
  <1>3. CASE SetState
    BY <1>3 DEF SetState
  <1>4. CASE Serve
    BY <1>4 DEF Serve
  <1>5. CASE Attach
    BY <1>5 DEF Attach
  <1>6. CASE BeginFails
    BY <1>6 DEF BeginFails
  <1>7. CASE Activate
    BY <1>7 DEF Activate
  <1>8. CASE DisconnectHost
    BY <1>8 DEF DisconnectHost
  <1>9. CASE EndUsb
    BY <1>9 DEF EndUsb
  <1>10. CASE Drained
    BY <1>10 DEF Drained
  <1>11. CASE DropOwner
    BY <1>11 DEF DropOwner
  <1>12. CASE DropDev
    BY <1>12 DEF DropDev
  <1>13. CASE DropMsc
    BY <1>13 DEF DropMsc
  <1>14. CASE Reset
    BY <1>14 DEF Reset
  <1>15. CASE LoadPublished
    BY <1>15 DEF LoadPublished
  <1>16. CASE NoteHost
    BY <1>16 DEF NoteHost
  <1>17. CASE Connect
    BY <1>17 DEF Connect
  <1>18. CASE Mounted
    BY <1>18 DEF Mounted
  <1>19. CASE Unmounted
    BY <1>19 DEF Unmounted
  <1>20. CASE HostLeft
    BY <1>20 DEF HostLeft
  <1>21. CASE LoadDev
    BY <1>21 DEF LoadDev
  <1>22. CASE LoadOwner
    BY <1>22 DEF LoadOwner
  <1>23. CASE CheckRange
    BY <1>23 DEF CheckRange
  <1>24. CASE MoveSectors
    BY <1>24 DEF MoveSectors
  <1>25. CASE MarkAccessed
    BY <1>25 DEF MarkAccessed
  <1>26. CASE MarkIoError
    BY <1>26 DEF MarkIoError
  <1>27. CASE TakeEject
    BY <1>27 DEF TakeEject
  <1>28. CASE MarkEjected
    BY <1>28 DEF MarkEjected
  <1>29. CASE UNCHANGED usbVars
    BY <1>29 DEF usbVars
  <1> QED BY <1>1, <1>2, <1>3, <1>4, <1>5, <1>6, <1>7, <1>8, <1>9, <1>10, <1>11, <1>12, <1>13, <1>14,
             <1>15, <1>16, <1>17, <1>18, <1>19, <1>20, <1>21, <1>22, <1>23, <1>24, <1>25, <1>26, <1>27,
             <1>28, <1>29
          DEF UsbNext, AppUsb, HostUsb

LEMMA UsbStays == UsbInv /\ [UsbNext]_usbVars => UsbInv'
  BY UsbTyped, SessionStays DEF UsbInv

(* An eject stays published until an I/O error or the end of the session,  *)
(* whichever callback of this session or of one before comes late, and     *)
(* also when end() gives up its wait for the host.                         *)
THEOREM EjectAlwaysStands == UsbSpec => []EjectStands
  <1>1. UsbInv => EjectStands
    BY DEF UsbInv, EjectKept, EjectStands
  <1> QED BY <1>1, UsbInitially, UsbStays, PTL DEF UsbSpec

-----------------------------------------------------------------------------
(* What the task saw is of the last stroke; what it keeps for update() is  *)
(* one stroke, no older than the last that was reported; and a stroke that *)
(* update() has begun is the one kept or the one on the glass.             *)
FrameIsStroke ==
  /\ sampler.pc = "record" /\ sampler.frame \in 1..Strokes => sampler.frame = strokes
  /\ sampler.pc # "idle" \/ contact \/ pending => created
  /\ contact => down = strokes /\ latest = strokes
KeptIsWhole ==
  /\ pending => pendingDown = pendingUp /\ gesture.up <= pendingUp
  /\ pendingUp <= strokes /\ point <= strokes /\ gesture.up <= strokes
BegunIsKept ==
  pressed /\ ~torn =>
    /\ created /\ pending => downPoint = pendingDown
    /\ created /\ ~pending => contact /\ downPoint = strokes
    /\ ~created => downPoint = strokes /\ point = strokes
TouchInv == TouchTypeOK /\ FrameIsStroke /\ KeptIsWhole /\ BegunIsKept /\ GesturesAreWhole

LEMMA TouchInitially == TouchInit => TouchInv
  <1> SUFFICES ASSUME TouchInit PROVE TouchInv
    OBVIOUS
  <1>1. TouchTypeOK
    <2>1. 0 \in Stroke /\ 0 \in 0..(StaleFrames - 1)
      BY TouchAssumption DEF Stroke
    <2> QED BY <2>1 DEF TouchInit, TouchTypeOK
  <1>2. FrameIsStroke /\ KeptIsWhole /\ BegunIsKept /\ GesturesAreWhole
    BY DEF TouchInit, FrameIsStroke, KeptIsWhole, BegunIsKept, GesturesAreWhole
  <1> QED BY <1>1, <1>2 DEF TouchInv

LEMMA TouchTypesStay ==
  ASSUME TouchInv, [TouchNext]_touchVars
  PROVE  TouchTypeOK'
  <1>0. /\ TouchTypeOK /\ Strokes \in Nat \ {0} /\ StaleFrames \in Nat \ {0}
        /\ 0 \in Stroke /\ 0 \in 0..(StaleFrames - 1)
    BY TouchAssumption DEF TouchInv, Stroke
  <1> USE DEF TouchTypeOK
  <1>1. CASE FingerDown
    <2>1. strokes' \in Stroke
      BY <1>0, <1>1 DEF FingerDown, Stroke
    <2> QED BY <1>0, <1>1, <2>1 DEF FingerDown, pollVars, updateVars
  <1>2. CASE FingerUp
    BY <1>0, <1>2 DEF FingerUp, pollVars, updateVars
  <1>3. CASE StartSample
    BY <1>0, <1>3 DEF StartSample, pollVars, updateVars
  <1>4. CASE ReadFrame
    BY <1>0, <1>4 DEF ReadFrame, pollVars, updateVars
  <1>5. CASE RecordFrame
    <2>1. /\ contact' \in BOOLEAN /\ pending' \in BOOLEAN /\ {down', latest', pendingDown', pendingUp'} \subseteq Stroke
          /\ age' \in 0..(StaleFrames - 1)
      <3>1. CASE UNCHANGED pollVars
        BY <1>0, <3>1 DEF pollVars
      <3>2. CASE RecordRelease
        BY <1>0, <3>2 DEF RecordRelease
      <3>3. CASE sampler.frame \in 1..Strokes /\ RecordContact(sampler.frame)
        BY <1>0, <3>3 DEF RecordContact, Stroke
      <3>4. CASE ReleaseIfStale /\ ~(contact /\ age + 1 = StaleFrames)
        <4>1. age' \in 0..(StaleFrames - 1) /\ UNCHANGED <<contact, down, latest, pending, pendingDown, pendingUp>>
          BY <1>0, <3>4 DEF ReleaseIfStale
        <4> QED BY <1>0, <4>1
      <3> QED BY <1>5, <3>1, <3>2, <3>3, <3>4 DEF RecordFrame, ReleaseIfStale
    <2> QED BY <1>0, <1>5, <2>1 DEF RecordFrame, updateVars
  <1>6. CASE UpdateFromTask
    <2>1. CASE pending
      <3>1. downPoint' \in Stroke /\ point' \in Stroke
        BY <1>0, <1>6, <2>1 DEF UpdateFromTask, Release
      <3>2. gesture' \in [down : Stroke, up : Stroke, torn : BOOLEAN, since : Stroke]
        BY <1>0, <1>6, <2>1, <3>1 DEF UpdateFromTask, Release
      <3> QED BY <1>0, <1>6, <2>1, <3>1, <3>2 DEF UpdateFromTask, Release
    <2>2. CASE ~pending
      BY <1>0, <1>6, <2>2 DEF UpdateFromTask, Contact
    <2> QED BY <2>1, <2>2
  <1>7. CASE UpdateFromChip
    <2>1. age' \in 0..(StaleFrames - 1)
      BY <1>0, <1>7 DEF UpdateFromChip
    <2>2. finger \in Stroke
      BY <1>0
    <2>3. CASE Contact(finger, finger)
      BY <1>0, <1>7, <2>1, <2>2, <2>3 DEF UpdateFromChip, Contact
    <2>4. CASE Release(0, point)
      BY <1>0, <1>7, <2>1, <2>4 DEF UpdateFromChip, Release
    <2>5. CASE UNCHANGED updateVars
      BY <1>0, <1>7, <2>1, <2>5 DEF UpdateFromChip, updateVars
    <2> QED BY <1>7, <2>3, <2>4, <2>5 DEF UpdateFromChip
  <1>8. CASE PauseForReset
    BY <1>0, <1>8 DEF PauseForReset, pollVars, updateVars
  <1>9. CASE Reinitialize
    BY <1>0, <1>9 DEF Reinitialize, NothingKept
  <1>10. CASE UNCHANGED touchVars
    BY <1>0, <1>10 DEF touchVars, pollVars, updateVars
  <1> QED BY <1>1, <1>2, <1>3, <1>4, <1>5, <1>6, <1>7, <1>8, <1>9, <1>10 DEF TouchNext

LEMMA TouchStays ==
  ASSUME TouchInv, [TouchNext]_touchVars
  PROVE  TouchInv'
  <1> DEFINE Order == FrameIsStroke /\ KeptIsWhole /\ BegunIsKept /\ GesturesAreWhole
  <1>t. TouchTypeOK'
    BY TouchTypesStay
  <1>n. /\ Strokes \in Nat /\ strokes \in 0..Strokes /\ finger \in {0, strokes}
        /\ {down, latest, pendingDown, pendingUp, downPoint, point, gesture.up} \subseteq Nat
        /\ sampler \in [pc : {"idle", "read", "record"}, frame : Nat]
    BY TouchAssumption DEF TouchInv, TouchTypeOK, Stroke, Invalid
  <1>o. Order
    BY DEF TouchInv
  <1> SUFFICES Order'
    BY <1>t DEF TouchInv
  <1> USE DEF FrameIsStroke, KeptIsWhole, BegunIsKept, GesturesAreWhole
  <1>1. CASE FingerDown
    <2>1. strokes' > strokes
      BY <1>1, <1>n DEF FingerDown
    <2> QED BY <1>n, <1>o, <1>1, <2>1 DEF FingerDown, pollVars, updateVars
  <1>2. CASE FingerUp
    BY <1>o, <1>2 DEF FingerUp, pollVars, updateVars
  <1>3. CASE StartSample
    BY <1>n, <1>o, <1>3 DEF StartSample, pollVars, updateVars
  <1>4. CASE ReadFrame
    BY <1>n, <1>o, <1>4 DEF ReadFrame, pollVars, updateVars, Invalid
  <1>5. CASE RecordFrame
    <2> USE <1>n, <1>o, <1>5 DEF RecordFrame, updateVars
    <2>1. CASE UNCHANGED <<contact, down, latest, pending, pendingDown, pendingUp>>
      BY <2>1
    <2>2. CASE RecordRelease /\ contact /\ ~pending
      <3>1. /\ ~contact' /\ pending' /\ pendingDown' = strokes /\ pendingUp' = strokes
            /\ UNCHANGED <<strokes, created, updateVars>> /\ sampler'.pc = "idle" /\ created
        BY <2>2 DEF RecordRelease
      <3>2. FrameIsStroke' /\ KeptIsWhole'
        BY <3>1
      <3>3. BegunIsKept'
        BY <2>2, <3>1
      <3>4. GesturesAreWhole'
        BY <3>1
      <3> QED BY <3>2, <3>3, <3>4
    <2>3. CASE RecordRelease /\ ~(contact /\ ~pending)
      BY <2>3 DEF RecordRelease
    <2>4. CASE sampler.frame \in 1..Strokes /\ RecordContact(sampler.frame)
      BY <2>4 DEF RecordContact
    <2> QED BY <2>1, <2>2, <2>3, <2>4 DEF ReleaseIfStale, pollVars
  <1>6. CASE UpdateFromTask
    <2>1. CASE pending
      BY <1>n, <1>o, <1>6, <2>1 DEF UpdateFromTask, Release
    <2>2. CASE ~pending
      BY <1>n, <1>o, <1>6, <2>2 DEF UpdateFromTask, Contact
    <2> QED BY <2>1, <2>2
  <1>7. CASE UpdateFromChip
    <2>1. CASE finger # 0 /\ Contact(finger, finger)
      BY <1>n, <1>o, <1>7, <2>1 DEF UpdateFromChip, Contact
    <2>2. CASE pressed /\ Release(0, point)
      BY <1>n, <1>o, <1>7, <2>2 DEF UpdateFromChip, Release
    <2>3. CASE UNCHANGED updateVars
      BY <1>o, <1>7, <2>3 DEF UpdateFromChip, updateVars
    <2> QED BY <1>7, <2>1, <2>2, <2>3 DEF UpdateFromChip
  <1>8. CASE PauseForReset
    BY <1>o, <1>8 DEF PauseForReset, pollVars, updateVars
  <1>9. CASE Reinitialize
    <2>1. FrameIsStroke'
      BY <1>n, <1>o, <1>9 DEF Reinitialize, NothingKept
    <2>2. KeptIsWhole' /\ GesturesAreWhole'
      BY <1>n, <1>o, <1>9 DEF Reinitialize, NothingKept
    <2>3. BegunIsKept'
      BY <1>9 DEF Reinitialize
    <2> QED BY <2>1, <2>2, <2>3
  <1>10. CASE UNCHANGED touchVars
    BY <1>o, <1>10 DEF touchVars, pollVars, updateVars
  <1> QED BY <1>1, <1>2, <1>3, <1>4, <1>5, <1>6, <1>7, <1>8, <1>9, <1>10 DEF TouchNext

(* For any number of strokes, every gesture that update() reports begins   *)
(* and ends with one stroke, in order, but for one that a reset tore.      *)
THEOREM GesturesAlwaysWhole == TouchSpec => []GesturesAreWhole
  <1>1. TouchInv => GesturesAreWhole
    BY DEF TouchInv
  <1>2. TouchInv /\ [TouchNext]_touchVars => TouchInv'
    BY TouchStays
  <1> QED BY <1>1, <1>2, TouchInitially, PTL DEF TouchSpec
-----------------------------------------------------------------------------
(* The resumable fetch.                                                    *)

Trying ==
  step # "done" => /\ result = "none" /\ attempt < kMaxAttempts /\ stalled < kMaxStalled
                   /\ step # "body" => attemptStart = bytes

Answered ==
  /\ step \in {"headers", "body"} /\ answer.status = 200 => answer.stop = Size[answer.version] /\ answer.stop >= answer.at
  /\ step = "headers" =>
       /\ answer.status = 200 => answer.at = 0
       /\ answer.status = 206 => answer.at = answer.first /\ answer.first < answer.last
  /\ step = "body" =>
       /\ answer.at = bytes
       /\ answer.status = 200 => total = responseEnd /\ responseEnd = IF answer.framing = "length" THEN answer.stop ELSE 0
       /\ answer.status = 206 => responseEnd > 0 /\ total = Size[answer.version]

OneVersion ==
  /\ total # 0 /\ ~mixes => \A i \in 1..bytes : Size[sink[i][1]] = total
  /\ step = "body" /\ answer.status = 200 => \A i \in 1..bytes : sink[i][1] = answer.version

FetchInv == FetchTypeOK /\ Trying /\ Answered /\ OneVersion /\ FetchIsWhole

-----------------------------------------------------------------------------
LEMMA NoAnswerTyped ==
  /\ NoAnswer \in Answer /\ NoAnswer.status = 200 /\ NoAnswer.at = 0 /\ NoAnswer.stop = 0
  <1>1. (CHOOSE v \in Version : TRUE) \in Version
    BY FetchAssumption
  <1> QED BY <1>1 DEF NoAnswer, Answer, Framing

THEOREM FetchInitially == FetchInit => FetchInv
  <1> SUFFICES ASSUME FetchInit PROVE FetchInv
    OBVIOUS
  <1>1. <<>> \in Seq(Version \X Nat) /\ Len(<<>>) = 0 /\ 0 \in 0..kMaxAttempts /\ 0 \in 0..kMaxStalled
        /\ 0 \in 0..kMaxRedirects
    BY FetchAssumption
  <1>2. FetchTypeOK
    BY <1>1, NoAnswerTyped DEF FetchInit, FetchTypeOK
  <1> QED BY <1>1, <1>2 DEF FetchInit, FetchInv, Trying, Answered, OneVersion, FetchIsWhole, NoGapNoRepeat

(* What the server answers has the type of an answer.                      *)
LEMMA WholeAnswers ==
  ASSUME FetchInv, AnswersWhole
  PROVE  /\ answer' \in Answer /\ answer'.status = 200 /\ answer'.at = 0
         /\ answer'.stop = Size[answer'.version] /\ step' = "headers" /\ step = "request"
         /\ UNCHANGED <<server, sink, bytes, total, counterVars, attemptStart, responseEnd, result, mixes>>
  <1>1. PICK f \in Framing :
          answer' = [NoAnswer EXCEPT !.version = server, !.framing = f, !.stop = Size[server], !.last = Size[server]]
    BY DEF AnswersWhole
  <1>2. server \in Version /\ Size[server] \in Nat
    BY FetchAssumption DEF FetchInv, FetchTypeOK
  <1>3. answer' = [status |-> 200, framing |-> f, version |-> server, at |-> 0, stop |-> Size[server], first |-> 0,
                   last |-> Size[server], length |-> TRUE]
    BY <1>1 DEF NoAnswer
  <1> QED BY <1>2, <1>3 DEF Answer, AnswersWhole

LEMMA RangeAnswers ==
  ASSUME FetchInv, AnswersRange
  PROVE  /\ answer' \in Answer /\ answer'.status = 206 /\ answer'.at = answer'.first /\ answer'.first < answer'.last
         /\ step' = "headers" /\ step = "request"
         /\ UNCHANGED <<server, sink, bytes, total, counterVars, attemptStart, responseEnd, result, mixes>>
  <1>1. server \in Version /\ Size[server] \in Nat
    BY FetchAssumption DEF FetchInv, FetchTypeOK
  <1>2. PICK f \in Framing, first, last, stop \in 0..Size[server] :
          /\ first < last
          /\ answer' = [status |-> 206, framing |-> f, version |-> server, at |-> first, stop |-> stop, first |-> first,
                        last |-> last, length |-> (f = "length" => stop = last)]
    BY DEF AnswersRange
  <1>3. first \in Nat /\ last \in Nat /\ stop \in Nat /\ (f = "length" => stop = last) \in BOOLEAN
    BY <1>1
  <1> QED BY <1>1, <1>2, <1>3 DEF Answer, AnswersRange

(* One unit of the body: the next place of the sink, and no more.          *)
LEMMA Received ==
  ASSUME FetchInv, Receive
  PROVE  /\ sink' \in Seq(Version \X Nat) /\ bytes' = Len(sink') /\ bytes' = bytes + 1
         /\ sink'[bytes'] = <<answer.version, bytes>>
         /\ \A i \in 1..bytes : sink'[i] = sink[i]
         /\ answer' \in Answer /\ answer'.at = answer.at + 1 /\ answer'.version = answer.version
         /\ answer'.status = answer.status /\ answer'.stop = answer.stop /\ answer'.framing = answer.framing
         /\ answer'.first = answer.first /\ answer'.last = answer.last
         /\ step = "body" /\ answer.at < answer.stop
         /\ UNCHANGED <<server, step, total, counterVars, attemptStart, responseEnd, result, mixes>>
  <1>1. answer \in Answer /\ sink \in Seq(Version \X Nat) /\ bytes = Len(sink) /\ answer.at = bytes /\ bytes \in Nat
    BY DEF FetchInv, FetchTypeOK, FetchIsWhole, NoGapNoRepeat, Answered, Receive
  <1>2. answer.version \in Version /\ answer.at \in Nat /\ answer.stop \in Nat
    BY <1>1 DEF Answer
  <1>3. <<answer.version, bytes>> \in Version \X Nat
    BY <1>1, <1>2
  <1>4. sink' = Append(sink, <<answer.version, bytes>>) /\ bytes' = bytes + 1
    BY <1>1 DEF Receive
  <1>5. sink' \in Seq(Version \X Nat) /\ Len(sink') = bytes + 1 /\ sink'[bytes + 1] = <<answer.version, bytes>>
        /\ \A i \in 1..bytes : sink'[i] = sink[i]
    BY <1>1, <1>3, <1>4
  <1>6. answer' = [answer EXCEPT !.at = @ + 1]
    BY DEF Receive
  <1>7. answer' \in Answer
    <2>1. answer.at + 1 \in Nat
      BY <1>2
    <2>2. answer' = [status |-> answer.status, framing |-> answer.framing, version |-> answer.version,
                     at |-> answer.at + 1, stop |-> answer.stop, first |-> answer.first, last |-> answer.last,
                     length |-> answer.length]
      BY <1>1, <1>6 DEF Answer
    <2> QED BY <1>1, <2>1, <2>2 DEF Answer
  <1>8. /\ answer'.at = answer.at + 1 /\ answer'.version = answer.version
        /\ answer'.status = answer.status /\ answer'.stop = answer.stop /\ answer'.framing = answer.framing
        /\ answer'.first = answer.first /\ answer'.last = answer.last
    BY <1>1, <1>6 DEF Answer
  <1> QED BY <1>4, <1>5, <1>7, <1>8 DEF Receive

(* Steps that only end the fetch, or end it without completing it.         *)
GivesUp == Refused \/ RewindStops \/ ReceiveStops \/ Aborted
LEMMA GivenUp ==
  ASSUME GivesUp
  PROVE  /\ step' = "done" /\ result' \in {"failed", "stopped", "aborted"} /\ step # "done"
         /\ UNCHANGED <<server, sink, bytes, total, counterVars, attemptStart, responseEnd, answer, mixes>>
  BY DEF GivesUp, Refused, RewindStops, ReceiveStops, Aborted, Returns

(* Steps that end an attempt: the next one starts at what the sink holds.  *)
Retries == RangeComplete \/ BodyCut
LEMMA Retried ==
  ASSUME FetchInv, Retries
  PROVE  /\ attempt' \in 0..kMaxAttempts /\ stalled' \in 0..kMaxStalled
         /\ \/ step' = "request" /\ attempt' < kMaxAttempts /\ stalled' < kMaxStalled /\ UNCHANGED result
            \/ step' = "done" /\ result' = "failed"
         /\ step = "body" /\ attemptStart' = bytes /\ responseEnd' = 0 /\ answer' = NoAnswer
         /\ UNCHANGED <<server, sink, bytes, total, redirects, mixes>>
  <1>1. step = "body" /\ NextAttempt
    BY DEF Retries, RangeComplete, BodyCut
  <1>2. attempt \in Nat /\ attempt < kMaxAttempts /\ stalled \in Nat /\ stalled < kMaxStalled
    BY <1>1, FetchAssumption DEF FetchInv, FetchTypeOK, Trying
  <1>3. attempt' = attempt + 1 /\ attempt' \in 0..kMaxAttempts
    BY <1>1, <1>2, FetchAssumption DEF NextAttempt
  <1>4. stalled' \in 0..kMaxStalled
    BY <1>1, <1>2, FetchAssumption DEF NextAttempt
  <1>5. CASE attempt' < kMaxAttempts /\ stalled' < kMaxStalled
    BY <1>1, <1>3, <1>4, <1>5 DEF NextAttempt
  <1>6. CASE ~(attempt' < kMaxAttempts /\ stalled' < kMaxStalled)
    BY <1>1, <1>3, <1>4, <1>6 DEF NextAttempt, Returns
  <1> QED BY <1>5, <1>6

-----------------------------------------------------------------------------
LEMMA FetchTyped == FetchInv /\ [FetchNext]_fetchVars => FetchTypeOK'
  <1> SUFFICES ASSUME FetchInv, [FetchNext]_fetchVars PROVE FetchTypeOK'
    OBVIOUS
  <1>0. FetchTypeOK
    BY DEF FetchInv
  <1> USE DEF FetchTypeOK, counterVars
  <1>1. CASE Retries
    BY <1>0, <1>1, Retried, NoAnswerTyped
  <1>2. CASE GivesUp
    BY <1>0, <1>2, GivenUp
  <1>3. CASE Redirected
    <2>1. redirects' \in 0..kMaxRedirects /\ result' \in {"failed", result} /\ step' \in {"done", step}
      BY <1>0, <1>3, FetchAssumption DEF Redirected, Returns
    <2> QED BY <1>0, <1>3, <2>1 DEF Redirected
  <1>4. CASE AnswersWhole
    BY <1>0, <1>4, WholeAnswers DEF AnswersWhole
  <1>5. CASE AnswersRange
    BY <1>0, <1>5, RangeAnswers DEF AnswersRange
  <1>6. CASE BeginRange
    <2>1. answer.last \in Nat /\ Size[answer.version] \in Nat
      BY <1>0, FetchAssumption DEF Answer
    <2>2. mixes' \in BOOLEAN
      BY <1>0, <1>6 DEF BeginRange
    <2>3. step' \in {"body", "done"} /\ result' \in {result, "failed"}
          /\ responseEnd' \in {responseEnd, answer.last} /\ total' \in {total, Size[answer.version]}
      BY <1>6 DEF BeginRange, Returns
    <2> QED BY <1>0, <1>6, <2>1, <2>2, <2>3 DEF BeginRange
  <1>7. CASE BeginWhole \/ BeginAgain
    <2>1. answer.stop \in Nat /\ <<>> \in Seq(Version \X Nat)
      BY <1>0 DEF Answer
    <2>2. step' = "body" /\ total' \in Nat /\ responseEnd' \in Nat
      BY <1>7, <2>1 DEF BeginWhole, BeginAgain, TakesWhole
    <2>3. /\ sink' \in Seq(Version \X Nat) /\ bytes' \in Nat /\ attemptStart' \in Nat /\ mixes' \in BOOLEAN
          /\ UNCHANGED <<server, attempt, stalled, redirects, answer, result>>
      <3>1. CASE BeginWhole
        BY <1>0, <3>1 DEF BeginWhole
      <3>2. CASE BeginAgain
        <4>1. /\ sink' = <<>> /\ bytes' = 0 /\ attemptStart' = 0 /\ mixes' = FALSE
              /\ UNCHANGED <<server, attempt, stalled, redirects, answer, result>>
          BY <3>2 DEF BeginAgain
        <4> QED BY <2>1, <4>1
      <3> QED BY <1>7, <3>1, <3>2
    <2> QED BY <1>0, <2>2, <2>3
  <1>8. CASE Receive
    <2>1. bytes' \in Nat
      BY <1>0, <1>8, Received
    <2> QED BY <1>0, <1>8, <2>1, Received
  <1>9. CASE BodyComplete
    <2>1. step' = "done" /\ result' \in {"failed", "complete"}
      BY <1>9 DEF BodyComplete, Returns
    <2> QED BY <1>0, <1>9, <2>1 DEF BodyComplete
  <1>10. CASE FetchCall
    <2>1. 0 \in 0..kMaxAttempts /\ 0 \in 0..kMaxStalled /\ 0 \in 0..kMaxRedirects
      BY FetchAssumption
    <2> QED BY <1>0, <1>10, <2>1, NoAnswerTyped DEF FetchCall, Starts
  <1>11. CASE Replaced
    BY <1>0, <1>11 DEF Replaced
  <1>12. CASE UNCHANGED fetchVars
    BY <1>0, <1>12 DEF fetchVars
  <1> QED BY <1>1, <1>2, <1>3, <1>4, <1>5, <1>6, <1>7, <1>8, <1>9, <1>10, <1>11, <1>12
          DEF FetchNext, Transport, GivesUp, Retries

LEMMA TryingStays == FetchInv /\ [FetchNext]_fetchVars => Trying'
  <1> SUFFICES ASSUME FetchInv, [FetchNext]_fetchVars PROVE Trying'
    OBVIOUS
  <1>0. Trying /\ (step # "done" => attemptStart = bytes \/ step = "body")
    BY DEF FetchInv, Trying
  <1> USE DEF Trying, counterVars
  <1>1. CASE Retries
    <2>1. result = "none"
      BY <1>0, <1>1, Retried
    <2> QED BY <1>1, <2>1, Retried
  <1>2. CASE GivesUp
    BY <1>2, GivenUp
  <1>3. CASE Redirected \/ BodyComplete \/ BeginRange
    BY <1>0, <1>3 DEF Redirected, BodyComplete, BeginRange, Returns
  <1>4. CASE AnswersWhole \/ AnswersRange
    BY <1>0, <1>4 DEF AnswersWhole, AnswersRange
  <1>5. CASE BeginWhole \/ BeginAgain
    BY <1>0, <1>5 DEF BeginWhole, BeginAgain, TakesWhole
  <1>6. CASE Receive
    BY <1>0, <1>6 DEF Receive
  <1>7. CASE FetchCall
    BY <1>7, FetchAssumption DEF FetchCall, Starts
  <1>8. CASE Replaced \/ UNCHANGED fetchVars
    BY <1>0, <1>8 DEF Replaced, fetchVars
  <1> QED BY <1>1, <1>2, <1>3, <1>4, <1>5, <1>6, <1>7, <1>8 DEF FetchNext, Transport, GivesUp, Retries

LEMMA AnsweredStays == FetchInv /\ [FetchNext]_fetchVars => Answered'
  <1> SUFFICES ASSUME FetchInv, [FetchNext]_fetchVars PROVE Answered'
    OBVIOUS
  <1>0. Answered /\ FetchTypeOK /\ Trying
    BY DEF FetchInv
  <1>s. answer.at \in Nat /\ answer.stop \in Nat /\ answer.last \in Nat /\ bytes \in Nat /\ answer.first \in Nat
    BY <1>0 DEF FetchTypeOK, Answer
  <1> USE DEF Answered, counterVars
  <1>1. CASE Retries \/ GivesUp \/ BodyComplete \/ FetchCall
    BY <1>1, Retried, GivenUp DEF BodyComplete, Returns, FetchCall, Starts
  <1>2. CASE Redirected
    BY <1>0, <1>2 DEF Redirected, Returns
  <1>3. CASE AnswersWhole
    <2>1. answer' \in Answer
      BY <1>3, WholeAnswers
    <2>2. answer'.stop \in Nat
      BY <2>1 DEF Answer
    <2> QED BY <1>3, <2>2, WholeAnswers
  <1>4. CASE AnswersRange
    BY <1>4, RangeAnswers
  <1>5. CASE BeginRange
    <2>1. answer.status = 206 /\ answer.at = answer.first /\ answer.first < answer.last /\ attemptStart = bytes
      BY <1>0, <1>5 DEF BeginRange, Trying
    <2>2. CASE RangeFits
      <3>1. /\ step' = "body" /\ responseEnd' = answer.last /\ total' = Size[answer.version]
            /\ UNCHANGED <<answer, bytes>> /\ answer.first = bytes
        BY <1>5, <2>1, <2>2 DEF BeginRange, RangeFits
      <3> QED BY <1>s, <2>1, <3>1
    <2>3. CASE ~RangeFits
      BY <1>5, <2>3 DEF BeginRange, Returns
    <2> QED BY <2>2, <2>3
  <1>6. CASE BeginWhole \/ BeginAgain
    <2>1. answer.status = 200 /\ answer.at = 0 /\ attemptStart = bytes /\ step = "headers"
      BY <1>0, <1>6 DEF BeginWhole, BeginAgain, Trying
    <2>2. UNCHANGED answer /\ bytes' = 0 /\ step' = "body" /\ total' = responseEnd'
          /\ responseEnd' = IF answer.framing = "length" THEN answer.stop ELSE 0
      BY <1>6, <2>1 DEF BeginWhole, BeginAgain, TakesWhole
    <2> QED BY <1>0, <2>1, <2>2
  <1>7. CASE Receive
    <2>1. answer'.at = bytes' /\ answer.at < answer.stop
      BY <1>0, <1>7, Received
    <2>2. answer'.stop >= answer'.at
      BY <1>s, <1>7, <2>1, Received
    <2> QED BY <1>0, <1>7, <2>1, <2>2, Received
  <1>8. CASE Replaced \/ UNCHANGED fetchVars
    BY <1>0, <1>8 DEF Replaced, fetchVars
  <1> QED BY <1>1, <1>2, <1>3, <1>4, <1>5, <1>6, <1>7, <1>8 DEF FetchNext, Transport, GivesUp, Retries

LEMMA OneVersionStays == FetchInv /\ [FetchNext]_fetchVars => OneVersion'
  <1> SUFFICES ASSUME FetchInv, [FetchNext]_fetchVars PROVE OneVersion'
    OBVIOUS
  <1>0. OneVersion /\ Answered /\ FetchTypeOK /\ Trying
    BY DEF FetchInv
  <1>s. answer.version \in Version /\ answer.stop \in Nat /\ bytes \in Nat
    BY <1>0 DEF FetchTypeOK, Answer
  <1> USE DEF OneVersion, counterVars
  <1>1. CASE Retries \/ GivesUp \/ BodyComplete \/ AnswersWhole \/ AnswersRange
    <2>1. step' # "body" /\ UNCHANGED <<sink, bytes, total, mixes>>
      BY <1>1, Retried, GivenUp DEF BodyComplete, Returns, AnswersWhole, AnswersRange
    <2> QED BY <1>0, <2>1
  <1>2. CASE Redirected
    BY <1>0, <1>2 DEF Redirected, Returns
  <1>3. CASE BeginRange
    <2>1. CASE RangeFits
      <3>1. /\ answer.status = 206 /\ total \in {0, Size[answer.version]} /\ total' = Size[answer.version]
            /\ mixes' = (mixes \/ total = 0) /\ UNCHANGED <<answer, sink, bytes>>
        BY <1>3, <2>1 DEF BeginRange, RangeFits
      <3>2. CASE total = 0
        <4>1. mixes'
          BY <3>1, <3>2
        <4> QED BY <3>1, <4>1
      <3>3. CASE total # 0
        <4>1. total' = total /\ (mixes' <=> mixes)
          BY <3>1, <3>3
        <4> QED BY <1>0, <3>1, <3>3, <4>1
      <3> QED BY <3>2, <3>3
    <2>2. CASE ~RangeFits
      BY <1>0, <1>3, <2>2 DEF BeginRange, Returns
    <2> QED BY <2>1, <2>2
  <1>4. CASE BeginWhole \/ BeginAgain
    <2>1. bytes' = 0
      BY <1>0, <1>4 DEF BeginWhole, BeginAgain, Trying
    <2> QED BY <2>1
  <1>5. CASE Receive
    <2>1. /\ bytes' = bytes + 1 /\ sink'[bytes'] = <<answer.version, bytes>> /\ \A i \in 1..bytes : sink'[i] = sink[i]
          /\ step = "body" /\ UNCHANGED <<step, total, mixes>>
          /\ answer'.version = answer.version /\ answer'.status = answer.status
      BY <1>5, Received
    <2>2. \A i \in 1..bytes' : i \in 1..bytes \/ i = bytes'
      BY <1>s, <2>1
    <2>3. sink'[bytes'][1] = answer.version
      BY <2>1
    <2>4. total # 0 => total = Size[answer.version]
      <3>1. answer.status \in {200, 206}
        BY <1>0 DEF FetchTypeOK, Answer
      <3> QED BY <1>0, <2>1, <3>1 DEF Answered
    <2>5. ASSUME total' # 0, ~mixes', NEW i \in 1..bytes' PROVE Size[sink'[i][1]] = total'
      BY <1>0, <2>1, <2>2, <2>3, <2>4, <2>5
    <2>6. ASSUME answer'.status = 200, NEW i \in 1..bytes' PROVE sink'[i][1] = answer'.version
      BY <1>0, <2>1, <2>2, <2>3, <2>6
    <2> QED BY <2>5, <2>6
  <1>6. CASE FetchCall
    BY <1>6 DEF FetchCall, Starts
  <1>7. CASE Replaced \/ UNCHANGED fetchVars
    BY <1>0, <1>7 DEF Replaced, fetchVars
  <1> QED BY <1>1, <1>2, <1>3, <1>4, <1>5, <1>6, <1>7 DEF FetchNext, Transport, GivesUp, Retries

(* A body that is taken for complete is the resource.                      *)
LEMMA CompleteIsWhole ==
  ASSUME FetchInv, BodyComplete, result' = "complete"
  PROVE  /\ CloseDelimited \/ bytes = Size[answer.version]
         /\ \A i \in 1..bytes : sink[i][1] = answer.version \/ mixes \/ Size[sink[i][1]] = Size[answer.version]
  <1>1. /\ step = "body" /\ BodyEnds /\ (responseEnd = 0 \/ bytes = responseEnd)
        /\ responseEnd = 0 \/ bytes # responseEnd \/ answer.status # 206 \/ bytes = total
    BY DEF BodyComplete, Returns
  <1>2. answer \in Answer /\ answer.status \in {200, 206} /\ answer.framing \in Framing /\ bytes = answer.at
    BY <1>1 DEF FetchInv, FetchTypeOK, Answer, Answered
  <1>3. CASE answer.status = 200
    <2>1. answer.stop = Size[answer.version] /\ \A i \in 1..bytes : sink[i][1] = answer.version
          /\ responseEnd = IF answer.framing = "length" THEN answer.stop ELSE 0
      BY <1>1, <1>3 DEF FetchInv, Answered, OneVersion
    <2> QED BY <1>1, <1>2, <1>3, <2>1 DEF CloseDelimited, BodyEnds
  <1>4. CASE answer.status = 206
    <2>1. responseEnd > 0 /\ total = Size[answer.version] /\ responseEnd \in Nat
      BY <1>1, <1>4 DEF FetchInv, FetchTypeOK, Answered
    <2>2. bytes = total /\ total # 0
      BY <1>1, <1>4, <2>1
    <2> QED BY <2>1, <2>2 DEF FetchInv, OneVersion
  <1> QED BY <1>2, <1>3, <1>4

LEMMA WholeStays == FetchInv /\ [FetchNext]_fetchVars => FetchIsWhole'
  <1> SUFFICES ASSUME FetchInv, [FetchNext]_fetchVars PROVE FetchIsWhole'
    OBVIOUS
  <1>0. FetchIsWhole /\ NoGapNoRepeat /\ Trying /\ bytes \in Nat
    BY DEF FetchInv, FetchTypeOK, FetchIsWhole
  <1> USE DEF FetchIsWhole, NoGapNoRepeat, CloseDelimited, counterVars
  <1>1. CASE Retries \/ GivesUp \/ AnswersWhole \/ AnswersRange
    <2>1. UNCHANGED <<sink, bytes>> /\ step # "done" /\ (result' = result \/ result' # "complete")
      BY <1>1, Retried, GivenUp DEF AnswersWhole, AnswersRange
    <2> QED BY <1>0, <2>1 DEF Trying
  <1>2. CASE Redirected \/ BeginRange
    <2>1. UNCHANGED <<sink, bytes>> /\ step # "done" /\ (result' = result \/ result' # "complete")
      BY <1>2 DEF Redirected, BeginRange, Returns
    <2> QED BY <1>0, <2>1 DEF Trying
  <1>3. CASE BeginWhole \/ BeginAgain
    <2>1. step # "done" /\ UNCHANGED result
          /\ (UNCHANGED <<sink, bytes>> \/ (sink' = <<>> /\ bytes' = 0))
      BY <1>3 DEF BeginWhole, BeginAgain
    <2> QED BY <1>0, <2>1 DEF Trying
  <1>4. CASE Receive
    <2>1. /\ bytes' = Len(sink') /\ bytes' = bytes + 1 /\ sink'[bytes'] = <<answer.version, bytes>>
          /\ \A i \in 1..bytes : sink'[i] = sink[i]
          /\ step = "body" /\ UNCHANGED result
      BY <1>4, Received
    <2>2. \A i \in 1..bytes' : i \in 1..bytes \/ i = bytes'
      BY <1>0, <2>1
    <2>3. sink'[bytes'][2] = bytes' - 1
      BY <1>0, <2>1
    <2>4. \A i \in 1..bytes' : sink'[i][2] = i - 1
      BY <1>0, <2>1, <2>2, <2>3
    <2> QED BY <1>0, <2>1, <2>4 DEF Trying
  <1>5. CASE BodyComplete
    <2>1. UNCHANGED <<sink, bytes, answer, mixes>>
      BY <1>5 DEF BodyComplete
    <2> QED BY <1>0, <1>5, <2>1, CompleteIsWhole
  <1>6. CASE FetchCall
    <2>1. sink' = sink /\ bytes' = bytes /\ result' = "none"
      BY <1>6 DEF FetchCall, Starts
    <2> QED BY <1>0, <2>1
  <1>7. CASE Replaced \/ UNCHANGED fetchVars
    BY <1>0, <1>7 DEF Replaced, fetchVars
  <1> QED BY <1>1, <1>2, <1>3, <1>4, <1>5, <1>6, <1>7 DEF FetchNext, Transport, GivesUp, Retries

-----------------------------------------------------------------------------
LEMMA FetchInductive == FetchInv /\ [FetchNext]_fetchVars => FetchInv'
  BY FetchTyped, TryingStays, AnsweredStays, OneVersionStays, WholeStays DEF FetchInv

LEMMA FetchInvariant == FetchSpec => []FetchInv
  BY FetchInitially, FetchInductive, PTL DEF FetchSpec

(* The loop of fetchResumable() stays within its three limits.             *)
THEOREM FetchTypes == FetchSpec => []FetchTypeOK
  BY FetchInvariant, PTL DEF FetchInv

(* However often the body is cut, the sink of fetchResumable() has no gap  *)
(* and no repeat, and what it reports complete is the resource.            *)
THEOREM FetchedIsWhole == FetchSpec => []FetchIsWhole
  BY FetchInvariant, PTL DEF FetchInv

LEMMA StepSpends == FetchInv /\ [FetchNext]_fetchVars => [step # "done" /\ server' = server => Spends]_fetchVars
  <1> SUFFICES ASSUME FetchInv, FetchNext, step # "done", server' = server
               PROVE  Spends
    BY DEF fetchVars, Spends, MovesOn
  <1>0. /\ attempt \in Nat /\ redirects \in Nat /\ answer \in Answer
        /\ answer.at \in Nat /\ answer.stop \in Nat
    BY FetchAssumption DEF FetchInv, FetchTypeOK, Answer
  <1>1. CASE GivesUp \/ BodyComplete
    BY <1>1 DEF GivesUp, Refused, RewindStops, ReceiveStops, Aborted, BodyComplete, Returns, Spends
  <1>2. CASE Redirected
    BY <1>0, <1>2 DEF Redirected, Returns, Spends, counterVars
  <1>3. CASE AnswersWhole \/ AnswersRange
    <2>1. step = "request" /\ step' = "headers" /\ UNCHANGED counterVars
      BY <1>3, Zenon DEF AnswersWhole, AnswersRange
    <2> QED BY <2>1 DEF Spends, MovesOn, counterVars
  <1>4. CASE BeginRange
    BY <1>4 DEF BeginRange, Returns, Spends, MovesOn, counterVars
  <1>5. CASE BeginWhole \/ BeginAgain
    BY <1>5 DEF BeginWhole, BeginAgain, TakesWhole, Spends, MovesOn, counterVars
  <1>6. CASE Receive
    <2>1. answer'.at = answer.at + 1 /\ answer'.stop = answer.stop
      BY <1>0, <1>6 DEF Receive, Answer
    <2> QED BY <1>0, <1>6, <2>1 DEF Receive, Spends, MovesOn, counterVars
  <1>7. CASE Retries
    BY <1>0, <1>7 DEF Retries, RangeComplete, BodyCut, NextAttempt, Returns, Spends
  <1>8. CASE FetchCall \/ Replaced
    BY <1>8 DEF FetchCall, Replaced
  <1> QED BY <1>1, <1>2, <1>3, <1>4, <1>5, <1>6, <1>7, <1>8 DEF FetchNext, Transport, GivesUp, Retries

(* Every step of fetchResumable() that is not its last one spends one of   *)
(* kMaxAttempts attempts or of kMaxRedirects redirects, or moves on within *)
(* one response: with FetchTypes, no call goes on for ever.                *)
THEOREM FetchIsBounded == FetchSpec => FetchDescends
  <1>1. FetchSpec => FetchInit /\ [][FetchNext]_fetchVars
    BY PTL DEF FetchSpec
  <1> QED BY <1>1, FetchInvariant, StepSpends, PTL DEF FetchDescends

-----------------------------------------------------------------------------
(* The seven together.  A step of MCDevices is a step of one component and *)
(* leaves the variables of the others alone.                               *)
DevicesInv == FlashInv /\ FetchInv /\ HapticInv /\ BoundedInv /\ TouchInv /\ UsbInv

LEMMA DevicesSteps ==
  [Next]_vars => /\ [FlashNext]_flashVars /\ [FetchNext]_fetchVars /\ [HapticNext]_hapticVars
                 /\ [CacheNext]_cacheVars /\ [TouchNext]_touchVars /\ [UsbNext]_usbVars /\ [AudioNext]_audioVars
  BY DEF Next, FlashStep, FetchStep, HapticStep, CacheStep, TouchStep, UsbStep, AudioStep, vars

LEMMA DevicesAtFirst == Init => DevicesInv /\ PlaybackInv
  BY FlashInitially, FetchInitially, HapticInitially, BoundedAtFirst, TouchInitially, UsbInitially, PlaybackInitially
     DEF Init, DevicesInv

LEMMA DevicesInvariant == Spec => []DevicesInv
  <1>1. TouchInv /\ [TouchNext]_touchVars => TouchInv'
    BY TouchStays
  <1>2. DevicesInv /\ [Next]_vars => DevicesInv'
    BY <1>1, DevicesSteps, FlashInductive, FetchInductive, HapticStays, BoundsStay, UsbStays DEF DevicesInv
  <1> QED BY <1>2, DevicesAtFirst, PTL DEF Spec

LEMMA DevicesPlayback ==
  ASSUME ~StopMayTimeOut
  PROVE  Spec => []PlaybackInv
  <1>1. PlaybackInv /\ [Next]_vars => PlaybackInv'
    BY DevicesSteps, PlaybackStays
  <1> QED BY <1>1, DevicesAtFirst, PTL DEF Spec

(* Of all seven every variable keeps its type, for any sizes of them, when *)
(* the player's stop() waits for its task.                                 *)
THEOREM DevicesTypes ==
  ASSUME ~StopMayTimeOut
  PROVE  Spec => []TypeOK
  <1>1. FlashInv => FlashTypeOK
    BY DEF FlashInv
  <1>2. FetchInv => FetchTypeOK
    BY DEF FetchInv
  <1>3. HapticInv => HapticTypeOK
    BY DEF HapticInv
  <1>4. TouchInv => TouchTypeOK
    BY DEF TouchInv
  <1>5. UsbInv => UsbTypeOK
    BY DEF UsbInv
  <1>6. PlaybackInv => AudioTypeOK
    BY DEF PlaybackInv
  <1>7. DevicesInv /\ PlaybackInv => TypeOK
    BY <1>1, <1>2, <1>3, <1>4, <1>5, <1>6, BoundedTypes DEF DevicesInv, TypeOK
  <1> QED BY <1>7, DevicesInvariant, DevicesPlayback, PTL

(* What the run checks of the first six holds of any size of them, without *)
(* an assumption on how long end() or stop() waits.                        *)
THEOREM DevicesAreSafe ==
  Spec => []( /\ NeverStranded /\ SelectedIsWhole /\ FetchIsWhole /\ MotorIsTimed
              /\ CacheIsTrue /\ GesturesAreWhole /\ EjectStands)
  <1>1. FlashInv => NeverStranded /\ SelectedIsWhole
    BY DEF FlashInv, TargetWhole, SelectedIsWhole
  <1>2. FetchInv => FetchIsWhole
    BY DEF FetchInv
  <1>3. HapticInv => MotorIsTimed
    BY DEF HapticInv
  <1>4. BoundedInv => CacheIsTrue
    BY HonestIsTrue DEF BoundedInv
  <1>5. TouchInv => GesturesAreWhole
    BY DEF TouchInv
  <1>6. UsbInv => EjectStands
    BY DEF UsbInv, EjectKept, EjectStands
  <1> QED BY <1>1, <1>2, <1>3, <1>4, <1>5, <1>6, DevicesInvariant, PTL DEF DevicesInv

(* The player has one task, an output that its task holds and a channel    *)
(* flag that is true, while the others run, when stop() waits.             *)
THEOREM DevicesPlay ==
  ASSUME ~StopMayTimeOut
  PROVE  Spec => [](OneTask /\ OutputHeld /\ ChannelFlagTruth)
  <1>1. PlaybackInv => OneTask
    BY DEF PlaybackInv, Handoff, OneTask, NoneAlive
  <1>2. PlaybackInv => OutputHeld
    BY DEF PlaybackInv, Output, OutputHeld, Alive, AudioTypeOK
  <1>3. PlaybackInv => ChannelFlagTruth
    BY DEF PlaybackInv, Output, ChannelFlagTruth, NoneAlive
  <1> QED BY <1>1, <1>2, <1>3, DevicesPlayback, PTL

(* The boot target moves in one step, and a fetch spends what bounds it,   *)
(* while the others run.                                                   *)
THEOREM DevicesStep == Spec => SwitchIsAtomic /\ FetchDescends
  <1>1. DevicesInv /\ [Next]_vars =>
          [Selected(ota') # Selected(ota) => phase = "off" \/ (phase = "otaWrite" /\ Selected(ota') = dest)]_flashVars
    BY SelectedMoves, DevicesSteps DEF DevicesInv
  <1>2. DevicesInv /\ [Next]_vars => [step # "done" /\ server' = server => Spends]_fetchVars
    BY StepSpends, DevicesSteps DEF DevicesInv
  <1>3. Spec => SwitchIsAtomic
    BY <1>1, DevicesInvariant, PTL DEF Spec, SwitchIsAtomic
  <1>4. Spec => FetchDescends
    BY <1>2, DevicesInvariant, PTL DEF Spec, FetchDescends
  <1> QED BY <1>3, <1>4
=============================================================================
