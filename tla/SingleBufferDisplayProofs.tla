----------------------- MODULE SingleBufferDisplayProofs -----------------------
(***************************************************************************)
(* What holds of the single-buffer facade whatever the panel's size, the   *)
(* masks and windows the host uses, and however BUSY answers.              *)
(*                                                                         *)
(* HoldInv says what the pending refresh and the shadow hold; it needs     *)
(* nothing of the host.  ScreenInv, on top of it, says when the RAM planes *)
(* may serve as baselines; it holds of a host that keeps the documented    *)
(* rules.                                                                  *)
(***************************************************************************)
EXTENDS SingleBufferDisplay, Ssd1677Proofs

(* A drain is owed exactly while something to re-read is named.            *)
HoldInv == TypeOK /\ ShadowIsScreen /\ PendingFrameIntact /\ (refreshPending <=> pendingFrame # "none")

(* No waveform runs without a drain owed; the panel owes the reader the    *)
(* frame last submitted, unless the host has put the display to sleep.     *)
PanelInv ==
  /\ \E s \in Image \cup {NoFrame} : PanelOK(panel, s) /\ (awake => s = shown)
  /\ panel.wave \in {"fast", "clean"} => refreshPending
  /\ ~awake => shown = NoFrame /\ ~refreshPending

(* A fresh plane holds the frame on the glass, and a promotion covers a    *)
(* plane lit by gray.                                                      *)
PlanesOK ==
  /\ "lit" \in {stale.red, stale.bw} => Promotes(panel)
  /\ stale.bw = "fresh" /\ awake /\ panel.inGrayscaleMode => panel.needsInitialFull
  /\ shown # NoFrame /\ stale.red = "fresh" /\ ~Promotes(panel) => panel.red = shown
  /\ shown # NoFrame /\ stale.bw = "fresh" /\ ~Promotes(panel) => panel.bw = shown

ScreenInv == HoldInv /\ PanelInv /\ PlanesOK

-----------------------------------------------------------------------------
(* Helpers.                                                                *)

(* Draining leaves a well-typed panel.                                     *)
LEMMA DrainedType ==
  ASSUME TypeOK, NEW s \in Outcome
  PROVE  Drained(s) \in DriverState
  BY FinishType DEF Drained, TypeOK

(* What the facade sends for a frame is a frame, inverted or not.          *)
LEMMA PhysType ==
  ASSUME TypeOK, NEW img \in Image
  PROVE  Phys(img) \in Image
  BY InvertType DEF Phys

(* A usable block holds a frame.                                           *)
LEMMA UsableBlock ==
  ASSUME TypeOK, Usable
  PROVE  frameBuffer0 \in Image /\ frameBuffer0 # NoFrame
  BY DEF TypeOK, Usable

(* The values the facade gives to the reasons are reasons.                 *)
LEMMA Reasons ==
  /\ Fresh \in [red : Freshness, bw : Freshness]
  /\ \A why \in Freshness : [Fresh EXCEPT !.red = why] \in [red : Freshness, bw : Freshness]
  /\ {"fresh", "lit", "gray", "lsb", "async", "shadow"} \subseteq Freshness
  BY DEF Fresh, Freshness, Reason

(* Every mode that a request resolves to is a mode.                        *)
LEMMA Modes == {"FAST", "HALF"} \subseteq RefreshMode
  BY DEF RefreshMode

-----------------------------------------------------------------------------
(* HoldInv.                                                                *)

LEMMA HoldInvInit == Init => HoldInv
<1> SUFFICES ASSUME Init PROVE HoldInv
  OBVIOUS
<1>1. White \in Image
  BY DEF White, Image, Pixel
<1>2. panel \in DriverState
  BY BegunType DEF Init
<1>3. TypeOK
  BY <1>1, <1>2, Reasons DEF Init, TypeOK
<1> QED BY <1>3 DEF Init, HoldInv, ShadowIsScreen, PendingFrameIntact

(* With no drain owed, the shadow invalid and every type right, nothing is *)
(* held.                                                                   *)
LEMMA NothingHeld ==
  ASSUME TypeOK', refreshPending' = FALSE, pendingFrame' = "none", shadowValid' = FALSE
  PROVE  HoldInv'
  BY DEF HoldInv, ShadowIsScreen, PendingFrameIntact

(* A drain alone keeps the shadow.                                         *)
LEMMA ShadowHeld ==
  ASSUME HoldInv, TypeOK', refreshPending' = FALSE, pendingFrame' = "none",
         UNCHANGED <<asyncShadow, shadowValid, shown>>
  PROVE  HoldInv'
  BY DEF HoldInv, ShadowIsScreen, PendingFrameIntact

(* A step that leaves the blocks and the pending refresh alone.            *)
LEMMA AllHeld ==
  ASSUME HoldInv, TypeOK',
         UNCHANGED <<frameBuffer0, buildLent, asyncShadow, shadowValid, refreshPending, pendingFrame, shown>>
  PROVE  HoldInv'
  BY DEF HoldInv, ShadowIsScreen, PendingFrameIntact

(* A blocking update drains, displays and forgets the shadow.              *)
LEMMA BlockingHolds ==
  ASSUME HoldInv, Usable, NEW mode \in RefreshMode, NEW turnOff \in BOOLEAN,
         NEW s \in Outcome, NEW o \in Outcome, BlockingUpdate(mode, turnOff, s, o), redRamSynced' \in BOOLEAN
  PROVE  HoldInv'
<1> DEFINE eff == IF inversionDirty THEN "HALF" ELSE mode
           fb  == Phys(frameBuffer0)
<1>0. TypeOK
  BY DEF HoldInv
<1>1. eff \in RefreshMode /\ fb \in Image /\ NoFrame \in Image \cup {NoFrame}
  BY <1>0, Modes, UsableBlock, PhysType
<1>2. /\ panel' = Display(Drained(s), fb, NoFrame, eff, turnOff, o)
      /\ refreshPending' = FALSE /\ pendingFrame' = "none" /\ shadowValid' = FALSE
      /\ inversionDirty' = FALSE /\ shown' = fb /\ stale' = Fresh
      /\ UNCHANGED <<frameBuffer0, buildLent, asyncShadow, inverted, awake>>
  BY DEF BlockingUpdate, AfterDrain
<1> HIDE DEF eff, fb
<1>3. panel' \in DriverState
  BY <1>0, <1>1, <1>2, DrainedType, DisplayType
<1>4. TypeOK'
  BY <1>0, <1>1, <1>2, <1>3, Reasons DEF TypeOK
<1> QED BY <1>2, <1>4, NothingHeld

(* A deferred start that promises the frame stays intact holds the block.  *)
LEMMA IntactHolds ==
  ASSUME HoldInv, Usable, NEW mode \in RefreshMode, NEW turnOff \in BOOLEAN,
         NEW s \in Outcome, IntactUpdate(mode, turnOff, s), redRamSynced' \in BOOLEAN
  PROVE  HoldInv'
<1>0. TypeOK /\ frameBuffer0 \in Image /\ frameBuffer0 # NoFrame
  BY UsableBlock DEF HoldInv
<1>1. panel' \in DriverState
  BY <1>0, DrainedType, StartType DEF IntactUpdate
<1>2. stale' \in [red : Freshness, bw : Freshness]
  BY Reasons DEF IntactUpdate
<1>3. TypeOK'
  BY <1>0, <1>1, <1>2 DEF IntactUpdate, TypeOK, flags
<1> QED BY <1>0, <1>3 DEF IntactUpdate, HoldInv, ShadowIsScreen, PendingFrameIntact, Usable

(* A redraw-safe start holds its copy in the shadow.                       *)
LEMMA ShadowedHolds ==
  ASSUME HoldInv, Usable, NEW mode \in RefreshMode, NEW turnOff \in BOOLEAN,
         NEW s \in Outcome, ShadowedUpdate(mode, turnOff, s), redRamSynced' \in BOOLEAN
  PROVE  HoldInv'
<1> DEFINE prev == IF shadowValid THEN asyncShadow ELSE NoFrame
<1>0. TypeOK /\ frameBuffer0 \in Image /\ frameBuffer0 # NoFrame
  BY UsableBlock DEF HoldInv
<1>1. prev \in Image \cup {NoFrame}
  BY <1>0 DEF TypeOK
<1>2. panel' = DisplayStart(Drained(s), frameBuffer0, prev, mode, turnOff)
  BY DEF ShadowedUpdate
<1> HIDE DEF prev
<1>3. panel' \in DriverState
  BY <1>0, <1>1, <1>2, DrainedType, StartType
<1>4. stale' \in [red : Freshness, bw : Freshness]
  BY Reasons DEF ShadowedUpdate
<1>5. TypeOK'
  BY <1>0, <1>3, <1>4 DEF ShadowedUpdate, TypeOK, flags
<1> QED BY <1>0, <1>5 DEF ShadowedUpdate, HoldInv, ShadowIsScreen, PendingFrameIntact, Usable

(* A windowed update drains and forgets the shadow.                        *)
LEMMA WindowedHolds ==
  ASSUME HoldInv, Usable, NEW win, NEW turnOff \in BOOLEAN, NEW s \in Outcome, NEW o \in Outcome,
         WindowedUpdate(win, turnOff, s, o)
  PROVE  HoldInv'
<1> DEFINE d0 == Drained(s)
<1>0. TypeOK /\ frameBuffer0 \in Image
  BY UsableBlock DEF HoldInv
<1>1. d0 \in DriverState
  BY <1>0, DrainedType
<1>2. /\ panel' = DisplayWindow(d0, frameBuffer0, NoFrame, win, turnOff, o)
      /\ refreshPending' = FALSE /\ pendingFrame' = "none" /\ shadowValid' = FALSE
      /\ shown' = (IF Promotes(d0) \/ shown = NoFrame THEN frameBuffer0 ELSE Patch(shown, frameBuffer0, win))
      /\ stale' = (IF Promotes(d0) THEN Fresh ELSE stale)
      /\ UNCHANGED <<frameBuffer0, buildLent, asyncShadow, redRamSynced, flags, awake>>
  BY DEF WindowedUpdate, AfterDrain
<1> HIDE DEF d0
<1>3. panel' \in DriverState
  BY <1>0, <1>1, <1>2, WindowType
<1>4. shown' \in Image
  BY <1>0, <1>2, PatchType DEF TypeOK
<1>5. TypeOK'
  BY <1>0, <1>2, <1>3, <1>4, Reasons DEF TypeOK, flags
<1> QED BY <1>2, <1>5, NothingHeld

(* The base of a gray page drains and forgets the shadow.                  *)
LEMMA BaseHolds ==
  ASSUME HoldInv, NEW mode \in RefreshMode, NEW turnOff \in BOOLEAN, NEW s \in Outcome, NEW o \in Outcome,
         DisplayGrayscaleBase(mode, turnOff, s, o)
  PROVE  HoldInv'
<1> DEFINE d1 == Display(Drained(s), frameBuffer0, NoFrame, "HALF", turnOff, o)
           d0 == IF inversionDirty THEN d1 ELSE Drained(s)
<1>0. TypeOK /\ Usable /\ frameBuffer0 \in Image
  BY UsableBlock DEF HoldInv, DisplayGrayscaleBase
<1>1. CASE inverted
  <2>1. BlockingUpdate(mode, turnOff, s, o) /\ redRamSynced' = TRUE
    BY <1>1 DEF DisplayGrayscaleBase
  <2> QED BY <1>0, <2>1, BlockingHolds
<1>2. CASE ~inverted
  <2>1. Drained(s) \in DriverState
    BY <1>0, DrainedType
  <2>2. d0 \in DriverState
    BY <1>0, <2>1, Modes, DisplayType
  <2>3. /\ panel' = Display(d0, frameBuffer0, NoFrame, mode, turnOff, o)
        /\ refreshPending' = FALSE /\ pendingFrame' = "none" /\ shadowValid' = FALSE
        /\ inversionDirty' = FALSE /\ redRamSynced' = (redRamSynced \/ inversionDirty)
        /\ shown' = frameBuffer0 /\ stale' = Fresh
        /\ UNCHANGED <<frameBuffer0, buildLent, asyncShadow, inverted, awake>>
    BY <1>2 DEF DisplayGrayscaleBase, AfterDrain
  <2> HIDE DEF d0
  <2>4. panel' \in DriverState
    BY <1>0, <2>2, <2>3, DisplayType
  <2>5. TypeOK'
    BY <1>0, <2>3, <2>4, Reasons DEF TypeOK
  <2> QED BY <2>3, <2>5, NothingHeld
<1> QED BY <1>1, <1>2

(* Drawing never touches a frame that has to stay intact.                  *)
LEMMA DrawHolds ==
  ASSUME HoldInv, NEW img \in Image, Draw(img)
  PROVE  HoldInv'
<1>1. TypeOK'
  BY DEF HoldInv, TypeOK, Draw, flags
<1> QED BY <1>1 DEF HoldInv, ShadowIsScreen, PendingFrameIntact, TypeOK, Draw

(* The drains, the inversion, the releases and the loans.                  *)
LEMMA StorageHolds ==
  ASSUME HoldInv, NEW s \in Outcome,
         SyncPendingAsync(s) \/ SetInverted(s) \/ ReleaseBuffers(s) \/ LendBuildStorage(s)
  PROVE  HoldInv'
<1>0. TypeOK /\ Drained(s) \in DriverState
  BY DrainedType DEF HoldInv
<1>1. CASE SyncPendingAsync(s)
  <2>1. TypeOK'
    BY <1>0, <1>1 DEF SyncPendingAsync, AfterDrain, TypeOK, flags
  <2> QED BY <1>1, <2>1, ShadowHeld DEF SyncPendingAsync, AfterDrain
<1>2. CASE SetInverted(s)
  <2>1. TypeOK'
    BY <1>0, <1>2 DEF SetInverted, AfterDrain, TypeOK
  <2> QED BY <1>2, <2>1, NothingHeld DEF SetInverted, AfterDrain
<1>3. CASE ReleaseBuffers(s)
  <2>1. TypeOK'
    BY <1>0, <1>3 DEF ReleaseBuffers, AfterDrain, TypeOK, flags
  <2> QED BY <1>3, <2>1, NothingHeld DEF ReleaseBuffers, AfterDrain
<1>4. CASE LendBuildStorage(s)
  <2>1. TypeOK'
    BY <1>0, <1>4 DEF LendBuildStorage, AfterDrain, TypeOK, flags
  <2> QED BY <1>4, <2>1, NothingHeld DEF LendBuildStorage, AfterDrain
<1> QED BY <1>1, <1>2, <1>3, <1>4

(* Storage that comes back comes back white, and no refresh was pending on *)
(* it.                                                                     *)
LEMMA RestoreHolds ==
  ASSUME HoldInv, ReallocBuffers \/ ReturnBuildStorage
  PROVE  HoldInv'
<1>1. White \in Image
  BY DEF White, Image, Pixel
<1>2. TypeOK'
  BY <1>1 DEF HoldInv, TypeOK, ReallocBuffers, ReturnBuildStorage, flags
<1> QED BY <1>2 DEF HoldInv, ShadowIsScreen, PendingFrameIntact, TypeOK, ReallocBuffers, ReturnBuildStorage

(* The gray masks, waveforms and cleanup drain first.                      *)
LEMMA GrayHolds ==
  ASSUME HoldInv, NEW s \in Outcome
  PROVE  /\ \A lsb, msb \in Image : CopyGrayscaleBuffers(lsb, msb, s) => HoldInv'
         /\ \A turnOff, factory \in BOOLEAN, o \in Outcome :
               DisplayGrayBuffer(turnOff, factory, s, o) => HoldInv'
         /\ CleanupGrayscaleBuffers(s) => HoldInv'
<1>0. TypeOK /\ Drained(s) \in DriverState
  BY DrainedType DEF HoldInv
<1>1. ASSUME NEW lsb \in Image, NEW msb \in Image, CopyGrayscaleBuffers(lsb, msb, s) PROVE HoldInv'
  <2>1. panel' \in DriverState
    BY <1>0, <1>1, RamWriteType DEF CopyGrayscaleBuffers, AfterDrain
  <2>2. stale' \in [red : Freshness, bw : Freshness]
    BY <1>1, Reasons DEF CopyGrayscaleBuffers
  <2>3. TypeOK'
    BY <1>0, <1>1, <2>1, <2>2 DEF CopyGrayscaleBuffers, AfterDrain, TypeOK, flags
  <2> QED BY <1>1, <2>3, ShadowHeld DEF CopyGrayscaleBuffers, AfterDrain
<1>2. ASSUME NEW turnOff \in BOOLEAN, NEW factory \in BOOLEAN, NEW o \in Outcome,
             DisplayGrayBuffer(turnOff, factory, s, o)
      PROVE  HoldInv'
  <2>1. panel' \in DriverState
    BY <1>0, <1>2, GrayType DEF DisplayGrayBuffer, AfterDrain
  <2>2. stale' \in [red : Freshness, bw : Freshness]
    BY <1>2, Reasons DEF DisplayGrayBuffer
  <2>3. TypeOK'
    BY <1>0, <1>2, <2>1, <2>2 DEF DisplayGrayBuffer, AfterDrain, TypeOK, flags
  <2> QED BY <1>2, <2>3, NothingHeld DEF DisplayGrayBuffer, AfterDrain
<1>3. ASSUME CleanupGrayscaleBuffers(s) PROVE HoldInv'
  <2>1. shown \in Image
    BY <1>0, <1>3 DEF CleanupGrayscaleBuffers, TypeOK
  <2>2. Phys(shown) \in Image
    BY <1>0, <2>1, PhysType
  <2>3. panel' \in DriverState
    BY <1>0, <1>3, <2>1, CleanupType DEF CleanupGrayscaleBuffers, AfterDrain
  <2>4. stale' \in [red : Freshness, bw : Freshness]
    BY <1>0, <1>3, Reasons DEF CleanupGrayscaleBuffers, TypeOK
  <2>5. TypeOK'
    BY <1>0, <1>3, <2>2, <2>3, <2>4 DEF CleanupGrayscaleBuffers, AfterDrain, TypeOK, flags
  <2> QED BY <1>3, <2>5, ShadowHeld DEF CleanupGrayscaleBuffers, AfterDrain
<1> QED BY <1>1, <1>2, <1>3

(* The flags and a late BUSY release hold everything.                      *)
LEMMA FlagHolds ==
  ASSUME HoldInv, SyncRedRamFromFrameBuffer \/ RequestResync \/ BusyReleases
  PROVE  HoldInv'
<1>1. panel' \in DriverState
  BY RamWriteType DEF SyncRedRamFromFrameBuffer, RequestResync, BusyReleases, HoldInv, TypeOK,
                      RequestDriverResync, DriverState
<1>2. TypeOK'
  BY <1>1 DEF SyncRedRamFromFrameBuffer, RequestResync, BusyReleases, HoldInv, TypeOK, flags
<1> QED BY <1>2, AllHeld DEF SyncRedRamFromFrameBuffer, RequestResync, BusyReleases

(* Sleep and boot hold nothing.                                            *)
LEMMA RebootHolds ==
  ASSUME HoldInv
  PROVE  /\ Boot => HoldInv'
         /\ \A s, o \in Outcome : DeepSleep(s, o) => HoldInv'
<1>1. ASSUME Boot PROVE HoldInv'
  <2>1. GlassAfterReset \subseteq [Region -> Ink]
    BY DevelopedType DEF GlassAfterReset, HoldInv, TypeOK, DriverState, Ink
  <2>2. panel' \in DriverState
    BY <1>1, <2>1, BegunType DEF Boot
  <2>3. White \in Image
    BY DEF White, Image, Pixel
  <2>4. TypeOK'
    BY <1>1, <2>2, <2>3, Reasons DEF Boot, ForgetRam, TypeOK
  <2> QED BY <1>1, <2>4, NothingHeld DEF Boot, ForgetRam
<1>2. ASSUME NEW s \in Outcome, NEW o \in Outcome, DeepSleep(s, o) PROVE HoldInv'
  <2>1. panel' \in DriverState
    BY <1>2, DrainedType, PowerOffType DEF DeepSleep, HoldInv
  <2>2. TypeOK'
    BY <1>2, <2>1, Reasons DEF DeepSleep, ForgetRam, TypeOK
  <2> QED BY <1>2, <2>2, NothingHeld DEF DeepSleep, ForgetRam
<1> QED BY <1>1, <1>2

(* An entry point either blocks or defers, with or without the shadow.     *)
LEMMA EntryPoints ==
  ASSUME NEW mode \in RefreshMode, NEW off, NEW s, NEW o, TypeOK,
         \/ DisplayBuffer(mode, off, s, o)
         \/ \E e : DisplayBufferAsync(e, mode, off, s, o) \/ TriggerDisplay(e, mode, off, s, o)
  PROVE  /\ Usable /\ redRamSynced' \in BOOLEAN
         /\ \/ BlockingUpdate(mode, off, s, o)
            \/ ShadowedUpdate(mode, off, s)
            \/ IntactUpdate(mode, off, s)
  BY DEF DisplayBuffer, DisplayBufferAsync, TriggerDisplay, TypeOK

(* Every step of the facade keeps what it holds.                           *)
LEMMA HoldInvNext == HoldInv /\ [Next]_vars => HoldInv'
<1> SUFFICES ASSUME HoldInv, [Next]_vars PROVE HoldInv'
  OBVIOUS
<1> USE HostAssumption
<1>0. TypeOK
  BY DEF HoldInv
<1>1. ASSUME NEW img \in Image, Draw(img) PROVE HoldInv'
  BY <1>1, DrawHolds
<1>2. ASSUME NEW mode \in RefreshMode, NEW off \in TurnOff, NEW s \in Answer, NEW o \in Answer,
             \/ DisplayBuffer(mode, off, s, o)
             \/ \E e : DisplayBufferAsync(e, mode, off, s, o) \/ TriggerDisplay(e, mode, off, s, o)
      PROVE  HoldInv'
  <2>1. off \in BOOLEAN /\ s \in Outcome /\ o \in Outcome
    OBVIOUS
  <2>2. /\ Usable /\ redRamSynced' \in BOOLEAN
        /\ BlockingUpdate(mode, off, s, o) \/ ShadowedUpdate(mode, off, s) \/ IntactUpdate(mode, off, s)
    BY <1>0, <1>2, EntryPoints
  <2> QED BY <2>1, <2>2, BlockingHolds, ShadowedHolds, IntactHolds
<1>3. ASSUME NEW mode \in RefreshMode, NEW off \in TurnOff, NEW s \in Answer, NEW o \in Answer,
             DisplayGrayscaleBase(mode, off, s, o)
      PROVE  HoldInv'
  <2>1. off \in BOOLEAN /\ s \in Outcome /\ o \in Outcome
    OBVIOUS
  <2> QED BY <1>3, <2>1, BaseHolds
<1>4. ASSUME NEW win \in Window, NEW off \in TurnOff, NEW s \in Answer, NEW o \in Answer,
             DisplayWindowed(win, off, s, o)
      PROVE  HoldInv'
  <2>1. off \in BOOLEAN /\ s \in Outcome /\ o \in Outcome /\ "FAST" \in RefreshMode
    BY Modes
  <2>2. Usable /\ \/ BlockingUpdate("FAST", off, s, o) /\ redRamSynced' = TRUE
                  \/ WindowedUpdate(win, off, s, o)
    BY <1>4 DEF DisplayWindowed
  <2> QED BY <2>1, <2>2, BlockingHolds, WindowedHolds
<1>5. ASSUME NEW s \in Answer,
             \/ SyncPendingAsync(s) \/ SetInverted(s) \/ ReleaseBuffers(s) \/ LendBuildStorage(s)
             \/ CleanupGrayscaleBuffers(s)
      PROVE  HoldInv'
  <2>1. s \in Outcome
    OBVIOUS
  <2> QED BY <1>5, <2>1, StorageHolds, GrayHolds
<1>6. ASSUME ReallocBuffers \/ ReturnBuildStorage PROVE HoldInv'
  BY <1>6, RestoreHolds
<1>7. ASSUME SyncRedRamFromFrameBuffer \/ RequestResync \/ BusyReleases PROVE HoldInv'
  BY <1>7, FlagHolds
<1>8. ASSUME NEW lsb \in GrayPlane, NEW msb \in GrayPlane, NEW s \in Answer,
             CopyGrayscaleBuffers(lsb, msb, s)
      PROVE  HoldInv'
  <2>1. lsb \in Image /\ msb \in Image /\ s \in Outcome
    OBVIOUS
  <2> QED BY <1>8, <2>1, GrayHolds
<1>9. ASSUME NEW off \in TurnOff, NEW factory \in BOOLEAN, NEW s \in Answer, NEW o \in Answer,
             DisplayGrayBuffer(off, factory, s, o)
      PROVE  HoldInv'
  <2>1. off \in BOOLEAN /\ s \in Outcome /\ o \in Outcome
    OBVIOUS
  <2> QED BY <1>9, <2>1, GrayHolds
<1>10. ASSUME Boot \/ \E s, o \in Answer : DeepSleep(s, o) PROVE HoldInv'
  <2>1. \A s, o \in Answer : s \in Outcome /\ o \in Outcome
    OBVIOUS
  <2> QED BY <1>10, <2>1, RebootHolds
<1>11. CASE UNCHANGED vars
  BY <1>11 DEF HoldInv, TypeOK, ShadowIsScreen, PendingFrameIntact, vars, flags
<1>12. CASE Next
  BY <1>1, <1>2, <1>3, <1>4, <1>5, <1>6, <1>7, <1>8, <1>9, <1>10, <1>12 DEF Next
<1> QED BY <1>11, <1>12

(* What the pending refresh and the shadow hold is in order, whatever the  *)
(* host calls and BUSY answers.                                            *)
THEOREM HoldInOrder == Spec => []HoldInv
<1> QED BY HoldInvInit, HoldInvNext, PTL DEF Spec

(* The facade's variables keep their types.                                *)
THEOREM TypeCorrect == Spec => []TypeOK
<1>1. HoldInv => TypeOK
  BY DEF HoldInv
<1> QED BY <1>1, HoldInOrder, PTL

(* A valid shadow is the frame on the glass, over blocking, windowed and   *)
(* deferred refreshes, loans, releases, inversions and gray pages in any   *)
(* order.                                                                  *)
THEOREM ShadowHonest == Spec => []ShadowIsScreen
<1>1. HoldInv => ShadowIsScreen
  BY DEF HoldInv
<1> QED BY <1>1, HoldInOrder, PTL

(* What displayFinish() re-reads is the frame that was submitted: nobody   *)
(* frees, lends or rewrites it before the drain.                           *)
THEOREM PendingIntact == Spec => []PendingFrameIntact
<1>1. HoldInv => PendingFrameIntact
  BY DEF HoldInv
<1> QED BY <1>1, HoldInOrder, PTL

-----------------------------------------------------------------------------
(* ScreenInv, for a host that keeps the documented rules.                  *)

LEMMA ScreenInvInit == ~BeginMayHang /\ Init => ScreenInv
<1> SUFFICES ASSUME ~BeginMayHang, Init PROVE ScreenInv
  OBVIOUS
<1>0. PICK glass \in [Region -> Ink] : panel = BeginController(glass)
  BY DEF Init, Begun
<1>1. PanelOK(panel, NoFrame) /\ Idle(panel) /\ Promotes(panel)
  BY <1>0, BeginOK
<1>2. PanelInv
  BY <1>1 DEF Init, PanelInv, Idle
<1>3. PlanesOK
  BY <1>0, <1>1 DEF Init, PlanesOK, Fresh, BeginController
<1> QED BY <1>2, <1>3, HoldInvInit DEF ScreenInv

(* Draining the pending refresh leaves an idle panel that owes the same    *)
(* frame and holds the same planes.                                        *)
LEMMA DrainedOK ==
  ASSUME PanelInv, awake, NEW s \in Outcome
  PROVE  /\ PanelOK(Drained(s), shown) /\ Idle(Drained(s))
         /\ SamePlanes(panel, Drained(s)) /\ KeepsFlags(panel, Drained(s))
<1>1. PanelOK(panel, shown)
  BY DEF PanelInv
<1>2. CASE refreshPending
  BY <1>1, <1>2, FinishOK DEF Drained
<1>3. CASE ~refreshPending
  BY <1>1, <1>3 DEF Drained, PanelInv, PanelOK, Idle, SamePlanes, KeepsFlags
<1> QED BY <1>2, <1>3

(* RED, when the host trusts it, holds the frame on the glass.             *)
LEMMA TrustedRed ==
  ASSUME HostMay = {}, ScreenInv, awake, NEW s \in Outcome, NEW mode, DiffsAgainstRed(mode)
  PROVE  Baseline(Drained(s), shown, NoFrame, mode)
<1> SUFFICES ASSUME mode = "FAST", ~Promotes(Drained(s)) PROVE Drained(s).red = shown
  BY DEF Baseline
<1>1. PanelOK(Drained(s), shown) /\ SamePlanes(panel, Drained(s)) /\ KeepsFlags(panel, Drained(s))
  BY DrainedOK DEF ScreenInv
<1>2. ~Promotes(panel) /\ shown # NoFrame
  BY <1>1, KeepsPromotion, NothingOwed
<1>3. stale.red = "fresh"
  BY <1>2 DEF DiffsAgainstRed, Overlooked, ScreenInv, PlanesOK
<1> QED BY <1>1, <1>2, <1>3 DEF ScreenInv, PlanesOK, SamePlanes

(* An update of a window that is not promoted finds the page in BW.        *)
LEMMA WindowBase ==
  ASSUME HostMay = {}, ScreenInv, awake, NEW s \in Outcome, Overlooked(stale.bw), ~Promotes(Drained(s))
  PROVE  shown \in Image /\ Drained(s).bw = shown
<1>1. PanelOK(Drained(s), shown) /\ SamePlanes(panel, Drained(s)) /\ KeepsFlags(panel, Drained(s))
  BY DrainedOK DEF ScreenInv
<1>2. ~Promotes(panel) /\ shown # NoFrame /\ shown \in Image
  BY <1>1, KeepsPromotion, NothingOwed
<1>3. stale.bw = "fresh"
  BY <1>2 DEF Overlooked, ScreenInv, PlanesOK
<1> QED BY <1>1, <1>2, <1>3 DEF ScreenInv, PlanesOK, SamePlanes

(* PanelInv of an awake facade.                                            *)
LEMMA PanelInvAwake ==
  ASSUME TypeOK', awake', PanelOK(panel', shown'), Idle(panel') \/ refreshPending'
  PROVE  PanelInv'
  BY DEF PanelInv, TypeOK, Idle

(* An update to the frame that the facade now shows: the planes hold it or *)
(* the clean paint is armed.                                               *)
LEMMA PlanesAfterUpdate ==
  ASSUME NEW redKnown, PlanesHold(panel', shown', redKnown),
         "lit" \notin {stale'.red, stale'.bw}, stale'.red = "fresh" => redKnown
  PROVE  PlanesOK'
  BY DEF PlanesHold, PlanesOK, Promotes

(* A blocking update pays its debt or leaves a promotion.                  *)
LEMMA BlockingScreen ==
  ASSUME HostMay = {}, ScreenInv, HoldInv', Usable,
         NEW mode \in RefreshMode, NEW turnOff \in BOOLEAN,
         NEW s \in Outcome, NEW o \in Outcome, BlockingUpdate(mode, turnOff, s, o)
  PROVE  ScreenInv'
<1> DEFINE eff == IF inversionDirty THEN "HALF" ELSE mode
           fb  == Phys(frameBuffer0)
<1>0. TypeOK /\ awake
  BY DEF ScreenInv, HoldInv, Usable
<1>1. eff \in RefreshMode /\ fb \in Image /\ DiffsAgainstRed(eff)
  BY <1>0, Modes, UsableBlock, PhysType DEF BlockingUpdate
<1>2. /\ panel' = Display(Drained(s), fb, NoFrame, eff, turnOff, o)
      /\ shown' = fb /\ stale' = Fresh /\ awake'
  BY <1>0 DEF BlockingUpdate, AfterDrain
<1> HIDE DEF eff, fb
<1>3. Baseline(Drained(s), shown, NoFrame, eff)
  BY <1>0, <1>1, TrustedRed
<1>4. PanelOK(Drained(s), shown) /\ Idle(Drained(s))
  BY <1>0, DrainedOK DEF ScreenInv
<1>5. PanelOK(panel', fb) /\ Idle(panel') /\ PlanesHold(panel', fb, TRUE)
  BY <1>1, <1>2, <1>3, <1>4, DisplayOK
<1>6. PanelInv'
  BY <1>2, <1>5, PanelInvAwake DEF HoldInv
<1>7. PlanesOK'
  BY <1>2, <1>5, PlanesAfterUpdate DEF Fresh
<1> QED BY <1>6, <1>7 DEF ScreenInv

(* A deferred start owes its frame to the drain, and RED is behind it.     *)
LEMMA StartScreen ==
  ASSUME HoldInv', awake, NEW s \in Outcome, PanelInv,
         NEW prev \in Image \cup {NoFrame}, NEW mode \in RefreshMode, NEW turnOff \in BOOLEAN,
         Baseline(Drained(s), shown, prev, mode), frameBuffer0 \in Image,
         panel' = DisplayStart(Drained(s), frameBuffer0, prev, mode, turnOff),
         shown' = frameBuffer0, refreshPending', awake',
         stale'.bw = "fresh", stale'.red # "lit", stale'.red = "fresh" => mode # "FAST"
  PROVE  PanelInv' /\ PlanesOK'
<1>1. PanelOK(Drained(s), shown) /\ Idle(Drained(s))
  BY DrainedOK
<1>2. PanelOK(panel', frameBuffer0) /\ PlanesHold(panel', frameBuffer0, mode # "FAST")
  BY <1>1, StartOK
<1>3. PanelInv'
  BY <1>2, PanelInvAwake DEF HoldInv
<1>4. PlanesOK'
  BY <1>2, PlanesAfterUpdate
<1> QED BY <1>3, <1>4

(* The start against RED.                                                  *)
LEMMA IntactScreen ==
  ASSUME HostMay = {}, ScreenInv, HoldInv', Usable, NEW mode \in RefreshMode,
         NEW turnOff \in BOOLEAN, NEW s \in Outcome, IntactUpdate(mode, turnOff, s)
  PROVE  ScreenInv'
<1>1. awake /\ PanelInv /\ frameBuffer0 \in Image /\ NoFrame \in Image \cup {NoFrame}
  BY UsableBlock DEF ScreenInv, HoldInv, Usable
<1>2. Baseline(Drained(s), shown, NoFrame, mode)
  BY <1>1, TrustedRed DEF IntactUpdate
<1>3. /\ stale'.bw = "fresh" /\ stale'.red = IF mode = "FAST" THEN "async" ELSE "fresh"
      /\ panel' = DisplayStart(Drained(s), frameBuffer0, NoFrame, mode, turnOff)
      /\ shown' = frameBuffer0 /\ refreshPending' /\ awake'
  BY <1>1 DEF IntactUpdate, Fresh
<1> QED BY <1>1, <1>2, <1>3, StartScreen DEF ScreenInv

(* The start against the shadow, or against RED until there is one.        *)
LEMMA ShadowedScreen ==
  ASSUME HostMay = {}, ScreenInv, HoldInv', Usable, NEW mode \in RefreshMode,
         NEW turnOff \in BOOLEAN, NEW s \in Outcome, ShadowedUpdate(mode, turnOff, s)
  PROVE  ScreenInv'
<1> DEFINE prev == IF shadowValid THEN asyncShadow ELSE NoFrame
<1>1. awake /\ PanelInv /\ frameBuffer0 \in Image /\ prev \in Image \cup {NoFrame}
  BY UsableBlock DEF ScreenInv, HoldInv, Usable, TypeOK
<1>2. Baseline(Drained(s), shown, prev, mode)
  <2>1. CASE shadowValid
    BY <2>1 DEF ScreenInv, HoldInv, ShadowIsScreen, Baseline
  <2>2. CASE ~shadowValid
    BY <1>1, <2>2, TrustedRed DEF ShadowedUpdate
  <2> QED BY <2>1, <2>2
<1>3. /\ stale'.bw = "fresh" /\ stale'.red = IF mode = "FAST" THEN "shadow" ELSE "fresh"
      /\ panel' = DisplayStart(Drained(s), frameBuffer0, prev, mode, turnOff)
      /\ shown' = frameBuffer0 /\ refreshPending' /\ awake'
  BY <1>1 DEF ShadowedUpdate, Fresh
<1> HIDE DEF prev
<1> QED BY <1>1, <1>2, <1>3, StartScreen DEF ScreenInv

(* A windowed update develops its window and leaves the rest of the page   *)
(* alone.                                                                  *)
LEMMA WindowedScreen ==
  ASSUME HostMay = {}, ScreenInv, HoldInv', Usable,
         NEW win, NEW turnOff \in BOOLEAN, NEW s \in Outcome, NEW o \in Outcome,
         WindowedUpdate(win, turnOff, s, o)
  PROVE  ScreenInv'
<1> DEFINE d0 == Drained(s)
<1>0. awake /\ PlanesOK /\ frameBuffer0 \in Image /\ NoFrame \in Image \cup {NoFrame}
  BY UsableBlock DEF ScreenInv, HoldInv, Usable
<1>1. /\ panel' = DisplayWindow(d0, frameBuffer0, NoFrame, win, turnOff, o)
      /\ shown' = (IF Promotes(d0) \/ shown = NoFrame THEN frameBuffer0 ELSE Patch(shown, frameBuffer0, win))
      /\ stale' = (IF Promotes(d0) THEN Fresh ELSE stale)
      /\ DiffsAgainstRed("FAST") /\ Overlooked(stale.bw) /\ awake'
  BY <1>0 DEF WindowedUpdate, AfterDrain
<1>2. PanelOK(d0, shown) /\ Idle(d0) /\ SamePlanes(panel, d0) /\ KeepsFlags(panel, d0)
  BY <1>0, DrainedOK DEF ScreenInv
<1>3. ~Promotes(d0) => ~Promotes(panel) /\ shown # NoFrame
  BY <1>2, KeepsPromotion, NothingOwed
<1>4. Baseline(d0, shown, NoFrame, "FAST")
  BY <1>0, <1>1, TrustedRed
<1>5. ~Promotes(d0) => d0.bw = shown
  BY <1>0, <1>1, WindowBase DEF d0
<1> HIDE DEF d0
<1>6. PanelOK(panel', shown') /\ Idle(panel') /\ PlanesHold(panel', shown', TRUE)
  BY <1>0, <1>1, <1>2, <1>4, <1>5, WindowOK
<1>7. PanelInv'
  BY <1>1, <1>6, PanelInvAwake DEF HoldInv
<1>8. "lit" \notin {stale'.red, stale'.bw}
  BY <1>0, <1>1, <1>3 DEF PlanesOK, Fresh
<1>9. PlanesOK'
  BY <1>6, <1>8, PlanesAfterUpdate
<1> QED BY <1>7, <1>9 DEF ScreenInv

(* The base of a gray page repaints first when an inversion was undone:    *)
(* the second display then diffs against the first.                        *)
LEMMA BaseScreen ==
  ASSUME HostMay = {}, ScreenInv, HoldInv', NEW mode \in RefreshMode, NEW turnOff \in BOOLEAN,
         NEW s \in Outcome, NEW o \in Outcome, DisplayGrayscaleBase(mode, turnOff, s, o)
  PROVE  ScreenInv'
<1> DEFINE d1 == Display(Drained(s), frameBuffer0, NoFrame, "HALF", turnOff, o)
           d0 == IF inversionDirty THEN d1 ELSE Drained(s)
           before == IF inversionDirty THEN frameBuffer0 ELSE shown
<1>0. Usable /\ awake /\ frameBuffer0 \in Image /\ NoFrame \in Image \cup {NoFrame}
  BY UsableBlock DEF ScreenInv, HoldInv, DisplayGrayscaleBase, Usable
<1>1. CASE inverted
  BY <1>0, <1>1, BlockingScreen DEF DisplayGrayscaleBase
<1>2. CASE ~inverted
  <2>1. PanelOK(Drained(s), shown) /\ Idle(Drained(s))
    BY <1>0, DrainedOK DEF ScreenInv
  <2>2. PanelOK(d0, before) /\ Idle(d0) /\ Baseline(d0, before, NoFrame, mode)
    <3>1. CASE inversionDirty
      <4>1. "HALF" \in RefreshMode /\ Baseline(Drained(s), shown, NoFrame, "HALF")
        BY Modes DEF Baseline
      <4>2. PanelOK(d1, frameBuffer0) /\ Idle(d1) /\ PlanesHold(d1, frameBuffer0, TRUE)
        BY <1>0, <2>1, <4>1, DisplayOK
      <4>3. Baseline(d1, frameBuffer0, NoFrame, mode)
        BY <4>2 DEF PlanesHold, Baseline, Promotes
      <4> QED BY <3>1, <4>2, <4>3
    <3>2. CASE ~inversionDirty
      <4>1. DiffsAgainstRed(mode)
        BY <1>2, <3>2 DEF DisplayGrayscaleBase
      <4> QED BY <1>0, <2>1, <3>2, <4>1, TrustedRed
    <3> QED BY <3>1, <3>2
  <2>3. /\ panel' = Display(d0, frameBuffer0, NoFrame, mode, turnOff, o)
        /\ shown' = frameBuffer0 /\ stale' = Fresh /\ awake'
    BY <1>0, <1>2 DEF DisplayGrayscaleBase, AfterDrain
  <2> HIDE DEF d0, before
  <2>4. PanelOK(panel', frameBuffer0) /\ Idle(panel') /\ PlanesHold(panel', frameBuffer0, TRUE)
    BY <1>0, <2>2, <2>3, DisplayOK
  <2>5. PanelInv'
    BY <2>3, <2>4, PanelInvAwake DEF HoldInv
  <2>6. PlanesOK'
    BY <2>3, <2>4, PlanesAfterUpdate DEF Fresh
  <2> QED BY <2>5, <2>6 DEF ScreenInv
<1> QED BY <1>1, <1>2

(* A handler that only drains the pending refresh leaves the planes alone. *)
LEMMA DrainScreen ==
  ASSUME ScreenInv, HoldInv', awake, awake', NEW s \in Outcome, panel' = Drained(s),
         shown' = shown, stale' = stale
  PROVE  ScreenInv'
<1>1. /\ PanelOK(panel', shown') /\ Idle(panel')
      /\ SamePlanes(panel, panel') /\ KeepsFlags(panel, panel')
  BY DrainedOK DEF ScreenInv
<1>2. PanelInv'
  BY <1>1, PanelInvAwake DEF HoldInv
<1>3. Promotes(panel) => Promotes(panel')
  BY <1>1, KeepsPromotion
<1>4. PlanesOK'
  BY <1>1, <1>3 DEF ScreenInv, PlanesOK, SamePlanes, KeepsFlags
<1> QED BY <1>2, <1>4 DEF ScreenInv

(* The drains, the inversion, the releases and the loans.                  *)
LEMMA StorageScreen ==
  ASSUME ScreenInv, HoldInv', NEW s \in Outcome,
         SyncPendingAsync(s) \/ SetInverted(s) \/ ReleaseBuffers(s) \/ LendBuildStorage(s)
  PROVE  ScreenInv'
<1>1. awake /\ awake' /\ panel' = Drained(s) /\ shown' = shown /\ stale' = stale
  BY DEF SyncPendingAsync, SetInverted, ReleaseBuffers, LendBuildStorage, AfterDrain, Usable,
         ScreenInv, PanelInv
<1> QED BY <1>1, DrainScreen

(* A handler that leaves the panel and what it is trusted for alone.       *)
LEMMA SameScreen ==
  ASSUME ScreenInv, HoldInv', UNCHANGED <<panel, refreshPending, awake, shown, stale>>
  PROVE  ScreenInv'
  BY DEF ScreenInv, PanelInv, PlanesOK

(* The masks go over an idle page: the planes stop being baselines.        *)
LEMMA CopyGrayScreen ==
  ASSUME ScreenInv, HoldInv', NEW lsb \in Image, NEW msb \in Image, NEW s \in Outcome,
         CopyGrayscaleBuffers(lsb, msb, s)
  PROVE  ScreenInv'
<1>1. /\ panel' = CopyGrayscale(Drained(s), lsb, msb) /\ awake /\ awake' /\ shown' = shown
      /\ stale'.red = "gray" /\ stale'.bw = "gray"
  BY DEF CopyGrayscaleBuffers, AfterDrain, Usable
<1>2. PanelOK(panel', shown) /\ Idle(panel')
  BY <1>1, DrainedOK, RamWriteOK DEF ScreenInv
<1>3. PanelInv'
  BY <1>1, <1>2, PanelInvAwake DEF HoldInv
<1>4. PlanesOK'
  BY <1>1 DEF PlanesOK
<1> QED BY <1>3, <1>4 DEF ScreenInv

(* A gray waveform leaves every later update promoted.                     *)
LEMMA DisplayGrayScreen ==
  ASSUME ScreenInv, HoldInv', NEW turnOff \in BOOLEAN, NEW factory \in BOOLEAN,
         NEW s \in Outcome, NEW o \in Outcome, DisplayGrayBuffer(turnOff, factory, s, o)
  PROVE  ScreenInv'
<1>1. /\ panel' = DisplayGray(Drained(s), turnOff, factory, o) /\ awake /\ awake'
      /\ shown' = (IF factory THEN NoFrame ELSE shown)
      /\ stale'.red = "lit" /\ stale'.bw = "lit"
  BY DEF DisplayGrayBuffer, AfterDrain, Usable
<1>2. PanelOK(Drained(s), shown) /\ Idle(Drained(s))
  BY <1>1, DrainedOK DEF ScreenInv
<1>3. PanelOK(panel', shown') /\ Idle(panel') /\ Promotes(panel')
  BY <1>1, <1>2, GrayOK
<1>4. PanelInv'
  BY <1>1, <1>3, PanelInvAwake DEF HoldInv
<1>5. PlanesOK'
  BY <1>1, <1>3 DEF PlanesOK
<1> QED BY <1>4, <1>5 DEF ScreenInv

(* The cleanup gives RED the page back; the LSB mask stays in BW.          *)
LEMMA CleanupScreen ==
  ASSUME ScreenInv, HoldInv', NEW s \in Outcome, CleanupGrayscaleBuffers(s)
  PROVE  ScreenInv'
<1> DEFINE d0 == Drained(s)
<1>0. TypeOK /\ PlanesOK /\ awake /\ awake' /\ shown' = shown /\ shown \in Image
  BY DEF ScreenInv, HoldInv, TypeOK, CleanupGrayscaleBuffers, Usable
<1>1. CASE inverted
  BY <1>0, <1>1, DrainScreen DEF CleanupGrayscaleBuffers, AfterDrain
<1>2. CASE ~inverted
  <2>1. /\ panel' = CleanupGrayscale(d0, shown)
        /\ stale'.red = "fresh"
        /\ stale'.bw = IF stale.bw \in {"gray", "lit"} THEN "lsb" ELSE stale.bw
    BY <1>0, <1>2 DEF CleanupGrayscaleBuffers, AfterDrain, TypeOK
  <2>2. PanelOK(d0, shown) /\ Idle(d0) /\ SamePlanes(panel, d0) /\ KeepsFlags(panel, d0)
    BY <1>0, DrainedOK DEF ScreenInv
  <2> HIDE DEF d0
  <2>3. /\ PanelOK(panel', shown) /\ Idle(panel') /\ panel'.bw = d0.bw
        /\ panel'.needsGrayClear = d0.needsGrayClear /\ (d0.needsInitialFull => panel'.needsInitialFull)
        /\ panel'.needsInitialFull \/ (panel'.red = shown /\ ~panel'.inGrayscaleMode)
    BY <1>0, <2>1, <2>2, CleanupOK
  <2>4. PanelInv'
    BY <1>0, <2>3, PanelInvAwake DEF HoldInv
  <2>5. stale'.bw = "fresh" /\ ~Promotes(panel') => panel'.bw = shown
    <3> SUFFICES ASSUME stale'.bw = "fresh", ~Promotes(panel') PROVE panel'.bw = shown
      OBVIOUS
    <3>1. stale.bw = "fresh"
      BY <2>1
    <3>2. ~panel.needsInitialFull /\ ~panel.needsGrayClear
      BY <2>2, <2>3 DEF Promotes, KeepsFlags
    <3>3. ~Promotes(panel) /\ shown # NoFrame
      BY <1>0, <3>1, <3>2, FrameAssumption DEF PlanesOK, Promotes
    <3> QED BY <1>0, <2>2, <2>3, <3>1, <3>3 DEF PlanesOK, SamePlanes
  <2>6. "lit" \notin {stale'.red, stale'.bw}
    BY <2>1
  <2>7. PlanesOK'
    BY <1>0, <2>1, <2>3, <2>5, <2>6 DEF PlanesOK, Promotes
  <2> QED BY <2>4, <2>7 DEF ScreenInv
<1> QED BY <1>1, <1>2

(* requestResync() and a late BUSY release write no plane and lift no      *)
(* promotion.                                                              *)
LEMMA PanelScreen ==
  ASSUME ScreenInv, HoldInv', RequestResync \/ BusyReleases
  PROVE  ScreenInv'
<1>1. CASE RequestResync
  <2>1. awake /\ PanelOK(panel, shown) /\ panel' = RequestDriverResync(panel)
    BY <1>1 DEF RequestResync, ScreenInv, PanelInv
  <2>2. /\ PanelOK(panel', shown) /\ Promotes(panel') /\ panel'.wave = panel.wave
        /\ panel'.needsInitialFull = panel.needsInitialFull
        /\ panel'.inGrayscaleMode = panel.inGrayscaleMode
    BY <2>1, ResyncOK
  <2>3. PanelInv'
    BY <1>1, <2>1, <2>2 DEF RequestResync, ScreenInv, PanelInv
  <2>4. PlanesOK'
    BY <1>1, <2>1, <2>2 DEF RequestResync, ScreenInv, PlanesOK
  <2> QED BY <2>3, <2>4 DEF ScreenInv
<1>2. CASE BusyReleases
  <2>1. PICK s \in Image \cup {NoFrame} : PanelOK(panel, s) /\ (awake => s = shown)
    BY DEF ScreenInv, PanelInv
  <2>2. panel.wave = "stuck" /\ panel' = [panel EXCEPT !.wave = "none"]
    BY <1>2 DEF BusyReleases
  <2>3. PanelOK(panel', s) /\ Idle(panel') /\ SamePlanes(panel, panel') /\ KeepsFlags(panel, panel')
    BY <2>1, <2>2, ReleaseOK
  <2>4. PanelInv'
    BY <1>2, <2>1, <2>3 DEF BusyReleases, ScreenInv, PanelInv, Idle
  <2>5. Promotes(panel) => Promotes(panel')
    BY <2>3, KeepsPromotion
  <2>6. PlanesOK'
    BY <1>2, <2>3, <2>5 DEF BusyReleases, ScreenInv, PlanesOK, SamePlanes, KeepsFlags
  <2> QED BY <2>4, <2>6 DEF ScreenInv
<1> QED BY <1>1, <1>2

(* Sleeping and booting forget the frame: nothing is owed until the next   *)
(* update, which the boot has promoted.                                    *)
LEMMA RebootScreen ==
  ASSUME ~BeginMayHang, ScreenInv, HoldInv'
  PROVE  /\ Boot => ScreenInv'
         /\ \A s, o \in Outcome : DeepSleep(s, o) => ScreenInv'
<1>1. ASSUME Boot PROVE ScreenInv'
  <2>1. GlassAfterReset \subseteq [Region -> Ink]
    BY DevelopedType DEF GlassAfterReset, ScreenInv, HoldInv, TypeOK, DriverState, Ink
  <2>2. PICK glass \in [Region -> Ink] : panel' = BeginController(glass)
    BY <1>1, <2>1 DEF Boot, Begun
  <2>3. PanelOK(panel', NoFrame) /\ Idle(panel') /\ Promotes(panel') /\ ~panel'.inGrayscaleMode
    BY <2>2, BeginOK DEF BeginController
  <2>4. shown' = NoFrame /\ stale' = Fresh /\ awake'
    BY <1>1 DEF Boot, ForgetRam
  <2>5. PanelInv'
    BY <2>3, <2>4, PanelInvAwake DEF HoldInv
  <2>6. PlanesOK'
    BY <2>3, <2>4 DEF PlanesOK, Fresh
  <2> QED BY <2>5, <2>6 DEF ScreenInv
<1>2. ASSUME NEW s \in Outcome, NEW o \in Outcome, DeepSleep(s, o) PROVE ScreenInv'
  <2>1. awake /\ panel' = PowerOffController(Drained(s), o)
    BY <1>2 DEF DeepSleep
  <2>2. PanelOK(Drained(s), shown) /\ Idle(Drained(s))
    BY <2>1, DrainedOK DEF ScreenInv
  <2>3. PanelOK(panel', shown) /\ Idle(panel')
    BY <2>1, <2>2, SleepOK
  <2>4. shown' = NoFrame /\ stale' = Fresh /\ ~awake' /\ ~refreshPending'
    BY <1>2 DEF DeepSleep, ForgetRam
  <2>5. shown \in Image \cup {NoFrame} /\ panel'.wave \notin {"fast", "clean"}
    BY <2>3 DEF Idle, PanelOK
  <2>6. PanelInv'
    BY <2>3, <2>4, <2>5 DEF PanelInv
  <2>7. PlanesOK'
    BY <2>4 DEF PlanesOK, Fresh
  <2> QED BY <2>6, <2>7 DEF ScreenInv
<1> QED BY <1>1, <1>2

(* Every step of a facade whose host keeps the rules leaves the planes and *)
(* the debt to the reader in order.                                        *)
LEMMA ScreenInvNext == HostMay = {} /\ ~BeginMayHang /\ ScreenInv /\ [Next]_vars => ScreenInv'
<1> SUFFICES ASSUME HostMay = {}, ~BeginMayHang, ScreenInv, [Next]_vars PROVE ScreenInv'
  OBVIOUS
<1> USE HostAssumption
<1>0. TypeOK /\ HoldInv'
  BY HoldInvNext DEF ScreenInv, HoldInv
<1>1. ASSUME NEW mode \in RefreshMode, NEW off \in TurnOff, NEW s \in Answer, NEW o \in Answer,
             \/ DisplayBuffer(mode, off, s, o)
             \/ \E e : DisplayBufferAsync(e, mode, off, s, o) \/ TriggerDisplay(e, mode, off, s, o)
      PROVE  ScreenInv'
  <2>1. off \in BOOLEAN /\ s \in Outcome /\ o \in Outcome
    OBVIOUS
  <2>2. /\ Usable
        /\ BlockingUpdate(mode, off, s, o) \/ ShadowedUpdate(mode, off, s) \/ IntactUpdate(mode, off, s)
    BY <1>0, <1>1, EntryPoints
  <2> QED BY <1>0, <2>1, <2>2, BlockingScreen, ShadowedScreen, IntactScreen
<1>2. ASSUME NEW mode \in RefreshMode, NEW off \in TurnOff, NEW s \in Answer, NEW o \in Answer,
             DisplayGrayscaleBase(mode, off, s, o)
      PROVE  ScreenInv'
  <2>1. off \in BOOLEAN /\ s \in Outcome /\ o \in Outcome
    OBVIOUS
  <2> QED BY <1>0, <1>2, <2>1, BaseScreen
<1>3. ASSUME NEW win \in Window, NEW off \in TurnOff, NEW s \in Answer, NEW o \in Answer,
             DisplayWindowed(win, off, s, o)
      PROVE  ScreenInv'
  <2>1. off \in BOOLEAN /\ s \in Outcome /\ o \in Outcome /\ "FAST" \in RefreshMode
    BY Modes
  <2>2. Usable /\ (BlockingUpdate("FAST", off, s, o) \/ WindowedUpdate(win, off, s, o))
    BY <1>3 DEF DisplayWindowed
  <2> QED BY <1>0, <2>1, <2>2, BlockingScreen, WindowedScreen
<1>4. ASSUME NEW s \in Answer,
             \/ SyncPendingAsync(s) \/ SetInverted(s) \/ ReleaseBuffers(s) \/ LendBuildStorage(s)
             \/ CleanupGrayscaleBuffers(s)
      PROVE  ScreenInv'
  <2>1. s \in Outcome
    OBVIOUS
  <2> QED BY <1>0, <1>4, <2>1, StorageScreen, CleanupScreen
<1>5. ASSUME (\E img \in Image : Draw(img)) \/ ReallocBuffers \/ ReturnBuildStorage \/ SyncRedRamFromFrameBuffer
      PROVE  ScreenInv'
  <2>1. UNCHANGED <<panel, refreshPending, awake, shown, stale>>
    BY <1>5 DEF Draw, ReallocBuffers, ReturnBuildStorage, SyncRedRamFromFrameBuffer
  <2> QED BY <1>0, <2>1, SameScreen
<1>6. ASSUME RequestResync \/ BusyReleases PROVE ScreenInv'
  BY <1>0, <1>6, PanelScreen
<1>7. ASSUME NEW lsb \in GrayPlane, NEW msb \in GrayPlane, NEW s \in Answer,
             CopyGrayscaleBuffers(lsb, msb, s)
      PROVE  ScreenInv'
  <2>1. lsb \in Image /\ msb \in Image /\ s \in Outcome
    OBVIOUS
  <2> QED BY <1>0, <1>7, <2>1, CopyGrayScreen
<1>8. ASSUME NEW off \in TurnOff, NEW factory \in BOOLEAN, NEW s \in Answer, NEW o \in Answer,
             DisplayGrayBuffer(off, factory, s, o)
      PROVE  ScreenInv'
  <2>1. off \in BOOLEAN /\ s \in Outcome /\ o \in Outcome
    OBVIOUS
  <2> QED BY <1>0, <1>8, <2>1, DisplayGrayScreen
<1>9. ASSUME Boot \/ \E s, o \in Answer : DeepSleep(s, o) PROVE ScreenInv'
  <2>1. \A s, o \in Answer : s \in Outcome /\ o \in Outcome
    OBVIOUS
  <2> QED BY <1>0, <1>9, <2>1, RebootScreen
<1>10. CASE UNCHANGED vars
  BY <1>0, <1>10, SameScreen DEF vars
<1>11. CASE Next
  BY <1>1, <1>2, <1>3, <1>4, <1>5, <1>6, <1>7, <1>8, <1>9, <1>11 DEF Next
<1> QED BY <1>10, <1>11

(* With a host that keeps the documented rules and a controller that       *)
(* answers begin(), every plane is what the facade takes it for, always.   *)
THEOREM ScreenInOrder == ASSUME HostMay = {}, ~BeginMayHang PROVE Spec => []ScreenInv
<1>1. ScreenInv /\ [Next]_vars => ScreenInv'
  BY ScreenInvNext
<1> QED BY <1>1, ScreenInvInit, PTL DEF Spec

(* The glass ends up with the frame last submitted and no trace of an      *)
(* older one: over the shadow, the retained RED plane, windows, inversion, *)
(* gray overlays, loans, failed waits and resets, for a panel and images   *)
(* of any size.                                                            *)
THEOREM NoGhostEver == ASSUME HostMay = {}, ~BeginMayHang PROVE Spec => []NoGhost
<1>1. ScreenInv => NoGhost
  <2> SUFFICES ASSUME ScreenInv, shown # NoFrame, ~IsBusy(panel), ~panel.needsInitialFull
               PROVE  \A r \in Region : panel.glass[r] \in {shown[r], "G"}
    BY DEF NoGhost
  <2>1. PanelOK(panel, shown)
    BY DEF ScreenInv, PanelInv
  <2> QED BY <2>1 DEF PanelOK, Owes, IsBusy
<1> QED BY <1>1, ScreenInOrder, PTL

-----------------------------------------------------------------------------
(* The promise of a display.                                               *)

(* A waveform in flight brings the page last submitted.                    *)
InkInv == ScreenInv /\ InFlight(panel, shown)

(* Draining brings the pending page to the glass and nothing else.         *)
LEMMA DrainedTurns ==
  ASSUME InkInv, awake, NEW s \in Outcome
  PROVE  /\ Turns(panel, Drained(s), shown, {})
         /\ Drained(s) \in DriverState /\ Idle(Drained(s))
<1>1. Drained(s) \in DriverState /\ Idle(Drained(s))
  BY DrainedOK, DrainedType DEF InkInv, ScreenInv, HoldInv
<1>2. panel \in DriverState /\ panel.wave \in {"none", "fast", "clean", "stuck"}
  BY DEF InkInv, ScreenInv, PanelInv, PanelOK
<1>3. Turns(panel, Drained(s), shown, {})
  <2>1. CASE refreshPending
    BY <1>2, <2>1, FinishTurns DEF Drained, InkInv
  <2>2. CASE ~refreshPending
    BY <2>2, QuietTurns DEF Drained
  <2> QED BY <2>1, <2>2
<1> QED BY <1>1, <1>3

(* What a drain and one more call ink, as the promise counts it.           *)
LEMMA PromisedInk ==
  ASSUME NEW d, NEW more, NEW q, q \in {shown, shown', NoFrame},
         Turns(panel, d, shown, {}), Turns(d, panel', q, more), StaysStuck(d, panel')
  PROVE  Promise!Inked(more)
<1>1. \A r \in Region :
        \/ panel'.glass[r] \in {panel.glass[r]} \cup InkOf(shown, r) \cup InkOf(q, r) \cup more
        \/ panel'.glass[r] = "?" /\ panel'.wave = "stuck"
  BY TurnsAgain
<1>2. panel'.wave = "stuck" => ~Settled'
  BY DEF Settled, IsBusy
<1>3. \A r \in Region : InkOf(q, r) \subseteq Promise!Of(shown, r) \cup Promise!Of(shown', r)
  BY DEF InkOf, Promise!Of
<1>4. \A r \in Region : InkOf(shown, r) = Promise!Of(shown, r)
  BY DEF InkOf, Promise!Of
<1> QED BY <1>1, <1>2, <1>3, <1>4 DEF Promise!Inked

(* With nothing deferred, nothing is in flight.                            *)
LEMMA NoFlight ==
  ASSUME ScreenInv', ~refreshPending'
  PROVE  InFlight(panel', shown')
  BY DEF ScreenInv, PanelInv, InFlight

(* A blocking update inks the page it submits.                             *)
LEMMA BlockingInks ==
  ASSUME InkInv, ScreenInv', Usable, NEW mode \in RefreshMode, NEW turnOff \in BOOLEAN,
         NEW s \in Outcome, NEW o \in Outcome, BlockingUpdate(mode, turnOff, s, o)
  PROVE  Promise!Submit /\ InFlight(panel', shown')
<1> DEFINE eff == IF inversionDirty THEN "HALF" ELSE mode
           fb  == Phys(frameBuffer0)
<1>0. TypeOK /\ awake
  BY DEF InkInv, ScreenInv, HoldInv, Usable
<1>1. eff \in RefreshMode /\ fb \in Image /\ NoFrame \in Image \cup {NoFrame}
  BY <1>0, Modes, UsableBlock, PhysType
<1>2. panel' = Display(Drained(s), fb, NoFrame, eff, turnOff, o) /\ shown' = fb /\ ~refreshPending'
  BY DEF BlockingUpdate, AfterDrain
<1> HIDE DEF eff, fb
<1>3. Turns(panel, Drained(s), shown, {}) /\ Drained(s) \in DriverState
  BY <1>0, DrainedTurns
<1>4. Turns(Drained(s), panel', shown', {}) /\ StaysStuck(Drained(s), panel')
  BY <1>1, <1>2, <1>3, DisplayTurns
<1>5. Promise!Inked({})
  BY <1>3, <1>4, PromisedInk
<1> QED BY <1>1, <1>2, <1>5, NoFlight DEF Promise!Submit

(* A deferred update leaves the ink to the drain, which brings its page.   *)
LEMMA DeferredInks ==
  ASSUME InkInv, Usable, NEW mode \in RefreshMode, NEW turnOff \in BOOLEAN, NEW s \in Outcome,
         IntactUpdate(mode, turnOff, s) \/ ShadowedUpdate(mode, turnOff, s)
  PROVE  Promise!Submit /\ InFlight(panel', shown')
<1>0. TypeOK /\ awake /\ frameBuffer0 \in Image
  BY UsableBlock DEF InkInv, ScreenInv, HoldInv, Usable
<1>1. /\ \E prev : panel' = DisplayStart(Drained(s), frameBuffer0, prev, mode, turnOff)
      /\ shown' = frameBuffer0
  BY DEF IntactUpdate, ShadowedUpdate
<1>2. Turns(panel, Drained(s), shown, {}) /\ Drained(s) \in DriverState /\ Idle(Drained(s))
  BY <1>0, DrainedTurns
<1>3. panel'.glass = Drained(s).glass /\ StaysStuck(Drained(s), panel') /\ InFlight(panel', frameBuffer0)
  BY <1>0, <1>1, <1>2, StartGlass
<1>4. Turns(Drained(s), panel', shown', {})
  BY <1>3, QuietTurns DEF StaysStuck
<1>5. Promise!Inked({})
  BY <1>2, <1>3, <1>4, PromisedInk
<1> QED BY <1>0, <1>1, <1>3, <1>5 DEF Promise!Submit

(* A windowed update inks the page with the window in it.                  *)
LEMMA WindowedInks ==
  ASSUME HostMay = {}, InkInv, ScreenInv', Usable, NEW win, NEW turnOff \in BOOLEAN,
         NEW s \in Outcome, NEW o \in Outcome, WindowedUpdate(win, turnOff, s, o)
  PROVE  Promise!Submit /\ InFlight(panel', shown')
<1> DEFINE d0 == Drained(s)
<1>0. awake /\ ScreenInv /\ frameBuffer0 \in Image /\ NoFrame \in Image \cup {NoFrame}
  BY UsableBlock DEF InkInv, ScreenInv, HoldInv, Usable
<1>1. /\ panel' = DisplayWindow(d0, frameBuffer0, NoFrame, win, turnOff, o)
      /\ shown' = (IF Promotes(d0) \/ shown = NoFrame THEN frameBuffer0 ELSE Patch(shown, frameBuffer0, win))
      /\ Overlooked(stale.bw) /\ ~refreshPending'
  BY DEF WindowedUpdate, AfterDrain
<1>2. ~Promotes(d0) => shown \in Image /\ d0.bw = shown
  BY <1>0, <1>1, WindowBase
<1>3. Turns(panel, d0, shown, {}) /\ d0 \in DriverState
  BY <1>0, DrainedTurns
<1> HIDE DEF d0
<1>4. shown' = IF Promotes(d0) THEN frameBuffer0 ELSE Patch(shown, frameBuffer0, win)
  BY <1>1, <1>2, FrameAssumption
<1>5. shown' \in Image
  BY <1>0, <1>2, <1>4, PatchType
<1>6. Turns(d0, panel', shown', {}) /\ StaysStuck(d0, panel')
  BY <1>0, <1>1, <1>2, <1>3, <1>4, WindowTurns
<1>7. Promise!Inked({})
  BY <1>3, <1>6, PromisedInk
<1> QED BY <1>1, <1>5, <1>7, NoFlight DEF Promise!Submit

(* The base of a gray page inks the page, once or twice.                   *)
LEMMA BaseInks ==
  ASSUME InkInv, ScreenInv', NEW mode \in RefreshMode, NEW turnOff \in BOOLEAN,
         NEW s \in Outcome, NEW o \in Outcome, DisplayGrayscaleBase(mode, turnOff, s, o)
  PROVE  Promise!Submit /\ InFlight(panel', shown')
<1> DEFINE d1 == Display(Drained(s), frameBuffer0, NoFrame, "HALF", turnOff, o)
           d0 == IF inversionDirty THEN d1 ELSE Drained(s)
<1>0. Usable /\ awake /\ frameBuffer0 \in Image /\ NoFrame \in Image \cup {NoFrame} /\ "HALF" \in RefreshMode
  BY UsableBlock, Modes DEF InkInv, ScreenInv, HoldInv, DisplayGrayscaleBase, Usable
<1>1. CASE inverted
  BY <1>0, <1>1, BlockingInks DEF DisplayGrayscaleBase
<1>2. CASE ~inverted
  <2>1. Turns(panel, Drained(s), shown, {}) /\ Drained(s) \in DriverState
    BY <1>0, DrainedTurns
  <2>2. d1 \in DriverState /\ Turns(Drained(s), d1, frameBuffer0, {}) /\ StaysStuck(Drained(s), d1)
    BY <1>0, <2>1, DisplayType, DisplayTurns
  <2>3. Turns(Drained(s), Drained(s), frameBuffer0, {}) /\ StaysStuck(Drained(s), Drained(s))
    BY QuietTurns
  <2>4. /\ panel' = Display(d0, frameBuffer0, NoFrame, mode, turnOff, o)
        /\ shown' = frameBuffer0 /\ ~refreshPending'
    BY <1>2 DEF DisplayGrayscaleBase, AfterDrain
  <2> HIDE DEF d1
  <2>5. d0 \in DriverState /\ Turns(Drained(s), d0, frameBuffer0, {}) /\ StaysStuck(Drained(s), d0)
    BY <2>1, <2>2, <2>3
  <2> HIDE DEF d0
  <2>6. Turns(d0, panel', frameBuffer0, {}) /\ StaysStuck(d0, panel')
    BY <1>0, <2>4, <2>5, DisplayTurns
  <2>7. Turns(Drained(s), panel', shown', {}) /\ StaysStuck(Drained(s), panel')
    BY <2>4, <2>5, <2>6, TurnsTwice
  <2>8. Promise!Inked({})
    BY <2>1, <2>7, PromisedInk
  <2> QED BY <1>0, <2>4, <2>8, NoFlight DEF Promise!Submit
<1> QED BY <1>1, <1>2

(* A handler that leaves the panel as it is, or drains it, or drains it    *)
(* and then makes a call that inks nothing.                                *)
LEMMA StillInks ==
  ASSUME InkInv, panel' = panel, shown' = shown
  PROVE  Promise!Settle /\ InFlight(panel', shown')
  BY DEF InkInv, Promise!Settle, Promise!Inked

LEMMA DrainInks ==
  ASSUME InkInv, ScreenInv', awake, NEW s \in Outcome, ~refreshPending', shown' = shown,
         panel'.glass = Drained(s).glass, panel'.wave = Drained(s).wave
  PROVE  Promise!Settle /\ InFlight(panel', shown')
<1>1. Turns(panel, Drained(s), shown, {})
  BY DrainedTurns
<1>2. Turns(Drained(s), panel', shown, {}) /\ StaysStuck(Drained(s), panel')
  BY QuietTurns
<1>3. Promise!Inked({})
  BY <1>1, <1>2, PromisedInk
<1> QED BY <1>3, NoFlight DEF Promise!Settle

(* The drains, and the calls that write a plane once they have drained.    *)
LEMMA QuietInks ==
  ASSUME InkInv, ScreenInv', NEW s \in Outcome,
         \/ SyncPendingAsync(s) \/ SetInverted(s) \/ ReleaseBuffers(s) \/ LendBuildStorage(s)
         \/ CleanupGrayscaleBuffers(s)
         \/ \E lsb, msb \in Image : CopyGrayscaleBuffers(lsb, msb, s)
  PROVE  Promise!Settle /\ InFlight(panel', shown')
<1> DEFINE d0 == Drained(s)
<1>0. TypeOK /\ PanelInv /\ d0 \in DriverState
  BY DrainedType DEF InkInv, ScreenInv, HoldInv
<1>1. awake /\ ~refreshPending' /\ shown' = shown
  BY <1>0 DEF SyncPendingAsync, SetInverted, ReleaseBuffers, LendBuildStorage, CleanupGrayscaleBuffers,
              CopyGrayscaleBuffers, Usable, AfterDrain, PanelInv
<1>2. \/ panel' = d0
      \/ \E lsb, msb \in Image : panel' \in {CopyGrayscale(d0, lsb, msb), CleanupGrayscale(d0, lsb)}
  <2>1. CASE SyncPendingAsync(s) \/ SetInverted(s) \/ ReleaseBuffers(s) \/ LendBuildStorage(s)
    BY <2>1 DEF SyncPendingAsync, SetInverted, ReleaseBuffers, LendBuildStorage, AfterDrain
  <2>2. CASE CleanupGrayscaleBuffers(s)
    <3>1. shown \in Image
      BY <1>0, <2>2 DEF TypeOK, CleanupGrayscaleBuffers
    <3>2. panel' = (IF inverted THEN d0 ELSE CleanupGrayscale(d0, shown))
      BY <2>2 DEF CleanupGrayscaleBuffers, AfterDrain
    <3> HIDE DEF d0
    <3> QED BY <3>1, <3>2
  <2>3. CASE \E lsb, msb \in Image : CopyGrayscaleBuffers(lsb, msb, s)
    <3>1. PICK lsb \in Image, msb \in Image : CopyGrayscaleBuffers(lsb, msb, s)
      BY <2>3
    <3>2. panel' = CopyGrayscale(d0, lsb, msb)
      BY <3>1 DEF CopyGrayscaleBuffers, AfterDrain
    <3> HIDE DEF d0
    <3> QED BY <3>2
  <2> QED BY <2>1, <2>2, <2>3
<1> HIDE DEF d0
<1>3. panel'.glass = d0.glass /\ panel'.wave = d0.wave
  BY <1>0, <1>2, RamWriteGlass
<1> QED BY <1>1, <1>3, DrainInks DEF d0

(* The overlay inks gray, the factory bank its own picture.                *)
LEMMA GrayInks ==
  ASSUME InkInv, ScreenInv', NEW turnOff \in BOOLEAN, NEW factory \in BOOLEAN,
         NEW s \in Outcome, NEW o \in Outcome, DisplayGrayBuffer(turnOff, factory, s, o)
  PROVE  (Promise!Overlay \/ Promise!Withdraw) /\ InFlight(panel', shown')
<1> DEFINE more == {IF factory THEN "F" ELSE "G"}
<1>1. /\ awake /\ ~refreshPending'
      /\ panel' = DisplayGray(Drained(s), turnOff, factory, o)
      /\ shown' = (IF factory THEN NoFrame ELSE shown)
  BY DEF DisplayGrayBuffer, AfterDrain, Usable
<1>2. Turns(panel, Drained(s), shown, {}) /\ Drained(s) \in DriverState
  BY <1>1, DrainedTurns
<1>3. Turns(Drained(s), panel', NoFrame, more) /\ StaysStuck(Drained(s), panel')
  BY <1>1, <1>2, GrayTurns
<1> HIDE DEF more
<1>4. Promise!Inked(more)
  BY <1>2, <1>3, PromisedInk
<1>5. CASE factory
  <2>1. more = {"F"}
    BY <1>5 DEF more
  <2> QED BY <1>1, <1>4, <1>5, <2>1, NoFlight DEF Promise!Withdraw
<1>6. CASE ~factory
  <2>1. more = {"G"}
    BY <1>6 DEF more
  <2> QED BY <1>1, <1>4, <1>6, <2>1, NoFlight DEF Promise!Overlay
<1> QED BY <1>1, <1>5, <1>6, NoFlight

(* Sleep and reset withdraw the page: what they ink is what was in flight, *)
(* or unknown on a panel that has not settled.                             *)
LEMMA RebootInks ==
  ASSUME ~BeginMayHang, InkInv, ScreenInv'
  PROVE  /\ Boot => Promise!Withdraw /\ InFlight(panel', shown')
         /\ \A s, o \in Outcome : DeepSleep(s, o) => Promise!Withdraw /\ InFlight(panel', shown')
<1>1. ASSUME Boot PROVE Promise!Withdraw /\ InFlight(panel', shown')
  <2>1. panel \in DriverState /\ panel.wave \in {"none", "fast", "clean", "stuck"}
    BY DEF InkInv, ScreenInv, PanelInv, PanelOK
  <2>2. PICK glass \in GlassAfterReset : panel' = BeginController(glass)
    BY <1>1 DEF Boot, Begun
  <2>3. panel'.glass = glass /\ panel'.needsInitialFull
    BY <2>2 DEF BeginController
  <2>4. ~Settled' /\ shown' = NoFrame /\ ~refreshPending'
    BY <1>1, <2>3 DEF Settled, Boot, ForgetRam
  <2>5. \A r \in Region : glass[r] \in {panel.glass[r], Developed(panel)[r], "?"}
    BY <2>2 DEF GlassAfterReset
  <2>6. \A r \in Region : Developed(panel)[r] \in {panel.glass[r]} \cup InkOf(shown, r)
    BY <2>1, DevelopsFrame DEF InkInv
  <2>7. \A r \in Region : InkOf(shown, r) = Promise!Of(shown, r)
    BY DEF InkOf, Promise!Of
  <2>8. Promise!Inked({"F"})
    BY <2>3, <2>4, <2>5, <2>6, <2>7 DEF Promise!Inked
  <2> QED BY <2>4, <2>8, NoFlight DEF Promise!Withdraw
<1>2. ASSUME NEW s \in Outcome, NEW o \in Outcome, DeepSleep(s, o)
      PROVE  Promise!Withdraw /\ InFlight(panel', shown')
  <2>1. awake /\ panel' = PowerOffController(Drained(s), o) /\ shown' = NoFrame /\ ~refreshPending'
    BY <1>2 DEF DeepSleep, ForgetRam
  <2>2. Turns(panel, Drained(s), shown, {}) /\ Drained(s) \in DriverState
    BY <2>1, DrainedTurns
  <2>3. panel'.glass = Drained(s).glass /\ panel'.wave \in {Drained(s).wave, "stuck"}
    BY <2>1, <2>2, PowerOffGlass
  <2>4. Turns(Drained(s), panel', shown, {"F"}) /\ StaysStuck(Drained(s), panel')
    BY <2>3, QuietTurns
  <2>5. Promise!Inked({"F"})
    BY <2>2, <2>4, PromisedInk
  <2> QED BY <2>1, <2>5, NoFlight DEF Promise!Withdraw
<1> QED BY <1>1, <1>2

(* A promotion asked for and a late BUSY release ink nothing.              *)
LEMMA FlagInks ==
  ASSUME InkInv, ScreenInv', RequestResync \/ BusyReleases
  PROVE  Promise!Settle /\ InFlight(panel', shown')
<1>0. panel \in DriverState
  BY DEF InkInv, ScreenInv, HoldInv, TypeOK
<1>1. shown' = shown /\ panel'.glass = panel.glass /\ InFlight(panel', shown')
  <2>1. CASE RequestResync
    <3>1. panel' = RequestDriverResync(panel) /\ shown' = shown
      BY <2>1 DEF RequestResync
    <3>2. panel'.glass = panel.glass /\ panel'.wave = panel.wave /\ panel'.bw = panel.bw
      BY <1>0, <3>1 DEF RequestDriverResync, DriverState
    <3> QED BY <3>1, <3>2 DEF InkInv, InFlight
  <2>2. CASE BusyReleases
    <3>1. panel' = [panel EXCEPT !.wave = "none"] /\ shown' = shown
      BY <2>2 DEF BusyReleases
    <3>2. panel'.glass = panel.glass /\ panel'.wave = "none"
      BY <1>0, <3>1 DEF DriverState
    <3> QED BY <3>1, <3>2 DEF InFlight
  <2> QED BY <2>1, <2>2
<1> QED BY <1>1 DEF Promise!Settle, Promise!Inked

(* Every step of the facade keeps the promise, with what is in flight.     *)
LEMMA InkNext ==
  ASSUME HostMay = {}, ~BeginMayHang, InkInv, [Next]_vars
  PROVE  InkInv' /\ [Promise!Next]_(Promise!display)
<1> USE HostAssumption
<1>0. ScreenInv' /\ TypeOK
  BY ScreenInvNext DEF InkInv, ScreenInv, HoldInv
<1>s. Promise!Shown'
  <2> SUFFICES ASSUME shown' # NoFrame, Settled'
               PROVE  \A r \in Region : panel'.glass[r] \in {shown'[r], "G"}
    BY DEF Promise!Shown
  <2>1. PanelOK(panel', shown')
    BY <1>0 DEF ScreenInv, PanelInv
  <2>2. panel'.wave = "none" /\ ~panel'.needsInitialFull
    BY DEF Settled, IsBusy
  <2> QED BY <2>1, <2>2 DEF PanelOK, Owes
<1> DEFINE Kept == (Promise!Submit \/ Promise!Settle \/ Promise!Overlay \/ Promise!Withdraw)
                     /\ InFlight(panel', shown')
<1>d. Kept => InkInv' /\ [Promise!Next]_(Promise!display)
  BY <1>0, <1>s DEF InkInv, Promise!Next
<1>1. ASSUME NEW mode \in RefreshMode, NEW off \in TurnOff, NEW s \in Answer, NEW o \in Answer,
             \/ DisplayBuffer(mode, off, s, o)
             \/ \E e : DisplayBufferAsync(e, mode, off, s, o) \/ TriggerDisplay(e, mode, off, s, o)
      PROVE  Kept
  <2>1. off \in BOOLEAN /\ s \in Outcome /\ o \in Outcome
    OBVIOUS
  <2>2. /\ Usable
        /\ BlockingUpdate(mode, off, s, o) \/ ShadowedUpdate(mode, off, s) \/ IntactUpdate(mode, off, s)
    BY <1>0, <1>1, EntryPoints
  <2> QED BY <1>0, <2>1, <2>2, BlockingInks, DeferredInks
<1>2. ASSUME NEW mode \in RefreshMode, NEW off \in TurnOff, NEW s \in Answer, NEW o \in Answer,
             DisplayGrayscaleBase(mode, off, s, o)
      PROVE  Kept
  <2>1. off \in BOOLEAN /\ s \in Outcome /\ o \in Outcome
    OBVIOUS
  <2> QED BY <1>0, <1>2, <2>1, BaseInks
<1>3. ASSUME NEW win \in Window, NEW off \in TurnOff, NEW s \in Answer, NEW o \in Answer,
             DisplayWindowed(win, off, s, o)
      PROVE  Kept
  <2>1. off \in BOOLEAN /\ s \in Outcome /\ o \in Outcome /\ "FAST" \in RefreshMode
    BY Modes
  <2>2. Usable /\ (BlockingUpdate("FAST", off, s, o) \/ WindowedUpdate(win, off, s, o))
    BY <1>3 DEF DisplayWindowed
  <2> QED BY <1>0, <2>1, <2>2, BlockingInks, WindowedInks
<1>4. ASSUME NEW s \in Answer,
             \/ SyncPendingAsync(s) \/ SetInverted(s) \/ ReleaseBuffers(s) \/ LendBuildStorage(s)
             \/ CleanupGrayscaleBuffers(s)
      PROVE  Kept
  <2>1. s \in Outcome
    OBVIOUS
  <2> QED BY <1>0, <1>4, <2>1, QuietInks
<1>5. ASSUME panel' = panel, shown' = shown PROVE Kept
  BY <1>5, StillInks
<1>6. ASSUME RequestResync \/ BusyReleases PROVE Kept
  BY <1>0, <1>6, FlagInks
<1>7. ASSUME NEW lsb \in GrayPlane, NEW msb \in GrayPlane, NEW s \in Answer,
             CopyGrayscaleBuffers(lsb, msb, s)
      PROVE  Kept
  <2>1. lsb \in Image /\ msb \in Image /\ s \in Outcome
    OBVIOUS
  <2> QED BY <1>0, <1>7, <2>1, QuietInks
<1>8. ASSUME NEW off \in TurnOff, NEW factory \in BOOLEAN, NEW s \in Answer, NEW o \in Answer,
             DisplayGrayBuffer(off, factory, s, o)
      PROVE  Kept
  <2>1. off \in BOOLEAN /\ s \in Outcome /\ o \in Outcome
    OBVIOUS
  <2> QED BY <1>0, <1>8, <2>1, GrayInks
<1>9. ASSUME NEW s \in Answer, NEW o \in Answer, DeepSleep(s, o) PROVE Kept
  <2>1. s \in Outcome /\ o \in Outcome
    OBVIOUS
  <2> QED BY <1>0, <1>9, <2>1, RebootInks
<1>10. Boot => Kept
  BY <1>0, RebootInks
<1> HIDE DEF Kept
<1>11. (\E img \in Image : Draw(img)) \/ ReallocBuffers \/ ReturnBuildStorage \/ SyncRedRamFromFrameBuffer
         => Kept
  BY <1>5 DEF Draw, ReallocBuffers, ReturnBuildStorage, SyncRedRamFromFrameBuffer
<1>12. UNCHANGED vars => Kept
  BY <1>5 DEF vars
<1>13. Next => Kept
  BY <1>1, <1>2, <1>3, <1>4, <1>6, <1>7, <1>8, <1>9, <1>10, <1>11 DEF Next
<1> QED BY <1>d, <1>12, <1>13

(* The single-buffer facade implements the same display: over the shadow,  *)
(* the retained RED plane, windows, overlays, loans, inversion, waits that *)
(* fail and resets, no region is ever inked with anything but the page     *)
(* submitted or the one pending before it, and a settled panel shows it.   *)
THEOREM FacadeImplementsPageDisplay ==
  ASSUME HostMay = {}, ~BeginMayHang
  PROVE  Spec => ImplementsPageDisplay
<1>1. Init => InkInv /\ Promise!Init
  <2> SUFFICES ASSUME Init PROVE InkInv /\ Promise!Init
    OBVIOUS
  <2>1. ScreenInv
    BY ScreenInvInit
  <2>2. PICK glass \in [Region -> Ink] : panel = BeginController(glass)
    BY DEF Init, Begun
  <2>3. panel.glass = glass /\ panel.wave = "none" /\ panel.needsInitialFull
    BY <2>2 DEF BeginController
  <2> QED BY <2>1, <2>3 DEF Init, InkInv, InFlight, Promise!Init, Settled
<1>2. InkInv /\ [Next]_vars => InkInv' /\ [Promise!Next]_(Promise!display)
  BY InkNext
<1> QED BY <1>1, <1>2, PTL DEF Spec, ImplementsPageDisplay, Promise!Spec

=============================================================================
