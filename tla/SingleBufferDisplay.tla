-------------------------- MODULE SingleBufferDisplay --------------------------
(***************************************************************************)
(* The display facade (FreeInkDisplay.cpp) of a single-buffer build        *)
(* (EINK_DISPLAY_SINGLE_BUFFER_MODE) driving an X4-class panel.  The RED   *)
(* plane is the differential baseline of blocking refreshes; a redraw-safe *)
(* deferred refresh keeps its own in a lazily allocated shadow.  Storage   *)
(* may be lent to a build, or released with the shadow.                    *)
(*                                                                         *)
(* As in DualBufferDisplay, one action is one entry point and "stale"      *)
(* records why a plane may not hold the frame on the glass.  Draw keeps    *)
(* the rule of the shadow-free entry points: the framebuffer is left alone *)
(* while a refresh that promised so is pending.                            *)
(***************************************************************************)
EXTENDS Ssd1677

CONSTANTS GrayPlane, Window, TurnOff, Answer, HostMay

Reason == {"shadow", "async", "gray", "lsb"}
Freshness == Reason \cup {"fresh", "lit"}

ASSUME HostAssumption ==
  /\ GrayPlane \subseteq Image /\ Window \subseteq SUBSET Region
  /\ TurnOff \subseteq BOOLEAN /\ Answer \subseteq Outcome
  /\ HostMay \subseteq Reason

VARIABLES
  frameBuffer0,              \* the one block; NoFrame when freed
  buildLent,
  asyncShadow, shadowValid,  \* the shadow block; NoFrame until allocated
  refreshPending, pendingFrame,
  redRamSynced, inverted, inversionDirty,
  panel, awake,
  shown, stale               \* history, as in DualBufferDisplay

flags == <<inverted, inversionDirty>>
vars  == <<frameBuffer0, buildLent, asyncShadow, shadowValid, refreshPending, pendingFrame,
           redRamSynced, flags, panel, awake, shown, stale>>

Fresh == [red |-> "fresh", bw |-> "fresh"]

(* Every flag, block and plane keeps its type; what a drain re-reads is    *)
(* the live block, the shadow or nothing.                                  *)
TypeOK ==
  /\ {frameBuffer0, asyncShadow, shown} \subseteq Image \cup {NoFrame}
  /\ {buildLent, shadowValid, refreshPending, redRamSynced, inverted, inversionDirty, awake} \subseteq BOOLEAN
  /\ pendingFrame \in {"none", "live", "shadow"}
  /\ panel \in DriverState
  /\ stale \in [red : Freshness, bw : Freshness]

-----------------------------------------------------------------------------
Usable == awake /\ frameBuffer0 # NoFrame /\ ~buildLent

Phys(img) == IF inverted THEN Invert(img) ELSE img

(* syncPendingAsync() *)
Drained(s) == IF refreshPending THEN DisplayFinish(panel, s) ELSE panel

AfterDrain(s, p) ==
  /\ refreshPending \/ s = "ok"
  /\ panel' = p
  /\ refreshPending' = FALSE
  /\ pendingFrame' = "none"

Overlooked(reason) == reason \in HostMay \cup {"fresh", "lit"}
DiffsAgainstRed(mode) == mode = "FAST" => Overlooked(stale.red)

(* displayBuffer() *)
BlockingUpdate(mode, turnOff, s, o) ==
  LET eff == IF inversionDirty THEN "HALF" ELSE mode
      fb  == Phys(frameBuffer0)
  IN /\ DiffsAgainstRed(eff)
     /\ AfterDrain(s, Display(Drained(s), fb, NoFrame, eff, turnOff, o))
     /\ shadowValid' = FALSE
     /\ inversionDirty' = FALSE
     /\ shown' = fb /\ stale' = Fresh
     /\ UNCHANGED <<frameBuffer0, buildLent, asyncShadow, inverted, awake>>

(* A deferred start against RED that promises the frame stays intact:      *)
(* triggerDisplay() and the shadow-free path of displayAsyncImpl().        *)
IntactUpdate(mode, turnOff, s) ==
  /\ DiffsAgainstRed(mode)
  /\ refreshPending \/ s = "ok"
  /\ panel' = DisplayStart(Drained(s), frameBuffer0, NoFrame, mode, turnOff)
  /\ refreshPending' = TRUE /\ pendingFrame' = "live"
  /\ shadowValid' = FALSE
  /\ shown' = frameBuffer0
  /\ stale' = [Fresh EXCEPT !.red = IF mode = "FAST" THEN "async" ELSE "fresh"]
  /\ UNCHANGED <<frameBuffer0, buildLent, asyncShadow, flags, awake>>

(* The redraw-safe path: the shadow is the baseline once it is valid.      *)
ShadowedUpdate(mode, turnOff, s) ==
  LET prev == IF shadowValid THEN asyncShadow ELSE NoFrame IN
  /\ shadowValid \/ DiffsAgainstRed(mode)
  /\ refreshPending \/ s = "ok"
  /\ panel' = DisplayStart(Drained(s), frameBuffer0, prev, mode, turnOff)
  /\ asyncShadow' = frameBuffer0 /\ shadowValid' = TRUE
  /\ refreshPending' = TRUE /\ pendingFrame' = "shadow"
  /\ shown' = frameBuffer0
  /\ stale' = [Fresh EXCEPT !.red = IF mode = "FAST" THEN "shadow" ELSE "fresh"]
  /\ UNCHANGED <<frameBuffer0, buildLent, flags, awake>>

-----------------------------------------------------------------------------
Init ==
  /\ frameBuffer0 = White /\ buildLent = FALSE
  /\ asyncShadow = NoFrame /\ shadowValid = FALSE
  /\ refreshPending = FALSE /\ pendingFrame = "none"
  /\ redRamSynced = FALSE /\ inverted = FALSE /\ inversionDirty = FALSE
  /\ panel \in Begun([Region -> Ink])
  /\ awake = TRUE
  /\ shown = NoFrame /\ stale = Fresh

ForgetRam ==
  /\ buildLent' = FALSE
  /\ asyncShadow' = NoFrame /\ shadowValid' = FALSE
  /\ refreshPending' = FALSE /\ pendingFrame' = "none"
  /\ redRamSynced' = FALSE /\ inverted' = FALSE /\ inversionDirty' = FALSE
  /\ shown' = NoFrame /\ stale' = Fresh

GlassAfterReset ==
  IF IsBusy(panel) THEN {panel.glass, Developed(panel), [r \in Region |-> "?"]} ELSE {panel.glass}

Boot ==
  /\ frameBuffer0' = White
  /\ ForgetRam
  /\ awake' = TRUE
  /\ panel' \in Begun(GlassAfterReset)

(* deepSleep(), and the host cutting its own power right after it.         *)
DeepSleep(s, o) ==
  /\ awake
  /\ refreshPending \/ s = "ok"
  /\ panel' = PowerOffController(Drained(s), o)
  /\ frameBuffer0' = NoFrame
  /\ ForgetRam
  /\ awake' = FALSE

BusyReleases ==
  /\ panel.wave = "stuck"
  /\ panel' = [panel EXCEPT !.wave = "none"]
  /\ UNCHANGED <<frameBuffer0, buildLent, asyncShadow, shadowValid, refreshPending, pendingFrame,
                 redRamSynced, flags, awake, shown, stale>>

-----------------------------------------------------------------------------
Draw(img) ==
  /\ Usable /\ pendingFrame # "live"
  /\ frameBuffer0' = img
  /\ UNCHANGED <<buildLent, asyncShadow, shadowValid, refreshPending, pendingFrame,
                 redRamSynced, flags, panel, awake, shown, stale>>

DisplayBuffer(mode, turnOff, s, o) ==
  Usable /\ BlockingUpdate(mode, turnOff, s, o) /\ redRamSynced' = TRUE

(* displayBufferAsync() and triggerDisplayAsync(): the shadow's allocation *)
(* may fail, and inverted output never defers.                             *)
DisplayBufferAsync(entry, mode, turnOff, s, o) ==
  /\ Usable
  /\ entry = "displayBufferAsync" => ~turnOff
  /\ \/ /\ inverted \/ inversionDirty \/ asyncShadow = NoFrame
        /\ BlockingUpdate(mode, turnOff, s, o)
        /\ redRamSynced' = (entry = "displayBufferAsync")
     \/ /\ ~inverted /\ ~inversionDirty /\ o = "ok"
        /\ ShadowedUpdate(mode, turnOff, s)
        /\ redRamSynced' = (entry = "displayBufferAsync" /\ redRamSynced)

(* displayBufferAsyncNoShadow() and triggerDisplay() *)
TriggerDisplay(entry, mode, turnOff, s, o) ==
  /\ Usable
  /\ entry = "displayBufferAsyncNoShadow" => ~turnOff
  /\ IF inverted \/ inversionDirty
     THEN BlockingUpdate(mode, turnOff, s, o) /\ redRamSynced' = TRUE
     ELSE /\ o = "ok"
          /\ IntactUpdate(mode, turnOff, s)
          /\ redRamSynced' = (entry = "displayBufferAsyncNoShadow" /\ redRamSynced)

SyncPendingAsync(s) ==
  /\ refreshPending
  /\ AfterDrain(s, Drained(s))
  /\ UNCHANGED <<frameBuffer0, buildLent, asyncShadow, shadowValid, redRamSynced, flags, awake,
                 shown, stale>>

SetInverted(s) ==
  /\ awake
  /\ AfterDrain(s, Drained(s))
  /\ inverted' = ~inverted /\ inversionDirty' = TRUE
  /\ shadowValid' = FALSE /\ redRamSynced' = FALSE
  /\ UNCHANGED <<frameBuffer0, buildLent, asyncShadow, awake, shown, stale>>

MutWindowedUpdate(win, turnOff, s, o) ==
  /\ DiffsAgainstRed("FAST") /\ Overlooked(stale.bw)
  /\ AfterDrain(s, DisplayWindow(Drained(s), frameBuffer0, NoFrame, win, turnOff, o))
  /\ shown' = IF shown = NoFrame THEN frameBuffer0 ELSE Patch(shown, frameBuffer0, win)
  /\ UNCHANGED <<frameBuffer0, buildLent, asyncShadow, shadowValid, redRamSynced, flags, awake, stale>>

WindowedUpdate(win, turnOff, s, o) ==
  LET d0       == Drained(s)
      absolute == Promotes(d0)
  IN /\ DiffsAgainstRed("FAST") /\ Overlooked(stale.bw)
     /\ AfterDrain(s, DisplayWindow(d0, frameBuffer0, NoFrame, win, turnOff, o))
     /\ shadowValid' = FALSE
     /\ shown' = IF absolute \/ shown = NoFrame THEN frameBuffer0 ELSE Patch(shown, frameBuffer0, win)
     /\ stale' = IF absolute THEN Fresh ELSE stale
     /\ UNCHANGED <<frameBuffer0, buildLent, asyncShadow, redRamSynced, flags, awake>>

DisplayWindowed(win, turnOff, s, o) ==
  /\ Usable
  /\ IF inverted \/ inversionDirty
     THEN BlockingUpdate("FAST", turnOff, s, o) /\ redRamSynced' = TRUE
     ELSE WindowedUpdate(win, turnOff, s, o)

(* displayGrayscaleBase(): a plain display against RED, after a repaint if *)
(* an inversion has just been undone; inverted output repaints only.       *)
DisplayGrayscaleBase(mode, turnOff, s, o) ==
  LET d0 == IF inversionDirty
            THEN Display(Drained(s), frameBuffer0, NoFrame, "HALF", turnOff, o)
            ELSE Drained(s)
  IN /\ Usable
     /\ IF inverted
        THEN BlockingUpdate(mode, turnOff, s, o) /\ redRamSynced' = TRUE
        ELSE /\ inversionDirty \/ DiffsAgainstRed(mode)
             /\ AfterDrain(s, Display(d0, frameBuffer0, NoFrame, mode, turnOff, o))
             /\ shadowValid' = FALSE
             /\ inversionDirty' = FALSE
             /\ redRamSynced' = (redRamSynced \/ inversionDirty)
             /\ shown' = frameBuffer0 /\ stale' = Fresh
             /\ UNCHANGED <<frameBuffer0, buildLent, asyncShadow, inverted, awake>>

-----------------------------------------------------------------------------
ReleaseBuffers(s) ==
  /\ awake /\ ~buildLent
  /\ AfterDrain(s, Drained(s))
  /\ frameBuffer0' = NoFrame
  /\ asyncShadow' = NoFrame /\ shadowValid' = FALSE
  /\ UNCHANGED <<buildLent, redRamSynced, flags, awake, shown, stale>>

ReallocBuffers ==
  /\ awake /\ frameBuffer0 = NoFrame
  /\ frameBuffer0' = White
  /\ UNCHANGED <<buildLent, asyncShadow, shadowValid, refreshPending, pendingFrame, redRamSynced,
                 flags, panel, awake, shown, stale>>

MutLendBuildStorage(s) ==
  /\ Usable /\ s = "ok"
  /\ buildLent' = TRUE /\ shadowValid' = FALSE
  /\ UNCHANGED <<frameBuffer0, asyncShadow, refreshPending, pendingFrame, redRamSynced, flags, panel,
                 awake, shown, stale>>

LendBuildStorage(s) ==
  /\ Usable
  /\ AfterDrain(s, Drained(s))
  /\ buildLent' = TRUE /\ shadowValid' = FALSE
  /\ UNCHANGED <<frameBuffer0, asyncShadow, redRamSynced, flags, awake, shown, stale>>

ReturnBuildStorage ==
  /\ awake /\ buildLent
  /\ buildLent' = FALSE /\ shadowValid' = FALSE
  /\ frameBuffer0' = White
  /\ UNCHANGED <<asyncShadow, refreshPending, pendingFrame, redRamSynced, flags, panel, awake,
                 shown, stale>>

(* In this build the call only sets the advisory flag.                     *)
SyncRedRamFromFrameBuffer ==
  /\ awake
  /\ redRamSynced' = TRUE
  /\ UNCHANGED <<frameBuffer0, buildLent, asyncShadow, shadowValid, refreshPending, pendingFrame,
                 flags, panel, awake, shown, stale>>

-----------------------------------------------------------------------------
CopyGrayscaleBuffers(lsb, msb, s) ==
  /\ Usable /\ ~inverted /\ shown # NoFrame
  /\ AfterDrain(s, CopyGrayscale(Drained(s), lsb, msb))
  /\ stale' = [red |-> "gray", bw |-> "gray"]
  /\ UNCHANGED <<frameBuffer0, buildLent, asyncShadow, shadowValid, redRamSynced, flags, awake, shown>>

DisplayGrayBuffer(turnOff, factoryMode, s, o) ==
  /\ Usable /\ ~inverted
  /\ stale.bw = "gray"                       \* the planes have been copied
  /\ AfterDrain(s, DisplayGray(Drained(s), turnOff, factoryMode, o))
  /\ shadowValid' = FALSE /\ redRamSynced' = FALSE
  /\ shown' = IF factoryMode THEN NoFrame ELSE shown
  /\ stale' = [red |-> "lit", bw |-> "lit"]
  /\ UNCHANGED <<frameBuffer0, buildLent, asyncShadow, flags, awake>>

(* cleanupGrayscaleBuffers() with the page on the glass.                   *)
CleanupGrayscaleBuffers(s) ==
  /\ Usable /\ shown # NoFrame /\ ~inversionDirty
  /\ AfterDrain(s, IF inverted THEN Drained(s) ELSE CleanupGrayscale(Drained(s), shown))
  /\ frameBuffer0' = Phys(shown)
  /\ stale' = IF inverted THEN stale
              ELSE [red |-> "fresh", bw |-> IF stale.bw \in {"gray", "lit"} THEN "lsb" ELSE stale.bw]
  /\ UNCHANGED <<buildLent, asyncShadow, shadowValid, redRamSynced, flags, awake, shown>>

RequestResync ==
  /\ awake
  /\ panel' = RequestDriverResync(panel)
  /\ UNCHANGED <<frameBuffer0, buildLent, asyncShadow, shadowValid, refreshPending, pendingFrame,
                 redRamSynced, flags, awake, shown, stale>>

-----------------------------------------------------------------------------
Next ==
  \/ \E img \in Image : Draw(img)
  \/ \E mode \in RefreshMode, off \in TurnOff, s, o \in Answer :
       \/ DisplayBuffer(mode, off, s, o)
       \/ \E e \in {"displayBufferAsync", "triggerDisplayAsync"} : DisplayBufferAsync(e, mode, off, s, o)
       \/ \E e \in {"displayBufferAsyncNoShadow", "triggerDisplay"} : TriggerDisplay(e, mode, off, s, o)
       \/ DisplayGrayscaleBase(mode, off, s, o)
  \/ \E win \in Window, off \in TurnOff, s, o \in Answer : DisplayWindowed(win, off, s, o)
  \/ \E s \in Answer : \/ SyncPendingAsync(s)
                       \/ SetInverted(s)
                       \/ ReleaseBuffers(s)
                       \/ LendBuildStorage(s)
                       \/ CleanupGrayscaleBuffers(s)
  \/ ReallocBuffers
  \/ ReturnBuildStorage
  \/ SyncRedRamFromFrameBuffer
  \/ \E lsb, msb \in GrayPlane, s \in Answer : CopyGrayscaleBuffers(lsb, msb, s)
  \/ \E off \in TurnOff, factory \in BOOLEAN, s, o \in Answer : DisplayGrayBuffer(off, factory, s, o)
  \/ RequestResync
  \/ \E s, o \in Answer : DeepSleep(s, o)
  \/ Boot
  \/ BusyReleases

Spec == Init /\ [][Next]_vars

-----------------------------------------------------------------------------
(* Once every refresh has settled, the glass shows exactly the frame last  *)
(* submitted (overlay gray aside): the shadow, the retained RED plane and  *)
(* the promotions after gray, boot and failed waits leave no older pixel.  *)
NoGhost ==
  shown # NoFrame /\ ~IsBusy(panel) /\ ~refreshPending /\ ~panel.needsInitialFull
    => \A r \in Region : panel.glass[r] \in {shown[r], "G"}

(* A valid shadow is the frame on the glass: every path that displays,     *)
(* lends or frees by another route has invalidated it.                     *)
ShadowIsScreen == shadowValid => asyncShadow # NoFrame /\ asyncShadow = shown

(* What displayFinish() re-reads is the frame that was submitted: neither  *)
(* the block nor the shadow it points at is freed, lent or rewritten       *)
(* before the drain.                                                       *)
PendingFrameIntact ==
  refreshPending => shown = (IF pendingFrame = "shadow" THEN asyncShadow ELSE frameBuffer0)
                    /\ shown # NoFrame /\ ~buildLent

(* isRedRamSynced(): the RED plane holds the frame last displayed.         *)
RedRamSyncedTruth ==
  redRamSynced /\ shown # NoFrame /\ ~refreshPending /\ ~panel.needsInitialFull => panel.red = shown

Settled == ~IsBusy(panel) /\ ~refreshPending /\ ~panel.needsInitialFull
Promise == INSTANCE PageDisplay WITH
             Page <- Image, NoPage <- NoFrame, page <- shown, glass <- panel.glass, settled <- Settled

(* The facade keeps the promise of a display: a region changes its ink to  *)
(* that of the page submitted, or of the one whose refresh was pending,    *)
(* and to nothing older, and a settled panel shows the page.               *)
ImplementsPageDisplay == Promise!Spec
=============================================================================
