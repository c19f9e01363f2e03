--------------------------- MODULE DualBufferDisplay ---------------------------
(***************************************************************************)
(* The display facade (FreeInkDisplay.cpp) of a dual-buffer build driving  *)
(* an X4-class panel.  Two heap blocks hold the frame being drawn and the  *)
(* frame last displayed; the second may be freed, or lent to the host, and *)
(* then the controller's RED plane is the only copy of what is on the      *)
(* glass.  Refreshes may be deferred; BUSY may never drop; output may be   *)
(* inverted; the chip may reset at any moment.                             *)
(*                                                                         *)
(* One action per entry point: a handler's drain of the pending refresh,   *)
(* its driver calls and its buffer bookkeeping are one step, because the   *)
(* entry points run on the host's render task.  Text routing, the strip    *)
(* API, displayGrayscaleBase and the advisory _redRamSynced flag (see      *)
(* SingleBufferDisplay) are not in this module.                            *)
(*                                                                         *)
(* The host is trusted to keep the documented rules on FAST refreshes:     *)
(* "stale" records, per store, why its contents may not be the frame on    *)
(* the glass, and a FAST request is made only when the store it would diff *)
(* against is fresh or stale for a reason in HostMay.                      *)
(***************************************************************************)
EXTENDS Ssd1677, Integers

CONSTANTS
  GrayPlane,   \* the mask planes the host copies
  Window,      \* the windows the host updates
  TurnOff,     \* whether its refreshes ask for the rails to drop
  Answer,      \* how BUSY may answer a wait
  HostMay      \* the staleness reasons the host overlooks

Reason == {"turn", "async", "gray", "window", "copied", "realloc", "asserted", "lsb"}

(* After an overlay or factory waveform the driver promotes the next       *)
(* update itself: "lit" planes bind the host to nothing.                   *)
Freshness == Reason \cup {"fresh", "lit"}

ASSUME HostAssumption ==
  /\ GrayPlane \subseteq Image /\ Window \subseteq SUBSET Region
  /\ TurnOff \subseteq BOOLEAN /\ Answer \subseteq Outcome
  /\ HostMay \subseteq Reason

VARIABLES
  mem,                       \* the two heap blocks; NoFrame when freed
  frameBuffer, frameBufferActive, secondaryLent,    \* a block, or Null
  refreshPending, redBaselineAuthoritative, singleBufferFastDiff,
  inverted, inversionDirty,
  panel,                     \* the driver and its panel
  awake,
  \* history: the frame last submitted, as inked; whether the pending refresh
  \* left it in the secondary; why each store may not hold it
  shown, held, stale

buffers == <<mem, frameBuffer, frameBufferActive, secondaryLent>>
flags   == <<singleBufferFastDiff, inverted, inversionDirty>>
vars    == <<buffers, refreshPending, redBaselineAuthoritative, flags, panel, awake,
             shown, held, stale>>

Slot == {0, 1}
Null == -1
Fresh == [red |-> "fresh", active |-> "fresh", bw |-> "fresh"]

(* Every flag, block, role and plane keeps its type; a block is a frame or *)
(* free, a role a block or none.                                           *)
TypeOK ==
  /\ mem \in [Slot -> Image \cup {NoFrame}]
  /\ {frameBuffer, frameBufferActive, secondaryLent} \subseteq Slot \cup {Null}
  /\ {refreshPending, redBaselineAuthoritative, singleBufferFastDiff,
      inverted, inversionDirty, awake, held} \subseteq BOOLEAN
  /\ panel \in DriverState
  /\ shown \in Image \cup {NoFrame}
  /\ stale \in [red : Freshness, active : Freshness, bw : Freshness]

-----------------------------------------------------------------------------
(* What the entry points share.                                            *)

Usable == awake /\ frameBuffer # Null /\ frameBuffer # frameBufferActive

Frame(slot) == IF slot = Null THEN NoFrame ELSE mem[slot]

(* invertBytes() around a driver call: the controller sees the logical     *)
(* frame complemented.                                                     *)
Phys(img) == IF img # NoFrame /\ inverted THEN Invert(img) ELSE img

(* syncPendingAsync(); s is how BUSY answers it.                           *)
Drained(s) == IF refreshPending THEN DisplayFinish(panel, s) ELSE panel

(* A handler that drains the pending refresh and then makes the panel p.   *)
AfterDrain(s, p) ==
  /\ refreshPending \/ s = "ok"
  /\ panel' = p
  /\ refreshPending' = FALSE
  /\ held' = FALSE

MutSwapBuffers == frameBuffer' = frameBufferActive /\ frameBufferActive' = frameBuffer

SwapBuffers ==
  IF frameBufferActive = Null
  THEN UNCHANGED <<frameBuffer, frameBufferActive>>
  ELSE /\ frameBuffer' = frameBufferActive
       /\ frameBufferActive' = frameBuffer

ResolveReleasedMode(mode) ==
  IF mode = "FAST" /\ frameBufferActive = Null /\ ~singleBufferFastDiff THEN "HALF" ELSE mode

MutPrevFrameFor(mode) == Frame(frameBufferActive)

(* consumePrevFrameFor(): the one-shot that distrusts the secondary.       *)
PrevFrameFor(mode) ==
  IF redBaselineAuthoritative /\ mode = "FAST" THEN NoFrame ELSE Frame(frameBufferActive)

(* The host's rule for a FAST request: it knows which store the facade     *)
(* documents as the baseline.                                              *)
Overlooked(reason) == reason \in HostMay \cup {"fresh", "lit"}
HostTrustsBaseline ==
  Overlooked(IF frameBufferActive # Null /\ ~redBaselineAuthoritative THEN stale.active ELSE stale.red)

(* What RED holds once an update has been submitted: a host copy of the    *)
(* frame before, the retained plane, or the frame itself.                  *)
RedAfter(mode, prev, unsynced) ==
  [Fresh EXCEPT !.red = IF mode # "FAST" THEN "fresh"
                        ELSE IF prev # NoFrame THEN "turn" ELSE unsynced]

(* The blocking body of displayBuffer().                                   *)
BlockingUpdate(mode, turnOff, s, o) ==
  LET eff  == ResolveReleasedMode(IF inversionDirty THEN "HALF" ELSE mode)
      prev == PrevFrameFor(eff)
      fb   == Phys(mem[frameBuffer])
  IN /\ eff = "FAST" => HostTrustsBaseline
     /\ AfterDrain(s, Display(Drained(s), fb, Phys(prev), eff, turnOff, o))
     /\ SwapBuffers
     /\ redBaselineAuthoritative' = FALSE
     /\ inversionDirty' = FALSE
     /\ shown' = fb
     /\ stale' = RedAfter(eff, prev, "fresh")
     /\ UNCHANGED <<mem, secondaryLent, singleBufferFastDiff, inverted, awake>>

(* The deferred body of displayAsyncImpl() and triggerDisplay().           *)
DeferredUpdate(mode, turnOff, s) ==
  LET eff  == ResolveReleasedMode(mode)
      prev == PrevFrameFor(eff)
      fb   == mem[frameBuffer]
  IN /\ eff = "FAST" => HostTrustsBaseline
     /\ refreshPending \/ s = "ok"
     /\ panel' = DisplayStart(Drained(s), fb, prev, eff, turnOff)
     /\ refreshPending' = TRUE
     /\ held' = (frameBufferActive # Null)
     /\ SwapBuffers
     /\ redBaselineAuthoritative' = FALSE
     /\ shown' = fb
     /\ stale' = RedAfter(eff, prev, "async")
     /\ UNCHANGED <<mem, secondaryLent, flags, awake>>

-----------------------------------------------------------------------------
(* begin(): a chip out of reset, over whatever the glass was left with;    *)
(* the secondary's allocation may fail.                                    *)
Init ==
  /\ mem = [i \in Slot |-> White]
  /\ frameBuffer = 0 /\ frameBufferActive = 1 /\ secondaryLent = Null
  /\ refreshPending = FALSE /\ redBaselineAuthoritative = FALSE
  /\ singleBufferFastDiff = FALSE /\ inverted = FALSE /\ inversionDirty = FALSE
  /\ panel \in Begun([Region -> Ink])
  /\ awake = TRUE
  /\ shown = NoFrame /\ held = FALSE /\ stale = Fresh

ForgetRam ==
  /\ secondaryLent' = Null
  /\ refreshPending' = FALSE /\ redBaselineAuthoritative' = FALSE
  /\ singleBufferFastDiff' = FALSE /\ inverted' = FALSE /\ inversionDirty' = FALSE
  /\ shown' = NoFrame /\ held' = FALSE /\ stale' = Fresh

(* A reset cuts a running waveform short or finds it just done.            *)
GlassAfterReset ==
  IF IsBusy(panel) THEN {panel.glass, Developed(panel), [r \in Region |-> "?"]} ELSE {panel.glass}

Boot(secondaryOk) ==
  /\ mem' = [i \in Slot |-> IF i = 0 \/ secondaryOk THEN White ELSE NoFrame]
  /\ frameBuffer' = 0
  /\ frameBufferActive' = IF secondaryOk THEN 1 ELSE Null
  /\ ForgetRam
  /\ awake' = TRUE
  /\ panel' \in Begun(GlassAfterReset)

(* deepSleep(), and the host cutting its own power right after it.         *)
DeepSleep(s, o) ==
  /\ awake
  /\ refreshPending \/ s = "ok"
  /\ panel' = PowerOffController(Drained(s), o)
  /\ mem' = [i \in Slot |-> NoFrame]
  /\ frameBuffer' = Null /\ frameBufferActive' = Null
  /\ ForgetRam
  /\ awake' = FALSE

(* BUSY drops after a wait had given up on it.                             *)
BusyReleases ==
  /\ panel.wave = "stuck"
  /\ panel' = [panel EXCEPT !.wave = "none"]
  /\ UNCHANGED <<buffers, refreshPending, redBaselineAuthoritative, flags, awake, shown, held, stale>>

-----------------------------------------------------------------------------
(* Drawing and displaying.                                                 *)

Draw(img) ==
  /\ Usable
  /\ mem' = [mem EXCEPT ![frameBuffer] = img]
  /\ UNCHANGED <<frameBuffer, frameBufferActive, secondaryLent, refreshPending,
                 redBaselineAuthoritative, flags, panel, awake, shown, held, stale>>

DisplayBuffer(mode, turnOff, s, o) == Usable /\ BlockingUpdate(mode, turnOff, s, o)

(* displayBufferAsync(), triggerDisplay() and triggerDisplayAsync().       *)
TriggerDisplay(mode, turnOff, s, o) ==
  /\ Usable
  /\ IF inverted \/ inversionDirty
     THEN BlockingUpdate(mode, turnOff, s, o)
     ELSE o = "ok" /\ DeferredUpdate(mode, turnOff, s)

(* waitRefreshComplete(), completeDisplay(), finishDisplayAsync() *)
SyncPendingAsync(s) ==
  /\ refreshPending
  /\ AfterDrain(s, Drained(s))
  /\ UNCHANGED <<buffers, redBaselineAuthoritative, flags, awake, shown, stale>>

SetInverted(s) ==
  /\ awake
  /\ AfterDrain(s, Drained(s))
  /\ inverted' = ~inverted
  /\ inversionDirty' = TRUE
  /\ UNCHANGED <<buffers, redBaselineAuthoritative, singleBufferFastDiff, awake, shown, stale>>

(* displayWindow(): no mode resolution, no one-shot and no swap, so the    *)
(* secondary keeps the frame from before the window.                       *)
WindowedUpdate(win, turnOff, s, o) ==
  LET d0       == Drained(s)
      absolute == Promotes(d0)
      prev     == Frame(frameBufferActive)
      fb       == mem[frameBuffer]
  IN /\ Overlooked(IF prev = NoFrame THEN stale.red ELSE stale.active) /\ Overlooked(stale.bw)
     /\ AfterDrain(s, DisplayWindow(d0, fb, prev, win, turnOff, o))
     /\ shown' = IF absolute \/ shown = NoFrame THEN fb ELSE Patch(shown, fb, win)
     /\ stale' = [red    |-> IF absolute THEN "fresh" ELSE IF prev = NoFrame THEN stale.red ELSE "turn",
                  active |-> IF prev = NoFrame THEN "fresh" ELSE "window",
                  bw     |-> IF absolute THEN "fresh" ELSE stale.bw]
     /\ UNCHANGED <<buffers, redBaselineAuthoritative, flags, awake>>

DisplayWindowed(win, turnOff, s, o) ==
  /\ Usable
  /\ IF inverted \/ inversionDirty
     THEN BlockingUpdate("FAST", turnOff, s, o)
     ELSE WindowedUpdate(win, turnOff, s, o)

-----------------------------------------------------------------------------
(* The secondary buffer and the RED baseline.                              *)

MutReleaseSecondaryBuffer(s) ==
  /\ Usable /\ frameBufferActive # Null /\ s = "ok"
  /\ mem' = [mem EXCEPT ![frameBufferActive] = NoFrame]
  /\ frameBufferActive' = Null
  /\ UNCHANGED <<frameBuffer, secondaryLent, refreshPending, redBaselineAuthoritative, flags, panel,
                 awake, shown, held, stale>>

ReleaseSecondaryBuffer(s) ==
  /\ Usable /\ frameBufferActive # Null
  /\ AfterDrain(s, Drained(s))
  /\ mem' = [mem EXCEPT ![frameBufferActive] = NoFrame]
  /\ frameBufferActive' = Null
  /\ UNCHANGED <<frameBuffer, secondaryLent, redBaselineAuthoritative, flags, awake, shown, stale>>

(* The secondary comes back as a copy of the draw buffer, right only if    *)
(* the host has not drawn since; the one-shot is armed either way.         *)
Restore(slot) ==
  /\ mem' = [mem EXCEPT ![slot] = IF frameBuffer = Null THEN White ELSE mem[frameBuffer]]
  /\ frameBufferActive' = slot
  /\ redBaselineAuthoritative' = TRUE
  /\ stale' = [stale EXCEPT !.active =
                 IF frameBuffer # Null /\ Phys(mem[frameBuffer]) = shown THEN "fresh" ELSE "copied"]
  /\ UNCHANGED <<frameBuffer, refreshPending, flags, panel, awake, shown, held>>

MutReallocSecondaryBuffer ==
  /\ awake /\ frameBufferActive = Null
  /\ Restore(IF mem[0] = NoFrame THEN 0 ELSE 1)
  /\ UNCHANGED secondaryLent

ReallocSecondaryBuffer ==
  /\ awake /\ frameBufferActive = Null /\ secondaryLent = Null
  /\ Restore(IF mem[0] = NoFrame THEN 0 ELSE 1)
  /\ UNCHANGED secondaryLent

BorrowSecondaryBuffer(s) ==
  /\ Usable /\ frameBufferActive # Null /\ secondaryLent = Null
  /\ AfterDrain(s, Drained(s))
  /\ secondaryLent' = frameBufferActive
  /\ frameBufferActive' = Null
  /\ UNCHANGED <<mem, frameBuffer, redBaselineAuthoritative, flags, awake, shown, stale>>

ReturnSecondaryBuffer ==
  /\ awake /\ secondaryLent # Null
  /\ Restore(secondaryLent)
  /\ secondaryLent' = Null

ReleaseBuffers(s) ==
  /\ awake /\ secondaryLent = Null
  /\ AfterDrain(s, Drained(s))
  /\ mem' = [i \in Slot |-> NoFrame]
  /\ frameBuffer' = Null /\ frameBufferActive' = Null
  /\ UNCHANGED <<secondaryLent, redBaselineAuthoritative, flags, awake, shown, stale>>

(* reallocBuffers() after a release; ok is FALSE when the second           *)
(* allocation fails (a failing first one changes nothing).                 *)
ReallocBuffers(ok) ==
  /\ awake /\ secondaryLent = Null
  /\ frameBuffer = Null \/ frameBuffer = frameBufferActive
  /\ mem' = [mem EXCEPT ![0] = White, ![1] = IF ok THEN White ELSE @]
  /\ frameBuffer' = 0
  /\ frameBufferActive' = IF ok THEN 1 ELSE frameBufferActive
  /\ stale' = [stale EXCEPT !.active = "realloc"]
  /\ UNCHANGED <<secondaryLent, refreshPending, redBaselineAuthoritative, flags, panel, awake, shown, held>>

(* syncRedRamFromFrameBuffer(): RED takes what the host vouches for.       *)
SyncRedRamFromFrameBuffer(s) ==
  LET onScreen == IF frameBufferActive # Null THEN frameBufferActive ELSE frameBuffer IN
  /\ Usable
  /\ AfterDrain(s, SeedPreviousFrame(Drained(s), Phys(mem[onScreen])))
  /\ redBaselineAuthoritative' = FALSE
  /\ stale' = [stale EXCEPT !.red = IF frameBufferActive # Null THEN stale.active
                                    ELSE IF Phys(mem[frameBuffer]) = shown THEN "fresh" ELSE "asserted"]
  /\ UNCHANGED <<buffers, flags, awake, shown>>

SetSingleBufferFastDiff(enabled) ==
  /\ awake
  /\ singleBufferFastDiff' = enabled
  /\ UNCHANGED <<buffers, refreshPending, redBaselineAuthoritative, inverted, inversionDirty,
                 panel, awake, shown, held, stale>>

-----------------------------------------------------------------------------
(* The grayscale overlay: planes over a displayed page, one waveform, and  *)
(* the restoration of the BW baseline.                                     *)

CopyGrayscaleBuffers(lsb, msb, s) ==
  /\ Usable /\ ~inverted /\ frameBufferActive # Null /\ shown # NoFrame
  /\ AfterDrain(s, CopyGrayscale(Drained(s), lsb, msb))
  /\ stale' = [stale EXCEPT !.red = "gray", !.bw = "gray"]
  /\ UNCHANGED <<buffers, redBaselineAuthoritative, flags, awake, shown>>

DisplayGrayBuffer(turnOff, factoryMode, s, o) ==
  /\ Usable /\ ~inverted
  /\ stale.bw = "gray"                       \* the planes have been copied
  /\ AfterDrain(s, DisplayGray(Drained(s), turnOff, factoryMode, o))
  /\ shown' = IF factoryMode THEN NoFrame ELSE shown
  /\ stale' = [stale EXCEPT !.red = "lit", !.bw = "lit"]
  /\ UNCHANGED <<buffers, redBaselineAuthoritative, flags, awake>>

(* The cleanup writes RED and leaves the LSB mask in the BW plane.         *)
RedRestored(red) ==
  [stale EXCEPT !.red = red, !.bw = IF stale.bw \in {"gray", "lit"} THEN "lsb" ELSE @]

(* cleanupGrayscaleBuffers() with the host's own copy of the page, and     *)
(* cleanupGrayscaleWithPreviousBuffer() with the secondary.                *)
CleanupGrayscaleBuffers(s) ==
  /\ Usable /\ shown # NoFrame /\ ~inversionDirty
  /\ AfterDrain(s, IF inverted THEN Drained(s) ELSE CleanupGrayscale(Drained(s), shown))
  /\ mem' = [mem EXCEPT ![frameBuffer] = Phys(shown)]
  /\ stale' = IF inverted THEN stale ELSE RedRestored("fresh")
  /\ UNCHANGED <<frameBuffer, frameBufferActive, secondaryLent, redBaselineAuthoritative, flags,
                 awake, shown>>

CleanupGrayscaleWithPreviousBuffer(s) ==
  /\ Usable /\ frameBufferActive # Null
  /\ AfterDrain(s, IF inverted THEN Drained(s)
                   ELSE CleanupGrayscale(Drained(s), mem[frameBufferActive]))
  /\ mem' = [mem EXCEPT ![frameBuffer] = mem[frameBufferActive]]
  /\ stale' = IF inverted THEN stale ELSE RedRestored(stale.active)
  /\ UNCHANGED <<frameBuffer, frameBufferActive, secondaryLent, redBaselineAuthoritative, flags,
                 awake, shown>>

RequestResync ==
  /\ awake
  /\ panel' = RequestDriverResync(panel)
  /\ UNCHANGED <<buffers, refreshPending, redBaselineAuthoritative, flags, awake, shown, held, stale>>

-----------------------------------------------------------------------------
Next ==
  \/ \E img \in Image : Draw(img)
  \/ \E mode \in RefreshMode, off \in TurnOff, s, o \in Answer :
       DisplayBuffer(mode, off, s, o) \/ TriggerDisplay(mode, off, s, o)
  \/ \E win \in Window, off \in TurnOff, s, o \in Answer : DisplayWindowed(win, off, s, o)
  \/ \E s \in Answer : \/ SyncPendingAsync(s)
                        \/ SetInverted(s)
                        \/ ReleaseSecondaryBuffer(s)
                        \/ BorrowSecondaryBuffer(s)
                        \/ ReleaseBuffers(s)
                        \/ SyncRedRamFromFrameBuffer(s)
                        \/ CleanupGrayscaleBuffers(s)
                        \/ CleanupGrayscaleWithPreviousBuffer(s)
  \/ ReallocSecondaryBuffer
  \/ ReturnSecondaryBuffer
  \/ \E ok \in BOOLEAN : ReallocBuffers(ok)
  \/ \E b \in BOOLEAN : SetSingleBufferFastDiff(b)
  \/ \E lsb, msb \in GrayPlane, s \in Answer : CopyGrayscaleBuffers(lsb, msb, s)
  \/ \E off \in TurnOff, factory \in BOOLEAN, s, o \in Answer : DisplayGrayBuffer(off, factory, s, o)
  \/ RequestResync
  \/ \E s, o \in Answer : DeepSleep(s, o)
  \/ \E ok \in BOOLEAN : Boot(ok)
  \/ BusyReleases

Spec == Init /\ [][Next]_vars

-----------------------------------------------------------------------------
(* Once every refresh has settled, the glass shows exactly the frame last  *)
(* submitted (overlay gray aside): no pixel of an older frame survives,    *)
(* through differential refreshes, released and restored secondaries,      *)
(* inversion, failed waits and resets.                                     *)
NoGhost ==
  shown # NoFrame /\ ~IsBusy(panel) /\ ~refreshPending /\ ~panel.needsInitialFull
    => \A r \in Region : panel.glass[r] \in {shown[r], "G"}

(* Every block has at most one role, and a block with a role is allocated: *)
(* nothing is drawn, diffed or lent out of freed or shared memory.  A      *)
(* reallocBuffers() that failed midway is the documented unusable state.   *)
BuffersOwned ==
  /\ \A i \in Slot : i \in {frameBuffer, frameBufferActive, secondaryLent} => mem[i] # NoFrame
  /\ secondaryLent # Null => frameBufferActive = Null /\ frameBuffer # secondaryLent
  /\ frameBuffer # Null /\ frameBuffer = frameBufferActive => mem[1] = NoFrame

(* displayFinish() re-reads the frame the deferred refresh left in the     *)
(* secondary: until the drain that buffer is neither freed, lent, swapped  *)
(* nor drawn over.                                                         *)
PendingFrameHeld ==
  refreshPending /\ held => frameBufferActive # Null /\ mem[frameBufferActive] = shown

(* A request to drop the rails after a waveform is parked only while the   *)
(* facade still owes that refresh a drain: it is never left behind by a    *)
(* blocking call, a window, a failed wait or a sleep.                      *)
ParkedPowerOffIsOwed == panel.pendingPowerOff => refreshPending

(* What the one-shot relies on: with the secondary restored and not yet    *)
(* displayed over, RED still holds the frame on the glass.                 *)
OneShotHoldsScreen ==
  /\ redBaselineAuthoritative /\ frameBufferActive # Null /\ shown # NoFrame
  /\ ~refreshPending /\ ~panel.needsInitialFull
  => panel.red = shown

(* A block in the host's hands is never written nor freed.                 *)
LentUntouched ==
  [][secondaryLent # Null /\ secondaryLent' = secondaryLent
       => mem'[secondaryLent] = mem[secondaryLent]]_vars

Settled == ~IsBusy(panel) /\ ~refreshPending /\ ~panel.needsInitialFull
Promise == INSTANCE PageDisplay WITH
             Page <- Image, NoPage <- NoFrame, page <- shown, glass <- panel.glass, settled <- Settled

(* The facade keeps the promise of a display: a region changes its ink to  *)
(* that of the page submitted, or of the one whose refresh was pending,    *)
(* and to nothing older, and a settled panel shows the page.               *)
ImplementsPageDisplay == Promise!Spec
=============================================================================
