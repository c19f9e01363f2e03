------------------------ MODULE DualBufferDisplayProofs ------------------------
(***************************************************************************)
(* What holds of the dual-buffer facade whatever the panel's size, the     *)
(* masks and windows the host uses, and however BUSY answers.              *)
(*                                                                         *)
(* BufferInv says who owns which heap block; it needs nothing of the host. *)
(* ScreenInv, on top of it, says which store may serve as a differential   *)
(* baseline; it holds of a host that keeps the documented rules.           *)
(***************************************************************************)
EXTENDS DualBufferDisplay, Ssd1677Proofs

(* A block is allocated exactly when it has a role, and has one role,      *)
(* except after a reallocBuffers() that failed midway.                     *)
RolesOK ==
  /\ \A i \in Slot : mem[i] # NoFrame <=> i \in {frameBuffer, frameBufferActive, secondaryLent}
  /\ secondaryLent # Null => frameBufferActive = Null /\ frameBuffer # Null /\ frameBuffer # secondaryLent
  /\ frameBuffer = Null => frameBufferActive \in {Null, 0}
  /\ frameBuffer # Null /\ frameBuffer = frameBufferActive => frameBuffer = 0

(* The frame of a pending refresh is in a secondary that cannot be drawn   *)
(* on, and no inversion has been asked for since.                          *)
HeldOK ==
  refreshPending /\ held =>
    /\ frameBufferActive # Null /\ frameBuffer # Null /\ frameBuffer # frameBufferActive
    /\ mem[frameBufferActive] = shown

BufferInv == TypeOK /\ RolesOK /\ HeldOK

(* No waveform runs without a drain owed; the panel owes the reader the    *)
(* frame last submitted, unless the host has put the display to sleep.     *)
PanelInv ==
  /\ \E s \in Image \cup {NoFrame} : PanelOK(panel, s) /\ (awake => s = shown)
  /\ panel.wave \in {"fast", "clean"} => refreshPending
  /\ ~awake => shown = NoFrame /\ ~refreshPending

(* A fresh store holds the frame on the glass, a store lit by gray is      *)
(* covered by a promotion, and inverting distrusts what the host holds.    *)
StoresOK ==
  /\ "lit" \in {stale.red, stale.bw} => Promotes(panel)
  /\ awake /\ stale.bw = "fresh" /\ panel.inGrayscaleMode => panel.needsInitialFull
  /\ stale.active \notin {"lit", "gray"}
  /\ shown # NoFrame /\ stale.red = "fresh" /\ ~Promotes(panel) /\ ~inversionDirty => panel.red = shown
  /\ shown # NoFrame /\ stale.bw = "fresh" /\ ~Promotes(panel) => panel.bw = shown
  /\ shown # NoFrame /\ stale.active = "fresh" /\ ~inversionDirty /\ frameBufferActive # Null
       => Phys(mem[frameBufferActive]) = shown

ScreenInv == BufferInv /\ PanelInv /\ StoresOK

-----------------------------------------------------------------------------
(* Helpers.                                                                *)

(* The modes, frames and panels the entry points pass on are of their type. *)
LEMMA DrainedType ==
  ASSUME TypeOK, NEW s \in Outcome
  PROVE  Drained(s) \in DriverState
  BY FinishType DEF Drained, TypeOK

(* What the facade sends for a frame is a frame, inverted or not.          *)
LEMMA PhysType ==
  ASSUME TypeOK, NEW img \in Image \cup {NoFrame}
  PROVE  Phys(img) \in Image \cup {NoFrame} /\ (Phys(img) = NoFrame <=> img = NoFrame)
  BY InvertType, FrameAssumption DEF Phys

(* A resolved mode is a mode.                                              *)
LEMMA ModeType ==
  ASSUME NEW mode \in RefreshMode
  PROVE  ResolveReleasedMode(mode) \in RefreshMode
         /\ ResolveReleasedMode(IF inversionDirty THEN "HALF" ELSE mode) \in RefreshMode
  BY DEF ResolveReleasedMode, RefreshMode

(* The previous frame handed to the driver is a frame or none.             *)
LEMMA PrevType ==
  ASSUME TypeOK, RolesOK, NEW mode
  PROVE  PrevFrameFor(mode) \in Image \cup {NoFrame}
  BY DEF PrevFrameFor, Frame, TypeOK, Slot, Null

(* A usable draw buffer holds a frame.                                     *)
LEMMA DrawBuffer ==
  ASSUME TypeOK, RolesOK, Usable
  PROVE  frameBuffer \in Slot /\ mem[frameBuffer] \in Image
  BY DEF TypeOK, RolesOK, Usable, Slot, Null

(* With a host that overlooks nothing, a trusted store is fresh or lit.    *)
LEMMA ReasonsFresh ==
  /\ Fresh \in [red : Freshness, active : Freshness, bw : Freshness]
  /\ \A mode, prev : /\ RedAfter(mode, prev, "fresh") \in [red : Freshness, active : Freshness, bw : Freshness]
                     /\ RedAfter(mode, prev, "async") \in [red : Freshness, active : Freshness, bw : Freshness]
  BY DEF Fresh, RedAfter, Freshness, Reason

-----------------------------------------------------------------------------
(* BufferInv.                                                              *)

LEMMA BufferInvInit == Init => BufferInv
<1> SUFFICES ASSUME Init PROVE BufferInv
  OBVIOUS
<1>1. White \in Image
  BY DEF White, Image, Pixel
<1>2. panel \in DriverState
  BY BegunType DEF Init
<1>3. TypeOK
  BY <1>1, <1>2, ReasonsFresh DEF Init, TypeOK, Slot, Null
<1>4. RolesOK
  BY <1>1, FrameAssumption DEF Init, RolesOK, Slot, Null
<1>5. HeldOK
  BY DEF Init, HeldOK
<1> QED BY <1>3, <1>4, <1>5 DEF BufferInv

(* The swap exchanges the roles of two blocks, or of none.                 *)
LEMMA SwapRoles ==
  ASSUME TypeOK, RolesOK, SwapBuffers, UNCHANGED <<mem, secondaryLent>>, Usable
  PROVE  /\ RolesOK'
         /\ {frameBuffer', frameBufferActive', secondaryLent'} \subseteq Slot \cup {Null}
         /\ frameBufferActive # Null => frameBufferActive' = frameBuffer /\ frameBuffer' # frameBufferActive'
                                          /\ frameBuffer' # Null
         /\ frameBufferActive = Null => frameBufferActive' = Null
  BY DEF TypeOK, RolesOK, SwapBuffers, Usable, Slot, Null

(* A blocking update swaps two roles and leaves no pending refresh.        *)
LEMMA BlockingBuffers ==
  ASSUME BufferInv, Usable, NEW mode \in RefreshMode, NEW turnOff \in BOOLEAN,
         NEW s \in Outcome, NEW o \in Outcome, BlockingUpdate(mode, turnOff, s, o)
  PROVE  BufferInv'
<1> DEFINE eff  == ResolveReleasedMode(IF inversionDirty THEN "HALF" ELSE mode)
           prev == PrevFrameFor(eff)
           fb   == Phys(mem[frameBuffer])
<1>0. TypeOK /\ RolesOK
  BY DEF BufferInv
<1>1. eff \in RefreshMode /\ fb \in Image /\ Phys(prev) \in Image \cup {NoFrame}
  BY <1>0, ModeType, PrevType, DrawBuffer, PhysType, FrameAssumption
<1>2. /\ panel' = Display(Drained(s), fb, Phys(prev), eff, turnOff, o)
      /\ refreshPending' = FALSE /\ held' = FALSE /\ shown' = fb
      /\ stale' = RedAfter(eff, prev, "fresh")
      /\ redBaselineAuthoritative' = FALSE /\ inversionDirty' = FALSE
      /\ SwapBuffers
      /\ UNCHANGED <<mem, secondaryLent, singleBufferFastDiff, inverted, awake>>
  BY DEF BlockingUpdate, AfterDrain
<1> HIDE DEF eff, prev, fb
<1>3. panel' \in DriverState
  BY <1>0, <1>1, <1>2, DrainedType, DisplayType
<1>4. RolesOK' /\ {frameBuffer', frameBufferActive', secondaryLent'} \subseteq Slot \cup {Null}
  BY <1>0, <1>2, SwapRoles
<1>5. TypeOK'
  BY <1>0, <1>1, <1>2, <1>3, <1>4, ReasonsFresh DEF TypeOK
<1>6. HeldOK'
  BY <1>2 DEF HeldOK
<1> QED BY <1>4, <1>5, <1>6 DEF BufferInv

(* A deferred update leaves the frame it submitted in the secondary.       *)
LEMMA DeferredBuffers ==
  ASSUME BufferInv, Usable, NEW mode \in RefreshMode, NEW turnOff \in BOOLEAN,
         NEW s \in Outcome, DeferredUpdate(mode, turnOff, s)
  PROVE  BufferInv'
<1> DEFINE eff  == ResolveReleasedMode(mode)
           prev == PrevFrameFor(eff)
           fb   == mem[frameBuffer]
<1>0. TypeOK /\ RolesOK
  BY DEF BufferInv
<1>1. eff \in RefreshMode /\ fb \in Image /\ prev \in Image \cup {NoFrame}
  BY <1>0, ModeType, PrevType, DrawBuffer
<1>2. /\ panel' = DisplayStart(Drained(s), fb, prev, eff, turnOff)
      /\ refreshPending' = TRUE /\ held' = (frameBufferActive # Null) /\ shown' = fb
      /\ stale' = RedAfter(eff, prev, "async")
      /\ redBaselineAuthoritative' = FALSE
      /\ SwapBuffers
      /\ UNCHANGED <<mem, secondaryLent, flags, awake>>
  BY DEF DeferredUpdate
<1>3. fb = mem[frameBuffer]
  OBVIOUS
<1> HIDE DEF eff, prev, fb
<1>4. panel' \in DriverState
  BY <1>0, <1>1, <1>2, DrainedType, StartType
<1>5. /\ RolesOK'
      /\ {frameBuffer', frameBufferActive', secondaryLent'} \subseteq Slot \cup {Null}
      /\ frameBufferActive # Null => frameBufferActive' = frameBuffer /\ frameBuffer' # frameBufferActive'
                                       /\ frameBuffer' # Null
  BY <1>0, <1>2, SwapRoles
<1>6. TypeOK'
  BY <1>0, <1>1, <1>2, <1>4, <1>5, ReasonsFresh DEF TypeOK, flags
<1>7. HeldOK'
  BY <1>2, <1>3, <1>5 DEF HeldOK, Usable
<1> QED BY <1>5, <1>6, <1>7 DEF BufferInv

(* One lemma per entry point that moves or rewrites a block.               *)
LEMMA DrawBuffers ==
  ASSUME BufferInv, NEW img \in Image, Draw(img)
  PROVE  BufferInv'
<1>1. TypeOK'
  BY DEF BufferInv, TypeOK, Draw, flags
<1>2. RolesOK'
  BY FrameAssumption DEF BufferInv, TypeOK, RolesOK, Draw, Usable, Slot, Null
<1>3. HeldOK'
  BY DEF BufferInv, TypeOK, HeldOK, Draw, Slot, Null
<1> QED BY <1>1, <1>2, <1>3 DEF BufferInv

(* releaseSecondaryBuffer() drains before it frees.                        *)
LEMMA ReleaseSecondaryBuffers ==
  ASSUME BufferInv, NEW s \in Outcome, ReleaseSecondaryBuffer(s)
  PROVE  BufferInv'
<1>1. panel' \in DriverState
  BY DrainedType DEF BufferInv, ReleaseSecondaryBuffer, AfterDrain
<1>2. TypeOK'
  BY <1>1 DEF BufferInv, TypeOK, ReleaseSecondaryBuffer, AfterDrain, flags
<1>3. RolesOK'
  BY DEF BufferInv, TypeOK, RolesOK, ReleaseSecondaryBuffer, AfterDrain, Usable, Slot, Null
<1>4. HeldOK'
  BY DEF HeldOK, ReleaseSecondaryBuffer, AfterDrain
<1> QED BY <1>2, <1>3, <1>4 DEF BufferInv

(* borrowSecondaryBuffer() drains before it lends.                         *)
LEMMA BorrowBuffers ==
  ASSUME BufferInv, NEW s \in Outcome, BorrowSecondaryBuffer(s)
  PROVE  BufferInv'
<1>1. panel' \in DriverState
  BY DrainedType DEF BufferInv, BorrowSecondaryBuffer, AfterDrain
<1>2. TypeOK'
  BY <1>1 DEF BufferInv, TypeOK, BorrowSecondaryBuffer, AfterDrain, flags
<1>3. RolesOK'
  BY DEF BufferInv, TypeOK, RolesOK, BorrowSecondaryBuffer, AfterDrain, Usable, Slot, Null
<1>4. HeldOK'
  BY DEF HeldOK, BorrowSecondaryBuffer, AfterDrain
<1> QED BY <1>2, <1>3, <1>4 DEF BufferInv

(* reallocSecondaryBuffer() and returnSecondaryBuffer() bring back a block *)
(* that has no other role.                                                 *)
LEMMA RestoreBuffers ==
  ASSUME BufferInv, NEW slot \in Slot, Restore(slot), frameBufferActive = Null, slot # frameBuffer,
         frameBuffer = Null => slot = 0,
         \/ secondaryLent = Null /\ secondaryLent' = Null
         \/ secondaryLent = slot /\ secondaryLent' = Null
  PROVE  BufferInv'
<1>1. (IF frameBuffer = Null THEN White ELSE mem[frameBuffer]) \in Image
  BY DEF BufferInv, TypeOK, RolesOK, White, Image, Pixel, Slot, Null
<1>2. stale' \in [red : Freshness, active : Freshness, bw : Freshness]
  BY DEF Restore, BufferInv, TypeOK, Freshness, Reason
<1>3. TypeOK'
  BY <1>1, <1>2 DEF BufferInv, TypeOK, Restore, flags, Null
<1>4. RolesOK'
  BY <1>1, FrameAssumption DEF BufferInv, TypeOK, RolesOK, Restore, Slot, Null
<1>5. HeldOK'
  BY DEF BufferInv, HeldOK, Restore
<1> QED BY <1>3, <1>4, <1>5 DEF BufferInv

(* reallocSecondaryBuffer() takes a block nobody has.                      *)
LEMMA ReallocSecondaryBuffers == BufferInv /\ ReallocSecondaryBuffer => BufferInv'
<1> SUFFICES ASSUME BufferInv, ReallocSecondaryBuffer PROVE BufferInv'
  OBVIOUS
<1> DEFINE slot == IF mem[0] = NoFrame THEN 0 ELSE 1
<1>1. slot # frameBuffer /\ (frameBuffer = Null => slot = 0)
  BY DEF BufferInv, TypeOK, RolesOK, ReallocSecondaryBuffer, Slot, Null
<1>2. slot \in Slot /\ Restore(slot) /\ frameBufferActive = Null /\ secondaryLent = Null /\ secondaryLent' = Null
  BY DEF ReallocSecondaryBuffer, Slot
<1> HIDE DEF slot
<1> QED BY <1>1, <1>2, RestoreBuffers

(* returnSecondaryBuffer() takes back the block that was lent.             *)
LEMMA ReturnSecondaryBuffers == BufferInv /\ ReturnSecondaryBuffer => BufferInv'
<1> SUFFICES ASSUME BufferInv, ReturnSecondaryBuffer PROVE BufferInv'
  OBVIOUS
<1>1. /\ secondaryLent \in Slot /\ frameBufferActive = Null /\ secondaryLent # frameBuffer
      /\ frameBuffer # Null /\ Restore(secondaryLent) /\ secondaryLent' = Null
  BY DEF BufferInv, TypeOK, RolesOK, ReturnSecondaryBuffer
<1> QED BY <1>1, RestoreBuffers

(* releaseBuffers() drains before it frees both blocks.                    *)
LEMMA ReleaseAllBuffers ==
  ASSUME BufferInv, NEW s \in Outcome, ReleaseBuffers(s)
  PROVE  BufferInv'
<1>1. panel' \in DriverState
  BY DrainedType DEF BufferInv, ReleaseBuffers, AfterDrain
<1>2. TypeOK'
  BY <1>1 DEF BufferInv, TypeOK, ReleaseBuffers, AfterDrain, flags
<1>3. RolesOK'
  BY DEF BufferInv, TypeOK, RolesOK, ReleaseBuffers, AfterDrain, Slot, Null
<1>4. HeldOK'
  BY DEF HeldOK, ReleaseBuffers, AfterDrain
<1> QED BY <1>2, <1>3, <1>4 DEF BufferInv

(* reallocBuffers() gives both roles, or fails into the unusable state.    *)
LEMMA ReallocAllBuffers ==
  ASSUME BufferInv, NEW ok \in BOOLEAN, ReallocBuffers(ok)
  PROVE  BufferInv'
<1>0. White \in Image
  BY DEF White, Image, Pixel
<1>1. stale' \in [red : Freshness, active : Freshness, bw : Freshness]
  BY DEF ReallocBuffers, BufferInv, TypeOK, Freshness, Reason
<1>2. TypeOK'
  BY <1>0, <1>1 DEF BufferInv, TypeOK, ReallocBuffers, flags, Slot, Null
<1>3. RolesOK'
  BY <1>0, FrameAssumption DEF BufferInv, TypeOK, RolesOK, ReallocBuffers, Slot, Null
<1>4. HeldOK'
  BY DEF BufferInv, HeldOK, ReallocBuffers
<1> QED BY <1>2, <1>3, <1>4 DEF BufferInv

(* Sleep and boot start the roles over.                                    *)
LEMMA RebootBuffers ==
  ASSUME BufferInv
  PROVE  /\ \A ok \in BOOLEAN : Boot(ok) => BufferInv'
         /\ \A s, o \in Outcome : DeepSleep(s, o) => BufferInv'
<1>0. White \in Image /\ White # NoFrame
  BY FrameAssumption DEF White, Image, Pixel
<1>1. ASSUME NEW ok \in BOOLEAN, Boot(ok) PROVE BufferInv'
  <2>1. GlassAfterReset \subseteq [Region -> Ink]
    BY DevelopedType DEF GlassAfterReset, BufferInv, TypeOK, DriverState, Ink
  <2>2. panel' \in DriverState
    BY <1>1, <2>1, BegunType DEF Boot
  <2>3. TypeOK'
    BY <1>0, <1>1, <2>2, ReasonsFresh DEF Boot, ForgetRam, TypeOK, Slot, Null
  <2>4. RolesOK'
    BY <1>0, <1>1 DEF Boot, ForgetRam, RolesOK, Slot, Null
  <2>5. HeldOK'
    BY <1>1 DEF Boot, ForgetRam, HeldOK
  <2> QED BY <2>3, <2>4, <2>5 DEF BufferInv
<1>2. ASSUME NEW s \in Outcome, NEW o \in Outcome, DeepSleep(s, o) PROVE BufferInv'
  <2>1. panel' \in DriverState
    BY <1>2, DrainedType, PowerOffType DEF DeepSleep, BufferInv
  <2>2. TypeOK'
    BY <1>2, <2>1, ReasonsFresh DEF DeepSleep, ForgetRam, TypeOK, Slot, Null
  <2>3. RolesOK'
    BY <1>2 DEF DeepSleep, ForgetRam, RolesOK, Slot, Null
  <2>4. HeldOK'
    BY <1>2 DEF DeepSleep, ForgetRam, HeldOK
  <2> QED BY <2>2, <2>3, <2>4 DEF BufferInv
<1> QED BY <1>1, <1>2

(* The entry points that leave every block and every role alone, and drain *)
(* the pending refresh or leave it alone too.                              *)
LEMMA QuietBuffers ==
  ASSUME BufferInv, UNCHANGED buffers, TypeOK',
         refreshPending' = FALSE \/ UNCHANGED <<refreshPending, held, shown>>
  PROVE  BufferInv'
  BY DEF BufferInv, RolesOK, HeldOK, buffers

(* The gray cleanups rewrite the draw buffer only.                         *)
LEMMA RewriteBuffers ==
  ASSUME BufferInv, Usable, NEW img \in Image, mem' = [mem EXCEPT ![frameBuffer] = img],
         UNCHANGED <<frameBuffer, frameBufferActive, secondaryLent>>, TypeOK', refreshPending' = FALSE
  PROVE  BufferInv'
<1>1. RolesOK'
  BY FrameAssumption DEF BufferInv, TypeOK, RolesOK, Usable, Slot, Null
<1> QED BY <1>1 DEF BufferInv, HeldOK

(* A windowed update keeps every role, the inverted one swaps two.         *)
LEMMA WindowedBuffers ==
  ASSUME BufferInv, Usable, NEW win, NEW turnOff \in BOOLEAN, NEW s \in Outcome, NEW o \in Outcome,
         WindowedUpdate(win, turnOff, s, o)
  PROVE  BufferInv'
<1> DEFINE d0 == Drained(s)
           prev == Frame(frameBufferActive)
           fb == mem[frameBuffer]
<1>1. TypeOK /\ RolesOK
  BY DEF BufferInv
<1>2. fb \in Image /\ prev \in Image \cup {NoFrame} /\ d0 \in DriverState
  BY <1>1, DrawBuffer, DrainedType DEF TypeOK, Frame, Slot, Null
<1>3. /\ panel' = DisplayWindow(d0, fb, prev, win, turnOff, o)
      /\ shown' = (IF Promotes(d0) \/ shown = NoFrame THEN fb ELSE Patch(shown, fb, win))
      /\ stale' = [red    |-> IF Promotes(d0) THEN "fresh" ELSE IF prev = NoFrame THEN stale.red ELSE "turn",
                   active |-> IF prev = NoFrame THEN "fresh" ELSE "window",
                   bw     |-> IF Promotes(d0) THEN "fresh" ELSE stale.bw]
      /\ refreshPending' = FALSE /\ held' = FALSE
      /\ UNCHANGED <<buffers, redBaselineAuthoritative, flags, awake>>
  BY DEF WindowedUpdate, AfterDrain
<1> HIDE DEF d0, prev, fb
<1>4. panel' \in DriverState
  BY <1>2, <1>3, WindowType
<1>5. shown' \in Image
  BY <1>1, <1>2, <1>3, PatchType DEF TypeOK
<1>6. stale' \in [red : Freshness, active : Freshness, bw : Freshness]
  BY <1>1, <1>3 DEF TypeOK, Freshness, Reason
<1>7. TypeOK'
  BY <1>1, <1>3, <1>4, <1>5, <1>6 DEF TypeOK, buffers, flags
<1> QED BY <1>3, <1>7, QuietBuffers

(* The drains and setInverted() keep every role.                           *)
LEMMA SyncBuffers ==
  ASSUME BufferInv, NEW s \in Outcome, SyncPendingAsync(s) \/ SetInverted(s)
  PROVE  BufferInv'
<1>1. panel' \in DriverState
  BY DrainedType DEF SyncPendingAsync, SetInverted, AfterDrain, BufferInv
<1>2. TypeOK'
  BY <1>1 DEF BufferInv, TypeOK, SyncPendingAsync, SetInverted, AfterDrain, buffers, flags
<1>3. UNCHANGED buffers /\ refreshPending' = FALSE
  BY DEF SyncPendingAsync, SetInverted, AfterDrain
<1> QED BY <1>2, <1>3, QuietBuffers

(* Seeding RED keeps every role.                                           *)
LEMMA SeedBuffers ==
  ASSUME BufferInv, NEW s \in Outcome, SyncRedRamFromFrameBuffer(s)
  PROVE  BufferInv'
<1> DEFINE onScreen == IF frameBufferActive # Null THEN frameBufferActive ELSE frameBuffer
<1>1. Phys(mem[onScreen]) \in Image
  <2>1. mem[onScreen] \in Image
    BY DEF BufferInv, TypeOK, RolesOK, SyncRedRamFromFrameBuffer, Usable, Slot, Null
  <2> QED BY <2>1, PhysType, FrameAssumption DEF BufferInv
<1>2. panel' = SeedPreviousFrame(Drained(s), Phys(mem[onScreen]))
  BY DEF SyncRedRamFromFrameBuffer, AfterDrain
<1> HIDE DEF onScreen
<1>3. panel' \in DriverState
  BY <1>1, <1>2, DrainedType, RamWriteType DEF BufferInv
<1>4. stale' \in [red : Freshness, active : Freshness, bw : Freshness]
  BY DEF SyncRedRamFromFrameBuffer, BufferInv, TypeOK, Freshness, Reason
<1>5. TypeOK'
  BY <1>3, <1>4 DEF BufferInv, TypeOK, SyncRedRamFromFrameBuffer, AfterDrain, buffers, flags
<1>6. UNCHANGED buffers /\ refreshPending' = FALSE
  BY DEF SyncRedRamFromFrameBuffer, AfterDrain
<1> QED BY <1>5, <1>6, QuietBuffers

(* The gray masks and waveforms keep every role.                           *)
LEMMA GrayBuffers ==
  ASSUME BufferInv, NEW s \in Outcome
  PROVE  /\ \A lsb, msb \in Image : CopyGrayscaleBuffers(lsb, msb, s) => BufferInv'
         /\ \A turnOff, factory \in BOOLEAN, o \in Outcome :
               DisplayGrayBuffer(turnOff, factory, s, o) => BufferInv'
<1>0. Drained(s) \in DriverState
  BY DrainedType DEF BufferInv
<1>1. ASSUME NEW lsb \in Image, NEW msb \in Image, CopyGrayscaleBuffers(lsb, msb, s) PROVE BufferInv'
  <2>1. panel' \in DriverState
    BY <1>0, <1>1, RamWriteType DEF CopyGrayscaleBuffers, AfterDrain
  <2>2. stale' \in [red : Freshness, active : Freshness, bw : Freshness]
    BY <1>1 DEF CopyGrayscaleBuffers, BufferInv, TypeOK, Freshness, Reason
  <2>3. TypeOK'
    BY <1>1, <2>1, <2>2 DEF BufferInv, TypeOK, CopyGrayscaleBuffers, AfterDrain, buffers, flags
  <2>4. UNCHANGED buffers /\ refreshPending' = FALSE
    BY <1>1 DEF CopyGrayscaleBuffers, AfterDrain
  <2> QED BY <2>3, <2>4, QuietBuffers
<1>2. ASSUME NEW turnOff \in BOOLEAN, NEW factory \in BOOLEAN, NEW o \in Outcome,
             DisplayGrayBuffer(turnOff, factory, s, o)
      PROVE  BufferInv'
  <2>1. panel' \in DriverState
    BY <1>0, <1>2, GrayType DEF DisplayGrayBuffer, AfterDrain
  <2>2. stale' \in [red : Freshness, active : Freshness, bw : Freshness]
    BY <1>2 DEF DisplayGrayBuffer, BufferInv, TypeOK, Freshness, Reason
  <2>3. TypeOK'
    BY <1>2, <2>1, <2>2 DEF BufferInv, TypeOK, DisplayGrayBuffer, AfterDrain, buffers, flags
  <2>4. UNCHANGED buffers /\ refreshPending' = FALSE
    BY <1>2 DEF DisplayGrayBuffer, AfterDrain
  <2> QED BY <2>3, <2>4, QuietBuffers
<1> QED BY <1>1, <1>2

(* The gray cleanups rewrite the draw buffer, which is never the one held. *)
LEMMA CleanupBuffers ==
  ASSUME BufferInv, NEW s \in Outcome,
         CleanupGrayscaleBuffers(s) \/ CleanupGrayscaleWithPreviousBuffer(s)
  PROVE  BufferInv'
<1> DEFINE page == IF CleanupGrayscaleBuffers(s) THEN shown ELSE mem[frameBufferActive]
           copy == IF CleanupGrayscaleBuffers(s) THEN Phys(shown) ELSE mem[frameBufferActive]
<1>0. TypeOK /\ RolesOK
  BY DEF BufferInv
<1>1. page \in Image /\ copy \in Image
  <2>1. CASE CleanupGrayscaleBuffers(s)
    BY <1>0, <2>1, PhysType, FrameAssumption DEF CleanupGrayscaleBuffers, TypeOK
  <2>2. CASE ~CleanupGrayscaleBuffers(s)
    BY <1>0, <2>2 DEF CleanupGrayscaleWithPreviousBuffer, TypeOK, RolesOK, Slot, Null
  <2> QED BY <2>1, <2>2
<1>2. /\ panel' = (IF inverted THEN Drained(s) ELSE CleanupGrayscale(Drained(s), page))
      /\ mem' = [mem EXCEPT ![frameBuffer] = copy]
      /\ \E red \in Freshness : stale' = (IF inverted THEN stale ELSE RedRestored(red))
  BY <1>0 DEF CleanupGrayscaleBuffers, CleanupGrayscaleWithPreviousBuffer, AfterDrain, TypeOK, Freshness
<1> HIDE DEF page, copy
<1>3. Drained(s) \in DriverState
  BY <1>0, DrainedType
<1>4. panel' \in DriverState
  BY <1>1, <1>2, <1>3, CleanupType
<1>5. stale' \in [red : Freshness, active : Freshness, bw : Freshness]
  BY <1>0, <1>2 DEF TypeOK, RedRestored, Freshness, Reason
<1>6. /\ Usable /\ refreshPending' = FALSE /\ held' = FALSE
      /\ UNCHANGED <<frameBuffer, frameBufferActive, secondaryLent, redBaselineAuthoritative, flags, awake, shown>>
  BY DEF CleanupGrayscaleBuffers, CleanupGrayscaleWithPreviousBuffer, AfterDrain
<1>7. mem' \in [Slot -> Image \cup {NoFrame}]
  BY <1>0, <1>1, <1>2 DEF TypeOK
<1>8. TypeOK'
  BY <1>0, <1>4, <1>5, <1>6, <1>7 DEF TypeOK, flags
<1> QED BY <1>1, <1>2, <1>6, <1>8, RewriteBuffers

(* requestResync(), a late BUSY release and the fast-diff opt-in keep      *)
(* every role.                                                             *)
LEMMA FlagBuffers ==
  ASSUME BufferInv, RequestResync \/ BusyReleases \/ \E b \in BOOLEAN : SetSingleBufferFastDiff(b)
  PROVE  BufferInv'
<1>1. CASE RequestResync
  <2>1. panel' \in DriverState
    BY <1>1, RamWriteType DEF RequestResync, BufferInv, TypeOK, RequestDriverResync, DriverState
  <2> QED BY <1>1, <2>1, QuietBuffers DEF BufferInv, TypeOK, RequestResync, buffers, flags
<1>2. CASE BusyReleases
  <2>1. panel' \in DriverState
    BY <1>2 DEF BusyReleases, BufferInv, TypeOK, DriverState
  <2> QED BY <1>2, <2>1, QuietBuffers DEF BufferInv, TypeOK, BusyReleases, buffers, flags
<1>3. CASE \E b \in BOOLEAN : SetSingleBufferFastDiff(b)
  BY <1>3, QuietBuffers DEF BufferInv, TypeOK, SetSingleBufferFastDiff, buffers
<1> QED BY <1>1, <1>2, <1>3

(* Every step of the facade keeps the blocks in order.                     *)
LEMMA BufferInvNext == BufferInv /\ [Next]_vars => BufferInv'
<1> SUFFICES ASSUME BufferInv, [Next]_vars PROVE BufferInv'
  OBVIOUS
<1> USE HostAssumption
<1>1. ASSUME NEW img \in Image, Draw(img) PROVE BufferInv'
  BY <1>1, DrawBuffers
<1>2. ASSUME NEW mode \in RefreshMode, NEW off \in TurnOff, NEW s \in Answer, NEW o \in Answer,
             DisplayBuffer(mode, off, s, o) \/ TriggerDisplay(mode, off, s, o)
      PROVE  BufferInv'
  <2>1. off \in BOOLEAN /\ s \in Outcome /\ o \in Outcome
    OBVIOUS
  <2>2. Usable /\ (BlockingUpdate(mode, off, s, o) \/ DeferredUpdate(mode, off, s))
    BY <1>2 DEF DisplayBuffer, TriggerDisplay
  <2> QED BY <2>1, <2>2, BlockingBuffers, DeferredBuffers
<1>3. ASSUME NEW win \in Window, NEW off \in TurnOff, NEW s \in Answer, NEW o \in Answer,
             DisplayWindowed(win, off, s, o)
      PROVE  BufferInv'
  <2>1. off \in BOOLEAN /\ s \in Outcome /\ o \in Outcome /\ "FAST" \in RefreshMode
    BY DEF RefreshMode
  <2>2. Usable /\ (BlockingUpdate("FAST", off, s, o) \/ WindowedUpdate(win, off, s, o))
    BY <1>3 DEF DisplayWindowed
  <2> QED BY <2>1, <2>2, BlockingBuffers, WindowedBuffers
<1>4. ASSUME NEW s \in Answer,
             \/ SyncPendingAsync(s) \/ SetInverted(s)
             \/ ReleaseSecondaryBuffer(s) \/ BorrowSecondaryBuffer(s) \/ ReleaseBuffers(s)
             \/ SyncRedRamFromFrameBuffer(s)
             \/ CleanupGrayscaleBuffers(s) \/ CleanupGrayscaleWithPreviousBuffer(s)
      PROVE  BufferInv'
  <2>1. s \in Outcome
    OBVIOUS
  <2> QED BY <1>4, <2>1, SyncBuffers, ReleaseSecondaryBuffers, BorrowBuffers, ReleaseAllBuffers,
             SeedBuffers, CleanupBuffers
<1>5. ASSUME ReallocSecondaryBuffer \/ ReturnSecondaryBuffer PROVE BufferInv'
  BY <1>5, ReallocSecondaryBuffers, ReturnSecondaryBuffers
<1>6. ASSUME NEW ok \in BOOLEAN, ReallocBuffers(ok) \/ Boot(ok) PROVE BufferInv'
  BY <1>6, ReallocAllBuffers, RebootBuffers
<1>7. ASSUME NEW lsb \in GrayPlane, NEW msb \in GrayPlane, NEW s \in Answer,
             CopyGrayscaleBuffers(lsb, msb, s)
      PROVE  BufferInv'
  <2>1. lsb \in Image /\ msb \in Image /\ s \in Outcome
    OBVIOUS
  <2> QED BY <1>7, <2>1, GrayBuffers
<1>8. ASSUME NEW off \in TurnOff, NEW factory \in BOOLEAN, NEW s \in Answer, NEW o \in Answer,
             DisplayGrayBuffer(off, factory, s, o)
      PROVE  BufferInv'
  <2>1. off \in BOOLEAN /\ s \in Outcome /\ o \in Outcome
    OBVIOUS
  <2> QED BY <1>8, <2>1, GrayBuffers
<1>9. ASSUME NEW s \in Answer, NEW o \in Answer, DeepSleep(s, o) PROVE BufferInv'
  <2>1. s \in Outcome /\ o \in Outcome
    OBVIOUS
  <2> QED BY <1>9, <2>1, RebootBuffers
<1>10. ASSUME RequestResync \/ BusyReleases \/ \E b \in BOOLEAN : SetSingleBufferFastDiff(b)
       PROVE  BufferInv'
  BY <1>10, FlagBuffers
<1>11. CASE UNCHANGED vars
  BY <1>11 DEF BufferInv, TypeOK, RolesOK, HeldOK, vars, buffers, flags
<1>12. CASE Next
  BY <1>1, <1>2, <1>3, <1>4, <1>5, <1>6, <1>7, <1>8, <1>9, <1>10, <1>12 DEF Next
<1> QED BY <1>11, <1>12

(* Blocks, roles and the panel's state stay well typed, and the block of a *)
(* pending refresh stays put, whatever the host calls and BUSY answers.    *)
THEOREM BuffersInOrder == Spec => []BufferInv
<1> QED BY BufferInvInit, BufferInvNext, PTL DEF Spec

(* The facade's variables keep their types.                                *)
THEOREM TypeCorrect == Spec => []TypeOK
<1>1. BufferInv => TypeOK
  BY DEF BufferInv
<1> QED BY <1>1, BuffersInOrder, PTL

(* No block is drawn on, diffed against or lent while it is free or has    *)
(* another role: releases, loans, restorations and swaps in any order.     *)
THEOREM BlocksOwned == Spec => []BuffersOwned
<1>1. BufferInv => BuffersOwned
  BY DEF BufferInv, TypeOK, RolesOK, BuffersOwned, Slot, Null
<1> QED BY <1>1, BuffersInOrder, PTL

(* A step that rewrites a block is the host drawing or a cleanup on the    *)
(* draw buffer, or ends, or starts, every role of the block it rewrites.   *)
LEMMA LentKept ==
  ASSUME BufferInv, [Next]_vars, secondaryLent # Null, secondaryLent' = secondaryLent
  PROVE  mem'[secondaryLent] = mem[secondaryLent]
<1>1. /\ frameBufferActive = Null /\ frameBuffer # secondaryLent
      /\ mem \in [Slot -> Image \cup {NoFrame}] /\ secondaryLent \in Slot
  BY DEF BufferInv, TypeOK, RolesOK, Slot, Null
<1>2. CASE UNCHANGED mem
  BY <1>2
<1>3. ASSUME NEW img, Draw(img) PROVE mem'[secondaryLent] = mem[secondaryLent]
  BY <1>1, <1>3 DEF Draw
<1>4. CASE \E s \in Answer : \/ CleanupGrayscaleBuffers(s) \/ CleanupGrayscaleWithPreviousBuffer(s)
  BY <1>1, <1>4 DEF CleanupGrayscaleBuffers, CleanupGrayscaleWithPreviousBuffer
<1>5. CASE \/ ReallocSecondaryBuffer \/ ReturnSecondaryBuffer
           \/ \E ok \in BOOLEAN : ReallocBuffers(ok) \/ Boot(ok)
           \/ \E s \in Answer : ReleaseSecondaryBuffer(s) \/ ReleaseBuffers(s)
           \/ \E s, o \in Answer : DeepSleep(s, o)
  BY <1>1, <1>5 DEF ReallocSecondaryBuffer, ReturnSecondaryBuffer, ReallocBuffers, Restore, Boot,
                    ForgetRam, ReleaseSecondaryBuffer, ReleaseBuffers, DeepSleep
<1>6. CASE \/ \E mode \in RefreshMode, off \in TurnOff, s, o \in Answer :
                DisplayBuffer(mode, off, s, o) \/ TriggerDisplay(mode, off, s, o)
           \/ \E win \in Window, off \in TurnOff, s, o \in Answer : DisplayWindowed(win, off, s, o)
  BY <1>6, <1>2 DEF DisplayBuffer, TriggerDisplay, DisplayWindowed, BlockingUpdate, DeferredUpdate,
                    WindowedUpdate, buffers
<1>7. CASE \/ \E s \in Answer : \/ SyncPendingAsync(s) \/ SetInverted(s) \/ BorrowSecondaryBuffer(s)
                                \/ SyncRedRamFromFrameBuffer(s)
           \/ \E lsb, msb \in GrayPlane, s \in Answer : CopyGrayscaleBuffers(lsb, msb, s)
           \/ \E off \in TurnOff, factory \in BOOLEAN, s, o \in Answer :
                DisplayGrayBuffer(off, factory, s, o)
  BY <1>7, <1>2 DEF SyncPendingAsync, SetInverted, BorrowSecondaryBuffer, SyncRedRamFromFrameBuffer,
                    CopyGrayscaleBuffers, DisplayGrayBuffer, buffers
<1>8. CASE \/ \E b \in BOOLEAN : SetSingleBufferFastDiff(b)
           \/ RequestResync \/ BusyReleases \/ UNCHANGED vars
  BY <1>8, <1>2 DEF SetSingleBufferFastDiff, RequestResync, BusyReleases, buffers, vars
<1> QED BY <1>3, <1>4, <1>5, <1>6, <1>7, <1>8 DEF Next

(* A block the host has borrowed is neither drawn on nor freed until it    *)
(* gives the block back, whatever it calls meanwhile.                      *)
THEOREM LoanRespected == Spec => LentUntouched
<1>1. BufferInv /\ [Next]_vars
        => [secondaryLent # Null /\ secondaryLent' = secondaryLent
              => mem'[secondaryLent] = mem[secondaryLent]]_vars
  BY LentKept
<1> QED BY <1>1, BuffersInOrder, PTL DEF Spec, LentUntouched

(* What displayFinish() re-reads after a deferred refresh is the frame     *)
(* that was submitted: nobody frees, lends, swaps or draws over it first.  *)
THEOREM PendingHeld == Spec => []PendingFrameHeld
<1>1. BufferInv => PendingFrameHeld
  BY DEF BufferInv, HeldOK, PendingFrameHeld
<1> QED BY <1>1, BuffersInOrder, PTL

-----------------------------------------------------------------------------
(* ScreenInv, for a host that keeps the documented rules.                  *)

LEMMA ScreenInvInit == ~BeginMayHang /\ Init => ScreenInv
<1> SUFFICES ASSUME ~BeginMayHang, Init PROVE ScreenInv
  OBVIOUS
<1>0. PICK glass \in [Region -> Ink] : panel = BeginController(glass)
  BY DEF Init, Begun
<1>1. PanelOK(panel, NoFrame) /\ Idle(panel) /\ Promotes(panel)
  BY <1>0, BeginOK
<1>2. PanelInv
  BY <1>1 DEF Init, PanelInv, Idle
<1>3. StoresOK
  BY <1>0, <1>1 DEF Init, StoresOK, Fresh, BeginController
<1> QED BY <1>2, <1>3, BufferInvInit DEF ScreenInv

(* Draining the pending refresh leaves an idle panel that owes the same    *)
(* frame and holds the same planes.                                        *)
LEMMA DrainedOK ==
  ASSUME BufferInv, PanelInv, awake, NEW s \in Outcome
  PROVE  /\ PanelOK(Drained(s), shown) /\ Idle(Drained(s))
         /\ SamePlanes(panel, Drained(s)) /\ KeepsFlags(panel, Drained(s))
<1>1. PanelOK(panel, shown)
  BY DEF PanelInv
<1>2. CASE refreshPending
  BY <1>1, <1>2, FinishOK DEF Drained
<1>3. CASE ~refreshPending
  BY <1>1, <1>3 DEF Drained, PanelInv, PanelOK, Idle, SamePlanes, KeepsFlags
<1> QED BY <1>2, <1>3

(* The store the facade would diff against, when the host trusts it, holds *)
(* the frame on the glass.                                                 *)
LEMMA TrustedBaseline ==
  ASSUME HostMay = {}, ScreenInv, Usable, NEW s \in Outcome, NEW mode,
         mode = "FAST" => ~inversionDirty /\ HostTrustsBaseline
  PROVE  Baseline(Drained(s), shown, Phys(PrevFrameFor(mode)), mode)
<1> SUFFICES ASSUME mode = "FAST", ~Promotes(Drained(s))
             PROVE  IF Phys(PrevFrameFor(mode)) # NoFrame
                    THEN Phys(PrevFrameFor(mode)) = shown ELSE Drained(s).red = shown
  BY DEF Baseline
<1>1. PanelOK(Drained(s), shown) /\ SamePlanes(panel, Drained(s)) /\ KeepsFlags(panel, Drained(s))
  BY DrainedOK DEF ScreenInv, Usable
<1>2. ~Promotes(panel)
  BY <1>1, KeepsPromotion
<1>3. shown # NoFrame /\ shown \in Image
  BY <1>1, NothingOwed
<1>4. TypeOK /\ RolesOK /\ StoresOK /\ ~inversionDirty
  BY DEF ScreenInv, BufferInv
<1>5. CASE frameBufferActive # Null /\ ~redBaselineAuthoritative
  <2>1. PrevFrameFor(mode) = mem[frameBufferActive]
    BY <1>5 DEF PrevFrameFor, Frame
  <2>2. stale.active = "fresh"
    BY <1>4, <1>5 DEF HostTrustsBaseline, Overlooked, StoresOK
  <2>3. Phys(mem[frameBufferActive]) = shown
    BY <1>3, <1>4, <1>5, <2>2 DEF StoresOK
  <2> QED BY <1>3, <2>1, <2>3
<1>6. CASE ~(frameBufferActive # Null /\ ~redBaselineAuthoritative)
  <2>1. PrevFrameFor(mode) = NoFrame
    BY <1>6 DEF PrevFrameFor, Frame
  <2>2. Phys(PrevFrameFor(mode)) = NoFrame
    BY <2>1 DEF Phys
  <2>3. stale.red = "fresh"
    BY <1>2, <1>4, <1>6 DEF HostTrustsBaseline, Overlooked, StoresOK
  <2> QED BY <1>1, <1>2, <1>3, <1>4, <2>2, <2>3 DEF StoresOK, SamePlanes
<1> QED BY <1>5, <1>6

(* PanelInv of an awake facade.                                            *)
LEMMA PanelInvAwake ==
  ASSUME TypeOK', awake', PanelOK(panel', shown'), Idle(panel') \/ refreshPending'
  PROVE  PanelInv'
  BY DEF PanelInv, TypeOK, Idle

(* A blocking update pays its debt or leaves a promotion, and swaps a      *)
(* fresh frame in.                                                         *)
LEMMA BlockingScreen ==
  ASSUME HostMay = {}, ScreenInv, BufferInv', Usable,
         NEW mode \in RefreshMode, NEW turnOff \in BOOLEAN,
         NEW s \in Outcome, NEW o \in Outcome, BlockingUpdate(mode, turnOff, s, o)
  PROVE  ScreenInv'
<1> DEFINE eff  == ResolveReleasedMode(IF inversionDirty THEN "HALF" ELSE mode)
           prev == PrevFrameFor(eff)
           fb   == Phys(mem[frameBuffer])
<1>0. TypeOK /\ RolesOK /\ awake
  BY DEF ScreenInv, BufferInv, Usable
<1>1. eff \in RefreshMode /\ fb \in Image /\ Phys(prev) \in Image \cup {NoFrame}
      /\ (Phys(prev) = NoFrame <=> prev = NoFrame)
  BY <1>0, ModeType, PrevType, DrawBuffer, PhysType, FrameAssumption
<1>2. /\ panel' = Display(Drained(s), fb, Phys(prev), eff, turnOff, o)
      /\ shown' = fb
      /\ stale' = RedAfter(eff, prev, "fresh")
      /\ SwapBuffers
      /\ UNCHANGED <<mem, secondaryLent, inverted, awake>>
  BY DEF BlockingUpdate, AfterDrain
<1>3. eff = "FAST" => ~inversionDirty /\ HostTrustsBaseline
  BY DEF BlockingUpdate, ResolveReleasedMode
<1>4. fb = Phys(mem[frameBuffer]) /\ prev = PrevFrameFor(eff)
  OBVIOUS
<1> HIDE DEF eff, prev, fb
<1>5. Baseline(Drained(s), shown, Phys(prev), eff)
  BY <1>3, <1>4, TrustedBaseline
<1>6. PanelOK(Drained(s), shown) /\ Idle(Drained(s))
  BY <1>0, DrainedOK DEF ScreenInv
<1>7. PanelOK(panel', fb) /\ Idle(panel') /\ PlanesHold(panel', fb, Phys(prev) = NoFrame \/ eff # "FAST")
  BY <1>1, <1>2, <1>5, <1>6, DisplayOK
<1>8. PanelInv'
  BY <1>0, <1>2, <1>7, PanelInvAwake DEF BufferInv
<1>9. StoresOK'
  <2>1. stale'.active = "fresh" /\ stale'.bw = "fresh" /\ stale'.red \in {"fresh", "turn"}
        /\ (stale'.red = "fresh" => prev = NoFrame \/ eff # "FAST")
    BY <1>2 DEF RedAfter, Fresh
  <2>2. frameBufferActive' # Null => frameBufferActive' = frameBuffer
    BY <1>0, <1>2, SwapRoles
  <2>3. frameBufferActive' # Null => Phys(mem[frameBufferActive])' = shown'
    BY <1>2, <1>4, <2>2 DEF Phys
  <2>4. \/ panel'.needsInitialFull
        \/ ~Promotes(panel') /\ panel'.bw = shown' /\ (stale'.red = "fresh" => panel'.red = shown')
    BY <1>1, <1>2, <1>7, <2>1 DEF PlanesHold
  <2> QED BY <2>1, <2>3, <2>4 DEF StoresOK, Promotes
<1> QED BY <1>8, <1>9 DEF ScreenInv

(* A deferred update owes its frame to the drain, and so does any plane    *)
(* behind it.                                                              *)
LEMMA DeferredScreen ==
  ASSUME HostMay = {}, ScreenInv, BufferInv', Usable, ~inverted, ~inversionDirty,
         NEW mode \in RefreshMode, NEW turnOff \in BOOLEAN,
         NEW s \in Outcome, DeferredUpdate(mode, turnOff, s)
  PROVE  ScreenInv'
<1> DEFINE eff  == ResolveReleasedMode(mode)
           prev == PrevFrameFor(eff)
           fb   == mem[frameBuffer]
<1>0. TypeOK /\ RolesOK /\ awake
  BY DEF ScreenInv, BufferInv, Usable
<1>1. eff \in RefreshMode /\ fb \in Image /\ prev \in Image \cup {NoFrame}
  BY <1>0, ModeType, PrevType, DrawBuffer
<1>2. /\ panel' = DisplayStart(Drained(s), fb, prev, eff, turnOff)
      /\ shown' = fb /\ refreshPending' = TRUE
      /\ stale' = RedAfter(eff, prev, "async")
      /\ SwapBuffers
      /\ UNCHANGED <<mem, secondaryLent, inverted, awake>>
  BY DEF DeferredUpdate, flags
<1>3. eff = "FAST" => HostTrustsBaseline
  BY DEF DeferredUpdate
<1>4. fb = mem[frameBuffer] /\ prev = PrevFrameFor(eff) /\ Phys(prev) = prev
  BY DEF Phys
<1> HIDE DEF eff, prev, fb
<1>5. Baseline(Drained(s), shown, Phys(prev), eff)
  BY <1>3, <1>4, TrustedBaseline
<1>6. PanelOK(Drained(s), shown) /\ Idle(Drained(s))
  BY <1>0, DrainedOK DEF ScreenInv
<1>7. PanelOK(panel', fb) /\ PlanesHold(panel', fb, eff # "FAST")
  BY <1>1, <1>2, <1>4, <1>5, <1>6, StartOK
<1>8. PanelInv'
  BY <1>0, <1>2, <1>7, PanelInvAwake DEF BufferInv
<1>9. StoresOK'
  <2>1. stale'.active = "fresh" /\ stale'.bw = "fresh" /\ stale'.red \in {"fresh", "turn", "async"}
        /\ (stale'.red = "fresh" => eff # "FAST")
    BY <1>2 DEF RedAfter, Fresh
  <2>2. frameBufferActive' # Null => frameBufferActive' = frameBuffer
    BY <1>0, <1>2, SwapRoles
  <2>3. frameBufferActive' # Null => Phys(mem[frameBufferActive])' = shown'
    BY <1>2, <1>4, <2>2 DEF Phys
  <2>4. \/ panel'.needsInitialFull
        \/ ~Promotes(panel') /\ panel'.bw = shown' /\ (stale'.red = "fresh" => panel'.red = shown')
    BY <1>2, <1>7, <2>1 DEF PlanesHold
  <2> QED BY <2>1, <2>3, <2>4 DEF StoresOK, Promotes
<1> QED BY <1>8, <1>9 DEF ScreenInv

(* An update of a window that is not promoted finds the page in BW.        *)
LEMMA WindowBase ==
  ASSUME HostMay = {}, ScreenInv, awake, NEW s \in Outcome, Overlooked(stale.bw), ~Promotes(Drained(s))
  PROVE  shown \in Image /\ Drained(s).bw = shown
<1>1. PanelOK(Drained(s), shown) /\ SamePlanes(panel, Drained(s)) /\ KeepsFlags(panel, Drained(s))
  BY DrainedOK DEF ScreenInv
<1>2. ~Promotes(panel) /\ shown # NoFrame /\ shown \in Image
  BY <1>1, KeepsPromotion, NothingOwed
<1>3. stale.bw = "fresh"
  BY <1>2 DEF Overlooked, ScreenInv, StoresOK
<1> QED BY <1>1, <1>2, <1>3 DEF ScreenInv, StoresOK, SamePlanes

(* A windowed update develops its window and leaves the rest of the page   *)
(* alone.                                                                  *)
LEMMA WindowedScreen ==
  ASSUME HostMay = {}, ScreenInv, BufferInv', Usable, ~inverted, ~inversionDirty,
         NEW win, NEW turnOff \in BOOLEAN, NEW s \in Outcome, NEW o \in Outcome,
         WindowedUpdate(win, turnOff, s, o)
  PROVE  ScreenInv'
<1> DEFINE d0   == Drained(s)
           prev == Frame(frameBufferActive)
           fb   == mem[frameBuffer]
<1>0. TypeOK /\ RolesOK /\ awake /\ StoresOK
  BY DEF ScreenInv, BufferInv, Usable
<1>1. fb \in Image /\ prev \in Image \cup {NoFrame}
  BY <1>0, DrawBuffer DEF TypeOK, Frame, Slot, Null
<1>2. /\ panel' = DisplayWindow(d0, fb, prev, win, turnOff, o)
      /\ shown' = (IF Promotes(d0) \/ shown = NoFrame THEN fb ELSE Patch(shown, fb, win))
      /\ stale' = [red    |-> IF Promotes(d0) THEN "fresh" ELSE IF prev = NoFrame THEN stale.red ELSE "turn",
                   active |-> IF prev = NoFrame THEN "fresh" ELSE "window",
                   bw     |-> IF Promotes(d0) THEN "fresh" ELSE stale.bw]
      /\ Overlooked(IF prev = NoFrame THEN stale.red ELSE stale.active) /\ Overlooked(stale.bw)
      /\ refreshPending' = FALSE
      /\ UNCHANGED <<buffers, flags, awake>>
  BY DEF WindowedUpdate, AfterDrain
<1>3. PanelOK(d0, shown) /\ Idle(d0) /\ SamePlanes(panel, d0) /\ KeepsFlags(panel, d0)
  BY <1>0, DrainedOK DEF ScreenInv
<1>4. ~Promotes(d0) => ~Promotes(panel) /\ shown # NoFrame
  BY <1>3, KeepsPromotion, NothingOwed
<1>5. prev # NoFrame <=> frameBufferActive # Null
  BY <1>0 DEF TypeOK, RolesOK, Frame, Slot, Null
<1>6. prev # NoFrame => prev = mem[frameBufferActive] /\ Phys(prev) = prev
  BY <1>5 DEF Frame, Phys
<1> HIDE DEF d0, prev, fb
<1>7. Baseline(d0, shown, prev, "FAST")
  <2> SUFFICES ASSUME ~Promotes(d0) PROVE IF prev # NoFrame THEN prev = shown ELSE d0.red = shown
    BY DEF Baseline
  <2>1. CASE prev # NoFrame
    <3>1. stale.active = "fresh"
      BY <1>0, <1>2, <2>1 DEF Overlooked, StoresOK
    <3> QED BY <1>0, <1>4, <1>5, <1>6, <2>1, <3>1 DEF StoresOK
  <2>2. CASE prev = NoFrame
    <3>1. stale.red = "fresh"
      BY <1>0, <1>2, <1>4, <2>2 DEF Overlooked, StoresOK
    <3> QED BY <1>0, <1>3, <1>4, <2>2, <3>1 DEF StoresOK, SamePlanes
  <2> QED BY <2>1, <2>2
<1>8. ~Promotes(d0) => d0.bw = shown
  BY <1>0, <1>2, WindowBase DEF d0
<1>9. PanelOK(panel', shown') /\ Idle(panel') /\ PlanesHold(panel', shown', prev = NoFrame \/ Promotes(d0))
  BY <1>1, <1>2, <1>3, <1>7, <1>8, WindowOK
<1>10. PanelInv'
  BY <1>0, <1>2, <1>9, PanelInvAwake DEF BufferInv
<1>11. StoresOK'
  <2>1. "lit" \in {stale'.red, stale'.bw} => FALSE
    BY <1>0, <1>2, <1>4 DEF StoresOK
  <2>2. stale'.active \in {"fresh", "window"} /\ (stale'.active = "fresh" => frameBufferActive' = Null)
    BY <1>2, <1>5 DEF buffers
  <2>3. \/ panel'.needsInitialFull
        \/ ~Promotes(panel') /\ panel'.bw = shown' /\ (stale'.red = "fresh" => panel'.red = shown')
    BY <1>2, <1>9 DEF PlanesHold
  <2> QED BY <2>1, <2>2, <2>3 DEF StoresOK, Promotes
<1> QED BY <1>10, <1>11 DEF ScreenInv

(* A handler that only drains the pending refresh: the planes stay, and    *)
(* the secondary stays, is dropped, or is distrusted by an inversion.      *)
LEMMA DrainScreen ==
  ASSUME ScreenInv, BufferInv', awake, awake', NEW s \in Outcome, panel' = Drained(s),
         shown' = shown, stale' = stale, inversionDirty => inversionDirty',
         frameBufferActive' # Null /\ ~inversionDirty'
           => frameBufferActive # Null /\ Phys(mem[frameBufferActive])' = Phys(mem[frameBufferActive])
  PROVE  ScreenInv'
<1>1. /\ PanelOK(panel', shown') /\ Idle(panel')
      /\ SamePlanes(panel, panel') /\ KeepsFlags(panel, panel')
  BY DrainedOK DEF ScreenInv
<1>2. PanelInv'
  BY <1>1, PanelInvAwake DEF BufferInv
<1>3. Promotes(panel) => Promotes(panel')
  BY <1>1, KeepsPromotion
<1>4. StoresOK'
  BY <1>1, <1>3 DEF ScreenInv, StoresOK, SamePlanes, KeepsFlags
<1> QED BY <1>2, <1>4 DEF ScreenInv

(* The drains and setInverted() keep the stores honest.                    *)
LEMMA SyncScreen ==
  ASSUME ScreenInv, BufferInv', NEW s \in Outcome,
         \/ SyncPendingAsync(s) \/ SetInverted(s) \/ ReleaseSecondaryBuffer(s)
         \/ BorrowSecondaryBuffer(s) \/ ReleaseBuffers(s)
  PROVE  ScreenInv'
<1>1. CASE SyncPendingAsync(s)
  <2>1. awake
    BY <1>1 DEF SyncPendingAsync, ScreenInv, PanelInv
  <2>2. Phys(mem[frameBufferActive])' = Phys(mem[frameBufferActive])
    BY <1>1 DEF SyncPendingAsync, Phys, buffers, flags
  <2> QED BY <1>1, <2>1, <2>2, DrainScreen DEF SyncPendingAsync, AfterDrain, buffers, flags
<1>2. CASE SetInverted(s)
  BY <1>2, DrainScreen DEF SetInverted, AfterDrain
<1>3. CASE ReleaseSecondaryBuffer(s)
  BY <1>3, DrainScreen DEF ReleaseSecondaryBuffer, AfterDrain, Usable, flags
<1>4. CASE BorrowSecondaryBuffer(s)
  BY <1>4, DrainScreen DEF BorrowSecondaryBuffer, AfterDrain, Usable, flags
<1>5. CASE ReleaseBuffers(s)
  BY <1>5, DrainScreen DEF ReleaseBuffers, AfterDrain, flags
<1> QED BY <1>1, <1>2, <1>3, <1>4, <1>5

(* A handler that leaves the panel alone.                                  *)
LEMMA PanelInvSame ==
  ASSUME PanelInv, UNCHANGED <<panel, refreshPending, awake, shown>>
  PROVE  PanelInv'
  BY DEF PanelInv

(* Drawing touches neither the panel nor any baseline.                     *)
LEMMA DrawScreen ==
  ASSUME ScreenInv, BufferInv', NEW img \in Image, Draw(img)
  PROVE  ScreenInv'
<1>1. PanelInv'
  BY PanelInvSame DEF ScreenInv, Draw
<1>2. frameBufferActive # Null => mem'[frameBufferActive] = mem[frameBufferActive]
  BY DEF ScreenInv, BufferInv, TypeOK, Draw, Usable, Slot, Null
<1>3. StoresOK'
  BY <1>2 DEF ScreenInv, StoresOK, Draw, Phys, flags
<1> QED BY <1>1, <1>3 DEF ScreenInv

(* A restored secondary is trusted only when it copies the frame on the    *)
(* glass.                                                                  *)
LEMMA RestoreScreen ==
  ASSUME ScreenInv, BufferInv', ReallocSecondaryBuffer \/ ReturnSecondaryBuffer
  PROVE  ScreenInv'
<1>1. PICK slot \in Slot : Restore(slot)
  BY DEF ReallocSecondaryBuffer, ReturnSecondaryBuffer, ScreenInv, BufferInv, TypeOK, Slot
<1>2. /\ mem' = [mem EXCEPT ![slot] = IF frameBuffer = Null THEN White ELSE mem[frameBuffer]]
      /\ frameBufferActive' = slot
      /\ stale' = [stale EXCEPT !.active =
                     IF frameBuffer # Null /\ Phys(mem[frameBuffer]) = shown THEN "fresh" ELSE "copied"]
      /\ UNCHANGED <<refreshPending, inverted, inversionDirty, panel, awake, shown>>
  BY <1>1 DEF Restore, flags
<1>3. PanelInv'
  BY <1>2, PanelInvSame DEF ScreenInv
<1>4. stale' \in [red : Freshness, active : Freshness, bw : Freshness]
      /\ stale'.red = stale.red /\ stale'.bw = stale.bw /\ stale'.active \in {"fresh", "copied"}
      /\ (stale'.active = "fresh" => frameBuffer # Null /\ Phys(mem[frameBuffer]) = shown)
  BY <1>2 DEF ScreenInv, BufferInv, TypeOK
<1>5. frameBuffer # Null => mem'[frameBufferActive'] = mem[frameBuffer]
  BY <1>2 DEF ScreenInv, BufferInv, TypeOK
<1>6. StoresOK'
  BY <1>2, <1>4, <1>5 DEF ScreenInv, StoresOK, Phys
<1> QED BY <1>3, <1>6 DEF ScreenInv

(* reallocBuffers() distrusts the secondary it fills with white.           *)
LEMMA ReallocScreen ==
  ASSUME ScreenInv, BufferInv', NEW ok \in BOOLEAN, ReallocBuffers(ok)
  PROVE  ScreenInv'
<1>1. PanelInv'
  BY PanelInvSame DEF ScreenInv, ReallocBuffers
<1>2. stale'.red = stale.red /\ stale'.bw = stale.bw /\ stale'.active = "realloc"
  BY DEF ReallocBuffers, ScreenInv, BufferInv, TypeOK
<1>3. StoresOK'
  BY <1>2 DEF ScreenInv, StoresOK, ReallocBuffers, flags
<1> QED BY <1>1, <1>3 DEF ScreenInv

(* syncRedRamFromFrameBuffer(): RED is as good as the frame it is given.   *)
LEMMA SeedScreen ==
  ASSUME ScreenInv, BufferInv', NEW s \in Outcome, SyncRedRamFromFrameBuffer(s)
  PROVE  ScreenInv'
<1> DEFINE onScreen == IF frameBufferActive # Null THEN frameBufferActive ELSE frameBuffer
           img == Phys(mem[onScreen])
           d0 == Drained(s)
<1>0. TypeOK /\ RolesOK /\ StoresOK /\ awake
  BY DEF ScreenInv, BufferInv, SyncRedRamFromFrameBuffer, Usable
<1>1. img \in Image
  <2>1. mem[onScreen] \in Image
    BY DEF ScreenInv, BufferInv, TypeOK, RolesOK, SyncRedRamFromFrameBuffer, Usable, Slot, Null
  <2> QED BY <1>0, <2>1, PhysType, FrameAssumption
<1>2. /\ panel' = SeedPreviousFrame(d0, img)
      /\ stale' = [stale EXCEPT !.red = IF frameBufferActive # Null THEN stale.active
                                        ELSE IF Phys(mem[frameBuffer]) = shown THEN "fresh" ELSE "asserted"]
      /\ refreshPending' = FALSE
      /\ UNCHANGED <<buffers, flags, awake, shown>>
  BY DEF SyncRedRamFromFrameBuffer, AfterDrain
<1>3. /\ stale'.active = stale.active /\ stale'.bw = stale.bw
      /\ stale'.red = IF frameBufferActive # Null THEN stale.active
                      ELSE IF Phys(mem[frameBuffer]) = shown THEN "fresh" ELSE "asserted"
  BY <1>0, <1>2 DEF TypeOK
<1>4. stale'.red = "fresh" /\ shown # NoFrame /\ ~inversionDirty => img = shown
  BY <1>0, <1>3 DEF StoresOK
<1> HIDE DEF img, d0
<1>5. PanelOK(d0, shown) /\ Idle(d0) /\ SamePlanes(panel, d0) /\ KeepsFlags(panel, d0)
  BY <1>0, DrainedOK DEF ScreenInv, d0
<1>6. /\ PanelOK(panel', shown) /\ Idle(panel') /\ panel'.red = img /\ panel'.bw = d0.bw
      /\ KeepsFlags(d0, panel')
  BY <1>1, <1>2, <1>5, RamWriteOK
<1>7. PanelInv'
  BY <1>0, <1>2, <1>6, PanelInvAwake DEF BufferInv
<1>8. Promotes(panel) => Promotes(panel')
  BY <1>5, <1>6, KeepsPromotion
<1>9. StoresOK'
  <2>1. "lit" \in {stale'.red, stale'.bw} => Promotes(panel')
    BY <1>0, <1>3, <1>8 DEF StoresOK
  <2>2. shown' # NoFrame /\ stale'.red = "fresh" /\ ~Promotes(panel') /\ ~inversionDirty' => panel'.red = shown'
    BY <1>2, <1>4, <1>6 DEF flags
  <2>3. shown' # NoFrame /\ stale'.bw = "fresh" /\ ~Promotes(panel') => panel'.bw = shown'
    BY <1>0, <1>2, <1>3, <1>5, <1>6, <1>8 DEF StoresOK, SamePlanes
  <2>4. shown' # NoFrame /\ stale'.active = "fresh" /\ ~inversionDirty' /\ frameBufferActive' # Null
          => Phys(mem[frameBufferActive])' = shown'
    BY <1>0, <1>2, <1>3 DEF StoresOK, Phys, buffers, flags
  <2>5. stale'.active \notin {"lit", "gray"}
    BY <1>0, <1>3 DEF StoresOK
  <2>6. stale'.bw = "fresh" /\ panel'.inGrayscaleMode => panel'.needsInitialFull
    BY <1>0, <1>3, <1>5, <1>6 DEF StoresOK, KeepsFlags
  <2> QED BY <2>1, <2>2, <2>3, <2>4, <2>5, <2>6 DEF StoresOK
<1> QED BY <1>7, <1>9 DEF ScreenInv

(* The masks go over an idle page: RED and BW stop being baselines.        *)
LEMMA CopyGrayScreen ==
  ASSUME ScreenInv, BufferInv', NEW lsb \in Image, NEW msb \in Image, NEW s \in Outcome,
         CopyGrayscaleBuffers(lsb, msb, s)
  PROVE  ScreenInv'
<1>0. TypeOK /\ StoresOK /\ awake
  BY DEF ScreenInv, BufferInv, CopyGrayscaleBuffers, Usable
<1>1. /\ panel' = CopyGrayscale(Drained(s), lsb, msb)
      /\ stale' = [stale EXCEPT !.red = "gray", !.bw = "gray"]
      /\ UNCHANGED <<buffers, flags, awake, shown>>
  BY DEF CopyGrayscaleBuffers, AfterDrain
<1>2. PanelOK(panel', shown) /\ Idle(panel')
  BY <1>0, <1>1, DrainedOK, RamWriteOK DEF ScreenInv
<1>3. PanelInv'
  BY <1>0, <1>1, <1>2, PanelInvAwake DEF BufferInv
<1>4. stale'.red = "gray" /\ stale'.bw = "gray" /\ stale'.active = stale.active
  BY <1>0, <1>1 DEF TypeOK
<1>5. StoresOK'
  BY <1>0, <1>1, <1>4 DEF StoresOK, Phys, buffers, flags
<1> QED BY <1>3, <1>5 DEF ScreenInv

(* A gray waveform leaves every later update promoted.                     *)
LEMMA DisplayGrayScreen ==
  ASSUME ScreenInv, BufferInv', NEW turnOff \in BOOLEAN, NEW factory \in BOOLEAN,
         NEW s \in Outcome, NEW o \in Outcome, DisplayGrayBuffer(turnOff, factory, s, o)
  PROVE  ScreenInv'
<1>0. TypeOK /\ StoresOK /\ awake
  BY DEF ScreenInv, BufferInv, DisplayGrayBuffer, Usable
<1>1. /\ panel' = DisplayGray(Drained(s), turnOff, factory, o)
      /\ shown' = (IF factory THEN NoFrame ELSE shown)
      /\ stale' = [stale EXCEPT !.red = "lit", !.bw = "lit"]
      /\ UNCHANGED <<buffers, flags, awake>>
  BY DEF DisplayGrayBuffer, AfterDrain
<1>2. PanelOK(Drained(s), shown) /\ Idle(Drained(s))
  BY <1>0, DrainedOK DEF ScreenInv
<1>3. PanelOK(panel', shown') /\ Idle(panel') /\ Promotes(panel')
  BY <1>1, <1>2, GrayOK
<1>4. PanelInv'
  BY <1>0, <1>1, <1>3, PanelInvAwake DEF BufferInv
<1>5. stale'.active = stale.active
  BY <1>0, <1>1 DEF TypeOK
<1>6. stale'.red = "lit" /\ stale'.bw = "lit"
  BY <1>0, <1>1 DEF TypeOK
<1>7. StoresOK'
  BY <1>0, <1>1, <1>3, <1>5, <1>6 DEF StoresOK, Phys, buffers, flags
<1> QED BY <1>4, <1>7 DEF ScreenInv

(* The cleanups give RED a page back; the LSB mask stays in BW.            *)
LEMMA CleanupScreen ==
  ASSUME ScreenInv, BufferInv', NEW s \in Outcome,
         CleanupGrayscaleBuffers(s) \/ CleanupGrayscaleWithPreviousBuffer(s)
  PROVE  ScreenInv'
<1> DEFINE page == IF CleanupGrayscaleBuffers(s) THEN shown ELSE mem[frameBufferActive]
           why  == IF CleanupGrayscaleBuffers(s) THEN "fresh" ELSE stale.active
           d0   == Drained(s)
<1>0. TypeOK /\ RolesOK /\ StoresOK /\ awake /\ Usable
  BY DEF ScreenInv, BufferInv, CleanupGrayscaleBuffers, CleanupGrayscaleWithPreviousBuffer, Usable
<1>1. /\ panel' = (IF inverted THEN d0 ELSE CleanupGrayscale(d0, page))
      /\ stale' = (IF inverted THEN stale ELSE RedRestored(why))
      /\ \E img \in Image : mem' = [mem EXCEPT ![frameBuffer] = img]
      /\ UNCHANGED <<frameBufferActive, flags, awake, shown>>
  <2>1. CASE CleanupGrayscaleBuffers(s)
    <3>1. Phys(shown) \in Image
      BY <1>0, <2>1, PhysType, FrameAssumption DEF CleanupGrayscaleBuffers, TypeOK
    <3> QED BY <2>1, <3>1 DEF CleanupGrayscaleBuffers, AfterDrain
  <2>2. CASE ~CleanupGrayscaleBuffers(s)
    <3>1. mem[frameBufferActive] \in Image
      BY <1>0, <2>2 DEF CleanupGrayscaleWithPreviousBuffer, TypeOK, RolesOK, Slot, Null
    <3> QED BY <2>2, <3>1 DEF CleanupGrayscaleWithPreviousBuffer, AfterDrain
  <2> QED BY <2>1, <2>2
<1>2. page \in Image
  BY <1>0 DEF CleanupGrayscaleBuffers, CleanupGrayscaleWithPreviousBuffer, TypeOK, RolesOK, Slot, Null
<1>3. frameBufferActive # Null => mem'[frameBufferActive] = mem[frameBufferActive]
  BY <1>0, <1>1 DEF TypeOK, Usable, Slot, Null
<1>4. ~inverted /\ ~inversionDirty /\ shown # NoFrame /\ why = "fresh" => page = shown
  <2>1. ~CleanupGrayscaleBuffers(s) => frameBufferActive # Null
    BY DEF CleanupGrayscaleWithPreviousBuffer
  <2> QED BY <1>0, <2>1 DEF StoresOK, Phys
<1>5. why \notin {"lit", "gray"}
  BY <1>0 DEF StoresOK
<1> HIDE DEF page, why, d0
<1>6. PanelOK(d0, shown) /\ Idle(d0) /\ SamePlanes(panel, d0) /\ KeepsFlags(panel, d0)
  BY <1>0, DrainedOK DEF ScreenInv, d0
<1>7. frameBufferActive' # Null => Phys(mem[frameBufferActive])' = Phys(mem[frameBufferActive])
  BY <1>1, <1>3 DEF Phys, flags
<1>8. CASE inverted
  <2>1. frameBufferActive # Null => Phys(mem[frameBufferActive])' = Phys(mem[frameBufferActive])
    BY <1>1, <1>7
  <2>2. /\ awake' /\ panel' = Drained(s) /\ shown' = shown /\ stale' = stale
        /\ inversionDirty' = inversionDirty /\ frameBufferActive' = frameBufferActive
    BY <1>0, <1>1, <1>8 DEF flags, d0
  <2> QED BY <1>0, <2>1, <2>2, DrainScreen
<1>9. CASE ~inverted
  <2>1. /\ PanelOK(panel', shown) /\ Idle(panel') /\ panel'.bw = d0.bw
        /\ panel'.needsGrayClear = d0.needsGrayClear /\ (d0.needsInitialFull => panel'.needsInitialFull)
        /\ panel'.needsInitialFull \/ (panel'.red = page /\ ~panel'.inGrayscaleMode)
    BY <1>1, <1>2, <1>6, <1>9, CleanupOK
  <2>2. PanelInv'
    BY <1>0, <1>1, <2>1, PanelInvAwake DEF BufferInv
  <2>3. /\ stale'.red = why /\ stale'.active = stale.active
        /\ stale'.bw = IF stale.bw \in {"gray", "lit"} THEN "lsb" ELSE stale.bw
    BY <1>0, <1>1, <1>9 DEF RedRestored, TypeOK
  <2>4. "lit" \notin {stale'.red, stale'.bw}
    BY <1>5, <2>3
  <2>5. shown' # NoFrame /\ stale'.red = "fresh" /\ ~Promotes(panel') /\ ~inversionDirty' => panel'.red = shown'
    BY <1>1, <1>4, <1>9, <2>1, <2>3 DEF flags, Promotes
  <2>6. shown' # NoFrame /\ stale'.bw = "fresh" /\ ~Promotes(panel') => panel'.bw = shown'
    <3> SUFFICES ASSUME shown' # NoFrame, stale'.bw = "fresh", ~Promotes(panel') PROVE panel'.bw = shown'
      OBVIOUS
    <3>1. stale.bw = "fresh"
      BY <2>3
    <3>2. ~panel.needsInitialFull /\ ~panel.needsGrayClear
      BY <1>6, <2>1 DEF Promotes, KeepsFlags
    <3>3. ~Promotes(panel)
      BY <1>0, <3>1, <3>2 DEF StoresOK, Promotes
    <3> QED BY <1>0, <1>1, <1>6, <2>1, <3>1, <3>3 DEF StoresOK, SamePlanes
  <2>7. StoresOK'
    BY <1>0, <1>1, <1>7, <2>1, <2>3, <2>4, <2>5, <2>6 DEF StoresOK, flags
  <2> QED BY <2>2, <2>7 DEF ScreenInv
<1> QED BY <1>8, <1>9

(* requestResync() and a late BUSY release write no plane and lift no      *)
(* promotion; the fast-diff opt-in touches no store.                       *)
LEMMA FlagScreen ==
  ASSUME ScreenInv, BufferInv', RequestResync \/ BusyReleases \/ \E b \in BOOLEAN : SetSingleBufferFastDiff(b)
  PROVE  ScreenInv'
<1>1. CASE RequestResync
  <2>1. awake /\ PanelOK(panel, shown) /\ panel' = RequestDriverResync(panel)
    BY <1>1 DEF RequestResync, ScreenInv, PanelInv
  <2>2. /\ PanelOK(panel', shown) /\ Promotes(panel') /\ panel'.wave = panel.wave
        /\ panel'.needsInitialFull = panel.needsInitialFull
        /\ panel'.inGrayscaleMode = panel.inGrayscaleMode
    BY <2>1, ResyncOK
  <2>3. PanelInv'
    BY <1>1, <2>1, <2>2 DEF RequestResync, ScreenInv, PanelInv
  <2>4. StoresOK'
    BY <1>1, <2>1, <2>2 DEF RequestResync, ScreenInv, StoresOK, Phys, buffers, flags
  <2> QED BY <2>3, <2>4 DEF ScreenInv
<1>2. CASE BusyReleases
  <2>1. PICK s \in Image \cup {NoFrame} : PanelOK(panel, s) /\ (awake => s = shown)
    BY DEF ScreenInv, PanelInv
  <2>2. panel.wave = "stuck" /\ panel' = [panel EXCEPT !.wave = "none"]
    BY <1>2 DEF BusyReleases
  <2>3. PanelOK(panel', s) /\ Idle(panel') /\ SamePlanes(panel, panel') /\ KeepsFlags(panel, panel')
    BY <2>1, <2>2, ReleaseOK
  <2>4. panel'.wave \in {"fast", "clean"} => FALSE
    BY <2>3 DEF Idle
  <2>5. PanelInv'
    BY <1>2, <2>1, <2>3, <2>4 DEF BusyReleases, ScreenInv, PanelInv
  <2>6. Promotes(panel) => Promotes(panel')
    BY <2>3, KeepsPromotion
  <2>7. StoresOK'
    BY <1>2, <2>3, <2>6 DEF BusyReleases, ScreenInv, StoresOK, Phys, SamePlanes, KeepsFlags, buffers, flags
  <2> QED BY <2>5, <2>7 DEF ScreenInv
<1>3. CASE \E b \in BOOLEAN : SetSingleBufferFastDiff(b)
  <2>1. UNCHANGED <<buffers, refreshPending, inverted, inversionDirty, panel, awake, shown, stale>>
    BY <1>3 DEF SetSingleBufferFastDiff
  <2>2. PanelInv'
    BY <2>1, PanelInvSame DEF ScreenInv
  <2>3. StoresOK'
    BY <2>1 DEF ScreenInv, StoresOK, Phys, buffers
  <2> QED BY <2>2, <2>3 DEF ScreenInv
<1> QED BY <1>1, <1>2, <1>3

(* Sleeping and booting forget the frame: nothing is owed until the next   *)
(* update, which the boot has promoted.                                    *)
LEMMA RebootScreen ==
  ASSUME ~BeginMayHang, ScreenInv, BufferInv'
  PROVE  /\ \A ok \in BOOLEAN : Boot(ok) => ScreenInv'
         /\ \A s, o \in Outcome : DeepSleep(s, o) => ScreenInv'
<1>1. ASSUME NEW ok \in BOOLEAN, Boot(ok) PROVE ScreenInv'
  <2>1. GlassAfterReset \subseteq [Region -> Ink]
    BY DevelopedType DEF GlassAfterReset, ScreenInv, BufferInv, TypeOK, DriverState, Ink
  <2>2. PICK glass \in [Region -> Ink] : panel' = BeginController(glass)
    BY <1>1, <2>1 DEF Boot, Begun
  <2>3. PanelOK(panel', NoFrame) /\ Idle(panel') /\ Promotes(panel')
    BY <2>2, BeginOK
  <2>4. shown' = NoFrame /\ stale' = Fresh /\ awake'
    BY <1>1 DEF Boot, ForgetRam
  <2>5. PanelInv'
    BY <2>3, <2>4, PanelInvAwake DEF BufferInv
  <2>6. ~panel'.inGrayscaleMode
    BY <2>2 DEF BeginController
  <2>7. StoresOK'
    BY <2>4, <2>6 DEF StoresOK, Fresh
  <2> QED BY <2>5, <2>7 DEF ScreenInv
<1>2. ASSUME NEW s \in Outcome, NEW o \in Outcome, DeepSleep(s, o) PROVE ScreenInv'
  <2>1. awake /\ panel' = PowerOffController(Drained(s), o)
    BY <1>2 DEF DeepSleep
  <2>2. PanelOK(Drained(s), shown) /\ Idle(Drained(s))
    BY <2>1, DrainedOK DEF ScreenInv
  <2>3. PanelOK(panel', shown) /\ Idle(panel')
    BY <2>1, <2>2, SleepOK
  <2>4. shown' = NoFrame /\ stale' = Fresh /\ ~awake' /\ ~refreshPending'
    BY <1>2 DEF DeepSleep, ForgetRam
  <2>5. shown \in Image \cup {NoFrame} /\ panel'.wave \notin {"fast", "clean"}
    BY <2>3 DEF Idle, PanelOK
  <2>6. PanelInv'
    BY <2>3, <2>4, <2>5 DEF PanelInv
  <2>7. StoresOK'
    BY <2>4 DEF StoresOK, Fresh
  <2> QED BY <2>6, <2>7 DEF ScreenInv
<1> QED BY <1>1, <1>2

(* Every step of a facade whose host keeps the rules leaves the stores and *)
(* the debt to the reader in order.                                        *)
LEMMA ScreenInvNext == HostMay = {} /\ ~BeginMayHang /\ ScreenInv /\ [Next]_vars => ScreenInv'
<1> SUFFICES ASSUME HostMay = {}, ~BeginMayHang, ScreenInv, [Next]_vars PROVE ScreenInv'
  OBVIOUS
<1> USE HostAssumption
<1>0. BufferInv'
  BY BufferInvNext DEF ScreenInv
<1>1. ASSUME NEW img \in Image, Draw(img) PROVE ScreenInv'
  BY <1>0, <1>1, DrawScreen
<1>2. ASSUME NEW mode \in RefreshMode, NEW off \in TurnOff, NEW s \in Answer, NEW o \in Answer,
             DisplayBuffer(mode, off, s, o) \/ TriggerDisplay(mode, off, s, o)
      PROVE  ScreenInv'
  <2>1. off \in BOOLEAN /\ s \in Outcome /\ o \in Outcome
    OBVIOUS
  <2>2. Usable /\ \/ BlockingUpdate(mode, off, s, o)
                  \/ ~inverted /\ ~inversionDirty /\ DeferredUpdate(mode, off, s)
    BY <1>2 DEF DisplayBuffer, TriggerDisplay
  <2> QED BY <1>0, <2>1, <2>2, BlockingScreen, DeferredScreen
<1>3. ASSUME NEW win \in Window, NEW off \in TurnOff, NEW s \in Answer, NEW o \in Answer,
             DisplayWindowed(win, off, s, o)
      PROVE  ScreenInv'
  <2>1. off \in BOOLEAN /\ s \in Outcome /\ o \in Outcome /\ "FAST" \in RefreshMode
    BY DEF RefreshMode
  <2>2. Usable /\ \/ BlockingUpdate("FAST", off, s, o)
                  \/ ~inverted /\ ~inversionDirty /\ WindowedUpdate(win, off, s, o)
    BY <1>3 DEF DisplayWindowed
  <2> QED BY <1>0, <2>1, <2>2, BlockingScreen, WindowedScreen
<1>4. ASSUME NEW s \in Answer,
             \/ SyncPendingAsync(s) \/ SetInverted(s)
             \/ ReleaseSecondaryBuffer(s) \/ BorrowSecondaryBuffer(s) \/ ReleaseBuffers(s)
             \/ SyncRedRamFromFrameBuffer(s)
             \/ CleanupGrayscaleBuffers(s) \/ CleanupGrayscaleWithPreviousBuffer(s)
      PROVE  ScreenInv'
  <2>1. s \in Outcome
    OBVIOUS
  <2> QED BY <1>0, <1>4, <2>1, SyncScreen, SeedScreen, CleanupScreen
<1>5. ASSUME ReallocSecondaryBuffer \/ ReturnSecondaryBuffer PROVE ScreenInv'
  BY <1>0, <1>5, RestoreScreen
<1>6. ASSUME NEW ok \in BOOLEAN, ReallocBuffers(ok) \/ Boot(ok) PROVE ScreenInv'
  BY <1>0, <1>6, ReallocScreen, RebootScreen
<1>7. ASSUME NEW lsb \in GrayPlane, NEW msb \in GrayPlane, NEW s \in Answer,
             CopyGrayscaleBuffers(lsb, msb, s)
      PROVE  ScreenInv'
  <2>1. lsb \in Image /\ msb \in Image /\ s \in Outcome
    OBVIOUS
  <2> QED BY <1>0, <1>7, <2>1, CopyGrayScreen
<1>8. ASSUME NEW off \in TurnOff, NEW factory \in BOOLEAN, NEW s \in Answer, NEW o \in Answer,
             DisplayGrayBuffer(off, factory, s, o)
      PROVE  ScreenInv'
  <2>1. off \in BOOLEAN /\ s \in Outcome /\ o \in Outcome
    OBVIOUS
  <2> QED BY <1>0, <1>8, <2>1, DisplayGrayScreen
<1>9. ASSUME NEW s \in Answer, NEW o \in Answer, DeepSleep(s, o) PROVE ScreenInv'
  <2>1. s \in Outcome /\ o \in Outcome
    OBVIOUS
  <2> QED BY <1>0, <1>9, <2>1, RebootScreen
<1>10. ASSUME RequestResync \/ BusyReleases \/ \E b \in BOOLEAN : SetSingleBufferFastDiff(b)
       PROVE  ScreenInv'
  BY <1>0, <1>10, FlagScreen
<1>11. CASE UNCHANGED vars
  BY <1>0, <1>11 DEF ScreenInv, PanelInv, StoresOK, Phys, vars, buffers, flags
<1>12. CASE Next
  BY <1>1, <1>2, <1>3, <1>4, <1>5, <1>6, <1>7, <1>8, <1>9, <1>10, <1>12 DEF Next
<1> QED BY <1>11, <1>12

(* With a host that keeps the documented rules and a controller that       *)
(* answers begin(), every store is what the facade takes it for, always.           *)
THEOREM ScreenInOrder == ASSUME HostMay = {}, ~BeginMayHang PROVE Spec => []ScreenInv
<1>1. ScreenInv /\ [Next]_vars => ScreenInv'
  BY ScreenInvNext
<1> QED BY <1>1, ScreenInvInit, PTL DEF Spec

(* The glass ends up with the frame last submitted and no trace of an      *)
(* older one: over releases, loans, inversion, gray overlays, windows,     *)
(* failed waits and resets, for a panel and images of any size.            *)
THEOREM NoGhostEver == ASSUME HostMay = {}, ~BeginMayHang PROVE Spec => []NoGhost
<1>1. ScreenInv => NoGhost
  <2> SUFFICES ASSUME ScreenInv, shown # NoFrame, ~IsBusy(panel), ~panel.needsInitialFull
               PROVE  \A r \in Region : panel.glass[r] \in {shown[r], "G"}
    BY DEF NoGhost
  <2>1. PanelOK(panel, shown)
    BY DEF ScreenInv, PanelInv
  <2> QED BY <2>1 DEF PanelOK, Owes, IsBusy
<1> QED BY <1>1, ScreenInOrder, PTL

(* No request to drop the rails outlives the drain that serves it.         *)
THEOREM ParkedIsOwed == ASSUME HostMay = {}, ~BeginMayHang PROVE Spec => []ParkedPowerOffIsOwed
<1>1. ScreenInv => ParkedPowerOffIsOwed
  <2> SUFFICES ASSUME ScreenInv, panel.pendingPowerOff PROVE refreshPending
    BY DEF ParkedPowerOffIsOwed
  <2>1. PICK s : PanelOK(panel, s)
    BY DEF ScreenInv, PanelInv
  <2> QED BY <2>1 DEF ScreenInv, PanelInv, PanelOK
<1> QED BY <1>1, ScreenInOrder, PTL

-----------------------------------------------------------------------------
(* The promise of a display.                                               *)

(* A waveform in flight brings the page last submitted.                    *)
InkInv == ScreenInv /\ InFlight(panel, shown)

(* Draining brings the pending page to the glass and nothing else.         *)
LEMMA DrainedTurns ==
  ASSUME InkInv, awake, NEW s \in Outcome
  PROVE  /\ Turns(panel, Drained(s), shown, {})
         /\ Drained(s) \in DriverState /\ Idle(Drained(s))
<1>1. Drained(s) \in DriverState /\ Idle(Drained(s))
  BY DrainedOK, DrainedType DEF InkInv, ScreenInv, BufferInv
<1>2. panel \in DriverState /\ panel.wave \in {"none", "fast", "clean", "stuck"}
  BY DEF InkInv, ScreenInv, PanelInv, PanelOK
<1>3. Turns(panel, Drained(s), shown, {})
  <2>1. CASE refreshPending
    BY <1>2, <2>1, FinishTurns DEF Drained, InkInv
  <2>2. CASE ~refreshPending
    BY <2>2, QuietTurns DEF Drained
  <2> QED BY <2>1, <2>2
<1> QED BY <1>1, <1>3

(* What a drain and one more call ink, as the promise counts it.           *)
LEMMA PromisedInk ==
  ASSUME NEW d, NEW more, NEW q, q \in {shown, shown', NoFrame},
         Turns(panel, d, shown, {}), Turns(d, panel', q, more), StaysStuck(d, panel')
  PROVE  Promise!Inked(more)
<1>1. \A r \in Region :
        \/ panel'.glass[r] \in {panel.glass[r]} \cup InkOf(shown, r) \cup InkOf(q, r) \cup more
        \/ panel'.glass[r] = "?" /\ panel'.wave = "stuck"
  BY TurnsAgain
<1>2. panel'.wave = "stuck" => ~Settled'
  BY DEF Settled, IsBusy
<1>3. \A r \in Region : InkOf(q, r) \subseteq Promise!Of(shown, r) \cup Promise!Of(shown', r)
  BY DEF InkOf, Promise!Of
<1>4. \A r \in Region : InkOf(shown, r) = Promise!Of(shown, r)
  BY DEF InkOf, Promise!Of
<1> QED BY <1>1, <1>2, <1>3, <1>4 DEF Promise!Inked

(* With nothing deferred, nothing is in flight.                            *)
LEMMA NoFlight ==
  ASSUME ScreenInv', ~refreshPending'
  PROVE  InFlight(panel', shown')
  BY DEF ScreenInv, PanelInv, InFlight

(* A blocking update inks the page it submits.                             *)
LEMMA BlockingInks ==
  ASSUME InkInv, ScreenInv', Usable, NEW mode \in RefreshMode, NEW turnOff \in BOOLEAN,
         NEW s \in Outcome, NEW o \in Outcome, BlockingUpdate(mode, turnOff, s, o)
  PROVE  Promise!Submit /\ InFlight(panel', shown')
<1> DEFINE eff  == ResolveReleasedMode(IF inversionDirty THEN "HALF" ELSE mode)
           prev == PrevFrameFor(eff)
           fb   == Phys(mem[frameBuffer])
<1>0. TypeOK /\ RolesOK /\ awake
  BY DEF InkInv, ScreenInv, BufferInv, Usable
<1>1. eff \in RefreshMode /\ fb \in Image /\ Phys(prev) \in Image \cup {NoFrame}
  BY <1>0, ModeType, PrevType, DrawBuffer, PhysType, FrameAssumption
<1>2. panel' = Display(Drained(s), fb, Phys(prev), eff, turnOff, o) /\ shown' = fb /\ ~refreshPending'
  BY DEF BlockingUpdate, AfterDrain
<1> HIDE DEF eff, prev, fb
<1>3. Turns(panel, Drained(s), shown, {}) /\ Drained(s) \in DriverState
  BY <1>0, DrainedTurns
<1>4. Turns(Drained(s), panel', shown', {}) /\ StaysStuck(Drained(s), panel')
  BY <1>1, <1>2, <1>3, DisplayTurns
<1>5. Promise!Inked({})
  BY <1>3, <1>4, PromisedInk
<1> QED BY <1>1, <1>2, <1>5, NoFlight DEF Promise!Submit

(* A deferred update leaves the ink to the drain, which brings its page.   *)
LEMMA DeferredInks ==
  ASSUME InkInv, Usable, NEW mode \in RefreshMode, NEW turnOff \in BOOLEAN,
         NEW s \in Outcome, DeferredUpdate(mode, turnOff, s)
  PROVE  Promise!Submit /\ InFlight(panel', shown')
<1> DEFINE eff  == ResolveReleasedMode(mode)
           prev == PrevFrameFor(eff)
           fb   == mem[frameBuffer]
<1>0. TypeOK /\ RolesOK /\ awake
  BY DEF InkInv, ScreenInv, BufferInv, Usable
<1>1. fb \in Image
  BY <1>0, DrawBuffer
<1>2. panel' = DisplayStart(Drained(s), fb, prev, eff, turnOff) /\ shown' = fb
  BY DEF DeferredUpdate
<1> HIDE DEF eff, prev, fb
<1>3. Turns(panel, Drained(s), shown, {}) /\ Drained(s) \in DriverState /\ Idle(Drained(s))
  BY <1>0, DrainedTurns
<1>4. panel'.glass = Drained(s).glass /\ StaysStuck(Drained(s), panel') /\ InFlight(panel', fb)
  BY <1>1, <1>2, <1>3, StartGlass
<1>5. Turns(Drained(s), panel', shown', {})
  BY <1>4, QuietTurns DEF StaysStuck
<1>6. Promise!Inked({})
  BY <1>3, <1>4, <1>5, PromisedInk
<1> QED BY <1>1, <1>2, <1>4, <1>6 DEF Promise!Submit

(* A windowed update inks the page with the window in it.                  *)
LEMMA WindowedInks ==
  ASSUME HostMay = {}, InkInv, ScreenInv', Usable, NEW win, NEW turnOff \in BOOLEAN,
         NEW s \in Outcome, NEW o \in Outcome, WindowedUpdate(win, turnOff, s, o)
  PROVE  Promise!Submit /\ InFlight(panel', shown')
<1> DEFINE d0   == Drained(s)
           prev == Frame(frameBufferActive)
           fb   == mem[frameBuffer]
<1>0. TypeOK /\ RolesOK /\ awake /\ ScreenInv
  BY DEF InkInv, ScreenInv, BufferInv, Usable
<1>1. fb \in Image /\ prev \in Image \cup {NoFrame}
  BY <1>0, DrawBuffer DEF TypeOK, Frame, Slot, Null
<1>2. /\ panel' = DisplayWindow(d0, fb, prev, win, turnOff, o)
      /\ shown' = (IF Promotes(d0) \/ shown = NoFrame THEN fb ELSE Patch(shown, fb, win))
      /\ Overlooked(stale.bw) /\ ~refreshPending'
  BY DEF WindowedUpdate, AfterDrain
<1>3. ~Promotes(d0) => shown \in Image /\ d0.bw = shown
  BY <1>0, <1>2, WindowBase
<1> HIDE DEF prev, fb
<1>4. Turns(panel, d0, shown, {}) /\ d0 \in DriverState
  BY <1>0, DrainedTurns
<1> HIDE DEF d0
<1>5. shown' = IF Promotes(d0) THEN fb ELSE Patch(shown, fb, win)
  BY <1>2, <1>3, FrameAssumption
<1>6. shown' \in Image
  BY <1>1, <1>3, <1>5, PatchType
<1>7. Turns(d0, panel', shown', {}) /\ StaysStuck(d0, panel')
  BY <1>1, <1>2, <1>3, <1>4, <1>5, WindowTurns
<1>8. Promise!Inked({})
  BY <1>4, <1>7, PromisedInk
<1> QED BY <1>2, <1>6, <1>8, NoFlight DEF Promise!Submit

(* A handler that leaves the panel as it is, or drains it, or drains it    *)
(* and then makes a call that inks nothing.                                *)
LEMMA StillInks ==
  ASSUME InkInv, panel' = panel, shown' = shown
  PROVE  Promise!Settle /\ InFlight(panel', shown')
  BY DEF InkInv, Promise!Settle, Promise!Inked

LEMMA DrainInks ==
  ASSUME InkInv, ScreenInv', awake, NEW s \in Outcome, ~refreshPending', shown' = shown,
         panel'.glass = Drained(s).glass, panel'.wave = Drained(s).wave
  PROVE  Promise!Settle /\ InFlight(panel', shown')
<1>1. Turns(panel, Drained(s), shown, {})
  BY DrainedTurns
<1>2. Turns(Drained(s), panel', shown, {}) /\ StaysStuck(Drained(s), panel')
  BY QuietTurns
<1>3. Promise!Inked({})
  BY <1>1, <1>2, PromisedInk
<1> QED BY <1>3, NoFlight DEF Promise!Settle

(* The drains, and the calls that write a plane or the driver's promotions *)
(* once they have drained.                                                 *)
LEMMA QuietInks ==
  ASSUME InkInv, ScreenInv', NEW s \in Outcome,
         \/ SyncPendingAsync(s) \/ SetInverted(s)
         \/ ReleaseSecondaryBuffer(s) \/ BorrowSecondaryBuffer(s) \/ ReleaseBuffers(s)
         \/ SyncRedRamFromFrameBuffer(s)
         \/ CleanupGrayscaleBuffers(s) \/ CleanupGrayscaleWithPreviousBuffer(s)
         \/ \E lsb, msb \in Image : CopyGrayscaleBuffers(lsb, msb, s)
  PROVE  Promise!Settle /\ InFlight(panel', shown')
<1> DEFINE d0 == Drained(s)
<1>0. TypeOK /\ RolesOK /\ PanelInv
  BY DEF InkInv, ScreenInv, BufferInv
<1>1. d0 \in DriverState
  BY <1>0, DrainedType
<1>2. awake /\ ~refreshPending' /\ shown' = shown
  BY <1>0 DEF SyncPendingAsync, SetInverted, ReleaseSecondaryBuffer, BorrowSecondaryBuffer, ReleaseBuffers,
              SyncRedRamFromFrameBuffer, CleanupGrayscaleBuffers, CleanupGrayscaleWithPreviousBuffer,
              CopyGrayscaleBuffers, Usable, AfterDrain, PanelInv
<1>3. \/ panel' = d0
      \/ \E lsb, msb \in Image : panel' \in {SeedPreviousFrame(d0, lsb), CopyGrayscale(d0, lsb, msb),
                                             CleanupGrayscale(d0, lsb)}
  <2>1. CASE \/ SyncPendingAsync(s) \/ SetInverted(s)
             \/ ReleaseSecondaryBuffer(s) \/ BorrowSecondaryBuffer(s) \/ ReleaseBuffers(s)
    BY <2>1 DEF SyncPendingAsync, SetInverted, ReleaseSecondaryBuffer, BorrowSecondaryBuffer, ReleaseBuffers,
                AfterDrain
  <2>2. CASE SyncRedRamFromFrameBuffer(s)
    <3> DEFINE onScreen == IF frameBufferActive # Null THEN frameBufferActive ELSE frameBuffer
    <3>1. mem[onScreen] \in Image
      BY <1>0, <2>2 DEF TypeOK, RolesOK, SyncRedRamFromFrameBuffer, Usable, Slot, Null
    <3>2. panel' = SeedPreviousFrame(d0, Phys(mem[onScreen]))
      BY <2>2 DEF SyncRedRamFromFrameBuffer, AfterDrain
    <3> HIDE DEF d0, onScreen
    <3>3. Phys(mem[onScreen]) \in Image
      BY <1>0, <3>1, PhysType, FrameAssumption
    <3> QED BY <3>2, <3>3
  <2>3. CASE CleanupGrayscaleBuffers(s)
    <3>1. shown \in Image
      BY <1>0, <2>3 DEF TypeOK, CleanupGrayscaleBuffers
    <3>2. panel' = (IF inverted THEN d0 ELSE CleanupGrayscale(d0, shown))
      BY <2>3 DEF CleanupGrayscaleBuffers, AfterDrain
    <3> HIDE DEF d0
    <3> QED BY <3>1, <3>2
  <2>4. CASE CleanupGrayscaleWithPreviousBuffer(s)
    <3>1. mem[frameBufferActive] \in Image
      BY <1>0, <2>4 DEF TypeOK, RolesOK, CleanupGrayscaleWithPreviousBuffer, Slot, Null
    <3>2. panel' = (IF inverted THEN d0 ELSE CleanupGrayscale(d0, mem[frameBufferActive]))
      BY <2>4 DEF CleanupGrayscaleWithPreviousBuffer, AfterDrain
    <3> HIDE DEF d0
    <3> QED BY <3>1, <3>2
  <2>5. CASE \E lsb, msb \in Image : CopyGrayscaleBuffers(lsb, msb, s)
    <3>1. PICK lsb \in Image, msb \in Image : CopyGrayscaleBuffers(lsb, msb, s)
      BY <2>5
    <3>2. panel' = CopyGrayscale(d0, lsb, msb)
      BY <3>1 DEF CopyGrayscaleBuffers, AfterDrain
    <3> HIDE DEF d0
    <3> QED BY <3>2
  <2> QED BY <2>1, <2>2, <2>3, <2>4, <2>5
<1> HIDE DEF d0
<1>4. panel'.glass = d0.glass /\ panel'.wave = d0.wave
  BY <1>1, <1>3, RamWriteGlass
<1> QED BY <1>2, <1>4, DrainInks DEF d0

(* The overlay inks gray, the factory bank its own picture.                *)
LEMMA GrayInks ==
  ASSUME InkInv, ScreenInv', NEW turnOff \in BOOLEAN, NEW factory \in BOOLEAN,
         NEW s \in Outcome, NEW o \in Outcome, DisplayGrayBuffer(turnOff, factory, s, o)
  PROVE  (Promise!Overlay \/ Promise!Withdraw) /\ InFlight(panel', shown')
<1> DEFINE more == {IF factory THEN "F" ELSE "G"}
<1>1. /\ awake /\ ~refreshPending'
      /\ panel' = DisplayGray(Drained(s), turnOff, factory, o)
      /\ shown' = (IF factory THEN NoFrame ELSE shown)
  BY DEF DisplayGrayBuffer, AfterDrain, Usable
<1>2. Turns(panel, Drained(s), shown, {}) /\ Drained(s) \in DriverState
  BY <1>1, DrainedTurns
<1>3. Turns(Drained(s), panel', NoFrame, more) /\ StaysStuck(Drained(s), panel')
  BY <1>1, <1>2, GrayTurns
<1> HIDE DEF more
<1>4. Promise!Inked(more)
  BY <1>2, <1>3, PromisedInk
<1>5. CASE factory
  <2>1. more = {"F"}
    BY <1>5 DEF more
  <2> QED BY <1>1, <1>4, <1>5, <2>1, NoFlight DEF Promise!Withdraw
<1>6. CASE ~factory
  <2>1. more = {"G"}
    BY <1>6 DEF more
  <2> QED BY <1>1, <1>4, <1>6, <2>1, NoFlight DEF Promise!Overlay
<1> QED BY <1>1, <1>5, <1>6, NoFlight

(* Sleep and reset withdraw the page: what they ink is what was in flight, *)
(* or unknown on a panel that has not settled.                             *)
LEMMA RebootInks ==
  ASSUME ~BeginMayHang, InkInv, ScreenInv'
  PROVE  /\ \A ok \in BOOLEAN : Boot(ok) => Promise!Withdraw /\ InFlight(panel', shown')
         /\ \A s, o \in Outcome : DeepSleep(s, o) => Promise!Withdraw /\ InFlight(panel', shown')
<1>1. ASSUME NEW ok \in BOOLEAN, Boot(ok) PROVE Promise!Withdraw /\ InFlight(panel', shown')
  <2>1. panel \in DriverState /\ panel.wave \in {"none", "fast", "clean", "stuck"}
    BY DEF InkInv, ScreenInv, PanelInv, PanelOK
  <2>2. PICK glass \in GlassAfterReset : panel' = BeginController(glass)
    BY <1>1 DEF Boot, Begun
  <2>3. panel'.glass = glass /\ panel'.needsInitialFull
    BY <2>2 DEF BeginController
  <2>4. ~Settled' /\ shown' = NoFrame /\ ~refreshPending'
    BY <1>1, <2>3 DEF Settled, Boot, ForgetRam
  <2>5. \A r \in Region : glass[r] \in {panel.glass[r], Developed(panel)[r], "?"}
    BY <2>2 DEF GlassAfterReset
  <2>6. \A r \in Region : Developed(panel)[r] \in {panel.glass[r]} \cup InkOf(shown, r)
    BY <2>1, DevelopsFrame DEF InkInv
  <2>7. \A r \in Region : InkOf(shown, r) = Promise!Of(shown, r)
    BY DEF InkOf, Promise!Of
  <2>8. Promise!Inked({"F"})
    BY <2>3, <2>4, <2>5, <2>6, <2>7 DEF Promise!Inked
  <2> QED BY <2>4, <2>8, NoFlight DEF Promise!Withdraw
<1>2. ASSUME NEW s \in Outcome, NEW o \in Outcome, DeepSleep(s, o)
      PROVE  Promise!Withdraw /\ InFlight(panel', shown')
  <2>1. awake /\ panel' = PowerOffController(Drained(s), o) /\ shown' = NoFrame /\ ~refreshPending'
    BY <1>2 DEF DeepSleep, ForgetRam
  <2>2. Turns(panel, Drained(s), shown, {}) /\ Drained(s) \in DriverState
    BY <2>1, DrainedTurns
  <2>3. panel'.glass = Drained(s).glass /\ panel'.wave \in {Drained(s).wave, "stuck"}
    BY <2>1, <2>2, PowerOffGlass
  <2>4. Turns(Drained(s), panel', shown, {"F"}) /\ StaysStuck(Drained(s), panel')
    BY <2>3, QuietTurns
  <2>5. Promise!Inked({"F"})
    BY <2>2, <2>4, PromisedInk
  <2> QED BY <2>1, <2>5, NoFlight DEF Promise!Withdraw
<1> QED BY <1>1, <1>2

(* A promotion asked for and a late BUSY release ink nothing.              *)
LEMMA FlagInks ==
  ASSUME InkInv, ScreenInv', RequestResync \/ BusyReleases
  PROVE  Promise!Settle /\ InFlight(panel', shown')
<1>0. panel \in DriverState
  BY DEF InkInv, ScreenInv, BufferInv, TypeOK
<1>1. shown' = shown /\ panel'.glass = panel.glass /\ InFlight(panel', shown')
  <2>1. CASE RequestResync
    <3>1. panel' = RequestDriverResync(panel) /\ shown' = shown
      BY <2>1 DEF RequestResync
    <3>2. panel'.glass = panel.glass /\ panel'.wave = panel.wave /\ panel'.bw = panel.bw
      BY <1>0, <3>1 DEF RequestDriverResync, DriverState
    <3> QED BY <3>1, <3>2 DEF InkInv, InFlight
  <2>2. CASE BusyReleases
    <3>1. panel' = [panel EXCEPT !.wave = "none"] /\ shown' = shown
      BY <2>2 DEF BusyReleases
    <3>2. panel'.glass = panel.glass /\ panel'.wave = "none"
      BY <1>0, <3>1 DEF DriverState
    <3> QED BY <3>1, <3>2 DEF InFlight
  <2> QED BY <2>1, <2>2
<1> QED BY <1>1 DEF Promise!Settle, Promise!Inked

(* Every step of the facade keeps the promise, with what is in flight.     *)
LEMMA InkNext ==
  ASSUME HostMay = {}, ~BeginMayHang, InkInv, [Next]_vars
  PROVE  InkInv' /\ [Promise!Next]_(Promise!display)
<1> USE HostAssumption
<1>0. ScreenInv'
  BY ScreenInvNext DEF InkInv
<1>s. Promise!Shown'
  <2> SUFFICES ASSUME shown' # NoFrame, Settled'
               PROVE  \A r \in Region : panel'.glass[r] \in {shown'[r], "G"}
    BY DEF Promise!Shown
  <2>1. PanelOK(panel', shown')
    BY <1>0 DEF ScreenInv, PanelInv
  <2>2. panel'.wave = "none" /\ ~panel'.needsInitialFull
    BY DEF Settled, IsBusy
  <2> QED BY <2>1, <2>2 DEF PanelOK, Owes
<1> DEFINE Kept == (Promise!Submit \/ Promise!Settle \/ Promise!Overlay \/ Promise!Withdraw)
                     /\ InFlight(panel', shown')
<1>d. Kept => InkInv' /\ [Promise!Next]_(Promise!display)
  BY <1>0, <1>s DEF InkInv, Promise!Next
<1>1. ASSUME NEW mode \in RefreshMode, NEW off \in TurnOff, NEW s \in Answer, NEW o \in Answer,
             DisplayBuffer(mode, off, s, o) \/ TriggerDisplay(mode, off, s, o)
      PROVE  Kept
  <2>1. off \in BOOLEAN /\ s \in Outcome /\ o \in Outcome
    OBVIOUS
  <2>2. Usable /\ (BlockingUpdate(mode, off, s, o) \/ DeferredUpdate(mode, off, s))
    BY <1>1 DEF DisplayBuffer, TriggerDisplay
  <2> QED BY <1>0, <2>1, <2>2, BlockingInks, DeferredInks
<1>2. ASSUME NEW win \in Window, NEW off \in TurnOff, NEW s \in Answer, NEW o \in Answer,
             DisplayWindowed(win, off, s, o)
      PROVE  Kept
  <2>1. off \in BOOLEAN /\ s \in Outcome /\ o \in Outcome /\ "FAST" \in RefreshMode
    BY DEF RefreshMode
  <2>2. Usable /\ (BlockingUpdate("FAST", off, s, o) \/ WindowedUpdate(win, off, s, o))
    BY <1>2 DEF DisplayWindowed
  <2> QED BY <1>0, <2>1, <2>2, BlockingInks, WindowedInks
<1>3. ASSUME NEW s \in Answer,
             \/ SyncPendingAsync(s) \/ SetInverted(s)
             \/ ReleaseSecondaryBuffer(s) \/ BorrowSecondaryBuffer(s) \/ ReleaseBuffers(s)
             \/ SyncRedRamFromFrameBuffer(s)
             \/ CleanupGrayscaleBuffers(s) \/ CleanupGrayscaleWithPreviousBuffer(s)
      PROVE  Kept
  <2>1. s \in Outcome
    OBVIOUS
  <2> QED BY <1>0, <1>3, <2>1, QuietInks
<1>4. ASSUME NEW off \in TurnOff, NEW factory \in BOOLEAN, NEW s \in Answer, NEW o \in Answer,
             DisplayGrayBuffer(off, factory, s, o)
      PROVE  Kept
  <2>1. off \in BOOLEAN /\ s \in Outcome /\ o \in Outcome
    OBVIOUS
  <2> QED BY <1>0, <1>4, <2>1, GrayInks
<1>5. ASSUME NEW ok \in BOOLEAN, Boot(ok) PROVE Kept
  BY <1>0, <1>5, RebootInks
<1>6. ASSUME NEW s \in Answer, NEW o \in Answer, DeepSleep(s, o) PROVE Kept
  <2>1. s \in Outcome /\ o \in Outcome
    OBVIOUS
  <2> QED BY <1>0, <1>6, <2>1, RebootInks
<1>7. ASSUME RequestResync \/ BusyReleases PROVE Kept
  BY <1>0, <1>7, FlagInks
<1>8. ASSUME NEW lsb \in GrayPlane, NEW msb \in GrayPlane, NEW s \in Answer,
             CopyGrayscaleBuffers(lsb, msb, s)
      PROVE  Kept
  <2>1. lsb \in Image /\ msb \in Image /\ s \in Outcome
    OBVIOUS
  <2> QED BY <1>0, <1>8, <2>1, QuietInks
<1>9. ASSUME panel' = panel, shown' = shown PROVE Kept
  BY <1>9, StillInks
<1> HIDE DEF Kept
<1>10. ASSUME NEW img \in Image, Draw(img) PROVE Kept
  BY <1>9, <1>10 DEF Draw
<1>11. ASSUME ReallocSecondaryBuffer \/ ReturnSecondaryBuffer PROVE Kept
  BY <1>9, <1>11 DEF ReallocSecondaryBuffer, ReturnSecondaryBuffer, Restore
<1>12. ASSUME NEW b \in BOOLEAN, ReallocBuffers(b) \/ SetSingleBufferFastDiff(b) PROVE Kept
  BY <1>9, <1>12 DEF ReallocBuffers, SetSingleBufferFastDiff
<1>13. UNCHANGED vars => Kept
  BY <1>9 DEF vars
<1>14. Next => Kept
  BY <1>1, <1>2, <1>3, <1>4, <1>5, <1>6, <1>7, <1>8, <1>10, <1>11, <1>12 DEF Next
<1> QED BY <1>d, <1>13, <1>14

(* The dual-buffer facade implements the abstract display: over deferred   *)
(* and blocking updates, windows, overlays, loans, inversion, waits that   *)
(* fail and resets, no region is ever inked with anything but the page     *)
(* submitted or the one pending before it, and a settled panel shows it.   *)
THEOREM FacadeImplementsPageDisplay ==
  ASSUME HostMay = {}, ~BeginMayHang
  PROVE  Spec => ImplementsPageDisplay
<1>1. Init => InkInv /\ Promise!Init
  <2> SUFFICES ASSUME Init PROVE InkInv /\ Promise!Init
    OBVIOUS
  <2>1. ScreenInv
    BY ScreenInvInit
  <2>2. PICK glass \in [Region -> Ink] : panel = BeginController(glass)
    BY DEF Init, Begun
  <2>3. panel.glass = glass /\ panel.wave = "none" /\ panel.needsInitialFull
    BY <2>2 DEF BeginController
  <2> QED BY <2>1, <2>3 DEF Init, InkInv, InFlight, Promise!Init, Settled
<1>2. InkInv /\ [Next]_vars => InkInv' /\ [Promise!Next]_(Promise!display)
  BY InkNext
<1> QED BY <1>1, <1>2, PTL DEF Spec, ImplementsPageDisplay, Promise!Spec

=============================================================================
