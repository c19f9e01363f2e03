----------------------------- MODULE Ssd1677Proofs -----------------------------
(***************************************************************************)
(* What the driver's operations preserve, whatever the panel's size: the   *)
(* lemmas the proofs about both facades rest on.                           *)
(***************************************************************************)
EXTENDS Ssd1677, TLAPS

(* The panel owes the reader frame s (NoFrame: no BW frame is owed yet).   *)
(* Once nothing runs, the glass has it; while a waveform runs, its planes  *)
(* are bound to bring it there; a failed wait has armed the clean paint.   *)
Owes(d, s) ==
  d.needsInitialFull
  \/ CASE d.wave = "none"  -> \A r \in Region : d.glass[r] \in {s[r], "G"}
       [] d.wave = "fast"  -> d.bw = s /\ \A r \in Region : d.red[r] = s[r] => d.glass[r] \in {s[r], "G"}
       [] d.wave = "clean" -> d.bw = s
       [] OTHER            -> FALSE

PanelOK(d, s) ==
  /\ d \in DriverState
  /\ d.wave \in {"none", "fast", "clean", "stuck"}
  /\ d.wave = "stuck" => d.needsInitialFull
  /\ d.pendingPowerOff => d.wave \in {"fast", "clean"}
  /\ s = NoFrame => d.needsInitialFull \/ d.needsGrayClear
  /\ s # NoFrame => s \in Image /\ Owes(d, s)

(* No waveform is left running.                                            *)
Idle(d) == d.wave \in {"none", "stuck"}

SamePlanes(d, e) == e.red = d.red /\ e.bw = d.bw

(* The promotions in force are still in force.                             *)
KeepsFlags(d, e) ==
  /\ d.needsInitialFull => e.needsInitialFull
  /\ e.needsGrayClear = d.needsGrayClear
  /\ e.inGrayscaleMode = d.inGrayscaleMode

-----------------------------------------------------------------------------
(* Types.                                                                  *)

LEMMA DevelopedType == ASSUME NEW d \in DriverState PROVE Developed(d) \in [Region -> Ink]
  BY DEF Developed, DriverState, Image, Ink, Pixel

(* The complement of a frame is a frame.                                   *)
LEMMA InvertType == ASSUME NEW img \in Image PROVE Invert(img) \in Image
  BY DEF Invert, Image, Pixel

(* Complementing twice gives the frame back.                               *)
LEMMA InvertTwice == ASSUME NEW img \in Image PROVE Invert(Invert(img)) = img
  BY DEF Invert, Image, Pixel

(* A wait ends in a well-typed panel however BUSY answers.                 *)
LEMMA WaitType ==
  ASSUME NEW d \in DriverState, NEW o \in Outcome
  PROVE  WaitRefreshComplete(d, o) \in DriverState
<1>1. [r \in Region |-> "?"] \in [Region -> Ink]
  BY DEF Ink
<1>2. CASE d.wave = "none"
  BY <1>2 DEF WaitRefreshComplete
<1>3. CASE d.wave # "none" /\ o = "refreshHangs"
  BY <1>1, <1>3 DEF WaitRefreshComplete, DriverState
<1>4. CASE d.wave # "none" /\ o # "refreshHangs"
  BY <1>4, DevelopedType DEF WaitRefreshComplete, DriverState
<1> QED BY <1>2, <1>3, <1>4

(* completeRefresh() keeps the types.                                      *)
LEMMA CompleteType == ASSUME NEW d \in DriverState PROVE CompleteRefresh(d) \in DriverState
  BY DEF CompleteRefresh, DriverState

-----------------------------------------------------------------------------
(* A wait ends the waveform as promised or arms the clean paint; it writes *)
(* neither plane and takes no promotion back.                              *)

(* PanelOK between the wait and the parking of the rails.                  *)
PanelSettled(d, s) ==
  /\ d \in DriverState
  /\ d.wave = "none"
  /\ s = NoFrame => d.needsInitialFull \/ d.needsGrayClear
  /\ s # NoFrame => s \in Image /\ Owes(d, s)

(* A waveform that ends pays the debt: the glass gets the frame owed.      *)
LEMMA DevelopsOwed ==
  ASSUME NEW d \in DriverState, NEW s \in Image, d.wave \in {"none", "fast", "clean"},
         ~d.needsInitialFull, Owes(d, s)
  PROVE  \A r \in Region : Developed(d)[r] \in {s[r], "G"}
<1>1. CASE d.wave = "none"
  BY <1>1 DEF Owes, Developed
<1>2. CASE d.wave = "fast"
  BY <1>2 DEF Owes, Developed
<1>3. CASE d.wave = "clean"
  BY <1>3 DEF Owes, Developed
<1> QED BY <1>1, <1>2, <1>3

(* A wait that ends leaves the debt paid, one that gives up leaves it to   *)
(* the promotion.                                                          *)
LEMMA WaitOK ==
  ASSUME NEW d, NEW s, NEW o \in Outcome, PanelOK(d, s)
  PROVE  LET a == WaitRefreshComplete(d, o) IN
         /\ a \in DriverState
         /\ a.wave \in {"none", "stuck"}
         /\ SamePlanes(d, a) /\ KeepsFlags(d, a)
         /\ a.wave = "none" => PanelSettled(a, s)
<1> DEFINE a == WaitRefreshComplete(d, o)
<1>1. d \in DriverState /\ a \in DriverState
  BY WaitType DEF PanelOK
<1>2. CASE d.wave = "none"
  BY <1>1, <1>2 DEF WaitRefreshComplete, PanelOK, PanelSettled, SamePlanes, KeepsFlags
<1>3. CASE d.wave # "none" /\ o = "refreshHangs"
  BY <1>1, <1>3 DEF WaitRefreshComplete, PanelOK, SamePlanes, KeepsFlags, DriverState
<1>4. CASE d.wave # "none" /\ o # "refreshHangs"
  <2>1. a = [d EXCEPT !.wave = "none", !.glass = Developed(d)]
    BY <1>4 DEF WaitRefreshComplete
  <2>2. /\ a.wave = "none" /\ a.red = d.red /\ a.bw = d.bw /\ a.glass = Developed(d)
        /\ a.needsInitialFull = d.needsInitialFull /\ a.needsGrayClear = d.needsGrayClear
        /\ a.inGrayscaleMode = d.inGrayscaleMode
    BY <1>1, <2>1 DEF DriverState
  <2>3. s # NoFrame => s \in Image /\ Owes(a, s)
    <3> SUFFICES ASSUME s # NoFrame PROVE s \in Image /\ Owes(a, s)
      OBVIOUS
    <3>1. s \in Image /\ Owes(d, s)
      BY DEF PanelOK
    <3>2. CASE d.needsInitialFull
      BY <2>2, <3>1, <3>2 DEF Owes
    <3>3. CASE ~d.needsInitialFull
      <4>1. d.wave \in {"none", "fast", "clean"}
        BY <3>3 DEF PanelOK
      <4>2. \A r \in Region : a.glass[r] \in {s[r], "G"}
        BY <1>1, <2>2, <3>1, <3>3, <4>1, DevelopsOwed
      <4> QED BY <2>2, <3>1, <4>2 DEF Owes
    <3> QED BY <3>2, <3>3
  <2>4. s = NoFrame => a.needsInitialFull \/ a.needsGrayClear
    BY <2>2 DEF PanelOK
  <2> QED BY <1>1, <2>2, <2>3, <2>4 DEF PanelSettled, SamePlanes, KeepsFlags
<1> QED BY <1>2, <1>3, <1>4

(* completeRefresh() on a BUSY line arms the promotion that covers the     *)
(* debt.                                                                   *)
LEMMA CompleteOK ==
  ASSUME NEW d \in DriverState, NEW s, d.wave \in {"fast", "clean", "stuck"}, s = NoFrame \/ s \in Image
  PROVE  LET e == CompleteRefresh(d) IN
         /\ PanelOK(e, s) /\ e.needsInitialFull /\ e.wave = d.wave
         /\ SamePlanes(d, e) /\ KeepsFlags(d, e)
<1> DEFINE e == CompleteRefresh(d)
<1>1. e = [d EXCEPT !.needsInitialFull = TRUE, !.pendingPowerOff = FALSE, !.isScreenOn = TRUE]
  BY DEF CompleteRefresh, IsBusy
<1>2. /\ e \in DriverState /\ e.needsInitialFull /\ ~e.pendingPowerOff /\ e.wave = d.wave
      /\ e.red = d.red /\ e.bw = d.bw /\ e.needsGrayClear = d.needsGrayClear
      /\ e.inGrayscaleMode = d.inGrayscaleMode
  BY <1>1 DEF DriverState
<1> QED BY <1>2 DEF PanelOK, Owes, SamePlanes, KeepsFlags

(* Dropping the rails touches no plane and no promotion.                   *)
LEMMA PowerOffOK ==
  ASSUME NEW d, NEW s, NEW o \in Outcome, PanelSettled(d, s), ~d.pendingPowerOff
  PROVE  LET e == PowerOffController(d, o) IN
         /\ PanelOK(e, s) /\ Idle(e) /\ SamePlanes(d, e) /\ KeepsFlags(d, e)
<1> DEFINE e == PowerOffController(d, o)
<1>0. d \in DriverState /\ d.wave = "none" /\ (s = NoFrame \/ s \in Image)
  BY DEF PanelSettled
<1>1. CASE ~d.isScreenOn
  BY <1>0, <1>1 DEF PowerOffController, CompleteRefresh, IsBusy, PanelSettled, PanelOK, Idle,
                    SamePlanes, KeepsFlags
<1>2. CASE d.isScreenOn /\ o = "powerOffHangs"
  <2> DEFINE h == [d EXCEPT !.wave = "stuck"]
  <2>1. e = CompleteRefresh(h)
    BY <1>0, <1>2 DEF PowerOffController, IsBusy
  <2>2. /\ h \in DriverState /\ h.wave = "stuck" /\ h.red = d.red /\ h.bw = d.bw
        /\ h.needsGrayClear = d.needsGrayClear /\ h.inGrayscaleMode = d.inGrayscaleMode
        /\ h.needsInitialFull = d.needsInitialFull
    BY <1>0 DEF DriverState
  <2> HIDE DEF h
  <2>3. PanelOK(e, s) /\ e.needsInitialFull /\ e.wave = "stuck" /\ SamePlanes(h, e) /\ KeepsFlags(h, e)
    BY <1>0, <2>1, <2>2, CompleteOK
  <2> QED BY <2>2, <2>3 DEF Idle, SamePlanes, KeepsFlags
<1>3. CASE d.isScreenOn /\ o # "powerOffHangs"
  <2>1. e = [d EXCEPT !.isScreenOn = FALSE]
    BY <1>0, <1>3 DEF PowerOffController, IsBusy
  <2>2. /\ e \in DriverState /\ e.wave = "none" /\ e.red = d.red /\ e.bw = d.bw /\ e.glass = d.glass
        /\ e.needsGrayClear = d.needsGrayClear /\ e.inGrayscaleMode = d.inGrayscaleMode
        /\ e.needsInitialFull = d.needsInitialFull /\ ~e.pendingPowerOff
    BY <1>0, <2>1 DEF DriverState
  <2> QED BY <2>2 DEF PanelSettled, PanelOK, Owes, Idle, SamePlanes, KeepsFlags
<1> QED BY <1>0, <1>1, <1>2, <1>3 DEF DriverState

(* Serving a parked power-off leaves none behind.                          *)
LEMMA ParkOK ==
  ASSUME NEW d, NEW s, NEW o \in Outcome, PanelSettled(d, s)
  PROVE  LET e == ParkIfAsked(d, o) IN
         /\ PanelOK(e, s) /\ Idle(e) /\ SamePlanes(d, e) /\ KeepsFlags(d, e)
<1> DEFINE c == [d EXCEPT !.pendingPowerOff = FALSE]
<1>0. d \in DriverState
  BY DEF PanelSettled
<1>1. CASE ~d.pendingPowerOff
  BY <1>1 DEF ParkIfAsked, PanelSettled, PanelOK, Idle, SamePlanes, KeepsFlags
<1>2. CASE d.pendingPowerOff
  <2>1. /\ c \in DriverState /\ ~c.pendingPowerOff /\ c.wave = d.wave /\ c.red = d.red /\ c.bw = d.bw
        /\ c.glass = d.glass /\ c.needsGrayClear = d.needsGrayClear
        /\ c.inGrayscaleMode = d.inGrayscaleMode /\ c.needsInitialFull = d.needsInitialFull
    BY <1>0 DEF DriverState
  <2>2. PanelSettled(c, s)
    BY <2>1 DEF PanelSettled, Owes
  <2>3. ParkIfAsked(d, o) = PowerOffController(c, o)
    BY <1>2 DEF ParkIfAsked
  <2> DEFINE e == PowerOffController(c, o)
  <2> HIDE DEF c
  <2>4. PanelOK(e, s) /\ Idle(e) /\ SamePlanes(c, e) /\ KeepsFlags(c, e)
    BY <2>1, <2>2, PowerOffOK
  <2> QED BY <2>1, <2>3, <2>4 DEF SamePlanes, KeepsFlags
<1> QED BY <1>1, <1>2

(* displayFinish(): whatever BUSY does, the debt to the reader is carried. *)
LEMMA FinishOK ==
  ASSUME NEW d, NEW s, NEW o \in Outcome, PanelOK(d, s)
  PROVE  LET e == DisplayFinish(d, o) IN
         /\ PanelOK(e, s) /\ Idle(e) /\ SamePlanes(d, e) /\ KeepsFlags(d, e)
<1> DEFINE a == WaitRefreshComplete(d, o)
<1>0. s = NoFrame \/ s \in Image
  BY DEF PanelOK
<1>1. /\ a \in DriverState /\ a.wave \in {"none", "stuck"} /\ SamePlanes(d, a) /\ KeepsFlags(d, a)
      /\ a.wave = "none" => PanelSettled(a, s)
  BY WaitOK
<1>2. CASE a.wave = "none"
  <2>1. DisplayFinish(d, o) = ParkIfAsked(a, o)
    BY <1>2 DEF DisplayFinish, IsBusy
  <2> QED BY <1>1, <1>2, <2>1, ParkOK DEF SamePlanes, KeepsFlags
<1>3. CASE a.wave = "stuck"
  <2>1. DisplayFinish(d, o) = CompleteRefresh(a)
    BY <1>3 DEF DisplayFinish, IsBusy
  <2> QED BY <1>0, <1>1, <1>3, <2>1, CompleteOK DEF Idle, SamePlanes, KeepsFlags
<1> QED BY <1>1, <1>2, <1>3

-----------------------------------------------------------------------------
(* Every operation of the driver returns a state of the driver.            *)

(* powerOffController() *)
LEMMA PowerOffType ==
  ASSUME NEW d \in DriverState, NEW o \in Outcome
  PROVE  PowerOffController(d, o) \in DriverState
<1>1. [d EXCEPT !.wave = "stuck"] \in DriverState /\ [d EXCEPT !.isScreenOn = FALSE] \in DriverState
  BY DEF DriverState
<1>2. CompleteRefresh(d) \in DriverState /\ CompleteRefresh([d EXCEPT !.wave = "stuck"]) \in DriverState
  BY <1>1, CompleteType
<1> QED BY <1>1, <1>2 DEF PowerOffController

(* The parking of the rails that ends a display call.                      *)
LEMMA ParkType ==
  ASSUME NEW d \in DriverState, NEW o \in Outcome
  PROVE  ParkIfAsked(d, o) \in DriverState
<1>1. [d EXCEPT !.pendingPowerOff = FALSE] \in DriverState
  BY DEF DriverState
<1> QED BY <1>1, PowerOffType DEF ParkIfAsked

(* A blocking call once its waveform has been fired.                       *)
LEMMA FinishType ==
  ASSUME NEW d \in DriverState, NEW o \in Outcome
  PROVE  DisplayFinish(d, o) \in DriverState
  BY WaitType, CompleteType, ParkType DEF DisplayFinish

(* refresh() *)
LEMMA RefreshType ==
  ASSUME NEW d \in DriverState, NEW wave \in {"fast", "clean"}, NEW turnOff \in BOOLEAN
  PROVE  Refresh(d, wave, turnOff) \in DriverState
  BY FrameAssumption DEF Refresh, SequencePowersOff, DriverState

(* displayImpl() up to the activation.                                     *)
LEMMA ActivateType ==
  ASSUME NEW d \in DriverState, NEW fb \in Image, NEW prev \in Image \cup {NoFrame},
         NEW mode \in RefreshMode, NEW turnOff \in BOOLEAN
  PROVE  Activate(d, fb, prev, mode, turnOff) \in DriverState
<1> DEFINE m == EffectiveMode(d, mode)
           w == IF m = "FAST" THEN "fast" ELSE "clean"
           a == [d EXCEPT !.bw = fb, !.red = OldPlane(d, fb, prev, m),
                          !.needsGrayClear = FALSE, !.needsInitialFull = FALSE,
                          !.inGrayscaleMode = FALSE]
<1>1. OldPlane(d, fb, prev, m) \in Image
  BY DEF OldPlane, DriverState
<1>2. a \in DriverState
  BY <1>1 DEF DriverState
<1>3. w \in {"fast", "clean"}
  OBVIOUS
<1>4. Activate(d, fb, prev, mode, turnOff) = Refresh(a, w, turnOff)
  BY DEF Activate
<1> HIDE DEF a, w
<1> QED BY <1>2, <1>3, <1>4, RefreshType

(* display() *)
LEMMA DisplayType ==
  ASSUME NEW d \in DriverState, NEW fb \in Image, NEW prev \in Image \cup {NoFrame},
         NEW mode \in RefreshMode, NEW turnOff \in BOOLEAN, NEW o \in Outcome
  PROVE  Display(d, fb, prev, mode, turnOff, o) \in DriverState
<1> DEFINE a == WaitRefreshComplete(Activate(d, fb, prev, mode, turnOff), o)
<1>1. a \in DriverState
  BY ActivateType, WaitType
<1>2. Resync(a, fb, prev) \in DriverState
  BY <1>1 DEF Resync, DriverState
<1>3. /\ CompleteRefresh(d) \in DriverState /\ CompleteRefresh(a) \in DriverState
      /\ ParkIfAsked(Resync(a, fb, prev), o) \in DriverState
  BY <1>1, <1>2, CompleteType, ParkType
<1> HIDE DEF a
<1>4. Display(d, fb, prev, mode, turnOff, o) =
        IF IsBusy(d) THEN CompleteRefresh(d)
        ELSE IF IsBusy(a) THEN CompleteRefresh(a) ELSE ParkIfAsked(Resync(a, fb, prev), o)
  BY DEF Display, a
<1> QED BY <1>3, <1>4

(* displayStart() *)
LEMMA StartType ==
  ASSUME NEW d \in DriverState, NEW fb \in Image, NEW prev \in Image \cup {NoFrame},
         NEW mode \in RefreshMode, NEW turnOff \in BOOLEAN
  PROVE  DisplayStart(d, fb, prev, mode, turnOff) \in DriverState
  BY CompleteType, ActivateType DEF DisplayStart

(* displayWindow() *)
LEMMA PatchType ==
  ASSUME NEW plane \in Image, NEW img \in Image, NEW win
  PROVE  Patch(plane, img, win) \in Image
  BY DEF Patch, Image

(* The plane writes of displayWindow().                                    *)
LEMMA WindowPlanesType ==
  ASSUME NEW d \in DriverState, NEW fb \in Image, NEW prev \in Image \cup {NoFrame}, NEW win
  PROVE  WindowPlanes(d, fb, prev, win) \in DriverState
<1>1. d.bw \in Image /\ d.red \in Image
  BY DEF DriverState
<1>2. Patch(d.bw, fb, win) \in Image /\ (prev # NoFrame => Patch(d.red, prev, win) \in Image)
  BY <1>1, PatchType
<1> QED BY <1>1, <1>2 DEF WindowPlanes, DriverState

(* displayWindow() *)
LEMMA WindowType ==
  ASSUME NEW d \in DriverState, NEW fb \in Image, NEW prev \in Image \cup {NoFrame},
         NEW win, NEW turnOff \in BOOLEAN, NEW o \in Outcome
  PROVE  DisplayWindow(d, fb, prev, win, turnOff, o) \in DriverState
<1> DEFINE p == WindowPlanes(d, fb, prev, win)
           a == WaitRefreshComplete(Refresh(p, "fast", turnOff), o)
           b == IF prev = NoFrame THEN [a EXCEPT !.bw = Patch(@, fb, win), !.red = Patch(@, fb, win)] ELSE a
<1>1. a \in DriverState
  BY WindowPlanesType, RefreshType, WaitType
<1>2. b \in DriverState
  <2>1. a.bw \in Image /\ a.red \in Image
    BY <1>1 DEF DriverState
  <2>2. Patch(a.bw, fb, win) \in Image /\ Patch(a.red, fb, win) \in Image
    BY <2>1, PatchType
  <2> QED BY <1>1, <2>2 DEF DriverState
<1>3. /\ CompleteRefresh(d) \in DriverState /\ CompleteRefresh(a) \in DriverState
      /\ ParkIfAsked(b, o) \in DriverState
  BY <1>1, <1>2, CompleteType, ParkType
<1>4. Display(d, fb, NoFrame, "HALF", turnOff, o) \in DriverState
  BY DisplayType DEF RefreshMode
<1>5. DisplayWindow(d, fb, prev, win, turnOff, o) =
        IF IsBusy(d) THEN CompleteRefresh(d)
        ELSE IF Promotes(d) THEN Display(d, fb, NoFrame, "HALF", turnOff, o)
        ELSE IF IsBusy(a) THEN CompleteRefresh(a) ELSE ParkIfAsked(b, o)
  BY DEF DisplayWindow
<1> HIDE DEF a, b
<1> QED BY <1>3, <1>4, <1>5

(* displayGray() *)
LEMMA GrayType ==
  ASSUME NEW d \in DriverState, NEW turnOff \in BOOLEAN, NEW factoryMode \in BOOLEAN, NEW o \in Outcome
  PROVE  DisplayGray(d, turnOff, factoryMode, o) \in DriverState
<1> DEFINE lit == [d EXCEPT !.inGrayscaleMode = ~factoryMode,
                            !.wave = IF factoryMode THEN "factory" ELSE "gray",
                            !.isScreenOn = factoryMode \/ ~turnOff,
                            !.pendingPowerOff = FALSE]
           a == WaitRefreshComplete(lit, o)
           b == IF turnOff THEN PowerOffController(a, o) ELSE a
<1>1. lit \in DriverState
  BY DEF DriverState
<1> HIDE DEF lit
<1>2. a \in DriverState
  BY <1>1, WaitType
<1> HIDE DEF a
<1>3. b \in DriverState
  BY <1>2, PowerOffType
<1> HIDE DEF b
<1>4. [b EXCEPT !.needsGrayClear = TRUE] \in DriverState
  BY <1>3 DEF DriverState
<1>5. CompleteRefresh(d) \in DriverState /\ CompleteRefresh(a) \in DriverState
  BY <1>2, CompleteType
<1>6. DisplayGray(d, turnOff, factoryMode, o) =
        IF IsBusy(d) THEN CompleteRefresh(d)
        ELSE IF IsBusy(a) THEN CompleteRefresh(a)
        ELSE IF ~factoryMode THEN a ELSE [b EXCEPT !.needsGrayClear = TRUE]
  BY DEF DisplayGray, a, b, lit
<1> QED BY <1>2, <1>4, <1>5, <1>6

(* cleanupGrayscaleBuffers(), the RAM writes, requestResync() and begin().  *)
LEMMA CleanupType ==
  ASSUME NEW d \in DriverState, NEW bw \in Image \cup {NoFrame}
  PROVE  CleanupGrayscale(d, bw) \in DriverState
  BY CompleteType DEF CleanupGrayscale, DriverState

(* The RAM writes of the gray and seed paths keep the types.               *)
LEMMA RamWriteType ==
  ASSUME NEW d \in DriverState, NEW lsb \in Image, NEW msb \in Image
  PROVE  /\ SeedPreviousFrame(d, lsb) \in DriverState
         /\ CopyGrayscale(d, lsb, msb) \in DriverState
         /\ RequestDriverResync(d) \in DriverState
  BY DEF SeedPreviousFrame, CopyGrayscale, RequestDriverResync, DriverState

(* A controller out of reset is well typed.                                *)
LEMMA BeginType ==
  ASSUME NEW glass \in [Region -> Ink]
  PROVE  BeginController(glass) \in DriverState
  BY DEF BeginController, DriverState, White, Image, Pixel

(* So is one whose begin() gave up on BUSY.                                *)
LEMMA BegunType ==
  ASSUME NEW glasses, glasses \subseteq [Region -> Ink], NEW d \in Begun(glasses)
  PROVE  d \in DriverState
<1>1. CASE \E g \in glasses : d = BeginController(g)
  BY <1>1, BeginType
<1>2. CASE \E g \in glasses, red \in Image, bw \in Image : d = AbandonedBegin(g, red, bw)
  <2>1. PICK g \in glasses, red \in Image, bw \in Image : d = AbandonedBegin(g, red, bw)
    BY <1>2
  <2>2. BeginController(g) \in DriverState
    BY BeginType
  <2> QED BY <2>1, <2>2 DEF AbandonedBegin, DriverState
<1> QED BY <1>1, <1>2 DEF Begun

-----------------------------------------------------------------------------
(* What every operation leaves owed to the reader.                         *)

(* The differential baseline of a FAST request is the frame owed so far.   *)
Baseline(d, s, prev, mode) ==
  mode = "FAST" /\ ~Promotes(d) => IF prev # NoFrame THEN prev = s ELSE d.red = s

(* The planes after an update to fb: no promotion is in force and BW has   *)
(* it, and when redKnown RED has it too, or the clean paint is armed.      *)
PlanesHold(d, fb, redKnown) ==
  d.needsInitialFull \/ (~Promotes(d) /\ d.bw = fb /\ (redKnown => d.red = fb))

(* A promotion is in force whenever no BW frame is owed.                   *)
LEMMA NothingOwed ==
  ASSUME NEW d, NEW s, PanelOK(d, s), ~Promotes(d)
  PROVE  s # NoFrame /\ s \in Image /\ Owes(d, s) /\ ~d.needsInitialFull
  BY DEF PanelOK, Promotes

(* An activation binds both planes to bring the frame to the glass.        *)
LEMMA ActivateOK ==
  ASSUME NEW d, NEW s, PanelOK(d, s), d.wave = "none",
         NEW fb \in Image, NEW prev \in Image \cup {NoFrame}, NEW mode \in RefreshMode,
         NEW turnOff \in BOOLEAN, Baseline(d, s, prev, mode)
  PROVE  LET a == Activate(d, fb, prev, mode, turnOff) IN
         /\ PanelOK(a, fb) /\ a.wave \in {"fast", "clean"}
         /\ ~Promotes(a) /\ a.bw = fb /\ (mode # "FAST" => a.red = fb)
<1> DEFINE m == EffectiveMode(d, mode)
           a == Activate(d, fb, prev, mode, turnOff)
<1>1. d \in DriverState /\ a \in DriverState
  BY ActivateType DEF PanelOK
<1>2. /\ a.wave = IF m = "FAST" THEN "fast" ELSE "clean"
      /\ a.bw = fb /\ a.red = OldPlane(d, fb, prev, m) /\ a.glass = d.glass
      /\ ~a.needsGrayClear /\ ~a.needsInitialFull /\ ~a.inGrayscaleMode
  BY <1>1 DEF Activate, Refresh, DriverState
<1>3. mode # "FAST" => m # "FAST" /\ a.red = fb
  BY <1>2 DEF EffectiveMode, OldPlane
<1>4. Owes(a, fb)
  <2>1. CASE m # "FAST"
    BY <1>2, <2>1 DEF Owes
  <2>2. CASE m = "FAST"
    <3>1. mode = "FAST" /\ ~Promotes(d)
      BY <2>2 DEF EffectiveMode
    <3>2. \A r \in Region : d.glass[r] \in {s[r], "G"}
      BY <3>1, NothingOwed DEF Owes
    <3>3. a.red = s
      BY <1>2, <2>2, <3>1 DEF Baseline, OldPlane
    <3> QED BY <1>2, <2>2, <3>2, <3>3 DEF Owes
  <2> QED BY <2>1, <2>2
<1>5. fb # NoFrame
  BY FrameAssumption
<1> HIDE DEF a
<1>6. a.wave \in {"fast", "clean"}
  BY <1>2
<1> QED BY <1>1, <1>2, <1>3, <1>4, <1>5, <1>6 DEF PanelOK, Promotes, a

(* The tail that blocking calls share: the wait, the writes of the planes  *)
(* that follow it (which touch no flag and no ink), the parking.           *)
SameButPlanes(a, b) ==
  /\ b.glass = a.glass /\ b.wave = a.wave /\ b.pendingPowerOff = a.pendingPowerOff
  /\ b.needsInitialFull = a.needsInitialFull /\ b.needsGrayClear = a.needsGrayClear
  /\ b.inGrayscaleMode = a.inGrayscaleMode

(* Rewriting the planes of an idle panel changes nothing it owes.          *)
LEMMA RewriteSettled ==
  ASSUME NEW a, NEW b \in DriverState, NEW s, PanelSettled(a, s), SameButPlanes(a, b)
  PROVE  PanelSettled(b, s) /\ KeepsFlags(a, b)
  BY DEF PanelSettled, SameButPlanes, Owes, KeepsFlags

(* Promotions, once kept, still promote.                                   *)
LEMMA KeepsPromotion ==
  ASSUME NEW d, NEW e, KeepsFlags(d, e), Promotes(d)
  PROVE  Promotes(e)
  BY DEF KeepsFlags, Promotes

(* display(): whatever the mode and whatever BUSY does, the panel comes    *)
(* back idle and owes the new frame.                                       *)
LEMMA DisplayOK ==
  ASSUME NEW d, NEW s, PanelOK(d, s), Idle(d),
         NEW fb \in Image, NEW prev \in Image \cup {NoFrame}, NEW mode \in RefreshMode,
         NEW turnOff \in BOOLEAN, NEW o \in Outcome, Baseline(d, s, prev, mode)
  PROVE  LET e == Display(d, fb, prev, mode, turnOff, o) IN
         PanelOK(e, fb) /\ Idle(e) /\ PlanesHold(e, fb, prev = NoFrame \/ mode # "FAST")
<1> DEFINE a == Activate(d, fb, prev, mode, turnOff)
           w == WaitRefreshComplete(a, o)
           b == Resync(w, fb, prev)
           e == Display(d, fb, prev, mode, turnOff, o)
<1>0. d \in DriverState
  BY DEF PanelOK
<1>1. CASE d.wave = "stuck"
  <2>1. e = CompleteRefresh(d)
    BY <1>1 DEF Display, IsBusy
  <2>2. PanelOK(e, fb) /\ e.needsInitialFull /\ e.wave = d.wave
    BY <1>0, <1>1, <2>1, CompleteOK
  <2> QED BY <1>1, <2>2 DEF Idle, PlanesHold, Promotes
<1>2. CASE d.wave = "none"
  <2>1. /\ PanelOK(a, fb) /\ a.wave \in {"fast", "clean"}
        /\ ~Promotes(a) /\ a.bw = fb /\ (mode # "FAST" => a.red = fb)
    BY <1>2, ActivateOK
  <2>2. e = IF IsBusy(w) THEN CompleteRefresh(w) ELSE ParkIfAsked(b, o)
    BY <1>2 DEF Display, IsBusy
  <2> HIDE DEF a
  <2>3. /\ w \in DriverState /\ w.wave \in {"none", "stuck"} /\ SamePlanes(a, w) /\ KeepsFlags(a, w)
        /\ w.wave = "none" => PanelSettled(w, fb)
    BY <2>1, WaitOK
  <2> HIDE DEF w, e
  <2>4. CASE w.wave = "stuck"
    <3>1. e = CompleteRefresh(w)
      BY <2>2, <2>4 DEF IsBusy
    <3>2. PanelOK(e, fb) /\ e.needsInitialFull /\ e.wave = w.wave
      BY <2>3, <2>4, <3>1, CompleteOK
    <3> QED BY <2>4, <3>2 DEF Idle, PlanesHold, Promotes, e
  <2>5. CASE w.wave = "none"
    <3>1. e = ParkIfAsked(b, o)
      BY <2>2, <2>5 DEF IsBusy
    <3>2. /\ b \in DriverState /\ SameButPlanes(w, b)
          /\ b.bw = fb /\ (prev = NoFrame \/ mode # "FAST" => b.red = fb)
      BY <2>1, <2>3 DEF Resync, DriverState, SameButPlanes, SamePlanes
    <3> HIDE DEF b
    <3>3. PanelSettled(b, fb) /\ KeepsFlags(w, b)
      BY <2>3, <2>5, <3>2, RewriteSettled
    <3>4. PanelOK(e, fb) /\ Idle(e) /\ SamePlanes(b, e) /\ KeepsFlags(b, e)
      BY <3>1, <3>3, ParkOK
    <3> QED BY <2>1, <2>3, <3>2, <3>3, <3>4 DEF PlanesHold, SamePlanes, KeepsFlags, Promotes, e
  <2> QED BY <2>3, <2>4, <2>5
<1> QED BY <1>1, <1>2 DEF Idle

(* displayStart() *)
LEMMA StartOK ==
  ASSUME NEW d, NEW s, PanelOK(d, s), Idle(d),
         NEW fb \in Image, NEW prev \in Image \cup {NoFrame}, NEW mode \in RefreshMode,
         NEW turnOff \in BOOLEAN, Baseline(d, s, prev, mode)
  PROVE  LET e == DisplayStart(d, fb, prev, mode, turnOff) IN
         PanelOK(e, fb) /\ PlanesHold(e, fb, mode # "FAST")
<1> DEFINE e == DisplayStart(d, fb, prev, mode, turnOff)
<1>1. CASE d.wave = "stuck"
  <2>1. e = CompleteRefresh(d)
    BY <1>1 DEF DisplayStart, IsBusy
  <2>2. PanelOK(e, fb) /\ e.needsInitialFull
    BY <1>1, <2>1, CompleteOK DEF PanelOK
  <2> QED BY <2>2 DEF PlanesHold, Promotes
<1>2. CASE d.wave = "none"
  <2>1. e = Activate(d, fb, prev, mode, turnOff)
    BY <1>2 DEF DisplayStart, IsBusy
  <2> QED BY <1>2, <2>1, ActivateOK DEF PlanesHold
<1> QED BY <1>1, <1>2 DEF Idle

(* displayWindow(): the whole panel is owed the old frame with the window  *)
(* replaced, or the whole new frame once a promotion repaints it.  A host  *)
(* copy patches RED, so that RED need not match outside the window.        *)
LEMMA WindowOK ==
  ASSUME NEW d, NEW s, PanelOK(d, s), Idle(d),
         NEW fb \in Image, NEW prev \in Image \cup {NoFrame}, NEW win,
         NEW turnOff \in BOOLEAN, NEW o \in Outcome,
         Baseline(d, s, prev, "FAST"), ~Promotes(d) => d.bw = s
  PROVE  LET e == DisplayWindow(d, fb, prev, win, turnOff, o)
             t == IF Promotes(d) \/ s = NoFrame THEN fb ELSE Patch(s, fb, win)
         IN PanelOK(e, t) /\ Idle(e) /\ PlanesHold(e, t, prev = NoFrame \/ Promotes(d))
<1> DEFINE p == WindowPlanes(d, fb, prev, win)
           f == Refresh(p, "fast", turnOff)
           a == WaitRefreshComplete(f, o)
           b == IF prev = NoFrame THEN [a EXCEPT !.bw = Patch(@, fb, win), !.red = Patch(@, fb, win)] ELSE a
           e == DisplayWindow(d, fb, prev, win, turnOff, o)
           t == IF Promotes(d) \/ s = NoFrame THEN fb ELSE Patch(s, fb, win)
<1>0. d \in DriverState
  BY DEF PanelOK
<1>1. CASE d.wave = "stuck"
  <2>1. e = CompleteRefresh(d)
    BY <1>1 DEF DisplayWindow, IsBusy
  <2>2. s = NoFrame \/ s \in Image
    BY DEF PanelOK
  <2>3. t \in Image
    BY <2>2, PatchType
  <2>4. PanelOK(e, t) /\ e.needsInitialFull /\ e.wave = d.wave
    BY <1>0, <1>1, <2>1, <2>3, CompleteOK
  <2> QED BY <1>1, <2>4 DEF Idle, PlanesHold, Promotes
<1>2. CASE d.wave = "none" /\ Promotes(d)
  <2>1. e = Display(d, fb, NoFrame, "HALF", turnOff, o)
    BY <1>2 DEF DisplayWindow, IsBusy
  <2>2. Baseline(d, s, NoFrame, "HALF") /\ "HALF" \in RefreshMode
    BY DEF Baseline, RefreshMode
  <2>3. PanelOK(e, fb) /\ Idle(e) /\ PlanesHold(e, fb, NoFrame = NoFrame \/ "HALF" # "FAST")
    BY <2>1, <2>2, DisplayOK
  <2> QED BY <1>2, <2>3 DEF PlanesHold
<1>3. CASE d.wave = "none" /\ ~Promotes(d)
  <2>0. s # NoFrame /\ s \in Image /\ Owes(d, s) /\ ~d.needsInitialFull
    BY <1>3, NothingOwed
  <2>1. t = Patch(s, fb, win) /\ t \in Image /\ t # NoFrame
    BY <1>3, <2>0, PatchType, FrameAssumption
  <2>2. e = IF IsBusy(a) THEN CompleteRefresh(a) ELSE ParkIfAsked(b, o)
    BY <1>3 DEF DisplayWindow, IsBusy
  <2>3. p \in DriverState /\ f \in DriverState
    BY <1>0, WindowPlanesType, RefreshType
  <2>4. /\ f.wave = "fast" /\ f.bw = Patch(d.bw, fb, win) /\ f.glass = d.glass
        /\ f.red = (IF prev = NoFrame THEN d.red ELSE Patch(d.red, prev, win))
        /\ ~Promotes(f) /\ ~f.needsInitialFull
    BY <1>0, <1>3, <2>3 DEF WindowPlanes, Refresh, DriverState, Promotes
  <2>5. f.bw = t
    BY <1>3, <2>1, <2>4
  <2>6. ASSUME NEW r \in Region, f.red[r] = t[r] PROVE f.glass[r] \in {t[r], "G"}
    <3>1. d.glass[r] \in {s[r], "G"}
      BY <1>3, <2>0 DEF Owes
    <3>2. s[r] = t[r]
      <4>1. CASE r \notin win
        BY <2>1, <4>1 DEF Patch
      <4>2. CASE r \in win
        <5>1. f.red[r] = s[r]
          BY <1>3, <2>4, <4>2 DEF Baseline, Patch
        <5> QED BY <2>6, <5>1
      <4> QED BY <4>1, <4>2
    <3> QED BY <2>4, <3>1, <3>2
  <2>7. PanelOK(f, t)
    BY <2>1, <2>3, <2>4, <2>5, <2>6 DEF PanelOK, Owes
  <2> HIDE DEF f
  <2>8. /\ a \in DriverState /\ a.wave \in {"none", "stuck"} /\ SamePlanes(f, a) /\ KeepsFlags(f, a)
        /\ a.wave = "none" => PanelSettled(a, t)
    BY <2>7, WaitOK
  <2> HIDE DEF a, e, t
  <2>9. CASE a.wave = "stuck"
    <3>1. e = CompleteRefresh(a)
      BY <2>2, <2>9 DEF IsBusy
    <3>2. PanelOK(e, t) /\ e.needsInitialFull /\ e.wave = a.wave
      BY <2>1, <2>8, <2>9, <3>1, CompleteOK
    <3> QED BY <2>9, <3>2 DEF Idle, PlanesHold, Promotes, e, t
  <2>10. CASE a.wave = "none"
    <3>1. e = ParkIfAsked(b, o)
      BY <2>2, <2>10 DEF IsBusy
    <3>2. Patch(t, fb, win) = t
      BY <2>0, <2>1 DEF Patch, Image
    <3>3. a.bw = t /\ (prev = NoFrame => a.red = s)
      BY <1>3, <2>4, <2>5, <2>8 DEF SamePlanes, Baseline
    <3>4. /\ b \in DriverState /\ SameButPlanes(a, b)
          /\ b.bw = t /\ (prev = NoFrame => b.red = t)
      BY <2>1, <2>8, <3>2, <3>3 DEF DriverState, SameButPlanes
    <3> HIDE DEF b
    <3>5. PanelSettled(b, t) /\ KeepsFlags(a, b)
      BY <2>8, <2>10, <3>4, RewriteSettled
    <3>6. PanelOK(e, t) /\ Idle(e) /\ SamePlanes(b, e) /\ KeepsFlags(b, e)
      BY <3>1, <3>5, ParkOK
    <3>7. PlanesHold(e, t, prev = NoFrame)
      BY <2>4, <2>8, <3>4, <3>5, <3>6 DEF PlanesHold, SamePlanes, KeepsFlags, Promotes
    <3> QED BY <1>3, <3>6, <3>7 DEF e, t
  <2> QED BY <2>8, <2>9, <2>10
<1> QED BY <1>1, <1>2, <1>3 DEF Idle

(* displayGray(): an overlay leaves the page owed under its grays, the     *)
(* factory bank leaves nothing owed; both promote the next update.         *)
LEMMA GrayOK ==
  ASSUME NEW d, NEW s, PanelOK(d, s), Idle(d),
         NEW turnOff \in BOOLEAN, NEW factoryMode \in BOOLEAN, NEW o \in Outcome
  PROVE  LET e == DisplayGray(d, turnOff, factoryMode, o) IN
         /\ PanelOK(e, IF factoryMode THEN NoFrame ELSE s)
         /\ Idle(e) /\ Promotes(e) /\ SamePlanes(d, e)
<1> DEFINE lit == [d EXCEPT !.inGrayscaleMode = ~factoryMode,
                            !.wave = IF factoryMode THEN "factory" ELSE "gray",
                            !.isScreenOn = factoryMode \/ ~turnOff,
                            !.pendingPowerOff = FALSE]
           a == WaitRefreshComplete(lit, o)
           b == IF turnOff THEN PowerOffController(a, o) ELSE a
           e == DisplayGray(d, turnOff, factoryMode, o)
           t == IF factoryMode THEN NoFrame ELSE s
<1>0. d \in DriverState /\ (s = NoFrame \/ s \in Image)
  BY DEF PanelOK
<1>1. CASE d.wave = "stuck"
  <2>1. e = CompleteRefresh(d)
    BY <1>1 DEF DisplayGray, IsBusy
  <2>2. t = NoFrame \/ t \in Image
    BY <1>0
  <2>3. PanelOK(e, t) /\ e.needsInitialFull /\ e.wave = d.wave /\ SamePlanes(d, e)
    BY <1>0, <1>1, <2>1, <2>2, CompleteOK
  <2> QED BY <1>1, <2>3 DEF Idle, Promotes
<1>2. CASE d.wave = "none"
  <2>1. e = IF IsBusy(a) THEN CompleteRefresh(a)
            ELSE IF ~factoryMode THEN a ELSE [b EXCEPT !.needsGrayClear = TRUE]
    BY <1>2 DEF DisplayGray, IsBusy
  <2>2. /\ lit \in DriverState /\ lit.wave = (IF factoryMode THEN "factory" ELSE "gray")
        /\ lit.inGrayscaleMode = ~factoryMode /\ ~lit.pendingPowerOff /\ SamePlanes(d, lit)
        /\ lit.glass = d.glass /\ lit.needsInitialFull = d.needsInitialFull
        /\ lit.needsGrayClear = d.needsGrayClear
    BY <1>0 DEF DriverState, SamePlanes
  <2> HIDE DEF lit
  <2>3. a \in DriverState
    BY <2>2, WaitType
  <2>4. CASE o = "refreshHangs"
    <3>1. a.wave = "stuck" /\ SamePlanes(lit, a)
      BY <2>2, <2>4 DEF WaitRefreshComplete, SamePlanes, DriverState
    <3>2. e = CompleteRefresh(a)
      BY <2>1, <3>1 DEF IsBusy
    <3>3. t = NoFrame \/ t \in Image
      BY <1>0
    <3> HIDE DEF a
    <3>4. PanelOK(e, t) /\ e.needsInitialFull /\ e.wave = a.wave /\ SamePlanes(a, e)
      BY <2>3, <3>1, <3>2, <3>3, CompleteOK
    <3> QED BY <2>2, <3>1, <3>4 DEF Idle, Promotes, SamePlanes
  <2>5. CASE o # "refreshHangs"
    <3>1. /\ a.wave = "none" /\ SamePlanes(lit, a) /\ a.glass = Developed(lit) /\ KeepsFlags(lit, a)
          /\ ~a.pendingPowerOff /\ a.needsInitialFull = lit.needsInitialFull
      BY <2>2, <2>5 DEF WaitRefreshComplete, SamePlanes, DriverState, KeepsFlags
    <3> HIDE DEF a
    <3>2. CASE ~factoryMode
      <4>1. e = a
        BY <2>1, <3>1, <3>2 DEF IsBusy
      <4>2. a.inGrayscaleMode
        BY <2>2, <3>1, <3>2 DEF KeepsFlags
      <4>3. s # NoFrame => Owes(a, s)
        <5> SUFFICES ASSUME s # NoFrame, ~a.needsInitialFull PROVE Owes(a, s)
          BY DEF Owes
        <5>1. \A r \in Region : d.glass[r] \in {s[r], "G"}
          BY <1>2, <2>2, <3>1 DEF PanelOK, Owes
        <5>2. ASSUME NEW r \in Region PROVE a.glass[r] \in {s[r], "G"}
          <6>1. lit.wave = "gray" /\ a.glass[r] = Developed(lit)[r]
            BY <2>2, <3>1, <3>2
          <6>2. Developed(lit)[r] \in {lit.glass[r], "G"}
            BY <6>1 DEF Developed
          <6> QED BY <2>2, <5>1, <6>1, <6>2
        <5> QED BY <3>1, <5>2 DEF Owes
      <4>4. PanelOK(a, s)
        <5>1. s = NoFrame => a.needsInitialFull \/ a.needsGrayClear
          BY <2>2, <3>1 DEF PanelOK, KeepsFlags
        <5> QED BY <1>0, <2>3, <3>1, <4>3, <5>1 DEF PanelOK
      <4> QED BY <2>2, <3>1, <3>2, <4>1, <4>2, <4>4 DEF Idle, Promotes, SamePlanes
    <3>3. CASE factoryMode
      <4> DEFINE c == [b EXCEPT !.needsGrayClear = TRUE]
      <4>1. e = c
        BY <2>1, <3>1, <3>3 DEF IsBusy
      <4>2. /\ b \in DriverState /\ b.wave \in {"none", "stuck"} /\ SamePlanes(a, b)
            /\ b.wave = "stuck" => b.needsInitialFull
            /\ ~b.pendingPowerOff
        <5>1. CASE ~turnOff
          BY <2>3, <3>1, <5>1 DEF SamePlanes
        <5>2. CASE turnOff
          <6>1. b = PowerOffController(a, o)
            BY <5>2
          <6>2. CASE ~a.isScreenOn
            BY <2>3, <3>1, <6>1, <6>2 DEF PowerOffController, CompleteRefresh, IsBusy, SamePlanes
          <6>3. CASE a.isScreenOn /\ o = "powerOffHangs"
            <7> DEFINE h == [a EXCEPT !.wave = "stuck"]
            <7>1. b = CompleteRefresh(h)
              BY <3>1, <6>1, <6>3 DEF PowerOffController, IsBusy
            <7>2. h \in DriverState /\ h.wave = "stuck" /\ SamePlanes(a, h)
              BY <2>3 DEF DriverState, SamePlanes
            <7> HIDE DEF h, b
            <7>3. PanelOK(b, NoFrame) /\ b.needsInitialFull /\ b.wave = h.wave /\ SamePlanes(h, b)
              BY <7>1, <7>2, CompleteOK
            <7> QED BY <7>2, <7>3 DEF PanelOK, SamePlanes
          <6>4. CASE a.isScreenOn /\ o # "powerOffHangs"
            <7>1. b = [a EXCEPT !.isScreenOn = FALSE]
              BY <3>1, <6>1, <6>4 DEF PowerOffController, IsBusy
            <7> HIDE DEF b
            <7> QED BY <2>3, <3>1, <7>1 DEF DriverState, SamePlanes
          <6> QED BY <2>3, <6>2, <6>3, <6>4 DEF DriverState
        <5> QED BY <5>1, <5>2
      <4> HIDE DEF b
      <4>3. /\ c \in DriverState /\ c.needsGrayClear /\ c.wave = b.wave /\ SamePlanes(b, c)
            /\ c.needsInitialFull = b.needsInitialFull /\ ~c.pendingPowerOff
        BY <4>2 DEF DriverState, SamePlanes
      <4> HIDE DEF c
      <4>4. PanelOK(c, NoFrame)
        BY <4>2, <4>3 DEF PanelOK
      <4> QED BY <2>2, <3>1, <3>3, <4>1, <4>2, <4>3, <4>4 DEF Idle, Promotes, SamePlanes
    <3> QED BY <3>2, <3>3
  <2> QED BY <2>4, <2>5
<1> QED BY <1>1, <1>2 DEF Idle

(* cleanupGrayscaleBuffers(): RED takes the BW page and the promotion of   *)
(* the overlay is lifted; the others stand.                                *)
LEMMA CleanupOK ==
  ASSUME NEW d, NEW s, PanelOK(d, s), Idle(d), NEW bw \in Image
  PROVE  LET e == CleanupGrayscale(d, bw) IN
         /\ PanelOK(e, s) /\ Idle(e) /\ e.bw = d.bw
         /\ e.needsGrayClear = d.needsGrayClear /\ (d.needsInitialFull => e.needsInitialFull)
         /\ e.needsInitialFull \/ (e.red = bw /\ ~e.inGrayscaleMode)
<1> DEFINE e == CleanupGrayscale(d, bw)
<1>0. d \in DriverState /\ (s = NoFrame \/ s \in Image) /\ bw # NoFrame
  BY FrameAssumption DEF PanelOK
<1>1. CASE d.wave = "stuck"
  <2>1. e = CompleteRefresh(d)
    BY <1>1 DEF CleanupGrayscale, IsBusy
  <2>2. /\ PanelOK(e, s) /\ e.needsInitialFull /\ e.wave = d.wave
        /\ SamePlanes(d, e) /\ KeepsFlags(d, e)
    BY <1>0, <1>1, <2>1, CompleteOK
  <2> QED BY <1>1, <2>2 DEF Idle, SamePlanes, KeepsFlags
<1>2. CASE d.wave = "none"
  <2>1. e = [d EXCEPT !.red = bw, !.inGrayscaleMode = FALSE]
    BY <1>0, <1>2 DEF CleanupGrayscale, IsBusy
  <2>2. /\ e \in DriverState /\ e.wave = d.wave /\ e.bw = d.bw /\ e.red = bw /\ e.glass = d.glass
        /\ e.needsInitialFull = d.needsInitialFull /\ e.needsGrayClear = d.needsGrayClear
        /\ e.pendingPowerOff = d.pendingPowerOff /\ ~e.inGrayscaleMode
    BY <1>0, <2>1 DEF DriverState
  <2> HIDE DEF e
  <2> QED BY <1>2, <2>2 DEF PanelOK, Owes, Idle, e
<1> QED BY <1>1, <1>2 DEF Idle

(* The plane writes that fire nothing: seedPreviousFrame() and the gray    *)
(* masks, on an idle panel.                                                *)
LEMMA RamWriteOK ==
  ASSUME NEW d, NEW s, PanelOK(d, s), Idle(d), NEW lsb \in Image, NEW msb \in Image
  PROVE  /\ PanelOK(SeedPreviousFrame(d, lsb), s) /\ Idle(SeedPreviousFrame(d, lsb))
         /\ SeedPreviousFrame(d, lsb).red = lsb /\ SeedPreviousFrame(d, lsb).bw = d.bw
         /\ KeepsFlags(d, SeedPreviousFrame(d, lsb))
         /\ PanelOK(CopyGrayscale(d, lsb, msb), s) /\ Idle(CopyGrayscale(d, lsb, msb))
         /\ KeepsFlags(d, CopyGrayscale(d, lsb, msb))
<1>0. d \in DriverState
  BY DEF PanelOK
<1>1. /\ PanelOK(SeedPreviousFrame(d, lsb), s) /\ Idle(SeedPreviousFrame(d, lsb))
      /\ SeedPreviousFrame(d, lsb).red = lsb /\ SeedPreviousFrame(d, lsb).bw = d.bw
      /\ KeepsFlags(d, SeedPreviousFrame(d, lsb))
  <2> DEFINE e == SeedPreviousFrame(d, lsb)
  <2>1. /\ e \in DriverState /\ e.wave = d.wave /\ e.glass = d.glass /\ e.red = lsb /\ e.bw = d.bw
        /\ e.needsInitialFull = d.needsInitialFull /\ e.needsGrayClear = d.needsGrayClear
        /\ e.inGrayscaleMode = d.inGrayscaleMode /\ e.pendingPowerOff = d.pendingPowerOff
    BY <1>0 DEF SeedPreviousFrame, DriverState
  <2> HIDE DEF e
  <2>2. PanelOK(e, s) /\ Idle(e)
    BY <2>1 DEF PanelOK, Owes, Idle
  <2> QED BY <2>1, <2>2 DEF KeepsFlags, e
<1>2. /\ PanelOK(CopyGrayscale(d, lsb, msb), s) /\ Idle(CopyGrayscale(d, lsb, msb))
      /\ KeepsFlags(d, CopyGrayscale(d, lsb, msb))
  <2> DEFINE e == CopyGrayscale(d, lsb, msb)
  <2>1. /\ e \in DriverState /\ e.wave = d.wave /\ e.glass = d.glass
        /\ e.needsInitialFull = d.needsInitialFull /\ e.needsGrayClear = d.needsGrayClear
        /\ e.inGrayscaleMode = d.inGrayscaleMode /\ e.pendingPowerOff = d.pendingPowerOff
    BY <1>0 DEF CopyGrayscale, DriverState
  <2> HIDE DEF e
  <2>2. PanelOK(e, s) /\ Idle(e)
    BY <2>1 DEF PanelOK, Owes, Idle
  <2> QED BY <2>1, <2>2 DEF KeepsFlags, e
<1> QED BY <1>1, <1>2

(* requestResync() adds a promotion; a late BUSY release settles a panel   *)
(* whose failed wait has armed the clean paint.                            *)
LEMMA ResyncOK ==
  ASSUME NEW d, NEW s, PanelOK(d, s)
  PROVE  LET e == RequestDriverResync(d) IN
         /\ PanelOK(e, s) /\ Promotes(e) /\ SamePlanes(d, e)
         /\ e.wave = d.wave /\ e.pendingPowerOff = d.pendingPowerOff
         /\ e.needsInitialFull = d.needsInitialFull /\ e.inGrayscaleMode = d.inGrayscaleMode
<1> DEFINE e == RequestDriverResync(d)
<1>1. /\ e \in DriverState /\ e.wave = d.wave /\ e.glass = d.glass /\ SamePlanes(d, e)
      /\ e.needsInitialFull = d.needsInitialFull /\ e.needsGrayClear
      /\ e.pendingPowerOff = d.pendingPowerOff /\ e.inGrayscaleMode = d.inGrayscaleMode
  BY DEF RequestDriverResync, DriverState, PanelOK, SamePlanes
<1> HIDE DEF e
<1>2. PanelOK(e, s) /\ Promotes(e)
  BY <1>1 DEF PanelOK, Owes, Promotes, SamePlanes
<1> QED BY <1>1, <1>2 DEF e

(* BUSY drops after a wait had given up on it.                             *)
LEMMA ReleaseOK ==
  ASSUME NEW d, NEW s, PanelOK(d, s), d.wave = "stuck"
  PROVE  LET e == [d EXCEPT !.wave = "none"] IN
         PanelOK(e, s) /\ Idle(e) /\ SamePlanes(d, e) /\ KeepsFlags(d, e)
<1> DEFINE e == [d EXCEPT !.wave = "none"]
<1>1. /\ e \in DriverState /\ e.wave = "none" /\ SamePlanes(d, e) /\ KeepsFlags(d, e)
      /\ e.needsInitialFull /\ e.pendingPowerOff = d.pendingPowerOff
  BY DEF DriverState, PanelOK, SamePlanes, KeepsFlags
<1> HIDE DEF e
<1> QED BY <1>1 DEF PanelOK, Owes, Idle, e

(* deepSleep(): a panel that forgets its RAM owes nothing.                 *)
LEMMA SleepOK ==
  ASSUME NEW d, NEW s, PanelOK(d, s), Idle(d), NEW o \in Outcome
  PROVE  LET e == PowerOffController(d, o) IN
         PanelOK(e, s) /\ Idle(e) /\ SamePlanes(d, e) /\ KeepsFlags(d, e)
<1> DEFINE e == PowerOffController(d, o)
<1>0. d \in DriverState /\ (s = NoFrame \/ s \in Image)
  BY DEF PanelOK
<1>1. CASE d.wave = "stuck"
  <2>1. e = CompleteRefresh(d)
    BY <1>1 DEF PowerOffController, IsBusy
  <2> QED BY <1>0, <1>1, <2>1, CompleteOK DEF Idle
<1>2. CASE d.wave = "none"
  BY <1>0, <1>2, PowerOffOK DEF PanelOK, PanelSettled
<1> QED BY <1>1, <1>2 DEF Idle

(* begin(): nothing is owed, and the first paint is armed.                 *)
LEMMA BeginOK ==
  ASSUME NEW glass \in [Region -> Ink]
  PROVE  LET e == BeginController(glass) IN
         PanelOK(e, NoFrame) /\ Idle(e) /\ Promotes(e) /\ ~e.pendingPowerOff
  BY BeginType DEF BeginController, PanelOK, Idle, Promotes

-----------------------------------------------------------------------------
(* The ink.  From d to e each region keeps its ink or takes that of frame  *)
(* p, or of `more`; ink is lost only to a wait that gives up on BUSY.      *)
InkOf(p, r) == IF p = NoFrame THEN {} ELSE {p[r]}
Turns(d, e, p, more) ==
  \A r \in Region :
    \/ e.glass[r] \in {d.glass[r]} \cup InkOf(p, r) \cup more
    \/ e.glass[r] = "?" /\ e.wave = "stuck"

(* A panel that gave up stays so, and keeps its ink.                       *)
StaysStuck(d, e) == d.wave = "stuck" => e.wave = "stuck" /\ e.glass = d.glass

(* A waveform left running brings the frame last submitted.                *)
InFlight(d, s) == d.wave \in {"fast", "clean"} => s \in Image /\ d.bw = s

LEMMA CompleteGlass ==
  ASSUME NEW d \in DriverState
  PROVE  CompleteRefresh(d).glass = d.glass /\ CompleteRefresh(d).wave = d.wave
  BY DEF CompleteRefresh, DriverState

LEMMA PowerOffGlass ==
  ASSUME NEW d \in DriverState, NEW o
  PROVE  LET e == PowerOffController(d, o) IN
         e.glass = d.glass /\ e.wave \in {d.wave, "stuck"}
<1> DEFINE h == [d EXCEPT !.wave = "stuck"]
<1>1. h \in DriverState /\ h.glass = d.glass /\ h.wave = "stuck"
  BY DEF DriverState
<1>2. CompleteRefresh(h).glass = d.glass /\ CompleteRefresh(h).wave = "stuck"
  BY <1>1, CompleteGlass
<1>3. [d EXCEPT !.isScreenOn = FALSE].glass = d.glass /\ [d EXCEPT !.isScreenOn = FALSE].wave = d.wave
  BY DEF DriverState
<1> QED BY <1>2, <1>3, CompleteGlass DEF PowerOffController

LEMMA ParkGlass ==
  ASSUME NEW d \in DriverState, NEW o
  PROVE  LET e == ParkIfAsked(d, o) IN
         e.glass = d.glass /\ e.wave \in {d.wave, "stuck"}
<1> DEFINE c == [d EXCEPT !.pendingPowerOff = FALSE]
<1>1. c \in DriverState /\ c.glass = d.glass /\ c.wave = d.wave
  BY DEF DriverState
<1> HIDE DEF c
<1>2. PowerOffController(c, o).glass = d.glass /\ PowerOffController(c, o).wave \in {d.wave, "stuck"}
  BY <1>1, PowerOffGlass
<1> QED BY <1>2 DEF ParkIfAsked, c

(* A wait inks what the waveform develops, or nothing that is known.       *)
LEMMA WaitTurns ==
  ASSUME NEW d \in DriverState, NEW o, NEW p, NEW more,
         \A r \in Region : Developed(d)[r] \in {d.glass[r]} \cup InkOf(p, r) \cup more
  PROVE  LET a == WaitRefreshComplete(d, o) IN
         Turns(d, a, p, more) /\ a.wave \in {"none", "stuck"}
<1> DEFINE a == WaitRefreshComplete(d, o)
<1>1. CASE d.wave = "none"
  BY <1>1 DEF WaitRefreshComplete, Turns
<1>2. CASE d.wave # "none" /\ o = "refreshHangs"
  <2>1. /\ a.wave = "stuck"
        /\ a.glass = IF d.wave = "stuck" THEN d.glass ELSE [r \in Region |-> "?"]
    BY <1>2 DEF WaitRefreshComplete, DriverState
  <2> HIDE DEF a
  <2> QED BY <2>1 DEF Turns, a
<1>3. CASE d.wave # "none" /\ o # "refreshHangs"
  <2>1. a.wave = "none" /\ a.glass = Developed(d)
    BY <1>3 DEF WaitRefreshComplete, DriverState
  <2> HIDE DEF a
  <2> QED BY <2>1 DEF Turns, a
<1> QED BY <1>1, <1>2, <1>3

(* What a waveform in flight develops.                                     *)
LEMMA DevelopsFrame ==
  ASSUME NEW d \in DriverState, NEW s, d.wave \in {"none", "fast", "clean", "stuck"}, InFlight(d, s)
  PROVE  \A r \in Region : Developed(d)[r] \in {d.glass[r]} \cup InkOf(s, r)
<1> SUFFICES ASSUME NEW r \in Region PROVE Developed(d)[r] \in {d.glass[r]} \cup InkOf(s, r)
  BY Zenon
<1>1. CASE d.wave \in {"none", "stuck"}
  BY <1>1 DEF Developed
<1>2. CASE d.wave \in {"fast", "clean"}
  <2>1. s # NoFrame /\ d.bw = s
    BY <1>2, FrameAssumption DEF InFlight
  <2>2. Developed(d)[r] \in {d.glass[r], d.bw[r]}
    BY <1>2 DEF Developed
  <2> QED BY <2>1, <2>2 DEF InkOf
<1> QED BY <1>1, <1>2

(* displayFinish() brings what was submitted to the glass, and no more.    *)
LEMMA FinishTurns ==
  ASSUME NEW d \in DriverState, NEW o \in Outcome, NEW s,
         d.wave \in {"none", "fast", "clean", "stuck"}, InFlight(d, s)
  PROVE  Turns(d, DisplayFinish(d, o), s, {})
<1> DEFINE a == WaitRefreshComplete(d, o)
           e == DisplayFinish(d, o)
<1>1. a \in DriverState /\ Turns(d, a, s, {}) /\ a.wave \in {"none", "stuck"}
  BY WaitType, WaitTurns, DevelopsFrame
<1>2. e = IF IsBusy(a) THEN CompleteRefresh(a) ELSE ParkIfAsked(a, o)
  BY DEF DisplayFinish
<1> HIDE DEF a, e
<1>3. e.glass = a.glass /\ (a.wave = "stuck" => e.wave = "stuck")
  BY <1>1, <1>2, CompleteGlass, ParkGlass DEF IsBusy
<1>4. Turns(d, e, s, {})
  BY <1>1, <1>3 DEF Turns
<1> QED BY <1>4 DEF e

(* display() turns regions to the frame it is given.                       *)
LEMMA DisplayTurns ==
  ASSUME NEW d \in DriverState, NEW fb \in Image, NEW prev \in Image \cup {NoFrame},
         NEW mode \in RefreshMode, NEW turnOff \in BOOLEAN, NEW o \in Outcome
  PROVE  LET e == Display(d, fb, prev, mode, turnOff, o) IN
         Turns(d, e, fb, {}) /\ StaysStuck(d, e)
<1> DEFINE f == Activate(d, fb, prev, mode, turnOff)
           a == WaitRefreshComplete(f, o)
           b == Resync(a, fb, prev)
           e == Display(d, fb, prev, mode, turnOff, o)
<1>1. f \in DriverState /\ a \in DriverState
  BY ActivateType, WaitType
<1>2. f.glass = d.glass /\ f.bw = fb /\ f.wave \in {"fast", "clean"}
  BY DEF Activate, Refresh, DriverState
<1>3. e = IF IsBusy(d) THEN CompleteRefresh(d)
          ELSE IF IsBusy(a) THEN CompleteRefresh(a) ELSE ParkIfAsked(b, o)
  BY DEF Display
<1> HIDE DEF f
<1>4. Turns(f, a, fb, {}) /\ a.wave \in {"none", "stuck"}
  BY <1>1, <1>2, WaitTurns, DevelopsFrame DEF InFlight
<1> HIDE DEF a
<1>5. b \in DriverState /\ b.glass = a.glass /\ b.wave = a.wave
  BY <1>1 DEF Resync, DriverState
<1> HIDE DEF b, e
<1>6. CASE IsBusy(d)
  BY <1>3, <1>6, CompleteGlass DEF Turns, StaysStuck, e
<1>7. CASE ~IsBusy(d)
  <2>1. e.glass = a.glass /\ (a.wave = "stuck" => e.wave = "stuck")
    BY <1>1, <1>3, <1>4, <1>5, <1>7, CompleteGlass, ParkGlass DEF IsBusy
  <2> QED BY <1>2, <1>4, <1>7, <2>1 DEF Turns, StaysStuck, IsBusy, e
<1> QED BY <1>6, <1>7

(* displayStart() leaves the ink to the drain that follows.                *)
LEMMA StartGlass ==
  ASSUME NEW d \in DriverState, Idle(d), NEW fb \in Image, NEW prev, NEW mode, NEW turnOff
  PROVE  LET e == DisplayStart(d, fb, prev, mode, turnOff) IN
         e.glass = d.glass /\ StaysStuck(d, e) /\ InFlight(e, fb)
<1> DEFINE f == Activate(d, fb, prev, mode, turnOff)
           e == DisplayStart(d, fb, prev, mode, turnOff)
<1>1. f.glass = d.glass /\ f.bw = fb
  BY DEF Activate, Refresh, DriverState
<1>2. e = IF IsBusy(d) THEN CompleteRefresh(d) ELSE f
  BY DEF DisplayStart
<1> HIDE DEF f, e
<1> QED BY <1>1, <1>2, CompleteGlass DEF IsBusy, Idle, StaysStuck, InFlight, e

(* displayWindow() turns regions to the page with the window in it, if BW  *)
(* holds that page outside the window.                                     *)
LEMMA WindowTurns ==
  ASSUME NEW d \in DriverState, NEW s, NEW fb \in Image, NEW prev \in Image \cup {NoFrame}, NEW win,
         NEW turnOff \in BOOLEAN, NEW o \in Outcome,
         ~Promotes(d) => s \in Image /\ d.bw = s
  PROVE  LET e == DisplayWindow(d, fb, prev, win, turnOff, o)
             t == IF Promotes(d) THEN fb ELSE Patch(s, fb, win) IN
         Turns(d, e, t, {}) /\ StaysStuck(d, e)
<1> DEFINE p == WindowPlanes(d, fb, prev, win)
           f == Refresh(p, "fast", turnOff)
           a == WaitRefreshComplete(f, o)
           b == IF prev = NoFrame THEN [a EXCEPT !.bw = Patch(@, fb, win), !.red = Patch(@, fb, win)] ELSE a
           e == DisplayWindow(d, fb, prev, win, turnOff, o)
           t == IF Promotes(d) THEN fb ELSE Patch(s, fb, win)
<1>1. p \in DriverState /\ f \in DriverState /\ a \in DriverState
  BY WindowPlanesType, RefreshType, WaitType
<1>2. f.glass = d.glass /\ f.wave = "fast" /\ f.bw = Patch(d.bw, fb, win)
  BY DEF WindowPlanes, Refresh, DriverState
<1>3. e = IF IsBusy(d) THEN CompleteRefresh(d)
          ELSE IF Promotes(d) THEN Display(d, fb, NoFrame, "HALF", turnOff, o)
          ELSE IF IsBusy(a) THEN CompleteRefresh(a) ELSE ParkIfAsked(b, o)
  BY DEF DisplayWindow
<1>4. CASE IsBusy(d)
  <2> HIDE DEF e
  <2> QED BY <1>3, <1>4, CompleteGlass DEF Turns, StaysStuck, e
<1>5. CASE ~IsBusy(d) /\ Promotes(d)
  <2>1. "HALF" \in RefreshMode
    BY DEF RefreshMode
  <2> HIDE DEF e
  <2> QED BY <1>3, <1>5, <2>1, DisplayTurns DEF e
<1>6. CASE ~IsBusy(d) /\ ~Promotes(d)
  <2>1. t \in Image /\ f.bw = t
    BY <1>2, <1>6, PatchType
  <2> HIDE DEF f, p, t
  <2>2. Turns(f, a, t, {}) /\ a.wave \in {"none", "stuck"}
    BY <1>1, <1>2, <2>1, WaitTurns, DevelopsFrame DEF InFlight
  <2> HIDE DEF a
  <2>3. b \in DriverState /\ b.glass = a.glass /\ b.wave = a.wave
    <3>1. Patch(a.bw, fb, win) \in Image /\ Patch(a.red, fb, win) \in Image
      BY <1>1, PatchType DEF DriverState
    <3> QED BY <1>1, <3>1 DEF DriverState
  <2> HIDE DEF b, e
  <2>4. e.glass = a.glass /\ (a.wave = "stuck" => e.wave = "stuck")
    BY <1>1, <1>3, <1>6, <2>2, <2>3, CompleteGlass, ParkGlass DEF IsBusy
  <2> QED BY <1>2, <1>6, <2>2, <2>4 DEF Turns, StaysStuck, IsBusy, e, t
<1> QED BY <1>4, <1>5, <1>6

(* displayGray() inks gray, or the factory bank's picture.                 *)
LEMMA GrayTurns ==
  ASSUME NEW d \in DriverState, NEW turnOff \in BOOLEAN, NEW factoryMode \in BOOLEAN, NEW o \in Outcome
  PROVE  LET e == DisplayGray(d, turnOff, factoryMode, o) IN
         Turns(d, e, NoFrame, {IF factoryMode THEN "F" ELSE "G"}) /\ StaysStuck(d, e)
<1> DEFINE lit == [d EXCEPT !.inGrayscaleMode = ~factoryMode,
                            !.wave = IF factoryMode THEN "factory" ELSE "gray",
                            !.isScreenOn = factoryMode \/ ~turnOff,
                            !.pendingPowerOff = FALSE]
           a == WaitRefreshComplete(lit, o)
           b == IF turnOff THEN PowerOffController(a, o) ELSE a
           c == [b EXCEPT !.needsGrayClear = TRUE]
           e == DisplayGray(d, turnOff, factoryMode, o)
           more == {IF factoryMode THEN "F" ELSE "G"}
<1>1. lit \in DriverState /\ lit.glass = d.glass /\ lit.wave = (IF factoryMode THEN "factory" ELSE "gray")
  BY DEF DriverState
<1>2. e = IF IsBusy(d) THEN CompleteRefresh(d)
          ELSE IF IsBusy(a) THEN CompleteRefresh(a) ELSE IF ~factoryMode THEN a ELSE c
  BY DEF DisplayGray
<1> HIDE DEF lit
<1>3. \A r \in Region : Developed(lit)[r] \in {lit.glass[r]} \cup InkOf(NoFrame, r) \cup more
  BY <1>1 DEF Developed
<1>4. a \in DriverState /\ Turns(lit, a, NoFrame, more) /\ a.wave \in {"none", "stuck"}
  BY <1>1, <1>3, WaitType, WaitTurns
<1> HIDE DEF a, more
<1>5. b \in DriverState /\ b.glass = a.glass /\ b.wave \in {a.wave, "stuck"}
  BY <1>4, PowerOffType, PowerOffGlass
<1> HIDE DEF b
<1>6. c.glass = b.glass /\ c.wave = b.wave
  BY <1>5 DEF DriverState
<1> HIDE DEF c, e
<1>7. CASE IsBusy(d)
  BY <1>2, <1>7, CompleteGlass DEF Turns, StaysStuck, e
<1>8. CASE ~IsBusy(d)
  <2>1. e.glass = a.glass /\ (a.wave = "stuck" => e.wave = "stuck")
    BY <1>2, <1>4, <1>5, <1>6, <1>8, CompleteGlass DEF IsBusy
  <2> QED BY <1>1, <1>4, <1>8, <2>1 DEF Turns, StaysStuck, IsBusy, e, more
<1> QED BY <1>7, <1>8

(* The RAM writes and the cleanup leave the glass alone.                   *)
LEMMA RamWriteGlass ==
  ASSUME NEW d \in DriverState, NEW lsb \in Image, NEW msb \in Image
  PROVE  /\ \A e \in {SeedPreviousFrame(d, lsb), CopyGrayscale(d, lsb, msb), CleanupGrayscale(d, lsb),
                      RequestDriverResync(d)} : e.glass = d.glass /\ e.wave = d.wave
         /\ RequestDriverResync(d).bw = d.bw
<1>1. CleanupGrayscale(d, lsb).glass = d.glass /\ CleanupGrayscale(d, lsb).wave = d.wave
  BY CompleteGlass, FrameAssumption DEF CleanupGrayscale, DriverState
<1> QED BY <1>1 DEF SeedPreviousFrame, CopyGrayscale, RequestDriverResync, DriverState

(* A drain and then another call.                                          *)
LEMMA TurnsAgain ==
  ASSUME NEW d, NEW e, NEW f, NEW p, NEW q, NEW more,
         Turns(d, e, p, {}), Turns(e, f, q, more), StaysStuck(e, f)
  PROVE  \A r \in Region :
           \/ f.glass[r] \in {d.glass[r]} \cup InkOf(p, r) \cup InkOf(q, r) \cup more
           \/ f.glass[r] = "?" /\ f.wave = "stuck"
<1> TAKE r \in Region
<1>1. e.glass[r] \in {d.glass[r]} \cup InkOf(p, r) \/ (e.glass[r] = "?" /\ e.wave = "stuck")
  BY DEF Turns
<1>2. f.glass[r] \in {e.glass[r]} \cup InkOf(q, r) \cup more \/ (f.glass[r] = "?" /\ f.wave = "stuck")
  BY DEF Turns
<1>3. e.wave = "stuck" => f.wave = "stuck" /\ f.glass[r] = e.glass[r]
  BY DEF StaysStuck
<1> QED BY <1>1, <1>2, <1>3

(* Two calls with the same frame.                                          *)
LEMMA TurnsTwice ==
  ASSUME NEW d, NEW e, NEW f, NEW p, Turns(d, e, p, {}), Turns(e, f, p, {}), StaysStuck(d, e), StaysStuck(e, f)
  PROVE  Turns(d, f, p, {}) /\ StaysStuck(d, f)
<1>1. \A r \in Region :
        \/ f.glass[r] \in {d.glass[r]} \cup InkOf(p, r) \cup InkOf(p, r) \cup {}
        \/ f.glass[r] = "?" /\ f.wave = "stuck"
  BY TurnsAgain
<1>2. Turns(d, f, p, {})
  BY <1>1 DEF Turns
<1>3. StaysStuck(d, f)
  BY DEF StaysStuck
<1> QED BY <1>2, <1>3

(* A call that leaves the ink alone.                                       *)
LEMMA QuietTurns ==
  ASSUME NEW d, NEW e, NEW p, NEW more, e.glass = d.glass, d.wave = "stuck" => e.wave = "stuck"
  PROVE  Turns(d, e, p, more) /\ StaysStuck(d, e)
  BY DEF Turns, StaysStuck

=============================================================================
