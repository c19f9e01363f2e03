------------------------------- MODULE Ssd1677 -------------------------------
(***************************************************************************)
(* The SSD1677 panel driver (driver/Ssd1677Driver.cpp) and the panel       *)
(* behind it.  The driver's fields, the controller's two RAM planes and    *)
(* the ink on the glass are one record; every driver operation is a        *)
(* function from that record to the next one, so that the facade modules   *)
(* can compose the calls a handler makes into a single step.               *)
(*                                                                         *)
(* A frame is a function from Region to Pixel: a region stands for the     *)
(* pixels a window update can address together.  Sizes, commands, LUT      *)
(* bytes, borders and temperatures are left out.  FULL is folded into      *)
(* HALF: both waveforms ignore the RED plane and drive every pixel.  The   *)
(* board configurations modelled are those with an absolute full sequence  *)
(* and neither black-pulse cleaning nor board LUTs (X4, X4 Pro, Sticky,    *)
(* WS397); they differ in whether a FAST sequence drops the rails.         *)
(***************************************************************************)
EXTENDS Naturals

CONSTANTS
  Region,         \* the addressable parts of the panel
  NoFrame,        \* a null frame pointer
  FastPowersOff,  \* (fastSeqOverride & 0x03) # 0: 0xFC on X4 no, 0xFF on Sticky yes
  BeginMayHang    \* whether BUSY may hold through the waits of begin()

Pixel == {"W", "B"}
Ink   == Pixel \cup {"G", "F", "?"} \* overlay gray, factory gray, unknown after a failed waveform
Image == [Region -> Pixel]

ASSUME FrameAssumption ==
  /\ NoFrame \notin Image
  /\ {FastPowersOff, BeginMayHang} \subseteq BOOLEAN

White == [r \in Region |-> "W"]
Invert(img) == [r \in Region |-> IF img[r] = "W" THEN "B" ELSE "W"]

RefreshMode == {"FAST", "HALF"}

(* How the BUSY line answers the waits of one call: every wait ends, the   *)
(* waveform never releases BUSY, or the analog power-down never does.      *)
Outcome == {"ok", "refreshHangs", "powerOffHangs"}

DriverState ==
  [red   : Image,                \* RED RAM: the old frame of a differential
   bw    : Image,                \* BW RAM: the new frame
   glass : [Region -> Ink],      \* what the reader sees
   wave  : {"none", "fast", "clean", "gray", "factory", "stuck"},
   needsInitialFull : BOOLEAN, inGrayscaleMode : BOOLEAN, needsGrayClear : BOOLEAN,
   isScreenOn : BOOLEAN, pendingPowerOff : BOOLEAN]

(* begin() and initController(): both planes are pattern-filled and the    *)
(* first paint is armed; the glass keeps whatever it showed.               *)
BeginController(glass) ==
  [red |-> White, bw |-> White, glass |-> glass, wave |-> "none",
   needsInitialFull |-> TRUE, inGrayscaleMode |-> FALSE, needsGrayClear |-> FALSE,
   isScreenOn |-> FALSE, pendingPowerOff |-> FALSE]

(* A begin() that gave up on BUSY returns early: the planes hold whatever  *)
(* the RAM held, and the first paint is not armed.                         *)
AbandonedBegin(glass, red, bw) ==
  [BeginController(glass) EXCEPT !.red = red, !.bw = bw, !.wave = "stuck",
                                 !.needsInitialFull = FALSE]

Begun(glasses) ==
  {BeginController(g) : g \in glasses}
    \cup (IF BeginMayHang
          THEN {AbandonedBegin(g, red, bw) : g \in glasses, red \in Image, bw \in Image}
          ELSE {})

-----------------------------------------------------------------------------
(* The panel.                                                              *)

IsBusy(d) == d.wave # "none"

(* The ink a waveform leaves: a FAST one drives only the pixels whose two  *)
(* planes differ, a clean one drives all of them, the overlay bank moves   *)
(* the pixels either mask selects, the factory bank paints every pixel.    *)
Developed(d) ==
  [r \in Region |->
     CASE d.wave = "clean"   -> d.bw[r]
       [] d.wave = "fast"    -> IF d.red[r] # d.bw[r] THEN d.bw[r] ELSE d.glass[r]
       [] d.wave = "gray"    -> IF "W" \in {d.red[r], d.bw[r]} THEN "G" ELSE d.glass[r]
       [] d.wave = "factory" -> "F"
       [] OTHER              -> d.glass[r]]

(* EpdBus::waitRefreshComplete: BUSY drops, or the wait gives up on it and *)
(* the ink is no longer known.                                             *)
WaitRefreshComplete(d, o) ==
  IF d.wave = "none" THEN d
  ELSE IF o = "refreshHangs"
       THEN [d EXCEPT !.wave = "stuck", !.glass = IF d.wave = "stuck" THEN @ ELSE [r \in Region |-> "?"]]
       ELSE [d EXCEPT !.wave = "none", !.glass = Developed(d)]

-----------------------------------------------------------------------------
(* The driver.                                                             *)

(* Mutants: operators named Mut... are slips this code could contain; the   *)
(* properties are run against them to show that they can fail.             *)

MutCompleteRefresh(d) == IF ~IsBusy(d) THEN d ELSE [d EXCEPT !.pendingPowerOff = FALSE]

(* completeRefresh: a BUSY line still asserted distrusts the visible frame *)
(* and re-arms the absolute first paint.                                   *)
CompleteRefresh(d) ==
  IF ~IsBusy(d) THEN d
  ELSE [d EXCEPT !.needsInitialFull = TRUE, !.pendingPowerOff = FALSE, !.isScreenOn = TRUE]

PowerOffController(d, o) ==
  IF IsBusy(d) \/ ~d.isScreenOn THEN CompleteRefresh(d)
  ELSE IF o = "powerOffHangs"
       THEN CompleteRefresh([d EXCEPT !.wave = "stuck"])
       ELSE [d EXCEPT !.isScreenOn = FALSE]

MutParkIfAsked(d, o) == d

ParkIfAsked(d, o) ==
  IF d.pendingPowerOff THEN PowerOffController([d EXCEPT !.pendingPowerOff = FALSE], o) ELSE d

(* refresh(): fires a waveform by its vendor sequence.  Only sequences     *)
(* with the low two bits drop the rails; otherwise a power-down request    *)
(* waits for the waveform to end.                                          *)
SequencePowersOff(wave) == wave = "clean" \/ FastPowersOff

Refresh(d, wave, turnOff) ==
  [d EXCEPT !.wave = wave,
            !.isScreenOn = ~SequencePowersOff(wave),
            !.pendingPowerOff = turnOff /\ ~SequencePowersOff(wave)]

(* displayImpl(): the promotions of a FAST request, the plane writes and   *)
(* the activation.                                                         *)
Promotes(d) == d.needsGrayClear \/ d.needsInitialFull \/ d.inGrayscaleMode
EffectiveMode(d, mode) == IF Promotes(d) THEN "HALF" ELSE mode

OldPlane(d, fb, prev, mode) ==
  IF mode # "FAST" THEN fb ELSE IF prev # NoFrame THEN prev ELSE d.red

Activate(d, fb, prev, mode, turnOff) ==
  LET m == EffectiveMode(d, mode) IN
  Refresh([d EXCEPT !.bw = fb, !.red = OldPlane(d, fb, prev, m),
                    !.needsGrayClear = FALSE, !.needsInitialFull = FALSE,
                    !.inGrayscaleMode = FALSE],
          IF m = "FAST" THEN "fast" ELSE "clean", turnOff)

(* The resync of both planes that a blocking call without a host copy of   *)
(* the previous frame makes once the waveform has ended.                   *)
Resync(d, fb, prev) == IF prev = NoFrame THEN [d EXCEPT !.bw = fb, !.red = fb] ELSE d

Display(d, fb, prev, mode, turnOff, o) ==
  IF IsBusy(d) THEN CompleteRefresh(d)
  ELSE LET a == WaitRefreshComplete(Activate(d, fb, prev, mode, turnOff), o) IN
       IF IsBusy(a) THEN CompleteRefresh(a)
       ELSE ParkIfAsked(Resync(a, fb, prev), o)

(* displayStart(): returns TRUE, deferred, whatever happened.              *)
DisplayStart(d, fb, prev, mode, turnOff) ==
  IF IsBusy(d) THEN CompleteRefresh(d) ELSE Activate(d, fb, prev, mode, turnOff)

DisplayFinish(d, o) ==
  LET a == WaitRefreshComplete(d, o) IN
  IF IsBusy(a) THEN CompleteRefresh(a) ELSE ParkIfAsked(a, o)

(* displayWindow(): only the window's rows of the planes are written, but  *)
(* the waveform runs over the whole panel.                                 *)
Patch(plane, img, win) == [r \in Region |-> IF r \in win THEN img[r] ELSE plane[r]]

MutWindowPlanes(d, fb, prev, win) == [d EXCEPT !.bw = Patch(@, fb, win)]

WindowPlanes(d, fb, prev, win) ==
  [d EXCEPT !.bw = Patch(@, fb, win), !.red = IF prev = NoFrame THEN @ ELSE Patch(@, prev, win)]

DisplayWindow(d, fb, prev, win, turnOff, o) ==
  IF IsBusy(d) THEN CompleteRefresh(d)
  ELSE IF Promotes(d)
       THEN Display(d, fb, NoFrame, "HALF", turnOff, o)
       ELSE LET a == WaitRefreshComplete(Refresh(WindowPlanes(d, fb, prev, win), "fast", turnOff), o) IN
            IF IsBusy(a) THEN CompleteRefresh(a)
            ELSE ParkIfAsked(IF prev = NoFrame
                             THEN [a EXCEPT !.bw = Patch(@, fb, win), !.red = Patch(@, fb, win)]
                             ELSE a, o)

SeedPreviousFrame(d, buf) == [d EXCEPT !.red = buf]

RequestDriverResync(d) == [d EXCEPT !.needsGrayClear = TRUE]

CopyGrayscale(d, lsb, msb) == [d EXCEPT !.bw = lsb, !.red = msb]

(* displayGray(): the overlay bank through refresh() with the custom LUT,  *)
(* or the absolute factory bank, which self-cleans later.                  *)
DisplayGray(d, turnOff, factoryMode, o) ==
  IF IsBusy(d) THEN CompleteRefresh(d)
  ELSE LET lit == [d EXCEPT !.inGrayscaleMode = ~factoryMode,
                            !.wave = IF factoryMode THEN "factory" ELSE "gray",
                            !.isScreenOn = factoryMode \/ ~turnOff,
                            !.pendingPowerOff = FALSE]
           a == WaitRefreshComplete(lit, o)
       IN IF IsBusy(a) THEN CompleteRefresh(a)
          ELSE IF ~factoryMode THEN a
               ELSE [(IF turnOff THEN PowerOffController(a, o) ELSE a)
                       EXCEPT !.needsGrayClear = TRUE]

CleanupGrayscale(d, bw) ==
  IF IsBusy(d) THEN CompleteRefresh(d)
  ELSE IF bw = NoFrame THEN d
       ELSE [d EXCEPT !.red = bw, !.inGrayscaleMode = FALSE]

=============================================================================
