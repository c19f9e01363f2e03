----------------------------- MODULE MCDevices -----------------------------
(***************************************************************************)
(* The firmware update, the resumable fetch, the haptic motor, the page    *)
(* cache, the touch sampler, the USB storage and the audio player on small *)
(* instances, one of them per behaviour: they share no state, so what      *)
(* `subject` names runs and the rest waits.                                *)
(***************************************************************************)
EXTENDS FirmwareUpdate, ResumableFetch, HapticMotor, PageCache, TouchSampler, UsbMassStorage, AudioManager

(* Two versions of one size and a shorter one.                             *)
Sizes == <<3, 3, 2>>
(* A pulse, a pulse and a pause, a pause and a long pulse.                 *)
Patterns == {<<TRUE>>, <<TRUE, FALSE>>, <<FALSE, TRUE, TRUE>>}

VARIABLE subject
vars == <<subject, flashVars, fetchVars, hapticVars, cacheVars, touchVars, usbVars, audioVars>>
Flash == subject = "flash"
Fetch == subject = "fetch"
Haptic == subject = "haptic"
Cache == subject = "cache"
Touch == subject = "touch"
Usb == subject = "usb"
Audio == subject = "audio"

MaxChapter == CHOOSE n \in Chapters : \A m \in Chapters : m <= n

(* Where the components that wait began makes no difference.               *)
OneStart ==
  /\ Flash \/ (card = "none" /\ ~renameOnSuccess /\ ota[0] = 0 /\ slots[1][1] = "erased")
  /\ Fetch \/ server = CHOOSE v \in Version : TRUE
  /\ Haptic \/ (pattern = <<TRUE>> /\ repeats = 1)
  /\ Cache \/ (chapter = MaxChapter /\ ~pictures /\ ~inPlace /\ ~shared)
Init ==
  /\ subject \in {"flash", "fetch", "haptic", "cache", "touch", "usb", "audio"}
  /\ FlashInit /\ FetchInit /\ HapticInit /\ CacheInit /\ TouchInit /\ UsbInit /\ AudioInit
  /\ OneStart

FlashStep == Flash /\ FlashNext /\ UNCHANGED <<subject, fetchVars, hapticVars, cacheVars, touchVars, usbVars, audioVars>>
FetchStep == Fetch /\ FetchNext /\ UNCHANGED <<subject, flashVars, hapticVars, cacheVars, touchVars, usbVars, audioVars>>
HapticStep == Haptic /\ HapticNext /\ UNCHANGED <<subject, flashVars, fetchVars, cacheVars, touchVars, usbVars, audioVars>>
CacheStep == Cache /\ CacheNext /\ UNCHANGED <<subject, flashVars, fetchVars, hapticVars, touchVars, usbVars, audioVars>>
TouchStep == Touch /\ TouchNext /\ UNCHANGED <<subject, flashVars, fetchVars, hapticVars, cacheVars, usbVars, audioVars>>
UsbStep == Usb /\ UsbNext /\ UNCHANGED <<subject, flashVars, fetchVars, hapticVars, cacheVars, touchVars, audioVars>>
AudioStep ==
  Audio /\ AudioNext /\ UNCHANGED <<subject, flashVars, fetchVars, hapticVars, cacheVars, touchVars, usbVars>>
Next == FlashStep \/ FetchStep \/ HapticStep \/ CacheStep \/ TouchStep \/ UsbStep \/ AudioStep

(* The fairness of each component, where it is the one that runs.          *)
Spec ==
  /\ Init /\ [][Next]_vars
  /\ WF_flashVars(Flash /\ Firmware) /\ SF_flashVars(Flash /\ Rename)
  /\ WF_fetchVars(Fetch /\ Transport)
  /\ WF_audioVars(Audio /\ Caller) /\ \A t \in Task : WF_audioVars(Audio /\ Playing(t))

(* Every variable of the seven keeps its type.                             *)
TypeOK ==
  FlashTypeOK /\ FetchTypeOK /\ HapticTypeOK /\ CacheTypeOK /\ TouchTypeOK /\ UsbTypeOK /\ AudioTypeOK
=============================================================================
