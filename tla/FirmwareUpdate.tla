--------------------------- MODULE FirmwareUpdate ---------------------------
(***************************************************************************)
(* Two firmware slots, the otadata entries that say which of them boots,   *)
(* and an SD card whose /update.bin is flashed into the slot that is not   *)
(* running: by the boot combo, or by the application.  The power may go    *)
(* out at any step, every read, erase and write may fail, and the card may *)
(* be changed at any time.                                                 *)
(*                                                                         *)
(* An otadata entry is its ota_seq, or 0 when it is blank, torn (its CRC   *)
(* is wrong) or marked ABORTED: the code and the bootloader pass over all  *)
(* three alike.  Only the order and the parity of the sequence numbers are *)
(* read, so after each write they are rebased to stay small.               *)
(***************************************************************************)
EXTENDS Integers

CONSTANTS
  FlashChunks,   \* chunks of an image
  EraseChunks,   \* chunks that one erase covers: BLK / CHUNK
  MaxCuts,       \* resets nobody asked for: power cuts and rolled back images
  MaxCards       \* changes of the card

ASSUME FlashAssumption ==
  FlashChunks \in Nat \ {0} /\ EraseChunks \in Nat \ {0} /\ MaxCuts \in Nat /\ MaxCards \in Nat

VARIABLES
  slots,            \* what each chunk of ota_0 and ota_1 holds
  ota,              \* the two otadata entries
  card,             \* /update.bin: a valid image, a corrupted one, or none
  renameOnSuccess,
  running,          \* the slot that booted
  phase, via, dest, \* where the firmware stands, who asked for the switch, and the slot it is to
  streamPos, erasedUpto,
  trusted,          \* the card is still the one whose image was validated
  next,             \* the entry and the ota_seq that switchBootPartition() settled on
  excused,          \* the boot target was given to chunks that nobody checked
  cuts, cards
flashVars == <<slots, ota, card, renameOnSuccess, running, phase, via, dest, streamPos, erasedUpto, trusted, next,
               excused, cuts, cards>>
volatileVars == <<running, via, dest, streamPos, erasedUpto, next>>

Slot == 0..1
Chunk == 1..FlashChunks
Image == {"recovery", "app", "update"}
Content == Image \cup {"junk", "torn", "erased"}
Card == {"update", "junk", "none"}
Entries == [Slot -> 0..4]
Whole(s) == \E i \in Image : \A c \in Chunk : slots[s][c] = i

Phase == {"off", "boot", "app", "mount", "validate", "open", "write", "otaErase", "otaWrite", "rename", "restart",
          "hatch", "bricked"}

FlashTypeOK ==
  /\ slots \in [Slot -> [Chunk -> Content]] /\ ota \in Entries /\ card \in Card
  /\ renameOnSuccess \in BOOLEAN /\ running \in Slot
  /\ phase \in Phase /\ via \in {"combo", "app", "hatch"} /\ dest \in Slot
  /\ streamPos \in 0..FlashChunks /\ erasedUpto \in 0..FlashChunks /\ trusted \in BOOLEAN
  /\ next \in [entry : Slot, seq : 0..6] /\ excused \in BOOLEAN
  /\ cuts \in 0..MaxCuts /\ cards \in 0..MaxCards

(* A device as it is delivered: the recovery firmware in ota_0, an         *)
(* application in ota_1 or nothing, and otadata blank or set once.         *)
FlashInit ==
  /\ \E i \in {"app", "erased"} : slots = [s \in Slot |-> [c \in Chunk |-> IF s = 0 THEN "recovery" ELSE i]]
  /\ ota \in {[s \in Slot |-> 0], [s \in Slot |-> IF s = 0 THEN 2 ELSE 0]}
  /\ ota[0] = 2 => slots[1][1] = "app"
  /\ card \in Card /\ renameOnSuccess \in BOOLEAN
  /\ running = 0 /\ phase = "off" /\ via = "combo" /\ dest = 0 /\ streamPos = 0 /\ erasedUpto = 0
  /\ trusted = FALSE /\ next = [entry |-> 0, seq |-> 0] /\ excused = FALSE
  /\ cuts = 0 /\ cards = 0

-----------------------------------------------------------------------------
(* otadata: the active entry has the highest sequence; a new one goes to   *)
(* the other place with the least higher sequence that selects the slot.   *)
Blank(o) == o[0] = 0 /\ o[1] = 0
ActiveIdx(o) == IF o[1] > o[0] THEN 1 ELSE 0
ActiveSeq(o) == o[ActiveIdx(o)]
NewSeq(o, s) == ActiveSeq(o) + (IF ActiveSeq(o) % 2 = s THEN 1 ELSE 2)
MutTargetSlot(o) == ActiveIdx(o)
TargetSlot(o) == IF ~Blank(o) /\ ActiveIdx(o) = 0 THEN 1 ELSE 0
Selected(o) == IF Blank(o) THEN 0 ELSE (ActiveSeq(o) + 1) % 2
Put(o, e, n) == [o EXCEPT ![e] = n]
Rebase(o) ==
  LET low == IF o[0] # 0 /\ (o[1] = 0 \/ o[0] < o[1]) THEN o[0] ELSE o[1]
  IN [s \in Slot |-> IF o[s] = 0 THEN 0 ELSE IF low > 2 THEN o[s] - 2 * ((low - 1) \div 2) ELSE o[s]]

MutNextUpdate == 1 - Selected(ota)

(* External: esp_ota_get_next_update_partition(nullptr).                   *)
NextUpdate == 1 - running

FlashReturns ==
  streamPos' = 0 /\ erasedUpto' = 0 /\ trusted' = FALSE /\ next' = [entry |-> 0, seq |-> 0]
Off == phase' = "off" /\ running' = 0 /\ via' = "combo" /\ dest' = 0 /\ FlashReturns
FlashMove(here, there) == phase = here /\ phase' = there

(* External: the bootloader runs what otadata selects, or the other slot   *)
(* when that is not an image; and gives up an image that never confirmed   *)
(* that it works.                                                          *)
Boot ==
  /\ phase = "off"
  /\ IF \E s \in Slot : Whole(s)
     THEN phase' = "boot" /\ running' = IF Whole(Selected(ota)) THEN Selected(ota) ELSE 1 - Selected(ota)
     ELSE phase' = "bricked" /\ UNCHANGED running
  /\ UNCHANGED <<slots, ota, card, renameOnSuccess, via, dest, streamPos, erasedUpto, trusted, next, excused, cuts,
                 cards>>
RollBack ==
  /\ phase = "off" /\ ~Blank(ota) /\ cuts < MaxCuts /\ cuts' = cuts + 1
  /\ ota' = Put(ota, ActiveIdx(ota), 0)
  /\ excused' = (excused \/ ~Whole(Selected(ota')))
  /\ UNCHANGED <<slots, card, renameOnSuccess, volatileVars, phase, trusted, cards>>

(* checkBootCombo(), without options and with them: the combo is held or   *)
(* it is not.  Only the second looks at the card.                          *)
ComboCheck ==
  /\ phase = "boot" /\ phase' \in {"app", "hatch", "mount"} /\ via' = "combo"
  /\ UNCHANGED <<slots, ota, card, renameOnSuccess, running, dest, streamPos, erasedUpto, trusted, next, excused, cuts,
                 cards>>
Mount ==
  /\ FlashMove("mount", "validate") /\ card # "none" /\ dest' = NextUpdate
  /\ UNCHANGED <<slots, ota, card, renameOnSuccess, running, via, streamPos, erasedUpto, trusted, next, excused, cuts,
                 cards>>
AppFlash ==
  /\ FlashMove("app", "validate") /\ via' = "app" /\ dest' = NextUpdate
  /\ UNCHANGED <<slots, ota, card, renameOnSuccess, running, streamPos, erasedUpto, trusted, next, excused, cuts,
                 cards>>

MutValidate ==
  /\ FlashMove("validate", "open") /\ card # "none" /\ trusted' = TRUE
  /\ UNCHANGED <<slots, ota, card, renameOnSuccess, volatileVars, excused, cuts, cards>>

(* flashFromSdPath(): the file is read twice, to validate it and to write  *)
(* it.  What is written over flash that is not erased comes out as junk.   *)
Validate ==
  /\ FlashMove("validate", "open") /\ card = "update" /\ trusted' = TRUE
  /\ UNCHANGED <<slots, ota, card, renameOnSuccess, volatileVars, excused, cuts, cards>>
Open ==
  /\ FlashMove("open", "write") /\ card # "none" /\ streamPos' = 0 /\ erasedUpto' = 0
  /\ UNCHANGED <<slots, ota, card, renameOnSuccess, running, via, dest, trusted, next, excused, cuts, cards>>
MutEraseEnd == streamPos + EraseChunks
EraseEnd == IF streamPos + EraseChunks < FlashChunks THEN streamPos + EraseChunks ELSE FlashChunks
Fill(from, to, what) ==
  [slots EXCEPT ![dest] = [c \in Chunk |-> IF from < c /\ c <= to THEN what ELSE slots[dest][c]]]
Erase ==
  /\ phase = "write" /\ streamPos < FlashChunks /\ streamPos >= erasedUpto
  /\ slots' = Fill(streamPos, EraseEnd, "erased") /\ erasedUpto' = EraseEnd
  /\ UNCHANGED <<ota, card, renameOnSuccess, running, phase, via, dest, streamPos, trusted, next, excused, cuts, cards>>
Write ==
  /\ phase = "write" /\ streamPos < erasedUpto /\ card # "none"
  /\ slots' = Fill(streamPos, streamPos + 1,
                   IF slots[dest][streamPos + 1] = "erased" /\ card = "update" THEN "update" ELSE "junk")
  /\ streamPos' = streamPos + 1 /\ excused' = (excused \/ ~trusted)
  /\ phase' = IF streamPos + 1 = FlashChunks THEN "otaErase" ELSE "write"
  /\ UNCHANGED <<ota, card, renameOnSuccess, running, via, dest, erasedUpto, trusted, next, cuts, cards>>

(* switchBootPartition(): read both entries, erase one of them, write it.  *)
OtaErase ==
  /\ FlashMove("otaErase", "otaWrite")
  /\ next' = [entry |-> TargetSlot(ota), seq |-> NewSeq(ota, dest)]
  /\ ota' = Put(ota, TargetSlot(ota), 0)
  /\ UNCHANGED <<slots, card, renameOnSuccess, running, via, dest, streamPos, erasedUpto, trusted, excused, cuts, cards>>
OtaWrite ==
  /\ phase = "otaWrite" /\ ota' = Rebase(Put(ota, next.entry, next.seq)) /\ FlashReturns
  /\ phase' = IF via = "combo" /\ renameOnSuccess THEN "rename" ELSE "restart"
  /\ UNCHANGED <<slots, card, renameOnSuccess, running, via, dest, excused, cuts, cards>>

MutRename ==
  /\ FlashMove("rename", "restart") /\ card # "none"
  /\ UNCHANGED <<slots, ota, card, renameOnSuccess, volatileVars, trusted, excused, cuts, cards>>

(* The rest of trySdUpdateAndReboot(), which does not look at what         *)
(* rename() returns; the application too restarts after a flash.           *)
Rename ==
  /\ FlashMove("rename", "restart") /\ card # "none" /\ card' = "none"
  /\ UNCHANGED <<slots, ota, renameOnSuccess, volatileVars, trusted, excused, cuts, cards>>
RenameFails ==
  /\ FlashMove("rename", "restart")
  /\ UNCHANGED <<slots, ota, card, renameOnSuccess, volatileVars, trusted, excused, cuts, cards>>
Restart ==
  /\ phase = "restart" /\ Off
  /\ UNCHANGED <<slots, ota, card, renameOnSuccess, excused, cuts, cards>>
AppRestart ==
  /\ phase = "app" /\ Off
  /\ UNCHANGED <<slots, ota, card, renameOnSuccess, excused, cuts, cards>>

(* switchToSlot0AndReboot(): hasApp() reads one byte, which half an image  *)
(* may have too.                                                           *)
Hatch ==
  /\ FlashMove("hatch", "otaErase") /\ running # 0 /\ slots[0][1] # "erased"
  /\ via' = "hatch" /\ dest' = 0 /\ excused' = (excused \/ ~Whole(0))
  /\ UNCHANGED <<slots, ota, card, renameOnSuccess, running, streamPos, erasedUpto, trusted, next, cuts, cards>>
HatchReturns ==
  /\ FlashMove("hatch", "app")
  /\ UNCHANGED <<slots, ota, card, renameOnSuccess, volatileVars, trusted, excused, cuts, cards>>

-----------------------------------------------------------------------------
(* A step that fails, or that the power does not last for, leaves what it  *)
(* was writing as it was or spoilt.                                        *)
Spoilt ==
  \/ UNCHANGED <<slots, ota>>
  \/ /\ phase = "write" /\ UNCHANGED ota
     /\ slots' = Fill(streamPos, IF streamPos >= erasedUpto THEN EraseEnd ELSE streamPos + 1, "torn")
  \/ phase = "otaErase" /\ ota' = Put(ota, TargetSlot(ota), 0) /\ UNCHANGED slots
  \/ phase = "otaWrite" /\ ota' = Put(ota, next.entry, 0) /\ UNCHANGED slots
Fails ==
  /\ phase \in {"mount", "validate", "open", "write", "otaErase", "otaWrite"} /\ Spoilt /\ FlashReturns
  /\ phase' = IF via = "combo" THEN "hatch" ELSE "app"
  /\ UNCHANGED <<card, renameOnSuccess, running, via, dest, excused, cuts, cards>>
PowerCut ==
  /\ phase \notin {"off", "bricked"} /\ Spoilt /\ Off
  /\ cuts < MaxCuts /\ cuts' = cuts + 1
  /\ UNCHANGED <<card, renameOnSuccess, excused, cards>>
CardChanged ==
  /\ cards < MaxCards /\ cards' = cards + 1 /\ card' \in Card \ {card} /\ trusted' = FALSE
  /\ UNCHANGED <<slots, ota, renameOnSuccess, volatileVars, phase, excused, cuts>>

Firmware ==
  \/ Boot \/ ComboCheck \/ Mount \/ Validate \/ Open \/ Erase \/ Write \/ OtaErase \/ OtaWrite
  \/ Rename \/ RenameFails \/ Restart \/ Hatch \/ HatchReturns \/ Fails
FlashNext == Firmware \/ AppFlash \/ AppRestart \/ RollBack \/ PowerCut \/ CardChanged

(* The firmware goes on by itself, and one of the renames works.           *)
FlashFairness == WF_flashVars(Firmware) /\ SF_flashVars(Rename)
FlashSpec == FlashInit /\ [][FlashNext]_flashVars /\ FlashFairness

-----------------------------------------------------------------------------
(* Wherever a flash stops, the slot that runs is left alone, so there is   *)
(* always an image that the bootloader can start.                          *)
NeverStranded ==
  /\ phase # "bricked" /\ \E s \in Slot : Whole(s)
  /\ phase # "off" => Whole(running)

(* otadata selects a whole image, whatever was cut short, unless the card  *)
(* was changed under the flash, the hatch went by the first byte alone, or *)
(* the bootloader fell back on a slot that was being rewritten.            *)
SelectedIsWhole == ~excused => Whole(Selected(ota))

(* What boots next changes at one point only: a whole new entry for the    *)
(* slot that was asked for.  Erasing, failing and power cuts never move it.*)
SwitchIsAtomic ==
  [][Selected(ota') # Selected(ota) => phase = "off" \/ (phase = "otaWrite" /\ Selected(ota') = dest)]_flashVars

(* However long the combo is held, a device that renames what it flashed   *)
(* comes to run its application.                                           *)
BootSettles == [](renameOnSuccess => <>(phase = "app" \/ excused))
=============================================================================
