--------------------------- MODULE StorageProofs ---------------------------
(***************************************************************************)
(* Proofs about what the device leaves in its flash and on its storage.    *)
(*                                                                         *)
(* FirmwareUpdate, for images of any number of chunks, any erase size and  *)
(* any number of power cuts and changes of the card: what otadata does is  *)
(* finite arithmetic (Erased, EntryWritten); the rest follows the slot a flash  *)
(* writes from Mount to OtaWrite.                                          *)
(*                                                                         *)
(* PageCache, for chapters and pages of any length, index chunks of any    *)
(* size and any cap: a build puts page i at Start(i), whatever it is a     *)
(* part of, so an index that says so is right for the file of every build. *)
(***************************************************************************)
EXTENDS FirmwareUpdate, PageCache, SequenceTheorems, TLAPS

DestIsOther == phase \in {"validate", "open", "write"} => dest = NextUpdate
EntryPending ==
  phase = "otaWrite" => /\ next = [entry |-> TargetSlot(ota), seq |-> NewSeq(ota, dest)]
                        /\ ota[next.entry] = 0
TrustedCard == trusted => card = "update" /\ phase \in {"open", "write", "otaErase", "otaWrite"}
TargetWhole ==
  ~excused => /\ Whole(Selected(ota))
              /\ phase \notin {"off", "rename", "restart", "bricked"} => Selected(ota) = running
Progress ==
  phase = "write" =>
    /\ streamPos <= erasedUpto /\ streamPos < FlashChunks
    /\ ~excused => \A c \in Chunk : /\ c <= streamPos => slots[dest][c] = "update"
                                    /\ streamPos < c /\ c <= erasedUpto => slots[dest][c] = "erased"
Flashed == ~excused /\ phase \in {"otaErase", "otaWrite"} => Whole(dest)

FlashInv ==
  FlashTypeOK /\ NeverStranded /\ DestIsOther /\ EntryPending /\ TrustedCard /\ TargetWhole /\ Progress /\ Flashed

-----------------------------------------------------------------------------
(* What otadata selects is a slot, and the entry to overwrite is another   *)
(* one than what selects it: erasing it changes nothing.                   *)
LEMMA Erased ==
  ASSUME NEW o \in Entries
  PROVE  /\ Selected(o) \in Slot /\ TargetSlot(o) \in Slot
         /\ Put(o, TargetSlot(o), 0) \in Entries
         /\ Selected(Put(o, TargetSlot(o), 0)) = Selected(o)
         /\ TargetSlot(Put(o, TargetSlot(o), 0)) = TargetSlot(o)
         /\ ActiveSeq(Put(o, TargetSlot(o), 0)) = ActiveSeq(o)
         /\ Put(o, TargetSlot(o), 0)[TargetSlot(o)] = 0
  BY DEF Entries, Slot, Selected, TargetSlot, Put, Blank, ActiveIdx, ActiveSeq

(* The new entry selects the slot it was made for, before and after the    *)
(* sequence numbers are rebased.                                           *)
LEMMA Numbered ==
  ASSUME NEW o \in Entries, NEW s \in Slot
  PROVE  NewSeq(o, s) \in 1..6 /\ NewSeq(o, s) > ActiveSeq(o) /\ (NewSeq(o, s) + 1) % 2 = s
         /\ NewSeq(o, s) <= ActiveSeq(o) + 2
  BY DEF Entries, Slot, NewSeq, ActiveIdx, ActiveSeq

LEMMA EntryWritten ==
  ASSUME NEW o \in Entries, NEW s \in Slot, o[TargetSlot(o)] = 0
  PROVE  /\ Rebase(Put(o, TargetSlot(o), NewSeq(o, s))) \in Entries
         /\ Selected(Rebase(Put(o, TargetSlot(o), NewSeq(o, s)))) = s
  <1> DEFINE e == TargetSlot(o)
             a == o[1 - e]
             n == NewSeq(o, s)
             w == Put(o, e, n)
             k == IF a > 2 THEN 2 ELSE 0
  <1>1. e \in Slot /\ 1 - e \in Slot /\ a \in 0..4 /\ o[e] = 0
    BY Erased DEF Entries, Slot
  <1>2. ActiveSeq(o) = a
    BY <1>1 DEF Entries, Slot, ActiveSeq, ActiveIdx, TargetSlot, Blank
  <1>3. n \in 1..6 /\ n > a /\ n <= a + 2 /\ (n + 1) % 2 = s
    BY <1>2, Numbered
  <1>4. w[e] = n /\ w[1 - e] = a /\ w \in [Slot -> 0..6]
    BY <1>1, <1>3 DEF Put, Entries, Slot
  <1>5. Rebase(w) = [i \in Slot |-> IF w[i] = 0 THEN 0 ELSE w[i] - k]
    <2>1. CASE a > 2
      BY <2>1, <1>1, <1>3, <1>4 DEF Rebase, Slot
    <2>2. CASE a <= 2
      BY <2>2, <1>1, <1>3, <1>4 DEF Rebase, Slot
    <2> QED BY <1>1, <2>1, <2>2
  <1>6. Rebase(w)[e] = n - k /\ Rebase(w)[1 - e] = (IF a = 0 THEN 0 ELSE a - k) /\ Rebase(w) \in Entries
    BY <1>1, <1>3, <1>4, <1>5 DEF Entries, Slot
  <1>7. n - k > 0 /\ n - k > Rebase(w)[1 - e] /\ (n - k + 1) % 2 = s
    BY <1>1, <1>3, <1>6 DEF Slot
  <1>8. Selected(Rebase(w)) = s
    BY <1>1, <1>6, <1>7 DEF Selected, Blank, ActiveSeq, ActiveIdx, Slot, Entries
  <1> QED BY <1>6, <1>8

(* Filling part of the slot that is written leaves the other alone.        *)
LEMMA Filled ==
  ASSUME FlashTypeOK, NEW from \in Nat, NEW to \in Nat, NEW what \in Content
  PROVE  /\ Fill(from, to, what) \in [Slot -> [Chunk -> Content]]
         /\ \A s \in Slot \ {dest} : Fill(from, to, what)[s] = slots[s]
         /\ \A c \in Chunk : Fill(from, to, what)[dest][c] = IF from < c /\ c <= to THEN what ELSE slots[dest][c]
  BY DEF FlashTypeOK, Fill

LEMMA EraseReaches ==
  ASSUME FlashTypeOK, streamPos < FlashChunks
  PROVE  EraseEnd \in 0..FlashChunks /\ EraseEnd > streamPos
  BY FlashAssumption DEF FlashTypeOK, EraseEnd

(* A slot that keeps its chunks keeps its image.                           *)
LEMMA SameChunks ==
  ASSUME NEW s \in Slot, slots'[s] = slots[s]
  PROVE  Whole(s)' <=> Whole(s)
  BY DEF Whole

(* What a step that did not finish leaves behind.                          *)
LEMMA SpoiltKeeps ==
  ASSUME FlashInv, Spoilt, phase \notin {"off", "bricked"}
  PROVE  /\ slots' \in [Slot -> [Chunk -> Content]] /\ ota' \in Entries
         /\ slots'[running] = slots[running]
         /\ Selected(ota') = Selected(ota)
  <1> USE DEF FlashInv
  <1>1. slots \in [Slot -> [Chunk -> Content]] /\ ota \in Entries /\ running \in Slot /\ dest \in Slot
        /\ streamPos \in Nat /\ erasedUpto \in Nat
    BY DEF FlashTypeOK
  <1>2. CASE UNCHANGED <<slots, ota>>
    BY <1>1, <1>2
  <1>3. CASE /\ phase = "write" /\ UNCHANGED ota
             /\ slots' = Fill(streamPos, IF streamPos >= erasedUpto THEN EraseEnd ELSE streamPos + 1, "torn")
    <2>1. dest # running
      BY <1>1, <1>3 DEF DestIsOther, NextUpdate, Slot
    <2>2. (IF streamPos >= erasedUpto THEN EraseEnd ELSE streamPos + 1) \in Nat /\ "torn" \in Content
      BY <1>1, <1>3, EraseReaches DEF Progress, Content
    <2> HIDE DEF FlashInv
    <2> QED BY <1>1, <1>3, <2>1, <2>2, Filled DEF FlashInv
  <1>4. CASE phase = "otaErase" /\ ota' = Put(ota, TargetSlot(ota), 0) /\ UNCHANGED slots
    BY <1>1, <1>4, Erased
  <1>5. CASE phase = "otaWrite" /\ ota' = Put(ota, next.entry, 0) /\ UNCHANGED slots
    <2>1. next.entry = TargetSlot(ota)
      BY <1>5 DEF EntryPending
    <2> QED BY <1>1, <1>5, <2>1, Erased
  <1> QED BY <1>2, <1>3, <1>4, <1>5 DEF Spoilt

-----------------------------------------------------------------------------
THEOREM FlashInitially == FlashInit => FlashInv
  <1> SUFFICES ASSUME FlashInit PROVE FlashInv
    OBVIOUS
  <1> PICK i \in {"app", "erased"} : slots = [s \in Slot |-> [c \in Chunk |-> IF s = 0 THEN "recovery" ELSE i]]
    BY DEF FlashInit
  <1>1. FlashTypeOK
    <2>1. slots \in [Slot -> [Chunk -> Content]]
      BY DEF Content, Image
    <2>2. ota \in Entries
      BY DEF FlashInit, Entries, Slot
    <2>3. 0 \in 0..FlashChunks /\ 0 \in 0..MaxCuts /\ 0 \in 0..MaxCards /\ 0 \in Slot /\ 0 \in 0..6
      BY FlashAssumption DEF Slot
    <2> QED BY <2>1, <2>2, <2>3 DEF FlashInit, FlashTypeOK, Phase
  <1>2. Whole(0) /\ (Whole(1) \/ i = "erased")
    <2>1. \A c \in Chunk : slots[0][c] = "recovery" /\ slots[1][c] = i
      BY DEF Slot
    <2> QED BY <2>1 DEF Whole, Image
  <1>3. Selected(ota) \in Slot /\ (Selected(ota) = 1 => ota[0] = 2)
    BY DEF FlashInit, Selected, Blank, ActiveSeq, ActiveIdx, Slot
  <1>4. Whole(Selected(ota))
    <2>1. slots[1][1] = "app" => i = "app"
      BY FlashAssumption DEF Slot, Chunk
    <2> QED BY <1>2, <1>3, <2>1 DEF FlashInit, Slot
  <1> QED BY <1>1, <1>2, <1>4 DEF FlashInit, FlashInv, NeverStranded, DestIsOther, EntryPending, TrustedCard,
                             TargetWhole, Progress, Flashed, Slot

LocalsTyped ==
  streamPos \in 0..FlashChunks /\ erasedUpto \in 0..FlashChunks /\ trusted \in BOOLEAN /\ next \in [entry : Slot, seq : 0..6]

LEMMA LocalsGone == FlashReturns => LocalsTyped'
  <1>1. 0 \in 0..FlashChunks /\ 0 \in Slot /\ 0 \in 0..6
    BY FlashAssumption DEF Slot
  <1>2. [entry |-> 0, seq |-> 0] \in [entry : Slot, seq : 0..6]
    BY <1>1
  <1> QED BY <1>1, <1>2, Zenon DEF FlashReturns, LocalsTyped

LEMMA OffTyped == Off => LocalsTyped' /\ phase' \in Phase /\ running' \in Slot /\ via' = "combo" /\ dest' \in Slot
  BY LocalsGone DEF Off, Phase, Slot

LEMMA OneMore ==
  ASSUME NEW n \in Nat, NEW m \in 0..n, m < n
  PROVE  m + 1 \in 0..n
  OBVIOUS

(* The types, step by step.                                                *)
LEMMA FlashTyped == FlashInv /\ [FlashNext]_flashVars => FlashTypeOK'
  <1> SUFFICES ASSUME FlashInv, [FlashNext]_flashVars PROVE FlashTypeOK'
    OBVIOUS
  <1> USE DEF FlashTypeOK, FlashMove, Phase
  <1>0. FlashTypeOK
    BY DEF FlashInv
  <1>1. CASE Boot
    <2>1. Selected(ota) \in Slot
      BY <1>0, Erased
    <2> QED BY <1>0, <1>1, <2>1 DEF Boot, Slot
  <1>2. CASE RollBack
    <2>1. ota' \in Entries
      BY <1>0, <1>2 DEF RollBack, Put, ActiveIdx, Entries, Slot
    <2> QED BY <1>0, <1>2, <2>1, OneMore, FlashAssumption DEF RollBack, volatileVars
  <1>3. CASE ComboCheck
    BY <1>0, <1>3 DEF ComboCheck
  <1>4. CASE Mount
    BY <1>0, <1>4 DEF Mount, NextUpdate, Slot
  <1>5. CASE AppFlash
    BY <1>0, <1>5 DEF AppFlash, NextUpdate, Slot
  <1>6. CASE Validate
    BY <1>0, <1>6 DEF Validate, volatileVars
  <1>7. CASE Open
    BY <1>0, <1>7, FlashAssumption DEF Open
  <1>8. CASE Erase
    <2>1. slots' \in [Slot -> [Chunk -> Content]]
      BY <1>0, <1>8, Filled, EraseReaches DEF Erase, Content
    <2> QED BY <1>0, <1>8, <2>1, EraseReaches DEF Erase
  <1>9. CASE Write
    <2>0. streamPos \in Nat /\ streamPos + 1 \in 0..FlashChunks /\ {"update", "junk"} \subseteq Content
      BY <1>0, <1>9, FlashAssumption DEF Write, Content, Image
    <2>1. slots' \in [Slot -> [Chunk -> Content]]
      <3> DEFINE what == IF slots[dest][streamPos + 1] = "erased" /\ card = "update" THEN "update" ELSE "junk"
      <3>1. what \in Content /\ streamPos + 1 \in Nat /\ slots' = Fill(streamPos, streamPos + 1, what)
        BY <1>9, <2>0 DEF Write
      <3> HIDE DEF what
      <3> QED BY <1>0, <2>0, <3>1, Filled
    <2>2. streamPos' \in 0..FlashChunks
      BY <2>0, <1>9 DEF Write
    <2> QED BY <1>0, <1>9, <2>1, <2>2 DEF Write
  <1>10. CASE OtaErase
    BY <1>0, <1>10, Erased, Numbered DEF OtaErase
  <1>11. CASE OtaWrite
    <2>1. ota' \in Entries
      BY <1>0, <1>11, EntryWritten DEF OtaWrite, FlashInv, EntryPending
    <2> QED BY <1>0, <1>11, <2>1, LocalsGone DEF OtaWrite, LocalsTyped
  <1>12. CASE Rename
    BY <1>0, <1>12 DEF Rename, volatileVars, Card
  <1>13. CASE RenameFails
    BY <1>0, <1>13 DEF RenameFails, volatileVars
  <1>14. CASE Restart
    BY <1>0, <1>14, OffTyped DEF Restart, LocalsTyped
  <1>15. CASE AppRestart
    BY <1>0, <1>15, OffTyped DEF AppRestart, LocalsTyped
  <1>16. CASE Hatch
    BY <1>0, <1>16 DEF Hatch, Slot
  <1>17. CASE HatchReturns
    BY <1>0, <1>17 DEF HatchReturns, volatileVars
  <1>18. CASE Fails
    BY <1>0, <1>18, SpoiltKeeps, LocalsGone DEF Fails, LocalsTyped
  <1>19. CASE PowerCut
    BY <1>0, <1>19, SpoiltKeeps, OffTyped, OneMore, FlashAssumption DEF PowerCut, LocalsTyped
  <1>20. CASE CardChanged
    BY <1>0, <1>20, OneMore, FlashAssumption DEF CardChanged, volatileVars
  <1>21. CASE UNCHANGED flashVars
    BY <1>0, <1>21 DEF flashVars
  <1> QED BY <1>1, <1>2, <1>3, <1>4, <1>5, <1>6, <1>7, <1>8, <1>9, <1>10, <1>11, <1>12, <1>13, <1>14, <1>15, <1>16,
             <1>17, <1>18, <1>19, <1>20, <1>21 DEF FlashNext, Firmware

-----------------------------------------------------------------------------
(* The running slot is never the one that is written.                      *)
LEMMA FlashKeepsRunning == FlashInv /\ [FlashNext]_flashVars => NeverStranded'
  <1> SUFFICES ASSUME FlashInv, [FlashNext]_flashVars PROVE NeverStranded'
    OBVIOUS
  <1>0. FlashTypeOK /\ NeverStranded /\ running \in Slot /\ dest \in Slot
    BY DEF FlashInv, FlashTypeOK
  <1>1. ASSUME slots' = slots, phase' # "bricked", phase' # "off" => phase # "off" /\ running' = running
        PROVE  NeverStranded'
    <2>1. \A s \in Slot : Whole(s)' <=> Whole(s)
      BY <1>1, SameChunks
    <2> QED BY <1>0, <1>1, <2>1 DEF NeverStranded
  <1>2. ASSUME phase # "off", slots'[running] = slots[running], phase' # "bricked",
               phase' # "off" => running' = running
        PROVE  NeverStranded'
    <2> PICK s \in Slot : s = running
      BY <1>0
    <2>1. Whole(s)'
      BY <1>0, <1>2, SameChunks DEF NeverStranded
    <2> QED BY <1>2, <2>1 DEF NeverStranded
  <1>3. CASE Boot
    <2>1. \A s \in Slot : Whole(s)' <=> Whole(s)
      BY <1>3, SameChunks DEF Boot
    <2>2. Selected(ota) \in Slot /\ \E s \in Slot : Whole(s)
      BY <1>0, Erased DEF NeverStranded, FlashTypeOK
    <2>3. running' \in Slot /\ Whole(running')
      BY <1>3, <2>2 DEF Boot, Slot
    <2> QED BY <1>3, <2>1, <2>2, <2>3 DEF Boot, NeverStranded, Whole
  <1>4. CASE RollBack \/ ComboCheck \/ Mount \/ AppFlash \/ Validate \/ Open
    BY <1>1, <1>4, <1>0 DEF RollBack, ComboCheck, Mount, AppFlash, Validate, Open, FlashMove, volatileVars, NeverStranded
  <1>5. CASE OtaErase \/ OtaWrite \/ Rename \/ RenameFails \/ Hatch \/ HatchReturns \/ CardChanged
    BY <1>1, <1>5, <1>0
       DEF OtaErase, OtaWrite, Rename, RenameFails, Hatch, HatchReturns, CardChanged, FlashMove, volatileVars,
           NeverStranded
  <1>6. CASE Restart \/ AppRestart
    BY <1>1, <1>6 DEF Restart, AppRestart, Off
  <1>7. CASE Erase \/ Write
    <2>1. phase = "write" /\ phase' \in {"write", "otaErase"} /\ running' = running
      BY <1>7 DEF Erase, Write
    <2>2. dest # running
      BY <1>0, <2>1 DEF FlashInv, DestIsOther, NextUpdate, Slot
    <2>3. \E from, to \in Nat, what \in {"erased", "update", "junk"} : slots' = Fill(from, to, what)
      <3>1. streamPos \in Nat /\ erasedUpto \in Nat /\ streamPos + 1 \in Nat
        BY <1>0 DEF FlashTypeOK
      <3>2. Erase => EraseEnd \in Nat
        BY <1>0, EraseReaches DEF Erase
      <3> QED BY <1>7, <3>1, <3>2 DEF Erase, Write
    <2>4. slots'[running] = slots[running]
      BY <1>0, <2>2, <2>3, Filled DEF Content, Image
    <2> QED BY <1>2, <2>1, <2>4
  <1>8. CASE Fails \/ PowerCut
    <2>1. phase \notin {"off", "bricked"} /\ Spoilt /\ phase' # "bricked" /\ (phase' # "off" => running' = running)
      BY <1>8 DEF Fails, PowerCut, Off
    <2> QED BY <1>2, <2>1, SpoiltKeeps
  <1>9. CASE UNCHANGED flashVars
    BY <1>0, <1>1, <1>9 DEF flashVars, NeverStranded
  <1> QED BY <1>3, <1>4, <1>5, <1>6, <1>7, <1>8, <1>9 DEF FlashNext, Firmware

(* What otadata selects moves in RollBack and in OtaWrite alone.           *)
LEMMA SelectedMoves ==
  ASSUME FlashInv, [FlashNext]_flashVars
  PROVE  \/ Selected(ota') = Selected(ota)
         \/ phase = "off"
         \/ phase = "otaWrite" /\ Selected(ota') = dest
  <1>0. ota \in Entries /\ dest \in Slot
    BY DEF FlashInv, FlashTypeOK
  <1>1. CASE OtaErase
    BY <1>0, <1>1, Erased DEF OtaErase
  <1>2. CASE OtaWrite
    BY <1>0, <1>2, EntryWritten DEF OtaWrite, FlashInv, EntryPending
  <1>3. CASE Fails \/ PowerCut
    <2>1. phase \notin {"off", "bricked"} /\ Spoilt
      BY <1>3 DEF Fails, PowerCut
    <2> QED BY <2>1, SpoiltKeeps
  <1>4. CASE RollBack \/ UNCHANGED ota
    BY <1>4 DEF RollBack
  <1>5. CASE ~OtaErase /\ ~OtaWrite /\ ~Fails /\ ~PowerCut /\ ~RollBack
    <2>1. UNCHANGED ota
      BY <1>5 DEF FlashNext, Firmware, Boot, ComboCheck, Mount, AppFlash, Validate, Open, Erase, Write, Rename,
                  RenameFails, Restart, AppRestart, Hatch, HatchReturns, CardChanged, flashVars
    <2> QED BY <2>1
  <1> QED BY <1>1, <1>2, <1>3, <1>4, <1>5

(* The small facts about where a flash stands.                             *)
LEMMA FlashPlaces == FlashInv /\ [FlashNext]_flashVars => DestIsOther' /\ TrustedCard'
  <1> SUFFICES ASSUME FlashInv, [FlashNext]_flashVars PROVE DestIsOther' /\ TrustedCard'
    OBVIOUS
  <1> USE DEF FlashInv, DestIsOther, TrustedCard, NextUpdate, FlashMove, FlashReturns
  <1>1. CASE Boot \/ RollBack \/ ComboCheck \/ Mount \/ AppFlash
    BY <1>1 DEF Boot, RollBack, ComboCheck, Mount, AppFlash, volatileVars
  <1>2. CASE Validate \/ Open \/ Erase \/ Write
    BY <1>2 DEF Validate, Open, Erase, Write, volatileVars
  <1>3. CASE OtaErase \/ OtaWrite \/ Rename \/ RenameFails \/ Hatch \/ HatchReturns
    BY <1>3 DEF OtaErase, OtaWrite, Rename, RenameFails, Hatch, HatchReturns, volatileVars
  <1>4. CASE Restart \/ AppRestart \/ Fails \/ PowerCut
    BY <1>4 DEF Restart, AppRestart, Fails, PowerCut, Off
  <1>5. CASE CardChanged \/ UNCHANGED flashVars
    BY <1>5 DEF CardChanged, volatileVars, flashVars
  <1> QED BY <1>1, <1>2, <1>3, <1>4, <1>5 DEF FlashNext, Firmware

LEMMA FlashEntry == FlashInv /\ [FlashNext]_flashVars => EntryPending'
  <1> SUFFICES ASSUME FlashInv, [FlashNext]_flashVars, phase' = "otaWrite" PROVE EntryPending'
    BY DEF EntryPending
  <1>0. ota \in Entries /\ dest \in Slot
    BY DEF FlashInv, FlashTypeOK
  <1>1. CASE OtaErase
    <2>1. TargetSlot(ota') = TargetSlot(ota) /\ NewSeq(ota', dest) = NewSeq(ota, dest) /\ ota'[TargetSlot(ota)] = 0
      BY <1>0, <1>1, Erased DEF OtaErase, NewSeq
    <2> QED BY <1>1, <2>1 DEF OtaErase, EntryPending
  <1>2. CASE phase = "otaWrite" /\ UNCHANGED <<ota, dest, next>>
    BY <1>2 DEF FlashInv, EntryPending
  <1>3. OtaErase \/ (phase = "otaWrite" /\ UNCHANGED <<ota, dest, next>>)
    BY DEF FlashNext, Firmware, Boot, RollBack, ComboCheck, Mount, AppFlash, Validate, Open, Erase, Write, OtaWrite,
           Rename, RenameFails, Restart, AppRestart, Hatch, HatchReturns, Fails, PowerCut, CardChanged, flashVars,
           FlashMove, Off, volatileVars
  <1> QED BY <1>1, <1>2, <1>3

LEMMA ExcusedStays == FlashInv /\ [FlashNext]_flashVars => (excused => excused')
  BY DEF FlashNext, Firmware, Boot, RollBack, ComboCheck, Mount, AppFlash, Validate, Open, Erase, Write, OtaErase,
         OtaWrite, Rename, RenameFails, Restart, AppRestart, Hatch, HatchReturns, Fails, PowerCut, CardChanged, flashVars

(* One chunk more of the image, and room erased for the next.              *)
LEMMA FlashProgress == FlashInv /\ [FlashNext]_flashVars => Progress' /\ Flashed'
  <1> SUFFICES ASSUME FlashInv, [FlashNext]_flashVars PROVE Progress' /\ Flashed'
    OBVIOUS
  <1>0. FlashTypeOK /\ streamPos \in Nat /\ erasedUpto \in Nat /\ dest \in Slot /\ (excused => excused')
    BY ExcusedStays DEF FlashInv, FlashTypeOK
  <1>1. CASE Open
    BY <1>1, FlashAssumption DEF Open, FlashMove, Progress, Flashed, Chunk
  <1>2. CASE Erase
    <2>1. phase = "write" /\ phase' = "write" /\ UNCHANGED <<dest, streamPos, excused>> /\ streamPos < FlashChunks
          /\ erasedUpto' = EraseEnd /\ EraseEnd \in 0..FlashChunks /\ EraseEnd > streamPos
          /\ slots' = Fill(streamPos, EraseEnd, "erased")
      BY <1>0, <1>2, EraseReaches DEF Erase
    <2>2. \A c \in Chunk : slots'[dest][c] = IF streamPos < c /\ c <= EraseEnd THEN "erased" ELSE slots[dest][c]
      <3>1. EraseEnd \in Nat /\ "erased" \in Content
        BY <2>1, FlashAssumption DEF Content
      <3> QED BY <1>0, <2>1, <3>1, Filled
    <2>3. ~excused => \A c \in Chunk : c <= streamPos => slots[dest][c] = "update"
      BY <2>1 DEF FlashInv, Progress
    <2> QED BY <1>0, <2>1, <2>2, <2>3 DEF Progress, Flashed, Chunk
  <1>3. CASE Write
    <2> DEFINE what == IF slots[dest][streamPos + 1] = "erased" /\ card = "update" THEN "update" ELSE "junk"
    <2>1. phase = "write" /\ streamPos < erasedUpto /\ erasedUpto \in 0..FlashChunks
          /\ streamPos' = streamPos + 1 /\ UNCHANGED <<dest, erasedUpto>>
          /\ slots' = Fill(streamPos, streamPos + 1, what)
          /\ phase' = (IF streamPos + 1 = FlashChunks THEN "otaErase" ELSE "write")
      BY <1>0, <1>3 DEF Write, FlashTypeOK
    <2>2. ASSUME ~excused' PROVE ~excused /\ what = "update"
      <3>1. trusted /\ ~excused
        BY <1>3, <2>2 DEF Write
      <3>2. card = "update"
        BY <3>1 DEF FlashInv, TrustedCard
      <3>3. streamPos + 1 \in Chunk /\ streamPos < streamPos + 1 /\ streamPos + 1 <= erasedUpto
        BY <1>0, <2>1, FlashAssumption DEF Chunk
      <3>4. slots[dest][streamPos + 1] = "erased"
        BY <2>1, <3>1, <3>3 DEF FlashInv, Progress
      <3> QED BY <3>1, <3>2, <3>4
    <2>3. what \in Content
      BY DEF Content, Image
    <2> HIDE DEF what
    <2>4. \A c \in Chunk : slots'[dest][c] = IF streamPos < c /\ c <= streamPos + 1 THEN what ELSE slots[dest][c]
      BY <1>0, <2>1, <2>3, Filled
    <2>5. ASSUME ~excused', NEW c \in Chunk
          PROVE  /\ c <= streamPos + 1 => slots'[dest][c] = "update"
                 /\ streamPos + 1 < c /\ c <= erasedUpto => slots'[dest][c] = "erased"
      <3>1. ~excused /\ what = "update" /\ c \in Nat
        BY <2>2, <2>5 DEF Chunk
      <3>2. /\ c <= streamPos => slots[dest][c] = "update"
            /\ streamPos < c /\ c <= erasedUpto => slots[dest][c] = "erased"
        BY <2>1, <3>1 DEF FlashInv, Progress
      <3> QED BY <1>0, <2>4, <3>1, <3>2
    <2>6. Progress'
      BY <1>0, <2>1, <2>5, FlashAssumption DEF Progress
    <2>7. Flashed'
      <3> SUFFICES ASSUME ~excused', streamPos + 1 = FlashChunks PROVE Whole(dest)'
        BY <2>1 DEF Flashed
      <3>1. \A c \in Chunk : slots'[dest][c] = "update"
        BY <2>5 DEF Chunk
      <3> QED BY <2>1, <3>1 DEF Whole, Image
    <2> QED BY <2>6, <2>7
  <1>4. CASE Hatch
    BY <1>4 DEF Hatch, FlashMove, Progress, Flashed, Whole
  <1>5. CASE OtaErase
    BY <1>5 DEF OtaErase, FlashMove, Progress, Flashed, FlashInv, Whole
  <1>6. CASE CardChanged \/ UNCHANGED flashVars
    BY <1>6 DEF CardChanged, flashVars, volatileVars, Progress, Flashed, FlashInv, Whole
  <1>7. CASE phase' \notin {"write", "otaErase", "otaWrite"}
    BY <1>7 DEF Progress, Flashed
  <1>8. CASE RollBack
    BY <1>7, <1>8 DEF RollBack
  <1>9. CASE Boot \/ ComboCheck \/ Mount \/ AppFlash \/ Validate \/ OtaWrite \/ Rename \/ RenameFails \/ Restart
             \/ AppRestart \/ HatchReturns \/ Fails \/ PowerCut
    BY <1>7, <1>9 DEF Boot, ComboCheck, Mount, AppFlash, Validate, OtaWrite, Rename, RenameFails, Restart, AppRestart,
                      HatchReturns, Fails, PowerCut, FlashMove, Off
  <1> QED BY <1>1, <1>2, <1>3, <1>4, <1>5, <1>6, <1>8, <1>9 DEF FlashNext, Firmware

(* The selected slot: kept while another is written, and whole when it is  *)
(* chosen.                                                                 *)
LEMMA FlashTarget == FlashInv /\ [FlashNext]_flashVars => TargetWhole'
  <1> SUFFICES ASSUME FlashInv, [FlashNext]_flashVars, ~excused' PROVE TargetWhole'
    BY DEF TargetWhole
  <1>0. FlashTypeOK /\ ~excused /\ ota \in Entries /\ running \in Slot /\ dest \in Slot
    BY ExcusedStays DEF FlashInv, FlashTypeOK
  <1> DEFINE s == Selected(ota)
             Aside == {"off", "rename", "restart", "bricked"}
  <1>s. s \in Slot /\ Whole(s) /\ (phase \notin Aside => s = running)
    BY <1>0, Erased DEF FlashInv, TargetWhole
  <1>1. ASSUME slots'[s] = slots[s], Selected(ota') = s, phase' \notin Aside => phase \notin Aside /\ running' = running
        PROVE  TargetWhole'
    <2> PICK t \in Slot : t = s
      BY <1>s
    <2>1. Whole(t)'
      BY <1>s, <1>1, SameChunks
    <2> QED BY <1>s, <1>1, <2>1 DEF TargetWhole
  <1>2. CASE Boot
    BY <1>s, <1>2 DEF Boot, TargetWhole, Whole
  <1>3. CASE RollBack
    BY <1>0, <1>3 DEF RollBack, TargetWhole, Whole
  <1>4. CASE OtaWrite
    <2>1. Selected(ota') = dest /\ Whole(dest)
      BY <1>0, <1>4, EntryWritten DEF OtaWrite, FlashInv, EntryPending, Flashed
    <2> QED BY <1>4, <2>1 DEF OtaWrite, TargetWhole, Whole
  <1>5. CASE OtaErase
    BY <1>0, <1>1, <1>5, Erased DEF OtaErase, FlashMove
  <1>6. CASE Fails \/ PowerCut
    <2>1. phase \notin {"off", "bricked"} /\ Spoilt
      BY <1>6 DEF Fails, PowerCut
    <2>2. slots'[running] = slots[running] /\ Selected(ota') = s
      BY <2>1, SpoiltKeeps
    <2>3. slots'[s] = slots[s]
      BY <1>s, <2>1, <2>2 DEF Spoilt
    <2> QED BY <1>1, <1>6, <2>2, <2>3 DEF Fails, PowerCut, Off
  <1>7. CASE Erase \/ Write
    <2>1. phase = "write" /\ phase' \in {"write", "otaErase"} /\ UNCHANGED <<running, ota>>
      BY <1>7 DEF Erase, Write
    <2>2. \E from, to \in Nat, what \in {"erased", "update", "junk"} : slots' = Fill(from, to, what)
      <3>1. streamPos \in Nat /\ streamPos + 1 \in Nat
        BY <1>0 DEF FlashTypeOK
      <3>2. Erase => EraseEnd \in Nat
        BY <1>0, EraseReaches DEF Erase
      <3> QED BY <1>7, <3>1, <3>2 DEF Erase, Write
    <2>3. s = running /\ dest # s
      BY <1>s, <2>1 DEF FlashInv, DestIsOther, NextUpdate, Slot
    <2>4. slots'[s] = slots[s]
      BY <1>0, <1>s, <2>2, <2>3, Filled DEF Content, Image
    <2> QED BY <1>1, <2>1, <2>4
  <1>8. CASE ComboCheck \/ Mount \/ AppFlash \/ Validate \/ Open \/ Hatch \/ HatchReturns
    BY <1>1, <1>8 DEF ComboCheck, Mount, AppFlash, Validate, Open, Hatch, HatchReturns, FlashMove, volatileVars
  <1>9. CASE Rename \/ RenameFails \/ Restart \/ AppRestart \/ CardChanged \/ UNCHANGED flashVars
    BY <1>1, <1>9 DEF Rename, RenameFails, Restart, AppRestart, CardChanged, flashVars, FlashMove, Off, volatileVars
  <1> QED BY <1>2, <1>3, <1>4, <1>5, <1>6, <1>7, <1>8, <1>9 DEF FlashNext, Firmware

-----------------------------------------------------------------------------
LEMMA FlashInductive == FlashInv /\ [FlashNext]_flashVars => FlashInv'
  BY FlashTyped, FlashKeepsRunning, FlashPlaces, FlashEntry, FlashProgress, FlashTarget DEF FlashInv

LEMMA FlashInvariant == FlashSpec => []FlashInv
  BY FlashInitially, FlashInductive, PTL DEF FlashSpec

(* The variables of the update keep their types: the sequence numbers that *)
(* switchBootPartition() writes stay in step with what the bootloader      *)
(* reads, and a flash never runs past the partition.                       *)
THEOREM FlashTypes == FlashSpec => []FlashTypeOK
  BY FlashInvariant, PTL DEF FlashInv

(* Wherever the power, the card or the flash gives up, the slot that runs  *)
(* is whole and the bootloader has an image (flashFromSdPath()).           *)
THEOREM DeviceNeverStranded == FlashSpec => []NeverStranded
  BY FlashInvariant, PTL DEF FlashInv

(* otadata selects a whole image, but for the three excuses                *)
(* (switchBootPartition()).                                                *)
THEOREM TargetIsWhole == FlashSpec => []SelectedIsWhole
  <1>1. FlashInv => SelectedIsWhole
    BY DEF FlashInv, TargetWhole, SelectedIsWhole
  <1> QED BY <1>1, FlashInvariant, PTL

(* Erasing an entry, failing, or losing power between the two writes moves *)
(* no boot target (switchBootPartition()).                                 *)
THEOREM SwitchingIsAtomic == FlashSpec => SwitchIsAtomic
  <1>1. FlashInv /\ [FlashNext]_flashVars =>
          [Selected(ota') # Selected(ota) => phase = "off" \/ (phase = "otaWrite" /\ Selected(ota') = dest)]_flashVars
    BY SelectedMoves
  <1> QED BY <1>1, FlashInvariant, PTL DEF FlashSpec, SwitchIsAtomic

-----------------------------------------------------------------------------
(* The page cache.  Where page i starts, after the header of the file.     *)
Start(i) == 1 + (i - 1) * PageParts
Cells ==
  {Header} \cup ({"page"} \X Nat \X Nat) \cup ({"index"} \X Nat) \cup ({"foot"} \X BOOLEAN \X Nat \X Nat)

(* As far as it goes, what lies where page i belongs is page i.            *)
Shows(cells, i) ==
  \A part \in 1..PageParts : Start(i) + part <= Len(cells) => cells[Start(i) + part] = <<"page", i, part>>

(* A file that opens has an index in step with its pages.                  *)
Sound(cells, pages) ==
  Opens(cells) =>
    LET foot == cells[Len(cells)]
    IN /\ foot[4] \in 0..pages /\ foot[3] = Start(foot[4] + 1)
       /\ \A i \in 1..foot[4] : cells[foot[3] + i][2] = Start(i) /\ Shows(cells, i)
       /\ foot[2] => foot[4] = pages

(* The writer's stream holds pages only, and the index says where.         *)
InStep ==
  /\ Len(stream) <= Start(Len(index) + 1)
  /\ ~failed => Len(stream) = Start(Len(index) + 1) /\ Len(index) = emitted
  /\ \A i \in 1..Len(index) : index[i] = Start(i)
  /\ \A i \in Nat \ {0} : Shows(stream, i)
  /\ \A k \in 1..Len(stream) : stream[k][1] # "foot"

(* A reader looks for its pages where any build of them puts them.         *)
Fits(r, cells, pages) ==
  /\ r.at \in Seq(Nat) /\ Len(r.at) \in 0..pages /\ r.end = Start(Len(r.at) + 1)
  /\ \A i \in 1..Len(r.at) : r.at[i] = Start(i) /\ Shows(cells, i)

CacheTypes ==
  /\ chapter \in Nat \ {0} /\ pictures \in BOOLEAN /\ inPlace \in BOOLEAN /\ shared \in BOOLEAN
  /\ file \in Seq(Cells) /\ stream \in Seq(Cells)
  /\ open \in BOOLEAN /\ failed \in BOOLEAN /\ index \in Seq(Nat)
  /\ session \in {"idle", "parsing", "done", "failed"} /\ emitted \in 0..chapter

(* The index of the writer is its own.                                     *)
IndexKept == ~(shared /\ pictures)
CacheHonest ==
  /\ lost = {}
  /\ open => InStep
  /\ open /\ ~failed /\ session = "done" => emitted = chapter
  /\ Sound(file, chapter)
  /\ reader # NoReader => Fits(reader, OnDisk, chapter)
CacheInv == CacheTypes /\ (IndexKept => CacheHonest)

-----------------------------------------------------------------------------
(* Arithmetic: pages follow one another without a gap.                     *)
LEMMA PageStarts ==
  /\ PageParts \in Nat \ {0}
  /\ \A i \in Nat \ {0} : Start(i) \in Nat \ {0} /\ Start(i + 1) = Start(i) + PageParts
  /\ Start(1) = 1
<1>1. PageParts \in Nat \ {0}
  BY CacheAssumption
<1>2. ASSUME NEW i \in Nat \ {0} PROVE Start(i) \in Nat \ {0} /\ Start(i + 1) = Start(i) + PageParts
  <2>1. i - 1 \in Nat /\ (i - 1) * PageParts \in Nat
    BY <1>1
  <2>2. ((i + 1) - 1) * PageParts = (i - 1) * PageParts + PageParts
    BY <1>1
  <2> QED BY <1>1, <2>1, <2>2 DEF Start
<1> QED BY <1>1, <1>2 DEF Start

LEMMA StartsGrow ==
  ASSUME NEW i \in Nat \ {0}, NEW j \in Nat \ {0}, i < j
  PROVE  Start(i) + PageParts <= Start(j)
<1> DEFINE d == j - i - 1
<1>1. d \in Nat /\ PageParts \in Nat
  BY PageStarts
<1>2. d * PageParts \in Nat
  BY <1>1
<1>3. (j - 1) * PageParts = (i - 1) * PageParts + PageParts + d * PageParts
  BY <1>1
<1>4. (i - 1) * PageParts \in Nat
  BY <1>1
<1> QED BY <1>1, <1>2, <1>3, <1>4 DEF Start

(* A function on 1..n is a sequence.                                       *)
LEMMA IsSequence ==
  ASSUME NEW S, NEW n \in Nat, NEW f \in [1..n -> S]
  PROVE  f \in Seq(S) /\ Len(f) = n
<1>1. f \in Seq(S)
  BY SeqDef
<1>2. DOMAIN f = 1..n /\ DOMAIN f = 1..Len(f) /\ Len(f) \in Nat
  BY <1>1, LenProperties
<1> QED BY <1>1, <1>2

(* The cells of a build.                                                   *)
LEMMA CellTypes ==
  /\ Header \in Cells /\ Header[1] # "foot"
  /\ \A i \in Nat : Blob(i) \in Seq(Cells) /\ Len(Blob(i)) = PageParts
                    /\ \A part \in 1..PageParts : Blob(i)[part] = <<"page", i, part>>
  /\ \A offset \in Nat : <<"index", offset>> \in Cells
  /\ \A final \in BOOLEAN, at, count \in Nat : Foot(final, at, count) \in Cells
<1>1. Header \in Cells /\ Header[1] # "foot"
  BY DEF Cells, Header
<1>2. ASSUME NEW i \in Nat
      PROVE  Blob(i) \in Seq(Cells) /\ Len(Blob(i)) = PageParts
             /\ \A part \in 1..PageParts : Blob(i)[part] = <<"page", i, part>>
  <2>1. \A part \in 1..PageParts : <<"page", i, part>> \in Cells
    BY CacheAssumption DEF Cells
  <2>2. Blob(i) \in [1..PageParts -> Cells] /\ PageParts \in Nat
    BY <2>1, CacheAssumption DEF Blob
  <2>3. Blob(i) \in Seq(Cells) /\ Len(Blob(i)) = PageParts
    BY <2>2, IsSequence
  <2> QED BY <2>3 DEF Blob
<1>3. \A offset \in Nat : <<"index", offset>> \in Cells
  BY DEF Cells
<1>4. \A final \in BOOLEAN, at, count \in Nat : Foot(final, at, count) \in Cells
  BY DEF Cells, Foot
<1> QED BY <1>1, <1>2, <1>3, <1>4

(* What a blob is decoded as, when the page that belongs there is shown.   *)
LEMMA DecodesAs ==
  ASSUME NEW cells \in Seq(Cells), NEW i \in 1..chapter, chapter \in Nat, Shows(cells, i)
  PROVE  /\ Decoded(cells, Start(i), Start(i + 1)) \subseteq {i}
         /\ Len(cells) >= Start(i + 1) => Decoded(cells, Start(i), Start(i + 1)) = {i}
<1> DEFINE at == Start(i)
           end == Start(i + 1)
           sub == SubSeq(cells, at + 1, end)
<1>1. /\ PageParts \in Nat \ {0} /\ at \in Nat \ {0} /\ end = at + PageParts
      /\ Len(cells) \in Nat
  <2>1. i \in Nat \ {0}
    OBVIOUS
  <2>2. Len(cells) \in Nat
    BY LenProperties
  <2> QED BY <2>1, <2>2, PageStarts
<1>2. CASE Len(cells) < end
  BY <1>1, <1>2 DEF Decoded
<1>3. CASE end <= Len(cells)
  <2>1. \A k \in at + 1..end : cells[k] \in Cells
    BY <1>1, <1>3, ElementOfSeq
  <2>2. at + 1 \in Int /\ end \in Int
    BY <1>1
  <2>3. /\ sub \in Seq(Cells) /\ Len(sub) = PageParts
        /\ \A k \in 1..PageParts : sub[k] = cells[at + k]
    <3>1. /\ sub \in Seq(Cells)
          /\ Len(sub) = IF at + 1 <= end THEN end - (at + 1) + 1 ELSE 0
          /\ \A k \in 1..(end - (at + 1) + 1) : sub[k] = cells[(at + 1) + k - 1]
      BY <2>1, <2>2, SubSeqProperties
    <3>2. /\ end - (at + 1) + 1 = PageParts /\ at + 1 <= end
          /\ \A k \in 1..PageParts : (at + 1) + k - 1 = at + k
      BY <1>1
    <3> QED BY <3>1, <3>2
  <2>4. ASSUME NEW k \in 1..PageParts PROVE sub[k] = <<"page", i, k>>
    <3>1. at + k <= Len(cells)
      BY <1>1, <1>3
    <3>2. cells[at + k] = <<"page", i, k>>
      BY <3>1 DEF Shows
    <3> QED BY <2>3, <3>2
  <2>5. /\ Blob(i) \in Seq(Cells) /\ Len(Blob(i)) = PageParts
        /\ \A k \in 1..PageParts : Blob(i)[k] = <<"page", i, k>>
    BY CellTypes
  <2>6. Blob(i) = sub
    <3>1. Len(Blob(i)) = Len(sub) /\ \A k \in 1..Len(Blob(i)) : Blob(i)[k] = sub[k]
      BY <2>3, <2>4, <2>5
    <3> QED BY <2>3, <2>5, <3>1, SeqEqual
  <2>7. ASSUME NEW j \in 1..chapter, Blob(j) = Blob(i) PROVE j = i
    <3>1. 1 \in 1..PageParts
      BY <1>1
    <3>2. Blob(j)[1] = <<"page", j, 1>> /\ Blob(i)[1] = <<"page", i, 1>>
      BY <3>1, CellTypes
    <3> QED BY <2>7, <3>2
  <2>8. {j \in 1..chapter : Blob(j) = sub} = {i}
    BY <2>6, <2>7
  <2>9. Decoded(cells, at, end) = {i}
    <3>1. ~(end <= at \/ Len(cells) < end)
      BY <1>1, <1>3
    <3>2. Decoded(cells, at, end) = LET page == {j \in 1..chapter : Blob(j) = sub}
                                    IN IF page = {} THEN {0} ELSE page
      BY <3>1 DEF Decoded
    <3> QED BY <2>8, <3>2
  <2> QED BY <2>9
<1> QED BY <1>1, <1>2, <1>3

(* Nothing that lacks a footer at its end opens, nor does anything short.  *)
LEMMA NoFootIsSound ==
  ASSUME NEW cells \in Seq(Cells), Len(cells) > 1 => cells[Len(cells)][1] # "foot"
  PROVE  \A pages \in Nat : Sound(cells, pages)
  BY DEF Sound, Opens

-----------------------------------------------------------------------------
(* What is written after what.                                             *)
LEMMA JoinShape ==
  ASSUME NEW a \in Seq(Cells), NEW b \in Seq(Cells)
  PROVE  /\ a \o b \in Seq(Cells) /\ Len(a \o b) = Len(a) + Len(b)
         /\ \A k \in 1..(Len(a) + Len(b)) : (a \o b)[k] = IF k <= Len(a) THEN a[k] ELSE b[k - Len(a)]
  BY ConcatProperties

(* The shape of a committed file.                                          *)
LEMMA CommittedShape ==
  ASSUME CacheTypes, NEW final \in BOOLEAN
  PROVE  LET whole == Committed(final)
         IN /\ whole \in Seq(Cells)
            /\ Len(whole) = Len(stream) + Len(index) + 1
            /\ \A k \in 1..Len(stream) : whole[k] = stream[k]
            /\ \A i \in 1..Len(index) : whole[Len(stream) + i] = <<"index", index[i]>>
            /\ whole[Len(whole)] = <<"foot", final, Len(stream), Len(index)>>
<1> DEFINE pages == Index(index)
           foot == <<Foot(final, Len(stream), Len(index))>>
           body == stream \o pages
<1>1. /\ stream \in Seq(Cells) /\ Len(stream) \in Nat
      /\ index \in Seq(Nat) /\ Len(index) \in Nat
  BY LenProperties DEF CacheTypes
<1>2. pages \in Seq(Cells) /\ Len(pages) = Len(index) /\ \A i \in 1..Len(index) : pages[i] = <<"index", index[i]>>
  <2>1. \A i \in 1..Len(index) : <<"index", index[i]>> \in Cells
    BY <1>1, ElementOfSeq, CellTypes
  <2>2. pages \in [1..Len(index) -> Cells]
    BY <2>1 DEF Index
  <2>3. pages \in Seq(Cells) /\ Len(pages) = Len(index)
    BY <1>1, <2>2, IsSequence
  <2> QED BY <2>3 DEF Index
<1>3. foot \in Seq(Cells) /\ Len(foot) = 1 /\ foot[1] = <<"foot", final, Len(stream), Len(index)>>
  BY <1>1, CellTypes DEF Foot
<1>4. Committed(final) = body \o foot
  BY DEF Committed
<1> HIDE DEF pages, foot
<1>5. /\ body \in Seq(Cells) /\ Len(body) = Len(stream) + Len(index)
      /\ \A k \in 1..Len(body) : body[k] = IF k <= Len(stream) THEN stream[k] ELSE pages[k - Len(stream)]
  BY <1>1, <1>2, JoinShape
<1> HIDE DEF body
<1>6. /\ body \o foot \in Seq(Cells) /\ Len(body \o foot) = Len(body) + 1
      /\ \A k \in 1..(Len(body) + 1) :
           (body \o foot)[k] = IF k <= Len(body) THEN body[k] ELSE foot[k - Len(body)]
  BY <1>3, <1>5, JoinShape
<1>7. ASSUME NEW k \in 1..Len(stream) PROVE (body \o foot)[k] = stream[k]
  <2>1. k \in 1..Len(body) /\ k <= Len(body) /\ k \in 1..(Len(body) + 1) /\ k <= Len(stream)
    BY <1>1, <1>5
  <2>2. (body \o foot)[k] = body[k]
    BY <1>6, <2>1
  <2>3. body[k] = stream[k]
    BY <1>5, <2>1
  <2> QED BY <2>2, <2>3
<1>8. ASSUME NEW i \in 1..Len(index) PROVE (body \o foot)[Len(stream) + i] = <<"index", index[i]>>
  <2> DEFINE k == Len(stream) + i
  <2>1. /\ k \in 1..Len(body) /\ k <= Len(body) /\ k \in 1..(Len(body) + 1) /\ ~(k <= Len(stream))
        /\ k - Len(stream) = i
    BY <1>1, <1>5
  <2> HIDE DEF k
  <2>2. (body \o foot)[k] = pages[i]
    BY <1>5, <1>6, <2>1
  <2> QED BY <1>2, <2>2 DEF k
<1>9. (body \o foot)[Len(body \o foot)] = <<"foot", final, Len(stream), Len(index)>>
  <2> DEFINE k == Len(body) + 1
  <2>1. k \in 1..(Len(body) + 1) /\ ~(k <= Len(body)) /\ k - Len(body) = 1
    BY <1>1, <1>5
  <2>2. (body \o foot)[k] = foot[1]
    BY <1>6, <2>1
  <2> QED BY <1>3, <1>6, <2>2
<1>10. Len(body \o foot) = Len(stream) + Len(index) + 1
  BY <1>5, <1>6
<1> QED BY <1>4, <1>6, <1>7, <1>8, <1>9, <1>10

(* A prefix keeps the cells it has.                                        *)
LEMMA PrefixShape ==
  ASSUME NEW cells \in Seq(Cells), NEW n \in 0..Len(cells)
  PROVE  /\ SubSeq(cells, 1, n) \in Seq(Cells) /\ Len(SubSeq(cells, 1, n)) = n
         /\ \A k \in 1..n : SubSeq(cells, 1, n)[k] = cells[k]
<1>1. Len(cells) \in Nat /\ n \in Nat /\ \A k \in 1..n : cells[k] \in Cells
  BY LenProperties, ElementOfSeq
<1>2. /\ SubSeq(cells, 1, n) \in Seq(Cells)
      /\ Len(SubSeq(cells, 1, n)) = IF 1 <= n THEN n - 1 + 1 ELSE 0
      /\ \A k \in 1..(n - 1 + 1) : SubSeq(cells, 1, n)[k] = cells[1 + k - 1]
  BY <1>1, SubSeqProperties
<1> QED BY <1>1, <1>2

(* What a prefix of a commit shows is what the commit shows.               *)
LEMMA CommitIsSound ==
  ASSUME CacheTypes, InStep, ~failed, NEW final \in BOOLEAN, final => emitted = chapter,
         NEW n \in 0..Len(Committed(final))
  PROVE  /\ SubSeq(Committed(final), 1, n) \in Seq(Cells)
         /\ Sound(SubSeq(Committed(final), 1, n), chapter)
<1> DEFINE whole == Committed(final)
           cut == SubSeq(whole, 1, n)
           count == Len(index)
           last == Len(stream)
<1>1. /\ whole \in Seq(Cells) /\ Len(whole) = last + count + 1
      /\ \A k \in 1..last : whole[k] = stream[k]
      /\ \A i \in 1..count : whole[last + i] = <<"index", index[i]>>
      /\ whole[last + count + 1] = <<"foot", final, last, count>>
  BY CommittedShape
<1>2. /\ last \in Nat /\ count \in Nat /\ count = emitted /\ count \in 0..chapter /\ chapter \in Nat
      /\ last = Start(count + 1)
  BY LenProperties DEF CacheTypes, InStep
<1>3. n \in 0..(last + count + 1) /\ n \in 0..Len(whole)
  BY <1>1
<1>4. cut \in Seq(Cells) /\ Len(cut) = n /\ \A k \in 1..n : cut[k] = whole[k]
  BY <1>1, <1>3, PrefixShape
<1>5. SUFFICES Sound(cut, chapter)
  BY <1>4
<1> HIDE DEF cut, whole, last, count
<1>6. CASE n <= last + count
  <2>1. ASSUME n > 1 PROVE cut[n][1] # "foot"
    <3>1. CASE n <= last
      <4>1. n \in 1..last /\ cut[n] = stream[n]
        BY <1>1, <1>2, <1>4, <2>1, <3>1
      <4> QED BY <4>1 DEF InStep, last
    <3>2. CASE n > last
      <4>1. n - last \in 1..count /\ last + (n - last) = n
        BY <1>2, <1>6, <3>2
      <4>2. cut[n] = <<"index", index[n - last]>>
        BY <1>1, <1>4, <2>1, <4>1
      <4> QED BY <4>2
    <3> QED BY <1>2, <3>1, <3>2
  <2> QED BY <1>2, <1>4, <2>1, NoFootIsSound
<1>7. CASE n = last + count + 1
  <2>1. cut[Len(cut)] = <<"foot", final, last, count>>
    BY <1>1, <1>2, <1>4, <1>7
  <2>2. ASSUME NEW i \in 1..count PROVE cut[last + i][2] = Start(i) /\ Shows(cut, i)
    <3>1. cut[last + i] = <<"index", index[i]>> /\ index[i] = Start(i)
      BY <1>1, <1>2, <1>4, <1>7 DEF InStep, count
    <3>2. Start(i) \in Nat /\ Start(i) + PageParts <= last /\ PageParts \in Nat
      <4>1. i \in Nat \ {0} /\ count + 1 \in Nat \ {0} /\ i < count + 1
        BY <1>2
      <4> QED BY <1>2, <4>1, PageStarts, StartsGrow
    <3>3. Shows(cut, i)
      <4> SUFFICES ASSUME NEW part \in 1..PageParts PROVE cut[Start(i) + part] = <<"page", i, part>>
        BY DEF Shows
      <4>1. Start(i) + part \in 1..last
        BY <1>2, <3>2
      <4>2. cut[Start(i) + part] = stream[Start(i) + part]
        BY <1>1, <1>2, <1>4, <1>7, <4>1
      <4>3. i \in Nat \ {0}
        BY <1>2
      <4> QED BY <4>1, <4>2, <4>3 DEF InStep, Shows, last
    <3> QED BY <3>1, <3>3
  <2>3. count \in 0..chapter /\ last = Start(count + 1) /\ (final => count = chapter)
    BY <1>2
  <2> QED BY <1>4, <2>1, <2>2, <2>3 DEF Sound
<1> QED BY <1>2, <1>3, <1>6, <1>7

LEMMA StreamIsSound ==
  ASSUME CacheTypes, InStep, NEW n \in 0..Len(stream)
  PROVE  SubSeq(stream, 1, n) \in Seq(Cells) /\ Sound(SubSeq(stream, 1, n), chapter)
<1> DEFINE cut == SubSeq(stream, 1, n)
<1>1. stream \in Seq(Cells) /\ chapter \in Nat
  BY DEF CacheTypes
<1>2. cut \in Seq(Cells) /\ Len(cut) = n /\ \A k \in 1..n : cut[k] = stream[k]
  BY <1>1, PrefixShape
<1> HIDE DEF cut
<1>3. Len(stream) \in Nat
  BY <1>1, LenProperties
<1>4. ASSUME n > 1 PROVE cut[n][1] # "foot"
  <2>1. n \in 1..Len(stream) /\ n \in 1..n
    BY <1>3, <1>4
  <2> QED BY <1>2, <2>1 DEF InStep
<1>5. Sound(cut, chapter)
  BY <1>1, <1>2, <1>4, NoFootIsSound
<1> QED BY <1>2, <1>5 DEF cut

LEMMA FirstCells ==
  /\ <<>> \in Seq(Cells) /\ Len(<<>>) = 0 /\ \A pages \in Nat : Sound(<<>>, pages)
  /\ <<Header>> \in Seq(Cells) /\ Len(<<Header>>) = 1 /\ <<Header>>[1] = Header
<1>1. <<>> \in Seq(Cells) /\ Len(<<>>) = 0
  OBVIOUS
<1>2. \A pages \in Nat : Sound(<<>>, pages)
  BY <1>1 DEF Sound, Opens
<1>3. <<Header>> \in Seq(Cells) /\ Len(<<Header>>) = 1 /\ <<Header>>[1] = Header
  BY CellTypes
<1> QED BY <1>1, <1>2, <1>3

-----------------------------------------------------------------------------
(* Every step keeps the invariant.  The stream of a new build is its       *)
(* header, which is before the first page; it takes the place of a file    *)
(* written in place.                                                       *)
LEMMA BeginKeeps == ASSUME CacheInv, BeginBuild PROVE CacheInv'
<1>1. CacheTypes /\ UNCHANGED settings /\ reader' = reader /\ ~open
      /\ index' = <<>> /\ lost' = {} /\ emitted' = 0 /\ session' \in {"parsing", "failed"}
  BY DEF CacheInv, BeginBuild
<1>2. /\ stream' \in Seq(Cells) /\ file' \in Seq(Cells) /\ file' \in {<<>>, file}
      /\ open' \in BOOLEAN /\ failed' \in BOOLEAN
  BY <1>1, FirstCells DEF BeginBuild, storageVars, CacheTypes
<1>3. CacheTypes'
  <2>1. index' \in Seq(Nat) /\ 0 \in 0..chapter
    BY <1>1 DEF CacheTypes
  <2> QED BY <1>1, <1>2, <2>1 DEF CacheTypes, settings
<1>4. ASSUME IndexKept' PROVE CacheHonest'
  <2>1. CacheHonest
    BY <1>1, <1>4 DEF CacheInv, IndexKept, settings
  <2>2. ASSUME open' = TRUE
        PROVE  /\ Len(stream') \in {0, 1} /\ (~failed' => Len(stream') = 1)
               /\ \A k \in 1..Len(stream') : stream'[k][1] # "foot"
    BY <2>2, FirstCells, CellTypes DEF BeginBuild
  <2>3. ASSUME open' = TRUE, NEW i \in Nat \ {0} PROVE Shows(stream', i)
    <3>1. PageParts \in Nat /\ Start(i) \in Nat \ {0}
      BY <2>3, PageStarts
    <3>2. Len(stream') \in {0, 1}
      BY <2>2, <2>3
    <3>3. ASSUME NEW part \in 1..PageParts PROVE ~(Start(i) + part <= Len(stream'))
      <4> DEFINE at == Start(i)
                 size == Len(stream')
      <4>1. at \in Nat \ {0} /\ part \in Nat \ {0} /\ (size = 0 \/ size = 1)
        BY <3>1, <3>2
      <4> HIDE DEF at, size
      <4>2. ~(at + part <= size)
        BY <4>1
      <4> QED BY <4>2 DEF at, size
    <3> QED BY <3>3 DEF Shows
  <2>4. ASSUME open' PROVE InStep'
    <3>1. open' = TRUE
      BY <1>2, <2>4
    <3>2. Len(index') = 0 /\ Start(Len(index') + 1) = 1
      BY <1>1, FirstCells, PageStarts
    <3>3. Len(stream') \in {0, 1} /\ (~failed' => Len(stream') = 1)
      BY <2>2, <3>1
    <3>4. \A i \in 1..Len(index') : index'[i] = Start(i)
      BY <3>2
    <3> QED BY <1>1, <2>2, <2>3, <3>1, <3>2, <3>3, <3>4 DEF InStep
  <2>5. Sound(file', chapter')
    BY <1>1, <1>2, <2>1, FirstCells DEF CacheHonest, CacheTypes, settings
  <2>6. ASSUME reader' # NoReader PROVE Fits(reader', OnDisk', chapter')
    <3>1. Fits(reader, file, chapter)
      BY <1>1, <2>1, <2>6 DEF CacheHonest, OnDisk
    <3>2. CASE OnDisk' = file
      BY <1>1, <3>1, <3>2 DEF settings
    <3>3. CASE open' = TRUE /\ OnDisk' = stream'
      <4>1. \A i \in 1..Len(reader.at) : Shows(stream', i)
        BY <2>3, <3>3
      <4> QED BY <1>1, <3>1, <3>3, <4>1 DEF Fits, settings
    <3>4. OnDisk' = file \/ (open' = TRUE /\ OnDisk' = stream')
      BY <1>1, <1>2 DEF OnDisk, BeginBuild, storageVars, settings, CacheTypes
    <3> QED BY <3>2, <3>3, <3>4
  <2> QED BY <1>1, <2>4, <2>5, <2>6 DEF CacheHonest
<1> QED BY <1>3, <1>4 DEF CacheInv

(* What a write of a page leaves of its blob.                              *)
LEMMA BlobCut ==
  ASSUME NEW i \in Nat, NEW cells \in Prefixes(Blob(i))
  PROVE  /\ cells \in Seq(Cells) /\ Len(cells) \in 0..PageParts
         /\ \A k \in 1..Len(cells) : cells[k] = <<"page", i, k>>
         /\ cells = Blob(i) => Len(cells) = PageParts
<1>1. PICK n \in 0..Len(Blob(i)) : cells = SubSeq(Blob(i), 1, n)
  BY DEF Prefixes
<1>2. /\ Blob(i) \in Seq(Cells) /\ Len(Blob(i)) = PageParts /\ PageParts \in Nat
      /\ \A k \in 1..PageParts : Blob(i)[k] = <<"page", i, k>>
  BY CellTypes, PageStarts
<1>3. cells \in Seq(Cells) /\ Len(cells) = n /\ \A k \in 1..n : cells[k] = Blob(i)[k]
  BY <1>1, <1>2, PrefixShape
<1>4. n \in 0..PageParts /\ \A k \in 1..n : k \in 1..PageParts
  BY <1>2
<1> QED BY <1>2, <1>3, <1>4

(* The stream after a page, or a part of one, was written behind it.       *)
LEMMA WrittenStaysInStep ==
  ASSUME CacheTypes, InStep, ~failed, NEW cells \in Prefixes(Blob(emitted + 1)),
         stream' = stream \o cells, index' = Append(index, Len(stream)), emitted' = emitted + 1,
         failed' = (cells # Blob(emitted + 1))
  PROVE  InStep'
<1> DEFINE i == emitted + 1
           last == Len(stream)
           n == Len(cells)
<1>1. /\ stream \in Seq(Cells) /\ last \in Nat /\ index \in Seq(Nat) /\ emitted \in Nat
      /\ i \in Nat \ {0} /\ Len(index) = emitted /\ last = Start(i)
  BY LenProperties DEF CacheTypes, InStep
<1>2. /\ cells \in Seq(Cells) /\ n \in 0..PageParts /\ PageParts \in Nat
      /\ \A k \in 1..n : cells[k] = <<"page", i, k>>
      /\ cells = Blob(i) => n = PageParts
  BY <1>1, BlobCut, PageStarts
<1>3. /\ Len(stream') = last + n
      /\ \A k \in 1..(last + n) : stream'[k] = IF k <= last THEN stream[k] ELSE cells[k - last]
  BY <1>1, <1>2, JoinShape
<1>4. Start(i + 1) = Start(i) + PageParts
  BY <1>1, PageStarts
<1>5. /\ Len(index') = i /\ \A j \in 1..Len(index) : index'[j] = index[j]
      /\ index'[i] = last
  BY <1>1, AppendProperties
<1>6. \A j \in 1..Len(index') : index'[j] = Start(j)
  <2> SUFFICES ASSUME NEW j \in 1..i PROVE index'[j] = Start(j)
    BY <1>5
  <2>1. CASE j = i
    BY <1>1, <1>5, <2>1
  <2>2. CASE j # i
    <3>1. j \in 1..Len(index)
      BY <1>1, <2>2
    <3> QED BY <1>5, <3>1 DEF InStep
  <2> QED BY <2>1, <2>2
<1>7. ASSUME NEW j \in Nat \ {0} PROVE Shows(stream', j)
  <2> SUFFICES ASSUME NEW part \in 1..PageParts, Start(j) + part <= Len(stream')
               PROVE  stream'[Start(j) + part] = <<"page", j, part>>
    BY DEF Shows
  <2> DEFINE k == Start(j) + part
  <2>1. Start(j) \in Nat \ {0} /\ Start(i) \in Nat \ {0}
    BY <1>1, <1>7, PageStarts
  <2>2. k \in 1..(last + n)
    BY <1>1, <1>2, <1>3, <2>1
  <2>3. CASE k <= last
    <3>1. stream'[k] = stream[k]
      BY <1>3, <2>2, <2>3
    <3> QED BY <2>3, <3>1 DEF InStep, Shows
  <2>4. CASE k > last
    <3>1. ~(j < i)
      <4>1. j < i => Start(j) + PageParts <= Start(i)
        BY <1>1, StartsGrow
      <4> QED BY <1>1, <1>2, <2>1, <2>4, <4>1
    <3>2. ~(i < j)
      <4>1. i < j => Start(i) + PageParts <= Start(j)
        BY <1>1, StartsGrow
      <4> QED BY <1>1, <1>2, <2>1, <2>2, <4>1
    <3>3. j = i
      BY <1>1, <3>1, <3>2
    <3>4. k - last = part /\ part \in 1..n /\ ~(k <= last)
      BY <1>1, <1>2, <2>1, <2>2, <2>4, <3>3
    <3>5. stream'[k] = cells[part]
      BY <1>3, <2>2, <3>4
    <3> QED BY <1>2, <3>3, <3>4, <3>5
  <2>5. k <= last \/ k > last
    BY <1>1, <2>2
  <2> QED BY ONLY <2>3, <2>4, <2>5
<1>8. ASSUME NEW k \in 1..Len(stream') PROVE stream'[k][1] # "foot"
  <2>1. k \in 1..(last + n)
    BY <1>3
  <2>2. CASE k <= last
    <3>1. stream'[k] = stream[k] /\ k \in 1..last
      BY <1>1, <1>3, <2>1, <2>2
    <3> QED BY <3>1 DEF InStep
  <2>3. CASE k > last
    <3>1. k - last \in 1..n /\ ~(k <= last)
      BY <1>1, <1>2, <2>1, <2>3
    <3>2. stream'[k] = <<"page", i, k - last>>
      BY <1>2, <1>3, <2>1, <3>1
    <3> QED BY <3>2
  <2> QED BY <1>1, <1>2, <2>1, <2>2, <2>3
<1>9. /\ Len(stream') <= Start(Len(index') + 1)
      /\ ~failed' => Len(stream') = Start(Len(index') + 1) /\ Len(index') = emitted'
  <2>1. Start(Len(index') + 1) = last + PageParts
    BY <1>1, <1>4, <1>5
  <2>2. ~failed' => n = PageParts
    BY <1>2
  <2>3. Len(stream') = last + n /\ Len(index') = emitted'
    BY <1>3, <1>5
  <2> HIDE DEF last, n
  <2> QED BY <1>1, <1>2, <2>1, <2>2, <2>3
<1> QED BY <1>6, <1>7, <1>8, <1>9 DEF InStep

(* A reader of a file that is written in place reads the new build's pages *)
(* where they are, and the old one's nowhere.                              *)
LEMMA StillFits ==
  ASSUME CacheTypes, CacheHonest, UNCHANGED <<settings, file, open, reader>>, open => InStep'
  PROVE  reader' # NoReader => Fits(reader', OnDisk', chapter')
<1> SUFFICES ASSUME reader # NoReader PROVE Fits(reader, OnDisk', chapter)
  BY DEF settings
<1>1. Fits(reader, OnDisk, chapter)
  BY DEF CacheHonest
<1>2. CASE open /\ inPlace
  <2>1. OnDisk' = stream'
    BY <1>2 DEF OnDisk, settings
  <2>2. \A i \in Nat \ {0} : Shows(stream', i)
    BY <1>2 DEF InStep
  <2>3. Len(reader.at) \in Nat
    BY <1>1 DEF Fits, CacheTypes
  <2>4. \A i \in 1..Len(reader.at) : Shows(stream', i)
    BY <2>2, <2>3
  <2> QED BY <1>1, <2>1, <2>4 DEF Fits
<1>3. CASE ~(open /\ inPlace)
  BY <1>1, <1>3 DEF OnDisk, settings
<1> QED BY <1>2, <1>3

LEMMA EmitKeeps == ASSUME CacheInv, EmitPage PROVE CacheInv'
<1>1. /\ CacheTypes /\ UNCHANGED <<settings, file, open, reader>>
      /\ session = "parsing" /\ emitted < chapter /\ emitted' = emitted + 1
      /\ session' = IF failed' THEN "done" ELSE "parsing"
  BY DEF CacheInv, EmitPage
<1>2. \/ PageRefused(emitted + 1)
      \/ \E picture \in {FALSE, pictures}, cells \in Prefixes(Blob(emitted + 1)) :
           Recorded(emitted + 1, picture) /\ Written(emitted + 1, cells)
  BY DEF EmitPage
<1>3. /\ emitted + 1 \in 0..chapter /\ emitted + 1 \in Nat /\ stream \in Seq(Cells) /\ index \in Seq(Nat)
      /\ Len(stream) \in Nat
  BY <1>1, LenProperties DEF CacheTypes
<1>4. CASE PageRefused(emitted + 1)
  <2>1. failed' = TRUE /\ stream' = stream /\ index' = index /\ lost' = lost
    BY <1>4 DEF PageRefused
  <2>2. CacheTypes'
    BY <1>1, <1>3, <2>1 DEF CacheTypes, settings
  <2>3. ASSUME IndexKept' PROVE CacheHonest'
    <3>1. CacheHonest
      BY <1>1, <2>3 DEF CacheInv, IndexKept, settings
    <3>2. open => InStep'
      BY <2>1, <3>1 DEF CacheHonest, InStep
    <3>3. reader' # NoReader => Fits(reader', OnDisk', chapter')
      BY <1>1, <3>1, <3>2, StillFits
    <3> QED BY <1>1, <2>1, <3>1, <3>2, <3>3 DEF CacheHonest, settings
  <2> QED BY <2>2, <2>3 DEF CacheInv
<1>5. ASSUME NEW picture \in {FALSE, pictures}, NEW cells \in Prefixes(Blob(emitted + 1)),
             Recorded(emitted + 1, picture), Written(emitted + 1, cells)
      PROVE  CacheInv'
  <2>1. /\ ~failed /\ index' = Append(index, Len(stream)) /\ stream' = stream \o cells
        /\ failed' = (cells # Blob(emitted + 1))
        /\ (shared /\ picture) \/ lost' = lost
    BY <1>5 DEF Recorded, Written, Refuses
  <2>2. cells \in Seq(Cells)
    BY <1>3, BlobCut
  <2>3. stream' \in Seq(Cells) /\ index' \in Seq(Nat)
    BY <1>3, <2>1, <2>2, JoinShape, AppendProperties
  <2>4. failed' \in BOOLEAN /\ session' \in {"done", "parsing"}
    BY <1>1, <2>1
  <2>5. CacheTypes'
    BY <1>1, <1>3, <2>3, <2>4 DEF CacheTypes, settings
  <2>6. ASSUME IndexKept' PROVE CacheHonest'
    <3>1. CacheHonest /\ ~(shared /\ pictures)
      BY <1>1, <2>6 DEF CacheInv, IndexKept, settings
    <3>2. lost' = {}
      BY <2>1, <3>1 DEF CacheHonest
    <3>3. open => InStep'
      BY <1>1, <2>1, <3>1, WrittenStaysInStep DEF CacheHonest
    <3>4. reader' # NoReader => Fits(reader', OnDisk', chapter')
      BY <1>1, <3>1, <3>3, StillFits
    <3>5. ~failed' => session' # "done"
      BY <1>1
    <3> QED BY <1>1, <3>1, <3>2, <3>3, <3>4, <3>5 DEF CacheHonest, settings
  <2> QED BY <2>5, <2>6 DEF CacheInv
<1> QED BY <1>2, <1>4, <1>5

LEMMA ParseEndKeeps == ASSUME CacheInv, ParseEnds PROVE CacheInv'
<1>1. /\ CacheTypes /\ UNCHANGED <<chapter, pictures, inPlace, shared, file, stream, open, failed, index, lost, emitted, reader>>
      /\ session' \in {"failed"} \cup (IF emitted = chapter THEN {"done"} ELSE {})
  BY DEF CacheInv, ParseEnds, settings, storageVars, writerVars
<1>2. CacheTypes'
  BY <1>1 DEF CacheTypes
<1>3. ASSUME IndexKept' PROVE CacheHonest'
  <2>1. CacheHonest
    BY <1>1, <1>3 DEF CacheInv, IndexKept
  <2>2. InStep' <=> InStep
    BY <1>1 DEF InStep
  <2>3. OnDisk' = OnDisk
    BY <1>1 DEF OnDisk
  <2> QED BY <1>1, <2>1, <2>2, <2>3 DEF CacheHonest
<1> QED BY <1>2, <1>3 DEF CacheInv

LEMMA ResolvedKeeps == ASSUME CacheInv, PathResolved PROVE CacheInv'
<1>1. PICK i \in lost \cap DOMAIN index : index' = [index EXCEPT ![i] = 0]
  BY DEF PathResolved
<1>2. /\ CacheTypes
      /\ UNCHANGED <<chapter, pictures, inPlace, shared, file, stream, open, failed, lost, session, emitted, reader>>
  BY DEF CacheInv, PathResolved, settings, storageVars
<1>3. CacheTypes'
  <2>1. index \in Seq(Nat) /\ i \in 1..Len(index)
    BY <1>1, <1>2, LenProperties DEF CacheTypes
  <2>2. index' \in Seq(Nat)
    BY <1>1, <2>1, ExceptSeq
  <2> QED BY <1>2, <2>2 DEF CacheTypes
<1>4. ~IndexKept'
  BY <1>1, <1>2 DEF CacheInv, CacheHonest, IndexKept
<1> QED BY <1>3, <1>4 DEF CacheInv

(* What is left under the chapter's name when the stream is ended.         *)
LEMMA PrefixOfCommit ==
  ASSUME CacheInv, open, NEW final \in BOOLEAN, final => session = "done",
         NEW n \in 0..Len(Committed(final)), ~failed
  PROVE  /\ SubSeq(Committed(final), 1, n) \in Seq(Cells)
         /\ IndexKept => Sound(SubSeq(Committed(final), 1, n), chapter)
<1>1. SubSeq(Committed(final), 1, n) \in Seq(Cells)
  BY CommittedShape, PrefixShape DEF CacheInv
<1>2. ASSUME IndexKept PROVE Sound(SubSeq(Committed(final), 1, n), chapter)
  <2>1. CacheTypes /\ InStep /\ (final => emitted = chapter)
    BY <1>2 DEF CacheInv, CacheHonest
  <2> QED BY <2>1, CommitIsSound
<1> QED BY <1>1, <1>2

LEMMA WholeIsPrefix ==
  ASSUME NEW cells \in Seq(Cells)
  PROVE  Len(cells) \in 0..Len(cells) /\ SubSeq(cells, 1, Len(cells)) = cells
<1>1. Len(cells) \in Nat /\ Len(cells) \in 0..Len(cells)
  BY LenProperties
<1>2. /\ SubSeq(cells, 1, Len(cells)) \in Seq(Cells) /\ Len(SubSeq(cells, 1, Len(cells))) = Len(cells)
      /\ \A k \in 1..Len(cells) : SubSeq(cells, 1, Len(cells))[k] = cells[k]
  BY <1>1, PrefixShape
<1> QED BY <1>1, <1>2, SeqEqual

LEMMA ClosedIsSound ==
  ASSUME CacheInv, NEW final \in BOOLEAN, final => session = "done", Closed(final)
  PROVE  file' \in Seq(Cells) /\ failed' \in BOOLEAN /\ (IndexKept => Sound(file', chapter))
<1>1. /\ CacheTypes /\ chapter \in Nat /\ file \in Seq(Cells) /\ stream \in Seq(Cells)
      /\ Len(stream) \in Nat /\ Len(index) \in Nat /\ failed \in BOOLEAN
  BY LenProperties DEF CacheInv, CacheTypes
<1>2. ASSUME IndexKept PROVE Sound(file, chapter) /\ (open => Sound(stream, chapter))
  <2>1. Sound(file, chapter) /\ (open => InStep)
    BY <1>2 DEF CacheInv, CacheHonest
  <2>2. Len(stream) \in 0..Len(stream) /\ SubSeq(stream, 1, Len(stream)) = stream
    BY <1>1, WholeIsPrefix
  <2>3. InStep => Sound(SubSeq(stream, 1, Len(stream)), chapter)
    BY <1>1, <2>2, StreamIsSound
  <2> QED BY <2>1, <2>2, <2>3
<1>3. CASE failed \/ ~open
  <2>1. (failed' = failed /\ file' \in {<<>>, file}) \/ (open /\ file' = stream /\ failed' = failed)
    BY <1>3 DEF Closed, RemovedFrom
  <2> QED BY <1>1, <1>2, <2>1, FirstCells
<1>4. CASE ~failed /\ open
  <2> DEFINE whole == Committed(final)
  <2>1. whole \in Seq(Cells) /\ Len(whole) = Len(stream) + Len(index) + 1
    BY <1>1, CommittedShape
  <2>2. ASSUME NEW n \in 0..Len(whole)
        PROVE  SubSeq(whole, 1, n) \in Seq(Cells) /\ (IndexKept => Sound(SubSeq(whole, 1, n), chapter))
    BY <1>4, PrefixOfCommit
  <2>3. /\ failed' \in BOOLEAN
        /\ \/ file' = whole
           \/ \E n \in Len(stream)..Len(whole) : file' \in {<<>>, file, SubSeq(whole, 1, n)}
    BY <1>1, <1>4 DEF Closed, RemovedFrom
  <2> HIDE DEF whole
  <2>4. CASE file' = whole
    <3>1. Len(whole) \in 0..Len(whole) /\ SubSeq(whole, 1, Len(whole)) = whole
      BY <2>1, WholeIsPrefix
    <3>2. IndexKept => Sound(SubSeq(whole, 1, Len(whole)), chapter)
      BY <2>2, <3>1
    <3> QED BY <2>1, <2>3, <2>4, <3>1, <3>2
  <2>5. ASSUME NEW n \in Len(stream)..Len(whole), file' \in {<<>>, file, SubSeq(whole, 1, n)}
        PROVE  file' \in Seq(Cells) /\ (IndexKept => Sound(file', chapter))
    <3>1. n \in 0..Len(whole)
      BY <1>1, <2>1
    <3> QED BY <1>1, <1>2, <2>2, <2>5, <3>1, FirstCells
  <2> QED BY <2>3, <2>4, <2>5
<1> QED BY <1>3, <1>4

(* With the file, all that a session keeps goes.                           *)
LEMMA ForgottenKeeps ==
  ASSUME CacheInv, file' \in Seq(Cells), failed' \in BOOLEAN, IndexKept => Sound(file', chapter),
         open' = FALSE, session' = "idle", Forgotten, UNCHANGED settings,
         reader' = NoReader \/ (reader' = reader /\ OnDisk' = OnDisk)
  PROVE  CacheInv'
<1>1. /\ UNCHANGED <<chapter, pictures, inPlace, shared>>
      /\ stream' = <<>> /\ index' = <<>> /\ lost' = {} /\ emitted' = 0
  BY DEF Forgotten, settings
<1>2. CacheTypes'
  <2>1. index' \in Seq(Nat) /\ stream' \in Seq(Cells) /\ emitted' \in 0..chapter'
    BY <1>1, FirstCells DEF CacheInv, CacheTypes
  <2> QED BY <1>1, <2>1 DEF CacheInv, CacheTypes
<1>3. ASSUME IndexKept' PROVE CacheHonest'
  <2>1. CacheHonest /\ IndexKept
    BY <1>1, <1>3 DEF CacheInv, IndexKept
  <2>2. reader' # NoReader => Fits(reader', OnDisk', chapter')
    BY <1>1, <2>1 DEF CacheHonest
  <2> QED BY <1>1, <2>1, <2>2 DEF CacheHonest
<1> QED BY <1>2, <1>3 DEF CacheInv

LEMMA CloseKeeps == ASSUME CacheInv, Finish \/ Suspend PROVE CacheInv'
<1>1. PICK final \in BOOLEAN : (final => session = "done") /\ CloseBuild(final)
  BY DEF Finish, Suspend
<1>2. file' \in Seq(Cells) /\ failed' \in BOOLEAN /\ (IndexKept => Sound(file', chapter))
  BY <1>1, ClosedIsSound DEF CloseBuild
<1> QED BY <1>1, <1>2, ForgottenKeeps DEF CloseBuild

(* A build that is given up leaves what it wrote, which has no footer.     *)
LEMMA OnDiskIsSound == ASSUME CacheInv PROVE OnDisk \in Seq(Cells) /\ (IndexKept => Sound(OnDisk, chapter))
<1>1. CacheTypes /\ file \in Seq(Cells) /\ stream \in Seq(Cells)
  BY DEF CacheInv, CacheTypes
<1>2. Len(stream) \in 0..Len(stream) /\ SubSeq(stream, 1, Len(stream)) = stream
  BY <1>1, WholeIsPrefix
<1>3. InStep => Sound(stream, chapter)
  BY <1>1, <1>2, StreamIsSound
<1> QED BY <1>1, <1>3 DEF CacheInv, CacheHonest, OnDisk

LEMMA AbandonKeeps == ASSUME CacheInv, Abandon PROVE CacheInv'
<1>1. /\ open' = FALSE /\ session' = "idle" /\ file' = OnDisk /\ Forgotten
      /\ UNCHANGED settings /\ failed' = failed /\ reader' = reader
  BY DEF Abandon
<1>2. file' \in Seq(Cells) /\ (IndexKept => Sound(file', chapter))
  BY <1>1, OnDiskIsSound
<1>3. failed' \in BOOLEAN /\ OnDisk' = OnDisk
  <2>1. OnDisk' = file'
    BY <1>1 DEF OnDisk
  <2> QED BY <1>1, <2>1 DEF CacheInv, CacheTypes
<1> QED BY <1>1, <1>2, <1>3, ForgottenKeeps

LEMMA PowerKeeps == ASSUME CacheInv, PowerLost PROVE CacheInv'
<1>1. /\ open' = FALSE /\ failed' = FALSE /\ session' = "idle" /\ reader' = NoReader
      /\ Forgotten /\ UNCHANGED settings
      /\ file' \in IF ~(open /\ inPlace) THEN {file}
                   ELSE Prefixes(stream) \cup (IF failed THEN {} ELSE Prefixes(Committed(session = "done")))
  BY DEF PowerLost
<1>2. file' \in Seq(Cells) /\ (IndexKept => Sound(file', chapter))
  <2>1. CASE file' = file
    BY <2>1 DEF CacheInv, CacheTypes, CacheHonest
  <2>2. CASE open /\ file' \in Prefixes(stream)
    <3>1. PICK n \in 0..Len(stream) : file' = SubSeq(stream, 1, n)
      BY <2>2 DEF Prefixes
    <3>2. CacheTypes /\ stream \in Seq(Cells)
      BY DEF CacheInv, CacheTypes
    <3>3. file' \in Seq(Cells)
      BY <3>1, <3>2, PrefixShape
    <3>4. InStep => Sound(file', chapter)
      BY <3>1, <3>2, StreamIsSound
    <3> QED BY <2>2, <3>3, <3>4 DEF CacheInv, CacheHonest
  <2>3. CASE open /\ ~failed /\ file' \in Prefixes(Committed(session = "done"))
    <3> DEFINE final == session = "done"
    <3>1. PICK n \in 0..Len(Committed(final)) : file' = SubSeq(Committed(final), 1, n)
      BY <2>3 DEF Prefixes
    <3>2. final \in BOOLEAN /\ (final => session = "done")
      OBVIOUS
    <3> HIDE DEF final
    <3> QED BY <2>3, <3>1, <3>2, PrefixOfCommit
  <2> QED BY <1>1, <2>1, <2>2, <2>3
<1> QED BY <1>1, <1>2, ForgottenKeeps

(* What a reader finds in a file that opens.                               *)
LEMMA OpenedFits ==
  ASSUME NEW cells \in Seq(Cells), NEW pages \in Nat, Sound(cells, pages), Opens(cells)
  PROVE  LET r == Opened(cells)
         IN /\ Fits(r, cells, pages) /\ r.end <= Len(cells)
            /\ r.final => Len(r.at) = pages
<1> DEFINE foot == cells[Len(cells)]
           r == Opened(cells)
<1>1. /\ foot[4] \in 0..pages /\ foot[3] = Start(foot[4] + 1)
      /\ \A i \in 1..foot[4] : cells[foot[3] + i][2] = Start(i) /\ Shows(cells, i)
      /\ foot[2] => foot[4] = pages
      /\ foot[3] + foot[4] + 1 = Len(cells)
  BY DEF Sound, Opens
<1>2. r.at = [i \in 1..foot[4] |-> cells[foot[3] + i][2]] /\ r.end = foot[3] /\ r.final = foot[2]
  BY DEF Opened
<1> HIDE DEF foot, r
<1>3. foot[4] \in Nat /\ \A i \in 1..foot[4] : i \in Nat \ {0} /\ Start(i) \in Nat
  <2>1. foot[4] \in Nat /\ \A i \in 1..foot[4] : i \in Nat \ {0}
    BY <1>1
  <2>2. \A i \in Nat \ {0} : Start(i) \in Nat
    BY PageStarts
  <2> QED BY <2>1, <2>2
<1>4. /\ r.at \in [1..foot[4] -> Nat]
      /\ \A i \in 1..foot[4] : r.at[i] = Start(i)
  BY <1>1, <1>2, <1>3
<1>5. r.at \in Seq(Nat) /\ Len(r.at) = foot[4]
  <2> DEFINE count == foot[4]
             starts == r.at
  <2>1. count \in Nat /\ starts \in [1..count -> Nat]
    BY <1>3, <1>4
  <2> HIDE DEF count, starts
  <2>2. starts \in Seq(Nat) /\ Len(starts) = count
    BY <2>1, IsSequence
  <2> QED BY <2>2 DEF count, starts
<1>6. r.end <= Len(cells)
  <2> DEFINE after == foot[4] + 1
  <2>1. after \in Nat \ {0}
    BY <1>3
  <2> HIDE DEF after
  <2>2. Start(after) \in Nat
    BY <2>1, PageStarts
  <2> USE DEF after
  <2> QED BY <1>1, <1>2, <1>3, <2>2
<1> QED BY <1>1, <1>2, <1>4, <1>5, <1>6 DEF Fits, r

LEMMA OpenKeeps == ASSUME CacheInv, OpenReader PROVE CacheInv'
<1>1. /\ Opens(OnDisk) /\ reader' = Opened(OnDisk)
      /\ UNCHANGED <<chapter, pictures, inPlace, shared, file, stream, open, failed, index, lost, session, emitted>>
  BY DEF OpenReader, settings, storageVars, writerVars
<1>2. CacheTypes'
  BY <1>1 DEF CacheInv, CacheTypes
<1>3. ASSUME IndexKept' PROVE CacheHonest'
  <2>1. CacheTypes /\ CacheHonest /\ OnDisk \in Seq(Cells) /\ Sound(OnDisk, chapter) /\ chapter \in Nat
    BY <1>1, <1>3, OnDiskIsSound DEF CacheInv, IndexKept, CacheTypes
  <2>2. Fits(Opened(OnDisk), OnDisk, chapter)
    BY <1>1, <2>1, OpenedFits
  <2>3. OnDisk' = OnDisk /\ (InStep' <=> InStep)
    BY <1>1 DEF OnDisk, InStep
  <2> QED BY <1>1, <2>1, <2>2, <2>3 DEF CacheHonest
<1> QED BY <1>2, <1>3 DEF CacheInv

-----------------------------------------------------------------------------
LEMMA CacheStarts == CacheInit => CacheInv
<1> SUFFICES ASSUME CacheInit PROVE CacheInv
  OBVIOUS
<1>1. CacheTypes
  <2>1. chapter \in Nat \ {0} /\ 0 \in 0..chapter /\ index \in Seq(Nat)
    BY CacheAssumption DEF CacheInit
  <2> QED BY <2>1, FirstCells DEF CacheInit, CacheTypes
<1>2. CacheHonest
  BY <1>1, FirstCells DEF CacheInit, CacheHonest, CacheTypes
<1> QED BY <1>1, <1>2 DEF CacheInv

LEMMA CacheSteps == CacheInv /\ [CacheNext]_cacheVars => CacheInv'
<1> SUFFICES ASSUME CacheInv, [CacheNext]_cacheVars PROVE CacheInv'
  OBVIOUS
<1>1. CASE CacheNext
  BY <1>1, BeginKeeps, EmitKeeps, ParseEndKeeps, ResolvedKeeps, CloseKeeps, AbandonKeeps, OpenKeeps, PowerKeeps
     DEF CacheNext
<1>2. CASE UNCHANGED cacheVars
  <2>1. UNCHANGED <<chapter, pictures, inPlace, shared, file, stream, open, failed, index, lost, session, emitted, reader>>
    BY <1>2 DEF cacheVars, settings, storageVars, writerVars
  <2> QED BY <2>1 DEF CacheInv, CacheTypes, CacheHonest, IndexKept, InStep, OnDisk
<1> QED BY <1>1, <1>2

(* A reader whose index says where the pages are gets page i or an error.  *)
LEMMA FittingReads ==
  ASSUME NEW cells \in Seq(Cells), NEW r, chapter \in Nat, Fits(r, cells, chapter), NEW i \in DOMAIN r.at
  PROVE  /\ PageOf(r, cells, i) \subseteq {i}
         /\ r.end <= Len(cells) => PageOf(r, cells, i) = {i}
<1>1. /\ Len(r.at) \in Nat /\ Len(r.at) \in 0..chapter /\ i \in 1..Len(r.at) /\ i \in 1..chapter
      /\ i \in Nat \ {0}
  BY LenProperties DEF Fits
<1>2. r.at[i] = Start(i) /\ Shows(cells, i)
  BY <1>1 DEF Fits
<1>3. (IF i < Len(r.at) THEN r.at[i + 1] ELSE r.end) = Start(i + 1)
  <2>1. CASE i < Len(r.at)
    <3>1. i + 1 \in 1..Len(r.at)
      BY <1>1, <2>1
    <3> QED BY <2>1, <3>1 DEF Fits
  <2>2. CASE i = Len(r.at)
    BY <2>2 DEF Fits
  <2> QED BY <1>1, <2>1, <2>2
<1>4. PageOf(r, cells, i) = Decoded(cells, Start(i), Start(i + 1))
  BY <1>2, <1>3 DEF PageOf
<1>5. r.end <= Len(cells) => Len(cells) >= Start(i + 1)
  <2>1. CASE i = Len(r.at)
    BY <2>1 DEF Fits
  <2>2. CASE i < Len(r.at)
    <3> DEFINE after == i + 1
               past == Len(r.at) + 1
    <3>1. after \in Nat \ {0} /\ past \in Nat \ {0} /\ after < past
      BY <1>1, <2>2
    <3>2. Len(cells) \in Nat /\ r.end = Start(past)
      BY LenProperties DEF Fits
    <3> HIDE DEF after, past
    <3>3. Start(after) + PageParts <= Start(past)
      BY <3>1, StartsGrow
    <3>4. Start(after) \in Nat /\ Start(past) \in Nat /\ PageParts \in Nat
      BY <3>1, PageStarts
    <3>5. r.end <= Len(cells) => Len(cells) >= Start(after)
      BY <3>2, <3>3, <3>4
    <3> QED BY <3>5 DEF after
  <2> QED BY <1>1, <2>1, <2>2
<1> QED BY <1>1, <1>2, <1>4, <1>5, DecodesAs

LEMMA HonestIsTrue == CacheInv => CacheIsTrue
<1> SUFFICES ASSUME CacheInv, IndexKept
             PROVE  /\ Opens(OnDisk) =>
                          LET r == Opened(OnDisk)
                          IN /\ \A i \in DOMAIN r.at : PageOf(r, OnDisk, i) = {i}
                             /\ r.final => Len(r.at) = chapter
                    /\ reader # NoReader => \A i \in DOMAIN reader.at : PageOf(reader, OnDisk, i) \subseteq {i}
                    /\ open /\ ~failed => \A i \in DOMAIN index : PageBuilt(i) = {i}
  BY DEF CacheIsTrue, IndexKept
<1>1. CacheTypes /\ CacheHonest /\ OnDisk \in Seq(Cells) /\ Sound(OnDisk, chapter) /\ chapter \in Nat
  BY OnDiskIsSound DEF CacheInv, CacheTypes
<1>2. ASSUME Opens(OnDisk)
      PROVE  LET r == Opened(OnDisk)
             IN /\ \A i \in DOMAIN r.at : PageOf(r, OnDisk, i) = {i}
                /\ r.final => Len(r.at) = chapter
  <2> DEFINE r == Opened(OnDisk)
  <2>1. Fits(r, OnDisk, chapter) /\ r.end <= Len(OnDisk) /\ (r.final => Len(r.at) = chapter)
    BY <1>1, <1>2, OpenedFits
  <2> HIDE DEF r
  <2>2. \A i \in DOMAIN r.at : PageOf(r, OnDisk, i) = {i}
    BY <1>1, <2>1, FittingReads
  <2> QED BY <2>1, <2>2 DEF r
<1>3. ASSUME reader # NoReader, NEW i \in DOMAIN reader.at PROVE PageOf(reader, OnDisk, i) \subseteq {i}
  BY <1>1, <1>3, FittingReads DEF CacheHonest
<1>4. ASSUME open, ~failed, NEW i \in DOMAIN index PROVE PageBuilt(i) = {i}
  <2> DEFINE r == [at |-> index, end |-> Len(stream)]
  <2>1. InStep /\ stream \in Seq(Cells) /\ index \in Seq(Nat) /\ Len(index) = emitted /\ emitted \in 0..chapter
    BY <1>1, <1>4 DEF CacheHonest, CacheTypes, InStep
  <2>2. Fits(r, stream, chapter)
    <3>1. \A j \in 1..Len(index) : index[j] = Start(j) /\ Shows(stream, j)
      BY <1>1, <2>1 DEF InStep
    <3>2. Len(stream) = Start(Len(index) + 1)
      BY <1>4, <2>1 DEF InStep
    <3> QED BY <2>1, <3>1, <3>2 DEF Fits
  <2>3. PageOf(r, stream, i) = PageBuilt(i)
    BY DEF PageOf, PageBuilt
  <2>4. r.end <= Len(stream)
    BY <2>1, LenProperties
  <2>5. i \in DOMAIN r.at
    BY <1>4
  <2> HIDE DEF r
  <2> QED BY <1>1, <2>1, <2>2, <2>3, <2>4, <2>5, FittingReads
<1> QED BY <1>2, <1>3, <1>4

(* Whatever opens, at any moment of any build, serves its pages: for every *)
(* length of chapter and page, every size of the index's chunks and every  *)
(* cap, and wherever a write fails or the power goes.                      *)
THEOREM PagesInPlace == CacheSpec => []CacheIsTrue
<1>1. CacheInit => CacheInv
  BY CacheStarts
<1>2. CacheInv /\ [CacheNext]_cacheVars => CacheInv'
  BY CacheSteps
<1>3. CacheInv => CacheIsTrue
  BY HonestIsTrue
<1> QED BY <1>1, <1>2, <1>3, PTL DEF CacheSpec

-----------------------------------------------------------------------------
(* The bounds of the page cache, which hold whatever becomes of the index: *)
(* the writer has no more offsets than pages and no more pages than the    *)
(* chapter, and what opens carries an index where its footer says.         *)
Indexed(cells) ==
  Opens(cells) => \A i \in 1..cells[Len(cells)][4] : cells[cells[Len(cells)][3] + i][1] = "index"
ReaderTyped == reader = NoReader \/ reader \in [at : Seq(Offset), end : Offset, final : BOOLEAN]
Bounds ==
  /\ chapter \in Chapters
  /\ stream \in Seq(PageCell) /\ Len(stream) <= Start(emitted + 1)
  /\ index \in Seq(Offset) /\ Len(index) <= emitted
  /\ lost \subseteq 1..chapter
  /\ session = "idle" => emitted = 0
  /\ file \in Seq(Cell) /\ Indexed(file)
  /\ ReaderTyped
BoundedInv == CacheInv /\ Bounds

(* The numbers: pages before the last leave their offsets in range.        *)
LEMMA OffsetRange ==
  ASSUME CacheTypes, NEW n \in Nat, n <= Start(emitted + 1)
  PROVE  /\ n \in Offset
         /\ emitted < chapter => Start(emitted + 1) + PageParts <= Start(chapter + 1)
<1>1. emitted \in Nat /\ chapter \in Nat /\ emitted <= chapter /\ PageParts \in Nat
  BY CacheAssumption DEF CacheTypes
<1>2. emitted + 1 \in Nat \ {0} /\ chapter + 1 \in Nat \ {0}
  BY <1>1
<1>3. emitted < chapter => Start(emitted + 1) + PageParts <= Start(chapter + 1)
  BY <1>1, <1>2, StartsGrow
<1>4. Start(emitted + 1) \in Nat /\ Start(chapter + 1) \in Nat
  BY <1>2, PageStarts
<1>5. Start(emitted + 1) <= Start(chapter + 1)
  <2>1. CASE emitted < chapter
    BY <1>1, <1>3, <1>4, <2>1
  <2>2. CASE emitted = chapter
    BY <1>4, <2>2
  <2> QED BY <1>1, <2>1, <2>2
<1>6. Start(chapter + 1) = 1 + chapter * PageParts /\ chapter * PageParts \in Nat
  <2>1. (chapter + 1) - 1 = chapter
    BY <1>1
  <2> QED BY <1>1, <2>1 DEF Start
<1>7. n <= 1 + chapter * PageParts
  BY <1>4, <1>5, <1>6
<1> QED BY <1>3, <1>6, <1>7 DEF Offset

(* The cells of a chapter with that many pages.                            *)
LEMMA BoundedCells ==
  ASSUME CacheTypes
  PROVE  /\ PageCell \subseteq Cell /\ Header \in PageCell
         /\ \A c \in PageCell : c[1] # "foot" /\ c[1] # "index"
         /\ \A at \in Offset : <<"index", at>> \in Cell
         /\ \A final \in BOOLEAN, at \in Offset, count \in 0..chapter : Foot(final, at, count) \in Cell
         /\ \A c \in Cell : c[1] = "index" => c[2] \in Offset
         /\ \A c \in Cell : c[1] = "foot" => c[2] \in BOOLEAN /\ c[3] \in Offset /\ c[4] \in 0..chapter
<1>1. PageCell \subseteq Cell /\ Header \in PageCell
  BY DEF Cell, PageCell
<1>2. ASSUME NEW c \in PageCell PROVE c[1] # "foot" /\ c[1] # "index"
  <2>1. CASE c = Header
    BY <2>1 DEF Header
  <2>2. CASE c \in {"page"} \X (1..chapter) \X (1..PageParts)
    BY <2>2
  <2> QED BY <2>1, <2>2 DEF PageCell
<1>3. \A at \in Offset : <<"index", at>> \in Cell
  BY DEF Cell
<1>4. \A final \in BOOLEAN, at \in Offset, count \in 0..chapter : Foot(final, at, count) \in Cell
  BY DEF Cell, Foot
<1>5. ASSUME NEW c \in Cell
      PROVE  /\ c[1] = "index" => c[2] \in Offset
             /\ c[1] = "foot" => c[2] \in BOOLEAN /\ c[3] \in Offset /\ c[4] \in 0..chapter
  <2>1. CASE c \in PageCell
    BY <1>2, <2>1
  <2>2. CASE c \in {"index"} \X Offset
    BY <2>2
  <2>3. CASE c \in {"foot"} \X BOOLEAN \X Offset \X (0..chapter)
    BY <2>3
  <2> QED BY <2>1, <2>2, <2>3 DEF Cell
<1> QED BY <1>1, <1>2, <1>3, <1>4, <1>5

(* What the writer wrote does not open; nor does a part of it.             *)
LEMMA StreamIsIndexed ==
  ASSUME BoundedInv, NEW n \in 0..Len(stream)
  PROVE  SubSeq(stream, 1, n) \in Seq(Cell) /\ Indexed(SubSeq(stream, 1, n))
<1> DEFINE cut == SubSeq(stream, 1, n)
<1>1. /\ CacheTypes /\ stream \in Seq(PageCell) /\ stream \in Seq(Cells) /\ Len(stream) \in Nat
      /\ \A k \in 1..Len(stream) : stream[k] \in PageCell
  BY LenProperties, ElementOfSeq DEF BoundedInv, Bounds, CacheInv, CacheTypes
<1>2. Len(cut) = n /\ \A k \in 1..n : cut[k] = stream[k]
  BY <1>1, PrefixShape
<1>3. cut \in Seq(Cell)
  <2>1. \A k \in 1..n : stream[k] \in Cell
    BY <1>1, BoundedCells
  <2>2. n \in Int /\ 1 \in Int
    OBVIOUS
  <2> QED BY <2>1, <2>2, SubSeqProperties
<1> HIDE DEF cut
<1>4. ASSUME n > 1 PROVE cut[n][1] # "foot"
  BY <1>1, <1>2, <1>4, BoundedCells
<1>5. Indexed(cut)
  BY <1>2, <1>4 DEF Indexed, Opens
<1> QED BY <1>3, <1>5 DEF cut

(* Of a commit only the whole opens, and that has the writer's index.      *)
LEMMA CommitIsIndexed ==
  ASSUME BoundedInv, NEW final \in BOOLEAN, NEW n \in 0..Len(Committed(final))
  PROVE  SubSeq(Committed(final), 1, n) \in Seq(Cell) /\ Indexed(SubSeq(Committed(final), 1, n))
<1> DEFINE whole == Committed(final)
           cut == SubSeq(whole, 1, n)
           last == Len(stream)
           count == Len(index)
<1>1. /\ CacheTypes /\ chapter \in Nat /\ emitted \in 0..chapter
      /\ stream \in Seq(PageCell) /\ last \in Nat /\ last <= Start(emitted + 1)
      /\ index \in Seq(Offset) /\ count \in Nat /\ count <= emitted
      /\ \A k \in 1..last : stream[k] \in PageCell
      /\ \A i \in 1..count : index[i] \in Offset
  BY LenProperties, ElementOfSeq DEF BoundedInv, Bounds, CacheInv, CacheTypes
<1>2. /\ whole \in Seq(Cells) /\ Len(whole) = last + count + 1
      /\ \A k \in 1..last : whole[k] = stream[k]
      /\ \A i \in 1..count : whole[last + i] = <<"index", index[i]>>
      /\ whole[last + count + 1] = <<"foot", final, last, count>>
  BY <1>1, CommittedShape
<1>3. last \in Offset /\ count \in 0..chapter
  BY <1>1, OffsetRange
<1>4. n \in 0..Len(whole)
  OBVIOUS
<1> HIDE DEF whole, last, count
<1>5. ASSUME NEW k \in 1..(last + count + 1)
      PROVE  /\ whole[k] \in Cell
             /\ k <= last + count => whole[k][1] # "foot"
  <2>1. CASE k <= last
    <3>1. k \in 1..last
      BY <1>1, <2>1
    <3>2. whole[k] \in PageCell
      BY <1>1, <1>2, <3>1
    <3> QED BY <1>1, <3>2, BoundedCells
  <2>2. CASE k > last /\ k <= last + count
    <3> DEFINE i == k - last
    <3>1. i \in 1..count /\ last + i = k
      BY <1>1, <2>2
    <3> HIDE DEF i
    <3>2. whole[k] = <<"index", index[i]>> /\ index[i] \in Offset
      BY <1>1, <1>2, <3>1
    <3> QED BY <1>1, <3>2, BoundedCells
  <2>3. CASE k = last + count + 1
    <3>1. whole[k] = Foot(final, last, count)
      BY <1>2, <2>3 DEF Foot
    <3>2. ~(k <= last + count)
      BY <1>1, <2>3
    <3> QED BY <1>1, <1>3, <3>1, <3>2, BoundedCells
  <2> QED BY <1>1, <2>1, <2>2, <2>3
<1>6. /\ Len(cut) = n /\ \A k \in 1..n : cut[k] = whole[k]
      /\ n \in 0..(last + count + 1)
  BY <1>2, <1>4, PrefixShape
<1>7. cut \in Seq(Cell)
  <2>1. \A k \in 1..n : whole[k] \in Cell
    BY <1>1, <1>5, <1>6
  <2>2. n \in Int /\ 1 \in Int
    OBVIOUS
  <2> QED BY <2>1, <2>2, SubSeqProperties
<1> HIDE DEF cut
<1>8. CASE n <= last + count
  <2>1. ASSUME n > 1 PROVE cut[n][1] # "foot"
    BY <1>1, <1>5, <1>6, <1>8, <2>1
  <2> QED BY <1>6, <1>7, <2>1 DEF Indexed, Opens, cut, whole
<1>9. CASE n = last + count + 1
  <2>1. cut[Len(cut)] = <<"foot", final, last, count>>
    BY <1>1, <1>2, <1>6, <1>9
  <2>2. \A i \in 1..count : cut[last + i][1] = "index"
    BY <1>1, <1>2, <1>6, <1>9
  <2>3. Indexed(cut)
    BY <2>1, <2>2 DEF Indexed
  <2> QED BY <1>7, <2>3 DEF cut, whole
<1> QED BY <1>1, <1>6, <1>8, <1>9

LEMMA WholeIsIndexed ==
  ASSUME BoundedInv
  PROVE  /\ stream \in Seq(Cell) /\ Indexed(stream)
         /\ \A final \in BOOLEAN : Committed(final) \in Seq(Cell) /\ Indexed(Committed(final))
<1>1. CacheTypes /\ stream \in Seq(Cells)
  BY DEF BoundedInv, CacheInv, CacheTypes
<1>2. Len(stream) \in 0..Len(stream) /\ SubSeq(stream, 1, Len(stream)) = stream
  BY <1>1, WholeIsPrefix
<1>3. stream \in Seq(Cell) /\ Indexed(stream)
  <2>1. SubSeq(stream, 1, Len(stream)) \in Seq(Cell) /\ Indexed(SubSeq(stream, 1, Len(stream)))
    BY <1>2, StreamIsIndexed
  <2> QED BY <1>2, <2>1
<1>4. ASSUME NEW final \in BOOLEAN PROVE Committed(final) \in Seq(Cell) /\ Indexed(Committed(final))
  <2> DEFINE whole == Committed(final)
  <2>1. whole \in Seq(Cells)
    BY <1>1, CommittedShape
  <2>2. Len(whole) \in 0..Len(whole) /\ SubSeq(whole, 1, Len(whole)) = whole
    <3> HIDE DEF whole
    <3> QED BY <2>1, WholeIsPrefix
  <2>3. SubSeq(whole, 1, Len(whole)) \in Seq(Cell) /\ Indexed(SubSeq(whole, 1, Len(whole)))
    BY <2>2, CommitIsIndexed
  <2> QED BY <2>2, <2>3
<1> QED BY <1>3, <1>4

(* No file is indexed as any other.                                        *)
LEMMA NothingIsIndexed == <<>> \in Seq(Cell) /\ Indexed(<<>>)
<1>1. Len(<<>>) = 0
  OBVIOUS
<1> QED BY <1>1 DEF Indexed, Opens

(* The end of a build, by whatever route, forgets the rest.                *)
LEMMA ForgottenIsBounded ==
  ASSUME BoundedInv, Forgotten, UNCHANGED settings, file' \in Seq(Cell), Indexed(file'),
         reader' \in {NoReader, reader}
  PROVE  Bounds'
<1>1. Cell' = Cell /\ PageCell' = PageCell /\ Offset' = Offset /\ chapter' = chapter
  BY DEF settings, Cell, PageCell, Offset
<1>2. stream' = <<>> /\ index' = <<>> /\ lost' = {} /\ emitted' = 0
  BY DEF Forgotten
<1>3. stream' \in Seq(PageCell) /\ index' \in Seq(Offset) /\ Len(stream') <= Start(emitted' + 1) /\ Len(index') <= emitted'
  BY <1>2, PageStarts
<1>4. ReaderTyped'
  BY <1>1 DEF ReaderTyped, BoundedInv, Bounds
<1> QED BY <1>1, <1>2, <1>3, <1>4 DEF BoundedInv, Bounds, Indexed, Opens

(* While a build goes on the file stays, or is emptied when it begins.     *)
LEMMA BuildIsBounded ==
  ASSUME BoundedInv, UNCHANGED settings, file' \in {<<>>, file}, reader' = reader, session' # "idle",
         stream' \in Seq(PageCell), Len(stream') <= Start(emitted' + 1),
         index' \in Seq(Offset), Len(index') <= emitted', lost' \subseteq 1..chapter
  PROVE  Bounds'
<1>1. Cell' = Cell /\ PageCell' = PageCell /\ Offset' = Offset /\ chapter' = chapter
  BY DEF settings, Cell, PageCell, Offset
<1>2. file' \in Seq(Cell) /\ Indexed(file')
  BY NothingIsIndexed DEF BoundedInv, Bounds
<1>3. ReaderTyped'
  BY <1>1 DEF ReaderTyped, BoundedInv, Bounds
<1> QED BY <1>1, <1>2, <1>3 DEF BoundedInv, Bounds, Indexed, Opens

LEMMA BeginIsBounded == ASSUME BoundedInv, BeginBuild PROVE Bounds'
<1>1. /\ session = "idle" /\ index' = <<>> /\ lost' = {} /\ emitted' = 0 /\ session' # "idle"
      /\ UNCHANGED settings /\ reader' = reader /\ file' \in {<<>>, file}
      /\ stream' \in {stream, <<>>, <<Header>>}
  BY DEF BeginBuild, storageVars
<1>2. CacheTypes /\ stream \in Seq(PageCell) /\ Len(stream) <= Start(emitted + 1) /\ emitted = 0
  BY <1>1 DEF BoundedInv, CacheInv, Bounds
<1>3. Header \in PageCell
  BY <1>2, BoundedCells
<1>4. stream' \in Seq(PageCell) /\ Len(stream') <= Start(emitted' + 1)
  <2>1. CASE stream' = stream
    BY <1>1, <1>2, <2>1
  <2>2. CASE stream' \in {<<>>, <<Header>>}
    <3>1. <<>> \in Seq(PageCell) /\ Len(<<>>) = 0
      OBVIOUS
    <3>2. <<Header>> \in Seq(PageCell) /\ Len(<<Header>>) = 1
      <4> DEFINE c == Header
      <4> HIDE DEF c
      <4>1. c \in PageCell
        BY <1>3 DEF c
      <4>2. <<c>> \in Seq(PageCell) /\ Len(<<c>>) = 1
        BY <4>1
      <4> QED BY <4>2 DEF c
    <3>3. Start(emitted' + 1) = 1
      <4>1. emitted' + 1 = 1
        BY <1>1
      <4> QED BY <4>1, PageStarts
    <3>4. Len(<<>>) <= Start(emitted' + 1) /\ Len(<<Header>>) <= Start(emitted' + 1)
      BY <3>3
    <3>5. CASE stream' = <<>>
      BY <3>1, <3>4, <3>5, Zenon
    <3>6. CASE stream' = <<Header>>
      BY <3>2, <3>4, <3>6, Zenon
    <3> QED BY <2>2, <3>5, <3>6
  <2> QED BY <1>1, <2>1, <2>2
<1>5. index' \in Seq(Offset) /\ Len(index') <= emitted'
  BY <1>1
<1> QED BY <1>1, <1>4, <1>5, BuildIsBounded

LEMMA EmitIsBounded == ASSUME BoundedInv, EmitPage PROVE Bounds'
<1> DEFINE i == emitted + 1
<1>1. /\ UNCHANGED settings /\ file' = file /\ reader' = reader /\ session' # "idle"
      /\ emitted < chapter /\ emitted' = i
      /\ \/ PageRefused(i)
         \/ \E picture \in {FALSE, pictures}, cells \in Prefixes(Blob(i)) : Recorded(i, picture) /\ Written(i, cells)
  BY DEF EmitPage
<1>2. /\ CacheTypes /\ chapter \in Nat /\ emitted \in Nat /\ i \in Nat \ {0} /\ i \in 1..chapter
      /\ stream \in Seq(PageCell) /\ Len(stream) \in Nat /\ Len(stream) <= Start(i)
      /\ index \in Seq(Offset) /\ Len(index) \in Nat /\ Len(index) <= emitted /\ lost \subseteq 1..chapter
  BY <1>1, LenProperties DEF BoundedInv, CacheInv, CacheTypes, Bounds
<1>3. Start(i + 1) = Start(i) + PageParts /\ Start(i) \in Nat /\ PageParts \in Nat
  BY <1>2, PageStarts
<1>4. CASE PageRefused(i)
  <2>1. stream' = stream /\ index' = index /\ lost' = lost
    BY <1>4 DEF PageRefused
  <2>2. Len(stream') <= Start(emitted' + 1) /\ Len(index') <= emitted'
    BY <1>1, <1>2, <1>3, <2>1
  <2> QED BY <1>1, <1>2, <2>1, <2>2, BuildIsBounded
<1>5. ASSUME NEW picture \in {FALSE, pictures}, NEW cells \in Prefixes(Blob(i)), Recorded(i, picture), Written(i, cells)
      PROVE  Bounds'
  <2>1. index' = Append(index, Len(stream)) /\ stream' = stream \o cells /\ lost' \subseteq 1..chapter
    BY <1>2, <1>5 DEF Recorded, Written, ChunkOf
  <2>2. cells \in Seq(PageCell) /\ Len(cells) \in 0..PageParts
    <3>1. PICK n \in 0..Len(Blob(i)) : cells = SubSeq(Blob(i), 1, n)
      BY DEF Prefixes
    <3>2. Len(Blob(i)) = PageParts /\ \A part \in 1..PageParts : Blob(i)[part] = <<"page", i, part>>
      BY <1>2, CellTypes
    <3>3. \A part \in 1..PageParts : <<"page", i, part>> \in PageCell
      BY <1>2 DEF PageCell
    <3>4. n \in 0..PageParts /\ n \in Int /\ 1 \in Int
      BY <1>3, <3>2
    <3> DEFINE blob == Blob(i)
    <3>5. \A k \in 1..n : blob[k] \in PageCell
      <4>1. ASSUME NEW k \in 1..n PROVE k \in 1..PageParts
        BY <1>3, <3>4
      <4> QED BY <3>2, <3>3, <4>1
    <3> HIDE DEF blob
    <3>6. SubSeq(blob, 1, n) \in Seq(PageCell)
      BY <3>4, <3>5, SubSeqProperties
    <3>7. cells \in Seq(PageCell)
      BY <3>1, <3>6 DEF blob
    <3>8. Len(cells) \in 0..PageParts
      BY <1>2, BlobCut
    <3> QED BY <3>7, <3>8
  <2>3. stream' \in Seq(PageCell) /\ Len(stream') = Len(stream) + Len(cells)
    BY <1>2, <2>1, <2>2, ConcatProperties
  <2>4. Len(stream) \in Offset
    BY <1>2, OffsetRange
  <2>5. index' \in Seq(Offset) /\ Len(index') = Len(index) + 1
    BY <1>2, <2>1, <2>4, AppendProperties
  <2>6. Len(stream') <= Start(emitted' + 1)
    BY <1>1, <1>2, <1>3, <2>2, <2>3
  <2>7. Len(index') <= emitted'
    BY <1>1, <1>2, <2>5
  <2> QED BY <1>1, <2>1, <2>3, <2>5, <2>6, <2>7, BuildIsBounded
<1> QED BY <1>1, <1>4, <1>5

LEMMA ResolvedIsBounded == ASSUME BoundedInv, PathResolved PROVE Bounds'
<1>1. PICK i \in lost \cap DOMAIN index : index' = [index EXCEPT ![i] = 0]
  BY DEF PathResolved
<1>2. /\ UNCHANGED settings /\ file' = file /\ stream' = stream /\ lost' = lost /\ emitted' = emitted
      /\ session' = "parsing" /\ reader' = reader
  BY DEF PathResolved, storageVars
<1>3. CacheTypes /\ index \in Seq(Offset) /\ 0 <= Start(emitted + 1)
  BY PageStarts DEF BoundedInv, CacheInv, CacheTypes, Bounds
<1>4. 0 \in Offset /\ i \in 1..Len(index)
  BY <1>1, <1>3, OffsetRange, LenProperties
<1>5. index' \in Seq(Offset) /\ Len(index') = Len(index)
  BY <1>1, <1>3, <1>4, ExceptSeq
<1> QED BY <1>2, <1>5, BuildIsBounded DEF BoundedInv, Bounds

LEMMA OnDiskIsIndexed == ASSUME BoundedInv PROVE OnDisk \in Seq(Cell) /\ Indexed(OnDisk)
  BY WholeIsIndexed DEF OnDisk, BoundedInv, Bounds

(* finish(), suspend(): what they leave is old, gone, or this build's.     *)
LEMMA CloseIsBounded == ASSUME BoundedInv, Finish \/ Suspend PROVE Bounds'
<1>1. PICK final \in BOOLEAN : CloseBuild(final)
  BY DEF Finish, Suspend
<1>2. Closed(final) /\ Forgotten /\ UNCHANGED settings /\ reader' = NoReader
  BY <1>1 DEF CloseBuild
<1>3. file \in Seq(Cell) /\ Indexed(file) /\ CacheTypes /\ Len(stream) \in Nat /\ Len(index) \in Nat
  BY LenProperties DEF BoundedInv, Bounds, CacheInv, CacheTypes
<1>4. /\ stream \in Seq(Cell) /\ Indexed(stream) /\ <<>> \in Seq(Cell) /\ Indexed(<<>>)
      /\ Committed(final) \in Seq(Cell) /\ Indexed(Committed(final))
  BY WholeIsIndexed, NothingIsIndexed
<1>5. file' \in Seq(Cell) /\ Indexed(file')
  <2>1. CASE failed \/ ~open
    <3>1. file' \in {<<>>, file, stream}
      BY <2>1, <1>2 DEF Closed, RemovedFrom
    <3> QED BY <1>3, <1>4, <3>1
  <2>2. CASE ~(failed \/ ~open)
    <3> DEFINE whole == Committed(final)
    <3>1. file' = whole \/ \E n \in Len(stream)..Len(whole) : file' \in {<<>>, file, SubSeq(whole, 1, n)}
      BY <2>2, <1>2 DEF Closed, RemovedFrom
    <3>2. Len(whole) \in Nat
      BY <1>4, LenProperties
    <3>3. ASSUME NEW n \in Len(stream)..Len(whole)
          PROVE  SubSeq(whole, 1, n) \in Seq(Cell) /\ Indexed(SubSeq(whole, 1, n))
      <4>1. n \in 0..Len(whole)
        BY <1>3, <3>2
      <4> QED BY <4>1, CommitIsIndexed
    <3> HIDE DEF whole
    <3>4. whole \in Seq(Cell) /\ Indexed(whole)
      BY <1>4 DEF whole
    <3> QED BY <1>3, <1>4, <3>1, <3>3, <3>4
  <2> QED BY <2>1, <2>2
<1> QED BY <1>2, <1>5, ForgottenIsBounded

LEMMA PowerIsBounded == ASSUME BoundedInv, PowerLost PROVE Bounds'
<1>1. /\ Forgotten /\ UNCHANGED settings /\ reader' = NoReader
      /\ file' \in {file} \cup Prefixes(stream) \cup Prefixes(Committed(session = "done"))
  BY DEF PowerLost
<1>2. file' \in Seq(Cell) /\ Indexed(file')
  <2>1. CASE file' = file
    BY <2>1 DEF BoundedInv, Bounds
  <2>2. CASE file' \in Prefixes(stream)
    BY <2>2, StreamIsIndexed DEF Prefixes
  <2>3. CASE file' \in Prefixes(Committed(session = "done"))
    <3> DEFINE final == session = "done"
    <3>1. final \in BOOLEAN
      OBVIOUS
    <3>2. PICK n \in 0..Len(Committed(final)) : file' = SubSeq(Committed(final), 1, n)
      BY <2>3 DEF Prefixes
    <3> HIDE DEF final
    <3> QED BY <3>1, <3>2, CommitIsIndexed
  <2> QED BY <1>1, <2>1, <2>2, <2>3
<1> QED BY <1>1, <1>2, ForgottenIsBounded

(* What open() takes from a file that opens.                               *)
LEMMA OpenIsBounded == ASSUME BoundedInv, OpenReader PROVE Bounds'
<1>1. /\ Opens(OnDisk) /\ reader' = Opened(OnDisk)
      /\ UNCHANGED <<chapter, pictures, inPlace, shared, file, stream, open, failed, index, lost, session, emitted>>
  BY DEF OpenReader, settings, storageVars, writerVars
<1>2. CacheTypes /\ OnDisk \in Seq(Cell) /\ Indexed(OnDisk)
  BY OnDiskIsIndexed DEF BoundedInv, CacheInv
<1> DEFINE cells == OnDisk
           foot == cells[Len(cells)]
           r == Opened(cells)
<1>3. Len(cells) \in Nat /\ Len(cells) > 1 /\ foot[1] = "foot" /\ foot[3] + foot[4] + 1 = Len(cells)
  BY <1>1, <1>2, LenProperties DEF Opens
<1>4. foot \in Cell
  BY <1>2, <1>3, ElementOfSeq
<1>5. foot[2] \in BOOLEAN /\ foot[3] \in Offset /\ foot[4] \in 0..chapter
  <2> HIDE DEF foot
  <2> QED BY <1>2, <1>3, <1>4, BoundedCells
<1>6. foot[3] \in Nat /\ foot[4] \in Nat
  BY <1>5 DEF Offset
<1>7. ASSUME NEW i \in 1..foot[4] PROVE cells[foot[3] + i][2] \in Offset
  <2> DEFINE k == foot[3] + i
  <2>1. k \in 1..Len(cells)
    <3> HIDE DEF foot, cells
    <3> QED BY <1>3, <1>6
  <2>2. cells[k] \in Cell
    BY <1>2, <2>1, ElementOfSeq
  <2>3. cells[k][1] = "index"
    BY <1>1, <1>2 DEF Indexed
  <2> HIDE DEF k, foot, cells
  <2>4. cells[k][2] \in Offset
    BY <1>2, <2>2, <2>3, BoundedCells
  <2> QED BY <2>4 DEF k
<1>8. r = [at |-> [i \in 1..foot[4] |-> cells[foot[3] + i][2]], end |-> foot[3], final |-> foot[2]]
  BY DEF Opened
<1>9. r \in [at : Seq(Offset), end : Offset, final : BOOLEAN]
  <2> DEFINE starts == [i \in 1..foot[4] |-> cells[foot[3] + i][2]]
             count == foot[4]
  <2>1. starts \in [1..count -> Offset] /\ count \in Nat
    BY <1>6, <1>7
  <2> HIDE DEF starts, count
  <2>2. starts \in Seq(Offset)
    BY <2>1, IsSequence
  <2> USE DEF starts, count
  <2> HIDE DEF foot, cells, r
  <2> QED BY <1>5, <1>8, <2>2
<1>10. Cell' = Cell /\ PageCell' = PageCell /\ Offset' = Offset
  BY <1>1 DEF Cell, PageCell, Offset
<1>11. ReaderTyped'
  BY <1>1, <1>9, <1>10 DEF ReaderTyped
<1> QED BY <1>1, <1>10, <1>11 DEF BoundedInv, Bounds, Indexed, Opens

LEMMA BoundsStay == BoundedInv /\ [CacheNext]_cacheVars => BoundedInv'
<1> SUFFICES ASSUME BoundedInv, [CacheNext]_cacheVars PROVE Bounds'
  BY CacheSteps DEF BoundedInv
<1>1. CASE ParseEnds
  <2>1. /\ UNCHANGED settings /\ file' = file /\ stream' = stream /\ index' = index /\ lost' = lost
        /\ emitted' = emitted /\ session' # "idle" /\ reader' = reader
    BY <1>1 DEF ParseEnds, storageVars, writerVars
  <2> QED BY <2>1, BuildIsBounded DEF BoundedInv, Bounds
<1>2. CASE Abandon
  <2>1. Forgotten /\ UNCHANGED settings /\ file' = OnDisk /\ reader' = reader
    BY <1>2 DEF Abandon
  <2> QED BY <2>1, OnDiskIsIndexed, ForgottenIsBounded
<1>3. CASE UNCHANGED cacheVars
  <2>1. UNCHANGED <<chapter, pictures, inPlace, shared, file, stream, open, failed, index, lost, session, emitted, reader>>
    BY <1>3 DEF cacheVars, settings, storageVars, writerVars
  <2> QED BY <2>1 DEF BoundedInv, Bounds, ReaderTyped, Cell, PageCell, Offset, Indexed, Opens
<1> QED BY <1>1, <1>2, <1>3, BeginIsBounded, EmitIsBounded, ResolvedIsBounded, CloseIsBounded, OpenIsBounded,
           PowerIsBounded DEF CacheNext

LEMMA BoundedAtFirst == CacheInit => BoundedInv
<1> SUFFICES ASSUME CacheInit PROVE Bounds
  BY CacheStarts DEF BoundedInv
<1>1. /\ stream = <<>> /\ index = <<>> /\ lost = {} /\ emitted = 0 /\ file = <<>> /\ reader = NoReader
      /\ chapter \in Chapters
  BY DEF CacheInit
<1>2. stream \in Seq(PageCell) /\ Len(stream) <= Start(emitted + 1) /\ index \in Seq(Offset) /\ Len(index) <= emitted
  BY <1>1, PageStarts
<1> QED BY <1>1, <1>2, NothingIsIndexed DEF Bounds, ReaderTyped

LEMMA CacheIsBounded == CacheSpec => []BoundedInv
  BY BoundedAtFirst, BoundsStay, PTL DEF CacheSpec

LEMMA BoundedTypes == BoundedInv => CacheTypeOK
  BY DEF BoundedInv, Bounds, CacheInv, CacheTypes, CacheTypeOK, ReaderTyped

(* Whatever is written, cut short, reopened or lost, no page is beyond the *)
(* chapter's last and no offset, of the writer, a file or a reader, beyond *)
(* its end (PageCacheWriter, PageCacheReader::open()).                     *)
THEOREM CacheTypesHold == CacheSpec => []CacheTypeOK
  BY BoundedTypes, CacheIsBounded, PTL
=============================================================================
