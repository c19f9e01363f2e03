------------------------ MODULE BleKeyboardHostProofs ------------------------
(***************************************************************************)
(* Proofs about BleKeyboardHost, for any remotes, reports, rings, peers,   *)
(* bonds and planned attempts.                                             *)
(*                                                                         *)
(* Of BleButtons: Paired, of a ring and of the button that is down, for    *)
(* the raw edges; Kept, of the keys of the last report and what poll() has *)
(* made of them, for the decoded keys.                                     *)
(*                                                                         *)
(* Of BleLink: Torn, how far end() has come at each of its steps, and      *)
(* Observed, what g_disconnectObserved means to the client it deletes.     *)
(***************************************************************************)
EXTENDS BleButtons, BleLink, TLAPS, SequenceTheorems, FiniteSetTheorems, WellFoundedInduction


IsRing(q) == q.used \in 0..RawCap /\ q = [used |-> q.used, owed |-> q.owed, alone |-> q.alone]
IsButton(b) ==
  /\ b = [code |-> b.code, streamed |-> b.streamed, dropped |-> b.dropped] /\ b.dropped \in BOOLEAN
  /\ b.code # NoCode => b.code.id \in Report
Paired(q, b) ==
  /\ IsRing(q) /\ IsButton(b) /\ q.alone = FALSE
  /\ q.owed = IF b.code # NoCode /\ ~b.dropped THEN {b.code} ELSE {}
  /\ q.owed # {} => q.used < RawCap

-----------------------------------------------------------------------------
LEMMA ButtonsInitially == ButtonsInit => Paired(raw, btn)
  BY ButtonsAssumption DEF ButtonsInit, Paired, IsRing, IsButton, EmptyRaw, NoButton

(* A press or a release that finds room.                                   *)
LEMMA Pressed ==
  ASSUME NEW q, IsRing(q), NEW code, NEW keep \in Nat, Room(q, keep)
  PROVE  /\ IsRing(PushPress(q, code, keep))
         /\ PushPress(q, code, keep) = [used |-> q.used + 1, owed |-> q.owed \cup {code}, alone |-> q.alone]
  <1>1. PushPress(q, code, keep) = [q EXCEPT !.used = q.used + 1, !.owed = q.owed \cup {code}]
    BY DEF PushPress
  <1>2. PushPress(q, code, keep) = [used |-> q.used + 1, owed |-> q.owed \cup {code}, alone |-> q.alone]
    BY <1>1 DEF IsRing
  <1>3. q.used + 1 \in 0..RawCap
    BY ButtonsAssumption DEF IsRing, Room
  <1> QED BY <1>2, <1>3 DEF IsRing
LEMMA Unpressed ==
  ASSUME NEW q, NEW code, NEW keep, ~Room(q, keep)
  PROVE  PushPress(q, code, keep) = q
  BY DEF PushPress
LEMMA ReleasedEdge ==
  ASSUME NEW q, IsRing(q), NEW code, NEW keep \in Nat, Room(q, keep), code \in q.owed, q.alone = FALSE
  PROVE  /\ IsRing(PushRelease(q, code, keep))
         /\ PushRelease(q, code, keep) = [used |-> q.used + 1, owed |-> q.owed \ {code}, alone |-> FALSE]
  <1>1. PushRelease(q, code, keep) = [used |-> q.used + 1, owed |-> q.owed \ {code}, alone |-> FALSE]
    BY DEF PushRelease
  <1>2. q.used + 1 \in 0..RawCap
    BY ButtonsAssumption DEF IsRing, Room
  <1> QED BY <1>1, <1>2 DEF IsRing

(* Settling the button that is down leaves nothing owed.                   *)
LEMMA SettledOwesNothing ==
  ASSUME Paired(raw, btn)
  PROVE  IsRing(Settled(raw)) /\ Settled(raw).owed = {} /\ Settled(raw).alone = FALSE
  <1>1. CASE btn.code # NoCode /\ ~btn.dropped
    <2>1. raw.owed = {btn.code} /\ raw.used < RawCap /\ IsRing(raw) /\ raw.alone = FALSE
      BY <1>1 DEF Paired
    <2>2. Room(raw, 0) /\ 0 \in Nat
      BY <2>1, ButtonsAssumption DEF Room, IsRing
    <2>3. Settled(raw) = PushRelease(raw, btn.code, 0)
      BY <1>1 DEF Settled
    <2>4. IsRing(Settled(raw)) /\ Settled(raw) = [used |-> raw.used + 1, owed |-> raw.owed \ {btn.code}, alone |-> FALSE]
      BY <2>1, <2>2, <2>3, ReleasedEdge
    <2> QED BY <2>1, <2>4
  <1>2. CASE ~(btn.code # NoCode /\ ~btn.dropped)
    BY <1>2 DEF Settled, Paired
  <1> QED BY <1>1, <1>2

LEMMA ButtonOfReport ==
  ASSUME NEW f \in Frames, ButtonOf(f) # NoCode
  PROVE  ButtonOf(f).id \in Report
  <1>1. f.id \in Report
    BY ButtonsAssumption DEF Frame
  <1> QED BY <1>1 DEF ButtonOf

(* ingestRawEdge() keeps the ring and the button paired.                   *)
LEMMA EdgedIsPaired ==
  ASSUME Paired(raw, btn), NEW f \in Frames
  PROVE  Paired(Edged(f), Button(f))
  <1>s. IsRing(Settled(raw)) /\ Settled(raw).owed = {} /\ Settled(raw).alone = FALSE
    BY SettledOwesNothing
  <1>1. CASE ButtonOf(f) = btn.code /\ ~NewPress(f)
    <2>1. Edged(f) = raw /\ Button(f) = [btn EXCEPT !.streamed = btn.code # NoCode]
      BY <1>1 DEF Edged, Button
    <2>2. Button(f) = [code |-> btn.code, streamed |-> btn.code # NoCode, dropped |-> btn.dropped]
      BY <2>1 DEF Paired, IsButton
    <2> QED BY <2>1, <2>2 DEF Paired, IsButton
  <1>2. CASE NewPress(f)
    <2>1. ButtonOf(f) # NoCode /\ ButtonOf(f).id \in Report
      BY <1>2, ButtonOfReport DEF NewPress
    <2>2. Edged(f) = PushPress(Settled(raw), ButtonOf(f), 1)
      BY <1>2 DEF Edged
    <2>3. CASE Room(Settled(raw), 1)
      <3>1. Button(f) = [code |-> ButtonOf(f), streamed |-> FALSE, dropped |-> FALSE]
        BY <1>2, <2>3 DEF Button
      <3>2. /\ IsRing(Edged(f))
            /\ Edged(f) = [used |-> Settled(raw).used + 1, owed |-> Settled(raw).owed \cup {ButtonOf(f)},
                           alone |-> Settled(raw).alone]
        BY <2>2, <2>3, SettledOwesNothing, Pressed
      <3>3. Edged(f).owed = {ButtonOf(f)} /\ Edged(f).alone = FALSE
        <4>1. Edged(f).owed = Settled(raw).owed \cup {ButtonOf(f)} /\ Edged(f).alone = Settled(raw).alone
          BY <3>2
        <4> QED BY <1>s, <4>1
      <3>4. Edged(f).used < RawCap
        <4>1. Edged(f).used = Settled(raw).used + 1 /\ Settled(raw).used \in 0..RawCap
          BY <3>2, SettledOwesNothing DEF IsRing
        <4> QED BY <2>3, <4>1, ButtonsAssumption DEF Room
      <3> QED BY <2>1, <3>1, <3>2, <3>3, <3>4 DEF Paired, IsButton
    <2>4. CASE ~Room(Settled(raw), 1)
      <3>1. Button(f) = [code |-> ButtonOf(f), streamed |-> FALSE, dropped |-> TRUE]
        BY <1>2, <2>4 DEF Button
      <3>2. Edged(f) = Settled(raw)
        BY <2>2, <2>4, Unpressed
      <3>3. Button(f).code = ButtonOf(f) /\ Button(f).dropped = TRUE /\ IsButton(Button(f))
        BY <2>1, <3>1 DEF IsButton
      <3> QED BY <1>s, <3>2, <3>3 DEF Paired
    <2> QED BY <2>3, <2>4
  <1>3. CASE ButtonOf(f) # btn.code /\ ~NewPress(f)
    <2>1. ButtonOf(f) = NoCode
      BY <1>3 DEF NewPress
    <2>2. Edged(f) = Settled(raw) /\ Button(f) = [code |-> NoCode, streamed |-> FALSE, dropped |-> FALSE]
      BY <1>3, <2>1 DEF Edged, Button
    <2>3. Button(f).code = NoCode /\ IsButton(Button(f))
      BY <2>2 DEF IsButton
    <2> QED BY <1>s, <2>2, <2>3 DEF Paired
  <1> QED BY <1>1, <1>2, <1>3

(* A tap goes in whole, or not at all, beside what is owed already.        *)
LEMMA TappedIsPaired ==
  ASSUME Paired(raw, btn), NEW f \in Frames
  PROVE  Paired(Tapped(f), Button(f))
  <1> DEFINE q == Edged(f)
             b == Button(f)
             open == IF b.code # NoCode /\ ~b.dropped THEN 1 ELSE 0
             taps == FramePress(f) # {} /\ ~NewPress(f) /\ Room(q, 1 + open)
             down == PushPress(q, Tap(f), 1 + open)
  <1>1. Paired(q, b)
    BY EdgedIsPaired
  <1>2. Tapped(f) = IF taps THEN PushRelease(down, Tap(f), open) ELSE q
    BY DEF Tapped
  <1>3. open \in Nat /\ 1 + open \in Nat
    OBVIOUS
  <1>4. CASE taps
    <2>1. down = [used |-> q.used + 1, owed |-> q.owed \cup {Tap(f)}, alone |-> q.alone] /\ IsRing(down)
          /\ q.used \in 0..RawCap /\ q.alone = FALSE
      <3>1. IsRing(q) /\ Room(q, 1 + open) /\ q.used \in 0..RawCap /\ q.alone = FALSE
        BY <1>1, <1>4 DEF Paired, IsRing
      <3> HIDE DEF q, open
      <3> QED BY <1>3, <3>1, Pressed
    <2>2. down.used = q.used + 1 /\ down.owed = q.owed \cup {Tap(f)} /\ down.alone = FALSE
      BY <2>1
    <2>3. RawCap - q.used > 1 + open
      BY <1>4 DEF Room
    <2>4. Room(down, open)
      BY <1>3, <2>1, <2>2, <2>3, ButtonsAssumption DEF Room
    <2>5. Tapped(f) = [used |-> down.used + 1, owed |-> down.owed \ {Tap(f)}, alone |-> FALSE] /\ IsRing(Tapped(f))
      <3>1. Tap(f) \in down.owed
        BY <2>2
      <3>2. Tapped(f) = PushRelease(down, Tap(f), open)
        BY <1>2, <1>4
      <3>3. IsRing(down) /\ open \in Nat /\ Room(down, open) /\ down.alone = FALSE
        BY <1>3, <2>1, <2>2, <2>4
      <3> HIDE DEF down, open
      <3>4. /\ IsRing(PushRelease(down, Tap(f), open))
            /\ PushRelease(down, Tap(f), open) = [used |-> down.used + 1, owed |-> down.owed \ {Tap(f)}, alone |-> FALSE]
        BY <3>1, <3>3, ReleasedEdge
      <3> QED BY <3>2, <3>4
    <2>6. Tap(f) \notin q.owed
      BY <1>1, ButtonsAssumption DEF Paired, IsButton, Tap
    <2>7. Tapped(f).owed = q.owed /\ Tapped(f).alone = FALSE /\ Tapped(f).used = q.used + 2
      BY <2>1, <2>2, <2>5, <2>6
    <2>8. q.owed # {} => Tapped(f).used < RawCap
      <3>1. q.owed # {} => open = 1
        BY <1>1 DEF Paired
      <3> QED BY <2>1, <2>3, <2>7, <3>1, ButtonsAssumption
    <2>9. Paired(q, b)
      BY <1>1
    <2>10. IsRing(Tapped(f))
      BY <2>5
    <2> HIDE DEF q, open, down
    <2> QED BY <2>7, <2>8, <2>9, <2>10 DEF Paired
  <1>5. CASE ~taps
    BY <1>1, <1>2, <1>5
  <1> QED BY <1>4, <1>5

LEMMA PairedStays == Paired(raw, btn) /\ [ButtonsNext]_buttonsVars => Paired(raw, btn)'
  <1> SUFFICES ASSUME Paired(raw, btn), [ButtonsNext]_buttonsVars PROVE Paired(raw', btn')
    BY DEF Paired, IsRing, IsButton
  <1>1. CASE \E f \in Frames : Ingest(f)
    BY <1>1, TappedIsPaired DEF Ingest
  <1>2. CASE PollRaw
    <2>1. CASE raw' = Settled(raw) /\ btn' = NoButton
      BY <2>1, SettledOwesNothing DEF Paired, IsButton, NoButton
    <2>2. CASE UNCHANGED <<raw, btn>>
      BY <2>2
    <2> QED BY <1>2, <2>1, <2>2 DEF PollRaw
  <1>3. CASE OnLinkDown
    <2>1. raw' = [used |-> raw.used, owed |-> {}, alone |-> FALSE] /\ btn' = NoButton /\ raw.used \in 0..RawCap
      BY <1>3 DEF OnLinkDown, Paired, IsRing
    <2> QED BY <2>1 DEF Paired, IsRing, IsButton, NoButton
  <1>4. CASE PopRawButton
    <2>1. raw' = [used |-> raw.used - 1, owed |-> raw.owed, alone |-> FALSE] /\ UNCHANGED btn
      BY <1>4 DEF PopRawButton, Paired, IsRing
    <2>2. raw.used - 1 \in 0..RawCap /\ raw.used - 1 < RawCap
      BY <1>4, ButtonsAssumption DEF PopRawButton, Paired, IsRing
    <2> QED BY <2>1, <2>2 DEF Paired, IsRing
  <1>5. CASE EndButtons
    BY <1>5, ButtonsAssumption DEF EndButtons, Paired, IsRing, IsButton, EmptyRaw, NoButton
  <1>6. CASE UNCHANGED <<raw, btn>>
    BY <1>6
  <1> QED BY <1>1, <1>2, <1>3, <1>4, <1>5, <1>6
          DEF ButtonsNext, GoesSilent, Subscribed, PollStep, PollCheck, PollHeld, PollKeys, PollGeneric, PopKey,
              buttonsVars

-----------------------------------------------------------------------------
LEMMA PairedEdges == Paired(raw, btn) => EdgesPaired
  BY DEF Paired, EdgesPaired

(* Every raw press is followed by its release, and the ring always has     *)
(* room for the one that is owed (pushRawLocked(), ingestRawEdge()).       *)
THEOREM EdgesArePaired == ButtonsSpec => []EdgesPaired
  BY PairedEdges, ButtonsInitially, PairedStays, PTL DEF ButtonsSpec

-----------------------------------------------------------------------------
(* The types of what the decoders keep.                                    *)
LEMMA LeastOf == ASSUME NEW S \in SUBSET Nat, S # {} PROVE \E n \in S : \A m \in S : n <= m
  <1> DEFINE R == {ss \in Nat \X Nat : ss[1] < ss[2]}
  <1>1. IsWellFoundedOn(R, Nat)
    BY NatLessThanWellFounded DEF OpToRel
  <1>2. PICK n \in S : \A m \in S : ~(<<m, n>> \in R)
    <2> HIDE DEF R
    <2> QED BY <1>1, WFMin
  <1>3. ASSUME NEW m \in S PROVE n <= m
    <2>1. n \in Nat /\ m \in Nat
      OBVIOUS
    <2>2. m < n => <<m, n>> \in R
      BY <2>1
    <2> HIDE DEF R
    <2> QED BY <1>2, <2>1, <2>2
  <1> QED BY <1>3

LEMMA FrameTyped == ASSUME NEW f \in Frames PROVE f.id \in Report /\ f.bytes \in Payload /\ RawBytes(f) \in Payload
  <1>1. f.id \in Report /\ f.bytes \in Payload
    BY ButtonsAssumption DEF Frame
  <1>2. [f.bytes EXCEPT ![1] = {}] \in Payload
    BY <1>1 DEF Payload, Byte
  <1> QED BY <1>1, <1>2 DEF RawBytes

LEMMA CodeTyped == ASSUME NEW f \in Frames PROVE ButtonOf(f) \in Code
  <1> DEFINE off == {i \in 1..Bytes : RawBytes(f)[i] # Learned(f).rest[i]}
  <1>1. NoCode \in Code
    BY ButtonsAssumption DEF NoCode, Code, Byte
  <1>2. ASSUME off # {} PROVE [id |-> f.id, at |-> Min(off), value |-> RawBytes(f)[Min(off)]] \in Code
    <2>1. off \in SUBSET Nat /\ off \subseteq 1..Bytes
      OBVIOUS
    <2>2. Min(off) \in off
      <3> HIDE DEF off
      <3>1. \E n \in off : \A m \in off : n <= m
        BY <1>2, <2>1, LeastOf
      <3> QED BY <3>1 DEF Min
    <2>3. Min(off) \in 1..Bytes
      BY <2>1, <2>2
    <2> HIDE DEF off
    <2>4. RawBytes(f)[Min(off)] \in Byte /\ Min(off) \in 0..Bytes
      BY <2>3, FrameTyped, ButtonsAssumption DEF Payload
    <2> QED BY <2>4, FrameTyped DEF Code
  <1>3. ButtonOf(f) = IF AxisPair(f) \/ off = {} THEN NoCode
                      ELSE [id |-> f.id, at |-> Min(off), value |-> RawBytes(f)[Min(off)]]
    BY DEF ButtonOf
  <1> QED BY <1>1, <1>2, <1>3

(* The fallback's code is a byte of the report, or none.                   *)
LEMMA GenericTyped == ASSUME NEW f \in Frames PROVE GenericCode(f) \in Byte
  <1>1. CASE CodeAt(f) = 0
    BY <1>1 DEF GenericCode, Byte
  <1>2. CASE CodeAt(f) # 0
    <2>1. CodeAt(f) \in 1..Bytes
      <3>1. CASE Preferred # 0 /\ f.bytes[Preferred] # {}
        BY <3>1, ButtonsAssumption DEF CodeAt
      <3>2. CASE ~(Preferred # 0 /\ f.bytes[Preferred] # {})
        <4> DEFINE set == {i \in 1..Bytes : f.bytes[i] \in Byte \ {{}}}
        <4>1. set # {}
          BY <1>2, <3>2, FrameTyped DEF CodeAt, Payload
        <4>2. \E i \in set : \A j \in set : i <= j
          <5>1. set \in SUBSET Nat
            OBVIOUS
          <5> HIDE DEF set
          <5> QED BY <4>1, <5>1, LeastOf
        <4>3. \E i \in 1..Bytes : f.bytes[i] \in Byte \ {{}} /\ \A j \in 1..Bytes : f.bytes[j] \in Byte \ {{}} => i <= j
          BY <4>2
        <4>4. FirstSlot(f, Byte \ {{}}) \in 1..Bytes
          BY <4>3 DEF FirstSlot
        <4>5. CodeAt(f) = FirstSlot(f, Byte \ {{}})
          BY <1>2, <3>2 DEF CodeAt
        <4> QED BY <4>4, <4>5
      <3> QED BY <3>1, <3>2
    <2> QED BY <1>2, <2>1, FrameTyped DEF GenericCode, Payload
  <1> QED BY <1>1, <1>2

(* A report has finitely many keys, so the ring counts them.               *)
LEMMA DecodedCounts == ASSUME NEW f \in Frames PROVE Cardinality(Decoded(f)) \in Nat
  <1> DEFINE all == {f.bytes[i] : i \in 1..Bytes}
  <1>1. IsFiniteSet(1..Bytes)
    BY ButtonsAssumption, FS_Interval
  <1>2. IsFiniteSet(all)
    <2>1. f.bytes \in Surjection(1..Bytes, all)
      BY FrameTyped DEF Payload, Surjection
    <2> HIDE DEF all
    <2> QED BY <1>1, <2>1, FS_Surjection
  <1>3. NewKeys(f) \subseteq all
    BY ButtonsAssumption DEF NewKeys, Pressable, KeysOf, Slots
  <1>4. IsFiniteSet(all \cup {GenericUsage(f)})
    <2> HIDE DEF all
    <2> QED BY <1>2, FS_AddElement
  <1>5. Decoded(f) \subseteq all \cup {GenericUsage(f)}
    BY <1>3 DEF Decoded
  <1>6. IsFiniteSet(Decoded(f))
    <2> HIDE DEF all
    <2> QED BY <1>4, <1>5, FS_Subset
  <1> QED BY <1>6, FS_CardinalityType

LEMMA LearnedTyped ==
  ASSUME ButtonsTypeOK, NEW f \in Frames
  PROVE  /\ Learned(f) \in Rest
         /\ Known(f.id) => SlotOf(f.id) \in 1..Len(rests)
  <1>1. Known(f.id) => SlotOf(f.id) \in 1..Len(rests)
    BY DEF Known, SlotOf
  <1>2. RestOf(f.id) \in Rest
    <2>1. CASE Known(f.id)
      BY <1>1, <2>1 DEF RestOf, ButtonsTypeOK
    <2>2. CASE ~Known(f.id)
      BY <2>2, FrameTyped, ButtonsAssumption DEF RestOf, NewRest, NoPayload, Rest, Payload, Byte
    <2> QED BY <2>1, <2>2
  <1>3. Learned(f).rest \in Payload /\ Learned(f).frames \in 0..2
    BY <1>2, FrameTyped DEF Learned, Rest
  <1>4. Learned(f) = [id |-> f.id, frames |-> Learned(f).frames, rest |-> Learned(f).rest, prev |-> RawBytes(f)]
    BY DEF Learned
  <1> QED BY <1>1, <1>3, <1>4, FrameTyped DEF Rest

ButtonsInv == ButtonsTypeOK /\ Paired(raw, btn)
ButtonStates == [code : Code, streamed : BOOLEAN, dropped : BOOLEAN]
Rings == [used : 0..RawCap, owed : SUBSET Code, alone : BOOLEAN]

LEMMA RingTyped ==
  ASSUME NEW q, NEW b \in ButtonStates, Paired(q, b)
  PROVE  q \in Rings
  <1>1. q.owed \in SUBSET Code
    BY DEF Paired, ButtonStates
  <1> QED BY <1>1 DEF Paired, IsRing, Rings

LEMMA ButtonsTypedAtFirst == ButtonsInit => ButtonsInv
  <1> SUFFICES ASSUME ButtonsInit PROVE ButtonsInv
    OBVIOUS
  <1>1. NoButton \in ButtonStates
    BY ButtonsAssumption DEF NoButton, NoCode, Code, Byte, ButtonStates
  <1>2. raw \in Rings
    BY <1>1, ButtonsInitially, RingTyped DEF ButtonsInit
  <1>3. rests \in Seq(Rest) /\ Len(rests) <= RestSlots
    BY ButtonsAssumption DEF ButtonsInit
  <1>4. btn \in ButtonStates
    BY <1>1 DEF ButtonsInit
  <1>5. /\ linked \in BOOLEAN /\ silent \in BOOLEAN /\ held \in BOOLEAN /\ poll \in PollAt
        /\ prevKeys \subseteq Byte /\ lastGeneric \in Byte /\ keys \in 0..KeyCap
        /\ seen \subseteq Byte /\ excuses \subseteq {"silence", "overtaken"}
    <2>1. 0 \in 0..KeyCap
      BY ButtonsAssumption
    <2>2. {} \in Byte /\ "idle" \in PollAt
      BY DEF Byte, PollAt
    <2> QED BY <2>1, <2>2 DEF ButtonsInit
  <1>6. Paired(raw, btn)
    BY ButtonsInitially
  <1> QED BY <1>2, <1>3, <1>4, <1>5, <1>6 DEF ButtonsInv, ButtonsTypeOK, ButtonStates, Rings

LEMMA ReportTyped ==
  ASSUME ButtonsInv, NEW f \in Frames, Ingest(f)
  PROVE  ButtonsTypeOK'
  <1>1. linked' \in BOOLEAN /\ silent' \in BOOLEAN /\ held' \in BOOLEAN /\ poll' \in PollAt
    BY DEF Ingest, ButtonsInv, ButtonsTypeOK
  <1>2. prevKeys' \subseteq Byte /\ seen' \subseteq Byte
    <2>1. KeysOf(f) \subseteq Byte
      BY FrameTyped, ButtonsAssumption DEF KeysOf, Slots, Payload
    <2> QED BY <2>1 DEF Ingest, ButtonsInv, ButtonsTypeOK, Pressable
  <1>3. lastGeneric' \in Byte
    BY GenericTyped DEF Ingest, LastGeneric, ButtonsInv, ButtonsTypeOK, Byte
  <1>4. keys' \in 0..KeyCap
    <2> DEFINE n == keys + Cardinality(Decoded(f))
    <2>1. n \in Nat
      BY DecodedCounts DEF ButtonsInv, ButtonsTypeOK
    <2>2. keys' = Min({KeyCap, n})
      BY DEF Ingest
    <2> HIDE DEF n
    <2>3. \E x \in {KeyCap, n} : \A y \in {KeyCap, n} : x <= y
      BY <2>1, ButtonsAssumption
    <2>4. keys' \in {KeyCap, n} /\ keys' <= KeyCap
      BY <2>2, <2>3 DEF Min
    <2> QED BY <2>1, <2>4, ButtonsAssumption
  <1>5. rests' \in Seq(Rest) /\ Len(rests') <= RestSlots
    <2>1. rests \in Seq(Rest) /\ Len(rests) <= RestSlots /\ Len(rests) \in Nat /\ RestSlots \in Nat \ {0}
      BY ButtonsAssumption DEF ButtonsInv, ButtonsTypeOK
    <2>2. Learned(f) \in Rest
      BY LearnedTyped DEF ButtonsInv
    <2>3. CASE RestAt(f.id) > Len(rests)
      <3>1. rests' = Append(rests, Learned(f))
        BY <2>3 DEF Ingest
      <3>2. Len(rests) < RestSlots
        <4>1. CASE Known(f.id)
          BY <2>1, <2>3, <4>1, LearnedTyped DEF RestAt, ButtonsInv
        <4>2. CASE ~Known(f.id)
          BY <2>1, <2>3, <4>2 DEF RestAt
        <4> QED BY <4>1, <4>2
      <3> QED BY <2>1, <2>2, <3>1, <3>2
    <2>4. CASE ~(RestAt(f.id) > Len(rests))
      <3>1. rests' = [rests EXCEPT ![RestAt(f.id)] = Learned(f)]
        BY <2>4 DEF Ingest
      <3>2. RestAt(f.id) \in 1..Len(rests)
        <4>1. CASE Known(f.id)
          BY <4>1, LearnedTyped DEF RestAt, ButtonsInv
        <4>2. CASE ~Known(f.id)
          BY <2>1, <2>4, <4>2 DEF RestAt
        <4> QED BY <4>1, <4>2
      <3>3. rests' \in Seq(Rest) /\ Len(rests') = Len(rests)
        <4> HIDE DEF Rest
        <4> QED BY <2>1, <2>2, <3>1, <3>2, ExceptSeq
      <3> QED BY <2>1, <3>3
    <2> QED BY <2>3, <2>4
  <1>6. Button(f) \in ButtonStates
    <2>1. btn \in ButtonStates
      BY DEF ButtonsInv, ButtonsTypeOK, ButtonStates
    <2>2. [btn EXCEPT !.streamed = btn.code # NoCode] \in ButtonStates
      BY <2>1 DEF ButtonStates
    <2>3. [code |-> ButtonOf(f), streamed |-> FALSE, dropped |-> NewPress(f) /\ ~Room(Settled(raw), 1)] \in ButtonStates
      BY CodeTyped DEF ButtonStates
    <2> QED BY <2>2, <2>3 DEF Button
  <1>7. Tapped(f) \in Rings
    BY <1>6, TappedIsPaired, RingTyped DEF ButtonsInv
  <1>8. excuses' \subseteq {"silence", "overtaken"}
    BY DEF Ingest, ButtonsInv, ButtonsTypeOK
  <1>9. btn' \in ButtonStates /\ raw' \in Rings
    BY <1>6, <1>7 DEF Ingest
  <1> QED BY <1>1, <1>2, <1>3, <1>4, <1>5, <1>8, <1>9 DEF ButtonsTypeOK, ButtonStates, Rings

LEMMA ButtonsTypedStays == ButtonsInv /\ [ButtonsNext]_buttonsVars => ButtonsInv'
  <1> SUFFICES ASSUME ButtonsInv, [ButtonsNext]_buttonsVars PROVE ButtonsTypeOK'
    BY PairedStays DEF ButtonsInv
  <1>1. CASE \E f \in Frames : Ingest(f)
    BY <1>1, ReportTyped
  <1>2. NoButton \in ButtonStates /\ EmptyRaw \in Rings /\ <<>> \in Seq(Rest) /\ Len(<<>>) <= RestSlots /\ {} \in Byte
    BY ButtonsAssumption DEF NoButton, NoCode, Code, Byte, ButtonStates, EmptyRaw, Rings
  <1>3. btn' \in ButtonStates => raw' \in Rings
    <2>1. Paired(raw', btn')
      BY PairedStays DEF ButtonsInv, Paired, IsRing, IsButton
    <2> QED BY <2>1, RingTyped
  <1>4. CASE OnLinkDown
    <2>1. btn' \in ButtonStates /\ raw' \in Rings
      BY <1>2, <1>3, <1>4 DEF OnLinkDown
    <2> QED BY <1>2, <1>4, <2>1 DEF OnLinkDown, ButtonsInv, ButtonsTypeOK, ButtonStates, Rings
  <1>5. CASE PollRaw
    <2>1. btn' \in ButtonStates
      BY <1>2, <1>5 DEF PollRaw, ButtonsInv, ButtonsTypeOK, ButtonStates
    <2>2. raw' \in Rings
      BY <1>3, <2>1
    <2> QED BY <1>5, <2>1, <2>2 DEF PollRaw, ButtonsInv, ButtonsTypeOK, ButtonStates, Rings, PollAt
  <1>6. CASE PopRawButton
    <2>1. btn' \in ButtonStates /\ raw' \in Rings
      BY <1>3, <1>6 DEF PopRawButton, ButtonsInv, ButtonsTypeOK, ButtonStates
    <2> QED BY <1>6, <2>1 DEF PopRawButton, ButtonsInv, ButtonsTypeOK, ButtonStates, Rings
  <1>7. CASE EndButtons
    <2>1. /\ held' = FALSE /\ lastGeneric' = {} /\ keys' = 0 /\ rests' = <<>> /\ btn' = NoButton /\ raw' = EmptyRaw
          /\ UNCHANGED <<linked, silent, poll, prevKeys, seen, excuses>>
      BY <1>7 DEF EndButtons
    <2>2. btn' \in ButtonStates /\ raw' \in Rings /\ rests' \in Seq(Rest) /\ Len(rests') <= RestSlots /\ lastGeneric' \in Byte
      BY <1>2, <2>1
    <2>3. keys' \in 0..KeyCap
      BY <2>1, ButtonsAssumption
    <2> QED BY <2>1, <2>2, <2>3 DEF ButtonsInv, ButtonsTypeOK, ButtonStates, Rings
  <1>8. CASE GoesSilent \/ Subscribed \/ PollCheck \/ PollHeld \/ PollKeys \/ PollGeneric
    BY <1>2, <1>8 DEF GoesSilent, Subscribed, PollCheck, PollHeld, PollKeys, PollGeneric,
                      ButtonsInv, ButtonsTypeOK, PollAt
  <1>9. CASE PopKey
    BY <1>9, ButtonsAssumption DEF PopKey, ButtonsInv, ButtonsTypeOK
  <1>10. CASE UNCHANGED buttonsVars
    BY <1>10 DEF buttonsVars, ButtonsInv, ButtonsTypeOK
  <1> QED BY <1>1, <1>4, <1>5, <1>6, <1>7, <1>8, <1>9, <1>10 DEF ButtonsNext, PollStep

(* Whatever the remotes send and whenever, every decoder's state keeps its *)
(* type: the rings their bounds, each learned rest its slot, and the       *)
(* button that is down a code of a report (onReportIngest(), poll()).      *)
THEOREM ButtonsTypes == ButtonsSpec => []ButtonsTypeOK
  <1>1. ButtonsInv => ButtonsTypeOK
    BY DEF ButtonsInv
  <1> QED BY <1>1, ButtonsTypedAtFirst, ButtonsTypedStays, PTL DEF ButtonsSpec

-----------------------------------------------------------------------------
(* What poll() compares with is what the remote holds, or it has an excuse.*)
Kept ==
  /\ prevKeys \subseteq seen \cup {RollOver}
  /\ excuses = {} => seen \subseteq prevKeys
  /\ silent \/ poll \in {"held", "keys"} => excuses # {} \/ seen = {}

LEMMA KeptInitially == ButtonsInit => Kept
  BY DEF ButtonsInit, Kept

LEMMA KeptByReport ==
  ASSUME Kept, NEW f \in Frames, Ingest(f)
  PROVE  Kept'
  <1>1. silent' = FALSE /\ poll' = poll
    BY DEF Ingest
  <1>2. poll \in {"held", "keys"} => excuses' # {}
    BY DEF Ingest
  <1>3. CASE Shaped(f)
    <2>1. prevKeys' = KeysOf(f) /\ seen' = KeysOf(f) \ {RollOver}
      BY <1>3 DEF Ingest, Pressable
    <2> QED BY <1>1, <1>2, <2>1 DEF Kept
  <1>4. CASE ~Shaped(f)
    <2>1. prevKeys' = prevKeys /\ seen' = seen /\ (excuses' = {} => excuses = {})
      BY <1>4 DEF Ingest
    <2> QED BY <1>1, <1>2, <2>1 DEF Kept
  <1> QED BY <1>3, <1>4

LEMMA KeptStays == Kept /\ [ButtonsNext]_buttonsVars => Kept'
  <1> SUFFICES ASSUME Kept, [ButtonsNext]_buttonsVars PROVE Kept'
    OBVIOUS
  <1>1. CASE \E f \in Frames : Ingest(f)
    BY <1>1, KeptByReport
  <1>2. CASE GoesSilent
    BY <1>2 DEF GoesSilent, Kept
  <1>3. CASE OnLinkDown
    BY <1>3 DEF OnLinkDown, Kept
  <1>4. CASE PollCheck
    BY <1>4 DEF PollCheck, Kept
  <1>5. CASE PollHeld
    BY <1>5 DEF PollHeld, Kept
  <1>6. CASE PollKeys
    BY <1>6 DEF PollKeys, Kept
  <1>7. CASE PollGeneric
    BY <1>7 DEF PollGeneric, Kept
  <1>8. CASE PollRaw
    BY <1>8 DEF PollRaw, Kept
  <1>9. CASE UNCHANGED <<silent, poll, prevKeys, seen, excuses>>
    BY <1>9 DEF Kept
  <1> QED BY <1>1, <1>2, <1>3, <1>4, <1>5, <1>6, <1>7, <1>8, <1>9
          DEF ButtonsNext, Subscribed, PollStep, PopKey, PopRawButton, EndButtons, buttonsVars

(* The fallback never decodes a key that has a slot of its own.            *)
LEMMA NoFallbackForKeys ==
  ASSUME NEW f \in Frames, Pressable(f) # {}
  PROVE  GenericUsage(f) = {}
  BY DEF GenericUsage, AxisPair, TryGeneric

LEMMA KeptReports == Kept => PressesReported /\ RepeatsExplained
  <1>1. ASSUME Kept, NEW f \in Frames, NEW k \in Pressable(f), k \notin seen PROVE k \in Decoded(f)
    <2>1. k \notin prevKeys
      BY <1>1 DEF Kept, Pressable
    <2> QED BY <1>1, <2>1 DEF Decoded, NewKeys
  <1>2. ASSUME Kept, NEW f \in Frames, NEW k \in Decoded(f) \cap Pressable(f) \cap seen, excuses = {} PROVE FALSE
    <2>1. k \notin NewKeys(f)
      BY <1>2 DEF Kept, NewKeys
    <2>2. GenericUsage(f) = {}
      BY <1>2, NoFallbackForKeys
    <2> QED BY <1>2, <2>1, <2>2 DEF Decoded
  <1> QED BY <1>1, <1>2 DEF PressesReported, RepeatsExplained

(* No key the remote newly holds is ever swallowed, whatever was cleared   *)
(* or left behind before it (onReportIngest()).                            *)
THEOREM PressesAreReported == ButtonsSpec => []PressesReported
  BY KeptReports, KeptInitially, KeptStays, PTL DEF ButtonsSpec

(* A held key is decoded again only after a silence, or a report that      *)
(* overtook poll() (onReportIngest(), poll()).                             *)
THEOREM RepeatsAreExplained == ButtonsSpec => []RepeatsExplained
  BY KeptReports, KeptInitially, KeptStays, PTL DEF ButtonsSpec

-----------------------------------------------------------------------------
(* The connection.                                                         *)

Ending == {"clear", "waitConn", "waitLink", "deinit", "finish"}
Torn ==
  /\ begun => ~(caller \in {"waitConn", "waitLink", "deinit", "finish"}) /\ stack /\ client /\ conn # "none"
  /\ caller \in Ending => stopping
  /\ caller \in {"waitLink", "deinit", "finish"} => conn = "none"
  /\ caller \in {"deinit", "finish"} => ~client
  /\ caller = "finish" => ~stack
  /\ caller = "scanWait" => begun
  /\ ~client => conn = "none"
Observed ==
  /\ conn = "dial" => link = "down" /\ ~observed
  /\ observed /\ link # "down" => refused
  /\ busy => target.peer \in Peer

LinkInv == LinkTypeOK /\ Torn /\ Observed /\ TornDownInOrder /\ ConnectedIsLinked

-----------------------------------------------------------------------------
THEOREM LinkInitially == LinkInit => LinkInv
  <1> SUFFICES ASSUME LinkInit PROVE LinkInv
    OBVIOUS
  <1>1. <<>> \in Seq(Peer) /\ Len(<<>>) = 0 /\ 0 \in 0..MaxBonds /\ 0 \in 0..SelectedAttempts
    BY LinkAssumption
  <1>2. NoPlan \in [peer : Peer \cup {NoPeer}, left : 0..SelectedAttempts, open : BOOLEAN]
    BY <1>1 DEF NoPlan
  <1>3. LinkTypeOK
    <2>1. target \in [peer : Peer \cup {NoPeer}, alt : BOOLEAN]
      BY DEF LinkInit
    <2>2. bonds \in Seq(Peer) /\ Len(bonds) <= MaxBonds /\ turn \in 0..MaxBonds
      BY <1>1, LinkAssumption DEF LinkInit
    <2>3. plan \in [peer : Peer \cup {NoPeer}, left : 0..SelectedAttempts, open : BOOLEAN]
      BY <1>2 DEF LinkInit
    <2> QED BY <2>1, <2>2, <2>3 DEF LinkInit, LinkTypeOK, CallerStep, ConnStep
  <1> QED BY <1>3 DEF LinkInit, LinkInv, Torn, Observed, TornDownInOrder, ConnectedIsLinked, Ending

(* The plans an armed or renewed reconnect starts from.                    *)
LEMMA PlanTyped ==
  ASSUME NEW p \in Peer \cup {NoPeer}
  PROVE  /\ NoPlan \in [peer : Peer \cup {NoPeer}, left : 0..SelectedAttempts, open : BOOLEAN]
         /\ FreshPlan(p) \in [peer : Peer \cup {NoPeer}, left : 0..SelectedAttempts, open : BOOLEAN]
  <1>1. 0 \in 0..SelectedAttempts /\ SelectedAttempts \in 0..SelectedAttempts
    BY LinkAssumption
  <1> QED BY <1>1 DEF NoPlan, FreshPlan

LEMMA AttemptTyped ==
  ASSUME NEW p \in Peer, Attempt(p)
  PROVE  /\ busy' = TRUE /\ conn' = "notified" /\ target' \in [peer : Peer \cup {NoPeer}, alt : BOOLEAN]
         /\ begun /\ ~busy
  <1>1. PICK alt \in BOOLEAN : target' = [peer |-> p, alt |-> alt]
    BY DEF Attempt
  <1> QED BY <1>1 DEF Attempt

LEMMA BondsShrink ==
  ASSUME LinkTypeOK, NEW p, Forget(p)
  PROVE  bonds' \in Seq(Peer) /\ Len(bonds') <= MaxBonds
  <1>1. PICK i \in 1..Len(bonds) : bonds' = SubSeq(bonds, 1, i - 1) \o SubSeq(bonds, i + 1, Len(bonds))
    BY DEF Forget, RemoveAt
  <1>2. bonds \in Seq(Peer) /\ Len(bonds) \in Nat /\ Len(bonds) <= MaxBonds /\ i \in Nat /\ i >= 1 /\ i <= Len(bonds)
    BY DEF LinkTypeOK
  <1>3. SubSeq(bonds, 1, i - 1) \in Seq(Peer) /\ Len(SubSeq(bonds, 1, i - 1)) = i - 1
    BY <1>2
  <1>4. SubSeq(bonds, i + 1, Len(bonds)) \in Seq(Peer) /\ Len(SubSeq(bonds, i + 1, Len(bonds))) = Len(bonds) - i
    BY <1>2
  <1>5. bonds' \in Seq(Peer) /\ Len(bonds') = Len(bonds) - 1
    <2> DEFINE before == SubSeq(bonds, 1, i - 1)
               after == SubSeq(bonds, i + 1, Len(bonds))
    <2>1. before \in Seq(Peer) /\ after \in Seq(Peer) /\ Len(before) = i - 1 /\ Len(after) = Len(bonds) - i
      BY <1>3, <1>4
    <2>2. bonds' = before \o after
      BY <1>1
    <2> HIDE DEF before, after
    <2>3. bonds' \in Seq(Peer) /\ Len(bonds') = Len(before) + Len(after)
      BY <2>1, <2>2, ConcatProperties
    <2> QED BY <1>2, <2>1, <2>3
  <1> QED BY <1>2, <1>5, LinkAssumption

LEMMA BondsGrow ==
  ASSUME LinkTypeOK, OnLinkUp, target.peer \in Peer
  PROVE  bonds' \in Seq(Peer) /\ Len(bonds') <= MaxBonds
  <1>1. bonds \in Seq(Peer) /\ Len(bonds) \in Nat /\ Len(bonds) <= MaxBonds /\ target.peer \in Peer /\ MaxBonds \in Nat
    BY LinkAssumption DEF LinkTypeOK
  <1>2. CASE Bonded(target.peer) \/ Len(bonds) = MaxBonds
    BY <1>1, <1>2 DEF OnLinkUp
  <1>3. CASE ~(Bonded(target.peer) \/ Len(bonds) = MaxBonds)
    <2>1. bonds' = Append(bonds, target.peer)
      BY <1>3 DEF OnLinkUp
    <2> QED BY <1>1, <1>3, <2>1
  <1> QED BY <1>2, <1>3

-----------------------------------------------------------------------------
(* The flags and the places where the tasks stand; and what holds a peer.  *)
Plain ==
  /\ begun \in BOOLEAN /\ stopping \in BOOLEAN /\ stack \in BOOLEAN /\ caller \in CallerStep
  /\ conn \in ConnStep /\ busy \in BOOLEAN
  /\ link \in {"down", "up", "closing", "gone"} /\ client \in BOOLEAN /\ observed \in BOOLEAN
  /\ connected \in BOOLEAN /\ auto \in BOOLEAN /\ due \in BOOLEAN /\ scanning \in BOOLEAN
  /\ missed \in BOOLEAN /\ refused \in BOOLEAN
Targeted == target \in [peer : Peer \cup {NoPeer}, alt : BOOLEAN]
Planned == plan \in [peer : Peer \cup {NoPeer}, left : 0..SelectedAttempts, open : BOOLEAN]
Listed == bonds \in Seq(Peer) /\ Len(bonds) <= MaxBonds /\ turn \in 0..MaxBonds /\ connAddr \in Peer \cup {NoPeer}
LEMMA TypesSplit ==
  /\ LinkTypeOK => Plain /\ Targeted /\ Planned /\ Listed
  /\ Plain' /\ Targeted' /\ Planned' /\ Listed' => LinkTypeOK'
  BY DEF LinkTypeOK, Plain, Targeted, Planned, Listed

LEMMA PlainStays == LinkInv /\ [LinkNext]_hostVars => Plain'
  <1> SUFFICES ASSUME LinkInv, [LinkNext]_hostVars PROVE Plain'
    OBVIOUS
  <1>0. Plain
    BY TypesSplit DEF LinkInv
  <1> USE DEF Plain, CallerStep, ConnStep, stackVars, linkVars, planVars, Hang
  <1>1. CASE Begin
    <2>1. /\ begun' \in BOOLEAN /\ stack' \in BOOLEAN /\ client' \in BOOLEAN /\ conn' \in ConnStep
          /\ auto' \in BOOLEAN
          /\ UNCHANGED <<stopping, caller, busy, link, observed, connected, due, scanning, missed, refused>>
      BY <1>0, <1>1 DEF Begin
    <2> QED BY <1>0, <2>1
  <1>2. CASE Disconnect
    <2>1. /\ link' \in {"down", "up", "closing", "gone"} /\ auto' \in BOOLEAN
          /\ UNCHANGED <<begun, stopping, stack, caller, conn, busy, client, observed, connected, due, scanning,
                         missed, refused>>
      BY <1>0, <1>2 DEF Disconnect
    <2> QED BY <1>0, <2>1
  <1>3. CASE PollPlan
    <2>1. /\ conn' \in ConnStep /\ busy' \in BOOLEAN /\ due' \in BOOLEAN
          /\ UNCHANGED <<begun, stopping, stack, caller, link, client, observed, connected, auto, scanning,
                         missed, refused>>
      BY <1>0, <1>3 DEF PollPlan, Attempt
    <2> QED BY <1>0, <2>1
  <1>4. CASE PollBond
    <2>1. /\ conn' \in ConnStep /\ busy' \in BOOLEAN /\ due' \in BOOLEAN
          /\ UNCHANGED <<begun, stopping, stack, caller, link, client, observed, connected, auto, scanning,
                         missed, refused>>
      BY <1>0, <1>4 DEF PollBond, Attempt
    <2> QED BY <1>0, <2>1
  <1>5. CASE BackoffEnds
    BY <1>0, <1>5 DEF BackoffEnds
  <1>6. CASE WindowCloses
    BY <1>0, <1>6 DEF WindowCloses
  <1>7. CASE StartScan
    <2>1. /\ caller' \in CallerStep /\ link' \in {"down", "up", "closing", "gone"} /\ scanning' \in BOOLEAN
          /\ UNCHANGED <<begun, stopping, stack, conn, busy, client, observed, connected, auto, due, missed,
                         refused>>
      BY <1>0, <1>7 DEF StartScan
    <2> QED BY <1>0, <2>1
  <1>8. CASE ScanWait
    <2>1. /\ caller' \in CallerStep /\ link' \in {"down", "up", "closing", "gone"} /\ scanning' \in BOOLEAN
          /\ UNCHANGED <<begun, stopping, stack, conn, busy, client, observed, connected, auto, due, missed,
                         refused>>
      BY <1>0, <1>8 DEF ScanWait
    <2> QED BY <1>0, <2>1
  <1>9. CASE StopScan
    <2>1. /\ scanning' \in BOOLEAN
          /\ UNCHANGED <<begun, stopping, stack, caller, conn, busy, link, client, observed, connected, auto,
                         due, missed, refused>>
      BY <1>0, <1>9 DEF StopScan
    <2> QED BY <1>0, <2>1
  <1>10. CASE Dial
    <2>1. /\ conn' \in ConnStep /\ observed' \in BOOLEAN /\ connected' \in BOOLEAN /\ due' \in BOOLEAN /\
             scanning' \in BOOLEAN /\ refused' \in BOOLEAN
          /\ UNCHANGED <<begun, stopping, stack, caller, busy, link, client, auto, missed>>
      BY <1>0, <1>10 DEF Dial, Failed
    <2> QED BY <1>0, <2>1
  <1>11. CASE DialOk
    BY <1>0, <1>11 DEF DialOk
  <1>12. CASE DialFails
    <2>1. /\ conn' \in ConnStep /\ observed' \in BOOLEAN /\ connected' \in BOOLEAN /\ due' \in BOOLEAN
          /\ UNCHANGED <<begun, stopping, stack, caller, busy, link, client, auto, scanning, missed, refused>>
      BY <1>0, <1>12 DEF DialFails, Failed
    <2> QED BY <1>0, <2>1
  <1>13. CASE BringUpOk
    BY <1>0, <1>13 DEF BringUpOk
  <1>14. CASE BringUpFails
    <2>1. /\ conn' \in ConnStep /\ connected' \in BOOLEAN /\ due' \in BOOLEAN
          /\ link' \in {"down", "up", "closing", "gone"}
          /\ UNCHANGED <<begun, stopping, stack, caller, busy, client, observed, auto, scanning, missed, refused>>
      BY <1>0, <1>14 DEF BringUpFails, Failed
    <2> QED BY <1>0, <2>1
  <1>15. CASE OnLinkUp
    BY <1>0, <1>15 DEF OnLinkUp
  <1>16. CASE Done
    <2>1. /\ conn' \in ConnStep /\ busy' \in BOOLEAN
          /\ UNCHANGED <<begun, stopping, stack, caller, link, client, observed, connected, auto, due, scanning,
                         missed, refused>>
      BY <1>0, <1>16 DEF Done
    <2> QED BY <1>0, <2>1
  <1>17. CASE Gone
    BY <1>0, <1>17 DEF Gone
  <1>18. CASE OnDisconnect
    <2>1. /\ link' \in {"down", "up", "closing", "gone"} /\ observed' \in BOOLEAN /\ connected' \in BOOLEAN /\
             due' \in BOOLEAN /\ refused' \in BOOLEAN
          /\ UNCHANGED <<begun, stopping, stack, caller, conn, busy, client, auto, scanning, missed>>
      BY <1>0, <1>18 DEF OnDisconnect
    <2> QED BY <1>0, <2>1
  <1>19. CASE EndStart
    <2>1. /\ stopping' \in BOOLEAN /\ caller' \in CallerStep
          /\ UNCHANGED <<begun, stack, conn, busy, link, client, observed, connected, auto, due, scanning,
                         missed, refused>>
      BY <1>0, <1>19 DEF EndStart
    <2> QED BY <1>0, <2>1
  <1>20. CASE EndClear
    <2>1. /\ begun' \in BOOLEAN /\ caller' \in CallerStep /\ scanning' \in BOOLEAN
          /\ UNCHANGED <<stopping, stack, conn, busy, link, client, observed, connected, auto, due, missed,
                         refused>>
      BY <1>0, <1>20 DEF EndClear
    <2> QED BY <1>0, <2>1
  <1>21. CASE EndCancel
    BY <1>0, <1>21 DEF EndCancel
  <1>22. CASE EndKillTask
    BY <1>0, <1>22 DEF EndKillTask
  <1>23. CASE EndHangUp
    BY <1>0, <1>23 DEF EndHangUp
  <1>24. CASE EndDeleteClient
    <2>1. /\ caller' \in CallerStep /\ client' \in BOOLEAN
          /\ UNCHANGED <<begun, stopping, stack, conn, busy, link, observed, connected, auto, due, scanning,
                         missed, refused>>
      BY <1>0, <1>24 DEF EndDeleteClient
    <2> QED BY <1>0, <2>1
  <1>25. CASE EndDeinit
    <2>1. /\ caller' \in CallerStep /\ stack' \in BOOLEAN /\ connected' \in BOOLEAN /\ scanning' \in BOOLEAN
          /\ UNCHANGED <<begun, stopping, conn, busy, link, client, observed, auto, due, missed, refused>>
      BY <1>0, <1>25 DEF EndDeinit
    <2> QED BY <1>0, <2>1
  <1>26. CASE EndDeinitFails
    <2>1. /\ caller' \in CallerStep
          /\ UNCHANGED <<begun, stopping, stack, conn, busy, link, client, observed, connected, auto, due,
                         scanning, missed, refused>>
      BY <1>0, <1>26 DEF EndDeinitFails
    <2> QED BY <1>0, <2>1
  <1>27. CASE EndFinish
    <2>1. /\ stopping' \in BOOLEAN /\ caller' \in CallerStep
          /\ UNCHANGED <<begun, stack, conn, busy, link, client, observed, connected, auto, due, scanning,
                         missed, refused>>
      BY <1>0, <1>27 DEF EndFinish
    <2> QED BY <1>0, <2>1
  <1>28. CASE \E p \in Peer : Connect(p)
    <2>1. /\ conn' \in ConnStep /\ busy' \in BOOLEAN /\ auto' \in BOOLEAN
          /\ UNCHANGED <<begun, stopping, stack, caller, link, client, observed, connected, due, scanning,
                         missed, refused>>
      BY <1>0, <1>28 DEF Connect, Attempt
    <2> QED BY <1>0, <2>1
  <1>29. CASE \E p \in Peer : ArmSelectedPeerReconnect(p)
    BY <1>0, <1>29 DEF ArmSelectedPeerReconnect
  <1>30. CASE \E p \in Peer : Forget(p)
    BY <1>0, <1>30 DEF Forget
  <1>31. CASE UNCHANGED hostVars
    BY <1>0, <1>31 DEF hostVars
  <1> QED BY <1>1, <1>2, <1>3, <1>4, <1>5, <1>6, <1>7, <1>8, <1>9, <1>10, <1>11, <1>12, <1>13, <1>14, <1>15,
             <1>16, <1>17, <1>18, <1>19, <1>20, <1>21, <1>22, <1>23, <1>24, <1>25, <1>26, <1>27, <1>28, <1>29,
             <1>30, <1>31
          DEF LinkNext, PollReconnect, ConnTask, EndStep

LEMMA PollBondTyped ==
  ASSUME LinkTypeOK, PollBond
  PROVE  Targeted' /\ turn' \in 0..MaxBonds
  <1>1. turn % Len(bonds) \in 0..(Len(bonds) - 1) /\ Len(bonds) \in Nat \ {0} /\ turn \in Nat
    BY DEF PollBond, LinkTypeOK
  <1>2. bonds[(turn % Len(bonds)) + 1] \in Peer
    BY <1>1 DEF LinkTypeOK
  <1>3. turn' = (turn % Len(bonds)) + 1 /\ Len(bonds) <= MaxBonds
    BY DEF PollBond, LinkTypeOK
  <1>4. turn' \in 0..MaxBonds
    BY <1>1, <1>3, LinkAssumption
  <1> QED BY <1>2, <1>4, AttemptTyped DEF PollBond, Targeted

(* The steps that aim, plan or bond; every other one leaves all that.      *)
Aims == (\E p \in Peer : Connect(p)) \/ PollReconnect \/ DialFails
Plans ==
  \/ Begin \/ Disconnect \/ PollPlan \/ WindowCloses \/ OnDisconnect \/ EndStart
  \/ \E p \in Peer : Connect(p) \/ ArmSelectedPeerReconnect(p) \/ Forget(p)
Lists == PollBond \/ OnLinkUp \/ OnDisconnect \/ EndDeinit \/ \E p \in Peer : Forget(p)
LEMMA OthersKeep ==
  ASSUME [LinkNext]_hostVars
  PROVE  /\ ~Aims => UNCHANGED target
         /\ ~Plans => UNCHANGED plan
         /\ ~Lists => UNCHANGED <<bonds, turn, connAddr>>
  <1> USE DEF Aims, Plans, Lists, stackVars, linkVars, planVars
  <1>1. CASE Begin \/ Disconnect \/ PollReconnect \/ BackoffEnds \/ WindowCloses \/ StartScan \/ ScanWait \/ StopScan
    BY <1>1 DEF Begin, Disconnect, PollReconnect, PollPlan, PollBond, BackoffEnds, WindowCloses, StartScan, ScanWait,
                StopScan
  <1>2. CASE \E p \in Peer : Connect(p) \/ ArmSelectedPeerReconnect(p) \/ Forget(p)
    BY <1>2 DEF Connect, ArmSelectedPeerReconnect, Forget
  <1>3. CASE ConnTask \/ Gone \/ OnDisconnect
    BY <1>3 DEF ConnTask, Dial, DialOk, DialFails, BringUpOk, BringUpFails, OnLinkUp, Done, Gone, OnDisconnect
  <1>4. CASE EndStart \/ EndStep
    BY <1>4 DEF EndStart, EndStep, EndClear, EndCancel, EndKillTask, EndHangUp, EndDeleteClient, EndDeinit,
                EndDeinitFails, EndFinish
  <1>5. CASE UNCHANGED hostVars
    BY <1>5 DEF hostVars
  <1> QED BY <1>1, <1>2, <1>3, <1>4, <1>5 DEF LinkNext

LEMMA TargetedStays == LinkInv /\ [LinkNext]_hostVars => Targeted'
  <1> SUFFICES ASSUME LinkInv, [LinkNext]_hostVars PROVE Targeted'
    OBVIOUS
  <1>0. LinkTypeOK /\ Targeted /\ Planned
    BY TypesSplit DEF LinkInv
  <1>1. CASE ~Aims
    BY <1>0, <1>1, OthersKeep DEF Targeted
  <1>2. CASE \E p \in Peer : Connect(p)
    BY <1>2, AttemptTyped DEF Connect, Targeted
  <1>3. CASE PollPlan
    <2>1. plan.peer \in Peer
      BY <1>0, <1>3 DEF PollPlan, Planned
    <2> QED BY <1>3, <2>1, AttemptTyped DEF PollPlan, Targeted
  <1>4. CASE PollBond
    BY <1>0, <1>4, PollBondTyped
  <1>5. CASE DialFails
    BY <1>0, <1>5 DEF DialFails, Targeted
  <1> QED BY <1>1, <1>2, <1>3, <1>4, <1>5 DEF Aims, PollReconnect

LEMMA PlannedStays == LinkInv /\ [LinkNext]_hostVars => Planned'
  <1> SUFFICES ASSUME LinkInv, [LinkNext]_hostVars PROVE Planned'
    OBVIOUS
  <1>0. Planned
    BY TypesSplit DEF LinkInv
  <1>1. CASE ~Plans
    BY <1>0, <1>1, OthersKeep DEF Planned
  <1>2. CASE Begin \/ Disconnect \/ EndStart \/ \E p \in Peer : Connect(p)
    BY <1>2, PlanTyped DEF Begin, Disconnect, EndStart, Connect, Planned
  <1>3. CASE \E p \in Peer : ArmSelectedPeerReconnect(p)
    BY <1>3, PlanTyped DEF ArmSelectedPeerReconnect, Planned
  <1>4. CASE \E p \in Peer : Forget(p)
    BY <1>0, <1>4, PlanTyped DEF Forget, Planned
  <1>5. CASE PollPlan
    <2>1. plan.left - 1 \in 0..SelectedAttempts
      BY <1>0, <1>5, LinkAssumption DEF PollPlan, Planned
    <2> QED BY <1>0, <1>5, <2>1 DEF PollPlan, Planned
  <1>6. CASE WindowCloses
    BY <1>0, <1>6 DEF WindowCloses, Planned
  <1>7. CASE OnDisconnect
    <2>1. FreshPlan(plan.peer) \in [peer : Peer \cup {NoPeer}, left : 0..SelectedAttempts, open : BOOLEAN]
      BY <1>0, PlanTyped DEF Planned
    <2>2. plan' \in {plan, FreshPlan(plan.peer)}
      BY <1>7 DEF OnDisconnect
    <2> QED BY <1>0, <2>1, <2>2 DEF Planned
  <1> QED BY <1>1, <1>2, <1>3, <1>4, <1>5, <1>6, <1>7 DEF Plans

LEMMA ListedStays == LinkInv /\ [LinkNext]_hostVars => Listed'
  <1> SUFFICES ASSUME LinkInv, [LinkNext]_hostVars PROVE Listed'
    OBVIOUS
  <1>0. LinkTypeOK /\ Listed /\ (busy => target.peer \in Peer) /\ TornDownInOrder
    BY TypesSplit DEF LinkInv, Observed
  <1>1. CASE ~Lists
    BY <1>0, <1>1, OthersKeep DEF Listed
  <1>2. CASE PollBond
    <2>1. UNCHANGED <<bonds, connAddr>>
      BY <1>2 DEF PollBond
    <2> QED BY <1>0, <1>2, <2>1, PollBondTyped DEF Listed
  <1>3. CASE OnLinkUp
    <2>1. target.peer \in Peer /\ 0 \in 0..MaxBonds /\ turn' = 0 /\ connAddr' = target.peer
      BY <1>0, <1>3, LinkAssumption DEF OnLinkUp, TornDownInOrder
    <2> QED BY <1>0, <1>3, <2>1, BondsGrow DEF Listed
  <1>4. CASE OnDisconnect \/ EndDeinit
    <2>1. UNCHANGED <<bonds, turn>> /\ connAddr' = NoPeer
      BY <1>4 DEF OnDisconnect, EndDeinit, planVars
    <2> QED BY <1>0, <2>1 DEF Listed
  <1>5. CASE \E p \in Peer : Forget(p)
    <2>1. UNCHANGED <<turn, connAddr>>
      BY <1>5 DEF Forget
    <2> QED BY <1>0, <1>5, <2>1, BondsShrink DEF Listed
  <1> QED BY <1>1, <1>2, <1>3, <1>4, <1>5 DEF Lists

LEMMA LinkTyped == LinkInv /\ [LinkNext]_hostVars => LinkTypeOK'
  BY PlainStays, TargetedStays, PlannedStays, ListedStays, TypesSplit

(* The steps that touch none of what the teardown goes by.                 *)
Aside ==
  \/ BackoffEnds \/ WindowCloses \/ StopScan \/ UNCHANGED hostVars
  \/ \E p \in Peer : ArmSelectedPeerReconnect(p) \/ Forget(p)
LEMMA AsideTouchesNothing ==
  ASSUME Aside
  PROVE  UNCHANGED <<begun, stopping, stack, caller, conn, target, busy, link, client, observed, connected, missed,
                     refused>>
  BY DEF Aside, BackoffEnds, WindowCloses, StopScan, hostVars, ArmSelectedPeerReconnect, Forget, stackVars, linkVars

(* The steps that start an attempt.                                        *)
Starting == (\E p \in Peer : Connect(p)) \/ PollReconnect
LEMMA StartedAttempt ==
  ASSUME LinkTypeOK, Starting
  PROVE  /\ begun /\ ~busy /\ busy' /\ conn' = "notified" /\ target'.peer \in Peer
         /\ UNCHANGED <<begun, stopping, stack, caller, link, client, observed, connected, missed, refused>>
  <1>1. \A p \in Peer : Attempt(p) => begun /\ ~busy /\ busy' = TRUE /\ conn' = "notified" /\ target'.peer \in Peer
    BY DEF Attempt
  <1>2. CASE \E p \in Peer : Connect(p)
    BY <1>1, <1>2 DEF Connect, stackVars, linkVars
  <1>3. CASE PollPlan
    <2>1. plan.peer \in Peer
      BY <1>3 DEF PollPlan, LinkTypeOK
    <2> QED BY <1>1, <1>3, <2>1 DEF PollPlan, stackVars, linkVars
  <1>4. CASE PollBond
    <2>1. turn % Len(bonds) \in 0..(Len(bonds) - 1) /\ Len(bonds) \in Nat \ {0} /\ turn \in Nat
      BY <1>4 DEF PollBond, LinkTypeOK
    <2>2. bonds[(turn % Len(bonds)) + 1] \in Peer
      BY <2>1 DEF LinkTypeOK
    <2> QED BY <1>1, <1>4, <2>2 DEF PollBond, stackVars, linkVars
  <1> QED BY <1>2, <1>3, <1>4 DEF Starting, PollReconnect

Teardown == Torn /\ Observed /\ TornDownInOrder /\ ConnectedIsLinked
LEMMA TeardownStays == LinkInv /\ [LinkNext]_hostVars => Teardown'
  <1> SUFFICES ASSUME LinkInv, [LinkNext]_hostVars PROVE Teardown'
    OBVIOUS
  <1>0. LinkTypeOK /\ Teardown
    BY DEF LinkInv, Teardown
  <1> USE DEF Teardown, Torn, Observed, TornDownInOrder, ConnectedIsLinked, Ending, Hang, stackVars, linkVars, planVars
  <1>1. CASE Aside
    BY <1>0, <1>1, AsideTouchesNothing
  <1>2. CASE Starting
    BY <1>0, <1>2, StartedAttempt
  <1>3. CASE Begin
    BY <1>0, <1>3 DEF Begin
  <1>4. CASE Disconnect
    BY <1>0, <1>4 DEF Disconnect
  <1>5. CASE StartScan \/ ScanWait
    BY <1>0, <1>5 DEF StartScan, ScanWait
  <1>6. CASE Dial
    BY <1>0, <1>6 DEF Dial, Failed
  <1>7. CASE DialOk \/ BringUpOk
    BY <1>0, <1>7 DEF DialOk, BringUpOk
  <1>8. CASE DialFails
    <2>1. target'.peer = target.peer
      BY <1>0, <1>8 DEF DialFails, LinkTypeOK
    <2> QED BY <1>0, <1>8, <2>1 DEF DialFails, Failed
  <1>9. CASE BringUpFails
    BY <1>0, <1>9 DEF BringUpFails, Failed
  <1>10. CASE OnLinkUp
    BY <1>0, <1>10 DEF OnLinkUp
  <1>11. CASE Done
    BY <1>0, <1>11 DEF Done
  <1>12. CASE Gone \/ OnDisconnect
    BY <1>0, <1>12 DEF Gone, OnDisconnect
  <1>13. CASE EndStart \/ EndClear
    BY <1>0, <1>13 DEF EndStart, EndClear
  <1>14. CASE EndCancel \/ EndHangUp
    BY <1>0, <1>14 DEF EndCancel, EndHangUp
  <1>15. CASE EndKillTask
    BY <1>0, <1>15 DEF EndKillTask
  <1>16. CASE EndDeleteClient
    BY <1>0, <1>16 DEF EndDeleteClient, Released
  <1>17. CASE EndDeinit \/ EndDeinitFails \/ EndFinish
    BY <1>0, <1>17 DEF EndDeinit, EndDeinitFails, EndFinish
  <1> QED BY <1>1, <1>2, <1>3, <1>4, <1>5, <1>6, <1>7, <1>8, <1>9, <1>10, <1>11, <1>12, <1>13, <1>14, <1>15, <1>16,
             <1>17 DEF LinkNext, ConnTask, EndStep, Aside, Starting

-----------------------------------------------------------------------------
LEMMA LinkInductive == LinkInv /\ [LinkNext]_hostVars => LinkInv'
  BY LinkTyped, TeardownStays DEF LinkInv, Teardown

LEMMA LinkInvariant == LinkSpec => []LinkInv
  BY LinkInitially, LinkInductive, PTL DEF LinkSpec

(* The link's variables keep their types: no bond beyond kMaxBonds, and a  *)
(* plan that never runs below nothing left.                                *)
THEOREM LinkTypes == LinkSpec => []LinkTypeOK
  BY LinkInvariant, PTL DEF LinkInv

(* end() deletes the task and the client in the order that leaves neither  *)
(* in use, whichever callback comes when (BleKeyboardHost::end()).         *)
THEOREM TeardownInOrder == LinkSpec => []TornDownInOrder
  BY LinkInvariant, PTL DEF LinkInv

(* isConnected() is backed by a link (onLinkUp(), onLinkDown()).           *)
THEOREM ConnectionHasLink == LinkSpec => []ConnectedIsLinked
  BY LinkInvariant, PTL DEF LinkInv
=============================================================================
