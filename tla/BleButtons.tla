----------------------------- MODULE BleButtons -----------------------------
(***************************************************************************)
(* BleKeyboardHost, from a HID report to the two rings the application     *)
(* drains: decoded keys (popKey) and raw button edges (popRawButton).      *)
(* Reports and link drops run on the NimBLE task and overtake poll(),      *)
(* which runs on the main loop and clears what both sides share in several *)
(* unlocked stores; between two of its actions here a report may come in.  *)
(*                                                                         *)
(* A byte of a report is the set of its bits.  The rings are the number of *)
(* events in them; what was pushed is judged when it is pushed.            *)
(***************************************************************************)
EXTENDS Naturals, Sequences, FiniteSetsExt

CONSTANTS
  Report,         \* report ids
  Keyboard, Bare, \* the ids whose reports have key slots, after a modifier byte or without
  AxisPad,        \* the ids of 5 or 6 bytes: a status byte and axes
  Bytes, Bit,     \* a payload is Bytes bytes of bits in Bit
  Frames,         \* what the remotes send
  Preferred,      \* the byte the Report Map hints at, 0 when none
  GenericAlways,  \* a consumer page, or no keyboard page: keyboard reports go to the fallback too
  RollOver,       \* the usage that stands for too many keys
  ZoneUsage,      \* the usage of an axis byte, {} when it rests in the centre
  TapId,          \* the report id (0xFF) of a key no byte edge carries
  RestSlots,      \* rawRest_
  RawCap, KeyCap  \* edges and keys the rings hold

Byte == SUBSET Bit
Payload == [1..Bytes -> Byte]
Frame == [id : Report, bytes : Payload]

ASSUME ButtonsAssumption ==
  /\ Bytes \in Nat /\ Bytes >= 2
  /\ Frames \subseteq Frame
  /\ Preferred \in 0..Bytes /\ RollOver \in Byte /\ ZoneUsage \in [Byte -> Byte]
  /\ TapId \notin Report
  /\ RestSlots \in Nat \ {0} /\ RawCap \in Nat \ {0} /\ KeyCap \in Nat \ {0}

Code == [id : Report \cup {TapId}, at : 0..Bytes, value : Byte]
NoCode == [id |-> TapId, at |-> 0, value |-> {}]
NoPayload == [i \in 1..Bytes |-> {}]
Rest == [id : Report, frames : 0..2, rest : Payload, prev : Payload]
PollAt == {"idle", "held", "keys", "generic", "raw"}

VARIABLES
  linked,       \* a remote is subscribed
  silent,       \* the last report is older than kReleaseTimeoutMs
  poll,         \* where poll() stands
  prevKeys, held, lastGeneric, keys,
  rests,        \* rawRest_
  btn,          \* rawCode_, rawReports_ > 1, rawDropped_
  raw,          \* the raw ring, with the presses in it whose release is not
  seen,         \* the keys of the last keyboard report of this link
  excuses       \* what may have made poll() forget the keys since the last keyboard report
buttonsVars == <<linked, silent, poll, prevKeys, held, lastGeneric, keys, rests, btn, raw, seen, excuses>>

NoButton == [code |-> NoCode, streamed |-> FALSE, dropped |-> FALSE]
EmptyRaw == [used |-> 0, owed |-> {}, alone |-> FALSE]

ButtonsTypeOK ==
  /\ linked \in BOOLEAN /\ silent \in BOOLEAN /\ held \in BOOLEAN
  /\ poll \in PollAt
  /\ prevKeys \subseteq Byte /\ lastGeneric \in Byte /\ keys \in 0..KeyCap
  /\ rests \in Seq(Rest) /\ Len(rests) <= RestSlots
  /\ btn \in [code : Code, streamed : BOOLEAN, dropped : BOOLEAN]
  /\ raw \in [used : 0..RawCap, owed : SUBSET Code, alone : BOOLEAN]
  /\ seen \subseteq Byte /\ excuses \subseteq {"silence", "overtaken"}

ButtonsInit ==
  /\ linked = FALSE /\ silent = TRUE /\ poll = "idle"
  /\ prevKeys = {} /\ held = FALSE /\ lastGeneric = {} /\ keys = 0
  /\ rests = <<>> /\ btn = NoButton /\ raw = EmptyRaw
  /\ seen = {} /\ excuses = {}

-----------------------------------------------------------------------------
(* The key decode: key slots against the report before, then the fallback  *)
(* for remotes that are no keyboards.                                      *)
Shaped(f) == f.id \in Keyboard \cup Bare
Slots(f) == IF f.id \in Bare THEN 1..Bytes ELSE 2..Bytes
KeysOf(f) == IF Shaped(f) THEN {f.bytes[i] : i \in Slots(f)} \ {{}} ELSE {}
Pressable(f) == KeysOf(f) \ {RollOver}
NewKeys(f) == Pressable(f) \ prevKeys
FirstSlot(f, S) == CHOOSE i \in 1..Bytes : f.bytes[i] \in S /\ \A j \in 1..Bytes : f.bytes[j] \in S => i <= j

TryGeneric(f) == Pressable(f) = {} /\ (GenericAlways \/ ~Shaped(f))
CodeAt(f) ==
  IF Preferred # 0 /\ f.bytes[Preferred] # {} THEN Preferred
  ELSE IF \E i \in 1..Bytes : f.bytes[i] # {} THEN FirstSlot(f, Byte \ {{}}) ELSE 0
GenericCode(f) == IF CodeAt(f) = 0 THEN {} ELSE f.bytes[CodeAt(f)]
AxisPair(f) == TryGeneric(f) /\ CodeAt(f) \in {0, 1} /\ f.id \in Keyboard \cup Bare \cup AxisPad
PressEdge(f) == ~(GenericCode(f) \subseteq lastGeneric)
ReleaseEdge(f) ==
  /\ GenericCode(f) # {} /\ GenericCode(f) # lastGeneric
  /\ GenericCode(f) \subseteq lastGeneric
GenericUsage(f) ==
  CASE AxisPair(f) /\ ReleaseEdge(f)                    -> ZoneUsage[f.bytes[2]]
    [] TryGeneric(f) /\ ~AxisPair(f) /\ PressEdge(f)    -> GenericCode(f)
    [] OTHER                                           -> {}

Decoded(f) == NewKeys(f) \cup ({GenericUsage(f)} \ {{}})
FramePress(f) == IF NewKeys(f) # {} THEN f.bytes[FirstSlot(f, NewKeys(f))] ELSE GenericUsage(f)
LastGeneric(f) ==
  IF TryGeneric(f) THEN GenericCode(f) ELSE IF NewKeys(f) # {} THEN {} ELSE lastGeneric

(* The raw decode: what rests is learned from frames that only clear or    *)
(* only add bits; a button is the first byte off its rest.                 *)
RawBytes(f) == IF f.id \in Keyboard THEN [f.bytes EXCEPT ![1] = {}] ELSE f.bytes
SlotOf(id) == CHOOSE s \in 1..Len(rests) : rests[s].id = id
NewRest(id) == [id |-> id, frames |-> 0, rest |-> NoPayload, prev |-> NoPayload]
Known(id) == \E s \in 1..Len(rests) : rests[s].id = id
RestOf(id) == IF Known(id) THEN rests[SlotOf(id)] ELSE NewRest(id)
RestAt(id) == IF Known(id) THEN SlotOf(id) ELSE IF Len(rests) < RestSlots THEN Len(rests) + 1 ELSE RestSlots
Learned(f) ==
  LET r == RestOf(f.id)
      b == RawBytes(f)
      adds == \E i \in 1..Bytes : ~(b[i] \subseteq r.prev[i])
      clears == \E i \in 1..Bytes : ~(r.prev[i] \subseteq b[i])
  IN [id |-> f.id, frames |-> IF r.frames < 2 THEN r.frames + 1 ELSE 2, prev |-> b,
      rest |-> IF clears /\ ~adds THEN b ELSE IF adds /\ ~clears /\ r.frames = 1 THEN r.prev ELSE r.rest]
ButtonOf(f) ==
  LET b == RawBytes(f)
      off == {i \in 1..Bytes : b[i] # Learned(f).rest[i]}
  IN IF AxisPair(f) \/ off = {} THEN NoCode
     ELSE [id |-> f.id, at |-> Min(off), value |-> b[Min(off)]]

MutRoom(q, keep) == RawCap - q.used >= keep

(* pushRawLocked(): refused unless `keep` slots stay free after it.        *)
Room(q, keep) == RawCap - q.used > keep
MutPushPress(q, code, keep) ==
  IF Room(q, 0) THEN [q EXCEPT !.used = @ + 1, !.owed = @ \cup {code}] ELSE q

PushPress(q, code, keep) ==
  IF Room(q, keep) THEN [q EXCEPT !.used = @ + 1, !.owed = @ \cup {code}] ELSE q
PushRelease(q, code, keep) ==
  IF Room(q, keep) THEN [used |-> q.used + 1, owed |-> q.owed \ {code}, alone |-> q.alone \/ code \notin q.owed]
  ELSE q
Settled(q) == IF btn.code # NoCode /\ ~btn.dropped THEN PushRelease(q, btn.code, 0) ELSE q

(* ingestRawEdge(): a change of button settles the one before; the same    *)
(* frame after silence is a new press; anything else is a held button.     *)
NewPress(f) == ButtonOf(f) # NoCode /\ (ButtonOf(f) # btn.code \/ silent)
Edged(f) ==
  IF ButtonOf(f) = btn.code /\ ~NewPress(f) THEN raw
  ELSE IF NewPress(f) THEN PushPress(Settled(raw), ButtonOf(f), 1) ELSE Settled(raw)
Button(f) ==
  IF ButtonOf(f) = btn.code /\ ~NewPress(f) THEN [btn EXCEPT !.streamed = btn.code # NoCode]
  ELSE [code |-> ButtonOf(f), streamed |-> FALSE, dropped |-> NewPress(f) /\ ~Room(Settled(raw), 1)]
Tap(f) == [id |-> TapId, at |-> 0, value |-> FramePress(f)]
Tapped(f) ==
  LET open == IF Button(f).code # NoCode /\ ~Button(f).dropped THEN 1 ELSE 0
  IN IF FramePress(f) # {} /\ ~NewPress(f) /\ Room(Edged(f), 1 + open)
     THEN PushRelease(PushPress(Edged(f), Tap(f), 1 + open), Tap(f), open)
     ELSE Edged(f)

(* onReportIngest()                                                        *)
Ingest(f) ==
  /\ linked
  /\ silent' = FALSE
  /\ keys' = Min({KeyCap, keys + Cardinality(Decoded(f))})
  /\ held' = IF Shaped(f) THEN Pressable(f) # {} ELSE held
  /\ prevKeys' = IF Shaped(f) THEN KeysOf(f) ELSE prevKeys
  /\ lastGeneric' = LastGeneric(f)
  /\ rests' = IF RestAt(f.id) > Len(rests) THEN Append(rests, Learned(f))
              ELSE [rests EXCEPT ![RestAt(f.id)] = Learned(f)]
  /\ btn' = Button(f) /\ raw' = Tapped(f)
  /\ seen' = IF Shaped(f) THEN Pressable(f) ELSE seen
  /\ excuses' = (IF Shaped(f) THEN {} ELSE excuses)
                \cup (IF poll \in {"held", "keys", "generic"} THEN {"overtaken"} ELSE {})
  /\ UNCHANGED <<linked, poll>>

GoesSilent ==
  /\ ~silent /\ silent' = TRUE /\ excuses' = excuses \cup {"silence"}
  /\ UNCHANGED <<linked, poll, prevKeys, held, lastGeneric, keys, rests, btn, raw, seen>>

(* setupHid() subscribes; onLinkDown() forgets what the remote held.  A    *)
(* press whose link dropped is not owed a release.                         *)
Subscribed ==
  /\ ~linked /\ linked' = TRUE /\ lastGeneric' = {}
  /\ UNCHANGED <<silent, poll, prevKeys, held, keys, rests, btn, raw, seen, excuses>>
MutOnLinkDown ==
  /\ linked /\ linked' = FALSE
  /\ held' = FALSE /\ lastGeneric' = {} /\ rests' = <<>> /\ btn' = NoButton
  /\ raw' = [raw EXCEPT !.owed = {}] /\ seen' = {}
  /\ UNCHANGED <<silent, poll, prevKeys, keys, excuses>>

OnLinkDown ==
  /\ linked /\ linked' = FALSE
  /\ prevKeys' = {} /\ held' = FALSE /\ lastGeneric' = {} /\ rests' = <<>> /\ btn' = NoButton
  /\ raw' = [raw EXCEPT !.owed = {}] /\ seen' = {}
  /\ UNCHANGED <<silent, poll, keys, excuses>>

MutPollCheck ==
  /\ poll = "idle" /\ poll' = IF held \/ lastGeneric # {} THEN "held" ELSE "raw"
  /\ UNCHANGED <<linked, silent, prevKeys, held, lastGeneric, keys, rests, btn, raw, seen, excuses>>

(* poll(), one store at a time, then the raw release in one lock.          *)
PollCheck ==
  /\ poll = "idle"
  /\ poll' = IF (held \/ lastGeneric # {}) /\ silent THEN "held" ELSE "raw"
  /\ UNCHANGED <<linked, silent, prevKeys, held, lastGeneric, keys, rests, btn, raw, seen, excuses>>
PollHeld ==
  /\ poll = "held" /\ poll' = "keys" /\ held' = FALSE
  /\ UNCHANGED <<linked, silent, prevKeys, lastGeneric, keys, rests, btn, raw, seen, excuses>>
PollKeys ==
  /\ poll = "keys" /\ poll' = "generic" /\ prevKeys' = {}
  /\ UNCHANGED <<linked, silent, held, lastGeneric, keys, rests, btn, raw, seen, excuses>>
PollGeneric ==
  /\ poll = "generic" /\ poll' = "raw" /\ lastGeneric' = {}
  /\ UNCHANGED <<linked, silent, prevKeys, held, keys, rests, btn, raw, seen, excuses>>
MutPollRaw ==
  /\ poll = "raw" /\ poll' = "idle"
  /\ IF btn.streamed /\ silent /\ held THEN raw' = Settled(raw) /\ btn' = NoButton ELSE UNCHANGED <<raw, btn>>
  /\ UNCHANGED <<linked, silent, prevKeys, held, lastGeneric, keys, rests, seen, excuses>>

PollRaw ==
  /\ poll = "raw" /\ poll' = "idle"
  /\ IF btn.code # NoCode /\ btn.streamed /\ silent
     THEN raw' = Settled(raw) /\ btn' = NoButton
     ELSE UNCHANGED <<raw, btn>>
  /\ UNCHANGED <<linked, silent, prevKeys, held, lastGeneric, keys, rests, seen, excuses>>
PollStep == PollCheck \/ PollHeld \/ PollKeys \/ PollGeneric \/ PollRaw

PopKey ==
  /\ keys > 0 /\ keys' = keys - 1
  /\ UNCHANGED <<linked, silent, poll, prevKeys, held, lastGeneric, rests, btn, raw, seen, excuses>>
PopRawButton ==
  /\ raw.used > 0 /\ raw' = [raw EXCEPT !.used = @ - 1]
  /\ UNCHANGED <<linked, silent, poll, prevKeys, held, lastGeneric, keys, rests, btn, seen, excuses>>

(* end(), once the stack is down and no report can come.                   *)
EndButtons ==
  /\ ~linked
  /\ held' = FALSE /\ lastGeneric' = {} /\ keys' = 0 /\ rests' = <<>>
  /\ btn' = NoButton /\ raw' = EmptyRaw
  /\ UNCHANGED <<linked, silent, poll, prevKeys, seen, excuses>>

ButtonsNext ==
  \/ \E f \in Frames : Ingest(f)
  \/ GoesSilent \/ Subscribed \/ OnLinkDown \/ PollStep \/ PopKey \/ PopRawButton \/ EndButtons

ButtonsFairness == WF_buttonsVars(PollStep)   \* the main loop polls
ButtonsSpec == ButtonsInit /\ [][ButtonsNext]_buttonsVars /\ ButtonsFairness

-----------------------------------------------------------------------------
(* Every press in the raw ring gets exactly one release after it, whatever *)
(* the ring refuses: a press goes in only with room left for its release,  *)
(* and the button it opened is settled before the next (pushRawLocked,     *)
(* ingestRawEdge, poll).                                                   *)
EdgesPaired ==
  /\ ~raw.alone
  /\ raw.owed = IF btn.code # NoCode /\ ~btn.dropped THEN {btn.code} ELSE {}
  /\ raw.owed # {} => raw.used < RawCap

(* No press is swallowed: a key that the last report of this link did not *)
(* hold is decoded from the next report that holds it, whatever poll(), a  *)
(* link drop or end() cleared or left behind (onReportIngest).             *)
PressesReported == linked => \A f \in Frames : Pressable(f) \ seen \subseteq Decoded(f)

(* No press is reported twice: a key that the last report already held is  *)
(* decoded from the next only after a silence, or when the last one        *)
(* overtook a poll() that then cleared what that report had just stored.   *)
(* It is what poll() says of itself ("we do NOT synthesize host-side       *)
(* auto-repeat ... one physical press == one event"); its header and the   *)
(* docs promise repeats of a held key, which nothing in the code makes.    *)
RepeatsExplained == linked => \A f \in Frames : Decoded(f) \cap Pressable(f) \cap seen # {} => excuses # {}

(* A remote that streams a held button and falls silent has it released.   *)
SilenceReleases == <>[]silent => []<>(btn.code = NoCode \/ ~btn.streamed)

=============================================================================
