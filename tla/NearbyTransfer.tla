--------------------------- MODULE NearbyTransfer ---------------------------
(***************************************************************************)
(* A file sent between two readers.  The two ReliableTransferSessions stop *)
(* and wait, chunk by chunk, over a radio that loses, repeats, delays and  *)
(* reorders: `air` holds every packet sent so far, and any of them may     *)
(* arrive at any time, or never.                                           *)
(*                                                                         *)
(* On the receiver a packet comes in on the Wi-Fi task, which never waits  *)
(* for the event mutex, and a polling task takes it out while the owner of *)
(* the EspNowTransport may be in end() or in begin().  The application     *)
(* drives the sessions: it sends the chunk that is next until it is        *)
(* acknowledged, and answers every chunk with the one it wants next.       *)
(***************************************************************************)
EXTENDS Naturals, Sequences

CONSTANTS
  Chunks,       \* chunks of the file
  Offset,       \* where each begins; the last is totalBytes_
  EventCount    \* EVENT_COUNT

ASSUME TransferAssumption ==
  /\ Chunks \in Nat \ {0} /\ EventCount \in Nat \ {0}
  /\ Offset \in [0..Chunks -> Nat] /\ Offset[0] = 0
  /\ \A i, j \in 0..Chunks : i <= j => Offset[i] <= Offset[j]

VARIABLES
  sender, receiver,   \* nextSequence_ and transferredBytes_ of each session
  file,               \* the chunks the receiver's application wrote
  air,                \* every packet sent
  owner, goal,        \* where the owner stands in end() and begin(), and which of them it wants
  started, open,      \* started_, the callback registered with activeTransport = this
  mutex, user,        \* eventMutex_, and the task that holds it
  shut, polling,      \* pollState_: its POLL_SHUTDOWN bit and its count
  ring,               \* events_
  overflow,
  poller, event,      \* where poll() stands, and what it took out
  callback            \* what the Wi-Fi task is handing in
sessionVars == <<sender, receiver, file, air>>
ownerVars == <<owner, goal, started, open, shut>>
transferVars == <<sessionVars, ownerVars, mutex, user, polling, ring, overflow, poller, event, callback>>

Sequence == 0..Chunks
Packet == [type : {"data", "ack"}, seq : Sequence]
Data(n) == [type |-> "data", seq |-> n]
Ack(n) == [type |-> "ack", seq |-> n]
Length(n) == Offset[n + 1] - Offset[n]
None == "none"

OwnerStep ==
  {"idle", "stop", "bar", "barCold", "unregister", "drain", "lock", "delete", "reset", "create", "init", "register",
   "unbar"}

TransferTypeOK ==
  /\ sender \in [next : Sequence, bytes : Nat] /\ receiver \in [next : Sequence, bytes : Nat]
  /\ file \in Seq(Sequence) /\ air \subseteq Packet
  /\ owner \in OwnerStep /\ goal \in {"begin", "end"}
  /\ started \in BOOLEAN /\ open \in BOOLEAN /\ shut \in BOOLEAN
  /\ mutex \in {"null", "live", "deleted"} /\ user \in {None, "poll", "callback"}
  /\ polling \in 0..1 /\ ring \in Seq(Sequence) /\ Len(ring) <= EventCount /\ overflow \in BOOLEAN
  /\ poller \in {"idle", "wait", "inside", "leave", "handle"} /\ event \in Seq(Sequence) /\ Len(event) <= 1
  /\ callback \in [at : {"idle", "entered", "inside"}, seq : Sequence]

TransferInit ==
  /\ sender = [next |-> 0, bytes |-> 0] /\ receiver = [next |-> 0, bytes |-> 0]
  /\ file = <<>> /\ air = {}
  /\ owner = "idle" /\ goal = "end" /\ started = FALSE /\ open = FALSE /\ shut = TRUE
  /\ mutex = "null" /\ user = None /\ polling = 0 /\ ring = <<>> /\ overflow = FALSE
  /\ poller = "idle" /\ event = <<>> /\ callback = [at |-> "idle", seq |-> 0]

-----------------------------------------------------------------------------
(* The sender: the next chunk again and again, until acceptAcknowledgement *)
(* and advanceSentBytes move on.                                           *)
SendChunk ==
  /\ sender.next < Chunks /\ air' = air \cup {Data(sender.next)}
  /\ UNCHANGED <<sender, receiver, file, ownerVars, mutex, user, polling, ring, overflow, poller, event, callback>>
Acknowledged(n) ==
  /\ Ack(n) \in air /\ n = sender.next + 1
  /\ sender' = [next |-> n,
                bytes |-> sender.bytes + IF sender.bytes + Length(n - 1) <= Offset[Chunks] THEN Length(n - 1) ELSE 0]
  /\ UNCHANGED <<receiver, file, air, ownerVars, mutex, user, polling, ring, overflow, poller, event, callback>>

MutAccepts(n) == receiver.bytes + Length(n) <= Offset[Chunks]

(* The receiver: acceptReceivedChunk on what poll() returned, and an       *)
(* answer whether it was accepted or not; send() needs the transport up.   *)
Accepts(n) == n = receiver.next /\ receiver.bytes + Length(n) <= Offset[Chunks]
MutHandleEvent ==
  /\ poller = "handle" /\ poller' = "idle" /\ event' = <<>>
  /\ IF Accepts(event[1])
     THEN receiver' = [next |-> receiver.next + 1, bytes |-> receiver.bytes + Length(event[1])]
          /\ file' = Append(file, event[1])
     ELSE UNCHANGED <<receiver, file>>
  /\ air' = IF started /\ Accepts(event[1]) THEN air \cup {Ack(receiver'.next)} ELSE air
  /\ UNCHANGED <<sender, ownerVars, mutex, user, polling, ring, overflow, callback>>

HandleEvent ==
  /\ poller = "handle" /\ poller' = "idle" /\ event' = <<>>
  /\ IF Accepts(event[1])
     THEN receiver' = [next |-> receiver.next + 1, bytes |-> receiver.bytes + Length(event[1])]
          /\ file' = Append(file, event[1])
     ELSE UNCHANGED <<receiver, file>>
  /\ air' = IF started THEN air \cup {Ack(receiver'.next)} ELSE air
  /\ UNCHANGED <<sender, ownerVars, mutex, user, polling, ring, overflow, callback>>

-----------------------------------------------------------------------------
(* poll(): past the bar, into the mutex, out again, off the count.         *)
PollEnter ==
  /\ poller = "idle" /\ ~shut
  /\ poller' = "wait" /\ polling' = polling + 1
  /\ UNCHANGED <<sessionVars, ownerVars, mutex, user, ring, overflow, event, callback>>
PollTake ==
  /\ poller = "wait"
  /\ IF mutex = "null" THEN poller' = "leave" /\ UNCHANGED user
     ELSE user = None /\ poller' = "inside" /\ user' = "poll"
  /\ UNCHANGED <<sessionVars, ownerVars, mutex, polling, ring, overflow, event, callback>>
MutPollGive ==
  /\ poller = "inside" /\ poller' = (IF started THEN "leave" ELSE "idle") /\ user' = None
  /\ IF started /\ ring # <<>> THEN event' = <<Head(ring)>> /\ ring' = Tail(ring) ELSE UNCHANGED <<event, ring>>
  /\ UNCHANGED <<sessionVars, ownerVars, mutex, polling, overflow, callback>>

PollGive ==
  /\ poller = "inside" /\ poller' = "leave" /\ user' = None
  /\ IF started /\ ring # <<>> THEN event' = <<Head(ring)>> /\ ring' = Tail(ring) ELSE UNCHANGED <<event, ring>>
  /\ UNCHANGED <<sessionVars, ownerVars, mutex, polling, overflow, callback>>
PollLeave ==
  /\ poller = "leave" /\ polling' = polling - 1
  /\ poller' = IF event = <<>> THEN "idle" ELSE "handle"
  /\ UNCHANGED <<sessionVars, ownerVars, mutex, user, ring, overflow, event, callback>>
PollTask == PollEnter \/ PollTake \/ PollGive \/ PollLeave \/ HandleEvent

(* onReceive() and enqueueFromCallback(): a mutex that is taken, or a full *)
(* ring, costs the packet and is latched as an overflow.                   *)
Arrives(n) ==
  /\ callback.at = "idle" /\ open /\ Data(n) \in air
  /\ callback' = [at |-> "entered", seq |-> n]
  /\ UNCHANGED <<sessionVars, ownerVars, mutex, user, polling, ring, overflow, poller, event>>
Turned == mutex = "null" \/ user # None
TurnedAway ==
  /\ callback.at = "entered" /\ Turned
  /\ callback' = [callback EXCEPT !.at = "idle"] /\ overflow' = TRUE
  /\ UNCHANGED <<sessionVars, ownerVars, mutex, user, polling, ring, poller, event>>
LetIn ==
  /\ callback.at = "entered" /\ ~Turned
  /\ callback' = [callback EXCEPT !.at = "inside"] /\ user' = "callback"
  /\ UNCHANGED <<sessionVars, ownerVars, mutex, polling, ring, overflow, poller, event>>
Store ==
  /\ callback.at = "inside" /\ callback' = [callback EXCEPT !.at = "idle"] /\ user' = None
  /\ IF Len(ring) >= EventCount THEN overflow' = TRUE /\ UNCHANGED ring
     ELSE ring' = Append(ring, callback.seq) /\ UNCHANGED overflow
  /\ UNCHANGED <<sessionVars, ownerVars, mutex, polling, poller, event>>
CallbackTask == TurnedAway \/ LetIn \/ Store

-----------------------------------------------------------------------------
(* end() and begin(), which starts with an end() and has one for every     *)
(* failure once the mutex is made.                                         *)
At(here, next) == owner = here /\ owner' = next

Call(what) ==
  /\ At("idle", "stop") /\ goal' = what
  /\ UNCHANGED <<sessionVars, started, open, shut, mutex, user, polling, ring, overflow, poller, event, callback>>
Stop ==   \* wasStarted is taken here
  /\ owner = "stop" /\ started' = FALSE
  /\ owner' = IF started THEN "bar" ELSE "barCold"
  /\ UNCHANGED <<sessionVars, goal, open, shut, mutex, user, polling, ring, overflow, poller, event, callback>>
Bar ==
  /\ At("bar", "unregister") \/ At("barCold", "drain")
  /\ shut' = TRUE /\ open' = FALSE
  /\ UNCHANGED <<sessionVars, goal, started, mutex, user, polling, ring, overflow, poller, event, callback>>
(* External: once esp_now_unregister_recv_cb() and esp_now_deinit() return *)
(* no callback runs, for both are serialised with it on the Wi-Fi task.    *)
Unregister ==
  /\ At("unregister", "drain") /\ callback.at = "idle"
  /\ UNCHANGED <<sessionVars, goal, started, open, shut, mutex, user, polling, ring, overflow, poller, event, callback>>
MutDrain ==
  /\ owner = "drain"
  /\ IF mutex = "null" THEN owner' = "reset" ELSE owner' = "lock"
  /\ UNCHANGED <<sessionVars, goal, started, open, shut, mutex, user, polling, ring, overflow, poller, event, callback>>

Drain ==
  /\ owner = "drain"
  /\ IF mutex = "null" THEN owner' = "reset" ELSE polling = 0 /\ owner' = "lock"
  /\ UNCHANGED <<sessionVars, goal, started, open, shut, mutex, user, polling, ring, overflow, poller, event, callback>>
Delete ==
  /\ At("lock", "delete") /\ user = None /\ mutex' = "deleted"
  /\ UNCHANGED <<sessionVars, goal, started, open, shut, user, polling, ring, overflow, poller, event, callback>>
Unset ==
  /\ At("delete", "reset") /\ mutex' = "null"
  /\ UNCHANGED <<sessionVars, goal, started, open, shut, user, polling, ring, overflow, poller, event, callback>>
Reset ==
  /\ owner = "reset" /\ ring' = <<>> /\ overflow' = FALSE
  /\ owner' = IF goal = "begin" THEN "create" ELSE "idle"
  /\ UNCHANGED <<sessionVars, goal, started, open, shut, mutex, user, polling, poller, event, callback>>
EndCall == Stop \/ Bar \/ Unregister \/ Drain \/ Delete \/ Unset \/ Reset

Create ==
  /\ owner = "create"
  /\ \/ owner' = "init" /\ mutex' = "live"
     \/ owner' = "idle" /\ UNCHANGED mutex
  /\ UNCHANGED <<sessionVars, goal, started, open, shut, user, polling, ring, overflow, poller, event, callback>>
InitRadio ==
  /\ owner = "init"
  /\ \/ owner' = "register" /\ started' = TRUE /\ UNCHANGED goal
     \/ owner' = "stop" /\ goal' = "end" /\ UNCHANGED started
  /\ UNCHANGED <<sessionVars, open, shut, mutex, user, polling, ring, overflow, poller, event, callback>>
Register ==
  /\ owner = "register"
  /\ \/ owner' = "unbar" /\ open' = TRUE /\ UNCHANGED goal
     \/ owner' = "stop" /\ goal' = "end" /\ UNCHANGED open
  /\ UNCHANGED <<sessionVars, started, shut, mutex, user, polling, ring, overflow, poller, event, callback>>
Unbar ==   \* pollState_.store(0)
  /\ At("unbar", "idle") /\ shut' = FALSE /\ polling' = 0
  /\ UNCHANGED <<sessionVars, goal, started, open, mutex, user, ring, overflow, poller, event, callback>>
BeginCall == Create \/ InitRadio \/ Register \/ Unbar

TransferNext ==
  \/ SendChunk \/ PollTask \/ CallbackTask \/ EndCall \/ BeginCall
  \/ \E n \in Sequence : Acknowledged(n) \/ Arrives(n)
  \/ \E what \in {"begin", "end"} : Call(what)

(* Every task runs, and a task that waits for the mutex gets it; of the    *)
(* moments when a receiver has room, a packet sent for ever meets one.     *)
Quiet == user = None /\ Len(ring) < EventCount
TransferFairness ==
  /\ WF_transferVars(SendChunk) /\ SF_transferVars(PollTask) /\ WF_transferVars(CallbackTask)
  /\ WF_transferVars(EndCall) /\ WF_transferVars(BeginCall)
  /\ WF_transferVars(Acknowledged(sender.next + 1))
  /\ SF_transferVars(Arrives(sender.next) /\ Quiet)
  /\ SF_transferVars(LetIn /\ callback.seq = sender.next /\ Quiet)
TransferSpec == TransferInit /\ [][TransferNext]_transferVars /\ TransferFairness

-----------------------------------------------------------------------------
(* Whatever the radio loses, repeats or reorders and whenever the          *)
(* transport is torn down, the receiver writes each chunk once and in its  *)
(* order, and the sender never counts one that is not written              *)
(* (acceptReceivedChunk, acceptAcknowledgement).                           *)
Delivery == INSTANCE FileDelivery WITH written <- file, confirmed <- sender.next
FileInOrder == Delivery!DeliverySpec

(* The two ends count the same bytes once they agree on the chunk.         *)
BytesAgree ==
  /\ sender.bytes = Offset[sender.next] /\ receiver.bytes = Offset[receiver.next]
  /\ receiver.next \in {sender.next, sender.next + 1}

(* end() deletes the mutex only when neither poll() nor the callback can   *)
(* still reach it, and what came in before it is gone afterwards.          *)
QuietTeardown ==
  /\ mutex = "deleted" => poller \notin {"wait", "inside"} /\ callback.at = "idle"
  /\ mutex = "null" /\ owner = "idle" => ring = <<>> /\ ~overflow

(* end() and begin() return, whatever the polling task and the radio do.   *)
OwnerReturns == owner # "idle" ~> owner = "idle"

(* A transfer whose receiver stays up, and is not kept from every packet   *)
(* by the ones before it, is finished and known to be.                     *)
TransferFinishes ==
  <>[](started /\ ~shut) /\ []<>(Quiet /\ callback.at = "idle") => <>(sender.next = Chunks)
=============================================================================
