----------------------------- MODULE NetworkProofs -----------------------------
(***************************************************************************)
(* Proofs about NearbyTransfer and about MCNetwork, which runs it with the *)
(* keyboard host.                                                          *)
(*                                                                         *)
(* NearbyTransfer, for a file of any number of chunks of any lengths and a *)
(* ring of any size.  Sessions is what the two ends and the radio may      *)
(* disagree about; Polled and Owned say which steps of end() and begin() a *)
(* poll and a callback can meet.                                           *)
(***************************************************************************)
EXTENDS MCNetwork, BleKeyboardHostProofs

(* A chunk that was sent: nothing on its way is ahead of the sender.       *)
WasSent(n) == n \in Nat /\ n < Chunks /\ n <= sender.next
Sessions ==
  /\ Len(file) = receiver.next /\ \A i \in 1..Len(file) : file[i] = i - 1
  /\ sender.next <= receiver.next /\ receiver.next <= sender.next + 1
  /\ \A k \in air : IF k.type = "data" THEN WasSent(k.seq) ELSE k.seq <= receiver.next
  /\ \A i \in 1..Len(ring) : WasSent(ring[i])
  /\ \A i \in 1..Len(event) : WasSent(event[i])
  /\ callback.at # "idle" => WasSent(callback.seq)
  /\ sender.bytes = Offset[sender.next] /\ receiver.bytes = Offset[receiver.next]

Polled ==
  /\ polling = IF poller \in {"wait", "inside", "leave"} THEN 1 ELSE 0
  /\ poller = "handle" => event # <<>>
  /\ poller \in {"idle", "wait", "inside"} => event = <<>>

Owned ==
  /\ owner \in {"unregister", "drain", "lock", "delete", "reset", "create", "init", "register", "unbar"} => shut
  /\ owner \in {"lock", "delete", "reset", "create", "init", "register", "unbar"} => polling = 0
  /\ owner \in {"unregister", "drain", "lock", "delete", "reset", "create", "init", "register", "barCold"} => ~open
  /\ owner \in {"lock", "init", "register", "unbar"} => mutex = "live"
  /\ owner \in {"reset", "create"} => mutex = "null"
  /\ owner = "register" => started
  /\ mutex = "null" => shut /\ polling = 0
  /\ mutex = "deleted" <=> owner = "delete"
  /\ open => mutex = "live" /\ (started \/ owner = "bar")
  /\ callback.at # "idle" => open \/ owner = "unregister"
  /\ owner = "create" \/ (mutex = "null" /\ owner = "idle") => ring = <<>> /\ ~overflow

TransferInv == TransferTypeOK /\ Sessions /\ Polled /\ Owned

-----------------------------------------------------------------------------
THEOREM TransferInitially == TransferInit => TransferInv
  <1> SUFFICES ASSUME TransferInit PROVE TransferInv
    OBVIOUS
  <1>1. 0 \in Sequence /\ 0 \in 0..1 /\ <<>> \in Seq(Sequence) /\ Len(<<>>) = 0
    BY TransferAssumption DEF Sequence
  <1>2. TransferTypeOK
    <2>1. Len(ring) <= EventCount /\ Len(event) <= 1
      BY <1>1, TransferAssumption DEF TransferInit
    <2>2. air \subseteq Packet
      BY DEF TransferInit
    <2> QED BY <1>1, <2>1, <2>2 DEF TransferInit, TransferTypeOK, OwnerStep, None
  <1>3. Sessions
    BY <1>1, TransferAssumption DEF TransferInit, Sessions
  <1> QED BY <1>1, <1>2, <1>3 DEF TransferInit, TransferInv, Polled, Owned

LEMMA PolledStays == TransferInv /\ [TransferNext]_transferVars => Polled'
  <1> SUFFICES ASSUME TransferInv, [TransferNext]_transferVars PROVE Polled'
    OBVIOUS
  <1> USE DEF TransferInv, Polled
  <1>1. CASE PollEnter \/ PollTake \/ PollLeave \/ HandleEvent
    BY <1>1 DEF PollEnter, PollTake, PollLeave, HandleEvent
  <1>2. CASE PollGive
    BY <1>2 DEF PollGive
  <1>3. CASE Unbar
    BY <1>3 DEF Unbar, At, Owned
  <1>4. CASE UNCHANGED <<poller, polling, event>>
    BY <1>4
  <1>5. CASE ~PollTask /\ ~Unbar
    <2>1. UNCHANGED <<poller, polling, event>>
      BY <1>5 DEF TransferNext, SendChunk, CallbackTask, TurnedAway, LetIn, Store, EndCall, Stop, Bar, Unregister,
                  Drain, Delete, Unset, Reset, BeginCall, Create, InitRadio, Register, Acknowledged, Arrives, Call,
                  transferVars, sessionVars, ownerVars, At
    <2> QED BY <1>4, <2>1
  <1> QED BY <1>1, <1>2, <1>3, <1>5 DEF PollTask

LEMMA OwnedStays == TransferInv /\ [TransferNext]_transferVars => Owned'
  <1> SUFFICES ASSUME TransferInv, [TransferNext]_transferVars PROVE Owned'
    OBVIOUS
  <1>0. Owned /\ Polled /\ owner \in OwnerStep /\ mutex \in {"null", "live", "deleted"} /\ polling \in 0..1
    BY DEF TransferInv, TransferTypeOK
  <1> USE <1>0 DEF Owned, ownerVars, sessionVars, At, OwnerStep
  <1>1. CASE SendChunk \/ HandleEvent \/ \E n \in Sequence : Acknowledged(n)
    BY <1>1 DEF SendChunk, HandleEvent, Acknowledged
  <1>2. CASE PollEnter
    BY <1>2 DEF PollEnter
  <1>3. CASE PollTake \/ PollGive \/ PollLeave
    BY <1>3 DEF PollTake, PollGive, PollLeave, Polled
  <1>4. CASE TurnedAway \/ LetIn \/ Store
    BY <1>4 DEF TurnedAway, LetIn, Store
  <1>5. CASE \E n \in Sequence : Arrives(n)
    BY <1>5 DEF Arrives
  <1>6. CASE \E what \in {"begin", "end"} : Call(what)
    BY <1>6 DEF Call
  <1>7. CASE Stop
    BY <1>7 DEF Stop
  <1>8. CASE Bar
    BY <1>8 DEF Bar
  <1>9. CASE Unregister
    BY <1>9 DEF Unregister
  <1>10. CASE Drain
    BY <1>10 DEF Drain
  <1>11. CASE Delete
    BY <1>11 DEF Delete
  <1>12. CASE Unset
    BY <1>12 DEF Unset
  <1>13. CASE Reset
    BY <1>13 DEF Reset
  <1>14. CASE Create
    BY <1>14 DEF Create
  <1>15. CASE InitRadio
    BY <1>15 DEF InitRadio
  <1>16. CASE Register
    BY <1>16 DEF Register
  <1>17. CASE Unbar
    BY <1>17 DEF Unbar
  <1>18. CASE UNCHANGED transferVars
    BY <1>18 DEF transferVars
  <1> QED BY <1>1, <1>2, <1>3, <1>4, <1>5, <1>6, <1>7, <1>8, <1>9, <1>10, <1>11, <1>12, <1>13, <1>14, <1>15, <1>16,
             <1>17, <1>18 DEF TransferNext, PollTask, CallbackTask, EndCall, BeginCall

-----------------------------------------------------------------------------
LEMMA SentSequence == ASSUME NEW n, WasSent(n) PROVE n \in Sequence /\ n + 1 \in Sequence
  BY TransferAssumption DEF WasSent, Sequence

(* The offsets never leave the file, so a chunk in its turn is never       *)
(* refused for its length.                                                 *)
LEMMA ChunkFits ==
  ASSUME NEW n \in Nat, n < Chunks
  PROVE  /\ Offset[n] \in Nat /\ Offset[n + 1] \in Nat /\ Length(n) \in Nat
         /\ Offset[n] + Length(n) = Offset[n + 1] /\ Offset[n + 1] <= Offset[Chunks]
  <1>1. n \in 0..Chunks /\ n + 1 \in 0..Chunks /\ Chunks \in 0..Chunks /\ n <= n + 1 /\ n + 1 <= Chunks
    BY TransferAssumption
  <1>2. Offset[n] \in Nat /\ Offset[n + 1] \in Nat /\ Offset[n] <= Offset[n + 1] /\ Offset[n + 1] <= Offset[Chunks]
    BY <1>1, TransferAssumption
  <1> QED BY <1>2 DEF Length

(* What the application makes of a chunk that poll() returned.             *)
LEMMA Handled ==
  ASSUME TransferInv, HandleEvent
  PROVE  /\ WasSent(event[1]) /\ event # <<>>
         /\ \/ /\ event[1] = receiver.next
               /\ receiver' = [next |-> receiver.next + 1, bytes |-> Offset[receiver.next + 1]]
               /\ file' = Append(file, receiver.next)
            \/ UNCHANGED <<receiver, file>>
         /\ air' = air \/ air' = air \cup {Ack(receiver'.next)}
  <1>1. event # <<>> /\ event \in Seq(Sequence)
    BY DEF TransferInv, TransferTypeOK, HandleEvent, Polled
  <1>2. WasSent(event[1])
    BY <1>1 DEF TransferInv, Sessions
  <1>3. CASE Accepts(event[1])
    <2>1. event[1] = receiver.next /\ event[1] \in Nat /\ event[1] < Chunks
      BY <1>2, <1>3 DEF Accepts, WasSent
    <2>2. receiver.bytes + Length(event[1]) = Offset[receiver.next + 1]
      BY <2>1, ChunkFits DEF TransferInv, Sessions
    <2> QED BY <1>1, <1>2, <1>3, <2>1, <2>2 DEF HandleEvent
  <1>4. CASE ~Accepts(event[1])
    BY <1>1, <1>2, <1>4 DEF HandleEvent
  <1> QED BY <1>3, <1>4

(* What an acknowledgement tells the sender.                               *)
LEMMA Confirmed ==
  ASSUME TransferInv, NEW n \in Sequence, Acknowledged(n)
  PROVE  /\ n = sender.next + 1 /\ n <= receiver.next
         /\ sender' = [next |-> n, bytes |-> Offset[n]]
  <1>1. n = sender.next + 1 /\ sender.next \in Nat /\ n <= Chunks /\ Ack(n) \in air /\ n - 1 = sender.next
    BY TransferAssumption DEF TransferInv, TransferTypeOK, Acknowledged, Sequence
  <1>2. n <= receiver.next
    BY <1>1 DEF TransferInv, Sessions, Ack
  <1>3. sender.bytes + Length(n - 1) = Offset[n] /\ Offset[n] <= Offset[Chunks]
    <2>1. sender.bytes = Offset[sender.next] /\ sender.next < Chunks
      BY <1>1, TransferAssumption DEF TransferInv, Sessions
    <2> QED BY <1>1, <2>1, ChunkFits
  <1> QED BY <1>1, <1>2, <1>3 DEF Acknowledged

(* What the owner's calls leave of the types: the rest is not theirs.      *)
LEMMA OwnerTyped ==
  ASSUME TransferTypeOK, owner' \in OwnerStep, goal' \in {"begin", "end"},
         started' \in BOOLEAN, open' \in BOOLEAN, shut' \in BOOLEAN,
         mutex' \in {"null", "live", "deleted"}, polling' \in 0..1,
         ring' \in Seq(Sequence), Len(ring') <= EventCount, overflow' \in BOOLEAN,
         UNCHANGED <<sender, receiver, file, air, user, poller, event, callback>>
  PROVE  TransferTypeOK'
  BY DEF TransferTypeOK

LEMMA TransferTyped == TransferInv /\ [TransferNext]_transferVars => TransferTypeOK'
  <1> SUFFICES ASSUME TransferInv, [TransferNext]_transferVars PROVE TransferTypeOK'
    OBVIOUS
  <1>0. TransferTypeOK /\ Polled /\ EventCount \in Nat
    BY TransferAssumption DEF TransferInv
  <1> USE DEF TransferTypeOK, OwnerStep, None, At
  <1>1. CASE SendChunk
    <2>1. Data(sender.next) \in Packet
      BY <1>0 DEF Data, Packet
    <2> QED BY <1>0, <1>1, <2>1 DEF SendChunk, ownerVars
  <1>2. CASE \E n \in Sequence : Acknowledged(n)
    <2> PICK n \in Sequence : Acknowledged(n)
      BY <1>2
    <2>1. sender' \in [next : Sequence, bytes : Nat]
      BY Confirmed, TransferAssumption DEF Sequence
    <2> QED BY <1>0, <2>1 DEF Acknowledged, ownerVars
  <1>3. CASE HandleEvent
    <2>1. receiver' \in [next : Sequence, bytes : Nat] /\ file' \in Seq(Sequence)
      <3>1. CASE UNCHANGED <<receiver, file>>
        BY <1>0, <3>1
      <3>2. CASE /\ event[1] = receiver.next
                 /\ receiver' = [next |-> receiver.next + 1, bytes |-> Offset[receiver.next + 1]]
                 /\ file' = Append(file, receiver.next)
        <4>1. receiver.next \in Sequence /\ receiver.next + 1 \in Sequence
          BY <1>3, <3>2, Handled, SentSequence
        <4>2. Offset[receiver.next + 1] \in Nat
          BY <4>1, TransferAssumption DEF Sequence
        <4> QED BY <1>0, <3>2, <4>1, <4>2
      <3> QED BY <1>3, <3>1, <3>2, Handled
    <2>2. Ack(receiver'.next) \in Packet
      BY <2>1 DEF Ack, Packet
    <2>3. air' \subseteq Packet
      BY <1>0, <1>3, <2>2, Handled
    <2>4. event' \in Seq(Sequence) /\ Len(event') <= 1
      BY <1>3 DEF HandleEvent
    <2> QED BY <1>0, <1>3, <2>1, <2>3, <2>4 DEF HandleEvent, ownerVars
  <1>4. CASE PollEnter \/ PollTake \/ PollLeave
    BY <1>0, <1>4 DEF PollEnter, PollTake, PollLeave, Polled, sessionVars, ownerVars
  <1>5. CASE PollGive
    <2>1. ring # <<>> => /\ <<Head(ring)>> \in Seq(Sequence) /\ Len(<<Head(ring)>>) = 1
                         /\ Tail(ring) \in Seq(Sequence) /\ Len(Tail(ring)) <= EventCount
      BY <1>0
    <2>2. CASE started /\ ring # <<>>
      <3>0. event' = <<Head(ring)>> /\ ring' = Tail(ring)
        BY <1>5, <2>2 DEF PollGive
      <3>1. event' \in Seq(Sequence) /\ Len(event') <= 1 /\ ring' \in Seq(Sequence) /\ Len(ring') <= EventCount
        BY <2>1, <2>2, <3>0
      <3> QED BY <1>0, <1>5, <3>1 DEF PollGive, sessionVars, ownerVars
    <2>3. CASE ~(started /\ ring # <<>>)
      BY <1>0, <1>5, <2>3 DEF PollGive, sessionVars, ownerVars
    <2> QED BY <2>2, <2>3
  <1>6. CASE TurnedAway
    BY <1>0, <1>6 DEF TurnedAway, sessionVars, ownerVars
  <1>7. CASE LetIn
    BY <1>0, <1>7 DEF LetIn, sessionVars, ownerVars
  <1>8. CASE Store
    <2>1. Append(ring, callback.seq) \in Seq(Sequence) /\ Len(Append(ring, callback.seq)) = Len(ring) + 1
          /\ Len(ring) \in Nat
      BY <1>0
    <2>2. CASE Len(ring) >= EventCount
      BY <1>0, <1>8, <2>2 DEF Store, sessionVars, ownerVars
    <2>3. CASE ~(Len(ring) >= EventCount)
      <3>1. /\ ring' = Append(ring, callback.seq) /\ user' = None
            /\ callback' \in [at : {"idle", "entered", "inside"}, seq : Sequence]
            /\ UNCHANGED <<sender, receiver, file, air, owner, goal, started, open, shut, mutex, polling, overflow,
                           poller, event>>
        BY <1>0, <1>8, <2>3 DEF Store, sessionVars, ownerVars
      <3>2. ring' \in Seq(Sequence) /\ Len(ring') <= EventCount
        BY <1>0, <2>1, <2>3, <3>1
      <3> QED BY <1>0, <3>1, <3>2
    <2> QED BY <2>2, <2>3
  <1>9. CASE \E n \in Sequence : Arrives(n)
    BY <1>0, <1>9 DEF Arrives, sessionVars, ownerVars
  <1>10. CASE \E what \in {"begin", "end"} : Call(what)
    <2>1. /\ owner' \in OwnerStep /\ goal' \in {"begin", "end"}
          /\ UNCHANGED <<sender, receiver, file, air, user, poller, event, callback>>
          /\ UNCHANGED <<started, open, shut, mutex, polling, ring, overflow>>
      BY <1>0, <1>10 DEF Call, sessionVars
    <2> QED BY <1>0, <2>1, OwnerTyped
  <1>11. CASE Stop \/ Bar
    <2>1. /\ owner' \in OwnerStep /\ started' \in BOOLEAN /\ open' \in BOOLEAN /\ shut' \in BOOLEAN
          /\ UNCHANGED <<sender, receiver, file, air, user, poller, event, callback>>
          /\ UNCHANGED <<goal, mutex, polling, ring, overflow>>
      BY <1>0, <1>11 DEF Stop, Bar, sessionVars
    <2> QED BY <1>0, <2>1, OwnerTyped
  <1>12. CASE Unregister \/ Drain
    <2>1. /\ owner' \in OwnerStep
          /\ UNCHANGED <<sender, receiver, file, air, user, poller, event, callback>>
          /\ UNCHANGED <<goal, started, open, shut, mutex, polling, ring, overflow>>
      BY <1>0, <1>12 DEF Unregister, Drain, sessionVars
    <2> QED BY <1>0, <2>1, OwnerTyped
  <1>13. CASE Delete \/ Unset
    <2>1. /\ owner' \in OwnerStep /\ mutex' \in {"null", "live", "deleted"}
          /\ UNCHANGED <<sender, receiver, file, air, user, poller, event, callback>>
          /\ UNCHANGED <<goal, started, open, shut, polling, ring, overflow>>
      BY <1>0, <1>13 DEF Delete, Unset, sessionVars
    <2> QED BY <1>0, <2>1, OwnerTyped
  <1>14. CASE Reset
    <2>1. /\ owner' \in OwnerStep /\ ring' = <<>> /\ overflow' = FALSE
          /\ UNCHANGED <<sender, receiver, file, air, user, poller, event, callback>>
          /\ UNCHANGED <<goal, started, open, shut, mutex, polling>>
      BY <1>0, <1>14 DEF Reset, sessionVars
    <2>2. ring' \in Seq(Sequence) /\ Len(ring') <= EventCount
      BY <1>0, <2>1
    <2> QED BY <1>0, <2>1, <2>2, OwnerTyped
  <1>15. CASE Create
    <2>1. /\ owner' \in OwnerStep /\ mutex' \in {"null", "live", "deleted"}
          /\ UNCHANGED <<sender, receiver, file, air, user, poller, event, callback>>
          /\ UNCHANGED <<goal, started, open, shut, polling, ring, overflow>>
      BY <1>0, <1>15 DEF Create, sessionVars
    <2> QED BY <1>0, <2>1, OwnerTyped
  <1>16. CASE InitRadio
    <2>1. /\ owner' \in OwnerStep /\ started' \in BOOLEAN /\ goal' \in {"begin", "end"}
          /\ UNCHANGED <<sender, receiver, file, air, user, poller, event, callback>>
          /\ UNCHANGED <<open, shut, mutex, polling, ring, overflow>>
      BY <1>0, <1>16 DEF InitRadio, sessionVars
    <2> QED BY <1>0, <2>1, OwnerTyped
  <1>18. CASE Register
    <2>1. /\ owner' \in OwnerStep /\ open' \in BOOLEAN /\ goal' \in {"begin", "end"}
          /\ UNCHANGED <<sender, receiver, file, air, user, poller, event, callback>>
          /\ UNCHANGED <<started, shut, mutex, polling, ring, overflow>>
      BY <1>0, <1>18 DEF Register, sessionVars
    <2> QED BY <1>0, <2>1, OwnerTyped
  <1>19. CASE Unbar
    <2>1. /\ owner' = "idle" /\ shut' = FALSE /\ polling' = 0
          /\ UNCHANGED <<sender, receiver, file, air, user, poller, event, callback>>
          /\ UNCHANGED <<goal, started, open, mutex, ring, overflow>>
      BY <1>19 DEF Unbar, sessionVars
    <2>2. owner' \in OwnerStep
      BY <2>1
    <2>3. shut' \in BOOLEAN /\ polling' \in 0..1
      BY <2>1, 0 \in 0..1
    <2> QED BY <1>0, <2>1, <2>2, <2>3, OwnerTyped
  <1>17. CASE UNCHANGED transferVars
    <2>1. UNCHANGED <<sessionVars, ownerVars, mutex, user, polling, ring, overflow, poller, event, callback>>
      BY <1>17 DEF transferVars
    <2> QED BY <1>0, <2>1 DEF sessionVars, ownerVars
  <1> QED BY <1>1, <1>2, <1>3, <1>4, <1>5, <1>6, <1>7, <1>8, <1>9, <1>10, <1>11, <1>12, <1>13, <1>14, <1>15, <1>16,
             <1>17, <1>18, <1>19 DEF TransferNext, PollTask, CallbackTask, EndCall, BeginCall

LEMMA SessionsStay == TransferInv /\ [TransferNext]_transferVars => Sessions'
  <1> SUFFICES ASSUME TransferInv, [TransferNext]_transferVars PROVE Sessions'
    OBVIOUS
  <1>0. Sessions /\ TransferTypeOK
    BY DEF TransferInv
  <1>s. sender.next \in Nat /\ receiver.next \in Nat
    BY <1>0 DEF TransferTypeOK, Sequence
  <1>1. CASE SendChunk
    <2>1. WasSent(sender.next) /\ Data(sender.next).type = "data" /\ Data(sender.next).seq = sender.next
      BY <1>1, <1>s DEF SendChunk, WasSent, Data
    <2> QED BY <1>0, <1>1, <2>1 DEF SendChunk, Sessions, WasSent
  <1>2. CASE \E n \in Sequence : Acknowledged(n)
    <2> PICK n \in Sequence : Acknowledged(n)
      BY <1>2
    <2>1. sender'.next = sender.next + 1 /\ sender'.next <= receiver.next /\ sender'.bytes = Offset[sender'.next]
      BY Confirmed
    <2>2. \A k : WasSent(k) => WasSent(k)'
      BY <1>s, <2>1 DEF WasSent
    <2>3. UNCHANGED <<receiver, file, air, ring, event, callback>>
      BY DEF Acknowledged
    <2> QED BY <1>0, <1>s, <2>1, <2>2, <2>3 DEF Sessions
  <1>3. CASE HandleEvent
    <2>1. event' = <<>> /\ UNCHANGED <<sender, ring, callback>> /\ WasSent(event[1])
      BY <1>3, Handled DEF HandleEvent
    <2>2. receiver.next <= receiver'.next
      BY <1>3, <1>s, Handled
    <2>3. \A k \in air' : IF k.type = "data" THEN WasSent(k.seq) ELSE k.seq <= receiver'.next
      <3> TAKE k \in air'
      <3>1. CASE k \in air
        <4>1. IF k.type = "data" THEN WasSent(k.seq) ELSE k.seq <= receiver.next /\ k.seq \in Nat
          BY <1>0, <3>1 DEF Sessions, TransferTypeOK, Packet, Sequence
        <4>2. receiver'.next \in Nat
          BY <1>3, <1>s, Handled
        <4> QED BY <1>s, <2>2, <4>1, <4>2
      <3>2. CASE k = Ack(receiver'.next)
        <4>1. receiver'.next \in Nat
          BY <1>3, <1>s, Handled
        <4> QED BY <3>2, <4>1 DEF Ack
      <3> QED BY <1>3, <3>1, <3>2, Handled
    <2>4. CASE UNCHANGED <<receiver, file>>
      BY <1>0, <2>1, <2>3, <2>4 DEF Sessions, WasSent
    <2>5. CASE /\ event[1] = receiver.next
               /\ receiver' = [next |-> receiver.next + 1, bytes |-> Offset[receiver.next + 1]]
               /\ file' = Append(file, receiver.next)
      <3>1. receiver.next <= sender.next
        BY <2>1, <2>5 DEF WasSent
      <3>2. Len(file') = receiver'.next /\ \A i \in 1..Len(file') : file'[i] = i - 1
        <4>1. file \in Seq(Sequence) /\ receiver.next \in Sequence /\ Len(file) = receiver.next
          BY <1>0 DEF Sessions, TransferTypeOK
        <4>2. Len(file') = Len(file) + 1 /\ file'[Len(file) + 1] = receiver.next
              /\ \A i \in 1..Len(file) : file'[i] = file[i]
          BY <2>5, <4>1
        <4>3. \A i \in 1..Len(file) : file[i] = i - 1
          BY <1>0 DEF Sessions
        <4>4. receiver'.next = receiver.next + 1
          BY <2>5
        <4>5. Len(file') = receiver'.next
          BY <4>1, <4>2, <4>4
        <4>6. ASSUME NEW i \in 1..Len(file') PROVE file'[i] = i - 1
          <5>1. CASE i \in 1..Len(file)
            BY <4>2, <4>3, <5>1
          <5>2. CASE i = Len(file) + 1
            BY <1>s, <4>1, <4>2, <5>2
          <5> QED BY <1>s, <4>1, <4>2, <5>1, <5>2
        <4> QED BY <4>5, <4>6
      <3> QED BY <1>0, <1>s, <2>1, <2>3, <2>5, <3>1, <3>2 DEF Sessions, WasSent
    <2> QED BY <1>3, <2>4, <2>5, Handled
  <1>4. CASE PollGive
    <2>1. CASE started /\ ring # <<>>
      <3>1. event' = <<Head(ring)>> /\ ring' = Tail(ring) /\ ring \in Seq(Sequence)
            /\ UNCHANGED <<sender, receiver, file, air, callback>>
        BY <1>0, <1>4, <2>1 DEF PollGive, TransferTypeOK, sessionVars
      <3>2. Len(event') = 1 /\ event'[1] = ring[1] /\ 1 \in 1..Len(ring)
        BY <2>1, <3>1
      <3>3. \A i \in 1..Len(ring') : ring'[i] = ring[i + 1] /\ i + 1 \in 1..Len(ring)
        BY <2>1, <3>1
      <3>4. \A i \in 1..Len(ring') : WasSent(ring'[i])
        BY <1>0, <3>3 DEF Sessions
      <3>5. \A i \in 1..Len(event') : WasSent(event'[i])
        BY <1>0, <3>2 DEF Sessions
      <3> QED BY <1>0, <3>1, <3>4, <3>5 DEF Sessions, WasSent
    <2>2. CASE ~(started /\ ring # <<>>)
      BY <1>0, <1>4, <2>2 DEF PollGive, Sessions, WasSent, sessionVars
    <2> QED BY <2>1, <2>2
  <1>5. CASE \E n \in Sequence : Arrives(n)
    <2> PICK n \in Sequence : Arrives(n)
      BY <1>5
    <2>1. WasSent(n)
      BY <1>0 DEF Arrives, Sessions, Data
    <2> QED BY <1>0, <2>1 DEF Arrives, Sessions, WasSent, sessionVars
  <1>6. CASE Store
    <2>1. ring \in Seq(Sequence) /\ callback.at = "inside" /\ WasSent(callback.seq)
      BY <1>0, <1>6 DEF Store, Sessions, TransferTypeOK
    <2>2. \A i \in 1..Len(ring') : WasSent(ring'[i])
      <3>1. CASE ring' = ring
        BY <1>0, <3>1 DEF Sessions
      <3>2. CASE ring' = Append(ring, callback.seq)
        BY <1>0, <2>1, <3>2 DEF Sessions
      <3> QED BY <1>6, <3>1, <3>2 DEF Store
    <2>3. callback'.at = "idle" /\ UNCHANGED <<sender, receiver, file, air, event>>
      BY <1>0, <1>6 DEF Store, sessionVars, TransferTypeOK
    <2> QED BY <1>0, <2>2, <2>3 DEF Sessions, WasSent
  <1>7. CASE TurnedAway \/ LetIn
    BY <1>0, <1>7 DEF TurnedAway, LetIn, Sessions, WasSent, sessionVars, TransferTypeOK
  <1>8. CASE Reset
    <2>1. ring' = <<>> /\ UNCHANGED <<sender, receiver, file, air, event, callback>>
      BY <1>8 DEF Reset, sessionVars
    <2> QED BY <1>0, <2>1 DEF Sessions, WasSent
  <1>9. CASE UNCHANGED <<sender, receiver, file, air, ring, event, callback>>
    BY <1>0, <1>9 DEF Sessions, WasSent
  <1>10. CASE PollEnter \/ PollTake \/ PollLeave \/ Stop \/ Bar \/ Unregister \/ Drain \/ Delete \/ Unset \/ BeginCall
              \/ (\E what \in {"begin", "end"} : Call(what)) \/ UNCHANGED transferVars
    <2>1. UNCHANGED <<sender, receiver, file, air, ring, event, callback>>
      BY <1>10 DEF PollEnter, PollTake, PollLeave, Stop, Bar, Unregister, Drain, Delete, Unset, BeginCall, Create,
                   InitRadio, Register, Unbar, Call, transferVars, sessionVars
    <2> QED BY <1>9, <2>1
  <1> QED BY <1>1, <1>2, <1>3, <1>4, <1>5, <1>6, <1>7, <1>8, <1>10
          DEF TransferNext, PollTask, CallbackTask, EndCall

-----------------------------------------------------------------------------
LEMMA TransferInductive == TransferInv /\ [TransferNext]_transferVars => TransferInv'
  BY TransferTyped, SessionsStay, PolledStays, OwnedStays DEF TransferInv

LEMMA TransferInvariant == TransferSpec => []TransferInv
  BY TransferInitially, TransferInductive, PTL DEF TransferSpec

(* The transfer's variables keep their types: no poll is counted twice and *)
(* no chunk beyond the last is asked for.                                  *)
THEOREM TransferTypes == TransferSpec => []TransferTypeOK
  BY TransferInvariant, PTL DEF TransferInv

LEMMA QuietAndAgreed == TransferInv => QuietTeardown /\ BytesAgree
  <1>1. TransferInv => QuietTeardown
    BY DEF TransferInv, Polled, Owned, QuietTeardown
  <1>2. TransferInv => BytesAgree
    BY DEF TransferInv, TransferTypeOK, Sequence, Sessions, BytesAgree
  <1> QED BY <1>1, <1>2

(* end() deletes the mutex when nobody can reach it (NearbyTransfer.cpp).  *)
THEOREM TeardownIsQuiet == TransferSpec => []QuietTeardown
  BY QuietAndAgreed, TransferInvariant, PTL

(* The two ends count the same bytes (advanceSentBytes() and               *)
(* acceptReceivedChunk()).                                                 *)
THEOREM BytesAlwaysAgree == TransferSpec => []BytesAgree
  BY QuietAndAgreed, TransferInvariant, PTL

(* Every step of the two sessions over the lossy radio writes the next     *)
(* chunk, confirms one that is written, or does neither.                   *)
LEMMA StepDelivers ==
  ASSUME TransferInv, [TransferNext]_transferVars
  PROVE  [Delivery!WriteNext \/ Delivery!ConfirmNext]_<<file, sender.next>>
  <1>0. sender.next \in Nat /\ receiver.next \in Nat /\ Len(file) = receiver.next
    BY DEF TransferInv, TransferTypeOK, Sessions, Sequence
  <1>1. CASE HandleEvent
    <2>1. WasSent(event[1]) /\ UNCHANGED sender
      BY <1>1, Handled DEF HandleEvent
    <2>2. CASE UNCHANGED file
      BY <2>1, <2>2
    <2>3. CASE event[1] = receiver.next /\ file' = Append(file, receiver.next)
      BY <1>0, <2>1, <2>3 DEF WasSent, Delivery!WriteNext
    <2> QED BY <1>1, <2>2, <2>3, Handled
  <1>2. CASE \E n \in Sequence : Acknowledged(n)
    <2> PICK n \in Sequence : Acknowledged(n)
      BY <1>2
    <2>1. sender'.next = sender.next + 1 /\ sender.next + 1 <= receiver.next /\ UNCHANGED file
      BY Confirmed DEF Acknowledged
    <2> QED BY <1>0, <2>1 DEF Delivery!ConfirmNext
  <1>3. CASE ~HandleEvent /\ ~\E n \in Sequence : Acknowledged(n)
    BY <1>3 DEF TransferNext, SendChunk, PollTask, PollEnter, PollTake, PollGive, PollLeave, CallbackTask, TurnedAway,
                LetIn, Store, EndCall, Stop, Bar, Unregister, Drain, Delete, Unset, Reset, BeginCall, Create, InitRadio,
                Register, Unbar, Arrives, Call, transferVars, sessionVars
  <1> QED BY <1>1, <1>2, <1>3

(* Whatever the radio does, the receiver's file is the sender's, chunk by  *)
(* chunk, and nothing is confirmed before it is written.                   *)
THEOREM FileArrivesInOrder == TransferSpec => FileInOrder
  <1>1. TransferInit => Delivery!DeliveryInit
    BY DEF TransferInit, Delivery!DeliveryInit
  <1>2. TransferInv /\ [TransferNext]_transferVars => [Delivery!WriteNext \/ Delivery!ConfirmNext]_<<file, sender.next>>
    BY StepDelivers
  <1> QED BY <1>1, <1>2, TransferInvariant, PTL DEF TransferSpec, FileInOrder, Delivery!DeliverySpec

-----------------------------------------------------------------------------
(* The three together.  A step of MCNetwork is a step of one component and *)
(* leaves the variables of the others alone.                               *)
NetworkInv == ButtonsInv /\ Kept /\ LinkInv /\ TransferInv

LEMMA NetworkSteps == [Next]_vars => [ButtonsNext]_buttonsVars /\ [LinkNext]_hostVars /\ [TransferNext]_transferVars
  BY DEF Next, ButtonsStep, LinkStep, TransferStep, vars

LEMMA NetworkInvariant == Spec => []NetworkInv
  <1>1. Init => NetworkInv
    BY ButtonsTypedAtFirst, KeptInitially, LinkInitially, TransferInitially DEF Init, NetworkInv
  <1>2. ButtonsInv /\ Kept /\ [ButtonsNext]_buttonsVars => ButtonsInv' /\ Kept'
    BY ButtonsTypedStays, KeptStays
  <1>3. LinkInv /\ [LinkNext]_hostVars => LinkInv'
    BY LinkInductive
  <1>4. NetworkInv /\ [Next]_vars => NetworkInv'
    BY <1>2, <1>3, NetworkSteps, TransferInductive DEF NetworkInv
  <1> QED BY <1>1, <1>4, PTL DEF Spec

(* Of the keyboard host and the transfer, every variable keeps its type,   *)
(* for any remotes, reports, peers, chunks and sizes of the rings          *)
(* (BleKeyboardHost, NearbyTransfer).                                      *)
THEOREM NetworkTypes == Spec => []TypeOK
  <1>1. NetworkInv => TypeOK
    BY DEF NetworkInv, ButtonsInv, LinkInv, TransferInv, TypeOK
  <1> QED BY <1>1, NetworkInvariant, PTL

(* What the run checks of the three holds of any size of them.             *)
THEOREM NetworkIsSafe ==
  Spec => []( /\ EdgesPaired /\ PressesReported /\ RepeatsExplained
              /\ TornDownInOrder /\ ConnectedIsLinked /\ QuietTeardown /\ BytesAgree)
  <1>1. ButtonsInv /\ Kept => EdgesPaired /\ PressesReported /\ RepeatsExplained
    BY PairedEdges, KeptReports DEF ButtonsInv
  <1>2. LinkInv => TornDownInOrder /\ ConnectedIsLinked
    BY DEF LinkInv
  <1>3. TransferInv => QuietTeardown /\ BytesAgree
    BY QuietAndAgreed
  <1> QED BY <1>1, <1>2, <1>3, NetworkInvariant, PTL DEF NetworkInv

(* And the transfer delivers in order while the others run: a refinement   *)
(* of the abstract delivery by the whole (FileDelivery).                   *)
THEOREM NetworkDelivers == Spec => FileInOrder
  <1>1. Init => Delivery!DeliveryInit
    BY DEF Init, TransferInit, Delivery!DeliveryInit
  <1>2. NetworkInv /\ [Next]_vars => [Delivery!WriteNext \/ Delivery!ConfirmNext]_<<file, sender.next>>
    BY StepDelivers, NetworkSteps DEF NetworkInv
  <1>3. Spec => Init /\ [][Next]_vars
    BY PTL DEF Spec
  <1> QED BY <1>1, <1>2, <1>3, NetworkInvariant, PTL DEF FileInOrder, Delivery!DeliverySpec
=============================================================================
