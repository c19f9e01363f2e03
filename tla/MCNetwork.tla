----------------------------- MODULE MCNetwork -----------------------------
(***************************************************************************)
(* The network components on small instances, one of them per behaviour:   *)
(* they share no state, so what `subject` names runs and the rest waits.   *)
(***************************************************************************)
EXTENDS BleButtons, BleLink, NearbyTransfer, TLC
CONSTANTS b0, b1, kbd, pad, axis

(* A keyboard with a consumer page, a compact page turner, an axis pad.    *)
B0 == {b0}
AllBits == {b0, b1}
Zones == [b \in SUBSET AllBits |-> IF b = B0 THEN {} ELSE {b1}]
Sent == [id : {kbd}, bytes : {<<{}, {}>>, <<{}, B0>>, <<{}, {b1}>>, <<{}, AllBits>>, <<{b1}, {}>>}]
        \cup [id : {pad}, bytes : {<<{}, {}>>, <<B0, {}>>}]
        \cup [id : {axis}, bytes : {<<AllBits, {b1}>>, <<{b1}, {b1}>>}]
(* A file of two chunks.                                                   *)
Offsets == (0 :> 0) @@ (1 :> 2) @@ (2 :> 4)

VARIABLE subject
vars == <<subject, buttonsVars, hostVars, transferVars>>
Buttons == subject = "buttons"
Link == subject = "link"
Transfer == subject = "transfer"

Init == subject \in {"buttons", "link", "transfer"} /\ ButtonsInit /\ LinkInit /\ TransferInit
ButtonsStep == Buttons /\ ButtonsNext /\ UNCHANGED <<subject, hostVars, transferVars>>
LinkStep == Link /\ LinkNext /\ UNCHANGED <<subject, buttonsVars, transferVars>>
TransferStep == Transfer /\ TransferNext /\ UNCHANGED <<subject, buttonsVars, hostVars>>
Next == ButtonsStep \/ LinkStep \/ TransferStep

(* The fairness of each component, where it is the one that runs.          *)
Spec ==
  /\ Init /\ [][Next]_vars
  /\ WF_buttonsVars(Buttons /\ PollStep)
  /\ WF_hostVars(Link /\ ConnTask)
  /\ WF_hostVars(Link /\ Gone /\ link = "closing")
  /\ WF_hostVars(Link /\ OnDisconnect)
  /\ WF_hostVars(Link /\ EndStep)
  /\ WF_hostVars(Link /\ EndStart /\ stopping)
  /\ SF_hostVars(Link /\ EndDeinit)
  /\ WF_hostVars(Link /\ PollReconnect)
  /\ WF_hostVars(Link /\ BackoffEnds)
  /\ WF_hostVars(Link /\ StopScan)
  /\ WF_hostVars(Link /\ ScanWait /\ caller' = "idle")
  /\ WF_transferVars(Transfer /\ SendChunk)
  /\ SF_transferVars(Transfer /\ PollTask)
  /\ WF_transferVars(Transfer /\ CallbackTask)
  /\ WF_transferVars(Transfer /\ EndCall)
  /\ WF_transferVars(Transfer /\ BeginCall)
  /\ WF_transferVars(Transfer /\ Acknowledged(sender.next + 1))
  /\ SF_transferVars(Transfer /\ Arrives(sender.next) /\ Quiet)
  /\ SF_transferVars(Transfer /\ LetIn /\ callback.seq = sender.next /\ Quiet)

(* Every variable of the three keeps its type.                             *)
TypeOK == ButtonsTypeOK /\ LinkTypeOK /\ TransferTypeOK
=============================================================================
