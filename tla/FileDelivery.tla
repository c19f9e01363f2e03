---------------------------- MODULE FileDelivery ----------------------------
(***************************************************************************)
(* What a nearby transfer promises: the chunks of the file are written     *)
(* once each, in their order, and the sender counts a chunk as sent only   *)
(* once it is written.                                                     *)
(***************************************************************************)
EXTENDS Naturals, Sequences

CONSTANT Chunks
VARIABLES written, confirmed

DeliveryInit == written = <<>> /\ confirmed = 0
WriteNext ==
  /\ Len(written) < Chunks /\ written' = Append(written, Len(written))
  /\ UNCHANGED confirmed
ConfirmNext ==
  /\ confirmed < Len(written) /\ confirmed' = confirmed + 1
  /\ UNCHANGED written
DeliverySpec == DeliveryInit /\ [][WriteNext \/ ConfirmNext]_<<written, confirmed>>
=============================================================================
