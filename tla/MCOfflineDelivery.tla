------------------------- MODULE MCOfflineDelivery --------------------------
(***************************************************************************)
(* Instances of OfflineDelivery: a message of one conversation.            *)
(***************************************************************************)
EXTENDS OfflineDelivery
=============================================================================
