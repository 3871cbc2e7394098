-------------------------- MODULE MCBatchDelivery --------------------------
(***************************************************************************)
(* Values for model checking BatchDelivery.                                *)
(***************************************************************************)
EXTENDS BatchDelivery

MCSize == <<2, 3>>
MCItems == <<2, 1>>

(* One type, whose items fill the pipe two at a time. *)
MCSizeOne == <<2>>
MCItemsOne == <<3>>
=============================================================================
