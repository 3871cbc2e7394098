----------------------------- MODULE MCStorage -----------------------------
(***************************************************************************)
(* Values for model checking Storage: two types whose items take different *)
(* room in the pipe, and a pipe that cannot hold all the records.          *)
(***************************************************************************)
EXTENDS Storage

MCSize == <<2, 3>>
MCItems == <<3, 1>>

(* One type, for the runs that look for one behaviour. *)
MCSizeOne == <<2>>
MCItemsOne == <<2>>
=============================================================================
