------------------------------- MODULE MCMain -------------------------------
(***************************************************************************)
(* Values for model checking MainModule.                                   *)
(***************************************************************************)
EXTENDS MainModule

Shadow(type, interval, mode, command) ==
  [type |-> type, interval |-> interval, mode |-> mode, command |-> command]

(* One response for each way config_apply can go. *)
MCResponses ==
  {Shadow("CLOUD_SHADOW_RESPONSE_DELTA", "none", "none", "PROVISION"),
   Shadow("CLOUD_SHADOW_RESPONSE_DELTA", "update", "BUFFER", "none"),
   Shadow("CLOUD_SHADOW_RESPONSE_DELTA", "sample", "none", "none"),
   Shadow("CLOUD_SHADOW_RESPONSE_DESIRED", "same", "PASSTHROUGH", "PROVISION"),
   Shadow("CLOUD_SHADOW_RESPONSE_DESIRED", "both", "BUFFER", "none")}

MCEvents == AllEvents

(* Without firmware updates, which take the device out of sampling. *)
MCRunEvents ==
  {"CLOUD_CONNECTED", "CLOUD_DISCONNECTED", "STORAGE_MODE_PASSTHROUGH", "STORAGE_MODE_BUFFER",
   "BUTTON_PRESS_SHORT"}
=============================================================================
