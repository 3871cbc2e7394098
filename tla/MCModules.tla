----------------------------- MODULE MCModules -----------------------------
(***************************************************************************)
(* The modules that can be checked without another, one at a time: a       *)
(* behaviour is one of the module that its initial state chooses, and the  *)
(* others rest.                                                            *)
(***************************************************************************)
EXTENDS NetworkModule, LocationModule, PowerModule, ButtonModule, LedModule

VARIABLE alone  \* the module that runs

allVars == <<networkVars, locationVars, powerVars, buttonVars, ledVars, alone>>

ModulesInit ==
  /\ alone \in {"network", "location", "power", "button", "led"}
  /\ NetworkInit /\ LocationInit /\ PowerInit /\ ButtonInit /\ LedInit
  /\ vbus => alone = "power"

NetworkAlone(step) ==
  /\ alone = "network" /\ step
  /\ UNCHANGED <<alone, locationVars, powerVars, buttonVars, ledVars>>

LocationAlone(step) ==
  /\ alone = "location" /\ step
  /\ UNCHANGED <<alone, networkVars, powerVars, buttonVars, ledVars>>

PowerAlone ==
  /\ alone = "power" /\ PowerNext
  /\ UNCHANGED <<alone, networkVars, locationVars, buttonVars, ledVars>>

ButtonAlone ==
  /\ alone = "button" /\ ButtonNext
  /\ UNCHANGED <<alone, networkVars, locationVars, powerVars, ledVars>>

LedAlone ==
  /\ alone = "led" /\ LedNext
  /\ UNCHANGED <<alone, networkVars, locationVars, powerVars, buttonVars>>

ModulesNext ==
  NetworkAlone(NetworkNext) \/ LocationAlone(LocationNext) \/ PowerAlone \/ ButtonAlone \/ LedAlone

(* The location thread runs, and its library reports the end of a search.  *)
(* The properties of the other modules are about safety.                   *)
ModulesSpec ==
  /\ ModulesInit /\ [][ModulesNext]_allVars
  /\ WF_allVars(LocationAlone(LocationThread))
  /\ WF_allVars(LocationAlone(SearchFinishes \/ CloudLocationRequest))

(* Every variable of every module keeps its type. *)
ModulesTypeOK ==
  NetworkTypeOK /\ LocationTypeOK /\ PowerTypeOK /\ ButtonTypeOK /\ LedTypeOK

Pattern(name, repeat) == [name |-> name, repetitions |-> repeat]

MCPatterns ==
  {Pattern("sampling", 2), Pattern("waiting", 3), Pattern("fota", -1), Pattern("off", 0)}
=============================================================================
