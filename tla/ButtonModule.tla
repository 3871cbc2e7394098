---------------------------- MODULE ButtonModule ----------------------------
(***************************************************************************)
(* The button module (app/src/modules/button/button.c): button_handler is  *)
(* called by the buttons library, external, when its scan finds that the   *)
(* button was pressed or released, and a delayable work item detects that  *)
(* it was held.  The scan and the work item run on the system workqueue,   *)
(* one after the other, in an order that neither controls: the timeout may *)
(* have queued the work item behind the scan that finds the release.       *)
(***************************************************************************)
EXTENDS Naturals, Sequences

CONSTANT MaxPresses  \* bound of the model: how often the button is pressed

ASSUME ButtonBoundsAssumption == MaxPresses \in Nat

VARIABLES
  held,             \* the button itself
  pressed_buttons,  \* button 1 in button_state.pressed_buttons
  long_press_work,  \* the work item: "idle", "scheduled", or "queued" after its timeout
  presses,          \* history: presses that the scan has found
  heard             \* history: what was published about the last of them

buttonVars == <<held, pressed_buttons, long_press_work, presses, heard>>

ButtonInit ==
  /\ held = FALSE
  /\ pressed_buttons = FALSE
  /\ long_press_work = "idle"
  /\ presses = 0
  /\ heard = <<>>

-----------------------------------------------------------------------------
(* button_handler.  Scheduling a work item that is pending changes nothing. *)

ButtonPressed ==
  /\ held /\ ~pressed_buttons
  /\ pressed_buttons' = TRUE
  /\ long_press_work' = IF long_press_work = "idle" THEN "scheduled" ELSE long_press_work
  /\ presses' = presses + 1
  /\ heard' = <<>>
  /\ UNCHANGED held

(* Mutant: a work item that is queued counts as one that has run. *)
ButtonReleasedBeforeTimeout ==
  /\ ~held /\ pressed_buttons
  /\ pressed_buttons' = FALSE
  /\ long_press_work' = IF long_press_work = "scheduled" THEN "idle" ELSE long_press_work
  /\ heard' = IF long_press_work = "scheduled" THEN Append(heard, "BUTTON_PRESS_SHORT") ELSE heard
  /\ UNCHANGED <<held, presses>>

(* k_work_delayable_is_pending holds of a work item in the queue too, and  *)
(* k_work_cancel_delayable takes it out.                                   *)
ButtonReleased ==
  /\ ~held /\ pressed_buttons
  /\ pressed_buttons' = FALSE
  /\ long_press_work' = "idle"
  /\ heard' = IF long_press_work # "idle" THEN Append(heard, "BUTTON_PRESS_SHORT") ELSE heard
  /\ UNCHANGED <<held, presses>>

LongPressWorkHandler ==
  /\ long_press_work = "queued"
  /\ long_press_work' = "idle"
  /\ heard' = IF pressed_buttons THEN Append(heard, "BUTTON_PRESS_LONG") ELSE heard
  /\ UNCHANGED <<held, pressed_buttons, presses>>

(* The kernel's timeout, and the user, whose presses the scan may miss. *)
LongPressTimeout ==
  /\ long_press_work = "scheduled"
  /\ long_press_work' = "queued"
  /\ UNCHANGED <<held, pressed_buttons, presses, heard>>

MoveButton ==
  /\ presses < MaxPresses \/ held
  /\ held' = ~held
  /\ UNCHANGED <<pressed_buttons, long_press_work, presses, heard>>

ButtonNext ==
  \/ ButtonPressed \/ ButtonReleased \/ LongPressWorkHandler
  \/ LongPressTimeout \/ MoveButton

ButtonSpec == ButtonInit /\ [][ButtonNext]_buttonVars
-----------------------------------------------------------------------------
(* Properties.                                                             *)

(* Every variable keeps its type. *)
ButtonTypeOK ==
  /\ {held, pressed_buttons} \subseteq BOOLEAN
  /\ long_press_work \in {"idle", "scheduled", "queued"}
  /\ presses \in Nat
  /\ heard \in Seq({"BUTTON_PRESS_SHORT", "BUTTON_PRESS_LONG"})

(* A press is one event, short or long and never both or none, wherever    *)
(* the timeout falls (button.c:95): while the button is held it is open as *)
(* long as the work item is pending, and the work item is pending for no   *)
(* press that is over.                                                     *)
OneEventPerPress ==
  presses > 0 =>
    IF pressed_buttons
      THEN heard = IF long_press_work = "idle" THEN <<"BUTTON_PRESS_LONG">> ELSE <<>>
      ELSE Len(heard) = 1 /\ long_press_work = "idle"
=============================================================================
