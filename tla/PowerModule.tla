---------------------------- MODULE PowerModule ----------------------------
(***************************************************************************)
(* The power module (app/src/modules/power/power.c): a thread that samples *)
(* the battery on request once the modem is initialized, and that has the  *)
(* two UARTs follow the presence of USB power.                             *)
(*                                                                         *)
(* The UARTs are switched from two sides: by event_callback, which the     *)
(* charger's driver calls on the system workqueue, and once by the thread  *)
(* when it starts, from the VBUS status it has read.  The workqueue        *)
(* preempts the thread between any two of its steps and is not preempted   *)
(* by it.  The charger, external, latches its two events until the         *)
(* callback has run.                                                       *)
(* CONFIG_APP_POWER_DISABLE_UART_ON_VBUS_REMOVED is set, its default.      *)
(***************************************************************************)
EXTENDS Naturals, Sequences

CONSTANTS
  MaxSamples,     \* bound of the model: battery samples requested
  MaxVbusChanges  \* bound of the model: how often USB is plugged in or out

ASSUME PowerBoundsAssumption == MaxSamples \in Nat /\ MaxVbusChanges \in Nat

Uarts == {"uart0", "uart1"}

VARIABLES
  power,       \* the thread: "WAITING_FOR_MODEM_INIT", "RUNNING", or where it is in
               \* state_running_entry: "READING", "SWITCHING", "SWITCHED_ONE"
  present,     \* the thread's: the VBUS status it has read
  powerInbox,  \* the queue of the power subscriber
  powerSent,   \* what the last step published on POWER_CHAN
  active,      \* the UARTs that are not suspended
  vbus,        \* USB power is present
  latched,     \* the charger's events that were not handled yet
  samples,     \* history: samples requested
  vbusChanges, \* history: how often USB was plugged in or out
  crossed      \* history: VBUS changed while the thread switched the UARTs, or
               \* changed back before the callback ran

wires == <<vbus, latched, vbusChanges, crossed>>
powerVars == <<power, present, powerInbox, powerSent, active, samples, wires>>

PowerInit ==
  /\ power = "WAITING_FOR_MODEM_INIT"
  /\ present = FALSE
  /\ powerInbox = <<>>
  /\ powerSent = <<>>
  /\ active = Uarts
  /\ vbus \in BOOLEAN
  /\ latched = {}
  /\ samples = 0
  /\ vbusChanges = 0
  /\ crossed = FALSE

Subscribed == power # "WAITING_FOR_MODEM_INIT"
Entering == power \in {"READING", "SWITCHING", "SWITCHED_ONE"}

-----------------------------------------------------------------------------
(* The thread.  Errors of the charger and of the UARTs are fatal.          *)

PowerTakes(msg) ==
  /\ ~Entering
  /\ powerInbox # <<>>
  /\ Head(powerInbox) = msg
  /\ powerInbox' = Tail(powerInbox)
  /\ UNCHANGED <<present, active, samples, wires>>

(* state_running_entry: the callback is registered first. *)
PowerModemInitialized ==
  /\ PowerTakes("POWER_PRIV_MODEM_INITIALIZED")
  /\ power' = IF power = "RUNNING" THEN power ELSE "READING"
  /\ powerSent' = <<>>

PowerSampleRequest ==
  /\ PowerTakes("POWER_BATTERY_PERCENTAGE_SAMPLE_REQUEST")
  /\ powerSent' = IF power = "RUNNING" THEN <<"POWER_BATTERY_PERCENTAGE_SAMPLE_RESPONSE">>
                                       ELSE <<>>
  /\ UNCHANGED power

EntryStep(from, to) ==
  /\ power = from
  /\ power' = to
  /\ powerSent' = <<>>
  /\ UNCHANGED <<powerInbox, samples, wires>>

ReadVbus ==
  /\ EntryStep("READING", "SWITCHING")
  /\ present' = vbus
  /\ UNCHANGED active

(* uart_enable resumes uart0 and then uart1, uart_disable suspends uart1   *)
(* and then uart0; a UART that is there already is no error.               *)
Switch(uart) == active' = IF present THEN active \union {uart} ELSE active \ {uart}

SwitchOne ==
  /\ EntryStep("SWITCHING", "SWITCHED_ONE")
  /\ Switch(IF present THEN "uart0" ELSE "uart1")
  /\ UNCHANGED present

SwitchOther ==
  /\ EntryStep("SWITCHED_ONE", "RUNNING")
  /\ Switch(IF present THEN "uart1" ELSE "uart0")
  /\ UNCHANGED present

-----------------------------------------------------------------------------
(* The system workqueue.                                                   *)

(* Mutant: a plugged-in cable is not noticed. *)
EventCallbackDisables ==
  /\ Subscribed /\ latched # {}
  /\ latched' = {}
  /\ active' = IF "VBUS_REMOVED" \in latched THEN {} ELSE active
  /\ powerSent' = <<>>
  /\ UNCHANGED <<power, present, powerInbox, samples, vbus, vbusChanges, crossed>>

(* Of two events that come together the removal is handled last. *)
EventCallback ==
  /\ Subscribed /\ latched # {}
  /\ latched' = {}
  /\ active' = IF "VBUS_REMOVED" \in latched THEN {} ELSE Uarts
  /\ powerSent' = <<>>
  /\ UNCHANGED <<power, present, powerInbox, samples, vbus, vbusChanges, crossed>>

-----------------------------------------------------------------------------
(* The charger and the other modules.                                      *)

(* Events that nobody has subscribed to are gone.  A change that meets     *)
(* another one or the thread crosses it, until the next that does not.     *)
VbusChanges ==
  /\ vbusChanges < MaxVbusChanges
  /\ vbusChanges' = vbusChanges + 1
  /\ vbus' = ~vbus
  /\ latched' = IF Subscribed
                  THEN latched \union {IF vbus THEN "VBUS_REMOVED" ELSE "VBUS_DETECTED"}
                  ELSE {}
  /\ crossed' = (Entering \/ latched # {})
  /\ powerSent' = <<>>
  /\ UNCHANGED <<power, present, powerInbox, active, samples>>

PowerHears(msg) ==
  /\ powerInbox' = Append(powerInbox, msg)
  /\ powerSent' = <<>>
  /\ UNCHANGED <<power, present, active, wires>>

PowerModemInit ==
  /\ power = "WAITING_FOR_MODEM_INIT"
  /\ \A i \in DOMAIN powerInbox : powerInbox[i] # "POWER_PRIV_MODEM_INITIALIZED"
  /\ PowerHears("POWER_PRIV_MODEM_INITIALIZED")
  /\ UNCHANGED samples

RequestPowerSample ==
  /\ samples < MaxSamples
  /\ samples' = samples + 1
  /\ PowerHears("POWER_BATTERY_PERCENTAGE_SAMPLE_REQUEST")

PowerNext ==
  \/ PowerModemInitialized \/ PowerSampleRequest
  \/ ReadVbus \/ SwitchOne \/ SwitchOther
  \/ EventCallback
  \/ VbusChanges \/ PowerModemInit \/ RequestPowerSample

PowerSpec == PowerInit /\ [][PowerNext]_powerVars
-----------------------------------------------------------------------------
(* Properties.                                                             *)

(* Every variable keeps its type. *)
PowerTypeOK ==
  /\ power \in {"WAITING_FOR_MODEM_INIT", "READING", "SWITCHING", "SWITCHED_ONE", "RUNNING"}
  /\ powerInbox \in Seq({"POWER_PRIV_MODEM_INITIALIZED", "POWER_BATTERY_PERCENTAGE_SAMPLE_REQUEST"})
  /\ powerSent \in Seq({"POWER_BATTERY_PERCENTAGE_SAMPLE_RESPONSE"})
  /\ active \subseteq Uarts
  /\ latched \subseteq {"VBUS_DETECTED", "VBUS_REMOVED"}
  /\ {present, vbus, crossed} \subseteq BOOLEAN
  /\ samples \in 0 .. MaxSamples
  /\ vbusChanges \in 0 .. MaxVbusChanges

(* Both UARTs are on exactly while USB is plugged in, as soon as the       *)
(* module runs and has handled the charger's events, wherever the cable    *)
(* was when it started ("If enabled, suspends UART devices when VBUS is    *)
(* removed", docs/modules/power.md:42).  Changes that cross the start of   *)
(* the module (power.c:416) or each other (power.c:348) are excepted: they *)
(* may leave the UARTs on or off, or one of them on, until the next.       *)
UartsFollowVbus ==
  power = "RUNNING" /\ latched = {} /\ ~crossed => active = IF vbus THEN Uarts ELSE {}
=============================================================================
