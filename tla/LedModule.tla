----------------------------- MODULE LedModule -----------------------------
(***************************************************************************)
(* The LED module (app/src/modules/led/led.c): led_callback runs in the    *)
(* thread that publishes a pattern on LED_CHAN, the main thread; a         *)
(* delayable work item on the system workqueue blinks.  The workqueue may  *)
(* preempt the callback but not the other way round, and while the         *)
(* callback changes the state the work item is canceled and not scheduled  *)
(* again, so that each of the two is one step.                             *)
(***************************************************************************)
EXTENDS Integers

CONSTANTS
  Patterns,    \* patterns, of the form [name |-> , repetitions |-> ]
  MaxPatterns  \* bound of the model: patterns that are set

ASSUME PatternsAssumption == \A p \in Patterns : p.repetitions \in Int
ASSUME LedBoundsAssumption == MaxPatterns \in Nat

NoPattern == [name |-> "none", repetitions |-> 0]

VARIABLES
  current_state,  \* the pattern
  is_on,          \* whether the LED is on, in the state and, by pwm_out, itself
  repetitions,    \* cycles to go, or negative: for ever
  blink_work,     \* the work item: empty, or the pattern and the half of the cycle
                  \* whose duration it waits for
  blinks,         \* history: how often a pattern with an end has turned the LED on
  patternsSet     \* history: patterns set

ledVars == <<current_state, is_on, repetitions, blink_work, blinks, patternsSet>>

LedInit ==
  /\ current_state = NoPattern
  /\ is_on = FALSE
  /\ repetitions = 0
  /\ blink_work = {}
  /\ blinks = 0
  /\ patternsSet = 0

(* A work item is the set of what it waits for, at most one.  Scheduling a *)
(* work item that is pending leaves its delay as it is.                    *)
Schedule(work, pattern, half) ==
  IF work = {} THEN {[pattern |-> pattern, half |-> half]} ELSE work

Counted(pattern, n) == IF pattern.repetitions > 0 THEN n ELSE 0

SetPattern(p, work) ==
  /\ patternsSet < MaxPatterns
  /\ patternsSet' = patternsSet + 1
  /\ current_state' = p
  /\ repetitions' = p.repetitions
  /\ is_on' = (p.repetitions # 0)
  /\ blinks' = Counted(p, 1)
  /\ blink_work' = IF p.repetitions # 0 THEN Schedule(work, p, "on") ELSE work

(* Mutant: a new pattern does not cancel the timer of the old one. *)
LedCallbackKeepsTimer == \E p \in Patterns : SetPattern(p, blink_work)

LedCallback == \E p \in Patterns : SetPattern(p, {})

(* A cycle ends when the LED is turned off, and the last ends the pattern. *)
BlinkTimerHandler ==
  /\ blink_work # {}
  /\ is_on' = ~is_on
  /\ repetitions' = IF ~is_on' /\ repetitions > 0 THEN repetitions - 1 ELSE repetitions
  /\ blink_work' = IF repetitions' = 0 THEN {}
                   ELSE Schedule({}, current_state, IF is_on' THEN "on" ELSE "off")
  /\ blinks' = IF is_on' THEN Counted(current_state, blinks + 1) ELSE blinks
  /\ UNCHANGED <<current_state, patternsSet>>

LedNext == LedCallback \/ BlinkTimerHandler

LedSpec == LedInit /\ [][LedNext]_ledVars
-----------------------------------------------------------------------------
(* Properties.                                                             *)

(* Every variable keeps its type. *)
LedTypeOK ==
  /\ current_state \in Patterns \union {NoPattern}
  /\ is_on \in BOOLEAN
  /\ repetitions \in Int
  /\ blink_work \subseteq [pattern : Patterns, half : {"on", "off"}]
  /\ blinks \in Nat
  /\ patternsSet \in 0 .. MaxPatterns

(* The timer always waits for the current pattern and for the half of its  *)
(* cycle that is shown, however often patterns replace each other          *)
(* (led.c:153).                                                            *)
TimerIsOfPattern ==
  \A w \in blink_work : w = [pattern |-> current_state, half |-> IF is_on THEN "on" ELSE "off"]

(* A pattern blinks in its own time, turns the LED on as often as it says, *)
(* and is over, with the LED off, exactly then: "This continues until the  *)
(* specified number of repetitions is reached.  If repetitions is -1, the  *)
(* blinking continues" (docs/modules/led.md:58).                           *)
BlinksAsAsked ==
  LET n == current_state.repetitions IN
    /\ TimerIsOfPattern
    /\ n > 0 => blinks \in 1 .. n
    /\ blink_work = {} <=> n = 0 \/ (n > 0 /\ blinks = n /\ ~is_on)
    /\ n = 0 => ~is_on
=============================================================================
