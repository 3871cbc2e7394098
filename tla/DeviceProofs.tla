---------------------------- MODULE DeviceProofs ----------------------------
(***************************************************************************)
(* Proofs about the modules that need no other to be understood: location, *)
(* power, button and LED, and the types of these and of the network module *)
(* in the specification that runs one of them.                             *)
(***************************************************************************)
EXTENDS MCModules, QueueLemmas

-----------------------------------------------------------------------------
(* The location module.                                                    *)

(* Nothing happens to the library before the module has been told of the   *)
(* modem.                                                                  *)
UsedOnceInitialized ==
  ~initialized => /\ location = "WAITING_FOR_MODEM_INIT"
                  /\ ~Has(locationInbox, {"LOCATION_PRIV_MODEM_INITIALIZED"})

(* As long as nobody cancels, a search is known to be over by one message, *)
(* which waits for a module that still is active.                          *)
EndedOnce ==
  searchCancels = 0 =>
    /\ ~Has(locationInbox, {"LOCATION_SEARCH_CANCEL"})
    /\ Once(locationInbox, {"LOCATION_SEARCH_DONE"})
    /\ Has(locationInbox, {"LOCATION_SEARCH_DONE"}) =>
         location = "ACTIVE" /\ library # "searching"

AnswerHeld ==
  location = "ACTIVE" =>
    library = "searching" \/ Has(locationInbox, {"LOCATION_SEARCH_DONE"})

LocationInv ==
  LocationTypeOK /\ UsedOnceInitialized /\ EndedOnce /\ AnswerHeld /\ LibraryIsKnown

(* What a step does to the queue. *)
LEMMA LocationQueue ==
  ASSUME LocationTypeOK
  PROVE  /\ LocationThread =>
              /\ locationInbox # <<>>
              /\ Head(locationInbox) \in LocationMsg
              /\ Tail(locationInbox) \in Seq(LocationMsg)
              /\ \A msgs : Has(locationInbox, msgs)
                   <=> Head(locationInbox) \in msgs \/ Has(Tail(locationInbox), msgs)
         /\ \A m \in LocationMsg :
              locationInbox' = Append(locationInbox, m) =>
                /\ locationInbox' \in Seq(LocationMsg)
                /\ \A msgs : Has(locationInbox', msgs) <=> Has(locationInbox, msgs) \/ m \in msgs
  <1>0. locationInbox \in Seq(LocationMsg)
    BY DEF LocationTypeOK
  <1>1. ASSUME LocationThread PROVE locationInbox # <<>>
    BY <1>1 DEF LocationThread, LocationModemInitialized, LocationSearchTrigger,
                LocationSearchCancel, LocationSearchDone, LocationTakes
  <1>2. ASSUME locationInbox # <<>>
        PROVE  /\ Head(locationInbox) \in LocationMsg
               /\ Tail(locationInbox) \in Seq(LocationMsg)
               /\ \A msgs : Has(locationInbox, msgs)
                    <=> Head(locationInbox) \in msgs \/ Has(Tail(locationInbox), msgs)
    BY <1>0, <1>2, HeadTail, HasTail
  <1>3. ASSUME NEW m \in LocationMsg, locationInbox' = Append(locationInbox, m)
        PROVE  /\ locationInbox' \in Seq(LocationMsg)
               /\ \A msgs : Has(locationInbox', msgs) <=> Has(locationInbox, msgs) \/ m \in msgs
    BY <1>0, <1>3, AppendSeq, HasAppend
  <1> QED
    BY <1>1, <1>2, <1>3

LEMMA LocationStarts == LocationInit => LocationInv
  <1> SUFFICES ASSUME LocationInit PROVE LocationInv
    OBVIOUS
  <1>1. LocationTypeOK
    <2>1. {initialized, owed} \subseteq BOOLEAN
      BY DEF LocationInit
    <2>2. searches \in 0 .. MaxSearches /\ searchCancels \in 0 .. MaxSearchCancels
      BY LocationBoundsAssumption DEF LocationInit
    <2> QED
      BY <2>1, <2>2, EmptySeq DEF LocationInit, LocationTypeOK
  <1>2. UsedOnceInitialized /\ EndedOnce /\ AnswerHeld /\ LibraryIsKnown
    BY HasNone, OnceNone
       DEF LocationInit, UsedOnceInitialized, EndedOnce, AnswerHeld, LibraryIsKnown
  <1> QED
    BY <1>1, <1>2 DEF LocationInv

LEMMA LocationStepKeeps == LocationInv /\ [LocationNext]_locationVars => LocationInv'
  <1> SUFFICES ASSUME LocationInv, [LocationNext]_locationVars PROVE LocationInv'
    OBVIOUS
  <1>1. LocationTypeOK /\ locationInbox \in Seq(LocationMsg)
    BY DEF LocationInv, LocationTypeOK
  <1> DEFINE Done == {"LOCATION_SEARCH_DONE"}
             Cancel == {"LOCATION_SEARCH_CANCEL"}
             Initialized == {"LOCATION_PRIV_MODEM_INITIALIZED"}
  <1>2. CASE LocationThread
    <2> DEFINE m == Head(locationInbox)
               rest == Tail(locationInbox)
    <2>1. /\ m \in LocationMsg /\ rest \in Seq(LocationMsg) /\ locationInbox # <<>>
          /\ \A msgs : Has(locationInbox, msgs) <=> m \in msgs \/ Has(rest, msgs)
      BY <1>1, <1>2, LocationQueue
    <2>2. EndedOnce => (searchCancels = 0 => /\ Once(rest, Done)
                                             /\ m \in Done => ~Has(rest, Done))
      BY <1>1, <2>1, OnceTail DEF EndedOnce
    <2>3. initialized \/ m \notin Initialized
      BY <2>1 DEF LocationInv, UsedOnceInitialized
    <2> HIDE DEF m, rest
    <2> USE DEF LocationInv
    <2>4. CASE LocationModemInitialized
      <3>1. locationInbox' = rest /\ m \in Initialized
            /\ UNCHANGED <<initialized, searches, searchCancels, owed>>
        BY <2>4 DEF LocationModemInitialized, LocationTakes, Quietly, m, rest
      <3>2. \/ location = "WAITING_FOR_MODEM_INIT" /\ location' = "INACTIVE" /\ library' = "idle"
            \/ UNCHANGED <<location, library>>
        BY <2>4 DEF LocationModemInitialized
      <3>3. LocationTypeOK' /\ UsedOnceInitialized'
        BY <2>1, <2>3, <3>1, <3>2 DEF LocationTypeOK, UsedOnceInitialized
      <3> QED
        BY <2>1, <2>2, <3>1, <3>2, <3>3 DEF EndedOnce, AnswerHeld, LibraryIsKnown
    <2>5. CASE LocationSearchTrigger
      <3>1. locationInbox' = rest /\ m = "LOCATION_SEARCH_TRIGGER"
            /\ UNCHANGED <<initialized, searches, searchCancels, owed>>
        BY <2>5 DEF LocationSearchTrigger, LocationTakes, Quietly, m, rest
      <3>2. \/ location = "INACTIVE" /\ library = "idle"
               /\ location' = "ACTIVE" /\ library' = "searching"
            \/ location = "INACTIVE" /\ library = "searching"
               /\ location' = "FATAL" /\ UNCHANGED library
            \/ UNCHANGED <<location, library>>
        BY <2>5 DEF LocationSearchTrigger
      <3>3. LocationTypeOK' /\ UsedOnceInitialized'
        BY <2>1, <3>1, <3>2 DEF LocationTypeOK, UsedOnceInitialized
      <3> QED
        BY <2>1, <2>2, <3>1, <3>2, <3>3 DEF EndedOnce, AnswerHeld, LibraryIsKnown
    <2>6. CASE LocationSearchCancel
      <3>1. /\ m \in Cancel /\ searchCancels # 0
            /\ UNCHANGED <<initialized, searches, searchCancels, location>>
        BY <2>1, <2>6 DEF LocationSearchCancel, LocationTakes, m, EndedOnce
      <3>2. \/ /\ location = "ACTIVE" /\ library' = "idle" /\ owed' = FALSE
               /\ locationInbox' = Append(rest, "LOCATION_SEARCH_DONE")
            \/ location # "ACTIVE" /\ locationInbox' = rest /\ UNCHANGED <<owed, library>>
        BY <2>6 DEF LocationSearchCancel, Quietly, rest
      <3>3. /\ locationInbox' \in Seq(LocationMsg)
            /\ \A msgs : Has(locationInbox', msgs) <=>
                 Has(rest, msgs) \/ (location = "ACTIVE" /\ "LOCATION_SEARCH_DONE" \in msgs)
        <4>1. Append(rest, "LOCATION_SEARCH_DONE") \in Seq(LocationMsg)
              /\ \A msgs : Has(Append(rest, "LOCATION_SEARCH_DONE"), msgs)
                   <=> Has(rest, msgs) \/ "LOCATION_SEARCH_DONE" \in msgs
          BY <2>1, AppendSeq, HasAppend DEF LocationMsg
        <4> QED
          BY <2>1, <3>2, <4>1
      <3>4. LocationTypeOK' /\ UsedOnceInitialized'
        BY <2>1, <3>1, <3>2, <3>3 DEF LocationTypeOK, UsedOnceInitialized
      <3> QED
        BY <2>1, <3>1, <3>2, <3>3, <3>4 DEF EndedOnce, AnswerHeld, LibraryIsKnown
    <2>7. CASE LocationSearchDone
      <3>1. locationInbox' = rest /\ m \in Done
            /\ UNCHANGED <<initialized, searches, searchCancels, owed, library>>
        BY <2>7 DEF LocationSearchDone, LocationTakes, Quietly, m, rest
      <3>2. location' = IF location = "ACTIVE" THEN "INACTIVE" ELSE location
        BY <2>7 DEF LocationSearchDone
      <3>3. LocationTypeOK' /\ UsedOnceInitialized'
        BY <2>1, <3>1, <3>2 DEF LocationTypeOK, UsedOnceInitialized
      <3> QED
        BY <2>1, <2>2, <3>1, <3>2, <3>3 DEF EndedOnce, AnswerHeld, LibraryIsKnown
    <2> QED
      BY <1>2, <2>4, <2>5, <2>6, <2>7 DEF LocationThread
  <1>3. ASSUME NEW n \in LocationMsg, locationInbox' = Append(locationInbox, n)
        PROVE  /\ locationInbox' \in Seq(LocationMsg)
               /\ \A msgs : Has(locationInbox', msgs) <=> Has(locationInbox, msgs) \/ n \in msgs
               /\ Once(locationInbox, Done) /\ (n \notin Done \/ ~Has(locationInbox, Done))
                    => Once(locationInbox', Done)
    BY <1>1, <1>3, LocationQueue, OnceAppend
  <1>4. CASE SearchFinishes \/ CloudLocationRequest
    <2>1. /\ locationInbox' = Append(locationInbox, "LOCATION_SEARCH_DONE")
          /\ library = "searching" /\ library' = "idle" /\ owed' = FALSE
          /\ UNCHANGED <<location, initialized, searches, searchCancels>>
      BY <1>4 DEF SearchFinishes, CloudLocationRequest, EventDone
    <2>2. "LOCATION_SEARCH_DONE" \in LocationMsg
      BY DEF LocationMsg
    <2>3. LocationTypeOK' /\ UsedOnceInitialized'
      BY <1>3, <2>1, <2>2 DEF LocationInv, LocationTypeOK, UsedOnceInitialized
    <2> QED
      BY <1>3, <2>1, <2>2, <2>3 DEF LocationInv, EndedOnce, AnswerHeld, LibraryIsKnown
  <1>5. CASE OnModemInit
    <2>1. /\ locationInbox' = Append(locationInbox, "LOCATION_PRIV_MODEM_INITIALIZED")
          /\ ~initialized /\ initialized'
          /\ UNCHANGED <<location, library, searches, searchCancels, owed>>
      BY <1>5 DEF OnModemInit
    <2>2. "LOCATION_PRIV_MODEM_INITIALIZED" \in LocationMsg
      BY DEF LocationMsg
    <2>3. initialized' \in BOOLEAN
      BY <1>5 DEF OnModemInit
    <2>4. LocationTypeOK' /\ UsedOnceInitialized'
      BY <1>3, <2>1, <2>2, <2>3 DEF LocationInv, LocationTypeOK, UsedOnceInitialized
    <2> QED
      BY <1>3, <2>1, <2>2, <2>4 DEF LocationInv, EndedOnce, AnswerHeld, LibraryIsKnown
  <1>6. CASE AskForSearch
    <2>1. /\ locationInbox' = Append(locationInbox, "LOCATION_SEARCH_TRIGGER")
          /\ owed' = initialized
          /\ UNCHANGED <<location, library, initialized, searchCancels>>
      BY <1>6 DEF AskForSearch
    <2>2. "LOCATION_SEARCH_TRIGGER" \in LocationMsg
      BY DEF LocationMsg
    <2>3. searches' \in 0 .. MaxSearches
      BY <1>1, <1>6, LocationBoundsAssumption DEF AskForSearch, LocationTypeOK
    <2>4. LocationTypeOK' /\ UsedOnceInitialized'
      BY <1>3, <2>1, <2>2, <2>3 DEF LocationInv, LocationTypeOK, UsedOnceInitialized
    <2> QED
      BY <1>3, <2>1, <2>2, <2>4 DEF LocationInv, EndedOnce, AnswerHeld, LibraryIsKnown
  <1>7. CASE AskForCancel
    <2>1. /\ locationInbox' = Append(locationInbox, "LOCATION_SEARCH_CANCEL")
          /\ UNCHANGED <<location, library, initialized, searches, owed>>
      BY <1>7 DEF AskForCancel
    <2>2. "LOCATION_SEARCH_CANCEL" \in LocationMsg
      BY DEF LocationMsg
    <2>3. searchCancels' \in 0 .. MaxSearchCancels /\ searchCancels' # 0
      BY <1>1, <1>7, LocationBoundsAssumption DEF AskForCancel, LocationTypeOK
    <2>4. LocationTypeOK' /\ UsedOnceInitialized'
      BY <1>3, <2>1, <2>2, <2>3 DEF LocationInv, LocationTypeOK, UsedOnceInitialized
    <2> QED
      BY <1>3, <2>1, <2>2, <2>3, <2>4 DEF LocationInv, EndedOnce, AnswerHeld, LibraryIsKnown
  <1>8. CASE UNCHANGED locationVars
    BY <1>8 DEF locationVars, LocationInv, LocationTypeOK, UsedOnceInitialized, EndedOnce,
                AnswerHeld, LibraryIsKnown
  <1> QED
    BY <1>2, <1>4, <1>5, <1>6, <1>7, <1>8 DEF LocationNext

LEMMA LocationInvHolds == LocationSpec => []LocationInv
  BY LocationStarts, LocationStepKeeps, PTL DEF LocationSpec

(* The module and the library agree on whether there is a search, or the   *)
(* end that brings them together is in the queue.                          *)
THEOREM SearchAlwaysKnown == LocationSpec => [](LocationTypeOK /\ SearchIsKnown)
  <1>1. LocationInv => LocationTypeOK /\ SearchIsKnown
    BY DEF LocationInv, AnswerHeld, SearchIsKnown, ActiveIsAnswered, InLocationQueue, Has
  <1> QED
    BY <1>1, LocationInvHolds, PTL

-----------------------------------------------------------------------------
(* The power module.                                                       *)

(* What the thread has switched so far while it starts.                    *)
SwitchedSoFar ==
  /\ power \in {"SWITCHING", "SWITCHED_ONE"} => present = vbus
  /\ power = "SWITCHED_ONE" => IF present THEN "uart0" \in active ELSE "uart1" \notin active

(* As long as no change crosses another or the thread, what is latched     *)
(* tells where the cable is.                                               *)
LatchedIsTrue ==
  /\ ~Subscribed => latched = {}
  /\ ~crossed => /\ Entering => latched = {} /\ SwitchedSoFar
                 /\ "VBUS_REMOVED" \in latched => ~vbus
                 /\ "VBUS_DETECTED" \in latched => vbus

PowerInv == PowerTypeOK /\ LatchedIsTrue /\ UartsFollowVbus

LEMMA PowerTypes == PowerTypeOK /\ [PowerNext]_powerVars => PowerTypeOK'
  <1> SUFFICES ASSUME PowerTypeOK, [PowerNext]_powerVars PROVE PowerTypeOK'
    OBVIOUS
  <1> USE DEF PowerTypeOK, PowerNext, PowerModemInitialized, PowerSampleRequest, ReadVbus,
              SwitchOne, SwitchOther, EventCallback, VbusChanges, PowerModemInit,
              RequestPowerSample, PowerTakes, PowerHears, EntryStep, Switch, powerVars, wires
  <1> DEFINE Msgs == {"POWER_PRIV_MODEM_INITIALIZED", "POWER_BATTERY_PERCENTAGE_SAMPLE_REQUEST"}
  <1>1. power' \in {"WAITING_FOR_MODEM_INIT", "READING", "SWITCHING", "SWITCHED_ONE", "RUNNING"}
    OBVIOUS
  <1>2. powerInbox' \in Seq(Msgs)
    <2>1. \/ powerInbox' = powerInbox
          \/ \E m \in Msgs : powerInbox' = Append(powerInbox, m)
          \/ powerInbox # <<>> /\ powerInbox' = Tail(powerInbox)
      OBVIOUS
    <2>2. powerInbox \in Seq(Msgs)
      OBVIOUS
    <2> QED
      BY ONLY <2>1, <2>2, HeadTail, AppendSeq
  <1>3. powerSent' \in Seq({"POWER_BATTERY_PERCENTAGE_SAMPLE_RESPONSE"})
    <2>1. \/ powerSent' = powerSent \/ powerSent' = <<>>
          \/ powerSent' = <<"POWER_BATTERY_PERCENTAGE_SAMPLE_RESPONSE">>
      OBVIOUS
    <2> QED
      BY <2>1, EmptySeq, OneSeq
  <1>4. active' \subseteq Uarts
    BY DEF Uarts
  <1>5. latched' \subseteq {"VBUS_DETECTED", "VBUS_REMOVED"}
    OBVIOUS
  <1>6. {present', vbus', crossed'} \subseteq BOOLEAN
    OBVIOUS
  <1>7. samples' \in 0 .. MaxSamples /\ vbusChanges' \in 0 .. MaxVbusChanges
    BY PowerBoundsAssumption
  <1> QED
    BY <1>1, <1>2, <1>3, <1>4, <1>5, <1>6, <1>7

LEMMA PowerStarts == PowerInit => PowerInv
  <1> SUFFICES ASSUME PowerInit PROVE PowerInv
    OBVIOUS
  <1>1. PowerTypeOK
    <2>1. {present, vbus, crossed} \subseteq BOOLEAN
      BY DEF PowerInit
    <2>2. samples \in 0 .. MaxSamples /\ vbusChanges \in 0 .. MaxVbusChanges
      BY PowerBoundsAssumption DEF PowerInit
    <2> QED
      BY <2>1, <2>2, EmptySeq DEF PowerInit, PowerTypeOK
  <1>2. LatchedIsTrue /\ UartsFollowVbus
    BY DEF PowerInit, LatchedIsTrue, UartsFollowVbus, Subscribed, Entering
  <1> QED
    BY <1>1, <1>2 DEF PowerInv

LEMMA PowerStepKeeps == PowerInv /\ [PowerNext]_powerVars => PowerInv'
  <1> SUFFICES ASSUME PowerInv, [PowerNext]_powerVars PROVE LatchedIsTrue' /\ UartsFollowVbus'
    BY PowerTypes DEF PowerInv
  <1>0. active \subseteq Uarts /\ {present, vbus, crossed} \subseteq BOOLEAN
    BY DEF PowerInv, PowerTypeOK
  <1> USE <1>0 DEF PowerInv, LatchedIsTrue, UartsFollowVbus, Subscribed, Entering,
              SwitchedSoFar, Uarts, wires
  <1>1. CASE PowerModemInitialized \/ PowerSampleRequest
    <2>1. UNCHANGED <<present, active, vbus, latched, crossed>>
      BY <1>1 DEF PowerModemInitialized, PowerSampleRequest, PowerTakes
    <2>2. ~Entering /\ (power' = power \/ (power # "RUNNING" /\ power' = "READING"))
      BY <1>1 DEF PowerModemInitialized, PowerSampleRequest, PowerTakes
    <2>3. power' = "READING" => latched = {}
      BY <2>2 DEF PowerTypeOK
    <2> QED
      BY <2>1, <2>2, <2>3
  <1>2. CASE ReadVbus
    BY <1>2 DEF ReadVbus, EntryStep
  <1>3. CASE SwitchOne
    BY <1>3 DEF SwitchOne, EntryStep, Switch
  <1>4. CASE SwitchOther
    <2>1. CASE present
      BY <1>4, <2>1 DEF SwitchOther, EntryStep, Switch
    <2>2. CASE ~present
      <3>1. active' = active \ {"uart0"} /\ UNCHANGED <<latched, crossed, vbus, present>>
        BY <1>4, <2>2 DEF SwitchOther, EntryStep, Switch
      <3>2. power = "SWITCHED_ONE" /\ power' = "RUNNING"
        BY <1>4 DEF SwitchOther, EntryStep
      <3>3. ~crossed => active' = {} /\ ~vbus /\ latched = {}
        BY <2>2, <3>1, <3>2
      <3> QED
        BY <3>1, <3>2, <3>3
    <2> QED
      BY <2>1, <2>2
  <1>5. CASE EventCallback
    <2>1. latched \subseteq {"VBUS_DETECTED", "VBUS_REMOVED"}
      BY DEF PowerTypeOK
    <2>2. /\ Subscribed /\ latched # {} /\ latched' = {}
          /\ active' = IF "VBUS_REMOVED" \in latched THEN {} ELSE Uarts
          /\ UNCHANGED <<power, present, vbus, crossed>>
      BY <1>5 DEF EventCallback
    <2>3. ~crossed => /\ ~Entering
                      /\ active' = IF vbus THEN Uarts ELSE {}
      BY <2>1, <2>2
    <2> QED
      BY <2>2, <2>3
  <1>6. CASE VbusChanges
    BY <1>6 DEF VbusChanges
  <1>7. CASE PowerModemInit \/ RequestPowerSample
    <2>1. UNCHANGED <<power, present, active, vbus, latched, crossed>>
      BY <1>7 DEF PowerModemInit, RequestPowerSample, PowerHears
    <2> QED
      BY <2>1
  <1>8. CASE UNCHANGED powerVars
    BY <1>8 DEF powerVars
  <1> QED
    BY <1>1, <1>2, <1>3, <1>4, <1>5, <1>6, <1>7, <1>8 DEF PowerNext

LEMMA PowerInvHolds == PowerSpec => []PowerInv
  BY PowerStarts, PowerStepKeeps, PTL DEF PowerSpec

(* The UARTs follow the USB cable, wherever it was when the module         *)
(* started, unless a change crossed another or the start.                  *)
THEOREM UartsAlwaysFollowVbus == PowerSpec => [](PowerTypeOK /\ UartsFollowVbus)
  BY PowerInvHolds, PTL DEF PowerInv

-----------------------------------------------------------------------------
(* The button module.                                                      *)

(* The work item is pending only while the button counts as pressed.       *)
PendingWhilePressed ==
  /\ ~pressed_buttons => long_press_work = "idle"
  /\ pressed_buttons => presses > 0

ButtonInv == ButtonTypeOK /\ PendingWhilePressed /\ OneEventPerPress

LEMMA ButtonStarts == ButtonInit => ButtonInv
  <1> SUFFICES ASSUME ButtonInit PROVE ButtonInv
    OBVIOUS
  <1>1. ButtonTypeOK
    BY EmptySeq DEF ButtonInit, ButtonTypeOK
  <1> QED
    BY <1>1 DEF ButtonInit, ButtonInv, PendingWhilePressed, OneEventPerPress

LEMMA ButtonStepKeeps == ButtonInv /\ [ButtonNext]_buttonVars => ButtonInv'
  <1> SUFFICES ASSUME ButtonInv, [ButtonNext]_buttonVars PROVE ButtonInv'
    OBVIOUS
  <1>1. \/ heard' = heard \/ heard' = <<>>
        \/ \E e \in {"BUTTON_PRESS_SHORT", "BUTTON_PRESS_LONG"} : heard' = Append(heard, e)
    BY DEF ButtonNext, ButtonPressed, ButtonReleased, LongPressWorkHandler, LongPressTimeout,
           MoveButton, buttonVars
  <1>2. heard' \in Seq({"BUTTON_PRESS_SHORT", "BUTTON_PRESS_LONG"})
    BY <1>1, EmptySeq, AppendSeq DEF ButtonInv, ButtonTypeOK
  <1>3. ButtonTypeOK'
    <2> USE DEF ButtonInv, ButtonTypeOK, ButtonNext, ButtonPressed, ButtonReleased,
                LongPressWorkHandler, LongPressTimeout, MoveButton, buttonVars
    <2>1. {held', pressed_buttons'} \subseteq BOOLEAN
      OBVIOUS
    <2>2. presses' \in Nat
      OBVIOUS
    <2>3. long_press_work' \in {"idle", "scheduled", "queued"}
      OBVIOUS
    <2> QED
      BY <1>2, <2>1, <2>2, <2>3
  <1>4. PendingWhilePressed'
    BY DEF ButtonInv, ButtonTypeOK, PendingWhilePressed, ButtonNext, ButtonPressed,
           ButtonReleased, LongPressWorkHandler, LongPressTimeout, MoveButton, buttonVars
  <1>5. OneEventPerPress'
    <2> USE DEF ButtonInv, ButtonTypeOK, PendingWhilePressed, OneEventPerPress
    <2>1. CASE ButtonPressed
      BY <2>1 DEF ButtonPressed
    <2>2. CASE ButtonReleased
      <3>1. presses > 0 /\ pressed_buttons
        BY <2>2 DEF ButtonReleased
      <3>2. heard' = IF long_press_work = "idle" THEN <<"BUTTON_PRESS_LONG">>
                                                 ELSE <<"BUTTON_PRESS_SHORT">>
        <4>1. CASE long_press_work = "idle"
          BY <2>2, <3>1, <4>1 DEF ButtonReleased
        <4>2. CASE long_press_work # "idle"
          BY <2>2, <3>1, <4>2 DEF ButtonReleased
        <4> QED
          BY <4>1, <4>2
      <3>3. Len(heard') = 1
        BY <3>2
      <3> QED
        BY <2>2, <3>3 DEF ButtonReleased
    <2>3. CASE LongPressWorkHandler
      <3>1. pressed_buttons /\ presses > 0
        BY <2>3 DEF LongPressWorkHandler
      <3>2. heard' = <<"BUTTON_PRESS_LONG">>
        BY <2>3, <3>1 DEF LongPressWorkHandler
      <3> QED
        BY <2>3, <3>1, <3>2 DEF LongPressWorkHandler
    <2>4. CASE LongPressTimeout \/ MoveButton \/ UNCHANGED buttonVars
      BY <2>4 DEF LongPressTimeout, MoveButton, buttonVars
    <2> QED
      BY <2>1, <2>2, <2>3, <2>4 DEF ButtonNext
  <1> QED
    BY <1>3, <1>4, <1>5 DEF ButtonInv

LEMMA ButtonInvHolds == ButtonSpec => []ButtonInv
  BY ButtonStarts, ButtonStepKeeps, PTL DEF ButtonSpec

(* A press of the button is one event, short or long, wherever the timeout *)
(* of the work item falls.                                                 *)
THEOREM PressIsOneEvent == ButtonSpec => [](ButtonTypeOK /\ OneEventPerPress)
  BY ButtonInvHolds, PTL DEF ButtonInv

-----------------------------------------------------------------------------
(* The LED module.                                                         *)

(* The cycles to go are those of the pattern that were not begun, and the  *)
(* one that is under way; the timer runs as long as there are any.         *)
CyclesToGo ==
  LET n == current_state.repetitions IN
    /\ n \in Int
    /\ blink_work = {} <=> repetitions = 0
    /\ n < 0 => repetitions < 0
    /\ n = 0 => repetitions = 0 /\ ~is_on
    /\ n > 0 => /\ blinks \in 1 .. n
                /\ repetitions = IF is_on THEN n - blinks + 1 ELSE n - blinks

LedInv == LedTypeOK /\ TimerIsOfPattern /\ CyclesToGo

LEMMA LedStarts == LedInit => LedInv
  <1> SUFFICES ASSUME LedInit PROVE LedInv
    OBVIOUS
  <1>1. LedTypeOK
    <2>1. 0 \in 0 .. MaxPatterns
      BY LedBoundsAssumption
    <2>2. is_on \in BOOLEAN
      BY DEF LedInit
    <2> QED
      BY <2>1, <2>2 DEF LedInit, LedTypeOK
  <1>2. current_state.repetitions = 0
    BY DEF LedInit, NoPattern
  <1>3. TimerIsOfPattern /\ CyclesToGo
    BY <1>2 DEF LedInit, TimerIsOfPattern, CyclesToGo
  <1> QED
    BY <1>1, <1>3 DEF LedInv

LEMMA LedStepKeeps == LedInv /\ [LedNext]_ledVars => LedInv'
  <1> SUFFICES ASSUME LedInv, [LedNext]_ledVars PROVE LedInv'
    OBVIOUS
  <1> USE DEF LedInv, LedTypeOK
  <1>1. CASE LedCallback
    <2>1. PICK p \in Patterns : SetPattern(p, {})
      BY <1>1 DEF LedCallback
    <2>2. p.repetitions \in Int
      BY PatternsAssumption
    <2>3. blink_work' = IF p.repetitions # 0 THEN {[pattern |-> p, half |-> "on"]} ELSE {}
      BY <2>1 DEF SetPattern, Schedule
    <2>4. /\ current_state' = p /\ repetitions' = p.repetitions
          /\ is_on' = (p.repetitions # 0)
          /\ blinks' = IF p.repetitions > 0 THEN 1 ELSE 0
          /\ patternsSet' \in 0 .. MaxPatterns
      BY <2>1, LedBoundsAssumption DEF SetPattern, Counted
    <2>5. TimerIsOfPattern'
      BY <2>3, <2>4 DEF TimerIsOfPattern
    <2>6. blink_work' = {} <=> repetitions' = 0
      BY <2>3, <2>4
    <2>7. CyclesToGo'
      <3>0. is_on' <=> p.repetitions # 0
        BY <2>4
      <3>1. p.repetitions > 0 => is_on'
        BY ONLY <2>2, <3>0
      <3>2. p.repetitions = 0 => ~is_on'
        BY <3>0
      <3>3. p.repetitions > 0 => repetitions' = p.repetitions - 1 + 1 /\ blinks' = 1
        BY <2>2, <2>4
      <3> HIDE <2>4
      <3>4. current_state' = p /\ repetitions' = p.repetitions
        BY <2>4
      <3> QED
        BY <2>2, <2>6, <3>1, <3>2, <3>3, <3>4 DEF CyclesToGo
    <2>8. LedTypeOK'
      BY <2>2, <2>3, <2>4
    <2> QED
      BY <2>5, <2>7, <2>8
  <1>2. CASE BlinkTimerHandler
    <2>1. current_state \in Patterns
      <3>1. PICK w \in blink_work : TRUE
        BY <1>2 DEF BlinkTimerHandler
      <3>2. w \in [pattern : Patterns, half : {"on", "off"}]
        BY <3>1
      <3>3. w.pattern = current_state
        BY <3>1 DEF TimerIsOfPattern
      <3> QED
        BY <3>2, <3>3
    <2>2. repetitions # 0 /\ current_state.repetitions # 0
      BY <1>2 DEF BlinkTimerHandler, CyclesToGo
    <2>3. /\ current_state' = current_state /\ patternsSet' = patternsSet
          /\ is_on' = ~is_on /\ is_on' \in BOOLEAN
      BY <1>2 DEF BlinkTimerHandler
    <2>4. blink_work' = IF repetitions' = 0 THEN {}
            ELSE {[pattern |-> current_state, half |-> IF is_on' THEN "on" ELSE "off"]}
      BY <1>2 DEF BlinkTimerHandler, Schedule
    <2>5. TimerIsOfPattern'
      BY <2>3, <2>4 DEF TimerIsOfPattern
    <2>6. blink_work' = {} <=> repetitions' = 0
      BY <2>4
    <2>7. CASE is_on
      <3>1. ~is_on' /\ blinks' = blinks
            /\ repetitions' = IF repetitions > 0 THEN repetitions - 1 ELSE repetitions
        BY <1>2, <2>3, <2>7 DEF BlinkTimerHandler
      <3>2. CyclesToGo'
        BY <2>2, <2>3, <2>6, <2>7, <3>1 DEF CyclesToGo
      <3>3. LedTypeOK'
        BY <2>1, <2>3, <2>4, <3>1
      <3> QED
        BY <2>5, <3>2, <3>3
    <2>8. CASE ~is_on
      <3>1. is_on' /\ repetitions' = repetitions
            /\ blinks' = IF current_state.repetitions > 0 THEN blinks + 1 ELSE 0
        BY <1>2, <2>3, <2>8 DEF BlinkTimerHandler, Counted
      <3>2. CyclesToGo'
        BY <2>2, <2>3, <2>6, <2>8, <3>1 DEF CyclesToGo
      <3>3. LedTypeOK'
        BY <2>1, <2>3, <2>4, <3>1
      <3> QED
        BY <2>5, <3>2, <3>3
    <2> QED
      BY <2>7, <2>8
  <1>3. CASE UNCHANGED ledVars
    BY <1>3 DEF ledVars, TimerIsOfPattern, CyclesToGo
  <1> QED
    BY <1>1, <1>2, <1>3 DEF LedNext

LEMMA LedInvHolds == LedSpec => []LedInv
  BY LedStarts, LedStepKeeps, PTL DEF LedSpec

(* A pattern blinks in its own time, as often as it says, whatever         *)
(* replaces it and whatever it replaces.                                   *)
THEOREM PatternsBlinkAsAsked == LedSpec => [](LedTypeOK /\ BlinksAsAsked)
  <1>1. LedInv => BlinksAsAsked
    BY DEF LedInv, LedTypeOK, CyclesToGo, BlinksAsAsked
  <1> QED
    BY <1>1, LedInvHolds, PTL DEF LedInv

-----------------------------------------------------------------------------
(* The modules side by side.  UpdateProofs holds what else is proved of    *)
(* the network module.                                                     *)

(* A step of the network module keeps the types of its variables. *)
LEMMA NetworkTypes ==
  ASSUME NetworkTypeOK, [NetworkNext]_networkVars
  PROVE  NetworkTypeOK'
  <1> USE DEF NetworkNext, NetworkThread, NetworkConnect, NetworkDisconnect, NetworkSearchStop,
              NetworkQuery, NetworkConnected, NetworkLost, NetworkUiccFailure, Modem, Attach,
              LoseNetwork, NoSim, Detach, RequestNetwork, NetTakes, NetSilent, Offline,
              EnterSearching, Announce, networkVars
  <1>1. lte' \in {"IDLE", "SEARCHING", "CONNECTED", "DISCONNECTING"}
    BY DEF NetworkTypeOK
  <1>2. modem' \in {"offline", "searching", "attached", "failed", "detached", "resuming"}
    BY DEF NetworkTypeOK
  <1>3. netSent' \in Seq(NetworkMsg \union {"NETWORK_QUALITY_SAMPLE_RESPONSE",
                                            "NETWORK_SYSTEM_MODE_RESPONSE"})
    <2> DEFINE Sent == NetworkMsg \union {"NETWORK_QUALITY_SAMPLE_RESPONSE",
                                          "NETWORK_SYSTEM_MODE_RESPONSE"}
    <2>1. \/ netSent' = netSent \/ netSent' = <<>>
          \/ \E m \in Sent : netSent' = <<m>>
      BY DEF Answers, NetworkMsg
    <2> QED
      BY <2>1, EmptySeq, OneSeq DEF NetworkTypeOK
  <1>4. requested' \in 0 .. MaxRequests /\ outages' \in 0 .. MaxOutages
    BY NetworkBoundsAssumption DEF NetworkTypeOK
  <1>5. netInbox' \in Seq(NetworkMsg)
    <2>1. \/ netInbox' = netInbox
          \/ netInbox # <<>> /\ netInbox' = Tail(netInbox)
          \/ \E m \in NetworkMsg : netInbox' = Append(netInbox, m)
      BY NetworkRequestsAssumption DEF NetworkMsg, AllNetworkRequests
    <2> QED
      BY <2>1, HeadTail, AppendSeq DEF NetworkTypeOK
  <1> QED
    BY <1>1, <1>2, <1>3, <1>4, <1>5 DEF NetworkTypeOK

ModulesInv == NetworkTypeOK /\ LocationInv /\ PowerInv /\ ButtonInv /\ LedInv

(* Every variable of every module keeps its type, whichever module runs. *)
THEOREM ModulesTypeCorrect == ModulesSpec => []ModulesTypeOK
  <1>1. ModulesInit => ModulesInv
    <2> SUFFICES ASSUME ModulesInit PROVE ModulesInv
      OBVIOUS
    <2>1. NetworkTypeOK
      <3>1. requested \in 0 .. MaxRequests /\ outages \in 0 .. MaxOutages
        BY NetworkBoundsAssumption DEF ModulesInit, NetworkInit
      <3> QED
        BY <3>1, EmptySeq DEF ModulesInit, NetworkInit, NetworkTypeOK, Disconnects
    <2> QED
      BY <2>1, LocationStarts, PowerStarts, ButtonStarts, LedStarts DEF ModulesInit, ModulesInv
  <1>2. ModulesInv /\ [ModulesNext]_allVars => ModulesInv'
    <2> SUFFICES ASSUME ModulesInv, [ModulesNext]_allVars PROVE ModulesInv'
      OBVIOUS
    <2>1. /\ [NetworkNext]_networkVars /\ [LocationNext]_locationVars
          /\ [PowerNext]_powerVars /\ [ButtonNext]_buttonVars /\ [LedNext]_ledVars
      BY DEF ModulesNext, NetworkAlone, LocationAlone, PowerAlone, ButtonAlone, LedAlone, allVars
    <2> QED
      BY <2>1, NetworkTypes, LocationStepKeeps, PowerStepKeeps, ButtonStepKeeps, LedStepKeeps
         DEF ModulesInv
  <1>3. ModulesInv => ModulesTypeOK
    BY DEF ModulesInv, LocationInv, PowerInv, ButtonInv, LedInv, ModulesTypeOK
  <1> QED
    BY <1>1, <1>2, <1>3, PTL DEF ModulesSpec
=============================================================================
