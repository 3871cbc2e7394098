----------------------------- MODULE MainModule -----------------------------
(***************************************************************************)
(* The main module (app/src/main.c): the thread that decides when to       *)
(* sample, when to send and poll, which storage mode the device is in, and *)
(* that leads it through a firmware update.  It takes one message at a     *)
(* time from its subscriber queue and runs a hierarchical state machine on *)
(* it; two work items on the system workqueue are its timers.              *)
(*                                                                         *)
(* The active state is a region (the innermost state with substates) and a *)
(* leaf in it.  Seconds are abstracted to what the code compares: whether  *)
(* the sample interval has passed since sampling began.  The other modules *)
(* are open: their messages may arrive at any moment.                      *)
(***************************************************************************)
EXTENDS Naturals, Sequences

CONSTANTS
  InitialMode,  \* "PASSTHROUGH" or "BUFFER": CONFIG_APP_STORAGE_INITIAL_MODE_*
  Events,       \* messages without content that the other modules send
  Responses,    \* shadow responses that the cloud module sends
  MaxResponses, \* bound of the model: shadow responses
  QueueLimit    \* bound of the model: messages of others waiting in the queue

AllEvents ==
  {"CLOUD_CONNECTED", "CLOUD_DISCONNECTED", "CLOUD_SHADOW_RESPONSE_EMPTY_DESIRED",
   "STORAGE_MODE_PASSTHROUGH", "STORAGE_MODE_BUFFER",
   "BUTTON_PRESS_SHORT", "BUTTON_PRESS_LONG",
   "FOTA_DOWNLOADING_UPDATE", "FOTA_DOWNLOAD_ENDED", "FOTA_SUCCESS_REBOOT_NEEDED",
   "FOTA_IMAGE_APPLY_NEEDED", "NETWORK_DISCONNECTED", "LOCATION_SEARCH_DONE"}

(* A shadow response: which intervals it carries ("same": none that        *)
(* differs from the one in use), the mode, and whether it is a command to  *)
(* provision the device.                                                   *)
Response ==
  [type : {"CLOUD_SHADOW_RESPONSE_DESIRED", "CLOUD_SHADOW_RESPONSE_DELTA"},
   interval : {"none", "same", "sample", "update", "both"},
   mode : {"none", "BUFFER", "PASSTHROUGH"},
   command : {"none", "PROVISION"}]

ASSUME InitialModeAssumption == InitialMode \in {"PASSTHROUGH", "BUFFER"}
ASSUME EventsAssumption == Events \subseteq AllEvents
ASSUME ResponsesAssumption == Responses \subseteq Response
ASSUME MainBoundsAssumption == MaxResponses \in Nat /\ QueueLimit \in Nat

Buffer == {"BUFFER_DISCONNECTED", "BUFFER_CONNECTED"}
Passthrough == {"PASSTHROUGH_DISCONNECTED", "PASSTHROUGH_CONNECTED"}
Connected == {"BUFFER_CONNECTED", "PASSTHROUGH_CONNECTED"}
Running == Buffer \union Passthrough

VARIABLES
  region,       \* the innermost composite state
  leaf,         \* the leaf state in it
  history,      \* running_history: the region to resume after FOTA
  start,        \* sample_start_time: "never" (0), "recent" (less than the sample
                \* interval ago) or "old"
  sampleTimer,  \* timer_sample_data_work: "stopped", "scheduled", or "stale" when its
                \* delay comes from a configuration that has been replaced
  sendTimer,    \* timer_send_data_work, likewise
  polled,       \* shadow_polled_on_connect
  inbox,        \* the queue of main_subscriber
  published,    \* what the last step published to other modules
  modemReady,   \* the modem is initialised, and the location module serves requests
  search,       \* the location module: "idle", "running", or "lost" when a search was
                \* asked for before the modem was ready
  told,         \* history: the last connection status that was taken from the queue
  confirmed,    \* history: the last storage mode that was taken from it outside FOTA
  responses     \* history: shadow responses sent so far

modeVars == <<region, leaf, history>>
timerVars == <<start, sampleTimer, sendTimer>>
envVars == <<told, confirmed, responses>>
vars == <<modeVars, timerVars, polled, inbox, published, modemReady, search, envVars>>

Event(e) == [type |-> e]
Report(mode) == [type |-> "CLOUD_SHADOW_UPDATE_REPORTED", mode |-> mode]

PollTriggers == <<Event("FOTA_POLL_REQUEST"), Event("CLOUD_SHADOW_GET_DELTA")>>
SendData == <<Event("STORAGE_BATCH_REQUEST")>>
SensorTriggers == <<Event("SENSOR_SAMPLE_REQUESTS")>>
SearchTrigger == <<Event("LOCATION_SEARCH_TRIGGER")>>

ModeOf(r) ==
  IF r \in Buffer THEN "BUFFER" ELSE IF r \in Passthrough THEN "PASSTHROUGH" ELSE "FOTA"

Disconnected(mode) == IF mode = "BUFFER" THEN "BUFFER_DISCONNECTED" ELSE "PASSTHROUGH_DISCONNECTED"
ConnectedIn(mode) == IF mode = "BUFFER" THEN "BUFFER_CONNECTED" ELSE "PASSTHROUGH_CONNECTED"

(* The region of the other mode with the same connection. *)
SwitchTo(mode) == IF region \in Connected THEN ConnectedIn(mode) ELSE Disconnected(mode)

-----------------------------------------------------------------------------
(* In buffer mode the device starts to sample as soon as it runs, most     *)
(* often in its first second, of which sample_start_time keeps no trace.   *)
(* The modem is initialised by the network thread meanwhile.               *)
Boots(inBuffer, inPassthrough) == IF InitialMode = "BUFFER" THEN inBuffer ELSE inPassthrough

Init ==
  /\ region = Disconnected(InitialMode)
  /\ leaf = Boots("SAMPLING", "NONE")
  /\ history = region
  /\ start \in Boots({"never", "recent"}, {"never"})
  /\ sampleTimer = "stopped"
  /\ sendTimer = Boots("scheduled", "stopped")
  /\ polled = "no"
  /\ inbox = <<>>
  /\ published = Boots(SearchTrigger, <<>>)
  /\ modemReady \in BOOLEAN
  /\ search = Boots(IF modemReady THEN "running" ELSE "lost", "idle")
  /\ told = "CLOUD_DISCONNECTED"
  /\ confirmed = InitialMode
  /\ responses = 0

(* A search that is triggered while one is running is ignored, and so is   *)
(* one that is triggered before the location module runs.                  *)
Publish(msgs) ==
  /\ published' = msgs
  /\ search' = IF \E i \in DOMAIN msgs : msgs[i].type = "LOCATION_SEARCH_TRIGGER"
                 THEN IF modemReady THEN "running" ELSE "lost"
                 ELSE search
  /\ UNCHANGED modemReady

(* The thread takes a message; while it reboots the device it takes none. *)
Takes(types) ==
  /\ inbox # <<>>
  /\ Head(inbox).type \in types
  /\ leaf # "REBOOTING"

Receive(type) ==
  /\ Takes({type})
  /\ inbox' = Tail(inbox)

Stay == UNCHANGED <<modeVars, timerVars, polled>>

(* No state that is active handles the message. *)
Ignore == Stay /\ Publish(<<>>)

-----------------------------------------------------------------------------
(* Transitions.  A transition out of a WAITING leaf, or between the modes, *)
(* stops the sample timer; one into WAITING starts it.                     *)

(* Mutant: leaving buffer mode forgets the send timer. *)
SendTimerInForgotten(r) ==
  IF ModeOf(r) # ModeOf(region) /\ r \in Buffer THEN "scheduled" ELSE sendTimer

(* The send timer runs in buffer mode, and starts when the mode is entered. *)
SendTimerIn(r) ==
  IF ModeOf(r) = ModeOf(region) THEN sendTimer
  ELSE IF r \in Buffer THEN "scheduled" ELSE "stopped"

(* The region r is entered by its initial leaf, after out was published.   *)
(* Changing the mode forgets when sampling began; else, in buffer mode,    *)
(* sampling that is too soon (sampling_begin_common) becomes waiting.      *)
(* From a leaf other than WAITING the sample timer is stopped already.     *)
EnterRegion(r, out) ==
  LET changesMode == ModeOf(r) # ModeOf(region)
      began == IF changesMode /\ r # "FOTA" THEN "never" ELSE start
      samples == r \notin {"FOTA", "PASSTHROUGH_DISCONNECTED"} /\
                 ~(r \in Buffer /\ began = "recent")
      polls == r \in Connected /\ polled = "no"
  IN
    /\ region' = r
    /\ leaf' = CASE r = "FOTA" -> "DOWNLOADING"
                 [] r = "PASSTHROUGH_DISCONNECTED" -> "NONE"
                 [] OTHER -> IF samples THEN "SAMPLING" ELSE "WAITING"
    /\ history' = IF r = "FOTA" THEN history ELSE r
    /\ start' = IF samples THEN "recent" ELSE began
    /\ sampleTimer' = IF leaf' = "WAITING" THEN "scheduled"
                      ELSE IF leaf = "WAITING" \/ changesMode THEN "stopped"
                      ELSE sampleTimer
    /\ sendTimer' = SendTimerIn(r)
    /\ polled' = IF polls THEN "yes" ELSE polled
    /\ Publish(out \o (IF polls THEN <<Event("CLOUD_SHADOW_GET_DESIRED")>> ELSE <<>>)
                   \o (IF samples THEN SearchTrigger ELSE <<>>))

(* Mutants: the interval is not looked at, or the way back to WAITING does *)
(* not start the timer again.                                              *)
BeginSamplingAtOnce(byButton) ==
  /\ leaf' = "SAMPLING"
  /\ start' = "recent"
  /\ sampleTimer' = "stopped"
  /\ Publish(SearchTrigger)
  /\ UNCHANGED <<region, history, sendTimer, polled>>

BeginSamplingOnce(byButton) ==
  LET tooSoon == region \in Buffer /\ start = "recent" /\ ~byButton IN
    /\ leaf' = IF tooSoon THEN "WAITING" ELSE "SAMPLING"
    /\ start' = IF tooSoon THEN start ELSE "recent"
    /\ sampleTimer' = "stopped"
    /\ Publish(IF tooSoon THEN <<>> ELSE SearchTrigger)
    /\ UNCHANGED <<region, history, sendTimer, polled>>

(* From WAITING to SAMPLING in the same region. *)
BeginSampling(byButton) ==
  LET tooSoon == region \in Buffer /\ start = "recent" /\ ~byButton IN
    /\ leaf' = IF tooSoon THEN "WAITING" ELSE "SAMPLING"
    /\ start' = IF tooSoon THEN start ELSE "recent"
    /\ sampleTimer' = IF tooSoon THEN "scheduled" ELSE "stopped"
    /\ Publish(IF tooSoon THEN <<>> ELSE SearchTrigger)
    /\ UNCHANGED <<region, history, sendTimer, polled>>

(* Into WAITING in the same region. *)
Wait(out) ==
  /\ leaf' = "WAITING"
  /\ sampleTimer' = "scheduled"
  /\ Publish(out)
  /\ UNCHANGED <<region, history, start, sendTimer, polled>>

(* Among the leaves of FOTA. *)
FotaLeaf(l, out) ==
  /\ leaf' = l
  /\ sampleTimer' = IF l = "WAITING_FOR_DISCONNECT_TO_APPLY" THEN "stopped" ELSE sampleTimer
  /\ sendTimer' = IF l = "WAITING_FOR_DISCONNECT_TO_APPLY" THEN "stopped" ELSE sendTimer
  /\ Publish(out)
  /\ UNCHANGED <<region, history, start, polled>>

-----------------------------------------------------------------------------
(* CLOUD_CHAN.                                                             *)

(* Mutant: the mode to resume after FOTA is the one of the configuration. *)
CloudConnectedForgetsMode ==
  /\ Receive("CLOUD_CONNECTED")
  /\ \/ /\ region = "BUFFER_DISCONNECTED" \/ region \in Passthrough
        /\ EnterRegion(ConnectedIn(ModeOf(region)), <<>>)
     \/ /\ region = "BUFFER_CONNECTED"
        /\ Ignore
     \/ /\ region = "FOTA"
        /\ history' = ConnectedIn(InitialMode)
        /\ Publish(<<>>)
        /\ UNCHANGED <<region, leaf, timerVars, polled>>
  /\ told' = "CLOUD_CONNECTED"
  /\ UNCHANGED <<confirmed, responses>>

(* In passthrough mode sampling begins anew, connected already or not; in  *)
(* FOTA only the region to resume changes.                                 *)
CloudConnected ==
  /\ Receive("CLOUD_CONNECTED")
  /\ \/ /\ region = "BUFFER_DISCONNECTED" \/ region \in Passthrough
        /\ EnterRegion(ConnectedIn(ModeOf(region)), <<>>)
     \/ /\ region = "BUFFER_CONNECTED"
        /\ Ignore
     \/ /\ region = "FOTA"
        /\ history' = ConnectedIn(ModeOf(history))
        /\ Publish(<<>>)
        /\ UNCHANGED <<region, leaf, timerVars, polled>>
  /\ told' = "CLOUD_CONNECTED"
  /\ UNCHANGED <<confirmed, responses>>

(* Mutant: the region to resume after FOTA is left as it was. *)
CloudDisconnectedInFotaForgotten ==
  /\ Receive("CLOUD_DISCONNECTED")
  /\ \/ /\ region = "BUFFER_CONNECTED" \/ region \in Passthrough
        /\ EnterRegion(Disconnected(ModeOf(region)), <<>>)
     \/ /\ region \in {"BUFFER_DISCONNECTED", "FOTA"}
        /\ Ignore
  /\ told' = "CLOUD_DISCONNECTED"
  /\ UNCHANGED <<confirmed, responses>>

CloudDisconnected ==
  /\ Receive("CLOUD_DISCONNECTED")
  /\ \/ /\ region = "BUFFER_CONNECTED" \/ region \in Passthrough
        /\ EnterRegion(Disconnected(ModeOf(region)), <<>>)
     \/ /\ region = "BUFFER_DISCONNECTED"
        /\ Ignore
     \/ /\ region = "FOTA"
        /\ history' = Disconnected(ModeOf(history))
        /\ Publish(<<>>)
        /\ UNCHANGED <<region, leaf, timerVars, polled>>
  /\ told' = "CLOUD_DISCONNECTED"
  /\ UNCHANGED <<confirmed, responses>>

(* config_apply publishes a mode request whenever the response carries a   *)
(* parameter: for passthrough mode, unless it asks for buffer mode.        *)
Configures(m) == m.interval # "none" \/ m.mode # "none"

ModeRequest(m) ==
  Event(IF m.mode = "BUFFER" THEN "STORAGE_MODE_BUFFER_REQUEST"
                             ELSE "STORAGE_MODE_PASSTHROUGH_REQUEST")

(* A timer that runs while its interval is replaced keeps its old delay. *)
Outdated(timer) == IF timer = "stopped" THEN timer ELSE "stale"

(* handle_cloud_shadow_response: the configuration is applied, a changed   *)
(* interval is told to the own queue, and the result is reported.          *)
ShadowResponse ==
  /\ Takes({"CLOUD_SHADOW_RESPONSE_DESIRED", "CLOUD_SHADOW_RESPONSE_DELTA"})
  /\ region \in Connected
  /\ LET m == Head(inbox)
         changed == m.interval \in {"sample", "update", "both"}
     IN
       /\ inbox' = Tail(inbox) \o
                     (IF changed THEN <<Event("TIMER_CONFIG_CHANGED")>> ELSE <<>>)
       /\ start' = IF changed THEN "recent" ELSE start
       /\ sampleTimer' = IF changed THEN Outdated(sampleTimer) ELSE sampleTimer
       /\ sendTimer' = IF m.interval \in {"update", "both"} THEN Outdated(sendTimer)
                                                            ELSE sendTimer
       /\ Publish((IF Configures(m) THEN <<ModeRequest(m)>> ELSE <<>>)
            \o <<Report(IF m.mode = "none" THEN ModeOf(region) ELSE m.mode)>>
            \o (IF m.type = "CLOUD_SHADOW_RESPONSE_DELTA" /\ m.command = "PROVISION"
                  THEN <<Event("CLOUD_PROVISIONING_REQUEST")>> ELSE <<>>))
  /\ UNCHANGED <<modeVars, polled, envVars>>

(* An empty desired section, and a response that no active state handles. *)
EmptyDesired ==
  /\ Receive("CLOUD_SHADOW_RESPONSE_EMPTY_DESIRED")
  /\ Stay
  /\ Publish(IF region \in Connected THEN <<Report(ModeOf(region))>> ELSE <<>>)
  /\ UNCHANGED envVars

ShadowResponseIgnored ==
  /\ Takes({"CLOUD_SHADOW_RESPONSE_DESIRED", "CLOUD_SHADOW_RESPONSE_DELTA"})
  /\ region \notin Connected
  /\ inbox' = Tail(inbox)
  /\ Ignore
  /\ UNCHANGED envVars

-----------------------------------------------------------------------------
(* STORAGE_CHAN: the confirmation of a mode, from either connection.       *)

StorageMode(type, mode) ==
  /\ Receive(type)
  /\ \/ /\ region \in Running
        /\ ModeOf(region) # mode
        /\ EnterRegion(SwitchTo(mode), <<>>)
     \/ /\ region = "FOTA" \/ ModeOf(region) = mode
        /\ Ignore
  /\ confirmed' = IF region = "FOTA" THEN confirmed ELSE mode
  /\ UNCHANGED <<told, responses>>

StorageModeConfirmed ==
  \/ StorageMode("STORAGE_MODE_PASSTHROUGH", "PASSTHROUGH")
  \/ StorageMode("STORAGE_MODE_BUFFER", "BUFFER")

-----------------------------------------------------------------------------
(* TIMER_CHAN, LOCATION_CHAN and BUTTON_CHAN.                              *)

TimerExpiredSampleData ==
  /\ Receive("TIMER_EXPIRED_SAMPLE_DATA")
  /\ \/ leaf = "WAITING" /\ BeginSampling(FALSE)
     \/ leaf # "WAITING" /\ Ignore
  /\ UNCHANGED envVars

(* Mutant: the expired timer is not started again while disconnected. *)
TimerExpiredCloudOnce ==
  /\ Receive("TIMER_EXPIRED_CLOUD")
  /\ \/ /\ region = "BUFFER_CONNECTED"
        /\ sendTimer' = "scheduled"
        /\ Publish(SendData \o PollTriggers)
        /\ UNCHANGED <<modeVars, start, sampleTimer, polled>>
     \/ /\ region # "BUFFER_CONNECTED"
        /\ Ignore
  /\ UNCHANGED envVars

(* In buffer mode the timer starts again, and if connected the stored data *)
(* is sent (cloud_send_now).                                               *)
TimerExpiredCloud ==
  /\ Receive("TIMER_EXPIRED_CLOUD")
  /\ \/ /\ region \in Buffer
        /\ sendTimer' = "scheduled"
        /\ Publish(IF region = "BUFFER_CONNECTED" THEN SendData \o PollTriggers ELSE <<>>)
        /\ UNCHANGED <<modeVars, start, sampleTimer, polled>>
     \/ /\ region \notin Buffer
        /\ Ignore
  /\ UNCHANGED envVars

(* Mutant: the waiting state is entered from every state. *)
TimerConfigChangedAnywhere ==
  /\ Receive("TIMER_CONFIG_CHANGED")
  /\ Wait(<<>>)
  /\ UNCHANGED envVars

TimerConfigChanged ==
  /\ Receive("TIMER_CONFIG_CHANGED")
  /\ \/ leaf = "WAITING" /\ Wait(<<>>)
     \/ leaf # "WAITING" /\ Ignore
  /\ UNCHANGED envVars

LocationSearchDone ==
  /\ Receive("LOCATION_SEARCH_DONE")
  /\ \/ /\ leaf = "SAMPLING"
        /\ Wait(SensorTriggers \o (IF region \in Passthrough THEN PollTriggers ELSE <<>>))
     \/ leaf # "SAMPLING" /\ Ignore
  /\ UNCHANGED envVars

ButtonPressShort ==
  /\ Receive("BUTTON_PRESS_SHORT")
  /\ \/ leaf = "WAITING" /\ BeginSampling(TRUE)
     \/ leaf # "WAITING" /\ Ignore
  /\ UNCHANGED envVars

(* A long press sends and polls at once; only outside WAITING does it      *)
(* start the send timer again.                                             *)
ButtonPressLong ==
  /\ Receive("BUTTON_PRESS_LONG")
  /\ \/ /\ region = "BUFFER_CONNECTED"
        /\ sendTimer' = IF leaf = "WAITING" THEN sendTimer ELSE "scheduled"
        /\ Publish(SendData \o PollTriggers)
     \/ /\ region = "PASSTHROUGH_CONNECTED" /\ leaf = "WAITING"
        /\ Publish(PollTriggers)
        /\ UNCHANGED sendTimer
     \/ /\ region # "BUFFER_CONNECTED"
        /\ region # "PASSTHROUGH_CONNECTED" \/ leaf # "WAITING"
        /\ Publish(<<>>)
        /\ UNCHANGED sendTimer
  /\ UNCHANGED <<modeVars, start, sampleTimer, polled, envVars>>

-----------------------------------------------------------------------------
(* FOTA_CHAN and NETWORK_CHAN.                                             *)

(* Mutant: while it samples, main does not hear of the download. *)
FotaDownloadingUpdateWaiting ==
  /\ Receive("FOTA_DOWNLOADING_UPDATE")
  /\ \/ leaf = "WAITING" /\ EnterRegion("FOTA", <<>>)
     \/ leaf # "WAITING" /\ Ignore
  /\ UNCHANGED envVars

FotaDownloadingUpdate ==
  /\ Receive("FOTA_DOWNLOADING_UPDATE")
  /\ \/ region \in Running /\ EnterRegion("FOTA", <<>>)
     \/ region = "FOTA" /\ Ignore
  /\ UNCHANGED envVars

(* FOTA_DOWNLOAD_CANCELED, _REJECTED, _TIMED_OUT or _FAILED *)
FotaDownloadEnded ==
  /\ Receive("FOTA_DOWNLOAD_ENDED")
  /\ \/ region = "FOTA" /\ EnterRegion(history, <<>>)
     \/ region \in Running /\ Ignore
  /\ UNCHANGED envVars

(* Mutant: nobody asks for the disconnection that is waited for. *)
FotaSuccessRebootNeededSilent ==
  /\ Receive("FOTA_SUCCESS_REBOOT_NEEDED")
  /\ \/ leaf = "DOWNLOADING" /\ FotaLeaf("WAITING_FOR_DISCONNECT", <<>>)
     \/ leaf = "APPLYING" /\ FotaLeaf("REBOOTING", <<Event("STORAGE_CLEAR")>>)
     \/ leaf \notin {"DOWNLOADING", "APPLYING"} /\ Ignore
  /\ UNCHANGED envVars

FotaSuccessRebootNeeded ==
  /\ Receive("FOTA_SUCCESS_REBOOT_NEEDED")
  /\ \/ leaf = "DOWNLOADING" /\ FotaLeaf("WAITING_FOR_DISCONNECT", <<Event("NETWORK_DISCONNECT")>>)
     \/ leaf = "APPLYING" /\ FotaLeaf("REBOOTING", <<Event("STORAGE_CLEAR")>>)
     \/ leaf \notin {"DOWNLOADING", "APPLYING"} /\ Ignore
  /\ UNCHANGED envVars

(* Mutant: the image is applied without waiting. *)
FotaImageApplyNeededAtOnce ==
  /\ Receive("FOTA_IMAGE_APPLY_NEEDED")
  /\ \/ leaf = "DOWNLOADING" /\ FotaLeaf("APPLYING", <<Event("FOTA_IMAGE_APPLY")>>)
     \/ leaf # "DOWNLOADING" /\ Ignore
  /\ UNCHANGED envVars

FotaImageApplyNeeded ==
  /\ Receive("FOTA_IMAGE_APPLY_NEEDED")
  /\ \/ /\ leaf = "DOWNLOADING"
        /\ FotaLeaf("WAITING_FOR_DISCONNECT_TO_APPLY", <<Event("NETWORK_DISCONNECT")>>)
     \/ leaf # "DOWNLOADING" /\ Ignore
  /\ UNCHANGED envVars

NetworkDisconnected ==
  /\ Receive("NETWORK_DISCONNECTED")
  /\ \/ leaf = "WAITING_FOR_DISCONNECT" /\ FotaLeaf("REBOOTING", <<Event("STORAGE_CLEAR")>>)
     \/ /\ leaf = "WAITING_FOR_DISCONNECT_TO_APPLY"
        /\ FotaLeaf("APPLYING", <<Event("FOTA_IMAGE_APPLY")>>)
     \/ leaf \notin {"WAITING_FOR_DISCONNECT", "WAITING_FOR_DISCONNECT_TO_APPLY"} /\ Ignore
  /\ UNCHANGED envVars

(* sys_reboot: all of it is in RAM. *)
Restart ==
  /\ region' = Disconnected(InitialMode)
  /\ leaf' = Boots("SAMPLING", "NONE")
  /\ history' = region'
  /\ start' \in Boots({"never", "recent"}, {"never"})
  /\ sampleTimer' = "stopped"
  /\ sendTimer' = Boots("scheduled", "stopped")
  /\ polled' = "no"
  /\ inbox' = <<>>
  /\ published' = Boots(SearchTrigger, <<>>)
  /\ modemReady' \in BOOLEAN
  /\ search' = Boots(IF modemReady' THEN "running" ELSE "lost", "idle")
  /\ told' = "CLOUD_DISCONNECTED"
  /\ confirmed' = InitialMode
  /\ UNCHANGED responses

Reboot == leaf = "REBOOTING" /\ Restart

-----------------------------------------------------------------------------
(* The system workqueue, the location module, time, and the other modules. *)

Deliver(m) ==
  /\ inbox' = Append(inbox, m)
  /\ published' = <<>>
  /\ UNCHANGED <<modeVars, polled, modemReady, told, confirmed>>

(* In buffer mode the delay that WAITING sets ends with the interval.      *)
SampleTimerExpires ==
  /\ sampleTimer = "stale" \/ (sampleTimer = "scheduled" /\ start # "recent")
  /\ sampleTimer' = "stopped"
  /\ Deliver(Event("TIMER_EXPIRED_SAMPLE_DATA"))
  /\ UNCHANGED <<start, sendTimer, search, responses>>

SendTimerExpires ==
  /\ sendTimer # "stopped"
  /\ sendTimer' = "stopped"
  /\ Deliver(Event("TIMER_EXPIRED_CLOUD"))
  /\ UNCHANGED <<start, sampleTimer, search, responses>>

IntervalPasses ==
  /\ start = "recent"
  /\ start' = "old"
  /\ published' = <<>>
  /\ UNCHANGED <<modeVars, sampleTimer, sendTimer, polled, inbox, modemReady, search, envVars>>

(* The location module and its library (LocationModule).  A search that    *)
(* was canceled may be reported twice, so that LOCATION_SEARCH_DONE is     *)
(* among the messages of the others too.                                   *)
ModemStarts ==
  /\ ~modemReady
  /\ modemReady' = TRUE
  /\ published' = <<>>
  /\ UNCHANGED <<modeVars, timerVars, polled, inbox, search, envVars>>

SearchEnds ==
  /\ search = "running"
  /\ search' = "idle"
  /\ Deliver(Event("LOCATION_SEARCH_DONE"))
  /\ UNCHANGED <<timerVars, responses>>

OthersPublish ==
  /\ Len(inbox) < QueueLimit
  /\ leaf # "REBOOTING"
  /\ \/ \E e \in Events : Deliver(Event(e)) /\ UNCHANGED responses
     \/ /\ responses < MaxResponses
        /\ responses' = responses + 1
        /\ \E m \in Responses : Deliver(m)
  /\ UNCHANGED <<timerVars, search>>

MainThread ==
  \/ CloudConnected \/ CloudDisconnected
  \/ ShadowResponse \/ EmptyDesired \/ ShadowResponseIgnored
  \/ StorageModeConfirmed
  \/ TimerExpiredSampleData \/ TimerExpiredCloud \/ TimerConfigChanged
  \/ LocationSearchDone \/ ButtonPressShort \/ ButtonPressLong
  \/ FotaDownloadingUpdate \/ FotaDownloadEnded \/ FotaSuccessRebootNeeded
  \/ FotaImageApplyNeeded \/ NetworkDisconnected \/ Reboot

Next ==
  \/ MainThread
  \/ SampleTimerExpires \/ SendTimerExpires \/ IntervalPasses
  \/ ModemStarts \/ SearchEnds \/ OthersPublish

Spec == Init /\ [][Next]_vars

(* The thread runs while it has messages, timers expire, the modem starts, *)
(* searches end and time passes; nobody has to publish anything.           *)
FairSpec ==
  /\ Spec
  /\ WF_vars(MainThread)
  /\ WF_vars(SampleTimerExpires) /\ WF_vars(SendTimerExpires)
  /\ WF_vars(IntervalPasses) /\ WF_vars(ModemStarts) /\ WF_vars(SearchEnds)
-----------------------------------------------------------------------------
(* Properties.                                                             *)

FotaLeaves == {"DOWNLOADING", "WAITING_FOR_DISCONNECT", "WAITING_FOR_DISCONNECT_TO_APPLY",
               "APPLYING", "REBOOTING"}

InMsg ==
  [type : AllEvents \union {"TIMER_EXPIRED_SAMPLE_DATA", "TIMER_EXPIRED_CLOUD",
                            "TIMER_CONFIG_CHANGED"}]
    \union Response

OutMsg ==
  [type : {"FOTA_POLL_REQUEST", "CLOUD_SHADOW_GET_DELTA", "CLOUD_SHADOW_GET_DESIRED",
           "STORAGE_BATCH_REQUEST", "SENSOR_SAMPLE_REQUESTS", "LOCATION_SEARCH_TRIGGER",
           "STORAGE_MODE_BUFFER_REQUEST", "STORAGE_MODE_PASSTHROUGH_REQUEST",
           "CLOUD_PROVISIONING_REQUEST", "NETWORK_DISCONNECT", "STORAGE_CLEAR",
           "FOTA_IMAGE_APPLY"}]
    \union [type : {"CLOUD_SHADOW_UPDATE_REPORTED"}, mode : {"BUFFER", "PASSTHROUGH"}]

(* A region is active with one of its own leaves, and every variable keeps *)
(* its type.                                                               *)
StateTypes ==
  /\ \/ region \in Running \ {"PASSTHROUGH_DISCONNECTED"} /\ leaf \in {"SAMPLING", "WAITING"}
     \/ region = "PASSTHROUGH_DISCONNECTED" /\ leaf = "NONE"
     \/ region = "FOTA" /\ leaf \in FotaLeaves
  /\ history \in Running
  /\ polled \in {"no", "yes"}
  /\ told \in {"CLOUD_CONNECTED", "CLOUD_DISCONNECTED"}
  /\ confirmed \in {"BUFFER", "PASSTHROUGH"}

TimerTypes ==
  /\ start \in {"never", "recent", "old"}
  /\ sampleTimer \in {"stopped", "scheduled", "stale"}
  /\ sendTimer \in {"stopped", "scheduled", "stale"}
  /\ modemReady \in BOOLEAN
  /\ search \in {"idle", "running", "lost"}

TypeOK ==
  /\ StateTypes /\ TimerTypes
  /\ inbox \in Seq(InMsg)
  /\ published \in Seq(OutMsg)
  /\ responses \in 0 .. MaxResponses

(* Main acts on the connection status it was told last, in every state,    *)
(* and after an update that was given up it resumes where that status      *)
(* belongs (fota_run: "to be able to return to the correct state in case   *)
(* cloud connection is lost during FOTA").                                 *)
ConnectionKnown ==
  LET r == IF region = "FOTA" THEN history ELSE region IN
    /\ r \in Connected <=> told = "CLOUD_CONNECTED"
    /\ region # "FOTA" => history = region

(* Main samples and sends in the storage mode that was confirmed to it     *)
(* last, and resumes in it after an update, whatever the connection did.   *)
(* A confirmation that comes during an update passes unnoticed             *)
(* (main.c:1679) and is not counted here.                                  *)
ModeKnown == ModeOf(IF region = "FOTA" THEN history ELSE region) = confirmed

(* The timers run only in the states they are for: "Suspend all periodic   *)
(* activity while in FOTA" (fota_entry), no sampling while sampling, no    *)
(* sending in passthrough mode.                                            *)
TimersFitState ==
  /\ sampleTimer # "stopped" => leaf = "WAITING"
  /\ sendTimer # "stopped" => region \in Buffer

(* Neither cycle dies out: in WAITING the next sampling, and in buffer     *)
(* mode the next sending, is scheduled or has just expired.                *)
Queued(type) == \E i \in DOMAIN inbox : inbox[i].type = type

CyclesGoOn ==
  /\ leaf = "WAITING" => sampleTimer # "stopped" \/ Queued("TIMER_EXPIRED_SAMPLE_DATA")
  /\ region \in Buffer => sendTimer # "stopped" \/ Queued("TIMER_EXPIRED_CLOUD")

(* Sampling goes on for ever: no waiting and no sampling lasts, however    *)
(* the connection, the mode and the buttons interfere ("Samples sensors    *)
(* and location at sample_interval", docs/common/configuration.md:78).     *)
SamplingGoesOn ==
  /\ leaf = "WAITING" ~> leaf # "WAITING"
  /\ leaf = "SAMPLING" ~> leaf # "SAMPLING"

(* It does unless the search was asked for before the modem was ready.     *)
AnsweredSamplingGoesOn ==
  /\ leaf = "WAITING" ~> leaf # "WAITING"
  /\ leaf = "SAMPLING" ~> leaf # "SAMPLING" \/ search = "lost"

(* In buffer mode two searches are a sample interval apart, unless the     *)
(* button or a change of mode asked for one, or the first was begun in the *)
(* second in which the device booted.                                      *)
SearchesApart ==
  [][(\E i \in DOMAIN published' : published'[i].type = "LOCATION_SEARCH_TRIGGER")
       /\ region \in Buffer /\ region' \in Buffer
         => start # "recent" \/ ButtonPressShort]_vars

(* What is reported to the cloud is the mode that was asked for: "Only     *)
(* report the configuration values that were actually applied by the       *)
(* application" (handle_cloud_shadow_response).                            *)
ReportedModeIsRequested ==
  \A i, j \in DOMAIN published :
    /\ published[i].type = "STORAGE_MODE_PASSTHROUGH_REQUEST"
    /\ published[j].type = "CLOUD_SHADOW_UPDATE_REPORTED"
    => published[j].mode = "PASSTHROUGH"
=============================================================================
