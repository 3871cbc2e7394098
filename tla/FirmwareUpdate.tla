--------------------------- MODULE FirmwareUpdate ---------------------------
(***************************************************************************)
(* A firmware update, from the poll to the reboot: the main module         *)
(* (MainModule) polls, suspends sampling while the FOTA module             *)
(* (FotaModule) downloads, asks the network module (NetworkModule) to      *)
(* disconnect, has a modem image applied, and reboots.                     *)
(*                                                                         *)
(* The three threads share nothing but the channels: what one publishes is *)
(* appended to the queues of the others in the same step (zbus message     *)
(* subscribers), and each takes from its own queue in its own time.        *)
(***************************************************************************)
EXTENDS MainModule, FotaModule, NetworkModule

CONSTANTS
  RequestLimit,  \* bound of the model: requests of main waiting in the FOTA queue
  MaxTroubles,   \* bound of the model: requests of others, outages and cancellations
  BacklogLimit   \* bound of the model: messages waiting for main when a job is found,
                 \* a timer expires or a search ends

ASSUME UpdateBoundsAssumption == {RequestLimit, MaxTroubles, BacklogLimit} \subseteq Nat

(* What main acts on during an update comes from the two other modules. *)
ASSUME OthersAssumption ==
  Events \cap {"FOTA_DOWNLOADING_UPDATE", "FOTA_DOWNLOAD_ENDED", "FOTA_SUCCESS_REBOOT_NEEDED",
               "FOTA_IMAGE_APPLY_NEEDED", "NETWORK_DISCONNECTED"} = {}

VARIABLE disturbed  \* history: since the image was downloaded the network was lost, or
                    \* someone other than main had the network module connect,
                    \* disconnect or stop a search

updateVars == <<vars, fotaVars, networkVars, disturbed>>

UpdateInit == Init /\ modemReady /\ FotaInit /\ NetworkInit /\ disturbed = FALSE

-----------------------------------------------------------------------------
(* The channels.                                                           *)

Types(msgs) == [i \in DOMAIN msgs |-> msgs[i].type]

(* Main publishes a request at most once in a step, ... *)
Asked(request, types) == IF \E i \in DOMAIN types : types[i] = request THEN <<request>> ELSE <<>>

FotaRequests(types) == Asked("FOTA_POLL_REQUEST", types) \o Asked("FOTA_IMAGE_APPLY", types)

(* The samples of the network quality are left out: they change nothing in *)
(* the network module.                                                     *)
NetworkRequestsOf(types) == Asked("NETWORK_DISCONNECT", types)

(* ... and the others publish one message at a time; main acts on these.   *)
HeardAs(type) ==
  IF type \in {"FOTA_DOWNLOAD_FAILED", "FOTA_DOWNLOAD_CANCELED"} THEN "FOTA_DOWNLOAD_ENDED" ELSE type

ToMain(types) ==
  IF types # <<>> /\ HeardAs(Head(types)) \in AllEvents THEN <<Event(HeardAs(Head(types)))>> ELSE <<>>

Hears(types) ==
  /\ inbox' = inbox \o ToMain(types)
  /\ published' = <<>>
  /\ UNCHANGED <<modeVars, timerVars, polled, modemReady, search, envVars>>

-----------------------------------------------------------------------------
(* The steps.                                                              *)

(* Main takes a message, one of its timers expires, or another module      *)
(* sends it something.                                                     *)
MainRuns(step) ==
  /\ fota # "FATAL" /\ leaf # "REBOOTING"
  /\ step
  /\ fotaInbox' = fotaInbox \o FotaRequests(Types(published'))
  /\ netInbox' = netInbox \o NetworkRequestsOf(Types(published'))
  /\ Len(fotaInbox') <= RequestLimit \/ fotaInbox' = fotaInbox
  /\ Len(inbox) <= BacklogLimit \/ Len(inbox') <= Len(inbox)
  /\ fotaSent' = <<>> /\ netSent' = <<>>
  /\ UNCHANGED <<fota, job, cancels, lte, modem, requested, outages, disturbed>>

FotaRuns(step) ==
  /\ step
  /\ job # "found" /\ job' = "found" => Len(inbox) <= BacklogLimit
  /\ Hears(fotaSent')
  /\ netSent' = <<>>
  /\ UNCHANGED <<lte, modem, netInbox, requested, outages, disturbed>>

Disturbs(request) == request \in {"NETWORK_CONNECT", "NETWORK_DISCONNECT", "NETWORK_SEARCH_STOP"}

(* A download needs the network to finish; what it then reports comes when *)
(* the image has been validated.                                           *)
LibraryRuns ==
  /\ fota # "FATAL"
  /\ Library
  /\ \/ /\ job' = "downloaded" /\ modem = "attached"
        /\ disturbed' = \E i \in DOMAIN netInbox : Disturbs(netInbox[i])
     \/ job' # "downloaded" /\ UNCHANGED disturbed
  /\ Hears(fotaSent')
  /\ netSent' = <<>>
  /\ UNCHANGED <<lte, modem, netInbox, requested, outages>>

NetworkRuns(step) ==
  /\ fota # "FATAL"
  /\ step
  /\ disturbed' = (disturbed \/ /\ job \in {"downloaded", "apply", "done", "applying"}
                                /\ \/ outages' # outages
                                   \/ requested' # requested /\ Disturbs(netInbox'[Len(netInbox')]))
  /\ Hears(netSent')
  /\ fotaSent' = <<>>
  /\ UNCHANGED <<fota, job, fotaInbox, cancels>>

(* sys_reboot, by main or after a fatal error: nothing of the three        *)
(* modules survives it.                                                    *)
DeviceRestarts ==
  /\ leaf = "REBOOTING" \/ fota = "FATAL"
  /\ Restart /\ modemReady'
  /\ fota' = "WAITING_FOR_POLL_REQUEST" /\ job' = "none"
  /\ fotaInbox' = <<>> /\ fotaSent' = <<>>
  /\ lte' = Disconnects
  /\ modem' = IF SearchOnStartup THEN "searching" ELSE "offline"
  /\ netInbox' = <<>> /\ netSent' = <<>>
  /\ disturbed' = FALSE
  /\ UNCHANGED <<cancels, requested, outages>>

MainStep == MainThread \/ SampleTimerExpires \/ SendTimerExpires \/ IntervalPasses \/ SearchEnds

(* Bound of the model: troubles come while there is an update. *)
Trouble ==
  /\ job # "none"
  /\ requested + outages + cancels < MaxTroubles
  /\ \/ FotaRuns(RequestCancel)
     \/ NetworkRuns(RequestNetwork \/ LoseNetwork \/ NoSim)

UpdateNext ==
  \/ MainRuns(MainStep \/ OthersPublish)
  \/ FotaRuns(FotaThread)
  \/ LibraryRuns
  \/ NetworkRuns(NetworkThread \/ Attach \/ Detach)
  \/ Trouble
  \/ DeviceRestarts

(* The threads run, the library and the modem answer, and a device that    *)
(* reboots comes back; the network need not be found, and nobody has to    *)
(* request anything.                                                       *)
UpdateSpec ==
  /\ UpdateInit /\ [][UpdateNext]_updateVars
  /\ WF_updateVars(MainRuns(MainStep))
  /\ WF_updateVars(FotaRuns(FotaThread))
  /\ WF_updateVars(LibraryRuns)
  /\ WF_updateVars(NetworkRuns(NetworkThread))
  /\ WF_updateVars(NetworkRuns(Detach))
  /\ WF_updateVars(DeviceRestarts)
-----------------------------------------------------------------------------
(* Properties.                                                             *)

(* Main and the FOTA module agree on the update through their queues: main *)
(* has suspended its work, or is about to, while there is a download, and  *)
(* waits for nothing that is over (main.c:1679, fota.c:338).               *)
QueuedAny(types) == \E t \in types : Queued(t)

UpdateAgreed ==
  /\ job \in {"downloading", "canceling", "downloaded", "apply", "applying", "done"} =>
       region = "FOTA" \/ Queued("FOTA_DOWNLOADING_UPDATE")
  /\ leaf = "DOWNLOADING" =>
       \/ job \in {"downloading", "canceling", "downloaded"}
       \/ QueuedAny({"FOTA_DOWNLOAD_ENDED", "FOTA_IMAGE_APPLY_NEEDED",
                     "FOTA_SUCCESS_REBOOT_NEEDED"})
  /\ leaf = "APPLYING" =>
       \/ fota = "FATAL" \/ job = "applying"
       \/ InFotaQueue("FOTA_IMAGE_APPLY") \/ Queued("FOTA_SUCCESS_REBOOT_NEEDED")

(* A modem image is applied with the modem offline (fota.h:37: "When       *)
(* disconnected from the network, send the event FOTA_IMAGE_APPLY").       *)
AppliedOffline == fota = "IMAGE_APPLYING" /\ ~disturbed => modem = "offline"

(* An update ends, in a reboot or back at work: "All update operations     *)
(* feature error handling with appropriate status messages, allowing the   *)
(* application to recover gracefully from download failures or             *)
(* interruptions" (docs/modules/fota_module.md:25).                        *)
UpdateEnds == region = "FOTA" ~> region # "FOTA"

(* It does if the network stays as it was from the end of the download     *)
(* until main has had it disconnected.                                     *)
UndisturbedUpdateEnds == [](~disturbed) => UpdateEnds
=============================================================================
