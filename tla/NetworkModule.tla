--------------------------- MODULE NetworkModule ---------------------------
(***************************************************************************)
(* The network module (app/src/modules/network/network.c): a thread that   *)
(* starts and stops the modem on request and follows its events.  The      *)
(* modem's event handler only publishes on NETWORK_CHAN, so that an event  *)
(* waits in the module's own queue behind the requests of others, and      *)
(* describes the modem as it was.                                          *)
(*                                                                         *)
(* The modem and its LTE link controller are external, modelled as far as  *)
(* the module relies on them.  The requests are open: any module or the    *)
(* shell may send them at any moment.                                      *)
(***************************************************************************)
EXTENDS Naturals, Sequences

CONSTANTS
  SearchOnStartup,  \* CONFIG_APP_NETWORK_SEARCH_NETWORK_ON_STARTUP
  NetworkRequests,  \* requests that the other modules and the shell send
  MaxRequests,      \* bound of the model: such requests
  MaxOutages        \* bound of the model: how often the modem loses network or SIM

AllNetworkRequests ==
  {"NETWORK_CONNECT", "NETWORK_DISCONNECT", "NETWORK_SEARCH_STOP",
   "NETWORK_QUALITY_SAMPLE_REQUEST", "NETWORK_SYSTEM_MODE_REQUEST",
   "NETWORK_SYSTEM_MODE_SET"}

ASSUME SearchAssumption == SearchOnStartup \in BOOLEAN
ASSUME NetworkRequestsAssumption == NetworkRequests \subseteq AllNetworkRequests
ASSUME NetworkBoundsAssumption == MaxRequests \in Nat /\ MaxOutages \in Nat

VARIABLES
  lte,        \* the active leaf of the state machine
  modem,      \* the modem: "offline", "searching", "attached", "failed" (no SIM);
              \* "detached" and "resuming" when it is offline, or searches again, and
              \* has not reported the loss of its connection yet
  netInbox,   \* the queue of network_subscriber
  netSent,    \* what the last step published on NETWORK_CHAN, for the other modules
  requested,  \* history: requests of others so far
  outages     \* history: how often the modem lost its network or found no SIM

networkVars == <<lte, modem, netInbox, netSent, requested, outages>>

(* The initial leaf of STATE_DISCONNECTED. *)
Disconnects == IF SearchOnStartup THEN "SEARCHING" ELSE "IDLE"

NetworkInit ==
  /\ lte = Disconnects
  /\ modem = IF SearchOnStartup THEN "searching" ELSE "offline"
  /\ netInbox = <<>>
  /\ netSent = <<>>
  /\ requested = 0
  /\ outages = 0

NetTakes(types) ==
  /\ netInbox # <<>>
  /\ Head(netInbox) \in types
  /\ netInbox' = Tail(netInbox)
  /\ UNCHANGED <<requested, outages>>

(* Nothing is published that the module or main handles. *)
NetSilent == netSent' = <<>>

(* lte_lc_offline: the loss of the connection, if there was one, is an     *)
(* event of its own.                                                       *)
Offline ==
  modem' = IF modem \in {"attached", "detached", "resuming"} THEN "detached" ELSE "offline"

(* The entry of STATE_DISCONNECTED_SEARCHING: lte_lc_connect_async. *)
EnterSearching ==
  /\ lte' = "SEARCHING"
  /\ modem' = CASE modem = "attached" -> modem
                [] modem \in {"detached", "resuming"} -> "resuming"
                [] OTHER -> "searching"

-----------------------------------------------------------------------------
(* Requests.                                                               *)

NetworkConnect ==
  /\ NetTakes({"NETWORK_CONNECT"})
  /\ \/ lte = "IDLE" /\ EnterSearching
     \/ lte # "IDLE" /\ UNCHANGED <<lte, modem>>
  /\ NetSilent

(* Only a connected module waits for the modem; nobody is told when there  *)
(* was no connection to give up.                                           *)
NetworkDisconnect ==
  /\ NetTakes({"NETWORK_DISCONNECT"})
  /\ \/ lte = "SEARCHING" /\ lte' = "IDLE" /\ Offline
     \/ lte = "CONNECTED" /\ lte' = "DISCONNECTING" /\ Offline
     \/ lte \in {"IDLE", "DISCONNECTING"} /\ UNCHANGED <<lte, modem>>
  /\ NetSilent

NetworkSearchStop ==
  /\ NetTakes({"NETWORK_SEARCH_STOP"})
  /\ \/ lte = "SEARCHING" /\ lte' = "IDLE" /\ Offline
     \/ lte # "SEARCHING" /\ UNCHANGED <<lte, modem>>
  /\ NetSilent

(* sample_network_quality answers if the modem can tell, request_system_mode *)
(* always; the mode itself is set in IDLE only.                              *)
Answers(request) ==
  CASE request = "NETWORK_QUALITY_SAMPLE_REQUEST" -> {<<>>, <<"NETWORK_QUALITY_SAMPLE_RESPONSE">>}
    [] request = "NETWORK_SYSTEM_MODE_REQUEST" -> {<<"NETWORK_SYSTEM_MODE_RESPONSE">>}
    [] OTHER -> {<<>>}

NetworkQuery ==
  /\ NetTakes({"NETWORK_QUALITY_SAMPLE_REQUEST", "NETWORK_SYSTEM_MODE_REQUEST",
               "NETWORK_SYSTEM_MODE_SET"})
  /\ netSent' \in Answers(Head(netInbox))
  /\ UNCHANGED <<lte, modem>>

-----------------------------------------------------------------------------
(* The modem's events, taken from the queue.                               *)

NetworkConnected ==
  /\ NetTakes({"NETWORK_CONNECTED"})
  /\ lte' = IF lte \in {"IDLE", "SEARCHING"} THEN "CONNECTED" ELSE lte
  /\ NetSilent
  /\ UNCHANGED modem

(* Mutant: a lost connection is not noticed. *)
NetworkLostUnnoticed ==
  /\ NetTakes({"NETWORK_DISCONNECTED"})
  /\ lte' = IF lte = "DISCONNECTING" THEN "IDLE" ELSE lte
  /\ NetSilent
  /\ UNCHANGED modem

(* A lost connection is searched for again, as at startup; one that was    *)
(* given up is not.                                                        *)
NetworkLost ==
  /\ NetTakes({"NETWORK_DISCONNECTED"})
  /\ \/ lte = "CONNECTED" /\ SearchOnStartup /\ EnterSearching
     \/ lte = "CONNECTED" /\ ~SearchOnStartup /\ lte' = "IDLE" /\ UNCHANGED modem
     \/ lte = "DISCONNECTING" /\ lte' = "IDLE" /\ UNCHANGED modem
     \/ lte \in {"IDLE", "SEARCHING"} /\ UNCHANGED <<lte, modem>>
  /\ NetSilent

NetworkUiccFailure ==
  /\ NetTakes({"NETWORK_UICC_FAILURE"})
  /\ lte' = "IDLE"
  /\ NetSilent
  /\ UNCHANGED modem

NetworkThread ==
  \/ NetworkConnect \/ NetworkDisconnect \/ NetworkSearchStop \/ NetworkQuery
  \/ NetworkConnected \/ NetworkLost \/ NetworkUiccFailure

-----------------------------------------------------------------------------
(* The modem, and lte_lc_evt_handler.  A lost network is searched for by   *)
(* the modem itself.  Events that nobody acts on are left out.             *)

Announce(event) ==
  /\ netInbox' = Append(netInbox, event)
  /\ netSent' = <<event>>
  /\ UNCHANGED <<lte, requested>>

Attach ==
  /\ modem = "searching"
  /\ modem' = "attached"
  /\ Announce("NETWORK_CONNECTED")
  /\ UNCHANGED outages

LoseNetwork ==
  /\ modem = "attached"
  /\ outages < MaxOutages
  /\ outages' = outages + 1
  /\ modem' = "searching"
  /\ Announce("NETWORK_DISCONNECTED")

NoSim ==
  /\ modem = "searching"
  /\ outages < MaxOutages
  /\ outages' = outages + 1
  /\ modem' = "failed"
  /\ Announce("NETWORK_UICC_FAILURE")

Detach ==
  /\ \/ modem = "detached" /\ modem' = "offline"
     \/ modem = "resuming" /\ modem' = "searching"
  /\ Announce("NETWORK_DISCONNECTED")
  /\ UNCHANGED outages

Modem == Attach \/ LoseNetwork \/ NoSim \/ Detach

RequestNetwork ==
  /\ requested < MaxRequests
  /\ requested' = requested + 1
  /\ \E r \in NetworkRequests : netInbox' = Append(netInbox, r)
  /\ NetSilent
  /\ UNCHANGED <<lte, modem, outages>>

NetworkNext == NetworkThread \/ Modem \/ RequestNetwork

NetworkSpec == NetworkInit /\ [][NetworkNext]_networkVars

-----------------------------------------------------------------------------
(* Properties.                                                             *)

NetworkMsg ==
  AllNetworkRequests \union {"NETWORK_CONNECTED", "NETWORK_DISCONNECTED", "NETWORK_UICC_FAILURE"}

(* Every variable keeps its type. *)
NetworkTypeOK ==
  /\ lte \in {"IDLE", "SEARCHING", "CONNECTED", "DISCONNECTING"}
  /\ modem \in {"offline", "searching", "attached", "failed", "detached", "resuming"}
  /\ netInbox \in Seq(NetworkMsg)
  /\ netSent \in Seq(NetworkMsg \union {"NETWORK_QUALITY_SAMPLE_RESPONSE",
                                        "NETWORK_SYSTEM_MODE_RESPONSE"})
  /\ requested \in 0 .. MaxRequests
  /\ outages \in 0 .. MaxOutages

(* The module never rests in a state that the modem has left: where the    *)
(* two differ the event that brings them together is in the queue, or the  *)
(* modem still owes it; a module that waits for the modem to detach will   *)
(* hear of it.  Requests, losses and events that crossed each other        *)
(* included (lte_lc_evt_handler, network.c:155).                           *)
InNetQueue(m) == \E i \in DOMAIN netInbox : netInbox[i] = m

DisconnectUnderWay == modem \in {"detached", "resuming"} \/ InNetQueue("NETWORK_DISCONNECTED")

StateFollowsModem ==
  /\ modem = "attached" => lte = "CONNECTED" \/ InNetQueue("NETWORK_CONNECTED")
  /\ lte = "CONNECTED" => modem = "attached" \/ DisconnectUnderWay
  /\ lte = "DISCONNECTING" => DisconnectUnderWay
=============================================================================
