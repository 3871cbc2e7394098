----------------------------- MODULE CloudModule -----------------------------
(***************************************************************************)
(* The cloud module (app/src/modules/cloud/cloud.c): the thread that keeps *)
(* the connection to nRF Cloud, with its hierarchical state machine, the   *)
(* backoff work item and the callback of the provisioning library.         *)
(*                                                                         *)
(* A message handler is one action: smf_set_state runs the exit and entry  *)
(* functions up to the leaf state at once.  The one exception is           *)
(* connect_to_cloud: the call blocks the thread while the network changes  *)
(* and messages queue up, so it begins in one action and ends in another.  *)
(*                                                                         *)
(* The connection and the provisioning library are outside the repository: *)
(* what they answer is a choice.  Errors that end in SEND_FATAL_ERROR      *)
(* restart the device and are left out.                                    *)
(***************************************************************************)
EXTENDS Naturals, Sequences

CONSTANTS
  BackoffType,      \* "NONE", "LINEAR" or "EXPONENTIAL": APP_CLOUD_BACKOFF_TYPE
  BackoffInitial,   \* CONFIG_APP_CLOUD_BACKOFF_INITIAL_SECONDS
  BackoffIncrement, \* CONFIG_APP_CLOUD_BACKOFF_LINEAR_INCREMENT_SECONDS
  BackoffMax,       \* CONFIG_APP_CLOUD_BACKOFF_MAX_SECONDS
  WordSize,         \* number of values of the unsigned backoff time, 2^32 in the code
  Prompt,           \* TRUE when a backoff outlasts the results queued when it began
  MaxFailures,      \* bound of the model: attempts and requests that fail
  MaxChanges,       \* bound of the model: changes of the network connection
  MaxRequests,      \* bound of the model: messages of the other modules
  QueueLimit        \* bound of the model: messages waiting in the subscriber queue

ASSUME BackoffAssumption ==
  /\ BackoffType \in {"NONE", "LINEAR", "EXPONENTIAL"}
  /\ BackoffInitial \in Nat \ {0} /\ BackoffIncrement \in Nat /\ BackoffMax \in Nat
  /\ WordSize \in Nat \ {0}
ASSUME PromptAssumption == Prompt \in BOOLEAN
ASSUME CloudBoundsAssumption ==
  MaxFailures \in Nat /\ MaxChanges \in Nat /\ MaxRequests \in Nat /\ QueueLimit \in Nat

VARIABLES
  mode,                 \* active leaf of the state machine
  connecting,           \* the thread is inside nrf_cloud_coap_connect
  network_connected,    \* the last network status that the thread took from its queue
  provisioning_ongoing, \* what an expired backoff goes back to
  connection_attempts,  \* since STATE_CONNECTING was entered
  backoff_time,
  timer,                \* backoff_timer_work is scheduled
  provisioner,          \* the provisioning library has been triggered and will answer
  inbox,                \* the queue of cloud_subscriber
  published,            \* what the last step published for the other modules
  online,               \* what the network module published last
  report,               \* history: the connection status published last
  outcome,              \* history: what the last connection attempt came to
  changes, failures, requests  \* history: how often each has happened

contextVars == <<network_connected, provisioning_ongoing, connection_attempts, backoff_time>>
worldVars == <<online, changes, failures, requests>>
cloudVars == <<mode, connecting, contextVars, timer, provisioner, inbox, published,
               report, outcome, worldVars>>

NetworkMsg == {"NETWORK_CONNECTED", "NETWORK_DISCONNECTED"}
BatchMsg == {"STORAGE_BATCH_AVAILABLE", "STORAGE_BATCH_EMPTY", "STORAGE_BATCH_ERROR"}
ConnectResult ==
  {"CLOUD_CONNECTION_SUCCESS", "CLOUD_NOT_AUTHENTICATED", "CLOUD_CONNECTION_FAILED"}
ProvisioningResult == {"CLOUD_PROVISIONING_FINISHED", "CLOUD_PROVISIONING_FAILED"}
PrivMsg ==
  ConnectResult \union ProvisioningResult
    \union {"CLOUD_BACKOFF_EXPIRED", "CLOUD_SEND_REQUEST_FAILED"}

(* "REQUEST" is any message that makes the connected module send a single  *)
(* request: a payload, a shadow poll or report, an A-GNSS request, or      *)
(* STORAGE_DATA.  Messages that no state handles, among them those that    *)
(* the module itself publishes on a channel it observes, are left out.     *)
OtherMsg == BatchMsg \union {"CLOUD_PROVISIONING_REQUEST", "REQUEST"}
CloudInMsg == NetworkMsg \union PrivMsg \union OtherMsg
CloudOutMsg == {"CLOUD_CONNECTED", "CLOUD_DISCONNECTED", "CLOUD_SHADOW_RESPONSE",
                "LOCATION_SEARCH_CANCEL", "STORAGE_BATCH_REQUEST", "STORAGE_BATCH_CLOSE"}

Attempting == {"PROVISIONED", "PROVISIONING"}
Connecting == Attempting \union {"BACKOFF"}
Modes == {"DISCONNECTED", "READY", "PAUSED"} \union Connecting

CloudInit ==
  /\ mode = "DISCONNECTED"
  /\ connecting = FALSE
  /\ network_connected = FALSE
  /\ provisioning_ongoing = FALSE
  /\ connection_attempts = 0
  /\ backoff_time = 0
  /\ timer = "stopped"
  /\ provisioner = "idle"
  /\ inbox = <<>>
  /\ published = <<"CLOUD_DISCONNECTED">>
  /\ online = FALSE
  /\ report = "CLOUD_DISCONNECTED"
  /\ outcome = "none"
  /\ changes = 0 /\ failures = 0 /\ requests = 0

-----------------------------------------------------------------------------
(* The thread takes the next message, and keeps the network status first   *)
(* of all (network_connection_status_retain).                              *)

network_connection_status_retain(m) ==
  network_connected' =
    IF m \in NetworkMsg THEN m = "NETWORK_CONNECTED" ELSE network_connected

Receive(m) ==
  /\ ~connecting
  /\ inbox # <<>>
  /\ Head(inbox) = m
  /\ network_connection_status_retain(m)
  /\ UNCHANGED <<online, changes, requests>>

Consume == inbox' = Tail(inbox)

Queued(msgs) == \E i \in DOMAIN inbox : inbox[i] \in msgs

(* The messages of a step; a connection status among them comes first. *)
Publish(msgs) == published' = msgs /\ UNCHANGED report

Announce(status, msgs) == published' = <<status>> \o msgs /\ report' = status

-----------------------------------------------------------------------------
(* The entry functions.                                                    *)

(* state_connecting_provisioned_entry: connect_to_cloud begins. *)
EnterProvisioned ==
  /\ mode' = "PROVISIONED"
  /\ provisioning_ongoing' = FALSE
  /\ connecting' = TRUE
  /\ UNCHANGED provisioner

(* state_connecting_provisioning_entry; the caller publishes the message   *)
(* that cancels the location search.                                       *)
EnterProvisioning ==
  /\ mode' = "PROVISIONING"
  /\ provisioning_ongoing' = TRUE
  /\ provisioner' = "running"
  /\ UNCHANGED connecting

Stay(m) ==
  /\ mode' = m
  /\ UNCHANGED <<provisioning_ongoing, provisioner, connecting>>

(* Mutant: the attempts are counted when they fail. *)
FirstAttemptUncounted == connection_attempts' = 0

(* state_connecting_entry and state_connecting_attempt_entry *)
FirstAttempt == connection_attempts' = 1

NextAttempt == connection_attempts' = connection_attempts + 1

(* BackoffInitial << places: what is shifted out of the word is lost, and  *)
(* nothing is left once the places are as many as its bits.                *)
Shifted[places \in Nat] ==
  IF places = 0 THEN BackoffInitial % WordSize ELSE (2 * Shifted[places - 1]) % WordSize

(* calculate_backoff_time, in unsigned arithmetic.  The maximum is only    *)
(* asserted.                                                               *)
calculate_backoff_time(attempts) ==
  CASE BackoffType = "NONE" -> BackoffInitial % WordSize
    [] BackoffType = "LINEAR" -> (BackoffInitial + (attempts - 1) * BackoffIncrement) % WordSize
    [] BackoffType = "EXPONENTIAL" -> Shifted[attempts - 1]

(* state_connecting_backoff_entry *)
EnterBackoff ==
  /\ Stay("BACKOFF")
  /\ backoff_time' = calculate_backoff_time(connection_attempts)
  /\ timer' = "scheduled"
  /\ Publish(<<>>)
  /\ UNCHANGED <<connection_attempts, outcome>>

-----------------------------------------------------------------------------
(* STATE_DISCONNECTED                                                      *)

DisconnectedNetworkConnected ==
  /\ mode = "DISCONNECTED"
  /\ Receive("NETWORK_CONNECTED")
  /\ Consume
  /\ FirstAttempt
  /\ EnterProvisioned
  /\ Publish(<<>>)
  /\ UNCHANGED <<backoff_time, timer, outcome, failures>>

(* Mutant: the exit function leaves the timer running. *)
ConnectingKeepsTimer ==
  /\ mode \in {"PROVISIONED", "BACKOFF"}
  /\ Receive("NETWORK_DISCONNECTED")
  /\ Consume
  /\ Stay("DISCONNECTED")
  /\ Announce("CLOUD_DISCONNECTED", <<>>)
  /\ UNCHANGED <<connection_attempts, backoff_time, timer, outcome, failures>>

(* STATE_CONNECTING: the network is lost.  The exit function of the        *)
(* backoff cancels its timer.                                              *)
ConnectingNetworkDisconnected ==
  /\ mode \in {"PROVISIONED", "BACKOFF"}
  /\ Receive("NETWORK_DISCONNECTED")
  /\ Consume
  /\ Stay("DISCONNECTED")
  /\ timer' = "stopped"
  /\ Announce("CLOUD_DISCONNECTED", <<>>)
  /\ UNCHANGED <<connection_attempts, backoff_time, outcome, failures>>

(* connect_to_cloud ends: the connection answers, and the result is put in *)
(* the module's own queue, behind what arrived in the meantime.  Success   *)
(* takes a network.                                                        *)
ConnectToCloud ==
  /\ connecting
  /\ connecting' = FALSE
  /\ \E result \in ConnectResult :
       /\ IF result = "CLOUD_CONNECTION_SUCCESS"
            THEN online /\ UNCHANGED failures
            ELSE failures < MaxFailures /\ failures' = failures + 1
       /\ inbox' = Append(inbox, result)
       /\ outcome' = result
  /\ Publish(<<>>)
  /\ UNCHANGED <<mode, contextVars, timer, provisioner, online, changes, requests>>

ConnectionSuccess ==
  /\ mode = "PROVISIONED"
  /\ Receive("CLOUD_CONNECTION_SUCCESS")
  /\ Consume
  /\ Stay("READY")
  /\ Announce("CLOUD_CONNECTED", <<>>)
  /\ UNCHANGED <<connection_attempts, backoff_time, timer, outcome, failures>>

NotAuthenticated ==
  /\ mode = "PROVISIONED"
  /\ Receive("CLOUD_NOT_AUTHENTICATED")
  /\ Consume
  /\ EnterProvisioning
  /\ Publish(<<"LOCATION_SEARCH_CANCEL">>)
  /\ UNCHANGED <<connection_attempts, backoff_time, timer, outcome, failures>>

ConnectionFailed ==
  /\ mode = "PROVISIONED"
  /\ Receive("CLOUD_CONNECTION_FAILED")
  /\ Consume
  /\ EnterBackoff
  /\ UNCHANGED failures

(* STATE_PROVISIONING: the network may come and go, and the callback of    *)
(* the provisioning library reports the end.                               *)
ProvisioningNetwork ==
  /\ mode = "PROVISIONING"
  /\ \E m \in NetworkMsg : Receive(m)
  /\ Consume
  /\ Stay(mode)
  /\ Publish(<<>>)
  /\ UNCHANGED <<connection_attempts, backoff_time, timer, outcome, failures>>

nrf_provisioning_callback ==
  /\ provisioner = "running"
  /\ provisioner' = "idle"
  /\ \/ /\ inbox' = Append(inbox, "CLOUD_PROVISIONING_FINISHED")
        /\ UNCHANGED failures
     \/ /\ failures < MaxFailures
        /\ failures' = failures + 1
        /\ inbox' = Append(inbox, "CLOUD_PROVISIONING_FAILED")
  /\ Publish(<<>>)
  /\ UNCHANGED <<mode, connecting, contextVars, timer, outcome, online, changes, requests>>

ProvisioningFinished ==
  /\ mode = "PROVISIONING"
  /\ Receive("CLOUD_PROVISIONING_FINISHED")
  /\ Consume
  /\ EnterProvisioned
  /\ Publish(<<>>)
  /\ UNCHANGED <<connection_attempts, backoff_time, timer, outcome, failures>>

(* Mutant: the module waits for the network although it has it. *)
ProvisioningFailedDisconnects ==
  /\ mode = "PROVISIONING"
  /\ Receive("CLOUD_PROVISIONING_FAILED")
  /\ Consume
  /\ Stay("DISCONNECTED")
  /\ Announce("CLOUD_DISCONNECTED", <<>>)
  /\ UNCHANGED <<connection_attempts, backoff_time, timer, outcome, failures>>

ProvisioningFailed ==
  /\ mode = "PROVISIONING"
  /\ Receive("CLOUD_PROVISIONING_FAILED")
  /\ Consume
  /\ \/ network_connected /\ EnterBackoff
     \/ /\ ~network_connected
        /\ Stay("DISCONNECTED")
        /\ Announce("CLOUD_DISCONNECTED", <<>>)
        /\ UNCHANGED <<connection_attempts, backoff_time, timer, outcome>>
  /\ UNCHANGED failures

BackoffTimeUp == timer = "scheduled" /\ (Prompt => ~Queued(ConnectResult))

(* Mutant: the work item runs, and its message is lost. *)
BackoffTimerSilent ==
  /\ BackoffTimeUp
  /\ timer' = "stopped"
  /\ Publish(<<>>)
  /\ UNCHANGED <<mode, connecting, contextVars, provisioner, inbox, outcome, worldVars>>

(* Mutant: the expiry is published for everyone. *)
BackoffTimerPublic ==
  /\ BackoffTimeUp
  /\ timer' = "stopped"
  /\ inbox' = Append(inbox, "CLOUD_BACKOFF_EXPIRED")
  /\ Publish(<<"CLOUD_BACKOFF_EXPIRED">>)
  /\ UNCHANGED <<mode, connecting, contextVars, provisioner, outcome, worldVars>>

(* backoff_timer_work_fn, on the system workqueue *)
BackoffTimerWork ==
  /\ BackoffTimeUp
  /\ timer' = "stopped"
  /\ inbox' = Append(inbox, "CLOUD_BACKOFF_EXPIRED")
  /\ Publish(<<>>)
  /\ UNCHANGED <<mode, connecting, contextVars, provisioner, outcome, worldVars>>

BackoffExpired ==
  /\ mode = "BACKOFF"
  /\ Receive("CLOUD_BACKOFF_EXPIRED")
  /\ Consume
  /\ NextAttempt
  /\ timer' = "stopped"
  /\ \/ ~provisioning_ongoing /\ EnterProvisioned /\ Publish(<<>>)
     \/ provisioning_ongoing /\ EnterProvisioning /\ Publish(<<"LOCATION_SEARCH_CANCEL">>)
  /\ UNCHANGED <<backoff_time, outcome, failures>>

-----------------------------------------------------------------------------
(* STATE_CONNECTED.  Its exit function disconnects from the cloud.         *)

(* Mutant: the other modules are not told of the pause. *)
ReadyPausesSilently ==
  /\ mode = "READY"
  /\ Receive("NETWORK_DISCONNECTED")
  /\ Consume
  /\ Stay("PAUSED")
  /\ Publish(<<>>)
  /\ UNCHANGED <<connection_attempts, backoff_time, timer, outcome, failures>>

(* Mutant: a connected module ignores that the network is lost. *)
ReadyIgnoresNetwork ==
  /\ mode = "READY"
  /\ Receive("NETWORK_DISCONNECTED")
  /\ Consume
  /\ Stay("READY")
  /\ Publish(<<>>)
  /\ UNCHANGED <<connection_attempts, backoff_time, timer, outcome, failures>>

ReadyNetworkDisconnected ==
  /\ mode = "READY"
  /\ Receive("NETWORK_DISCONNECTED")
  /\ Consume
  /\ Stay("PAUSED")
  /\ Announce("CLOUD_DISCONNECTED", <<>>)
  /\ UNCHANGED <<connection_attempts, backoff_time, timer, outcome, failures>>

PausedNetworkConnected ==
  /\ mode = "PAUSED"
  /\ Receive("NETWORK_CONNECTED")
  /\ Consume
  /\ Stay("READY")
  /\ Announce("CLOUD_CONNECTED", <<>>)
  /\ UNCHANGED <<connection_attempts, backoff_time, timer, outcome, failures>>

(* handle_priv_cloud_message: a request failed, connect again. *)
SendRequestFailed ==
  /\ mode = "READY"
  /\ Receive("CLOUD_SEND_REQUEST_FAILED")
  /\ Consume
  /\ FirstAttempt
  /\ EnterProvisioned
  /\ outcome' = "none"
  /\ Announce("CLOUD_DISCONNECTED", <<>>)
  /\ UNCHANGED <<backoff_time, timer, failures>>

ProvisioningRequest ==
  /\ mode = "READY"
  /\ Receive("CLOUD_PROVISIONING_REQUEST")
  /\ Consume
  /\ FirstAttempt
  /\ EnterProvisioning
  /\ outcome' = "none"
  /\ Announce("CLOUD_DISCONNECTED", <<"LOCATION_SEARCH_CANCEL">>)
  /\ UNCHANGED <<backoff_time, timer, failures>>

(* A request is sent, and may fail: send_request_failed. *)
SendOrFail(msgs) ==
  \/ Consume /\ Publish(msgs) /\ UNCHANGED failures
  \/ /\ failures < MaxFailures
     /\ failures' = failures + 1
     /\ inbox' = Append(Tail(inbox), "CLOUD_SEND_REQUEST_FAILED")
     /\ Publish(<<>>)

(* A poll of the shadow answers, the other requests do not. *)
SendRequest ==
  /\ mode = "READY"
  /\ Receive("REQUEST")
  /\ \E msgs \in {<<>>, <<"CLOUD_SHADOW_RESPONSE">>} : SendOrFail(msgs)
  /\ Stay(mode)
  /\ UNCHANGED <<connection_attempts, backoff_time, timer, outcome>>

(* handle_storage_batch_available: the items are read and sent one by one, *)
(* also after one failed; then the next part is asked for or the session   *)
(* closed.  BatchDelivery models the loop itself.                          *)
BatchItems ==
  /\ mode = "READY"
  /\ Receive("STORAGE_BATCH_AVAILABLE")
  /\ \E failed \in 0 .. MaxFailures - failures :
       /\ inbox' = Tail(inbox) \o [i \in 1 .. failed |-> "CLOUD_SEND_REQUEST_FAILED"]
       /\ failures' = failures + failed
  /\ \E answer \in {"STORAGE_BATCH_REQUEST", "STORAGE_BATCH_CLOSE"} : Publish(<<answer>>)
  /\ Stay(mode)
  /\ UNCHANGED <<connection_attempts, backoff_time, timer, outcome>>

CloseSession ==
  /\ \/ mode = "READY" /\ \E m \in BatchMsg \ {"STORAGE_BATCH_AVAILABLE"} : Receive(m)
     \/ mode = "PAUSED" /\ \E m \in BatchMsg : Receive(m)
  /\ Consume
  /\ Publish(<<"STORAGE_BATCH_CLOSE">>)
  /\ Stay(mode)
  /\ UNCHANGED <<connection_attempts, backoff_time, timer, outcome, failures>>

-----------------------------------------------------------------------------
(* The messages that the states handle; a state drops all the others. *)
HandledIn(s) ==
  CASE s = "DISCONNECTED" -> {"NETWORK_CONNECTED"}
    [] s = "PROVISIONED" -> {"NETWORK_DISCONNECTED"} \union ConnectResult
    [] s = "PROVISIONING" -> NetworkMsg \union ProvisioningResult
    [] s = "BACKOFF" -> {"NETWORK_DISCONNECTED", "CLOUD_BACKOFF_EXPIRED"}
    [] s = "READY" -> {"NETWORK_DISCONNECTED", "CLOUD_SEND_REQUEST_FAILED"} \union OtherMsg
    [] s = "PAUSED" -> {"NETWORK_CONNECTED"} \union BatchMsg

DropMessage ==
  /\ \E m \in CloudInMsg \ HandledIn(mode) : Receive(m)
  /\ Consume
  /\ Stay(mode)
  /\ Publish(<<>>)
  /\ UNCHANGED <<connection_attempts, backoff_time, timer, outcome, failures>>

-----------------------------------------------------------------------------
(* The other modules.                                                      *)

Send(m) ==
  /\ Len(inbox) < QueueLimit
  /\ inbox' = Append(inbox, m)
  /\ Publish(<<>>)
  /\ UNCHANGED <<mode, connecting, contextVars, timer, provisioner, outcome, failures>>

(* The network module reports a change of the connection. *)
NetworkChange ==
  /\ changes < MaxChanges
  /\ changes' = changes + 1
  /\ online' = ~online
  /\ Send(IF online THEN "NETWORK_DISCONNECTED" ELSE "NETWORK_CONNECTED")
  /\ UNCHANGED requests

(* Main, storage, location and the shell. *)
OtherModules ==
  /\ requests < MaxRequests
  /\ requests' = requests + 1
  /\ \E m \in OtherMsg : Send(m)
  /\ UNCHANGED <<online, changes>>

-----------------------------------------------------------------------------
CloudThread ==
  \/ DisconnectedNetworkConnected \/ ConnectingNetworkDisconnected
  \/ ConnectToCloud \/ ConnectionSuccess \/ NotAuthenticated \/ ConnectionFailed
  \/ ProvisioningNetwork \/ ProvisioningFinished \/ ProvisioningFailed
  \/ BackoffExpired
  \/ ReadyNetworkDisconnected \/ PausedNetworkConnected \/ SendRequestFailed
  \/ ProvisioningRequest \/ SendRequest \/ BatchItems \/ CloseSession
  \/ DropMessage

CloudNext ==
  \/ CloudThread \/ BackoffTimerWork \/ nrf_provisioning_callback
  \/ NetworkChange \/ OtherModules

CloudSpec == CloudInit /\ [][CloudNext]_cloudVars

(* The thread runs while it has a message, a scheduled work item is run,   *)
(* and the connection and the provisioning library answer in the end.      *)
FairCloudSpec ==
  /\ CloudSpec
  /\ WF_cloudVars(CloudThread)
  /\ WF_cloudVars(BackoffTimerWork)
  /\ WF_cloudVars(nrf_provisioning_callback)
-----------------------------------------------------------------------------
(* Properties.                                                             *)

ControlTypeOK ==
  /\ mode \in Modes
  /\ connecting \in BOOLEAN
  /\ network_connected \in BOOLEAN
  /\ provisioning_ongoing \in BOOLEAN
  /\ connection_attempts \in Nat
  /\ timer \in {"stopped", "scheduled"}
  /\ provisioner \in {"idle", "running"}
  /\ inbox \in Seq(CloudInMsg)
  /\ published \in Seq(CloudOutMsg)
  /\ online \in BOOLEAN
  /\ report \in {"CLOUD_CONNECTED", "CLOUD_DISCONNECTED"}
  /\ outcome \in {"none"} \union ConnectResult
  /\ changes \in Nat /\ failures \in Nat /\ requests \in Nat

(* Every variable keeps its type; the backoff time fits its word. *)
CloudTypeOK == ControlTypeOK /\ backoff_time \in 0 .. WordSize - 1

(* The other modules believe that the cloud is connected exactly when the  *)
(* module is ready to send what they publish: every path into the ready    *)
(* state and out of it tells them.                                         *)
ReportIsTrue == report = "CLOUD_CONNECTED" <=> mode = "READY"

(* The module never waits for a message that nobody will send: in each     *)
(* waiting state the answer is on its way, whatever was dropped, cancelled *)
(* or left over before.                                                    *)
AnswerComes ==
  /\ mode = "PROVISIONED" => connecting \/ Queued(ConnectResult)
  /\ mode = "PROVISIONING" => provisioner = "running" \/ Queued(ProvisioningResult)
  /\ mode = "BACKOFF" => timer = "scheduled" \/ Queued({"CLOUD_BACKOFF_EXPIRED"})

(* The backoff time is computed from at least one attempt: with none, the  *)
(* unsigned attempts - 1 would wrap around (calculate_backoff_time).       *)
BackoffCounts == mode \in Connecting => connection_attempts >= 1

(* A new attempt out of the backoff has waited for the timer of this very  *)
(* backoff: an expiry that an earlier backoff left in the queue is gone    *)
(* before the next backoff begins.  It takes a backoff that outlasts the   *)
(* messages queued before it, as one of seconds does.                      *)
BackoffIsWaited ==
  [][mode = "BACKOFF" /\ mode' \in Attempting => timer = "stopped"]_cloudVars

(* "Connected to cloud and network connection, ready to send data"         *)
(* (cloud.c:133): the module does not become ready when its last attempt   *)
(* to connect failed.                                                      *)
ReadyIsConnected ==
  [][mode = "PROVISIONED" /\ mode' = "READY" => outcome = "CLOUD_CONNECTION_SUCCESS"]_cloudVars

(* When the network stays and failures cease, the module is connected in   *)
(* the end, whatever was lost before; when the network stays away, the     *)
(* other modules know it in the end.                                       *)
ConnectsAtLast == <>[]online => <>[](mode = "READY")
OfflineIsReported == <>[](~online) => <>[](report = "CLOUD_DISCONNECTED")
=============================================================================
