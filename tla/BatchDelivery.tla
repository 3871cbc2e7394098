--------------------------- MODULE BatchDelivery ---------------------------
(***************************************************************************)
(* The batch protocol between three threads: main asks for a batch session *)
(* with a fresh id, the storage module answers, and the cloud module reads *)
(* the items out of the pipe and asks for more or closes the session       *)
(* (app/src/main.c, storage.c and cloud.c).                                *)
(*                                                                         *)
(* Storage keeps its actions; what it publishes is appended to the queue   *)
(* of the cloud module.  Of the cloud module only what decides its answers *)
(* is here: whether it is connected and ready, connected and paused, or    *)
(* in another state, where it lets every storage message pass unhandled.   *)
(***************************************************************************)
EXTENDS Storage, FiniteSets

CONSTANTS
  CloudStates,   \* states of the cloud module that occur
  MaxChanges,    \* bound of the model: changes of that state
  MaxRequests,   \* bound of the model: requests of main
  SentCommands,  \* commands that main and the shell send
  Prompt         \* TRUE when a session never outlasts its timeout with an answer pending

ASSUME CloudStatesAssumption ==
  CloudStates \subseteq {"READY", "PAUSED", "OFFLINE"} /\ "READY" \in CloudStates
ASSUME DeliveryBoundsAssumption == MaxChanges \in Nat /\ MaxRequests \in Nat
ASSUME SentCommandsAssumption == SentCommands \subseteq Commands \ {"SESSION_TIMEOUT"}
ASSUME PromptAssumption == Prompt \in BOOLEAN

VARIABLES
  cloud,      \* state of the cloud module
  changes,    \* history: how often it changed
  answers,    \* the storage messages in the queue of the cloud module
  handling,   \* the BATCH_AVAILABLE that its read loop works on, or NoAnswer
  requests,   \* history: the messages sent so far, the ids of sessions among them
  delivered   \* history: the items handed to the cloud connection

cloudVars == <<cloud, changes, answers, handling, requests, delivered>>
allVars == <<vars, cloudVars>>

NoAnswer == [type |-> "none"]

DeliveryInit ==
  /\ Init
  /\ cloud = "READY"
  /\ changes = 0
  /\ answers = <<>>
  /\ handling = NoAnswer
  /\ requests = 0
  /\ delivered = {}

-----------------------------------------------------------------------------
(* The cloud module handles these messages in some state; the others, and  *)
(* BATCH_BUSY that it only logs, are left out of its queue.                *)
Handled == {"BATCH_AVAILABLE", "BATCH_EMPTY", "BATCH_ERROR", "STORAGE_DATA"}

(* A step publishes messages of one kind. *)
Forward ==
  answers' = IF published' # <<>> /\ Head(published').type \in Handled
             THEN answers \o published' ELSE answers

(* The storage thread takes a step, or its timeout fires. *)
StorageStep ==
  /\ StorageThread
  /\ Forward
  /\ UNCHANGED <<cloud, changes, handling, requests, delivered>>

Waiting == inbox # <<>> \/ answers # <<>> \/ handling # NoAnswer \/ batch # NoBatch

TimeoutStep ==
  /\ Prompt => ~Waiting
  /\ SessionTimeoutWork
  /\ UNCHANGED cloudVars

SampleStep ==
  /\ \E t \in Types : PublishSample(t)
  /\ UNCHANGED cloudVars

-----------------------------------------------------------------------------
(* main: storage_send_data, with the uptime as the id of a new session,    *)
(* and the mode requests of config_apply; the shell sends commands too.    *)

StorageSendData ==
  /\ requests < MaxRequests
  /\ requests' = requests + 1
  /\ Send(Request(requests + 1))
  /\ UNCHANGED <<sampled, cloud, changes, answers, handling, delivered>>

SendCommand ==
  /\ requests < MaxRequests
  /\ requests' = requests + 1
  /\ \E c \in SentCommands : Send(Command(c))
  /\ UNCHANGED <<sampled, cloud, changes, answers, handling, delivered>>

-----------------------------------------------------------------------------
(* The cloud module takes the next message when it is in no read loop.     *)

CloudReceive(kinds) ==
  /\ handling = NoAnswer
  /\ answers # <<>>
  /\ Head(answers).type \in kinds
  /\ answers' = Tail(answers)

(* The cloud module publishes on STORAGE_CHAN. *)
CloudPublish(m) ==
  /\ inbox' = Append(inbox, m)
  /\ Publish(<<>>)
  /\ UNCHANGED <<mode, session, batch, pipe, stored, timer, confirmed, sampled,
                 head, returned, early>>

(* handle_storage_batch_available begins to read. *)
BatchAvailable ==
  /\ cloud = "READY"
  /\ CloudReceive({"BATCH_AVAILABLE"})
  /\ handling' = Head(answers)
  /\ UNCHANGED <<vars, cloud, changes, requests, delivered>>

ReadItemHeader ==
  /\ handling # NoAnswer
  /\ ReadHeader
  /\ UNCHANGED cloudVars

(* The item was read: send_storage_data_to_cloud. *)
ReadItem ==
  /\ handling # NoAnswer
  /\ ReadData
  /\ delivered' = delivered \union {Head(pipe)}
  /\ UNCHANGED <<cloud, changes, answers, handling, requests>>

(* What was read is no item, and is sent as if it were one; or its size is *)
(* refused, which closes the session.                                      *)
ReadGarbage ==
  /\ handling # NoAnswer
  /\ ReadTorn
  /\ UNCHANGED cloudVars

RefuseGarbage ==
  /\ handling # NoAnswer
  /\ head = "torn"
  /\ reader = 0
  /\ handling' = NoAnswer
  /\ CloudPublish(Close(handling.id))
  /\ UNCHANGED <<reader, cloud, changes, answers, requests, delivered>>

(* Mutant: the session is closed although more data is stored. *)
NoMoreDataCloses ==
  /\ handling # NoAnswer
  /\ pipe = <<>>
  /\ reader' = 0
  /\ handling' = NoAnswer
  /\ CloudPublish(Close(handling.id))
  /\ UNCHANGED <<cloud, changes, answers, requests, delivered>>

(* Nothing came for 500 ms, before a header or after one: the next part of *)
(* the batch is requested, or the session closed.                          *)
NoMoreData ==
  /\ handling # NoAnswer
  /\ pipe = <<>>
  /\ reader' = 0
  /\ handling' = NoAnswer
  /\ CloudPublish(IF handling.more_data = "yes" THEN Request(handling.id)
                                                ELSE Close(handling.id))
  /\ UNCHANGED <<cloud, changes, answers, requests, delivered>>

(* Mutant: a batch without data is left open. *)
CloseBatchWithData ==
  /\ \/ /\ cloud = "PAUSED" /\ CloudReceive({"BATCH_AVAILABLE"})
        /\ CloudPublish(Close(Head(answers).id))
     \/ /\ cloud # "OFFLINE" /\ CloudReceive({"BATCH_EMPTY", "BATCH_ERROR"})
        /\ UNCHANGED <<inbox, published, mode, session, batch, pipe, stored, timer,
                       confirmed, sampled, head, returned, early>>
  /\ UNCHANGED <<reader, cloud, changes, handling, requests, delivered>>

(* An empty or failed batch is closed; so is every batch while paused. *)
CloseBatch ==
  /\ \/ cloud = "READY" /\ CloudReceive({"BATCH_EMPTY", "BATCH_ERROR"})
     \/ cloud = "PAUSED" /\ CloudReceive({"BATCH_AVAILABLE", "BATCH_EMPTY", "BATCH_ERROR"})
  /\ CloudPublish(Close(Head(answers).id))
  /\ UNCHANGED <<reader, cloud, changes, handling, requests, delivered>>

(* handle_storage_data: in passthrough mode and in a flush. *)
StorageDataMessage ==
  /\ cloud = "READY"
  /\ CloudReceive({"STORAGE_DATA"})
  /\ delivered' = delivered \union {Item(Head(answers).dt, Head(answers).item)}
  /\ UNCHANGED <<vars, cloud, changes, handling, requests>>

(* No state handles the message. *)
DropMessage ==
  /\ \/ cloud = "PAUSED" /\ CloudReceive({"STORAGE_DATA"})
     \/ cloud = "OFFLINE" /\ CloudReceive(Handled)
  /\ UNCHANGED <<vars, cloud, changes, handling, requests, delivered>>

(* The connection changes, between two messages. *)
CloudChanges ==
  /\ changes < MaxChanges
  /\ handling = NoAnswer
  /\ cloud' \in CloudStates \ {cloud}
  /\ changes' = changes + 1
  /\ UNCHANGED <<vars, answers, handling, requests, delivered>>

CloudStep ==
  \/ BatchAvailable \/ ReadItemHeader \/ ReadItem \/ ReadGarbage \/ RefuseGarbage
  \/ NoMoreData \/ CloseBatch \/ StorageDataMessage \/ DropMessage

DeliveryNext ==
  \/ StorageStep \/ TimeoutStep \/ SampleStep
  \/ StorageSendData \/ SendCommand
  \/ CloudStep \/ CloudChanges

(* Threads run when they have work, and a scheduled work item is run.  Main *)
(* may stop asking for batches, and the connection may stay as it is.       *)
DeliverySpec ==
  /\ DeliveryInit
  /\ [][DeliveryNext]_allVars
  /\ WF_allVars(StorageStep)
  /\ WF_allVars(TimeoutStep)
  /\ WF_allVars(CloudStep)
-----------------------------------------------------------------------------
(* Properties.                                                             *)

(* Every sample that was published is on its way or was delivered: in the  *)
(* queues, the backend, the pipe, or handed to the cloud connection.  It   *)
(* holds when the cloud is ready, the backend large enough and free of     *)
(* errors, and the session timeout long enough; the pipe may be too small  *)
(* for the backend, modes may change and requests may come at any time.    *)
OnItsWay(t, n) ==
  \/ Item(t, n) \in delivered
  \/ \E k \in DOMAIN inbox : inbox[k] = Data(t, n)
  \/ \E j \in DOMAIN stored[t] : stored[t][j] = n
  \/ \E i \in DOMAIN pipe : pipe[i] = Item(t, n)
  \/ \E k \in DOMAIN answers : answers[k] = StorageData(t, n)

NothingLost == \A t \in Types : \A n \in 1 .. sampled[t] : OnItsWay(t, n)

(* The ways in which the storage module loses a sample: the oldest of a    *)
(* full backend makes room for a newer one, be it by a store that fails    *)
(* half-way; the backend refuses it, takes it out and returns an error, or *)
(* is cleared outside a session.                                           *)
DropsOldest(t, n) ==
  HandleDataMessage /\ Head(inbox).dt = t /\ Len(stored[t]) = MaxRecords /\ Head(stored[t]) = n

(* An error of LittleFS may come when the offset in the header has passed  *)
(* the record already.                                                     *)
RetrieveLoses(t, n) ==
  /\ BackendFails /\ (PopulateError \/ FlushNextType)
  /\ batch.type = t /\ stored[t] # <<>> /\ Head(stored[t]) = n

StoreFails(t, n) == BackendFails /\ HandleDataMessage /\ Head(inbox) = Data(t, n)

ClearsStored(t, n) ==
  mode # "PIPE_ACTIVE" /\ StorageClear /\ \E j \in DOMAIN stored[t] : stored[t][j] = n

(* The ways in which the protocol loses one: the cloud module is not ready *)
(* for a message that was sent to it, or the session of the sample, and no *)
(* other, is closed, times out or is filled again while the sample is in   *)
(* the pipe, or a reader that lost its place takes it for something else.  *)
CloudDrops(t, n) == cloud # "READY" /\ DropMessage /\ Head(answers) = StorageData(t, n)

PipeDrained(t, n) ==
  /\ mode = "PIPE_ACTIVE" /\ \E i \in DOMAIN pipe : pipe[i] = Item(t, n)
  /\ \/ BatchRequest /\ Head(inbox) = Request(session.id)
     \/ BatchClose /\ Head(inbox) = Close(session.id)
     \/ SessionTimeout

TakenForGarbage(t, n) == ReadGarbage /\ Head(pipe) = Item(t, n)

(* A sample that is on its way stays on it in every step but these,        *)
(* whatever the connection, the backend, main, the shell and the timeout   *)
(* do: it is in one of the queues, the backend or the pipe, or delivered.  *)
LossIsKnown ==
  [][\A t \in Types : \A n \in 1 .. sampled[t] :
       OnItsWay(t, n) =>
         \/ OnItsWay(t, n)'
         \/ DropsOldest(t, n) \/ StoreFails(t, n) \/ RetrieveLoses(t, n) \/ ClearsStored(t, n)
         \/ CloudDrops(t, n) \/ PipeDrained(t, n) \/ TakenForGarbage(t, n)]_allVars

(* An item that was handed to the cloud connection is nowhere else, so no  *)
(* later batch, refresh, flush or change of mode delivers it again.        *)
DeliveredOnce ==
  \A x \in delivered :
    /\ \A j \in DOMAIN stored[x.type] : stored[x.type][j] # x.item
    /\ \A i \in DOMAIN pipe : pipe[i] # x
    /\ \A k \in DOMAIN inbox : inbox[k] # Data(x.type, x.item)
    /\ \A k \in DOMAIN answers : answers[k] # StorageData(x.type, x.item)

(* The reader never takes bytes of one item for another: no drain and      *)
(* refill falls between its two reads of the pipe.                         *)
NoTornRead == head # "torn"

(* A session that is opened is closed again, by the cloud module or by the *)
(* timeout, "to prevent the storage module from getting stuck in a busy    *)
(* state" (Kconfig.storage:88-92).                                         *)
SessionEnds == mode = "PIPE_ACTIVE" ~> mode # "PIPE_ACTIVE"

(* The same as long as the cloud module is connected, paused or not, with  *)
(* a backend that fails and timeouts at any time: it closes what it cannot *)
(* use (cloud.c:1179), and only a batch that is answered while it          *)
(* reconnects is left to nobody.                                           *)
ConnectedSessionEnds == [](cloud # "OFFLINE") => SessionEnds

(* A session delivers all that the backend holds when the pipe is filled,  *)
(* in as many batches as it takes.                                         *)
SessionDelivers ==
  \A t \in Types : \A n \in 1 .. MaxItems[t] :
    (batch.op = "populate" /\ \E j \in DOMAIN stored[t] : stored[t][j] = n)
      ~> Item(t, n) \in delivered
=============================================================================
