------------------------------ MODULE Storage ------------------------------
(***************************************************************************)
(* The storage module (app/src/modules/storage/storage.c): a thread that   *)
(* takes one message at a time from its subscriber queue and runs a        *)
(* hierarchical state machine on it, the work item that times a batch      *)
(* session out, and the reader that takes items out of the batch pipe.     *)
(*                                                                         *)
(* A handler is one action, except the two loops that move records out of  *)
(* the backend (populate_pipe and flush_stored_data): they take a step per *)
(* record, so that the timer, the publishers and the reader interleave     *)
(* with them as they do in the code.                                       *)
(*                                                                         *)
(* The environment is open: any message that the other modules or the      *)
(* shell can publish may arrive at any moment, and the reader may call     *)
(* storage_batch_read at any moment.  BatchDelivery closes it.             *)
(***************************************************************************)
EXTENDS Naturals, Sequences

CONSTANTS
  NTypes,       \* registered data types, in the order of the iterable section
  Size,         \* Size[t]: bytes that one item of type t, with its header, takes in the pipe
  PipeSize,     \* CONFIG_APP_STORAGE_BATCH_BUFFER_SIZE
  MaxRecords,   \* CONFIG_APP_STORAGE_MAX_RECORDS_PER_TYPE
  SessionIds,   \* session ids that requesters use
  InitialMode,  \* "PASSTHROUGH" or "BUFFER_IDLE": CONFIG_APP_STORAGE_INITIAL_MODE_*
  BackendFails, \* TRUE when the backend can return an I/O error (LittleFS)
  MaxItems,     \* bound of the model: MaxItems[t] samples are published of type t
  QueueLimit    \* bound of the model: messages waiting in the subscriber queue

Types == 1 .. NTypes

ASSUME NTypesAssumption == NTypes \in Nat \ {0}
ASSUME SizeAssumption == Size \in [Types -> Nat \ {0}] /\ PipeSize \in Nat
ASSUME MaxRecordsAssumption == MaxRecords \in Nat \ {0}
ASSUME SessionIdsAssumption == SessionIds \subseteq Nat
ASSUME ModeAssumption == InitialMode \in {"PASSTHROUGH", "BUFFER_IDLE"}
ASSUME BackendAssumption == BackendFails \in BOOLEAN
ASSUME BoundsAssumption == MaxItems \in [Types -> Nat] /\ QueueLimit \in Nat

VARIABLES
  mode,       \* active leaf of the state machine
  session,    \* current_session; total_items is only logged and left out
  batch,      \* the loop the thread is in: which one, at which type, bytes written
  pipe,       \* storage_pipe: the items in it, oldest first
  stored,     \* the backend: per type the records, oldest first
  timer,      \* session_timeout_work is scheduled
  inbox,      \* the queue of storage_subscriber
  published,  \* what the last step published on STORAGE_CHAN and STORAGE_DATA_CHAN
  confirmed,  \* history: the last mode confirmation published; at first the mode that is
              \* configured, in which main starts too (main.c:263)
  sampled,    \* history: per type, how many samples were published so far
  reader,     \* 0, or the type in the header that storage_batch_read has just read
  head,       \* "split" when the header of the first item in the pipe has been read,
              \* "torn" when the reader and the items no longer agree on where one starts
  returned,   \* history: per type, the items that storage_batch_read has returned
  early       \* history: per type, the records that a failed store has put in the
              \* place of the oldest one

vars == <<mode, session, batch, pipe, stored, timer, inbox, published,
          confirmed, sampled, reader, head, returned, early>>

readerVars == <<reader, returned>>
historyVars == <<confirmed, sampled, early>>

-----------------------------------------------------------------------------
(* Messages.  A sample is named by its type and its position among the     *)
(* samples of that type.                                                   *)

Data(t, n) == [type |-> "DATA", dt |-> t, item |-> n]
Request(id) == [type |-> "BATCH_REQUEST", id |-> id]
Close(id) == [type |-> "BATCH_CLOSE", id |-> id]
Command(c) == [type |-> c]

Commands == {"CLEAR", "FLUSH", "MODE_PASSTHROUGH_REQUEST", "MODE_BUFFER_REQUEST",
             "SESSION_TIMEOUT"}

InMsg ==
  [type : {"DATA"}, dt : Types, item : Nat \ {0}]
    \union [type : {"BATCH_REQUEST", "BATCH_CLOSE"}, id : Nat]
    \union [type : Commands]

StorageData(t, n) == [type |-> "STORAGE_DATA", dt |-> t, item |-> n]
(* Mutant: the response leaves the flag for more data at its zero value. *)
AvailableNoMore(id, n, more) ==
  [type |-> "BATCH_AVAILABLE", id |-> id, data_len |-> n, more_data |-> "no"]
Available(id, n, more) ==
  [type |-> "BATCH_AVAILABLE", id |-> id, data_len |-> n, more_data |-> more]
Response(kind, id) == [type |-> kind, id |-> id]
Confirmation(kind) == [type |-> kind]

OutMsg ==
  [type : {"STORAGE_DATA"}, dt : Types, item : Nat]
    \union [type : {"BATCH_AVAILABLE"}, id : Nat, data_len : Nat, more_data : {"no", "yes"}]
    \union [type : {"BATCH_EMPTY", "BATCH_ERROR", "BATCH_BUSY", "BATCH_CLOSE"}, id : Nat]
    \union [type : {"MODE_PASSTHROUGH", "MODE_BUFFER", "MODE_CHANGE_REJECTED"}]

NoSession == [id |-> 0, sent |-> 0, more |-> "no"]
NoBatch == [op |-> "none", type |-> 0, bytes |-> 0, caller |-> "entry"]
Batch(op, caller) == [op |-> op, type |-> 1, bytes |-> 0, caller |-> caller]
Item(t, n) == [type |-> t, item |-> n]

-----------------------------------------------------------------------------
Init ==
  /\ mode = InitialMode
  /\ session = NoSession
  /\ batch = NoBatch
  /\ pipe = <<>>
  /\ stored = [t \in Types |-> <<>>]
  /\ timer = "stopped"
  /\ inbox = <<>>
  /\ published = <<>>
  /\ confirmed = IF InitialMode = "PASSTHROUGH" THEN "MODE_PASSTHROUGH" ELSE "MODE_BUFFER"
  /\ sampled = [t \in Types |-> 0]
  /\ reader = 0
  /\ head = "whole"
  /\ returned = [t \in Types |-> {}]
  /\ early = [t \in Types |-> {}]

(***************************************************************************)
(* The thread takes the first message of its queue when it is in no loop.  *)
(* A close that the module itself publishes comes back to its own queue,   *)
(* since it observes STORAGE_CHAN; its other messages come back too, but   *)
(* no state handles them, and they are left out.                           *)
(***************************************************************************)
Receive(kind) ==
  /\ batch = NoBatch
  /\ inbox # <<>>
  /\ Head(inbox).type = kind

Consume == inbox' = Tail(inbox)

Publish(msgs) == published' = msgs

Confirm(m) == confirmed' = m /\ Publish(<<Confirmation(m)>>)

DrainPipe == pipe' = <<>> /\ head' = "whole"

(* A response of start_batch_session that starts nothing; the entry        *)
(* function of PIPE_ACTIVE sends it a second time.                         *)
Refusal(kind, id, caller) ==
  IF caller = "entry" THEN <<Response(kind, id), Response(kind, id)>> ELSE <<Response(kind, id)>>

-----------------------------------------------------------------------------
(* Samples.                                                                *)

(* passthrough_data_msg *)
PassthroughDataMsg ==
  /\ Receive("DATA")
  /\ mode = "PASSTHROUGH"
  /\ Consume
  /\ Publish(<<StorageData(Head(inbox).dt, Head(inbox).item)>>)
  /\ UNCHANGED <<mode, session, batch, pipe, stored, timer, head>>
  /\ UNCHANGED <<readerVars, historyVars>>

(* A store into a full backend drops the oldest record. *)
Stored(s, n) == Append(IF Len(s) < MaxRecords THEN s ELSE Tail(s), n)

(* LittleFS writes the record before the offsets: a store that fails in    *)
(* between leaves the new record in the place of a full type's oldest one. *)
StoredHalf(s, n) == <<n>> \o Tail(s)

(* handle_data_message: an error of the backend is only logged, whatever   *)
(* the failed store has done to the backend.                               *)
HandleDataMessage ==
  /\ Receive("DATA")
  /\ mode # "PASSTHROUGH"
  /\ Consume
  /\ LET m == Head(inbox) IN
       \/ /\ stored' = [stored EXCEPT ![m.dt] = Stored(@, m.item)]
          /\ UNCHANGED early
       \/ BackendFails /\ UNCHANGED <<stored, early>>
       \/ /\ BackendFails /\ Len(stored[m.dt]) = MaxRecords
          /\ stored' = [stored EXCEPT ![m.dt] = StoredHalf(@, m.item)]
          /\ early' = [early EXCEPT ![m.dt] = @ \union {m.item}]
  /\ Publish(<<>>)
  /\ UNCHANGED <<mode, session, batch, pipe, timer, head, confirmed, sampled>>
  /\ UNCHANGED readerVars

-----------------------------------------------------------------------------
(* Mode requests.                                                          *)

PassthroughRequest ==
  /\ Receive("MODE_PASSTHROUGH_REQUEST")
  /\ Consume
  /\ \/ /\ mode = "PIPE_ACTIVE"
        /\ Publish(<<Confirmation("MODE_CHANGE_REJECTED")>>)
        /\ UNCHANGED <<mode, confirmed>>
     \/ /\ mode # "PIPE_ACTIVE"
        /\ Confirm("MODE_PASSTHROUGH")
        /\ mode' = "PASSTHROUGH"
  /\ UNCHANGED <<session, batch, pipe, stored, timer, sampled, early, head>>
  /\ UNCHANGED readerVars

(* Mutant: the confirmation is sent and the transition is forgotten. *)
BufferRequestStays ==
  /\ Receive("MODE_BUFFER_REQUEST")
  /\ Consume
  /\ Confirm("MODE_BUFFER")
  /\ UNCHANGED <<mode, session, batch, pipe, stored, timer, sampled, early, head>>
  /\ UNCHANGED readerVars

BufferRequest ==
  /\ Receive("MODE_BUFFER_REQUEST")
  /\ Consume
  /\ Confirm("MODE_BUFFER")
  /\ mode' = IF mode = "PASSTHROUGH" THEN "BUFFER_IDLE" ELSE mode
  /\ UNCHANGED <<session, batch, pipe, stored, timer, sampled, early, head>>
  /\ UNCHANGED readerVars

-----------------------------------------------------------------------------
(* Batch sessions.                                                         *)

(***************************************************************************)
(* start_batch_session, called by the entry function of PIPE_ACTIVE        *)
(* (caller = "entry") and by its run function for a request of the same    *)
(* session (caller = "run").  Without items or with session id 0 nothing    *)
(* starts: the entry function then returns before it schedules the         *)
(* timeout, while the run function reschedules it in every case.           *)
(***************************************************************************)
StartBatchSession(id, caller) ==
  \/ /\ id = 0 \/ \A t \in Types : stored[t] = <<>>
     /\ Publish(Refusal(IF id = 0 THEN "BATCH_ERROR" ELSE "BATCH_EMPTY", id, caller))
     /\ session' = IF caller = "entry" THEN [session EXCEPT !.id = id] ELSE session
     /\ timer' = IF caller = "run" THEN "scheduled" ELSE timer
     /\ UNCHANGED <<batch, pipe, head>>
  \/ /\ id # 0
     /\ \E t \in Types : stored[t] # <<>>
     /\ Publish(<<>>)
     /\ session' = [id |-> id, sent |-> 0, more |-> "no"]
     /\ batch' = Batch("populate", caller)
     /\ DrainPipe
     /\ UNCHANGED timer

(* Mutant: a request of another session takes the active one over. *)
BatchRequestNeverBusy ==
  /\ Receive("BATCH_REQUEST")
  /\ Consume
  /\ LET id == Head(inbox).id IN
       \/ /\ mode = "PASSTHROUGH"
          /\ Publish(<<Response("BATCH_ERROR", id)>>)
          /\ UNCHANGED <<mode, session, batch, pipe, timer, head>>
       \/ /\ mode # "PASSTHROUGH"
          /\ mode' = "PIPE_ACTIVE"
          /\ StartBatchSession(id, IF mode = "PIPE_ACTIVE" THEN "run" ELSE "entry")
  /\ UNCHANGED stored
  /\ UNCHANGED <<readerVars, historyVars>>

BatchRequest ==
  /\ Receive("BATCH_REQUEST")
  /\ Consume
  /\ LET id == Head(inbox).id IN
       \/ /\ mode = "PASSTHROUGH"
          /\ Publish(<<Response("BATCH_ERROR", id)>>)
          /\ UNCHANGED <<mode, session, batch, pipe, timer, head>>
       \/ /\ mode = "BUFFER_IDLE"
          /\ mode' = "PIPE_ACTIVE"
          /\ StartBatchSession(id, "entry")
       \/ /\ mode = "PIPE_ACTIVE"
          /\ session.id # 0 /\ session.id # id
          /\ Publish(<<Response("BATCH_BUSY", id)>>)
          /\ UNCHANGED <<mode, session, batch, pipe, timer, head>>
       \/ /\ mode = "PIPE_ACTIVE"
          /\ session.id \in {0, id}
          /\ mode' = mode
          /\ StartBatchSession(id, "run")
  /\ UNCHANGED stored
  /\ UNCHANGED <<readerVars, historyVars>>

(* Mutant: the space check looks at what is written, not at the next item. *)
FitsSoFar(t) == batch.bytes < PipeSize

Fits(t) == batch.bytes + Size[t] <= PipeSize

(* Mutant: the record is only peeked at, and stays in the backend. *)
PeekOldest(t) == stored[t] # <<>> /\ UNCHANGED stored

(* backend->retrieve: the oldest record leaves the backend. *)
TakeOldest(t) == stored[t] # <<>> /\ stored' = [stored EXCEPT ![t] = Tail(@)]

(* backend->peek fails, or retrieve before it has changed anything. *)
ReadFails(t) == BackendFails /\ stored[t] # <<>> /\ UNCHANGED stored

(* backend->retrieve fails: the record may have left the backend all the   *)
(* same, as LittleFS may fail with the new offset already in the header.   *)
RetrieveFails(t) == ReadFails(t) \/ (BackendFails /\ TakeOldest(t))

(* populate_pipe: the oldest record of the current type fits in the bytes  *)
(* that are left, and moves from the backend to the pipe.                  *)
PopulateItem ==
  /\ batch.op = "populate" /\ batch.type \in Types
  /\ LET t == batch.type IN
       /\ Fits(t)
       /\ TakeOldest(t)
       /\ pipe' = Append(pipe, Item(t, Head(stored[t])))
       /\ batch' = [batch EXCEPT !.bytes = @ + Size[t]]
  /\ session' = [session EXCEPT !.sent = @ + 1]
  /\ Publish(<<>>)
  /\ UNCHANGED <<mode, timer, inbox, head>>
  /\ UNCHANGED <<readerVars, historyVars>>

(* populate_pipe goes to the next type: no record is left, or the next one *)
(* does not fit.                                                           *)
PopulateNextType ==
  /\ batch.op = "populate" /\ batch.type \in Types
  /\ \/ /\ stored[batch.type] = <<>>
        /\ UNCHANGED session
     \/ /\ stored[batch.type] # <<>>
        /\ ~Fits(batch.type)
        /\ session' = [session EXCEPT !.more = "yes"]
  /\ batch' = [batch EXCEPT !.type = @ + 1]
  /\ Publish(<<>>)
  /\ UNCHANGED <<mode, pipe, stored, timer, inbox, head>>
  /\ UNCHANGED <<readerVars, historyVars>>

(* The pipe is populated: BATCH_AVAILABLE, and the timeout is (re)started. *)
PopulateDone ==
  /\ batch.op = "populate" /\ batch.type \notin Types
  /\ batch' = NoBatch
  /\ timer' = "scheduled"
  /\ Publish(<<Available(session.id, session.sent, session.more)>>)
  /\ UNCHANGED <<mode, session, pipe, stored, inbox, head>>
  /\ UNCHANGED <<readerVars, historyVars>>

(* peek, or retrieve of a record that fits, fails: -EIO ends the loop, what *)
(* was written stays in the pipe, and only the run function starts the     *)
(* timeout.                                                                *)
PopulateError ==
  /\ batch.op = "populate" /\ batch.type \in Types
  /\ LET t == batch.type IN ReadFails(t) \/ (Fits(t) /\ RetrieveFails(t))
  /\ batch' = NoBatch
  /\ timer' = IF batch.caller = "run" THEN "scheduled" ELSE timer
  /\ Publish(Refusal("BATCH_ERROR", session.id, batch.caller))
  /\ UNCHANGED <<mode, session, pipe, inbox, head>>
  /\ UNCHANGED <<readerVars, historyVars>>

(* Mutant: the exit function forgets the pipe. *)
LeavePipeActiveKeepsPipe ==
  /\ mode' = "BUFFER_IDLE"
  /\ timer' = "stopped"
  /\ session' = NoSession
  /\ UNCHANGED <<pipe, head>>

(* The transition from PIPE_ACTIVE to BUFFER_IDLE, with the exit function. *)
LeavePipeActive ==
  /\ mode' = "BUFFER_IDLE"
  /\ timer' = "stopped"
  /\ DrainPipe
  /\ session' = NoSession

BatchClose ==
  /\ Receive("BATCH_CLOSE")
  /\ Consume
  /\ \/ /\ mode = "PIPE_ACTIVE" /\ session.id = Head(inbox).id
        /\ LeavePipeActive
     \/ /\ mode # "PIPE_ACTIVE" \/ session.id # Head(inbox).id
        /\ UNCHANGED <<mode, timer, pipe, head, session>>
  /\ Publish(<<>>)
  /\ UNCHANGED <<batch, stored>>
  /\ UNCHANGED <<readerVars, historyVars>>

(* STORAGE_BATCH_SESSION_TIMEOUT: it names no session, so whichever is     *)
(* active is closed, and the close is published for the other modules.     *)
SessionTimeout ==
  /\ Receive("SESSION_TIMEOUT")
  /\ \/ /\ mode = "PIPE_ACTIVE"
        /\ inbox' = Append(Tail(inbox), Close(session.id))
        /\ Publish(<<Close(session.id)>>)
        /\ LeavePipeActive
     \/ /\ mode # "PIPE_ACTIVE"
        /\ Consume
        /\ Publish(<<>>)
        /\ UNCHANGED <<mode, timer, pipe, head, session>>
  /\ UNCHANGED <<batch, stored>>
  /\ UNCHANGED <<readerVars, historyVars>>

(* Mutant: the timeout is published on STORAGE_CHAN, for everyone. *)
SessionTimeoutWorkPublic ==
  /\ timer = "scheduled"
  /\ timer' = "stopped"
  /\ inbox' = Append(inbox, Command("SESSION_TIMEOUT"))
  /\ Publish(<<Command("SESSION_TIMEOUT")>>)
  /\ UNCHANGED <<mode, session, batch, pipe, stored, head>>
  /\ UNCHANGED <<readerVars, historyVars>>

(* session_timeout_work_fn, on the system workqueue: without a session it  *)
(* asserts, and publishes nothing.                                         *)
SessionTimeoutWork ==
  /\ timer = "scheduled"
  /\ timer' = "stopped"
  /\ inbox' = IF session.id = 0 THEN inbox ELSE Append(inbox, Command("SESSION_TIMEOUT"))
  /\ Publish(<<>>)
  /\ UNCHANGED <<mode, session, batch, pipe, stored, head>>
  /\ UNCHANGED <<readerVars, historyVars>>

-----------------------------------------------------------------------------
(* Administration of the backend.                                          *)

(* Mutant: the storage is cleared in a batch session too. *)
StorageClearAlways ==
  /\ Receive("CLEAR")
  /\ Consume
  /\ stored' = [t \in Types |-> <<>>]
  /\ Publish(<<>>)
  /\ UNCHANGED <<mode, session, batch, pipe, timer, head>>
  /\ UNCHANGED <<readerVars, historyVars>>

(* Mutant: the loop over the types ends one too early. *)
StorageClearButLast ==
  /\ Receive("CLEAR")
  /\ Consume
  /\ stored' = IF mode = "PIPE_ACTIVE" THEN stored
               ELSE [t \in Types |-> IF t = NTypes THEN stored[t] ELSE <<>>]
  /\ Publish(<<>>)
  /\ UNCHANGED <<mode, session, batch, pipe, timer, head>>
  /\ UNCHANGED <<readerVars, historyVars>>

StorageClear ==
  /\ Receive("CLEAR")
  /\ Consume
  /\ stored' = IF mode = "PIPE_ACTIVE" THEN stored ELSE [t \in Types |-> <<>>]
  /\ Publish(<<>>)
  /\ UNCHANGED <<mode, session, batch, pipe, timer, head>>
  /\ UNCHANGED <<readerVars, historyVars>>

FlushBegin ==
  /\ Receive("FLUSH")
  /\ Consume
  /\ batch' = Batch("flush", "run")
  /\ Publish(<<>>)
  /\ UNCHANGED <<mode, session, pipe, stored, timer, head>>
  /\ UNCHANGED <<readerVars, historyVars>>

FlushItem ==
  /\ batch.op = "flush" /\ batch.type \in Types
  /\ LET t == batch.type IN
       /\ TakeOldest(t)
       /\ Publish(<<StorageData(t, Head(stored[t]))>>)
  /\ UNCHANGED <<mode, session, batch, pipe, timer, inbox, head>>
  /\ UNCHANGED <<readerVars, historyVars>>

(* The next type, when nothing is left or retrieve fails; after the last   *)
(* type the loop ends.                                                     *)
FlushNextType ==
  /\ batch.op = "flush" /\ batch.type \in Types
  /\ LET t == batch.type IN (stored[t] = <<>> /\ UNCHANGED stored) \/ RetrieveFails(t)
  /\ batch' = IF batch.type = NTypes THEN NoBatch ELSE [batch EXCEPT !.type = @ + 1]
  /\ Publish(<<>>)
  /\ UNCHANGED <<mode, session, pipe, timer, inbox, head>>
  /\ UNCHANGED <<readerVars, historyVars>>

-----------------------------------------------------------------------------
(* storage_batch_read, in the reader's thread: the header, then the data.  *)
(* Nothing excludes the storage thread between the two reads.              *)

ReadHeader ==
  /\ reader = 0
  /\ head = "whole"
  /\ pipe # <<>>
  /\ reader' = Head(pipe).type
  /\ head' = "split"
  /\ Publish(<<>>)
  /\ UNCHANGED <<mode, session, batch, pipe, stored, timer, inbox, returned>>
  /\ UNCHANGED historyVars

ReadData ==
  /\ reader # 0
  /\ head = "split"
  /\ pipe # <<>>
  /\ pipe' = Tail(pipe)
  /\ head' = "whole"
  /\ reader' = 0
  /\ returned' = [returned EXCEPT ![reader] = @ \union {Head(pipe).item}]
  /\ Publish(<<>>)
  /\ UNCHANGED <<mode, session, batch, stored, timer, inbox>>
  /\ UNCHANGED historyVars

(* The pipe was drained and filled again after the header was read: the    *)
(* bytes that are taken for the data are the start of another item, and    *)
(* until the pipe is drained every read returns garbage or an error.       *)
ReadTorn ==
  /\ pipe # <<>>
  /\ head = "torn" \/ (reader # 0 /\ head = "whole")
  /\ reader' = 0
  /\ head' = "torn"
  /\ pipe' \in {pipe, Tail(pipe)}
  /\ Publish(<<>>)
  /\ UNCHANGED <<mode, session, batch, stored, timer, inbox, returned>>
  /\ UNCHANGED historyVars

(* The pipe was drained after the header was read: -EAGAIN. *)
ReadTimeout ==
  /\ reader # 0
  /\ pipe = <<>>
  /\ reader' = 0
  /\ Publish(<<>>)
  /\ UNCHANGED <<mode, session, batch, pipe, stored, timer, inbox, head, returned>>
  /\ UNCHANGED historyVars

-----------------------------------------------------------------------------
(* The other modules and the shell.                                        *)

Send(m) ==
  /\ Len(inbox) < QueueLimit
  /\ inbox' = Append(inbox, m)
  /\ Publish(<<>>)
  /\ UNCHANGED <<mode, session, batch, pipe, stored, timer, confirmed, early, head>>
  /\ UNCHANGED readerVars

PublishSample(t) ==
  /\ sampled[t] < MaxItems[t]
  /\ sampled' = [sampled EXCEPT ![t] = @ + 1]
  /\ Send(Data(t, sampled[t] + 1))

PublishCommand ==
  /\ \/ \E id \in SessionIds : Send(Request(id)) \/ Send(Close(id))
     \/ \E c \in Commands \ {"SESSION_TIMEOUT"} : Send(Command(c))
  /\ UNCHANGED sampled

-----------------------------------------------------------------------------
(* What the storage thread does. *)
StorageThread ==
  \/ PassthroughDataMsg \/ HandleDataMessage
  \/ PassthroughRequest \/ BufferRequest
  \/ BatchRequest \/ BatchClose \/ SessionTimeout
  \/ PopulateItem \/ PopulateNextType \/ PopulateDone \/ PopulateError
  \/ StorageClear \/ FlushBegin \/ FlushItem \/ FlushNextType

Reader == ReadHeader \/ ReadData \/ ReadTorn \/ ReadTimeout

Publishers == PublishCommand \/ \E t \in Types : PublishSample(t)

Next == StorageThread \/ SessionTimeoutWork \/ Reader \/ Publishers

Spec == Init /\ [][Next]_vars
-----------------------------------------------------------------------------
(* Properties.                                                             *)

Session == [id : Nat, sent : Nat, more : {"no", "yes"}]
Loop == [op : {"none", "populate", "flush"}, type : 0 .. NTypes + 1,
         bytes : Nat, caller : {"entry", "run"}]
PipeItem == [type : Types, item : Nat]

ControlTypes ==
  /\ mode \in {"PASSTHROUGH", "BUFFER_IDLE", "PIPE_ACTIVE"}
  /\ session \in Session
  /\ batch \in Loop
  /\ timer \in {"stopped", "scheduled"}
  /\ confirmed \in {"MODE_PASSTHROUGH", "MODE_BUFFER"}
  /\ reader \in 0 .. NTypes
  /\ head \in {"whole", "split", "torn"}

MessageTypes ==
  /\ inbox \in Seq(InMsg)
  /\ published \in Seq(OutMsg)

RecordTypes ==
  /\ pipe \in Seq(PipeItem)
  /\ stored \in [Types -> Seq(Nat)]
  /\ sampled \in [Types -> Nat]
  /\ returned \in [Types -> SUBSET Nat]
  /\ early \in [Types -> SUBSET Nat]

(* Every variable keeps its type. *)
TypeOK == ControlTypes /\ MessageTypes /\ RecordTypes

(* storage_batch_read does not ask whether a session is active: outside a  *)
(* session it must find the pipe empty (the comment at storage.c:691), and *)
(* no timeout and no populate loop may survive the session.                *)
PipeOnlyInSession ==
  mode # "PIPE_ACTIVE" =>
    /\ pipe = <<>>
    /\ session = NoSession
    /\ timer = "stopped"
    /\ batch.op # "populate"

(* A record is in one place only and places keep the order of sampling:    *)
(* what was read, then the pipe, then the backend, then the queue of the   *)
(* module.  So no batch, refresh, timeout, overflow or error returns a     *)
(* record twice or out of order, but for a record that a failed store has  *)
(* put in the place of the oldest one (littlefs_backend.c:509): that one   *)
(* comes early, and once.                                                  *)
Before(t, m, n) == m < n \/ (m \in early[t] /\ m # n)

ReadBeforePipe ==
  \A i \in DOMAIN pipe : \A m \in returned[pipe[i].type] : Before(pipe[i].type, m, pipe[i].item)

PipeOrder ==
  \A i, j \in DOMAIN pipe :
    i < j /\ pipe[i].type = pipe[j].type => Before(pipe[i].type, pipe[i].item, pipe[j].item)

ReadBeforeStored ==
  \A t \in Types : \A j \in DOMAIN stored[t] : \A m \in returned[t] : Before(t, m, stored[t][j])

PipeBeforeStored ==
  \A i \in DOMAIN pipe : \A j \in DOMAIN stored[pipe[i].type] :
    Before(pipe[i].type, pipe[i].item, stored[pipe[i].type][j])

StoredOrder ==
  \A t \in Types : \A i, j \in DOMAIN stored[t] : i < j => Before(t, stored[t][i], stored[t][j])

InboxAfterAll ==
  \A k \in DOMAIN inbox : inbox[k].type = "DATA" =>
    LET t == inbox[k].dt IN
      /\ inbox[k].item <= sampled[t]
      /\ \A m \in returned[t] : m < inbox[k].item
      /\ \A i \in DOMAIN pipe : pipe[i].type = t => pipe[i].item < inbox[k].item
      /\ \A j \in DOMAIN stored[t] : stored[t][j] < inbox[k].item

InboxOrder ==
  \A k, l \in DOMAIN inbox :
    k < l /\ inbox[k].type = "DATA" /\ inbox[l].type = "DATA" /\ inbox[k].dt = inbox[l].dt
      => inbox[k].item < inbox[l].item

SampledLast ==
  /\ \A t \in Types : \A m \in returned[t] : m <= sampled[t]
  /\ \A t \in Types : \A j \in DOMAIN stored[t] : stored[t][j] <= sampled[t]
  /\ \A i \in DOMAIN pipe : pipe[i].item <= sampled[pipe[i].type]

RecordOrder ==
  /\ ReadBeforePipe /\ PipeOrder
  /\ ReadBeforeStored /\ PipeBeforeStored /\ StoredOrder
  /\ InboxAfterAll /\ InboxOrder
  /\ SampledLast

(* populate_pipe never writes more than the pipe holds, so that the write  *)
(* that "should never happen" to fail (storage.c:591) does not block the   *)
(* storage thread, whatever the reader has left in or taken out of it.     *)
PipeFits ==
  \E total \in [0 .. Len(pipe) -> 0 .. PipeSize] :  \* the bytes of the first i items
    /\ total[0] = 0
    /\ \A i \in DOMAIN pipe : total[i] = total[i - 1] + Size[pipe[i].type]

(* The backend keeps at most MaxRecords records of a type. *)
BackendBounded == \A t \in Types : Len(stored[t]) <= MaxRecords

(* The last mode confirmation that the other modules saw, or the mode that *)
(* is configured before there is one, is the mode that the module is in.   *)
ConfirmedModeHolds ==
  /\ confirmed = "MODE_PASSTHROUGH" => mode = "PASSTHROUGH"
  /\ confirmed = "MODE_BUFFER" => mode # "PASSTHROUGH"

(* A record leaves the backend into the pipe or as STORAGE_DATA; else it   *)
(* is the oldest of a full backend, or of a type whose retrieval fails, or *)
(* the backend is cleared, which never happens in a session.               *)
RecordsLeaveByDelivery ==
  [][\A t \in Types : \A j \in DOMAIN stored[t] :
       LET n == stored[t][j] IN
         (\A k \in DOMAIN stored'[t] : stored'[t][k] # n) =>
            \/ \E i \in DOMAIN pipe' : pipe'[i] = Item(t, n)
            \/ \E i \in DOMAIN published' : published'[i] = StorageData(t, n)
            \/ j = 1 /\ Len(stored[t]) = MaxRecords /\ HandleDataMessage
            \/ j = 1 /\ BackendFails /\ batch.type = t /\ (PopulateError \/ FlushNextType)
            \/ mode # "PIPE_ACTIVE" /\ StorageClear]_vars

(* BATCH_AVAILABLE announces the items that the session put in the pipe:   *)
(* what it announces is at least what is still there, and more_data is     *)
(* set exactly when records were left behind in the backend.               *)
AvailableIsTrue ==
  \A i \in DOMAIN published : published[i].type = "BATCH_AVAILABLE" =>
    /\ published[i].id = session.id
    /\ Len(pipe) <= published[i].data_len
    /\ published[i].more_data = "yes" <=> \E t \in Types : stored[t] # <<>>

(* What the module does to its backend is what struct storage_backend      *)
(* allows (storage_backend.h): per type, a bounded queue that gives the    *)
(* oldest record first and drops it when it is full.  A loop that took a   *)
(* record from the middle, put one back, or cleared one type only would    *)
(* not be a behaviour of it.  A backend that can fail is a persistent one, *)
(* which a failed store may leave with its newest record in front.         *)
Backend == INSTANCE BoundedFifo WITH
             queue <- stored, DataTypes <- Types, Capacity <- MaxRecords,
             Values <- UNION {1 .. MaxItems[t] : t \in Types}

BackendIsFifo == Backend!PersistentSpec
=============================================================================
