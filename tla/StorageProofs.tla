--------------------------- MODULE StorageProofs ---------------------------
(***************************************************************************)
(* Proofs about Storage, for any number of types, item sizes, pipe and     *)
(* backend capacities and session ids.                                     *)
(***************************************************************************)
EXTENDS Storage, QueueLemmas, TLAPS

(* Storing a record gives a sequence of records. *)
LEMMA StoredType ==
  ASSUME NEW s \in Seq(Nat), NEW n \in Nat
  PROVE  Stored(s, n) \in Seq(Nat)
  BY MaxRecordsAssumption DEF Stored

LEMMA StoredHalfType ==
  ASSUME NEW s \in Seq(Nat), NEW n \in Nat, Len(s) = MaxRecords
  PROVE  StoredHalf(s, n) \in Seq(Nat) /\ Len(StoredHalf(s, n)) = MaxRecords
  <1>1. s # << >> /\ Tail(s) \in Seq(Nat) /\ Len(Tail(s)) = MaxRecords - 1
    BY MaxRecordsAssumption
  <1>2. << n >> \in Seq(Nat) /\ Len(<< n >>) = 1
    OBVIOUS
  <1>3. QED
    BY <1>1, <1>2, MaxRecordsAssumption DEF StoredHalf

(* A retrieve that fails leaves the backend alone or takes the oldest      *)
(* record all the same.                                                    *)
LEMMA FailedRetrieves ==
  /\ \A t : ReadFails(t) => UNCHANGED stored
  /\ \A t : RetrieveFails(t) => UNCHANGED stored \/ TakeOldest(t)
  /\ PopulateError => UNCHANGED stored \/ (batch.type \in Types /\ TakeOldest(batch.type))
  /\ FlushNextType => UNCHANGED stored \/ (batch.type \in Types /\ TakeOldest(batch.type))
  BY DEF ReadFails, RetrieveFails, PopulateError, FlushNextType

LEMMA TakenType ==
  ASSUME RecordTypes, NEW t \in Types, TakeOldest(t)
  PROVE  stored' \in [Types -> Seq(Nat)]
  BY HeadTail DEF RecordTypes, TakeOldest

(* What the constructors of messages build, and what a message holds. *)
LEMMA InMsgs ==
  /\ \A t \in Types, n \in Nat \ {0} : Data(t, n) \in InMsg
  /\ \A id \in Nat : Request(id) \in InMsg /\ Close(id) \in InMsg
  /\ \A c \in Commands : Command(c) \in InMsg
  BY DEF InMsg, Data, Request, Close, Command

LEMMA InMsgFields ==
  ASSUME NEW m \in InMsg
  PROVE  /\ m.type = "DATA" => m.dt \in Types /\ m.item \in Nat /\ m.item # 0
         /\ m.type \in {"BATCH_REQUEST", "BATCH_CLOSE"} => m.id \in Nat
  BY DEF InMsg, Commands

LEMMA OutMsgs ==
  /\ \A t \in Types, n \in Nat : StorageData(t, n) \in OutMsg
  /\ \A id, n \in Nat, more \in {"no", "yes"} : Available(id, n, more) \in OutMsg
  /\ \A id \in Nat : Close(id) \in OutMsg
  /\ \A id \in Nat, k \in {"BATCH_EMPTY", "BATCH_ERROR", "BATCH_BUSY"} :
       Response(k, id) \in OutMsg
  /\ \A k \in {"MODE_PASSTHROUGH", "MODE_BUFFER", "MODE_CHANGE_REJECTED"} :
       Confirmation(k) \in OutMsg
  BY DEF OutMsg, StorageData, Available, Close, Response, Confirmation

LEMMA RefusalType ==
  ASSUME NEW id \in Nat, NEW k \in {"BATCH_EMPTY", "BATCH_ERROR", "BATCH_BUSY"}, NEW c
  PROVE  Refusal(k, id, c) \in Seq(OutMsg)
  <1> Response(k, id) \in OutMsg
    BY OutMsgs
  <1> QED
    BY DEF Refusal

(* Sessions and loops that the handlers build. *)
LEMMA Sessions ==
  /\ NoSession \in Session
  /\ \A id \in Nat : [id |-> id, sent |-> 0, more |-> "no"] \in Session
  /\ \A s \in Session :
       /\ s.id \in Nat /\ s.sent \in Nat /\ s.more \in {"no", "yes"}
       /\ \A id \in Nat : [s EXCEPT !.id = id] \in Session
       /\ [s EXCEPT !.sent = s.sent + 1] \in Session
       /\ [s EXCEPT !.more = "yes"] \in Session
  BY DEF Session, NoSession

LEMMA Loops ==
  /\ NoBatch \in Loop
  /\ Batch("flush", "run") \in Loop
  /\ \A c \in {"entry", "run"} : Batch("populate", c) \in Loop
  /\ \A b \in Loop :
       /\ b.type \in Nat /\ b.bytes \in Nat
       /\ \A n \in Nat : [b EXCEPT !.bytes = b.bytes + n] \in Loop
       /\ b.type \in Types => [b EXCEPT !.type = b.type + 1] \in Loop
  BY NTypesAssumption DEF Loop, NoBatch, Batch, Types

LEMMA PipeItems ==
  /\ \A t \in Types, n \in Nat : Item(t, n) \in PipeItem
  /\ \A x \in PipeItem : x.type \in Types /\ x.item \in Nat
  BY DEF PipeItem, Item

(* A message that a handler received, and what is left of the queue. *)
LEMMA Received ==
  ASSUME MessageTypes, inbox # <<>>
  PROVE  /\ Head(inbox) \in InMsg
         /\ Tail(inbox) \in Seq(InMsg)
  BY HeadTail DEF MessageTypes

(* No step breaks a type. *)
LEMMA TypeStep ==
  ASSUME TypeOK, [Next]_vars
  PROVE  TypeOK'
  <1> ControlTypes /\ MessageTypes /\ RecordTypes
    BY DEF TypeOK
  <1>1. CASE PassthroughDataMsg
    <2>1. ControlTypes'
      BY <1>1 DEF PassthroughDataMsg, ControlTypes, readerVars, historyVars
    <2>2. MessageTypes'
      BY <1>1, Received, InMsgFields, OutMsgs DEF PassthroughDataMsg, MessageTypes, Consume, Publish, Receive
    <2>3. RecordTypes'
      BY <1>1 DEF PassthroughDataMsg, RecordTypes, readerVars, historyVars
    <2>4. QED
      BY <2>1, <2>2, <2>3 DEF TypeOK
  <1>2. CASE HandleDataMessage
    <2>1. ControlTypes'
      BY <1>2 DEF HandleDataMessage, ControlTypes, readerVars, historyVars
    <2>2. MessageTypes'
      BY <1>2, Received DEF HandleDataMessage, MessageTypes, Consume, Publish, Receive
    <2>3. RecordTypes'
      <3> DEFINE t == Head(inbox).dt
                 n == Head(inbox).item
      <3>1. t \in Types /\ n \in Nat
        BY <1>2, Received, InMsgFields DEF HandleDataMessage, Receive
      <3>2. Stored(stored[t], n) \in Seq(Nat)
        BY <3>1, StoredType DEF RecordTypes
      <3>3. Len(stored[t]) = MaxRecords => StoredHalf(stored[t], n) \in Seq(Nat)
        BY <3>1, StoredHalfType DEF RecordTypes
      <3>4. stored' \in [Types -> Seq(Nat)]
        BY <1>2, <3>2, <3>3 DEF HandleDataMessage, RecordTypes
      <3>5. early' \in [Types -> SUBSET Nat]
        <4>1. early' = early \/ early' = [early EXCEPT ![t] = early[t] \union {n}]
          BY <1>2 DEF HandleDataMessage
        <4>2. early \in [Types -> SUBSET Nat] /\ early[t] \union {n} \in SUBSET Nat
          BY <3>1 DEF RecordTypes
        <4>3. QED
          BY <4>1, <4>2
      <3>6. QED
        BY <1>2, <3>4, <3>5 DEF HandleDataMessage, RecordTypes, readerVars
    <2>4. QED
      BY <2>1, <2>2, <2>3 DEF TypeOK
  <1>3. CASE PassthroughRequest
    <2>1. ControlTypes'
      BY <1>3 DEF PassthroughRequest, ControlTypes, Confirm, readerVars, historyVars
    <2>2. MessageTypes'
      BY <1>3, OneSeq, Received, OutMsgs
         DEF PassthroughRequest, MessageTypes, Consume, Publish, Confirm, Receive
    <2>3. RecordTypes'
      BY <1>3 DEF PassthroughRequest, RecordTypes, readerVars, historyVars
    <2>4. QED
      BY <2>1, <2>2, <2>3 DEF TypeOK
  <1>4. CASE BufferRequest
    <2>1. ControlTypes'
      BY <1>4 DEF BufferRequest, ControlTypes, Confirm, readerVars, historyVars
    <2>2. MessageTypes'
      BY <1>4, Received, OutMsgs DEF BufferRequest, MessageTypes, Consume, Publish, Confirm, Receive
    <2>3. RecordTypes'
      BY <1>4 DEF BufferRequest, RecordTypes, readerVars, historyVars
    <2>4. QED
      BY <2>1, <2>2, <2>3 DEF TypeOK
  <1>5. CASE BatchRequest
    <2>1. ControlTypes'
      <3>1. Head(inbox).id \in Nat
        BY <1>5, Received, InMsgFields DEF BatchRequest, Receive
      <3>2. session' \in Session
        BY <1>5, <3>1, Sessions DEF BatchRequest, StartBatchSession, ControlTypes
      <3>3. batch' \in Loop
        BY <1>5, Loops DEF BatchRequest, StartBatchSession, ControlTypes
      <3>4. mode' \in {"PASSTHROUGH", "BUFFER_IDLE", "PIPE_ACTIVE"}
        BY <1>5 DEF BatchRequest, ControlTypes
      <3>5. timer' \in {"stopped", "scheduled"} /\ head' \in {"whole", "split", "torn"}
        BY <1>5 DEF BatchRequest, StartBatchSession, DrainPipe, ControlTypes
      <3>6. QED
        BY <1>5, <3>2, <3>3, <3>4, <3>5 DEF BatchRequest, ControlTypes, readerVars, historyVars
    <2>2. MessageTypes'
      <3>1. Head(inbox).id \in Nat /\ Tail(inbox) \in Seq(InMsg)
        BY <1>5, Received, InMsgFields DEF BatchRequest, Receive
      <3>2. \A k \in {"BATCH_EMPTY", "BATCH_ERROR", "BATCH_BUSY"} :
              << Response(k, Head(inbox).id) >> \in Seq(OutMsg)
        BY <3>1, OutMsgs, OneSeq
      <3>3. published' \in Seq(OutMsg)
        BY <1>5, <3>1, <3>2, EmptySeq, RefusalType DEF BatchRequest, StartBatchSession, Publish
      <3>4. QED
        BY <1>5, <3>1, <3>3 DEF BatchRequest, MessageTypes, Consume
    <2>3. RecordTypes'
      BY <1>5, EmptySeq DEF BatchRequest, RecordTypes, StartBatchSession, DrainPipe, readerVars, historyVars
    <2>4. QED
      BY <2>1, <2>2, <2>3 DEF TypeOK
  <1>6. CASE BatchClose
    <2>1. ControlTypes'
      BY <1>6, Sessions DEF BatchClose, ControlTypes, LeavePipeActive, DrainPipe, readerVars, historyVars
    <2>2. MessageTypes'
      BY <1>6, Received DEF BatchClose, MessageTypes, Consume, Publish, Receive
    <2>3. RecordTypes'
      BY <1>6, EmptySeq DEF BatchClose, RecordTypes, LeavePipeActive, DrainPipe, readerVars, historyVars
    <2>4. QED
      BY <2>1, <2>2, <2>3 DEF TypeOK
  <1>7. CASE SessionTimeout
    <2>1. ControlTypes'
      BY <1>7, Sessions DEF SessionTimeout, ControlTypes, LeavePipeActive, DrainPipe, readerVars, historyVars
    <2>2. MessageTypes'
      <3>1. Tail(inbox) \in Seq(InMsg)
        BY <1>7, Received DEF SessionTimeout, Receive
      <3>2. Close(session.id) \in InMsg /\ Close(session.id) \in OutMsg
        BY InMsgs, OutMsgs, Sessions DEF ControlTypes
      <3>3. QED
        BY <1>7, <3>1, <3>2, EmptySeq, OneSeq, AppendSeq
           DEF SessionTimeout, MessageTypes, Consume, Publish
    <2>3. RecordTypes'
      BY <1>7, EmptySeq DEF SessionTimeout, RecordTypes, LeavePipeActive, DrainPipe, readerVars, historyVars
    <2>4. QED
      BY <2>1, <2>2, <2>3 DEF TypeOK
  <1>8. CASE PopulateItem
    <2>1. ControlTypes'
      BY <1>8, SizeAssumption, Sessions, Loops DEF PopulateItem, ControlTypes, readerVars, historyVars
    <2>2. MessageTypes'
      BY <1>8 DEF PopulateItem, MessageTypes, Publish
    <2>3. RecordTypes'
      <3> DEFINE t == batch.type
      <3>1. t \in Types /\ stored[t] \in Seq(Nat) /\ stored[t] # << >>
        BY <1>8 DEF PopulateItem, TakeOldest, RecordTypes
      <3>2. Head(stored[t]) \in Nat /\ Tail(stored[t]) \in Seq(Nat)
        BY <3>1, HeadTail
      <3>3. pipe' \in Seq(PipeItem)
        BY <1>8, <3>1, <3>2, PipeItems, AppendSeq DEF PopulateItem, TakeOldest, RecordTypes
      <3>4. stored' \in [Types -> Seq(Nat)]
        BY <1>8, <3>2 DEF PopulateItem, TakeOldest, RecordTypes
      <3>5. QED
        BY <1>8, <3>3, <3>4 DEF PopulateItem, TakeOldest, RecordTypes, readerVars, historyVars
    <2>4. QED
      BY <2>1, <2>2, <2>3 DEF TypeOK
  <1>9. CASE PopulateNextType
    <2>1. ControlTypes'
      BY <1>9, Sessions, Loops DEF PopulateNextType, ControlTypes, Types, readerVars, historyVars
    <2>2. MessageTypes'
      BY <1>9 DEF PopulateNextType, MessageTypes, Publish
    <2>3. RecordTypes'
      BY <1>9 DEF PopulateNextType, RecordTypes, readerVars, historyVars
    <2>4. QED
      BY <2>1, <2>2, <2>3 DEF TypeOK
  <1>10. CASE PopulateDone
    <2>1. ControlTypes'
      BY <1>10, Loops DEF PopulateDone, ControlTypes, readerVars, historyVars
    <2>2. MessageTypes'
      <3>1. Available(session.id, session.sent, session.more) \in OutMsg
        BY OutMsgs, Sessions DEF ControlTypes
      <3>2. QED
        BY <1>10, <3>1, OneSeq DEF PopulateDone, MessageTypes, Publish
    <2>3. RecordTypes'
      BY <1>10 DEF PopulateDone, RecordTypes, readerVars, historyVars
    <2>4. QED
      BY <2>1, <2>2, <2>3 DEF TypeOK
  <1>11. CASE PopulateError
    <2>1. ControlTypes'
      BY <1>11, Loops DEF PopulateError, ControlTypes, readerVars, historyVars
    <2>2. MessageTypes'
      BY <1>11, RefusalType, Sessions DEF PopulateError, MessageTypes, ControlTypes, Publish
    <2>3. RecordTypes'
      <3>1. stored' \in [Types -> Seq(Nat)]
        BY <1>11, FailedRetrieves, TakenType DEF RecordTypes
      <3>2. QED
        BY <1>11, <3>1 DEF PopulateError, RecordTypes, readerVars, historyVars
    <2>4. QED
      BY <2>1, <2>2, <2>3 DEF TypeOK
  <1>12. CASE StorageClear
    <2>1. ControlTypes'
      BY <1>12 DEF StorageClear, ControlTypes, readerVars, historyVars
    <2>2. MessageTypes'
      BY <1>12, Received DEF StorageClear, MessageTypes, Consume, Publish, Receive
    <2>3. RecordTypes'
      BY <1>12 DEF StorageClear, RecordTypes, readerVars, historyVars
    <2>4. QED
      BY <2>1, <2>2, <2>3 DEF TypeOK
  <1>13. CASE FlushBegin
    <2>1. ControlTypes'
      BY <1>13, Loops DEF FlushBegin, ControlTypes, readerVars, historyVars
    <2>2. MessageTypes'
      BY <1>13, Received DEF FlushBegin, MessageTypes, Consume, Publish, Receive
    <2>3. RecordTypes'
      BY <1>13 DEF FlushBegin, RecordTypes, readerVars, historyVars
    <2>4. QED
      BY <2>1, <2>2, <2>3 DEF TypeOK
  <1>14. CASE FlushItem
    <2>1. ControlTypes'
      BY <1>14 DEF FlushItem, ControlTypes, readerVars, historyVars
    <2>2. MessageTypes'
      BY <1>14, HeadTail, OutMsgs DEF FlushItem, TakeOldest, MessageTypes, RecordTypes, Publish
    <2>3. RecordTypes'
      BY <1>14, HeadTail DEF FlushItem, TakeOldest, RecordTypes, readerVars, historyVars
    <2>4. QED
      BY <2>1, <2>2, <2>3 DEF TypeOK
  <1>15. CASE FlushNextType
    <2>1. ControlTypes'
      BY <1>15, Loops DEF FlushNextType, ControlTypes, readerVars, historyVars
    <2>2. MessageTypes'
      BY <1>15 DEF FlushNextType, MessageTypes, Publish
    <2>3. RecordTypes'
      <3>1. stored' \in [Types -> Seq(Nat)]
        BY <1>15, FailedRetrieves, TakenType DEF RecordTypes
      <3>2. QED
        BY <1>15, <3>1 DEF FlushNextType, RecordTypes, readerVars, historyVars
    <2>4. QED
      BY <2>1, <2>2, <2>3 DEF TypeOK
  <1>16. CASE SessionTimeoutWork
    <2>1. ControlTypes'
      BY <1>16 DEF SessionTimeoutWork, ControlTypes, readerVars, historyVars
    <2>2. MessageTypes'
      BY <1>16, InMsgs DEF SessionTimeoutWork, MessageTypes, Commands, Publish
    <2>3. RecordTypes'
      BY <1>16 DEF SessionTimeoutWork, RecordTypes, readerVars, historyVars
    <2>4. QED
      BY <2>1, <2>2, <2>3 DEF TypeOK
  <1>17. CASE ReadHeader
    <2>1. ControlTypes'
      BY <1>17, NTypesAssumption, HeadTail, PipeItems DEF ReadHeader, ControlTypes, RecordTypes, Types, historyVars
    <2>2. MessageTypes'
      BY <1>17 DEF ReadHeader, MessageTypes, Publish
    <2>3. RecordTypes'
      BY <1>17 DEF ReadHeader, RecordTypes, historyVars
    <2>4. QED
      BY <2>1, <2>2, <2>3 DEF TypeOK
  <1>18. CASE ReadData
    <2>1. ControlTypes'
      BY <1>18, NTypesAssumption DEF ReadData, ControlTypes, historyVars
    <2>2. MessageTypes'
      BY <1>18 DEF ReadData, MessageTypes, Publish
    <2>3. RecordTypes'
      <3>1. Head(pipe).item \in Nat /\ Tail(pipe) \in Seq(PipeItem)
        BY <1>18, HeadTail, PipeItems DEF ReadData, RecordTypes
      <3>2. returned' \in [Types -> SUBSET Nat]
        BY <1>18, <3>1 DEF ReadData, RecordTypes
      <3>3. QED
        BY <1>18, <3>1, <3>2 DEF ReadData, RecordTypes, historyVars
    <2>4. QED
      BY <2>1, <2>2, <2>3 DEF TypeOK
  <1>19. CASE ReadTorn
    <2>1. ControlTypes'
      BY <1>19, NTypesAssumption DEF ReadTorn, ControlTypes, historyVars
    <2>2. MessageTypes'
      BY <1>19 DEF ReadTorn, MessageTypes, Publish
    <2>3. RecordTypes'
      BY <1>19, HeadTail DEF ReadTorn, RecordTypes, historyVars
    <2>4. QED
      BY <2>1, <2>2, <2>3 DEF TypeOK
  <1>20. CASE ReadTimeout
    <2>1. ControlTypes'
      BY <1>20, NTypesAssumption DEF ReadTimeout, ControlTypes, historyVars
    <2>2. MessageTypes'
      BY <1>20 DEF ReadTimeout, MessageTypes, Publish
    <2>3. RecordTypes'
      BY <1>20 DEF ReadTimeout, RecordTypes, historyVars
    <2>4. QED
      BY <2>1, <2>2, <2>3 DEF TypeOK
  <1>21. CASE PublishCommand
    <2>1. ControlTypes'
      BY <1>21 DEF PublishCommand, ControlTypes, Send, readerVars
    <2>2. MessageTypes'
      <3>1. \A id \in SessionIds : Request(id) \in InMsg /\ Close(id) \in InMsg
        BY InMsgs, SessionIdsAssumption
      <3>2. \A c \in Commands : Command(c) \in InMsg
        BY InMsgs
      <3>3. QED
        BY <1>21, <3>1, <3>2, EmptySeq, AppendSeq DEF PublishCommand, MessageTypes, Send, Publish
    <2>3. RecordTypes'
      BY <1>21 DEF PublishCommand, RecordTypes, Send, readerVars
    <2>4. QED
      BY <2>1, <2>2, <2>3 DEF TypeOK
  <1>22. ASSUME NEW t \in Types, PublishSample(t) PROVE TypeOK'
    <2>1. ControlTypes'
      BY <1>22 DEF PublishSample, Send, ControlTypes, readerVars
    <2>2. MessageTypes'
      BY <1>22, InMsgs DEF PublishSample, Send, Publish, MessageTypes, RecordTypes
    <2>3. RecordTypes'
      BY <1>22 DEF PublishSample, Send, RecordTypes, readerVars
    <2>4. QED
      BY <2>1, <2>2, <2>3 DEF TypeOK
  <1>23. CASE UNCHANGED vars
    BY <1>23 DEF vars, TypeOK, ControlTypes, MessageTypes, RecordTypes
  <1>24. QED
    BY <1>1, <1>2, <1>3, <1>4, <1>5, <1>6, <1>7, <1>8, <1>9, <1>10, <1>11, <1>12, <1>13, <1>14, <1>15, <1>16, <1>17, <1>18, <1>19, <1>20, <1>21, <1>22, <1>23
       DEF Next, StorageThread, Reader, Publishers

(* Every variable of the module keeps its type. *)
THEOREM TypeCorrect == Spec => []TypeOK
<1>1. Init => TypeOK
  BY ModeAssumption, NTypesAssumption, Sessions, Loops
     DEF Init, TypeOK, ControlTypes, MessageTypes, RecordTypes, Types
<1>2. ASSUME TypeOK, [Next]_vars PROVE TypeOK'
  BY <1>2, TypeStep
<1>3. QED
  BY <1>1, <1>2, PTL DEF Spec
-----------------------------------------------------------------------------
(* Outside a batch session nothing of a session is left: no item in the    *)
(* pipe, no session id, no timeout, no populate loop.                      *)
LEMMA PipeOnlyInSessionStep ==
  ASSUME PipeOnlyInSession, [Next]_vars
  PROVE  PipeOnlyInSession'
  <1> USE DEF PipeOnlyInSession
  <1>1. CASE PassthroughDataMsg
    BY <1>1 DEF PassthroughDataMsg, Receive, NoBatch
  <1>2. CASE HandleDataMessage
    BY <1>2 DEF HandleDataMessage, Receive, NoBatch
  <1>3. CASE PassthroughRequest
    BY <1>3 DEF PassthroughRequest, Receive, NoBatch
  <1>4. CASE BufferRequest
    BY <1>4 DEF BufferRequest, Receive, NoBatch
  <1>5. CASE BatchRequest
    BY <1>5 DEF BatchRequest, StartBatchSession, Receive, NoBatch
  <1>6. CASE BatchClose
    BY <1>6 DEF BatchClose, LeavePipeActive, DrainPipe, Receive, NoBatch
  <1>7. CASE SessionTimeout
    BY <1>7 DEF SessionTimeout, LeavePipeActive, DrainPipe, Receive, NoBatch
  <1>8. CASE PopulateItem
    BY <1>8 DEF PopulateItem
  <1>9. CASE PopulateNextType
    BY <1>9 DEF PopulateNextType
  <1>10. CASE PopulateDone
    BY <1>10 DEF PopulateDone, NoBatch
  <1>11. CASE PopulateError
    BY <1>11 DEF PopulateError, NoBatch
  <1>12. CASE StorageClear
    BY <1>12 DEF StorageClear, Receive, NoBatch
  <1>13. CASE FlushBegin
    BY <1>13 DEF FlushBegin, Receive, NoBatch, Batch
  <1>14. CASE FlushItem
    BY <1>14 DEF FlushItem
  <1>15. CASE FlushNextType
    BY <1>15 DEF FlushNextType, NoBatch
  <1>16. CASE SessionTimeoutWork
    BY <1>16 DEF SessionTimeoutWork
  <1>17. CASE ReadHeader
    BY <1>17 DEF ReadHeader
  <1>18. CASE ReadData
    BY <1>18 DEF ReadData
  <1>19. CASE ReadTorn
    BY <1>19 DEF ReadTorn
  <1>20. CASE ReadTimeout
    BY <1>20 DEF ReadTimeout
  <1>21. CASE PublishCommand
    BY <1>21 DEF PublishCommand, Send
  <1>22. ASSUME NEW t \in Types, PublishSample(t) PROVE PipeOnlyInSession'
    BY <1>22 DEF PublishSample, Send
  <1>23. CASE UNCHANGED vars
    BY <1>23 DEF vars
  <1>24. QED
    BY <1>1, <1>2, <1>3, <1>4, <1>5, <1>6, <1>7, <1>8, <1>9, <1>10, <1>11, <1>12, <1>13, <1>14, <1>15, <1>16, <1>17, <1>18, <1>19, <1>20, <1>21, <1>22, <1>23
       DEF Next, StorageThread, Reader, Publishers

THEOREM PipeOnlyInSessionHolds == Spec => []PipeOnlyInSession
<1>1. Init => PipeOnlyInSession
  BY DEF Init, PipeOnlyInSession, NoBatch
<1>2. QED
  BY <1>1, PipeOnlyInSessionStep, PTL DEF Spec
-----------------------------------------------------------------------------
(* No step leaves the mode that was confirmed. *)
LEMMA ConfirmedModeStep ==
  ASSUME ConfirmedModeHolds, [Next]_vars
  PROVE  ConfirmedModeHolds'
  <1> USE DEF ConfirmedModeHolds
  <1>1. CASE PassthroughDataMsg
    BY <1>1 DEF PassthroughDataMsg, historyVars
  <1>2. CASE HandleDataMessage
    BY <1>2 DEF HandleDataMessage
  <1>3. CASE PassthroughRequest
    BY <1>3 DEF PassthroughRequest, Confirm
  <1>4. CASE BufferRequest
    BY <1>4 DEF BufferRequest, Confirm
  <1>5. CASE BatchRequest
    BY <1>5 DEF BatchRequest, historyVars
  <1>6. CASE BatchClose
    BY <1>6 DEF BatchClose, historyVars, LeavePipeActive
  <1>7. CASE SessionTimeout
    BY <1>7 DEF SessionTimeout, historyVars, LeavePipeActive
  <1>8. CASE PopulateItem
    BY <1>8 DEF PopulateItem, historyVars
  <1>9. CASE PopulateNextType
    BY <1>9 DEF PopulateNextType, historyVars
  <1>10. CASE PopulateDone
    BY <1>10 DEF PopulateDone, historyVars
  <1>11. CASE PopulateError
    BY <1>11 DEF PopulateError, historyVars
  <1>12. CASE StorageClear
    BY <1>12 DEF StorageClear, historyVars
  <1>13. CASE FlushBegin
    BY <1>13 DEF FlushBegin, historyVars
  <1>14. CASE FlushItem
    BY <1>14 DEF FlushItem, historyVars
  <1>15. CASE FlushNextType
    BY <1>15 DEF FlushNextType, historyVars
  <1>16. CASE SessionTimeoutWork
    BY <1>16 DEF SessionTimeoutWork, historyVars
  <1>17. CASE ReadHeader
    BY <1>17 DEF ReadHeader, historyVars
  <1>18. CASE ReadData
    BY <1>18 DEF ReadData, historyVars
  <1>19. CASE ReadTorn
    BY <1>19 DEF ReadTorn, historyVars
  <1>20. CASE ReadTimeout
    BY <1>20 DEF ReadTimeout, historyVars
  <1>21. CASE PublishCommand
    BY <1>21 DEF PublishCommand, Send
  <1>22. ASSUME NEW t \in Types, PublishSample(t) PROVE ConfirmedModeHolds'
    BY <1>22 DEF PublishSample, Send
  <1>23. CASE UNCHANGED vars
    BY <1>23 DEF vars
  <1>24. QED
    BY <1>1, <1>2, <1>3, <1>4, <1>5, <1>6, <1>7, <1>8, <1>9, <1>10, <1>11, <1>12, <1>13, <1>14, <1>15, <1>16, <1>17, <1>18, <1>19, <1>20, <1>21, <1>22, <1>23
       DEF Next, StorageThread, Reader, Publishers

(* The module is in the mode that it last confirmed to the others.         *)
THEOREM ConfirmedModeAlwaysHolds == Spec => []ConfirmedModeHolds
<1>1. Init => ConfirmedModeHolds
  BY DEF Init, ConfirmedModeHolds
<1>2. QED
  BY <1>1, ConfirmedModeStep, PTL DEF Spec

-----------------------------------------------------------------------------
(* Taking the oldest record of a type keeps every type within its bound.   *)
LEMMA ShorterStored ==
  ASSUME TypeOK, BackendBounded, NEW t \in Types, stored[t] # << >>,
         stored' = [stored EXCEPT ![t] = Tail(@)]
  PROVE  BackendBounded'
  <1>1. \A u \in Types : stored[u] \in Seq(Nat) /\ Len(stored[u]) <= MaxRecords
    BY DEF TypeOK, RecordTypes, BackendBounded
  <1>2. Len(Tail(stored[t])) <= MaxRecords
    BY <1>1, MaxRecordsAssumption
  <1>3. stored \in [Types -> Seq(Nat)]
    BY DEF TypeOK, RecordTypes
  <1>4. QED
    BY <1>1, <1>2, <1>3 DEF BackendBounded

LEMMA BoundedStep ==
  ASSUME TypeOK, BackendBounded, [Next]_vars
  PROVE  BackendBounded'
  <1>1. CASE PassthroughDataMsg
    BY <1>1 DEF PassthroughDataMsg, BackendBounded
  <1>2. CASE HandleDataMessage
    <2>1. Head(inbox).dt \in Types /\ Head(inbox).item \in Nat
      BY <1>2, Received, InMsgFields DEF HandleDataMessage, Receive, TypeOK
    <2>2. \A t \in Types : stored[t] \in Seq(Nat) /\ Len(stored[t]) <= MaxRecords
      BY DEF TypeOK, RecordTypes, BackendBounded
    <2>3. Len(Stored(stored[Head(inbox).dt], Head(inbox).item)) <= MaxRecords
      BY <2>1, <2>2, MaxRecordsAssumption DEF Stored
    <2>3a. Len(stored[Head(inbox).dt]) = MaxRecords =>
             Len(StoredHalf(stored[Head(inbox).dt], Head(inbox).item)) <= MaxRecords
      <3>1. Len(stored[Head(inbox).dt]) = MaxRecords =>
              Len(StoredHalf(stored[Head(inbox).dt], Head(inbox).item)) = MaxRecords
        BY <2>1, <2>2, StoredHalfType
      <3>2. QED
        BY <3>1, MaxRecordsAssumption
    <2>4. stored \in [Types -> Seq(Nat)]
      BY DEF TypeOK, RecordTypes
    <2>5. QED
      BY <1>2, <2>1, <2>2, <2>3, <2>3a, <2>4 DEF HandleDataMessage, BackendBounded
  <1>3. CASE PassthroughRequest
    BY <1>3 DEF PassthroughRequest, BackendBounded
  <1>4. CASE BufferRequest
    BY <1>4 DEF BufferRequest, BackendBounded
  <1>5. CASE BatchRequest
    BY <1>5 DEF BatchRequest, BackendBounded
  <1>6. CASE BatchClose
    BY <1>6 DEF BatchClose, BackendBounded
  <1>7. CASE SessionTimeout
    BY <1>7 DEF SessionTimeout, BackendBounded
  <1>8. CASE PopulateItem
    BY <1>8, ShorterStored DEF PopulateItem, TakeOldest
  <1>9. CASE PopulateNextType
    BY <1>9 DEF PopulateNextType, BackendBounded
  <1>10. CASE PopulateDone
    BY <1>10 DEF PopulateDone, BackendBounded
  <1>11. CASE PopulateError
    BY <1>11, FailedRetrieves, ShorterStored DEF TakeOldest, BackendBounded
  <1>12. CASE StorageClear
    BY <1>12, MaxRecordsAssumption DEF StorageClear, BackendBounded
  <1>13. CASE FlushBegin
    BY <1>13 DEF FlushBegin, BackendBounded
  <1>14. CASE FlushItem
    BY <1>14, ShorterStored DEF FlushItem, TakeOldest
  <1>15. CASE FlushNextType
    BY <1>15, FailedRetrieves, ShorterStored DEF TakeOldest, BackendBounded
  <1>16. CASE SessionTimeoutWork
    BY <1>16 DEF SessionTimeoutWork, BackendBounded
  <1>17. CASE ReadHeader
    BY <1>17 DEF ReadHeader, BackendBounded
  <1>18. CASE ReadData
    BY <1>18 DEF ReadData, BackendBounded
  <1>19. CASE ReadTorn
    BY <1>19 DEF ReadTorn, BackendBounded
  <1>20. CASE ReadTimeout
    BY <1>20 DEF ReadTimeout, BackendBounded
  <1>21. CASE PublishCommand
    BY <1>21 DEF PublishCommand, Send, BackendBounded
  <1>22. ASSUME NEW t \in Types, PublishSample(t) PROVE BackendBounded'
    BY <1>22 DEF PublishSample, Send, BackendBounded
  <1>23. CASE UNCHANGED vars
    BY <1>23 DEF vars, BackendBounded
  <1>24. QED
    BY <1>2, <1>1, <1>2, <1>3, <1>4, <1>5, <1>6, <1>7, <1>8, <1>9, <1>10, <1>11, <1>12, <1>13, <1>14, <1>15, <1>16, <1>17, <1>18, <1>19, <1>20, <1>21, <1>22, <1>23
       DEF Next, StorageThread, Reader, Publishers

(* A backend never holds more records of a type than configured.           *)
THEOREM BackendAlwaysBounded == Spec => []BackendBounded
<1>1. Init => BackendBounded
  BY MaxRecordsAssumption DEF Init, BackendBounded
<1>2. TypeOK /\ BackendBounded /\ [Next]_vars => BackendBounded'
  BY BoundedStep
<1>3. QED
  BY <1>1, <1>2, TypeCorrect, PTL DEF Spec
-----------------------------------------------------------------------------
(* Records in order.  Most steps only take records away from the front of  *)
(* the pipe, of the backend or of the queue.                               *)

(* The elements of q are elements of s, in the same order: all those of q, *)
(* or those that are samples.                                              *)
Later(q, s) ==
  \E k \in Nat : \A i \in DOMAIN q : i + k \in DOMAIN s /\ q[i] = s[i + k]

SamplesLater(q, s) ==
  \E k \in Nat : \A i \in DOMAIN q :
    q[i].type = "DATA" => i + k \in DOMAIN s /\ q[i] = s[i + k]

LEMMA LaterRules ==
  ASSUME NEW S, NEW s \in Seq(S)
  PROVE  /\ Later(s, s) /\ Later(<< >>, s)
         /\ s # << >> => Later(Tail(s), s)
  <1>1. Later(s, s)
    <2>1. \A i \in DOMAIN s : i + 0 \in DOMAIN s /\ s[i] = s[i + 0]
      OBVIOUS
    <2>2. QED
      BY <2>1 DEF Later
  <1>2. Later(<< >>, s)
    BY DEF Later
  <1>3. ASSUME s # << >> PROVE Later(Tail(s), s)
    <2>1. \A i \in DOMAIN Tail(s) : i + 1 \in DOMAIN s /\ Tail(s)[i] = s[i + 1]
      BY <1>3
    <2>2. QED
      BY <2>1 DEF Later
  <1>4. QED
    BY <1>1, <1>2, <1>3

LEMMA SamplesLaterRules ==
  ASSUME NEW S, NEW s \in Seq(S)
  PROVE  /\ SamplesLater(s, s)
         /\ s # << >> => SamplesLater(Tail(s), s)
         /\ \A m \in S : m.type # "DATA" =>
              /\ SamplesLater(Append(s, m), s)
              /\ s # << >> => SamplesLater(Append(Tail(s), m), s)
  <1>1. SamplesLater(s, s)
    <2>1. \A i \in DOMAIN s : i + 0 \in DOMAIN s /\ s[i] = s[i + 0]
      OBVIOUS
    <2>2. QED
      BY <2>1 DEF SamplesLater
  <1>2. ASSUME s # << >> PROVE SamplesLater(Tail(s), s)
    <2>1. \A i \in DOMAIN Tail(s) : i + 1 \in DOMAIN s /\ Tail(s)[i] = s[i + 1]
      BY <1>2
    <2>2. QED
      BY <2>1 DEF SamplesLater
  <1>3. ASSUME NEW m \in S, m.type # "DATA" PROVE SamplesLater(Append(s, m), s)
    <2>1. \A i \in DOMAIN Append(s, m) : Append(s, m)[i].type = "DATA" =>
            i + 0 \in DOMAIN s /\ Append(s, m)[i] = s[i + 0]
      BY <1>3
    <2>2. QED
      BY <2>1 DEF SamplesLater
  <1>4. ASSUME NEW m \in S, m.type # "DATA", s # << >>
        PROVE  SamplesLater(Append(Tail(s), m), s)
    <2>1. \A i \in DOMAIN Append(Tail(s), m) : Append(Tail(s), m)[i].type = "DATA" =>
            i + 1 \in DOMAIN s /\ Append(Tail(s), m)[i] = s[i + 1]
      BY <1>4
    <2>2. QED
      BY <2>1 DEF SamplesLater
  <1>5. QED
    BY <1>1, <1>2, <1>3, <1>4

(* A step that only takes records away keeps the order.                    *)
LEMMA TakingAway ==
  ASSUME TypeOK, TypeOK', RecordOrder,
         Later(pipe', pipe),
         \A t \in Types : Later(stored'[t], stored[t]),
         SamplesLater(inbox', inbox),
         UNCHANGED <<returned, sampled, early>>
  PROVE  RecordOrder'
  <1>1. PICK a \in Nat : \A i \in DOMAIN pipe' : i + a \in DOMAIN pipe /\ pipe'[i] = pipe[i + a]
    BY DEF Later
  <1>2. PICK b \in Nat : \A i \in DOMAIN inbox' : inbox'[i].type = "DATA" =>
                              i + b \in DOMAIN inbox /\ inbox'[i] = inbox[i + b]
    BY DEF SamplesLater
  <1>3. \A t \in Types : \E k \in Nat : \A j \in DOMAIN stored'[t] :
          j + k \in DOMAIN stored[t] /\ stored'[t][j] = stored[t][j + k]
    BY DEF Later
  <1>4. /\ DOMAIN pipe' \subseteq Nat /\ DOMAIN inbox' \subseteq Nat
        /\ \A t \in Types : DOMAIN stored'[t] \subseteq Nat
        /\ \A i \in DOMAIN pipe' : pipe'[i].type \in Types
    BY PipeItems DEF TypeOK, RecordTypes, MessageTypes
  <1>5. ReadBeforePipe'
    BY <1>1 DEF RecordOrder, ReadBeforePipe, Before
  <1>6. PipeOrder'
    BY <1>1, <1>4 DEF RecordOrder, PipeOrder, Before
  <1>7. ReadBeforeStored'
    BY <1>3 DEF RecordOrder, ReadBeforeStored, Before
  <1>8. PipeBeforeStored'
    BY <1>1, <1>3, <1>4 DEF RecordOrder, PipeBeforeStored, Before
  <1>9. StoredOrder'
    <2> SUFFICES ASSUME NEW t \in Types PROVE
          \A i, j \in DOMAIN stored'[t] : i < j => Before(t, stored'[t][i], stored'[t][j])
      BY DEF StoredOrder, Before
    <2>1. PICK k \in Nat : \A j \in DOMAIN stored'[t] :
            j + k \in DOMAIN stored[t] /\ stored'[t][j] = stored[t][j + k]
      BY <1>3
    <2>2. QED
      BY <2>1, <1>4 DEF RecordOrder, StoredOrder, Before
  <1>10. InboxAfterAll'
    <2> SUFFICES ASSUME NEW k \in DOMAIN inbox', inbox'[k].type = "DATA"
                 PROVE  /\ inbox'[k].item <= sampled'[inbox'[k].dt]
                        /\ \A r \in returned'[inbox'[k].dt] : r < inbox'[k].item
                        /\ \A i \in DOMAIN pipe' : pipe'[i].type = inbox'[k].dt =>
                             pipe'[i].item < inbox'[k].item
                        /\ \A j \in DOMAIN stored'[inbox'[k].dt] :
                             stored'[inbox'[k].dt][j] < inbox'[k].item
      BY DEF InboxAfterAll
    <2>1. k + b \in DOMAIN inbox /\ inbox'[k] = inbox[k + b]
      BY <1>2
    <2>2. inbox[k + b].dt \in Types
      BY <2>1, InMsgFields DEF TypeOK, MessageTypes
    <2>3. /\ inbox[k + b].item <= sampled[inbox[k + b].dt]
          /\ \A r \in returned[inbox[k + b].dt] : r < inbox[k + b].item
          /\ \A i \in DOMAIN pipe : pipe[i].type = inbox[k + b].dt =>
               pipe[i].item < inbox[k + b].item
          /\ \A j \in DOMAIN stored[inbox[k + b].dt] :
               stored[inbox[k + b].dt][j] < inbox[k + b].item
      BY <2>1 DEF RecordOrder, InboxAfterAll
    <2>4. \A i \in DOMAIN pipe' : pipe'[i].type = inbox'[k].dt => pipe'[i].item < inbox'[k].item
      BY <1>1, <2>1, <2>3
    <2>5. \A j \in DOMAIN stored'[inbox'[k].dt] : stored'[inbox'[k].dt][j] < inbox'[k].item
      BY <1>3, <2>1, <2>2, <2>3
    <2>6. QED
      BY <2>1, <2>3, <2>4, <2>5
  <1>11. InboxOrder'
    BY <1>2, <1>4 DEF RecordOrder, InboxOrder
  <1>12. SampledLast'
    BY <1>1, <1>3, <1>4 DEF RecordOrder, SampledLast
  <1>13. QED
    BY <1>5, <1>6, <1>7, <1>8, <1>9, <1>10, <1>11, <1>12 DEF RecordOrder

(* The sequences that TakingAway compares.                                 *)
LEMMA Unmoved ==
  ASSUME TypeOK
  PROVE  /\ UNCHANGED pipe => Later(pipe', pipe)
         /\ pipe' = << >> => Later(pipe', pipe)
         /\ pipe # << >> /\ pipe' = Tail(pipe) => Later(pipe', pipe)
         /\ UNCHANGED stored => \A t \in Types : Later(stored'[t], stored[t])
         /\ UNCHANGED inbox => SamplesLater(inbox', inbox)
         /\ inbox # << >> /\ inbox' = Tail(inbox) => SamplesLater(inbox', inbox)
  BY LaterRules, SamplesLaterRules DEF TypeOK, RecordTypes, MessageTypes

LEMMA OneLess ==
  ASSUME TypeOK, NEW t \in Types, stored[t] # << >>, stored' = [stored EXCEPT ![t] = Tail(@)]
  PROVE  \A u \in Types : Later(stored'[u], stored[u])
  <1>1. stored \in [Types -> Seq(Nat)]
    BY DEF TypeOK, RecordTypes
  <1>2. stored'[t] = Tail(stored[t]) /\ \A u \in Types \ {t} : stored'[u] = stored[u]
    BY <1>1
  <1>3. QED
    BY <1>1, <1>2, LaterRules

(* What comes before another record is not that record.                    *)
LEMMA BeforeApart == \A t : \A m, n \in Nat : Before(t, m, n) => m # n
  BY DEF Before

(* The reader that has read a header finds the data of that item next, as  *)
(* long as the pipe was not drained.                                       *)
ReaderAligned == head = "split" => pipe # << >> /\ reader = Head(pipe).type

LEMMA AppendParts ==
  ASSUME NEW S, NEW s \in Seq(S), NEW x \in S
  PROVE  /\ DOMAIN Append(s, x) = DOMAIN s \union {Len(s) + 1}
         /\ DOMAIN s = 1 .. Len(s) /\ Len(s) \in Nat
         /\ Append(s, x)[Len(s) + 1] = x
         /\ \A i \in DOMAIN s : Append(s, x)[i] = s[i]
  OBVIOUS

(* A sample arrives in the backend behind every record of its type.        *)
LEMMA StoringASample ==
  ASSUME TypeOK, TypeOK', RecordOrder, inbox # << >>, Head(inbox).type = "DATA",
         inbox' = Tail(inbox),
         stored' = [stored EXCEPT ![Head(inbox).dt] = Stored(@, Head(inbox).item)],
         UNCHANGED <<pipe, returned, sampled, early>>
  PROVE  RecordOrder'
  <1> DEFINE t == Head(inbox).dt
             n == Head(inbox).item
  <1>1. /\ inbox \in Seq(InMsg) /\ Head(inbox) = inbox[1] /\ 1 \in DOMAIN inbox
        /\ t \in Types /\ n \in Nat
    BY Received, InMsgFields DEF TypeOK, MessageTypes
  <1>2. /\ stored \in [Types -> Seq(Nat)] /\ pipe \in Seq(PipeItem)
        /\ returned \in [Types -> SUBSET Nat] /\ sampled \in [Types -> Nat]
        /\ \A i \in DOMAIN pipe : pipe[i].type \in Types /\ pipe[i].item \in Nat
    BY PipeItems DEF TypeOK, RecordTypes
  <1>3. /\ n <= sampled[t] /\ (\A r \in returned[t] : r < n)
        /\ \A i \in DOMAIN pipe : pipe[i].type = t => pipe[i].item < n
        /\ \A j \in DOMAIN stored[t] : stored[t][j] < n
    BY <1>1 DEF RecordOrder, InboxAfterAll
  <1>4. \A u \in Types \ {t} : stored'[u] = stored[u]
    BY <1>1, <1>2
  <1>5. stored'[t] = Stored(stored[t], n)
    BY <1>1, <1>2
  <1>6. PICK base \in Seq(Nat) : stored'[t] = Append(base, n) /\ Later(base, stored[t])
    <2>1. CASE Len(stored[t]) < MaxRecords
      BY <1>1, <1>2, <1>5, <2>1, LaterRules DEF Stored
    <2>2. CASE ~(Len(stored[t]) < MaxRecords)
      <3>1. stored[t] # << >> /\ stored[t] \in Seq(Nat)
        BY <1>1, <1>2, <2>2, MaxRecordsAssumption
      <3>2. QED
        BY <1>5, <2>2, <3>1, LaterRules, HeadTail DEF Stored
    <2>3. QED
      BY <2>1, <2>2
  <1>7. PICK k \in Nat : \A i \in DOMAIN base : i + k \in DOMAIN stored[t] /\ base[i] = stored[t][i + k]
    BY <1>6 DEF Later
  <1>8. /\ DOMAIN stored'[t] = DOMAIN base \union {Len(base) + 1}
        /\ DOMAIN base = 1 .. Len(base) /\ Len(base) \in Nat
        /\ stored'[t][Len(base) + 1] = n
        /\ \A j \in DOMAIN base : stored'[t][j] = base[j]
    <2>1. /\ DOMAIN Append(base, n) = DOMAIN base \union {Len(base) + 1}
          /\ DOMAIN base = 1 .. Len(base) /\ Len(base) \in Nat
          /\ Append(base, n)[Len(base) + 1] = n
          /\ \A j \in DOMAIN base : Append(base, n)[j] = base[j]
      BY <1>1, AppendParts
    <2>2. QED
      BY <1>6, <2>1, Zenon
  <1>8a. \A j \in DOMAIN stored'[t] :
          stored'[t][j] = n \/ (j + k \in DOMAIN stored[t] /\ stored'[t][j] = stored[t][j + k])
    BY <1>7, <1>8
  <1>9. \A i, j \in DOMAIN stored'[t] : i < j => Before(t, stored'[t][i], stored'[t][j])
    <2> SUFFICES ASSUME NEW i \in DOMAIN stored'[t], NEW j \in DOMAIN stored'[t], i < j
                 PROVE  Before(t, stored'[t][i], stored'[t][j])
      OBVIOUS
    <2>1. i \in DOMAIN base /\ stored'[t][i] = base[i]
      BY <1>8
    <2>2. CASE j \in DOMAIN base
      <3>1. stored'[t][j] = base[j] /\ i + k < j + k
        BY <1>8, <2>1, <2>2
      <3>2. \A a, b \in DOMAIN stored[t] : a < b => Before(t, stored[t][a], stored[t][b])
        BY <1>1 DEF RecordOrder, StoredOrder
      <3>3. QED
        BY <1>7, <2>1, <2>2, <3>1, <3>2
    <2>3. CASE j \notin DOMAIN base
      <3>1. stored'[t][j] = n
        BY <1>8, <2>3
      <3>2. QED
        BY <1>3, <1>7, <2>1, <3>1 DEF Before
    <2>4. QED
      BY <2>2, <2>3
  <1>10. \A l \in DOMAIN inbox' : l + 1 \in DOMAIN inbox /\ inbox'[l] = inbox[l + 1] /\ 1 < l + 1
    BY <1>1
  <1>11. ReadBeforePipe' /\ PipeOrder'
    BY DEF RecordOrder, ReadBeforePipe, PipeOrder, Before
  <1>12. ReadBeforeStored'
    BY SMTT(30), <1>3, <1>4, <1>8a DEF RecordOrder, ReadBeforeStored, Before
  <1>13. PipeBeforeStored'
    <2>1. \A i \in DOMAIN pipe : \A j \in DOMAIN stored[pipe[i].type] :
            Before(pipe[i].type, pipe[i].item, stored[pipe[i].type][j])
      BY DEF RecordOrder, PipeBeforeStored
    <2>2. \A i \in DOMAIN pipe : pipe[i].type = t =>
            \A j \in DOMAIN stored'[t] : Before(t, pipe[i].item, stored'[t][j])
      <3>1. \A a, b : a < b => Before(t, a, b)
        BY DEF Before
      <3>2. QED
        BY <2>1, <1>3, <1>8a, <3>1
    <2>3. \A i \in DOMAIN pipe : pipe[i].type # t =>
            \A j \in DOMAIN stored'[pipe[i].type] :
              Before(pipe[i].type, pipe[i].item, stored'[pipe[i].type][j])
      BY <2>1, <1>2, <1>4
    <2>4. \A i \in DOMAIN pipe : \A j \in DOMAIN stored'[pipe[i].type] :
            Before(pipe[i].type, pipe[i].item, stored'[pipe[i].type][j])
      BY <2>2, <2>3
    <2>5. \A u, a, b : Before(u, a, b)' <=> Before(u, a, b)
      BY DEF Before
    <2>6. QED
      BY <2>4, <2>5 DEF PipeBeforeStored
  <1>14. StoredOrder'
    BY <1>4, <1>9 DEF RecordOrder, StoredOrder, Before
  <1>15. InboxAfterAll'
    <2> SUFFICES ASSUME NEW l \in DOMAIN inbox', inbox'[l].type = "DATA"
                 PROVE  /\ inbox'[l].item <= sampled'[inbox'[l].dt]
                        /\ \A r \in returned'[inbox'[l].dt] : r < inbox'[l].item
                        /\ \A i \in DOMAIN pipe' : pipe'[i].type = inbox'[l].dt =>
                             pipe'[i].item < inbox'[l].item
                        /\ \A j \in DOMAIN stored'[inbox'[l].dt] :
                             stored'[inbox'[l].dt][j] < inbox'[l].item
      BY DEF InboxAfterAll
    <2> DEFINE m == inbox[l + 1]
    <2>1. m = inbox'[l] /\ m.type = "DATA" /\ m.dt \in Types /\ l + 1 \in DOMAIN inbox
      BY <1>1, <1>10, InMsgFields
    <2>2. /\ m.item <= sampled[m.dt] /\ (\A r \in returned[m.dt] : r < m.item)
          /\ \A i \in DOMAIN pipe : pipe[i].type = m.dt => pipe[i].item < m.item
          /\ \A j \in DOMAIN stored[m.dt] : stored[m.dt][j] < m.item
      BY <2>1 DEF RecordOrder, InboxAfterAll
    <2>3. m.dt = t => n < m.item
      BY <1>1, <1>10, <2>1 DEF RecordOrder, InboxOrder
    <2>4. \A j \in DOMAIN stored'[m.dt] : stored'[m.dt][j] < m.item
      BY <1>4, <1>8a, <2>1, <2>2, <2>3
    <2>5. QED
      BY <2>1, <2>2, <2>4
  <1>16. InboxOrder'
    BY <1>1, <1>10 DEF RecordOrder, InboxOrder
  <1>17. SampledLast'
    BY <1>3, <1>4, <1>8a DEF RecordOrder, SampledLast
  <1>18. QED
    BY <1>11, <1>12, <1>13, <1>14, <1>15, <1>16, <1>17 DEF RecordOrder

LEMMA FirstReplaced ==
  ASSUME NEW s \in Seq(Nat), s # << >>, NEW n \in Nat
  PROVE  \A j \in DOMAIN (<< n >> \o Tail(s)) :
           /\ j \in DOMAIN s
           /\ j = 1 => (<< n >> \o Tail(s))[j] = n
           /\ j # 1 => (<< n >> \o Tail(s))[j] = s[j]
  OBVIOUS

(* A store that fails half-way puts the sample before every record of its  *)
(* type, which is why early must name it.                                  *)
LEMMA HalfStoringASample ==
  ASSUME TypeOK, TypeOK', RecordOrder, inbox # << >>, Head(inbox).type = "DATA",
         inbox' = Tail(inbox), Len(stored[Head(inbox).dt]) = MaxRecords,
         stored' = [stored EXCEPT ![Head(inbox).dt] = StoredHalf(@, Head(inbox).item)],
         early' = [early EXCEPT ![Head(inbox).dt] = @ \union {Head(inbox).item}],
         UNCHANGED <<pipe, returned, sampled>>
  PROVE  RecordOrder'
  <1> DEFINE t == Head(inbox).dt
             n == Head(inbox).item
  <1>1. /\ inbox \in Seq(InMsg) /\ Head(inbox) = inbox[1] /\ 1 \in DOMAIN inbox
        /\ t \in Types /\ n \in Nat
    BY Received, InMsgFields DEF TypeOK, MessageTypes
  <1>2. /\ stored \in [Types -> Seq(Nat)] /\ pipe \in Seq(PipeItem)
        /\ returned \in [Types -> SUBSET Nat] /\ sampled \in [Types -> Nat]
        /\ early \in [Types -> SUBSET Nat]
        /\ \A i \in DOMAIN pipe : pipe[i].type \in Types /\ pipe[i].item \in Nat
    BY PipeItems DEF TypeOK, RecordTypes
  <1>3. /\ n <= sampled[t]
        /\ \A r \in returned[t] : r < n
        /\ \A i \in DOMAIN pipe : pipe[i].type = t => pipe[i].item < n
        /\ \A j \in DOMAIN stored[t] : stored[t][j] < n
    BY <1>1 DEF RecordOrder, InboxAfterAll
  <1>4. \A u \in Types \ {t} : stored'[u] = stored[u]
    BY <1>1, <1>2
  <1>5. n \in early'[t] /\ \A u \in Types : early[u] \subseteq early'[u]
    BY <1>1, <1>2
  <1>6. \A j \in DOMAIN stored'[t] :
          /\ j \in DOMAIN stored[t]
          /\ j = 1 => stored'[t][j] = n
          /\ j # 1 => stored'[t][j] = stored[t][j]
    <2>1. stored'[t] = << n >> \o Tail(stored[t])
      BY <1>1, <1>2 DEF StoredHalf
    <2>2. stored[t] \in Seq(Nat) /\ stored[t] # << >>
      BY <1>1, <1>2, MaxRecordsAssumption
    <2>3. \A j \in DOMAIN (<< n >> \o Tail(stored[t])) :
            /\ j \in DOMAIN stored[t]
            /\ j = 1 => (<< n >> \o Tail(stored[t]))[j] = n
            /\ j # 1 => (<< n >> \o Tail(stored[t]))[j] = stored[t][j]
      BY <1>1, <2>2, FirstReplaced
    <2>4. QED
      BY <2>1, <2>3, Zenon
  <1>7. \A u \in Types : DOMAIN stored[u] \subseteq Nat /\ \A j \in DOMAIN stored[u] : stored[u][j] \in Nat
    BY <1>2
  <1>8. \A l \in DOMAIN inbox' : l + 1 \in DOMAIN inbox /\ inbox'[l] = inbox[l + 1] /\ 1 < l + 1
    BY <1>1
  <1>9. ReadBeforePipe' /\ PipeOrder'
    <2>1. ReadBeforePipe'
      <3> SUFFICES ASSUME NEW i \in DOMAIN pipe, NEW r \in returned[pipe[i].type]
                   PROVE  \/ r < pipe[i].item
                          \/ r \in early'[pipe[i].type] /\ r # pipe[i].item
        BY DEF ReadBeforePipe, Before
      <3>1. QED
        BY <1>2, <1>5 DEF RecordOrder, ReadBeforePipe, Before
    <2>2. PipeOrder'
      <3> SUFFICES ASSUME NEW i \in DOMAIN pipe, NEW j \in DOMAIN pipe, i < j,
                          pipe[i].type = pipe[j].type
                   PROVE  \/ pipe[i].item < pipe[j].item
                          \/ pipe[i].item \in early'[pipe[i].type] /\ pipe[i].item # pipe[j].item
        BY DEF PipeOrder, Before
      <3>1. QED
        BY <1>2, <1>5 DEF RecordOrder, PipeOrder, Before
    <2>3. QED
      BY <2>1, <2>2
  <1>10. ReadBeforeStored'
    <2> SUFFICES ASSUME NEW u \in Types, NEW j \in DOMAIN stored'[u], NEW r \in returned[u]
                 PROVE  r < stored'[u][j] \/ (r \in early'[u] /\ r # stored'[u][j])
      BY DEF ReadBeforeStored, Before
    <2>1. CASE u = t /\ j = 1
      BY <1>3, <1>6, <2>1
    <2>2. CASE ~(u = t /\ j = 1)
      <3>1. j \in DOMAIN stored[u] /\ stored'[u][j] = stored[u][j]
        BY <1>4, <1>6, <2>2
      <3>2. QED
        BY <1>5, <3>1 DEF RecordOrder, ReadBeforeStored, Before
    <2>3. QED
      BY <2>1, <2>2
  <1>11. PipeBeforeStored'
    <2> SUFFICES ASSUME NEW i \in DOMAIN pipe, NEW j \in DOMAIN stored'[pipe[i].type]
                 PROVE  \/ pipe[i].item < stored'[pipe[i].type][j]
                        \/ pipe[i].item \in early'[pipe[i].type] /\ pipe[i].item # stored'[pipe[i].type][j]
      BY ZenonT(30) DEF PipeBeforeStored, Before
    <2>1. CASE pipe[i].type = t /\ j = 1
      BY <1>3, <1>6, <2>1
    <2>2. CASE ~(pipe[i].type = t /\ j = 1)
      <3>1. j \in DOMAIN stored[pipe[i].type] /\ stored'[pipe[i].type][j] = stored[pipe[i].type][j]
        BY <1>2, <1>4, <1>6, <2>2
      <3>2. QED
        <4>1. Before(pipe[i].type, pipe[i].item, stored[pipe[i].type][j])
          BY <3>1 DEF RecordOrder, PipeBeforeStored
        <4>2. QED
          BY <1>2, <1>5, <3>1, <4>1 DEF Before
    <2>3. QED
      BY <2>1, <2>2
  <1>12. StoredOrder'
    <2> SUFFICES ASSUME NEW u \in Types, NEW i \in DOMAIN stored'[u], NEW j \in DOMAIN stored'[u], i < j
                 PROVE  \/ stored'[u][i] < stored'[u][j]
                        \/ stored'[u][i] \in early'[u] /\ stored'[u][i] # stored'[u][j]
      BY DEF StoredOrder, Before
    <2>1. j \in DOMAIN stored[u] /\ stored'[u][j] = stored[u][j]
      <3>1. CASE u = t
        BY <1>1, <1>6, <1>7, <3>1
      <3>2. CASE u # t
        BY <1>4, <3>2
      <3>3. QED
        BY <3>1, <3>2
    <2>2. CASE u = t /\ i = 1
      <3>1. stored'[t][i] = n /\ stored'[u][j] < n /\ stored'[u][j] \in Nat
        BY <1>3, <1>6, <1>7, <2>1, <2>2
      <3>2. QED
        BY <1>1, <1>5, <2>2, <3>1
    <2>3. CASE ~(u = t /\ i = 1)
      <3>1. i \in DOMAIN stored[u] /\ stored'[u][i] = stored[u][i]
        BY <1>4, <1>6, <2>3
      <3>2. QED
        BY <1>5, <2>1, <3>1 DEF RecordOrder, StoredOrder, Before
    <2>4. QED
      BY <2>2, <2>3
  <1>13. InboxAfterAll'
    <2> SUFFICES ASSUME NEW l \in DOMAIN inbox', inbox'[l].type = "DATA"
                 PROVE  /\ inbox'[l].item <= sampled'[inbox'[l].dt]
                        /\ \A r \in returned'[inbox'[l].dt] : r < inbox'[l].item
                        /\ \A i \in DOMAIN pipe' : pipe'[i].type = inbox'[l].dt =>
                             pipe'[i].item < inbox'[l].item
                        /\ \A j \in DOMAIN stored'[inbox'[l].dt] :
                             stored'[inbox'[l].dt][j] < inbox'[l].item
      BY DEF InboxAfterAll
    <2> DEFINE m == inbox[l + 1]
    <2>1. m = inbox'[l] /\ m.type = "DATA" /\ m.dt \in Types /\ l + 1 \in DOMAIN inbox
      BY <1>1, <1>8, InMsgFields
    <2>2. /\ m.item <= sampled[m.dt]
          /\ \A r \in returned[m.dt] : r < m.item
          /\ \A i \in DOMAIN pipe : pipe[i].type = m.dt => pipe[i].item < m.item
          /\ \A j \in DOMAIN stored[m.dt] : stored[m.dt][j] < m.item
      BY <2>1 DEF RecordOrder, InboxAfterAll
    <2>3. m.dt = t => n < m.item
      BY <1>1, <1>8, <2>1 DEF RecordOrder, InboxOrder
    <2>4. \A j \in DOMAIN stored'[m.dt] : stored'[m.dt][j] < m.item
      BY <1>4, <1>6, <2>1, <2>2, <2>3
    <2>5. QED
      BY <2>1, <2>2, <2>4
  <1>14. InboxOrder'
    BY <1>1, <1>8 DEF RecordOrder, InboxOrder
  <1>15. SampledLast'
    BY <1>3, <1>4, <1>6 DEF RecordOrder, SampledLast
  <1>16. QED
    BY <1>9, <1>10, <1>11, <1>12, <1>13, <1>14, <1>15 DEF RecordOrder

(* populate_pipe moves the oldest record of a type behind the pipe.        *)
LEMMA MovingARecord ==
  ASSUME TypeOK, TypeOK', RecordOrder, NEW t \in Types, stored[t] # << >>,
         pipe' = Append(pipe, Item(t, Head(stored[t]))),
         stored' = [stored EXCEPT ![t] = Tail(@)],
         UNCHANGED <<inbox, returned, sampled, early>>
  PROVE  RecordOrder'
  <1> DEFINE x == Head(stored[t])
             L == Len(pipe) + 1
  <1>1. /\ stored \in [Types -> Seq(Nat)] /\ stored[t] \in Seq(Nat) /\ pipe \in Seq(PipeItem)
        /\ returned \in [Types -> SUBSET Nat] /\ sampled \in [Types -> Nat] /\ inbox \in Seq(InMsg)
        /\ \A i \in DOMAIN pipe : pipe[i].type \in Types /\ pipe[i].item \in Nat
    BY PipeItems DEF TypeOK, RecordTypes, MessageTypes
  <1>2. x = stored[t][1] /\ 1 \in DOMAIN stored[t] /\ x \in Nat /\ Item(t, x) \in PipeItem
    BY <1>1, PipeItems
  <1>3. stored'[t] = Tail(stored[t]) /\ \A u \in Types \ {t} : stored'[u] = stored[u]
    BY <1>1
  <1>4. \A j \in DOMAIN stored'[t] :
          j + 1 \in DOMAIN stored[t] /\ stored'[t][j] = stored[t][j + 1] /\ 1 < j + 1
    BY <1>1, <1>3
  <1>5. /\ DOMAIN pipe' = DOMAIN pipe \union {L}
        /\ DOMAIN pipe = 1 .. Len(pipe) /\ Len(pipe) \in Nat
        /\ pipe'[L].type = t /\ pipe'[L].item = x
        /\ \A i \in DOMAIN pipe : pipe'[i] = pipe[i]
    <2>1. /\ DOMAIN Append(pipe, Item(t, x)) = DOMAIN pipe \union {L}
          /\ DOMAIN pipe = 1 .. Len(pipe) /\ Len(pipe) \in Nat
          /\ Append(pipe, Item(t, x))[L] = Item(t, x)
          /\ \A i \in DOMAIN pipe : Append(pipe, Item(t, x))[i] = pipe[i]
      BY <1>1, <1>2, AppendParts
    <2>2. Item(t, x).type = t /\ Item(t, x).item = x
      BY DEF Item
    <2>3. QED
      BY <2>1, <2>2, Zenon
  <1>6. /\ \A r \in returned[t] : Before(t, r, x)
        /\ \A i \in DOMAIN pipe : pipe[i].type = t => Before(t, pipe[i].item, x)
        /\ \A j \in DOMAIN stored'[t] : Before(t, x, stored'[t][j])
        /\ x <= sampled[t]
    <2>1. \A r \in returned[t] : Before(t, r, x)
      BY <1>2 DEF RecordOrder, ReadBeforeStored
    <2>2. \A i \in DOMAIN pipe : pipe[i].type = t => Before(t, pipe[i].item, x)
      BY <1>2 DEF RecordOrder, PipeBeforeStored
    <2>3. \A j \in DOMAIN stored'[t] : Before(t, x, stored'[t][j])
      BY <1>2, <1>4 DEF RecordOrder, StoredOrder
    <2>4. x <= sampled[t]
      BY <1>2 DEF RecordOrder, SampledLast
    <2>5. QED
      BY <2>1, <2>2, <2>3, <2>4
  <1>7. ReadBeforePipe'
    BY <1>5, <1>6 DEF RecordOrder, ReadBeforePipe, Before
  <1>8. PipeOrder'
    BY SMTT(30), <1>5, <1>6 DEF RecordOrder, PipeOrder, Before
  <1>9. ReadBeforeStored'
    BY <1>3, <1>4 DEF RecordOrder, ReadBeforeStored, Before
  <1>10. PipeBeforeStored'
    <2>1. \A i \in DOMAIN pipe : \A j \in DOMAIN stored'[pipe[i].type] :
            Before(pipe[i].type, pipe[i].item, stored'[pipe[i].type][j])
      BY SMTT(30), <1>1, <1>3, <1>4 DEF RecordOrder, PipeBeforeStored
    <2>2. QED
      BY SMTT(30), <1>5, <1>6, <2>1 DEF PipeBeforeStored, Before
  <1>11. StoredOrder'
    <2>1. \A a, b \in DOMAIN stored[t] : a < b => Before(t, stored[t][a], stored[t][b])
      BY DEF RecordOrder, StoredOrder
    <2>2. ASSUME NEW i \in DOMAIN stored'[t], NEW j \in DOMAIN stored'[t], i < j
          PROVE  Before(t, stored'[t][i], stored'[t][j])
      <3>1. i + 1 < j + 1
        BY <1>1, <1>3, <2>2
      <3>2. QED
        BY <1>4, <2>1, <3>1
    <2>3. QED
      BY <1>3, <2>2 DEF RecordOrder, StoredOrder, Before
  <1>12. InboxAfterAll'
    <2> SUFFICES ASSUME NEW l \in DOMAIN inbox, inbox[l].type = "DATA"
                 PROVE  /\ inbox[l].item <= sampled[inbox[l].dt]
                        /\ \A r \in returned[inbox[l].dt] : r < inbox[l].item
                        /\ \A i \in DOMAIN pipe' : pipe'[i].type = inbox[l].dt =>
                             pipe'[i].item < inbox[l].item
                        /\ \A j \in DOMAIN stored'[inbox[l].dt] :
                             stored'[inbox[l].dt][j] < inbox[l].item
      BY DEF InboxAfterAll
    <2>1. inbox[l].dt \in Types
      BY <1>1, InMsgFields
    <2>2. /\ inbox[l].item <= sampled[inbox[l].dt]
          /\ \A r \in returned[inbox[l].dt] : r < inbox[l].item
          /\ \A i \in DOMAIN pipe : pipe[i].type = inbox[l].dt => pipe[i].item < inbox[l].item
          /\ \A j \in DOMAIN stored[inbox[l].dt] : stored[inbox[l].dt][j] < inbox[l].item
      BY DEF RecordOrder, InboxAfterAll
    <2>3. \A i \in DOMAIN pipe' : pipe'[i].type = inbox[l].dt => pipe'[i].item < inbox[l].item
      BY <1>2, <1>5, <2>2
    <2>4. \A j \in DOMAIN stored'[inbox[l].dt] : stored'[inbox[l].dt][j] < inbox[l].item
      <3>1. CASE inbox[l].dt = t
        <4> SUFFICES ASSUME NEW j \in DOMAIN stored'[t] PROVE stored'[t][j] < inbox[l].item
          BY <3>1
        <4>1. j + 1 \in DOMAIN stored[t] /\ stored'[t][j] = stored[t][j + 1]
          BY <1>4
        <4>2. QED
          BY <2>2, <3>1, <4>1
      <3>2. CASE inbox[l].dt # t
        BY <1>3, <2>1, <2>2, <3>2
      <3>3. QED
        BY <3>1, <3>2
    <2>5. QED
      BY <2>2, <2>3, <2>4
  <1>13. InboxOrder'
    BY DEF RecordOrder, InboxOrder
  <1>14. SampledLast'
    BY <1>3, <1>4, <1>5, <1>6 DEF RecordOrder, SampledLast
  <1>15. QED
    BY <1>7, <1>8, <1>9, <1>10, <1>11, <1>12, <1>13, <1>14 DEF RecordOrder

(* storage_batch_read returns the first item of the pipe.                  *)
LEMMA ReadingAnItem ==
  ASSUME TypeOK, TypeOK', RecordOrder, pipe # << >>, pipe' = Tail(pipe),
         returned' = [returned EXCEPT ![Head(pipe).type] = @ \union {Head(pipe).item}],
         UNCHANGED <<stored, inbox, sampled, early>>
  PROVE  RecordOrder'
  <1> DEFINE t == Head(pipe).type
             x == Head(pipe).item
  <1>1. /\ pipe \in Seq(PipeItem) /\ Head(pipe) = pipe[1] /\ 1 \in DOMAIN pipe
        /\ t \in Types /\ x \in Nat /\ returned \in [Types -> SUBSET Nat] /\ inbox \in Seq(InMsg)
        /\ \A i \in DOMAIN pipe : pipe[i].type \in Types /\ pipe[i].item \in Nat
    BY PipeItems DEF TypeOK, RecordTypes, MessageTypes
  <1>2. \A i \in DOMAIN pipe' : i + 1 \in DOMAIN pipe /\ pipe'[i] = pipe[i + 1] /\ 1 < i + 1
    BY <1>1
  <1>3. returned'[t] = returned[t] \union {x} /\ \A u \in Types \ {t} : returned'[u] = returned[u]
    BY <1>1
  <1>4. /\ \A i \in DOMAIN pipe' : pipe'[i].type = t => Before(t, x, pipe'[i].item)
        /\ \A j \in DOMAIN stored[t] : Before(t, x, stored[t][j])
        /\ x <= sampled[t]
    BY <1>1, <1>2 DEF RecordOrder, PipeOrder, PipeBeforeStored, SampledLast
  <1>5. ReadBeforePipe'
    BY <1>1, <1>2, <1>3, <1>4 DEF RecordOrder, ReadBeforePipe, Before
  <1>6. PipeOrder'
    <2> SUFFICES ASSUME NEW i \in DOMAIN pipe', NEW j \in DOMAIN pipe', i < j,
                        pipe'[i].type = pipe'[j].type
                 PROVE  Before(pipe'[i].type, pipe'[i].item, pipe'[j].item)
      BY DEF PipeOrder, Before
    <2>1. i + 1 < j + 1
      BY <1>1
    <2>2. QED
      BY <1>2, <2>1 DEF RecordOrder, PipeOrder, Before
  <1>7. ReadBeforeStored'
    BY <1>3, <1>4 DEF RecordOrder, ReadBeforeStored, Before
  <1>8. PipeBeforeStored'
    <2> SUFFICES ASSUME NEW i \in DOMAIN pipe', NEW j \in DOMAIN stored[pipe'[i].type]
                 PROVE  Before(pipe'[i].type, pipe'[i].item, stored[pipe'[i].type][j])
      BY DEF PipeBeforeStored, Before
    <2>1. QED
      BY <1>2 DEF RecordOrder, PipeBeforeStored
  <1>9. StoredOrder' /\ InboxOrder'
    BY DEF RecordOrder, StoredOrder, InboxOrder, Before
  <1>10. InboxAfterAll'
    <2> SUFFICES ASSUME NEW l \in DOMAIN inbox, inbox[l].type = "DATA"
                 PROVE  /\ inbox[l].item <= sampled[inbox[l].dt]
                        /\ \A r \in returned'[inbox[l].dt] : r < inbox[l].item
                        /\ \A i \in DOMAIN pipe' : pipe'[i].type = inbox[l].dt =>
                             pipe'[i].item < inbox[l].item
                        /\ \A j \in DOMAIN stored[inbox[l].dt] :
                             stored[inbox[l].dt][j] < inbox[l].item
      BY DEF InboxAfterAll
    <2>1. inbox[l].dt \in Types
      BY <1>1, InMsgFields
    <2>2. /\ inbox[l].item <= sampled[inbox[l].dt]
          /\ \A r \in returned[inbox[l].dt] : r < inbox[l].item
          /\ \A i \in DOMAIN pipe : pipe[i].type = inbox[l].dt => pipe[i].item < inbox[l].item
          /\ \A j \in DOMAIN stored[inbox[l].dt] : stored[inbox[l].dt][j] < inbox[l].item
      BY DEF RecordOrder, InboxAfterAll
    <2>3. QED
      BY <1>1, <1>2, <1>3, <2>1, <2>2
  <1>11. SampledLast'
    BY <1>1, <1>2, <1>3, <1>4 DEF RecordOrder, SampledLast
  <1>12. QED
    BY <1>5, <1>6, <1>7, <1>8, <1>9, <1>10, <1>11 DEF RecordOrder

(* A new sample is the last of its type.                                   *)
LEMMA PublishingASample ==
  ASSUME TypeOK, TypeOK', RecordOrder, NEW t \in Types,
         inbox' = Append(inbox, Data(t, sampled[t] + 1)),
         sampled' = [sampled EXCEPT ![t] = @ + 1],
         UNCHANGED <<pipe, stored, returned, early>>
  PROVE  RecordOrder'
  <1> DEFINE n == sampled[t] + 1
             L == Len(inbox) + 1
  <1>1. /\ inbox \in Seq(InMsg) /\ sampled \in [Types -> Nat] /\ returned \in [Types -> SUBSET Nat]
        /\ stored \in [Types -> Seq(Nat)] /\ n \in Nat /\ Data(t, n) \in InMsg
        /\ \A i \in DOMAIN pipe : pipe[i].type \in Types /\ pipe[i].item \in Nat
    BY PipeItems, InMsgs DEF TypeOK, RecordTypes, MessageTypes
  <1>2. \A u \in Types : sampled[u] <= sampled'[u] /\ sampled[u] \in Nat /\ sampled'[u] \in Nat
    BY <1>1
  <1>3. sampled'[t] = n
    BY <1>1
  <1>4. /\ DOMAIN inbox' = DOMAIN inbox \union {L}
        /\ DOMAIN inbox = 1 .. Len(inbox) /\ Len(inbox) \in Nat
        /\ inbox'[L].type = "DATA" /\ inbox'[L].dt = t /\ inbox'[L].item = n
        /\ \A i \in DOMAIN inbox : inbox'[i] = inbox[i]
    <2>1. /\ DOMAIN Append(inbox, Data(t, n)) = DOMAIN inbox \union {L}
          /\ DOMAIN inbox = 1 .. Len(inbox) /\ Len(inbox) \in Nat
          /\ Append(inbox, Data(t, n))[L] = Data(t, n)
          /\ \A i \in DOMAIN inbox : Append(inbox, Data(t, n))[i] = inbox[i]
      BY <1>1, AppendParts
    <2>2. Data(t, n).type = "DATA" /\ Data(t, n).dt = t /\ Data(t, n).item = n
      BY DEF Data
    <2>3. QED
      BY <2>1, <2>2, Zenon
  <1>5. /\ \A r \in returned[t] : r < n
        /\ \A i \in DOMAIN pipe : pipe[i].type = t => pipe[i].item < n
        /\ \A j \in DOMAIN stored[t] : stored[t][j] < n
    BY <1>1 DEF RecordOrder, SampledLast
  <1>6. \A l \in DOMAIN inbox : inbox[l].type = "DATA" =>
          inbox[l].dt \in Types /\ inbox[l].item \in Nat /\ inbox[l].item <= sampled[inbox[l].dt]
    BY <1>1, InMsgFields DEF RecordOrder, InboxAfterAll
  <1>7. ReadBeforePipe' /\ PipeOrder' /\ ReadBeforeStored' /\ PipeBeforeStored' /\ StoredOrder'
    BY DEF RecordOrder, ReadBeforePipe, PipeOrder, ReadBeforeStored, PipeBeforeStored, StoredOrder,
           Before
  <1>8. InboxAfterAll'
    <2> SUFFICES ASSUME NEW l \in DOMAIN inbox', inbox'[l].type = "DATA"
                 PROVE  /\ inbox'[l].item <= sampled'[inbox'[l].dt]
                        /\ \A r \in returned[inbox'[l].dt] : r < inbox'[l].item
                        /\ \A i \in DOMAIN pipe : pipe[i].type = inbox'[l].dt =>
                             pipe[i].item < inbox'[l].item
                        /\ \A j \in DOMAIN stored[inbox'[l].dt] :
                             stored[inbox'[l].dt][j] < inbox'[l].item
      BY DEF InboxAfterAll
    <2>1. CASE l = L
      BY <1>1, <1>3, <1>4, <1>5, <2>1
    <2>2. CASE l \in DOMAIN inbox
      <3>1. /\ inbox[l].item <= sampled[inbox[l].dt]
            /\ \A r \in returned[inbox[l].dt] : r < inbox[l].item
            /\ \A i \in DOMAIN pipe : pipe[i].type = inbox[l].dt => pipe[i].item < inbox[l].item
            /\ \A j \in DOMAIN stored[inbox[l].dt] : stored[inbox[l].dt][j] < inbox[l].item
        BY <1>4, <2>2 DEF RecordOrder, InboxAfterAll
      <3>2. inbox[l].item <= sampled'[inbox[l].dt]
        BY <1>2, <1>4, <1>6, <2>2, <3>1
      <3>3. QED
        BY <1>4, <2>2, <3>1, <3>2
    <2>3. QED
      BY <1>4, <2>1, <2>2
  <1>9. InboxOrder'
    <2> SUFFICES ASSUME NEW k \in DOMAIN inbox', NEW l \in DOMAIN inbox', k < l,
                        inbox'[k].type = "DATA", inbox'[l].type = "DATA",
                        inbox'[k].dt = inbox'[l].dt
                 PROVE  inbox'[k].item < inbox'[l].item
      BY DEF InboxOrder
    <2>1. k \in DOMAIN inbox /\ inbox'[k] = inbox[k]
      BY <1>4
    <2>2. CASE l = L
      BY <1>1, <1>4, <1>6, <2>1, <2>2
    <2>3. CASE l \in DOMAIN inbox
      BY <1>4, <2>1, <2>3 DEF RecordOrder, InboxOrder
    <2>4. QED
      BY <1>4, <2>2, <2>3
  <1>10. SampledLast'
    BY <1>1, <1>2 DEF RecordOrder, SampledLast
  <1>11. QED
    BY <1>7, <1>8, <1>9, <1>10 DEF RecordOrder

-----------------------------------------------------------------------------
(* No step parts the reader and the pipe. *)
LEMMA AlignedStep ==
  ASSUME TypeOK, ReaderAligned, [Next]_vars
  PROVE  ReaderAligned'
  <1>1. CASE PassthroughDataMsg
    BY <1>1 DEF PassthroughDataMsg, ReaderAligned, readerVars
  <1>2. CASE HandleDataMessage
    BY <1>2 DEF HandleDataMessage, ReaderAligned, readerVars
  <1>3. CASE PassthroughRequest
    BY <1>3 DEF PassthroughRequest, ReaderAligned, readerVars
  <1>4. CASE BufferRequest
    BY <1>4 DEF BufferRequest, ReaderAligned, readerVars
  <1>5. CASE BatchRequest
    BY <1>5 DEF BatchRequest, ReaderAligned, readerVars, StartBatchSession, DrainPipe
  <1>6. CASE BatchClose
    BY <1>6 DEF BatchClose, ReaderAligned, readerVars, LeavePipeActive, DrainPipe
  <1>7. CASE SessionTimeout
    BY <1>7 DEF SessionTimeout, ReaderAligned, readerVars, LeavePipeActive, DrainPipe
  <1>8. CASE PopulateItem
    <2>1. CASE pipe = << >>
      BY <1>8, <2>1 DEF PopulateItem, ReaderAligned
    <2>2. CASE pipe # << >>
      <3>1. pipe' # << >> /\ Head(pipe') = Head(pipe)
        <4>1. PICK x : pipe' = Append(pipe, x)
          BY <1>8 DEF PopulateItem
        <4>2. pipe \in Seq(PipeItem)
          BY DEF TypeOK, RecordTypes
        <4>3. QED
          BY <2>2, <4>1, <4>2
      <3>2. QED
        BY <1>8, <3>1 DEF PopulateItem, ReaderAligned, readerVars
    <2>3. QED
      BY <2>1, <2>2
  <1>9. CASE PopulateNextType
    BY <1>9 DEF PopulateNextType, ReaderAligned, readerVars
  <1>10. CASE PopulateDone
    BY <1>10 DEF PopulateDone, ReaderAligned, readerVars
  <1>11. CASE PopulateError
    BY <1>11 DEF PopulateError, ReaderAligned, readerVars
  <1>12. CASE StorageClear
    BY <1>12 DEF StorageClear, ReaderAligned, readerVars
  <1>13. CASE FlushBegin
    BY <1>13 DEF FlushBegin, ReaderAligned, readerVars
  <1>14. CASE FlushItem
    BY <1>14 DEF FlushItem, ReaderAligned, readerVars
  <1>15. CASE FlushNextType
    BY <1>15 DEF FlushNextType, ReaderAligned, readerVars
  <1>16. CASE SessionTimeoutWork
    BY <1>16 DEF SessionTimeoutWork, ReaderAligned, readerVars
  <1>17. CASE ReadHeader
    BY <1>17 DEF ReadHeader, ReaderAligned, readerVars
  <1>18. CASE ReadData
    BY <1>18 DEF ReadData, ReaderAligned, readerVars
  <1>19. CASE ReadTorn
    BY <1>19 DEF ReadTorn, ReaderAligned, readerVars
  <1>20. CASE ReadTimeout
    BY <1>20 DEF ReadTimeout, ReaderAligned, readerVars
  <1>21. CASE PublishCommand
    BY <1>21 DEF PublishCommand, ReaderAligned, readerVars, Send
  <1>22. ASSUME NEW t \in Types, PublishSample(t) PROVE ReaderAligned'
    BY <1>22 DEF PublishSample, Send, ReaderAligned, readerVars
  <1>23. CASE UNCHANGED vars
    BY <1>23 DEF vars, ReaderAligned
  <1>24. QED
    BY <1>1, <1>2, <1>3, <1>4, <1>5, <1>6, <1>7, <1>8, <1>9, <1>10, <1>11, <1>12, <1>13, <1>14, <1>15, <1>16, <1>17, <1>18, <1>19, <1>20, <1>21, <1>22, <1>23
       DEF Next, StorageThread, Reader, Publishers

(* The reader and the pipe agree on where the next item starts.            *)
THEOREM ReaderAlwaysAligned == Spec => []ReaderAligned
<1>1. Init => ReaderAligned
  BY DEF Init, ReaderAligned
<1>2. ASSUME TypeOK, ReaderAligned, [Next]_vars PROVE ReaderAligned'
  BY <1>2, AlignedStep
<1>3. QED
  BY <1>1, <1>2, TypeCorrect, PTL DEF Spec

(* What most steps do to the records. *)
TakesAway ==
  /\ Later(pipe', pipe)
  /\ \A t \in Types : Later(stored'[t], stored[t])
  /\ SamplesLater(inbox', inbox)
  /\ UNCHANGED <<returned, sampled, early>>

LEMMA MostStepsTakeAway ==
  ASSUME TypeOK, [Next]_vars
  PROVE  \/ TakesAway
         \/ HandleDataMessage \/ PopulateItem \/ ReadData
         \/ \E t \in Types : PublishSample(t)
  <1>1. CASE PassthroughDataMsg
    <2>1. Later(pipe', pipe)
      BY <1>1, Unmoved DEF PassthroughDataMsg
    <2>2. \A t \in Types : Later(stored'[t], stored[t])
      BY <1>1, Unmoved DEF PassthroughDataMsg
    <2>3. SamplesLater(inbox', inbox)
      BY <1>1, Unmoved DEF PassthroughDataMsg, Consume, Receive
    <2>4. UNCHANGED <<returned, sampled, early>>
      BY <1>1 DEF PassthroughDataMsg, readerVars, historyVars
    <2>5. QED
      BY <2>1, <2>2, <2>3, <2>4 DEF TakesAway
  <1>2. CASE PassthroughRequest
    <2>1. Later(pipe', pipe)
      BY <1>2, Unmoved DEF PassthroughRequest
    <2>2. \A t \in Types : Later(stored'[t], stored[t])
      BY <1>2, Unmoved DEF PassthroughRequest
    <2>3. SamplesLater(inbox', inbox)
      BY <1>2, Unmoved DEF PassthroughRequest, Consume, Receive
    <2>4. UNCHANGED <<returned, sampled, early>>
      BY <1>2 DEF PassthroughRequest, readerVars, historyVars
    <2>5. QED
      BY <2>1, <2>2, <2>3, <2>4 DEF TakesAway
  <1>3. CASE BufferRequest
    <2>1. Later(pipe', pipe)
      BY <1>3, Unmoved DEF BufferRequest
    <2>2. \A t \in Types : Later(stored'[t], stored[t])
      BY <1>3, Unmoved DEF BufferRequest
    <2>3. SamplesLater(inbox', inbox)
      BY <1>3, Unmoved DEF BufferRequest, Consume, Receive
    <2>4. UNCHANGED <<returned, sampled, early>>
      BY <1>3 DEF BufferRequest, readerVars, historyVars
    <2>5. QED
      BY <2>1, <2>2, <2>3, <2>4 DEF TakesAway
  <1>4. CASE BatchRequest
    <2>1. Later(pipe', pipe)
      BY <1>4, Unmoved DEF BatchRequest, StartBatchSession, DrainPipe
    <2>2. \A t \in Types : Later(stored'[t], stored[t])
      BY <1>4, Unmoved DEF BatchRequest
    <2>3. SamplesLater(inbox', inbox)
      BY <1>4, Unmoved DEF BatchRequest, Consume, Receive
    <2>4. UNCHANGED <<returned, sampled, early>>
      BY <1>4 DEF BatchRequest, readerVars, historyVars
    <2>5. QED
      BY <2>1, <2>2, <2>3, <2>4 DEF TakesAway
  <1>5. CASE BatchClose
    <2>1. Later(pipe', pipe)
      BY <1>5, Unmoved DEF BatchClose, LeavePipeActive, DrainPipe
    <2>2. \A t \in Types : Later(stored'[t], stored[t])
      BY <1>5, Unmoved DEF BatchClose
    <2>3. SamplesLater(inbox', inbox)
      BY <1>5, Unmoved DEF BatchClose, Consume, Receive
    <2>4. UNCHANGED <<returned, sampled, early>>
      BY <1>5 DEF BatchClose, readerVars, historyVars
    <2>5. QED
      BY <2>1, <2>2, <2>3, <2>4 DEF TakesAway
  <1>6. CASE SessionTimeout
    <2>1. Later(pipe', pipe)
      BY <1>6, Unmoved DEF SessionTimeout, LeavePipeActive, DrainPipe
    <2>2. \A t \in Types : Later(stored'[t], stored[t])
      BY <1>6, Unmoved DEF SessionTimeout
    <2>3. SamplesLater(inbox', inbox)
      <3>1. Close(session.id) \in InMsg /\ Close(session.id).type # "DATA"
        BY InMsgs, Sessions DEF TypeOK, ControlTypes, Close
      <3>2. inbox \in Seq(InMsg) /\ inbox # << >>
        BY <1>6 DEF SessionTimeout, Receive, TypeOK, MessageTypes
      <3>3. SamplesLater(Append(Tail(inbox), Close(session.id)), inbox)
        BY <3>1, <3>2, SamplesLaterRules
      <3>4. SamplesLater(Tail(inbox), inbox)
        BY <3>2, SamplesLaterRules
      <3>5. QED
        BY <1>6, <3>3, <3>4, Zenon DEF SessionTimeout, Consume
    <2>4. UNCHANGED <<returned, sampled, early>>
      BY <1>6 DEF SessionTimeout, readerVars, historyVars
    <2>5. QED
      BY <2>1, <2>2, <2>3, <2>4 DEF TakesAway
  <1>7. CASE PopulateNextType
    <2>1. Later(pipe', pipe)
      BY <1>7, Unmoved DEF PopulateNextType
    <2>2. \A t \in Types : Later(stored'[t], stored[t])
      BY <1>7, Unmoved DEF PopulateNextType
    <2>3. SamplesLater(inbox', inbox)
      BY <1>7, Unmoved DEF PopulateNextType
    <2>4. UNCHANGED <<returned, sampled, early>>
      BY <1>7 DEF PopulateNextType, readerVars, historyVars
    <2>5. QED
      BY <2>1, <2>2, <2>3, <2>4 DEF TakesAway
  <1>8. CASE PopulateDone
    <2>1. Later(pipe', pipe)
      BY <1>8, Unmoved DEF PopulateDone
    <2>2. \A t \in Types : Later(stored'[t], stored[t])
      BY <1>8, Unmoved DEF PopulateDone
    <2>3. SamplesLater(inbox', inbox)
      BY <1>8, Unmoved DEF PopulateDone
    <2>4. UNCHANGED <<returned, sampled, early>>
      BY <1>8 DEF PopulateDone, readerVars, historyVars
    <2>5. QED
      BY <2>1, <2>2, <2>3, <2>4 DEF TakesAway
  <1>9. CASE PopulateError
    <2>1. Later(pipe', pipe)
      BY <1>9, Unmoved DEF PopulateError
    <2>2. \A t \in Types : Later(stored'[t], stored[t])
      BY <1>9, FailedRetrieves, Unmoved, OneLess DEF TakeOldest
    <2>3. SamplesLater(inbox', inbox)
      BY <1>9, Unmoved DEF PopulateError
    <2>4. UNCHANGED <<returned, sampled, early>>
      BY <1>9 DEF PopulateError, readerVars, historyVars
    <2>5. QED
      BY <2>1, <2>2, <2>3, <2>4 DEF TakesAway
  <1>10. CASE StorageClear
    <2>1. Later(pipe', pipe)
      BY <1>10, Unmoved DEF StorageClear
    <2>2. \A t \in Types : Later(stored'[t], stored[t])
      <3>1. CASE UNCHANGED stored
        BY <3>1, Unmoved
      <3>2. CASE stored' = [t \in Types |-> << >>]
        BY <3>2, LaterRules DEF TypeOK, RecordTypes
      <3>3. QED
        BY <1>10, <3>1, <3>2 DEF StorageClear
    <2>3. SamplesLater(inbox', inbox)
      BY <1>10, Unmoved DEF StorageClear, Consume, Receive
    <2>4. UNCHANGED <<returned, sampled, early>>
      BY <1>10 DEF StorageClear, readerVars, historyVars
    <2>5. QED
      BY <2>1, <2>2, <2>3, <2>4 DEF TakesAway
  <1>11. CASE FlushBegin
    <2>1. Later(pipe', pipe)
      BY <1>11, Unmoved DEF FlushBegin
    <2>2. \A t \in Types : Later(stored'[t], stored[t])
      BY <1>11, Unmoved DEF FlushBegin
    <2>3. SamplesLater(inbox', inbox)
      BY <1>11, Unmoved DEF FlushBegin, Consume, Receive
    <2>4. UNCHANGED <<returned, sampled, early>>
      BY <1>11 DEF FlushBegin, readerVars, historyVars
    <2>5. QED
      BY <2>1, <2>2, <2>3, <2>4 DEF TakesAway
  <1>12. CASE FlushItem
    <2>1. Later(pipe', pipe)
      BY <1>12, Unmoved DEF FlushItem
    <2>2. \A t \in Types : Later(stored'[t], stored[t])
      BY <1>12, OneLess DEF FlushItem, TakeOldest
    <2>3. SamplesLater(inbox', inbox)
      BY <1>12, Unmoved DEF FlushItem
    <2>4. UNCHANGED <<returned, sampled, early>>
      BY <1>12 DEF FlushItem, readerVars, historyVars
    <2>5. QED
      BY <2>1, <2>2, <2>3, <2>4 DEF TakesAway
  <1>13. CASE FlushNextType
    <2>1. Later(pipe', pipe)
      BY <1>13, Unmoved DEF FlushNextType
    <2>2. \A t \in Types : Later(stored'[t], stored[t])
      BY <1>13, FailedRetrieves, Unmoved, OneLess DEF TakeOldest
    <2>3. SamplesLater(inbox', inbox)
      BY <1>13, Unmoved DEF FlushNextType
    <2>4. UNCHANGED <<returned, sampled, early>>
      BY <1>13 DEF FlushNextType, readerVars, historyVars
    <2>5. QED
      BY <2>1, <2>2, <2>3, <2>4 DEF TakesAway
  <1>14. CASE SessionTimeoutWork
    <2>1. Later(pipe', pipe)
      BY <1>14, Unmoved DEF SessionTimeoutWork
    <2>2. \A t \in Types : Later(stored'[t], stored[t])
      BY <1>14, Unmoved DEF SessionTimeoutWork
    <2>3. SamplesLater(inbox', inbox)
      <3>1. Command("SESSION_TIMEOUT") \in InMsg /\ Command("SESSION_TIMEOUT").type # "DATA"
        BY InMsgs DEF Commands, Command
      <3>2. inbox \in Seq(InMsg)
        BY DEF TypeOK, MessageTypes
      <3>3. SamplesLater(Append(inbox, Command("SESSION_TIMEOUT")), inbox)
        BY <3>1, <3>2, SamplesLaterRules
      <3>4. QED
        BY <1>14, <3>2, <3>3, SamplesLaterRules, Zenon DEF SessionTimeoutWork
    <2>4. UNCHANGED <<returned, sampled, early>>
      BY <1>14 DEF SessionTimeoutWork, readerVars, historyVars
    <2>5. QED
      BY <2>1, <2>2, <2>3, <2>4 DEF TakesAway
  <1>15. CASE ReadHeader
    <2>1. Later(pipe', pipe)
      BY <1>15, Unmoved DEF ReadHeader
    <2>2. \A t \in Types : Later(stored'[t], stored[t])
      BY <1>15, Unmoved DEF ReadHeader
    <2>3. SamplesLater(inbox', inbox)
      BY <1>15, Unmoved DEF ReadHeader
    <2>4. UNCHANGED <<returned, sampled, early>>
      BY <1>15 DEF ReadHeader, readerVars, historyVars
    <2>5. QED
      BY <2>1, <2>2, <2>3, <2>4 DEF TakesAway
  <1>16. CASE ReadTorn
    <2>1. Later(pipe', pipe)
      BY <1>16, Unmoved DEF ReadTorn
    <2>2. \A t \in Types : Later(stored'[t], stored[t])
      BY <1>16, Unmoved DEF ReadTorn
    <2>3. SamplesLater(inbox', inbox)
      BY <1>16, Unmoved DEF ReadTorn
    <2>4. UNCHANGED <<returned, sampled, early>>
      BY <1>16 DEF ReadTorn, readerVars, historyVars
    <2>5. QED
      BY <2>1, <2>2, <2>3, <2>4 DEF TakesAway
  <1>17. CASE ReadTimeout
    <2>1. Later(pipe', pipe)
      BY <1>17, Unmoved DEF ReadTimeout
    <2>2. \A t \in Types : Later(stored'[t], stored[t])
      BY <1>17, Unmoved DEF ReadTimeout
    <2>3. SamplesLater(inbox', inbox)
      BY <1>17, Unmoved DEF ReadTimeout
    <2>4. UNCHANGED <<returned, sampled, early>>
      BY <1>17 DEF ReadTimeout, readerVars, historyVars
    <2>5. QED
      BY <2>1, <2>2, <2>3, <2>4 DEF TakesAway
  <1>18. CASE PublishCommand
    <2>1. Later(pipe', pipe)
      BY <1>18, Unmoved DEF PublishCommand, Send
    <2>2. \A t \in Types : Later(stored'[t], stored[t])
      BY <1>18, Unmoved DEF PublishCommand, Send
    <2>3. SamplesLater(inbox', inbox)
      <3>1. \A id \in SessionIds : /\ Request(id) \in InMsg /\ Request(id).type # "DATA"
                                  /\ Close(id) \in InMsg /\ Close(id).type # "DATA"
        BY InMsgs, SessionIdsAssumption DEF Request, Close
      <3>2. \A c \in Commands : Command(c) \in InMsg /\ Command(c).type # "DATA"
        BY InMsgs DEF Commands, Command
      <3>3. PICK m \in InMsg : m.type # "DATA" /\ inbox' = Append(inbox, m)
        BY <1>18, <3>1, <3>2 DEF PublishCommand, Send
      <3>4. QED
        BY <3>3, SamplesLaterRules DEF TypeOK, MessageTypes
    <2>4. UNCHANGED <<returned, sampled, early>>
      BY <1>18 DEF PublishCommand, Send, readerVars, historyVars
    <2>5. QED
      BY <2>1, <2>2, <2>3, <2>4 DEF TakesAway
  <1>19. CASE UNCHANGED vars
    <2>1. Later(pipe', pipe) /\ SamplesLater(inbox', inbox)
      BY <1>19, Unmoved DEF vars
    <2>2. \A t \in Types : Later(stored'[t], stored[t])
      BY <1>19, Unmoved DEF vars
    <2>3. QED
      BY <1>19, <2>1, <2>2 DEF vars, TakesAway
  <1>20. QED
    BY <1>1, <1>2, <1>3, <1>4, <1>5, <1>6, <1>7, <1>8, <1>9, <1>10, <1>11, <1>12, <1>13, <1>14, <1>15, <1>16, <1>17, <1>18, <1>19
       DEF Next, StorageThread, Reader, Publishers

(* No step breaks the order. *)
LEMMA OrderStep ==
  ASSUME TypeOK, TypeOK', ReaderAligned, RecordOrder, [Next]_vars
  PROVE  RecordOrder'
  <1>1. CASE HandleDataMessage
    <2> DEFINE t == Head(inbox).dt
               n == Head(inbox).item
    <2>1. /\ inbox \in Seq(InMsg) /\ inbox # << >> /\ Head(inbox) = inbox[1] /\ 1 \in DOMAIN inbox
          /\ Head(inbox).type = "DATA" /\ t \in Types /\ n \in Nat
      BY <1>1, Received, InMsgFields DEF HandleDataMessage, Receive, TypeOK, MessageTypes
    <2>2. CASE UNCHANGED <<stored, early>>
      <3>1. Later(pipe', pipe) /\ SamplesLater(inbox', inbox)
        BY <1>1, Unmoved DEF HandleDataMessage, Consume, Receive
      <3>2. \A u \in Types : Later(stored'[u], stored[u])
        BY <2>2, Unmoved
      <3>3. QED
        BY <1>1, <2>2, <3>1, <3>2, TakingAway DEF HandleDataMessage, readerVars
    <2>3. CASE stored' = [stored EXCEPT ![t] = Stored(stored[t], n)] /\ UNCHANGED early
      BY <1>1, <2>1, <2>3, StoringASample DEF HandleDataMessage, Consume, readerVars
    <2>4. CASE /\ Len(stored[t]) = MaxRecords
               /\ stored' = [stored EXCEPT ![t] = StoredHalf(stored[t], n)]
               /\ early' = [early EXCEPT ![t] = early[t] \union {n}]
      BY <1>1, <2>1, <2>4, HalfStoringASample DEF HandleDataMessage, Consume, readerVars
    <2>5. QED
      BY <1>1, <2>2, <2>3, <2>4 DEF HandleDataMessage
  <1>2. CASE PopulateItem
    BY <1>2, MovingARecord DEF PopulateItem, TakeOldest, readerVars, historyVars
  <1>3. CASE ReadData
    <2>1. pipe # << >> /\ reader = Head(pipe).type
      BY <1>3 DEF ReadData, ReaderAligned
    <2>2. returned' = [returned EXCEPT ![Head(pipe).type] = @ \union {Head(pipe).item}]
      BY <1>3, <2>1 DEF ReadData
    <2>3. QED
      BY <1>3, <2>1, <2>2, ReadingAnItem DEF ReadData, historyVars
  <1>4. ASSUME NEW t \in Types, PublishSample(t) PROVE RecordOrder'
    BY <1>4, PublishingASample DEF PublishSample, Send, readerVars
  <1>5. CASE TakesAway
    BY <1>5, TakingAway DEF TakesAway
  <1>6. QED
    BY MostStepsTakeAway, <1>1, <1>2, <1>3, <1>4, <1>5

LEMMA StorageInit ==
  ASSUME Init
  PROVE  TypeOK /\ ReaderAligned /\ RecordOrder
  <1>1. TypeOK
    BY ModeAssumption, NTypesAssumption, Sessions, Loops
       DEF Init, TypeOK, ControlTypes, MessageTypes, RecordTypes, Types
  <1>2. ReaderAligned
    BY DEF Init, ReaderAligned
  <1>3. RecordOrder
    BY DEF Init, RecordOrder, ReadBeforePipe, PipeOrder, ReadBeforeStored, PipeBeforeStored,
           StoredOrder, InboxAfterAll, InboxOrder, SampledLast
  <1>4. QED
    BY <1>1, <1>2, <1>3

(* No batch, refresh, timeout, overflow, clear, error or read gives a      *)
(* record twice, and none but a failed store gives one out of the order of *)
(* sampling.                                                               *)
THEOREM RecordsInOrder == Spec => []RecordOrder
<1>1. Init => RecordOrder
  BY StorageInit
<1>2. ASSUME TypeOK, TypeOK', ReaderAligned, RecordOrder, [Next]_vars PROVE RecordOrder'
  BY <1>2, OrderStep
<1>3. QED
  BY <1>1, <1>2, TypeCorrect, ReaderAlwaysAligned, PTL DEF Spec

(* No record comes early out of a backend whose stores do not fail.        *)
LEMMA NoneEarlyStep ==
  ASSUME ~BackendFails, [Next]_vars
  PROVE  UNCHANGED early
  BY DEF Next, StorageThread, PassthroughDataMsg, HandleDataMessage, PassthroughRequest,
         BufferRequest, BatchRequest, BatchClose, SessionTimeout, PopulateItem,
         PopulateNextType, PopulateDone, PopulateError, StorageClear, FlushBegin, FlushItem,
         FlushNextType, SessionTimeoutWork, Reader, ReadHeader, ReadData, ReadTorn,
         ReadTimeout, Publishers, PublishCommand, PublishSample, Send, vars, historyVars

StrictOrder ==
  RecordOrder /\ \A t \in Types : \A m, n \in Nat : Before(t, m, n) <=> m < n

(* With a backend that does not fail, as the RAM backend, the order of     *)
(* RecordOrder is the order of sampling, without exception.                *)
THEOREM WorkingBackendKeepsOrder ==
  ASSUME ~BackendFails
  PROVE  Spec => []StrictOrder
<1> DEFINE NoneEarly == \A t \in Types : early[t] = {}
<1>1. Init => NoneEarly
  BY DEF Init
<1>2. NoneEarly /\ [Next]_vars => NoneEarly'
  BY NoneEarlyStep
<1>3. RecordOrder /\ NoneEarly => StrictOrder
  BY DEF StrictOrder, Before
<1>4. QED
  BY <1>1, <1>2, <1>3, RecordsInOrder, PTL DEF Spec

-----------------------------------------------------------------------------
(* What BATCH_AVAILABLE says.                                              *)

(* While the pipe is populated, the session has counted what is in it, and *)
(* knows of the types that it is done with whether it left records.        *)
CountsSoFar ==
  batch.op = "populate" =>
    /\ batch.type # 0
    /\ Len(pipe) <= session.sent
    /\ session.more = "yes" <=> \E t \in Types : t < batch.type /\ stored[t] # <<>>

LEMMA CountsStep ==
  ASSUME TypeOK, CountsSoFar, [Next]_vars
  PROVE  CountsSoFar'
  <1> SUFFICES ASSUME batch'.op = "populate"
               PROVE  /\ batch'.type # 0
                      /\ Len(pipe') <= session'.sent
                      /\ session'.more = "yes" <=>
                           \E t \in Types : t < batch'.type /\ stored'[t] # <<>>
    BY DEF CountsSoFar
  <1>0. /\ pipe \in Seq(PipeItem) /\ stored \in [Types -> Seq(Nat)]
        /\ session \in Session /\ batch \in Loop
    BY DEF TypeOK, RecordTypes, ControlTypes
  <1>1. CASE BatchRequest
    <2>1. /\ session' = [id |-> Head(inbox).id, sent |-> 0, more |-> "no"]
          /\ pipe' = <<>> /\ batch'.type = 1
      BY <1>1 DEF BatchRequest, Receive, StartBatchSession, DrainPipe, Batch, NoBatch
    <2>2. \A t \in Types : ~(t < 1)
      BY DEF Types
    <2> QED
      BY <2>1, <2>2
  <1>2. CASE PopulateItem
    <2>1. /\ batch.op = "populate" /\ batch.type \in Types
          /\ session'.sent = session.sent + 1 /\ session'.more = session.more
          /\ batch'.type = batch.type
      BY <1>0, <1>2 DEF PopulateItem, Session, Loop
    <2>2. Len(pipe') = Len(pipe) + 1
      BY <1>0, <1>2 DEF PopulateItem
    <2>3. \A t \in Types : t < batch.type => stored'[t] = stored[t]
      BY <1>0, <1>2 DEF PopulateItem, TakeOldest, Types
    <2>4. Len(pipe) \in Nat /\ session.sent \in Nat
      BY <1>0 DEF Session
    <2> QED
      BY <2>1, <2>2, <2>3, <2>4 DEF CountsSoFar
  <1>3. CASE PopulateNextType
    <2>1. /\ batch.op = "populate" /\ batch.type \in Types /\ UNCHANGED <<pipe, stored>>
          /\ batch'.type = batch.type + 1 /\ session'.sent = session.sent
          /\ session'.more = IF stored[batch.type] = <<>> THEN session.more ELSE "yes"
      BY <1>0, <1>3 DEF PopulateNextType, Session, Loop
    <2>2. \A t \in Types : t < batch.type + 1 <=> t < batch.type \/ t = batch.type
      BY <2>1 DEF Types
    <2> QED
      <3>1. batch'.type # 0 /\ Len(pipe') <= session'.sent
        BY <2>1 DEF CountsSoFar, Types
      <3>2. (session'.more = "yes") <=> (session.more = "yes" \/ stored[batch.type] # <<>>)
        BY <2>1
      <3>3. (\E t \in Types : t < batch.type + 1 /\ stored[t] # <<>>)
              <=> \/ \E t \in Types : t < batch.type /\ stored[t] # <<>>
                  \/ stored[batch.type] # <<>>
        BY <2>1, <2>2
      <3> QED
        BY <2>1, <3>1, <3>2, <3>3 DEF CountsSoFar
  <1>4. CASE ReadData \/ ReadTorn
    <2>1. UNCHANGED <<batch, session, stored>> /\ pipe # <<>> /\ pipe' \in {pipe, Tail(pipe)}
      BY <1>4 DEF ReadData, ReadTorn
    <2>2. Len(Tail(pipe)) <= Len(pipe)
      BY <1>0, <2>1
    <2>3. Len(pipe) \in Nat /\ Len(Tail(pipe)) \in Nat /\ session.sent \in Nat
      BY <1>0, <2>1 DEF Session
    <2> QED
      BY <2>1, <2>2, <2>3 DEF CountsSoFar
  <1>5. CASE \/ SessionTimeoutWork \/ ReadHeader \/ ReadTimeout \/ Publishers
             \/ UNCHANGED vars
    <2>1. UNCHANGED <<batch, session, stored, pipe>>
      BY <1>5 DEF SessionTimeoutWork, ReadHeader, ReadTimeout, Publishers, PublishCommand,
                  PublishSample, Send, vars
    <2> QED
      BY <2>1 DEF CountsSoFar
  <1>6. ~ \/ PassthroughDataMsg \/ HandleDataMessage \/ PassthroughRequest \/ BufferRequest
          \/ BatchClose \/ SessionTimeout \/ StorageClear
    BY DEF PassthroughDataMsg, HandleDataMessage, PassthroughRequest, BufferRequest,
           BatchClose, SessionTimeout, StorageClear, Receive, NoBatch
  <1>7. ~(PopulateDone \/ PopulateError \/ FlushBegin \/ FlushItem \/ FlushNextType)
    <2>1. batch' = NoBatch => batch'.op # "populate"
      BY DEF NoBatch
    <2>2. batch.op = "flush" => [batch EXCEPT !.type = @ + 1].op = "flush"
      BY <1>0 DEF Loop
    <2>3. Batch("flush", "run").op = "flush"
      BY DEF Batch
    <2> QED
      BY <2>1, <2>2, <2>3 DEF PopulateDone, PopulateError, FlushBegin, FlushItem, FlushNextType
  <1> QED
    BY <1>1, <1>2, <1>3, <1>4, <1>5, <1>6, <1>7 DEF Next, StorageThread, Reader

LEMMA CountsHold == Spec => [](TypeOK /\ CountsSoFar)
  <1>1. Init => CountsSoFar
    BY DEF Init, CountsSoFar, NoBatch
  <1> QED
    BY <1>1, CountsStep, TypeCorrect, PTL DEF Spec

(* Only the end of populate_pipe announces a batch. *)
LEMMA AvailableStep ==
  ASSUME TypeOK, CountsSoFar, AvailableIsTrue, [Next]_vars
  PROVE  AvailableIsTrue'
  <1>1. CASE PopulateDone
    <2>1. /\ published' = <<Available(session.id, session.sent, session.more)>>
          /\ UNCHANGED <<session, pipe, stored>>
          /\ batch.op = "populate" /\ batch.type \notin Types
      BY <1>1 DEF PopulateDone, Publish
    <2>2. \A t \in Types : t < batch.type
      <3>1. batch.type \in 0 .. NTypes + 1 /\ batch.type # 0 /\ batch.type \notin 1 .. NTypes
        BY <2>1 DEF TypeOK, ControlTypes, Loop, Types, CountsSoFar
      <3>2. batch.type = NTypes + 1
        BY <3>1, NTypesAssumption
      <3> QED
        BY <3>2, NTypesAssumption DEF Types
    <2>3. session.more = "yes" <=> \E t \in Types : stored[t] # <<>>
      BY <2>1, <2>2 DEF CountsSoFar
    <2>4. Len(pipe) <= session.sent
      BY <2>1 DEF CountsSoFar
    <2>5. \A i \in DOMAIN published' :
            published'[i] = Available(session.id, session.sent, session.more)
      BY <2>1
    <2> QED
      BY <2>1, <2>3, <2>4, <2>5 DEF AvailableIsTrue, Available
  <1>2. CASE UNCHANGED vars
    BY <1>2 DEF vars, AvailableIsTrue
  <1>3. ASSUME Next, ~PopulateDone
        PROVE  \A i \in DOMAIN published' : published'[i].type # "BATCH_AVAILABLE"
    <2> USE DEF Publish, Confirm, Refusal, Response, Confirmation, StorageData, Close
    <2>1. CASE \/ PassthroughDataMsg \/ HandleDataMessage \/ PassthroughRequest
               \/ BufferRequest
      BY <2>1 DEF PassthroughDataMsg, HandleDataMessage, PassthroughRequest, BufferRequest
    <2>2. CASE BatchRequest
      BY <2>2 DEF BatchRequest, StartBatchSession
    <2>3. CASE BatchClose \/ SessionTimeout \/ SessionTimeoutWork
      BY <2>3 DEF BatchClose, SessionTimeout, SessionTimeoutWork
    <2>4. CASE PopulateItem \/ PopulateNextType \/ PopulateError
      BY <2>4 DEF PopulateItem, PopulateNextType, PopulateError
    <2>5. CASE StorageClear \/ FlushBegin \/ FlushItem \/ FlushNextType
      BY <2>5 DEF StorageClear, FlushBegin, FlushItem, FlushNextType
    <2>6. CASE Reader \/ Publishers
      <3>1. published' = <<>>
        BY <2>6 DEF Reader, ReadHeader, ReadData, ReadTorn, ReadTimeout, Publishers,
                    PublishCommand, PublishSample, Send
      <3> QED
        BY <3>1
    <2> QED
      BY <1>3, <2>1, <2>2, <2>3, <2>4, <2>5, <2>6 DEF Next, StorageThread
  <1> QED
    BY <1>1, <1>2, <1>3 DEF AvailableIsTrue

(* BATCH_AVAILABLE announces at least what is in the pipe, and more data   *)
(* exactly when records were left in the backend.                          *)
THEOREM AvailableAlwaysTrue == Spec => []AvailableIsTrue
  <1>1. Init => AvailableIsTrue
    BY DEF Init, AvailableIsTrue
  <1> QED
    BY <1>1, AvailableStep, CountsHold, PTL DEF Spec
-----------------------------------------------------------------------------
(* What becomes of the records of the backend.                             *)

LEMMA BackendSteps ==
  ASSUME [Next]_vars
  PROVE  \/ HandleDataMessage \/ PopulateItem \/ FlushItem \/ StorageClear \/ UNCHANGED stored
         \/ /\ BackendFails /\ (PopulateError \/ FlushNextType)
            /\ batch.type \in Types /\ TakeOldest(batch.type)
  BY DEF Next, StorageThread, PassthroughDataMsg, PassthroughRequest, BufferRequest, BatchRequest,
         BatchClose, SessionTimeout, PopulateNextType, PopulateDone, PopulateError, FlushBegin,
         FlushNextType, SessionTimeoutWork, Reader, ReadHeader, ReadData, ReadTorn, ReadTimeout,
         Publishers, PublishCommand, PublishSample, Send, vars, ReadFails, RetrieveFails

(* A record that is not in the queue any more was its head. *)
LEMMA LeftByTheHead ==
  ASSUME NEW S, NEW s \in Seq(S), NEW j \in DOMAIN s, \A k \in DOMAIN Tail(s) : Tail(s)[k] # s[j]
  PROVE  j = 1 /\ s[j] = Head(s)
  <1>1. s # <<>> /\ j \in Nat /\ 1 <= j /\ j <= Len(s)
    OBVIOUS
  <1>2. j - 1 \in Nat /\ (j # 1 => j - 1 \in DOMAIN Tail(s) /\ Tail(s)[j - 1] = s[j])
    BY <1>1
  <1> QED
    BY <1>1, <1>2

LEMMA LeftByStoring ==
  ASSUME NEW s \in Seq(Nat), NEW n \in Nat, Len(s) <= MaxRecords, NEW j \in DOMAIN s,
         \A k \in DOMAIN Stored(s, n) : Stored(s, n)[k] # s[j]
  PROVE  j = 1 /\ Len(s) = MaxRecords
  <1>1. \A r \in Seq(Nat) : \A k \in DOMAIN r :
          k \in DOMAIN Append(r, n) /\ Append(r, n)[k] = r[k]
    OBVIOUS
  <1>2. CASE Len(s) < MaxRecords
    BY <1>1, <1>2 DEF Stored
  <1>3. CASE ~(Len(s) < MaxRecords)
    <2>1. s # <<>> /\ Tail(s) \in Seq(Nat)
      BY HeadTail
    <2>2. \A k \in DOMAIN Tail(s) : Tail(s)[k] # s[j]
      BY <1>1, <1>3, <2>1 DEF Stored
    <2>3. Len(s) = MaxRecords
      BY <1>3, MaxRecordsAssumption
    <2> QED
      BY <2>2, <2>3, LeftByTheHead
  <1> QED
    BY <1>2, <1>3

LEMMA LeftByHalfStoring ==
  ASSUME NEW s \in Seq(Nat), NEW n \in Nat, Len(s) = MaxRecords, NEW j \in DOMAIN s,
         \A k \in DOMAIN StoredHalf(s, n) : StoredHalf(s, n)[k] # s[j]
  PROVE  j = 1
  <1>1. s # <<>>
    BY MaxRecordsAssumption
  <1>2. j # 1 => j \in DOMAIN StoredHalf(s, n) /\ StoredHalf(s, n)[j] = s[j]
    BY <1>1 DEF StoredHalf
  <1> QED
    BY <1>2

(* A record leaves the backend into the pipe or as STORAGE_DATA, unless it *)
(* is the oldest of a full backend or of a type whose retrieval fails, or  *)
(* the backend is cleared.                                                 *)
THEOREM RecordsAlwaysLeaveByDelivery == Spec => RecordsLeaveByDelivery
  <1> DEFINE Leaves(t, j) ==
        LET n == stored[t][j] IN
          (\A k \in DOMAIN stored'[t] : stored'[t][k] # n) =>
             \/ \E i \in DOMAIN pipe' : pipe'[i] = Item(t, n)
             \/ \E i \in DOMAIN published' : published'[i] = StorageData(t, n)
             \/ j = 1 /\ Len(stored[t]) = MaxRecords /\ HandleDataMessage
             \/ j = 1 /\ BackendFails /\ batch.type = t /\ (PopulateError \/ FlushNextType)
             \/ mode # "PIPE_ACTIVE" /\ StorageClear
  <1>1. TypeOK /\ BackendBounded /\ [Next]_vars
          => [\A t \in Types : \A j \in DOMAIN stored[t] : Leaves(t, j)]_vars
    <2> SUFFICES ASSUME TypeOK, BackendBounded, [Next]_vars,
                        NEW t \in Types, NEW j \in DOMAIN stored[t],
                        \A k \in DOMAIN stored'[t] : stored'[t][k] # stored[t][j]
                 PROVE  \/ \E i \in DOMAIN pipe' : pipe'[i] = Item(t, stored[t][j])
                        \/ \E i \in DOMAIN published' :
                             published'[i] = StorageData(t, stored[t][j])
                        \/ j = 1 /\ Len(stored[t]) = MaxRecords /\ HandleDataMessage
                        \/ /\ j = 1 /\ BackendFails /\ batch.type = t
                           /\ PopulateError \/ FlushNextType
                        \/ mode # "PIPE_ACTIVE" /\ StorageClear
      OBVIOUS
    <2>0. /\ stored \in [Types -> Seq(Nat)] /\ stored[t] \in Seq(Nat)
          /\ Len(stored[t]) <= MaxRecords /\ pipe \in Seq(PipeItem)
      BY DEF TypeOK, RecordTypes, BackendBounded
    <2>1. stored'[t] # stored[t]
      OBVIOUS
    <2>2. CASE HandleDataMessage
      <3> DEFINE m == Head(inbox)
      <3>1. m.dt \in Types /\ m.item \in Nat
        BY <2>2, Received, InMsgFields DEF HandleDataMessage, Receive, TypeOK
      <3>2. \/ stored' = [stored EXCEPT ![m.dt] = Stored(@, m.item)]
            \/ /\ Len(stored[m.dt]) = MaxRecords
               /\ stored' = [stored EXCEPT ![m.dt] = StoredHalf(@, m.item)]
        BY <2>1, <2>2 DEF HandleDataMessage
      <3>3. \/ stored'[t] = Stored(stored[t], m.item)
            \/ Len(stored[t]) = MaxRecords /\ stored'[t] = StoredHalf(stored[t], m.item)
        BY <2>0, <2>1, <3>1, <3>2
      <3>4. CASE stored'[t] = Stored(stored[t], m.item)
        BY <2>0, <2>2, <3>1, <3>4, LeftByStoring
      <3>5. CASE Len(stored[t]) = MaxRecords /\ stored'[t] = StoredHalf(stored[t], m.item)
        BY <2>0, <2>2, <3>1, <3>5, LeftByHalfStoring
      <3> QED
        BY <3>3, <3>4, <3>5
    <2>3. ASSUME TakeOldest(batch.type), batch.type \in Types
          PROVE  t = batch.type /\ j = 1 /\ stored[t][j] = Head(stored[t])
      <3>1. t = batch.type /\ stored'[t] = Tail(stored[t])
        BY <2>0, <2>1, <2>3 DEF TakeOldest
      <3>2. \A k \in DOMAIN Tail(stored[t]) : Tail(stored[t])[k] # stored[t][j]
        BY <3>1
      <3>3. stored[t] \in Seq(Nat)
        BY <2>0
      <3> QED
        BY <3>1, <3>2, <3>3, LeftByTheHead
    <2>4. CASE PopulateItem
      <3>1. t = batch.type /\ stored[t][j] = Head(stored[t])
        BY <2>3, <2>4 DEF PopulateItem
      <3>2. pipe' = Append(pipe, Item(t, stored[t][j]))
        BY <2>4, <3>1 DEF PopulateItem
      <3> QED
        BY SMTT(30), <2>0, <3>2
    <2>5. CASE FlushItem
      <3>1. t = batch.type /\ stored[t][j] = Head(stored[t])
        BY <2>3, <2>5 DEF FlushItem
      <3>2. published' = <<StorageData(t, stored[t][j])>>
        BY <2>5, <3>1 DEF FlushItem, Publish
      <3> QED
        BY <3>2
    <2>6. CASE StorageClear
      BY <2>1, <2>6 DEF StorageClear
    <2>7. CASE /\ BackendFails /\ (PopulateError \/ FlushNextType)
               /\ batch.type \in Types /\ TakeOldest(batch.type)
      BY <2>3, <2>7
    <2> QED
      BY <2>1, <2>2, <2>4, <2>5, <2>6, <2>7, BackendSteps
  <1> HIDE DEF Leaves
  <1>2. Spec => [][\A t \in Types : \A j \in DOMAIN stored[t] : Leaves(t, j)]_vars
    BY <1>1, TypeCorrect, BackendAlwaysBounded, PTL DEF Spec
  <1> QED
    BY <1>2 DEF RecordsLeaveByDelivery, Leaves

(* No more samples are published than the bound allows. *)
SampledBounded == \A t \in Types : sampled[t] <= MaxItems[t]

LEMMA SampledStep ==
  ASSUME TypeOK, SampledBounded, [Next]_vars
  PROVE  SampledBounded'
  <1>1. CASE UNCHANGED sampled
    BY <1>1 DEF SampledBounded
  <1>2. ASSUME NEW t \in Types, PublishSample(t) PROVE SampledBounded'
    <2>1. sampled[t] < MaxItems[t] /\ sampled' = [sampled EXCEPT ![t] = @ + 1]
      BY <1>2 DEF PublishSample
    <2>2. \A u \in Types : sampled[u] \in Nat /\ MaxItems[u] \in Nat
      BY BoundsAssumption DEF TypeOK, RecordTypes
    <2>3. \A u \in Types : sampled'[u] = IF u = t THEN sampled[u] + 1 ELSE sampled[u]
      BY <2>1 DEF TypeOK, RecordTypes
    <2> QED
      BY <2>1, <2>2, <2>3 DEF SampledBounded
  <1>3. UNCHANGED sampled \/ \E t \in Types : PublishSample(t)
    BY DEF Next, StorageThread, PassthroughDataMsg, HandleDataMessage, PassthroughRequest,
           BufferRequest, BatchRequest, BatchClose, SessionTimeout, PopulateItem,
           PopulateNextType, PopulateDone, PopulateError, StorageClear, FlushBegin, FlushItem,
           FlushNextType, SessionTimeoutWork, Reader, ReadHeader, ReadData, ReadTorn,
           ReadTimeout, Publishers, PublishCommand, vars, historyVars
  <1> QED
    BY <1>1, <1>2, <1>3

LEMMA SampledAlwaysBounded == Spec => []SampledBounded
  <1>1. Init => SampledBounded
    BY BoundsAssumption DEF Init, SampledBounded
  <1> QED
    BY <1>1, SampledStep, TypeCorrect, PTL DEF Spec

(* Every step is a step of BoundedFifo or leaves the backend alone, and    *)
(* only a backend that fails does half a store.                            *)
HalfStores ==
  \E t \in Types, x \in UNION {1 .. MaxItems[u] : u \in Types} : Backend!StoreHalf(t, x)

LEMMA FifoStep ==
  ASSUME TypeOK, RecordOrder, SampledBounded, [Next]_vars
  PROVE  UNCHANGED stored \/ Backend!FifoNext \/ (BackendFails /\ HalfStores)
  <1>1. CASE HandleDataMessage
    <2> DEFINE m == Head(inbox)
    <2>1. m.dt \in Types /\ m.item \in Nat \ {0} /\ m.type = "DATA" /\ inbox # <<>>
      BY <1>1, Received, InMsgFields DEF HandleDataMessage, Receive, TypeOK
    <2>2. m.item <= sampled[m.dt]
      <3>1. 1 \in DOMAIN inbox /\ inbox[1] = m
        BY <2>1 DEF TypeOK, MessageTypes
      <3> QED
        BY <2>1, <3>1 DEF RecordOrder, InboxAfterAll
    <2>3. m.item \in 1 .. MaxItems[m.dt]
      BY <2>1, <2>2, BoundsAssumption DEF SampledBounded, TypeOK, RecordTypes
    <2>4. m.item \in UNION {1 .. MaxItems[t] : t \in Types}
      BY <2>1, <2>3
    <2>5. CASE stored' = [stored EXCEPT ![m.dt] = Stored(@, m.item)]
      <3>1. Backend!Store(m.dt, m.item)
        BY <2>5 DEF Backend!Store, Stored
      <3> QED
        BY <2>1, <2>4, <3>1 DEF Backend!FifoNext
    <2>6. CASE /\ BackendFails /\ Len(stored[m.dt]) = MaxRecords
               /\ stored' = [stored EXCEPT ![m.dt] = StoredHalf(@, m.item)]
      <3>1. Backend!StoreHalf(m.dt, m.item)
        BY <2>6 DEF Backend!StoreHalf, StoredHalf
      <3> QED
        BY <2>1, <2>4, <2>6, <3>1 DEF HalfStores
    <2> QED
      BY <1>1, <2>5, <2>6 DEF HandleDataMessage
  <1>2. CASE batch.type \in Types /\ TakeOldest(batch.type)
    <2>1. Backend!Retrieve(batch.type)
      BY <1>2 DEF TakeOldest, Backend!Retrieve
    <2> QED
      BY <1>2, <2>1 DEF Backend!FifoNext
  <1>3. CASE PopulateItem \/ FlushItem
    BY <1>2, <1>3 DEF PopulateItem, FlushItem
  <1>4. CASE StorageClear
    BY <1>4 DEF StorageClear, Backend!FifoNext, Backend!Clear
  <1> QED
    BY <1>1, <1>2, <1>3, <1>4, BackendSteps

(* The module uses its backend as a bounded queue per type: every step is  *)
(* a step of BoundedFifo, the store that fails half-way among them, or     *)
(* leaves the backend alone.                                               *)
THEOREM BackendAlwaysFifo == Spec => BackendIsFifo
  <1>1. Init => Backend!FifoInit
    BY DEF Init, Backend!FifoInit
  <1>2. TypeOK /\ RecordOrder /\ SampledBounded /\ [Next]_vars
          => [Backend!FifoNext \/ \E t \in Types, x \in UNION {1 .. MaxItems[t] : t \in Types} :
                                  Backend!StoreHalf(t, x)]_stored
    BY FifoStep DEF HalfStores
  <1> QED
    BY <1>1, <1>2, TypeCorrect, RecordsInOrder, SampledAlwaysBounded, PTL
       DEF Spec, BackendIsFifo, Backend!PersistentSpec

(* With a backend that does not fail there is no half of a store: records  *)
(* are stored last, and the oldest one is taken, dropped or cleared.       *)
THEOREM WorkingBackendAlwaysFifo ==
  ASSUME ~BackendFails
  PROVE  Spec => Backend!FifoSpec
  <1>1. Init => Backend!FifoInit
    BY DEF Init, Backend!FifoInit
  <1>2. TypeOK /\ RecordOrder /\ SampledBounded /\ [Next]_vars => [Backend!FifoNext]_stored
    BY FifoStep
  <1> QED
    BY <1>1, <1>2, TypeCorrect, RecordsInOrder, SampledAlwaysBounded, PTL
       DEF Spec, Backend!FifoSpec

-----------------------------------------------------------------------------
(* What the pipe holds.                                                    *)

(* The bytes that the first i items take, for each i, which never get less. *)
Totals(total, s) ==
  /\ total \in [0 .. Len(s) -> 0 .. PipeSize]
  /\ total[0] = 0
  /\ \A i \in DOMAIN s : total[i] = total[i - 1] + Size[s[i].type]
  /\ \A i, j \in 0 .. Len(s) : i <= j => total[i] <= total[j]

LEMMA TotalsNone == \E total : Totals(total, <<>>) /\ total[0] = 0
  <1> DEFINE total == [i \in 0 .. Len(<<>>) |-> 0]
  <1>1. total \in [0 .. Len(<<>>) -> 0 .. PipeSize] /\ total[0] = 0
    BY SizeAssumption
  <1>2. DOMAIN <<>> = {} /\ \A i \in 0 .. Len(<<>>) : total[i] = 0
    OBVIOUS
  <1> HIDE DEF total
  <1> QED
    BY <1>1, <1>2 DEF Totals

LEMMA TotalsAppend ==
  ASSUME NEW s \in Seq(PipeItem), NEW x \in PipeItem, NEW total, Totals(total, s),
         total[Len(s)] + Size[x.type] <= PipeSize
  PROVE  \E more : /\ Totals(more, Append(s, x))
                   /\ more[Len(Append(s, x))] = total[Len(s)] + Size[x.type]
  <1> DEFINE n == Len(s)
             more == [i \in 0 .. n + 1 |-> IF i <= n THEN total[i] ELSE total[n] + Size[x.type]]
  <1>1. n \in Nat /\ Len(Append(s, x)) = n + 1 /\ DOMAIN s = 1 .. n
        /\ DOMAIN Append(s, x) = 1 .. n + 1
    OBVIOUS
  <1>2. Size[x.type] \in Nat /\ PipeSize \in Nat
    BY SizeAssumption, PipeItems
  <1>3. \A i \in 0 .. n : total[i] \in 0 .. PipeSize
    BY <1>1 DEF Totals
  <1>4. more \in [0 .. n + 1 -> 0 .. PipeSize] /\ more[0] = 0
        /\ more[n + 1] = total[n] + Size[x.type]
    BY <1>1, <1>2, <1>3 DEF Totals
  <1>5. ASSUME NEW i \in 1 .. n + 1
        PROVE  more[i] = more[i - 1] + Size[Append(s, x)[i].type]
    <2>1. CASE i <= n
      <3>1. Append(s, x)[i] = s[i] /\ more[i] = total[i] /\ more[i - 1] = total[i - 1]
        BY <1>1, <2>1
      <3> QED
        BY <1>1, <2>1, <3>1 DEF Totals
    <2>2. CASE i = n + 1
      <3>1. Append(s, x)[i] = x /\ more[i - 1] = total[n]
        BY <1>1, <2>2
      <3> QED
        BY <1>1, <1>4, <2>2, <3>1
    <2> QED
      BY <1>1, <2>1, <2>2
  <1>6. \A i, j \in 0 .. n : i <= j => total[i] <= total[j]
    BY DEF Totals
  <1>7. \A i, j \in 0 .. n + 1 : i <= j => more[i] <= more[j]
    <2> SUFFICES ASSUME NEW i \in 0 .. n + 1, NEW j \in 0 .. n + 1, i <= j
                 PROVE  more[i] <= more[j]
      OBVIOUS
    <2>1. CASE j <= n
      BY <1>1, <1>6, <2>1
    <2>2. CASE i <= n /\ j = n + 1
      <3>1. total[i] <= total[n] /\ total[i] \in Nat /\ total[n] \in Nat
        BY <1>1, <1>3, <1>6, <2>2
      <3>2. more[i] = total[i]
        BY <2>2
      <3> QED
        BY <1>2, <1>4, <2>2, <3>1, <3>2
    <2>3. CASE i = n + 1 /\ j = n + 1
      BY <1>1, <1>2, <1>3, <1>4, <2>3
    <2> QED
      BY <1>1, <2>1, <2>2, <2>3
  <1> HIDE DEF more
  <1> QED
    BY <1>1, <1>4, <1>5, <1>7 DEF Totals

LEMMA TotalsTail ==
  ASSUME NEW s \in Seq(PipeItem), s # <<>>, NEW total, Totals(total, s)
  PROVE  \E less : Totals(less, Tail(s)) /\ less[Len(Tail(s))] <= total[Len(s)]
  <1> DEFINE n == Len(s)
             first == Size[s[1].type]
             less == [i \in 0 .. n - 1 |-> total[i + 1] - first]
  <1>1. n \in Nat \ {0} /\ Len(Tail(s)) = n - 1 /\ DOMAIN s = 1 .. n
        /\ DOMAIN Tail(s) = 1 .. n - 1 /\ \A i \in 1 .. n - 1 : Tail(s)[i] = s[i + 1]
    OBVIOUS
  <1>2. \A i \in 1 .. n : s[i] \in PipeItem /\ Size[s[i].type] \in Nat
    BY <1>1, SizeAssumption, PipeItems
  <1>3. \A i \in 0 .. n : total[i] \in 0 .. PipeSize
    BY <1>1 DEF Totals
  <1>4. \A i \in 1 .. n : total[i] = total[i - 1] + Size[s[i].type]
    BY <1>1 DEF Totals
  <1>5. \A i, j \in 0 .. n : i <= j => total[i] <= total[j]
    BY DEF Totals
  <1>6. total[1] = first /\ first \in Nat /\ 1 \in 1 .. n
    BY <1>1, <1>2, <1>4 DEF Totals
  <1>7. \A i \in 0 .. n - 1 :
          /\ less[i] = total[i + 1] - first
          /\ total[i + 1] \in 0 .. PipeSize /\ total[i + 1] >= first
    <2> SUFFICES ASSUME NEW i \in 0 .. n - 1
                 PROVE  total[i + 1] \in 0 .. PipeSize /\ total[1] <= total[i + 1]
      BY <1>1, <1>3, <1>6
    <2>1. 1 \in 0 .. n /\ i + 1 \in 0 .. n /\ 1 <= i + 1
      BY <1>1
    <2> QED
      BY <1>3, <1>5, <2>1
  <1>8. less \in [0 .. n - 1 -> 0 .. PipeSize] /\ less[0] = 0
    <2>1. \A i \in 0 .. n - 1 : total[i + 1] - first \in 0 .. PipeSize
      BY <1>6, <1>7, SizeAssumption
    <2>2. 0 \in 0 .. n - 1 /\ 0 + 1 = 1
      BY <1>1
    <2>3. total[0 + 1] - first = 0
      BY <1>6
    <2> QED
      BY <2>1, <2>2, <2>3
  <1>9. ASSUME NEW i \in 1 .. n - 1
        PROVE  less[i] = less[i - 1] + Size[Tail(s)[i].type]
    <2>1. /\ i \in 0 .. n - 1 /\ i - 1 \in 0 .. n - 1 /\ i + 1 \in 1 .. n /\ i \in 0 .. n
          /\ (i - 1) + 1 = i /\ (i + 1) - 1 = i
      BY <1>1
    <2>2. less[i] = total[i + 1] - first /\ less[i - 1] = total[i] - first
      BY <1>7, <2>1
    <2>3. total[i + 1] = total[i] + Size[s[i + 1].type]
      BY <1>4, <2>1
    <2>4. total[i] \in Nat /\ Size[s[i + 1].type] \in Nat
      BY <1>2, <1>3, <2>1
    <2> QED
      BY <1>1, <1>6, <2>2, <2>3, <2>4
  <1>10. ASSUME NEW i \in 0 .. n - 1, NEW j \in 0 .. n - 1, i <= j
         PROVE  less[i] <= less[j]
    <2>1. total[i + 1] <= total[j + 1]
      BY <1>1, <1>5, <1>10
    <2> QED
      BY <1>6, <1>7, <2>1
  <1>11. less[n - 1] <= total[n]
    <2>1. n - 1 \in 0 .. n - 1 /\ (n - 1) + 1 = n
      BY <1>1
    <2>2. less[n - 1] = total[n] - first /\ total[n] \in 0 .. PipeSize
      BY <1>7, <2>1
    <2> QED
      BY <1>6, <2>2
  <1> HIDE DEF less
  <1> QED
    BY <1>1, <1>8, <1>9, <1>10, <1>11 DEF Totals

(* What was written since the pipe was drained is counted, and it is at    *)
(* least what the pipe holds.                                              *)
PipeCounted ==
  \E total :
    /\ Totals(total, pipe)
    /\ batch.op = "populate" => total[Len(pipe)] <= batch.bytes /\ batch.bytes <= PipeSize

LEMMA PipeCountedStep ==
  ASSUME TypeOK, PipeCounted, [Next]_vars
  PROVE  PipeCounted'
  <1>0. pipe \in Seq(PipeItem) /\ batch \in Loop /\ stored \in [Types -> Seq(Nat)]
    BY DEF TypeOK, RecordTypes, ControlTypes
  <1>1. PICK total : /\ Totals(total, pipe)
                     /\ batch.op = "populate" =>
                          total[Len(pipe)] <= batch.bytes /\ batch.bytes <= PipeSize
    BY DEF PipeCounted
  <1>2. CASE PopulateItem
    <2> DEFINE x == Item(batch.type, Head(stored[batch.type]))
    <2>1. /\ batch.op = "populate" /\ batch.type \in Types /\ stored[batch.type] # <<>>
          /\ batch.bytes + Size[batch.type] <= PipeSize /\ pipe' = Append(pipe, x)
          /\ batch'.bytes = batch.bytes + Size[batch.type]
      BY <1>0, <1>2 DEF PopulateItem, Fits, TakeOldest, Loop
    <2>2. x \in PipeItem /\ x.type = batch.type
      <3>1. Head(stored[batch.type]) \in Nat
        BY <1>0, <2>1, HeadTail
      <3> QED
        BY <2>1, <3>1, PipeItems DEF Item
    <2>3. /\ total[Len(pipe)] \in Nat /\ Size[batch.type] \in Nat /\ batch.bytes \in Nat
          /\ PipeSize \in Nat /\ total[Len(pipe)] <= batch.bytes
      <3>1. Len(pipe) \in 0 .. Len(pipe)
        BY <1>0
      <3> QED
        BY <1>0, <1>1, <2>1, <3>1, SizeAssumption DEF Totals, Loop
    <2>4. PICK more : /\ Totals(more, Append(pipe, x))
                      /\ more[Len(Append(pipe, x))] = total[Len(pipe)] + Size[batch.type]
      <3> HIDE DEF x
      <3>1. total[Len(pipe)] + Size[x.type] <= PipeSize
        BY <2>1, <2>2, <2>3
      <3> QED
        BY <1>0, <1>1, <2>2, <3>1, TotalsAppend
    <2> HIDE DEF x
    <2>5. more[Len(pipe')] <= batch'.bytes /\ batch'.bytes <= PipeSize
      BY <2>1, <2>3, <2>4
    <2> QED
      BY <2>1, <2>4, <2>5 DEF PipeCounted
  <1>3. CASE ReadData \/ ReadTorn
    <2>1. UNCHANGED batch /\ pipe # <<>> /\ (pipe' = pipe \/ pipe' = Tail(pipe))
      BY <1>3 DEF ReadData, ReadTorn
    <2>2. CASE pipe' = pipe
      BY <1>1, <2>1, <2>2 DEF PipeCounted
    <2>3. CASE pipe' = Tail(pipe)
      <3>1. PICK less : Totals(less, Tail(pipe)) /\ less[Len(Tail(pipe))] <= total[Len(pipe)]
        BY <1>0, <1>1, <2>1, TotalsTail
      <3>2. less[Len(pipe')] \in Nat /\ total[Len(pipe)] \in Nat /\ batch.bytes \in Nat
        <4>1. Len(pipe) \in 0 .. Len(pipe) /\ Len(Tail(pipe)) \in 0 .. Len(Tail(pipe))
          BY <1>0, <2>1
        <4>2. less[Len(Tail(pipe))] \in 0 .. PipeSize /\ total[Len(pipe)] \in 0 .. PipeSize
          BY <1>1, <3>1, <4>1 DEF Totals
        <4>3. batch.bytes \in Nat
          BY <1>0 DEF Loop
        <4> QED
          BY <2>3, <4>2, <4>3, SizeAssumption
      <3> QED
        BY <1>1, <2>1, <2>3, <3>1, <3>2 DEF PipeCounted
    <2> QED
      BY <2>1, <2>2, <2>3
  <1>4. CASE pipe' = <<>> /\ (batch'.op = "populate" => batch'.bytes = 0)
    <2>1. PICK none : Totals(none, <<>>) /\ none[0] = 0
      BY TotalsNone
    <2>2. none[Len(pipe')] = 0
      BY <1>4, <2>1
    <2> QED
      BY <1>4, <2>1, <2>2, SizeAssumption DEF PipeCounted
  <1>5. CASE pipe' = pipe /\ (batch'.op = "populate" =>
                                batch.op = "populate" /\ batch'.bytes = batch.bytes)
    BY <1>1, <1>5 DEF PipeCounted
  <1>6. CASE BatchRequest
    <2>1. (pipe' = pipe /\ batch' = batch) \/ (pipe' = <<>> /\ batch'.bytes = 0)
      BY <1>6 DEF BatchRequest, StartBatchSession, DrainPipe, Batch
    <2> QED
      BY <1>4, <1>5, <2>1
  <1>7. CASE BatchClose \/ SessionTimeout
    <2>1. batch' = batch /\ batch = NoBatch /\ (pipe' = pipe \/ pipe' = <<>>)
      BY <1>7 DEF BatchClose, SessionTimeout, LeavePipeActive, DrainPipe, Receive
    <2> QED
      BY <1>4, <1>5, <2>1 DEF NoBatch
  <1>8. CASE PopulateNextType
    <2>1. pipe' = pipe /\ batch' = [batch EXCEPT !.type = @ + 1]
      BY <1>8 DEF PopulateNextType
    <2> QED
      BY <1>0, <1>5, <2>1 DEF Loop
  <1>9. CASE PopulateDone \/ PopulateError \/ FlushBegin \/ FlushItem \/ FlushNextType
    <2>1. batch' = NoBatch => batch'.op # "populate"
      BY DEF NoBatch
    <2>2. batch.op = "flush" => [batch EXCEPT !.type = @ + 1].op = "flush"
      BY <1>0 DEF Loop
    <2>3. Batch("flush", "run").op = "flush"
      BY DEF Batch
    <2>4. pipe' = pipe /\ batch'.op # "populate"
      BY <1>9, <2>1, <2>2, <2>3
         DEF PopulateDone, PopulateError, FlushBegin, FlushItem, FlushNextType
    <2> QED
      BY <1>5, <2>4
  <1>10. CASE UNCHANGED <<pipe, batch>>
    BY <1>5, <1>10
  <1>11. \/ PopulateItem \/ ReadData \/ ReadTorn \/ BatchRequest \/ BatchClose
         \/ SessionTimeout \/ PopulateNextType \/ PopulateDone \/ PopulateError
         \/ FlushBegin \/ FlushItem \/ FlushNextType \/ UNCHANGED <<pipe, batch>>
    BY DEF Next, StorageThread, PassthroughDataMsg, HandleDataMessage, PassthroughRequest,
           BufferRequest, StorageClear, SessionTimeoutWork, Reader, ReadHeader, ReadTimeout,
           Publishers, PublishCommand, PublishSample, Send, vars
  <1> QED
    BY <1>2, <1>3, <1>6, <1>7, <1>8, <1>9, <1>10, <1>11

LEMMA PipeAlwaysCounted == Spec => [](TypeOK /\ PipeCounted)
  <1>1. Init => PipeCounted
    BY TotalsNone DEF Init, PipeCounted, NoBatch
  <1> QED
    BY <1>1, PipeCountedStep, TypeCorrect, PTL DEF Spec

(* The pipe never holds more bytes than it has, so that no write into it   *)
(* fails, whatever the reader has left or taken.                           *)
THEOREM PipeAlwaysFits == Spec => []PipeFits
  <1>1. PipeCounted => PipeFits
    BY DEF PipeCounted, Totals, PipeFits
  <1> QED
    BY <1>1, PipeAlwaysCounted, PTL
=============================================================================
