--------------------------- MODULE DeliveryProofs ---------------------------
(***************************************************************************)
(* Proofs about BatchDelivery, for any number of types, any pipe, backend  *)
(* and bounds.  Whatever the cloud module does and with timeouts at any    *)
(* time: what was handed to the cloud connection is never delivered again, *)
(* a sample is lost in the known ways only, and storage keeps what it      *)
(* promises alone.                                                         *)
(* As long as no timeout falls into a session that is still worked on: no  *)
(* drain and refill of the pipe falls between the two reads of an item,    *)
(* and a batch that is announced or read stays in the pipe until read.     *)
(* And when moreover the connection stays ready and the backend works: no  *)
(* sample is lost but by an overflow of the backend or a clear.            *)
(***************************************************************************)
EXTENDS BatchDelivery, StorageProofs

(* Every step is a step of the storage module, or a message for it that is *)
(* no sample, after which the reader may have given up on an empty pipe.   *)
Posts ==
  /\ \E m \in InMsg : m.type # "DATA" /\ inbox' = Append(inbox, m)
  /\ published' = <<>>
  /\ reader' = reader \/ (reader' = 0 /\ pipe = <<>>)
  /\ UNCHANGED <<mode, session, batch, pipe, stored, timer, confirmed, sampled, head, returned,
                 early>>

DeliveryTypes ==
  /\ answers \in Seq(OutMsg)
  /\ handling = NoAnswer \/ (handling \in OutMsg /\ handling.type = "BATCH_AVAILABLE")
  /\ requests \in Nat
  /\ delivered \subseteq PipeItem

(* What a message on STORAGE_CHAN holds. *)
LEMMA OutMsgFields ==
  ASSUME NEW m \in OutMsg
  PROVE  /\ m.type \in {"BATCH_AVAILABLE", "BATCH_EMPTY", "BATCH_ERROR", "BATCH_BUSY"} => m.id \in Nat
         /\ m.type = "STORAGE_DATA" => m.dt \in Types /\ m.item \in Nat
  BY DEF OutMsg

LEMMA Requests ==
  ASSUME NEW id \in Nat
  PROVE  /\ Request(id) \in InMsg /\ Request(id).type # "DATA"
         /\ Close(id) \in InMsg /\ Close(id).type # "DATA"
  BY InMsgs DEF Request, Close

LEMMA SentCommandMessages ==
  ASSUME NEW c \in SentCommands
  PROVE  Command(c) \in InMsg /\ Command(c).type # "DATA"
  BY InMsgs, SentCommandsAssumption DEF Command, Commands

LEMMA HeadAnswer ==
  ASSUME DeliveryTypes, answers # <<>>
  PROVE  Head(answers) \in OutMsg /\ Tail(answers) \in Seq(OutMsg)
  BY HeadTail DEF DeliveryTypes

LEMMA StepsOfStorage ==
  ASSUME DeliveryTypes, [DeliveryNext]_allVars
  PROVE  Posts \/ [Next]_vars
  <1>1. CASE StorageStep
    BY <1>1 DEF StorageStep, Next
  <1>2. CASE TimeoutStep
    BY <1>2 DEF TimeoutStep, Next
  <1>3. CASE SampleStep
    BY <1>3 DEF SampleStep, Next, Publishers
  <1>4. CASE StorageSendData
    <2>1. Request(requests + 1) \in InMsg /\ Request(requests + 1).type # "DATA"
      BY Requests DEF DeliveryTypes
    <2>2. QED
      BY <1>4, <2>1 DEF StorageSendData, Posts, Send, Publish, readerVars
  <1>5. CASE SendCommand
    BY <1>5, SentCommandMessages DEF SendCommand, Posts, Send, Publish, readerVars
  <1>6. CASE BatchAvailable
    BY <1>6 DEF BatchAvailable
  <1>7. CASE ReadItemHeader
    BY <1>7 DEF ReadItemHeader, Next, Reader
  <1>8. CASE ReadItem
    BY <1>8 DEF ReadItem, Next, Reader
  <1>9. CASE ReadGarbage
    BY <1>9 DEF ReadGarbage, Next, Reader
  <1>10. CASE RefuseGarbage
    <2>1. handling.id \in Nat
      BY <1>10, OutMsgFields DEF RefuseGarbage, DeliveryTypes
    <2>2. QED
      BY <1>10, <2>1, Requests DEF RefuseGarbage, CloudPublish, Publish, Posts
  <1>11. CASE NoMoreData
    <2>1. handling.id \in Nat
      BY <1>11, OutMsgFields DEF NoMoreData, DeliveryTypes
    <2>2. QED
      BY <1>11, <2>1, Requests DEF NoMoreData, CloudPublish, Publish, Posts
  <1>12. CASE CloseBatch
    <2>1. Head(answers).id \in Nat
      BY <1>12, HeadAnswer, OutMsgFields DEF CloseBatch, CloudReceive
    <2>2. QED
      BY <1>12, <2>1, Requests DEF CloseBatch, CloudPublish, Publish, Posts
  <1>13. CASE StorageDataMessage
    BY <1>13 DEF StorageDataMessage
  <1>14. CASE DropMessage
    BY <1>14 DEF DropMessage
  <1>15. CASE CloudChanges
    BY <1>15 DEF CloudChanges
  <1>16. CASE UNCHANGED allVars
    BY <1>16 DEF allVars
  <1>17. QED
    BY <1>1, <1>2, <1>3, <1>4, <1>5, <1>6, <1>7, <1>8, <1>9, <1>10, <1>11, <1>12, <1>13, <1>14,
       <1>15, <1>16 DEF DeliveryNext, CloudStep

(* What the storage module keeps, it keeps among the others too. *)
LEMMA StorageKept ==
  ASSUME DeliveryTypes, TypeOK, ReaderAligned, RecordOrder, [DeliveryNext]_allVars
  PROVE  TypeOK' /\ ReaderAligned' /\ RecordOrder'
  <1>1. CASE [Next]_vars
    <2>1. TypeOK'
      BY <1>1, TypeStep
    <2>2. ReaderAligned'
      BY <1>1, AlignedStep
    <2>3. RecordOrder'
      BY <1>1, <2>1, OrderStep
    <2>4. QED
      BY <2>1, <2>2, <2>3
  <1>2. CASE Posts
    <2>1. inbox' \in Seq(InMsg) /\ SamplesLater(inbox', inbox)
      BY <1>2, AppendSeq, SamplesLaterRules DEF Posts, TypeOK, MessageTypes
    <2>2. TypeOK'
      <3>1. ControlTypes'
        <4>1. reader' \in 0 .. NTypes
          BY <1>2, NTypesAssumption DEF Posts, TypeOK, ControlTypes
        <4>2. QED
          BY <1>2, <4>1 DEF Posts, TypeOK, ControlTypes
      <3>2. MessageTypes'
        BY <1>2, <2>1, EmptySeq DEF Posts, MessageTypes
      <3>3. RecordTypes'
        BY <1>2 DEF Posts, TypeOK, RecordTypes
      <3>4. QED
        BY <3>1, <3>2, <3>3 DEF TypeOK
    <2>3. ReaderAligned'
      BY <1>2 DEF Posts, ReaderAligned
    <2>4. Later(pipe', pipe) /\ \A t \in Types : Later(stored'[t], stored[t])
      BY <1>2, Unmoved DEF Posts
    <2>5. RecordOrder'
      BY <1>2, <2>1, <2>2, <2>4, TakingAway DEF Posts
    <2>6. QED
      BY <2>2, <2>3, <2>5
  <1>3. QED
    BY <1>1, <1>2, StepsOfStorage
-----------------------------------------------------------------------------
(* A sample that has left the storage module never comes back into it.     *)

Left(t, n) ==
  /\ n \in Nat /\ n <= sampled[t]
  /\ \A i \in DOMAIN pipe : pipe[i] # Item(t, n)
  /\ \A j \in DOMAIN stored[t] : stored[t][j] # n
  /\ \A k \in DOMAIN inbox : inbox[k] # Data(t, n)

LEMMA LeftStaysAway ==
  ASSUME TypeOK, TakesAway, NEW t \in Types, NEW n, Left(t, n)
  PROVE  Left(t, n)'
  <1>1. n \in Nat /\ n <= sampled'[t]
    BY DEF Left, TakesAway
  <1>2. \A i \in DOMAIN pipe' : pipe'[i] # Item(t, n)
    BY DEF Left, TakesAway, Later
  <1>3. \A j \in DOMAIN stored'[t] : stored'[t][j] # n
    BY DEF Left, TakesAway, Later
  <1>4. \A k \in DOMAIN inbox' : inbox'[k] # Data(t, n)
    <2>1. Data(t, n).type = "DATA"
      BY DEF Data
    <2>2. PICK d \in Nat : \A k \in DOMAIN inbox' :
            inbox'[k].type = "DATA" => k + d \in DOMAIN inbox /\ inbox'[k] = inbox[k + d]
      BY DEF TakesAway, SamplesLater
    <2>3. QED
      BY <2>1, <2>2 DEF Left
  <1>5. QED
    BY <1>1, <1>2, <1>3, <1>4 DEF Left

LEMMA LeftStays ==
  ASSUME DeliveryTypes, TypeOK, TypeOK', ReaderAligned, [DeliveryNext]_allVars,
         NEW t \in Types, NEW n, Left(t, n)
  PROVE  Left(t, n)'
  <1>1. CASE Posts
    <2>1. SamplesLater(inbox', inbox)
      BY <1>1, SamplesLaterRules DEF Posts, TypeOK, MessageTypes
    <2>2. TakesAway
      BY <1>1, <2>1, Unmoved DEF Posts, TakesAway
    <2>3. QED
      BY <2>2, LeftStaysAway
  <1>2. CASE TakesAway
    BY <1>2, LeftStaysAway
  <1>3. CASE HandleDataMessage
    <2> DEFINE u == Head(inbox).dt
               m == Head(inbox).item
    <2>1. /\ inbox \in Seq(InMsg) /\ inbox # <<>> /\ Head(inbox) = inbox[1] /\ 1 \in DOMAIN inbox
          /\ Head(inbox) \in InMsg /\ Head(inbox).type = "DATA" /\ u \in Types /\ m \in Nat
      BY <1>3, Received, InMsgFields DEF HandleDataMessage, Receive, TypeOK, MessageTypes
    <2>2. Head(inbox) = Data(u, m)
      BY <2>1 DEF InMsg, Data, Commands
    <2>3. u = t => m # n
      BY <2>1, <2>2 DEF Left
    <2>4. \A k \in DOMAIN inbox' : inbox'[k] # Data(t, n)
      BY <1>3, <2>1 DEF HandleDataMessage, Consume, Left
    <2>5. \A j \in DOMAIN stored'[t] : stored'[t][j] # n
      <3>1. stored \in [Types -> Seq(Nat)]
        BY DEF TypeOK, RecordTypes
      <3>2. CASE stored' = [stored EXCEPT ![u] = Stored(stored[u], m)] /\ u = t
        <4>1. stored'[t] = Stored(stored[t], m) /\ stored[t] \in Seq(Nat)
          BY <2>1, <3>1, <3>2
        <4> DEFINE s == stored[t]
        <4>2. \A j \in DOMAIN s : s[j] # n
          BY DEF Left
        <4>3. CASE Len(s) < MaxRecords
          BY <2>1, <2>3, <3>2, <4>1, <4>2, <4>3 DEF Stored
        <4>4. CASE ~(Len(s) < MaxRecords)
          <5>1. s # <<>>
            BY <4>1, <4>4, MaxRecordsAssumption
          <5>2. Tail(s) \in Seq(Nat) /\ \A j \in DOMAIN Tail(s) : Tail(s)[j] # n
            BY <4>1, <4>2, <5>1
          <5>3. stored'[t] = Append(Tail(s), m)
            BY <4>1, <4>4 DEF Stored
          <5>4. \A j \in DOMAIN Append(Tail(s), m) : Append(Tail(s), m)[j] # n
            <6> HIDE DEF m, s
            <6>1. m # n
              BY <2>3, <3>2
            <6>2. QED
              BY <2>1, <5>2, <6>1, AppendParts
          <5>5. QED
            BY <5>3, <5>4, Zenon
        <4>5. QED
          BY <4>3, <4>4
      <3>3. CASE stored' = [stored EXCEPT ![u] = Stored(stored[u], m)] /\ u # t
        BY <2>1, <3>1, <3>3 DEF Left
      <3>4. CASE /\ Len(stored[u]) = MaxRecords
                 /\ stored' = [stored EXCEPT ![u] = StoredHalf(stored[u], m)]
        <4>1. stored[u] \in Seq(Nat) /\ stored[u] # <<>>
          BY <2>1, <3>1, <3>4, MaxRecordsAssumption
        <4>2. \A j \in DOMAIN StoredHalf(stored[u], m) :
                /\ j \in DOMAIN stored[u]
                /\ j = 1 => StoredHalf(stored[u], m)[j] = m
                /\ j # 1 => StoredHalf(stored[u], m)[j] = stored[u][j]
          BY <2>1, <4>1, FirstReplaced DEF StoredHalf
        <4>3. stored'[u] = StoredHalf(stored[u], m) /\ \A v \in Types \ {u} : stored'[v] = stored[v]
          BY <2>1, <3>1, <3>4
        <4>4. QED
          BY <2>3, <4>2, <4>3 DEF Left
      <3>5. QED
        BY <1>3, <3>2, <3>3, <3>4 DEF HandleDataMessage, Left
    <2>6. QED
      BY <1>3, <2>4, <2>5 DEF HandleDataMessage, Left
  <1>4. CASE PopulateItem
    <2> DEFINE u == batch.type
    <2>1. stored \in [Types -> Seq(Nat)] /\ pipe \in Seq(PipeItem)
      BY DEF TypeOK, RecordTypes
    <2>2. /\ u \in Types /\ stored[u] # <<>> /\ stored' = [stored EXCEPT ![u] = Tail(@)]
          /\ pipe' = Append(pipe, Item(u, Head(stored[u])))
          /\ inbox' = inbox /\ sampled' = sampled
      BY <1>4 DEF PopulateItem, TakeOldest, historyVars
    <2>3. Head(stored[u]) = stored[u][1] /\ 1 \in DOMAIN stored[u] /\ Head(stored[u]) \in Nat
      BY <2>1, <2>2
    <2>4. \A v \in Types : Later(stored'[v], stored[v])
      BY <2>2, OneLess
    <2>5. \A j \in DOMAIN stored'[t] : stored'[t][j] # n
      BY <2>4 DEF Later, Left
    <2>6. Item(u, Head(stored[u])) # Item(t, n)
      BY <2>3 DEF Item, Left
    <2>7. \A i \in DOMAIN pipe' : pipe'[i] # Item(t, n)
      <3>1. Item(u, Head(stored[u])) \in PipeItem
        BY <2>2, <2>3, PipeItems
      <3>2. QED
        BY <2>1, <2>2, <2>6, <3>1 DEF Left
    <2>8. QED
      BY <2>2, <2>5, <2>7 DEF Left
  <1>5. CASE ReadData
    <2>1. \A i \in DOMAIN pipe' : pipe'[i] # Item(t, n)
      BY SMTT(30), <1>5 DEF ReadData, Left, TypeOK, RecordTypes
    <2>2. QED
      BY <1>5, <2>1 DEF ReadData, Left, historyVars
  <1>6. ASSUME NEW u \in Types, PublishSample(u) PROVE Left(t, n)'
    <2>1. inbox \in Seq(InMsg) /\ sampled \in [Types -> Nat]
      BY DEF TypeOK, MessageTypes, RecordTypes
    <2>2. /\ inbox' = Append(inbox, Data(u, sampled[u] + 1))
          /\ sampled' = [sampled EXCEPT ![u] = @ + 1]
          /\ pipe' = pipe /\ stored' = stored
      BY <1>6 DEF PublishSample, Send
    <2>3. Data(u, sampled[u] + 1) \in InMsg /\ Data(u, sampled[u] + 1) # Data(t, n)
      BY <2>1, InMsgs DEF Data, Left
    <2>4. \A k \in DOMAIN inbox' : inbox'[k] # Data(t, n)
      BY <2>1, <2>2, <2>3 DEF Left
    <2>5. n <= sampled'[t]
      BY <2>1, <2>2 DEF Left
    <2>6. QED
      BY <2>2, <2>4, <2>5 DEF Left
  <1>7. QED
    BY <1>1, <1>2, <1>3, <1>4, <1>5, <1>6, StepsOfStorage, MostStepsTakeAway
-----------------------------------------------------------------------------
(* What the storage module publishes as STORAGE_DATA has just left it.     *)

NoData(msgs) == \A i \in DOMAIN msgs : msgs[i].type # "STORAGE_DATA"

LeavesAs(msgs) ==
  \E t \in Types, n \in Nat : msgs = <<StorageData(t, n)>> /\ ~Left(t, n) /\ Left(t, n)'

LEMMA OneMessage ==
  ASSUME NEW m, m.type # "STORAGE_DATA"
  PROVE  NoData(<<>>) /\ NoData(<<m>>) /\ NoData(<<m, m>>)
  BY DEF NoData

LEMMA RefusalIsNoData ==
  ASSUME NEW kind \in {"BATCH_EMPTY", "BATCH_ERROR", "BATCH_BUSY"}, NEW id, NEW caller
  PROVE  NoData(Refusal(kind, id, caller)) /\ NoData(<<Response(kind, id)>>)
  <1>1. Response(kind, id).type # "STORAGE_DATA"
    BY DEF Response
  <1>2. QED
    BY <1>1, OneMessage DEF Refusal

LEMMA PassedThrough ==
  ASSUME TypeOK, TypeOK', RecordOrder, PassthroughDataMsg
  PROVE  LeavesAs(published')
  <1>0. PICK t \in Types, n \in Nat : t = Head(inbox).dt /\ n = Head(inbox).item
    BY Received, InMsgFields DEF PassthroughDataMsg, Receive, TypeOK
  <1>1. /\ inbox \in Seq(InMsg) /\ inbox # <<>> /\ Head(inbox) = inbox[1] /\ 1 \in DOMAIN inbox
        /\ Head(inbox) \in InMsg /\ Head(inbox).type = "DATA"
        /\ Head(inbox).dt = t /\ Head(inbox).item = n
    BY <1>0, Received DEF PassthroughDataMsg, Receive, TypeOK, MessageTypes
  <1>2. Head(inbox) = Data(t, n)
    BY <1>1 DEF InMsg, Data, Commands
  <1>3. ~Left(t, n)
    BY <1>1, <1>2 DEF Left
  <1>4. /\ inbox' = Tail(inbox) /\ pipe' = pipe /\ stored' = stored /\ sampled' = sampled
        /\ published' = <<StorageData(t, n)>>
    BY <1>0 DEF PassthroughDataMsg, Consume, Publish, historyVars
  <1>5. n <= sampled[t] /\ \A j \in DOMAIN stored[t] : stored[t][j] < n
    BY <1>1 DEF RecordOrder, InboxAfterAll
  <1>6. \A j \in DOMAIN stored[t] : stored[t][j] # n
    BY <1>1, <1>5 DEF TypeOK, RecordTypes
  <1>7. \A i \in DOMAIN pipe : pipe[i] # Item(t, n)
    <2> SUFFICES ASSUME NEW i \in DOMAIN pipe, pipe[i] = Item(t, n) PROVE FALSE
      OBVIOUS
    <2>1. pipe[i].type = t /\ pipe[i].item = n
      BY DEF Item
    <2>2. pipe[i].item < n
      BY <1>1, <2>1 DEF RecordOrder, InboxAfterAll
    <2>3. QED
      BY <1>1, <2>1, <2>2
  <1>8. \A k \in DOMAIN inbox' : inbox'[k] # Data(t, n)
    <2> SUFFICES ASSUME NEW k \in DOMAIN Tail(inbox), Tail(inbox)[k] = Data(t, n) PROVE FALSE
      BY <1>4
    <2>1. k + 1 \in DOMAIN inbox /\ 1 < k + 1 /\ inbox[k + 1] = Data(t, n)
      BY <1>1
    <2>2. inbox[1].type = "DATA" /\ inbox[1].dt = t /\ inbox[1].item = n
      BY <1>1, Zenon
    <2>3. inbox[k + 1].type = "DATA" /\ inbox[k + 1].dt = t /\ inbox[k + 1].item = n
      BY <2>1 DEF Data
    <2>4. inbox[1].item < inbox[k + 1].item
      BY <1>1, <2>1, <2>2, <2>3 DEF RecordOrder, InboxOrder
    <2>5. QED
      BY <1>1, <2>2, <2>3, <2>4
  <1>9. Left(t, n)'
    BY <1>1, <1>4, <1>5, <1>6, <1>7, <1>8 DEF Left
  <1>10. QED
    BY <1>1, <1>3, <1>4, <1>9 DEF LeavesAs

LEMMA Flushed ==
  ASSUME TypeOK, TypeOK', RecordOrder, FlushItem
  PROVE  LeavesAs(published')
  <1>0. PICK t \in Types, n \in Nat : t = batch.type /\ n = Head(stored[t])
    BY HeadTail DEF FlushItem, TakeOldest, TypeOK, RecordTypes
  <1>1. t \in Types /\ stored[t] # <<>> /\ stored \in [Types -> Seq(Nat)]
    BY <1>0 DEF FlushItem, TakeOldest, TypeOK, RecordTypes
  <1>2. stored[t] \in Seq(Nat) /\ 1 \in DOMAIN stored[t] /\ n = stored[t][1] /\ n \in Nat
    BY <1>0, <1>1
  <1>3. ~Left(t, n)
    BY <1>2 DEF Left
  <1>4. /\ inbox' = inbox /\ pipe' = pipe /\ sampled' = sampled
        /\ stored' = [stored EXCEPT ![t] = Tail(@)] /\ published' = <<StorageData(t, n)>>
    BY <1>0 DEF FlushItem, TakeOldest, Publish, historyVars
  <1>5. n <= sampled[t]
    BY <1>1, <1>2 DEF RecordOrder, SampledLast
  <1>6. \A j \in DOMAIN stored'[t] : stored'[t][j] # n
    <2>1. stored'[t] = Tail(stored[t])
      BY <1>1, <1>4
    <2>2. \A j \in DOMAIN Tail(stored[t]) :
            j + 1 \in DOMAIN stored[t] /\ 1 < j + 1 /\ Tail(stored[t])[j] = stored[t][j + 1]
      BY <1>1, <1>2
    <2>3. \A j \in DOMAIN stored[t] : 1 < j => Before(t, n, stored[t][j])
      BY <1>1, <1>2 DEF RecordOrder, StoredOrder
    <2>4. \A j \in DOMAIN stored[t] : stored[t][j] \in Nat
      BY <1>2
    <2>5. \A j \in DOMAIN stored[t] : 1 < j => n # stored[t][j]
      BY <1>2, <2>3, <2>4, BeforeApart
    <2>6. QED
      BY <2>1, <2>2, <2>5
  <1>7. \A i \in DOMAIN pipe : pipe[i] # Item(t, n)
    <2> SUFFICES ASSUME NEW i \in DOMAIN pipe, pipe[i] = Item(t, n) PROVE FALSE
      OBVIOUS
    <2>1. pipe[i].type = t /\ pipe[i].item = n
      BY DEF Item
    <2>2. Before(t, pipe[i].item, stored[t][1])
      BY <1>2, <2>1 DEF RecordOrder, PipeBeforeStored
    <2>3. QED
      BY <1>2, <2>1, <2>2, BeforeApart
  <1>8. \A k \in DOMAIN inbox : inbox[k] # Data(t, n)
    <2> SUFFICES ASSUME NEW k \in DOMAIN inbox, inbox[k] = Data(t, n) PROVE FALSE
      OBVIOUS
    <2>1. inbox[k].type = "DATA" /\ inbox[k].dt = t /\ inbox[k].item = n
      BY DEF Data
    <2>2. stored[t][1] < inbox[k].item
      BY <1>2, <2>1 DEF RecordOrder, InboxAfterAll
    <2>3. QED
      BY <1>2, <2>1, <2>2
  <1>9. Left(t, n)'
    BY <1>2, <1>4, <1>5, <1>6, <1>7, <1>8 DEF Left
  <1>10. QED
    BY <1>1, <1>2, <1>3, <1>4, <1>9 DEF LeavesAs

LEMMA Publications ==
  ASSUME TypeOK, TypeOK', RecordOrder, StorageThread
  PROVE  NoData(published') \/ LeavesAs(published')
  <1>1. NoData(<<>>)
    BY DEF NoData
  <1>2. CASE HandleDataMessage
    BY <1>1, <1>2 DEF HandleDataMessage, Publish
  <1>3. \A c : Confirmation(c) = [type |-> c]
    BY DEF Confirmation
  <1>4. \A c \in {"MODE_PASSTHROUGH", "MODE_BUFFER", "MODE_CHANGE_REJECTED"} :
          NoData(<<Confirmation(c)>>)
    BY <1>3, OneMessage
  <1>5. CASE PassthroughRequest \/ BufferRequest
    BY <1>4, <1>5 DEF PassthroughRequest, BufferRequest, Confirm, Publish
  <1>6. CASE BatchRequest
    BY <1>1, <1>6, RefusalIsNoData DEF BatchRequest, StartBatchSession, Publish
  <1>7. CASE BatchClose
    BY <1>1, <1>7 DEF BatchClose, Publish
  <1>8. CASE SessionTimeout
    <2>1. Close(session.id).type # "STORAGE_DATA"
      BY DEF Close
    <2>2. QED
      BY <1>1, <1>8, <2>1, OneMessage DEF SessionTimeout, Publish
  <1>9. CASE PopulateItem \/ PopulateNextType
    BY <1>1, <1>9 DEF PopulateItem, PopulateNextType, Publish
  <1>10. CASE PopulateDone
    <2>1. Available(session.id, session.sent, session.more).type # "STORAGE_DATA"
      BY DEF Available
    <2>2. QED
      BY <1>10, <2>1, OneMessage DEF PopulateDone, Publish
  <1>11. CASE PopulateError
    BY <1>11, RefusalIsNoData DEF PopulateError, Publish
  <1>12. CASE StorageClear \/ FlushBegin \/ FlushNextType
    BY <1>1, <1>12 DEF StorageClear, FlushBegin, FlushNextType, Publish
  <1>13. QED
    BY <1>2, <1>5, <1>6, <1>7, <1>8, <1>9, <1>10, <1>11, <1>12, PassedThrough, Flushed
       DEF StorageThread
-----------------------------------------------------------------------------
(* The types of what BatchDelivery adds.                                   *)

LEMMA Forwarding ==
  ASSUME TypeOK', Forward
  PROVE  \/ UNCHANGED answers
         \/ answers' = answers \o published' /\ published' \in Seq(OutMsg)
  BY DEF Forward, TypeOK, MessageTypes

LEMMA DeliveryTypesStep ==
  ASSUME DeliveryTypes, TypeOK, TypeOK', [DeliveryNext]_allVars
  PROVE  DeliveryTypes'
  <1>1. CASE StorageStep
    <2>1. answers' \in Seq(OutMsg)
      BY <1>1, Forwarding, ConcatSeq DEF StorageStep, DeliveryTypes
    <2>2. QED
      BY <1>1, <2>1 DEF StorageStep, DeliveryTypes
  <1>2. CASE TimeoutStep \/ SampleStep \/ ReadItemHeader \/ ReadGarbage
    BY <1>2 DEF TimeoutStep, SampleStep, ReadItemHeader, ReadGarbage, cloudVars, DeliveryTypes
  <1>3. CASE StorageSendData \/ SendCommand
    BY <1>3 DEF StorageSendData, SendCommand, DeliveryTypes
  <1>4. CASE BatchAvailable
    BY <1>4, HeadAnswer DEF BatchAvailable, CloudReceive, DeliveryTypes
  <1>5. CASE ReadItem
    <2>1. Head(pipe) \in PipeItem
      BY <1>5, HeadTail DEF ReadItem, ReadData, TypeOK, RecordTypes
    <2>2. QED
      BY <1>5, <2>1 DEF ReadItem, DeliveryTypes
  <1>6. CASE RefuseGarbage \/ NoMoreData
    BY <1>6 DEF RefuseGarbage, NoMoreData, DeliveryTypes
  <1>7. CASE CloseBatch \/ DropMessage
    BY <1>7, HeadAnswer DEF CloseBatch, DropMessage, CloudReceive, DeliveryTypes
  <1>8. CASE StorageDataMessage
    <2>1. Item(Head(answers).dt, Head(answers).item) \in PipeItem
      BY <1>8, HeadAnswer, OutMsgFields, PipeItems DEF StorageDataMessage, CloudReceive
    <2>2. Tail(answers) \in Seq(OutMsg)
      BY <1>8, HeadAnswer DEF StorageDataMessage, CloudReceive
    <2>3. QED
      BY <1>8, <2>1, <2>2 DEF StorageDataMessage, CloudReceive, DeliveryTypes
  <1>9. CASE CloudChanges
    BY <1>9 DEF CloudChanges, DeliveryTypes
  <1>10. CASE UNCHANGED allVars
    BY <1>10 DEF allVars, cloudVars, DeliveryTypes
  <1>11. QED
    BY <1>1, <1>2, <1>3, <1>4, <1>5, <1>6, <1>7, <1>8, <1>9, <1>10 DEF DeliveryNext, CloudStep

-----------------------------------------------------------------------------
(* A sample that is delivered, or waits for the cloud module as a message, *)
(* has left the storage module; it is not both, and waits only once.       *)

Awaits(t, n) == Has(answers, {StorageData(t, n)})

GoneOnce ==
  \A t \in Types, n \in Nat :
    /\ Item(t, n) \in delivered \/ Awaits(t, n) => Left(t, n)
    /\ ~(Item(t, n) \in delivered /\ Awaits(t, n))
    /\ Once(answers, {StorageData(t, n)})

LEMMA SameMessage ==
  \A t, u \in Types, n, m \in Nat :
    /\ StorageData(t, n) = StorageData(u, m) <=> t = u /\ n = m
    /\ Item(t, n) = Item(u, m) <=> t = u /\ n = m
    /\ StorageData(t, n).type = "STORAGE_DATA"
  BY DEF StorageData, Item

(* The cloud module takes a message, with or without delivering it. *)
LEMMA TakingAnAnswer ==
  ASSUME DeliveryTypes, GoneOnce, answers # <<>>, answers' = Tail(answers),
         NEW t \in Types, NEW n \in Nat
  PROVE  /\ Once(answers, {StorageData(t, n)})'
         /\ Awaits(t, n)' => Awaits(t, n) /\ Head(answers) # StorageData(t, n)
         /\ Head(answers) = StorageData(t, n) => Awaits(t, n)
  BY HasTail, OnceTail DEF DeliveryTypes, GoneOnce, Awaits

(* The storage module publishes. *)
LEMMA ReceivingAnswers ==
  ASSUME TypeOK, TypeOK', RecordOrder, DeliveryTypes, GoneOnce, StorageStep,
         \A t \in Types, n \in Nat : Left(t, n) => Left(t, n)'
  PROVE  GoneOnce'
  <1>1. delivered' = delivered /\ StorageThread /\ Forward
    BY DEF StorageStep
  <1>2. CASE UNCHANGED answers
    BY <1>1, <1>2 DEF GoneOnce, Awaits
  <1>3. CASE answers' = answers \o published' /\ published' \in Seq(OutMsg) /\ NoData(published')
    <2> SUFFICES ASSUME NEW t \in Types, NEW n \in Nat
                 PROVE  /\ Awaits(t, n)' <=> Awaits(t, n)
                        /\ Once(answers', {StorageData(t, n)})
      BY <1>1 DEF GoneOnce
    <2>1. ~Has(published', {StorageData(t, n)})
      BY <1>3, SameMessage DEF Has, NoData
    <2>2. QED
      BY <1>3, <2>1, HasConcat, OnceConcat DEF DeliveryTypes, GoneOnce, Awaits
  <1>4. CASE answers' = answers \o published' /\ LeavesAs(published')
    <2>1. PICK u \in Types, m \in Nat :
            published' = <<StorageData(u, m)>> /\ ~Left(u, m) /\ Left(u, m)'
      BY <1>4 DEF LeavesAs
    <2>2. answers \in Seq(OutMsg) /\ answers' = Append(answers, StorageData(u, m))
      BY <1>4, <2>1 DEF DeliveryTypes
    <2> SUFFICES ASSUME NEW t \in Types, NEW n \in Nat
                 PROVE  /\ Item(t, n) \in delivered \/ Awaits(t, n)' => Left(t, n)'
                        /\ ~(Item(t, n) \in delivered /\ Awaits(t, n)')
                        /\ Once(answers', {StorageData(t, n)})
      BY <1>1 DEF GoneOnce
    <2>3. Awaits(t, n)' <=> Awaits(t, n) \/ (t = u /\ n = m)
      BY <2>2, HasAppend, SameMessage DEF Awaits
    <2>4. t = u /\ n = m => Item(t, n) \notin delivered /\ ~Awaits(t, n)
      BY <2>1 DEF GoneOnce
    <2>5. Once(answers', {StorageData(t, n)})
      BY <2>2, <2>4, OnceAppend, SameMessage DEF GoneOnce, Awaits
    <2>6. QED
      BY <2>1, <2>3, <2>4, <2>5 DEF GoneOnce
  <1>5. QED
    BY <1>1, <1>2, <1>3, <1>4, Publications, Forwarding

(* The cloud module reads an item out of the pipe. *)
LEMMA ReadingLeaves ==
  ASSUME TypeOK, TypeOK', ReaderAligned, RecordOrder', ReadData,
         NEW t \in Types, NEW n \in Nat, Head(pipe) = Item(t, n)
  PROVE  ~Left(t, n) /\ Left(t, n)'
  <1>1. pipe # <<>> /\ 1 \in DOMAIN pipe /\ pipe[1] = Item(t, n)
    BY DEF ReadData, TypeOK, RecordTypes
  <1>2. ~Left(t, n)
    BY <1>1 DEF Left
  <1>3. Item(t, n).type = t /\ Item(t, n).item = n
    BY DEF Item
  <1>4. n \in returned'[t]
    <2>1. reader = t
      BY <1>3 DEF ReadData, ReaderAligned
    <2>2. QED
      BY <1>3, <2>1 DEF ReadData, TypeOK, RecordTypes
  <1>4a. \A u, a, b : Before(u, a, b)' => (a \in Nat /\ b \in Nat => a # b)
    BY DEF Before
  <1>5. n <= sampled'[t]
    BY <1>4 DEF RecordOrder, SampledLast
  <1>6. \A i \in DOMAIN pipe' : pipe'[i] # Item(t, n)
    <2> SUFFICES ASSUME NEW i \in DOMAIN pipe', pipe'[i] = Item(t, n) PROVE FALSE
      OBVIOUS
    <2>1. Before(t, n, n)'
      BY <1>3, <1>4 DEF RecordOrder, ReadBeforePipe
    <2>2. QED
      BY <1>4a, <2>1
  <1>7. \A j \in DOMAIN stored'[t] : stored'[t][j] # n
    <2> SUFFICES ASSUME NEW j \in DOMAIN stored'[t], stored'[t][j] = n PROVE FALSE
      OBVIOUS
    <2>1. Before(t, n, n)'
      BY <1>4 DEF RecordOrder, ReadBeforeStored
    <2>2. QED
      BY <1>4a, <2>1
  <1>8. \A k \in DOMAIN inbox' : inbox'[k] # Data(t, n)
    <2> SUFFICES ASSUME NEW k \in DOMAIN inbox', inbox'[k] = Data(t, n) PROVE FALSE
      OBVIOUS
    <2>1. inbox'[k].type = "DATA" /\ inbox'[k].dt = t /\ inbox'[k].item = n
      BY DEF Data
    <2>2. n < n
      BY <1>4, <2>1 DEF RecordOrder, InboxAfterAll
    <2>3. QED
      BY <2>2
  <1>9. QED
    BY <1>2, <1>5, <1>6, <1>7, <1>8 DEF Left

LEMMA GoneOnceStep ==
  ASSUME TypeOK, TypeOK', ReaderAligned, RecordOrder, RecordOrder',
         DeliveryTypes, GoneOnce, [DeliveryNext]_allVars
  PROVE  GoneOnce'
  <1>1. \A t \in Types, n \in Nat : Left(t, n) => Left(t, n)'
    BY LeftStays
  <1>2. CASE StorageStep
    BY <1>1, <1>2, ReceivingAnswers
  <1>3. CASE UNCHANGED <<answers, delivered>>
    BY <1>1, <1>3 DEF GoneOnce, Awaits
  <1>4. CASE ReadItem
    <2>1. Head(pipe) \in PipeItem
      BY <1>4, HeadTail DEF ReadItem, ReadData, TypeOK, RecordTypes
    <2>2. PICK u \in Types, m \in Nat : Head(pipe) = Item(u, m)
      BY <2>1 DEF PipeItem, Item
    <2>3. ~Left(u, m) /\ Left(u, m)'
      BY <1>4, <2>2, ReadingLeaves DEF ReadItem
    <2>4. \A t \in Types, n \in Nat :
            Item(t, n) \in delivered' <=> Item(t, n) \in delivered \/ (t = u /\ n = m)
      BY <1>4, <2>2, SameMessage DEF ReadItem
    <2>5. answers' = answers
      BY <1>4 DEF ReadItem
    <2>6. QED
      BY <1>1, <2>3, <2>4, <2>5 DEF GoneOnce, Awaits
  <1>5. CASE BatchAvailable \/ CloseBatch \/ DropMessage
    <2>1. delivered' = delivered /\ answers # <<>> /\ answers' = Tail(answers)
      BY <1>5 DEF BatchAvailable, CloseBatch, DropMessage, CloudReceive
    <2>2. QED
      BY <1>1, <2>1, TakingAnAnswer DEF GoneOnce
  <1>6. CASE StorageDataMessage
    <2>1. answers # <<>> /\ answers' = Tail(answers) /\ Head(answers).type = "STORAGE_DATA"
      BY <1>6 DEF StorageDataMessage, CloudReceive
    <2>2. Head(answers) \in OutMsg
      BY <2>1, HeadAnswer
    <2>3. PICK u \in Types, m \in Nat : Head(answers) = StorageData(u, m)
      BY <2>1, <2>2 DEF OutMsg, StorageData
    <2>4. delivered' = delivered \union {Item(u, m)}
      BY <1>6, <2>3 DEF StorageDataMessage, StorageData
    <2>5. \A t \in Types, n \in Nat :
            Item(t, n) \in delivered' <=> Item(t, n) \in delivered \/ (t = u /\ n = m)
      BY <2>4, SameMessage
    <2> SUFFICES ASSUME NEW t \in Types, NEW n \in Nat
                 PROVE  /\ Item(t, n) \in delivered' \/ Awaits(t, n)' => Left(t, n)'
                        /\ ~(Item(t, n) \in delivered' /\ Awaits(t, n)')
                        /\ Once(answers, {StorageData(t, n)})'
      BY DEF GoneOnce
    <2>6. /\ Once(answers, {StorageData(t, n)})'
          /\ Awaits(t, n)' => Awaits(t, n) /\ ~(t = u /\ n = m)
          /\ t = u /\ n = m => Awaits(t, n)
      BY SMTT(30), <2>1, <2>3, TakingAnAnswer, SameMessage
    <2>7. QED
      BY <1>1, <2>5, <2>6 DEF GoneOnce
  <1>7. CASE TimeoutStep \/ SampleStep \/ ReadItemHeader \/ ReadGarbage
    BY <1>3, <1>7 DEF TimeoutStep, SampleStep, ReadItemHeader, ReadGarbage, cloudVars
  <1>8. CASE StorageSendData \/ SendCommand \/ RefuseGarbage \/ NoMoreData \/ CloudChanges
    BY <1>3, <1>8 DEF StorageSendData, SendCommand, RefuseGarbage, NoMoreData, CloudChanges
  <1>9. CASE UNCHANGED allVars
    BY <1>3, <1>9 DEF allVars, cloudVars
  <1>10. QED
    BY <1>2, <1>4, <1>5, <1>6, <1>7, <1>8, <1>9 DEF DeliveryNext, CloudStep

(* What has left the storage module and waits for nothing is nowhere else. *)
LEMMA GoneIsDeliveredOnce ==
  ASSUME DeliveryTypes, GoneOnce
  PROVE  DeliveredOnce
  <1> SUFFICES ASSUME NEW x \in delivered
               PROVE  /\ \A j \in DOMAIN stored[x.type] : stored[x.type][j] # x.item
                      /\ \A i \in DOMAIN pipe : pipe[i] # x
                      /\ \A k \in DOMAIN inbox : inbox[k] # Data(x.type, x.item)
                      /\ \A k \in DOMAIN answers : answers[k] # StorageData(x.type, x.item)
    BY DEF DeliveredOnce
  <1>1. PICK t \in Types, n \in Nat : x = Item(t, n)
    BY DEF DeliveryTypes, PipeItem, Item
  <1>2. x.type = t /\ x.item = n
    BY <1>1 DEF Item
  <1>3. Left(t, n) /\ ~Awaits(t, n)
    BY <1>1 DEF GoneOnce
  <1>4. QED
    BY <1>1, <1>2, <1>3 DEF Left, Awaits, Has

(* Nothing that was handed to the cloud connection is still in the storage *)
(* module, in the pipe or on the way as a message, so that no later batch, *)
(* refresh, flush or change of mode delivers it again: whatever the cloud  *)
(* module does, with timeouts and backend errors at any time.              *)
THEOREM DeliveredNeverAgain == DeliverySpec => []DeliveredOnce
<1> DEFINE Inv == TypeOK /\ ReaderAligned /\ RecordOrder /\ DeliveryTypes /\ GoneOnce
<1>1. DeliveryInit => Inv
  <2> SUFFICES ASSUME DeliveryInit PROVE Inv
    OBVIOUS
  <2>1. TypeOK /\ ReaderAligned /\ RecordOrder
    BY StorageInit DEF DeliveryInit
  <2>2. DeliveryTypes
    BY DEF DeliveryInit, DeliveryTypes
  <2>3. GoneOnce
    BY HasNone, OnceNone DEF DeliveryInit, GoneOnce, Awaits
  <2>4. QED
    BY <2>1, <2>2, <2>3
<1>2. Inv /\ [DeliveryNext]_allVars => Inv'
  <2> SUFFICES ASSUME Inv, [DeliveryNext]_allVars PROVE Inv'
    OBVIOUS
  <2>1. TypeOK' /\ ReaderAligned' /\ RecordOrder'
    BY StorageKept
  <2>2. DeliveryTypes'
    BY <2>1, DeliveryTypesStep
  <2>3. GoneOnce'
    BY <2>1, GoneOnceStep
  <2>4. QED
    BY <2>1, <2>2, <2>3
<1>3. Inv => DeliveredOnce
  BY GoneIsDeliveredOnce
<1>4. QED
  BY <1>1, <1>2, <1>3, PTL DEF DeliverySpec
-----------------------------------------------------------------------------
(* The phases of a session: asked for, filling the pipe, announced, read,  *)
(* and over, refused or to be closed.                                      *)
Announcements(id) ==
  [type : {"BATCH_AVAILABLE"}, id : {id}, data_len : Nat, more_data : {"no", "yes"}]
Refusals(id) == {Response("BATCH_EMPTY", id), Response("BATCH_ERROR", id)}
Timeout == Command("SESSION_TIMEOUT")

Requested(id) == Has(inbox, {Request(id)})
Populating(id) == batch.op = "populate" /\ session.id = id
Announced(id) == Has(answers, Announcements(id))
Reading(id) == handling # NoAnswer /\ handling.id = id
Closing(id) == Has(inbox, {Close(id)})
Refused(id) == Has(answers, Refusals(id))

OnePhase(id) ==
  /\ Requested(id) => ~Populating(id) /\ ~Announced(id) /\ ~Reading(id)
  /\ Requested(id) => ~Closing(id) /\ ~Refused(id)
  /\ Populating(id) => ~Announced(id) /\ ~Reading(id) /\ ~Closing(id) /\ ~Refused(id)
  /\ Announced(id) => ~Reading(id) /\ ~Closing(id) /\ ~Refused(id)
  /\ Reading(id) => ~Closing(id) /\ ~Refused(id)
  /\ Once(inbox, {Request(id)})
  /\ Once(answers, Announcements(id))

Phase(id) ==
  \/ Requested(id) \/ Populating(id) \/ Announced(id) \/ Reading(id) \/ Closing(id) \/ Refused(id)

(* A session that the cloud module reads, or is to read, is the active one. *)
Serves ==
  \A id \in Nat : Announced(id) \/ Reading(id) => mode = "PIPE_ACTIVE" /\ session.id = id

IdsKnown ==
  /\ \A id \in Nat : Phase(id) => id \in 1 .. requests
  /\ mode = "PIPE_ACTIVE" => session.id \in 1 .. requests

(* A prompt session times out only when nobody works on it. *)
TimeoutAlone ==
  Has(inbox, {Timeout}) =>
    /\ inbox # <<>> /\ Head(inbox) = Timeout
    /\ Once(inbox, {Timeout})
    /\ batch = NoBatch /\ answers = <<>> /\ handling = NoAnswer
    /\ ~Requested(session.id)

ReaderReads == head # "torn" /\ (reader # 0 => handling # NoAnswer /\ head = "split")

(* What steps may add to the phases of which sessions. *)
InboxKeeps ==
  \A id \in Nat :
    /\ Requested(id)' => Requested(id)
    /\ Closing(id)' => Closing(id)
    /\ Once(inbox, {Request(id)}) => Once(inbox', {Request(id)})

AnswersKeep ==
  \A id \in Nat :
    /\ Announced(id)' => Announced(id)
    /\ Refused(id)' => Refused(id)
    /\ Once(answers, Announcements(id)) => Once(answers', Announcements(id))

LEMMA MessagesApart ==
  \A id, x \in Nat :
    /\ Request(x) = Request(id) <=> x = id
    /\ Close(x) = Close(id) <=> x = id
    /\ Request(x) # Close(id)
    /\ Timeout # Request(id) /\ Timeout # Close(id)
    /\ \A t, n : Data(t, n) # Request(id) /\ Data(t, n) # Close(id)
    /\ \A c : Command(c) # Request(id) /\ Command(c) # Close(id)
  BY DEF Request, Close, Command, Data, Timeout

LEMMA AnswersApart ==
  \A id, x \in Nat :
    /\ \A n \in Nat, more \in {"no", "yes"} : Available(x, n, more) \in Announcements(id) <=> x = id
    /\ \A n, more : Available(x, n, more) \notin Refusals(id)
    /\ \A k : Response(k, x) \notin Announcements(id)
    /\ \A k \in {"BATCH_EMPTY", "BATCH_ERROR"} : Response(k, x) \in Refusals(id) <=> x = id
    /\ \A t, n : StorageData(t, n) \notin Announcements(id) \union Refusals(id)
  BY DEF Available, Response, StorageData, Announcements, Refusals

LEMMA InboxTaken ==
  ASSUME TypeOK, inbox # <<>>, inbox' = Tail(inbox)
  PROVE  /\ InboxKeeps
         /\ Has(inbox', {Timeout}) => Has(inbox, {Timeout})
         /\ Once(inbox, {Timeout}) /\ Head(inbox) = Timeout => ~Has(inbox', {Timeout})
         /\ \A id \in Nat : Once(inbox, {Request(id)}) /\ Head(inbox) = Request(id) => ~Requested(id)'
         /\ \A id \in Nat : Head(inbox) = Request(id) => Requested(id)
         /\ \A id \in Nat : Head(inbox) = Close(id) => Closing(id)
  <1>1. inbox \in Seq(InMsg)
    BY DEF TypeOK, MessageTypes
  <1>2. \A m : /\ Has(inbox', {m}) => Has(inbox, {m})
               /\ Once(inbox, {m}) => Once(inbox', {m})
               /\ Once(inbox, {m}) /\ Head(inbox) = m => ~Has(inbox', {m})
               /\ Head(inbox) = m => Has(inbox, {m})
    <2> TAKE m
    <2>1. Has(inbox, {m}) <=> Head(inbox) \in {m} \/ Has(inbox', {m})
      BY <1>1, HasTail
    <2>2. Once(inbox, {m}) => Once(inbox', {m}) /\ (Head(inbox) \in {m} => ~Has(inbox', {m}))
      BY <1>1, OnceTail
    <2>3. QED
      BY <2>1, <2>2
  <1>3. QED
    BY <1>2 DEF InboxKeeps, Requested, Closing

LEMMA InboxAppended ==
  ASSUME TypeOK, NEW m, inbox' = Append(inbox, m)
  PROVE  /\ \A id \in Nat : Requested(id)' <=> Requested(id) \/ m = Request(id)
         /\ \A id \in Nat : Closing(id)' <=> Closing(id) \/ m = Close(id)
         /\ \A id \in Nat : Once(inbox, {Request(id)}) /\ (m # Request(id) \/ ~Requested(id))
                              => Once(inbox', {Request(id)})
         /\ Has(inbox', {Timeout}) <=> Has(inbox, {Timeout}) \/ m = Timeout
         /\ Once(inbox, {Timeout}) /\ (m # Timeout \/ ~Has(inbox, {Timeout})) => Once(inbox', {Timeout})
         /\ inbox # <<>> => inbox' # <<>> /\ Head(inbox') = Head(inbox)
         /\ inbox = <<>> => inbox' # <<>> /\ Head(inbox') = m
  <1>1. inbox \in Seq(InMsg)
    BY DEF TypeOK, MessageTypes
  <1>2. \A x : /\ Has(inbox', {x}) <=> Has(inbox, {x}) \/ m = x
               /\ Once(inbox, {x}) /\ (m # x \/ ~Has(inbox, {x})) => Once(inbox', {x})
    <2> TAKE x
    <2>1. Has(inbox', {x}) <=> Has(inbox, {x}) \/ m \in {x}
      BY <1>1, HasAppend
    <2>2. ASSUME Once(inbox, {x}), m \notin {x} \/ ~Has(inbox, {x}) PROVE Once(inbox', {x})
      BY <1>1, <2>2, OnceAppend
    <2>3. QED
      BY <2>1, <2>2
  <1>3. inbox # <<>> => inbox' # <<>> /\ Head(inbox') = Head(inbox)
    BY <1>1
  <1>4. inbox = <<>> => inbox' # <<>> /\ Head(inbox') = m
    OBVIOUS
  <1>5. QED
    BY <1>2, <1>3, <1>4 DEF Requested, Closing

(* What the storage module publishes adds at most one phase, ... *)
LEMMA NothingForwarded ==
  ASSUME Forward,
         published' = <<>> \/ \E m : published' = <<m>> /\ m.type \notin Handled
  PROVE  answers' = answers
  BY DEF Forward

LEMMA KeptWhenSame ==
  /\ answers' = answers => AnswersKeep
  /\ inbox' = inbox => InboxKeeps
  BY DEF AnswersKeep, InboxKeeps, Announced, Refused, Requested, Closing

LEMMA SampleForwarded ==
  ASSUME DeliveryTypes, Forward, NEW t, NEW n, published' = <<StorageData(t, n)>>,
         published' \in Seq(OutMsg)
  PROVE  AnswersKeep
  <1>1. StorageData(t, n).type = "STORAGE_DATA"
    BY DEF StorageData
  <1>2. answers' = answers \o published'
    BY <1>1 DEF Forward, Handled
  <1>3. \A id \in Nat : ~Has(published', Announcements(id)) /\ ~Has(published', Refusals(id))
    <2> TAKE id \in Nat
    <2>1. StorageData(t, n) \notin Announcements(id) \union Refusals(id)
      BY AnswersApart
    <2>2. QED
      BY <2>1 DEF Has
  <1>4. answers \in Seq(OutMsg)
    BY DEF DeliveryTypes
  <1>5. \A id \in Nat : /\ Has(answers', Announcements(id)) => Has(answers, Announcements(id))
                        /\ Has(answers', Refusals(id)) => Has(answers, Refusals(id))
                        /\ Once(answers, Announcements(id)) => Once(answers', Announcements(id))
    BY <1>2, <1>3, <1>4, HasConcat, OnceConcat
  <1>6. QED
    BY <1>5 DEF AnswersKeep, Announced, Refused

(* ... an announcement, ... *)
LEMMA AnnouncementForwarded ==
  ASSUME DeliveryTypes, Forward, NEW x \in Nat, NEW n \in Nat, NEW more \in {"no", "yes"},
         published' = <<Available(x, n, more)>>, published' \in Seq(OutMsg)
  PROVE  /\ answers' # <<>>
         /\ \A id \in Nat : Announced(id)' <=> Announced(id) \/ id = x
         /\ \A id \in Nat : Refused(id)' <=> Refused(id)
         /\ \A id \in Nat : Once(answers, Announcements(id)) /\ (id # x \/ ~Announced(id))
                              => Once(answers', Announcements(id))
  <1> DEFINE m == Available(x, n, more)
  <1>1. m.type = "BATCH_AVAILABLE"
    BY DEF Available
  <1>2. answers' = answers \o <<m>> /\ answers \in Seq(OutMsg)
    BY <1>1 DEF Forward, Handled, DeliveryTypes
  <1>3. answers' = Append(answers, m)
    BY <1>2
  <1>4. \A id \in Nat : m \in Announcements(id) <=> id = x
    BY AnswersApart
  <1>5. \A id \in Nat : m \notin Refusals(id)
    BY AnswersApart
  <1> HIDE DEF m
  <1>6. \A id \in Nat : Has(answers', Announcements(id)) <=> Has(answers, Announcements(id)) \/ id = x
    <2> TAKE id \in Nat
    <2>1. Has(answers', Announcements(id)) <=> Has(answers, Announcements(id)) \/ m \in Announcements(id)
      <3>1. answers \in Seq(OutMsg)
        BY <1>2
      <3>2. Has(Append(answers, m), Announcements(id)) <=> Has(answers, Announcements(id)) \/ m \in Announcements(id)
        BY <3>1, HasAppend
      <3>3. QED
        BY <1>3, <3>2
    <2>2. QED
      BY <1>4, <2>1
  <1>7. \A id \in Nat : Has(answers', Refusals(id)) <=> Has(answers, Refusals(id))
    <2> TAKE id \in Nat
    <2>1. Has(answers', Refusals(id)) <=> Has(answers, Refusals(id)) \/ m \in Refusals(id)
      <3>1. answers \in Seq(OutMsg)
        BY <1>2
      <3>2. Has(Append(answers, m), Refusals(id)) <=> Has(answers, Refusals(id)) \/ m \in Refusals(id)
        BY <3>1, HasAppend
      <3>3. QED
        BY <1>3, <3>2
    <2>2. QED
      BY <1>5, <2>1
  <1>8. \A id \in Nat : Once(answers, Announcements(id)) /\ (id # x \/ ~Has(answers, Announcements(id)))
                          => Once(answers', Announcements(id))
    BY <1>2, <1>3, <1>4, OnceAppend
  <1>9. answers' # <<>>
    BY <1>2, <1>3
  <1>10. QED
    BY <1>6, <1>7, <1>8, <1>9 DEF Announced, Refused

(* ... or a refusal, twice when it is sent by the entry function. *)
LEMMA RefusalForwarded ==
  ASSUME DeliveryTypes, Forward, NEW x \in Nat, NEW kind \in {"BATCH_EMPTY", "BATCH_ERROR"},
         published' = <<Response(kind, x)>> \/ published' = <<Response(kind, x), Response(kind, x)>>,
         published' \in Seq(OutMsg)
  PROVE  /\ \A id \in Nat : Announced(id)' <=> Announced(id)
         /\ \A id \in Nat : Refused(id)' <=> Refused(id) \/ id = x
         /\ \A id \in Nat : Once(answers, Announcements(id)) => Once(answers', Announcements(id))
  <1> DEFINE m == Response(kind, x)
  <1>1. m.type = kind
    BY DEF Response
  <1>2. published' # <<>> /\ Head(published').type = kind
    BY <1>1
  <1>3. answers' = answers \o published' /\ answers \in Seq(OutMsg)
    BY <1>2 DEF Forward, Handled, DeliveryTypes
  <1>4. \A id \in Nat : m \notin Announcements(id)
    BY AnswersApart
  <1>5. \A id \in Nat : m \in Refusals(id) <=> id = x
    BY AnswersApart
  <1>6. \A S : Has(published', S) <=> m \in S
    <2> TAKE S
    <2>1. published'[1] = m /\ 1 \in DOMAIN published' /\ \A i \in DOMAIN published' : published'[i] = m
      <3> HIDE DEF m
      <3>1. published' = <<m>> \/ published' = <<m, m>>
        BY DEF m
      <3>2. QED
        BY <3>1
    <2> HIDE DEF m
    <2>2. QED
      BY <2>1 DEF Has
  <1> HIDE DEF m
  <1>7. \A id \in Nat : Has(answers', Announcements(id)) <=> Has(answers, Announcements(id))
    BY <1>3, <1>4, <1>6, HasConcat
  <1>8. \A id \in Nat : Has(answers', Refusals(id)) <=> Has(answers, Refusals(id)) \/ id = x
    BY <1>3, <1>5, <1>6, HasConcat
  <1>9. \A id \in Nat : Once(answers, Announcements(id)) => Once(answers', Announcements(id))
    BY <1>3, <1>4, <1>6, OnceConcat
  <1>10. QED
    BY <1>7, <1>8, <1>9 DEF Announced, Refused

(* The cloud module takes a message. *)
LEMMA AnswerTaken ==
  ASSUME DeliveryTypes, answers # <<>>, answers' = Tail(answers)
  PROVE  /\ AnswersKeep
         /\ \A id \in Nat : Head(answers).type = "BATCH_AVAILABLE" /\ Head(answers).id = id =>
              /\ Announced(id)
              /\ Once(answers, Announcements(id)) => ~Announced(id)'
         /\ \A id \in Nat : Head(answers).type \in {"BATCH_EMPTY", "BATCH_ERROR"}
                              /\ Head(answers).id = id => Refused(id)
  <1>1. answers \in Seq(OutMsg) /\ Head(answers) \in OutMsg
    BY HeadAnswer DEF DeliveryTypes
  <1>2. \A S : /\ Has(answers, S) <=> Head(answers) \in S \/ Has(answers', S)
               /\ Once(answers, S) => Once(answers', S)
               /\ Once(answers, S) /\ Head(answers) \in S => ~Has(answers', S)
    BY <1>1, HasTail, OnceTail
  <1>3. \A id \in Nat : Head(answers).type = "BATCH_AVAILABLE" /\ Head(answers).id = id
                         => Head(answers) \in Announcements(id)
    BY <1>1 DEF OutMsg, Announcements
  <1>4. \A id \in Nat : Head(answers).type \in {"BATCH_EMPTY", "BATCH_ERROR"}
                         /\ Head(answers).id = id => Head(answers) \in Refusals(id)
    BY <1>1 DEF OutMsg, Refusals, Response
  <1>5. AnswersKeep
    BY <1>2 DEF AnswersKeep, Announced, Refused
  <1>6. QED
    BY <1>2, <1>3, <1>4, <1>5 DEF Announced, Refused

SessionInv ==
  /\ \A id \in Nat : OnePhase(id)
  /\ Serves /\ IdsKnown /\ TimeoutAlone /\ ReaderReads

(* A step that gives no session a new phase. *)
LEMMA QuietPhases ==
  ASSUME SessionInv, DeliveryTypes, requests' \in Nat, requests <= requests',
         InboxKeeps, AnswersKeep, handling' = handling, session'.id = session.id,
         batch'.op = "populate" => batch.op = "populate",
         mode' = "PIPE_ACTIVE" <=> mode = "PIPE_ACTIVE"
  PROVE  (\A id \in Nat : OnePhase(id))' /\ Serves' /\ IdsKnown'
  <1>1. \A id \in Nat :
          /\ Requested(id)' => Requested(id)
          /\ Populating(id)' => Populating(id)
          /\ Announced(id)' => Announced(id)
          /\ Reading(id)' <=> Reading(id)
          /\ Closing(id)' => Closing(id)
          /\ Refused(id)' => Refused(id)
    BY DEF InboxKeeps, AnswersKeep, Populating, Reading
  <1>2. \A id \in Nat : OnePhase(id)'
    BY <1>1 DEF SessionInv, OnePhase, InboxKeeps, AnswersKeep
  <1>3. Serves'
    BY <1>1 DEF SessionInv, Serves
  <1>4. IdsKnown'
    <2>1. requests \in Nat
      BY DEF DeliveryTypes
    <2>2. \A id \in Nat : Phase(id)' => Phase(id)
      BY <1>1 DEF Phase
    <2>3. \A n \in 1 .. requests : n \in 1 .. requests'
      BY <2>1
    <2>4. QED
      BY <2>2, <2>3 DEF SessionInv, IdsKnown
  <1>5. QED
    BY <1>2, <1>3, <1>4

(* A timeout in the queue stays the only thing to do until it is taken. *)
LEMMA TimeoutStaysAlone ==
  ASSUME TypeOK, TimeoutAlone,
         \/ /\ inbox # <<>> /\ Head(inbox) # Timeout
            /\ inbox' = Tail(inbox)
         \/ /\ inbox' = inbox \/ \E m : m # Timeout /\ inbox' = Append(inbox, m)
            /\ batch # NoBatch \/ handling # NoAnswer \/ answers # <<>>
         \/ /\ inbox' = inbox \/ \E m : m \notin {Timeout, Request(session.id)} /\ inbox' = Append(inbox, m)
            /\ UNCHANGED <<batch, answers, handling, session>>
  PROVE  TimeoutAlone'
  <1>1. CASE inbox # <<>> /\ Head(inbox) # Timeout /\ inbox' = Tail(inbox)
    <2>1. ~Has(inbox', {Timeout})
      BY <1>1, InboxTaken DEF TimeoutAlone
    <2>2. QED
      BY <2>1 DEF TimeoutAlone
  <1>2. CASE /\ inbox' = inbox \/ \E m : m # Timeout /\ inbox' = Append(inbox, m)
             /\ batch # NoBatch \/ handling # NoAnswer \/ answers # <<>>
    <2>1. ~Has(inbox, {Timeout})
      BY <1>2 DEF TimeoutAlone
    <2>2. ~Has(inbox', {Timeout})
      BY <1>2, <2>1, InboxAppended
    <2>3. QED
      BY <2>2 DEF TimeoutAlone
  <1>3. CASE inbox' = inbox /\ UNCHANGED <<batch, answers, handling, session>>
    BY <1>3 DEF TimeoutAlone, Requested
  <1>4. ASSUME NEW m, m \notin {Timeout, Request(session.id)}, inbox' = Append(inbox, m),
               UNCHANGED <<batch, answers, handling, session>>
        PROVE  TimeoutAlone'
    <2> SUFFICES ASSUME Has(inbox', {Timeout})
                 PROVE  /\ inbox' # <<>> /\ Head(inbox') = Timeout
                        /\ Once(inbox', {Timeout})
                        /\ batch' = NoBatch /\ answers' = <<>> /\ handling' = NoAnswer
                        /\ ~Requested(session.id)'
      BY DEF TimeoutAlone
    <2>1. Has(inbox, {Timeout})
      BY <1>4, InboxAppended
    <2>2. /\ inbox # <<>> /\ Head(inbox) = Timeout
          /\ Once(inbox, {Timeout})
          /\ batch = NoBatch /\ answers = <<>> /\ handling = NoAnswer
          /\ ~Requested(session.id)
      BY <2>1 DEF TimeoutAlone
    <2>3. /\ inbox' # <<>> /\ Head(inbox') = Timeout
          /\ Once(inbox', {Timeout})
      BY <1>4, <2>2, InboxAppended
    <2>4. session.id \in Nat
      BY DEF TypeOK, ControlTypes, Session
    <2>5. ~Has(inbox', {Request(session.id)})
      BY <1>4, <2>2, <2>4, InboxAppended DEF Requested
    <2>6. session'.id = session.id
      BY <1>4
    <2>7. QED
      BY <1>4, <2>2, <2>3, <2>5, <2>6 DEF Requested
  <1>5. QED
    BY <1>1, <1>2, <1>3, <1>4

(* The storage thread takes a message that concerns no session. *)
LEMMA OtherMessageTaken ==
  ASSUME TypeOK, TypeOK', DeliveryTypes, SessionInv, StorageStep,
         \/ PassthroughDataMsg \/ HandleDataMessage \/ PassthroughRequest \/ BufferRequest
         \/ StorageClear \/ FlushBegin
  PROVE  SessionInv'
  <1>1. /\ inbox # <<>> /\ inbox' = Tail(inbox)
        /\ Head(inbox).type # "SESSION_TIMEOUT"
        /\ UNCHANGED <<session, handling, requests, reader, head>>
        /\ mode' = "PIPE_ACTIVE" <=> mode = "PIPE_ACTIVE"
        /\ batch'.op # "populate"
    <2>1. CASE PassthroughDataMsg \/ HandleDataMessage
      BY <2>1 DEF PassthroughDataMsg, HandleDataMessage, Receive, Consume, StorageStep, readerVars,
                  NoBatch
    <2>2. CASE PassthroughRequest \/ BufferRequest
      BY <2>2 DEF PassthroughRequest, BufferRequest, Receive, Consume, StorageStep, readerVars, NoBatch
    <2>3. CASE StorageClear \/ FlushBegin
      BY <2>3 DEF StorageClear, FlushBegin, Receive, Consume, StorageStep, readerVars, NoBatch, Batch
    <2>4. QED
      BY <2>1, <2>2, <2>3
  <1>2. AnswersKeep
    <2>1. Forward /\ published' \in Seq(OutMsg)
      BY DEF StorageStep, TypeOK, MessageTypes
    <2>2. CASE PassthroughDataMsg
      BY <2>1, <2>2, SampleForwarded DEF PassthroughDataMsg, Publish
    <2>3. CASE HandleDataMessage \/ StorageClear \/ FlushBegin
      <3>1. published' = <<>>
        BY <2>3 DEF HandleDataMessage, StorageClear, FlushBegin, Publish
      <3>2. QED
        BY <2>1, <3>1, NothingForwarded, KeptWhenSame
    <2>4. CASE PassthroughRequest \/ BufferRequest
      <3>1. PICK c \in {"MODE_PASSTHROUGH", "MODE_BUFFER", "MODE_CHANGE_REJECTED"} :
              published' = <<Confirmation(c)>>
        BY <2>4 DEF PassthroughRequest, BufferRequest, Confirm, Publish
      <3>2. Confirmation(c).type \notin Handled
        BY DEF Confirmation, Handled
      <3>3. QED
        BY <2>1, <3>1, <3>2, NothingForwarded, KeptWhenSame
    <2>5. QED
      BY <2>2, <2>3, <2>4
  <1>3. InboxKeeps
    BY <1>1, InboxTaken
  <1>4. (\A id \in Nat : OnePhase(id))' /\ Serves' /\ IdsKnown'
    BY <1>1, <1>2, <1>3, QuietPhases DEF DeliveryTypes
  <1>5. TimeoutAlone'
    <2>1. Head(inbox) # Timeout
      BY <1>1 DEF Timeout, Command
    <2>2. QED
      BY <1>1, <2>1, TimeoutStaysAlone DEF SessionInv
  <1>6. ReaderReads'
    BY <1>1 DEF SessionInv, ReaderReads
  <1>7. QED
    BY <1>4, <1>5, <1>6 DEF SessionInv

(* A record moves in one of the loops of the storage thread. *)
LEMMA RecordMoved ==
  ASSUME TypeOK, TypeOK', DeliveryTypes, SessionInv, StorageStep,
         PopulateItem \/ PopulateNextType \/ FlushItem \/ FlushNextType
  PROVE  SessionInv'
  <1>1. /\ inbox' = inbox /\ batch # NoBatch
        /\ UNCHANGED <<mode, handling, requests, reader, head>>
        /\ session'.id = session.id
        /\ batch'.op = "populate" => batch.op = "populate"
    <2>1. CASE PopulateItem \/ PopulateNextType
      BY <2>1 DEF PopulateItem, PopulateNextType, StorageStep, readerVars, NoBatch, TypeOK,
                  ControlTypes, Session
    <2>2. CASE FlushItem
      BY <2>2 DEF FlushItem, StorageStep, readerVars, NoBatch
    <2>3. CASE FlushNextType
      <3>1. batch \in Loop /\ batch.op = "flush"
        BY <2>3 DEF FlushNextType, TypeOK, ControlTypes
      <3>2. batch' = NoBatch \/ batch' = [batch EXCEPT !.type = @ + 1]
        BY <2>3 DEF FlushNextType
      <3>3. batch'.op # "populate" /\ batch # NoBatch
        BY <3>1, <3>2 DEF Loop, NoBatch
      <3>4. QED
        BY <2>3, <3>3 DEF FlushNextType, StorageStep, readerVars
    <2>4. QED
      BY <2>1, <2>2, <2>3
  <1>2. AnswersKeep
    <2>1. Forward /\ published' \in Seq(OutMsg)
      BY DEF StorageStep, TypeOK, MessageTypes
    <2>2. CASE FlushItem
      BY <2>1, <2>2, SampleForwarded DEF FlushItem, Publish
    <2>3. CASE PopulateItem \/ PopulateNextType \/ FlushNextType
      <3>1. published' = <<>>
        BY <2>3 DEF PopulateItem, PopulateNextType, FlushNextType, Publish
      <3>2. QED
        BY <2>1, <3>1, NothingForwarded, KeptWhenSame
    <2>4. QED
      BY <2>2, <2>3
  <1>3. (\A id \in Nat : OnePhase(id))' /\ Serves' /\ IdsKnown'
    BY <1>1, <1>2, KeptWhenSame, QuietPhases DEF DeliveryTypes
  <1>4. TimeoutAlone'
    BY <1>1, TimeoutStaysAlone DEF SessionInv
  <1>5. ReaderReads'
    BY <1>1 DEF SessionInv, ReaderReads
  <1>6. QED
    BY <1>3, <1>4, <1>5 DEF SessionInv

(* The reader reads a session that is announced or read, and so active. *)
LEMMA ReaderServed ==
  ASSUME DeliveryTypes, SessionInv, reader # 0
  PROVE  /\ Reading(handling.id) /\ handling.id \in Nat /\ head = "split"
         /\ mode = "PIPE_ACTIVE" /\ session.id = handling.id
  <1>1. handling # NoAnswer /\ head = "split"
    BY DEF SessionInv, ReaderReads
  <1>2. handling.id \in Nat
    BY <1>1, OutMsgFields DEF DeliveryTypes
  <1>3. QED
    BY <1>1, <1>2 DEF SessionInv, Serves, Reading

(* A request, of main or of the cloud module for the rest of a session, is *)
(* refused or fills the pipe: of a session that nobody reads.              *)
LEMMA RequestTaken ==
  ASSUME TypeOK, TypeOK', DeliveryTypes, SessionInv, StorageStep, BatchRequest
  PROVE  SessionInv'
  <1>1. /\ inbox # <<>> /\ inbox' = Tail(inbox) /\ Head(inbox).type = "BATCH_REQUEST"
        /\ batch = NoBatch
        /\ UNCHANGED <<handling, requests, reader>>
    BY DEF BatchRequest, Receive, Consume, StorageStep, readerVars
  <1>2. PICK x \in Nat : Head(inbox) \in InMsg /\ x = Head(inbox).id
    BY <1>1, Received, InMsgFields DEF TypeOK
  <1>3. Head(inbox) = Request(x) /\ Head(inbox) # Timeout
    BY <1>1, <1>2 DEF InMsg, Request, Timeout, Command, Commands
  <1>4. Forward /\ published' \in Seq(OutMsg)
    BY DEF StorageStep, TypeOK, MessageTypes
  <1>5. OnePhase(x) /\ Requested(x) /\ x \in 1 .. requests
    BY <1>1, <1>2, <1>3, InboxTaken DEF SessionInv, IdsKnown, Phase
  <1>6. InboxKeeps /\ \A id \in Nat : id = x => ~Requested(id)'
    BY <1>1, <1>2, <1>3, <1>5, InboxTaken DEF OnePhase
  <1>7. requests \in Nat /\ x # 0
    BY <1>5 DEF DeliveryTypes
  <1>8. session \in Session /\ (mode = "PIPE_ACTIVE" => session.id # 0)
    BY <1>7 DEF SessionInv, IdsKnown, TypeOK, ControlTypes
  (* The three outcomes. *)
  <1>9. \/ /\ UNCHANGED <<mode, session, batch, head>>
           /\ published' = <<Response("BATCH_BUSY", x)>>
        \/ /\ mode # "PIPE_ACTIVE" \/ session.id = x
           /\ mode' = mode \/ (mode' = "PIPE_ACTIVE" /\ session'.id = x)
           /\ session'.id \in {x, session.id} /\ batch' = batch /\ head' = head
           /\ \E kind \in {"BATCH_EMPTY", "BATCH_ERROR"} :
                published' = <<Response(kind, x)>> \/ published' = <<Response(kind, x), Response(kind, x)>>
        \/ /\ mode # "PIPE_ACTIVE" \/ session.id = x
           /\ mode' = "PIPE_ACTIVE" /\ session'.id = x /\ batch'.op = "populate" /\ head' = "whole"
           /\ published' = <<>>
    <2>1. CASE mode = "PASSTHROUGH"
      BY <1>2, <2>1 DEF BatchRequest, Publish
    <2>2. CASE mode = "BUFFER_IDLE"
      <3>1. mode' = "PIPE_ACTIVE" /\ StartBatchSession(x, "entry")
        BY <1>2, <2>2 DEF BatchRequest
      <3>2. QED
        BY <1>7, <1>8, <2>2, <3>1
           DEF StartBatchSession, Refusal, Publish, DrainPipe, Batch, Session
    <2>3. CASE mode = "PIPE_ACTIVE" /\ session.id # x
      BY <1>2, <1>8, <2>3 DEF BatchRequest, Publish
    <2>4. CASE mode = "PIPE_ACTIVE" /\ session.id = x
      <3>1. mode' = mode /\ StartBatchSession(x, "run")
        BY <1>2, <1>8, <2>4 DEF BatchRequest
      <3>2. QED
        BY <1>7, <1>8, <2>4, <3>1
           DEF StartBatchSession, Refusal, Publish, DrainPipe, Batch, Session
    <2>5. QED
      BY <2>1, <2>2, <2>3, <2>4 DEF TypeOK, ControlTypes
  <1>10. \A id \in Nat :
           /\ Requested(id)' => Requested(id) /\ id # x
           /\ Closing(id)' => Closing(id)
           /\ Reading(id)' <=> Reading(id)
           /\ Announced(id)' => Announced(id)
           /\ Refused(id)' => Refused(id) \/ (id = x /\ batch' = batch)
           /\ Populating(id)' => id = x /\ batch' # batch
           /\ Once(inbox, {Request(id)}) => Once(inbox', {Request(id)})
           /\ Once(answers, Announcements(id)) => Once(answers', Announcements(id))
    <2>1. \A id \in Nat :
            /\ Requested(id)' => Requested(id) /\ id # x
            /\ Closing(id)' => Closing(id)
            /\ Reading(id)' <=> Reading(id)
            /\ Once(inbox, {Request(id)}) => Once(inbox', {Request(id)})
      BY <1>1, <1>6 DEF InboxKeeps, Reading
    <2>2. \A id \in Nat : Populating(id)' => id = x /\ batch' # batch
      BY <1>1, <1>9 DEF Populating, NoBatch
    <2>3. CASE published' = <<Response("BATCH_BUSY", x)>> \/ published' = <<>>
      <3>1. Response("BATCH_BUSY", x).type \notin Handled
        BY DEF Response, Handled
      <3>2. AnswersKeep
        BY <1>4, <2>3, <3>1, NothingForwarded, KeptWhenSame
      <3>3. QED
        BY <2>1, <2>2, <3>2 DEF AnswersKeep
    <2>4. ASSUME NEW kind \in {"BATCH_EMPTY", "BATCH_ERROR"}, batch' = batch,
                 published' = <<Response(kind, x)>> \/ published' = <<Response(kind, x), Response(kind, x)>>
          PROVE  \A id \in Nat :
                   /\ Announced(id)' => Announced(id)
                   /\ Refused(id)' => Refused(id) \/ (id = x /\ batch' = batch)
                   /\ Once(answers, Announcements(id)) => Once(answers', Announcements(id))
      BY <1>2, <1>4, <2>4, RefusalForwarded
    <2>5. QED
      BY <1>9, <2>1, <2>2, <2>3, <2>4
  <1>11. \A id \in Nat : OnePhase(id)'
    <2> TAKE id \in Nat
    <2>1. CASE id = x
      BY <1>5, <1>10, <2>1 DEF OnePhase
    <2>2. CASE id # x
      BY <1>10, <2>2 DEF SessionInv, OnePhase
    <2>3. QED
      BY <2>1, <2>2
  (* Whoever reads another session keeps it. *)
  <1>12. ASSUME NEW id \in Nat, Announced(id) \/ Reading(id)
         PROVE  mode = "PIPE_ACTIVE" /\ session.id = id /\ UNCHANGED <<mode, session, head>>
    <2>1. mode = "PIPE_ACTIVE" /\ session.id = id
      BY <1>12 DEF SessionInv, Serves
    <2>2. id # x
      BY <1>5, <1>12 DEF OnePhase
    <2>3. QED
      BY <1>9, <2>1, <2>2
  <1>13. Serves'
    <2> SUFFICES ASSUME NEW id \in Nat, Announced(id)' \/ Reading(id)'
                 PROVE  mode' = "PIPE_ACTIVE" /\ session'.id = id
      BY DEF Serves
    <2>1. QED
      BY <1>10, <1>12
  <1>14. IdsKnown'
    <2>1. \A id \in Nat : Phase(id)' => id \in 1 .. requests
      BY <1>5, <1>10 DEF SessionInv, IdsKnown, Phase
    <2>2. mode' = "PIPE_ACTIVE" => session'.id \in 1 .. requests
      BY <1>5, <1>9 DEF SessionInv, IdsKnown
    <2>3. QED
      BY <1>1, <2>1, <2>2 DEF IdsKnown
  <1>15. TimeoutAlone'
    BY <1>1, <1>3, TimeoutStaysAlone DEF SessionInv
  <1>16. ReaderReads'
    <2>1. head' # "torn"
      BY <1>9 DEF SessionInv, ReaderReads
    <2>2. ASSUME reader' # 0 PROVE handling' # NoAnswer /\ head' = "split"
      <3>1. reader # 0
        BY <1>1, <2>2
      <3>2. UNCHANGED head
        BY <1>12, <3>1, ReaderServed
      <3>3. QED
        BY <1>1, <3>1, <3>2 DEF SessionInv, ReaderReads
    <2>3. QED
      BY <2>1, <2>2 DEF ReaderReads
  <1>17. QED
    BY <1>11, <1>13, <1>14, <1>15, <1>16 DEF SessionInv

(* A close, which nobody sends of a session that is read. *)
LEMMA CloseTaken ==
  ASSUME TypeOK, TypeOK', DeliveryTypes, SessionInv, StorageStep, BatchClose
  PROVE  SessionInv'
  <1>1. /\ inbox # <<>> /\ inbox' = Tail(inbox) /\ Head(inbox).type = "BATCH_CLOSE"
        /\ batch = NoBatch /\ batch' = batch
        /\ UNCHANGED <<handling, requests, reader>>
        /\ Forward /\ published' = <<>>
    BY DEF BatchClose, Receive, Consume, Publish, StorageStep, readerVars
  <1>2. PICK x \in Nat : Head(inbox) \in InMsg /\ x = Head(inbox).id
    BY <1>1, Received, InMsgFields DEF TypeOK
  <1>3. Head(inbox) = Close(x) /\ Head(inbox) # Timeout
    BY <1>1, <1>2 DEF InMsg, Close, Timeout, Command, Commands
  <1>4. OnePhase(x) /\ Closing(x)
    BY <1>1, <1>3, InboxTaken DEF SessionInv
  <1>5. \/ UNCHANGED <<mode, session, head>>
        \/ /\ session.id = x /\ mode' = "BUFFER_IDLE" /\ head' = "whole"
    BY <1>2 DEF BatchClose, LeavePipeActive, DrainPipe
  <1>6. InboxKeeps /\ AnswersKeep
    BY <1>1, InboxTaken, NothingForwarded, KeptWhenSame
  <1>7. \A id \in Nat :
          /\ Requested(id)' => Requested(id)
          /\ ~Populating(id)'
          /\ Announced(id)' => Announced(id)
          /\ Reading(id)' <=> Reading(id)
          /\ Closing(id)' => Closing(id)
          /\ Refused(id)' => Refused(id)
    BY <1>1, <1>6 DEF InboxKeeps, AnswersKeep, Populating, Reading, NoBatch
  <1>8. \A id \in Nat : OnePhase(id)'
    BY <1>6, <1>7 DEF SessionInv, OnePhase, InboxKeeps, AnswersKeep
  <1>9. ASSUME NEW id \in Nat, Announced(id) \/ Reading(id)
        PROVE  mode = "PIPE_ACTIVE" /\ session.id = id /\ UNCHANGED <<mode, session, head>>
    <2>1. mode = "PIPE_ACTIVE" /\ session.id = id
      BY <1>9 DEF SessionInv, Serves
    <2>2. id # x
      BY <1>4, <1>9 DEF OnePhase
    <2>3. QED
      BY <1>5, <2>1, <2>2
  <1>10. Serves'
    <2> SUFFICES ASSUME NEW id \in Nat, Announced(id)' \/ Reading(id)'
                 PROVE  mode' = "PIPE_ACTIVE" /\ session'.id = id
      BY DEF Serves
    <2>1. QED
      BY <1>7, <1>9
  <1>11. IdsKnown'
    BY <1>1, <1>5, <1>7 DEF SessionInv, IdsKnown, Phase
  <1>12. TimeoutAlone'
    BY <1>1, <1>3, TimeoutStaysAlone DEF SessionInv
  <1>13. ReaderReads'
    <2>1. head' # "torn"
      BY <1>5 DEF SessionInv, ReaderReads
    <2>2. ASSUME reader' # 0 PROVE handling' # NoAnswer /\ head' = "split"
      <3>1. reader # 0
        BY <1>1, <2>2
      <3>2. UNCHANGED head
        BY <1>9, <3>1, ReaderServed
      <3>3. QED
        BY <1>1, <3>1, <3>2 DEF SessionInv, ReaderReads
    <2>3. QED
      BY <2>1, <2>2 DEF ReaderReads
  <1>14. QED
    BY <1>8, <1>10, <1>11, <1>12, <1>13 DEF SessionInv

(* A timeout, which closes a session that nobody works on any more. *)
LEMMA TimeoutTaken ==
  ASSUME TypeOK, TypeOK', DeliveryTypes, SessionInv, StorageStep, SessionTimeout
  PROVE  SessionInv'
  <1>1. /\ inbox \in Seq(InMsg) /\ inbox # <<>> /\ Head(inbox).type = "SESSION_TIMEOUT"
        /\ UNCHANGED <<batch, handling, requests, reader>> /\ Forward
    BY DEF SessionTimeout, Receive, StorageStep, readerVars, TypeOK, MessageTypes
  <1>2. Head(inbox) = Timeout
    BY <1>1, Received DEF TypeOK, InMsg, Timeout, Command, Commands
  <1>3. /\ Once(inbox, {Timeout}) /\ batch = NoBatch /\ answers = <<>> /\ handling = NoAnswer
        /\ ~Requested(session.id)
    <2>1. Has(inbox, {Timeout})
      BY <1>1, <1>2, HasTail
    <2>2. QED
      BY <2>1 DEF SessionInv, TimeoutAlone
  <1>4. PICK x \in Nat : x = session.id
    BY DEF TypeOK, ControlTypes, Session
  <1>5. \/ /\ mode = "PIPE_ACTIVE" /\ mode' = "BUFFER_IDLE" /\ head' = "whole"
           /\ inbox' = Append(Tail(inbox), Close(x))
           /\ published' = <<Close(x)>>
        \/ /\ mode # "PIPE_ACTIVE" /\ UNCHANGED <<mode, session, head>>
           /\ inbox' = Tail(inbox)
           /\ published' = <<>>
    BY <1>4 DEF SessionTimeout, LeavePipeActive, DrainPipe, Publish, Consume
  <1>6. answers' = <<>>
    <2>1. Close(x).type \notin Handled
      BY DEF Close, Handled
    <2>2. QED
      BY <1>1, <1>3, <1>5, <2>1, NothingForwarded
  <1>7. /\ \A m : Has(Tail(inbox), {m}) => Has(inbox, {m})
        /\ \A m : Once(inbox, {m}) => Once(Tail(inbox), {m})
        /\ ~Has(Tail(inbox), {Timeout})
        /\ Tail(inbox) \in Seq(InMsg)
    <2>1. \A m : Has(Tail(inbox), {m}) => Has(inbox, {m})
      BY <1>1, HasTail
    <2>2. \A m : Once(inbox, {m}) => Once(Tail(inbox), {m})
      BY <1>1, OnceTail
    <2>3. ~Has(Tail(inbox), {Timeout})
      BY <1>1, <1>2, <1>3, OnceTail
    <2>4. QED
      BY <1>1, <2>1, <2>2, <2>3, HeadTail
  <1>8. \A m : m # Close(x) =>
          /\ Has(inbox', {m}) => Has(Tail(inbox), {m})
          /\ Once(Tail(inbox), {m}) => Once(inbox', {m})
    <2>1. CASE inbox' = Tail(inbox)
      BY <2>1
    <2>2. CASE inbox' = Append(Tail(inbox), Close(x))
      <3> TAKE m
      <3> HAVE m # Close(x)
      <3>1. Has(Append(Tail(inbox), Close(x)), {m}) <=> Has(Tail(inbox), {m}) \/ Close(x) \in {m}
        BY <1>7, HasAppend
      <3>2. Once(Tail(inbox), {m}) => Once(Append(Tail(inbox), Close(x)), {m})
        BY <1>7, OnceAppend
      <3>3. QED
        BY <2>2, <3>1, <3>2
    <2>3. QED
      BY <1>5, <2>1, <2>2
  <1>9. \A id \in Nat :
          /\ Requested(id)' => Requested(id)
          /\ Once(inbox, {Request(id)}) => Once(inbox', {Request(id)})
    <2> TAKE id \in Nat
    <2>1. Request(id) # Close(x)
      BY MessagesApart
    <2>2. QED
      BY <1>7, <1>8, <2>1 DEF Requested
  <1>10. \A id \in Nat : Closing(id)' => Closing(id) \/ (id = x /\ mode = "PIPE_ACTIVE")
    <2> TAKE id \in Nat
    <2>1. CASE inbox' = Tail(inbox)
      BY <1>7, <2>1 DEF Closing
    <2>2. CASE inbox' # Tail(inbox)
      <3>1. id # x => Close(id) # Close(x)
        BY MessagesApart
      <3>2. QED
        BY <1>5, <1>7, <1>8, <2>2, <3>1 DEF Closing
    <2>3. QED
      BY <2>1, <2>2
  <1>11. \A id \in Nat : ~Populating(id)' /\ ~Announced(id)' /\ ~Reading(id)' /\ ~Refused(id)'
    BY <1>1, <1>3, <1>6, HasNone DEF Populating, Announced, Reading, Refused, NoBatch
  <1>12. \A id \in Nat : OnePhase(id)'
    <2> TAKE id \in Nat
    <2>1. Requested(id)' => ~Closing(id)'
      <3>1. ~Requested(x)
        BY <1>3, <1>4
      <3>2. Requested(id) => ~Closing(id)
        BY DEF SessionInv, OnePhase
      <3>3. QED
        BY <1>9, <1>10, <3>1, <3>2
    <2>2. Once(inbox', {Request(id)})
      BY <1>9 DEF SessionInv, OnePhase
    <2>3. Once(answers', Announcements(id))
      BY <1>6, OnceNone
    <2>4. QED
      BY <1>11, <2>1, <2>2, <2>3 DEF OnePhase
  <1>13. Serves'
    BY <1>11 DEF Serves
  <1>14. IdsKnown'
    <2>1. \A id \in Nat : Phase(id)' => id \in 1 .. requests
      <3> SUFFICES ASSUME NEW id \in Nat, Phase(id)' PROVE id \in 1 .. requests
        OBVIOUS
      <3>1. Requested(id) \/ Closing(id) \/ (id = x /\ mode = "PIPE_ACTIVE")
        BY <1>9, <1>10, <1>11 DEF Phase
      <3>2. QED
        BY <1>4, <3>1 DEF SessionInv, IdsKnown, Phase
    <2>2. QED
      BY <1>1, <1>5, <2>1 DEF IdsKnown
  <1>15. TimeoutAlone'
    <2>1. Timeout # Close(x)
      BY MessagesApart
    <2>2. QED
      BY <1>7, <1>8, <2>1 DEF TimeoutAlone
  <1>16. ReaderReads'
    BY <1>1, <1>3, <1>5 DEF SessionInv, ReaderReads
  <1>17. QED
    BY <1>12, <1>13, <1>14, <1>15, <1>16 DEF SessionInv

(* The pipe is filled: the batch is announced, or its failure reported. *)
LEMMA PipeFilled ==
  ASSUME TypeOK, TypeOK', PipeOnlyInSession, DeliveryTypes, SessionInv, StorageStep,
         PopulateDone \/ PopulateError
  PROVE  SessionInv'
  <1>1. /\ batch.op = "populate" /\ batch' = NoBatch
        /\ UNCHANGED <<mode, session, inbox, head, handling, requests, reader>>
        /\ Forward /\ published' \in Seq(OutMsg)
    BY DEF PopulateDone, PopulateError, StorageStep, readerVars, TypeOK, MessageTypes
  <1>2. PICK x \in Nat : x = session.id
    BY DEF TypeOK, ControlTypes, Session
  <1>3. mode = "PIPE_ACTIVE" /\ Populating(x)
    BY <1>1, <1>2 DEF PipeOnlyInSession, Populating
  <1>4. OnePhase(x) /\ x \in 1 .. requests
    BY <1>2, <1>3 DEF SessionInv, IdsKnown
  <1>5. \A id \in Nat :
          /\ Announced(id)' => Announced(id) \/ (id = x /\ PopulateDone)
          /\ Refused(id)' => Refused(id) \/ (id = x /\ ~PopulateDone)
          /\ Once(answers, Announcements(id)) => Once(answers', Announcements(id))
    <2>1. CASE PopulateDone
      <3>1. session.sent \in Nat /\ session.more \in {"no", "yes"}
        BY DEF TypeOK, ControlTypes, Session
      <3>2. published' = <<Available(x, session.sent, session.more)>>
        BY <1>2, <2>1 DEF PopulateDone, Publish
      <3>3. /\ \A id \in Nat : Announced(id)' <=> Announced(id) \/ id = x
            /\ \A id \in Nat : Refused(id)' <=> Refused(id)
            /\ \A id \in Nat : Once(answers, Announcements(id)) /\ (id # x \/ ~Announced(id))
                                 => Once(answers', Announcements(id))
        BY <1>1, <3>1, <3>2, AnnouncementForwarded
      <3>4. ~Announced(x)
        BY <1>3, <1>4 DEF OnePhase
      <3>5. QED
        BY <2>1, <3>3, <3>4
    <2>2. CASE ~PopulateDone
      <3>1. \/ published' = <<Response("BATCH_ERROR", x)>>
            \/ published' = <<Response("BATCH_ERROR", x), Response("BATCH_ERROR", x)>>
        BY <1>2, <2>2 DEF PopulateError, Publish, Refusal
      <3>2. /\ \A id \in Nat : Announced(id)' <=> Announced(id)
            /\ \A id \in Nat : Refused(id)' <=> Refused(id) \/ id = x
            /\ \A id \in Nat : Once(answers, Announcements(id)) => Once(answers', Announcements(id))
        BY <1>1, <3>1, RefusalForwarded
      <3>3. QED
        BY <2>2, <3>2
    <2>3. QED
      BY <2>1, <2>2
  <1>6. \A id \in Nat :
          /\ Requested(id)' <=> Requested(id)
          /\ ~Populating(id)'
          /\ Reading(id)' <=> Reading(id)
          /\ Closing(id)' <=> Closing(id)
          /\ Once(inbox, {Request(id)}) => Once(inbox', {Request(id)})
    BY <1>1 DEF Requested, Populating, Reading, Closing, NoBatch
  <1>7. \A id \in Nat : OnePhase(id)'
    <2> TAKE id \in Nat
    <2>1. CASE id = x
      BY <1>3, <1>4, <1>5, <1>6, <2>1 DEF OnePhase
    <2>2. CASE id # x
      BY <1>5, <1>6, <2>2 DEF SessionInv, OnePhase
    <2>3. QED
      BY <2>1, <2>2
  <1>8. Serves'
    <2> SUFFICES ASSUME NEW id \in Nat, Announced(id)' \/ Reading(id)'
                 PROVE  mode' = "PIPE_ACTIVE" /\ session'.id = id
      BY DEF Serves
    <2>1. id = x \/ Announced(id) \/ Reading(id)
      BY <1>5, <1>6
    <2>2. QED
      BY <1>1, <1>2, <1>3, <2>1 DEF SessionInv, Serves
  <1>9. IdsKnown'
    <2>1. \A id \in Nat : Phase(id)' => Phase(id) \/ id = x
      BY <1>5, <1>6 DEF Phase
    <2>2. QED
      BY <1>1, <1>4, <2>1 DEF SessionInv, IdsKnown
  <1>10. TimeoutAlone'
    <2>1. batch # NoBatch
      BY <1>1 DEF NoBatch
    <2>2. QED
      BY <1>1, <2>1, TimeoutStaysAlone DEF SessionInv
  <1>11. ReaderReads'
    BY <1>1 DEF SessionInv, ReaderReads
  <1>12. QED
    BY <1>7, <1>8, <1>9, <1>10, <1>11 DEF SessionInv

LEMMA StorageStepsKeepSessions ==
  ASSUME TypeOK, TypeOK', PipeOnlyInSession, DeliveryTypes, SessionInv, StorageStep
  PROVE  SessionInv'
  BY OtherMessageTaken, RecordMoved, RequestTaken, CloseTaken, TimeoutTaken, PipeFilled
     DEF StorageStep, StorageThread

(* The timer, main, the shell and the sensors. *)
LEMMA SendersKeepSessions ==
  ASSUME Prompt, TypeOK, TypeOK', DeliveryTypes, DeliveryTypes', SessionInv,
         TimeoutStep \/ SampleStep \/ SendCommand
  PROVE  SessionInv'
  <1>1. UNCHANGED <<mode, session, batch, answers, handling, reader, head>>
    BY DEF TimeoutStep, SessionTimeoutWork, SampleStep, PublishSample, SendCommand, Send, readerVars,
           cloudVars
  <1>2. requests' \in Nat /\ requests <= requests'
    BY DEF TimeoutStep, SampleStep, SendCommand, cloudVars, DeliveryTypes
  <1>3. \/ TimeoutStep /\ (inbox' = inbox \/ inbox' = Append(inbox, Timeout))
        \/ \E m : /\ inbox' = Append(inbox, m) /\ m # Timeout
                  /\ \A id \in Nat : m # Request(id) /\ m # Close(id)
    <2>1. CASE TimeoutStep
      BY <2>1 DEF TimeoutStep, SessionTimeoutWork, Timeout
    <2>2. CASE SampleStep
      <3>1. PICK t \in Types : inbox' = Append(inbox, Data(t, sampled[t] + 1))
        BY <2>2 DEF SampleStep, PublishSample, Send
      <3>2. Data(t, sampled[t] + 1) # Timeout
        BY DEF Data, Timeout, Command
      <3>3. QED
        BY <3>1, <3>2, MessagesApart
    <2>3. CASE SendCommand
      <3>1. PICK c \in SentCommands : inbox' = Append(inbox, Command(c))
        BY <2>3 DEF SendCommand, Send
      <3>2. Command(c) # Timeout
        BY SentCommandsAssumption DEF Timeout, Command
      <3>3. QED
        BY <3>1, <3>2, MessagesApart
    <2>4. QED
      BY <2>1, <2>2, <2>3
  <1>4. InboxKeeps
    <2>1. CASE inbox' = inbox
      BY <2>1, KeptWhenSame
    <2>2. ASSUME NEW m, inbox' = Append(inbox, m), \A id \in Nat : m # Request(id) /\ m # Close(id)
          PROVE  InboxKeeps
      BY <2>2, InboxAppended DEF InboxKeeps
    <2>3. QED
      BY <1>3, <2>1, <2>2, MessagesApart
  <1>5. (\A id \in Nat : OnePhase(id))' /\ Serves' /\ IdsKnown'
    BY <1>1, <1>2, <1>4, KeptWhenSame, QuietPhases
  <1>6. TimeoutAlone'
    <2>1. CASE TimeoutStep /\ inbox' = Append(inbox, Timeout)
      <3>1. inbox = <<>> /\ batch = NoBatch /\ answers = <<>> /\ handling = NoAnswer
        BY <2>1 DEF TimeoutStep, Waiting
      <3>2. inbox' # <<>> /\ Head(inbox') = Timeout /\ Once(inbox', {Timeout})
        BY <2>1, <3>1, InboxAppended, HasNone, OnceNone
      <3>3. \A id \in Nat : ~Requested(id)'
        BY <2>1, <3>1, InboxAppended, HasNone, MessagesApart DEF Requested
      <3>4. session' = session /\ session.id \in Nat
        BY <1>1 DEF TypeOK, ControlTypes, Session
      <3>5. ~Requested(session.id)'
        BY <3>3, <3>4 DEF Requested
      <3>6. QED
        BY <1>1, <3>1, <3>2, <3>5 DEF TimeoutAlone
    <2>2. CASE inbox' = inbox
      BY <1>1, <2>2, TimeoutStaysAlone DEF SessionInv
    <2>3. ASSUME NEW m, inbox' = Append(inbox, m), m # Timeout,
                 \A id \in Nat : m # Request(id) /\ m # Close(id)
          PROVE  TimeoutAlone'
      <3>1. session.id \in Nat
        BY DEF TypeOK, ControlTypes, Session
      <3>2. QED
        BY <1>1, <2>3, <3>1, TimeoutStaysAlone DEF SessionInv
    <2>4. QED
      BY <1>3, <2>1, <2>2, <2>3
  <1>7. ReaderReads'
    BY <1>1 DEF SessionInv, ReaderReads
  <1>8. QED
    BY <1>5, <1>6, <1>7 DEF SessionInv

(* Main asks for a session of a new id. *)
LEMMA NewSession ==
  ASSUME TypeOK, TypeOK', PipeOnlyInSession, DeliveryTypes, DeliveryTypes', SessionInv,
         StorageSendData
  PROVE  SessionInv'
  <1>1. /\ UNCHANGED <<mode, session, batch, answers, handling, reader, head>>
        /\ requests \in Nat /\ requests' = requests + 1
    BY DEF StorageSendData, Send, readerVars, DeliveryTypes
  <1>2. PICK x \in Nat : x = requests + 1
    BY <1>1
  <1>3. inbox' = Append(inbox, Request(x))
    BY <1>2 DEF StorageSendData, Send
  <1>4. ~Phase(x)
    <2>1. x \notin 1 .. requests
      BY <1>1, <1>2
    <2>2. QED
      BY <2>1 DEF SessionInv, IdsKnown
  <1>5. \A id \in Nat :
          /\ Requested(id)' <=> Requested(id) \/ id = x
          /\ Closing(id)' <=> Closing(id)
          /\ Once(inbox, {Request(id)}) /\ (id # x \/ ~Requested(id)) => Once(inbox', {Request(id)})
    BY <1>3, InboxAppended, MessagesApart
  <1>6. \A id \in Nat :
          /\ Populating(id)' <=> Populating(id)
          /\ Announced(id)' <=> Announced(id)
          /\ Reading(id)' <=> Reading(id)
          /\ Refused(id)' <=> Refused(id)
          /\ Once(answers, Announcements(id)) => Once(answers', Announcements(id))
    BY <1>1 DEF Populating, Announced, Reading, Refused
  <1>7. \A id \in Nat : OnePhase(id)'
    <2> TAKE id \in Nat
    <2>1. OnePhase(id)
      BY DEF SessionInv
    <2>2. CASE id = x
      BY <1>4, <1>5, <1>6, <2>1, <2>2 DEF OnePhase, Phase
    <2>3. CASE id # x
      BY <1>5, <1>6, <2>1, <2>3 DEF OnePhase
    <2>4. QED
      BY <2>2, <2>3
  <1>8. Serves'
    BY <1>1, <1>6 DEF SessionInv, Serves
  <1>9. IdsKnown'
    <2>1. \A id \in Nat : Phase(id)' => Phase(id) \/ id = x
      BY <1>5, <1>6 DEF Phase
    <2>2. x \in 1 .. requests' /\ \A n \in 1 .. requests : n \in 1 .. requests'
      BY <1>1, <1>2
    <2>3. QED
      BY <1>1, <2>1, <2>2 DEF SessionInv, IdsKnown
  <1>10. TimeoutAlone'
    <2>1. CASE Has(inbox, {Timeout})
      <3>1. PICK y \in Nat : y = session.id
        BY DEF TypeOK, ControlTypes, Session
      (* the session that timed out is not the new one *)
      <3>2. ASSUME y = x PROVE FALSE
        <4>1. CASE mode = "PIPE_ACTIVE"
          <5>1. x \in 1 .. requests
            BY <3>1, <3>2, <4>1 DEF SessionInv, IdsKnown
          <5>2. QED
            BY <1>1, <1>2, <5>1
        <4>2. CASE mode # "PIPE_ACTIVE"
          <5>1. y = 0
            BY <3>1, <4>2 DEF PipeOnlyInSession, NoSession
          <5>2. QED
            BY <1>1, <1>2, <3>2, <5>1
        <4>3. QED
          BY <4>1, <4>2
      <3>3. Request(x) \notin {Timeout, Request(session.id)}
        BY <3>1, <3>2, MessagesApart
      <3>4. QED
        BY <1>1, <1>3, <3>3, TimeoutStaysAlone DEF SessionInv
    <2>2. CASE ~Has(inbox, {Timeout})
      <3>1. ~Has(inbox', {Timeout})
        BY <1>3, <2>2, InboxAppended, MessagesApart
      <3>2. QED
        BY <3>1 DEF TimeoutAlone
    <2>3. QED
      BY <2>1, <2>2
  <1>11. ReaderReads'
    BY <1>1 DEF SessionInv, ReaderReads
  <1>12. QED
    BY <1>7, <1>8, <1>9, <1>10, <1>11 DEF SessionInv

(* The cloud module reads an item, or takes a message that ends nothing. *)
LEMMA ReadingKeepsSessions ==
  ASSUME TypeOK, TypeOK', DeliveryTypes, DeliveryTypes', SessionInv,
         \/ ReadItemHeader \/ ReadItem \/ ReadGarbage \/ RefuseGarbage
         \/ StorageDataMessage \/ DropMessage \/ CloudChanges \/ UNCHANGED allVars
  PROVE  SessionInv'
  <1>1. /\ UNCHANGED <<mode, session, batch, inbox, handling, requests>>
        /\ \/ answers' = answers
           \/ answers # <<>> /\ answers' = Tail(answers)
        /\ \/ UNCHANGED <<reader, head>>
           \/ reader' = 0 /\ head' = "whole"
           \/ handling # NoAnswer /\ head' = "split"
    <2>1. CASE ReadItemHeader
      BY <2>1 DEF ReadItemHeader, ReadHeader, cloudVars
    <2>2. CASE ReadItem
      BY <2>2 DEF ReadItem, ReadData
    <2>3. ~ReadGarbage /\ ~RefuseGarbage
      BY DEF ReadGarbage, ReadTorn, RefuseGarbage, SessionInv, ReaderReads
    <2>4. CASE StorageDataMessage \/ DropMessage
      BY <2>4 DEF StorageDataMessage, DropMessage, CloudReceive, vars
    <2>5. CASE CloudChanges
      BY <2>5 DEF CloudChanges, vars
    <2>6. CASE UNCHANGED allVars
      BY <2>6 DEF allVars, vars, cloudVars
    <2>7. QED
      BY <2>1, <2>2, <2>3, <2>4, <2>5, <2>6
  <1>2. AnswersKeep
    BY <1>1, AnswerTaken, KeptWhenSame
  <1>3. (\A id \in Nat : OnePhase(id))' /\ Serves' /\ IdsKnown'
    BY <1>1, <1>2, KeptWhenSame, QuietPhases DEF DeliveryTypes
  <1>4. TimeoutAlone'
    BY <1>1, TimeoutStaysAlone DEF SessionInv
  <1>5. ReaderReads'
    BY <1>1 DEF SessionInv, ReaderReads
  <1>6. QED
    BY <1>3, <1>4, <1>5 DEF SessionInv

(* It begins to read what was announced. *)
LEMMA ReadingBegins ==
  ASSUME TypeOK, TypeOK', DeliveryTypes, DeliveryTypes', SessionInv, BatchAvailable
  PROVE  SessionInv'
  <1>1. /\ UNCHANGED <<mode, session, batch, inbox, requests, reader, head>>
        /\ answers # <<>> /\ answers' = Tail(answers)
        /\ Head(answers).type = "BATCH_AVAILABLE"
        /\ handling = NoAnswer /\ handling' = Head(answers)
    BY DEF BatchAvailable, CloudReceive, vars
  <1>2. PICK x \in Nat : x = Head(answers).id
    BY <1>1, HeadAnswer, OutMsgFields
  <1>3. Announced(x) /\ OnePhase(x) /\ ~Announced(x)'
    BY <1>1, <1>2, AnswerTaken DEF SessionInv, OnePhase
  <1>4. AnswersKeep /\ InboxKeeps
    BY <1>1, AnswerTaken, KeptWhenSame
  <1>5. \A id \in Nat :
          /\ Requested(id)' => Requested(id)
          /\ Populating(id)' <=> Populating(id)
          /\ Announced(id)' => Announced(id) /\ id # x
          /\ Reading(id)' => id = x
          /\ Closing(id)' => Closing(id)
          /\ Refused(id)' => Refused(id)
          /\ Once(inbox, {Request(id)}) => Once(inbox', {Request(id)})
          /\ Once(answers, Announcements(id)) => Once(answers', Announcements(id))
    BY <1>1, <1>2, <1>3, <1>4 DEF InboxKeeps, AnswersKeep, Populating, Reading
  <1>6. \A id \in Nat : OnePhase(id)'
    <2> TAKE id \in Nat
    <2>1. CASE id = x
      BY <1>3, <1>5, <2>1 DEF OnePhase
    <2>2. CASE id # x
      BY <1>5, <2>2 DEF SessionInv, OnePhase
    <2>3. QED
      BY <2>1, <2>2
  <1>7. \A id \in Nat : Announced(id)' \/ Reading(id)' => Announced(id)
    BY <1>3, <1>5
  <1>8. Serves'
    BY <1>1, <1>7 DEF SessionInv, Serves
  <1>9. IdsKnown'
    <2>1. \A id \in Nat : Phase(id)' => Phase(id)
      BY <1>3, <1>5 DEF Phase
    <2>2. QED
      BY <1>1, <2>1 DEF SessionInv, IdsKnown
  <1>10. TimeoutAlone'
    BY <1>1, TimeoutStaysAlone DEF SessionInv
  <1>11. ReaderReads'
    BY <1>1 DEF SessionInv, ReaderReads
  <1>12. QED
    BY <1>6, <1>8, <1>9, <1>10, <1>11 DEF SessionInv

(* It publishes a request or a close of the session it has read, or a close *)
(* of one it does not read.                                                *)
LEMMA CloudAnswers ==
  ASSUME TypeOK, TypeOK', DeliveryTypes, DeliveryTypes', SessionInv,
         NoMoreData \/ CloseBatch
  PROVE  SessionInv'
  <1>1. \E x \in Nat, m \in InMsg :
          /\ inbox' = Append(inbox, m)
          /\ \/ /\ handling # NoAnswer /\ handling.id = x
                /\ handling' = NoAnswer /\ answers' = answers
                /\ m \in {Request(x), Close(x)} /\ reader' = 0
             \/ /\ handling = NoAnswer /\ handling' = handling
                /\ answers # <<>> /\ answers' = Tail(answers) /\ Head(answers).id = x
                /\ Head(answers).type \in {"BATCH_AVAILABLE", "BATCH_EMPTY", "BATCH_ERROR"}
                /\ m = Close(x) /\ reader' = reader
    <2>1. CASE NoMoreData
      <3>1. handling.id \in Nat
        BY <2>1, OutMsgFields DEF NoMoreData, DeliveryTypes
      <3>2. QED
        BY <2>1, <3>1, Requests DEF NoMoreData, CloudPublish
    <2>2. CASE CloseBatch
      <3>1. /\ handling = NoAnswer /\ answers # <<>> /\ answers' = Tail(answers)
            /\ Head(answers).type \in {"BATCH_AVAILABLE", "BATCH_EMPTY", "BATCH_ERROR"}
            /\ inbox' = Append(inbox, Close(Head(answers).id))
            /\ handling' = handling /\ reader' = reader
        BY <2>2 DEF CloseBatch, CloudReceive, CloudPublish
      <3>2. Head(answers).id \in Nat
        BY <3>1, HeadAnswer, OutMsgFields
      <3>3. QED
        BY <3>1, <3>2, Requests
    <2>3. QED
      BY <2>1, <2>2
  <1>2. UNCHANGED <<mode, session, batch, requests, head>>
    BY DEF NoMoreData, CloseBatch, CloudPublish
  <1>3. PICK x \in Nat, m \in InMsg :
          /\ inbox' = Append(inbox, m)
          /\ \/ /\ handling # NoAnswer /\ handling.id = x
                /\ handling' = NoAnswer /\ answers' = answers
                /\ m \in {Request(x), Close(x)} /\ reader' = 0
             \/ /\ handling = NoAnswer /\ handling' = handling
                /\ answers # <<>> /\ answers' = Tail(answers) /\ Head(answers).id = x
                /\ Head(answers).type \in {"BATCH_AVAILABLE", "BATCH_EMPTY", "BATCH_ERROR"}
                /\ m = Close(x) /\ reader' = reader
    BY <1>1
  <1>4. m \in {Request(x), Close(x)} /\ m # Timeout
    BY <1>3, MessagesApart
  <1>5. OnePhase(x) /\ Phase(x) /\ ~Requested(x) /\ ~Populating(x)
    <2>1. OnePhase(x)
      BY DEF SessionInv
    <2>2. Reading(x) \/ Announced(x) \/ Refused(x)
      BY <1>3, AnswerTaken DEF Reading
    <2>3. QED
      BY <2>1, <2>2 DEF OnePhase, Phase
  <1>6. ~Announced(x)' /\ ~Reading(x)' /\ (m = Request(x) => ~Refused(x)' /\ ~Closing(x))
    <2>1. CASE handling # NoAnswer
      <3>1. Reading(x) /\ answers' = answers /\ handling' = NoAnswer
        BY <1>3, <2>1 DEF Reading
      <3>2. QED
        BY <1>5, <3>1 DEF OnePhase, Announced, Reading, Refused
    <2>2. CASE handling = NoAnswer
      <3>1. /\ handling' = NoAnswer /\ m = Close(x) /\ answers # <<>> /\ answers' = Tail(answers)
            /\ Head(answers).id = x
            /\ Head(answers).type \in {"BATCH_AVAILABLE", "BATCH_EMPTY", "BATCH_ERROR"}
        BY <1>3, <2>2
      <3>2. m # Request(x)
        BY <3>1, MessagesApart
      <3>3. ~Announced(x)'
        <4>1. CASE Head(answers).type = "BATCH_AVAILABLE"
          BY <1>5, <3>1, <4>1, AnswerTaken DEF OnePhase
        <4>2. CASE Head(answers).type \in {"BATCH_EMPTY", "BATCH_ERROR"}
          <5>1. Refused(x) /\ AnswersKeep
            BY <3>1, <4>2, AnswerTaken
          <5>2. QED
            BY <1>5, <5>1 DEF OnePhase, AnswersKeep
        <4>3. QED
          BY <3>1, <4>1, <4>2
      <3>4. QED
        BY <3>1, <3>2, <3>3 DEF Reading
    <2>3. QED
      BY <2>1, <2>2
  <1>7. AnswersKeep
    BY <1>3, AnswerTaken, KeptWhenSame
  <1>8. \A id \in Nat :
          /\ Requested(id)' <=> Requested(id) \/ (id = x /\ m = Request(x))
          /\ Closing(id)' <=> Closing(id) \/ (id = x /\ m = Close(x))
          /\ Once(inbox, {Request(id)}) /\ (id # x \/ ~Requested(id)) => Once(inbox', {Request(id)})
    BY <1>3, <1>4, InboxAppended, MessagesApart
  <1>9. \A id \in Nat :
          /\ Populating(id)' <=> Populating(id)
          /\ Announced(id)' => Announced(id)
          /\ Reading(id)' => Reading(id)
          /\ Refused(id)' => Refused(id)
          /\ Once(answers, Announcements(id)) => Once(answers', Announcements(id))
    BY <1>2, <1>3, <1>7 DEF AnswersKeep, Populating, Reading
  <1>10. \A id \in Nat : OnePhase(id)'
    <2> TAKE id \in Nat
    <2>1. OnePhase(id)
      BY DEF SessionInv
    <2>2. CASE id = x
      <3>1. ~Populating(id)' /\ ~Announced(id)' /\ ~Reading(id)'
        BY <1>5, <1>6, <1>9, <2>2
      <3>2. Requested(id)' => ~Closing(id)' /\ ~Refused(id)'
        BY <1>5, <1>6, <1>8, <2>2, MessagesApart
      <3>3. Once(inbox', {Request(id)}) /\ Once(answers', Announcements(id))
        BY <1>5, <1>8, <1>9, <2>1, <2>2 DEF OnePhase
      <3>4. QED
        BY <3>1, <3>2, <3>3 DEF OnePhase
    <2>3. CASE id # x
      BY <1>8, <1>9, <2>1, <2>3 DEF OnePhase
    <2>4. QED
      BY <2>2, <2>3
  <1>11. Serves'
    BY <1>2, <1>9 DEF SessionInv, Serves
  <1>12. IdsKnown'
    <2>1. \A id \in Nat : Phase(id)' => Phase(id)
      BY <1>5, <1>8, <1>9 DEF Phase
    <2>2. QED
      BY <1>2, <2>1 DEF SessionInv, IdsKnown
  <1>13. TimeoutAlone'
    BY <1>3, <1>4, TimeoutStaysAlone DEF SessionInv
  <1>14. ReaderReads'
    <2>1. reader' # 0 => reader # 0 /\ handling' = handling
      BY <1>3
    <2>2. QED
      BY <1>2, <2>1 DEF SessionInv, ReaderReads
  <1>15. QED
    BY <1>10, <1>11, <1>12, <1>13, <1>14 DEF SessionInv

LEMMA SessionsStep ==
  ASSUME Prompt, TypeOK, TypeOK', PipeOnlyInSession, DeliveryTypes, DeliveryTypes', SessionInv,
         [DeliveryNext]_allVars
  PROVE  SessionInv'
  BY StorageStepsKeepSessions, SendersKeepSessions, NewSession, ReadingKeepsSessions, ReadingBegins,
     CloudAnswers DEF DeliveryNext, CloudStep

LEMMA PostsKeepPipeOnlyInSession ==
  ASSUME DeliveryTypes, PipeOnlyInSession, [DeliveryNext]_allVars
  PROVE  PipeOnlyInSession'
  <1>1. CASE Posts
    BY <1>1 DEF Posts, PipeOnlyInSession
  <1>2. QED
    BY <1>1, StepsOfStorage, PipeOnlyInSessionStep

(* A session that fills the pipe has an id. *)
SessionNamed == pipe # <<>> \/ batch.op = "populate" => session.id # 0

LEMMA SessionNamedStep ==
  ASSUME DeliveryTypes, TypeOK, PipeOnlyInSession, SessionNamed, [DeliveryNext]_allVars
  PROVE  SessionNamed'
  <1>1. session \in Session /\ batch \in Loop
    BY DEF TypeOK, ControlTypes
  <1>2. CASE BatchRequest
    BY <1>1, <1>2 DEF BatchRequest, StartBatchSession, DrainPipe, SessionNamed, PipeOnlyInSession,
                      Session, Receive, NoBatch
  <1>3. CASE BatchClose \/ SessionTimeout
    BY <1>3 DEF BatchClose, SessionTimeout, LeavePipeActive, DrainPipe, SessionNamed, Receive, NoBatch
  <1>4. CASE PopulateItem \/ PopulateNextType \/ PopulateDone \/ PopulateError
    BY <1>1, <1>4 DEF PopulateItem, PopulateNextType, PopulateDone, PopulateError, SessionNamed, NoBatch,
                      Session, Loop
  <1>5. CASE \/ PassthroughDataMsg \/ HandleDataMessage \/ PassthroughRequest \/ BufferRequest
             \/ StorageClear \/ FlushBegin \/ FlushItem \/ FlushNextType
    BY <1>1, <1>5 DEF PassthroughDataMsg, HandleDataMessage, PassthroughRequest, BufferRequest,
       StorageClear, FlushBegin, FlushItem, FlushNextType, SessionNamed, Receive, NoBatch, Batch, Loop
  <1>6. CASE Reader
    BY <1>6 DEF Reader, ReadHeader, ReadData, ReadTorn, ReadTimeout, SessionNamed
  <1>7. CASE Posts \/ SessionTimeoutWork \/ Publishers \/ UNCHANGED vars
    BY <1>7 DEF Posts, SessionTimeoutWork, Publishers, PublishCommand, PublishSample, Send, vars,
                SessionNamed
  <1>8. QED
    BY <1>2, <1>3, <1>4, <1>5, <1>6, <1>7, StepsOfStorage DEF Next, StorageThread

StorageInv ==
  /\ TypeOK /\ ReaderAligned /\ RecordOrder /\ BackendBounded
  /\ PipeOnlyInSession /\ SessionNamed /\ DeliveryTypes

LEMMA PostsKeepBackendBounded ==
  ASSUME DeliveryTypes, TypeOK, BackendBounded, [DeliveryNext]_allVars
  PROVE  BackendBounded'
  <1>1. CASE Posts
    BY <1>1 DEF Posts, BackendBounded
  <1>2. QED
    BY <1>1, StepsOfStorage, BoundedStep

LEMMA StorageInvStep ==
  ASSUME StorageInv, [DeliveryNext]_allVars
  PROVE  StorageInv'
  <1>1. TypeOK' /\ ReaderAligned' /\ RecordOrder'
    BY StorageKept DEF StorageInv
  <1>2. DeliveryTypes'
    BY <1>1, DeliveryTypesStep DEF StorageInv
  <1>3. PipeOnlyInSession'
    BY PostsKeepPipeOnlyInSession DEF StorageInv
  <1>4. BackendBounded'
    BY PostsKeepBackendBounded DEF StorageInv
  <1>5. SessionNamed'
    BY SessionNamedStep DEF StorageInv
  <1>6. QED
    BY <1>1, <1>2, <1>3, <1>4, <1>5 DEF StorageInv

LEMMA DeliveryBegins ==
  ASSUME DeliveryInit
  PROVE  StorageInv /\ SessionInv
  <1>1. TypeOK /\ ReaderAligned /\ RecordOrder
    BY StorageInit DEF DeliveryInit
  <1>2. PipeOnlyInSession /\ BackendBounded /\ SessionNamed
    BY MaxRecordsAssumption
       DEF DeliveryInit, Init, PipeOnlyInSession, NoBatch, BackendBounded, SessionNamed
  <1>3. DeliveryTypes
    BY DEF DeliveryInit, DeliveryTypes
  <1>4. /\ inbox = <<>> /\ answers = <<>> /\ handling = NoAnswer /\ batch.op = "none"
        /\ mode # "PIPE_ACTIVE" /\ reader = 0 /\ head = "whole"
    BY ModeAssumption DEF DeliveryInit, Init, NoBatch
  <1>5. \A id \in Nat : ~Phase(id)
    BY <1>4, HasNone DEF Phase, Requested, Populating, Announced, Reading, Closing, Refused
  <1>6. \A id \in Nat : OnePhase(id)
    BY <1>4, <1>5, OnceNone DEF OnePhase, Phase
  <1>7. Serves /\ IdsKnown
    BY <1>4, <1>5 DEF Serves, IdsKnown, Phase
  <1>8. TimeoutAlone /\ ReaderReads
    BY <1>4, HasNone DEF TimeoutAlone, ReaderReads
  <1>9. QED
    BY <1>1, <1>2, <1>3, <1>6, <1>7, <1>8 DEF StorageInv, SessionInv

-----------------------------------------------------------------------------
(* What the storage module promises to any others, it keeps with these.    *)
Promises ==
  /\ StorageInv /\ ConfirmedModeHolds /\ SampledBounded
  /\ CountsSoFar /\ AvailableIsTrue /\ PipeCounted

LEMMA PromisesStep ==
  ASSUME Promises, [DeliveryNext]_allVars
  PROVE  Promises'
  <1>1. StorageInv /\ StorageInv' /\ TypeOK
    BY StorageInvStep DEF Promises, StorageInv
  <1>2. CASE Posts
    <2>1. ConfirmedModeHolds' /\ SampledBounded' /\ CountsSoFar'
      BY <1>2 DEF Posts, Promises, ConfirmedModeHolds, SampledBounded, CountsSoFar
    <2>2. AvailableIsTrue'
      BY <1>2 DEF Posts, AvailableIsTrue
    <2>3. PipeCounted'
      BY <1>2 DEF Posts, Promises, PipeCounted
    <2>4. QED
      BY <1>1, <2>1, <2>2, <2>3 DEF Promises
  <1>3. CASE [Next]_vars
    BY <1>1, <1>3, ConfirmedModeStep, SampledStep, CountsStep, AvailableStep, PipeCountedStep
       DEF Promises
  <1>4. QED
    BY <1>1, <1>2, <1>3, StepsOfStorage DEF StorageInv

LEMMA PromisesBegin ==
  ASSUME DeliveryInit
  PROVE  Promises
  <1>1. StorageInv
    BY DeliveryBegins
  <1>2. ConfirmedModeHolds /\ SampledBounded /\ CountsSoFar
    BY BoundsAssumption
       DEF DeliveryInit, Init, ConfirmedModeHolds, SampledBounded, CountsSoFar, NoBatch
  <1>3. AvailableIsTrue
    BY DEF DeliveryInit, Init, AvailableIsTrue
  <1>4. PipeCounted
    BY TotalsNone DEF DeliveryInit, Init, PipeCounted, NoBatch
  <1>5. QED
    BY <1>1, <1>2, <1>3, <1>4 DEF Promises

LEMMA PromisesHold == DeliverySpec => []Promises
<1>1. Promises /\ [DeliveryNext]_allVars => Promises'
  BY PromisesStep
<1>2. DeliveryInit => Promises
  BY PromisesBegin
<1>3. QED
  BY <1>1, <1>2, PTL DEF DeliverySpec

(* Among main, the shell and the cloud module, whose messages Storage alone *)
(* does not order, storage keeps every invariant that it has with any      *)
(* others: records stay in order, the pipe is empty outside a session and  *)
(* is never overfilled, announcements and the confirmed mode are true.     *)
THEOREM StorageHoldsInDelivery ==
  DeliverySpec => [](/\ TypeOK /\ RecordOrder /\ BackendBounded
                     /\ PipeOnlyInSession /\ PipeFits
                     /\ AvailableIsTrue /\ ConfirmedModeHolds)
<1>1. Promises => /\ TypeOK /\ RecordOrder /\ BackendBounded
                  /\ PipeOnlyInSession
                  /\ AvailableIsTrue /\ ConfirmedModeHolds
  BY DEF Promises, StorageInv
<1>2. Promises => PipeFits
  BY DEF Promises, PipeCounted, Totals, PipeFits
<1>3. QED
  BY <1>1, <1>2, PromisesHold, PTL

(* And its backend stays the persistent bounded queue of BoundedFifo: in   *)
(* the composition, too, records leave the front, and only a store that    *)
(* fails half-way puts one there.                                          *)
THEOREM BackendFifoInDelivery == DeliverySpec => BackendIsFifo
<1>1. DeliveryInit => Backend!FifoInit
  BY DEF DeliveryInit, Init, Backend!FifoInit
<1>2. Promises /\ [DeliveryNext]_allVars
        => [Backend!FifoNext \/ \E t \in Types, x \in UNION {1 .. MaxItems[t] : t \in Types} :
                                Backend!StoreHalf(t, x)]_stored
  <2> SUFFICES ASSUME Promises, [DeliveryNext]_allVars
               PROVE  UNCHANGED stored \/ Backend!FifoNext \/ HalfStores
    BY DEF HalfStores
  <2>1. TypeOK /\ RecordOrder /\ SampledBounded /\ DeliveryTypes
    BY DEF Promises, StorageInv
  <2>2. CASE Posts
    BY <2>2 DEF Posts
  <2>3. QED
    BY <2>1, <2>2, StepsOfStorage, FifoStep
<1>3. QED
  BY <1>1, <1>2, PromisesHold, PTL DEF DeliverySpec, BackendIsFifo, Backend!PersistentSpec
-----------------------------------------------------------------------------
LEMMA DeliverySteps ==
  ASSUME Prompt, StorageInv, SessionInv, [DeliveryNext]_allVars
  PROVE  StorageInv' /\ SessionInv'
  <1>1. StorageInv'
    BY StorageInvStep
  <1>2. SessionInv'
    BY <1>1, SessionsStep DEF StorageInv
  <1>3. QED
    BY <1>1, <1>2

(* No drain and refill of the pipe falls between the two reads of an item,  *)
(* although nothing but the protocol keeps the storage thread from it:      *)
(* whatever the connection, the backend, main and the shell do, as long as  *)
(* no timeout falls into a session that is still worked on.                 *)
THEOREM ReadsNeverTorn ==
  ASSUME Prompt
  PROVE  DeliverySpec => []NoTornRead
<1>1. DeliveryInit => StorageInv /\ SessionInv
  BY DeliveryBegins
<1>2. StorageInv /\ SessionInv /\ [DeliveryNext]_allVars => StorageInv' /\ SessionInv'
  BY DeliverySteps
<1>3. SessionInv => NoTornRead
  BY DEF SessionInv, ReaderReads, NoTornRead
<1>4. QED
  BY <1>1, <1>2, <1>3, PTL DEF DeliverySpec
-----------------------------------------------------------------------------
(* Where a sample can be. *)
InInbox(t, n) == Has(inbox, {Data(t, n)})
InStored(t, n) == Has(stored[t], {n})
InPipe(t, n) == Has(pipe, {Item(t, n)})
InAnswers(t, n) == Has(answers, {StorageData(t, n)})

LEMMA Ways ==
  ASSUME NEW t, NEW n
  PROVE  OnItsWay(t, n) <=> \/ Item(t, n) \in delivered
                            \/ InInbox(t, n) \/ InStored(t, n) \/ InPipe(t, n) \/ InAnswers(t, n)
  BY DEF OnItsWay, InInbox, InStored, InPipe, InAnswers, Has

(* What a step does to the queues, the backend and the pipe. *)
LEMMA InboxSteps ==
  ASSUME [DeliveryNext]_allVars
  PROVE  \/ inbox' = inbox
         \/ /\ inbox # <<>> /\ inbox' = Tail(inbox)
            /\ \/ Head(inbox).type # "DATA"
               \/ StorageStep /\ (PassthroughDataMsg \/ HandleDataMessage)
         \/ \E m : inbox' = Append(inbox, m) /\ (m = Command("CLEAR") => "CLEAR" \in SentCommands)
         \/ /\ inbox # <<>> /\ Head(inbox).type # "DATA"
            /\ \E id : inbox' = Append(Tail(inbox), Close(id))
  <1>1. /\ \A t, n : Data(t, n) # Command("CLEAR")
        /\ \A id : Request(id) # Command("CLEAR") /\ Close(id) # Command("CLEAR")
        /\ Command("SESSION_TIMEOUT") # Command("CLEAR")
    BY DEF Data, Command, Request, Close
  <1>2. CASE StorageStep
    <2>1. CASE PassthroughDataMsg \/ HandleDataMessage
      BY <1>2, <2>1 DEF PassthroughDataMsg, HandleDataMessage, Receive, Consume
    <2>2. CASE \/ PassthroughRequest \/ BufferRequest \/ BatchRequest \/ BatchClose
               \/ StorageClear \/ FlushBegin
      BY <2>2 DEF PassthroughRequest, BufferRequest, BatchRequest, BatchClose, StorageClear, FlushBegin,
                  Receive, Consume
    <2>3. CASE SessionTimeout
      BY <2>3 DEF SessionTimeout, Receive, Consume
    <2>4. CASE \/ PopulateItem \/ PopulateNextType \/ PopulateDone \/ PopulateError
               \/ FlushItem \/ FlushNextType
      BY <2>4 DEF PopulateItem, PopulateNextType, PopulateDone, PopulateError, FlushItem, FlushNextType
    <2>5. QED
      BY <1>2, <2>1, <2>2, <2>3, <2>4 DEF StorageStep, StorageThread
  <1>3. CASE TimeoutStep
    BY <1>1, <1>3 DEF TimeoutStep, SessionTimeoutWork
  <1>4. CASE SampleStep \/ StorageSendData
    BY <1>1, <1>4 DEF SampleStep, PublishSample, StorageSendData, Send
  <1>5. CASE SendCommand
    <2>1. PICK c \in SentCommands : inbox' = Append(inbox, Command(c))
      BY <1>5 DEF SendCommand, Send
    <2>2. Command(c) = Command("CLEAR") => c = "CLEAR"
      BY DEF Command
    <2>3. QED
      BY <2>1, <2>2
  <1>6. CASE CloudStep
    BY <1>1, <1>6 DEF CloudStep, BatchAvailable, ReadItemHeader, ReadHeader, ReadItem, ReadData,
                      ReadGarbage, ReadTorn, RefuseGarbage, NoMoreData, CloseBatch, CloudPublish,
                      StorageDataMessage, DropMessage, vars
  <1>7. CASE CloudChanges \/ UNCHANGED allVars
    BY <1>7 DEF CloudChanges, allVars, vars
  <1>8. QED
    BY <1>2, <1>3, <1>4, <1>5, <1>6, <1>7 DEF DeliveryNext

LEMMA AnswersSteps ==
  ASSUME [DeliveryNext]_allVars
  PROVE  \/ StorageStep /\ Forward
         \/ answers' = answers
         \/ /\ answers # <<>> /\ answers' = Tail(answers)
            /\ \/ Head(answers).type # "STORAGE_DATA"
               \/ StorageDataMessage
               \/ cloud # "READY" /\ DropMessage
  <1>1. CASE StorageStep
    BY <1>1 DEF StorageStep
  <1>2. CASE TimeoutStep \/ SampleStep \/ StorageSendData \/ SendCommand
    BY <1>2 DEF TimeoutStep, SampleStep, StorageSendData, SendCommand, cloudVars
  <1>3. CASE BatchAvailable \/ CloseBatch \/ StorageDataMessage
    BY <1>3 DEF BatchAvailable, CloseBatch, StorageDataMessage, CloudReceive
  <1>4. CASE DropMessage
    BY <1>4 DEF DropMessage, CloudReceive
  <1>5. CASE ReadItemHeader \/ ReadItem \/ ReadGarbage \/ RefuseGarbage \/ NoMoreData
    BY <1>5 DEF ReadItemHeader, ReadItem, ReadGarbage, RefuseGarbage, NoMoreData, cloudVars
  <1>6. CASE CloudChanges \/ UNCHANGED allVars
    BY <1>6 DEF CloudChanges, allVars, cloudVars
  <1>7. QED
    BY <1>1, <1>2, <1>3, <1>4, <1>5, <1>6 DEF DeliveryNext, CloudStep

(* A retrieve that fails has taken the oldest record out all the same. *)
TakenInVain ==
  /\ BackendFails /\ (PopulateError \/ FlushNextType)
  /\ batch.type \in Types /\ TakeOldest(batch.type)

LEMMA RecordsSteps ==
  ASSUME [DeliveryNext]_allVars
  PROVE  /\ \/ stored' = stored
            \/ StorageStep /\ (HandleDataMessage \/ PopulateItem \/ FlushItem \/ StorageClear)
            \/ TakenInVain
         /\ \/ pipe' = pipe \/ PopulateItem \/ ReadItem \/ ReadGarbage
            \/ BatchRequest \/ BatchClose \/ SessionTimeout
         /\ delivered \subseteq delivered'
         /\ sampled' = sampled \/ SampleStep
  <1>1. CASE StorageStep
    <2>1. delivered' = delivered
      BY <1>1 DEF StorageStep
    <2>2. CASE PassthroughDataMsg \/ HandleDataMessage \/ StorageClear \/ FlushBegin
      BY <1>1, <2>1, <2>2 DEF PassthroughDataMsg, HandleDataMessage, StorageClear, FlushBegin, historyVars
    <2>3. CASE PassthroughRequest \/ BufferRequest
      BY <2>1, <2>3 DEF PassthroughRequest, BufferRequest
    <2>4. CASE BatchRequest \/ BatchClose \/ SessionTimeout
      BY <2>1, <2>4 DEF BatchRequest, BatchClose, SessionTimeout, historyVars
    <2>5. CASE \/ PopulateItem \/ PopulateNextType \/ PopulateDone \/ PopulateError
               \/ FlushItem \/ FlushNextType
      <3>1. stored' = stored \/ PopulateItem \/ FlushItem \/ TakenInVain
        BY <2>5 DEF PopulateNextType, PopulateDone, PopulateError, FlushNextType, ReadFails,
                    RetrieveFails, TakenInVain
      <3>2. (pipe' = pipe \/ PopulateItem) /\ sampled' = sampled
        BY <2>5 DEF PopulateItem, PopulateNextType, PopulateDone, PopulateError, FlushItem,
                    FlushNextType, historyVars
      <3>3. QED
        BY <1>1, <2>1, <3>1, <3>2
    <2>6. QED
      BY <1>1, <2>2, <2>3, <2>4, <2>5 DEF StorageStep, StorageThread
  <1>2. CASE TimeoutStep \/ SampleStep \/ StorageSendData \/ SendCommand
    BY <1>2 DEF TimeoutStep, SessionTimeoutWork, SampleStep, PublishSample, StorageSendData,
                SendCommand, Send, cloudVars, historyVars
  <1>3. CASE CloudStep
    BY <1>3 DEF CloudStep, BatchAvailable, ReadItemHeader, ReadHeader, ReadItem, ReadData,
                ReadGarbage, ReadTorn, RefuseGarbage, NoMoreData, CloseBatch, CloudPublish,
                StorageDataMessage, DropMessage, vars, cloudVars, historyVars
  <1>4. CASE CloudChanges \/ UNCHANGED allVars
    BY <1>4 DEF CloudChanges, allVars, vars, cloudVars
  <1>5. QED
    BY <1>1, <1>2, <1>3, <1>4 DEF DeliveryNext

(* What a step does to a sample that is in one of the places. *)
LEMMA StoringSample ==
  ASSUME StorageInv, HandleDataMessage
  PROVE  /\ Head(inbox).dt \in Types /\ Head(inbox).item \in Nat
         /\ Head(inbox) = Data(Head(inbox).dt, Head(inbox).item)
         /\ \/ stored' = [stored EXCEPT ![Head(inbox).dt] = Stored(@, Head(inbox).item)]
            \/ BackendFails /\ stored' = stored
            \/ /\ BackendFails /\ Len(stored[Head(inbox).dt]) = MaxRecords
               /\ stored' = [stored EXCEPT ![Head(inbox).dt] = StoredHalf(@, Head(inbox).item)]
         /\ 0 < Head(inbox).item /\ Head(inbox).item <= sampled[Head(inbox).dt]
         /\ \A j \in DOMAIN stored[Head(inbox).dt] : stored[Head(inbox).dt][j] < Head(inbox).item
  <1>1. /\ inbox \in Seq(InMsg) /\ inbox # <<>> /\ Head(inbox) \in InMsg /\ Head(inbox).type = "DATA"
        /\ Head(inbox) = inbox[1] /\ 1 \in DOMAIN inbox
    BY Received DEF HandleDataMessage, Receive, StorageInv, TypeOK, MessageTypes
  <1>2. PICK u \in Types, m \in Nat : u = Head(inbox).dt /\ m = Head(inbox).item
    BY <1>1, InMsgFields
  <1>3. Head(inbox) = Data(u, m)
    BY <1>1, <1>2 DEF InMsg, Data, Commands
  <1>4. m <= sampled[u] /\ \A j \in DOMAIN stored[u] : stored[u][j] < m
    BY <1>1, <1>2 DEF StorageInv, RecordOrder, InboxAfterAll
  <1>5. 0 < m
    BY <1>1, <1>2, InMsgFields
  <1>6. \/ stored' = [stored EXCEPT ![u] = Stored(@, m)]
        \/ BackendFails /\ stored' = stored
        \/ /\ BackendFails /\ Len(stored[u]) = MaxRecords
           /\ stored' = [stored EXCEPT ![u] = StoredHalf(@, m)]
    BY <1>2 DEF HandleDataMessage
  <1>7. QED
    BY <1>2, <1>3, <1>4, <1>5, <1>6

LEMMA ForwardKeeps ==
  ASSUME DeliveryTypes, TypeOK', Forward, NEW S, Has(answers, S)
  PROVE  Has(answers', S)
  <1>1. answers \in Seq(OutMsg) /\ published' \in Seq(OutMsg)
    BY DEF DeliveryTypes, TypeOK, MessageTypes
  <1>2. Has(answers \o published', S)
    BY <1>1, HasConcat
  <1>3. QED
    BY <1>2 DEF Forward

LEMMA SampleArrives ==
  ASSUME DeliveryTypes, TypeOK', Forward, NEW t, NEW n, published' = <<StorageData(t, n)>>
  PROVE  InAnswers(t, n)'
  <1>1. answers \in Seq(OutMsg) /\ published' \in Seq(OutMsg)
    BY DEF DeliveryTypes, TypeOK, MessageTypes
  <1>2. answers' = answers \o published'
    <2>1. StorageData(t, n).type \in Handled
      BY DEF StorageData, Handled
    <2>2. QED
      BY <2>1 DEF Forward
  <1>3. Has(published', {StorageData(t, n)})
    BY DEF Has
  <1>4. Has(answers', {StorageData(t, n)})
    BY <1>1, <1>2, <1>3, HasConcat
  <1>5. QED
    BY <1>4 DEF InAnswers

LEMMA FromInbox ==
  ASSUME StorageInv, TypeOK', [DeliveryNext]_allVars,
         NEW t \in Types, NEW n \in Nat, InInbox(t, n)
  PROVE  InInbox(t, n)' \/ InStored(t, n)' \/ InAnswers(t, n)' \/ StoreFails(t, n)
  <1>1. inbox \in Seq(InMsg) /\ Has(inbox, {Data(t, n)}) /\ DeliveryTypes
    BY DEF StorageInv, TypeOK, MessageTypes, InInbox
  <1>2. CASE inbox' = inbox
    BY <1>2 DEF InInbox
  <1>3. ASSUME NEW m, inbox' = Append(inbox, m) PROVE InInbox(t, n)'
    <2>1. Has(inbox', {Data(t, n)})
      BY <1>1, <1>3, HasAppend
    <2>2. QED
      BY <2>1 DEF InInbox
  <1>4. ASSUME inbox # <<>>, Head(inbox) # Data(t, n)
        PROVE  Has(Tail(inbox), {Data(t, n)}) /\ Tail(inbox) \in Seq(InMsg)
    BY <1>1, <1>4, HasTail, HeadTail
  <1>5. CASE inbox # <<>> /\ Head(inbox).type # "DATA"
    <2>1. Has(Tail(inbox), {Data(t, n)}) /\ Tail(inbox) \in Seq(InMsg)
      BY <1>4, <1>5 DEF Data
    <2>2. CASE inbox' = Tail(inbox)
      BY <2>1, <2>2 DEF InInbox
    <2>3. ASSUME NEW id, inbox' = Append(Tail(inbox), Close(id)) PROVE InInbox(t, n)'
      <3>1. Has(inbox', {Data(t, n)})
        BY <2>1, <2>3, HasAppend
      <3>2. QED
        BY <3>1 DEF InInbox
    <2>4. QED
      BY <1>2, <1>3, <1>5, <2>2, <2>3, InboxSteps
  <1>6. CASE inbox # <<>> /\ inbox' = Tail(inbox) /\ StorageStep /\ PassthroughDataMsg
    <2>1. CASE Head(inbox) # Data(t, n)
      BY <1>4, <1>6, <2>1 DEF InInbox
    <2>2. CASE Head(inbox) = Data(t, n)
      <3>1. published' = <<StorageData(t, n)>>
        BY <1>6, <2>2 DEF PassthroughDataMsg, Publish, Data
      <3>2. Forward
        BY <1>6 DEF StorageStep
      <3>3. QED
        BY <1>1, <3>1, <3>2, SampleArrives
    <2>3. QED
      BY <2>1, <2>2
  <1>7. CASE inbox # <<>> /\ inbox' = Tail(inbox) /\ HandleDataMessage
    <2>1. CASE Head(inbox) # Data(t, n)
      BY <1>4, <1>7, <2>1 DEF InInbox
    <2>2. CASE Head(inbox) = Data(t, n) /\ ~BackendFails
      <3>1. Head(inbox).dt = t /\ Head(inbox).item = n
        BY <2>2 DEF Data
      <3>2. stored' = [stored EXCEPT ![t] = Stored(@, n)]
        BY <1>7, <2>2, <3>1, StoringSample
      <3>3. stored \in [Types -> Seq(Nat)] /\ stored[t] \in Seq(Nat)
        BY DEF StorageInv, TypeOK, RecordTypes
      <3>4. PICK s \in Seq(Nat) : stored'[t] = Append(s, n)
        <4>1. stored'[t] = Stored(stored[t], n)
          BY <3>2, <3>3
        <4>2. CASE Len(stored[t]) < MaxRecords
          BY <3>3, <4>1, <4>2 DEF Stored
        <4>3. CASE ~(Len(stored[t]) < MaxRecords)
          <5>1. stored[t] # <<>>
            BY <3>3, <4>3, MaxRecordsAssumption
          <5>2. stored'[t] = Append(Tail(stored[t]), n) /\ Tail(stored[t]) \in Seq(Nat)
            BY <3>3, <4>1, <4>3, <5>1 DEF Stored
          <5>3. QED
            BY <5>2
        <4>4. QED
          BY <4>2, <4>3
      <3>5. Has(Append(s, n), {n})
        BY HasAppend
      <3>6. QED
        BY <3>4, <3>5 DEF InStored
    <2>3. CASE Head(inbox) = Data(t, n) /\ BackendFails
      BY <1>7, <2>3 DEF StoreFails
    <2>4. QED
      BY <2>1, <2>2, <2>3
  <1>8. QED
    BY <1>2, <1>3, <1>5, <1>6, <1>7, InboxSteps

LEMMA FromStored ==
  ASSUME StorageInv, TypeOK', [DeliveryNext]_allVars,
         NEW t \in Types, NEW n \in Nat, InStored(t, n)
  PROVE  \/ InStored(t, n)' \/ InPipe(t, n)' \/ InAnswers(t, n)'
         \/ DropsOldest(t, n) \/ RetrieveLoses(t, n) \/ ClearsStored(t, n)
  <1>1. /\ stored \in [Types -> Seq(Nat)] /\ stored[t] \in Seq(Nat) /\ pipe \in Seq(PipeItem)
        /\ Has(stored[t], {n}) /\ DeliveryTypes
    BY DEF StorageInv, TypeOK, RecordTypes, InStored
  <1>2. CASE stored' = stored
    BY <1>2 DEF InStored
  <1>3. CASE HandleDataMessage /\ stored' # stored
    <2>1. PICK u \in Types, m \in Nat :
            /\ u = Head(inbox).dt
            /\ \/ stored' = [stored EXCEPT ![u] = Stored(@, m)]
               \/ /\ Len(stored[u]) = MaxRecords
                  /\ stored' = [stored EXCEPT ![u] = StoredHalf(@, m)]
      BY <1>2, <1>3, StoringSample
    <2>2. CASE t # u
      BY <1>1, <2>1, <2>2 DEF InStored
    <2>3. CASE t = u /\ Len(stored[t]) < MaxRecords
      <3>1. stored'[t] = Append(stored[t], m)
        BY <1>1, <2>1, <2>3 DEF Stored
      <3>2. QED
        BY <1>1, <3>1, HasAppend DEF InStored
    <2>4. CASE t = u /\ ~(Len(stored[t]) < MaxRecords)
      <3>1. Len(stored[t]) = MaxRecords /\ stored[t] # <<>> /\ Tail(stored[t]) \in Seq(Nat)
        BY <1>1, <2>4, MaxRecordsAssumption DEF StorageInv, BackendBounded
      <3>2. \/ stored'[t] = Append(Tail(stored[t]), m)
            \/ stored'[t] = <<m>> \o Tail(stored[t])
        BY <1>1, <2>1, <2>4, <3>1 DEF Stored, StoredHalf
      <3>3. CASE Head(stored[t]) = n
        BY <1>3, <2>1, <2>4, <3>1, <3>3 DEF DropsOldest
      <3>4. CASE Head(stored[t]) # n
        <4>1. Has(Tail(stored[t]), {n})
          BY <1>1, <3>1, <3>4, HasTail
        <4>2. Has(Append(Tail(stored[t]), m), {n})
          BY <3>1, <4>1, HasAppend
        <4>3. Has(<<m>> \o Tail(stored[t]), {n})
          BY <3>1, <4>1, OneSeq, HasConcat
        <4>4. QED
          BY <3>2, <4>2, <4>3 DEF InStored
      <3>5. QED
        BY <3>3, <3>4
    <2>5. QED
      BY <2>2, <2>3, <2>4
  <1>4. CASE PopulateItem \/ (StorageStep /\ FlushItem) \/ TakenInVain
    <2>1. PICK u \in Types : /\ u = batch.type /\ stored[u] # <<>>
                             /\ stored' = [stored EXCEPT ![u] = Tail(@)]
      BY <1>4 DEF PopulateItem, FlushItem, TakenInVain, TakeOldest
    <2>2. CASE t # u \/ Head(stored[t]) # n
      <3>1. stored'[t] = stored[t] \/ (stored[t] # <<>> /\ stored'[t] = Tail(stored[t]) /\ Head(stored[t]) # n)
        BY <1>1, <2>1, <2>2
      <3>2. Has(stored'[t], {n})
        BY <1>1, <3>1, HasTail
      <3>3. QED
        BY <3>2 DEF InStored
    <2>3. CASE t = u /\ Head(stored[t]) = n
      <3>1. CASE PopulateItem
        <4>1. pipe' = Append(pipe, Item(t, n))
          BY <2>1, <2>3, <3>1 DEF PopulateItem
        <4>2. Has(pipe', {Item(t, n)})
          BY <1>1, <4>1, HasAppend
        <4>3. QED
          BY <4>2 DEF InPipe
      <3>2. CASE StorageStep /\ FlushItem
        <4>1. published' = <<StorageData(t, n)>> /\ Forward
          BY <2>1, <2>3, <3>2 DEF FlushItem, Publish, StorageStep
        <4>2. QED
          BY <1>1, <4>1, SampleArrives
      <3>3. CASE TakenInVain
        BY <2>1, <2>3, <3>3 DEF TakenInVain, RetrieveLoses
      <3>4. QED
        BY <1>4, <3>1, <3>2, <3>3
    <2>4. QED
      BY <2>2, <2>3
  <1>5. CASE StorageClear
    BY <1>1, <1>2, <1>5 DEF StorageClear, ClearsStored, Has
  <1>6. QED
    BY <1>2, <1>3, <1>4, <1>5, RecordsSteps

(* A message that drains a pipe with items is about their session.  *)
LEMMA DrainsOwnSession ==
  ASSUME StorageInv, BatchRequest \/ BatchClose \/ SessionTimeout,
         NEW t \in Types, NEW n \in Nat, InPipe(t, n)
  PROVE  InPipe(t, n)' \/ PipeDrained(t, n)
  <1>1. pipe # <<>> /\ \E i \in DOMAIN pipe : pipe[i] = Item(t, n)
    BY HasNone DEF InPipe, Has
  <1>2. mode = "PIPE_ACTIVE" /\ session.id # 0
    BY <1>1 DEF StorageInv, PipeOnlyInSession, SessionNamed
  <1>3. inbox # <<>> /\ inbox \in Seq(InMsg) /\ Head(inbox) \in InMsg
    BY Received DEF BatchRequest, BatchClose, SessionTimeout, Receive, StorageInv, TypeOK, MessageTypes
  <1>4. CASE BatchRequest
    <2>1. Head(inbox).type = "BATCH_REQUEST"
      BY <1>4 DEF BatchRequest, Receive
    <2>2. PICK x \in Nat : x = Head(inbox).id /\ Head(inbox) = Request(x)
      BY <1>3, <2>1 DEF InMsg, Request, Commands
    <2>3. CASE x = session.id
      BY <1>1, <1>2, <1>4, <2>2, <2>3 DEF PipeDrained
    <2>4. CASE x # session.id
      <3>1. pipe' = pipe
        BY <1>2, <1>4, <2>2, <2>4 DEF BatchRequest
      <3>2. QED
        BY <3>1 DEF InPipe
    <2>5. QED
      BY <2>3, <2>4
  <1>5. CASE BatchClose
    <2>1. Head(inbox).type = "BATCH_CLOSE"
      BY <1>5 DEF BatchClose, Receive
    <2>2. PICK x \in Nat : x = Head(inbox).id /\ Head(inbox) = Close(x)
      BY <1>3, <2>1 DEF InMsg, Close, Commands
    <2>3. CASE x = session.id
      BY <1>1, <1>2, <1>5, <2>2, <2>3 DEF PipeDrained
    <2>4. CASE x # session.id
      <3>1. pipe' = pipe
        BY <1>5, <2>2, <2>4 DEF BatchClose
      <3>2. QED
        BY <3>1 DEF InPipe
    <2>5. QED
      BY <2>3, <2>4
  <1>6. CASE SessionTimeout
    BY <1>1, <1>2, <1>6 DEF PipeDrained
  <1>7. QED
    BY <1>4, <1>5, <1>6

LEMMA FromPipe ==
  ASSUME StorageInv, [DeliveryNext]_allVars, NEW t \in Types, NEW n \in Nat, InPipe(t, n)
  PROVE  InPipe(t, n)' \/ Item(t, n) \in delivered' \/ PipeDrained(t, n) \/ TakenForGarbage(t, n)
  <1>1. pipe \in Seq(PipeItem) /\ Has(pipe, {Item(t, n)})
    BY DEF StorageInv, TypeOK, RecordTypes, InPipe
  <1>2. CASE pipe' = pipe
    BY <1>2 DEF InPipe
  <1>3. CASE PopulateItem
    <2>1. Has(pipe', {Item(t, n)})
      BY <1>1, <1>3, HasAppend DEF PopulateItem
    <2>2. QED
      BY <2>1 DEF InPipe
  <1>4. CASE (ReadItem \/ ReadGarbage) /\ pipe' # pipe
    <2>1. pipe # <<>> /\ pipe' = Tail(pipe) /\ (Head(pipe) \in delivered' \/ ReadGarbage)
      BY <1>4 DEF ReadItem, ReadData, ReadGarbage, ReadTorn
    <2>2. Head(pipe) = Item(t, n) \/ Has(pipe', {Item(t, n)})
      BY <1>1, <2>1, HasTail
    <2>3. QED
      BY <2>1, <2>2 DEF InPipe, TakenForGarbage
  <1>5. QED
    BY <1>2, <1>3, <1>4, RecordsSteps, DrainsOwnSession

LEMMA FromAnswers ==
  ASSUME StorageInv, TypeOK', [DeliveryNext]_allVars,
         NEW t \in Types, NEW n \in Nat, InAnswers(t, n)
  PROVE  InAnswers(t, n)' \/ Item(t, n) \in delivered' \/ CloudDrops(t, n)
  <1>1. answers \in Seq(OutMsg) /\ DeliveryTypes /\ Has(answers, {StorageData(t, n)})
    BY DEF StorageInv, DeliveryTypes, InAnswers
  <1>2. CASE answers' = answers
    BY <1>2 DEF InAnswers
  <1>3. CASE Forward
    <2>1. Has(answers', {StorageData(t, n)})
      BY <1>1, <1>3, ForwardKeeps
    <2>2. QED
      BY <2>1 DEF InAnswers
  <1>4. CASE answers # <<>> /\ answers' = Tail(answers) /\ Head(answers) # StorageData(t, n)
    <2>1. Has(answers', {StorageData(t, n)})
      BY <1>1, <1>4, HasTail
    <2>2. QED
      BY <2>1 DEF InAnswers
  <1>5. CASE StorageDataMessage /\ Head(answers) = StorageData(t, n)
    BY <1>5 DEF StorageDataMessage, StorageData, Item
  <1>6. CASE cloud # "READY" /\ DropMessage /\ Head(answers) = StorageData(t, n)
    BY <1>6 DEF CloudDrops
  <1>7. StorageData(t, n).type = "STORAGE_DATA"
    BY DEF StorageData
  <1>8. QED
    BY <1>2, <1>3, <1>4, <1>5, <1>6, <1>7, AnswersSteps

(* Every sample stays on its way, or is lost in one of the known ways. *)
LEMMA StaysOrLost ==
  ASSUME StorageInv, StorageInv', [DeliveryNext]_allVars,
         NEW t \in Types, NEW n \in Nat, OnItsWay(t, n)
  PROVE  \/ OnItsWay(t, n)'
         \/ DropsOldest(t, n) \/ StoreFails(t, n) \/ RetrieveLoses(t, n) \/ ClearsStored(t, n)
         \/ CloudDrops(t, n) \/ PipeDrained(t, n) \/ TakenForGarbage(t, n)
  <1>1. TypeOK'
    BY DEF StorageInv
  <1>2. \/ Item(t, n) \in delivered
        \/ InInbox(t, n) \/ InStored(t, n) \/ InPipe(t, n) \/ InAnswers(t, n)
    BY Ways
  <1>3. \/ Item(t, n) \in delivered'
        \/ InInbox(t, n)' \/ InStored(t, n)' \/ InPipe(t, n)' \/ InAnswers(t, n)'
        \/ DropsOldest(t, n) \/ StoreFails(t, n) \/ RetrieveLoses(t, n) \/ ClearsStored(t, n)
        \/ CloudDrops(t, n) \/ PipeDrained(t, n) \/ TakenForGarbage(t, n)
    BY <1>1, <1>2, RecordsSteps, FromInbox, FromStored, FromPipe, FromAnswers
  <1>4. QED
    BY <1>3 DEF OnItsWay, InInbox, InStored, InPipe, InAnswers, Has

(* Whatever the connection, the backend, main, the shell and the timeout   *)
(* do, at any moment and in any order: a sample leaves its way from the    *)
(* sensor to the cloud only in the ways that LossIsKnown names.            *)
THEOREM EveryLossIsKnown == DeliverySpec => LossIsKnown
<1>1. StorageInv /\ StorageInv' /\ [DeliveryNext]_allVars
        => [\A t \in Types : \A n \in 1 .. sampled[t] :
              OnItsWay(t, n) =>
                \/ OnItsWay(t, n)'
                \/ DropsOldest(t, n) \/ StoreFails(t, n) \/ RetrieveLoses(t, n) \/ ClearsStored(t, n)
                \/ CloudDrops(t, n) \/ PipeDrained(t, n) \/ TakenForGarbage(t, n)]_allVars
  <2> SUFFICES ASSUME StorageInv, StorageInv', [DeliveryNext]_allVars,
                      NEW t \in Types, NEW n \in 1 .. sampled[t], OnItsWay(t, n)
               PROVE  \/ OnItsWay(t, n)'
                      \/ DropsOldest(t, n) \/ StoreFails(t, n) \/ RetrieveLoses(t, n) \/ ClearsStored(t, n)
                      \/ CloudDrops(t, n) \/ PipeDrained(t, n) \/ TakenForGarbage(t, n)
    OBVIOUS
  <2>1. n \in Nat
    BY DEF StorageInv, TypeOK, RecordTypes
  <2>2. QED
    BY <2>1, StaysOrLost
<1>2. DeliveryInit => StorageInv
  BY DeliveryBegins
<1>3. StorageInv /\ [DeliveryNext]_allVars => StorageInv'
  BY StorageInvStep
<1>4. QED
  BY <1>1, <1>2, <1>3, PTL DEF DeliverySpec, LossIsKnown
-----------------------------------------------------------------------------
(* A session that is announced, or that the cloud module reads, is neither *)
(* drained nor filled again, and no read of it is torn.                    *)
LEMMA NothingDrainedWhileServed ==
  ASSUME StorageInv, SessionInv, [DeliveryNext]_allVars,
         NEW id \in Nat, Announced(id) \/ Reading(id)
  PROVE  pipe' = pipe \/ ReadItem
  <1>1. mode = "PIPE_ACTIVE" /\ session.id = id /\ id # 0 /\ id \in 1 .. requests
    <2>1. mode = "PIPE_ACTIVE" /\ session.id = id /\ id \in 1 .. requests
      BY DEF SessionInv, Serves, IdsKnown, Phase
    <2>2. requests \in Nat
      BY DEF StorageInv, DeliveryTypes
    <2>3. QED
      BY <2>1, <2>2
  <1>2. ~Requested(id) /\ ~Populating(id) /\ ~Closing(id)
    BY DEF SessionInv, OnePhase
  <1>3. ~PopulateItem
    BY <1>1, <1>2 DEF PopulateItem, Populating
  <1>4. ~ReadGarbage
    BY DEF ReadGarbage, ReadTorn, SessionInv, ReaderReads
  <1>5. ASSUME inbox # <<>>
        PROVE  inbox \in Seq(InMsg) /\ Head(inbox) \in InMsg /\ Has(inbox, {Head(inbox)})
    BY <1>5, Received, HasTail DEF StorageInv, TypeOK, MessageTypes
  <1>6. ASSUME BatchRequest PROVE pipe' = pipe
    <2>1. inbox # <<>> /\ Head(inbox).type = "BATCH_REQUEST"
      BY <1>6 DEF BatchRequest, Receive
    <2>2. Head(inbox) = Request(Head(inbox).id)
      BY <1>5, <2>1 DEF InMsg, Request, Commands
    <2>3. Head(inbox).id # id
      BY <1>2, <1>5, <2>1, <2>2 DEF Requested
    <2>4. QED
      BY <1>1, <1>6, <2>3 DEF BatchRequest
  <1>7. ASSUME BatchClose PROVE pipe' = pipe
    <2>1. inbox # <<>> /\ Head(inbox).type = "BATCH_CLOSE"
      BY <1>7 DEF BatchClose, Receive
    <2>2. Head(inbox) = Close(Head(inbox).id)
      BY <1>5, <2>1 DEF InMsg, Close, Commands
    <2>3. Head(inbox).id # id
      BY <1>2, <1>5, <2>1, <2>2 DEF Closing
    <2>4. QED
      BY <1>1, <1>7, <2>3 DEF BatchClose
  <1>8. ~SessionTimeout
    <2> SUFFICES ASSUME SessionTimeout PROVE FALSE
      OBVIOUS
    <2>1. inbox # <<>> /\ Head(inbox).type = "SESSION_TIMEOUT"
      BY DEF SessionTimeout, Receive
    <2>2. Head(inbox) = Timeout
      BY <1>5, <2>1 DEF InMsg, Timeout, Command, Commands
    <2>3. answers = <<>> /\ handling = NoAnswer
      BY <1>5, <2>1, <2>2 DEF SessionInv, TimeoutAlone
    <2>4. QED
      BY <2>3, HasNone DEF Announced, Reading
  <1>9. QED
    BY <1>3, <1>4, <1>6, <1>7, <1>8, RecordsSteps

(* The items of a batch that is announced or read leave the pipe by its    *)
(* reads only, and none is added: with prompt sessions a pipe is drained   *)
(* only for a batch that failed, or that the cloud module did not take.    *)
BatchesKept ==
  [][(\E id \in Nat : Announced(id) \/ Reading(id)) => pipe' = pipe \/ ReadItem]_allVars

THEOREM BatchesKeptForReader ==
  ASSUME Prompt
  PROVE  DeliverySpec => BatchesKept
<1>1. StorageInv /\ SessionInv /\ [DeliveryNext]_allVars
        => [(\E id \in Nat : Announced(id) \/ Reading(id)) => pipe' = pipe \/ ReadItem]_allVars
  BY NothingDrainedWhileServed
<1>2. DeliveryInit => StorageInv /\ SessionInv
  BY DeliveryBegins
<1>3. StorageInv /\ SessionInv /\ [DeliveryNext]_allVars => StorageInv' /\ SessionInv'
  BY DeliverySteps
<1>4. QED
  BY <1>1, <1>2, <1>3, PTL DEF DeliverySpec, BatchesKept
-----------------------------------------------------------------------------
(* A cloud module that stays ready, a backend that is free of errors, and  *)
(* a prompt session.                                                       *)
Served ==
  /\ Prompt
  /\ CloudStates = {"READY"}
  /\ ~BackendFails

(* Then what is in the pipe belongs to a session that is worked on.        *)
PipeServed ==
  pipe # <<>> => Populating(session.id) \/ Announced(session.id) \/ Reading(session.id)

ReadyInv == cloud = "READY" /\ PipeServed

DeliveryInv == StorageInv /\ SessionInv /\ ReadyInv

(* The steps that are left. *)
Thread ==
  /\ StorageStep
  /\ \/ PassthroughDataMsg \/ HandleDataMessage \/ PassthroughRequest \/ BufferRequest
     \/ BatchRequest \/ BatchClose \/ SessionTimeout
     \/ PopulateItem \/ PopulateNextType \/ PopulateDone
     \/ StorageClear \/ FlushBegin \/ FlushItem \/ FlushNextType

Senders == TimeoutStep \/ SampleStep \/ StorageSendData \/ SendCommand

Cloud ==
  \/ BatchAvailable \/ ReadItemHeader \/ ReadItem \/ NoMoreData \/ CloseBatch \/ StorageDataMessage

LEMMA ReadySteps ==
  ASSUME Served, DeliveryInv, [DeliveryNext]_allVars
  PROVE  Thread \/ Senders \/ Cloud \/ UNCHANGED allVars
  <1>1. ASSUME StorageStep PROVE Thread
    <2>1. ~PopulateError
      BY DEF PopulateError, ReadFails, RetrieveFails, Served
    <2>2. QED
      BY <1>1, <2>1 DEF StorageStep, StorageThread, Thread
  <1>2. ~ReadGarbage /\ ~RefuseGarbage
    BY DEF ReadGarbage, ReadTorn, RefuseGarbage, DeliveryInv, SessionInv, ReaderReads
  <1>3. ~DropMessage
    BY DEF DropMessage, DeliveryInv, ReadyInv
  <1>4. ~CloudChanges
    BY DEF CloudChanges, Served, DeliveryInv, ReadyInv
  <1>5. QED
    BY <1>1, <1>2, <1>3, <1>4 DEF DeliveryNext, CloudStep, Senders, Cloud

(* No message drains a pipe that holds items, or ends their session. *)
LEMMA NothingDrained ==
  ASSUME DeliveryInv, BatchRequest \/ BatchClose \/ SessionTimeout
  PROVE  pipe' = pipe /\ (pipe # <<>> => UNCHANGED <<session, batch>>)
  <1>1. MessageTypes /\ TypeOK /\ session.id \in Nat
    BY DEF DeliveryInv, StorageInv, TypeOK, ControlTypes, Session
  <1>2. batch = NoBatch /\ inbox # <<>> /\ ~Populating(session.id)
    BY DEF BatchRequest, BatchClose, SessionTimeout, Receive, Populating, NoBatch
  <1>3. inbox \in Seq(InMsg) /\ Head(inbox) \in InMsg
    BY <1>1, <1>2, Received DEF MessageTypes
  <1>4. ASSUME pipe # <<>>
        PROVE  /\ mode = "PIPE_ACTIVE"
               /\ Announced(session.id) \/ Reading(session.id)
               /\ ~Requested(session.id) /\ ~Closing(session.id)
    <2>1. mode = "PIPE_ACTIVE" /\ (Announced(session.id) \/ Reading(session.id))
      BY <1>2, <1>4 DEF DeliveryInv, StorageInv, ReadyInv, PipeOnlyInSession, PipeServed
    <2>2. OnePhase(session.id)
      BY <1>1 DEF DeliveryInv, SessionInv
    <2>3. QED
      BY <2>1, <2>2 DEF OnePhase
  <1>5. CASE BatchRequest
    <2>1. Head(inbox).type = "BATCH_REQUEST"
      BY <1>5 DEF BatchRequest, Receive
    <2>2. PICK x \in Nat : x = Head(inbox).id /\ Head(inbox) = Request(x)
      BY <1>3, <2>1 DEF InMsg, Request, Commands
    <2>3. Requested(x)
      BY <1>2, <1>3, <2>2, HasTail DEF Requested
    <2>4. ASSUME pipe # <<>> PROVE mode = "PIPE_ACTIVE" /\ session.id # x
      BY <1>4, <2>3, <2>4
    <2>5. session.id # 0 \/ pipe = <<>>
      BY <1>1, <1>4, <2>4 DEF DeliveryInv, SessionInv, IdsKnown, StorageInv, DeliveryTypes
    <2>6. CASE pipe # <<>>
      BY <1>5, <2>2, <2>4, <2>5, <2>6 DEF BatchRequest
    <2>7. CASE pipe = <<>>
      BY <1>5, <2>7 DEF BatchRequest, StartBatchSession, DrainPipe
    <2>8. QED
      BY <2>6, <2>7
  <1>6. CASE BatchClose
    <2>1. Head(inbox).type = "BATCH_CLOSE"
      BY <1>6 DEF BatchClose, Receive
    <2>2. PICK x \in Nat : x = Head(inbox).id /\ Head(inbox) = Close(x)
      BY <1>3, <2>1 DEF InMsg, Close, Commands
    <2>3. Closing(x)
      BY <1>2, <1>3, <2>2, HasTail DEF Closing
    <2>4. CASE pipe # <<>>
      <3>1. session.id # x
        BY <1>4, <2>3, <2>4
      <3>2. QED
        BY <1>6, <2>2, <3>1 DEF BatchClose
    <2>5. CASE pipe = <<>>
      BY <1>6, <2>5 DEF BatchClose, LeavePipeActive, DrainPipe
    <2>6. QED
      BY <2>4, <2>5
  <1>7. CASE SessionTimeout
    <2>1. Head(inbox).type = "SESSION_TIMEOUT"
      BY <1>7 DEF SessionTimeout, Receive
    <2>2. Head(inbox) = Timeout
      BY <1>3, <2>1 DEF InMsg, Timeout, Command, Commands
    <2>3. Has(inbox, {Timeout})
      BY <1>2, <1>3, <2>2, HasTail
    <2>4. answers = <<>> /\ handling = NoAnswer
      BY <2>3 DEF DeliveryInv, SessionInv, TimeoutAlone
    <2>5. pipe = <<>>
      BY <1>4, <2>4, HasNone DEF Announced, Reading
    <2>6. QED
      BY <1>7, <2>5 DEF SessionTimeout, LeavePipeActive, DrainPipe
  <1>8. QED
    BY <1>5, <1>6, <1>7

LEMMA StaysServed ==
  ASSUME DeliveryInv, session'.id = session.id, handling' = handling,
         pipe # <<>> \/ pipe' = <<>>,
         batch.op = "populate" => batch'.op = "populate",
         \A S : Has(answers, S) => Has(answers', S)
  PROVE  PipeServed'
  <1>1. ASSUME pipe # <<>>
        PROVE  Populating(session.id)' \/ Announced(session.id)' \/ Reading(session.id)'
    <2>1. Populating(session.id) \/ Announced(session.id) \/ Reading(session.id)
      BY <1>1 DEF DeliveryInv, ReadyInv, PipeServed
    <2>2. QED
      BY <2>1 DEF Populating, Announced, Reading
  <1>2. QED
    BY <1>1 DEF PipeServed

LEMMA ThreadServes ==
  ASSUME Served, DeliveryInv, TypeOK', Thread
  PROVE  PipeServed'
  <1>1. /\ DeliveryTypes /\ Forward /\ handling' = handling
        /\ \A S : Has(answers, S) => Has(answers', S)
    <2>1. DeliveryTypes /\ Forward /\ handling' = handling
      BY DEF DeliveryInv, StorageInv, Thread, StorageStep
    <2>2. QED
      BY <2>1, ForwardKeeps
  <1>2. session \in Session /\ batch \in Loop
    BY DEF DeliveryInv, StorageInv, TypeOK, ControlTypes
  <1>3. CASE PopulateItem \/ PopulateNextType
    <2>1. batch'.op = "populate"
      BY <1>2, <1>3 DEF PopulateItem, PopulateNextType, Loop
    <2>2. QED
      BY <2>1 DEF PipeServed, Populating
  <1>4. CASE PopulateDone
    <2>1. PICK x \in Nat, k \in Nat, more \in {"no", "yes"} :
            x = session.id /\ k = session.sent /\ more = session.more
      BY <1>2 DEF Session
    <2>2. published' = <<Available(x, k, more)>> /\ session' = session
      BY <1>4, <2>1 DEF PopulateDone, Publish
    <2>3. published' \in Seq(OutMsg)
      BY DEF TypeOK, MessageTypes
    <2>4. Announced(x)'
      BY <1>1, <2>2, <2>3, AnnouncementForwarded
    <2>5. Announced(session.id)'
      BY <2>1, <2>2, <2>4 DEF Announced
    <2>6. QED
      BY <2>5 DEF PipeServed
  <1>5. CASE BatchRequest \/ BatchClose \/ SessionTimeout
    <2>1. CASE pipe = <<>>
      BY <1>5, <2>1, NothingDrained DEF PipeServed
    <2>2. CASE pipe # <<>>
      BY <1>1, <1>5, <2>2, NothingDrained, StaysServed
    <2>3. QED
      BY <2>1, <2>2
  <1>6. CASE \/ PassthroughDataMsg \/ HandleDataMessage \/ PassthroughRequest \/ BufferRequest
             \/ StorageClear \/ FlushBegin \/ FlushItem \/ FlushNextType
    <2>1. batch.op # "populate"
      BY <1>6 DEF PassthroughDataMsg, HandleDataMessage, PassthroughRequest, BufferRequest, StorageClear,
                  FlushBegin, FlushItem, FlushNextType, Receive, NoBatch
    <2>2. session' = session /\ pipe' = pipe
      BY <1>6 DEF PassthroughDataMsg, HandleDataMessage, PassthroughRequest, BufferRequest, StorageClear,
                  FlushBegin, FlushItem, FlushNextType
    <2>3. pipe # <<>> \/ pipe' = <<>>
      BY <2>2
    <2>4. QED
      BY <1>1, <2>1, <2>2, <2>3, StaysServed
  <1>7. QED
    BY <1>3, <1>4, <1>5, <1>6 DEF Thread

LEMMA OthersServe ==
  ASSUME DeliveryInv, TypeOK', Senders \/ Cloud \/ UNCHANGED allVars
  PROVE  PipeServed'
  <1>1. answers \in Seq(OutMsg) /\ pipe \in Seq(PipeItem)
    BY DEF DeliveryInv, StorageInv, DeliveryTypes, TypeOK, RecordTypes
  <1>2. ASSUME answers' = answers, UNCHANGED <<session, batch, handling>>,
               pipe' = pipe \/ (pipe # <<>> /\ pipe' = Tail(pipe))
        PROVE  PipeServed'
    <2>1. pipe # <<>> \/ pipe' = <<>>
      BY <1>2
    <2>2. QED
      BY <1>2, <2>1, StaysServed
  <1>3. CASE Senders \/ UNCHANGED allVars
    <2>1. answers' = answers /\ UNCHANGED <<session, batch, handling>> /\ pipe' = pipe
      BY <1>3 DEF Senders, TimeoutStep, SessionTimeoutWork, SampleStep, PublishSample, StorageSendData,
                  SendCommand, Send, allVars, vars, cloudVars
    <2>2. QED
      BY <1>2, <2>1
  <1>4. CASE ReadItemHeader \/ ReadItem
    BY <1>2, <1>4 DEF ReadItemHeader, ReadHeader, ReadItem, ReadData, cloudVars
  <1>5. CASE NoMoreData
    BY <1>5 DEF NoMoreData, CloudPublish, PipeServed
  <1>6. CASE BatchAvailable
    <2>1. /\ answers # <<>> /\ answers' = Tail(answers) /\ handling = NoAnswer
          /\ handling' = Head(answers)
          /\ Head(answers).type = "BATCH_AVAILABLE" /\ UNCHANGED <<session, batch, pipe>>
      BY <1>6 DEF BatchAvailable, CloudReceive, vars
    <2>2. CASE Head(answers).id = session.id
      <3>1. handling' # NoAnswer
        BY <2>1 DEF NoAnswer
      <3>2. QED
        BY <2>1, <2>2, <3>1 DEF PipeServed, Reading
    <2>3. CASE Head(answers).id # session.id
      <3>1. Head(answers) \notin Announcements(session.id)
        BY <2>3 DEF Announcements
      <3>2. Announced(session.id) => Has(answers', Announcements(session.id))
        BY <1>1, <2>1, <3>1, HasTail DEF Announced
      <3>3. Populating(session.id)' <=> Populating(session.id)
        BY <2>1 DEF Populating
      <3>4. ~Reading(session.id)
        BY <2>1 DEF Reading
      <3>5. QED
        BY <2>1, <3>2, <3>3, <3>4 DEF DeliveryInv, ReadyInv, PipeServed, Announced
    <2>4. QED
      BY <2>2, <2>3
  <1>7. CASE CloseBatch \/ StorageDataMessage
    <2>1. /\ answers # <<>> /\ answers' = Tail(answers) /\ Head(answers).type # "BATCH_AVAILABLE"
          /\ UNCHANGED <<session, batch, pipe, handling>>
      BY <1>7 DEF CloseBatch, StorageDataMessage, CloudReceive, CloudPublish, vars, DeliveryInv, ReadyInv
    <2>2. Head(answers) \notin Announcements(session.id)
      BY <2>1 DEF Announcements
    <2>3. Announced(session.id) => Has(answers', Announcements(session.id))
      BY <1>1, <2>1, <2>2, HasTail DEF Announced
    <2>4. /\ Populating(session.id)' <=> Populating(session.id)
          /\ Reading(session.id)' <=> Reading(session.id)
      BY <2>1 DEF Populating, Reading
    <2>5. QED
      BY <2>1, <2>3, <2>4 DEF DeliveryInv, ReadyInv, PipeServed, Announced
  <1>8. QED
    BY <1>3, <1>4, <1>5, <1>6, <1>7 DEF Cloud

LEMMA DeliveryInvStep ==
  ASSUME Served, DeliveryInv, [DeliveryNext]_allVars
  PROVE  DeliveryInv'
  <1>1. StorageInv' /\ SessionInv'
    BY DeliverySteps DEF DeliveryInv, Served
  <1>2. TypeOK'
    BY <1>1 DEF StorageInv
  <1>3. Thread \/ Senders \/ Cloud \/ UNCHANGED allVars
    BY ReadySteps
  <1>4. cloud' = "READY"
    BY <1>3 DEF Thread, StorageStep, Senders, TimeoutStep, SampleStep, StorageSendData, SendCommand,
                Cloud, BatchAvailable, ReadItemHeader, ReadItem, NoMoreData, CloseBatch,
                StorageDataMessage, cloudVars, allVars, DeliveryInv, ReadyInv
  <1>5. PipeServed'
    BY <1>2, <1>3, ThreadServes, OthersServe
  <1>6. QED
    BY <1>1, <1>4, <1>5 DEF DeliveryInv, ReadyInv

LEMMA DeliveryInvBegins == DeliveryInit => DeliveryInv
  <1> SUFFICES ASSUME DeliveryInit PROVE DeliveryInv
    OBVIOUS
  <1>1. StorageInv /\ SessionInv
    BY DeliveryBegins
  <1>2. cloud = "READY" /\ pipe = <<>>
    BY DEF DeliveryInit, Init
  <1>3. QED
    BY <1>1, <1>2 DEF DeliveryInv, ReadyInv, PipeServed

LEMMA DeliveryInvHolds ==
  ASSUME Served
  PROVE  DeliverySpec => []DeliveryInv
<1>1. DeliveryInv /\ [DeliveryNext]_allVars => DeliveryInv'
  BY DeliveryInvStep
<1>2. QED
  BY <1>1, DeliveryInvBegins, PTL DEF DeliverySpec

(* Then no message is dropped, no read is torn and no pipe is drained, so  *)
(* every sample stays on its way but for two of the ways to lose one.      *)
LEMMA StaysOnItsWay ==
  ASSUME Served, DeliveryInv, DeliveryInv', [DeliveryNext]_allVars,
         NEW t \in Types, NEW n \in Nat, OnItsWay(t, n)
  PROVE  OnItsWay(t, n)' \/ DropsOldest(t, n) \/ ClearsStored(t, n)
  <1>1. StorageInv /\ StorageInv'
    BY DEF DeliveryInv
  <1>2. ~StoreFails(t, n) /\ ~RetrieveLoses(t, n)
    BY DEF StoreFails, RetrieveLoses, Served
  <1>3. ~CloudDrops(t, n)
    BY DEF CloudDrops, DeliveryInv, ReadyInv
  <1>4. ~TakenForGarbage(t, n)
    BY DEF TakenForGarbage, ReadGarbage, ReadTorn, DeliveryInv, SessionInv, ReaderReads
  <1>5. ASSUME PipeDrained(t, n) PROVE OnItsWay(t, n)'
    <2>1. InPipe(t, n) /\ pipe' = pipe
      BY <1>5, NothingDrained DEF PipeDrained, InPipe, Has
    <2>2. QED
      BY <2>1 DEF InPipe, OnItsWay, Has
  <1>6. QED
    BY <1>1, <1>2, <1>3, <1>4, <1>5, StaysOrLost

(* A sample that is on its way stays on it, from the sensor to the cloud   *)
(* connection, unless it is the oldest of its type in a full backend when  *)
(* a newer one is stored, or the backend is cleared outside a session:     *)
(* nothing else loses one, in whatever order main and the shell ask for    *)
(* batches, flushes and modes, and however small pipe and backend are,     *)
(* while the cloud module is ready, the backend has no errors and sessions *)
(* are prompt.                                                             *)
OnlyKnownLosses ==
  [][\A t \in Types : \A n \in 1 .. sampled[t] :
       OnItsWay(t, n) => OnItsWay(t, n)' \/ DropsOldest(t, n) \/ ClearsStored(t, n)]_allVars

THEOREM LossesAlwaysKnown ==
  ASSUME Served
  PROVE  DeliverySpec => OnlyKnownLosses
<1>1. DeliveryInv /\ DeliveryInv' /\ [DeliveryNext]_allVars
        => [\A t \in Types : \A n \in 1 .. sampled[t] :
              OnItsWay(t, n) => OnItsWay(t, n)' \/ DropsOldest(t, n) \/ ClearsStored(t, n)]_allVars
  <2> SUFFICES ASSUME DeliveryInv, DeliveryInv', [DeliveryNext]_allVars,
                      NEW t \in Types, NEW n \in 1 .. sampled[t], OnItsWay(t, n)
               PROVE  OnItsWay(t, n)' \/ DropsOldest(t, n) \/ ClearsStored(t, n)
    OBVIOUS
  <2>1. n \in Nat
    BY DEF DeliveryInv, StorageInv, TypeOK, RecordTypes
  <2>2. QED
    BY <2>1, StaysOnItsWay
<1>2. QED
  BY <1>1, DeliveryInvHolds, PTL DEF DeliverySpec, OnlyKnownLosses
-----------------------------------------------------------------------------
(* Nothing is lost at all when nobody clears and the backend has room for  *)
(* all samples.                                                            *)
Lossless ==
  /\ Served
  /\ "CLEAR" \notin SentCommands
  /\ \A t \in Types : MaxItems[t] <= MaxRecords

NoClear == ~Has(inbox, {Command("CLEAR")})

(* The record at a place is no older than the sample of that number.       *)
StoredBelow == \A t \in Types : \A j \in DOMAIN stored[t] : j <= stored[t][j]

RoomInv == NoClear /\ StoredBelow /\ SampledBounded

LEMMA NeverCleared ==
  ASSUME DeliveryInv, NoClear
  PROVE  ~StorageClear
  <1> SUFFICES ASSUME StorageClear PROVE FALSE
    OBVIOUS
  <1>1. inbox \in Seq(InMsg) /\ inbox # <<>> /\ Head(inbox).type = "CLEAR"
    BY DEF StorageClear, Receive, DeliveryInv, StorageInv, TypeOK, MessageTypes
  <1>2. Head(inbox) = Command("CLEAR")
    BY <1>1, Received DEF InMsg, Command, Commands, MessageTypes
  <1>3. QED
    BY <1>1, <1>2, HasTail DEF NoClear

LEMMA RoomForSample ==
  ASSUME Lossless, DeliveryInv, RoomInv, HandleDataMessage
  PROVE  /\ Head(inbox).dt \in Types /\ Head(inbox).item \in Nat
         /\ Len(stored[Head(inbox).dt]) < Head(inbox).item
         /\ Len(stored[Head(inbox).dt]) < MaxRecords
         /\ stored' = [stored EXCEPT ![Head(inbox).dt] = Append(@, Head(inbox).item)]
  <1>1. PICK u \in Types, m \in Nat : u = Head(inbox).dt /\ m = Head(inbox).item
    BY StoringSample DEF DeliveryInv
  <1>2. /\ stored' = [stored EXCEPT ![u] = Stored(@, m)]
        /\ 0 < m /\ m <= sampled[u] /\ \A j \in DOMAIN stored[u] : stored[u][j] < m
    BY <1>1, StoringSample DEF Lossless, Served, DeliveryInv
  <1>3. stored \in [Types -> Seq(Nat)] /\ stored[u] \in Seq(Nat) /\ sampled[u] \in Nat
    BY DEF DeliveryInv, StorageInv, TypeOK, RecordTypes
  <1>4. Len(stored[u]) < m
    <2>1. CASE stored[u] = <<>>
      BY <1>2, <2>1
    <2>2. CASE stored[u] # <<>>
      <3>1. Len(stored[u]) \in DOMAIN stored[u] /\ Len(stored[u]) \in Nat
        BY <1>3, <2>2
      <3>2. Len(stored[u]) <= stored[u][Len(stored[u])] /\ stored[u][Len(stored[u])] \in Nat
        BY <1>3, <3>1 DEF RoomInv, StoredBelow
      <3>3. QED
        BY <1>2, <3>1, <3>2
    <2>3. QED
      BY <2>1, <2>2
  <1>5. m <= MaxRecords
    <2>1. sampled[u] <= MaxItems[u] /\ MaxItems[u] <= MaxRecords /\ MaxItems[u] \in Nat /\ MaxRecords \in Nat
      BY BoundsAssumption, MaxRecordsAssumption DEF RoomInv, SampledBounded, Lossless
    <2>2. QED
      BY <1>2, <1>3, <2>1
  <1>6. Len(stored[u]) < MaxRecords
    BY <1>3, <1>4, <1>5, MaxRecordsAssumption
  <1>7. stored' = [stored EXCEPT ![u] = Append(@, m)]
    BY <1>2, <1>6 DEF Stored
  <1>8. QED
    BY <1>1, <1>4, <1>6, <1>7

LEMMA NoClearStep ==
  ASSUME Lossless, DeliveryInv, RoomInv, [DeliveryNext]_allVars
  PROVE  NoClear'
  <1>1. \A m : inbox' = Append(inbox, m) /\ (m = Command("CLEAR") => "CLEAR" \in SentCommands)
                => m # Command("CLEAR")
    BY DEF Lossless
  <1>2. inbox \in Seq(InMsg) /\ ~Has(inbox, {Command("CLEAR")})
    BY DEF DeliveryInv, StorageInv, RoomInv, NoClear, TypeOK, MessageTypes
  <1>3. ASSUME inbox # <<>>
        PROVE  Tail(inbox) \in Seq(InMsg) /\ ~Has(Tail(inbox), {Command("CLEAR")})
    BY <1>2, <1>3, HasTail, HeadTail
  <1>4. ASSUME NEW m, inbox' = Append(inbox, m), m # Command("CLEAR")
        PROVE  ~Has(inbox', {Command("CLEAR")})
    BY <1>2, <1>4, HasAppend
  <1>5. ASSUME inbox # <<>>, NEW id, inbox' = Append(Tail(inbox), Close(id))
        PROVE  ~Has(inbox', {Command("CLEAR")})
    <2>1. Close(id) # Command("CLEAR")
      BY DEF Close, Command
    <2>2. QED
      BY <1>3, <1>5, <2>1, HasAppend
  <1>6. QED
    BY <1>1, <1>2, <1>3, <1>4, <1>5, InboxSteps DEF NoClear

LEMMA StoredBelowStep ==
  ASSUME Lossless, DeliveryInv, RoomInv, [DeliveryNext]_allVars
  PROVE  StoredBelow'
  <1>1. /\ stored \in [Types -> Seq(Nat)]
        /\ \A t \in Types : \A j \in DOMAIN stored[t] : j <= stored[t][j]
    BY DEF DeliveryInv, StorageInv, RoomInv, StoredBelow, TypeOK, RecordTypes
  <1>2. CASE stored' = stored
    BY <1>1, <1>2 DEF StoredBelow
  <1> SUFFICES ASSUME stored' # stored, NEW t \in Types, NEW j \in DOMAIN stored'[t]
               PROVE  j <= stored'[t][j]
    BY <1>2 DEF StoredBelow
  <1>3. stored[t] \in Seq(Nat)
    BY <1>1
  <1>4. CASE HandleDataMessage
    <2>1. PICK u \in Types, m \in Nat : /\ Len(stored[u]) < m
                                        /\ stored' = [stored EXCEPT ![u] = Append(@, m)]
      BY <1>4, RoomForSample
    <2>2. CASE t # u
      BY <1>1, <2>1, <2>2
    <2>3. CASE t = u
      <3>1. stored'[t] = Append(stored[t], m) /\ Len(stored[t]) < m
        BY <1>1, <2>1, <2>3
      <3>2. \/ j \in DOMAIN stored[t] /\ stored'[t][j] = stored[t][j]
            \/ j = Len(stored[t]) + 1 /\ stored'[t][j] = m
        BY <1>3, <3>1, AppendParts
      <3>3. CASE j \in DOMAIN stored[t] /\ stored'[t][j] = stored[t][j]
        BY <1>1, <3>3
      <3>4. CASE j = Len(stored[t]) + 1 /\ stored'[t][j] = m
        BY <1>3, <3>1, <3>4
      <3>5. QED
        BY <3>2, <3>3, <3>4
    <2>4. QED
      BY <2>2, <2>3
  <1>5. CASE PopulateItem \/ FlushItem
    <2>1. PICK u \in Types : stored[u] # <<>> /\ stored' = [stored EXCEPT ![u] = Tail(@)]
      BY <1>5 DEF PopulateItem, FlushItem, TakeOldest
    <2>2. CASE t # u
      BY <1>1, <2>1, <2>2
    <2>3. CASE t = u
      <3>1. stored'[t] = Tail(stored[t]) /\ stored[t] # <<>>
        BY <1>1, <2>1, <2>3
      <3>2. j + 1 \in DOMAIN stored[t] /\ stored'[t][j] = stored[t][j + 1] /\ j \in Nat
        BY <1>3, <3>1
      <3>3. j + 1 <= stored[t][j + 1] /\ stored[t][j + 1] \in Nat
        BY <1>1, <1>3, <3>2
      <3>4. QED
        BY <3>2, <3>3
    <2>4. QED
      BY <2>2, <2>3
  <1>6. ~StorageClear /\ ~TakenInVain
    BY NeverCleared DEF RoomInv, TakenInVain, Lossless, Served
  <1>7. QED
    BY <1>4, <1>5, <1>6, RecordsSteps

LEMMA RoomInvStep ==
  ASSUME Lossless, DeliveryInv, DeliveryInv', RoomInv, [DeliveryNext]_allVars
  PROVE  RoomInv'
  <1>1. SampledBounded'
    <2>1. CASE Posts
      BY <2>1 DEF Posts, RoomInv, SampledBounded
    <2>2. QED
      BY <2>1, StepsOfStorage, SampledStep DEF DeliveryInv, StorageInv, RoomInv
  <1>2. QED
    BY <1>1, NoClearStep, StoredBelowStep DEF RoomInv

(* No sample gets off its way, and a new one gets on it. *)
LEMMA NothingLostStep ==
  ASSUME Lossless, DeliveryInv, DeliveryInv', RoomInv, NothingLost, [DeliveryNext]_allVars
  PROVE  NothingLost'
  <1>1. sampled \in [Types -> Nat] /\ inbox \in Seq(InMsg) /\ TypeOK'
    BY DEF DeliveryInv, StorageInv, TypeOK, RecordTypes, MessageTypes
  <1>2. ASSUME NEW t \in Types, NEW n \in Nat, OnItsWay(t, n) PROVE OnItsWay(t, n)'
    <2>1. ~ClearsStored(t, n)
      BY NeverCleared DEF ClearsStored, RoomInv
    <2>2. ~DropsOldest(t, n)
      <3> SUFFICES ASSUME DropsOldest(t, n) PROVE FALSE
        OBVIOUS
      <3>1. HandleDataMessage /\ Len(stored[t]) = MaxRecords /\ Head(inbox).dt = t
        BY DEF DropsOldest
      <3>2. Len(stored[t]) < MaxRecords
        BY <3>1, RoomForSample
      <3>3. QED
        BY <3>1, <3>2, MaxRecordsAssumption
    <2>3. QED
      BY <1>1, <1>2, <2>1, <2>2, StaysOnItsWay DEF Lossless
  <1> SUFFICES ASSUME NEW t \in Types, NEW n \in 1 .. sampled'[t] PROVE OnItsWay(t, n)'
    BY DEF NothingLost
  <1>3. CASE n \in 1 .. sampled[t]
    <2>1. n \in Nat /\ OnItsWay(t, n)
      BY <1>3 DEF NothingLost
    <2>2. QED
      BY <1>2, <2>1
  <1>4. CASE n \notin 1 .. sampled[t]
    <2>1. SampleStep
      BY <1>4, RecordsSteps
    <2>2. PICK u \in Types : /\ sampled' = [sampled EXCEPT ![u] = @ + 1]
                             /\ inbox' = Append(inbox, Data(u, sampled[u] + 1))
      BY <2>1 DEF SampleStep, PublishSample, Send
    <2>3. u = t /\ n = sampled[u] + 1
      BY <1>1, <1>4, <2>2
    <2>4. Has(Append(inbox, Data(t, n)), {Data(t, n)})
      BY <1>1, HasAppend
    <2>5. QED
      BY <2>2, <2>3, <2>4 DEF OnItsWay, Has
  <1>5. QED
    BY <1>3, <1>4

(* A sample that was published is on its way until it is delivered, in     *)
(* whatever order main and the shell ask for batches, flushes and modes,   *)
(* and however small the pipe: while the cloud module is ready, the        *)
(* backend works and has room for the samples, and sessions are prompt.    *)
THEOREM SamplesNeverLost ==
  ASSUME Lossless
  PROVE  DeliverySpec => []NothingLost
<1>1. DeliveryInit => RoomInv
  <2> SUFFICES ASSUME DeliveryInit PROVE RoomInv
    OBVIOUS
  <2>1. /\ inbox = <<>> /\ stored = [t \in Types |-> <<>>] /\ sampled = [t \in Types |-> 0]
    BY DEF DeliveryInit, Init
  <2>2. StoredBelow /\ SampledBounded
    BY <2>1, BoundsAssumption DEF StoredBelow, SampledBounded
  <2>3. QED
    BY <2>1, <2>2, HasNone DEF RoomInv, NoClear
<1>2. DeliveryInit => NothingLost
  BY DEF DeliveryInit, Init, NothingLost
<1>3. DeliveryInv /\ DeliveryInv' /\ RoomInv /\ NothingLost /\ [DeliveryNext]_allVars
        => RoomInv' /\ NothingLost'
  BY RoomInvStep, NothingLostStep
<1>4. DeliverySpec => []DeliveryInv
  BY DeliveryInvHolds DEF Lossless
<1>5. QED
  BY <1>1, <1>2, <1>3, <1>4, PTL DEF DeliverySpec
=============================================================================
