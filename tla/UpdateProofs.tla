---------------------------- MODULE UpdateProofs ----------------------------
(***************************************************************************)
(* Proofs about FirmwareUpdate: the FOTA module alone, and what main, the  *)
(* FOTA module and the network module know of each other during an update. *)
(***************************************************************************)
EXTENDS FirmwareUpdate, MainProofs

-----------------------------------------------------------------------------
(* The network module.                                                     *)

Up == {"NETWORK_CONNECTED"}
Down == {"NETWORK_DISCONNECTED"}
Gone == {"NETWORK_DISCONNECTED", "NETWORK_UICC_FAILURE"}

(* The events in the queue lead to where the modem is: what tells of an    *)
(* attached modem comes after all that tells of a lost one, and the other  *)
(* way round.                                                              *)
LastEventIsTrue ==
  /\ modem = "attached" => Followed(netInbox, Gone, Up)
  /\ modem \notin {"attached", "detached", "resuming"} => Followed(netInbox, Up, Down)

NetUnderWay == modem \in {"detached", "resuming"} \/ Has(netInbox, Down)

LeafIsKnown ==
  /\ modem = "attached" => lte = "CONNECTED" \/ Has(netInbox, Up)
  /\ lte = "CONNECTED" => modem = "attached" \/ NetUnderWay
  /\ lte = "DISCONNECTING" => NetUnderWay /\ modem \in {"offline", "detached"}

NetworkInv == NetworkTypeOK /\ LastEventIsTrue /\ LeafIsKnown

(* What the thread takes, and what it leaves in the queue. *)
LEMMA NetTaken ==
  ASSUME NetworkTypeOK, LastEventIsTrue, NEW types, NetTakes(types)
  PROVE  /\ netInbox' \in Seq(NetworkMsg) /\ Head(netInbox) \in types \cap NetworkMsg
         /\ \A msgs : Has(netInbox, msgs) <=> Head(netInbox) \in msgs \/ Has(netInbox', msgs)
         /\ modem = "attached" => /\ Followed(netInbox', Gone, Up)
                                  /\ Head(netInbox) \in Gone => Has(netInbox', Up)
         /\ modem \notin {"attached", "detached", "resuming"} =>
              /\ Followed(netInbox', Up, Down)
              /\ Head(netInbox) \in Up => Has(netInbox', Down)
         /\ UNCHANGED <<requested, outages>>
  <1>1. netInbox \in Seq(NetworkMsg) /\ netInbox # <<>> /\ netInbox' = Tail(netInbox)
        /\ Head(netInbox) \in types /\ UNCHANGED <<requested, outages>>
    BY DEF NetworkTypeOK, NetTakes
  <1>2. /\ netInbox' \in Seq(NetworkMsg) /\ Head(netInbox) \in NetworkMsg
        /\ \A msgs : Has(netInbox, msgs) <=> Head(netInbox) \in msgs \/ Has(netInbox', msgs)
    BY <1>1, HeadTail, HasTail
  <1>3. \A msgs, by : Followed(netInbox, msgs, by) =>
          /\ Followed(netInbox', msgs, by)
          /\ Head(netInbox) \in msgs => Has(netInbox', by)
    BY <1>1, FollowedTail
  <1> QED
    BY <1>1, <1>2, <1>3 DEF LastEventIsTrue

(* What a message more does to the queue. *)
LEMMA NetAppended ==
  ASSUME NetworkTypeOK, NEW m \in NetworkMsg, netInbox' = Append(netInbox, m)
  PROVE  /\ netInbox' \in Seq(NetworkMsg)
         /\ \A msgs : Has(netInbox', msgs) <=> Has(netInbox, msgs) \/ m \in msgs
         /\ \A msgs, by : m \notin msgs /\ (m \in by \/ Followed(netInbox, msgs, by))
                            => Followed(netInbox', msgs, by)
  <1>1. netInbox \in Seq(NetworkMsg)
    BY DEF NetworkTypeOK
  <1> QED
    BY <1>1, AppendSeq, HasAppend, FollowedBy, FollowedAppend

LEMMA NetworkTypes ==
  ASSUME NetworkTypeOK, [NetworkNext]_networkVars, netInbox' \in Seq(NetworkMsg)
  PROVE  NetworkTypeOK'
  <1> USE DEF NetworkNext, NetworkThread, NetworkConnect, NetworkDisconnect, NetworkSearchStop,
              NetworkQuery, NetworkConnected, NetworkLost, NetworkUiccFailure, Modem, Attach,
              LoseNetwork, NoSim, Detach, RequestNetwork, NetTakes, NetSilent, Offline,
              EnterSearching, Announce, networkVars
  <1>1. lte' \in {"IDLE", "SEARCHING", "CONNECTED", "DISCONNECTING"}
    BY DEF NetworkTypeOK
  <1>2. modem' \in {"offline", "searching", "attached", "failed", "detached", "resuming"}
    BY DEF NetworkTypeOK
  <1>3. netSent' \in Seq(NetworkMsg \union {"NETWORK_QUALITY_SAMPLE_RESPONSE",
                                            "NETWORK_SYSTEM_MODE_RESPONSE"})
    <2> DEFINE Sent == NetworkMsg \union {"NETWORK_QUALITY_SAMPLE_RESPONSE",
                                          "NETWORK_SYSTEM_MODE_RESPONSE"}
    <2>1. \/ netSent' = netSent \/ netSent' = <<>>
          \/ \E m \in Sent : netSent' = <<m>>
      BY DEF Answers, NetworkMsg
    <2> QED
      BY <2>1, EmptySeq, OneSeq DEF NetworkTypeOK
  <1>4. requested' \in 0 .. MaxRequests /\ outages' \in 0 .. MaxOutages
    BY NetworkBoundsAssumption DEF NetworkTypeOK
  <1> QED
    BY <1>1, <1>2, <1>3, <1>4 DEF NetworkTypeOK

LEMMA NetworkStarts == NetworkInit => NetworkInv
  <1> SUFFICES ASSUME NetworkInit PROVE NetworkInv
    OBVIOUS
  <1>1. NetworkTypeOK
    <2>1. requested \in 0 .. MaxRequests /\ outages \in 0 .. MaxOutages
      BY NetworkBoundsAssumption DEF NetworkInit
    <2> QED
      BY <2>1, EmptySeq DEF NetworkInit, NetworkTypeOK, Disconnects
  <1>2. LastEventIsTrue /\ LeafIsKnown
    BY FollowedNone DEF NetworkInit, LastEventIsTrue, LeafIsKnown, Disconnects
  <1> QED
    BY <1>1, <1>2 DEF NetworkInv

(* A request more, of main or of another module. *)
LEMMA NetworkAsked ==
  ASSUME NetworkInv, NEW r \in AllNetworkRequests, netInbox' = Append(netInbox, r),
         UNCHANGED <<lte, modem>>
  PROVE  netInbox' \in Seq(NetworkMsg) /\ LastEventIsTrue' /\ LeafIsKnown'
  <1>1. NetworkTypeOK /\ r \in NetworkMsg /\ r \notin Up /\ r \notin Gone
    BY DEF NetworkMsg, AllNetworkRequests, NetworkInv, Up, Gone
  <1> QED
    BY <1>1, NetAppended DEF NetworkInv, LastEventIsTrue, LeafIsKnown, NetUnderWay, Gone, Up, Down

LEMMA NetworkStepKeeps == NetworkInv /\ [NetworkNext]_networkVars => NetworkInv'
  <1> SUFFICES ASSUME NetworkInv, [NetworkNext]_networkVars
               PROVE  netInbox' \in Seq(NetworkMsg) /\ LastEventIsTrue' /\ LeafIsKnown'
    BY NetworkTypes DEF NetworkInv
  <1>1. NetworkTypeOK /\ LastEventIsTrue /\ LeafIsKnown
    BY DEF NetworkInv
  <1> USE <1>1 DEF LastEventIsTrue, LeafIsKnown, NetUnderWay, Gone, Up, Down
  <1>2. CASE NetworkConnect
    BY <1>2, NetTaken DEF NetworkConnect, EnterSearching
  <1>3. CASE NetworkDisconnect
    BY <1>3, NetTaken DEF NetworkDisconnect, Offline, NetworkTypeOK
  <1>4. CASE NetworkSearchStop
    BY <1>4, NetTaken DEF NetworkSearchStop, Offline, NetworkTypeOK
  <1>5. CASE NetworkQuery
    BY <1>5, NetTaken DEF NetworkQuery
  <1>6. CASE NetworkConnected
    BY <1>6, NetTaken DEF NetworkConnected, NetworkTypeOK
  <1>7. CASE NetworkLost
    BY <1>7, NetTaken DEF NetworkLost, EnterSearching
  <1>8. CASE NetworkUiccFailure
    BY <1>8, NetTaken DEF NetworkUiccFailure
  <1>9. CASE Attach
    BY <1>9, NetAppended DEF Attach, Announce, NetworkMsg
  <1>10. CASE LoseNetwork
    BY <1>10, NetAppended DEF LoseNetwork, Announce, NetworkMsg
  <1>11. CASE NoSim
    BY <1>11, NetAppended DEF NoSim, Announce, NetworkMsg
  <1>12. CASE Detach
    BY <1>12, NetAppended DEF Detach, Announce, NetworkMsg
  <1>13. CASE RequestNetwork
    <2>1. PICK r \in NetworkRequests : netInbox' = Append(netInbox, r)
      BY <1>13 DEF RequestNetwork
    <2>2. r \in AllNetworkRequests /\ UNCHANGED <<lte, modem>>
      BY <1>13, NetworkRequestsAssumption DEF RequestNetwork
    <2> QED
      BY <2>1, <2>2, NetworkAsked
  <1>14. CASE UNCHANGED networkVars
    BY <1>14 DEF networkVars, NetworkTypeOK
  <1> QED
    BY <1>2, <1>3, <1>4, <1>5, <1>6, <1>7, <1>8, <1>9, <1>10, <1>11, <1>12, <1>13, <1>14
       DEF NetworkNext, NetworkThread, Modem

LEMMA NetworkInvHolds == NetworkSpec => []NetworkInv
  BY NetworkStarts, NetworkStepKeeps, PTL DEF NetworkSpec

(* The module never rests in a state that the modem has left: the event    *)
(* that brings them together is in the queue, or the modem owes it.        *)
THEOREM StateAlwaysFollowsModem == NetworkSpec => [](NetworkTypeOK /\ StateFollowsModem)
  <1>1. NetworkInv => NetworkTypeOK /\ StateFollowsModem
    BY DEF NetworkInv, LeafIsKnown, NetUnderWay, Up, Down, StateFollowsModem, DisconnectUnderWay,
           InNetQueue, Has
  <1> QED
    BY <1>1, NetworkInvHolds, PTL

-----------------------------------------------------------------------------
(* The results that wait in the queue of the FOTA module, among requests.  *)

FotaRequestMsgs == {"FOTA_POLL_REQUEST", "FOTA_IMAGE_APPLY"}
FotaMsg == Results \union FotaRequestMsgs \union {"FOTA_DOWNLOAD_CANCEL"}

NoResult(s) == ~Has(s, Results)

OneResult(s, r) ==
  \E i \in DOMAIN s : s[i] = r /\ \A k \in DOMAIN s : s[k] \in Results => k = i

TwoResults(s, r, q) ==
  \E i, j \in DOMAIN s :
    i < j /\ s[i] = r /\ s[j] = q /\ \A k \in DOMAIN s : s[k] \in Results => k \in {i, j}

(* Requests behind them change nothing. *)
LEMMA RequestsBehind ==
  ASSUME NEW S, NEW s \in Seq(S), NEW t \in Seq(S), NoResult(t)
  PROVE  /\ NoResult(s) => NoResult(s \o t)
         /\ \A r : OneResult(s, r) => OneResult(s \o t, r)
         /\ \A r, q : TwoResults(s, r, q) => TwoResults(s \o t, r, q)
  <1>1. \A i \in DOMAIN s : i \in DOMAIN (s \o t) /\ (s \o t)[i] = s[i]
    OBVIOUS
  <1>2. \A k \in DOMAIN (s \o t) :
          \/ k \in DOMAIN s /\ (s \o t)[k] = s[k]
          \/ k - Len(s) \in DOMAIN t /\ (s \o t)[k] = t[k - Len(s)]
    OBVIOUS
  <1>3. \A k \in DOMAIN (s \o t) : (s \o t)[k] \in Results => k \in DOMAIN s /\ s[k] \in Results
    BY <1>2 DEF NoResult, Has
  <1>4. NoResult(s) => NoResult(s \o t)
    BY <1>3 DEF NoResult, Has
  <1>5. \A r : OneResult(s, r) => OneResult(s \o t, r)
    BY <1>1, <1>3 DEF OneResult
  <1>6. \A r, q : TwoResults(s, r, q) => TwoResults(s \o t, r, q)
    BY <1>1, <1>3 DEF TwoResults
  <1> QED
    BY <1>4, <1>5, <1>6

(* A result more comes last. *)
LEMMA ResultBehind ==
  ASSUME NEW S, NEW s \in Seq(S), NEW m
  PROVE  /\ NoResult(s) => OneResult(Append(s, m), m)
         /\ \A r : OneResult(s, r) => TwoResults(Append(s, m), r, m)
  <1>1. \A i \in DOMAIN s : i \in DOMAIN Append(s, m) /\ Append(s, m)[i] = s[i] /\ i < Len(s) + 1
    OBVIOUS
  <1>2. \A k \in DOMAIN Append(s, m) :
          \/ k \in DOMAIN s /\ Append(s, m)[k] = s[k]
          \/ k = Len(s) + 1
    OBVIOUS
  <1>3. Len(s) + 1 \in DOMAIN Append(s, m) /\ Append(s, m)[Len(s) + 1] = m
    OBVIOUS
  <1>4. NoResult(s) => OneResult(Append(s, m), m)
    BY <1>2, <1>3 DEF NoResult, Has, OneResult
  <1>5. ASSUME NEW r, OneResult(s, r) PROVE TwoResults(Append(s, m), r, m)
    <2>1. PICK i \in DOMAIN s : s[i] = r /\ \A k \in DOMAIN s : s[k] \in Results => k = i
      BY <1>5 DEF OneResult
    <2>2. \A k \in DOMAIN Append(s, m) : Append(s, m)[k] \in Results => k \in {i, Len(s) + 1}
      BY <1>2, <2>1
    <2> QED
      BY <1>1, <1>3, <2>1, <2>2 DEF TwoResults
  <1> QED
    BY <1>4, <1>5

(* The first of them is taken first. *)
LEMMA ResultTaken ==
  ASSUME NEW S, NEW s \in Seq(S), s # <<>>
  PROVE  /\ NoResult(s) => Head(s) \notin Results /\ NoResult(Tail(s))
         /\ \A r \in Results : OneResult(s, r) =>
              IF Head(s) \in Results THEN Head(s) = r /\ NoResult(Tail(s))
                                     ELSE OneResult(Tail(s), r)
         /\ \A r, q \in Results : TwoResults(s, r, q) =>
              IF Head(s) \in Results THEN Head(s) = r /\ OneResult(Tail(s), q)
                                     ELSE TwoResults(Tail(s), r, q)
  <1>1. 1 \in DOMAIN s /\ s[1] = Head(s)
    OBVIOUS
  <1>2. \A k \in DOMAIN Tail(s) : k \in Nat /\ k + 1 \in DOMAIN s /\ s[k + 1] = Tail(s)[k] /\ k + 1 # 1
    OBVIOUS
  <1>3. \A i \in DOMAIN s : i \in Nat /\ (i # 1 => i > 1 /\ i - 1 \in DOMAIN Tail(s) /\ Tail(s)[i - 1] = s[i])
    OBVIOUS
  <1>4. NoResult(s) => Head(s) \notin Results /\ NoResult(Tail(s))
    BY <1>1, <1>2 DEF NoResult, Has
  <1>5. ASSUME NEW r \in Results, OneResult(s, r)
        PROVE  IF Head(s) \in Results THEN Head(s) = r /\ NoResult(Tail(s))
                                      ELSE OneResult(Tail(s), r)
    <2>1. PICK i \in DOMAIN s : s[i] = r /\ \A k \in DOMAIN s : s[k] \in Results => k = i
      BY <1>5 DEF OneResult
    <2>2. CASE Head(s) \in Results
      <3>1. i = 1
        BY <1>1, <2>1, <2>2
      <3>2. \A k \in DOMAIN Tail(s) : Tail(s)[k] \notin Results
        BY <1>2, <2>1, <3>1
      <3> QED
        BY <1>1, <2>1, <2>2, <3>1, <3>2 DEF NoResult, Has
    <2>3. CASE Head(s) \notin Results
      <3>1. i # 1
        BY <1>1, <2>1, <2>3
      <3>2. \A k \in DOMAIN Tail(s) : Tail(s)[k] \in Results => k + 1 = i
        BY <1>2, <2>1
      <3>3. \A k \in DOMAIN Tail(s) : Tail(s)[k] \in Results => k = i - 1
        BY <1>2, <1>3, <3>2
      <3> QED
        BY <1>3, <2>1, <2>3, <3>1, <3>3 DEF OneResult
    <2> QED
      BY <2>2, <2>3
  <1>6. ASSUME NEW r \in Results, NEW q \in Results, TwoResults(s, r, q)
        PROVE  IF Head(s) \in Results THEN Head(s) = r /\ OneResult(Tail(s), q)
                                      ELSE TwoResults(Tail(s), r, q)
    <2>1. PICK i \in DOMAIN s, j \in DOMAIN s :
            i < j /\ s[i] = r /\ s[j] = q /\ \A k \in DOMAIN s : s[k] \in Results => k \in {i, j}
      BY <1>6 DEF TwoResults
    <2>2. j # 1 /\ i - 1 < j - 1
      BY <1>3, <2>1
    <2>3. \A k \in DOMAIN Tail(s) : Tail(s)[k] \in Results => k + 1 \in {i, j}
      BY <1>2, <2>1
    <2>4. CASE Head(s) \in Results
      <3>1. i = 1
        BY <1>1, <2>1, <2>2, <2>4
      <3>2. \A k \in DOMAIN Tail(s) : Tail(s)[k] \in Results => k = j - 1
        BY <1>2, <1>3, <2>3, <3>1
      <3>3. OneResult(Tail(s), q)
        BY <1>3, <2>1, <2>2, <3>2 DEF OneResult
      <3> QED
        BY <1>1, <2>1, <2>4, <3>1, <3>3
    <2>5. CASE Head(s) \notin Results
      <3>1. i # 1
        BY <1>1, <2>1, <2>5
      <3>2. \A k \in DOMAIN Tail(s) : Tail(s)[k] \in Results => k \in {i - 1, j - 1}
        BY <1>2, <1>3, <2>3
      <3>3. /\ i - 1 \in DOMAIN Tail(s) /\ Tail(s)[i - 1] = r
            /\ j - 1 \in DOMAIN Tail(s) /\ Tail(s)[j - 1] = q
        BY <1>3, <2>1, <2>2, <3>1
      <3> QED
        BY <2>2, <2>5, <3>2, <3>3 DEF TwoResults
    <2> QED
      BY <2>4, <2>5
  <1> QED
    BY <1>4, <1>5, <1>6

-----------------------------------------------------------------------------
(* The FOTA module.                                                        *)

(* How an update that has been downloading may end. *)
Ends == {<<"none", "FOTA_DOWNLOAD_FAILED">>, <<"apply", "FOTA_IMAGE_APPLY_NEEDED">>,
         <<"done", "FOTA_SUCCESS_REBOOT_NEEDED">>}

(* In every state the results that the queue holds, in their order, lead   *)
(* the module from that state to the one in which it has heard what became *)
(* of the job; and the queue holds no others.                              *)
ResultsFit ==
  /\ fota = "WAITING_FOR_POLL_REQUEST" => job = "none" /\ NoResult(fotaInbox)
  /\ fota = "POLLING_FOR_UPDATE" =>
       \/ job = "found" /\ NoResult(fotaInbox)
       \/ job = "none" /\ OneResult(fotaInbox, "FOTA_NO_AVAILABLE_UPDATE")
       \/ job \in {"downloading", "downloaded"} /\ OneResult(fotaInbox, "FOTA_DOWNLOADING_UPDATE")
       \/ \E e \in Ends : job = e[1] /\ TwoResults(fotaInbox, "FOTA_DOWNLOADING_UPDATE", e[2])
  /\ fota = "DOWNLOADING_UPDATE" =>
       \/ job \in {"downloading", "downloaded"} /\ NoResult(fotaInbox)
       \/ \E e \in Ends : job = e[1] /\ OneResult(fotaInbox, e[2])
  /\ fota = "WAITING_FOR_IMAGE_APPLY" => job = "apply" /\ NoResult(fotaInbox)
  /\ fota = "IMAGE_APPLYING" =>
       \/ job = "applying" /\ NoResult(fotaInbox)
       \/ job = "done" /\ OneResult(fotaInbox, "FOTA_SUCCESS_REBOOT_NEEDED")
  /\ fota = "CANCELING" =>
       \/ job = "canceling" /\ NoResult(fotaInbox)
       \/ job = "none" /\ OneResult(fotaInbox, "FOTA_DOWNLOAD_CANCELED")
  /\ fota = "REBOOT_PENDING" => job = "done" /\ NoResult(fotaInbox)

FotaStates ==
  {"WAITING_FOR_POLL_REQUEST", "POLLING_FOR_UPDATE", "DOWNLOADING_UPDATE",
   "WAITING_FOR_IMAGE_APPLY", "IMAGE_APPLYING", "CANCELING", "REBOOT_PENDING", "FATAL"}

FotaInv == fota \in FotaStates /\ fotaInbox \in Seq(FotaMsg) /\ ResultsFit

(* What the module takes from its queue, and what is left of the results. *)
LEMMA FotaTaken ==
  ASSUME FotaInv, NEW types, FotaTakes(types)
  PROVE  /\ Head(fotaInbox) \in types \cap FotaMsg
         /\ Tail(fotaInbox) \in Seq(FotaMsg)
         /\ NoResult(fotaInbox) => Head(fotaInbox) \notin Results /\ NoResult(Tail(fotaInbox))
         /\ \A r \in Results : OneResult(fotaInbox, r) =>
              IF Head(fotaInbox) \in Results THEN Head(fotaInbox) = r /\ NoResult(Tail(fotaInbox))
                                             ELSE OneResult(Tail(fotaInbox), r)
         /\ \A r, q \in Results : TwoResults(fotaInbox, r, q) =>
              IF Head(fotaInbox) \in Results
                THEN Head(fotaInbox) = r /\ OneResult(Tail(fotaInbox), q)
                ELSE TwoResults(Tail(fotaInbox), r, q)
  <1>1. fotaInbox \in Seq(FotaMsg) /\ fotaInbox # <<>> /\ Head(fotaInbox) \in types
    BY DEF FotaInv, FotaTakes
  <1> QED
    BY <1>1, HeadTail, ResultTaken

(* A request, of main or of the application, is never a result. *)
LEMMA FotaAsked ==
  ASSUME FotaInv, NEW msgs \in Seq(FotaMsg), NoResult(msgs),
         fotaInbox' = fotaInbox \o msgs, UNCHANGED <<fota, job>>
  PROVE  FotaInv'
  <1>1. fotaInbox' \in Seq(FotaMsg)
    BY ConcatSeq DEF FotaInv
  <1>2. /\ NoResult(fotaInbox) => NoResult(fotaInbox')
        /\ \A r : OneResult(fotaInbox, r) => OneResult(fotaInbox', r)
        /\ \A r, q : TwoResults(fotaInbox, r, q) => TwoResults(fotaInbox', r, q)
    BY RequestsBehind DEF FotaInv
  <1> QED
    BY <1>1, <1>2 DEF FotaInv, ResultsFit

LEMMA FotaThreadFits ==
  ASSUME FotaInv, FotaThread
  PROVE  FotaInv'
  <1> USE DEF FotaSilent, FotaPublish
  <1>1. fotaInbox' = Tail(fotaInbox) \o fotaSent'
    BY DEF FotaThread, PollRequest, ImageApply, DownloadCancel, TakeResult
  <1>2. ASSUME fotaInbox' = Tail(fotaInbox) \o <<>>, Tail(fotaInbox) \in Seq(FotaMsg)
        PROVE  fotaInbox' = Tail(fotaInbox)
    BY <1>2
  <1>3. CASE PollRequest
    <2>1. FotaTakes({"FOTA_POLL_REQUEST"})
      BY <1>3 DEF PollRequest
    <2>2. Head(fotaInbox) \notin Results
      BY <2>1, FotaTaken DEF Results
    <2>3. CASE fota' = fota /\ job' = job /\ fotaSent' = <<>>
      BY <1>1, <1>2, <2>1, <2>2, <2>3, FotaTaken DEF FotaInv, ResultsFit, Ends, Results
    <2>4. CASE /\ fota = "WAITING_FOR_POLL_REQUEST" /\ fota' = "POLLING_FOR_UPDATE"
               /\ job' = "found" /\ fotaSent' = <<>>
      BY <1>1, <1>2, <2>1, <2>4, FotaTaken DEF FotaInv, ResultsFit, FotaStates
    <2>5. CASE /\ fota = "WAITING_FOR_POLL_REQUEST" /\ fota' = "POLLING_FOR_UPDATE"
               /\ job' = job /\ fotaSent' = <<"FOTA_NO_AVAILABLE_UPDATE">>
      <3>1. NoResult(Tail(fotaInbox)) /\ Tail(fotaInbox) \in Seq(FotaMsg) /\ job' = "none"
        BY <2>1, <2>5, FotaTaken DEF FotaInv, ResultsFit
      <3>2. fotaInbox' = Append(Tail(fotaInbox), "FOTA_NO_AVAILABLE_UPDATE")
        BY <1>1, <2>5, <3>1
      <3>3. "FOTA_NO_AVAILABLE_UPDATE" \in FotaMsg
        BY DEF FotaMsg, Results
      <3>4. OneResult(fotaInbox', "FOTA_NO_AVAILABLE_UPDATE") /\ fotaInbox' \in Seq(FotaMsg)
        BY <3>1, <3>2, <3>3, ResultBehind, AppendSeq
      <3> QED
        BY <2>5, <3>1, <3>4 DEF FotaInv, ResultsFit, FotaStates
    <2> QED
      BY <1>3, <2>3, <2>4, <2>5 DEF PollRequest
  <1>4. CASE ImageApply
    <2>1. FotaTakes({"FOTA_IMAGE_APPLY"}) /\ fotaSent' = <<>>
      BY <1>4 DEF ImageApply
    <2>2. Head(fotaInbox) \notin Results
      BY <2>1, FotaTaken DEF Results
    <2> QED
      BY <1>1, <1>2, <1>4, <2>1, <2>2, FotaTaken
         DEF ImageApply, FotaInv, ResultsFit, FotaStates, Ends, Results
  <1>5. CASE DownloadCancel
    <2>1. FotaTakes({"FOTA_DOWNLOAD_CANCEL"}) /\ fotaSent' = <<>>
      BY <1>5 DEF DownloadCancel
    <2>2. Head(fotaInbox) \notin Results
      BY <2>1, FotaTaken DEF Results
    <2>3. CASE UNCHANGED <<fota, job>>
      BY <1>1, <1>2, <2>1, <2>2, <2>3, FotaTaken DEF FotaInv, ResultsFit, Ends, Results
    <2>4. CASE fota' = "FATAL"
      BY <1>1, <1>2, <2>1, <2>4, FotaTaken DEF FotaInv, ResultsFit, FotaStates
    <2>5. CASE /\ fota \notin {"WAITING_FOR_POLL_REQUEST", "POLLING_FOR_UPDATE"}
               /\ job = "downloading" /\ fota' = "CANCELING" /\ job' = "canceling"
      <3>1. fota = "DOWNLOADING_UPDATE" /\ NoResult(fotaInbox)
        BY <2>1, <2>5 DEF FotaInv, ResultsFit, FotaStates, Ends, FotaTakes
      <3> QED
        BY <1>1, <1>2, <2>1, <2>5, <3>1, FotaTaken DEF FotaInv, ResultsFit, FotaStates
    <2> QED
      BY <1>5, <2>3, <2>4, <2>5 DEF DownloadCancel
  <1>6. CASE TakeResult
    <2>1. FotaTakes(Results) /\ fotaSent' = <<>> /\ job' = job
      BY <1>6 DEF TakeResult
    <2>2. fotaInbox' = Tail(fotaInbox) /\ fotaInbox' \in Seq(FotaMsg)
          /\ Head(fotaInbox) \in Results
      BY <1>1, <1>2, <2>1, FotaTaken
    <2>3. \A r \in Results : OneResult(fotaInbox, r) =>
            Head(fotaInbox) = r /\ NoResult(fotaInbox')
      BY <2>1, <2>2, FotaTaken
    <2>4. \A r, q \in Results : TwoResults(fotaInbox, r, q) =>
            Head(fotaInbox) = r /\ OneResult(fotaInbox', q)
      BY <2>1, <2>2, FotaTaken
    <2>5. ~NoResult(fotaInbox) /\ fota # "FATAL"
      BY <2>1, <2>2, FotaTaken DEF FotaTakes
    <2>6. CASE fota = "POLLING_FOR_UPDATE"
      <3>1. fota' = PollingRun(Head(fotaInbox))
        BY <1>6, <2>6 DEF TakeResult
      <3> QED
        BY <2>1, <2>2, <2>3, <2>4, <2>5, <2>6, <3>1
           DEF FotaInv, ResultsFit, PollingRun, Ends, Results, FotaStates
    <2>7. CASE fota = "DOWNLOADING_UPDATE"
      <3>1. fota' = DownloadingRun(Head(fotaInbox))
        BY <1>6, <2>7 DEF TakeResult
      <3> QED
        BY <2>1, <2>2, <2>3, <2>5, <2>7, <3>1
           DEF FotaInv, ResultsFit, DownloadingRun, Ends, Results, FotaStates
    <2>8. CASE fota = "IMAGE_APPLYING"
      <3>1. fota' = ApplyingRun(Head(fotaInbox))
        BY <1>6, <2>8 DEF TakeResult
      <3> QED
        BY <2>1, <2>2, <2>3, <2>5, <2>8, <3>1
           DEF FotaInv, ResultsFit, ApplyingRun, Results, FotaStates
    <2>9. CASE fota = "CANCELING"
      <3>1. fota' = CancelingRun(Head(fotaInbox))
        BY <1>6, <2>9 DEF TakeResult
      <3> QED
        BY <2>1, <2>2, <2>3, <2>5, <2>9, <3>1
           DEF FotaInv, ResultsFit, CancelingRun, Results, FotaStates
    <2> QED
      BY <2>5, <2>6, <2>7, <2>8, <2>9 DEF FotaInv, ResultsFit, FotaStates
  <1> QED
    BY <1>3, <1>4, <1>5, <1>6 DEF FotaThread

LEMMA LibraryFits ==
  ASSUME FotaInv, fota # "FATAL", Library
  PROVE  FotaInv'
  <1>1. CASE DownloadFinishes
    BY <1>1 DEF DownloadFinishes, FotaInv, ResultsFit, Ends
  <1>2. CASE ~DownloadFinishes
    <2>1. PICK m \in Results :
            /\ fotaInbox' = Append(fotaInbox, m) /\ fota' = fota
            /\ \/ job = "found" /\ job' = "downloading" /\ m = "FOTA_DOWNLOADING_UPDATE"
               \/ job \in {"downloading", "downloaded"} /\ <<job', m>> \in Ends
               \/ job = "canceling" /\ job' = "none" /\ m = "FOTA_DOWNLOAD_CANCELED"
               \/ job = "applying" /\ job' = "done" /\ m = "FOTA_SUCCESS_REBOOT_NEEDED"
      <3>1. \A m \in FotaMsg : fotaInbox \o <<m>> = Append(fotaInbox, m)
        BY DEF FotaInv
      <3>2. Results \subseteq FotaMsg
        BY DEF FotaMsg
      <3> QED
        BY <1>2, <3>1, <3>2
           DEF Library, Reports, FotaPublish, DownloadBegins, DownloadFails, ImageIsValidated,
               DownloadIsCanceled, ImageIsApplied, Results, Ends
    <2>2. fotaInbox' \in Seq(FotaMsg)
      BY <2>1, AppendSeq DEF FotaInv, FotaMsg
    <2>3. /\ NoResult(fotaInbox) => OneResult(fotaInbox', m)
          /\ \A r : OneResult(fotaInbox, r) => TwoResults(fotaInbox', r, m)
      BY <2>1, ResultBehind DEF FotaInv
    <2> QED
      BY <2>1, <2>2, <2>3 DEF FotaInv, ResultsFit, FotaStates, Ends
  <1> QED
    BY <1>1, <1>2

-----------------------------------------------------------------------------
(* What main does with the messages of an update.                          *)

(* The leaf that a message leads to. *)
LeafAfter(type) ==
  CASE type = "FOTA_DOWNLOADING_UPDATE" ->
         leaf' = IF leaf \in FotaLeaves THEN leaf ELSE "DOWNLOADING"
    [] type = "FOTA_DOWNLOAD_ENDED" -> leaf' \notin FotaLeaves
    [] type = "FOTA_IMAGE_APPLY_NEEDED" ->
         leaf' = IF leaf = "DOWNLOADING" THEN "WAITING_FOR_DISCONNECT_TO_APPLY" ELSE leaf
    [] type = "FOTA_SUCCESS_REBOOT_NEEDED" ->
         leaf' = IF leaf = "DOWNLOADING" THEN "WAITING_FOR_DISCONNECT"
                 ELSE IF leaf = "APPLYING" THEN "REBOOTING" ELSE leaf
    [] type = "NETWORK_DISCONNECTED" ->
         leaf' = IF leaf = "WAITING_FOR_DISCONNECT" THEN "REBOOTING"
                 ELSE IF leaf = "WAITING_FOR_DISCONNECT_TO_APPLY" THEN "APPLYING" ELSE leaf
    [] OTHER -> IF leaf \in FotaLeaves THEN leaf' = leaf ELSE leaf' \notin FotaLeaves

LEMMA MainHears ==
  ASSUME Control, MainThread, ~Reboot
  PROVE  LeafAfter(Msg.type)
  <1> USE DEF Control, StateTypes, TimerTypes, TimersFitState, Stay, Ignore, modeVars, timerVars,
              Msg, Receive, Takes, LeafAfter, Running, Buffer, Passthrough, Connected, FotaLeaves
  <1>1. ASSUME NEW r \in Running \union {"FOTA"}, EnterRegion(r, <<>>)
        PROVE  IF r = "FOTA" THEN leaf' = "DOWNLOADING" ELSE leaf' \notin FotaLeaves
    BY <1>1, EnterRegionEffect
  <1>2. leaf \in FotaLeaves <=> region = "FOTA"
    OBVIOUS
  <1>3. CASE CloudConnected
    BY <1>1, <1>2, <1>3 DEF CloudConnected, ConnectedIn
  <1>4. CASE CloudDisconnected
    BY <1>1, <1>2, <1>4 DEF CloudDisconnected, Disconnected
  <1>5. CASE StorageModeConfirmed
    BY <1>1, <1>2, <1>5 DEF StorageModeConfirmed, StorageMode, SwitchTo, ConnectedIn, Disconnected
  <1>6. CASE FotaDownloadingUpdate
    BY <1>1, <1>2, <1>6 DEF FotaDownloadingUpdate
  <1>7. CASE FotaDownloadEnded
    BY <1>1, <1>2, <1>7 DEF FotaDownloadEnded
  <1>8. CASE TimerExpiredSampleData \/ ButtonPressShort
    BY <1>8 DEF TimerExpiredSampleData, ButtonPressShort, BeginSampling
  <1>9. CASE TimerConfigChanged \/ LocationSearchDone
    BY <1>9 DEF TimerConfigChanged, LocationSearchDone, Wait
  <1>10. CASE FotaSuccessRebootNeeded \/ FotaImageApplyNeeded \/ NetworkDisconnected
    BY <1>10 DEF FotaSuccessRebootNeeded, FotaImageApplyNeeded, NetworkDisconnected, FotaLeaf
  <1>11. CASE ShadowResponse
    BY <1>11 DEF ShadowResponse
  <1>12. CASE EmptyDesired \/ ShadowResponseIgnored
    BY <1>12 DEF EmptyDesired, ShadowResponseIgnored
  <1>13. CASE TimerExpiredCloud \/ ButtonPressLong
    BY <1>13 DEF TimerExpiredCloud, ButtonPressLong
  <1> QED
    BY <1>3, <1>4, <1>5, <1>6, <1>7, <1>8, <1>9, <1>10, <1>11, <1>12, <1>13 DEF MainThread

(* What it asks of the other two modules. *)
Orders == {m \in OutMsg : m.type \in {"FOTA_IMAGE_APPLY", "NETWORK_DISCONNECT"}}

LEMMA NoOrders ==
  /\ ~Has(<<>>, Orders) /\ ~Has(SensorTriggers, Orders) /\ ~Has(SearchTrigger, Orders)
  /\ ~Has(SendData, Orders) /\ ~Has(PollTriggers, Orders)
  /\ ~Has(SendData \o PollTriggers, Orders) /\ ~Has(SensorTriggers \o PollTriggers, Orders)
  /\ ~Has(SensorTriggers \o <<>>, Orders)
  /\ \A e \in {"CLOUD_SHADOW_GET_DESIRED", "STORAGE_CLEAR", "CLOUD_PROVISIONING_REQUEST"} :
       ~Has(<<Event(e)>>, Orders)
  /\ \A m \in {"BUFFER", "PASSTHROUGH"} : ~Has(<<Report(m)>>, Orders)
  /\ \A m \in Response : ~Has(<<ModeRequest(m)>>, Orders)
  <1>1. \A x : x.type \notin {"FOTA_IMAGE_APPLY", "NETWORK_DISCONNECT"} => ~Has(<<x>>, Orders)
    BY DEF Has, Orders
  <1>2. ~Has(PollTriggers, Orders)
    BY DEF Has, Orders, PollTriggers, Event
  <1>3. /\ ~Has(SensorTriggers, Orders) /\ ~Has(SendData, Orders) /\ ~Has(<<>>, Orders)
        /\ ~Has(SearchTrigger, Orders)
    BY <1>1, HasNone DEF SensorTriggers, SendData, SearchTrigger, Event
  <1>4. \A s, t \in {<<>>, SensorTriggers, SendData, PollTriggers} : ~Has(s \o t, Orders)
    <2>1. \A s \in {<<>>, SensorTriggers, SendData, PollTriggers} :
            s \in Seq(OutMsg) /\ ~Has(s, Orders)
      BY <1>2, <1>3, OutSeqs
    <2>2. \A s, t \in Seq(OutMsg) : ~Has(s, Orders) /\ ~Has(t, Orders) => ~Has(s \o t, Orders)
      BY HasConcat
    <2> QED
      BY <2>1, <2>2
  <1>5. \A m \in Response : ~Has(<<ModeRequest(m)>>, Orders)
    BY <1>1 DEF ModeRequest, Event
  <1> QED
    BY <1>1, <1>2, <1>3, <1>4, <1>5 DEF Event, Report

LEMMA NoOrdersConcat ==
  ASSUME NEW s \in Seq(OutMsg), NEW t \in Seq(OutMsg), NEW u \in Seq(OutMsg),
         ~Has(s, Orders), ~Has(t, Orders), ~Has(u, Orders)
  PROVE  ~Has(s \o t \o u, Orders)
  <1>1. s \o t \in Seq(OutMsg) /\ ~Has(s \o t, Orders)
    BY HasConcat, ConcatSeq
  <1>2. \A v \in Seq(OutMsg) : ~Has(v, Orders) => ~Has(v \o u, Orders)
    BY HasConcat
  <1> QED
    BY <1>1, <1>2

(* It orders the disconnection when the download is over, and the image to
   be applied when it is offline. *)
OrderTo(type) ==
  CASE type = "FOTA_IMAGE_APPLY_NEEDED" /\ leaf = "DOWNLOADING" -> <<Event("NETWORK_DISCONNECT")>>
    [] type = "FOTA_SUCCESS_REBOOT_NEEDED" /\ leaf = "DOWNLOADING" -> <<Event("NETWORK_DISCONNECT")>>
    [] type = "NETWORK_DISCONNECTED" /\ leaf = "WAITING_FOR_DISCONNECT_TO_APPLY" ->
         <<Event("FOTA_IMAGE_APPLY")>>
    [] OTHER -> <<>>

LEMMA MainOrders ==
  ASSUME Control, inbox \in Seq(InMsg), MainThread, ~Reboot
  PROVE  \/ published' = OrderTo(Msg.type)
         \/ ~Has(published', Orders) /\ OrderTo(Msg.type) = <<>>
  <1> USE NoOrders
      DEF Control, Stay, Ignore, Msg, Receive, Takes, OrderTo, Buffer, Passthrough, Connected
  <1>1. ASSUME NEW r, EnterRegion(r, <<>>)
        PROVE  ~Has(published', Orders)
    <2>1. PICK polls \in {<<>>, <<Event("CLOUD_SHADOW_GET_DESIRED")>>},
               samples \in {<<>>, SearchTrigger} :
            published' = <<>> \o polls \o samples
      BY <1>1 DEF EnterRegion, Publish
    <2>2. /\ polls \in Seq(OutMsg) /\ samples \in Seq(OutMsg)
          /\ ~Has(polls, Orders) /\ ~Has(samples, Orders)
      BY OutSeqs
    <2>3. ~Has(<<>> \o polls \o samples, Orders)
      BY <2>2, OutSeqs, NoOrdersConcat
    <2> QED
      BY <2>1, <2>3
  <1>2. CASE CloudConnected \/ CloudDisconnected
    BY <1>1, <1>2 DEF CloudConnected, CloudDisconnected, Publish
  <1>3. CASE StorageModeConfirmed
    BY <1>1, <1>3 DEF StorageModeConfirmed, StorageMode, Publish
  <1>4. CASE FotaDownloadingUpdate \/ FotaDownloadEnded
    BY <1>1, <1>4 DEF FotaDownloadingUpdate, FotaDownloadEnded, Publish
  <1>5. CASE TimerExpiredSampleData \/ ButtonPressShort
    BY <1>5 DEF TimerExpiredSampleData, ButtonPressShort, BeginSampling, Publish
  <1>6. CASE TimerConfigChanged \/ LocationSearchDone
    BY <1>6 DEF TimerConfigChanged, LocationSearchDone, Wait, Publish
  <1>7. CASE FotaSuccessRebootNeeded
    BY <1>7 DEF FotaSuccessRebootNeeded, FotaLeaf, Publish
  <1>8. CASE FotaImageApplyNeeded
    BY <1>8 DEF FotaImageApplyNeeded, FotaLeaf, Publish
  <1>9. CASE NetworkDisconnected
    BY <1>9 DEF NetworkDisconnected, FotaLeaf, Publish
  <1>10. CASE ShadowResponse
    <2>1. Msg \in Response /\ region \in Connected
      BY <1>10, HeadTail, InMsgs DEF ShadowResponse, Takes, Msg
    <2> DEFINE request == IF Configures(Msg) THEN <<ModeRequest(Msg)>> ELSE <<>>
               report == <<Report(IF Msg.mode = "none" THEN ModeOf(region) ELSE Msg.mode)>>
               provision == IF Msg.type = "CLOUD_SHADOW_RESPONSE_DELTA" /\ Msg.command = "PROVISION"
                              THEN <<Event("CLOUD_PROVISIONING_REQUEST")>> ELSE <<>>
    <2>2. /\ request \in Seq(OutMsg) /\ provision \in Seq(OutMsg)
          /\ ~Has(request, Orders) /\ ~Has(provision, Orders)
      BY <2>1, OutSeqs
    <2>3. report \in Seq(OutMsg) /\ ~Has(report, Orders)
      <3>1. (IF Msg.mode = "none" THEN ModeOf(region) ELSE Msg.mode) \in {"BUFFER", "PASSTHROUGH"}
        BY <2>1 DEF Response, ModeOf
      <3> QED
        BY <3>1, OutSeqs
    <2>4. published' = request \o report \o provision
      BY <1>10 DEF ShadowResponse, Msg, Publish
    <2> HIDE DEF request, report, provision
    <2>5. ~Has(request \o report \o provision, Orders)
      BY <2>2, <2>3, NoOrdersConcat
    <2> QED
      BY <1>10, <2>4, <2>5 DEF ShadowResponse
  <1>11. CASE EmptyDesired
    BY <1>11 DEF EmptyDesired, ModeOf, Publish
  <1>12. CASE ShadowResponseIgnored
    BY <1>12 DEF ShadowResponseIgnored, Publish
  <1>13. CASE TimerExpiredCloud \/ ButtonPressLong
    BY <1>13 DEF TimerExpiredCloud, ButtonPressLong, Publish
  <1> QED
    BY <1>2, <1>3, <1>4, <1>5, <1>6, <1>7, <1>8, <1>9, <1>10, <1>11, <1>12, <1>13 DEF MainThread

-----------------------------------------------------------------------------
(* Main and the FOTA module.                                               *)

Begun == OfType("FOTA_DOWNLOADING_UPDATE")
Ended == OfType("FOTA_DOWNLOAD_ENDED")
ApplyNeeded == OfType("FOTA_IMAGE_APPLY_NEEDED")
RebootNeeded == OfType("FOTA_SUCCESS_REBOOT_NEEDED")
LinkDown == OfType("NETWORK_DISCONNECTED")
Outcome == Ended \union ApplyNeeded \union RebootNeeded

Apply == {"FOTA_IMAGE_APPLY"}

Downloads == {"downloading", "canceling", "downloaded"}
Active == Downloads \union {"apply", "applying", "done"}

(* What main has heard of an update, and what it is about to hear: in the  *)
(* queue a beginning and an end lead from where main is to where the job   *)
(* is.                                                                     *)
UpdateHeard ==
  /\ job \in Active => leaf \in FotaLeaves \/ Has(inbox, Begun)
  /\ job \in Active => Followed(inbox, Ended, Begun)
  /\ job \notin Downloads => Followed(inbox, Begun, Outcome)
  /\ leaf = "DOWNLOADING" /\ job \notin Downloads => Has(inbox, Outcome)
  /\ Has(inbox, RebootNeeded) => job = "done"

(* The apply request goes one way, once: it is needed, main waits for the  *)
(* disconnection, it is asked for, and the image is being applied.  Behind *)
(* it there is nothing of an earlier download.                             *)
ApplyLast(s) == \A i, j \in DOMAIN s : s[i] \in Apply /\ s[j] \in Results => j < i

Applying == Has(fotaInbox, Apply) \/ fota = "IMAGE_APPLYING"

ApplyGoesOn ==
  /\ job # "apply" =>
       /\ ~Has(inbox, ApplyNeeded) /\ leaf # "WAITING_FOR_DISCONNECT_TO_APPLY"
       /\ ~Has(fotaInbox, Apply)
  /\ Once(inbox, ApplyNeeded) /\ Once(fotaInbox, Apply) /\ ApplyLast(fotaInbox)
  /\ Has(inbox, ApplyNeeded) =>
       /\ leaf # "WAITING_FOR_DISCONNECT_TO_APPLY" /\ ~Applying
       /\ Followed(inbox, Begun \union Ended, ApplyNeeded)
  /\ leaf = "WAITING_FOR_DISCONNECT_TO_APPLY" => ~Applying /\ ~Has(inbox, Begun \union Ended)
  /\ Applying => leaf \in {"APPLYING", "REBOOTING"} /\ ~Has(inbox, Begun \union Ended)
  /\ leaf = "APPLYING" => \/ fota = "FATAL" \/ job = "applying"
                           \/ Has(fotaInbox, Apply) \/ Has(inbox, RebootNeeded)

(* The network module while an image waits to be applied: connected until  *)
(* main has it disconnect, then on its way offline, then offline.  Main    *)
(* does not hear of a lost network before.                                 *)
Disconnect == {"NETWORK_DISCONNECT"}
Disturbing == {"NETWORK_CONNECT", "NETWORK_DISCONNECT", "NETWORK_SEARCH_STOP"}

StaysDown == lte \in {"IDLE", "DISCONNECTING"} /\ ~Has(netInbox, Disturbing \union Up)

DisconnectsFirst ==
  ~disturbed =>
    /\ job = "downloaded" \/ Has(inbox, ApplyNeeded) => modem = "attached" /\ ~Has(netInbox, Disturbing)
    /\ Has(inbox, ApplyNeeded) => Followed(inbox, LinkDown, ApplyNeeded)
    /\ leaf = "WAITING_FOR_DISCONNECT_TO_APPLY" =>
         \/ /\ modem = "attached" /\ ~Has(inbox, LinkDown)
            /\ Has(netInbox, Disconnect) /\ Once(netInbox, Disturbing)
            /\ Followed(netInbox, Up, Disconnect)
         \/ modem = "detached" /\ StaysDown /\ ~Has(inbox, LinkDown)
         \/ modem = "offline" /\ StaysDown
    /\ Applying => modem = "offline" /\ StaysDown

UpdateInv == MainInv /\ FotaInv /\ NetworkInv /\ UpdateHeard /\ ApplyGoesOn /\ DisconnectsFirst
(* What FOTA and network modules must not be asked for again is asked last. *)
LEMMA ApplyLastTail ==
  ASSUME NEW S, NEW s \in Seq(S), s # <<>>, ApplyLast(s)
  PROVE  ApplyLast(Tail(s)) /\ (Head(s) \in Apply => NoResult(s))
  <1>1. \A k \in DOMAIN Tail(s) : k \in Nat /\ k + 1 \in DOMAIN s /\ s[k + 1] = Tail(s)[k]
    OBVIOUS
  <1>2. 1 \in DOMAIN s /\ s[1] = Head(s) /\ \A k \in DOMAIN s : k \in Nat /\ ~(k < 1)
    OBVIOUS
  <1>3. ASSUME NEW i \in DOMAIN Tail(s), NEW j \in DOMAIN Tail(s),
               Tail(s)[i] \in Apply, Tail(s)[j] \in Results
        PROVE  j < i
    <2>1. j + 1 < i + 1
      BY <1>1, <1>3 DEF ApplyLast
    <2> QED
      BY <1>1, <2>1
  <1>4. ASSUME Head(s) \in Apply PROVE NoResult(s)
    BY <1>2, <1>4 DEF ApplyLast, NoResult, Has
  <1> QED
    BY <1>3, <1>4 DEF ApplyLast

LEMMA ApplyLastAppend ==
  ASSUME NEW S, NEW s \in Seq(S), NEW m, ApplyLast(s), m \notin Results \/ ~Has(s, Apply)
  PROVE  ApplyLast(Append(s, m))
  <1>1. \A k \in DOMAIN Append(s, m) :
          \/ k \in DOMAIN s /\ Append(s, m)[k] = s[k] /\ k < Len(s) + 1
          \/ k = Len(s) + 1 /\ Append(s, m)[k] = m
    OBVIOUS
  <1>2. Results \cap Apply = {}
    BY DEF Results, Apply
  <1> QED
    BY <1>1, <1>2 DEF ApplyLast, Has

LEMMA FollowedHas ==
  ASSUME NEW s, NEW msgs, NEW by, Followed(s, msgs, by), Has(s, msgs)
  PROVE  Has(s, by)
  BY DEF Followed, Has

-----------------------------------------------------------------------------
(* What the steps do to the queue of main.                                 *)

Tcc == Event("TIMER_CONFIG_CHANGED")

LEMMA Kinds ==
  /\ \A m \in InMsg :
       /\ m \in Begun <=> m.type = "FOTA_DOWNLOADING_UPDATE"
       /\ m \in Ended <=> m.type = "FOTA_DOWNLOAD_ENDED"
       /\ m \in ApplyNeeded <=> m.type = "FOTA_IMAGE_APPLY_NEEDED"
       /\ m \in RebootNeeded <=> m.type = "FOTA_SUCCESS_REBOOT_NEEDED"
       /\ m \in LinkDown <=> m.type = "NETWORK_DISCONNECTED"
  /\ Tcc \notin Begun \union Ended \union ApplyNeeded \union RebootNeeded \union LinkDown
  BY DEF Begun, Ended, ApplyNeeded, RebootNeeded, LinkDown, OfType, Tcc, Event

LEMMA InboxTaken ==
  ASSUME inbox \in Seq(InMsg), inbox # <<>>,
         inbox' = Tail(inbox) \/ inbox' = Tail(inbox) \o <<Tcc>>
  PROVE  /\ Msg \in InMsg
         /\ \A msgs : Tcc \notin msgs => (Has(inbox, msgs) <=> Msg \in msgs \/ Has(inbox', msgs))
         /\ \A msgs, by : Tcc \notin msgs /\ Followed(inbox, msgs, by) =>
              Followed(inbox', msgs, by) /\ (Msg \in msgs => Has(inbox', by))
         /\ \A msgs : Tcc \notin msgs /\ Once(inbox, msgs) =>
              Once(inbox', msgs) /\ (Msg \in msgs => ~Has(inbox', msgs))
  <1>1. /\ Msg \in InMsg /\ Tail(inbox) \in Seq(InMsg)
        /\ \A msgs : Has(inbox, msgs) <=> Msg \in msgs \/ Has(Tail(inbox), msgs)
    BY HeadTail, HasTail DEF Msg
  <1>2. \A msgs, by : Followed(inbox, msgs, by) =>
          Followed(Tail(inbox), msgs, by) /\ (Msg \in msgs => Has(Tail(inbox), by))
    BY FollowedTail DEF Msg
  <1>3. \A msgs : Once(inbox, msgs) =>
          Once(Tail(inbox), msgs) /\ (Msg \in msgs => ~Has(Tail(inbox), msgs))
    BY OnceTail DEF Msg
  <1>4. CASE inbox' = Tail(inbox)
    BY <1>1, <1>2, <1>3, <1>4
  <1>5. CASE inbox' = Tail(inbox) \o <<Tcc>>
    <2>1. inbox' = Append(Tail(inbox), Tcc)
      BY <1>1, <1>5
    <2>2. \A msgs : Has(inbox', msgs) <=> Has(Tail(inbox), msgs) \/ Tcc \in msgs
      BY <1>1, <2>1, HasAppend
    <2>3. \A msgs, by : Tcc \notin msgs /\ Followed(Tail(inbox), msgs, by)
                          => Followed(inbox', msgs, by)
      BY <1>1, <2>1, FollowedAppend
    <2>4. \A msgs : Tcc \notin msgs /\ Once(Tail(inbox), msgs) => Once(inbox', msgs)
      BY <1>1, <2>1, OnceAppend
    <2> QED
      BY <1>1, <1>2, <1>3, <2>2, <2>3, <2>4
  <1> QED
    BY <1>4, <1>5

LEMMA InboxGrown ==
  ASSUME inbox \in Seq(InMsg), NEW m \in InMsg, inbox' = Append(inbox, m)
  PROVE  /\ \A msgs : Has(inbox', msgs) <=> Has(inbox, msgs) \/ m \in msgs
         /\ \A msgs, by : m \notin msgs /\ (m \in by \/ Followed(inbox, msgs, by))
                            => Followed(inbox', msgs, by)
         /\ \A msgs : Once(inbox, msgs) /\ (m \notin msgs \/ ~Has(inbox, msgs))
                            => Once(inbox', msgs)
  BY HasAppend, FollowedBy, FollowedAppend, OnceAppend

-----------------------------------------------------------------------------
(* Main takes a message.                                                   *)

(* What it asks of the others. *)
LEMMA Ordered ==
  ASSUME Control, inbox \in Seq(InMsg), MainThread, ~Reboot
  PROVE  /\ NetworkRequestsOf(Types(published')) =
              IF leaf = "DOWNLOADING" /\ Msg.type \in {"FOTA_IMAGE_APPLY_NEEDED",
                                                       "FOTA_SUCCESS_REBOOT_NEEDED"}
                THEN <<"NETWORK_DISCONNECT">> ELSE <<>>
         /\ IF leaf = "WAITING_FOR_DISCONNECT_TO_APPLY" /\ Msg.type = "NETWORK_DISCONNECTED"
              THEN FotaRequests(Types(published')) = <<"FOTA_IMAGE_APPLY">>
              ELSE FotaRequests(Types(published')) \in {<<>>, <<"FOTA_POLL_REQUEST">>}
  <1> DEFINE types == Types(published')
             Asks(request) == \E i \in DOMAIN types : types[i] = request
  <1>1. published' \in Seq(OutMsg)
    BY EnterStep, LeafStep, StayStep DEF MainThread
  <1>2. ASSUME ~Has(published', Orders)
        PROVE  ~Asks("NETWORK_DISCONNECT") /\ ~Asks("FOTA_IMAGE_APPLY")
    BY <1>1, <1>2 DEF Types, Has, Orders
  <1>3. ASSUME NEW e, published' = <<Event(e)>>
        PROVE  \A request : Asks(request) <=> request = e
    BY <1>3 DEF Types, Event
  <1>4. published' = <<>> => \A request : ~Asks(request)
    BY DEF Types
  <1>5. Asks("NETWORK_DISCONNECT") <=>
          leaf = "DOWNLOADING" /\ Msg.type \in {"FOTA_IMAGE_APPLY_NEEDED",
                                               "FOTA_SUCCESS_REBOOT_NEEDED"}
    <2> DEFINE over == leaf = "DOWNLOADING" /\ Msg.type \in {"FOTA_IMAGE_APPLY_NEEDED",
                                                            "FOTA_SUCCESS_REBOOT_NEEDED"}
    <2>1. CASE over /\ published' = OrderTo(Msg.type)
      BY <1>3, <2>1 DEF OrderTo
    <2>2. CASE ~over /\ published' = OrderTo(Msg.type)
      <3>1. published' = <<>> \/ published' = <<Event("FOTA_IMAGE_APPLY")>>
        BY <2>2 DEF OrderTo
      <3> QED
        BY SMTT(30), <1>3, <1>4, <2>2, <3>1
    <2>3. CASE ~Has(published', Orders) /\ OrderTo(Msg.type) = <<>>
      <3>1. ~over
        BY <2>3 DEF OrderTo
      <3> QED
        BY <1>2, <2>3, <3>1
    <2> QED
      BY <2>1, <2>2, <2>3, MainOrders
  <1>6. /\ Asks("FOTA_IMAGE_APPLY") <=>
             leaf = "WAITING_FOR_DISCONNECT_TO_APPLY" /\ Msg.type = "NETWORK_DISCONNECTED"
        /\ Asks("FOTA_IMAGE_APPLY") => ~Asks("FOTA_POLL_REQUEST")
    <2>1. CASE published' = OrderTo(Msg.type)
      <3>1. CASE /\ leaf = "WAITING_FOR_DISCONNECT_TO_APPLY"
                 /\ Msg.type = "NETWORK_DISCONNECTED"
        BY <1>3, <2>1, <3>1 DEF OrderTo
      <3>2. CASE ~(/\ leaf = "WAITING_FOR_DISCONNECT_TO_APPLY"
                   /\ Msg.type = "NETWORK_DISCONNECTED")
        <4>1. published' = <<>> \/ published' = <<Event("NETWORK_DISCONNECT")>>
          BY <2>1, <3>2 DEF OrderTo
        <4> QED
          BY <1>3, <1>4, <3>2, <4>1
      <3> QED
        BY <3>1, <3>2
    <2>2. CASE ~Has(published', Orders) /\ OrderTo(Msg.type) = <<>>
      <3>1. ~(leaf = "WAITING_FOR_DISCONNECT_TO_APPLY" /\ Msg.type = "NETWORK_DISCONNECTED")
        BY <2>2 DEF OrderTo
      <3> QED
        BY <1>2, <2>2, <3>1
    <2> QED
      BY <2>1, <2>2, MainOrders
  <1>7. \A request : Asked(request, types) = IF Asks(request) THEN <<request>> ELSE <<>>
    BY DEF Asked
  <1> HIDE DEF types, Asks
  <1>8. \A request : <<request>> \o <<>> = <<request>> /\ <<>> \o <<request>> = <<request>>
                     /\ <<>> \o <<>> = <<>>
    OBVIOUS
  <1>9. FotaRequests(types) = Asked("FOTA_POLL_REQUEST", types) \o Asked("FOTA_IMAGE_APPLY", types)
        /\ NetworkRequestsOf(types) = Asked("NETWORK_DISCONNECT", types)
    BY DEF FotaRequests, NetworkRequestsOf
  <1>10. types = Types(published')
    BY DEF types
  <1> QED
    BY <1>5, <1>6, <1>7, <1>8, <1>9, <1>10
(* A step of main, with what it leaves in the three queues. *)
MainTakes ==
  /\ MainThread /\ ~Reboot
  /\ fotaInbox' = fotaInbox \o FotaRequests(Types(published'))
  /\ netInbox' = netInbox \o NetworkRequestsOf(Types(published'))
  /\ UNCHANGED <<fota, job, lte, modem, disturbed>>

LEMMA MainTaken ==
  ASSUME MainInv, MainTakes
  PROVE  /\ inbox # <<>> /\ (inbox' = Tail(inbox) \/ inbox' = Tail(inbox) \o <<Tcc>>)
         /\ LeafAfter(Msg.type)
         /\ Control /\ inbox \in Seq(InMsg) /\ Msg \in InMsg
  BY Taken, MainHears, HeadTail DEF MainTakes, MainInv, Tcc, Reboot, Takes, Msg

LEMMA HeardByMain ==
  ASSUME MainInv, UpdateHeard, MainTakes
  PROVE  UpdateHeard'
  <1>1. Msg \in InMsg /\ LeafAfter(Msg.type) /\ job' = job
    BY MainTaken DEF MainTakes
  <1>2. /\ \A msgs : Tcc \notin msgs => (Has(inbox, msgs) <=> Msg \in msgs \/ Has(inbox', msgs))
        /\ \A msgs, by : Tcc \notin msgs /\ Followed(inbox, msgs, by) =>
              Followed(inbox', msgs, by) /\ (Msg \in msgs => Has(inbox', by))
    BY MainTaken, InboxTaken
  <1>3. Tcc \notin Outcome /\ (Msg \in Outcome <=> Msg \in Ended \/ Msg \in ApplyNeeded \/ Msg \in RebootNeeded)
    BY Kinds DEF Outcome
  <1>4. \A t \in FotaLeaves : t # "NONE" /\ t # "SAMPLING" /\ t # "WAITING"
    BY DEF FotaLeaves
  <1>5. job \in Active => leaf' \in FotaLeaves \/ Has(inbox', Begun)
    BY <1>1, <1>2, Kinds DEF UpdateHeard, LeafAfter, FotaLeaves
  <1>6. job \in Active => Followed(inbox', Ended, Begun)
    BY <1>2, Kinds DEF UpdateHeard
  <1>7. job \notin Downloads => Followed(inbox', Begun, Outcome)
    BY <1>2, Kinds DEF UpdateHeard
  <1>8. leaf' = "DOWNLOADING" /\ job \notin Downloads => Has(inbox', Outcome)
    BY <1>1, <1>2, <1>3, Kinds DEF UpdateHeard, LeafAfter, FotaLeaves
  <1>9. Has(inbox', RebootNeeded) => job = "done"
    BY <1>2, Kinds DEF UpdateHeard
  <1> QED
    BY <1>1, <1>5, <1>6, <1>7, <1>8, <1>9 DEF UpdateHeard

(* What main asks of the FOTA module. *)
LEMMA AskedOfFota ==
  ASSUME MainInv, FotaInv, MainTakes
  PROVE  \/ fotaInbox' = fotaInbox
         \/ fotaInbox' = Append(fotaInbox, "FOTA_POLL_REQUEST")
         \/ /\ fotaInbox' = Append(fotaInbox, "FOTA_IMAGE_APPLY")
            /\ leaf = "WAITING_FOR_DISCONNECT_TO_APPLY" /\ Msg.type = "NETWORK_DISCONNECTED"
  <1>1. fotaInbox \in Seq(FotaMsg) /\ \A m \in FotaMsg : fotaInbox \o <<m>> = Append(fotaInbox, m)
        /\ fotaInbox \o <<>> = fotaInbox
    BY DEF FotaInv
  <1>2. {"FOTA_POLL_REQUEST", "FOTA_IMAGE_APPLY"} \subseteq FotaMsg
    BY DEF FotaMsg, FotaRequestMsgs
  <1>3. Control /\ inbox \in Seq(InMsg) /\ MainThread /\ ~Reboot
        /\ fotaInbox' = fotaInbox \o FotaRequests(Types(published'))
    BY DEF MainInv, MainTakes
  <1> QED
    BY <1>1, <1>2, <1>3, Ordered

LEMMA ApplyByMain ==
  ASSUME MainInv, FotaInv, UpdateHeard, ApplyGoesOn, MainTakes
  PROVE  ApplyGoesOn'
  <1>1. Msg \in InMsg /\ LeafAfter(Msg.type) /\ job' = job /\ fota' = fota
    BY MainTaken DEF MainTakes
  <1>2. /\ \A msgs : Tcc \notin msgs => (Has(inbox, msgs) <=> Msg \in msgs \/ Has(inbox', msgs))
        /\ \A msgs, by : Tcc \notin msgs /\ Followed(inbox, msgs, by) =>
              Followed(inbox', msgs, by) /\ (Msg \in msgs => Has(inbox', by))
        /\ \A msgs : Tcc \notin msgs /\ Once(inbox, msgs) =>
              Once(inbox', msgs) /\ (Msg \in msgs => ~Has(inbox', msgs))
    BY MainTaken, InboxTaken
  <1> DEFINE asks == leaf = "WAITING_FOR_DISCONNECT_TO_APPLY" /\ Msg.type = "NETWORK_DISCONNECTED"
             Before == Begun \union Ended
  <1>3. /\ Has(fotaInbox', Apply) <=> Has(fotaInbox, Apply) \/ asks
        /\ Once(fotaInbox, Apply) /\ (asks => ~Has(fotaInbox, Apply)) => Once(fotaInbox', Apply)
        /\ ApplyLast(fotaInbox) => ApplyLast(fotaInbox')
    <2>1. fotaInbox \in Seq(FotaMsg)
      BY DEF FotaInv
    <2>2. \A m \in {"FOTA_POLL_REQUEST", "FOTA_IMAGE_APPLY"} :
            fotaInbox' = Append(fotaInbox, m) =>
              /\ Has(fotaInbox', Apply) <=> Has(fotaInbox, Apply) \/ m \in Apply
              /\ Once(fotaInbox, Apply) /\ (m \notin Apply \/ ~Has(fotaInbox, Apply))
                   => Once(fotaInbox', Apply)
              /\ ApplyLast(fotaInbox) => ApplyLast(fotaInbox')
      <3>1. \A m \in {"FOTA_POLL_REQUEST", "FOTA_IMAGE_APPLY"} : m \notin Results
        BY DEF Results
      <3> QED
        BY <2>1, <3>1, HasAppend, OnceAppend, ApplyLastAppend
    <2>3. ~("FOTA_POLL_REQUEST" \in Apply) /\ "FOTA_IMAGE_APPLY" \in Apply
      BY DEF Apply
    <2>4. asks => fotaInbox' = Append(fotaInbox, "FOTA_IMAGE_APPLY")
      <3>1. /\ Control /\ inbox \in Seq(InMsg) /\ MainThread /\ ~Reboot
            /\ fotaInbox' = fotaInbox \o FotaRequests(Types(published'))
        BY DEF MainInv, MainTakes
      <3>2. asks => fotaInbox' = fotaInbox \o <<"FOTA_IMAGE_APPLY">>
        BY <3>1, Ordered
      <3>3. \A m \in FotaMsg : fotaInbox \o <<m>> = Append(fotaInbox, m)
        BY <2>1
      <3> QED
        BY <3>2, <3>3 DEF FotaMsg, FotaRequestMsgs
    <2> QED
      BY <2>2, <2>3, <2>4, AskedOfFota
  <1> HIDE DEF Before
  <1>4. /\ Tcc \notin Before /\ (Msg \in Before <=> Msg \in Begun \/ Msg \in Ended)
        /\ Before = Begun \union Ended
    BY Kinds DEF Before
  <1>5. Followed(inbox', Before, ApplyNeeded) /\ Has(inbox', Before) => Has(inbox', ApplyNeeded)
    BY FollowedHas
  <1>6. Applying' <=> Applying \/ asks
    BY <1>1, <1>3 DEF Applying
  <1>7. job # "apply" =>
          /\ ~Has(inbox', ApplyNeeded) /\ leaf' # "WAITING_FOR_DISCONNECT_TO_APPLY"
          /\ ~Has(fotaInbox', Apply)
    BY <1>1, <1>2, <1>3, Kinds DEF ApplyGoesOn, LeafAfter, FotaLeaves
  <1>8. Once(inbox', ApplyNeeded) /\ Once(fotaInbox', Apply) /\ ApplyLast(fotaInbox')
    BY <1>2, <1>3, Kinds DEF ApplyGoesOn, Applying
  <1>9. Has(inbox', ApplyNeeded) =>
          /\ leaf' # "WAITING_FOR_DISCONNECT_TO_APPLY" /\ ~Applying'
          /\ Followed(inbox', Before, ApplyNeeded)
    BY <1>1, <1>2, <1>4, <1>6, Kinds DEF ApplyGoesOn, LeafAfter, FotaLeaves
  <1>10. leaf' = "WAITING_FOR_DISCONNECT_TO_APPLY" => ~Applying' /\ ~Has(inbox', Before)
    BY <1>1, <1>2, <1>4, <1>5, <1>6, Kinds DEF ApplyGoesOn, LeafAfter, FotaLeaves
  <1>11. Applying' => leaf' \in {"APPLYING", "REBOOTING"} /\ ~Has(inbox', Before)
    BY <1>1, <1>2, <1>4, <1>6, Kinds DEF ApplyGoesOn, LeafAfter, FotaLeaves
  <1>12. leaf' = "APPLYING" => \/ fota = "FATAL" \/ job = "applying"
                               \/ Has(fotaInbox', Apply) \/ Has(inbox', RebootNeeded)
    BY <1>1, <1>2, <1>3, Kinds DEF ApplyGoesOn, LeafAfter, FotaLeaves
  <1> QED
    BY <1>1, <1>4, <1>7, <1>8, <1>9, <1>10, <1>11, <1>12 DEF ApplyGoesOn
LEMMA OfflineByMain ==
  ASSUME UpdateInv, MainTakes
  PROVE  DisconnectsFirst'
  <1> SUFFICES ASSUME ~disturbed
               PROVE  DisconnectsFirst'
    BY DEF DisconnectsFirst, MainTakes
  <1>1. /\ Msg \in InMsg /\ LeafAfter(Msg.type)
        /\ UNCHANGED <<job, fota, lte, modem, disturbed>>
    BY MainTaken DEF MainTakes, UpdateInv
  <1>2. /\ \A msgs : Tcc \notin msgs => (Has(inbox, msgs) <=> Msg \in msgs \/ Has(inbox', msgs))
        /\ \A msgs, by : Tcc \notin msgs /\ Followed(inbox, msgs, by) =>
              Followed(inbox', msgs, by) /\ (Msg \in msgs => Has(inbox', by))
        /\ \A msgs : Tcc \notin msgs /\ Once(inbox, msgs) =>
              Once(inbox', msgs) /\ (Msg \in msgs => ~Has(inbox', msgs))
    BY MainTaken, InboxTaken DEF UpdateInv
  <1> DEFINE asks == leaf = "WAITING_FOR_DISCONNECT_TO_APPLY" /\ Msg.type = "NETWORK_DISCONNECTED"
             over == leaf = "DOWNLOADING" /\ Msg.type \in {"FOTA_IMAGE_APPLY_NEEDED",
                                                           "FOTA_SUCCESS_REBOOT_NEEDED"}
  <1>3. Applying' => Applying \/ asks
    <2>1. Has(fotaInbox', Apply) => Has(fotaInbox, Apply) \/ asks
      <3>1. fotaInbox \in Seq(FotaMsg) /\ "FOTA_POLL_REQUEST" \notin Apply
        BY DEF UpdateInv, FotaInv, Apply
      <3>2. fotaInbox' = Append(fotaInbox, "FOTA_POLL_REQUEST")
              => (Has(fotaInbox', Apply) => Has(fotaInbox, Apply))
        BY <3>1, HasAppend
      <3> QED
        BY <3>2, AskedOfFota DEF UpdateInv
    <2> QED
      BY <1>1, <2>1 DEF Applying
  <1>4. /\ ~over => netInbox' = netInbox
        /\ over => /\ Has(netInbox', Disconnect)
                   /\ ~Has(netInbox, Disturbing) => Once(netInbox', Disturbing)
                   /\ Followed(netInbox', Up, Disconnect)
    <2>1. netInbox \in Seq(NetworkMsg)
      BY DEF UpdateInv, NetworkInv, NetworkTypeOK
    <2>2. netInbox' = netInbox \o (IF over THEN <<"NETWORK_DISCONNECT">> ELSE <<>>)
      <3>1. Control /\ inbox \in Seq(InMsg) /\ MainThread /\ ~Reboot
        BY DEF UpdateInv, MainInv, MainTakes
      <3> QED
        BY <3>1, Ordered DEF MainTakes
    <2>3. netInbox \o <<>> = netInbox
      BY <2>1
    <2>4. ASSUME over
          PROVE  /\ Has(netInbox', Disconnect)
                 /\ ~Has(netInbox, Disturbing) => Once(netInbox', Disturbing)
                 /\ Followed(netInbox', Up, Disconnect)
      <3>1. netInbox' = Append(netInbox, "NETWORK_DISCONNECT")
        BY <2>1, <2>2, <2>4
      <3>2. /\ "NETWORK_DISCONNECT" \in Disconnect /\ "NETWORK_DISCONNECT" \notin Up
        BY DEF Disconnect, Up
      <3>3. ~Has(netInbox, Disturbing) => Once(netInbox, Disturbing)
        BY DEF Has, Once
      <3>4. Has(netInbox', Disconnect) /\ Followed(netInbox', Up, Disconnect)
        BY <2>1, <3>1, <3>2, HasAppend, FollowedBy
      <3>5. ~Has(netInbox, Disturbing) => Once(netInbox', Disturbing)
        BY <2>1, <3>1, <3>3, OnceAppend
      <3> QED
        BY <3>4, <3>5
    <2> QED
      BY <2>2, <2>3, <2>4
  <1>5. /\ UpdateHeard /\ ApplyGoesOn /\ DisconnectsFirst
    BY DEF UpdateInv
  <1>6. job = "downloaded" \/ Has(inbox', ApplyNeeded) =>
          modem = "attached" /\ ~Has(netInbox', Disturbing)
    <2>1. over => job = "done" \/ (Msg \in ApplyNeeded /\ job = "apply")
      BY <1>1, <1>2, <1>5, Kinds DEF UpdateHeard, ApplyGoesOn
    <2>2. job = "downloaded" \/ Has(inbox', ApplyNeeded) => ~over
      BY <1>2, <1>5, <2>1, Kinds DEF ApplyGoesOn
    <2>3. job = "downloaded" \/ Has(inbox', ApplyNeeded) =>
            job = "downloaded" \/ Has(inbox, ApplyNeeded)
      BY <1>2, Kinds
    <2> QED
      BY <1>4, <1>5, <2>2, <2>3 DEF DisconnectsFirst
  <1>7. Has(inbox', ApplyNeeded) => Followed(inbox', LinkDown, ApplyNeeded)
    BY <1>2, <1>5, Kinds DEF DisconnectsFirst
  <1>8. ASSUME leaf' = "WAITING_FOR_DISCONNECT_TO_APPLY"
        PROVE  \/ /\ modem = "attached" /\ ~Has(inbox', LinkDown)
                  /\ Has(netInbox', Disconnect) /\ Once(netInbox', Disturbing)
                  /\ Followed(netInbox', Up, Disconnect)
               \/ modem = "detached" /\ StaysDown' /\ ~Has(inbox', LinkDown)
               \/ modem = "offline" /\ StaysDown'
    <2>1. CASE leaf = "WAITING_FOR_DISCONNECT_TO_APPLY"
      <3>1. netInbox' = netInbox /\ (StaysDown' <=> StaysDown)
        BY <1>1, <1>4, <2>1 DEF StaysDown
      <3>2. Has(inbox', LinkDown) => Has(inbox, LinkDown)
        BY <1>2, Kinds
      <3> QED
        BY <1>5, <2>1, <3>1, <3>2 DEF DisconnectsFirst
    <2>2. CASE leaf # "WAITING_FOR_DISCONNECT_TO_APPLY"
      <3>1. leaf = "DOWNLOADING" /\ Msg.type = "FOTA_IMAGE_APPLY_NEEDED" /\ Msg \in ApplyNeeded
        BY <1>1, <1>8, <2>2, Kinds DEF LeafAfter, FotaLeaves
      <3>2. Has(inbox, ApplyNeeded) /\ ~Has(inbox', ApplyNeeded)
        BY <1>2, <1>5, <3>1, Kinds DEF ApplyGoesOn
      <3>3. modem = "attached" /\ ~Has(netInbox, Disturbing) /\ Followed(inbox', LinkDown, ApplyNeeded)
        BY <1>2, <1>5, <3>2, Kinds DEF DisconnectsFirst
      <3>4. ~Has(inbox', LinkDown)
        BY <3>2, <3>3, FollowedHas
      <3> QED
        BY <1>4, <3>1, <3>3, <3>4
    <2> QED
      BY <2>1, <2>2
  <1>9. ASSUME Applying'
        PROVE  modem = "offline" /\ StaysDown'
    <2>1. ~over
      BY <1>3, <1>5, <1>9 DEF ApplyGoesOn
    <2>2. StaysDown' <=> StaysDown
      BY <1>1, <1>4, <2>1 DEF StaysDown
    <2>3. asks => modem = "offline" /\ StaysDown
      BY <1>1, <1>2, <1>5, Kinds DEF DisconnectsFirst
    <2> QED
      BY <1>3, <1>5, <1>9, <2>2, <2>3 DEF DisconnectsFirst
  <1> QED
    BY <1>1, <1>6, <1>7, <1>8, <1>9 DEF DisconnectsFirst
-----------------------------------------------------------------------------
(* The timers, and what the other modules send, change nothing of it.      *)

Agreement == UpdateHeard /\ ApplyGoesOn /\ DisconnectsFirst

LEMMA Unheard ==
  ASSUME UpdateInv,
         inbox' = inbox \/ \E m \in InMsg : /\ inbox' = Append(inbox, m)
                                            /\ m \notin Begun \union Outcome,
         UNCHANGED <<leaf, fota, job, fotaInbox>>
  PROVE  /\ UpdateHeard' /\ ApplyGoesOn' /\ (Applying' <=> Applying)
         /\ Has(inbox', ApplyNeeded) <=> Has(inbox, ApplyNeeded)
  <1> DEFINE kinds == {Begun, Ended, ApplyNeeded, RebootNeeded, Outcome, Begun \union Ended}
  <1>1. /\ \A msgs \in kinds : Has(inbox', msgs) <=> Has(inbox, msgs)
        /\ \A msgs, by \in kinds : Followed(inbox, msgs, by) => Followed(inbox', msgs, by)
        /\ \A msgs \in kinds : Once(inbox, msgs) => Once(inbox', msgs)
    <2>1. CASE inbox' = inbox
      BY <2>1
    <2>2. CASE inbox' # inbox
      <3>1. PICK m \in InMsg : inbox' = Append(inbox, m) /\ m \notin Begun \union Outcome
        BY <2>2
      <3>2. \A msgs \in kinds : m \notin msgs
        BY <3>1 DEF Outcome
      <3>3. inbox \in Seq(InMsg)
        BY DEF UpdateInv, MainInv
      <3> HIDE DEF kinds
      <3> QED
        BY <3>1, <3>2, <3>3, InboxGrown
    <2> QED
      BY <2>1, <2>2
  <1>2. UpdateHeard'
    BY <1>1 DEF UpdateInv, UpdateHeard
  <1>3. ApplyGoesOn' /\ (Applying' <=> Applying)
    BY <1>1 DEF UpdateInv, ApplyGoesOn, Applying
  <1> QED
    BY <1>1, <1>2, <1>3

LEMMA UnheardOffline ==
  ASSUME UpdateInv,
         inbox' = inbox \/ \E m \in InMsg : /\ inbox' = Append(inbox, m)
                                            /\ m \notin Begun \union Outcome \union LinkDown,
         UNCHANGED <<leaf, fota, job, fotaInbox, disturbed, lte, modem, netInbox>>
  PROVE  Agreement'
  <1>1. /\ UpdateHeard' /\ ApplyGoesOn' /\ (Applying' <=> Applying)
        /\ Has(inbox', ApplyNeeded) <=> Has(inbox, ApplyNeeded)
    BY Unheard
  <1>2. /\ Has(inbox', LinkDown) <=> Has(inbox, LinkDown)
        /\ Followed(inbox, LinkDown, ApplyNeeded) => Followed(inbox', LinkDown, ApplyNeeded)
    <2>1. CASE inbox' = inbox
      BY <2>1
    <2>2. CASE inbox' # inbox
      <3>1. PICK m \in InMsg : inbox' = Append(inbox, m) /\ m \notin LinkDown
        BY <2>2
      <3>2. inbox \in Seq(InMsg)
        BY DEF UpdateInv, MainInv
      <3> QED
        BY <3>1, <3>2, InboxGrown
    <2> QED
      BY <2>1, <2>2
  <1>3. DisconnectsFirst'
    <2>1. StaysDown' <=> StaysDown
      BY DEF StaysDown
    <2> QED
      BY <1>1, <1>2, <2>1 DEF UpdateInv, DisconnectsFirst
  <1> QED
    BY <1>1, <1>3 DEF Agreement

-----------------------------------------------------------------------------
(* The FOTA module takes a message.                                        *)

LEMMA FotaQueueTaken ==
  ASSUME FotaInv, ApplyGoesOn, NEW types, FotaTakes(types)
  PROVE  /\ Has(fotaInbox, Apply) <=> Head(fotaInbox) \in Apply \/ Has(Tail(fotaInbox), Apply)
         /\ Once(Tail(fotaInbox), Apply) /\ ApplyLast(Tail(fotaInbox))
         /\ Head(fotaInbox) \in Apply =>
              /\ ~Has(Tail(fotaInbox), Apply) /\ job = "apply"
              /\ fota = "WAITING_FOR_IMAGE_APPLY"
  <1>1. fotaInbox \in Seq(FotaMsg) /\ fotaInbox # <<>> /\ fota # "FATAL"
    BY DEF FotaInv, FotaTakes
  <1>2. Has(fotaInbox, Apply) <=> Head(fotaInbox) \in Apply \/ Has(Tail(fotaInbox), Apply)
    BY <1>1, HasTail
  <1>3. /\ Once(Tail(fotaInbox), Apply)
        /\ Head(fotaInbox) \in Apply => ~Has(Tail(fotaInbox), Apply)
    BY <1>1, OnceTail DEF ApplyGoesOn
  <1>4. /\ ApplyLast(Tail(fotaInbox))
        /\ Head(fotaInbox) \in Apply => NoResult(fotaInbox)
    BY <1>1, ApplyLastTail DEF ApplyGoesOn
  <1>5. ASSUME Head(fotaInbox) \in Apply
        PROVE  job = "apply" /\ fota = "WAITING_FOR_IMAGE_APPLY"
    <2>1. job = "apply" /\ NoResult(fotaInbox)
      BY <1>2, <1>4, <1>5 DEF ApplyGoesOn
    <2>2. /\ \A r \in Results : ~OneResult(fotaInbox, r)
          /\ \A r, q \in Results : ~TwoResults(fotaInbox, r, q)
      BY <2>1 DEF NoResult, OneResult, TwoResults, Has
    <2>3. \A e \in Ends : e[2] \in Results
      BY DEF Ends, Results
    <2>4. {"FOTA_NO_AVAILABLE_UPDATE", "FOTA_DOWNLOADING_UPDATE", "FOTA_DOWNLOAD_CANCELED",
           "FOTA_SUCCESS_REBOOT_NEEDED"} \subseteq Results
      BY DEF Results
    <2> QED
      BY <1>1, <2>1, <2>2, <2>3, <2>4 DEF FotaInv, FotaStates, ResultsFit
  <1> QED
    BY <1>2, <1>3, <1>4, <1>5

(* What a message changes of the job and of the state, as far as the others
   depend on it. *)
JobGoesOn ==
  \/ job' = job /\ (fota' = "IMAGE_APPLYING" => fota = "IMAGE_APPLYING")
  \/ job = "none" /\ job' = "found" /\ fota' # "IMAGE_APPLYING"
  \/ job = "downloading" /\ job' = "canceling" /\ fota' # "IMAGE_APPLYING"
  \/ job = "apply" /\ job' = "applying" /\ Head(fotaInbox) \in Apply

LEMMA FotaSteps ==
  ASSUME FotaInv, ApplyGoesOn, FotaThread
  PROVE  /\ JobGoesOn
         /\ Once(fotaInbox', Apply) /\ ApplyLast(fotaInbox')
         /\ Has(fotaInbox', Apply) <=> Has(fotaInbox, Apply) /\ Head(fotaInbox) \notin Apply
         /\ Head(fotaInbox) \in Apply => fota' = "FATAL" \/ job' = "applying"
         /\ fota' # "FATAL" /\ job = "applying" => job' = "applying"
  <1> USE DEF FotaSilent, FotaPublish
  <1>1. \E types : FotaTakes(types)
    BY DEF FotaThread, PollRequest, ImageApply, DownloadCancel, TakeResult
  <1>2. /\ Has(fotaInbox, Apply) <=> Head(fotaInbox) \in Apply \/ Has(Tail(fotaInbox), Apply)
        /\ Once(Tail(fotaInbox), Apply) /\ ApplyLast(Tail(fotaInbox))
        /\ Head(fotaInbox) \in Apply =>
             /\ ~Has(Tail(fotaInbox), Apply) /\ job = "apply"
             /\ fota = "WAITING_FOR_IMAGE_APPLY"
        /\ Tail(fotaInbox) \in Seq(FotaMsg)
    BY <1>1, FotaQueueTaken, FotaTaken
  <1>3. \/ fotaInbox' = Tail(fotaInbox)
        \/ /\ fota = "WAITING_FOR_POLL_REQUEST"
           /\ fotaInbox' = Append(Tail(fotaInbox), "FOTA_NO_AVAILABLE_UPDATE")
    <2>1. \/ fotaInbox' = Tail(fotaInbox) \o <<>>
          \/ /\ fota = "WAITING_FOR_POLL_REQUEST"
             /\ fotaInbox' = Tail(fotaInbox) \o <<"FOTA_NO_AVAILABLE_UPDATE">>
      BY DEF FotaThread, PollRequest, ImageApply, DownloadCancel, TakeResult
    <2>2. "FOTA_NO_AVAILABLE_UPDATE" \in FotaMsg
      BY DEF FotaMsg, Results
    <2>3. /\ Tail(fotaInbox) \o <<>> = Tail(fotaInbox)
          /\ \A m \in FotaMsg : Tail(fotaInbox) \o <<m>> = Append(Tail(fotaInbox), m)
      BY <1>2
    <2> QED
      BY <2>1, <2>2, <2>3
  <1>4. /\ Once(fotaInbox', Apply) /\ ApplyLast(fotaInbox')
        /\ Has(fotaInbox', Apply) <=> Has(Tail(fotaInbox), Apply)
    <2>1. CASE fotaInbox' = Tail(fotaInbox)
      BY <1>2, <2>1
    <2>2. CASE /\ fota = "WAITING_FOR_POLL_REQUEST"
               /\ fotaInbox' = Append(Tail(fotaInbox), "FOTA_NO_AVAILABLE_UPDATE")
      <3>1. ~Has(Tail(fotaInbox), Apply)
        BY <1>2, <2>2 DEF FotaInv, ResultsFit, ApplyGoesOn
      <3>2. "FOTA_NO_AVAILABLE_UPDATE" \notin Apply
        BY DEF Apply
      <3> QED
        BY <1>2, <2>2, <3>1, <3>2, OnceAppend, ApplyLastAppend, HasAppend
    <2> QED
      BY <1>3, <2>1, <2>2
  <1>5. /\ JobGoesOn
        /\ Head(fotaInbox) \in Apply => fota' = "FATAL" \/ job' = "applying"
        /\ fota' # "FATAL" /\ job = "applying" => job' = "applying"
    <2>1. CASE PollRequest
      <3>1. Head(fotaInbox) \notin Apply /\ (fota = "WAITING_FOR_POLL_REQUEST" => job = "none")
        BY <2>1 DEF PollRequest, FotaTakes, Apply, FotaInv, ResultsFit
      <3> QED
        BY <2>1, <3>1 DEF PollRequest, JobGoesOn
    <2>2. CASE ImageApply
      <3>1. Head(fotaInbox) \in Apply
        BY <2>2 DEF ImageApply, FotaTakes, Apply
      <3> QED
        BY <1>2, <2>2, <3>1 DEF ImageApply, JobGoesOn
    <2>3. CASE DownloadCancel
      <3>1. Head(fotaInbox) \notin Apply
        BY <2>3 DEF DownloadCancel, FotaTakes, Apply
      <3> QED
        BY <2>3, <3>1 DEF DownloadCancel, JobGoesOn
    <2>4. CASE TakeResult
      <3>1. Head(fotaInbox) \notin Apply /\ job' = job
        BY <2>4 DEF TakeResult, FotaTakes, Apply, Results
      <3>2. fota' = "IMAGE_APPLYING" => fota = "IMAGE_APPLYING"
        BY <2>4 DEF TakeResult, PollingRun, DownloadingRun, ApplyingRun, CancelingRun
      <3> QED
        BY <3>1, <3>2 DEF JobGoesOn
    <2> QED
      BY <2>1, <2>2, <2>3, <2>4 DEF FotaThread
  <1> QED
    BY <1>2, <1>4, <1>5

LEMMA AgreementByFota ==
  ASSUME UpdateInv, FotaThread,
         UNCHANGED <<leaf, inbox, disturbed, lte, modem, netInbox>>
  PROVE  Agreement'
  <1>1. /\ JobGoesOn
        /\ Once(fotaInbox', Apply) /\ ApplyLast(fotaInbox')
        /\ Has(fotaInbox', Apply) <=> Has(fotaInbox, Apply) /\ Head(fotaInbox) \notin Apply
        /\ Head(fotaInbox) \in Apply => fota' = "FATAL" \/ job' = "applying"
        /\ fota' # "FATAL" /\ job = "applying" => job' = "applying"
    BY FotaSteps DEF UpdateInv
  <1>2. fotaInbox \in Seq(FotaMsg) /\ fotaInbox # <<>> /\ fota # "FATAL"
    BY DEF UpdateInv, FotaInv, FotaThread, PollRequest, ImageApply, DownloadCancel, TakeResult,
           FotaTakes
  <1>3. Head(fotaInbox) \in Apply => Has(fotaInbox, Apply)
    BY <1>2, HasTail
  <1>4. UpdateHeard /\ ApplyGoesOn /\ DisconnectsFirst
    BY DEF UpdateInv
  <1>5. Applying' => Applying
    BY <1>1, <1>3 DEF Applying, JobGoesOn
  <1>6. UpdateHeard'
    BY <1>1, <1>4 DEF UpdateHeard, JobGoesOn, Active, Downloads
  <1>7. ApplyGoesOn'
    <2>1. job' # "apply" =>
            /\ ~Has(inbox, ApplyNeeded) /\ leaf # "WAITING_FOR_DISCONNECT_TO_APPLY"
            /\ ~Has(fotaInbox', Apply)
      BY <1>1, <1>3, <1>4 DEF ApplyGoesOn, JobGoesOn, Applying
    <2>2. leaf = "APPLYING" => \/ fota' = "FATAL" \/ job' = "applying"
                               \/ Has(fotaInbox', Apply) \/ Has(inbox, RebootNeeded)
      BY <1>1, <1>2, <1>4 DEF ApplyGoesOn
    <2> QED
      BY <1>1, <1>4, <1>5, <2>1, <2>2 DEF ApplyGoesOn
  <1>8. DisconnectsFirst'
    <2>1. job' = "downloaded" => job = "downloaded"
      BY <1>1 DEF JobGoesOn
    <2>2. StaysDown' <=> StaysDown
      BY DEF StaysDown
    <2> QED
      BY <1>4, <1>5, <2>1, <2>2 DEF DisconnectsFirst
  <1> QED
    BY <1>6, <1>7, <1>8 DEF Agreement
-----------------------------------------------------------------------------
(* The library reports, to the FOTA module and to main.                    *)

LEMMA LibrarySays ==
  ASSUME MainInv, FotaInv, Library, inbox' = inbox \o ToMain(fotaSent')
  PROVE  /\ fota' = fota
         /\ \/ /\ job = "downloading" /\ job' = "downloaded"
               /\ inbox' = inbox /\ fotaInbox' = fotaInbox
            \/ \E m \in InMsg, r \in Results :
                 /\ inbox' = Append(inbox, m) /\ fotaInbox' = Append(fotaInbox, r)
                 /\ \/ job = "found" /\ job' = "downloading" /\ m \in Begun
                    \/ job \in {"downloading", "canceling"} /\ job' = "none" /\ m \in Ended
                    \/ job = "downloaded" /\ job' = "apply" /\ m \in ApplyNeeded
                    \/ job \in {"downloaded", "applying"} /\ job' = "done" /\ m \in RebootNeeded
  <1>1. inbox \in Seq(InMsg) /\ fotaInbox \in Seq(FotaMsg)
    BY DEF MainInv, FotaInv
  <1>2. \A m \in InMsg : inbox \o <<m>> = Append(inbox, m)
    BY <1>1
  <1>3. inbox \o <<>> = inbox
    BY <1>1
  <1>4. \A r \in FotaMsg : fotaInbox \o <<r>> = Append(fotaInbox, r)
    BY <1>1
  <1>5. CASE DownloadFinishes
    <2>1. ToMain(fotaSent') = <<>>
      BY <1>5 DEF DownloadFinishes, ToMain
    <2> QED
      BY <1>3, <1>5, <2>1 DEF DownloadFinishes
  <1>6. ASSUME NEW from, NEW to, NEW r \in Results, Reports(from, to, r)
        PROVE  /\ job = from /\ job' = to /\ fota' = fota
               /\ fotaInbox' = Append(fotaInbox, r)
               /\ HeardAs(r) \in AllEvents =>
                    /\ Event(HeardAs(r)) \in InMsg
                    /\ inbox' = Append(inbox, Event(HeardAs(r)))
    <2>1. /\ job = from /\ job' = to /\ fota' = fota
          /\ fotaInbox' = fotaInbox \o <<r>> /\ fotaSent' = <<r>>
      BY <1>6 DEF Reports, FotaPublish
    <2>2. HeardAs(r) \in AllEvents => ToMain(fotaSent') = <<Event(HeardAs(r))>>
      BY <2>1 DEF ToMain
    <2>3. HeardAs(r) \in AllEvents => Event(HeardAs(r)) \in InMsg
      BY InMsgs
    <2>4. r \in FotaMsg
      BY DEF FotaMsg
    <2> QED
      BY <1>2, <1>4, <2>1, <2>2, <2>3, <2>4
  <1>7. /\ HeardAs("FOTA_DOWNLOADING_UPDATE") = "FOTA_DOWNLOADING_UPDATE"
        /\ HeardAs("FOTA_DOWNLOAD_FAILED") = "FOTA_DOWNLOAD_ENDED"
        /\ HeardAs("FOTA_DOWNLOAD_CANCELED") = "FOTA_DOWNLOAD_ENDED"
        /\ HeardAs("FOTA_IMAGE_APPLY_NEEDED") = "FOTA_IMAGE_APPLY_NEEDED"
        /\ HeardAs("FOTA_SUCCESS_REBOOT_NEEDED") = "FOTA_SUCCESS_REBOOT_NEEDED"
        /\ {"FOTA_DOWNLOADING_UPDATE", "FOTA_DOWNLOAD_ENDED", "FOTA_IMAGE_APPLY_NEEDED",
            "FOTA_SUCCESS_REBOOT_NEEDED"} \subseteq AllEvents
        /\ {"FOTA_DOWNLOADING_UPDATE", "FOTA_DOWNLOAD_FAILED", "FOTA_DOWNLOAD_CANCELED",
            "FOTA_IMAGE_APPLY_NEEDED", "FOTA_SUCCESS_REBOOT_NEEDED"} \subseteq Results
    BY DEF HeardAs, AllEvents, Results
  <1>8. \A e : Event(e).type = e
    BY DEF Event
  <1>9. CASE DownloadBegins
    BY <1>6, <1>7, <1>8, <1>9, Kinds DEF DownloadBegins
  <1>10. CASE DownloadFails
    BY <1>6, <1>7, <1>8, <1>10, Kinds DEF DownloadFails
  <1>11. CASE DownloadIsCanceled
    BY <1>6, <1>7, <1>8, <1>11, Kinds DEF DownloadIsCanceled
  <1>12. CASE ImageIsValidated
    BY <1>6, <1>7, <1>8, <1>12, Kinds DEF ImageIsValidated
  <1>13. CASE ImageIsApplied
    BY <1>6, <1>7, <1>8, <1>13, Kinds DEF ImageIsApplied
  <1> QED
    BY <1>5, <1>9, <1>10, <1>11, <1>12, <1>13 DEF Library

LEMMA AgreementByLibrary ==
  ASSUME UpdateInv, fota # "FATAL", Library, inbox' = inbox \o ToMain(fotaSent'),
         UNCHANGED <<leaf, lte, modem, netInbox>>,
         \/ /\ job' = "downloaded" /\ modem = "attached"
            /\ disturbed' = \E i \in DOMAIN netInbox : Disturbs(netInbox[i])
         \/ job' # "downloaded" /\ UNCHANGED disturbed
  PROVE  Agreement'
  <1>1. /\ UpdateHeard /\ ApplyGoesOn /\ DisconnectsFirst
        /\ inbox \in Seq(InMsg) /\ fotaInbox \in Seq(FotaMsg)
    BY DEF UpdateInv, MainInv, FotaInv
  <1>2. /\ fota = "IMAGE_APPLYING" => job \in {"applying", "done"}
        /\ StaysDown' <=> StaysDown
    BY DEF UpdateInv, FotaInv, ResultsFit, StaysDown
  <1>3. CASE /\ job = "downloading" /\ job' = "downloaded"
             /\ inbox' = inbox /\ fotaInbox' = fotaInbox /\ fota' = fota
    <2>1. UpdateHeard'
      BY <1>1, <1>3 DEF UpdateHeard, Active, Downloads
    <2>2. ApplyGoesOn' /\ ~Applying' /\ leaf # "WAITING_FOR_DISCONNECT_TO_APPLY"
          /\ ~Has(inbox, ApplyNeeded)
      BY <1>1, <1>2, <1>3 DEF ApplyGoesOn, Applying
    <2>3. ~disturbed' => modem = "attached" /\ ~Has(netInbox, Disturbing)
      BY <1>3 DEF Disturbs, Disturbing, Has
    <2>4. DisconnectsFirst'
      BY <1>3, <2>2, <2>3 DEF DisconnectsFirst
    <2> QED
      BY <2>1, <2>2, <2>4 DEF Agreement
  <1>4. ASSUME NEW m \in InMsg, NEW r \in Results,
               inbox' = Append(inbox, m), fotaInbox' = Append(fotaInbox, r), fota' = fota,
               \/ job = "found" /\ job' = "downloading" /\ m \in Begun
               \/ job \in {"downloading", "canceling"} /\ job' = "none" /\ m \in Ended
               \/ job = "downloaded" /\ job' = "apply" /\ m \in ApplyNeeded
               \/ job \in {"downloaded", "applying"} /\ job' = "done" /\ m \in RebootNeeded
        PROVE  Agreement'
    <2>1. /\ \A msgs : Has(inbox', msgs) <=> Has(inbox, msgs) \/ m \in msgs
          /\ \A msgs, by : m \notin msgs /\ (m \in by \/ Followed(inbox, msgs, by))
                             => Followed(inbox', msgs, by)
          /\ \A msgs : Once(inbox, msgs) /\ (m \notin msgs \/ ~Has(inbox, msgs))
                             => Once(inbox', msgs)
      BY <1>1, <1>4, InboxGrown
    <2>2. /\ m \in Outcome <=> m \in Ended \/ m \in ApplyNeeded \/ m \in RebootNeeded
          /\ m \in Begun \union Ended <=> m \in Begun \/ m \in Ended
      BY DEF Outcome
    <2>3. UpdateHeard'
      <3>1. job' \in Active => leaf \in FotaLeaves \/ Has(inbox', Begun)
        BY <1>1, <1>4, <2>1 DEF UpdateHeard, Active, Downloads
      <3>2. job' \in Active => Followed(inbox', Ended, Begun)
        BY <1>1, <1>4, <2>1, Kinds DEF UpdateHeard, Active, Downloads
      <3>3. job' \notin Downloads => Followed(inbox', Begun, Outcome) /\ Has(inbox', Outcome)
        BY <1>1, <1>4, <2>1, <2>2, Kinds DEF UpdateHeard, Downloads
      <3>4. Has(inbox', RebootNeeded) => job' = "done"
        BY <1>1, <1>4, <2>1, Kinds DEF UpdateHeard
      <3> QED
        BY <3>1, <3>2, <3>3, <3>4 DEF UpdateHeard
    <2>4. /\ ~Has(inbox, ApplyNeeded) /\ leaf # "WAITING_FOR_DISCONNECT_TO_APPLY"
          /\ ~Has(fotaInbox, Apply) /\ ~Has(inbox, RebootNeeded)
      BY <1>1, <1>4 DEF ApplyGoesOn, UpdateHeard
    <2>5. ~Has(fotaInbox', Apply) /\ Once(fotaInbox', Apply) /\ ApplyLast(fotaInbox')
      <3>1. r \notin Apply
        BY DEF Apply, Results
      <3> QED
        BY <1>1, <1>4, <2>4, <3>1, HasAppend, OnceAppend, ApplyLastAppend DEF ApplyGoesOn
    <2>6. /\ Applying' <=> fota = "IMAGE_APPLYING"
          /\ fota = "IMAGE_APPLYING" => Applying /\ job = "applying" /\ m \in RebootNeeded
      BY <1>2, <1>4, <2>5 DEF Applying
    <2>7. ApplyGoesOn'
      <3>1. job' # "apply" => ~Has(inbox', ApplyNeeded)
        BY <1>4, <2>1, <2>4, Kinds
      <3>2. Once(inbox', ApplyNeeded)
        BY <1>1, <2>1, <2>4 DEF ApplyGoesOn
      <3>3. Has(inbox', ApplyNeeded) => ~Applying' /\ Followed(inbox', Begun \union Ended, ApplyNeeded)
        BY <1>4, <2>1, <2>2, <2>4, <2>6, Kinds
      <3>4. Applying' => leaf \in {"APPLYING", "REBOOTING"} /\ ~Has(inbox', Begun \union Ended)
        BY <1>1, <2>1, <2>2, <2>6, Kinds DEF ApplyGoesOn
      <3>5. leaf = "APPLYING" => job = "applying"
        BY <1>1, <2>4 DEF ApplyGoesOn
      <3>6. leaf = "APPLYING" => Has(inbox', RebootNeeded)
        BY <1>4, <2>1, <3>5
      <3> QED
        BY <2>4, <2>5, <3>1, <3>2, <3>3, <3>4, <3>6 DEF ApplyGoesOn
    <2>8. DisconnectsFirst'
      <3>1. job' # "downloaded" /\ disturbed' = disturbed
        BY <1>4
      <3>2. Has(inbox', ApplyNeeded) =>
              /\ job = "downloaded" /\ Followed(inbox', LinkDown, ApplyNeeded)
        BY <1>4, <2>1, <2>4, Kinds
      <3> QED
        BY <1>1, <1>2, <2>4, <2>6, <3>1, <3>2 DEF DisconnectsFirst
    <2> QED
      BY <2>3, <2>7, <2>8 DEF Agreement
  <1> QED
    BY <1>3, <1>4, LibrarySays DEF UpdateInv

(* The application cancels. *)
LEMMA AgreementByCancel ==
  ASSUME UpdateInv, RequestCancel,
         UNCHANGED <<leaf, inbox, disturbed, lte, modem, netInbox>>
  PROVE  Agreement' /\ FotaInv'
  <1>1. /\ fotaInbox \in Seq(FotaMsg) /\ "FOTA_DOWNLOAD_CANCEL" \in FotaMsg
        /\ fotaInbox' = Append(fotaInbox, "FOTA_DOWNLOAD_CANCEL") /\ UNCHANGED <<fota, job>>
    BY DEF UpdateInv, FotaInv, RequestCancel, FotaMsg
  <1>2. "FOTA_DOWNLOAD_CANCEL" \notin Apply /\ "FOTA_DOWNLOAD_CANCEL" \notin Results
    BY DEF Apply, Results
  <1>3. Has(fotaInbox', Apply) <=> Has(fotaInbox, Apply)
    BY <1>1, <1>2, HasAppend
  <1>4. (Once(fotaInbox, Apply) => Once(fotaInbox', Apply))
        /\ (ApplyLast(fotaInbox) => ApplyLast(fotaInbox'))
    BY <1>1, <1>2, OnceAppend, ApplyLastAppend
  <1>5. UpdateHeard' /\ ApplyGoesOn' /\ (Applying' <=> Applying)
    BY <1>1, <1>3, <1>4 DEF UpdateInv, UpdateHeard, ApplyGoesOn, Applying
  <1>6. DisconnectsFirst'
    <2>1. StaysDown' <=> StaysDown
      BY DEF StaysDown
    <2> QED
      BY <1>1, <1>5, <2>1 DEF UpdateInv, DisconnectsFirst
  <1>7. FotaInv'
    <2>1. fotaInbox' = fotaInbox \o <<"FOTA_DOWNLOAD_CANCEL">>
      BY <1>1
    <2>2. <<"FOTA_DOWNLOAD_CANCEL">> \in Seq(FotaMsg) /\ NoResult(<<"FOTA_DOWNLOAD_CANCEL">>)
      BY <1>1, <1>2, OneSeq DEF NoResult, Has
    <2> QED
      BY <1>1, <2>1, <2>2, FotaAsked DEF UpdateInv
  <1> QED
    BY <1>5, <1>6, <1>7 DEF Agreement
-----------------------------------------------------------------------------
(* The network module, while an image waits to be applied.                 *)

LEMMA NetQueueTaken ==
  ASSUME NetworkInv, NEW types, NetTakes(types)
  PROVE  /\ Head(netInbox) \in types
         /\ \A msgs : Has(netInbox, msgs) <=> Head(netInbox) \in msgs \/ Has(netInbox', msgs)
         /\ \A msgs, by : Followed(netInbox, msgs, by) => Followed(netInbox', msgs, by)
         /\ \A msgs, by : Followed(netInbox, msgs, by) /\ Head(netInbox) \in msgs
                            => Has(netInbox', by)
         /\ \A msgs : Once(netInbox, msgs) => Once(netInbox', msgs)
         /\ \A msgs : Once(netInbox, msgs) /\ Head(netInbox) \in msgs => ~Has(netInbox', msgs)
         /\ UNCHANGED <<requested, outages>>
  <1>1. netInbox \in Seq(NetworkMsg) /\ netInbox # <<>> /\ netInbox' = Tail(netInbox)
        /\ Head(netInbox) \in types /\ UNCHANGED <<requested, outages>>
    BY DEF NetworkInv, NetworkTypeOK, NetTakes
  <1> QED
    BY <1>1, HasTail, FollowedTail, OnceTail

(* Connected until it is to disconnect, with and without the request, then *)
(* on the way offline, then offline.                                       *)
Connecting == modem = "attached" /\ ~Has(netInbox, Disturbing)

Leaving ==
  /\ modem = "attached" /\ Has(netInbox, Disconnect)
  /\ Once(netInbox, Disturbing) /\ Followed(netInbox, Up, Disconnect)

Detaching == modem = "detached" /\ StaysDown
IsOffline == modem = "offline" /\ StaysDown

Silent == ToMain(netSent') = <<>>

(* How an undisturbed step goes on. *)
PhasesGoOn ==
  /\ Connecting => Connecting' /\ Silent
  /\ Leaving => (Leaving' \/ Detaching') /\ Silent
  /\ Detaching => IsOffline' \/ (Detaching' /\ Silent)
  /\ IsOffline => IsOffline'

LEMMA ThreadIsSilent == NetworkThread \/ RequestNetwork => Silent
  <1>1. ToMain(<<>>) = <<>>
    BY DEF ToMain
  <1>2. \A m \in {"NETWORK_QUALITY_SAMPLE_RESPONSE", "NETWORK_SYSTEM_MODE_RESPONSE"} :
          ToMain(<<m>>) = <<>>
    BY DEF ToMain, HeardAs, AllEvents
  <1>3. NetworkThread \/ RequestNetwork =>
          \/ netSent' = <<>>
          \/ \E m \in {"NETWORK_QUALITY_SAMPLE_RESPONSE", "NETWORK_SYSTEM_MODE_RESPONSE"} :
               netSent' = <<m>>
    BY DEF NetworkThread, NetworkConnect, NetworkDisconnect, NetworkSearchStop, NetworkQuery,
           NetworkConnected, NetworkLost, NetworkUiccFailure, RequestNetwork, NetSilent, Answers
  <1> QED
    BY <1>1, <1>2, <1>3 DEF Silent

LEMMA ThreadGoesOn == NetworkInv /\ NetworkThread => PhasesGoOn
  <1> SUFFICES ASSUME NetworkInv, NetworkThread PROVE PhasesGoOn
    OBVIOUS
  <1>1. Silent
    BY ThreadIsSilent
  <1>2. ASSUME NetworkConnect \/ NetworkSearchStop PROVE PhasesGoOn
    <2>1. NetTakes({"NETWORK_CONNECT", "NETWORK_SEARCH_STOP"})
      BY <1>2 DEF NetworkConnect, NetworkSearchStop, NetTakes
    <2>2. Head(netInbox) \in Disturbing /\ Head(netInbox) \notin Disconnect
      BY <2>1, NetQueueTaken DEF Disturbing, Disconnect
    <2>3. ~Connecting /\ ~Detaching /\ ~IsOffline
      BY <2>1, <2>2, NetQueueTaken DEF Connecting, Detaching, IsOffline, StaysDown
    <2>4. ~Leaving
      <3>1. Has(netInbox', Disconnect) => Has(netInbox', Disturbing)
        BY DEF Has, Disconnect, Disturbing
      <3> QED
        BY <2>1, <2>2, <3>1, NetQueueTaken DEF Leaving
    <2> QED
      BY <2>3, <2>4 DEF PhasesGoOn
  <1>3. CASE NetworkDisconnect
    <2>1. NetTakes({"NETWORK_DISCONNECT"})
      BY <1>3 DEF NetworkDisconnect
    <2>2. Head(netInbox) \in Disturbing /\ Head(netInbox) \in Disconnect
      BY <2>1, NetQueueTaken DEF Disturbing, Disconnect
    <2>3. ~Connecting /\ ~Detaching /\ ~IsOffline
      BY <2>1, <2>2, NetQueueTaken DEF Connecting, Detaching, IsOffline, StaysDown
    <2>4. ASSUME Leaving PROVE Detaching'
      <3>1. ~Has(netInbox', Disturbing) /\ Followed(netInbox', Up, Disconnect)
        BY <2>1, <2>2, <2>4, NetQueueTaken DEF Leaving
      <3>2. ~Has(netInbox', Up)
        BY <3>1 DEF Has, Followed, Disconnect, Disturbing
      <3>3. ~Has(netInbox, Up)
        BY <2>1, <3>2, NetQueueTaken DEF Up
      <3>4. modem = "attached" /\ lte = "CONNECTED"
        BY <2>4, <3>3 DEF Leaving, NetworkInv, LeafIsKnown
      <3>5. lte' = "DISCONNECTING" /\ modem' = "detached"
        BY <1>3, <3>4 DEF NetworkDisconnect, Offline
      <3>6. ~Has(netInbox', Disturbing \union Up)
        BY <3>1, <3>2 DEF Has
      <3> QED
        BY <3>5, <3>6 DEF Detaching, StaysDown
    <2> QED
      BY <1>1, <2>3, <2>4 DEF PhasesGoOn
  <1>4. ASSUME NetworkQuery \/ NetworkConnected \/ NetworkLost \/ NetworkUiccFailure
        PROVE  PhasesGoOn
    <2> DEFINE types == {"NETWORK_QUALITY_SAMPLE_REQUEST", "NETWORK_SYSTEM_MODE_REQUEST",
                         "NETWORK_SYSTEM_MODE_SET", "NETWORK_CONNECTED",
                         "NETWORK_DISCONNECTED", "NETWORK_UICC_FAILURE"}
    <2>1. NetTakes(types)
      BY <1>4 DEF NetworkQuery, NetworkConnected, NetworkLost, NetworkUiccFailure, NetTakes
    <2>2. Head(netInbox) \notin Disturbing /\ Head(netInbox) \notin Disconnect
          /\ (NetworkConnected => Head(netInbox) \in Disturbing \union Up)
      BY <2>1, NetQueueTaken DEF Disturbing, Disconnect, Up, NetworkConnected, NetTakes
    <2>3. modem = "attached" => modem' = "attached"
      BY <1>4 DEF NetworkQuery, NetworkConnected, NetworkLost, NetworkUiccFailure, EnterSearching
    <2>4. lte \in {"IDLE", "DISCONNECTING"} /\ ~NetworkConnected
            => lte' \in {"IDLE", "DISCONNECTING"} /\ modem' = modem
      BY <1>4 DEF NetworkQuery, NetworkConnected, NetworkLost, NetworkUiccFailure
    <2> HIDE DEF types
    <2>5. /\ Connecting => Connecting'
          /\ Leaving => Leaving'
      BY <2>1, <2>2, <2>3, NetQueueTaken DEF Connecting, Leaving
    <2>6. StaysDown => StaysDown' /\ modem' = modem
      BY <2>1, <2>2, <2>4, NetQueueTaken DEF StaysDown
    <2> QED
      BY <1>1, <2>5, <2>6 DEF PhasesGoOn, Detaching, IsOffline
  <1> QED
    BY <1>2, <1>3, <1>4 DEF NetworkThread

LEMMA QuietRequestGoesOn ==
  ASSUME NetworkInv, RequestNetwork, ~Disturbs(netInbox'[Len(netInbox')])
  PROVE  PhasesGoOn
  <1>1. PICK r \in NetworkRequests : netInbox' = Append(netInbox, r)
    BY DEF RequestNetwork
  <1>2. netInbox \in Seq(NetworkMsg) /\ UNCHANGED <<lte, modem>>
    BY DEF NetworkInv, NetworkTypeOK, RequestNetwork
  <1>3. netInbox'[Len(netInbox')] = r
    BY <1>1, <1>2
  <1>4. r \notin Disturbing /\ r \notin Up
    BY <1>1, <1>3, NetworkRequestsAssumption DEF Disturbs, Disturbing, Up, AllNetworkRequests
  <1>5. /\ \A msgs : r \notin msgs => (Has(netInbox', msgs) <=> Has(netInbox, msgs))
        /\ \A msgs, by : r \notin msgs /\ Followed(netInbox, msgs, by)
                           => Followed(netInbox', msgs, by)
        /\ \A msgs : r \notin msgs /\ Once(netInbox, msgs) => Once(netInbox', msgs)
    BY <1>1, <1>2, HasAppend, FollowedAppend, OnceAppend
  <1>6. r \notin Disconnect /\ r \notin Disturbing \union Up
    BY <1>4 DEF Disturbing, Disconnect
  <1>7. StaysDown => StaysDown'
    BY <1>2, <1>5, <1>6 DEF StaysDown
  <1> QED
    BY <1>2, <1>4, <1>5, <1>6, <1>7, ThreadIsSilent
       DEF PhasesGoOn, Connecting, Leaving, Detaching, IsOffline

LEMMA ModemGoesOn == NetworkInv /\ (Attach \/ Detach) => PhasesGoOn
  <1>1. CASE Attach
    BY <1>1 DEF Attach, PhasesGoOn, Connecting, Leaving, Detaching, IsOffline
  <1>2. ASSUME NetworkInv, Detach, Detaching PROVE IsOffline'
    <2>1. netInbox \in Seq(NetworkMsg) /\ netInbox' = Append(netInbox, "NETWORK_DISCONNECTED")
          /\ modem' = "offline" /\ lte' = lte
      BY <1>2 DEF NetworkInv, NetworkTypeOK, Detach, Announce, Detaching
    <2>2. "NETWORK_DISCONNECTED" \notin Disturbing \union Up
      BY DEF Disturbing, Up
    <2>3. ~Has(netInbox', Disturbing \union Up)
      BY <1>2, <2>1, <2>2, HasAppend DEF Detaching, StaysDown
    <2> QED
      BY <1>2, <2>1, <2>3 DEF Detaching, IsOffline, StaysDown
  <1>3. ASSUME NetworkInv, Detach PROVE PhasesGoOn
    <2>1. modem \in {"detached", "resuming"}
      BY <1>3 DEF Detach
    <2> QED
      BY <1>2, <1>3, <2>1 DEF PhasesGoOn, Connecting, Leaving, IsOffline
  <1> QED
    BY <1>1, <1>3

-----------------------------------------------------------------------------
(* What the other two modules say to main keeps what main knows.           *)

LEMMA SaidToMain ==
  ASSUME MainInv, NEW types, Hears(types)
  PROVE  /\ MainInv' /\ leaf' = leaf
         /\ \/ inbox' = inbox /\ ToMain(types) = <<>>
            \/ \E e \in AllEvents : /\ types # <<>> /\ e = HeardAs(Head(types))
                                    /\ inbox' = Append(inbox, Event(e))
  <1>1. /\ Control /\ CyclesGoOn /\ inbox \in Seq(InMsg) /\ responses \in 0 .. MaxResponses
        /\ UNCHANGED <<modeVars, timerVars, polled, modemReady, search, envVars>>
        /\ published' = <<>> /\ inbox' = inbox \o ToMain(types)
    BY DEF MainInv, Hears
  <1>2. Control' /\ published' \in Seq(OutMsg) /\ responses' \in 0 .. MaxResponses
    BY <1>1, EmptySeq
       DEF Control, StateTypes, TimerTypes, ConnectionKnown, ModeKnown, TimersFitState, ModeOf,
           modeVars, timerVars, envVars
  <1>3. UNCHANGED <<region, leaf, sampleTimer, sendTimer>>
    BY <1>1 DEF modeVars, timerVars
  <1>4. CASE ToMain(types) = <<>>
    <2>1. inbox' = inbox
      BY <1>1, <1>4
    <2>2. CyclesGoOn'
      BY <1>1, <1>3, <2>1 DEF CyclesGoOn, Queued
    <2> QED
      BY <1>1, <1>2, <1>3, <1>4, <2>1, <2>2 DEF MainInv
  <1>5. CASE ToMain(types) # <<>>
    <2>1. PICK e \in AllEvents : /\ types # <<>> /\ e = HeardAs(Head(types))
                                 /\ ToMain(types) = <<Event(e)>>
      BY <1>5 DEF ToMain
    <2>2. Event(e) \in InMsg
      BY InMsgs
    <2>3. inbox' = Append(inbox, Event(e))
      BY <1>1, <2>1, <2>2
    <2>4. inbox' \in Seq(InMsg) /\ \A type : Queued(type) => Queued(type)'
      BY <1>1, <2>2, <2>3, AppendSeq, QueuedAppend
    <2>5. CyclesGoOn'
      BY <1>1, <1>3, <2>4 DEF CyclesGoOn
    <2> QED
      BY <1>2, <1>3, <2>1, <2>3, <2>4, <2>5 DEF MainInv
  <1> QED
    BY <1>4, <1>5

-----------------------------------------------------------------------------
(* A step of the network module or of the modem.                           *)

NetworkStep == NetworkThread \/ Attach \/ Detach \/ RequestNetwork \/ LoseNetwork \/ NoSim

LEMMA SaidByNetwork ==
  ASSUME NetworkStep, NEW e \in AllEvents, netSent' # <<>>, e = HeardAs(Head(netSent'))
  PROVE  e = "NETWORK_DISCONNECTED"
  <1>1. \/ netSent' = <<>>
        \/ \E m \in {"NETWORK_QUALITY_SAMPLE_RESPONSE", "NETWORK_SYSTEM_MODE_RESPONSE",
                     "NETWORK_CONNECTED", "NETWORK_DISCONNECTED", "NETWORK_UICC_FAILURE"} :
             netSent' = <<m>>
    BY DEF NetworkStep, NetworkThread, NetworkConnect, NetworkDisconnect, NetworkSearchStop,
           NetworkQuery, NetworkConnected, NetworkLost, NetworkUiccFailure, RequestNetwork,
           NetSilent, Answers, Attach, Detach, LoseNetwork, NoSim, Announce
  <1>2. PICK m \in {"NETWORK_QUALITY_SAMPLE_RESPONSE", "NETWORK_SYSTEM_MODE_RESPONSE",
                    "NETWORK_CONNECTED", "NETWORK_DISCONNECTED", "NETWORK_UICC_FAILURE"} :
          netSent' = <<m>>
    BY <1>1
  <1>3. Head(netSent') = m
    BY <1>2
  <1> QED
    BY <1>2, <1>3 DEF HeardAs, AllEvents

(* While an image waits to be applied the job is one that a disturbance    *)
(* counts for.                                                             *)
Late == job \in {"downloaded", "apply", "done", "applying"}

LEMMA AgreementByNetwork ==
  ASSUME UpdateInv, NetworkStep, Hears(netSent'), UNCHANGED <<fota, job, fotaInbox>>,
         disturbed' = (disturbed \/ /\ Late
                                    /\ \/ outages' # outages
                                       \/ /\ requested' # requested
                                          /\ Disturbs(netInbox'[Len(netInbox')]))
  PROVE  Agreement' /\ MainInv'
  <1>1. /\ MainInv /\ MainInv' /\ leaf' = leaf /\ inbox \in Seq(InMsg)
        /\ \/ inbox' = inbox
           \/ ~Silent /\ inbox' = Append(inbox, Event("NETWORK_DISCONNECTED"))
    <2>1. MainInv /\ MainInv' /\ leaf' = leaf /\ inbox \in Seq(InMsg)
      BY SaidToMain DEF UpdateInv, MainInv
    <2>2. \/ inbox' = inbox
          \/ inbox' = Append(inbox, Event("NETWORK_DISCONNECTED"))
      BY SaidToMain, SaidByNetwork DEF UpdateInv
    <2>3. Silent => inbox' = inbox
      BY <2>1 DEF Hears, Silent
    <2> QED
      BY <2>1, <2>2, <2>3
  <1>2. /\ UpdateHeard' /\ ApplyGoesOn' /\ (Applying' <=> Applying)
        /\ Has(inbox', ApplyNeeded) <=> Has(inbox, ApplyNeeded)
    <2>1. /\ Event("NETWORK_DISCONNECTED") \in InMsg
          /\ Event("NETWORK_DISCONNECTED") \notin Begun \union Outcome
      <3>1. "NETWORK_DISCONNECTED" \in AllEvents
        BY DEF AllEvents
      <3>2. Event("NETWORK_DISCONNECTED") \in InMsg
        BY <3>1, InMsgs
      <3>3. Event("NETWORK_DISCONNECTED").type = "NETWORK_DISCONNECTED"
        BY DEF Event
      <3> QED
        BY <3>2, <3>3, Kinds DEF Outcome
    <2> QED
      BY <1>1, <2>1, Unheard
  <1>3. CASE disturbed' \/ ~Late
    <2>1. ~Late => /\ job # "downloaded" /\ ~Has(inbox, ApplyNeeded) /\ ~Applying
                   /\ leaf # "WAITING_FOR_DISCONNECT_TO_APPLY"
      <3>1. fota = "IMAGE_APPLYING" => job \in {"applying", "done"}
        BY DEF UpdateInv, FotaInv, ResultsFit
      <3> QED
        BY <3>1 DEF Late, UpdateInv, ApplyGoesOn, Applying
    <2>2. DisconnectsFirst'
      BY <1>1, <1>2, <1>3, <2>1 DEF DisconnectsFirst
    <2> QED
      BY <1>1, <1>2, <2>2 DEF Agreement
  <1>4. CASE ~disturbed' /\ Late
    <2>1. ~disturbed /\ NetworkInv
      BY <1>4 DEF UpdateInv
    <2>2. outages' = outages
      BY <1>4
    <2>3. ~LoseNetwork /\ ~NoSim
      <3>1. outages \in Nat
        BY <2>1 DEF NetworkInv, NetworkTypeOK
      <3>2. outages' # outages + 1
        BY <2>2, <3>1
      <3> QED
        BY <3>2 DEF LoseNetwork, NoSim
    <2>4. RequestNetwork => ~Disturbs(netInbox'[Len(netInbox')])
      <3>1. requested \in Nat
        BY <2>1 DEF NetworkInv, NetworkTypeOK
      <3>2. RequestNetwork => requested' # requested
        BY <3>1 DEF RequestNetwork
      <3> QED
        BY <1>4, <3>2
    <2>5. PhasesGoOn
      BY <2>1, <2>3, <2>4, ThreadGoesOn, QuietRequestGoesOn, ModemGoesOn DEF NetworkStep
    <2>6. Silent => inbox' = inbox
      BY <1>1
    <2>7. DisconnectsFirst
      BY DEF UpdateInv
    <2> USE DEF Connecting, Leaving, Detaching, IsOffline
    <2>8. job = "downloaded" \/ Has(inbox, ApplyNeeded) => Connecting' /\ Silent
      BY <2>1, <2>5, <2>7 DEF PhasesGoOn, DisconnectsFirst
    <2>9. Has(inbox, ApplyNeeded) => Followed(inbox', LinkDown, ApplyNeeded)
      BY <2>1, <2>6, <2>7, <2>8 DEF DisconnectsFirst
    <2>10. leaf = "WAITING_FOR_DISCONNECT_TO_APPLY" =>
             \/ Leaving' /\ ~Has(inbox', LinkDown)
             \/ Detaching' /\ ~Has(inbox', LinkDown)
             \/ IsOffline'
      <3> HIDE DEF Connecting, Leaving, Detaching, IsOffline
      <3>1. leaf = "WAITING_FOR_DISCONNECT_TO_APPLY" =>
              \/ Leaving /\ ~Has(inbox, LinkDown)
              \/ Detaching /\ ~Has(inbox, LinkDown)
              \/ IsOffline
        BY <2>1, <2>7 DEF DisconnectsFirst, Leaving, Detaching, IsOffline
      <3> QED
        BY <2>5, <2>6, <3>1 DEF PhasesGoOn
    <2>11. Applying => IsOffline'
      BY <2>1, <2>5, <2>7 DEF PhasesGoOn, DisconnectsFirst
    <2>12. DisconnectsFirst'
      BY <1>1, <1>2, <2>8, <2>9, <2>10, <2>11 DEF DisconnectsFirst
    <2> QED
      BY <1>1, <1>2, <2>12 DEF Agreement
  <1> QED
    BY <1>3, <1>4

-----------------------------------------------------------------------------
(* The device starts, and starts again.                                    *)

LEMMA QueuesStartEmpty ==
  ASSUME NEW s, s = <<>>
  PROVE  \A msgs, by : ~Has(s, msgs) /\ Followed(s, msgs, by) /\ Once(s, msgs)
  BY HasNone, FollowedNone, OnceNone

LEMMA UpdateStarts == UpdateInit => UpdateInv
  <1> SUFFICES ASSUME UpdateInit PROVE UpdateInv
    OBVIOUS
  <1>1. MainInv /\ NetworkInv
    BY MainInit, NetworkStarts DEF UpdateInit
  <1>2. /\ fota = "WAITING_FOR_POLL_REQUEST" /\ job = "none" /\ fotaInbox = <<>> /\ inbox = <<>>
        /\ leaf \in {"SAMPLING", "NONE"}
    BY DEF UpdateInit, Init, FotaInit, Boots
  <1>3. /\ \A msgs, by : ~Has(inbox, msgs) /\ Followed(inbox, msgs, by) /\ Once(inbox, msgs)
        /\ \A msgs : ~Has(fotaInbox, msgs) /\ Once(fotaInbox, msgs)
    BY <1>2, QueuesStartEmpty
  <1>4. FotaInv
    BY <1>2, <1>3, EmptySeq DEF FotaInv, FotaStates, ResultsFit, NoResult
  <1>5. UpdateHeard
    BY <1>2, <1>3 DEF UpdateHeard, Active, Downloads
  <1>6. ApplyLast(fotaInbox)
    BY <1>2 DEF ApplyLast
  <1>7. ApplyGoesOn /\ ~Applying
    BY <1>2, <1>3, <1>6 DEF ApplyGoesOn, Applying
  <1>8. DisconnectsFirst
    BY <1>2, <1>3, <1>7 DEF DisconnectsFirst
  <1> QED
    BY <1>1, <1>4, <1>5, <1>7, <1>8 DEF UpdateInv

LEMMA RestartKeeps ==
  ASSUME UpdateInv, DeviceRestarts
  PROVE  UpdateInv'
  <1>1. Restart /\ responses' = responses /\ responses \in 0 .. MaxResponses
    BY DEF DeviceRestarts, Restart, UpdateInv, MainInv
  <1>2. MainInv'
    <2>1. Control'
      BY <1>1, InitialModeAssumption
         DEF Restart, Control, StateTypes, TimerTypes, ConnectionKnown, ModeKnown, TimersFitState,
             Boots, Disconnected, ModeOf, Running, Buffer, Passthrough, Connected, FotaLeaves
    <2>2. CyclesGoOn'
      BY <1>1, InitialModeAssumption
         DEF Restart, CyclesGoOn, Boots, Disconnected, Buffer
    <2>3. inbox' \in Seq(InMsg) /\ published' \in Seq(OutMsg)
      BY <1>1, EmptySeq, OutSeqs DEF Restart, Boots
    <2> QED
      BY <1>1, <2>1, <2>2, <2>3 DEF MainInv
  <1>3. /\ fota' = "WAITING_FOR_POLL_REQUEST" /\ job' = "none" /\ fotaInbox' = <<>>
        /\ inbox' = <<>> /\ leaf' \in {"SAMPLING", "NONE"}
        /\ netInbox' = <<>> /\ netSent' = <<>> /\ lte' = Disconnects
        /\ modem' = (IF SearchOnStartup THEN "searching" ELSE "offline")
        /\ UNCHANGED <<requested, outages>>
    BY <1>1 DEF DeviceRestarts, Restart, Boots
  <1>4. /\ \A msgs, by : ~Has(inbox', msgs) /\ Followed(inbox', msgs, by) /\ Once(inbox', msgs)
        /\ \A msgs : ~Has(fotaInbox', msgs) /\ Once(fotaInbox', msgs)
        /\ \A msgs, by : ~Has(netInbox', msgs) /\ Followed(netInbox', msgs, by)
    BY <1>3, QueuesStartEmpty
  <1>5. NetworkInv'
    <2>1. NetworkTypeOK'
      BY <1>3, EmptySeq DEF UpdateInv, NetworkInv, NetworkTypeOK, Disconnects
    <2> QED
      BY <1>3, <1>4, <2>1 DEF NetworkInv, LastEventIsTrue, LeafIsKnown, Disconnects
  <1>6. FotaInv'
    BY <1>3, <1>4, EmptySeq DEF FotaInv, FotaStates, ResultsFit, NoResult
  <1>7. UpdateHeard'
    BY <1>3, <1>4 DEF UpdateHeard, Active, Downloads
  <1>8. ApplyLast(fotaInbox')
    BY <1>3 DEF ApplyLast
  <1>9. ApplyGoesOn' /\ ~Applying'
    BY <1>3, <1>4, <1>8 DEF ApplyGoesOn, Applying
  <1>10. DisconnectsFirst'
    BY <1>3, <1>4, <1>9 DEF DisconnectsFirst
  <1> QED
    BY <1>2, <1>5, <1>6, <1>7, <1>9, <1>10 DEF UpdateInv

-----------------------------------------------------------------------------
(* Every step keeps the invariant.                                         *)

LEMMA ThreadOfMainKeeps ==
  ASSUME UpdateInv, MainTakes, netSent' = <<>>, UNCHANGED <<requested, outages>>
  PROVE  UpdateInv'
  <1>1. /\ MainInv /\ FotaInv /\ NetworkInv /\ UpdateHeard /\ ApplyGoesOn
        /\ UNCHANGED <<fota, job, lte, modem>>
    BY DEF UpdateInv, MainTakes
  <1>2. MainInv'
    BY <1>1, MainStepKeeps DEF MainTakes, Next
  <1>3. UpdateHeard' /\ ApplyGoesOn' /\ DisconnectsFirst'
    BY <1>1, HeardByMain, ApplyByMain, OfflineByMain
  <1>4. FotaInv'
    <2>1. /\ FotaRequests(Types(published')) \in {<<>>, <<"FOTA_POLL_REQUEST">>, <<"FOTA_IMAGE_APPLY">>}
      BY <1>1, Ordered DEF MainTakes, MainInv
    <2>2. \A msgs \in {<<>>, <<"FOTA_POLL_REQUEST">>, <<"FOTA_IMAGE_APPLY">>} :
            msgs \in Seq(FotaMsg) /\ NoResult(msgs)
      <3>1. "FOTA_POLL_REQUEST" \in FotaMsg /\ "FOTA_IMAGE_APPLY" \in FotaMsg
        BY DEF FotaMsg, FotaRequestMsgs
      <3>2. <<>> \in Seq(FotaMsg) /\ <<"FOTA_POLL_REQUEST">> \in Seq(FotaMsg)
            /\ <<"FOTA_IMAGE_APPLY">> \in Seq(FotaMsg)
        BY <3>1, EmptySeq, OneSeq
      <3>3. NoResult(<<>>) /\ NoResult(<<"FOTA_POLL_REQUEST">>) /\ NoResult(<<"FOTA_IMAGE_APPLY">>)
        BY DEF NoResult, Has, Results
      <3> QED
        BY <3>2, <3>3
    <2>3. fotaInbox' = fotaInbox \o FotaRequests(Types(published'))
      BY DEF MainTakes
    <2> QED
      BY <1>1, <2>1, <2>2, <2>3, FotaAsked
  <1>5. NetworkInv'
    <2>1. netInbox \in Seq(NetworkMsg) /\ netInbox' = netInbox \o NetworkRequestsOf(Types(published'))
      BY <1>1 DEF NetworkInv, NetworkTypeOK, MainTakes
    <2>2. NetworkRequestsOf(Types(published')) \in {<<>>, <<"NETWORK_DISCONNECT">>}
      BY <1>1, Ordered DEF MainTakes, MainInv
    <2>3. netInbox' = netInbox \/ netInbox' = Append(netInbox, "NETWORK_DISCONNECT")
      <3>1. netInbox \o <<>> = netInbox
        BY <2>1
      <3>2. "NETWORK_DISCONNECT" \in NetworkMsg
        BY DEF NetworkMsg, AllNetworkRequests
      <3>3. netInbox \o <<"NETWORK_DISCONNECT">> = Append(netInbox, "NETWORK_DISCONNECT")
        BY <2>1, <3>2
      <3> QED
        BY <2>1, <2>2, <3>1, <3>3
    <2>4. netInbox' \in Seq(NetworkMsg) /\ LastEventIsTrue' /\ LeafIsKnown'
      <3>1. CASE netInbox' = netInbox
        BY <1>1, <2>1, <3>1 DEF NetworkInv, LastEventIsTrue, LeafIsKnown, NetUnderWay
      <3>2. CASE netInbox' = Append(netInbox, "NETWORK_DISCONNECT")
        <4>1. "NETWORK_DISCONNECT" \in AllNetworkRequests
          BY DEF AllNetworkRequests
        <4> QED
          BY <1>1, <3>2, <4>1, NetworkAsked
      <3> QED
        BY <2>3, <3>1, <3>2
    <2> QED
      BY <1>1, <2>4, EmptySeq DEF NetworkInv, NetworkTypeOK
  <1> QED
    BY <1>2, <1>3, <1>4, <1>5 DEF UpdateInv

(* The network module does not notice what goes on between the others. *)
LEMMA NetworkLeft ==
  ASSUME NetworkInv, netSent' = <<>>, UNCHANGED <<lte, modem, netInbox, requested, outages>>
  PROVE  NetworkInv'
  BY EmptySeq DEF NetworkInv, NetworkTypeOK, LastEventIsTrue, LeafIsKnown, NetUnderWay

LEMMA SilentMainKeeps ==
  ASSUME UpdateInv,
         \/ SampleTimerExpires \/ SendTimerExpires \/ IntervalPasses \/ SearchEnds
         \/ OthersPublish,
         fotaInbox' = fotaInbox \o FotaRequests(Types(published')),
         netInbox' = netInbox \o NetworkRequestsOf(Types(published')),
         netSent' = <<>>,
         UNCHANGED <<fota, job, lte, modem, requested, outages, disturbed>>
  PROVE  UpdateInv'
  <1>1. /\ MainInv /\ FotaInv /\ NetworkInv
        /\ inbox \in Seq(InMsg) /\ fotaInbox \in Seq(FotaMsg) /\ netInbox \in Seq(NetworkMsg)
    BY DEF UpdateInv, MainInv, FotaInv, NetworkInv, NetworkTypeOK
  <1>2. MainInv'
    BY <1>1, MainStepKeeps DEF Next
  <1>3. published' = <<>> /\ leaf' = leaf
    BY DEF SampleTimerExpires, SendTimerExpires, IntervalPasses, SearchEnds, OthersPublish,
           Deliver, modeVars
  <1>4. fotaInbox' = fotaInbox /\ netInbox' = netInbox
    <2>1. FotaRequests(Types(<<>>)) = <<>> \o <<>> /\ NetworkRequestsOf(Types(<<>>)) = <<>>
      BY DEF FotaRequests, NetworkRequestsOf, Asked, Types
    <2>2. FotaRequests(Types(<<>>)) = <<>>
      BY <2>1
    <2>3. fotaInbox \o <<>> = fotaInbox /\ netInbox \o <<>> = netInbox
      BY <1>1
    <2> QED
      BY <1>3, <2>1, <2>2, <2>3
  <1>5. inbox' = inbox \/ \E m \in InMsg : /\ inbox' = Append(inbox, m)
                                           /\ m \notin Begun \union Outcome \union LinkDown
    <2> DEFINE Late5 == {"FOTA_DOWNLOADING_UPDATE", "FOTA_DOWNLOAD_ENDED",
                         "FOTA_IMAGE_APPLY_NEEDED", "FOTA_SUCCESS_REBOOT_NEEDED",
                         "NETWORK_DISCONNECTED"}
    <2>1. \/ inbox' = inbox
          \/ \E m \in InMsg : inbox' = Append(inbox, m) /\ m.type \notin Late5
      <3>1. CASE SampleTimerExpires
        BY <3>1, InMsgs DEF SampleTimerExpires, Deliver, Event
      <3>2. CASE SendTimerExpires
        BY <3>2, InMsgs DEF SendTimerExpires, Deliver, Event
      <3>3. CASE IntervalPasses
        BY <3>3 DEF IntervalPasses
      <3>4. CASE SearchEnds
        BY <3>4, InMsgs DEF SearchEnds, Deliver, Event, AllEvents
      <3>5. CASE OthersPublish
        <4>1. CASE \E e \in Events : Deliver(Event(e))
          <5>1. PICK e \in Events : inbox' = Append(inbox, Event(e))
            BY <4>1 DEF Deliver
          <5>2. Event(e) \in InMsg /\ Event(e).type = e /\ e \notin Late5
            BY InMsgs, EventsAssumption, OthersAssumption DEF Event
          <5> QED
            BY <5>1, <5>2
        <4>2. CASE \E m \in Responses : Deliver(m)
          <5>1. PICK m \in Responses : inbox' = Append(inbox, m)
            BY <4>2 DEF Deliver
          <5>2. m \in InMsg /\ m.type \notin Late5
            BY InMsgs, ResponsesAssumption DEF Response
          <5> QED
            BY <5>1, <5>2
        <4> QED
          BY <3>5, <4>1, <4>2 DEF OthersPublish
      <3> QED
        BY <3>1, <3>2, <3>3, <3>4, <3>5
    <2>2. \A m \in InMsg : m.type \notin Late5 => m \notin Begun \union Outcome \union LinkDown
      BY Kinds DEF Outcome
    <2> QED
      BY <2>1, <2>2
  <1>6. Agreement'
    BY <1>3, <1>4, <1>5, UnheardOffline
  <1>7. FotaInv'
    BY <1>1, <1>4 DEF FotaInv, ResultsFit
  <1>8. NetworkInv'
    BY <1>1, <1>4, NetworkLeft
  <1> QED
    BY <1>2, <1>6, <1>7, <1>8 DEF UpdateInv, Agreement

LEMMA FotaKeeps ==
  ASSUME UpdateInv, FotaRuns(FotaThread) \/ FotaRuns(RequestCancel)
  PROVE  UpdateInv'
  <1>1. /\ MainInv /\ FotaInv /\ NetworkInv
        /\ Hears(fotaSent') /\ netSent' = <<>>
        /\ UNCHANGED <<lte, modem, netInbox, requested, outages, disturbed>>
        /\ FotaThread \/ RequestCancel
    BY DEF UpdateInv, FotaRuns
  <1>2. ToMain(fotaSent') = <<>>
    <2>1. fotaSent' = <<>> \/ fotaSent' = <<"FOTA_NO_AVAILABLE_UPDATE">>
      BY <1>1 DEF FotaThread, PollRequest, ImageApply, DownloadCancel, TakeResult, FotaSilent,
                  FotaPublish, RequestCancel
    <2> QED
      BY <2>1 DEF ToMain, HeardAs, AllEvents
  <1>3. MainInv' /\ leaf' = leaf /\ inbox' = inbox
    <2>1. inbox' = inbox \o <<>> /\ inbox \in Seq(InMsg)
      BY <1>1, <1>2 DEF Hears, MainInv
    <2>2. inbox' = inbox
      BY <2>1
    <2> QED
      BY <1>1, <2>2, SaidToMain
  <1>4. Agreement' /\ FotaInv'
    BY <1>1, <1>3, AgreementByFota, AgreementByCancel, FotaThreadFits
  <1>5. NetworkInv'
    BY <1>1, NetworkLeft
  <1> QED
    BY <1>3, <1>4, <1>5 DEF UpdateInv, Agreement

LEMMA LibraryKeeps ==
  ASSUME UpdateInv, LibraryRuns
  PROVE  UpdateInv'
  <1>1. /\ MainInv /\ FotaInv /\ NetworkInv /\ fota # "FATAL" /\ Library
        /\ Hears(fotaSent') /\ netSent' = <<>>
        /\ UNCHANGED <<lte, modem, netInbox, requested, outages>>
        /\ \/ /\ job' = "downloaded" /\ modem = "attached"
              /\ disturbed' = \E i \in DOMAIN netInbox : Disturbs(netInbox[i])
           \/ job' # "downloaded" /\ UNCHANGED disturbed
    BY DEF UpdateInv, LibraryRuns
  <1>2. MainInv' /\ leaf' = leaf
    BY <1>1, SaidToMain
  <1>3. inbox' = inbox \o ToMain(fotaSent')
    BY <1>1 DEF Hears
  <1>4. Agreement'
    BY <1>1, <1>2, <1>3, AgreementByLibrary
  <1>5. FotaInv' /\ NetworkInv'
    BY <1>1, LibraryFits, NetworkLeft
  <1> QED
    BY <1>2, <1>4, <1>5 DEF UpdateInv, Agreement

LEMMA NetworkKeeps ==
  ASSUME UpdateInv, NetworkStep, NetworkRuns(NetworkStep)
  PROVE  UpdateInv'
  <1>1. /\ Hears(netSent') /\ UNCHANGED <<fota, job, fotaInbox>>
        /\ disturbed' = (disturbed \/ /\ Late
                                      /\ \/ outages' # outages
                                         \/ /\ requested' # requested
                                            /\ Disturbs(netInbox'[Len(netInbox')]))
    BY DEF NetworkRuns, Late
  <1>2. Agreement' /\ MainInv'
    BY <1>1, AgreementByNetwork
  <1>3. FotaInv'
    BY <1>1 DEF UpdateInv, FotaInv, ResultsFit
  <1>4. NetworkInv'
    BY NetworkStepKeeps DEF UpdateInv, NetworkStep, NetworkNext, Modem
  <1> QED
    BY <1>2, <1>3, <1>4 DEF UpdateInv, Agreement

LEMMA UpdateStepKeeps == UpdateInv /\ [UpdateNext]_updateVars => UpdateInv'
  <1> SUFFICES ASSUME UpdateInv, [UpdateNext]_updateVars PROVE UpdateInv'
    OBVIOUS
  <1>1. CASE MainRuns(MainStep \/ OthersPublish)
    <2>1. /\ leaf # "REBOOTING" /\ (MainStep \/ OthersPublish)
          /\ fotaInbox' = fotaInbox \o FotaRequests(Types(published'))
          /\ netInbox' = netInbox \o NetworkRequestsOf(Types(published'))
          /\ netSent' = <<>>
          /\ UNCHANGED <<fota, job, lte, modem, requested, outages, disturbed>>
      BY <1>1 DEF MainRuns
    <2>2. CASE MainThread
      BY <2>1, <2>2, ThreadOfMainKeeps DEF MainTakes, Reboot
    <2>3. CASE ~MainThread
      BY <2>1, <2>3, SilentMainKeeps DEF MainStep
    <2> QED
      BY <2>2, <2>3
  <1>2. CASE FotaRuns(FotaThread)
    BY <1>2, FotaKeeps
  <1>3. CASE LibraryRuns
    BY <1>3, LibraryKeeps
  <1>4. CASE NetworkRuns(NetworkThread \/ Attach \/ Detach)
    <2>1. NetworkStep /\ NetworkRuns(NetworkStep)
      BY <1>4 DEF NetworkRuns, NetworkStep
    <2> QED
      BY <2>1, NetworkKeeps
  <1>5. CASE Trouble
    <2>1. CASE FotaRuns(RequestCancel)
      BY <2>1, FotaKeeps
    <2>2. CASE NetworkRuns(RequestNetwork \/ LoseNetwork \/ NoSim)
      <3>1. NetworkStep /\ NetworkRuns(NetworkStep)
        BY <2>2 DEF NetworkRuns, NetworkStep
      <3> QED
        BY <3>1, NetworkKeeps
    <2> QED
      BY <1>5, <2>1, <2>2 DEF Trouble
  <1>6. CASE DeviceRestarts
    BY <1>6, RestartKeeps
  <1>7. CASE UNCHANGED updateVars
    <2>1. UNCHANGED <<inbox, published, responses, leaf, lte, modem, netInbox, netSent, requested,
                      outages, fota, job, fotaInbox, disturbed>> /\ UNCHANGED vars
      BY <1>7 DEF updateVars, vars, fotaVars, networkVars, modeVars, envVars
    <2>2. MainInv'
      BY <2>1, MainStepKeeps DEF UpdateInv
    <2>3. FotaInv' /\ NetworkInv'
      BY <2>1 DEF UpdateInv, FotaInv, ResultsFit, NetworkInv, NetworkTypeOK, LastEventIsTrue,
                  LeafIsKnown, NetUnderWay
    <2>4. Agreement'
      BY <2>1, UnheardOffline
    <2> QED
      BY <2>2, <2>3, <2>4 DEF UpdateInv, Agreement
  <1> QED
    BY <1>1, <1>2, <1>3, <1>4, <1>5, <1>6, <1>7 DEF UpdateNext

LEMMA UpdateInvHolds == UpdateSpec => []UpdateInv
  BY UpdateStarts, UpdateStepKeeps, PTL DEF UpdateSpec

-----------------------------------------------------------------------------
(* No result is lost to a state that does not handle it: what a state of   *)
(* the FOTA module waits for the library still owes, or it is in the queue.*)
THEOREM ResultAlwaysComes == UpdateSpec => []ResultComes
  <1>1. UpdateInv => ResultComes
    <2> SUFFICES ASSUME ResultsFit PROVE ResultComes
      BY DEF UpdateInv, FotaInv
    <2>1. \A r : OneResult(fotaInbox, r) => InFotaQueue(r)
      BY DEF OneResult, InFotaQueue
    <2>2. \A r, q : TwoResults(fotaInbox, r, q) => InFotaQueue(r)
      BY DEF TwoResults, InFotaQueue
    <2> HIDE DEF InFotaQueue
    <2>3. /\ Waits("WAITING_FOR_POLL_REQUEST", {<<"none", "">>})
          /\ Waits("WAITING_FOR_IMAGE_APPLY", {<<"apply", "">>})
      BY DEF ResultsFit, Waits
    <2>4. Waits("POLLING_FOR_UPDATE",
                {<<"found", "">>, <<"none", "FOTA_NO_AVAILABLE_UPDATE">>}
                  \union ({"downloading", "none", "downloaded", "apply", "done"}
                             \X {"FOTA_DOWNLOADING_UPDATE"}))
      <3> DEFINE begun == {"downloading", "none", "downloaded", "apply", "done"}
                            \X {"FOTA_DOWNLOADING_UPDATE"}
                 outcomes == {<<"found", "">>, <<"none", "FOTA_NO_AVAILABLE_UPDATE">>} \union begun
      <3> SUFFICES ASSUME fota = "POLLING_FOR_UPDATE"
                   PROVE  \E o \in outcomes : job = o[1] /\ (o[2] = "" \/ InFotaQueue(o[2]))
        BY DEF Waits
      <3>1. /\ <<"found", "">> \in outcomes /\ <<"none", "FOTA_NO_AVAILABLE_UPDATE">> \in outcomes
            /\ \A j \in {"downloading", "none", "downloaded", "apply", "done"} :
                 <<j, "FOTA_DOWNLOADING_UPDATE">> \in outcomes
        OBVIOUS
      <3> HIDE DEF outcomes
      <3>2. \A e \in Ends : e[1] \in {"none", "apply", "done"}
        BY DEF Ends
      <3>3. \/ job = "found"
            \/ job = "none" /\ InFotaQueue("FOTA_NO_AVAILABLE_UPDATE")
            \/ /\ job \in {"downloading", "none", "downloaded", "apply", "done"}
               /\ InFotaQueue("FOTA_DOWNLOADING_UPDATE")
        BY <2>1, <2>2, <3>2 DEF ResultsFit
      <3>4. CASE job = "found"
        <4>1. job = <<"found", "">>[1] /\ <<"found", "">>[2] = ""
          BY <3>4
        <4> QED
          BY <3>1, <4>1
      <3>5. CASE job = "none" /\ InFotaQueue("FOTA_NO_AVAILABLE_UPDATE")
        <4> DEFINE o == <<"none", "FOTA_NO_AVAILABLE_UPDATE">>
        <4>1. job = o[1] /\ InFotaQueue(o[2])
          BY <3>5
        <4> QED
          BY <3>1, <4>1
      <3>6. CASE /\ job \in {"downloading", "none", "downloaded", "apply", "done"}
                 /\ InFotaQueue("FOTA_DOWNLOADING_UPDATE")
        <4> DEFINE o == <<job, "FOTA_DOWNLOADING_UPDATE">>
        <4>1. job = o[1] /\ InFotaQueue(o[2])
          BY <3>6
        <4> QED
          BY <3>1, <3>6, <4>1
      <3> QED
        BY <3>3, <3>4, <3>5, <3>6
    <2>5. Waits("DOWNLOADING_UPDATE",
                {<<"downloading", "">>, <<"downloaded", "">>, <<"none", "FOTA_DOWNLOAD_FAILED">>,
                 <<"apply", "FOTA_IMAGE_APPLY_NEEDED">>, <<"done", "FOTA_SUCCESS_REBOOT_NEEDED">>})
      BY <2>1 DEF ResultsFit, Waits, Ends
    <2>6. /\ Waits("IMAGE_APPLYING", {<<"applying", "">>, <<"done", "FOTA_SUCCESS_REBOOT_NEEDED">>})
          /\ Waits("CANCELING", {<<"canceling", "">>, <<"none", "FOTA_DOWNLOAD_CANCELED">>})
      BY <2>1 DEF ResultsFit, Waits
    <2> QED
      BY <2>3, <2>4, <2>5, <2>6 DEF ResultComes
  <1> QED
    BY <1>1, UpdateInvHolds, PTL

(* Main and the FOTA module agree on the update through their queues: main *)
(* is in its update states, or about to be, while there is a download, and *)
(* what it waits for there is still to come.                               *)
THEOREM UpdateAlwaysAgreed == UpdateSpec => []UpdateAgreed
  <1>1. UpdateInv => UpdateAgreed
    <2> SUFFICES ASSUME UpdateInv PROVE UpdateAgreed
      OBVIOUS
    <2>1. /\ inbox \in Seq(InMsg) /\ UpdateHeard /\ ApplyGoesOn
          /\ leaf \in FotaLeaves => region = "FOTA"
      BY DEF UpdateInv, MainInv, Control, StateTypes, FotaLeaves
    <2>2. \A type : Queued(type) <=> Has(inbox, OfType(type))
      BY <2>1, TypeIsHeld DEF Queued
    <2>3. Has(fotaInbox, Apply) => InFotaQueue("FOTA_IMAGE_APPLY")
      BY DEF Has, Apply, InFotaQueue
    <2>4. Has(inbox, Outcome) => Has(inbox, Ended) \/ Has(inbox, ApplyNeeded) \/ Has(inbox, RebootNeeded)
      BY DEF Has, Outcome
    <2> HIDE DEF Queued, InFotaQueue
    <2>5. job \in Active => region = "FOTA" \/ Queued("FOTA_DOWNLOADING_UPDATE")
      BY <2>1, <2>2 DEF UpdateHeard, Begun
    <2>6. leaf = "DOWNLOADING" =>
            \/ job \in Downloads
            \/ QueuedAny({"FOTA_DOWNLOAD_ENDED", "FOTA_IMAGE_APPLY_NEEDED",
                          "FOTA_SUCCESS_REBOOT_NEEDED"})
      BY <2>1, <2>2, <2>4 DEF UpdateHeard, Ended, ApplyNeeded, RebootNeeded, QueuedAny
    <2>7. leaf = "APPLYING" =>
            \/ fota = "FATAL" \/ job = "applying"
            \/ InFotaQueue("FOTA_IMAGE_APPLY") \/ Queued("FOTA_SUCCESS_REBOOT_NEEDED")
      BY <2>1, <2>2, <2>3 DEF ApplyGoesOn, RebootNeeded
    <2> QED
      BY <2>5, <2>6, <2>7 DEF UpdateAgreed, Active, Downloads
  <1> QED
    BY <1>1, UpdateInvHolds, PTL

(* A modem image is applied with the modem offline, unless the network was *)
(* lost or someone else had it connect or disconnect meanwhile.            *)
THEOREM AlwaysAppliedOffline == UpdateSpec => []AppliedOffline
  <1>1. UpdateInv => AppliedOffline
    BY DEF UpdateInv, DisconnectsFirst, Applying, AppliedOffline
  <1> QED
    BY <1>1, UpdateInvHolds, PTL

(* In the company of the other two modules main keeps what it promises     *)
(* alone: its types, that it knows the connection and the storage mode,    *)
(* that its timers fit its state and that neither cycle dies out.          *)
THEOREM MainHoldsInUpdates ==
  UpdateSpec => [](TypeOK /\ ConnectionKnown /\ ModeKnown /\ TimersFitState /\ CyclesGoOn)
  <1>1. UpdateInv => TypeOK /\ ConnectionKnown /\ ModeKnown /\ TimersFitState /\ CyclesGoOn
    BY DEF UpdateInv, MainInv, Control, TypeOK
  <1> QED
    BY <1>1, UpdateInvHolds, PTL

(* Also in their company, whatever they send it, two searches of main in   *)
(* buffer mode are a sample interval apart, unless the button or a change  *)
(* of mode asked for one, or the device restarted: nothing of the last     *)
(* search survives a restart.                                              *)
THEOREM SearchesApartInUpdates == UpdateSpec => [][SearchIsDue \/ DeviceRestarts]_updateVars
  <1>1. ASSUME UpdateInv, UpdateInv', UpdateNext PROVE SearchIsDue \/ DeviceRestarts
    <2>1. CASE MainRuns(MainStep \/ OthersPublish)
      <3>1. Next
        BY <2>1 DEF MainRuns, MainStep, Next
      <3> QED
        BY <1>1, <3>1, SearchDueStep DEF UpdateInv
    <2>2. CASE published' = <<>>
      BY <2>2 DEF SearchIsDue
    <2> QED
      BY <1>1, <2>1, <2>2 DEF UpdateNext, FotaRuns, LibraryRuns, NetworkRuns, Trouble, Hears
  <1> QED
    BY <1>1, UpdateInvHolds, PTL DEF UpdateSpec
=============================================================================
