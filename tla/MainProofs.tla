----------------------------- MODULE MainProofs -----------------------------
(***************************************************************************)
(* Proofs about MainModule, for either initial mode, every set of events   *)
(* and shadow responses and every queue limit.                             *)
(***************************************************************************)
EXTENDS MainModule, QueueLemmas, TLAPS

(* What the module publishes is of the right type. *)
LEMMA OutSeqs ==
  /\ <<>> \in Seq(OutMsg) /\ SearchTrigger \in Seq(OutMsg) /\ SensorTriggers \in Seq(OutMsg)
  /\ SendData \in Seq(OutMsg) /\ PollTriggers \in Seq(OutMsg)
  /\ \A e \in {"CLOUD_SHADOW_GET_DESIRED", "NETWORK_DISCONNECT", "STORAGE_CLEAR",
               "FOTA_IMAGE_APPLY", "CLOUD_PROVISIONING_REQUEST"} : <<Event(e)>> \in Seq(OutMsg)
  /\ \A m \in {"BUFFER", "PASSTHROUGH"} : <<Report(m)>> \in Seq(OutMsg)
  /\ \A m \in Response : <<ModeRequest(m)>> \in Seq(OutMsg)
  <1>1. \A e \in {"FOTA_POLL_REQUEST", "CLOUD_SHADOW_GET_DELTA", "CLOUD_SHADOW_GET_DESIRED",
           "STORAGE_BATCH_REQUEST", "SENSOR_SAMPLE_REQUESTS", "LOCATION_SEARCH_TRIGGER",
           "STORAGE_MODE_BUFFER_REQUEST", "STORAGE_MODE_PASSTHROUGH_REQUEST",
           "CLOUD_PROVISIONING_REQUEST", "NETWORK_DISCONNECT", "STORAGE_CLEAR",
           "FOTA_IMAGE_APPLY"} : Event(e) \in OutMsg
    BY DEF OutMsg, Event
  <1>2. \A m \in {"BUFFER", "PASSTHROUGH"} : Report(m) \in OutMsg
    BY DEF OutMsg, Report
  <1>3. \A m \in Response : ModeRequest(m) \in OutMsg
    BY <1>1 DEF ModeRequest
  <1> QED
    BY <1>1, <1>2, <1>3 DEF SearchTrigger, SensorTriggers, SendData, PollTriggers

(* What comes into the queue is of the right type, and a shadow response has
   its fields. *)
LEMMA InMsgs ==
  /\ \A e \in AllEvents : Event(e) \in InMsg
  /\ \A e \in {"TIMER_EXPIRED_SAMPLE_DATA", "TIMER_EXPIRED_CLOUD", "TIMER_CONFIG_CHANGED"} :
       Event(e) \in InMsg
  /\ Response \subseteq InMsg
  /\ \A m \in InMsg :
       m.type \in {"CLOUD_SHADOW_RESPONSE_DESIRED", "CLOUD_SHADOW_RESPONSE_DELTA"}
         => m \in Response
  BY DEF InMsg, Event, Response, AllEvents

(* Publishing keeps the types of what it touches. *)
LEMMA PublishTypes ==
  ASSUME TimerTypes, NEW msgs \in Seq(OutMsg), Publish(msgs)
  PROVE  /\ published' \in Seq(OutMsg)
         /\ search' \in {"idle", "running", "lost"}
         /\ modemReady' \in BOOLEAN
  BY DEF Publish, TimerTypes

(* The part of the invariant that does not speak of the queue. *)
Control == StateTypes /\ TimerTypes /\ ConnectionKnown /\ ModeKnown /\ TimersFitState

USE DEF Running, Buffer, Passthrough, Connected, FotaLeaves

(* What entering a region does: its leaf, and the timers that fit it. *)
LEMMA EnterRegionEffect ==
  ASSUME StateTypes, TimerTypes, TimersFitState,
         NEW r \in Running \union {"FOTA"}, EnterRegion(r, <<>>)
  PROVE  /\ region' = r
         /\ history' = IF r = "FOTA" THEN history ELSE r
         /\ \/ r \in Running \ {"PASSTHROUGH_DISCONNECTED"} /\ leaf' \in {"SAMPLING", "WAITING"}
            \/ r = "PASSTHROUGH_DISCONNECTED" /\ leaf' = "NONE"
            \/ r = "FOTA" /\ leaf' = "DOWNLOADING"
         /\ start' \in {"never", "recent", "old"}
         /\ sampleTimer' = IF leaf' = "WAITING" THEN "scheduled" ELSE "stopped"
         /\ sendTimer' = IF ModeOf(r) = ModeOf(region) THEN sendTimer
                         ELSE IF r \in Buffer THEN "scheduled" ELSE "stopped"
         /\ polled' \in {"no", "yes"}
         /\ published' \in Seq(OutMsg)
         /\ search' \in {"idle", "running", "lost"}
         /\ modemReady' \in BOOLEAN
  <1> DEFINE changesMode == ModeOf(r) # ModeOf(region)
             began == IF changesMode /\ r # "FOTA" THEN "never" ELSE start
             samples == r \notin {"FOTA", "PASSTHROUGH_DISCONNECTED"} /\
                          ~(r \in Buffer /\ began = "recent")
             polls == r \in Connected /\ polled = "no"
             out == <<>> \o (IF polls THEN <<Event("CLOUD_SHADOW_GET_DESIRED")>> ELSE <<>>)
                         \o (IF samples THEN SearchTrigger ELSE <<>>)
  <1>1. /\ region' = r
        /\ leaf' = CASE r = "FOTA" -> "DOWNLOADING"
                     [] r = "PASSTHROUGH_DISCONNECTED" -> "NONE"
                     [] OTHER -> IF samples THEN "SAMPLING" ELSE "WAITING"
        /\ history' = IF r = "FOTA" THEN history ELSE r
        /\ start' = IF samples THEN "recent" ELSE began
        /\ sampleTimer' = IF leaf' = "WAITING" THEN "scheduled"
                          ELSE IF leaf = "WAITING" \/ changesMode THEN "stopped"
                          ELSE sampleTimer
        /\ sendTimer' = SendTimerIn(r)
        /\ polled' = IF polls THEN "yes" ELSE polled
        /\ Publish(out)
    BY DEF EnterRegion
  <1>2. out \in Seq(OutMsg)
    <2>1. \A s, t \in {<<>>, <<Event("CLOUD_SHADOW_GET_DESIRED")>>, SearchTrigger} :
            <<>> \o s \o t \in Seq(OutMsg)
      BY OutSeqs, ConcatSeq
    <2> QED
      BY <2>1
  <1>3. /\ published' \in Seq(OutMsg) /\ search' \in {"idle", "running", "lost"}
        /\ modemReady' \in BOOLEAN
    BY <1>1, <1>2, PublishTypes
  <1>4. start' \in {"never", "recent", "old"} /\ polled' \in {"no", "yes"}
    BY <1>1 DEF StateTypes, TimerTypes
  <1>5. \/ r \in Running \ {"PASSTHROUGH_DISCONNECTED"} /\ leaf' \in {"SAMPLING", "WAITING"}
        \/ r = "PASSTHROUGH_DISCONNECTED" /\ leaf' = "NONE"
        \/ r = "FOTA" /\ leaf' = "DOWNLOADING"
    BY <1>1
  <1>6. sampleTimer' = IF leaf' = "WAITING" THEN "scheduled" ELSE "stopped"
    BY <1>1 DEF TimersFitState
  <1> QED
    BY <1>1, <1>3, <1>4, <1>5, <1>6 DEF SendTimerIn

-----------------------------------------------------------------------------
(* Connection, mode and timers: each handler keeps Control.                *)

Msg == Head(inbox)

LEMMA InitControl == Init => Control /\ inbox = <<>> /\ published \in Seq(OutMsg)
  BY InitialModeAssumption, OutSeqs
     DEF Init, Control, StateTypes, TimerTypes, ConnectionKnown, ModeKnown, TimersFitState,
         Boots, Disconnected, ModeOf

(* The handlers that enter a region. *)
LEMMA EnterStep ==
  ASSUME Control,
         \/ CloudConnected \/ CloudDisconnected \/ StorageModeConfirmed
         \/ FotaDownloadingUpdate \/ FotaDownloadEnded
  PROVE  Control' /\ published' \in Seq(OutMsg)
  <1> USE EnterRegionEffect, PublishTypes, OutSeqs
      DEF Control, StateTypes, TimerTypes, ConnectionKnown, ModeKnown, TimersFitState,
          ModeOf, Stay, Ignore, modeVars, timerVars
  <1>1. CASE CloudConnected
    <2>1. CASE region = "BUFFER_DISCONNECTED" \/ region \in Passthrough
      BY <1>1, <2>1 DEF CloudConnected, ConnectedIn
    <2>2. CASE region = "BUFFER_CONNECTED"
      BY <1>1, <2>2 DEF CloudConnected
    <2>3. CASE region = "FOTA"
      BY <1>1, <2>3 DEF CloudConnected, ConnectedIn
    <2> QED
      BY <2>1, <2>2, <2>3
  <1>2. CASE CloudDisconnected
    <2>1. CASE region = "BUFFER_CONNECTED" \/ region \in Passthrough
      BY <1>2, <2>1 DEF CloudDisconnected, Disconnected
    <2>2. CASE region = "BUFFER_DISCONNECTED"
      BY <1>2, <2>2 DEF CloudDisconnected
    <2>3. CASE region = "FOTA"
      BY <1>2, <2>3 DEF CloudDisconnected, Disconnected
    <2> QED
      BY <2>1, <2>2, <2>3
  <1>3. ASSUME NEW type, NEW mode \in {"BUFFER", "PASSTHROUGH"}, StorageMode(type, mode)
        PROVE  Control' /\ published' \in Seq(OutMsg)
    <2>1. CASE region \in Running /\ ModeOf(region) # mode
      <3>1. /\ SwitchTo(mode) \in Running /\ ModeOf(SwitchTo(mode)) = mode
            /\ SwitchTo(mode) \in Connected <=> region \in Connected
        BY DEF SwitchTo, ConnectedIn, Disconnected
      <3>2. EnterRegion(SwitchTo(mode), <<>>)
        BY <1>3, <2>1 DEF StorageMode
      <3>3. confirmed' = mode /\ UNCHANGED told
        BY <1>3, <2>1 DEF StorageMode
      <3>4. /\ region' = SwitchTo(mode) /\ history' = SwitchTo(mode)
            /\ StateTypes' /\ TimerTypes' /\ TimersFitState' /\ published' \in Seq(OutMsg)
        BY <3>1, <3>2, <3>3
      <3>5. ModeKnown'
        BY <3>1, <3>3, <3>4
      <3>6. ConnectionKnown'
        <4>1. region # "FOTA" /\ (region \in Connected <=> told = "CLOUD_CONNECTED")
          BY <2>1
        <4>2. region' # "FOTA" /\ (region' \in Connected <=> told' = "CLOUD_CONNECTED")
          BY <3>1, <3>3, <3>4, <4>1
        <4> QED
          BY <3>4, <4>2
      <3> QED
        BY <3>4, <3>5, <3>6
    <2>2. CASE region = "FOTA" \/ ModeOf(region) = mode
      BY ZenonT(40), <1>3, <2>2 DEF StorageMode
    <2> QED
      BY <2>1, <2>2
  <1>4. CASE FotaDownloadingUpdate
    BY ZenonT(40), <1>4 DEF FotaDownloadingUpdate, envVars
  <1>5. CASE FotaDownloadEnded
    BY ZenonT(40), <1>5 DEF FotaDownloadEnded, envVars
  <1> QED
    BY <1>1, <1>2, <1>3, <1>4, <1>5 DEF StorageModeConfirmed

(* The handlers that move between the leaves of a region. *)
LEMMA LeafStep ==
  ASSUME Control,
         \/ TimerExpiredSampleData \/ TimerConfigChanged \/ LocationSearchDone
         \/ ButtonPressShort \/ FotaSuccessRebootNeeded \/ FotaImageApplyNeeded
         \/ NetworkDisconnected
  PROVE  Control' /\ published' \in Seq(OutMsg)
  <1> USE PublishTypes, OutSeqs
      DEF Control, StateTypes, TimerTypes, ConnectionKnown, ModeKnown, TimersFitState,
          ModeOf, Stay, Ignore, modeVars, timerVars, envVars
  <1>1. ASSUME NEW byButton \in BOOLEAN, leaf = "WAITING", BeginSampling(byButton), UNCHANGED envVars
        PROVE  Control' /\ published' \in Seq(OutMsg)
    BY <1>1 DEF BeginSampling
  <1>2. ASSUME NEW out \in Seq(OutMsg), leaf \in {"WAITING", "SAMPLING"}, Wait(out),
               UNCHANGED envVars
        PROVE  Control' /\ published' \in Seq(OutMsg)
    BY <1>2 DEF Wait
  <1>3. ASSUME NEW l \in FotaLeaves, NEW out \in Seq(OutMsg), region = "FOTA", FotaLeaf(l, out),
               UNCHANGED envVars
        PROVE  Control' /\ published' \in Seq(OutMsg)
    BY <1>3 DEF FotaLeaf
  <1>4. CASE Ignore /\ UNCHANGED envVars
    BY ZenonT(40), <1>4
  <1>5. CASE TimerExpiredSampleData
    BY <1>1, <1>4, <1>5 DEF TimerExpiredSampleData
  <1>6. CASE TimerConfigChanged
    BY <1>2, <1>4, <1>6 DEF TimerConfigChanged
  <1>7. CASE LocationSearchDone
    <2>1. SensorTriggers \o (IF region \in Passthrough THEN PollTriggers ELSE <<>>) \in Seq(OutMsg)
      BY ConcatSeq
    <2> QED
      BY <1>2, <1>4, <1>7, <2>1 DEF LocationSearchDone
  <1>8. CASE ButtonPressShort
    BY <1>1, <1>4, <1>8 DEF ButtonPressShort
  <1>9. CASE FotaSuccessRebootNeeded
    BY <1>3, <1>4, <1>9 DEF FotaSuccessRebootNeeded
  <1>10. CASE FotaImageApplyNeeded
    BY <1>3, <1>4, <1>10 DEF FotaImageApplyNeeded
  <1>11. CASE NetworkDisconnected
    BY <1>3, <1>4, <1>11 DEF NetworkDisconnected
  <1> QED
    BY <1>5, <1>6, <1>7, <1>8, <1>9, <1>10, <1>11

(* The handlers that keep the state, and the restart. *)
LEMMA StayStep ==
  ASSUME Control, inbox \in Seq(InMsg),
         \/ ShadowResponse \/ EmptyDesired \/ ShadowResponseIgnored
         \/ TimerExpiredCloud \/ ButtonPressLong \/ Reboot
  PROVE  Control' /\ published' \in Seq(OutMsg)
  <1> USE PublishTypes, OutSeqs
      DEF Control, StateTypes, TimerTypes, ConnectionKnown, ModeKnown, TimersFitState,
          ModeOf, Stay, Ignore, modeVars, timerVars, envVars
  <1>1. CASE ShadowResponse
    <2>1. Msg \in Response /\ region \in Connected
      BY <1>1, HeadTail, InMsgs DEF ShadowResponse, Takes, Msg
    <2> DEFINE request == IF Configures(Msg) THEN <<ModeRequest(Msg)>> ELSE <<>>
               report == <<Report(IF Msg.mode = "none" THEN ModeOf(region) ELSE Msg.mode)>>
               provision == IF Msg.type = "CLOUD_SHADOW_RESPONSE_DELTA" /\ Msg.command = "PROVISION"
                              THEN <<Event("CLOUD_PROVISIONING_REQUEST")>> ELSE <<>>
    <2>2. request \in Seq(OutMsg) /\ provision \in Seq(OutMsg)
      BY <2>1
    <2>3. report \in Seq(OutMsg)
      <3>1. (IF Msg.mode = "none" THEN ModeOf(region) ELSE Msg.mode) \in {"BUFFER", "PASSTHROUGH"}
        BY <2>1 DEF Response
      <3> QED
        BY <3>1
    <2>4. request \o report \o provision \in Seq(OutMsg)
      BY <2>2, <2>3, ConcatSeq
    <2>5. Publish(request \o report \o provision)
      BY <1>1 DEF ShadowResponse, Msg
    <2>6. /\ published' \in Seq(OutMsg) /\ search' \in {"idle", "running", "lost"}
          /\ modemReady' \in BOOLEAN
      BY <2>4, <2>5
    <2>7. /\ start' \in {"recent", start}
          /\ sampleTimer' \in {sampleTimer, Outdated(sampleTimer)}
          /\ sendTimer' \in {sendTimer, Outdated(sendTimer)}
          /\ UNCHANGED <<modeVars, polled, envVars>>
      BY <1>1 DEF ShadowResponse
    <2> HIDE DEF request, report, provision
    <2> QED
      BY <2>6, <2>7 DEF Outdated
  <1>2. CASE EmptyDesired
    BY ZenonT(40), <1>2 DEF EmptyDesired
  <1>3. CASE ShadowResponseIgnored
    BY ZenonT(40), <1>3 DEF ShadowResponseIgnored
  <1>4. CASE TimerExpiredCloud
    <2>1. SendData \o PollTriggers \in Seq(OutMsg)
      BY ConcatSeq
    <2> QED
      BY ZenonT(40), <1>4, <2>1 DEF TimerExpiredCloud
  <1>5. CASE ButtonPressLong
    <2>1. SendData \o PollTriggers \in Seq(OutMsg)
      BY ConcatSeq
    <2> QED
      BY ZenonT(40), <1>5, <2>1 DEF ButtonPressLong
  <1>6. CASE Reboot
    BY <1>6, InitialModeAssumption DEF Reboot, Restart, Boots, Disconnected
  <1> QED
    BY <1>1, <1>2, <1>3, <1>4, <1>5, <1>6

(* Timers, time, the location module and the others. *)
LEMMA WorldStep ==
  ASSUME Control, published \in Seq(OutMsg),
         \/ SampleTimerExpires \/ SendTimerExpires \/ IntervalPasses \/ ModemStarts
         \/ SearchEnds \/ OthersPublish \/ UNCHANGED vars
  PROVE  Control' /\ published' \in Seq(OutMsg)
  BY ZenonT(40), EmptySeq
     DEF Control, StateTypes, TimerTypes, ConnectionKnown, ModeKnown, TimersFitState, ModeOf,
         SampleTimerExpires, SendTimerExpires, IntervalPasses, ModemStarts, SearchEnds,
         OthersPublish, Deliver, vars, modeVars, timerVars, envVars

-----------------------------------------------------------------------------
(* The queue, and the two cycles that its messages keep alive.             *)

OfType(type) == {m \in InMsg : m.type = type}

LEMMA TypeIsHeld ==
  ASSUME NEW s \in Seq(InMsg), NEW type
  PROVE  (\E i \in DOMAIN s : s[i].type = type) <=> Has(s, OfType(type))
  <1>1. \A i \in DOMAIN s : s[i] \in InMsg
    OBVIOUS
  <1> QED
    BY <1>1 DEF Has, OfType

(* A message stays queued when another is taken, whatever is appended. *)
LEMMA QueuedTail ==
  ASSUME inbox \in Seq(InMsg), inbox # <<>>,
         NEW more \in Seq(InMsg), inbox' = Tail(inbox) \o more,
         NEW type, Queued(type), Msg.type # type
  PROVE  Queued(type)'
  <1>1. Has(inbox, OfType(type)) /\ Msg \notin OfType(type)
    BY TypeIsHeld DEF Queued, OfType
  <1>2. Tail(inbox) \in Seq(InMsg)
    BY HeadTail
  <1>3. Has(inbox', OfType(type)) /\ inbox' \in Seq(InMsg)
    BY <1>1, <1>2, HasTail, HasConcat, ConcatSeq DEF Msg
  <1> QED
    BY <1>3, TypeIsHeld DEF Queued

LEMMA QueuedAppend ==
  ASSUME inbox \in Seq(InMsg), NEW m \in InMsg, inbox' = Append(inbox, m),
         NEW type, Queued(type) \/ m.type = type
  PROVE  Queued(type)'
  <1>1. Has(inbox, OfType(type)) \/ m \in OfType(type)
    BY TypeIsHeld DEF Queued, OfType
  <1>2. Has(inbox', OfType(type)) /\ inbox' \in Seq(InMsg)
    BY <1>1, HasAppend, AppendSeq
  <1> QED
    BY <1>2, TypeIsHeld DEF Queued

(* What the thread leaves in the queue: everything behind the message that
   it took, and the change of an interval that it tells itself. *)
LEMMA Taken ==
  ASSUME inbox \in Seq(InMsg), MainThread
  PROVE  \/ /\ inbox # <<>> /\ inbox' \in Seq(InMsg) /\ responses' = responses
            /\ \/ inbox' = Tail(inbox)
               \/ inbox' = Tail(inbox) \o <<Event("TIMER_CONFIG_CHANGED")>>
            /\ \A type : Queued(type) /\ Msg.type # type => Queued(type)'
         \/ /\ Reboot /\ inbox' = <<>> /\ responses' = responses
  <1>1. ASSUME inbox # <<>>, NEW more \in Seq(InMsg), inbox' = Tail(inbox) \o more
        PROVE  /\ inbox' \in Seq(InMsg)
               /\ \A type : Queued(type) /\ Msg.type # type => Queued(type)'
    BY <1>1, QueuedTail, HeadTail, ConcatSeq
  <1>2. ASSUME inbox # <<>>, inbox' = Tail(inbox)
        PROVE  /\ inbox' \in Seq(InMsg)
               /\ \A type : Queued(type) /\ Msg.type # type => Queued(type)'
    <2>1. inbox' = Tail(inbox) \o <<>>
      BY <1>2, HeadTail
    <2> QED
      BY <1>1, <1>2, <2>1, EmptySeq
  <1>3. CASE ShadowResponse
    <2> DEFINE changed == Msg.interval \in {"sample", "update", "both"}
               more == IF changed THEN <<Event("TIMER_CONFIG_CHANGED")>> ELSE <<>>
    <2>1. more \in Seq(InMsg) /\ more \in {<<>>, <<Event("TIMER_CONFIG_CHANGED")>>}
      BY InMsgs
    <2>2. inbox # <<>> /\ inbox' = Tail(inbox) \o more /\ responses' = responses
      BY <1>3 DEF ShadowResponse, Takes, Msg, envVars
    <2>3. inbox # <<>> => Tail(inbox) \o <<>> = Tail(inbox)
      BY HeadTail
    <2> HIDE DEF more
    <2> QED
      BY <1>1, <2>1, <2>2, <2>3
  <1>4. CASE Reboot
    BY <1>4 DEF Reboot, Restart
  <1>5. CASE ~ShadowResponse /\ ~Reboot
    <2>1. inbox # <<>> /\ inbox' = Tail(inbox) /\ responses' = responses
      <3>1. CASE CloudConnected \/ CloudDisconnected \/ StorageModeConfirmed
        BY <3>1 DEF CloudConnected, CloudDisconnected, StorageModeConfirmed, StorageMode,
                    Receive, Takes
      <3>2. CASE EmptyDesired \/ ShadowResponseIgnored
        BY <3>2 DEF EmptyDesired, ShadowResponseIgnored, Receive, Takes, envVars
      <3>3. CASE TimerExpiredSampleData \/ TimerExpiredCloud \/ TimerConfigChanged
        BY <3>3 DEF TimerExpiredSampleData, TimerExpiredCloud, TimerConfigChanged, Receive, Takes,
                    envVars
      <3>4. CASE LocationSearchDone \/ ButtonPressShort \/ ButtonPressLong
        BY <3>4 DEF LocationSearchDone, ButtonPressShort, ButtonPressLong, Receive, Takes, envVars
      <3>5. CASE FotaDownloadingUpdate \/ FotaDownloadEnded \/ FotaSuccessRebootNeeded
        BY <3>5 DEF FotaDownloadingUpdate, FotaDownloadEnded, FotaSuccessRebootNeeded, Receive,
                    Takes, envVars
      <3>6. CASE FotaImageApplyNeeded \/ NetworkDisconnected
        BY <3>6 DEF FotaImageApplyNeeded, NetworkDisconnected, Receive, Takes, envVars
      <3> QED
        BY <1>5, <3>1, <3>2, <3>3, <3>4, <3>5, <3>6 DEF MainThread
    <2> QED
      BY <1>2, <2>1
  <1> QED
    BY <1>3, <1>4, <1>5

(* Whatever the thread does, each cycle has its timer afterwards, or goes on
   as it was and has not lost the expiry that it waits for. *)
SamplingGoesOnBy ==
  leaf' = "WAITING" =>
    \/ sampleTimer' # "stopped"
    \/ leaf = "WAITING" /\ sampleTimer = "stopped" /\ Msg.type # "TIMER_EXPIRED_SAMPLE_DATA"

SendingGoesOnBy ==
  region' \in Buffer =>
    \/ sendTimer' # "stopped"
    \/ region \in Buffer /\ sendTimer = "stopped" /\ Msg.type # "TIMER_EXPIRED_CLOUD"

LEMMA ThreadCycles ==
  ASSUME Control, MainThread
  PROVE  SamplingGoesOnBy /\ SendingGoesOnBy
  <1> USE DEF Control, StateTypes, TimerTypes, TimersFitState, ModeOf, Stay, Ignore, modeVars,
              timerVars, envVars, SamplingGoesOnBy, SendingGoesOnBy, Msg, Receive, Takes
  <1>1. ASSUME NEW r \in Running \union {"FOTA"}, EnterRegion(r, <<>>),
               Head(inbox).type # "TIMER_EXPIRED_CLOUD"
        PROVE  SamplingGoesOnBy /\ SendingGoesOnBy
    BY <1>1, EnterRegionEffect
  <1>2. CASE CloudConnected
    BY <1>1, <1>2 DEF CloudConnected, ConnectedIn
  <1>3. CASE CloudDisconnected
    BY <1>1, <1>3 DEF CloudDisconnected, Disconnected
  <1>4. CASE StorageModeConfirmed
    BY <1>1, <1>4 DEF StorageModeConfirmed, StorageMode, SwitchTo, ConnectedIn, Disconnected
  <1>5. CASE FotaDownloadingUpdate \/ FotaDownloadEnded
    BY <1>1, <1>5 DEF FotaDownloadingUpdate, FotaDownloadEnded
  <1>6. CASE TimerExpiredSampleData \/ ButtonPressShort
    BY <1>6 DEF TimerExpiredSampleData, ButtonPressShort, BeginSampling
  <1>7. CASE TimerConfigChanged \/ LocationSearchDone
    BY <1>7 DEF TimerConfigChanged, LocationSearchDone, Wait
  <1>8. CASE FotaSuccessRebootNeeded \/ FotaImageApplyNeeded \/ NetworkDisconnected
    BY <1>8 DEF FotaSuccessRebootNeeded, FotaImageApplyNeeded, NetworkDisconnected, FotaLeaf
  <1>9. CASE ShadowResponse
    BY <1>9 DEF ShadowResponse, Outdated
  <1>10. CASE EmptyDesired \/ ShadowResponseIgnored
    BY <1>10 DEF EmptyDesired, ShadowResponseIgnored
  <1>11. CASE TimerExpiredCloud \/ ButtonPressLong
    BY <1>11 DEF TimerExpiredCloud, ButtonPressLong
  <1>12. CASE Reboot
    BY <1>12, InitialModeAssumption DEF Reboot, Restart, Boots, Disconnected
  <1> QED
    BY <1>2, <1>3, <1>4, <1>5, <1>6, <1>7, <1>8, <1>9, <1>10, <1>11, <1>12 DEF MainThread

LEMMA WorldCycles ==
  ASSUME Control, CyclesGoOn, inbox \in Seq(InMsg), responses \in 0 .. MaxResponses,
         \/ SampleTimerExpires \/ SendTimerExpires \/ IntervalPasses \/ ModemStarts
         \/ SearchEnds \/ OthersPublish \/ UNCHANGED vars
  PROVE  inbox' \in Seq(InMsg) /\ responses' \in 0 .. MaxResponses /\ CyclesGoOn'
  <1> USE DEF Deliver, modeVars, timerVars, envVars
  <1>1. ASSUME NEW m \in InMsg, inbox' = Append(inbox, m)
        PROVE  /\ inbox' \in Seq(InMsg)
               /\ \A type : Queued(type) \/ m.type = type => Queued(type)'
    BY <1>1, QueuedAppend, AppendSeq
  <1>2. CASE SampleTimerExpires
    <2> DEFINE m == Event("TIMER_EXPIRED_SAMPLE_DATA")
    <2>1. m \in InMsg /\ m.type = "TIMER_EXPIRED_SAMPLE_DATA" /\ inbox' = Append(inbox, m)
      BY <1>2, InMsgs DEF SampleTimerExpires, Event
    <2> HIDE DEF m
    <2>2. UNCHANGED <<region, leaf, sendTimer, responses>>
      BY <1>2 DEF SampleTimerExpires
    <2> QED
      BY <1>1, <2>1, <2>2 DEF CyclesGoOn
  <1>3. CASE SendTimerExpires
    <2> DEFINE m == Event("TIMER_EXPIRED_CLOUD")
    <2>1. m \in InMsg /\ m.type = "TIMER_EXPIRED_CLOUD" /\ inbox' = Append(inbox, m)
      BY <1>3, InMsgs DEF SendTimerExpires, Event
    <2> HIDE DEF m
    <2>2. UNCHANGED <<region, leaf, sampleTimer, responses>>
      BY <1>3 DEF SendTimerExpires
    <2> QED
      BY <1>1, <2>1, <2>2 DEF CyclesGoOn
  <1>4. CASE SearchEnds \/ OthersPublish
    <2>1. PICK m \in InMsg : inbox' = Append(inbox, m)
      BY <1>4, InMsgs, EventsAssumption, ResponsesAssumption
         DEF SearchEnds, OthersPublish, AllEvents
    <2>2. responses' \in 0 .. MaxResponses
      BY <1>4, MainBoundsAssumption DEF SearchEnds, OthersPublish
    <2>3. UNCHANGED <<region, leaf, sampleTimer, sendTimer>>
      BY <1>4 DEF SearchEnds, OthersPublish
    <2> QED
      BY <1>1, <2>1, <2>2, <2>3 DEF CyclesGoOn
  <1>5. CASE IntervalPasses \/ ModemStarts \/ UNCHANGED vars
    BY <1>5 DEF IntervalPasses, ModemStarts, vars, CyclesGoOn, Queued
  <1> QED
    BY <1>2, <1>3, <1>4, <1>5

-----------------------------------------------------------------------------
(* The inductive invariant: the types, and what main knows and schedules.  *)

MainInv ==
  /\ Control
  /\ CyclesGoOn
  /\ inbox \in Seq(InMsg)
  /\ published \in Seq(OutMsg)
  /\ responses \in 0 .. MaxResponses

LEMMA MainInit == Init => MainInv
  <1> SUFFICES ASSUME Init PROVE MainInv
    OBVIOUS
  <1>1. Control /\ inbox \in Seq(InMsg) /\ published \in Seq(OutMsg)
    BY InitControl, EmptySeq
  <1>2. responses \in 0 .. MaxResponses
    BY MainBoundsAssumption DEF Init
  <1>3. CyclesGoOn
    BY InitialModeAssumption DEF Init, CyclesGoOn, Boots, Disconnected
  <1> QED
    BY <1>1, <1>2, <1>3 DEF MainInv

LEMMA MainStepKeeps == MainInv /\ [Next]_vars => MainInv'
  <1> SUFFICES ASSUME MainInv, [Next]_vars PROVE MainInv'
    OBVIOUS
  <1>1. CASE MainThread
    <2>1. Control' /\ published' \in Seq(OutMsg)
      BY <1>1, EnterStep, LeafStep, StayStep DEF MainInv, MainThread
    <2>2. inbox' \in Seq(InMsg) /\ responses' \in 0 .. MaxResponses
      BY <1>1, Taken, EmptySeq DEF MainInv
    <2>3. CyclesGoOn'
      <3>1. SamplingGoesOnBy /\ SendingGoesOnBy
        BY <1>1, ThreadCycles DEF MainInv
      <3>2. CASE Reboot
        BY <3>2, InitialModeAssumption
           DEF Reboot, Restart, Boots, CyclesGoOn, Disconnected
      <3>3. CASE ~Reboot
        BY <1>1, <3>1, <3>3, Taken
           DEF MainInv, CyclesGoOn, SamplingGoesOnBy, SendingGoesOnBy
      <3> QED
        BY <3>2, <3>3
    <2> QED
      BY <2>1, <2>2, <2>3 DEF MainInv
  <1>2. CASE ~MainThread
    BY <1>2, WorldStep, WorldCycles DEF MainInv, Next
  <1> QED
    BY <1>1, <1>2

LEMMA MainInvHolds == Spec => []MainInv
  BY MainInit, MainStepKeeps, PTL DEF Spec

-----------------------------------------------------------------------------
(* A region is only active with one of its own leaves, and every message   *)
(* that main takes or sends is one that the channels carry.                *)
THEOREM MainTypeCorrect == Spec => []TypeOK
  <1>1. MainInv => TypeOK
    BY DEF MainInv, Control, TypeOK
  <1> QED
    BY <1>1, MainInvHolds, PTL

(* Main acts on the connection status it was told last, and resumes where  *)
(* that status belongs when an update is given up.                         *)
THEOREM ConnectionAlwaysKnown == Spec => []ConnectionKnown
  <1>1. MainInv => ConnectionKnown
    BY DEF MainInv, Control
  <1> QED
    BY <1>1, MainInvHolds, PTL

(* Main is in the storage mode that was confirmed to it last, or resumes   *)
(* in it.                                                                  *)
THEOREM ModeAlwaysKnown == Spec => []ModeKnown
  <1>1. MainInv => ModeKnown
    BY DEF MainInv, Control
  <1> QED
    BY <1>1, MainInvHolds, PTL

(* No timer runs in a state that does not expect it, during an update least *)
(* of all.                                                                  *)
THEOREM TimersAlwaysFitState == Spec => []TimersFitState
  <1>1. MainInv => TimersFitState
    BY DEF MainInv, Control
  <1> QED
    BY <1>1, MainInvHolds, PTL

(* Neither the sampling nor the sending cycle dies out. *)
THEOREM CyclesAlwaysGoOn == Spec => []CyclesGoOn
  <1>1. MainInv => CyclesGoOn
    BY DEF MainInv
  <1> QED
    BY <1>1, MainInvHolds, PTL

-----------------------------------------------------------------------------
(* Searches and the sample interval.                                       *)

SearchMsg == {m \in OutMsg : m.type = "LOCATION_SEARCH_TRIGGER"}

(* Nothing that main publishes but SearchTrigger asks for a search. *)
LEMMA Quiet ==
  /\ ~Has(<<>>, SearchMsg) /\ ~Has(SensorTriggers, SearchMsg)
  /\ ~Has(SendData, SearchMsg) /\ ~Has(PollTriggers, SearchMsg)
  /\ ~Has(SendData \o PollTriggers, SearchMsg)
  /\ ~Has(SensorTriggers \o PollTriggers, SearchMsg)
  /\ ~Has(SensorTriggers \o <<>>, SearchMsg)
  /\ \A e \in {"CLOUD_SHADOW_GET_DESIRED", "NETWORK_DISCONNECT", "STORAGE_CLEAR",
               "FOTA_IMAGE_APPLY", "CLOUD_PROVISIONING_REQUEST"} : ~Has(<<Event(e)>>, SearchMsg)
  /\ \A m \in {"BUFFER", "PASSTHROUGH"} : ~Has(<<Report(m)>>, SearchMsg)
  /\ \A m \in Response : ~Has(<<ModeRequest(m)>>, SearchMsg)
  <1>1. \A x : x.type # "LOCATION_SEARCH_TRIGGER" => ~Has(<<x>>, SearchMsg)
    BY DEF Has, SearchMsg
  <1>2. ~Has(PollTriggers, SearchMsg)
    BY DEF Has, SearchMsg, PollTriggers, Event
  <1>3. ~Has(SensorTriggers, SearchMsg) /\ ~Has(SendData, SearchMsg) /\ ~Has(<<>>, SearchMsg)
    BY <1>1, HasNone DEF SensorTriggers, SendData, Event
  <1>4. \A s, t \in {<<>>, SensorTriggers, SendData, PollTriggers} : ~Has(s \o t, SearchMsg)
    BY ZenonT(40), <1>2, <1>3, OutSeqs, HasConcat
  <1>5. \A m \in Response : ~Has(<<ModeRequest(m)>>, SearchMsg)
    BY <1>1 DEF ModeRequest, Event
  <1> QED
    BY <1>1, <1>2, <1>3, <1>4, <1>5 DEF Event, Report

LEMMA QuietConcat ==
  ASSUME NEW s \in Seq(OutMsg), NEW t \in Seq(OutMsg), NEW u \in Seq(OutMsg),
         ~Has(s, SearchMsg), ~Has(t, SearchMsg), ~Has(u, SearchMsg)
  PROVE  ~Has(s \o t \o u, SearchMsg)
  <1>1. s \o t \in Seq(OutMsg) /\ ~Has(s \o t, SearchMsg)
    BY HasConcat, ConcatSeq
  <1>2. \A v \in Seq(OutMsg) : ~Has(v, SearchMsg) => ~Has(v \o u, SearchMsg)
    BY HasConcat
  <1> QED
    BY <1>1, <1>2

LEMMA SearchStep ==
  ASSUME Control, inbox \in Seq(InMsg), Next, region \in Buffer, region' \in Buffer,
         start = "recent", ~ButtonPressShort
  PROVE  ~Has(published', SearchMsg)
  <1> USE Quiet DEF Control, Stay, Ignore
  <1>1. ASSUME NEW r \in Buffer, EnterRegion(r, <<>>)
        PROVE  ~Has(published', SearchMsg)
    <2>1. \E polls \in {<<>>, <<Event("CLOUD_SHADOW_GET_DESIRED")>>} :
            published' = <<>> \o polls \o <<>>
      BY <1>1 DEF EnterRegion, Publish, ModeOf
    <2>2. \A polls \in {<<>>, <<Event("CLOUD_SHADOW_GET_DESIRED")>>} :
            <<>> \o polls \o <<>> = polls
      BY OutSeqs
    <2> QED
      BY <2>1, <2>2
  <1>2. CASE CloudConnected \/ CloudDisconnected
    <2>1. \/ EnterRegion(region', <<>>)
          \/ published' = <<>>
      <3>1. ASSUME NEW r, EnterRegion(r, <<>>) PROVE EnterRegion(region', <<>>)
        <4>1. region' = r
          BY <3>1 DEF EnterRegion
        <4> QED
          BY <3>1, <4>1
      <3> QED
        BY <1>2, <3>1 DEF CloudConnected, CloudDisconnected, Publish
    <2> QED
      BY <1>1, <2>1
  <1>3. CASE StorageModeConfirmed
    <2>1. published' = <<>>
      BY <1>3 DEF StorageModeConfirmed, StorageMode, EnterRegion, SwitchTo, ConnectedIn,
                  Disconnected, ModeOf, Publish
    <2> QED
      BY <2>1
  <1>4. CASE FotaDownloadingUpdate \/ FotaDownloadEnded
    BY <1>4 DEF FotaDownloadingUpdate, FotaDownloadEnded, EnterRegion, Publish
  <1>5. CASE TimerExpiredSampleData
    BY <1>5 DEF TimerExpiredSampleData, BeginSampling, Publish
  <1>6. CASE TimerConfigChanged \/ LocationSearchDone
    BY <1>6 DEF TimerConfigChanged, LocationSearchDone, Wait, Publish
  <1>7. CASE FotaSuccessRebootNeeded \/ FotaImageApplyNeeded \/ NetworkDisconnected
    BY <1>7 DEF FotaSuccessRebootNeeded, FotaImageApplyNeeded, NetworkDisconnected, FotaLeaf,
                Publish, StateTypes
  <1>8. CASE ShadowResponse
    <2>1. Msg \in Response /\ region \in Connected
      BY <1>8, HeadTail, InMsgs DEF ShadowResponse, Takes, Msg
    <2> DEFINE request == IF Configures(Msg) THEN <<ModeRequest(Msg)>> ELSE <<>>
               report == <<Report(IF Msg.mode = "none" THEN ModeOf(region) ELSE Msg.mode)>>
               provision == IF Msg.type = "CLOUD_SHADOW_RESPONSE_DELTA" /\ Msg.command = "PROVISION"
                              THEN <<Event("CLOUD_PROVISIONING_REQUEST")>> ELSE <<>>
    <2>2. /\ request \in Seq(OutMsg) /\ provision \in Seq(OutMsg)
          /\ ~Has(request, SearchMsg) /\ ~Has(provision, SearchMsg)
      BY <2>1, OutSeqs
    <2>3. report \in Seq(OutMsg) /\ ~Has(report, SearchMsg)
      <3>1. (IF Msg.mode = "none" THEN ModeOf(region) ELSE Msg.mode) \in {"BUFFER", "PASSTHROUGH"}
        BY <2>1 DEF Response, ModeOf
      <3> QED
        BY <3>1, OutSeqs
    <2>4. published' = request \o report \o provision
      BY <1>8 DEF ShadowResponse, Msg, Publish
    <2> HIDE DEF request, report, provision
    <2>5. ~Has(request \o report \o provision, SearchMsg)
      BY <2>2, <2>3, QuietConcat
    <2> QED
      BY <2>4, <2>5
  <1>9. CASE EmptyDesired \/ ShadowResponseIgnored
    BY <1>9 DEF EmptyDesired, ShadowResponseIgnored, ModeOf, Publish
  <1>10. CASE TimerExpiredCloud \/ ButtonPressLong
    BY <1>10 DEF TimerExpiredCloud, ButtonPressLong, Publish
  <1>11. CASE Reboot
    BY <1>11 DEF Reboot, StateTypes
  <1>12. CASE ~MainThread
    BY <1>12 DEF Next, SampleTimerExpires, SendTimerExpires, IntervalPasses, ModemStarts,
                 SearchEnds, OthersPublish, Deliver
  <1> QED
    BY <1>2, <1>3, <1>4, <1>5, <1>6, <1>7, <1>8, <1>9, <1>10, <1>11, <1>12 DEF MainThread

SearchIsDue ==
  (\E i \in DOMAIN published' : published'[i].type = "LOCATION_SEARCH_TRIGGER")
    /\ region \in Buffer /\ region' \in Buffer
      => start # "recent" \/ ButtonPressShort

LEMMA SearchDueStep == MainInv /\ MainInv' /\ Next => SearchIsDue
  <1> SUFFICES ASSUME MainInv, MainInv', Next,
                      \E i \in DOMAIN published' : published'[i].type = "LOCATION_SEARCH_TRIGGER",
                      region \in Buffer, region' \in Buffer, start = "recent", ~ButtonPressShort
               PROVE  FALSE
    BY DEF SearchIsDue
  <1>1. Has(published', SearchMsg)
    <2>1. \A i \in DOMAIN published' : published'[i] \in OutMsg
      BY DEF MainInv
    <2> QED
      BY <2>1 DEF Has, SearchMsg
  <1> QED
    BY <1>1, SearchStep DEF MainInv

(* In buffer mode two searches are a sample interval apart, unless the     *)
(* button or a change of mode asked for one.                               *)
THEOREM SearchesAlwaysApart == Spec => SearchesApart
  <1>1. Spec => [][SearchIsDue]_vars
    BY MainInvHolds, SearchDueStep, PTL DEF Spec
  <1> QED
    BY <1>1 DEF SearchesApart, SearchIsDue
=============================================================================
