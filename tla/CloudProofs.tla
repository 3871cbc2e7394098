---------------------------- MODULE CloudProofs ----------------------------
(***************************************************************************)
(* Proofs about CloudModule, for every kind of backoff, queue limit and    *)
(* number of failures, changes and requests.                               *)
(***************************************************************************)
EXTENDS CloudModule, QueueLemmas, WellFoundedInduction, TLAPS

(* The failures of the items of a batch, appended at once. *)
LEMMA FailureSeq ==
  ASSUME NEW n \in Nat, NEW s \in Seq(CloudInMsg)
  PROVE  s \o [i \in 1 .. n |-> "CLOUD_SEND_REQUEST_FAILED"] \in Seq(CloudInMsg)
  <1>1. "CLOUD_SEND_REQUEST_FAILED" \in CloudInMsg
    BY DEF CloudInMsg, PrivMsg
  <1>2. [i \in 1 .. n |-> "CLOUD_SEND_REQUEST_FAILED"] \in Seq(CloudInMsg)
    BY <1>1
  <1> QED
    BY <1>2

(* What the module publishes is of the right type. *)
LEMMA OutSeqs ==
  /\ <<>> \in Seq(CloudOutMsg)
  /\ \A m \in CloudOutMsg : <<m>> \in Seq(CloudOutMsg)
  /\ \A s \in {"CLOUD_CONNECTED", "CLOUD_DISCONNECTED"} :
       /\ <<s>> \o <<>> \in Seq(CloudOutMsg)
       /\ <<s>> \o <<"LOCATION_SEARCH_CANCEL">> \in Seq(CloudOutMsg)
  BY DEF CloudOutMsg

-----------------------------------------------------------------------------
(* The inductive invariant, without the type of the backoff time, which    *)
(* is proved from it below.  A blocked thread is always inside the attempt *)
(* that blocked it.                                                        *)

Blocked == connecting => mode = "PROVISIONED"

CloudInv == ControlTypeOK /\ Blocked /\ ReportIsTrue /\ AnswerComes /\ BackoffCounts

LEMMA InitInv == CloudInit => CloudInv
  <1> SUFFICES ASSUME CloudInit PROVE CloudInv
    OBVIOUS
  <1>1. inbox \in Seq(CloudInMsg) /\ published \in Seq(CloudOutMsg)
    BY EmptySeq, OutSeqs DEF CloudInit, CloudOutMsg
  <1> QED
    BY <1>1 DEF CloudInit, CloudInv, ControlTypeOK, Blocked, ReportIsTrue, AnswerComes,
                BackoffCounts, Modes, Connecting, Attempting

(* What receiving a message says of it, and what is left in the queue. *)
LEMMA Received ==
  ASSUME CloudInv, NEW m, Receive(m), Consume
  PROVE  /\ Head(inbox) = m /\ m \in CloudInMsg
         /\ inbox # <<>> /\ inbox \in Seq(CloudInMsg)
         /\ inbox' \in Seq(CloudInMsg)
         /\ network_connected' \in BOOLEAN
         /\ ~connecting
         /\ UNCHANGED <<online, changes, requests>>
  <1>1. inbox \in Seq(CloudInMsg) /\ inbox # <<>> /\ Head(inbox) = m
    BY DEF CloudInv, ControlTypeOK, Receive
  <1>2. m \in CloudInMsg /\ Tail(inbox) \in Seq(CloudInMsg)
    BY <1>1, HeadTail
  <1>3. network_connected' \in BOOLEAN
    BY DEF CloudInv, ControlTypeOK, Receive, network_connection_status_retain
  <1> QED
    BY <1>1, <1>2, <1>3 DEF Receive, Consume

USE DEF CloudInv, ControlTypeOK, Blocked, ReportIsTrue, BackoffCounts, AnswerComes,
        Modes, Connecting, Attempting

(* Transitions into a state whose answer is then on its way. *)
LEMMA ConnectStep ==
  ASSUME CloudInv,
         \/ DisconnectedNetworkConnected \/ SendRequestFailed \/ ProvisioningRequest
         \/ ProvisioningFinished \/ NotAuthenticated \/ BackoffExpired
  PROVE  CloudInv'
  <1> USE OutSeqs DEF Stay, Publish, Announce, EnterProvisioned, EnterProvisioning,
                      FirstAttempt, NextAttempt, CloudOutMsg, ConnectResult
  <1>1. CASE DisconnectedNetworkConnected
    <2>1. ControlTypeOK'
      BY <1>1, Received DEF DisconnectedNetworkConnected
    <2>2. Blocked' /\ ReportIsTrue' /\ AnswerComes' /\ BackoffCounts'
      BY <1>1 DEF DisconnectedNetworkConnected
    <2> QED
      BY <2>1, <2>2
  <1>2. CASE SendRequestFailed
    <2>1. ControlTypeOK'
      BY <1>2, Received DEF SendRequestFailed
    <2>2. Blocked' /\ ReportIsTrue' /\ AnswerComes' /\ BackoffCounts'
      BY <1>2 DEF SendRequestFailed
    <2> QED
      BY <2>1, <2>2
  <1>3. CASE ProvisioningRequest
    BY <1>3, Received DEF ProvisioningRequest
  <1>4. CASE ProvisioningFinished
    BY <1>4, Received DEF ProvisioningFinished
  <1>5. CASE NotAuthenticated
    BY <1>5, Received DEF NotAuthenticated
  <1>6. CASE BackoffExpired
    <2>1. /\ inbox' \in Seq(CloudInMsg) /\ network_connected' \in BOOLEAN
          /\ UNCHANGED <<online, changes, requests>> /\ ~connecting
      BY <1>6, Received DEF BackoffExpired
    <2>2. published' \in Seq(CloudOutMsg) /\ UNCHANGED report
      BY <1>6 DEF BackoffExpired
    <2>3. \/ /\ mode' = "PROVISIONED" /\ provisioning_ongoing' = FALSE
             /\ connecting' = TRUE /\ UNCHANGED provisioner
          \/ /\ mode' = "PROVISIONING" /\ provisioning_ongoing' = TRUE
             /\ provisioner' = "running" /\ UNCHANGED connecting
      BY <1>6 DEF BackoffExpired
    <2>4. /\ mode = "BACKOFF" /\ timer' = "stopped"
          /\ connection_attempts' = connection_attempts + 1
          /\ UNCHANGED <<outcome, failures>>
      BY <1>6 DEF BackoffExpired
    <2>5. ControlTypeOK'
      <3>1. connecting' \in BOOLEAN /\ provisioning_ongoing' \in BOOLEAN
        BY <2>3
      <3>2. mode' \in Modes /\ provisioner' \in {"idle", "running"}
        BY <2>3
      <3> QED
        BY <2>1, <2>2, <2>4, <3>1, <3>2
    <2>6. Blocked' /\ ReportIsTrue' /\ AnswerComes' /\ BackoffCounts'
      BY <2>1, <2>2, <2>3, <2>4
    <2> QED
      BY <2>5, <2>6
  <1> QED
    BY <1>1, <1>2, <1>3, <1>4, <1>5, <1>6

(* Transitions out of the attempts and into the backoff. *)
LEMMA LeaveStep ==
  ASSUME CloudInv,
         \/ ConnectingNetworkDisconnected \/ ConnectionSuccess \/ ConnectionFailed
         \/ ProvisioningFailed \/ ReadyNetworkDisconnected \/ PausedNetworkConnected
  PROVE  CloudInv'
  <1> USE OutSeqs DEF Stay, Publish, Announce, EnterBackoff, CloudOutMsg, ConnectResult
  <1>1. CASE ConnectingNetworkDisconnected
    BY <1>1, Received DEF ConnectingNetworkDisconnected
  <1>2. CASE ConnectionSuccess
    BY <1>2, Received DEF ConnectionSuccess
  <1>3. CASE ConnectionFailed
    BY <1>3, Received DEF ConnectionFailed
  <1>4. CASE ProvisioningFailed
    <2>1. ControlTypeOK'
      BY <1>4, Received DEF ProvisioningFailed
    <2>2. Blocked' /\ ReportIsTrue' /\ AnswerComes' /\ BackoffCounts'
      BY <1>4 DEF ProvisioningFailed, Receive
    <2> QED
      BY <2>1, <2>2
  <1>5. CASE ReadyNetworkDisconnected
    BY <1>5, Received DEF ReadyNetworkDisconnected
  <1>6. CASE PausedNetworkConnected
    BY <1>6, Received DEF PausedNetworkConnected
  <1> QED
    BY <1>1, <1>2, <1>3, <1>4, <1>5, <1>6

(* Steps of a connected module that stay in its state. *)
LEMMA ConnectedStep ==
  ASSUME CloudInv, SendRequest \/ BatchItems \/ CloseSession
  PROVE  CloudInv'
  <1> USE OutSeqs DEF Stay, Publish, CloudOutMsg
  <1>1. CASE SendRequest
    <2>1. "CLOUD_SEND_REQUEST_FAILED" \in CloudInMsg
      BY DEF CloudInMsg, PrivMsg
    <2>0. Tail(inbox) \in Seq(CloudInMsg)
      BY <1>1, HeadTail DEF SendRequest, Receive
    <2>2. inbox' \in Seq(CloudInMsg) /\ failures' \in Nat
      BY <1>1, <2>0, <2>1, AppendSeq DEF SendRequest, SendOrFail, Consume
    <2>3. published' \in Seq(CloudOutMsg)
      BY <1>1 DEF SendRequest, SendOrFail
    <2> QED
      BY <1>1, <2>2, <2>3
         DEF SendRequest, SendOrFail, Receive, network_connection_status_retain
  <1>2. CASE BatchItems
    <2>0. Tail(inbox) \in Seq(CloudInMsg)
      BY <1>2, HeadTail DEF BatchItems, Receive
    <2>1. inbox' \in Seq(CloudInMsg) /\ failures' \in Nat
      <3>1. PICK failed \in 0 .. MaxFailures - failures :
              /\ inbox' = Tail(inbox) \o [i \in 1 .. failed |-> "CLOUD_SEND_REQUEST_FAILED"]
              /\ failures' = failures + failed
        BY <1>2 DEF BatchItems
      <3>2. failed \in Nat
        BY CloudBoundsAssumption
      <3>3. \A n \in Nat :
              Tail(inbox) \o [i \in 1 .. n |-> "CLOUD_SEND_REQUEST_FAILED"] \in Seq(CloudInMsg)
        BY <2>0, FailureSeq
      <3>4. inbox' \in Seq(CloudInMsg)
        BY <3>1, <3>2, <3>3
      <3>5. failures' \in Nat
        BY <3>1, <3>2
      <3> QED
        BY <3>4, <3>5
    <2>2. published' \in Seq(CloudOutMsg)
      BY <1>2 DEF BatchItems
    <2> QED
      BY <1>2, <2>1, <2>2
         DEF BatchItems, Receive, network_connection_status_retain
  <1>3. CASE CloseSession
    <2>1. PICK m : Receive(m)
      BY <1>3 DEF CloseSession
    <2> QED
      BY <1>3, <2>1, Received DEF CloseSession
  <1> QED
    BY <1>1, <1>2, <1>3

(* Steps that take a message which is not the awaited answer. *)
LEMMA DropStep ==
  ASSUME CloudInv, ProvisioningNetwork \/ DropMessage
  PROVE  CloudInv'
  <1> USE OutSeqs DEF Stay, Publish
  <1>1. PICK m : /\ Receive(m) /\ Consume
                 /\ (mode = "PROVISIONING" /\ m \in NetworkMsg) \/ m \notin HandledIn(mode)
    BY DEF ProvisioningNetwork, DropMessage
  <1>2. ControlTypeOK' /\ Blocked' /\ ReportIsTrue' /\ BackoffCounts'
    <2>1. /\ inbox' \in Seq(CloudInMsg) /\ network_connected' \in BOOLEAN
          /\ UNCHANGED <<online, changes, requests>> /\ ~connecting
      BY <1>1, Received
    <2>2. /\ published' = <<>>
          /\ UNCHANGED <<mode, connecting, provisioning_ongoing, provisioner, report,
                        connection_attempts, timer, outcome, failures>>
      BY DEF ProvisioningNetwork, DropMessage
    <2> QED
      BY <2>1, <2>2
  <1>3. ASSUME NEW answers, Has(inbox, answers), m \notin answers
        PROVE  Has(inbox', answers)
    BY <1>1, <1>3, Received, HasTail DEF Receive, Consume
  <1>4. /\ mode = "PROVISIONED" => m \notin ConnectResult
        /\ mode = "PROVISIONING" => m \notin ProvisioningResult
        /\ mode = "BACKOFF" => m \notin {"CLOUD_BACKOFF_EXPIRED"}
    BY <1>1 DEF HandledIn, NetworkMsg, ProvisioningResult
  <1>5. AnswerComes'
    BY <1>1, <1>3, <1>4 DEF ProvisioningNetwork, DropMessage, Queued, Has, Receive
  <1> QED
    BY <1>2, <1>5

(* Steps that append a message to the queue. *)
LEMMA Appended ==
  ASSUME CloudInv, NEW m \in CloudInMsg, inbox' = Append(inbox, m)
  PROVE  /\ inbox' \in Seq(CloudInMsg)
         /\ \A answers : Queued(answers) \/ m \in answers => Queued(answers)'
  <1>1. inbox' \in Seq(CloudInMsg)
    BY AppendSeq
  <1>2. ASSUME NEW answers, Queued(answers) \/ m \in answers
        PROVE  Queued(answers)'
    <2>1. Has(inbox, answers) \/ m \in answers
      BY <1>2 DEF Queued, Has
    <2>2. Has(inbox', answers)
      BY <2>1, HasAppend
    <2> QED
      BY <2>2 DEF Queued, Has
  <1> QED
    BY <1>1, <1>2

LEMMA AppendStep ==
  ASSUME CloudInv,
         \/ ConnectToCloud \/ nrf_provisioning_callback \/ BackoffTimerWork
         \/ NetworkChange \/ OtherModules
  PROVE  CloudInv'
  <1> USE OutSeqs DEF Publish, contextVars
  <1>1. CASE ConnectToCloud
    <2>1. PICK m \in ConnectResult :
            inbox' = Append(inbox, m) /\ outcome' = m /\ failures' \in {failures, failures + 1}
      BY <1>1 DEF ConnectToCloud
    <2>2. m \in CloudInMsg
      BY <2>1 DEF CloudInMsg, PrivMsg
    <2>3. inbox' \in Seq(CloudInMsg) /\ Queued(ConnectResult)'
      BY <2>1, <2>2, Appended
    <2>4. ControlTypeOK'
      <3>0. failures' \in Nat /\ outcome' \in {"none"} \union ConnectResult
        BY <2>1
      <3>1. published' \in Seq(CloudOutMsg) /\ connecting' \in BOOLEAN
        BY <1>1 DEF ConnectToCloud
      <3>2. UNCHANGED <<mode, contextVars, timer, provisioner, online, report, changes, requests>>
        BY <1>1 DEF ConnectToCloud
      <3> QED
        BY <2>3, <3>0, <3>1, <3>2
    <2>5. Blocked' /\ ReportIsTrue' /\ AnswerComes' /\ BackoffCounts'
      BY <1>1, <2>3 DEF ConnectToCloud
    <2> QED
      BY <2>4, <2>5
  <1>2. CASE nrf_provisioning_callback
    <2>1. PICK m \in ProvisioningResult :
            inbox' = Append(inbox, m) /\ failures' \in {failures, failures + 1}
      BY <1>2 DEF nrf_provisioning_callback, ProvisioningResult
    <2>2. m \in CloudInMsg
      BY <2>1 DEF CloudInMsg, PrivMsg
    <2>3. /\ inbox' \in Seq(CloudInMsg) /\ Queued(ProvisioningResult)'
          /\ \A answers : Queued(answers) => Queued(answers)'
      BY <2>1, <2>2, Appended
    <2> QED
      BY <1>2, <2>1, <2>3 DEF nrf_provisioning_callback
  <1>3. CASE BackoffTimerWork
    <2>1. "CLOUD_BACKOFF_EXPIRED" \in CloudInMsg
      BY DEF CloudInMsg, PrivMsg
    <2>2. /\ inbox' \in Seq(CloudInMsg) /\ Queued({"CLOUD_BACKOFF_EXPIRED"})'
          /\ \A answers : Queued(answers) => Queued(answers)'
      BY <1>3, <2>1, Appended DEF BackoffTimerWork
    <2> QED
      BY <1>3, <2>2 DEF BackoffTimerWork, worldVars
  <1>4. CASE NetworkChange \/ OtherModules
    <2>1. PICK m \in CloudInMsg : inbox' = Append(inbox, m)
      BY <1>4 DEF NetworkChange, OtherModules, Send, CloudInMsg, NetworkMsg
    <2>2. inbox' \in Seq(CloudInMsg) /\ \A answers : Queued(answers) => Queued(answers)'
      BY <2>1, Appended
    <2>3. changes' \in Nat /\ requests' \in Nat /\ online' \in BOOLEAN
      <3>1. CASE NetworkChange
        BY <3>1 DEF NetworkChange
      <3>2. CASE OtherModules
        BY <3>2 DEF OtherModules
      <3> QED
        BY <1>4, <3>1, <3>2
    <2>4. /\ published' = <<>>
          /\ UNCHANGED <<mode, connecting, contextVars, timer, provisioner, report, outcome,
                        failures>>
      <3>1. PICK msg : Send(msg)
        BY <1>4 DEF NetworkChange, OtherModules
      <3> QED
        BY <3>1 DEF Send
    <2> QED
      BY <2>2, <2>3, <2>4
  <1> QED
    BY <1>1, <1>2, <1>3, <1>4

LEMMA StutterStep == CloudInv /\ UNCHANGED cloudVars => CloudInv'
  BY DEF cloudVars, contextVars, worldVars, Queued

-----------------------------------------------------------------------------
(* What the module and its environment do keeps the invariant. *)
LEMMA CloudInvHolds == CloudSpec => []CloudInv
  <1>1. CloudInv /\ [CloudNext]_cloudVars => CloudInv'
    <2> SUFFICES ASSUME CloudInv, [CloudNext]_cloudVars PROVE CloudInv'
      OBVIOUS
    <2>1. CASE CloudThread
      BY <2>1, ConnectStep, LeaveStep, ConnectedStep, DropStep, AppendStep DEF CloudThread
    <2>2. CASE BackoffTimerWork \/ nrf_provisioning_callback \/ NetworkChange \/ OtherModules
      BY <2>2, AppendStep
    <2>3. CASE UNCHANGED cloudVars
      BY <2>3, StutterStep
    <2> QED
      BY <2>1, <2>2, <2>3 DEF CloudNext
  <1> QED
    BY InitInv, <1>1, PTL DEF CloudSpec

(* The other modules are told of every entry into the ready state and of   *)
(* every way out of it.                                                    *)
THEOREM ReportAlwaysTrue == CloudSpec => []ReportIsTrue
  BY CloudInvHolds, PTL

(* No state waits for an answer that will not come. *)
THEOREM AnswerAlwaysComes == CloudSpec => []AnswerComes
  BY CloudInvHolds, PTL

(* The backoff time is never computed from zero attempts. *)
THEOREM BackoffAlwaysCounts == CloudSpec => []BackoffCounts
  BY CloudInvHolds, PTL
-----------------------------------------------------------------------------
(* Induction over the natural numbers, for a set in place of a predicate:  *)
(* a set of numbers that is not empty has a least one.                     *)
LEMMA Least ==
  ASSUME NEW T \in SUBSET Nat, T # {}
  PROVE  \E x \in T : \A y \in T : x <= y
  <1>1. IsWellFoundedOn(OpToRel(<, Nat), Nat)
    BY NatLessThanWellFounded
  <1>2. PICK x \in T : \A y \in T : ~(<<y, x>> \in OpToRel(<, Nat))
    BY <1>1, WFMin
  <1>3. \A y \in T : ~(y < x)
    BY <1>2 DEF OpToRel
  <1>4. QED
    BY <1>3

(* A set that holds zero and the successor of each of its members holds    *)
(* every number.                                                           *)
LEMMA SetInduction ==
  ASSUME NEW T \in SUBSET Nat, 0 \in T, \A n \in T : n + 1 \in T
  PROVE  T = Nat
  <1> DEFINE U == Nat \ T
  <1> SUFFICES ASSUME U # {} PROVE FALSE
    OBVIOUS
  <1>1. PICK x \in U : \A y \in U : x <= y
    BY Least
  <1>2. x # 0 /\ x - 1 \in Nat
    BY <1>1
  <1>3. x - 1 \in T
    BY <1>1, <1>2
  <1>4. QED
    BY <1>1, <1>2, <1>3

(* The first n iterates of a function s on S, from a.                      *)
Iterates(S, a, s, n) ==
  {g \in [0 .. n -> S] : g[0] = a /\ \A k \in 1 .. n : g[k] = s[g[k - 1]]}

LEMMA IteratesExist ==
  ASSUME NEW S, NEW a \in S, NEW s \in [S -> S], NEW n \in Nat
  PROVE  Iterates(S, a, s, n) # {}
  <1> DEFINE T == {m \in Nat : Iterates(S, a, s, m) # {}}
  <1>1. 0 \in T
    <2>1. [k \in 0 .. 0 |-> a] \in Iterates(S, a, s, 0)
      BY DEF Iterates
    <2> QED
      BY <2>1
  <1>2. ASSUME NEW m \in T PROVE m + 1 \in T
    <2>1. PICK g \in Iterates(S, a, s, m) : TRUE
      OBVIOUS
    <2> DEFINE h == [k \in 0 .. m + 1 |-> IF k = m + 1 THEN s[g[m]] ELSE g[k]]
    <2>2. g \in [0 .. m -> S] /\ g[0] = a /\ \A k \in 1 .. m : g[k] = s[g[k - 1]]
      BY <2>1 DEF Iterates
    <2>3. h \in [0 .. m + 1 -> S]
      BY <2>2
    <2>4. h[0] = a
      BY <2>2
    <2>5. ASSUME NEW k \in 1 .. m + 1 PROVE h[k] = s[h[k - 1]]
      BY <2>2
    <2> QED
      BY <2>3, <2>4, <2>5 DEF Iterates
  <1>3. T = Nat
    <2> HIDE DEF T
    <2> QED
      <3>1. T \in SUBSET Nat
        BY DEF T
      <3> QED
        BY <1>1, <1>2, <3>1, SetInduction
  <1> QED
    BY <1>3

LEMMA IteratesAgree ==
  ASSUME NEW S, NEW a \in S, NEW s \in [S -> S], NEW n \in Nat, NEW m \in Nat,
         NEW g \in Iterates(S, a, s, n), NEW h \in Iterates(S, a, s, m)
  PROVE  \A k \in Nat : k <= n /\ k <= m => g[k] = h[k]
  <1> DEFINE T == {k \in Nat : k <= n /\ k <= m => g[k] = h[k]}
  <1>0. /\ g[0] = a /\ \A k \in 1 .. n : g[k] = s[g[k - 1]]
        /\ h[0] = a /\ \A k \in 1 .. m : h[k] = s[h[k - 1]]
    BY DEF Iterates
  <1>1. 0 \in T
    BY <1>0
  <1>2. ASSUME NEW k \in T PROVE k + 1 \in T
    BY <1>0
  <1>3. T = Nat
    <2> HIDE DEF T
    <2>1. T \in SUBSET Nat
      BY DEF T
    <2> QED
      BY <1>1, <1>2, <2>1, SetInduction
  <1> QED
    BY <1>3

(* A function that is defined by iterating another exists, and its values  *)
(* are where they should be.                                               *)
LEMMA IterationExists ==
  ASSUME NEW S, NEW a \in S, NEW s \in [S -> S]
  PROVE  \E f \in [Nat -> S] : f = [n \in Nat |-> IF n = 0 THEN a ELSE s[f[n - 1]]]
  <1> DEFINE g(n) == CHOOSE h \in Iterates(S, a, s, n) : TRUE
             f == [n \in Nat |-> g(n)[n]]
  <1>1. ASSUME NEW n \in Nat
        PROVE  g(n) \in Iterates(S, a, s, n)
    BY IteratesExist
  <1> HIDE DEF g
  <1>2. ASSUME NEW n \in Nat
        PROVE  g(n)[n] \in S /\ (n = 0 => g(n)[n] = a)
    BY <1>1 DEF Iterates
  <1>3. ASSUME NEW n \in Nat, n # 0
        PROVE  g(n)[n] = s[g(n - 1)[n - 1]]
    <2>1. n - 1 \in Nat /\ n \in 1 .. n
      BY <1>3
    <2>2. g(n)[n] = s[g(n)[n - 1]]
      BY <1>1, <2>1 DEF Iterates
    <2>3. g(n)[n - 1] = g(n - 1)[n - 1]
      BY <1>1, <2>1, IteratesAgree
    <2> QED
      BY <2>2, <2>3
  <1>4. f \in [Nat -> S]
    BY <1>2
  <1>5. f = [n \in Nat |-> IF n = 0 THEN a ELSE s[f[n - 1]]]
    <2>1. ASSUME NEW n \in Nat PROVE g(n)[n] = IF n = 0 THEN a ELSE s[f[n - 1]]
      BY <1>2, <1>3
    <2> QED
      BY <2>1
  <1> QED
    BY <1>4, <1>5

(* The recursive definition of the shift has the function it describes,    *)
(* and whatever the number of places the result fits the word.             *)
LEMMA ShiftedFits ==
  /\ Shifted \in [Nat -> 0 .. WordSize - 1]
  /\ \A n \in Nat : Shifted[n] = IF n = 0 THEN BackoffInitial % WordSize ELSE (2 * Shifted[n - 1]) % WordSize
  <1> DEFINE S == 0 .. WordSize - 1
             s == [x \in S |-> (2 * x) % WordSize]
             Doubled(f) == [n \in Nat |-> IF n = 0 THEN BackoffInitial % WordSize ELSE (2 * f[n - 1]) % WordSize]
  <1>1. BackoffInitial % WordSize \in S /\ s \in [S -> S]
    BY BackoffAssumption
  <1>2. PICK f \in [Nat -> S] : f = [n \in Nat |-> IF n = 0 THEN BackoffInitial % WordSize ELSE s[f[n - 1]]]
    <2> HIDE DEF S, s
    <2> QED
      BY <1>1, IterationExists
  <1>3. \A n \in Nat : n # 0 => n - 1 \in Nat /\ f[n - 1] \in S
    <2> HIDE DEF S
    <2> QED
      OBVIOUS
  <1>4. \A n \in Nat : f[n] = IF n = 0 THEN BackoffInitial % WordSize ELSE (2 * f[n - 1]) % WordSize
    BY <1>2, <1>3
  <1>5. f = Doubled(f)
    BY <1>2, <1>4
  <1>6. Shifted = Doubled(Shifted)
    BY <1>5 DEF Shifted
  <1> HIDE DEF S
  <1>7. \A n \in Nat : Shifted[n] = IF n = 0 THEN BackoffInitial % WordSize ELSE (2 * Shifted[n - 1]) % WordSize
    BY <1>6
  <1> DEFINE T == {n \in Nat : Shifted[n] \in S}
  <1>8. 0 \in T
    BY <1>1, <1>7
  <1>9. ASSUME NEW n \in T PROVE n + 1 \in T
    <2>1. n + 1 \in Nat /\ n + 1 # 0 /\ (n + 1) - 1 = n
      OBVIOUS
    <2>2. Shifted[n + 1] = (2 * Shifted[n]) % WordSize
      BY <1>7, <2>1
    <2>3. (2 * Shifted[n]) % WordSize \in S
      BY BackoffAssumption DEF S
    <2> QED
      BY <2>1, <2>2, <2>3
  <1>10. T = Nat
    <2>1. T \in SUBSET Nat
      OBVIOUS
    <2> HIDE DEF T
    <2> QED
      BY <1>8, <1>9, <2>1, SetInduction
  <1>11. Shifted \in [Nat -> S]
    BY <1>6, <1>10
  <1> QED
    BY <1>7, <1>11 DEF S

(* The backoff time fits its word, from the first attempt on. *)
LEMMA BackoffTimeFits ==
  ASSUME NEW n \in Nat, n >= 1
  PROVE  calculate_backoff_time(n) \in 0 .. WordSize - 1
  <1>1. n - 1 \in Nat
    OBVIOUS
  <1>2. Shifted[n - 1] \in 0 .. WordSize - 1
    BY <1>1, ShiftedFits
  <1>3. /\ BackoffInitial % WordSize \in 0 .. WordSize - 1
        /\ (BackoffInitial + (n - 1) * BackoffIncrement) % WordSize \in 0 .. WordSize - 1
    <2>1. (n - 1) * BackoffIncrement \in Nat
      BY <1>1, BackoffAssumption
    <2> QED
      BY <2>1, BackoffAssumption
  <1> QED
    BY <1>2, <1>3, BackoffAssumption DEF calculate_backoff_time

(* Only the entry into the backoff changes its time, and it computes it    *)
(* from at least one attempt.                                              *)
LEMMA BackoffTimeStep ==
  ASSUME CloudInv, [CloudNext]_cloudVars
  PROVE  \/ backoff_time' = backoff_time
         \/ /\ connection_attempts \in Nat /\ connection_attempts >= 1
            /\ backoff_time' = calculate_backoff_time(connection_attempts)
  <1>1. CASE EnterBackoff /\ mode \in Connecting
    BY <1>1 DEF EnterBackoff
  <1>2. ASSUME ConnectionFailed \/ ProvisioningFailed
        PROVE  backoff_time' = backoff_time \/ (EnterBackoff /\ mode \in Connecting)
    BY <1>2 DEF ConnectionFailed, ProvisioningFailed
  <1>3. CASE /\ CloudThread
             /\ ~(ConnectionFailed \/ ProvisioningFailed)
    BY <1>3 DEF CloudThread, DisconnectedNetworkConnected, ConnectingNetworkDisconnected,
      ConnectToCloud, ConnectionSuccess, NotAuthenticated, ProvisioningNetwork,
      ProvisioningFinished, BackoffExpired, ReadyNetworkDisconnected, PausedNetworkConnected,
      SendRequestFailed, ProvisioningRequest, SendRequest, BatchItems, CloseSession, DropMessage, contextVars
  <1>4. CASE BackoffTimerWork \/ nrf_provisioning_callback \/ NetworkChange \/ OtherModules
    BY <1>4 DEF BackoffTimerWork, nrf_provisioning_callback, NetworkChange, OtherModules, Send, contextVars
  <1>5. CASE UNCHANGED cloudVars
    BY <1>5 DEF cloudVars, contextVars
  <1> QED
    BY <1>1, <1>2, <1>3, <1>4, <1>5 DEF CloudNext

(* Every variable of the module keeps its type. *)
THEOREM CloudTypeCorrect == CloudSpec => []CloudTypeOK
  <1>1. CloudInit => backoff_time \in 0 .. WordSize - 1
    BY BackoffAssumption DEF CloudInit
  <1>2. CloudInv /\ backoff_time \in 0 .. WordSize - 1 /\ [CloudNext]_cloudVars
          => (backoff_time \in 0 .. WordSize - 1)'
    BY BackoffTimeStep, BackoffTimeFits
  <1>3. CloudInv /\ backoff_time \in 0 .. WordSize - 1 => CloudTypeOK
    BY DEF CloudTypeOK
  <1> QED
    BY CloudInvHolds, <1>1, <1>2, <1>3, PTL DEF CloudSpec
-----------------------------------------------------------------------------
(* The expiries of the backoff timer in the queue: none while the timer    *)
(* runs, at most one, and none that a result of connecting overtakes, so   *)
(* that the module has dropped it before it can enter the next backoff.    *)

HIDE DEF CloudInv, ControlTypeOK, Blocked, ReportIsTrue, BackoffCounts, AnswerComes,
         Modes, Connecting, Attempting

Expiry == {"CLOUD_BACKOFF_EXPIRED"}

BackoffInv ==
  /\ timer = "scheduled" => mode = "BACKOFF" /\ ~Has(inbox, Expiry)
  /\ Has(inbox, Expiry) => mode \in {"BACKOFF", "DISCONNECTED", "PROVISIONED"}
  /\ Once(inbox, Expiry)
  /\ Behind(inbox, ConnectResult, Expiry)

(* A step that puts neither an expiry nor a result in the queue. *)
NoneAdded ==
  /\ Has(inbox', Expiry) => Has(inbox, Expiry)
  /\ Once(inbox', Expiry)
  /\ Behind(inbox', ConnectResult, Expiry)

LEMMA NoneAddedRules ==
  ASSUME CloudInv, BackoffInv,
         \/ inbox' = inbox
         \/ inbox # <<>> /\ inbox' = Tail(inbox)
         \/ \E m : m \notin ConnectResult \union Expiry /\ inbox' = Append(inbox, m)
         \/ \E n \in Nat : /\ inbox # <<>>
                           /\ inbox' = Tail(inbox) \o [i \in 1 .. n |-> "CLOUD_SEND_REQUEST_FAILED"]
         \/ inbox # <<>> /\ inbox' = Append(Tail(inbox), "CLOUD_SEND_REQUEST_FAILED")
  PROVE  NoneAdded
  <1>0. inbox \in Seq(CloudInMsg) /\ "CLOUD_SEND_REQUEST_FAILED" \notin ConnectResult \union Expiry
    BY DEF CloudInv, ControlTypeOK, ConnectResult, Expiry
  <1>1. CASE inbox' = inbox
    BY <1>1 DEF NoneAdded, BackoffInv
  <1>2. ASSUME inbox # <<>>
        PROVE  /\ Tail(inbox) \in Seq(CloudInMsg)
               /\ Has(Tail(inbox), Expiry) => Has(inbox, Expiry)
               /\ Once(Tail(inbox), Expiry)
               /\ Behind(Tail(inbox), ConnectResult, Expiry)
    BY <1>0, <1>2, HeadTail, HasTail, OnceTail, BehindTail DEF BackoffInv
  <1>3. ASSUME NEW m, m \notin ConnectResult \union Expiry, inbox' = Append(inbox, m)
        PROVE  NoneAdded
    <2>1. Has(inbox', Expiry) => Has(inbox, Expiry)
      BY <1>0, <1>3, HasAppend
    <2>2. Once(inbox', Expiry)
      BY <1>0, <1>3, OnceAppend DEF BackoffInv
    <2>3. Behind(inbox', ConnectResult, Expiry)
      BY <1>0, <1>3, BehindAppend DEF BackoffInv
    <2> QED
      BY <2>1, <2>2, <2>3 DEF NoneAdded
  <1>4. ASSUME NEW n \in Nat, inbox # <<>>,
               inbox' = Tail(inbox) \o [i \in 1 .. n |-> "CLOUD_SEND_REQUEST_FAILED"]
        PROVE  NoneAdded
    <2> DEFINE failed == [i \in 1 .. n |-> "CLOUD_SEND_REQUEST_FAILED"]
    <2>1. failed \in Seq(CloudInMsg)
      <3>1. "CLOUD_SEND_REQUEST_FAILED" \in CloudInMsg
        BY DEF CloudInMsg, PrivMsg
      <3> QED
        BY <3>1
    <2>2. ~Has(failed, ConnectResult \union Expiry) /\ ~Has(failed, Expiry)
      BY <1>0 DEF Has
    <2> HIDE DEF failed
    <2>3. inbox' = Tail(inbox) \o failed
      BY <1>4 DEF failed
    <2>4. Has(inbox', Expiry) => Has(inbox, Expiry)
      <3>1. Has(Tail(inbox) \o failed, Expiry) <=> Has(Tail(inbox), Expiry) \/ Has(failed, Expiry)
        BY <1>2, <1>4, <2>1, HasConcat
      <3> QED
        BY <1>2, <1>4, <2>2, <2>3, <3>1
    <2>5. Once(inbox', Expiry)
      BY <1>2, <1>4, <2>1, <2>2, <2>3, OnceConcat
    <2>6. Behind(inbox', ConnectResult, Expiry)
      BY <1>2, <1>4, <2>1, <2>2, <2>3, BehindConcat
    <2> QED
      BY <2>4, <2>5, <2>6 DEF NoneAdded
  <1>5. CASE inbox # <<>> /\ inbox' = Append(Tail(inbox), "CLOUD_SEND_REQUEST_FAILED")
    <2>1. Has(inbox', Expiry) => Has(inbox, Expiry)
      BY <1>0, <1>2, <1>5, HasAppend
    <2>2. Once(inbox', Expiry)
      BY <1>0, <1>2, <1>5, OnceAppend
    <2>3. Behind(inbox', ConnectResult, Expiry)
      BY <1>0, <1>2, <1>5, BehindAppend
    <2> QED
      BY <2>1, <2>2, <2>3 DEF NoneAdded
  <1>6. CASE inbox # <<>> /\ inbox' = Tail(inbox)
    BY <1>2, <1>6 DEF NoneAdded
  <1> QED
    BY <1>1, <1>3, <1>4, <1>5, <1>6

LEMMA BackoffKept ==
  ASSUME BackoffInv, NoneAdded,
         timer' = "scheduled" => mode' = "BACKOFF" /\ ~Has(inbox', Expiry),
         mode' \in {mode, "DISCONNECTED", "PROVISIONED"} \/ ~Has(inbox', Expiry)
  PROVE  BackoffInv'
  BY DEF BackoffInv, NoneAdded

(* Steps that stay in their state. *)
LEMMA StayingBackoff ==
  ASSUME CloudInv, BackoffInv,
         \/ ProvisioningNetwork \/ SendRequest \/ BatchItems \/ CloseSession \/ DropMessage
         \/ nrf_provisioning_callback \/ NetworkChange \/ OtherModules \/ UNCHANGED cloudVars
  PROVE  BackoffInv'
  <1>1. mode' = mode /\ timer' = timer
    <2>1. CASE ProvisioningNetwork \/ SendRequest \/ BatchItems \/ CloseSession \/ DropMessage
      BY <2>1 DEF ProvisioningNetwork, SendRequest, BatchItems, CloseSession, DropMessage, Stay
    <2>2. CASE nrf_provisioning_callback \/ NetworkChange \/ OtherModules \/ UNCHANGED cloudVars
      BY <2>2 DEF nrf_provisioning_callback, NetworkChange, OtherModules, Send, cloudVars
    <2> QED
      BY <2>1, <2>2
  <1>2. NoneAdded
    <2>1. CASE ProvisioningNetwork \/ CloseSession \/ DropMessage
      <3>1. inbox # <<>> /\ inbox' = Tail(inbox)
        BY <2>1 DEF ProvisioningNetwork, CloseSession, DropMessage, Receive, Consume
      <3> QED
        BY <3>1, NoneAddedRules
    <2>2. CASE SendRequest
      <3>1. /\ inbox # <<>>
            /\ inbox' = Tail(inbox) \/ inbox' = Append(Tail(inbox), "CLOUD_SEND_REQUEST_FAILED")
        BY <2>2 DEF SendRequest, SendOrFail, Receive, Consume
      <3> QED
        BY <3>1, NoneAddedRules
    <2>3. CASE BatchItems
      <3>1. PICK n \in 0 .. MaxFailures - failures :
              inbox' = Tail(inbox) \o [i \in 1 .. n |-> "CLOUD_SEND_REQUEST_FAILED"]
        BY <2>3 DEF BatchItems
      <3>2. n \in Nat /\ inbox # <<>>
        BY <2>3, CloudBoundsAssumption DEF BatchItems, Receive, CloudInv, ControlTypeOK
      <3> QED
        BY <3>1, <3>2, NoneAddedRules
    <2>4. CASE nrf_provisioning_callback \/ NetworkChange \/ OtherModules
      <3>1. PICK m \in ProvisioningResult \union NetworkMsg \union OtherMsg : inbox' = Append(inbox, m)
        BY <2>4 DEF nrf_provisioning_callback, NetworkChange, OtherModules, Send, ProvisioningResult,
                    NetworkMsg
      <3>2. m \notin ConnectResult \union Expiry
        BY DEF ProvisioningResult, NetworkMsg, OtherMsg, BatchMsg, ConnectResult, Expiry
      <3> QED
        BY <3>1, <3>2, NoneAddedRules
    <2>5. CASE UNCHANGED cloudVars
      BY <2>5, NoneAddedRules DEF cloudVars
    <2> QED
      BY <2>1, <2>2, <2>3, <2>4, <2>5
  <1>3. timer' = "scheduled" => mode' = "BACKOFF" /\ ~Has(inbox', Expiry)
    BY <1>1, <1>2 DEF BackoffInv, NoneAdded
  <1> QED
    BY <1>1, <1>2, <1>3, BackoffKept

(* Steps into another state: only from a state that no expiry is left in,  *)
(* or by the message that shows that none is.                              *)
LEMMA LeavingBackoff ==
  ASSUME CloudInv, BackoffInv,
         \/ DisconnectedNetworkConnected \/ ConnectingNetworkDisconnected
         \/ ConnectionSuccess \/ NotAuthenticated \/ ConnectionFailed
         \/ ProvisioningFinished \/ ProvisioningFailed \/ BackoffExpired
         \/ ReadyNetworkDisconnected \/ PausedNetworkConnected
         \/ SendRequestFailed \/ ProvisioningRequest
  PROVE  BackoffInv'
  <1>1. inbox \in Seq(CloudInMsg) /\ inbox # <<>> /\ inbox' = Tail(inbox)
    BY DEF DisconnectedNetworkConnected, ConnectingNetworkDisconnected, ConnectionSuccess,
           NotAuthenticated, ConnectionFailed, ProvisioningFinished, ProvisioningFailed, BackoffExpired,
           ReadyNetworkDisconnected, PausedNetworkConnected, SendRequestFailed, ProvisioningRequest,
           Receive, Consume, CloudInv, ControlTypeOK
  <1>2. NoneAdded
    BY <1>1, NoneAddedRules
  <1>3. ASSUME timer' # "scheduled" \/ (mode' = "BACKOFF" /\ ~Has(inbox', Expiry)),
               mode' \in {"DISCONNECTED", "PROVISIONED"} \/ ~Has(inbox', Expiry)
        PROVE  BackoffInv'
    BY <1>2, <1>3, BackoffKept
  <1>4. CASE DisconnectedNetworkConnected
    <2>1. mode = "DISCONNECTED" /\ mode' = "PROVISIONED" /\ timer' = timer
      BY <1>4 DEF DisconnectedNetworkConnected, EnterProvisioned
    <2> QED
      BY <1>3, <2>1 DEF BackoffInv
  <1>5. CASE ConnectingNetworkDisconnected
    BY <1>3, <1>5 DEF ConnectingNetworkDisconnected, Stay
  <1>6. CASE ConnectionSuccess \/ NotAuthenticated \/ ConnectionFailed
    <2>1. /\ mode = "PROVISIONED" /\ Head(inbox) \in ConnectResult
          /\ timer' = timer \/ mode' = "BACKOFF"
      BY <1>6 DEF ConnectionSuccess, NotAuthenticated, ConnectionFailed, EnterBackoff, Receive, Stay,
                  ConnectResult
    <2>2. ~Has(inbox', Expiry)
      BY <1>1, <1>2, <2>1, BehindTail DEF BackoffInv, NoneAdded
    <2> QED
      BY <1>3, <2>1, <2>2 DEF BackoffInv
  <1>7. CASE BackoffExpired
    <2>1. Head(inbox) \in Expiry /\ timer' = "stopped"
      BY <1>7 DEF BackoffExpired, Receive, Expiry
    <2>2. ~Has(inbox', Expiry)
      BY <1>1, <2>1, OnceTail DEF BackoffInv
    <2> QED
      BY <1>3, <2>1, <2>2
  <1>8. CASE \/ ProvisioningFinished \/ ProvisioningFailed \/ ReadyNetworkDisconnected
             \/ PausedNetworkConnected \/ SendRequestFailed \/ ProvisioningRequest
    <2>1. mode \in {"PROVISIONING", "READY", "PAUSED"}
      BY <1>8 DEF ProvisioningFinished, ProvisioningFailed, ReadyNetworkDisconnected,
                  PausedNetworkConnected, SendRequestFailed, ProvisioningRequest
    <2>2. timer' = timer \/ mode' = "BACKOFF"
      BY <1>8 DEF ProvisioningFinished, ProvisioningFailed, ReadyNetworkDisconnected,
                  PausedNetworkConnected, SendRequestFailed, ProvisioningRequest, EnterBackoff, Stay
    <2>3. ~Has(inbox', Expiry)
      BY <1>2, <2>1 DEF BackoffInv, NoneAdded
    <2> QED
      BY <1>3, <2>1, <2>2, <2>3 DEF BackoffInv
  <1> QED
    BY <1>4, <1>5, <1>6, <1>7, <1>8

(* The connection answers behind an expiry, and a backoff that outlasts    *)
(* the results in the queue expires behind them.                           *)
LEMMA AnsweringBackoff ==
  ASSUME Prompt, CloudInv, BackoffInv, ConnectToCloud \/ BackoffTimerWork
  PROVE  BackoffInv'
  <1>1. inbox \in Seq(CloudInMsg)
    BY DEF CloudInv, ControlTypeOK
  <1>2. \A m \in ConnectResult : m \notin Expiry
    BY DEF ConnectResult, Expiry
  <1>3. CASE ConnectToCloud
    <2>1. PICK m \in ConnectResult : inbox' = Append(inbox, m)
      BY <1>3 DEF ConnectToCloud
    <2>2. mode = "PROVISIONED" /\ mode' = mode /\ timer' = timer
      BY <1>3 DEF ConnectToCloud, CloudInv, Blocked
    <2>3. Has(inbox', Expiry) => Has(inbox, Expiry)
      BY <1>1, <1>2, <2>1, HasAppend
    <2>4. Once(inbox', Expiry)
      BY <1>1, <1>2, <2>1, OnceAppend DEF BackoffInv
    <2>5. Behind(inbox', ConnectResult, Expiry)
      BY <1>1, <1>2, <2>1, BehindAppend DEF BackoffInv
    <2> QED
      BY <2>2, <2>3, <2>4, <2>5 DEF BackoffInv
  <1>4. CASE BackoffTimerWork
    <2>1. /\ timer = "scheduled" /\ ~Has(inbox, ConnectResult) /\ mode' = mode /\ timer' = "stopped"
          /\ inbox' = Append(inbox, "CLOUD_BACKOFF_EXPIRED")
      BY <1>4 DEF BackoffTimerWork, BackoffTimeUp, Queued, Has
    <2>2. mode = "BACKOFF" /\ ~Has(inbox, Expiry)
      BY <2>1 DEF BackoffInv
    <2>3. "CLOUD_BACKOFF_EXPIRED" \notin ConnectResult
      BY DEF ConnectResult
    <2>4. Once(inbox', Expiry)
      BY <1>1, <2>1, <2>2, OnceAppend DEF BackoffInv
    <2>5. Behind(inbox', ConnectResult, Expiry)
      BY <1>1, <2>1, <2>3, BehindAppend DEF BackoffInv
    <2> QED
      BY <2>1, <2>2, <2>4, <2>5 DEF BackoffInv
  <1> QED
    BY <1>3, <1>4

(* A new attempt has waited for the timer of its own backoff, whatever was *)
(* cancelled and left in the queue before, as long as a backoff outlasts   *)
(* the results that were queued when it began.                             *)
THEOREM BackoffAlwaysWaited ==
  ASSUME Prompt
  PROVE  CloudSpec => BackoffIsWaited
<1>1. CloudInit => BackoffInv
  BY HasNone, OnceNone, BehindNone DEF CloudInit, BackoffInv
<1>2. CloudInv /\ BackoffInv /\ [CloudNext]_cloudVars => BackoffInv'
  BY StayingBackoff, LeavingBackoff, AnsweringBackoff DEF CloudNext, CloudThread
<1>3. CloudInv /\ BackoffInv /\ [CloudNext]_cloudVars
        => [mode = "BACKOFF" /\ mode' \in Attempting => timer = "stopped"]_cloudVars
  <2> SUFFICES ASSUME CloudInv, BackoffInv, CloudNext, mode = "BACKOFF", mode' \in Attempting
               PROVE  timer = "stopped"
    OBVIOUS
  <2>1. BackoffExpired
    BY DEF CloudNext, CloudThread, DisconnectedNetworkConnected, ConnectingNetworkDisconnected,
           ConnectToCloud, ConnectionSuccess, NotAuthenticated, ConnectionFailed, ProvisioningNetwork,
           ProvisioningFinished, ProvisioningFailed, ReadyNetworkDisconnected, PausedNetworkConnected,
           SendRequestFailed, ProvisioningRequest, SendRequest, BatchItems, CloseSession, DropMessage,
           BackoffTimerWork, nrf_provisioning_callback, NetworkChange, OtherModules, Send, Stay,
           Attempting
  <2>2. inbox \in Seq(CloudInMsg) /\ inbox # <<>> /\ Head(inbox) \in Expiry
    BY <2>1 DEF BackoffExpired, Receive, CloudInv, ControlTypeOK, Expiry
  <2>3. Has(inbox, Expiry)
    BY <2>2, HasTail
  <2> QED
    BY <2>3 DEF BackoffInv, CloudInv, ControlTypeOK
<1> QED
  BY <1>1, <1>2, <1>3, CloudInvHolds, PTL DEF CloudSpec, BackoffIsWaited
=============================================================================
