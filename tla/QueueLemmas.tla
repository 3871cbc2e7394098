---------------------------- MODULE QueueLemmas ----------------------------
(***************************************************************************)
(* Lemmas about queues: sequences that messages are appended to and taken  *)
(* from the front of, as the threads do with their zbus subscriber queues. *)
(***************************************************************************)
EXTENDS Naturals, Sequences, TLAPS

(* The empty sequence, which the SMT encoding does not recognise below a
   disjunction. *)
LEMMA EmptySeq == \A S : << >> \in Seq(S)
  OBVIOUS

LEMMA OneSeq == \A S : \A x \in S : << x >> \in Seq(S)
  OBVIOUS

LEMMA AppendSeq == \A S : \A s \in Seq(S), x \in S : Append(s, x) \in Seq(S)
  OBVIOUS

LEMMA ConcatSeq == \A S : \A s, t \in Seq(S) : s \o t \in Seq(S)
  OBVIOUS

(* The first message of a queue, and the queue without it. *)
LEMMA HeadTail ==
  ASSUME NEW S, NEW s \in Seq(S), s # <<>>
  PROVE  Head(s) \in S /\ Tail(s) \in Seq(S)
  OBVIOUS

(* A message of a kind is in the queue. *)
Has(s, msgs) == \E i \in DOMAIN s : s[i] \in msgs

LEMMA HasNone == \A msgs : ~Has(<<>>, msgs)
  BY DEF Has

(* It stays there when another is appended, and when a message of another
   kind is taken. *)
LEMMA HasAppend ==
  ASSUME NEW S, NEW s \in Seq(S), NEW m, NEW msgs
  PROVE  Has(Append(s, m), msgs) <=> Has(s, msgs) \/ m \in msgs
  <1>1. ASSUME Has(s, msgs) PROVE Has(Append(s, m), msgs)
    <2>1. PICK i \in DOMAIN s : s[i] \in msgs
      BY <1>1 DEF Has
    <2>2. i \in DOMAIN Append(s, m) /\ Append(s, m)[i] = s[i]
      OBVIOUS
    <2> QED
      BY <2>1, <2>2 DEF Has
  <1>2. ASSUME m \in msgs PROVE Has(Append(s, m), msgs)
    <2>1. Len(s) + 1 \in DOMAIN Append(s, m) /\ Append(s, m)[Len(s) + 1] = m
      OBVIOUS
    <2> QED
      BY <1>2, <2>1 DEF Has
  <1>3. ASSUME Has(Append(s, m), msgs), m \notin msgs PROVE Has(s, msgs)
    <2>1. PICK i \in DOMAIN Append(s, m) : Append(s, m)[i] \in msgs
      BY <1>3 DEF Has
    <2>2. i # Len(s) + 1
      BY <1>3, <2>1
    <2>3. i \in DOMAIN s /\ s[i] = Append(s, m)[i]
      BY <2>2
    <2> QED
      BY <2>1, <2>3 DEF Has
  <1> QED
    BY <1>1, <1>2, <1>3

LEMMA HasTail ==
  ASSUME NEW S, NEW s \in Seq(S), s # <<>>, NEW msgs
  PROVE  Has(s, msgs) <=> Head(s) \in msgs \/ Has(Tail(s), msgs)
  <1>1. ASSUME Has(s, msgs), Head(s) \notin msgs PROVE Has(Tail(s), msgs)
    <2>1. PICK i \in DOMAIN s : s[i] \in msgs
      BY <1>1 DEF Has
    <2>2. i # 1
      BY <1>1, <2>1
    <2>3. i - 1 \in DOMAIN Tail(s) /\ Tail(s)[i - 1] = s[i]
      BY <2>2
    <2> QED
      BY <2>1, <2>3 DEF Has
  <1>2. ASSUME Head(s) \in msgs PROVE Has(s, msgs)
    <2>1. 1 \in DOMAIN s /\ s[1] = Head(s)
      OBVIOUS
    <2> QED
      BY <1>2, <2>1 DEF Has
  <1>3. ASSUME Has(Tail(s), msgs) PROVE Has(s, msgs)
    <2>1. PICK i \in DOMAIN Tail(s) : Tail(s)[i] \in msgs
      BY <1>3 DEF Has
    <2>2. i + 1 \in DOMAIN s /\ s[i + 1] = Tail(s)[i]
      OBVIOUS
    <2> QED
      BY <2>1, <2>2 DEF Has
  <1> QED
    BY <1>1, <1>2, <1>3

LEMMA HasConcat ==
  ASSUME NEW S, NEW s \in Seq(S), NEW t \in Seq(S), NEW msgs
  PROVE  Has(s \o t, msgs) <=> Has(s, msgs) \/ Has(t, msgs)
  <1>1. ASSUME Has(s, msgs) PROVE Has(s \o t, msgs)
    <2>1. PICK i \in DOMAIN s : s[i] \in msgs
      BY <1>1 DEF Has
    <2>2. i \in DOMAIN (s \o t) /\ (s \o t)[i] = s[i]
      OBVIOUS
    <2> QED
      BY <2>1, <2>2 DEF Has
  <1>2. ASSUME Has(t, msgs) PROVE Has(s \o t, msgs)
    <2>1. PICK i \in DOMAIN t : t[i] \in msgs
      BY <1>2 DEF Has
    <2>2. Len(s) + i \in DOMAIN (s \o t) /\ (s \o t)[Len(s) + i] = t[i]
      OBVIOUS
    <2> QED
      BY <2>1, <2>2 DEF Has
  <1>3. ASSUME Has(s \o t, msgs) PROVE Has(s, msgs) \/ Has(t, msgs)
    <2>1. PICK i \in DOMAIN (s \o t) : (s \o t)[i] \in msgs
      BY <1>3 DEF Has
    <2>2. CASE i <= Len(s)
      <3>1. i \in DOMAIN s /\ s[i] = (s \o t)[i]
        BY <2>2
      <3> QED
        BY <2>1, <3>1 DEF Has
    <2>3. CASE i > Len(s)
      <3>1. i - Len(s) \in DOMAIN t /\ t[i - Len(s)] = (s \o t)[i]
        BY <2>3
      <3> QED
        BY <2>1, <3>1 DEF Has
    <2> QED
      BY <2>2, <2>3
  <1> QED
    BY <1>1, <1>2, <1>3

(* Every message of a kind is followed by one of another kind.             *)
Followed(s, msgs, by) ==
  \A i \in DOMAIN s : s[i] \in msgs => \E j \in DOMAIN s : j > i /\ s[j] \in by

LEMMA FollowedNone == \A msgs, by : Followed(<<>>, msgs, by)
  BY DEF Followed

(* That one may be appended, ... *)
LEMMA FollowedBy ==
  ASSUME NEW S, NEW s \in Seq(S), NEW m, NEW msgs, NEW by, m \in by, m \notin msgs
  PROVE  Followed(Append(s, m), msgs, by)
  <1> SUFFICES ASSUME NEW i \in DOMAIN Append(s, m), Append(s, m)[i] \in msgs
               PROVE  \E j \in DOMAIN Append(s, m) : j > i /\ Append(s, m)[j] \in by
    BY DEF Followed
  <1>1. Len(s) + 1 \in DOMAIN Append(s, m) /\ Append(s, m)[Len(s) + 1] = m
    OBVIOUS
  <1>2. i \in Nat /\ i # Len(s) + 1 /\ i <= Len(s) + 1
    BY <1>1
  <1> QED
    BY <1>1, <1>2

(* ... and so may a message of a third kind. *)
LEMMA FollowedAppend ==
  ASSUME NEW S, NEW s \in Seq(S), NEW m, NEW msgs, NEW by, m \notin msgs, Followed(s, msgs, by)
  PROVE  Followed(Append(s, m), msgs, by)
  <1> SUFFICES ASSUME NEW i \in DOMAIN Append(s, m), Append(s, m)[i] \in msgs
               PROVE  \E j \in DOMAIN Append(s, m) : j > i /\ Append(s, m)[j] \in by
    BY DEF Followed
  <1>1. i \in DOMAIN s /\ s[i] = Append(s, m)[i]
    <2>1. i # Len(s) + 1
      OBVIOUS
    <2> QED
      BY <2>1
  <1>2. PICK j \in DOMAIN s : j > i /\ s[j] \in by
    BY <1>1 DEF Followed
  <1>3. j \in DOMAIN Append(s, m) /\ Append(s, m)[j] = s[j]
    OBVIOUS
  <1> QED
    BY <1>2, <1>3

(* What follows the first message is behind it. *)
LEMMA FollowedTail ==
  ASSUME NEW S, NEW s \in Seq(S), s # <<>>, NEW msgs, NEW by, Followed(s, msgs, by)
  PROVE  /\ Followed(Tail(s), msgs, by)
         /\ Head(s) \in msgs => Has(Tail(s), by)
  <1>1. ASSUME NEW i \in DOMAIN Tail(s), Tail(s)[i] \in msgs
        PROVE  \E j \in DOMAIN Tail(s) : j > i /\ Tail(s)[j] \in by
    <2>1. i + 1 \in DOMAIN s /\ s[i + 1] = Tail(s)[i]
      OBVIOUS
    <2>2. PICK j \in DOMAIN s : j > i + 1 /\ s[j] \in by
      BY <1>1, <2>1 DEF Followed
    <2>3. j - 1 \in DOMAIN Tail(s) /\ Tail(s)[j - 1] = s[j] /\ j - 1 > i
      BY <2>2
    <2> QED
      BY <2>2, <2>3
  <1>2. ASSUME Head(s) \in msgs PROVE Has(Tail(s), by)
    <2>1. 1 \in DOMAIN s /\ s[1] = Head(s)
      OBVIOUS
    <2>2. PICK j \in DOMAIN s : j > 1 /\ s[j] \in by
      BY <1>2, <2>1 DEF Followed
    <2>3. j - 1 \in DOMAIN Tail(s) /\ Tail(s)[j - 1] = s[j]
      BY <2>2
    <2> QED
      BY <2>2, <2>3 DEF Has
  <1> QED
    BY <1>1, <1>2 DEF Followed

(* There is no more than one message of a kind.                            *)
Once(s, msgs) == \A i, j \in DOMAIN s : s[i] \in msgs /\ s[j] \in msgs => i = j

LEMMA OnceNone == \A msgs : Once(<<>>, msgs)
  BY DEF Once

LEMMA OnceAppend ==
  ASSUME NEW S, NEW s \in Seq(S), NEW m, NEW msgs, Once(s, msgs),
         m \notin msgs \/ ~Has(s, msgs)
  PROVE  Once(Append(s, m), msgs)
  <1>1. \A i \in DOMAIN Append(s, m) :
          \/ i \in DOMAIN s /\ Append(s, m)[i] = s[i]
          \/ i = Len(s) + 1 /\ Append(s, m)[i] = m
    OBVIOUS
  <1> QED
    BY <1>1 DEF Once, Has

LEMMA OnceTail ==
  ASSUME NEW S, NEW s \in Seq(S), s # <<>>, NEW msgs, Once(s, msgs)
  PROVE  /\ Once(Tail(s), msgs)
         /\ Head(s) \in msgs => ~Has(Tail(s), msgs)
  <1>1. \A i \in DOMAIN Tail(s) : i \in Nat /\ i + 1 \in DOMAIN s /\ s[i + 1] = Tail(s)[i]
    OBVIOUS
  <1>2. 1 \in DOMAIN s /\ s[1] = Head(s) /\ \A i \in DOMAIN Tail(s) : i + 1 # 1
    OBVIOUS
  <1>3. Once(Tail(s), msgs)
    <2> SUFFICES ASSUME NEW i \in DOMAIN Tail(s), NEW j \in DOMAIN Tail(s),
                        Tail(s)[i] \in msgs, Tail(s)[j] \in msgs
                 PROVE  i = j
      BY DEF Once
    <2>1. i + 1 = j + 1
      BY <1>1 DEF Once
    <2> QED
      BY <1>1, <2>1
  <1>4. ASSUME Head(s) \in msgs PROVE ~Has(Tail(s), msgs)
    BY <1>1, <1>2, <1>4 DEF Once, Has
  <1> QED
    BY <1>3, <1>4

LEMMA OnceConcat ==
  ASSUME NEW S, NEW s \in Seq(S), NEW t \in Seq(S), NEW msgs, Once(s, msgs), ~Has(t, msgs)
  PROVE  Once(s \o t, msgs)
  <1>1. \A i \in DOMAIN (s \o t) :
          \/ i \in DOMAIN s /\ (s \o t)[i] = s[i]
          \/ i - Len(s) \in DOMAIN t /\ (s \o t)[i] = t[i - Len(s)]
    OBVIOUS
  <1>2. \A i \in DOMAIN (s \o t) : (s \o t)[i] \in msgs => i \in DOMAIN s /\ s[i] \in msgs
    BY <1>1 DEF Has
  <1> QED
    BY <1>2 DEF Once

(* Every message of a kind is behind all those of another kind.            *)
Behind(s, msgs, others) ==
  \A i, j \in DOMAIN s : s[i] \in msgs /\ s[j] \in others => j < i

LEMMA BehindNone == \A msgs, others : Behind(<<>>, msgs, others)
  BY DEF Behind

LEMMA BehindAppend ==
  ASSUME NEW S, NEW s \in Seq(S), NEW m, NEW msgs, NEW others, Behind(s, msgs, others),
         m \notin others \/ (m \notin msgs /\ ~Has(s, msgs)), m \notin msgs \/ m \notin others
  PROVE  Behind(Append(s, m), msgs, others)
  <1>1. \A i \in DOMAIN Append(s, m) :
          \/ i \in DOMAIN s /\ Append(s, m)[i] = s[i]
          \/ i = Len(s) + 1 /\ Append(s, m)[i] = m
    OBVIOUS
  <1>2. \A i \in DOMAIN s : i < Len(s) + 1
    OBVIOUS
  <1> QED
    BY <1>1, <1>2 DEF Behind, Has

LEMMA BehindTail ==
  ASSUME NEW S, NEW s \in Seq(S), s # <<>>, NEW msgs, NEW others, Behind(s, msgs, others)
  PROVE  /\ Behind(Tail(s), msgs, others)
         /\ Head(s) \in msgs => ~Has(s, others)
  <1>1. \A i \in DOMAIN Tail(s) : i \in Nat /\ i + 1 \in DOMAIN s /\ s[i + 1] = Tail(s)[i]
    OBVIOUS
  <1>2. 1 \in DOMAIN s /\ s[1] = Head(s) /\ \A j \in DOMAIN s : ~(j < 1)
    OBVIOUS
  <1>3. Behind(Tail(s), msgs, others)
    <2> SUFFICES ASSUME NEW i \in DOMAIN Tail(s), NEW j \in DOMAIN Tail(s),
                        Tail(s)[i] \in msgs, Tail(s)[j] \in others
                 PROVE  j < i
      BY DEF Behind
    <2>1. j + 1 < i + 1
      BY <1>1 DEF Behind
    <2> QED
      BY <1>1, <2>1
  <1>4. ASSUME Head(s) \in msgs PROVE ~Has(s, others)
    BY <1>2, <1>4 DEF Behind, Has
  <1> QED
    BY <1>3, <1>4

LEMMA BehindConcat ==
  ASSUME NEW S, NEW s \in Seq(S), NEW t \in Seq(S), NEW msgs, NEW others, Behind(s, msgs, others),
         ~Has(t, msgs \union others)
  PROVE  Behind(s \o t, msgs, others)
  <1>1. \A i \in DOMAIN (s \o t) :
          \/ i \in DOMAIN s /\ (s \o t)[i] = s[i]
          \/ i - Len(s) \in DOMAIN t /\ (s \o t)[i] = t[i - Len(s)]
    OBVIOUS
  <1>2. \A i \in DOMAIN (s \o t) :
          (s \o t)[i] \in msgs \union others => i \in DOMAIN s /\ (s \o t)[i] = s[i]
    BY <1>1 DEF Has
  <1> QED
    BY <1>2 DEF Behind
=============================================================================
