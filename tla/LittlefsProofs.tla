--------------------------- MODULE LittlefsProofs ---------------------------
(***************************************************************************)
(* Proofs about LittlefsBackend, for any number of records per type, any   *)
(* number of them per block and any width of the offsets that the number   *)
(* of records divides, with any number of stores and resets.               *)
(***************************************************************************)
EXTENDS LittlefsBackend, Integers, QueueLemmas, TLAPS

-----------------------------------------------------------------------------
(* Division with remainder.                                                *)

LEMMA Divided ==
  ASSUME NEW a \in Nat, NEW b \in Nat \ {0}
  PROVE  /\ a % b \in 0 .. b - 1 /\ a \div b \in Nat
         /\ a = b * (a \div b) + (a % b)
  OBVIOUS

LEMMA Multiples ==
  ASSUME NEW p \in Nat, NEW q \in Nat, NEW b \in Nat, p < q
  PROVE  b * p + b <= b * q
  OBVIOUS

LEMMA OneRemainder ==
  ASSUME NEW p \in Nat, NEW q \in Nat, NEW b \in Nat \ {0},
         NEW r \in 0 .. b - 1, NEW s \in 0 .. b - 1, b * p + r = b * q + s
  PROVE  p = q /\ r = s
  <1>1. ~(p < q)
    BY Multiples
  <1>2. ~(q < p)
    BY Multiples
  <1>3. QED
    BY <1>1, <1>2

(* A multiple more leaves the same remainder; less than one more does not. *)
LEMMA MultipleMore ==
  ASSUME NEW a \in Nat, NEW q \in Nat, NEW b \in Nat \ {0}
  PROVE  (b * q + a) % b = a % b
  <1> DEFINE x == b * q + a
             p == a \div b
             r == a % b
  <1>1. p \in Nat /\ r \in 0 .. b - 1 /\ a = b * p + r
    BY Divided
  <1>2. b * q \in Nat /\ x \in Nat
    OBVIOUS
  <1>3. x % b \in 0 .. b - 1 /\ x \div b \in Nat /\ x = b * (x \div b) + (x % b)
    BY <1>2, Divided
  <1>4. x = b * (q + p) + r /\ q + p \in Nat
    BY <1>1
  <1> HIDE DEF x, p, r
  <1>5. x % b = r
    BY <1>1, <1>3, <1>4, OneRemainder
  <1>6. QED
    BY <1>5 DEF x, r

LEMMA RemaindersApart ==
  ASSUME NEW a \in Nat, NEW c \in Nat, NEW b \in Nat \ {0}, a < c, c - a < b
  PROVE  a % b # c % b
  <1> SUFFICES ASSUME a % b = c % b PROVE FALSE
    OBVIOUS
  <1> DEFINE p == a \div b
             q == c \div b
             r == a % b
  <1>1. p \in Nat /\ q \in Nat /\ r \in 0 .. b - 1 /\ a = b * p + r /\ c = b * q + r
    BY Divided
  <1> HIDE DEF p, q, r
  <1>2. p < q
    <2>1. p = q => a = c
      BY <1>1
    <2>2. q < p => b * q + b <= b * p
      BY <1>1, Multiples
    <2>3. b * p \in Nat /\ b * q \in Nat
      BY <1>1
    <2>4. QED
      BY <1>1, <2>1, <2>2, <2>3
  <1>3. b * p + b <= b * q
    BY <1>1, <1>2, Multiples
  <1>4. QED
    BY <1>1, <1>3

-----------------------------------------------------------------------------
(* Places and offsets.                                                     *)

LEMMA Constants ==
  /\ RecordsPerType \in Nat \ {0} /\ EntriesPerBlock \in Nat \ {0}
  /\ OffsetLimit \in Nat \ {0} /\ RecordsPerType < OffsetLimit
  BY RecordsAssumption, OffsetAssumption

(* A record of the file system for every remainder, another for another. *)
LEMMA PlacesOfOffsets ==
  ASSUME NEW a \in Nat
  PROVE  /\ Place(a) \in Places
         /\ \A c \in Nat : Place(a) = Place(c) <=> a % RecordsPerType = c % RecordsPerType
  <1> DEFINE R == RecordsPerType
             B == EntriesPerBlock
  <1>1. \A c \in Nat : c % R \in 0 .. R - 1
    BY Constants, Divided
  <1>2. ASSUME NEW i \in 0 .. R - 1
        PROVE  i % B \in 0 .. B - 1 /\ i \div B \in 0 .. (R - 1) \div B
               /\ i = B * (i \div B) + (i % B)
    <2>0. i \in Nat /\ R - 1 \in Nat /\ B \in Nat \ {0}
      BY Constants
    <2>1. i % B \in 0 .. B - 1 /\ i \div B \in Nat /\ i = B * (i \div B) + (i % B)
      BY <2>0, Divided
    <2>2. /\ (R - 1) % B \in 0 .. B - 1 /\ (R - 1) \div B \in Nat
          /\ R - 1 = B * ((R - 1) \div B) + ((R - 1) % B)
      BY <2>0, Divided
    <2> DEFINE p == i \div B
               q == (R - 1) \div B
               r == i % B
               s == (R - 1) % B
    <2>3. /\ p \in Nat /\ q \in Nat /\ r \in 0 .. B - 1 /\ s \in 0 .. B - 1
          /\ i = B * p + r /\ R - 1 = B * q + s /\ i <= R - 1 /\ i \in Nat /\ R - 1 \in Nat
      BY <2>1, <2>2, Constants
    <2> HIDE DEF p, q, r, s, B, R
    <2>4. ~(q < p)
      <3> SUFFICES ASSUME q < p PROVE FALSE
        OBVIOUS
      <3>1. B \in Nat /\ B # 0
        BY Constants DEF B
      <3>2. B * q + B <= B * p /\ B * q \in Nat /\ B * p \in Nat
        BY <2>3, <3>1, Multiples
      <3>3. QED
        BY <2>3, <3>1, <3>2
    <2>5. p \in 0 .. q
      BY <2>3, <2>4
    <2>6. QED
      BY <2>1, <2>5 DEF p, q
  <1>3. a % R \in 0 .. R - 1
    BY <1>1
  <1>4. Place(a) \in Places
    BY <1>2, <1>3 DEF Place, Places, Files
  <1>5. ASSUME NEW c \in Nat, Place(a) = Place(c) PROVE a % R = c % R
    <2>1. c % R \in 0 .. R - 1
      BY <1>1
    <2>2. (a % R) \div B = (c % R) \div B /\ (a % R) % B = (c % R) % B
      BY <1>5 DEF Place
    <2>3. /\ a % R = B * ((a % R) \div B) + ((a % R) % B)
          /\ c % R = B * ((c % R) \div B) + ((c % R) % B)
      BY <1>2, <1>3, <2>1
    <2>4. QED
      BY <2>2, <2>3
  <1>6. \A c \in Nat : a % R = c % R => Place(a) = Place(c)
    BY DEF Place
  <1>7. QED
    BY <1>4, <1>5, <1>6

(* Wrapping around does not change the place. *)
LEMMA PlaceWraps ==
  ASSUME NEW a \in Nat
  PROVE  Place(a + OffsetLimit) = Place(a)
  <1>1. PICK c \in Nat : OffsetLimit = RecordsPerType * c
    <2> DEFINE d == OffsetLimit \div RecordsPerType
    <2>1. d \in Nat /\ OffsetLimit = RecordsPerType * d + (OffsetLimit % RecordsPerType)
      BY Constants, Divided
    <2>2. OffsetLimit % RecordsPerType = 0
      BY OffsetAssumption
    <2> HIDE DEF d
    <2>3. OffsetLimit = RecordsPerType * d
      BY <2>1, <2>2, Constants
    <2>4. QED
      BY <2>1, <2>3
  <1>2. (RecordsPerType * c + a) % RecordsPerType = a % RecordsPerType
    BY Constants, MultipleMore
  <1>3. a + OffsetLimit = RecordsPerType * c + a /\ a + OffsetLimit \in Nat
    BY <1>1, Constants
  <1>4. QED
    BY <1>2, <1>3, PlacesOfOffsets

LEMMA PlacesApart ==
  ASSUME NEW a \in Nat, NEW c \in Nat, a < c, c - a < RecordsPerType
  PROVE  Place(a) # Place(c)
  BY ZenonT(40), RemaindersApart, PlacesOfOffsets, Constants

LEMMA PlaceComesBack ==
  ASSUME NEW a \in Nat
  PROVE  Place(a + RecordsPerType) = Place(a)
  <1>1. (RecordsPerType * 1 + a) % RecordsPerType = a % RecordsPerType
    BY Constants, MultipleMore
  <1>2. a + RecordsPerType = RecordsPerType * 1 + a /\ a + RecordsPerType \in Nat
    BY Constants
  <1>3. QED
    BY <1>1, <1>2, PlacesOfOffsets

LEMMA FollowingOffset ==
  ASSUME NEW o \in Offsets
  PROVE  /\ Following(o) = IF o + 1 = OffsetLimit THEN 0 ELSE o + 1
         /\ Following(o) \in Offsets
  <1>1. (o + 1) % OffsetLimit = IF o + 1 = OffsetLimit THEN 0 ELSE o + 1
    <2>1. CASE o + 1 = OffsetLimit
      <3>1. (OffsetLimit * 1 + 0) % OffsetLimit = 0 % OffsetLimit
        BY Constants, MultipleMore
      <3>2. 0 % OffsetLimit = 0
        BY Constants
      <3>3. QED
        BY <2>1, <3>1, <3>2, Constants
    <2>2. CASE o + 1 # OffsetLimit
      BY <2>2, Constants DEF Offsets
    <2>3. QED
      BY <2>1, <2>2
  <1>2. QED
    BY <1>1, Constants DEF Following, Offsets
-----------------------------------------------------------------------------
(* The number of records.                                                  *)

Count(h) == (h.write + OffsetLimit - h.read) % OffsetLimit

LEMMA Counted ==
  ASSUME NEW h \in Headers
  PROVE  /\ h.read \in Offsets /\ h.write \in Offsets /\ Count(h) \in Offsets
         /\ Count(h) = IF h.read <= h.write THEN h.write - h.read
                                            ELSE h.write + OffsetLimit - h.read
  <1>1. h.read \in Offsets /\ h.write \in Offsets
    BY DEF Headers
  <1> DEFINE M == OffsetLimit
             r == h.read
             w == h.write
  <1>2. CASE r <= w
    <2>1. w - r \in Nat /\ w - r < M /\ w + M - r = M * 1 + (w - r)
      BY <1>1, <1>2, Constants DEF Offsets
    <2>2. (M * 1 + (w - r)) % M = (w - r) % M
      BY <2>1, Constants, MultipleMore
    <2>3. (w - r) % M = w - r
      BY <2>1, Constants
    <2>4. Count(h) = w - r
      BY <2>1, <2>2, <2>3 DEF Count
    <2>5. QED
      BY <1>1, <1>2, <2>1, <2>4, Constants DEF Offsets
  <1>3. CASE ~(r <= w)
    <2>1. w + M - r \in Nat /\ w + M - r < M
      BY <1>1, <1>3, Constants DEF Offsets
    <2>2. Count(h) = w + M - r
      BY <2>1, Constants DEF Count
    <2>3. QED
      BY <1>1, <1>3, <2>1, <2>2, Constants DEF Offsets
  <1>4. QED
    BY <1>2, <1>3

(* The place for the next record is the one behind the last record. *)
LEMMA PlaceBehind ==
  ASSUME NEW h \in Headers
  PROVE  Place(h.read + Count(h)) = Place(h.write)
  <1>1. /\ h.read \in Nat /\ h.write \in Nat /\ Count(h) \in Nat /\ OffsetLimit \in Nat
        /\ Count(h) = IF h.read <= h.write THEN h.write - h.read
                                           ELSE h.write + OffsetLimit - h.read
    BY Counted, Constants DEF Offsets
  <1>2. h.read + Count(h) = h.write \/ h.read + Count(h) = h.write + OffsetLimit
    BY <1>1
  <1>3. QED
    BY <1>1, <1>2, PlaceWraps

LEMMA PlaceFollowing ==
  ASSUME NEW o \in Offsets, NEW k \in Nat
  PROVE  Place(Following(o) + k) = Place(o + 1 + k)
  <1>1. o \in Nat /\ Following(o) = IF o + 1 = OffsetLimit THEN 0 ELSE o + 1
    BY FollowingOffset, Constants DEF Offsets
  <1>2. CASE o + 1 = OffsetLimit
    <2>1. Place(k + OffsetLimit) = Place(k)
      BY PlaceWraps
    <2>2. k + OffsetLimit = o + 1 + k /\ Following(o) + k = k
      BY <1>1, <1>2, Constants
    <2>3. QED
      BY <2>1, <2>2
  <1>3. CASE o + 1 # OffsetLimit
    BY <1>1, <1>3
  <1>4. QED
    BY <1>2, <1>3

(* An offset goes on, or both do. *)
LEMMA CountsGoOn ==
  ASSUME NEW h \in Headers
  PROVE  LET w == [read |-> h.read, write |-> Following(h.write)]
             r == [read |-> Following(h.read), write |-> h.write]
             b == [read |-> Following(h.read), write |-> Following(h.write)]
         IN /\ w \in Headers /\ r \in Headers /\ b \in Headers
            /\ Count(h) + 1 < OffsetLimit => Count(w) = Count(h) + 1
            /\ Count(h) # 0 => Count(r) = Count(h) - 1
            /\ Count(b) = Count(h)
  <1> DEFINE w == [read |-> h.read, write |-> Following(h.write)]
             r == [read |-> Following(h.read), write |-> h.write]
             b == [read |-> Following(h.read), write |-> Following(h.write)]
  <1>1. /\ h.read \in Offsets /\ h.write \in Offsets
        /\ Following(h.read) = IF h.read + 1 = OffsetLimit THEN 0 ELSE h.read + 1
        /\ Following(h.write) = IF h.write + 1 = OffsetLimit THEN 0 ELSE h.write + 1
        /\ Following(h.read) \in Offsets /\ Following(h.write) \in Offsets
    BY Counted, FollowingOffset
  <1>2. w \in Headers /\ r \in Headers /\ b \in Headers
    BY <1>1 DEF Headers
  <1>3. \A g \in Headers : Count(g) = IF g.read <= g.write THEN g.write - g.read
                                       ELSE g.write + OffsetLimit - g.read
    BY Counted
  <1>4. /\ Count(h) = IF h.read <= h.write THEN h.write - h.read
                                           ELSE h.write + OffsetLimit - h.read
        /\ Count(w) = IF h.read <= Following(h.write) THEN Following(h.write) - h.read
                                           ELSE Following(h.write) + OffsetLimit - h.read
        /\ Count(r) = IF Following(h.read) <= h.write THEN h.write - Following(h.read)
                                           ELSE h.write + OffsetLimit - Following(h.read)
        /\ Count(b) = IF Following(h.read) <= Following(h.write)
                      THEN Following(h.write) - Following(h.read)
                      ELSE Following(h.write) + OffsetLimit - Following(h.read)
    BY <1>2, <1>3
  <1> HIDE DEF w, r, b
  <1>5. Count(h) + 1 < OffsetLimit => Count(w) = Count(h) + 1
    BY <1>1, <1>4, Constants DEF Offsets
  <1>6. Count(h) # 0 => Count(r) = Count(h) - 1
    BY <1>1, <1>4, Constants DEF Offsets
  <1>7. Count(b) = Count(h)
    BY <1>1, <1>4, Constants DEF Offsets
  <1>8. QED
    BY <1>2, <1>5, <1>6, <1>7 DEF w, r, b

-----------------------------------------------------------------------------
(* The queue that the files hold.                                          *)

QueueOf(h, d) == [k \in 1 .. Count(h) |-> d[Place(h.read + k - 1)]]

Contents == [Places -> 0 .. MaxStores]

LEMMA QueueOfType ==
  ASSUME NEW h \in Headers, NEW d \in Contents
  PROVE  /\ QueueOf(h, d) \in Seq(0 .. MaxStores) /\ Len(QueueOf(h, d)) = Count(h)
         /\ Count(h) \in Nat
         /\ \A k \in 1 .. Count(h) : /\ QueueOf(h, d)[k] = d[Place(h.read + k - 1)]
                                      /\ h.read + k - 1 \in Nat
  <1>1. Count(h) \in Nat /\ h.read \in Nat
    BY Counted, Constants DEF Offsets
  <1>2. \A k \in 1 .. Count(h) : h.read + k - 1 \in Nat
    BY <1>1
  <1>3. \A k \in 1 .. Count(h) : d[Place(h.read + k - 1)] \in 0 .. MaxStores
    BY <1>2, PlacesOfOffsets DEF Contents
  <1>4. QueueOf(h, d) \in Seq(0 .. MaxStores) /\ Len(QueueOf(h, d)) = Count(h)
    <2> DEFINE N == Count(h)
               S == 0 .. MaxStores
    <2>1. QueueOf(h, d) \in [1 .. N -> S]
      BY <1>3 DEF QueueOf
    <2> HIDE DEF N, S
    <2>2. N \in Nat
      BY <1>1 DEF N
    <2>3. \A f \in [1 .. N -> S] : f \in Seq(S) /\ Len(f) = N
      BY <2>2
    <2>4. QED
      BY <2>1, <2>3 DEF N, S
  <1>5. QED
    BY <1>1, <1>2, <1>4 DEF QueueOf

LEMMA SameSeq ==
  ASSUME NEW S, NEW s \in Seq(S), NEW t \in Seq(S), Len(s) = Len(t),
         \A k \in 1 .. Len(s) : s[k] = t[k]
  PROVE  s = t
  OBVIOUS

(* A record is written behind the last one: nothing changes until the      *)
(* offset does, but in a full queue the oldest record loses its place.     *)
LEMMA WritingTheRecord ==
  ASSUME NEW h \in Headers, NEW d \in Contents, Count(h) <= RecordsPerType,
         NEW x \in 0 .. MaxStores
  PROVE  LET e == [d EXCEPT ![Place(h.write)] = x] IN
           /\ e \in Contents /\ e[Place(h.write)] = x
           /\ Count(h) < RecordsPerType => QueueOf(h, e) = QueueOf(h, d)
           /\ Count(h) = RecordsPerType =>
                QueueOf(h, e) = <<x>> \o Tail(QueueOf(h, d))
  <1> DEFINE e == [d EXCEPT ![Place(h.write)] = x]
             q == QueueOf(h, d)
             p == QueueOf(h, e)
             N == Count(h)
  <1>1. h.write \in Nat /\ h.read \in Nat /\ N \in Nat /\ RecordsPerType \in Nat \ {0}
    BY Counted, Constants DEF Offsets
  <1>2. Place(h.write) \in Places
    BY <1>1, PlacesOfOffsets
  <1>3. e \in Contents /\ e[Place(h.write)] = x
    BY <1>2 DEF Contents
  <1>4. \A y \in Places : y # Place(h.write) => e[y] = d[y]
    BY <1>2 DEF Contents
  <1> HIDE DEF e
  <1>5. Place(h.read + N) = Place(h.write)
    BY PlaceBehind
  <1>6. /\ q \in Seq(0 .. MaxStores) /\ p \in Seq(0 .. MaxStores) /\ Len(q) = N /\ Len(p) = N
        /\ \A k \in 1 .. N : /\ q[k] = d[Place(h.read + k - 1)] /\ p[k] = e[Place(h.read + k - 1)]
                              /\ h.read + k - 1 \in Nat
    BY <1>3, QueueOfType
  <1>7. ASSUME NEW k \in 1 .. N, k > 1 \/ N < RecordsPerType PROVE p[k] = q[k]
    <2>1. /\ h.read + k - 1 \in Nat /\ h.read + N \in Nat /\ h.read + k - 1 < h.read + N
          /\ (h.read + N) - (h.read + k - 1) < RecordsPerType
      BY <1>1, <1>7
    <2>2. Place(h.read + k - 1) # Place(h.write)
      BY <2>1, <1>5, PlacesApart
    <2>3. Place(h.read + k - 1) \in Places
      BY <2>1, PlacesOfOffsets
    <2>4. QED
      BY <1>4, <1>6, <2>2, <2>3
  <1>8. N < RecordsPerType => p = q
    <2> HIDE DEF p, q, N
    <2>1. QED
      BY <1>6, <1>7, SameSeq
  <1>9. ASSUME N = RecordsPerType PROVE p = <<x>> \o Tail(q)
    <2>1. p[1] = x
      <3>1. Place(h.read + RecordsPerType) = Place(h.read)
        BY <1>1, PlaceComesBack
      <3>2. h.read + 1 - 1 = h.read /\ 1 \in 1 .. N
        BY <1>1, <1>9
      <3>3. p[1] = e[Place(h.read)]
        BY <1>6, <3>2
      <3>4. QED
        BY <1>3, <1>5, <1>9, <3>1, <3>3
    <2> HIDE DEF p, q, N
    <2>2. N # 0 /\ q # <<>>
      BY <1>1, <1>6, <1>9
    <2>3. /\ <<x>> \o Tail(q) \in Seq(0 .. MaxStores) /\ Len(<<x>> \o Tail(q)) = N
          /\ (<<x>> \o Tail(q))[1] = x
          /\ \A k \in 2 .. N : (<<x>> \o Tail(q))[k] = q[k]
      BY <1>1, <1>6, <2>2
    <2>4. \A k \in 1 .. N : p[k] = (<<x>> \o Tail(q))[k]
      BY <1>1, <1>7, <2>1, <2>3
    <2>5. QED
      BY <1>6, <2>3, <2>4, SameSeq
  <1>10. QED
    BY <1>3, <1>8, <1>9 DEF e
(* The offset of the next record goes on, in a full queue both do. *)
LEMMA WritingTheOffset ==
  ASSUME NEW h \in Headers, NEW d \in Contents, Count(h) <= RecordsPerType
  PROVE  LET q == QueueOf(h, d)
             x == d[Place(h.write)]
             w == [read |-> h.read, write |-> Following(h.write)]
             b == [read |-> Following(h.read), write |-> Following(h.write)]
         IN /\ Count(h) < RecordsPerType => Len(q) < RecordsPerType /\ QueueOf(w, d) = Append(q, x)
            /\ Count(h) = RecordsPerType =>
                 /\ Len(q) = RecordsPerType /\ q # <<>> /\ x = q[1]
                 /\ QueueOf(b, d) = Append(Tail(q), x)
  <1> DEFINE N == Count(h)
             q == QueueOf(h, d)
             x == d[Place(h.write)]
             w == [read |-> h.read, write |-> Following(h.write)]
             b == [read |-> Following(h.read), write |-> Following(h.write)]
             S == 0 .. MaxStores
  <1>1. /\ h.write \in Nat /\ h.read \in Nat /\ h.read \in Offsets /\ N \in Nat
        /\ RecordsPerType \in Nat \ {0} /\ OffsetLimit \in Nat /\ RecordsPerType < OffsetLimit
    BY Counted, Constants DEF Offsets
  <1>2. x \in S
    BY <1>1, PlacesOfOffsets DEF Contents
  <1>3. Place(h.read + N) = Place(h.write)
    BY PlaceBehind
  <1>4. /\ q \in Seq(S) /\ Len(q) = N
        /\ \A k \in 1 .. N : q[k] = d[Place(h.read + k - 1)]
    BY QueueOfType
  <1>5. ASSUME N < RecordsPerType PROVE QueueOf(w, d) = Append(q, x)
    <2> DEFINE p == QueueOf(w, d)
    <2>1. w \in Headers /\ Count(w) = N + 1
      <3>1. N + 1 < OffsetLimit
        BY <1>1, <1>5
      <3>2. QED
        BY <3>1, CountsGoOn
    <2>2. /\ p \in Seq(S) /\ Len(p) = N + 1
          /\ \A k \in 1 .. N + 1 : p[k] = d[Place(h.read + k - 1)]
      <3>1. /\ p \in Seq(S) /\ Len(p) = Count(w)
            /\ \A k \in 1 .. Count(w) : p[k] = d[Place(w.read + k - 1)]
        BY <2>1, QueueOfType
      <3>2. w.read = h.read
        OBVIOUS
      <3>3. QED
        BY <2>1, <3>1, <3>2
    <2>3. p[N + 1] = x
      <3>1. h.read + (N + 1) - 1 = h.read + N /\ N + 1 \in 1 .. N + 1
        BY <1>1
      <3>2. QED
        BY <1>3, <2>2, <3>1
    <2>4. \A k \in 1 .. N : p[k] = q[k]
      <3> HIDE DEF p, q, N
      <3>1. \A k \in 1 .. N : k \in 1 .. N + 1
        BY <1>1
      <3>2. QED
        BY <1>4, <2>2, <3>1
    <2> HIDE DEF p, q, N, x, w, S
    <2>5. /\ Append(q, x) \in Seq(S) /\ Len(Append(q, x)) = N + 1
          /\ Append(q, x)[N + 1] = x /\ \A k \in 1 .. N : Append(q, x)[k] = q[k]
      BY <1>1, <1>2, <1>4
    <2>6. \A k \in 1 .. N + 1 : p[k] = Append(q, x)[k]
      BY <1>1, <2>3, <2>4, <2>5
    <2>7. p = Append(q, x)
      BY <2>2, <2>5, <2>6, SameSeq
    <2>8. QED
      BY <2>7 DEF p
  <1>6. ASSUME N = RecordsPerType
        PROVE  q # <<>> /\ x = q[1] /\ QueueOf(b, d) = Append(Tail(q), x)
    <2> DEFINE p == QueueOf(b, d)
    <2>1. b \in Headers /\ Count(b) = N
      BY CountsGoOn
    <2>2. /\ p \in Seq(S) /\ Len(p) = N
          /\ \A k \in 1 .. N : p[k] = d[Place(b.read + k - 1)]
      BY <2>1, QueueOfType
    <2>3. \A k \in 1 .. N : b.read + k - 1 = Following(h.read) + (k - 1) /\ k - 1 \in Nat
      <3>1. b.read = Following(h.read) /\ Following(h.read) \in Nat
        BY <1>1, FollowingOffset DEF Offsets
      <3>2. QED
        BY <1>1, <3>1
    <2>4. \A k \in 1 .. N : p[k] = d[Place(h.read + k)]
      <3> SUFFICES ASSUME NEW k \in 1 .. N PROVE p[k] = d[Place(h.read + k)]
        OBVIOUS
      <3>1. Place(Following(h.read) + (k - 1)) = Place(h.read + 1 + (k - 1))
        BY <1>1, <2>3, PlaceFollowing
      <3>2. h.read + 1 + (k - 1) = h.read + k
        BY <1>1
      <3>3. QED
        BY <2>2, <2>3, <3>1, <3>2
    <2>5. p[N] = x
      BY <1>1, <1>3, <1>6, <2>4
    <2>6. \A k \in 1 .. N - 1 : p[k] = q[k + 1]
      <3> SUFFICES ASSUME NEW k \in 1 .. N - 1 PROVE p[k] = q[k + 1]
        OBVIOUS
      <3>1. k \in 1 .. N /\ k + 1 \in 1 .. N /\ h.read + (k + 1) - 1 = h.read + k
        BY <1>1
      <3>2. QED
        BY <1>4, <2>4, <3>1
    <2>7. x = q[1]
      <3>1. Place(h.read + RecordsPerType) = Place(h.read)
        BY <1>1, PlaceComesBack
      <3>2. h.read + 1 - 1 = h.read /\ 1 \in 1 .. N
        BY <1>1, <1>6
      <3>3. q[1] = d[Place(h.read)]
        BY <1>4, <3>2
      <3>4. QED
        BY <1>3, <1>6, <3>1, <3>3
    <2> HIDE DEF p, q, N, x, b, S
    <2>8. N # 0 /\ q # <<>>
      BY <1>1, <1>4, <1>6
    <2>9. /\ Tail(q) \in Seq(S) /\ Len(Tail(q)) = N - 1
          /\ \A k \in 1 .. N - 1 : Tail(q)[k] = q[k + 1]
      BY <1>1, <1>4, <2>8
    <2> DEFINE t == Append(Tail(q), x)
    <2>10. /\ t \in Seq(S) /\ Len(t) = N
           /\ t[N] = x /\ \A k \in 1 .. N - 1 : t[k] = Tail(q)[k]
      BY <1>1, <1>2, <2>8, <2>9
    <2> HIDE DEF t
    <2>11. \A k \in 1 .. N : p[k] = t[k]
      BY <1>1, <2>5, <2>6, <2>8, <2>9, <2>10
    <2>12. p = t
      BY <2>2, <2>10, <2>11, SameSeq
    <2>13. QED
      BY <2>7, <2>8, <2>12 DEF p, t
  <1>7. QED
    BY <1>4, <1>5, <1>6

(* The offset of the oldest record goes on. *)
LEMMA ReadingOn ==
  ASSUME NEW h \in Headers, NEW d \in Contents, Count(h) # 0
  PROVE  LET q == QueueOf(h, d)
             r == [read |-> Following(h.read), write |-> h.write]
         IN q # <<>> /\ q[1] = d[Place(h.read)] /\ QueueOf(r, d) = Tail(q)
  <1> DEFINE N == Count(h)
             q == QueueOf(h, d)
             r == [read |-> Following(h.read), write |-> h.write]
             p == QueueOf(r, d)
             S == 0 .. MaxStores
  <1>1. h.read \in Nat /\ h.read \in Offsets /\ N \in Nat \ {0}
    BY Counted, Constants DEF Offsets
  <1>2. /\ q \in Seq(S) /\ Len(q) = N
        /\ \A k \in 1 .. N : q[k] = d[Place(h.read + k - 1)]
    BY QueueOfType
  <1>3. r \in Headers /\ Count(r) = N - 1
    BY <1>1, CountsGoOn
  <1>4. /\ p \in Seq(S) /\ Len(p) = N - 1
        /\ \A k \in 1 .. N - 1 : p[k] = d[Place(r.read + k - 1)]
    BY <1>3, QueueOfType
  <1>5. \A k \in 1 .. N - 1 : p[k] = q[k + 1]
    <2> SUFFICES ASSUME NEW k \in 1 .. N - 1 PROVE p[k] = q[k + 1]
      OBVIOUS
    <2>1. r.read = Following(h.read) /\ Following(h.read) \in Nat
      BY <1>1, FollowingOffset DEF Offsets
    <2>2. r.read + k - 1 = Following(h.read) + (k - 1) /\ k - 1 \in Nat
      BY <1>1, <2>1
    <2>3. Place(Following(h.read) + (k - 1)) = Place(h.read + 1 + (k - 1))
      BY <1>1, <2>2, PlaceFollowing
    <2>4. /\ h.read + 1 + (k - 1) = h.read + (k + 1) - 1 /\ k + 1 \in 1 .. N
      BY <1>1
    <2>5. QED
      BY <1>2, <1>4, <2>2, <2>3, <2>4
  <1>6. q[1] = d[Place(h.read)]
    <2>1. h.read + 1 - 1 = h.read /\ 1 \in 1 .. N
      BY <1>1
    <2>2. QED
      BY <1>2, <2>1
  <1> HIDE DEF p, q, N, r, S
  <1>7. q # <<>>
    BY <1>1, <1>2
  <1>8. /\ Tail(q) \in Seq(S) /\ Len(Tail(q)) = N - 1
        /\ \A k \in 1 .. N - 1 : Tail(q)[k] = q[k + 1]
    BY <1>1, <1>2, <1>7
  <1>9. p = Tail(q)
    BY <1>4, <1>5, <1>8, SameSeq
  <1>10. QED
    BY <1>6, <1>7, <1>9 DEF p, q, r
-----------------------------------------------------------------------------
(* The files between two steps.  Without a header file that was written    *)
(* the offsets are those of a new one; they are a queue apart unless they  *)
(* are garbage; a store that has come to the offsets has written its       *)
(* record, and a retrieve that has come to them has found one.             *)

LfsTypes ==
  /\ file \in {"absent", "empty", "written"}
  /\ header \in Headers
  /\ data \in Contents
  /\ call \in {"init", "create", "none", "store", "retrieve", "clear"}
  /\ stores \in 0 .. MaxStores
  /\ garbage \in BOOLEAN

NewWithoutFile ==
  /\ file # "written" => header = NewHeader /\ ~garbage /\ call \notin {"store", "retrieve"}
  /\ call = "create" => file = "empty"

OffsetsBounded == ~garbage => Count(header) <= RecordsPerType

CallsAdvance ==
  /\ call = "store" => data[Place(header.write)] \in Names
  /\ call = "retrieve" => Count(header) # 0

LfsInv == LfsTypes /\ NewWithoutFile /\ OffsetsBounded /\ CallsAdvance

LEMMA Counts == RecordsCount = Count(header)
  BY DEF RecordsCount, Count

LEMMA QueueIs ==
  /\ Queue = IF file = "written" /\ ~garbage THEN QueueOf(header, data) ELSE <<>>
  /\ Queue' = IF file' = "written" /\ ~garbage' THEN QueueOf(header', data') ELSE <<>>
  BY DEF Queue, QueueOf, RecordsCount, Count

LEMMA EmptyQueue ==
  /\ NewHeader \in Headers /\ Count(NewHeader) = 0
  /\ \A h \in Headers, d \in Contents : Count(h) = 0 => QueueOf(h, d) = <<>>
  <1>1. NewHeader \in Headers
    BY Constants DEF NewHeader, Headers, Offsets
  <1>2. Count(NewHeader) = 0
    BY <1>1, Counted DEF NewHeader
  <1>3. \A h \in Headers, d \in Contents : Count(h) = 0 => QueueOf(h, d) = <<>>
    BY QueueOfType
  <1>4. QED
    BY <1>1, <1>2, <1>3

(* The steps that matter, by what they do to the header and to the data.   *)
LEMMA WriteStep ==
  ASSUME LfsInv, call = "none", file = "written", stores < MaxStores,
         data' = [data EXCEPT ![Place(header.write)] = stores + 1]
  PROVE  data' \in Contents /\ data'[Place(header.write)] \in Names
  <1>1. stores + 1 \in 0 .. MaxStores /\ stores + 1 \in Names
    BY LfsBoundsAssumption DEF LfsInv, LfsTypes, Names
  <1>2. Place(header.write) \in Places
    BY Counted, PlacesOfOffsets, Constants DEF LfsInv, LfsTypes, Offsets
  <1>3. QED
    BY <1>1, <1>2 DEF LfsInv, LfsTypes, Contents

LEMMA HeaderSteps ==
  ASSUME LfsInv
  PROVE  /\ Written \in Headers /\ (~garbage => Count(Written) <= RecordsPerType)
         /\ Written = [read |-> IF Count(header) >= RecordsPerType THEN Following(header.read)
                                                                  ELSE header.read,
                       write |-> Following(header.write)]
         /\ [header EXCEPT !.read = Following(@)] =
              [read |-> Following(header.read), write |-> header.write]
         /\ [header EXCEPT !.read = Following(@)] \in Headers
         /\ ~garbage /\ Count(header) # 0 =>
              Count([header EXCEPT !.read = Following(@)]) <= RecordsPerType
  <1>1. header \in Headers /\ header = [read |-> header.read, write |-> header.write]
    BY DEF LfsInv, LfsTypes, Headers
  <1>2. Written = [read |-> IF Count(header) >= RecordsPerType THEN Following(header.read)
                                                              ELSE header.read,
                   write |-> Following(header.write)]
    BY Counts DEF Written
  <1>3. [header EXCEPT !.read = Following(@)] =
          [read |-> Following(header.read), write |-> header.write]
    BY <1>1
  <1>4. Count(header) \in Nat
    BY <1>1, Counted, Constants DEF Offsets
  <1>5. Written \in Headers /\ (~garbage => Count(Written) <= RecordsPerType)
    <2>1. CASE Count(header) >= RecordsPerType
      BY <1>1, <1>2, <1>4, <2>1, CountsGoOn DEF LfsInv, OffsetsBounded
    <2>2. CASE ~(Count(header) >= RecordsPerType)
      <3>1. /\ Count(header) + 1 < OffsetLimit /\ Count(header) + 1 <= RecordsPerType
        BY <1>4, <2>2, Constants
      <3>2. QED
        BY <1>1, <1>2, <2>2, <3>1, CountsGoOn
    <2>3. QED
      BY <2>1, <2>2
  <1>6. /\ [header EXCEPT !.read = Following(@)] \in Headers
        /\ ~garbage /\ Count(header) # 0 =>
             Count([header EXCEPT !.read = Following(@)]) <= RecordsPerType
    <2>1. /\ [read |-> Following(header.read), write |-> header.write] \in Headers
          /\ Count(header) # 0 =>
               Count([read |-> Following(header.read), write |-> header.write]) = Count(header) - 1
      BY <1>1, CountsGoOn
    <2>2. QED
      BY <1>3, <1>4, <2>1, Constants DEF LfsInv, OffsetsBounded
  <1>7. QED
    BY <1>2, <1>3, <1>5, <1>6

LEMMA LfsInvHolds == LfsSpec => []LfsInv
  <1>1. LfsInit => LfsInv
    <2> SUFFICES ASSUME LfsInit PROVE LfsInv
      OBVIOUS
    <2>1. LfsTypes
      <3>1. 0 \in 0 .. MaxStores
        BY LfsBoundsAssumption
      <3>2. data \in Contents
        BY <3>1 DEF LfsInit, Contents
      <3>3. header \in Headers
        BY EmptyQueue DEF LfsInit
      <3>4. QED
        BY <3>1, <3>2, <3>3 DEF LfsInit, LfsTypes
    <2>2. OffsetsBounded
      BY EmptyQueue, Constants DEF LfsInit, OffsetsBounded
    <2>3. QED
      BY <2>1, <2>2 DEF LfsInit, LfsInv, NewWithoutFile, CallsAdvance
  <1>2. LfsInv /\ [LfsNext]_lfsVars => LfsInv'
    <2> SUFFICES ASSUME LfsInv, [LfsNext]_lfsVars PROVE LfsInv'
      OBVIOUS
    <2> USE DEF LfsInv
    <2>1. CASE HeaderExists \/ CreateHeader \/ WriteFirstHeader
      BY <2>1 DEF HeaderExists, CreateHeader, WriteFirstHeader, LfsTypes, NewWithoutFile,
                  OffsetsBounded, CallsAdvance
    <2>2. CASE UseEmptyHeader
      BY <2>2 DEF UseEmptyHeader, LfsTypes, NewWithoutFile, OffsetsBounded, CallsAdvance
    <2>3. CASE StoreData
      <3>1. data' \in Contents /\ data'[Place(header.write)] \in Names
        BY <2>3, WriteStep DEF StoreData
      <3>2. stores' \in 0 .. MaxStores
        BY <2>3, LfsBoundsAssumption DEF StoreData, LfsTypes
      <3>3. QED
        BY <2>3, <3>1, <3>2 DEF StoreData, LfsTypes, NewWithoutFile, OffsetsBounded, CallsAdvance
    <2>4. CASE StoreDataFails
      <3>1. data' \in Contents
        BY <2>4, WriteStep DEF StoreDataFails, LfsTypes
      <3>2. stores' \in 0 .. MaxStores
        BY <2>4, LfsBoundsAssumption DEF StoreDataFails, LfsTypes
      <3>3. QED
        BY <2>4, <3>1, <3>2
           DEF StoreDataFails, LfsTypes, NewWithoutFile, OffsetsBounded, CallsAdvance
    <2>5. CASE StoreHeader \/ StoreHeaderFails
      <3>1. header' \in {header, Written} /\ call = "store" /\ call' = "none"
            /\ UNCHANGED <<file, data, stores, resets, garbage>>
        BY <2>5 DEF StoreHeader, StoreHeaderFails
      <3>2. header' \in Headers /\ (~garbage => Count(header') <= RecordsPerType)
        BY <3>1, HeaderSteps DEF LfsTypes, OffsetsBounded
      <3>3. QED
        BY <3>1, <3>2 DEF LfsTypes, NewWithoutFile, OffsetsBounded, CallsAdvance
    <2>6. CASE RetrieveData
      BY <2>6, Counts DEF RetrieveData, Readable, LfsTypes, NewWithoutFile, OffsetsBounded,
                          CallsAdvance
    <2>7. CASE RetrieveHeader \/ RetrieveHeaderFails
      <3>1. header' \in {header, [header EXCEPT !.read = Following(@)]}
            /\ call = "retrieve" /\ call' = "none"
            /\ UNCHANGED <<file, data, stores, resets, garbage>>
        BY <2>7 DEF RetrieveHeader, RetrieveHeaderFails
      <3>2. header' \in Headers /\ (~garbage => Count(header') <= RecordsPerType)
        BY <3>1, HeaderSteps DEF LfsTypes, OffsetsBounded, CallsAdvance
      <3>3. QED
        BY <3>1, <3>2 DEF LfsTypes, NewWithoutFile, OffsetsBounded, CallsAdvance
    <2>8. CASE BeginClear \/ ClearFilesDone \/ ClearFails \/ NoHeader \/ Reset
      BY <2>8 DEF BeginClear, ClearFilesDone, ClearFails, NoHeader, Reset, LfsTypes,
                  NewWithoutFile, OffsetsBounded, CallsAdvance
    <2>9. CASE UnlinkHeader
      <3>1. header' \in Headers /\ Count(header') <= RecordsPerType
        BY <2>9, EmptyQueue, Constants DEF UnlinkHeader
      <3>2. QED
        BY <2>9, <3>1 DEF UnlinkHeader, LfsTypes, NewWithoutFile, OffsetsBounded, CallsAdvance
    <2>10. CASE UnlinkFile
      <3>1. data' \in Contents
        BY <2>10, LfsBoundsAssumption DEF UnlinkFile, LfsTypes, Contents
      <3>2. QED
        BY <2>10, <3>1 DEF UnlinkFile, LfsTypes, NewWithoutFile, OffsetsBounded, CallsAdvance
    <2>11. CASE UNCHANGED lfsVars
      BY <2>11 DEF lfsVars, LfsTypes, NewWithoutFile, OffsetsBounded, CallsAdvance
    <2>12. QED
      BY <2>1, <2>2, <2>3, <2>4, <2>5, <2>6, <2>7, <2>8, <2>9, <2>10, <2>11 DEF LfsNext
  <1>3. QED
    BY <1>1, <1>2, PTL DEF LfsSpec
-----------------------------------------------------------------------------
(* What the steps do to the queue: nothing, except for these.              *)

Clears == UnlinkHeader /\ Queue' = <<>>

Stores ==
  /\ StoreHeader \/ StoreHeaderFails
  /\ \E x \in Names : IF Len(Queue) < RecordsPerType
                      THEN Queue' = Append(Queue, x)
                      ELSE /\ Len(Queue) = RecordsPerType /\ Queue # <<>> /\ x = Queue[1]
                           /\ Queue' = Append(Tail(Queue), x)

StoresHalf ==
  /\ StoreData \/ StoreDataFails
  /\ Len(Queue) = RecordsPerType /\ RecordsCount = RecordsPerType /\ Queue # <<>>
  /\ Queue[1] = Oldest
  /\ \E x \in Names : Queue' = <<x>> \o Tail(Queue)

Retrieves ==
  /\ RetrieveHeader \/ RetrieveHeaderFails
  /\ Queue # <<>> /\ Queue[1] = Oldest /\ Queue' = Tail(Queue)

LEMMA QueueFirst ==
  ASSUME LfsInv, file = "written", ~garbage, Count(header) # 0
  PROVE  Queue # <<>> /\ Queue[1] = Oldest
  BY ReadingOn, QueueIs DEF LfsInv, LfsTypes, Oldest

LEMMA QueueLength ==
  ASSUME LfsInv, file = "written", ~garbage
  PROVE  /\ Queue = QueueOf(header, data) /\ Queue \in Seq(0 .. MaxStores)
         /\ Len(Queue) = Count(header) /\ Count(header) <= RecordsPerType
         /\ RecordsCount = Count(header) /\ Count(header) \in Nat
  BY QueueOfType, QueueIs, Counts DEF LfsInv, LfsTypes, OffsetsBounded

LEMMA QueueSteps ==
  ASSUME LfsInv, LfsInv', [LfsNext]_lfsVars
  PROVE  UNCHANGED Queue \/ Clears \/ Stores \/ StoresHalf \/ Retrieves
  <1> header \in Headers /\ data \in Contents
    BY DEF LfsInv, LfsTypes
  <1>1. ASSUME UNCHANGED <<file, header, data, garbage>> PROVE UNCHANGED Queue
    BY <1>1, QueueIs
  <1>2. ASSUME file # "written" \/ garbage, file' # "written" \/ garbage' PROVE UNCHANGED Queue
    BY <1>2, QueueIs
  <1>3. CASE HeaderExists \/ RetrieveData \/ BeginClear \/ ClearFilesDone \/ ClearFails
             \/ NoHeader \/ Reset \/ UNCHANGED lfsVars
    BY <1>1, <1>3 DEF HeaderExists, RetrieveData, BeginClear, ClearFilesDone, ClearFails,
                      NoHeader, Reset, lfsVars
  <1>4. CASE CreateHeader
    BY <1>2, <1>4 DEF CreateHeader
  <1>5. CASE WriteFirstHeader
    <2>1. file = "empty" /\ header = NewHeader /\ header' = NewHeader /\ data' = data
      BY <1>5 DEF WriteFirstHeader, LfsInv, NewWithoutFile
    <2>2. Queue = <<>> /\ Queue' = <<>>
      BY <2>1, QueueIs, EmptyQueue
    <2>3. QED
      BY <2>2
  <1>6. CASE UseEmptyHeader
    BY <1>2, <1>6 DEF UseEmptyHeader
  <1>7. CASE StoreData \/ StoreDataFails
    <2>1. CASE data' = data
      BY <1>1, <1>7, <2>1 DEF StoreData, StoreDataFails
    <2>2. CASE garbage
      BY <1>2, <1>7, <2>2 DEF StoreData, StoreDataFails
    <2>3. CASE ~garbage /\ data' = [data EXCEPT ![Place(header.write)] = stores + 1]
      <3>1. /\ call = "none" /\ file = "written" /\ stores < MaxStores
            /\ UNCHANGED <<file, header, garbage>>
        BY <1>7 DEF StoreData, StoreDataFails
      <3>2. stores + 1 \in Names /\ stores + 1 \in 0 .. MaxStores
        BY <3>1, LfsBoundsAssumption DEF LfsInv, LfsTypes, Names
      <3>3. /\ Queue = QueueOf(header, data) /\ Len(Queue) = Count(header)
            /\ Count(header) <= RecordsPerType /\ RecordsCount = Count(header)
            /\ Count(header) \in Nat
        BY <2>3, <3>1, QueueLength
      <3>4. Queue' = QueueOf(header, data')
        BY <2>3, <3>1, QueueIs
      <3>5. CASE Count(header) < RecordsPerType
        BY <2>3, <3>2, <3>3, <3>4, <3>5, WritingTheRecord
      <3>6. CASE Count(header) = RecordsPerType
        <4>1. Queue' = <<stores + 1>> \o Tail(Queue)
          BY <2>3, <3>2, <3>3, <3>4, <3>6, WritingTheRecord
        <4>2. Queue # <<>> /\ Queue[1] = Oldest
          BY <2>3, <3>1, <3>6, QueueFirst, Constants
        <4>3. QED
          BY <1>7, <3>2, <3>3, <3>6, <4>1, <4>2 DEF StoresHalf
      <3>7. QED
        BY <3>3, <3>5, <3>6, Constants
    <2>4. QED
      BY <1>7, <2>1, <2>2, <2>3 DEF StoreData, StoreDataFails
  <1>8. CASE StoreHeader \/ StoreHeaderFails
    <2>1. /\ call = "store" /\ header' \in {header, Written} /\ file = "written"
          /\ UNCHANGED <<file, data, garbage>>
      BY <1>8 DEF StoreHeader, StoreHeaderFails, LfsInv, LfsTypes, NewWithoutFile
    <2>2. CASE header' = header
      BY <1>1, <2>1, <2>2
    <2>3. CASE garbage
      BY <1>2, <2>1, <2>3
    <2>4. CASE ~garbage /\ header' = Written
      <3> DEFINE x == data[Place(header.write)]
      <3>1. x \in Names
        BY <2>1 DEF LfsInv, CallsAdvance
      <3>2. /\ Queue = QueueOf(header, data) /\ Len(Queue) = Count(header)
            /\ Count(header) <= RecordsPerType /\ Count(header) \in Nat
        BY <2>1, <2>4, QueueLength
      <3>3. Queue' = QueueOf(Written, data)
        BY <2>1, <2>4, QueueIs
      <3>4. Written = [read |-> IF Count(header) >= RecordsPerType THEN Following(header.read)
                                                                  ELSE header.read,
                       write |-> Following(header.write)]
        BY HeaderSteps
      <3>5. CASE Count(header) < RecordsPerType
        <4>1. Written = [read |-> header.read, write |-> Following(header.write)]
          BY <3>2, <3>4, <3>5, Constants
        <4>2. Queue' = Append(Queue, x) /\ Len(Queue) < RecordsPerType
          BY <3>2, <3>3, <3>5, <4>1, WritingTheOffset
        <4>3. QED
          BY <1>8, <3>1, <4>2 DEF Stores
      <3>6. CASE Count(header) = RecordsPerType
        <4>1. Written = [read |-> Following(header.read), write |-> Following(header.write)]
          BY <3>2, <3>4, <3>6, Constants
        <4>2. /\ Queue' = Append(Tail(Queue), x) /\ Len(Queue) = RecordsPerType
              /\ Queue # <<>> /\ x = Queue[1]
          BY <3>2, <3>3, <3>6, <4>1, WritingTheOffset
        <4>3. ~(Len(Queue) < RecordsPerType)
          BY <4>2, Constants
        <4> HIDE DEF x
        <4>4. QED
          BY <1>8, <3>1, <4>2, <4>3 DEF Stores
      <3>7. QED
        BY <3>2, <3>5, <3>6, Constants
    <2>5. QED
      BY <2>1, <2>2, <2>3, <2>4
  <1>9. CASE RetrieveHeader \/ RetrieveHeaderFails
    <2>1. /\ call = "retrieve" /\ file = "written" /\ UNCHANGED <<file, data, garbage>>
          /\ header' \in {header, [header EXCEPT !.read = Following(@)]}
      BY <1>9 DEF RetrieveHeader, RetrieveHeaderFails, LfsInv, LfsTypes, NewWithoutFile
    <2>2. CASE header' = header
      BY <1>1, <2>1, <2>2
    <2>3. CASE garbage
      BY <1>2, <2>1, <2>3
    <2>4. CASE ~garbage /\ header' = [header EXCEPT !.read = Following(@)]
      <3>1. Count(header) # 0
        BY <2>1 DEF LfsInv, CallsAdvance
      <3>2. header' = [read |-> Following(header.read), write |-> header.write]
        BY <2>4, HeaderSteps
      <3>3. Queue = QueueOf(header, data) /\ Queue' = QueueOf(header', data)
        BY <2>1, <2>4, QueueIs
      <3>4. Queue # <<>> /\ Queue[1] = Oldest
        BY <2>1, <2>4, <3>1, QueueFirst
      <3>5. Queue' = Tail(Queue)
        BY <3>1, <3>2, <3>3, ReadingOn
      <3>6. QED
        BY <1>9, <3>4, <3>5 DEF Retrieves
    <2>5. QED
      BY <2>1, <2>2, <2>3, <2>4
  <1>10. CASE UnlinkHeader
    <2>1. Queue' = <<>>
      BY <1>10, QueueIs DEF UnlinkHeader
    <2>2. QED
      BY <1>10, <2>1 DEF Clears
  <1>11. CASE UnlinkFile
    BY <1>2, <1>11 DEF UnlinkFile
  <1>12. QED
    BY <1>3, <1>4, <1>5, <1>6, <1>7, <1>8, <1>9, <1>10, <1>11 DEF LfsNext

-----------------------------------------------------------------------------
LEMMA OneType == \A q, x : [<<q>> EXCEPT ![1] = x] = <<x>> /\ <<q>>[1] = q
  OBVIOUS

(* The files keep to what a backend promises, whatever fails and whenever  *)
(* the device is reset: a bounded queue that drops its oldest record when  *)
(* it is full, with offsets that wrap around.                              *)
THEOREM FilesAlwaysFifo == LfsSpec => FilesAreFifo
<1>1. LfsInit => Fifo!FifoInit
  <2> SUFFICES ASSUME LfsInit PROVE Fifo!FifoInit
    OBVIOUS
  <2>1. Queue = <<>>
    BY DEF LfsInit, Queue
  <2>2. <<Queue>> = [t \in {1} |-> <<>>]
    BY <2>1
  <2>3. QED
    BY <2>2 DEF Fifo!FifoInit
<1>2. LfsInv /\ LfsInv' /\ [LfsNext]_lfsVars =>
        [Fifo!FifoNext \/ \E t \in {1}, x \in Names : Fifo!StoreHalf(t, x)]_(<<Queue>>)
  <2> SUFFICES ASSUME LfsInv, LfsInv', [LfsNext]_lfsVars
               PROVE  \/ Fifo!FifoNext
                      \/ \E t \in {1}, x \in Names : Fifo!StoreHalf(t, x)
                      \/ UNCHANGED <<Queue>>
    OBVIOUS
  <2>1. CASE UNCHANGED Queue
    BY <2>1
  <2>2. CASE Clears
    <3>1. <<Queue'>> = [t \in {1} |-> <<>>]
      BY <2>2 DEF Clears
    <3>2. QED
      BY <3>1 DEF Fifo!FifoNext, Fifo!Clear
  <2>3. CASE Retrieves
    <3>1. Queue # <<>> /\ Queue' = Tail(Queue)
      BY <2>3 DEF Retrieves
    <3>2. Fifo!Retrieve(1)
      BY <3>1, OneType DEF Fifo!Retrieve
    <3>3. QED
      BY <3>2 DEF Fifo!FifoNext
  <2>4. CASE Stores
    <3>1. PICK x \in Names :
            Queue' = Append(IF Len(Queue) < RecordsPerType THEN Queue ELSE Tail(Queue), x)
      BY <2>4 DEF Stores
    <3>2. Fifo!Store(1, x)
      BY <3>1, OneType DEF Fifo!Store
    <3>3. QED
      BY <3>2 DEF Fifo!FifoNext
  <2>5. CASE StoresHalf
    <3>1. PICK x \in Names : Len(Queue) = RecordsPerType /\ Queue' = <<x>> \o Tail(Queue)
      BY <2>5 DEF StoresHalf
    <3>2. Fifo!StoreHalf(1, x)
      BY <3>1, OneType DEF Fifo!StoreHalf
    <3>3. QED
      BY <3>2
  <2>6. QED
    BY <2>1, <2>2, <2>3, <2>4, <2>5, QueueSteps
<1>3. QED
  BY <1>1, <1>2, LfsInvHolds, PTL DEF LfsSpec, FilesAreFifo, Fifo!PersistentSpec

(* A record leaves the files by being retrieved, as the oldest of a full   *)
(* backend, or by a clear, and never by a reset or a failed call.          *)
THEOREM RecordsAlwaysStay == LfsSpec => RecordsStay
<1>1. LfsInv /\ LfsInv' /\ [LfsNext]_lfsVars =>
        [\A n \in Names :
           Kept(n) /\ ~Kept(n)' =>
              \/ n = Oldest /\ (RetrieveHeader \/ RetrieveHeaderFails)
              \/ n = Oldest /\ RecordsCount = RecordsPerType /\ (StoreData \/ StoreDataFails)
              \/ UnlinkHeader]_lfsVars
  <2> SUFFICES ASSUME LfsInv, LfsInv', [LfsNext]_lfsVars, NEW n \in Names, Kept(n), ~Kept(n)'
               PROVE  \/ n = Oldest /\ (RetrieveHeader \/ RetrieveHeaderFails)
                      \/ /\ n = Oldest /\ RecordsCount = RecordsPerType
                         /\ (StoreData \/ StoreDataFails)
                      \/ UnlinkHeader
    OBVIOUS
  <2>1. Has(Queue, {n}) /\ ~Has(Queue', {n})
    BY DEF Kept, Has
  <2>2. Queue # <<>>
    BY <2>1, HasNone
  <2>3. PICK S : Queue \in Seq(S) /\ Names \subseteq S
    <3>1. file = "written" /\ ~garbage
      BY <2>2, QueueIs
    <3>2. Queue \in Seq(0 .. MaxStores)
      BY <3>1, QueueLength
    <3>3. Names \subseteq 0 .. MaxStores
      BY LfsBoundsAssumption DEF Names
    <3>4. QED
      BY <3>2, <3>3
  <2>4. Head(Queue) = Queue[1] /\ Tail(Queue) \in Seq(S)
    BY <2>2, <2>3
  <2>5. n = Queue[1] \/ Has(Tail(Queue), {n})
    BY <2>1, <2>2, <2>3, <2>4, HasTail
  <2>6. CASE Clears
    BY <2>6 DEF Clears
  <2>7. CASE Retrieves
    BY <2>1, <2>5, <2>7 DEF Retrieves
  <2>8. CASE StoresHalf
    <3>1. PICK x \in Names : Queue' = <<x>> \o Tail(Queue)
      BY <2>8 DEF StoresHalf
    <3>2. <<x>> \in Seq(S)
      BY <2>3, OneSeq
    <3>3. ~Has(Tail(Queue), {n})
      BY <2>1, <2>4, <3>1, <3>2, HasConcat
    <3>4. QED
      BY <2>5, <2>8, <3>3 DEF StoresHalf
  <2>9. CASE Stores
    <3>1. PICK x \in Names :
            \/ Queue' = Append(Queue, x)
            \/ (x = Queue[1] /\ Queue' = Append(Tail(Queue), x))
      BY <2>9 DEF Stores
    <3>2. Has(Append(Queue, x), {n})
      BY <2>1, <2>3, HasAppend
    <3>3. x = Queue[1] => Has(Append(Tail(Queue), x), {n})
      BY <2>4, <2>5, HasAppend
    <3>4. QED
      BY <2>1, <3>1, <3>2, <3>3
  <2>10. CASE UNCHANGED Queue
    BY <2>1, <2>10
  <2>11. QED
    BY <2>6, <2>7, <2>8, <2>9, <2>10, QueueSteps
<1>2. QED
  BY <1>1, LfsInvHolds, PTL DEF LfsSpec, RecordsStay
=============================================================================
