---------------------------- MODULE BoundedFifo ----------------------------
(***************************************************************************)
(* What struct storage_backend promises                                    *)
(* (app/src/modules/storage/storage_backend.h, docs/modules/storage.md):   *)
(* for each data type a queue that gives the oldest record first and, when *)
(* it is full, drops the oldest record for a new one.  The RAM backend is  *)
(* this queue, one ring buffer per type (ram_ring_buffer_backend.c).       *)
(* Storage and LittlefsBackend are shown to keep to it.                    *)
(***************************************************************************)
EXTENDS Naturals, Sequences

CONSTANTS
  DataTypes,  \* the registered data types
  Capacity,   \* CONFIG_APP_STORAGE_MAX_RECORDS_PER_TYPE
  Values      \* the records that are ever stored

VARIABLE queue  \* per type, the records, oldest first

FifoInit == queue = [t \in DataTypes |-> <<>>]

Store(t, x) ==
  queue' = [queue EXCEPT ![t] =
              Append(IF Len(@) < Capacity THEN @ ELSE Tail(@), x)]

Retrieve(t) ==
  /\ queue[t] # <<>>
  /\ queue' = [queue EXCEPT ![t] = Tail(@)]

Clear == queue' = [t \in DataTypes |-> <<>>]

FifoNext == Clear \/ \E t \in DataTypes : Retrieve(t) \/ \E x \in Values : Store(t, x)

FifoSpec == FifoInit /\ [][FifoNext]_queue

(* A store into a full queue that was interrupted: the oldest record is    *)
(* gone, and the new one has taken its place instead of the last one.      *)
StoreHalf(t, x) ==
  /\ Len(queue[t]) = Capacity
  /\ queue' = [queue EXCEPT ![t] = <<x>> \o Tail(@)]

(* A backend whose calls may be cut short by an error or a reset. *)
PersistentSpec ==
  FifoInit /\ [][FifoNext \/ \E t \in DataTypes, x \in Values : StoreHalf(t, x)]_queue
=============================================================================
