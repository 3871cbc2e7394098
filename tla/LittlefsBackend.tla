-------------------------- MODULE LittlefsBackend --------------------------
(***************************************************************************)
(* The LittleFS storage backend, for one data type                         *)
(* (app/src/modules/storage/backends/littlefs_backend.c).  A header file   *)
(* holds two offsets that only grow; data files of one block each hold the *)
(* records.  Every change of a file is a step of its own, and the device   *)
(* may be reset before any of them: LittleFS makes a file's new content    *)
(* visible when the file is closed, all at once, and its name as soon as   *)
(* it is opened for creation.                                              *)
(***************************************************************************)
EXTENDS Naturals, Sequences

CONSTANTS
  RecordsPerType,   \* CONFIG_APP_STORAGE_MAX_RECORDS_PER_TYPE
  EntriesPerBlock,  \* records that fit in a block, and so in a data file
  OffsetLimit,      \* 2^32 in the code: the offsets are of type uint32_t
  MaxStores,        \* bound of the model: records that are stored
  MaxResets         \* bound of the model: resets of the device

ASSUME RecordsAssumption == RecordsPerType \in Nat \ {0} /\ EntriesPerBlock \in Nat \ {0}

(* The code needs this and does not check it: the default, 8, divides 2^32. *)
ASSUME OffsetAssumption ==
  OffsetLimit \in Nat \ {0} /\ OffsetLimit % RecordsPerType = 0 /\ OffsetLimit > RecordsPerType

ASSUME LfsBoundsAssumption == MaxStores \in Nat /\ MaxResets \in Nat

VARIABLES
  file,    \* the header file: "absent", "empty" or "written"
  header,  \* the two offsets in it
  data,    \* the data files: what is at a place, 0 when nothing was written there
  call,    \* the call that the storage thread is in, and how far it has come
  stores,  \* history: how many records were handed to lfs_storage_store; their names
  resets,  \* history: how often the device was reset
  garbage  \* history: the offsets come from an empty header file, until it is removed

lfsVars == <<file, header, data, call, stores, resets, garbage>>

Offsets == 0 .. OffsetLimit - 1
Headers == [read : Offsets, write : Offsets]
Names == 1 .. MaxStores

(* get_file_index and get_entry_offset_index: where a record is. *)
Files == 0 .. (RecordsPerType - 1) \div EntriesPerBlock
Places == Files \X (0 .. EntriesPerBlock - 1)

Place(offset) ==
  LET index == offset % RecordsPerType IN
    <<index \div EntriesPerBlock, index % EntriesPerBlock>>

Following(offset) == (offset + 1) % OffsetLimit

(* lfs_storage_records_count: the difference wraps with its operands. *)
RecordsCount == (header.write + OffsetLimit - header.read) % OffsetLimit

NewHeader == [read |-> 0, write |-> 0]

FileExists(f) == \E p \in Places : p[1] = f /\ data[p] # 0

LfsInit ==
  /\ file = "absent"
  /\ header = NewHeader
  /\ data = [p \in Places |-> 0]
  /\ call = "init"
  /\ stores = 0
  /\ resets = 0
  /\ garbage = FALSE

-----------------------------------------------------------------------------
(* init_header_files, from lfs_storage_init at power up and at the end of  *)
(* lfs_storage_clear.                                                      *)

HeaderExists ==
  /\ call = "init"
  /\ file # "absent"
  /\ call' = "none"
  /\ UNCHANGED <<file, header, data, stores, resets, garbage>>

CreateHeader ==
  /\ call = "init"
  /\ file = "absent"
  /\ file' = "empty"
  /\ call' = "create"
  /\ UNCHANGED <<header, data, stores, resets, garbage>>

WriteFirstHeader ==
  /\ call = "create"
  /\ file' = "written"
  /\ call' = "none"
  /\ UNCHANGED <<header, data, stores, resets, garbage>>

(* The device was reset between the two: the file is there and is left as  *)
(* it is, reading nothing from it counts as success, and the offsets are   *)
(* whatever the stack holds.  The next store writes them to the file.      *)
UseEmptyHeader ==
  /\ call = "none"
  /\ file = "empty"
  /\ file' = "written"
  /\ header' \in Headers
  /\ garbage' = TRUE
  /\ UNCHANGED <<data, call, stores, resets>>

-----------------------------------------------------------------------------
(* lfs_storage_store: the record first, then the offsets.                  *)

StoreData ==
  /\ call = "none"
  /\ file = "written"
  /\ stores < MaxStores
  /\ stores' = stores + 1
  /\ data' = [data EXCEPT ![Place(header.write)] = stores + 1]
  /\ call' = "store"
  /\ UNCHANGED <<file, header, resets, garbage>>

(* A file operation fails, with its effect or without: the caller is told. *)
StoreDataFails ==
  /\ call = "none"
  /\ file = "written"
  /\ stores < MaxStores
  /\ stores' = stores + 1
  /\ data' \in {data, [data EXCEPT ![Place(header.write)] = stores + 1]}
  /\ UNCHANGED <<file, header, call, resets, garbage>>

(* Mutant: a full backend keeps its oldest record. *)
WrittenNeverFull == [header EXCEPT !.write = Following(@)]

(* The offsets after the record; a full backend gives up its oldest one. *)
Written ==
  [read |-> IF RecordsCount >= RecordsPerType THEN Following(header.read) ELSE header.read,
   write |-> Following(header.write)]

StoreHeader ==
  /\ call = "store"
  /\ header' = Written
  /\ call' = "none"
  /\ UNCHANGED <<file, data, stores, resets, garbage>>

StoreHeaderFails ==
  /\ call = "store"
  /\ header' \in {header, Written}
  /\ call' = "none"
  /\ UNCHANGED <<file, data, stores, resets, garbage>>

-----------------------------------------------------------------------------
(* lfs_storage_peek and lfs_storage_retrieve, by read_data_entry: -EAGAIN  *)
(* without a record, an error without the file of the record.              *)

Readable == file = "written" /\ RecordsCount # 0 /\ FileExists(Place(header.read)[1])
Oldest == data[Place(header.read)]

RetrieveData ==
  /\ call = "none"
  /\ Readable
  /\ call' = "retrieve"
  /\ UNCHANGED <<file, header, data, stores, resets, garbage>>

RetrieveHeader ==
  /\ call = "retrieve"
  /\ header' = [header EXCEPT !.read = Following(@)]
  /\ call' = "none"
  /\ UNCHANGED <<file, data, stores, resets, garbage>>

(* The caller gets the error and not the record. *)
RetrieveHeaderFails ==
  /\ call = "retrieve"
  /\ header' \in {header, [header EXCEPT !.read = Following(@)]}
  /\ call' = "none"
  /\ UNCHANGED <<file, data, stores, resets, garbage>>

-----------------------------------------------------------------------------
(* lfs_storage_clear: LittleFS lists a directory in the order of names, so *)
(* that "<type>.header" comes before "<type>_<n>.bin".                     *)

BeginClear ==
  /\ call = "none"
  /\ file # "empty"
  /\ call' = "clear"
  /\ UNCHANGED <<file, header, data, stores, resets, garbage>>

UnlinkHeader ==
  /\ call = "clear"
  /\ file # "absent"
  /\ file' = "absent"
  /\ header' = NewHeader
  /\ garbage' = FALSE
  /\ UNCHANGED <<data, call, stores, resets>>

(* Mutant: in another order. *)
UnlinkAnyFile ==
  /\ call = "clear"
  /\ \E f \in Files :
       /\ FileExists(f)
       /\ data' = [p \in Places |-> IF p[1] = f THEN 0 ELSE data[p]]
  /\ UNCHANGED <<file, header, call, stores, resets, garbage>>

UnlinkFile ==
  /\ call = "clear"
  /\ file = "absent"
  /\ \E f \in Files :
       /\ FileExists(f)
       /\ \A g \in Files : g < f => ~FileExists(g)
       /\ data' = [p \in Places |-> IF p[1] = f THEN 0 ELSE data[p]]
  /\ UNCHANGED <<file, header, call, stores, resets, garbage>>

ClearFilesDone ==
  /\ call = "clear"
  /\ file = "absent"
  /\ \A f \in Files : ~FileExists(f)
  /\ call' = "init"
  /\ UNCHANGED <<file, header, data, stores, resets, garbage>>

(* A file cannot be removed: the rest stays. *)
ClearFails ==
  /\ call = "clear"
  /\ call' = "none"
  /\ UNCHANGED <<file, header, data, stores, resets, garbage>>

-----------------------------------------------------------------------------
(* Without a header every call but clear ends in SEND_FATAL_ERROR, and the *)
(* device starts again.                                                    *)
NoHeader ==
  /\ call = "none"
  /\ file = "absent"
  /\ call' = "init"
  /\ UNCHANGED <<file, header, data, stores, resets, garbage>>

(* A loss of power or a watchdog. *)
Reset ==
  /\ resets < MaxResets
  /\ resets' = resets + 1
  /\ call' = "init"
  /\ UNCHANGED <<file, header, data, stores, garbage>>

LfsNext ==
  \/ HeaderExists \/ CreateHeader \/ WriteFirstHeader \/ UseEmptyHeader
  \/ StoreData \/ StoreDataFails \/ StoreHeader \/ StoreHeaderFails
  \/ RetrieveData \/ RetrieveHeader \/ RetrieveHeaderFails
  \/ BeginClear \/ UnlinkHeader \/ UnlinkFile \/ ClearFilesDone \/ ClearFails
  \/ NoHeader \/ Reset

LfsSpec == LfsInit /\ [][LfsNext]_lfsVars
-----------------------------------------------------------------------------
(* Properties.                                                             *)

(* The records between the two offsets; nothing once they are garbage. *)
Queue ==
  IF file = "written" /\ ~garbage
  THEN [k \in 1 .. RecordsCount |-> data[Place(header.read + k - 1)]]
  ELSE <<>>

(* The files are a bounded queue that drops its oldest record when it is   *)
(* full, whatever fails and whenever the device is reset; offsets that     *)
(* wrap around (littlefs_backend.c:477) and half removed files included.   *)
(* A store that is cut short can only cost the oldest record its place     *)
(* (littlefs_backend.c:509-531).                                           *)
Fifo == INSTANCE BoundedFifo WITH
          queue <- <<Queue>>, DataTypes <- {1}, Capacity <- RecordsPerType, Values <- Names

FilesAreFifo == Fifo!PersistentSpec

(* A record leaves the files by being retrieved, as the oldest of a full   *)
(* backend, or by a clear: no reset and no failed call loses another one.  *)
Kept(n) == \E k \in DOMAIN Queue : Queue[k] = n

RecordsStay ==
  [][\A n \in Names :
       Kept(n) /\ ~Kept(n)' =>
          \/ n = Oldest /\ (RetrieveHeader \/ RetrieveHeaderFails)
          \/ n = Oldest /\ RecordsCount = RecordsPerType /\ (StoreData \/ StoreDataFails)
          \/ UnlinkHeader]_lfsVars
=============================================================================
