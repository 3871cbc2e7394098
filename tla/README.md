# Verification of the Asset Tracker Template

This directory holds TLA+ models of the firmware in `app/src`, the TLC runs
that check them on small instances and the TLAPS proofs of what holds for
every value of the constants.

## The system

The firmware is a set of modules, most of them a thread of its own, that talk
only through zbus channels. A threaded module is a *message subscriber*: every
message published on a channel it observes is appended to its own queue, its
own publications included. It takes one message at a time and runs a
hierarchical state machine (Zephyr SMF) on it to completion: the active leaf
first, then its parents, until one of them handles the message or makes a
transition. Work items on the system workqueue (timers) run at a higher
priority and only publish messages or touch a few fields. A failed publication
ends in `SEND_FATAL_ERROR`, which stops the device, so publications are modelled
as reliable and in order per queue.

| Component | State it keeps | Operations | Interacts with | Correct when |
|---|---|---|---|---|
| Storage (`modules/storage/storage.c`) | mode (passthrough, buffer idle, pipe active), batch session, pipe, session timer | store or forward a sample; mode requests; batch request, refresh, close, timeout; flush; clear; `storage_batch_read` in the reader's thread | samples of four modules, main, cloud, shell; the backend | records leave once and in order, nothing survives its session, sessions end, confirmations are true |
| Storage backends (`storage/backends`) | per type a ring (RAM) or files with two offsets (LittleFS) | init, store, peek, retrieve, count, clear | storage | bounded first-in first-out per type, oldest dropped when full, a reset between two writes loses or repeats at most one record |
| Main (`main.c`) | region and leaf, running history, intervals, start of sampling, two timers | configuration, sampling, sending, connection, mode, FOTA sequence, reboot | all others | acts on the last status it was told, sampling and sending never die out, resumes right after FOTA |
| Cloud (`modules/cloud`) | connection state, attempts and backoff, provisioning, network status | connect, back off, provision, pause, send, shadow, batch reading | network, storage, location, main | announces its true status, retries, never connects without a network |
| Network (`modules/network`) | LTE state | connect, search, disconnect, quality samples | modem, main, cloud | it never rests in a state the modem has left, and what it waits for is under way |
| FOTA (`modules/fota`) | phase of the update | poll, download, apply, cancel | FOTA library, main | every poll is answered, every download, application and cancellation ends |
| Location (`modules/location`) | modem ready, search active | trigger, cancel, results | modem, cloud, main | every search that is asked for ends, for everybody |
| Button, LED | long-press timer, blink work item | press, release; pattern | main | one press is one event; a pattern blinks as often as it says |
| Power | modem ready, the two UARTs, charger events | sample, switch the UARTs with USB power | charger, main, storage | the UARTs follow USB power |
| Environmental | none | sample | sensor, main, storage | a request is answered |

Hard behaviours: messages queued behind others describe a state that is gone
(timeouts, confirmations, connection status, results of attempts and
searches); the pipe is shared by two threads without a lock between the two
reads of an item; sessions must end although their consumer may stop
answering; configuration, connection and firmware update change the state
machines in every order; the device may be reset between two file writes.
`PROJECT.json` lists each of these hazards at its line with the properties that
cover it.

## Modules

| Module | Models | How |
|---|---|---|
| `Storage` | `storage.c`, `storage_shell.c` | open environment: any message at any time, any read at any time |
| `BoundedFifo` | what `struct storage_backend` promises; the RAM backend | abstract specification: a queue per type |
| `LittlefsBackend` | `littlefs_backend.c`, one data type | a step per file operation, each may fail, a reset before any |
| `BatchDelivery` | main's requests, `Storage`, and the cloud module's batch handling | EXTENDS `Storage` and replaces its open environment by the two peers |
| `MainModule` | `main.c` | open environment, with the part of the location module it relies on |
| `CloudModule` | the state machine of `cloud.c`, its backoff timer and the provisioning callback | open environment: network changes, requests and batches; the connection's and the library's answers are choices |
| `NetworkModule` | `network.c` and the modem as it sees it | open requests |
| `FotaModule` | `fota.c` and the FOTA poll library as it sees it | parts of a system: its requests come from `FirmwareUpdate` |
| `FirmwareUpdate` | a firmware update from the poll to the reboot | EXTENDS `MainModule`, `FotaModule`, `NetworkModule` and connects their queues |
| `LocationModule` | `location.c` and the location library | open requests |
| `PowerModule` | the start, sampling and UART switching of `power.c` | open requests; thread and workqueue interleave |
| `ButtonModule`, `LedModule` | `button.c`, `led.c` | open user and patterns; work items interleave |
| `MCStorage`, `MCBatchDelivery`, `MCMain` | values for TLC; modules not listed need only their `.cfg` files | |
| `MCModules` | network, location, power, button and LED, one at a time | a behaviour is one of the module that `alone` names |
| `QueueLemmas` | lemmas about queues: what is in them, how often and in which order, after an append, a take or a concatenation | used by all the proofs |
| `StorageProofs` | theorems about `Storage` | EXTENDS `Storage`, TLAPS |
| `DeliveryProofs` | theorems about `BatchDelivery` | EXTENDS `BatchDelivery`, `StorageProofs` |
| `LittlefsProofs` | the refinement of `BoundedFifo` by `LittlefsBackend` | EXTENDS `LittlefsBackend`, TLAPS |
| `MainProofs` | theorems about `MainModule` | EXTENDS `MainModule`, TLAPS |
| `CloudProofs` | theorems about `CloudModule` | EXTENDS `CloudModule`, TLAPS |
| `UpdateProofs` | theorems about `NetworkModule` and `FirmwareUpdate` | EXTENDS `FirmwareUpdate`, `MainProofs` |
| `DeviceProofs` | theorems about `LocationModule`, `PowerModule`, `ButtonModule` and `LedModule`, and the types of all the modules of `MCModules` | EXTENDS `MCModules` |

### Storage

A handler is one action. `populate_pipe` and `flush_stored_data` are loops that
take a step per record (`batch` is the loop's program counter), since the
timer, the publishers and the reader interleave with them; the thread receives
no message while it is in one. `mode` is the active leaf, `session` is
`current_session`, `timer` says whether `session_timeout_work` is scheduled,
`pipe` holds items instead of bytes: `Size` gives the bytes an item takes, and
`Fits` is the code's check. `stored` is the backend as a sequence per type. A
sample is named by its type and its number. `reader` and `head` follow the two
reads of `storage_batch_read`: `head = "split"` when a header has been taken from
the pipe, `"torn"` when the pipe was drained and filled again in between, from
where the reader sees garbage until the next drain. `published` is what the step
sent, so that properties can speak of messages. `confirmed` is the mode the other modules know of:
the one configured, then the one confirmed last.

The module's own messages come back to its queue; only `BATCH_CLOSE`, which its
states handle, is put there. `total_items` and statistics are only logged.

A backend error exists only with `BackendFails` (LittleFS; the RAM backend has
none). The thread logs it or answers `BATCH_ERROR`, but the failed call may have
changed the backend before it failed:

* A failing store changes nothing, or, when the type is full, leaves the new record
  in the place of the oldest one (`StoredHalf`): the record is written before the
  header (`littlefs_backend.c:509`, `531`). `early` remembers the records that came
  to the front that way. A store whose header took effect all the same is the same
  step as one that succeeds.
* A failing retrieval leaves the record, or takes it out of the backend
  (`RetrieveFails`), since the header with the new offset may be in the file when
  writing it reports an error (`littlefs_backend.c:649`). The record is then
  neither in the pipe nor published.
* A failing peek changes nothing. A header that cannot be read and a failing
  clear end in a fatal error, which stops the device, and are not modelled.

`returned` is the set of items, per type, that the reader has got from
`storage_batch_read`. `RecordOrder` says of all the places where a record can be that
no record is in two of them, and that they are in the order of sampling but for
the records in `early` (`Before`).

### The backends

`BoundedFifo` is the interface: the oldest record first, the oldest record dropped
when a type is full (`FifoSpec`). `PersistentSpec` adds the store into a full queue
that is cut short. `BackendIsFifo` instantiates it with `queue <- stored` and says that
every step of the storage module is one that `PersistentSpec` allows; that `FifoSpec` does,
when the backend does not fail, is a theorem (`WorkingBackendAlwaysFifo`).

`LittlefsBackend` is one data type, as types share neither files nor state. The
header file holds two offsets that only grow, modulo `OffsetLimit` (2^32); `Place`
is the file and the slot of an offset. A call (`call`) is split where it changes a
file: a store writes the record and then the header, a retrieval reads the record and
then writes the header, a clear removes the header and then the files, the
initialisation creates a header file and then writes it. `Reset` and the failing
actions may come between any two. That LittleFS shows the new content of a file when
it is closed, all at once, and its name when it is created, is external.
`FilesAreFifo` instantiates `BoundedFifo` with the records between the offsets, and
says that they keep to `PersistentSpec`: a store into a full backend that is cut
short has put the newest record in the oldest one's place. So the errors that
`Storage` lets its backend return are those the files are shown to have, and
both keep to one interface. The offsets stay
consistent over their wrap-around only if the number of records divides 2^32
(`OffsetAssumption`), which the code neither checks nor says; the default does. A
reset between the creation and the first write of the header leaves an empty file
from which the code reads an uninitialised structure: `garbage`, and nothing is
promised until the next clear.

### BatchDelivery

Of the cloud module it has the queue of storage messages, the read loop of
`handle_storage_batch_available`, and its state as far as it decides the answer:
`READY` (reads, closes), `PAUSED` (closes every batch), `OFFLINE` (disconnected or
connecting: storage messages pass unhandled). `NoMoreData` is the 500 ms read
timeout, abstracted to an empty pipe. Main sends requests with ever new ids, as
it takes them from the uptime. `delivered` holds items that were handed to
`send_storage_data_to_cloud`; whether the network then loses them is outside.
`Prompt = TRUE` states the assumption that a session does not outlast its
60 s timeout while an answer is pending.

### MainModule

The active state is `region` (the innermost state with substates: buffer or
passthrough, connected or not, FOTA) and `leaf`. `EnterRegion` is a transition
into a region with all exit and entry functions on the way, among them the
fallback from SAMPLING to WAITING when sampling is too soon. Seconds are
abstracted to `start`: never, less than an interval ago, or longer; a timer is
`"stale"` when its delay was computed from a configuration that has since been
replaced. `history` is `running_history`. A shadow response carries which
intervals it changes, the mode and a command. LED messages are left out.
`modemReady` and `search` are the part of the location module that main depends on:
a trigger during a search is ignored, one before the modem is ready is lost.
`confirmed` is the last storage mode that main took notice of.

### CloudModule

`mode` is the active leaf, and each action a handler with all exit and entry
functions on the way. `nrf_cloud_coap_connect` blocks the thread for as long as
the attempt takes, during which network changes queue up: the action that
enters `PROVISIONED` sets `connecting`, and `ConnectToCloud` ends the attempt and
puts its result behind whatever has arrived. `inbox` is the queue of
`cloud_subscriber`, which observes the module's private channel too, so the
results of attempts, provisioning and the backoff wait in it like everybody
else's messages. `Announce` is a publication of the connection status, `Publish`
any other; `report` is the status announced last. `online` is what the network
module said last and `network_connected` what the thread has seen of it.
`outcome` is the result of the last attempt, cleared when a connected module
gives up its connection.

All requests that send one thing are the message `REQUEST`, and each may fail;
a batch may fail once per item. The loop that reads a batch is in
`BatchDelivery`. Messages that no state handles are left out, except those that
another state handles (`DropMessage`). `Prompt = TRUE` states that a backoff,
seconds at least, outlasts the handling of results that were queued when it began;
of the properties only `BackoffIsWaited` needs it.

### NetworkModule

`lte` is the active leaf, `modem` what the modem does: `"detached"` and
`"resuming"` say that it is offline, or searches again, and still owes the
event that tells of the connection it lost. The events go through the
module's own queue, behind the requests of others, so the module acts on a modem as it
was. An event that is left out (PSM, eDRX, search reports, rejections) is one
that nobody acts on.

### FotaModule and FirmwareUpdate

`fota` is the active leaf and `job` what the FOTA poll library does with its update.
Its callbacks publish on the module's own channel, so the results wait behind
requests. Whether there is a job is decided in `PollRequest`. A cancellation
that finds no download is a fatal error of the library's call: `fota = "FATAL"`, and
the device restarts.

`FirmwareUpdate` connects the three threads: what a step publishes is appended in the
same step to the queues of those who take it (`MainRuns`, `FotaRuns`,
`LibraryRuns`, `NetworkRuns`). Main's poll and apply requests, its
`NETWORK_DISCONNECT`, the results, and the network's events are real; the rest of
main's environment stays open. `DeviceRestarts` resets all three. A
download finishes only while the modem is attached. `disturbed` records that the
network was lost, or that someone other than main had it connect, disconnect or stop
a search, after the image was downloaded.

### LocationModule

`library` is the location library, which serves one request at a time and reports its
end once, unless it was cancelled. `LOCATION_SEARCH_DONE` comes from two sides, the
library's callback and the thread that cancels, and returns to the module's own
queue. `owed` says that someone waits for an end.

### PowerModule

`state_running_entry` is three steps, since the workqueue preempts the thread:
`ReadVbus`, and one per UART. `latched` are the charger's events that
`event_callback` has not handled. `crossed` says that the cable moved during
those steps or back before the callback ran. The module is modelled with
`CONFIG_APP_POWER_DISABLE_UART_ON_VBUS_REMOVED`, which is on by default.

### ButtonModule and LedModule

The button's scan and the long-press work item run one after the other on the
workqueue, so that each is a step; the timeout that queues the work item falls
anywhere between. `heard` is what was published about the last press. Of the LED,
`blink_work` says for which pattern and which half of its cycle the work item
waits, and `blinks` counts how often the LED was turned on. Colours and durations are
left out.

## Runs

| Run | Instance | Shows |
|---|---|---|
| `storage` | two types of different size, a pipe of 5 bytes that holds two or three of the records, 2 records per type, 3 and 1 samples, two session ids, a failing backend | the invariants of `Storage`, and that the backend is used as a `PersistentSpec` of `BoundedFifo` |
| `delivery_ready` | cloud ready; requests, both mode commands and flushes | nothing is lost, reads are never torn, sessions deliver everything the backend held |
| `delivery_all` | all cloud states, all commands, failing backend, timeouts at any time | no item is delivered twice; a sample is lost in the known ways only; sessions end while the cloud module is ready or paused |
| `delivery_stuck` | cloud ready or offline | `SessionEnds` is violated: an empty batch that nobody closes |
| `littlefs` | 3 records in files of 2, offsets modulo 6, 8 stores, 2 resets | the files implement `PersistentSpec` of `BoundedFifo`; no record is lost that need not be |
| `main` | all events, five kinds of shadow responses, two of them in a behaviour, two foreign messages queued, from buffer mode (storage may confirm the other at any time) | the invariants of `MainModule`; sampling goes on for ever once searches are answered |
| `main_report` | buffer mode | the reported mode is not the requested one |
| `sampling_stuck` | buffer mode, only button presses | `SamplingGoesOn` is violated: the first search is lost |
| `update` | from passthrough mode; one cancellation, request or outage | the three modules agree on the update; it ends; an image is applied offline |
| `modules` | network: 3 requests, 3 outages; location: 4 searches, 2 cancellations; power: 2 samples, 4 cable changes; button: 3 presses; LED: patterns of 2, 3, no and endless repetitions, 3 in a behaviour | each module's hazards (see `PROJECT.json`) |
| `cloud` | linear backoff, six network changes, three failures, two requests, four queued messages | the invariants of `CloudModule`; every retry has waited for its own backoff; it connects when failures cease, and the loss of the network is announced |
| `cloud_stale` | three changes, one failure | ready after a failed attempt: `ReadyIsConnected` is violated |

The bounds are the smallest with which the cases happen: three samples of a
type overflow a backend of two, be it by a store that succeeds or by one that fails half-way; the pipe takes some but not all records, so a
session needs several batches and an item of one type may fit where one of the
other does not; two ids make requests of another session, two queued messages
make a message stale behind another. The timers' and the location module's
messages are not bounded by `QueueLimit`. In the cloud runs the network may be lost,
found and lost again during one blocked attempt and once more after it; three
failures make the third backoff differ from the first two. `QueueLimit` bounds what
the network and the other modules send, never the module's own messages.

In `littlefs` the offsets wrap around once per six stores and a file boundary lies
inside the ring; two resets may hit a call and the call that follows it. In `update`,
`RequestLimit` bounds the requests of main waiting for the FOTA module and
`BacklogLimit` the messages waiting for main when something else begins; `MaxTroubles`
says how many requests of others, outages and cancellations there are, and they come
only while there is an update. One trouble suffices to cross every phase of it. Two
messages of the modem and one request queue up in `modules`, and a search may be
cancelled when it has just ended, with the next one asked for.

Questions that share an instance share a run, so that the whole set stays small.

Deadlock is not checked in the delivery, `modules` and cloud runs, where the peers may
have sent all their messages and everything has come to rest.

Fairness. `DeliverySpec` and `FairSpec` assume weak fairness of the threads and
of scheduled work items: Zephyr runs a ready thread of the lowest application
priority when the others block, and each module blocks on its queue; a work
item that is scheduled is run; a location search ends (the library reports a
result, an error or a timeout). Nothing is assumed of what arrives from
outside: main may stop asking and the connection may stay as it is.
`FairCloudSpec` assumes the same of the cloud thread and the backoff work item,
and that the connection and the provisioning library answer in the end: CoAP
and the library have timeouts of their own. It does not assume that they
succeed: `MaxFailures` bounds the failures, so `ConnectsAtLast` says that the
module connects once they cease, and not that it gives up. `FairSpec` also has the
modem started in the end; `UpdateSpec` has the three threads run, the library answer,
the modem report a detach, and a device that reboots come back, but not the network
found or anything requested; `ModulesSpec` has the location thread run and its
library end a search.

## What the runs found

* A session that starts empty or with an error has no timeout; if the cloud
  module is reconnecting when it is answered, storage stays busy (`delivery_stuck`).
* In buffer mode a shadow response with only an interval asks storage for
  passthrough mode, and reports buffer mode (`main_report`).
* A device that boots in buffer mode asks for its first search before the modem is
  initialised; the location module drops it, and without a network nothing is
  sampled any more (`sampling_stuck`).
* The success of an abandoned attempt is taken for that of the attempt that
  replaced it, and the module is ready without a connection (`cloud_stale`). The
  next request that fails repairs it.

Noted while modelling; the models contain the behaviour, and the properties are stated
so as to except it:

* A `STORAGE_CLEAR` is ignored while a batch session is active (`storage.c:961`), and
  main reboots after an update without knowing (`main.c:1938`): with LittleFS the
  records survive, although `docs/modules/storage.md:342` says that "stored data is
  automatically cleared when FOTA updates are applied", regardless of the backend. No
  property is about it: it would restate the one guard that `StorageClear` has.
* A session timeout that is queued behind a refresh closes the refreshed session
  (`storage.c:1012`).
* A new update interval does not restart the send timer (`main.c:1288`).
* The backoff time is asserted but never limited to its maximum (`cloud.c:292`).
* A confirmation of the storage mode that arrives during an update is dropped
  (`main.c:1679`), so that main resumes in the mode storage has left.
* Main waits for `NETWORK_DISCONNECTED`, which a network module that is idle or
  searching never sends (`main.c:1839`): when the network was lost between the download
  and the request, the update waits until it returns and is lost again.
* Any `NETWORK_DISCONNECTED` counts as the answer (`main.c:1866`): one that crossed the
  request lets the modem image be applied while the modem searches.
* A `NETWORK_CONNECTED` that is queued when a search is stopped makes the network
  module connected, and the loss that follows starts the search again
  (`network.c:379`); a queued `NETWORK_UICC_FAILURE` makes it idle while the modem
  searches.
* After a cancelled search `LOCATION_SEARCH_DONE` may come twice; the second ends the
  next search for the module, which then finds the library busy, a fatal error
  (`location.c:330`).
* A cable that moves while the power module starts, or in and out before the callback
  has run, may leave the UARTs, or one of them, as they were (`power.c:341`, `power.c:408`).

## Proofs

TLAPS proves the theorems listed in `PROJECT.json` for every value of the
constants that the named assumptions of the modules allow: every number of types,
sizes, capacities, session ids, queue limits, requests, failures and resets. Each
is proved from an inductive invariant, one step per action; where a theorem needs
more than the assumptions, its own hypotheses say so (`Prompt`, `Served`,
`Lossless`, below).

### Storage

* `TypeCorrect`: `Spec => []TypeOK`, action by action.
* `PipeOnlyInSessionHolds`, `ConfirmedModeAlwaysHolds`: inductive as they stand, given
  the types.
* `BackendAlwaysBounded`: a store appends to at most `MaxRecords - 1` records. (No run
  checks `BackendBounded` by itself: `BackendIsFifo` implies it.)
* `ReaderAlwaysAligned`: `head = "split"` means that the reader holds a header and
  the item it belongs to is still at the front of the pipe.
* `RecordsInOrder`: the order of all records, in what was read, the pipe, the
  backend and the queue. It is inductive together with `ReaderAligned`, without
  which a read could take the wrong item. The proof groups the order into
  "later than" relations between sequences and shows what an append, a removal
  of the oldest and a move from one sequence to the next keep. A half store replaces the
  first record by one from the queue, which is later than all the others and from then on
  is in `early`: `Before` says then only that it differs from them (`HalfStoringASample`).
* `WorkingBackendKeepsOrder` and `WorkingBackendAlwaysFifo` assume `~BackendFails`. Then `early` stays
  empty, `Before` is `<`, and each step of the backend is one of `FifoSpec`.
* `AvailableAlwaysTrue`: a `BATCH_AVAILABLE` is published only where the populate loop ends,
  so what it announces is compared with what the loop has counted.
* `PipeAlwaysFits`: the invariant is stated with the running totals of the bytes in the
  pipe, so that no induction is needed: the lemmas (`TotalsAppend`, `TotalsTail`) give the
  totals after a write and a read. What was written since the last drain is counted by the
  loop, and is at least what the pipe holds (`PipeCounted`).
* `RecordsAlwaysLeaveByDelivery`: an action property, which no run checks by itself since `LossIsKnown`
  (below) says more of the same steps; only the populate and flush loops, a
  retrieval of theirs that fails too late, a store into a full type and a clear outside a session
  take a record from the backend.
* `BackendAlwaysFifo`: `Storage` implements the `PersistentSpec` of `BoundedFifo`, step by step.

### Batch delivery

The steps of `BatchDelivery` are steps of `Storage` or posts to its queue (`StepsOfStorage`). The
first four theorems need no hypothesis: the connection changes, operations of the backend fail and
sessions time out at any moment.

* `StorageHoldsInDelivery` and `BackendFifoInDelivery`: what `StorageProofs` shows of the storage module in
  its open environment holds among main, the shell and the cloud module. The step lemmas of
  `StorageProofs` (`FifoStep`, `PipeCountedStep`, `CountsStep`, `AvailableStep`, `ConfirmedModeStep`) are
  stated of a step, not of `Spec`, so that both proofs cite them; the posts leave the rest of storage alone.
* `EveryLossIsKnown`: a sample gets off its way from the sensor to the cloud only in one of the seven
  ways that `LossIsKnown` names: the oldest of a full type makes room, be it for a store that fails
  half-way; the backend refuses it; a retrieval fails after its header took effect; a clear outside a session; a message the cloud module is not ready for; a drain of the
  pipe by the sample's own session; or a torn read. The proof follows a sample from each place where it
  can be to the next (`FromInbox`, `FromStored`, `FromPipe`, `FromAnswers`). The invariant,
  `StorageInv`, adds to the types and the order of the records that the session of a pipe that holds
  something, or is being filled, has an id (`SessionNamed`): the code takes the id 0 for no
  session, and would drain the pipe for the next request of anybody.

* `DeliveredNeverAgain`: an item that was delivered, or waits for the cloud module as
  a message, has left the storage module, is not both, and waits once
  (`GoneOnce`).
* `ReadsNeverTorn` assumes `Prompt`. Nothing but the protocol keeps the storage thread
  from draining the pipe between the two reads of an item, so the proof is about
  the protocol: a session id is in at most one phase - requested, populating,
  announced, being read, or over (refused or to be closed) - and requested or announced
  only once (`OnePhase`);
  the phase of the current session fits storage's mode (`Serves`); no id is ahead of main's
  requests (`IdsKnown`); a timeout meets no session that is worked on
  (`TimeoutAlone`); between the two reads the session is the one being read
  (`ReaderReads`). Without `Prompt` the property is false: a timeout between the
  two reads, and a new request, fill the pipe anew.
* `BatchesKeptForReader` assumes `Prompt` as well: an announced batch, and one that is being read, loses
  items by the reads only, and gains none (`BatchesKept`). It follows from the same `SessionInv`.
* `LossesAlwaysKnown` assumes `Served`: sessions are prompt, the connection stays ready and
  the backend has no errors (the RAM backend has none). Then a sample gets off its way from
  the sensor to the cloud only as the oldest of its type when a full backend stores a
  newer one, or by a clear outside a session (`OnlyKnownLosses`): not by a batch, a refresh, a flush, a change of
  mode or a full pipe. Each hypothesis excludes a way in which the code does lose samples: a
  timeout, a pipe that is drained because its session was closed unread, a store
  that fails. Given them, what is in the pipe belongs to a session that is worked on
  (`PipeServed`), which leaves of the seven ways of `EveryLossIsKnown` the first and the fourth.
* `SamplesNeverLost` assumes `Lossless`: `Served`, no clear, and room in the backend for the
  samples of a type. Its invariant, `RoomInv`, adds that a store finds room, as the record at
  place `j` is no older than the `j`-th sample (`StoredBelow`). The run `delivery_ready` is
  an instance of these conditions. No run states `OnlyKnownLosses`, which on that run's
  instance says less than `NothingLost`.

### The LittleFS backend

`FilesAlwaysFifo` shows each file operation, failure and reset to be a step or a stutter of
`PersistentSpec`. The inductive invariant `LfsInv` says when the files exist, that the
offsets are at most `RecordsPerType` apart, and what a call has already written. The core is
arithmetic: as the number of records divides the modulus of the offsets, two
offsets less than a ring apart are in different places, also across the wrap-around
(`Divided` to `MultipleMore`), so a store writes beside the records that are there.
`RecordsAlwaysStay` is an action property from the same invariant.

### Main, and firmware updates

`MainInv` is the conjunction of the types, the control (`ConnectionKnown`, `ModeKnown`,
`TimersFitState`) and `CyclesGoOn`. `MainTypeCorrect`, `ConnectionAlwaysKnown`, `ModeAlwaysKnown`, `TimersAlwaysFitState` and
`CyclesAlwaysGoOn` are its parts; `SearchesAlwaysApart` is an action property that follows from it,
since a search starts only where `start` says that the interval is over.

`UpdateProofs` proves of `NetworkModule` alone:

* `StateAlwaysFollowsModem`: the last event in the queue that tells of the modem tells the truth
  (`LastEventIsTrue`), and the leaf is the modem's state or such an event is on its way
  (`LeafIsKnown`).

and of the composition, by `UpdateInv`:

* `ResultAlwaysComes`: `FotaInv` has a table (`ResultsFit`) of which results the queue may hold, in which
  order, for each phase of the module and of its library's job.
* `UpdateAlwaysAgreed`: `UpdateHeard` relates the job to main's leaf and the results in main's queue;
  `ApplyGoesOn` says that the application is needed, asked for and under way
  in turn, once, and that nothing of an earlier download follows it.
* `AlwaysAppliedOffline`: while an image waits and nobody disturbs, the network goes through
  the phases of `DisconnectsFirst`: attached with main's request queued, detaching,
  offline; the request to apply leaves main only in the last.
* `MainHoldsInUpdates`: main's invariants, its types among them, carry over from its open environment to
  the composition.
* `SearchesApartInUpdates` carries over the action property (`SearchDueStep` is the step that both
  theorems cite), but for a restart: after a fatal error of the FOTA library in buffer mode the
  device boots and searches anew.

`OthersAssumption` says that the results and the events that `FotaModule` and `NetworkModule` produce come
from them and not from main's open environment as well.

### The cloud module

One inductive invariant, `CloudInv`, has the published invariants as parts:

* `ReportAlwaysTrue`: the status announced last is whether the module is ready.
* `AnswerAlwaysComes`: a state that waits has the answer under way: a blocked
  attempt or its result in the queue, a running library, a scheduled timer or
  its expiry. It needs the fact that only the state that waits blocks the thread
  (`Blocked`), or an answer could be taken by a state that drops it.
* `BackoffAlwaysCounts`: no backoff is computed from zero attempts.
* `BackoffAlwaysWaited`, which assumes `Prompt`: an attempt out of a backoff is made by an expiry,
  and `BackoffInv` says that there is one at most, none while the timer runs, and none
  behind the result of an attempt, so that it is the expiry of this
  backoff and not of one that was cancelled.

The transitions fall into five groups (connect, leave, stay connected, drop,
append), and a lemma for each says what it keeps.

`CloudTypeCorrect` adds the type of the backoff time, which the code shifts to the left once per attempt
in 32 bits. `Shifted` is that shift as a recursive function, with `WordSize` for 2^32. `ShiftedFits`
shows that the function exists and stays below `WordSize`. The library's induction theorems take an
operator as a parameter, which no installed prover can instantiate, so the induction is one over
a set of numbers: a set that holds 0 and the successor of each member is `Nat`
(`SetInduction`), as the least number outside it would have its predecessor inside (`WFMin`).

### The other modules

* `SearchAlwaysKnown`: as long as nobody cancels, one message tells of a search's end and waits
  for a module that is active (`EndedOnce`, `AnswerHeld`).
* `UartsAlwaysFollowVbus`, `PressIsOneEvent`, `PatternsBlinkAsAsked`: the thread, user or pattern against the work
  item that interleaves with it.
* `ModulesTypeCorrect`: the types of every module of `MCModules`, whichever of them runs, from the step
  lemma of each.

### What stays with TLC

* Liveness under fairness, which is out of the prover's reach: `SessionDelivers`, `ConnectedSessionEnds`,
  `AnsweredSamplingGoesOn`, `UndisturbedUpdateEnds`, `SearchIsAnswered`, `ConnectsAtLast`, `OfflineIsReported`.
* The four properties that a run finds violated.

Every other property of the passing runs is stated by a theorem.

## Not modelled

The parts listed `not_modelled` or `partly` in `PROJECT.json`: encoding and payloads,
the environmental module (one state, a request and its answer), shells, LED colours,
logging, watchdogs, the fatal-error path (it stops the device), the MQTT example,
and the modem, cloud and location libraries beyond what the modules rely on. Memory
corruption, message pool exhaustion and the timing of threads are below this level:
a publication that fails ends in the fatal-error path.

## Possible extensions

All the modules planned are written and checked, and every safety and action property of the
passing runs is proved. What would say more:

1. `FirmwareUpdate` without `modemReady` at the start, and with the location module in
   place of the part of it that `MainModule` carries.
2. The state machine of `CloudModule` in place of the three states that `BatchDelivery` has of it, so that
   what is lost when the connection is (`CloudDrops`) is tied to how long it takes to come back.
3. The encoding of the payloads (`cloud_location.c`, `storage_data_types.c`), a matter of data
   rather than of steps.
