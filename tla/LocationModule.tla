--------------------------- MODULE LocationModule ---------------------------
(***************************************************************************)
(* The location module (app/src/modules/location/location.c): a thread     *)
(* that starts and cancels searches of the location library on request.    *)
(* The library's results come in a callback, which publishes               *)
(* LOCATION_SEARCH_DONE for everybody; the module is one of those who hear *)
(* it, and takes it from its own queue behind the requests of others.      *)
(*                                                                         *)
(* The library is external: it serves one request at a time, reports its   *)
(* end once unless it was canceled, and canceling no request does no harm. *)
(***************************************************************************)
EXTENDS Naturals, Sequences

CONSTANTS
  MaxSearches,      \* bound of the model: searches asked for
  MaxSearchCancels  \* bound of the model: cancellations asked for

ASSUME LocationBoundsAssumption == MaxSearches \in Nat /\ MaxSearchCancels \in Nat

VARIABLES
  location,       \* the active leaf of the state machine, or "FATAL"
  library,        \* the location library: "none" before location_init, "idle", "searching"
  locationInbox,  \* the queue of the location subscriber
  initialized,    \* the modem library has called on_modem_init
  searches,       \* history: searches asked for
  searchCancels,  \* history: cancellations asked for
  owed            \* history: a search was asked for since the modem is initialized, and
                  \* no end of a search was published since

locationVars ==
  <<location, library, locationInbox, initialized, searches, searchCancels, owed>>

LocationInit ==
  /\ location = "WAITING_FOR_MODEM_INIT"
  /\ library = "none"
  /\ locationInbox = <<>>
  /\ initialized = FALSE
  /\ searches = 0
  /\ searchCancels = 0
  /\ owed = FALSE

LocationTakes(msg) ==
  /\ location # "FATAL"
  /\ locationInbox # <<>>
  /\ Head(locationInbox) = msg
  /\ UNCHANGED <<initialized, searches, searchCancels>>

Quietly == locationInbox' = Tail(locationInbox) /\ UNCHANGED owed

-----------------------------------------------------------------------------
(* The thread.                                                             *)

LocationModemInitialized ==
  /\ LocationTakes("LOCATION_PRIV_MODEM_INITIALIZED")
  /\ Quietly
  /\ IF location = "WAITING_FOR_MODEM_INIT"
       THEN location' = "INACTIVE" /\ library' = "idle"
       ELSE UNCHANGED <<location, library>>

(* Mutant: a request is served before the modem is initialized. *)
LocationSearchTriggerEarly ==
  /\ LocationTakes("LOCATION_SEARCH_TRIGGER")
  /\ Quietly
  /\ \/ location # "ACTIVE" /\ location' = "ACTIVE" /\ library' = "searching"
     \/ location = "ACTIVE" /\ UNCHANGED <<location, library>>

(* Only an inactive module starts a search.  A library that is busy then   *)
(* is a fatal error.                                                       *)
LocationSearchTrigger ==
  /\ LocationTakes("LOCATION_SEARCH_TRIGGER")
  /\ Quietly
  /\ \/ location = "INACTIVE" /\ library = "idle"
        /\ location' = "ACTIVE" /\ library' = "searching"
     \/ location = "INACTIVE" /\ library = "searching"
        /\ location' = "FATAL" /\ UNCHANGED library
     \/ location \in {"WAITING_FOR_MODEM_INIT", "ACTIVE"} /\ UNCHANGED <<location, library>>

(* The module publishes the end of a canceled search itself, and stays     *)
(* active until it takes its own message.                                  *)
LocationSearchCancel ==
  /\ LocationTakes("LOCATION_SEARCH_CANCEL")
  /\ \/ /\ location = "ACTIVE"
        /\ library' = "idle"
        /\ locationInbox' = Append(Tail(locationInbox), "LOCATION_SEARCH_DONE")
        /\ owed' = FALSE
     \/ /\ location # "ACTIVE"
        /\ Quietly
        /\ UNCHANGED library
  /\ UNCHANGED location

LocationSearchDone ==
  /\ LocationTakes("LOCATION_SEARCH_DONE")
  /\ Quietly
  /\ location' = IF location = "ACTIVE" THEN "INACTIVE" ELSE location
  /\ UNCHANGED library

LocationThread ==
  \/ LocationModemInitialized \/ LocationSearchTrigger \/ LocationSearchCancel
  \/ LocationSearchDone

-----------------------------------------------------------------------------
(* location_event_handler, in the library's thread.  The start of a        *)
(* search, a fallback and requests for assistance change nothing here.     *)

EventDone ==
  /\ locationInbox' = Append(locationInbox, "LOCATION_SEARCH_DONE")
  /\ owed' = FALSE
  /\ UNCHANGED <<location, initialized, searches, searchCancels>>

(* Mutant: a search that timed out or failed is not reported. *)
SearchFinishesSilently ==
  /\ location # "FATAL"
  /\ library = "searching"
  /\ library' = "idle"
  /\ UNCHANGED <<location, locationInbox, initialized, searches, searchCancels, owed>>

(* A location, a timeout, an error or an unknown result. *)
SearchFinishes ==
  /\ location # "FATAL"
  /\ library = "searching"
  /\ library' = "idle"
  /\ EventDone

(* Mutant: the library goes on with its next method. *)
CloudLocationRequestGoesOn ==
  /\ location # "FATAL"
  /\ library = "searching"
  /\ UNCHANGED library
  /\ EventDone

(* Cells and access points go to the cloud, which is success enough: the   *)
(* search is canceled so that the library does not try its next method.    *)
CloudLocationRequest ==
  /\ location # "FATAL"
  /\ library = "searching"
  /\ library' = "idle"
  /\ EventDone

-----------------------------------------------------------------------------
(* The others: main triggers searches, the cloud module cancels them       *)
(* before it provisions the device, the modem library tells of itself.     *)

OnModemInit ==
  /\ ~initialized
  /\ initialized' = TRUE
  /\ locationInbox' = Append(locationInbox, "LOCATION_PRIV_MODEM_INITIALIZED")
  /\ UNCHANGED <<location, library, searches, searchCancels, owed>>

AskForSearch ==
  /\ searches < MaxSearches
  /\ searches' = searches + 1
  /\ locationInbox' = Append(locationInbox, "LOCATION_SEARCH_TRIGGER")
  /\ owed' = initialized
  /\ UNCHANGED <<location, library, initialized, searchCancels>>

AskForCancel ==
  /\ searchCancels < MaxSearchCancels
  /\ searchCancels' = searchCancels + 1
  /\ locationInbox' = Append(locationInbox, "LOCATION_SEARCH_CANCEL")
  /\ UNCHANGED <<location, library, initialized, searches, owed>>

LocationNext ==
  \/ LocationThread
  \/ SearchFinishes \/ CloudLocationRequest
  \/ OnModemInit \/ AskForSearch \/ AskForCancel

(* The thread runs, and a search of the library ends. *)
LocationFairness ==
  /\ WF_locationVars(LocationThread)
  /\ WF_locationVars(SearchFinishes \/ CloudLocationRequest)

LocationSpec == LocationInit /\ [][LocationNext]_locationVars /\ LocationFairness
-----------------------------------------------------------------------------
(* Properties.                                                             *)

LocationMsg ==
  {"LOCATION_PRIV_MODEM_INITIALIZED", "LOCATION_SEARCH_TRIGGER", "LOCATION_SEARCH_CANCEL",
   "LOCATION_SEARCH_DONE"}

(* Every variable keeps its type, and the library is not used before the   *)
(* modem is initialized.                                                   *)
LocationTypeOK ==
  /\ location \in {"WAITING_FOR_MODEM_INIT", "INACTIVE", "ACTIVE", "FATAL"}
  /\ library \in IF initialized THEN {"none", "idle", "searching"} ELSE {"none"}
  /\ locationInbox \in Seq(LocationMsg)
  /\ {initialized, owed} \subseteq BOOLEAN
  /\ searches \in 0 .. MaxSearches
  /\ searchCancels \in 0 .. MaxSearchCancels

(* An active module is waiting for something: a search that the library    *)
(* still works on, or the end of one that is in the queue.                 *)
InLocationQueue(msg) == \E i \in DOMAIN locationInbox : locationInbox[i] = msg

ActiveIsAnswered ==
  location = "ACTIVE" => library = "searching" \/ InLocationQueue("LOCATION_SEARCH_DONE")

(* As long as nobody cancels, the library searches only while the module   *)
(* knows, so that no request finds it busy, which would be fatal           *)
(* (location.c:341).  After a cancellation the end of a search may have    *)
(* been published twice, and the second is taken for the end of the next.  *)
LibraryIsKnown ==
  searchCancels = 0 => /\ library = "searching" => location = "ACTIVE"
                       /\ location # "FATAL"

(* The module and the library agree on whether there is a search, or the   *)
(* end that brings them together is in the queue: an active module never   *)
(* waits for nothing, whoever cancels, and without cancellations an        *)
(* inactive one never meets a busy library.                                *)
SearchIsKnown == ActiveIsAnswered /\ LibraryIsKnown

(* Once the modem is initialized, every search that is asked for comes to  *)
(* an end that everybody hears, ignored and canceled requests included:    *)
(* what the main module waits for while it samples.                        *)
SearchIsAnswered == owed ~> ~owed \/ location = "FATAL"
=============================================================================
