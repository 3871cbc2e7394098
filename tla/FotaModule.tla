----------------------------- MODULE FotaModule -----------------------------
(***************************************************************************)
(* The FOTA module (app/src/modules/fota/fota.c): a thread that polls for  *)
(* a firmware update, follows its download, applies a modem image on       *)
(* request and cancels.  The download runs in the nRF Cloud FOTA poll      *)
(* library, whose callbacks only publish on FOTA_CHAN: a result waits in   *)
(* the module's queue behind the requests of others.                       *)
(*                                                                         *)
(* The library is external, modelled as far as the module relies on it: a  *)
(* job is reported as downloading, then ends in one of the four ways, and  *)
(* every accepted call is answered once.                                   *)
(***************************************************************************)
EXTENDS Naturals, Sequences

CONSTANT MaxCancels  \* bound of the model: cancellations

ASSUME CancelsAssumption == MaxCancels \in Nat

VARIABLES
  fota,       \* the active leaf, or "FATAL" after SEND_FATAL_ERROR
  job,        \* the library's update: "none", "found", "downloading", "canceling",
              \* "downloaded", "apply" (to be applied offline), "applying", "done"
  fotaInbox,  \* the queue of fota_subscriber
  fotaSent,   \* what the last step published on FOTA_CHAN
  cancels     \* history: cancellations asked for so far

fotaVars == <<fota, job, fotaInbox, fotaSent, cancels>>

FotaInit ==
  /\ fota = "WAITING_FOR_POLL_REQUEST"
  /\ job = "none"
  /\ fotaInbox = <<>>
  /\ fotaSent = <<>>
  /\ cancels = 0

FotaTakes(types) ==
  /\ fotaInbox # <<>>
  /\ Head(fotaInbox) \in types
  /\ fota # "FATAL"
  /\ UNCHANGED cancels

(* Publications come back to the module's own queue. *)
FotaPublish(rest, msgs) ==
  /\ fotaInbox' = rest \o msgs
  /\ fotaSent' = msgs

FotaSilent == FotaPublish(Tail(fotaInbox), <<>>)

-----------------------------------------------------------------------------
(* Requests.                                                               *)

(* Entering POLLING_FOR_UPDATE starts the job there is, or says that there *)
(* is none; in any other state the request is dropped.                     *)
PollRequest ==
  /\ FotaTakes({"FOTA_POLL_REQUEST"})
  /\ \/ /\ fota = "WAITING_FOR_POLL_REQUEST"
        /\ fota' = "POLLING_FOR_UPDATE"
        /\ \/ job' = "found" /\ FotaSilent
           \/ job' = job /\ FotaPublish(Tail(fotaInbox), <<"FOTA_NO_AVAILABLE_UPDATE">>)
     \/ /\ fota # "WAITING_FOR_POLL_REQUEST"
        /\ FotaSilent
        /\ UNCHANGED <<fota, job>>

ImageApply ==
  /\ FotaTakes({"FOTA_IMAGE_APPLY"})
  /\ \/ /\ fota = "WAITING_FOR_IMAGE_APPLY"
        /\ \/ fota' = "IMAGE_APPLYING" /\ job' = "applying"
           \/ fota' = "FATAL" /\ UNCHANGED job
     \/ /\ fota # "WAITING_FOR_IMAGE_APPLY"
        /\ UNCHANGED <<fota, job>>
  /\ FotaSilent

(* Mutant: while the job is being looked for a cancel is not swallowed, and *)
(* there is nothing yet that the library could confirm to have canceled.    *)
DownloadCancelPolling ==
  /\ FotaTakes({"FOTA_DOWNLOAD_CANCEL"})
  /\ \/ /\ fota = "WAITING_FOR_POLL_REQUEST"
        /\ UNCHANGED <<fota, job>>
     \/ /\ fota # "WAITING_FOR_POLL_REQUEST"
        /\ fota' = "CANCELING"
        /\ job' = IF job = "downloading" THEN "canceling" ELSE job
  /\ FotaSilent

(* state_running_run, for the states that do not swallow it: canceling     *)
(* what is not, or no longer, being downloaded is a fatal error.           *)
DownloadCancel ==
  /\ FotaTakes({"FOTA_DOWNLOAD_CANCEL"})
  /\ \/ /\ fota \in {"WAITING_FOR_POLL_REQUEST", "POLLING_FOR_UPDATE"}
        /\ UNCHANGED <<fota, job>>
     \/ /\ fota \notin {"WAITING_FOR_POLL_REQUEST", "POLLING_FOR_UPDATE"}
        /\ \/ job = "downloading" /\ fota' = "CANCELING" /\ job' = "canceling"
           \/ job # "downloading" /\ fota' = "FATAL" /\ UNCHANGED job
  /\ FotaSilent

-----------------------------------------------------------------------------
(* What the library reported, taken from the queue.                        *)

Results == {"FOTA_NO_AVAILABLE_UPDATE", "FOTA_DOWNLOADING_UPDATE", "FOTA_DOWNLOAD_FAILED",
            "FOTA_DOWNLOAD_CANCELED", "FOTA_IMAGE_APPLY_NEEDED", "FOTA_SUCCESS_REBOOT_NEEDED"}

(* Where the run function of a state goes on a result; a result that it    *)
(* does not handle is dropped.                                             *)
PollingRun(result) ==
  CASE result = "FOTA_DOWNLOADING_UPDATE" -> "DOWNLOADING_UPDATE"
    [] result = "FOTA_NO_AVAILABLE_UPDATE" -> "WAITING_FOR_POLL_REQUEST"
    [] OTHER -> "POLLING_FOR_UPDATE"

(* FOTA_DOWNLOAD_FAILED stands for _REJECTED and _TIMED_OUT too. *)
DownloadingRun(result) ==
  CASE result = "FOTA_IMAGE_APPLY_NEEDED" -> "WAITING_FOR_IMAGE_APPLY"
    [] result = "FOTA_SUCCESS_REBOOT_NEEDED" -> "REBOOT_PENDING"
    [] result \in {"FOTA_DOWNLOAD_CANCELED", "FOTA_DOWNLOAD_FAILED"} -> "WAITING_FOR_POLL_REQUEST"
    [] OTHER -> "DOWNLOADING_UPDATE"

ApplyingRun(result) ==
  IF result = "FOTA_SUCCESS_REBOOT_NEEDED" THEN "REBOOT_PENDING" ELSE "IMAGE_APPLYING"

CancelingRun(result) ==
  IF result = "FOTA_DOWNLOAD_CANCELED" THEN "WAITING_FOR_POLL_REQUEST" ELSE "CANCELING"

TakeResult ==
  /\ FotaTakes(Results)
  /\ LET result == Head(fotaInbox) IN
       fota' = CASE fota = "POLLING_FOR_UPDATE" -> PollingRun(result)
                 [] fota = "DOWNLOADING_UPDATE" -> DownloadingRun(result)
                 [] fota = "IMAGE_APPLYING" -> ApplyingRun(result)
                 [] fota = "CANCELING" -> CancelingRun(result)
                 [] OTHER -> fota
  /\ FotaSilent
  /\ UNCHANGED job

FotaThread == PollRequest \/ ImageApply \/ DownloadCancel \/ TakeResult

-----------------------------------------------------------------------------
(* The library, through fota_status and fota_reboot.                       *)

Reports(from, to, msg) ==
  /\ job = from
  /\ job' = to
  /\ FotaPublish(fotaInbox, <<msg>>)
  /\ UNCHANGED <<fota, cancels>>

DownloadBegins == Reports("found", "downloading", "FOTA_DOWNLOADING_UPDATE")

DownloadFails == Reports("downloading", "none", "FOTA_DOWNLOAD_FAILED")

(* NRF_CLOUD_FOTA_SUCCEEDED is not passed on: the library asks for the     *)
(* reboot, or for the image to be applied, when it has validated the image. *)
DownloadFinishes ==
  /\ job = "downloading"
  /\ job' = "downloaded"
  /\ fotaSent' = <<>>
  /\ UNCHANGED <<fota, fotaInbox, cancels>>

ImageIsValidated ==
  \/ Reports("downloaded", "done", "FOTA_SUCCESS_REBOOT_NEEDED")
  \/ Reports("downloaded", "apply", "FOTA_IMAGE_APPLY_NEEDED")

DownloadIsCanceled == Reports("canceling", "none", "FOTA_DOWNLOAD_CANCELED")

ImageIsApplied == Reports("applying", "done", "FOTA_SUCCESS_REBOOT_NEEDED")

Library ==
  \/ DownloadBegins \/ DownloadFails \/ DownloadFinishes \/ DownloadIsCanceled
  \/ ImageIsValidated \/ ImageIsApplied

(* The application cancels, with the documented message. *)
RequestCancel ==
  /\ cancels < MaxCancels
  /\ cancels' = cancels + 1
  /\ fotaInbox' = Append(fotaInbox, "FOTA_DOWNLOAD_CANCEL")
  /\ fotaSent' = <<>>
  /\ UNCHANGED <<fota, job>>
-----------------------------------------------------------------------------
(* Properties.                                                             *)

(* No result is lost to a state that does not handle it: what a state      *)
(* waits for the library still owes, or it is in the queue, and a module   *)
(* that waits for polls has no job left (fota.c:338).                      *)
InFotaQueue(m) == \E i \in DOMAIN fotaInbox : fotaInbox[i] = m

Waits(state, outcomes) ==
  fota = state => \E o \in outcomes : job = o[1] /\ (o[2] = "" \/ InFotaQueue(o[2]))

ResultComes ==
  /\ Waits("WAITING_FOR_POLL_REQUEST", {<<"none", "">>})
  /\ Waits("POLLING_FOR_UPDATE",
           {<<"found", "">>, <<"none", "FOTA_NO_AVAILABLE_UPDATE">>}
             \union ({"downloading", "none", "downloaded", "apply", "done"} \X {"FOTA_DOWNLOADING_UPDATE"}))
  /\ Waits("DOWNLOADING_UPDATE",
           {<<"downloading", "">>, <<"downloaded", "">>, <<"none", "FOTA_DOWNLOAD_FAILED">>,
            <<"apply", "FOTA_IMAGE_APPLY_NEEDED">>, <<"done", "FOTA_SUCCESS_REBOOT_NEEDED">>})
  /\ Waits("WAITING_FOR_IMAGE_APPLY", {<<"apply", "">>})
  /\ Waits("IMAGE_APPLYING", {<<"applying", "">>, <<"done", "FOTA_SUCCESS_REBOOT_NEEDED">>})
  /\ Waits("CANCELING", {<<"canceling", "">>, <<"none", "FOTA_DOWNLOAD_CANCELED">>})
=============================================================================
