------------------------------ MODULE Notices ------------------------------
(***************************************************************************)
(* The two conversations of the configuration window with the cloud that   *)
(* end in a message: the check for updates, and the upload of the log.     *)
(* Requests are answered by callbacks in the window's thread, which also   *)
(* run under a message that waits for the user.                            *)
(*                                                                         *)
(* External: the cloud's answers and their order; the user.                *)
(***************************************************************************)
EXTENDS Integers

CONSTANTS
  MaxLooks,   \* bound: occasions to look for updates
  MaxUploads  \* bound: clicks that send the log

ASSUME NoticesAssumption == MaxLooks \in Nat /\ MaxUploads \in Nat

VARIABLES
  update,      \* CloudClient and VersionManager: see NoUpdate
  logs,        \* LogManager: see NoLogs
  noticesUsed  \* how much of each bound is used

noticeVars == <<update, logs, noticesUsed>>

NoUpdate == [enabled  |-> FALSE,  \* m_versionCheck
             asked    |-> 0,      \* checks under way
             newer    |-> FALSE,  \* m_latestVersion is set
             required |-> FALSE,  \* m_updateRequired
             boxes    |-> 0,      \* messages shown
             overlap  |-> FALSE]  \* history: two checks were under way at once

NoLogs == [accepted |-> FALSE, dialog |-> "hidden", uploads |-> 0]

NoticesTypeOK ==
  /\ update \in [enabled : BOOLEAN, asked : 0..MaxLooks, newer : BOOLEAN, required : BOOLEAN,
                 boxes : 0..MaxLooks, overlap : BOOLEAN]
  /\ logs \in [accepted : BOOLEAN, dialog : {"hidden", "privacy", "uploading", "uploaded"},
               uploads : 0..MaxUploads]

NoticesInit ==
  update = NoUpdate /\ logs = NoLogs /\ noticesUsed = [looks |-> 0, uploads |-> 0]

-----------------------------------------------------------------------------
(* Updates *)

\* checkUpdate: asks unless a required update is known.
CheckUpdateAgain(u) ==
  IF u.enabled THEN [u EXCEPT !.asked = @ + 1, !.overlap = @ \/ u.asked > 0] ELSE u
CheckUpdate(u) ==
  IF u.enabled /\ ~u.required
  THEN [u EXCEPT !.asked = @ + 1, !.overlap = @ \/ u.asked > 0]
  ELSE u

Look(u) ==
  /\ noticesUsed.looks < MaxLooks
  /\ noticesUsed' = [noticesUsed EXCEPT !.looks = @ + 1]
  /\ update' = CheckUpdate(u) /\ UNCHANGED logs

\* The activation page is shown: at the start, and after every logout.
ShowActivationPage == Look(update)

\* synergy.version.check: the service answers a hello, of this window or of another.
OnRpcVersionCheck == Look([update EXCEPT !.enabled = TRUE])

\* onCheckUpdateFinished: an error, or nothing to do.
CheckAnswered ==
  /\ update.asked > 0 /\ update' = [update EXCEPT !.asked = @ - 1]
  /\ UNCHANGED <<logs, noticesUsed>>

OptionalUpdate ==
  /\ update.asked > 0 /\ update' = [update EXCEPT !.asked = @ - 1, !.newer = TRUE]
  /\ UNCHANGED <<logs, noticesUsed>>

RequiredUpdate ==
  /\ update.asked > 0
  /\ update' = [update EXCEPT !.asked = @ - 1, !.required = TRUE, !.boxes = @ + 1]
  /\ UNCHANGED <<logs, noticesUsed>>

\* The user closes the message, which ends the window; it is started again.
MessageClosed ==
  /\ update.boxes > 0 /\ update' = NoUpdate /\ logs' = NoLogs
  /\ UNCHANGED noticesUsed

-----------------------------------------------------------------------------
(* The log *)

\* uploadLogFile: the first click asks for consent.  s_uploading is reset before the
\* upload has ended, and stops no other.
Upload(accepted) ==
  logs' = IF accepted
          THEN [accepted |-> TRUE, dialog |-> "uploading", uploads |-> logs.uploads + 1]
          ELSE [logs EXCEPT !.dialog = "privacy"]

UploadLogFile ==
  /\ noticesUsed.uploads < MaxUploads
  /\ noticesUsed' = [noticesUsed EXCEPT !.uploads = @ + 1]
  /\ Upload(logs.accepted) /\ UNCHANGED update

AcceptGDPR ==
  /\ logs.dialog = "privacy" /\ ~logs.accepted
  /\ Upload(TRUE) /\ UNCHANGED <<update, noticesUsed>>

DismissDialog ==
  /\ logs.dialog # "hidden" /\ logs' = [logs EXCEPT !.dialog = "hidden"]
  /\ UNCHANGED <<update, noticesUsed>>

\* onUploadLogFileFinished: the path of the log is shown; an error changes nothing.
UploadFinished ==
  /\ logs.uploads > 0
  /\ \E dialog \in {"uploaded", logs.dialog} :
       logs' = [logs EXCEPT !.uploads = @ - 1, !.dialog = dialog]
  /\ UNCHANGED <<update, noticesUsed>>

NoticesNext ==
  \/ ShowActivationPage \/ OnRpcVersionCheck \/ CheckAnswered \/ OptionalUpdate
  \/ RequiredUpdate \/ MessageClosed
  \/ UploadLogFile \/ AcceptGDPR \/ DismissDialog \/ UploadFinished

NoticesSpec == NoticesInit /\ [][NoticesNext]_noticeVars

-----------------------------------------------------------------------------
(* Properties *)

\* A version that is no longer supported is reported by one message, whatever the order
\* of logouts, hellos and answers, also under the message: checkUpdate is to "stop the
\* update check running twice (showing 2 dialogs)".  It does, unless a second check was
\* sent before the first was answered.
MessageOnce == update.boxes > 1 => update.overlap
=============================================================================
