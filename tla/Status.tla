------------------------------- MODULE Status -------------------------------
(***************************************************************************)
(* The status of this computer's screen: the lines of the core make        *)
(* CoreStatusMonitor raise screenStatusChanged, CoreManager decides whether*)
(* to tell the cloud, and every snapshot of the cloud overwrites what the  *)
(* local profile holds, in which CoreManager looks up the last status.     *)
(*                                                                         *)
(* External: the core, its output; the cloud.                              *)
(***************************************************************************)
EXTENDS Integers, Sequences

CONSTANTS
  MaxLines,  \* bound: lines of the core about its status, and its starts
  MaxNews    \* bound: snapshots for other reasons

ASSUME StatusAssumption == MaxLines \in Nat /\ MaxNews \in Nat

VARIABLES
  coreMode,      \* what the core that runs is
  coreStatus,    \* the status it told last
  said,          \* m_screenStates of the screen
  shown,         \* the status in the local profile
  statusJobs,    \* updates on their way to the cloud
  cloudStatus,   \* the status in the cloud
  statusPush,    \* the status in the snapshots under way
  guessed,       \* history: the last update was dropped while others were under way
  statusUsed     \* how much of each bound is used

statusVars == <<coreMode, coreStatus, said, shown, statusJobs, cloudStatus, statusPush,
                guessed, statusUsed>>

StatusTypeOK ==
  LET Statuses == {"connected", "connecting", "disconnected", "inactive"}
  IN  /\ coreMode \in {"none", "client", "server"}
      /\ coreStatus \in Statuses /\ said \in Statuses /\ shown \in Statuses
      /\ cloudStatus \in Statuses
      /\ statusJobs \in Seq(Statuses) /\ statusPush \in Seq(Statuses)
      /\ guessed \in BOOLEAN
      /\ statusUsed \in [lines : 0..MaxLines, news : 0..MaxNews]

\* An entry that m_screenStates makes by itself is the first status of the enumeration.
StatusInit ==
  /\ coreMode = "none" /\ coreStatus = "inactive" /\ said = "connected"
  /\ shown = "inactive" /\ cloudStatus = "inactive"
  /\ statusJobs = <<>> /\ statusPush = <<>>
  /\ guessed = FALSE /\ statusUsed = [lines |-> 0, news |-> 0]

-----------------------------------------------------------------------------
UnderWayStatus == statusJobs # <<>> \/ statusPush # <<>>

\* The slot of CoreManager: connecting is not told twice, disconnected only after
\* connected, both by what the local profile says.
Dropped(status) ==
  \/ status = "connecting" /\ shown = "connecting"
  \/ status = "disconnected" /\ shown # "connected"

StatusChanged(status) ==
  IF Dropped(status)
  THEN guessed' = UnderWayStatus /\ UNCHANGED <<shown, statusJobs>>
  ELSE /\ shown' = status /\ statusJobs' = Append(statusJobs, status)
       /\ guessed' = FALSE

\* CoreStatusMonitor::update.
UpdateForgets(status) ==
  /\ coreStatus' = status
  /\ IF status = said THEN UNCHANGED <<said, shown, statusJobs, guessed>>
     ELSE StatusChanged(status) /\ UNCHANGED said
Update(status) ==
  /\ coreStatus' = status /\ said' = status
  /\ IF status = said THEN UNCHANGED <<shown, statusJobs, guessed>>
     ELSE StatusChanged(status)

CoreLine ==
  /\ statusUsed.lines < MaxLines
  /\ statusUsed' = [statusUsed EXCEPT !.lines = @ + 1]
  /\ UNCHANGED <<cloudStatus, statusPush>>

\* CoreProcess::start, then monitor, which listens for the lines of the mode.
MonitorCore(mode) == CoreLine /\ coreMode' = mode /\ Update("connecting")

ServerStarted == CoreLine /\ coreMode = "server" /\ Update("connected") /\ UNCHANGED coreMode
ConnectedToServer == CoreLine /\ coreMode = "client" /\ Update("connected") /\ UNCHANGED coreMode
ConnectingTo == CoreLine /\ coreMode = "client" /\ Update("connecting") /\ UNCHANGED coreMode
Suspended == CoreLine /\ coreMode = "client" /\ Update("disconnected") /\ UNCHANGED coreMode

-----------------------------------------------------------------------------
(* The cloud *)

StatusTaken ==
  /\ statusJobs # <<>>
  /\ cloudStatus' = Head(statusJobs) /\ statusJobs' = Tail(statusJobs)
  /\ statusPush' = Append(statusPush, cloudStatus')
  /\ UNCHANGED <<coreMode, coreStatus, said, shown, guessed, statusUsed>>

OtherNews ==
  /\ statusUsed.news < MaxNews
  /\ statusUsed' = [statusUsed EXCEPT !.news = @ + 1]
  /\ statusPush' = Append(statusPush, cloudStatus)
  /\ UNCHANGED <<coreMode, coreStatus, said, shown, statusJobs, cloudStatus, guessed>>

\* compare finds another status, and apply stores the snapshot.
StatusSnapshot ==
  /\ statusPush # <<>>
  /\ shown' = Head(statusPush) /\ statusPush' = Tail(statusPush)
  /\ UNCHANGED <<coreMode, coreStatus, said, statusJobs, cloudStatus, guessed, statusUsed>>

StatusNext ==
  \/ MonitorCore("client") \/ MonitorCore("server")
  \/ ServerStarted \/ ConnectedToServer \/ ConnectingTo \/ Suspended
  \/ StatusTaken \/ OtherNews \/ StatusSnapshot

-----------------------------------------------------------------------------
(* Properties *)

\* Once nothing is under way the cloud shows the status the core told last, whatever
\* snapshots crossed the updates; a client that is suspended before it was connected
\* stays connecting, by CoreManager's choice.  The exception is an update that was
\* dropped while others were under way, when the local profile was out of date.
StatusSettles ==
  coreMode # "none" /\ ~UnderWayStatus /\ ~guessed =>
    \/ cloudStatus = coreStatus
    \/ coreStatus = "disconnected" /\ cloudStatus = "connecting"
=============================================================================
