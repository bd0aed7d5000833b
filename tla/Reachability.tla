---------------------------- MODULE Reachability ----------------------------
(***************************************************************************)
(* RouterErrorMonitor for one screen: the router says which nodes it       *)
(* reaches, the profile which screens are online, and a screen that cannot *)
(* be reached is given some seconds before it is reported.                 *)
(***************************************************************************)
EXTENDS Integers

CONSTANTS MaxSignals  \* bound: signals of the router and of the profile

ASSUME ReachAssumption == MaxSignals \in Nat

VARIABLES
  monitored,  \* m_monitors has the screen
  reach,      \* m_reachable
  graceOn,    \* m_timerRunning
  grace,      \* m_timer: "off", "on", or "due", its handler queued
  report,     \* what screenReachable or screenUnreachable said last
  node,       \* what the router said last
  unasked,    \* history: the last signal was one the monitor does not report
  reachUsed   \* how much of the bound is used

reachVars == <<monitored, reach, graceOn, grace, report, node, unasked, reachUsed>>

ReachTypeOK ==
  /\ monitored \in BOOLEAN /\ reach \in BOOLEAN /\ graceOn \in BOOLEAN
  /\ grace \in {"off", "on", "due"}
  /\ report \in {"none", "reachable", "unreachable"}
  /\ node \in BOOLEAN /\ unasked \in BOOLEAN /\ reachUsed \in 0..MaxSignals

ReachInit ==
  /\ monitored = FALSE /\ reach = FALSE /\ graceOn = FALSE /\ grace = "off"
  /\ report = "none" /\ node = FALSE /\ unasked = TRUE /\ reachUsed = 0

-----------------------------------------------------------------------------
Signal == reachUsed < MaxSignals /\ reachUsed' = reachUsed + 1

\* RouterErrorScreenMonitor::notify.
Notify(r) == report' = IF r THEN "reachable" ELSE "unreachable"

StartTimer == graceOn' = TRUE /\ grace' = "on"

\* screenOnline: the timer is started unless it runs.
MonitorOnline ==
  /\ Signal
  /\ monitored' = TRUE
  /\ IF graceOn THEN UNCHANGED <<graceOn, grace, unasked>> ELSE StartTimer /\ unasked' = FALSE
  /\ UNCHANGED <<reach, report, node>>

\* screenOffline: stopTimer cancels it and polls, in which its handler runs, aborted; or
\* as usual when it had expired.
MonitorOffline ==
  /\ Signal
  /\ graceOn' = FALSE /\ grace' = "off"
  /\ IF grace = "due" THEN Notify(reach) /\ UNCHANGED unasked
     ELSE UNCHANGED report /\ unasked' = (unasked \/ grace = "on")
  /\ UNCHANGED <<monitored, reach, node>>

\* on_node_reachable: told at once, unless the timer runs or the screen is new.
NodeReachableQuiet ==
  /\ Signal
  /\ monitored' = TRUE /\ reach' = TRUE /\ node' = TRUE
  /\ UNCHANGED <<graceOn, grace, report, unasked>>
NodeReachable ==
  /\ Signal
  /\ monitored' = TRUE /\ reach' = TRUE /\ node' = TRUE
  /\ IF monitored /\ ~graceOn THEN Notify(TRUE) /\ unasked' = FALSE ELSE UNCHANGED <<report, unasked>>
  /\ UNCHANGED <<graceOn, grace>>

\* on_node_unreachable: the screen is given time.
NodeUnreachable ==
  /\ Signal
  /\ node' = FALSE
  /\ IF ~monitored THEN UNCHANGED <<reach, graceOn, grace, unasked>>
     ELSE /\ reach' = FALSE
          /\ IF graceOn THEN UNCHANGED <<graceOn, grace, unasked>> ELSE StartTimer /\ unasked' = FALSE
  /\ UNCHANGED <<monitored, report>>

GraceExpires ==
  /\ grace = "on" /\ grace' = "due"
  /\ UNCHANGED <<monitored, reach, graceOn, report, node, unasked, reachUsed>>

GraceHandler ==
  /\ grace = "due" /\ grace' = "off" /\ graceOn' = FALSE
  /\ Notify(reach)
  /\ UNCHANGED <<monitored, reach, node, unasked, reachUsed>>

ReachNext ==
  \/ MonitorOnline \/ MonitorOffline \/ NodeReachable \/ NodeUnreachable
  \/ GraceExpires \/ GraceHandler

-----------------------------------------------------------------------------
(* Properties *)

\* When no timer runs, the last report is what the router said last: a node that comes
\* back just as its timer expires, or goes while it runs, is not reported wrongly for
\* good.  Not reported are a node that the router knows before the profile does, and one
\* whose timer was stopped because the screen went offline.
ReportIsTrue ==
  ~graceOn /\ ~unasked => report = (IF node THEN "reachable" ELSE "unreachable")
=============================================================================
