------------------------------ MODULE Sessions ------------------------------
(***************************************************************************)
(* The X session the core runs in, on Linux.  SessionMonitor waits for     *)
(* systemd to report a change of the login sessions, polls them for the    *)
(* one that is active, and clears the reports; ServiceWorker has the core  *)
(* run as that session's user on its display.  The configuration window    *)
(* names a user, too.  When systemd does not know the display, the one     *)
(* that most processes on the active terminal have is taken.               *)
(*                                                                         *)
(* External: systemd, the users, the processes on a terminal.              *)
(***************************************************************************)
EXTENDS Integers, FiniteSets

CONSTANTS
  XSession,      \* sessions of users: session s is user s, on display s, terminal s
  MaxSwitch,     \* bound: changes of the active session
  MaxUids,       \* bound: users named by the configuration window
  MaxMonitor     \* bound: stops and failures of the monitor

ASSUME SessionsAssumption ==
  /\ XSession \subseteq Nat \ {0} /\ IsFiniteSet(XSession)
  /\ MaxSwitch \in Nat /\ MaxUids \in Nat /\ MaxMonitor \in Nat

VARIABLES
  active,      \* the active session; 0 is one that is no user's, as the login screen
  named,       \* sessions whose display systemd knows
  process,     \* on each terminal, how many processes have each display
  reported,    \* the descriptor is readable
  monitor,     \* "off", "start", "wait", "poll", "flush" or "broken"
  cache,       \* activeUser and activeXDisplay, 0 for none
  coreEnv,     \* the user and the display in ProcessCommand
  astray,      \* history: why the core may be elsewhere
  sessUsed     \* how much of each bound is used

sessVars == <<active, named, process, reported, monitor, cache, coreEnv, astray, sessUsed>>

SessTypeOK ==
  /\ active \in XSession \cup {0} /\ named \subseteq XSession /\ reported \in BOOLEAN
  /\ monitor \in {"off", "start", "wait", "poll", "flush", "broken"}
  /\ {cache, coreEnv} \subseteq [user : XSession \cup {0}, display : XSession \cup {0}]
  /\ process \in [XSession -> [XSession -> Nat]] /\ astray \in BOOLEAN
  /\ sessUsed \in [changes : 0..MaxSwitch, uids : 0..MaxUids, monitor : 0..MaxMonitor]

\* On one terminal there is anything; on the others, a process of their own session.
SessInit ==
  /\ active \in XSession \cup {0} /\ named \in SUBSET XSession
  /\ \E t \in XSession, uses \in [XSession -> 0..2] :
       process = [s \in XSession |-> IF s = t THEN uses
                                    ELSE [d \in XSession |-> IF d = s THEN 1 ELSE 0]]
  /\ reported = FALSE /\ monitor = "start"
  /\ cache = [user |-> 0, display |-> 0] /\ coreEnv = [user |-> 0, display |-> 0]
  /\ astray = FALSE
  /\ sessUsed = [changes |-> 0, uids |-> 0, monitor |-> 0]

-----------------------------------------------------------------------------
(* ActiveXDisplay *)

XDisplaysOnTTY(t) == {d \in XSession : process[t][d] > 0}

\* The most used display, the first by name of equals; 0 if there is none.
ActiveTTYXDisplay(t) ==
  LET most == {d \in XDisplaysOnTTY(t) : \A e \in XDisplaysOnTTY(t) : process[t][e] <= process[t][d]}
  IN IF most = {} THEN 0 ELSE CHOOSE d \in most : \A e \in most : d <= e

-----------------------------------------------------------------------------
(* SessionMonitor *)

\* What is read of the active session: nothing unless it is a user's, with a display.
Read ==
  LET display == IF active \in named THEN active ELSE ActiveTTYXDisplay(active) IN
  IF active = 0 \/ display = 0 THEN [user |-> 0, display |-> 0]
  ELSE [user |-> active, display |-> display]

PollFirstUser ==
  IF Read.user = 0 THEN UNCHANGED <<cache, coreEnv>>
  ELSE /\ cache' = Read
       /\ coreEnv' = [user |-> IF cache.user = 0 THEN Read.user ELSE coreEnv.user,
                      display |-> IF cache.display # Read.display THEN Read.display ELSE coreEnv.display]
\* Poll: activeUserChanged and activeDisplayChanged, each if the cached value differs;
\* the slots of ServiceWorker set the user and the display of the core.
Poll ==
  IF Read.user = 0 THEN UNCHANGED <<cache, coreEnv>>
  ELSE /\ cache' = Read
       /\ coreEnv' = [user |-> IF cache.user # Read.user THEN Read.user ELSE coreEnv.user,
                      display |-> IF cache.display # Read.display THEN Read.display ELSE coreEnv.display]

\* Where the poll could not help it: no display was found, or one of another session.
Misread == active # 0 /\ Read # [user |-> active, display |-> active]

MonitorPolls ==
  /\ monitor \in {"start", "poll"}
  /\ Poll
  /\ monitor' = IF monitor = "start" THEN "wait" ELSE "flush"
  /\ astray' = (Misread \/ (astray /\ coreEnv' # Read))
  /\ UNCHANGED <<active, named, process, reported, sessUsed>>

\* The reports that came up to now are cleared, those after the poll with them.
MonitorFlushes ==
  /\ monitor = "flush" /\ monitor' = "wait"
  /\ reported' = FALSE /\ astray' = (astray \/ (active # 0 /\ coreEnv.user # active))
  /\ UNCHANGED <<active, named, process, cache, coreEnv, sessUsed>>

MonitorWakes ==
  /\ monitor = "wait" /\ reported /\ monitor' = "poll"
  /\ UNCHANGED <<active, named, process, reported, cache, coreEnv, astray, sessUsed>>

\* The read fails: the loop ends with stopped left FALSE, and start does nothing after.
MonitorBreaks ==
  /\ monitor = "wait" /\ sessUsed.monitor < MaxMonitor
  /\ sessUsed' = [sessUsed EXCEPT !.monitor = @ + 1]
  /\ monitor' = "broken" /\ cache' = [user |-> 0, display |-> 0]
  /\ UNCHANGED <<active, named, process, reported, coreEnv, astray>>

\* stop cancels the read; start polls anew.
MonitorStops ==
  /\ monitor = "wait" /\ sessUsed.monitor < MaxMonitor
  /\ sessUsed' = [sessUsed EXCEPT !.monitor = @ + 1]
  /\ monitor' = "off" /\ cache' = [user |-> 0, display |-> 0]
  /\ UNCHANGED <<active, named, process, reported, coreEnv, astray>>

MonitorStarts ==
  /\ monitor = "off" /\ monitor' = "start"
  /\ UNCHANGED <<active, named, process, reported, cache, coreEnv, astray, sessUsed>>

-----------------------------------------------------------------------------
(* The users *)

SwitchSession ==
  /\ sessUsed.changes < MaxSwitch
  /\ sessUsed' = [sessUsed EXCEPT !.changes = @ + 1]
  /\ active' \in (XSession \cup {0}) \ {active} /\ reported' = TRUE
  /\ UNCHANGED <<named, process, monitor, cache, coreEnv, astray>>

\* synergy.core.set_uid, by a window in any session, of which the monitor knows nothing.
SetUid(u) ==
  /\ sessUsed.uids < MaxUids
  /\ sessUsed' = [sessUsed EXCEPT !.uids = @ + 1]
  /\ coreEnv' = [coreEnv EXCEPT !.user = u]
  /\ astray' = (astray \/ u # cache.user)
  /\ UNCHANGED <<active, named, process, reported, monitor, cache>>

SessNext ==
  \/ MonitorPolls \/ MonitorFlushes \/ MonitorWakes \/ MonitorBreaks \/ MonitorStops
  \/ MonitorStarts \/ SwitchSession
  \/ \E u \in XSession : SetUid(u)

-----------------------------------------------------------------------------
(* Properties *)

\* While the monitor waits with nothing reported, the core has the user and the display
\* of the active session, through changes of session that come between any two steps,
\* and restarts of the monitor.  Unless a change came between the poll and the flush and
\* was not seen, the display had to be guessed and was not found, or a window of another
\* user named its own; then the monitor puts it right at the next change.
CoreInSession ==
  monitor = "wait" /\ ~reported /\ active # 0 /\ ~astray
    => coreEnv = [user |-> active, display |-> active]
=============================================================================
