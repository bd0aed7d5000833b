----------------------------- MODULE Controller -----------------------------
(***************************************************************************)
(* The Windows service: ServiceController, which the service control       *)
(* manager starts, runs synergy-service as a process in the session of the *)
(* user at the console, in a job, and a thread that watches it.  When the  *)
(* process is dead the thread ends the controller, which the manager       *)
(* starts again; the core of the dead service must not be left behind.     *)
(*                                                                         *)
(* External: the control manager, configured to restart the controller     *)
(* after an unexpected exit; the failures of system calls; processes that  *)
(* die; the users who take turns at the console.                           *)
(***************************************************************************)
EXTENDS Integers, FiniteSets

CONSTANTS
  UserSession,   \* the sessions of the users
  MaxTrouble,    \* bound: processes that die and calls that fail
  MaxControls    \* bound: controls by the manager, and switches of users

ASSUME ControllerAssumption ==
  IsFiniteSet(UserSession) /\ MaxTrouble \in Nat /\ MaxControls \in Nat

VARIABLES
  controller,  \* "off", "running" or "paused": m_status
  toStart,     \* the manager is to start it
  watch,       \* m_monitorThread runs
  handle,      \* m_serviceHandle: the run its service is of, 0 for none
  proc,        \* processes: kind, session, run, and job, whether it is in the job
  console,     \* the active session
  runs,        \* services started so far
  leaked,      \* history: why more than one may run
  ctlUsed      \* how much of each bound is used

ctlVars == <<controller, toStart, watch, handle, proc, console, runs, leaked, ctlUsed>>

MaxRun == MaxTrouble + MaxControls + 1

CtlTypeOK ==
  /\ controller \in {"off", "running", "paused"} /\ toStart \in BOOLEAN /\ watch \in BOOLEAN
  /\ handle \in 0..MaxRun /\ runs \in 0..MaxRun /\ console \in UserSession /\ leaked \in BOOLEAN
  /\ proc \subseteq [kind : {"service", "core"}, session : UserSession, run : 1..MaxRun, job : BOOLEAN]
  /\ ctlUsed \in [trouble : 0..MaxTrouble, controls : 0..MaxControls]

CtlInit ==
  /\ controller = "off" /\ toStart = TRUE /\ watch = FALSE /\ handle = 0 /\ proc = {}
  /\ console \in UserSession /\ runs = 0 /\ leaked = FALSE
  /\ ctlUsed = [trouble |-> 0, controls |-> 0]

SpendCtl(what, max) == ctlUsed[what] < max /\ ctlUsed' = [ctlUsed EXCEPT ![what] = @ + 1]
Trouble == SpendCtl("trouble", MaxTrouble)
Control == SpendCtl("controls", MaxControls)

Running(kind) == {p \in proc : p.kind = kind}

-----------------------------------------------------------------------------
(* ServiceController *)

\* startSynergyServiceAsUser has made the process, in the job or not.
NewService(job) ==
  [kind |-> "service", session |-> console, run |-> runs + 1, job |-> job]

\* start: the service is created in the active session, with a thread to watch it.
Start ==
  /\ controller = "off" /\ toStart
  /\ controller' = "running" /\ watch' = TRUE
  /\ handle' = runs + 1 /\ runs' = runs + 1 /\ proc' = proc \cup {NewService(TRUE)}
  /\ UNCHANGED <<toStart, console, leaked, ctlUsed>>

\* CreateThread fails: nothing watches the service.
StartUnwatched ==
  /\ controller = "off" /\ toStart /\ Trouble
  /\ controller' = "running" /\ watch' = FALSE
  /\ handle' = runs + 1 /\ runs' = runs + 1 /\ proc' = proc \cup {NewService(TRUE)}
  /\ UNCHANGED <<toStart, console, leaked>>

\* A call fails on the way: "throw" with nothing to throw again ends the controller.
\* At the last of them, AssignProcessToJobObject, the service runs already.
StartFails ==
  /\ controller = "off" /\ toStart /\ Trouble
  /\ \/ UNCHANGED <<proc, runs, leaked>>
     \/ proc' = proc \cup {NewService(FALSE)} /\ runs' = runs + 1 /\ leaked' = TRUE
  /\ UNCHANGED <<controller, toStart, watch, handle, console>>

\* findProcessInSession finds one of these, of the active session.
InSession(ps, kind) == {p \in ps : p.session = console /\ p.kind = kind}

\* The first process of each name is ended.
StopAllUserProcesses(ps, left) ==
  \E first \in SUBSET ps :
    /\ \A p \in first : p \in InSession(ps, p.kind)
    /\ \A kind \in {"service", "core"} :
         Cardinality({p \in first : p.kind = kind}) = (IF InSession(ps, kind) = {} THEN 0 ELSE 1)
    /\ left = ps \ first

MonitorServiceExits ==
  /\ controller # "off" /\ watch
  /\ \A p \in Running("service") : p.run # handle
  /\ controller' = "off" /\ watch' = FALSE /\ handle' = 0
  /\ UNCHANGED <<toStart, proc, console, runs, leaked, ctlUsed>>
MonitorServiceReturns ==
  /\ controller # "off" /\ watch
  /\ \A p \in Running("service") : p.run # handle
  /\ \E left \in SUBSET proc : StopAllUserProcesses(proc, left) /\ proc' = left
  /\ watch' = FALSE
  /\ UNCHANGED <<controller, toStart, handle, console, runs, leaked, ctlUsed>>
\* monitorService finds the service dead: ExitProcess.
MonitorService ==
  /\ controller # "off" /\ watch
  /\ \A p \in Running("service") : p.run # handle
  /\ \E left \in SUBSET proc : StopAllUserProcesses(proc, left) /\ proc' = left
  /\ controller' = "off" /\ watch' = FALSE /\ handle' = 0
  /\ UNCHANGED <<toStart, console, runs, leaked, ctlUsed>>

\* ... and TerminateProcess fails, which is logged.
MonitorServiceLeaks ==
  /\ controller # "off" /\ watch /\ proc # {}
  /\ \A p \in Running("service") : p.run # handle
  /\ Trouble /\ leaked' = TRUE
  /\ controller' = "off" /\ watch' = FALSE /\ handle' = 0
  /\ UNCHANGED <<toStart, proc, console, runs>>

\* The watch is ended before the job.
StopSynergyService ==
  /\ watch' = FALSE /\ handle' = 0
  /\ \E left \in SUBSET proc :
       StopAllUserProcesses({p \in proc : ~p.job}, left) /\ proc' = left

Stop ==
  /\ controller # "off" /\ Control /\ StopSynergyService
  /\ controller' = "off" /\ toStart' = FALSE
  /\ UNCHANGED <<console, runs, leaked>>

\* TerminateJobObject fails: it is logged, and the controller stops.
StopLeaks ==
  /\ controller # "off" /\ Trouble
  /\ controller' = "off" /\ toStart' = FALSE /\ watch' = FALSE /\ handle' = 0
  /\ leaked' = TRUE
  /\ UNCHANGED <<proc, console, runs>>

\* The computer shuts down; it starts the controller again.
ShutDownComputer ==
  /\ controller # "off" /\ Control
  /\ controller' = "off" /\ watch' = FALSE /\ handle' = 0
  /\ proc' = {} /\ leaked' = FALSE
  /\ UNCHANGED <<toStart, console, runs>>

\* The worker is not told of a pause.
Pause ==
  /\ controller = "running" /\ Control /\ controller' = "paused"
  /\ UNCHANGED <<toStart, watch, handle, proc, console, runs, leaked>>
Resume ==
  /\ controller = "paused" /\ controller' = "running"
  /\ UNCHANGED <<toStart, watch, handle, proc, console, runs, leaked, ctlUsed>>

-----------------------------------------------------------------------------
(* Windows *)

\* A service runs one core, which is in its job.
SpawnCore(p) ==
  /\ p.kind = "service" /\ ~\E q \in Running("core") : q.run = p.run
  /\ proc' = proc \cup {[p EXCEPT !.kind = "core"]}
  /\ UNCHANGED <<controller, toStart, watch, handle, console, runs, leaked, ctlUsed>>

ProcessDies(p) ==
  /\ Trouble /\ proc' = proc \ {p}
  /\ UNCHANGED <<controller, toStart, watch, handle, console, runs, leaked>>

\* Another user is at the console: what runs is in a session that is not active.
SwitchUser ==
  /\ Control /\ console' \in UserSession \ {console}
  /\ leaked' = (leaked \/ proc # {})
  /\ UNCHANGED <<controller, toStart, watch, handle, proc, runs>>

\* The user starts the controller by hand.
StartAgain ==
  /\ controller = "off" /\ ~toStart /\ Control /\ toStart' = TRUE
  /\ UNCHANGED <<controller, watch, handle, proc, console, runs, leaked>>

CtlNext ==
  \/ Start \/ StartUnwatched \/ StartFails \/ MonitorService \/ MonitorServiceLeaks
  \/ Stop \/ StopLeaks \/ ShutDownComputer \/ Pause \/ Resume \/ SwitchUser \/ StartAgain
  \/ \E p \in proc : SpawnCore(p) \/ ProcessDies(p)

CtlSpec == CtlInit /\ [][CtlNext]_ctlVars /\ WF_ctlVars(Start) /\ WF_ctlVars(MonitorService)

-----------------------------------------------------------------------------
(* Properties *)

\* Never do two services or two cores run, through services that die, restarts and
\* stops: a second core would fight the first for the mouse.  Unless a service was
\* created but not put into the job, a call that ends processes failed, or the users
\* changed places while it ran, which hides it from stopAllUserProcesses.
OneOfEach ==
  ~leaked => Cardinality(Running("service")) <= 1 /\ Cardinality(Running("core")) <= 1

\* A service that dies under a controller that watches it is replaced, unless the
\* controller is stopped.
ServiceReplaced ==
  (controller # "off" /\ watch /\ \A p \in Running("service") : p.run # handle)
    ~> (~toStart \/ \E p \in Running("service") : p.run = handle)
=============================================================================
