----------------------------- MODULE CoreProcess -----------------------------
(***************************************************************************)
(* One service's control of its synergy-core process: the requests that    *)
(* reach CoreManager, CoreProcess (next command, last command, retry timer)*)
(* and CoreProcessImpl (the running child).                                *)
(*                                                                         *)
(* Everything runs on one io_service, so a handler is one step, with one   *)
(* exception.  CoreProcessImpl calls io_service::poll() in the middle of   *)
(* shutdown() and of its on_exit handler; poll() runs every handler that   *)
(* is ready, nested in the caller.  calls is the stack of callers that are *)
(* inside poll(): while it is not empty any handler may run, and PollDone  *)
(* resumes the innermost caller.                                           *)
(*                                                                         *)
(* A command is the mode and the user the core runs as; the client command *)
(* is the same for every server, ServerProxy (proxy) does the forwarding.  *)
(* A child that cannot be spawned throws out of io_service::run and ends   *)
(* the service: not modelled.                                              *)
(***************************************************************************)
EXTENDS Integers, Sequences, SequencesExt

CONSTANTS
  Screen,       \* screen ids of the profile
  Self,         \* the local screen
  User,         \* uids the session monitor reports
  FirstUser,    \* the uid at start
  None,         \* no command, no child, no server
  MaxRequests,  \* bound: requests that reach CoreManager
  MaxCrashes    \* bound: exits nobody asked for

ASSUME ScreenAssumption == Self \in Screen /\ None \notin Screen
ASSUME UserAssumption == FirstUser \in User
ASSUME CapAssumption == MaxRequests \in Nat /\ MaxCrashes \in Nat

VARIABLES
  mode,           \* m_processMode
  currentServer,  \* m_currentServerId
  disabled,       \* m_disabled
  user,           \* m_runAsUid of ProcessCommand
  proxy,          \* the server ServerProxy forwards to
  impl,           \* m_impl: None, or the child
  next,           \* m_nextCommand
  last,           \* m_lastCommand
  retry,          \* m_retryTimer and the command its handler holds
  calls,          \* the callers inside poll(), innermost last
  raced,          \* history: the last start met an exit not yet dealt with
  requests, crashes

vars == <<mode, currentServer, disabled, user, proxy, impl, next, last, retry,
          calls, raced, requests, crashes>>

Command == [mode : {"server", "client"}, user : User]

\* expecting: m_expectingExit.  A "dead" child's on_exit handler is due, a
\* "reaped" child's has begun.
Impl == [command : Command, expecting : BOOLEAN,
         child : {"running", "dead", "reaped"}]

\* "due": the timer has expired and its handler is queued; cancelling it no
\* longer has an effect.
Timer == [state : {"idle"}, command : {None}]
           \union [state : {"armed", "due"}, command : Command]

\* gone: the CoreProcessImpl the caller belongs to has been destroyed.
Call == [in : {"shutdown", "on_exit"}, gone : BOOLEAN]

Idle == [state |-> "idle", command |-> None]

ASSUME NoneAssumption == None \notin Command /\ None \notin Impl

TypeOK ==
  /\ mode \in {"unknown", "server", "client"}
  /\ currentServer \in Screen \union {None}
  /\ mode = "server" => currentServer = Self
  /\ mode = "client" => currentServer \in Screen \ {Self}
  /\ disabled \in BOOLEAN
  /\ user \in User
  /\ proxy \in Screen \union {None}
  /\ impl \in Impl \union {None}
  /\ next \in Command \union {None}
  /\ last \in Command \union {None}
  /\ retry \in Timer
  /\ calls \in Seq(Call)
  /\ raced \in BOOLEAN
  /\ requests \in 0 .. MaxRequests
  /\ crashes \in 0 .. MaxCrashes

Init ==
  /\ mode = "unknown" /\ currentServer = None
  /\ disabled = FALSE
  /\ user = FirstUser
  /\ proxy = None
  /\ impl = None
  /\ next = None /\ last = None
  /\ retry = Idle
  /\ calls = <<>>
  /\ raced = FALSE
  /\ requests = 0 /\ crashes = 0

-----------------------------------------------------------------------------
(* CoreProcess and CoreProcessImpl *)

\* The stack once the current CoreProcessImpl is destroyed.
AllGone(stack) == [i \in DOMAIN stack |-> [stack[i] EXCEPT !.gone = TRUE]]

\* CoreProcessImpl::shutdown up to its poll(): a second request is ignored.
ImplShutdown ==
  IF impl.expecting
  THEN UNCHANGED <<impl, calls>>
  ELSE /\ impl' = [impl EXCEPT !.expecting = TRUE]
       /\ calls' = Append(calls, [in |-> "shutdown", gone |-> FALSE])

\* CoreProcess::shutdown.
Shutdown == IF impl = None THEN UNCHANGED <<impl, calls>> ELSE ImplShutdown

Cancelled == IF retry.state = "armed" THEN Idle ELSE retry

Launch(command) ==
  /\ last' = command
  /\ impl' = [command |-> command, expecting |-> FALSE, child |-> "running"]

\* CoreProcess::start after the timer: launch, or replace the child.
Replace(command) ==
  IF impl = None THEN Launch(command) /\ UNCHANGED <<next, calls>>
  ELSE next' = command /\ ImplShutdown /\ UNCHANGED last

\* CoreProcess::start, when not disabled.
StartKeepsTimer(command) == UNCHANGED retry /\ Replace(command)
Start(command) == retry' = Cancelled /\ Replace(command)

\* An exit nobody asked for is being handled, or its retry is queued.
ExitInProgress ==
  \/ retry.state = "due"
  \/ \E i \in DOMAIN calls : calls[i].in = "on_exit"

\* CoreProcess::startServer and startClient, with the uid u and m_disabled off.
StartAsKeepsServer(m, server, u, off) ==
  IF off
  THEN UNCHANGED <<mode, currentServer, impl, next, last, retry, calls, raced>>
  ELSE /\ mode' = m /\ UNCHANGED currentServer
       /\ Start([mode |-> m, user |-> u])
       /\ raced' = ExitInProgress
StartAs(m, server, u, off) ==
  IF off
  THEN UNCHANGED <<mode, currentServer, impl, next, last, retry, calls, raced>>
  ELSE /\ mode' = m /\ currentServer' = server
       /\ Start([mode |-> m, user |-> u])
       /\ raced' = ExitInProgress

Child == <<impl, next, last, retry, calls, raced>>

\* CoreManager::restart.
Restart(u, off) ==
  IF mode = "unknown" THEN UNCHANGED <<mode, currentServer, Child>>
  ELSE StartAs(mode, IF mode = "server" THEN Self ELSE currentServer, u, off)

-----------------------------------------------------------------------------
(* Requests: RPC handlers, messages, and the handlers CoreManager posts *)

Request ==
  /\ requests < MaxRequests
  /\ requests' = requests + 1
  /\ UNCHANGED crashes

\* CoreManager::pause: the RPC, or the local screen left the profile.
DisableOnly ==
  /\ Request
  /\ disabled' = TRUE
  /\ UNCHANGED <<mode, currentServer, user, proxy, Child>>
Pause ==
  /\ Request
  /\ disabled' = TRUE
  /\ Shutdown
  /\ UNCHANGED <<mode, currentServer, user, proxy, next, last, retry, raced>>

\* CoreManager::resume, and the local screen came back to the profile.
EnableOnly ==
  /\ Request
  /\ disabled' = FALSE
  /\ UNCHANGED <<mode, currentServer, user, proxy, Child>>
Resume ==
  /\ Request
  /\ disabled' = FALSE
  /\ Restart(user, FALSE)
  /\ UNCHANGED <<user, proxy>>

\* CoreManager::switchServer: local input, a claim from another screen or a
\* new server in the profile.
SwitchServer(server) ==
  /\ Request
  /\ IF server = Self
     THEN /\ UNCHANGED proxy
          /\ IF mode = "server"
             THEN UNCHANGED <<mode, currentServer, Child>>
             ELSE StartAs("server", Self, user, disabled)
     ELSE /\ proxy' = server
          /\ StartAs("client", server, user, disabled)
  /\ UNCHANGED <<disabled, user>>

\* A screen moved, came or went: a server starts again with the new layout.
LayoutChanged ==
  /\ Request
  /\ mode = "server"
  /\ StartAs("server", Self, user, disabled)
  /\ UNCHANGED <<disabled, user, proxy>>

\* CoreManager::setRunAsUid and setDisplay.
SetRunAsUid(u) ==
  /\ Request
  /\ u # user
  /\ user' = u
  /\ Restart(u, disabled)
  /\ UNCHANGED <<disabled, proxy>>

-----------------------------------------------------------------------------
(* The child, its exit and the retry *)

\* The core stops by itself.
Crash ==
  /\ impl # None /\ impl.child = "running"
  /\ crashes < MaxCrashes
  /\ crashes' = crashes + 1
  /\ impl' = [impl EXCEPT !.child = "dead"]
  /\ UNCHANGED <<mode, currentServer, disabled, user, proxy, next, last, retry,
                 calls, raced, requests>>

\* The slot of expectedExit.
ExpectedExit ==
  /\ calls' = AllGone(calls)
  /\ IF next = None THEN impl' = None /\ UNCHANGED <<next, last, retry>>
     ELSE /\ next' = None
          /\ IF disabled
             THEN impl' = None /\ UNCHANGED <<last, retry>>
             ELSE retry' = Cancelled /\ Launch(next)

\* The on_exit handler, up to its poll() when the exit is not expected.  A
\* retry that is due was queued before the child that follows it was spawned.
OnExit ==
  /\ impl # None /\ impl.child = "dead"
  /\ retry.state # "due"
  /\ IF impl.expecting THEN ExpectedExit
     ELSE /\ impl' = [impl EXCEPT !.child = "reaped"]
          /\ calls' = Append(calls, [in |-> "on_exit", gone |-> FALSE])
          /\ UNCHANGED <<next, last, retry>>
  /\ UNCHANGED <<mode, currentServer, disabled, user, proxy, raced, requests,
                 crashes>>

\* The slot of unexpectedExit.
UnexpectedExitGivesUp(stack) ==
  /\ impl' = None
  /\ calls' = AllGone(stack)
  /\ UNCHANGED <<last, retry>>
UnexpectedExit(stack) ==
  /\ impl' = None
  /\ calls' = AllGone(stack)
  /\ IF last = None THEN UNCHANGED <<last, retry>>
     ELSE /\ retry' = [state |-> "armed", command |-> last]
          /\ last' = None

\* m_process->terminate().  On a destroyed CoreProcessImpl it reads memory that
\* was freed: it finds no child, or that of a new CoreProcessImpl in its place.
Terminated(gone) ==
  LET killed == IF impl # None /\ impl.child = "running"
                THEN [impl EXCEPT !.child = "dead"] ELSE impl
  IN  IF gone THEN {impl, killed} ELSE {killed}

\* poll() returns to the innermost caller, which ends.
PollDone ==
  /\ calls # <<>>
  /\ IF Last(calls).in = "on_exit" THEN UnexpectedExit(Front(calls))
     ELSE /\ impl' \in Terminated(Last(calls).gone)
          /\ calls' = Front(calls)
          /\ UNCHANGED <<last, retry>>
  /\ UNCHANGED <<mode, currentServer, disabled, user, proxy, next, raced,
                 requests, crashes>>

RetryExpires ==
  /\ retry.state = "armed"
  /\ retry' = [retry EXCEPT !.state = "due"]
  /\ UNCHANGED <<mode, currentServer, disabled, user, proxy, impl, next, last,
                 calls, raced, requests, crashes>>

\* The handler of m_retryTimer.
RetryFires ==
  /\ retry.state = "due"
  /\ retry' = Idle
  /\ IF disabled THEN UNCHANGED <<impl, next, last, calls>>
     ELSE Replace(retry.command)
  /\ UNCHANGED <<mode, currentServer, disabled, user, proxy, raced, requests,
                 crashes>>

Next ==
  \/ Pause
  \/ Resume
  \/ \E server \in Screen : SwitchServer(server)
  \/ LayoutChanged
  \/ \E u \in User : SetRunAsUid(u)
  \/ Crash
  \/ OnExit
  \/ PollDone
  \/ RetryExpires
  \/ RetryFires

Spec == Init /\ [][Next]_vars

\* The io_service keeps running ready handlers, poll() returns once none is
\* ready, and the timer expires.
FairSpec ==
  Spec /\ WF_vars(OnExit) /\ WF_vars(PollDone)
       /\ WF_vars(RetryExpires) /\ WF_vars(RetryFires)

-----------------------------------------------------------------------------
(* Properties *)

\* A service that is enabled and knows its mode is never left without a core:
\* there is a child, or a retry will start one.
NeverStranded ==
  mode # "unknown" /\ ~disabled => impl # None \/ retry # Idle

\* The command that the core runs with once every exit and retry on its way has
\* been handled.
Surviving ==
  CASE impl = None -> retry.command
    [] impl # None /\ impl.expecting -> next
    [] OTHER -> impl.command

\* The core that is left is the one asked for last (its mode and its uid),
\* however requests, exits, retries and nested handlers interleave, unless
\* that request came while an unexpected exit was being handled (CoreProcess.cpp
\* lines 44 to 59 start the command of the core that exited).
LastRequestWins ==
  mode # "unknown" /\ ~disabled /\ ~raced
    => Surviving = [mode |-> mode, user |-> user]

\* A paused service ends up with no core, or is resumed.
PauseStops == [](disabled => <>(impl = None \/ ~disabled))

\* Whatever exits, an enabled service always gets back to a running core.
CoreComesBack ==
  []<>(\/ mode = "unknown" \/ disabled
       \/ impl # None /\ impl.child = "running" /\ ~impl.expecting)

\* shutdown() and the on_exit handler enter poll() to "Cancel the standard
\* stream I/O loops" (CoreProcessImpl.cpp lines 72 and 119): the object they
\* belong to is still there when poll() returns.
CallersSurvivePoll == \A i \in DOMAIN calls : ~calls[i].gone
=============================================================================
