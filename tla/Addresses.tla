----------------------------- MODULE Addresses -----------------------------
(***************************************************************************)
(* IPMonitor, which polls the addresses of the computer while the service  *)
(* is online, and what ServiceWorker makes of a change: a job that updates *)
(* the screen's list in the cloud, if it differs from the local profile's. *)
(*                                                                         *)
(* An address list is a number.  External: the network, the cloud.         *)
(***************************************************************************)
EXTENDS Integers, Sequences

CONSTANTS
  MaxAddresses,  \* bound: changes of the addresses
  MaxOutages     \* bound: websocket errors

ASSUME AddressesAssumption == MaxAddresses \in Nat /\ MaxOutages \in Nat

VARIABLES
  addr,        \* the addresses of the computer, 1 or 2
  ipRunning,   \* m_running
  ipLoop,      \* the coroutine: "none", "spawned", "waiting", "due" or "aborted"
  known,       \* m_knownIPAddresses, 0 before the first poll
  profAddr,     \* ipList of the screen in the local profile, 0 without the screen
  ipJobs,      \* updates on their way
  cloudAddr,   \* the list in the cloud
  ipPush,      \* the list in the snapshots under way
  ipOnline,    \* the websocket is up
  passed,      \* history: the last change was passed over, see Poll
  ipUsed       \* how much of each bound is used

addrVars == <<addr, ipRunning, ipLoop, known, profAddr, ipJobs, cloudAddr, ipPush, ipOnline,
              passed, ipUsed>>

AddressTypeOK ==
  /\ addr \in 1..2 /\ cloudAddr \in 0..2 /\ known \in 0..2 /\ profAddr \in 0..2
  /\ ipRunning \in BOOLEAN /\ ipOnline \in BOOLEAN /\ passed \in BOOLEAN
  /\ ipLoop \in {"none", "spawned", "waiting", "due", "aborted"}
  /\ ipJobs \in Seq(1..2) /\ ipPush \in Seq(0..2)
  /\ ipUsed \in [changes : 0..MaxAddresses, outages : 0..MaxOutages]

AddressInit ==
  /\ addr \in 1..2 /\ cloudAddr \in 1..2
  /\ ipRunning = FALSE /\ ipLoop = "none" /\ known = 0 /\ profAddr = 0
  /\ ipJobs = <<>> /\ ipPush = <<>> /\ ipOnline = FALSE /\ passed = FALSE
  /\ ipUsed = [changes |-> 0, outages |-> 0]

-----------------------------------------------------------------------------
(* ServiceWorker *)

\* The websocket comes up and the cloud sends a snapshot.  A wait that stop cancelled has
\* ended by then: its handler was queued before the reconnect began.
IpConnected ==
  /\ ~ipOnline /\ ipLoop # "aborted"
  /\ ipOnline' = TRUE /\ ipPush' = <<cloudAddr>>
  /\ UNCHANGED <<addr, ipRunning, ipLoop, known, profAddr, ipJobs, cloudAddr, passed, ipUsed>>

\* A snapshot is applied, and IPMonitor::start.
IpSnapshot ==
  /\ ipPush # <<>>
  /\ profAddr' = Head(ipPush) /\ ipPush' = Tail(ipPush)
  /\ IF ipRunning THEN UNCHANGED <<ipRunning, ipLoop>>
     ELSE ipRunning' = TRUE /\ ipLoop' = "spawned"
  /\ UNCHANGED <<addr, known, ipJobs, cloudAddr, ipOnline, passed, ipUsed>>

\* websocketError: IPMonitor::stop, which cancels a wait but neither a loop that has yet
\* to begin nor one whose timer has expired.  A refused session clears the profile.
IpError(refused) ==
  /\ ipOnline /\ ipUsed.outages < MaxOutages
  /\ ipUsed' = [ipUsed EXCEPT !.outages = @ + 1]
  /\ ipOnline' = FALSE /\ ipPush' = <<>>
  /\ profAddr' = IF refused THEN 0 ELSE profAddr
  /\ ipLoop' = IF ipLoop = "waiting" THEN "aborted" ELSE ipLoop
  /\ UNCHANGED <<addr, ipRunning, known, ipJobs, cloudAddr, passed>>

-----------------------------------------------------------------------------
(* IPMonitor *)

LoopBegins ==
  /\ ipLoop = "spawned" /\ ipLoop' = "waiting"
  /\ UNCHANGED <<addr, ipRunning, known, profAddr, ipJobs, cloudAddr, ipPush, ipOnline, passed, ipUsed>>

PollTimerExpires ==
  /\ ipLoop = "waiting" /\ ipLoop' = "due"
  /\ UNCHANGED <<addr, ipRunning, known, profAddr, ipJobs, cloudAddr, ipPush, ipOnline, passed, ipUsed>>

LoopAbortsRunning ==
  /\ ipLoop = "aborted" /\ ipLoop' = "none"
  /\ UNCHANGED <<addr, ipRunning, known, profAddr, ipJobs, cloudAddr, ipPush, ipOnline, passed, ipUsed>>
LoopAborts ==
  /\ ipLoop = "aborted" /\ ipLoop' = "none" /\ ipRunning' = FALSE
  /\ UNCHANGED <<addr, known, profAddr, ipJobs, cloudAddr, ipPush, ipOnline, passed, ipUsed>>

\* A poll: known addresses that change are remembered, then told if the profile has the
\* screen, with another list.  passed: the profile had no such
\* screen, or a list that was out of date: offline, or with an update under way.
Poll ==
  /\ ipLoop = "due" /\ ipLoop' = "waiting"
  /\ known' = addr
  /\ IF addr = known THEN UNCHANGED <<ipJobs, passed>>
     ELSE IF profAddr \notin {0, addr}
     THEN ipJobs' = Append(ipJobs, addr) /\ passed' = FALSE
     ELSE /\ passed' = (profAddr = 0 \/ ~ipOnline \/ ipJobs # <<>> \/ ipPush # <<>>)
          /\ UNCHANGED ipJobs
  /\ UNCHANGED <<addr, ipRunning, profAddr, cloudAddr, ipPush, ipOnline, ipUsed>>

-----------------------------------------------------------------------------
AddressesChange ==
  /\ ipUsed.changes < MaxAddresses
  /\ ipUsed' = [ipUsed EXCEPT !.changes = @ + 1]
  /\ addr' = 3 - addr
  /\ UNCHANGED <<ipRunning, ipLoop, known, profAddr, ipJobs, cloudAddr, ipPush, ipOnline, passed>>

IpTaken ==
  /\ ipJobs # <<>>
  /\ cloudAddr' = Head(ipJobs) /\ ipJobs' = Tail(ipJobs)
  /\ ipPush' = IF ipOnline THEN Append(ipPush, cloudAddr') ELSE ipPush
  /\ UNCHANGED <<addr, ipRunning, ipLoop, known, profAddr, ipOnline, passed, ipUsed>>

\* Websocket, HTTP session and coroutine make progress each by itself.
IpWebsocket == IpConnected \/ IpSnapshot
IpCoroutine == LoopBegins \/ PollTimerExpires \/ LoopAborts \/ Poll

AddressNext == IpWebsocket \/ IpCoroutine \/ IpTaken \/ AddressesChange \/ (\E refused \in BOOLEAN : IpError(refused))

-----------------------------------------------------------------------------
(* Properties *)

\* In the end the cloud has the addresses of a computer that is online, however polls,
\* outages and snapshots cross; unless the change was passed over while the profile did
\* not have the screen, or had an old list that happened to be the new one: before an
\* earlier update came back, or offline, when a stop had come too late to end the polls.
AddressReported == <>[](ipOnline => passed \/ cloudAddr = addr)
=============================================================================
