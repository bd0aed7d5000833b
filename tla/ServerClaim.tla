---------------------------- MODULE ServerClaim ----------------------------
(***************************************************************************)
(* Which screen is the server: the services of one profile, the router     *)
(* messages between them and the cloud.                                    *)
(*                                                                         *)
(* A screen claims the server role twice: at once, by a router message to  *)
(* the other services, and by the cloud once its core is ready.  The cloud *)
(* answers with a snapshot of the profile to every service.  A service     *)
(* keeps two profiles: the remote one is the last snapshot, the local one  *)
(* is what the service acts on.                                            *)
(*                                                                         *)
(* Slots run at once; what they post to the io_service runs later, in the  *)
(* order it was posted (posted).  CoreProcess is reduced to the role its   *)
(* core is given and whether a server core has yet to say it is ready.     *)
(* The cloud is external: it takes the claims as they come, numbers the    *)
(* versions of the profile, and keeps every service connected.             *)
(***************************************************************************)
EXTENDS Integers, Sequences

CONSTANTS
  Screen,      \* screens of the profile, each with a service
  First,       \* the server to begin with
  MaxInputs,   \* bound: claims made by users
  MaxReadies,  \* bound: cores that become ready to serve
  MaxMoves     \* bound: edits of the layout

ASSUME FirstAssumption == First \in Screen
ASSUME BoundAssumption ==
  MaxInputs \in Nat /\ MaxReadies \in Nat /\ MaxMoves \in Nat

VARIABLES
  core,      \* m_currentServerId of each service: the server its core is for
  starting,  \* services with a server core that is not yet ready
  local,     \* m_localProfileConfig
  remote,    \* m_remoteProfileConfig
  posted,    \* handlers in the io_service of each service
  net,       \* net[s][t]: server claims under way from s to t
  jobs,      \* claims each service has yet to get through to the cloud
  cloud,     \* the profile in the cloud
  push,      \* snapshots under way to each service
  contested, \* history: a claim was made before the last one had settled
  winner,    \* history: the screen that the last claim was for
  spent      \* how much of each bound is used

vars == <<core, starting, local, remote, posted, net, jobs, cloud, push,
          contested, winner, spent>>

\* layout: the positions of the screens.
Profile == [version : Nat, server : Screen, layout : BOOLEAN]

\* What the slots of CoreManager post: a claim of this screen (local input), a
\* switch to the server of the profile, a restart for a new layout.
Handler == [do : {"input", "layout"}] \union [do : {"switch"}, server : Screen]

Spent == [inputs : Nat, readies : Nat, moves : Nat]

TypeOK ==
  /\ core \in [Screen -> Screen]
  /\ starting \subseteq Screen
  /\ \A s \in starting : core[s] = s
  /\ local \in [Screen -> Profile] /\ remote \in [Screen -> Profile]
  /\ posted \in [Screen -> Seq(Handler)]
  /\ net \in [Screen -> [Screen -> Seq(Screen)]]
  /\ jobs \in [Screen -> Seq(Screen)]
  /\ cloud \in Profile
  /\ push \in [Screen -> Seq(Profile)]
  /\ contested \in BOOLEAN /\ winner \in Screen
  /\ spent \in Spent

\* Every service has the profile and First has a core that serves.
Init ==
  LET p == [version |-> 0, server |-> First, layout |-> FALSE]
  IN  /\ core = [s \in Screen |-> First]
      /\ starting = {}
      /\ local = [s \in Screen |-> p] /\ remote = [s \in Screen |-> p]
      /\ posted = [s \in Screen |-> <<>>]
      /\ net = [s \in Screen |-> [t \in Screen |-> <<>>]]
      /\ jobs = [s \in Screen |-> <<>>]
      /\ cloud = p
      /\ push = [s \in Screen |-> <<>>]
      /\ contested = FALSE /\ winner = First
      /\ spent = [inputs |-> 0, readies |-> 0, moves |-> 0]

-----------------------------------------------------------------------------
(* What the handlers do *)

\* Nothing about servers is under way.
Quiet ==
  /\ starting = {}
  /\ \A s \in Screen : /\ posted[s] = <<>> /\ jobs[s] = <<>> /\ push[s] = <<>>
                       /\ \A t \in Screen : net[s][t] = <<>>

\* CoreManager::switchServer: a server stays one, everything else starts a core.
SwitchKeepsStarting(s, server) ==
  /\ core' = [core EXCEPT ![s] = server]
  /\ starting' = IF server # s \/ core[s] = s THEN starting
                 ELSE starting \union {s}
SwitchServer(s, server) ==
  /\ core' = [core EXCEPT ![s] = server]
  /\ starting' = IF server # s THEN starting \ {s}
                 ELSE IF core[s] = s THEN starting
                 ELSE starting \union {s}

\* CoreManager::notifyServerClaim, channels being net before it.
Notified(channels, s, server) ==
  [channels EXCEPT ![s] = [t \in Screen |-> IF t = s THEN @[t]
                                            ELSE Append(@[t], server)]]

\* A claim by a user begins; it is contested if the last one has not settled.
Claims(server) ==
  /\ spent.inputs < MaxInputs
  /\ spent' = [spent EXCEPT !.inputs = @ + 1]
  /\ contested' = (contested \/ ~Quiet)
  /\ winner' = server

Post(s, handlers) == posted' = [posted EXCEPT ![s] = @ \o handlers]

\* What ProfileConfig::compare makes CoreManager post: target is a newer profile.
ChangedServer(profile, target) ==
  IF target.server # profile.server
  THEN <<[do |-> "switch", server |-> target.server]>> ELSE <<>>
Changes(profile, target) ==
  ChangedServer(profile, target)
    \o (IF target.layout # profile.layout THEN <<[do |-> "layout"]>> ELSE <<>>)

-----------------------------------------------------------------------------
(* The steps of a service *)

\* The core reports input at this screen.
LocalInput(s) ==
  /\ Claims(s)
  /\ Post(s, <<[do |-> "input"]>>)
  /\ UNCHANGED <<core, starting, local, remote, net, jobs, cloud, push>>

\* The configuration UI at s makes a screen the server (synergy.server.claim).
ClaimByUI(s, server) ==
  /\ Claims(server)
  /\ SwitchServer(s, server)
  /\ net' = Notified(net, s, server)
  /\ UNCHANGED <<local, remote, posted, jobs, cloud, push>>

\* The io_service runs the handler posted first.
RunInput(s) ==
  /\ posted[s] # <<>>
  /\ Head(posted[s]).do = "input"
  /\ SwitchServer(s, s)
  /\ net' = Notified(net, s, s)
  /\ posted' = [posted EXCEPT ![s] = Tail(@)]
  /\ UNCHANGED <<local, remote, jobs, cloud, push, contested, winner, spent>>

RunSwitch(s) ==
  /\ posted[s] # <<>>
  /\ Head(posted[s]).do = "switch"
  /\ SwitchServer(s, Head(posted[s]).server)
  /\ posted' = [posted EXCEPT ![s] = Tail(@)]
  /\ UNCHANGED <<local, remote, net, jobs, cloud, push, contested, winner,
                 spent>>

\* A server restarts its core, and claims again to make its clients reconnect.
RunLayout(s) ==
  /\ posted[s] # <<>>
  /\ Head(posted[s]).do = "layout"
  /\ IF core[s] = s
     THEN /\ starting' = starting \union {s}
          /\ net' = Notified(net, s, s)
     ELSE UNCHANGED <<starting, net>>
  /\ posted' = [posted EXCEPT ![s] = Tail(@)]
  /\ UNCHANGED <<core, local, remote, jobs, cloud, push, contested, winner,
                 spent>>

\* ClaimMessageHandler.
ReceiveClaim(s, t) ==
  /\ net[s][t] # <<>>
  /\ SwitchServer(t, Head(net[s][t]))
  /\ net' = [net EXCEPT ![s][t] = Tail(@)]
  /\ UNCHANGED <<local, remote, posted, jobs, cloud, push, contested, winner,
                 spent>>

\* serverReady: ProfileConfig::claimServer on the local profile, and compare of the
\* remote profile with it, which makes CloudClient send the claim.
ReadyWhenNewer(s) ==
  LET mine == [local[s] EXCEPT !.server = s]
  IN  /\ s \in starting
      /\ spent.readies < MaxReadies
      /\ spent' = [spent EXCEPT !.readies = @ + 1]
      /\ starting' = starting \ {s}
      /\ local' = [local EXCEPT ![s] = mine]
      /\ jobs' = IF mine.version > remote[s].version /\ remote[s].server # s
                 THEN [jobs EXCEPT ![s] = Append(@, s)] ELSE jobs
      /\ UNCHANGED <<core, remote, posted, net, cloud, push, contested, winner>>
Ready(s) ==
  LET mine == [local[s] EXCEPT !.server = s]
  IN  /\ s \in starting
      /\ spent.readies < MaxReadies
      /\ spent' = [spent EXCEPT !.readies = @ + 1]
      /\ starting' = starting \ {s}
      /\ local' = [local EXCEPT ![s] = mine]
      /\ jobs' = IF mine.version >= remote[s].version /\ remote[s].server # s
                 THEN [jobs EXCEPT ![s] = Append(@, s)] ELSE jobs
      /\ UNCHANGED <<core, remote, posted, net, cloud, push, contested, winner>>

\* A snapshot arrives: it becomes the remote profile, and the local profile if
\* compare, which gives up on an older version, finds a difference.
ReceiveSnapshot(s) ==
  LET snapshot == Head(push[s])
      changes  == IF snapshot.version < local[s].version THEN <<>>
                  ELSE Changes(local[s], snapshot)
  IN  /\ push[s] # <<>>
      /\ push' = [push EXCEPT ![s] = Tail(@)]
      /\ remote' = [remote EXCEPT ![s] = snapshot]
      /\ local' = [local EXCEPT ![s] = IF changes # <<>> THEN snapshot ELSE @]
      /\ Post(s, changes)
      /\ UNCHANGED <<core, starting, net, jobs, cloud, contested, winner, spent>>

-----------------------------------------------------------------------------
(* The cloud *)

\* The profile changes and every service is sent a snapshot of it.
Publish(profile) ==
  /\ cloud' = profile
  /\ push' = [s \in Screen |-> Append(push[s], profile)]
  /\ UNCHANGED <<core, starting, local, remote, posted, net, winner>>

TakeClaim(s) ==
  /\ jobs[s] # <<>>
  /\ jobs' = [jobs EXCEPT ![s] = Tail(@)]
  /\ Publish([cloud EXCEPT !.version = @ + 1, !.server = Head(jobs[s])])
  /\ UNCHANGED <<contested, spent>>

\* A user moves screens in the configuration UI.
MoveScreens ==
  /\ spent.moves < MaxMoves
  /\ spent' = [spent EXCEPT !.moves = @ + 1]
  /\ contested' = (contested \/ ~Quiet)
  /\ Publish([cloud EXCEPT !.version = @ + 1, !.layout = ~@])
  /\ UNCHANGED jobs

Next ==
  \/ \E s \in Screen : \/ LocalInput(s) \/ RunInput(s) \/ RunSwitch(s)
                       \/ RunLayout(s) \/ Ready(s) \/ ReceiveSnapshot(s)
                       \/ TakeClaim(s)
                       \/ \E t \in Screen : ClaimByUI(s, t) \/ ReceiveClaim(s, t)
  \/ MoveScreens

Spec == Init /\ [][Next]_vars

-----------------------------------------------------------------------------
(* Properties *)

\* Whatever crossed, the local profile of a service differs from the last snapshot
\* it got only in a claim of its own and, since apply stores a snapshot only when
\* compare finds a difference, in an older version (ProfileConfig::apply).
LocalFollows ==
  \A s \in Screen : /\ local[s].version <= remote[s].version
                     /\ local[s].layout = remote[s].layout
                     /\ local[s].server \in {s, remote[s].server}

\* Once nothing is under way, a service that disagrees with the cloud about the
\* server has claimed to be it while its local version lagged behind the cloud's:
\* nothing else loses a claim (ProfileConfig::claimServer, compare).
LostOnlyByLag ==
  Quiet => \A s \in Screen :
             \/ local[s].server = cloud.server
             \/ local[s].server = s /\ local[s].version < cloud.version

\* Claims that do not cross do what they say: every core is for the screen that
\* was claimed last, and so is the cloud.
SettledClaimWins ==
  Quiet /\ ~contested => /\ cloud.server = winner
                         /\ \A s \in Screen : core[s] = winner

\* Input at a screen is there for "claiming this computer as server in local
\* network" (CoreManager.cpp line 96): some computer is the server afterwards.
SomeServer == Quiet => \E s \in Screen : core[s] = s
=============================================================================
