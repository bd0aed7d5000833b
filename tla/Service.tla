------------------------------ MODULE Service ------------------------------
(***************************************************************************)
(* ServiceWorker: who the user is, the profile the service acts on, and    *)
(* what follows from it for the core and the router of one computer.       *)
(*                                                                         *)
(* The configuration UI registers a screen in a profile of the cloud and   *)
(* hands profile and screen to the service (synergy.auth.update).  The     *)
(* websocket then brings snapshots.  A snapshot that has the screen starts *)
(* core and router; one that has lost it logs the service out.             *)
(*                                                                         *)
(* What slots post runs later, in order (todo).  CoreProcess is reduced to *)
(* its mode and whether it has a core, WebsocketSession to its state.      *)
(* Claims, whose outcome is in ServerClaim, are here what other screens do.*)
(*                                                                         *)
(* External: the cloud; the operating system, which starts a service again *)
(* that has died; autobahn, which answers a call that throws by an error.  *)
(***************************************************************************)
EXTENDS Integers, Sequences, SequencesExt

CONSTANTS
  ProfileId,  \* profiles of the cloud
  MaxIds,     \* bound: ids this computer's screen is registered under, 1 and up
  Other,      \* the screen of another computer, in every profile and the server
  MaxEdits,   \* bound: edits of the profiles in the cloud
  MaxCalls,   \* bound: calls of the UI and the tray
  MaxBreaks   \* bound: lost connections, refused logins, crashes

ASSUME ServiceAssumption ==
  /\ ProfileId \subseteq Nat \ {0} /\ MaxIds \in Nat \ {0} /\ Other \in Nat \ (0..MaxIds)
  /\ MaxEdits \in Nat /\ MaxCalls \in Nat /\ MaxBreaks \in Nat

VARIABLES
  user,     \* m_userConfig: [profile, screen], 0 for -1
  disk,     \* the user configuration file
  mine,     \* m_localProfileConfig
  theirs,   \* m_remoteProfileConfig
  held,     \* m_lastProfileSnapshot is not empty
  proc,     \* CoreProcess: [mode, server, disabled, up]
  router,   \* id_ of the router that runs, or 0
  todo,     \* handlers posted
  ws,       \* WebsocketSession: [channel, state]
  pushed,   \* snapshots under way
  cloud,    \* the profiles in the cloud
  past,     \* history: see Past
  budget    \* how much of each bound is used

serviceVars == <<user, disk, mine, theirs, held, proc, router, todo, ws, pushed, cloud,
                 past, budget>>

Mine == 1..MaxIds
AnyScreen == Mine \union {Other}

ProfileRecord == [id : ProfileId \union {0}, version : Int, server : AnyScreen \union {0},
                  screens : SUBSET AnyScreen, online : SUBSET AnyScreen]

Handlers == [do : {"switch"}, server : AnyScreen] \union [do : {"added"}, screens : SUBSET AnyScreen]
              \union [do : {"set changed"}]

Past == {"reentered",  \* core was resumed by a call that ran inside the removal of the screen
         "moved",      \* a login came while another was in force, or for a screen that was
                       \* in the profile before
         "missed",     \* a switch of the server came while the core was disabled
         "older"}      \* a snapshot of the user's profile was taken for an old one

\* UserConfig: reset, save and load.  A file has a section for each part it was given;
\* one that is not there leaves the defaults.
Nobody == [profile |-> 0, screen |-> 0]
NoFile == [sections |-> {}]
MakeTable(u) ==
  [sections |-> {"auth", "profile", "system"}, profileId |-> u.profile, screenId |-> u.screen]
Load(file) ==
  IF "profile" \in file.sections
  THEN [profile |-> file.profileId, screen |-> file.screenId]
  ELSE Nobody

ServiceTypeOK ==
  /\ user \in [profile : ProfileId \union {0}, screen : Mine \union {0}] /\ Load(disk) = user
  /\ mine \in ProfileRecord /\ theirs \in ProfileRecord
  /\ held \in BOOLEAN /\ router \in Mine \union {0}
  /\ proc \in [mode : {"unknown", "client", "server"}, server : AnyScreen \union {0},
               disabled : BOOLEAN, up : BOOLEAN]
  /\ todo \in Seq(Handlers)
  /\ ws \in [channel : ProfileId \union {0}, state : {"down", "trying", "up"}]
  /\ pushed \in Seq(ProfileRecord) /\ cloud \in [ProfileId -> ProfileRecord]
  /\ past \subseteq Past
  /\ budget \in [ids : Mine, edits : 0..MaxEdits, calls : 0..MaxCalls, breaks : 0..MaxBreaks]

NoProfile == [id |-> 0, version |-> -1, server |-> 0, screens |-> {}, online |-> {}]
NewProc == [mode |-> "unknown", server |-> 0, disabled |-> FALSE, up |-> FALSE]

\* The UI has registered screen 1 in some profile.  Profile p begins at version p:
\* versions are counted for each profile.
ServiceInit ==
  /\ user = Nobody /\ disk = NoFile
  /\ mine = NoProfile /\ theirs = NoProfile /\ held = FALSE
  /\ proc = NewProc /\ router = 0 /\ todo = <<>>
  /\ ws = [channel |-> 0, state |-> "down"] /\ pushed = <<>>
  /\ \E first \in ProfileId :
       cloud = [p \in ProfileId |->
                  [id |-> p, version |-> p, server |-> Other, online |-> {Other},
                   screens |-> IF p = first THEN {Other, 1} ELSE {Other}]]
  /\ past = {} /\ budget = [ids |-> 1, edits |-> 0, calls |-> 0, breaks |-> 0]

Called == budget.calls < MaxCalls /\ budget' = [budget EXCEPT !.calls = @ + 1]
Broken == budget.breaks < MaxBreaks /\ budget' = [budget EXCEPT !.breaks = @ + 1]

-----------------------------------------------------------------------------
(* CoreManager and CoreProcess *)

\* startServer and startClient: localScreenName throws when the local profile does not
\* have the screen; the mode is set by then and there is no core.
StartedAnyway(p, mode, server, u, profile) ==
  IF p.disabled THEN p ELSE [p EXCEPT !.mode = mode, !.server = server, !.up = TRUE]
Started(p, mode, server, u, profile) ==
  IF p.disabled THEN p
  ELSE [p EXCEPT !.mode = mode, !.server = server, !.up = u.screen \in profile.screens]

Throws(p, u, profile) == ~p.disabled /\ u.screen \notin profile.screens

Switched(p, server) ==
  Started(p, IF server = user.screen THEN "server" ELSE "client", server, user, mine)

\* restart: in the mode it had.
Restarted(p) ==
  IF p.mode = "unknown" THEN p
  ELSE Started(p, p.mode, IF p.mode = "server" THEN user.screen ELSE p.server, user, mine)

\* The operating system starts the service again, with the user that was saved
\* (UserConfig::load, CloudClient::load).
Reborn(file) ==
  /\ disk' = file
  /\ user' = Load(file) /\ mine' = NoProfile /\ theirs' = NoProfile /\ held' = FALSE
  /\ proc' = NewProc /\ router' = 0 /\ todo' = <<>> /\ pushed' = <<>>
  /\ ws' = [channel |-> Load(file).profile,
            state   |-> IF Load(file).profile = 0 THEN "down" ELSE "trying"]
  /\ UNCHANGED cloud

\* A handler that throws ends io_service::run and the process.
Crash == Broken /\ Reborn(disk) /\ UNCHANGED past

\* synergy.service.restart, or a signal: shutdown stops the core and runs what is left,
\* and the destructor saves the user.
Shutdown == Called /\ Reborn(MakeTable(user)) /\ UNCHANGED past

\* A step that starts a core, or does nothing; next is what is left to do.
StartOrDie(starts, p, next) ==
  IF starts /\ p.mode # "unknown" /\ Throws(p, user, mine)
  THEN Reborn(disk)
  ELSE /\ proc' = p /\ todo' = next
       /\ UNCHANGED <<user, disk, mine, theirs, held, router, ws, pushed, cloud>>

\* switchServer: a server that is to be the server stays as it is.
SwitchServerTo(s, next) ==
  LET starts == ~(proc.mode = "server" /\ s = user.screen)
  IN  /\ StartOrDie(starts, IF starts THEN Switched(proc, s) ELSE proc, next)
      /\ past' = IF starts /\ proc.disabled THEN past \union {"missed"} ELSE past

RunSwitched ==
  /\ todo # <<>> /\ Head(todo).do = "switch"
  /\ SwitchServerTo(Head(todo).server, Tail(todo))
  /\ UNCHANGED budget

\* Of the screens added, this computer's restarts the core, also one that was paused.
RunAdded ==
  /\ todo # <<>> /\ Head(todo).do = "added"
  /\ LET isLocal == user.screen \in Head(todo).screens
         p == IF isLocal THEN Restarted([proc EXCEPT !.disabled = FALSE]) ELSE proc
     IN  StartOrDie(isLocal, p, Tail(todo))
  /\ UNCHANGED <<past, budget>>

\* A server restarts for the new set of screens.
RunSetChanged ==
  /\ todo # <<>> /\ Head(todo).do = "set changed"
  /\ LET serves == proc.mode = "server"
     IN  StartOrDie(serves, IF serves THEN Restarted(proc) ELSE proc, Tail(todo))
  /\ UNCHANGED <<past, budget>>

\* A claim comes from another screen, for itself or for this one (ClaimMessageHandler).
ClaimArrives(s) ==
  /\ router # 0 /\ user.profile # 0 /\ Called
  /\ SwitchServerTo(s, todo)

-----------------------------------------------------------------------------
(* Snapshots *)

\* What compare makes CoreManager post.
PostsNoServer(old, new) ==
  IF new.screens # old.screens
  THEN <<[do |-> "added", screens |-> new.screens \ old.screens], [do |-> "set changed"]>>
  ELSE <<>>
Posts(old, new) ==
  (IF new.server # old.server THEN <<[do |-> "switch", server |-> new.server]>> ELSE <<>>)
    \o (IF new.screens # old.screens
        THEN <<[do |-> "added", screens |-> new.screens \ old.screens], [do |-> "set changed"]>>
        ELSE <<>>)

\* screenOnline of this computer's screen: Router::start, which a running router ignores.
RouterStarted(old, new) ==
  IF router = 0 /\ user.screen \in new.online \ old.online THEN user.screen ELSE router

\* The screen was removed: the core is paused and the websocket shut down, which runs
\* what was posted, to no effect on a disabled core, and perhaps a call that resumes it;
\* then the router is shut down and the user reset.  The profile is cleared, and stored
\* all the same by apply.
ScreenRemoved(new) ==
  \E again \in BOOLEAN :
    /\ again => proc.mode # "unknown" /\ Called
    /\ ~again => UNCHANGED budget
    /\ proc' = [proc EXCEPT !.disabled = ~again, !.up = again]
    /\ past' = past \union (IF again THEN {"reentered"} ELSE {})
                    \union (IF \E h \in Range(todo \o Posts(mine, new)) : h.do = "switch"
                            THEN {"missed"} ELSE {})
    /\ ws' = [ws EXCEPT !.state = "down"] /\ pushed' = <<>> /\ todo' = <<>>
    /\ router' = 0 /\ user' = Nobody /\ disk' = MakeTable(Nobody) /\ mine' = new

\* ProfileConfig::apply: an older version is not compared, an equal profile not stored.
ApplyNewerOnly(new) ==
  \/ /\ new.version <= mine.version
     /\ past' = IF new.id = user.profile /\ new.id # mine.id THEN past \union {"older"} ELSE past
     /\ UNCHANGED <<user, disk, mine, proc, router, todo, ws, budget>> /\ pushed' = Tail(pushed)
  \/ /\ new.version > mine.version
     /\ IF user.screen \in mine.screens \ new.screens
        THEN ScreenRemoved(new)
        ELSE /\ todo' = todo \o Posts(mine, new)
             /\ router' = RouterStarted(mine, new) /\ mine' = new
             /\ UNCHANGED <<user, disk, proc, ws, past, budget>> /\ pushed' = Tail(pushed)
Apply(new) ==
  \/ /\ new.version < mine.version
     /\ past' = IF new.id = user.profile /\ new.id # mine.id THEN past \union {"older"} ELSE past
     /\ UNCHANGED <<user, disk, mine, proc, router, todo, ws, budget>> /\ pushed' = Tail(pushed)
  \/ /\ new.version >= mine.version
     /\ IF user.screen \in mine.screens \ new.screens
        THEN ScreenRemoved(new)
        ELSE /\ todo' = todo \o Posts(mine, new)
             /\ router' = RouterStarted(mine, new) /\ mine' = new
             /\ UNCHANGED <<user, disk, proc, ws, past, budget>> /\ pushed' = Tail(pushed)

\* A snapshot becomes the remote profile, and is applied if this computer's screen is in
\* it or was in the profile before.
SnapshotReceived ==
  /\ ws.state = "up" /\ pushed # <<>>
  /\ theirs' = Head(pushed) /\ held' = TRUE
  /\ IF user.screen \in mine.screens \union Head(pushed).screens
     THEN Apply(Head(pushed))
     ELSE /\ pushed' = Tail(pushed)
          /\ UNCHANGED <<user, disk, mine, proc, router, todo, ws, past, budget>>
  /\ UNCHANGED cloud

-----------------------------------------------------------------------------
(* The websocket *)

Unmoved == UNCHANGED <<user, disk, theirs, proc, router, todo, past>>

WsUp ==
  /\ ws.state = "trying"
  /\ ws' = [ws EXCEPT !.state = "up"] /\ pushed' = <<cloud[ws.channel]>>
  /\ Unmoved /\ UNCHANGED <<mine, held, cloud, budget>>

\* websocketError: kRead, and a reconnect follows.
WsLost ==
  /\ ws.state = "up" /\ Broken
  /\ ws' = [ws EXCEPT !.state = "trying"] /\ pushed' = <<>>
  /\ held' = FALSE
  /\ Unmoved /\ UNCHANGED <<mine, cloud>>

\* kAuth: the UI is logged out and the profile cleared; the session gives up.
WsRefused ==
  /\ ws.state = "trying" /\ Broken
  /\ ws' = [ws EXCEPT !.state = "down"]
  /\ held' = FALSE /\ mine' = NoProfile
  /\ Unmoved /\ UNCHANGED <<pushed, cloud>>

\* CloudClient::reconnectWebsocket, without a channel to no effect.
Redialled == IF ws.channel = 0 THEN ws ELSE [ws EXCEPT !.state = "trying"]

-----------------------------------------------------------------------------
(* Calls of the UI and of the tray *)

\* synergy.auth.update: the user is saved and CloudClient::load dials if the profile or
\* the token is another one.
Login(p, s, newToken) ==
  /\ s \in cloud[p].screens /\ Called
  /\ user' = [profile |-> p, screen |-> s] /\ disk' = MakeTable(user')
  /\ past' = IF user' # user /\ (user # Nobody \/ s \in mine.screens)
             THEN past \union {"moved"} ELSE past
  /\ IF newToken \/ p # user.profile
     THEN ws' = [channel |-> p, state |-> "trying"] /\ pushed' = <<>>
     ELSE UNCHANGED <<ws, pushed>>
  /\ UNCHANGED <<mine, theirs, held, proc, router, todo, cloud>>

\* synergy.pause: a session that is still dialling goes on.
Pause ==
  /\ Called
  /\ proc' = [proc EXCEPT !.disabled = TRUE, !.up = FALSE]
  /\ IF ws.state = "up" THEN ws' = [ws EXCEPT !.state = "down"] /\ pushed' = <<>>
     ELSE UNCHANGED <<ws, pushed>>
  /\ UNCHANGED <<user, disk, mine, theirs, held, router, todo, cloud, past>>

\* synergy.resume.  When restart throws, the rest of the call is not done.
Resumed == Restarted([proc EXCEPT !.disabled = FALSE])
ResumeFails == Resumed.mode # "unknown" /\ user.screen \notin mine.screens
Resume ==
  /\ Called
  /\ proc' = Resumed
  /\ IF ResumeFails THEN UNCHANGED <<ws, pushed>> ELSE ws' = Redialled /\ pushed' = <<>>
  /\ UNCHANGED <<user, disk, mine, theirs, held, router, todo, cloud, past>>

\* synergy.hello, when the UI starts.
SayHelloToUI ==
  /\ Called
  /\ proc' = IF proc.disabled THEN Resumed ELSE proc
  /\ ws' = IF (proc.disabled /\ ResumeFails) \/ ws.state = "up" \/ user.profile = 0 THEN ws
           ELSE Redialled
  /\ UNCHANGED <<user, disk, mine, theirs, held, router, todo, pushed, cloud, past>>

\* synergy.cloud.retry.
CloudRetry ==
  /\ Called
  /\ ws' = Redialled /\ pushed' = <<>>
  /\ UNCHANGED <<user, disk, mine, theirs, held, proc, router, todo, cloud, past>>

-----------------------------------------------------------------------------
(* The cloud *)

Published(p, profile) ==
  /\ cloud' = [cloud EXCEPT ![p] = profile]
  /\ pushed' = IF ws.state = "up" /\ ws.channel = p THEN Append(pushed, profile) ELSE pushed
  /\ UNCHANGED <<user, disk, mine, theirs, held, proc, router, todo, ws, past>>

\* The UI registers this computer, under a new id.
Register(p) ==
  /\ budget.edits < MaxEdits /\ budget.ids < MaxIds
  /\ budget' = [budget EXCEPT !.edits = @ + 1, !.ids = @ + 1]
  /\ Published(p, [cloud[p] EXCEPT !.screens = @ \union {budget'.ids}, !.version = @ + 1])

\* A user removes it from the profile.
Unregister(p, s) ==
  /\ s \in cloud[p].screens
  /\ budget.edits < MaxEdits /\ budget' = [budget EXCEPT !.edits = @ + 1]
  /\ Published(p, [cloud[p] EXCEPT !.screens = @ \ {s}, !.online = @ \ {s}, !.version = @ + 1,
                                   !.server = IF @ = s THEN Other ELSE @])

\* The cloud sees that the screen is connected.
SeenOnline ==
  /\ ws.state = "up" /\ ws.channel = user.profile
  /\ user.screen \in cloud[user.profile].screens \ cloud[user.profile].online
  /\ Published(user.profile, [cloud[user.profile] EXCEPT !.online = @ \union {user.screen}])
  /\ UNCHANGED budget

-----------------------------------------------------------------------------
ServiceHandler == RunSwitched \/ RunAdded \/ RunSetChanged \/ SnapshotReceived \/ WsUp \/ SeenOnline

ServiceNext ==
  \/ ServiceHandler
  \/ Crash \/ Shutdown \/ WsLost \/ WsRefused
  \/ Pause \/ Resume \/ SayHelloToUI \/ CloudRetry
  \/ \E s \in {Other, user.screen} : ClaimArrives(s)
  \/ \E p \in ProfileId :
       \/ Register(p)
       \/ \E s \in Mine : \/ Unregister(p, s)
                          \/ \E newToken \in BOOLEAN : Login(p, s, newToken)

ServiceSpec == ServiceInit /\ [][ServiceNext]_serviceVars

-----------------------------------------------------------------------------
(* Properties *)

\* A service that is logged out runs neither core nor router, whatever was posted before
\* the screen was removed and whatever is called after; except for a call that resumes
\* the core while shutdownWebsocket runs other handlers, in the middle of the removal.
LoggedOutIdle ==
  user = Nobody /\ "reentered" \notin past => ~proc.up /\ router = 0

\* Nothing is left to do for a service whose screen is in its profile.
AtRest ==
  /\ user # Nobody /\ ws.state = "up" /\ ws.channel = user.profile
  /\ pushed = <<>> /\ todo = <<>>
  /\ user.screen \in cloud[user.profile].online

\* At rest the service acts on the profile of the cloud, with a router and, unless it was
\* paused, with a core: no order of snapshots, handlers, calls and crashes leaves it
\* behind, except a login that replaced another or a profile with lower versions.
InStep ==
  AtRest /\ past = {} => /\ mine.id = user.profile /\ mine.screens = cloud[user.profile].screens
                         /\ router = user.screen
                         /\ proc.up \/ proc.disabled

\* A snapshot has this computer's screen: "we want to delay starting core until we find
\* local screen in the snapshot" (ServiceWorker.cpp line 71), and no longer.
StartedWhenFound ==
  AtRest /\ past \subseteq {"older"} => proc.up \/ proc.disabled

\* After a crash, a lost connection or a refused one a service whose screen is in the
\* profile has its core again, unless it is paused, refused or shut down.
CoreReturns ==
  <>[](\/ user = Nobody \/ user.screen \notin cloud[user.profile].screens
       \/ proc.up \/ proc.disabled \/ ws.state = "down" \/ past # {})
=============================================================================
