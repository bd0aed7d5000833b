--------------------------- MODULE ServiceProofs ---------------------------
(***************************************************************************)
(* Proofs about the service, for any profiles, edits, calls, lines and     *)
(* signals: what its router monitor reports is true (Reachability), the    *)
(* cloud ends at the status the core told (Status), and the service follows*)
(* the user's profile (Service).                                           *)
(***************************************************************************)
EXTENDS Service, Status, Reachability, SequenceTheorems, TLAPS

-----------------------------------------------------------------------------
(* Reachability.  ReportIsTrue is not inductive: the timer's handler tells *)
(* m_reachable, not what the router said, and it must have been queued for *)
(* the timer to be marked as running.                                      *)

ReachSpec == ReachInit /\ [][ReachNext]_reachVars

RchMarks ==
  /\ graceOn <=> grace # "off"
  /\ node <=> reach
  /\ ~monitored => ~graceOn /\ unasked /\ ~reach
  /\ ~graceOn /\ ~unasked => report = (IF reach THEN "reachable" ELSE "unreachable")

RchInv == ReachTypeOK /\ RchMarks

LEMMA RchType == ReachTypeOK /\ [ReachNext]_reachVars => ReachTypeOK'
<1> SUFFICES ASSUME ReachTypeOK, [ReachNext]_reachVars
             PROVE  ReachTypeOK'
  OBVIOUS
<1>1. MaxSignals \in Nat /\ reachUsed \in 0..MaxSignals
  BY ReachAssumption DEF ReachTypeOK
<1>2. ASSUME Signal
      PROVE  reachUsed' \in 0..MaxSignals
  BY <1>1, <1>2 DEF Signal
<1>3. reachUsed' \in 0..MaxSignals
  BY <1>1, <1>2 DEF ReachNext, MonitorOnline, MonitorOffline, NodeReachable, NodeUnreachable,
                    GraceExpires, GraceHandler, reachVars
<1>4. monitored' \in BOOLEAN /\ reach' \in BOOLEAN /\ node' \in BOOLEAN
  BY DEF ReachTypeOK, ReachNext, MonitorOnline, MonitorOffline, NodeReachable, NodeUnreachable,
         GraceExpires, GraceHandler, reachVars
<1>5. unasked' \in BOOLEAN /\ graceOn' \in BOOLEAN /\ grace' \in {"off", "on", "due"}
  BY DEF ReachTypeOK, ReachNext, MonitorOnline, MonitorOffline, NodeReachable, NodeUnreachable,
         GraceExpires, GraceHandler, reachVars, StartTimer
<1>6. report' \in {"none", "reachable", "unreachable"}
  BY DEF ReachTypeOK, ReachNext, MonitorOnline, MonitorOffline, NodeReachable, NodeUnreachable,
         GraceExpires, GraceHandler, reachVars, Notify
<1>7. QED
  BY <1>3, <1>4, <1>5, <1>6 DEF ReachTypeOK

\* What RouterErrorMonitor knows of a screen is what the router said last, and the mark
\* of the timer is right, in whatever order signals and the timer's handler come.
THEOREM ReachInvariant == ReachSpec => []RchInv
<1>1. ReachInit => RchInv
  <2>1. ReachInit => ReachTypeOK
    <3>1. ReachInit => reachUsed \in 0..MaxSignals
      BY ReachAssumption DEF ReachInit
    <3>2. ReachInit => /\ monitored \in BOOLEAN /\ reach \in BOOLEAN /\ graceOn \in BOOLEAN
                       /\ node \in BOOLEAN /\ unasked \in BOOLEAN
      BY DEF ReachInit
    <3>3. ReachInit => grace = "off" /\ report = "none"
      BY DEF ReachInit
    <3>4. QED
      BY <3>1, <3>2, <3>3 DEF ReachTypeOK
  <2>2. ReachInit => RchMarks
    BY DEF ReachInit, RchMarks
  <2>3. QED
    BY <2>1, <2>2 DEF RchInv
<1>2. RchInv /\ [ReachNext]_reachVars => RchInv'
  <2> SUFFICES ASSUME RchInv, [ReachNext]_reachVars
               PROVE  RchMarks'
    BY RchType DEF RchInv
  <2> USE DEF RchInv, RchMarks
  <2>1. CASE MonitorOnline
    BY <2>1 DEF MonitorOnline, StartTimer
  <2>2. CASE MonitorOffline
    <3>1. CASE grace = "due"
      BY <2>2, <3>1 DEF MonitorOffline, Notify
    <3>2. CASE grace = "on"
      BY <2>2, <3>2 DEF MonitorOffline
    <3>3. CASE grace = "off"
      BY <2>2, <3>3 DEF MonitorOffline
    <3>4. QED
      BY <3>1, <3>2, <3>3 DEF ReachTypeOK
  <2>3. CASE NodeReachable
    BY <2>3 DEF NodeReachable, Notify
  <2>4. CASE NodeUnreachable
    BY <2>4 DEF NodeUnreachable, StartTimer
  <2>5. CASE GraceExpires
    BY <2>5 DEF GraceExpires
  <2>6. CASE GraceHandler
    BY <2>6 DEF GraceHandler, Notify
  <2>7. CASE UNCHANGED reachVars
    BY <2>7 DEF reachVars
  <2>8. QED
    BY <2>1, <2>2, <2>3, <2>4, <2>5, <2>6, <2>7 DEF ReachNext
<1>3. QED
  BY <1>1, <1>2, PTL DEF ReachSpec

\* When no timer runs the last report is what the router said last (ReportIsTrue).
THEOREM ReachReportIsTrue == ReachSpec => []ReportIsTrue
<1>1. RchInv => ReportIsTrue
  BY DEF RchInv, RchMarks, ReportIsTrue
<1>2. QED
  BY <1>1, ReachInvariant, PTL

-----------------------------------------------------------------------------
(* Status.  What the cloud will have when nothing is under way is the last *)
(* update on its way to it, or what it has; and the local profile shows    *)
(* the same as the cloud when nothing is under way.                        *)

StatusSpec == StatusInit /\ [][StatusNext]_statusVars

Statuses == {"connected", "connecting", "disconnected", "inactive"}

Coming == IF statusJobs = <<>> THEN cloudStatus ELSE statusJobs[Len(statusJobs)]

StatType ==
  /\ coreMode \in {"none", "client", "server"}
  /\ coreStatus \in Statuses /\ said \in Statuses /\ shown \in Statuses
  /\ cloudStatus \in Statuses /\ statusJobs \in Seq(Statuses) /\ statusPush \in Seq(Statuses)

\* The pushes end with what the cloud has, and the local profile with the pushes.
PushesEnd ==
  /\ statusPush # <<>> => statusPush[Len(statusPush)] = cloudStatus
  /\ statusJobs = <<>> /\ statusPush = <<>> => shown = cloudStatus

\* Before the first core nothing was told.
NothingTold ==
  coreMode = "none" =>
    /\ shown = "inactive" /\ said = "connected" /\ cloudStatus = "inactive" /\ statusJobs = <<>>
    /\ \A i \in 1..Len(statusPush) : statusPush[i] = "inactive"

\* What comes to the cloud is what the core told.
ComesTrue ==
  coreMode # "none" =>
    /\ said = coreStatus /\ Coming # "inactive"
    /\ \/ guessed
       \/ Coming = coreStatus
       \/ coreStatus = "disconnected" /\ Coming = "connecting"

StatInv == StatType /\ PushesEnd /\ NothingTold /\ ComesTrue

LEMMA LastOfAppend ==
  ASSUME NEW S, NEW s \in Seq(S), NEW x \in S
  PROVE  /\ Append(s, x) \in Seq(S) /\ Append(s, x) # <<>>
         /\ Append(s, x)[Len(Append(s, x))] = x
         /\ \A i \in 1..Len(Append(s, x)) :
              Append(s, x)[i] = x \/ (i \in 1..Len(s) /\ Append(s, x)[i] = s[i])
<1>1. /\ Append(s, x) \in Seq(S) /\ Append(s, x) # <<>> /\ Len(s) \in Nat
      /\ Len(Append(s, x)) = Len(s) + 1 /\ Append(s, x)[Len(s) + 1] = x
      /\ \A i \in 1..Len(s) : Append(s, x)[i] = s[i]
  OBVIOUS
<1>2. \A i \in 1..(Len(s) + 1) : i \in 1..Len(s) \/ i = Len(s) + 1
  BY <1>1
<1>3. QED
  BY <1>1, <1>2

LEMMA LastOfTail ==
  ASSUME NEW S, NEW s \in Seq(S), s # <<>>
  PROVE  /\ Tail(s) \in Seq(S) /\ Head(s) \in S /\ Head(s) = s[1]
         /\ Tail(s) # <<>> => Tail(s)[Len(Tail(s))] = s[Len(s)]
         /\ Tail(s) = <<>> => s[Len(s)] = Head(s)
         /\ \A i \in 1..Len(Tail(s)) : i + 1 \in 1..Len(s) /\ Tail(s)[i] = s[i + 1]
<1> DEFINE r == Tail(s)
           n == Len(s)
<1>1. /\ r \in Seq(S) /\ Len(r) = n - 1 /\ Head(s) \in S /\ Head(s) = s[1]
      /\ \A i \in 1..Len(r) : r[i] = s[i + 1]
  BY HeadTailProperties
<1>2. n \in Nat /\ n # 0
  OBVIOUS
<1> HIDE DEF r, n
<1>3. ASSUME NEW i \in 1..Len(r)
      PROVE  i + 1 \in 1..n
  BY <1>1, <1>2, <1>3
<1>4. ASSUME r # <<>>
      PROVE  r[Len(r)] = s[n]
  <2>1. Len(r) \in 1..Len(r) /\ Len(r) + 1 = n
    <3>1. Len(r) # 0 /\ Len(r) \in Nat
      BY <1>1, <1>4, EmptySeq
    <3>2. QED
      BY <1>1, <1>2, <3>1
  <2>2. QED
    BY <1>1, <2>1
<1>5. r = <<>> => n = 1
  <2>1. r = <<>> => Len(r) = 0
    OBVIOUS
  <2>2. QED
    BY <1>1, <1>2, <2>1
<1>6. QED
  BY <1>1, <1>3, <1>4, <1>5 DEF r, n

\* A line of the core, or its start, with status.
LEMMA UpdateInv ==
  ASSUME StatInv, NEW status \in {"connected", "connecting", "disconnected"}, Update(status),
         coreMode' \in {"client", "server"}, coreMode = "none" => status = "connecting",
         UNCHANGED <<cloudStatus, statusPush>>
  PROVE  StatInv'
<1>1. coreStatus' = status /\ said' = status /\ status # "inactive" /\ status \in Statuses
  BY DEF Update, Statuses
<1>2. CASE status = said
  <2>1. UNCHANGED <<shown, statusJobs, guessed>> /\ coreMode # "none"
    BY <1>1, <1>2 DEF Update, StatInv, NothingTold
  <2>2. Coming' = Coming
    BY <2>1 DEF Coming
  <2>3. QED
    BY <1>1, <1>2, <2>1, <2>2 DEF StatInv, StatType, PushesEnd, NothingTold, ComesTrue
<1>3. CASE status # said /\ Dropped(status)
  <2>1. guessed' = UnderWayStatus /\ UNCHANGED <<shown, statusJobs>>
    BY <1>3 DEF Update, StatusChanged
  <2>2. Coming' = Coming /\ coreMode # "none"
    BY <1>3, <2>1 DEF Coming, Dropped, StatInv, NothingTold
  <2>3. StatType' /\ PushesEnd' /\ NothingTold'
    BY <1>1, <2>1 DEF StatInv, StatType, PushesEnd, NothingTold
  <2>4. ASSUME ~UnderWayStatus
        PROVE  Coming = status \/ (status = "disconnected" /\ Coming = "connecting")
    <3>1. Coming = cloudStatus /\ shown = cloudStatus
      BY <2>4 DEF UnderWayStatus, Coming, StatInv, PushesEnd
    <3>2. Coming # "inactive" /\ Coming \in Statuses
      BY <2>2, <3>1 DEF StatInv, ComesTrue, StatType
    <3>3. QED
      BY <1>3, <3>1, <3>2 DEF Dropped, Statuses
  <2>5. ComesTrue'
    BY <1>1, <2>1, <2>2, <2>4 DEF StatInv, ComesTrue
  <2>6. QED
    BY <2>3, <2>5 DEF StatInv
<1>4. CASE status # said /\ ~Dropped(status)
  <2>1. /\ shown' = status /\ statusJobs' = Append(statusJobs, status)
    BY <1>4 DEF Update, StatusChanged
  <2>2. statusJobs' \in Seq(Statuses) /\ statusJobs' # <<>> /\ statusJobs'[Len(statusJobs')] = status
    <3>1. statusJobs \in Seq(Statuses)
      BY DEF StatInv, StatType
    <3>2. QED
      BY <1>1, <2>1, <3>1, LastOfAppend
  <2>3. Coming' = status
    BY <2>2 DEF Coming
  <2>4. StatType' /\ PushesEnd' /\ NothingTold'
    BY <1>1, <2>1, <2>2 DEF StatInv, StatType, PushesEnd, NothingTold
  <2>5. ComesTrue'
    BY <1>1, <2>3 DEF ComesTrue
  <2>6. QED
    BY <2>4, <2>5 DEF StatInv
<1>5. QED
  BY <1>2, <1>3, <1>4

\* The cloud takes an update, or pushes for another reason, or a snapshot is applied.
LEMMA CloudStepInv ==
  ASSUME StatInv, StatusTaken \/ OtherNews \/ StatusSnapshot
  PROVE  StatInv'
<1>1. /\ statusJobs \in Seq(Statuses) /\ statusPush \in Seq(Statuses)
      /\ cloudStatus \in Statuses
  BY DEF StatInv, StatType
<1>2. UNCHANGED <<coreMode, coreStatus, said, guessed>>
  BY DEF StatusTaken, OtherNews, StatusSnapshot
<1>3. CASE StatusTaken
  <2>1. /\ statusJobs # <<>> /\ cloudStatus' = Head(statusJobs) /\ statusJobs' = Tail(statusJobs)
        /\ statusPush' = Append(statusPush, Head(statusJobs)) /\ shown' = shown
    BY <1>3 DEF StatusTaken
  <2>2. /\ statusJobs' \in Seq(Statuses) /\ Head(statusJobs) \in Statuses
        /\ statusJobs' # <<>> => statusJobs'[Len(statusJobs')] = statusJobs[Len(statusJobs)]
        /\ statusJobs' = <<>> => cloudStatus' = statusJobs[Len(statusJobs)]
    BY <1>1, <2>1, LastOfTail
  <2>3. /\ statusPush' \in Seq(Statuses) /\ statusPush' # <<>>
        /\ statusPush'[Len(statusPush')] = cloudStatus'
    BY <1>1, <2>1, <2>2, LastOfAppend
  <2>4. Coming' = Coming
    BY <2>1, <2>2 DEF Coming
  <2>5. coreMode # "none"
    BY <2>1 DEF StatInv, NothingTold
  <2>6. StatType'
    BY <1>2, <2>1, <2>2, <2>3 DEF StatInv, StatType
  <2>7. PushesEnd' /\ NothingTold'
    BY <1>2, <2>3, <2>5 DEF PushesEnd, NothingTold
  <2>8. ComesTrue'
    BY <1>2, <2>4 DEF StatInv, ComesTrue
  <2>9. QED
    BY <2>6, <2>7, <2>8 DEF StatInv
<1>4. CASE OtherNews
  <2>1. /\ statusPush' = Append(statusPush, cloudStatus)
        /\ UNCHANGED <<shown, statusJobs, cloudStatus>>
    BY <1>4 DEF OtherNews
  <2>2. /\ statusPush' \in Seq(Statuses) /\ statusPush' # <<>>
        /\ statusPush'[Len(statusPush')] = cloudStatus
        /\ \A i \in 1..Len(statusPush') :
             statusPush'[i] = cloudStatus \/ (i \in 1..Len(statusPush) /\ statusPush'[i] = statusPush[i])
    BY <1>1, <2>1, LastOfAppend
  <2>3. NothingTold'
    BY <1>2, <2>1, <2>2 DEF StatInv, NothingTold
  <2>4. Coming' = Coming
    BY <2>1 DEF Coming
  <2>5. StatType' /\ PushesEnd' /\ ComesTrue'
    BY <1>2, <2>1, <2>2, <2>4 DEF StatInv, StatType, PushesEnd, ComesTrue
  <2>6. QED
    BY <2>3, <2>5 DEF StatInv
<1>5. CASE StatusSnapshot
  <2>1. /\ statusPush # <<>> /\ shown' = Head(statusPush) /\ statusPush' = Tail(statusPush)
        /\ UNCHANGED <<statusJobs, cloudStatus>>
    BY <1>5 DEF StatusSnapshot
  <2>2. /\ statusPush' \in Seq(Statuses) /\ shown' \in Statuses /\ shown' = statusPush[1]
        /\ statusPush' # <<>> => statusPush'[Len(statusPush')] = statusPush[Len(statusPush)]
        /\ statusPush' = <<>> => statusPush[Len(statusPush)] = shown'
        /\ \A i \in 1..Len(statusPush') : i + 1 \in 1..Len(statusPush) /\ statusPush'[i] = statusPush[i + 1]
    BY <1>1, <2>1, LastOfTail
  <2>3. 1 \in 1..Len(statusPush)
    BY <1>1, <2>1
  <2>4. NothingTold'
    BY <1>2, <2>1, <2>2, <2>3 DEF StatInv, NothingTold
  <2>5. PushesEnd'
    BY <2>1, <2>2 DEF StatInv, PushesEnd
  <2>6. Coming' = Coming
    BY <2>1 DEF Coming
  <2>7. StatType' /\ ComesTrue'
    BY <1>2, <2>1, <2>2, <2>6 DEF StatInv, StatType, ComesTrue
  <2>8. QED
    BY <2>4, <2>5, <2>7 DEF StatInv
<1>6. QED
  BY <1>3, <1>4, <1>5

\* What is on its way to the cloud, or there, is what the core told last, however lines,
\* updates and snapshots cross; unless an update was dropped by an old local profile.
THEOREM StatusInvariant == StatusSpec => []StatInv
<1>1. StatusInit => StatInv
  <2> SUFFICES ASSUME StatusInit
               PROVE  StatInv
    OBVIOUS
  <2>1. statusJobs \in Seq(Statuses) /\ statusPush \in Seq(Statuses) /\ Len(statusPush) = 0
    BY DEF StatusInit
  <2>2. StatType
    BY <2>1 DEF StatusInit, StatType, Statuses
  <2>3. PushesEnd /\ ComesTrue
    BY DEF StatusInit, PushesEnd, ComesTrue
  <2>4. NothingTold
    BY <2>1 DEF StatusInit, NothingTold
  <2>5. QED
    BY <2>2, <2>3, <2>4 DEF StatInv
<1>2. StatInv /\ [StatusNext]_statusVars => StatInv'
  <2> SUFFICES ASSUME StatInv, [StatusNext]_statusVars
               PROVE  StatInv'
    OBVIOUS
  <2>1. ASSUME NEW mode \in {"client", "server"}, MonitorCore(mode)
        PROVE  StatInv'
    BY <2>1, UpdateInv DEF MonitorCore, CoreLine
  <2>2. CASE ServerStarted
    BY <2>2, UpdateInv DEF ServerStarted, CoreLine
  <2>3. CASE ConnectedToServer
    BY <2>3, UpdateInv DEF ConnectedToServer, CoreLine
  <2>4. CASE ConnectingTo
    BY <2>4, UpdateInv DEF ConnectingTo, CoreLine
  <2>5. CASE Suspended
    BY <2>5, UpdateInv DEF Suspended, CoreLine
  <2>6. CASE UNCHANGED statusVars
    <3>1. Coming' = Coming
      BY <2>6 DEF Coming, statusVars
    <3>2. QED
      BY <2>6, <3>1 DEF StatInv, StatType, PushesEnd, NothingTold, ComesTrue, statusVars
  <2>7. QED
    BY <2>1, <2>2, <2>3, <2>4, <2>5, <2>6, CloudStepInv DEF StatusNext
<1>3. QED
  BY <1>1, <1>2, PTL DEF StatusSpec

\* Once nothing is under way the cloud shows the status the core told last (StatusSettles).
THEOREM StatusIsTold == StatusSpec => []StatusSettles
<1>1. StatInv => StatusSettles
  BY DEF StatInv, ComesTrue, Coming, UnderWayStatus, StatusSettles
<1>2. QED
  BY <1>1, StatusInvariant, PTL

-----------------------------------------------------------------------------
(* Service.  Neither LoggedOutIdle nor InStep is inductive.  That a core   *)
(* runs rests on what is posted: the switch that sets CoreProcess's mode   *)
(* and the screens that were added; that the profile is the cloud's, on    *)
(* the order of the snapshots under way and their versions.                *)

ProcType == [mode : {"unknown", "client", "server"}, server : AnyScreen \union {0},
             disabled : BOOLEAN, up : BOOLEAN]
WsType == [channel : ProfileId \union {0}, state : {"down", "trying", "up"}]
BudgetType == [ids : Mine, edits : 0..MaxEdits, calls : 0..MaxCalls, breaks : 0..MaxBreaks]

WellFormed(profile) ==
  /\ profile \in ProfileRecord /\ profile.id # 0 /\ profile.server # 0
  /\ profile.online \subseteq profile.screens

UserWhole == user = Nobody \/ (user.profile # 0 /\ user.screen # 0)

ChannelOfUser ==
  /\ ws.channel = 0 => ws.state = "down"
  /\ user # Nobody => ws.channel = user.profile

CloudWhole == \A p \in ProfileId : WellFormed(cloud[p]) /\ cloud[p].id = p

MineWhole ==
  \/ mine = NoProfile
  \/ WellFormed(mine) /\ mine.version <= cloud[mine.id].version

PushedInOrder ==
  ws.state = "up" =>
    /\ \A i \in 1..Len(pushed) : WellFormed(pushed[i]) /\ pushed[i].id = ws.channel
    /\ \A i, j \in 1..Len(pushed) : i <= j => pushed[i].version <= pushed[j].version
    /\ pushed # <<>> => pushed[Len(pushed)] = cloud[ws.channel]
    /\ mine.id = ws.channel => \A i \in 1..Len(pushed) : mine.version <= pushed[i].version

SwitchIn(posted) == \E x \in Range(posted) : x.do = "switch"
AddedIn(posted, s) == \E x \in Range(posted) : x.do = "added" /\ s \in x.screens

\* A core is running or on the way.
CoreComes(p, posted) ==
  /\ mine # NoProfile => p.mode # "unknown" \/ SwitchIn(posted)
  /\ user.screen \in mine.screens /\ p.mode # "unknown" /\ ~p.disabled
       => p.up \/ AddedIn(posted, user.screen)

RouterRuns ==
  /\ router = 0 \/ router = user.screen
  /\ user.screen \in mine.online => router = user.screen

ProfileComes ==
  user # Nobody /\ ws.state = "up" /\ pushed = <<>>
    => mine = cloud[ws.channel] \/ user.screen \notin cloud[ws.channel].screens

OnTheWay == past = {} => CoreComes(proc, todo) /\ RouterRuns /\ ProfileComes

SvInv ==
  /\ ServiceTypeOK /\ UserWhole /\ ChannelOfUser /\ CloudWhole /\ MineWhole
  /\ PushedInOrder /\ LoggedOutIdle /\ OnTheWay

\* The numbers of the screens.
LEMMA ScreensAre ==
  /\ 0 \notin AnyScreen /\ Mine \subseteq AnyScreen /\ Other \in AnyScreen
  /\ 0 \notin ProfileId /\ 1 \in Mine
<1>1. Other # 0 /\ MaxIds \in Nat /\ MaxIds # 0
  BY ServiceAssumption
<1>2. QED
  BY <1>1, ServiceAssumption DEF AnyScreen, Mine

SvType ==
  /\ user \in [profile : ProfileId \union {0}, screen : Mine \union {0}] /\ Load(disk) = user
  /\ mine \in ProfileRecord /\ theirs \in ProfileRecord
  /\ held \in BOOLEAN /\ router \in Mine \union {0} /\ proc \in ProcType
  /\ todo \in Seq(Handlers) /\ ws \in WsType /\ pushed \in Seq(ProfileRecord)
  /\ cloud \in [ProfileId -> ProfileRecord] /\ past \subseteq Past /\ budget \in BudgetType

LEMMA TypeIs == (ServiceTypeOK <=> SvType) /\ (ServiceTypeOK' <=> SvType')
<1>1. ServiceTypeOK <=> SvType
  BY Zenon DEF ServiceTypeOK, SvType, ProcType, WsType, BudgetType
<1>2. ServiceTypeOK' <=> SvType'
  BY Zenon DEF ServiceTypeOK, SvType, ProcType, WsType, BudgetType
<1>3. QED
  BY <1>1, <1>2

LEMMA NoProfileIs ==
  /\ NoProfile \in ProfileRecord /\ NoProfile.id = 0 /\ NoProfile.server = 0
  /\ NoProfile.screens = {} /\ NoProfile.online = {} /\ NewProc \in ProcType /\ ~NewProc.up
  BY DEF NoProfile, NewProc, ProfileRecord, ProcType

\* What is known of any step that keeps the profile: the core, what is posted and the
\* websocket may move.
LEMMA KeepInv ==
  ASSUME SvInv, ServiceTypeOK', UNCHANGED <<user, mine, router, cloud>>, past \subseteq past',
         ws'.channel = ws.channel, ws.channel = 0 => ws'.state = "down",
         ws'.state = "up" => ws.state = "up" /\ pushed' = pushed,
         user = Nobody /\ ~proc.up => ~proc'.up,
         past' = {} => CoreComes(proc', todo')
  PROVE  SvInv'
<1> USE DEF SvInv
<1>1. UserWhole' /\ CloudWhole' /\ MineWhole'
  BY DEF UserWhole, CloudWhole, MineWhole
<1>2. ChannelOfUser'
  BY DEF ChannelOfUser
<1>3. PushedInOrder'
  BY DEF PushedInOrder
<1>4. LoggedOutIdle'
  BY DEF LoggedOutIdle
<1>5. OnTheWay'
  <2> SUFFICES ASSUME past' = {}
               PROVE  CoreComes(proc, todo)' /\ RouterRuns' /\ ProfileComes'
    BY DEF OnTheWay
  <2>1. past = {}
    OBVIOUS
  <2>2. CoreComes(proc, todo)'
    BY DEF CoreComes, AddedIn
  <2>3. RouterRuns' /\ ProfileComes'
    BY <2>1 DEF OnTheWay, RouterRuns, ProfileComes
  <2>4. QED
    BY <2>2, <2>3
<1>6. QED
  BY <1>1, <1>2, <1>3, <1>4, <1>5

\* The service starts again.
LEMMA RebornInv ==
  ASSUME SvInv, NEW file, Reborn(file), Load(file) = user,
         budget' \in BudgetType, past \subseteq past', past' \subseteq Past
  PROVE  SvInv'
<1> USE DEF SvInv
<1>1. /\ user' = user /\ disk' = file /\ mine' = NoProfile /\ theirs' = NoProfile
      /\ held' = FALSE /\ proc' = NewProc /\ router' = 0 /\ todo' = <<>> /\ pushed' = <<>>
      /\ cloud' = cloud
      /\ ws' = [channel |-> user.profile,
                state   |-> IF user.profile = 0 THEN "down" ELSE "trying"]
  BY DEF Reborn
<1>2. ServiceTypeOK
  OBVIOUS
<1>3. user \in [profile : ProfileId \union {0}, screen : Mine \union {0}]
  BY <1>2, TypeIs DEF SvType
<1>4. /\ ws' \in WsType /\ ws'.channel = user.profile /\ ws'.state # "up"
      /\ ws'.channel = 0 => ws'.state = "down"
  BY <1>1, <1>3 DEF WsType
<1>5. ServiceTypeOK'
  <2>1. <<>> \in Seq(Handlers) /\ <<>> \in Seq(ProfileRecord)
    OBVIOUS
  <2>2. cloud \in [ProfileId -> ProfileRecord]
    BY <1>2, TypeIs DEF SvType
  <2>3. Load(disk)' = user'
    BY <1>1 DEF Load
  <2>4. QED
    BY <1>1, <1>3, <1>4, <2>1, <2>2, <2>3, NoProfileIs, TypeIs DEF SvType
<1>6. UserWhole' /\ ChannelOfUser' /\ CloudWhole' /\ MineWhole'
  BY <1>1, <1>4 DEF UserWhole, ChannelOfUser, CloudWhole, MineWhole
<1>7. PushedInOrder'
  BY <1>4 DEF PushedInOrder
<1>8. LoggedOutIdle'
  BY <1>1, NoProfileIs DEF LoggedOutIdle
<1>9. OnTheWay'
  BY <1>1, <1>4, NoProfileIs DEF OnTheWay, CoreComes, RouterRuns, ProfileComes
<1>10. QED
  BY <1>5, <1>6, <1>7, <1>8, <1>9

LEMMA BudgetStays ==
  ASSUME ServiceTypeOK, Called \/ Broken \/ UNCHANGED budget
  PROVE  budget' \in BudgetType
<1>1. budget \in BudgetType /\ MaxCalls \in Nat /\ MaxBreaks \in Nat
  BY ServiceAssumption, TypeIs DEF SvType
<1>2. CASE Called
  <2>1. /\ budget.calls \in 0..MaxCalls /\ budget.calls < MaxCalls
        /\ budget' = [budget EXCEPT !.calls = budget.calls + 1]
    BY <1>1, <1>2 DEF Called, BudgetType
  <2>2. budget.calls + 1 \in 0..MaxCalls
    BY <1>1, <2>1
  <2>3. QED
    BY <1>1, <2>1, <2>2 DEF BudgetType
<1>3. CASE Broken
  <2>1. /\ budget.breaks \in 0..MaxBreaks /\ budget.breaks < MaxBreaks
        /\ budget' = [budget EXCEPT !.breaks = budget.breaks + 1]
    BY <1>1, <1>3 DEF Broken, BudgetType
  <2>2. budget.breaks + 1 \in 0..MaxBreaks
    BY <1>1, <2>1
  <2>3. QED
    BY <1>1, <2>1, <2>2 DEF BudgetType
<1>4. QED
  BY <1>1, <1>2, <1>3

\* CoreProcess::start in a mode, and restart.
LEMMA StartedIs ==
  ASSUME NEW p \in ProcType, NEW mode \in {"client", "server"},
         NEW server \in AnyScreen \union {0}
  PROVE  LET r == Started(p, mode, server, user, mine)
         IN  /\ r \in ProcType
             /\ p.disabled => r = p
             /\ ~p.disabled => /\ r.mode = mode /\ ~r.disabled
                               /\ r.up <=> user.screen \in mine.screens
<1> DEFINE up == user.screen \in mine.screens
<1>1. p.disabled \in BOOLEAN
  BY DEF ProcType
<1>2. CASE p.disabled
  BY <1>2 DEF Started
<1>3. CASE ~p.disabled
  <2> DEFINE r == [p EXCEPT !.mode = mode, !.server = server, !.up = up]
  <2>1. up \in BOOLEAN
    OBVIOUS
  <2>2. Started(p, mode, server, user, mine) = r
    BY <1>3 DEF Started
  <2> HIDE DEF up
  <2>3. r \in ProcType /\ r.mode = mode /\ r.disabled = p.disabled /\ r.up = up
    BY <2>1 DEF ProcType
  <2> HIDE DEF r
  <2>4. QED
    BY <1>3, <2>2, <2>3 DEF up
<1>4. QED
  BY <1>2, <1>3

LEMMA RestartedIs ==
  ASSUME ServiceTypeOK, NEW p \in ProcType
  PROVE  /\ Restarted(p) \in ProcType /\ Restarted(p).mode = p.mode
         /\ p.mode = "unknown" \/ p.disabled => Restarted(p) = p
         /\ p.mode # "unknown" /\ ~p.disabled =>
              /\ ~Restarted(p).disabled
              /\ Restarted(p).up <=> user.screen \in mine.screens
<1> DEFINE server == IF p.mode = "server" THEN user.screen ELSE p.server
<1>1. server \in AnyScreen \union {0} /\ p.mode \in {"unknown", "client", "server"}
  BY TypeIs, ScreensAre DEF SvType, ProcType
<1>2. Restarted(p) = IF p.mode = "unknown" THEN p ELSE Started(p, p.mode, server, user, mine)
  BY DEF Restarted
<1> HIDE DEF server
<1>3. QED
  BY <1>1, <1>2, StartedIs

LEMMA SwitchedIs ==
  ASSUME NEW p \in ProcType, NEW server \in AnyScreen
  PROVE  /\ Switched(p, server) \in ProcType
         /\ p.disabled => Switched(p, server) = p
         /\ ~p.disabled =>
              /\ Switched(p, server).mode # "unknown" /\ ~Switched(p, server).disabled
              /\ Switched(p, server).up <=> user.screen \in mine.screens
<1> DEFINE mode == IF server = user.screen THEN "server" ELSE "client"
<1>1. mode \in {"client", "server"} /\ Switched(p, server) = Started(p, mode, server, user, mine)
  BY DEF Switched
<1> HIDE DEF mode
<1>2. QED
  BY <1>1, StartedIs

LEMMA RangeOfTail ==
  ASSUME NEW S, NEW s \in Seq(S), s # <<>>
  PROVE  Range(s) = {Head(s)} \union Range(Tail(s))
<1>1. /\ Tail(s) \in Seq(S) /\ Len(Tail(s)) = Len(s) - 1 /\ Head(s) = s[1]
      /\ \A i \in 1..Len(Tail(s)) : Tail(s)[i] = s[i + 1]
  BY HeadTailProperties
<1> DEFINE t == Tail(s)
           n == Len(s)
<1>2. n \in Nat /\ n # 0 /\ Len(t) = n - 1 /\ \A i \in 1..Len(t) : t[i] = s[i + 1]
  <2>1. n \in Nat /\ n # 0
    OBVIOUS
  <2>2. QED
    BY <1>1, <2>1
<1>3. DOMAIN s = 1..n /\ DOMAIN t = 1..Len(t)
  BY <1>1
<1> HIDE DEF t, n
<1>4. ASSUME NEW i \in 1..n
      PROVE  s[i] = s[1] \/ \E j \in 1..Len(t) : t[j] = s[i]
  <2>1. CASE i = 1
    BY <2>1
  <2>2. CASE i # 1
    <3>1. i - 1 \in 1..Len(t) /\ (i - 1) + 1 = i
      BY <1>2, <2>2
    <3>2. t[i - 1] = s[i]
      BY <1>2, <3>1
    <3>3. QED
      BY <3>1, <3>2
  <2>3. QED
    BY <2>1, <2>2
<1>5. ASSUME NEW j \in 1..Len(t)
      PROVE  \E i \in 1..n : s[i] = t[j]
  <2>1. j + 1 \in 1..n
    BY <1>2
  <2>2. QED
    BY <1>2, <2>1
<1>6. 1 \in 1..n
  BY <1>2
<1>7. \A x : x \in Range(s) <=> \E i \in 1..n : s[i] = x
  BY <1>3 DEF Range
<1>8. \A x : x \in Range(t) <=> \E i \in 1..Len(t) : t[i] = x
  BY <1>3 DEF Range
<1>9. \A x : x \in Range(s) <=> x = s[1] \/ x \in Range(t)
  <2>1. ASSUME NEW x, x \in Range(s)
        PROVE  x = s[1] \/ x \in Range(t)
    <3>1. PICK i \in 1..n : s[i] = x
      BY <1>7, <2>1
    <3>2. QED
      BY <1>4, <1>8, <3>1
  <2>2. ASSUME NEW x, x \in Range(t)
        PROVE  x \in Range(s)
    <3>1. PICK j \in 1..Len(t) : t[j] = x
      BY <1>8, <2>2
    <3>2. QED
      BY <1>5, <1>7, <3>1
  <2>3. s[1] \in Range(s)
    BY <1>6, <1>7
  <2>4. QED
    BY <2>1, <2>2, <2>3, Zenon
<1>10. QED
  BY <1>1, <1>9 DEF t

\* A step that starts a core, or ends the process.
LEMMA StartOrDieInv ==
  ASSUME SvInv, NEW starts, NEW p \in ProcType, NEW next \in Seq(Handlers),
         StartOrDie(starts, p, next),
         budget' \in BudgetType, past \subseteq past', past' \subseteq Past,
         user = Nobody /\ ~proc.up => ~p.up,
         past' = {} => CoreComes(p, next)
  PROVE  SvInv'
<1>1. SvType
  BY TypeIs DEF SvInv
<1>2. CASE Reborn(disk)
  BY <1>1, <1>2, RebornInv DEF SvType
<1>3. CASE /\ proc' = p /\ todo' = next
           /\ UNCHANGED <<user, disk, mine, theirs, held, router, ws, pushed, cloud>>
  <2>1. SvType'
    <3>1. Load(disk)' = user'
      BY <1>1, <1>3 DEF SvType, Load
    <3>2. QED
      BY <1>1, <1>3, <3>1 DEF SvType
  <2>2. ws.channel = 0 => ws'.state = "down"
    BY <1>3 DEF SvInv, ChannelOfUser
  <2>3. QED
    BY <1>3, <2>1, <2>2, KeepInv, TypeIs
<1>4. QED
  BY <1>2, <1>3 DEF StartOrDie

\* What is posted.
LEMMA HandlerIs ==
  ASSUME NEW x \in Handlers
  PROVE  /\ x.do = "switch" => x.server \in AnyScreen
         /\ x.do = "added" => x.screens \subseteq AnyScreen
<1>1. CASE x \in [do : {"switch"}, server : AnyScreen]
  BY <1>1
<1>2. CASE x \in [do : {"added"}, screens : SUBSET AnyScreen]
  BY <1>2
<1>3. CASE x \in [do : {"set changed"}]
  BY <1>3
<1>4. QED
  BY <1>1, <1>2, <1>3 DEF Handlers

LEMMA HeadPosted ==
  ASSUME ServiceTypeOK, todo # <<>>
  PROVE  /\ Head(todo) \in Handlers /\ Tail(todo) \in Seq(Handlers)
         /\ Range(todo) = {Head(todo)} \union Range(Tail(todo))
<1>1. todo \in Seq(Handlers)
  BY TypeIs DEF SvType
<1> HIDE DEF Handlers
<1>2. QED
  BY <1>1, HeadTailProperties, RangeOfTail

\* switchServer, from a snapshot or a claim.
LEMMA SwitchInv ==
  ASSUME SvInv, NEW s \in AnyScreen, NEW next \in Seq(Handlers), SwitchServerTo(s, next),
         budget' \in BudgetType,
         \A x \in Range(todo) : x \in Range(next) \/ x.do = "switch"
  PROVE  SvInv'
<1> DEFINE starts == ~(proc.mode = "server" /\ s = user.screen)
           p == IF starts THEN Switched(proc, s) ELSE proc
<1>1. /\ StartOrDie(starts, p, next)
      /\ past' = IF starts /\ proc.disabled THEN past \union {"missed"} ELSE past
  BY DEF SwitchServerTo
<1>2. SvType
  BY TypeIs DEF SvInv
<1>3. proc \in ProcType
  BY <1>2 DEF SvType
<1>4. p \in ProcType
  BY <1>3, SwitchedIs
<1>5. past \subseteq past' /\ past' \subseteq Past
  BY <1>1, <1>2 DEF SvType, Past
<1>6. ASSUME user = Nobody, ~proc.up
      PROVE  ~p.up
  <2>1. user.screen \notin mine.screens
    BY <1>2, <1>6, ScreensAre DEF SvType, Nobody, ProfileRecord
  <2>2. QED
    BY <1>3, <1>6, <2>1, SwitchedIs
<1>7. ASSUME past' = {}
      PROVE  CoreComes(p, next)
  <2>1. past = {} /\ CoreComes(proc, todo)
    BY <1>5, <1>7 DEF SvInv, OnTheWay
  <2>2. CASE starts
    <3>1. ~proc.disabled
      BY <1>1, <1>7, <2>2
    <3>2. QED
      BY <1>3, <2>2, <3>1, SwitchedIs DEF CoreComes
  <2>3. CASE ~starts
    <3>1. p = proc /\ proc.mode = "server"
      BY <2>3
    <3>2. AddedIn(todo, user.screen) => AddedIn(next, user.screen)
      BY DEF AddedIn
    <3>3. QED
      BY <2>1, <3>1, <3>2 DEF CoreComes
  <2>4. QED
    BY <2>2, <2>3
<1> HIDE DEF starts, p
<1>8. QED
  BY <1>1, <1>4, <1>5, <1>6, <1>7, StartOrDieInv

LEMMA RunSwitchedInv ==
  ASSUME SvInv, RunSwitched
  PROVE  SvInv'
<1>1. ServiceTypeOK /\ todo # <<>> /\ Head(todo).do = "switch"
  BY DEF SvInv, RunSwitched
<1>2. /\ Head(todo) \in Handlers /\ Tail(todo) \in Seq(Handlers)
      /\ Range(todo) = {Head(todo)} \union Range(Tail(todo))
  BY <1>1, HeadPosted
<1>3. Head(todo).server \in AnyScreen
  BY <1>1, <1>2, HandlerIs
<1>4. budget' \in BudgetType
  BY <1>1, BudgetStays DEF RunSwitched
<1>5. \A x \in Range(todo) : x \in Range(Tail(todo)) \/ x.do = "switch"
  BY <1>1, <1>2
<1>6. SwitchServerTo(Head(todo).server, Tail(todo))
  BY DEF RunSwitched
<1>7. QED
  BY <1>2, <1>3, <1>4, <1>5, <1>6, SwitchInv

LEMMA ClaimArrivesInv ==
  ASSUME SvInv, NEW s \in {Other, user.screen}, ClaimArrives(s)
  PROVE  SvInv'
<1>1. ServiceTypeOK /\ SvType /\ user.profile # 0
  BY TypeIs DEF SvInv, ClaimArrives
<1>2. s \in AnyScreen
  <2>1. user.screen \in Mine
    BY <1>1 DEF SvInv, UserWhole, SvType, Nobody
  <2>2. QED
    BY <2>1, ScreensAre
<1>3. budget' \in BudgetType
  BY <1>1, BudgetStays DEF ClaimArrives
<1>4. todo \in Seq(Handlers) /\ SwitchServerTo(s, todo)
  BY <1>1 DEF SvType, ClaimArrives
<1>5. QED
  BY <1>2, <1>3, <1>4, SwitchInv

\* The core restarts for its screen, or for a new set of screens.
LEMMA RunOthersInv ==
  ASSUME SvInv, RunAdded \/ RunSetChanged
  PROVE  SvInv'
<1>1. ServiceTypeOK /\ SvType /\ todo # <<>>
  BY TypeIs DEF SvInv, RunAdded, RunSetChanged
<1>2. /\ Head(todo) \in Handlers /\ Tail(todo) \in Seq(Handlers)
      /\ Range(todo) = {Head(todo)} \union Range(Tail(todo))
  BY <1>1, HeadPosted
<1>3. budget' \in BudgetType /\ past' = past /\ past \subseteq Past
  BY <1>1, BudgetStays DEF RunAdded, RunSetChanged, SvType
<1>4. proc \in ProcType
  BY <1>1 DEF SvType
<1>5. user = Nobody => user.screen \notin mine.screens
  BY <1>1, ScreensAre DEF SvType, Nobody, ProfileRecord
<1>6. past = {} => CoreComes(proc, todo)
  BY DEF SvInv, OnTheWay
<1>7. Head(todo).do # "switch" => (SwitchIn(todo) <=> SwitchIn(Tail(todo)))
  BY <1>2 DEF SwitchIn
<1>8. CASE RunAdded
  <2> DEFINE local == user.screen \in Head(todo).screens
             q == [proc EXCEPT !.disabled = FALSE]
             p == IF local THEN Restarted(q) ELSE proc
  <2>1. StartOrDie(local, p, Tail(todo)) /\ Head(todo).do = "added"
    BY <1>8 DEF RunAdded
  <2>2. q \in ProcType /\ q.mode = proc.mode /\ ~q.disabled /\ (q.up <=> proc.up)
    BY <1>4 DEF ProcType
  <2> HIDE DEF q
  <2>3. p \in ProcType
    BY <1>1, <1>4, <2>2, RestartedIs
  <2>4. user = Nobody /\ ~proc.up => ~p.up
    BY <1>1, <1>5, <2>2, RestartedIs
  <2>5. past = {} => CoreComes(p, Tail(todo))
    <3>1. CASE local
      BY <1>1, <1>6, <1>7, <2>1, <2>2, <3>1, RestartedIs DEF CoreComes
    <3>2. CASE ~local
      <4>1. AddedIn(todo, user.screen) => AddedIn(Tail(todo), user.screen)
        BY <1>2, <3>2 DEF AddedIn
      <4>2. QED
        BY <1>6, <1>7, <2>1, <3>2, <4>1 DEF CoreComes
    <3>3. QED
      BY <3>1, <3>2
  <2> HIDE DEF local, p
  <2>6. QED
    BY <1>2, <1>3, <2>1, <2>3, <2>4, <2>5, StartOrDieInv
<1>9. CASE RunSetChanged
  <2> DEFINE serves == proc.mode = "server"
             p == IF serves THEN Restarted(proc) ELSE proc
  <2>1. StartOrDie(serves, p, Tail(todo)) /\ Head(todo).do = "set changed"
    BY <1>9 DEF RunSetChanged
  <2>2. p \in ProcType
    BY <1>1, <1>4, RestartedIs
  <2>3. user = Nobody /\ ~proc.up => ~p.up
    BY <1>1, <1>4, <1>5, RestartedIs
  <2>4. AddedIn(todo, user.screen) => AddedIn(Tail(todo), user.screen)
    BY <1>2, <2>1 DEF AddedIn
  <2>5. past = {} => CoreComes(p, Tail(todo))
    BY <1>1, <1>4, <1>6, <1>7, <2>1, <2>4, RestartedIs DEF CoreComes
  <2> HIDE DEF serves, p
  <2>6. QED
    BY <1>2, <1>3, <2>1, <2>2, <2>3, <2>5, StartOrDieInv
<1>10. QED
  BY <1>8, <1>9

\* Calls of the UI and the tray, but for the login, and a lost connection: the core is
\* disabled, or restarted in its mode.
LEMMA CallsInv ==
  ASSUME SvInv, Pause \/ Resume \/ SayHelloToUI \/ CloudRetry \/ WsLost
  PROVE  SvInv'
<1>1. ServiceTypeOK /\ SvType
  BY TypeIs DEF SvInv
<1>2. /\ UNCHANGED <<user, disk, mine, theirs, router, todo, cloud, past>>
      /\ Called \/ Broken \/ UNCHANGED budget
  BY DEF Pause, Resume, SayHelloToUI, CloudRetry, WsLost, Unmoved
<1>3. budget' \in BudgetType
  BY <1>1, <1>2, BudgetStays
<1>4. held' \in BOOLEAN
  BY <1>1 DEF SvType, Pause, Resume, SayHelloToUI, CloudRetry, WsLost
<1>5. proc \in ProcType /\ ws \in WsType /\ pushed \in Seq(ProfileRecord)
  BY <1>1 DEF SvType
<1>6. /\ pushed' = pushed \/ pushed' = <<>>
      /\ \/ ws' = ws
         \/ ws' = [ws EXCEPT !.state = "down"]
         \/ ws.channel # 0 /\ ws' = [ws EXCEPT !.state = "trying"]
      /\ ws'.state = "up" => pushed' = pushed
  <2>1. CASE Pause
    BY <1>5, <2>1 DEF Pause, WsType
  <2>2. CASE Resume
    <3>1. CASE ResumeFails
      BY <2>2, <3>1 DEF Resume
    <3>2. CASE ~ResumeFails
      <4>1. ws' = Redialled /\ pushed' = <<>>
        BY <2>2, <3>2 DEF Resume
      <4>2. QED
        BY <1>5, <4>1 DEF Redialled, WsType, SvInv, ChannelOfUser
    <3>3. QED
      BY <3>1, <3>2
  <2>3. CASE SayHelloToUI
    BY <2>3 DEF SayHelloToUI, Redialled
  <2>4. CASE CloudRetry
    BY <1>5, <2>4 DEF CloudRetry, Redialled, WsType, SvInv, ChannelOfUser
  <2>5. CASE WsLost
    <3>1. ws.channel # 0
      BY <2>5 DEF WsLost, SvInv, ChannelOfUser
    <3>2. QED
      BY <1>5, <2>5, <3>1 DEF WsLost, WsType
  <2>6. QED
    BY <2>1, <2>2, <2>3, <2>4, <2>5
<1>7. /\ ws' \in WsType /\ ws'.channel = ws.channel
      /\ ws.channel = 0 => ws'.state = "down"
      /\ ws'.state = "up" => ws.state = "up" /\ pushed' = pushed
      /\ pushed' \in Seq(ProfileRecord)
  <2>1. pushed' \in Seq(ProfileRecord)
    <3>1. pushed' = pushed \/ pushed' = <<>>
      BY <1>6
    <3>2. <<>> \in Seq(ProfileRecord)
      OBVIOUS
    <3>3. QED
      BY <1>5, <3>1, <3>2, Zenon
  <2>2. ws.channel = 0 => ws.state = "down"
    BY DEF SvInv, ChannelOfUser
  <2>3. ws' \in WsType /\ ws'.channel = ws.channel
    BY <1>5, <1>6 DEF WsType
  <2>4. ws' = ws \/ ws'.state = "down" \/ (ws.channel # 0 /\ ws'.state = "trying")
    BY <1>5, <1>6 DEF WsType
  <2>5. QED
    BY <1>6, <2>1, <2>2, <2>3, <2>4
<1>8. \/ proc' = proc
      \/ proc' = [proc EXCEPT !.disabled = TRUE, !.up = FALSE]
      \/ proc' = Resumed
  BY DEF Pause, Resume, SayHelloToUI, CloudRetry, WsLost, Unmoved
<1>9. user = Nobody => user.screen \notin mine.screens
  BY <1>1, ScreensAre DEF SvType, Nobody, ProfileRecord
<1>10. past = {} => CoreComes(proc, todo)
  BY DEF SvInv, OnTheWay
<1>11. /\ proc' \in ProcType
       /\ user = Nobody /\ ~proc.up => ~proc'.up
       /\ past = {} => CoreComes(proc', todo)
  <2>1. CASE proc' = proc
    BY <1>5, <1>10, <2>1 DEF CoreComes
  <2>2. CASE proc' = [proc EXCEPT !.disabled = TRUE, !.up = FALSE]
    <3>1. proc' \in ProcType /\ proc'.mode = proc.mode /\ proc'.disabled /\ ~proc'.up
      BY <1>5, <2>2 DEF ProcType
    <3>2. QED
      BY <1>10, <3>1 DEF CoreComes
  <2>3. CASE proc' = Resumed
    <3> DEFINE q == [proc EXCEPT !.disabled = FALSE]
    <3>1. q \in ProcType /\ q.mode = proc.mode /\ ~q.disabled /\ (q.up <=> proc.up)
      BY <1>5 DEF ProcType
    <3>2. proc' = Restarted(q)
      BY <2>3 DEF Resumed
    <3> HIDE DEF q
    <3>3. QED
      BY <1>1, <1>9, <1>10, <3>1, <3>2, RestartedIs DEF CoreComes
  <2>4. QED
    BY <1>8, <2>1, <2>2, <2>3
<1>12. SvType'
  <2>1. Load(disk)' = user'
    BY <1>1, <1>2 DEF SvType, Load
  <2>2. QED
    BY <1>1, <1>2, <1>3, <1>4, <1>7, <1>11, <2>1 DEF SvType
<1>13. past' = {} => CoreComes(proc', todo')
  BY <1>2, <1>11
<1>14. QED
  BY <1>2, <1>7, <1>11, <1>12, <1>13, KeepInv, TypeIs

\* A crash or a shutdown: the user that was saved is the user.
LEMMA RestartInv ==
  ASSUME SvInv, Crash \/ Shutdown
  PROVE  SvInv'
<1>1. ServiceTypeOK /\ SvType
  BY TypeIs DEF SvInv
<1>2. budget' \in BudgetType
  BY <1>1, BudgetStays DEF Crash, Shutdown
<1>3. past \subseteq past' /\ past' \subseteq Past
  BY <1>1 DEF SvType, Crash, Shutdown
<1>4. Load(disk) = user /\ Load(MakeTable(user)) = user
  <2>1. "profile" \in MakeTable(user).sections /\ MakeTable(user).profileId = user.profile
        /\ MakeTable(user).screenId = user.screen
    BY DEF MakeTable
  <2>2. Load(MakeTable(user)) = [profile |-> user.profile, screen |-> user.screen]
    BY <2>1 DEF Load
  <2>3. QED
    BY <1>1, <2>2 DEF SvType
<1>5. Reborn(disk) \/ Reborn(MakeTable(user))
  BY DEF Crash, Shutdown
<1>6. QED
  BY <1>2, <1>3, <1>4, <1>5, RebornInv

LEMMA LoadMade ==
  ASSUME NEW profile, NEW screen
  PROVE  Load(MakeTable([profile |-> profile, screen |-> screen]))
           = [profile |-> profile, screen |-> screen]
  BY DEF Load, MakeTable

\* A login: with nothing noted it is the first, or repeats the one in force.
LEMMA LoginInv ==
  ASSUME SvInv, NEW p \in ProfileId, NEW s \in Mine, NEW newToken \in BOOLEAN,
         Login(p, s, newToken)
  PROVE  SvInv'
<1> DEFINE u == [profile |-> p, screen |-> s]
           anew == newToken \/ p # user.profile
<1>1. ServiceTypeOK /\ SvType
  BY TypeIs DEF SvInv
<1>2. /\ user' = u /\ disk' = MakeTable(u)
      /\ past' = IF u # user /\ (user # Nobody \/ s \in mine.screens)
                 THEN past \union {"moved"} ELSE past
      /\ UNCHANGED <<mine, theirs, held, proc, router, todo, cloud>>
  BY DEF Login
<1>3. IF anew THEN ws' = [channel |-> p, state |-> "trying"] /\ pushed' = <<>>
      ELSE UNCHANGED <<ws, pushed>>
  BY DEF Login
<1>4. budget' \in BudgetType
  BY <1>1, BudgetStays DEF Login
<1>5. past \subseteq past' /\ past' \subseteq Past
  BY <1>1, <1>2 DEF SvType, Past
<1>6. p # 0 /\ s # 0 /\ u # Nobody /\ u.profile = p /\ u.screen = s
  BY ScreensAre DEF Nobody
<1>7. ~anew => user # Nobody /\ user.profile = p
  BY <1>6 DEF Nobody
<1>8. /\ ws' \in WsType /\ ws'.channel = p /\ pushed' \in Seq(ProfileRecord)
      /\ ws'.state = "up" => ws' = ws /\ pushed' = pushed /\ user # Nobody
  <2>1. CASE anew
    <3>1. ws' = [channel |-> p, state |-> "trying"] /\ pushed' = <<>>
      BY <1>3, <2>1
    <3>2. <<>> \in Seq(ProfileRecord)
      OBVIOUS
    <3>3. ws' \in WsType /\ ws'.channel = p /\ ws'.state # "up"
      BY <3>1 DEF WsType
    <3>4. pushed' \in Seq(ProfileRecord)
      BY <3>1, <3>2, Zenon
    <3>5. QED
      BY <3>3, <3>4
  <2>2. CASE ~anew
    BY <1>1, <1>3, <1>7, <2>2 DEF SvType, SvInv, ChannelOfUser
  <2>3. QED
    BY <2>1, <2>2
<1>9. SvType'
  <2>1. Load(disk)' = user'
    BY <1>2, LoadMade DEF Load
  <2>2. u \in [profile : ProfileId \union {0}, screen : Mine \union {0}]
    OBVIOUS
  <2> HIDE DEF u
  <2>3. QED
    BY <1>1, <1>2, <1>4, <1>5, <1>8, <2>1, <2>2 DEF SvType
<1>10. UserWhole' /\ ChannelOfUser'
  BY <1>2, <1>6, <1>8 DEF UserWhole, ChannelOfUser
<1> HIDE DEF u, anew
<1>11. CloudWhole' /\ MineWhole' /\ PushedInOrder'
  BY <1>2, <1>8 DEF SvInv, CloudWhole, MineWhole, PushedInOrder
<1>12. LoggedOutIdle'
  BY <1>2, <1>6 DEF LoggedOutIdle
<1>13. OnTheWay'
  <2> SUFFICES ASSUME past' = {}
               PROVE  CoreComes(proc, todo)' /\ RouterRuns' /\ ProfileComes'
    BY DEF OnTheWay
  <2>1. past = {} /\ (u = user \/ (user = Nobody /\ s \notin mine.screens))
    BY <1>2, <1>5
  <2>2. CoreComes(proc, todo) /\ RouterRuns /\ ProfileComes
    BY <2>1 DEF SvInv, OnTheWay
  <2>3. CASE u = user
    BY <1>2, <1>8, <2>2, <2>3 DEF CoreComes, RouterRuns, ProfileComes
  <2>4. CASE user = Nobody /\ s \notin mine.screens
    <3>1. router = 0
      BY <2>1, <2>4 DEF SvInv, LoggedOutIdle
    <3>2. s \notin mine.online
      BY <2>4, NoProfileIs DEF SvInv, MineWhole, WellFormed
    <3>3. ws'.state # "up"
      BY <1>8, <2>4
    <3>4. QED
      BY <1>2, <1>6, <2>2, <2>4, <3>1, <3>2, <3>3 DEF CoreComes, RouterRuns, ProfileComes
  <2>5. QED
    BY <2>1, <2>3, <2>4
<1>14. QED
  BY <1>9, <1>10, <1>11, <1>12, <1>13, TypeIs DEF SvInv

\* The websocket is refused, and the profile forgotten; or it comes up, and the cloud's
\* profile is pushed.
LEMMA WsRefusedInv ==
  ASSUME SvInv, WsRefused
  PROVE  SvInv'
<1>1. ServiceTypeOK /\ SvType
  BY TypeIs DEF SvInv
<1>2. /\ UNCHANGED <<user, disk, theirs, proc, router, todo, past, pushed, cloud>>
      /\ held' = FALSE /\ mine' = NoProfile /\ ws' = [ws EXCEPT !.state = "down"]
  BY DEF WsRefused, Unmoved
<1>3. budget' \in BudgetType
  BY <1>1, BudgetStays DEF WsRefused
<1>4. ws' \in WsType /\ ws'.state = "down" /\ ws'.channel = ws.channel
  BY <1>1, <1>2 DEF SvType, WsType
<1>5. SvType'
  <2>1. Load(disk)' = user'
    BY <1>1, <1>2 DEF SvType, Load
  <2>2. QED
    BY <1>1, <1>2, <1>3, <1>4, <2>1, NoProfileIs DEF SvType
<1>6. /\ UserWhole' /\ ChannelOfUser' /\ CloudWhole' /\ MineWhole' /\ PushedInOrder'
      /\ LoggedOutIdle'
  BY <1>2, <1>4 DEF SvInv, UserWhole, ChannelOfUser, CloudWhole, MineWhole, PushedInOrder,
                    LoggedOutIdle
<1>7. OnTheWay'
  BY <1>2, <1>4, NoProfileIs DEF SvInv, OnTheWay, CoreComes, RouterRuns, ProfileComes
<1>8. QED
  BY <1>5, <1>6, <1>7, TypeIs DEF SvInv

LEMMA WsUpInv ==
  ASSUME SvInv, WsUp
  PROVE  SvInv'
<1>1. ServiceTypeOK /\ SvType
  BY TypeIs DEF SvInv
<1> DEFINE c == cloud[ws.channel]
           one == <<c>>
<1>2. /\ UNCHANGED <<user, disk, theirs, proc, router, todo, past, mine, held, cloud, budget>>
      /\ ws' = [ws EXCEPT !.state = "up"] /\ pushed' = one /\ ws.state = "trying"
  BY DEF WsUp, Unmoved
<1>3. ws.channel \in ProfileId
  BY <1>1, <1>2 DEF SvInv, ChannelOfUser, SvType, WsType
<1>4. ws' \in WsType /\ ws'.state = "up" /\ ws'.channel = ws.channel
  BY <1>1, <1>2 DEF SvType, WsType
<1>5. WellFormed(c) /\ c.id = ws.channel /\ c \in ProfileRecord
  BY <1>3 DEF SvInv, CloudWhole, WellFormed
<1>6. c.version \in Int
  BY <1>5 DEF ProfileRecord
<1>7. mine.id = ws.channel => mine.version <= c.version
  BY <1>3, ScreensAre, NoProfileIs DEF SvInv, MineWhole
<1> HIDE DEF c
<1>8. one \in Seq(ProfileRecord) /\ one # <<>> /\ Len(one) = 1 /\ one[1] = c
  BY <1>5
<1> HIDE DEF one
<1>9. SvType'
  <2>1. Load(disk)' = user'
    BY <1>1, <1>2 DEF SvType, Load
  <2>2. QED
    BY <1>1, <1>2, <1>4, <1>8, <2>1 DEF SvType
<1>10. UserWhole' /\ ChannelOfUser' /\ CloudWhole' /\ MineWhole' /\ LoggedOutIdle'
  BY <1>2, <1>3, <1>4, ScreensAre
     DEF SvInv, UserWhole, ChannelOfUser, CloudWhole, MineWhole, LoggedOutIdle
<1>11. PushedInOrder'
  <2>1. \A i \in 1..Len(one) : i = 1
    BY <1>8
  <2>2. one[Len(one)] = c
    BY <1>8
  <2>3. c.version <= c.version
    BY <1>6
  <2>4. cloud'[ws'.channel] = c
    BY <1>2, <1>4 DEF c
  <2>5. QED
    BY <1>2, <1>4, <1>5, <1>7, <1>8, <2>1, <2>2, <2>3, <2>4 DEF PushedInOrder
<1>12. OnTheWay'
  BY <1>2, <1>8 DEF SvInv, OnTheWay, CoreComes, RouterRuns, ProfileComes
<1>13. QED
  BY <1>9, <1>10, <1>11, <1>12, TypeIs DEF SvInv

\* The cloud publishes a newer version of a profile.
LEMMA PublishedInv ==
  ASSUME SvInv, NEW p \in ProfileId, NEW profile, WellFormed(profile), profile.id = p,
         cloud[p].version <= profile.version, Published(p, profile), budget' \in BudgetType
  PROVE  SvInv'
<1>1. ServiceTypeOK /\ SvType
  BY TypeIs DEF SvInv
<1>2. /\ cloud' = [cloud EXCEPT ![p] = profile]
      /\ pushed' = IF ws.state = "up" /\ ws.channel = p THEN Append(pushed, profile) ELSE pushed
      /\ UNCHANGED <<user, disk, mine, theirs, held, proc, router, todo, ws, past>>
  BY DEF Published
<1>3. profile \in ProfileRecord /\ profile.version \in Int /\ pushed \in Seq(ProfileRecord)
  BY <1>1 DEF WellFormed, ProfileRecord, SvType
<1>4. /\ cloud' \in [ProfileId -> ProfileRecord] /\ cloud'[p] = profile
      /\ \A q \in ProfileId : q # p => cloud'[q] = cloud[q]
  BY <1>1, <1>2, <1>3 DEF SvType
<1>5. SvType'
  <2>1. pushed' \in Seq(ProfileRecord)
    BY <1>2, <1>3
  <2>2. Load(disk)' = user'
    BY <1>1, <1>2 DEF SvType, Load
  <2>3. QED
    BY <1>1, <1>2, <1>4, <2>1, <2>2 DEF SvType
<1>6. UserWhole' /\ ChannelOfUser' /\ LoggedOutIdle'
  BY <1>2 DEF SvInv, UserWhole, ChannelOfUser, LoggedOutIdle
<1>7. CloudWhole'
  BY <1>4 DEF SvInv, CloudWhole, WellFormed
<1>8. MineWhole'
  <2>1. CASE mine = NoProfile
    BY <1>2, <2>1 DEF MineWhole
  <2>2. CASE mine # NoProfile
    <3>1. WellFormed(mine) /\ mine.version <= cloud[mine.id].version
      BY <2>2 DEF SvInv, MineWhole
    <3>2. mine.id \in ProfileId /\ mine.version \in Int
      BY <3>1 DEF WellFormed, ProfileRecord
    <3>3. cloud[p].version \in Int
      BY <1>1 DEF SvType, ProfileRecord
    <3>4. mine.version <= cloud'[mine.id].version
      <4>1. CASE mine.id = p
        BY <1>3, <1>4, <3>1, <3>2, <3>3, <4>1
      <4>2. CASE mine.id # p
        BY <1>4, <3>1, <3>2, <4>2
      <4>3. QED
        BY <4>1, <4>2
    <3>5. QED
      BY <1>2, <3>1, <3>4 DEF MineWhole, WellFormed
  <2>3. QED
    BY <2>1, <2>2
<1>9. PushedInOrder'
  <2>1. CASE ws.state # "up"
    BY <1>2, <2>1 DEF PushedInOrder
  <2>2. CASE ws.state = "up" /\ ws.channel # p
    <3>1. ws.channel \in ProfileId
      BY <1>1, <2>2 DEF SvInv, ChannelOfUser, SvType, WsType
    <3>2. cloud'[ws.channel] = cloud[ws.channel]
      BY <1>4, <2>2, <3>1
    <3>3. QED
      BY <1>2, <2>2, <3>2 DEF SvInv, PushedInOrder, WellFormed
  <2>3. CASE ws.state = "up" /\ ws.channel = p
    <3> DEFINE n == Len(pushed)
    <3>1. /\ n \in Nat /\ pushed' = Append(pushed, profile) /\ Len(pushed') = n + 1
          /\ pushed'[n + 1] = profile /\ \A i \in 1..n : pushed'[i] = pushed[i]
      BY <1>2, <1>3, <2>3
    <3>2. /\ \A i \in 1..n : WellFormed(pushed[i]) /\ pushed[i].id = p
          /\ \A i, j \in 1..n : i <= j => pushed[i].version <= pushed[j].version
          /\ n # 0 => pushed[n] = cloud[p]
          /\ mine.id = p => \A i \in 1..n : mine.version <= pushed[i].version
      BY <1>3, <2>3 DEF SvInv, PushedInOrder
    <3>3. cloud[p].version \in Int
      BY <1>1 DEF SvType, ProfileRecord
    <3> HIDE DEF n
    <3>4. ASSUME NEW i \in 1..n
          PROVE  pushed[i].version <= profile.version
      <4>1. n \in 1..n /\ i <= n /\ pushed[n] = cloud[p]
        BY <3>1, <3>2
      <4>2. pushed[i].version <= cloud[p].version
        BY <3>2, <4>1
      <4>3. pushed[i].version \in Int
        BY <3>2 DEF WellFormed, ProfileRecord
      <4>4. QED
        BY <1>3, <3>3, <4>2, <4>3
    <3>5. ASSUME mine.id = p
          PROVE  mine.version <= profile.version
      <4>1. WellFormed(mine) /\ mine.version <= cloud[p].version
        BY <3>5, NoProfileIs, ScreensAre DEF SvInv, MineWhole
      <4>2. mine.version \in Int
        BY <4>1 DEF WellFormed, ProfileRecord
      <4>3. QED
        BY <1>3, <3>3, <4>1, <4>2
    <3>6. \A i \in 1..(n + 1) : i \in 1..n \/ i = n + 1
      BY <3>1
    <3>7. ASSUME NEW i \in 1..(n + 1)
          PROVE  WellFormed(pushed'[i]) /\ pushed'[i].id = p
      BY <3>1, <3>2, <3>6
    <3>8. ASSUME NEW i \in 1..(n + 1), NEW j \in 1..(n + 1), i <= j
          PROVE  pushed'[i].version <= pushed'[j].version
      <4>1. CASE j \in 1..n
        <5>1. i \in 1..n
          BY <3>1, <3>8, <4>1
        <5>2. QED
          BY <3>1, <3>2, <3>8, <4>1, <5>1
      <4>2. CASE j = n + 1 /\ i \in 1..n
        BY <3>1, <3>4, <4>2
      <4>3. CASE j = n + 1 /\ i = n + 1
        <5>1. pushed'[i] = profile /\ pushed'[j] = profile
          BY <3>1, <4>3
        <5>2. QED
          BY <1>3, <5>1
      <4>4. QED
        BY <3>6, <4>1, <4>2, <4>3
    <3>9. ASSUME mine.id = p, NEW i \in 1..(n + 1)
          PROVE  mine.version <= pushed'[i].version
      BY <3>1, <3>2, <3>5, <3>6, <3>9
    <3>10. QED
      BY <1>2, <1>4, <2>3, <3>1, <3>7, <3>8, <3>9 DEF PushedInOrder, WellFormed
  <2>4. QED
    BY <2>1, <2>2, <2>3
<1>10. OnTheWay'
  <2>1. ASSUME past = {}
        PROVE  CoreComes(proc, todo)' /\ RouterRuns'
    BY <1>2, <2>1 DEF SvInv, OnTheWay, CoreComes, RouterRuns
  <2>2. ASSUME past = {}, user # Nobody, ws.state = "up", pushed' = <<>>
        PROVE  mine = cloud'[ws.channel] \/ user.screen \notin cloud'[ws.channel].screens
    <3>1. ws.channel # p
      <4>1. Append(pushed, profile) # <<>>
        BY <1>3, LastOfAppend
      <4>2. QED
        BY <1>2, <2>2, <4>1
    <3>2. pushed = <<>>
      BY <1>2, <2>2, <3>1
    <3>3. ws.channel \in ProfileId
      BY <1>1, <2>2 DEF SvInv, ChannelOfUser, SvType, WsType
    <3>4. cloud'[ws.channel] = cloud[ws.channel]
      BY <1>4, <3>1, <3>3
    <3>5. QED
      BY <2>2, <3>2, <3>4 DEF SvInv, OnTheWay, ProfileComes
  <2>3. QED
    BY <1>2, <2>1, <2>2 DEF OnTheWay, ProfileComes
<1>11. QED
  BY <1>5, <1>6, <1>7, <1>8, <1>9, <1>10, TypeIs DEF SvInv

\* An edit of a profile: the screens and the server are changed.
LEMMA CloudEditInv ==
  ASSUME SvInv, \/ SeenOnline
                \/ \E p \in ProfileId : Register(p) \/ \E s \in Mine : Unregister(p, s)
  PROVE  SvInv'
<1>1. ServiceTypeOK /\ SvType
  BY TypeIs DEF SvInv
<1>2. budget \in BudgetType /\ MaxEdits \in Nat /\ MaxIds \in Nat /\ Mine = 1..MaxIds
  BY <1>1, ServiceAssumption DEF SvType, Mine
<1>3. ASSUME NEW p \in ProfileId
      PROVE  /\ WellFormed(cloud[p]) /\ cloud[p].id = p /\ cloud[p].version \in Int
             /\ cloud[p].screens \subseteq AnyScreen /\ cloud[p].server \in AnyScreen \union {0}
             /\ cloud[p].online \subseteq cloud[p].screens /\ cloud[p].server # 0
             /\ cloud[p] \in ProfileRecord
  BY DEF SvInv, CloudWhole, WellFormed, ProfileRecord
<1>4. ASSUME SeenOnline
      PROVE  SvInv'
  <2> DEFINE p == user.profile
             new == [cloud[p] EXCEPT !.online = @ \union {user.screen}]
  <2>1. p \in ProfileId
    BY <1>1, <1>4 DEF SeenOnline, SvInv, ChannelOfUser, SvType, WsType
  <2>2. /\ user.screen \in cloud[p].screens /\ Published(p, new) /\ UNCHANGED budget
    BY <1>4 DEF SeenOnline
  <2>3. WellFormed(new) /\ new.id = p /\ cloud[p].version <= new.version
    BY <1>3, <2>1, <2>2 DEF WellFormed, ProfileRecord
  <2> HIDE DEF new
  <2>4. QED
    BY <1>2, <2>1, <2>2, <2>3, PublishedInv
<1>5. ASSUME NEW p \in ProfileId, Register(p)
      PROVE  SvInv'
  <2> DEFINE id == budget.ids + 1
             new == [cloud[p] EXCEPT !.screens = @ \union {budget'.ids}, !.version = @ + 1]
  <2>1. /\ budget.edits < MaxEdits /\ budget.ids < MaxIds
        /\ budget' = [budget EXCEPT !.edits = budget.edits + 1, !.ids = id]
        /\ Published(p, new)
    BY <1>5 DEF Register
  <2>2. /\ budget.edits \in 0..MaxEdits /\ budget.ids \in 1..MaxIds
        /\ budget'.ids = id
    BY <1>2, <2>1 DEF BudgetType
  <2>3. id \in Mine /\ budget.edits + 1 \in 0..MaxEdits
    BY <1>2, <2>1, <2>2
  <2> HIDE DEF id
  <2>4. budget' \in BudgetType
    BY <1>2, <2>1, <2>3 DEF BudgetType
  <2>5. budget'.ids \in AnyScreen
    BY <2>2, <2>3, ScreensAre
  <2> DEFINE c == cloud[p]
             all == c.screens \union {budget'.ids}
             next == c.version + 1
  <2>6. all \subseteq AnyScreen /\ c.online \subseteq all /\ next \in Int /\ c.version <= next
    BY <1>3, <2>5
  <2>7. new = [c EXCEPT !.screens = all, !.version = next]
    OBVIOUS
  <2>8. c \in ProfileRecord /\ c.server # 0 /\ c.id = p /\ p # 0
    BY <1>3, ScreensAre
  <2> HIDE DEF all, next, new, c
  <2>9. WellFormed(new) /\ new.id = p /\ new.version = next
    BY <2>6, <2>7, <2>8 DEF WellFormed, ProfileRecord
  <2>10. QED
    BY <2>1, <2>4, <2>6, <2>9, PublishedInv DEF c
<1>6. ASSUME NEW p \in ProfileId, NEW s \in Mine, Unregister(p, s)
      PROVE  SvInv'
  <2> DEFINE c == cloud[p]
             left == c.screens \ {s}
             on == c.online \ {s}
             next == c.version + 1
             server == IF c.server = s THEN Other ELSE c.server
             new == [c EXCEPT !.screens = left, !.online = on, !.version = next, !.server = server]
  <2>1. /\ budget.edits < MaxEdits /\ budget' = [budget EXCEPT !.edits = budget.edits + 1]
        /\ Published(p, new)
    BY <1>6 DEF Unregister
  <2>2. budget.edits \in 0..MaxEdits
    BY <1>2 DEF BudgetType
  <2>3. budget.edits + 1 \in 0..MaxEdits
    BY <1>2, <2>1, <2>2
  <2>4. budget' \in BudgetType
    BY <1>2, <2>1, <2>3 DEF BudgetType
  <2>5. /\ left \subseteq AnyScreen /\ on \subseteq left /\ next \in Int /\ c.version <= next
        /\ server \in AnyScreen /\ server # 0
    BY <1>3, ScreensAre
  <2>6. c \in ProfileRecord /\ c.id = p /\ p # 0
    BY <1>3, ScreensAre
  <2> HIDE DEF left, on, next, server, c
  <2>7. WellFormed(new) /\ new.id = p /\ new.version = next
    BY <2>5, <2>6 DEF WellFormed, ProfileRecord
  <2> HIDE DEF new
  <2>8. QED
    BY <2>1, <2>4, <2>5, <2>7, PublishedInv DEF c
<1>7. QED
  BY <1>4, <1>5, <1>6

\* The snapshot that comes next.
LEMMA NextSnapshot ==
  ASSUME SvInv, ws.state = "up", pushed # <<>>
  PROVE  LET new == Head(pushed)
         IN  /\ WellFormed(new) /\ new.id = ws.channel /\ new.id \in ProfileId
             /\ new.version <= cloud[new.id].version
             /\ mine.id = new.id => mine.version <= new.version
             /\ Tail(pushed) = <<>> => new = cloud[ws.channel]
             /\ Tail(pushed) \in Seq(ProfileRecord)
             /\ \A i \in 1..Len(Tail(pushed)) : new.version <= Tail(pushed)[i].version
<1> DEFINE new == Head(pushed)
           rest == Tail(pushed)
           n == Len(pushed)
<1>1. SvType
  BY TypeIs DEF SvInv
<1>2. /\ pushed \in Seq(ProfileRecord) /\ rest \in Seq(ProfileRecord) /\ new = pushed[1]
      /\ rest = <<>> => pushed[n] = new
      /\ \A i \in 1..Len(rest) : i + 1 \in 1..n /\ rest[i] = pushed[i + 1]
  <2>1. pushed \in Seq(ProfileRecord)
    BY <1>1 DEF SvType
  <2> HIDE DEF ProfileRecord
  <2>2. QED
    BY <2>1, LastOfTail
<1>3. n \in Nat /\ n # 0 /\ 1 \in 1..n /\ n \in 1..n
  <2>1. n \in Nat /\ n # 0
    BY <1>2
  <2>2. QED
    BY <2>1
<1> HIDE DEF new, rest, n
<1>4. /\ \A i \in 1..n : WellFormed(pushed[i]) /\ pushed[i].id = ws.channel
      /\ \A i, j \in 1..n : i <= j => pushed[i].version <= pushed[j].version
      /\ pushed[n] = cloud[ws.channel]
      /\ mine.id = ws.channel => \A i \in 1..n : mine.version <= pushed[i].version
  BY DEF SvInv, PushedInOrder, n
<1>5. WellFormed(new) /\ new.id = ws.channel
  BY <1>2, <1>3, <1>4
<1>6. new.id \in ProfileId
  BY <1>5 DEF WellFormed, ProfileRecord
<1>7. new.version <= cloud[new.id].version
  <2>1. 1 <= n
    BY <1>3
  <2>2. pushed[1].version <= pushed[n].version
    BY <1>3, <1>4, <2>1
  <2>3. QED
    BY <1>2, <1>4, <1>5, <2>2
<1>8. mine.id = new.id => mine.version <= new.version
  BY <1>2, <1>3, <1>4, <1>5
<1>9. \A i \in 1..Len(rest) : new.version <= rest[i].version
  <2> SUFFICES ASSUME NEW i \in 1..Len(rest)
               PROVE  new.version <= rest[i].version
    OBVIOUS
  <2>1. i + 1 \in 1..n /\ rest[i] = pushed[i + 1] /\ 1 <= i + 1
    BY <1>2
  <2>2. QED
    BY <1>2, <1>3, <1>4, <2>1
<1>10. QED
  BY <1>2, <1>4, <1>5, <1>6, <1>7, <1>8, <1>9 DEF new, rest

\* What a snapshot leaves under way.
LEMMA RestInOrder ==
  ASSUME SvInv, ws.state = "up", pushed # <<>>, UNCHANGED <<ws, cloud>>, pushed' = Tail(pushed),
         mine' \in {mine, Head(pushed)}
  PROVE  PushedInOrder' /\ MineWhole' /\ CloudWhole'
<1> DEFINE new == Head(pushed)
           rest == Tail(pushed)
           n == Len(pushed)
<1>1. /\ WellFormed(new) /\ new.version <= cloud[new.id].version /\ new.id = ws.channel
      /\ \A i \in 1..Len(rest) : new.version <= rest[i].version
  BY NextSnapshot
<1>2. /\ pushed \in Seq(ProfileRecord)
      /\ rest # <<>> => rest[Len(rest)] = pushed[n]
      /\ \A i \in 1..Len(rest) : i + 1 \in 1..n /\ rest[i] = pushed[i + 1]
  <2>1. pushed \in Seq(ProfileRecord)
    BY TypeIs DEF SvInv, SvType
  <2> HIDE DEF ProfileRecord
  <2>2. QED
    BY <2>1, LastOfTail
<1> HIDE DEF new, rest, n
<1>3. /\ \A i \in 1..n : WellFormed(pushed[i]) /\ pushed[i].id = ws.channel
      /\ \A i, j \in 1..n : i <= j => pushed[i].version <= pushed[j].version
      /\ pushed[n] = cloud[ws.channel]
      /\ mine.id = ws.channel => \A i \in 1..n : mine.version <= pushed[i].version
  BY DEF SvInv, PushedInOrder, n
<1>4. \A i \in 1..Len(rest) : WellFormed(rest[i]) /\ rest[i].id = ws.channel
  BY <1>2, <1>3
<1>5. ASSUME NEW i \in 1..Len(rest), NEW j \in 1..Len(rest), i <= j
      PROVE  rest[i].version <= rest[j].version
  <2>1. i + 1 <= j + 1
    BY <1>5
  <2>2. QED
    BY <1>2, <1>3, <2>1
<1>6. rest # <<>> => rest[Len(rest)] = cloud[ws.channel]
  BY <1>2, <1>3
<1>7. ASSUME mine'.id = ws.channel, NEW i \in 1..Len(rest)
      PROVE  mine'.version <= rest[i].version
  <2>1. CASE mine' = new
    BY <1>1, <2>1
  <2>2. CASE mine' = mine
    BY <1>2, <1>3, <1>7, <2>2
  <2>3. QED
    BY <2>1, <2>2 DEF new
<1>8. pushed' = rest
  BY DEF rest
<1>9. PushedInOrder'
  BY <1>4, <1>5, <1>6, <1>7, <1>8 DEF PushedInOrder, WellFormed
<1>10. MineWhole'
  <2>1. CASE mine' = new
    BY <1>1, <2>1 DEF MineWhole, WellFormed
  <2>2. CASE mine' = mine
    BY <2>2 DEF SvInv, MineWhole, WellFormed
  <2>3. QED
    BY <2>1, <2>2 DEF new
<1>11. CloudWhole'
  BY DEF SvInv, CloudWhole
<1>12. QED
  BY <1>9, <1>10, <1>11

\* What compare posts for a snapshot.
LEMMA PostsAre ==
  ASSUME NEW old \in ProfileRecord, NEW new \in ProfileRecord, new.server # 0
  PROVE  /\ Posts(old, new) \in Seq(Handlers)
         /\ new.server # old.server => SwitchIn(Posts(old, new))
         /\ \A s \in new.screens \ old.screens : AddedIn(Posts(old, new), s)
<1> DEFINE added == new.screens \ old.screens
           s1 == [do |-> "switch", server |-> new.server]
           s2 == [do |-> "added", screens |-> added]
           s3 == [do |-> "set changed"]
           a == IF new.server # old.server THEN <<s1>> ELSE <<>>
           b == IF new.screens # old.screens THEN <<s2, s3>> ELSE <<>>
<1>1. new.server \in AnyScreen /\ added \subseteq AnyScreen
  BY DEF ProfileRecord
<1>2. Posts(old, new) = a \o b
  BY DEF Posts
<1>3. s1 \in Handlers /\ s1.do = "switch"
  BY <1>1 DEF Handlers
<1>4. s2 \in Handlers /\ s2.do = "added" /\ s2.screens = added
  BY <1>1 DEF Handlers
<1>5. s3 \in Handlers
  BY DEF Handlers
<1> HIDE DEF s1, s2, s3, Handlers
<1>6. /\ a \in Seq(Handlers)
      /\ new.server # old.server => a = <<s1>>
  <2>1. <<s1>> \in Seq(Handlers)
    BY <1>3
  <2>2. <<>> \in Seq(Handlers)
    OBVIOUS
  <2>3. QED
    BY <2>1, <2>2
<1>7. /\ b \in Seq(Handlers)
      /\ new.screens # old.screens => b = <<s2, s3>>
  <2>1. <<s2, s3>> \in Seq(Handlers)
    BY <1>4, <1>5
  <2>2. <<>> \in Seq(Handlers)
    OBVIOUS
  <2>3. QED
    BY <2>1, <2>2
<1> HIDE DEF a, b
<1>8. a \o b \in Seq(Handlers) /\ Range(a \o b) = Range(a) \union Range(b)
  BY <1>6, <1>7, RangeConcatenation
<1>9. s1 \in Range(<<s1>>) /\ s2 \in Range(<<s2, s3>>)
  <2>1. 1 \in DOMAIN <<s1>> /\ <<s1>>[1] = s1 /\ 1 \in DOMAIN <<s2, s3>> /\ <<s2, s3>>[1] = s2
    OBVIOUS
  <2>2. QED
    BY <2>1 DEF Range
<1>10. new.server # old.server => SwitchIn(a \o b)
  BY <1>3, <1>6, <1>8, <1>9 DEF SwitchIn
<1>11. ASSUME NEW s \in added
       PROVE  AddedIn(a \o b, s)
  <2>1. new.screens # old.screens
    BY <1>11
  <2>2. QED
    BY <1>4, <1>7, <1>8, <1>9, <1>11, <2>1 DEF AddedIn
<1>12. QED
  BY <1>2, <1>8, <1>10, <1>11

LEMMA RangesGrow ==
  ASSUME NEW more \in Seq(Handlers), todo \in Seq(Handlers)
  PROVE  /\ todo \o more \in Seq(Handlers)
         /\ SwitchIn(todo \o more) <=> SwitchIn(todo) \/ SwitchIn(more)
         /\ \A s : AddedIn(todo \o more, s) <=> AddedIn(todo, s) \/ AddedIn(more, s)
<1> HIDE DEF Handlers
<1>1. Range(todo \o more) = Range(todo) \union Range(more) /\ todo \o more \in Seq(Handlers)
  BY RangeConcatenation
<1>2. QED
  BY <1>1 DEF SwitchIn, AddedIn

\* A snapshot that changes nothing: it has not this computer's screen, nor had the last,
\* or it is old.
LEMMA SnapshotPassedInv ==
  ASSUME SvInv, ws.state = "up", pushed # <<>>, pushed' = Tail(pushed),
         theirs' = Head(pushed), held' = TRUE, past \subseteq past', past' \subseteq Past,
         UNCHANGED <<user, disk, mine, proc, router, todo, ws, cloud, budget>>,
         \/ user.screen \notin Head(pushed).screens
         \/ /\ Head(pushed).version < mine.version
            /\ Head(pushed).id = user.profile /\ Head(pushed).id # mine.id => past' # {}
  PROVE  SvInv'
<1> DEFINE new == Head(pushed)
<1>1. SvType
  BY TypeIs DEF SvInv
<1>2. /\ WellFormed(new) /\ new.id = ws.channel /\ new.version \in Int /\ new \in ProfileRecord
      /\ mine.id = new.id => mine.version <= new.version
      /\ Tail(pushed) = <<>> => new = cloud[ws.channel]
      /\ Tail(pushed) \in Seq(ProfileRecord)
  BY NextSnapshot DEF WellFormed, ProfileRecord
<1>3. mine.version \in Int
  BY <1>1 DEF SvType, ProfileRecord
<1>4. PushedInOrder' /\ MineWhole' /\ CloudWhole'
  BY RestInOrder
<1>5. SvType'
  <2>1. Load(disk)' = user'
    BY <1>1 DEF SvType, Load
  <2>2. QED
    BY <1>1, <1>2, <2>1 DEF SvType
<1>6. UserWhole' /\ ChannelOfUser' /\ LoggedOutIdle'
  BY DEF SvInv, UserWhole, ChannelOfUser, LoggedOutIdle
<1> HIDE DEF new
<1>7. OnTheWay'
  <2> SUFFICES ASSUME past' = {}
               PROVE  CoreComes(proc, todo)' /\ RouterRuns' /\ ProfileComes'
    BY DEF OnTheWay
  <2>1. CoreComes(proc, todo)' /\ RouterRuns'
    BY DEF SvInv, OnTheWay, CoreComes, RouterRuns
  <2>2. ASSUME user # Nobody, Tail(pushed) = <<>>
        PROVE  user.screen \notin cloud[ws.channel].screens
    <3>1. ws.channel = user.profile /\ new = cloud[ws.channel]
      BY <1>2, <2>2 DEF SvInv, ChannelOfUser
    <3>2. ~(new.version < mine.version) \/ new.id # mine.id
      BY <1>2, <1>3
    <3>3. user.screen \notin new.screens
      BY <1>2, <3>1, <3>2 DEF new
    <3>4. QED
      BY <3>1, <3>3
  <2>3. QED
    BY <2>1, <2>2 DEF ProfileComes
<1>8. QED
  BY <1>4, <1>5, <1>6, <1>7, TypeIs DEF SvInv

\* A snapshot is stored, and what it changes is posted.
LEMMA SnapshotStoredInv ==
  ASSUME SvInv, ws.state = "up", pushed # <<>>, pushed' = Tail(pushed),
         theirs' = Head(pushed), held' = TRUE, mine' = Head(pushed),
         todo' = todo \o Posts(mine, Head(pushed)), router' = RouterStarted(mine, Head(pushed)),
         user.screen \in mine.screens \union Head(pushed).screens,
         UNCHANGED <<user, disk, proc, ws, cloud, past, budget>>
  PROVE  SvInv'
<1> DEFINE new == Head(pushed)
           posts == Posts(mine, new)
<1>1. SvType
  BY TypeIs DEF SvInv
<1>2. /\ WellFormed(new) /\ new \in ProfileRecord /\ new.server # 0
      /\ new.online \subseteq new.screens
      /\ Tail(pushed) = <<>> => new = cloud[ws.channel]
      /\ Tail(pushed) \in Seq(ProfileRecord)
  BY NextSnapshot DEF WellFormed
<1>3. PushedInOrder' /\ MineWhole' /\ CloudWhole'
  BY RestInOrder
<1>4. mine \in ProfileRecord /\ todo \in Seq(Handlers)
  BY <1>1 DEF SvType
<1>5. /\ posts \in Seq(Handlers)
      /\ new.server # mine.server => SwitchIn(posts)
      /\ \A s \in new.screens \ mine.screens : AddedIn(posts, s)
  BY <1>2, <1>4, PostsAre
<1> HIDE DEF posts
<1>6. /\ todo' \in Seq(Handlers)
      /\ SwitchIn(todo') <=> SwitchIn(todo) \/ SwitchIn(posts)
      /\ \A s : AddedIn(todo', s) <=> AddedIn(todo, s) \/ AddedIn(posts, s)
  <2>1. todo' = todo \o posts
    BY DEF posts
  <2>2. QED
    BY <1>4, <1>5, <2>1, RangesGrow
<1>7. user # Nobody
  BY <1>1, <1>2, <1>4, ScreensAre DEF Nobody, ProfileRecord
<1>8. \/ router' = user.screen
      \/ router' = router /\ (router # 0 \/ user.screen \notin new.online \ mine.online)
  BY DEF RouterStarted
<1> HIDE DEF new
<1>9. SvType'
  <2>1. Load(disk)' = user'
    BY <1>1 DEF SvType, Load
  <2>2. router' \in Mine \union {0}
    BY <1>1, <1>8 DEF SvType
  <2>3. mine' = new /\ theirs' = new
    BY DEF new
  <2>4. QED
    BY <1>1, <1>2, <1>6, <2>1, <2>2, <2>3 DEF SvType
<1>10. UserWhole' /\ ChannelOfUser' /\ LoggedOutIdle'
  BY <1>7 DEF SvInv, UserWhole, ChannelOfUser, LoggedOutIdle
<1>11. OnTheWay'
  <2> SUFFICES ASSUME past = {}
               PROVE  CoreComes(proc, todo)' /\ RouterRuns' /\ ProfileComes'
    BY DEF OnTheWay
  <2>1. CoreComes(proc, todo) /\ RouterRuns /\ mine' = new
    BY DEF SvInv, OnTheWay, new
  <2>2. proc.mode # "unknown" \/ SwitchIn(todo')
    <3>1. CASE mine = NoProfile
      BY <1>2, <1>5, <1>6, <3>1, NoProfileIs
    <3>2. CASE mine # NoProfile
      BY <1>6, <2>1, <3>2 DEF CoreComes
    <3>3. QED
      BY <3>1, <3>2
  <2>3. ASSUME user.screen \in new.screens, proc.mode # "unknown", ~proc.disabled
        PROVE  proc.up \/ AddedIn(todo', user.screen)
    <3>1. CASE user.screen \in mine.screens
      BY <1>6, <2>1, <2>3, <3>1 DEF CoreComes
    <3>2. CASE user.screen \notin mine.screens
      BY <1>5, <1>6, <2>3, <3>2
    <3>3. QED
      BY <3>1, <3>2
  <2>4. CoreComes(proc, todo)'
    BY <2>1, <2>2, <2>3 DEF CoreComes, AddedIn
  <2>5. RouterRuns'
    BY <1>8, <2>1 DEF RouterRuns
  <2>6. ProfileComes'
    BY <1>2, <2>1 DEF ProfileComes
  <2>7. QED
    BY <2>4, <2>5, <2>6
<1>12. QED
  BY <1>3, <1>9, <1>10, <1>11, TypeIs DEF SvInv

\* A snapshot has lost the screen, and the service logs out.
LEMMA ScreenRemovedInv ==
  ASSUME SvInv, ws.state = "up", pushed # <<>>, theirs' = Head(pushed), held' = TRUE,
         user.screen \in mine.screens, ScreenRemoved(Head(pushed)), UNCHANGED cloud
  PROVE  SvInv'
<1> DEFINE new == Head(pushed)
           posts == Posts(mine, new)
           lost == \E h \in Range(todo \o posts) : h.do = "switch"
<1>1. SvType
  BY TypeIs DEF SvInv
<1>2. /\ WellFormed(new) /\ new \in ProfileRecord /\ new.server # 0
      /\ new.version <= cloud[new.id].version
  BY NextSnapshot DEF WellFormed
<1>3. PICK again \in BOOLEAN :
        /\ again => proc.mode # "unknown" /\ Called
        /\ ~again => UNCHANGED budget
        /\ proc' = [proc EXCEPT !.disabled = ~again, !.up = again]
        /\ past' = past \union (IF again THEN {"reentered"} ELSE {})
                        \union (IF lost THEN {"missed"} ELSE {})
        /\ ws' = [ws EXCEPT !.state = "down"] /\ pushed' = <<>> /\ todo' = <<>>
        /\ router' = 0 /\ user' = Nobody /\ disk' = MakeTable(Nobody) /\ mine' = new
  BY DEF ScreenRemoved
<1>4. proc \in ProcType /\ ws \in WsType /\ mine \in ProfileRecord /\ todo \in Seq(Handlers)
  BY <1>1 DEF SvType
<1>5. proc' \in ProcType /\ proc'.mode = proc.mode /\ (proc'.up <=> again)
  <2>1. (~again) \in BOOLEAN
    OBVIOUS
  <2>2. QED
    BY <1>3, <1>4, <2>1 DEF ProcType
<1>6. ws' \in WsType /\ ws'.channel = ws.channel /\ ws'.state = "down"
  BY <1>3, <1>4 DEF WsType
<1>7. budget' \in BudgetType
  <2>1. CASE again
    BY <1>3, <2>1, BudgetStays DEF SvInv
  <2>2. CASE ~again
    BY <1>1, <1>3, <2>2 DEF SvType
  <2>3. QED
    BY <2>1, <2>2
<1>8. past \subseteq past' /\ past' \subseteq Past
  BY <1>1, <1>3 DEF SvType, Past
<1>9. SwitchIn(todo) => lost
  <2>1. posts \in Seq(Handlers)
    BY <1>2, <1>4, PostsAre
  <2> HIDE DEF posts
  <2>2. SwitchIn(todo) => SwitchIn(todo \o posts)
    BY <1>4, <2>1, RangesGrow
  <2>3. QED
    BY <2>2 DEF SwitchIn
<1>10. Nobody.screen = 0 /\ Nobody \in [profile : ProfileId \union {0}, screen : Mine \union {0}]
  BY DEF Nobody
<1> HIDE DEF new, lost
<1>11. SvType'
  <2>1. Load(disk)' = user'
    <3>1. Load(MakeTable(Nobody)) = Nobody
      BY LoadMade DEF Nobody
    <3>2. QED
      BY <1>3, <3>1 DEF Load
  <2>2. <<>> \in Seq(Handlers) /\ <<>> \in Seq(ProfileRecord)
    OBVIOUS
  <2>3. theirs' = new
    BY DEF new
  <2>4. cloud' \in [ProfileId -> ProfileRecord]
    BY <1>1 DEF SvType
  <2>5. todo' \in Seq(Handlers) /\ pushed' \in Seq(ProfileRecord)
    BY <1>3, <2>2, Zenon
  <2>6. QED
    BY <1>2, <1>3, <1>5, <1>6, <1>7, <1>8, <1>10, <2>1, <2>3, <2>4, <2>5 DEF SvType
<1>12. UserWhole' /\ ChannelOfUser' /\ CloudWhole' /\ PushedInOrder'
  BY <1>3, <1>6 DEF SvInv, UserWhole, ChannelOfUser, CloudWhole, PushedInOrder
<1>13. MineWhole'
  BY <1>2, <1>3 DEF MineWhole, WellFormed
<1>14. LoggedOutIdle'
  BY <1>3, <1>5 DEF LoggedOutIdle
<1>15. OnTheWay'
  <2> SUFFICES ASSUME past' = {}
               PROVE  CoreComes(proc, todo)' /\ RouterRuns' /\ ProfileComes'
    BY DEF OnTheWay
  <2>1. past = {} /\ ~lost
    BY <1>3, <1>8
  <2>2. mine # NoProfile
    BY NoProfileIs
  <2>3. proc.mode # "unknown"
    BY <1>9, <2>1, <2>2 DEF SvInv, OnTheWay, CoreComes
  <2>4. 0 \notin new.screens /\ 0 \notin new.online
    BY <1>2, ScreensAre DEF ProfileRecord
  <2>5. CoreComes(proc, todo)' /\ RouterRuns'
    BY <1>3, <1>5, <1>10, <2>3, <2>4 DEF CoreComes, RouterRuns
  <2>6. ProfileComes'
    BY <1>3 DEF ProfileComes
  <2>7. QED
    BY <2>5, <2>6
<1>16. QED
  BY <1>11, <1>12, <1>13, <1>14, <1>15, TypeIs DEF SvInv

LEMMA SnapshotReceivedInv ==
  ASSUME SvInv, SnapshotReceived
  PROVE  SvInv'
<1> DEFINE new == Head(pushed)
<1>1. SvType
  BY TypeIs DEF SvInv
<1>2. ws.state = "up" /\ pushed # <<>> /\ theirs' = new /\ held' = TRUE /\ UNCHANGED cloud
  BY DEF SnapshotReceived
<1>3. CASE user.screen \notin mine.screens \union new.screens
  <2>1. /\ pushed' = Tail(pushed) /\ user.screen \notin new.screens
        /\ UNCHANGED <<user, disk, mine, proc, router, todo, ws, past, budget>>
    BY <1>3 DEF SnapshotReceived
  <2>2. past \subseteq past' /\ past' \subseteq Past
    BY <1>1, <2>1 DEF SvType
  <2>3. QED
    BY <1>2, <2>1, <2>2, SnapshotPassedInv
<1>4. CASE user.screen \in mine.screens \union new.screens
  <2>1. Apply(new)
    BY <1>4 DEF SnapshotReceived
  <2>2. CASE new.version < mine.version
    <3>0. new.version \in Int /\ mine.version \in Int
      <4>1. WellFormed(new)
        BY <1>2, NextSnapshot
      <4>2. QED
        BY <1>1, <4>1 DEF WellFormed, ProfileRecord, SvType
    <3>1. /\ past' = IF new.id = user.profile /\ new.id # mine.id THEN past \union {"older"} ELSE past
          /\ UNCHANGED <<user, disk, mine, proc, router, todo, ws, budget>>
          /\ pushed' = Tail(pushed)
      BY <2>1, <2>2, <3>0 DEF Apply
    <3>2. past \subseteq past' /\ past' \subseteq Past
      BY <1>1, <3>1 DEF SvType, Past
    <3>3. new.id = user.profile /\ new.id # mine.id => past' # {}
      BY <3>1
    <3>4. QED
      BY <1>2, <2>2, <3>1, <3>2, <3>3, SnapshotPassedInv
  <2>3. CASE ~(new.version < mine.version)
    <3>1. CASE user.screen \in mine.screens \ new.screens
      <4>1. ScreenRemoved(new)
        BY <2>1, <2>3, <3>1 DEF Apply
      <4>2. QED
        BY <1>2, <3>1, <4>1, ScreenRemovedInv
    <3>2. CASE user.screen \notin mine.screens \ new.screens
      <4>1. /\ todo' = todo \o Posts(mine, new)
            /\ router' = RouterStarted(mine, new) /\ mine' = new
            /\ UNCHANGED <<user, disk, proc, ws, past, budget>> /\ pushed' = Tail(pushed)
        BY <2>1, <2>3, <3>2 DEF Apply
      <4>2. QED
        BY <1>2, <1>4, <4>1, SnapshotStoredInv
    <3>3. QED
      BY <3>1, <3>2
  <2>4. QED
    BY <2>2, <2>3
<1>5. QED
  BY <1>3, <1>4

LEMMA SvStepInv == SvInv /\ [ServiceNext]_serviceVars => SvInv'
<1> SUFFICES ASSUME SvInv, [ServiceNext]_serviceVars
             PROVE  SvInv'
  OBVIOUS
<1>1. CASE ServiceHandler
  BY <1>1, RunSwitchedInv, RunOthersInv, SnapshotReceivedInv, WsUpInv, CloudEditInv
     DEF ServiceHandler
<1>2. CASE Crash \/ Shutdown
  BY <1>2, RestartInv
<1>3. CASE WsLost \/ Pause \/ Resume \/ SayHelloToUI \/ CloudRetry
  BY <1>3, CallsInv
<1>4. CASE WsRefused
  BY <1>4, WsRefusedInv
<1>5. ASSUME NEW s \in {Other, user.screen}, ClaimArrives(s)
      PROVE  SvInv'
  BY <1>5, ClaimArrivesInv
<1>6. ASSUME NEW p \in ProfileId,
             Register(p) \/ \E s \in Mine : Unregister(p, s)
      PROVE  SvInv'
  BY <1>6, CloudEditInv
<1>7. ASSUME NEW p \in ProfileId, NEW s \in Mine, NEW newToken \in BOOLEAN,
             Login(p, s, newToken)
      PROVE  SvInv'
  BY <1>7, LoginInv
<1>8. CASE UNCHANGED serviceVars
  <2>1. SvType'
    <3>1. SvType
      BY TypeIs DEF SvInv
    <3>2. Load(disk)' = user'
      BY <1>8, <3>1 DEF SvType, Load, serviceVars
    <3>3. QED
      BY <1>8, <3>1, <3>2 DEF SvType, serviceVars
  <2>2. past' = {} => CoreComes(proc', todo')
    BY <1>8 DEF SvInv, OnTheWay, serviceVars
  <2>3. ws.channel = 0 => ws'.state = "down"
    BY <1>8 DEF SvInv, ChannelOfUser, serviceVars
  <2>4. QED
    BY <1>8, <2>1, <2>2, <2>3, KeepInv, TypeIs DEF serviceVars
<1>9. QED
  BY <1>1, <1>2, <1>3, <1>4, <1>5, <1>6, <1>7, <1>8 DEF ServiceNext

\* What the service is, in every order of snapshots, handlers posted, calls of the UI and
\* the tray, losses, crashes and edits in the cloud; among it that the user saved on disk
\* is the user, and that the snapshots under way are in order and end with the cloud's.
THEOREM ServiceInvariant == ServiceSpec => []SvInv
<1>1. ServiceInit => SvInv
  <2> SUFFICES ASSUME ServiceInit
               PROVE  SvInv
    OBVIOUS
  <2>1. /\ user = Nobody /\ disk = NoFile /\ mine = NoProfile /\ theirs = NoProfile
        /\ held = FALSE /\ proc = NewProc /\ router = 0 /\ todo = <<>> /\ pushed = <<>>
        /\ ws = [channel |-> 0, state |-> "down"] /\ past = {}
        /\ budget = [ids |-> 1, edits |-> 0, calls |-> 0, breaks |-> 0]
    BY DEF ServiceInit
  <2>2. PICK first \in ProfileId :
          cloud = [p \in ProfileId |->
                     [id |-> p, version |-> p, server |-> Other, online |-> {Other},
                      screens |-> IF p = first THEN {Other, 1} ELSE {Other}]]
    BY DEF ServiceInit
  <2>3. ASSUME NEW p \in ProfileId
        PROVE  WellFormed(cloud[p]) /\ cloud[p].id = p
    <3> DEFINE all == IF p = first THEN {Other, 1} ELSE {Other}
    <3>1. cloud[p] = [id |-> p, version |-> p, server |-> Other, online |-> {Other}, screens |-> all]
      BY <2>2
    <3>2. all \subseteq AnyScreen /\ {Other} \subseteq all /\ p \in Int /\ p # 0 /\ Other # 0
          /\ {Other} \subseteq AnyScreen
      BY ScreensAre, ServiceAssumption
    <3> HIDE DEF all
    <3>3. QED
      BY <3>1, <3>2, ScreensAre DEF WellFormed, ProfileRecord
  <2>4. cloud \in [ProfileId -> ProfileRecord]
    <3>1. DOMAIN cloud = ProfileId /\ cloud = [p \in ProfileId |-> cloud[p]]
      BY <2>2
    <3>2. QED
      BY <2>3, <3>1 DEF WellFormed
  <2>5. Load(disk) = user /\ user \in [profile : ProfileId \union {0}, screen : Mine \union {0}]
    BY <2>1 DEF Load, NoFile, Nobody
  <2>6. ws \in WsType /\ ws.state = "down"
    BY <2>1 DEF WsType
  <2>7. budget \in BudgetType
    BY <2>1, ScreensAre, ServiceAssumption DEF BudgetType
  <2>8. SvType
    <3>1. todo \in Seq(Handlers) /\ pushed \in Seq(ProfileRecord)
      BY <2>1
    <3>2. QED
      BY <2>1, <2>4, <2>5, <2>6, <2>7, <3>1, NoProfileIs DEF SvType
  <2>9. UserWhole /\ ChannelOfUser /\ CloudWhole /\ MineWhole /\ PushedInOrder
    BY <2>1, <2>3, <2>6 DEF UserWhole, ChannelOfUser, CloudWhole, MineWhole, PushedInOrder
  <2>10. LoggedOutIdle /\ OnTheWay
    BY <2>1, <2>6, NoProfileIs
       DEF LoggedOutIdle, OnTheWay, CoreComes, RouterRuns, ProfileComes
  <2>11. QED
    BY <2>8, <2>9, <2>10, TypeIs DEF SvInv
<1>2. QED
  BY <1>1, SvStepInv, PTL DEF ServiceSpec

\* A service that is logged out runs neither core nor router (LoggedOutIdle).
THEOREM ServiceIdle == ServiceSpec => []LoggedOutIdle
<1>1. SvInv => LoggedOutIdle
  BY DEF SvInv
<1>2. QED
  BY <1>1, ServiceInvariant, PTL

\* At rest the service acts on the user's profile as the cloud has it, with a router and,
\* unless it was paused, with a core (InStep).
THEOREM ServiceInStep == ServiceSpec => []InStep
<1>1. SvInv => InStep
  <2> SUFFICES ASSUME SvInv, AtRest, past = {}
               PROVE  /\ mine.id = user.profile /\ mine.screens = cloud[user.profile].screens
                      /\ router = user.screen
                      /\ proc.up \/ proc.disabled
    BY DEF InStep
  <2>1. /\ user # Nobody /\ ws.state = "up" /\ ws.channel = user.profile
        /\ pushed = <<>> /\ todo = <<>>
        /\ user.screen \in cloud[user.profile].online
    BY DEF AtRest
  <2>2. user.profile \in ProfileId
    BY <2>1, TypeIs DEF SvInv, UserWhole, SvType
  <2>3. WellFormed(cloud[user.profile]) /\ cloud[user.profile].id = user.profile
    BY <2>2 DEF SvInv, CloudWhole
  <2>4. user.screen \in cloud[user.profile].screens
    BY <2>1, <2>3 DEF WellFormed
  <2>5. mine = cloud[user.profile]
    BY <2>1, <2>4 DEF SvInv, OnTheWay, ProfileComes
  <2>6. mine # NoProfile
    BY <2>4, <2>5, NoProfileIs
  <2>7. ~SwitchIn(todo) /\ ~AddedIn(todo, user.screen)
    BY <2>1 DEF SwitchIn, AddedIn, Range
  <2>8. CoreComes(proc, todo) /\ RouterRuns
    BY DEF SvInv, OnTheWay
  <2>9. proc.up \/ proc.disabled
    BY <2>4, <2>5, <2>6, <2>7, <2>8 DEF CoreComes
  <2>10. router = user.screen
    BY <2>1, <2>5, <2>8 DEF RouterRuns
  <2>11. QED
    BY <2>3, <2>5, <2>9, <2>10
<1>2. QED
  BY <1>1, ServiceInvariant, PTL
=============================================================================
