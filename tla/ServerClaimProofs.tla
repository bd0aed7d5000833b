------------------------- MODULE ServerClaimProofs -------------------------
(***************************************************************************)
(* What the services know of the profile, for any number of screens.  A    *)
(* service's remote profile and the snapshots on their way to it have      *)
(* growing versions and end with the cloud's profile (InOrder, UpToDate);  *)
(* from that it follows what the local profile can differ in.  Then, of    *)
(* claims that do not cross (Episode), that the last one wins.             *)
(***************************************************************************)
EXTENDS ServerClaim, TLAPS

\* The snapshots under way to s are newer than the one it has, and in order.
InOrder ==
  \A s \in Screen :
    /\ \A i \in 1 .. Len(push[s]) :
         /\ remote[s].version < push[s][i].version
         /\ push[s][i].version <= cloud.version
    /\ \A i, j \in 1 .. Len(push[s]) :
         i < j => push[s][i].version < push[s][j].version

\* The newest profile that s has or will get is the one in the cloud.
UpToDate ==
  \A s \in Screen :
    /\ remote[s].version <= cloud.version
    /\ push[s] = <<>> => remote[s] = cloud
    /\ push[s] # <<>> => push[s][Len(push[s])] = cloud

\* A service that disagrees with its last snapshot has a claim or a snapshot under
\* way, or was behind when it claimed.
Accounted ==
  \A s \in Screen :
    local[s].server # remote[s].server =>
      \/ jobs[s] # <<>> \/ push[s] # <<>>
      \/ local[s].version < remote[s].version

IInv == TypeOK /\ InOrder /\ UpToDate /\ LocalFollows /\ Accounted

Profiles == <<local, remote, jobs, cloud, push>>
-----------------------------------------------------------------------------
(* Types *)

\* switchServer keeps the roles typed: only a server core is starting.
LEMMA SwitchTyped ==
  ASSUME TypeOK, NEW s \in Screen, NEW server \in Screen,
         SwitchServer(s, server)
  PROVE  /\ core' \in [Screen -> Screen]
         /\ starting' \subseteq Screen
         /\ \A t \in starting' : core'[t] = t
<1>1. CASE server # s
  BY <1>1 DEF SwitchServer, TypeOK
<1>2. CASE server = s /\ core[s] = s
  BY <1>2 DEF SwitchServer, TypeOK
<1>3. CASE server = s /\ core[s] # s
  BY <1>3 DEF SwitchServer, TypeOK
<1>4. QED
  BY <1>1, <1>2, <1>3

\* A claim sent to the other services keeps the channels typed.
LEMMA NotifiedTyped ==
  ASSUME NEW channels \in [Screen -> [Screen -> Seq(Screen)]],
         NEW s \in Screen, NEW server \in Screen
  PROVE  Notified(channels, s, server) \in [Screen -> [Screen -> Seq(Screen)]]
<1>1. \A t \in Screen : Append(channels[s][t], server) \in Seq(Screen)
  OBVIOUS
<1>2. [t \in Screen |-> IF t = s THEN channels[s][t]
                        ELSE Append(channels[s][t], server)]
        \in [Screen -> Seq(Screen)]
  BY <1>1
<1>3. QED
  BY <1>2 DEF Notified

\* The bookkeeping of a user's claim.
LEMMA ClaimsTyped ==
  ASSUME TypeOK, NEW server \in Screen, Claims(server)
  PROVE  contested' \in BOOLEAN /\ winner' \in Screen /\ spent' \in Spent
<1>1. contested' \in BOOLEAN /\ winner' \in Screen
  BY DEF Claims, TypeOK
<1>2. spent \in Spent /\ spent.inputs + 1 \in Nat
  BY DEF TypeOK, Spent
<1>3. spent' \in Spent
  BY <1>2 DEF Claims, Spent
<1>4. QED
  BY <1>1, <1>3

\* Posting handlers keeps the queues typed.
LEMMA PostTyped ==
  ASSUME TypeOK, NEW s \in Screen, NEW handlers \in Seq(Handler),
         Post(s, handlers)
  PROVE  posted' \in [Screen -> Seq(Handler)]
<1>1. posted[s] \o handlers \in Seq(Handler)
  BY DEF TypeOK
<1>2. QED
  BY <1>1 DEF Post, TypeOK

\* compare makes CoreManager post handlers.
LEMMA ChangesTyped ==
  ASSUME NEW p \in Profile, NEW q \in Profile
  PROVE  /\ Changes(p, q) \in Seq(Handler)
         /\ Changes(p, q) = <<>> <=> p.server = q.server /\ p.layout = q.layout
<1> DEFINE switch == [do |-> "switch", server |-> q.server]
           layout == [do |-> "layout"]
           a == ChangedServer(p, q)
           b == IF q.layout # p.layout THEN <<layout>> ELSE <<>>
<1>1. switch \in Handler /\ layout \in Handler
  BY DEF Handler, Profile
<1>2. a \in Seq(Handler) /\ (a = <<>> <=> p.server = q.server)
  BY <1>1 DEF ChangedServer
<1>3. b \in Seq(Handler) /\ (b = <<>> <=> p.layout = q.layout)
  BY <1>1
<1>4. a \o b \in Seq(Handler) /\ (a \o b = <<>> <=> a = <<>> /\ b = <<>>)
  <2> HIDE DEF a, b
  <2>1. a \o b \in Seq(Handler) /\ Len(a \o b) = Len(a) + Len(b)
    BY <1>2, <1>3
  <2>2. QED
    BY <2>1, <1>2, <1>3
<1>5. QED
  BY <1>2, <1>3, <1>4 DEF Changes
-----------------------------------------------------------------------------
(* The steps that leave the profiles alone *)

\* Unchanged profiles keep what the invariant says of them.
LEMMA ProfilesStay ==
  ASSUME IInv, UNCHANGED Profiles, TypeOK'
  PROVE  IInv'
<1>1. /\ local' = local /\ remote' = remote /\ jobs' = jobs
      /\ cloud' = cloud /\ push' = push
  BY DEF Profiles
<1>2. InOrder' /\ UpToDate'
  BY <1>1 DEF IInv, InOrder, UpToDate
<1>3. LocalFollows' /\ Accounted'
  BY <1>1 DEF IInv, LocalFollows, Accounted
<1>4. QED
  BY <1>2, <1>3 DEF IInv

\* Input at a screen, and its handler.
LEMMA InputKeeps ==
  ASSUME IInv, NEW s \in Screen, LocalInput(s) \/ RunInput(s)
  PROVE  IInv'
<1>1. TypeOK
  BY DEF IInv
<1>2. CASE LocalInput(s)
  <2>1. <<[do |-> "input"]>> \in Seq(Handler)
    BY DEF Handler
  <2>2. posted' \in [Screen -> Seq(Handler)]
    BY <1>1, <1>2, <2>1, PostTyped DEF LocalInput
  <2>3. contested' \in BOOLEAN /\ winner' \in Screen /\ spent' \in Spent
    BY <1>1, <1>2, ClaimsTyped DEF LocalInput
  <2>4. TypeOK' /\ UNCHANGED Profiles
    BY <1>1, <1>2, <2>2, <2>3 DEF LocalInput, TypeOK, Profiles
  <2>5. QED
    BY <2>4, ProfilesStay
<1>3. CASE RunInput(s)
  <2>1. /\ core' \in [Screen -> Screen] /\ starting' \subseteq Screen
        /\ \A t \in starting' : core'[t] = t
    BY <1>1, <1>3, SwitchTyped DEF RunInput
  <2>2. net' \in [Screen -> [Screen -> Seq(Screen)]]
    BY <1>1, <1>3, NotifiedTyped DEF RunInput, TypeOK
  <2>3. posted' \in [Screen -> Seq(Handler)]
    BY <1>1, <1>3 DEF RunInput, TypeOK
  <2>4. TypeOK' /\ UNCHANGED Profiles
    BY <1>1, <1>3, <2>1, <2>2, <2>3 DEF RunInput, TypeOK, Profiles
  <2>5. QED
    BY <2>4, ProfilesStay
<1>4. QED
  BY <1>2, <1>3

\* A claim by the configuration UI, and the claim of another service.
LEMMA ClaimKeeps ==
  ASSUME IInv, NEW s \in Screen, NEW t \in Screen,
         ClaimByUI(s, t) \/ ReceiveClaim(s, t)
  PROVE  IInv'
<1>1. TypeOK
  BY DEF IInv
<1>2. CASE ClaimByUI(s, t)
  <2>1. /\ core' \in [Screen -> Screen] /\ starting' \subseteq Screen
        /\ \A u \in starting' : core'[u] = u
    BY <1>1, <1>2, SwitchTyped DEF ClaimByUI
  <2>2. net' \in [Screen -> [Screen -> Seq(Screen)]]
    BY <1>1, <1>2, NotifiedTyped DEF ClaimByUI, TypeOK
  <2>3. contested' \in BOOLEAN /\ winner' \in Screen /\ spent' \in Spent
    BY <1>1, <1>2, ClaimsTyped DEF ClaimByUI
  <2>4. TypeOK' /\ UNCHANGED Profiles
    BY <1>1, <1>2, <2>1, <2>2, <2>3 DEF ClaimByUI, TypeOK, Profiles
  <2>5. QED
    BY <2>4, ProfilesStay
<1>3. CASE ReceiveClaim(s, t)
  <2>1. net \in [Screen -> [Screen -> Seq(Screen)]] /\ net[s][t] # <<>>
    BY <1>1, <1>3 DEF ReceiveClaim, TypeOK
  <2>2. Head(net[s][t]) \in Screen /\ Tail(net[s][t]) \in Seq(Screen)
    BY <2>1
  <2>3. /\ core' \in [Screen -> Screen] /\ starting' \subseteq Screen
        /\ \A u \in starting' : core'[u] = u
    BY <1>1, <1>3, <2>2, SwitchTyped DEF ReceiveClaim
  <2>4. net' \in [Screen -> [Screen -> Seq(Screen)]]
    BY <1>3, <2>1, <2>2 DEF ReceiveClaim
  <2>5. TypeOK' /\ UNCHANGED Profiles
    BY <1>1, <1>3, <2>3, <2>4 DEF ReceiveClaim, TypeOK, Profiles
  <2>6. QED
    BY <2>5, ProfilesStay
<1>4. QED
  BY <1>2, <1>3

\* The other handlers that slots post.
LEMMA PostedKeeps ==
  ASSUME IInv, NEW s \in Screen, RunSwitch(s) \/ RunLayout(s)
  PROVE  IInv'
<1>1. TypeOK /\ posted[s] \in Seq(Handler)
  BY DEF IInv, TypeOK
<1>2. CASE RunSwitch(s)
  <2>1. Head(posted[s]) \in Handler /\ Head(posted[s]).do = "switch"
    BY <1>1, <1>2 DEF RunSwitch
  <2>2. Head(posted[s]).server \in Screen
    BY <2>1 DEF Handler
  <2>3. /\ core' \in [Screen -> Screen] /\ starting' \subseteq Screen
        /\ \A t \in starting' : core'[t] = t
    BY <1>1, <1>2, <2>2, SwitchTyped DEF RunSwitch
  <2>4. posted' \in [Screen -> Seq(Handler)]
    BY <1>1, <1>2 DEF RunSwitch, TypeOK
  <2>5. TypeOK' /\ UNCHANGED Profiles
    BY <1>1, <1>2, <2>3, <2>4 DEF RunSwitch, TypeOK, Profiles
  <2>6. QED
    BY <2>5, ProfilesStay
<1>3. CASE RunLayout(s)
  <2>1. net' \in [Screen -> [Screen -> Seq(Screen)]]
    <3>1. net \in [Screen -> [Screen -> Seq(Screen)]]
      BY <1>1 DEF TypeOK
    <3>2. Notified(net, s, s) \in [Screen -> [Screen -> Seq(Screen)]]
      BY <3>1, NotifiedTyped
    <3>3. net' = Notified(net, s, s) \/ net' = net
      BY <1>3 DEF RunLayout
    <3>4. QED
      BY <3>1, <3>2, <3>3
  <2>2. starting' \subseteq Screen /\ \A t \in starting' : core'[t] = t
    <3>1. /\ starting \subseteq Screen /\ \A t \in starting : core[t] = t
          /\ core' = core
      BY <1>1, <1>3 DEF RunLayout, TypeOK
    <3>2. \/ starting' = starting
          \/ core[s] = s /\ starting' = starting \union {s}
      BY <1>3 DEF RunLayout
    <3>3. QED
      BY <3>1, <3>2
  <2>3. posted' \in [Screen -> Seq(Handler)]
    BY <1>1, <1>3 DEF RunLayout, TypeOK
  <2>4. TypeOK' /\ UNCHANGED Profiles
    BY <1>1, <1>3, <2>1, <2>2, <2>3 DEF RunLayout, TypeOK, Profiles
  <2>5. QED
    BY <2>4, ProfilesStay
<1>4. QED
  BY <1>2, <1>3
-----------------------------------------------------------------------------
(* The steps that change a profile *)

\* serverReady: the local profile gets the claim, and a job unless it lags.
LEMMA ReadyKeeps ==
  ASSUME IInv, NEW s \in Screen, Ready(s)
  PROVE  IInv'
<1> DEFINE mine == [local[s] EXCEPT !.server = s]
<1>1. TypeOK /\ LocalFollows /\ local[s] \in Profile /\ remote[s] \in Profile
  BY DEF IInv, TypeOK
<1>2. /\ local' = [local EXCEPT ![s] = mine]
      /\ jobs' = IF mine.version >= remote[s].version /\ remote[s].server # s
                 THEN [jobs EXCEPT ![s] = Append(@, s)] ELSE jobs
      /\ UNCHANGED <<core, remote, posted, net, cloud, push, contested, winner>>
      /\ starting' = starting \ {s}
      /\ spent' = [spent EXCEPT !.readies = @ + 1]
  BY DEF Ready
<1>3. /\ mine \in Profile /\ mine.server = s
      /\ mine.version = local[s].version /\ mine.layout = local[s].layout
  BY <1>1 DEF Profile
<1>4. TypeOK'
  <2>1. spent \in Spent /\ spent.readies + 1 \in Nat
    BY <1>1 DEF TypeOK, Spent
  <2>2. spent' \in Spent
    BY <1>2, <2>1 DEF Spent
  <2>3. jobs' \in [Screen -> Seq(Screen)]
    BY <1>1, <1>2 DEF TypeOK
  <2>4. local' \in [Screen -> Profile]
    BY <1>1, <1>2, <1>3 DEF TypeOK
  <2>5. QED
    BY <1>1, <1>2, <2>2, <2>3, <2>4 DEF TypeOK
<1>5. InOrder' /\ UpToDate'
  BY <1>2 DEF IInv, InOrder, UpToDate
<1>6. ASSUME NEW t \in Screen
      PROVE  local'[t] = IF t = s THEN mine ELSE local[t]
  BY <1>1, <1>2 DEF TypeOK
<1>7. LocalFollows'
  BY <1>1, <1>2, <1>3, <1>6 DEF LocalFollows
<1>8. Accounted'
  <2>1. SUFFICES ASSUME NEW t \in Screen, local'[t].server # remote[t].server
                 PROVE  \/ jobs'[t] # <<>> \/ push[t] # <<>>
                        \/ local'[t].version < remote[t].version
    BY <1>2 DEF Accounted
  <2>2. jobs \in [Screen -> Seq(Screen)]
    BY <1>1 DEF TypeOK
  <2>3. CASE t = s
    <3>1. remote[s].server # s
      BY <2>1, <2>3, <1>6, <1>3
    <3>2. CASE mine.version >= remote[s].version
      <4>1. jobs'[t] = Append(jobs[s], s)
        BY <1>2, <2>2, <2>3, <3>1, <3>2
      <4>2. jobs[s] \in Seq(Screen)
        BY <2>2
      <4>3. Append(jobs[s], s) # <<>>
        BY <4>2
      <4>4. QED
        BY <4>1, <4>3
    <3>3. CASE ~(mine.version >= remote[s].version)
      <4>1. mine.version \in Nat /\ remote[s].version \in Nat
        BY <1>1, <1>3 DEF Profile
      <4>2. mine.version < remote[s].version
        BY <4>1, <3>3
      <4>3. local'[t] = mine
        BY <2>3, <1>6
      <4>4. QED
        BY <4>2, <4>3, <2>3
    <3>4. QED
      BY <3>2, <3>3
  <2>4. CASE t # s
    <3>1. local'[t] = local[t] /\ jobs'[t] = jobs[t]
      BY <2>4, <2>2, <1>2, <1>6
    <3>2. QED
      BY <3>1, <2>1 DEF IInv, Accounted
  <2>5. QED
    BY <2>3, <2>4
<1>9. QED
  BY <1>4, <1>5, <1>7, <1>8 DEF IInv

\* A snapshot arrives: it is the next of the growing versions, and afterwards the
\* local profile differs from it in its version only.
LEMMA SnapshotKeeps ==
  ASSUME IInv, NEW s \in Screen, ReceiveSnapshot(s)
  PROVE  IInv'
<1> DEFINE snapshot == Head(push[s])
           rest     == Tail(push[s])
           changes  == IF snapshot.version < local[s].version THEN <<>>
                       ELSE Changes(local[s], snapshot)
           kept     == IF changes # <<>> THEN snapshot ELSE local[s]
<1>1. /\ TypeOK /\ InOrder /\ UpToDate /\ LocalFollows /\ Accounted
      /\ push[s] \in Seq(Profile) /\ push[s] # <<>>
      /\ local[s] \in Profile /\ remote[s] \in Profile
  BY DEF IInv, TypeOK, ReceiveSnapshot
<1>2. /\ push' = [push EXCEPT ![s] = rest]
      /\ remote' = [remote EXCEPT ![s] = snapshot]
      /\ local' = [local EXCEPT ![s] = kept]
      /\ Post(s, changes)
      /\ UNCHANGED <<core, starting, net, jobs, cloud, contested, winner, spent>>
  BY DEF ReceiveSnapshot
<1>3. /\ snapshot = push[s][1] /\ snapshot \in Profile
      /\ rest \in Seq(Profile) /\ Len(rest) = Len(push[s]) - 1
      /\ Len(push[s]) \in Nat \ {0}
      /\ \A i \in 1 .. Len(rest) : rest[i] = push[s][i + 1]
  BY <1>1
<1>4. local[s].version <= snapshot.version
  <2>1. remote[s].version < snapshot.version
    BY <1>1, <1>3 DEF InOrder
  <2>2. QED
    BY <1>1, <1>3, <2>1 DEF LocalFollows, Profile
<1>5. changes = Changes(local[s], snapshot)
  BY <1>1, <1>3, <1>4 DEF Profile
<1>6. /\ changes \in Seq(Handler)
      /\ kept \in Profile /\ kept.version <= snapshot.version
      /\ kept.server = snapshot.server /\ kept.layout = snapshot.layout
  <2>1. /\ changes \in Seq(Handler)
        /\ changes = <<>> <=> /\ local[s].server = snapshot.server
                              /\ local[s].layout = snapshot.layout
    BY <1>1, <1>3, <1>5, ChangesTyped
  <2>2. snapshot.version \in Nat
    BY <1>3 DEF Profile
  <2>3. QED
    BY <1>1, <1>3, <1>4, <2>1, <2>2
<1> HIDE DEF snapshot, rest, changes, kept
<1>7. TypeOK'
  <2>1. posted' \in [Screen -> Seq(Handler)]
    BY <1>1, <1>2, <1>6, PostTyped
  <2>2. /\ push' \in [Screen -> Seq(Profile)]
        /\ remote' \in [Screen -> Profile] /\ local' \in [Screen -> Profile]
    BY <1>1, <1>2, <1>3, <1>6 DEF TypeOK
  <2>3. QED
    BY <1>1, <1>2, <2>1, <2>2 DEF TypeOK
<1>8. ASSUME NEW t \in Screen
      PROVE  /\ push'[t] = IF t = s THEN rest ELSE push[t]
             /\ remote'[t] = IF t = s THEN snapshot ELSE remote[t]
             /\ local'[t] = IF t = s THEN kept ELSE local[t]
  BY <1>1, <1>2 DEF TypeOK
<1>9. InOrder'
  <2>1. ASSUME NEW i \in 1 .. Len(rest)
        PROVE  /\ snapshot.version < rest[i].version
               /\ rest[i].version <= cloud.version
               /\ \A j \in 1 .. Len(rest) :
                    i < j => rest[i].version < rest[j].version
    <3>1. /\ 1 \in 1 .. Len(push[s]) /\ i + 1 \in 1 .. Len(push[s]) /\ 1 < i + 1
          /\ rest[i] = push[s][i + 1]
      BY <1>3
    <3>2. rest[i].version <= cloud.version
      BY <1>1, <3>1 DEF InOrder
    <3>3. snapshot.version < rest[i].version
      BY <1>1, <1>3, <3>1 DEF InOrder
    <3>4. ASSUME NEW j \in 1 .. Len(rest), i < j
          PROVE  rest[i].version < rest[j].version
      <4>1. /\ j + 1 \in 1 .. Len(push[s]) /\ i + 1 < j + 1
            /\ rest[j] = push[s][j + 1]
        <5>1. rest[j] = push[s][j + 1]
          BY <1>3
        <5>2. /\ Len(push[s]) \in Nat /\ Len(rest) = Len(push[s]) - 1
              /\ i \in Int /\ j \in 1 .. Len(rest) /\ i < j
          BY <1>3, <3>4
        <5>3. j + 1 \in 1 .. Len(push[s]) /\ i + 1 < j + 1
          BY <5>2
        <5>4. QED
          BY <5>1, <5>3
      <4>2. QED
        BY <1>1, <3>1, <4>1 DEF InOrder
    <3>5. QED
      BY <3>2, <3>3, <3>4
  <2>2. QED
    BY <1>1, <1>2, <1>8, <2>1 DEF InOrder
<1>10. UpToDate'
  <2>1. snapshot.version <= cloud.version
    BY <1>1, <1>3 DEF InOrder
  <2>2. rest = <<>> => snapshot = cloud
    BY <1>1, <1>3 DEF UpToDate
  <2>3. rest # <<>> => rest[Len(rest)] = cloud
    <3>1. rest # <<>> => Len(rest) \in 1 .. Len(rest)
      BY <1>3
    <3>2. QED
      BY <1>1, <1>3, <3>1 DEF UpToDate
  <2>4. QED
    BY <1>1, <1>2, <1>8, <2>1, <2>2, <2>3 DEF UpToDate
<1>11. LocalFollows'
  BY <1>1, <1>6, <1>8 DEF LocalFollows
<1>12. Accounted'
  BY <1>1, <1>2, <1>6, <1>8 DEF Accounted
<1>13. QED
  BY <1>7, <1>9, <1>10, <1>11, <1>12 DEF IInv

\* The cloud publishes a newer profile.
LEMMA PublishKeeps ==
  ASSUME IInv, NEW profile \in Profile, profile.version = cloud.version + 1,
         Publish(profile)
  PROVE  InOrder' /\ UpToDate' /\ LocalFollows' /\ Accounted'
         /\ cloud' \in Profile /\ push' \in [Screen -> Seq(Profile)]
<1>1. /\ TypeOK /\ InOrder /\ UpToDate /\ LocalFollows
      /\ cloud.version \in Nat
      /\ \A s \in Screen : remote[s].version \in Nat
  BY DEF IInv, TypeOK, Profile
<1>2. /\ cloud' = profile
      /\ push' = [s \in Screen |-> Append(push[s], profile)]
      /\ local' = local /\ remote' = remote
  BY DEF Publish
<1>3. ASSUME NEW s \in Screen
      PROVE  /\ push[s] \in Seq(Profile) /\ push'[s] \in Seq(Profile)
             /\ push'[s] # <<>> /\ Len(push'[s]) = Len(push[s]) + 1
             /\ push'[s][Len(push'[s])] = profile
             /\ \A i \in 1 .. Len(push[s]) : /\ push'[s][i] = push[s][i]
                                             /\ push[s][i].version \in Nat
             /\ Len(push[s]) \in Nat
  <2>1. push[s] \in Seq(Profile) /\ push'[s] = Append(push[s], profile)
    BY <1>1, <1>2 DEF TypeOK
  <2>2. \A i \in 1 .. Len(push[s]) : push[s][i].version \in Nat
    <3>1. \A i \in 1 .. Len(push[s]) : push[s][i] \in Profile
      BY <2>1
    <3>2. QED
      BY <3>1 DEF Profile
  <2>3. /\ push'[s] \in Seq(Profile) /\ Len(push'[s]) = Len(push[s]) + 1
        /\ push'[s][Len(push[s]) + 1] = profile
        /\ \A i \in 1 .. Len(push[s]) : push'[s][i] = push[s][i]
        /\ push'[s] # <<>> /\ Len(push[s]) \in Nat
    BY <2>1
  <2>4. QED
    BY <2>1, <2>2, <2>3
<1>4. InOrder'
  <2>1. ASSUME NEW s \in Screen, NEW i \in 1 .. Len(push'[s])
        PROVE  /\ remote[s].version < push'[s][i].version
               /\ push'[s][i].version <= profile.version
               /\ \A j \in 1 .. Len(push'[s]) :
                    i < j => push'[s][i].version < push'[s][j].version
    <3>1. CASE i \in 1 .. Len(push[s])
      <4>1. /\ remote[s].version < push'[s][i].version
            /\ push'[s][i].version < profile.version
        <5>1. /\ remote[s].version < push[s][i].version
              /\ push[s][i].version <= cloud.version
          BY <1>1, <3>1 DEF InOrder
        <5>2. push'[s][i] = push[s][i] /\ push[s][i].version \in Nat
          BY <1>3, <3>1
        <5>3. push[s][i].version < profile.version
          BY <1>1, <5>1, <5>2
        <5>4. QED
          BY <5>1, <5>2, <5>3
      <4>2. ASSUME NEW j \in 1 .. Len(push'[s]), i < j
            PROVE  push'[s][i].version < push'[s][j].version
        <5>1. CASE j \in 1 .. Len(push[s])
          <6>1. push[s][i].version < push[s][j].version
            BY <1>1, <3>1, <4>2, <5>1 DEF InOrder
          <6>2. push'[s][i] = push[s][i] /\ push'[s][j] = push[s][j]
            BY <1>3, <3>1, <5>1
          <6>3. QED
            BY <6>1, <6>2
        <5>2. CASE j = Len(push'[s])
          BY <1>3, <4>1, <5>2
        <5>3. QED
          BY <1>3, <5>1, <5>2
      <4>3. push'[s][i].version <= profile.version
        <5>1. push'[s][i].version \in Nat /\ profile.version \in Nat
          BY <1>1, <1>3, <3>1
        <5>2. QED
          BY <4>1, <5>1
      <4>4. QED
        BY <4>1, <4>2, <4>3
    <3>2. CASE i = Len(push'[s])
      <4>1. remote[s].version <= cloud.version
        BY <1>1 DEF UpToDate
      <4>2. push'[s][i] = profile /\ remote[s].version < profile.version
        BY <1>1, <1>3, <3>2, <4>1
      <4>3. \A j \in 1 .. Len(push'[s]) : ~(i < j)
        BY <1>3, <3>2
      <4>4. profile.version <= profile.version
        BY <1>1
      <4>5. QED
        BY <4>2, <4>3, <4>4
    <3>3. QED
      BY <1>3, <3>1, <3>2
  <2>2. QED
    BY <1>2, <2>1 DEF InOrder
<1>5. UpToDate'
  <2>1. ASSUME NEW s \in Screen PROVE remote[s].version <= profile.version
    <3>1. remote[s].version <= cloud.version /\ remote[s].version \in Nat
      BY <1>1 DEF UpToDate
    <3>2. QED
      BY <1>1, <3>1
  <2>2. QED
    BY <1>2, <1>3, <2>1 DEF UpToDate
<1>6. LocalFollows' /\ Accounted'
  BY <1>1, <1>2, <1>3 DEF LocalFollows, Accounted
<1>7. QED
  BY <1>2, <1>3, <1>4, <1>5, <1>6

\* The cloud takes a claim, or the screens are moved.
LEMMA CloudKeeps ==
  ASSUME IInv, (\E s \in Screen : TakeClaim(s)) \/ MoveScreens
  PROVE  IInv'
<1>1. TypeOK /\ cloud \in Profile
  BY DEF IInv, TypeOK
<1>2. ASSUME NEW s \in Screen, TakeClaim(s) PROVE IInv'
  <2> DEFINE profile == [cloud EXCEPT !.version = @ + 1, !.server = Head(jobs[s])]
  <2>1. jobs[s] \in Seq(Screen) /\ jobs[s] # <<>>
    BY <1>1, <1>2 DEF TakeClaim, TypeOK
  <2>2. profile \in Profile /\ profile.version = cloud.version + 1
    <3>1. /\ Head(jobs[s]) \in Screen /\ cloud.version + 1 \in Nat
          /\ cloud \in [version : Nat, server : Screen, layout : BOOLEAN]
      BY <1>1, <2>1 DEF Profile
    <3>2. QED
      BY <3>1 DEF Profile
  <2>3. Publish(profile)
    BY <1>2 DEF TakeClaim
  <2>4. /\ InOrder' /\ UpToDate' /\ LocalFollows' /\ Accounted'
        /\ cloud' \in Profile /\ push' \in [Screen -> Seq(Profile)]
    <3> HIDE DEF profile
    <3>1. QED
      BY <2>2, <2>3, PublishKeeps
  <2>5. jobs' \in [Screen -> Seq(Screen)]
    <3>1. Tail(jobs[s]) \in Seq(Screen)
      BY <2>1
    <3>2. QED
      BY <1>1, <1>2, <3>1 DEF TakeClaim, TypeOK
  <2>6. TypeOK'
    BY <1>1, <1>2, <2>4, <2>5 DEF TakeClaim, Publish, TypeOK
  <2>7. QED
    BY <2>4, <2>6 DEF IInv
<1>3. CASE MoveScreens
  <2> DEFINE profile == [cloud EXCEPT !.version = @ + 1, !.layout = ~@]
  <2>1. profile \in Profile /\ profile.version = cloud.version + 1
    <3>1. cloud \in [version : Nat, server : Screen, layout : BOOLEAN]
      BY <1>1 DEF Profile
    <3>2. cloud.version + 1 \in Nat
      BY <3>1
    <3>3. (~cloud.layout) \in BOOLEAN
      OBVIOUS
    <3>4. QED
      BY <3>1, <3>2, <3>3 DEF Profile
  <2>2. Publish(profile)
    BY <1>3 DEF MoveScreens
  <2>3. /\ InOrder' /\ UpToDate' /\ LocalFollows' /\ Accounted'
        /\ cloud' \in Profile /\ push' \in [Screen -> Seq(Profile)]
    <3> HIDE DEF profile
    <3>1. QED
      BY <2>1, <2>2, PublishKeeps
  <2>4. spent \in Spent /\ spent.moves + 1 \in Nat
    BY <1>1 DEF TypeOK, Spent
  <2>5. spent' \in Spent
    BY <1>3, <2>4 DEF MoveScreens, Spent
  <2>6. contested' \in BOOLEAN
    BY <1>1, <1>3 DEF MoveScreens, TypeOK
  <2>7. TypeOK'
    BY <1>1, <1>3, <2>3, <2>5, <2>6 DEF MoveScreens, Publish, TypeOK
  <2>8. QED
    BY <2>3, <2>7 DEF IInv
<1>4. QED
  BY <1>2, <1>3
-----------------------------------------------------------------------------
(* The theorems *)

\* Everybody starts with the same profile.
LEMMA InitInvariant == Init => IInv
<1> SUFFICES ASSUME Init PROVE IInv
  OBVIOUS
<1> DEFINE p == [version |-> 0, server |-> First, layout |-> FALSE]
<1>1. p \in Profile
  BY FirstAssumption DEF Profile
<1>2. /\ local = [s \in Screen |-> p] /\ remote = [s \in Screen |-> p]
      /\ cloud = p /\ push = [s \in Screen |-> <<>>]
  BY DEF Init
<1>3. TypeOK
  <2>1. /\ core \in [Screen -> Screen] /\ starting = {}
        /\ winner \in Screen /\ contested = FALSE
    BY FirstAssumption DEF Init
  <2>2. /\ net \in [Screen -> [Screen -> Seq(Screen)]]
        /\ jobs \in [Screen -> Seq(Screen)]
        /\ posted \in [Screen -> Seq(Handler)]
        /\ push \in [Screen -> Seq(Profile)]
    BY DEF Init
  <2>3. spent \in Spent
    BY DEF Init, Spent
  <2>4. QED
    BY <1>1, <1>2, <2>1, <2>2, <2>3 DEF TypeOK
<1>4. InOrder /\ UpToDate /\ LocalFollows /\ Accounted
  BY <1>2 DEF InOrder, UpToDate, LocalFollows, Accounted
<1>5. QED
  BY <1>3, <1>4 DEF IInv

\* Every step keeps the invariant.
LEMMA StepInvariant == IInv /\ [Next]_vars => IInv'
<1> SUFFICES ASSUME IInv, [Next]_vars PROVE IInv'
  OBVIOUS
<1>1. CASE UNCHANGED vars
  <2>1. TypeOK' /\ UNCHANGED Profiles
    BY <1>1 DEF IInv, vars, TypeOK, Profiles
  <2>2. QED
    BY <2>1, ProfilesStay
<1>2. ASSUME NEW s \in Screen, LocalInput(s) \/ RunInput(s) PROVE IInv'
  BY <1>2, InputKeeps
<1>3. ASSUME NEW s \in Screen, RunSwitch(s) \/ RunLayout(s) PROVE IInv'
  BY <1>3, PostedKeeps
<1>4. ASSUME NEW s \in Screen, Ready(s) PROVE IInv'
  BY <1>4, ReadyKeeps
<1>5. ASSUME NEW s \in Screen, ReceiveSnapshot(s) PROVE IInv'
  BY <1>5, SnapshotKeeps
<1>6. ASSUME NEW s \in Screen, NEW t \in Screen,
             ClaimByUI(s, t) \/ ReceiveClaim(s, t)
      PROVE  IInv'
  BY <1>6, ClaimKeeps
<1>7. CASE (\E s \in Screen : TakeClaim(s)) \/ MoveScreens
  BY <1>7, CloudKeeps
<1>8. QED
  BY <1>1, <1>2, <1>3, <1>4, <1>5, <1>6, <1>7 DEF Next

\* The invariant of the claim protocol, for any number of screens and any bounds.
THEOREM ClaimInvariant == Spec => []IInv
  BY InitInvariant, StepInvariant, PTL DEF Spec

\* Roles, profiles, claims and snapshots keep their types, and only a server's core
\* is starting to serve.
THEOREM ClaimTypeCorrect == Spec => []TypeOK
<1>1. IInv => TypeOK
  BY DEF IInv
<1>2. QED
  BY <1>1, ClaimInvariant, PTL

\* The local profile differs from the last snapshot in an own claim only, and its
\* version never runs ahead (ProfileConfig::apply, claimServer).
THEOREM ClaimLocalFollows == Spec => []LocalFollows
<1>1. IInv => LocalFollows
  BY DEF IInv
<1>2. QED
  BY <1>1, ClaimInvariant, PTL

\* A claim is lost only by a service whose local version lags behind.
THEOREM ClaimLostOnlyByLag == Spec => []LostOnlyByLag
<1>1. IInv => LostOnlyByLag
  <2>1. SUFFICES ASSUME IInv, Quiet, NEW s \in Screen
                 PROVE  \/ local[s].server = cloud.server
                        \/ local[s].server = s /\ local[s].version < cloud.version
    BY DEF LostOnlyByLag
  <2>2. push[s] = <<>> /\ jobs[s] = <<>> /\ remote[s] = cloud
    BY <2>1 DEF Quiet, IInv, UpToDate
  <2>3. QED
    BY <2>1, <2>2 DEF IInv, LocalFollows, Accounted
<1>2. QED
  BY <1>1, ClaimInvariant, PTL
-----------------------------------------------------------------------------
(* Sequences, element by element. *)

LEMMA TailElements ==
  ASSUME NEW S, NEW q \in Seq(S), q # <<>>
  PROVE  /\ Len(q) \in Nat /\ 1 \in 1 .. Len(q) /\ Head(q) = q[1]
         /\ Tail(q) \in Seq(S) /\ Len(Tail(q)) = Len(q) - 1
         /\ \A i \in 1 .. Len(Tail(q)) : i + 1 \in 1 .. Len(q) /\ Tail(q)[i] = q[i + 1]
OBVIOUS

LEMMA OnlyElement ==
  ASSUME NEW S, NEW q \in Seq(S), Len(q) = 1
  PROVE  Head(q) = q[1] /\ Tail(q) = <<>>
<1>1. q # <<>>
  OBVIOUS
<1>2. Tail(q) \in Seq(S) /\ Len(Tail(q)) = 0 /\ Head(q) = q[1]
  BY <1>1, TailElements
<1>3. \A r \in Seq(S) : Len(r) = 0 => r = <<>>
  OBVIOUS
<1>4. QED
  BY <1>2, <1>3

LEMMA AppendElements ==
  ASSUME NEW S, NEW q \in Seq(S), NEW w \in S, \A i \in 1 .. Len(q) : q[i] = w
  PROVE  /\ Append(q, w) # <<>>
         /\ \A i \in 1 .. Len(Append(q, w)) : Append(q, w)[i] = w
OBVIOUS

LEMMA ConcatElements ==
  ASSUME NEW S, NEW q \in Seq(S), NEW h \in Seq(S)
  PROVE  /\ Len(q) \in Nat /\ Len(h) \in Nat /\ Len(q \o h) = Len(q) + Len(h)
         /\ \A i \in 1 .. Len(q \o h) :
              (q \o h)[i] = IF i <= Len(q) THEN q[i] ELSE h[i - Len(q)]
OBVIOUS

-----------------------------------------------------------------------------
(* Claims that do not cross.  All that is under way says the same server   *)
(* (OneVoice), only the server's own version may lag behind, and what is   *)
(* under way is one claim, before the cloud took it or after, or one       *)
(* change of the layout (Episode).                                         *)

NetSays(n, w) == \A s, t \in Screen : \A i \in 1 .. Len(n[s][t]) : n[s][t][i] = w

PostedSays(p, w) ==
  \A s \in Screen : \A i \in 1 .. Len(p[s]) :
    /\ p[s][i].do = "input" => s = w
    /\ p[s][i].do = "switch" => p[s][i].server = w

NoLayout(p) == \A s \in Screen : \A i \in 1 .. Len(p[s]) : p[s][i].do # "layout"

\* Input at w has its handler to come; a claim is on its way to s.
InputDue(p, w) == \E i \in 1 .. Len(p[w]) : p[w][i].do = "input"
ClaimComes(n, s) == \E x \in Screen : n[x][s] # <<>>

OneVoice ==
  /\ starting \subseteq {winner} /\ NetSays(net, winner) /\ PostedSays(posted, winner)
  /\ \A s \in Screen :
       /\ jobs[s] # <<>> => s = winner
       /\ \A i \in 1 .. Len(jobs[s]) : jobs[s][i] = winner
       /\ push[s] # <<>> => Len(push[s]) = 1 /\ cloud.server = winner
       /\ core[s] # winner => ClaimComes(net, s) \/ InputDue(posted, winner)

OnlyServerLags ==
  \A s \in Screen :
    push[s] = <<>> /\ local[s].version # remote[s].version => s = cloud.server

LayoutStays ==
  NoLayout(posted) /\ \A s \in Screen : local[s].layout = cloud.layout

\* The claim is on its way to the cloud: to the core, in the core, or as a job.
Pending ==
  /\ cloud.server # winner
  /\ \A s \in Screen : push[s] = <<>> /\ (s # winner => local[s].server # winner)
  /\ local[winner].version = remote[winner].version
  /\ \/ core[winner] # winner /\ starting = {} /\ jobs[winner] = <<>>
     \/ core[winner] = winner /\ starting = {winner} /\ jobs[winner] = <<>>
     \/ core[winner] = winner /\ starting = {} /\ Len(jobs[winner]) = 1

\* The cloud has it, and so has the core.
Settled ==
  /\ cloud.server = winner /\ core[winner] = winner /\ starting = {}
  /\ \A s \in Screen :
       /\ jobs[s] = <<>>
       /\ push[s] # <<>> /\ s # winner => local[s].server # winner

\* Nobody claims; the layout has changed.
Moving ==
  /\ cloud.server = winner
  /\ \A s \in Screen :
       /\ core[s] = winner /\ local[s].server = winner /\ remote[s].server = winner
       /\ jobs[s] = <<>>
       /\ push[s] # <<>> => local[s].layout # cloud.layout

Episode == (LayoutStays /\ (Pending \/ Settled)) \/ Moving

OneByOne == OneVoice /\ OnlyServerLags /\ Episode

SettledInv == IInv /\ (~contested => OneByOne)

\* A claim to all others reaches each of them.
LEMMA NotifiedSays ==
  ASSUME NEW n \in [Screen -> [Screen -> Seq(Screen)]], NEW s \in Screen, NEW w \in Screen,
         NetSays(n, w)
  PROVE  /\ NetSays(Notified(n, s, w), w)
         /\ \A t \in Screen : t # s \/ ClaimComes(n, t) => ClaimComes(Notified(n, s, w), t)
<1> DEFINE m == Notified(n, s, w)
<1>1. ASSUME NEW x \in Screen, NEW t \in Screen
      PROVE  /\ n[x][t] \in Seq(Screen)
             /\ m[x][t] = IF x = s /\ t # s THEN Append(n[x][t], w) ELSE n[x][t]
  BY DEF Notified
<1> HIDE DEF m
<1>2. ASSUME NEW x \in Screen, NEW t \in Screen
      PROVE  /\ \A i \in 1 .. Len(m[x][t]) : m[x][t][i] = w
             /\ n[x][t] # <<>> \/ (x = s /\ t # s) => m[x][t] # <<>>
  <2>1. \A i \in 1 .. Len(n[x][t]) : n[x][t][i] = w
    BY DEF NetSays
  <2>2. CASE x = s /\ t # s
    <3> DEFINE q == n[x][t]
    <3>1. q \in Seq(Screen) /\ m[x][t] = Append(q, w) /\ \A i \in 1 .. Len(q) : q[i] = w
      BY <1>1, <2>1, <2>2
    <3> HIDE DEF q
    <3>2. /\ Append(q, w) # <<>>
          /\ \A i \in 1 .. Len(Append(q, w)) : Append(q, w)[i] = w
      BY <3>1, AppendElements, Zenon
    <3>3. QED
      BY <3>1, <3>2
  <2>3. CASE ~(x = s /\ t # s)
    <3>1. m[x][t] = n[x][t]
      BY <1>1, <2>3
    <3>2. QED
      BY <2>1, <2>3, <3>1
  <2>4. QED
    BY <2>2, <2>3
<1>3. NetSays(m, w)
  BY <1>2 DEF NetSays
<1>4. ASSUME NEW t \in Screen, t # s \/ ClaimComes(n, t)
      PROVE  ClaimComes(m, t)
  BY <1>2, <1>4 DEF ClaimComes
<1>5. QED
  BY <1>3, <1>4 DEF m

\* A claim that is taken says what the others say.
LEMMA ReceivedSays ==
  ASSUME NEW n \in [Screen -> [Screen -> Seq(Screen)]], NEW s \in Screen, NEW t \in Screen,
         NEW w, NetSays(n, w), n[s][t] # <<>>
  PROVE  /\ Head(n[s][t]) = w /\ NetSays([n EXCEPT ![s][t] = Tail(@)], w)
         /\ \A u \in Screen :
              u # t /\ ClaimComes(n, u) => ClaimComes([n EXCEPT ![s][t] = Tail(@)], u)
<1> DEFINE m == [n EXCEPT ![s][t] = Tail(@)]
           q == n[s][t]
<1>1. /\ q \in Seq(Screen) /\ q # <<>> /\ \A i \in 1 .. Len(q) : q[i] = w
      /\ m[s][t] = Tail(q)
  BY DEF NetSays
<1>2. \A x, u \in Screen : x # s \/ u # t => m[x][u] = n[x][u]
  OBVIOUS
<1>3. Head(q) = w /\ \A i \in 1 .. Len(Tail(q)) : Tail(q)[i] = w
  <2> HIDE DEF q, m
  <2>1. QED
    BY <1>1, TailElements
<1> HIDE DEF m, q
<1>4. NetSays(m, w)
  <2>1. ASSUME NEW x \in Screen, NEW u \in Screen
        PROVE  \A i \in 1 .. Len(m[x][u]) : m[x][u][i] = w
    <3>1. CASE x = s /\ u = t
      BY <1>1, <1>3, <3>1
    <3>2. CASE x # s \/ u # t
      <4>1. m[x][u] = n[x][u]
        BY <1>2, <3>2
      <4>2. QED
        BY <4>1 DEF NetSays
    <3>3. QED
      BY <3>1, <3>2
  <2>2. QED
    BY <2>1 DEF NetSays
<1>5. ASSUME NEW u \in Screen, u # t, ClaimComes(n, u)
      PROVE  ClaimComes(m, u)
  BY <1>2, <1>5 DEF ClaimComes
<1>6. QED
  BY <1>3, <1>4, <1>5 DEF m, q

\* The first handler is taken from the io_service.
LEMMA PoppedSays ==
  ASSUME NEW p \in [Screen -> Seq(Handler)], NEW s \in Screen, NEW w \in Screen,
         PostedSays(p, w), p[s] # <<>>
  PROVE  LET q == [p EXCEPT ![s] = Tail(@)] h == Head(p[s]) IN
         /\ PostedSays(q, w) /\ (NoLayout(p) => NoLayout(q) /\ h.do # "layout")
         /\ h.do = "input" => s = w
         /\ h.do = "switch" => h.server = w
         /\ h.do # "input" /\ InputDue(p, w) => InputDue(q, w)
<1> DEFINE q == [p EXCEPT ![s] = Tail(@)]
           r == p[s]
<1>1. \A x \in Screen : q[x] = IF x = s THEN Tail(r) ELSE p[x]
  OBVIOUS
<1>2. r \in Seq(Handler) /\ r # <<>>
  OBVIOUS
<1>3. /\ Head(r) = r[1] /\ 1 \in 1 .. Len(r) /\ Len(r) \in Nat
      /\ Len(Tail(r)) = Len(r) - 1
      /\ \A i \in 1 .. Len(Tail(r)) : i + 1 \in 1 .. Len(r) /\ Tail(r)[i] = r[i + 1]
  <2> HIDE DEF r
  <2>1. QED
    BY <1>2, TailElements
<1>4. \A i \in 1 .. Len(r) : /\ r[i].do = "input" => s = w
                             /\ r[i].do = "switch" => r[i].server = w
  BY DEF PostedSays
<1>5. PostedSays(q, w)
  <2> HIDE DEF q, r
  <2>1. ASSUME NEW x \in Screen, NEW i \in 1 .. Len(q[x])
        PROVE  /\ q[x][i].do = "input" => x = w
               /\ q[x][i].do = "switch" => q[x][i].server = w
    <3>1. CASE x = s
      <4>1. q[x] = Tail(r)
        BY <1>1, <3>1
      <4>2. i \in 1 .. Len(Tail(r))
        BY <2>1, <4>1
      <4>3. i + 1 \in 1 .. Len(r) /\ q[x][i] = r[i + 1]
        BY <1>3, <4>1, <4>2
      <4>4. QED
        BY <1>4, <3>1, <4>3
    <3>2. CASE x # s
      BY <1>1, <2>1, <3>2 DEF PostedSays
    <3>3. QED
      BY <3>1, <3>2
  <2>2. QED
    BY <2>1 DEF PostedSays
<1>6. ASSUME NoLayout(p)
      PROVE  NoLayout(q) /\ Head(r).do # "layout"
  <2>1. \A i \in 1 .. Len(r) : r[i].do # "layout"
    BY <1>6 DEF NoLayout
  <2> HIDE DEF q, r
  <2>2. Head(r).do # "layout"
    BY <1>3, <2>1
  <2>3. ASSUME NEW x \in Screen, NEW i \in 1 .. Len(q[x])
        PROVE  q[x][i].do # "layout"
    <3>1. CASE x = s
      <4>1. q[x] = Tail(r)
        BY <1>1, <3>1
      <4>2. i \in 1 .. Len(Tail(r))
        BY <2>3, <4>1
      <4>3. i + 1 \in 1 .. Len(r) /\ q[x][i] = r[i + 1]
        BY <1>3, <4>1, <4>2
      <4>4. QED
        BY <2>1, <4>3
    <3>2. CASE x # s
      BY <1>1, <1>6, <2>3, <3>2 DEF NoLayout
    <3>3. QED
      BY <3>1, <3>2
  <2>4. QED
    BY <2>2, <2>3 DEF NoLayout
<1>7. ASSUME Head(r).do # "input", InputDue(p, w)
      PROVE  InputDue(q, w)
  <2>1. CASE w = s
    <3>1. PICK i \in 1 .. Len(r) : r[i].do = "input"
      BY <1>7, <2>1 DEF InputDue
    <3> HIDE DEF q, r
    <3>2. i # 1
      BY <1>3, <1>7, <3>1
    <3>3. i - 1 \in 1 .. Len(Tail(r)) /\ (i - 1) + 1 = i
      BY <1>3, <3>2
    <3>4. Tail(r)[i - 1].do = "input"
      BY <1>3, <3>1, <3>3
    <3>5. QED
      BY <1>1, <2>1, <3>3, <3>4 DEF InputDue
  <2>2. CASE w # s
    <3> HIDE DEF q, r
    <3>1. QED
      BY <1>1, <1>7, <2>2 DEF InputDue
  <2>3. QED
    BY <2>1, <2>2
<1>8. QED
  BY <1>3, <1>4, <1>5, <1>6, <1>7

\* Handlers are posted that say the same.
LEMMA PostSays ==
  ASSUME NEW p \in [Screen -> Seq(Handler)], NEW s \in Screen, NEW w \in Screen,
         NEW h \in Seq(Handler), PostedSays(p, w),
         \A i \in 1 .. Len(h) : /\ h[i].do = "input" => s = w
                                /\ h[i].do = "switch" => h[i].server = w
  PROVE  LET q == [p EXCEPT ![s] = @ \o h] IN
         /\ PostedSays(q, w)
         /\ NoLayout(p) /\ (\A i \in 1 .. Len(h) : h[i].do # "layout") => NoLayout(q)
         /\ InputDue(p, w) => InputDue(q, w)
<1> DEFINE q == [p EXCEPT ![s] = @ \o h]
           r == p[s]
           m == r \o h
<1>1. \A x \in Screen : q[x] = IF x = s THEN m ELSE p[x]
  OBVIOUS
<1>2. /\ Len(r) \in Nat /\ Len(h) \in Nat /\ Len(m) = Len(r) + Len(h)
      /\ \A i \in 1 .. Len(m) : m[i] = IF i <= Len(r) THEN r[i] ELSE h[i - Len(r)]
  <2>1. r \in Seq(Handler)
    OBVIOUS
  <2> HIDE DEF r
  <2>2. QED
    BY <2>1, ConcatElements
<1> HIDE DEF q, m
<1>3. ASSUME NEW i \in 1 .. Len(m)
      PROVE  \/ i \in 1 .. Len(r) /\ m[i] = r[i]
             \/ \E j \in 1 .. Len(h) : m[i] = h[j]
  <2>1. CASE i <= Len(r)
    BY <1>2, <2>1
  <2>2. CASE ~(i <= Len(r))
    <3>1. i - Len(r) \in 1 .. Len(h)
      BY <1>2, <2>2
    <3>2. QED
      BY <1>2, <2>2, <3>1
  <2>3. QED
    BY <2>1, <2>2
<1>4. PostedSays(q, w)
  <2>1. ASSUME NEW i \in 1 .. Len(m)
        PROVE  /\ m[i].do = "input" => s = w
               /\ m[i].do = "switch" => m[i].server = w
    BY <1>3, <2>1 DEF PostedSays
  <2>2. ASSUME NEW x \in Screen, NEW i \in 1 .. Len(q[x])
        PROVE  /\ q[x][i].do = "input" => x = w
               /\ q[x][i].do = "switch" => q[x][i].server = w
    <3>1. CASE x = s
      <4>1. q[x] = m
        BY <1>1, <3>1
      <4>2. QED
        BY <2>1, <2>2, <3>1, <4>1
    <3>2. CASE x # s
      <4>1. q[x] = p[x]
        BY <1>1, <3>2
      <4>2. QED
        BY <2>2, <4>1 DEF PostedSays
    <3>3. QED
      BY <3>1, <3>2
  <2>3. QED
    BY <2>2 DEF PostedSays
<1>5. ASSUME NoLayout(p), \A i \in 1 .. Len(h) : h[i].do # "layout"
      PROVE  NoLayout(q)
  <2>1. ASSUME NEW i \in 1 .. Len(m)
        PROVE  m[i].do # "layout"
    BY <1>3, <1>5, <2>1 DEF NoLayout
  <2>2. QED
    BY <1>1, <1>5, <2>1 DEF NoLayout
<1>6. ASSUME InputDue(p, w)
      PROVE  InputDue(q, w)
  <2>1. PICK i \in 1 .. Len(p[w]) : p[w][i].do = "input"
    BY <1>6 DEF InputDue
  <2>2. CASE w = s
    <3>1. i \in 1 .. Len(m) /\ m[i] = r[i]
      BY <1>2, <2>1, <2>2
    <3>2. QED
      BY <1>1, <2>1, <2>2, <3>1 DEF InputDue
  <2>3. CASE w # s
    BY <1>1, <2>1, <2>3 DEF InputDue
  <2>4. QED
    BY <2>2, <2>3
<1>7. QED
  BY <1>4, <1>5, <1>6 DEF q
-----------------------------------------------------------------------------
(* The steps of one claim *)

\* When nothing is under way the last claim has settled: the services agree.
LEMMA QuietSettled ==
  ASSUME IInv, OneByOne, Quiet
  PROVE  /\ cloud.server = winner /\ starting = {} /\ NoLayout(posted)
         /\ \A s \in Screen :
              /\ core[s] = winner /\ local[s].server = winner /\ remote[s] = cloud
              /\ local[s].layout = cloud.layout
              /\ jobs[s] = <<>> /\ push[s] = <<>>
              /\ s # winner => local[s].version = remote[s].version
         /\ \A w \in Screen : NetSays(net, w) /\ PostedSays(posted, w)
<1>1. /\ starting = {}
      /\ \A s \in Screen : /\ posted[s] = <<>> /\ jobs[s] = <<>> /\ push[s] = <<>>
                           /\ \A t \in Screen : net[s][t] = <<>>
  BY DEF Quiet
<1>2. Len(<<>>) = 0
  OBVIOUS
<1>3. /\ NoLayout(posted) /\ \A w \in Screen : PostedSays(posted, w)
      /\ \A w \in Screen : ~InputDue(posted, w)
  BY <1>1, <1>2 DEF NoLayout, PostedSays, InputDue
<1>4. /\ \A w \in Screen : NetSays(net, w)
      /\ \A s \in Screen : ~ClaimComes(net, s)
  BY <1>1, <1>2 DEF NetSays, ClaimComes
<1>5. winner \in Screen
  BY DEF IInv, TypeOK
<1>6. \A s \in Screen : core[s] = winner
  BY <1>3, <1>4, <1>5 DEF OneByOne, OneVoice
<1>7. ~Pending
  BY <1>1, <1>2, <1>5, <1>6 DEF Pending
<1>8. cloud.server = winner
  BY <1>7 DEF OneByOne, Episode, Settled, Moving
<1>9. ASSUME NEW s \in Screen
      PROVE  /\ local[s].server = winner /\ remote[s] = cloud
             /\ local[s].layout = cloud.layout
             /\ s # winner => local[s].version = remote[s].version
  <2>1. remote[s] = cloud
    BY <1>1 DEF IInv, UpToDate
  <2>2. local[s].layout = cloud.layout /\ local[s].server \in {s, winner}
    BY <1>8, <2>1 DEF IInv, LocalFollows
  <2>3. local[s].version # remote[s].version => s = winner
    BY <1>1, <1>8 DEF OneByOne, OnlyServerLags
  <2>4. local[s].server # winner => local[s].version < remote[s].version
    BY <1>1, <1>8, <2>1 DEF IInv, Accounted
  <2>5. local[s].version \in Nat /\ remote[s].version \in Nat
    BY DEF IInv, TypeOK, Profile
  <2>6. QED
    BY <2>1, <2>2, <2>3, <2>4, <2>5
<1>10. QED
  BY <1>1, <1>3, <1>4, <1>6, <1>8, <1>9

\* switchServer to the server that was claimed: whatever asked for it, the core
\* that should serve starts and the others leave the role.
LEMMA SwitchStep ==
  ASSUME IInv, OneByOne, NEW s \in Screen, SwitchServer(s, winner),
         UNCHANGED <<local, remote, jobs, cloud, push, winner>>,
         NetSays(net', winner), PostedSays(posted', winner),
         NoLayout(posted) => NoLayout(posted'),
         \A t \in Screen : t # s /\ core[t] # winner
                             => ClaimComes(net', t) \/ InputDue(posted', winner)
  PROVE  OneByOne'
<1>1. /\ winner \in Screen /\ core \in [Screen -> Screen] /\ starting \subseteq {winner}
      /\ \A t \in starting : core[t] = t
  BY DEF IInv, TypeOK, OneByOne, OneVoice
<1>2. /\ core' = [core EXCEPT ![s] = winner] /\ winner' = winner
      /\ \A t \in Screen : core'[t] = IF t = s THEN winner ELSE core[t]
  BY <1>1 DEF SwitchServer
<1>3. starting' = IF winner # s THEN starting \ {s}
                  ELSE IF core[s] = s THEN starting
                  ELSE starting \union {s}
  BY DEF SwitchServer
<1>4. /\ starting' \subseteq {winner}
      /\ s # winner \/ core[s] = winner => starting' = starting
      /\ s = winner /\ core[s] # winner => starting' = {winner}
  BY <1>1, <1>3
<1>5. /\ local' = local /\ remote' = remote /\ jobs' = jobs
      /\ cloud' = cloud /\ push' = push
  OBVIOUS
<1>6. OneVoice'
  <2>1. \A t \in Screen :
          core'[t] # winner => ClaimComes(net', t) \/ InputDue(posted', winner)
    BY <1>2
  <2>2. \A t \in Screen :
          /\ jobs[t] # <<>> => t = winner
          /\ \A i \in 1 .. Len(jobs[t]) : jobs[t][i] = winner
          /\ push[t] # <<>> => Len(push[t]) = 1 /\ cloud.server = winner
    BY DEF OneByOne, OneVoice
  <2>3. QED
    BY <1>2, <1>4, <1>5, <2>1, <2>2 DEF OneVoice
<1>7. OnlyServerLags'
  BY <1>5 DEF OneByOne, OnlyServerLags
<1>8. LayoutStays => LayoutStays'
  BY <1>5 DEF LayoutStays
<1>9. ASSUME Pending
      PROVE  Pending'
  <2>1. CASE s = winner /\ core[s] # winner
    BY <1>1, <1>2, <1>4, <1>5, <1>9, <2>1 DEF Pending
  <2>2. CASE s # winner \/ core[s] = winner
    <3>1. core'[winner] = core[winner] /\ starting' = starting
      BY <1>1, <1>2, <1>4, <2>2
    <3>2. QED
      BY <1>2, <1>5, <1>9, <3>1 DEF Pending
  <2>3. QED
    BY <2>1, <2>2
<1>10. ASSUME Settled
       PROVE  Settled'
  <2>1. core'[winner] = winner /\ starting' = {}
    BY <1>1, <1>2, <1>4, <1>10 DEF Settled
  <2>2. QED
    BY <1>2, <1>5, <1>10, <2>1 DEF Settled
<1>11. ASSUME Moving
       PROVE  Moving'
  BY <1>2, <1>5, <1>11 DEF Moving
<1>12. QED
  BY <1>6, <1>7, <1>8, <1>9, <1>10, <1>11 DEF OneByOne, Episode

\* The handler of the input, a switch that a snapshot asked for, and a claim of
\* another service all switch to the screen that was claimed.
LEMMA SwitchesSettle ==
  ASSUME IInv, OneByOne, NEW s \in Screen, NEW t \in Screen,
         RunInput(s) \/ RunSwitch(s) \/ ReceiveClaim(t, s)
  PROVE  OneByOne'
<1>1. /\ net \in [Screen -> [Screen -> Seq(Screen)]] /\ posted \in [Screen -> Seq(Handler)]
      /\ winner \in Screen /\ NetSays(net, winner) /\ PostedSays(posted, winner)
  BY DEF IInv, TypeOK, OneByOne, OneVoice
<1>2. \A u \in Screen : core[u] # winner => ClaimComes(net, u) \/ InputDue(posted, winner)
  BY DEF OneByOne, OneVoice
<1>3. CASE RunInput(s)
  <2>1. /\ posted[s] # <<>> /\ Head(posted[s]).do = "input"
        /\ posted' = [posted EXCEPT ![s] = Tail(@)]
        /\ SwitchServer(s, s) /\ net' = Notified(net, s, s)
        /\ UNCHANGED <<local, remote, jobs, cloud, push, winner>>
    BY <1>3 DEF RunInput
  <2>2. s = winner /\ PostedSays(posted', winner) /\ (NoLayout(posted) => NoLayout(posted'))
    BY <1>1, <2>1, PoppedSays
  <2>3. NetSays(net', winner) /\ \A u \in Screen : u # s => ClaimComes(net', u)
    BY <1>1, <2>1, <2>2, NotifiedSays
  <2>4. QED
    BY <2>1, <2>2, <2>3, SwitchStep
<1>4. CASE RunSwitch(s)
  <2>1. /\ posted[s] # <<>> /\ Head(posted[s]).do = "switch"
        /\ posted' = [posted EXCEPT ![s] = Tail(@)]
        /\ SwitchServer(s, Head(posted[s]).server)
        /\ net' = net /\ UNCHANGED <<local, remote, jobs, cloud, push, winner>>
    BY <1>4 DEF RunSwitch
  <2>2. /\ Head(posted[s]).server = winner /\ PostedSays(posted', winner)
        /\ NoLayout(posted) => NoLayout(posted')
        /\ InputDue(posted, winner) => InputDue(posted', winner)
    BY <1>1, <2>1, PoppedSays
  <2>3. QED
    BY <1>1, <1>2, <2>1, <2>2, SwitchStep
<1>5. CASE ReceiveClaim(t, s)
  <2>1. /\ net[t][s] # <<>> /\ net' = [net EXCEPT ![t][s] = Tail(@)]
        /\ SwitchServer(s, Head(net[t][s]))
        /\ posted' = posted /\ UNCHANGED <<local, remote, jobs, cloud, push, winner>>
    BY <1>5 DEF ReceiveClaim
  <2>2. /\ Head(net[t][s]) = winner /\ NetSays(net', winner)
        /\ \A u \in Screen : u # s /\ ClaimComes(net, u) => ClaimComes(net', u)
    BY <1>1, <2>1, ReceivedSays
  <2>3. QED
    BY <1>1, <1>2, <2>1, <2>2, SwitchStep
<1>6. QED
  BY <1>3, <1>4, <1>5

\* A new layout makes the server restart its core: no claim is under way.
LEMMA LayoutSettles ==
  ASSUME IInv, OneByOne, NEW s \in Screen, RunLayout(s)
  PROVE  OneByOne'
<1>1. /\ net \in [Screen -> [Screen -> Seq(Screen)]] /\ posted \in [Screen -> Seq(Handler)]
      /\ winner \in Screen /\ NetSays(net, winner) /\ PostedSays(posted, winner)
      /\ starting \subseteq {winner}
  BY DEF IInv, TypeOK, OneByOne, OneVoice
<1>2. /\ posted[s] # <<>> /\ Head(posted[s]).do = "layout"
      /\ posted' = [posted EXCEPT ![s] = Tail(@)]
      /\ UNCHANGED <<core, local, remote, jobs, cloud, push, winner>>
  BY DEF RunLayout
<1>3. PostedSays(posted', winner) /\ ~NoLayout(posted)
  BY <1>1, <1>2, PoppedSays
<1>4. Moving
  BY <1>3 DEF OneByOne, Episode, LayoutStays
<1>5. \A t \in Screen : core[t] = winner
  BY <1>4 DEF Moving
<1>6. starting' \subseteq {winner} /\ NetSays(net', winner)
  <2>1. CASE core[s] = s
    <3>1. starting' = starting \union {s} /\ net' = Notified(net, s, s) /\ s = winner
      BY <1>5, <2>1 DEF RunLayout
    <3>2. QED
      BY <1>1, <3>1, NotifiedSays
  <2>2. CASE core[s] # s
    BY <1>1, <2>2 DEF RunLayout
  <2>3. QED
    BY <2>1, <2>2
<1>7. OneVoice'
  BY <1>2, <1>3, <1>5, <1>6 DEF OneByOne, OneVoice
<1>8. OnlyServerLags' /\ Moving'
  BY <1>2, <1>4 DEF OneByOne, OnlyServerLags, Moving
<1>9. QED
  BY <1>7, <1>8 DEF OneByOne, Episode

\* The server's core is ready: it claims the profile, unless the cloud has it so.
LEMMA ReadySettles ==
  ASSUME IInv, OneByOne, NEW s \in Screen, Ready(s)
  PROVE  OneByOne'
<1> DEFINE mine == [local[s] EXCEPT !.server = s]
<1>1. /\ s \in starting /\ starting' = starting \ {s}
      /\ local' = [local EXCEPT ![s] = mine]
      /\ jobs' = IF mine.version >= remote[s].version /\ remote[s].server # s
                 THEN [jobs EXCEPT ![s] = Append(@, s)] ELSE jobs
      /\ UNCHANGED <<core, remote, posted, net, cloud, push, winner>>
  BY DEF Ready
<1>2. s = winner /\ starting = {winner} /\ starting' = {} /\ core[winner] = winner
  BY <1>1 DEF IInv, TypeOK, OneByOne, OneVoice
<1>3. /\ local \in [Screen -> Profile] /\ local[s] \in Profile /\ remote[s] \in Profile
      /\ jobs \in [Screen -> Seq(Screen)]
  BY DEF IInv, TypeOK
<1>4. /\ mine.server = s
      /\ mine.version = local[s].version /\ mine.layout = local[s].layout
  BY <1>3 DEF Profile
<1>5. \A t \in Screen : /\ local'[t] = IF t = s THEN mine ELSE local[t]
                        /\ t # s => jobs'[t] = jobs[t]
  BY <1>1, <1>3
<1> HIDE DEF mine
<1>6. OnlyServerLags'
  BY <1>1, <1>4, <1>5 DEF OneByOne, OnlyServerLags
<1>7. LayoutStays => LayoutStays'
  BY <1>1, <1>4, <1>5 DEF LayoutStays
<1>8. /\ NetSays(net', winner) /\ PostedSays(posted', winner)
      /\ \A t \in Screen :
           /\ push'[t] # <<>> => Len(push'[t]) = 1 /\ cloud'.server = winner
           /\ core'[t] # winner => ClaimComes(net', t) \/ InputDue(posted', winner)
           /\ t # s => jobs'[t] = <<>>
  BY <1>1, <1>2, <1>5 DEF OneByOne, OneVoice
<1>9. CASE LayoutStays /\ Pending
  <2>1. /\ jobs[s] = <<>> /\ push[s] = <<>> /\ cloud.server # s
        /\ local[s].version = remote[s].version
    BY <1>2, <1>9 DEF Pending
  <2>2. remote[s].server # s /\ mine.version >= remote[s].version
    <3>1. remote[s] = cloud
      BY <2>1 DEF IInv, UpToDate
    <3>2. mine.version = remote[s].version /\ remote[s].version \in Nat
      BY <1>3, <1>4, <2>1 DEF Profile
    <3>3. QED
      BY <2>1, <3>1, <3>2
  <2>3. jobs'[s] = Append(<<>>, s)
    BY <1>1, <1>3, <2>1, <2>2
  <2>4. Len(jobs'[s]) = 1 /\ jobs'[s][1] = s /\ \A i \in 1 .. Len(jobs'[s]) : i = 1
    BY <2>3
  <2>5. \A t \in Screen : /\ jobs'[t] # <<>> => t = winner
                          /\ \A i \in 1 .. Len(jobs'[t]) : jobs'[t][i] = winner
    <3>1. Len(<<>>) = 0
      OBVIOUS
    <3>2. QED
      BY <1>2, <1>8, <2>4, <3>1
  <2>6. OneVoice'
    BY <1>1, <1>2, <1>8, <2>5 DEF OneVoice
  <2>7. Pending'
    BY <1>1, <1>2, <1>4, <1>5, <1>9, <2>1, <2>4 DEF Pending
  <2>8. QED
    BY <1>6, <1>7, <1>9, <2>6, <2>7 DEF OneByOne, Episode
<1>10. CASE Moving
  <2>1. remote[s].server = s /\ local[s].server = s
    BY <1>2, <1>10 DEF Moving
  <2>2. jobs' = jobs
    BY <1>1, <2>1
  <2>3. OneVoice'
    BY <1>1, <1>2, <1>8, <2>2 DEF OneByOne, OneVoice
  <2>4. Moving'
    BY <1>1, <1>2, <1>4, <1>5, <1>10, <2>2 DEF Moving
  <2>5. QED
    BY <1>6, <2>3, <2>4 DEF OneByOne, Episode
<1>11. CASE LayoutStays /\ Settled
  BY <1>2, <1>11 DEF Settled
<1>12. QED
  BY <1>9, <1>10, <1>11 DEF OneByOne, Episode

\* What compare makes a service post says no other server than the snapshot.
LEMMA ChangesSay ==
  ASSUME NEW p \in Profile, NEW q \in Profile, NEW i \in 1 .. Len(Changes(p, q))
  PROVE  /\ Changes(p, q)[i].do # "input"
         /\ Changes(p, q)[i].do = "switch" => Changes(p, q)[i].server = q.server
         /\ Changes(p, q)[i].do = "layout" => p.layout # q.layout
<1> DEFINE a == ChangedServer(p, q)
           b == IF q.layout # p.layout THEN <<[do |-> "layout"]>> ELSE <<>>
<1>1. Changes(p, q) = a \o b
  BY DEF Changes
<1>2. /\ a \in Seq(Handler) /\ b \in Seq(Handler)
      /\ \A j \in 1 .. Len(a) : a[j].do = "switch" /\ a[j].server = q.server
      /\ \A j \in 1 .. Len(b) : b[j].do = "layout" /\ q.layout # p.layout
  <2>1. [do |-> "switch", server |-> q.server] \in Handler /\ [do |-> "layout"] \in Handler
    BY DEF Handler, Profile
  <2>2. CASE p.server = q.server
    BY <2>1, <2>2 DEF ChangedServer
  <2>3. CASE p.server # q.server
    BY <2>1, <2>3 DEF ChangedServer
  <2>4. QED
    BY <2>2, <2>3
<1> HIDE DEF a, b
<1>3. CASE i <= Len(a)
  <2>1. i \in 1 .. Len(a) /\ (a \o b)[i] = a[i]
    BY <1>1, <1>2, <1>3, ConcatElements
  <2>2. QED
    BY <1>1, <1>2, <2>1
<1>4. CASE ~(i <= Len(a))
  <2>1. i - Len(a) \in 1 .. Len(b) /\ (a \o b)[i] = b[i - Len(a)]
    BY <1>1, <1>2, <1>4, ConcatElements
  <2>2. QED
    BY <1>1, <1>2, <2>1
<1>5. QED
  BY <1>3, <1>4

\* The snapshot arrives that the claim, or the new layout, has caused: it is the
\* cloud's profile, and only the server itself may keep an older version.
LEMMA SnapshotSettles ==
  ASSUME IInv, OneByOne, NEW s \in Screen, ReceiveSnapshot(s)
  PROVE  OneByOne'
<1> DEFINE changes == Changes(local[s], cloud)
<1>1. /\ push[s] # <<>> /\ Len(push[s]) = 1 /\ cloud.server = winner
      /\ push[s] \in Seq(Profile) /\ cloud \in Profile /\ winner \in Screen
      /\ local \in [Screen -> Profile] /\ remote \in [Screen -> Profile]
      /\ push \in [Screen -> Seq(Profile)] /\ posted \in [Screen -> Seq(Handler)]
  BY DEF ReceiveSnapshot, IInv, TypeOK, OneByOne, OneVoice
<1>2. Head(push[s]) = cloud /\ Tail(push[s]) = <<>>
  <2>1. push[s][1] = cloud
    BY <1>1 DEF IInv, UpToDate
  <2> DEFINE q == push[s]
  <2>2. q \in Seq(Profile) /\ Len(q) = 1 /\ q[1] = cloud
    BY <1>1, <2>1
  <2> HIDE DEF q
  <2>3. Head(q) = cloud /\ Tail(q) = <<>>
    BY <2>2, OnlyElement
  <2>4. QED
    BY <2>3 DEF q
<1>3. ~(cloud.version < local[s].version)
  <2>1. remote[s].version <= cloud.version /\ local[s].version <= remote[s].version
    BY DEF IInv, UpToDate, LocalFollows
  <2>2. local[s].version \in Nat /\ remote[s].version \in Nat /\ cloud.version \in Nat
    BY <1>1 DEF Profile
  <2>3. QED
    BY <2>1, <2>2
<1>4. /\ push' = [push EXCEPT ![s] = <<>>]
      /\ remote' = [remote EXCEPT ![s] = cloud]
      /\ local' = [local EXCEPT ![s] = IF changes # <<>> THEN cloud ELSE @]
      /\ posted' = [posted EXCEPT ![s] = @ \o changes]
      /\ UNCHANGED <<core, starting, net, jobs, cloud, winner>>
  BY <1>2, <1>3 DEF ReceiveSnapshot, Post
<1>5. /\ changes \in Seq(Handler)
      /\ changes = <<>> <=> local[s].server = winner /\ local[s].layout = cloud.layout
      /\ \A i \in 1 .. Len(changes) :
           /\ changes[i].do # "input"
           /\ changes[i].do = "switch" => changes[i].server = winner
           /\ changes[i].do = "layout" => local[s].layout # cloud.layout
  <2>1. local[s] \in Profile
    BY <1>1
  <2>2. QED
    BY <1>1, <2>1, ChangesTyped, ChangesSay
<1> HIDE DEF changes
<1>6. \A t \in Screen :
        /\ push'[t] = IF t = s THEN <<>> ELSE push[t]
        /\ remote'[t] = IF t = s THEN cloud ELSE remote[t]
        /\ local'[t] = IF t = s /\ changes # <<>> THEN cloud ELSE local[t]
  BY <1>1, <1>4
<1>7. local'[s].server = winner /\ local'[s].layout = cloud.layout
  BY <1>1, <1>5, <1>6
<1>8. /\ PostedSays(posted', winner)
      /\ (InputDue(posted, winner) => InputDue(posted', winner))
      /\ (NoLayout(posted) /\ local[s].layout = cloud.layout => NoLayout(posted'))
  <2>1. PostedSays(posted, winner)
    BY DEF OneByOne, OneVoice
  <2>2. QED
    BY <1>1, <1>4, <1>5, <2>1, PostSays
<1>9. OneVoice'
  <2>1. \A t \in Screen :
          push'[t] # <<>> => Len(push'[t]) = 1 /\ cloud'.server = winner
    BY <1>4, <1>6 DEF OneByOne, OneVoice
  <2>2. QED
    BY <1>4, <1>8, <2>1 DEF OneByOne, OneVoice
<1>10. changes = <<>> => s = winner
  <2>1. CASE Pending
    BY <1>1, <2>1 DEF Pending
  <2>2. CASE LayoutStays /\ Settled
    BY <1>1, <1>5, <2>2 DEF Settled
  <2>3. CASE Moving
    BY <1>1, <1>5, <2>3 DEF Moving
  <2>4. QED
    BY <2>1, <2>2, <2>3 DEF OneByOne, Episode
<1>11. OnlyServerLags'
  <2>1. ASSUME NEW t \in Screen, push'[t] = <<>>, local'[t].version # remote'[t].version
        PROVE  t = cloud.server
    <3>1. CASE t = s
      BY <1>1, <1>6, <1>10, <2>1, <3>1
    <3>2. CASE t # s
      BY <1>6, <2>1, <3>2 DEF OneByOne, OnlyServerLags
    <3>3. QED
      BY <3>1, <3>2
  <2>2. QED
    BY <1>4, <2>1 DEF OnlyServerLags
<1>12. CASE LayoutStays /\ Pending
  BY <1>1, <1>12 DEF Pending
<1>13. CASE LayoutStays /\ Settled
  <2>1. LayoutStays'
    BY <1>4, <1>6, <1>7, <1>8, <1>13 DEF LayoutStays
  <2>2. Settled'
    BY <1>4, <1>6, <1>13 DEF Settled
  <2>3. QED
    BY <1>9, <1>11, <2>1, <2>2 DEF OneByOne, Episode
<1>14. CASE Moving
  <2>1. Moving'
    BY <1>1, <1>4, <1>6, <1>7, <1>14 DEF Moving
  <2>2. QED
    BY <1>9, <1>11, <2>1 DEF OneByOne, Episode
<1>15. QED
  BY <1>12, <1>13, <1>14 DEF OneByOne, Episode

\* The cloud takes the claim.
LEMMA TakenSettles ==
  ASSUME IInv, OneByOne, NEW s \in Screen, TakeClaim(s)
  PROVE  OneByOne'
<1>1. /\ jobs[s] # <<>> /\ jobs[s] \in Seq(Screen) /\ jobs \in [Screen -> Seq(Screen)]
      /\ s = winner /\ cloud \in Profile
      /\ \A i \in 1 .. Len(jobs[s]) : jobs[s][i] = winner
  BY DEF TakeClaim, IInv, TypeOK, OneByOne, OneVoice
<1>2. LayoutStays /\ Pending
  BY <1>1 DEF OneByOne, Episode, Settled, Moving
<1>3. /\ Len(jobs[s]) = 1 /\ core[winner] = winner /\ starting = {}
      /\ \A t \in Screen : push[t] = <<>>
  BY <1>1, <1>2 DEF Pending
<1>4. Head(jobs[s]) = winner /\ Tail(jobs[s]) = <<>>
  <2> DEFINE q == jobs[s]
  <2>1. q \in Seq(Screen) /\ Len(q) = 1 /\ q[1] = winner
    BY <1>1, <1>3
  <2> HIDE DEF q
  <2>2. Head(q) = winner /\ Tail(q) = <<>>
    BY <2>1, OnlyElement
  <2>3. QED
    BY <2>2 DEF q
<1>5. /\ jobs' = [jobs EXCEPT ![s] = <<>>]
      /\ cloud' = [cloud EXCEPT !.version = @ + 1, !.server = winner]
      /\ push' = [t \in Screen |-> Append(push[t], cloud')]
      /\ UNCHANGED <<core, starting, local, remote, posted, net, winner>>
  BY <1>4 DEF TakeClaim, Publish
<1>6. cloud'.server = winner /\ cloud'.layout = cloud.layout
  BY <1>1, <1>5 DEF Profile
<1>7. \A t \in Screen : push'[t] = <<cloud'>> /\ jobs'[t] = <<>>
  <2>1. \A t \in Screen : t # s => jobs[t] = <<>>
    BY <1>1 DEF OneByOne, OneVoice
  <2>2. \A t \in Screen : jobs'[t] = <<>>
    BY <1>1, <1>5, <2>1
  <2>3. \A t \in Screen : push'[t] = Append(<<>>, cloud')
    BY <1>3, <1>5
  <2>4. QED
    BY <2>2, <2>3
<1>8. Len(<<>>) = 0 /\ Len(<<cloud'>>) = 1 /\ <<cloud'>> # <<>>
  OBVIOUS
<1>9. OneVoice'
  BY <1>5, <1>6, <1>7, <1>8 DEF OneByOne, OneVoice
<1>10. OnlyServerLags'
  BY <1>7, <1>8 DEF OnlyServerLags
<1>11. LayoutStays'
  BY <1>2, <1>5, <1>6 DEF LayoutStays
<1>12. Settled'
  BY <1>2, <1>3, <1>5, <1>6, <1>7 DEF Pending, Settled
<1>13. QED
  BY <1>9, <1>10, <1>11, <1>12 DEF OneByOne, Episode

\* The user moves screens while nothing else is under way.
LEMMA MovedSettles ==
  ASSUME IInv, OneByOne, Quiet, MoveScreens
  PROVE  OneByOne'
<1>1. /\ cloud.server = winner /\ starting = {} /\ cloud \in Profile
      /\ \A s \in Screen :
           /\ core[s] = winner /\ local[s].server = winner /\ remote[s] = cloud
           /\ local[s].layout = cloud.layout
           /\ jobs[s] = <<>> /\ push[s] = <<>>
      /\ winner \in Screen /\ NetSays(net, winner) /\ PostedSays(posted, winner)
  <2>1. winner \in Screen /\ cloud \in Profile
    BY DEF IInv, TypeOK
  <2>2. QED
    BY <2>1, QuietSettled
<1>2. /\ cloud' = [cloud EXCEPT !.version = @ + 1, !.layout = ~@]
      /\ push' = [t \in Screen |-> Append(push[t], cloud')]
      /\ UNCHANGED <<core, starting, local, remote, posted, net, winner, jobs>>
  BY DEF MoveScreens, Publish
<1>3. cloud'.server = winner /\ cloud'.layout = ~cloud.layout /\ cloud.layout \in BOOLEAN
  BY <1>1, <1>2 DEF Profile
<1>4. \A t \in Screen : push'[t] = <<cloud'>>
  <2>1. \A t \in Screen : push'[t] = Append(<<>>, cloud')
    BY <1>1, <1>2
  <2>2. QED
    BY <2>1
<1>5. Len(<<>>) = 0 /\ Len(<<cloud'>>) = 1 /\ <<cloud'>> # <<>>
  OBVIOUS
<1>6. OneVoice'
  BY <1>1, <1>2, <1>3, <1>4, <1>5 DEF OneVoice
<1>7. OnlyServerLags'
  BY <1>4, <1>5 DEF OnlyServerLags
<1>8. \A s \in Screen : local[s].layout # cloud'.layout
  BY <1>1, <1>3
<1>9. Moving'
  BY <1>1, <1>2, <1>3, <1>8 DEF Moving
<1>10. QED
  BY <1>6, <1>7, <1>9 DEF OneByOne, Episode

\* A claim begins while nothing else is under way: for the server that there is,
\* and all is settled, or for another screen, and the cloud has to hear of it.
LEMMA ClaimBegins ==
  ASSUME IInv, OneByOne, Quiet, NEW w \in Screen, winner' = w,
         UNCHANGED <<local, remote, jobs, cloud, push>>,
         NetSays(net', w), PostedSays(posted', w), NoLayout(posted'),
         \A t \in Screen : core'[t] # w => ClaimComes(net', t) \/ InputDue(posted', w),
         w = winner => core'[w] = w /\ starting' = {},
         w # winner => \/ core'[w] # w /\ starting' = {}
                       \/ core'[w] = w /\ starting' = {w}
  PROVE  OneByOne'
<1>1. /\ cloud.server = winner
      /\ \A s \in Screen :
           /\ local[s].server = winner /\ local[s].layout = cloud.layout
           /\ jobs[s] = <<>> /\ push[s] = <<>>
           /\ s # winner => local[s].version = remote[s].version
  BY QuietSettled
<1>2. /\ local' = local /\ remote' = remote /\ jobs' = jobs
      /\ cloud' = cloud /\ push' = push
  OBVIOUS
<1>3. Len(<<>>) = 0
  OBVIOUS
<1>4. starting' \subseteq {w}
  OBVIOUS
<1>5. OneVoice'
  BY <1>1, <1>2, <1>3, <1>4 DEF OneVoice
<1>6. OnlyServerLags'
  BY <1>1, <1>2 DEF OnlyServerLags
<1>7. LayoutStays'
  BY <1>1, <1>2 DEF LayoutStays
<1>8. CASE w = winner
  <2>1. Settled'
    BY <1>1, <1>2, <1>8 DEF Settled
  <2>2. QED
    BY <1>5, <1>6, <1>7, <2>1 DEF OneByOne, Episode
<1>9. CASE w # winner
  <2>1. Pending'
    BY <1>1, <1>2, <1>9 DEF Pending
  <2>2. QED
    BY <1>5, <1>6, <1>7, <2>1 DEF OneByOne, Episode
<1>10. QED
  BY <1>8, <1>9

\* The two ways for a user to claim.
LEMMA ClaimsSettle ==
  ASSUME IInv, OneByOne, Quiet, NEW s \in Screen, NEW w \in Screen,
         (w = s /\ LocalInput(s)) \/ ClaimByUI(s, w)
  PROVE  OneByOne'
<1>1. /\ starting = {} /\ NoLayout(posted) /\ NetSays(net, w) /\ PostedSays(posted, w)
      /\ \A t \in Screen : core[t] = winner
  BY QuietSettled
<1>2. /\ net \in [Screen -> [Screen -> Seq(Screen)]] /\ posted \in [Screen -> Seq(Handler)]
      /\ core \in [Screen -> Screen]
  BY DEF IInv, TypeOK
<1>3. CASE w = s /\ LocalInput(s)
  <2> DEFINE input == <<[do |-> "input"]>>
  <2>1. /\ posted' = [posted EXCEPT ![s] = @ \o input] /\ winner' = w
        /\ UNCHANGED <<core, starting, local, remote, net, jobs, cloud, push>>
    BY <1>3 DEF LocalInput, Claims, Post
  <2>2. /\ input \in Seq(Handler)
        /\ \A i \in 1 .. Len(input) : input[i].do = "input"
    BY DEF Handler
  <2>3. posted'[s] = input
    <3>1. posted'[s] = posted[s] \o input /\ posted[s] = <<>>
      BY <1>2, <2>1 DEF Quiet
    <3>2. <<>> \o input = input
      BY <2>2
    <3>3. QED
      BY <3>1, <3>2
  <2>4. InputDue(posted', w)
    <3>1. 1 \in 1 .. Len(input) /\ input[1].do = "input"
      OBVIOUS
    <3>2. QED
      BY <1>3, <2>3, <3>1 DEF InputDue
  <2> HIDE DEF input
  <2>5. PostedSays(posted', w) /\ NoLayout(posted')
    BY <1>1, <1>2, <1>3, <2>1, <2>2, PostSays
  <2>6. QED
    BY <1>1, <2>1, <2>4, <2>5, ClaimBegins
<1>4. CASE ClaimByUI(s, w)
  <2>1. /\ SwitchServer(s, w) /\ net' = Notified(net, s, w) /\ winner' = w
        /\ UNCHANGED <<local, remote, posted, jobs, cloud, push>>
    BY <1>4 DEF ClaimByUI, Claims
  <2>2. NetSays(net', w) /\ \A t \in Screen : t # s => ClaimComes(net', t)
    BY <1>1, <1>2, <2>1, NotifiedSays
  <2>3. /\ core' = [core EXCEPT ![s] = w]
        /\ starting' = IF w # s THEN {} ELSE IF core[s] = s THEN {} ELSE {s}
    BY <1>1, <2>1 DEF SwitchServer
  <2>4. \A t \in Screen : core'[t] = IF t = s THEN w ELSE winner
    BY <1>1, <1>2, <2>3
  <2>5. /\ w = winner => core'[w] = w /\ starting' = {}
        /\ w # winner => \/ core'[w] # w /\ starting' = {}
                         \/ core'[w] = w /\ starting' = {w}
    BY <1>1, <2>3, <2>4
  <2>6. QED
    BY <1>1, <2>1, <2>2, <2>4, <2>5, ClaimBegins
<1>5. QED
  BY <1>3, <1>4

LEMMA InitSettled == Init => OneByOne
<1>1. SUFFICES ASSUME Init
               PROVE  OneByOne
  OBVIOUS
<1>2. /\ cloud.server = First /\ winner = First /\ starting = {}
      /\ \A s \in Screen :
           /\ core[s] = First /\ local[s] = cloud /\ remote[s] = cloud
           /\ posted[s] = <<>> /\ jobs[s] = <<>> /\ push[s] = <<>>
           /\ \A t \in Screen : net[s][t] = <<>>
      /\ First \in Screen
  BY <1>1, FirstAssumption DEF Init
<1>3. Len(<<>>) = 0
  OBVIOUS
<1>4. NetSays(net, First) /\ PostedSays(posted, First) /\ NoLayout(posted)
  BY <1>2, <1>3 DEF NetSays, PostedSays, NoLayout
<1>5. OneVoice /\ OnlyServerLags
  BY <1>2, <1>3, <1>4 DEF OneVoice, OnlyServerLags
<1>6. LayoutStays /\ Settled
  BY <1>2, <1>4 DEF LayoutStays, Settled
<1>7. QED
  BY <1>5, <1>6 DEF OneByOne, Episode

LEMMA StepSettled ==
  ASSUME IInv, ~contested => OneByOne, [Next]_vars, ~contested'
  PROVE  OneByOne'
<1>1. CASE UNCHANGED vars
  BY <1>1 DEF vars, OneByOne, OneVoice, OnlyServerLags, Episode, LayoutStays, Pending,
              Settled, Moving
<1>2. ASSUME NEW s \in Screen, LocalInput(s)
      PROVE  OneByOne'
  <2>1. ~contested /\ Quiet
    BY <1>2 DEF LocalInput, Claims
  <2>2. QED
    BY <1>2, <2>1, ClaimsSettle
<1>3. ASSUME NEW s \in Screen, NEW t \in Screen, ClaimByUI(s, t)
      PROVE  OneByOne'
  <2>1. ~contested /\ Quiet
    BY <1>3 DEF ClaimByUI, Claims
  <2>2. QED
    BY <1>3, <2>1, ClaimsSettle
<1>4. ASSUME NEW s \in Screen, NEW t \in Screen,
             RunInput(s) \/ RunSwitch(s) \/ ReceiveClaim(t, s)
      PROVE  OneByOne'
  <2>1. contested' = contested
    BY <1>4 DEF RunInput, RunSwitch, ReceiveClaim
  <2>2. QED
    BY <1>4, <2>1, SwitchesSettle
<1>5. ASSUME NEW s \in Screen, RunLayout(s)
      PROVE  OneByOne'
  <2>1. contested' = contested
    BY <1>5 DEF RunLayout
  <2>2. QED
    BY <1>5, <2>1, LayoutSettles
<1>6. ASSUME NEW s \in Screen, Ready(s)
      PROVE  OneByOne'
  <2>1. contested' = contested
    BY <1>6 DEF Ready
  <2>2. QED
    BY <1>6, <2>1, ReadySettles
<1>7. ASSUME NEW s \in Screen, ReceiveSnapshot(s)
      PROVE  OneByOne'
  <2>1. contested' = contested
    BY <1>7 DEF ReceiveSnapshot
  <2>2. QED
    BY <1>7, <2>1, SnapshotSettles
<1>8. ASSUME NEW s \in Screen, TakeClaim(s)
      PROVE  OneByOne'
  <2>1. contested' = contested
    BY <1>8 DEF TakeClaim
  <2>2. QED
    BY <1>8, <2>1, TakenSettles
<1>9. CASE MoveScreens
  <2>1. ~contested /\ Quiet
    BY <1>9 DEF MoveScreens
  <2>2. QED
    BY <1>9, <2>1, MovedSettles
<1>10. QED
  BY <1>1, <1>2, <1>3, <1>4, <1>5, <1>6, <1>7, <1>8, <1>9 DEF Next

\* The invariant of claims that do not cross.
THEOREM ClaimsOneByOne == Spec => []SettledInv
<1>1. Init => SettledInv
  BY InitInvariant, InitSettled DEF SettledInv
<1>2. SettledInv /\ [Next]_vars => SettledInv'
  BY StepInvariant, StepSettled DEF SettledInv
<1>3. QED
  BY <1>1, <1>2, PTL DEF Spec

\* A claim that no other claim, and no new layout, crosses wins: when nothing is
\* under way, the cloud and every service have the screen that was claimed last as
\* the server (CoreManager::switchServer, notifyServerClaim, ProfileConfig::compare).
THEOREM ClaimSettledWins == Spec => []SettledClaimWins
<1>1. SettledInv => SettledClaimWins
  BY QuietSettled DEF SettledInv, SettledClaimWins
<1>2. QED
  BY <1>1, ClaimsOneByOne, PTL
=============================================================================
