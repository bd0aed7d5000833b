------------------------------- MODULE Layout -------------------------------
(***************************************************************************)
(* The layout of a profile, edited in the configuration windows of several *)
(* computers at a time: ScreenManager and its list of screens.  A window   *)
(* shows an edit at once, posts the whole layout under the version it      *)
(* knows and counts that version up without waiting for an answer; the     *)
(* cloud answers with a snapshot, which the service passes on.  Module     *)
(* Arrangement has the positions; here they are numbers that tell edits    *)
(* apart.                                                                  *)
(*                                                                         *)
(* External: the cloud, which takes an edit of its own version only and    *)
(* sends what comes of it to every computer, in order; requests, which     *)
(* overtake each other and may be lost; the user.                          *)
(***************************************************************************)
EXTENDS Integers, Sequences, FiniteSets, SequencesExt, ScreenList

CONSTANTS
  Window,        \* computers with a window open, each named by its screen's id
  Others,        \* the screens of other computers
  MaxLayoutEdits, \* bound: icons dropped, clicked or removed
  MaxDrags       \* bound: icons pressed

ASSUME LayoutAssumption ==
  /\ Window \subseteq Nat /\ Others \subseteq Nat /\ Window \cap Others = {}
  /\ IsFiniteSet(Window \cup Others)
  /\ MaxLayoutEdits \in Nat /\ MaxDrags \in Nat

VARIABLES
  win,         \* each window: list, m_screens; conf, m_configVersion; known,
               \* m_screenIdSet; drag, the index pressed, 0 for none; up, not crashed
  online,      \* the profile in the cloud: version, and each screen's pos and ver
  requests,    \* posted and under way
  snaps,       \* snapshots under way to each window
  disturbed,   \* history: a snapshot reached the window while it dragged
  layoutUsed   \* how much of each bound is used

layoutVars == <<win, online, requests, snaps, disturbed, layoutUsed>>

Screens == Window \cup Others

Row(id, pos, ver) == [id |-> id, pos |-> pos, ver |-> ver, locked |-> FALSE]

LayoutTypeOK ==
  /\ \A u \in Window :
       /\ \A i \in DOMAIN win[u].list : win[u].list[i].id \in Screens \cup {-1}
       /\ win[u].conf \in Int /\ win[u].known \subseteq Screens
       /\ win[u].drag \in Nat /\ win[u].up \in BOOLEAN
  /\ DOMAIN online.at \subseteq Screens /\ online.version \in Nat
  /\ disturbed \in [Window -> BOOLEAN]
  /\ layoutUsed \in [edits : 0..MaxLayoutEdits, drags : 0..MaxDrags]

\* Each window has been opened, with the local screen alone.  The snapshot under way
\* may be older than the registration of the local screen.
LayoutInit ==
  /\ win = [u \in Window |-> [list |-> <<Row(-1, 0, -1)>>, conf |-> -1, known |-> {},
                              drag |-> 0, up |-> TRUE]]
  /\ online = [version |-> 0, at |-> [s \in Screens |-> [pos |-> 0, ver |-> 0]]]
  /\ requests = {}
  /\ \E late \in SUBSET Window :
       snaps = [u \in Window |->
                  <<[online EXCEPT !.at = [s \in Screens \ ({u} \cap late) |-> @[s]]]>>]
  /\ disturbed = [u \in Window |-> FALSE]
  /\ layoutUsed = [edits |-> 0, drags |-> 0]

-----------------------------------------------------------------------------
(* ScreenManager *)

Without(list, ids) ==
  LET left == Ascending({i \in DOMAIN list : list[i].id \notin ids}) IN
  [k \in DOMAIN left |-> list[left[k]]]

\* onUpdateProfileConfig: the request, for the list as it is.  The number makes equal
\* requests two.
Request(u, w, n) ==
  [from |-> u, version |-> w.conf, n |-> n, gone |-> 0,
   pos |-> [id \in {w.list[i].id : i \in DOMAIN w.list} |->
              w.list[Min(FindScreen(w.list, id))].pos]]

OlderOrSame(w, s) == w.conf >= s.version
\* The snapshot is older than what the window has, by its count of versions.
Older(w, s) == w.conf > s.version

\* The version is compared before anything is done.  A row that is locked, or newer,
\* is left as it is.  A local screen that was never in a snapshot is added, and posted.
UpdateScreens(u) ==
  LET w      == win[u]
      s      == Head(snaps[u])
      kept   == {id \in DOMAIN s.at : \E i \in FindScreen(w.list, id) :
                   w.list[i].locked \/ w.list[i].ver > s.at[id].ver}
      latest == [id \in DOMAIN s.at \ kept |-> Row(id, s.at[id].pos, s.at[id].ver)]
      adds   == u \notin w.known /\ u \notin DOMAIN s.at
      ids    == DOMAIN s.at \cup (IF adds THEN {u} ELSE {})
      shown  == Without(UpdateScreenList(Without(w.list, w.known \ ids), latest), {-1})
      new    == [w EXCEPT !.conf = s.version, !.known = ids,
                          !.list = IF adds THEN Append(shown, Row(u, 0, -1)) ELSE shown]
  IN /\ w.up /\ snaps[u] # <<>>
     /\ snaps' = [snaps EXCEPT ![u] = Tail(@)]
     /\ disturbed' = [disturbed EXCEPT ![u] = @ \/ w.drag # 0]
     /\ IF Older(w, s) THEN UNCHANGED <<win, requests>>
        ELSE IF adds
        THEN /\ requests' = requests \cup {Request(u, new, 0)}
             /\ win' = [win EXCEPT ![u] = [new EXCEPT !.conf = @ + 1]]
        ELSE win' = [win EXCEPT ![u] = new] /\ UNCHANGED requests
     /\ UNCHANGED <<online, layoutUsed>>

\* The mouse goes down on an icon: its index is noted and the screen locked.
LockScreen(u, i) ==
  /\ win[u].up /\ win[u].drag = 0
  /\ layoutUsed.drags < MaxDrags
  /\ layoutUsed' = [layoutUsed EXCEPT !.drags = @ + 1]
  /\ win' = [win EXCEPT ![u].drag = i, ![u].list[i].locked = TRUE]
  /\ UNCHANGED <<online, requests, snaps, disturbed>>

\* The index is of no row any more: the arrangement reads beyond the list.
DropBeyond(u) ==
  /\ win[u].up /\ win[u].drag > Len(win[u].list)
  /\ win' = [win EXCEPT ![u].up = FALSE]
  /\ UNCHANGED <<online, requests, snaps, disturbed, layoutUsed>>

\* It goes up where it went down: nothing is moved, and the row unlocked.
Click(u) ==
  LET w        == win[u]
      unlocked == [i \in DOMAIN w.list |-> [w.list[i] EXCEPT !.locked = @ /\ i # w.drag]]
  IN /\ w.up /\ w.drag # 0
     /\ win' = [win EXCEPT ![u] = [w EXCEPT !.drag = 0, !.list = unlocked]]
     /\ UNCHANGED <<online, requests, snaps, disturbed, layoutUsed>>

\* It goes up elsewhere: moveModel and unlockScreen on the index noted.
MoveAndPost(u) ==
  LET i     == win[u].drag
      n     == layoutUsed.edits + 1
      moved == [win[u] EXCEPT !.list[i] = [@ EXCEPT !.pos = n, !.locked = FALSE], !.drag = 0]
  IN /\ win[u].up /\ i \in DOMAIN win[u].list
     /\ layoutUsed.edits < MaxLayoutEdits /\ layoutUsed' = [layoutUsed EXCEPT !.edits = n]
     /\ requests' = requests \cup {Request(u, moved, n)}
     /\ win' = [win EXCEPT ![u] = [moved EXCEPT !.conf = @ + 1]]
     /\ UNCHANGED <<online, snaps, disturbed>>

\* removeScreenByIndex from the menu, which is not for the local screen.
RemoveAndNotify(u, i) ==
  LET w == win[u]
      n == layoutUsed.edits + 1
  IN /\ w.up /\ w.drag = 0 /\ w.list[i].id \notin {-1, u}
     /\ layoutUsed.edits < MaxLayoutEdits /\ layoutUsed' = [layoutUsed EXCEPT !.edits = n]
     /\ requests' = requests \cup {[from |-> u, version |-> w.conf, n |-> n,
                                gone |-> w.list[i].id, pos |-> <<>>]}
     /\ win' = [win EXCEPT ![u].list = RemoveAt(@, i), ![u].conf = @ + 1]
     /\ UNCHANGED <<online, snaps, disturbed>>

-----------------------------------------------------------------------------
(* The cloud and the network *)

\* The computer that was removed has its websocket shut down.
CloudTakes(r) ==
  LET at == [s \in DOMAIN online.at \ {r.gone} |->
               IF s \in DOMAIN r.pos /\ r.pos[s] # online.at[s].pos
               THEN [pos |-> r.pos[s], ver |-> online.at[s].ver + 1] ELSE online.at[s]]
      new == [version |-> online.version + 1, at |-> at]
  IN /\ r.version = online.version
     /\ online' = new
     /\ requests' = requests \ {r}
     /\ snaps' = [u \in Window |->
                    IF u \in DOMAIN online.at THEN Append(snaps[u], new) ELSE snaps[u]]
     /\ UNCHANGED <<win, disturbed, layoutUsed>>

\* It is lost, or the cloud refuses its version: the answer is only logged.
RequestFails(r) ==
  /\ requests' = requests \ {r}
  /\ UNCHANGED <<win, online, snaps, disturbed, layoutUsed>>

LayoutNext ==
  \/ \E r \in requests : CloudTakes(r) \/ RequestFails(r)
  \/ \E u \in Window :
       \/ UpdateScreens(u) \/ DropBeyond(u) \/ Click(u) \/ MoveAndPost(u)
       \/ \E i \in DOMAIN win[u].list : LockScreen(u, i) \/ RemoveAndNotify(u, i)

-----------------------------------------------------------------------------
(* Properties *)

Shown(w) == {<<w.list[i].id, w.list[i].pos>> : i \in DOMAIN w.list}

\* Once every request and snapshot has arrived, a window shows the layout of the cloud,
\* however edits of several windows crossed, overtook each other or were refused.
\* Except for a window that has counted edits the cloud did not take, which waits for
\* the cloud to come up to its version, and one that a snapshot reached in a drag: the
\* row that was locked is not updated later, and a row that is removed before the icon
\* that is dragged makes its index that of another.
WindowsAgree ==
  \A u \in Window :
    requests = {} /\ snaps[u] = <<>> /\ win[u].up /\ u \in DOMAIN online.at /\ win[u].drag = 0 =>
      \/ win[u].conf > online.version
      \/ disturbed[u]
      \/ Shown(win[u]) = {<<s, online.at[s].pos>> : s \in DOMAIN online.at}
=============================================================================
