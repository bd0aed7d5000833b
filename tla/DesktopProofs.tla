--------------------------- MODULE DesktopProofs ---------------------------
(***************************************************************************)
(* Proofs about what runs on the user's desktop, for any trays, sessions,  *)
(* calls, losses, clicks and restarts: there is one tray (Tray), one       *)
(* service and one core (Controller), and the core is in the session of    *)
(* the user at the screen (Sessions); of the configuration window, what    *)
(* its error view says is true (Window), a version that is no longer       *)
(* supported is reported once (Notices), and the service is told the       *)
(* screen that was registered (Login).                                     *)
(***************************************************************************)
EXTENDS Tray, Controller, Sessions, Window, Notices, Login, FiniteSetTheorems,
        SequenceTheorems, WellFoundedInduction, TLAPS

-----------------------------------------------------------------------------
(* Tray.  OneTray is not inductive: a tray gets its icon by an answer that *)
(* TrayService gave earlier, and gives it up by a call that is handled     *)
(* later.  So the invariant counts the trays that hold the place: those    *)
(* admitted, ready, or with their goodbye still on the way.  A tray cut    *)
(* off by a restart has its icon and holds no place.                       *)

OnlyPings(t) == \A i \in 1..Len(calls[t]) : calls[t][i] = "ping"

GoodbyeUnderWay(t) ==
  /\ answer[t] = "none" /\ Len(calls[t]) > 0
  /\ calls[t][Len(calls[t])] = "goodbye"
  /\ \A i \in 1..Len(calls[t]) : i # Len(calls[t]) => calls[t][i] = "ping"

\* What a tray may have under way in each of its states.
TrayShape(t) ==
  /\ tray[t] \in {"new", "cut"} => calls[t] = <<>> /\ answer[t] = "none"
  /\ tray[t] = "asking" =>
       \/ calls[t] = <<"hello">> /\ answer[t] = "none"
       \/ calls[t] = <<>> /\ answer[t] \in {"kill", "admit"}
  /\ tray[t] \in {"ready", "gone"} => OnlyPings(t) /\ answer[t] = "none"
  /\ tray[t] = "leaving" =>
       \/ GoodbyeUnderWay(t)
       \/ calls[t] = <<>> /\ answer[t] = "bye"

Holds(t) ==
  \/ tray[t] = "ready"
  \/ tray[t] = "asking" /\ answer[t] = "admit"
  \/ tray[t] = "leaving" /\ answer[t] = "none"

PlaceHeld ==
  ~overdue => /\ \A t \in TrayId : Holds(t) => running
              /\ \A t, u \in TrayId : Holds(t) /\ Holds(u) => t = u

TrayInv == TrayTypeOK /\ (\A t \in TrayId : TrayShape(t)) /\ PlaceHeld

LEMMA TrayInitInv == TrayInit => TrayInv
<1> SUFFICES ASSUME TrayInit
             PROVE  TrayInv
  OBVIOUS
<1>1. TrayTypeOK
  <2>1. calls \in [TrayId -> Seq({"hello", "ping", "goodbye"})]
    BY DEF TrayInit
  <2>2. trayUsed \in [pings : 0..MaxPings, starts : 0..MaxStarts]
    BY TrayAssumption DEF TrayInit
  <2>3. QED
    BY <2>1, <2>2 DEF TrayInit, TrayTypeOK
<1>2. ASSUME NEW t \in TrayId
      PROVE  TrayShape(t) /\ ~Holds(t)
  BY DEF TrayInit, TrayShape, Holds
<1>3. QED
  BY <1>1, <1>2 DEF TrayInv, PlaceHeld

\* A step of one tray, or of the service on behalf of it.
OthersAlone(t) ==
  \A u \in TrayId \ {t} :
    tray'[u] = tray[u] /\ calls'[u] = calls[u] /\ answer'[u] = answer[u]

HoldStep(t) ==
  /\ UNCHANGED overdue
  /\ \/ (Holds(t)' => Holds(t)) /\ UNCHANGED running
     \/ ~running /\ running'
     \/ Holds(t) /\ ~Holds(t)'

LEMMA TrayOneStep ==
  ASSUME TrayInv, NEW t \in TrayId, TrayTypeOK', TrayShape(t)', OthersAlone(t), HoldStep(t)
  PROVE  TrayInv'
<1>1. \A u \in TrayId \ {t} : TrayShape(u)' /\ (Holds(u)' <=> Holds(u))
  BY DEF TrayInv, TrayShape, Holds, OnlyPings, GoodbyeUnderWay, OthersAlone
<1>2. \A u \in TrayId : TrayShape(u)'
  BY <1>1
<1>3. PlaceHeld'
  BY <1>1 DEF TrayInv, PlaceHeld, HoldStep
<1>4. QED
  BY <1>2, <1>3 DEF TrayInv

\* A call is taken from the front, or added at the end.
NextCallTaken(t, fun) ==
  /\ calls' \in [TrayId -> Seq({"hello", "ping", "goodbye"})]
  /\ \A u \in TrayId \ {t} : calls'[u] = calls[u]
  /\ Len(calls[t]) \in Nat \ {0} /\ calls[t][1] = fun
  /\ Len(calls'[t]) = Len(calls[t]) - 1
  /\ \A i \in 1..Len(calls'[t]) : calls'[t][i] = calls[t][i + 1]

LEMMA NextCallTyped ==
  ASSUME TrayTypeOK, NEW t \in TrayId, NEW fun, NextCall(t, fun)
  PROVE  NextCallTaken(t, fun)
<1>1. calls[t] \in Seq({"hello", "ping", "goodbye"}) /\ calls[t] # <<>>
  BY DEF TrayTypeOK, NextCall
<1>2. calls' = [calls EXCEPT ![t] = Tail(calls[t])] /\ calls[t][1] = fun
  BY <1>1 DEF NextCall
<1>3. /\ Tail(calls[t]) \in Seq({"hello", "ping", "goodbye"})
      /\ Len(calls[t]) \in Nat \ {0} /\ Len(Tail(calls[t])) = Len(calls[t]) - 1
      /\ \A i \in 1..Len(Tail(calls[t])) : Tail(calls[t])[i] = calls[t][i + 1]
  BY <1>1
<1>4. calls'[t] = Tail(calls[t])
  BY <1>2 DEF TrayTypeOK
<1>5. QED
  BY <1>2, <1>3, <1>4 DEF TrayTypeOK, NextCallTaken

CallMade(t, fun) ==
  /\ calls' \in [TrayId -> Seq({"hello", "ping", "goodbye"})]
  /\ \A u \in TrayId \ {t} : calls'[u] = calls[u]
  /\ calls'[t] = Append(calls[t], fun)
  /\ Len(calls'[t]) = Len(calls[t]) + 1 /\ calls'[t][Len(calls[t]) + 1] = fun
  /\ \A i \in 1..Len(calls[t]) : calls'[t][i] = calls[t][i]

LEMMA CallTyped ==
  ASSUME TrayTypeOK, NEW t \in TrayId, NEW fun \in {"hello", "ping", "goodbye"}, Call(t, fun)
  PROVE  CallMade(t, fun)
<1>1. calls[t] \in Seq({"hello", "ping", "goodbye"})
  BY DEF TrayTypeOK
<1>2. calls'[t] = Append(calls[t], fun)
  BY DEF TrayTypeOK, Call
<1>3. QED
  BY <1>1, <1>2 DEF TrayTypeOK, Call, CallMade

LEMMA TrayStepInv ==
  ASSUME TrayInv, TrayNext
  PROVE  TrayInv'
<1>1. TrayTypeOK /\ PlaceHeld
  BY DEF TrayInv
<1>2. ASSUME NEW t \in TrayId
      PROVE  TrayShape(t) /\ calls[t] \in Seq({"hello", "ping", "goodbye"})
  BY DEF TrayInv, TrayTypeOK
<1>3. CASE PingTimeout
  <2>1. /\ armed' = FALSE /\ due' = due + 1
        /\ UNCHANGED <<tray, calls, answer, running, overdue, trayUsed>>
    BY <1>3, Zenon DEF PingTimeout
  <2>2. TrayTypeOK'
    <3>1. due' \in Nat
      BY <1>1, <2>1 DEF TrayTypeOK
    <3>2. QED
      BY <1>1, <2>1, <3>1, Zenon DEF TrayTypeOK
  <2>3. QED
    BY <1>1, <1>2, <2>1, <2>2
       DEF TrayInv, TrayShape, PlaceHeld, Holds, OnlyPings, GoodbyeUnderWay
<1>4. CASE MarkDead
  <2>1. TrayTypeOK'
    <3>1. due > 0 /\ due' = due - 1 /\ UNCHANGED <<tray, calls, answer, armed, trayUsed>>
      BY <1>4, Zenon DEF MarkDead
    <3>2. due' \in Nat
      BY <1>1, <3>1 DEF TrayTypeOK
    <3>3. running' \in BOOLEAN /\ overdue' \in BOOLEAN
      BY <1>4, <1>1, Zenon DEF MarkDead, TrayTypeOK
    <3>4. QED
      BY <1>1, <3>1, <3>2, <3>3, Zenon DEF TrayTypeOK
  <2>2. ASSUME NEW t \in TrayId
        PROVE  TrayShape(t)' /\ (Holds(t)' <=> Holds(t)) /\ (Holds(t) => t \in Alive)
    BY <1>4, <1>2 DEF MarkDead, TrayShape, Holds, OnlyPings, GoodbyeUnderWay, Alive
  <2>3. ~overdue' => \A t \in TrayId : ~Holds(t)
    BY <1>4, <2>2 DEF MarkDead
  <2>4. QED
    BY <2>1, <2>2, <2>3 DEF TrayInv, PlaceHeld
<1>5. CASE TrayServiceRestarts
  <2>1. TrayTypeOK'
    <3>1. calls' \in [TrayId -> Seq({"hello", "ping", "goodbye"})]
      BY <1>5 DEF TrayServiceRestarts
    <3>2. trayUsed' \in [pings : 0..MaxPings, starts : 0..MaxStarts]
      <4>1. /\ trayUsed \in [pings : 0..MaxPings, starts : 0..MaxStarts]
            /\ trayUsed.starts < MaxStarts /\ trayUsed' = [trayUsed EXCEPT !.starts = @ + 1]
        BY <1>5, <1>1 DEF TrayServiceRestarts, TrayTypeOK
      <4>2. QED
        BY <4>1, TrayAssumption
    <3>3. tray' \in [TrayId -> {"new", "asking", "ready", "leaving", "cut", "gone"}]
      BY <1>5, <1>1 DEF TrayServiceRestarts, TrayTypeOK
    <3>4. QED
      BY <1>5, <1>1, <3>1, <3>2, <3>3 DEF TrayServiceRestarts, TrayTypeOK
  <2>2. ASSUME NEW t \in TrayId
        PROVE  TrayShape(t)' /\ ~Holds(t)'
    BY <1>5, <1>1, <1>2 DEF TrayServiceRestarts, TrayShape, TrayTypeOK, Holds, OnlyPings, Alive
  <2>3. QED
    BY <2>1, <2>2 DEF TrayInv, PlaceHeld
<1>6. ASSUME NEW t \in TrayId, TrayStart(t)
      PROVE  TrayInv'
  <2>1. NextCallTaken(t, "hello")
    BY <1>6, <1>1, NextCallTyped DEF TrayStart
  <2>2. tray[t] = "asking" /\ Len(calls[t]) = 1
    <3>1. calls[t] # <<>> /\ ~OnlyPings(t)
      BY <2>1 DEF NextCallTaken, OnlyPings
    <3>2. ~GoodbyeUnderWay(t)
      BY <2>1 DEF NextCallTaken, GoodbyeUnderWay
    <3>3. tray[t] = "asking" /\ calls[t] = <<"hello">>
      BY <1>1, <1>2, <3>1, <3>2 DEF TrayShape, TrayTypeOK
    <3>4. QED
      BY <3>3
  <2>3. calls'[t] = <<>>
    BY <2>1, <2>2 DEF NextCallTaken
  <2>4. TrayTypeOK' /\ answer'[t] \in {"kill", "admit"}
    <3>1. /\ running' \in BOOLEAN /\ armed' \in BOOLEAN /\ due' \in Nat
          /\ UNCHANGED <<tray, overdue, trayUsed>>
      BY <1>6, <1>1 DEF TrayStart, TrayTypeOK, Rearm
    <3>2. /\ answer' \in [TrayId -> {"none", "kill", "admit", "bye"}]
          /\ answer'[t] \in {"kill", "admit"}
      BY <1>6, <1>1 DEF TrayStart, TrayTypeOK
    <3>3. QED
      BY <1>1, <2>1, <3>1, <3>2 DEF TrayTypeOK, NextCallTaken
  <2>5. TrayShape(t)'
    BY <1>6, <2>2, <2>3, <2>4 DEF TrayStart, TrayShape
  <2>6. OthersAlone(t) /\ HoldStep(t)
    BY <1>6, <1>1, <2>1, <2>2 DEF TrayStart, TrayTypeOK, NextCallTaken, OthersAlone, HoldStep, Holds
  <2>7. QED
    BY <2>4, <2>5, <2>6, TrayOneStep
<1>7. ASSUME NEW t \in TrayId, TrayPing(t)
      PROVE  TrayInv'
  <2>1. NextCallTaken(t, "ping")
    BY <1>7, <1>1, NextCallTyped DEF TrayPing
  <2>2. tray[t] \in {"ready", "gone", "leaving"} /\ answer[t] = "none"
    BY <1>1, <1>2, <2>1 DEF NextCallTaken, TrayTypeOK, TrayShape, GoodbyeUnderWay
  <2>3. TrayTypeOK'
    BY <1>7, <1>1, <2>1 DEF TrayPing, TrayTypeOK, Rearm, NextCallTaken
  <2>4. TrayShape(t)'
    <3>1. OnlyPings(t) => OnlyPings(t)'
      BY <1>2, <2>1 DEF OnlyPings, NextCallTaken
    <3>2. GoodbyeUnderWay(t) => GoodbyeUnderWay(t)'
      BY <1>7, <1>2, <2>1 DEF TrayPing, GoodbyeUnderWay, NextCallTaken
    <3>3. QED
      BY <1>7, <1>2, <2>1, <2>2, <3>1, <3>2 DEF TrayPing, TrayShape, NextCallTaken
  <2>5. OthersAlone(t) /\ HoldStep(t)
    BY <1>7, <2>1 DEF TrayPing, NextCallTaken, OthersAlone, HoldStep, Holds
  <2>6. QED
    BY <2>3, <2>4, <2>5, TrayOneStep
<1>8. ASSUME NEW t \in TrayId, TrayStop(t)
      PROVE  TrayInv'
  <2>1. NextCallTaken(t, "goodbye")
    BY <1>8, <1>1, NextCallTyped DEF TrayStop
  <2>2. tray[t] = "leaving" /\ answer[t] = "none" /\ Len(calls[t]) = 1
    <3>1. calls[t] # <<>> /\ calls[t] # <<"hello">> /\ ~OnlyPings(t)
      BY <2>1 DEF NextCallTaken, OnlyPings
    <3>2. tray[t] = "leaving" /\ GoodbyeUnderWay(t)
      BY <1>1, <1>2, <3>1 DEF TrayShape, TrayTypeOK
    <3>3. 1 \in 1..Len(calls[t]) /\ calls[t][1] = "goodbye"
      BY <2>1 DEF NextCallTaken
    <3>4. QED
      BY <3>2, <3>3 DEF GoodbyeUnderWay
  <2>3. calls'[t] = <<>>
    BY <2>1, <2>2 DEF NextCallTaken
  <2>4. TrayTypeOK' /\ answer'[t] = "bye"
    BY <1>8, <1>1, <2>1 DEF TrayStop, TrayTypeOK, NextCallTaken
  <2>5. TrayShape(t)'
    BY <1>8, <2>2, <2>3, <2>4 DEF TrayStop, TrayShape
  <2>6. OthersAlone(t) /\ HoldStep(t)
    BY <1>8, <1>1, <2>1, <2>2, <2>4
       DEF TrayStop, TrayTypeOK, NextCallTaken, OthersAlone, HoldStep, Holds
  <2>7. QED
    BY <2>4, <2>5, <2>6, TrayOneStep
<1>9. ASSUME NEW t \in TrayId, HelloAnswered(t) \/ GoodbyeAnswered(t) \/ TrayCut(t) \/ TrayDies(t)
      PROVE  TrayInv'
  <2>1. TrayTypeOK' /\ tray'[t] \in {"ready", "gone"} /\ answer'[t] = "none"
    BY <1>9, <1>1, <1>2
       DEF HelloAnswered, GoodbyeAnswered, TrayCut, TrayDies, TrayTypeOK, TrayShape
  <2>2. OnlyPings(t)' /\ (Holds(t)' => Holds(t))
    BY <1>9, <1>1, <1>2
       DEF HelloAnswered, GoodbyeAnswered, TrayCut, TrayDies, TrayTypeOK, TrayShape, OnlyPings,
           GoodbyeUnderWay, Holds
  <2>3. TrayShape(t)'
    BY <2>1, <2>2 DEF TrayShape
  <2>4. OthersAlone(t) /\ HoldStep(t)
    BY <1>9, <1>1, <2>2
       DEF HelloAnswered, GoodbyeAnswered, TrayCut, TrayDies, TrayTypeOK, OthersAlone, HoldStep
  <2>5. QED
    BY <2>1, <2>3, <2>4, TrayOneStep
<1>10. ASSUME NEW t \in TrayId, TrayHello(t)
       PROVE  TrayInv'
  <2>1. CallMade(t, "hello")
    BY <1>10, <1>1, CallTyped DEF TrayHello
  <2>2. calls'[t] = <<"hello">> /\ tray'[t] = "asking" /\ answer'[t] = "none"
    <3>1. calls[t] = <<>> /\ tray'[t] = "asking" /\ answer'[t] = "none"
      BY <1>10, <1>1, <1>2 DEF TrayHello, TrayTypeOK, TrayShape
    <3>2. QED
      BY <2>1, <3>1 DEF CallMade
  <2>3. TrayTypeOK' /\ TrayShape(t)'
    BY <1>10, <1>1, <2>1, <2>2 DEF TrayHello, TrayTypeOK, TrayShape, CallMade
  <2>4. OthersAlone(t) /\ HoldStep(t)
    BY <1>10, <1>1, <2>1, <2>2
       DEF TrayHello, TrayTypeOK, CallMade, OthersAlone, HoldStep, Holds
  <2>5. QED
    BY <2>3, <2>4, TrayOneStep
<1>11. ASSUME NEW t \in TrayId, PingLoop(t)
       PROVE  TrayInv'
  <2>1. CallMade(t, "ping")
    BY <1>11, <1>1, CallTyped DEF PingLoop
  <2>2. TrayTypeOK'
    <3>1. trayUsed' \in [pings : 0..MaxPings, starts : 0..MaxStarts]
      <4>1. /\ trayUsed \in [pings : 0..MaxPings, starts : 0..MaxStarts]
            /\ trayUsed.pings < MaxPings /\ trayUsed' = [trayUsed EXCEPT !.pings = @ + 1]
        BY <1>11, <1>1 DEF PingLoop, TrayTypeOK
      <4>2. QED
        BY <4>1, TrayAssumption
    <3>2. QED
      BY <1>11, <1>1, <2>1, <3>1 DEF PingLoop, TrayTypeOK, CallMade
  <2>3. OnlyPings(t)'
    BY <1>11, <1>1, <1>2, <2>1 DEF PingLoop, TrayShape, OnlyPings, CallMade
  <2>4. TrayShape(t)'
    BY <1>11, <1>2, <2>3 DEF PingLoop, TrayShape
  <2>5. OthersAlone(t) /\ HoldStep(t)
    BY <1>11, <2>1 DEF PingLoop, CallMade, OthersAlone, HoldStep, Holds
  <2>6. QED
    BY <2>2, <2>4, <2>5, TrayOneStep
<1>12. ASSUME NEW t \in TrayId, SayGoodbye(t)
       PROVE  TrayInv'
  <2>1. CallMade(t, "goodbye")
    BY <1>12, <1>1, CallTyped DEF SayGoodbye
  <2>2. TrayTypeOK' /\ tray'[t] = "leaving" /\ answer'[t] = "none" /\ Holds(t)
    BY <1>12, <1>1, <1>2, <2>1 DEF SayGoodbye, TrayTypeOK, TrayShape, Holds, CallMade
  <2>3. GoodbyeUnderWay(t)'
    BY <1>12, <1>2, <2>1, <2>2 DEF SayGoodbye, TrayShape, OnlyPings, GoodbyeUnderWay, CallMade
  <2>4. TrayShape(t)'
    BY <2>2, <2>3 DEF TrayShape
  <2>5. OthersAlone(t) /\ HoldStep(t)
    BY <1>12, <1>1, <2>1, <2>2 DEF SayGoodbye, TrayTypeOK, CallMade, OthersAlone, HoldStep
  <2>6. QED
    BY <2>2, <2>4, <2>5, TrayOneStep
<1>13. QED
  BY <1>3, <1>4, <1>5, <1>6, <1>7, <1>8, <1>9, <1>10, <1>11, <1>12 DEF TrayNext, TrayHandler

TraySpec == TrayInit /\ [][TrayNext]_trayVars

\* TrayInv holds always: at most one tray holds the place, and only while it is taken.
THEOREM TrayInvariant == TraySpec => []TrayInv
<1>1. TrayInv /\ UNCHANGED trayVars => TrayInv'
  BY DEF TrayInv, TrayTypeOK, TrayShape, PlaceHeld, Holds, OnlyPings, GoodbyeUnderWay, trayVars
<1>2. QED
  BY <1>1, TrayInitInv, TrayStepInv, PTL DEF TraySpec

\* For any trays and restarts: of two trays that show an icon one was cut off by a restart
\* of the service, so that the service never has two it can reach; unless a tray that was
\* there was marked dead (OneTray).  That the one cut off exits is a liveness property,
\* OneIconAgain, and is not proved.
THEOREM TrayIsOne == TraySpec => []OneTray
<1>1. TrayInv => OneTray
  <2> SUFFICES ASSUME TrayInv, ~overdue, NEW t \in Icons, NEW u \in Icons,
                      tray[t] # "cut", tray[u] # "cut"
               PROVE  t = u
    BY DEF OneTray
  <2>1. t \in TrayId /\ u \in TrayId /\ tray[t] = "ready" /\ tray[u] = "ready"
    BY DEF Icons
  <2>2. QED
    BY <2>1 DEF TrayInv, PlaceHeld, Holds
<1>2. QED
  BY <1>1, TrayInvariant, PTL

-----------------------------------------------------------------------------
(* Controller.  What runs, without a leak, is of the run whose handle the  *)
(* controller holds, in the active session and in the job; with that two   *)
(* processes of a kind are the same, and the one that stopAllUserProcesses *)
(* finds is the only one there is.                                         *)

CtlType ==
  /\ controller \in {"off", "running", "paused"} /\ leaked \in BOOLEAN
  /\ runs \in Nat
  /\ proc \subseteq [kind : {"service", "core"}, session : UserSession, run : Nat, job : BOOLEAN]
  /\ console \in UserSession

AllOurs ==
  ~leaked => \A p \in proc : controller # "off" /\ p.session = console /\ p.job /\ p.run = handle

CtlInv == CtlType /\ AllOurs

\* Two processes of a kind that are both ours are the same.
LEMMA OursSame ==
  ASSUME CtlInv, ~leaked, NEW p \in proc, NEW q \in proc, p.kind = q.kind
  PROVE  p = q
<1>1. /\ p \in [kind : {"service", "core"}, session : UserSession, run : Nat, job : BOOLEAN]
      /\ q \in [kind : {"service", "core"}, session : UserSession, run : Nat, job : BOOLEAN]
      /\ p.session = q.session /\ p.job = q.job /\ p.run = q.run
  BY DEF CtlInv, CtlType, AllOurs
<1>2. QED
  BY <1>1

\* Of each kind that is there stopAllUserProcesses ends one.
LEMMA StopEndsOne ==
  ASSUME NEW ps, NEW left, StopAllUserProcesses(ps, left)
  PROVE  /\ left \subseteq ps
         /\ \A kind \in {"service", "core"} :
              InSession(ps, kind) # {} => \E p \in ps \ left : p.kind = kind
<1>1. PICK first \in SUBSET ps :
        /\ \A kind \in {"service", "core"} :
             Cardinality({p \in first : p.kind = kind}) = (IF InSession(ps, kind) = {} THEN 0 ELSE 1)
        /\ left = ps \ first
  BY DEF StopAllUserProcesses
<1>2. ASSUME NEW kind \in {"service", "core"}, InSession(ps, kind) # {}
      PROVE  \E p \in ps \ left : p.kind = kind
  <2>1. Cardinality({p \in first : p.kind = kind}) = 1
    BY <1>1, <1>2
  <2>2. {p \in first : p.kind = kind} # {}
    BY <2>1, FS_EmptySet
  <2>3. QED
    BY <1>1, <2>2
<1>3. QED
  BY <1>1, <1>2

\* When the handle's service is dead and nothing leaked, nothing is left.
LEMMA StopEndsAll ==
  ASSUME CtlInv, ~leaked, \A p \in Running("service") : p.run # handle,
         NEW left, StopAllUserProcesses(proc, left)
  PROVE  left = {}
<1>1. left \subseteq proc
  BY StopEndsOne
<1>2. \A p \in left : p.kind = "core"
  BY <1>1 DEF CtlInv, CtlType, AllOurs, Running
<1>3. ASSUME NEW p \in left
      PROVE  FALSE
  <2>1. p \in InSession(proc, "core")
    BY <1>1, <1>2 DEF CtlInv, AllOurs, InSession
  <2>2. PICK q \in proc \ left : q.kind = "core"
    BY <2>1, StopEndsOne
  <2>3. p = q
    BY <1>1, <1>2, <2>2, OursSame
  <2>4. QED
    BY <2>2, <2>3
<1>4. QED
  BY <1>3

LEMMA CtlStepInv ==
  ASSUME CtlInv, [CtlNext]_ctlVars
  PROVE  CtlInv'
<1> USE DEF CtlInv
<1>1. CASE UNCHANGED ctlVars
  BY <1>1 DEF ctlVars, CtlType, AllOurs
<1>2. CASE Start \/ StartUnwatched \/ StartFails
  <2>1. ASSUME NEW job \in BOOLEAN
        PROVE  /\ NewService(job) \in [kind : {"service", "core"}, session : UserSession,
                                       run : Nat, job : BOOLEAN]
               /\ NewService(job).session = console /\ NewService(job).run = runs + 1
               /\ NewService(job).job = job
    BY DEF NewService, CtlType
  <2>2. ~leaked => proc = {}
    BY <1>2 DEF Start, StartUnwatched, StartFails, AllOurs
  <2>3. CtlType'
    BY <1>2, <2>1 DEF Start, StartUnwatched, StartFails, CtlType
  <2>4. AllOurs'
    BY <1>2, <2>1, <2>2 DEF Start, StartUnwatched, StartFails, AllOurs
  <2>5. QED
    BY <2>3, <2>4
<1>3. CASE MonitorService
  <2>1. PICK left \in SUBSET proc : StopAllUserProcesses(proc, left) /\ proc' = left
    BY <1>3 DEF MonitorService
  <2>2. ~leaked => left = {}
    BY <1>3, <2>1, StopEndsAll DEF MonitorService
  <2>3. QED
    BY <1>3, <2>1, <2>2 DEF MonitorService, CtlType, AllOurs
<1>4. CASE MonitorServiceLeaks \/ StopLeaks
  BY <1>4 DEF MonitorServiceLeaks, StopLeaks, CtlType, AllOurs
<1>5. CASE Stop
  <2>1. PICK left \in SUBSET proc :
          StopAllUserProcesses({p \in proc : ~p.job}, left) /\ proc' = left
    BY <1>5 DEF Stop, StopSynergyService
  <2>2. left \subseteq {p \in proc : ~p.job}
    BY <2>1, StopEndsOne
  <2>3. QED
    BY <1>5, <2>1, <2>2 DEF Stop, CtlType, AllOurs
<1>6. CASE ShutDownComputer
  BY <1>6 DEF ShutDownComputer, CtlType, AllOurs
<1>7. CASE Pause \/ Resume \/ StartAgain
  BY <1>7 DEF Pause, Resume, StartAgain, CtlType, AllOurs
<1>8. CASE SwitchUser
  BY <1>8 DEF SwitchUser, CtlType, AllOurs
<1>9. ASSUME NEW p \in proc, SpawnCore(p)
      PROVE  CtlInv'
  <2>1. p \in [kind : {"service", "core"}, session : UserSession, run : Nat, job : BOOLEAN]
    BY DEF CtlType
  <2>2. /\ [p EXCEPT !.kind = "core"] \in
              [kind : {"service", "core"}, session : UserSession, run : Nat, job : BOOLEAN]
        /\ [p EXCEPT !.kind = "core"].session = p.session
        /\ [p EXCEPT !.kind = "core"].run = p.run /\ [p EXCEPT !.kind = "core"].job = p.job
    BY <2>1
  <2>3. QED
    BY <1>9, <2>2 DEF SpawnCore, CtlType, AllOurs
<1>10. ASSUME NEW p \in proc, ProcessDies(p)
       PROVE  CtlInv'
  BY <1>10 DEF ProcessDies, CtlType, AllOurs
<1>11. QED
  BY <1>1, <1>2, <1>3, <1>4, <1>5, <1>6, <1>7, <1>8, <1>9, <1>10 DEF CtlNext

\* CtlInv holds always: unless something leaked, all that runs is of one service in
\* the session of the console.
THEOREM CtlInvariant == CtlSpec => []CtlInv
<1>1. CtlInit => CtlInv
  <2> SUFFICES ASSUME CtlInit
               PROVE  CtlInv
    OBVIOUS
  <2>1. CtlType
    BY DEF CtlInit, CtlType
  <2>2. AllOurs
    BY DEF CtlInit, AllOurs
  <2>3. QED
    BY <2>1, <2>2 DEF CtlInv
<1>2. QED
  BY <1>1, CtlStepInv, PTL DEF CtlSpec

\* A set without two different elements has at most one.
LEMMA AtMostOne ==
  ASSUME NEW S, \A x, y \in S : x = y
  PROVE  IsFiniteSet(S) /\ Cardinality(S) <= 1
<1>1. CASE S = {}
  BY <1>1, FS_EmptySet
<1>2. CASE S # {}
  <2>1. PICK x \in S : TRUE
    BY <1>2
  <2>2. S = {x}
    BY <2>1
  <2>3. IsFiniteSet({x}) /\ Cardinality({x}) = 1
    BY FS_Singleton, Zenon
  <2>4. QED
    BY <2>2, <2>3
<1>3. QED
  BY <1>1, <1>2

\* For any sessions and any number of deaths, restarts and stops there is one service
\* and one core, unless something leaked.
THEOREM CtlOneOfEach == CtlSpec => []OneOfEach
<1>1. CtlInv => OneOfEach
  <2> SUFFICES ASSUME CtlInv, ~leaked, NEW kind
               PROVE  Cardinality(Running(kind)) <= 1
    BY DEF OneOfEach
  <2>1. \A p, q \in Running(kind) : p = q
    BY OursSame DEF Running
  <2>2. QED
    BY <2>1, AtMostOne
<1>2. QED
  BY <1>1, CtlInvariant, PTL

-----------------------------------------------------------------------------
(* Sessions.  The slots change the core's user and display only where the  *)
(* monitor's cache differs, so the invariant relates the core to the cache *)
(* and says, for the flush, that user and display belong together.         *)

Env == [user : XSession \cup {0}, display : XSession \cup {0}]

CoreHasCache ==
  /\ cache.user = 0 <=> cache.display = 0
  /\ cache.display # 0 => coreEnv.display = cache.display
  /\ ~astray /\ cache.user # 0 => coreEnv.user = cache.user
  /\ ~astray /\ coreEnv.user # 0 => coreEnv.display = coreEnv.user

SessInv ==
  /\ active \in XSession \cup {0} /\ cache \in Env /\ coreEnv \in Env
  /\ CoreHasCache /\ CoreInSession

LEMMA LeastNatural ==
  ASSUME NEW T, T \subseteq Nat, T # {}
  PROVE  \E m \in T : \A n \in T : m <= n
<1>1. PICK m \in T : \A n \in T : ~(<<n, m>> \in OpToRel(<, Nat))
  BY NatLessThanWellFounded, WFMin, Zenon
<1>2. \A n \in T : <<n, m>> \in OpToRel(<, Nat) <=> n < m
  BY DEF OpToRel
<1>3. \A n \in T : ~(n < m)
  BY <1>1, <1>2, Zenon
<1> HIDE <1>1, <1>2
<1>4. \A n \in T : m <= n
  BY <1>3
<1>5. QED
  BY <1>4

\* What the monitor reads: a session with a display, and of the active session unless
\* it misread it.
LEMMA ReadTyped ==
  ASSUME SessInv
  PROVE  /\ Read \in Env /\ (Read.user = 0 <=> Read.display = 0)
         /\ Read.user \in {0, active}
         /\ active # 0 /\ ~Misread => Read = [user |-> active, display |-> active]
<1> DEFINE most == {d \in XDisplaysOnTTY(active) :
                      \A e \in XDisplaysOnTTY(active) : process[active][e] <= process[active][d]}
<1>1. most \subseteq XSession /\ most \subseteq Nat
  BY SessionsAssumption DEF XDisplaysOnTTY
<1>2. ActiveTTYXDisplay(active) = IF most = {} THEN 0 ELSE CHOOSE d \in most : \A e \in most : d <= e
  BY DEF ActiveTTYXDisplay
<1> HIDE DEF most
<1>3. most # {} => \E d \in most : \A e \in most : d <= e
  BY <1>1, LeastNatural
<1>4. ActiveTTYXDisplay(active) \in XSession \cup {0}
  BY <1>1, <1>2, <1>3
<1>5. QED
  BY <1>4, SessionsAssumption DEF SessInv, Read, Env, Misread

LEMMA SessStepInv ==
  ASSUME SessInv, [SessNext]_sessVars
  PROVE  SessInv'
<1> USE DEF SessInv
<1>1. CASE MonitorPolls
  <2>1. CASE Read.user = 0
    <3>1. UNCHANGED <<cache, coreEnv, active>> /\ astray' = (Misread \/ (astray /\ coreEnv # Read))
      BY <1>1, <2>1 DEF MonitorPolls, Poll
    <3>2. active = 0 \/ astray'
      <4>1. active = 0 \/ Misread
        BY <2>1, ReadTyped
      <4>2. QED
        BY <3>1, <4>1, Zenon
    <3>3. ~astray' => ~astray \/ coreEnv = Read
      BY <3>1
    <3>4. QED
      BY <2>1, <3>1, <3>2, <3>3, ReadTyped DEF CoreHasCache, CoreInSession, Env
  <2>2. CASE Read.user # 0
    <3>1. /\ cache' = Read /\ active' = active
          /\ coreEnv' = [user |-> IF cache.user # Read.user THEN Read.user ELSE coreEnv.user,
                         display |-> IF cache.display # Read.display THEN Read.display
                                     ELSE coreEnv.display]
          /\ astray' = (Misread \/ (astray /\ coreEnv' # Read))
      BY <1>1, <2>2 DEF MonitorPolls, Poll
    <3>2. /\ coreEnv'.display = Read.display
          /\ ~astray => coreEnv'.user = Read.user
      BY <2>2, <3>1, ReadTyped DEF CoreHasCache, Env
    <3>3. cache' \in Env /\ coreEnv' \in Env
      BY <3>1, ReadTyped DEF Env
    <3>4. ~astray' => ~Misread /\ coreEnv' = Read
      BY <3>1, <3>2, <3>3, ReadTyped DEF Env
    <3>5. Read.user = active /\ active # 0
      BY <2>2, ReadTyped
    <3>6. QED
      BY <3>1, <3>2, <3>3, <3>4, <3>5, ReadTyped DEF CoreHasCache, CoreInSession
  <2>3. QED
    BY <2>1, <2>2
<1>2. CASE MonitorFlushes
  BY <1>2 DEF MonitorFlushes, CoreHasCache, CoreInSession, Env
<1>3. CASE MonitorWakes \/ MonitorStarts
  BY <1>3 DEF MonitorWakes, MonitorStarts, CoreHasCache, CoreInSession
<1>4. CASE MonitorBreaks \/ MonitorStops
  <2>1. /\ cache' = [user |-> 0, display |-> 0] /\ UNCHANGED <<active, coreEnv, astray>>
        /\ monitor' # "wait"
    BY <1>4 DEF MonitorBreaks, MonitorStops
  <2>2. QED
    BY <2>1 DEF CoreHasCache, CoreInSession, Env
<1>5. CASE SwitchSession
  BY <1>5 DEF SwitchSession, CoreHasCache, CoreInSession
<1>6. ASSUME NEW u \in XSession, SetUid(u)
      PROVE  SessInv'
  <2>1. /\ coreEnv' = [coreEnv EXCEPT !.user = u] /\ astray' = (astray \/ u # cache.user)
        /\ UNCHANGED <<active, reported, monitor, cache>>
    BY <1>6 DEF SetUid
  <2>2. coreEnv' \in Env /\ coreEnv'.user = u /\ coreEnv'.display = coreEnv.display
    BY <2>1 DEF Env
  <2>3. u # 0
    BY SessionsAssumption
  <2>4. CASE astray'
    BY <2>1, <2>2, <2>4 DEF CoreHasCache, CoreInSession
  <2>5. CASE ~astray'
    <3>1. ~astray /\ u = cache.user /\ coreEnv.user = u /\ coreEnv' = coreEnv
      BY <2>1, <2>2, <2>3, <2>5 DEF CoreHasCache, Env
    <3>2. QED
      BY <2>1, <2>5, <3>1 DEF CoreHasCache, CoreInSession
  <2>6. QED
    BY <2>4, <2>5
<1>7. CASE UNCHANGED sessVars
  BY <1>7 DEF sessVars, CoreHasCache, CoreInSession
<1>8. QED
  BY <1>1, <1>2, <1>3, <1>4, <1>5, <1>6, <1>7 DEF SessNext

SessSpec == SessInit /\ [][SessNext]_sessVars

\* SessInv holds always: what the monitor remembers is what the core was last given.
THEOREM SessInvariant == SessSpec => []SessInv
<1>1. SessInit => SessInv
  BY DEF SessInit, SessInv, CoreHasCache, CoreInSession, Env
<1>2. QED
  BY <1>1, SessStepInv, PTL DEF SessSpec

\* For any sessions, terminals and numbers of changes, a core that the monitor is not
\* about to move has the user and the display of the active session.
THEOREM SessCoreInSession == SessSpec => []CoreInSession
<1>1. SessInv => CoreInSession
  BY DEF SessInv
<1>2. QED
  BY <1>1, SessInvariant, PTL
-----------------------------------------------------------------------------
(* Sequences of calls *)

LEMMA LastOfAppend ==
  ASSUME NEW S, NEW s \in Seq(S), NEW x \in S
  PROVE  /\ Append(s, x) \in Seq(S) /\ Append(s, x) # <<>>
         /\ Append(s, x)[Len(Append(s, x))] = x
         /\ s # <<>> => Append(s, x)[1] = s[1]
         /\ s = <<>> => Append(s, x)[1] = x
<1>1. /\ Append(s, x) \in Seq(S) /\ Append(s, x) # <<>> /\ Len(s) \in Nat
      /\ Len(Append(s, x)) = Len(s) + 1 /\ Append(s, x)[Len(s) + 1] = x
      /\ \A i \in 1..Len(s) : Append(s, x)[i] = s[i]
  OBVIOUS
<1>2. s # <<>> => 1 \in 1..Len(s)
  OBVIOUS
<1>3. s = <<>> => Len(s) + 1 = 1
  OBVIOUS
<1>4. QED
  BY <1>1, <1>2, <1>3

LEMMA LastOfTail ==
  ASSUME NEW S, NEW s \in Seq(S), s # <<>>
  PROVE  /\ Tail(s) \in Seq(S) /\ Head(s) \in S /\ Head(s) = s[1]
         /\ Tail(s) # <<>> => Tail(s)[Len(Tail(s))] = s[Len(s)]
         /\ Tail(s) = <<>> => s[Len(s)] = Head(s)
         /\ \A i \in 1..Len(Tail(s)) : i + 1 \in 1..Len(s) /\ Tail(s)[i] = s[i + 1]
<1> DEFINE r == Tail(s)
           n == Len(s)
<1>1. /\ r \in Seq(S) /\ Len(r) = n - 1 /\ Head(s) \in S /\ Head(s) = s[1]
      /\ \A i \in 1..Len(r) : r[i] = s[i + 1]
  BY HeadTailProperties
<1>2. n \in Nat /\ n # 0
  OBVIOUS
<1> HIDE DEF r, n
<1>3. ASSUME NEW i \in 1..Len(r)
      PROVE  i + 1 \in 1..n
  BY <1>1, <1>2, <1>3
<1>4. ASSUME r # <<>>
      PROVE  r[Len(r)] = s[n]
  <2>1. Len(r) \in 1..Len(r) /\ Len(r) + 1 = n
    <3>1. Len(r) # 0 /\ Len(r) \in Nat
      BY <1>1, <1>4, EmptySeq
    <3>2. QED
      BY <1>1, <1>2, <3>1
  <2>2. QED
    BY <1>1, <2>1
<1>5. r = <<>> => n = 1
  <2>1. r = <<>> => Len(r) = 0
    OBVIOUS
  <2>2. QED
    BY <1>1, <1>2, <2>1
<1>6. QED
  BY <1>1, <1>3, <1>4, <1>5 DEF r, n

-----------------------------------------------------------------------------
(* Notices.  One check at a time is under way, and none once a required    *)
(* update is known.                                                        *)

NoInv ==
  /\ update \in [enabled : BOOLEAN, asked : Nat, newer : BOOLEAN, required : BOOLEAN,
                 boxes : Nat, overlap : BOOLEAN]
  /\ ~update.overlap =>
       /\ update.asked <= 1 /\ update.boxes <= 1
       /\ update.required => update.asked = 0
       /\ update.boxes > 0 => update.required

\* Without two checks at once there is one at most, and none after a required update.
THEOREM NoticesInvariant == NoticesSpec => []NoInv
<1>1. NoticesInit => NoInv
  BY DEF NoticesInit, NoUpdate, NoInv
<1>2. NoInv /\ [NoticesNext]_noticeVars => NoInv'
  <2> SUFFICES ASSUME NoInv, [NoticesNext]_noticeVars
               PROVE  NoInv'
    OBVIOUS
  <2> DEFINE T == [enabled : BOOLEAN, asked : Nat, newer : BOOLEAN, required : BOOLEAN,
                   boxes : Nat, overlap : BOOLEAN]
  <2>1. update \in T
    BY DEF NoInv
  <2>2. ASSUME NEW u \in T, update' = CheckUpdate(u), u.asked = update.asked,
               u.boxes = update.boxes, u.required = update.required, u.overlap = update.overlap
        PROVE  NoInv'
    <3> DEFINE more == u.asked + 1
               two == u.overlap \/ u.asked > 0
    <3>1. CASE ~(u.enabled /\ ~u.required)
      BY <2>2, <3>1 DEF CheckUpdate, NoInv
    <3>2. CASE u.enabled /\ ~u.required
      <4>1. update' = [u EXCEPT !.asked = more, !.overlap = two]
        BY <2>2, <3>2 DEF CheckUpdate
      <4>2. more \in Nat /\ two \in BOOLEAN
        BY <2>2
      <4>3. ~two => ~u.overlap /\ more = 1
        BY <2>2
      <4> HIDE DEF more, two
      <4>4. /\ update' \in T /\ update'.asked = more /\ update'.overlap = two
            /\ update'.boxes = u.boxes /\ update'.required = u.required
        BY <2>2, <4>1, <4>2
      <4>5. QED
        BY <2>2, <3>2, <4>3, <4>4 DEF NoInv
    <3>3. QED
      BY <3>1, <3>2
  <2>3. CASE ShowActivationPage
    BY <2>1, <2>2, <2>3 DEF ShowActivationPage, Look
  <2>4. CASE OnRpcVersionCheck
    <3> DEFINE u == [update EXCEPT !.enabled = TRUE]
    <3>1. /\ u \in T /\ u.asked = update.asked /\ u.boxes = update.boxes
          /\ u.required = update.required /\ u.overlap = update.overlap
      BY <2>1
    <3>2. update' = CheckUpdate(u)
      BY <2>4 DEF OnRpcVersionCheck, Look
    <3> HIDE DEF u
    <3>3. QED
      BY <2>2, <3>1, <3>2
  <2> DEFINE less == update.asked - 1
             boxes == update.boxes + 1
  <2>5. ASSUME update.asked > 0
        PROVE  /\ less \in Nat /\ boxes \in Nat
               /\ ~update.overlap => less = 0 /\ boxes = 1 /\ ~update.required
    <3>1. update.asked \in Nat /\ update.boxes \in Nat
      BY <2>1
    <3>2. ~update.overlap => update.asked = 1 /\ ~update.required
      BY <2>5, <3>1 DEF NoInv
    <3>3. ~update.overlap => update.boxes = 0
      BY <3>1, <3>2 DEF NoInv
    <3>4. QED
      BY <2>5, <3>1, <3>2, <3>3
  <2> HIDE DEF less, boxes
  <2>6. CASE CheckAnswered
    <3>1. update.asked > 0 /\ update' = [update EXCEPT !.asked = less]
      BY <2>6 DEF CheckAnswered, less
    <3>2. /\ update' \in T /\ update'.asked = less /\ update'.boxes = update.boxes
          /\ update'.required = update.required /\ update'.overlap = update.overlap
      BY <2>1, <2>5, <3>1
    <3>3. QED
      BY <2>5, <3>1, <3>2 DEF NoInv
  <2>7. CASE OptionalUpdate
    <3>1. update.asked > 0 /\ update' = [update EXCEPT !.asked = less, !.newer = TRUE]
      BY <2>7 DEF OptionalUpdate, less
    <3>2. /\ update' \in T /\ update'.asked = less /\ update'.boxes = update.boxes
          /\ update'.required = update.required /\ update'.overlap = update.overlap
      BY <2>1, <2>5, <3>1
    <3>3. QED
      BY <2>5, <3>1, <3>2 DEF NoInv
  <2>8. CASE RequiredUpdate
    <3>1. /\ update.asked > 0
          /\ update' = [update EXCEPT !.asked = less, !.required = TRUE, !.boxes = boxes]
      BY <2>8 DEF RequiredUpdate, less, boxes
    <3>2. /\ update' \in T /\ update'.asked = less /\ update'.boxes = boxes
          /\ update'.required /\ update'.overlap = update.overlap
      BY <2>1, <2>5, <3>1
    <3>3. QED
      BY <2>5, <3>1, <3>2 DEF NoInv
  <2>9. CASE MessageClosed
    BY <2>9 DEF MessageClosed, NoUpdate, NoInv
  <2>10. ASSUME UNCHANGED update
        PROVE  NoInv'
    BY <2>10 DEF NoInv
  <2>11. QED
    BY <2>3, <2>4, <2>6, <2>7, <2>8, <2>9, <2>10
       DEF NoticesNext, UploadLogFile, AcceptGDPR, DismissDialog, UploadFinished, noticeVars
<1>3. QED
  BY <1>1, <1>2, PTL DEF NoticesSpec

\* A version that is no longer supported is reported by one message (MessageOnce).
THEOREM NoticesMessageOnce == NoticesSpec => []MessageOnce
<1>1. NoInv => MessageOnce
  BY DEF NoInv, MessageOnce
<1>2. QED
  BY <1>1, NoticesInvariant, PTL

-----------------------------------------------------------------------------
(* Login.  While the connection comes up, the update waits in a hook; once *)
(* it is up, the last update sent is for the screen of the window.         *)

Config == [token : BOOLEAN, user : BOOLEAN, screen : Nat]
Switches == [asked : Seq(Nat), answered : Seq(Nat)]

LoginTyped ==
  /\ app \in Config /\ saved \in Config /\ auth \in Seq(Nat) /\ told \in Nat /\ given \in Nat
  /\ switch \in Switches
  /\ DOMAIN past = {"failed", "deaf", "late", "joined"}

\* The screen the service knows when it has heard all.
ToBeTold == IF auth = <<>> THEN told ELSE auth[Len(auth)]

Joined ==
  past.joined /\ ~past.late =>
    /\ wamp = "connecting" => hook \in {"checked", "set"}
    /\ wamp = "up" /\ hook # "checked" => ToBeTold = app.screen

LgInv == LoginTyped /\ Joined

LEMMA TakenIsSeq ==
  ASSUME NEW s \in Seq(Nat), NEW i \in DOMAIN s
  PROVE  Taken(s, i) \in Seq(Nat) /\ s[i] \in Nat
<1>1. Len(s) \in Nat /\ i \in 1..Len(s) /\ \A j \in 1..Len(s) : s[j] \in Nat
  OBVIOUS
<1> DEFINE n == Len(s) - 1
           rest(j) == IF j < i THEN s[j] ELSE s[j + 1]
<1>2. n \in Nat /\ n + 1 = Len(s)
  BY <1>1
<1> HIDE DEF n
<1>3. ASSUME NEW j \in 1..n
      PROVE  rest(j) \in Nat
  <2>1. j \in 1..Len(s) /\ j + 1 \in 1..Len(s)
    BY <1>2
  <2>2. QED
    BY <1>1, <2>1
<1> HIDE DEF rest
<1>4. [j \in 1..n |-> rest(j)] \in Seq(Nat)
  BY <1>2, <1>3
<1>5. Taken(s, i) = [j \in 1..n |-> rest(j)]
  BY DEF Taken, n, rest
<1>6. QED
  BY <1>1, <1>4, <1>5

\* A step leaves what a registration and the connection have to do with each other.
Unrelated ==
  /\ app'.screen = app.screen /\ UNCHANGED <<wamp, hook, auth, told>>
  /\ past'.joined = past.joined /\ past'.late = past.late

LEMMA UnrelatedKeepsJoined ==
  ASSUME LgInv, Unrelated
  PROVE  Joined'
<1>1. Joined
  BY DEF LgInv
<1>2. ToBeTold' = ToBeTold
  BY DEF Unrelated, ToBeTold
<1>3. QED
  BY <1>1, <1>2, Zenon DEF Joined, Unrelated

\* The login itself: tokens, clicks, polls and logouts.
LEMMA LoginStep ==
  ASSUME LgInv,
         \/ TokenAnswered \/ TokenFails \/ ClickForToken \/ ClickLogin
         \/ LoggedIn \/ NotYetLoggedIn \/ PollFails \/ PollDenied \/ OnRetryGetUserId
         \/ LoginFail \/ AuthLogout
  PROVE  LgInv'
<1>1. LoginTyped
  BY DEF LgInv
<1> SUFFICES LoginTyped' /\ Unrelated
  BY UnrelatedKeepsJoined DEF LgInv
<1>2. CASE TokenAnswered \/ TokenFails \/ ClickForToken \/ OnRetryGetUserId \/ NotYetLoggedIn
  BY <1>1, <1>2 DEF TokenAnswered, TokenFails, ClickForToken, OnRetryGetUserId,
                    NotYetLoggedIn, LoginTyped, Config, Unrelated
<1>3. CASE ClickLogin \/ PollFails \/ LoginFail
  <2>1. \E f, d : past' = [past EXCEPT !.failed = f] \/ past' = [past EXCEPT !.deaf = d]
    BY <1>3 DEF ClickLogin, PollFails, LoginFail
  <2>2. /\ DOMAIN past' = DOMAIN past /\ past'.joined = past.joined /\ past'.late = past.late
    BY <1>1, <2>1 DEF LoginTyped
  <2>3. QED
    BY <1>1, <1>3, <2>2 DEF ClickLogin, PollFails, LoginFail, LoginTyped, Unrelated
<1>4. CASE LoggedIn
  <2>1. /\ app' = [app EXCEPT !.token = TRUE, !.user = TRUE] /\ saved' = app'
        /\ switch' = [switch EXCEPT !.asked = Append(switch.asked, app.screen)]
        /\ UNCHANGED <<given, wamp, hook, auth, told, past>>
    BY <1>4 DEF LoggedIn, SwitchProfile
  <2>2. app' \in Config /\ app'.screen = app.screen /\ app.screen \in Nat
    BY <1>1, <2>1 DEF LoginTyped, Config
  <2>3. switch.asked \in Seq(Nat)
    BY <1>1 DEF LoginTyped, Switches
  <2>4. Append(switch.asked, app.screen) \in Seq(Nat)
    BY <2>2, <2>3
  <2>5. switch' \in Switches
    BY <1>1, <2>1, <2>4 DEF LoginTyped, Switches
  <2>6. QED
    BY <1>1, <2>1, <2>2, <2>5 DEF LoginTyped, Unrelated
<1>5. CASE PollDenied \/ AuthLogout
  <2>1. /\ app' = [app EXCEPT !.token = FALSE, !.user = FALSE] /\ saved' = app'
        /\ UNCHANGED <<switch, given, wamp, hook, auth, told>>
    BY <1>5 DEF PollDenied, AuthLogout, InvalidAuth
  <2>2. app' \in Config /\ app'.screen = app.screen
    BY <1>1, <2>1 DEF LoginTyped, Config
  <2>3. past' = past \/ past' = [past EXCEPT !.failed = TRUE]
    BY <1>5 DEF PollDenied, AuthLogout
  <2>4. DOMAIN past' = DOMAIN past /\ past'.joined = past.joined /\ past'.late = past.late
    BY <1>1, <2>3 DEF LoginTyped
  <2>5. QED
    BY <1>1, <2>1, <2>2, <2>4 DEF LoginTyped, Unrelated
<1>6. QED
  BY <1>2, <1>3, <1>4, <1>5

\* The cloud answers a registration, or does not.
LEMMA SwitchStep ==
  ASSUME LgInv, NEW i \in DOMAIN switch.asked, CloudSwitches(i) \/ SwitchFails(i)
  PROVE  LgInv'
<1> DEFINE a == switch.asked
           d == switch.answered
<1>1. LoginTyped /\ a \in Seq(Nat) /\ d \in Seq(Nat) /\ given \in Nat
  BY DEF LgInv, LoginTyped, Switches
<1>2. Taken(a, i) \in Seq(Nat) /\ a[i] \in Nat
  BY <1>1, TakenIsSeq
<1> SUFFICES LoginTyped' /\ Unrelated
  BY UnrelatedKeepsJoined DEF LgInv
<1>3. CASE CloudSwitches(i)
  <2> DEFINE screen == IF a[i] = 0 THEN given + 1 ELSE a[i]
  <2>1. screen \in Nat
    BY <1>1, <1>2
  <2>2. /\ switch' = [asked |-> Taken(a, i), answered |-> Append(d, screen)]
        /\ given' = IF a[i] = 0 THEN screen ELSE given
        /\ UNCHANGED <<app, saved, wamp, hook, auth, told, past>>
    BY <1>3 DEF CloudSwitches
  <2> HIDE DEF screen
  <2>3. Append(d, screen) \in Seq(Nat)
    BY <1>1, <2>1, LastOfAppend
  <2> HIDE DEF a, d
  <2>4. switch' \in Switches /\ given' \in Nat
    BY <1>1, <1>2, <2>1, <2>2, <2>3 DEF Switches
  <2>5. QED
    BY <1>1, <2>2, <2>4 DEF LoginTyped, Unrelated
<1>4. CASE SwitchFails(i)
  <2>1. /\ switch' = [switch EXCEPT !.asked = Taken(a, i)]
        /\ UNCHANGED <<app, saved, given, wamp, hook, auth, told, past>>
    BY <1>4 DEF SwitchFails
  <2>2. switch' \in Switches
    BY <1>1, <1>2, <2>1 DEF LoginTyped, Switches
  <2>3. QED
    BY <1>1, <2>1, <2>2 DEF LoginTyped, Unrelated
<1>5. QED
  BY <1>3, <1>4

\* The window takes the answer: the service is told, or the hook is to be set.
LEMMA SwitchFinishedStep ==
  ASSUME LgInv, NEW i \in DOMAIN switch.answered, OnSwitchProfileFinished(i)
  PROVE  LgInv'
<1> DEFINE d == switch.answered
           screen == d[i]
<1>1. LoginTyped /\ d \in Seq(Nat)
  BY DEF LgInv, LoginTyped, Switches
<1>2. Taken(d, i) \in Seq(Nat) /\ screen \in Nat
  BY <1>1, TakenIsSeq
<1>3. /\ app' = [app EXCEPT !.screen = screen]
      /\ switch' = [switch EXCEPT !.answered = Taken(d, i)]
      /\ past' = [past EXCEPT !.joined = TRUE]
      /\ UNCHANGED <<saved, given, wamp, told>>
  BY DEF OnSwitchProfileFinished
<1>4. /\ wamp = "up" => auth' = Append(auth, app'.screen) /\ hook' = hook
      /\ wamp # "up" => auth' = auth
      /\ wamp # "up" /\ wamp # "down" => hook' = "checked"
  BY DEF OnSwitchProfileFinished
<1> HIDE DEF screen
<1>5. app' \in Config /\ app'.screen = screen
  BY <1>1, <1>2, <1>3 DEF LoginTyped, Config
<1>6. switch' \in Switches
  BY <1>1, <1>2, <1>3 DEF LoginTyped, Switches
<1>7. DOMAIN past' = DOMAIN past
  BY <1>3
<1>8. auth \in Seq(Nat)
  BY <1>1 DEF LoginTyped
<1>9. CASE wamp = "up"
  <2>1. auth' = Append(auth, screen)
    BY <1>4, <1>5, <1>9
  <2>2. auth' \in Seq(Nat) /\ auth' # <<>> /\ auth'[Len(auth')] = screen
    BY <1>2, <1>8, <2>1, LastOfAppend
  <2>3. ToBeTold' = app'.screen
    BY <1>5, <2>2 DEF ToBeTold
  <2>4. LoginTyped'
    BY <1>1, <1>3, <1>5, <1>6, <1>7, <2>2 DEF LoginTyped
  <2>5. QED
    BY <1>3, <1>9, <2>3, <2>4 DEF LgInv, Joined
<1>10. CASE wamp # "up"
  <2>1. LoginTyped'
    BY <1>1, <1>3, <1>4, <1>5, <1>6, <1>7, <1>10 DEF LoginTyped
  <2>2. wamp' # "up" /\ (wamp' = "connecting" => hook' = "checked")
    BY <1>3, <1>4, <1>10
  <2>3. QED
    BY <2>1, <2>2 DEF LgInv, Joined
<1>11. QED
  BY <1>9, <1>10

\* The hook is set, and the connection comes up, goes down or delivers.
LEMMA ConnectionStep ==
  ASSUME LgInv, SetHook \/ Connected \/ Disconnected \/ AuthUpdate
  PROVE  LgInv'
<1>1. LoginTyped /\ Joined /\ auth \in Seq(Nat) /\ app.screen \in Nat
  BY DEF LgInv, LoginTyped, Config
<1>2. CASE SetHook
  <2>1. /\ hook' = "set" /\ past' = [past EXCEPT !.late = past.late \/ wamp # "connecting"]
        /\ UNCHANGED <<app, saved, switch, given, wamp, auth, told>>
    BY <1>2 DEF SetHook
  <2>2. /\ DOMAIN past' = DOMAIN past /\ past'.joined = past.joined
        /\ past'.late = (past.late \/ wamp # "connecting")
    BY <1>1, <2>1 DEF LoginTyped
  <2>3. LoginTyped'
    BY <1>1, <2>1, <2>2 DEF LoginTyped
  <2>4. ~past'.late => wamp' = "connecting"
    BY <2>1, <2>2, Zenon
  <2>5. Joined'
    BY <2>1, <2>4 DEF Joined
  <2>6. QED
    BY <2>3, <2>5 DEF LgInv
<1>3. CASE Connected
  <2>1. /\ wamp = "connecting" /\ wamp' = "up"
        /\ auth' = IF hook = "set" THEN Append(auth, app.screen) ELSE auth
        /\ UNCHANGED <<app, saved, switch, given, hook, told, past>>
    BY <1>3 DEF Connected
  <2>2. /\ Append(auth, app.screen) \in Seq(Nat) /\ Append(auth, app.screen) # <<>>
        /\ Append(auth, app.screen)[Len(Append(auth, app.screen))] = app.screen
    BY <1>1, LastOfAppend
  <2>3. LoginTyped'
    BY <1>1, <2>1, <2>2 DEF LoginTyped
  <2>4. hook = "set" => ToBeTold' = app'.screen
    BY <2>1, <2>2 DEF ToBeTold
  <2>5. past.joined /\ ~past.late => hook \in {"checked", "set"}
    BY <1>1, <2>1 DEF Joined
  <2>6. Joined'
    BY <2>1, <2>4, <2>5 DEF Joined
  <2>7. QED
    BY <2>3, <2>6 DEF LgInv
<1>4. CASE Disconnected
  <2>1. <<>> \in Seq(Nat)
    OBVIOUS
  <2>2. LoginTyped'
    BY <1>1, <1>4, <2>1 DEF Disconnected, LoginTyped
  <2>3. Joined'
    BY <1>4 DEF Disconnected, Joined
  <2>4. QED
    BY <2>2, <2>3 DEF LgInv
<1>5. CASE AuthUpdate
  <2>1. /\ auth # <<>> /\ told' = Head(auth) /\ auth' = Tail(auth)
        /\ UNCHANGED <<app, saved, switch, given, wamp, hook, past>>
    BY <1>5 DEF AuthUpdate
  <2>2. /\ auth' \in Seq(Nat) /\ told' \in Nat
        /\ auth' # <<>> => auth'[Len(auth')] = auth[Len(auth)]
        /\ auth' = <<>> => auth[Len(auth)] = told'
    BY <1>1, <2>1, LastOfTail
  <2>3. LoginTyped'
    BY <1>1, <2>1, <2>2 DEF LoginTyped
  <2>4. ToBeTold' = ToBeTold
    BY <2>1, <2>2 DEF ToBeTold
  <2>5. Joined'
    BY <1>1, <2>1, <2>4 DEF Joined
  <2>6. QED
    BY <2>3, <2>5 DEF LgInv
<1>6. QED
  BY <1>2, <1>3, <1>4, <1>5

\* A new run of the window has not registered yet.
LEMMA RestartStep ==
  ASSUME LgInv, RestartApp
  PROVE  LgInv'
<1>1. /\ LoginTyped /\ switch \in Switches /\ switch.asked \in Seq(Nat)
      /\ app \in Config /\ saved \in Config
  BY DEF LgInv, LoginTyped, Switches
<1>2. PICK config \in {app, saved} :
        /\ app' = config /\ saved' = config
        /\ \/ switch' = [asked |-> Append(switch.asked, config.screen), answered |-> <<>>]
           \/ switch' = [switch EXCEPT !.answered = <<>>]
  BY DEF RestartApp
<1>3. config \in Config /\ config.screen \in Nat
  BY <1>1, <1>2 DEF Config
<1>4. Append(switch.asked, config.screen) \in Seq(Nat)
  BY <1>1, <1>3
<1>5. <<>> \in Seq(Nat)
  OBVIOUS
<1>6. switch' \in Switches
  <2> DEFINE N == Seq(Nat)
             asked == Append(switch.asked, config.screen)
             none == <<>>
  <2>1. /\ asked \in N /\ none \in N /\ switch \in [asked : N, answered : N]
    BY <1>1, <1>4, <1>5 DEF Switches
  <2>2. \/ switch' = [asked |-> asked, answered |-> none]
        \/ switch' = [switch EXCEPT !.answered = none]
    BY <1>2
  <2> HIDE DEF N, asked, none
  <2>3. switch' \in [asked : N, answered : N]
    BY <2>1, <2>2
  <2>4. QED
    BY <2>3 DEF Switches, N
<1>7. /\ auth' = <<>> /\ UNCHANGED <<given, told>>
      /\ past' = [failed |-> FALSE, deaf |-> FALSE, late |-> FALSE, joined |-> FALSE]
  BY DEF RestartApp
<1>8. LoginTyped'
  BY <1>1, <1>2, <1>3, <1>5, <1>6, <1>7 DEF LoginTyped
<1>9. ~past'.joined
  BY <1>7
<1>10. QED
  BY <1>8, <1>9 DEF LgInv, Joined

\* The update waits in the hook, or the last one on its way is for the window's screen.
THEOREM LoginInvariant == LoginSpec => []LgInv
<1>1. LoginInit => LgInv
  <2> SUFFICES ASSUME LoginInit
               PROVE  LgInv
    OBVIOUS
  <2>1. <<>> \in Seq(Nat)
    OBVIOUS
  <2>2. QED
    BY <2>1 DEF LoginInit, NoConfig, LgInv, LoginTyped, Joined, Config, Switches
<1>2. LgInv /\ [LoginNext]_loginVars => LgInv'
  <2> SUFFICES ASSUME LgInv, [LoginNext]_loginVars
               PROVE  LgInv'
    OBVIOUS
  <2>1. CASE UNCHANGED loginVars
    BY <2>1 DEF loginVars, LgInv, LoginTyped, Joined, ToBeTold
  <2>2. QED
    BY <2>1, LoginStep, SwitchStep, SwitchFinishedStep, ConnectionStep, RestartStep
       DEF LoginNext
<1>3. QED
  BY <1>1, <1>2, PTL DEF LoginSpec

\* The service knows the screen that was registered when it has heard all (ServiceTold).
THEOREM LoginServiceTold == LoginSpec => []ServiceTold
<1>1. LgInv => ServiceTold
  <2> SUFFICES ASSUME LgInv, wamp = "up", auth = <<>>, hook # "checked", past.joined
               PROVE  told = app.screen \/ past.late
    BY DEF ServiceTold
  <2>1. ToBeTold = told
    BY DEF ToBeTold
  <2>2. QED
    BY <2>1 DEF LgInv, Joined
<1>2. QED
  BY <1>1, LoginInvariant, PTL

-----------------------------------------------------------------------------
(* Window.  What is published and not handled has no error in it that is   *)
(* not true any more; and a window that missed what was published has its  *)
(* hello to come, or had it answered while the websocket was shut down.    *)

\* The error that is shown when all that was published is handled.
Shows ==
  IF events = <<>> THEN ui.mode
  ELSE IF events[Len(events)] = "online" THEN "none" ELSE "cloud"

HelloNext == rpcCalls # <<>> /\ rpcCalls[1] = "hello"

Windows ==
  [mode : {"none", "cloud", "service"}, retrying : BOOLEAN, wire : BOOLEAN,
   rpc : {"connecting", "up", "failed"}, keepAlive : BOOLEAN]

WinTyped ==
  /\ ui \in Windows /\ heard \in BOOLEAN
  /\ rpcCalls \in Seq(RpcCall) /\ events \in Seq(RpcEvent) /\ link \in Link
  /\ unsaid \in BOOLEAN

Silent == events = <<>> /\ ui.mode = "none" /\ ~heard

Conversation ==
  /\ heard => ui.wire
  /\ ui.rpc = "connecting" => Silent /\ rpcCalls = <<>>
  /\ ui.rpc = "up" /\ ui.wire /\ ~heard =>
       /\ Silent /\ Len(rpcCalls) >= 2
       /\ rpcCalls[1] = "subscribe" /\ rpcCalls[2] = "hello"

\* It was published that the websocket is down.
Down == {"ending", "failed", "refused"}

Truthful ==
  ui.rpc = "up" /\ heard /\ (\A i \in 1..Len(events) : events[i] # "close") =>
    /\ link = "up" => Shows = "none"
    /\ link \in Down => Shows = "cloud" \/ HelloNext \/ unsaid

WinInv == WinTyped /\ Conversation /\ Truthful

LEMMA FailedIs ==
  ASSUME NEW u \in Windows
  PROVE  /\ Failed(u) \in Windows /\ Failed(u).rpc = "failed" /\ Failed(u).wire = u.wire
         /\ [u EXCEPT !.wire = FALSE] \in Windows /\ ~[u EXCEPT !.wire = FALSE].wire
         /\ [u EXCEPT !.wire = FALSE].rpc = u.rpc /\ [u EXCEPT !.wire = FALSE].mode = u.mode
BY DEF Failed, SetMode, Windows

\* A window whose calls fail any more has nothing to say about the service.
LEMMA NothingToSay ==
  ASSUME WinTyped', ui'.rpc = "failed", heard' => ui'.wire
  PROVE  WinInv'
BY DEF WinInv, Conversation, Truthful

\* What is published comes to a window that is heard, behind what is on its way.
LEMMA PublishedIsLast ==
  ASSUME WinTyped, NEW x \in RpcEvent, Publish(<<x>>)
  PROVE  /\ events' \in Seq(RpcEvent)
         /\ ~heard => events' = events
         /\ heard => /\ events' # <<>> /\ events'[Len(events')] = x
                     /\ Len(events') \in 1..Len(events')
<1>1. events \in Seq(RpcEvent)
  BY DEF WinTyped
<1>2. CASE heard
  <2>1. events' = events \o <<x>>
    BY <1>2 DEF Publish
  <2> HIDE DEF RpcEvent
  <2>2. events \o <<x>> = Append(events, x)
    BY <1>1
  <2>3. /\ events' \in Seq(RpcEvent) /\ events' # <<>> /\ events'[Len(events')] = x
    BY <1>1, <2>1, <2>2, LastOfAppend
  <2>4. Len(events') \in 1..Len(events')
    BY <2>3
  <2>5. QED
    BY <1>2, <2>3, <2>4
<1>3. CASE ~heard
  BY <1>1, <1>3 DEF Publish
<1>4. QED
  BY <1>2, <1>3

LEMMA CallAppended ==
  ASSUME WinTyped, NEW c \in RpcCall, rpcCalls' = Append(rpcCalls, c)
  PROVE  /\ rpcCalls' \in Seq(RpcCall) /\ (HelloNext => HelloNext')
         /\ Len(rpcCalls) >= 2 =>
              /\ Len(rpcCalls') >= 2 /\ rpcCalls'[1] = rpcCalls[1] /\ rpcCalls'[2] = rpcCalls[2]
<1>1. rpcCalls \in Seq(RpcCall)
  BY DEF WinTyped
<1> HIDE DEF RpcCall
<1>2. /\ rpcCalls' \in Seq(RpcCall) /\ rpcCalls' # <<>>
      /\ rpcCalls # <<>> => rpcCalls'[1] = rpcCalls[1]
  BY <1>1, LastOfAppend
<1>3. /\ Len(rpcCalls) \in Nat /\ Len(rpcCalls') = Len(rpcCalls) + 1
      /\ \A i \in 1..Len(rpcCalls) : rpcCalls'[i] = rpcCalls[i]
  BY <1>1
<1>4. Len(rpcCalls) >= 2 => 1 \in 1..Len(rpcCalls) /\ 2 \in 1..Len(rpcCalls)
  BY <1>3
<1>5. QED
  BY <1>2, <1>3, <1>4 DEF HelloNext

LEMMA CallTaken ==
  ASSUME WinTyped, rpcCalls # <<>>, rpcCalls' = Tail(rpcCalls)
  PROVE  /\ rpcCalls' \in Seq(RpcCall) /\ Head(rpcCalls) = rpcCalls[1]
         /\ Len(rpcCalls) >= 2 => rpcCalls' # <<>> /\ rpcCalls'[1] = rpcCalls[2]
<1>1. rpcCalls \in Seq(RpcCall)
  BY DEF WinTyped
<1> HIDE DEF RpcCall
<1>2. /\ rpcCalls' \in Seq(RpcCall) /\ Head(rpcCalls) = rpcCalls[1]
      /\ \A i \in 1..Len(rpcCalls') : rpcCalls'[i] = rpcCalls[i + 1]
  BY <1>1, LastOfTail
<1>3. Len(rpcCalls') = Len(rpcCalls) - 1 /\ Len(rpcCalls) \in Nat
  BY <1>1
<1>4. Len(rpcCalls) >= 2 => 1 \in 1..Len(rpcCalls') /\ 1 + 1 = 2
  BY <1>3
<1>5. Len(rpcCalls) >= 2 => rpcCalls' # <<>>
  <2>1. rpcCalls' = <<>> => Len(rpcCalls') = 0
    OBVIOUS
  <2>2. QED
    BY <1>3, <2>1
<1>6. QED
  BY <1>2, <1>4, <1>5

\* The connection is made, breaks, or a call on it fails.
LEMMA RpcStep ==
  ASSUME WinInv,
         \/ ProxyConnected \/ RpcConnectFails \/ WireLost \/ CallLost \/ CallTimesOut
         \/ KeepAlive \/ RetryCloud
  PROVE  WinInv'
<1>1. WinTyped /\ Conversation /\ Truthful /\ ui \in Windows
  BY DEF WinInv, WinTyped
<1>2. CASE ProxyConnected
  <2>1. /\ ui.rpc = "connecting" /\ ui.wire /\ ui' = [ui EXCEPT !.rpc = "up"]
        /\ rpcCalls' = rpcCalls \o <<"subscribe", "hello">>
        /\ UNCHANGED <<heard, events, link, unsaid>>
    BY <1>2 DEF ProxyConnected
  <2>2. Silent /\ rpcCalls = <<>>
    BY <1>1, <2>1 DEF Conversation
  <2>3. <<>> \o <<"subscribe", "hello">> = <<"subscribe", "hello">>
    OBVIOUS
  <2>4. rpcCalls' = <<"subscribe", "hello">>
    BY <2>1, <2>2, <2>3, Zenon
  <2>5. /\ rpcCalls' \in Seq(RpcCall) /\ Len(rpcCalls') >= 2
        /\ rpcCalls'[1] = "subscribe" /\ rpcCalls'[2] = "hello"
    BY <2>4 DEF RpcCall
  <2>6. /\ ui' \in Windows /\ ui'.rpc = "up" /\ ui'.mode = ui.mode /\ ui'.wire
    BY <1>1, <2>1 DEF Windows
  <2>7. Silent' /\ ~heard'
    BY <2>1, <2>2, <2>6 DEF Silent
  <2>8. WinTyped'
    BY <1>1, <2>1, <2>5, <2>6 DEF WinTyped
  <2>9. QED
    BY <2>5, <2>6, <2>7, <2>8 DEF WinInv, Conversation, Truthful
<1>3. CASE RpcConnectFails
  <2>1. /\ ui.rpc = "connecting" /\ ui' = Failed([ui EXCEPT !.wire = FALSE])
        /\ UNCHANGED <<heard, rpcCalls, events, link, unsaid>>
    BY <1>3 DEF RpcConnectFails
  <2>2. ui' \in Windows /\ ui'.rpc = "failed"
    BY <1>1, <2>1, FailedIs
  <2>3. ~heard'
    BY <1>1, <2>1 DEF Conversation, Silent
  <2>4. WinTyped'
    BY <1>1, <2>1, <2>2 DEF WinTyped
  <2>5. QED
    BY <2>2, <2>3, <2>4, NothingToSay
<1>4. CASE WireLost
  <2>1. /\ ui' = [ui EXCEPT !.wire = FALSE] /\ heard' = FALSE
        /\ UNCHANGED <<rpcCalls, link, unsaid>>
    BY <1>4 DEF WireLost
  <2>2. PICK n \in 0..Len(events) : events' = SubSeq(events, 1, n)
    BY <1>4 DEF WireLost
  <2>3. ui' \in Windows /\ ~ui'.wire /\ ui'.rpc = ui.rpc /\ ui'.mode = ui.mode
    BY <1>1, <2>1, FailedIs
  <2>4. events \in Seq(RpcEvent)
    BY <1>1 DEF WinTyped
  <2> HIDE DEF RpcEvent
  <2>5. events' \in Seq(RpcEvent)
    <3>1. \A i \in 1..n : events[i] \in RpcEvent
      BY <2>4
    <3>2. SubSeq(events, 1, n) \in Seq(RpcEvent)
      BY <2>4, <3>1, SubSeqProperties
    <3>3. QED
      BY <2>2, <3>2
  <2>6. events = <<>> => events' = <<>>
    <3>1. ASSUME events = <<>>
          PROVE  events' = <<>>
      <4>1. n = 0
        BY <3>1
      <4>2. QED
        BY <2>2, <3>1, <4>1
    <3>2. QED
      BY <3>1
  <2>7. WinTyped'
    BY <1>1, <2>1, <2>3, <2>5 DEF WinTyped
  <2>8. Conversation'
    BY <1>1, <2>1, <2>3, <2>6 DEF Conversation, Silent
  <2>9. QED
    BY <2>1, <2>7, <2>8 DEF WinInv, Truthful
<1>5. CASE CallLost \/ CallTimesOut
  <2>1. /\ ui' = Failed(ui) /\ UNCHANGED <<heard, events, link, unsaid>>
        /\ rpcCalls' = rpcCalls \/ rpcCalls' = <<>>
    BY <1>5 DEF CallLost, CallTimesOut
  <2>2. ui' \in Windows /\ ui'.rpc = "failed" /\ ui'.wire = ui.wire
    BY <1>1, <2>1, FailedIs
  <2>3. <<>> \in Seq(RpcCall)
    OBVIOUS
  <2>4. WinTyped'
    BY <1>1, <2>1, <2>2, <2>3 DEF WinTyped
  <2>5. heard' => ui'.wire
    BY <1>1, <2>1, <2>2 DEF Conversation
  <2>6. QED
    BY <2>2, <2>4, <2>5, NothingToSay
<1>6. CASE KeepAlive \/ RetryCloud
  <2>1. /\ UNCHANGED <<heard, events, link, unsaid>>
        /\ \/ UNCHANGED ui
           \/ ui' = [ui EXCEPT !.keepAlive = FALSE]
           \/ ui' = [ui EXCEPT !.retrying = TRUE]
        /\ \/ UNCHANGED rpcCalls
           \/ rpcCalls' = Append(rpcCalls, "keepalive")
           \/ rpcCalls' = Append(rpcCalls, "retry")
        /\ ui.rpc = "connecting" => UNCHANGED rpcCalls
    <3>1. ui.rpc = "connecting" => ui.mode # "cloud"
      BY <1>1 DEF Conversation, Silent
    <3>2. QED
      BY <1>6, <3>1 DEF KeepAlive, RetryCloud
  <2>2. /\ ui' \in Windows /\ ui'.rpc = ui.rpc /\ ui'.wire = ui.wire /\ ui'.mode = ui.mode
    BY <1>1, <2>1 DEF Windows
  <2>3. /\ rpcCalls' \in Seq(RpcCall) /\ (HelloNext => HelloNext')
        /\ Len(rpcCalls) >= 2 =>
             /\ Len(rpcCalls') >= 2
             /\ rpcCalls'[1] = rpcCalls[1] /\ rpcCalls'[2] = rpcCalls[2]
    <3>1. {"keepalive", "retry"} \subseteq RpcCall
      BY DEF RpcCall
    <3>2. CASE UNCHANGED rpcCalls
      BY <1>1, <3>2 DEF WinTyped, HelloNext
    <3>3. QED
      BY <1>1, <2>1, <3>1, <3>2, CallAppended
  <2>4. heard' = heard /\ events' = events /\ link' = link /\ unsaid' = unsaid
    BY <2>1
  <2>5. WinTyped'
    <3>1. /\ ui' \in Windows /\ rpcCalls' \in Seq(RpcCall)
          /\ heard \in BOOLEAN /\ events \in Seq(RpcEvent) /\ link \in Link
          /\ unsaid \in BOOLEAN
      BY <1>1, <2>2, <2>3 DEF WinTyped
    <3>2. QED
      BY <2>4, <3>1, Zenon DEF WinTyped
  <2>6. Silent' <=> Silent
    BY <2>2, <2>4 DEF Silent
  <2>7. Conversation'
    BY <1>1, <2>1, <2>2, <2>3, <2>6 DEF Conversation
  <2>8. Shows' = Shows
    BY <2>2, <2>4 DEF Shows
  <2>9. Truthful'
    <3> DEFINE Open == \A i \in 1..Len(events) : events[i] # "close"
    <3>1. Open' <=> Open
      BY <2>4
    <3>2. SUFFICES ASSUME ui'.rpc = "up", heard', Open'
                   PROVE  /\ link' = "up" => Shows' = "none"
                          /\ link' \in Down => Shows' = "cloud" \/ HelloNext' \/ unsaid'
      BY DEF Truthful
    <3>3. ui.rpc = "up" /\ heard /\ Open
      BY <2>2, <2>4, <3>1, <3>2
    <3> HIDE DEF Open
    <3>4. /\ link = "up" => Shows = "none"
          /\ link \in Down => Shows = "cloud" \/ HelloNext \/ unsaid
      BY <1>1, <3>3 DEF Truthful, Open
    <3>5. HelloNext => HelloNext'
      BY <2>3
    <3>6. QED
      BY <2>4, <2>8, <3>4, <3>5, Zenon
  <2>10. QED
    BY <2>5, <2>7, <2>9 DEF WinInv
<1>7. QED
  BY <1>2, <1>3, <1>4, <1>5, <1>6

\* A call that is not the hello behind a subscription is made by a window that is heard.
LEMMA FirstCallSubscribes ==
  ASSUME WinInv, rpcCalls # <<>>, ui.wire, ui.rpc # "failed"
  PROVE  ui.rpc = "up" /\ (heard \/ rpcCalls[1] = "subscribe")
BY DEF WinInv, WinTyped, Windows, Conversation

\* The service answers a call, and may publish that it is offline while it dials.
LEMMA AnswerStep ==
  ASSUME WinInv, Hello \/ RetryCall \/ Answered
  PROVE  WinInv'
<1>1. WinTyped /\ Conversation /\ Truthful /\ ui \in Windows
  BY DEF WinInv, WinTyped
<1>2. rpcCalls # <<>> /\ ui.wire /\ rpcCalls' = Tail(rpcCalls)
  BY DEF Hello, RetryCall, Answered
<1>3. /\ rpcCalls' \in Seq(RpcCall) /\ Head(rpcCalls) = rpcCalls[1]
      /\ Len(rpcCalls) >= 2 => rpcCalls' # <<>> /\ rpcCalls'[1] = rpcCalls[2]
  BY <1>1, <1>2, CallTaken
<1>4. CASE ui.rpc = "failed"
  <2>1. ui' = ui \/ ui' = Failed(ui)
    BY DEF Hello, RetryCall, Answered
  <2>2. ui' \in Windows /\ ui'.rpc = "failed" /\ ui'.wire
    <3>1. CASE ui' = ui
      BY <1>1, <1>2, <1>4, <3>1, Zenon
    <3>2. CASE ui' = Failed(ui)
      BY <1>1, <1>2, <3>2, FailedIs, Zenon
    <3>3. QED
      BY <2>1, <3>1, <3>2
  <2>3. events' \in Seq(RpcEvent) /\ link' \in Link /\ heard' \in BOOLEAN /\ unsaid' \in BOOLEAN
    <3>1. CASE Hello
      <4>1. UNCHANGED heard /\ (UNCHANGED <<events, link, unsaid>> \/ HelloNews)
        BY <3>1 DEF Hello
      <4>2. "offline" \in RpcEvent /\ "dialling" \in Link
        BY DEF RpcEvent, Link
      <4>3. \/ UNCHANGED <<events, link>> /\ unsaid' \in BOOLEAN
            \/ Publish(<<"offline">>) /\ link' = "dialling"
        BY <1>1, <4>1 DEF HelloNews, WinTyped
      <4>4. Publish(<<"offline">>) => unsaid' = FALSE /\ events' \in Seq(RpcEvent)
        BY <1>1, <4>2, PublishedIsLast DEF Publish
      <4>5. QED
        BY <1>1, <4>1, <4>2, <4>3, <4>4 DEF WinTyped
    <3>2. CASE RetryCall
      BY <1>1, <3>2 DEF RetryCall, WinTyped, Link
    <3>3. CASE Answered
      BY <1>1, <3>3 DEF Answered, WinTyped
    <3>4. QED
      BY <3>1, <3>2, <3>3
  <2>4. WinTyped'
    BY <1>3, <2>2, <2>3 DEF WinTyped
  <2>5. QED
    BY <2>2, <2>4, NothingToSay
<1>5. CASE ui.rpc # "failed"
  <2>1. ui.rpc = "up" /\ (heard \/ rpcCalls[1] = "subscribe")
    BY <1>2, <1>5, FirstCallSubscribes
  <2>2. CASE Hello
    <3>1. heard /\ UNCHANGED heard
      BY <1>3, <2>1, <2>2 DEF Hello
    <3>2. CASE ui' = Failed(ui) /\ UNCHANGED <<events, link, unsaid>>
      <4>1. ui' \in Windows /\ ui'.rpc = "failed" /\ ui'.wire
        BY <1>1, <1>2, <3>2, FailedIs
      <4>2. WinTyped'
        BY <1>1, <1>3, <3>1, <3>2, <4>1 DEF WinTyped
      <4>3. QED
        BY <4>1, <4>2, NothingToSay
    <3>3. CASE UNCHANGED ui /\ HelloNews
      <4>1. CASE link = "none" \/ IsConnected
        <5>1. /\ UNCHANGED <<ui, heard, events, link>>
              /\ unsaid' = (unsaid \/ link = "ending") /\ link \notin {"failed", "refused"}
          BY <3>1, <3>3, <4>1 DEF HelloNews, IsConnected
        <5>2. WinTyped'
          BY <1>1, <1>3, <5>1 DEF WinTyped
        <5>3. Shows' = Shows
          BY <5>1 DEF Shows
        <5>4. Truthful'
          BY <1>1, <2>1, <3>1, <5>1, <5>3 DEF Truthful, Down
        <5>5. QED
          BY <1>1, <2>1, <3>1, <5>1, <5>2, <5>4 DEF WinInv, Conversation
      <4>2. CASE ~(link = "none" \/ IsConnected)
        <5>1. Publish(<<"offline">>) /\ link' = "dialling" /\ unsaid' = FALSE
          BY <3>3, <4>2 DEF HelloNews, Publish
        <5>2. "offline" \in RpcEvent /\ "dialling" \in Link
          BY DEF RpcEvent, Link
        <5>3. events' \in Seq(RpcEvent)
          BY <1>1, <5>1, <5>2, PublishedIsLast
        <5>4. WinTyped'
          BY <1>1, <1>3, <3>1, <3>3, <5>1, <5>2, <5>3 DEF WinTyped
        <5>5. QED
          BY <1>2, <2>1, <3>1, <3>3, <5>1, <5>4 DEF WinInv, Conversation, Truthful, Down
      <4>3. QED
        BY <4>1, <4>2
    <3>4. QED
      BY <2>2, <3>2, <3>3 DEF Hello
  <2>3. CASE RetryCall
    <3>1. /\ heard /\ UNCHANGED <<ui, heard, events, unsaid>> /\ ~HelloNext
          /\ link' \in {"none", "dialling"} \/ (link = "ending" /\ link' = "failed")
      BY <1>3, <2>1, <2>3 DEF RetryCall, HelloNext
    <3>2. WinTyped'
      BY <1>1, <1>3, <3>1 DEF WinTyped, Link
    <3>3. Shows' = Shows
      BY <3>1 DEF Shows
    <3>4. Truthful'
      BY <1>1, <2>1, <3>1, <3>3 DEF Truthful, Down
    <3>5. QED
      BY <1>1, <1>2, <2>1, <3>1, <3>2, <3>4 DEF WinInv, Conversation
  <2>4. CASE Answered
    <3>1. /\ rpcCalls[1] \in {"subscribe", "keepalive"} /\ UNCHANGED <<ui, events, link, unsaid>>
          /\ heard' = (heard \/ rpcCalls[1] = "subscribe")
      BY <1>3, <2>4 DEF Answered
    <3>2. heard'
      BY <2>1, <3>1
    <3>3. WinTyped'
      BY <1>1, <1>3, <3>1 DEF WinTyped
    <3>4. Shows' = Shows
      BY <3>1 DEF Shows
    <3>5. Truthful'
      <4>1. CASE heard
        <5>1. ~HelloNext
          BY <3>1 DEF HelloNext
        <5>2. QED
          BY <1>1, <2>1, <3>1, <3>4, <4>1, <5>1 DEF Truthful
      <4>2. CASE ~heard
        <5>1. /\ Silent /\ Len(rpcCalls) >= 2 /\ rpcCalls[2] = "hello"
          BY <1>1, <1>2, <2>1, <4>2 DEF Conversation
        <5>2. HelloNext'
          BY <1>3, <5>1 DEF HelloNext
        <5>3. Shows = "none"
          BY <5>1 DEF Silent, Shows
        <5>4. QED
          BY <3>4, <5>2, <5>3 DEF Truthful
      <4>3. QED
        BY <4>1, <4>2
    <3>6. QED
      BY <1>2, <2>1, <3>1, <3>2, <3>3, <3>5 DEF WinInv, Conversation
  <2>5. QED
    BY <2>2, <2>3, <2>4
<1>6. QED
  BY <1>4, <1>5

\* News of the websocket: what is published last is what the websocket does.
LEMMA NewsStep ==
  ASSUME WinInv, NEW x \in RpcEvent, Publish(<<x>>), UNCHANGED <<ui, heard, rpcCalls>>,
         link' \in Link, link' = "up" => x = "online" \/ x = "close",
         link' \in Down => x = "offline" \/ x = "close"
  PROVE  WinInv'
<1>1. WinTyped /\ Conversation /\ Truthful
  BY DEF WinInv
<1>2. /\ events' \in Seq(RpcEvent) /\ (~heard => events' = events)
      /\ heard => /\ events' # <<>> /\ events'[Len(events')] = x
                  /\ Len(events') \in 1..Len(events')
  BY <1>1, PublishedIsLast
<1>3. WinTyped'
  BY <1>1, <1>2 DEF WinTyped, Publish
<1>4. Conversation'
  BY <1>1, <1>2 DEF Conversation, Silent
<1>5. Truthful'
  <2>1. SUFFICES ASSUME heard, \A i \in 1..Len(events') : events'[i] # "close"
                 PROVE  /\ link' = "up" => Shows' = "none"
                        /\ link' \in Down => Shows' = "cloud"
    BY DEF Truthful
  <2>2. x # "close"
    BY <1>2, <2>1
  <2>3. Shows' = IF x = "online" THEN "none" ELSE "cloud"
    BY <1>2, <2>1 DEF Shows
  <2>4. QED
    BY <2>2, <2>3
<1>6. QED
  BY <1>3, <1>4, <1>5 DEF WinInv

\* The websocket changes, or the service is paused.
LEMMA LinkStep ==
  ASSUME WinInv,
         \/ LinkConnects \/ LinkFails \/ LinkRefused \/ LinkEnds \/ LinkDials
         \/ PauseService \/ OtherHello
  PROVE  WinInv'
<1>1. WinTyped /\ Conversation /\ Truthful
  BY DEF WinInv
<1>2. RpcEvent = {"online", "offline", "close"}
  BY DEF RpcEvent
<1>3. CASE LinkConnects
  <2>1. Publish(<<"online">>) /\ link' = "up" /\ UNCHANGED <<ui, heard, rpcCalls>>
    BY <1>3 DEF LinkConnects
  <2>2. "up" \in Link
    BY DEF Link
  <2>3. QED
    BY <1>2, <2>1, <2>2, NewsStep DEF Down
<1>4. CASE LinkFails \/ LinkRefused
  <2>1. /\ Publish(<<"offline">>) /\ link' \in Down
        /\ UNCHANGED <<ui, heard, rpcCalls>>
    BY <1>4 DEF LinkFails, LinkRefused, Down
  <2>2. Down \subseteq Link /\ "up" \notin Down
    BY DEF Link, Down
  <2>3. QED
    BY <1>2, <2>1, <2>2, NewsStep
<1>5. CASE LinkDials \/ LinkEnds
  <2>1. /\ UNCHANGED <<ui, heard, rpcCalls, events, unsaid>>
        /\ link' \in {"dialling", "idle"} \/ (link = "ending" /\ link' = "failed")
    BY <1>5 DEF LinkDials, LinkEnds
  <2>2. WinTyped'
    BY <1>1, <2>1 DEF WinTyped, Link
  <2>3. Shows' = Shows /\ (HelloNext' <=> HelloNext) /\ (Silent' <=> Silent)
    BY <2>1 DEF Shows, HelloNext, Silent
  <2>4. Truthful'
    BY <1>1, <2>1, <2>3 DEF Truthful, Down
  <2>5. QED
    BY <1>1, <2>1, <2>2, <2>3, <2>4 DEF WinInv, Conversation
<1>6. CASE PauseService
  <2>1. Publish(<<"close">>) /\ UNCHANGED <<ui, heard, rpcCalls>>
    BY <1>6 DEF PauseService
  <2>2. link' \in Link /\ link' # "up"
    BY <1>1, <1>6 DEF PauseService, WinTyped, Link
  <2>3. QED
    BY <1>2, <2>1, <2>2, NewsStep
<1>7. CASE OtherHello
  <2>1. Publish(<<"offline">>) /\ link' = "dialling" /\ UNCHANGED <<ui, heard, rpcCalls>>
    BY <1>7 DEF OtherHello, HelloNews, IsConnected
  <2>2. "dialling" \in Link
    BY DEF Link
  <2>3. QED
    BY <1>2, <2>1, <2>2, NewsStep DEF Down
<1>8. QED
  BY <1>3, <1>4, <1>5, <1>6, <1>7

\* The window handles what was published, or starts again.
LEMMA HandledStep ==
  ASSUME WinInv, EventHandled \/ OnRpcConfigClose \/ RetryService
  PROVE  WinInv'
<1>1. WinTyped /\ Conversation /\ Truthful /\ ui \in Windows /\ events \in Seq(RpcEvent)
  BY DEF WinInv, WinTyped
<1>2. CASE OpenedAgain
  <2>1. /\ ui' = NewWindow /\ heard' = FALSE /\ rpcCalls' = <<>> /\ events' = <<>>
        /\ link' = link /\ unsaid' = FALSE
    BY <1>2 DEF OpenedAgain
  <2>2. /\ NewWindow \in Windows /\ NewWindow.rpc = "connecting" /\ NewWindow.mode = "none"
    BY DEF NewWindow, Windows
  <2>3. <<>> \in Seq(RpcEvent) /\ <<>> \in Seq(RpcCall)
    OBVIOUS
  <2>4. WinTyped'
    BY <1>1, <2>1, <2>2, <2>3 DEF WinTyped
  <2>5. QED
    BY <2>1, <2>2, <2>4 DEF WinInv, Conversation, Silent, Truthful
<1>3. CASE EventHandled
  <2> DEFINE mode == IF Head(events) = "online" THEN "none" ELSE "cloud"
  <2>1. /\ events # <<>> /\ Head(events) # "close"
        /\ ui' = [[ui EXCEPT !.mode = mode] EXCEPT !.retrying = FALSE]
        /\ events' = Tail(events) /\ UNCHANGED <<heard, rpcCalls, link, unsaid>>
    BY <1>3 DEF EventHandled, SetMode
  <2>2. mode \in {"none", "cloud"}
    OBVIOUS
  <2>3. /\ ui' \in Windows /\ ui'.rpc = ui.rpc /\ ui'.wire = ui.wire /\ ui'.mode = mode
    BY <1>1, <2>1, <2>2 DEF Windows
  <2> HIDE DEF mode
  <2>4. /\ events' \in Seq(RpcEvent) /\ Head(events) = events[1]
        /\ events' # <<>> => events'[Len(events')] = events[Len(events)]
        /\ events' = <<>> => events[Len(events)] = Head(events)
        /\ \A i \in 1..Len(events') : i + 1 \in 1..Len(events) /\ events'[i] = events[i + 1]
    <3> HIDE DEF RpcEvent
    <3>1. QED
      BY <1>1, <2>1, LastOfTail
  <2>5. WinTyped'
    BY <1>1, <2>1, <2>3, <2>4 DEF WinTyped
  <2>6. ~Silent
    BY <2>1 DEF Silent
  <2>7. Conversation'
    BY <1>1, <2>1, <2>3, <2>6 DEF Conversation
  <2>8. Shows' = Shows
    BY <2>1, <2>3, <2>4 DEF Shows, mode
  <2>9. Truthful'
    <3>1. SUFFICES ASSUME ui'.rpc = "up", heard', \A i \in 1..Len(events') : events'[i] # "close"
                   PROVE  /\ link' = "up" => Shows' = "none"
                          /\ link' \in Down => Shows' = "cloud" \/ HelloNext' \/ unsaid'
      BY DEF Truthful
    <3>2. ASSUME NEW i \in 1..Len(events)
          PROVE  events[i] # "close"
      <4>1. CASE i = 1
        BY <2>1, <2>4, <4>1
      <4>2. CASE i # 1
        <5>1. Len(events') = Len(events) - 1 /\ Len(events) \in Nat
          BY <1>1, <2>1
        <5>2. i - 1 \in 1..Len(events') /\ (i - 1) + 1 = i
          BY <4>2, <5>1
        <5>3. QED
          BY <2>4, <3>1, <5>2
      <4>3. QED
        BY <4>1, <4>2
    <3>3. /\ link = "up" => Shows = "none"
          /\ link \in Down => Shows = "cloud" \/ HelloNext \/ unsaid
      BY <1>1, <2>1, <2>3, <3>1, <3>2 DEF Truthful
    <3>4. HelloNext' <=> HelloNext
      BY <2>1 DEF HelloNext
    <3>5. link' = link /\ unsaid' = unsaid
      BY <2>1
    <3>6. QED
      BY <2>8, <3>3, <3>4, <3>5, Zenon
  <2>10. QED
    BY <2>5, <2>7, <2>9 DEF WinInv
<1>4. QED
  BY <1>2, <1>3 DEF OnRpcConfigClose, RetryService

\* What is on its way to the window ends with the truth, or its hello is to come, or a
\* hello was answered while the websocket was shut down and nothing was published since.
THEOREM WindowInvariant == WindowSpec => []WinInv
<1>1. WindowInit => WinInv
  <2> SUFFICES ASSUME WindowInit
               PROVE  WinInv
    OBVIOUS
  <2>1. /\ ui = NewWindow /\ heard = FALSE /\ rpcCalls = <<>> /\ events = <<>>
        /\ link \in Link /\ unsaid = FALSE
    BY DEF WindowInit
  <2>2. NewWindow \in Windows /\ NewWindow.rpc = "connecting" /\ NewWindow.mode = "none"
    BY DEF NewWindow, Windows
  <2>3. <<>> \in Seq(RpcEvent) /\ <<>> \in Seq(RpcCall)
    OBVIOUS
  <2>4. WinTyped
    BY <2>1, <2>2, <2>3 DEF WinTyped
  <2>5. QED
    BY <2>1, <2>2, <2>4 DEF WinInv, Conversation, Silent, Truthful
<1>2. WinInv /\ [WindowNext]_windowVars => WinInv'
  <2> SUFFICES ASSUME WinInv, [WindowNext]_windowVars
               PROVE  WinInv'
    OBVIOUS
  <2>1. CASE UNCHANGED windowVars
    BY <2>1 DEF windowVars, WinInv, WinTyped, Conversation, Silent, Truthful, Shows, HelloNext
  <2>2. QED
    BY <2>1, RpcStep, AnswerStep, LinkStep, HandledStep DEF WindowNext
<1>3. QED
  BY <1>1, <1>2, PTL DEF WindowSpec

\* A connected window that has heard all shows the cloud error when the websocket of the
\* service has failed, and none when it is up; the one exception, for a websocket that has
\* failed, is a hello handled in the poll that shuts it down, until there is news again
\* (ErrorViewTrue).
THEOREM WindowErrorViewTrue == WindowSpec => []ErrorViewTrue
<1>1. WinInv => ErrorViewTrue
  <2> SUFFICES ASSUME WinInv, ui.rpc = "up", heard, rpcCalls = <<>>, events = <<>>
               PROVE  /\ link \in {"failed", "refused"} => ui.mode = "cloud" \/ unsaid
                      /\ link = "up" => ui.mode = "none"
    BY DEF ErrorViewTrue
  <2>1. Shows = ui.mode /\ ~HelloNext
    BY DEF Shows, HelloNext
  <2>2. \A i \in 1..Len(events) : events[i] # "close"
    <3>1. 1..Len(events) = {}
      OBVIOUS
    <3>2. QED
      BY <3>1
  <2>3. QED
    BY <2>1, <2>2 DEF WinInv, Truthful, Down
<1>2. QED
  BY <1>1, WindowInvariant, PTL
=============================================================================
