-------------------------------- MODULE Tray --------------------------------
(***************************************************************************)
(* Tray processes and TrayService, which is to let only one run.  A tray   *)
(* says hello, is killed or admitted, pings every 3 seconds and says       *)
(* goodbye; TrayService forgets a tray that did not ping for 9 seconds.  A *)
(* service that is restarted has forgotten its tray as well; that tray     *)
(* shows its icon until a ping fails, and then exits.                      *)
(*                                                                         *)
(* External: the WAMP router, which keeps the calls of a client in order,  *)
(* and fails them when the connection is lost; the desktop, which starts   *)
(* and ends trays, and the operating system, which starts the service      *)
(* again.                                                                  *)
(***************************************************************************)
EXTENDS Integers, Sequences, FiniteSets

CONSTANTS
  TrayId,     \* tray processes, each run once
  MaxPings,   \* bound: pings
  MaxStarts   \* bound: restarts of the service

ASSUME TrayAssumption == IsFiniteSet(TrayId) /\ MaxPings \in Nat /\ MaxStarts \in Nat

VARIABLES
  tray,        \* each process: "new", "asking", "ready", "cut" (ready, and the service it
               \* was ready with is gone), "leaving" or "gone"
  calls,       \* calls each tray has under way
  answer,      \* the answer under way: "none", "kill", "admit" or "bye"
  running,     \* m_trayRunning
  armed,       \* m_pingTimer: a wait is pending
  due,         \* handlers of waits that are over, queued
  overdue,     \* history: a tray that was there was marked dead
  trayUsed     \* how much of each bound is used

trayVars == <<tray, calls, answer, running, armed, due, overdue, trayUsed>>

TrayTypeOK ==
  /\ tray \in [TrayId -> {"new", "asking", "ready", "leaving", "cut", "gone"}]
  /\ calls \in [TrayId -> Seq({"hello", "ping", "goodbye"})]
  /\ answer \in [TrayId -> {"none", "kill", "admit", "bye"}]
  /\ running \in BOOLEAN /\ overdue \in BOOLEAN /\ armed \in BOOLEAN /\ due \in Nat
  /\ trayUsed \in [pings : 0..MaxPings, starts : 0..MaxStarts]

TrayInit ==
  /\ tray = [t \in TrayId |-> "new"]
  /\ calls = [t \in TrayId |-> <<>>] /\ answer = [t \in TrayId |-> "none"]
  /\ running = FALSE /\ armed = FALSE /\ due = 0 /\ overdue = FALSE
  /\ trayUsed = [pings |-> 0, starts |-> 0]

-----------------------------------------------------------------------------
(* A tray *)

Call(t, fun) == calls' = [calls EXCEPT ![t] = Append(@, fun)]

\* TrayControlsImpl: the RPC client is connected.
TrayHello(t) ==
  /\ tray[t] = "new"
  /\ tray' = [tray EXCEPT ![t] = "asking"] /\ Call(t, "hello")
  /\ UNCHANGED <<answer, running, armed, due, overdue, trayUsed>>

\* The answer to hello: shutdown disconnects a tray that is not ready, and the
\* disconnected slot exits.
HelloAnswered(t) ==
  /\ answer[t] \in {"kill", "admit"}
  /\ tray' = [tray EXCEPT ![t] = IF answer[t] = "kill" THEN "gone" ELSE "ready"]
  /\ answer' = [answer EXCEPT ![t] = "none"]
  /\ UNCHANGED <<calls, running, armed, due, overdue, trayUsed>>

PingLoop(t) ==
  /\ tray[t] = "ready" /\ trayUsed.pings < MaxPings
  /\ trayUsed' = [trayUsed EXCEPT !.pings = @ + 1]
  /\ Call(t, "ping")
  /\ UNCHANGED <<tray, answer, running, armed, due, overdue>>

\* TrayControlsImpl::shutdown of a tray that is ready.
SayGoodbye(t) ==
  /\ tray[t] = "ready"
  /\ tray' = [tray EXCEPT ![t] = "leaving"] /\ Call(t, "goodbye")
  /\ UNCHANGED <<answer, running, armed, due, overdue, trayUsed>>

GoodbyeAnswered(t) ==
  /\ answer[t] = "bye"
  /\ tray' = [tray EXCEPT ![t] = "gone"] /\ answer' = [answer EXCEPT ![t] = "none"]
  /\ UNCHANGED <<calls, running, armed, due, overdue, trayUsed>>

\* The process dies, without a goodbye.
TrayDies(t) ==
  /\ tray[t] = "ready"
  /\ tray' = [tray EXCEPT ![t] = "gone"]
  /\ UNCHANGED <<calls, answer, running, armed, due, overdue, trayUsed>>

\* A call of a tray that was ready fails, since the service it knew is gone: the
\* disconnected slot exits.
TrayCutStays(t) == tray[t] = "cut" /\ UNCHANGED trayVars
TrayCut(t) ==
  /\ tray[t] = "cut"
  /\ tray' = [tray EXCEPT ![t] = "gone"]
  /\ UNCHANGED <<calls, answer, running, armed, due, overdue, trayUsed>>

-----------------------------------------------------------------------------
(* TrayService *)

\* ping: a new wait, in place of the one pending; a handler that is queued stays queued.
Rearm == armed' = TRUE /\ UNCHANGED due

NextCall(t, fun) ==
  /\ calls[t] # <<>> /\ Head(calls[t]) = fun
  /\ calls' = [calls EXCEPT ![t] = Tail(@)]

TrayStartAny(t) ==
  /\ NextCall(t, "hello")
  /\ running' = TRUE /\ Rearm
  /\ answer' = [answer EXCEPT ![t] = "admit"]
  /\ UNCHANGED <<tray, overdue, trayUsed>>
TrayStart(t) ==
  /\ NextCall(t, "hello")
  /\ IF running
     THEN answer' = [answer EXCEPT ![t] = "kill"] /\ UNCHANGED <<running, armed, due>>
     ELSE answer' = [answer EXCEPT ![t] = "admit"] /\ running' = TRUE /\ Rearm
  /\ UNCHANGED <<tray, overdue, trayUsed>>

\* A ping keeps the timer going, also for a tray that was given up.
TrayPing(t) ==
  /\ NextCall(t, "ping")
  /\ Rearm
  /\ UNCHANGED <<tray, answer, running, overdue, trayUsed>>

TrayStop(t) ==
  /\ NextCall(t, "goodbye")
  /\ running' = FALSE /\ armed' = FALSE
  /\ answer' = [answer EXCEPT ![t] = "bye"]
  /\ UNCHANGED <<tray, due, overdue, trayUsed>>

Alive == {t \in TrayId : tray[t] \in {"asking", "ready", "leaving"}}

PingTimeout ==
  /\ armed /\ armed' = FALSE /\ due' = due + 1
  /\ UNCHANGED <<tray, calls, answer, running, overdue, trayUsed>>

MarkDead ==
  /\ due > 0 /\ due' = due - 1
  /\ running' = FALSE /\ overdue' = (overdue \/ Alive # {})
  /\ UNCHANGED <<tray, calls, answer, armed, trayUsed>>

\* The service is restarted: every connection is lost, and what it knew.  A tray without
\* an icon, or without it by now, is as good as gone.
TrayServiceRestarts ==
  /\ trayUsed.starts < MaxStarts
  /\ trayUsed' = [trayUsed EXCEPT !.starts = @ + 1]
  /\ running' = FALSE /\ armed' = FALSE /\ due' = 0
  /\ tray' = [t \in TrayId |-> IF tray[t] = "ready" THEN "cut"
                              ELSE IF t \in Alive THEN "gone" ELSE tray[t]]
  /\ calls' = [t \in TrayId |-> <<>>] /\ answer' = [t \in TrayId |-> "none"]
  /\ UNCHANGED overdue

TrayHandler ==
  \/ PingTimeout \/ MarkDead
  \/ \E t \in TrayId : TrayStart(t) \/ TrayPing(t) \/ TrayStop(t) \/ HelloAnswered(t)
                       \/ GoodbyeAnswered(t) \/ TrayCut(t)

TrayNext ==
  \/ TrayHandler \/ TrayServiceRestarts
  \/ \E t \in TrayId : TrayHello(t) \/ PingLoop(t) \/ SayGoodbye(t) \/ TrayDies(t)

-----------------------------------------------------------------------------
(* Properties *)

Icons == {t \in TrayId : tray[t] \in {"ready", "cut"}}

\* Of two trays that show an icon one was cut off by a restart of the service: through
\* trays that come, die and leave, and answers and goodbyes that are late, the service
\* never has two it could reach; unless TrayService marked a tray dead that was late with
\* its ping, or that came or pinged while a handler of the timer was queued.
OneTray == ~overdue => \A t, u \in Icons : t = u \/ "cut" \in {tray[t], tray[u]}

\* The second icon that a restart of the service leaves on the screen goes away.
OneIconAgain == Cardinality(Icons) > 1 ~> (Cardinality(Icons) <= 1 \/ overdue)
=============================================================================
