------------------------------- MODULE Window -------------------------------
(***************************************************************************)
(* What the configuration window tells the user about the service and the  *)
(* cloud.  ServiceProxy connects to the service in a thread of its own,    *)
(* subscribes to what the service publishes, says hello, and passes what   *)
(* it hears to the window's thread through a queue.  ErrorView covers the  *)
(* window while the service has no connection to the cloud, or the window  *)
(* none to the service, and offers to try again.                           *)
(*                                                                         *)
(* Of the service there is the state of its websocket, whose own steps are *)
(* in Websocket.  A websocket that is up is shut down in two steps: in     *)
(* between, the io_service is polled, and what it has ready, the calls of  *)
(* the window among it, still finds the websocket connected.               *)
(*                                                                         *)
(* External: the service's end of the connection, the cloud, the user.     *)
(***************************************************************************)
EXTENDS Integers, Sequences

CONSTANTS
  MaxNews,     \* bound: what happens to the service's websocket, other than coming online
  MaxLosses    \* bound: connections to the service that fail, calls that time out

ASSUME WindowAssumption ==
  MaxNews \in Nat /\ MaxLosses \in Nat

VARIABLES
  ui,         \* the window: see NewWindow
  heard,      \* the service knows the window's subscriptions
  rpcCalls,      \* calls to the service without an answer, in order
  events,     \* what was published to the window and not handled by its thread
  link,       \* the service's websocket
  unsaid,     \* history: a hello came between the news that the websocket is down and
              \* its end, and since then nothing was published
  windowUsed  \* how much of each bound is used

windowVars == <<ui, heard, rpcCalls, events, link, unsaid, windowUsed>>

NewWindow ==
  [mode      |-> "none",       \* ErrorView: the error that is shown
   retrying  |-> FALSE,
   rpc       |-> "connecting", \* WampClient; failed, m_connected is false again
   wire      |-> TRUE,         \* the connection is there
   keepAlive |-> TRUE]         \* m_keepAliveTimer runs

Link == {"none",      \* no user
         "dialling", "up",
         "ending", "pausing",  \* in the poll of shutdown: m_connected is true
         "failed",    \* it will dial again
         "refused",   \* it will not
         "idle"}      \* shut down, the service is paused

RpcEvent == {"online", "offline", "close"}
RpcCall == {"subscribe", "hello", "retry", "keepalive"}

WindowTypeOK ==
  /\ ui.mode \in {"none", "cloud", "service"} /\ ui.rpc \in {"connecting", "up", "failed"}
  /\ {ui.retrying, ui.wire, ui.keepAlive} \subseteq BOOLEAN
  /\ rpcCalls \in Seq(RpcCall) /\ events \in Seq(RpcEvent) /\ link \in Link
  /\ {heard, unsaid} \subseteq BOOLEAN

WindowInit ==
  /\ ui = NewWindow /\ heard = FALSE /\ rpcCalls = <<>> /\ events = <<>>
  /\ link \in Link \ {"ending", "pausing"} /\ unsaid = FALSE
  /\ windowUsed = [news |-> 0, losses |-> 0]

Use(what, bound) ==
  windowUsed[what] < bound /\ windowUsed' = [windowUsed EXCEPT ![what] = @ + 1]

-----------------------------------------------------------------------------
(* The connection to the service, in the thread of ServiceProxy *)

\* The connected slot: the subscriptions, and hello.
ProxyConnected ==
  /\ ui.rpc = "connecting" /\ ui.wire
  /\ ui' = [ui EXCEPT !.rpc = "up"]
  /\ rpcCalls' = rpcCalls \o <<"subscribe", "hello">>
  /\ UNCHANGED <<heard, events, link, unsaid, windowUsed>>

\* The disconnected slots: the timer is cancelled and the error shown at once, ahead of
\* what is in the queue of the window's thread.
SetMode(u, mode) == [u EXCEPT !.mode = mode, !.retrying = FALSE]
Failed(u) == SetMode([u EXCEPT !.rpc = "failed", !.keepAlive = FALSE], "service")

RpcConnectFails ==
  /\ ui.rpc = "connecting" /\ Use("losses", MaxLosses)
  /\ ui' = Failed([ui EXCEPT !.wire = FALSE])
  /\ UNCHANGED <<heard, rpcCalls, events, link, unsaid>>

\* The connection breaks, or the service ends; of what was published only the beginning
\* has come.  Nobody knows until a call fails.
WireLost ==
  /\ ui.wire /\ Use("losses", MaxLosses)
  /\ ui' = [ui EXCEPT !.wire = FALSE] /\ heard' = FALSE
  /\ \E n \in 0..Len(events) : events' = SubSeq(events, 1, n)
  /\ UNCHANGED <<rpcCalls, link, unsaid>>

CallLost ==
  /\ ~ui.wire /\ rpcCalls # <<>>
  /\ rpcCalls' = <<>> /\ ui' = Failed(ui)
  /\ UNCHANGED <<heard, events, link, unsaid, windowUsed>>

\* No answer in three seconds.  The service may be slow: the call is handled all the
\* same, and what the service publishes still comes.
CallTimesOut ==
  /\ ui.wire /\ rpcCalls # <<>> /\ ui.rpc = "up" /\ Use("losses", MaxLosses)
  /\ ui' = Failed(ui)
  /\ UNCHANGED <<heard, rpcCalls, events, link, unsaid>>

\* keepAlive: a timer that finds no connection yet is not set again.
KeepAlive ==
  /\ ui.keepAlive
  /\ IF ui.rpc = "up"
     THEN /\ \A i \in DOMAIN rpcCalls : rpcCalls[i] # "keepalive"
          /\ rpcCalls' = Append(rpcCalls, "keepalive") /\ UNCHANGED ui
     ELSE /\ ui' = [ui EXCEPT !.keepAlive = FALSE]
          /\ UNCHANGED rpcCalls
  /\ UNCHANGED <<heard, events, link, unsaid, windowUsed>>

-----------------------------------------------------------------------------
(* The service *)

Publish(news) == events' = (IF heard THEN events \o news ELSE events) /\ unsaid' = FALSE

IsConnected == link \in {"up", "ending", "pausing"}  \* isWebsocketConnected

\* provideHello: a user without a websocket is told so, and it is dialled.
HelloNewsQuiet == UNCHANGED <<events, link, unsaid>>
HelloNews ==
  IF link = "none" \/ IsConnected
  THEN unsaid' = (unsaid \/ link = "ending") /\ UNCHANGED <<events, link>>
  ELSE Publish(<<"offline">>) /\ link' = "dialling"

\* Before that a core that is paused is resumed, which may throw: the call fails, and the
\* rest is not done.
Hello ==
  /\ rpcCalls # <<>> /\ ui.wire /\ Head(rpcCalls) = "hello"
  /\ rpcCalls' = Tail(rpcCalls)
  /\ \/ HelloNews /\ UNCHANGED <<ui, windowUsed>>
     \/ /\ Use("losses", MaxLosses) /\ ui' = Failed(ui)
        /\ UNCHANGED <<events, link, unsaid>>
  /\ UNCHANGED heard

\* synergy.cloud.retry: reconnect drops the connection there is, and sets the timer, which
\* a failure that is being handled sets again.
RetryCallFailed ==
  /\ rpcCalls # <<>> /\ ui.wire /\ Head(rpcCalls) = "retry"
  /\ rpcCalls' = Tail(rpcCalls)
  /\ link' = IF link = "failed" THEN "dialling" ELSE link
  /\ UNCHANGED <<ui, heard, events, unsaid, windowUsed>>
RetryCall ==
  /\ rpcCalls # <<>> /\ ui.wire /\ Head(rpcCalls) = "retry"
  /\ rpcCalls' = Tail(rpcCalls)
  /\ link' = CASE link = "none" -> "none" [] link = "ending" -> "failed" [] OTHER -> "dialling"
  /\ UNCHANGED <<ui, heard, events, unsaid, windowUsed>>

Answered ==
  /\ rpcCalls # <<>> /\ ui.wire /\ Head(rpcCalls) \in {"subscribe", "keepalive"}
  /\ rpcCalls' = Tail(rpcCalls)
  /\ heard' = (heard \/ Head(rpcCalls) = "subscribe")
  /\ UNCHANGED <<ui, events, link, unsaid, windowUsed>>

\* websocketConnected.
LinkConnects ==
  /\ link = "dialling" /\ link' = "up" /\ Publish(<<"online">>)
  /\ UNCHANGED <<ui, heard, rpcCalls, windowUsed>>

\* handleConnectError: websocketError publishes, then reconnect shuts down what is
\* connected, and sets the timer.
LinkFails ==
  /\ link \in {"dialling", "up", "pausing"}
  /\ Publish(<<"offline">>)
  /\ link' = IF link = "dialling" THEN "failed" ELSE "ending"
  /\ Use("news", MaxNews)
  /\ UNCHANGED <<ui, heard, rpcCalls>>

LinkRefused ==
  /\ link = "dialling" /\ link' = "refused" /\ Publish(<<"offline">>)
  /\ Use("news", MaxNews)
  /\ UNCHANGED <<ui, heard, rpcCalls>>

\* The poll of shutdown is over, and m_connected false.
LinkEnds ==
  /\ link \in {"ending", "pausing"}
  /\ link' = IF link = "ending" THEN "failed" ELSE "idle"
  /\ UNCHANGED <<ui, heard, rpcCalls, events, unsaid, windowUsed>>

\* The reconnect timer; a login; the tray resumes the service.
LinkDials ==
  /\ \/ link = "failed" /\ UNCHANGED windowUsed
     \/ link \in {"none", "refused", "idle"} /\ Use("news", MaxNews)
  /\ link' = "dialling"
  /\ UNCHANGED <<ui, heard, rpcCalls, events, unsaid>>

\* synergy.pause closes the windows, and then shuts down a websocket that is connected;
\* in the poll of a shutdown it ends the websocket at once.
PauseService ==
  /\ Use("news", MaxNews)
  /\ Publish(<<"close">>)
  /\ link' = CASE link = "up" -> "pausing" [] link = "pausing" -> "idle"
               [] link = "ending" -> "failed" [] OTHER -> link
  /\ UNCHANGED <<ui, heard, rpcCalls>>

\* Another window says hello; everyone hears the answer.
OtherHello ==
  /\ link # "none" /\ ~IsConnected /\ Use("news", MaxNews)
  /\ HelloNews
  /\ UNCHANGED <<ui, heard, rpcCalls>>

-----------------------------------------------------------------------------
(* The window's thread *)

\* The window closes and is opened again, by restart or by the user.
OpenedAgain ==
  /\ ui' = NewWindow /\ heard' = FALSE /\ rpcCalls' = <<>> /\ events' = <<>>
  /\ unsaid' = FALSE
  /\ UNCHANGED <<link, windowUsed>>

\* onRpcCloudOnline and onRpcCloudOffline.
EventHandled ==
  /\ events # <<>> /\ Head(events) # "close"
  /\ ui' = SetMode(ui, IF Head(events) = "online" THEN "none" ELSE "cloud")
  /\ events' = Tail(events)
  /\ UNCHANGED <<heard, rpcCalls, link, unsaid, windowUsed>>

OnRpcConfigClose == events # <<>> /\ Head(events) = "close" /\ OpenedAgain

\* ErrorView::retry.
RetryCloud ==
  /\ ui.mode = "cloud" /\ ~ui.retrying
  /\ ui' = [ui EXCEPT !.retrying = TRUE] /\ rpcCalls' = Append(rpcCalls, "retry")
  /\ UNCHANGED <<heard, events, link, unsaid, windowUsed>>

RetryService == ui.mode = "service" /\ OpenedAgain

-----------------------------------------------------------------------------
\* What the threads of the window and of the service do without being asked.
WindowHears == EventHandled \/ OnRpcConfigClose
ServiceAnswers == Hello \/ RetryCall \/ Answered
LinkRetries == LinkEnds \/ (link = "failed" /\ LinkDials)

WindowNext ==
  \/ ProxyConnected \/ RpcConnectFails \/ WireLost \/ CallLost \/ CallTimesOut \/ KeepAlive
  \/ Hello \/ RetryCall \/ Answered
  \/ LinkConnects \/ LinkFails \/ LinkRefused \/ LinkEnds \/ LinkDials
  \/ PauseService \/ OtherHello
  \/ EventHandled \/ OnRpcConfigClose \/ RetryCloud \/ RetryService

WindowSpec == WindowInit /\ [][WindowNext]_windowVars

-----------------------------------------------------------------------------
(* Properties *)

\* When all that was said is heard, a window that is connected to the service covers
\* itself with the cloud error if the service's websocket has failed, and not if it is
\* up: whenever the window was opened, and whatever was published before it subscribed.
\* The one exception is a hello that is handled while the failed websocket is shut down:
\* the news that it is down was published already, and m_connected is still true.  That
\* window learns of it with the next news.
ErrorViewTrue ==
  /\ ui.rpc = "up" /\ heard /\ rpcCalls = <<>> /\ events = <<>>
  => /\ link \in {"failed", "refused"} => ui.mode = "cloud" \/ unsaid
     /\ link = "up" => ui.mode = "none"

\* The user who asks to try again is answered: retrying ends, by news of the websocket
\* or by the error of a call that is not answered; unless the keep-alive timer no longer
\* runs, which it does not when it expired before the connection was up.
RetryEnds == ui.retrying ~> (~ui.retrying \/ ~ui.keepAlive)
=============================================================================
