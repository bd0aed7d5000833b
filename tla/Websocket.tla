----------------------------- MODULE Websocket -----------------------------
(***************************************************************************)
(* The websocket of the service (WebsocketSession over SecuredTcpClient    *)
(* and ProxyClient): connecting, the handshake, reading, the reconnect     *)
(* timer, and shutdown, which runs other handlers in the middle of itself. *)
(*                                                                         *)
(* One stream exists at a time.  An operation of a stream that is replaced *)
(* or closed ends as aborted: connecting and reading then say nothing, the *)
(* websocket handshake reports an error like any other (stale counts those *)
(* not yet run).  A completion that was already queued when its stream was *)
(* replaced is not told from an aborted one.  m_connecting feeds one log   *)
(* line and is left out.                                                   *)
(***************************************************************************)
EXTENDS Integers, Sequences

CONSTANTS
  MaxCommands,  \* bound: commands (load, retry, shutdown, setProxy)
  MaxFailures   \* bound: failures of the network and refusals of the cloud

ASSUME WebsocketAssumption == MaxCommands \in Nat /\ MaxFailures \in Nat

VARIABLES
  ws,         \* the session, a record (see Session)
  proxy,      \* is a proxy configured, and does this stream connect through one
  refused,    \* m_res holds a refusal (403 with a reason)
  wanted,     \* history: the last command was to connect, not to shut down
  commands, failures  \* how much of each bound is used

wsVars == <<ws, proxy, refused, wanted, commands, failures>>

\* Why the session may be down, or out of step with m_connected (history).
Excuse == {"silent",     \* connecting, or a stream, was ended without a callback
           "deaf",       \* a read was aborted and nothing was shut down
           "abandoned",  \* the cloud refused the session
           "overlap",    \* an attempt ran beside a timer or the abort of another
           "escaped",    \* shutdown was called while an attempt was under way
           "dangling"}   \* shutdown used a stream whose client was gone

Session ==
  [connected : BOOLEAN,                                 \* m_connected
   stream : {"none", "connecting", "open", "closed"},   \* m_tcpClient and its stream
   doing : {"none", "tcp", "handshake", "read"},        \* the stream's operation
   timer : BOOLEAN,                                     \* m_reconnectTimer is waiting
   due : Nat,          \* handlers of timers that expired and have not run
   stale : Nat,        \* handshakes that ended as aborted and are not reported
   frames : Seq({"reconnect", "shutdown"}),  \* shutdowns inside their poll, by caller
   excuse : SUBSET Excuse]

WsTypeOK ==
  /\ ws \in Session
  /\ proxy \in [set : BOOLEAN, stream : BOOLEAN]
  /\ refused \in BOOLEAN /\ wanted \in BOOLEAN
  /\ commands \in 0..MaxCommands /\ failures \in 0..MaxFailures

WsInit ==
  /\ ws = [connected |-> FALSE, stream |-> "none", doing |-> "none", timer |-> FALSE,
           due |-> 0, stale |-> 0, frames |-> <<>>, excuse |-> {}]
  /\ proxy = [set |-> FALSE, stream |-> FALSE]
  /\ refused = FALSE /\ wanted = FALSE
  /\ commands = 0 /\ failures = 0

-----------------------------------------------------------------------------
(* What the methods make of a session *)

Pending(s) == s.timer \/ s.due > 0 \/ s.stale > 0 \/ s.doing \in {"tcp", "handshake"}

\* Two attempts at once: nothing keeps the second from replacing what the first made.
Noted(s) ==
  IF s.doing \in {"tcp", "handshake"} /\ (s.timer \/ s.due > 0 \/ s.stale > 0)
  THEN [s EXCEPT !.excuse = @ \union {"overlap"}] ELSE s

\* The operation of the stream ends as aborted.
Aborted(s) ==
  [s EXCEPT !.doing = "none", !.stale = IF s.doing = "handshake" THEN @ + 1 ELSE @]

\* shutdown up to its poll.  Only a connected session is shut down, and only then is
\* the timer cancelled.
Closing(s, caller) ==
  [Aborted(s) EXCEPT !.timer = FALSE, !.frames = <<caller>> \o @,
                     !.excuse = IF s.stream = "none" THEN @ \union {"dangling"} ELSE @]

ShutdownReconnects(s) == IF s.connected THEN Closing(s, "reconnect") ELSE s
Shutdown(s) == IF s.connected THEN Closing(s, "shutdown") ELSE s

\* reconnect: shutdown, then the timer is armed again.
ReconnectNoTimer(s) == IF s.connected THEN Closing(s, "reconnect") ELSE s
Reconnect(s) ==
  IF s.connected THEN Closing(s, "reconnect") ELSE Noted([s EXCEPT !.timer = TRUE])

\* connect: initSockets replaces the stream; a host name that does not resolve is
\* reported at once, when onTcpClientConnectFailed frees the client and reconnects.
Fresh(s) ==
  Noted([Aborted(s) EXCEPT !.stream = "connecting", !.doing = "tcp",
                           !.excuse = @ \ {"silent", "deaf", "abandoned"}])

Connect(s) ==
  /\ proxy' = [proxy EXCEPT !.stream = proxy.set]
  /\ \/ ws' = Fresh(s) /\ UNCHANGED failures
     \/ /\ failures < MaxFailures /\ failures' = failures + 1
        /\ ws' = Reconnect([Fresh(s) EXCEPT !.stream = "none", !.doing = "none"])

\* handleConnectError(false): nothing will try again.
Abandon(s) == [s EXCEPT !.doing = "none", !.stream = "closed", !.excuse = @ \union {"abandoned"}]

-----------------------------------------------------------------------------
(* Commands of the service *)

Command == commands < MaxCommands /\ commands' = commands + 1

\* CloudClient::load, with another profile or token.
Load ==
  /\ Command /\ wanted' = TRUE
  /\ \/ ~ws.connected /\ Connect(ws)
     \/ ws.connected /\ ws' = Reconnect(ws) /\ UNCHANGED <<proxy, failures>>
  /\ UNCHANGED refused

\* reconnectWebsocket: synergy.cloud.retry, synergy.resume and synergy.hello.
Retry ==
  /\ Command /\ wanted' = TRUE
  /\ ws' = Reconnect(ws)
  /\ UNCHANGED <<proxy, refused, failures>>

\* shutdownWebsocket: synergy.pause, and the local screen leaving the profile.
ShutdownWebsocket ==
  /\ Command /\ wanted' = FALSE
  /\ ws' = LET s == Shutdown(ws)
           IN  IF Pending(s) \/ ws.frames # <<>>
               THEN [s EXCEPT !.excuse = @ \union {"escaped"}]
               ELSE [s EXCEPT !.excuse = @ \ {"escaped"}]
  /\ UNCHANGED <<proxy, refused, failures>>

\* setProxy with another proxy closes the socket of the stream.  An attempt that is
\* still resolving the proxy's name goes on.
SetProxyOf ==
  /\ Command
  /\ proxy' = [proxy EXCEPT !.set = ~@]
  /\ \/ ws' = [Aborted(ws) EXCEPT
          !.stream = IF @ = "none" THEN @ ELSE "closed",
          !.excuse = CASE ws.doing = "tcp" -> @ \union {"silent"}
                       [] ws.doing = "read" -> @ \union {"deaf"}
                       [] OTHER -> @]
     \/ ws.doing = "tcp" /\ proxy.stream /\ UNCHANGED ws
  /\ UNCHANGED <<refused, wanted, failures>>

-----------------------------------------------------------------------------
(* Handlers of io_service; they also run inside the poll of a shutdown *)

Failure == failures < MaxFailures /\ failures' = failures + 1

TimerExpires ==
  /\ ws.timer
  /\ ws' = [ws EXCEPT !.timer = FALSE, !.due = @ + 1]
  /\ UNCHANGED <<proxy, refused, wanted, commands, failures>>

\* The timer's handler: initSockets and connect.
TimerHandlerNoConnect ==
  /\ ws.due > 0
  /\ ws' = [Aborted(ws) EXCEPT !.due = @ - 1, !.stream = "connecting"]
  /\ UNCHANGED <<proxy, refused, wanted, commands, failures>>
TimerHandler ==
  /\ ws.due > 0
  /\ Connect([ws EXCEPT !.due = @ - 1])
  /\ UNCHANGED <<refused, wanted, commands>>

\* SecuredTcpClient connected, onTcpClientConnected: the websocket handshake.
TcpConnected ==
  /\ ws.doing = "tcp"
  /\ ws' = [ws EXCEPT !.doing = "handshake"]
  /\ UNCHANGED <<proxy, refused, wanted, commands, failures>>

\* onTcpClientConnectFailed.
TcpFails ==
  /\ ws.doing = "tcp" /\ Failure
  /\ ws' = Reconnect([ws EXCEPT !.doing = "none", !.stream = "none"])
  /\ UNCHANGED <<proxy, refused, wanted, commands>>

\* ProxyClient's connect_handler drops the error of a proxy that cannot be reached.
ProxySilent ==
  /\ ws.doing = "tcp" /\ proxy.stream /\ Failure
  /\ ws' = [ws EXCEPT !.doing = "none", !.stream = "closed", !.excuse = @ \union {"silent"}]
  /\ UNCHANGED <<proxy, refused, wanted, commands>>

\* onWebsocketHandshakeFinished.  m_res is written by a handshake that was answered and
\* kept by one that was not, so an old refusal can be taken for a new one.
HandshakeOk ==
  /\ ws.doing = "handshake"
  /\ ws' = [ws EXCEPT !.connected = TRUE, !.stream = "open", !.doing = "read"]
  /\ refused' = FALSE
  /\ UNCHANGED <<proxy, wanted, commands, failures>>

HandshakeFails ==
  /\ ws.doing = "handshake" /\ Failure
  /\ refused' \in {TRUE, FALSE, refused}
  /\ ws' = IF refused' THEN Abandon(ws)
           ELSE Reconnect([ws EXCEPT !.doing = "none", !.stream = "closed"])
  /\ UNCHANGED <<proxy, wanted, commands>>

\* The same handler, run with the abort of a handshake whose stream is gone.
StaleHandshake ==
  /\ ws.stale > 0
  /\ LET s == [ws EXCEPT !.stale = @ - 1]
     IN  ws' = IF refused THEN [s EXCEPT !.excuse = @ \union {"abandoned"}] ELSE Reconnect(s)
  /\ UNCHANGED <<proxy, refused, wanted, commands, failures>>

\* onReadFinished: a message leaves the session as it was; an error reconnects.
ReadError ==
  /\ ws.doing = "read" /\ Failure
  /\ ws' = Reconnect([ws EXCEPT !.doing = "none", !.stream = "closed"])
  /\ UNCHANGED <<proxy, refused, wanted, commands>>

\* The poll of a shutdown returns when no handler is ready; the stream is closed and
\* reconnect arms the timer.
PollReturnsKeepsFlag ==
  /\ ws.frames # <<>> /\ ws.due = 0 /\ ws.stale = 0
  /\ ws' = [Aborted(ws) EXCEPT !.stream = "closed", !.frames = Tail(@),
                               !.timer = (@ \/ Head(ws.frames) = "reconnect")]
  /\ UNCHANGED <<proxy, refused, wanted, commands, failures>>
PollReturns ==
  /\ ws.frames # <<>> /\ ws.due = 0 /\ ws.stale = 0
  /\ ws' = [Aborted(ws) EXCEPT
        !.connected = FALSE,
        !.stream = IF @ = "none" THEN @ ELSE "closed",
        !.timer = (@ \/ Head(ws.frames) = "reconnect"),
        !.frames = Tail(@),
        !.excuse = IF ws.doing \in {"tcp", "read"} THEN @ \union {"silent"} ELSE @]
  /\ UNCHANGED <<proxy, refused, wanted, commands, failures>>

WsHandler ==
  \/ TimerExpires \/ TimerHandler \/ TcpConnected \/ TcpFails \/ ProxySilent
  \/ HandshakeOk \/ HandshakeFails \/ StaleHandshake \/ ReadError \/ PollReturns

WsNext == Load \/ Retry \/ ShutdownWebsocket \/ SetProxyOf \/ WsHandler

\* io_service runs the handlers.  The timer waits at least kMinReconnectDelaySec, so a
\* handshake that is tried again and again is not overtaken by it every time.
WsSpec ==
  WsInit /\ [][WsNext]_wsVars /\ WF_wsVars(WsHandler) /\ SF_wsVars(HandshakeOk)

-----------------------------------------------------------------------------
(* Properties *)

Given(excuses) == ws.excuse \intersect excuses # {}

Online == ws.connected /\ ws.stream = "open" /\ ws.doing = "read"

\* A session the service wants is online, or something is under way that will bring it
\* online; the exceptions are a refusal, and the two ways an operation ends without a
\* word (an attempt or a read whose socket was closed, a proxy that cannot be reached).
NotStranded ==
  wanted => \/ Online \/ Pending(ws) \/ ws.frames # <<>>
            \/ Given({"silent", "deaf", "abandoned"})

\* Outside the poll of a shutdown, m_connected says that the stream is open and that the
\* service wants it: a session that was shut down (the service is paused) does not come
\* back by itself.  And shutdown never uses the stream of a client that is gone.  The
\* exceptions: the proxy was changed under the session; two attempts ran side by side
\* (connect and reconnect do not stop the attempt or the timer of a session that is not
\* connected); an attempt, a timer or another shutdown was under way when the session was
\* shut down.
FlagTrue ==
  /\ ws.connected /\ ws.frames = <<>> =>
       /\ ws.stream = "open" \/ Given({"deaf", "overlap"})
       /\ wanted \/ Given({"escaped"})
  /\ Given({"dangling"}) => Given({"overlap"})

\* A session the service goes on wanting is online in the end, with the exceptions above.
ComesOnline ==
  [](wanted => <>(Online \/ ~wanted \/ Given({"silent", "deaf", "abandoned"})))

\* "user should wait no more than 5 seconds before realizing the connection is down"
\* (the comment on the keep alive times): a session that calls itself connected on a
\* stream that is closed notices in the end.
DownIsNoticed ==
  (ws.connected /\ ws.stream = "closed") ~> (~ws.connected \/ ws.stream # "closed")
=============================================================================
