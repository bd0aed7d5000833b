------------------------------ MODULE Streams ------------------------------
(***************************************************************************)
(* The streams between a core client and the core server of another        *)
(* screen.  On the client's host ServerProxy stands for the server: it     *)
(* accepts the core client and sends what it reads to server_id_ by the    *)
(* router.  On the server's host ClientProxy stands for the client: it     *)
(* connects to the core server when a ProxyClientConnect comes, and a link *)
(* is known by the host it came from, not by the session it is for.        *)
(* A read that completes waits in the io_service for its handler, and then *)
(* stop() no longer ends it.                                               *)
(*                                                                         *)
(* One client's host and the servers it may be pointed at.  A session is   *)
(* the number of the core client's connection; messages and links carry    *)
(* the session they belong to as history only.                             *)
(*                                                                         *)
(* External: the cores, which connect, answer a hello, send and stop; the  *)
(* router, which delivers in order and may lose what is under way.         *)
(***************************************************************************)
EXTENDS Integers, Sequences, SequencesExt

CONSTANTS
  Host,         \* hosts that can be the server
  RetryLimit,   \* kConnectRetryLimit
  MaxSessions,  \* bound: connections of the core client
  MaxChunks,    \* bound: messages of the cores
  MaxTroubles   \* bound: losses, missing routes, stops of a core server, switches

ASSUME StreamsAssumption ==
  /\ 0 \notin Host
  /\ RetryLimit \in Nat \ {0}
  /\ MaxSessions \in Nat /\ MaxChunks \in Nat /\ MaxTroubles \in Nat

VARIABLES
  target,     \* ServerProxy::server_id_, 0 before the first start
  near,       \* ServerProxy::connections_: [session, state]
  core,       \* the session of the core client that is connected, or 0
  toServer,   \* what the router carries to each host: [kind, session]
  toClient,   \* what it carries back: sessions
  dials,      \* running coroutines of ClientProxy::connect: [session, attempt]
  far,        \* ClientProxy::connections_: [session, state, due, kept]; due: a read
              \* completed, its handler is queued; kept, history: the link outlived the
              \* announcement of a newer session
  listening,  \* the core server of each host runs
  mixed,      \* history: a message was written to the link of another session
  excuse,     \* history: what each host went through (see Excuses)
  used        \* how much of each bound is used

streamVars == <<target, near, core, toServer, toClient, dials, far, listening, mixed,
                excuse, used>>

Session == 1..MaxSessions

Excuses == {"doubled",  \* two attempts to connect ran at once
            "lost",     \* a ProxyClientConnect was lost with the routers' connection
            "gave up"}  \* an attempt to connect used up its retries

StreamTypeOK ==
  /\ target \in Host \union {0}
  /\ near \in Seq([session : Session, state : {"accepted", "asked", "open"}])
  /\ core \in Session \union {0}
  /\ toServer \in [Host -> Seq([kind : {"connect", "data"}, session : Session])]
  /\ toClient \in [Host -> Seq(Session)]
  /\ dials \in [Host -> Seq([session : Session, attempt : 1..RetryLimit])]
  /\ far \in [Host -> Seq([session : Session, state : {"new", "open"},
                           due : BOOLEAN, kept : BOOLEAN])]
  /\ listening \in [Host -> BOOLEAN]
  /\ mixed \in BOOLEAN
  /\ excuse \in [Host -> SUBSET Excuses]
  /\ used \in [sessions : 0..MaxSessions, chunks : 0..MaxChunks, troubles : 0..MaxTroubles]

StreamInit ==
  /\ target = 0 /\ near = <<>> /\ core = 0
  /\ toServer = [h \in Host |-> <<>>]
  /\ toClient = [h \in Host |-> <<>>]
  /\ dials = [h \in Host |-> <<>>]
  /\ far = [h \in Host |-> <<>>]
  /\ listening = [h \in Host |-> TRUE]
  /\ mixed = FALSE /\ excuse = [h \in Host |-> {}]
  /\ used = [sessions |-> 0, chunks |-> 0, troubles |-> 0]

-----------------------------------------------------------------------------
Trouble == used.troubles < MaxTroubles /\ used' = [used EXCEPT !.troubles = @ + 1]
Chunk == used.chunks < MaxChunks /\ used' = [used EXCEPT !.chunks = @ + 1]

farVars == <<dials, far, listening, excuse>>

(* The client's host *)

\* ServerProxy::start, called by switchServer: another server ends the loop and closes
\* and forgets every connection.
ProxyStart(h) ==
  /\ h # target
  /\ IF target = 0 THEN UNCHANGED used ELSE Trouble
  /\ target' = h /\ near' = <<>> /\ core' = 0
  /\ UNCHANGED <<toServer, toClient, mixed, farVars>>

\* The accept loop.
Accept ==
  /\ target # 0 /\ core = 0 /\ used.sessions < MaxSessions
  /\ core' = used.sessions + 1
  /\ used' = [used EXCEPT !.sessions = @ + 1]
  /\ near' = Append(near, [session |-> core', state |-> "accepted"])
  /\ UNCHANGED <<target, toServer, toClient, mixed, farVars>>

\* ServerProxyConnection::start: 200 ms later the hello is written.
SayHello(k) ==
  /\ near[k].state = "accepted"
  /\ near' = [near EXCEPT ![k].state = "asked"]
  /\ UNCHANGED <<target, core, toServer, toClient, mixed, farVars, used>>

\* The read loop sends m to the server, or ends when there is no route to it and the
\* connection goes.
Sent(k, m) ==
  /\ toServer' = [toServer EXCEPT ![target] = Append(@, m)]
  /\ near' = [near EXCEPT ![k].state = "open"]
  /\ UNCHANGED core
NoRoute(k) ==
  /\ near' = RemoveAt(near, k) /\ core' = 0
  /\ UNCHANGED toServer

\* The answer to the hello: on_hello_back sends a ProxyClientConnect.
HelloBack(k) ==
  /\ near[k].session = core /\ near[k].state = "asked"
  /\ \/ Sent(k, [kind |-> "connect", session |-> core]) /\ UNCHANGED used
     \/ NoRoute(k) /\ Trouble
  /\ UNCHANGED <<target, toClient, mixed, farVars>>

\* Any other message of the core client is sent as a CoreMessage.
ReadCore(k) ==
  /\ near[k].session = core /\ near[k].state = "open"
  /\ \/ Sent(k, [kind |-> "data", session |-> core]) /\ Chunk
     \/ NoRoute(k) /\ Trouble
  /\ UNCHANGED <<target, toClient, mixed, farVars>>

\* The core client closes its connection, and the read loop ends.
CoreLeaves ==
  /\ core # 0 /\ Trouble
  /\ core' = 0
  /\ UNCHANGED <<target, near, toServer, toClient, mixed, farVars>>

NearEnds(k) ==
  /\ near[k].session # core
  /\ near' = RemoveAt(near, k)
  /\ UNCHANGED <<target, core, toServer, toClient, mixed, farVars, used>>

\* ServerProxyMessageHandler::handle: whoever sent it, the message is written to the
\* newest connection.
TakeBack(h) ==
  /\ toClient[h] # <<>>
  /\ toClient' = [toClient EXCEPT ![h] = Tail(@)]
  /\ UNCHANGED <<target, near, core, toServer, mixed, farVars, used>>

-----------------------------------------------------------------------------
(* A server's host *)

nearVars == <<target, near, core>>

Excused(h, why) == [excuse EXCEPT ![h] = @ \union {why}]

\* The read loop of links[l] goes on with what has come: the size of a message, after
\* which it reads the rest; the hello, which it answers; or anything else, which is sent
\* to the client's host.  Without a route to that host the loop ends.
ReadOn(h, links, l) ==
  \/ /\ far' = [far EXCEPT ![h] = [links EXCEPT ![l].due = FALSE]]
     /\ UNCHANGED <<toClient, used>>
  \/ /\ far' = [far EXCEPT ![h] = [links EXCEPT ![l].due = FALSE, ![l].state = "open"]]
     /\ IF links[l].state = "new" THEN UNCHANGED <<toClient, used>>
        ELSE Chunk /\ toClient' = [toClient EXCEPT ![h] = Append(@, links[l].session)]
  \/ /\ links[l].state = "open" /\ Trouble
     /\ far' = [far EXCEPT ![h] = RemoveAt(links, l)]
     /\ UNCHANGED toClient

\* The links that outlive the announcement of a newer session.
Outlived(links) == [l \in DOMAIN links |-> [links[l] EXCEPT !.kept = TRUE]]

\* ClientProxyMessageHandler::handle(ProxyClientConnect): stop() cancels what the first
\* link of the client reads, and polls.  A pending read is aborted, and its link goes; one
\* that completed has its handler run in the poll, and the link stays.  Then connect is
\* started.
HandleConnectKeepsLink(h, m) ==
  /\ dials' = [dials EXCEPT ![h] = Append(@, [session |-> m.session, attempt |-> 1])]
  /\ excuse' = IF dials[h] # <<>> THEN Excused(h, "doubled") ELSE excuse
  /\ UNCHANGED <<far, mixed, toClient, used>>
HandleConnect(h, m) ==
  /\ IF far[h] # <<>> /\ far[h][1].due
     THEN ReadOn(h, Outlived(far[h]), 1)
     ELSE /\ far' = [far EXCEPT ![h] = IF @ = <<>> THEN @ ELSE Outlived(Tail(@))]
          /\ UNCHANGED <<toClient, used>>
  /\ dials' = [dials EXCEPT ![h] = Append(@, [session |-> m.session, attempt |-> 1])]
  /\ excuse' = IF dials[h] # <<>> THEN Excused(h, "doubled") ELSE excuse
  /\ UNCHANGED mixed

\* handle(CoreMessage): written to the first link of the client, dropped without one.
HandleData(h, m) ==
  /\ mixed' = \/ mixed
              \/ far[h] # <<>> /\ far[h][1].session # m.session /\ ~far[h][1].kept
  /\ UNCHANGED <<far, dials, excuse, toClient, used>>

Receive(h) ==
  /\ toServer[h] # <<>>
  /\ LET m == Head(toServer[h])
     IN  \/ m.kind = "connect" /\ HandleConnect(h, m)
         \/ m.kind = "data" /\ HandleData(h, m)
  /\ toServer' = [toServer EXCEPT ![h] = Tail(@)]
  /\ UNCHANGED <<nearVars, listening>>

\* ClientProxy::connect: the link is made, or tried again, or given up.
DialDone(h, d) ==
  /\ listening[h]
  /\ far' = [far EXCEPT ![h] = Append(@, [session |-> dials[h][d].session, state |-> "new",
                                          due |-> FALSE, kept |-> FALSE])]
  /\ dials' = [dials EXCEPT ![h] = RemoveAt(@, d)]
  /\ UNCHANGED <<nearVars, toServer, toClient, listening, mixed, excuse, used>>

DialOnce(h, d) ==
  /\ ~listening[h]
  /\ dials' = [dials EXCEPT ![h] = RemoveAt(@, d)]
  /\ UNCHANGED <<nearVars, toServer, toClient, far, listening, mixed, excuse, used>>
DialAgain(h, d) ==
  /\ ~listening[h]
  /\ IF dials[h][d].attempt < RetryLimit
     THEN dials' = [dials EXCEPT ![h][d].attempt = @ + 1] /\ UNCHANGED excuse
     ELSE dials' = [dials EXCEPT ![h] = RemoveAt(@, d)] /\ excuse' = Excused(h, "gave up")
  /\ UNCHANGED <<nearVars, toServer, toClient, far, listening, mixed, used>>

\* A read of link l completes.
Arrives(h, l) ==
  /\ ~far[h][l].due
  /\ far' = [far EXCEPT ![h][l].due = TRUE]
  /\ UNCHANGED <<nearVars, toServer, toClient, dials, listening, mixed, excuse, used>>

\* ClientProxyConnection::start: its handler runs.
ReadServer(h, l) ==
  /\ far[h][l].due /\ ReadOn(h, far[h], l)
  /\ UNCHANGED <<nearVars, toServer, dials, listening, mixed, excuse>>

\* The core server stops, and its links end; or it starts.
ServerStops(h) ==
  /\ listening[h] /\ Trouble
  /\ listening' = [listening EXCEPT ![h] = FALSE]
  /\ far' = [far EXCEPT ![h] = <<>>]
  /\ UNCHANGED <<nearVars, toServer, toClient, dials, mixed, excuse>>

ServerStarts(h) ==
  /\ ~listening[h]
  /\ listening' = [listening EXCEPT ![h] = TRUE]
  /\ UNCHANGED <<nearVars, toServer, toClient, dials, far, mixed, excuse, used>>

\* The connection of the routers breaks: what is under way is lost.
Lose(h) ==
  /\ Trouble
  /\ toServer' = [toServer EXCEPT ![h] = <<>>]
  /\ toClient' = [toClient EXCEPT ![h] = <<>>]
  /\ excuse' = IF \E m \in Range(toServer[h]) : m.kind = "connect"
               THEN Excused(h, "lost") ELSE excuse
  /\ UNCHANGED <<nearVars, mixed, dials, far, listening>>

-----------------------------------------------------------------------------
\* What io_service runs, the core client's answer to a hello, and CoreManager, which
\* starts a core server that stopped.
StreamHandler ==
  \/ \E k \in DOMAIN near : SayHello(k) \/ HelloBack(k) \/ NearEnds(k)
  \/ \E h \in Host : \/ Receive(h) \/ TakeBack(h) \/ ServerStarts(h)
                     \/ \E d \in DOMAIN dials[h] : DialDone(h, d) \/ DialAgain(h, d)

StreamNext ==
  \/ StreamHandler \/ Accept \/ CoreLeaves
  \/ \E k \in DOMAIN near : ReadCore(k)
  \/ \E h \in Host : \/ ProxyStart(h) \/ ServerStops(h) \/ Lose(h)
                     \/ \E l \in DOMAIN far[h] : Arrives(h, l) \/ ReadServer(h, l)

-----------------------------------------------------------------------------
(* Properties *)

\* Session k is under way to host h: announced, or being dialled.
UnderWay(h, k) ==
  \/ \E m \in Range(toServer[h]) : m.kind = "connect" /\ m.session = k
  \/ \E d \in Range(dials[h]) : d.session = k

Linked(h, k) == \E l \in Range(far[h]) : l.session = k

\* The links of h, and the attempts to make one, that no newer session outdates: one.
OneLive(h) ==
  /\ Len(dials[h]) <= 1
  /\ \A i, j \in DOMAIN far[h] : i # j => far[h][i].kept \/ far[h][j].kept
  /\ dials[h] # <<>> => \A i \in DOMAIN far[h] : far[h][i].kept

OpenSession(h, k) ==
  target = h /\ core = k /\ \E c \in Range(near) : c.session = k /\ c.state = "open"

\* What the core client of a session says goes to the link of that session: a host has
\* one link for the client, for the newest session it was told of, and no message is
\* written to the link of another.  There are three exceptions: two attempts to connect
\* ran at once (ClientProxy finds only links that exist, so the older attempt is not
\* cancelled); the message that announced the session was lost; or stop() was called on a
\* link whose read had completed, and that link, found first, takes what is said until it
\* ends.  The last one excuses what is written to that very link and nothing else.
LinkIsOwn ==
  LET Excusable(h) == excuse[h] \intersect {"doubled", "lost"} # {}
  IN  /\ mixed => \E h \in Host : Excusable(h)
      /\ \A h \in Host :
           \/ Excusable(h)
           \/ /\ OneLive(h)
              /\ \A k \in Session :
                   OpenSession(h, k) /\ (\E l \in Range(far[h]) : ~l.kept) /\ ~UnderWay(h, k)
                     => Linked(h, k)

\* A session that was announced gets its link, unless the announcement was lost or the
\* attempt used up its retries: an announcement that overtakes an attempt, or finds the
\* core server restarting, is not forgotten.
SessionLinked ==
  \A h \in Host : \A k \in Session :
    UnderWay(h, k) ~> (Linked(h, k) \/ excuse[h] \intersect {"lost", "gave up"} # {})
=============================================================================
