------------------------------- MODULE Router -------------------------------
(***************************************************************************)
(* The routers of several Synergy services joined by TCP connections.      *)
(*                                                                         *)
(* Each node runs one Router on a single-threaded io_service, so a handler *)
(* is one step.  A link is a TCP connection (at most one at a time between *)
(* a pair of addresses) and has two ends: Owner gives the node an end      *)
(* belongs to, Twin the other end.  A node keeps the ends it has in        *)
(* connections_ (phase "open") and a route table, and tells its neighbours *)
(* of what it installs and what it loses.  Connections break at any time;  *)
(* the two ends notice separately, and from some message on what was in    *)
(* flight is lost.                                                         *)
(***************************************************************************)
EXTENDS Routes

CONSTANTS
  Node,          \* router ids, compared by the order of routes
  Conn,          \* connection ends
  Owner, Twin,   \* the node of an end, and its other end
  MaxBreaks,     \* bound: how often a connection breaks
  MaxShutdowns,  \* bound: how often a router is shut down
  MaxHellos,     \* bound: rounds of the hello loop
  MaxSends       \* bound: messages given to Router::send

ASSUME NodeAssumption == Node \subseteq Nat
ASSUME ConnAssumption ==
  /\ Owner \in [Conn -> Node]
  /\ Twin \in [Conn -> Conn]
  /\ \A c \in Conn : Twin[c] # c /\ Twin[Twin[c]] = c
ASSUME BoundAssumption ==
  /\ MaxBreaks \in Nat /\ MaxShutdowns \in Nat
  /\ MaxHellos \in Nat /\ MaxSends \in Nat

VARIABLES
  running,  \* running_ of each router
  phase,    \* of an end: "closed", "ready" (handshake done, add due), "open"
  up,       \* ends whose TCP connection is alive
  inbox,    \* messages on their way to an end, oldest first
  table,    \* route_table_ of each router
  reach,    \* destinations given to on_node_reachable and not yet withdrawn
  spent     \* how much of each bound is used

vars == <<running, phase, up, inbox, table, reach, spent>>

Route == [dest : Node, cost : Nat, path : Seq(Node)]
Entry == [dest : Node, cost : Nat, path : Seq(Node), conn : Conn]

Advert(s, routes)     == [kind |-> "advert", sender |-> s, routes |-> routes]
Revocation(s, routes) == [kind |-> "revocation", sender |-> s, routes |-> routes]
Hello(s)              == [kind |-> "hello", sender |-> s]
\* trail: the nodes that have sent the message on, its source first.
Data(dest, trail)     == [kind |-> "data", dest |-> dest, trail |-> trail]

Message ==
  [kind : {"advert", "revocation"}, sender : Node, routes : SUBSET Route]
    \union [kind : {"hello"}, sender : Node]
    \union [kind : {"data"}, dest : Node, trail : Seq(Node)]

Spent == [breaks : Nat, shutdowns : Nat, hellos : Nat, sends : Nat]

Peer(c) == Owner[Twin[c]]

\* connections_ of n.
OpenEnds(n) == {c \in Conn : Owner[c] = n /\ phase[c] = "open"}

\* Whom n tells of a change that came through end c: flood and broadcast, both
\* silent once the router is shut down.
TellNobody(n, c, changed) == {}
Told(n, c, changed) ==
  IF running[n] /\ changed THEN OpenEnds(n) \ {c} ELSE {}

\* The channels after message m is sent on the ends in targets, box being the
\* channels before.  What is sent on a dead connection is lost.
Sent(box, targets, m) ==
  [d \in Conn |-> IF Twin[d] \in targets /\ d \in up THEN Append(box[d], m)
                  ELSE box[d]]

\* The channels once the first message to end c is taken.
Taken(c) == [inbox EXCEPT ![c] = Tail(@)]

IsNext(c, kind) == /\ phase[c] = "open"
                   /\ inbox[c] # <<>>
                   /\ Head(inbox[c]).kind = kind

\* Destinations that lose their last route when dead goes and left stays.
LosesRoute(dead, left) == Dests(dead)
Unreachable(dead, left) == Dests(dead) \ Dests(left)

Init ==
  /\ running = [n \in Node |-> TRUE]
  /\ phase = [c \in Conn |-> "closed"]
  /\ up = {}
  /\ inbox = [c \in Conn |-> <<>>]
  /\ table = [n \in Node |-> {}]
  /\ reach = [n \in Node |-> {}]
  /\ spent = [breaks |-> 0, shutdowns |-> 0, hellos |-> 0, sends |-> 0]
-----------------------------------------------------------------------------
(* Connections *)

\* add_peer on one side and the accept loop on the other get a connection
\* through: neither has one for these addresses, and the handshake succeeds.
Connect(c) ==
  /\ running[Owner[c]] /\ running[Peer(c)]
  /\ phase[c] = "closed" /\ phase[Twin[c]] = "closed"
  /\ up' = up \union {c, Twin[c]}
  /\ phase' = [phase EXCEPT ![c] = "ready", ![Twin[c]] = "ready"]
  /\ UNCHANGED <<running, inbox, table, reach, spent>>

\* What on_connected tells a new neighbour: the node itself and its whole table.
TableRoutes(n) == {RouteOf(e) : e \in table[n]}
KnownEntries(n) == {SelfRoute(n)} \union table[n]
KnownRoutes(n) == {SelfRoute(n)} \union TableRoutes(n)

Add(c) ==
  /\ phase[c] = "ready"
  /\ phase' = [phase EXCEPT ![c] = "open"]
  /\ inbox' = Sent(inbox, {c}, Advert(Owner[c], KnownRoutes(Owner[c])))
  /\ UNCHANGED <<running, up, table, reach, spent>>

\* Router::remove of end c, box being the channels before it: the routes learnt
\* on c go, the remaining neighbours are told of them, and the destinations left
\* without a route become unreachable.
Remove(c, box) ==
  LET n    == Owner[c]
      dead == {e \in table[n] : e.conn = c}
      left == table[n] \ dead
      news == Revocation(n, {RouteOf(e) : e \in dead})
  IN  /\ table' = [table EXCEPT ![n] = left]
      /\ phase' = [phase EXCEPT ![c] = "closed"]
      /\ up' = up \ {c, Twin[c]}
      /\ inbox' = [Sent(box, Told(n, c, dead # {}), news) EXCEPT ![c] = <<>>]
      /\ reach' = [reach EXCEPT ![n] = @ \ Unreachable(dead, left)]

\* The connection under end c fails.
Break(c) ==
  /\ c \in up
  /\ spent.breaks < MaxBreaks
  /\ up' = up \ {c, Twin[c]}
  /\ spent' = [spent EXCEPT !.breaks = @ + 1]
  /\ UNCHANGED <<running, phase, inbox, table, reach>>

\* The read loop of end c gets an error and raises on_disconnect; messages it has
\* not read are gone.  The slot's add_peer is a later Connect.
Disconnect(c) ==
  /\ phase[c] = "open"
  /\ c \notin up
  /\ Remove(c, inbox)
  /\ UNCHANGED <<running, spent>>

\* Router::shutdown: running_ is cleared first, so the removals tell nobody.
Shutdown(n) ==
  LET mine == OpenEnds(n)
      left == {e \in table[n] : e.conn \notin mine}
  IN  /\ running[n]
      /\ spent.shutdowns < MaxShutdowns
      /\ running' = [running EXCEPT ![n] = FALSE]
      /\ phase' = [c \in Conn |-> IF c \in mine THEN "closed" ELSE phase[c]]
      /\ up' = {c \in up : c \notin mine /\ Twin[c] \notin mine}
      /\ inbox' = [c \in Conn |-> IF c \in mine THEN <<>> ELSE inbox[c]]
      /\ table' = [table EXCEPT ![n] = left]
      /\ reach' = [reach EXCEPT ![n] = @ \ Unreachable(table[n] \ left, left)]
      /\ spent' = [spent EXCEPT !.shutdowns = @ + 1]

\* Router::start.
Start(n) ==
  /\ ~running[n]
  /\ running' = [running EXCEPT ![n] = TRUE]
  /\ UNCHANGED <<phase, up, inbox, table, reach, spent>>
-----------------------------------------------------------------------------
(* Messages *)

\* integrate(RouteAdvertisement): install what is new and good enough, announce
\* new destinations, and pass on what was installed.
ReceiveAdvert(c) ==
  LET n       == Owner[c]
      m       == Head(inbox[c])
      offered == UsableRoutes(n, m.sender, m.routes) \ TableRoutes(n)
      kept    == KeepBest(table[n] \union {EntryOf(r, c) : r \in offered})
      fresh   == {r \in offered : EntryOf(r, c) \in kept}
      told    == Told(n, c, fresh # {})
  IN  /\ IsNext(c, "advert")
      /\ IF m.sender = n
         THEN inbox' = Taken(c) /\ UNCHANGED <<table, reach>>
         ELSE /\ table' = [table EXCEPT ![n] = kept]
              /\ inbox' = Sent(Taken(c), told, Advert(n, fresh))
              /\ reach' = [reach EXCEPT ![n] =
                             @ \union (Dests(fresh) \ Dests(table[n]))]
      /\ UNCHANGED <<running, phase, up, spent>>

\* integrate(RouteRevocation): drop the routes named, whichever connection they
\* were learnt on, and if one was dropped pass all of them on.
ReceiveRevocation(c) ==
  LET n    == Owner[c]
      m    == Head(inbox[c])
      gone == UsableRoutes(n, m.sender, m.routes)
      dead == {e \in table[n] : RouteOf(e) \in gone}
      left == table[n] \ dead
      told == Told(n, c, dead # {})
  IN  /\ IsNext(c, "revocation")
      /\ IF m.sender = n
         THEN inbox' = Taken(c) /\ UNCHANGED <<table, reach>>
         ELSE /\ table' = [table EXCEPT ![n] = left]
              /\ inbox' = Sent(Taken(c), told, Revocation(n, gone))
              /\ reach' = [reach EXCEPT ![n] = @ \ Unreachable(dead, left)]
      /\ UNCHANGED <<running, phase, up, spent>>

\* One round of the hello loop.
SayHello(n) ==
  /\ running[n]
  /\ spent.hellos < MaxHellos
  /\ inbox' = Sent(inbox, OpenEnds(n), Hello(n))
  /\ spent' = [spent EXCEPT !.hellos = @ + 1]
  /\ UNCHANGED <<running, phase, up, table, reach>>

\* A hello of one's own shows that the connection leads back to this router.
ReceiveHello(c) ==
  /\ IsNext(c, "hello")
  /\ IF Head(inbox[c]).sender = Owner[c]
     THEN Remove(c, Taken(c))
     ELSE inbox' = Taken(c) /\ UNCHANGED <<phase, up, table, reach>>
  /\ UNCHANGED <<running, spent>>

\* forward: the best route to dest decides; without one the message is dropped.
Forwarded(n, box, dest, trail) ==
  IF dest \in Dests(table[n])
  THEN Sent(box, {BestRoute(table[n], dest).conn}, Data(dest, Append(trail, n)))
  ELSE box

\* Router::send, to a destination with a route; without one nothing happens.
Send(n, dest) ==
  /\ spent.sends < MaxSends
  /\ dest \in Dests(table[n])
  /\ inbox' = Forwarded(n, inbox, dest, <<>>)
  /\ spent' = [spent EXCEPT !.sends = @ + 1]
  /\ UNCHANGED <<running, phase, up, table, reach>>

\* on_message for a message with a destination: keep it or forward it.
ReceiveData(c) ==
  LET m == Head(inbox[c])
  IN  /\ IsNext(c, "data")
      /\ inbox' = IF m.dest = Owner[c] THEN Taken(c)
                  ELSE Forwarded(Owner[c], Taken(c), m.dest, m.trail)
      /\ UNCHANGED <<running, phase, up, table, reach, spent>>
-----------------------------------------------------------------------------
Receive(c) == \/ ReceiveAdvert(c) \/ ReceiveRevocation(c)
              \/ ReceiveHello(c)  \/ ReceiveData(c)

Next ==
  \/ \E c \in Conn : \/ Connect(c) \/ Add(c) \/ Break(c) \/ Disconnect(c)
                     \/ Receive(c)
  \/ \E n \in Node : \/ Shutdown(n) \/ Start(n) \/ SayHello(n)
                     \/ \E dest \in Node : Send(n, dest)

Spec == Init /\ [][Next]_vars

\* The io_service of some router with a handler to run runs one: an end whose
\* handshake is done is added, what can be read is read, and a dead socket reports
\* its error.  Every such step uses something up, so no end is left waiting for ever.
Fairness == WF_vars(\E c \in Conn : Add(c) \/ Receive(c) \/ Disconnect(c))
-----------------------------------------------------------------------------
(* Properties *)

TypeOK ==
  /\ running \in [Node -> BOOLEAN]
  /\ phase \in [Conn -> {"closed", "ready", "open"}]
  /\ up \subseteq Conn
  /\ inbox \in [Conn -> Seq(Message)]
  /\ table \in [Node -> SUBSET Entry]
  /\ reach \in [Node -> SUBSET Node]
  /\ spent \in Spent

\* A route node n may hold or advertise: it does not return to n, visits no node
\* twice, ends at its destination and costs its length.
SoundRoute(n, r) ==
  /\ r.cost = Len(r.path)
  /\ \A i \in 1..Len(r.path) : r.path[i] # n
  /\ \A i, j \in 1..Len(r.path) : i # j => r.path[i] # r.path[j]
  /\ IF r.path = <<>> THEN r.dest = n ELSE r.path[Len(r.path)] = r.dest

\* Every entry of a route table is loop-free and leads, through an open connection
\* of this very node, first to the neighbour at its other end (integrate and remove:
\* route_table_ holds raw Connection pointers, so a stale entry is a dangling one).
RoutesSound ==
  \A n \in Node : \A e \in table[n] :
    /\ SoundRoute(n, e)
    /\ e.path # <<>>
    /\ Owner[e.conn] = n /\ phase[e.conn] = "open"
    /\ e.path[1] = Peer(e.conn)

\* on_node_reachable and on_node_unreachable are raised in such an order that their
\* listeners agree with the route table (integrate, remove).
SignalsMatchTable == \A n \in Node : reach[n] = Dests(table[n])

\* No message is under way and every end knows the state of its connection.
Quiet ==
  \A c \in Conn : /\ inbox[c] = <<>>
                  /\ phase[c] = IF c \in up THEN "open" ELSE "closed"

Linked(a, b) == \E c \in up : Owner[c] = a /\ Peer(c) = b

\* The sequences of distinct nodes.
SimplePaths ==
  UNION {{p \in [1..k -> Node] : \A i, j \in 1..k : i # j => p[i] # p[j]} :
           k \in 1..Cardinality(Node)}

\* The routes node n has in the network as it is.
ActualRoutes(n) ==
  {[dest |-> p[Len(p)], cost |-> Len(p), path |-> p] :
     p \in {q \in SimplePaths : /\ ~Visits(q, n)
                                /\ Linked(n, q[1])
                                /\ \A i \in 1..(Len(q) - 1) : Linked(q[i], q[i + 1])}}

\* Whatever connections came and went, and in whatever order the two ends noticed,
\* once the network is quiet every router knows exactly the routes there are: no
\* advertisement or revocation was lost, applied to the wrong route or too late.
\* (While no destination has more routes than the limit, and routers keep running.)
Converged == Quiet => \A n \in Node : TableRoutes(n) = ActualRoutes(n)

\* A router is reachable for as long as there is a connection to it: remove says
\* "Remove effected destinations if there is still a way to reach them".
NeighbourReachable ==
  Quiet => \A c \in up : Owner[c] # Peer(c) => Peer(c) \in reach[Owner[c]]

\* A message is never forwarded to a router it has already been at, although every
\* router picks the next hop from its own table, which may be out of date (forward:
\* "TODO: enforce TTL").
NoForwardingLoop ==
  \A c \in Conn : \A k \in 1..Len(inbox[c]) :
    inbox[c][k].kind = "data" =>
      LET trail == inbox[c][k].trail
      IN  \A i, j \in 1..Len(trail) :
            /\ i # j => trail[i] # trail[j]
            /\ trail[i] # Owner[c]

=============================================================================
