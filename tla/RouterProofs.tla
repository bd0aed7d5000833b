---------------------------- MODULE RouterProofs ----------------------------
(***************************************************************************)
(* Proofs about Router, for any set of routers and links, any route limit  *)
(* and any bounds.  RoutesSound is not inductive by itself: what a router  *)
(* installs it takes from a message, so the invariant also says that every *)
(* message under way comes from the neighbour at the other end and names   *)
(* only routes that are sound for that neighbour (MessagesSound).  That    *)
(* the signals match the table needs one more fact about the model: there  *)
(* are finitely many routes, and the best of finitely many is kept.        *)
(* That quiet routers hold the routes there are, no more and no fewer,     *)
(* takes an invariant about what each channel will have told its reader;   *)
(* that no message is forwarded in a circle, one about the way ahead of it.*)
(***************************************************************************)
EXTENDS Router, SequenceTheorems, FiniteSetTheorems, WellFoundedInduction, TLAPS

\* There is a link between a and b, in the network that is modelled.
Joined(a, b) == \E c \in Conn : Owner[c] = a /\ Peer(c) = b

\* The path that leads away from n takes such links only.
OnLinks(n, path) ==
  \A i \in 1..Len(path) : Joined(IF i = 1 THEN n ELSE path[i - 1], path[i])

GoodRoute(n, r) == SoundRoute(n, r) /\ OnLinks(n, r.path)

\* RoutesSound, and that routes are made of links.
TablesSound ==
  \A n \in Node : \A e \in table[n] :
    /\ GoodRoute(n, e)
    /\ e.path # <<>>
    /\ Owner[e.conn] = n /\ phase[e.conn] = "open"
    /\ e.path[1] = Peer(e.conn)

SoundMessage(c, m) ==
  m.kind \in {"advert", "revocation"} =>
    /\ m.sender = Peer(c)
    /\ \A r \in m.routes : GoodRoute(m.sender, r)

\* The channels box hold typed messages, each sound for the end it is on its way to.
SoundBox(box) ==
  /\ box \in [Conn -> Seq(Message)]
  /\ \A c \in Conn : \A k \in 1..Len(box[c]) : SoundMessage(c, box[c][k])

MessagesSound == SoundBox(inbox)

IInv == TypeOK /\ TablesSound /\ MessagesSound
-----------------------------------------------------------------------------
(* Routes *)

\* What a node makes of a neighbour's sound routes is sound for the node itself
\* and leads first to the neighbour (integrate: the loop checks and the new path).
LEMMA UsableSound ==
  ASSUME NEW n \in Node, NEW s \in Node, n # s, Joined(n, s),
         NEW routes \in SUBSET Route, \A r \in routes : GoodRoute(s, r),
         NEW x \in UsableRoutes(n, s, routes)
  PROVE  x \in Route /\ GoodRoute(n, x) /\ x.path # <<>> /\ x.path[1] = s
<1>1. PICK r \in routes : x = Extend(r, s) /\ r.dest # n /\ ~Visits(r.path, n)
  BY DEF UsableRoutes
<1>2. r \in Route /\ GoodRoute(s, r)
  OBVIOUS
<1>3. /\ x.dest = r.dest /\ x.cost = r.cost + 1 /\ x.path = <<s>> \o r.path
      /\ r.dest \in Node /\ r.cost \in Nat /\ r.path \in Seq(Node)
  BY <1>1, <1>2 DEF Extend, Route
<1>4. /\ x.path \in Seq(Node)
      /\ Len(x.path) = Len(r.path) + 1
      /\ x.path[1] = s
      /\ \A i \in 2..Len(x.path) : x.path[i] = r.path[i - 1]
  BY <1>3
<1>5. x \in Route /\ x.path # <<>>
  BY <1>1, <1>3, <1>4 DEF Extend, Route
<1>6. \A i \in 1..Len(x.path) : x.path[i] # n
  BY <1>1, <1>3, <1>4 DEF Visits
<1>7. \A i, j \in 1..Len(x.path) : i # j => x.path[i] # x.path[j]
  <2>1. Len(r.path) \in Nat /\ r.path \in Seq(Node)
    BY <1>3
  <2>2. \A i \in 2..Len(x.path) : i - 1 \in 1..Len(r.path)
    BY <1>4, <2>1
  <2>3. \A i \in 2..Len(x.path) : x.path[i] # s
    <3>1. \A i \in 1..Len(r.path) : r.path[i] # s
      BY <1>2 DEF GoodRoute, SoundRoute
    <3>2. QED
      BY <1>4, <2>2, <3>1
  <2>4. ASSUME NEW i \in 2..Len(x.path), NEW j \in 2..Len(x.path), i # j
        PROVE  x.path[i] # x.path[j]
    <3>1. r.path[i - 1] # r.path[j - 1]
      <4>1. i - 1 # j - 1
        BY <2>4
      <4>2. QED
        BY <1>2, <2>2, <4>1 DEF GoodRoute, SoundRoute
    <3>2. QED
      BY <1>4, <3>1
  <2>5. \A i \in 1..Len(x.path) : i = 1 \/ i \in 2..Len(x.path)
    BY <1>4, <2>1
  <2>6. QED
    BY <1>4, <2>3, <2>4, <2>5
<1>8. x.path[Len(x.path)] = x.dest
  <2>1. CASE r.path = <<>>
    BY <2>1, <1>2, <1>3, <1>4 DEF GoodRoute, SoundRoute
  <2>2. CASE r.path # <<>>
    BY <2>2, <1>2, <1>3, <1>4 DEF GoodRoute, SoundRoute
  <2>3. QED
    BY <2>1, <2>2
<1>9. x.cost = Len(x.path)
  BY <1>2, <1>3, <1>4 DEF GoodRoute, SoundRoute
<1>10. OnLinks(n, x.path)
  <2>1. SUFFICES ASSUME NEW i \in 1..Len(x.path)
                 PROVE  Joined(IF i = 1 THEN n ELSE x.path[i - 1], x.path[i])
    BY DEF OnLinks
  <2>2. CASE i = 1
    BY <2>2, <1>4
  <2>3. CASE i # 1
    <3>1. i - 1 \in 1..Len(r.path) /\ x.path[i] = r.path[i - 1]
      BY <2>3, <1>3, <1>4
    <3>2. x.path[i - 1] = IF i - 1 = 1 THEN s ELSE r.path[(i - 1) - 1]
      BY <2>3, <1>3, <1>4, <3>1
    <3>3. QED
      BY <1>2, <2>3, <3>1, <3>2 DEF GoodRoute, OnLinks
  <2>4. QED
    BY <2>2, <2>3
<1>11. QED
  BY <1>4, <1>5, <1>6, <1>7, <1>8, <1>9, <1>10 DEF GoodRoute, SoundRoute

\* The routes in a node's table are typed, and sound if the table is.
LEMMA TableRoutesSound ==
  ASSUME TypeOK, TablesSound, NEW n \in Node, NEW T \in SUBSET table[n]
  PROVE  /\ {RouteOf(e) : e \in T} \in SUBSET Route
         /\ \A r \in {RouteOf(e) : e \in T} : GoodRoute(n, r)
<1>1. SUFFICES ASSUME NEW e \in T
               PROVE  RouteOf(e) \in Route /\ GoodRoute(n, RouteOf(e))
  OBVIOUS
<1>2. e \in Entry /\ GoodRoute(n, e)
  BY DEF TypeOK, TablesSound
<1>3. QED
  BY <1>2 DEF Entry, Route, RouteOf, GoodRoute, SoundRoute, OnLinks, Joined
-----------------------------------------------------------------------------
(* Channels *)

\* Sending keeps the channels sound if the message suits every end it goes to.
LEMMA SentSound ==
  ASSUME NEW box, SoundBox(box), NEW targets, NEW m \in Message,
         \A d \in Conn : Twin[d] \in targets => SoundMessage(d, m)
  PROVE  SoundBox(Sent(box, targets, m))
<1> DEFINE sent == Sent(box, targets, m)
<1>1. ASSUME NEW d \in Conn
      PROVE  /\ sent[d] \in Seq(Message)
             /\ \A k \in 1..Len(sent[d]) : SoundMessage(d, sent[d][k])
  <2>1. box[d] \in Seq(Message) /\ \A k \in 1..Len(box[d]) : SoundMessage(d, box[d][k])
    BY DEF SoundBox
  <2>2. CASE Twin[d] \in targets /\ d \in up
    <3>1. sent[d] = Append(box[d], m)
      BY <2>2 DEF Sent
    <3>2. /\ Len(sent[d]) = Len(box[d]) + 1
          /\ \A k \in 1..Len(box[d]) : sent[d][k] = box[d][k]
          /\ sent[d][Len(box[d]) + 1] = m
          /\ sent[d] \in Seq(Message)
      BY <2>1, <3>1
    <3>3. SoundMessage(d, m)
      BY <2>2
    <3>4. QED
      BY <2>1, <3>2, <3>3
  <2>3. CASE ~(Twin[d] \in targets /\ d \in up)
    BY <2>1, <2>3 DEF Sent
  <2>4. QED
    BY <2>2, <2>3
<1>2. sent \in [Conn -> Seq(Message)]
  BY <1>1 DEF Sent
<1>3. QED
  BY <1>1, <1>2 DEF SoundBox

\* Taking the first message of a channel, or dropping a channel, keeps them sound.
LEMMA TakenSound ==
  ASSUME MessagesSound, NEW c \in Conn, inbox[c] # <<>>
  PROVE  SoundBox(Taken(c))
<1>1. inbox \in [Conn -> Seq(Message)]
  BY DEF MessagesSound, SoundBox
<1>2. /\ Tail(inbox[c]) \in Seq(Message)
      /\ \A k \in 1..Len(Tail(inbox[c])) :
           k + 1 \in 1..Len(inbox[c]) /\ Tail(inbox[c])[k] = inbox[c][k + 1]
  BY <1>1
<1>3. \A k \in 1..Len(Tail(inbox[c])) : SoundMessage(c, Tail(inbox[c])[k])
  BY <1>2 DEF MessagesSound, SoundBox
<1>4. QED
  BY <1>1, <1>2, <1>3 DEF MessagesSound, SoundBox, Taken

\* Emptying a channel leaves the rest sound.
LEMMA DroppedSound ==
  ASSUME NEW box, SoundBox(box), NEW c \in Conn
  PROVE  SoundBox([box EXCEPT ![c] = <<>>])
<1>1. <<>> \in Seq(Message) /\ Len(<<>>) = 0
  OBVIOUS
<1>2. QED
  BY <1>1 DEF SoundBox

\* The message that a node reads next is typed, and sound for the end it came to.
LEMMA HeadSound ==
  ASSUME MessagesSound, NEW c \in Conn, inbox[c] # <<>>
  PROVE  Head(inbox[c]) \in Message /\ SoundMessage(c, Head(inbox[c]))
<1>1. inbox[c] \in Seq(Message) /\ 1 \in 1..Len(inbox[c])
  BY DEF MessagesSound, SoundBox
<1>2. Head(inbox[c]) = inbox[c][1] /\ Head(inbox[c]) \in Message
  BY <1>1
<1>3. QED
  BY <1>1, <1>2 DEF MessagesSound, SoundBox

\* A message about sound routes that node n sends on ends of its own is sound.
LEMMA NewsSound ==
  ASSUME NEW n \in Node, NEW kind \in {"advert", "revocation"},
         NEW routes \in SUBSET Route, \A r \in routes : GoodRoute(n, r),
         NEW targets, \A t \in targets : t \in Conn => Owner[t] = n,
         NEW m, m = [kind |-> kind, sender |-> n, routes |-> routes],
         NEW box, SoundBox(box)
  PROVE  SoundBox(Sent(box, targets, m))
<1>1. m \in Message
  BY DEF Message
<1>2. \A d \in Conn : Twin[d] \in targets => SoundMessage(d, m)
  BY ConnAssumption DEF SoundMessage, Peer
<1>3. QED
  BY <1>1, <1>2, SentSound
-----------------------------------------------------------------------------
(* Steps *)

\* Routers start without routes or messages.
LEMMA InitSound == Init => IInv
<1> SUFFICES ASSUME Init PROVE IInv
  OBVIOUS
<1>1. TypeOK
  BY DEF Init, TypeOK, Spent
<1>2. TablesSound
  BY DEF Init, TablesSound
<1>3. MessagesSound
  BY DEF Init, MessagesSound, SoundBox
<1>4. QED
  BY <1>1, <1>2, <1>3 DEF IInv

\* What Remove of an open end does: the table keeps only entries of other ends.
LEMMA RemoveSound ==
  ASSUME IInv, NEW c \in Conn, phase[c] = "open", NEW box, SoundBox(box),
         Remove(c, box), UNCHANGED <<running, spent>>
  PROVE  IInv'
<1> DEFINE n    == Owner[c]
           dead == {e \in table[n] : e.conn = c}
           left == table[n] \ dead
           gone == {RouteOf(e) : e \in dead}
           told == Told(n, c, dead # {})
<1>1. n \in Node
  BY ConnAssumption
<1>2. /\ table' = [table EXCEPT ![n] = left]
      /\ phase' = [phase EXCEPT ![c] = "closed"]
      /\ up' = up \ {c, Twin[c]}
      /\ inbox' = [Sent(box, told, Revocation(n, gone)) EXCEPT ![c] = <<>>]
      /\ reach' = [reach EXCEPT ![n] = @ \ Unreachable(dead, left)]
  BY DEF Remove
<1>3. TypeOK /\ TablesSound
  BY DEF IInv
<1>4. gone \in SUBSET Route /\ \A r \in gone : GoodRoute(n, r)
  BY <1>1, <1>3, TableRoutesSound
<1>5. \A t \in told : t \in Conn => Owner[t] = n
  BY DEF Told, OpenEnds
<1>6. SoundBox(Sent(box, told, Revocation(n, gone)))
  BY <1>1, <1>4, <1>5, NewsSound DEF Revocation
<1>7. SoundBox(inbox')
  BY <1>2, <1>6, DroppedSound
<1>8. MessagesSound'
  BY <1>7 DEF MessagesSound, SoundBox, SoundMessage, Peer, GoodRoute, SoundRoute, OnLinks, Joined
<1>9. TablesSound'
  <2>1. ASSUME NEW k \in Node, NEW e \in table'[k]
        PROVE  e \in table[k] /\ e.conn # c
    <3>1. CASE k = n
      BY <3>1, <1>2, <1>3 DEF TypeOK
    <3>2. CASE k # n
      BY <3>2, <1>2, <1>3 DEF TypeOK, TablesSound
    <3>3. QED
      BY <3>1, <3>2
  <2>2. ASSUME NEW k \in Node, NEW e \in table'[k]
        PROVE  phase'[e.conn] = "open"
    <3>1. e \in table[k] /\ e.conn # c
      BY <2>1
    <3>2. e.conn \in Conn /\ phase[e.conn] = "open"
      BY <3>1, <1>3 DEF TypeOK, Entry, TablesSound
    <3>3. QED
      BY <3>1, <3>2, <1>2, <1>3 DEF TypeOK
  <2>3. QED
    BY <2>1, <2>2, <1>3 DEF TablesSound, GoodRoute, SoundRoute, OnLinks, Joined, Peer
<1>10. TypeOK'
  <2>1. table' \in [Node -> SUBSET Entry]
    BY <1>2, <1>3 DEF TypeOK
  <2>2. inbox' \in [Conn -> Seq(Message)]
    BY <1>7 DEF SoundBox
  <2>3. phase' \in [Conn -> {"closed", "ready", "open"}] /\ up' \subseteq Conn
    BY <1>2, <1>3 DEF TypeOK
  <2>4. reach' \in [Node -> SUBSET Node]
    BY <1>2, <1>3 DEF TypeOK
  <2>5. running' = running /\ spent' = spent
    OBVIOUS
  <2>6. QED
    BY <2>1, <2>2, <2>3, <2>4, <2>5, <1>3 DEF TypeOK
<1>11. QED
  BY <1>8, <1>9, <1>10 DEF IInv

\* A step that leaves the tables alone, closes nothing and keeps the channels sound
\* keeps the invariant.
LEMMA TablesKept ==
  ASSUME IInv, UNCHANGED table,
         \A c \in Conn : phase[c] = "open" => phase'[c] = "open",
         SoundBox(inbox'), TypeOK'
  PROVE  IInv'
<1>1. MessagesSound'
  BY DEF MessagesSound, SoundBox, SoundMessage, Peer, GoodRoute, SoundRoute, OnLinks, Joined
<1>2. TablesSound'
  BY DEF IInv, TablesSound, GoodRoute, SoundRoute, OnLinks, Joined, Peer, TypeOK, Entry
<1>3. QED
  BY <1>1, <1>2 DEF IInv

\* What is installed from an advertisement is sound, and so is what is passed on.
LEMMA ReceiveAdvertSound ==
  ASSUME IInv, NEW c \in Conn, ReceiveAdvert(c)
  PROVE  IInv'
<1> DEFINE n       == Owner[c]
           m       == Head(inbox[c])
           usable  == UsableRoutes(n, m.sender, m.routes)
           offered == usable \ TableRoutes(n)
           kept    == KeepBest(table[n] \union {EntryOf(r, c) : r \in offered})
           fresh   == {r \in offered : EntryOf(r, c) \in kept}
           told    == Told(n, c, fresh # {})
<1>1. /\ n \in Node
      /\ phase[c] = "open" /\ inbox[c] # <<>> /\ m.kind = "advert"
      /\ UNCHANGED <<running, phase, up, spent>>
      /\ TypeOK /\ TablesSound /\ MessagesSound
  BY ConnAssumption DEF ReceiveAdvert, IsNext, IInv
<1>2. SoundBox(Taken(c))
  BY <1>1, TakenSound
<1>3. CASE m.sender = n
  <2>1. inbox' = Taken(c) /\ UNCHANGED <<table, reach>>
    BY <1>3 DEF ReceiveAdvert
  <2>2. TypeOK'
    BY <1>1, <1>2, <2>1 DEF TypeOK, SoundBox
  <2>3. QED
    BY <1>1, <1>2, <2>1, <2>2, TablesKept
<1>4. CASE m.sender # n
  <2>1. /\ table' = [table EXCEPT ![n] = kept]
        /\ inbox' = Sent(Taken(c), told, Advert(n, fresh))
        /\ reach' = [reach EXCEPT ![n] = @ \union (Dests(fresh) \ Dests(table[n]))]
    BY <1>4 DEF ReceiveAdvert
  <2>2. m \in Message /\ SoundMessage(c, m)
    BY <1>1, HeadSound
  <2>3. /\ m.sender \in Node /\ m.routes \in SUBSET Route
        /\ m.sender = Peer(c)
        /\ \A r \in m.routes : GoodRoute(m.sender, r)
        /\ Joined(n, m.sender)
    BY <2>2, <1>1 DEF Message, SoundMessage, Joined
  <2>4. \A r \in usable : /\ r \in Route /\ GoodRoute(n, r)
                          /\ r.path # <<>> /\ r.path[1] = Peer(c)
    BY <1>1, <1>4, <2>3, UsableSound
  <2>5. fresh \in SUBSET Route /\ \A r \in fresh : GoodRoute(n, r)
    BY <2>4
  <2>6. \A t \in told : t \in Conn => Owner[t] = n
    BY DEF Told, OpenEnds
  <2>7. SoundBox(inbox')
    BY <1>1, <1>2, <2>1, <2>5, <2>6, NewsSound DEF Advert
  <2>8. ASSUME NEW e \in kept
        PROVE  \/ e \in table[n]
               \/ /\ e \in Entry /\ GoodRoute(n, e) /\ e.path # <<>>
                  /\ e.conn = c /\ e.path[1] = Peer(c)
    <3>1. e \in table[n] \/ \E r \in offered : e = EntryOf(r, c)
      BY DEF KeepBest
    <3>2. ASSUME NEW r \in offered, e = EntryOf(r, c)
          PROVE  /\ e \in Entry /\ GoodRoute(n, e) /\ e.path # <<>>
                 /\ e.conn = c /\ e.path[1] = Peer(c)
      <4>1. /\ r \in Route /\ GoodRoute(n, r)
            /\ r.path # <<>> /\ r.path[1] = Peer(c)
        BY <2>4
      <4>2. QED
        BY <3>2, <4>1 DEF EntryOf, Entry, Route, GoodRoute, SoundRoute, OnLinks, Joined
    <3>3. QED
      BY <3>1, <3>2
  <2>9. TablesSound'
    <3>0. phase' = phase
      BY <1>1
    <3>1. SUFFICES ASSUME NEW k \in Node, NEW e \in table'[k]
                   PROVE  /\ GoodRoute(k, e) /\ e.path # <<>>
                          /\ Owner[e.conn] = k /\ phase[e.conn] = "open"
                          /\ e.path[1] = Peer(e.conn)
      BY <3>0 DEF TablesSound, GoodRoute, SoundRoute, OnLinks, Joined, Peer
    <3>2. CASE e \in table[k]
      BY <3>2, <1>1 DEF TablesSound
    <3>3. CASE e \notin table[k]
      <4>1. k = n /\ e \in kept
        BY <3>3, <2>1, <1>1 DEF TypeOK
      <4>2. QED
        BY <3>3, <4>1, <2>8, <1>1
    <3>4. QED
      BY <3>2, <3>3
  <2>10. TypeOK'
    <3>1. kept \subseteq Entry
      BY <2>8, <1>1 DEF TypeOK
    <3>2. table' \in [Node -> SUBSET Entry]
      BY <3>1, <2>1, <1>1 DEF TypeOK
    <3>3. Dests(fresh) \subseteq Node
      BY <2>5 DEF Dests, Route
    <3>4. reach' \in [Node -> SUBSET Node]
      BY <3>3, <2>1, <1>1 DEF TypeOK
    <3>5. QED
      BY <3>2, <3>4, <2>7, <1>1 DEF TypeOK, SoundBox
  <2>11. MessagesSound'
    BY <2>7 DEF MessagesSound, SoundBox, SoundMessage, Peer, GoodRoute, SoundRoute, OnLinks, Joined
  <2>12. QED
    BY <2>9, <2>10, <2>11 DEF IInv
<1>5. QED
  BY <1>3, <1>4

\* A revocation removes entries and passes on sound routes.
LEMMA ReceiveRevocationSound ==
  ASSUME IInv, NEW c \in Conn, ReceiveRevocation(c)
  PROVE  IInv'
<1> DEFINE n    == Owner[c]
           m    == Head(inbox[c])
           gone == UsableRoutes(n, m.sender, m.routes)
           dead == {e \in table[n] : RouteOf(e) \in gone}
           left == table[n] \ dead
           told == Told(n, c, dead # {})
<1>1. /\ n \in Node
      /\ phase[c] = "open" /\ inbox[c] # <<>> /\ m.kind = "revocation"
      /\ UNCHANGED <<running, phase, up, spent>>
      /\ TypeOK /\ TablesSound /\ MessagesSound
  BY ConnAssumption DEF ReceiveRevocation, IsNext, IInv
<1>2. SoundBox(Taken(c))
  BY <1>1, TakenSound
<1>3. CASE m.sender = n
  <2>1. inbox' = Taken(c) /\ UNCHANGED <<table, reach>>
    BY <1>3 DEF ReceiveRevocation
  <2>2. TypeOK'
    BY <1>1, <1>2, <2>1 DEF TypeOK, SoundBox
  <2>3. QED
    BY <1>1, <1>2, <2>1, <2>2, TablesKept
<1>4. CASE m.sender # n
  <2>1. /\ table' = [table EXCEPT ![n] = left]
        /\ inbox' = Sent(Taken(c), told, Revocation(n, gone))
        /\ reach' = [reach EXCEPT ![n] = @ \ Unreachable(dead, left)]
    BY <1>4 DEF ReceiveRevocation
  <2>2. m \in Message /\ SoundMessage(c, m)
    BY <1>1, HeadSound
  <2>3. /\ m.sender \in Node /\ m.routes \in SUBSET Route
        /\ \A r \in m.routes : GoodRoute(m.sender, r)
        /\ Joined(n, m.sender)
    BY <2>2, <1>1 DEF Message, SoundMessage, Joined
  <2>4. gone \in SUBSET Route /\ \A r \in gone : GoodRoute(n, r)
    BY <1>1, <1>4, <2>3, UsableSound
  <2>5. \A t \in told : t \in Conn => Owner[t] = n
    BY DEF Told, OpenEnds
  <2>6. SoundBox(inbox')
    BY <1>1, <1>2, <2>1, <2>4, <2>5, NewsSound DEF Revocation
  <2>7. \A k \in Node : table'[k] \subseteq table[k]
    BY <2>1, <1>1 DEF TypeOK
  <2>8. TablesSound'
    BY <2>7, <1>1 DEF TablesSound, GoodRoute, SoundRoute, OnLinks, Joined, Peer
  <2>9. TypeOK'
    BY <2>1, <2>6, <2>7, <1>1 DEF TypeOK, SoundBox
  <2>10. MessagesSound'
    BY <2>6 DEF MessagesSound, SoundBox, SoundMessage, Peer, GoodRoute, SoundRoute, OnLinks, Joined
  <2>11. QED
    BY <2>8, <2>9, <2>10 DEF IInv
<1>5. QED
  BY <1>3, <1>4

\* A hello changes nothing, or removes a connection to oneself.
LEMMA ReceiveHelloSound ==
  ASSUME IInv, NEW c \in Conn, ReceiveHello(c)
  PROVE  IInv'
<1>1. /\ phase[c] = "open" /\ inbox[c] # <<>>
      /\ UNCHANGED <<running, spent>> /\ MessagesSound /\ TypeOK
  BY DEF ReceiveHello, IsNext, IInv
<1>2. SoundBox(Taken(c))
  BY <1>1, TakenSound
<1>3. CASE Head(inbox[c]).sender = Owner[c]
  BY <1>1, <1>2, <1>3, RemoveSound DEF ReceiveHello
<1>4. CASE Head(inbox[c]).sender # Owner[c]
  <2>1. inbox' = Taken(c) /\ UNCHANGED <<phase, up, table, reach>>
    BY <1>4 DEF ReceiveHello
  <2>2. TypeOK'
    BY <1>1, <1>2, <2>1 DEF TypeOK, SoundBox
  <2>3. QED
    BY <1>1, <1>2, <2>1, <2>2, TablesKept
<1>5. QED
  BY <1>3, <1>4

\* A message that is forwarded, or not, leaves the channels sound.
LEMMA ForwardedSound ==
  ASSUME NEW n \in Node, NEW box, SoundBox(box), NEW dest \in Node,
         NEW trail \in Seq(Node)
  PROVE  SoundBox(Forwarded(n, box, dest, trail))
<1> DEFINE m == Data(dest, Append(trail, n))
<1>1. m \in Message
  BY DEF Data, Message
<1>2. \A d \in Conn : SoundMessage(d, m)
  BY DEF SoundMessage, Data
<1>3. SoundBox(Sent(box, {BestRoute(table[n], dest).conn}, m))
  BY <1>1, <1>2, SentSound
<1>4. QED
  BY <1>3 DEF Forwarded

\* A message that is kept or forwarded changes no route.
LEMMA ReceiveDataSound ==
  ASSUME IInv, NEW c \in Conn, ReceiveData(c)
  PROVE  IInv'
<1> DEFINE m == Head(inbox[c])
<1>1. /\ inbox[c] # <<>> /\ m.kind = "data"
      /\ inbox' = IF m.dest = Owner[c] THEN Taken(c)
                  ELSE Forwarded(Owner[c], Taken(c), m.dest, m.trail)
      /\ UNCHANGED <<running, phase, up, table, reach, spent>>
      /\ MessagesSound /\ TypeOK
  BY DEF ReceiveData, IsNext, IInv
<1>2. SoundBox(Taken(c)) /\ m \in Message
  BY <1>1, TakenSound, HeadSound
<1>3. m.dest \in Node /\ m.trail \in Seq(Node) /\ Owner[c] \in Node
  BY <1>1, <1>2, ConnAssumption DEF Message
<1>4. SoundBox(inbox')
  BY <1>1, <1>2, <1>3, ForwardedSound
<1>5. TypeOK'
  BY <1>1, <1>4 DEF TypeOK, SoundBox
<1>6. QED
  BY <1>1, <1>4, <1>5, TablesKept

\* The table that a new neighbour is sent is sound.
LEMMA AddSound ==
  ASSUME IInv, NEW c \in Conn, Add(c)
  PROVE  IInv'
<1> DEFINE n == Owner[c]
<1>1. /\ n \in Node /\ TypeOK /\ TablesSound /\ SoundBox(inbox)
      /\ phase[c] = "ready"
      /\ phase' = [phase EXCEPT ![c] = "open"]
      /\ inbox' = Sent(inbox, {c}, Advert(n, KnownRoutes(n)))
      /\ UNCHANGED <<running, up, table, reach, spent>>
  BY ConnAssumption DEF Add, IInv, MessagesSound
<1>2. SelfRoute(n) \in Route /\ GoodRoute(n, SelfRoute(n))
  <2>1. <<>> \in Seq(Node) /\ Len(<<>>) = 0
    OBVIOUS
  <2>2. QED
    BY <1>1, <2>1 DEF SelfRoute, Route, GoodRoute, SoundRoute, OnLinks, Joined
<1>3. TableRoutes(n) \in SUBSET Route /\ \A r \in TableRoutes(n) : GoodRoute(n, r)
  BY <1>1, TableRoutesSound DEF TableRoutes
<1>4. KnownRoutes(n) \in SUBSET Route /\ \A r \in KnownRoutes(n) : GoodRoute(n, r)
  BY <1>2, <1>3 DEF KnownRoutes
<1>5. SoundBox(inbox')
  BY <1>1, <1>4, NewsSound DEF Advert
<1>6. TypeOK'
  BY <1>1, <1>5 DEF TypeOK, SoundBox
<1>7. \A d \in Conn : phase[d] = "open" => phase'[d] = "open"
  BY <1>1 DEF TypeOK
<1>8. QED
  BY <1>1, <1>5, <1>6, <1>7, TablesKept

\* A router that is shut down keeps no entry through a connection it closes.
LEMMA ShutdownSound ==
  ASSUME IInv, NEW n \in Node, Shutdown(n)
  PROVE  IInv'
<1> DEFINE mine == OpenEnds(n)
           left == {e \in table[n] : e.conn \notin mine}
<1>1. /\ TypeOK /\ TablesSound /\ SoundBox(inbox)
      /\ running' = [running EXCEPT ![n] = FALSE]
      /\ phase' = [c \in Conn |-> IF c \in mine THEN "closed" ELSE phase[c]]
      /\ up' = {c \in up : c \notin mine /\ Twin[c] \notin mine}
      /\ inbox' = [c \in Conn |-> IF c \in mine THEN <<>> ELSE inbox[c]]
      /\ table' = [table EXCEPT ![n] = left]
      /\ reach' = [reach EXCEPT ![n] = @ \ Unreachable(table[n] \ left, left)]
      /\ spent' = [spent EXCEPT !.shutdowns = @ + 1]
  BY DEF Shutdown, IInv, MessagesSound
<1>2. <<>> \in Seq(Message) /\ Len(<<>>) = 0
  OBVIOUS
<1>3. SoundBox(inbox')
  BY <1>1, <1>2 DEF SoundBox
<1>4. ASSUME NEW k \in Node, NEW e \in table'[k]
      PROVE  e \in table[k] /\ phase'[e.conn] = "open"
  <2>1. e \in table[k] /\ (k = n => e.conn \notin mine)
    BY <1>1 DEF TypeOK
  <2>2. e.conn \in Conn /\ Owner[e.conn] = k /\ phase[e.conn] = "open"
    BY <2>1, <1>1 DEF TypeOK, Entry, TablesSound
  <2>3. e.conn \notin mine
    BY <2>1, <2>2 DEF OpenEnds
  <2>4. QED
    BY <2>1, <2>2, <2>3, <1>1
<1>5. TablesSound'
  BY <1>4, <1>1 DEF TablesSound, GoodRoute, SoundRoute, OnLinks, Joined, Peer
<1>6. TypeOK'
  <2>1. spent' \in Spent
    <3>1. spent \in Spent /\ spent' = [spent EXCEPT !.shutdowns = @ + 1]
      BY <1>1 DEF TypeOK
    <3>2. QED
      BY <3>1 DEF Spent
  <2>2. table' \in [Node -> SUBSET Entry] /\ reach' \in [Node -> SUBSET Node]
    BY <1>1 DEF TypeOK
  <2>3. phase' \in [Conn -> {"closed", "ready", "open"}]
    BY <1>1 DEF TypeOK
  <2>4. running' \in [Node -> BOOLEAN] /\ up' \subseteq Conn
    BY <1>1 DEF TypeOK
  <2>5. QED
    BY <2>1, <2>2, <2>3, <2>4, <1>3 DEF TypeOK, SoundBox
<1>7. MessagesSound'
  BY <1>3 DEF MessagesSound, SoundBox, SoundMessage, Peer, GoodRoute, SoundRoute, OnLinks, Joined
<1>8. QED
  BY <1>5, <1>6, <1>7 DEF IInv

\* Hellos carry no routes.
LEMMA SayHelloSound ==
  ASSUME IInv, NEW n \in Node, SayHello(n)
  PROVE  IInv'
<1>1. /\ TypeOK /\ SoundBox(inbox)
      /\ inbox' = Sent(inbox, OpenEnds(n), Hello(n))
      /\ spent' = [spent EXCEPT !.hellos = @ + 1]
      /\ UNCHANGED <<running, phase, up, table, reach>>
  BY DEF SayHello, IInv, MessagesSound
<1>2. Hello(n) \in Message /\ \A d \in Conn : SoundMessage(d, Hello(n))
  BY DEF Hello, Message, SoundMessage
<1>3. SoundBox(inbox')
  BY <1>1, <1>2, SentSound
<1>4. TypeOK'
  <2>1. spent' \in Spent
    <3>1. spent \in Spent /\ spent' = [spent EXCEPT !.hellos = @ + 1]
      BY <1>1 DEF TypeOK
    <3>2. QED
      BY <3>1 DEF Spent
  <2>2. QED
    BY <1>1, <1>3, <2>1 DEF TypeOK, SoundBox
<1>5. QED
  BY <1>1, <1>3, <1>4, TablesKept

\* A message that is sent changes no route.
LEMMA SendSound ==
  ASSUME IInv, NEW n \in Node, NEW dest \in Node, Send(n, dest)
  PROVE  IInv'
<1>1. /\ TypeOK /\ SoundBox(inbox)
      /\ inbox' = Forwarded(n, inbox, dest, <<>>)
      /\ spent' = [spent EXCEPT !.sends = @ + 1]
      /\ UNCHANGED <<running, phase, up, table, reach>>
  BY DEF Send, IInv, MessagesSound
<1>2. SoundBox(inbox')
  <2>1. <<>> \in Seq(Node)
    OBVIOUS
  <2>2. QED
    BY <1>1, <2>1, ForwardedSound
<1>3. TypeOK'
  <2>1. spent' \in Spent
    <3>1. spent \in Spent /\ spent' = [spent EXCEPT !.sends = @ + 1]
      BY <1>1 DEF TypeOK
    <3>2. QED
      BY <3>1 DEF Spent
  <2>2. QED
    BY <1>1, <1>2, <2>1 DEF TypeOK, SoundBox
<1>4. QED
  BY <1>1, <1>2, <1>3, TablesKept

\* Every step of the routers keeps the invariant.
LEMMA NextSound == IInv /\ [Next]_vars => IInv'
<1> SUFFICES ASSUME IInv, [Next]_vars PROVE IInv'
  OBVIOUS
<1>1. TypeOK /\ SoundBox(inbox)
  BY DEF IInv, MessagesSound
<1>2. ASSUME NEW c \in Conn, Connect(c) PROVE IInv'
  <2>1. TypeOK'
    <3>1. /\ phase \in [Conn -> {"closed", "ready", "open"}] /\ up \subseteq Conn
          /\ Twin[c] \in Conn
      BY <1>1, ConnAssumption DEF TypeOK
    <3>2. UNCHANGED <<running, inbox, table, reach, spent>>
      BY <1>2 DEF Connect
    <3>3. /\ phase' \in [Conn -> {"closed", "ready", "open"}]
          /\ up' \subseteq Conn
      BY <1>2, <3>1 DEF Connect
    <3>4. QED
      BY <1>1, <3>2, <3>3 DEF TypeOK
  <2>2. \A d \in Conn : phase[d] = "open" => phase'[d] = "open"
    BY <1>1, <1>2, ConnAssumption DEF Connect, TypeOK
  <2>3. QED
    BY <1>1, <1>2, <2>1, <2>2, TablesKept DEF Connect
<1>3. ASSUME NEW c \in Conn, Add(c) PROVE IInv'
  BY <1>3, AddSound
<1>4. ASSUME NEW c \in Conn, Break(c) PROVE IInv'
  <2>1. TypeOK'
    <3>1. up \subseteq Conn /\ spent \in Spent
      BY <1>1 DEF TypeOK
    <3>2. /\ up' \subseteq Conn /\ spent' = [spent EXCEPT !.breaks = @ + 1]
          /\ UNCHANGED <<running, phase, inbox, table, reach>>
      BY <1>4, <3>1 DEF Break
    <3>3. spent' \in Spent
      BY <3>1, <3>2 DEF Spent
    <3>4. QED
      BY <1>1, <3>2, <3>3 DEF TypeOK
  <2>2. QED
    BY <1>1, <1>4, <2>1, TablesKept DEF Break
<1>5. ASSUME NEW c \in Conn, Disconnect(c) PROVE IInv'
  BY <1>1, <1>5, RemoveSound DEF Disconnect
<1>6. ASSUME NEW c \in Conn, Receive(c) PROVE IInv'
  BY <1>6, ReceiveAdvertSound, ReceiveRevocationSound, ReceiveHelloSound,
     ReceiveDataSound DEF Receive
<1>7. ASSUME NEW n \in Node, Shutdown(n) PROVE IInv'
  BY <1>7, ShutdownSound
<1>8. ASSUME NEW n \in Node, Start(n) PROVE IInv'
  <2>1. TypeOK'
    BY <1>1, <1>8 DEF Start, TypeOK
  <2>2. QED
    BY <1>1, <1>8, <2>1, TablesKept DEF Start
<1>9. ASSUME NEW n \in Node, SayHello(n) PROVE IInv'
  BY <1>9, SayHelloSound
<1>10. ASSUME NEW n \in Node, NEW dest \in Node, Send(n, dest) PROVE IInv'
  BY <1>10, SendSound
<1>11. CASE UNCHANGED vars
  <2>1. TypeOK'
    BY <1>1, <1>11 DEF vars, TypeOK
  <2>2. QED
    BY <1>1, <1>11, <2>1, TablesKept DEF vars
<1>12. QED
  BY <1>2, <1>3, <1>4, <1>5, <1>6, <1>7, <1>8, <1>9, <1>10, <1>11 DEF Next
-----------------------------------------------------------------------------
(* Theorems *)

\* The strengthened invariant: tables and messages alike hold only sound routes,
\* whatever connects, breaks, is added, removed or shut down, in any order.
THEOREM InvariantHolds == Spec => []IInv
<1>1. QED
  BY InitSound, NextSound, PTL DEF Spec

\* Every router's state keeps its type.
THEOREM TypeCorrect == Spec => []TypeOK
<1>1. IInv => TypeOK
  BY DEF IInv
<1>2. QED
  BY <1>1, InvariantHolds, PTL

\* In every network of routers, no route table ever holds a route that loops, or one
\* whose connection the router has removed (integrate, remove, shutdown).
THEOREM RoutesAreSound == Spec => []RoutesSound
<1>1. IInv => RoutesSound
  BY DEF IInv, TablesSound, RoutesSound, GoodRoute
<1>2. QED
  BY <1>1, InvariantHolds, PTL
-----------------------------------------------------------------------------
(* The order of routes.  A table keeps a route to every destination that   *)
(* is offered, for the best of finitely many routes is among those kept.   *)

\* std::vector's order on paths is strict.
LEMMA PathOrder ==
  ASSUME NEW p \in Seq(Nat), NEW q \in Seq(Nat), NEW r \in Seq(Nat)
  PROVE  /\ ~PathBefore(p, p)
         /\ PathBefore(p, q) /\ PathBefore(q, r) => PathBefore(p, r)
<1>1. ~PathBefore(p, p)
  <2>1. Len(p) \in Nat /\ \A i \in 1..Len(p) : p[i] \in Nat
    BY ElementOfSeq
  <2>2. QED
    BY <2>1 DEF PathBefore
<1>2. ASSUME PathBefore(p, q), PathBefore(q, r)
      PROVE  PathBefore(p, r)
  <2>1. /\ Len(p) \in Nat /\ Len(q) \in Nat /\ Len(r) \in Nat
        /\ \A i \in 1..Len(p) : p[i] \in Nat
        /\ \A i \in 1..Len(q) : q[i] \in Nat
        /\ \A i \in 1..Len(r) : r[i] \in Nat
    BY ElementOfSeq
  <2>2. CASE Len(p) < Len(q) /\ \A j \in 1..Len(p) : p[j] = q[j]
    <3>1. CASE Len(q) < Len(r) /\ \A j \in 1..Len(q) : q[j] = r[j]
      BY <2>1, <2>2, <3>1 DEF PathBefore
    <3>2. ASSUME NEW k \in 1..Len(q), k <= Len(r), q[k] < r[k],
                 \A j \in 1..(k - 1) : q[j] = r[j]
          PROVE  PathBefore(p, r)
      <4>1. CASE k <= Len(p)
        <5>1. k \in 1..Len(p) /\ p[k] = q[k] /\ \A j \in 1..(k - 1) : p[j] = r[j]
          BY <2>1, <2>2, <3>2, <4>1
        <5>2. QED
          BY <3>2, <5>1 DEF PathBefore
      <4>2. CASE ~(k <= Len(p))
        <5>1. Len(p) < Len(r) /\ \A j \in 1..Len(p) : p[j] = r[j]
          BY <2>1, <2>2, <3>2, <4>2
        <5>2. QED
          BY <5>1 DEF PathBefore
      <4>3. QED
        BY <4>1, <4>2
    <3>3. QED
      BY <1>2, <3>1, <3>2 DEF PathBefore
  <2>3. ASSUME NEW i \in 1..Len(p), i <= Len(q), p[i] < q[i],
               \A j \in 1..(i - 1) : p[j] = q[j]
        PROVE  PathBefore(p, r)
    <3>1. CASE Len(q) < Len(r) /\ \A j \in 1..Len(q) : q[j] = r[j]
      <4>1. i <= Len(r) /\ p[i] < r[i] /\ \A j \in 1..(i - 1) : p[j] = r[j]
        BY <2>1, <2>3, <3>1
      <4>2. QED
        BY <4>1 DEF PathBefore
    <3>2. ASSUME NEW k \in 1..Len(q), k <= Len(r), q[k] < r[k],
                 \A j \in 1..(k - 1) : q[j] = r[j]
          PROVE  PathBefore(p, r)
      <4>1. CASE i <= k
        <5>1. i <= Len(r) /\ i \in 1..Len(r) /\ i \in 1..Len(q)
          BY <2>1, <2>3, <3>2, <4>1
        <5>2. p[i] < r[i]
          <6>1. CASE i = k
            BY <2>1, <2>3, <3>2, <5>1, <6>1
          <6>2. CASE i < k
            <7>1. i \in 1..(k - 1)
              BY <2>1, <6>2
            <7>2. QED
              BY <2>3, <3>2, <7>1
          <6>3. QED
            BY <2>1, <4>1, <6>1, <6>2
        <5>3. ASSUME NEW j \in 1..(i - 1)
              PROVE  p[j] = r[j]
          <6>1. j \in 1..(k - 1)
            BY <2>1, <4>1, <5>3
          <6>2. QED
            BY <2>3, <3>2, <6>1
        <5>4. QED
          BY <5>1, <5>2, <5>3 DEF PathBefore
      <4>2. CASE k < i
        <5>1. k \in 1..Len(p) /\ k \in 1..(i - 1)
          BY <2>1, <2>3, <3>2, <4>2
        <5>2. p[k] < r[k]
          BY <2>3, <3>2, <5>1
        <5>3. ASSUME NEW j \in 1..(k - 1)
              PROVE  p[j] = r[j]
          <6>1. j \in 1..(i - 1)
            BY <2>1, <4>2, <5>3
          <6>2. QED
            BY <2>3, <3>2, <6>1
        <5>4. QED
          BY <3>2, <5>1, <5>2, <5>3 DEF PathBefore
      <4>3. QED
        BY <4>1, <4>2
    <3>3. QED
      BY <1>2, <3>1, <3>2 DEF PathBefore
  <2>4. QED
    BY <1>2, <2>2, <2>3 DEF PathBefore
<1>3. QED
  BY <1>1, <1>2

\* So the order of by_destination is strict.
LEMMA BetterOrder ==
  ASSUME NEW x \in Entry, NEW y \in Entry, NEW z \in Entry
  PROVE  /\ ~Better(x, x)
         /\ Better(x, y) /\ Better(y, z) => Better(x, z)
<1>1. /\ x.path \in Seq(Nat) /\ y.path \in Seq(Nat) /\ z.path \in Seq(Nat)
      /\ x.cost \in Nat /\ y.cost \in Nat /\ z.cost \in Nat
  <2>1. ASSUME NEW p \in Seq(Node)
        PROVE  p \in Seq(Nat)
    <3>1. Len(p) \in Nat /\ p \in [1..Len(p) -> Node]
      BY LenProperties
    <3>2. p \in [1..Len(p) -> Nat]
      BY <3>1, NodeAssumption
    <3>3. QED
      BY <3>1, <3>2, SeqDef
  <2>2. QED
    BY <2>1 DEF Entry
<1>2. /\ ~PathBefore(x.path, x.path)
      /\ PathBefore(x.path, y.path) /\ PathBefore(y.path, z.path)
           => PathBefore(x.path, z.path)
  BY <1>1, PathOrder
<1>3. QED
  BY <1>1, <1>2 DEF Better

\* KeepBest (the trimming at the end of integrate) leaves a route wherever there
\* was one.
LEMMA BestKept ==
  ASSUME NEW S \in SUBSET Entry, IsFiniteSet(S), NEW e \in S
  PROVE  \E x \in KeepBest(S) : x.dest = e.dest
<1> DEFINE same  == {x \in S : x.dest = e.dest}
           B(x)  == {f \in S : Better(f, x)}
           above == {B(x) : x \in same}
           R     == StrictSubsetOrdering(S)
<1>1. IsWellFoundedOn(R, FiniteSubsetsOf(S))
  BY FS_StrictSubsetOrderingWellFounded
<1>2. above \subseteq FiniteSubsetsOf(S) /\ above # {}
  <2>1. \A x \in same : B(x) \in SUBSET S /\ IsFiniteSet(B(x))
    BY FS_Subset
  <2>2. B(e) \in above
    OBVIOUS
  <2>3. QED
    BY <2>1, <2>2 DEF FiniteSubsetsOf
<1>3. \E w \in above : \A y \in above : <<y, w>> \notin R
  <2> HIDE DEF above, R
  <2>1. QED
    BY <1>1, <1>2, WFMin
<1>4. PICK x \in same : \A g \in same : <<B(g), B(x)>> \notin R
  BY <1>3
<1>5. B(x) = {}
  <2>1. SUFFICES ASSUME NEW g \in S, Better(g, x)
                 PROVE  FALSE
    OBVIOUS
  <2>2. g \in same
    BY <2>1 DEF Better
  <2>3. B(g) \subseteq B(x)
    BY <2>1, BetterOrder
  <2>4. g \in B(x) /\ g \notin B(g)
    BY <2>1, BetterOrder
  <2>5. B(g) \in SUBSET S /\ B(x) \in SUBSET S
    OBVIOUS
  <2>6. <<B(g), B(x)>> \in R
    <3> HIDE DEF B
    <3>1. QED
      BY <2>3, <2>4, <2>5 DEF StrictSubsetOrdering
  <2>7. QED
    BY <1>4, <2>2, <2>6
<1>6. Cardinality(B(x)) < DestRouteLimit
  BY <1>5, FS_EmptySet, LimitAssumption
<1>7. QED
  BY <1>6 DEF KeepBest
-----------------------------------------------------------------------------
(* Signals.  BestKept is about finitely many routes: every table is finite *)
(* and so is what a message announces or revokes (FiniteRoutes).           *)

FiniteMessage(m) == m.kind \in {"advert", "revocation"} => IsFiniteSet(m.routes)

FiniteBox(box) ==
  /\ box \in [Conn -> Seq(Message)]
  /\ \A c \in Conn : \A k \in 1..Len(box[c]) : FiniteMessage(box[c][k])

FiniteRoutes == FiniteBox(inbox) /\ \A n \in Node : IsFiniteSet(table[n])

SignalInv == IInv /\ FiniteRoutes /\ SignalsMatchTable

\* What is made of finitely many routes is finite.
LEMMA RoutesFinite ==
  ASSUME NEW S, IsFiniteSet(S), NEW n, NEW s, NEW c
  PROVE  /\ IsFiniteSet({RouteOf(e) : e \in S})
         /\ IsFiniteSet({EntryOf(r, c) : r \in S})
         /\ IsFiniteSet(UsableRoutes(n, s, S))
<1>1. IsFiniteSet({RouteOf(e) : e \in S})
  <2> DEFINE T == {RouteOf(e) : e \in S}
             f == [e \in S |-> RouteOf(e)]
  <2>1. f \in Surjection(S, T)
    BY DEF Surjection
  <2> HIDE DEF f, T
  <2>2. IsFiniteSet(T)
    BY <2>1, FS_Surjection
  <2>3. QED
    BY <2>2 DEF T
<1>2. IsFiniteSet({EntryOf(r, c) : r \in S})
  <2> DEFINE T == {EntryOf(r, c) : r \in S}
             f == [r \in S |-> EntryOf(r, c)]
  <2>1. f \in Surjection(S, T)
    BY DEF Surjection
  <2> HIDE DEF f, T
  <2>2. IsFiniteSet(T)
    BY <2>1, FS_Surjection
  <2>3. QED
    BY <2>2 DEF T
<1>3. IsFiniteSet(UsableRoutes(n, s, S))
  <2> DEFINE U == {x \in S : x.dest # n /\ ~Visits(x.path, n)}
             T == {Extend(r, s) : r \in U}
             f == [r \in U |-> Extend(r, s)]
  <2>1. f \in Surjection(U, T)
    BY DEF Surjection
  <2>2. IsFiniteSet(U)
    BY FS_Subset
  <2>3. T = UsableRoutes(n, s, S)
    BY DEF UsableRoutes
  <2> HIDE DEF f, T, U
  <2>4. QED
    BY <2>1, <2>2, <2>3, FS_Surjection
<1>4. QED
  BY <1>1, <1>2, <1>3

\* A message about finitely many routes may be sent.
LEMMA FiniteSent ==
  ASSUME NEW box, FiniteBox(box), NEW targets, NEW m \in Message, FiniteMessage(m)
  PROVE  FiniteBox(Sent(box, targets, m))
<1> DEFINE sent == Sent(box, targets, m)
<1>1. ASSUME NEW d \in Conn
      PROVE  /\ sent[d] \in Seq(Message)
             /\ \A k \in 1..Len(sent[d]) : FiniteMessage(sent[d][k])
  <2> DEFINE q == box[d]
  <2>1. q \in Seq(Message) /\ \A k \in 1..Len(q) : FiniteMessage(q[k])
    BY DEF FiniteBox
  <2>2. CASE Twin[d] \in targets /\ d \in up
    <3>1. sent[d] = Append(q, m)
      BY <2>2 DEF Sent
    <3> HIDE DEF q, sent
    <3>2. /\ Len(Append(q, m)) = Len(q) + 1
          /\ \A k \in 1..Len(q) : Append(q, m)[k] = q[k]
          /\ Append(q, m)[Len(q) + 1] = m
          /\ Append(q, m) \in Seq(Message)
      BY <2>1
    <3>3. QED
      BY <2>1, <3>1, <3>2
  <2>3. CASE ~(Twin[d] \in targets /\ d \in up)
    BY <2>1, <2>3 DEF Sent
  <2>4. QED
    BY <2>2, <2>3
<1>2. sent \in [Conn -> Seq(Message)]
  BY <1>1 DEF Sent
<1>3. QED
  BY <1>1, <1>2 DEF FiniteBox

\* A message is read.
LEMMA FiniteTaken ==
  ASSUME FiniteBox(inbox), NEW c \in Conn, inbox[c] # <<>>
  PROVE  /\ FiniteBox(Taken(c))
         /\ Head(inbox[c]) \in Message /\ FiniteMessage(Head(inbox[c]))
<1> DEFINE q == inbox[c]
<1>1. /\ inbox \in [Conn -> Seq(Message)] /\ q \in Seq(Message) /\ q # <<>>
      /\ \A k \in 1..Len(q) : FiniteMessage(q[k])
  BY DEF FiniteBox
<1>2. /\ Tail(q) \in Seq(Message) /\ 1 \in 1..Len(q) /\ Head(q) = q[1] /\ Head(q) \in Message
      /\ \A k \in 1..Len(Tail(q)) : k + 1 \in 1..Len(q) /\ Tail(q)[k] = q[k + 1]
  <2> HIDE DEF q
  <2>1. QED
    BY <1>1
<1>3. \A d \in Conn : Taken(c)[d] = IF d = c THEN Tail(q) ELSE inbox[d]
  BY <1>1 DEF Taken
<1>4. Taken(c) \in [Conn -> Seq(Message)]
  BY <1>1, <1>2 DEF Taken
<1> HIDE DEF q
<1>5. \A k \in 1..Len(Tail(q)) : FiniteMessage(Tail(q)[k])
  BY <1>1, <1>2
<1>6. ASSUME NEW d \in Conn
      PROVE  \A k \in 1..Len(Taken(c)[d]) : FiniteMessage(Taken(c)[d][k])
  BY <1>3, <1>5 DEF FiniteBox
<1>7. FiniteBox(Taken(c))
  BY <1>4, <1>6 DEF FiniteBox
<1>8. QED
  BY <1>1, <1>2, <1>7 DEF q

\* Channels are emptied.
LEMMA FiniteDropped ==
  ASSUME NEW box, FiniteBox(box), NEW new \in [Conn -> Seq(Message)],
         \A d \in Conn : new[d] \in {<<>>, box[d]}
  PROVE  FiniteBox(new)
<1>1. Len(<<>>) = 0
  OBVIOUS
<1>2. QED
  BY <1>1 DEF FiniteBox

\* A router loses routes: what it withdraws is what it has no route to any more.
LEMMA LossesSignalled ==
  ASSUME SignalInv, NEW n \in Node, NEW dead, NEW left,
         dead = table[n] \ left, left \subseteq table[n],
         table' = [table EXCEPT ![n] = left],
         reach' = [reach EXCEPT ![n] = @ \ Unreachable(dead, left)],
         FiniteBox(inbox')
  PROVE  FiniteRoutes' /\ SignalsMatchTable'
<1>1. /\ table \in [Node -> SUBSET Entry] /\ reach \in [Node -> SUBSET Node]
      /\ \A k \in Node : reach[k] = Dests(table[k]) /\ IsFiniteSet(table[k])
  BY DEF SignalInv, IInv, TypeOK, FiniteRoutes, SignalsMatchTable
<1>2. Dests(table[n]) \ Unreachable(dead, left) = Dests(left)
  BY DEF Dests, Unreachable
<1>3. IsFiniteSet(left)
  BY <1>1, FS_Subset
<1>4. \A k \in Node : reach'[k] = Dests(table'[k]) /\ IsFiniteSet(table'[k])
  BY <1>1, <1>2, <1>3
<1>5. QED
  BY <1>4 DEF FiniteRoutes, SignalsMatchTable

LEMMA RemoveSignalled ==
  ASSUME SignalInv, NEW c \in Conn, NEW box, FiniteBox(box), Remove(c, box)
  PROVE  FiniteRoutes' /\ SignalsMatchTable'
<1> DEFINE n    == Owner[c]
           dead == {e \in table[n] : e.conn = c}
           left == table[n] \ dead
           gone == {RouteOf(e) : e \in dead}
           told == Told(n, c, dead # {})
           sent == Sent(box, told, Revocation(n, gone))
<1>1. /\ n \in Node /\ TypeOK /\ TablesSound /\ IsFiniteSet(table[n])
      /\ table' = [table EXCEPT ![n] = left]
      /\ inbox' = [sent EXCEPT ![c] = <<>>]
      /\ reach' = [reach EXCEPT ![n] = @ \ Unreachable(dead, left)]
  BY ConnAssumption DEF Remove, SignalInv, IInv, FiniteRoutes
<1>2. gone \in SUBSET Route
  BY <1>1, TableRoutesSound
<1>3. IsFiniteSet(gone)
  <2>1. IsFiniteSet(dead)
    BY <1>1, FS_Subset
  <2> HIDE DEF dead
  <2>2. QED
    BY <2>1, RoutesFinite
<1>4. Revocation(n, gone) \in Message /\ FiniteMessage(Revocation(n, gone))
  <2> HIDE DEF gone, n
  <2>1. QED
    BY <1>1, <1>2, <1>3 DEF Revocation, Message, FiniteMessage
<1>5. FiniteBox(sent)
  BY <1>4, FiniteSent
<1>6. FiniteBox(inbox')
  <2> HIDE DEF sent
  <2>1. sent \in [Conn -> Seq(Message)] /\ <<>> \in Seq(Message)
    BY <1>5 DEF FiniteBox
  <2>2. inbox' \in [Conn -> Seq(Message)] /\ \A d \in Conn : inbox'[d] \in {<<>>, sent[d]}
    BY <1>1, <2>1
  <2>3. QED
    BY <1>5, <2>2, FiniteDropped
<1>7. dead = table[n] \ left /\ left \subseteq table[n]
  OBVIOUS
<1> HIDE DEF dead, left, n
<1>8. QED
  BY <1>1, <1>6, <1>7, LossesSignalled

LEMMA ShutdownSignalled ==
  ASSUME SignalInv, NEW n \in Node, Shutdown(n)
  PROVE  FiniteRoutes' /\ SignalsMatchTable'
<1> DEFINE mine == OpenEnds(n)
           left == {e \in table[n] : e.conn \notin mine}
           dead == table[n] \ left
<1>1. /\ table' = [table EXCEPT ![n] = left]
      /\ inbox' = [c \in Conn |-> IF c \in mine THEN <<>> ELSE inbox[c]]
      /\ reach' = [reach EXCEPT ![n] = @ \ Unreachable(dead, left)]
      /\ FiniteBox(inbox)
  BY DEF Shutdown, SignalInv, FiniteRoutes
<1>2. FiniteBox(inbox')
  <2>1. inbox \in [Conn -> Seq(Message)] /\ <<>> \in Seq(Message)
    BY <1>1 DEF FiniteBox
  <2> HIDE DEF mine
  <2>2. inbox' \in [Conn -> Seq(Message)] /\ \A d \in Conn : inbox'[d] \in {<<>>, inbox[d]}
    BY <1>1, <2>1
  <2>3. QED
    BY <1>1, <2>2, FiniteDropped
<1>3. dead = table[n] \ left /\ left \subseteq table[n]
  OBVIOUS
<1> HIDE DEF dead, left
<1>4. QED
  BY <1>1, <1>2, <1>3, LossesSignalled

\* A step that leaves tables and signals alone.
LEMMA SignalsStay ==
  ASSUME SignalInv, UNCHANGED <<table, reach>>, FiniteBox(inbox')
  PROVE  FiniteRoutes' /\ SignalsMatchTable'
BY DEF SignalInv, FiniteRoutes, SignalsMatchTable

\* An advertisement: each destination that gets a route is announced, and trimming
\* the table (KeepBest) takes the last route from none.
LEMMA AdvertSignalled ==
  ASSUME SignalInv, NEW c \in Conn, ReceiveAdvert(c)
  PROVE  FiniteRoutes' /\ SignalsMatchTable'
<1> DEFINE n       == Owner[c]
           m       == Head(inbox[c])
           usable  == UsableRoutes(n, m.sender, m.routes)
           offered == usable \ TableRoutes(n)
           added   == {EntryOf(r, c) : r \in offered}
           all     == table[n] \union added
           kept    == KeepBest(all)
           fresh   == {r \in offered : EntryOf(r, c) \in kept}
           told    == Told(n, c, fresh # {})
<1>1. /\ n \in Node /\ inbox[c] # <<>> /\ m.kind = "advert"
      /\ TypeOK /\ MessagesSound /\ FiniteBox(inbox)
      /\ \A k \in Node : reach[k] = Dests(table[k]) /\ IsFiniteSet(table[k])
  BY ConnAssumption
     DEF ReceiveAdvert, IsNext, SignalInv, IInv, FiniteRoutes, SignalsMatchTable
<1>2. FiniteBox(Taken(c)) /\ m \in Message /\ FiniteMessage(m)
  BY <1>1, FiniteTaken
<1>3. CASE m.sender = n
  <2>1. inbox' = Taken(c) /\ UNCHANGED <<table, reach>>
    BY <1>3 DEF ReceiveAdvert
  <2>2. QED
    BY <1>2, <2>1, SignalsStay
<1>4. CASE m.sender # n
  <2>1. /\ table' = [table EXCEPT ![n] = kept]
        /\ inbox' = Sent(Taken(c), told, Advert(n, fresh))
        /\ reach' = [reach EXCEPT ![n] = @ \union (Dests(fresh) \ Dests(table[n]))]
    BY <1>4 DEF ReceiveAdvert
  <2>2. SoundMessage(c, m)
    BY <1>1, HeadSound
  <2>3. /\ m.sender \in Node /\ m.routes \in SUBSET Route /\ IsFiniteSet(m.routes)
        /\ \A r \in m.routes : GoodRoute(m.sender, r)
        /\ Joined(n, m.sender)
    BY <2>2, <1>1, <1>2 DEF Message, SoundMessage, FiniteMessage, Joined
  <2>4. usable \in SUBSET Route
    BY <1>1, <1>4, <2>3, UsableSound
  <2>5. IsFiniteSet(usable)
    BY <2>3, RoutesFinite
  <2>6. IsFiniteSet(offered) /\ IsFiniteSet(fresh)
    <3> HIDE DEF usable, kept
    <3>1. QED
      BY <2>5, FS_Subset
  <2>7. IsFiniteSet(all) /\ all \in SUBSET Entry
    <3>1. IsFiniteSet(added)
      <4> HIDE DEF offered
      <4>1. QED
        BY <2>6, RoutesFinite
    <3>2. added \in SUBSET Entry
      BY <2>4 DEF EntryOf, Entry, Route
    <3>3. table[n] \in SUBSET Entry
      BY <1>1 DEF TypeOK
    <3> HIDE DEF added
    <3>4. QED
      BY <1>1, <3>1, <3>2, <3>3, FS_Union
  <2>8. kept \in SUBSET all
    BY DEF KeepBest
  <2>9. IsFiniteSet(kept)
    <3> HIDE DEF all, kept
    <3>1. QED
      BY <2>7, <2>8, FS_Subset
  <2>10. Dests(table[n]) \union Dests(fresh) = Dests(kept)
    <3>1. ASSUME NEW e \in table[n]
          PROVE  e.dest \in Dests(kept)
      <4>1. e \in all
        OBVIOUS
      <4> HIDE DEF all
      <4>2. \E x \in kept : x.dest = e.dest
        BY <2>7, <4>1, BestKept
      <4>3. QED
        BY <4>2 DEF Dests
    <3>2. ASSUME NEW r \in fresh
          PROVE  r.dest \in Dests(kept)
      <4>1. EntryOf(r, c) \in kept /\ EntryOf(r, c).dest = r.dest
        BY DEF EntryOf
      <4> HIDE DEF kept
      <4>2. QED
        BY <4>1 DEF Dests
    <3>3. ASSUME NEW e \in kept, e \notin table[n]
          PROVE  e.dest \in Dests(fresh)
      <4>1. PICK r \in offered : e = EntryOf(r, c)
        BY <2>8, <3>3
      <4>2. r \in fresh /\ e.dest = r.dest
        BY <3>3, <4>1 DEF EntryOf
      <4> HIDE DEF fresh
      <4>3. QED
        BY <4>2 DEF Dests
    <3>4. ASSUME NEW e \in kept
          PROVE  e.dest \in Dests(table[n]) \union Dests(fresh)
      BY <3>3 DEF Dests
    <3> HIDE DEF kept, fresh
    <3>5. QED
      BY <3>1, <3>2, <3>4 DEF Dests
  <2>11. FiniteBox(inbox')
    <3>1. Advert(n, fresh) \in Message
      BY <1>1, <2>4 DEF Advert, Message
    <3>2. FiniteMessage(Advert(n, fresh))
      <4> HIDE DEF fresh
      <4>1. QED
        BY <2>6 DEF Advert, FiniteMessage
    <3> HIDE DEF fresh
    <3>3. QED
      BY <1>2, <2>1, <3>1, <3>2, FiniteSent
  <2> HIDE DEF kept, fresh, n
  <2>12. table \in [Node -> SUBSET Entry] /\ reach \in [Node -> SUBSET Node]
    BY <1>1 DEF TypeOK
  <2>13. \A k \in Node : reach'[k] = Dests(table'[k]) /\ IsFiniteSet(table'[k])
    BY <1>1, <2>1, <2>9, <2>10, <2>12
  <2>14. QED
    BY <2>11, <2>13 DEF FiniteRoutes, SignalsMatchTable
<1>5. QED
  BY <1>3, <1>4

LEMMA RevocationSignalled ==
  ASSUME SignalInv, NEW c \in Conn, ReceiveRevocation(c)
  PROVE  FiniteRoutes' /\ SignalsMatchTable'
<1> DEFINE n    == Owner[c]
           m    == Head(inbox[c])
           gone == UsableRoutes(n, m.sender, m.routes)
           dead == {e \in table[n] : RouteOf(e) \in gone}
           left == table[n] \ dead
           told == Told(n, c, dead # {})
<1>1. /\ n \in Node /\ inbox[c] # <<>> /\ m.kind = "revocation"
      /\ MessagesSound /\ FiniteBox(inbox)
  BY ConnAssumption DEF ReceiveRevocation, IsNext, SignalInv, IInv, FiniteRoutes
<1>2. FiniteBox(Taken(c)) /\ m \in Message /\ FiniteMessage(m)
  BY <1>1, FiniteTaken
<1>3. CASE m.sender = n
  <2>1. inbox' = Taken(c) /\ UNCHANGED <<table, reach>>
    BY <1>3 DEF ReceiveRevocation
  <2>2. QED
    BY <1>2, <2>1, SignalsStay
<1>4. CASE m.sender # n
  <2>1. /\ table' = [table EXCEPT ![n] = left]
        /\ inbox' = Sent(Taken(c), told, Revocation(n, gone))
        /\ reach' = [reach EXCEPT ![n] = @ \ Unreachable(dead, left)]
    BY <1>4 DEF ReceiveRevocation
  <2>2. SoundMessage(c, m)
    BY <1>1, HeadSound
  <2>3. /\ m.sender \in Node /\ m.routes \in SUBSET Route /\ IsFiniteSet(m.routes)
        /\ \A r \in m.routes : GoodRoute(m.sender, r)
        /\ Joined(n, m.sender)
    BY <2>2, <1>1, <1>2 DEF Message, SoundMessage, FiniteMessage, Joined
  <2>4. gone \in SUBSET Route
    BY <1>1, <1>4, <2>3, UsableSound
  <2>5. IsFiniteSet(gone)
    BY <2>3, RoutesFinite
  <2>6. dead = table[n] \ left /\ left \subseteq table[n]
    OBVIOUS
  <2> HIDE DEF gone, dead, left, n
  <2>7. Revocation(n, gone) \in Message /\ FiniteMessage(Revocation(n, gone))
    BY <1>1, <2>4, <2>5 DEF Revocation, Message, FiniteMessage
  <2>8. FiniteBox(inbox')
    BY <1>2, <2>1, <2>7, FiniteSent
  <2>9. QED
    BY <1>1, <2>1, <2>6, <2>8, LossesSignalled
<1>5. QED
  BY <1>3, <1>4

LEMMA HelloSignalled ==
  ASSUME SignalInv, NEW c \in Conn, ReceiveHello(c)
  PROVE  FiniteRoutes' /\ SignalsMatchTable'
<1>1. FiniteBox(Taken(c))
  BY FiniteTaken DEF ReceiveHello, IsNext, SignalInv, FiniteRoutes
<1>2. CASE Head(inbox[c]).sender = Owner[c]
  BY <1>1, <1>2, RemoveSignalled DEF ReceiveHello
<1>3. CASE Head(inbox[c]).sender # Owner[c]
  BY <1>1, <1>3, SignalsStay DEF ReceiveHello
<1>4. QED
  BY <1>2, <1>3

\* A message on its way to its destination.
LEMMA FiniteForwarded ==
  ASSUME NEW n \in Node, NEW box, FiniteBox(box), NEW dest \in Node, NEW trail \in Seq(Node)
  PROVE  FiniteBox(Forwarded(n, box, dest, trail))
<1> DEFINE m == Data(dest, Append(trail, n))
<1>1. m \in Message /\ FiniteMessage(m)
  BY DEF Data, Message, FiniteMessage
<1>2. FiniteBox(Sent(box, {BestRoute(table[n], dest).conn}, m))
  BY <1>1, FiniteSent
<1>3. QED
  BY <1>2 DEF Forwarded

LEMMA DataSignalled ==
  ASSUME SignalInv, NEW c \in Conn, ReceiveData(c)
  PROVE  FiniteRoutes' /\ SignalsMatchTable'
<1> DEFINE m == Head(inbox[c])
<1>1. /\ inbox[c] # <<>> /\ m.kind = "data" /\ FiniteBox(inbox) /\ Owner[c] \in Node
      /\ inbox' = IF m.dest = Owner[c] THEN Taken(c)
                  ELSE Forwarded(Owner[c], Taken(c), m.dest, m.trail)
      /\ UNCHANGED <<table, reach>>
  BY ConnAssumption DEF ReceiveData, IsNext, SignalInv, FiniteRoutes
<1>2. FiniteBox(Taken(c)) /\ m \in Message
  BY <1>1, FiniteTaken
<1>3. m.dest \in Node /\ m.trail \in Seq(Node)
  BY <1>1, <1>2 DEF Message
<1>4. FiniteBox(inbox')
  BY <1>1, <1>2, <1>3, FiniteForwarded
<1>5. QED
  BY <1>1, <1>4, SignalsStay

\* A new neighbour is sent the table, which is finite.
LEMMA AddSignalled ==
  ASSUME SignalInv, NEW c \in Conn, Add(c)
  PROVE  FiniteRoutes' /\ SignalsMatchTable'
<1> DEFINE n == Owner[c]
<1>1. /\ n \in Node /\ TypeOK /\ TablesSound /\ FiniteBox(inbox) /\ IsFiniteSet(table[n])
      /\ inbox' = Sent(inbox, {c}, Advert(n, KnownRoutes(n)))
      /\ UNCHANGED <<table, reach>>
  BY ConnAssumption DEF Add, SignalInv, IInv, FiniteRoutes
<1>2. SelfRoute(n) \in Route
  <2>1. <<>> \in Seq(Node)
    OBVIOUS
  <2>2. QED
    BY <1>1, <2>1 DEF SelfRoute, Route
<1>3. TableRoutes(n) \in SUBSET Route
  BY <1>1, TableRoutesSound DEF TableRoutes
<1>4. IsFiniteSet(TableRoutes(n))
  BY <1>1, RoutesFinite DEF TableRoutes
<1> HIDE DEF n
<1>5. KnownRoutes(n) \in SUBSET Route /\ IsFiniteSet(KnownRoutes(n))
  BY <1>2, <1>3, <1>4, FS_Singleton, FS_Union DEF KnownRoutes
<1>6. Advert(n, KnownRoutes(n)) \in Message /\ FiniteMessage(Advert(n, KnownRoutes(n)))
  BY <1>1, <1>5 DEF Advert, Message, FiniteMessage
<1>7. FiniteBox(inbox')
  BY <1>1, <1>6, FiniteSent
<1>8. QED
  BY <1>1, <1>7, SignalsStay

LEMMA InitSignalled == Init => FiniteRoutes /\ SignalsMatchTable
<1>1. SUFFICES ASSUME Init
               PROVE  FiniteRoutes /\ SignalsMatchTable
  OBVIOUS
<1>2. <<>> \in Seq(Message) /\ Len(<<>>) = 0
  OBVIOUS
<1>3. FiniteBox(inbox)
  BY <1>1, <1>2 DEF Init, FiniteBox
<1>4. \A n \in Node : reach[n] = Dests(table[n]) /\ IsFiniteSet(table[n])
  BY <1>1, FS_EmptySet DEF Init, Dests
<1>5. QED
  BY <1>3, <1>4 DEF FiniteRoutes, SignalsMatchTable

LEMMA NextSignalled ==
  ASSUME SignalInv, [Next]_vars
  PROVE  FiniteRoutes' /\ SignalsMatchTable'
<1>1. FiniteBox(inbox)
  BY DEF SignalInv, FiniteRoutes
<1>2. ASSUME NEW c \in Conn, Connect(c) \/ Break(c)
      PROVE  FiniteRoutes' /\ SignalsMatchTable'
  BY <1>1, <1>2, SignalsStay DEF Connect, Break
<1>3. ASSUME NEW c \in Conn, Disconnect(c)
      PROVE  FiniteRoutes' /\ SignalsMatchTable'
  BY <1>1, <1>3, RemoveSignalled DEF Disconnect
<1>4. ASSUME NEW c \in Conn, Receive(c)
      PROVE  FiniteRoutes' /\ SignalsMatchTable'
  BY <1>4, AdvertSignalled, RevocationSignalled, HelloSignalled, DataSignalled DEF Receive
<1>5. ASSUME NEW n \in Node, SayHello(n)
      PROVE  FiniteRoutes' /\ SignalsMatchTable'
  <2>1. Hello(n) \in Message /\ FiniteMessage(Hello(n))
    BY DEF Hello, Message, FiniteMessage
  <2>2. FiniteBox(inbox') /\ UNCHANGED <<table, reach>>
    BY <1>1, <1>5, <2>1, FiniteSent DEF SayHello
  <2>3. QED
    BY <2>2, SignalsStay
<1>6. ASSUME NEW n \in Node, NEW dest \in Node, Send(n, dest)
      PROVE  FiniteRoutes' /\ SignalsMatchTable'
  <2>1. <<>> \in Seq(Node)
    OBVIOUS
  <2>2. FiniteBox(inbox') /\ UNCHANGED <<table, reach>>
    BY <1>1, <1>6, <2>1, FiniteForwarded DEF Send
  <2>3. QED
    BY <2>2, SignalsStay
<1>7. ASSUME NEW n \in Node, Start(n)
      PROVE  FiniteRoutes' /\ SignalsMatchTable'
  BY <1>1, <1>7, SignalsStay DEF Start
<1>8. CASE UNCHANGED vars
  BY <1>1, <1>8, SignalsStay DEF vars
<1>9. QED
  BY <1>2, <1>3, <1>4, <1>5, <1>6, <1>7, <1>8, AddSignalled, ShutdownSignalled DEF Next

\* The destinations that the listeners of on_node_reachable and on_node_unreachable
\* were told of are those with a route (integrate, remove), for any network, route
\* limit and order of events: trimming never takes the last route to a destination.
THEOREM SignalsMatch == Spec => []SignalsMatchTable
<1>1. Init => SignalInv
  BY InitSound, InitSignalled DEF SignalInv
<1>2. SignalInv /\ [Next]_vars => SignalInv'
  BY NextSound, NextSignalled DEF SignalInv
<1>3. SignalInv => SignalsMatchTable
  BY DEF SignalInv
<1>4. QED
  BY <1>1, <1>2, <1>3, PTL DEF Spec

-----------------------------------------------------------------------------
(* Convergence.  Whatever a neighbour's table gains or loses is on its way *)
(* to the router or has been acted on: for each connection that is up and  *)
(* each route, the last word on its way about the route, or if there is    *)
(* none the router's own table, agrees with the neighbour's table          *)
(* (AllInStep).  A quiet router then knows just what its neighbours know,  *)
(* and the rest is induction along paths (LeastNatural).                   *)

\* The routes that entries T stand for; TableRoutes(n) is RoutesOf(table[n]).
RoutesOf(T) == {RouteOf(e) : e \in T}

Says(m, r) == m.kind \in {"advert", "revocation"} /\ r \in m.routes

Silent(q, r) == \A k \in 1..Len(q) : ~Says(q[k], r)

\* The last that the channel q says of r.
LastSays(q, r, kind) ==
  \E k \in 1..Len(q) : /\ Says(q[k], r) /\ q[k].kind = kind
                       /\ \A j \in (k + 1)..Len(q) : ~Says(q[j], r)

\* Once q is read, a reader who has x, its own form of the neighbour's r, among the
\* routes now, has it just if r is among those of the neighbour, then.
ComesTo(q, r, x, now, then) ==
  \/ LastSays(q, r, "advert") /\ r \in then
  \/ LastSays(q, r, "revocation") /\ r \notin then
  \/ Silent(q, r) /\ (x \in now <=> r \in then)

\* n acts on what a neighbour says of r.
Acts(n, r) == r.dest # n /\ ~Visits(r.path, n)

\* What end c has been or will be told of.
Heard(c) == IF phase[Twin[c]] = "open" THEN KnownRoutes(Peer(c)) ELSE {}

InStepBox(box) ==
  \A c \in up : Owner[c] # Peer(c) =>
    \A r \in Route : Acts(Owner[c], r) =>
      ComesTo(box[c], r, Extend(r, Peer(c)), TableRoutes(Owner[c]), Heard(c))

AllInStep == InStepBox(inbox)

\* Connections are alive at both ends or at none, and nothing is on its way to an end
\* that has been removed.
LinksWell ==
  \A c \in Conn : /\ phase[c] = "closed" => inbox[c] = <<>> /\ c \notin up
                  /\ c \in up => Twin[c] \in up

\* The paths that may lead from n to d.
Ways(n, d) ==
  {p \in Seq(Node) : /\ p # <<>> /\ p[Len(p)] = d /\ OnLinks(n, p)
                     /\ \A i \in 1..Len(p) : p[i] # n
                     /\ \A i, j \in 1..Len(p) : i # j => p[i] # p[j]}

\* The networks in which routers converge: those that have one link at most between two
\* routers, no more ways to a destination than integrate keeps routes to it (it drops
\* the others without a word to the neighbours it told of them), and no router that is
\* shut down (one that is still adds a connection whose handshake ends after that, but
\* passes nothing on while running_ is false).
SingleLinks ==
  \A c, d \in Conn :
    Owner[c] = Owner[d] /\ Peer(c) = Peer(d) /\ Owner[c] # Peer(c) => c = d

RoomForAll ==
  \A n, d \in Node : IsFiniteSet(Ways(n, d)) /\ Cardinality(Ways(n, d)) <= DestRouteLimit

Uncrowded == SingleLinks /\ RoomForAll /\ MaxShutdowns = 0

ConvInv ==
  IInv /\ LinksWell /\ AllInStep /\ \A n \in Node : running[n]

-----------------------------------------------------------------------------
\* A message that is sent tells the reader of what changed in the sender's routes.
LEMMA AppendNews ==
  ASSUME NEW q \in Seq(Message), NEW m \in Message, NEW r \in Route, NEW x,
         NEW now, NEW old, NEW then,
         ComesTo(q, r, x, now, old),
         Says(m, r) => (r \in then <=> m.kind = "advert"),
         ~Says(m, r) => (r \in then <=> r \in old)
  PROVE  ComesTo(Append(q, m), r, x, now, then)
<1> DEFINE p == Append(q, m)
<1>1. /\ Len(p) = Len(q) + 1 /\ Len(q) \in Nat
      /\ \A k \in 1..Len(q) : p[k] = q[k]
      /\ p[Len(q) + 1] = m
  OBVIOUS
<1> HIDE DEF p
<1>2. CASE Says(m, r)
  <2>1. LastSays(p, r, m.kind)
    <3>1. Len(q) + 1 \in 1..Len(p) /\ (Len(q) + 2)..Len(p) = {}
      BY <1>1
    <3>2. \A j \in ((Len(q) + 1) + 1)..Len(p) : ~Says(p[j], r)
      BY <1>1
    <3>3. QED
      BY <1>1, <1>2, <3>1, <3>2 DEF LastSays
  <2>2. m.kind \in {"advert", "revocation"}
    BY <1>2 DEF Says
  <2>3. QED
    BY <1>2, <2>1, <2>2 DEF ComesTo, p
<1>3. CASE ~Says(m, r)
  <2>1. ASSUME NEW kind, LastSays(q, r, kind)
        PROVE  LastSays(p, r, kind)
    <3>1. PICK k \in 1..Len(q) : /\ Says(q[k], r) /\ q[k].kind = kind
                                 /\ \A j \in (k + 1)..Len(q) : ~Says(q[j], r)
      BY <2>1 DEF LastSays
    <3>2. k \in 1..Len(p) /\ Says(p[k], r) /\ p[k].kind = kind
      BY <1>1, <3>1
    <3>3. ASSUME NEW j \in (k + 1)..Len(p)
          PROVE  ~Says(p[j], r)
      <4>1. j \in (k + 1)..Len(q) \/ j = Len(q) + 1
        BY <1>1, <3>1
      <4>2. QED
        BY <1>1, <1>3, <3>1, <4>1
    <3>4. QED
      BY <3>2, <3>3 DEF LastSays
  <2>2. Silent(q, r) => Silent(p, r)
    BY <1>1, <1>3 DEF Silent
  <2>3. QED
    BY <1>3, <2>1, <2>2 DEF ComesTo, p
<1>4. QED
  BY <1>2, <1>3

\* A message that is read makes the reader's routes follow the sender's.
LEMMA TakeNews ==
  ASSUME NEW q \in Seq(Message), q # <<>>, NEW r \in Route, NEW x,
         NEW now, NEW new, NEW then,
         ComesTo(q, r, x, now, then),
         Says(Head(q), r) => (x \in new <=> Head(q).kind = "advert"),
         ~Says(Head(q), r) => (x \in new <=> x \in now)
  PROVE  ComesTo(Tail(q), r, x, new, then)
<1> DEFINE p == Tail(q)
<1>1. /\ Len(p) = Len(q) - 1 /\ Len(q) \in Nat /\ Len(q) # 0
      /\ \A k \in 1..Len(p) : p[k] = q[k + 1] /\ k + 1 \in 1..Len(q)
      /\ Head(q) = q[1]
  OBVIOUS
<1> HIDE DEF p
<1>2. ASSUME NEW kind, LastSays(q, r, kind)
      PROVE  \/ LastSays(p, r, kind)
             \/ Silent(p, r) /\ Says(Head(q), r) /\ Head(q).kind = kind
  <2>1. PICK k \in 1..Len(q) : /\ Says(q[k], r) /\ q[k].kind = kind
                               /\ \A j \in (k + 1)..Len(q) : ~Says(q[j], r)
    BY <1>2 DEF LastSays
  <2>2. CASE k = 1
    <3>1. ASSUME NEW j \in 1..Len(p)
          PROVE  ~Says(p[j], r)
      <4>1. j + 1 \in (k + 1)..Len(q)
        BY <1>1, <2>2
      <4>2. QED
        BY <1>1, <2>1, <4>1
    <3>2. QED
      BY <1>1, <2>1, <2>2, <3>1 DEF Silent
  <2>3. CASE k # 1
    <3>1. k - 1 \in 1..Len(p) /\ p[k - 1] = q[k]
      BY <1>1, <2>1, <2>3
    <3>2. ASSUME NEW j \in ((k - 1) + 1)..Len(p)
          PROVE  ~Says(p[j], r)
      <4>1. j + 1 \in (k + 1)..Len(q) /\ j \in 1..Len(p)
        BY <1>1, <2>1, <3>2
      <4>2. QED
        BY <1>1, <2>1, <4>1
    <3>3. QED
      BY <2>1, <3>1, <3>2 DEF LastSays
  <2>4. QED
    BY <2>2, <2>3
<1>3. ASSUME Silent(q, r)
      PROVE  Silent(p, r) /\ ~Says(Head(q), r)
  <2>1. 1 \in 1..Len(q)
    BY <1>1
  <2>2. QED
    BY <1>1, <1>3, <2>1 DEF Silent
<1>4. CASE LastSays(q, r, "advert") /\ r \in then
  BY <1>2, <1>4 DEF ComesTo, p
<1>5. CASE LastSays(q, r, "revocation") /\ r \notin then
  BY <1>2, <1>5 DEF ComesTo, p
<1>6. CASE Silent(q, r) /\ (x \in now <=> r \in then)
  BY <1>3, <1>6 DEF ComesTo, p
<1>7. QED
  BY <1>4, <1>5, <1>6 DEF ComesTo

\* What is read or sent without routes changes nothing.
LEMMA OtherMessages ==
  ASSUME NEW box \in [Conn -> Seq(Message)], InStepBox(box), TypeOK
  PROVE  /\ \A targets : \A m \in Message :
              m.kind \notin {"advert", "revocation"} => InStepBox(Sent(box, targets, m))
         /\ \A c \in Conn :
              box[c] # <<>> /\ Head(box[c]).kind \notin {"advert", "revocation"}
                => InStepBox([box EXCEPT ![c] = Tail(@)])
<1>1. ASSUME NEW targets, NEW m \in Message, m.kind \notin {"advert", "revocation"}
      PROVE  InStepBox(Sent(box, targets, m))
  <2>1. SUFFICES ASSUME NEW c \in up, Owner[c] # Peer(c),
                        NEW r \in Route, Acts(Owner[c], r)
                 PROVE  ComesTo(Sent(box, targets, m)[c], r, Extend(r, Peer(c)),
                                TableRoutes(Owner[c]), Heard(c))
    BY DEF InStepBox
  <2>2. c \in Conn
    BY DEF TypeOK
  <2>3. ComesTo(box[c], r, Extend(r, Peer(c)), TableRoutes(Owner[c]), Heard(c))
    BY <2>1 DEF InStepBox
  <2>4. ~Says(m, r)
    BY <1>1 DEF Says
  <2>5. ComesTo(Append(box[c], m), r, Extend(r, Peer(c)), TableRoutes(Owner[c]), Heard(c))
    BY <2>2, <2>3, <2>4, AppendNews
  <2>6. Sent(box, targets, m)[c] \in {box[c], Append(box[c], m)}
    BY <2>2 DEF Sent
  <2>7. QED
    BY <2>3, <2>5, <2>6
<1>2. ASSUME NEW c \in Conn, box[c] # <<>>, Head(box[c]).kind \notin {"advert", "revocation"}
      PROVE  InStepBox([box EXCEPT ![c] = Tail(@)])
  <2>1. SUFFICES ASSUME NEW d \in up, Owner[d] # Peer(d),
                        NEW r \in Route, Acts(Owner[d], r)
                 PROVE  ComesTo([box EXCEPT ![c] = Tail(@)][d], r, Extend(r, Peer(d)),
                                TableRoutes(Owner[d]), Heard(d))
    BY DEF InStepBox
  <2>2. d \in Conn
    BY DEF TypeOK
  <2>3. ComesTo(box[d], r, Extend(r, Peer(d)), TableRoutes(Owner[d]), Heard(d))
    BY <2>1 DEF InStepBox
  <2>4. CASE d = c
    <3>1. ~Says(Head(box[d]), r)
      BY <1>2, <2>4 DEF Says
    <3>2. ComesTo(Tail(box[d]), r, Extend(r, Peer(d)), TableRoutes(Owner[d]), Heard(d))
      BY <1>2, <2>2, <2>3, <2>4, <3>1, TakeNews
    <3>3. QED
      BY <2>4, <3>2
  <2>5. CASE d # c
    BY <2>2, <2>3, <2>5
  <2>6. QED
    BY <2>4, <2>5
<1>3. QED
  BY <1>1, <1>2

\* What TablesSound says of one entry.
GoodEntry(n, e) ==
  /\ GoodRoute(n, e) /\ e.path # <<>> /\ Owner[e.conn] = n /\ e.path[1] = Peer(e.conn)

\* One entry to every path: the path gives the destination, the cost and the link.
LEMMA EntryOfPath ==
  ASSUME SingleLinks, NEW n \in Node, NEW e \in Entry, NEW f \in Entry,
         GoodEntry(n, e), GoodEntry(n, f), e.path = f.path
  PROVE  e = f
<1>1. Len(e.path) \in Nat /\ Len(e.path) # 0 /\ 1 \in 1..Len(e.path)
  BY DEF GoodEntry, Entry
<1>2. e.path[1] # n
  BY <1>1 DEF GoodEntry, GoodRoute, SoundRoute
<1>3. e.dest = f.dest /\ e.cost = f.cost
  BY DEF GoodEntry, GoodRoute, SoundRoute
<1>4. e.conn = f.conn
  BY <1>2 DEF GoodEntry, SingleLinks, Entry
<1>5. QED
  BY <1>3, <1>4 DEF Entry

\* Where there is room for all, the trimming in integrate (KeepBest) removes nothing.
LEMMA NothingTrimmed ==
  ASSUME RoomForAll, SingleLinks, NEW n \in Node, NEW S \in SUBSET Entry,
         \A e \in S : GoodEntry(n, e)
  PROVE  KeepBest(S) = S
<1>1. SUFFICES ASSUME NEW e \in S
               PROVE  Cardinality({f \in S : Better(f, e)}) < DestRouteLimit
  BY DEF KeepBest
<1> DEFINE B == {f \in S : Better(f, e)}
           W == Ways(n, e.dest)
           g == [f \in B |-> f.path]
<1>2. \A f \in S : f.path \in Ways(n, f.dest)
  BY DEF GoodEntry, GoodRoute, SoundRoute, Ways, Entry
<1>3. e.dest \in Node /\ e \in Entry
  BY DEF Entry
<1>4. IsFiniteSet(W) /\ Cardinality(W) <= DestRouteLimit
  BY <1>3 DEF RoomForAll
<1>5. IsFiniteSet(W \ {e.path}) /\ Cardinality(W \ {e.path}) = Cardinality(W) - 1
  <2> HIDE DEF W
  <2>1. e.path \in W
    BY <1>2 DEF W
  <2>2. QED
    BY <1>4, <2>1, FS_RemoveElement
<1>6. ASSUME NEW f \in B
      PROVE  f.path \in W \ {e.path}
  <2>1. f.dest = e.dest /\ f # e
    <3>1. ~Better(e, e)
      BY <1>3, BetterOrder
    <3>2. QED
      BY <1>6, <3>1 DEF Better
  <2>2. f.path # e.path
    BY <2>1, EntryOfPath
  <2>3. QED
    BY <1>2, <2>1, <2>2
<1>7. \A f, h \in B : f.path = h.path => f = h
  BY EntryOfPath
<1>8. g \in Injection(B, W \ {e.path})
  BY <1>6, <1>7 DEF Injection, IsInjective
<1>9. Cardinality(B) <= Cardinality(W \ {e.path})
  <2> HIDE DEF B, W, g
  <2>1. QED
    BY <1>5, <1>8, FS_Injection
<1>10. Cardinality(W) \in Nat /\ Cardinality(B) \in Nat
  <2> HIDE DEF B, W, g
  <2>1. IsFiniteSet(B)
    BY <1>5, <1>8, FS_Injection
  <2>2. QED
    BY <1>4, <2>1, FS_CardinalityType
<1>11. QED
  BY <1>4, <1>5, <1>9, <1>10, LimitAssumption

\* The routes of the entries in a table that is sound.
LEMMA RouteVia ==
  ASSUME SingleLinks, IInv, NEW n \in Node, NEW x \in TableRoutes(n), NEW c \in Conn,
         Owner[c] = n, x.path[1] = Peer(c)
  PROVE  /\ x.path # <<>> /\ x.path[1] # n
         /\ phase[c] = "open"
         /\ \A e \in table[n] : RouteOf(e) = x => e.conn = c
<1>1. ASSUME NEW e \in table[n], RouteOf(e) = x
      PROVE  x.path # <<>> /\ x.path[1] # n /\ e.conn = c /\ phase[c] = "open"
  <2>1. e \in Entry /\ GoodRoute(n, e) /\ e.path # <<>> /\ Owner[e.conn] = n
        /\ phase[e.conn] = "open" /\ e.path[1] = Peer(e.conn)
    BY DEF IInv, TypeOK, TablesSound
  <2>2. x.path = e.path
    BY <1>1 DEF RouteOf
  <2>3. e.path[1] # n
    <3>1. 1 \in 1..Len(e.path)
      BY <2>1 DEF Entry
    <3>2. QED
      BY <2>1, <3>1 DEF GoodRoute, SoundRoute
  <2>4. e.conn = c
    BY <2>1, <2>2, <2>3 DEF SingleLinks, Entry
  <2>5. QED
    BY <2>1, <2>2, <2>3, <2>4
<1>2. \E e \in table[n] : RouteOf(e) = x
  BY DEF TableRoutes
<1>3. QED
  BY <1>1, <1>2

\* What a router makes of a route it acts on tells which route that was.
LEMMA ExtendPath ==
  ASSUME NEW r \in Route, NEW s \in Node
  PROVE  /\ Extend(r, s) \in Route
         /\ Extend(r, s).path # <<>> /\ Extend(r, s).path[1] = s
         /\ Extend(r, s).dest = r.dest
         /\ \A r2 \in Route : Extend(r, s) = Extend(r2, s) => r = r2
<1>1. /\ r.path \in Seq(Node) /\ r.cost \in Nat
      /\ <<s>> \o r.path \in Seq(Node) /\ <<s>> \o r.path # <<>>
      /\ (<<s>> \o r.path)[1] = s
  BY DEF Route
<1>2. Extend(r, s) \in Route
  BY <1>1 DEF Extend, Route
<1>3. ASSUME NEW r2 \in Route, Extend(r, s) = Extend(r2, s)
      PROVE  r = r2
  <2>1. r.dest = r2.dest /\ r.cost + 1 = r2.cost + 1 /\ <<s>> \o r.path = <<s>> \o r2.path
    BY <1>3 DEF Extend
  <2>2. r.cost = r2.cost
    BY <2>1 DEF Route
  <2>3. r.path = r2.path
    <3>1. r.path \in Seq(Node) /\ r2.path \in Seq(Node)
      BY DEF Route
    <3>2. /\ Len(<<s>> \o r.path) = 1 + Len(r.path) /\ Len(<<s>> \o r2.path) = 1 + Len(r2.path)
          /\ \A i \in 1..Len(r.path) : (<<s>> \o r.path)[i + 1] = r.path[i]
          /\ \A i \in 1..Len(r2.path) : (<<s>> \o r2.path)[i + 1] = r2.path[i]
      BY <3>1
    <3>3. Len(r.path) = Len(r2.path) /\ \A i \in 1..Len(r.path) : r.path[i] = r2.path[i]
      BY <2>1, <3>1, <3>2
    <3>4. QED
      BY <3>1, <3>3, SeqEqual
  <2>4. QED
    BY <2>1, <2>2, <2>3 DEF Route
<1>4. QED
  BY <1>1, <1>2, <1>3 DEF Extend

\* The step tells the ends told of news, what n gains (an advert) or loses (a
\* revocation) through end c, the channels before it being box.
Spreads(n, c, box, kind, news, told) ==
  /\ Owner[c] = n
  /\ \A d \in Conn : d # c => box[d] = inbox[d]
  /\ \/ told = {} /\ RoutesOf(table'[n]) = TableRoutes(n)
     \/ told = OpenEnds(n) \ {c}
  /\ \A k \in Node : k # n => table'[k] = table[k]
  /\ \A x \in news : /\ x.path # <<>> /\ x.path[1] = Peer(c)
                     /\ x \in RoutesOf(table'[n]) <=> kind = "advert"
  /\ \A x \in Route \ news : x \in RoutesOf(table'[n]) <=> x \in TableRoutes(n)
  /\ up' \subseteq up
  /\ \A d \in up' : d # c =>
       /\ phase'[d] = phase[d] /\ phase'[Twin[d]] = phase[Twin[d]]
       /\ inbox'[d] = Sent(box, told, [kind |-> kind, sender |-> n, routes |-> news])[d]

\* Such news comes to all other neighbours: to the one behind c it is of no use.
LEMMA NewsSpreads ==
  ASSUME IInv, SingleLinks, AllInStep, NEW n \in Node, NEW c \in Conn,
         NEW box \in [Conn -> Seq(Message)],
         NEW kind \in {"advert", "revocation"}, NEW news \in SUBSET Route, NEW told,
         Spreads(n, c, box, kind, news, told),
         NEW d \in up', d # c, Owner[d] # Peer(d), NEW r \in Route, Acts(Owner[d], r)
  PROVE  ComesTo(inbox'[d], r, Extend(r, Peer(d)), RoutesOf(table'[Owner[d]]),
                 IF phase'[Twin[d]] = "open" THEN {SelfRoute(Peer(d))} \cup RoutesOf(table'[Peer(d)])
                 ELSE {})
<1> DEFINE m == [kind |-> kind, sender |-> n, routes |-> news]
<1> USE DEF Spreads
<1> DEFINE x     == Extend(r, Peer(d))
           heard == IF phase'[Twin[d]] = "open"
                    THEN {SelfRoute(Peer(d))} \cup RoutesOf(table'[Peer(d)]) ELSE {}
           now   == RoutesOf(table'[Owner[d]])
<1>1. /\ d \in Conn /\ Owner[d] \in Node /\ Peer(d) \in Node /\ Peer(c) \in Node
      /\ Twin[d] \in Conn /\ Owner[Twin[d]] = Peer(d) /\ Twin[Twin[d]] = d
      /\ d \in up /\ inbox[d] \in Seq(Message)
  BY ConnAssumption DEF IInv, TypeOK, Peer
<1>2. ComesTo(inbox[d], r, x, TableRoutes(Owner[d]), Heard(d))
  BY <1>1 DEF AllInStep, InStepBox
<1>3. \A y \in Route : (y.path = <<>> \/ y.path[1] # Peer(c)) =>
        (y \in RoutesOf(table'[n]) <=> y \in TableRoutes(n))
  OBVIOUS
<1>4. x \in now <=> x \in TableRoutes(Owner[d])
  <2>1. CASE Owner[d] = n
    <3>1. Peer(d) # Peer(c)
      BY <1>1, <2>1 DEF SingleLinks
    <3>2. x \in Route /\ x.path[1] # Peer(c)
      BY <1>1, <3>1, ExtendPath
    <3>3. QED
      BY <1>3, <2>1, <3>2
  <2>2. CASE Owner[d] # n
    BY <1>1, <2>2 DEF TableRoutes, RoutesOf
  <2>3. QED
    BY <2>1, <2>2
<1>5. ComesTo(inbox[d], r, x, now, Heard(d))
  BY <1>2, <1>4 DEF ComesTo
<1>6. told = {} \/ told = OpenEnds(n) \ {c}
  OBVIOUS
<1>7. box[d] = inbox[d] /\ inbox'[d] = Sent(box, told, m)[d]
  BY <1>1
<1>8. Heard(d) = IF phase'[Twin[d]] = "open"
                 THEN {SelfRoute(Peer(d))} \cup TableRoutes(Peer(d)) ELSE {}
  BY DEF Heard, KnownRoutes
<1>9. CASE Peer(d) # n
  <2>1. Twin[d] \notin told
    BY <1>1, <1>6, <1>9 DEF OpenEnds
  <2>2. inbox'[d] = inbox[d]
    BY <1>1, <1>7, <2>1 DEF Sent
  <2>3. heard = Heard(d)
    BY <1>1, <1>8, <1>9 DEF TableRoutes, RoutesOf
  <2>4. QED
    BY <1>5, <2>2, <2>3
<1>10. CASE Peer(d) = n /\ Twin[d] = c
  <2>1. inbox'[d] = inbox[d]
    BY <1>1, <1>6, <1>7, <1>10 DEF Sent
  <2>2. r.path = <<>> \/ r.path[1] # Peer(c)
    <3>1. Peer(c) = Owner[d]
      BY <1>1, <1>10 DEF Peer
    <3>2. r.path # <<>> => 1 \in 1..Len(r.path)
      BY DEF Route
    <3>3. QED
      BY <3>1, <3>2 DEF Acts, Visits
  <2>3. r \in heard <=> r \in Heard(d)
    BY <1>3, <1>8, <1>10, <2>2
  <2>4. QED
    BY <1>5, <2>1, <2>3 DEF ComesTo
<1>11. CASE Peer(d) = n /\ Twin[d] # c
  <2>1. CASE told = {}
    <3>1. inbox'[d] = inbox[d]
      BY <1>1, <1>7, <2>1 DEF Sent
    <3>2. r \in heard <=> r \in Heard(d)
      <4>1. RoutesOf(table'[n]) = TableRoutes(n) \/ OpenEnds(n) \ {c} = {}
        BY <2>1
      <4>2. phase'[Twin[d]] = "open" => Twin[d] \in OpenEnds(n) \ {c}
        BY <1>1, <1>11 DEF OpenEnds
      <4>3. QED
        BY <1>8, <1>11, <4>1, <4>2
    <3>3. QED
      BY <1>5, <3>1, <3>2 DEF ComesTo
  <2>2. CASE told = OpenEnds(n) \ {c} /\ phase'[Twin[d]] # "open"
    <3>1. Twin[d] \notin told
      BY <1>1, <2>2 DEF OpenEnds
    <3>2. inbox'[d] = inbox[d] /\ heard = Heard(d)
      BY <1>1, <1>7, <1>8, <2>2, <3>1 DEF Sent
    <3>3. QED
      BY <1>5, <3>2
  <2>3. CASE told = OpenEnds(n) \ {c} /\ phase'[Twin[d]] = "open"
    <3>1. Twin[d] \in told
      BY <1>1, <1>11, <2>3 DEF OpenEnds
    <3>2. inbox'[d] = Append(inbox[d], m)
      BY <1>1, <1>7, <3>1 DEF Sent
    <3>3. m \in Message
      BY DEF Message
    <3>4. Says(m, r) <=> r \in news
      BY DEF Says
    <3>5. r \in news => (r \in heard <=> m.kind = "advert")
      <4>1. r \in news => r # SelfRoute(n)
        BY DEF SelfRoute
      <4>2. QED
        BY <1>11, <2>3, <4>1
    <3>6. r \notin news => (r \in heard <=> r \in Heard(d))
      BY <1>8, <1>11
    <3>7. QED
      BY <1>1, <1>5, <3>2, <3>3, <3>4, <3>5, <3>6, AppendNews
  <2>4. QED
    BY <1>6, <2>1, <2>2, <2>3
<1>12. QED
  BY <1>9, <1>10, <1>11

\* What InStepBox says of the channels, tables and links after a step.
LEMMA InStepNext ==
  ASSUME \A d \in up' : Owner[d] # Peer(d) => \A r \in Route : Acts(Owner[d], r) =>
           ComesTo(inbox'[d], r, Extend(r, Peer(d)), RoutesOf(table'[Owner[d]]),
                   IF phase'[Twin[d]] = "open"
                   THEN {SelfRoute(Peer(d))} \cup RoutesOf(table'[Peer(d)]) ELSE {})
  PROVE  AllInStep'
BY DEF AllInStep, InStepBox, Heard, KnownRoutes, TableRoutes, RoutesOf, Peer,
       ComesTo, LastSays, Silent, Says, Acts, Visits, Extend, SelfRoute, RouteOf

\* The channels keep to their ends when a message goes out on ends that are open.
LEMMA SentWell ==
  ASSUME IInv, LinksWell, NEW box \in [Conn -> Seq(Message)],
         \A d \in Conn : inbox[d] = <<>> => box[d] = <<>>, NEW targets, NEW m
  PROVE  \A d \in Conn : phase[d] = "closed" => Sent(box, targets, m)[d] = <<>>
BY DEF LinksWell, Sent

\* A new link has nothing on its way, and nothing installed through it.
LEMMA ConnectInStep ==
  ASSUME Uncrowded, ConvInv, NEW c \in Conn, Connect(c)
  PROVE  LinksWell' /\ AllInStep'
<1>1. /\ Twin[c] \in Conn /\ Twin[c] # c
      /\ phase[c] = "closed" /\ phase[Twin[c]] = "closed"
      /\ up' = up \union {c, Twin[c]}
      /\ phase' = [phase EXCEPT ![c] = "ready", ![Twin[c]] = "ready"]
      /\ UNCHANGED <<running, inbox, table, reach, spent>>
      /\ IInv /\ LinksWell /\ AllInStep /\ SingleLinks
      /\ phase \in [Conn -> {"closed", "ready", "open"}] /\ up \subseteq Conn
  BY ConnAssumption DEF Connect, ConvInv, Uncrowded, IInv, TypeOK
<1>2. LinksWell'
  BY <1>1, ConnAssumption DEF LinksWell
<1>3. ASSUME NEW d \in up', Owner[d] # Peer(d), NEW r \in Route, Acts(Owner[d], r)
      PROVE  ComesTo(inbox'[d], r, Extend(r, Peer(d)), RoutesOf(table'[Owner[d]]),
                   IF phase'[Twin[d]] = "open"
                   THEN {SelfRoute(Peer(d))} \cup RoutesOf(table'[Peer(d)]) ELSE {})
  <2>1. /\ d \in Conn /\ Owner[d] \in Node /\ Peer(d) \in Node /\ Twin[d] \in Conn
        /\ Twin[Twin[d]] = d
    BY <1>1, ConnAssumption DEF Peer
  <2>2. CASE d \in {c, Twin[c]}
    <3>1. phase[d] = "closed" /\ inbox[d] = <<>>
      BY <1>1, <2>1, <2>2 DEF LinksWell
    <3>2. phase'[Twin[d]] = "ready"
      BY <1>1, <2>1, <2>2, ConnAssumption
    <3>3. Extend(r, Peer(d)) \notin TableRoutes(Owner[d])
      BY <1>1, <2>1, <3>1, ExtendPath, RouteVia
    <3>4. Silent(inbox'[d], r)
      BY <1>1, <3>1 DEF Silent
    <3>5. QED
      BY <1>1, <3>2, <3>3, <3>4 DEF ComesTo, TableRoutes, RoutesOf
  <2>3. CASE d \notin {c, Twin[c]}
    <3>1. d \in up /\ Twin[d] # c /\ Twin[d] # Twin[c]
      BY <1>1, <2>1, <2>3, ConnAssumption
    <3>2. phase'[Twin[d]] = phase[Twin[d]]
      BY <1>1, <2>1, <3>1
    <3>3. QED
      BY <1>1, <1>3, <2>1, <3>1, <3>2
         DEF AllInStep, InStepBox, Heard, KnownRoutes, TableRoutes, RoutesOf
  <2>4. QED
    BY <2>2, <2>3
<1>4. QED
  BY <1>2, <1>3, InStepNext

\* A new neighbour is sent the whole table (add): it will know of all there is.
LEMMA AddInStep ==
  ASSUME Uncrowded, ConvInv, NEW c \in Conn, Add(c)
  PROVE  LinksWell' /\ AllInStep'
<1> DEFINE n == Owner[c]
           m == Advert(n, KnownRoutes(n))
<1>1. /\ n \in Node /\ phase[c] = "ready"
      /\ phase' = [phase EXCEPT ![c] = "open"]
      /\ inbox' = Sent(inbox, {c}, m)
      /\ UNCHANGED <<running, up, table, reach, spent>>
      /\ IInv /\ LinksWell /\ AllInStep /\ SingleLinks /\ TypeOK
      /\ phase \in [Conn -> {"closed", "ready", "open"}] /\ up \subseteq Conn
      /\ inbox \in [Conn -> Seq(Message)]
  BY ConnAssumption DEF Add, ConvInv, Uncrowded, IInv, TypeOK
<1>2. LinksWell'
  <2>1. \A d \in Conn : phase[d] = "closed" => inbox'[d] = <<>>
    BY <1>1, SentWell
  <2>2. QED
    BY <1>1, <2>1 DEF LinksWell
<1>3. KnownRoutes(n) \in SUBSET Route /\ m \in Message
  <2>1. SelfRoute(n) \in Route
    <3>1. <<>> \in Seq(Node)
      OBVIOUS
    <3>2. QED
      BY <1>1, <3>1 DEF SelfRoute, Route
  <2>2. TableRoutes(n) \in SUBSET Route
    BY <1>1, TableRoutesSound DEF TableRoutes, IInv
  <2>3. KnownRoutes(n) \in SUBSET Route
    BY <2>1, <2>2 DEF KnownRoutes
  <2>4. QED
    BY <1>1, <2>3 DEF Message, Advert
<1>4. ASSUME NEW d \in up', Owner[d] # Peer(d), NEW r \in Route, Acts(Owner[d], r)
      PROVE  ComesTo(inbox'[d], r, Extend(r, Peer(d)), RoutesOf(table'[Owner[d]]),
                   IF phase'[Twin[d]] = "open"
                   THEN {SelfRoute(Peer(d))} \cup RoutesOf(table'[Peer(d)]) ELSE {})
  <2>1. /\ d \in Conn /\ Owner[d] \in Node /\ Peer(d) \in Node /\ Twin[d] \in Conn
        /\ Twin[Twin[d]] = d /\ d \in up /\ inbox[d] \in Seq(Message)
    BY <1>1, ConnAssumption DEF Peer
  <2>2. ComesTo(inbox[d], r, Extend(r, Peer(d)), TableRoutes(Owner[d]), Heard(d))
    BY <1>1, <1>4, <2>1 DEF AllInStep, InStepBox
  <2>3. CASE Twin[d] = c
    <3>1. Heard(d) = {}
      BY <1>1, <2>3 DEF Heard
    <3>2. inbox'[d] = Append(inbox[d], m)
      BY <1>1, <2>1, <2>3 DEF Sent
    <3>3. Peer(d) = n /\ phase'[Twin[d]] = "open"
      BY <1>1, <2>3 DEF Peer
    <3>4. Says(m, r) <=> r \in KnownRoutes(n)
      BY DEF Says, Advert
    <3>5. m.kind = "advert"
      BY DEF Advert
    <3>6. ComesTo(Append(inbox[d], m), r, Extend(r, Peer(d)), TableRoutes(Owner[d]),
                  KnownRoutes(n))
      <4> HIDE DEF m
      <4>1. QED
        BY <1>3, <2>1, <2>2, <3>1, <3>4, <3>5, AppendNews
    <3>7. QED
      BY <1>1, <3>2, <3>3, <3>6 DEF KnownRoutes, TableRoutes, RoutesOf
  <2>4. CASE Twin[d] # c
    <3>1. inbox'[d] = inbox[d] /\ phase'[Twin[d]] = phase[Twin[d]]
      BY <1>1, <2>1, <2>4 DEF Sent
    <3>2. QED
      BY <1>1, <2>2, <3>1 DEF Heard, KnownRoutes, TableRoutes, RoutesOf
  <2>5. QED
    BY <2>3, <2>4
<1>5. QED
  BY <1>2, <1>4, InStepNext

\* Remove, after a connection broke or led back to the router itself.
LEMMA RemoveInStep ==
  ASSUME Uncrowded, ConvInv, NEW c \in Conn, phase[c] = "open",
         NEW box \in [Conn -> Seq(Message)], \A d \in Conn : d # c => box[d] = inbox[d],
         Remove(c, box)
  PROVE  LinksWell' /\ AllInStep'
<1> DEFINE n    == Owner[c]
           dead == {e \in table[n] : e.conn = c}
           left == table[n] \ dead
           gone == {RouteOf(e) : e \in dead}
           m    == Revocation(n, gone)
           told == Told(n, c, dead # {})
<1>1. /\ n \in Node /\ Twin[c] \in Conn /\ Twin[Twin[c]] = c /\ Twin[c] # c
      /\ table' = [table EXCEPT ![n] = left]
      /\ phase' = [phase EXCEPT ![c] = "closed"]
      /\ up' = up \ {c, Twin[c]}
      /\ inbox' = [Sent(box, told, m) EXCEPT ![c] = <<>>]
      /\ IInv /\ LinksWell /\ AllInStep /\ SingleLinks /\ TypeOK /\ TablesSound
      /\ phase \in [Conn -> {"closed", "ready", "open"}] /\ up \subseteq Conn
      /\ table \in [Node -> SUBSET Entry] /\ running[n]
  BY ConnAssumption DEF Remove, ConvInv, Uncrowded, IInv, TypeOK
<1>2. \A d \in Conn : d # c => inbox'[d] = Sent(box, told, m)[d]
  BY <1>1 DEF Sent
<1>3. LinksWell'
  <2>1. ASSUME NEW d \in Conn, phase'[d] = "closed"
        PROVE  inbox'[d] = <<>> /\ d \notin up'
    <3>1. CASE d = c
      BY <1>1, <3>1 DEF Sent
    <3>2. CASE d # c
      <4>1. phase[d] = "closed" /\ inbox[d] = <<>> /\ d \notin up
        BY <1>1, <2>1, <3>2 DEF LinksWell
      <4>2. QED
        BY <1>1, <1>2, <3>2, <4>1 DEF Sent
    <3>3. QED
      BY <3>1, <3>2
  <2>2. \A d \in Conn : d \in up' => Twin[d] \in up'
    BY <1>1, ConnAssumption DEF LinksWell
  <2>3. QED
    BY <2>1, <2>2 DEF LinksWell
<1>4. table'[n] = left /\ \A k \in Node : k # n => table'[k] = table[k]
  BY <1>1
<1>5. gone \in SUBSET Route
  BY <1>1, TableRoutesSound
<1>6. \A x \in gone : x \in TableRoutes(n) /\ x.path # <<>> /\ x.path[1] = Peer(c)
  BY <1>1 DEF TablesSound, RouteOf, TableRoutes
<1>7. \A x \in gone : x \notin RoutesOf(table'[n])
  <2>1. SUFFICES ASSUME NEW x \in gone, NEW f \in left, RouteOf(f) = x
                 PROVE  FALSE
    BY <1>4 DEF RoutesOf
  <2>2. \A e \in table[n] : RouteOf(e) = x => e.conn = c
    <3>1. x \in TableRoutes(n) /\ x.path[1] = Peer(c)
      BY <1>6
    <3> HIDE DEF gone, left, dead
    <3>2. QED
      BY <1>1, <3>1, RouteVia
  <2>3. QED
    BY <2>1, <2>2
<1>8. \A x \in Route \ gone : x \in RoutesOf(table'[n]) <=> x \in TableRoutes(n)
  BY <1>4 DEF RoutesOf, TableRoutes
<1>9. (told = {} /\ RoutesOf(table'[n]) = TableRoutes(n)) \/ told = OpenEnds(n) \ {c}
  BY <1>1, <1>4 DEF Told, RoutesOf, TableRoutes
<1>10. \A d \in up' : d # c /\ phase'[d] = phase[d] /\ phase'[Twin[d]] = phase[Twin[d]]
  BY <1>1, ConnAssumption
<1>11. Spreads(n, c, box, "revocation", gone, told)
  <2> HIDE DEF told, gone, dead, left
  <2>1. up' \subseteq up /\ m = [kind |-> "revocation", sender |-> n, routes |-> gone]
    BY <1>1 DEF Revocation
  <2>2. QED
    BY <1>1, <1>2, <1>4, <1>6, <1>7, <1>8, <1>9, <1>10, <2>1 DEF Spreads
<1>14. ASSUME NEW d \in up', Owner[d] # Peer(d), NEW r \in Route, Acts(Owner[d], r)
       PROVE  ComesTo(inbox'[d], r, Extend(r, Peer(d)), RoutesOf(table'[Owner[d]]),
                   IF phase'[Twin[d]] = "open"
                   THEN {SelfRoute(Peer(d))} \cup RoutesOf(table'[Peer(d)]) ELSE {})
  <2>1. d # c /\ "revocation" \in {"advert", "revocation"}
    BY <1>10
  <2> HIDE DEF n, dead, left, gone, m, told
  <2>2. QED
    BY <1>1, <1>5, <1>11, <1>14, <2>1, NewsSpreads
<1>15. QED
  BY <1>3, <1>14, InStepNext

\* Taking a message leaves the other channels, and an empty channel empty.
LEMMA TakenBox ==
  ASSUME TypeOK, NEW c \in Conn, inbox[c] # <<>>
  PROVE  /\ Taken(c) \in [Conn -> Seq(Message)]
         /\ Taken(c)[c] = Tail(inbox[c])
         /\ \A d \in Conn : d # c => Taken(c)[d] = inbox[d]
         /\ \A d \in Conn : inbox[d] = <<>> => Taken(c)[d] = <<>>
<1>1. inbox \in [Conn -> Seq(Message)] /\ Tail(inbox[c]) \in Seq(Message)
  BY DEF TypeOK
<1>2. QED
  BY <1>1 DEF Taken

\* What c's owner makes of a message that it took from c and that changed nothing.
LEMMA ReadInStep ==
  ASSUME ConvInv, NEW c \in Conn, inbox[c] # <<>>,
         Owner[c] = Peer(c) \/ Head(inbox[c]).kind \notin {"advert", "revocation"},
         inbox' = Taken(c), UNCHANGED <<phase, up, table>>
  PROVE  LinksWell' /\ AllInStep'
<1>1. /\ IInv /\ TypeOK /\ LinksWell /\ AllInStep /\ up \subseteq Conn
      /\ inbox \in [Conn -> Seq(Message)]
  BY DEF ConvInv, IInv, TypeOK
<1>2. LinksWell'
  BY <1>1, TakenBox DEF LinksWell
<1>3. ASSUME NEW d \in up', Owner[d] # Peer(d), NEW r \in Route, Acts(Owner[d], r)
      PROVE  ComesTo(inbox'[d], r, Extend(r, Peer(d)), RoutesOf(table'[Owner[d]]),
                   IF phase'[Twin[d]] = "open"
                   THEN {SelfRoute(Peer(d))} \cup RoutesOf(table'[Peer(d)]) ELSE {})
  <2>1. d \in Conn /\ d \in up
    BY <1>1
  <2>2. ComesTo(inbox[d], r, Extend(r, Peer(d)), TableRoutes(Owner[d]), Heard(d))
    BY <1>1, <1>3, <2>1 DEF AllInStep, InStepBox
  <2>3. ComesTo(inbox'[d], r, Extend(r, Peer(d)), TableRoutes(Owner[d]), Heard(d))
    <3>1. CASE d = c
      <4>1. ~Says(Head(inbox[c]), r)
        BY <1>3, <3>1 DEF Says
      <4>2. ComesTo(Tail(inbox[c]), r, Extend(r, Peer(d)), TableRoutes(Owner[d]), Heard(d))
        BY <1>1, <2>2, <3>1, <4>1, TakeNews
      <4>3. QED
        BY <3>1, <4>2, <1>1, TakenBox
    <3>2. CASE d # c
      BY <1>1, <2>1, <2>2, <3>2, TakenBox
    <3>3. QED
      BY <3>1, <3>2
  <2>4. QED
    BY <2>3 DEF Heard, KnownRoutes, TableRoutes, RoutesOf
<1>4. QED
  BY <1>2, <1>3, InStepNext

\* An advertisement: integrate installs what is usable and passes on what is new.
LEMMA AdvertInStep ==
  ASSUME Uncrowded, ConvInv, NEW c \in Conn, ReceiveAdvert(c)
  PROVE  LinksWell' /\ AllInStep'
<1> DEFINE n       == Owner[c]
           m       == Head(inbox[c])
           usable  == UsableRoutes(n, m.sender, m.routes)
           offered == usable \ TableRoutes(n)
           new     == {EntryOf(r, c) : r \in offered}
           kept    == KeepBest(table[n] \union new)
           fresh   == {r \in offered : EntryOf(r, c) \in kept}
           told    == Told(n, c, fresh # {})
<1>1. /\ n \in Node /\ phase[c] = "open" /\ inbox[c] # <<>> /\ m.kind = "advert"
      /\ UNCHANGED <<running, phase, up, spent>>
      /\ IInv /\ TypeOK /\ TablesSound /\ MessagesSound /\ LinksWell /\ AllInStep
      /\ SingleLinks /\ RoomForAll /\ running[n]
      /\ up \subseteq Conn /\ table \in [Node -> SUBSET Entry]
      /\ inbox \in [Conn -> Seq(Message)] /\ inbox[c] \in Seq(Message)
      /\ Twin[c] \in Conn /\ Owner[Twin[c]] = Peer(c)
  BY ConnAssumption DEF ReceiveAdvert, IsNext, ConvInv, IInv, Uncrowded, TypeOK, Peer
<1>2. m \in Message /\ SoundMessage(c, m)
  BY <1>1, HeadSound
<1>3. /\ m.sender = Peer(c) /\ Peer(c) \in Node /\ m.routes \in SUBSET Route
      /\ \A r \in m.routes : GoodRoute(Peer(c), r)
  BY <1>1, <1>2 DEF Message, SoundMessage
<1>4. CASE m.sender = n
  <2>1. inbox' = Taken(c) /\ UNCHANGED <<phase, up, table>>
    BY <1>1, <1>4 DEF ReceiveAdvert
  <2>2. QED
    BY <1>1, <1>3, <1>4, <2>1, ReadInStep
<1>5. CASE m.sender # n
  <2>1. /\ table' = [table EXCEPT ![n] = kept]
        /\ inbox' = Sent(Taken(c), told, Advert(n, fresh))
    BY <1>5 DEF ReceiveAdvert
  <2>2. \A r \in usable : /\ r \in Route /\ GoodRoute(n, r)
                          /\ r.path # <<>> /\ r.path[1] = Peer(c)
    <3>1. Joined(n, m.sender)
      BY <1>3 DEF Joined
    <3>2. QED
      BY <1>1, <1>3, <1>5, <3>1, UsableSound
  <2>3. \A r \in offered : EntryOf(r, c) \in Entry /\ GoodEntry(n, EntryOf(r, c))
                           /\ RouteOf(EntryOf(r, c)) = r
    BY <2>2 DEF EntryOf, RouteOf, Entry, Route, GoodEntry, GoodRoute, SoundRoute
  <2>4. \A e \in table[n] : e \in Entry /\ GoodEntry(n, e)
    BY <1>1 DEF TablesSound, GoodEntry
  <2>5. kept = table[n] \union new
    <3>1. table[n] \union new \in SUBSET Entry
      BY <2>3, <2>4
    <3>2. \A e \in table[n] \union new : GoodEntry(n, e)
      BY <2>3, <2>4
    <3> HIDE DEF new, n
    <3>3. QED
      BY <1>1, <3>1, <3>2, NothingTrimmed
  <2>6. fresh = offered
    BY <2>5
  <2>7. table'[n] = table[n] \union new /\ \A k \in Node : k # n => table'[k] = table[k]
    BY <1>1, <2>1, <2>5
  <2>8. RoutesOf(table'[n]) = TableRoutes(n) \cup offered
    <3>1. {RouteOf(e) : e \in new} = offered
      BY <2>3
    <3>2. RoutesOf(table'[n]) = TableRoutes(n) \cup {RouteOf(e) : e \in new}
      BY <2>7 DEF RoutesOf, TableRoutes
    <3>3. QED
      BY <3>1, <3>2
  <2>9. offered \in SUBSET Route
    BY <2>2
  <2>10. (told = {} /\ offered = {}) \/ told = OpenEnds(n) \ {c}
    BY <1>1, <2>6 DEF Told
  <2>11. \A x \in offered : x \in usable
    OBVIOUS
  <2> HIDE DEF n, m, usable, offered, new, kept, told
  <2>12. Spreads(n, c, Taken(c), "advert", offered, told)
    <3>1. Owner[c] = n
      BY DEF n
    <3>2. Advert(n, fresh) = [kind |-> "advert", sender |-> n, routes |-> offered]
      BY <2>6 DEF Advert
    <3>3. \A d \in Conn : d # c => Taken(c)[d] = inbox[d]
      BY <1>1, TakenBox
    <3>4. \A x \in offered : /\ x.path # <<>> /\ x.path[1] = Peer(c)
                             /\ x \in RoutesOf(table'[n]) <=> "advert" = "advert"
      BY <2>2, <2>8, <2>11
    <3>5. (told = {} /\ RoutesOf(table'[n]) = TableRoutes(n)) \/ told = OpenEnds(n) \ {c}
      BY <2>8, <2>10
    <3>6. \A x \in Route \ offered : x \in RoutesOf(table'[n]) <=> x \in TableRoutes(n)
      BY <2>8
    <3>7. QED
      BY <1>1, <2>1, <2>7, <3>1, <3>2, <3>3, <3>4, <3>5, <3>6 DEF Spreads
  <2>13. LinksWell'
    <3>1. \A d \in Conn : phase[d] = "closed" => inbox'[d] = <<>>
      <4>1. \A d \in Conn : inbox[d] = <<>> => Taken(c)[d] = <<>>
        BY <1>1, TakenBox
      <4>2. QED
        BY <1>1, <2>1, <4>1 DEF LinksWell, Sent
    <3>2. QED
      BY <1>1, <3>1 DEF LinksWell
  <2>14. ASSUME NEW d \in up', Owner[d] # Peer(d), NEW r \in Route, Acts(Owner[d], r)
         PROVE  ComesTo(inbox'[d], r, Extend(r, Peer(d)), RoutesOf(table'[Owner[d]]),
                   IF phase'[Twin[d]] = "open"
                   THEN {SelfRoute(Peer(d))} \cup RoutesOf(table'[Peer(d)]) ELSE {})
    <3>1. CASE d # c
      BY <1>1, <2>9, <2>12, <2>14, <3>1, TakenBox, NewsSpreads
    <3>2. CASE d = c
      <4> DEFINE x == Extend(r, Peer(c))
      <4>1. Owner[c] = n /\ Peer(c) # n /\ c \in up /\ Acts(n, r) /\ x \in Route
        BY <1>1, <1>3, <2>14, <3>2, ExtendPath DEF n
      <4>2. ComesTo(inbox[c], r, x, TableRoutes(n), Heard(c))
        BY <1>1, <2>14, <3>2, <4>1 DEF AllInStep, InStepBox
      <4>3. Twin[c] \notin told
        BY <1>1, <2>10, <4>1 DEF OpenEnds
      <4>4. inbox'[c] = Tail(inbox[c])
        BY <1>1, <2>1, <4>3, TakenBox DEF Sent
      <4>5. Heard(c) = IF phase'[Twin[c]] = "open"
                       THEN {SelfRoute(Peer(c))} \cup RoutesOf(table'[Peer(c)]) ELSE {}
        BY <1>1, <1>3, <2>7, <4>1 DEF Heard, KnownRoutes, TableRoutes, RoutesOf
      <4>6. r \in m.routes => x \in RoutesOf(table'[n])
        <5>1. r \in m.routes => x \in usable
          BY <1>3, <4>1 DEF usable, UsableRoutes, Acts
        <5>2. QED
          BY <2>8, <5>1 DEF offered
      <4>7. r \notin m.routes => x \notin offered
        <5>1. SUFFICES ASSUME x \in usable PROVE r \in m.routes
          BY <2>11
        <5>2. PICK y \in m.routes : x = Extend(y, Peer(c))
          BY <1>3, <5>1 DEF usable, UsableRoutes
        <5>3. y = r
          BY <1>3, <5>2, ExtendPath
        <5>4. QED
          BY <5>3
      <4>8. Says(m, r) <=> r \in m.routes
        BY <1>1 DEF Says
      <4>9. ComesTo(Tail(inbox[c]), r, x, RoutesOf(table'[n]), Heard(c))
        <5>1. Says(Head(inbox[c]), r) =>
                (x \in RoutesOf(table'[n]) <=> Head(inbox[c]).kind = "advert")
          BY <1>1, <4>6, <4>8 DEF m
        <5>2. ~Says(Head(inbox[c]), r) =>
                (x \in RoutesOf(table'[n]) <=> x \in TableRoutes(n))
          BY <2>8, <4>7, <4>8 DEF m
        <5> HIDE DEF x
        <5>3. QED
          BY <1>1, <4>2, <5>1, <5>2, TakeNews
      <4>10. QED
        BY <3>2, <4>1, <4>4, <4>5, <4>9
    <3>3. QED
      BY <3>1, <3>2
  <2>15. QED
    BY <2>13, <2>14, InStepNext
<1>6. QED
  BY <1>4, <1>5

\* A revocation: what it removes is revoked to the others.
LEMMA RevocationInStep ==
  ASSUME Uncrowded, ConvInv, NEW c \in Conn, ReceiveRevocation(c)
  PROVE  LinksWell' /\ AllInStep'
<1> DEFINE n    == Owner[c]
           m    == Head(inbox[c])
           gone == UsableRoutes(n, m.sender, m.routes)
           dead == {e \in table[n] : RouteOf(e) \in gone}
           left == table[n] \ dead
           told == Told(n, c, dead # {})
<1>1. /\ n \in Node /\ phase[c] = "open" /\ inbox[c] # <<>> /\ m.kind = "revocation"
      /\ UNCHANGED <<running, phase, up, spent>>
      /\ IInv /\ TypeOK /\ TablesSound /\ MessagesSound /\ LinksWell /\ AllInStep
      /\ SingleLinks /\ running[n]
      /\ up \subseteq Conn /\ table \in [Node -> SUBSET Entry]
      /\ inbox \in [Conn -> Seq(Message)] /\ inbox[c] \in Seq(Message)
      /\ Twin[c] \in Conn /\ Owner[Twin[c]] = Peer(c)
  BY ConnAssumption DEF ReceiveRevocation, IsNext, ConvInv, IInv, Uncrowded, TypeOK, Peer
<1>2. m \in Message /\ SoundMessage(c, m)
  BY <1>1, HeadSound
<1>3. /\ m.sender = Peer(c) /\ Peer(c) \in Node /\ m.routes \in SUBSET Route
      /\ \A r \in m.routes : GoodRoute(Peer(c), r)
  BY <1>1, <1>2 DEF Message, SoundMessage
<1>4. CASE m.sender = n
  <2>1. inbox' = Taken(c) /\ UNCHANGED <<phase, up, table>>
    BY <1>1, <1>4 DEF ReceiveRevocation
  <2>2. QED
    BY <1>1, <1>3, <1>4, <2>1, ReadInStep
<1>5. CASE m.sender # n
  <2>1. /\ table' = [table EXCEPT ![n] = left]
        /\ inbox' = Sent(Taken(c), told, Revocation(n, gone))
    BY <1>5 DEF ReceiveRevocation
  <2>2. \A r \in gone : r \in Route /\ r.path # <<>> /\ r.path[1] = Peer(c)
    <3>1. Joined(n, m.sender)
      BY <1>3 DEF Joined
    <3>2. QED
      BY <1>1, <1>3, <1>5, <3>1, UsableSound
  <2>3. table'[n] = left /\ \A k \in Node : k # n => table'[k] = table[k]
    BY <1>1, <2>1
  <2>4. RoutesOf(table'[n]) = TableRoutes(n) \ gone
    BY <2>3 DEF RoutesOf, TableRoutes
  <2>5. dead = {} => left = table[n]
    OBVIOUS
  <2>6. (told = {} /\ dead = {}) \/ told = OpenEnds(n) \ {c}
    BY <1>1 DEF Told
  <2> HIDE DEF n, m, gone, dead, left, told
  <2>7. gone \in SUBSET Route
    BY <2>2
  <2>8. Spreads(n, c, Taken(c), "revocation", gone, told)
    <3>1. Owner[c] = n
      BY DEF n
    <3>2. Revocation(n, gone) = [kind |-> "revocation", sender |-> n, routes |-> gone]
      BY DEF Revocation
    <3>3. \A d \in Conn : d # c => Taken(c)[d] = inbox[d]
      BY <1>1, TakenBox
    <3>4. \A x \in gone : /\ x.path # <<>> /\ x.path[1] = Peer(c)
                          /\ x \in RoutesOf(table'[n]) <=> "revocation" = "advert"
      BY <2>2, <2>4
    <3>5. (told = {} /\ RoutesOf(table'[n]) = TableRoutes(n)) \/ told = OpenEnds(n) \ {c}
      BY <2>3, <2>5, <2>6 DEF RoutesOf, TableRoutes
    <3>6. \A x \in Route \ gone : x \in RoutesOf(table'[n]) <=> x \in TableRoutes(n)
      BY <2>4
    <3>7. QED
      BY <1>1, <2>1, <2>3, <3>1, <3>2, <3>3, <3>4, <3>5, <3>6 DEF Spreads
  <2>9. LinksWell'
    <3>1. \A d \in Conn : phase[d] = "closed" => inbox'[d] = <<>>
      <4>1. \A d \in Conn : inbox[d] = <<>> => Taken(c)[d] = <<>>
        BY <1>1, TakenBox
      <4>2. QED
        BY <1>1, <2>1, <4>1 DEF LinksWell, Sent
    <3>2. QED
      BY <1>1, <3>1 DEF LinksWell
  <2>10. ASSUME NEW d \in up', Owner[d] # Peer(d), NEW r \in Route, Acts(Owner[d], r)
         PROVE  ComesTo(inbox'[d], r, Extend(r, Peer(d)), RoutesOf(table'[Owner[d]]),
                   IF phase'[Twin[d]] = "open"
                   THEN {SelfRoute(Peer(d))} \cup RoutesOf(table'[Peer(d)]) ELSE {})
    <3>1. CASE d # c
      BY <1>1, <2>7, <2>8, <2>10, <3>1, TakenBox, NewsSpreads
    <3>2. CASE d = c
      <4> DEFINE x == Extend(r, Peer(c))
      <4>1. Owner[c] = n /\ Peer(c) # n /\ c \in up /\ Acts(n, r) /\ x \in Route
        BY <1>1, <1>3, <2>10, <3>2, ExtendPath DEF n
      <4>2. ComesTo(inbox[c], r, x, TableRoutes(n), Heard(c))
        BY <1>1, <2>10, <3>2, <4>1 DEF AllInStep, InStepBox
      <4>3. Twin[c] \notin told
        BY <1>1, <2>6, <4>1 DEF OpenEnds
      <4>4. inbox'[c] = Tail(inbox[c])
        BY <1>1, <2>1, <4>3, TakenBox DEF Sent
      <4>5. Heard(c) = IF phase'[Twin[c]] = "open"
                       THEN {SelfRoute(Peer(c))} \cup RoutesOf(table'[Peer(c)]) ELSE {}
        BY <1>1, <1>3, <2>3, <4>1 DEF Heard, KnownRoutes, TableRoutes, RoutesOf
      <4>6. r \in m.routes => x \in gone
        BY <1>3, <4>1 DEF gone, UsableRoutes, Acts
      <4>7. r \notin m.routes => x \notin gone
        <5>1. SUFFICES ASSUME x \in gone PROVE r \in m.routes
          OBVIOUS
        <5>2. PICK y \in m.routes : x = Extend(y, Peer(c))
          BY <1>3, <5>1 DEF gone, UsableRoutes
        <5>3. y = r
          BY <1>3, <5>2, ExtendPath
        <5>4. QED
          BY <5>3
      <4>8. Says(m, r) <=> r \in m.routes
        BY <1>1 DEF Says
      <4>9. ComesTo(Tail(inbox[c]), r, x, RoutesOf(table'[n]), Heard(c))
        <5>1. Says(Head(inbox[c]), r) =>
                (x \in RoutesOf(table'[n]) <=> Head(inbox[c]).kind = "advert")
          BY <1>1, <2>4, <4>6, <4>8 DEF m
        <5>2. ~Says(Head(inbox[c]), r) =>
                (x \in RoutesOf(table'[n]) <=> x \in TableRoutes(n))
          BY <2>4, <4>7, <4>8 DEF m
        <5> HIDE DEF x
        <5>3. QED
          BY <1>1, <4>2, <5>1, <5>2, TakeNews
      <4>10. QED
        BY <3>2, <4>1, <4>4, <4>5, <4>9
    <3>3. QED
      BY <3>1, <3>2
  <2>11. QED
    BY <2>9, <2>10, InStepNext
<1>6. QED
  BY <1>4, <1>5

\* Sending a message without routes on any ends.
LEMMA SayInStep ==
  ASSUME ConvInv, NEW box \in [Conn -> Seq(Message)], InStepBox(box),
         \A d \in Conn : inbox[d] = <<>> => box[d] = <<>>,
         NEW targets, NEW m \in Message, m.kind \notin {"advert", "revocation"},
         inbox' = box \/ inbox' = Sent(box, targets, m), UNCHANGED <<phase, up, table>>
  PROVE  LinksWell' /\ AllInStep'
<1>1. /\ IInv /\ TypeOK /\ LinksWell /\ up \subseteq Conn
      /\ inbox \in [Conn -> Seq(Message)]
  BY DEF ConvInv, IInv, TypeOK
<1>2. LinksWell'
  <2>1. \A d \in Conn : phase[d] = "closed" => inbox'[d] = <<>>
    BY <1>1 DEF LinksWell, Sent
  <2>2. QED
    BY <1>1, <2>1 DEF LinksWell
<1>3. InStepBox(inbox')
  BY <1>1, OtherMessages
<1>4. ASSUME NEW d \in up', Owner[d] # Peer(d), NEW r \in Route, Acts(Owner[d], r)
      PROVE  ComesTo(inbox'[d], r, Extend(r, Peer(d)), RoutesOf(table'[Owner[d]]),
                   IF phase'[Twin[d]] = "open"
                   THEN {SelfRoute(Peer(d))} \cup RoutesOf(table'[Peer(d)]) ELSE {})
  <2>1. ComesTo(inbox'[d], r, Extend(r, Peer(d)), TableRoutes(Owner[d]), Heard(d))
    BY <1>3, <1>4 DEF InStepBox
  <2>2. QED
    BY <2>1 DEF Heard, KnownRoutes, TableRoutes, RoutesOf
<1>5. QED
  BY <1>2, <1>4, InStepNext

\* A hello changes no route, or removes a connection that leads back.
LEMMA HelloInStep ==
  ASSUME Uncrowded, ConvInv, NEW c \in Conn, ReceiveHello(c)
  PROVE  LinksWell' /\ AllInStep'
<1>1. /\ phase[c] = "open" /\ inbox[c] # <<>> /\ Head(inbox[c]).kind = "hello" /\ TypeOK
  BY DEF ReceiveHello, IsNext, ConvInv, IInv
<1>2. CASE Remove(c, Taken(c))
  BY <1>1, <1>2, TakenBox, RemoveInStep
<1>3. CASE inbox' = Taken(c) /\ UNCHANGED <<phase, up, table, reach>>
  BY <1>1, <1>3, ReadInStep
<1>4. QED
  BY <1>2, <1>3 DEF ReceiveHello

\* A data message, kept or forwarded, changes no route.
LEMMA DataInStep ==
  ASSUME Uncrowded, ConvInv, NEW c \in Conn, ReceiveData(c)
  PROVE  LinksWell' /\ AllInStep'
<1> DEFINE n     == Owner[c]
           m     == Head(inbox[c])
           d     == Data(m.dest, Append(m.trail, n))
           via   == {BestRoute(table[n], m.dest).conn}
<1>1. /\ inbox[c] # <<>> /\ m.kind = "data" /\ TypeOK /\ n \in Node /\ MessagesSound
      /\ inbox \in [Conn -> Seq(Message)] /\ InStepBox(inbox)
      /\ UNCHANGED <<phase, up, table>>
  BY ConnAssumption DEF ReceiveData, IsNext, ConvInv, IInv, AllInStep, TypeOK
<1>2. inbox' = Taken(c) \/ inbox' = Sent(Taken(c), via, d)
  BY <1>1 DEF ReceiveData, Forwarded
<1>3. m \in Message
  BY <1>1, HeadSound
<1>4. d \in Message /\ d.kind = "data"
  BY <1>1, <1>3 DEF Message, Data
<1>5. InStepBox(Taken(c))
  <2>1. Taken(c) = [inbox EXCEPT ![c] = Tail(@)] /\ Head(inbox[c]).kind \notin {"advert", "revocation"}
    BY <1>1 DEF Taken
  <2>2. QED
    BY <1>1, <2>1, OtherMessages
<1>6. Taken(c) \in [Conn -> Seq(Message)] /\ \A e \in Conn : inbox[e] = <<>> => Taken(c)[e] = <<>>
  BY <1>1, TakenBox
<1> HIDE DEF d, m, n, via
<1>7. QED
  BY <1>1, <1>2, <1>4, <1>5, <1>6, SayInStep

\* Routers start without links, routes and messages.
LEMMA InStepInit == Init => LinksWell /\ AllInStep /\ \A n \in Node : running[n]
BY DEF Init, LinksWell, AllInStep, InStepBox

\* Every step keeps all channels in step.
LEMMA InStepStep == Uncrowded /\ ConvInv /\ [Next]_vars => ConvInv'
<1> SUFFICES ASSUME Uncrowded, ConvInv, [Next]_vars PROVE ConvInv'
  OBVIOUS
<1>1. /\ IInv /\ TypeOK /\ LinksWell /\ AllInStep /\ InStepBox(inbox)
      /\ inbox \in [Conn -> Seq(Message)] /\ \A n \in Node : running[n]
  BY DEF ConvInv, IInv, TypeOK, AllInStep
<1>2. IInv'
  BY <1>1, NextSound
<1>3. ASSUME NEW c \in Conn, Connect(c)
      PROVE  LinksWell' /\ AllInStep' /\ UNCHANGED running
  BY <1>3, ConnectInStep DEF Connect
<1>4. ASSUME NEW c \in Conn, Add(c)
      PROVE  LinksWell' /\ AllInStep' /\ UNCHANGED running
  BY <1>4, AddInStep DEF Add
<1>5. ASSUME NEW c \in Conn, Break(c)
      PROVE  LinksWell' /\ AllInStep' /\ UNCHANGED running
  <2>1. /\ up' = up \ {c, Twin[c]} /\ UNCHANGED <<running, phase, inbox, table>>
    BY <1>5 DEF Break
  <2>2. LinksWell'
    BY <1>1, <1>5, <2>1, ConnAssumption DEF LinksWell
  <2>3. ASSUME NEW d \in up', Owner[d] # Peer(d), NEW r \in Route, Acts(Owner[d], r)
        PROVE  ComesTo(inbox'[d], r, Extend(r, Peer(d)), RoutesOf(table'[Owner[d]]),
                     IF phase'[Twin[d]] = "open"
                     THEN {SelfRoute(Peer(d))} \cup RoutesOf(table'[Peer(d)]) ELSE {})
    BY <1>1, <2>1, <2>3 DEF InStepBox, Heard, KnownRoutes, TableRoutes, RoutesOf
  <2>4. QED
    BY <2>1, <2>2, <2>3, InStepNext
<1>6. ASSUME NEW c \in Conn, Disconnect(c)
      PROVE  LinksWell' /\ AllInStep' /\ UNCHANGED running
  BY <1>1, <1>6, RemoveInStep DEF Disconnect
<1>7. ASSUME NEW c \in Conn, Receive(c)
      PROVE  LinksWell' /\ AllInStep' /\ UNCHANGED running
  <2>1. UNCHANGED running
    BY <1>7 DEF Receive, ReceiveAdvert, ReceiveRevocation, ReceiveHello, ReceiveData
  <2>2. QED
    BY <1>7, <2>1, AdvertInStep, RevocationInStep, HelloInStep, DataInStep DEF Receive
<1>8. ASSUME NEW n \in Node, Shutdown(n)
      PROVE  FALSE
  BY <1>1, <1>8 DEF Shutdown, Uncrowded, TypeOK, Spent
<1>9. ASSUME NEW n \in Node, Start(n)
      PROVE  FALSE
  BY <1>1, <1>9 DEF Start
<1>10. ASSUME NEW n \in Node, SayHello(n)
       PROVE  LinksWell' /\ AllInStep' /\ UNCHANGED running
  <2>1. Hello(n) \in Message /\ Hello(n).kind = "hello"
    BY DEF Hello, Message
  <2>2. /\ inbox' = Sent(inbox, OpenEnds(n), Hello(n))
        /\ UNCHANGED <<running, phase, up, table>>
    BY <1>10 DEF SayHello
  <2>3. QED
    BY <1>1, <2>1, <2>2, SayInStep
<1>11. ASSUME NEW n \in Node, NEW dest \in Node, Send(n, dest)
       PROVE  LinksWell' /\ AllInStep' /\ UNCHANGED running
  <2> DEFINE d == Data(dest, Append(<<>>, n))
             via == {BestRoute(table[n], dest).conn}
  <2>1. d \in Message /\ d.kind = "data"
    <3>1. Append(<<>>, n) \in Seq(Node)
      OBVIOUS
    <3>2. QED
      BY <3>1 DEF Data, Message
  <2>2. /\ inbox' = Sent(inbox, via, d)
        /\ UNCHANGED <<running, phase, up, table>>
    BY <1>11 DEF Send, Forwarded
  <2> HIDE DEF d, via
  <2>3. QED
    BY <1>1, <2>1, <2>2, SayInStep
<1>12. CASE UNCHANGED vars
  <2>1. UNCHANGED <<running, phase, up, inbox, table>>
    BY <1>12 DEF vars
  <2>2. LinksWell'
    BY <1>1, <2>1 DEF LinksWell
  <2>3. ASSUME NEW d \in up', Owner[d] # Peer(d), NEW r \in Route, Acts(Owner[d], r)
        PROVE  ComesTo(inbox'[d], r, Extend(r, Peer(d)), RoutesOf(table'[Owner[d]]),
                     IF phase'[Twin[d]] = "open"
                     THEN {SelfRoute(Peer(d))} \cup RoutesOf(table'[Peer(d)]) ELSE {})
    BY <1>1, <2>1, <2>3 DEF InStepBox, Heard, KnownRoutes, TableRoutes, RoutesOf
  <2>4. AllInStep'
    BY <2>3, InStepNext
  <2>5. QED
    BY <1>1, <1>2, <2>1, <2>2, <2>4 DEF ConvInv
<1>13. QED
  BY <1>1, <1>2, <1>3, <1>4, <1>5, <1>6, <1>7, <1>8, <1>9, <1>10, <1>11, <1>12
     DEF Next, ConvInv

\* Every set of natural numbers that is not empty has a least element.
LEMMA LeastNatural ==
  ASSUME NEW T, T \subseteq Nat, T # {}
  PROVE  \E m \in T : \A n \in T : m <= n
<1>1. PICK m \in T : \A n \in T : ~(<<n, m>> \in OpToRel(<, Nat))
  BY NatLessThanWellFounded, WFMin, Zenon
<1>2. ASSUME NEW n \in T PROVE m <= n
  <2> DEFINE pair == <<n, m>>
  <2>1. pair \in Nat \X Nat /\ pair[1] = n /\ pair[2] = m
    OBVIOUS
  <2>2. pair[1] < pair[2] => pair \in OpToRel(<, Nat)
    BY <2>1 DEF OpToRel
  <2>3. ~(n < m)
    BY <1>1, <2>1, <2>2
  <2>4. QED
    BY <2>3
<1>3. QED
  BY <1>2

\* The path leads away from n over connections that are up.
AllLinked(n, p) == \A i \in 1..Len(p) : Linked(IF i = 1 THEN n ELSE p[i - 1], p[i])

\* The route that such a path is.
Along(p) == [dest |-> p[Len(p)], cost |-> Len(p), path |-> p]

\* The path leads from n and visits no router twice.
Simple(n, p) ==
  /\ p \in Seq(Node) /\ p # <<>>
  /\ \A i \in 1..Len(p) : p[i] # n
  /\ \A i, j \in 1..Len(p) : i # j => p[i] # p[j]

\* A simple path that leads from n through its first node s.
LEMMA RestOfPath ==
  ASSUME NEW n \in Node, NEW p, Simple(n, p), Len(p) # 1
  PROVE  /\ Simple(p[1], Tail(p)) /\ p[1] \in Node /\ p[1] # n
         /\ Len(Tail(p)) = Len(p) - 1 /\ Len(p) \in Nat
         /\ \A i \in 1..Len(Tail(p)) : Tail(p)[i] = p[i + 1] /\ i + 1 \in 1..Len(p)
         /\ Acts(n, Along(Tail(p))) /\ Along(Tail(p)) \in Route
         /\ Extend(Along(Tail(p)), p[1]) = Along(p)
<1> DEFINE q == Tail(p)
<1>1. /\ p \in Seq(Node) /\ p # <<>> /\ Len(p) \in Nat /\ Len(p) # 0
      /\ q \in Seq(Node) /\ Len(q) = Len(p) - 1 /\ Len(q) # 0
      /\ \A i \in 1..Len(q) : q[i] = p[i + 1] /\ i + 1 \in 1..Len(p) /\ i \in Nat
      /\ p[1] \in Node /\ 1 \in 1..Len(p)
  BY DEF Simple
<1>2. p = <<p[1]>> \o q
  BY <1>1
<1> HIDE DEF q
<1>3. p[1] # n /\ q # <<>>
  BY <1>1 DEF Simple
<1>4. \A i \in 1..Len(q) : q[i] # n /\ q[i] # p[1]
  <2>1. SUFFICES ASSUME NEW i \in 1..Len(q) PROVE q[i] # n /\ q[i] # p[1]
    OBVIOUS
  <2>2. q[i] = p[i + 1] /\ i + 1 \in 1..Len(p) /\ i + 1 # 1
    BY <1>1
  <2>3. QED
    BY <1>1, <2>2 DEF Simple
<1>5. \A i, j \in 1..Len(q) : i # j => q[i] # q[j]
  <2>1. SUFFICES ASSUME NEW i \in 1..Len(q), NEW j \in 1..Len(q), i # j
                 PROVE  q[i] # q[j]
    OBVIOUS
  <2>2. /\ q[i] = p[i + 1] /\ i + 1 \in 1..Len(p) /\ q[j] = p[j + 1] /\ j + 1 \in 1..Len(p)
        /\ i + 1 # j + 1
    BY <1>1, <2>1
  <2>3. QED
    BY <2>2 DEF Simple
<1>6. Len(q) \in 1..Len(q) /\ q[Len(q)] = p[Len(p)] /\ q[Len(q)] \in Node
  BY <1>1
<1>7. Acts(n, Along(q)) /\ Along(q) \in Route
  BY <1>1, <1>4, <1>6 DEF Acts, Along, Visits, Route
<1>8. Extend(Along(q), p[1]) = Along(p)
  <2>1. Along(q).dest = p[Len(p)] /\ Along(q).cost + 1 = Len(p) /\ Along(q).path = q
    BY <1>1, <1>6 DEF Along
  <2>2. QED
    BY <1>2, <2>1 DEF Extend, Along
<1>9. QED
  BY <1>1, <1>3, <1>4, <1>5, <1>7, <1>8 DEF Simple, q

\* A table's routes are the routes along their paths.
LEMMA TableRoutePaths ==
  ASSUME IInv, NEW n \in Node, NEW x \in TableRoutes(n)
  PROVE  /\ Simple(n, x.path) /\ x = Along(x.path)
         /\ \E c \in Conn : Owner[c] = n /\ phase[c] = "open" /\ x.path[1] = Peer(c)
<1>1. PICK e \in table[n] : x = RouteOf(e)
  BY DEF TableRoutes
<1>2. /\ e \in Entry /\ GoodRoute(n, e) /\ e.path # <<>> /\ Owner[e.conn] = n
      /\ phase[e.conn] = "open" /\ e.path[1] = Peer(e.conn)
  BY DEF IInv, TypeOK, TablesSound
<1>3. QED
  BY <1>1, <1>2 DEF RouteOf, Entry, GoodRoute, SoundRoute, Simple, Along

\* Once the network is quiet, a router has of its neighbour's routes all that are of
\* use to it, and no others.
LEMMA QuietKnows ==
  ASSUME ConvInv, Quiet, NEW c \in up, Owner[c] # Peer(c),
         NEW r \in Route, Acts(Owner[c], r)
  PROVE  Extend(r, Peer(c)) \in TableRoutes(Owner[c]) <=> r \in KnownRoutes(Peer(c))
<1>1. c \in Conn /\ Twin[c] \in Conn /\ Twin[c] \in up
  BY ConnAssumption DEF ConvInv, IInv, TypeOK, LinksWell
<1>2. inbox[c] = <<>> /\ phase[Twin[c]] = "open"
  BY <1>1 DEF Quiet
<1>3. ComesTo(inbox[c], r, Extend(r, Peer(c)), TableRoutes(Owner[c]), Heard(c))
  BY DEF ConvInv, AllInStep, InStepBox
<1>4. 1..Len(inbox[c]) = {}
  BY <1>2
<1>5. QED
  BY <1>2, <1>3, <1>4 DEF ComesTo, LastSays, Heard

\* So no route is left over from a connection that is gone ...
LEMMA QuietSound ==
  ASSUME ConvInv, Quiet, NEW n \in Node, NEW x \in TableRoutes(n)
  PROVE  AllLinked(n, x.path)
<1> DEFINE Stale(k) == \E m \in Node : \E y \in TableRoutes(m) :
                         Len(y.path) = k /\ ~AllLinked(m, y.path)
           T == {k \in Nat : Stale(k)}
<1>1. IInv
  BY DEF ConvInv
<1>2. SUFFICES ASSUME T # {} PROVE FALSE
  <2>1. Simple(n, x.path)
    BY <1>1, TableRoutePaths
  <2>2. Len(x.path) \in Nat
    BY <2>1 DEF Simple
  <2>3. QED
    BY <1>2, <2>2
<1>3. PICK k \in T : \A j \in T : k <= j
  <2> HIDE DEF T
  <2>1. T \subseteq Nat
    BY DEF T
  <2>2. QED
    BY <1>2, <2>1, LeastNatural
<1>40. PICK m \in Node : \E y \in TableRoutes(m) : Len(y.path) = k /\ ~AllLinked(m, y.path)
  BY <1>3
<1>4. PICK y \in TableRoutes(m) : Len(y.path) = k /\ ~AllLinked(m, y.path)
  BY <1>40
<1>5. Simple(m, y.path) /\ y = Along(y.path)
  BY <1>1, TableRoutePaths
<1>6. PICK c \in Conn : Owner[c] = m /\ phase[c] = "open" /\ y.path[1] = Peer(c)
  BY <1>1, TableRoutePaths
<1>7. c \in up /\ Linked(m, y.path[1])
  BY <1>6 DEF Quiet, Linked
<1>8. Len(y.path) # 1
  BY <1>4, <1>7 DEF AllLinked
<1> DEFINE p == y.path
           q == Tail(p)
           s == p[1]
<1> HIDE DEF p, q, s
<1>9. /\ Simple(s, q) /\ s \in Node /\ s # m /\ Len(q) = Len(p) - 1 /\ Len(p) \in Nat
      /\ \A i \in 1..Len(q) : q[i] = p[i + 1] /\ i + 1 \in 1..Len(p)
      /\ Acts(m, Along(q)) /\ Along(q) \in Route /\ Extend(Along(q), s) = Along(p)
  BY <1>5, <1>8, RestOfPath DEF p, q, s
<1>10. Along(q) \in KnownRoutes(s)
  <2>1. Owner[c] # Peer(c) /\ Owner[c] = m /\ Peer(c) = s
    BY <1>6, <1>9 DEF p, s
  <2>2. Extend(Along(q), s) \in TableRoutes(m)
    BY <1>5, <1>9 DEF p
  <2>3. QED
    BY <1>7, <1>9, <2>1, <2>2, QuietKnows
<1>11. Along(q) \in TableRoutes(s)
  BY <1>9, <1>10 DEF KnownRoutes, SelfRoute, Along, Simple
<1>12. AllLinked(s, q)
  <2>1. Len(q) \in Nat /\ Len(q) < k /\ Along(q).path = q
    BY <1>4, <1>9 DEF p, Along, Simple
  <2>2. Len(q) \notin T
    BY <1>3, <2>1
  <2>3. QED
    BY <1>9, <1>11, <2>1, <2>2
<1>13. AllLinked(m, p)
  <2>1. SUFFICES ASSUME NEW i \in 1..Len(p)
                 PROVE  Linked(IF i = 1 THEN m ELSE p[i - 1], p[i])
    BY DEF AllLinked
  <2>2. CASE i = 1
    BY <1>7, <2>2 DEF p
  <2>3. CASE i # 1
    <3>1. i - 1 \in 1..Len(q) /\ q[i - 1] = p[i]
      BY <1>9, <2>3
    <3>2. (IF i - 1 = 1 THEN s ELSE q[(i - 1) - 1]) = p[i - 1]
      BY <1>9, <2>3, <3>1 DEF s
    <3>3. QED
      BY <1>12, <2>3, <3>1, <3>2 DEF AllLinked
  <2>4. QED
    BY <2>2, <2>3
<1>14. QED
  BY <1>4, <1>13 DEF p

\* ... and none is missing.
LEMMA QuietComplete ==
  ASSUME ConvInv, Quiet, NEW n \in Node, NEW p, Simple(n, p), AllLinked(n, p)
  PROVE  Along(p) \in TableRoutes(n)
<1> DEFINE Missing(k) == \E m \in Node : \E y \in Seq(Node) :
                           Len(y) = k /\ Simple(m, y) /\ AllLinked(m, y) /\ Along(y) \notin TableRoutes(m)
           T == {k \in Nat : Missing(k)}
<1>1. SUFFICES ASSUME T # {} PROVE FALSE
  <2>1. p \in Seq(Node) /\ Len(p) \in Nat
    BY DEF Simple
  <2>2. QED
    BY <1>1, <2>1
<1>2. PICK k \in T : \A j \in T : k <= j
  <2> HIDE DEF T
  <2>1. T \subseteq Nat
    BY DEF T
  <2>2. QED
    BY <1>1, <2>1, LeastNatural
<1>3. PICK m \in Node, y \in Seq(Node) :
        Len(y) = k /\ Simple(m, y) /\ AllLinked(m, y) /\ Along(y) \notin TableRoutes(m)
  BY <1>2
<1>4. /\ Len(y) \in Nat /\ 1 \in 1..Len(y) /\ y[1] \in Node /\ y[1] # m
  BY <1>3 DEF Simple
<1>5. PICK c \in up : Owner[c] = m /\ Peer(c) = y[1]
  <2>1. Linked(m, y[1])
    BY <1>3, <1>4 DEF AllLinked
  <2>2. QED
    BY <2>1 DEF Linked
<1>6. CASE Len(y) = 1
  <2>1. SelfRoute(y[1]) \in Route /\ Acts(m, SelfRoute(y[1])) /\ SelfRoute(y[1]) \in KnownRoutes(y[1])
    <3>1. <<>> \in Seq(Node) /\ 1..Len(<<>>) = {}
      OBVIOUS
    <3>2. QED
      BY <1>4, <3>1 DEF SelfRoute, Route, Acts, Visits, KnownRoutes
  <2>2. Extend(SelfRoute(y[1]), y[1]) \in TableRoutes(m)
    BY <1>4, <1>5, <2>1, QuietKnows
  <2>3. Extend(SelfRoute(y[1]), y[1]) = Along(y)
    <3>1. y = <<y[1]>> \o <<>>
      BY <1>3, <1>6
    <3>2. QED
      BY <1>6, <3>1 DEF Extend, SelfRoute, Along
  <2>4. QED
    BY <1>3, <2>2, <2>3
<1>7. CASE Len(y) # 1
  <2> DEFINE q == Tail(y)
             s == y[1]
  <2> HIDE DEF q, s
  <2>1. /\ Simple(s, q) /\ s \in Node /\ s # m /\ Len(q) = Len(y) - 1 /\ Len(y) \in Nat
        /\ \A i \in 1..Len(q) : q[i] = y[i + 1] /\ i + 1 \in 1..Len(y)
        /\ Acts(m, Along(q)) /\ Along(q) \in Route /\ Extend(Along(q), s) = Along(y)
    BY <1>3, <1>7, RestOfPath DEF q, s
  <2>2. AllLinked(s, q)
    <3>1. SUFFICES ASSUME NEW i \in 1..Len(q)
                   PROVE  Linked(IF i = 1 THEN s ELSE q[i - 1], q[i])
      BY DEF AllLinked
    <3>2. i + 1 \in 1..Len(y) /\ q[i] = y[i + 1] /\ i + 1 # 1
      BY <2>1
    <3>3. (IF i = 1 THEN s ELSE q[i - 1]) = y[(i + 1) - 1]
      BY <2>1, <3>2 DEF s
    <3>4. QED
      BY <1>3, <3>2, <3>3 DEF AllLinked
  <2>3. Along(q) \in TableRoutes(s)
    <3>1. Len(q) \in Nat /\ Len(q) < k /\ q \in Seq(Node)
      BY <1>3, <2>1 DEF Simple
    <3>2. Len(q) \notin T
      BY <1>2, <3>1
    <3>3. QED
      BY <2>1, <2>2, <3>1, <3>2
  <2>4. Along(q) \in KnownRoutes(s)
    BY <2>3 DEF KnownRoutes
  <2>5. Along(y) \in TableRoutes(m)
    <3>1. Owner[c] # Peer(c) /\ Owner[c] = m /\ Peer(c) = s
      BY <1>5, <2>1 DEF s
    <3>2. QED
      BY <2>1, <2>4, <3>1, QuietKnows
  <2>6. QED
    BY <1>3, <2>5
<1>8. QED
  BY <1>6, <1>7

\* No simple path is longer than there are routers.
LEMMA PathsFit ==
  ASSUME IsFiniteSet(Node), NEW n \in Node, NEW p
  PROVE  Simple(n, p) <=> p \in SimplePaths /\ ~Visits(p, n)
<1>1. ASSUME Simple(n, p)
      PROVE  p \in SimplePaths /\ ~Visits(p, n)
  <2>1. /\ p \in Seq(Node) /\ Len(p) \in Nat /\ Len(p) # 0 /\ p \in [1..Len(p) -> Node]
    BY <1>1 DEF Simple
  <2>2. p \in Injection(1..Len(p), Node)
    BY <1>1, <2>1 DEF Injection, IsInjective, Simple
  <2>3. IsFiniteSet(1..Len(p)) /\ Cardinality(1..Len(p)) = Len(p)
    BY <2>1, FS_Interval
  <2>4. Len(p) <= Cardinality(Node) /\ Cardinality(Node) \in Nat
    BY <2>2, <2>3, FS_Injection, FS_CardinalityType
  <2>5. Len(p) \in 1..Cardinality(Node)
    BY <2>1, <2>4
  <2>6. p \in {q \in [1..Len(p) -> Node] : \A i, j \in 1..Len(p) : i # j => q[i] # q[j]}
    BY <1>1, <2>1 DEF Simple
  <2>7. QED
    BY <1>1, <2>5, <2>6 DEF SimplePaths, Visits, Simple
<1>2. ASSUME p \in SimplePaths, ~Visits(p, n)
      PROVE  Simple(n, p)
  <2>1. PICK k \in 1..Cardinality(Node) :
          p \in {q \in [1..k -> Node] : \A i, j \in 1..k : i # j => q[i] # q[j]}
    BY <1>2 DEF SimplePaths
  <2>2. k \in Nat /\ k # 0
    BY <2>1, FS_CardinalityType
  <2>3. p \in Seq(Node) /\ Len(p) = k
    BY <2>1, <2>2
  <2>4. QED
    BY <1>2, <2>1, <2>2, <2>3 DEF Simple, Visits
<1>3. QED
  BY <1>1, <1>2

LEMMA InStepConverged == IsFiniteSet(Node) /\ ConvInv => Converged
<1> SUFFICES ASSUME IsFiniteSet(Node), ConvInv, Quiet, NEW n \in Node
             PROVE  TableRoutes(n) = ActualRoutes(n)
  BY DEF Converged
<1>1. ASSUME NEW p, Simple(n, p)
      PROVE  AllLinked(n, p) <=> Linked(n, p[1]) /\ \A i \in 1..(Len(p) - 1) : Linked(p[i], p[i + 1])
  <2>1. Len(p) \in Nat /\ 1 \in 1..Len(p)
    BY <1>1 DEF Simple
  <2>2. ASSUME AllLinked(n, p)
        PROVE  Linked(n, p[1]) /\ \A i \in 1..(Len(p) - 1) : Linked(p[i], p[i + 1])
    <3>1. Linked(n, p[1])
      BY <2>1, <2>2 DEF AllLinked
    <3>2. ASSUME NEW i \in 1..(Len(p) - 1)
          PROVE  Linked(p[i], p[i + 1])
      <4>1. i + 1 \in 1..Len(p) /\ i + 1 # 1 /\ (i + 1) - 1 = i
        BY <2>1
      <4>2. QED
        BY <2>2, <4>1 DEF AllLinked
    <3>3. QED
      BY <3>1, <3>2
  <2>3. ASSUME Linked(n, p[1]), \A i \in 1..(Len(p) - 1) : Linked(p[i], p[i + 1])
        PROVE  AllLinked(n, p)
    <3>1. SUFFICES ASSUME NEW i \in 1..Len(p), i # 1
                   PROVE  Linked(p[i - 1], p[i])
      BY <2>3 DEF AllLinked
    <3>2. i - 1 \in 1..(Len(p) - 1) /\ (i - 1) + 1 = i
      BY <2>1, <3>1
    <3>3. QED
      BY <2>3, <3>2
  <2>4. QED
    BY <2>2, <2>3
<1>2. ASSUME NEW x \in TableRoutes(n)
      PROVE  x \in ActualRoutes(n)
  <2>1. Simple(n, x.path) /\ x = Along(x.path) /\ AllLinked(n, x.path)
    BY TableRoutePaths, QuietSound DEF ConvInv
  <2>2. x.path \in SimplePaths /\ ~Visits(x.path, n)
    BY <2>1, PathsFit
  <2>3. Linked(n, x.path[1]) /\ \A i \in 1..(Len(x.path) - 1) : Linked(x.path[i], x.path[i + 1])
    BY <1>1, <2>1
  <2>4. QED
    BY <2>1, <2>2, <2>3 DEF ActualRoutes, Along
<1>3. ASSUME NEW x \in ActualRoutes(n)
      PROVE  x \in TableRoutes(n)
  <2>1. PICK p \in SimplePaths :
          /\ x = Along(p) /\ ~Visits(p, n) /\ Linked(n, p[1])
          /\ \A i \in 1..(Len(p) - 1) : Linked(p[i], p[i + 1])
    BY <1>3 DEF ActualRoutes, Along
  <2>2. Simple(n, p)
    BY <2>1, PathsFit
  <2>3. QED
    BY <1>1, <2>1, <2>2, QuietComplete
<1>4. QED
  BY <1>2, <1>3

\* In every finite network with one link at most between two routers, and no more ways
\* to a destination than the route limit, routers that keep running and are quiet (every
\* link up and open, nothing under way) hold a route for each path that there is, and
\* none besides: nothing that integrate, remove and the floods do in between, in whatever
\* order messages are read, and connections break and come back, is ever missed or left over.
THEOREM RoutersConverge ==
  ASSUME IsFiniteSet(Node), Uncrowded
  PROVE  Spec => []Converged
<1>1. Init => ConvInv
  BY InitSound, InStepInit DEF ConvInv
<1>2. ConvInv /\ [Next]_vars => ConvInv'
  BY InStepStep
<1>3. ConvInv => Converged
  BY InStepConverged
<1>4. QED
  BY <1>1, <1>2, <1>3, PTL DEF Spec

-----------------------------------------------------------------------------
(* Forwarding.  Where one way leads from router to router, a message that  *)
(* is under way has a way ahead of it that avoids all it has been at       *)
(* (StraightOn), and a table that knows a route at all knows that way.     *)

\* A network in which at most one simple path leads from a router to another.
OneWay == \A n, d \in Node : \A p, q \in Ways(n, d) : p = q

\* q is what a message at n has ahead of it to d.
Ahead(n, d, q) == IF q = <<>> THEN n = d ELSE q \in Ways(n, d)

\* Data message m, once it is at n, has been at no router that is ahead of it.
GoesOn(n, m) ==
  /\ \E q \in Seq(Node) :
       /\ Ahead(n, m.dest, q)
       /\ \A i \in 1..Len(m.trail) :
            m.trail[i] # n /\ \A j \in 1..Len(q) : m.trail[i] # q[j]
  /\ \A i, j \in 1..Len(m.trail) : i # j => m.trail[i] # m.trail[j]

GoOn(box) ==
  \A c \in Conn : \A k \in 1..Len(box[c]) :
    box[c][k].kind = "data" => GoesOn(Owner[c], box[c][k])

StraightOn == GoOn(inbox)

\* A message that is sent, if it is data, must go on at the ends that it reaches.
LEMMA SentOn ==
  ASSUME NEW box \in [Conn -> Seq(Message)], GoOn(box), NEW targets, NEW m \in Message,
         \A d \in Conn : Twin[d] \in targets /\ m.kind = "data" => GoesOn(Owner[d], m)
  PROVE  GoOn(Sent(box, targets, m))
<1>1. SUFFICES ASSUME NEW c \in Conn, NEW k \in 1..Len(Sent(box, targets, m)[c]),
                      Sent(box, targets, m)[c][k].kind = "data"
               PROVE  GoesOn(Owner[c], Sent(box, targets, m)[c][k])
  BY DEF GoOn
<1>2. CASE Sent(box, targets, m)[c] = box[c]
  BY <1>1, <1>2 DEF GoOn
<1>3. CASE Sent(box, targets, m)[c] # box[c]
  <2>1. Twin[c] \in targets /\ Sent(box, targets, m)[c] = Append(box[c], m)
    BY <1>3 DEF Sent
  <2>2. box[c] \in Seq(Message)
    OBVIOUS
  <2>3. \/ k \in 1..Len(box[c]) /\ Append(box[c], m)[k] = box[c][k]
        \/ Append(box[c], m)[k] = m
    BY <1>1, <2>1, <2>2
  <2>4. QED
    BY <1>1, <2>1, <2>3 DEF GoOn
<1>4. QED
  BY <1>2, <1>3

\* What is left of the channels after a message is taken goes on.
LEMMA TakenOn ==
  ASSUME inbox \in [Conn -> Seq(Message)], StraightOn, NEW c \in Conn, inbox[c] # <<>>
  PROVE  GoOn(Taken(c))
<1>1. \A k \in 1..Len(Tail(inbox[c])) :
        k + 1 \in 1..Len(inbox[c]) /\ Tail(inbox[c])[k] = inbox[c][k + 1]
  OBVIOUS
<1>2. \A k \in 1..Len(Tail(inbox[c])) : Tail(inbox[c])[k].kind = "data" =>
        GoesOn(Owner[c], Tail(inbox[c])[k])
  BY <1>1 DEF StraightOn, GoOn
<1>3. QED
  BY <1>2 DEF StraightOn, GoOn, Taken

\* An end that is closed loses its channel.
LEMMA DroppedOn ==
  ASSUME NEW box \in [Conn -> Seq(Message)], GoOn(box),
         NEW new \in [Conn -> Seq(Message)],
         \A d \in Conn : new[d] = box[d] \/ new[d] = <<>>
  PROVE  GoOn(new)
<1>1. Len(<<>>) = 0
  OBVIOUS
<1>2. QED
  BY <1>1 DEF GoOn

\* An entry of a table leads its way, first over its own connection.
LEMMA EntryWay ==
  ASSUME IInv, NEW n \in Node, NEW e \in table[n]
  PROVE  /\ e.path \in Ways(n, e.dest) /\ e.dest \in Node /\ e.conn \in Conn
         /\ Owner[e.conn] = n /\ e.path[1] = Peer(e.conn) /\ e.cost = Len(e.path)
<1>1. e \in Entry /\ e.path # <<>> /\ Owner[e.conn] = n /\ e.path[1] = Peer(e.conn)
      /\ GoodRoute(n, e)
  BY DEF IInv, TypeOK, TablesSound
<1>2. e.path \in Seq(Node) /\ e.dest \in Node /\ e.conn \in Conn
  BY <1>1 DEF Entry
<1>3. QED
  BY <1>1, <1>2 DEF Ways, GoodRoute, SoundRoute

\* Where there is one way, the entry that forward picks leads that way.
LEMMA BestWay ==
  ASSUME IInv, OneWay, NEW n \in Node, NEW dest \in Dests(table[n])
  PROVE  BestRoute(table[n], dest) \in table[n] /\ BestRoute(table[n], dest).dest = dest
<1>1. PICK e \in table[n] : e.dest = dest
  BY DEF Dests
<1>2. ASSUME NEW f \in table[n]
      PROVE  ~Better(f, e)
  <2>1. SUFFICES ASSUME f.dest = e.dest PROVE ~Better(f, e)
    BY DEF Better
  <2>2. /\ e.path \in Ways(n, e.dest) /\ f.path \in Ways(n, e.dest) /\ e.dest \in Node
        /\ e.cost = Len(e.path) /\ f.cost = Len(f.path)
    BY <2>1, EntryWay
  <2>3. f.path = e.path
    BY <2>2 DEF OneWay
  <2>4. f.cost = e.cost /\ e.path \in Seq(Node) /\ Len(e.path) \in Nat
    BY <2>2, <2>3 DEF Ways
  <2>5. e.path \in Seq(Nat)
    BY <2>4, NodeAssumption
  <2>6. ~PathBefore(f.path, e.path)
    BY <2>3, <2>5, PathOrder
  <2>7. f.cost \in Nat /\ e.cost \in Nat /\ ~(f.cost < e.cost)
    BY <2>2, <2>4
  <2>8. QED
    BY <2>6, <2>7 DEF Better
<1>3. QED
  BY <1>1, <1>2 DEF BestRoute

\* A way without its first router is the way from there.
LEMMA RestOfWay ==
  ASSUME NEW n \in Node, NEW d \in Node, NEW q \in Ways(n, d)
  PROVE  /\ Tail(q) \in Seq(Node) /\ q[1] \in Node /\ Ahead(q[1], d, Tail(q))
         /\ \A j \in 1..Len(Tail(q)) :
              Tail(q)[j] # n /\ j + 1 \in 1..Len(q) /\ Tail(q)[j] = q[j + 1]
         /\ q[1] # n /\ 1 \in 1..Len(q)
<1> DEFINE t == Tail(q)
<1>1. /\ q \in Seq(Node) /\ q # <<>> /\ q[Len(q)] = d /\ OnLinks(n, q)
      /\ \A i \in 1..Len(q) : q[i] # n
      /\ \A i, j \in 1..Len(q) : i # j => q[i] # q[j]
  BY DEF Ways
<1>2. /\ Len(q) \in Nat /\ 1 \in 1..Len(q) /\ q[1] \in Node
      /\ t \in Seq(Node) /\ Len(t) = Len(q) - 1
      /\ \A j \in 1..Len(t) : t[j] = q[j + 1] /\ j + 1 \in 1..Len(q) /\ j + 1 # 1
  BY <1>1
<1> HIDE DEF t
<1>3. CASE t = <<>>
  <2>1. Len(q) = 1
    BY <1>2, <1>3
  <2>2. Ahead(q[1], d, t)
    BY <1>1, <1>3, <2>1 DEF Ahead
  <2>3. QED
    BY <1>1, <1>2, <2>2 DEF t
<1>4. CASE t # <<>>
  <2>1. Len(t) # 0 /\ Len(t) \in 1..Len(t) /\ Len(t) + 1 = Len(q) /\ t[Len(t)] = d
    BY <1>1, <1>2, <1>4
  <2>2. \A i \in 1..Len(t) : t[i] # q[1]
    BY <1>1, <1>2
  <2>3. \A i, j \in 1..Len(t) : i # j => t[i] # t[j]
    <3>1. SUFFICES ASSUME NEW i \in 1..Len(t), NEW j \in 1..Len(t), i # j
                   PROVE  t[i] # t[j]
      OBVIOUS
    <3>2. i + 1 # j + 1
      BY <3>1
    <3>3. QED
      BY <1>1, <1>2, <3>2
  <2>4. OnLinks(q[1], t)
    <3>1. SUFFICES ASSUME NEW i \in 1..Len(t)
                   PROVE  Joined(IF i = 1 THEN q[1] ELSE t[i - 1], t[i])
      BY DEF OnLinks
    <3>2. Joined(q[i], q[i + 1])
      <4>1. i + 1 \in 1..Len(q) /\ i + 1 # 1 /\ (i + 1) - 1 = i
        BY <1>2
      <4>2. QED
        BY <1>1, <4>1 DEF OnLinks
    <3>3. i # 1 => t[i - 1] = q[i]
      <4>1. i # 1 => i - 1 \in 1..Len(t) /\ (i - 1) + 1 = i
        BY <1>2
      <4>2. QED
        BY <1>2, <4>1
    <3>4. QED
      BY <1>2, <3>2, <3>3
  <2>5. Ahead(q[1], d, t)
    BY <1>2, <1>4, <2>1, <2>2, <2>3, <2>4 DEF Ahead, Ways
  <2>6. QED
    BY <1>1, <1>2, <2>5 DEF t
<1>5. QED
  BY <1>3, <1>4

\* A message at n that has not been at a router ahead of it is forwarded to such a one.
LEMMA ForwardedOn ==
  ASSUME IInv, OneWay, NEW n \in Node, NEW box \in [Conn -> Seq(Message)], GoOn(box),
         NEW dest \in Node, NEW trail \in Seq(Node), n # dest,
         GoesOn(n, Data(dest, trail))
  PROVE  GoOn(Forwarded(n, box, dest, trail))
<1> DEFINE m == Data(dest, Append(trail, n))
           e == BestRoute(table[n], dest)
<1>1. SUFFICES ASSUME dest \in Dests(table[n])
               PROVE  GoOn(Sent(box, {e.conn}, m))
  BY DEF Forwarded
<1>2. e \in table[n] /\ e.dest = dest
  BY <1>1, BestWay
<1>3. e.path \in Ways(n, dest) /\ e.conn \in Conn /\ e.path[1] = Peer(e.conn)
  BY <1>2, EntryWay
<1> DEFINE q == e.path
           t == Tail(q)
<1>4. PICK p \in Seq(Node) :
        /\ Ahead(n, dest, p)
        /\ \A i \in 1..Len(trail) :
             trail[i] # n /\ \A j \in 1..Len(p) : trail[i] # p[j]
  BY DEF GoesOn, Data
<1>5. p = q
  BY <1>3, <1>4 DEF Ahead, OneWay
<1> HIDE DEF e, q, t
<1>6. /\ t \in Seq(Node) /\ q[1] \in Node /\ Ahead(q[1], dest, t) /\ q[1] # n
      /\ 1 \in 1..Len(q)
      /\ \A j \in 1..Len(t) : t[j] # n /\ j + 1 \in 1..Len(q) /\ t[j] = q[j + 1]
  BY <1>3, RestOfWay DEF q, t
<1>7. /\ Append(trail, n) \in Seq(Node) /\ Len(Append(trail, n)) = Len(trail) + 1
      /\ \A i \in 1..(Len(trail) + 1) :
           Append(trail, n)[i] = IF i = Len(trail) + 1 THEN n ELSE trail[i]
      /\ Len(trail) \in Nat
  OBVIOUS
<1>8. \A i, j \in 1..Len(trail) : i # j => trail[i] # trail[j]
  BY DEF GoesOn, Data
<1>9. GoesOn(q[1], m)
  <2>1. m.dest = dest /\ m.trail = Append(trail, n)
    BY DEF Data
  <2>2. ASSUME NEW i \in 1..(Len(trail) + 1)
        PROVE  /\ Append(trail, n)[i] # q[1]
               /\ \A j \in 1..Len(t) : Append(trail, n)[i] # t[j]
    <3>1. CASE i = Len(trail) + 1
      BY <1>6, <1>7, <3>1
    <3>2. CASE i # Len(trail) + 1
      <4>1. i \in 1..Len(trail) /\ Append(trail, n)[i] = trail[i]
        BY <1>7, <3>2
      <4>2. QED
        BY <1>4, <1>5, <1>6, <4>1
    <3>3. QED
      BY <3>1, <3>2
  <2>3. ASSUME NEW i \in 1..(Len(trail) + 1), NEW j \in 1..(Len(trail) + 1), i # j
        PROVE  Append(trail, n)[i] # Append(trail, n)[j]
    <3>1. i = Len(trail) + 1 \/ i \in 1..Len(trail)
      BY <1>7
    <3>2. j = Len(trail) + 1 \/ j \in 1..Len(trail)
      BY <1>7
    <3>3. \A k \in 1..Len(trail) : Append(trail, n)[k] = trail[k] /\ trail[k] # n
      BY <1>4, <1>7
    <3>4. QED
      BY <1>7, <1>8, <2>3, <3>1, <3>2, <3>3
  <2>4. 1..Len(m.trail) = 1..(Len(trail) + 1)
    BY <1>7, <2>1
  <2> HIDE DEF m
  <2>5. \A i \in 1..Len(m.trail) : m.trail[i] # q[1] /\ \A j \in 1..Len(t) : m.trail[i] # t[j]
    BY <2>1, <2>2, <2>4
  <2>6. \A i, j \in 1..Len(m.trail) : i # j => m.trail[i] # m.trail[j]
    BY <2>1, <2>3, <2>4
  <2>7. Ahead(q[1], m.dest, t) /\ t \in Seq(Node)
    BY <1>6, <2>1
  <2>8. QED
    BY <2>5, <2>6, <2>7 DEF GoesOn
<1>10. \A d \in Conn : Twin[d] \in {e.conn} => Owner[d] = q[1]
  BY <1>3, ConnAssumption DEF Peer, q
<1>11. m \in Message
  BY <1>7 DEF Data, Message
<1>12. QED
  BY <1>9, <1>10, <1>11, SentOn

\* What is made of a message's routes is routes.
LEMMA UsableTyped ==
  ASSUME NEW n, NEW sender \in Node, NEW routes \in SUBSET Route
  PROVE  UsableRoutes(n, sender, routes) \in SUBSET Route
<1>1. ASSUME NEW r \in Route
      PROVE  Extend(r, sender) \in Route
  <2>1. r.dest \in Node /\ r.cost + 1 \in Nat /\ <<sender>> \o r.path \in Seq(Node)
    BY DEF Route
  <2>2. QED
    BY <2>1 DEF Extend, Route
<1>2. QED
  BY <1>1 DEF UsableRoutes

\* A message about routes, or a hello, leaves data messages where they are.
LEMMA OtherSentOn ==
  ASSUME NEW box \in [Conn -> Seq(Message)], GoOn(box), NEW targets, NEW m \in Message,
         m.kind # "data"
  PROVE  GoOn(Sent(box, targets, m)) /\ Sent(box, targets, m) \in [Conn -> Seq(Message)]
<1>1. GoOn(Sent(box, targets, m))
  BY SentOn
<1>2. \A d \in Conn : Append(box[d], m) \in Seq(Message)
  OBVIOUS
<1>3. QED
  BY <1>1, <1>2 DEF Sent

\* remove: the neighbours are told, and what the end has not read is dropped.
LEMMA RemoveOn ==
  ASSUME IInv, NEW c \in Conn, NEW box \in [Conn -> Seq(Message)], GoOn(box),
         Remove(c, box)
  PROVE  StraightOn'
<1> DEFINE dead == {e \in table[Owner[c]] : e.conn = c}
           m == Revocation(Owner[c], {RouteOf(e) : e \in dead})
           new == Sent(box, Told(Owner[c], c, dead # {}), m)
<1>1. inbox' = [new EXCEPT ![c] = <<>>]
  BY DEF Remove
<1>2. m \in Message /\ m.kind # "data"
  <2>1. dead \in SUBSET Entry /\ Owner[c] \in Node
    BY ConnAssumption DEF IInv, TypeOK
  <2>2. {RouteOf(e) : e \in dead} \in SUBSET Route
    BY <2>1 DEF RouteOf, Entry, Route
  <2>3. QED
    BY <2>1, <2>2 DEF Revocation, Message
<1>3. GoOn(new) /\ new \in [Conn -> Seq(Message)]
  BY <1>2, OtherSentOn
<1> HIDE DEF new
<1>4. inbox' \in [Conn -> Seq(Message)] /\ \A d \in Conn : inbox'[d] = new[d] \/ inbox'[d] = <<>>
  BY <1>1, <1>3
<1>5. GoOn(inbox')
  BY <1>3, <1>4, DroppedOn
<1>6. QED
  BY <1>5 DEF StraightOn, GoOn, GoesOn, Ahead, Ways, OnLinks, Joined, Peer

\* Every step sends data messages only on.
LEMMA NextOn ==
  ASSUME OneWay, IInv, StraightOn, [Next]_vars
  PROVE  StraightOn'
<1> USE DEF IInv, TypeOK
<1>1. inbox \in [Conn -> Seq(Message)] /\ GoOn(inbox)
  BY DEF StraightOn
<1>2. ASSUME GoOn(inbox')
      PROVE  StraightOn'
  BY <1>2 DEF StraightOn, GoOn, GoesOn, Ahead, Ways, OnLinks, Joined, Peer
<1>3. CASE UNCHANGED inbox
  BY <1>1, <1>2, <1>3
<1>4. ASSUME NEW c \in Conn, Add(c) PROVE StraightOn'
  <2>1. Owner[c] \in Node
    BY ConnAssumption
  <2>2. KnownRoutes(Owner[c]) \in SUBSET Route
    <3>1. SelfRoute(Owner[c]) \in Route
      BY <2>1 DEF SelfRoute, Route
    <3>2. TableRoutes(Owner[c]) \in SUBSET Route
      BY <2>1, TableRoutesSound DEF TableRoutes
    <3>3. QED
      BY <3>1, <3>2 DEF KnownRoutes
  <2>3. Advert(Owner[c], KnownRoutes(Owner[c])) \in Message
    BY <2>1, <2>2 DEF Advert, Message
  <2>4. QED
    BY <1>1, <1>2, <1>4, <2>3, OtherSentOn DEF Add, Advert
<1>5. ASSUME NEW c \in Conn, Disconnect(c) PROVE StraightOn'
  BY <1>1, <1>5, RemoveOn DEF Disconnect
<1>6. ASSUME NEW n \in Node, Shutdown(n) PROVE StraightOn'
  <2>1. /\ inbox' \in [Conn -> Seq(Message)]
        /\ \A d \in Conn : inbox'[d] = inbox[d] \/ inbox'[d] = <<>>
    BY <1>1, <1>6 DEF Shutdown
  <2>2. QED
    BY <1>1, <1>2, <2>1, DroppedOn
<1>7. ASSUME NEW n \in Node, SayHello(n) PROVE StraightOn'
  <2>1. Hello(n) \in Message /\ Hello(n).kind # "data"
    BY DEF Hello, Message
  <2>2. QED
    BY <1>1, <1>2, <1>7, <2>1, OtherSentOn DEF SayHello
<1>8. ASSUME NEW n \in Node, NEW dest \in Node, Send(n, dest) PROVE StraightOn'
  <2>1. PICK e \in table[n] : e.dest = dest
    BY <1>8 DEF Send, Dests
  <2>2. e.path \in Ways(n, dest)
    BY <2>1, EntryWay
  <2>3. e.path \in Seq(Node) /\ n # dest /\ e.path # <<>>
    BY <2>2 DEF Ways
  <2>4. GoesOn(n, Data(dest, <<>>))
    <3>1. Len(<<>>) = 0 /\ 1..0 = {}
      OBVIOUS
    <3>2. Ahead(n, dest, e.path)
      BY <2>2, <2>3 DEF Ahead
    <3>3. QED
      BY <2>3, <3>1, <3>2 DEF GoesOn, Data
  <2>5. <<>> \in Seq(Node)
    OBVIOUS
  <2>6. QED
    BY <1>1, <1>2, <1>8, <2>3, <2>4, <2>5, ForwardedOn DEF Send
<1>9. ASSUME NEW c \in Conn, Receive(c) PROVE StraightOn'
  <2> DEFINE m == Head(inbox[c])
  <2>1. /\ inbox[c] # <<>> /\ MessagesSound
        /\ Receive(c) => m.kind \in {"advert", "revocation", "hello", "data"}
    BY <1>9 DEF Receive, ReceiveAdvert, ReceiveRevocation, ReceiveHello, ReceiveData, IsNext
  <2>2. m \in Message /\ m = inbox[c][1] /\ 1 \in 1..Len(inbox[c]) /\ Owner[c] \in Node
    BY <1>1, <2>1, HeadSound, ConnAssumption
  <2>3. GoOn(Taken(c)) /\ Taken(c) \in [Conn -> Seq(Message)]
    BY <1>1, <2>1, TakenOn, TakenSound DEF SoundBox
  <2>4. CASE ReceiveAdvert(c)
    <3> DEFINE n == Owner[c]
               offered == UsableRoutes(n, m.sender, m.routes) \ TableRoutes(n)
               kept == KeepBest(table[n] \union {EntryOf(r, c) : r \in offered})
               fresh == {r \in offered : EntryOf(r, c) \in kept}
    <3>1. m.kind = "advert"
      BY <2>4 DEF ReceiveAdvert, IsNext
    <3>2. m.sender \in Node /\ m.routes \in SUBSET Route
      BY <2>2, <3>1 DEF Message
    <3>3. offered \in SUBSET Route
      BY <2>2, <3>1, <3>2, UsableTyped
    <3>4. Advert(n, fresh) \in Message /\ Advert(n, fresh).kind # "data"
      BY <2>2, <3>3 DEF Advert, Message
    <3>5. inbox' = Taken(c) \/ inbox' = Sent(Taken(c), Told(n, c, fresh # {}), Advert(n, fresh))
      BY <2>4 DEF ReceiveAdvert
    <3> HIDE DEF fresh, n
    <3>6. QED
      BY <1>2, <2>3, <3>4, <3>5, OtherSentOn
  <2>5. CASE ReceiveRevocation(c)
    <3> DEFINE n == Owner[c]
               gone == UsableRoutes(n, m.sender, m.routes)
               dead == {e \in table[n] : RouteOf(e) \in gone}
    <3>1. m.kind = "revocation"
      BY <2>5 DEF ReceiveRevocation, IsNext
    <3>2. m.sender \in Node /\ m.routes \in SUBSET Route
      BY <2>2, <3>1 DEF Message
    <3>3. gone \in SUBSET Route
      BY <2>2, <3>1, <3>2, UsableTyped
    <3>4. Revocation(n, gone) \in Message /\ Revocation(n, gone).kind # "data"
      BY <2>2, <3>3 DEF Revocation, Message
    <3>5. inbox' = Taken(c) \/ inbox' = Sent(Taken(c), Told(n, c, dead # {}), Revocation(n, gone))
      BY <2>5 DEF ReceiveRevocation
    <3> HIDE DEF gone, dead, n
    <3>6. QED
      BY <1>2, <2>3, <3>4, <3>5, OtherSentOn
  <2>6. CASE ReceiveHello(c)
    <3>1. Remove(c, Taken(c)) \/ inbox' = Taken(c)
      BY <2>6 DEF ReceiveHello
    <3>2. QED
      BY <1>2, <2>3, <3>1, RemoveOn
  <2>7. CASE ReceiveData(c)
    <3>1. m.kind = "data" /\ GoesOn(Owner[c], m)
      BY <1>1, <2>2, <2>7 DEF ReceiveData, IsNext, GoOn
    <3>2. m.dest \in Node /\ m.trail \in Seq(Node) /\ m = Data(m.dest, m.trail)
      BY <2>2, <3>1 DEF Message, Data
    <3>3. CASE m.dest = Owner[c]
      BY <1>2, <2>3, <2>7, <3>3 DEF ReceiveData
    <3>4. CASE m.dest # Owner[c]
      <4>1. inbox' = Forwarded(Owner[c], Taken(c), m.dest, m.trail)
        BY <2>7, <3>4 DEF ReceiveData
      <4>2. GoesOn(Owner[c], Data(m.dest, m.trail))
        BY <3>1, <3>2
      <4>3. QED
        BY <1>2, <2>2, <2>3, <3>2, <3>4, <4>1, <4>2, ForwardedOn
    <3>5. QED
      BY <3>3, <3>4
  <2>8. QED
    BY <1>9, <2>4, <2>5, <2>6, <2>7 DEF Receive
<1>10. (\E c \in Conn : Connect(c) \/ Break(c)) \/ (\E n \in Node : Start(n)) \/ UNCHANGED vars
         => UNCHANGED inbox
  BY DEF Connect, Break, Start, vars
<1>11. QED
  BY <1>3, <1>4, <1>5, <1>6, <1>7, <1>8, <1>9, <1>10 DEF Next

\* In every network with one way at most from router to router, such as a chain or a star
\* of routers, a message never comes back to a router it has been at (forward has no TTL):
\* whatever breaks, comes back or is shut down while it is under way, and however out of
\* date the tables are, each router forwards it on the one way there is, or drops it.
THEOREM NothingLoops ==
  ASSUME OneWay
  PROVE  Spec => []NoForwardingLoop
<1>1. Init => StraightOn
  <2>1. SUFFICES ASSUME Init PROVE GoOn(inbox)
    BY DEF StraightOn
  <2>2. \A c \in Conn : inbox[c] = <<>> /\ Len(<<>>) = 0
    BY <2>1 DEF Init
  <2>3. QED
    BY <2>2 DEF GoOn
<1>2. IInv /\ StraightOn /\ [Next]_vars => StraightOn'
  BY NextOn
<1>3. StraightOn => NoForwardingLoop
  BY DEF StraightOn, GoOn, GoesOn, NoForwardingLoop
<1>4. Spec => []IInv
  BY InvariantHolds
<1>5. QED
  BY <1>1, <1>2, <1>3, <1>4, PTL DEF Spec
=============================================================================
