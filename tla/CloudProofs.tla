---------------------------- MODULE CloudProofs ----------------------------
(***************************************************************************)
(* Proofs about the service's two ways to the cloud, for any categories,   *)
(* jobs, commands and failures: the HTTP jobs (HttpJobs) keep moving and   *)
(* implement the board, and the websocket (Websocket) is not stranded, its *)
(* flag is true, and it stays down once it is shut down.                   *)
(***************************************************************************)
EXTENDS HttpJobs, Websocket, SequenceTheorems, WellFoundedInduction, TLAPS

LEMMA LeastNatural ==
  ASSUME NEW T, T \subseteq Nat, T # {}
  PROVE  \E m \in T : \A n \in T : m <= n
<1>1. PICK m \in T : \A n \in T : ~(<<n, m>> \in OpToRel(<, Nat))
  BY NatLessThanWellFounded, WFMin, Zenon
<1>2. \A n \in T : <<n, m>> \in OpToRel(<, Nat) <=> n < m
  BY DEF OpToRel
<1>3. \A n \in T : ~(n < m)
  BY <1>1, <1>2, Zenon
<1> HIDE <1>1, <1>2
<1>4. \A n \in T : m <= n
  BY <1>3
<1>5. QED
  BY <1>4

-----------------------------------------------------------------------------
(* HttpJobs.  JobsMoving is not inductive: that a request is for the head  *)
(* of the current queue rests on the queue not being empty while an        *)
(* operation is under way; and for the board an answer that was read must  *)
(* be the answer to that request.                                          *)

Queues == [Category -> Seq(Nat \ {0})]

\* What is under way is the oldest job of the current category.
RequestHeld ==
  op # "none" => /\ current \in Category /\ queues[current] # <<>>
                 /\ request = Head(queues[current])

\* Nothing stops by itself.
NoneStopped == op = "none" => NoJob(queues) \/ silent

\* An answer is the answer to the request under way.
ReplyHeld == reply # "none" => op = "read" /\ acted[current] = request

HttpInv ==
  /\ queues \in Queues /\ acted \in [Category -> Nat] /\ jobs \in Nat
  /\ RequestHeld /\ NoneStopped /\ ReplyHeld

\* nextJob finds a queue with a job if there is one.
LEMMA NextQueueFound ==
  ASSUME NEW q \in Queues, ~NoJob(q)
  PROVE  NextQueue(q) \in Category /\ q[NextQueue(q)] # <<>>
<1> DEFINE some == {c \in Category : q[c] # <<>>}
<1>1. some \subseteq Nat /\ some # {}
  BY CategoryAssumption DEF NoJob
<1>2. PICK c \in some : \A d \in some : c <= d
  BY <1>1, LeastNatural
<1>3. c \in Category /\ q[c] # <<>> /\ \A d \in Category : d < c => q[d] = <<>>
  BY <1>1, <1>2, CategoryAssumption
<1>4. QED
  BY <1>3 DEF NextQueue

\* sendNextHttp leaves the request for the head of a queue under way, or nothing.
LEMMA SendNextHolds ==
  ASSUME NEW c, NEW f, queues' \in Queues, SendNextHttp(queues', c, f)
  PROVE  (RequestHeld /\ NoneStopped /\ ReplyHeld)'
<1>1. CASE NoJob(queues')
  BY <1>1 DEF SendNextHttp, RequestHeld, NoneStopped, ReplyHeld, NoJob
<1>2. CASE ~NoJob(queues')
  <2>1. NextQueue(queues') \in Category /\ queues'[NextQueue(queues')] # <<>>
    BY <1>2, NextQueueFound
  <2>2. /\ current' = NextQueue(queues') /\ request' = Head(queues'[NextQueue(queues')])
        /\ op' # "none" /\ reply' = "none"
    BY <1>2 DEF SendNextHttp, Send
  <2>3. QED
    BY <2>1, <2>2 DEF RequestHeld, NoneStopped, ReplyHeld
<1>3. QED
  BY <1>1, <1>2

LEMMA HttpStepInv ==
  ASSUME HttpInv, [HttpNext]_httpVars
  PROVE  HttpInv'
<1> USE DEF HttpInv
<1>1. ASSUME NEW c, NEW f, RequestFailed(c, f), UNCHANGED <<acted, jobs>>
      PROVE  HttpInv'
  BY <1>1, SendNextHolds DEF RequestFailed
<1>2. CASE ConnectDone
  BY <1>2 DEF ConnectDone, RequestHeld, NoneStopped, ReplyHeld
<1>3. CASE ConnectFails
  BY <1>1, <1>3 DEF ConnectFails
<1>4. CASE ProxyUnreachable
  BY <1>4 DEF ProxyUnreachable, RequestHeld, NoneStopped, ReplyHeld
<1>5. CASE WriteDone
  BY <1>5 DEF WriteDone, RequestHeld, NoneStopped, ReplyHeld
<1>6. CASE WriteFails
  BY <1>1, <1>6 DEF WriteFails
<1>7. CASE CloudActs
  <2>1. /\ op = "read" /\ op' = "read" /\ acted' = [acted EXCEPT ![current] = request]
        /\ UNCHANGED <<queues, current, request, silent, jobs>>
    BY <1>7 DEF CloudActs
  <2>2. current \in Category /\ queues[current] \in Seq(Nat \ {0}) /\ queues[current] # <<>>
    BY <2>1 DEF RequestHeld, Queues
  <2>3. request \in Nat
    BY <2>1, <2>2 DEF RequestHeld
  <2>4. acted' \in [Category -> Nat] /\ acted'[current] = request
    BY <2>1, <2>2, <2>3
  <2>5. QED
    BY <2>1, <2>4 DEF RequestHeld, NoneStopped, ReplyHeld
<1>8. CASE ReadDone
  <2>1. /\ op = "read" /\ queues' = [queues EXCEPT ![current] = Tail(@)]
        /\ SendNextHttp(queues', client, faults) /\ UNCHANGED <<acted, jobs>>
    BY <1>8 DEF ReadDone, ResponseReceived, PopJob
  <2>2. current \in Category /\ queues[current] \in Seq(Nat \ {0}) /\ queues[current] # <<>>
    BY <2>1 DEF RequestHeld, Queues
  <2>3. queues' \in Queues
    BY <2>1, <2>2 DEF Queues
  <2>4. QED
    BY <2>1, <2>3, SendNextHolds
<1>9. CASE ReadFails
  BY <1>1, <1>9 DEF ReadFails
<1>10. CASE ReadGarbled
  BY <1>1, <1>10 DEF ReadGarbled
<1>11. CASE SetProxy
  BY <1>11 DEF SetProxy, RequestHeld, NoneStopped, ReplyHeld
<1>12. ASSUME NEW c \in Category, AddHttpJob(c)
       PROVE  HttpInv'
  <2>1. /\ queues' = [queues EXCEPT ![c] = Append(@, jobs + 1)] /\ jobs' = jobs + 1
        /\ UNCHANGED <<acted, silent>>
    BY <1>12 DEF AddHttpJob
  <2>2. queues' \in Queues /\ jobs' \in Nat
    BY <2>1 DEF Queues
  <2>3. CASE NoJob(queues)
    BY <1>12, <2>1, <2>2, <2>3, SendNextHolds DEF AddHttpJob
  <2>4. CASE ~NoJob(queues)
    <3>1. UNCHANGED <<current, request, reply, op>>
      BY <1>12, <2>4 DEF AddHttpJob
    <3>2. \A d \in Category : queues[d] # <<>> =>
            queues'[d] # <<>> /\ Head(queues'[d]) = Head(queues[d])
      BY <2>1 DEF Queues
    <3>3. QED
      BY <2>1, <2>2, <2>4, <3>1, <3>2 DEF RequestHeld, NoneStopped, ReplyHeld
  <2>5. QED
    BY <2>3, <2>4
<1>13. CASE UNCHANGED httpVars
  BY <1>13 DEF httpVars, RequestHeld, NoneStopped, ReplyHeld, NoJob
<1>14. QED
  BY <1>2, <1>3, <1>4, <1>5, <1>6, <1>7, <1>8, <1>9, <1>10, <1>11, <1>12, <1>13
     DEF HttpNext, Handler

\* HttpInv holds always: what is under way is the oldest job of the current category,
\* and an answer that was read is the answer to it.
THEOREM HttpInvariant == HttpSpec => []HttpInv
<1>1. HttpInit => HttpInv
  <2> SUFFICES ASSUME HttpInit
               PROVE  HttpInv
    OBVIOUS
  <2>1. queues \in Queues /\ acted \in [Category -> Nat] /\ jobs \in Nat
    BY DEF HttpInit, Queues
  <2>2. RequestHeld /\ NoneStopped /\ ReplyHeld
    BY DEF HttpInit, RequestHeld, NoneStopped, ReplyHeld, NoJob
  <2>3. QED
    BY <2>1, <2>2 DEF HttpInv
<1>2. QED
  BY <1>1, HttpStepInv, PTL DEF HttpSpec

\* For any categories and any number of jobs and failures no job is stranded: while one
\* waits, the head of the current queue is under way, unless an attempt to connect ended
\* without a callback.
THEOREM HttpJobsMove == HttpSpec => []JobsMoving
<1>1. HttpInv => JobsMoving
  <2> SUFFICES ASSUME HttpInv
               PROVE  JobsMoving
    OBVIOUS
  <2>1. NoJob(queues) => op = "none"
    BY DEF HttpInv, RequestHeld, NoJob
  <2>2. QED
    BY <2>1 DEF HttpInv, RequestHeld, NoneStopped, JobsMoving
<1>2. QED
  BY <1>1, HttpInvariant, PTL

\* Every step of the session is a step of the board or leaves it alone.
LEMMA HttpBoardStep ==
  ASSUME HttpInv, [HttpNext]_httpVars
  PROVE  [Board!BoardNext]_<<jobs, queues, acted>>
<1>1. CASE CloudActs
  <2>1. current \in Category /\ queues[current] # <<>> /\ request = Head(queues[current])
    BY <1>1 DEF HttpInv, CloudActs, RequestHeld
  <2>2. Board!Act(current)
    BY <1>1, <2>1 DEF CloudActs, Board!Act
  <2>3. QED
    BY <2>1, <2>2 DEF Board!BoardNext
<1>2. CASE ReadDone
  <2>1. current \in Category /\ queues[current] # <<>> /\ acted[current] = Head(queues[current])
    BY <1>2 DEF HttpInv, ReadDone, RequestHeld, ReplyHeld
  <2>2. Board!Retire(current)
    BY <1>2, <2>1 DEF ReadDone, ResponseReceived, PopJob, Board!Retire
  <2>3. QED
    BY <2>1, <2>2 DEF Board!BoardNext
<1>3. ASSUME NEW c \in Category, AddHttpJob(c)
      PROVE  Board!BoardNext
  <2>1. Board!Put(c)
    BY <1>3 DEF AddHttpJob, Board!Put
  <2>2. QED
    BY <2>1 DEF Board!BoardNext
<1>4. CASE ConnectDone \/ ConnectFails \/ ProxyUnreachable \/ WriteDone \/ WriteFails
             \/ ReadFails \/ ReadGarbled \/ SetProxy
  BY <1>4 DEF ConnectDone, ConnectFails, ProxyUnreachable, WriteDone, WriteFails, ReadFails,
              ReadGarbled, SetProxy, RequestFailed
<1>5. CASE UNCHANGED httpVars
  BY <1>5 DEF httpVars
<1>6. QED
  BY <1>1, <1>2, <1>3, <1>4, <1>5 DEF HttpNext, Handler

\* The session implements the board for any categories, jobs and failures: jobs of a
\* category reach the cloud in order, and none leaves before the cloud acted on it.
THEOREM HttpImplementsBoard == HttpSpec => ImplementsBoard
<1>1. HttpInit => Board!BoardInit
  BY DEF HttpInit, Board!BoardInit
<1>2. QED
  BY <1>1, HttpBoardStep, HttpInvariant, PTL DEF HttpSpec, ImplementsBoard, Board!BoardSpec

-----------------------------------------------------------------------------
(* Websocket.  A session that is wanted has something that will bring it   *)
(* online; only a frame of a reconnect counts as that, the frame of a      *)
(* plain shutdown does not.  For the flag it matters that, without an      *)
(* overlap, an attempt has no timer and no aborted handshake beside it and *)
(* neither has a connected session.                                        *)

Among(s, excuses) == s.excuse \intersect excuses # {}

Reads(s) == s.doing = "read" => s.connected /\ s.stream = "open"

\* Something is on its way, or the read that notices the end, or an excuse.
Live(s) ==
  \/ s.doing = "read" \/ Pending(s) \/ Among(s, {"silent", "deaf", "abandoned"})
  \/ \E i \in 1..Len(s.frames) : s.frames[i] = "reconnect"

\* Nothing will try later.
Quiet(s) == ~s.timer /\ s.due = 0 /\ s.stale = 0

\* Without an overlap what is under way is alone.
Alone(s) ==
  "overlap" \notin s.excuse =>
    /\ s.doing \in {"tcp", "handshake"} => Quiet(s)
    /\ s.connected => Quiet(s) /\ s.doing \in {"read", "none"} /\ s.stream # "none"
    /\ "dangling" \notin s.excuse

Flagged(s) ==
  "overlap" \notin s.excuse /\ s.connected /\ s.frames = <<>>
    => (s.stream = "open" /\ s.doing = "read") \/ "deaf" \in s.excuse

\* A session that was shut down has nothing under way but its shutdown.
Down(s) ==
  "escaped" \notin s.excuse =>
    /\ Quiet(s) /\ s.doing = "none"
    /\ s.frames = <<>> \/ s.frames = <<"shutdown">>
    /\ s.connected => s.frames # <<>>

WsInv ==
  /\ ws \in Session /\ Reads(ws) /\ Alone(ws) /\ Flagged(ws)
  /\ wanted \in BOOLEAN
  /\ wanted => Live(ws)
  /\ ~wanted => Down(ws)

\* What the parts of a method leave of a session, field by field.
LEMMA AbortedIs ==
  ASSUME NEW s \in Session
  PROVE  LET a == Aborted(s) IN
         /\ a \in Session /\ a.doing = "none"
         /\ a.connected = s.connected /\ a.stream = s.stream /\ a.timer = s.timer
         /\ a.due = s.due /\ a.frames = s.frames /\ a.excuse = s.excuse
         /\ a.stale = IF s.doing = "handshake" THEN s.stale + 1 ELSE s.stale
<1> DEFINE n == IF s.doing = "handshake" THEN s.stale + 1 ELSE s.stale
<1>1. Aborted(s) = [s EXCEPT !.doing = "none", !.stale = n]
  BY DEF Aborted
<1>2. n \in Nat
  BY DEF Session
<1> HIDE DEF n
<1>3. LET a == [s EXCEPT !.doing = "none", !.stale = n] IN
      /\ a \in Session /\ a.doing = "none"
      /\ a.connected = s.connected /\ a.stream = s.stream /\ a.timer = s.timer
      /\ a.due = s.due /\ a.frames = s.frames /\ a.excuse = s.excuse /\ a.stale = n
  BY <1>2 DEF Session
<1>4. QED
  BY <1>1, <1>3 DEF n

LEMMA NotedIs ==
  ASSUME NEW s \in Session
  PROVE  LET n == Noted(s) IN
         /\ n \in Session
         /\ n.connected = s.connected /\ n.stream = s.stream /\ n.timer = s.timer
         /\ n.due = s.due /\ n.frames = s.frames /\ n.stale = s.stale /\ n.doing = s.doing
         /\ s.excuse \subseteq n.excuse /\ n.excuse \subseteq s.excuse \cup {"overlap"}
         /\ s.doing \in {"tcp", "handshake"} /\ ~Quiet(s) => "overlap" \in n.excuse
  BY DEF Noted, Session, Quiet, Excuse

LEMMA ClosingIs ==
  ASSUME NEW s \in Session, NEW caller \in {"reconnect", "shutdown"}
  PROVE  LET c == Closing(s, caller) IN
         /\ c \in Session /\ c.doing = "none" /\ c.timer = FALSE
         /\ c.connected = s.connected /\ c.stream = s.stream /\ c.due = s.due
         /\ c.stale = IF s.doing = "handshake" THEN s.stale + 1 ELSE s.stale
         /\ c.frames # <<>> /\ Len(c.frames) = Len(s.frames) + 1 /\ c.frames[1] = caller
         /\ s.frames = <<>> => c.frames = <<caller>>
         /\ c.excuse = IF s.stream = "none" THEN s.excuse \cup {"dangling"} ELSE s.excuse
<1>1. <<caller>> \o s.frames \in Seq({"reconnect", "shutdown"})
  BY DEF Session
<1>2. /\ Len(<<caller>> \o s.frames) = Len(s.frames) + 1 /\ (<<caller>> \o s.frames)[1] = caller
      /\ <<caller>> \o s.frames # <<>>
      /\ s.frames = <<>> => <<caller>> \o s.frames = <<caller>>
  <2>1. s.frames \in Seq({"reconnect", "shutdown"}) /\ <<caller>> \in Seq({"reconnect", "shutdown"})
    BY DEF Session
  <2>2. Len(<<caller>> \o s.frames) = Len(s.frames) + 1 /\ (<<caller>> \o s.frames)[1] = caller
    BY <2>1
  <2>3. <<caller>> \o s.frames # <<>>
    BY <2>1, <2>2
  <2>4. <<caller>> \o << >> = <<caller>>
    BY <2>1, ConcatEmptySeq
  <2>5. QED
    BY <2>2, <2>3, <2>4
<1>3. Closing(s, caller).frames = <<caller>> \o s.frames
  BY AbortedIs DEF Closing, Session
<1>4. QED
  BY <1>1, <1>2, <1>3, AbortedIs DEF Closing, Session, Excuse

\* reconnect leaves any session with something under way, and keeps the flag's order.
LEMMA ReconnectGood ==
  ASSUME NEW s \in Session, Reads(s), Alone(s)
  PROVE  LET r == Reconnect(s) IN
         /\ r \in Session /\ Reads(r) /\ Alone(r) /\ Flagged(r) /\ Live(r)
         /\ s.excuse \subseteq r.excuse
<1>1. CASE s.connected
  <2> DEFINE r == Closing(s, "reconnect")
  <2>1. Reconnect(s) = r
    BY <1>1 DEF Reconnect
  <2> HIDE DEF r
  <2>2. /\ r \in Session /\ r.doing = "none" /\ r.timer = FALSE
        /\ r.connected = s.connected /\ r.stream = s.stream /\ r.due = s.due
        /\ r.stale = IF s.doing = "handshake" THEN s.stale + 1 ELSE s.stale
        /\ r.frames # <<>> /\ Len(r.frames) = Len(s.frames) + 1 /\ r.frames[1] = "reconnect"
        /\ r.excuse = IF s.stream = "none" THEN s.excuse \cup {"dangling"} ELSE s.excuse
    BY ClosingIs DEF r
  <2>3. Live(r)
    <3>1. 1 \in 1..Len(r.frames)
      BY <2>2 DEF Session
    <3>2. QED
      BY <2>2, <3>1 DEF Live
  <2>4. Alone(r)
    BY <1>1, <2>2 DEF Alone, Quiet
  <2>5. QED
    BY <2>1, <2>2, <2>3, <2>4 DEF Reads, Flagged
<1>2. CASE ~s.connected
  <2> DEFINE t == [s EXCEPT !.timer = TRUE]
             r == Noted(t)
  <2>1. Reconnect(s) = r
    BY <1>2 DEF Reconnect
  <2>2. /\ t \in Session /\ t.timer = TRUE
        /\ t.connected = s.connected /\ t.stream = s.stream /\ t.doing = s.doing
        /\ t.due = s.due /\ t.frames = s.frames /\ t.excuse = s.excuse /\ t.stale = s.stale
    BY DEF Session
  <2> HIDE DEF t
  <2>3. /\ r \in Session
        /\ r.connected = t.connected /\ r.stream = t.stream /\ r.timer = t.timer
        /\ r.due = t.due /\ r.frames = t.frames /\ r.stale = t.stale /\ r.doing = t.doing
        /\ t.excuse \subseteq r.excuse /\ r.excuse \subseteq t.excuse \cup {"overlap"}
        /\ t.doing \in {"tcp", "handshake"} /\ ~Quiet(t) => "overlap" \in r.excuse
    BY <2>2, NotedIs
  <2> HIDE DEF r
  <2>4. Live(r)
    BY <2>2, <2>3 DEF Live, Pending
  <2>5. Alone(r)
    BY <1>2, <2>2, <2>3 DEF Alone, Quiet
  <2>6. QED
    BY <1>2, <2>1, <2>2, <2>3, <2>4, <2>5 DEF Reads, Flagged
<1>3. QED
  BY <1>1, <1>2

\* connect does so, too, for a session that is not connected.
LEMMA ConnectGood ==
  ASSUME NEW s \in Session, Connect(s),
         "overlap" \notin s.excuse => ~s.connected /\ "dangling" \notin s.excuse
  PROVE  /\ ws' \in Session /\ Reads(ws') /\ Alone(ws') /\ Flagged(ws') /\ Live(ws')
         /\ "escaped" \in s.excuse => "escaped" \in ws'.excuse
<1> DEFINE b == [Aborted(s) EXCEPT !.stream = "connecting", !.doing = "tcp",
                                   !.excuse = @ \ {"silent", "deaf", "abandoned"}]
           f == Fresh(s)
<1>1. /\ b \in Session /\ b.doing = "tcp" /\ b.connected = s.connected
      /\ "overlap" \in s.excuse <=> "overlap" \in b.excuse
      /\ "dangling" \in s.excuse <=> "dangling" \in b.excuse
      /\ "escaped" \in s.excuse => "escaped" \in b.excuse
  BY AbortedIs DEF Session
<1>2. f = Noted(b)
  BY DEF Fresh
<1> HIDE DEF b, f
<1>3. /\ f \in Session /\ f.doing = "tcp" /\ f.connected = b.connected /\ Quiet(f) = Quiet(b)
      /\ b.excuse \subseteq f.excuse /\ f.excuse \subseteq b.excuse \cup {"overlap"}
      /\ ~Quiet(b) => "overlap" \in f.excuse
  BY <1>1, <1>2, NotedIs DEF Quiet
<1>4. "overlap" \notin f.excuse => ~f.connected /\ "dangling" \notin f.excuse /\ Quiet(f)
  BY <1>1, <1>3
<1>5. CASE ws' = f
  BY <1>1, <1>3, <1>4, <1>5 DEF Reads, Alone, Flagged, Live, Pending
<1>6. CASE ws' = Reconnect([f EXCEPT !.stream = "none", !.doing = "none"])
  <2> DEFINE g == [f EXCEPT !.stream = "none", !.doing = "none"]
  <2>1. g \in Session /\ g.doing = "none" /\ g.connected = f.connected /\ g.excuse = f.excuse
    BY <1>3 DEF Session
  <2> HIDE DEF g
  <2>2. Reads(g) /\ Alone(g)
    BY <1>4, <2>1 DEF Reads, Alone
  <2>3. QED
    BY <1>1, <1>3, <1>6, <2>1, <2>2, ReconnectGood DEF g
<1>7. QED
  BY <1>5, <1>6 DEF Connect, f

\* A handler that ends what the stream was doing and reconnects.
LEMMA EndsAndReconnects ==
  ASSUME WsInv, wanted' = wanted, ws.doing # "none", NEW st \in {"none", "closed"},
         st = "none" /\ "overlap" \notin ws.excuse => ~ws.connected,
         ws' = Reconnect([ws EXCEPT !.doing = "none", !.stream = st])
  PROVE  WsInv'
<1> DEFINE s == [ws EXCEPT !.doing = "none", !.stream = st]
<1>1. /\ s \in Session /\ s.doing = "none" /\ s.stream = st /\ s.connected = ws.connected
      /\ s.timer = ws.timer /\ s.due = ws.due /\ s.stale = ws.stale /\ s.excuse = ws.excuse
  BY DEF WsInv, Session
<1> HIDE DEF s
<1>2. Reads(s) /\ Alone(s)
  BY <1>1 DEF WsInv, Reads, Alone, Quiet
<1>3. /\ ws' \in Session /\ Reads(ws') /\ Alone(ws') /\ Flagged(ws') /\ Live(ws')
      /\ ws.excuse \subseteq ws'.excuse
  BY <1>1, <1>2, ReconnectGood DEF s
<1>4. Down(ws) => Down(ws')
  BY <1>3 DEF Down
<1>5. QED
  BY <1>3, <1>4 DEF WsInv

LEMMA CommandsInv ==
  ASSUME WsInv, Load \/ Retry \/ ShutdownWebsocket \/ SetProxyOf
  PROVE  WsInv'
<1>1. CASE Load
  <2>1. wanted' = TRUE
    BY <1>1 DEF Load
  <2>2. CASE ~ws.connected /\ Connect(ws)
    BY <2>1, <2>2, ConnectGood DEF WsInv, Alone
  <2>3. CASE ws' = Reconnect(ws)
    BY <2>1, <2>3, ReconnectGood DEF WsInv
  <2>4. QED
    BY <1>1, <2>2, <2>3 DEF Load
<1>2. CASE Retry
  BY <1>2, ReconnectGood DEF WsInv, Retry
<1>3. CASE ShutdownWebsocket
  <2> DEFINE s == Shutdown(ws)
             busy == Pending(s) \/ ws.frames # <<>>
  <2>1. /\ s \in Session /\ Reads(s) /\ Alone(s) /\ Flagged(s)
        /\ ~busy => Quiet(s) /\ s.doing = "none"
                    /\ (s.frames = <<>> \/ s.frames = <<"shutdown">>)
                    /\ (s.connected => s.frames # <<>>)
    <3>1. CASE ws.connected
      <4> DEFINE c == Closing(ws, "shutdown")
      <4>1. /\ c \in Session /\ c.doing = "none" /\ c.timer = FALSE
            /\ c.connected = ws.connected /\ c.stream = ws.stream /\ c.due = ws.due
            /\ c.stale = IF ws.doing = "handshake" THEN ws.stale + 1 ELSE ws.stale
            /\ c.frames # <<>> /\ (ws.frames = <<>> => c.frames = <<"shutdown">>)
            /\ c.excuse = IF ws.stream = "none" THEN ws.excuse \cup {"dangling"} ELSE ws.excuse
        BY ClosingIs DEF WsInv
      <4>2. s = c
        BY <3>1 DEF Shutdown
      <4> HIDE DEF c, s
      <4>3. Alone(c)
        BY <3>1, <4>1 DEF WsInv, Alone, Quiet
      <4>4. ~busy => Quiet(c) /\ c.frames = <<"shutdown">>
        BY <4>1, <4>2 DEF Pending, Quiet, Session
      <4>5. QED
        BY <4>1, <4>2, <4>3, <4>4 DEF Reads, Flagged
    <3>2. CASE ~ws.connected
      <4>1. s = ws
        BY <3>2 DEF Shutdown
      <4> HIDE DEF s
      <4>2. ~busy => Quiet(ws) /\ ws.doing = "none"
        BY <3>2, <4>1 DEF WsInv, Pending, Quiet, Session, Reads
      <4>3. QED
        BY <3>2, <4>1, <4>2 DEF WsInv
    <3>3. QED
      BY <3>1, <3>2
  <2>2. /\ wanted' = FALSE
        /\ ws' = IF busy THEN [s EXCEPT !.excuse = @ \cup {"escaped"}]
                 ELSE [s EXCEPT !.excuse = @ \ {"escaped"}]
    BY <1>3 DEF ShutdownWebsocket
  <2> HIDE DEF s, busy
  <2>3. /\ ws' \in Session /\ ws'.doing = s.doing /\ ws'.timer = s.timer
        /\ ws'.connected = s.connected /\ ws'.stream = s.stream /\ ws'.due = s.due
        /\ ws'.stale = s.stale /\ ws'.frames = s.frames
        /\ \A e \in Excuse : e # "escaped" => (e \in ws'.excuse <=> e \in s.excuse)
        /\ busy => "escaped" \in ws'.excuse
    BY <2>1, <2>2 DEF Session, Excuse
  <2>4. Reads(ws') /\ Alone(ws') /\ Flagged(ws')
    BY <2>1, <2>3 DEF Reads, Alone, Flagged, Quiet, Excuse
  <2>5. Down(ws')
    BY <2>1, <2>3 DEF Down, Quiet
  <2>6. QED
    BY <2>2, <2>3, <2>4, <2>5 DEF WsInv
<1>4. CASE SetProxyOf
  <2>1. CASE UNCHANGED ws
    BY <1>4, <2>1 DEF SetProxyOf, WsInv
  <2>2. CASE ws' = [Aborted(ws) EXCEPT
              !.stream = IF @ = "none" THEN @ ELSE "closed",
              !.excuse = CASE ws.doing = "tcp" -> @ \union {"silent"}
                           [] ws.doing = "read" -> @ \union {"deaf"}
                           [] OTHER -> @]
    <3> DEFINE a == Aborted(ws)
    <3>1. /\ a \in Session /\ a.doing = "none"
          /\ a.connected = ws.connected /\ a.stream = ws.stream /\ a.timer = ws.timer
          /\ a.due = ws.due /\ a.frames = ws.frames /\ a.excuse = ws.excuse
          /\ a.stale = IF ws.doing = "handshake" THEN ws.stale + 1 ELSE ws.stale
      BY AbortedIs DEF WsInv
    <3> HIDE DEF a
    <3>2. /\ ws' \in Session /\ ws'.doing = "none" /\ ws'.timer = ws.timer
          /\ ws'.connected = ws.connected /\ ws'.due = ws.due /\ ws'.frames = ws.frames
          /\ ws'.stale = IF ws.doing = "handshake" THEN ws.stale + 1 ELSE ws.stale
          /\ ws'.stream = "none" <=> ws.stream = "none"
          /\ ws.doing = "tcp" => ws'.excuse = ws.excuse \cup {"silent"}
          /\ ws.doing = "read" => ws'.excuse = ws.excuse \cup {"deaf"}
          /\ ws.doing \notin {"tcp", "read"} => ws'.excuse = ws.excuse
      BY <2>2, <3>1 DEF Session, Excuse, a
    <3>3. wanted' = wanted
      BY <1>4 DEF SetProxyOf
    <3>4. Alone(ws') /\ Flagged(ws') /\ Reads(ws')
      BY <3>2 DEF WsInv, Reads, Alone, Flagged, Quiet, Session
    <3>5. Live(ws) => Live(ws')
      <4>1. CASE ws.doing \in {"read", "tcp"}
        BY <3>2, <4>1 DEF Live, Among
      <4>2. CASE Pending(ws) /\ ws.doing # "tcp"
        BY <3>2, <4>2 DEF WsInv, Live, Pending, Session
      <4>3. CASE Among(ws, {"silent", "deaf", "abandoned"})
        BY <3>2, <4>3 DEF Live, Among
      <4>4. CASE \E i \in 1..Len(ws.frames) : ws.frames[i] = "reconnect"
        BY <3>2, <4>4 DEF Live
      <4>5. QED
        BY <4>1, <4>2, <4>3, <4>4 DEF Live
    <3>6. Down(ws) => Down(ws')
      BY <3>2 DEF WsInv, Down, Quiet, Session
    <3>7. QED
      BY <3>2, <3>3, <3>4, <3>5, <3>6 DEF WsInv
  <2>3. QED
    BY <1>4, <2>1, <2>2 DEF SetProxyOf
<1>5. QED
  BY <1>1, <1>2, <1>3, <1>4

LEMMA PollReturnsInv ==
  ASSUME WsInv, PollReturns
  PROVE  WsInv'
<1> DEFINE a == Aborted(ws)
<1>1. /\ a \in Session /\ a.doing = "none"
      /\ a.connected = ws.connected /\ a.stream = ws.stream /\ a.timer = ws.timer
      /\ a.due = ws.due /\ a.frames = ws.frames /\ a.excuse = ws.excuse
      /\ a.stale = IF ws.doing = "handshake" THEN ws.stale + 1 ELSE ws.stale
  BY AbortedIs DEF WsInv
<1>2. /\ ws.frames \in Seq({"reconnect", "shutdown"}) /\ ws.frames # <<>> /\ wanted' = wanted
      /\ ws' = [a EXCEPT
            !.connected = FALSE,
            !.stream = IF @ = "none" THEN @ ELSE "closed",
            !.timer = (@ \/ Head(ws.frames) = "reconnect"),
            !.frames = Tail(@),
            !.excuse = IF ws.doing \in {"tcp", "read"} THEN @ \union {"silent"} ELSE @]
  BY DEF PollReturns, WsInv, Session
<1> DEFINE rest == Tail(ws.frames)
           armed == ws.timer \/ Head(ws.frames) = "reconnect"
           where == IF ws.stream = "none" THEN "none" ELSE "closed"
           why == IF ws.doing \in {"tcp", "read"} THEN ws.excuse \cup {"silent"} ELSE ws.excuse
<1>3. ws' = [a EXCEPT !.connected = FALSE, !.stream = where, !.timer = armed,
                      !.frames = rest, !.excuse = why]
  BY <1>1, <1>2 DEF Session
<1>4. /\ rest \in Seq({"reconnect", "shutdown"}) /\ armed \in BOOLEAN
      /\ where \in {"none", "closed"} /\ why \in SUBSET Excuse
  BY <1>2 DEF Session, Excuse, WsInv
<1> HIDE DEF a, rest, armed, where, why
<1>5. /\ ws' \in Session /\ ws'.doing = "none" /\ ws'.connected = FALSE /\ ws'.timer = armed
      /\ ws'.due = ws.due /\ ws'.frames = rest /\ ws'.excuse = why
      /\ ws'.stale = IF ws.doing = "handshake" THEN ws.stale + 1 ELSE ws.stale
  BY <1>1, <1>3, <1>4 DEF Session
<1>6. ws.excuse \subseteq why /\ why \subseteq ws.excuse \cup {"silent"}
  BY DEF why
<1>7. Reads(ws') /\ Alone(ws') /\ Flagged(ws')
  BY <1>5, <1>6 DEF Reads, Alone, Flagged, WsInv
<1>8. Live(ws) => Live(ws')
  <2>1. CASE ws.doing \in {"tcp", "read"}
    BY <1>5, <2>1 DEF Live, Among, why
  <2>2. CASE ws.doing = "handshake"
    BY <1>5, <2>2 DEF Live, Pending, WsInv, Session
  <2>3. CASE ws.doing = "none" /\ Pending(ws)
    <3>1. ws.timer \/ ws.due > 0
      BY <2>3 DEF Pending, PollReturns
    <3>2. ws'.timer \/ ws'.due > 0
      BY <1>5, <3>1 DEF armed
    <3>3. QED
      BY <3>2 DEF Live, Pending
  <2>4. CASE Among(ws, {"silent", "deaf", "abandoned"})
    BY <1>5, <1>6, <2>4 DEF Live, Among
  <2>5. ASSUME NEW i \in 1..Len(ws.frames), ws.frames[i] = "reconnect"
        PROVE  Live(ws')
    <3>1. CASE i = 1
      <4>1. Head(ws.frames) = "reconnect"
        BY <1>2, <2>5, <3>1
      <4>2. armed
        BY <4>1 DEF armed
      <4>3. ws'.timer
        BY <1>5, <4>2, Zenon
      <4>4. QED
        BY <4>3 DEF Live, Pending
    <3>2. CASE i # 1
      <4>1. i - 1 \in 1..Len(rest) /\ rest[i - 1] = "reconnect"
        BY <1>2, <2>5, <3>2 DEF rest
      <4>2. QED
        BY <1>5, <4>1 DEF Live
    <3>3. QED
      BY <3>1, <3>2
  <2>6. QED
    BY <2>1, <2>2, <2>3, <2>4, <2>5 DEF Live, WsInv, Session
<1>9. Down(ws) => Down(ws')
  <2> SUFFICES ASSUME Down(ws), "escaped" \notin ws'.excuse
               PROVE  Down(ws')
    BY DEF Down
  <2>1. Quiet(ws) /\ ws.doing = "none" /\ ws.frames = <<"shutdown">>
    BY <1>2, <1>5, <1>6 DEF Down
  <2>2. ~armed /\ rest = <<>>
    BY <2>1 DEF armed, rest, Quiet
  <2>3. QED
    BY <1>5, <2>1, <2>2 DEF Down, Quiet
<1>10. QED
  BY <1>2, <1>5, <1>7, <1>8, <1>9 DEF WsInv

LEMMA HandlersInv ==
  ASSUME WsInv, WsHandler
  PROVE  WsInv'
<1>1. CASE TimerExpires
  <2>1. /\ ws.timer /\ wanted' = wanted
        /\ ws' \in Session /\ ws'.timer = FALSE /\ ws'.due = ws.due + 1 /\ ws'.doing = ws.doing
        /\ ws'.connected = ws.connected /\ ws'.stream = ws.stream /\ ws'.frames = ws.frames
        /\ ws'.stale = ws.stale /\ ws'.excuse = ws.excuse
    <3> DEFINE n == ws.due + 1
    <3>1. ws \in Session /\ ws.timer /\ wanted' = wanted /\ n \in Nat
      BY <1>1 DEF TimerExpires, WsInv, Session
    <3>2. ws' = [ws EXCEPT !.timer = FALSE, !.due = n]
      BY <1>1, <3>1 DEF TimerExpires, Session
    <3> HIDE DEF n
    <3>3. /\ ws' \in Session /\ ws'.timer = FALSE /\ ws'.due = n /\ ws'.doing = ws.doing
          /\ ws'.connected = ws.connected /\ ws'.stream = ws.stream /\ ws'.frames = ws.frames
          /\ ws'.stale = ws.stale /\ ws'.excuse = ws.excuse
      BY <3>1, <3>2 DEF Session
    <3>4. QED
      BY <3>1, <3>3 DEF n
  <2>2. Reads(ws') /\ Alone(ws') /\ Flagged(ws')
    BY <2>1 DEF WsInv, Reads, Alone, Flagged, Quiet
  <2>3. Live(ws')
    BY <2>1 DEF WsInv, Live, Pending, Session
  <2>4. Down(ws) => Down(ws')
    BY <2>1 DEF Down, Quiet
  <2>5. QED
    BY <2>1, <2>2, <2>3, <2>4 DEF WsInv
<1>2. CASE TimerHandler
  <2> DEFINE s == [ws EXCEPT !.due = @ - 1]
  <2>1. /\ ws.due > 0 /\ wanted' = wanted
        /\ s \in Session /\ s.connected = ws.connected /\ s.excuse = ws.excuse
    BY <1>2 DEF TimerHandler, WsInv, Session
  <2>2. Connect(s)
    BY <1>2 DEF TimerHandler
  <2> HIDE DEF s
  <2>3. "overlap" \notin s.excuse => ~s.connected /\ "dangling" \notin s.excuse
    BY <2>1 DEF WsInv, Alone, Quiet, Session
  <2>4. /\ ws' \in Session /\ Reads(ws') /\ Alone(ws') /\ Flagged(ws') /\ Live(ws')
        /\ "escaped" \in ws.excuse => "escaped" \in ws'.excuse
    BY <2>1, <2>2, <2>3, ConnectGood
  <2>5. Down(ws) => Down(ws')
    BY <2>1, <2>4 DEF Down, Quiet, WsInv, Session
  <2>6. QED
    BY <2>1, <2>4, <2>5 DEF WsInv
<1>3. CASE TcpConnected
  <2>1. /\ ws.doing = "tcp" /\ wanted' = wanted
        /\ ws' \in Session /\ ws'.timer = ws.timer /\ ws'.due = ws.due /\ ws'.doing = "handshake"
        /\ ws'.connected = ws.connected /\ ws'.stream = ws.stream /\ ws'.frames = ws.frames
        /\ ws'.stale = ws.stale /\ ws'.excuse = ws.excuse
    BY <1>3 DEF TcpConnected, WsInv, Session
  <2>2. QED
    BY <2>1 DEF WsInv, Reads, Alone, Flagged, Quiet, Live, Pending, Down
<1>4. CASE TcpFails
  BY <1>4, EndsAndReconnects DEF TcpFails, WsInv, Alone
<1>5. CASE ProxySilent
  <2>1. /\ ws.doing = "tcp" /\ wanted' = wanted
        /\ ws' \in Session /\ ws'.timer = ws.timer /\ ws'.due = ws.due /\ ws'.doing = "none"
        /\ ws'.connected = ws.connected /\ ws'.stream = "closed" /\ ws'.frames = ws.frames
        /\ ws'.stale = ws.stale /\ ws'.excuse = ws.excuse \cup {"silent"}
    BY <1>5 DEF ProxySilent, WsInv, Session, Excuse
  <2>2. QED
    BY <2>1 DEF WsInv, Reads, Alone, Flagged, Quiet, Live, Among, Down
<1>6. CASE HandshakeOk
  <2>1. /\ ws.doing = "handshake" /\ wanted' = wanted
        /\ ws' \in Session /\ ws'.timer = ws.timer /\ ws'.due = ws.due /\ ws'.doing = "read"
        /\ ws'.connected = TRUE /\ ws'.stream = "open" /\ ws'.frames = ws.frames
        /\ ws'.stale = ws.stale /\ ws'.excuse = ws.excuse
    BY <1>6 DEF HandshakeOk, WsInv, Session
  <2>2. QED
    BY <2>1 DEF WsInv, Reads, Alone, Flagged, Quiet, Live, Down
<1>7. CASE HandshakeFails
  <2>1. ws.doing = "handshake" /\ wanted' = wanted
    BY <1>7 DEF HandshakeFails
  <2>2. CASE ws' = Abandon(ws)
    <3>1. /\ ws' \in Session /\ ws'.timer = ws.timer /\ ws'.due = ws.due /\ ws'.doing = "none"
          /\ ws'.connected = ws.connected /\ ws'.stream = "closed" /\ ws'.frames = ws.frames
          /\ ws'.stale = ws.stale /\ ws'.excuse = ws.excuse \cup {"abandoned"}
      BY <2>2 DEF Abandon, WsInv, Session, Excuse
    <3>2. QED
      BY <2>1, <3>1 DEF WsInv, Reads, Alone, Flagged, Quiet, Live, Among, Down
  <2>3. CASE ws' = Reconnect([ws EXCEPT !.doing = "none", !.stream = "closed"])
    BY <2>1, <2>3, EndsAndReconnects
  <2>4. QED
    BY <1>7, <2>2, <2>3 DEF HandshakeFails
<1>8. CASE StaleHandshake
  <2> DEFINE s == [ws EXCEPT !.stale = @ - 1]
  <2>1. /\ ws.stale > 0 /\ wanted' = wanted
        /\ s \in Session /\ s.connected = ws.connected /\ s.excuse = ws.excuse
        /\ s.doing = ws.doing /\ s.stream = ws.stream /\ s.timer = ws.timer /\ s.due = ws.due
        /\ s.stale = ws.stale - 1 /\ s.frames = ws.frames
    BY <1>8 DEF StaleHandshake, WsInv, Session
  <2>2. \/ ws' = [s EXCEPT !.excuse = @ \union {"abandoned"}]
        \/ ws' = Reconnect(s)
    BY <1>8 DEF StaleHandshake
  <2> HIDE DEF s
  <2>3. Reads(s) /\ Alone(s) /\ Flagged(s)
    BY <2>1 DEF WsInv, Reads, Alone, Flagged, Quiet, Session
  <2>4. Down(ws) => "escaped" \in ws.excuse
    BY <2>1 DEF Down, Quiet, WsInv, Session
  <2>5. CASE ws' = [s EXCEPT !.excuse = @ \union {"abandoned"}]
    <3>1. /\ ws' \in Session /\ ws'.timer = s.timer /\ ws'.due = s.due /\ ws'.doing = s.doing
          /\ ws'.connected = s.connected /\ ws'.stream = s.stream /\ ws'.frames = s.frames
          /\ ws'.stale = s.stale /\ ws'.excuse = s.excuse \cup {"abandoned"}
      BY <2>1, <2>5 DEF Session, Excuse
    <3>2. Reads(ws') /\ Alone(ws') /\ Flagged(ws')
      BY <2>3, <3>1 DEF Reads, Alone, Flagged, Quiet
    <3>3. QED
      BY <2>1, <2>4, <3>1, <3>2 DEF WsInv, Live, Among, Down
  <2>6. CASE ws' = Reconnect(s)
    <3>1. /\ ws' \in Session /\ Reads(ws') /\ Alone(ws') /\ Flagged(ws') /\ Live(ws')
          /\ s.excuse \subseteq ws'.excuse
      BY <2>1, <2>3, <2>6, ReconnectGood
    <3>2. QED
      BY <2>1, <2>4, <3>1 DEF WsInv, Down
  <2>7. QED
    BY <2>2, <2>5, <2>6
<1>9. CASE ReadError
  BY <1>9, EndsAndReconnects DEF ReadError
<1>10. CASE PollReturns
  BY <1>10, PollReturnsInv
<1>11. QED
  BY <1>1, <1>2, <1>3, <1>4, <1>5, <1>6, <1>7, <1>8, <1>9, <1>10 DEF WsHandler

\* WsInv holds always: what is under way is known, alone unless two attempts overlapped.
THEOREM WsInvariant == WsSpec => []WsInv
<1>1. WsInit => WsInv
  <2> SUFFICES ASSUME WsInit
               PROVE  WsInv
    OBVIOUS
  <2>1. /\ ws \in Session /\ ws.connected = FALSE /\ ws.stream = "none" /\ ws.doing = "none"
        /\ ws.timer = FALSE /\ ws.due = 0 /\ ws.stale = 0 /\ ws.frames = <<>> /\ ws.excuse = {}
    BY DEF WsInit, Session
  <2>2. QED
    BY <2>1 DEF WsInit, WsInv, Reads, Alone, Flagged, Down, Quiet
<1>2. WsInv /\ UNCHANGED wsVars => WsInv'
  BY DEF WsInv, wsVars
<1>3. WsInv /\ [WsNext]_wsVars => WsInv'
  BY <1>2, CommandsInv, HandlersInv DEF WsNext
<1>4. QED
  BY <1>1, <1>3, PTL DEF WsSpec

\* For any number of commands and failures, a session the service wants is online or has
\* something under way that will bring it online, but for the named exceptions.
THEOREM WsNotStranded == WsSpec => []NotStranded
<1>1. WsInv => NotStranded
  <2> SUFFICES ASSUME WsInv, wanted
               PROVE  \/ Online \/ Pending(ws) \/ ws.frames # <<>>
                      \/ Given({"silent", "deaf", "abandoned"})
    BY DEF NotStranded
  <2>1. CASE ws.doing = "read"
    BY <2>1 DEF WsInv, Reads, Online
  <2>2. CASE \E i \in 1..Len(ws.frames) : ws.frames[i] = "reconnect"
    <3>1. ws.frames # <<>>
      BY <2>2
    <3>2. QED
      BY <3>1
  <2>3. QED
    BY <2>1, <2>2 DEF WsInv, Live, Among, Given
<1>2. QED
  BY <1>1, WsInvariant, PTL

\* For any number of commands and failures m_connected is true to the stream, and to
\* what the service wants, outside the poll of a shutdown, and shutdown uses no stream
\* whose client is gone, but for the named exceptions.
THEOREM WsFlagTrue == WsSpec => []FlagTrue
<1>1. WsInv => FlagTrue
  BY DEF WsInv, Flagged, Alone, Down, FlagTrue, Given
<1>2. QED
  BY <1>1, WsInvariant, PTL
=============================================================================
