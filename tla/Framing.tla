------------------------------ MODULE Framing ------------------------------
(***************************************************************************)
(* One direction of a connection, from the writer at one end to the reader *)
(* at the other.  Two kinds of connection write differently:               *)
(*   "router"  Connection: a queue that one coroutine drains, and          *)
(*             MessageReader, with a timeout for a message that has begun; *)
(*   "proxy"   ServerProxyConnection and ClientProxyConnection: a          *)
(*             coroutine for every message, no queue and no timeout.       *)
(*                                                                         *)
(* A message is a header and a body, each sent in two pieces: an operation *)
(* transfers what the socket takes, so another writer may come between two *)
(* pieces.  What the bytes say is left out; the length a reader expects is *)
(* the same for every message.                                             *)
(***************************************************************************)
EXTENDS Integers, Sequences, SequencesExt

CONSTANTS MaxMessages   \* bound: messages

ASSUME FramingAssumption == MaxMessages \in Nat

VARIABLES
  kind,       \* the kind of connection
  sent,       \* messages sent
  writing,    \* message_queue_, the first being written; or the messages whose
              \* coroutines run: [msg, next], next being the piece to write
  wire,       \* pieces under way: [msg, piece]
  got,        \* pieces the reader has of the message it reads
  timer,      \* MessageReader's timer_: "off", "on", or "due", its handler queued
  loop,       \* the receive loop runs
  listed,     \* the router, or the proxy, has the connection in its table
  broken,     \* the connection is gone
  delivered,  \* messages handed on, 0 for one put together from pieces of several
  crowded     \* history: two writers were at work at once

frameVars ==
  <<kind, sent, writing, wire, got, timer, loop, listed, broken, delivered, crowded>>

Piece == 1..4     \* 1 and 2 are the header, 3 and 4 the body

FrameTypeOK ==
  /\ kind \in {"router", "proxy"}
  /\ sent \in 0..MaxMessages
  /\ writing \in Seq([msg : 1..MaxMessages, next : Piece])
  /\ wire \in Seq([msg : 1..MaxMessages, piece : Piece])
  /\ got \in Seq([msg : 1..MaxMessages, piece : Piece]) /\ Len(got) < 4
  /\ timer \in {"off", "on", "due"}
  /\ loop \in BOOLEAN /\ listed \in BOOLEAN /\ broken \in BOOLEAN /\ crowded \in BOOLEAN
  /\ delivered \in Seq(0..MaxMessages)

FrameInit ==
  /\ kind \in {"router", "proxy"}
  /\ sent = 0 /\ writing = <<>> /\ wire = <<>> /\ got = <<>>
  /\ timer = "off" /\ loop = TRUE /\ listed = TRUE /\ broken = FALSE
  /\ delivered = <<>> /\ crowded = FALSE

-----------------------------------------------------------------------------
(* The writing end *)

\* Connection::send queues the message, and starts the writer if it is the only one;
\* the proxies start a writer for each.
SendMessage ==
  /\ sent < MaxMessages
  /\ sent' = sent + 1
  /\ writing' = Append(writing, [msg |-> sent', next |-> 1])
  /\ crowded' = (crowded \/ (kind = "proxy" /\ writing # <<>>))
  /\ UNCHANGED <<kind, wire, got, timer, loop, listed, broken, delivered>>

\* The writers that run.
WriterEach == DOMAIN writing
Writer == IF kind = "router" THEN {k \in DOMAIN writing : k = 1} ELSE DOMAIN writing

\* A writer transfers a piece; after the last it pops the queue, or ends.  Errors are
\* not looked at: on a connection that is gone the pieces go nowhere.
WriteShort(k) ==
  /\ wire' = IF broken THEN wire
             ELSE Append(wire, [msg |-> writing[k].msg, piece |-> writing[k].next])
  /\ writing' = IF writing[k].next = 3 THEN RemoveAt(writing, k)
                ELSE [writing EXCEPT ![k].next = @ + 1]
  /\ UNCHANGED <<kind, sent, got, timer, loop, listed, broken, delivered, crowded>>
Write(k) ==
  /\ wire' = IF broken THEN wire
             ELSE Append(wire, [msg |-> writing[k].msg, piece |-> writing[k].next])
  /\ writing' = IF writing[k].next = 4 THEN RemoveAt(writing, k)
                ELSE [writing EXCEPT ![k].next = @ + 1]
  /\ UNCHANGED <<kind, sent, got, timer, loop, listed, broken, delivered, crowded>>

-----------------------------------------------------------------------------
(* The reading end *)

\* The pieces the read under way still waits for: of the header, or of the body.
Wanted == IF Len(got) < 2 THEN 2 - Len(got) ELSE 4 - Len(got)

\* What the reader makes of four pieces.
Parsed(pieces) ==
  IF \E m \in 1..MaxMessages : \A p \in Piece : pieces[p] = [msg |-> m, piece |-> p]
  THEN pieces[1].msg ELSE 0

\* MessageReader::read_chunk: a read that has begun and is not done starts the timer,
\* once for a message.  After the body, reset cancels it, unless its handler is queued.
Arrive(n) ==
  LET g == got \o SubSeq(wire, 1, n)
  IN  /\ loop /\ n <= Len(wire)
      /\ wire' = SubSeq(wire, n + 1, Len(wire))
      /\ IF Len(g) < 4
         THEN /\ got' = g
              /\ timer' = IF kind = "router" /\ n < Wanted /\ timer = "off" THEN "on" ELSE timer
              /\ UNCHANGED delivered
         ELSE /\ got' = <<>>
              /\ delivered' = Append(delivered, Parsed(g))
              /\ timer' = IF timer = "on" THEN "off" ELSE timer
      /\ UNCHANGED <<kind, sent, writing, loop, listed, broken, crowded>>

ReadTimeout ==
  /\ timer = "on"
  /\ timer' = "due"
  /\ UNCHANGED <<kind, sent, writing, wire, got, loop, listed, broken, delivered, crowded>>

\* The timer's handler cancels the read under way, of this message or of a later one.
\* Connection::start takes the abort for a stop of its own: the loop ends and the
\* router is not told.
TimeoutHandler ==
  /\ timer = "due"
  /\ timer' = "off"
  /\ loop' = FALSE
  /\ got' = <<>>
  /\ UNCHANGED <<kind, sent, writing, wire, listed, broken, delivered, crowded>>

\* The connection breaks, with what is under way; the read fails and on_disconnect
\* takes the connection from the table.
LinkBreaks ==
  /\ ~broken
  /\ broken' = TRUE /\ wire' = <<>>
  /\ UNCHANGED <<kind, sent, writing, got, timer, loop, listed, delivered, crowded>>

ReadFailure ==
  /\ broken /\ loop
  /\ loop' = FALSE /\ listed' = FALSE /\ got' = <<>>
  /\ timer' = IF timer = "on" THEN "off" ELSE timer
  /\ UNCHANGED <<kind, sent, writing, wire, broken, delivered, crowded>>

\* Connection::stop, by the router that removes the connection.
StopLink ==
  /\ loop /\ kind = "router"
  /\ loop' = FALSE /\ listed' = FALSE /\ got' = <<>>
  /\ timer' = IF timer = "on" THEN "off" ELSE timer
  /\ UNCHANGED <<kind, sent, writing, wire, broken, delivered, crowded>>

FrameHandler ==
  \/ \E k \in Writer : Write(k)
  \/ \E n \in 1..Wanted : Arrive(n)
  \/ ReadFailure \/ TimeoutHandler

FrameNext == FrameHandler \/ SendMessage \/ ReadTimeout \/ LinkBreaks \/ StopLink

-----------------------------------------------------------------------------
(* Properties *)

OfRouter(x, y) == IF kind = "router" THEN x ELSE y

Link == INSTANCE FifoLink WITH sentCount <- OfRouter(sent, 0),
                               arrived <- OfRouter(delivered, <<>>)

\* A connection of the router is the link that Router takes it for: one writer at a time
\* keeps the pieces of a message together, however sends, partial writes and the timer
\* interleave.
ImplementsLink == Link!LinkSpec

\* The proxies' streams are as good only while no message is sent before the one before
\* it is written: two writers on one socket can put a message in the middle of another.
WholeUnlessCrowded ==
  ~crowded => \A k \in DOMAIN delivered : delivered[k] = k

=============================================================================
