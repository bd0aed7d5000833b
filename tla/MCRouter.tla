------------------------------ MODULE MCRouter ------------------------------
(* Small networks of routers for TLC. End k of a network belongs to the k-th   *)
(* element of its owner sequence.                                              *)
EXTENDS Router

\* Three routers, every two of them linked, and a fourth that has a link to the first
\* when it runs.
MeshNode  == 1..4
MeshConn  == 1..8
MeshOwner == <<1, 2, 2, 3, 3, 1, 1, 4>>
MeshTwin  == <<2, 1, 4, 3, 6, 5, 8, 7>>
Cycle     == 1..6

\* Two routers with a link, and a connection of router 1 to itself.
SelfNode  == 1..2
SelfConn  == 1..4
SelfOwner == <<1, 2, 1, 1>>
SelfTwin  == <<2, 1, 4, 3>>

\* Two routers that each have two addresses, and so two links.
PairNode  == 1..2
PairConn  == 1..4
PairOwner == <<1, 2, 1, 2>>
PairTwin  == <<2, 1, 4, 3>>

\* The three have found each other, or have yet to; the routers in on run.
Joined(on) ==
  /\ running = [n \in Node |-> n \in on]
  /\ phase = [c \in Conn |-> IF c \in Cycle THEN "open" ELSE "closed"]
  /\ up = Cycle
  /\ inbox = [c \in Conn |-> <<>>]
  /\ table = [n \in Node |->
                {EntryOf(r, CHOOSE c \in Conn : Owner[c] = n /\ Peer(c) = r.path[1]) :
                   r \in ActualRoutes(n)}]
  /\ reach = [n \in Node |-> Dests(table[n])]

Apart ==
  /\ running = [n \in Node |-> n # 4]
  /\ phase = [c \in Conn |-> "closed"]
  /\ up = {}
  /\ inbox = [c \in Conn |-> <<>>]
  /\ table = [n \in Node |-> {}]
  /\ reach = [n \in Node |-> {}]

Used(breaks, sends) == spent = [breaks |-> breaks, shutdowns |-> 0, hellos |-> 0, sends |-> sends]

\* Two connections of the three break while a message is forwarded; no connection breaks,
\* and the three find each other; or the fourth connects, and one connection breaks.
Established == Joined(1..3) /\ Used(0, 0)
Scattered   == Apart /\ Used(MaxBreaks, 0)
FourthJoins == Joined(Node) /\ Used(MaxBreaks - 1, MaxSends)

\* No router starts or stops.
MeshSpec == (Established \/ Scattered \/ FourthJoins) /\ [][Next /\ UNCHANGED running]_vars
FairSpec == Spec /\ Fairness
=============================================================================
