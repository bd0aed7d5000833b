------------------------------- MODULE Routes -------------------------------
(***************************************************************************)
(* Routes of the Synergy router: the records that route advertisements and *)
(* revocations carry, the order in which Router.hpp's by_destination index *)
(* keeps them, and what a node makes of a route a neighbour tells it of.   *)
(* A route is the record [dest, cost, path]; a table entry is a route with *)
(* the connection end it was learnt on, the field conn.                    *)
(***************************************************************************)
EXTENDS Integers, Sequences, FiniteSets

CONSTANT DestRouteLimit     \* kDestRouteLimit: routes kept per destination

ASSUME LimitAssumption == DestRouteLimit \in Nat \ {0}

Visits(path, n) == \E i \in 1..Len(path) : path[i] = n

\* A node's own route, the first of the advertisement that on_connected sends.
SelfRoute(n) == [dest |-> n, cost |-> 0, path |-> <<>>]

\* The key of the by_destination index. The connection is not part of it.
RouteOf(e) == [dest |-> e.dest, cost |-> e.cost, path |-> e.path]

EntryOf(r, c) == [dest |-> r.dest, cost |-> r.cost, path |-> r.path, conn |-> c]

\* A neighbour's route as this node would use it: one hop longer, through sender.
Extend(r, sender) ==
  [dest |-> r.dest, cost |-> r.cost + 1, path |-> <<sender>> \o r.path]

\* Of the routes in a message from sender, those node n acts on, extended: those
\* that neither lead to n nor pass through it.
UsableRoutesAnyPath(n, sender, routes) ==
  {Extend(r, sender) : r \in {x \in routes : x.dest # n}}
UsableRoutes(n, sender, routes) ==
  {Extend(r, sender) : r \in {x \in routes : x.dest # n /\ ~Visits(x.path, n)}}

\* std::vector's operator< on two paths.
PathBefore(p, q) ==
  \/ \E i \in 1..Len(p) : /\ i <= Len(q)
                          /\ p[i] < q[i]
                          /\ \A j \in 1..(i - 1) : p[j] = q[j]
  \/ /\ Len(p) < Len(q)
     /\ \A j \in 1..Len(p) : p[j] = q[j]

\* The order of by_destination among the routes to one destination.
Better(r, s) ==
  /\ r.dest = s.dest
  /\ \/ r.cost < s.cost
     \/ r.cost = s.cost /\ PathBefore(r.path, s.path)

\* What integrate(Route) leaves of the entries S, the table and the routes offered
\* to it: for each destination the best DestRouteLimit.
KeepBest(S) ==
  {e \in S : Cardinality({f \in S : Better(f, e)}) < DestRouteLimit}

Dests(T) == {e.dest : e \in T}

\* The route forward picks: the first in by_destination for dest.
LastRoute(T, dest) ==
  CHOOSE e \in T : e.dest = dest /\ \A f \in T : ~Better(e, f)
BestRoute(T, dest) ==
  CHOOSE e \in T : e.dest = dest /\ \A f \in T : ~Better(f, e)
=============================================================================
