----------------------------- MODULE ConfigGen -----------------------------
(***************************************************************************)
(* The links section of the core's configuration, which the service writes *)
(* from the positions of the screens in the profile.  linkScreens gives    *)
(* every edge of a screen a map from intervals of pixels to the screen the *)
(* cursor goes to there: the screens on that side overwrite each other,    *)
(* the farthest first.  Here an edge is the function from a pixel to the   *)
(* screen that is left.  printScreenLinks writes where along the edge of   *)
(* either screen a link is, in parts of the edge, which is all the core    *)
(* has: it knows no positions.                                             *)
(***************************************************************************)
EXTENDS Integers, Sequences

ScreenW == 86
ScreenH == 58

\* removeSource: no screen is linked to itself.
OthersThan(list, i) == DOMAIN list \ {i}

\* removeLeft, removeRight, removeAbove, removeBelow: what each leaves.
NotLeft(s, t)  == t.x + ScreenW > s.x
NotRight(s, t) == t.x < s.x + ScreenW
NotAbove(s, t) == t.y + ScreenH > s.y
NotBelow(s, t) == t.y < s.y + ScreenH

\* The interval of the overlap, closed at both ends.
RowsHold(s, t, y) ==
  y >= s.y /\ y >= t.y /\ y <= s.y + ScreenH /\ y <= t.y + ScreenH
ColumnsHold(s, t, x) ==
  x >= s.x /\ x >= t.x /\ x <= s.x + ScreenW /\ x <= t.x + ScreenW

\* The last of the targets that cover the pixel, sorted by rank; 0 when none does.
LastOf(rank) ==
  IF DOMAIN rank = {} THEN 0
  ELSE CHOOSE t \in DOMAIN rank : \A u \in DOMAIN rank : rank[u] <= rank[t]

LinkLeftFarthest(list, i, y) ==
  LastOf([j \in {k \in OthersThan(list, i) :
          /\ NotRight(list[i], list[k]) /\ NotAbove(list[i], list[k])
          /\ NotBelow(list[i], list[k]) /\ RowsHold(list[i], list[k], y)}
          |-> -list[j].x])
LinkLeft(list, i, y) ==
  LastOf([j \in {k \in OthersThan(list, i) :
          /\ NotRight(list[i], list[k]) /\ NotAbove(list[i], list[k])
          /\ NotBelow(list[i], list[k]) /\ RowsHold(list[i], list[k], y)}
          |-> list[j].x])

LinkRight(list, i, y) ==
  LastOf([j \in {k \in OthersThan(list, i) :
          /\ NotLeft(list[i], list[k]) /\ NotAbove(list[i], list[k])
          /\ NotBelow(list[i], list[k]) /\ RowsHold(list[i], list[k], y)}
          |-> -list[j].x])

LinkUp(list, i, x) ==
  LastOf([j \in {k \in OthersThan(list, i) :
          /\ NotLeft(list[i], list[k]) /\ NotRight(list[i], list[k])
          /\ NotBelow(list[i], list[k]) /\ ColumnsHold(list[i], list[k], x)}
          |-> list[j].y])

LinkDown(list, i, x) ==
  LastOf([j \in {k \in OthersThan(list, i) :
          /\ NotLeft(list[i], list[k]) /\ NotRight(list[i], list[k])
          /\ NotAbove(list[i], list[k]) /\ ColumnsHold(list[i], list[k], x)}
          |-> -list[j].y])

\* The rows and columns just inside the edges of the screens, where they are not on
\* an edge of another: the links of a screen change nowhere else.
Rows(list) ==
  (UNION {{list[i].y + 1, list[i].y + ScreenH - 1} : i \in DOMAIN list})
    \ UNION {{list[i].y, list[i].y + ScreenH} : i \in DOMAIN list}
Columns(list) ==
  (UNION {{list[i].x + 1, list[i].x + ScreenW - 1} : i \in DOMAIN list})
    \ UNION {{list[i].x, list[i].x + ScreenW} : i \in DOMAIN list}

\* linkScreens; edges as in ScreenLinks.
LinkScreens(list) ==
  [i \in DOMAIN list |->
     [up    |-> [x \in Columns(list) |-> LinkUp(list, i, x)],
      right |-> [y \in Rows(list)    |-> LinkRight(list, i, y)],
      down  |-> [x \in Columns(list) |-> LinkDown(list, i, x)],
      left  |-> [y \in Rows(list)    |-> LinkLeft(list, i, y)]]]

\* printScreenLinks: a link as the core reads it, from a place along the edge to a screen
\* and a place along its edge.  Places are pixels from the origin of the screen: the
\* percentages times the size, which the core multiplies with again.
PrintEdge(list, i, edge, axis) ==
  [at \in {c - list[i][axis] : c \in {d \in DOMAIN edge : edge[d] # 0}} |->
     LET to == edge[at + list[i][axis]]
     IN  [screen |-> to, at |-> at + list[i][axis] - list[to][axis]]]

PrintScreenLinks(list, links, i) ==
  [up    |-> PrintEdge(list, i, links[i].up, "x"),
   right |-> PrintEdge(list, i, links[i].right, "y"),
   down  |-> PrintEdge(list, i, links[i].down, "x"),
   left  |-> PrintEdge(list, i, links[i].left, "y")]

\* printConfig, the links section.
PrintConfig(list) ==
  LET links == LinkScreens(list)
  IN  [i \in DOMAIN list |-> PrintScreenLinks(list, links, i)]

Opposite == [up |-> "down", down |-> "up", left |-> "right", right |-> "left"]

\* The cursor that crosses a link comes back over the opposite edge to the screen and
\* the place it left.
Mutual(config) ==
  \A i \in DOMAIN config : \A edge \in DOMAIN Opposite : \A at \in DOMAIN config[i][edge] :
    LET to   == config[i][edge][at]
        back == config[to.screen][Opposite[edge]]
    IN  to.at \in DOMAIN back /\ back[to.at] = [screen |-> i, at |-> at]
=============================================================================
