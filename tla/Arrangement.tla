---------------------------- MODULE Arrangement ----------------------------
(***************************************************************************)
(* The icons of the screens in the configuration window, where the user    *)
(* drops them: ScreenBBArrangement on the list of ScreenListModel.  An     *)
(* icon is snapped to the others, or set against the box around them, and  *)
(* the whole is moved back into the view.  UIScreen refuses a position     *)
(* outside the window without telling the caller.  Positions are the       *)
(* program's pixels.                                                       *)
(*                                                                         *)
(* ConfigGen makes the links of the core's configuration from the same     *)
(* positions: leaving a screen, the cursor goes to the nearest one there.  *)
(*                                                                         *)
(* External: the user and the other computers, whose windows keep icons    *)
(* apart as this one does.                                                 *)
(***************************************************************************)
EXTENDS Integers, Sequences, FiniteSets, SequencesExt, ScreenList, ConfigGen

IconW == 86
IconH == 58
ViewW == 600
ViewH == 380
SnappingThreshold == 7

CONSTANTS
  ScreenId,      \* the screens of the profile
  Local,         \* this computer's
  Spot,          \* where an icon is dropped
  Place,         \* where another computer put one
  MaxDrops,      \* bound: icons dropped or removed here
  MaxSnapshots   \* bound: snapshots received

ASSUME ArrangementAssumption ==
  /\ Local \in ScreenId /\ ScreenId \subseteq Nat /\ IsFiniteSet(ScreenId)
  /\ Spot \subseteq Int \X Int
  /\ Place \subseteq ((1 - IconW)..(ViewW - 1)) \X ((1 - IconH)..(ViewH - 1))
  /\ MaxDrops \in Nat /\ MaxSnapshots \in Nat

VARIABLES
  arr,         \* list, m_screens; box, the bounding box; view, the scaled one;
               \* times, 1 / m_scale as a fraction; refused, history: a move was
  gone,        \* the local screen was removed from the profile
  arrUsed      \* how much of each bound is used

arrVars == <<arr, gone, arrUsed>>

Icon == [id : ScreenId \cup {-1}, x : (1 - IconW)..(ViewW - 1), y : (1 - IconH)..(ViewH - 1)]

ArrTypeOK ==
  /\ arr \in [list : Seq(Icon), box : [l : Int, t : Int, r : Int, b : Int],
             view : [w : Int, h : Int], times : Nat \X Nat, refused : BOOLEAN]
  /\ gone \in BOOLEAN /\ arrUsed \in [drops : 0..MaxDrops, snapshots : 0..MaxSnapshots]

-----------------------------------------------------------------------------
(* ScreenListModel and UIScreen *)

FitsX(x) == x > -IconW /\ x < ViewW
FitsY(y) == y > -IconH /\ y < ViewH

SetPos(s, x, y) ==
  [s EXCEPT !.x = IF FitsX(x) THEN x ELSE @, !.y = IF FitsY(y) THEN y ELSE @]

Overlap(s, t) ==
  /\ s.x < t.x + IconW /\ t.x < s.x + IconW
  /\ s.y < t.y + IconH /\ t.y < s.y + IconH

MoveModel(a, i, dx, dy) ==
  LET s == a.list[i] IN
  [a EXCEPT !.list[i] = SetPos(s, s.x + dx, s.y + dy),
            !.refused = @ \/ ~FitsX(s.x + dx) \/ ~FitsY(s.y + dy)]

AdjustAll(a, dx, dy) ==
  [a EXCEPT !.list = [i \in DOMAIN @ |-> SetPos(@[i], @[i].x + dx, @[i].y + dy)],
            !.refused = @ \/ \E i \in DOMAIN a.list :
                               ~FitsX(a.list[i].x + dx) \/ ~FitsY(a.list[i].y + dy)]

-----------------------------------------------------------------------------
(* ScreenBBArrangement *)

\* C++ division by two, which rounds towards zero.
Half(n) == IF n < 0 THEN -((-n) \div 2) ELSE n \div 2

Abs(n) == IF n < 0 THEN -n ELSE n

RecalculateBoundingBox(a, others) ==
  LET xs == {a.list[i].x : i \in others}
      ys == {a.list[i].y : i \in others}
  IN [a EXCEPT !.box =
        IF others = {} THEN [l |-> 0, t |-> 0, r |-> 0, b |-> 0]
        ELSE [l |-> Min(xs), t |-> Min(ys), r |-> Max(xs) + IconW, b |-> Max(ys) + IconH]]

AdjustToCenter(a) ==
  LET dx    == a.view.w \div 2 - Half(a.box.r + a.box.l)
      dy    == a.view.h \div 2 - Half(a.box.b + a.box.t)
      moved == [l |-> a.box.l + dx, t |-> a.box.t + dy, r |-> a.box.r + dx, b |-> a.box.b + dy]
      kept  == [l |-> Max({moved.l, 0}), t |-> Max({moved.t, 0}),
                r |-> Min({moved.r, a.view.w}), b |-> Min({moved.b, a.view.h})]
  IN AdjustAll([a EXCEPT !.box = kept],
               dx + (kept.l - moved.l) + (kept.r - moved.r),
               dy + (kept.t - moved.t) + (kept.b - moved.b))

\* size * times as a float, cut to an int: an exact product may come out just below.
Scaled(size, times, short) ==
  LET n == size * times[1] IN
  n \div times[2] - (IF times[1] # times[2] /\ n % times[2] = 0 THEN short ELSE 0)

CheckAdjustment(a, short) ==
  LET bw      == a.box.r - a.box.l
      bh      == a.box.b - a.box.t
      outside == a.box.l < 0 \/ a.box.t < 0 \/ a.box.r > a.view.w \/ a.box.b > a.view.h
      tooBig  == 3 * bw < 2 * a.view.w \/ 3 * bh < 2 * a.view.h
      most    == IF bw * ViewH > bh * ViewW THEN <<bw, ViewW>> ELSE <<bh, ViewH>>
      times   == IF most[1] > most[2] THEN most ELSE <<1, 1>>
      shrinks == times[1] * a.times[2] > a.times[1] * times[2]
      isBack  == a.times # <<1, 1>> /\ times = <<1, 1>>
      scaled  == [a EXCEPT !.times = times,
                           !.view = [w |-> Scaled(ViewW, times, short.w),
                                     h |-> Scaled(ViewH, times, short.h)]]
  IN IF ~outside /\ ~tooBig THEN a
     ELSE IF shrinks \/ isBack \/ outside THEN AdjustToCenter(scaled) ELSE scaled

Update(a, short) == CheckAdjustment(RecalculateBoundingBox(a, DOMAIN a.list), short)

\* Where a screen is to go: against the nearest side of the box.  A new one, at
\* (-1, -1), is placed as from the local screen.
NewPos(a, s) ==
  LET locals == {i \in DOMAIN a.list : a.list[i].id \in {-1, Local}}
      from   == IF s.x # -1 \/ s.y # -1 THEN s
                ELSE IF locals # {} THEN a.list[Min(locals)]
                ELSE [x |-> a.view.w \div 2 - IconW \div 2, y |-> a.view.h \div 2 - IconH \div 2]
      left   == (Abs(from.x + IconW \div 2 - a.box.l) * 200) \div IconW
      right  == (Abs(from.x + IconW \div 2 - a.box.r) * 200) \div IconW
      top    == (Abs(from.y + IconH \div 2 - a.box.t) * 200) \div IconH
      bottom == (Abs(from.y + IconH \div 2 - a.box.b) * 200) \div IconH
      minX   == Min({left, right})
      minY   == Min({top, bottom})
      onX    == \/ minX < minY
                \/ minX = minY /\ Max({top, bottom}) <= Max({left, right})
  IN IF a.box.l = a.box.r \/ a.box.t = a.box.b THEN [x |-> from.x, y |-> from.y]
     ELSE IF onX THEN [x |-> IF left < right THEN a.box.l - IconW ELSE a.box.r, y |-> from.y]
     ELSE [x |-> from.x, y |-> IF top < bottom THEN a.box.t - IconH ELSE a.box.b]

CalculateNewPos(a, s) == SetPos(s, NewPos(a, s).x, NewPos(a, s).y)

NewPosRefused(a, s) == ~FitsX(NewPos(a, s).x) \/ ~FitsY(NewPos(a, s).y)

\* INT_MAX as the outer threshold never excludes a position.
TestSnapTo(s, t) ==
  \/ s.x <= t.x + SnappingThreshold - IconW \/ s.x >= t.x + IconW - SnappingThreshold
  \/ s.y <= t.y + SnappingThreshold - IconH \/ s.y >= t.y + IconH - SnappingThreshold

\* From one coordinate to the side of the icon at the other.
ToSide(from, to, size) ==
  IF from < to THEN to - size - from ELSE IF from > to THEN to + size - from ELSE 0

CalculateSnapping(s, t) ==
  LET dx == ToSide(s.x, t.x, IconW)
      dy == ToSide(s.y, t.y, IconH)
  IN [x |-> IF dx # 0 /\ dy # 0 /\ Abs(dx) > Abs(dy) THEN 0 ELSE dx,
      y |-> IF dx # 0 /\ dy # 0 /\ Abs(dx) < Abs(dy) THEN 0 ELSE dy]

\* The smallest adjustment that is not 0, the first of equals; 0 if there is none.
Smallest(ds) ==
  LET is == {i \in DOMAIN ds : ds[i] # 0}
      least == {i \in is : \A j \in is : Abs(ds[i]) <= Abs(ds[j])}
  IN IF is = {} THEN 0 ELSE ds[Min(least)]

CombineAdjustments(ds) ==
  LET dx == Smallest([i \in DOMAIN ds |-> ds[i].x])
      dy == Smallest([i \in DOMAIN ds |-> ds[i].y])
      far == Abs(dx) > SnappingThreshold \/ Abs(dy) > SnappingThreshold
  IN [x |-> IF far /\ dx # 0 /\ dy # 0 /\ Abs(dx) > Abs(dy) THEN 0 ELSE dx,
      y |-> IF far /\ dx # 0 /\ dy # 0 /\ Abs(dx) < Abs(dy) THEN 0 ELSE dy]

SnapToOthers(a, i) ==
  LET others == RemoveAt(a.list, i)
      d == CombineAdjustments([j \in DOMAIN others |-> CalculateSnapping(a.list[i], others[j])])
  IN MoveModel(a, i, d.x, d.y)

CollideWithOthers(a, i) == {j \in DOMAIN a.list \ {i} : Overlap(a.list[i], a.list[j])}

AdjustModelSnaps(a, i, short) == Update(SnapToOthers(a, i), short)
\* A snap that ends on another icon is not undone but done again, and the icon set
\* against the box from there.
AdjustModel(a, i, short) ==
  LET s       == a.list[i]
      canSnap == Len(a.list) # 1 /\ \A j \in DOMAIN a.list \ {i} : TestSnapTo(s, a.list[j])
      snapped == SnapToOthers(a, i)
      again   == MoveModel(snapped, i, snapped.list[i].x - s.x, snapped.list[i].y - s.y)
      boxed   == RecalculateBoundingBox(IF canSnap THEN again ELSE a, DOMAIN a.list \ {i})
      old     == boxed.list[i]
      new     == CalculateNewPos(boxed, old)
      set     == [MoveModel(boxed, i, new.x - old.x, new.y - old.y)
                    EXCEPT !.refused = @ \/ NewPosRefused(boxed, old)]
  IN IF canSnap /\ CollideWithOthers(snapped, i) = {} THEN Update(snapped, short)
     ELSE Update(set, short)

NewScreen(id) == [id |-> id, x |-> -1, y |-> -1]

AddScreen(a, id, short) ==
  LET s == NewScreen(id) IN
  Update([a EXCEPT !.list = Append(@, CalculateNewPos(a, s)),
                   !.refused = @ \/ NewPosRefused(a, s)], short)

RemoveScreen(a, id, short) ==
  LET is == FindScreen(a.list, id) IN
  IF is = {} THEN a ELSE Update([a EXCEPT !.list = RemoveAt(@, Min(is))], short)

-----------------------------------------------------------------------------
(* ScreenManager, of which module Layout has the versions and locks *)

Short == [w : 0..1, h : 0..1]

Apart(list) == \A i, j \in DOMAIN list : i # j => ~Overlap(list[i], list[j])

\* What another computer may have made of the profile.
Layouts ==
  LET places(ids) == {p \in [ids -> Place] : \A i, j \in ids : i # j =>
                        ~Overlap([x |-> p[i][1], y |-> p[i][2]], [x |-> p[j][1], y |-> p[j][2]])}
  IN UNION {places(ids) : ids \in (SUBSET ScreenId) \ {{}}}

\* setScreenModel: the local screen is shown before anything is known.
ArrInit ==
  /\ arr = AddScreen([list |-> <<>>, box |-> [l |-> 0, t |-> 0, r |-> 0, b |-> 0],
                      view |-> [w |-> ViewW, h |-> ViewH], times |-> <<1, 1>>,
                      refused |-> FALSE], -1, [w |-> 0, h |-> 0])
  /\ gone = FALSE /\ arrUsed = [drops |-> 0, snapshots |-> 0]

\* A new UIScreen is at (-1, -1) and may refuse to leave it.
Seen(layout) ==
  [id \in DOMAIN layout |-> SetPos(NewScreen(id), layout[id][1], layout[id][2])]

\* The screens are taken off one by one.
RemoveScreens(a, ids, short) ==
  LET f[todo \in SUBSET ids] ==
        IF todo = {} THEN a ELSE RemoveScreen(f[todo \ {Min(todo)}], Min(todo), short)
  IN f[ids]

\* ScreenManager::updateScreens.  The websocket is shut down when the local screen is removed: no
\* snapshot follows.  A first snapshot without it has it added.
ShowSnapshot(layout) ==
  /\ ~gone /\ arrUsed.snapshots < MaxSnapshots
  /\ arrUsed' = [arrUsed EXCEPT !.snapshots = @ + 1]
  /\ \E short \in Short :
       LET known  == {arr.list[i].id : i \in DOMAIN arr.list} \ {-1}
           fewer  == RemoveScreens(arr, known \ DOMAIN layout, short)
           latest == [fewer EXCEPT !.list = UpdateScreenList(@, Seen(layout))]
           shown  == RemoveScreen(latest, -1, short)
       IN /\ arr' = IF arrUsed.snapshots = 0 /\ Local \notin DOMAIN layout
                    THEN AddScreen(shown, Local, short) ELSE shown
          /\ gone' = (Local \in known \ DOMAIN layout)

\* The user drags the icon; moveModel.
Drop(i, spot) ==
  /\ arrUsed.drops < MaxDrops /\ spot # <<arr.list[i].x, arr.list[i].y>>
  /\ arrUsed' = [arrUsed EXCEPT !.drops = @ + 1]
  /\ \E short \in Short :
       arr' = AdjustModel([arr EXCEPT !.list[i] = SetPos(@, spot[1], spot[2])], i, short)
  /\ UNCHANGED gone

\* removeScreenByIndex, which the menu offers for the others.
RemoveByUser(i) ==
  /\ arrUsed.drops < MaxDrops /\ arr.list[i].id \notin {-1, Local}
  /\ arrUsed' = [arrUsed EXCEPT !.drops = @ + 1]
  /\ \E short \in Short : arr' = RemoveScreen(arr, arr.list[i].id, short)
  /\ UNCHANGED gone

ArrNext ==
  \/ \E layout \in Layouts : ShowSnapshot(layout)
  \/ \E i \in DOMAIN arr.list : RemoveByUser(i) \/ \E spot \in Spot : Drop(i, spot)

-----------------------------------------------------------------------------
(* Properties *)

\* No icon covers another, whatever is dropped, added, removed and received in any
\* order, and whatever the view is scaled to; unless UIScreen refused a position that
\* the arrangement had computed, of which the arrangement is not told.
NoOverlap == ~arr.refused => Apart(arr.list)

\* The configuration that is written from the icons leads there and back: the cursor that
\* leaves a screen through an edge and turns around is on the screen it came from, at the
\* place where it left.
LinksMutual == Apart(arr.list) => Mutual(PrintConfig(arr.list))
=============================================================================
