----------------------------- MODULE ScreenList -----------------------------
(***************************************************************************)
(* The list of screens in the configuration window, ScreenListModel, as    *)
(* modules Layout and Arrangement have it: Layout with versions and locks, *)
(* Arrangement with positions.                                             *)
(***************************************************************************)
EXTENDS Integers, Sequences, FiniteSets

FindScreen(list, id) == {i \in DOMAIN list : list[i].id = id}

\* The numbers in S, least first.
Ascending(S) ==
  [k \in 1..Cardinality(S) |-> CHOOSE x \in S : Cardinality({y \in S : y <= x}) = k]

\* update: a screen that is in the list is replaced, another is added.
UpdateScreenList(list, latest) ==
  LET news == Ascending({id \in DOMAIN latest : FindScreen(list, id) = {}}) IN
  [i \in DOMAIN list |-> IF list[i].id \in DOMAIN latest THEN latest[list[i].id] ELSE list[i]]
    \o [i \in DOMAIN news |-> latest[news[i]]]
=============================================================================
