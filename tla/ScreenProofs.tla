---------------------------- MODULE ScreenProofs ----------------------------
(***************************************************************************)
(* Proofs about the screens of a profile, for any screens, windows, edits, *)
(* places and bounds: several windows that edit one layout come to show    *)
(* what the cloud has (Layout), the icons in a window do not cover each    *)
(* other (Arrangement), and the links of the core's configuration lead     *)
(* there and back (ConfigGen).                                             *)
(***************************************************************************)
EXTENDS Layout, Arrangement, SequenceTheorems, FiniteSetTheorems, WellFoundedInduction,
        TLAPS

-----------------------------------------------------------------------------
(* Layout: its types                                                       *)

\* A screen in the list of a window.
LayoutRow == [id : Screens \cup {-1}, pos : Nat, ver : Int, locked : BOOLEAN]

\* What the cloud keeps of a profile, and sends.
Placed == UNION {[D -> [pos : Nat, ver : Nat]] : D \in SUBSET Screens}
Profile == [version : Nat, at : Placed]

WindowState ==
  [list : Seq(LayoutRow), conf : Int, known : SUBSET Screens, drag : Nat, up : BOOLEAN]

LayoutTyped ==
  /\ win \in [Window -> WindowState]
  /\ online \in Profile
  /\ \A r \in requests : \A s \in DOMAIN r.pos : r.pos[s] \in Nat
  /\ snaps \in [Window -> Seq(Profile)]
  /\ disturbed \in [Window -> BOOLEAN]
  /\ layoutUsed \in [edits : 0..MaxLayoutEdits, drags : 0..MaxDrags]

-----------------------------------------------------------------------------
(* Lists of screens                                                        *)

\* Ascending lists the numbers of a finite set, each once.
LEMMA AscendingAll ==
  ASSUME NEW S \in SUBSET Nat, IsFiniteSet(S)
  PROVE  /\ Ascending(S) \in Seq(S)
         /\ \A x \in S : \E k \in 1..Len(Ascending(S)) : Ascending(S)[k] = x
         /\ \A j, k \in 1..Len(Ascending(S)) : Ascending(S)[j] = Ascending(S)[k] => j = k
<1> DEFINE n == Cardinality(S)
           below(x) == {y \in S : y <= x}
           rank == [x \in S |-> Cardinality(below(x))]
<1>1. n \in Nat
  BY FS_CardinalityType
<1>2. \A x \in S : /\ IsFiniteSet(below(x)) /\ rank[x] \in Nat /\ rank[x] <= n
                   /\ rank[x] # 0 /\ rank[x] = Cardinality(below(x))
  <2>1. SUFFICES ASSUME NEW x \in S
                 PROVE  /\ IsFiniteSet(below(x)) /\ rank[x] \in Nat /\ rank[x] <= n
                        /\ rank[x] # 0 /\ rank[x] = Cardinality(below(x))
    OBVIOUS
  <2>2. below(x) \in SUBSET S /\ x \in below(x) /\ rank[x] = Cardinality(below(x))
    OBVIOUS
  <2> HIDE DEF below, rank
  <2>3. IsFiniteSet(below(x)) /\ Cardinality(below(x)) <= n
    BY <2>2, FS_Subset
  <2>4. Cardinality(below(x)) \in Nat /\ Cardinality(below(x)) # 0
    BY <2>2, <2>3, FS_CardinalityType, FS_EmptySet
  <2>5. QED
    BY <2>2, <2>3, <2>4
<1>3. \A x, z \in S : x < z => rank[x] # rank[z]
  <2>1. SUFFICES ASSUME NEW x \in S, NEW z \in S, x < z, rank[x] = rank[z]
                 PROVE  FALSE
    OBVIOUS
  <2>2. below(x) \in SUBSET below(z)
    <3>1. \A y \in S : y <= x => y <= z
      BY <2>1
    <3>2. QED
      BY <3>1
  <2>3. z \in below(z) /\ z \notin below(x)
    BY <2>1
  <2> HIDE DEF below, rank
  <2>4. below(z) = below(x)
    BY <1>2, <2>1, <2>2, FS_Subset
  <2>5. QED
    BY <2>3, <2>4
<1>4. rank \in Injection(S, 1..n)
  <2>1. rank \in [S -> 1..n]
    BY <1>1, <1>2
  <2>2. \A x, z \in S : rank[x] = rank[z] => x = z
    <3>1. \A x, z \in S : x < z \/ z < x \/ x = z
      OBVIOUS
    <3> HIDE DEF rank
    <3>2. QED
      BY <1>3, <3>1
  <2> HIDE DEF rank
  <2>3. QED
    BY <2>1, <2>2 DEF Injection, IsInjective
<1>5. rank \in Surjection(S, 1..n)
  <2>1. IsFiniteSet(1..n) /\ Cardinality(1..n) = n
    BY <1>1, FS_Interval
  <2> HIDE DEF rank, n
  <2>2. QED
    BY <1>4, <2>1, FS_Injection DEF n
<1>6. \A k \in 1..n : \E x \in S : Cardinality({y \in S : y <= x}) = k
  <2>1. \A k \in 1..n : \E x \in S : rank[x] = k
    <3> HIDE DEF rank
    <3>1. QED
      BY <1>5 DEF Surjection
  <2>2. QED
    BY <2>1
<1>7. \A k \in 1..n : /\ Ascending(S)[k] \in S
                      /\ Cardinality({y \in S : y <= Ascending(S)[k]}) = k
  <2>1. \A k \in 1..n :
          Ascending(S)[k] = CHOOSE x \in S : Cardinality({y \in S : y <= x}) = k
    BY DEF Ascending
  <2>2. QED
    BY <1>6, <2>1
<1>8. Ascending(S) \in [1..n -> S]
  <2>1. Ascending(S) = [k \in 1..n |-> Ascending(S)[k]]
    BY DEF Ascending
  <2>2. QED
    BY <1>7, <2>1
<1>9. Ascending(S) \in Seq(S) /\ Len(Ascending(S)) = n
  <2> HIDE DEF n
  <2>1. QED
    BY <1>1, <1>8
<1>10. ASSUME NEW x \in S
       PROVE  \E k \in 1..n : Ascending(S)[k] = x
  <2>1. rank[x] \in 1..n
    BY <1>1, <1>2
  <2>2. rank[Ascending(S)[rank[x]]] = rank[x] /\ Ascending(S)[rank[x]] \in S
    BY <1>7, <2>1
  <2> HIDE DEF rank
  <2>3. Ascending(S)[rank[x]] = x
    BY <1>4, <2>2 DEF Injection, IsInjective
  <2>4. QED
    BY <2>1, <2>3
<1>11. \A j, k \in 1..n : Ascending(S)[j] = Ascending(S)[k] => j = k
  <2> HIDE DEF n
  <2>1. QED
    BY <1>7
<1>12. QED
  BY <1>9, <1>10, <1>11

\* A list of typed values is a sequence.
LEMMA ListOf ==
  ASSUME NEW n \in Nat, NEW S, NEW f, f = [k \in 1..n |-> f[k]], \A k \in 1..n : f[k] \in S
  PROVE  f \in Seq(S) /\ Len(f) = n /\ DOMAIN f = 1..n
OBVIOUS

\* removeScreen for some ids takes out their rows, and leaves the others.
LEMMA WithoutRows ==
  ASSUME NEW list \in Seq(LayoutRow), NEW ids
  PROVE  /\ Without(list, ids) \in Seq(LayoutRow)
         /\ \A k \in 1..Len(Without(list, ids)) :
              \E i \in 1..Len(list) : /\ Without(list, ids)[k] = list[i]
                                      /\ list[i].id \notin ids
         /\ \A i \in 1..Len(list) : list[i].id \notin ids =>
              \E k \in 1..Len(Without(list, ids)) : Without(list, ids)[k] = list[i]
<1> DEFINE S == {i \in DOMAIN list : list[i].id \notin ids}
           left == Ascending(S)
           W == Without(list, ids)
<1>1. DOMAIN list = 1..Len(list) /\ Len(list) \in Nat
  OBVIOUS
<1>2. S \in SUBSET Nat /\ IsFiniteSet(S)
  <2>1. IsFiniteSet(1..Len(list))
    BY <1>1, FS_Interval
  <2>2. S \in SUBSET (1..Len(list)) /\ S \in SUBSET Nat
    BY <1>1
  <2> HIDE DEF S
  <2>3. IsFiniteSet(S)
    BY <2>1, <2>2, FS_Subset
  <2>4. QED
    BY <2>2, <2>3
<1>3. left \in Seq(S) /\ \A i \in S : \E k \in 1..Len(left) : left[k] = i
  <2> HIDE DEF S
  <2>1. QED
    BY <1>2, AscendingAll
<1>4. W = [k \in DOMAIN left |-> list[left[k]]]
  BY DEF Without
<1> HIDE DEF left, W
<1>5. DOMAIN left = 1..Len(left) /\ Len(left) \in Nat /\ \A k \in 1..Len(left) : left[k] \in S
  BY <1>3
<1>6. \A k \in 1..Len(left) : W[k] = list[left[k]] /\ W[k] \in LayoutRow
  BY <1>1, <1>4, <1>5
<1>7. W \in Seq(LayoutRow) /\ Len(W) = Len(left)
  <2>1. W = [k \in 1..Len(left) |-> W[k]]
    BY <1>4, <1>5
  <2>2. QED
    BY <1>5, <1>6, <2>1, ListOf
<1>8. ASSUME NEW k \in 1..Len(W)
      PROVE  \E i \in 1..Len(list) : W[k] = list[i] /\ list[i].id \notin ids
  <2>1. W[k] = list[left[k]] /\ left[k] \in S
    BY <1>5, <1>6, <1>7
  <2>2. QED
    BY <1>1, <2>1
<1>9. ASSUME NEW i \in 1..Len(list), list[i].id \notin ids
      PROVE  \E k \in 1..Len(W) : W[k] = list[i]
  <2>1. i \in S
    BY <1>1, <1>9
  <2>2. PICK k \in 1..Len(left) : left[k] = i
    BY <1>3, <2>1
  <2>3. QED
    BY <1>6, <1>7, <2>2
<1>10. QED
  BY <1>7, <1>8, <1>9 DEF W

\* A list that was updated: every screen that was told of has its latest row, and the
\* others are as they were, and still there.
Updated(U, list, latest) ==
  /\ \A k \in 1..Len(U) :
       \/ \E i \in 1..Len(list) : U[k] = list[i] /\ list[i].id \notin DOMAIN latest
       \/ \E id \in DOMAIN latest : U[k] = latest[id]
  /\ \A id \in DOMAIN latest : \E k \in 1..Len(U) : U[k] = latest[id]
  /\ \A i \in 1..Len(list) : list[i].id \notin DOMAIN latest =>
       \E k \in 1..Len(U) : U[k] = list[i]

\* There is one row for a screen.
RowEach(list) == \A i, j \in 1..Len(list) : list[i].id = list[j].id => i = j

\* update updates a list, and a screen has no second row after it.
LEMMA UpdatedList ==
  ASSUME NEW R, NEW list \in Seq(R), NEW latest, DOMAIN latest \in SUBSET Nat,
         IsFiniteSet(DOMAIN latest), \A id \in DOMAIN latest : latest[id] \in R,
         NEW U, U = UpdateScreenList(list, latest)
  PROVE  /\ U \in Seq(R) /\ Updated(U, list, latest)
         /\ RowEach(list) /\ (\A id \in DOMAIN latest : latest[id].id = id) => RowEach(U)
<1> DEFINE S == {id \in DOMAIN latest : FindScreen(list, id) = {}}
           news == Ascending(S)
           old == [i \in DOMAIN list |->
                     IF list[i].id \in DOMAIN latest THEN latest[list[i].id] ELSE list[i]]
           add == [i \in DOMAIN news |-> latest[news[i]]]
<1>1. /\ DOMAIN list = 1..Len(list) /\ Len(list) \in Nat
      /\ \A i \in 1..Len(list) : list[i] \in R
  OBVIOUS
<1>2. S \in SUBSET Nat /\ IsFiniteSet(S)
  <2>1. S \in SUBSET DOMAIN latest
    OBVIOUS
  <2> HIDE DEF S
  <2>2. QED
    BY <2>1, FS_Subset
<1>3. /\ news \in Seq(S) /\ \A i \in S : \E k \in 1..Len(news) : news[k] = i
      /\ \A j, k \in 1..Len(news) : news[j] = news[k] => j = k
  <2> HIDE DEF S
  <2>1. QED
    BY <1>2, AscendingAll
<1>4. U = old \o add
  BY DEF UpdateScreenList
<1> HIDE DEF news
<1>5. DOMAIN news = 1..Len(news) /\ Len(news) \in Nat /\ \A k \in 1..Len(news) : news[k] \in S
  BY <1>3
<1>6. \A i \in 1..Len(list) :
        /\ old[i] = IF list[i].id \in DOMAIN latest THEN latest[list[i].id] ELSE list[i]
        /\ old[i] \in R
  BY <1>1
<1>7. \A k \in 1..Len(news) : add[k] = latest[news[k]] /\ news[k] \in DOMAIN latest
        /\ add[k] \in R
  BY <1>5
<1>8. old \in Seq(R) /\ Len(old) = Len(list)
  <2>1. old = [k \in 1..Len(list) |-> old[k]]
    BY <1>1
  <2> HIDE DEF old
  <2>2. QED
    BY <1>1, <1>6, <2>1, ListOf
<1>9. add \in Seq(R) /\ Len(add) = Len(news)
  <2>1. add = [k \in 1..Len(news) |-> add[k]]
    BY <1>5
  <2> HIDE DEF add
  <2>2. QED
    BY <1>5, <1>7, <2>1, ListOf
<1> HIDE DEF old, add
<1>10. /\ U \in Seq(R) /\ Len(U) = Len(list) + Len(news)
       /\ \A k \in 1..Len(U) : U[k] = IF k <= Len(list) THEN old[k] ELSE add[k - Len(list)]
  <2>1. /\ old \o add \in Seq(R) /\ Len(old \o add) = Len(old) + Len(add)
        /\ \A k \in 1..(Len(old) + Len(add)) :
             (old \o add)[k] = IF k <= Len(old) THEN old[k] ELSE add[k - Len(old)]
    BY <1>8, <1>9, ConcatProperties
  <2>2. /\ U \in Seq(R) /\ Len(U) = Len(old) + Len(add)
        /\ \A k \in 1..(Len(old) + Len(add)) :
             U[k] = IF k <= Len(old) THEN old[k] ELSE add[k - Len(old)]
    BY <1>4, <2>1, Zenon
  <2>3. Len(old) = Len(list) /\ Len(add) = Len(news)
    BY <1>8, <1>9
  <2>4. QED
    BY <2>2, <2>3, Zenon
<1>11. ASSUME NEW k \in 1..Len(U)
       PROVE  \/ \E i \in 1..Len(list) : U[k] = list[i] /\ list[i].id \notin DOMAIN latest
              \/ \E id \in DOMAIN latest : U[k] = latest[id]
  <2>1. CASE k <= Len(list)
    <3>1. k \in 1..Len(list)
      BY <1>1, <1>10, <2>1
    <3>2. U[k] = old[k]
      BY <1>10, <2>1, Zenon
    <3>3. QED
      BY <1>6, <3>1, <3>2
  <2>2. CASE ~(k <= Len(list))
    <3>1. k - Len(list) \in 1..Len(news)
      BY <1>1, <1>5, <1>10, <2>2
    <3>2. U[k] = add[k - Len(list)]
      BY <1>10, <2>2, Zenon
    <3>3. QED
      BY <1>7, <3>1, <3>2
  <2>3. QED
    BY <2>1, <2>2
<1>12. ASSUME NEW id \in DOMAIN latest
       PROVE  \E k \in 1..Len(U) : U[k] = latest[id]
  <2>1. CASE FindScreen(list, id) = {}
    <3>1. PICK k \in 1..Len(news) : news[k] = id
      BY <1>3, <2>1
    <3>2. /\ k + Len(list) \in 1..Len(U) /\ ~(k + Len(list) <= Len(list))
          /\ (k + Len(list)) - Len(list) = k
      BY <1>1, <1>5, <1>10
    <3>3. U[k + Len(list)] = latest[id]
      BY <1>7, <1>10, <3>1, <3>2
    <3>4. QED
      BY <3>2, <3>3
  <2>2. CASE FindScreen(list, id) # {}
    <3>1. PICK i \in 1..Len(list) : list[i].id = id
      BY <1>1, <2>2 DEF FindScreen
    <3>2. i \in 1..Len(U) /\ i <= Len(list)
      BY <1>1, <1>5, <1>10
    <3>3. QED
      BY <1>6, <1>10, <3>1, <3>2
  <2>3. QED
    BY <2>1, <2>2
<1>13. ASSUME RowEach(list), \A id \in DOMAIN latest : latest[id].id = id
       PROVE  RowEach(U)
  <2>1. \A k \in 1..Len(list) : U[k].id = list[k].id /\ k \in 1..Len(U)
    <3>1. \A k \in 1..Len(list) : U[k] = old[k] /\ k \in 1..Len(U)
      BY <1>1, <1>5, <1>10
    <3>2. \A k \in 1..Len(list) : old[k].id = list[k].id
      BY <1>6, <1>13
    <3>3. QED
      BY <3>1, <3>2
  <2>2. \A k \in 1..Len(U) : k \notin 1..Len(list) =>
          /\ k - Len(list) \in 1..Len(news) /\ U[k].id = news[k - Len(list)]
          /\ \A j \in 1..Len(list) : list[j].id # U[k].id
    <3>1. SUFFICES ASSUME NEW k \in 1..Len(U), k \notin 1..Len(list)
                   PROVE  /\ k - Len(list) \in 1..Len(news) /\ U[k].id = news[k - Len(list)]
                          /\ \A j \in 1..Len(list) : list[j].id # U[k].id
      OBVIOUS
    <3>2. k - Len(list) \in 1..Len(news) /\ U[k] = add[k - Len(list)]
      BY <1>1, <1>5, <1>10, <3>1
    <3>3. U[k].id = news[k - Len(list)] /\ news[k - Len(list)] \in S
      BY <1>5, <1>7, <1>13, <3>2
    <3>4. \A j \in 1..Len(list) : list[j].id # news[k - Len(list)]
      BY <1>1, <3>3 DEF FindScreen
    <3>5. QED
      BY <3>2, <3>3, <3>4
  <2>3. SUFFICES ASSUME NEW i \in 1..Len(U), NEW j \in 1..Len(U), U[i].id = U[j].id
                 PROVE  i = j
    BY DEF RowEach
  <2>4. CASE i \in 1..Len(list) /\ j \in 1..Len(list)
    BY <1>13, <2>1, <2>3, <2>4 DEF RowEach
  <2>5. CASE i \notin 1..Len(list) /\ j \notin 1..Len(list)
    <3> DEFINE m == i - Len(list)
               n == j - Len(list)
    <3>0. m \in 1..Len(news) /\ n \in 1..Len(news) /\ news[m] = news[n]
      BY <2>2, <2>3, <2>5
    <3> HIDE DEF m, n
    <3>1. m = n
      BY <1>3, <3>0
    <3>2. i \in Nat /\ j \in Nat /\ Len(list) \in Nat
      BY <1>1, <1>10
    <3>3. QED
      BY <3>1, <3>2 DEF m, n
  <2>6. QED
    BY <2>1, <2>2, <2>3, <2>4, <2>5
<1>14. ASSUME NEW i \in 1..Len(list), list[i].id \notin DOMAIN latest
       PROVE  \E k \in 1..Len(U) : U[k] = list[i]
  <2>1. i \in 1..Len(U) /\ i <= Len(list)
    BY <1>1, <1>5, <1>10
  <2>2. U[i] = old[i] /\ old[i] = list[i]
    BY <1>6, <1>10, <1>14, <2>1
  <2>3. QED
    BY <2>1, <2>2
<1>15. QED
  BY <1>10, <1>11, <1>12, <1>13, <1>14 DEF Updated

\* A list without its row i.
Skip(i, k) == IF k < i THEN k ELSE k + 1
TakenOut(L, list, i) ==
  \A k \in 1..Len(L) : Skip(i, k) \in 1..Len(list) /\ L[k] = list[Skip(i, k)]

\* The rest of a list when one is taken out.
LEMMA RemovedRow ==
  ASSUME NEW R, NEW list \in Seq(R), NEW i \in 1..Len(list), NEW L, L = RemoveAt(list, i)
  PROVE  L \in Seq(R) /\ Len(L) = Len(list) - 1 /\ TakenOut(L, list, i)
<1> DEFINE a == SubSeq(list, 1, i - 1)
           b == SubSeq(list, i + 1, Len(list))
<1>1. L = a \o b
  BY DEF RemoveAt
<1>2. a \in Seq(R) /\ Len(a) = i - 1 /\ \A k \in 1..Len(a) : a[k] = list[k]
  OBVIOUS
<1>3. b \in Seq(R) /\ Len(b) = Len(list) - i /\ \A k \in 1..Len(b) : b[k] = list[k + i]
  OBVIOUS
<1>4. i \in Nat /\ Len(list) \in Nat /\ 1 <= i /\ i <= Len(list)
  OBVIOUS
<1> HIDE DEF a, b
<1>5. /\ a \o b \in Seq(R) /\ Len(a \o b) = Len(a) + Len(b)
      /\ \A k \in 1..(Len(a) + Len(b)) : (a \o b)[k] = IF k <= Len(a) THEN a[k] ELSE b[k - Len(a)]
  BY <1>2, <1>3, ConcatProperties
<1>6. /\ L \in Seq(R) /\ Len(L) = Len(a) + Len(b)
      /\ \A k \in 1..(Len(a) + Len(b)) : L[k] = IF k <= Len(a) THEN a[k] ELSE b[k - Len(a)]
  BY <1>1, <1>5, Zenon
<1>7. Len(L) = Len(list) - 1
  BY <1>2, <1>3, <1>4, <1>6
<1>8. ASSUME NEW k \in 1..Len(L)
      PROVE  Skip(i, k) \in 1..Len(list) /\ L[k] = list[Skip(i, k)]
  <2>1. L[k] = IF k <= Len(a) THEN a[k] ELSE b[k - Len(a)]
    BY <1>6, Zenon
  <2>2. /\ k \in Nat /\ 1 <= k /\ k <= Len(list) - 1
        /\ Len(a) = i - 1 /\ Len(b) = Len(list) - i /\ i \in Nat /\ Len(list) \in Nat
    BY <1>2, <1>3, <1>4, <1>7
  <2>3. CASE k < i
    <3>1. k <= Len(a) /\ k \in 1..Len(a) /\ k \in 1..Len(list)
      BY <2>2, <2>3
    <3>2. L[k] = a[k] /\ a[k] = list[k]
      BY <1>2, <2>1, <3>1, Zenon
    <3>3. QED
      BY <2>3, <3>1, <3>2, Zenon DEF Skip
  <2>4. CASE ~(k < i)
    <3>1. ~(k <= Len(a)) /\ k + 1 \in 1..Len(list)
      BY <2>2, <2>4
    <3>2. k - Len(a) \in 1..Len(b) /\ (k - Len(a)) + i = k + 1
      BY <2>2, <2>4
    <3>3. L[k] = b[k - Len(a)]
      BY <2>1, <3>1, Zenon
    <3>4. b[k - Len(a)] = list[(k - Len(a)) + i]
      BY <1>3, <3>2, Zenon
    <3>5. L[k] = list[k + 1]
      BY <3>2, <3>3, <3>4, Zenon
    <3>6. QED
      BY <2>4, <3>1, <3>5, Zenon DEF Skip
  <2>5. QED
    BY <2>3, <2>4
<1>9. QED
  BY <1>6, <1>7, <1>8 DEF TakenOut

-----------------------------------------------------------------------------
(* The invariant, of window u: w is its state, q the snapshots under way to *)
(* it, on the profile in the cloud, late that a snapshot came in a drag     *)

\* The snapshots count up to the profile in the cloud, and end with it.  Only the first
\* of all may not know the window's own screen yet.
CountUp(u, w, q, on) ==
  \A k \in 1..Len(q) :
    /\ q[k].version = on.version - Len(q) + k
    /\ u \in DOMAIN q[k].at => (k = Len(q) => q[k] = on)
    /\ u \notin DOMAIN q[k].at => k = 1 /\ q[k].version = 0 /\ u \notin w.known

\* The version of a screen that is still there only grows.
Grow(q, on) ==
  /\ \A j, k \in 1..Len(q) : j < k =>
       \A s \in DOMAIN q[j].at : s \in DOMAIN q[k].at => q[j].at[s].ver <= q[k].at[s].ver
  /\ \A j \in 1..Len(q) :
       \A s \in DOMAIN q[j].at : s \in DOMAIN on.at => q[j].at[s].ver <= on.at[s].ver

\* A row is never ahead of what is to come.
Behind(r, q, on) ==
  /\ r.id \in DOMAIN on.at => r.ver <= on.at[r.id].ver
  /\ \A k \in 1..Len(q) : r.id \in DOMAIN q[k].at => r.ver <= q[k].at[r.id].ver

\* Rows are of screens that the window knows, or of the local one before it has an id.
\* Unless a snapshot came in a drag, only the row that is dragged is locked.
RowsFit(w, q, on, late) ==
  \A i \in 1..Len(w.list) :
    /\ Behind(w.list[i], q, on)
    /\ w.list[i].id \in w.known \cup {-1}
    /\ w.list[i].locked => late \/ i = w.drag

\* What the cloud has.
Laid(p) == {<<s, p.at[s].pos>> : s \in DOMAIN p.at}

\* The window has counted no less than it was sent; if it has no more to come and has
\* not counted further, it shows what the cloud has.
InTouch(w, q, on, late) ==
  /\ w.conf >= on.version - Len(q)
  /\ q = <<>> /\ ~late => w.conf > on.version \/ Shown(w) = Laid(on)

WindowFits(u, w, q, on, late) ==
  u \in DOMAIN on.at =>
    CountUp(u, w, q, on) /\ Grow(q, on) /\ RowsFit(w, q, on, late) /\ InTouch(w, q, on, late)

LayoutInv ==
  /\ LayoutTyped
  /\ \A u \in Window : WindowFits(u, win[u], snaps[u], online, disturbed[u])

-----------------------------------------------------------------------------
(* Steps of the layout                                                     *)

\* The first snapshot and the rest, for a window that is still in the profile.
LEMMA FirstSnapshot ==
  ASSUME NEW u, NEW w, NEW q \in Seq(Profile), NEW on \in Profile, q # <<>>,
         CountUp(u, w, q, on), Grow(q, on)
  PROVE  /\ Head(q) = q[1] /\ q[1] \in Profile /\ Len(q) \in Nat /\ 1 \in 1..Len(q)
         /\ Tail(q) \in Seq(Profile) /\ Len(Tail(q)) = Len(q) - 1
         /\ \A k \in 1..Len(Tail(q)) :
              Tail(q)[k] = q[k + 1] /\ k + 1 \in 1..Len(q) /\ k \in Nat
         /\ Head(q).version = on.version - Len(Tail(q))
         /\ \A x : CountUp(u, x, Tail(q), on)
         /\ Grow(Tail(q), on)
<1>1. /\ Head(q) = q[1] /\ q[1] \in Profile /\ Len(q) \in Nat /\ 1 \in 1..Len(q)
      /\ Tail(q) \in Seq(Profile) /\ Len(Tail(q)) = Len(q) - 1
      /\ \A k \in 1..Len(Tail(q)) :
           Tail(q)[k] = q[k + 1] /\ k + 1 \in 1..Len(q) /\ k \in Nat
  OBVIOUS
<1> DEFINE t == Tail(q)
<1> HIDE DEF t
<1>2. on.version \in Nat /\ q[1].version = on.version - Len(q) + 1
  <2>1. 1 \in 1..Len(q)
    BY <1>1
  <2>2. q[1].version = on.version - Len(q) + 1
    BY <2>1 DEF CountUp
  <2>3. QED
    BY <2>2 DEF Profile
<1>3. ASSUME NEW k \in 1..Len(t)
      PROVE  /\ t[k].version = on.version - Len(t) + k
             /\ u \in DOMAIN t[k].at /\ (k = Len(t) => t[k] = on)
  <2>1. t[k] = q[k + 1] /\ k + 1 \in 1..Len(q) /\ k + 1 # 1 /\ Len(t) = Len(q) - 1 /\ k \in Nat
    BY <1>1 DEF t
  <2>2. /\ q[k + 1].version = on.version - Len(q) + (k + 1)
        /\ u \in DOMAIN q[k + 1].at /\ (k + 1 = Len(q) => q[k + 1] = on)
    BY <2>1 DEF CountUp
  <2>3. on.version - Len(q) + (k + 1) = on.version - Len(t) + k
    BY <1>1, <1>2, <2>1
  <2>4. k = Len(t) => k + 1 = Len(q)
    BY <1>1, <2>1
  <2>5. QED
    BY <2>1, <2>2, <2>3, <2>4, Zenon
<1>4. \A x : CountUp(u, x, t, on)
  BY <1>3 DEF CountUp
<1>5. Grow(t, on)
  <2>1. ASSUME NEW j \in 1..Len(t), NEW k \in 1..Len(t), j < k,
               NEW s \in DOMAIN t[j].at, s \in DOMAIN t[k].at
        PROVE  t[j].at[s].ver <= t[k].at[s].ver
    <3>1. /\ t[j] = q[j + 1] /\ t[k] = q[k + 1] /\ j + 1 < k + 1
          /\ j + 1 \in 1..Len(q) /\ k + 1 \in 1..Len(q)
      BY <1>1, <2>1 DEF t
    <3>2. QED
      BY <2>1, <3>1 DEF Grow
  <2>2. ASSUME NEW j \in 1..Len(t), NEW s \in DOMAIN t[j].at, s \in DOMAIN on.at
        PROVE  t[j].at[s].ver <= on.at[s].ver
    <3>1. t[j] = q[j + 1] /\ j + 1 \in 1..Len(q)
      BY <1>1 DEF t
    <3>2. QED
      BY <2>2, <3>1 DEF Grow
  <2>3. QED
    BY <2>1, <2>2 DEF Grow
<1>6. Head(q).version = on.version - Len(t)
  <2>1. Len(t) = Len(q) - 1
    BY <1>1 DEF t
  <2>2. QED
    BY <1>1, <1>2, <2>1
<1>7. QED
  BY <1>1, <1>4, <1>5, <1>6 DEF t

\* What is in a list, in whatever order.
RowSet(list) == {list[i] : i \in 1..Len(list)}

\* WithoutRows, of what is in the lists.
LEMMA RowsWithout ==
  ASSUME NEW list \in Seq(LayoutRow), NEW ids
  PROVE  /\ Without(list, ids) \in Seq(LayoutRow)
         /\ \A r \in RowSet(Without(list, ids)) : r \in RowSet(list) /\ r.id \notin ids
         /\ \A r \in RowSet(list) : r.id \notin ids => r \in RowSet(Without(list, ids))
<1> DEFINE W == Without(list, ids)
<1>1. /\ W \in Seq(LayoutRow)
      /\ \A k \in 1..Len(W) : \E i \in 1..Len(list) : W[k] = list[i] /\ list[i].id \notin ids
      /\ \A i \in 1..Len(list) : list[i].id \notin ids => \E k \in 1..Len(W) : W[k] = list[i]
  BY WithoutRows
<1> HIDE DEF W
<1>2. ASSUME NEW r \in RowSet(W) PROVE r \in RowSet(list) /\ r.id \notin ids
  <2>1. PICK k \in 1..Len(W) : r = W[k]
    BY DEF RowSet
  <2>2. PICK i \in 1..Len(list) : W[k] = list[i] /\ list[i].id \notin ids
    BY <1>1
  <2>3. QED
    BY <2>1, <2>2 DEF RowSet
<1>3. ASSUME NEW r \in RowSet(list), r.id \notin ids PROVE r \in RowSet(W)
  <2>1. PICK i \in 1..Len(list) : r = list[i]
    BY DEF RowSet
  <2>2. PICK k \in 1..Len(W) : W[k] = list[i]
    BY <1>1, <1>3, <2>1
  <2>3. QED
    BY <2>1, <2>2 DEF RowSet
<1>4. QED
  BY <1>1, <1>2, <1>3 DEF W

\* What the rows are after a snapshot is applied: the latest of those that are not kept,
\* and rows that were there before and were not updated.
LEMMA SnapshotRows ==
  ASSUME NEW list \in Seq(LayoutRow), NEW latest, NEW removed,
         DOMAIN latest \in SUBSET Screens,
         \A id \in DOMAIN latest : latest[id] \in LayoutRow /\ latest[id].id = id,
         NEW shown, shown = Without(UpdateScreenList(Without(list, removed), latest), {-1})
  PROVE  /\ shown \in Seq(LayoutRow)
         /\ \A r \in RowSet(shown) :
              \/ r \in RowSet(list) /\ r.id \notin removed /\ r.id \notin DOMAIN latest /\ r.id # -1
              \/ \E id \in DOMAIN latest : r = latest[id]
         /\ \A id \in DOMAIN latest : latest[id] \in RowSet(shown)
<1> DEFINE first == Without(list, removed)
           updated == UpdateScreenList(first, latest)
<1>1. /\ first \in Seq(LayoutRow)
      /\ \A r \in RowSet(first) : r \in RowSet(list) /\ r.id \notin removed
  BY RowsWithout DEF first
<1> HIDE DEF first
<1>2. /\ updated \in Seq(LayoutRow)
      /\ \A r \in RowSet(updated) : \/ r \in RowSet(first) /\ r.id \notin DOMAIN latest
                                  \/ \E id \in DOMAIN latest : r = latest[id]
      /\ \A id \in DOMAIN latest : latest[id] \in RowSet(updated)
  <2>1. IsFiniteSet(DOMAIN latest) /\ DOMAIN latest \in SUBSET Nat
    <3>1. IsFiniteSet(Screens) /\ Screens \subseteq Nat
      BY LayoutAssumption DEF Screens
    <3>2. QED
      BY <3>1, FS_Subset
  <2>2. updated \in Seq(LayoutRow) /\ Updated(updated, first, latest)
    <3>1. first \in Seq(LayoutRow) /\ \A id \in DOMAIN latest : latest[id] \in LayoutRow
      BY <1>1
    <3>2. updated = UpdateScreenList(first, latest)
      OBVIOUS
    <3> HIDE DEF updated
    <3>3. QED
      BY <2>1, <3>1, <3>2, UpdatedList
  <2> HIDE DEF updated
  <2>3. ASSUME NEW r \in RowSet(updated)
        PROVE  \/ r \in RowSet(first) /\ r.id \notin DOMAIN latest
               \/ \E id \in DOMAIN latest : r = latest[id]
    <3>1. PICK k \in 1..Len(updated) : r = updated[k]
      BY DEF RowSet
    <3>2. CASE \E i \in 1..Len(first) : updated[k] = first[i] /\ first[i].id \notin DOMAIN latest
      <4>1. PICK i \in 1..Len(first) : updated[k] = first[i] /\ first[i].id \notin DOMAIN latest
        BY <3>2
      <4>2. QED
        BY <3>1, <4>1 DEF RowSet
    <3>3. CASE \E id \in DOMAIN latest : updated[k] = latest[id]
      BY <3>1, <3>3
    <3>4. QED
      BY <2>2, <3>2, <3>3 DEF Updated
  <2>4. ASSUME NEW id \in DOMAIN latest PROVE latest[id] \in RowSet(updated)
    <3>1. PICK k \in 1..Len(updated) : updated[k] = latest[id]
      BY <2>2 DEF Updated
    <3>2. QED
      BY <3>1 DEF RowSet
  <2>5. QED
    BY <2>2, <2>3, <2>4
<1> HIDE DEF updated
<1>3. shown = Without(updated, {-1})
  BY DEF updated, first
<1>4. /\ shown \in Seq(LayoutRow)
      /\ \A r \in RowSet(shown) : r \in RowSet(updated) /\ r.id # -1
      /\ \A r \in RowSet(updated) : r.id # -1 => r \in RowSet(shown)
  <2> DEFINE ids == {-1}
  <2> HIDE DEF ids
  <2>1. /\ Without(updated, ids) \in Seq(LayoutRow)
        /\ \A r \in RowSet(Without(updated, ids)) : r \in RowSet(updated) /\ r.id \notin ids
        /\ \A r \in RowSet(updated) : r.id \notin ids => r \in RowSet(Without(updated, ids))
    BY <1>2, RowsWithout
  <2>2. Without(updated, ids) = shown /\ \A x : x \in ids <=> x = -1
    BY <1>3 DEF ids
  <2>3. QED
    BY <2>1, <2>2
<1>5. \A id \in DOMAIN latest : latest[id] \in RowSet(shown)
  <2>1. -1 \notin Screens
    BY LayoutAssumption DEF Screens
  <2>2. QED
    BY <1>2, <1>4, <2>1
<1>6. QED
  BY <1>1, <1>2, <1>4, <1>5

\* A row at the end of a list.
LEMMA AppendedRow ==
  ASSUME NEW list \in Seq(LayoutRow), NEW x \in LayoutRow
  PROVE  Append(list, x) \in Seq(LayoutRow) /\ RowSet(Append(list, x)) = RowSet(list) \cup {x}
<1> DEFINE new == Append(list, x)
<1>1. /\ new \in Seq(LayoutRow) /\ Len(new) = Len(list) + 1 /\ Len(list) \in Nat
      /\ \A k \in 1..Len(list) : new[k] = list[k] /\ k \in 1..Len(new)
      /\ new[Len(list) + 1] = x
      /\ \A k \in 1..Len(new) : k \in 1..Len(list) \/ k = Len(list) + 1
  OBVIOUS
<1> HIDE DEF new
<1>2. \A k \in 1..Len(new) : new[k] \in RowSet(list) \cup {x}
  BY <1>1 DEF RowSet
<1>3. \A k \in 1..Len(list) : list[k] \in RowSet(new)
  BY <1>1 DEF RowSet
<1>4. x \in RowSet(new)
  BY <1>1 DEF RowSet
<1>5. RowSet(new) = RowSet(list) \cup {x}
  BY <1>2, <1>3, <1>4 DEF RowSet
<1>6. QED
  BY <1>1, <1>5 DEF new

\* What is shown is of the rows.
LEMMA ShownRows ==
  ASSUME NEW w, w.list \in Seq(LayoutRow)
  PROVE  Shown(w) = {<<r.id, r.pos>> : r \in RowSet(w.list)}
BY DEF Shown, RowSet

\* A set of natural numbers that is not empty has a least element.
LEMMA LeastIndex ==
  ASSUME NEW T, T \subseteq Nat, T # {}
  PROVE  Min(T) \in T
<1>1. PICK m \in T : \A n \in T : ~(<<n, m>> \in OpToRel(<, Nat))
  BY NatLessThanWellFounded, WFMin, Zenon
<1>2. ASSUME NEW n \in T PROVE m <= n
  <2>1. n < m => <<n, m>> \in OpToRel(<, Nat)
    BY DEF OpToRel
  <2>2. ~(n < m)
    BY <1>1, <2>1, Zenon
  <2>3. QED
    BY <2>2
<1>3. QED
  BY <1>2 DEF Min

\* A request has a position for each screen it is about.
LEMMA RequestTyped ==
  ASSUME NEW u, NEW w, w.list \in Seq(LayoutRow), NEW n
  PROVE  \A id \in DOMAIN Request(u, w, n).pos : Request(u, w, n).pos[id] \in Nat
<1> DEFINE ids == {w.list[i].id : i \in DOMAIN w.list}
<1>1. Request(u, w, n).pos = [id \in ids |-> w.list[Min(FindScreen(w.list, id))].pos]
  BY DEF Request
<1>2. ASSUME NEW id \in ids
      PROVE  w.list[Min(FindScreen(w.list, id))].pos \in Nat
  <2>1. FindScreen(w.list, id) \in SUBSET (1..Len(w.list)) /\ FindScreen(w.list, id) # {}
    BY DEF FindScreen
  <2>2. FindScreen(w.list, id) \subseteq Nat
    BY <2>1
  <2>3. Min(FindScreen(w.list, id)) \in 1..Len(w.list)
    BY <2>1, <2>2, LeastIndex
  <2> DEFINE i == Min(FindScreen(w.list, id))
  <2> HIDE DEF i
  <2>4. w.list[i] \in LayoutRow
    BY <2>3 DEF i
  <2>5. w.list[i].pos \in Nat
    BY <2>4 DEF LayoutRow
  <2>6. QED
    BY <2>5 DEF i
<1> HIDE DEF ids
<1>3. QED
  BY <1>1, <1>2

\* A window with a new list, and one that counts an edit.
LEMMA TypedWindow ==
  ASSUME NEW L, NEW K, NEW w \in [list : L, conf : Int, known : K, drag : Nat, up : BOOLEAN],
         NEW conf \in Int, NEW known \in K, NEW list \in L
  PROVE  [w EXCEPT !.conf = conf, !.known = known, !.list = list]
           \in [list : L, conf : Int, known : K, drag : Nat, up : BOOLEAN]
OBVIOUS

LEMMA CountingWindow ==
  ASSUME NEW L, NEW K, NEW w \in [list : L, conf : Int, known : K, drag : Nat, up : BOOLEAN],
         NEW x, x = [w EXCEPT !.conf = @ + 1]
  PROVE  /\ x \in [list : L, conf : Int, known : K, drag : Nat, up : BOOLEAN]
         /\ x.conf = w.conf + 1 /\ x.conf > w.conf
         /\ x.list = w.list /\ x.known = w.known /\ x.drag = w.drag
OBVIOUS

\* Rows by what they are, except for the index that is dragged.
LEMMA RowsFitAll ==
  ASSUME NEW w, NEW q, NEW on, NEW late, NEW list, w.list = list,
         \A r \in RowSet(list) : Behind(r, q, on) /\ r.id \in w.known \cup {-1},
         late \/ \A r \in RowSet(list) : ~r.locked
  PROVE  RowsFit(w, q, on, late)
BY DEF RowsFit, RowSet

\* A snapshot is applied, or is older than what the window has counted.
LEMMA SnapshotFits ==
  ASSUME LayoutInv, NEW u \in Window, UpdateScreens(u)
  PROVE  LayoutInv'
<1> DEFINE w == win[u]
           q == snaps[u]
           s == Head(q)
           kept == {id \in DOMAIN s.at : \E i \in FindScreen(w.list, id) :
                      w.list[i].locked \/ w.list[i].ver > s.at[id].ver}
           latest == [id \in DOMAIN s.at \ kept |-> Row(id, s.at[id].pos, s.at[id].ver)]
           adds == u \notin w.known /\ u \notin DOMAIN s.at
           ids == DOMAIN s.at \cup (IF adds THEN {u} ELSE {})
           shown == Without(UpdateScreenList(Without(w.list, w.known \ ids), latest), {-1})
           list == IF adds THEN Append(shown, Row(u, 0, -1)) ELSE shown
           new == [w EXCEPT !.conf = s.version, !.known = ids, !.list = list]
           t == Tail(q)
           late == disturbed[u] \/ w.drag # 0
<1>1. /\ w.up /\ q # <<>>
      /\ snaps' = [snaps EXCEPT ![u] = t]
      /\ disturbed' = [disturbed EXCEPT ![u] = late]
      /\ UNCHANGED <<online, layoutUsed>>
      /\ Older(w, s) => UNCHANGED <<win, requests>>
      /\ ~Older(w, s) /\ adds => /\ requests' = requests \cup {Request(u, new, 0)}
                                 /\ win' = [win EXCEPT ![u] = [new EXCEPT !.conf = @ + 1]]
      /\ ~Older(w, s) /\ ~adds => win' = [win EXCEPT ![u] = new] /\ UNCHANGED requests
  <2>1. /\ w.up /\ q # <<>>
        /\ snaps' = [snaps EXCEPT ![u] = t]
        /\ disturbed' = [disturbed EXCEPT ![u] = late]
        /\ UNCHANGED <<online, layoutUsed>>
    BY DEF UpdateScreens
  <2>2. Older(w, s) => UNCHANGED <<win, requests>>
    BY DEF UpdateScreens
  <2>3. ~Older(w, s) /\ adds => /\ requests' = requests \cup {Request(u, new, 0)}
                                /\ win' = [win EXCEPT ![u] = [new EXCEPT !.conf = @ + 1]]
    BY DEF UpdateScreens
  <2>4. ~Older(w, s) /\ ~adds => win' = [win EXCEPT ![u] = new] /\ UNCHANGED requests
    BY DEF UpdateScreens
  <2>5. QED
    BY <2>1, <2>2, <2>3, <2>4
<1>2. LayoutTyped
  BY DEF LayoutInv
<1> USE DEF WindowState
<1>3. /\ w \in WindowState
      /\ q \in Seq(Profile) /\ online \in Profile /\ disturbed[u] \in BOOLEAN
  BY <1>2 DEF LayoutTyped
<1>0. shown = Without(UpdateScreenList(Without(w.list, w.known \ ids), latest), {-1})
  OBVIOUS
<1>00. list = IF adds THEN Append(shown, Row(u, 0, -1)) ELSE shown
  OBVIOUS
<1> HIDE DEF shown, list
<1>4. s \in Profile /\ t \in Seq(Profile)
  <2> HIDE DEF q
  <2>1. QED
    BY <1>1, <1>3
<1> HIDE DEF w, q, s
<1>5. /\ s.version \in Nat /\ DOMAIN s.at \in SUBSET Screens
      /\ \A id \in DOMAIN s.at : s.at[id].pos \in Nat /\ s.at[id].ver \in Nat
  BY <1>4 DEF Profile, Placed
<1>6. /\ DOMAIN latest \in SUBSET DOMAIN s.at
      /\ \A id \in DOMAIN latest : /\ latest[id] = Row(id, s.at[id].pos, s.at[id].ver)
                                   /\ latest[id] \in LayoutRow
                                   /\ latest[id].id = id
                                   /\ latest[id].pos = s.at[id].pos
                                   /\ latest[id].ver = s.at[id].ver
                                   /\ ~latest[id].locked
      /\ DOMAIN latest = DOMAIN s.at \ kept
  <2> HIDE DEF kept
  <2>1. QED
    BY <1>5 DEF Row, LayoutRow
<1>7. /\ list \in Seq(LayoutRow)
      /\ \A r \in RowSet(list) :
           \/ r \in RowSet(w.list) /\ r.id \notin w.known \ ids /\ r.id \notin DOMAIN latest
                /\ r.id # -1
           \/ \E id \in DOMAIN latest : r = latest[id]
           \/ adds /\ r = Row(u, 0, -1)
      /\ \A id \in DOMAIN latest : latest[id] \in RowSet(list)
      /\ ~adds => list = shown
  <2> DEFINE removed == w.known \ ids
  <2>1. w.list \in Seq(LayoutRow) /\ DOMAIN latest \in SUBSET Screens
    BY <1>3, <1>5, <1>6
  <2>2. shown = Without(UpdateScreenList(Without(w.list, removed), latest), {-1})
    BY <1>0
  <2>3. \A id \in DOMAIN latest : latest[id] \in LayoutRow /\ latest[id].id = id
    BY <1>6
  <2> HIDE DEF latest, removed
  <2>4. /\ shown \in Seq(LayoutRow)
        /\ \A r \in RowSet(shown) :
             \/ r \in RowSet(w.list) /\ r.id \notin removed /\ r.id \notin DOMAIN latest
                  /\ r.id # -1
             \/ \E id \in DOMAIN latest : r = latest[id]
        /\ \A id \in DOMAIN latest : latest[id] \in RowSet(shown)
    BY <2>1, <2>2, <2>3, SnapshotRows
  <2>5. Row(u, 0, -1) \in LayoutRow
    BY DEF Row, LayoutRow, Screens
  <2>6. CASE adds
    BY <1>00, <2>4, <2>5, <2>6, AppendedRow DEF removed
  <2>7. CASE ~adds
    BY <1>00, <2>4, <2>7 DEF removed
  <2>8. QED
    BY <2>6, <2>7
<1>8. ids \in SUBSET Screens
  BY <1>5 DEF Screens
<1> HIDE DEF latest, kept
<1>9. /\ new.list = list /\ new.conf = s.version /\ new.known = ids
      /\ new.drag = w.drag /\ new.up = w.up
  <2> HIDE DEF ids
  <2>1. QED
    BY <1>3
<1>10. LayoutTyped'
  <2>1. new.list \in Seq(LayoutRow) /\ new.conf \in Int /\ new.known \in SUBSET Screens
    BY <1>5, <1>7, <1>8, <1>9
  <2>2. /\ new \in WindowState
        /\ [new EXCEPT !.conf = @ + 1] \in
              WindowState
    <3> HIDE DEF ids
    <3>1. new \in WindowState
      <4>1. s.version \in Int /\ ids \in SUBSET Screens /\ list \in Seq(LayoutRow)
        BY <1>5, <1>7, <1>8
      <4>2. QED
        BY <1>3, <4>1, TypedWindow, Zenon DEF WindowState
    <3> HIDE DEF new
    <3>2. QED
      BY <3>1
  <2> HIDE DEF new, ids, adds, t, late
  <2>3. win' \in [Window -> WindowState]
    BY <1>1, <1>2, <2>2 DEF LayoutTyped
  <2>4. snaps' \in [Window -> Seq(Profile)]
    BY <1>1, <1>2, <1>4 DEF LayoutTyped
  <2>5. late \in BOOLEAN
    BY <1>3 DEF late
  <2>6. disturbed' \in [Window -> BOOLEAN]
    BY <1>1, <1>2, <2>5 DEF LayoutTyped
  <2>7. \A r \in requests' : \A x \in DOMAIN r.pos : r.pos[x] \in Nat
    <3>1. \A x \in DOMAIN Request(u, new, 0).pos : Request(u, new, 0).pos[x] \in Nat
      BY <2>1, RequestTyped
    <3>2. requests' \subseteq requests \cup {Request(u, new, 0)}
      BY <1>1
    <3>3. QED
      BY <1>2, <3>1, <3>2 DEF LayoutTyped
  <2>8. QED
    BY <1>1, <1>2, <2>3, <2>4, <2>6, <2>7 DEF LayoutTyped
<1>11. ASSUME u \in DOMAIN online.at
       PROVE  WindowFits(u, win'[u], t, online, late)
  <2>1. /\ CountUp(u, w, q, online) /\ Grow(q, online)
        /\ RowsFit(w, q, online, disturbed[u]) /\ InTouch(w, q, online, disturbed[u])
    BY <1>11 DEF LayoutInv, WindowFits, w, q
  <2>2. /\ s = q[1] /\ Len(q) \in Nat /\ 1 \in 1..Len(q) /\ Len(t) = Len(q) - 1
        /\ \A k \in 1..Len(t) : t[k] = q[k + 1] /\ k + 1 \in 1..Len(q) /\ k \in Nat
        /\ s.version = online.version - Len(t)
        /\ Grow(t, online) /\ \A x : CountUp(u, x, t, online)
    <3>1. /\ Head(q) = q[1] /\ Len(q) \in Nat /\ 1 \in 1..Len(q)
          /\ Len(Tail(q)) = Len(q) - 1
          /\ \A k \in 1..Len(Tail(q)) :
               Tail(q)[k] = q[k + 1] /\ k + 1 \in 1..Len(q) /\ k \in Nat
          /\ Head(q).version = online.version - Len(Tail(q))
          /\ \A x : CountUp(u, x, Tail(q), online)
          /\ Grow(Tail(q), online)
      BY <1>1, <1>3, <2>1, FirstSnapshot
    <3>2. QED
      BY <3>1 DEF s
  <2>3. online.version \in Nat /\ w.conf \in Int /\ w.drag \in Nat /\ w.list \in Seq(LayoutRow)
        /\ w.known \in SUBSET Screens
    BY <1>3 DEF Profile
  <2>4. \A r \in RowSet(w.list) :
          Behind(r, q, online) /\ r.id \in w.known \cup {-1} /\ Behind(r, t, online)
    <3>1. \A r \in RowSet(w.list) : Behind(r, q, online) /\ r.id \in w.known \cup {-1}
      BY <2>1 DEF RowSet, RowsFit
    <3> HIDE DEF t
    <3>2. \A r : Behind(r, q, online) => Behind(r, t, online)
      BY <2>2 DEF Behind
    <3>3. QED
      BY <3>1, <3>2
  <2> HIDE DEF t
  <2>5. CASE Older(w, s)
    <3>1. win'[u] = w
      BY <1>1, <2>5 DEF w
    <3>2. RowsFit(w, t, online, late)
      BY <2>1, <2>4 DEF RowsFit, RowSet, late
    <3>3. InTouch(w, t, online, late)
      BY <2>2, <2>3, <2>5 DEF InTouch, Older
    <3>4. QED
      BY <2>2, <3>1, <3>2, <3>3 DEF WindowFits
  <2>6. CASE ~Older(w, s)
    <3> DEFINE x == win'[u]
    <3>1. /\ adds => x = [new EXCEPT !.conf = @ + 1]
          /\ ~adds => x = new
      BY <1>1, <1>2, <2>6 DEF LayoutTyped
    <3>2. /\ x.list = list /\ x.known = ids /\ x.drag = w.drag
          /\ x.conf = IF adds THEN s.version + 1 ELSE s.version
      <4> HIDE DEF ids, adds, x
      <4>1. CASE adds
        BY <1>3, <1>9, <3>1, <4>1
      <4>2. CASE ~adds
        BY <1>9, <3>1, <4>2
      <4>3. QED
        BY <4>1, <4>2
    <3> HIDE DEF x
    <3>3. \A r \in RowSet(list) : Behind(r, t, online) /\ r.id \in ids \cup {-1}
      <4>1. ASSUME NEW r \in RowSet(list) PROVE Behind(r, t, online) /\ r.id \in ids \cup {-1}
        <5>1. CASE r \in RowSet(w.list) /\ r.id \notin w.known \ ids
          BY <2>4, <5>1
        <5>2. CASE \E id \in DOMAIN latest : r = latest[id]
          <6>1. PICK id \in DOMAIN latest : r = latest[id]
            BY <5>2
          <6>2. r.id = id /\ r.ver = s.at[id].ver /\ id \in DOMAIN s.at
            BY <1>6, <6>1
          <6>3. id \in DOMAIN online.at => r.ver <= online.at[id].ver
            BY <2>1, <2>2, <6>2 DEF Grow
          <6>4. ASSUME NEW k \in 1..Len(t), id \in DOMAIN t[k].at
                PROVE  r.ver <= t[k].at[id].ver
            <7>1. t[k] = q[k + 1] /\ k + 1 \in 1..Len(q) /\ 1 < k + 1
              BY <2>2
            <7>2. QED
              BY <2>1, <2>2, <6>2, <6>4, <7>1 DEF Grow
          <6>5. QED
            BY <6>2, <6>3, <6>4 DEF Behind
        <5>3. CASE adds /\ r = Row(u, 0, -1)
          <6>1. r.id = u /\ r.ver = -1 /\ u \in ids
            BY <5>3 DEF Row
          <6>2. /\ \A id \in DOMAIN online.at : online.at[id].ver \in Nat
                /\ \A k \in 1..Len(t) : \A id \in DOMAIN t[k].at : t[k].at[id].ver \in Nat
            <7>1. ASSUME NEW p \in Profile
                  PROVE  \A id \in DOMAIN p.at : p.at[id].ver \in Nat
              BY DEF Profile, Placed
            <7>2. \A k \in 1..Len(t) : t[k] \in Profile
              BY <1>4
            <7>3. QED
              BY <1>3, <7>1, <7>2
          <6>3. QED
            BY <6>1, <6>2 DEF Behind
        <5>4. QED
          BY <1>7, <5>1, <5>2, <5>3
      <4>2. QED
        BY <4>1
    <3>4. late \/ \A i \in 1..Len(w.list) : ~w.list[i].locked
      BY <2>1, <2>3 DEF RowsFit, late
    <3>5. late \/ \A r \in RowSet(list) : ~r.locked
      <4>1. late \/ \A r \in RowSet(w.list) : ~r.locked
        BY <3>4 DEF RowSet
      <4>2. \A id \in DOMAIN latest : ~latest[id].locked
        BY <1>6
      <4>3. ~Row(u, 0, -1).locked
        BY DEF Row
      <4> HIDE DEF late
      <4>4. QED
        BY <1>7, <4>1, <4>2, <4>3
    <3>6. RowsFit(x, t, online, late)
      <4> HIDE DEF late, ids
      <4>1. QED
        BY <3>2, <3>3, <3>5, RowsFitAll
    <3>7. InTouch(x, t, online, late)
      <4>1. x.conf >= online.version - Len(t)
        BY <2>2, <2>3, <3>2
      <4>2. ASSUME t = <<>>, ~late
            PROVE  x.conf > online.version \/ Shown(x) = Laid(online)
        <5>1. Len(t) = 0 /\ Len(q) = 1 /\ s.version = online.version
          <6>1. Len(t) = 0
            BY <4>2
          <6>2. Len(q) \in Nat /\ Len(t) = Len(q) - 1 /\ s.version = online.version - Len(t)
            BY <2>2
          <6>3. s.version = online.version
            <7>1. \A a \in Nat : a - 0 = a
              OBVIOUS
            <7>2. s.version = online.version - 0
              BY <6>1, <6>2, Zenon
            <7>3. online.version \in Nat
              BY <2>3
            <7>4. QED
              BY <7>1, <7>2, <7>3, Zenon
          <6>4. Len(q) = 1
            BY <6>1, <6>2
          <6>5. QED
            BY <6>1, <6>3, <6>4
        <5>2. CASE adds
          BY <2>3, <3>2, <5>1, <5>2
        <5>3. CASE ~adds
          <6>1. u \in DOMAIN s.at /\ s = online
            BY <2>1, <2>2, <5>1, <5>3 DEF CountUp
          <6>2. kept = {}
            <7>1. ASSUME NEW id \in DOMAIN s.at, NEW i \in FindScreen(w.list, id)
                  PROVE  ~w.list[i].locked /\ ~(w.list[i].ver > s.at[id].ver)
              <8>1. i \in 1..Len(w.list) /\ w.list[i].id = id /\ w.list[i] \in LayoutRow
                BY <2>3 DEF FindScreen
              <8>2. w.list[i].ver <= online.at[id].ver
                BY <2>4, <6>1, <8>1 DEF RowSet, Behind
              <8>3. w.list[i].ver \in Int /\ online.at[id].ver \in Int
                BY <1>5, <6>1, <8>1 DEF LayoutRow
              <8>4. QED
                BY <3>4, <4>2, <6>1, <8>1, <8>2, <8>3
            <7>2. QED
              BY <7>1 DEF kept
          <6>3. DOMAIN latest = DOMAIN online.at /\ ids = DOMAIN online.at
            BY <1>6, <5>3, <6>1, <6>2
          <6>4. \A r \in RowSet(list) : \E id \in DOMAIN latest : r = latest[id]
            BY <1>7, <2>4, <5>3, <6>3
          <6>5. \A id \in DOMAIN latest : /\ latest[id] \in RowSet(list) /\ latest[id].id = id
                                          /\ latest[id].pos = online.at[id].pos
            BY <1>6, <1>7, <6>1
          <6>6. Shown(x) = {<<r.id, r.pos>> : r \in RowSet(list)}
            BY <1>7, <3>2, ShownRows
          <6>7. {<<r.id, r.pos>> : r \in RowSet(list)} = Laid(online)
            BY <6>3, <6>4, <6>5 DEF Laid
          <6>8. QED
            BY <6>6, <6>7
        <5>4. QED
          BY <5>2, <5>3
      <4>3. QED
        BY <4>1, <4>2 DEF InTouch
    <3>8. QED
      BY <2>2, <3>6, <3>7 DEF WindowFits, x
  <2>7. QED
    BY <2>5, <2>6
<1>12. \A v \in Window \ {u} : WindowFits(v, win'[v], snaps'[v], online', disturbed'[v])
  <2>1. \A v \in Window \ {u} : /\ win'[v] = win[v] /\ snaps'[v] = snaps[v]
                                /\ disturbed'[v] = disturbed[v]
    <3> HIDE DEF new, t, late, adds, s
    <3>1. QED
      BY <1>1, <1>2 DEF LayoutTyped
  <2>2. QED
    BY <1>1, <2>1 DEF LayoutInv
<1>13. snaps'[u] = t /\ disturbed'[u] = late /\ online' = online
  <2> HIDE DEF t, late
  <2>1. QED
    BY <1>1, <1>2 DEF LayoutTyped
<1>14. WindowFits(u, win'[u], snaps'[u], online', disturbed'[u])
  <2> HIDE DEF t, late
  <2>1. QED
    BY <1>11, <1>13 DEF WindowFits
<1>15. QED
  BY <1>10, <1>12, <1>14 DEF LayoutInv, LayoutTyped

\* What happens in a window: it may be edited and counts that, or rows change in what is
\* neither shown nor compared.
LEMMA WindowStep ==
  ASSUME LayoutInv, NEW u \in Window, win' \in [Window -> WindowState],
         \A v \in Window \ {u} : win'[v] = win[v],
         UNCHANGED <<online, snaps, disturbed>>,
         layoutUsed' \in [edits : 0..MaxLayoutEdits, drags : 0..MaxDrags],
         \A r \in requests' : \A s \in DOMAIN r.pos : r.pos[s] \in Nat,
         win'[u].known = win[u].known,
         \A i \in 1..Len(win'[u].list) : \E j \in 1..Len(win[u].list) :
           /\ win'[u].list[i].id = win[u].list[j].id
           /\ win'[u].list[i].ver = win[u].list[j].ver,
         u \in DOMAIN online.at =>
           \A i \in 1..Len(win'[u].list) :
             win'[u].list[i].locked => disturbed[u] \/ i = win'[u].drag,
         \/ win'[u].conf > win[u].conf
         \/ win'[u].conf = win[u].conf /\ Shown(win'[u]) = Shown(win[u])
  PROVE  LayoutInv'
<1> DEFINE w == win[u]
           x == win'[u]
           q == snaps[u]
           late == disturbed[u]
<1>1. LayoutTyped'
  BY DEF LayoutInv, LayoutTyped
<1>2. /\ w \in WindowState /\ x \in WindowState /\ online \in Profile /\ q \in Seq(Profile)
  BY DEF LayoutInv, LayoutTyped
<1>3. ASSUME u \in DOMAIN online.at
      PROVE  WindowFits(u, x, q, online, late)
  <2>1. /\ CountUp(u, w, q, online) /\ Grow(q, online)
        /\ RowsFit(w, q, online, late) /\ InTouch(w, q, online, late)
    BY <1>3 DEF LayoutInv, WindowFits
  <2>2. /\ w.conf \in Int /\ x.conf \in Int /\ online.version \in Nat /\ Len(q) \in Nat
        /\ x.known = w.known
    BY <1>2 DEF WindowState, Profile
  <2>3. \A i \in 1..Len(x.list) : \E j \in 1..Len(w.list) :
          x.list[i].id = w.list[j].id /\ x.list[i].ver = w.list[j].ver
    OBVIOUS
  <2>4. \A i \in 1..Len(x.list) : x.list[i].locked => late \/ i = x.drag
    BY <1>3
  <2>5. x.conf > w.conf \/ (x.conf = w.conf /\ Shown(x) = Shown(w))
    OBVIOUS
  <2> HIDE DEF w, x, q, late
  <2>6. CountUp(u, x, q, online)
    BY <2>1, <2>2 DEF CountUp
  <2>7. RowsFit(x, q, online, late)
    <3>1. ASSUME NEW i \in 1..Len(x.list)
          PROVE  Behind(x.list[i], q, online) /\ x.list[i].id \in x.known \cup {-1}
      <4>1. PICK j \in 1..Len(w.list) :
              x.list[i].id = w.list[j].id /\ x.list[i].ver = w.list[j].ver
        BY <2>3
      <4>2. Behind(w.list[j], q, online) /\ w.list[j].id \in w.known \cup {-1}
        BY <2>1 DEF RowsFit
      <4>3. QED
        BY <2>2, <4>1, <4>2 DEF Behind
    <3>2. QED
      BY <2>4, <3>1 DEF RowsFit
  <2>8. InTouch(x, q, online, late)
    <3>1. x.conf >= w.conf /\ w.conf >= online.version - Len(q)
      BY <2>1, <2>2, <2>5 DEF InTouch
    <3>2. x.conf >= online.version - Len(q)
      BY <2>2, <3>1
    <3>3. ASSUME q = <<>>, ~late
          PROVE  x.conf > online.version \/ Shown(x) = Laid(online)
      <4>1. Len(q) = 0
        BY <3>3
      <4>2. CASE x.conf > w.conf
        BY <2>2, <3>1, <4>1, <4>2
      <4>3. CASE x.conf = w.conf /\ Shown(x) = Shown(w)
        BY <2>1, <3>3, <4>3 DEF InTouch
      <4>4. QED
        BY <2>5, <4>2, <4>3
    <3>4. QED
      BY <3>2, <3>3 DEF InTouch
  <2>9. QED
    BY <2>1, <2>6, <2>7, <2>8 DEF WindowFits
<1>4. WindowFits(u, x, q, online, late)
  BY <1>3 DEF WindowFits
<1>5. \A v \in Window : WindowFits(v, win'[v], snaps'[v], online', disturbed'[v])
  BY <1>4 DEF LayoutInv
<1>6. QED
  BY <1>1, <1>5 DEF LayoutInv

\* A row of a list is changed.
LEMMA ChangedRow ==
  ASSUME NEW list \in Seq(LayoutRow), NEW i \in 1..Len(list), NEW r \in LayoutRow
  PROVE  /\ [list EXCEPT ![i] = r] \in Seq(LayoutRow)
         /\ Len([list EXCEPT ![i] = r]) = Len(list)
         /\ [list EXCEPT ![i] = r][i] = r
         /\ \A j \in 1..Len(list) : j # i => [list EXCEPT ![i] = r][j] = list[j]
OBVIOUS

\* What was used of the bounds stays typed.
LEMMA CountedTyped ==
  ASSUME LayoutTyped
  PROVE  /\ /\ layoutUsed.drags < MaxDrags
            /\ layoutUsed' = [layoutUsed EXCEPT !.drags = @ + 1]
            => layoutUsed' \in [edits : 0..MaxLayoutEdits, drags : 0..MaxDrags]
         /\ /\ layoutUsed.edits < MaxLayoutEdits
            /\ layoutUsed' = [layoutUsed EXCEPT !.edits = layoutUsed.edits + 1]
            => layoutUsed' \in [edits : 0..MaxLayoutEdits, drags : 0..MaxDrags]
         /\ layoutUsed.edits + 1 \in Nat
<1> DEFINE used == [edits : 0..MaxLayoutEdits, drags : 0..MaxDrags]
<1>1. /\ layoutUsed \in used
      /\ layoutUsed.edits \in 0..MaxLayoutEdits /\ layoutUsed.drags \in 0..MaxDrags
  BY DEF LayoutTyped
<1>2. MaxLayoutEdits \in Nat /\ MaxDrags \in Nat
  BY LayoutAssumption
<1>3. ASSUME layoutUsed.drags < MaxDrags
      PROVE  [layoutUsed EXCEPT !.drags = @ + 1] \in used
  <2>1. layoutUsed.drags + 1 \in 0..MaxDrags
    BY <1>1, <1>2, <1>3
  <2>2. QED
    BY <1>1, <2>1
<1>4. ASSUME layoutUsed.edits < MaxLayoutEdits
      PROVE  [layoutUsed EXCEPT !.edits = layoutUsed.edits + 1] \in used
  <2>1. layoutUsed.edits + 1 \in 0..MaxLayoutEdits
    BY <1>1, <1>2, <1>4
  <2>2. QED
    BY <1>1, <2>1
<1>5. layoutUsed.edits + 1 \in Nat
  BY <1>1
<1> HIDE DEF used
<1>6. QED
  BY <1>3, <1>4, <1>5 DEF used

\* The mouse goes down on an icon.
LEMMA LockFits ==
  ASSUME LayoutInv, NEW u \in Window, NEW i \in DOMAIN win[u].list, LockScreen(u, i)
  PROVE  LayoutInv'
<1> DEFINE w == win[u]
           r == [w.list[i] EXCEPT !.locked = TRUE]
           list == [w.list EXCEPT ![i] = r]
<1>1. LayoutTyped
  BY DEF LayoutInv
<1>2. w \in WindowState /\ w.list \in Seq(LayoutRow) /\ i \in 1..Len(w.list)
  BY <1>1 DEF LayoutTyped, WindowState
<1>3. w.list[i] \in LayoutRow
  BY <1>2
<1>4. r \in LayoutRow /\ r.id = w.list[i].id /\ r.ver = w.list[i].ver /\ r.pos = w.list[i].pos
  BY <1>3 DEF LayoutRow
<1>5. /\ list \in Seq(LayoutRow) /\ Len(list) = Len(w.list) /\ list[i] = r
      /\ \A j \in 1..Len(w.list) : j # i => list[j] = w.list[j]
  <2> HIDE DEF r, w
  <2>1. QED
    BY <1>2, <1>4, ChangedRow
<1>6. win' = [win EXCEPT ![u] = [w EXCEPT !.drag = i, !.list = list]]
  BY <1>1, <1>2 DEF LockScreen, LayoutTyped
<1>7. w.drag = 0 /\ UNCHANGED <<online, requests, snaps, disturbed>>
  BY DEF LockScreen
<1>8. layoutUsed' \in [edits : 0..MaxLayoutEdits, drags : 0..MaxDrags]
  BY <1>1, CountedTyped DEF LockScreen
<1> DEFINE x == [w EXCEPT !.drag = i, !.list = list]
<1>9. x \in WindowState /\ x.list = list /\ x.drag = i /\ x.conf = w.conf /\ x.known = w.known
  <2> HIDE DEF list, w
  <2>1. i \in Nat
    BY <1>2
  <2>2. QED
    BY <1>2, <1>5, <2>1 DEF WindowState
<1>10. win'[u] = x /\ win' \in [Window -> WindowState] /\ \A v \in Window \ {u} : win'[v] = win[v]
  <2> HIDE DEF x
  <2>1. QED
    BY <1>1, <1>6, <1>9 DEF LayoutTyped, x
<1>11. \A j \in 1..Len(list) : /\ list[j].id = w.list[j].id /\ list[j].ver = w.list[j].ver
                               /\ list[j].pos = w.list[j].pos
  <2> HIDE DEF list, r, w
  <2>1. QED
    BY <1>4, <1>5
<1>12. Shown(x) = Shown(w)
  <2> HIDE DEF list, w, x
  <2>1. DOMAIN list = 1..Len(list) /\ DOMAIN w.list = 1..Len(list)
    BY <1>2, <1>5
  <2>2. QED
    BY <1>9, <1>11, <2>1 DEF Shown
<1>13. u \in DOMAIN online.at => \A j \in 1..Len(list) : list[j].locked => disturbed[u] \/ j = i
  <2>1. SUFFICES ASSUME u \in DOMAIN online.at, NEW j \in 1..Len(list), list[j].locked, j # i
                 PROVE  disturbed[u]
    OBVIOUS
  <2>2. RowsFit(w, snaps[u], online, disturbed[u])
    BY <2>1 DEF LayoutInv, WindowFits
  <2> HIDE DEF list, r, w
  <2>3. w.list[j].locked /\ j \in 1..Len(w.list) /\ j # 0
    BY <1>5, <2>1
  <2>4. QED
    BY <1>7, <2>2, <2>3 DEF RowsFit
<1>14. QED
  <2> HIDE DEF list, x, r
  <2>1. \A q \in requests' : \A s \in DOMAIN q.pos : q.pos[s] \in Nat
    BY <1>1, <1>7 DEF LayoutTyped
  <2>2. QED
    BY <1>5, <1>7, <1>8, <1>9, <1>10, <1>11, <1>12, <1>13, <2>1, WindowStep

\* It goes up where it went down.
LEMMA ClickFits ==
  ASSUME LayoutInv, NEW u \in Window, Click(u)
  PROVE  LayoutInv'
<1> DEFINE w == win[u]
           list == [i \in DOMAIN w.list |-> [w.list[i] EXCEPT !.locked = @ /\ i # w.drag]]
           x == [w EXCEPT !.drag = 0, !.list = list]
<1>1. LayoutTyped
  BY DEF LayoutInv
<1>2. w \in WindowState /\ w.list \in Seq(LayoutRow) /\ DOMAIN w.list = 1..Len(w.list)
      /\ Len(w.list) \in Nat
  BY <1>1 DEF LayoutTyped, WindowState
<1>3. \A i \in 1..Len(w.list) :
        /\ list[i] \in LayoutRow /\ list[i].id = w.list[i].id /\ list[i].ver = w.list[i].ver
        /\ list[i].pos = w.list[i].pos
        /\ list[i].locked => w.list[i].locked /\ i # w.drag
  <2>1. SUFFICES ASSUME NEW i \in 1..Len(w.list)
                 PROVE  LET r == [w.list[i] EXCEPT !.locked = @ /\ i # w.drag] IN
                        /\ r \in LayoutRow /\ r.id = w.list[i].id /\ r.ver = w.list[i].ver
                        /\ r.pos = w.list[i].pos
                        /\ r.locked => w.list[i].locked /\ i # w.drag
    BY <1>2
  <2> DEFINE b == w.list[i].locked /\ i # w.drag
             r == [w.list[i] EXCEPT !.locked = b]
  <2>2. w.list[i] \in LayoutRow /\ b \in BOOLEAN
    BY <1>2
  <2> HIDE DEF w, b
  <2>3. /\ r \in LayoutRow /\ r.id = w.list[i].id /\ r.ver = w.list[i].ver
        /\ r.pos = w.list[i].pos /\ r.locked = b
    BY <2>2 DEF LayoutRow
  <2>4. QED
    BY <2>3 DEF b
<1>4. list \in Seq(LayoutRow) /\ Len(list) = Len(w.list) /\ DOMAIN list = 1..Len(w.list)
  <2>1. list = [i \in 1..Len(w.list) |-> list[i]]
    BY <1>2
  <2> HIDE DEF list, w
  <2>2. QED
    BY <1>2, <1>3, <2>1, ListOf
<1>5. win' = [win EXCEPT ![u] = x] /\ UNCHANGED <<online, requests, snaps, disturbed, layoutUsed>>
  BY <1>1, <1>2 DEF Click, LayoutTyped
<1>6. x \in WindowState /\ x.list = list /\ x.drag = 0 /\ x.conf = w.conf /\ x.known = w.known
  <2> HIDE DEF list, w
  <2>1. QED
    BY <1>2, <1>4 DEF WindowState
<1>7. win'[u] = x /\ win' \in [Window -> WindowState] /\ \A v \in Window \ {u} : win'[v] = win[v]
  <2> HIDE DEF x
  <2>1. QED
    BY <1>1, <1>5, <1>6 DEF LayoutTyped, x
<1>8. Shown(x) = Shown(w)
  <2> HIDE DEF list, w, x
  <2>1. DOMAIN w.list = 1..Len(w.list)
    BY <1>2
  <2>2. QED
    BY <1>3, <1>4, <1>6, <2>1 DEF Shown
<1>9. u \in DOMAIN online.at => \A j \in 1..Len(list) : list[j].locked => disturbed[u] \/ j = 0
  <2>1. SUFFICES ASSUME u \in DOMAIN online.at, NEW j \in 1..Len(list), list[j].locked
                 PROVE  disturbed[u]
    OBVIOUS
  <2>2. RowsFit(w, snaps[u], online, disturbed[u])
    BY <2>1 DEF LayoutInv, WindowFits
  <2> HIDE DEF list, w
  <2>3. QED
    BY <1>3, <1>4, <2>1, <2>2 DEF RowsFit
<1>10. QED
  <2> HIDE DEF list, x
  <2>1. \A q \in requests' : \A s \in DOMAIN q.pos : q.pos[s] \in Nat
    BY <1>1, <1>5 DEF LayoutTyped
  <2>2. layoutUsed' \in [edits : 0..MaxLayoutEdits, drags : 0..MaxDrags]
    BY <1>1, <1>5 DEF LayoutTyped
  <2>3. \A i \in 1..Len(list) : \E j \in 1..Len(w.list) :
          list[i].id = w.list[j].id /\ list[i].ver = w.list[j].ver
    <3> HIDE DEF w
    <3>1. QED
      BY <1>3, <1>4
  <2>4. QED
    BY <1>5, <1>6, <1>7, <1>8, <1>9, <2>1, <2>2, <2>3, WindowStep

\* The window crashes: nothing is shown any more.
LEMMA CrashFits ==
  ASSUME LayoutInv, NEW u \in Window, DropBeyond(u)
  PROVE  LayoutInv'
<1> DEFINE w == win[u]
           x == [w EXCEPT !.up = FALSE]
<1>1. LayoutTyped
  BY DEF LayoutInv
<1>2. w \in WindowState
  BY <1>1 DEF LayoutTyped
<1>3. win' = [win EXCEPT ![u] = x] /\ UNCHANGED <<online, requests, snaps, disturbed, layoutUsed>>
  <2>1. win' = [win EXCEPT ![u] = x]
    BY DEF DropBeyond
  <2>2. UNCHANGED <<online, requests, snaps, disturbed, layoutUsed>>
    BY DEF DropBeyond
  <2>3. QED
    BY <2>1, <2>2
<1>4. /\ x \in WindowState /\ x.list = w.list /\ x.drag = w.drag
      /\ x.conf = w.conf /\ x.known = w.known
  <2> HIDE DEF w
  <2>1. QED
    BY <1>2 DEF WindowState
<1>5. win'[u] = x /\ win' \in [Window -> WindowState] /\ \A v \in Window \ {u} : win'[v] = win[v]
  <2> HIDE DEF x
  <2>1. QED
    BY <1>1, <1>3, <1>4 DEF LayoutTyped, x
<1>6. u \in DOMAIN online.at =>
        \A j \in 1..Len(w.list) : w.list[j].locked => disturbed[u] \/ j = w.drag
  <2>1. SUFFICES ASSUME u \in DOMAIN online.at
                 PROVE  RowsFit(w, snaps[u], online, disturbed[u])
    BY DEF RowsFit
  <2>2. QED
    BY <2>1 DEF LayoutInv, WindowFits
<1> HIDE DEF x
<1>7. Shown(x) = Shown(w)
  <2> HIDE DEF w
  <2>1. DOMAIN x.list = DOMAIN w.list
    BY <1>4
  <2>2. QED
    BY <1>4, <2>1 DEF Shown
<1>8. QED
  <2>1. \A q \in requests' : \A s \in DOMAIN q.pos : q.pos[s] \in Nat
    BY <1>1, <1>3 DEF LayoutTyped
  <2>2. layoutUsed' \in [edits : 0..MaxLayoutEdits, drags : 0..MaxDrags]
    BY <1>1, <1>3 DEF LayoutTyped
  <2>3. \A i \in 1..Len(x.list) : \E j \in 1..Len(w.list) :
          x.list[i].id = w.list[j].id /\ x.list[i].ver = w.list[j].ver
    <3> HIDE DEF w
    <3>1. QED
      BY <1>4
  <2>4. u \in DOMAIN online.at =>
          \A i \in 1..Len(x.list) : x.list[i].locked => disturbed[u] \/ i = x.drag
    <3> HIDE DEF w
    <3>1. QED
      BY <1>4, <1>6
  <2>5. x.known = w.known /\ x.conf = w.conf
    BY <1>4
  <2>6. QED
    BY <1>3, <1>5, <1>7, <2>1, <2>2, <2>3, <2>4, <2>5, WindowStep

\* It goes up elsewhere: one row has moved, is unlocked, and the window counts the edit.
LEMMA MoveFits ==
  ASSUME LayoutInv, NEW u \in Window, MoveAndPost(u)
  PROVE  LayoutInv'
<1> DEFINE w == win[u]
           i == w.drag
           n == layoutUsed.edits + 1
           r == [w.list[i] EXCEPT !.pos = n, !.locked = FALSE]
           list == [w.list EXCEPT ![i] = r]
           moved == [w EXCEPT !.list = list, !.drag = 0]
           x == [moved EXCEPT !.conf = @ + 1]
<1>1. LayoutTyped
  BY DEF LayoutInv
<1>2. /\ w \in WindowState /\ w.list \in Seq(LayoutRow) /\ i \in 1..Len(w.list)
      /\ w.list[i] \in LayoutRow /\ w.conf \in Int
  BY <1>1 DEF LayoutTyped, WindowState, MoveAndPost
<1>3. n \in Nat /\ layoutUsed' \in [edits : 0..MaxLayoutEdits, drags : 0..MaxDrags]
  BY <1>1, CountedTyped DEF MoveAndPost
<1>4. r \in LayoutRow /\ r.id = w.list[i].id /\ r.ver = w.list[i].ver /\ ~r.locked
  <2> HIDE DEF w, n, i
  <2>1. QED
    BY <1>2, <1>3 DEF LayoutRow
<1>5. /\ list \in Seq(LayoutRow) /\ Len(list) = Len(w.list) /\ list[i] = r
      /\ \A j \in 1..Len(w.list) : j # i => list[j] = w.list[j]
  <2> HIDE DEF r, w, i
  <2>1. QED
    BY <1>2, <1>4, ChangedRow
<1>6. /\ UNCHANGED <<online, snaps, disturbed>>
      /\ requests' = requests \cup {Request(u, moved, n)}
      /\ win' = [win EXCEPT ![u] = x]
  BY DEF MoveAndPost
<1>7. moved \in WindowState /\ moved.list = list /\ moved.drag = 0 /\ moved.conf = w.conf
        /\ moved.known = w.known
  <2> HIDE DEF list, w
  <2>1. QED
    BY <1>2, <1>5 DEF WindowState
<1>8. x \in WindowState /\ x.list = list /\ x.drag = 0 /\ x.conf > w.conf /\ x.known = w.known
  <2>1. x = [moved EXCEPT !.conf = @ + 1] /\ moved \in WindowState
    BY <1>7
  <2> HIDE DEF moved, w, x
  <2>2. x \in WindowState /\ x.conf > moved.conf /\ x.list = moved.list /\ x.known = moved.known
          /\ x.drag = moved.drag
    BY <2>1, CountingWindow DEF WindowState
  <2>3. QED
    BY <1>7, <2>2
<1>9. win'[u] = x /\ win' \in [Window -> WindowState] /\ \A v \in Window \ {u} : win'[v] = win[v]
  <2> HIDE DEF x
  <2>1. QED
    BY <1>1, <1>6, <1>8 DEF LayoutTyped
<1>10. \A q \in requests' : \A s \in DOMAIN q.pos : q.pos[s] \in Nat
  <2> HIDE DEF moved, n
  <2>1. \A s \in DOMAIN Request(u, moved, n).pos : Request(u, moved, n).pos[s] \in Nat
    BY <1>5, <1>7, RequestTyped
  <2>2. QED
    BY <1>1, <1>6, <2>1 DEF LayoutTyped
<1>11. u \in DOMAIN online.at => \A j \in 1..Len(list) : list[j].locked => disturbed[u] \/ j = 0
  <2>1. SUFFICES ASSUME u \in DOMAIN online.at, NEW j \in 1..Len(list), list[j].locked
                 PROVE  disturbed[u]
    OBVIOUS
  <2>2. RowsFit(w, snaps[u], online, disturbed[u])
    BY <2>1 DEF LayoutInv, WindowFits
  <2>3. i = w.drag
    OBVIOUS
  <2> HIDE DEF list, r, w, i
  <2>4. w.list[j].locked /\ j \in 1..Len(w.list) /\ j # i
    BY <1>4, <1>5, <2>1
  <2>5. QED
    BY <2>2, <2>3, <2>4 DEF RowsFit
<1>12. \A j \in 1..Len(list) : \E k \in 1..Len(w.list) :
         list[j].id = w.list[k].id /\ list[j].ver = w.list[k].ver
  <2> HIDE DEF list, r, w, i
  <2>1. QED
    BY <1>4, <1>5
<1>13. QED
  <2> HIDE DEF list, x, r, moved, n, i
  <2>1. QED
    BY <1>3, <1>6, <1>8, <1>9, <1>10, <1>11, <1>12, WindowStep

\* A screen is removed, with nothing dragged, and the window counts the edit.
LEMMA RemoveFits ==
  ASSUME LayoutInv, NEW u \in Window, NEW i \in DOMAIN win[u].list, RemoveAndNotify(u, i)
  PROVE  LayoutInv'
<1> DEFINE w == win[u]
           n == layoutUsed.edits + 1
           list == RemoveAt(w.list, i)
           count == w.conf + 1
           x == [w EXCEPT !.list = list, !.conf = count]
           req == [from |-> u, version |-> w.conf, n |-> n, gone |-> w.list[i].id, pos |-> <<>>]
<1>1. LayoutTyped
  BY DEF LayoutInv
<1>2. w \in WindowState /\ w.list \in Seq(LayoutRow) /\ i \in 1..Len(w.list) /\ w.conf \in Int
  BY <1>1 DEF LayoutTyped, WindowState
<1>3. layoutUsed' \in [edits : 0..MaxLayoutEdits, drags : 0..MaxDrags]
  BY <1>1, CountedTyped DEF RemoveAndNotify
<1>4. /\ w.drag = 0 /\ UNCHANGED <<online, snaps, disturbed>>
      /\ requests' = requests \cup {req}
  BY DEF RemoveAndNotify
<1>5. win' = [win EXCEPT ![u] = x]
  <2>1. win' = [win EXCEPT ![u].list = RemoveAt(@, i), ![u].conf = @ + 1]
    BY DEF RemoveAndNotify
  <2>2. QED
    BY <1>1, <1>2, <2>1 DEF LayoutTyped, WindowState
<1>6. /\ list \in Seq(LayoutRow)
      /\ \A k \in 1..Len(list) : \E j \in 1..Len(w.list) : list[k] = w.list[j]
  <2>1. list = RemoveAt(w.list, i)
    OBVIOUS
  <2> HIDE DEF list, w
  <2>2. list \in Seq(LayoutRow) /\ TakenOut(list, w.list, i)
    BY <1>2, <2>1, RemovedRow
  <2>3. \A k \in 1..Len(list) : \E j \in 1..Len(w.list) : list[k] = w.list[j]
    BY <2>2, Zenon DEF TakenOut
  <2>4. QED
    BY <2>2, <2>3
<1>7. x \in WindowState /\ x.list = list /\ x.drag = w.drag /\ x.conf > w.conf /\ x.known = w.known
  <2>1. count \in Int /\ count > w.conf
    BY <1>2
  <2>2. list \in Seq(LayoutRow)
    BY <1>6
  <2> HIDE DEF list, w, count
  <2>3. QED
    BY <1>2, <2>1, <2>2 DEF WindowState
<1>8. win'[u] = x /\ win' \in [Window -> WindowState] /\ \A v \in Window \ {u} : win'[v] = win[v]
  <2> HIDE DEF x
  <2>1. QED
    BY <1>1, <1>5, <1>7 DEF LayoutTyped
<1>9. \A q \in requests' : \A s \in DOMAIN q.pos : q.pos[s] \in Nat
  <2>1. req.pos = <<>> /\ DOMAIN <<>> = {}
    OBVIOUS
  <2> HIDE DEF req
  <2>2. QED
    BY <1>1, <1>4, <2>1 DEF LayoutTyped
<1>10. u \in DOMAIN online.at =>
         \A k \in 1..Len(list) : list[k].locked => disturbed[u] \/ k = w.drag
  <2>1. SUFFICES ASSUME u \in DOMAIN online.at, NEW k \in 1..Len(list), list[k].locked
                 PROVE  disturbed[u]
    OBVIOUS
  <2>2. RowsFit(w, snaps[u], online, disturbed[u])
    BY <2>1 DEF LayoutInv, WindowFits
  <2> HIDE DEF list, w
  <2>3. PICK j \in 1..Len(w.list) : list[k] = w.list[j]
    BY <1>6
  <2>4. QED
    BY <1>4, <2>1, <2>2, <2>3 DEF RowsFit
<1>11. \A k \in 1..Len(list) : \E j \in 1..Len(w.list) :
         list[k].id = w.list[j].id /\ list[k].ver = w.list[j].ver
  <2> HIDE DEF list, w
  <2>1. QED
    BY <1>6
<1>12. QED
  <2> HIDE DEF list, x, req, n
  <2>1. QED
    BY <1>3, <1>4, <1>7, <1>8, <1>9, <1>10, <1>11, WindowStep

\* A request fails.
LEMMA FailureFits ==
  ASSUME LayoutInv, NEW r, RequestFails(r)
  PROVE  LayoutInv'
<1>1. UNCHANGED <<win, online, snaps, disturbed, layoutUsed>> /\ requests' \subseteq requests
  BY DEF RequestFails
<1>2. LayoutTyped'
  BY <1>1 DEF LayoutInv, LayoutTyped
<1>3. QED
  BY <1>1, <1>2 DEF LayoutInv

\* The cloud takes an edit: each computer that is in the profile is sent the new one.
LEMMA CloudFits ==
  ASSUME LayoutInv, NEW r \in requests, CloudTakes(r)
  PROVE  LayoutInv'
<1> DEFINE D == DOMAIN online.at \ {r.gone}
           at == [s \in D |->
                    IF s \in DOMAIN r.pos /\ r.pos[s] # online.at[s].pos
                    THEN [pos |-> r.pos[s], ver |-> online.at[s].ver + 1] ELSE online.at[s]]
           new == [version |-> online.version + 1, at |-> at]
<1>1. LayoutTyped /\ online \in Profile /\ \A s \in DOMAIN r.pos : r.pos[s] \in Nat
  BY DEF LayoutInv, LayoutTyped
<1>2. /\ online.version \in Nat /\ DOMAIN online.at \in SUBSET Screens
      /\ \A s \in DOMAIN online.at :
           online.at[s] \in [pos : Nat, ver : Nat] /\ online.at[s].ver \in Nat
  BY <1>1 DEF Profile, Placed
<1>3. /\ online' = new /\ requests' \subseteq requests /\ UNCHANGED <<win, disturbed, layoutUsed>>
      /\ snaps' = [u \in Window |->
                     IF u \in DOMAIN online.at THEN Append(snaps[u], new) ELSE snaps[u]]
  BY DEF CloudTakes
<1>4. /\ D \in SUBSET Screens /\ DOMAIN at = D
      /\ \A s \in D : /\ at[s] \in [pos : Nat, ver : Nat] /\ s \in DOMAIN online.at
                      /\ at[s].ver \in Nat /\ online.at[s].ver <= at[s].ver
  <2>1. D \in SUBSET Screens /\ DOMAIN at = D
    BY <1>2
  <2>2. ASSUME NEW s \in D
        PROVE  /\ at[s] \in [pos : Nat, ver : Nat] /\ s \in DOMAIN online.at
               /\ at[s].ver \in Nat /\ online.at[s].ver <= at[s].ver
    <3>1. s \in DOMAIN online.at
      OBVIOUS
    <3>2. CASE s \in DOMAIN r.pos /\ r.pos[s] # online.at[s].pos
      <4>1. at[s] = [pos |-> r.pos[s], ver |-> online.at[s].ver + 1]
        BY <3>2
      <4>2. r.pos[s] \in Nat /\ online.at[s].ver \in Nat
        BY <1>1, <1>2, <3>1, <3>2
      <4> HIDE DEF at
      <4>3. QED
        BY <3>1, <4>1, <4>2
    <3>3. CASE ~(s \in DOMAIN r.pos /\ r.pos[s] # online.at[s].pos)
      <4>1. at[s] = online.at[s]
        BY <3>3
      <4> HIDE DEF at
      <4>2. QED
        BY <1>2, <3>1, <4>1
    <3>4. QED
      BY <3>2, <3>3
  <2>3. QED
    BY <2>1, <2>2
<1>5. at \in Placed
  <2>1. at = [s \in D |-> at[s]]
    OBVIOUS
  <2> HIDE DEF at, D
  <2>2. at \in [D -> [pos : Nat, ver : Nat]]
    BY <1>4, <2>1
  <2>3. QED
    BY <1>4, <2>2 DEF Placed
<1>6. new \in Profile /\ new.version = online.version + 1 /\ new.at = at
  <2> HIDE DEF at
  <2>1. QED
    BY <1>2, <1>5 DEF Profile
<1> HIDE DEF new, at, D
<1>7. LayoutTyped'
  <2>1. snaps' \in [Window -> Seq(Profile)]
    <3>1. \A u \in Window : snaps[u] \in Seq(Profile)
      BY <1>1 DEF LayoutTyped
    <3>2. \A u \in Window : Append(snaps[u], new) \in Seq(Profile)
      BY <1>6, <3>1
    <3>3. QED
      BY <1>3, <3>1, <3>2
  <2>2. QED
    BY <1>1, <1>3, <1>6, <2>1 DEF LayoutTyped
<1>8. ASSUME NEW u \in Window
      PROVE  WindowFits(u, win[u], snaps'[u], new, disturbed[u])
  <2>1. SUFFICES ASSUME u \in DOMAIN new.at
                 PROVE  /\ CountUp(u, win[u], snaps'[u], new) /\ Grow(snaps'[u], new)
                        /\ RowsFit(win[u], snaps'[u], new, disturbed[u])
                        /\ InTouch(win[u], snaps'[u], new, disturbed[u])
    BY DEF WindowFits
  <2> DEFINE w == win[u]
             q == snaps[u]
             p == Append(q, new)
             late == disturbed[u]
  <2>2. u \in DOMAIN online.at
    BY <1>4, <1>6, <2>1
  <2>3. snaps'[u] = p
    BY <1>3, <2>2
  <2>4. /\ CountUp(u, w, q, online) /\ Grow(q, online)
        /\ RowsFit(w, q, online, late) /\ InTouch(w, q, online, late)
    BY <2>2 DEF LayoutInv, WindowFits
  <2>5. q \in Seq(Profile) /\ w.conf \in Int /\ w.list \in Seq(LayoutRow)
    BY <1>1 DEF LayoutTyped, WindowState
  <2> HIDE DEF w, q, late
  <2>6. /\ Len(p) = Len(q) + 1 /\ Len(q) \in Nat /\ p[Len(q) + 1] = new /\ p # <<>>
        /\ \A k \in 1..Len(q) : p[k] = q[k] /\ k # Len(p) /\ k \in 1..Len(p)
        /\ \A k \in 1..Len(p) : k \in 1..Len(q) \/ k = Len(p)
    <3>1. Len(q) \in Nat /\ Len(p) = Len(q) + 1 /\ p[Len(q) + 1] = new
          /\ \A k \in 1..Len(q) : p[k] = q[k]
      BY <1>6, <2>5
    <3>2. p # <<>>
      BY <1>6, <2>5
    <3> HIDE DEF p
    <3>3. QED
      BY <3>1, <3>2
  <2> HIDE DEF p
  <2>7. \A s \in DOMAIN new.at : /\ s \in DOMAIN online.at
                                 /\ online.at[s].ver <= new.at[s].ver
                                 /\ online.at[s].ver \in Nat /\ new.at[s].ver \in Nat
    BY <1>2, <1>4, <1>6
  <2>8. \A k \in 1..Len(q) : \A s \in DOMAIN q[k].at : q[k].at[s].ver \in Nat
    <3>1. ASSUME NEW x \in Profile PROVE \A s \in DOMAIN x.at : x.at[s].ver \in Nat
      BY DEF Profile, Placed
    <3>2. QED
      BY <2>5, <3>1
  <2>9. CountUp(u, w, p, new)
    <3>1. ASSUME NEW k \in 1..Len(p)
          PROVE  /\ p[k].version = new.version - Len(p) + k
                 /\ u \in DOMAIN p[k].at => (k = Len(p) => p[k] = new)
                 /\ u \notin DOMAIN p[k].at => k = 1 /\ p[k].version = 0 /\ u \notin w.known
      <4>1. CASE k \in 1..Len(q)
        <5>1. /\ p[k] = q[k] /\ q[k].version = online.version - Len(q) + k /\ k # Len(p)
              /\ u \notin DOMAIN q[k].at => k = 1 /\ q[k].version = 0 /\ u \notin w.known
          BY <2>4, <2>6, <4>1 DEF CountUp
        <5>2. online.version - Len(q) + k = new.version - Len(p) + k
          BY <1>2, <1>6, <2>6
        <5>3. QED
          BY <5>1, <5>2
      <4>2. CASE k = Len(p)
        <5>1. p[k] = new /\ new.version = new.version - Len(p) + k
          BY <1>2, <1>6, <2>6, <4>2
        <5>2. QED
          BY <2>1, <5>1
      <4>3. QED
        BY <2>6, <4>1, <4>2
    <3>2. QED
      BY <3>1 DEF CountUp
  <2>10. ASSUME NEW k \in 1..Len(p)
         PROVE  \A s \in DOMAIN p[k].at : s \in DOMAIN new.at => p[k].at[s].ver <= new.at[s].ver
    <3>1. ASSUME NEW s \in DOMAIN p[k].at, s \in DOMAIN new.at
          PROVE  p[k].at[s].ver <= new.at[s].ver
      <4>1. CASE k \in 1..Len(q)
        <5>1. /\ p[k] = q[k] /\ q[k].at[s].ver \in Nat
              /\ q[k].at[s].ver <= online.at[s].ver
          BY <2>4, <2>6, <2>7, <2>8, <3>1, <4>1 DEF Grow
        <5>2. QED
          BY <2>7, <3>1, <5>1
      <4>2. CASE k = Len(p)
        BY <2>6, <2>7, <3>1, <4>2
      <4>3. QED
        BY <2>6, <4>1, <4>2
    <3>2. QED
      BY <3>1
  <2>11. Grow(p, new)
    <3>1. ASSUME NEW j \in 1..Len(p), NEW k \in 1..Len(p), j < k,
                 NEW s \in DOMAIN p[j].at, s \in DOMAIN p[k].at
          PROVE  p[j].at[s].ver <= p[k].at[s].ver
      <4>1. j \in 1..Len(q)
        BY <2>6, <3>1
      <4>2. CASE k \in 1..Len(q)
        <5>1. p[j] = q[j] /\ p[k] = q[k]
          BY <2>6, <4>1, <4>2
        <5>2. QED
          BY <2>4, <3>1, <4>1, <4>2, <5>1 DEF Grow
      <4>3. CASE k = Len(p)
        BY <2>6, <2>10, <3>1, <4>3
      <4>4. QED
        BY <2>6, <4>2, <4>3
    <3>2. QED
      BY <2>10, <3>1 DEF Grow
  <2>12. RowsFit(w, p, new, late)
    <3>1. ASSUME NEW i \in 1..Len(w.list)
          PROVE  Behind(w.list[i], p, new)
      <4> DEFINE x == w.list[i]
      <4>1. x \in LayoutRow /\ Behind(x, q, online)
        BY <2>4, <2>5 DEF RowsFit
      <4> HIDE DEF x
      <4>2. x.ver \in Int
        BY <4>1 DEF LayoutRow
      <4>3. x.id \in DOMAIN new.at => x.ver <= new.at[x.id].ver
        BY <2>7, <4>1, <4>2 DEF Behind
      <4>4. ASSUME NEW k \in 1..Len(p), x.id \in DOMAIN p[k].at
            PROVE  x.ver <= p[k].at[x.id].ver
        <5>1. CASE k \in 1..Len(q)
          BY <2>6, <4>1, <4>4, <5>1 DEF Behind
        <5>2. CASE k = Len(p)
          BY <2>6, <4>3, <4>4, <5>2
        <5>3. QED
          BY <2>6, <5>1, <5>2
      <4>5. QED
        BY <4>3, <4>4 DEF Behind, x
    <3>2. QED
      BY <2>4, <3>1 DEF RowsFit
  <2>13. InTouch(w, p, new, late)
    BY <1>2, <1>6, <2>4, <2>5, <2>6 DEF InTouch
  <2>14. QED
    BY <2>3, <2>9, <2>11, <2>12, <2>13 DEF w, late
<1>9. QED
  BY <1>3, <1>7, <1>8 DEF LayoutInv

\* No window shows anything but itself; each has one snapshot to come.
LEMMA LayoutStarts ==
  ASSUME LayoutInit
  PROVE  LayoutInv
<1> DEFINE row == Row(-1, 0, -1)
           none == [s \in Screens |-> [pos |-> 0, ver |-> 0]]
           fresh == [list |-> <<row>>, conf |-> -1, known |-> {}, drag |-> 0, up |-> TRUE]
<1>1. PICK late \in SUBSET Window :
        snaps = [u \in Window |->
                   <<[online EXCEPT !.at = [s \in Screens \ ({u} \cap late) |-> @[s]]]>>]
  BY DEF LayoutInit
<1> DEFINE first(u) == [online EXCEPT !.at = [s \in Screens \ ({u} \cap late) |-> none[s]]]
<1>2. /\ win = [u \in Window |-> fresh] /\ online = [version |-> 0, at |-> none]
      /\ requests = {} /\ disturbed = [u \in Window |-> FALSE]
      /\ layoutUsed = [edits |-> 0, drags |-> 0]
  BY DEF LayoutInit
<1>3. row \in LayoutRow /\ row.id = -1 /\ row.ver = -1 /\ row.locked = FALSE
  BY DEF Row, LayoutRow
<1>4. none \in Placed /\ DOMAIN none = Screens /\ \A s \in Screens : none[s].ver = 0
  BY DEF Placed
<1> HIDE DEF row, none
<1>5. online \in Profile /\ online.version = 0 /\ online.at = none
  BY <1>2, <1>4 DEF Profile
<1>6. fresh \in WindowState /\ fresh.list = <<row>> /\ fresh.conf = -1 /\ fresh.known = {}
        /\ fresh.drag = 0
  BY <1>3 DEF WindowState
<1>7. ASSUME NEW u \in Window
      PROVE  /\ first(u) \in Profile /\ first(u).version = 0
             /\ DOMAIN first(u).at = Screens \ ({u} \cap late)
             /\ \A s \in DOMAIN first(u).at : first(u).at[s].ver = 0
             /\ u \in DOMAIN first(u).at => first(u) = online
             /\ snaps[u] = <<first(u)>>
  <2> DEFINE f == [s \in Screens \ ({u} \cap late) |-> none[s]]
  <2>1. /\ f \in Placed /\ DOMAIN f = Screens \ ({u} \cap late)
        /\ \A s \in DOMAIN f : f[s].ver = 0
    <3> DEFINE left == Screens \ ({u} \cap late)
    <3>1. left \in SUBSET Screens /\ \A s \in left : none[s] \in [pos : Nat, ver : Nat]
      BY <1>4 DEF none
    <3> HIDE DEF left
    <3>2. [s \in left |-> none[s]] \in [left -> [pos : Nat, ver : Nat]]
      BY <3>1
    <3>3. [s \in left |-> none[s]] \in Placed
      BY <3>1, <3>2 DEF Placed
    <3>4. QED
      BY <1>4, <3>3 DEF left
  <2>2. u \in DOMAIN f => f = none
    <3>1. none = [s \in Screens |-> none[s]]
      BY DEF none
    <3>2. u \in DOMAIN f => Screens \ ({u} \cap late) = Screens
      OBVIOUS
    <3>3. QED
      BY <3>1, <3>2
  <2>3. snaps[u] = <<first(u)>>
    BY <1>1, <1>5
  <2>4. first(u) = [online EXCEPT !.at = f]
    OBVIOUS
  <2> HIDE DEF f, first
  <2>5. /\ first(u) \in Profile /\ first(u).version = 0 /\ first(u).at = f
        /\ f = none => first(u) = online
    BY <1>2, <1>5, <2>1, <2>4 DEF Profile
  <2>6. QED
    BY <2>1, <2>2, <2>3, <2>5
<1> HIDE DEF fresh, first
<1>8. LayoutTyped
  <2>1. win \in [Window -> WindowState]
    BY <1>2, <1>6
  <2>2. snaps \in [Window -> Seq(Profile)]
    <3>1. \A u \in Window : snaps[u] \in Seq(Profile)
      <4>1. \A x \in Profile : <<x>> \in Seq(Profile)
        OBVIOUS
      <4>2. QED
        BY <1>7, <4>1
    <3>2. snaps = [u \in Window |-> snaps[u]]
      BY <1>1
    <3>3. QED
      BY <3>1, <3>2
  <2>3. layoutUsed \in [edits : 0..MaxLayoutEdits, drags : 0..MaxDrags]
    BY <1>2, LayoutAssumption
  <2>4. QED
    BY <1>2, <1>5, <2>1, <2>2, <2>3 DEF LayoutTyped
<1>9. ASSUME NEW u \in Window
      PROVE  WindowFits(u, win[u], snaps[u], online, disturbed[u])
  <2> DEFINE w == fresh
             q == <<first(u)>>
  <2>1. win[u] = w /\ snaps[u] = q /\ disturbed[u] = FALSE
    BY <1>2, <1>7
  <2>2. Len(q) = 1 /\ q[1] = first(u) /\ q # <<>> /\ \A k \in 1..1 : k = 1
    OBVIOUS
  <2> HIDE DEF q
  <2>3. CountUp(u, w, q, online)
    <3>1. first(u).version = online.version - 1 + 1
      BY <1>5, <1>7
    <3>2. QED
      BY <1>6, <1>7, <2>2, <3>1 DEF CountUp
  <2>4. Grow(q, online)
    <3>1. ASSUME NEW s \in DOMAIN first(u).at, s \in DOMAIN online.at
          PROVE  first(u).at[s].ver <= online.at[s].ver
      BY <1>4, <1>5, <1>7, <3>1
    <3>2. QED
      BY <2>2, <3>1 DEF Grow
  <2>5. RowsFit(w, q, online, FALSE)
    <3>1. Len(w.list) = 1 /\ w.list[1] = row
      BY <1>6
    <3>2. -1 \notin Screens
      BY LayoutAssumption DEF Screens
    <3>3. Behind(row, q, online)
      BY <1>3, <1>4, <1>5, <1>7, <2>2, <3>2 DEF Behind
    <3>4. \A k \in 1..Len(w.list) : w.list[k] = row
      BY <3>1
    <3>5. QED
      BY <1>3, <3>3, <3>4 DEF RowsFit
  <2>6. InTouch(w, q, online, FALSE)
    BY <1>5, <1>6, <2>2 DEF InTouch
  <2>7. QED
    BY <2>1, <2>3, <2>4, <2>5, <2>6 DEF WindowFits
<1>10. QED
  BY <1>8, <1>9 DEF LayoutInv

\* Every step keeps the invariant.
LEMMA LayoutSteps ==
  ASSUME LayoutInv, [LayoutNext]_layoutVars
  PROVE  LayoutInv'
<1>1. CASE UNCHANGED layoutVars
  BY <1>1 DEF layoutVars, LayoutInv, LayoutTyped
<1>2. CASE \E r \in requests : CloudTakes(r) \/ RequestFails(r)
  BY <1>2, CloudFits, FailureFits
<1>3. ASSUME NEW u \in Window,
             \/ UpdateScreens(u) \/ DropBeyond(u) \/ Click(u) \/ MoveAndPost(u)
             \/ \E i \in DOMAIN win[u].list : LockScreen(u, i) \/ RemoveAndNotify(u, i)
      PROVE  LayoutInv'
  BY <1>3, SnapshotFits, CrashFits, ClickFits, MoveFits, LockFits, RemoveFits
<1>4. QED
  BY <1>1, <1>2, <1>3 DEF LayoutNext

\* The snapshots of every window that is still in the profile count up to it, no row is
\* ahead of them, and a window in touch shows what the cloud has.
THEOREM LayoutHolds == LayoutInit /\ [][LayoutNext]_layoutVars => []LayoutInv
<1>1. LayoutInit => LayoutInv
  BY LayoutStarts
<1>2. LayoutInv /\ [LayoutNext]_layoutVars => LayoutInv'
  BY LayoutSteps
<1>3. QED
  BY <1>1, <1>2, PTL

\* The state stays typed.
THEOREM LayoutTypes == LayoutInit /\ [][LayoutNext]_layoutVars => []LayoutTypeOK
<1>1. LayoutInv => LayoutTypeOK
  <2>1. SUFFICES ASSUME LayoutInv PROVE LayoutTypeOK
    OBVIOUS
  <2>2. ASSUME NEW u \in Window
        PROVE  /\ \A i \in DOMAIN win[u].list : win[u].list[i].id \in Screens \cup {-1}
               /\ win[u].conf \in Int /\ win[u].known \subseteq Screens
               /\ win[u].drag \in Nat /\ win[u].up \in BOOLEAN
    <3>1. win[u] \in WindowState
      BY <2>1 DEF LayoutInv, LayoutTyped
    <3>2. \A i \in DOMAIN win[u].list : win[u].list[i] \in LayoutRow
      BY <3>1 DEF WindowState
    <3>3. QED
      BY <3>1, <3>2 DEF WindowState, LayoutRow
  <2>3. DOMAIN online.at \subseteq Screens /\ online.version \in Nat
    BY <2>1 DEF LayoutInv, LayoutTyped, Profile, Placed
  <2>4. QED
    BY <2>1, <2>2, <2>3 DEF LayoutTypeOK, LayoutInv, LayoutTyped
<1>2. QED
  BY <1>1, LayoutHolds, PTL

\* Any number of windows, screens and edits: once every request and snapshot has arrived,
\* a window shows the layout of the cloud, unless it has counted edits that the cloud did
\* not take or a snapshot reached it in a drag.
THEOREM LayoutAgrees == LayoutInit /\ [][LayoutNext]_layoutVars => []WindowsAgree
<1>1. LayoutInv => WindowsAgree
  <2>1. SUFFICES ASSUME LayoutInv, NEW u \in Window, snaps[u] = <<>>, u \in DOMAIN online.at
                 PROVE  \/ win[u].conf > online.version
                        \/ disturbed[u]
                        \/ Shown(win[u]) = {<<s, online.at[s].pos>> : s \in DOMAIN online.at}
    BY DEF WindowsAgree
  <2>2. InTouch(win[u], snaps[u], online, disturbed[u])
    BY <2>1 DEF LayoutInv, WindowFits
  <2>3. QED
    BY <2>1, <2>2 DEF InTouch, Laid
<1>2. QED
  BY <1>1, LayoutHolds, PTL

-----------------------------------------------------------------------------
(* Arrangement: boxes and views                                            *)

\* A set of integers that is bounded below has a least element, one that is bounded
\* above a greatest.
LEMMA LeastOf ==
  ASSUME NEW S \in SUBSET Int, S # {}, NEW b \in Int, \A x \in S : b <= x
  PROVE  Min(S) \in S /\ \A x \in S : Min(S) <= x
<1> DEFINE T == {n \in Nat : n + b \in S}
<1>1. T \subseteq Nat /\ T # {}
  <2>1. PICK x \in S : TRUE
    OBVIOUS
  <2>2. x - b \in Nat /\ (x - b) + b = x
    OBVIOUS
  <2>3. x - b \in T
    BY <2>2
  <2>4. QED
    BY <2>3
<1>2. Min(T) \in T
  <2> HIDE DEF T
  <2>1. QED
    BY <1>1, LeastIndex
<1>3. \A n \in T : Min(T) <= n
  <2>1. PICK m \in T : \A n \in T : ~(<<n, m>> \in OpToRel(<, Nat))
    <3> HIDE DEF T
    <3>1. QED
      BY <1>1, NatLessThanWellFounded, WFMin, Zenon
  <2>2. ASSUME NEW n \in T PROVE m <= n
    <3>1. n < m => <<n, m>> \in OpToRel(<, Nat)
      BY DEF OpToRel
    <3>2. ~(n < m)
      BY <2>1, <3>1, Zenon
    <3>3. QED
      BY <3>2
  <2> HIDE DEF T
  <2>3. QED
    BY <2>2 DEF Min
<1>4. \E m \in S : \A x \in S : m <= x
  <2>1. Min(T) + b \in S /\ Min(T) \in Nat
    BY <1>2
  <2>2. ASSUME NEW x \in S PROVE Min(T) + b <= x
    <3>1. x - b \in Nat /\ (x - b) + b = x
      OBVIOUS
    <3>2. x - b \in T
      BY <3>1
    <3>3. Min(T) <= x - b
      BY <1>3, <3>2
    <3> HIDE DEF T
    <3>4. QED
      BY <2>1, <3>1, <3>3
  <2> HIDE DEF T
  <2>3. QED
    BY <2>1, <2>2
<1>5. QED
  BY <1>4 DEF Min

LEMMA MostOf ==
  ASSUME NEW S \in SUBSET Int, S # {}, NEW b \in Int, \A x \in S : x <= b
  PROVE  Max(S) \in S /\ \A x \in S : x <= Max(S)
<1> DEFINE T == {n \in Int : -n \in S}
<1>1. T \in SUBSET Int /\ -b \in Int /\ \A n \in T : -b <= n
  OBVIOUS
<1>2. T # {}
  <2>1. PICK x \in S : TRUE
    OBVIOUS
  <2>2. -x \in Int /\ -(-x) = x
    OBVIOUS
  <2>3. -x \in T
    BY <2>2
  <2>4. QED
    BY <2>3
<1>3. Min(T) \in T /\ \A n \in T : Min(T) <= n
  <2> HIDE DEF T
  <2>1. QED
    BY <1>1, <1>2, LeastOf
<1>4. -Min(T) \in S
  BY <1>3
<1>5. ASSUME NEW x \in S PROVE x <= -Min(T)
  <2>1. -x \in Int /\ -(-x) = x
    OBVIOUS
  <2>2. -x \in T
    BY <2>1
  <2>3. Min(T) <= -x /\ Min(T) \in Int
    BY <1>1, <1>3, <2>2
  <2> HIDE DEF T
  <2>4. QED
    BY <2>3
<1>6. QED
  <2> HIDE DEF T
  <2>1. \E m \in S : \A x \in S : m >= x
    BY <1>4, <1>5
  <2>2. QED
    BY <2>1 DEF Max

\* Of two.
LEMMA OfTwo ==
  ASSUME NEW m \in Int, NEW n \in Int
  PROVE  /\ Max({m, n}) = IF m >= n THEN m ELSE n
         /\ Min({m, n}) = IF m <= n THEN m ELSE n
<1>1. Max({m, n}) = IF m >= n THEN m ELSE n
  <2>1. \E x \in {m, n} : \A y \in {m, n} : x >= y
    OBVIOUS
  <2>2. Max({m, n}) \in {m, n} /\ \A y \in {m, n} : Max({m, n}) >= y
    BY <2>1 DEF Max
  <2>3. QED
    BY <2>2
<1>2. Min({m, n}) = IF m <= n THEN m ELSE n
  <2>1. \E x \in {m, n} : \A y \in {m, n} : x <= y
    OBVIOUS
  <2>2. Min({m, n}) \in {m, n} /\ \A y \in {m, n} : Min({m, n}) <= y
    BY <2>1 DEF Min
  <2>3. QED
    BY <2>2
<1>3. QED
  BY <1>1, <1>2

LEMMA HalfOf ==
  ASSUME NEW s \in Int
  PROVE  Half(s) \in Int /\ s - 1 <= 2 * Half(s) /\ 2 * Half(s) <= s + 1
BY DEF Half

\* The arithmetic of AdjustToCenter along one axis: the box from l to r is moved by d to
\* the middle of a view of v, and cut to it; the icons are moved by s.
IsCut(l, r, v, d, kl, kr, s) ==
  /\ d = v \div 2 - Half(r + l) /\ kl = Max({l + d, 0}) /\ kr = Min({r + d, v})
  /\ s = d + (kl - (l + d)) + (kr - (r + d))

\* An icon in the box is still in the cut box, unless that reaches the side of the view.
CutFits(l, r, kl, kr, s, size, least) ==
  /\ kl < kr
  /\ \A x \in Int : l <= x /\ x + size <= r =>
       /\ kl <= x + s \/ kl <= 0
       /\ x + s + size <= kr \/ kr >= least

LEMMA CutTyped ==
  ASSUME NEW l \in Int, NEW r \in Int, NEW v \in Int,
         NEW d, NEW kl, NEW kr, NEW s, IsCut(l, r, v, d, kl, kr, s)
  PROVE  /\ d \in Int /\ kl \in Int /\ kr \in Int /\ s \in Int
         /\ IF l + d >= 0 THEN kl = l + d ELSE kl = 0
         /\ IF r + d <= v THEN kr = r + d ELSE kr = v
         /\ s = d + (kl - (l + d)) + (kr - (r + d))
         /\ l + r + 2 * d <= v + 1 /\ v - 2 <= l + r + 2 * d
         /\ v % 2 = 0 => v - 1 <= l + r + 2 * d
<1>1. PICK m \in Int : m = r + l
  OBVIOUS
<1>2. Half(m) \in Int /\ m - 1 <= 2 * Half(m) /\ 2 * Half(m) <= m + 1
  BY HalfOf
<1>3. PICK h \in Int : h = Half(m)
  BY <1>2
<1>4. PICK k \in Int : k = v \div 2
  OBVIOUS
<1>5. v - 1 <= 2 * k /\ 2 * k <= v /\ (v % 2 = 0 => 2 * k = v)
  BY <1>4
<1>6. d = k - h
  BY <1>1, <1>3, <1>4 DEF IsCut
<1>7. m - 1 <= 2 * h /\ 2 * h <= m + 1
  BY <1>2, <1>3
<1>8. d \in Int /\ l + d \in Int /\ r + d \in Int /\ 0 \in Int
  BY <1>6
<1>9. Max({l + d, 0}) = IF l + d >= 0 THEN l + d ELSE 0
  BY <1>8, OfTwo
<1>10. Min({r + d, v}) = IF r + d <= v THEN r + d ELSE v
  BY <1>8, OfTwo
<1>11. kl = IF l + d >= 0 THEN l + d ELSE 0
  BY <1>9 DEF IsCut
<1>12. kr = IF r + d <= v THEN r + d ELSE v
  BY <1>10 DEF IsCut
<1>13. s = d + (kl - (l + d)) + (kr - (r + d))
  BY DEF IsCut
<1>14. kl \in Int /\ kr \in Int
  BY <1>8, <1>11, <1>12
<1>15. l + r + 2 * d <= v + 1 /\ v - 2 <= l + r + 2 * d /\ (v % 2 = 0 => v - 1 <= l + r + 2 * d)
  BY <1>1, <1>5, <1>6, <1>7
<1>16. QED
  BY <1>8, <1>11, <1>12, <1>13, <1>14, <1>15

LEMMA CutInts ==
  ASSUME NEW l \in Int, NEW r \in Int, NEW v \in Int,
         NEW d, NEW kl, NEW kr, NEW s, IsCut(l, r, v, d, kl, kr, s)
  PROVE  kl \in Int /\ kr \in Int /\ s \in Int
BY CutTyped

LEMMA CutHolds ==
  ASSUME NEW l \in Int, NEW r \in Int, NEW v \in Int,
         NEW d, NEW kl, NEW kr, NEW s, IsCut(l, r, v, d, kl, kr, s),
         NEW size \in 58..86, l + size <= r, NEW least \in {380, 600}, v >= least
  PROVE  CutFits(l, r, kl, kr, s, size, least)
<1>1. /\ d \in Int /\ kl \in Int /\ kr \in Int /\ s \in Int
      /\ IF l + d >= 0 THEN kl = l + d ELSE kl = 0
      /\ IF r + d <= v THEN kr = r + d ELSE kr = v
      /\ s = d + (kl - (l + d)) + (kr - (r + d))
      /\ l + r + 2 * d <= v + 1 /\ v - 2 <= l + r + 2 * d
      /\ v % 2 = 0 => v - 1 <= l + r + 2 * d
  BY CutTyped
<1>2. v = least => v - 1 <= l + r + 2 * d
  BY <1>1
<1>3. kl < kr
  BY <1>1, <1>2
<1>4. ASSUME NEW x \in Int, l <= x, x + size <= r
      PROVE  /\ kl <= x + s \/ kl <= 0
             /\ x + s + size <= kr \/ kr >= least
  BY <1>1, <1>2, <1>4
<1>5. QED
  BY <1>3, <1>4 DEF CutFits

-----------------------------------------------------------------------------
(* Arrangement: what moving, adding and removing icons keeps               *)

BoxType == [l : Int, t : Int, r : Int, b : Int]

ArrState ==
  [list : Seq(Icon), box : BoxType, view : [w : Int, h : Int], times : Nat \X Nat,
   refused : BOOLEAN]

\* The same screens, in the same order.
SameScreens(L, M) == Len(L) = Len(M) /\ \A i \in 1..Len(M) : L[i].id = M[i].id

\* All by the same distance.
ShiftedBy(L, M, dx, dy) ==
  \A i \in 1..Len(M) : L[i].x = M[i].x + dx /\ L[i].y = M[i].y + dy

\* The box has these icons in it.
Around(box, list, others) ==
  \A i \in others : /\ box.l <= list[i].x /\ list[i].x + IconW <= box.r
                    /\ box.t <= list[i].y /\ list[i].y + IconH <= box.b

\* No icon reaches out of the box, unless the box reaches the side of the view.
BoxFits(a) ==
  /\ a.box.l < a.box.r /\ a.box.t < a.box.b
  /\ \A i \in 1..Len(a.list) :
       /\ a.box.l <= a.list[i].x \/ a.box.l <= 0
       /\ a.list[i].x + IconW <= a.box.r \/ a.box.r >= ViewW
       /\ a.box.t <= a.list[i].y \/ a.box.t <= 0
       /\ a.list[i].y + IconH <= a.box.b \/ a.box.b >= ViewH

\* What the user sees as a: every icon is moved alike, unless a position was refused.
Slid(u, a) ==
  /\ SameScreens(u.list, a.list)
  /\ a.refused => u.refused
  /\ ~u.refused => \E dx, dy \in Int : ShiftedBy(u.list, a.list, dx, dy)

LEMMA ArrRecord ==
  ASSUME NEW a \in ArrState
  PROVE  /\ a.list \in Seq(Icon) /\ DOMAIN a.list = 1..Len(a.list) /\ Len(a.list) \in Nat
         /\ a.box \in BoxType /\ a.view \in [w : Int, h : Int] /\ a.times \in Nat \X Nat
         /\ a.refused \in BOOLEAN
         /\ \A i \in 1..Len(a.list) : a.list[i] \in Icon
BY DEF ArrState

LEMMA IconRecord ==
  ASSUME NEW s \in Icon
  PROVE  /\ s.id \in ScreenId \cup {-1} /\ s.x \in Int /\ s.y \in Int
         /\ -85 <= s.x /\ s.x <= 599 /\ -57 <= s.y /\ s.y <= 379
BY DEF Icon, IconW, IconH, ViewW, ViewH

LEMMA SetPosTyped ==
  ASSUME NEW s \in Icon, NEW x \in Int, NEW y \in Int, NEW r, r = SetPos(s, x, y)
  PROVE  /\ r \in Icon /\ r.id = s.id
         /\ FitsX(x) => r.x = x
         /\ FitsY(y) => r.y = y
<1> DEFINE nx == IF FitsX(x) THEN x ELSE s.x
           ny == IF FitsY(y) THEN y ELSE s.y
<1>1. r = [s EXCEPT !.x = nx, !.y = ny]
  BY DEF SetPos
<1>2. nx \in (1 - IconW)..(ViewW - 1) /\ ny \in (1 - IconH)..(ViewH - 1)
  <2>1. s.x \in (1 - IconW)..(ViewW - 1) /\ s.y \in (1 - IconH)..(ViewH - 1)
    BY DEF Icon
  <2>2. FitsX(x) => x \in (1 - IconW)..(ViewW - 1)
    BY DEF FitsX, IconW, ViewW
  <2>3. FitsY(y) => y \in (1 - IconH)..(ViewH - 1)
    BY DEF FitsY, IconH, ViewH
  <2>4. QED
    BY <2>1, <2>2, <2>3
<1>3. (FitsX(x) => nx = x) /\ (FitsY(y) => ny = y)
  OBVIOUS
<1> HIDE DEF nx, ny
<1>4. r \in Icon /\ r.id = s.id /\ r.x = nx /\ r.y = ny
  BY <1>1, <1>2 DEF Icon
<1>5. QED
  BY <1>3, <1>4

\* The least and the greatest of places in a range.
LEMMA Extent ==
  ASSUME NEW S \in SUBSET Int, S # {}, \A x \in S : -85 <= x, \A x \in S : x <= 599
  PROVE  /\ Min(S) \in S /\ Max(S) \in S /\ Min(S) \in Int /\ Max(S) \in Int
         /\ Min(S) <= Max(S)
         /\ \A x \in S : Min(S) <= x /\ x <= Max(S)
<1>1. -85 \in Int /\ 599 \in Int
  OBVIOUS
<1>2. Min(S) \in S /\ \A x \in S : Min(S) <= x
  BY <1>1, LeastOf, Zenon
<1>3. Max(S) \in S /\ \A x \in S : x <= Max(S)
  BY <1>1, MostOf, Zenon
<1>4. QED
  BY <1>2, <1>3

\* The box that is computed has the icons in it.
LEMMA BoxAround ==
  ASSUME NEW a \in ArrState, NEW others \in SUBSET (1..Len(a.list)),
         NEW r, r = RecalculateBoundingBox(a, others)
  PROVE  /\ r \in ArrState /\ r.list = a.list /\ r.refused = a.refused
         /\ r.view = a.view /\ r.times = a.times
         /\ Around(r.box, a.list, others)
         /\ others # {} => r.box.l + IconW <= r.box.r /\ r.box.t + IconH <= r.box.b
<1> DEFINE xs == {a.list[i].x : i \in others}
           ys == {a.list[i].y : i \in others}
           box == IF others = {} THEN [l |-> 0, t |-> 0, r |-> 0, b |-> 0]
                  ELSE [l |-> Min(xs), t |-> Min(ys), r |-> Max(xs) + IconW, b |-> Max(ys) + IconH]
<1>1. r = [a EXCEPT !.box = box]
  BY DEF RecalculateBoundingBox
<1>2. \A i \in others : /\ a.list[i].x \in Int /\ -85 <= a.list[i].x /\ a.list[i].x <= 599
                        /\ a.list[i].y \in Int /\ -57 <= a.list[i].y /\ a.list[i].y <= 379
  <2>1. \A i \in others : a.list[i] \in Icon
    BY ArrRecord
  <2>2. QED
    BY <2>1, IconRecord
<1>3. ASSUME others # {}
      PROVE  /\ Min(xs) \in Int /\ Max(xs) \in Int /\ Min(xs) <= Max(xs)
             /\ Min(ys) \in Int /\ Max(ys) \in Int /\ Min(ys) <= Max(ys)
             /\ \A i \in others : Min(xs) <= a.list[i].x /\ a.list[i].x <= Max(xs)
             /\ \A i \in others : Min(ys) <= a.list[i].y /\ a.list[i].y <= Max(ys)
  <2>1. /\ xs \in SUBSET Int /\ xs # {} /\ (\A x \in xs : -85 <= x) /\ (\A x \in xs : x <= 599)
        /\ \A i \in others : a.list[i].x \in xs
    <3>1. \A i \in others : a.list[i].x \in xs
      OBVIOUS
    <3>2. xs # {}
      BY <1>3
    <3>3. \A x \in xs : x \in Int /\ -85 <= x /\ x <= 599
      <4>1. SUFFICES ASSUME NEW i \in others
                     PROVE  LET x == a.list[i].x IN x \in Int /\ -85 <= x /\ x <= 599
        OBVIOUS
      <4>2. QED
        BY <1>2
    <3> HIDE DEF xs
    <3>4. QED
      BY <3>1, <3>2, <3>3
  <2>2. /\ ys \in SUBSET Int /\ ys # {} /\ (\A y \in ys : -85 <= y) /\ (\A y \in ys : y <= 599)
        /\ \A i \in others : a.list[i].y \in ys
    <3>1. \A i \in others : a.list[i].y \in ys
      OBVIOUS
    <3>2. ys # {}
      BY <1>3
    <3>3. \A y \in ys : y \in Int /\ -85 <= y /\ y <= 599
      <4>1. SUFFICES ASSUME NEW i \in others
                     PROVE  LET y == a.list[i].y IN y \in Int /\ -85 <= y /\ y <= 599
        OBVIOUS
      <4>2. QED
        BY <1>2
    <3> HIDE DEF ys
    <3>4. QED
      BY <3>1, <3>2, <3>3
  <2> HIDE DEF xs, ys
  <2>3. /\ Min(xs) \in Int /\ Max(xs) \in Int /\ Min(xs) <= Max(xs)
        /\ \A x \in xs : Min(xs) <= x /\ x <= Max(xs)
    BY <2>1, Extent, Zenon
  <2>4. /\ Min(ys) \in Int /\ Max(ys) \in Int /\ Min(ys) <= Max(ys)
        /\ \A y \in ys : Min(ys) <= y /\ y <= Max(ys)
    BY <2>2, Extent, Zenon
  <2>5. QED
    BY <2>1, <2>2, <2>3, <2>4
<1>4. /\ box \in BoxType
      /\ Around(box, a.list, others)
      /\ others # {} => box.l + IconW <= box.r /\ box.t + IconH <= box.b
  <2>1. CASE others = {}
    BY <2>1 DEF BoxType, Around
  <2>2. CASE others # {}
    <3>1. box = [l |-> Min(xs), t |-> Min(ys), r |-> Max(xs) + IconW, b |-> Max(ys) + IconH]
      BY <2>2
    <3> HIDE DEF xs, ys
    <3>2. PICK x0 \in Int, x1 \in Int, y0 \in Int, y1 \in Int :
            /\ x0 = Min(xs) /\ x1 = Max(xs) /\ y0 = Min(ys) /\ y1 = Max(ys)
      BY <1>3, <2>2
    <3> HIDE DEF box
    <3>3. /\ box.l = x0 /\ box.t = y0 /\ box.r = x1 + 86 /\ box.b = y1 + 58
          /\ box \in BoxType
      <4>1. box = [l |-> x0, t |-> y0, r |-> x1 + 86, b |-> y1 + 58]
        BY <3>1, <3>2 DEF IconW, IconH
      <4>2. x1 + 86 \in Int /\ y1 + 58 \in Int
        OBVIOUS
      <4>3. QED
        BY <4>1, <4>2 DEF BoxType
    <3>4. /\ x0 <= x1 /\ y0 <= y1
          /\ \A i \in others : x0 <= a.list[i].x /\ a.list[i].x <= x1
          /\ \A i \in others : y0 <= a.list[i].y /\ a.list[i].y <= y1
      BY <1>3, <2>2, <3>2
    <3>5. ASSUME NEW i \in others
          PROVE  /\ box.l <= a.list[i].x /\ a.list[i].x + 86 <= box.r
                 /\ box.t <= a.list[i].y /\ a.list[i].y + 58 <= box.b
      <4>1. PICK v \in Int, w \in Int : v = a.list[i].x /\ w = a.list[i].y
        BY <1>2
      <4>2. x0 <= v /\ v <= x1 /\ y0 <= w /\ w <= y1
        BY <3>4, <4>1
      <4>3. v + 86 <= x1 + 86 /\ w + 58 <= y1 + 58
        BY <4>2
      <4>4. QED
        BY <3>3, <4>1, <4>2, <4>3
    <3>6. Around(box, a.list, others)
      BY <3>5, Zenon DEF Around, IconW, IconH
    <3>7. box.l + 86 <= box.r /\ box.t + 58 <= box.b
      BY <3>3, <3>4
    <3>8. QED
      BY <3>3, <3>6, <3>7 DEF IconW, IconH
  <2>3. QED
    BY <2>1, <2>2
<1>5. QED
  <2> HIDE DEF box
  <2>1. /\ r \in ArrState /\ r.list = a.list /\ r.refused = a.refused
        /\ r.view = a.view /\ r.times = a.times /\ r.box = box
    BY <1>1, <1>4 DEF ArrState
  <2>2. QED
    BY <1>4, <2>1

\* adjustAll
LEMMA AdjustAllShifts ==
  ASSUME NEW a \in ArrState, NEW dx \in Int, NEW dy \in Int, NEW u, u = AdjustAll(a, dx, dy)
  PROVE  /\ u \in ArrState /\ u.box = a.box /\ u.view = a.view /\ u.times = a.times
         /\ SameScreens(u.list, a.list) /\ (a.refused => u.refused)
         /\ ~u.refused => ShiftedBy(u.list, a.list, dx, dy)
<1> DEFINE list == [i \in DOMAIN a.list |->
                      SetPos(a.list[i], a.list[i].x + dx, a.list[i].y + dy)]
           out == \E i \in DOMAIN a.list : \/ ~FitsX(a.list[i].x + dx)
                                           \/ ~FitsY(a.list[i].y + dy)
           refused == a.refused \/ out
<1>1. u = [a EXCEPT !.list = list, !.refused = refused]
  BY DEF AdjustAll
<1>2. \A i \in 1..Len(a.list) :
        /\ list[i] = SetPos(a.list[i], a.list[i].x + dx, a.list[i].y + dy)
        /\ a.list[i] \in Icon /\ a.list[i].x + dx \in Int /\ a.list[i].y + dy \in Int
  <2>1. \A i \in 1..Len(a.list) : a.list[i] \in Icon /\ i \in DOMAIN a.list
    BY ArrRecord
  <2>2. \A i \in 1..Len(a.list) : a.list[i].x \in Int /\ a.list[i].y \in Int
    BY <2>1, IconRecord
  <2>3. QED
    BY <2>1, <2>2
<1>3. list = [i \in 1..Len(a.list) |-> list[i]] /\ Len(a.list) \in Nat
  BY ArrRecord
<1>4. ASSUME NEW i \in 1..Len(a.list)
      PROVE  /\ list[i] \in Icon /\ list[i].id = a.list[i].id
             /\ ~out => list[i].x = a.list[i].x + dx /\ list[i].y = a.list[i].y + dy
  <2>1. ~out => FitsX(a.list[i].x + dx) /\ FitsY(a.list[i].y + dy)
    BY ArrRecord
  <2> HIDE DEF list, out
  <2>2. QED
    BY <1>2, <2>1, SetPosTyped
<1>5. list \in Seq(Icon) /\ Len(list) = Len(a.list)
  <2> HIDE DEF list
  <2>1. QED
    BY <1>3, <1>4, ListOf
<1>6. refused \in BOOLEAN /\ (a.refused => refused) /\ (~refused => ~out)
  BY ArrRecord
<1>7. /\ u \in ArrState /\ u.box = a.box /\ u.view = a.view /\ u.times = a.times
      /\ u.list = list /\ u.refused = refused
  <2> HIDE DEF list, refused
  <2>1. QED
    BY <1>1, <1>5, <1>6 DEF ArrState
<1>8. QED
  <2> HIDE DEF list, refused, out
  <2>1. QED
    BY <1>4, <1>5, <1>6, <1>7 DEF SameScreens, ShiftedBy

\* adjustToCenter, for a box with the icons in it.
LEMMA CenterFits ==
  ASSUME NEW a \in ArrState, Around(a.box, a.list, 1..Len(a.list)),
         a.list # <<>> => a.box.l + IconW <= a.box.r /\ a.box.t + IconH <= a.box.b,
         a.view.w >= ViewW, a.view.h >= ViewH,
         NEW u, u = AdjustToCenter(a)
  PROVE  /\ u \in ArrState /\ Slid(u, a)
         /\ ~u.refused /\ a.list # <<>> => BoxFits(u)
<1>1. /\ a.box.l \in Int /\ a.box.t \in Int /\ a.box.r \in Int /\ a.box.b \in Int
      /\ a.view.w \in Int /\ a.view.h \in Int
  BY ArrRecord DEF BoxType
<1> DEFINE dx == a.view.w \div 2 - Half(a.box.r + a.box.l)
           dy == a.view.h \div 2 - Half(a.box.b + a.box.t)
           moved == [l |-> a.box.l + dx, t |-> a.box.t + dy, r |-> a.box.r + dx, b |-> a.box.b + dy]
           kept == [l |-> Max({moved.l, 0}), t |-> Max({moved.t, 0}),
                    r |-> Min({moved.r, a.view.w}), b |-> Min({moved.b, a.view.h})]
           sx == dx + (kept.l - moved.l) + (kept.r - moved.r)
           sy == dy + (kept.t - moved.t) + (kept.b - moved.b)
           c == [a EXCEPT !.box = kept]
<1>2. u = AdjustAll(c, sx, sy)
  BY DEF AdjustToCenter
<1> HIDE DEF dx, dy
<1>3. /\ moved.l = a.box.l + dx /\ moved.t = a.box.t + dy
      /\ moved.r = a.box.r + dx /\ moved.b = a.box.b + dy
  OBVIOUS
<1> HIDE DEF moved
<1>4. /\ kept = [l |-> kept.l, t |-> kept.t, r |-> kept.r, b |-> kept.b]
      /\ kept.l = Max({moved.l, 0}) /\ kept.t = Max({moved.t, 0})
      /\ kept.r = Min({moved.r, a.view.w}) /\ kept.b = Min({moved.b, a.view.h})
  OBVIOUS
<1> HIDE DEF kept
<1>5. IsCut(a.box.l, a.box.r, a.view.w, dx, kept.l, kept.r, sx)
  BY <1>3, <1>4, Zenon DEF IsCut, dx, sx
<1>6. IsCut(a.box.t, a.box.b, a.view.h, dy, kept.t, kept.b, sy)
  BY <1>3, <1>4, Zenon DEF IsCut, dy, sy
<1> HIDE DEF sx, sy
<1>7. kept.l \in Int /\ kept.r \in Int /\ sx \in Int
  BY <1>1, <1>5, CutInts
<1>8. kept.t \in Int /\ kept.b \in Int /\ sy \in Int
  BY <1>1, <1>6, CutInts
<1>9. kept \in BoxType
  BY <1>4, <1>7, <1>8 DEF BoxType
<1>10. c \in ArrState /\ c.box = kept /\ c.list = a.list /\ c.refused = a.refused
  BY <1>9 DEF ArrState
<1> HIDE DEF c
<1>11. /\ u \in ArrState /\ u.box = kept
       /\ SameScreens(u.list, a.list) /\ (a.refused => u.refused)
       /\ ~u.refused => ShiftedBy(u.list, a.list, sx, sy)
  BY <1>2, <1>7, <1>8, <1>10, AdjustAllShifts
<1>12. Slid(u, a)
  BY <1>7, <1>8, <1>11 DEF Slid
<1>13. ASSUME ~u.refused, a.list # <<>>
       PROVE  BoxFits(u)
  <2>1. /\ a.box.l + 86 <= a.box.r /\ a.box.t + 58 <= a.box.b
        /\ a.view.w >= 600 /\ a.view.h >= 380
    BY <1>13 DEF IconW, IconH, ViewW, ViewH
  <2>2. 86 \in 58..86 /\ 58 \in 58..86 /\ 600 \in {380, 600} /\ 380 \in {380, 600}
    OBVIOUS
  <2>3. CutFits(a.box.l, a.box.r, kept.l, kept.r, sx, 86, 600)
    BY <1>1, <1>5, <2>1, <2>2, CutHolds
  <2>4. CutFits(a.box.t, a.box.b, kept.t, kept.b, sy, 58, 380)
    BY <1>1, <1>6, <2>1, <2>2, CutHolds
  <2>5. ASSUME NEW i \in 1..Len(u.list)
        PROVE  /\ kept.l <= u.list[i].x \/ kept.l <= 0
               /\ u.list[i].x + 86 <= kept.r \/ kept.r >= 600
               /\ kept.t <= u.list[i].y \/ kept.t <= 0
               /\ u.list[i].y + 58 <= kept.b \/ kept.b >= 380
    <3>1. i \in 1..Len(a.list)
      BY <1>11 DEF SameScreens
    <3>2. u.list[i].x = a.list[i].x + sx /\ u.list[i].y = a.list[i].y + sy
      BY <1>11, <1>13, <3>1 DEF ShiftedBy
    <3>3. a.list[i].x \in Int /\ a.list[i].y \in Int
      BY <3>1, ArrRecord, IconRecord
    <3>4. /\ a.box.l <= a.list[i].x /\ a.list[i].x + 86 <= a.box.r
          /\ a.box.t <= a.list[i].y /\ a.list[i].y + 58 <= a.box.b
      BY <3>1 DEF Around, IconW, IconH
    <3>5. /\ kept.l <= a.list[i].x + sx \/ kept.l <= 0
          /\ a.list[i].x + sx + 86 <= kept.r \/ kept.r >= 600
      BY <2>3, <3>3, <3>4, Zenon DEF CutFits
    <3>6. /\ kept.t <= a.list[i].y + sy \/ kept.t <= 0
          /\ a.list[i].y + sy + 58 <= kept.b \/ kept.b >= 380
      BY <2>4, <3>3, <3>4, Zenon DEF CutFits
    <3>7. QED
      BY <3>2, <3>5, <3>6, Zenon
  <2>6. kept.l < kept.r /\ kept.t < kept.b
    BY <2>3, <2>4, Zenon DEF CutFits
  <2>7. /\ u.box.l < u.box.r /\ u.box.t < u.box.b
        /\ \A i \in 1..Len(u.list) :
             /\ u.box.l <= u.list[i].x \/ u.box.l <= 0
             /\ u.list[i].x + 86 <= u.box.r \/ u.box.r >= 600
             /\ u.box.t <= u.list[i].y \/ u.box.t <= 0
             /\ u.list[i].y + 58 <= u.box.b \/ u.box.b >= 380
    <3>1. u.box = kept
      BY <1>11
    <3>2. u.box.l < u.box.r /\ u.box.t < u.box.b
      BY <2>6, <3>1, Zenon
    <3>3. ASSUME NEW i \in 1..Len(u.list)
          PROVE  /\ u.box.l <= u.list[i].x \/ u.box.l <= 0
                 /\ u.list[i].x + 86 <= u.box.r \/ u.box.r >= 600
                 /\ u.box.t <= u.list[i].y \/ u.box.t <= 0
                 /\ u.list[i].y + 58 <= u.box.b \/ u.box.b >= 380
      BY <2>5, <3>1
    <3>4. QED
      BY <3>2, <3>3, Zenon
  <2>8. QED
    BY <2>7, Zenon DEF BoxFits, IconW, IconH, ViewW, ViewH
<1>14. QED
  BY <1>11, <1>12, <1>13

\* What the scale may be, one or less: its inverse.
Magnifies(times) ==
  \E k \in Nat, m \in {1, 380, 600} : times = <<k, m>> /\ (k > m \/ (k = 1 /\ m = 1))

\* A view that is scaled is no smaller than the window.
LEMMA ScaledView ==
  ASSUME NEW times, Magnifies(times), NEW short \in 0..1
  PROVE  /\ Scaled(600, times, short) \in Int /\ Scaled(600, times, short) >= 600
         /\ Scaled(380, times, short) \in Int /\ Scaled(380, times, short) >= 380
<1>1. SUFFICES ASSUME NEW size \in {380, 600}
               PROVE  Scaled(size, times, short) \in Int /\ Scaled(size, times, short) >= size
  <2>1. ASSUME \A size \in {380, 600} : /\ Scaled(size, times, short) \in Int
                                        /\ Scaled(size, times, short) >= size
        PROVE  /\ Scaled(600, times, short) \in Int /\ Scaled(600, times, short) >= 600
               /\ Scaled(380, times, short) \in Int /\ Scaled(380, times, short) >= 380
    BY <2>1
  <2>2. QED
    BY <2>1, Zenon
<1>2. PICK n \in Nat, m \in {1, 380, 600} :
        times = <<n, m>> /\ (n > m \/ (n = 1 /\ m = 1))
  BY DEF Magnifies
<1>3. Scaled(size, <<n, m>>, short) \in Int /\ Scaled(size, <<n, m>>, short) >= size
  <2> DEFINE p == size * n
  <2>1. Scaled(size, <<n, m>>, short)
          = p \div m - (IF n # m /\ p % m = 0 THEN short ELSE 0)
    BY DEF Scaled
  <2>2. p \in Nat
    OBVIOUS
  <2>3. CASE n = 1 /\ m = 1
    <3>1. p = size /\ p \div 1 = size
      BY <2>3
    <3>2. QED
      BY <2>1, <2>3, <3>1
  <2>4. CASE n > m
    <3>1. p >= size * m + size
      <4>1. CASE size = 380
        BY <2>4, <4>1
      <4>2. CASE size = 600
        BY <2>4, <4>2
      <4>3. QED
        BY <4>1, <4>2
    <3> HIDE DEF p
    <3>2. CASE m = 1
      <4>1. p \div m \in Int /\ p \div m >= size + 1
        BY <2>2, <3>1, <3>2
      <4>2. QED
        BY <2>1, <4>1
    <3>3. CASE m = 380
      <4>1. /\ p \div m \in Int /\ p \div m >= size
            /\ p % m = 0 => p \div m >= size + 1
        <5>1. CASE size = 380
          BY <2>2, <3>1, <3>3, <5>1
        <5>2. CASE size = 600
          BY <2>2, <3>1, <3>3, <5>2
        <5>3. QED
          BY <5>1, <5>2
      <4>2. QED
        BY <2>1, <4>1
    <3>4. CASE m = 600
      <4>1. /\ p \div m \in Int /\ p \div m >= size
            /\ p % m = 0 => p \div m >= size + 1
        <5>1. CASE size = 380
          BY <2>2, <3>1, <3>4, <5>1
        <5>2. CASE size = 600
          BY <2>2, <3>1, <3>4, <5>2
        <5>3. QED
          BY <5>1, <5>2
      <4>2. QED
        BY <2>1, <4>1
    <3>5. QED
      BY <3>2, <3>3, <3>4
  <2>5. QED
    BY <1>2, <2>3, <2>4
<1>4. QED
  BY <1>2, <1>3, Zenon

\* update
LEMMA UpdateFits ==
  ASSUME NEW a \in ArrState, NEW short \in Short, NEW u, u = Update(a, short)
  PROVE  /\ u \in ArrState /\ Slid(u, a)
         /\ ~u.refused /\ a.list # <<>> => BoxFits(u)
<1> DEFINE n == RecalculateBoundingBox(a, DOMAIN a.list)
<1>1. /\ n \in ArrState /\ n.list = a.list /\ n.refused = a.refused
      /\ Around(n.box, n.list, 1..Len(n.list))
      /\ n.list # <<>> => n.box.l + IconW <= n.box.r /\ n.box.t + IconH <= n.box.b
  <2> DEFINE others == DOMAIN a.list
  <2>1. others \in SUBSET (1..Len(a.list)) /\ others = 1..Len(a.list)
    BY ArrRecord
  <2>2. a.list # <<>> => others # {}
    <3>1. \A L \in Seq(Icon) : L # <<>> => 1 \in 1..Len(L)
      OBVIOUS
    <3>2. a.list # <<>> => 1 \in 1..Len(a.list)
      BY <3>1, ArrRecord
    <3>3. QED
      BY <2>1, <3>2
  <2>3. n = RecalculateBoundingBox(a, others)
    OBVIOUS
  <2> HIDE DEF n, others
  <2>4. /\ n \in ArrState /\ n.list = a.list /\ n.refused = a.refused
        /\ Around(n.box, a.list, others)
        /\ others # {} => n.box.l + IconW <= n.box.r /\ n.box.t + IconH <= n.box.b
    BY <2>1, <2>3, BoxAround
  <2>5. QED
    BY <2>1, <2>2, <2>4
<1>2. u = CheckAdjustment(n, short)
  BY DEF Update
<1> HIDE DEF n
<1> DEFINE bw == n.box.r - n.box.l
           bh == n.box.b - n.box.t
           outside == n.box.l < 0 \/ n.box.t < 0 \/ n.box.r > n.view.w \/ n.box.b > n.view.h
           tooBig == 3 * bw < 2 * n.view.w \/ 3 * bh < 2 * n.view.h
           most == IF bw * ViewH > bh * ViewW THEN <<bw, ViewW>> ELSE <<bh, ViewH>>
           times == IF most[1] > most[2] THEN most ELSE <<1, 1>>
           shrinks == times[1] * n.times[2] > n.times[1] * times[2]
           isBack == n.times # <<1, 1>> /\ times = <<1, 1>>
           view == [w |-> Scaled(ViewW, times, short.w), h |-> Scaled(ViewH, times, short.h)]
           scaled == [n EXCEPT !.times = times, !.view = view]
<1>3. u \in {n, scaled, AdjustToCenter(scaled)}
  BY <1>2, Zenon DEF CheckAdjustment
<1>4. bw \in Int /\ bh \in Int
  BY <1>1, ArrRecord DEF BoxType
<1>5. Magnifies(times)
  <2> HIDE DEF bw, bh
  <2>1. most = <<bw, 600>> \/ most = <<bh, 380>>
    BY DEF ViewW, ViewH
  <2> HIDE DEF most
  <2>2. CASE most = <<bw, 600>>
    <3>1. most[1] = bw /\ most[2] = 600
      BY <2>2
    <3>2. CASE bw > 600
      <4>1. times = <<bw, 600>> /\ bw \in Nat
        BY <1>4, <2>2, <3>1, <3>2
      <4>2. QED
        BY <3>2, <4>1 DEF Magnifies
    <3>3. CASE ~(bw > 600)
      <4>1. times = <<1, 1>>
        BY <3>1, <3>3
      <4>2. QED
        BY <4>1 DEF Magnifies
    <3>4. QED
      BY <3>2, <3>3
  <2>3. CASE most = <<bh, 380>>
    <3>1. most[1] = bh /\ most[2] = 380
      BY <2>3
    <3>2. CASE bh > 380
      <4>1. times = <<bh, 380>> /\ bh \in Nat
        BY <1>4, <2>3, <3>1, <3>2
      <4>2. QED
        BY <3>2, <4>1 DEF Magnifies
    <3>3. CASE ~(bh > 380)
      <4>1. times = <<1, 1>>
        BY <3>1, <3>3
      <4>2. QED
        BY <4>1 DEF Magnifies
    <3>4. QED
      BY <3>2, <3>3
  <2>4. QED
    BY <2>1, <2>2, <2>3
<1> HIDE DEF times
<1>6. times \in Nat \X Nat
  BY <1>5 DEF Magnifies
<1>7. view \in [w : Int, h : Int] /\ view.w >= ViewW /\ view.h >= ViewH
  <2>1. short.w \in 0..1 /\ short.h \in 0..1
    BY DEF Short
  <2>2. Scaled(600, times, short.w) \in Int /\ Scaled(600, times, short.w) >= 600
    BY <1>5, <2>1, ScaledView
  <2>3. Scaled(380, times, short.h) \in Int /\ Scaled(380, times, short.h) >= 380
    BY <1>5, <2>1, ScaledView
  <2>4. QED
    BY <2>2, <2>3 DEF ViewW, ViewH
<1> HIDE DEF view
<1>8. /\ scaled \in ArrState /\ scaled.list = n.list /\ scaled.refused = n.refused
      /\ scaled.box = n.box /\ scaled.view = view
  BY <1>1, <1>6, <1>7 DEF ArrState
<1> HIDE DEF scaled
<1>9. ASSUME NEW v \in ArrState, v.list = a.list, v.refused = a.refused, v.box = n.box
      PROVE  Slid(v, a) /\ (a.list # <<>> => BoxFits(v))
  <2>1. /\ \A i \in 1..Len(v.list) : v.list[i].x \in Int /\ v.list[i].y \in Int
        /\ v.box.l \in Int /\ v.box.t \in Int /\ v.box.r \in Int /\ v.box.b \in Int
    BY ArrRecord, IconRecord DEF BoxType
  <2>2. Slid(v, a)
    <3>1. ASSUME NEW i \in 1..Len(a.list)
          PROVE  v.list[i].x = a.list[i].x + 0 /\ v.list[i].y = a.list[i].y + 0
      <4>1. PICK x \in Int, y \in Int : a.list[i].x = x /\ a.list[i].y = y
        BY <1>9, <2>1
      <4>2. x + 0 = x /\ y + 0 = y
        OBVIOUS
      <4>3. QED
        BY <1>9, <4>1, <4>2
    <3>2. ShiftedBy(v.list, a.list, 0, 0) /\ 0 \in Int
      BY <3>1 DEF ShiftedBy
    <3>3. QED
      BY <1>9, <3>2 DEF Slid, SameScreens
  <2>3. ASSUME a.list # <<>> PROVE BoxFits(v)
    <3>1. /\ v.box.l + 86 <= v.box.r /\ v.box.t + 58 <= v.box.b
          /\ \A i \in 1..Len(v.list) : /\ v.box.l <= v.list[i].x /\ v.list[i].x + 86 <= v.box.r
                                       /\ v.box.t <= v.list[i].y /\ v.list[i].y + 58 <= v.box.b
      BY <1>1, <1>9, <2>3 DEF Around, IconW, IconH
    <3>2. v.box.l < v.box.r /\ v.box.t < v.box.b
      <4>1. PICK l \in Int, t \in Int, r \in Int, b \in Int :
              v.box.l = l /\ v.box.t = t /\ v.box.r = r /\ v.box.b = b
        BY <2>1
      <4>2. l + 86 <= r /\ t + 58 <= b
        BY <3>1, <4>1
      <4>3. l < r /\ t < b
        BY <4>2
      <4>4. QED
        BY <4>1, <4>3
    <3>3. QED
      BY <3>1, <3>2 DEF BoxFits, IconW, IconH
  <2>4. QED
    BY <2>2, <2>3
<1>10. CASE u = n
  BY <1>1, <1>9, <1>10
<1>11. CASE u = scaled
  BY <1>1, <1>8, <1>9, <1>11
<1>12. CASE u = AdjustToCenter(scaled)
  <2>1. /\ Around(scaled.box, scaled.list, 1..Len(scaled.list))
        /\ scaled.list # <<>> => /\ scaled.box.l + IconW <= scaled.box.r
                                 /\ scaled.box.t + IconH <= scaled.box.b
        /\ scaled.view.w >= ViewW /\ scaled.view.h >= ViewH
    BY <1>1, <1>7, <1>8
  <2>2. u \in ArrState /\ Slid(u, scaled) /\ (~u.refused /\ scaled.list # <<>> => BoxFits(u))
    BY <1>8, <1>12, <2>1, CenterFits
  <2>3. scaled.list = a.list /\ scaled.refused = a.refused
    BY <1>1, <1>8
  <2>4. QED
    BY <2>2, <2>3 DEF Slid
<1>13. QED
  BY <1>3, <1>10, <1>11, <1>12

-----------------------------------------------------------------------------
(* Arrangement: one icon is moved                                          *)

LEMMA SameTransitive ==
  ASSUME NEW L, NEW M, NEW N, SameScreens(L, M), SameScreens(M, N)
  PROVE  SameScreens(L, N)
BY DEF SameScreens

\* Icons that are moved alike stay apart.
LEMMA SlidApart ==
  ASSUME NEW a \in ArrState, NEW u \in ArrState, Slid(u, a), ~u.refused, Apart(a.list)
  PROVE  Apart(u.list)
<1>1. PICK dx \in Int, dy \in Int : ShiftedBy(u.list, a.list, dx, dy)
  BY DEF Slid
<1>2. DOMAIN u.list = 1..Len(a.list) /\ DOMAIN a.list = 1..Len(a.list)
  BY ArrRecord DEF Slid, SameScreens
<1>3. SUFFICES ASSUME NEW i \in 1..Len(a.list), NEW j \in 1..Len(a.list), i # j
               PROVE  ~Overlap(u.list[i], u.list[j])
  BY <1>2 DEF Apart
<1>4. PICK x \in Int, y \in Int, v \in Int, w \in Int :
        a.list[i].x = x /\ a.list[i].y = y /\ a.list[j].x = v /\ a.list[j].y = w
  BY ArrRecord, IconRecord
<1>5. /\ u.list[i].x = x + dx /\ u.list[i].y = y + dy
      /\ u.list[j].x = v + dx /\ u.list[j].y = w + dy
  BY <1>1, <1>4 DEF ShiftedBy
<1>6. ~Overlap(a.list[i], a.list[j])
  BY <1>2, <1>3 DEF Apart
<1>7. ~(x < v + 86 /\ v < x + 86 /\ y < w + 58 /\ w < y + 58)
  BY <1>4, <1>6 DEF Overlap, IconW, IconH
<1>8. ~(/\ x + dx < v + dx + 86 /\ v + dx < x + dx + 86
        /\ y + dy < w + dy + 58 /\ w + dy < y + dy + 58)
  BY <1>7
<1>9. QED
  BY <1>5, <1>8 DEF Overlap, IconW, IconH

\* Icon i may have been moved, and no other.
OnlyMoved(b, a, i) ==
  /\ SameScreens(b.list, a.list) /\ (a.refused => b.refused)
  /\ \A j \in 1..Len(a.list) : j # i => b.list[j] = a.list[j]

LEMMA MovedTwice ==
  ASSUME NEW a, NEW b, NEW c, NEW i, OnlyMoved(b, a, i), OnlyMoved(c, b, i)
  PROVE  OnlyMoved(c, a, i)
BY DEF OnlyMoved, SameScreens

\* Icon i is s now.
Changed(a, i, s, q) == [a EXCEPT !.list[i] = s, !.refused = q]

LEMMA IconChanged ==
  ASSUME NEW a \in ArrState, NEW i \in 1..Len(a.list), NEW s \in Icon, s.id = a.list[i].id,
         NEW q \in BOOLEAN, a.refused => q, NEW b, b = Changed(a, i, s, q)
  PROVE  /\ b \in ArrState /\ OnlyMoved(b, a, i) /\ b.list[i] = s /\ b.refused = q
         /\ b.box = a.box
<1> DEFINE L == [a.list EXCEPT ![i] = s]
<1>1. /\ L \in Seq(Icon) /\ Len(L) = Len(a.list) /\ L[i] = s
      /\ \A j \in 1..Len(a.list) : j # i => L[j] = a.list[j]
  BY ArrRecord
<1>2. b = [a EXCEPT !.list = L, !.refused = q]
  BY DEF Changed
<1> HIDE DEF L
<1>3. b \in ArrState /\ b.list = L /\ b.refused = q /\ b.box = a.box
  BY <1>1, <1>2 DEF ArrState
<1>4. QED
  BY <1>1, <1>3 DEF OnlyMoved, SameScreens

\* moveModel
LEMMA MoveModelMoves ==
  ASSUME NEW a \in ArrState, NEW i \in 1..Len(a.list), NEW dx \in Int, NEW dy \in Int,
         NEW b, b = MoveModel(a, i, dx, dy)
  PROVE  /\ b \in ArrState /\ OnlyMoved(b, a, i)
         /\ ~b.refused => /\ b.list[i].x = a.list[i].x + dx
                          /\ b.list[i].y = a.list[i].y + dy
<1> DEFINE s == a.list[i]
           x == s.x + dx
           y == s.y + dy
           q == a.refused \/ ~FitsX(x) \/ ~FitsY(y)
           n == SetPos(s, x, y)
<1>1. b = Changed(a, i, n, q)
  BY DEF MoveModel, Changed
<1>2. s \in Icon /\ a.refused \in BOOLEAN
  BY ArrRecord
<1>3. x \in Int /\ y \in Int
  BY <1>2, IconRecord
<1>4. q \in BOOLEAN /\ (a.refused => q) /\ (~q => FitsX(x) /\ FitsY(y))
  BY <1>2 DEF FitsX, FitsY
<1> HIDE DEF x, y, s
<1>5. n \in Icon /\ n.id = s.id /\ (FitsX(x) => n.x = x) /\ (FitsY(y) => n.y = y)
  BY <1>2, <1>3, SetPosTyped
<1> HIDE DEF n, q
<1>6. b \in ArrState /\ OnlyMoved(b, a, i) /\ b.list[i] = n /\ b.refused = q
  <2>1. n.id = a.list[i].id /\ n \in Icon
    BY <1>5 DEF s
  <2>2. q \in BOOLEAN /\ (a.refused => q)
    BY <1>4
  <2>3. QED
    BY <1>1, <2>1, <2>2, IconChanged
<1>7. QED
  BY <1>4, <1>5, <1>6 DEF x, y, s

\* Two icons that do not overlap, either way.
LEMMA OverlapBoth ==
  ASSUME NEW s \in Icon, NEW t \in Icon
  PROVE  Overlap(s, t) <=> Overlap(t, s)
BY IconRecord DEF Overlap

OthersApart(list, i) ==
  \A j, k \in 1..Len(list) : j # i /\ k # i /\ j # k => ~Overlap(list[j], list[k])

\* When the others are apart, and i from each of them, all are.
LEMMA ApartWith ==
  ASSUME NEW list \in Seq(Icon), NEW i \in 1..Len(list), OthersApart(list, i),
         \A j \in 1..Len(list) : j # i => ~Overlap(list[i], list[j])
  PROVE  Apart(list)
<1>1. DOMAIN list = 1..Len(list) /\ \A j \in 1..Len(list) : list[j] \in Icon
  OBVIOUS
<1>2. SUFFICES ASSUME NEW j \in 1..Len(list), NEW k \in 1..Len(list), j # k
               PROVE  ~Overlap(list[j], list[k])
  BY <1>1 DEF Apart
<1>3. CASE j = i
  BY <1>2, <1>3
<1>4. CASE k = i
  BY <1>1, <1>2, <1>4, OverlapBoth
<1>5. CASE j # i /\ k # i
  BY <1>2, <1>5 DEF OthersApart
<1>6. QED
  BY <1>3, <1>4, <1>5

LEMMA OthersStay ==
  ASSUME NEW a, NEW b, NEW i, OnlyMoved(b, a, i), OthersApart(a.list, i)
  PROVE  OthersApart(b.list, i)
BY DEF OthersApart, OnlyMoved, SameScreens

\* What snapping adds to the position is a number of pixels.
LEMMA SnappingTyped ==
  ASSUME NEW s \in Icon, NEW t \in Icon
  PROVE  CalculateSnapping(s, t).x \in Int /\ CalculateSnapping(s, t).y \in Int
<1>1. ToSide(s.x, t.x, IconW) \in Int /\ ToSide(s.y, t.y, IconH) \in Int
  BY IconRecord DEF ToSide, IconW, IconH
<1>2. QED
  BY <1>1 DEF CalculateSnapping

LEMMA SmallestTyped ==
  ASSUME NEW n \in Nat, NEW ds, DOMAIN ds = 1..n, \A i \in 1..n : ds[i] \in Int
  PROVE  Smallest(ds) \in Int
<1> DEFINE is == {i \in DOMAIN ds : ds[i] # 0}
           least == {i \in is : \A j \in is : Abs(ds[i]) <= Abs(ds[j])}
<1>1. CASE is = {}
  BY <1>1 DEF Smallest
<1>2. CASE is # {}
  <2> DEFINE T == {Abs(ds[i]) : i \in is}
  <2>1. \A i \in is : i \in 1..n /\ Abs(ds[i]) \in Nat
    BY DEF Abs
  <2>2. T \subseteq Nat /\ T # {}
    <3> HIDE DEF is
    <3>1. QED
      BY <1>2, <2>1
  <2>3. PICK m \in T : \A k \in T : m <= k
    <3> HIDE DEF T
    <3>1. T \in SUBSET Int /\ 0 \in Int /\ \A k \in T : 0 <= k
      BY <2>2
    <3>2. QED
      BY <2>2, <3>1, LeastOf
  <2>4. least # {} /\ least \subseteq Nat
    <3> HIDE DEF is
    <3>1. PICK i \in is : m = Abs(ds[i])
      BY <2>3
    <3>2. i \in least
      BY <2>3, <3>1
    <3>3. \A j \in is : j \in Nat
      BY <2>1
    <3>4. QED
      BY <3>2, <3>3
  <2>5. Min(least) \in least
    <3> HIDE DEF least
    <3>1. QED
      BY <2>4, LeastIndex
  <2>6. Min(least) \in 1..n
    BY <2>1, <2>5
  <2>7. Smallest(ds) = ds[Min(least)]
    BY <1>2 DEF Smallest
  <2>8. QED
    <3> HIDE DEF least
    <3>1. QED
      BY <2>6, <2>7
<1>3. QED
  BY <1>1, <1>2

LEMMA SnapMoves ==
  ASSUME NEW a \in ArrState, NEW i \in 1..Len(a.list), NEW b, b = SnapToOthers(a, i)
  PROVE  b \in ArrState /\ OnlyMoved(b, a, i)
<1> DEFINE others == RemoveAt(a.list, i)
           ds == [j \in DOMAIN others |-> CalculateSnapping(a.list[i], others[j])]
           xs == [j \in DOMAIN ds |-> ds[j].x]
           ys == [j \in DOMAIN ds |-> ds[j].y]
           d == CombineAdjustments(ds)
<1>1. b = MoveModel(a, i, d.x, d.y)
  BY DEF SnapToOthers
<1>2. a.list \in Seq(Icon) /\ a.list[i] \in Icon
  BY ArrRecord
<1>3. others \in Seq(Icon)
  <2> HIDE DEF others
  <2>1. others = RemoveAt(a.list, i)
    BY DEF others
  <2>2. QED
    BY <1>2, <2>1, RemovedRow
<1> HIDE DEF others
<1>4. /\ DOMAIN others = 1..Len(others) /\ Len(others) \in Nat
      /\ \A j \in 1..Len(others) : others[j] \in Icon
  BY <1>3
<1>5. \A j \in 1..Len(others) : xs[j] \in Int /\ ys[j] \in Int
  <2>1. SUFFICES ASSUME NEW j \in 1..Len(others) PROVE xs[j] \in Int /\ ys[j] \in Int
    OBVIOUS
  <2>2. /\ xs[j] = CalculateSnapping(a.list[i], others[j]).x
        /\ ys[j] = CalculateSnapping(a.list[i], others[j]).y
    BY <1>4
  <2> HIDE DEF xs, ys
  <2>3. QED
    BY <1>2, <1>4, <2>2, SnappingTyped
<1>6. DOMAIN xs = 1..Len(others) /\ DOMAIN ys = 1..Len(others)
  BY <1>4
<1>7. d.x \in Int /\ d.y \in Int
  <2> DEFINE dx == Smallest(xs)
             dy == Smallest(ys)
             far == Abs(dx) > SnappingThreshold \/ Abs(dy) > SnappingThreshold
  <2>1. d = [x |-> IF far /\ dx # 0 /\ dy # 0 /\ Abs(dx) > Abs(dy) THEN 0 ELSE dx,
             y |-> IF far /\ dx # 0 /\ dy # 0 /\ Abs(dx) < Abs(dy) THEN 0 ELSE dy]
    BY DEF CombineAdjustments
  <2> HIDE DEF xs, ys
  <2>2. dx \in Int
    BY <1>4, <1>5, <1>6, SmallestTyped
  <2>3. dy \in Int
    BY <1>4, <1>5, <1>6, SmallestTyped
  <2> HIDE DEF d, dx, dy, far
  <2>4. QED
    BY <2>1, <2>2, <2>3
<1>8. QED
  <2> HIDE DEF d
  <2>1. QED
    BY <1>1, <1>7, MoveModelMoves

\* A place against a box.
Against(p, box) ==
  p.x = box.l - IconW \/ p.x = box.r \/ p.y = box.t - IconH \/ p.y = box.b

\* calculateNewPos: where a screen is put.
LEMMA NewPosAgainst ==
  ASSUME NEW a \in ArrState, NEW s \in Icon
  PROVE  /\ NewPos(a, s).x \in Int /\ NewPos(a, s).y \in Int
         /\ a.box.l < a.box.r /\ a.box.t < a.box.b => Against(NewPos(a, s), a.box)
<1> DEFINE locals == {i \in DOMAIN a.list : a.list[i].id \in {-1, Local}}
           mid == [x |-> a.view.w \div 2 - IconW \div 2, y |-> a.view.h \div 2 - IconH \div 2]
           from == IF s.x # -1 \/ s.y # -1 THEN s
                   ELSE IF locals # {} THEN a.list[Min(locals)] ELSE mid
           left == (Abs(from.x + IconW \div 2 - a.box.l) * 200) \div IconW
           right == (Abs(from.x + IconW \div 2 - a.box.r) * 200) \div IconW
           top == (Abs(from.y + IconH \div 2 - a.box.t) * 200) \div IconH
           bottom == (Abs(from.y + IconH \div 2 - a.box.b) * 200) \div IconH
           minX == Min({left, right})
           minY == Min({top, bottom})
           onX == \/ minX < minY
                  \/ minX = minY /\ Max({top, bottom}) <= Max({left, right})
<1>1. NewPos(a, s) =
        IF a.box.l = a.box.r \/ a.box.t = a.box.b THEN [x |-> from.x, y |-> from.y]
        ELSE IF onX THEN [x |-> IF left < right THEN a.box.l - IconW ELSE a.box.r, y |-> from.y]
        ELSE [x |-> from.x, y |-> IF top < bottom THEN a.box.t - IconH ELSE a.box.b]
  BY Zenon DEF NewPos
<1>2. from.x \in Int /\ from.y \in Int
  <2>1. CASE from = s
    <3> HIDE DEF from
    <3>1. QED
      BY <2>1, IconRecord
  <2>2. CASE locals # {} /\ from = a.list[Min(locals)]
    <3>1. locals \subseteq Nat /\ \A i \in locals : i \in 1..Len(a.list)
      BY ArrRecord
    <3> HIDE DEF from, locals
    <3>2. Min(locals) \in 1..Len(a.list)
      BY <2>2, <3>1, LeastIndex
    <3>3. QED
      BY <2>2, <3>2, ArrRecord, IconRecord
  <2>3. CASE from = mid
    <3>1. mid.x \in Int /\ mid.y \in Int
      BY ArrRecord DEF IconW, IconH
    <3> HIDE DEF from, mid
    <3>2. QED
      BY <2>3, <3>1
  <2>4. QED
    BY <2>1, <2>2, <2>3
<1>3. a.box.l \in Int /\ a.box.t \in Int /\ a.box.r \in Int /\ a.box.b \in Int
  BY ArrRecord DEF BoxType
<1> HIDE DEF from, left, right, top, bottom, onX
<1>4. NewPos(a, s).x \in {from.x, a.box.l - IconW, a.box.r}
  BY <1>1
<1>5. NewPos(a, s).y \in {from.y, a.box.t - IconH, a.box.b}
  BY <1>1
<1>6. NewPos(a, s).x \in Int /\ NewPos(a, s).y \in Int
  BY <1>2, <1>3, <1>4, <1>5 DEF IconW, IconH
<1>7. ASSUME a.box.l < a.box.r, a.box.t < a.box.b
      PROVE  Against(NewPos(a, s), a.box)
  <2>1. ~(a.box.l = a.box.r \/ a.box.t = a.box.b)
    BY <1>3, <1>7
  <2>2. QED
    BY <1>1, <2>1 DEF Against
<1>8. QED
  BY <1>6, <1>7

\* An icon against the box is clear of those in it; where the box reaches the side of
\* the view there is no place against it.
LEMMA ClearOf ==
  ASSUME NEW s \in Icon, NEW t \in Icon, NEW box \in BoxType, Against(s, box),
         box.l <= t.x \/ box.l <= 0, t.x + IconW <= box.r \/ box.r >= ViewW,
         box.t <= t.y \/ box.t <= 0, t.y + IconH <= box.b \/ box.b >= ViewH
  PROVE  ~Overlap(s, t)
<1>1. PICK x \in Int, y \in Int, v \in Int, w \in Int :
        s.x = x /\ s.y = y /\ t.x = v /\ t.y = w
  BY IconRecord
<1>2. PICK l \in Int, p \in Int, r \in Int, b \in Int :
        box.l = l /\ box.t = p /\ box.r = r /\ box.b = b
  BY DEF BoxType
<1>3. x > -86 /\ x < 600 /\ y > -58 /\ y < 380
  BY <1>1, IconRecord
<1>4. /\ l <= v \/ l <= 0
      /\ v + 86 <= r \/ r >= 600
      /\ p <= w \/ p <= 0
      /\ w + 58 <= b \/ b >= 380
      /\ x = l - 86 \/ x = r \/ y = p - 58 \/ y = b
  BY <1>1, <1>2 DEF Against, IconW, IconH, ViewW, ViewH
<1>5. ~(x < v + 86 /\ v < x + 86 /\ y < w + 58 /\ w < y + 58)
  BY <1>3, <1>4
<1>6. QED
  BY <1>1, <1>5 DEF Overlap, IconW, IconH

\* adjustModel: the icon that was dropped ends clear of the others, and the whole is moved
\* alike after that.
LEMMA AdjustFits ==
  ASSUME NEW a \in ArrState, NEW i \in 1..Len(a.list), NEW short \in Short,
         NEW u, u = AdjustModel(a, i, short)
  PROVE  /\ u \in ArrState /\ SameScreens(u.list, a.list) /\ (a.refused => u.refused)
         /\ ~u.refused /\ OthersApart(a.list, i) => Apart(u.list)
<1> DEFINE s == a.list[i]
           canSnap == Len(a.list) # 1 /\ \A j \in DOMAIN a.list \ {i} : TestSnapTo(s, a.list[j])
           snapped == SnapToOthers(a, i)
           again == MoveModel(snapped, i, snapped.list[i].x - s.x, snapped.list[i].y - s.y)
           base == IF canSnap THEN again ELSE a
           others == DOMAIN a.list \ {i}
           boxed == RecalculateBoundingBox(base, others)
           old == boxed.list[i]
           new == CalculateNewPos(boxed, old)
           set == [MoveModel(boxed, i, new.x - old.x, new.y - old.y)
                     EXCEPT !.refused = @ \/ NewPosRefused(boxed, old)]
<1>1. \/ CollideWithOthers(snapped, i) = {} /\ u = Update(snapped, short)
      \/ u = Update(set, short)
  BY Zenon DEF AdjustModel
<1>2. snapped \in ArrState /\ OnlyMoved(snapped, a, i)
  BY SnapMoves
<1>3. DOMAIN a.list = 1..Len(a.list)
  BY ArrRecord
<1>4. base \in ArrState /\ OnlyMoved(base, a, i)
  <2> HIDE DEF snapped
  <2>1. i \in 1..Len(snapped.list) /\ snapped.list[i] \in Icon /\ a.list[i] \in Icon
    BY <1>2, ArrRecord DEF OnlyMoved, SameScreens
  <2>2. snapped.list[i].x - s.x \in Int /\ snapped.list[i].y - s.y \in Int
    <3>1. PICK x \in Int, y \in Int, v \in Int, w \in Int :
            /\ snapped.list[i].x = x /\ snapped.list[i].y = y /\ s.x = v /\ s.y = w
      <4>1. snapped.list[i].x \in Int /\ snapped.list[i].y \in Int
        BY <2>1, IconRecord
      <4>2. a.list[i].x \in Int /\ a.list[i].y \in Int
        BY <2>1, IconRecord
      <4>3. QED
        BY <4>1, <4>2
    <3>2. x - v \in Int /\ y - w \in Int
      OBVIOUS
    <3>3. QED
      BY <3>1, <3>2
  <2>3. again \in ArrState /\ OnlyMoved(again, snapped, i)
    <3> DEFINE dx == snapped.list[i].x - s.x
               dy == snapped.list[i].y - s.y
    <3>1. dx \in Int /\ dy \in Int /\ again = MoveModel(snapped, i, dx, dy)
      BY <2>2
    <3> HIDE DEF again, dx, dy
    <3>2. QED
      BY <1>2, <2>1, <3>1, MoveModelMoves
  <2> HIDE DEF again
  <2>4. OnlyMoved(again, a, i)
    BY <1>2, <2>3, MovedTwice
  <2>5. OnlyMoved(a, a, i)
    BY DEF OnlyMoved, SameScreens
  <2> HIDE DEF canSnap
  <2>6. QED
    BY <2>3, <2>4, <2>5
<1> HIDE DEF base
<1>5. others \in SUBSET (1..Len(base.list)) /\ i \in 1..Len(base.list)
  BY <1>3, <1>4 DEF OnlyMoved, SameScreens
<1>6. /\ boxed \in ArrState /\ boxed.list = base.list /\ boxed.refused = base.refused
      /\ Around(boxed.box, base.list, others)
      /\ others # {} => boxed.box.l + IconW <= boxed.box.r /\ boxed.box.t + IconH <= boxed.box.b
  <2> HIDE DEF others, boxed
  <2>1. boxed = RecalculateBoundingBox(base, others)
    BY DEF boxed
  <2>2. QED
    BY <1>4, <1>5, <2>1, BoxAround
<1> HIDE DEF boxed
<1>7. old \in Icon /\ i \in 1..Len(boxed.list)
  BY <1>5, <1>6, ArrRecord
<1> DEFINE p == NewPos(boxed, old)
           moved == MoveModel(boxed, i, new.x - old.x, new.y - old.y)
<1>8. p.x \in Int /\ p.y \in Int
  <2> HIDE DEF p, old
  <2>1. p = NewPos(boxed, old)
    BY DEF p
  <2>2. QED
    BY <1>6, <1>7, <2>1, NewPosAgainst
<1>9. /\ new \in Icon
      /\ ~NewPosRefused(boxed, old) => new.x = p.x /\ new.y = p.y
  <2>1. new = SetPos(old, p.x, p.y)
    BY DEF CalculateNewPos
  <2>2. ~NewPosRefused(boxed, old) => FitsX(p.x) /\ FitsY(p.y)
    BY DEF NewPosRefused
  <2> HIDE DEF new, p, old
  <2>3. new \in Icon /\ (FitsX(p.x) => new.x = p.x) /\ (FitsY(p.y) => new.y = p.y)
    BY <1>7, <1>8, <2>1, SetPosTyped
  <2>4. QED
    BY <2>2, <2>3
<1>10. /\ moved \in ArrState /\ OnlyMoved(moved, boxed, i)
       /\ ~moved.refused => moved.list[i].x = new.x /\ moved.list[i].y = new.y
  <2> DEFINE dx == new.x - old.x
             dy == new.y - old.y
  <2>1. moved = MoveModel(boxed, i, dx, dy)
    OBVIOUS
  <2>2. new.x \in Int /\ new.y \in Int /\ old.x \in Int /\ old.y \in Int
    <3> HIDE DEF new, old
    <3>1. QED
      BY <1>7, <1>9, IconRecord
  <2>3. dx \in Int /\ dy \in Int /\ old.x + dx = new.x /\ old.y + dy = new.y
    <3> HIDE DEF new, old
    <3>1. PICK x \in Int, y \in Int, v \in Int, w \in Int :
            new.x = x /\ new.y = y /\ old.x = v /\ old.y = w
      BY <2>2
    <3>2. x - v \in Int /\ y - w \in Int /\ v + (x - v) = x /\ w + (y - w) = y
      OBVIOUS
    <3>3. QED
      BY <3>1, <3>2
  <2> HIDE DEF new, moved, dx, dy
  <2>4. /\ moved \in ArrState /\ OnlyMoved(moved, boxed, i)
        /\ ~moved.refused => /\ moved.list[i].x = boxed.list[i].x + dx
                             /\ moved.list[i].y = boxed.list[i].y + dy
    BY <1>6, <1>7, <2>1, <2>3, MoveModelMoves
  <2>5. QED
    BY <2>3, <2>4
<1>11. /\ set \in ArrState /\ set.list = moved.list
       /\ set.refused = (moved.refused \/ NewPosRefused(boxed, old))
  <2> DEFINE q == moved.refused \/ NewPosRefused(boxed, old)
  <2>1. q \in BOOLEAN
    BY <1>10, ArrRecord DEF NewPosRefused, FitsX, FitsY
  <2>2. set = [moved EXCEPT !.refused = q]
    OBVIOUS
  <2> HIDE DEF set, moved, q
  <2>3. set \in ArrState /\ set.list = moved.list /\ set.refused = q
    BY <1>10, <2>1, <2>2 DEF ArrState
  <2>4. QED
    BY <2>3 DEF q
<1> HIDE DEF set, moved
<1>12. OnlyMoved(set, a, i)
  <2>1. OnlyMoved(boxed, a, i)
    BY <1>4, <1>6 DEF OnlyMoved
  <2>2. OnlyMoved(moved, a, i)
    BY <1>10, <2>1, MovedTwice
  <2>3. boxed.refused => set.refused
    BY <1>10, <1>11 DEF OnlyMoved
  <2>4. QED
    BY <1>11, <2>1, <2>2, <2>3 DEF OnlyMoved
<1>13. ASSUME ~set.refused, OthersApart(a.list, i)
       PROVE  Apart(set.list)
  <2>1. /\ set.list \in Seq(Icon) /\ i \in 1..Len(set.list) /\ Len(set.list) = Len(a.list)
        /\ \A j \in 1..Len(set.list) : set.list[j] \in Icon
    BY <1>11, <1>12, ArrRecord DEF OnlyMoved, SameScreens
  <2>2. OthersApart(set.list, i)
    BY <1>12, <1>13, OthersStay
  <2>3. ASSUME NEW j \in 1..Len(set.list), j # i
        PROVE  ~Overlap(set.list[i], set.list[j])
    <3>1. j \in others /\ others # {}
      BY <1>3, <2>1, <2>3
    <3>2. set.list[j] = base.list[j]
      BY <1>4, <1>12, <2>1, <2>3 DEF OnlyMoved
    <3>3. /\ boxed.box \in BoxType
          /\ boxed.box.l + 86 <= boxed.box.r /\ boxed.box.t + 58 <= boxed.box.b
      BY <1>6, <3>1, ArrRecord DEF IconW, IconH
    <3>4. boxed.box.l < boxed.box.r /\ boxed.box.t < boxed.box.b
      <4>1. PICK l \in Int, t \in Int, r \in Int, b \in Int :
              /\ boxed.box.l = l /\ boxed.box.t = t /\ boxed.box.r = r /\ boxed.box.b = b
        BY <3>3 DEF BoxType
      <4>2. l + 86 <= r /\ t + 58 <= b
        BY <3>3, <4>1
      <4>3. l < r /\ t < b
        BY <4>2
      <4>4. QED
        BY <4>1, <4>3
    <3>5. Against(p, boxed.box)
      <4> HIDE DEF old
      <4>1. QED
        BY <1>6, <1>7, <3>4, NewPosAgainst
    <3>6. set.list[i].x = p.x /\ set.list[i].y = p.y
      <4> HIDE DEF new, p, old
      <4>1. QED
        BY <1>9, <1>10, <1>11, <1>13
    <3>7. Against(set.list[i], boxed.box)
      <4> HIDE DEF p
      <4>1. QED
        BY <3>5, <3>6 DEF Against
    <3>8. /\ boxed.box.l <= set.list[j].x /\ set.list[j].x + IconW <= boxed.box.r
          /\ boxed.box.t <= set.list[j].y /\ set.list[j].y + IconH <= boxed.box.b
      BY <1>6, <3>1, <3>2 DEF Around
    <3>9. QED
      BY <2>1, <3>3, <3>7, <3>8, ClearOf
  <2>4. QED
    BY <2>1, <2>2, <2>3, ApartWith
<1>14. ASSUME CollideWithOthers(snapped, i) = {}, OthersApart(a.list, i)
       PROVE  Apart(snapped.list)
  <2> HIDE DEF snapped
  <2>1. /\ snapped.list \in Seq(Icon) /\ i \in 1..Len(snapped.list)
        /\ DOMAIN snapped.list = 1..Len(snapped.list)
    BY <1>2, ArrRecord DEF OnlyMoved, SameScreens
  <2>2. OthersApart(snapped.list, i)
    BY <1>2, <1>14, OthersStay
  <2>3. \A j \in 1..Len(snapped.list) : j # i => ~Overlap(snapped.list[i], snapped.list[j])
    BY <1>14, <2>1 DEF CollideWithOthers
  <2>4. QED
    BY <2>1, <2>2, <2>3, ApartWith
<1>15. ASSUME NEW b \in ArrState, OnlyMoved(b, a, i), u = Update(b, short),
              ~b.refused /\ OthersApart(a.list, i) => Apart(b.list)
       PROVE  /\ u \in ArrState /\ SameScreens(u.list, a.list) /\ (a.refused => u.refused)
              /\ ~u.refused /\ OthersApart(a.list, i) => Apart(u.list)
  <2>1. u \in ArrState /\ Slid(u, b)
    BY <1>15, UpdateFits
  <2>2. SameScreens(u.list, a.list) /\ (a.refused => u.refused) /\ (b.refused => u.refused)
    BY <1>15, <2>1, SameTransitive DEF Slid, OnlyMoved
  <2>3. ~u.refused /\ OthersApart(a.list, i) => Apart(u.list)
    BY <1>15, <2>1, <2>2, SlidApart
  <2>4. QED
    BY <2>1, <2>2, <2>3
<1>16. QED
  <2> HIDE DEF snapped
  <2>1. CASE CollideWithOthers(snapped, i) = {} /\ u = Update(snapped, short)
    BY <1>2, <1>14, <1>15, <2>1
  <2>2. CASE u = Update(set, short)
    BY <1>11, <1>12, <1>13, <1>15, <2>2
  <2>3. QED
    BY <1>1, <2>1, <2>2

-----------------------------------------------------------------------------
(* Arrangement: screens are added and removed                              *)

Ids(list) == {list[i].id : i \in 1..Len(list)}

LEMMA IdsSame ==
  ASSUME NEW L, NEW M, SameScreens(L, M)
  PROVE  Ids(L) = Ids(M) /\ (RowEach(M) => RowEach(L))
BY DEF SameScreens, Ids, RowEach

\* Those that stay when a screen goes are apart.
ApartWithout(list, id) ==
  \A j, k \in 1..Len(list) :
    list[j].id # id /\ list[k].id # id /\ j # k => ~Overlap(list[j], list[k])

\* removeScreen
LEMMA ScreenRemoved ==
  ASSUME NEW a \in ArrState, RowEach(a.list), NEW id, NEW short \in Short,
         NEW u, u = RemoveScreen(a, id, short)
  PROVE  /\ u \in ArrState /\ RowEach(u.list) /\ (a.refused => u.refused)
         /\ Ids(u.list) = Ids(a.list) \ {id}
         /\ ~u.refused /\ ApartWithout(a.list, id) => Apart(u.list)
         /\ ~u.refused /\ id \in Ids(a.list) /\ u.list # <<>> => BoxFits(u)
<1> DEFINE is == FindScreen(a.list, id)
           i == Min(is)
           L == RemoveAt(a.list, i)
           b == [a EXCEPT !.list = L]
<1>1. /\ a.list \in Seq(Icon) /\ DOMAIN a.list = 1..Len(a.list) /\ Len(a.list) \in Nat
      /\ \A j \in 1..Len(a.list) : a.list[j] \in Icon
  BY ArrRecord
<1>2. is = {j \in 1..Len(a.list) : a.list[j].id = id}
  BY <1>1 DEF FindScreen
<1>3. CASE is = {}
  <2>1. u = a
    BY <1>3 DEF RemoveScreen
  <2>2. \A j \in 1..Len(a.list) : a.list[j].id # id
    BY <1>2, <1>3
  <2>3. Ids(a.list) = Ids(a.list) \ {id} /\ id \notin Ids(a.list)
    BY <2>2 DEF Ids
  <2>4. ApartWithout(a.list, id) => Apart(a.list)
    BY <1>1, <2>2 DEF ApartWithout, Apart
  <2>5. QED
    BY <2>1, <2>3, <2>4
<1>4. CASE is # {}
  <2>1. u = Update(b, short)
    BY <1>4 DEF RemoveScreen
  <2>2. i \in 1..Len(a.list) /\ a.list[i].id = id
    <3>1. is \subseteq Nat
      BY <1>2
    <3>2. i \in is
      <4> HIDE DEF is
      <4>1. QED
        BY <1>4, <3>1, LeastIndex
    <3>3. QED
      BY <1>2, <3>2
  <2>3. \A j \in 1..Len(a.list) : a.list[j].id = id => j = i
    BY <2>2 DEF RowEach
  <2>4. L \in Seq(Icon) /\ Len(L) = Len(a.list) - 1 /\ TakenOut(L, a.list, i)
    <3> HIDE DEF L, i
    <3>1. L = RemoveAt(a.list, i)
      BY DEF L
    <3>2. QED
      BY <1>1, <2>2, <3>1, RemovedRow
  <2>5. b \in ArrState /\ b.list = L /\ b.refused = a.refused
    <3> HIDE DEF L
    <3>1. QED
      BY <2>4 DEF ArrState
  <2> HIDE DEF is, L, b, i
  <2>6. \A k \in 1..Len(L) : /\ Skip(i, k) \in 1..Len(a.list) /\ L[k] = a.list[Skip(i, k)]
                             /\ Skip(i, k) # i
    <3>1. \A k \in 1..Len(L) : Skip(i, k) # i
      BY <2>2, <2>4 DEF Skip
    <3>2. QED
      BY <2>4, <3>1, Zenon DEF TakenOut
  <2>7. \A j, k \in 1..Len(L) : Skip(i, j) = Skip(i, k) => j = k
    BY <2>2, <2>4 DEF Skip
  <2>8. \A j \in 1..Len(a.list) : j # i => \E k \in 1..Len(L) : Skip(i, k) = j
    <3>1. SUFFICES ASSUME NEW j \in 1..Len(a.list), j # i
                   PROVE  \E k \in 1..Len(L) : Skip(i, k) = j
      OBVIOUS
    <3>2. CASE j < i
      <4>1. j \in 1..Len(L) /\ Skip(i, j) = j
        BY <1>1, <2>2, <2>4, <3>1, <3>2 DEF Skip
      <4>2. QED
        BY <4>1
    <3>3. CASE ~(j < i)
      <4>1. j - 1 \in 1..Len(L) /\ ~(j - 1 < i) /\ (j - 1) + 1 = j
        BY <1>1, <2>2, <2>4, <3>1, <3>3
      <4>2. Skip(i, j - 1) = j
        BY <4>1, Zenon DEF Skip
      <4>3. QED
        BY <4>1, <4>2
    <3>4. QED
      BY <3>2, <3>3
  <2>9. RowEach(L)
    <3>1. SUFFICES ASSUME NEW j \in 1..Len(L), NEW k \in 1..Len(L), L[j].id = L[k].id
                   PROVE  j = k
      BY DEF RowEach
    <3>2. Skip(i, j) = Skip(i, k)
      BY <2>6, <3>1 DEF RowEach
    <3>3. QED
      BY <2>7, <3>2
  <2>10. Ids(L) = Ids(a.list) \ {id}
    <3>1. \A k \in 1..Len(L) : L[k].id \in Ids(a.list) \ {id}
      BY <2>3, <2>6 DEF Ids
    <3>2. \A j \in 1..Len(a.list) : a.list[j].id # id => a.list[j].id \in Ids(L)
      BY <2>2, <2>6, <2>8 DEF Ids
    <3>3. QED
      BY <3>1, <3>2 DEF Ids
  <2>11. ApartWithout(a.list, id) => Apart(L)
    <3>1. SUFFICES ASSUME ApartWithout(a.list, id), NEW j \in 1..Len(L), NEW k \in 1..Len(L),
                          j # k
                   PROVE  ~Overlap(L[j], L[k])
      BY <2>4 DEF Apart
    <3>2. /\ Skip(i, j) # Skip(i, k) /\ Skip(i, j) \in 1..Len(a.list)
          /\ Skip(i, k) \in 1..Len(a.list)
          /\ a.list[Skip(i, j)].id # id /\ a.list[Skip(i, k)].id # id
      BY <2>3, <2>6, <2>7, <3>1
    <3>3. ~Overlap(a.list[Skip(i, j)], a.list[Skip(i, k)])
      BY <3>1, <3>2 DEF ApartWithout
    <3>4. QED
      BY <2>6, <3>3
  <2>12. u \in ArrState /\ Slid(u, b) /\ (~u.refused /\ b.list # <<>> => BoxFits(u))
    BY <2>1, <2>5, UpdateFits
  <2>13. Ids(u.list) = Ids(L) /\ RowEach(u.list) /\ (a.refused => u.refused)
    BY <2>5, <2>9, <2>12, IdsSame DEF Slid
  <2>14. ~u.refused /\ ApartWithout(a.list, id) => Apart(u.list)
    BY <2>5, <2>11, <2>12, SlidApart
  <2>15. u.list # <<>> => b.list # <<>>
    <3>1. u.list \in Seq(Icon) /\ b.list \in Seq(Icon) /\ Len(u.list) = Len(b.list)
      BY <2>5, <2>12, ArrRecord DEF Slid, SameScreens
    <3>2. QED
      BY <3>1
  <2>16. QED
    BY <2>10, <2>12, <2>13, <2>14, <2>15
<1>5. QED
  BY <1>3, <1>4

\* addScreen
LEMMA ScreenAdded ==
  ASSUME NEW a \in ArrState, NEW id \in ScreenId \cup {-1}, NEW short \in Short,
         NEW u, u = AddScreen(a, id, short)
  PROVE  /\ u \in ArrState /\ (a.refused => u.refused)
         /\ Ids(u.list) = Ids(a.list) \cup {id}
         /\ RowEach(a.list) /\ id \notin Ids(a.list) => RowEach(u.list)
         /\ ~u.refused /\ (a.list = <<>> \/ (Apart(a.list) /\ BoxFits(a))) => Apart(u.list)
<1> DEFINE s == NewScreen(id)
           p == NewPos(a, s)
           n == CalculateNewPos(a, s)
           L == Append(a.list, n)
           q == a.refused \/ NewPosRefused(a, s)
           b == [a EXCEPT !.list = L, !.refused = q]
           m == Len(a.list)
<1>1. u = Update(b, short)
  BY DEF AddScreen
<1>2. s \in Icon /\ s.id = id
  BY DEF NewScreen, Icon, IconW, IconH, ViewW, ViewH
<1> HIDE DEF s
<1>3. /\ p.x \in Int /\ p.y \in Int
      /\ a.box.l < a.box.r /\ a.box.t < a.box.b => Against(p, a.box)
  BY <1>2, NewPosAgainst
<1>4. /\ n \in Icon /\ n.id = id
      /\ ~NewPosRefused(a, s) => n.x = p.x /\ n.y = p.y
  <2>1. n = SetPos(s, p.x, p.y)
    BY DEF CalculateNewPos
  <2>2. ~NewPosRefused(a, s) => FitsX(p.x) /\ FitsY(p.y)
    BY DEF NewPosRefused
  <2> HIDE DEF n, p
  <2>3. n \in Icon /\ n.id = s.id /\ (FitsX(p.x) => n.x = p.x) /\ (FitsY(p.y) => n.y = p.y)
    BY <1>2, <1>3, <2>1, SetPosTyped
  <2>4. QED
    BY <1>2, <2>2, <2>3
<1> HIDE DEF n, p
<1>5. /\ a.list \in Seq(Icon) /\ m \in Nat /\ DOMAIN a.list = 1..m
      /\ \A j \in 1..m : a.list[j] \in Icon
  BY ArrRecord
<1>6. /\ L \in Seq(Icon) /\ Len(L) = m + 1 /\ L[m + 1] = n
      /\ \A j \in 1..m : L[j] = a.list[j]
  BY <1>4, <1>5
<1>7. q \in BOOLEAN /\ (a.refused => q) /\ (~q => ~NewPosRefused(a, s))
  BY ArrRecord DEF NewPosRefused, FitsX, FitsY
<1> HIDE DEF L, q
<1>8. b \in ArrState /\ b.list = L /\ b.refused = q
  BY <1>6, <1>7 DEF ArrState
<1> HIDE DEF b
<1>9. u \in ArrState /\ Slid(u, b)
  BY <1>1, <1>8, UpdateFits
<1>10. \A j \in 1..Len(L) : j # m + 1 => j \in 1..m
  BY <1>5, <1>6
<1>11. Ids(L) = Ids(a.list) \cup {id}
  <2>1. \A j \in 1..Len(L) : L[j].id \in Ids(a.list) \cup {id}
    BY <1>4, <1>6, <1>10 DEF Ids
  <2>2. \A j \in 1..m : a.list[j].id \in Ids(L)
    <3>1. \A j \in 1..m : j \in 1..Len(L)
      BY <1>5, <1>6
    <3>2. QED
      BY <1>6, <3>1 DEF Ids
  <2>3. id \in Ids(L)
    <3>1. m + 1 \in 1..Len(L)
      BY <1>5, <1>6
    <3>2. QED
      BY <1>4, <1>6, <3>1 DEF Ids
  <2>4. QED
    BY <2>1, <2>2, <2>3 DEF Ids
<1>12. ASSUME RowEach(a.list), id \notin Ids(a.list)
       PROVE  RowEach(L)
  <2>1. \A j \in 1..m : L[j].id # id
    BY <1>6, <1>12 DEF Ids
  <2>2. SUFFICES ASSUME NEW j \in 1..Len(L), NEW k \in 1..Len(L), L[j].id = L[k].id
                 PROVE  j = k
    BY DEF RowEach
  <2>3. CASE j = m + 1 \/ k = m + 1
    BY <1>4, <1>6, <1>10, <2>1, <2>2, <2>3
  <2>4. CASE j # m + 1 /\ k # m + 1
    <3>1. j \in 1..m /\ k \in 1..m
      BY <1>10, <2>4
    <3>2. QED
      BY <1>6, <1>12, <2>2, <3>1 DEF RowEach
  <2>5. QED
    BY <2>3, <2>4
<1>13. ASSUME ~q, a.list = <<>> \/ (Apart(a.list) /\ BoxFits(a))
       PROVE  Apart(L)
  <2>1. OthersApart(L, m + 1)
    <3>1. SUFFICES ASSUME NEW j \in 1..Len(L), NEW k \in 1..Len(L),
                          j # m + 1, k # m + 1, j # k
                   PROVE  ~Overlap(L[j], L[k])
      BY DEF OthersApart
    <3>2. j \in 1..m /\ k \in 1..m
      BY <1>10, <3>1
    <3>3. a.list # <<>>
      BY <3>2
    <3>4. QED
      BY <1>5, <1>6, <1>13, <3>1, <3>2, <3>3 DEF Apart
  <2>2. ASSUME NEW j \in 1..Len(L), j # m + 1
        PROVE  ~Overlap(L[m + 1], L[j])
    <3>1. j \in 1..m
      BY <1>10, <2>2
    <3>2. a.list # <<>>
      BY <3>1
    <3>3. BoxFits(a)
      BY <1>13, <3>2
    <3>4. Against(n, a.box)
      BY <1>3, <1>4, <1>7, <1>13, <3>3 DEF Against, BoxFits
    <3>5. /\ a.box.l <= a.list[j].x \/ a.box.l <= 0
          /\ a.list[j].x + IconW <= a.box.r \/ a.box.r >= ViewW
          /\ a.box.t <= a.list[j].y \/ a.box.t <= 0
          /\ a.list[j].y + IconH <= a.box.b \/ a.box.b >= ViewH
      BY <3>1, <3>3, Zenon DEF BoxFits
    <3>6. a.box \in BoxType /\ a.list[j] \in Icon
      BY <1>5, <3>1, ArrRecord
    <3>7. ~Overlap(n, a.list[j])
      BY <1>4, <3>4, <3>5, <3>6, ClearOf
    <3>8. QED
      BY <1>6, <3>1, <3>7
  <2>3. m + 1 \in 1..Len(L)
    BY <1>5, <1>6
  <2>4. QED
    BY <1>6, <2>1, <2>2, <2>3, ApartWith
<1>14. Ids(u.list) = Ids(L) /\ (RowEach(L) => RowEach(u.list))
  BY <1>8, <1>9, IdsSame DEF Slid
<1>15. (a.refused => u.refused) /\ (q => u.refused)
  BY <1>7, <1>8, <1>9 DEF Slid
<1>16. ~u.refused /\ Apart(L) => Apart(u.list)
  BY <1>8, <1>9, SlidApart
<1>17. QED
  BY <1>7, <1>9, <1>11, <1>12, <1>13, <1>14, <1>15, <1>16

-----------------------------------------------------------------------------
(* Arrangement: several screens are taken off, one by one                  *)

\* f is what is left once each of the sets of screens in D is taken off.
Taken(f, a, short, D) ==
  f = [todo \in D |-> IF todo = {} THEN a
                      ELSE RemoveScreen(f[todo \ {Min(todo)}], Min(todo), short)]

UpTo(ids, n) == {todo \in SUBSET ids : Cardinality(todo) <= n}

LEMMA LessTaken ==
  ASSUME NEW ids \in SUBSET Nat, IsFiniteSet(ids), NEW todo \in SUBSET ids, todo # {}
  PROVE  /\ Min(todo) \in todo /\ todo \ {Min(todo)} \in SUBSET ids
         /\ Cardinality(todo) \in Nat /\ Cardinality(todo) # 0
         /\ Cardinality(todo \ {Min(todo)}) = Cardinality(todo) - 1
<1>1. Min(todo) \in todo
  BY LeastIndex
<1>2. IsFiniteSet(todo)
  BY FS_Subset
<1>3. Cardinality(todo) \in Nat /\ Cardinality(todo) # 0
  BY <1>2, FS_CardinalityType, FS_EmptySet
<1>4. Cardinality(todo \ {Min(todo)}) = Cardinality(todo) - 1
  BY <1>1, <1>2, FS_RemoveElement
<1>5. QED
  BY <1>1, <1>3, <1>4

\* There is such a function: a least size for which there is none is neither 0 nor more.
LEMMA TakenExists ==
  ASSUME NEW a, NEW short, NEW ids \in SUBSET Nat, IsFiniteSet(ids)
  PROVE  \E f : Taken(f, a, short, SUBSET ids)
<1> DEFINE H(n) == \E f : Taken(f, a, short, UpTo(ids, n))
           T == {n \in Nat : ~H(n)}
<1>1. H(0)
  <2>1. \A todo \in UpTo(ids, 0) : todo = {}
    <3>1. SUFFICES ASSUME NEW todo \in UpTo(ids, 0), todo # {} PROVE FALSE
      OBVIOUS
    <3>2. todo \in SUBSET ids /\ Cardinality(todo) <= 0
      BY DEF UpTo
    <3>3. Cardinality(todo) \in Nat /\ Cardinality(todo) # 0
      BY <3>1, <3>2, LessTaken
    <3>4. QED
      BY <3>2, <3>3
  <2> DEFINE g == [todo \in UpTo(ids, 0) |-> a]
  <2>2. g = [todo \in UpTo(ids, 0) |-> IF todo = {} THEN a
               ELSE RemoveScreen(g[todo \ {Min(todo)}], Min(todo), short)]
    BY <2>1
  <2> HIDE DEF g
  <2>3. Taken(g, a, short, UpTo(ids, 0))
    BY <2>2 DEF Taken
  <2>4. QED
    BY <2>3
<1>2. ASSUME NEW n \in Nat, H(n)
      PROVE  H(n + 1)
  <2>1. PICK f : Taken(f, a, short, UpTo(ids, n))
    BY <1>2
  <2> DEFINE less(todo) == todo \ {Min(todo)}
             g == [todo \in UpTo(ids, n + 1) |-> IF todo = {} THEN a
                     ELSE RemoveScreen(f[less(todo)], Min(todo), short)]
  <2>2. \A todo \in UpTo(ids, n) : todo \in UpTo(ids, n + 1)
    <3>1. SUFFICES ASSUME NEW todo \in UpTo(ids, n) PROVE todo \in UpTo(ids, n + 1)
      OBVIOUS
    <3>2. todo \in SUBSET ids /\ Cardinality(todo) <= n
      BY DEF UpTo
    <3>3. Cardinality(todo) \in Nat
      BY <3>2, FS_Subset, FS_CardinalityType
    <3>4. QED
      BY <3>2, <3>3 DEF UpTo
  <2>3. \A todo \in UpTo(ids, n) :
          f[todo] = IF todo = {} THEN a ELSE RemoveScreen(f[less(todo)], Min(todo), short)
    BY <2>1 DEF Taken
  <2>4. \A todo \in UpTo(ids, n + 1) :
          g[todo] = IF todo = {} THEN a ELSE RemoveScreen(f[less(todo)], Min(todo), short)
    OBVIOUS
  <2>5. \A todo \in UpTo(ids, n) : g[todo] = f[todo]
    <3> HIDE DEF g, less
    <3>1. QED
      BY <2>2, <2>3, <2>4
  <2>6. \A todo \in UpTo(ids, n + 1) : todo # {} => less(todo) \in UpTo(ids, n)
    <3>1. SUFFICES ASSUME NEW todo \in UpTo(ids, n + 1), todo # {}
                   PROVE  less(todo) \in UpTo(ids, n)
      OBVIOUS
    <3>2. todo \in SUBSET ids /\ Cardinality(todo) <= n + 1
      BY DEF UpTo
    <3>3. /\ Cardinality(todo) \in Nat /\ less(todo) \in SUBSET ids
          /\ Cardinality(less(todo)) = Cardinality(todo) - 1
      BY <3>1, <3>2, LessTaken
    <3> HIDE DEF less
    <3>4. QED
      BY <3>2, <3>3 DEF UpTo
  <2>7. \A todo \in UpTo(ids, n + 1) :
          g[todo] = IF todo = {} THEN a ELSE RemoveScreen(g[less(todo)], Min(todo), short)
    <3> HIDE DEF g, less
    <3>1. QED
      BY <2>4, <2>5, <2>6
  <2>8. g = [todo \in UpTo(ids, n + 1) |-> g[todo]]
    OBVIOUS
  <2>9. Taken(g, a, short, UpTo(ids, n + 1))
    <3> HIDE DEF g
    <3>1. g = [todo \in UpTo(ids, n + 1) |-> IF todo = {} THEN a
                 ELSE RemoveScreen(g[less(todo)], Min(todo), short)]
      BY <2>7, <2>8
    <3>2. QED
      BY <3>1 DEF Taken
  <2>10. QED
    BY <2>9
<1>3. \A n \in Nat : H(n)
  <2>1. SUFFICES ASSUME T # {} PROVE FALSE
    OBVIOUS
  <2>2. T \in SUBSET Int /\ 0 \in Int /\ \A n \in T : 0 <= n
    OBVIOUS
  <2>3. Min(T) \in T /\ \A n \in T : Min(T) <= n
    <3> HIDE DEF T
    <3>1. QED
      BY <2>1, <2>2, LeastOf
  <2>4. Min(T) \in Nat /\ ~H(Min(T))
    BY <2>3
  <2>5. PICK n \in Nat : n = Min(T)
    BY <2>4
  <2> HIDE DEF H
  <2>6. n # 0
    BY <1>1, <2>4, <2>5
  <2>7. n - 1 \in Nat /\ (n - 1) + 1 = n
    BY <2>6
  <2>8. H(n - 1)
    <3>1. CASE n - 1 \in T
      <4>1. n <= n - 1
        BY <2>3, <2>5, <3>1
      <4>2. QED
        BY <2>7, <4>1
    <3>2. CASE n - 1 \notin T
      BY <2>7, <3>2
    <3>3. QED
      BY <3>1, <3>2
  <2>9. H((n - 1) + 1)
    BY <1>2, <2>7, <2>8
  <2>10. QED
    BY <2>4, <2>5, <2>7, <2>9
<1>4. Cardinality(ids) \in Nat /\ UpTo(ids, Cardinality(ids)) = SUBSET ids
  <2>1. Cardinality(ids) \in Nat
    BY FS_CardinalityType
  <2>2. \A todo \in SUBSET ids : Cardinality(todo) <= Cardinality(ids)
    BY FS_Subset
  <2>3. QED
    BY <2>1, <2>2 DEF UpTo
<1>5. QED
  BY <1>3, <1>4

LEMMA ScreensRemoved ==
  ASSUME NEW a \in ArrState, RowEach(a.list), NEW short \in Short,
         NEW ids \in SUBSET Nat, IsFiniteSet(ids), NEW u, u = RemoveScreens(a, ids, short)
  PROVE  /\ u \in ArrState /\ RowEach(u.list) /\ (a.refused => u.refused)
         /\ Ids(u.list) = Ids(a.list) \ ids
<1> DEFINE f == CHOOSE g : Taken(g, a, short, SUBSET ids)
<1>1. u = f[ids]
  BY Zenon DEF RemoveScreens, Taken
<1>2. Taken(f, a, short, SUBSET ids)
  <2>1. \E g : Taken(g, a, short, SUBSET ids)
    BY TakenExists
  <2>2. QED
    BY <2>1, Zenon
<1> HIDE DEF f
<1>3. \A todo \in SUBSET ids :
        f[todo] = IF todo = {} THEN a
                  ELSE RemoveScreen(f[todo \ {Min(todo)}], Min(todo), short)
  BY <1>2 DEF Taken
<1> DEFINE P(todo) == /\ f[todo] \in ArrState /\ RowEach(f[todo].list)
                      /\ (a.refused => f[todo].refused)
                      /\ Ids(f[todo].list) = Ids(a.list) \ todo
           T == {n \in Nat : \E todo \in SUBSET ids : Cardinality(todo) = n /\ ~P(todo)}
<1>4. \A todo \in SUBSET ids : P(todo)
  <2>1. SUFFICES ASSUME NEW start \in SUBSET ids, ~P(start) PROVE FALSE
    OBVIOUS
  <2>2. Cardinality(start) \in T
    <3>1. Cardinality(start) \in Nat
      BY FS_Subset, FS_CardinalityType
    <3> HIDE DEF P
    <3>2. QED
      BY <2>1, <3>1
  <2>3. T \in SUBSET Int /\ 0 \in Int /\ (\A n \in T : 0 <= n) /\ T # {}
    BY <2>2
  <2>4. Min(T) \in T /\ \A n \in T : Min(T) <= n
    <3> HIDE DEF T
    <3>1. QED
      BY <2>3, LeastOf
  <2>5. PICK todo \in SUBSET ids : Cardinality(todo) = Min(T) /\ ~P(todo)
    <3> HIDE DEF P
    <3>1. QED
      BY <2>4
  <2>6. CASE todo = {}
    <3>1. f[todo] = a
      BY <1>3, <2>6
    <3>2. P(todo)
      BY <2>6, <3>1
    <3>3. QED
      BY <2>5, <3>2
  <2>7. CASE todo # {}
    <3> DEFINE id == Min(todo)
               rest == todo \ {id}
    <3>1. /\ id \in todo /\ rest \in SUBSET ids
          /\ Cardinality(todo) \in Nat /\ Cardinality(rest) = Cardinality(todo) - 1
          /\ Cardinality(todo) # 0
      BY <2>7, LessTaken
    <3>2. P(rest)
      <4> HIDE DEF P, rest
      <4>1. SUFFICES ASSUME ~P(rest) PROVE FALSE
        OBVIOUS
      <4>2. Cardinality(rest) \in T
        BY <3>1, <4>1
      <4>3. Cardinality(todo) <= Cardinality(rest)
        BY <2>4, <2>5, <4>2
      <4>4. QED
        BY <3>1, <4>3
    <3>3. f[todo] = RemoveScreen(f[rest], id, short)
      BY <1>3, <2>7
    <3>4. todo = rest \cup {id}
      BY <3>1
    <3> HIDE DEF id, rest
    <3>5. /\ f[todo] \in ArrState /\ RowEach(f[todo].list) /\ (f[rest].refused => f[todo].refused)
          /\ Ids(f[todo].list) = Ids(f[rest].list) \ {id}
      <4>1. f[rest] \in ArrState /\ RowEach(f[rest].list)
        BY <3>2
      <4> HIDE DEF P
      <4>2. PICK b \in ArrState : b = f[rest]
        BY <4>1
      <4>3. PICK v : v = f[todo]
        OBVIOUS
      <4>4. RowEach(b.list) /\ v = RemoveScreen(b, id, short)
        BY <3>3, <4>1, <4>2, <4>3
      <4>5. /\ v \in ArrState /\ RowEach(v.list) /\ (b.refused => v.refused)
            /\ Ids(v.list) = Ids(b.list) \ {id}
        BY <4>4, ScreenRemoved
      <4>6. QED
        BY <4>2, <4>3, <4>5
    <3>6. P(todo)
      BY <3>2, <3>4, <3>5
    <3>7. QED
      BY <2>5, <3>6
  <2>8. QED
    BY <2>6, <2>7
<1>5. QED
  BY <1>1, <1>4

-----------------------------------------------------------------------------
(* Arrangement: what holds of the icons                                    *)

\* The window has one icon for each screen, and that of the unnamed local screen until the
\* first snapshot.
ArrInv ==
  /\ ArrTypeOK /\ RowEach(arr.list)
  /\ arrUsed.snapshots = 0 => -1 \in Ids(arr.list)
  /\ NoOverlap

LEMMA ArrTyped ==
  ArrTypeOK <=> /\ arr \in ArrState /\ gone \in BOOLEAN
                /\ arrUsed \in [drops : 0..MaxDrops, snapshots : 0..MaxSnapshots]
BY DEF ArrTypeOK, ArrState, BoxType

LEMMA EmptyList ==
  Ids(<<>>) = {} /\ RowEach(<<>>) /\ Apart(<<>>)
BY DEF Ids, RowEach, Apart

\* The bounds are numbers, and count up.
LEMMA BoundsTyped ==
  MaxDrops \in Nat /\ MaxSnapshots \in Nat
BY ArrangementAssumption, Zenon

LEMMA ArrStarts == ArrInit => ArrInv
<1> SUFFICES ASSUME ArrInit PROVE ArrInv
  OBVIOUS
<1> DEFINE a == [list |-> <<>>, box |-> [l |-> 0, t |-> 0, r |-> 0, b |-> 0],
                 view |-> [w |-> ViewW, h |-> ViewH], times |-> <<1, 1>>, refused |-> FALSE]
           short == [w |-> 0, h |-> 0]
<1>1. arr = AddScreen(a, -1, short)
  BY DEF ArrInit
<1>2. a \in ArrState /\ a.list = <<>>
  <2>1. <<>> \in Seq(Icon) /\ ViewW \in Int /\ ViewH \in Int /\ <<1, 1>> \in Nat \X Nat
    BY DEF ViewW, ViewH
  <2>2. QED
    BY <2>1 DEF ArrState, BoxType
<1>3. short \in Short
  BY DEF Short
<1> HIDE DEF a, short
<1>4. /\ arr \in ArrState /\ Ids(arr.list) = Ids(a.list) \cup {-1}
      /\ RowEach(a.list) /\ -1 \notin Ids(a.list) => RowEach(arr.list)
      /\ ~arr.refused => Apart(arr.list)
  <2>1. PICK id \in ScreenId \cup {-1} : id = -1
    OBVIOUS
  <2>2. PICK u : u = arr
    OBVIOUS
  <2>3. u = AddScreen(a, id, short)
    BY <1>1, <2>1, <2>2
  <2>4. /\ u \in ArrState /\ Ids(u.list) = Ids(a.list) \cup {id}
        /\ RowEach(a.list) /\ id \notin Ids(a.list) => RowEach(u.list)
        /\ ~u.refused /\ a.list = <<>> => Apart(u.list)
    BY <1>2, <1>3, <2>3, ScreenAdded
  <2>5. QED
    BY <1>2, <2>1, <2>2, <2>4
<1>5. RowEach(arr.list) /\ -1 \in Ids(arr.list)
  BY <1>2, <1>4, EmptyList
<1>6. ArrTypeOK
  <2>1. gone \in BOOLEAN /\ arrUsed \in [drops : 0..MaxDrops, snapshots : 0..MaxSnapshots]
    <3>1. gone = FALSE /\ arrUsed = [drops |-> 0, snapshots |-> 0]
      BY DEF ArrInit
    <3>2. 0 \in 0..MaxDrops /\ 0 \in 0..MaxSnapshots
      BY BoundsTyped
    <3>3. arrUsed \in [drops : 0..MaxDrops, snapshots : 0..MaxSnapshots]
      BY <3>1, <3>2
    <3>4. QED
      BY <3>1, <3>3
  <2>2. QED
    BY <1>4, <2>1, ArrTyped
<1>7. QED
  BY <1>4, <1>5, <1>6 DEF ArrInv, NoOverlap

LEMMA DropsUsed ==
  ASSUME ArrTypeOK, arrUsed.drops < MaxDrops,
         arrUsed' = [arrUsed EXCEPT !.drops = @ + 1]
  PROVE  /\ arrUsed' \in [drops : 0..MaxDrops, snapshots : 0..MaxSnapshots]
         /\ arrUsed'.snapshots = arrUsed.snapshots
<1>1. arrUsed \in [drops : 0..MaxDrops, snapshots : 0..MaxSnapshots]
  BY ArrTyped
<1>2. arrUsed.drops \in 0..MaxDrops /\ arrUsed.snapshots \in 0..MaxSnapshots
  BY <1>1
<1>3. arrUsed.drops + 1 \in 0..MaxDrops /\ arrUsed.drops + 1 # 0
  BY <1>2, BoundsTyped
<1>4. QED
  BY <1>1, <1>2, <1>3

LEMMA SnapshotsUsed ==
  ASSUME ArrTypeOK, arrUsed.snapshots < MaxSnapshots,
         arrUsed' = [arrUsed EXCEPT !.snapshots = @ + 1]
  PROVE  /\ arrUsed' \in [drops : 0..MaxDrops, snapshots : 0..MaxSnapshots]
         /\ arrUsed'.snapshots # 0
<1>1. arrUsed \in [drops : 0..MaxDrops, snapshots : 0..MaxSnapshots]
  BY ArrTyped
<1>2. arrUsed.drops \in 0..MaxDrops /\ arrUsed.snapshots \in 0..MaxSnapshots
  BY <1>1
<1>3. arrUsed.snapshots + 1 \in 0..MaxSnapshots /\ arrUsed.snapshots + 1 # 0
  BY <1>2, BoundsTyped
<1>4. QED
  BY <1>1, <1>2, <1>3

LEMMA DropFits ==
  ASSUME ArrInv, NEW i \in DOMAIN arr.list, NEW spot \in Spot, Drop(i, spot)
  PROVE  ArrInv'
<1>1. arr \in ArrState /\ i \in 1..Len(arr.list) /\ arr.list[i] \in Icon
  BY ArrTyped, ArrRecord DEF ArrInv
<1>2. spot[1] \in Int /\ spot[2] \in Int
  BY ArrangementAssumption
<1> DEFINE s == SetPos(arr.list[i], spot[1], spot[2])
           a == [arr EXCEPT !.list[i] = s]
<1>3. PICK short \in Short : arr' = AdjustModel(a, i, short)
  BY DEF Drop
<1>4. s \in Icon /\ s.id = arr.list[i].id
  BY <1>1, <1>2, SetPosTyped
<1>5. a \in ArrState /\ OnlyMoved(a, arr, i)
  <2> HIDE DEF s
  <2>1. arr.refused \in BOOLEAN
    BY <1>1, ArrRecord
  <2>2. a = Changed(arr, i, s, arr.refused)
    BY <1>1 DEF Changed, ArrState
  <2> HIDE DEF a
  <2>3. QED
    BY <1>1, <1>4, <2>1, <2>2, IconChanged
<1> HIDE DEF a, s
<1>6. i \in 1..Len(a.list)
  BY <1>1, <1>5 DEF OnlyMoved, SameScreens
<1>7. /\ arr' \in ArrState /\ SameScreens(arr'.list, a.list) /\ (a.refused => arr'.refused)
      /\ ~arr'.refused /\ OthersApart(a.list, i) => Apart(arr'.list)
  <2>1. PICK u : u = arr'
    OBVIOUS
  <2>2. u = AdjustModel(a, i, short)
    BY <1>3, <2>1
  <2>3. /\ u \in ArrState /\ SameScreens(u.list, a.list) /\ (a.refused => u.refused)
        /\ ~u.refused /\ OthersApart(a.list, i) => Apart(u.list)
    BY <1>5, <1>6, <2>2, AdjustFits
  <2>4. QED
    BY <2>1, <2>3
<1>8. SameScreens(arr'.list, arr.list) /\ (arr.refused => arr'.refused)
  BY <1>5, <1>7, SameTransitive DEF OnlyMoved
<1>9. RowEach(arr'.list) /\ Ids(arr'.list) = Ids(arr.list)
  BY <1>8, IdsSame DEF ArrInv
<1>10. ~arr'.refused => Apart(arr'.list)
  <2>1. SUFFICES ASSUME ~arr'.refused PROVE Apart(arr'.list)
    OBVIOUS
  <2>2. Apart(arr.list)
    BY <1>8, <2>1 DEF ArrInv, NoOverlap
  <2>3. OthersApart(arr.list, i)
    BY <1>1, <2>2, ArrRecord DEF Apart, OthersApart
  <2>4. QED
    BY <1>5, <1>7, <2>1, <2>3, OthersStay
<1>11. /\ arrUsed' \in [drops : 0..MaxDrops, snapshots : 0..MaxSnapshots]
       /\ arrUsed'.snapshots = arrUsed.snapshots
  BY DropsUsed DEF ArrInv, Drop
<1>12. ArrTypeOK'
  BY <1>7, <1>11 DEF ArrInv, ArrTypeOK, Drop, ArrState, BoxType
<1>13. QED
  BY <1>9, <1>10, <1>11, <1>12 DEF ArrInv, NoOverlap

LEMMA RemoveByUserFits ==
  ASSUME ArrInv, NEW i \in DOMAIN arr.list, RemoveByUser(i)
  PROVE  ArrInv'
<1> DEFINE id == arr.list[i].id
<1>1. arr \in ArrState
  BY ArrTyped DEF ArrInv
<1>2. PICK short \in Short : arr' = RemoveScreen(arr, id, short)
  BY DEF RemoveByUser
<1>3. id # -1
  BY DEF RemoveByUser
<1> HIDE DEF id
<1>4. /\ arr' \in ArrState /\ RowEach(arr'.list) /\ (arr.refused => arr'.refused)
      /\ Ids(arr'.list) = Ids(arr.list) \ {id}
      /\ ~arr'.refused /\ ApartWithout(arr.list, id) => Apart(arr'.list)
  <2>1. PICK u : u = arr'
    OBVIOUS
  <2>2. u = RemoveScreen(arr, id, short) /\ RowEach(arr.list)
    BY <1>2, <2>1 DEF ArrInv
  <2>3. /\ u \in ArrState /\ RowEach(u.list) /\ (arr.refused => u.refused)
        /\ Ids(u.list) = Ids(arr.list) \ {id}
        /\ ~u.refused /\ ApartWithout(arr.list, id) => Apart(u.list)
    BY <1>1, <2>2, ScreenRemoved
  <2>4. QED
    BY <2>1, <2>3
<1>5. ~arr'.refused => Apart(arr'.list)
  <2>1. SUFFICES ASSUME ~arr'.refused PROVE Apart(arr'.list)
    OBVIOUS
  <2>2. Apart(arr.list)
    BY <1>4, <2>1 DEF ArrInv, NoOverlap
  <2>3. ApartWithout(arr.list, id)
    BY <1>1, <2>2, ArrRecord DEF Apart, ApartWithout
  <2>4. QED
    BY <1>4, <2>1, <2>3
<1>6. /\ arrUsed' \in [drops : 0..MaxDrops, snapshots : 0..MaxSnapshots]
      /\ arrUsed'.snapshots = arrUsed.snapshots
  BY DropsUsed DEF ArrInv, RemoveByUser
<1>7. ArrTypeOK'
  BY <1>4, <1>6 DEF ArrInv, ArrTypeOK, RemoveByUser, ArrState, BoxType
<1>8. QED
  BY <1>3, <1>4, <1>5, <1>6, <1>7 DEF ArrInv, NoOverlap

-----------------------------------------------------------------------------
(* Arrangement: a snapshot is shown                                        *)

\* The icons are apart where another computer put them, and are put there.
LEMMA SeenIcons ==
  ASSUME NEW layout \in Layouts, NEW seen, seen = Seen(layout)
  PROVE  /\ DOMAIN layout \in SUBSET ScreenId /\ DOMAIN layout # {}
         /\ DOMAIN seen = DOMAIN layout
         /\ \A id \in DOMAIN seen : seen[id] \in Icon /\ seen[id].id = id
         /\ \A i, j \in DOMAIN seen : i # j => ~Overlap(seen[i], seen[j])
<1> DEFINE D == DOMAIN layout
           At(i) == [x |-> layout[i][1], y |-> layout[i][2]]
<1>1. /\ D \in SUBSET ScreenId /\ D # {} /\ \A id \in D : layout[id] \in Place
      /\ \A i, j \in D : i # j => ~Overlap(At(i), At(j))
  <2>1. PICK ids \in (SUBSET ScreenId) \ {{}} :
          /\ layout \in [ids -> Place]
          /\ \A i, j \in ids : i # j => ~Overlap(At(i), At(j))
    BY DEF Layouts
  <2> HIDE DEF At
  <2>2. DOMAIN layout = ids /\ \A id \in ids : layout[id] \in Place
    BY <2>1
  <2>3. ids # {} /\ ids \in SUBSET ScreenId
    OBVIOUS
  <2>4. QED
    BY <2>1, <2>2, <2>3, Zenon
<1>2. /\ D = DOMAIN seen
      /\ \A id \in D : seen[id] = SetPos(NewScreen(id), layout[id][1], layout[id][2])
  BY DEF Seen
<1>3. Place \subseteq ((1 - IconW)..(ViewW - 1)) \X ((1 - IconH)..(ViewH - 1))
  BY ArrangementAssumption, Zenon
<1>4. ASSUME NEW id \in D
      PROVE  /\ seen[id] \in Icon /\ seen[id].id = id
             /\ seen[id].x = layout[id][1] /\ seen[id].y = layout[id][2]
  <2>1. PICK x \in Int, y \in Int : /\ x = layout[id][1] /\ y = layout[id][2]
                                    /\ FitsX(x) /\ FitsY(y)
    <3>1. layout[id] \in ((1 - IconW)..(ViewW - 1)) \X ((1 - IconH)..(ViewH - 1))
      BY <1>1, <1>3
    <3>2. /\ layout[id][1] \in (1 - IconW)..(ViewW - 1)
          /\ layout[id][2] \in (1 - IconH)..(ViewH - 1)
      BY <3>1
    <3>3. PICK x, y : x = layout[id][1] /\ y = layout[id][2]
      OBVIOUS
    <3>4. x \in (1 - IconW)..(ViewW - 1) /\ y \in (1 - IconH)..(ViewH - 1)
      BY <3>2, <3>3
    <3>5. FitsX(x) /\ FitsY(y)
      BY <3>4 DEF FitsX, FitsY, IconW, IconH, ViewW, ViewH
    <3>6. x \in Int /\ y \in Int
      BY <3>4 DEF IconW, IconH, ViewW, ViewH
    <3>7. QED
      BY <3>3, <3>5, <3>6
  <2>2. PICK s : s = NewScreen(id)
    OBVIOUS
  <2>3. s \in Icon /\ s.id = id
    <3>1. id \in ScreenId \cup {-1}
      BY <1>1
    <3>2. QED
      BY <2>2, <3>1 DEF NewScreen, Icon, IconW, IconH, ViewW, ViewH
  <2>4. PICK r : r = seen[id]
    OBVIOUS
  <2>5. r = SetPos(s, x, y)
    BY <1>2, <2>1, <2>2, <2>4
  <2>6. r \in Icon /\ r.id = s.id /\ r.x = x /\ r.y = y
    BY <2>1, <2>3, <2>5, SetPosTyped
  <2>7. QED
    BY <2>1, <2>3, <2>4, <2>6
<1>5. ASSUME NEW i \in D, NEW j \in D, i # j
      PROVE  ~Overlap(seen[i], seen[j])
  <2>1. ~Overlap(At(i), At(j))
    BY <1>1, <1>5
  <2>2. /\ At(i).x = seen[i].x /\ At(i).y = seen[i].y
        /\ At(j).x = seen[j].x /\ At(j).y = seen[j].y
    BY <1>4
  <2> HIDE DEF At
  <2>3. QED
    BY <2>1, <2>2, Zenon DEF Overlap
<1>6. QED
  BY <1>1, <1>2, <1>4, <1>5

\* Once the list is updated, the screens are those of the snapshot, where it has them, and
\* the unnamed one.
LEMMA LatestApart ==
  ASSUME NEW layout \in Layouts, NEW seen, seen = Seen(layout),
         NEW list \in Seq(Icon), RowEach(list), Ids(list) \subseteq DOMAIN layout \cup {-1},
         NEW U, U = UpdateScreenList(list, seen)
  PROVE  /\ U \in Seq(Icon) /\ RowEach(U) /\ U # <<>>
         /\ DOMAIN layout \subseteq Ids(U) /\ Ids(U) \subseteq DOMAIN layout \cup {-1}
         /\ -1 \in Ids(list) => -1 \in Ids(U)
         /\ ApartWithout(U, -1)
<1> DEFINE D == DOMAIN layout
<1>1. /\ D \in SUBSET ScreenId /\ D # {} /\ DOMAIN seen = D
      /\ \A id \in D : seen[id] \in Icon /\ seen[id].id = id
      /\ \A i, j \in D : i # j => ~Overlap(seen[i], seen[j])
  BY SeenIcons
<1>2. D \in SUBSET Nat /\ IsFiniteSet(D)
  <2>1. ScreenId \subseteq Nat /\ IsFiniteSet(ScreenId)
    BY ArrangementAssumption, Zenon
  <2>2. QED
    BY <1>1, <2>1, FS_Subset
<1>3. -1 \notin D
  BY <1>2
<1> HIDE DEF D
<1>4. U \in Seq(Icon) /\ Updated(U, list, seen) /\ RowEach(U)
  BY <1>1, <1>2, UpdatedList
<1>5. DOMAIN U = 1..Len(U) /\ Len(U) \in Nat
  BY <1>4
<1>6. ASSUME NEW k \in 1..Len(U)
      PROVE  \/ U[k].id = -1 /\ \E i \in 1..Len(list) : U[k] = list[i]
             \/ U[k].id \in D /\ U[k] = seen[U[k].id]
  <2>1. CASE \E i \in 1..Len(list) : U[k] = list[i] /\ list[i].id \notin D
    <3>1. PICK i \in 1..Len(list) : U[k] = list[i] /\ list[i].id \notin D
      BY <2>1
    <3>2. list[i].id \in D \cup {-1}
      BY DEF Ids, D
    <3>3. QED
      BY <3>1, <3>2
  <2>2. CASE \E id \in D : U[k] = seen[id]
    BY <1>1, <2>2
  <2>3. QED
    BY <1>1, <1>4, <2>1, <2>2 DEF Updated
<1>7. \A id \in D : \E k \in 1..Len(U) : U[k].id = id
  BY <1>1, <1>4 DEF Updated
<1>8. U # <<>>
  <2>1. PICK id \in D : TRUE
    BY <1>1
  <2>2. PICK k \in 1..Len(U) : TRUE
    BY <1>7, <2>1
  <2>3. QED
    BY <2>2
<1>9. -1 \in Ids(list) => -1 \in Ids(U)
  <2>1. SUFFICES ASSUME -1 \in Ids(list) PROVE -1 \in Ids(U)
    OBVIOUS
  <2>2. PICK i \in 1..Len(list) : list[i].id = -1
    BY <2>1 DEF Ids
  <2>3. PICK k \in 1..Len(U) : U[k] = list[i]
    BY <1>1, <1>3, <1>4, <2>2 DEF Updated
  <2>4. QED
    BY <2>2, <2>3 DEF Ids
<1>10. ApartWithout(U, -1)
  <2>1. SUFFICES ASSUME NEW j \in 1..Len(U), NEW k \in 1..Len(U),
                        U[j].id # -1, U[k].id # -1, j # k
                 PROVE  ~Overlap(U[j], U[k])
    BY DEF ApartWithout
  <2>2. U[j].id # U[k].id
    BY <1>4, <2>1 DEF RowEach
  <2>3. /\ U[j].id \in D /\ U[j] = seen[U[j].id]
        /\ U[k].id \in D /\ U[k] = seen[U[k].id]
    BY <1>6, <2>1
  <2>4. ~Overlap(seen[U[j].id], seen[U[k].id])
    BY <1>1, <2>2, <2>3
  <2>5. QED
    BY <2>3, <2>4
<1>11. D \subseteq Ids(U)
  BY <1>7 DEF Ids
<1>12. Ids(U) \subseteq D \cup {-1}
  <2>1. SUFFICES ASSUME NEW k \in 1..Len(U) PROVE U[k].id \in D \cup {-1}
    BY DEF Ids
  <2>2. QED
    BY <1>6
<1>13. QED
  BY <1>4, <1>8, <1>9, <1>10, <1>11, <1>12 DEF D

LEMMA ShowFits ==
  ASSUME ArrInv, NEW layout \in Layouts, ShowSnapshot(layout)
  PROVE  ArrInv'
<1> DEFINE D == DOMAIN layout
           known == {arr.list[i].id : i \in DOMAIN arr.list} \ {-1}
           seen == Seen(layout)
           first == arrUsed.snapshots = 0
           Adds == first /\ Local \notin D
<1>1. PICK short \in Short :
        LET fewer  == RemoveScreens(arr, known \ D, short)
            latest == [fewer EXCEPT !.list = UpdateScreenList(@, seen)]
            shown  == RemoveScreen(latest, -1, short)
        IN /\ arr' = IF Adds THEN AddScreen(shown, Local, short) ELSE shown
           /\ gone' = (Local \in known \ D)
  BY DEF ShowSnapshot
<1> DEFINE fewer == RemoveScreens(arr, known \ D, short)
           U == UpdateScreenList(fewer.list, seen)
           latest == [fewer EXCEPT !.list = U]
           shown == RemoveScreen(latest, -1, short)
<1>2. arr' = (IF Adds THEN AddScreen(shown, Local, short) ELSE shown) /\ gone' \in BOOLEAN
  BY <1>1
<1>3. arr \in ArrState /\ RowEach(arr.list) /\ known = Ids(arr.list) \ {-1}
  BY ArrTyped, ArrRecord DEF ArrInv, Ids
<1>4. known \ D \in SUBSET Nat /\ IsFiniteSet(known \ D)
  <2>1. ScreenId \subseteq Nat /\ IsFiniteSet(ScreenId)
    BY ArrangementAssumption, Zenon
  <2>2. \A i \in 1..Len(arr.list) : arr.list[i].id \in ScreenId \cup {-1}
    BY <1>3, ArrRecord, IconRecord
  <2>3. known \in SUBSET ScreenId
    <3> HIDE DEF known
    <3>1. QED
      BY <1>3, <2>2 DEF Ids
  <2>4. known \ D \in SUBSET ScreenId
    BY <2>3
  <2>5. QED
    BY <2>1, <2>4, FS_Subset
<1> HIDE DEF known, fewer, D, seen
<1>5. /\ fewer \in ArrState /\ RowEach(fewer.list) /\ (arr.refused => fewer.refused)
      /\ Ids(fewer.list) = Ids(arr.list) \ (known \ D)
  <2>1. PICK u : u = fewer
    OBVIOUS
  <2>2. PICK ids \in SUBSET Nat : ids = known \ D
    BY <1>4
  <2>3. IsFiniteSet(ids) /\ u = RemoveScreens(arr, ids, short)
    BY <1>4, <2>1, <2>2 DEF fewer
  <2>4. /\ u \in ArrState /\ RowEach(u.list) /\ (arr.refused => u.refused)
        /\ Ids(u.list) = Ids(arr.list) \ ids
    BY <1>3, <2>3, ScreensRemoved
  <2>5. QED
    BY <2>1, <2>2, <2>4
<1>6. Ids(fewer.list) \subseteq D \cup {-1} /\ (-1 \in Ids(arr.list) => -1 \in Ids(fewer.list))
  BY <1>3, <1>5
<1> HIDE DEF U
<1>7. /\ U \in Seq(Icon) /\ RowEach(U) /\ U # <<>>
      /\ D \subseteq Ids(U) /\ Ids(U) \subseteq D \cup {-1}
      /\ -1 \in Ids(fewer.list) => -1 \in Ids(U)
      /\ ApartWithout(U, -1)
  <2>1. PICK list \in Seq(Icon) : list = fewer.list
    BY <1>5, ArrRecord
  <2>2. RowEach(list) /\ Ids(list) \subseteq DOMAIN layout \cup {-1}
    BY <1>5, <1>6, <2>1 DEF D
  <2>3. seen = Seen(layout) /\ U = UpdateScreenList(list, seen)
    BY <2>1 DEF U, seen
  <2>4. /\ U \in Seq(Icon) /\ RowEach(U) /\ U # <<>>
        /\ DOMAIN layout \subseteq Ids(U) /\ Ids(U) \subseteq DOMAIN layout \cup {-1}
        /\ -1 \in Ids(list) => -1 \in Ids(U)
        /\ ApartWithout(U, -1)
    BY <2>2, <2>3, LatestApart
  <2>5. QED
    BY <2>1, <2>4 DEF D
<1>8. latest \in ArrState /\ latest.list = U /\ latest.refused = fewer.refused
  BY <1>5, <1>7 DEF ArrState
<1> HIDE DEF latest, shown
<1>9. /\ shown \in ArrState /\ RowEach(shown.list)
      /\ Ids(shown.list) = Ids(U) \ {-1}
      /\ ~shown.refused => Apart(shown.list)
      /\ ~shown.refused /\ -1 \in Ids(U) /\ shown.list # <<>> => BoxFits(shown)
  <2>1. PICK u : u = shown
    OBVIOUS
  <2>2. PICK id : id = -1
    OBVIOUS
  <2>3. u = RemoveScreen(latest, id, short) /\ RowEach(latest.list)
    BY <1>7, <1>8, <2>1, <2>2 DEF shown
  <2>4. /\ u \in ArrState /\ RowEach(u.list)
        /\ Ids(u.list) = Ids(latest.list) \ {id}
        /\ ~u.refused /\ ApartWithout(latest.list, id) => Apart(u.list)
        /\ ~u.refused /\ id \in Ids(latest.list) /\ u.list # <<>> => BoxFits(u)
    BY <1>8, <2>3, ScreenRemoved
  <2>5. QED
    BY <1>7, <1>8, <2>1, <2>2, <2>4
<1>10. arr' \in ArrState /\ RowEach(arr'.list) /\ (~arr'.refused => Apart(arr'.list))
  <2>1. CASE ~Adds
    <3>1. arr' = shown
      BY <1>2, <2>1
    <3>2. QED
      BY <1>9, <3>1
  <2>2. CASE Adds
    <3>1. PICK u : u = arr'
      OBVIOUS
    <3>2. PICK id \in ScreenId \cup {-1} : id = Local
      BY ArrangementAssumption
    <3>3. u = AddScreen(shown, id, short)
      BY <1>2, <2>2, <3>1, <3>2
    <3>4. /\ u \in ArrState /\ (shown.refused => u.refused)
          /\ RowEach(shown.list) /\ id \notin Ids(shown.list) => RowEach(u.list)
          /\ ~u.refused /\ (shown.list = <<>> \/ (Apart(shown.list) /\ BoxFits(shown)))
               => Apart(u.list)
      BY <1>9, <3>3, ScreenAdded
    <3>5. id \notin Ids(shown.list)
      BY <1>7, <1>9, <2>2, <3>2
    <3>6. -1 \in Ids(U)
      BY <1>6, <1>7, <2>2 DEF ArrInv
    <3>7. ~u.refused => Apart(u.list)
      BY <1>9, <3>4, <3>6
    <3>8. QED
      BY <1>9, <3>1, <3>4, <3>5, <3>7
  <2>3. QED
    BY <2>1, <2>2
<1>11. /\ arrUsed' \in [drops : 0..MaxDrops, snapshots : 0..MaxSnapshots]
       /\ arrUsed'.snapshots # 0
  BY SnapshotsUsed DEF ArrInv, ShowSnapshot
<1>12. ArrTypeOK'
  BY <1>2, <1>10, <1>11 DEF ArrTypeOK, ArrState, BoxType
<1>13. QED
  BY <1>10, <1>11, <1>12 DEF ArrInv, NoOverlap

LEMMA ArrSteps == ArrInv /\ [ArrNext]_arrVars => ArrInv'
<1> SUFFICES ASSUME ArrInv, [ArrNext]_arrVars PROVE ArrInv'
  OBVIOUS
<1>1. CASE \E layout \in Layouts : ShowSnapshot(layout)
  BY <1>1, ShowFits
<1>2. CASE \E i \in DOMAIN arr.list : RemoveByUser(i)
  BY <1>2, RemoveByUserFits
<1>3. CASE \E i \in DOMAIN arr.list : \E spot \in Spot : Drop(i, spot)
  BY <1>3, DropFits
<1>4. CASE UNCHANGED arrVars
  BY <1>4 DEF arrVars, ArrInv, ArrTypeOK, NoOverlap
<1>5. QED
  BY <1>1, <1>2, <1>3, <1>4 DEF ArrNext

\* The window has an icon for each screen once, in the arrangement's types, whatever is
\* dropped, added, removed and received, and wherever.
THEOREM ArrangementTypes == ArrInit /\ [][ArrNext]_arrVars => []ArrTypeOK
<1>1. ArrInv => ArrTypeOK
  BY DEF ArrInv
<1>2. QED
  BY <1>1, ArrStarts, ArrSteps, PTL

\* No icon covers another in any window, with any screens and wherever they are dropped or
\* others have put them, unless UIScreen refused a position.
THEOREM IconsApart == ArrInit /\ [][ArrNext]_arrVars => []NoOverlap
<1>1. ArrInv => NoOverlap
  BY DEF ArrInv
<1>2. QED
  BY <1>1, ArrStarts, ArrSteps, PTL

-----------------------------------------------------------------------------
(* ConfigGen: the links lead there and back                                *)

\* LastOf finds one of the farthest on, where there are any.
LEMMA LastFound ==
  ASSUME NEW rank, DOMAIN rank # {},
         \A k \in DOMAIN rank : rank[k] \in Int /\ rank[k] <= 999
  PROVE  LastOf(rank) \in DOMAIN rank /\ \A k \in DOMAIN rank : rank[k] <= rank[LastOf(rank)]
<1> DEFINE S == {rank[k] : k \in DOMAIN rank}
<1>1. PICK b \in Int : b = 999
  OBVIOUS
<1>2. S \in SUBSET Int /\ S # {} /\ \A x \in S : x <= b
  BY <1>1
<1>3. Max(S) \in S /\ \A x \in S : x <= Max(S)
  <2> HIDE DEF S
  <2>1. QED
    BY <1>2, MostOf, Zenon
<1>4. PICK t \in DOMAIN rank : rank[t] = Max(S)
  BY <1>3
<1>5. \E t_1 \in DOMAIN rank : \A k \in DOMAIN rank : rank[k] <= rank[t_1]
  BY <1>3, <1>4
<1>6. QED
  BY <1>5 DEF LastOf

\* The screens in C, at the places p along an axis, do not reach into each other along it.
Stacked(C, p, s) ==
  /\ \A k \in C : p[k] \in Int /\ -999 <= p[k] /\ p[k] <= 999
  /\ \A k, l \in C : k # l => p[k] + s <= p[l] \/ p[l] + s <= p[k]

\* The same places, counted the other way.
Mirrored(C, p, q) == \A k \in C : q[k] = -p[k]

\* Those in C that are before i, by where they are.
Before(rank, C, p, s, i) ==
  /\ DOMAIN rank = {k \in C \ {i} : p[k] + s <= p[i]}
  /\ \A k \in DOMAIN rank : rank[k] = p[k]

\* The nearest before a screen has that screen as its nearest the other way.
LEMMA TurnBack ==
  ASSUME NEW C, 0 \notin C, NEW s \in {58, 86}, NEW p, NEW q, Stacked(C, p, s),
         Mirrored(C, p, q),
         NEW i \in C, NEW ahead, Before(ahead, C, p, s, i), LastOf(ahead) # 0,
         NEW back, Before(back, C, q, s, LastOf(ahead))
  PROVE  LastOf(ahead) \in C /\ LastOf(back) = i
<1> DEFINE j == LastOf(ahead)
<1>1. \A k \in C : p[k] \in Int /\ -999 <= p[k] /\ p[k] <= 999
  BY DEF Stacked
<1>2. \A k \in C : q[k] = -p[k] /\ q[k] \in Int /\ q[k] <= 999
  BY <1>1 DEF Mirrored
<1>3. DOMAIN ahead # {}
  BY DEF LastOf
<1>4. /\ j \in DOMAIN ahead
      /\ \A k \in DOMAIN ahead : ahead[k] <= ahead[j]
  <2>1. \A k \in DOMAIN ahead : ahead[k] \in Int /\ ahead[k] <= 999
    BY <1>1 DEF Before
  <2>2. QED
    BY <1>3, <2>1, LastFound
<1> HIDE DEF j
<1>5. j \in C /\ j # i /\ p[j] + s <= p[i]
  BY <1>4 DEF Before
<1>6. \A k \in C : k # i /\ p[k] + s <= p[i] => p[k] <= p[j]
  BY <1>4, <1>5 DEF Before
<1>7. i \in DOMAIN back
  <2>1. q[i] + s <= q[j]
    BY <1>1, <1>2, <1>5
  <2>2. QED
    BY <1>5, <2>1 DEF Before, j
<1>8. \A k \in DOMAIN back : /\ k \in C /\ k # j /\ back[k] = q[k] /\ q[k] + s <= q[j]
                             /\ back[k] \in Int /\ back[k] <= 999
  BY <1>2 DEF Before, j
<1>9. PICK t : t = LastOf(back)
  OBVIOUS
<1>10. t \in DOMAIN back /\ \A k \in DOMAIN back : back[k] <= back[t]
  BY <1>7, <1>8, <1>9, LastFound
<1>11. t \in C /\ p[j] + s <= p[t] /\ p[t] <= p[i]
  <2>1. t \in C /\ q[t] + s <= q[j] /\ q[i] <= q[t]
    BY <1>7, <1>8, <1>10
  <2>2. QED
    BY <1>1, <1>2, <1>5, <2>1
<1>12. t = i
  <2>1. SUFFICES ASSUME t # i PROVE FALSE
    OBVIOUS
  <2>2. p[t] + s <= p[i] \/ p[i] + s <= p[t]
    BY <1>11, <2>1 DEF Stacked
  <2>3. PICK a \in Int, b \in Int, d \in Int : a = p[t] /\ b = p[i] /\ d = p[j]
    BY <1>1, <1>5, <1>11
  <2>4. a + s <= b
    BY <1>11, <2>2, <2>3
  <2>5. a <= d
    BY <1>6, <1>11, <2>1, <2>3, <2>4
  <2>6. d + s <= a
    BY <1>11, <2>3
  <2>7. QED
    BY <2>5, <2>6
<1>13. QED
  BY <1>5, <1>9, <1>12 DEF j

\* The screens that a row or a column goes through, and where they are on it.
InColumn(list, c) == {k \in 1..Len(list) : list[k].x < c /\ c < list[k].x + 86}
InRow(list, c)    == {k \in 1..Len(list) : list[k].y < c /\ c < list[k].y + 58}
Ups(list)    == [k \in 1..Len(list) |-> list[k].y]
Downs(list)  == [k \in 1..Len(list) |-> -list[k].y]
Lefts(list)  == [k \in 1..Len(list) |-> list[k].x]
Rights(list) == [k \in 1..Len(list) |-> -list[k].x]

\* A link is to the last of those before the screen, if the screen is there itself.
LinksTo(link, C, p, s, i) ==
  IF i \in C THEN \E rank : link = LastOf(rank) /\ Before(rank, C, p, s, i) ELSE link = 0

LEMMA ColumnOf ==
  ASSUME NEW list \in Seq(Icon), NEW c \in Columns(list)
  PROVE  /\ c \in Int
         /\ \A k \in 1..Len(list) : list[k].x # c /\ list[k].x + 86 # c
<1>1. DOMAIN list = 1..Len(list) /\ \A k \in 1..Len(list) : list[k] \in Icon
  OBVIOUS
<1>2. \A k \in 1..Len(list) : list[k].x \in Int
  BY <1>1, IconRecord
<1>3. PICK k \in 1..Len(list) : c \in {list[k].x + 1, list[k].x + 86 - 1}
  BY <1>1 DEF Columns, ScreenW
<1>4. c \in Int
  BY <1>2, <1>3
<1>5. \A l \in 1..Len(list) : c \notin {list[l].x, list[l].x + 86}
  BY <1>1 DEF Columns, ScreenW
<1>6. QED
  BY <1>4, <1>5

LEMMA RowOf ==
  ASSUME NEW list \in Seq(Icon), NEW c \in Rows(list)
  PROVE  /\ c \in Int
         /\ \A k \in 1..Len(list) : list[k].y # c /\ list[k].y + 58 # c
<1>1. DOMAIN list = 1..Len(list) /\ \A k \in 1..Len(list) : list[k] \in Icon
  OBVIOUS
<1>2. \A k \in 1..Len(list) : list[k].y \in Int
  BY <1>1, IconRecord
<1>3. PICK k \in 1..Len(list) : c \in {list[k].y + 1, list[k].y + 58 - 1}
  BY <1>1 DEF Rows, ScreenH
<1>4. c \in Int
  BY <1>2, <1>3
<1>5. \A l \in 1..Len(list) : c \notin {list[l].y, list[l].y + 58}
  BY <1>1 DEF Rows, ScreenH
<1>6. QED
  BY <1>4, <1>5

\* Screens that are apart are so along each row and column.
LEMMA ColumnStacked ==
  ASSUME NEW list \in Seq(Icon), Apart(list), NEW c \in Int
  PROVE  Stacked(InColumn(list, c), Ups(list), 58) /\ Stacked(InColumn(list, c), Downs(list), 58)
<1>1. \A k \in InColumn(list, c) :
        /\ k \in 1..Len(list) /\ list[k].x \in Int /\ list[k].y \in Int
        /\ -57 <= list[k].y /\ list[k].y <= 379 /\ list[k].x < c /\ c < list[k].x + 86
        /\ Ups(list)[k] = list[k].y /\ Downs(list)[k] = -list[k].y
  BY IconRecord DEF InColumn, Ups, Downs
<1>2. ASSUME NEW k \in InColumn(list, c), NEW l \in InColumn(list, c), k # l
      PROVE  list[k].y + 58 <= list[l].y \/ list[l].y + 58 <= list[k].y
  <2>1. ~Overlap(list[k], list[l])
    BY <1>1, <1>2 DEF Apart
  <2>2. PICK m \in Int, n \in Int, v \in Int, w \in Int :
          list[k].x = m /\ list[k].y = n /\ list[l].x = v /\ list[l].y = w
    <3>1. /\ list[k].x \in Int /\ list[k].y \in Int
          /\ list[l].x \in Int /\ list[l].y \in Int
      BY <1>1, <1>2
    <3>2. QED
      BY <3>1, Zenon
  <2>3. ~(m < v + 86 /\ v < m + 86 /\ n < w + 58 /\ w < n + 58)
    BY <2>1, <2>2 DEF Overlap, IconW, IconH
  <2>4. m < c /\ c < m + 86 /\ v < c /\ c < v + 86
    BY <1>1, <2>2
  <2>5. QED
    BY <2>2, <2>3, <2>4
<1>3. Stacked(InColumn(list, c), Ups(list), 58)
  <2>1. \A k \in InColumn(list, c) :
          LET d == Ups(list)[k] IN d \in Int /\ -999 <= d /\ d <= 999
    BY <1>1
  <2>2. \A k, l \in InColumn(list, c) : k # l =>
          Ups(list)[k] + 58 <= Ups(list)[l] \/ Ups(list)[l] + 58 <= Ups(list)[k]
    BY <1>1, <1>2
  <2>3. QED
    BY <2>1, <2>2 DEF Stacked
<1>4. Stacked(InColumn(list, c), Downs(list), 58)
  <2>1. ASSUME NEW k \in InColumn(list, c), NEW l \in InColumn(list, c), k # l
        PROVE  Downs(list)[k] + 58 <= Downs(list)[l] \/ Downs(list)[l] + 58 <= Downs(list)[k]
    <3>1. PICK m \in Int, n \in Int : list[k].y = m /\ list[l].y = n
      BY <1>1
    <3>2. m + 58 <= n \/ n + 58 <= m
      BY <1>2, <2>1, <3>1
    <3>3. Downs(list)[k] = -m /\ Downs(list)[l] = -n
      BY <1>1, <3>1
    <3>4. QED
      BY <3>2, <3>3
  <2>2. \A k \in InColumn(list, c) :
          LET d == Downs(list)[k] IN d \in Int /\ -999 <= d /\ d <= 999
    BY <1>1
  <2>3. QED
    BY <2>1, <2>2 DEF Stacked
<1>5. QED
  BY <1>3, <1>4

LEMMA RowStacked ==
  ASSUME NEW list \in Seq(Icon), Apart(list), NEW c \in Int
  PROVE  Stacked(InRow(list, c), Lefts(list), 86) /\ Stacked(InRow(list, c), Rights(list), 86)
<1>1. \A k \in InRow(list, c) :
        /\ k \in 1..Len(list) /\ list[k].x \in Int /\ list[k].y \in Int
        /\ -85 <= list[k].x /\ list[k].x <= 599 /\ list[k].y < c /\ c < list[k].y + 58
        /\ Lefts(list)[k] = list[k].x /\ Rights(list)[k] = -list[k].x
  BY IconRecord DEF InRow, Lefts, Rights
<1>2. ASSUME NEW k \in InRow(list, c), NEW l \in InRow(list, c), k # l
      PROVE  list[k].x + 86 <= list[l].x \/ list[l].x + 86 <= list[k].x
  <2>1. ~Overlap(list[k], list[l])
    BY <1>1, <1>2 DEF Apart
  <2>2. PICK m \in Int, n \in Int, v \in Int, w \in Int :
          list[k].x = m /\ list[k].y = n /\ list[l].x = v /\ list[l].y = w
    <3>1. /\ list[k].x \in Int /\ list[k].y \in Int
          /\ list[l].x \in Int /\ list[l].y \in Int
      BY <1>1, <1>2
    <3>2. QED
      BY <3>1, Zenon
  <2>3. ~(m < v + 86 /\ v < m + 86 /\ n < w + 58 /\ w < n + 58)
    BY <2>1, <2>2 DEF Overlap, IconW, IconH
  <2>4. n < c /\ c < n + 58 /\ w < c /\ c < w + 58
    BY <1>1, <2>2
  <2>5. QED
    BY <2>2, <2>3, <2>4
<1>3. Stacked(InRow(list, c), Lefts(list), 86)
  <2>1. \A k \in InRow(list, c) :
          LET d == Lefts(list)[k] IN d \in Int /\ -999 <= d /\ d <= 999
    BY <1>1
  <2>2. \A k, l \in InRow(list, c) : k # l =>
          Lefts(list)[k] + 86 <= Lefts(list)[l] \/ Lefts(list)[l] + 86 <= Lefts(list)[k]
    BY <1>1, <1>2
  <2>3. QED
    BY <2>1, <2>2 DEF Stacked
<1>4. Stacked(InRow(list, c), Rights(list), 86)
  <2>1. ASSUME NEW k \in InRow(list, c), NEW l \in InRow(list, c), k # l
        PROVE  Rights(list)[k] + 86 <= Rights(list)[l] \/ Rights(list)[l] + 86 <= Rights(list)[k]
    <3>1. PICK m \in Int, n \in Int : list[k].x = m /\ list[l].x = n
      BY <1>1
    <3>2. m + 86 <= n \/ n + 86 <= m
      BY <1>2, <2>1, <3>1
    <3>3. Rights(list)[k] = -m /\ Rights(list)[l] = -n
      BY <1>1, <3>1
    <3>4. QED
      BY <3>2, <3>3
  <2>2. \A k \in InRow(list, c) :
          LET d == Rights(list)[k] IN d \in Int /\ -999 <= d /\ d <= 999
    BY <1>1
  <2>3. QED
    BY <2>1, <2>2 DEF Stacked
<1>5. QED
  BY <1>3, <1>4

\* linkUp
LEMMA UpLink ==
  ASSUME NEW list \in Seq(Icon), Apart(list), NEW i \in 1..Len(list), NEW c \in Columns(list)
  PROVE  LinksTo(LinkUp(list, i, c), InColumn(list, c), Ups(list), 58, i)
<1> DEFINE C == InColumn(list, c)
           ahead == {k \in OthersThan(list, i) :
                       /\ NotLeft(list[i], list[k]) /\ NotRight(list[i], list[k])
                       /\ NotBelow(list[i], list[k]) /\ ColumnsHold(list[i], list[k], c)}
           rank == [j \in ahead |-> list[j].y]
<1>1. LinkUp(list, i, c) = LastOf(rank)
  BY DEF LinkUp
<1>2. /\ DOMAIN list = 1..Len(list) /\ c \in Int
      /\ \A k \in 1..Len(list) : /\ list[k].x \in Int /\ list[k].y \in Int
                                 /\ list[k].x # c /\ list[k].x + 86 # c
  <2>1. \A k \in 1..Len(list) : list[k] \in Icon
    OBVIOUS
  <2>2. \A k \in 1..Len(list) : list[k].x \in Int /\ list[k].y \in Int
    BY <2>1, IconRecord
  <2>3. c \in Int /\ \A k \in 1..Len(list) : list[k].x # c /\ list[k].x + 86 # c
    BY ColumnOf
  <2>4. QED
    BY <2>2, <2>3
<1>3. \A k \in ahead : k \in C /\ k # i /\ i \in C
  <2>1. SUFFICES ASSUME NEW k \in 1..Len(list), k # i, ColumnsHold(list[i], list[k], c)
                 PROVE  k \in C /\ i \in C
    BY <1>2 DEF OthersThan
  <2>2. PICK m \in Int, n \in Int : list[i].x = m /\ list[k].x = n
    BY <1>2
  <2>3. /\ c >= m /\ c >= n /\ c <= m + 86 /\ c <= n + 86
        /\ m # c /\ n # c /\ m + 86 # c /\ n + 86 # c
    BY <1>2, <2>1, <2>2 DEF ColumnsHold, ScreenW
  <2>4. m < c /\ c < m + 86 /\ n < c /\ c < n + 86
    BY <1>2, <2>3
  <2>5. QED
    BY <2>2, <2>4 DEF InColumn
<1>4. ASSUME NEW k \in C, i \in C, k # i
      PROVE  k \in ahead <=> Ups(list)[k] + 58 <= Ups(list)[i]
  <2>1. /\ k \in 1..Len(list)
        /\ list[i].x < c /\ c < list[i].x + 86 /\ list[k].x < c /\ c < list[k].x + 86
    BY <1>4 DEF InColumn
  <2>2. ~Overlap(list[i], list[k])
    BY <1>2, <1>4, <2>1 DEF Apart
  <2>3. PICK m \in Int, n \in Int, v \in Int, w \in Int :
          list[i].x = m /\ list[i].y = n /\ list[k].x = v /\ list[k].y = w
    <3>1. /\ list[i].x \in Int /\ list[i].y \in Int
          /\ list[k].x \in Int /\ list[k].y \in Int
      BY <1>2, <2>1
    <3>2. QED
      BY <3>1, Zenon
  <2>4. ~(m < v + 86 /\ v < m + 86 /\ n < w + 58 /\ w < n + 58)
    BY <2>2, <2>3 DEF Overlap, IconW, IconH
  <2>5. m < c /\ c < m + 86 /\ v < c /\ c < v + 86
    BY <2>1, <2>3
  <2>6. k \in ahead <=> w < n + 58
    <3>1. k \in OthersThan(list, i)
      BY <1>2, <1>4, <2>1 DEF OthersThan
    <3>2. /\ NotLeft(list[i], list[k]) /\ NotRight(list[i], list[k])
          /\ ColumnsHold(list[i], list[k], c)
      BY <1>2, <2>3, <2>5 DEF NotLeft, NotRight, ColumnsHold, ScreenW
    <3>3. NotBelow(list[i], list[k]) <=> w < n + 58
      BY <2>3 DEF NotBelow, ScreenH
    <3>4. QED
      BY <3>1, <3>2, <3>3
  <2>7. Ups(list)[k] = w /\ Ups(list)[i] = n
    BY <2>1, <2>3 DEF Ups
  <2> HIDE DEF ahead
  <2>8. QED
    BY <1>2, <2>4, <2>5, <2>6, <2>7
<1>5. CASE i \in C
  <2>1. DOMAIN rank = ahead
    OBVIOUS
  <2>2. ahead = {k \in C \ {i} : Ups(list)[k] + 58 <= Ups(list)[i]}
    <3> HIDE DEF ahead, C
    <3>1. QED
      BY <1>3, <1>4, <1>5
  <2>3. \A k \in DOMAIN rank : rank[k] = Ups(list)[k]
    <3>1. \A k \in C : k \in 1..Len(list)
      BY DEF InColumn
    <3> HIDE DEF C
    <3>2. \A k \in ahead : k \in 1..Len(list)
      BY <1>3, <3>1
    <3> HIDE DEF ahead
    <3>3. QED
      BY <3>2 DEF Ups
  <2> HIDE DEF rank, ahead, C
  <2>4. Before(rank, C, Ups(list), 58, i)
    BY <2>1, <2>2, <2>3 DEF Before
  <2>5. QED
    BY <1>1, <1>5, <2>4 DEF LinksTo, C
<1>6. CASE i \notin C
  <2>1. DOMAIN rank = {}
    <3> HIDE DEF C
    <3>1. QED
      BY <1>3, <1>6
  <2> HIDE DEF rank
  <2>2. LastOf(rank) = 0
    BY <2>1 DEF LastOf
  <2>3. QED
    BY <1>1, <1>6, <2>2 DEF LinksTo, C
<1>7. QED
  BY <1>5, <1>6

\* linkDown
LEMMA DownLink ==
  ASSUME NEW list \in Seq(Icon), Apart(list), NEW i \in 1..Len(list), NEW c \in Columns(list)
  PROVE  LinksTo(LinkDown(list, i, c), InColumn(list, c), Downs(list), 58, i)
<1> DEFINE C == InColumn(list, c)
           ahead == {k \in OthersThan(list, i) :
                       /\ NotLeft(list[i], list[k]) /\ NotRight(list[i], list[k])
                       /\ NotAbove(list[i], list[k]) /\ ColumnsHold(list[i], list[k], c)}
           rank == [j \in ahead |-> -list[j].y]
<1>1. LinkDown(list, i, c) = LastOf(rank)
  BY DEF LinkDown
<1>2. /\ DOMAIN list = 1..Len(list) /\ c \in Int
      /\ \A k \in 1..Len(list) : /\ list[k].x \in Int /\ list[k].y \in Int
                                 /\ list[k].x # c /\ list[k].x + 86 # c
  <2>1. \A k \in 1..Len(list) : list[k] \in Icon
    OBVIOUS
  <2>2. \A k \in 1..Len(list) : list[k].x \in Int /\ list[k].y \in Int
    BY <2>1, IconRecord
  <2>3. c \in Int /\ \A k \in 1..Len(list) : list[k].x # c /\ list[k].x + 86 # c
    BY ColumnOf
  <2>4. QED
    BY <2>2, <2>3
<1>3. \A k \in ahead : k \in C /\ k # i /\ i \in C
  <2>1. SUFFICES ASSUME NEW k \in 1..Len(list), k # i, ColumnsHold(list[i], list[k], c)
                 PROVE  k \in C /\ i \in C
    BY <1>2 DEF OthersThan
  <2>2. PICK m \in Int, n \in Int : list[i].x = m /\ list[k].x = n
    BY <1>2
  <2>3. /\ c >= m /\ c >= n /\ c <= m + 86 /\ c <= n + 86
        /\ m # c /\ n # c /\ m + 86 # c /\ n + 86 # c
    BY <1>2, <2>1, <2>2 DEF ColumnsHold, ScreenW
  <2>4. m < c /\ c < m + 86 /\ n < c /\ c < n + 86
    BY <1>2, <2>3
  <2>5. QED
    BY <2>2, <2>4 DEF InColumn
<1>4. ASSUME NEW k \in C, i \in C, k # i
      PROVE  k \in ahead <=> Downs(list)[k] + 58 <= Downs(list)[i]
  <2>1. /\ k \in 1..Len(list)
        /\ list[i].x < c /\ c < list[i].x + 86 /\ list[k].x < c /\ c < list[k].x + 86
    BY <1>4 DEF InColumn
  <2>2. ~Overlap(list[i], list[k])
    BY <1>2, <1>4, <2>1 DEF Apart
  <2>3. PICK m \in Int, n \in Int, v \in Int, w \in Int :
          list[i].x = m /\ list[i].y = n /\ list[k].x = v /\ list[k].y = w
    <3>1. /\ list[i].x \in Int /\ list[i].y \in Int
          /\ list[k].x \in Int /\ list[k].y \in Int
      BY <1>2, <2>1
    <3>2. QED
      BY <3>1, Zenon
  <2>4. ~(m < v + 86 /\ v < m + 86 /\ n < w + 58 /\ w < n + 58)
    BY <2>2, <2>3 DEF Overlap, IconW, IconH
  <2>5. m < c /\ c < m + 86 /\ v < c /\ c < v + 86
    BY <2>1, <2>3
  <2>6. k \in ahead <=> w + 58 > n
    <3>1. k \in OthersThan(list, i)
      BY <1>2, <1>4, <2>1 DEF OthersThan
    <3>2. /\ NotLeft(list[i], list[k]) /\ NotRight(list[i], list[k])
          /\ ColumnsHold(list[i], list[k], c)
      BY <1>2, <2>3, <2>5 DEF NotLeft, NotRight, ColumnsHold, ScreenW
    <3>3. NotAbove(list[i], list[k]) <=> w + 58 > n
      BY <2>3 DEF NotAbove, ScreenH
    <3>4. QED
      BY <3>1, <3>2, <3>3
  <2>7. Downs(list)[k] = -w /\ Downs(list)[i] = -n
    BY <2>1, <2>3 DEF Downs
  <2> HIDE DEF ahead
  <2>8. QED
    BY <1>2, <2>4, <2>5, <2>6, <2>7
<1>5. CASE i \in C
  <2>1. DOMAIN rank = ahead
    OBVIOUS
  <2>2. ahead = {k \in C \ {i} : Downs(list)[k] + 58 <= Downs(list)[i]}
    <3> HIDE DEF ahead, C
    <3>1. QED
      BY <1>3, <1>4, <1>5
  <2>3. \A k \in DOMAIN rank : rank[k] = Downs(list)[k]
    <3>1. \A k \in C : k \in 1..Len(list)
      BY DEF InColumn
    <3> HIDE DEF C
    <3>2. \A k \in ahead : k \in 1..Len(list)
      BY <1>3, <3>1
    <3> HIDE DEF ahead
    <3>3. QED
      BY <3>2 DEF Downs
  <2> HIDE DEF rank, ahead, C
  <2>4. Before(rank, C, Downs(list), 58, i)
    BY <2>1, <2>2, <2>3 DEF Before
  <2>5. QED
    BY <1>1, <1>5, <2>4 DEF LinksTo, C
<1>6. CASE i \notin C
  <2>1. DOMAIN rank = {}
    <3> HIDE DEF C
    <3>1. QED
      BY <1>3, <1>6
  <2> HIDE DEF rank
  <2>2. LastOf(rank) = 0
    BY <2>1 DEF LastOf
  <2>3. QED
    BY <1>1, <1>6, <2>2 DEF LinksTo, C
<1>7. QED
  BY <1>5, <1>6

\* linkLeft
LEMMA LeftLink ==
  ASSUME NEW list \in Seq(Icon), Apart(list), NEW i \in 1..Len(list), NEW c \in Rows(list)
  PROVE  LinksTo(LinkLeft(list, i, c), InRow(list, c), Lefts(list), 86, i)
<1> DEFINE C == InRow(list, c)
           ahead == {k \in OthersThan(list, i) :
                       /\ NotAbove(list[i], list[k]) /\ NotBelow(list[i], list[k])
                       /\ NotRight(list[i], list[k]) /\ RowsHold(list[i], list[k], c)}
           rank == [j \in ahead |-> list[j].x]
<1>1. LinkLeft(list, i, c) = LastOf(rank)
  BY DEF LinkLeft
<1>2. /\ DOMAIN list = 1..Len(list) /\ c \in Int
      /\ \A k \in 1..Len(list) : /\ list[k].x \in Int /\ list[k].y \in Int
                                 /\ list[k].y # c /\ list[k].y + 58 # c
  <2>1. \A k \in 1..Len(list) : list[k] \in Icon
    OBVIOUS
  <2>2. \A k \in 1..Len(list) : list[k].x \in Int /\ list[k].y \in Int
    BY <2>1, IconRecord
  <2>3. c \in Int /\ \A k \in 1..Len(list) : list[k].y # c /\ list[k].y + 58 # c
    BY RowOf
  <2>4. QED
    BY <2>2, <2>3
<1>3. \A k \in ahead : k \in C /\ k # i /\ i \in C
  <2>1. SUFFICES ASSUME NEW k \in 1..Len(list), k # i, RowsHold(list[i], list[k], c)
                 PROVE  k \in C /\ i \in C
    BY <1>2 DEF OthersThan
  <2>2. PICK m \in Int, n \in Int : list[i].y = m /\ list[k].y = n
    BY <1>2
  <2>3. /\ c >= m /\ c >= n /\ c <= m + 58 /\ c <= n + 58
        /\ m # c /\ n # c /\ m + 58 # c /\ n + 58 # c
    BY <1>2, <2>1, <2>2 DEF RowsHold, ScreenH
  <2>4. m < c /\ c < m + 58 /\ n < c /\ c < n + 58
    BY <1>2, <2>3
  <2>5. QED
    BY <2>2, <2>4 DEF InRow
<1>4. ASSUME NEW k \in C, i \in C, k # i
      PROVE  k \in ahead <=> Lefts(list)[k] + 86 <= Lefts(list)[i]
  <2>1. /\ k \in 1..Len(list)
        /\ list[i].y < c /\ c < list[i].y + 58 /\ list[k].y < c /\ c < list[k].y + 58
    BY <1>4 DEF InRow
  <2>2. ~Overlap(list[i], list[k])
    BY <1>2, <1>4, <2>1 DEF Apart
  <2>3. PICK m \in Int, n \in Int, v \in Int, w \in Int :
          list[i].x = m /\ list[i].y = n /\ list[k].x = v /\ list[k].y = w
    <3>1. /\ list[i].x \in Int /\ list[i].y \in Int
          /\ list[k].x \in Int /\ list[k].y \in Int
      BY <1>2, <2>1
    <3>2. QED
      BY <3>1, Zenon
  <2>4. ~(m < v + 86 /\ v < m + 86 /\ n < w + 58 /\ w < n + 58)
    BY <2>2, <2>3 DEF Overlap, IconW, IconH
  <2>5. n < c /\ c < n + 58 /\ w < c /\ c < w + 58
    BY <2>1, <2>3
  <2>6. k \in ahead <=> v < m + 86
    <3>1. k \in OthersThan(list, i)
      BY <1>2, <1>4, <2>1 DEF OthersThan
    <3>2. /\ NotAbove(list[i], list[k]) /\ NotBelow(list[i], list[k])
          /\ RowsHold(list[i], list[k], c)
      BY <1>2, <2>3, <2>5 DEF NotAbove, NotBelow, RowsHold, ScreenH
    <3>3. NotRight(list[i], list[k]) <=> v < m + 86
      BY <2>3 DEF NotRight, ScreenW
    <3>4. QED
      BY <3>1, <3>2, <3>3
  <2>7. Lefts(list)[k] = v /\ Lefts(list)[i] = m
    BY <2>1, <2>3 DEF Lefts
  <2> HIDE DEF ahead
  <2>8. QED
    BY <1>2, <2>4, <2>5, <2>6, <2>7
<1>5. CASE i \in C
  <2>1. DOMAIN rank = ahead
    OBVIOUS
  <2>2. ahead = {k \in C \ {i} : Lefts(list)[k] + 86 <= Lefts(list)[i]}
    <3> HIDE DEF ahead, C
    <3>1. QED
      BY <1>3, <1>4, <1>5
  <2>3. \A k \in DOMAIN rank : rank[k] = Lefts(list)[k]
    <3>1. \A k \in C : k \in 1..Len(list)
      BY DEF InRow
    <3> HIDE DEF C
    <3>2. \A k \in ahead : k \in 1..Len(list)
      BY <1>3, <3>1
    <3> HIDE DEF ahead
    <3>3. QED
      BY <3>2 DEF Lefts
  <2> HIDE DEF rank, ahead, C
  <2>4. Before(rank, C, Lefts(list), 86, i)
    BY <2>1, <2>2, <2>3 DEF Before
  <2>5. QED
    BY <1>1, <1>5, <2>4 DEF LinksTo, C
<1>6. CASE i \notin C
  <2>1. DOMAIN rank = {}
    <3> HIDE DEF C
    <3>1. QED
      BY <1>3, <1>6
  <2> HIDE DEF rank
  <2>2. LastOf(rank) = 0
    BY <2>1 DEF LastOf
  <2>3. QED
    BY <1>1, <1>6, <2>2 DEF LinksTo, C
<1>7. QED
  BY <1>5, <1>6

\* linkRight
LEMMA RightLink ==
  ASSUME NEW list \in Seq(Icon), Apart(list), NEW i \in 1..Len(list), NEW c \in Rows(list)
  PROVE  LinksTo(LinkRight(list, i, c), InRow(list, c), Rights(list), 86, i)
<1> DEFINE C == InRow(list, c)
           ahead == {k \in OthersThan(list, i) :
                       /\ NotAbove(list[i], list[k]) /\ NotBelow(list[i], list[k])
                       /\ NotLeft(list[i], list[k]) /\ RowsHold(list[i], list[k], c)}
           rank == [j \in ahead |-> -list[j].x]
<1>1. LinkRight(list, i, c) = LastOf(rank)
  BY DEF LinkRight
<1>2. /\ DOMAIN list = 1..Len(list) /\ c \in Int
      /\ \A k \in 1..Len(list) : /\ list[k].x \in Int /\ list[k].y \in Int
                                 /\ list[k].y # c /\ list[k].y + 58 # c
  <2>1. \A k \in 1..Len(list) : list[k] \in Icon
    OBVIOUS
  <2>2. \A k \in 1..Len(list) : list[k].x \in Int /\ list[k].y \in Int
    BY <2>1, IconRecord
  <2>3. c \in Int /\ \A k \in 1..Len(list) : list[k].y # c /\ list[k].y + 58 # c
    BY RowOf
  <2>4. QED
    BY <2>2, <2>3
<1>3. \A k \in ahead : k \in C /\ k # i /\ i \in C
  <2>1. SUFFICES ASSUME NEW k \in 1..Len(list), k # i, RowsHold(list[i], list[k], c)
                 PROVE  k \in C /\ i \in C
    BY <1>2 DEF OthersThan
  <2>2. PICK m \in Int, n \in Int : list[i].y = m /\ list[k].y = n
    BY <1>2
  <2>3. /\ c >= m /\ c >= n /\ c <= m + 58 /\ c <= n + 58
        /\ m # c /\ n # c /\ m + 58 # c /\ n + 58 # c
    BY <1>2, <2>1, <2>2 DEF RowsHold, ScreenH
  <2>4. m < c /\ c < m + 58 /\ n < c /\ c < n + 58
    BY <1>2, <2>3
  <2>5. QED
    BY <2>2, <2>4 DEF InRow
<1>4. ASSUME NEW k \in C, i \in C, k # i
      PROVE  k \in ahead <=> Rights(list)[k] + 86 <= Rights(list)[i]
  <2>1. /\ k \in 1..Len(list)
        /\ list[i].y < c /\ c < list[i].y + 58 /\ list[k].y < c /\ c < list[k].y + 58
    BY <1>4 DEF InRow
  <2>2. ~Overlap(list[i], list[k])
    BY <1>2, <1>4, <2>1 DEF Apart
  <2>3. PICK m \in Int, n \in Int, v \in Int, w \in Int :
          list[i].x = m /\ list[i].y = n /\ list[k].x = v /\ list[k].y = w
    <3>1. /\ list[i].x \in Int /\ list[i].y \in Int
          /\ list[k].x \in Int /\ list[k].y \in Int
      BY <1>2, <2>1
    <3>2. QED
      BY <3>1, Zenon
  <2>4. ~(m < v + 86 /\ v < m + 86 /\ n < w + 58 /\ w < n + 58)
    BY <2>2, <2>3 DEF Overlap, IconW, IconH
  <2>5. n < c /\ c < n + 58 /\ w < c /\ c < w + 58
    BY <2>1, <2>3
  <2>6. k \in ahead <=> v + 86 > m
    <3>1. k \in OthersThan(list, i)
      BY <1>2, <1>4, <2>1 DEF OthersThan
    <3>2. /\ NotAbove(list[i], list[k]) /\ NotBelow(list[i], list[k])
          /\ RowsHold(list[i], list[k], c)
      BY <1>2, <2>3, <2>5 DEF NotAbove, NotBelow, RowsHold, ScreenH
    <3>3. NotLeft(list[i], list[k]) <=> v + 86 > m
      BY <2>3 DEF NotLeft, ScreenW
    <3>4. QED
      BY <3>1, <3>2, <3>3
  <2>7. Rights(list)[k] = -v /\ Rights(list)[i] = -m
    BY <2>1, <2>3 DEF Rights
  <2> HIDE DEF ahead
  <2>8. QED
    BY <1>2, <2>4, <2>5, <2>6, <2>7
<1>5. CASE i \in C
  <2>1. DOMAIN rank = ahead
    OBVIOUS
  <2>2. ahead = {k \in C \ {i} : Rights(list)[k] + 86 <= Rights(list)[i]}
    <3> HIDE DEF ahead, C
    <3>1. QED
      BY <1>3, <1>4, <1>5
  <2>3. \A k \in DOMAIN rank : rank[k] = Rights(list)[k]
    <3>1. \A k \in C : k \in 1..Len(list)
      BY DEF InRow
    <3> HIDE DEF C
    <3>2. \A k \in ahead : k \in 1..Len(list)
      BY <1>3, <3>1
    <3> HIDE DEF ahead
    <3>3. QED
      BY <3>2 DEF Rights
  <2> HIDE DEF rank, ahead, C
  <2>4. Before(rank, C, Rights(list), 86, i)
    BY <2>1, <2>2, <2>3 DEF Before
  <2>5. QED
    BY <1>1, <1>5, <2>4 DEF LinksTo, C
<1>6. CASE i \notin C
  <2>1. DOMAIN rank = {}
    <3> HIDE DEF C
    <3>1. QED
      BY <1>3, <1>6
  <2> HIDE DEF rank
  <2>2. LastOf(rank) = 0
    BY <2>1 DEF LastOf
  <2>3. QED
    BY <1>1, <1>6, <2>2 DEF LinksTo, C
<1>7. QED
  BY <1>5, <1>6

\* A screen that is linked to is on the same row or column.
LEMMA LinkedIn ==
  ASSUME NEW C, NEW s, NEW p, Stacked(C, p, s), NEW i, NEW j, j # 0, LinksTo(j, C, p, s, i)
  PROVE  j \in C /\ i \in C
<1>1. i \in C
  BY DEF LinksTo
<1>2. PICK ahead : j = LastOf(ahead) /\ Before(ahead, C, p, s, i)
  BY <1>1 DEF LinksTo
<1>3. DOMAIN ahead # {}
  BY <1>2 DEF LastOf
<1>4. \A l \in DOMAIN ahead : ahead[l] \in Int /\ ahead[l] <= 999
  BY <1>2 DEF Before, Stacked
<1>5. LastOf(ahead) \in DOMAIN ahead
  BY <1>3, <1>4, LastFound
<1>6. QED
  BY <1>1, <1>2, <1>5 DEF Before

\* Along an axis, who is linked to a screen one way is linked back the other.
LEMMA LinkedBack ==
  ASSUME NEW C, 0 \notin C, NEW s \in {58, 86}, NEW p, NEW q, Stacked(C, p, s),
         Mirrored(C, p, q),
         NEW i, NEW j, j # 0, LinksTo(j, C, p, s, i),
         NEW k, LinksTo(k, C, q, s, j)
  PROVE  k = i
<1>1. i \in C /\ j \in C
  BY LinkedIn
<1>2. PICK ahead : j = LastOf(ahead) /\ Before(ahead, C, p, s, i)
  BY <1>1 DEF LinksTo
<1>3. PICK back : k = LastOf(back) /\ Before(back, C, q, s, j)
  BY <1>1 DEF LinksTo
<1>4. Before(back, C, q, s, LastOf(ahead)) /\ LastOf(ahead) # 0
  BY <1>2, <1>3
<1>5. QED
  BY <1>1, <1>2, <1>3, <1>4, TurnBack

\* Every link that E has from a screen, F has back.
TurnsBack(n, Cs, E, F) ==
  \A i \in 1..n : \A c \in Cs : E[i][c] # 0 => E[i][c] \in 1..n /\ F[E[i][c]][c] = i

UpLinks(list) == [i \in 1..Len(list) |-> [x \in Columns(list) |-> LinkUp(list, i, x)]]
DownLinks(list) == [i \in 1..Len(list) |-> [x \in Columns(list) |-> LinkDown(list, i, x)]]
LeftLinks(list) == [i \in 1..Len(list) |-> [y \in Rows(list) |-> LinkLeft(list, i, y)]]
RightLinks(list) == [i \in 1..Len(list) |-> [y \in Rows(list) |-> LinkRight(list, i, y)]]

LEMMA ColumnTurns ==
  ASSUME NEW list \in Seq(Icon), Apart(list)
  PROVE  /\ TurnsBack(Len(list), Columns(list), UpLinks(list), DownLinks(list))
         /\ TurnsBack(Len(list), Columns(list), DownLinks(list), UpLinks(list))
<1>1. SUFFICES ASSUME NEW i \in 1..Len(list), NEW c \in Columns(list)
               PROVE  /\ LinkUp(list, i, c) # 0 =>
                           /\ LinkUp(list, i, c) \in 1..Len(list)
                           /\ LinkDown(list, LinkUp(list, i, c), c) = i
                      /\ LinkDown(list, i, c) # 0 =>
                           /\ LinkDown(list, i, c) \in 1..Len(list)
                           /\ LinkUp(list, LinkDown(list, i, c), c) = i
  BY DEF TurnsBack, UpLinks, DownLinks
<1> DEFINE C == InColumn(list, c)
<1>2. Stacked(C, Ups(list), 58) /\ Stacked(C, Downs(list), 58)
  BY ColumnOf, ColumnStacked
<1>3. C \subseteq 1..Len(list) /\ 0 \notin C
  BY DEF InColumn
<1>4. /\ \A k \in C : Ups(list)[k] = list[k].y /\ Downs(list)[k] = -list[k].y
      /\ \A k \in C : list[k].y \in Int
  BY <1>3, IconRecord DEF Ups, Downs
<1>5. Mirrored(C, Ups(list), Downs(list)) /\ Mirrored(C, Downs(list), Ups(list))
  BY <1>4 DEF Mirrored
<1> HIDE DEF C
<1>6. \A l \in 1..Len(list) : /\ LinksTo(LinkUp(list, l, c), C, Ups(list), 58, l)
                             /\ LinksTo(LinkDown(list, l, c), C, Downs(list), 58, l)
  BY UpLink, DownLink DEF C
<1>7. ASSUME NEW j, j = LinkUp(list, i, c), j # 0
      PROVE  j \in 1..Len(list) /\ LinkDown(list, j, c) = i
  <2>1. LinksTo(j, C, Ups(list), 58, i)
    BY <1>6, <1>7
  <2>2. j \in C
    BY <1>2, <1>7, <2>1, LinkedIn
  <2>3. PICK k : k = LinkDown(list, j, c)
    OBVIOUS
  <2>4. LinksTo(k, C, Downs(list), 58, j)
    BY <1>3, <1>6, <2>2, <2>3
  <2>5. k = i
    BY <1>2, <1>3, <1>5, <1>7, <2>1, <2>4, LinkedBack
  <2>6. QED
    BY <1>3, <2>2, <2>3, <2>5
<1>8. ASSUME NEW j, j = LinkDown(list, i, c), j # 0
      PROVE  j \in 1..Len(list) /\ LinkUp(list, j, c) = i
  <2>1. LinksTo(j, C, Downs(list), 58, i)
    BY <1>6, <1>8
  <2>2. j \in C
    BY <1>2, <1>8, <2>1, LinkedIn
  <2>3. PICK k : k = LinkUp(list, j, c)
    OBVIOUS
  <2>4. LinksTo(k, C, Ups(list), 58, j)
    BY <1>3, <1>6, <2>2, <2>3
  <2>5. k = i
    BY <1>2, <1>3, <1>5, <1>8, <2>1, <2>4, LinkedBack
  <2>6. QED
    BY <1>3, <2>2, <2>3, <2>5
<1>9. QED
  BY <1>7, <1>8

LEMMA RowTurns ==
  ASSUME NEW list \in Seq(Icon), Apart(list)
  PROVE  /\ TurnsBack(Len(list), Rows(list), LeftLinks(list), RightLinks(list))
         /\ TurnsBack(Len(list), Rows(list), RightLinks(list), LeftLinks(list))
<1>1. SUFFICES ASSUME NEW i \in 1..Len(list), NEW c \in Rows(list)
               PROVE  /\ LinkLeft(list, i, c) # 0 =>
                           /\ LinkLeft(list, i, c) \in 1..Len(list)
                           /\ LinkRight(list, LinkLeft(list, i, c), c) = i
                      /\ LinkRight(list, i, c) # 0 =>
                           /\ LinkRight(list, i, c) \in 1..Len(list)
                           /\ LinkLeft(list, LinkRight(list, i, c), c) = i
  BY DEF TurnsBack, LeftLinks, RightLinks
<1> DEFINE C == InRow(list, c)
<1>2. Stacked(C, Lefts(list), 86) /\ Stacked(C, Rights(list), 86)
  BY RowOf, RowStacked
<1>3. C \subseteq 1..Len(list) /\ 0 \notin C
  BY DEF InRow
<1>4. /\ \A k \in C : Lefts(list)[k] = list[k].x /\ Rights(list)[k] = -list[k].x
      /\ \A k \in C : list[k].x \in Int
  BY <1>3, IconRecord DEF Lefts, Rights
<1>5. Mirrored(C, Lefts(list), Rights(list)) /\ Mirrored(C, Rights(list), Lefts(list))
  BY <1>4 DEF Mirrored
<1> HIDE DEF C
<1>6. \A l \in 1..Len(list) : /\ LinksTo(LinkLeft(list, l, c), C, Lefts(list), 86, l)
                             /\ LinksTo(LinkRight(list, l, c), C, Rights(list), 86, l)
  BY LeftLink, RightLink DEF C
<1>7. ASSUME NEW j, j = LinkLeft(list, i, c), j # 0
      PROVE  j \in 1..Len(list) /\ LinkRight(list, j, c) = i
  <2>1. LinksTo(j, C, Lefts(list), 86, i)
    BY <1>6, <1>7
  <2>2. j \in C
    BY <1>2, <1>7, <2>1, LinkedIn
  <2>3. PICK k : k = LinkRight(list, j, c)
    OBVIOUS
  <2>4. LinksTo(k, C, Rights(list), 86, j)
    BY <1>3, <1>6, <2>2, <2>3
  <2>5. k = i
    BY <1>2, <1>3, <1>5, <1>7, <2>1, <2>4, LinkedBack
  <2>6. QED
    BY <1>3, <2>2, <2>3, <2>5
<1>8. ASSUME NEW j, j = LinkRight(list, i, c), j # 0
      PROVE  j \in 1..Len(list) /\ LinkLeft(list, j, c) = i
  <2>1. LinksTo(j, C, Rights(list), 86, i)
    BY <1>6, <1>8
  <2>2. j \in C
    BY <1>2, <1>8, <2>1, LinkedIn
  <2>3. PICK k : k = LinkLeft(list, j, c)
    OBVIOUS
  <2>4. LinksTo(k, C, Lefts(list), 86, j)
    BY <1>3, <1>6, <2>2, <2>3
  <2>5. k = i
    BY <1>2, <1>3, <1>5, <1>8, <2>1, <2>4, LinkedBack
  <2>6. QED
    BY <1>3, <2>2, <2>3, <2>5
<1>9. QED
  BY <1>7, <1>8


\* A link as it is written, from the pixel d of an edge e, with pos the places of the screens.
Written(e, d, pos) == [screen |-> e[d], at |-> d - pos[e[d]]]

\* What is written of an edge of a screen at o.
EdgeWritten(out, e, o, pos) ==
  /\ DOMAIN out = {c - o : c \in {d \in DOMAIN e : e[d] # 0}}
  /\ \A at \in DOMAIN out : out[at] = Written(e, at + o, pos)

\* The place of each screen along an axis.
PosX(list) == [k \in 1..Len(list) |-> list[k].x]
PosY(list) == [k \in 1..Len(list) |-> list[k].y]

LEMMA WrittenX ==
  ASSUME NEW list \in Seq(Icon), NEW i \in 1..Len(list), NEW e,
         \A c \in DOMAIN e : e[c] # 0 => e[c] \in 1..Len(list),
         NEW Cs \in SUBSET Int, DOMAIN e = Cs
  PROVE  EdgeWritten(PrintEdge(list, i, e, "x"), e, PosX(list)[i], PosX(list))
<1> DEFINE P == {c - list[i].x : c \in {d \in DOMAIN e : e[d] # 0}}
           o == list[i].x
           Link(at) == [screen |-> e[at + o], at |-> at + o - list[e[at + o]].x]
<1>1. PrintEdge(list, i, e, "x") = [at \in P |-> Link(at)]
  BY DEF PrintEdge
<1>2. PICK m \in Int : m = o /\ m = PosX(list)[i]
  BY IconRecord DEF PosX
<1>3. ASSUME NEW at \in P
      PROVE  Link(at) = Written(e, at + m, PosX(list))
  <2>1. PICK c \in Cs : e[c] # 0 /\ at = c - m
    BY <1>2
  <2>2. c \in Int
    OBVIOUS
  <2>3. at + m = c
    BY <2>1, <2>2
  <2>4. PICK to \in 1..Len(list) : to = e[c]
    BY <2>1
  <2>5. PosX(list)[to] = list[to].x
    BY DEF PosX
  <2>6. Link(at) = [screen |-> to, at |-> c - list[to].x]
    <3> HIDE DEF o
    <3>1. at + o = c
      BY <1>2, <2>3
    <3>2. e[at + o] = to
      BY <2>4, <3>1
    <3>3. PICK q \in Int : q = list[to].x
      BY IconRecord
    <3>4. at \in Int /\ o \in Int
      BY <1>2, <2>1, <2>2
    <3>5. at + o - q = c - q
      BY <2>2, <3>1, <3>4
    <3>6. QED
      BY <3>2, <3>3, <3>5
  <2>7. Written(e, at + m, PosX(list)) = [screen |-> to, at |-> c - PosX(list)[to]]
    BY <2>3, <2>4 DEF Written
  <2>8. QED
    BY <2>5, <2>6, <2>7
<1> HIDE DEF Link
<1>4. QED
  BY <1>1, <1>2, <1>3 DEF EdgeWritten

LEMMA WrittenY ==
  ASSUME NEW list \in Seq(Icon), NEW i \in 1..Len(list), NEW e,
         \A c \in DOMAIN e : e[c] # 0 => e[c] \in 1..Len(list),
         NEW Cs \in SUBSET Int, DOMAIN e = Cs
  PROVE  EdgeWritten(PrintEdge(list, i, e, "y"), e, PosY(list)[i], PosY(list))
<1> DEFINE P == {c - list[i].y : c \in {d \in DOMAIN e : e[d] # 0}}
           o == list[i].y
           Link(at) == [screen |-> e[at + o], at |-> at + o - list[e[at + o]].y]
<1>1. PrintEdge(list, i, e, "y") = [at \in P |-> Link(at)]
  BY DEF PrintEdge
<1>2. PICK m \in Int : m = o /\ m = PosY(list)[i]
  BY IconRecord DEF PosY
<1>3. ASSUME NEW at \in P
      PROVE  Link(at) = Written(e, at + m, PosY(list))
  <2>1. PICK c \in Cs : e[c] # 0 /\ at = c - m
    BY <1>2
  <2>2. c \in Int
    OBVIOUS
  <2>3. at + m = c
    BY <2>1, <2>2
  <2>4. PICK to \in 1..Len(list) : to = e[c]
    BY <2>1
  <2>5. PosY(list)[to] = list[to].y
    BY DEF PosY
  <2>6. Link(at) = [screen |-> to, at |-> c - list[to].y]
    <3> HIDE DEF o
    <3>1. at + o = c
      BY <1>2, <2>3
    <3>2. e[at + o] = to
      BY <2>4, <3>1
    <3>3. PICK q \in Int : q = list[to].y
      BY IconRecord
    <3>4. at \in Int /\ o \in Int
      BY <1>2, <2>1, <2>2
    <3>5. at + o - q = c - q
      BY <2>2, <3>1, <3>4
    <3>6. QED
      BY <3>2, <3>3, <3>5
  <2>7. Written(e, at + m, PosY(list)) = [screen |-> to, at |-> c - PosY(list)[to]]
    BY <2>3, <2>4 DEF Written
  <2>8. QED
    BY <2>5, <2>6, <2>7
<1> HIDE DEF Link
<1>4. QED
  BY <1>1, <1>2, <1>3 DEF EdgeWritten

\* A link from screen i to j, at c, and f has one back.
Crossing(Cs, e, f, i, j, c) ==
  /\ c \in Cs /\ DOMAIN e = Cs /\ DOMAIN f = Cs
  /\ e[c] = j /\ f[c] = i /\ i # 0

\* A link that is written says the same as the one back.
LEMMA WrittenBack ==
  ASSUME NEW Cs \in SUBSET Int, NEW e, NEW f, NEW pos,
         NEW i, NEW j, NEW o \in Int, o = pos[i], NEW q \in Int, q = pos[j],
         NEW c, Crossing(Cs, e, f, i, j, c),
         NEW out, EdgeWritten(out, e, o, pos), NEW at \in DOMAIN out, at = c - o,
         NEW back, EdgeWritten(back, f, q, pos)
  PROVE  /\ out[at].screen = j
         /\ out[at].at \in DOMAIN back /\ back[out[at].at] = [screen |-> i, at |-> at]
<1>1. c \in Int /\ c \in Cs /\ DOMAIN f = Cs /\ e[c] = j /\ f[c] = i /\ i # 0
  BY DEF Crossing
<1>2. PICK to \in Int : to = c - q
  BY <1>1
<1>3. at + o = c /\ to + q = c
  BY <1>1, <1>2
<1>4. out[at] = Written(e, c, pos)
  BY <1>3 DEF EdgeWritten
<1>5. out[at] = [screen |-> j, at |-> to]
  BY <1>1, <1>2, <1>4 DEF Written
<1>6. to \in DOMAIN back
  <2>1. c \in {d \in DOMAIN f : f[d] # 0}
    BY <1>1
  <2>2. QED
    BY <1>2, <2>1 DEF EdgeWritten
<1>7. back[to] = Written(f, c, pos)
  BY <1>3, <1>6 DEF EdgeWritten
<1>8. back[to] = [screen |-> i, at |-> at]
  BY <1>1, <1>7 DEF Written
<1>9. QED
  BY <1>5, <1>6, <1>8

Alike(n, Cs, E) == \A k \in 1..n : DOMAIN E[k] = Cs

EdgesWritten(n, Out, E, pos) ==
  /\ \A k \in 1..n : pos[k] \in Int
  /\ \A k \in 1..n : EdgeWritten(Out[k], E[k], pos[k], pos)

\* So it is of all the links of an edge, for every screen.
LEMMA EdgesBack ==
  ASSUME NEW n, NEW Cs \in SUBSET Int, NEW E, NEW F, TurnsBack(n, Cs, E, F), 0 \notin 1..n,
         Alike(n, Cs, E), Alike(n, Cs, F), NEW pos,
         NEW Out, EdgesWritten(n, Out, E, pos), NEW Back, EdgesWritten(n, Back, F, pos),
         NEW i \in 1..n, NEW at \in DOMAIN Out[i]
  PROVE  /\ Out[i][at].screen \in 1..n
         /\ Out[i][at].at \in DOMAIN Back[Out[i][at].screen]
         /\ Back[Out[i][at].screen][Out[i][at].at] = [screen |-> i, at |-> at]
<1>1. PICK o \in Int : o = pos[i]
  BY DEF EdgesWritten
<1>2. PICK e : e = E[i] /\ DOMAIN e = Cs
  BY DEF Alike
<1>3. PICK out : out = Out[i] /\ EdgeWritten(out, e, o, pos)
  BY <1>1, <1>2 DEF EdgesWritten
<1>4. PICK c \in Cs : at = c - o /\ e[c] # 0
  <2>1. at \in {d - o : d \in {g \in Cs : e[g] # 0}}
    BY <1>2, <1>3 DEF EdgeWritten
  <2>2. QED
    BY <2>1
<1>5. PICK j \in 1..n : j = e[c] /\ F[j][c] = i
  BY <1>2, <1>4 DEF TurnsBack
<1>6. PICK q \in Int : q = pos[j]
  BY DEF EdgesWritten
<1>7. PICK f : f = F[j] /\ DOMAIN f = Cs /\ f[c] = i
  BY <1>5 DEF Alike
<1>8. PICK back : back = Back[j] /\ EdgeWritten(back, f, q, pos)
  BY <1>6, <1>7 DEF EdgesWritten
<1>9. i # 0 /\ at \in DOMAIN out
  BY <1>3
<1>10. /\ out[at].screen = j
       /\ out[at].at \in DOMAIN back /\ back[out[at].at] = [screen |-> i, at |-> at]
  <2>1. Crossing(Cs, e, f, i, j, c)
    BY <1>2, <1>4, <1>5, <1>7, <1>9 DEF Crossing
  <2>2. QED
    BY <1>1, <1>3, <1>4, <1>6, <1>8, <1>9, <2>1, WrittenBack
<1>11. QED
  BY <1>3, <1>8, <1>10

\* What printConfig writes of an edge.
LEMMA PrintedEdges ==
  ASSUME NEW list \in Seq(Icon), NEW i \in 1..Len(list)
  PROVE  /\ DOMAIN PrintConfig(list) = 1..Len(list)
         /\ PrintConfig(list)[i]["up"] = PrintEdge(list, i, UpLinks(list)[i], "x")
         /\ PrintConfig(list)[i]["down"] = PrintEdge(list, i, DownLinks(list)[i], "x")
         /\ PrintConfig(list)[i]["left"] = PrintEdge(list, i, LeftLinks(list)[i], "y")
         /\ PrintConfig(list)[i]["right"] = PrintEdge(list, i, RightLinks(list)[i], "y")
         /\ DOMAIN PrintConfig(list)[i] = {"up", "right", "down", "left"}
<1> DEFINE links == LinkScreens(list)
<1>1. DOMAIN list = 1..Len(list)
  OBVIOUS
<1>2. /\ DOMAIN PrintConfig(list) = 1..Len(list)
      /\ PrintConfig(list)[i] = PrintScreenLinks(list, links, i)
  BY <1>1 DEF PrintConfig
<1>3. /\ links[i].up = UpLinks(list)[i] /\ links[i].down = DownLinks(list)[i]
      /\ links[i].left = LeftLinks(list)[i] /\ links[i].right = RightLinks(list)[i]
  BY <1>1 DEF LinkScreens, UpLinks, DownLinks, LeftLinks, RightLinks
<1> HIDE DEF links
<1>4. QED
  BY <1>2, <1>3 DEF PrintScreenLinks

\* Each edge of the configuration is written from the links of that edge.
LEMMA ConfigWritten ==
  ASSUME NEW list \in Seq(Icon), Apart(list), NEW i \in 1..Len(list)
  PROVE  LET config == PrintConfig(list) IN
         /\ EdgeWritten(config[i]["up"], UpLinks(list)[i], PosX(list)[i], PosX(list))
         /\ EdgeWritten(config[i]["down"], DownLinks(list)[i], PosX(list)[i], PosX(list))
         /\ EdgeWritten(config[i]["left"], LeftLinks(list)[i], PosY(list)[i], PosY(list))
         /\ EdgeWritten(config[i]["right"], RightLinks(list)[i], PosY(list)[i], PosY(list))
<1>1. Columns(list) \in SUBSET Int /\ Rows(list) \in SUBSET Int
  BY ColumnOf, RowOf
<1>2. /\ DOMAIN UpLinks(list)[i] = Columns(list) /\ DOMAIN DownLinks(list)[i] = Columns(list)
      /\ DOMAIN LeftLinks(list)[i] = Rows(list) /\ DOMAIN RightLinks(list)[i] = Rows(list)
  BY DEF UpLinks, DownLinks, LeftLinks, RightLinks
<1>3. /\ \A c \in Columns(list) : UpLinks(list)[i][c] # 0 =>
           UpLinks(list)[i][c] \in 1..Len(list)
      /\ \A c \in Columns(list) : DownLinks(list)[i][c] # 0 =>
           DownLinks(list)[i][c] \in 1..Len(list)
  BY ColumnTurns DEF TurnsBack
<1>4. /\ \A c \in Rows(list) : LeftLinks(list)[i][c] # 0 =>
           LeftLinks(list)[i][c] \in 1..Len(list)
      /\ \A c \in Rows(list) : RightLinks(list)[i][c] # 0 =>
           RightLinks(list)[i][c] \in 1..Len(list)
  BY RowTurns DEF TurnsBack
<1>5. EdgeWritten(PrintEdge(list, i, UpLinks(list)[i], "x"), UpLinks(list)[i],
                  PosX(list)[i], PosX(list))
  BY <1>1, <1>2, <1>3, WrittenX
<1>6. EdgeWritten(PrintEdge(list, i, DownLinks(list)[i], "x"), DownLinks(list)[i],
                  PosX(list)[i], PosX(list))
  BY <1>1, <1>2, <1>3, WrittenX
<1>7. EdgeWritten(PrintEdge(list, i, LeftLinks(list)[i], "y"), LeftLinks(list)[i],
                  PosY(list)[i], PosY(list))
  BY <1>1, <1>2, <1>4, WrittenY
<1>8. EdgeWritten(PrintEdge(list, i, RightLinks(list)[i], "y"), RightLinks(list)[i],
                  PosY(list)[i], PosY(list))
  BY <1>1, <1>2, <1>4, WrittenY
<1>9. QED
  BY <1>5, <1>6, <1>7, <1>8, PrintedEdges

LEMMA ApartMutual ==
  ASSUME NEW list \in Seq(Icon), Apart(list)
  PROVE  Mutual(PrintConfig(list))
<1> DEFINE config == PrintConfig(list)
           n == Len(list)
<1>1. n \in Nat /\ \A i \in 1..n : list[i]["x"] \in Int /\ list[i]["y"] \in Int
  <2>1. \A i \in 1..n : list[i] \in Icon
    OBVIOUS
  <2>2. QED
    BY <2>1, IconRecord
<1>2. Columns(list) \in SUBSET Int /\ Rows(list) \in SUBSET Int
  BY ColumnOf, RowOf
<1>3. \A i \in 1..n : /\ DOMAIN UpLinks(list)[i] = Columns(list)
                      /\ DOMAIN DownLinks(list)[i] = Columns(list)
                      /\ DOMAIN LeftLinks(list)[i] = Rows(list)
                      /\ DOMAIN RightLinks(list)[i] = Rows(list)
  BY DEF UpLinks, DownLinks, LeftLinks, RightLinks
<1>4. /\ TurnsBack(n, Columns(list), UpLinks(list), DownLinks(list))
      /\ TurnsBack(n, Columns(list), DownLinks(list), UpLinks(list))
      /\ TurnsBack(n, Rows(list), LeftLinks(list), RightLinks(list))
      /\ TurnsBack(n, Rows(list), RightLinks(list), LeftLinks(list))
  BY ColumnTurns, RowTurns
<1>5. DOMAIN config = 1..n
  BY DEF PrintConfig
<1> DEFINE Returns(i, edge, opposite) ==
      \A at \in DOMAIN config[i][edge] :
        LET to == config[i][edge][at]
        IN  /\ to.at \in DOMAIN config[to.screen][opposite]
            /\ config[to.screen][opposite][to.at] = [screen |-> i, at |-> at]
<1> HIDE DEF config, n
<1>6. ASSUME NEW i \in 1..n PROVE Returns(i, "up", "down")
  <2> DEFINE Out == [k \in 1..n |-> config[k]["up"]]
             Back == [k \in 1..n |-> config[k]["down"]]
             E == UpLinks(list)
             F == DownLinks(list)
             pos == PosX(list)
  <2>1. \A k \in 1..n : Out[k] = config[k]["up"] /\ Back[k] = config[k]["down"]
    OBVIOUS
  <2>2. /\ \A k \in 1..n : EdgeWritten(Out[k], E[k], pos[k], pos)
        /\ \A k \in 1..n : EdgeWritten(Back[k], F[k], pos[k], pos)
    BY <2>1, ConfigWritten DEF config, n
  <2>3. \A k \in 1..n : pos[k] \in Int
    BY <1>1 DEF PosX, n
  <2> HIDE DEF Out, Back, E, F, pos
  <2>4. EdgesWritten(n, Out, E, pos) /\ EdgesWritten(n, Back, F, pos)
    BY <2>2, <2>3 DEF EdgesWritten
  <2>5. /\ TurnsBack(n, Columns(list), E, F) /\ Alike(n, Columns(list), E)
        /\ Alike(n, Columns(list), F) /\ 0 \notin 1..n
    BY <1>1, <1>3, <1>4 DEF E, F, Alike
  <2>6. SUFFICES ASSUME NEW at \in DOMAIN config[i]["up"]
                 PROVE  LET to == config[i]["up"][at]
                        IN  /\ to.at \in DOMAIN config[to.screen]["down"]
                            /\ config[to.screen]["down"][to.at] = [screen |-> i, at |-> at]
    OBVIOUS
  <2>7. at \in DOMAIN Out[i]
    BY <2>1
  <2>8. /\ Out[i][at].screen \in 1..n
        /\ Out[i][at].at \in DOMAIN Back[Out[i][at].screen]
        /\ Back[Out[i][at].screen][Out[i][at].at] = [screen |-> i, at |-> at]
    BY <1>2, <2>4, <2>5, <2>7, EdgesBack
  <2>9. QED
    BY <2>1, <2>8
<1>7. ASSUME NEW i \in 1..n PROVE Returns(i, "down", "up")
  <2> DEFINE Out == [k \in 1..n |-> config[k]["down"]]
             Back == [k \in 1..n |-> config[k]["up"]]
             E == DownLinks(list)
             F == UpLinks(list)
             pos == PosX(list)
  <2>1. \A k \in 1..n : Out[k] = config[k]["down"] /\ Back[k] = config[k]["up"]
    OBVIOUS
  <2>2. /\ \A k \in 1..n : EdgeWritten(Out[k], E[k], pos[k], pos)
        /\ \A k \in 1..n : EdgeWritten(Back[k], F[k], pos[k], pos)
    BY <2>1, ConfigWritten DEF config, n
  <2>3. \A k \in 1..n : pos[k] \in Int
    BY <1>1 DEF PosX, n
  <2> HIDE DEF Out, Back, E, F, pos
  <2>4. EdgesWritten(n, Out, E, pos) /\ EdgesWritten(n, Back, F, pos)
    BY <2>2, <2>3 DEF EdgesWritten
  <2>5. /\ TurnsBack(n, Columns(list), E, F) /\ Alike(n, Columns(list), E)
        /\ Alike(n, Columns(list), F) /\ 0 \notin 1..n
    BY <1>1, <1>3, <1>4 DEF E, F, Alike
  <2>6. SUFFICES ASSUME NEW at \in DOMAIN config[i]["down"]
                 PROVE  LET to == config[i]["down"][at]
                        IN  /\ to.at \in DOMAIN config[to.screen]["up"]
                            /\ config[to.screen]["up"][to.at] = [screen |-> i, at |-> at]
    OBVIOUS
  <2>7. at \in DOMAIN Out[i]
    BY <2>1
  <2>8. /\ Out[i][at].screen \in 1..n
        /\ Out[i][at].at \in DOMAIN Back[Out[i][at].screen]
        /\ Back[Out[i][at].screen][Out[i][at].at] = [screen |-> i, at |-> at]
    BY <1>2, <2>4, <2>5, <2>7, EdgesBack
  <2>9. QED
    BY <2>1, <2>8
<1>8. ASSUME NEW i \in 1..n PROVE Returns(i, "left", "right")
  <2> DEFINE Out == [k \in 1..n |-> config[k]["left"]]
             Back == [k \in 1..n |-> config[k]["right"]]
             E == LeftLinks(list)
             F == RightLinks(list)
             pos == PosY(list)
  <2>1. \A k \in 1..n : Out[k] = config[k]["left"] /\ Back[k] = config[k]["right"]
    OBVIOUS
  <2>2. /\ \A k \in 1..n : EdgeWritten(Out[k], E[k], pos[k], pos)
        /\ \A k \in 1..n : EdgeWritten(Back[k], F[k], pos[k], pos)
    BY <2>1, ConfigWritten DEF config, n
  <2>3. \A k \in 1..n : pos[k] \in Int
    BY <1>1 DEF PosY, n
  <2> HIDE DEF Out, Back, E, F, pos
  <2>4. EdgesWritten(n, Out, E, pos) /\ EdgesWritten(n, Back, F, pos)
    BY <2>2, <2>3 DEF EdgesWritten
  <2>5. /\ TurnsBack(n, Rows(list), E, F) /\ Alike(n, Rows(list), E)
        /\ Alike(n, Rows(list), F) /\ 0 \notin 1..n
    BY <1>1, <1>3, <1>4 DEF E, F, Alike
  <2>6. SUFFICES ASSUME NEW at \in DOMAIN config[i]["left"]
                 PROVE  LET to == config[i]["left"][at]
                        IN  /\ to.at \in DOMAIN config[to.screen]["right"]
                            /\ config[to.screen]["right"][to.at] = [screen |-> i, at |-> at]
    OBVIOUS
  <2>7. at \in DOMAIN Out[i]
    BY <2>1
  <2>8. /\ Out[i][at].screen \in 1..n
        /\ Out[i][at].at \in DOMAIN Back[Out[i][at].screen]
        /\ Back[Out[i][at].screen][Out[i][at].at] = [screen |-> i, at |-> at]
    BY <1>2, <2>4, <2>5, <2>7, EdgesBack
  <2>9. QED
    BY <2>1, <2>8
<1>9. ASSUME NEW i \in 1..n PROVE Returns(i, "right", "left")
  <2> DEFINE Out == [k \in 1..n |-> config[k]["right"]]
             Back == [k \in 1..n |-> config[k]["left"]]
             E == RightLinks(list)
             F == LeftLinks(list)
             pos == PosY(list)
  <2>1. \A k \in 1..n : Out[k] = config[k]["right"] /\ Back[k] = config[k]["left"]
    OBVIOUS
  <2>2. /\ \A k \in 1..n : EdgeWritten(Out[k], E[k], pos[k], pos)
        /\ \A k \in 1..n : EdgeWritten(Back[k], F[k], pos[k], pos)
    BY <2>1, ConfigWritten DEF config, n
  <2>3. \A k \in 1..n : pos[k] \in Int
    BY <1>1 DEF PosY, n
  <2> HIDE DEF Out, Back, E, F, pos
  <2>4. EdgesWritten(n, Out, E, pos) /\ EdgesWritten(n, Back, F, pos)
    BY <2>2, <2>3 DEF EdgesWritten
  <2>5. /\ TurnsBack(n, Rows(list), E, F) /\ Alike(n, Rows(list), E)
        /\ Alike(n, Rows(list), F) /\ 0 \notin 1..n
    BY <1>1, <1>3, <1>4 DEF E, F, Alike
  <2>6. SUFFICES ASSUME NEW at \in DOMAIN config[i]["right"]
                 PROVE  LET to == config[i]["right"][at]
                        IN  /\ to.at \in DOMAIN config[to.screen]["left"]
                            /\ config[to.screen]["left"][to.at] = [screen |-> i, at |-> at]
    OBVIOUS
  <2>7. at \in DOMAIN Out[i]
    BY <2>1
  <2>8. /\ Out[i][at].screen \in 1..n
        /\ Out[i][at].at \in DOMAIN Back[Out[i][at].screen]
        /\ Back[Out[i][at].screen][Out[i][at].at] = [screen |-> i, at |-> at]
    BY <1>2, <2>4, <2>5, <2>7, EdgesBack
  <2>9. QED
    BY <2>1, <2>8
<1>10. /\ DOMAIN Opposite = {"up", "down", "left", "right"}
       /\ Opposite["up"] = "down" /\ Opposite["down"] = "up"
       /\ Opposite["left"] = "right" /\ Opposite["right"] = "left"
  BY DEF Opposite
<1>11. ASSUME NEW i \in DOMAIN config, NEW edge \in DOMAIN Opposite
       PROVE  Returns(i, edge, Opposite[edge])
  <2> HIDE DEF Returns
  <2>1. QED
    BY <1>5, <1>6, <1>7, <1>8, <1>9, <1>10, <1>11
<1>12. QED
  <2> HIDE DEF config
  <2>1. Mutual(config)
    <3>1. SUFFICES ASSUME NEW i \in DOMAIN config, NEW edge \in DOMAIN Opposite,
                          NEW at \in DOMAIN config[i][edge]
                   PROVE  LET to == config[i][edge][at]
                              back == config[to.screen][Opposite[edge]]
                          IN  to.at \in DOMAIN back /\ back[to.at] = [screen |-> i, at |-> at]
      BY Zenon DEF Mutual
    <3>2. Returns(i, edge, Opposite[edge])
      BY <1>11
    <3>3. QED
      BY <3>2, Zenon
  <2>2. QED
    BY <2>1 DEF config

\* The configuration that is written from the icons leads there and back, wherever they are.
THEOREM LinksLeadBack == ArrInit /\ [][ArrNext]_arrVars => []LinksMutual
<1>1. ArrInv => LinksMutual
  <2>1. SUFFICES ASSUME ArrInv, Apart(arr.list) PROVE Mutual(PrintConfig(arr.list))
    BY DEF LinksMutual
  <2>2. arr.list \in Seq(Icon)
    BY <2>1, ArrTyped, ArrRecord DEF ArrInv
  <2>3. QED
    BY <2>1, <2>2, ApartMutual
<1>2. QED
  BY <1>1, ArrStarts, ArrSteps, PTL
=============================================================================
