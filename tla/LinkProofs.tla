---------------------------- MODULE LinkProofs ----------------------------
(***************************************************************************)
(* Proofs about what carries the messages, for any number of messages,     *)
(* hosts, sessions and failures: a connection of the router is the FIFO    *)
(* link Router takes it for (Framing), and what a core client says goes to *)
(* the link of its own session (Streams).                                  *)
(***************************************************************************)
EXTENDS Framing, Streams, SequenceTheorems, WellFoundedInduction, TLAPS

LEMMA LeastNatural ==
  ASSUME NEW T, T \subseteq Nat, T # {}
  PROVE  \E m \in T : \A n \in T : m <= n
<1>1. PICK m \in T : \A n \in T : ~(<<n, m>> \in OpToRel(<, Nat))
  BY NatLessThanWellFounded, WFMin, Zenon
<1>2. \A n \in T : <<n, m>> \in OpToRel(<, Nat) <=> n < m
  BY DEF OpToRel
<1>3. \A n \in T : ~(n < m)
  BY <1>1, <1>2, Zenon
<1> HIDE <1>1, <1>2
<1>4. \A n \in T : m <= n
  BY <1>3
<1>5. QED
  BY <1>4

\* What is left when the first element goes.
LEMMA RemoveAtOne ==
  ASSUME NEW S, NEW s \in Seq(S), s # <<>>
  PROVE  /\ RemoveAt(s, 1) \in Seq(S)
         /\ Len(RemoveAt(s, 1)) = Len(s) - 1
         /\ \A i \in 1..(Len(s) - 1) : RemoveAt(s, 1)[i] = s[i + 1]
<1>1. SubSeq(s, 1, 0) = <<>>
  BY SubSeqEmpty
<1>2. Tail(s) = SubSeq(s, 2, Len(s)) /\ Tail(s) \in Seq(S)
  BY TailIsSubSeq, HeadTailProperties
<1>3. RemoveAt(s, 1) = Tail(s)
  <2>1. RemoveAt(s, 1) = SubSeq(s, 1, 1 - 1) \o SubSeq(s, 1 + 1, Len(s))
    BY DEF RemoveAt
  <2>2. RemoveAt(s, 1) = <<>> \o Tail(s)
    BY <1>1, <1>2, <2>1
  <2>3. QED
    BY <1>2, <2>2, ConcatEmptySeq
<1>4. /\ Tail(s) \in Seq(S) /\ Len(Tail(s)) = Len(s) - 1
      /\ \A i \in 1..Len(Tail(s)) : Tail(s)[i] = s[i + 1]
  BY HeadTailProperties
<1>5. QED
  BY <1>3, <1>4

-----------------------------------------------------------------------------
(* Framing.  Number the pieces of all messages in the order they are sent; *)
(* then the reader has, and the wire carries, consecutive numbers, and the *)
(* piece to be written next is the one after them.  Nothing of this holds  *)
(* when two writers were at work at once, or is needed when the receive    *)
(* loop has ended.                                                         *)

PieceOf == [msg : Nat, piece : Piece]
Draft == [msg : Nat, next : Piece]

FrType ==
  /\ kind \in {"router", "proxy"} /\ sent \in 0..MaxMessages
  /\ loop \in BOOLEAN /\ broken \in BOOLEAN /\ crowded \in BOOLEAN
  /\ writing \in Seq(Draft)
  /\ wire \in Seq(PieceOf) /\ got \in Seq(PieceOf) /\ Len(got) < 4
  /\ delivered \in Seq(Nat)
  /\ kind = "router" => ~crowded

\* The messages being written are the newest, and only the first has begun.
InOrder ==
  /\ Len(writing) <= sent /\ (kind = "proxy" => Len(writing) <= 1)
  /\ \A k \in 1..Len(writing) : writing[k].msg = sent - Len(writing) + k
  /\ \A k \in 1..Len(writing) : k > 1 => writing[k].next = 1

\* The number of a piece.
Number(x) == 4 * (x.msg - 1) + x.piece

Consecutive ==
  /\ \A i \in 1..Len(got) :
       Number(got[i]) = 4 * Len(delivered) + i /\ got[i].msg <= sent
  /\ \A i \in 1..Len(wire) :
       Number(wire[i]) = 4 * Len(delivered) + Len(got) + i /\ wire[i].msg <= sent

\* How many pieces were written so far.
Written == IF writing = <<>> THEN 4 * sent ELSE 4 * (writing[1].msg - 1) + writing[1].next - 1

NoneMissing == 4 * Len(delivered) + Len(got) + Len(wire) = Written

FrInv ==
  /\ FrType /\ WholeUnlessCrowded
  /\ ~crowded => /\ InOrder /\ Len(delivered) <= sent
                 /\ loop => Consecutive
                 /\ loop /\ ~broken => NoneMissing

LEMMA SendMessageInv ==
  ASSUME FrInv, SendMessage
  PROVE  FrInv'
<1> DEFINE new == [msg |-> sent + 1, next |-> 1]
<1>1. /\ sent' = sent + 1 /\ sent \in Nat /\ sent' \in 0..MaxMessages
      /\ writing' = Append(writing, new) /\ new \in Draft
      /\ UNCHANGED <<kind, wire, got, loop, broken, delivered>>
  BY FramingAssumption DEF FrInv, FrType, SendMessage, Piece, Draft
<1>2. crowded' \in BOOLEAN /\ (~crowded' => ~crowded /\ (kind = "proxy" => writing = <<>>))
  BY DEF FrInv, FrType, SendMessage
<1>3. /\ writing' \in Seq(Draft) /\ Len(writing') = Len(writing) + 1
      /\ \A k \in 1..Len(writing) : writing'[k] = writing[k]
      /\ writing'[Len(writing) + 1] = new /\ writing' # <<>>
  BY <1>1 DEF FrInv, FrType
<1>4. new.msg = sent + 1 /\ new.next = 1
  OBVIOUS
<1> HIDE DEF new
<1>5. FrType' /\ WholeUnlessCrowded'
  <2>1. kind = "router" => ~crowded'
    BY DEF SendMessage, FrInv, FrType
  <2>2. QED
    BY <1>1, <1>2, <1>3, <2>1 DEF FrInv, FrType, WholeUnlessCrowded
<1>6. ASSUME ~crowded'
      PROVE  InOrder'
  <2>1. /\ Len(writing) \in Nat /\ ~crowded /\ InOrder
        /\ kind = "proxy" => Len(writing) = 0
    BY <1>2, <1>6 DEF FrInv, FrType
  <2>2. \A k \in 1..Len(writing') : k \in 1..Len(writing) \/ k = Len(writing) + 1
    BY <1>3, <2>1
  <2>3. Len(writing') <= sent' /\ (kind' = "proxy" => Len(writing') <= 1)
    BY <1>1, <1>3, <2>1 DEF InOrder
  <2>4. ASSUME NEW k \in 1..Len(writing')
        PROVE  writing'[k].msg = sent' - Len(writing') + k /\ (k > 1 => writing'[k].next = 1)
    <3>1. CASE k \in 1..Len(writing)
      <4>1. writing'[k] = writing[k] /\ writing[k].msg = sent - Len(writing) + k
        BY <1>3, <2>1, <3>1 DEF InOrder
      <4>2. k > 1 => writing[k].next = 1
        BY <2>1, <3>1 DEF InOrder
      <4>3. sent' - Len(writing') + k = sent - Len(writing) + k
        BY <1>1, <1>3, <2>1
      <4>4. QED
        BY <4>1, <4>2, <4>3
    <3>2. CASE k = Len(writing) + 1
      <4>1. sent' - Len(writing') + k = sent + 1
        BY <1>1, <1>3, <2>1, <3>2
      <4>2. QED
        BY <1>3, <1>4, <3>2, <4>1
    <3>3. QED
      BY <2>2, <3>1, <3>2
  <2>5. QED
    BY <2>3, <2>4 DEF InOrder
<1>7. ASSUME ~crowded', loop
      PROVE  Consecutive'
  <2>1. Consecutive
    BY <1>2, <1>7 DEF FrInv
  <2>2. /\ \A i \in 1..Len(got) : got[i].msg \in Nat
        /\ \A i \in 1..Len(wire) : wire[i].msg \in Nat
    <3>1. /\ \A i \in 1..Len(got) : got[i] \in PieceOf
          /\ \A i \in 1..Len(wire) : wire[i] \in PieceOf
      BY DEF FrInv, FrType
    <3>2. QED
      BY <3>1 DEF PieceOf
  <2>3. QED
    BY <1>1, <2>1, <2>2 DEF Consecutive, Number
<1>8. ASSUME ~crowded', loop, ~broken
      PROVE  NoneMissing'
  <2>1. NoneMissing
    BY <1>2, <1>8 DEF FrInv
  <2>2. Written' = Written
    <3>1. CASE writing = <<>>
      BY <1>1, <1>3, <1>4, <3>1 DEF Written
    <3>2. CASE writing # <<>>
      <4>1. 1 \in 1..Len(writing)
        BY <3>2 DEF FrInv, FrType
      <4>2. QED
        BY <1>3, <3>2, <4>1 DEF Written
    <3>3. QED
      BY <3>1, <3>2
  <2>3. QED
    BY <1>1, <2>1, <2>2 DEF NoneMissing
<1>9. ~crowded' => Len(delivered') <= sent'
  BY <1>1, <1>2 DEF FrInv, FrType
<1>10. QED
  BY <1>1, <1>5, <1>6, <1>7, <1>8, <1>9 DEF FrInv

LEMMA WriteInv ==
  ASSUME FrInv, NEW k \in Writer, Write(k)
  PROVE  FrInv'
<1>1. /\ writing \in Seq(Draft) /\ k \in 1..Len(writing)
      /\ writing[k].msg \in Nat /\ writing[k].next \in Piece
  <2>1. writing \in Seq(Draft) /\ k \in 1..Len(writing)
    BY DEF FrInv, FrType, Writer
  <2>2. writing[k] \in Draft
    BY <2>1
  <2>3. QED
    BY <2>1, <2>2 DEF Draft
<1>2. UNCHANGED <<kind, sent, got, loop, broken, delivered, crowded>>
  BY DEF Write
<1> DEFINE p == [msg |-> writing[k].msg, piece |-> writing[k].next]
<1>3. p \in PieceOf /\ p.msg = writing[k].msg /\ p.piece = writing[k].next
  BY <1>1 DEF PieceOf
<1>4. wire' = IF broken THEN wire ELSE Append(wire, p)
  BY DEF Write
<1> HIDE DEF p
<1>5. wire' \in Seq(PieceOf)
  BY <1>3, <1>4 DEF FrInv, FrType
<1>6. writing' \in Seq(Draft)
  <2>1. CASE writing[k].next = 4
    <3>1. writing' = SubSeq(writing, 1, k - 1) \o SubSeq(writing, k + 1, Len(writing))
      BY <2>1 DEF Write, RemoveAt
    <3>2. SubSeq(writing, 1, k - 1) \in Seq(Draft)
      <4>1. \A i \in 1..(k - 1) : writing[i] \in Draft
        BY <1>1
      <4>2. QED
        BY <1>1, <4>1, SubSeqProperties
    <3>3. SubSeq(writing, k + 1, Len(writing)) \in Seq(Draft)
      <4>1. \A i \in (k + 1)..Len(writing) : writing[i] \in Draft
        BY <1>1
      <4>2. QED
        BY <1>1, <4>1, SubSeqProperties
    <3>4. QED
      BY <3>1, <3>2, <3>3, ConcatProperties
  <2>2. CASE writing[k].next # 4
    <3>1. writing[k].next + 1 \in Piece
      BY <1>1, <2>2 DEF Piece
    <3>2. writing' = [writing EXCEPT ![k].next = @ + 1]
      BY <2>2 DEF Write
    <3>3. [writing[k] EXCEPT !.next = @ + 1] \in Draft
      <4>1. writing[k] \in Draft
        BY <1>1
      <4>2. QED
        BY <3>1, <4>1 DEF Draft
    <3>4. writing' = [writing EXCEPT ![k] = [writing[k] EXCEPT !.next = @ + 1]]
      BY <1>1, <3>2
    <3>5. QED
      BY <1>1, <3>3, <3>4
  <2>3. QED
    BY <2>1, <2>2
<1>7. FrType' /\ WholeUnlessCrowded'
  BY <1>2, <1>5, <1>6 DEF FrInv, FrType, WholeUnlessCrowded
<1>8. ASSUME ~crowded
      PROVE  /\ InOrder'
             /\ loop => Consecutive'
             /\ loop /\ ~broken => NoneMissing'
  <2>1. InOrder /\ k = 1 /\ Len(writing) \in Nat /\ Len(writing) >= 1 /\ sent \in Nat
    BY <1>1, <1>8 DEF FrInv, FrType, InOrder, Writer
  <2>2. writing # <<>> /\ writing[1].msg <= sent
    BY <1>1, <2>1 DEF InOrder
  <2>3. /\ writing[1].next = 4 =>
             /\ Len(writing') = Len(writing) - 1
             /\ \A i \in 1..Len(writing') : writing'[i] = writing[i + 1]
        /\ writing[1].next # 4 =>
             /\ Len(writing') = Len(writing) /\ writing'[1].msg = writing[1].msg
             /\ writing'[1].next = writing[1].next + 1
             /\ \A i \in 1..Len(writing') : i # 1 => writing'[i] = writing[i]
    <3>1. CASE writing[1].next = 4
      <4>1. writing' = RemoveAt(writing, 1)
        BY <2>1, <3>1 DEF Write
      <4>2. QED
        BY <1>1, <2>1, <2>2, <3>1, <4>1, RemoveAtOne
    <3>2. CASE writing[1].next # 4
      <4>1. writing' = [writing EXCEPT ![1].next = @ + 1]
        BY <2>1, <3>2 DEF Write
      <4>2. QED
        BY <1>1, <2>1, <3>2, <4>1
    <3>3. QED
      BY <3>1, <3>2
  <2>4. InOrder'
    <3>1. CASE writing[1].next = 4
      <4>1. Len(writing') <= sent /\ (kind = "proxy" => Len(writing') <= 1)
        BY <2>1, <2>3, <3>1 DEF InOrder
      <4>2. ASSUME NEW i \in 1..Len(writing')
            PROVE  writing'[i].msg = sent - Len(writing') + i /\ writing'[i].next = 1
        <5>1. i + 1 \in 1..Len(writing) /\ i + 1 > 1 /\ writing'[i] = writing[i + 1]
          BY <2>1, <2>3, <3>1
        <5>2. writing[i + 1].msg = sent - Len(writing) + (i + 1) /\ writing[i + 1].next = 1
          BY <2>1, <5>1 DEF InOrder
        <5>3. Len(writing') = Len(writing) - 1
          BY <2>3, <3>1
        <5>4. sent - Len(writing) + (i + 1) = sent - Len(writing') + i
          BY <2>1, <5>3
        <5>5. QED
          BY <5>1, <5>2, <5>4
      <4>3. QED
        BY <1>2, <4>1, <4>2 DEF InOrder
    <3>2. CASE writing[1].next # 4
      <4>1. Len(writing') <= sent /\ (kind = "proxy" => Len(writing') <= 1)
        BY <2>1, <2>3, <3>2 DEF InOrder
      <4>2. ASSUME NEW i \in 1..Len(writing')
            PROVE  /\ writing'[i].msg = sent - Len(writing') + i
                   /\ i > 1 => writing'[i].next = 1
        BY <2>1, <2>3, <3>2 DEF InOrder
      <4>3. QED
        BY <1>2, <4>1, <4>2 DEF InOrder
    <3>3. QED
      BY <3>1, <3>2
  <2>5. ASSUME loop
        PROVE  Consecutive'
    <3>1. Consecutive
      BY <1>8, <2>5 DEF FrInv
    <3>2. CASE broken
      BY <1>2, <1>4, <3>1, <3>2 DEF Consecutive, Number
    <3>3. CASE ~broken
      <4>1. /\ wire' = Append(wire, p) /\ wire \in Seq(PieceOf)
            /\ Len(got) \in Nat /\ Len(wire) \in Nat /\ Len(delivered) \in Nat
        BY <1>4, <3>3 DEF FrInv, FrType
      <4>2. /\ Len(wire') = Len(wire) + 1 /\ wire'[Len(wire) + 1] = p
            /\ \A i \in 1..Len(wire) : wire'[i] = wire[i]
        BY <1>3, <4>1
      <4>3. Number(p) = 4 * Len(delivered) + Len(got) + Len(wire) + 1
        <5>1. 4 * Len(delivered) + Len(got) + Len(wire) = 4 * (p.msg - 1) + p.piece - 1
          BY <1>3, <1>8, <2>1, <2>2, <2>5, <3>3 DEF FrInv, NoneMissing, Written
        <5>2. p.msg \in Nat /\ p.piece \in 1..4
          BY <1>3 DEF PieceOf, Piece
        <5>3. Number(p) = 4 * (p.msg - 1) + p.piece
          BY DEF Number
        <5> DEFINE full == 4 * Len(delivered)
                   begun == 4 * (p.msg - 1)
        <5>4. full \in Int /\ begun \in Int
          BY <4>1, <5>2
        <5>5. full + Len(got) + Len(wire) = begun + p.piece - 1 /\ Number(p) = begun + p.piece
          BY <5>1, <5>3
        <5> HIDE DEF full, begun
        <5>6. Number(p) = full + Len(got) + Len(wire) + 1
          BY <4>1, <5>2, <5>4, <5>5
        <5>7. QED
          BY <5>6 DEF full
      <4>4. p.msg <= sent
        BY <1>3, <2>1, <2>2
      <4>5. ASSUME NEW i \in 1..Len(wire')
            PROVE  Number(wire'[i]) = 4 * Len(delivered) + Len(got) + i /\ wire'[i].msg <= sent
        <5>1. CASE i = Len(wire) + 1
          BY <4>1, <4>2, <4>3, <4>4, <5>1
        <5>2. CASE i \in 1..Len(wire)
          BY <3>1, <4>2, <5>2 DEF Consecutive
        <5>3. QED
          BY <4>1, <4>2, <5>1, <5>2
      <4>6. QED
        BY <1>2, <3>1, <4>5 DEF Consecutive, Number
    <3>4. QED
      BY <3>2, <3>3
  <2>6. ASSUME loop, ~broken
        PROVE  NoneMissing'
    <3>1. /\ Len(wire') = Len(wire) + 1
          /\ Len(got) \in Nat /\ Len(wire) \in Nat /\ Len(delivered) \in Nat
      BY <1>4, <2>6 DEF FrInv, FrType
    <3>2. 4 * Len(delivered) + Len(got) + Len(wire) = 4 * (writing[1].msg - 1) + writing[1].next - 1
      BY <1>8, <2>2, <2>6 DEF FrInv, NoneMissing, Written
    <3>3. Written' = 4 * (writing[1].msg - 1) + writing[1].next
      <4>1. /\ Len(writing') = 0 <=> writing' = <<>>
            /\ writing[1].msg \in Nat /\ writing[1].next \in Nat
            /\ writing[1].msg = sent - Len(writing) + 1
        BY <1>1, <1>6, <2>1 DEF Piece, InOrder
      <4>2. CASE writing[1].next = 4 /\ Len(writing) = 1
        BY <1>2, <2>1, <2>3, <4>1, <4>2 DEF Written
      <4>3. CASE writing[1].next = 4 /\ Len(writing) > 1
        <5>1. 1 \in 1..Len(writing') /\ 2 \in 1..Len(writing) /\ writing'[1] = writing[2]
          BY <2>1, <2>3, <4>3
        <5>2. writing'[1].msg = writing[1].msg + 1 /\ writing'[1].next = 1 /\ writing' # <<>>
          BY <2>1, <4>1, <5>1 DEF InOrder
        <5>3. QED
          BY <4>1, <4>3, <5>2 DEF Written
      <4>4. CASE writing[1].next # 4
        <5>1. writing' # <<>>
          BY <2>1, <2>3, <4>1, <4>4
        <5>2. Written' = 4 * (writing[1].msg - 1) + (writing[1].next + 1) - 1
          BY <2>3, <4>4, <5>1 DEF Written
        <5> DEFINE begun == 4 * (writing[1].msg - 1)
        <5>3. begun \in Int
          BY <4>1
        <5> HIDE DEF begun
        <5>4. begun + (writing[1].next + 1) - 1 = begun + writing[1].next
          BY <4>1, <5>3
        <5>5. QED
          BY <5>2, <5>4 DEF begun
      <4>5. Len(writing) = 1 \/ Len(writing) > 1
        <5>1. Len(writing) \in Nat /\ Len(writing) >= 1
          BY <2>1, Zenon
        <5>2. \A m \in Nat : m >= 1 => m = 1 \/ m > 1
          OBVIOUS
        <5>3. QED
          BY <5>1, <5>2, Zenon
      <4>6. QED
        BY <4>2, <4>3, <4>4, <4>5, Zenon
    <3>4. writing[1].msg \in Nat /\ writing[1].next \in Nat
      BY <1>1, <2>1 DEF Piece
    <3> DEFINE full == 4 * Len(delivered)
               begun == 4 * (writing[1].msg - 1)
    <3>5. full \in Int /\ begun \in Int
      BY <3>1, <3>4
    <3>6. full + Len(got) + Len(wire) = begun + writing[1].next - 1 /\ Written' = begun + writing[1].next
      BY <3>2, <3>3
    <3>7. NoneMissing' <=> full + Len(got) + Len(wire') = Written'
      BY <1>2 DEF NoneMissing
    <3> HIDE DEF full, begun
    <3>8. full + Len(got) + Len(wire') = Written'
      BY <3>1, <3>4, <3>5, <3>6
    <3>9. QED
      BY <3>7, <3>8, Zenon
  <2>7. QED
    BY <2>4, <2>5, <2>6
<1>9. QED
  BY <1>2, <1>7, <1>8 DEF FrInv

\* Four consecutive pieces that begin after a multiple of four are one message.
LEMMA FourAreOne ==
  ASSUME NEW g \in Seq(PieceOf), NEW d \in Nat, d + 1 \in 1..MaxMessages, Len(g) = 4,
         \A i \in 1..4 : Number(g[i]) = 4 * d + i
  PROVE  Parsed(g) = d + 1
<1>1. ASSUME NEW p \in Piece
      PROVE  g[p] = [msg |-> d + 1, piece |-> p]
  <2>0. p \in 1..4 /\ p \in 1..Len(g)
    BY DEF Piece
  <2>1. g[p] \in PieceOf /\ Number(g[p]) = 4 * d + p /\ p \in 1..4
    BY <2>0, ElementOfSeq
  <2>2. g[p].msg \in Nat /\ g[p].piece \in 1..4 /\ 4 * (g[p].msg - 1) + g[p].piece = 4 * d + p
    BY <2>1 DEF PieceOf, Piece, Number
  <2>3. \A m \in Nat, q \in 1..4 : 4 * (m - 1) + q = 4 * d + p => m = d + 1 /\ q = p
    BY <2>1
  <2>4. g[p].msg = d + 1 /\ g[p].piece = p
    BY <2>2, <2>3
  <2>5. QED
    BY <2>1, <2>4 DEF PieceOf
<1>2. \E m \in 1..MaxMessages : \A p \in Piece : g[p] = [msg |-> m, piece |-> p]
  BY <1>1
<1>3. g[1].msg = d + 1
  BY <1>1 DEF Piece
<1>4. QED
  BY <1>2, <1>3 DEF Parsed

LEMMA ArriveInv ==
  ASSUME FrInv, NEW n \in 1..Wanted, Arrive(n)
  PROVE  FrInv'
<1> DEFINE part == SubSeq(wire, 1, n)
           g == got \o part
<1>1. /\ wire \in Seq(PieceOf) /\ got \in Seq(PieceOf) /\ n \in Nat /\ 1 <= n /\ n <= Len(wire)
      /\ Len(got) \in Nat /\ Len(wire) \in Nat /\ Len(delivered) \in Nat /\ loop
      /\ Len(got) + n <= 4 /\ sent \in Nat /\ sent <= MaxMessages
  BY FramingAssumption DEF FrInv, FrType, Arrive, Wanted
<1>2. /\ part \in Seq(PieceOf) /\ Len(part) = n
      /\ \A i \in 1..n : part[i] = wire[i]
  <2>1. \A i \in 1..n : wire[i] \in PieceOf
    BY <1>1
  <2>2. QED
    BY <1>1, <2>1, SubSeqProperties
<1>3. /\ SubSeq(wire, n + 1, Len(wire)) \in Seq(PieceOf)
      /\ Len(SubSeq(wire, n + 1, Len(wire))) = Len(wire) - n
      /\ \A i \in 1..(Len(wire) - n) : SubSeq(wire, n + 1, Len(wire))[i] = wire[n + i]
  <2>1. \A i \in (n + 1)..Len(wire) : wire[i] \in PieceOf
    BY <1>1
  <2>2. QED
    BY <1>1, <2>1, SubSeqProperties
<1>4. /\ g \in Seq(PieceOf) /\ Len(g) = Len(got) + n
      /\ \A i \in 1..Len(got) : g[i] = got[i]
      /\ \A i \in 1..n : g[Len(got) + i] = wire[i]
  <2> HIDE DEF part
  <2>1. QED
    BY <1>1, <1>2, ConcatProperties
<1>5. wire' = SubSeq(wire, n + 1, Len(wire))
  BY DEF Arrive
<1>6. UNCHANGED <<kind, sent, writing, loop, broken, crowded>>
  BY DEF Arrive
<1>7. IF Len(g) < 4 THEN got' = g /\ UNCHANGED delivered
      ELSE got' = <<>> /\ delivered' = Append(delivered, Parsed(g))
  BY DEF Arrive
<1> HIDE DEF part, g
<1>8. /\ wire' \in Seq(PieceOf) /\ Len(wire') = Len(wire) - n
      /\ \A i \in 1..(Len(wire) - n) : wire'[i] = wire[n + i]
  BY <1>3, <1>5
<1>9. Consecutive => \A i \in 1..Len(g) : Number(g[i]) = 4 * Len(delivered) + i /\ g[i].msg <= sent
  <2> SUFFICES ASSUME Consecutive, NEW i \in 1..Len(g)
               PROVE  Number(g[i]) = 4 * Len(delivered) + i /\ g[i].msg <= sent
    OBVIOUS
  <2>1. CASE i <= Len(got)
    <3>1. i \in 1..Len(got)
      BY <1>1, <1>4, <2>1
    <3>2. g[i] = got[i]
      BY <1>4, <3>1
    <3>3. QED
      BY <3>1, <3>2 DEF Consecutive
  <2>2. CASE i > Len(got)
    <3> DEFINE j == i - Len(got)
    <3>1. j \in 1..n /\ j \in 1..Len(wire) /\ i = Len(got) + j
      BY <1>1, <1>4, <2>2
    <3> HIDE DEF j
    <3>2. g[i] = wire[j]
      BY <1>4, <3>1
    <3> DEFINE full == 4 * Len(delivered)
    <3>3. full \in Nat
      BY <1>1
    <3>4. Number(wire[j]) = full + Len(got) + j /\ wire[j].msg <= sent
      BY <3>1 DEF Consecutive
    <3> HIDE DEF full
    <3>5. full + Len(got) + j = full + i
      BY <1>1, <3>1, <3>3
    <3>6. QED
      BY <3>2, <3>4, <3>5 DEF full
  <2>3. QED
    BY <1>1, <1>4, <2>1, <2>2
<1>10. CASE Len(g) < 4
  <2>1. got' = g /\ delivered' = delivered
    BY <1>7, <1>10
  <2>2. FrType' /\ WholeUnlessCrowded'
    BY <1>4, <1>6, <1>8, <1>10, <2>1 DEF FrInv, FrType, WholeUnlessCrowded
  <2>3. InOrder => InOrder'
    BY <1>6 DEF InOrder
  <2>4. Consecutive => Consecutive'
    <3> SUFFICES ASSUME Consecutive
                 PROVE  Consecutive'
      OBVIOUS
    <3>1. ASSUME NEW i \in 1..Len(wire')
          PROVE  Number(wire'[i]) = 4 * Len(delivered) + Len(g) + i /\ wire'[i].msg <= sent
      <4> DEFINE full == 4 * Len(delivered)
      <4>1. n + i \in 1..Len(wire) /\ wire'[i] = wire[n + i] /\ full \in Nat
        BY <1>1, <1>8
      <4>2. Number(wire[n + i]) = full + Len(got) + (n + i) /\ wire[n + i].msg <= sent
        BY <4>1 DEF Consecutive
      <4> HIDE DEF full
      <4>3. full + Len(got) + (n + i) = full + Len(g) + i
        BY <1>1, <1>4, <4>1
      <4>4. QED
        BY <4>1, <4>2, <4>3 DEF full
    <3>2. QED
      BY <1>6, <1>9, <2>1, <3>1 DEF Consecutive, Number
  <2>5. NoneMissing => NoneMissing'
    <3> DEFINE full == 4 * Len(delivered)
    <3>1. full \in Nat /\ Written' = Written
      BY <1>1, <1>6 DEF Written
    <3>2. /\ NoneMissing => full + Len(got) + Len(wire) = Written
          /\ full + Len(g) + Len(wire') = Written' => NoneMissing'
      BY <2>1 DEF NoneMissing
    <3> HIDE DEF full
    <3>3. full + Len(got) + Len(wire) = full + Len(g) + Len(wire')
      BY <1>1, <1>4, <1>8, <3>1
    <3>4. QED
      BY <3>1, <3>2, <3>3, Zenon
  <2>6. QED
    BY <1>6, <2>1, <2>2, <2>3, <2>4, <2>5 DEF FrInv
<1>11. CASE ~(Len(g) < 4)
  <2>1. Len(g) = 4 /\ got' = <<>> /\ delivered' = Append(delivered, Parsed(g))
    BY <1>1, <1>4, <1>7, <1>11
  <2>2. Parsed(g) \in Nat
    <3>1. g[1] \in PieceOf
      BY <1>4, <2>1
    <3>2. QED
      BY <3>1 DEF Parsed, PieceOf
  <2>3. Len(delivered') = Len(delivered) + 1 /\ delivered' \in Seq(Nat)
    BY <2>1, <2>2 DEF FrInv, FrType
  <2>4. FrType'
    BY <1>6, <1>8, <2>1, <2>3 DEF FrInv, FrType
  <2>5. CASE crowded
    BY <1>6, <2>4, <2>5 DEF FrInv, WholeUnlessCrowded
  <2>6. CASE ~crowded
    <3>1. Consecutive /\ InOrder /\ WholeUnlessCrowded
      BY <1>1, <2>6 DEF FrInv
    <3>2. \A i \in 1..4 : Number(g[i]) = 4 * Len(delivered) + i /\ g[i].msg <= sent
      BY <1>9, <2>1, <3>1
    <3>3. Len(delivered) + 1 <= sent
      <4>1. g[4] \in PieceOf
        <5>1. 4 \in 1..Len(g)
          BY <2>1
        <5>2. QED
          BY <1>4, <5>1, ElementOfSeq
      <4>2. g[4].msg \in Nat /\ g[4].piece \in 1..4
        BY <4>1 DEF PieceOf, Piece
      <4>3. 4 * (g[4].msg - 1) + g[4].piece = 4 * Len(delivered) + 4 /\ g[4].msg <= sent
        BY <3>2 DEF Number
      <4>4. \A m \in Nat, q \in 1..4 : 4 * (m - 1) + q = 4 * Len(delivered) + 4
              => m = Len(delivered) + 1
        BY <1>1
      <4>5. QED
        BY <4>2, <4>3, <4>4
    <3>4. Parsed(g) = Len(delivered) + 1
      <4>1. Len(delivered) + 1 \in 1..MaxMessages
        BY <1>1, <3>3, FramingAssumption
      <4>2. QED
        BY <1>1, <1>4, <2>1, <3>2, <4>1, FourAreOne
    <3>5. WholeUnlessCrowded'
      BY <1>6, <2>1, <2>6, <3>1, <3>4 DEF FrInv, FrType, WholeUnlessCrowded
    <3> DEFINE full == 4 * Len(delivered)
               fuller == 4 * Len(delivered')
    <3>6. full \in Nat /\ fuller \in Nat /\ fuller = full + 4
      BY <1>1, <2>3
    <3> HIDE DEF full, fuller
    <3>7. Len(got) + n = 4
      BY <1>4, <2>1
    <3>8. Consecutive'
      <4>1. ASSUME NEW i \in 1..Len(wire')
            PROVE  Number(wire'[i]) = fuller + 0 + i /\ wire'[i].msg <= sent
        <5>1. n + i \in 1..Len(wire) /\ wire'[i] = wire[n + i]
          BY <1>1, <1>8
        <5>2. Number(wire[n + i]) = full + Len(got) + (n + i) /\ wire[n + i].msg <= sent
          BY <3>1, <5>1 DEF Consecutive, full
        <5>3. i \in Nat
          OBVIOUS
        <5>4. full + Len(got) + (n + i) = fuller + 0 + i
          BY <1>1, <3>6, <3>7, <5>3
        <5>5. QED
          BY <5>1, <5>2, <5>4
      <4>2. Len(got') = 0 /\ \A i \in 1..Len(got') : FALSE
        BY <2>1
      <4>3. QED
        BY <1>6, <2>1, <4>1, <4>2 DEF Consecutive, Number, fuller
    <3>9. NoneMissing => NoneMissing'
      <4>1. /\ NoneMissing => full + Len(got) + Len(wire) = Written
            /\ fuller + 0 + Len(wire') = Written' => NoneMissing'
            /\ Written' = Written
        BY <1>6, <2>1 DEF NoneMissing, Written, full, fuller
      <4>2. /\ Len(wire') = Len(wire) - n /\ Len(got) \in Nat /\ Len(wire) \in Nat
            /\ n \in Nat /\ full \in Nat /\ fuller = full + 4 /\ Len(got) + n = 4
        BY <1>1, <1>8, <3>6, <3>7, Zenon
      <4>3. /\ full \in Int /\ Len(got) \in Int /\ Len(wire) \in Int
            /\ n \in Int /\ fuller \in Int /\ Len(wire') \in Int
        BY <4>2
      <4>4. full + Len(got) + Len(wire) = fuller + 0 + Len(wire')
        BY <4>2, <4>3
      <4>5. QED
        BY <4>1, <4>4, Zenon
    <3>10. InOrder'
      BY <1>6, <3>1 DEF InOrder
    <3>11. Len(delivered') <= sent'
      BY <1>6, <2>3, <3>3
    <3>12. QED
      BY <1>1, <1>6, <2>4, <2>6, <3>5, <3>8, <3>9, <3>10, <3>11 DEF FrInv
  <2>7. QED
    BY <2>5, <2>6
<1>12. QED
  BY <1>10, <1>11

LEMMA FrStepInv ==
  ASSUME FrInv, [FrameNext]_frameVars
  PROVE  FrInv'
<1>1. CASE SendMessage
  BY <1>1, SendMessageInv
<1>2. ASSUME NEW k \in Writer, Write(k)
      PROVE  FrInv'
  BY <1>2, WriteInv
<1>3. ASSUME NEW n \in 1..Wanted, Arrive(n)
      PROVE  FrInv'
  BY <1>3, ArriveInv
<1>4. CASE ReadFailure \/ TimeoutHandler \/ StopLink
  <2>1. /\ loop' = FALSE /\ got' = <<>> /\ UNCHANGED <<kind, sent, writing, wire, broken, delivered, crowded>>
    BY <1>4 DEF ReadFailure, TimeoutHandler, StopLink
  <2>2. got' \in Seq(PieceOf) /\ Len(got') < 4 /\ loop' \in BOOLEAN
    <3>1. <<>> \in Seq(PieceOf) /\ Len(<<>>) < 4
      OBVIOUS
    <3>2. QED
      BY <2>1, <3>1, Zenon
  <2>3. FrType'
    BY <2>1, <2>2 DEF FrInv, FrType
  <2>4. QED
    BY <2>1, <2>3 DEF FrInv, InOrder, WholeUnlessCrowded
<1>5. CASE ReadTimeout
  <2>1. UNCHANGED <<kind, sent, writing, wire, got, loop, broken, delivered, crowded>>
    BY <1>5 DEF ReadTimeout
  <2>2. QED
    BY <2>1 DEF FrInv, FrType, InOrder, WholeUnlessCrowded, Consecutive, Number, NoneMissing, Written
<1>6. CASE LinkBreaks
  <2>1. /\ broken' = TRUE /\ wire' = <<>>
        /\ UNCHANGED <<kind, sent, writing, got, loop, delivered, crowded>>
    BY <1>6 DEF LinkBreaks
  <2>2. FrType'
    BY <2>1 DEF FrInv, FrType
  <2>3. Consecutive => Consecutive'
    BY <2>1 DEF Consecutive, Number
  <2>4. QED
    BY <2>1, <2>2, <2>3 DEF FrInv, InOrder, WholeUnlessCrowded
<1>7. CASE UNCHANGED frameVars
  BY <1>7 DEF frameVars, FrInv, FrType, InOrder, WholeUnlessCrowded, Consecutive, Number,
              NoneMissing, Written
<1>8. QED
  BY <1>1, <1>2, <1>3, <1>4, <1>5, <1>6, <1>7 DEF FrameNext, FrameHandler

FrameSpec == FrameInit /\ [][FrameNext]_frameVars

\* FrInv holds always: unless two writers were at work at once, the pieces that are
\* under way are the next ones the reader waits for, and none is missing.
THEOREM FrameInvariant == FrameSpec => []FrInv
<1>1. FrameInit => FrInv
  <2> SUFFICES ASSUME FrameInit
               PROVE  FrInv
    OBVIOUS
  <2>1. FrType /\ WholeUnlessCrowded /\ Len(delivered) <= sent
    <3>1. /\ kind \in {"router", "proxy"} /\ sent = 0 /\ writing = <<>> /\ wire = <<>>
          /\ got = <<>> /\ delivered = <<>> /\ loop = TRUE /\ broken = FALSE /\ crowded = FALSE
      BY DEF FrameInit
    <3>2. sent \in 0..MaxMessages
      BY <3>1, FramingAssumption
    <3>3. /\ writing \in Seq(Draft) /\ wire \in Seq(PieceOf) /\ got \in Seq(PieceOf)
          /\ Len(got) < 4 /\ delivered \in Seq(Nat) /\ Len(delivered) = 0
          /\ DOMAIN delivered = {}
      BY <3>1
    <3>4. FrType
      BY <3>1, <3>2, <3>3, Zenon DEF FrType
    <3>5. WholeUnlessCrowded
      BY <3>3 DEF WholeUnlessCrowded
    <3>6. QED
      BY <3>1, <3>3, <3>4, <3>5
  <2>2. InOrder /\ Consecutive
    BY DEF FrameInit, InOrder, Consecutive
  <2>3. NoneMissing
    BY DEF FrameInit, NoneMissing, Written
  <2>4. QED
    BY <2>1, <2>2, <2>3 DEF FrInv
<1>2. QED
  BY <1>1, FrStepInv, PTL DEF FrameSpec

\* For any number of messages, and any interleaving of sends, partial writes, partial
\* reads and timeouts, messages arrive whole and in order unless two writers were at
\* work at once.
THEOREM FrameWhole == FrameSpec => []WholeUnlessCrowded
<1>1. FrInv => WholeUnlessCrowded
  BY DEF FrInv
<1>2. QED
  BY <1>1, FrameInvariant, PTL

\* A step of a router's connection is a step of the link or leaves it alone.
LEMMA LinkStep ==
  ASSUME FrInv, FrInv', [FrameNext]_frameVars
  PROVE  [Link!Offer \/ Link!Deliver]_<<OfRouter(sent, 0), OfRouter(delivered, <<>>)>>
<1>1. kind' = kind
  BY DEF FrameNext, FrameHandler, SendMessage, ReadTimeout, LinkBreaks, StopLink, Write, Arrive,
         ReadFailure, TimeoutHandler, frameVars
<1>2. CASE kind # "router"
  BY <1>1, <1>2 DEF OfRouter
<1>3. CASE kind = "router"
  <2>1. CASE SendMessage
    BY <1>1, <1>3, <2>1 DEF SendMessage, Link!Offer, OfRouter
  <2>2. ASSUME NEW n \in 1..Wanted, Arrive(n)
        PROVE  UNCHANGED <<sent, delivered>> \/ Link!Deliver
    <3>1. UNCHANGED sent
      BY <2>2 DEF Arrive
    <3>2. CASE delivered' = delivered
      BY <3>1, <3>2
    <3>3. CASE delivered' # delivered
      <4> DEFINE x == Parsed(got \o SubSeq(wire, 1, n))
      <4>1. delivered' = Append(delivered, x)
        BY <2>2, <3>3 DEF Arrive
      <4> HIDE DEF x
      <4>2. x = Len(delivered) + 1
        <5>1. ~crowded' /\ delivered \in Seq(Nat)
          BY <1>1, <1>3 DEF FrInv, FrType
        <5>2. /\ Len(delivered) + 1 \in DOMAIN delivered'
              /\ delivered'[Len(delivered) + 1] = x
          BY <4>1, <5>1
        <5>3. QED
          BY <5>1, <5>2 DEF FrInv, WholeUnlessCrowded
      <4>3. Len(delivered) < sent
        <5>1. Len(delivered') = Len(delivered) + 1 /\ Len(delivered) \in Nat /\ sent \in Nat
          BY <4>1 DEF FrInv, FrType
        <5>2. Len(delivered') <= sent
          BY <1>1, <1>3, <3>1 DEF FrInv, FrType
        <5>3. QED
          BY <5>1, <5>2
      <4>4. QED
        BY <1>1, <1>3, <3>1, <4>1, <4>2, <4>3 DEF Link!Deliver, OfRouter
    <3>4. QED
      BY <3>2, <3>3
  <2>3. CASE UNCHANGED <<sent, delivered>>
    BY <1>1, <2>3 DEF OfRouter
  <2>4. ASSUME NEW k \in Writer, Write(k)
        PROVE  UNCHANGED <<sent, delivered>>
    BY <2>4 DEF Write
  <2>5. ASSUME ReadFailure \/ TimeoutHandler \/ ReadTimeout \/ LinkBreaks \/ StopLink
        PROVE  UNCHANGED <<sent, delivered>>
    BY <2>5 DEF ReadFailure, TimeoutHandler, ReadTimeout, LinkBreaks, StopLink
  <2>6. QED
    BY <2>1, <2>2, <2>3, <2>4, <2>5 DEF FrameNext, FrameHandler, frameVars
<1>4. QED
  BY <1>2, <1>3

\* For any number of messages a connection of the router is a FIFO link: messages arrive
\* whole, once and in order, until nothing more arrives.
THEOREM FrameImplementsLink == FrameSpec => ImplementsLink
<1>1. FrameInit => Link!LinkInit
  BY DEF FrameInit, Link!LinkInit, OfRouter
<1>2. FrInv /\ FrInv' /\ [FrameNext]_frameVars
        => [Link!Offer \/ Link!Deliver]_<<OfRouter(sent, 0), OfRouter(delivered, <<>>)>>
  BY LinkStep
<1>3. QED
  BY <1>1, <1>2, FrameInvariant, PTL DEF FrameSpec, ImplementsLink, Link!LinkSpec

-----------------------------------------------------------------------------
(* Streams.  On the way to a host every message of a session follows one   *)
(* of the same session, if it does not announce it; so the first message   *)
(* that is not an announcement is of the session of the live link or the   *)
(* dial there is, and what was sent last is of the session that is open.   *)
(* A link is live if it did not outlive the announcement of another.       *)

Msg == [kind : {"connect", "data"}, session : Nat]
Dial == [session : Nat, attempt : Nat]
FarLink == [session : Nat, state : {"new", "open"}, due : BOOLEAN, kept : BOOLEAN]
NearLink == [session : Nat \ {0}, state : {"accepted", "asked", "open"}]

AllOf(s, k) == \A i \in 1..Len(s) : s[i].session = k
AllLive(f, k) == \A i \in 1..Len(f) : f[i].kept \/ f[i].session = k

\* One dial or one live link, at most.
Single(d, f) ==
  /\ Len(d) <= 1
  /\ \A i, j \in 1..Len(f) : i # j => f[i].kept \/ f[j].kept
  /\ d # <<>> => \A i \in 1..Len(f) : f[i].kept

\* What may be under way, dialled and linked at a host.
Own(q, d, f) ==
  /\ Single(d, f)
  /\ \A j \in 2..Len(q) : q[j].kind = "data" => q[j].session = q[j - 1].session
  /\ q # <<>> /\ q[1].kind = "data" => AllOf(d, q[1].session) /\ AllLive(f, q[1].session)

\* The newest that host was told is of session k.
Newest(q, d, f, k) ==
  /\ q # <<>> => q[Len(q)].session = k
  /\ q = <<>> => AllOf(d, k) /\ AllLive(f, k)

Excusable(h) == excuse[h] \intersect {"doubled", "lost"} # {}

StType ==
  /\ near \in Seq(NearLink)
  /\ toServer \in [Host -> Seq(Msg)] /\ dials \in [Host -> Seq(Dial)]
  /\ far \in [Host -> Seq(FarLink)] /\ excuse \in [Host -> SUBSET Excuses]
  /\ mixed \in BOOLEAN /\ core \in Nat
  /\ used \in [sessions : Nat, chunks : Nat, troubles : Nat]

HostOwn(h) ==
  \/ Excusable(h)
  \/ /\ Own(toServer[h], dials[h], far[h])
     /\ \A k \in Nat : OpenSession(h, k) => Newest(toServer[h], dials[h], far[h], k)

StInv ==
  /\ StType
  /\ core <= used.sessions /\ \A i \in 1..Len(near) : near[i].session <= used.sessions
  /\ \A h \in Host : HostOwn(h)
  /\ mixed => \E h \in Host : Excusable(h)

\* A dial that becomes a link, a link that ends, a dial that is tried again: nothing of
\* another session appears.
LEMMA FewerOwn ==
  ASSUME NEW q \in Seq(Msg), NEW d \in Seq(Dial), NEW f \in Seq(FarLink),
         NEW d2 \in Seq(Dial), NEW f2 \in Seq(FarLink),
         Single(d, f) => Single(d2, f2),
         \A k \in Nat : AllOf(d, k) /\ AllLive(f, k) => AllOf(d2, k) /\ AllLive(f2, k),
         Own(q, d, f)
  PROVE  /\ Own(q, d2, f2)
         /\ \A k \in Nat : Newest(q, d, f, k) => Newest(q, d2, f2, k)
<1>1. Single(d2, f2)
  BY DEF Own
<1>2. q # <<>> => q[1].session \in Nat
  <2> SUFFICES ASSUME q # <<>>
               PROVE  q[1].session \in Nat
    OBVIOUS
  <2>1. 1 \in 1..Len(q)
    OBVIOUS
  <2>2. q[1] \in Msg
    BY <2>1, ElementOfSeq
  <2>3. QED
    BY <2>2 DEF Msg
<1>3. QED
  BY <1>1, <1>2 DEF Own, Newest

\* What is sent is announced or of the session that was sent last.
LEMMA AppendOwn ==
  ASSUME NEW q \in Seq(Msg), NEW d, NEW f, NEW m \in Msg, Own(q, d, f),
         m.kind = "data" => Newest(q, d, f, m.session)
  PROVE  Own(Append(q, m), d, f) /\ Newest(Append(q, m), d, f, m.session)
<1> DEFINE r == Append(q, m)
<1>1. /\ Len(q) \in Nat /\ Len(r) = Len(q) + 1 /\ r # <<>>
      /\ r[Len(q) + 1] = m /\ \A i \in 1..Len(q) : r[i] = q[i]
      /\ Len(q) = 0 <=> q = <<>>
  OBVIOUS
<1> HIDE DEF r
<1>2. ASSUME NEW j \in 2..Len(r), r[j].kind = "data"
      PROVE  r[j].session = r[j - 1].session
  <2>1. CASE j \in 2..Len(q)
    <3>1. j \in 1..Len(q) /\ j - 1 \in 1..Len(q)
      BY <2>1
    <3>2. QED
      BY <1>1, <1>2, <2>1, <3>1 DEF Own
  <2>2. CASE j = Len(q) + 1
    <3>1. j - 1 = Len(q) /\ Len(q) \in 1..Len(q) /\ q # <<>>
      BY <1>1, <2>2
    <3>2. r[j] = m /\ r[j - 1] = q[Len(q)]
      BY <1>1, <2>2, <3>1
    <3>3. QED
      BY <1>2, <3>1, <3>2 DEF Newest
  <2>3. QED
    BY <1>1, <2>1, <2>2
<1>3. ASSUME r[1].kind = "data"
      PROVE  AllOf(d, r[1].session) /\ AllLive(f, r[1].session)
  <2>1. CASE q = <<>>
    <3>1. r[1] = m
      BY <1>1, <2>1
    <3>2. QED
      BY <1>3, <2>1, <3>1 DEF Newest
  <2>2. CASE q # <<>>
    <3>1. 1 \in 1..Len(q)
      BY <1>1, <2>2
    <3>2. QED
      BY <1>1, <1>3, <2>2, <3>1 DEF Own
  <2>3. QED
    BY <2>1, <2>2
<1>4. Own(r, d, f)
  BY <1>2, <1>3 DEF Own
<1>5. Newest(r, d, f, m.session)
  BY <1>1 DEF Newest
<1>6. QED
  BY <1>4, <1>5 DEF r

\* A message that arrives, whatever it makes of the dials and links, leaves them of its
\* own session.
LEMMA TailOwn ==
  ASSUME NEW q \in Seq(Msg), q # <<>>, NEW d, NEW f, NEW d2, NEW f2, Own(q, d, f),
         Single(d2, f2),
         AllOf(d2, q[1].session), AllLive(f2, q[1].session)
  PROVE  /\ Own(Tail(q), d2, f2)
         /\ \A k \in Nat : Newest(q, d, f, k) => Newest(Tail(q), d2, f2, k)
<1> DEFINE r == Tail(q)
<1>1. /\ Len(q) \in Nat /\ Len(q) >= 1 /\ Len(r) = Len(q) - 1
      /\ \A i \in 1..Len(r) : r[i] = q[i + 1]
      /\ r \in Seq(Msg) /\ (Len(r) = 0 <=> r = <<>>)
  <2>1. /\ r \in Seq(Msg) /\ Len(r) = Len(q) - 1
        /\ \A i \in 1..Len(r) : r[i] = q[i + 1]
    BY HeadTailProperties
  <2>2. Len(q) \in Nat /\ Len(q) # 0
    OBVIOUS
  <2> HIDE DEF r
  <2>3. Len(q) >= 1 /\ (Len(r) = 0 <=> r = <<>>)
    BY <2>1, <2>2
  <2>4. QED
    BY <2>1, <2>2, <2>3
<1> HIDE DEF r
<1>2. ASSUME NEW j \in 2..Len(r), r[j].kind = "data"
      PROVE  r[j].session = r[j - 1].session
  <2>1. j \in 1..Len(r) /\ j - 1 \in 1..Len(r) /\ j + 1 \in 2..Len(q) /\ (j + 1) - 1 = j
        /\ (j - 1) + 1 = j
    BY <1>1
  <2>2. r[j] = q[j + 1] /\ r[j - 1] = q[j]
    BY <1>1, <2>1
  <2>3. QED
    BY <1>2, <2>1, <2>2 DEF Own
<1>3. ASSUME r # <<>>, r[1].kind = "data"
      PROVE  r[1].session = q[1].session
  <2>1. 1 \in 1..Len(r) /\ 2 \in 2..Len(q) /\ 2 - 1 = 1 /\ 1 + 1 = 2
    BY <1>1, <1>3
  <2>2. r[1] = q[2]
    BY <1>1, <2>1
  <2>3. QED
    BY <1>3, <2>1, <2>2 DEF Own
<1>4. Own(r, d2, f2)
  BY <1>2, <1>3 DEF Own
<1>5. ASSUME NEW k \in Nat, Newest(q, d, f, k)
      PROVE  Newest(r, d2, f2, k)
  <2>1. CASE r # <<>>
    <3>1. Len(r) \in 1..Len(r) /\ Len(r) + 1 = Len(q)
      BY <1>1, <2>1
    <3>2. r[Len(r)] = q[Len(q)]
      BY <1>1, <3>1
    <3>3. QED
      BY <1>5, <2>1, <3>2 DEF Newest
  <2>2. CASE r = <<>>
    <3>1. q[Len(q)] = q[1]
      <4>1. Len(r) = 0
        BY <1>1, <2>2
      <4>2. Len(q) = 1
        BY <1>1, <4>1
      <4>3. QED
        BY <4>2
    <3>2. QED
      BY <1>5, <2>2, <3>1 DEF Newest
  <2>3. QED
    BY <2>1, <2>2
<1>6. QED
  BY <1>4, <1>5 DEF r

\* If none of the messages since j announces a session, all since j are of one session.
LEMMA SameSession ==
  ASSUME NEW q \in Seq(Msg), NEW d, NEW f, Own(q, d, f), q # <<>>, NEW k,
         q[Len(q)].session = k,
         \A i \in 1..Len(q) : q[i].kind = "connect" => q[i].session # k
  PROVE  q[1].session = k /\ q[1].kind = "data"
<1> DEFINE bad == {n \in 0..(Len(q) - 1) : q[Len(q) - n].session # k}
<1>1. Len(q) \in Nat /\ Len(q) >= 1 /\ \A i \in 1..Len(q) : q[i] \in Msg
  BY ElementOfSeq
<1>2. bad = {}
  <2> SUFFICES ASSUME bad # {}
               PROVE  FALSE
    OBVIOUS
  <2>1. PICK n \in bad : \A b \in bad : n <= b
    <3>1. bad \subseteq Nat
      OBVIOUS
    <3> HIDE DEF bad
    <3>2. QED
      BY <3>1, LeastNatural
  <2>2. n \in 0..(Len(q) - 1) /\ q[Len(q) - n].session # k
    OBVIOUS
  <2>3. n # 0
    BY <1>1, <2>2
  <2>4. n - 1 \in 0..(Len(q) - 1) /\ n - 1 \notin bad
    <3>1. n - 1 \in 0..(Len(q) - 1) /\ ~(n <= n - 1)
      BY <1>1, <2>2, <2>3
    <3> HIDE DEF bad
    <3>2. QED
      BY <2>1, <3>1
  <2> DEFINE j == Len(q) - (n - 1)
  <2>5. j \in 2..Len(q) /\ j \in 1..Len(q) /\ j - 1 = Len(q) - n
    BY <1>1, <2>2, <2>3
  <2>6. q[j].session = k
    BY <2>4
  <2> HIDE DEF j, bad
  <2>7. q[j].kind = "data"
    <3>1. q[j] \in Msg
      BY <1>1, <2>5
    <3>2. QED
      BY <2>5, <2>6, <3>1 DEF Msg
  <2>8. q[j].session = q[j - 1].session
    BY <2>5, <2>7 DEF Own
  <2>9. QED
    BY <2>2, <2>5, <2>6, <2>8
<1>3. Len(q) - 1 \in 0..(Len(q) - 1) /\ Len(q) - (Len(q) - 1) = 1
  BY <1>1
<1>4. q[1].session = k
  BY <1>2, <1>3
<1>5. 1 \in 1..Len(q)
  BY <1>1
<1>6. QED
  BY <1>1, <1>4, <1>5 DEF Msg

\* When what is under way is lost, and it announced nothing, the links and dials are of
\* the session that was sent last.
LEMMA LoseOwn ==
  ASSUME NEW q \in Seq(Msg), NEW d, NEW f, Own(q, d, f),
         \A i \in 1..Len(q) : q[i].kind # "connect"
  PROVE  /\ Own(<<>>, d, f)
         /\ \A k \in Nat : Newest(q, d, f, k) => Newest(<<>>, d, f, k)
<1>1. Own(<<>>, d, f)
  BY DEF Own
<1>2. ASSUME NEW k \in Nat, Newest(q, d, f, k)
      PROVE  Newest(<<>>, d, f, k)
  <2>1. CASE q = <<>>
    BY <1>2, <2>1
  <2>2. CASE q # <<>>
    <3>1. q[Len(q)].session = k
      BY <1>2, <2>2 DEF Newest
    <3>2. q[1].session = k /\ q[1].kind = "data"
      BY <2>2, <3>1, SameSession
    <3>3. QED
      BY <2>2, <3>2 DEF Own, Newest
  <2>3. QED
    BY <2>1, <2>2
<1>3. QED
  BY <1>1, <1>2

\* A step that leaves the hosts alone.
HostsAlone == UNCHANGED <<toServer, dials, far, excuse, mixed>>

LEMMA HostsAloneInv ==
  ASSUME StInv, HostsAlone, StType', core' <= used'.sessions,
         \A i \in 1..Len(near') : near'[i].session <= used'.sessions,
         \A h \in Host, k \in Nat : OpenSession(h, k)' => OpenSession(h, k)
  PROVE  StInv'
<1>1. \A h \in Host : Excusable(h)' = Excusable(h)
  BY DEF HostsAlone, Excusable
<1>2. \A h \in Host : HostOwn(h)'
  BY <1>1 DEF StInv, HostOwn, HostsAlone
<1>3. mixed' => \E h \in Host : Excusable(h)'
  BY <1>1 DEF StInv, HostsAlone
<1>4. QED
  BY <1>2, <1>3 DEF StInv

\* Elements of near that are open for a session.
LEMMA NearOpen ==
  ASSUME NEW h, NEW k
  PROVE  OpenSession(h, k) <=>
           /\ target = h /\ core = k
           /\ \E i \in DOMAIN near : near[i].session = k /\ near[i].state = "open"
  BY DEF OpenSession, Range

\* What is left when an element goes.
LEMMA RemoveAtAt ==
  ASSUME NEW S, NEW s \in Seq(S), NEW k \in 1..Len(s)
  PROVE  /\ RemoveAt(s, k) \in Seq(S) /\ Len(RemoveAt(s, k)) = Len(s) - 1
         /\ \A i \in 1..Len(RemoveAt(s, k)) : RemoveAt(s, k)[i] = s[IF i < k THEN i ELSE i + 1]
<1> DEFINE a == SubSeq(s, 1, k - 1)
           b == SubSeq(s, k + 1, Len(s))
<1>1. Len(s) \in Nat /\ k \in Nat /\ 1 <= k /\ k <= Len(s)
  OBVIOUS
<1>2. a \in Seq(S) /\ Len(a) = k - 1 /\ \A i \in 1..Len(a) : a[i] = s[i]
  <2>1. \A i \in 1..(k - 1) : s[i] \in S
    BY <1>1
  <2>2. QED
    BY <1>1, <2>1, SubSeqProperties
<1>3. b \in Seq(S) /\ Len(b) = Len(s) - k /\ \A i \in 1..Len(b) : b[i] = s[k + i]
  <2>1. \A i \in (k + 1)..Len(s) : s[i] \in S
    BY <1>1
  <2>2. QED
    BY <1>1, <2>1, SubSeqProperties
<1>4. RemoveAt(s, k) = a \o b
  BY DEF RemoveAt
<1> HIDE DEF a, b
<1>5. /\ a \o b \in Seq(S) /\ Len(a \o b) = Len(s) - 1
      /\ \A i \in 1..Len(a) : (a \o b)[i] = a[i]
      /\ \A i \in 1..Len(b) : (a \o b)[Len(a) + i] = b[i]
  <2>1. /\ a \o b \in Seq(S) /\ Len(a \o b) = Len(a) + Len(b)
        /\ \A i \in 1..(Len(a) + Len(b)) :
             (a \o b)[i] = IF i <= Len(a) THEN a[i] ELSE b[i - Len(a)]
    BY <1>2, <1>3, ConcatProperties
  <2>2. Len(a) \in Nat /\ Len(b) \in Nat /\ Len(a) + Len(b) = Len(s) - 1
    BY <1>1, <1>2, <1>3
  <2>3. ASSUME NEW i \in 1..Len(a)
        PROVE  (a \o b)[i] = a[i]
    BY <2>1, <2>2
  <2>4. ASSUME NEW i \in 1..Len(b)
        PROVE  (a \o b)[Len(a) + i] = b[i]
    <3>1. /\ Len(a) + i \in 1..(Len(a) + Len(b)) /\ ~(Len(a) + i <= Len(a))
          /\ (Len(a) + i) - Len(a) = i
      BY <2>2
    <3>2. QED
      BY <2>1, <3>1
  <2>5. QED
    BY <2>1, <2>2, <2>3, <2>4
<1>6. ASSUME NEW i \in 1..Len(a \o b)
      PROVE  (a \o b)[i] = s[IF i < k THEN i ELSE i + 1]
  <2>1. CASE i \in 1..Len(a)
    <3>1. i < k /\ i \in 1..Len(s)
      BY <1>1, <1>2, <2>1
    <3>2. QED
      BY <1>2, <1>5, <2>1, <3>1
  <2>2. CASE i \notin 1..Len(a)
    <3> DEFINE j == i - Len(a)
    <3>1. j \in 1..Len(b) /\ i = Len(a) + j /\ k + j \in 1..Len(s) /\ ~(i < k) /\ k + j = i + 1
      BY <1>1, <1>2, <1>3, <1>5, <2>2
    <3> HIDE DEF j
    <3>2. (a \o b)[i] = s[k + j]
      BY <1>3, <1>5, <3>1
    <3>3. QED
      BY <3>1, <3>2
  <2>3. QED
    BY <2>1, <2>2
<1>7. QED
  BY <1>4, <1>5, <1>6

\* Each of what is left was there.
LEMMA RemoveAtIs ==
  ASSUME NEW S, NEW s \in Seq(S), NEW k \in 1..Len(s)
  PROVE  /\ RemoveAt(s, k) \in Seq(S) /\ Len(RemoveAt(s, k)) = Len(s) - 1
         /\ \A i \in 1..Len(RemoveAt(s, k)) : \E j \in 1..Len(s) : RemoveAt(s, k)[i] = s[j]
<1> DEFINE r == RemoveAt(s, k)
<1>1. /\ r \in Seq(S) /\ Len(r) = Len(s) - 1
      /\ \A i \in 1..Len(r) : r[i] = s[IF i < k THEN i ELSE i + 1]
  BY RemoveAtAt
<1> HIDE DEF r
<1>2. \A i \in 1..Len(r) : (IF i < k THEN i ELSE i + 1) \in 1..Len(s)
  BY <1>1
<1>3. \A i \in 1..Len(r) : \E j \in 1..Len(s) : r[i] = s[j]
  BY <1>1, <1>2
<1>4. QED
  BY <1>1, <1>3 DEF r

\* A step that only ends, moves or repeats the dials and links of a host.
LEMMA FarStepInv ==
  ASSUME StInv, StType', NEW h \in Host,
         UNCHANGED <<target, near, core, toServer, mixed>>, used'.sessions = used.sessions,
         \A g \in Host : g # h => dials'[g] = dials[g] /\ far'[g] = far[g] /\ excuse'[g] = excuse[g],
         excuse[h] \subseteq excuse'[h],
         Single(dials[h], far[h]) => Single(dials'[h], far'[h]),
         \A k \in Nat : AllOf(dials[h], k) /\ AllLive(far[h], k)
                          => AllOf(dials'[h], k) /\ AllLive(far'[h], k)
  PROVE  StInv'
<1>1. \A g \in Host : Excusable(g) => Excusable(g)'
  BY DEF Excusable
<1>2. \A g \in Host, k \in Nat : OpenSession(g, k)' <=> OpenSession(g, k)
  BY DEF OpenSession
<1>3. ASSUME NEW g \in Host
      PROVE  HostOwn(g)'
  <2>1. CASE g # h
    BY <1>1, <1>2, <2>1 DEF StInv, HostOwn
  <2>2. CASE g = h
    <3>1. CASE Excusable(h)
      BY <1>1, <2>2, <3>1 DEF HostOwn
    <3>2. CASE ~Excusable(h)
      <4>1. /\ Own(toServer[h], dials[h], far[h])
            /\ \A k \in Nat : OpenSession(h, k) => Newest(toServer[h], dials[h], far[h], k)
        BY <3>2 DEF StInv, HostOwn
      <4>2. /\ toServer[h] \in Seq(Msg) /\ dials[h] \in Seq(Dial) /\ far[h] \in Seq(FarLink)
            /\ dials'[h] \in Seq(Dial) /\ far'[h] \in Seq(FarLink)
        BY DEF StInv, StType
      <4>3. /\ Own(toServer[h], dials'[h], far'[h])
            /\ \A k \in Nat : Newest(toServer[h], dials[h], far[h], k)
                                => Newest(toServer[h], dials'[h], far'[h], k)
        BY <4>1, <4>2, FewerOwn
      <4>4. QED
        BY <1>2, <2>2, <4>1, <4>3 DEF HostOwn
    <3>3. QED
      BY <3>1, <3>2
  <2>3. QED
    BY <2>1, <2>2
<1>4. mixed' => \E g \in Host : Excusable(g)'
  BY <1>1 DEF StInv
<1>5. QED
  BY <1>3, <1>4 DEF StInv

\* The messages of the core client.
LEMMA SentInv ==
  ASSUME StInv, NEW k \in DOMAIN near, NEW m \in Msg, near[k].session = core,
         Sent(k, m), m.session = core, UNCHANGED <<target, mixed, farVars>>,
         used' \in [sessions : Nat, chunks : Nat, troubles : Nat], used'.sessions = used.sessions,
         m.kind = "data" => near[k].state = "open"
  PROVE  StInv'
<1>1. /\ near \in Seq(NearLink)
      /\ k \in 1..Len(near) /\ toServer \in [Host -> Seq(Msg)] /\ core \in Nat
  BY DEF StInv, StType
<1>2. near' = [near EXCEPT ![k].state = "open"] /\ core' = core
  BY DEF Sent
<1>3. /\ near' \in Seq(NearLink)
      /\ Len(near') = Len(near) /\ \A i \in 1..Len(near) : near'[i].session = near[i].session
      /\ \A i \in 1..Len(near) : i # k => near'[i] = near[i]
  <2>1. near[k] \in NearLink
    BY <1>1, ElementOfSeq
  <2>2. near' = [near EXCEPT ![k] = [near[k] EXCEPT !.state = "open"]]
    BY <1>1, <1>2
  <2>3. [near[k] EXCEPT !.state = "open"] \in NearLink
        /\ [near[k] EXCEPT !.state = "open"].session = near[k].session
    BY <2>1 DEF NearLink
  <2>4. QED
    BY <1>1, <2>2, <2>3
<1>4. /\ toServer' \in [Host -> Seq(Msg)]
      /\ \A h \in Host : toServer'[h] = IF h = target THEN Append(toServer[h], m) ELSE toServer[h]
  <2>1. toServer' = [toServer EXCEPT ![target] = Append(@, m)]
    BY DEF Sent
  <2>2. \A h \in Host : Append(toServer[h], m) \in Seq(Msg)
    BY <1>1
  <2>3. QED
    BY <1>1, <2>1, <2>2
<1>5. StType'
  BY <1>2, <1>3, <1>4 DEF StInv, StType, farVars
<1>6. \A h \in Host : Excusable(h)' = Excusable(h)
  BY DEF Excusable, farVars
<1>7. ASSUME NEW h \in Host
      PROVE  HostOwn(h)'
  <2>1. CASE Excusable(h)
    BY <1>6, <2>1 DEF HostOwn
  <2>2. CASE ~Excusable(h) /\ h # target
    <3>1. \A j \in Nat : ~OpenSession(h, j)'
      BY <2>2 DEF OpenSession
    <3>2. Own(toServer[h], dials[h], far[h])
      BY <2>2 DEF StInv, HostOwn
    <3>3. QED
      BY <1>4, <2>2, <3>1, <3>2 DEF HostOwn, farVars
  <2>3. CASE ~Excusable(h) /\ h = target
    <3>1. /\ Own(toServer[h], dials[h], far[h])
          /\ \A j \in Nat : OpenSession(h, j) => Newest(toServer[h], dials[h], far[h], j)
      BY <2>3 DEF StInv, HostOwn
    <3>2. m.kind = "data" => Newest(toServer[h], dials[h], far[h], m.session)
      BY <1>1, <2>3, <3>1, NearOpen
    <3>3. /\ Own(Append(toServer[h], m), dials[h], far[h])
          /\ Newest(Append(toServer[h], m), dials[h], far[h], core)
      <4>1. toServer[h] \in Seq(Msg)
        BY <1>1
      <4>2. QED
        BY <3>1, <3>2, <4>1, AppendOwn
    <3>4. \A j \in Nat : OpenSession(h, j)' => j = core
      BY <1>2 DEF OpenSession
    <3>5. QED
      BY <1>4, <2>3, <3>3, <3>4 DEF HostOwn, farVars
  <2>4. QED
    BY <2>1, <2>2, <2>3
<1>8. QED
  BY <1>2, <1>3, <1>5, <1>6, <1>7 DEF StInv

LEMMA UsedStays ==
  ASSUME StInv, Trouble \/ Chunk \/ UNCHANGED used
  PROVE  used' \in [sessions : Nat, chunks : Nat, troubles : Nat] /\ used'.sessions = used.sessions
<1>1. used \in [sessions : Nat, chunks : Nat, troubles : Nat]
  BY DEF StInv, StType
<1>2. CASE Trouble
  <2>1. used' = [used EXCEPT !.troubles = @ + 1]
    BY <1>2 DEF Trouble
  <2>2. QED
    BY <1>1, <2>1
<1>3. CASE Chunk
  <2>1. used' = [used EXCEPT !.chunks = @ + 1]
    BY <1>3 DEF Chunk
  <2>2. QED
    BY <1>1, <2>1
<1>4. QED
  BY <1>1, <1>2, <1>3

\* The client's host, but for what it sends.
LEMMA NearStepInv ==
  ASSUME StInv,
         \/ \E h \in Host : ProxyStart(h)
         \/ Accept \/ CoreLeaves
         \/ \E k \in DOMAIN near :
              \/ SayHello(k) \/ NearEnds(k)
              \/ NoRoute(k) /\ Trouble /\ UNCHANGED <<target, toClient, mixed, farVars>>
  PROVE  StInv'
<1>1. HostsAlone
  BY DEF HostsAlone, ProxyStart, Accept, CoreLeaves, SayHello, NearEnds, NoRoute, farVars
<1>2. /\ near \in Seq(NearLink) /\ core \in Nat
      /\ used \in [sessions : Nat, chunks : Nat, troubles : Nat]
  BY DEF StInv, StType
<1>3. ASSUME near' \in Seq(NearLink), core' \in Nat,
             used' \in [sessions : Nat, chunks : Nat, troubles : Nat]
      PROVE  StType'
  BY <1>1, <1>3 DEF StInv, StType, HostsAlone
<1>4. ASSUME NEW h \in Host, ProxyStart(h)
      PROVE  StInv'
  <2>1. near' = <<>> /\ core' = 0
    BY <1>4 DEF ProxyStart
  <2>2. used' \in [sessions : Nat, chunks : Nat, troubles : Nat] /\ used'.sessions = used.sessions
    BY <1>4, UsedStays DEF ProxyStart
  <2>3. \A g \in Host, k \in Nat : ~OpenSession(g, k)'
    BY <2>1 DEF OpenSession, Range
  <2>4. near' \in Seq(NearLink) /\ Len(near') = 0
    BY <2>1
  <2>5. QED
    BY <1>1, <1>3, <2>1, <2>2, <2>3, <2>4, HostsAloneInv
<1>5. CASE Accept
  <2> DEFINE s == used.sessions + 1
             new == [session |-> s, state |-> "accepted"]
  <2>1. core' = s /\ near' = Append(near, new) /\ target' = target
    BY <1>5 DEF Accept
  <2>2. used' \in [sessions : Nat, chunks : Nat, troubles : Nat] /\ used'.sessions = s /\ s \in Nat
    <3>1. used' = [used EXCEPT !.sessions = @ + 1]
      BY <1>5 DEF Accept
    <3>2. QED
      BY <1>2, <3>1
  <2>3. new \in NearLink /\ new.session = s /\ new.state = "accepted"
    <3>1. s \in Nat \ {0}
      BY <1>2
    <3> HIDE DEF s
    <3>2. QED
      BY <3>1 DEF NearLink
  <2>4. s > used.sessions /\ used.sessions \in Nat
    BY <1>2
  <2> HIDE DEF s, new
  <2>5. /\ near' \in Seq(NearLink) /\ Len(near') = Len(near) + 1 /\ near'[Len(near) + 1] = new
        /\ \A i \in 1..Len(near) : near'[i] = near[i]
    BY <1>2, <2>1, <2>3
  <2>6. \A i \in 1..Len(near') : i \in 1..Len(near) \/ i = Len(near) + 1
    BY <1>2, <2>5
  <2>7. \A i \in 1..Len(near) : near[i].session <= used.sessions /\ near[i].session \in Nat
    <3>1. \A i \in 1..Len(near) : near[i] \in NearLink
      BY <1>2, ElementOfSeq
    <3>2. QED
      BY <3>1 DEF StInv, NearLink
  <2>8. \A i \in 1..Len(near') : near'[i].session <= s
    BY <2>2, <2>3, <2>4, <2>5, <2>6, <2>7
  <2>9. \A g \in Host, k \in Nat : ~OpenSession(g, k)'
    <3>1. \A i \in 1..Len(near') : ~(near'[i].session = s /\ near'[i].state = "open")
      BY <2>2, <2>3, <2>4, <2>5, <2>6, <2>7
    <3>2. DOMAIN near' = 1..Len(near')
      BY <2>5
    <3>3. QED
      BY <2>1, <3>1, <3>2 DEF OpenSession, Range
  <2>10. core' <= used'.sessions
    BY <2>1, <2>2
  <2>11. QED
    BY <1>1, <1>3, <2>1, <2>2, <2>5, <2>8, <2>9, <2>10, HostsAloneInv
<1>6. ASSUME core' = 0, UNCHANGED target, near' \in Seq(NearLink), Trouble,
             \A i \in 1..Len(near') : \E j \in 1..Len(near) : near'[i] = near[j]
      PROVE  StInv'
  <2>1. used' \in [sessions : Nat, chunks : Nat, troubles : Nat] /\ used'.sessions = used.sessions
    BY <1>6, UsedStays
  <2>2. \A i \in 1..Len(near') : near'[i].session <= used'.sessions
    BY <1>6, <2>1 DEF StInv
  <2>3. \A g \in Host, k \in Nat : ~OpenSession(g, k)'
    <3>1. \A i \in 1..Len(near') : near'[i] \in NearLink
      BY <1>6, ElementOfSeq
    <3>2. DOMAIN near' = 1..Len(near')
      BY <1>6
    <3>3. \A i \in DOMAIN near' : near'[i].session # 0
      BY <3>1, <3>2 DEF NearLink
    <3>4. QED
      BY <1>6, <3>3 DEF OpenSession, Range
  <2>4. core' <= used'.sessions
    BY <1>6, <2>1
  <2>5. QED
    BY <1>1, <1>3, <1>6, <2>1, <2>2, <2>3, <2>4, HostsAloneInv
<1>7. CASE CoreLeaves
  BY <1>2, <1>6, <1>7 DEF CoreLeaves
<1>8. ASSUME NEW k \in DOMAIN near, NoRoute(k), Trouble, UNCHANGED target
      PROVE  StInv'
  <2>1. k \in 1..Len(near)
    BY <1>2
  <2>2. near' = RemoveAt(near, k) /\ core' = 0
    BY <1>8 DEF NoRoute
  <2>3. /\ near' \in Seq(NearLink)
        /\ \A i \in 1..Len(near') : \E j \in 1..Len(near) : near'[i] = near[j]
    <3> DEFINE rest == RemoveAt(near, k)
    <3>1. /\ rest \in Seq(NearLink)
          /\ \A i \in 1..Len(rest) : \E j \in 1..Len(near) : rest[i] = near[j]
      BY <1>2, <2>1, RemoveAtIs
    <3> HIDE DEF rest
    <3>2. near' = rest
      BY <2>2 DEF rest
    <3>3. QED
      BY <3>1, <3>2
  <2>4. QED
    BY <1>6, <1>8, <2>2, <2>3
<1>9. ASSUME NEW k \in DOMAIN near, SayHello(k) \/ NearEnds(k)
      PROVE  StInv'
  <2>1. UNCHANGED <<target, core, used>> /\ k \in 1..Len(near)
    BY <1>2, <1>9 DEF SayHello, NearEnds
  <2>2. /\ near' \in Seq(NearLink)
        /\ \A i \in 1..Len(near') : \E j \in 1..Len(near) :
             /\ near'[i].session = near[j].session
             /\ near'[i].state = "open" => near[j].state = "open"
    <3>1. CASE SayHello(k)
      <4>1. near[k] \in NearLink
        BY <1>2, <2>1, ElementOfSeq
      <4> DEFINE new == [near[k] EXCEPT !.state = "asked"]
      <4>2. near' = [near EXCEPT ![k] = new]
        BY <1>2, <2>1, <3>1 DEF SayHello
      <4>3. new \in NearLink /\ new.session = near[k].session /\ new.state = "asked"
        BY <4>1 DEF NearLink
      <4> HIDE DEF new
      <4>4. /\ near' \in Seq(NearLink) /\ Len(near') = Len(near) /\ near'[k] = new
            /\ \A i \in 1..Len(near) : i # k => near'[i] = near[i]
        BY <1>2, <2>1, <4>2, <4>3
      <4>5. ASSUME NEW i \in 1..Len(near')
            PROVE  /\ i \in 1..Len(near)
                   /\ near'[i].session = near[i].session
                   /\ near'[i].state = "open" => near[i].state = "open"
        <5>1. CASE i = k
          BY <4>3, <4>4, <5>1
        <5>2. CASE i # k
          BY <4>4, <5>2
        <5>3. QED
          BY <5>1, <5>2
      <4>6. QED
        BY <4>4, <4>5
    <3>2. CASE NearEnds(k)
      <4>1. near' = RemoveAt(near, k)
        BY <3>2 DEF NearEnds
      <4>2. /\ near' \in Seq(NearLink)
            /\ \A i \in 1..Len(near') : \E j \in 1..Len(near) : near'[i] = near[j]
        <5> DEFINE rest == RemoveAt(near, k)
        <5>1. /\ rest \in Seq(NearLink)
              /\ \A i \in 1..Len(rest) : \E j \in 1..Len(near) : rest[i] = near[j]
          BY <1>2, <2>1, RemoveAtIs
        <5> HIDE DEF rest
        <5>2. near' = rest
          BY <4>1 DEF rest
        <5>3. QED
          BY <5>1, <5>2
      <4>3. QED
        BY <4>2
    <3>3. QED
      BY <1>9, <3>1, <3>2
  <2>3. \A i \in 1..Len(near') : near'[i].session <= used'.sessions
    BY <2>1, <2>2 DEF StInv
  <2>4. \A g \in Host, j \in Nat : OpenSession(g, j)' => OpenSession(g, j)
    <3>1. DOMAIN near' = 1..Len(near') /\ DOMAIN near = 1..Len(near)
      BY <1>2, <2>2
    <3>2. QED
      BY <2>1, <2>2, <3>1 DEF OpenSession, Range
  <2>5. core' <= used'.sessions
    BY <2>1 DEF StInv
  <2>6. QED
    BY <1>1, <1>2, <1>3, <2>1, <2>2, <2>3, <2>4, <2>5, HostsAloneInv
<1>10. QED
  BY <1>4, <1>5, <1>7, <1>8, <1>9

\* The core client's messages, sent or without a route.
LEMMA CoreSpeaksInv ==
  ASSUME StInv, NEW k \in DOMAIN near, HelloBack(k) \/ ReadCore(k)
  PROVE  StInv'
<1>1. core \in Nat /\ near[k].session = core /\ UNCHANGED <<target, toClient, mixed, farVars>>
  BY DEF StInv, StType, HelloBack, ReadCore
<1>2. CASE NoRoute(k) /\ Trouble
  BY <1>1, <1>2, NearStepInv
<1>3. ASSUME NEW m \in Msg, Sent(k, m), m.session = core, Chunk \/ UNCHANGED used,
             m.kind = "data" => near[k].state = "open"
      PROVE  StInv'
  BY <1>1, <1>3, SentInv, UsedStays
<1>4. CASE HelloBack(k)
  <2> DEFINE m == [kind |-> "connect", session |-> core]
  <2>1. m \in Msg /\ m.session = core /\ m.kind = "connect"
    BY <1>1 DEF Msg
  <2> HIDE DEF m
  <2>2. (Sent(k, m) /\ UNCHANGED used) \/ (NoRoute(k) /\ Trouble)
    BY <1>4 DEF HelloBack, m
  <2>3. QED
    BY <1>2, <1>3, <2>1, <2>2
<1>5. CASE ReadCore(k)
  <2> DEFINE m == [kind |-> "data", session |-> core]
  <2>1. m \in Msg /\ m.session = core /\ near[k].state = "open"
    BY <1>1, <1>5 DEF Msg, ReadCore
  <2> HIDE DEF m
  <2>2. (Sent(k, m) /\ Chunk) \/ (NoRoute(k) /\ Trouble)
    BY <1>5 DEF ReadCore, m
  <2>3. QED
    BY <1>2, <1>3, <2>1, <2>2
<1>6. QED
  BY <1>4, <1>5

\* Links f2 are those of f, without the n-th or with none missing.
Shrinks(f2, f, n) ==
  \A i \in 1..Len(f2) :
    LET j == IF i < n THEN i ELSE i + 1
    IN  j \in 1..Len(f) /\ f2[i].session = f[j].session /\ (f[j].kept => f2[i].kept)

LEMMA ShrinksOwn ==
  ASSUME NEW f \in Seq(FarLink), NEW f2 \in Seq(FarLink), NEW n \in Nat, NEW d,
         Shrinks(f2, f, n)
  PROVE  /\ \A k \in Nat : AllLive(f, k) => AllLive(f2, k)
         /\ Single(d, f) => Single(d, f2)
         /\ (\A i \in 1..Len(f) : f[i].kept) => \A i \in 1..Len(f2) : f2[i].kept
<1> DEFINE from(i) == IF i < n THEN i ELSE i + 1
<1>1. ASSUME NEW i \in 1..Len(f2)
      PROVE  /\ from(i) \in 1..Len(f) /\ f2[i].session = f[from(i)].session
             /\ f[from(i)].kept => f2[i].kept
  BY DEF Shrinks
<1>2. \A i, j \in 1..Len(f2) : i # j => from(i) # from(j)
  OBVIOUS
<1> HIDE DEF from
<1>3. ASSUME NEW k \in Nat, AllLive(f, k)
      PROVE  AllLive(f2, k)
  BY <1>1, <1>3 DEF AllLive
<1>4. (\A i \in 1..Len(f) : f[i].kept) => \A i \in 1..Len(f2) : f2[i].kept
  BY <1>1
<1>5. ASSUME Single(d, f)
      PROVE  Single(d, f2)
  <2>1. ASSUME NEW i \in 1..Len(f2), NEW j \in 1..Len(f2), i # j
        PROVE  f2[i].kept \/ f2[j].kept
    BY <1>1, <1>2, <1>5, <2>1 DEF Single
  <2>2. QED
    BY <1>4, <1>5, <2>1 DEF Single
<1>6. QED
  BY <1>3, <1>4, <1>5

LEMMA DialStepInv ==
  ASSUME StInv, NEW h \in Host, NEW d \in DOMAIN dials[h], DialDone(h, d) \/ DialAgain(h, d)
  PROVE  StInv'
<1> DEFINE rest == RemoveAt(dials[h], d)
<1>1. /\ dials \in [Host -> Seq(Dial)] /\ far \in [Host -> Seq(FarLink)]
      /\ excuse \in [Host -> SUBSET Excuses]
      /\ dials[h] \in Seq(Dial) /\ far[h] \in Seq(FarLink) /\ d \in 1..Len(dials[h])
  BY DEF StInv, StType
<1>2. UNCHANGED <<target, near, core, toServer, mixed, used>>
  BY DEF DialDone, DialAgain, nearVars
<1>3. dials[h][d] \in Dial
  BY <1>1, ElementOfSeq
<1>4. /\ rest \in Seq(Dial) /\ Len(rest) = Len(dials[h]) - 1
      /\ \A i \in 1..Len(rest) : \E j \in 1..Len(dials[h]) : rest[i] = dials[h][j]
  BY <1>1, RemoveAtIs
<1> HIDE DEF rest
<1>5. CASE DialDone(h, d)
  <2> DEFINE new == [session |-> dials[h][d].session, state |-> "new", due |-> FALSE, kept |-> FALSE]
  <2>1. new \in FarLink /\ new.session = dials[h][d].session
    BY <1>3 DEF Dial, FarLink
  <2>2. /\ far' = [far EXCEPT ![h] = Append(far[h], new)]
        /\ dials' = [dials EXCEPT ![h] = rest] /\ excuse' = excuse
    BY <1>5 DEF DialDone, rest
  <2> HIDE DEF new
  <2>3. /\ Append(far[h], new) \in Seq(FarLink) /\ Len(Append(far[h], new)) = Len(far[h]) + 1
        /\ Append(far[h], new)[Len(far[h]) + 1] = new
        /\ \A i \in 1..Len(far[h]) : Append(far[h], new)[i] = far[h][i]
    BY <1>1, <2>1
  <2>4. /\ far'[h] = Append(far[h], new) /\ dials'[h] = rest
        /\ far' \in [Host -> Seq(FarLink)] /\ dials' \in [Host -> Seq(Dial)]
        /\ \A g \in Host : g # h => dials'[g] = dials[g] /\ far'[g] = far[g]
    BY <1>1, <1>4, <2>2, <2>3
  <2>5. Single(dials[h], far[h]) => Single(dials'[h], far'[h])
    <3> SUFFICES ASSUME Single(dials[h], far[h])
                 PROVE  Single(rest, Append(far[h], new))
      BY <2>4
    <3>1. Len(dials[h]) = 1 /\ Len(rest) = 0 /\ rest = <<>> /\ dials[h] # <<>>
      BY <1>1, <1>4 DEF Single
    <3>2. \A i \in 1..Len(far[h]) : far[h][i].kept
      BY <3>1 DEF Single
    <3>3. \A i \in 1..Len(Append(far[h], new)) : i \in 1..Len(far[h]) \/ i = Len(far[h]) + 1
      BY <1>1, <2>3
    <3>4. QED
      BY <2>3, <3>1, <3>2, <3>3 DEF Single
  <2>6. ASSUME NEW k \in Nat, AllOf(dials[h], k), AllLive(far[h], k)
        PROVE  AllOf(rest, k) /\ AllLive(Append(far[h], new), k)
    <3>1. AllOf(rest, k)
      BY <1>4, <2>6 DEF AllOf
    <3>2. new.session = k
      BY <1>1, <2>1, <2>6 DEF AllOf
    <3>3. \A i \in 1..Len(Append(far[h], new)) : i \in 1..Len(far[h]) \/ i = Len(far[h]) + 1
      BY <1>1, <2>3
    <3>4. AllLive(Append(far[h], new), k)
      BY <2>3, <2>6, <3>2, <3>3 DEF AllLive
    <3>5. QED
      BY <3>1, <3>4
  <2>7. StType'
    BY <1>2, <2>2, <2>4 DEF StInv, StType
  <2>8. QED
    BY <1>2, <2>2, <2>4, <2>5, <2>6, <2>7, FarStepInv
<1>6. CASE DialAgain(h, d)
  <2>1. far' = far
    BY <1>6 DEF DialAgain
  <2>2. CASE dials[h][d].attempt < RetryLimit
    <3> DEFINE more == [dials[h][d] EXCEPT !.attempt = @ + 1]
               again == [dials[h] EXCEPT ![d] = more]
    <3>1. more \in Dial /\ more.session = dials[h][d].session
      BY <1>3 DEF Dial
    <3> HIDE DEF more
    <3>2. /\ again \in Seq(Dial) /\ Len(again) = Len(dials[h]) /\ again[d] = more
          /\ \A i \in 1..Len(dials[h]) : i # d => again[i] = dials[h][i]
      BY <1>1, <3>1
    <3>3. dials' = [dials EXCEPT ![h] = again] /\ excuse' = excuse
      BY <1>1, <1>6, <2>2 DEF DialAgain, more
    <3> HIDE DEF again
    <3>4. /\ dials'[h] = again /\ dials' \in [Host -> Seq(Dial)]
          /\ \A g \in Host : g # h => dials'[g] = dials[g]
      BY <1>1, <3>2, <3>3
    <3>5. \A k \in Nat : AllOf(dials[h], k) => AllOf(again, k)
      BY <1>1, <3>1, <3>2 DEF AllOf
    <3>6. StType'
      BY <1>2, <2>1, <3>3, <3>4 DEF StInv, StType
    <3>7. Single(dials[h], far[h]) => Single(dials'[h], far'[h])
      BY <1>1, <2>1, <3>2, <3>4 DEF Single
    <3>8. QED
      BY <1>2, <2>1, <3>3, <3>4, <3>5, <3>6, <3>7, FarStepInv
  <2>3. CASE ~(dials[h][d].attempt < RetryLimit)
    <3>1. dials' = [dials EXCEPT ![h] = rest] /\ excuse' = Excused(h, "gave up")
      BY <1>6, <2>3 DEF DialAgain, rest
    <3>2. /\ dials'[h] = rest /\ dials' \in [Host -> Seq(Dial)]
          /\ \A g \in Host : g # h => dials'[g] = dials[g]
      BY <1>1, <1>4, <3>1
    <3>3. /\ excuse' \in [Host -> SUBSET Excuses] /\ excuse[h] \subseteq excuse'[h]
          /\ \A g \in Host : g # h => excuse'[g] = excuse[g]
      BY <1>1, <3>1 DEF Excused, Excuses
    <3>4. \A k \in Nat : AllOf(dials[h], k) => AllOf(rest, k)
      BY <1>4 DEF AllOf
    <3>5. StType'
      BY <1>2, <2>1, <3>2, <3>3 DEF StInv, StType
    <3>6. Single(dials[h], far[h]) => Single(dials'[h], far'[h])
      <4>1. Len(rest) <= Len(dials[h]) /\ dials[h] # <<>>
        BY <1>1, <1>4
      <4>2. Len(dials[h]) <= 1 => Len(rest) <= 1
        BY <1>1, <1>4
      <4>3. QED
        BY <2>1, <3>2, <4>1, <4>2 DEF Single
    <3>7. QED
      BY <1>2, <2>1, <3>2, <3>3, <3>4, <3>5, <3>6, FarStepInv
  <2>4. QED
    BY <2>2, <2>3
<1>7. QED
  BY <1>5, <1>6

\* The read loop of a link goes on: the links are those there were, or one less.
LEMMA ReadOnIs ==
  ASSUME NEW h \in Host, far \in [Host -> Seq(FarLink)], NEW links \in Seq(FarLink),
         NEW l \in 1..Len(links), ReadOn(h, links, l)
  PROVE  \E f \in Seq(FarLink), n \in Nat :
           far' = [far EXCEPT ![h] = f] /\ Shrinks(f, links, n)
<1>1. links[l] \in FarLink
  BY ElementOfSeq
<1>2. ASSUME NEW new \in FarLink, new.session = links[l].session, new.kept = links[l].kept,
             far' = [far EXCEPT ![h] = [links EXCEPT ![l] = new]]
      PROVE  \E f \in Seq(FarLink), n \in Nat :
               far' = [far EXCEPT ![h] = f] /\ Shrinks(f, links, n)
  <2> DEFINE f == [links EXCEPT ![l] = new]
  <2>1. /\ f \in Seq(FarLink) /\ Len(f) = Len(links) /\ f[l] = new
        /\ \A i \in 1..Len(links) : i # l => f[i] = links[i]
    OBVIOUS
  <2>2. far' = [far EXCEPT ![h] = f]
    BY <1>2
  <2> HIDE DEF f
  <2>3. Len(links) \in Nat
    OBVIOUS
  <2>4. \A i \in 1..Len(f) : i < Len(links) + 1 /\ i \in 1..Len(links)
    BY <2>1, <2>3
  <2>5. \A i \in 1..Len(f) :
          f[i].session = links[i].session /\ (links[i].kept => f[i].kept)
    BY <1>2, <2>1
  <2>6. Shrinks(f, links, Len(links) + 1)
    BY <2>4, <2>5 DEF Shrinks
  <2>7. Len(links) + 1 \in Nat
    BY <2>3
  <2> USE <2>1, <2>7
  <2>8. WITNESS f \in Seq(FarLink), Len(links) + 1 \in Nat
  <2>9. QED
    BY <2>2, <2>6
<1>3. CASE far' = [far EXCEPT ![h] = [links EXCEPT ![l].due = FALSE]]
  <2> DEFINE new == [links[l] EXCEPT !.due = FALSE]
  <2>1. new \in FarLink /\ new.session = links[l].session /\ new.kept = links[l].kept
    BY <1>1 DEF FarLink
  <2>2. [links EXCEPT ![l].due = FALSE] = [links EXCEPT ![l] = new]
    OBVIOUS
  <2> HIDE DEF new
  <2>3. QED
    BY <1>2, <1>3, <2>1, <2>2
<1>4. CASE far' = [far EXCEPT ![h] = [links EXCEPT ![l].due = FALSE, ![l].state = "open"]]
  <2> DEFINE new == [links[l] EXCEPT !.due = FALSE, !.state = "open"]
  <2>1. new \in FarLink /\ new.session = links[l].session /\ new.kept = links[l].kept
    BY <1>1 DEF FarLink
  <2>2. [links EXCEPT ![l].due = FALSE, ![l].state = "open"] = [links EXCEPT ![l] = new]
    OBVIOUS
  <2> HIDE DEF new
  <2>3. QED
    BY <1>2, <1>4, <2>1, <2>2
<1>5. CASE far' = [far EXCEPT ![h] = RemoveAt(links, l)]
  <2> DEFINE f == RemoveAt(links, l)
  <2>1. /\ f \in Seq(FarLink) /\ Len(f) = Len(links) - 1
        /\ \A i \in 1..Len(f) : f[i] = links[IF i < l THEN i ELSE i + 1]
    BY RemoveAtAt
  <2>2. far' = [far EXCEPT ![h] = f]
    BY <1>5
  <2> HIDE DEF f
  <2>3. Len(links) \in Nat /\ l \in Nat
    OBVIOUS
  <2>4. \A i \in 1..Len(f) : (IF i < l THEN i ELSE i + 1) \in 1..Len(links)
    BY <2>1, <2>3
  <2>5. Shrinks(f, links, l)
    BY <2>1, <2>4 DEF Shrinks
  <2> USE <2>1, <2>3
  <2>6. WITNESS f \in Seq(FarLink), l \in Nat
  <2>7. QED
    BY <2>2, <2>5
<1>6. QED
  BY <1>3, <1>4, <1>5 DEF ReadOn

\* The links of a host, but for those that a message or a dial makes.
LEMMA FarLinksInv ==
  ASSUME StInv, NEW h \in Host,
         \/ ServerStops(h)
         \/ \E l \in DOMAIN far[h] : Arrives(h, l) \/ ReadServer(h, l)
  PROVE  StInv'
<1>1. /\ far \in [Host -> Seq(FarLink)] /\ far[h] \in Seq(FarLink) /\ dials[h] \in Seq(Dial)
      /\ excuse \in [Host -> SUBSET Excuses] /\ DOMAIN far[h] = 1..Len(far[h])
  BY DEF StInv, StType
<1>2. UNCHANGED <<target, near, core, toServer, mixed, dials, excuse>>
  BY DEF ServerStops, Arrives, ReadServer, nearVars
<1>3. ASSUME NEW links \in Seq(FarLink), far' = [far EXCEPT ![h] = links],
             NEW n \in Nat, Shrinks(links, far[h], n), Trouble \/ Chunk \/ UNCHANGED used
      PROVE  StInv'
  <2>1. /\ far'[h] = links /\ far' \in [Host -> Seq(FarLink)]
        /\ \A g \in Host : g # h => far'[g] = far[g]
    BY <1>1, <1>3
  <2>2. /\ \A k \in Nat : AllLive(far[h], k) => AllLive(links, k)
        /\ Single(dials[h], far[h]) => Single(dials[h], links)
    BY <1>1, <1>3, ShrinksOwn
  <2>3. used' \in [sessions : Nat, chunks : Nat, troubles : Nat] /\ used'.sessions = used.sessions
    BY <1>3, UsedStays
  <2>4. StType'
    BY <1>2, <2>1, <2>3 DEF StInv, StType
  <2>5. QED
    BY <1>2, <2>1, <2>2, <2>3, <2>4, FarStepInv
<1>4. CASE ServerStops(h)
  <2>1. far' = [far EXCEPT ![h] = <<>>] /\ Trouble
    BY <1>4 DEF ServerStops
  <2> DEFINE none == <<>>
  <2>2. none \in Seq(FarLink) /\ Shrinks(none, far[h], 0)
    BY DEF Shrinks
  <2> HIDE DEF none
  <2>3. far' = [far EXCEPT ![h] = none]
    BY <2>1 DEF none
  <2>4. QED
    BY <1>3, <2>1, <2>2, <2>3
<1>5. ASSUME NEW l \in DOMAIN far[h], Arrives(h, l)
      PROVE  StInv'
  <2> DEFINE new == [far[h][l] EXCEPT !.due = TRUE]
             links == [far[h] EXCEPT ![l] = new]
  <2>1. far[h][l] \in FarLink /\ l \in 1..Len(far[h])
    BY <1>1, ElementOfSeq
  <2>2. new \in FarLink /\ new.session = far[h][l].session /\ new.kept = far[h][l].kept
    BY <2>1 DEF FarLink
  <2>3. far' = [far EXCEPT ![h] = links] /\ UNCHANGED used
    BY <1>1, <1>5, <2>1 DEF Arrives
  <2> HIDE DEF new
  <2>4. /\ links \in Seq(FarLink) /\ Len(links) = Len(far[h]) /\ links[l] = new
        /\ \A i \in 1..Len(far[h]) : i # l => links[i] = far[h][i]
    BY <1>1, <2>1, <2>2
  <2> HIDE DEF links
  <2>5. \A i \in 1..Len(links) :
          links[i].session = far[h][i].session /\ (far[h][i].kept => links[i].kept)
    BY <2>2, <2>4
  <2>6. Len(far[h]) + 1 \in Nat
        /\ \A i \in 1..Len(links) : i < Len(far[h]) + 1 /\ i \in 1..Len(far[h])
    BY <1>1, <2>4
  <2>7. Shrinks(links, far[h], Len(far[h]) + 1)
    BY <2>5, <2>6 DEF Shrinks
  <2>8. QED
    BY <1>3, <2>3, <2>4, <2>6, <2>7
<1>6. ASSUME NEW l \in DOMAIN far[h], ReadServer(h, l)
      PROVE  StInv'
  <2>1. ReadOn(h, far[h], l) /\ l \in 1..Len(far[h])
    BY <1>1, <1>6 DEF ReadServer
  <2>2. Trouble \/ Chunk \/ UNCHANGED used
    BY <2>1 DEF ReadOn
  <2>3. QED
    BY <1>1, <1>3, <2>1, <2>2, ReadOnIs
<1>7. QED
  BY <1>4, <1>5, <1>6

\* The links that outlive an announcement are marked, and otherwise as they were.
LEMMA OutlivedIs ==
  ASSUME NEW f \in Seq(FarLink)
  PROVE  /\ Outlived(f) \in Seq(FarLink) /\ Len(Outlived(f)) = Len(f)
         /\ \A i \in 1..Len(Outlived(f)) : Outlived(f)[i].kept
<1> DEFINE g == Outlived(f)
<1>1. Len(f) \in Nat /\ DOMAIN f = 1..Len(f)
  OBVIOUS
<1>2. \A i \in 1..Len(f) : g[i] = [f[i] EXCEPT !.kept = TRUE]
  BY <1>1 DEF Outlived
<1>3. \A i \in 1..Len(f) : g[i] \in FarLink /\ g[i].kept
  <2>1. \A i \in 1..Len(f) : f[i] \in FarLink
    BY ElementOfSeq
  <2>2. \A x \in FarLink : [x EXCEPT !.kept = TRUE] \in FarLink /\ [x EXCEPT !.kept = TRUE].kept
    BY DEF FarLink
  <2> HIDE DEF g
  <2>3. QED
    BY <1>2, <2>1, <2>2
<1>4. g = [i \in 1..Len(f) |-> g[i]]
  BY <1>1 DEF Outlived
<1> HIDE DEF g
<1>5. g \in Seq(FarLink) /\ Len(g) = Len(f)
  BY <1>1, <1>3, <1>4
<1>6. QED
  BY <1>3, <1>5 DEF g

\* What a host receives is of its only session, or comes while a dial still runs.
LEMMA ReceiveInv ==
  ASSUME StInv, NEW h \in Host, Receive(h)
  PROVE  StInv'
<1> DEFINE q == toServer[h]
           m == Head(q)
<1>1. /\ toServer \in [Host -> Seq(Msg)] /\ q \in Seq(Msg) /\ q # <<>>
      /\ dials \in [Host -> Seq(Dial)] /\ dials[h] \in Seq(Dial)
      /\ far \in [Host -> Seq(FarLink)] /\ far[h] \in Seq(FarLink)
      /\ excuse \in [Host -> SUBSET Excuses] /\ mixed \in BOOLEAN
  BY DEF StInv, StType, Receive
<1>2. UNCHANGED <<near, core, target>>
  BY DEF Receive, nearVars
<1>3. m = q[1] /\ m \in Msg /\ Tail(q) \in Seq(Msg)
  BY <1>1
<1>4. \/ m.kind = "connect" /\ HandleConnect(h, m)
      \/ m.kind = "data" /\ HandleData(h, m)
  BY DEF Receive
<1>5. toServer' = [toServer EXCEPT ![h] = Tail(q)]
  BY DEF Receive
<1> HIDE DEF q, m
<1>6. /\ toServer'[h] = Tail(q) /\ toServer' \in [Host -> Seq(Msg)]
      /\ \A g \in Host : g # h => toServer'[g] = toServer[g]
  BY <1>1, <1>3, <1>5
<1>7. \A g \in Host, k \in Nat : OpenSession(g, k)' <=> OpenSession(g, k)
  BY <1>2 DEF OpenSession
<1>8. ASSUME \A g \in Host : Excusable(g) => Excusable(g)',
             \A g \in Host : g # h => dials'[g] = dials[g] /\ far'[g] = far[g]
      PROVE  \A g \in Host : g # h => HostOwn(g)'
  BY <1>6, <1>7, <1>8 DEF StInv, HostOwn
<1>9. ASSUME ~Excusable(h), Single(dials'[h], far'[h]),
             AllOf(dials'[h], m.session), AllLive(far'[h], m.session)
      PROVE  HostOwn(h)'
  <2>1. /\ Own(q, dials[h], far[h])
        /\ \A k \in Nat : OpenSession(h, k) => Newest(q, dials[h], far[h], k)
    BY <1>9 DEF StInv, HostOwn, q
  <2>2. /\ Own(Tail(q), dials'[h], far'[h])
        /\ \A k \in Nat : Newest(q, dials[h], far[h], k) => Newest(Tail(q), dials'[h], far'[h], k)
    BY <1>1, <1>3, <1>9, <2>1, TailOwn
  <2>3. QED
    BY <1>6, <1>7, <2>1, <2>2 DEF HostOwn
<1>10. CASE m.kind = "connect" /\ HandleConnect(h, m)
  <2> DEFINE dial == [session |-> m.session, attempt |-> 1]
  <2>1. dial \in Dial /\ dial.session = m.session
    BY <1>3 DEF Msg, Dial
  <2>2. PICK left \in Seq(FarLink) :
          /\ far' = [far EXCEPT ![h] = left] /\ \A i \in 1..Len(left) : left[i].kept
          /\ Trouble \/ Chunk \/ UNCHANGED used
    <3>1. CASE far[h] # <<>> /\ far[h][1].due
      <4> DEFINE links == Outlived(far[h])
      <4>1. /\ links \in Seq(FarLink) /\ 1 \in 1..Len(links)
            /\ \A i \in 1..Len(links) : links[i].kept
        BY <1>1, <3>1, OutlivedIs
      <4>2. ReadOn(h, links, 1)
        BY <1>10, <3>1 DEF HandleConnect
      <4> HIDE DEF links
      <4>3. PICK left \in Seq(FarLink), n \in Nat :
              far' = [far EXCEPT ![h] = left] /\ Shrinks(left, links, n)
        BY <1>1, <4>1, <4>2, ReadOnIs
      <4>4. \A i \in 1..Len(left) : left[i].kept
        BY <4>1, <4>3, ShrinksOwn
      <4>5. Trouble \/ Chunk \/ UNCHANGED used
        BY <4>2 DEF ReadOn
      <4>6. QED
        BY <4>3, <4>4, <4>5
    <3>2. CASE ~(far[h] # <<>> /\ far[h][1].due)
      <4> DEFINE left == IF far[h] = <<>> THEN far[h] ELSE Outlived(Tail(far[h]))
      <4>1. left \in Seq(FarLink) /\ \A i \in 1..Len(left) : left[i].kept
        <5>1. CASE far[h] = <<>>
          BY <1>1, <5>1
        <5>2. CASE far[h] # <<>>
          <6>1. Tail(far[h]) \in Seq(FarLink)
            BY <1>1, <5>2, HeadTailProperties
          <6>2. QED
            BY <5>2, <6>1, OutlivedIs
        <5>3. QED
          BY <5>1, <5>2
      <4>2. far' = [far EXCEPT ![h] = left] /\ UNCHANGED used
        BY <1>1, <1>10, <3>2 DEF HandleConnect
      <4> HIDE DEF left
      <4>3. QED
        BY <4>1, <4>2
    <3>3. QED
      BY <3>1, <3>2
  <2>3. /\ dials' = [dials EXCEPT ![h] = Append(dials[h], dial)]
        /\ excuse' = (IF dials[h] # <<>> THEN Excused(h, "doubled") ELSE excuse)
        /\ mixed' = mixed
    BY <1>10 DEF HandleConnect
  <2> HIDE DEF dial
  <2>4. /\ far'[h] = left /\ far' \in [Host -> Seq(FarLink)]
        /\ dials'[h] = Append(dials[h], dial) /\ dials' \in [Host -> Seq(Dial)]
        /\ \A g \in Host : g # h => dials'[g] = dials[g] /\ far'[g] = far[g]
    BY <1>1, <2>1, <2>2, <2>3
  <2>5. /\ excuse' \in [Host -> SUBSET Excuses]
        /\ \A g \in Host : excuse[g] \subseteq excuse'[g]
    BY <1>1, <2>3 DEF Excused, Excuses
  <2>6. \A g \in Host : Excusable(g) => Excusable(g)'
    BY <2>5 DEF Excusable
  <2>7. used' \in [sessions : Nat, chunks : Nat, troubles : Nat] /\ used'.sessions = used.sessions
    BY <2>2, UsedStays
  <2>8. StType'
    BY <1>2, <1>6, <2>3, <2>4, <2>5, <2>7 DEF StInv, StType
  <2>9. HostOwn(h)'
    <3>1. CASE Excusable(h)
      BY <2>6, <3>1 DEF HostOwn
    <3>2. CASE dials[h] # <<>>
      <4>1. "doubled" \in excuse'[h]
        BY <1>1, <2>3, <3>2 DEF Excused
      <4>2. QED
        BY <4>1 DEF HostOwn, Excusable
    <3>3. CASE ~Excusable(h) /\ dials[h] = <<>>
      <4>1. dials'[h] = <<dial>>
        BY <1>1, <2>4, <3>3
      <4>2. Single(dials'[h], far'[h])
        BY <2>2, <2>4, <4>1 DEF Single
      <4>3. AllOf(dials'[h], m.session) /\ AllLive(far'[h], m.session)
        BY <2>1, <2>2, <2>4, <4>1 DEF AllOf, AllLive
      <4>4. QED
        BY <1>9, <3>3, <4>2, <4>3
    <3>4. QED
      BY <3>1, <3>2, <3>3
  <2>10. mixed' => \E g \in Host : Excusable(g)'
    BY <2>3, <2>6 DEF StInv
  <2>11. QED
    BY <1>2, <1>8, <2>4, <2>6, <2>7, <2>8, <2>9, <2>10 DEF StInv
<1>11. CASE m.kind = "data" /\ HandleData(h, m)
  <2>1. /\ UNCHANGED <<far, dials, excuse, used>>
        /\ mixed' = \/ mixed
                    \/ far[h] # <<>> /\ far[h][1].session # m.session /\ ~far[h][1].kept
    BY <1>11 DEF HandleData
  <2>2. \A g \in Host : Excusable(g)' <=> Excusable(g)
    BY <2>1 DEF Excusable
  <2>3. StType'
    <3>1. mixed' \in BOOLEAN
      BY <1>1, <2>1
    <3>2. QED
      BY <1>2, <1>6, <2>1, <3>1 DEF StInv, StType
  <2>4. ASSUME ~Excusable(h)
        PROVE  /\ Single(dials[h], far[h])
               /\ AllOf(dials[h], m.session) /\ AllLive(far[h], m.session)
    BY <1>1, <1>3, <1>11, <2>4 DEF StInv, HostOwn, Own, q
  <2>5. HostOwn(h)'
    <3>1. CASE Excusable(h)
      BY <2>2, <3>1 DEF HostOwn
    <3>2. CASE ~Excusable(h)
      BY <1>9, <2>1, <2>4, <3>2
    <3>3. QED
      BY <3>1, <3>2
  <2>6. ASSUME mixed'
        PROVE  \E g \in Host : Excusable(g)'
    <3>1. CASE mixed
      BY <2>2, <3>1 DEF StInv
    <3>2. CASE Excusable(h)
      BY <2>2, <3>2
    <3>3. CASE ~mixed /\ ~Excusable(h)
      <4>1. far[h] # <<>> /\ far[h][1].session # m.session /\ ~far[h][1].kept
        BY <1>1, <2>1, <2>6, <3>3
      <4>2. 1 \in 1..Len(far[h])
        BY <1>1, <4>1
      <4>3. QED
        BY <2>4, <3>3, <4>1, <4>2 DEF AllLive
    <3>4. QED
      BY <3>1, <3>2, <3>3
  <2>7. QED
    BY <1>2, <1>8, <2>1, <2>2, <2>3, <2>5, <2>6 DEF StInv
<1>12. QED
  BY <1>4, <1>10, <1>11

\* When the routers' connection breaks, either an announcement is lost, which is noted,
\* or nothing that the links and dials do not know.
LEMMA LoseInv ==
  ASSUME StInv, NEW h \in Host, Lose(h)
  PROVE  StInv'
<1>1. /\ toServer \in [Host -> Seq(Msg)] /\ toServer[h] \in Seq(Msg)
      /\ excuse \in [Host -> SUBSET Excuses]
  BY DEF StInv, StType
<1>2. UNCHANGED <<near, core, target, dials, far, mixed>> /\ Trouble
  BY DEF Lose, nearVars
<1>3. used' \in [sessions : Nat, chunks : Nat, troubles : Nat] /\ used'.sessions = used.sessions
  BY <1>2, UsedStays
<1> DEFINE told == \E m \in Range(toServer[h]) : m.kind = "connect"
<1>4. /\ toServer'[h] = <<>> /\ toServer' \in [Host -> Seq(Msg)]
      /\ \A g \in Host : g # h => toServer'[g] = toServer[g]
  BY <1>1 DEF Lose
<1>5. excuse' = IF told THEN Excused(h, "lost") ELSE excuse
  BY DEF Lose
<1>6. told <=> \E i \in 1..Len(toServer[h]) : toServer[h][i].kind = "connect"
  <2>1. DOMAIN toServer[h] = 1..Len(toServer[h])
    BY <1>1
  <2>2. QED
    BY <2>1 DEF Range
<1> HIDE DEF told
<1>7. /\ excuse' \in [Host -> SUBSET Excuses]
      /\ \A g \in Host : excuse[g] \subseteq excuse'[g]
  BY <1>1, <1>5 DEF Excused, Excuses
<1>8. \A g \in Host : Excusable(g) => Excusable(g)'
  BY <1>7 DEF Excusable
<1>9. \A g \in Host, k \in Nat : OpenSession(g, k)' <=> OpenSession(g, k)
  BY <1>2 DEF OpenSession
<1>10. StType'
  BY <1>2, <1>3, <1>4, <1>7 DEF StInv, StType
<1>11. ASSUME NEW g \in Host
       PROVE  HostOwn(g)'
  <2>1. CASE g # h
    BY <1>2, <1>4, <1>8, <1>9, <2>1 DEF StInv, HostOwn
  <2>2. CASE Excusable(g)
    BY <1>8, <2>2 DEF HostOwn
  <2>3. CASE g = h /\ told
    <3>1. "lost" \in excuse'[h]
      BY <1>1, <1>5, <2>3 DEF Excused
    <3>2. QED
      BY <2>3, <3>1 DEF HostOwn, Excusable
  <2>4. CASE g = h /\ ~Excusable(h) /\ ~told
    <3>1. /\ Own(toServer[h], dials[h], far[h])
          /\ \A k \in Nat : OpenSession(h, k) => Newest(toServer[h], dials[h], far[h], k)
      BY <2>4 DEF StInv, HostOwn
    <3>2. \A i \in 1..Len(toServer[h]) : toServer[h][i].kind # "connect"
      BY <1>6, <2>4
    <3>3. /\ Own(<<>>, dials[h], far[h])
          /\ \A k \in Nat : Newest(toServer[h], dials[h], far[h], k)
                              => Newest(<<>>, dials[h], far[h], k)
      BY <1>1, <3>1, <3>2, LoseOwn
    <3>4. QED
      BY <1>2, <1>4, <1>9, <2>4, <3>1, <3>3 DEF HostOwn
  <2>5. QED
    BY <2>1, <2>2, <2>3, <2>4
<1>12. mixed' => \E g \in Host : Excusable(g)'
  BY <1>2, <1>8 DEF StInv
<1>13. QED
  BY <1>2, <1>3, <1>10, <1>11, <1>12 DEF StInv

\* What comes back to the client's host, and a core server that starts.
LEMMA OthersInv ==
  ASSUME StInv, \/ \E h \in Host : TakeBack(h) \/ ServerStarts(h)
                \/ UNCHANGED streamVars
  PROVE  StInv'
<1>1. /\ HostsAlone /\ UNCHANGED <<target, near, core, used>>
  BY DEF TakeBack, ServerStarts, HostsAlone, streamVars, nearVars, farVars
<1>2. StType'
  BY <1>1 DEF StInv, StType, HostsAlone
<1>3. \A h \in Host, k \in Nat : OpenSession(h, k)' => OpenSession(h, k)
  BY <1>1 DEF OpenSession
<1>4. core' <= used'.sessions /\ \A i \in 1..Len(near') : near'[i].session <= used'.sessions
  BY <1>1 DEF StInv
<1>5. QED
  BY <1>1, <1>2, <1>3, <1>4, HostsAloneInv

LEMMA StStepInv == StInv /\ [StreamNext]_streamVars => StInv'
<1> SUFFICES ASSUME StInv, [StreamNext]_streamVars
             PROVE  StInv'
  OBVIOUS
<1>1. ASSUME NEW k \in DOMAIN near,
             SayHello(k) \/ HelloBack(k) \/ NearEnds(k) \/ ReadCore(k)
      PROVE  StInv'
  BY <1>1, NearStepInv, CoreSpeaksInv
<1>2. ASSUME NEW h \in Host, Receive(h) \/ TakeBack(h) \/ ServerStarts(h) \/ Lose(h)
      PROVE  StInv'
  BY <1>2, ReceiveInv, OthersInv, LoseInv
<1>3. ASSUME NEW h \in Host, NEW d \in DOMAIN dials[h], DialDone(h, d) \/ DialAgain(h, d)
      PROVE  StInv'
  BY <1>3, DialStepInv
<1>4. ASSUME NEW h \in Host,
             \/ ServerStops(h)
             \/ \E l \in DOMAIN far[h] : Arrives(h, l) \/ ReadServer(h, l)
      PROVE  StInv'
  BY <1>4, FarLinksInv
<1>5. ASSUME \/ \E h \in Host : ProxyStart(h)
             \/ Accept \/ CoreLeaves
      PROVE  StInv'
  BY <1>5, NearStepInv
<1>6. CASE StreamHandler
  BY <1>1, <1>2, <1>3, <1>6 DEF StreamHandler
<1>7. CASE UNCHANGED streamVars
  BY <1>7, OthersInv
<1>8. QED
  BY <1>1, <1>2, <1>4, <1>5, <1>6, <1>7 DEF StreamNext

\* The initial states and steps of the streams; their fairness plays no part.
StreamSpec == StreamInit /\ [][StreamNext]_streamVars

\* What is under way to a host is, session by session, what its dials and links are for,
\* whatever order ClientProxy, ServerProxy, the router and the cores run in; except
\* where an announcement was lost, or found an attempt of ClientProxy::connect running,
\* and but for the links that outlived stop() because their read had completed.
THEOREM StreamInvariant == StreamSpec => []StInv
<1>1. StreamInit => StInv
  <2> SUFFICES ASSUME StreamInit
               PROVE  StInv
    OBVIOUS
  <2>1. StType
    <3>1. /\ near = <<>> /\ core = 0 /\ mixed = FALSE
          /\ used = [sessions |-> 0, chunks |-> 0, troubles |-> 0]
      BY DEF StreamInit
    <3>2. /\ toServer = [h \in Host |-> <<>>] /\ dials = [h \in Host |-> <<>>]
          /\ far = [h \in Host |-> <<>>] /\ excuse = [h \in Host |-> {}]
      BY DEF StreamInit
    <3>3. /\ near \in Seq(NearLink) /\ core \in Nat /\ mixed \in BOOLEAN
          /\ used \in [sessions : Nat, chunks : Nat, troubles : Nat]
      <4>1. near \in Seq(NearLink)
        BY <3>1
      <4>2. core \in Nat /\ mixed \in BOOLEAN
        BY <3>1
      <4>3. used \in [sessions : Nat, chunks : Nat, troubles : Nat]
        BY <3>1
      <4>4. QED
        BY <4>1, <4>2, <4>3
    <3>4. /\ toServer \in [Host -> Seq(Msg)] /\ dials \in [Host -> Seq(Dial)]
          /\ far \in [Host -> Seq(FarLink)] /\ excuse \in [Host -> SUBSET Excuses]
      BY <3>2
    <3>5. QED
      BY <3>3, <3>4 DEF StType
  <2>2. ASSUME NEW h \in Host
        PROVE  HostOwn(h)
    <3>1. toServer[h] = <<>> /\ dials[h] = <<>> /\ far[h] = <<>>
      BY DEF StreamInit
    <3>2. Own(<<>>, <<>>, <<>>)
      BY DEF Own, Single
    <3>3. \A k \in Nat : Newest(<<>>, <<>>, <<>>, k)
      BY DEF Newest, AllOf, AllLive
    <3>4. QED
      BY <3>1, <3>2, <3>3 DEF HostOwn
  <2>3. core <= used.sessions /\ \A i \in 1..Len(near) : near[i].session <= used.sessions
    BY DEF StreamInit
  <2>4. ~mixed
    BY DEF StreamInit
  <2>5. QED
    BY <2>1, <2>2, <2>3, <2>4 DEF StInv
<1>2. QED
  BY <1>1, StStepInv, PTL DEF StreamSpec

\* What the core client of a session says is written to the link of that session, or
\* to one that outlived stop(): for any number of hosts, sessions, messages, losses and
\* retries (LinkIsOwn).
THEOREM StreamLinkIsOwn == StreamSpec => []LinkIsOwn
<1>1. StInv => LinkIsOwn
  <2> SUFFICES ASSUME StInv
               PROVE  LinkIsOwn
    OBVIOUS
  <2>1. ASSUME NEW h \in Host, ~Excusable(h)
        PROVE  /\ OneLive(h)
               /\ \A k \in Session :
                    OpenSession(h, k) /\ (\E l \in Range(far[h]) : ~l.kept) /\ ~UnderWay(h, k)
                      => Linked(h, k)
    <3> DEFINE q == toServer[h]
               f == far[h]
    <3>1. q \in Seq(Msg) /\ f \in Seq(FarLink) /\ dials[h] \in Seq(Dial)
      BY DEF StInv, StType
    <3>2. /\ Own(q, dials[h], f)
          /\ \A k \in Nat : OpenSession(h, k) => Newest(q, dials[h], f, k)
      BY <2>1 DEF StInv, HostOwn
    <3>3. ASSUME NEW k \in Session, OpenSession(h, k), \E l \in Range(f) : ~l.kept,
                 ~UnderWay(h, k)
          PROVE  Linked(h, k)
      <4>1. k \in Nat
        BY StreamsAssumption DEF Session
      <4>2. Newest(q, dials[h], f, k)
        BY <3>2, <3>3, <4>1
      <4>3. \A i \in 1..Len(q) : q[i].kind = "connect" => q[i].session # k
        BY <3>1, <3>3 DEF UnderWay, Range
      <4>4. PICK i \in 1..Len(f) : ~f[i].kept
        <5>1. DOMAIN f = 1..Len(f)
          BY <3>1
        <5>2. QED
          BY <3>3, <5>1 DEF Range
      <4>5. Linked(h, k) <=> \E l \in 1..Len(f) : f[l].session = k
        <5>1. DOMAIN f = 1..Len(f)
          BY <3>1
        <5>2. QED
          BY <5>1 DEF Linked, Range
      <4> HIDE DEF q, f
      <4>6. AllLive(f, k)
        <5>1. CASE q = <<>>
          BY <4>2, <5>1 DEF Newest
        <5>2. CASE q # <<>>
          <6>1. q[Len(q)].session = k
            BY <4>2, <5>2 DEF Newest
          <6>2. q[1].session = k /\ q[1].kind = "data"
            BY <3>1, <3>2, <4>3, <5>2, <6>1, SameSession
          <6>3. QED
            BY <3>2, <5>2, <6>2 DEF Own
        <5>3. QED
          BY <5>1, <5>2
      <4>7. QED
        BY <4>4, <4>5, <4>6 DEF AllLive
    <3>4. OneLive(h)
      <4>1. DOMAIN f = 1..Len(f)
        BY <3>1
      <4>2. QED
        BY <3>2, <4>1 DEF Own, Single, OneLive
    <3>5. QED
      BY <3>3, <3>4
  <2>2. mixed => \E h \in Host : Excusable(h)
    BY DEF StInv
  <2>3. QED
    BY <2>1, <2>2 DEF LinkIsOwn, Excusable
<1>2. QED
  BY <1>1, StreamInvariant, PTL
=============================================================================
