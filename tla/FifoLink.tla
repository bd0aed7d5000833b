------------------------------ MODULE FifoLink ------------------------------
(***************************************************************************)
(* What Router takes a connection for: messages arrive whole, once and in  *)
(* the order they were sent, until at some point nothing more arrives.     *)
(***************************************************************************)
EXTENDS Integers, Sequences

VARIABLES
  sentCount,  \* messages sent; a message is its number
  arrived     \* messages delivered

LinkInit == sentCount = 0 /\ arrived = <<>>

Offer == sentCount' = sentCount + 1 /\ UNCHANGED arrived

Deliver ==
  /\ Len(arrived) < sentCount
  /\ arrived' = Append(arrived, Len(arrived) + 1)
  /\ UNCHANGED sentCount

LinkSpec == LinkInit /\ [][Offer \/ Deliver]_<<sentCount, arrived>>
=============================================================================
