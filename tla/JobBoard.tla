------------------------------ MODULE JobBoard ------------------------------
(***************************************************************************)
(* What the job queues of the service promise: of each category the oldest *)
(* job is the next to reach the cloud, it leaves only after the cloud has  *)
(* acted on it, and the cloud may act on it more than once.                *)
(***************************************************************************)
EXTENDS Integers, Sequences

CONSTANT Category          \* JobCategories; the lower number goes first

VARIABLES
  given,    \* how many jobs there have been; a job is its number
  waiting,  \* jobs of each category that have not been answered
  acted     \* the job of each category the cloud acted on last, 0 before any

BoardInit ==
  /\ given = 0
  /\ waiting = [c \in Category |-> <<>>]
  /\ acted = [c \in Category |-> 0]

Put(c) ==
  /\ given' = given + 1
  /\ waiting' = [waiting EXCEPT ![c] = Append(@, given')]
  /\ UNCHANGED acted

Act(c) ==
  /\ waiting[c] # <<>>
  /\ acted' = [acted EXCEPT ![c] = Head(waiting[c])]
  /\ UNCHANGED <<given, waiting>>

Retire(c) ==
  /\ waiting[c] # <<>>
  /\ acted[c] = Head(waiting[c])
  /\ waiting' = [waiting EXCEPT ![c] = Tail(@)]
  /\ UNCHANGED <<given, acted>>

BoardNext == \E c \in Category : Put(c) \/ Act(c) \/ Retire(c)

BoardSpec == BoardInit /\ [][BoardNext]_<<given, waiting, acted>>
=============================================================================
