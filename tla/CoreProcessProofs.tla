-------------------------- MODULE CoreProcessProofs --------------------------
(***************************************************************************)
(* Proofs about CoreProcess, for any screens and users and any number of   *)
(* requests and crashes.                                                   *)
(*                                                                         *)
(* NeverStranded is not inductive.  A child is replaced or given up only   *)
(* when its exit has been handled, so the invariant says what is known of  *)
(* the child until then: somebody who asked for its exit left a next       *)
(* command or paused the service (Asked), its command is still there for a *)
(* retry (Retriable), and it is not destroyed while its on_exit handler is *)
(* inside poll() (Handled).                                                *)
(***************************************************************************)
EXTENDS CoreProcess, SequenceTheorems, TLAPS

Asked == impl # None /\ impl.expecting /\ next = None => disabled

Retriable ==
  /\ impl # None => last # None
  /\ impl # None \/ retry # Idle => mode # "unknown"

Handled ==
  \A i \in DOMAIN calls :
    calls[i].in = "on_exit" =>
      /\ impl # None /\ impl.child = "reaped"
      /\ \A j \in DOMAIN calls : calls[j].in = "on_exit" => j = i

IInv == TypeOK /\ Asked /\ Retriable /\ Handled /\ NeverStranded
-----------------------------------------------------------------------------
(* The stack of callers *)

\* A new caller goes on top, the others keep their place.
LEMMA Pushed ==
  ASSUME NEW stack \in Seq(Call), NEW c \in Call
  PROVE  /\ Append(stack, c) \in Seq(Call)
         /\ DOMAIN Append(stack, c) = 1 .. Len(stack) + 1
         /\ DOMAIN stack = 1 .. Len(stack)
         /\ \A i \in DOMAIN stack : Append(stack, c)[i] = stack[i]
         /\ Append(stack, c)[Len(stack) + 1] = c
  OBVIOUS

\* Destroying the child marks the callers and moves none.
LEMMA GoneKeepsCallers ==
  ASSUME NEW stack \in Seq(Call)
  PROVE  /\ AllGone(stack) \in Seq(Call)
         /\ DOMAIN AllGone(stack) = DOMAIN stack
         /\ \A i \in DOMAIN stack : AllGone(stack)[i].in = stack[i].in
<1>1. ASSUME NEW i \in 1 .. Len(stack)
      PROVE  /\ [stack[i] EXCEPT !.gone = TRUE] \in Call
             /\ [stack[i] EXCEPT !.gone = TRUE].in = stack[i].in
  <2>1. stack[i] \in Call
    OBVIOUS
  <2>2. QED
    BY <2>1 DEF Call
<1>2. AllGone(stack) = [i \in 1 .. Len(stack) |-> [stack[i] EXCEPT !.gone = TRUE]]
  BY DEF AllGone
<1>3. Len(stack) \in Nat /\ DOMAIN stack = 1 .. Len(stack)
  OBVIOUS
<1>4. AllGone(stack) \in Seq(Call)
  BY <1>1, <1>2, <1>3, IsASeq
<1>5. QED
  BY <1>1, <1>2, <1>3, <1>4

\* Without its innermost caller the stack is one shorter.
LEMMA Popped ==
  ASSUME NEW stack \in Seq(Call), stack # <<>>
  PROVE  /\ Front(stack) \in Seq(Call)
         /\ DOMAIN stack = 1 .. Len(stack)
         /\ DOMAIN Front(stack) = 1 .. Len(stack) - 1
         /\ Len(stack) \in Nat \ {0}
         /\ \A i \in DOMAIN Front(stack) : Front(stack)[i] = stack[i]
         /\ Last(stack) = stack[Len(stack)]
  BY DEF Front, Last
-----------------------------------------------------------------------------
(* The helpers of start and shutdown *)

\* What CoreProcessImpl::shutdown keeps of the child and the stack.
LEMMA ImplShutdownKeeps ==
  ASSUME TypeOK, Handled, impl # None, ImplShutdown
  PROVE  /\ impl' \in Impl /\ impl' # None
         /\ impl'.expecting = TRUE
         /\ calls' \in Seq(Call)
         /\ Handled'
<1>1. impl \in Impl /\ calls \in Seq(Call)
  BY DEF TypeOK
<1>2. CASE impl.expecting
  BY <1>1, <1>2 DEF ImplShutdown, Handled, Impl
<1>3. CASE ~impl.expecting
  <2> DEFINE c == [in |-> "shutdown", gone |-> FALSE]
  <2>1. impl' = [impl EXCEPT !.expecting = TRUE] /\ calls' = Append(calls, c)
    BY <1>3 DEF ImplShutdown
  <2>2. impl' \in Impl /\ impl'.expecting = TRUE /\ impl'.child = impl.child
    BY <1>1, <2>1 DEF Impl
  <2>3. impl' # None
    BY <2>2, NoneAssumption
  <2>4. c \in Call
    BY DEF Call
  <2>5. calls' \in Seq(Call)
    BY <1>1, <2>1, <2>4, Pushed
  <2>6. \A i \in DOMAIN calls' :
          calls'[i].in = "on_exit" => i \in DOMAIN calls /\ calls'[i] = calls[i]
    <3>1. /\ DOMAIN calls' = 1 .. Len(calls) + 1
          /\ DOMAIN calls = 1 .. Len(calls)
          /\ \A i \in DOMAIN calls : calls'[i] = calls[i]
          /\ calls'[Len(calls) + 1] = c
      BY <1>1, <2>1, <2>4, Pushed
    <3>2. Len(calls) \in Nat
      BY <1>1
    <3>3. c.in # "on_exit"
      OBVIOUS
    <3> HIDE DEF c
    <3>4. QED
      BY <3>1, <3>2, <3>3
  <2>7. Handled'
    BY <2>2, <2>3, <2>6 DEF Handled
  <2>8. QED
    BY <2>2, <2>3, <2>5, <2>7
<1>4. QED
  BY <1>2, <1>3

\* A launch gives a child that is not expected to exit.
LEMMA LaunchGives ==
  ASSUME NEW command \in Command, Launch(command)
  PROVE  /\ impl' \in Impl /\ impl' # None /\ ~impl'.expecting
         /\ last' = command /\ last' # None
<1>1. /\ last' = command
      /\ impl' = [command |-> command, expecting |-> FALSE, child |-> "running"]
  BY DEF Launch
<1>2. impl' \in Impl
  BY <1>1 DEF Impl
<1>3. impl'.expecting = FALSE
  BY <1>1
<1>4. QED
  BY <1>1, <1>2, <1>3, NoneAssumption

\* After Replace there is a child, and one that was there before is asked to
\* make room for the command.
LEMMA ReplaceGives ==
  ASSUME TypeOK, Handled, Retriable, NEW command \in Command, Replace(command)
  PROVE  /\ impl' \in Impl /\ impl' # None
         /\ impl'.expecting => next' # None
         /\ next' \in Command \union {None}
         /\ last' \in Command /\ last' # None
         /\ calls' \in Seq(Call)
         /\ Handled'
<1>1. CASE impl = None
  <2>1. Launch(command) /\ next' = next /\ calls' = calls
    BY <1>1 DEF Replace
  <2>2. \A i \in DOMAIN calls : calls[i].in # "on_exit"
    BY <1>1 DEF Handled
  <2>3. QED
    BY <2>1, <2>2, LaunchGives DEF TypeOK, Handled
<1>2. CASE impl # None
  <2>1. next' = command /\ ImplShutdown /\ last' = last
    BY <1>2 DEF Replace
  <2>2. last \in Command /\ last # None
    BY <1>2 DEF TypeOK, Retriable
  <2>3. QED
    BY <1>2, <2>1, <2>2, ImplShutdownKeeps, NoneAssumption
<1>3. QED
  BY <1>1, <1>2

\* What a start does not choose: the types of the rest of the state.
Others ==
  /\ disabled' \in BOOLEAN
  /\ user' \in User
  /\ proxy' \in Screen \union {None}
  /\ requests' \in 0 .. MaxRequests
  /\ crashes' \in 0 .. MaxCrashes

\* startServer and startClient keep the invariant, whatever m_disabled is.
LEMMA StartAsKeeps ==
  ASSUME IInv, Others,
         NEW m \in {"server", "client"}, NEW server \in Screen,
         m = "server" <=> server = Self,
         NEW u \in User, StartAs(m, server, u, disabled')
  PROVE  IInv'
<1> DEFINE command == [mode |-> m, user |-> u]
<1>1. CASE disabled'
  <2>1. UNCHANGED <<mode, currentServer, impl, next, last, retry, calls, raced>>
    BY <1>1 DEF StartAs
  <2>2. TypeOK'
    BY <2>1 DEF IInv, TypeOK, Others
  <2>3. Asked' /\ NeverStranded'
    BY <1>1 DEF Asked, NeverStranded
  <2>4. Retriable' /\ Handled'
    BY <2>1 DEF IInv, Retriable, Handled
  <2>5. QED
    BY <2>2, <2>3, <2>4 DEF IInv
<1>2. CASE ~disabled'
  <2>1. /\ mode' = m /\ currentServer' = server
        /\ retry' = Cancelled /\ Replace(command)
        /\ raced' = ExitInProgress
    BY <1>2 DEF StartAs, Start
  <2>2. command \in Command
    BY DEF Command
  <2>3. /\ impl' \in Impl /\ impl' # None
        /\ impl'.expecting => next' # None
        /\ next' \in Command \union {None}
        /\ last' \in Command /\ last' # None
        /\ calls' \in Seq(Call)
        /\ Handled'
    BY <2>1, <2>2, ReplaceGives DEF IInv
  <2>4. retry' \in Timer
    BY <2>1 DEF Cancelled, Idle, Timer, IInv, TypeOK
  <2>5. raced' \in BOOLEAN
    BY <2>1 DEF ExitInProgress
  <2>6. TypeOK'
    BY <2>1, <2>3, <2>4, <2>5 DEF TypeOK, Others
  <2>7. Asked' /\ Retriable' /\ NeverStranded'
    BY <2>1, <2>3 DEF Asked, Retriable, NeverStranded
  <2>8. QED
    BY <2>3, <2>6, <2>7 DEF IInv
<1>3. QED
  BY <1>1, <1>2

\* A restart of the core in its mode keeps the invariant.
LEMMA RestartKeeps ==
  ASSUME IInv, Others, NEW u \in User, Restart(u, disabled')
  PROVE  IInv'
<1>1. CASE mode = "unknown"
  <2>1. UNCHANGED <<mode, currentServer, impl, next, last, retry, calls, raced>>
    BY <1>1 DEF Restart, Child
  <2>2. TypeOK'
    BY <2>1 DEF IInv, TypeOK, Others
  <2>3. impl' = None /\ Retriable' /\ Handled'
    BY <1>1, <2>1 DEF IInv, Retriable, Handled
  <2>4. Asked' /\ NeverStranded'
    BY <1>1, <2>1, <2>3 DEF Asked, NeverStranded
  <2>5. QED
    BY <2>2, <2>3, <2>4 DEF IInv
<1>2. CASE mode = "server"
  <2>1. StartAs("server", Self, u, disabled')
    BY <1>2 DEF Restart
  <2>2. QED
    BY <2>1, StartAsKeeps, ScreenAssumption
<1>3. CASE mode = "client"
  <2>1. StartAs("client", currentServer, u, disabled')
    BY <1>3 DEF Restart
  <2>2. currentServer \in Screen /\ currentServer # Self
    BY <1>3 DEF IInv, TypeOK
  <2>3. QED
    BY <2>1, <2>2, StartAsKeeps
<1>4. QED
  BY <1>1, <1>2, <1>3 DEF IInv, TypeOK
-----------------------------------------------------------------------------
(* The actions *)

\* Every request keeps the invariant.
LEMMA RequestsKeep ==
  ASSUME IInv,
         \/ Pause
         \/ Resume
         \/ \E server \in Screen : SwitchServer(server)
         \/ LayoutChanged
         \/ \E u \in User : SetRunAsUid(u)
  PROVE  IInv'
<1> USE DEF IInv
<1>0. Request => requests' \in 0 .. MaxRequests /\ crashes' \in 0 .. MaxCrashes
  BY CapAssumption DEF Request, TypeOK
<1>1. CASE Pause
  <2>1. /\ disabled' = TRUE
        /\ UNCHANGED <<mode, currentServer, user, proxy, next, last, retry, raced>>
        /\ Shutdown
    BY <1>1 DEF Pause
  <2>2. CASE impl = None
    <3>1. impl' = impl /\ calls' = calls
      BY <2>1, <2>2 DEF Shutdown
    <3>2. TypeOK'
      BY <1>0, <1>1, <2>1, <3>1 DEF Pause, TypeOK
    <3>3. Asked' /\ NeverStranded' /\ Retriable' /\ Handled'
      BY <2>1, <3>1 DEF Asked, NeverStranded, Retriable, Handled
    <3>4. QED
      BY <3>2, <3>3
  <2>3. CASE impl # None
    <3>1. impl' \in Impl /\ impl' # None /\ calls' \in Seq(Call) /\ Handled'
      BY <2>1, <2>3, ImplShutdownKeeps DEF Shutdown
    <3>2. TypeOK'
      BY <1>0, <1>1, <2>1, <3>1 DEF Pause, TypeOK
    <3>3. Asked' /\ NeverStranded' /\ Retriable'
      BY <2>1, <2>3, <3>1 DEF Asked, NeverStranded, Retriable
    <3>4. QED
      BY <3>1, <3>2, <3>3
  <2>4. QED
    BY <2>2, <2>3
<1>2. CASE Resume
  <2>1. Others
    BY <1>0, <1>2 DEF Resume, Others, TypeOK
  <2>2. Restart(user, disabled')
    BY <1>2 DEF Resume
  <2>3. user \in User
    BY DEF TypeOK
  <2>4. QED
    BY <2>1, <2>2, <2>3, RestartKeeps
<1>3. ASSUME NEW server \in Screen, SwitchServer(server) PROVE IInv'
  <2>1. Others
    BY <1>0, <1>3 DEF SwitchServer, Others, TypeOK
  <2>2. user \in User /\ disabled' = disabled
    BY <1>3 DEF SwitchServer, TypeOK
  <2>3. CASE server # Self
    <3>1. StartAs("client", server, user, disabled')
      BY <1>3, <2>2, <2>3 DEF SwitchServer
    <3>2. QED
      BY <2>1, <2>2, <2>3, <3>1, StartAsKeeps
  <2>4. CASE server = Self /\ mode # "server"
    <3>1. StartAs("server", Self, user, disabled')
      BY <1>3, <2>2, <2>4 DEF SwitchServer
    <3>2. QED
      BY <2>1, <2>2, <3>1, StartAsKeeps, ScreenAssumption
  <2>5. CASE server = Self /\ mode = "server"
    <3>1. UNCHANGED <<mode, currentServer, impl, next, last, retry, calls, raced>>
      BY <1>3, <2>5 DEF SwitchServer, Child
    <3>2. TypeOK'
      BY <2>1, <3>1 DEF TypeOK, Others
    <3>3. Asked' /\ NeverStranded' /\ Retriable' /\ Handled'
      BY <2>2, <3>1 DEF Asked, NeverStranded, Retriable, Handled
    <3>4. QED
      BY <3>2, <3>3
  <2>6. QED
    BY <2>3, <2>4, <2>5
<1>4. CASE LayoutChanged
  <2>1. Others
    BY <1>0, <1>4 DEF LayoutChanged, Others, TypeOK
  <2>2. StartAs("server", Self, user, disabled') /\ user \in User
    BY <1>4 DEF LayoutChanged, TypeOK
  <2>3. QED
    BY <2>1, <2>2, StartAsKeeps, ScreenAssumption
<1>5. ASSUME NEW u \in User, SetRunAsUid(u) PROVE IInv'
  <2>1. Others
    BY <1>0, <1>5 DEF SetRunAsUid, Others, TypeOK
  <2>2. Restart(u, disabled')
    BY <1>5 DEF SetRunAsUid
  <2>3. QED
    BY <2>1, <2>2, RestartKeeps
<1>6. QED
  BY <1>1, <1>2, <1>3, <1>4, <1>5

\* The exit of the child that was asked for keeps the invariant.
LEMMA ExpectedExitKeeps ==
  ASSUME IInv, impl # None, impl.child = "dead", impl.expecting, ExpectedExit,
         UNCHANGED <<mode, currentServer, disabled, user, proxy, raced,
                     requests, crashes>>
  PROVE  IInv'
<1> USE DEF IInv
<1>1. calls \in Seq(Call) /\ calls' = AllGone(calls)
  BY DEF ExpectedExit, TypeOK
<1>2. calls' \in Seq(Call) /\ DOMAIN calls' = DOMAIN calls
      /\ \A i \in DOMAIN calls : calls'[i].in = calls[i].in
  BY <1>1, GoneKeepsCallers
<1>3. \A i \in DOMAIN calls' : calls'[i].in # "on_exit"
  BY <1>2 DEF Handled
<1>4. Handled'
  BY <1>3 DEF Handled
<1>5. mode # "unknown"
  BY DEF Retriable
<1>6. CASE next = None
  <2>1. UNCHANGED <<next, last, retry>> /\ impl' = None
    BY <1>6 DEF ExpectedExit
  <2>2. disabled
    BY <1>6 DEF Asked
  <2>3. TypeOK'
    BY <1>2, <2>1 DEF TypeOK
  <2>4. Asked' /\ Retriable' /\ NeverStranded'
    BY <2>1, <2>2 DEF Asked, Retriable, NeverStranded
  <2>5. QED
    BY <1>4, <2>3, <2>4
<1>7. CASE next # None /\ disabled
  <2>1. UNCHANGED <<last, retry>> /\ impl' = None /\ next' = None
    BY <1>7 DEF ExpectedExit
  <2>2. TypeOK'
    BY <1>2, <2>1 DEF TypeOK
  <2>3. Asked' /\ Retriable' /\ NeverStranded'
    BY <1>7, <2>1 DEF Asked, Retriable, NeverStranded
  <2>4. QED
    BY <1>4, <2>2, <2>3
<1>8. CASE next # None /\ ~disabled
  <2>1. next' = None /\ retry' = Cancelled /\ Launch(next)
    BY <1>8 DEF ExpectedExit
  <2>2. next \in Command
    BY <1>8 DEF TypeOK
  <2>3. /\ impl' \in Impl /\ impl' # None /\ ~impl'.expecting
        /\ last' = next /\ last' # None
    BY <2>1, <2>2, LaunchGives
  <2>4. retry' \in Timer
    BY <2>1 DEF Cancelled, Idle, Timer, TypeOK
  <2>5. TypeOK'
    BY <1>2, <2>1, <2>2, <2>3, <2>4 DEF TypeOK
  <2>6. Asked' /\ Retriable' /\ NeverStranded'
    BY <1>5, <2>1, <2>3 DEF Asked, Retriable, NeverStranded
  <2>7. QED
    BY <1>4, <2>5, <2>6
<1>9. QED
  BY <1>6, <1>7, <1>8

\* The on_exit handler keeps the invariant.
LEMMA OnExitKeeps ==
  ASSUME IInv, OnExit
  PROVE  IInv'
<1> USE DEF IInv
<1>1. /\ impl # None /\ impl.child = "dead" /\ impl \in Impl
      /\ UNCHANGED <<mode, currentServer, disabled, user, proxy, raced,
                     requests, crashes>>
  BY DEF OnExit, TypeOK
<1>2. CASE impl.expecting
  BY <1>1, <1>2, ExpectedExitKeeps DEF OnExit
<1>3. CASE ~impl.expecting
  <2> DEFINE c == [in |-> "on_exit", gone |-> FALSE]
  <2>1. /\ impl' = [impl EXCEPT !.child = "reaped"]
        /\ calls' = Append(calls, c)
        /\ UNCHANGED <<next, last, retry>>
    BY <1>3 DEF OnExit
  <2>2. /\ impl' \in Impl /\ impl'.child = "reaped"
        /\ impl'.expecting = impl.expecting
    BY <1>1, <2>1 DEF Impl
  <2>3. impl' # None
    BY <2>2, NoneAssumption
  <2>4. c \in Call /\ calls \in Seq(Call)
    BY DEF Call, TypeOK
  <2>5. /\ calls' \in Seq(Call)
        /\ DOMAIN calls' = 1 .. Len(calls) + 1
        /\ DOMAIN calls = 1 .. Len(calls)
        /\ \A i \in DOMAIN calls : calls'[i] = calls[i]
        /\ Len(calls) \in Nat
    BY <2>1, <2>4, Pushed
  <2>6. \A i \in DOMAIN calls : calls[i].in # "on_exit"
    BY <1>1 DEF Handled
  <2>7. \A i \in DOMAIN calls' : calls'[i].in = "on_exit" => i = Len(calls) + 1
    BY <2>5, <2>6
  <2>8. Handled'
    BY <2>2, <2>3, <2>7 DEF Handled
  <2>9. TypeOK'
    BY <1>1, <2>1, <2>2, <2>5 DEF TypeOK
  <2>10. Asked' /\ Retriable' /\ NeverStranded'
    BY <1>1, <2>1, <2>2, <2>3 DEF Asked, Retriable, NeverStranded
  <2>11. QED
    BY <2>8, <2>9, <2>10
<1>4. QED
  BY <1>2, <1>3

\* The return from poll() keeps the invariant.
LEMMA PollDoneKeeps ==
  ASSUME IInv, PollDone
  PROVE  IInv'
<1> USE DEF IInv
<1> DEFINE rest == Front(calls)
<1>1. /\ calls \in Seq(Call) /\ calls # <<>>
      /\ UNCHANGED <<mode, currentServer, disabled, user, proxy, next, raced,
                     requests, crashes>>
  BY DEF PollDone, TypeOK
<1>2. /\ rest \in Seq(Call)
      /\ DOMAIN calls = 1 .. Len(calls)
      /\ DOMAIN rest = 1 .. Len(calls) - 1
      /\ Len(calls) \in Nat \ {0}
      /\ \A i \in DOMAIN rest : rest[i] = calls[i]
      /\ Last(calls) = calls[Len(calls)]
  BY <1>1, Popped
<1> HIDE DEF rest
<1>3. CASE Last(calls).in = "on_exit"
  <2>1. UnexpectedExit(rest)
    BY <1>3 DEF PollDone, rest
  <2>2. impl' = None /\ calls' = AllGone(rest)
    BY <2>1 DEF UnexpectedExit
  <2>3. impl # None /\ last # None /\ mode # "unknown"
    BY <1>2, <1>3 DEF Handled, Retriable
  <2>4. last' = None /\ retry' = [state |-> "armed", command |-> last]
    BY <2>1, <2>3 DEF UnexpectedExit
  <2>5. retry' \in Timer
    BY <2>3, <2>4 DEF Timer, TypeOK
  <2>6. retry' # Idle
    BY <2>4 DEF Idle
  <2>7. /\ calls' \in Seq(Call) /\ DOMAIN calls' = DOMAIN rest
        /\ \A i \in DOMAIN rest : calls'[i].in = rest[i].in
    BY <1>2, <2>2, GoneKeepsCallers
  <2>8. \A i \in DOMAIN rest : rest[i].in # "on_exit"
    BY <1>2, <1>3 DEF Handled
  <2>9. Handled'
    BY <2>7, <2>8 DEF Handled
  <2>10. TypeOK'
    BY <1>1, <2>2, <2>4, <2>5, <2>7 DEF TypeOK
  <2>11. Asked' /\ Retriable' /\ NeverStranded'
    BY <1>1, <2>2, <2>3, <2>6 DEF Asked, Retriable, NeverStranded
  <2>12. QED
    BY <2>9, <2>10, <2>11
<1>4. CASE Last(calls).in # "on_exit"
  <2>1. /\ impl' \in Terminated(Last(calls).gone) /\ calls' = rest
        /\ UNCHANGED <<last, retry>>
    BY <1>4 DEF PollDone, rest
  <2>2. \/ impl' = impl
        \/ /\ impl # None /\ impl.child = "running"
           /\ impl' = [impl EXCEPT !.child = "dead"]
    BY <2>1 DEF Terminated
  <2>3. CASE impl' = impl
    <3>1. Handled'
      BY <1>2, <2>1, <2>3 DEF Handled
    <3>2. TypeOK'
      BY <1>1, <1>2, <2>1, <2>3 DEF TypeOK
    <3>3. Asked' /\ Retriable' /\ NeverStranded'
      BY <1>1, <2>1, <2>3 DEF Asked, Retriable, NeverStranded
    <3>4. QED
      BY <3>1, <3>2, <3>3
  <2>4. CASE /\ impl # None /\ impl.child = "running"
             /\ impl' = [impl EXCEPT !.child = "dead"]
    <3>1. impl \in Impl
      BY <2>4 DEF TypeOK
    <3>2. impl' \in Impl /\ impl' # None /\ impl'.expecting = impl.expecting
      BY <2>4, <3>1, NoneAssumption DEF Impl
    <3>3. \A i \in DOMAIN calls : calls[i].in # "on_exit"
      BY <2>4 DEF Handled
    <3>4. Handled'
      BY <1>2, <2>1, <3>3 DEF Handled
    <3>5. TypeOK'
      BY <1>1, <1>2, <2>1, <3>2 DEF TypeOK
    <3>6. Asked' /\ Retriable' /\ NeverStranded'
      BY <1>1, <2>1, <2>4, <3>2 DEF Asked, Retriable, NeverStranded
    <3>7. QED
      BY <3>4, <3>5, <3>6
  <2>5. QED
    BY <2>2, <2>3, <2>4
<1>5. QED
  BY <1>3, <1>4

\* A crash of the core keeps the invariant.
LEMMA CrashKeeps ==
  ASSUME IInv, Crash
  PROVE  IInv'
<1> USE DEF IInv
<1>1. /\ impl # None /\ impl.child = "running" /\ impl \in Impl
      /\ impl' = [impl EXCEPT !.child = "dead"]
      /\ crashes' \in 0 .. MaxCrashes
      /\ UNCHANGED <<mode, currentServer, disabled, user, proxy, next, last,
                     retry, calls, raced, requests>>
  BY CapAssumption DEF Crash, TypeOK
<1>2. impl' \in Impl /\ impl' # None /\ impl'.expecting = impl.expecting
  BY <1>1, NoneAssumption DEF Impl
<1>3. \A i \in DOMAIN calls : calls[i].in # "on_exit"
  BY <1>1 DEF Handled
<1>4. TypeOK'
  BY <1>1, <1>2 DEF TypeOK
<1>5. Asked' /\ Retriable' /\ Handled' /\ NeverStranded'
  BY <1>1, <1>2, <1>3 DEF Asked, Retriable, Handled, NeverStranded
<1>6. QED
  BY <1>4, <1>5

\* The retry timer and its handler keep the invariant.
LEMMA RetryKeeps ==
  ASSUME IInv, RetryExpires \/ RetryFires
  PROVE  IInv'
<1> USE DEF IInv
<1>1. CASE RetryExpires
  <2>1. /\ retry.state = "armed" /\ retry \in Timer
        /\ retry' = [retry EXCEPT !.state = "due"]
        /\ UNCHANGED <<mode, currentServer, disabled, user, proxy, impl, next,
                       last, calls, raced, requests, crashes>>
    BY <1>1 DEF RetryExpires, TypeOK
  <2>2. retry' \in Timer /\ retry'.state = "due"
    BY <2>1 DEF Timer
  <2>3. retry' # Idle /\ retry # Idle
    BY <2>1, <2>2 DEF Idle
  <2>4. TypeOK'
    BY <2>1, <2>2 DEF TypeOK
  <2>5. Asked' /\ Retriable' /\ Handled' /\ NeverStranded'
    BY <2>1, <2>3 DEF Asked, Retriable, Handled, NeverStranded
  <2>6. QED
    BY <2>4, <2>5
<1>2. CASE RetryFires
  <2>1. /\ retry' = Idle /\ retry.state = "due"
        /\ UNCHANGED <<mode, currentServer, disabled, user, proxy, raced,
                       requests, crashes>>
    BY <1>2 DEF RetryFires
  <2>2. Idle \in Timer /\ retry.command \in Command
    BY <2>1 DEF Timer, Idle, TypeOK
  <2>3. CASE disabled
    <3>1. UNCHANGED <<impl, next, last, calls>>
      BY <1>2, <2>3 DEF RetryFires
    <3>2. TypeOK'
      BY <2>1, <2>2, <3>1 DEF TypeOK
    <3>3. Asked' /\ Retriable' /\ Handled' /\ NeverStranded'
      BY <2>1, <2>3, <3>1 DEF Asked, Retriable, Handled, NeverStranded
    <3>4. QED
      BY <3>2, <3>3
  <2>4. CASE ~disabled
    <3>1. Replace(retry.command)
      BY <1>2, <2>4 DEF RetryFires
    <3>2. /\ impl' \in Impl /\ impl' # None
          /\ impl'.expecting => next' # None
          /\ next' \in Command \union {None}
          /\ last' \in Command /\ last' # None
          /\ calls' \in Seq(Call)
          /\ Handled'
      BY <2>2, <3>1, ReplaceGives
    <3>3. TypeOK'
      BY <2>1, <2>2, <3>2 DEF TypeOK
    <3>4. mode # "unknown"
      BY <2>1 DEF Retriable, Idle
    <3>5. Asked' /\ NeverStranded' /\ Retriable'
      BY <2>1, <3>2, <3>4 DEF Asked, NeverStranded, Retriable
    <3>6. QED
      BY <3>2, <3>3, <3>5
  <2>5. QED
    BY <2>3, <2>4
<1>3. QED
  BY <1>1, <1>2
-----------------------------------------------------------------------------
\* A service that starts has no core and no mode.
LEMMA InitInvariant == Init => IInv
<1>1. Init => Asked /\ Retriable /\ Handled /\ NeverStranded
  BY DEF Init, Asked, Retriable, Handled, NeverStranded
<1>2. Idle \in Timer
  BY DEF Idle, Timer
<1>3. Init => calls \in Seq(Call) /\ requests \in 0 .. MaxRequests
              /\ crashes \in 0 .. MaxCrashes
  BY CapAssumption DEF Init
<1>4. Init => TypeOK
  BY <1>2, <1>3, UserAssumption DEF Init, TypeOK
<1>5. QED
  BY <1>1, <1>4 DEF IInv

\* Every step keeps the invariant.
LEMMA StepInvariant == IInv /\ [Next]_vars => IInv'
<1>1. SUFFICES ASSUME IInv, [Next]_vars PROVE IInv'
  OBVIOUS
<1>2. CASE UNCHANGED vars
  BY <1>1, <1>2
  DEF vars, IInv, TypeOK, Asked, Retriable, Handled, NeverStranded
<1>3. CASE Next
  BY <1>1, <1>3, RequestsKeep, OnExitKeeps, PollDoneKeeps, CrashKeeps,
     RetryKeeps DEF Next
<1>4. QED
  BY <1>1, <1>2, <1>3

\* The invariant holds, for any screens, users and bounds.
THEOREM CoreInvariant == Spec => []IInv
BY InitInvariant, StepInvariant, PTL DEF Spec

\* Type correctness of the service's control of its core.
THEOREM CoreTypeCorrect == Spec => []TypeOK
<1>1. IInv => TypeOK
  BY DEF IInv
<1>2. QED
  BY <1>1, CoreInvariant, PTL

\* An enabled service that knows its mode always has a core or a retry that
\* will start one (CoreProcess.cpp lines 37 to 59 and 149 to 180).
THEOREM CoreNeverStranded == Spec => []NeverStranded
<1>1. IInv => NeverStranded
  BY DEF IInv
<1>2. QED
  BY <1>1, CoreInvariant, PTL
-----------------------------------------------------------------------------
(* LastRequestWins.  It needs to know that a retry starts the command of the *)
(* last child (LastIsChild), that a start meets no timer but one that raced   *)
(* with it (TimerSettled), and that a request during an unexpected exit is    *)
(* marked as raced, on_exit being on the stack (ReapedRaced, OnStack).        *)

LastIsChild == impl # None => last = impl.command

TimerSettled ==
  impl # None => retry.state # "armed" /\ (retry.state = "due" => raced)

ReapedRaced ==
  impl # None /\ impl.child = "reaped" /\ impl.expecting /\ ~disabled => raced

OnStack ==
  impl # None /\ impl.child = "reaped"
    => \E i \in DOMAIN calls : calls[i].in = "on_exit"

Settled == LastIsChild /\ TimerSettled /\ ReapedRaced /\ OnStack

JInv == IInv /\ Settled /\ LastRequestWins

\* shutdown asks the child to exit and changes nothing else of it.
LEMMA ImplShutdownSettles ==
  ASSUME TypeOK, OnStack, impl # None, ImplShutdown
  PROVE  /\ impl'.command = impl.command /\ impl'.child = impl.child
         /\ impl' # None /\ impl'.expecting = TRUE
         /\ OnStack'
<1>1. impl \in Impl /\ calls \in Seq(Call)
  BY DEF TypeOK
<1>2. CASE impl.expecting
  BY <1>1, <1>2 DEF ImplShutdown, OnStack, Impl
<1>3. CASE ~impl.expecting
  <2> DEFINE c == [in |-> "shutdown", gone |-> FALSE]
  <2>1. impl' = [impl EXCEPT !.expecting = TRUE] /\ calls' = Append(calls, c)
    BY <1>3 DEF ImplShutdown
  <2>2. /\ impl' \in Impl /\ impl'.expecting = TRUE
        /\ impl'.child = impl.child /\ impl'.command = impl.command
    BY <1>1, <2>1 DEF Impl
  <2>3. impl' # None
    BY <2>2, NoneAssumption
  <2>4. c \in Call
    BY DEF Call
  <2>5. DOMAIN calls' = 1 .. Len(calls) + 1 /\ DOMAIN calls = 1 .. Len(calls)
        /\ (\A i \in DOMAIN calls : calls'[i] = calls[i]) /\ Len(calls) \in Nat
    BY <1>1, <2>1, <2>4, Pushed
  <2>6. OnStack'
    BY <2>2, <2>5 DEF OnStack
  <2>7. QED
    BY <2>2, <2>3, <2>6
<1>4. QED
  BY <1>2, <1>3

\* A launched child runs the command, with no exit under way.
LEMMA LaunchSettles ==
  ASSUME NEW command \in Command, Launch(command)
  PROVE  /\ impl'.command = command /\ last' = command
         /\ impl'.expecting = FALSE /\ impl'.child = "running"
         /\ impl' # None
<1>1. /\ last' = command
      /\ impl' = [command |-> command, expecting |-> FALSE, child |-> "running"]
  BY DEF Launch
<1>2. impl' \in Impl
  BY <1>1 DEF Impl
<1>3. QED
  BY <1>1, <1>2, NoneAssumption

\* After Replace the command survives: it runs, or is the next one.
LEMMA ReplaceSettles ==
  ASSUME TypeOK, LastIsChild, OnStack, NEW command \in Command, Replace(command)
  PROVE  /\ impl' # None
         /\ IF impl'.expecting THEN next' = command ELSE impl'.command = command
         /\ LastIsChild' /\ OnStack'
         /\ impl'.child = "reaped" => impl # None /\ impl.child = "reaped"
<1>1. CASE impl = None
  <2>1. Launch(command)
    BY <1>1 DEF Replace
  <2>2. QED
    BY <2>1, LaunchSettles DEF LastIsChild, OnStack
<1>2. CASE impl # None
  <2>1. next' = command /\ ImplShutdown /\ last' = last
    BY <1>2 DEF Replace
  <2>2. /\ impl'.command = impl.command /\ impl'.child = impl.child
        /\ impl' # None /\ impl'.expecting = TRUE
        /\ OnStack'
    BY <1>2, <2>1, ImplShutdownSettles
  <2>3. LastIsChild'
    BY <1>2, <2>1, <2>2 DEF LastIsChild
  <2>4. QED
    BY <1>2, <2>1, <2>2, <2>3
<1>3. QED
  BY <1>1, <1>2

\* startServer and startClient: the command they ask for survives.
LEMMA StartAsSettles ==
  ASSUME JInv, NEW m \in {"server", "client"}, NEW server,
         NEW u \in User, user' = u, StartAs(m, server, u, disabled')
  PROVE  Settled' /\ LastRequestWins'
<1> DEFINE command == [mode |-> m, user |-> u]
<1>1. CASE disabled'
  <2>1. UNCHANGED <<mode, currentServer, impl, next, last, retry, calls, raced>>
    BY <1>1 DEF StartAs
  <2>2. LastIsChild' /\ TimerSettled' /\ OnStack'
    BY <2>1 DEF JInv, Settled, LastIsChild, TimerSettled, OnStack
  <2>3. ReapedRaced' /\ LastRequestWins'
    BY <1>1 DEF ReapedRaced, LastRequestWins
  <2>4. QED
    BY <2>2, <2>3 DEF Settled
<1>2. CASE ~disabled'
  <2>1. /\ mode' = m /\ retry' = Cancelled /\ Replace(command)
        /\ raced' = ExitInProgress
    BY <1>2 DEF StartAs, Start
  <2>2. command \in Command
    BY DEF Command
  <2>3. /\ impl' # None
        /\ IF impl'.expecting THEN next' = command ELSE impl'.command = command
        /\ LastIsChild' /\ OnStack'
        /\ impl'.child = "reaped" => impl # None /\ impl.child = "reaped"
    BY <2>1, <2>2, ReplaceSettles DEF JInv, IInv, Settled
  <2>4. retry'.state # "armed" /\ (retry'.state = "due" => retry.state = "due")
    BY <2>1 DEF Cancelled, Idle
  <2>5. TimerSettled'
    BY <2>1, <2>4 DEF TimerSettled, ExitInProgress
  <2>6. ReapedRaced'
    BY <2>1, <2>3 DEF ReapedRaced, ExitInProgress, OnStack, JInv, Settled
  <2>7. Surviving' = command
    BY <2>3 DEF Surviving
  <2>8. LastRequestWins'
    BY <2>1, <2>7 DEF LastRequestWins
  <2>9. QED
    BY <2>3, <2>5, <2>6, <2>8 DEF Settled
<1>3. QED
  BY <1>1, <1>2

\* A restart in the mode the service is in.
LEMMA RestartSettles ==
  ASSUME JInv, NEW u \in User, user' = u, Restart(u, disabled')
  PROVE  Settled' /\ LastRequestWins'
<1>1. CASE mode = "unknown"
  <2>1. UNCHANGED <<mode, currentServer, impl, next, last, retry, calls, raced>>
    BY <1>1 DEF Restart, Child
  <2>2. impl' = None /\ mode' = "unknown"
    BY <1>1, <2>1 DEF JInv, IInv, Retriable
  <2>3. QED
    BY <2>2 DEF Settled, LastIsChild, TimerSettled, ReapedRaced, OnStack,
                LastRequestWins
<1>2. CASE mode # "unknown"
  <2>1. mode \in {"server", "client"}
    BY <1>2 DEF JInv, IInv, TypeOK
  <2>2. StartAs(mode, IF mode = "server" THEN Self ELSE currentServer, u, disabled')
    BY <1>2 DEF Restart
  <2>3. QED
    BY <2>1, <2>2, StartAsSettles
<1>3. QED
  BY <1>1, <1>2

\* Steps that leave what Settled and LastRequestWins speak of alone.
LEMMA IdleSettles ==
  ASSUME JInv, UNCHANGED <<mode, disabled, user, impl, next, last, retry, calls, raced>>
  PROVE  Settled' /\ LastRequestWins'
BY DEF JInv, Settled, LastIsChild, TimerSettled, ReapedRaced, OnStack,
       LastRequestWins, Surviving

\* Every request leaves the core asked for, or one that will give way to it.
LEMMA RequestsSettle ==
  ASSUME JInv,
         \/ Pause
         \/ Resume
         \/ \E server \in Screen : SwitchServer(server)
         \/ LayoutChanged
         \/ \E u \in User : SetRunAsUid(u)
  PROVE  Settled' /\ LastRequestWins'
<1>0. user \in User
  BY DEF JInv, IInv, TypeOK
<1>1. CASE Pause
  <2>1. /\ disabled' = TRUE /\ Shutdown
        /\ UNCHANGED <<mode, user, next, last, retry, raced>>
    BY <1>1 DEF Pause
  <2>2. ReapedRaced' /\ LastRequestWins'
    BY <2>1 DEF ReapedRaced, LastRequestWins
  <2>3. CASE impl = None
    <3>1. impl' = None
      BY <2>1, <2>3 DEF Shutdown
    <3>2. QED
      BY <2>2, <3>1 DEF Settled, LastIsChild, TimerSettled, OnStack
  <2>4. CASE impl # None
    <3>1. /\ impl'.command = impl.command /\ impl' # None /\ OnStack'
      BY <2>1, <2>4, ImplShutdownSettles DEF Shutdown, JInv, IInv, Settled
    <3>2. LastIsChild' /\ TimerSettled'
      BY <2>1, <2>4, <3>1 DEF JInv, Settled, LastIsChild, TimerSettled
    <3>3. QED
      BY <2>2, <3>1, <3>2 DEF Settled
  <2>5. QED
    BY <2>3, <2>4
<1>2. CASE Resume
  <2>1. Restart(user, disabled') /\ user' = user
    BY <1>2 DEF Resume
  <2>2. QED
    BY <1>0, <2>1, RestartSettles
<1>3. ASSUME NEW server \in Screen, SwitchServer(server)
      PROVE  Settled' /\ LastRequestWins'
  <2>1. user' = user /\ disabled' = disabled
    BY <1>3 DEF SwitchServer
  <2>2. CASE server = Self /\ mode = "server"
    <3>1. UNCHANGED <<mode, impl, next, last, retry, calls, raced>>
      BY <1>3, <2>2 DEF SwitchServer, Child
    <3>2. QED
      BY <2>1, <3>1, IdleSettles
  <2>3. CASE server = Self /\ mode # "server"
    <3>1. StartAs("server", Self, user, disabled')
      BY <1>3, <2>1, <2>3 DEF SwitchServer
    <3>2. QED
      BY <1>0, <2>1, <3>1, StartAsSettles
  <2>4. CASE server # Self
    <3>1. StartAs("client", server, user, disabled')
      BY <1>3, <2>1, <2>4 DEF SwitchServer
    <3>2. QED
      BY <1>0, <2>1, <3>1, StartAsSettles
  <2>5. QED
    BY <2>2, <2>3, <2>4
<1>4. CASE LayoutChanged
  <2>1. StartAs("server", Self, user, disabled') /\ user' = user
    BY <1>4 DEF LayoutChanged
  <2>2. QED
    BY <1>0, <2>1, StartAsSettles
<1>5. ASSUME NEW u \in User, SetRunAsUid(u)
      PROVE  Settled' /\ LastRequestWins'
  <2>1. Restart(u, disabled') /\ user' = u
    BY <1>5 DEF SetRunAsUid
  <2>2. QED
    BY <2>1, RestartSettles
<1>6. QED
  BY <1>1, <1>2, <1>3, <1>4, <1>5

\* The on_exit handler keeps the command that was asked for.
LEMMA OnExitSettles ==
  ASSUME JInv, OnExit
  PROVE  Settled' /\ LastRequestWins'
<1>1. /\ impl # None /\ impl.child = "dead" /\ impl \in Impl
      /\ retry \in Timer /\ retry.state # "due"
      /\ UNCHANGED <<mode, disabled, user, raced>>
  BY DEF OnExit, JInv, IInv, TypeOK
<1>2. retry.state # "armed"
  BY <1>1 DEF JInv, Settled, TimerSettled
<1>3. CASE impl.expecting /\ (next = None \/ disabled)
  <2>1. impl' = None
    BY <1>3 DEF OnExit, ExpectedExit
  <2>2. disabled
    BY <1>1, <1>3 DEF JInv, IInv, Asked
  <2>3. QED
    BY <1>1, <2>1, <2>2 DEF Settled, LastIsChild, TimerSettled, ReapedRaced,
                            OnStack, LastRequestWins
<1>4. CASE impl.expecting /\ next # None /\ ~disabled
  <2>1. Launch(next) /\ retry' = Cancelled
    BY <1>4 DEF OnExit, ExpectedExit
  <2>2. next \in Command
    BY <1>4 DEF JInv, IInv, TypeOK
  <2>3. /\ impl'.command = next /\ last' = next
        /\ impl'.expecting = FALSE /\ impl'.child = "running"
        /\ impl' # None
    BY <2>1, <2>2, LaunchSettles
  <2>4. retry' = retry
    BY <1>2, <2>1 DEF Cancelled
  <2>5. Settled'
    BY <1>1, <1>2, <2>3, <2>4
    DEF Settled, LastIsChild, TimerSettled, ReapedRaced, OnStack
  <2>6. Surviving' = Surviving
    BY <1>1, <1>4, <2>3 DEF Surviving
  <2>7. LastRequestWins'
    BY <1>1, <2>6 DEF JInv, LastRequestWins
  <2>8. QED
    BY <2>5, <2>7
<1>5. CASE ~impl.expecting
  <2> DEFINE c == [in |-> "on_exit", gone |-> FALSE]
  <2>1. /\ impl' = [impl EXCEPT !.child = "reaped"]
        /\ calls' = Append(calls, c)
        /\ UNCHANGED <<next, last, retry>>
    BY <1>5 DEF OnExit
  <2>2. /\ impl' \in Impl /\ impl'.child = "reaped"
        /\ impl'.command = impl.command
        /\ impl'.expecting = impl.expecting
    BY <1>1, <2>1 DEF Impl
  <2>3. impl' # None
    BY <2>2, NoneAssumption
  <2>4. c \in Call /\ calls \in Seq(Call) /\ Len(calls) \in Nat
    BY DEF Call, JInv, IInv, TypeOK
  <2>5. Len(calls) + 1 \in DOMAIN calls' /\ calls'[Len(calls) + 1] = c
    BY <2>1, <2>4, Pushed
  <2>6. OnStack'
    BY <2>5 DEF OnStack
  <2>7. LastIsChild' /\ TimerSettled' /\ ReapedRaced'
    BY <1>1, <1>5, <2>1, <2>2, <2>3
    DEF JInv, Settled, LastIsChild, TimerSettled, ReapedRaced
  <2>8. Surviving' = Surviving
    BY <1>1, <2>1, <2>2, <2>3 DEF Surviving
  <2>9. LastRequestWins'
    BY <1>1, <2>8 DEF JInv, LastRequestWins
  <2>10. QED
    BY <2>6, <2>7, <2>9 DEF Settled
<1>6. QED
  BY <1>3, <1>4, <1>5

\* The return from poll() keeps the command that was asked for.
LEMMA PollDoneSettles ==
  ASSUME JInv, PollDone
  PROVE  Settled' /\ LastRequestWins'
<1> DEFINE rest == Front(calls)
<1>1. /\ calls \in Seq(Call) /\ calls # <<>>
      /\ UNCHANGED <<mode, disabled, user, next, raced>>
  BY DEF PollDone, JInv, IInv, TypeOK
<1>2. /\ DOMAIN calls = 1 .. Len(calls)
      /\ DOMAIN rest = 1 .. Len(calls) - 1
      /\ Len(calls) \in Nat \ {0}
      /\ \A i \in DOMAIN rest : rest[i] = calls[i]
      /\ Last(calls) = calls[Len(calls)]
  BY <1>1, Popped
<1> HIDE DEF rest
<1>3. CASE Last(calls).in = "on_exit"
  <2>1. UnexpectedExit(rest)
    BY <1>3 DEF PollDone, rest
  <2>2. impl' = None
    BY <2>1 DEF UnexpectedExit
  <2>3. impl # None /\ last # None /\ impl.child = "reaped"
    BY <1>2, <1>3 DEF JInv, IInv, Handled, Retriable
  <2>4. retry'.command = last
    BY <2>1, <2>3 DEF UnexpectedExit
  <2>5. last = impl.command
    BY <2>3 DEF JInv, Settled, LastIsChild
  <2>6. ~disabled /\ ~raced => ~impl.expecting
    BY <2>3 DEF JInv, Settled, ReapedRaced
  <2>7. ~disabled /\ ~raced => Surviving' = Surviving
    BY <2>2, <2>3, <2>4, <2>5, <2>6 DEF Surviving
  <2>8. LastRequestWins'
    BY <1>1, <2>7 DEF JInv, LastRequestWins
  <2>9. QED
    BY <2>2, <2>8 DEF Settled, LastIsChild, TimerSettled, ReapedRaced, OnStack
<1>4. CASE Last(calls).in # "on_exit"
  <2>1. /\ impl' \in Terminated(Last(calls).gone) /\ calls' = rest
        /\ UNCHANGED <<last, retry>>
    BY <1>4 DEF PollDone, rest
  <2>2. \/ impl' = impl
        \/ /\ impl # None /\ impl.child = "running"
           /\ impl' = [impl EXCEPT !.child = "dead"]
    BY <2>1 DEF Terminated
  <2>3. impl # None => impl \in Impl
    BY DEF JInv, IInv, TypeOK
  <2>4. /\ impl' = None <=> impl = None
        /\ impl # None => /\ impl'.command = impl.command
                          /\ impl'.expecting = impl.expecting
                          /\ impl'.child = "reaped" => impl' = impl
    BY <2>2, <2>3, NoneAssumption DEF Impl
  <2>5. OnStack'
    BY <1>2, <1>4, <2>1, <2>4 DEF JInv, Settled, OnStack
  <2>6. LastIsChild' /\ TimerSettled' /\ ReapedRaced'
    BY <1>1, <2>1, <2>4 DEF JInv, Settled, LastIsChild, TimerSettled, ReapedRaced
  <2>7. Surviving' = Surviving
    BY <1>1, <2>1, <2>4 DEF Surviving
  <2>8. LastRequestWins'
    BY <1>1, <2>7 DEF JInv, LastRequestWins
  <2>9. QED
    BY <2>5, <2>6, <2>8 DEF Settled
<1>5. QED
  BY <1>3, <1>4

\* A crash changes no command.
LEMMA CrashSettles ==
  ASSUME JInv, Crash
  PROVE  Settled' /\ LastRequestWins'
<1>1. /\ impl # None /\ impl \in Impl
      /\ impl' = [impl EXCEPT !.child = "dead"]
      /\ UNCHANGED <<mode, disabled, user, next, last, retry, calls, raced>>
  BY DEF Crash, JInv, IInv, TypeOK
<1>2. /\ impl' \in Impl /\ impl'.command = impl.command
      /\ impl'.expecting = impl.expecting /\ impl'.child = "dead"
  BY <1>1 DEF Impl
<1>3. impl' # None
  BY <1>2, NoneAssumption
<1>4. Settled'
  BY <1>1, <1>2, <1>3
  DEF JInv, Settled, LastIsChild, TimerSettled, ReapedRaced, OnStack
<1>5. Surviving' = Surviving
  BY <1>1, <1>2, <1>3 DEF Surviving
<1>6. LastRequestWins'
  BY <1>1, <1>5 DEF JInv, LastRequestWins
<1>7. QED
  BY <1>4, <1>6

\* The retry starts the command that was asked for, unless it raced with a start.
LEMMA RetrySettles ==
  ASSUME JInv, RetryExpires \/ RetryFires
  PROVE  Settled' /\ LastRequestWins'
<1>1. retry \in Timer
  BY DEF JInv, IInv, TypeOK
<1>2. CASE RetryExpires
  <2>1. /\ retry.state = "armed" /\ retry' = [retry EXCEPT !.state = "due"]
        /\ UNCHANGED <<mode, disabled, user, impl, next, last, calls, raced>>
    BY <1>2 DEF RetryExpires
  <2>2. impl = None
    BY <2>1 DEF JInv, Settled, TimerSettled
  <2>3. retry'.command = retry.command
    BY <1>1, <2>1 DEF Timer
  <2>4. Settled'
    BY <2>1, <2>2 DEF Settled, LastIsChild, TimerSettled, ReapedRaced, OnStack
  <2>5. Surviving' = Surviving
    BY <2>1, <2>2, <2>3 DEF Surviving
  <2>6. LastRequestWins'
    BY <2>1, <2>5 DEF JInv, LastRequestWins
  <2>7. QED
    BY <2>4, <2>6
<1>3. CASE RetryFires
  <2>1. /\ retry.state = "due" /\ retry' = Idle
        /\ UNCHANGED <<mode, disabled, user, raced>>
    BY <1>3 DEF RetryFires
  <2>2. retry'.state = "idle"
    BY <2>1 DEF Idle
  <2>3. CASE disabled
    <3>1. UNCHANGED <<impl, next, last, calls>>
      BY <1>3, <2>3 DEF RetryFires
    <3>2. Settled'
      BY <2>1, <2>2, <2>3, <3>1
      DEF JInv, Settled, LastIsChild, TimerSettled, ReapedRaced, OnStack
    <3>3. LastRequestWins'
      BY <2>1, <2>3 DEF LastRequestWins
    <3>4. QED
      BY <3>2, <3>3
  <2>4. CASE ~disabled
    <3>1. Replace(retry.command) /\ retry.command \in Command
      BY <1>1, <1>3, <2>1, <2>4 DEF RetryFires, Timer
    <3>2. /\ impl' # None
          /\ IF impl'.expecting THEN next' = retry.command
             ELSE impl'.command = retry.command
          /\ LastIsChild' /\ OnStack'
          /\ impl'.child = "reaped" => impl # None /\ impl.child = "reaped"
      BY <3>1, ReplaceSettles DEF JInv, IInv, Settled
    <3>3. TimerSettled'
      BY <2>2 DEF TimerSettled
    <3>4. impl # None => raced
      BY <2>1 DEF JInv, Settled, TimerSettled
    <3>5. ReapedRaced'
      BY <2>1, <3>2, <3>4 DEF ReapedRaced
    <3>6. impl = None => Surviving' = Surviving
      BY <3>2 DEF Surviving
    <3>7. LastRequestWins'
      BY <2>1, <3>4, <3>6 DEF JInv, LastRequestWins
    <3>8. QED
      BY <3>2, <3>3, <3>5, <3>7 DEF Settled
  <2>5. QED
    BY <2>3, <2>4
<1>4. QED
  BY <1>2, <1>3

\* The core that survives is the one asked for last, unless that request met an
\* exit under way (CoreProcess::start and the slots of the exit signals).
THEOREM CoreLastRequestWins == Spec => []LastRequestWins
<1>1. Init => JInv
  <2>1. Init => IInv
    BY InitInvariant
  <2>2. Init => Settled /\ LastRequestWins
    BY DEF Init, Settled, LastIsChild, TimerSettled, ReapedRaced, OnStack,
           LastRequestWins
  <2>3. QED
    BY <2>1, <2>2 DEF JInv
<1>2. JInv /\ [Next]_vars => JInv'
  <2>1. SUFFICES ASSUME JInv, [Next]_vars PROVE JInv'
    OBVIOUS
  <2>2. IInv'
    BY <2>1, StepInvariant DEF JInv
  <2>3. CASE UNCHANGED vars
    BY <2>1, <2>2, <2>3, IdleSettles DEF vars, JInv
  <2>4. CASE Next
    BY <2>1, <2>2, <2>4, RequestsSettle, OnExitSettles, PollDoneSettles,
       CrashSettles, RetrySettles DEF Next, JInv
  <2>5. QED
    BY <2>1, <2>3, <2>4
<1>3. JInv => LastRequestWins
  BY DEF JInv
<1>4. QED
  BY <1>1, <1>2, <1>3, PTL DEF Spec
=============================================================================
