------------------------------ MODULE HttpJobs ------------------------------
(***************************************************************************)
(* The HTTP jobs of the service: CloudClient's queues, one per category,   *)
(* HttpSession with the request it has set up, and the SecuredTcpClient    *)
(* below it, which may connect through a proxy (ProxyClient).              *)
(*                                                                         *)
(* At most one asynchronous operation is under way (op).  A job is the     *)
(* number it was given when it was added.  A connection attempt can end    *)
(* without a callback: silent records that.                                *)
(*                                                                         *)
(* External: the cloud acts on a request before it answers, and on none    *)
(* whose connection has gone.                                              *)
(***************************************************************************)
EXTENDS Integers, Sequences

CONSTANTS
  Category,    \* JobCategories; the lower number goes first
  MaxJobs,     \* bound: jobs
  MaxFaults,   \* bound: failures of the network or the cloud
  MaxProxies   \* bound: changes of the proxy

ASSUME CategoryAssumption == Category \subseteq Nat \ {0}
ASSUME HttpBoundAssumption ==
  MaxJobs \in Nat /\ MaxFaults \in Nat /\ MaxProxies \in Nat

VARIABLES
  queues,    \* m_httpJobQueues
  current,   \* m_currentJobQueueIndex, 0 before the first request
  client,    \* m_tcpClient: "none", "connecting", "open", or "broken": it is kept
             \* but its socket is closed or was never connected
  proxied,   \* is a proxy configured (m_httpProxy), is the client's connection
  op,        \* the operation under way: "none", "connect", "write", "read"
  request,   \* the job in m_request, 0 before the first
  reply,     \* what the cloud has answered: "none", "ok", "refused"
  leftover,  \* part of an earlier response is in m_readBuffer
  acted,     \* the job of each category the cloud acted on last
  silent,    \* history: a connection attempt ended without a callback
  jobs, faults, proxies  \* how much of each bound is used

httpVars == <<queues, current, client, proxied, op, request, reply,
              leftover, acted, silent, jobs, faults, proxies>>

HttpTypeOK ==
  /\ queues \in [Category -> Seq(Nat \ {0})]
  /\ current \in Category \union {0}
  /\ client \in {"none", "connecting", "open", "broken"}
  /\ proxied \in [set : BOOLEAN, client : BOOLEAN]
  /\ op \in {"none", "connect", "write", "read"}
  /\ request \in Nat
  /\ reply \in {"none", "ok", "refused"}
  /\ leftover \in BOOLEAN /\ silent \in BOOLEAN
  /\ acted \in [Category -> Nat]
  /\ jobs \in 0..MaxJobs /\ faults \in 0..MaxFaults /\ proxies \in 0..MaxProxies

HttpInit ==
  /\ queues = [c \in Category |-> <<>>]
  /\ current = 0
  /\ client = "none"
  /\ proxied = [set |-> FALSE, client |-> FALSE]
  /\ op = "none"
  /\ request = 0
  /\ reply = "none"
  /\ leftover = FALSE
  /\ acted = [c \in Category |-> 0]
  /\ silent = FALSE
  /\ jobs = 0 /\ faults = 0 /\ proxies = 0

-----------------------------------------------------------------------------
(* What the handlers do *)

NoJob(q) == \A c \in Category : q[c] = <<>>

\* PriorityJobQueues::nextJob: the first queue with a job.
NextQueue(q) ==
  CHOOSE c \in Category : q[c] # <<>> /\ \A d \in Category : d < c => q[d] = <<>>

\* HttpSession::send, the client being c before it and f the faults so far.  Without
\* a client it makes one and connects; a host name that does not resolve is reported
\* at once, and the slot's sendNextHttp writes to the client that never connected.
Send(c, f) ==
  IF c # "none"
  THEN client' = c /\ op' = "write" /\ faults' = f /\ UNCHANGED proxied
  ELSE /\ proxied' = [proxied EXCEPT !.client = proxied.set]
       /\ \/ client' = "connecting" /\ op' = "connect" /\ faults' = f
          \/ client' = "broken" /\ op' = "write" /\ faults' = f + 1 /\ f < MaxFaults

\* CloudClient::sendNextHttp, q being the queues.  setupRequest clears the response.
SendNextHttp(q, c, f) ==
  /\ reply' = "none"
  /\ IF NoJob(q)
     THEN client' = c /\ op' = "none" /\ faults' = f /\ UNCHANGED <<current, request, proxied>>
     ELSE /\ current' = NextQueue(q)
          /\ request' = Head(q[NextQueue(q)])
          /\ Send(c, f)

\* The slot of requestFailed: the job stays at the head of its queue.
RequestFailedGivesUp(c, f) ==
  /\ client' = c /\ op' = "none" /\ reply' = "none" /\ faults' = f
  /\ UNCHANGED <<queues, current, request, proxied>>
RequestFailed(c, f) ==
  SendNextHttp(queues, c, f) /\ UNCHANGED queues

\* PriorityJobQueues::popJob: the front of the current queue goes.
PopNextQueue == queues' = [queues EXCEPT ![NextQueue(queues)] = Tail(@)]
PopJob == queues' = [queues EXCEPT ![current] = Tail(@)]

\* The slot of responseReceived.  retryTimes is 0 in every job, so one the cloud
\* refuses is dropped like one it accepts.
ResponseReceived == PopJob /\ SendNextHttp(queues', client, faults)

-----------------------------------------------------------------------------
(* Steps *)

\* claimServer, updateScreenIpList, updateScreenStatus: addHttpJob.  A request is
\* sent at once only when the job is the only one.
AddHttpJob(c) ==
  /\ jobs < MaxJobs
  /\ jobs' = jobs + 1
  /\ queues' = [queues EXCEPT ![c] = Append(@, jobs + 1)]
  /\ IF NoJob(queues)
     THEN SendNextHttp(queues', client, faults)
     ELSE UNCHANGED <<current, request, reply, client, proxied, op, faults>>
  /\ UNCHANGED <<leftover, acted, silent, proxies>>

\* onSslHandshakeFinished, onTcpClientConnected: sendRequest.
ConnectDone ==
  /\ op = "connect"
  /\ client' = "open" /\ op' = "write"
  /\ UNCHANGED <<queues, current, proxied, request, reply, leftover, acted, silent,
                 jobs, faults, proxies>>

\* connectFailed: the session keeps the client, so the next request is written to a
\* socket that never connected.
ConnectFails ==
  /\ op = "connect" /\ faults < MaxFaults
  /\ RequestFailed("broken", faults + 1)
  /\ UNCHANGED <<leftover, acted, silent, jobs, proxies>>

\* ProxyClient's connect_handler drops the error of a proxy that cannot be reached.
ProxyUnreachable ==
  /\ op = "connect" /\ proxied.client /\ faults < MaxFaults
  /\ client' = "broken" /\ op' = "none" /\ silent' = TRUE /\ faults' = faults + 1
  /\ UNCHANGED <<queues, current, proxied, request, reply, leftover, acted, jobs,
                 proxies>>

\* onWriteFinished.
WriteDone ==
  /\ op = "write" /\ client = "open"
  /\ op' = "read"
  /\ UNCHANGED <<queues, current, client, proxied, request, reply, leftover, acted,
                 silent, jobs, faults, proxies>>

WriteFailsKeepsClient ==
  /\ op = "write"
  /\ \/ client = "broken" /\ RequestFailed("broken", faults)
     \/ client = "open" /\ faults < MaxFaults /\ RequestFailed("broken", faults + 1)
  /\ UNCHANGED <<leftover, acted, silent, jobs, proxies>>
WriteFails ==
  /\ op = "write"
  /\ \/ client = "broken" /\ RequestFailed("none", faults)
     \/ client = "open" /\ faults < MaxFaults /\ RequestFailed("none", faults + 1)
  /\ UNCHANGED <<leftover, acted, silent, jobs, proxies>>

\* External: the cloud takes a request that was written in full, and answers.
CloudActs ==
  /\ op = "read" /\ client = "open" /\ reply = "none"
  /\ acted' = [acted EXCEPT ![current] = request]
  /\ \/ reply' = "ok" /\ UNCHANGED faults
     \/ reply' = "refused" /\ faults < MaxFaults /\ faults' = faults + 1
  /\ UNCHANGED <<queues, current, client, proxied, op, request, leftover, silent,
                 jobs, proxies>>

\* onReadFinished with a response.
ReadDone ==
  /\ op = "read" /\ reply # "none" /\ ~leftover
  /\ ResponseReceived
  /\ UNCHANGED <<leftover, acted, silent, jobs, proxies>>

\* onReadFinished with an error: the connection broke, before or after the cloud
\* acted.  What had arrived of the response's header stays in m_readBuffer.
ReadFails ==
  /\ op = "read"
  /\ \/ client = "broken" /\ RequestFailed("none", faults)
     \/ client = "open" /\ faults < MaxFaults /\ RequestFailed("none", faults + 1)
  /\ \/ UNCHANGED leftover
     \/ reply # "none" /\ leftover' = TRUE
  /\ UNCHANGED <<acted, silent, jobs, proxies>>

\* onReadFinished with the error of the parser, which met the end of an old header
\* before the new response; it may have consumed it.
ReadGarbled ==
  /\ op = "read" /\ reply # "none" /\ leftover
  /\ RequestFailed("none", faults)
  /\ leftover' \in BOOLEAN
  /\ UNCHANGED <<acted, silent, jobs, proxies>>

\* CloudClient::setProxy with another proxy.  The socket of a client is closed; an
\* attempt to connect ends as aborted, which is not reported, unless it is still
\* resolving the proxy's name.
SetProxy ==
  /\ proxies < MaxProxies
  /\ proxies' = proxies + 1
  /\ proxied' = [proxied EXCEPT !.set = ~@]
  /\ \/ client = "none" /\ UNCHANGED <<client, op, silent>>
     \/ op = "connect" /\ client' = "broken" /\ op' = "none" /\ silent' = TRUE
     \/ op = "connect" /\ proxied.client /\ UNCHANGED <<client, op, silent>>
     \/ client # "none" /\ op # "connect" /\ client' = "broken" /\ UNCHANGED <<op, silent>>
  /\ UNCHANGED <<queues, current, request, reply, leftover, acted, jobs, faults>>

-----------------------------------------------------------------------------
\* The handlers io_service::run calls, and the cloud's answer.
Handler ==
  \/ ConnectDone \/ ConnectFails \/ ProxyUnreachable \/ WriteDone \/ WriteFails
  \/ CloudActs \/ ReadDone \/ ReadFails \/ ReadGarbled

HttpNext == Handler \/ SetProxy \/ \E c \in Category : AddHttpJob(c)

HttpSpec == HttpInit /\ [][HttpNext]_httpVars /\ WF_httpVars(Handler)

-----------------------------------------------------------------------------
(* Properties *)

Board == INSTANCE JobBoard WITH waiting <- queues, given <- jobs

\* No job is stranded: while a job waits a request is under way for the job at the head
\* of the current queue, except after an attempt to connect ended without a callback.
\* addHttpJob starts a request only when the queues were empty, so a chain that stops
\* once stops for good.
JobsMoving ==
  IF NoJob(queues) THEN op = "none"
  ELSE IF op = "none" THEN silent ELSE request = Head(queues[current])

\* The session implements the board: jobs of one category reach the cloud in the order
\* they were added, none leaves before the cloud acted on it, and one whose answer was
\* lost is acted on again, whatever breaks in between.
ImplementsBoard == Board!BoardSpec

\* Every job is answered in the end, unless an attempt to connect ended silently or the
\* rest of a torn response is in m_readBuffer, which no error clears.
JobsAnswered == ~NoJob(queues) ~> (NoJob(queues) \/ silent \/ leftover)
=============================================================================
