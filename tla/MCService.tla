----------------------------- MODULE MCService -----------------------------
(***************************************************************************)
(* The parts of the service that share no state, side by side in one run:  *)
(* ServiceWorker, the streams of the cores and the connections under them, *)
(* and the three monitors.  part chooses the one that moves.               *)
(***************************************************************************)
EXTENDS Service, Streams, Framing, Status, Addresses, Reachability

VARIABLE part

MCVars == <<serviceVars, streamVars, frameVars, statusVars, addrVars, reachVars, part>>

MCInit ==
  /\ part \in {"worker", "streams", "frames", "status", "addresses", "reach"}
  /\ ServiceInit /\ StreamInit /\ FrameInit /\ StatusInit /\ AddressInit /\ ReachInit
  /\ part # "worker" => 1 \in cloud[1].screens
  /\ part # "frames" => kind = "router"
  /\ part # "addresses" => addr = 1 /\ cloudAddr = 1

Worker(A) ==
  part = "worker" /\ A /\ UNCHANGED <<streamVars, frameVars, statusVars, addrVars, reachVars, part>>
StreamPart(A) ==
  part = "streams" /\ A /\ UNCHANGED <<serviceVars, frameVars, statusVars, addrVars, reachVars, part>>
FramePart(A) ==
  part = "frames" /\ A /\ UNCHANGED <<serviceVars, streamVars, statusVars, addrVars, reachVars, part>>
StatusPart(A) ==
  part = "status" /\ A /\ UNCHANGED <<serviceVars, streamVars, frameVars, addrVars, reachVars, part>>
AddressPart(A) ==
  part = "addresses" /\ A /\ UNCHANGED <<serviceVars, streamVars, frameVars, statusVars, reachVars, part>>
ReachPart(A) ==
  part = "reach" /\ A /\ UNCHANGED <<serviceVars, streamVars, frameVars, statusVars, addrVars, part>>

MCNext ==
  \/ Worker(ServiceNext) \/ StreamPart(StreamNext) \/ FramePart(FrameNext)
  \/ StatusPart(StatusNext) \/ AddressPart(AddressNext) \/ ReachPart(ReachNext)

MCSpec ==
  /\ MCInit /\ [][MCNext]_MCVars
  /\ WF_MCVars(Worker(ServiceHandler))
  /\ WF_MCVars(StreamPart(StreamHandler))
  /\ WF_MCVars(FramePart(FrameHandler))
  /\ WF_MCVars(AddressPart(IpWebsocket))
  /\ WF_MCVars(AddressPart(IpCoroutine))
  /\ WF_MCVars(AddressPart(IpTaken))
=============================================================================
