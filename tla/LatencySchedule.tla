-------------------------- MODULE LatencySchedule --------------------------
(***************************************************************************)
(* Data synchronisation of a mapped DFG: when each node computes, and how  *)
(* long the RDU in front of each operand holds its data so that all the    *)
(* operands of a node arrive in the same cycle                             *)
(* (Mapping::latencySchedule, cgra-compiler/src/mapper/mapping.cpp).       *)
(*                                                                         *)
(* One step is one turn of a loop.  The latest the DFG can be is fixed     *)
(* first (bound), then the nodes of one longest path (path), then the      *)
(* others from the outputs backwards (rest); what an RDU cannot hold is a  *)
(* violation, which the mapper repairs or gives up on (vio).               *)
(*                                                                         *)
(* A node stands for the FU it is mapped to, an edge for the operand of    *)
(* its destination.  Every node reaches an output, so all are in topoNodes. *)
(***************************************************************************)
EXTENDS Integers, FiniteSets, Sequences

CONSTANTS
  Nodes, Edges,   \* edges are numbered
  edge,           \* edge -> [src, dst, dstPort]
  topoNodes,      \* the nodes, sources before destinations
  opLatency,      \* node -> cycles of its operation
  numOperands,    \* node -> operands of its FU
  RouteLats,      \* the routing latencies to start from
  Delays          \* the capacities of the RDUs to start from

Unset == -1

ASSUME GraphAssumption ==
  /\ IsFiniteSet(Nodes) /\ IsFiniteSet(Edges) /\ Edges \subseteq Nat
  /\ edge \in [Edges -> [src : Nodes, dst : Nodes, dstPort : Nat]]
  /\ opLatency \in [Nodes -> Nat] /\ numOperands \in [Nodes -> Nat]
  /\ RouteLats \subseteq [Edges -> Nat] /\ Delays \subseteq [Nodes -> Nat]

ASSUME TopoAssumption ==
  /\ topoNodes \in Seq(Nodes) /\ Len(topoNodes) > 0
  /\ \A n \in Nodes : \E k \in 1 .. Len(topoNodes) : topoNodes[k] = n
  /\ \A j, k \in 1 .. Len(topoNodes) : topoNodes[j] = topoNodes[k] => j = k
  /\ \A e \in Edges : \A j, k \in 1 .. Len(topoNodes) :
        topoNodes[j] = edge[e].src /\ topoNodes[k] = edge[e].dst => j < k

VARIABLES
  routeLat, maxDelay,   \* of the mapping, fixed
  phase,          \* the loop that runs: bound, path, rest, vio, done
  at,             \* the position in topoNodes
  lat,            \* node -> cycle its result is there
  maxLat,         \* node -> cycle its operands are to be there
  minLat,         \* node -> the earliest they may be there
  maxLatDfg,      \* _maxLat
  pathNode,       \* the node of the longest path that is next
  scheduled,      \* nodes whose latency is fixed
  delayUsed,      \* edge -> cycles its RDU holds it, or Unset
  totalDelayUsed, \* node -> cycles its RDUs hold together
  pending,        \* edges of the node just scheduled that get their delay
  vio             \* edge -> cycles missing, or Unset

vars == <<routeLat, maxDelay, phase, at, lat, maxLat, minLat, maxLatDfg, pathNode,
          scheduled, delayUsed, totalDelayUsed, pending, vio>>
---------------------------------------------------------------------------
InEdges(n)  == {e \in Edges : edge[e].dst = n}
OutEdges(n) == {e \in Edges : edge[e].src = n}

AtLeast(x, y) == IF x >= y THEN x ELSE y
AtMost(x, y)  == IF x <= y THEN x ELSE y

leftOps(n, used) == Cardinality(InEdges(n)) - Cardinality({e \in InEdges(n) : used[e] # Unset})

getAvailDelay(n, used, total) ==
  IF numOperands[n] < 2 \/ InEdges(n) = {} THEN 0
  ELSE (maxDelay[n] - total[n]) \div AtLeast(leftOps(n, used), 1)

\* When the data of an edge come to its RDU, and how long they have to wait.
Arrival(e)       == lat[edge[e].src] + routeLat[e]
delayRequired(e) == maxLat[edge[e].dst] - Arrival(e)

Assigned(e) == AtMost(delayRequired(e), getAvailDelay(edge[e].dst, delayUsed, totalDelayUsed))

EarliestIn(n, max, used, total) == AtLeast(max - getAvailDelay(n, used, total), 0)

\* An edge gets its delay, and the node behind it has less to give.
Assign(e) ==
  LET n == edge[e].dst
  IN  /\ delayUsed' = [delayUsed EXCEPT ![e] = Assigned(e)]
      /\ totalDelayUsed' = [totalDelayUsed EXCEPT ![n] = @ + Assigned(e)]
      /\ minLat' = [minLat EXCEPT ![n] = EarliestIn(n, maxLat[n], delayUsed', totalDelayUsed')]
---------------------------------------------------------------------------
Init ==
  /\ routeLat \in RouteLats /\ maxDelay \in Delays
  /\ phase = "bound" /\ at = 1
  /\ lat = [n \in Nodes |-> 0] /\ maxLat = [n \in Nodes |-> 0] /\ minLat = [n \in Nodes |-> 0]
  /\ maxLatDfg = 0 /\ pathNode = topoNodes[1]
  /\ scheduled = {} /\ pending = {}
  /\ delayUsed = [e \in Edges |-> Unset] /\ vio = [e \in Edges |-> Unset]
  /\ totalDelayUsed = [n \in Nodes |-> 0]

LatestOf(l) == AtLeast(maxLatDfg, l)

\* latencyBound: as soon as possible, in topological order.
Bound ==
  /\ phase = "bound" /\ at <= Len(topoNodes)
  /\ LET n    == topoNodes[at]
         ins  == {Arrival(e) : e \in InEdges(n)} \cup {0}
     IN  \E latest \in ins :
           /\ \A x \in ins : x <= latest
           /\ lat' = [lat EXCEPT ![n] = latest + opLatency[n]]
           /\ maxLatDfg' = LatestOf(latest + opLatency[n])
           /\ pathNode' = IF latest + opLatency[n] >= maxLatDfg THEN n ELSE pathNode
  /\ at' = at + 1
  /\ UNCHANGED <<routeLat, maxDelay, phase, maxLat, minLat, scheduled, delayUsed,
                 totalDelayUsed, pending, vio>>

BoundDone ==
  /\ phase = "bound" /\ at > Len(topoNodes)
  /\ phase' = "path" /\ scheduled' = {pathNode}
  /\ UNCHANGED <<routeLat, maxDelay, at, lat, maxLat, minLat, maxLatDfg, pathNode,
                 delayUsed, totalDelayUsed, pending, vio>>

\* An edge whose data come when the earliest latency of its destination says.
OnTime(e) == Arrival(e) = lat[edge[e].dst] - opLatency[edge[e].dst]

\* The longest path, backwards: the first operand on time needs no delay.
Path ==
  /\ phase = "path"
  /\ \E e \in InEdges(pathNode) :
       /\ OnTime(e)
       /\ \A f \in InEdges(pathNode) : OnTime(f) => edge[e].dstPort <= edge[f].dstPort
       /\ scheduled' = scheduled \cup {edge[e].src}
       /\ delayUsed' = [delayUsed EXCEPT ![e] = 0]
       /\ maxLat' = [maxLat EXCEPT ![pathNode] = lat[pathNode] - opLatency[pathNode]]
       /\ minLat' = [minLat EXCEPT ![pathNode] =
                       EarliestIn(pathNode, maxLat'[pathNode], delayUsed', totalDelayUsed)]
       /\ pathNode' = edge[e].src
  /\ UNCHANGED <<routeLat, maxDelay, phase, at, lat, maxLatDfg, totalDelayUsed, pending, vio>>

\* The path has come to a node without operands.
PathDone ==
  /\ phase = "path" /\ \A e \in InEdges(pathNode) : ~OnTime(e)
  /\ maxLat' = [maxLat EXCEPT ![pathNode] = lat[pathNode] - opLatency[pathNode]]
  /\ minLat' = [minLat EXCEPT ![pathNode] =
                  EarliestIn(pathNode, maxLat'[pathNode], delayUsed, totalDelayUsed)]
  /\ phase' = "rest" /\ at' = Len(topoNodes)
  /\ UNCHANGED <<routeLat, maxDelay, lat, maxLatDfg, pathNode, scheduled, delayUsed,
                 totalDelayUsed, pending, vio>>

\* Mutant of Ready: the sources of a node are waited for too.
Bug_Ready(n) ==
  /\ n \notin scheduled
  /\ \A e \in OutEdges(n) : edge[e].dst \in scheduled
  /\ \A e \in InEdges(n) : edge[e].src \in scheduled

Ready(n) == n \notin scheduled /\ \A e \in OutEdges(n) : edge[e].dst \in scheduled

\* Mutant of IsTarget: as late as one of the users needs it, not all of them.
Bug_IsTarget(n, t) ==
  IF OutEdges(n) = {} THEN t = lat[n]
  ELSE LET los == {minLat[edge[e].dst] - routeLat[e] : e \in OutEdges(n)}
       IN  \E lo \in los : (\A x \in los : x <= lo) /\ t = AtLeast(lat[n], lo)

\* As late as the users of the node need it at the earliest, for all of them.
IsTarget(n, t) ==
  IF OutEdges(n) = {} THEN t = lat[n]
  ELSE LET his == {maxLat[edge[e].dst] - routeLat[e] : e \in OutEdges(n)}
           los == {minLat[edge[e].dst] - routeLat[e] : e \in OutEdges(n)} \cup {0}
       IN  \E hi \in his, lo \in los :
             /\ \A x \in his : hi <= x
             /\ \A x \in los : x <= lo
             /\ t = AtLeast(lat[n], AtMost(hi, lo))

Targets(n) == {lat[n]} \cup {maxLat[edge[e].dst] - routeLat[e] : e \in OutEdges(n)}
                       \cup {minLat[edge[e].dst] - routeLat[e] : e \in OutEdges(n)} \cup {0}

\* Mutant of Schedule: the operands are timed by the latency before the change.
Bug_Schedule(n) ==
  /\ \E t \in Targets(n) :
       /\ IsTarget(n, t)
       /\ lat' = [lat EXCEPT ![n] = t]
       /\ maxLat' = [maxLat EXCEPT ![n] = lat[n] - opLatency[n]]
       /\ minLat' = [minLat EXCEPT ![n] =
                       EarliestIn(n, lat[n] - opLatency[n], delayUsed, totalDelayUsed)]
  /\ scheduled' = scheduled \cup {n}
  /\ pending' = {e \in InEdges(n) : edge[e].src \in scheduled} \cup OutEdges(n)

Schedule(n) ==
  /\ \E t \in Targets(n) :
       /\ IsTarget(n, t)
       /\ lat' = [lat EXCEPT ![n] = t]
       /\ maxLat' = [maxLat EXCEPT ![n] = t - opLatency[n]]
       /\ minLat' = [minLat EXCEPT ![n] =
                       EarliestIn(n, t - opLatency[n], delayUsed, totalDelayUsed)]
  /\ scheduled' = scheduled \cup {n}
  /\ pending' = {e \in InEdges(n) : edge[e].src \in scheduled} \cup OutEdges(n)

\* One node of the list of those not scheduled, from the outputs backwards.
Visit ==
  /\ phase = "rest" /\ pending = {} /\ ~(Nodes \subseteq scheduled)
  /\ LET n == topoNodes[at]
     IN  \/ Ready(n) /\ Schedule(n)
         \/ ~Ready(n) /\ UNCHANGED <<lat, maxLat, minLat, scheduled, pending>>
  /\ at' = IF at = 1 THEN Len(topoNodes) ELSE at - 1
  /\ UNCHANGED <<routeLat, maxDelay, phase, maxLatDfg, pathNode, delayUsed, totalDelayUsed, vio>>

\* The order of the loops over edges: operands first, then users.
Sooner(e, f) ==
  LET n == topoNodes[IF at = Len(topoNodes) THEN 1 ELSE at + 1]
  IN  \/ edge[e].dst = n /\ edge[f].dst # n
      \/ edge[e].dst = n /\ edge[f].dst = n /\ edge[e].dstPort <= edge[f].dstPort
      \/ edge[e].dst # n /\ edge[f].dst # n /\ e <= f

AssignNext ==
  /\ phase = "rest"
  /\ \E e \in pending :
       /\ \A f \in pending : Sooner(e, f)
       /\ Assign(e)
       /\ pending' = pending \ {e}
  /\ UNCHANGED <<routeLat, maxDelay, phase, at, lat, maxLat, maxLatDfg, pathNode, scheduled, vio>>

RestDone ==
  /\ phase = "rest" /\ pending = {} /\ Nodes \subseteq scheduled
  /\ phase' = "vio" /\ at' = 1
  /\ UNCHANGED <<routeLat, maxDelay, lat, maxLat, minLat, maxLatDfg, pathNode, scheduled,
                 delayUsed, totalDelayUsed, pending, vio>>

\* calEdgeLatVio: edges without a delay get one; what is missing is counted.
CheckEdge ==
  /\ phase = "vio" /\ at <= Len(topoNodes)
  /\ \E e \in InEdges(topoNodes[at]) :
       /\ vio[e] = Unset
       /\ \A f \in InEdges(topoNodes[at]) : vio[f] = Unset => edge[e].dstPort <= edge[f].dstPort
       /\ \/ delayUsed[e] = Unset /\ Assign(e)
          \/ delayUsed[e] # Unset /\ UNCHANGED <<delayUsed, totalDelayUsed, minLat>>
       /\ vio' = [vio EXCEPT ![e] = delayRequired(e) - delayUsed'[e]]
  /\ UNCHANGED <<routeLat, maxDelay, phase, at, lat, maxLat, maxLatDfg, pathNode, scheduled, pending>>

CheckNext ==
  /\ phase = "vio" /\ at <= Len(topoNodes) /\ \A e \in InEdges(topoNodes[at]) : vio[e] # Unset
  /\ at' = at + 1
  /\ phase' = IF at = Len(topoNodes) THEN "done" ELSE "vio"
  /\ UNCHANGED <<routeLat, maxDelay, lat, maxLat, minLat, maxLatDfg, pathNode, scheduled,
                 delayUsed, totalDelayUsed, pending, vio>>

Next == \/ Bound \/ BoundDone \/ Path \/ PathDone \/ Visit \/ AssignNext \/ RestDone
        \/ CheckEdge \/ CheckNext

Spec == Init /\ [][Next]_vars
---------------------------------------------------------------------------
(***************************************************************************)
(* The delay an operand is given never exceeds what it has to wait, nor is *)
(* it negative (the assertion at mapping.cpp:1285), and an FU never gives  *)
(* more than it has: though latencies move while delays are handed out,    *)
(* from both ends of an edge and in three loops.                           *)
(***************************************************************************)
DelaysFit ==
  /\ \A e \in Edges : delayUsed[e] # Unset => 0 <= delayUsed[e] /\ delayUsed[e] <= delayRequired(e)
  /\ \A n \in Nodes : 0 <= totalDelayUsed[n] /\ totalDelayUsed[n] <= maxDelay[n]

(***************************************************************************)
(* Scheduling moves nodes later to save delay, but never beyond the        *)
(* latency of the DFG that latencyBound found, which the objective and the *)
(* messages report (mapping.cpp:1048-1075, 1164-1170).                     *)
(***************************************************************************)
NoLonger == phase # "bound" => \A n \in Nodes : lat[n] <= maxLatDfg

(***************************************************************************)
(* With no violation left, all the data of a node come out of their RDUs   *)
(* in the same cycle, the one its own latency counts from; the mapper takes *)
(* such a mapping for done (mapper_sa.cpp:143).                            *)
(***************************************************************************)
Synchronised ==
  phase = "done" /\ (\A e \in Edges : vio[e] = 0) =>
    \A e \in Edges : Arrival(e) + delayUsed[e] = lat[edge[e].dst] - opLatency[edge[e].dst]

(***************************************************************************)
(* The loop over the nodes not scheduled ends, which it does only as each  *)
(* of them has all its users scheduled at some time (mapping.cpp:1139).    *)
(***************************************************************************)
Terminates == <>(phase = "done")
=============================================================================
