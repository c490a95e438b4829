----------------------- MODULE LatencyScheduleProofs -----------------------
(***************************************************************************)
(* For every DFG, every routing and every size of the RDUs: the assertion  *)
(* of calEdgeLatVio holds, scheduling does not make the DFG longer, and a  *)
(* schedule without violations is one in which all operands meet.          *)
(*                                                                         *)
(* What carries the argument is that the bound found first stays feasible  *)
(* whatever moves later (Feasible), that the time of the operands of a     *)
(* node is settled before anything is assigned to them (Settled, and on    *)
(* the longest path PathFirst), and that a delay is given between nodes    *)
(* that no longer move (Given).                                            *)
(***************************************************************************)
EXTENDS LatencySchedule, FiniteSetTheorems, TLAPS

TypeInv ==
  /\ routeLat \in [Edges -> Nat] /\ maxDelay \in [Nodes -> Nat]
  /\ phase \in {"bound", "path", "rest", "vio", "done"}
  /\ at \in 1 .. (Len(topoNodes) + 1) /\ (phase = "rest" => at <= Len(topoNodes))
  /\ lat \in [Nodes -> Nat] /\ maxLat \in [Nodes -> Int] /\ minLat \in [Nodes -> Int]
  /\ maxLatDfg \in Int /\ pathNode \in Nodes
  /\ scheduled \subseteq Nodes /\ pending \subseteq Edges
  /\ delayUsed \in [Edges -> Int] /\ vio \in [Edges -> Int]
  /\ totalDelayUsed \in [Nodes -> Int]

\* The data of an edge can be there when its destination needs them.
InTime(e) == lat[edge[e].src] + routeLat[e] <= lat[edge[e].dst] - opLatency[edge[e].dst]

\* ... once the bound of the destination is known.
Feasible ==
  \A e \in Edges : \A k \in 1 .. Len(topoNodes) :
    topoNodes[k] = edge[e].dst /\ (phase = "bound" => k < at) => InTime(e)

Late == \A n \in Nodes : lat[n] <= maxLatDfg

Settled ==
  \A n \in scheduled : (phase = "path" => n # pathNode) => maxLat[n] = lat[n] - opLatency[n]

\* On the longest path, delays are given behind the current node only.
PathFirst ==
  phase = "path" =>
    \A e \in Edges : \A j, k \in 1 .. Len(topoNodes) :
      delayUsed[e] # Unset /\ topoNodes[j] = pathNode /\ topoNodes[k] = edge[e].dst => j < k

Given ==
  \A e \in Edges : delayUsed[e] # Unset =>
    /\ edge[e].src \in scheduled /\ edge[e].dst \in scheduled
    /\ 0 <= delayUsed[e]
    /\ delayUsed[e] <= lat[edge[e].dst] - opLatency[edge[e].dst] - Arrival(e)

Budget == \A n \in Nodes : 0 <= totalDelayUsed[n] /\ totalDelayUsed[n] <= maxDelay[n]

Phases ==
  /\ phase = "bound" => scheduled = {} /\ \A e \in Edges : delayUsed[e] = Unset
  /\ phase = "path" => pathNode \in scheduled
  /\ phase # "rest" => pending = {}
  /\ phase \in {"vio", "done"} => Nodes \subseteq scheduled
  /\ \A e \in pending : edge[e].src \in scheduled /\ edge[e].dst \in scheduled

Counted ==
  \A e \in Edges : vio[e] # Unset =>
    /\ phase \in {"vio", "done"} /\ delayUsed[e] # Unset
    /\ vio[e] = delayRequired(e) - delayUsed[e]

IInv == /\ TypeInv /\ Feasible /\ Late /\ Settled /\ PathFirst
        /\ Given /\ Budget /\ Phases /\ Counted
---------------------------------------------------------------------------
LEMMA DivLess == ASSUME NEW x \in Nat, NEW k \in Nat \ {0} PROVE x \div k \in 0 .. x
<1>. DEFINE q == x \div k
<1>1. k >= 1 /\ x >= 0
  OBVIOUS
<1>2. q \in Int /\ x = k * q + (x % k) /\ x % k >= 0 /\ x % k < k
  OBVIOUS
<1>3. q >= 0
  BY <1>1, <1>2
<1>4. k * q >= q
  BY <1>1, <1>2, <1>3
<1>. QED
  BY <1>1, <1>2, <1>3, <1>4

\* The ends of an edge are nodes, its source comes first.
LEMMA Ends ==
  ASSUME NEW e \in Edges
  PROVE  /\ edge[e].src \in Nodes /\ edge[e].dst \in Nodes
         /\ edge[e].src # edge[e].dst
         /\ \E j, k \in 1 .. Len(topoNodes) :
               topoNodes[j] = edge[e].src /\ topoNodes[k] = edge[e].dst /\ j < k
<1>1. edge[e].src \in Nodes /\ edge[e].dst \in Nodes
  BY GraphAssumption
<1>2. PICK j \in 1 .. Len(topoNodes) : topoNodes[j] = edge[e].src
  BY <1>1, TopoAssumption
<1>3. PICK k \in 1 .. Len(topoNodes) : topoNodes[k] = edge[e].dst
  BY <1>1, TopoAssumption
<1>4. j < k
  BY <1>2, <1>3, TopoAssumption
<1>5. edge[e].src # edge[e].dst
  <2>1. SUFFICES ASSUME edge[e].src = edge[e].dst PROVE FALSE
    OBVIOUS
  <2>2. j < j
    BY <1>2, <2>1, TopoAssumption
  <2>. QED
    BY <2>2
<1>. QED
  BY <1>1, <1>2, <1>3, <1>4, <1>5

\* An FU never offers more than it has left.
LEMMA AvailBound ==
  ASSUME NEW n \in Nodes, NEW used, NEW total \in [Nodes -> Int],
         maxDelay \in [Nodes -> Nat], 0 <= total[n], total[n] <= maxDelay[n]
  PROVE  getAvailDelay(n, used, total) \in 0 .. (maxDelay[n] - total[n])
<1>. DEFINE ins == InEdges(n)
            set == {e \in ins : used[e] # Unset}
            k   == AtLeast(Cardinality(ins) - Cardinality(set), 1)
<1>1. IsFiniteSet(ins) /\ IsFiniteSet(set)
  BY FS_Subset, GraphAssumption DEF InEdges
<1>2. Cardinality(ins) \in Nat /\ Cardinality(set) \in Nat
  BY <1>1, FS_CardinalityType
<1>3. k \in Nat \ {0}
  <2>. HIDE DEF ins, set
  <2>. QED
    BY <1>2 DEF AtLeast
<1>4. maxDelay[n] - total[n] \in Nat
  OBVIOUS
<1>5. (maxDelay[n] - total[n]) \div k \in 0 .. (maxDelay[n] - total[n])
  <2>. HIDE DEF k
  <2>. QED
    BY <1>3, <1>4, DivLess
<1>6. getAvailDelay(n, used, total) =
        IF numOperands[n] < 2 \/ ins = {} THEN 0 ELSE (maxDelay[n] - total[n]) \div k
  BY DEF getAvailDelay, leftOps
<1>. HIDE DEF k, ins
<1>. QED
  BY <1>4, <1>5, <1>6
---------------------------------------------------------------------------
LEMMA Positions ==
  /\ Len(topoNodes) \in Nat \ {0}
  /\ \A k \in 1 .. Len(topoNodes) : topoNodes[k] \in Nodes /\ opLatency[topoNodes[k]] \in Nat
<1>1. topoNodes \in Seq(Nodes) /\ Len(topoNodes) > 0
  BY TopoAssumption
<1>2. Len(topoNodes) \in Nat /\ \A k \in 1 .. Len(topoNodes) : topoNodes[k] \in Nodes
  BY <1>1
<1>. QED
  BY <1>1, <1>2, GraphAssumption

LEMMA ArrivalType == ASSUME TypeInv, NEW e \in Edges PROVE Arrival(e) \in Nat
<1>1. edge[e].src \in Nodes
  BY Ends
<1>2. lat[edge[e].src] \in Nat /\ routeLat[e] \in Nat
  BY <1>1 DEF TypeInv
<1>. QED
  BY <1>2 DEF Arrival

LEMMA InitIInv == Init => IInv
<1>. SUFFICES ASSUME Init PROVE IInv
  OBVIOUS
<1>1. Len(topoNodes) \in Nat \ {0} /\ topoNodes[1] \in Nodes
  BY Positions
<1>2. TypeInv
  BY <1>1, GraphAssumption DEF Init, TypeInv, Unset
<1>3. Late /\ Settled /\ PathFirst /\ Given /\ Phases /\ Counted
  BY DEF Init, Late, Settled, PathFirst, Given, Phases, Counted, Unset
<1>4. Budget
  BY <1>2 DEF Init, Budget, TypeInv
<1>5. Feasible
  BY <1>1 DEF Init, Feasible
<1>. QED
  BY <1>2, <1>3, <1>4, <1>5 DEF IInv

LEMMA BoundStep == ASSUME IInv, Bound PROVE IInv'
<1>. DEFINE n   == topoNodes[at]
            ins == {Arrival(e) : e \in InEdges(n)} \cup {0}
<1>. USE DEF IInv
<1>1. /\ phase = "bound" /\ at \in 1 .. Len(topoNodes)
      /\ n \in Nodes /\ opLatency[n] \in Nat /\ Len(topoNodes) \in Nat
  <2>1. phase = "bound" /\ at \in 1 .. Len(topoNodes) /\ Len(topoNodes) \in Nat
    BY Positions DEF Bound, TypeInv
  <2>. QED
    BY <2>1, Positions
<1>2. PICK latest \in ins :
        /\ \A x \in ins : x <= latest
        /\ lat' = [lat EXCEPT ![n] = latest + opLatency[n]]
        /\ maxLatDfg' = LatestOf(latest + opLatency[n])
        /\ pathNode' = IF latest + opLatency[n] >= maxLatDfg THEN n ELSE pathNode
  BY DEF Bound
<1>3. \A e \in Edges : Arrival(e) \in Nat
  BY ArrivalType
<1>4. latest \in Nat
  <2>1. latest = 0 \/ \E e \in Edges : latest = Arrival(e)
    BY <1>2 DEF InEdges
  <2>. QED
    BY <2>1, <1>3
<1>. HIDE DEF ins, n
<1>5. TypeInv'
  <2>1. lat' \in [Nodes -> Nat] /\ pathNode' \in Nodes
    BY <1>1, <1>2, <1>4, SMTT(30) DEF TypeInv
  <2>2. maxLatDfg' \in Int
    BY <1>1, <1>2, <1>4, SMTT(30) DEF TypeInv, LatestOf, AtLeast
  <2>3. at' \in 1 .. (Len(topoNodes) + 1)
    BY <1>1 DEF Bound
  <2>. QED
    BY <2>1, <2>2, <2>3, <1>1 DEF Bound, TypeInv
<1>6. Late'
  <2>1. maxLatDfg' >= maxLatDfg /\ maxLatDfg' >= latest + opLatency[n]
    BY <1>1, <1>2, <1>4 DEF LatestOf, AtLeast, TypeInv
  <2>. SUFFICES ASSUME NEW m \in Nodes PROVE lat'[m] <= maxLatDfg'
    BY DEF Late
  <2>2. lat[m] \in Nat /\ lat[m] <= maxLatDfg /\ maxLatDfg \in Int /\ maxLatDfg' \in Int
    BY <1>5 DEF Late, TypeInv
  <2>3. lat'[m] = IF m = n THEN latest + opLatency[n] ELSE lat[m]
    BY <1>2 DEF TypeInv
  <2>. QED
    BY <2>1, <2>2, <2>3, <1>1, <1>4
<1>. USE DEF n, ins
<1>7. Feasible'
  <2>. SUFFICES ASSUME NEW e \in Edges, NEW k \in 1 .. Len(topoNodes),
                       topoNodes[k] = edge[e].dst, k < at + 1
                PROVE  InTime(e)'
    BY <1>1 DEF Feasible, Bound
  <2>1. edge[e].src \in Nodes /\ edge[e].dst \in Nodes /\ edge[e].src # edge[e].dst
    BY Ends
  <2>2. edge[e].src # n
    <3>1. SUFFICES ASSUME edge[e].src = n PROVE FALSE
      OBVIOUS
    <3>2. at < k
      BY <1>1, <3>1, TopoAssumption
    <3>. QED
      BY <3>2, <1>1
  <2>3. lat'[edge[e].src] = lat[edge[e].src]
    BY <2>1, <2>2, <1>2 DEF TypeInv
  <2>4. CASE k = at
    <3>1. e \in InEdges(n)
      BY <2>4 DEF InEdges
    <3>2. Arrival(e) <= latest
      BY <1>2, <3>1
    <3>3. lat'[edge[e].dst] = latest + opLatency[edge[e].dst]
      BY <2>4, <1>1, <1>2, <2>1 DEF TypeInv
    <3>. QED
      BY <3>2, <3>3, <2>3, <1>3, <1>4, <1>1, <2>4 DEF InTime, Arrival, Bound
  <2>5. CASE k # at
    <3>1. edge[e].dst # n
      BY <2>5, <1>1, TopoAssumption
    <3>2. InTime(e)
      BY <2>5, <1>1 DEF Feasible
    <3>3. lat'[edge[e].dst] = lat[edge[e].dst]
      BY <3>1, <2>1, <1>2 DEF TypeInv
    <3>. QED
      BY <3>2, <3>3, <2>3 DEF InTime, Bound
  <2>. QED
    BY <2>4, <2>5
<1>8. Settled' /\ PathFirst' /\ Given' /\ Phases' /\ Budget' /\ Counted'
  BY <1>1 DEF Bound, Settled, PathFirst, Given, Phases, Budget, Counted
<1>. QED
  BY <1>5, <1>6, <1>7, <1>8

LEMMA BoundDoneStep == ASSUME IInv, BoundDone PROVE IInv'
<1>. USE DEF IInv
<1>1. /\ phase = "bound" /\ phase' = "path" /\ at > Len(topoNodes)
      /\ Len(topoNodes) \in Nat /\ pathNode \in Nodes
  BY Positions DEF BoundDone, TypeInv
<1>2. TypeInv'
  BY <1>1 DEF BoundDone, TypeInv
<1>3. Feasible'
  <2>. SUFFICES ASSUME NEW e \in Edges, NEW k \in 1 .. Len(topoNodes), topoNodes[k] = edge[e].dst
                PROVE  InTime(e)'
    BY DEF Feasible
  <2>1. InTime(e)
    BY <1>1 DEF Feasible, TypeInv
  <2>. QED
    BY <2>1 DEF InTime, BoundDone
<1>4. Late' /\ Budget' /\ Settled' /\ PathFirst' /\ Given' /\ Phases'
  BY <1>1 DEF BoundDone, Late, Budget, Settled, PathFirst, Given, Phases
<1>5. Counted'
  BY <1>1 DEF BoundDone, Counted
<1>. QED
  BY <1>2, <1>3, <1>4, <1>5

LEMMA PathStep == ASSUME IInv, Path PROVE IInv'
<1>. USE DEF IInv
<1>1. phase = "path" /\ pathNode \in Nodes
  BY DEF Path, TypeInv
<1>2. PICK e \in InEdges(pathNode) :
        /\ OnTime(e)
        /\ scheduled' = scheduled \cup {edge[e].src}
        /\ delayUsed' = [delayUsed EXCEPT ![e] = 0]
        /\ maxLat' = [maxLat EXCEPT ![pathNode] = lat[pathNode] - opLatency[pathNode]]
        /\ minLat' = [minLat EXCEPT ![pathNode] =
                        EarliestIn(pathNode, maxLat'[pathNode], delayUsed', totalDelayUsed)]
        /\ pathNode' = edge[e].src
  BY DEF Path
<1>3. e \in Edges /\ edge[e].dst = pathNode
  BY DEF InEdges
<1>4. edge[e].src \in Nodes /\ edge[e].src # pathNode
  BY <1>3, Ends
<1>5. opLatency[pathNode] \in Nat /\ lat[pathNode] \in Nat
  BY <1>1, GraphAssumption DEF TypeInv
<1>6. TypeInv'
  <2>1. maxLat' \in [Nodes -> Int]
    BY <1>1, <1>2, <1>5 DEF TypeInv
  <2>2. maxLat'[pathNode] \in Int
    BY <2>1, <1>1
  <2>3. getAvailDelay(pathNode, delayUsed', totalDelayUsed) \in Int
    <3>1. maxDelay \in [Nodes -> Nat] /\ totalDelayUsed \in [Nodes -> Int]
          /\ 0 <= totalDelayUsed[pathNode] /\ totalDelayUsed[pathNode] <= maxDelay[pathNode]
      BY <1>1 DEF TypeInv, Budget
    <3>. QED
      BY <3>1, <1>1, AvailBound
  <2>4. minLat' \in [Nodes -> Int]
    BY <2>2, <2>3, <1>2 DEF TypeInv, EarliestIn, AtLeast
  <2>5. delayUsed' \in [Edges -> Int]
    BY <1>2, <1>3 DEF TypeInv
  <2>. QED
    BY <2>1, <2>4, <2>5, <1>1, <1>2, <1>4 DEF TypeInv, Path
<1>7. Feasible' /\ Late' /\ Budget' /\ Phases'
  BY <1>1, <1>2, <1>4 DEF Feasible, InTime, Late, Budget, Phases, Path
<1>8. Settled'
  <2>. SUFFICES ASSUME NEW n \in scheduled', n # pathNode'
                PROVE  maxLat'[n] = lat[n] - opLatency[n]
    BY <1>1 DEF Settled, Path
  <2>1. n \in scheduled /\ n \in Nodes
    BY <1>2 DEF TypeInv
  <2>. QED
    BY <2>1, <1>1, <1>2 DEF Settled, TypeInv
<1>9. PathFirst'
  <2>. SUFFICES ASSUME NEW f \in Edges, NEW j \in 1 .. Len(topoNodes), NEW k \in 1 .. Len(topoNodes),
                       delayUsed'[f] # Unset,
                       topoNodes[j] = edge[e].src, topoNodes[k] = edge[f].dst
                PROVE  j < k
    BY <1>2 DEF PathFirst
  <2>1. PICK i \in 1 .. Len(topoNodes) : topoNodes[i] = pathNode
    BY <1>1, TopoAssumption
  <2>2. j < i
    BY <2>1, <1>3, TopoAssumption
  <2>3. CASE f = e
    BY <2>3, <1>3, TopoAssumption
  <2>4. CASE f # e
    <3>1. delayUsed[f] # Unset
      BY <2>4, <1>2, <1>3 DEF TypeInv
    <3>2. i < k
      BY <3>1, <2>1, <1>1 DEF PathFirst
    <3>. QED
      BY <3>2, <2>2
  <2>. QED
    BY <2>3, <2>4
<1>10. Given'
  <2>. SUFFICES ASSUME NEW f \in Edges, delayUsed'[f] # Unset
                PROVE  /\ edge[f].src \in scheduled' /\ edge[f].dst \in scheduled'
                       /\ 0 <= delayUsed'[f]
                       /\ delayUsed'[f] <= lat[edge[f].dst] - opLatency[edge[f].dst] - Arrival(f)
    BY DEF Given, Path, Arrival
  <2>1. CASE f = e
    <3>1. delayUsed'[f] = 0 /\ edge[f].src \in scheduled' /\ edge[f].dst \in scheduled'
      BY <2>1, <1>1, <1>2, <1>3 DEF TypeInv, Phases
    <3>2. Arrival(f) = lat[edge[f].dst] - opLatency[edge[f].dst] /\ Arrival(f) \in Nat
      BY <2>1, <1>2, ArrivalType DEF OnTime
    <3>. QED
      BY <3>1, <3>2
  <2>2. CASE f # e
    <3>1. delayUsed'[f] = delayUsed[f]
      BY <2>2, <1>2 DEF TypeInv
    <3>. QED
      BY <3>1, <1>2 DEF Given
  <2>. QED
    BY <2>1, <2>2
<1>11. Counted'
  BY <1>1 DEF Path, Counted
<1>. QED
  BY <1>6, <1>7, <1>8, <1>9, <1>10, <1>11

LEMMA PathDoneStep == ASSUME IInv, PathDone PROVE IInv'
<1>. USE DEF IInv
<1>1. /\ phase = "path" /\ phase' = "rest" /\ pathNode \in Nodes
      /\ opLatency[pathNode] \in Nat /\ lat[pathNode] \in Nat
      /\ at' = Len(topoNodes) /\ Len(topoNodes) \in Nat \ {0}
  BY Positions, GraphAssumption DEF PathDone, TypeInv
<1>2. TypeInv'
  <2>1. maxLat' \in [Nodes -> Int] /\ maxLat'[pathNode] \in Int
    BY <1>1 DEF TypeInv, PathDone
  <2>2. getAvailDelay(pathNode, delayUsed, totalDelayUsed) \in Int
    <3>1. maxDelay \in [Nodes -> Nat] /\ totalDelayUsed \in [Nodes -> Int]
          /\ 0 <= totalDelayUsed[pathNode] /\ totalDelayUsed[pathNode] <= maxDelay[pathNode]
      BY <1>1 DEF TypeInv, Budget
    <3>. QED
      BY <3>1, <1>1, AvailBound
  <2>3. minLat' \in [Nodes -> Int]
    BY <2>1, <2>2 DEF TypeInv, EarliestIn, AtLeast, PathDone
  <2>. QED
    BY <2>1, <2>3, <1>1 DEF TypeInv, PathDone
<1>3. Feasible' /\ Late' /\ Budget' /\ PathFirst' /\ Given'
  BY <1>1 DEF Feasible, InTime, Late, Budget, PathFirst, Given, Arrival, PathDone
<1>4. Settled'
  BY <1>1 DEF Settled, TypeInv, PathDone
<1>5. Phases' /\ Counted'
  BY <1>1 DEF Phases, Counted, PathDone
<1>. QED
  BY <1>2, <1>3, <1>4, <1>5

\* Giving a delay to an edge between nodes that no longer move.
LEMMA AssignStep ==
  ASSUME IInv, phase \in {"rest", "vio"}, NEW e \in Edges,
         edge[e].src \in scheduled, edge[e].dst \in scheduled, Assign(e),
         UNCHANGED <<routeLat, maxDelay, lat, maxLat, scheduled>>
  PROVE  /\ delayUsed' \in [Edges -> Int] /\ totalDelayUsed' \in [Nodes -> Int]
         /\ minLat' \in [Nodes -> Int]
         /\ \A f \in Edges : f # e => delayUsed'[f] = delayUsed[f]
         /\ delayUsed'[e] # Unset
         /\ Given' /\ Budget'
<1>. DEFINE n == edge[e].dst
            d == Assigned(e)
<1>. USE DEF IInv
<1>1. n \in Nodes /\ opLatency[n] \in Nat /\ lat[n] \in Nat /\ Arrival(e) \in Nat
  BY Ends, ArrivalType, GraphAssumption DEF TypeInv
<1>2. InTime(e) /\ maxLat[n] = lat[n] - opLatency[n]
  <2>1. PICK k \in 1 .. Len(topoNodes) : topoNodes[k] = n
    BY Ends
  <2>. QED
    BY <2>1 DEF Feasible, Settled
<1>3. delayRequired(e) \in Nat /\ delayRequired(e) = lat[n] - opLatency[n] - Arrival(e)
  BY <1>1, <1>2 DEF delayRequired, InTime, Arrival
<1>4. /\ maxDelay \in [Nodes -> Nat] /\ totalDelayUsed \in [Nodes -> Int]
      /\ maxDelay[n] \in Nat /\ totalDelayUsed[n] \in Int
      /\ 0 <= totalDelayUsed[n] /\ totalDelayUsed[n] <= maxDelay[n]
  BY <1>1 DEF TypeInv, Budget
<1>5. getAvailDelay(n, delayUsed, totalDelayUsed) \in 0 .. (maxDelay[n] - totalDelayUsed[n])
  BY <1>1, <1>4, AvailBound
<1>6. /\ d \in Nat /\ d <= delayRequired(e) /\ d <= maxDelay[n] - totalDelayUsed[n]
  BY <1>3, <1>4, <1>5 DEF Assigned, AtMost
<1>7. /\ delayUsed' = [delayUsed EXCEPT ![e] = d]
      /\ totalDelayUsed' = [totalDelayUsed EXCEPT ![n] = @ + d]
      /\ minLat' = [minLat EXCEPT ![n] = EarliestIn(n, maxLat[n], delayUsed', totalDelayUsed')]
  BY DEF Assign
<1>. HIDE DEF d
<1>8. delayUsed' \in [Edges -> Int] /\ delayUsed'[e] = d
      /\ \A f \in Edges : f # e => delayUsed'[f] = delayUsed[f]
  BY <1>6, <1>7 DEF TypeInv
<1>9. /\ totalDelayUsed' \in [Nodes -> Int] /\ totalDelayUsed'[n] = totalDelayUsed[n] + d
      /\ \A m \in Nodes : m # n => totalDelayUsed'[m] = totalDelayUsed[m]
  BY <1>1, <1>4, <1>6, <1>7
<1>10. Budget'
  <2>. SUFFICES ASSUME NEW m \in Nodes
                PROVE  0 <= totalDelayUsed'[m] /\ totalDelayUsed'[m] <= maxDelay[m]
    BY DEF Budget
  <2>1. CASE m = n
    BY <2>1, <1>4, <1>6, <1>9
  <2>2. CASE m # n
    BY <2>2, <1>9 DEF Budget
  <2>. QED
    BY <2>1, <2>2
<1>11. minLat' \in [Nodes -> Int]
  <2>1. 0 <= totalDelayUsed'[n] /\ totalDelayUsed'[n] <= maxDelay[n]
    BY <1>1, <1>10 DEF Budget
  <2>2. getAvailDelay(n, delayUsed', totalDelayUsed') \in 0 .. (maxDelay[n] - totalDelayUsed'[n])
    BY <1>1, <1>4, <1>9, <2>1, AvailBound
  <2>3. maxLat[n] \in Int
    BY <1>1 DEF TypeInv
  <2>4. EarliestIn(n, maxLat[n], delayUsed', totalDelayUsed') \in Int
    BY <2>2, <2>3, <1>9, <1>4, <1>1 DEF EarliestIn, AtLeast
  <2>. QED
    BY <2>4, <1>7 DEF TypeInv
<1>12. Given'
  <2>. SUFFICES ASSUME NEW f \in Edges, delayUsed'[f] # Unset
                PROVE  /\ edge[f].src \in scheduled /\ edge[f].dst \in scheduled
                       /\ 0 <= delayUsed'[f]
                       /\ delayUsed'[f] <= lat[edge[f].dst] - opLatency[edge[f].dst] - Arrival(f)
    BY DEF Given, Arrival
  <2>1. CASE f = e
    BY <2>1, <1>3, <1>6, <1>8
  <2>2. CASE f # e
    BY <2>2, <1>8 DEF Given
  <2>. QED
    BY <2>1, <2>2
<1>13. delayUsed'[e] # Unset
  BY <1>6, <1>8 DEF Unset
<1>. QED
  BY <1>8, <1>9, <1>10, <1>11, <1>12, <1>13

LEMMA AssignNextStep == ASSUME IInv, AssignNext PROVE IInv'
<1>. USE DEF IInv
<1>1. PICK e \in pending : Assign(e) /\ pending' = pending \ {e}
  BY DEF AssignNext
<1>2. /\ phase = "rest" /\ e \in Edges
      /\ edge[e].src \in scheduled /\ edge[e].dst \in scheduled
  BY <1>1 DEF AssignNext, Phases, TypeInv
<1>3. UNCHANGED <<routeLat, maxDelay, phase, at, lat, maxLat, maxLatDfg, pathNode, scheduled, vio>>
  BY DEF AssignNext
<1>4. /\ delayUsed' \in [Edges -> Int] /\ totalDelayUsed' \in [Nodes -> Int]
      /\ minLat' \in [Nodes -> Int] /\ Given' /\ Budget'
  BY <1>1, <1>2, <1>3, AssignStep
<1>5. TypeInv'
  BY <1>1, <1>3, <1>4 DEF TypeInv
<1>6. Feasible' /\ Late' /\ Settled' /\ PathFirst' /\ Phases' /\ Counted'
  BY <1>1, <1>2, <1>3 DEF Feasible, InTime, Late, Settled, PathFirst, Phases, Counted
<1>. QED
  BY <1>4, <1>5, <1>6

LEMMA RestDoneStep == ASSUME IInv, RestDone PROVE IInv'
<1>. USE DEF IInv
<1>1. phase = "rest" /\ phase' = "vio" /\ at' = 1 /\ Len(topoNodes) \in Nat
  BY Positions DEF RestDone
<1>2. TypeInv'
  BY <1>1 DEF RestDone, TypeInv
<1>3. /\ Feasible' /\ Late' /\ Settled' /\ PathFirst' /\ Given' /\ Budget'
      /\ Phases' /\ Counted'
  BY <1>1 DEF RestDone, Feasible, InTime, Late, Settled, PathFirst, Given, Arrival, Budget,
              Phases, Counted
<1>. QED
  BY <1>2, <1>3

LEMMA CheckNextStep == ASSUME IInv, CheckNext PROVE IInv'
<1>. USE DEF IInv
<1>1. /\ phase = "vio" /\ phase' \in {"vio", "done"} /\ at \in 1 .. Len(topoNodes)
      /\ at' = at + 1 /\ Len(topoNodes) \in Nat
  BY Positions DEF CheckNext, TypeInv
<1>2. TypeInv'
  BY <1>1 DEF CheckNext, TypeInv
<1>3. /\ Feasible' /\ Late' /\ Settled' /\ PathFirst' /\ Given' /\ Budget' /\ Phases'
  BY <1>1 DEF CheckNext, Feasible, InTime, Late, Settled, PathFirst, Given, Arrival, Budget, Phases
<1>4. Counted'
  BY <1>1 DEF CheckNext, Counted, delayRequired, Arrival
<1>. QED
  BY <1>2, <1>3, <1>4

LEMMA CheckEdgeStep == ASSUME IInv, CheckEdge PROVE IInv'
<1>. USE DEF IInv
<1>1. PICK e \in InEdges(topoNodes[at]) :
        /\ vio[e] = Unset
        /\ \/ delayUsed[e] = Unset /\ Assign(e)
           \/ delayUsed[e] # Unset /\ UNCHANGED <<delayUsed, totalDelayUsed, minLat>>
        /\ vio' = [vio EXCEPT ![e] = delayRequired(e) - delayUsed'[e]]
  BY DEF CheckEdge
<1>2. /\ phase = "vio" /\ phase' = "vio" /\ e \in Edges
      /\ UNCHANGED <<routeLat, maxDelay, phase, at, lat, maxLat, maxLatDfg, pathNode, scheduled, pending>>
  BY DEF CheckEdge, InEdges
<1>3. edge[e].src \in scheduled /\ edge[e].dst \in scheduled /\ edge[e].dst \in Nodes
  BY <1>2, Ends DEF Phases
<1>4. /\ delayUsed' \in [Edges -> Int] /\ totalDelayUsed' \in [Nodes -> Int]
      /\ minLat' \in [Nodes -> Int]
      /\ \A f \in Edges : f # e => delayUsed'[f] = delayUsed[f]
      /\ delayUsed'[e] # Unset
      /\ Given' /\ Budget'
  <2>1. CASE Assign(e)
    BY <2>1, <1>2, <1>3, AssignStep
  <2>2. CASE delayUsed[e] # Unset /\ UNCHANGED <<delayUsed, totalDelayUsed, minLat>>
    BY <2>2, <1>2 DEF TypeInv, Given, Arrival, Budget
  <2>. QED
    BY <2>1, <2>2, <1>1
<1>5. delayRequired(e) \in Int
  <2>1. maxLat[edge[e].dst] \in Int /\ Arrival(e) \in Nat
    BY <1>2, <1>3, ArrivalType DEF TypeInv
  <2>. QED
    BY <2>1 DEF delayRequired
<1>6. TypeInv'
  <2>1. vio' \in [Edges -> Int]
    <3>1. delayRequired(e) - delayUsed'[e] \in Int
      BY <1>2, <1>4, <1>5
    <3>. QED
      BY <3>1, <1>1 DEF TypeInv
  <2>. QED
    BY <2>1, <1>2, <1>4 DEF TypeInv
<1>7. Feasible' /\ Late' /\ Settled' /\ PathFirst' /\ Phases'
  BY <1>2 DEF Feasible, InTime, Late, Settled, PathFirst, Phases
<1>8. Counted'
  <2>. SUFFICES ASSUME NEW f \in Edges, vio'[f] # Unset
                PROVE  delayUsed'[f] # Unset /\ vio'[f] = delayRequired(f) - delayUsed'[f]
    BY <1>2 DEF Counted, delayRequired, Arrival
  <2>1. CASE f = e
    BY <2>1, <1>1, <1>2, <1>4 DEF TypeInv
  <2>2. CASE f # e
    <3>1. vio[f] = vio'[f] /\ delayUsed'[f] = delayUsed[f]
      BY <2>2, <1>1, <1>2, <1>4 DEF TypeInv
    <3>. QED
      BY <3>1 DEF Counted
  <2>. QED
    BY <2>1, <2>2
<1>. QED
  BY <1>4, <1>6, <1>7, <1>8

\* The new latency of a node is no earlier, and no later than any user allows.
LEMMA TargetBounds ==
  ASSUME IInv, phase = "rest", NEW n \in Nodes, Ready(n), NEW t \in Targets(n), IsTarget(n, t)
  PROVE  /\ t \in Nat /\ lat[n] <= t
         /\ OutEdges(n) = {} => t = lat[n]
         /\ \A e \in OutEdges(n) :
               t + routeLat[e] <= lat[edge[e].dst] - opLatency[edge[e].dst]
<1>. USE DEF IInv
<1>. DEFINE hi(e) == maxLat[edge[e].dst] - routeLat[e]
            lo(e) == minLat[edge[e].dst] - routeLat[e]
<1>1. lat[n] \in Nat
  BY DEF TypeInv
<1>2. CASE OutEdges(n) = {}
  <2>1. t = lat[n]
    BY <1>2 DEF IsTarget
  <2>. QED
    BY <2>1, <1>1, <1>2
<1>3. CASE OutEdges(n) # {}
  <2>1. \A e \in OutEdges(n) :
          /\ e \in Edges /\ edge[e].src = n /\ edge[e].dst \in Nodes
          /\ routeLat[e] \in Nat /\ lo(e) \in Int /\ hi(e) \in Int
          /\ hi(e) = lat[edge[e].dst] - opLatency[edge[e].dst] - routeLat[e]
          /\ lat[n] <= hi(e)
          /\ lat[edge[e].dst] \in Nat /\ opLatency[edge[e].dst] \in Nat
    <3>. TAKE e \in OutEdges(n)
    <3>1. e \in Edges /\ edge[e].src = n /\ edge[e].dst \in Nodes
      BY Ends DEF OutEdges
    <3>2. /\ routeLat[e] \in Nat /\ maxLat[edge[e].dst] \in Int /\ minLat[edge[e].dst] \in Int
          /\ lat[edge[e].dst] \in Nat /\ opLatency[edge[e].dst] \in Nat
      BY <3>1, GraphAssumption DEF TypeInv
    <3>3. maxLat[edge[e].dst] = lat[edge[e].dst] - opLatency[edge[e].dst]
      BY <3>1 DEF Ready, Settled, OutEdges
    <3>4. InTime(e)
      <4>1. PICK k \in 1 .. Len(topoNodes) : topoNodes[k] = edge[e].dst
        BY <3>1, Ends
      <4>. QED
        BY <4>1, <3>1 DEF Feasible
    <3>5. lat[n] <= hi(e)
      BY <1>1, <3>1, <3>2, <3>3, <3>4 DEF InTime
    <3>. QED
      BY <3>1, <3>2, <3>3, <3>5
  <2>. DEFINE his == {hi(e) : e \in OutEdges(n)}
              los == {lo(e) : e \in OutEdges(n)} \cup {0}
  <2>2. PICK h \in his, l \in los :
          (\A x \in his : h <= x) /\ t = AtLeast(lat[n], AtMost(h, l))
    BY <1>3 DEF IsTarget
  <2>3. h \in Int /\ lat[n] <= h
    BY <2>1
  <2>4. l \in Int
    BY <2>1
  <2>5. t \in Nat /\ lat[n] <= t /\ t <= h
    BY <1>1, <2>2, <2>3, <2>4 DEF AtLeast, AtMost
  <2>6. ASSUME NEW e \in OutEdges(n)
        PROVE  t + routeLat[e] <= lat[edge[e].dst] - opLatency[edge[e].dst]
    <3>1. h <= hi(e)
      BY <2>2
    <3>. QED
      BY <3>1, <2>1, <2>3, <2>5
  <2>. QED
    BY <1>3, <2>5, <2>6
<1>. QED
  BY <1>2, <1>3

LEMMA VisitStep == ASSUME IInv, Visit PROVE IInv'
<1>. DEFINE n == topoNodes[at]
<1>. USE DEF IInv
<1>1. /\ phase = "rest" /\ pending = {} /\ Len(topoNodes) \in Nat \ {0}
      /\ at \in 1 .. Len(topoNodes)
      /\ UNCHANGED <<routeLat, maxDelay, phase, maxLatDfg, pathNode, delayUsed, totalDelayUsed, vio>>
  BY Positions DEF Visit, TypeInv
<1>2. n \in Nodes /\ opLatency[n] \in Nat
  BY <1>1, Positions
<1>3. at' \in 1 .. Len(topoNodes)
  BY <1>1 DEF Visit
<1>. HIDE DEF n
<1>4. CASE UNCHANGED <<lat, maxLat, minLat, scheduled, pending>>
  <2>1. TypeInv'
    BY <1>1, <1>3, <1>4 DEF TypeInv
  <2>2. /\ Feasible' /\ Late' /\ Settled' /\ PathFirst' /\ Given' /\ Budget'
        /\ Phases' /\ Counted'
    BY <1>1, <1>4 DEF Feasible, InTime, Late, Settled, PathFirst, Given, Arrival, Budget,
                      Phases, Counted
  <2>. QED
    BY <2>1, <2>2
<1>5. CASE Ready(n) /\ Schedule(n)
  <2>1. PICK t \in Targets(n) :
          /\ IsTarget(n, t)
          /\ lat' = [lat EXCEPT ![n] = t]
          /\ maxLat' = [maxLat EXCEPT ![n] = t - opLatency[n]]
          /\ minLat' = [minLat EXCEPT ![n] =
                          EarliestIn(n, t - opLatency[n], delayUsed, totalDelayUsed)]
    BY <1>5 DEF Schedule
  <2>2. /\ t \in Nat /\ lat[n] \in Nat /\ lat[n] <= t
        /\ OutEdges(n) = {} => t = lat[n]
        /\ \A e \in OutEdges(n) :
              t + routeLat[e] <= lat[edge[e].dst] - opLatency[edge[e].dst]
    BY <1>1, <1>2, <1>5, <2>1, TargetBounds DEF TypeInv
  <2>3. /\ scheduled' = scheduled \cup {n} /\ n \notin scheduled
        /\ pending' = {e \in InEdges(n) : edge[e].src \in scheduled} \cup OutEdges(n)
        /\ \A e \in OutEdges(n) : edge[e].dst \in scheduled
    BY <1>5 DEF Schedule, Ready
  <2>4. \A m \in Nodes : lat'[m] = (IF m = n THEN t ELSE lat[m])
                      /\ maxLat'[m] = (IF m = n THEN t - opLatency[n] ELSE maxLat[m])
    BY <2>1 DEF TypeInv
  <2>5. TypeInv'
    <3>1. lat' \in [Nodes -> Nat] /\ maxLat' \in [Nodes -> Int]
      BY <1>2, <2>1, <2>2 DEF TypeInv
    <3>2. getAvailDelay(n, delayUsed, totalDelayUsed) \in Int
      <4>1. maxDelay \in [Nodes -> Nat] /\ totalDelayUsed \in [Nodes -> Int]
            /\ 0 <= totalDelayUsed[n] /\ totalDelayUsed[n] <= maxDelay[n]
        BY <1>2 DEF TypeInv, Budget
      <4>. QED
        BY <4>1, <1>2, AvailBound
    <3>3. EarliestIn(n, t - opLatency[n], delayUsed, totalDelayUsed) \in Int
      BY <3>2, <1>2, <2>2 DEF EarliestIn, AtLeast
    <3>4. minLat' \in [Nodes -> Int]
      BY <3>3, <2>1 DEF TypeInv
    <3>5. scheduled' \subseteq Nodes /\ pending' \subseteq Edges
      BY <1>2, <2>3 DEF TypeInv, InEdges, OutEdges
    <3>. QED
      BY <3>1, <3>4, <3>5, <1>1, <1>3, SMTT(30) DEF TypeInv
  <2>6. Feasible'
    <3>. SUFFICES ASSUME NEW e \in Edges PROVE InTime(e)'
      BY DEF Feasible
    <3>1. /\ edge[e].src \in Nodes /\ edge[e].dst \in Nodes /\ edge[e].src # edge[e].dst
          /\ \E k \in 1 .. Len(topoNodes) : topoNodes[k] = edge[e].dst
      BY Ends
    <3>2. InTime(e)
      BY <3>1, <1>1 DEF Feasible
    <3>3. /\ lat[edge[e].src] \in Nat /\ lat[edge[e].dst] \in Nat /\ routeLat[e] \in Nat
          /\ opLatency[edge[e].dst] \in Nat
      BY <3>1, GraphAssumption DEF TypeInv
    <3>4. CASE edge[e].src = n
      <4>1. e \in OutEdges(n)
        BY <3>4 DEF OutEdges
      <4>. QED
        BY <4>1, <3>1, <3>4, <2>2, <2>4, <1>1 DEF InTime
    <3>5. CASE edge[e].dst = n
      BY <3>1, <3>2, <3>3, <3>5, <2>2, <2>4, <1>1, SMTT(30) DEF InTime
    <3>6. CASE edge[e].src # n /\ edge[e].dst # n
      BY <3>1, <3>2, <3>6, <2>4, <1>1 DEF InTime
    <3>. QED
      BY <3>4, <3>5, <3>6
  <2>7. Late'
    <3>1. t <= maxLatDfg
      <4>1. CASE OutEdges(n) = {}
        BY <4>1, <2>2, <1>2 DEF Late
      <4>2. CASE OutEdges(n) # {}
        <5>1. PICK e \in OutEdges(n) : TRUE
          BY <4>2
        <5>2. e \in Edges /\ edge[e].dst \in Nodes
          BY Ends DEF OutEdges
        <5>3. /\ routeLat[e] \in Nat /\ lat[edge[e].dst] \in Nat
              /\ opLatency[edge[e].dst] \in Nat /\ maxLatDfg \in Int
              /\ lat[edge[e].dst] <= maxLatDfg
          BY <5>2, GraphAssumption DEF TypeInv, Late
        <5>4. t + routeLat[e] <= lat[edge[e].dst] - opLatency[edge[e].dst]
          BY <2>2
        <5>. QED
          BY <5>3, <5>4, <2>2
      <4>. QED
        BY <4>1, <4>2
    <3>. QED
      BY <3>1, <2>4, <1>1 DEF Late
  <2>8. Settled'
    BY <1>1, <1>2, <2>3, <2>4 DEF Settled, TypeInv
  <2>9. Given'
    <3>. SUFFICES ASSUME NEW e \in Edges, delayUsed[e] # Unset
                  PROVE  /\ edge[e].src \in scheduled' /\ edge[e].dst \in scheduled'
                         /\ 0 <= delayUsed[e]
                         /\ delayUsed[e] <= lat'[edge[e].dst] - opLatency[edge[e].dst] - Arrival(e)'
      BY <1>1 DEF Given
    <3>1. edge[e].src \in scheduled /\ edge[e].dst \in scheduled
      BY DEF Given
    <3>2. edge[e].src # n /\ edge[e].dst # n /\ edge[e].src \in Nodes /\ edge[e].dst \in Nodes
      BY <3>1, <2>3, Ends
    <3>3. Arrival(e)' = Arrival(e) /\ lat'[edge[e].dst] = lat[edge[e].dst]
      BY <3>2, <2>4, <1>1 DEF Arrival
    <3>. QED
      BY <3>1, <3>3, <2>3 DEF Given
  <2>10. Budget' /\ PathFirst' /\ Counted'
    BY <1>1 DEF Budget, PathFirst, Counted
  <2>11. Phases'
    <3>1. \A e \in pending' : edge[e].src \in scheduled' /\ edge[e].dst \in scheduled'
      BY <2>3 DEF InEdges, OutEdges
    <3>. QED
      BY <3>1, <1>1 DEF Phases
  <2>. QED
    BY <2>5, <2>6, <2>7, <2>8, <2>9, <2>10, <2>11
<1>. QED
  BY <1>4, <1>5 DEF Visit, n

LEMMA StutterStep == ASSUME IInv, UNCHANGED vars PROVE IInv'
BY DEF vars, IInv, TypeInv, Feasible, InTime, Late, Settled, PathFirst, Given, Arrival, Budget,
       Phases, Counted, delayRequired
---------------------------------------------------------------------------
THEOREM Invariance == Spec => []IInv
<1>1. IInv /\ [Next]_vars => IInv'
  <2>. SUFFICES ASSUME IInv, [Next]_vars PROVE IInv'
    OBVIOUS
  <2>. QED
    BY BoundStep, BoundDoneStep, PathStep, PathDoneStep, VisitStep, AssignNextStep, RestDoneStep,
       CheckEdgeStep, CheckNextStep, StutterStep DEF Next
<1>. QED
  BY <1>1, InitIInv, PTL DEF Spec

(***************************************************************************)
(* The assertion of calEdgeLatVio never fails, and no FU hands out more    *)
(* delay than its RDU has (mapping.cpp:1285, 1009-1025).                   *)
(***************************************************************************)
THEOREM DelaysAlwaysFit == Spec => []DelaysFit
<1>1. IInv => DelaysFit
  <2>. SUFFICES ASSUME IInv, NEW e \in Edges, delayUsed[e] # Unset
                PROVE  0 <= delayUsed[e] /\ delayUsed[e] <= delayRequired(e)
    BY DEF IInv, Budget, DelaysFit
  <2>1. edge[e].dst \in scheduled
    BY DEF IInv, Given
  <2>2. phase = "path" => edge[e].dst # pathNode
    <3>. SUFFICES ASSUME phase = "path", edge[e].dst = pathNode PROVE FALSE
      OBVIOUS
    <3>1. PICK k \in 1 .. Len(topoNodes) : topoNodes[k] = edge[e].dst
      BY Ends
    <3>. QED
      BY <3>1 DEF IInv, PathFirst
  <2>3. maxLat[edge[e].dst] = lat[edge[e].dst] - opLatency[edge[e].dst]
    BY <2>1, <2>2 DEF IInv, Settled
  <2>. QED
    BY <2>3 DEF IInv, Given, delayRequired
<1>. QED
  BY <1>1, Invariance, PTL

(***************************************************************************)
(* Scheduling does not make the DFG longer than its longest path           *)
(* (mapping.cpp:1048-1075).                                                *)
(***************************************************************************)
THEOREM NeverLonger == Spec => []NoLonger
<1>1. IInv => NoLonger
  BY DEF IInv, Late, NoLonger
<1>. QED
  BY <1>1, Invariance, PTL

(***************************************************************************)
(* A schedule without violations is synchronised: what the mapper takes    *)
(* for a solution lets all operands of every node meet                     *)
(* (mapping.cpp:1251-1299, mapper_sa.cpp:143).                             *)
(***************************************************************************)
THEOREM NoViolationSynchronises == Spec => []Synchronised
<1>1. IInv => Synchronised
  <2>. SUFFICES ASSUME IInv, phase = "done", NEW e \in Edges, vio[e] = 0
                PROVE  Arrival(e) + delayUsed[e] = lat[edge[e].dst] - opLatency[edge[e].dst]
    BY DEF Synchronised
  <2>1. edge[e].dst \in Nodes /\ Arrival(e) \in Nat
    BY Ends, ArrivalType DEF IInv
  <2>2. edge[e].dst \in scheduled
    BY <2>1 DEF IInv, Phases
  <2>3. maxLat[edge[e].dst] = lat[edge[e].dst] - opLatency[edge[e].dst]
    BY <2>2 DEF IInv, Settled
  <2>4. vio[e] = maxLat[edge[e].dst] - Arrival(e) - delayUsed[e]
    BY DEF IInv, Counted, delayRequired, Unset
  <2>5. maxLat[edge[e].dst] \in Int /\ delayUsed[e] \in Int
    BY <2>1 DEF IInv, TypeInv
  <2>. QED
    BY <2>1, <2>3, <2>4, <2>5
<1>. QED
  BY <1>1, Invariance, PTL
=============================================================================
