------------------------------ MODULE Mapping ------------------------------
(***************************************************************************)
(* The state of a mapping of a dataflow graph (DFG) onto an architecture   *)
(* graph (ADG), and the operations that place nodes and route edges        *)
(* (cgra-compiler/src/mapper/mapping.cpp).                                 *)
(*                                                                         *)
(* A functional unit (FU: a GPE or an IOB) holds one DFG node.  An edge    *)
(* goes from FU to FU through interconnect blocks (GIBs), whose ports are  *)
(* shared by edges that carry the same signal only: the same output port   *)
(* of the same DFG node.  A link of a routed edge is a node it passes with *)
(* the input and the output port it takes there (-1 at the two ends).      *)
(*                                                                         *)
(* Left out: routeDfgEdgeFromSrc and the variants of routing that place    *)
(* IO nodes alongside, which nothing calls.                                *)
(***************************************************************************)
EXTENDS Integers, FiniteSets, SequencesExt

CONSTANTS
  FUs, GIBs,        \* the nodes of the ADG
  input,            \* node -> input port -> the <<node, output port>> that drives it
  out2ins,          \* GIB -> output port -> the input ports it may be connected to, in order
  operandInputs,    \* FU -> operand -> its input ports
  Nodes, Edges,     \* the DFG; edges are numbers
  edge,             \* edge -> [src, srcPort, dst, dstPort]
  commutative,      \* the DFG nodes whose operands may be exchanged
  Capable           \* DFG node -> the FUs that can execute it

ASSUME DfgAssumption ==
  /\ Edges \subseteq Nat /\ commutative \subseteq Nodes
  /\ \A e \in Edges : edge[e].src \in Nodes /\ edge[e].dst \in Nodes /\ edge[e].src # edge[e].dst
  /\ \A v \in Nodes : Capable[v] \subseteq FUs

VARIABLES
  place,     \* _dfgNodeAttr: DFG node -> FU, Unplaced
  numNodeMapped,
  routing    \* _dfgEdgeAttr, _adgNodeAttr: see NoRouting

vars == <<place, numNodeMapped, routing>>

Unplaced == "unplaced"
ADGNodes == FUs \cup GIBs

Link(n, i, o) == [node |-> n, src |-> i, dst |-> o]
Pass(e, l)    == [edge |-> e, src |-> l.src, dst |-> l.dst]

NoRouting ==
  [links   |-> [e \in Edges |-> <<>>],       \* edgeLinks, from the source on
   pass    |-> [n \in ADGNodes |-> <<>>],    \* dfgEdgePass
   inUsed  |-> [n \in ADGNodes |-> {}],      \* inPortUsed
   outUsed |-> [n \in ADGNodes |-> {}]]      \* outPortUsed

Signal(e) == <<edge[e].src, edge[e].srcPort>>
---------------------------------------------------------------------------
(* Finding a route: breadth first from the destination.                    *)

\* routeDfgEdgePass with isTry and both ports given, which are connected.
routeDfgEdgePass(r, e, g, i, o) ==
  LET meets == SelectSeq(r.pass[g], LAMBDA p : p.src = i \/ p.dst = o)
      same  == meets # <<>>
  IN  /\ \A n \in DOMAIN meets : Signal(meets[n].edge) = Signal(e)
      /\ o \in r.outUsed[g] => same /\ Last(meets).src = i /\ Last(meets).dst = o
      /\ i \in r.inUsed[g]  => same /\ Last(meets).src = i

\* Mutant of operandFree: only the first port of the operand is looked at.
Bug_operandFree(r, f, i) == \E p \in operandInputs[f][i] :
                              /\ \A q \in operandInputs[f][i] : p <= q
                              /\ p \notin r.inUsed[f]

operandFree(r, f, i) == operandInputs[f][i] \cap r.inUsed[f] = {}

numInputs(v) == Cardinality({e \in Edges : edge[e].dst = v})

availDstPorts(r, e, f) ==
  LET ops == IF edge[e].dst \in commutative THEN 0 .. (numInputs(edge[e].dst) - 1)
                                            ELSE {edge[e].dstPort}
  IN  UNION {operandInputs[f][i] : i \in {j \in ops : operandFree(r, f, j)}}

NoRoute == [found |-> FALSE, reused |-> <<>>, new |-> <<>>]

\* The output port is taken by another signal.
Conflict(r, e, n, o) ==
  LET on == SelectSeq(r.pass[n], LAMBDA p : p.dst = o)
  IN  o \in r.outUsed[n] /\ on # <<>> /\ Signal(Head(on).edge) # Signal(e)

\* Mutant of LinksUpTo: the shared links end before the joint.
Bug_LinksUpTo(r, n, o) ==
  LET other == Head(SelectSeq(r.pass[n], LAMBDA p : p.dst = o)).edge
      joint == SelectInSeq(r.links[other], LAMBDA l : l.node = n /\ l.dst = o)
  IN  SubSeq(r.links[other], 1, joint - 1)

\* The links of the edge that has the output port, from its source to there.
LinksUpTo(r, n, o) ==
  LET other == Head(SelectSeq(r.pass[n], LAMBDA p : p.dst = o)).edge
      joint == SelectInSeq(r.links[other], LAMBDA l : l.node = n /\ l.dst = o)
  IN  SubSeq(r.links[other], 1, joint)

(* The queue holds partial paths to the destination; the first link of each *)
(* has the input port from which the search goes on.  A route is new links, *)
(* behind those reused of an edge with the same signal.                     *)
RECURSIVE Search(_, _, _, _, _)
Search(r, e, source, queue, visited) ==
  IF queue = <<>> THEN NoRoute
  ELSE
    LET path == Head(queue)
        next == input[Head(path).node][Head(path).src]
        n    == next[1]
        o    == next[2]
        goOn(more, seen) == Search(r, e, source, Tail(queue) \o more, seen)
    IN  CASE n = source /\ o = edge[e].srcPort ->
               [found |-> TRUE, reused |-> <<>>, new |-> <<Link(n, -1, o)>> \o path]
          [] (n = source /\ o # edge[e].srcPort) \/ (n # source /\ (n \in FUs \/ next \in visited)) ->
               goOn(<<>>, visited)
          [] n \in GIBs /\ next \notin visited /\ Conflict(r, e, n, o) -> goOn(<<>>, visited)
          [] /\ n \in GIBs /\ next \notin visited /\ ~Conflict(r, e, n, o)
             /\ o \in r.outUsed[n] /\ \E k \in DOMAIN r.pass[n] : r.pass[n][k].dst = o ->
               [found |-> TRUE, reused |-> LinksUpTo(r, n, o), new |-> path]
          [] OTHER ->
               LET ins == SelectSeq(out2ins[n][o], LAMBDA i : routeDfgEdgePass(r, e, n, i, o))
               IN  goOn([k \in DOMAIN ins |-> <<Link(n, ins[k], o)>> \o path], visited \cup {next})

routeDfgEdgeFromDst(r, e, source, dest) ==
  LET ports == SetToSortSeq(availDstPorts(r, e, dest), <)
  IN  Search(r, e, source, [k \in DOMAIN ports |-> <<Link(dest, ports[k], -1)>>], {})
---------------------------------------------------------------------------
(* Keeping and undoing a route.  Reused links add the edge to the passes of *)
(* every node, the source among them; new links to those of GIBs only.      *)

At(links, n) == SelectSeq(links, LAMBDA l : l.node = n)

Passes(e, links) == [k \in DOMAIN links |-> Pass(e, links[k])]

Keep(r, e, route) ==
  LET ports(n, side(_)) == {side(route.new[k]) : k \in {m \in DOMAIN route.new : route.new[m].node = n}}
  IN  [links   |-> [r.links EXCEPT ![e] = route.reused \o route.new],
       pass    |-> [n \in ADGNodes |->
                      r.pass[n] \o Passes(e, At(route.reused, n))
                                \o (IF n \in GIBs THEN Passes(e, At(route.new, n)) ELSE <<>>)],
       inUsed  |-> [n \in ADGNodes |-> r.inUsed[n] \cup (ports(n, LAMBDA l : l.src) \ {-1})],
       outUsed |-> [n \in ADGNodes |-> r.outUsed[n] \cup (ports(n, LAMBDA l : l.dst) \ {-1})]]

\* Mutant of unrouteDfgEdge: ports other edges share are freed too.
Bug_unrouteDfgEdge(r, e) ==
  LET mine(n) == {r.links[e][k] : k \in {m \in DOMAIN r.links[e] : r.links[e][m].node = n}}
  IN  [links   |-> [r.links EXCEPT ![e] = <<>>],
       pass    |-> [n \in ADGNodes |-> SelectSeq(r.pass[n], LAMBDA p : p.edge # e)],
       inUsed  |-> [n \in ADGNodes |-> r.inUsed[n] \ {l.src : l \in mine(n)}],
       outUsed |-> [n \in ADGNodes |-> r.outUsed[n] \ {l.dst : l \in mine(n)}]]

unrouteDfgEdge(r, e) ==
  LET mine(n) == {r.links[e][k] : k \in {m \in DOMAIN r.links[e] : r.links[e][m].node = n}}
      left    == [n \in ADGNodes |-> SelectSeq(r.pass[n], LAMBDA p : p.edge # e)]
      kept(n, side(_)) == {side(left[n][k]) : k \in DOMAIN left[n]}
      freed(n, side(_)) == {side(l) : l \in mine(n)} \ kept(n, side)
  IN  [links   |-> [r.links EXCEPT ![e] = <<>>],
       pass    |-> left,
       inUsed  |-> [n \in ADGNodes |-> r.inUsed[n] \ freed(n, LAMBDA l : l.src)],
       outUsed |-> [n \in ADGNodes |-> r.outUsed[n] \ freed(n, LAMBDA l : l.dst)]]
---------------------------------------------------------------------------
(* The operations of the mapper.                                           *)

InEdges(v)  == SetToSortSeq({e \in Edges : edge[e].dst = v},
                            LAMBDA d, e : edge[d].dstPort < edge[e].dstPort)
OutEdges(v) == SetToSortSeq({e \in Edges : edge[e].src = v},
                            LAMBDA d, e : edge[d].srcPort < edge[e].srcPort
                                          \/ (edge[d].srcPort = edge[e].srcPort /\ d < e))

Mapped(v) == place[v] # Unplaced

\* The edges between v and the nodes placed so far: those in, then those out.
ToRoute(v) == SelectSeq(InEdges(v),  LAMBDA e : Mapped(edge[e].src))
           \o SelectSeq(OutEdges(v), LAMBDA e : Mapped(edge[e].dst))

\* One edge after the other until one has no route.
RouteAll(v, f) ==
  FoldLeft(
    LAMBDA s, e :
      LET end(u) == IF u = v THEN f ELSE place[u]
          route  == routeDfgEdgeFromDst(s.r, e, end(edge[e].src), end(edge[e].dst))
      IN  IF ~s.ok THEN s
          ELSE IF ~route.found THEN [s EXCEPT !.ok = FALSE]
          ELSE [ok |-> TRUE, r |-> Keep(s.r, e, route), done |-> Append(s.done, e)],
    [ok |-> TRUE, r |-> routing, done |-> <<>>],
    ToRoute(v))

\* Mutant of Undo: the edge routed first is forgotten.
Bug_Undo(s) == FoldLeft(unrouteDfgEdge, s.r, IF s.done = <<>> THEN <<>> ELSE Tail(s.done))

Undo(s) == FoldLeft(unrouteDfgEdge, s.r, s.done)

mapDfgNodeNoRoute(v, f) ==
  /\ place' = [place EXCEPT ![v] = f]
  /\ numNodeMapped' = numNodeMapped + 1

\* A node the mapper tries is not placed, on an FU that holds none.
mapDfgNode(v, f) ==
  /\ ~Mapped(v) /\ f \in Capable[v] /\ \A u \in Nodes : place[u] # f
  /\ LET s == RouteAll(v, f)
     IN  \/ s.ok /\ routing' = s.r /\ mapDfgNodeNoRoute(v, f)
         \/ ~s.ok /\ routing' = Undo(s) /\ UNCHANGED <<place, numNodeMapped>>

unmapDfgNode(v) ==
  /\ Mapped(v)
  /\ LET r == FoldLeft(unrouteDfgEdge, routing, InEdges(v) \o OutEdges(v))
         f == place[v]
     IN  routing' = [r EXCEPT !.pass[f] = <<>>, !.inUsed[f] = {}, !.outUsed[f] = {}]
  /\ place' = [place EXCEPT ![v] = Unplaced]
  /\ numNodeMapped' = numNodeMapped - 1

Init == place = [v \in Nodes |-> Unplaced] /\ numNodeMapped = 0 /\ routing = NoRouting

reset == /\ place' = [v \in Nodes |-> Unplaced] /\ numNodeMapped' = 0
         /\ routing' = NoRouting

Next ==
  \/ \E v \in Nodes, f \in FUs : mapDfgNode(v, f)
  \/ \E v \in Nodes : unmapDfgNode(v)
  \/ reset

Spec == Init /\ [][Next]_vars
---------------------------------------------------------------------------
LinkSet(e) == {routing.links[e][k] : k \in DOMAIN routing.links[e]}
Routed(e)  == routing.links[e] # <<>>

(***************************************************************************)
(* The incremental bookkeeping agrees with the placement: an edge has a    *)
(* route exactly when both its ends have a place, no FU holds two nodes,   *)
(* and _numNodeMapped, by which success() and the annealer judge, counts   *)
(* the places (mapping.cpp:183-345, 971).  A try that fails half way has   *)
(* left nothing behind.                                                    *)
(***************************************************************************)
RoutedIffPlaced ==
  /\ \A e \in Edges : Routed(e) <=> Mapped(edge[e].src) /\ Mapped(edge[e].dst)
  /\ \A u, v \in Nodes : Mapped(u) /\ place[u] = place[v] => u = v
  /\ numNodeMapped = Cardinality({v \in Nodes : Mapped(v)})

(***************************************************************************)
(* Every route is a path of the architecture from the FU of its source to  *)
(* the FU of its destination, links shared with other edges included, and  *)
(* enters an operand the edge may feed (mapping.cpp:675-873).              *)
(***************************************************************************)
RoutesConnect ==
  \A e \in {x \in Edges : Routed(x)} :
    LET ls == routing.links[e]
        ops == IF edge[e].dst \in commutative THEN DOMAIN operandInputs[Last(ls).node]
                                              ELSE {edge[e].dstPort}
    IN  /\ ls[1] = Link(place[edge[e].src], -1, edge[e].srcPort)
        /\ Last(ls).node = place[edge[e].dst] /\ Last(ls).dst = -1
        /\ \E i \in ops : Last(ls).src \in operandInputs[Last(ls).node][i]
        /\ \A k \in 2 .. Len(ls) : input[ls[k].node][ls[k].src] = <<ls[k - 1].node, ls[k - 1].dst>>
        /\ \A k \in 2 .. (Len(ls) - 1) :
             ls[k].node \in GIBs /\ ls[k].src \in ToSet(out2ins[ls[k].node][ls[k].dst])

(***************************************************************************)
(* Two edges meet at a port of a GIB only with the same signal and by the  *)
(* same internal link, so each output of a GIB selects one input; and no   *)
(* operand of an FU is fed twice (mapping.cpp:391-470, 759-776, 837-868).  *)
(***************************************************************************)
OneSignalPerPort ==
  \A d, e \in Edges : d < e =>
    \A l \in LinkSet(d), m \in LinkSet(e) : l.node = m.node =>
      /\ l.node \in GIBs /\ (l.src = m.src \/ l.dst = m.dst) => Signal(d) = Signal(e)
      /\ l.node \in GIBs /\ l.dst = m.dst => l.src = m.src
      /\ l.node \in FUs /\ l.dst = -1 /\ m.dst = -1 =>
           \A i \in DOMAIN operandInputs[l.node] :
              ~({l.src, m.src} \subseteq operandInputs[l.node][i])

(***************************************************************************)
(* The port flags, kept edge by edge while edges share routes and lose     *)
(* them in any order, say neither more nor less than the routes: a GIB     *)
(* port or an input of an FU is marked used exactly when a route takes it  *)
(* (mapping.cpp:902-938).  A flag lost lets another signal in, a flag left *)
(* behind blocks the port for the rest of the annealing.                   *)
(***************************************************************************)
FlagsTellUse ==
  \A n \in ADGNodes :
    LET here == UNION {{l \in LinkSet(e) : l.node = n} : e \in Edges}
    IN  /\ routing.inUsed[n] = {l.src : l \in here} \ {-1}
        /\ n \in GIBs => routing.outUsed[n] = {l.dst : l \in here} \ {-1}
=============================================================================
