----------------------------- MODULE MCMapping -----------------------------
(***************************************************************************)
(* A ring of three GIBs with one track each way between neighbours, a load *)
(* IOB on two of them and four GPEs; Q and T stand between two GIBs, each  *)
(* of their operands has a port from either.  In the DFG one value has     *)
(* three uses, two of which are combined again.                            *)
(***************************************************************************)
EXTENDS Mapping

\* Inputs 1 and 2 of a GIB are its tracks, outputs 1 and 2 its tracks.
Input ==
  [n \in FUs \cup GIBs |->
    CASE n = "L" -> <<<<"M", 1>>, <<"R", 2>>, <<"A", 0>>, <<"P", 0>>, <<"Q", 0>>>>
      [] n = "M" -> <<<<"R", 1>>, <<"L", 2>>, <<"Q", 0>>, <<"T", 0>>>>
      [] n = "R" -> <<<<"L", 1>>, <<"M", 2>>, <<"B", 0>>, <<"S", 0>>, <<"T", 0>>>>
      [] n = "P" -> <<<<"L", 3>>, <<"L", 4>>>>
      [] n = "S" -> <<<<"R", 3>>, <<"R", 4>>>>
      [] n = "Q" -> <<<<"L", 5>>, <<"M", 5>>, <<"L", 6>>, <<"M", 6>>>>
      [] n = "T" -> <<<<"M", 3>>, <<"R", 5>>, <<"M", 4>>, <<"R", 6>>>>
      [] OTHER -> <<>>]

\* A track does not turn back; the other outputs are reached by every input.
Out2ins == [g \in GIBs |-> [o \in 1 .. 6 |->
              SelectSeq([i \in DOMAIN Input[g] |-> i], LAMBDA i : o > 2 \/ i > 2 \/ i = o)]]

OperandInputs ==
  [f \in FUs |-> CASE f \in {"Q", "T"} -> [i \in 0 .. 1 |-> {2 * i + 1, 2 * i + 2}]
                   [] f \in {"P", "S"} -> [i \in 0 .. 1 |-> {i + 1}]
                   [] OTHER -> [i \in {} |-> {}]]

Edge(u, v, p) == [src |-> u, srcPort |-> 0, dst |-> v, dstPort |-> p]

DFGEdge == <<Edge("a", "b", 0), Edge("a", "c", 0), Edge("a", "d", 0),
             Edge("b", "d", 1), Edge("e", "b", 1)>>

Can == [v \in Nodes |-> IF v \in {"a", "e"} THEN {"A", "B"} ELSE {"P", "Q", "S", "T"}]
=============================================================================
