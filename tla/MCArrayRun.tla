----------------------------- MODULE MCArrayRun -----------------------------
(***************************************************************************)
(* A DFG with two inputs and a counter, values used up to three times, a   *)
(* join of three operands before a sum, and off the longest path a store   *)
(* whose address is computed, of a word loaded from such an address;       *)
(* routing latencies from 0 to MaxRoute, delay units of MaxDelay and one   *)
(* less: with 3 the largest delay fills its field, with 2 it does not.     *)
(***************************************************************************)
EXTENDS ArrayRun, TLC

CONSTANTS MaxRoute, MaxDelay

Edge(u, v, p) == [src |-> u, dst |-> v, dstPort |-> p]

\* c and e combine the inputs a and b, e the counter i too; d takes both
\* results and a again, s sums it up; l loads from b, g stores that to c.
DFGEdges == <<Edge("a", "c", 0), Edge("b", "c", 1), Edge("b", "e", 0), Edge("a", "e", 1),
              Edge("i", "e", 2), Edge("c", "d", 0), Edge("e", "d", 2), Edge("a", "d", 1),
              Edge("d", "s", 0), Edge("s", "f", 0), Edge("b", "l", 0), Edge("l", "g", 0),
              Edge("c", "g", 1)>>

Order == <<"a", "b", "i", "c", "l", "e", "d", "s", "f", "g">>

OpLatency == [n \in Nodes |->
  CASE n = "c"               -> 3
    [] n \in {"a", "b", "l"} -> load_latency(AddRegSram)
    [] n \in {"f", "g"}      -> store_latency(AddRegSram)
    [] OTHER                 -> 1]

\* The IOBs of a, b and f are in FIFO mode, those of l and g in SRAM mode.
NumOperands == [n \in Nodes |-> CASE n \in {"a", "b", "f"} -> 1 [] n \in {"g", "l"} -> 2 [] OTHER -> 3]

\* The counter and what only has one way are routed at once; the rest varies.
Routes == {r \in [Edges -> 0 .. MaxRoute] : /\ \A e \in {2, 5, 9, 10, 11, 13} : r[e] = 0
                                           /\ \A e \in {3, 4, 6} : r[e] <= 1}
RDUs   == {[n \in Nodes |-> d] : d \in MaxDelay - 1 .. MaxDelay}

Param(c, w, r, first) == [cycles |-> c, interval |-> w, repeats |-> r, accFirst |-> first]

\* A counter of the inner loop with a sum of the outer one, and the reverse.
Accumulators == {"i" :> Param(2, 1, 2, FALSE) @@ "s" :> Param(2, 2, 1, TRUE),
                 "i" :> Param(2, 2, 1, FALSE) @@ "s" :> Param(2, 1, 2, TRUE)}
=============================================================================
