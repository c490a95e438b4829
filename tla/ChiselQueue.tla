---------------------------- MODULE ChiselQueue ----------------------------
(***************************************************************************)
(* The queue of the Chisel library (chisel3.util.Queue without pipe and    *)
(* flow), the buffer between all the controllers of the accelerator: an    *)
(* element leaves when deq fires, and one enters when enq is valid and the *)
(* queue was not full at the start of the cycle.                           *)
(***************************************************************************)
EXTENDS Integers, Sequences

deq_valid(que) == que # <<>>

\* Mutant of enq_ready: off by one.
Bug_enq_ready(que, depth) == Len(que) <= depth

enq_ready(que, depth) == Len(que) < depth

QueStep(que, depth, deq, enq, x) ==
  LET rest == IF deq /\ deq_valid(que) THEN Tail(que) ELSE que
  IN  IF enq /\ enq_ready(que, depth) THEN Append(rest, x) ELSE rest

\* The elements of a queue, and a queue whose elements ascend.
Elems(que)      == {que[n] : n \in DOMAIN que}
Increasing(que) == \A a, b \in DOMAIN que : a < b => que[a] < que[b]
=============================================================================
