---------------------------- MODULE MCKernelRun ----------------------------
(***************************************************************************)
(* Programs of kernels over a group of banks that all its IOBs reach.      *)
(***************************************************************************)
EXTENDS KernelRun

Ld(n, size, array) == [id |-> n, iob |-> n, store |-> FALSE, size |-> size, array |-> array, off |-> 0]
St(n, size)        == [id |-> n, iob |-> n, store |-> TRUE, size |-> size, array |-> n, off |-> 0]

AllToAll == [i \in 0 .. (NumBanks - 1) |-> [k \in 1 .. NumBanks |-> k - 1]]

(* Kernels over three banks: two loads of one array at once, small and large *)
(* ranges that do and do not fit twice into a bank, stores in every bank, and *)
(* configurations that do and do not fit after the last one.                  *)
ThreeBankKernels ==
  { [ios |-> {Ld(0, 3, 0), Ld(1, 3, 0), St(2, 3)}, cfgLen |-> 4],
    [ios |-> {Ld(0, 5, 0), St(1, 5)},              cfgLen |-> 4],
    [ios |-> {Ld(0, 5, 0), Ld(1, 5, 1), St(2, 3)}, cfgLen |-> 5],
    [ios |-> {St(0, 5), St(1, 5), St(2, 5)},       cfgLen |-> 2],
    [ios |-> {St(1, 3)},                           cfgLen |-> 2] }

(* Stores in both banks, then a load that has to wait for one of them. *)
LateKernels ==
  { [ios |-> {St(0, 5), St(1, 5)},    cfgLen |-> 2],
    [ios |-> {Ld(0, 5, 0), St(1, 5)}, cfgLen |-> 2] }
=============================================================================
