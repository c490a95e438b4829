------------------------------- MODULE MCTLB -------------------------------
(***************************************************************************)
(* The two controllers of the DMA, each denied one of three pages.        *)
(***************************************************************************)
EXTENDS TLB, TLC

CONSTANTS p0, p1, p2

OwnPages == 0 :> {p1} @@ 1 :> {p0}
=============================================================================
