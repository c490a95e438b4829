----------------------------- MODULE MCMapperSA -----------------------------
(***************************************************************************)
(* Two kernels on four GPEs, with the limits of the loops scaled down so   *)
(* that each of them is reached: several insertions in one kernel, several *)
(* solutions, restarts from the best of them, and time running out.        *)
(***************************************************************************)
EXTENDS MapperSA
=============================================================================
