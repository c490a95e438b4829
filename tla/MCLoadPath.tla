---------------------------- MODULE MCLoadPath -----------------------------
(***************************************************************************)
(* Instances of LoadPath for TLC: loads as the compiler emits them, the    *)
(* loads of one array next to each other and fused, each in a bank of its  *)
(* own.                                                                    *)
(***************************************************************************)
EXTENDS LoadPath

CONSTANT Lengths    (* Lengths of a load in bytes. *)

Load(remote, bank, start, len, fused, task) ==
  [remote_addr |-> remote, spad_addr |-> bank * sizeBank + start, total_len |-> len,
   fused |-> fused, id |-> task]

(* A configuration load, an array of three IO blocks (one more than a      *)
(* transfer takes), a load by itself, an array of two IO blocks.           *)
LoadPrograms ==
  { << Load(0, nBanks, 0, dataByte, FALSE, 0),
       Load(64, 0, 0, lenA, TRUE, 1), Load(64, 1, dataByte, lenA, TRUE, 1),
       Load(64, 2, 0, lenA, FALSE, 1),
       Load(128, 3, 0, dataByte, FALSE, 2),
       Load(192, 4, 0, lenB, TRUE, 3), Load(192, 5, 2 * dataByte, lenB, FALSE, 3) >> :
    lenA \in Lengths, lenB \in Lengths }
=============================================================================
