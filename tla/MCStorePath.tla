---------------------------- MODULE MCStorePath ----------------------------
(***************************************************************************)
(* Instances of StorePath for TLC.                                         *)
(***************************************************************************)
EXTENDS StorePath

CONSTANTS
  Offsets,   (* Words of a block at which a store may start. *)
  Lengths    (* Lengths of a store in bytes.                 *)

Stores ==
  [remote_addr : {n * dataByte : n \in Offsets}, spad_addr : {2 * dataByte},
   total_len : Lengths]
=============================================================================
