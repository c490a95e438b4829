----------------------------- MODULE DMASlice ------------------------------
(***************************************************************************)
(* How both DMA controllers cut a request into bus packets                 *)
(* (cgra-mg/.../soc/DMA.scala; the reader and the writer repeat the same   *)
(* text).  The size of a packet is a power of two; a packet is aligned to  *)
(* its size and stays within a block of maxSizeTL bytes.  All packets of a *)
(* request but the last run to the end of their block.  Addresses and      *)
(* lengths are in bytes; the bit patterns of the source are stated by what *)
(* they compute.                                                           *)
(***************************************************************************)
EXTENDS Integers

CONSTANTS
  dataByte,      (* Bytes of a bus beat, a power of two.           *)
  maxLgSizeTL    (* log2 of the largest packet, at least one beat. *)

maxSizeTL   == 2^maxLgSizeTL
PacketSizes == {2^n : n \in 0 .. maxLgSizeTL}

\* Block of an address, and offset within it.
vxn(vaddr) == vaddr \div maxSizeTL
vxo(vaddr) == vaddr % maxSizeTL

(* The highest bit of x, found by reversing x, isolating the lowest bit    *)
(* and reversing back, then shifted by one: the least power of two above   *)
(* x.  Nothing is found in 0, which stays 0.                               *)
PowerAbove(x) == IF x = 0 THEN 0 ELSE CHOOSE p \in PacketSizes : x < p /\ p <= 2 * x

\* More is left than fits in this block: another packet will follow.
selBw(vaddr, leftLen) == vxo(vaddr) + leftLen > maxSizeTL

\* Mutant of len_align_bw: the bytes to the end of the block, not their
\* number less one, are what is rounded up.
Bug_len_align_bw(vaddr) ==
  LET x == maxSizeTL - vxo(vaddr) IN IF x = maxSizeTL THEN x ELSE PowerAbove(x)

\* Packet that runs to the end of the block: above ~vxo.
len_align_bw(vaddr) == PowerAbove(maxSizeTL - 1 - vxo(vaddr))

(* Packet that ends with the request: the power of two above the highest   *)
(* bit in which the first and the last byte differ.                        *)
len_align_fw(vaddr, leftLen) ==
  LET first == vxo(vaddr)
      last  == first + leftLen - 1
      Same(p) == first \div p = last \div p
  IN  IF first = last THEN 0
      ELSE CHOOSE p \in PacketSizes : Same(p) /\ ~Same(p \div 2)

len_align(vaddr, leftLen, bw) ==
  IF bw THEN len_align_bw(vaddr) ELSE len_align_fw(vaddr, leftLen)

\* ~(len - 1) & vxo, which is 0 for a len of 0; and OHToUInt(len) as a
\* size and as its log2.
vxo_align(vaddr, len)  == IF len = 0 THEN 0 ELSE vxo(vaddr) - (vxo(vaddr) % len)
packet_size(len) == IF len = 0 THEN 1 ELSE len
lgLen_align(len) == CHOOSE n \in 0 .. maxLgSizeTL : 2^n = packet_size(len)

\* What is left after a packet: the next block, and the rest of the length.
next_leftLen(vaddr, leftLen, bw) == IF bw THEN vxo(vaddr) + leftLen - maxSizeTL ELSE 0
next_vaddr(vaddr) == (vxn(vaddr) + 1) * maxSizeTL
=============================================================================
