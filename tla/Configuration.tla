--------------------------- MODULE Configuration ---------------------------
(***************************************************************************)
(* From the loops of a kernel to the image of its configuration: the       *)
(* access pattern the LLVM pass emits, the fields the mapper's             *)
(* Configuration gives an IOB, their packing into words of the             *)
(* configuration bus, and the rows IOScheduler::genCfgData lays out.       *)
(*                                                                         *)
(* A word, a field's value or a register is the set of the positions of    *)
(* its 1 bits: `or' is union and a shift adds to every element.  Addresses *)
(* and strides are in words of data, not in bytes.  No field is wider than *)
(* a word.                                                                 *)
(***************************************************************************)
EXTENDS Integers, Sequences, SequencesExt

CONSTANTS
  WordBits,        (* 32: bits of a packed word and of cfg_data.            *)
  AddrBits,        (* 16: bits of an address in the image.                  *)
  cfgBlkOffset,    (* Bits of an address within a block.                    *)
  addrWidth, lgMaxStride, lgMaxCycles, lgMaxII, lgMaxLat,
  agNestLevels     (* Loops an IOB can nest.                                *)

cfgWidth == WordBits + AddrBits

---------------------------------------------------------------------------
(* Bits. *)
Bits(n, width)    == {b \in 0 .. width - 1 : (n \div 2^b) % 2 = 1}
Unsigned(bits)    == MapThenSumSet(LAMBDA b : 2^b, bits)
Signed(bits, len) == Unsigned(bits) - (IF len - 1 \in bits THEN 2^len ELSE 0)
Shl(bits, k)      == {b + k : b \in bits}
Shr(bits, k)      == {b - k : b \in {c \in bits : c >= k}}
Slice(bits, lsb, len) == {b \in Shr(bits, lsb) : b < len}

---------------------------------------------------------------------------
(* The layout of an IOB's configuration, as the hardware exports it to the *)
(* mapper.                                                                 *)
At(lsb, len) == [lsb |-> lsb, len |-> len]

LevelBits   == lgMaxStride + lgMaxCycles
BaseAddr    == At(0, addrWidth)
Stride(i)   == At(addrWidth + i * LevelBits, lgMaxStride)
Cycles(i)   == At(addrWidth + i * LevelBits + lgMaxStride, lgMaxCycles)
II          == At(addrWidth + agNestLevels * LevelBits, lgMaxII)
Latency     == At(II.lsb + lgMaxII, lgMaxLat)
IsStore     == At(Latency.lsb + lgMaxLat, 1)
ioCtrlCfgWidth == IsStore.lsb + 1

---------------------------------------------------------------------------
(* A node of input or output: its array's address in the bank, the offset  *)
(* in it, loops from the innermost as [stride, count], the latency and     *)
(* whether it stores.                                                      *)

\* Mutant of Pattern: an outer stride is not reduced by what the inner loops moved.
Bug_Pattern(loops) ==
  [i \in DOMAIN loops |-> [stride |-> loops[i].stride, cycles |-> loops[i].count]]

\* The pass turns the stride of a loop into the step from the last access
\* of the loops inside it.
Pattern(loops) ==
  LET moved(i) == MapThenSumSet(LAMBDA j : (loops[j].count - 1) * loops[j].stride, 1 .. i - 1)
  IN  [i \in DOMAIN loops |->
         [stride |-> loops[i].stride - moved(i), cycles |-> loops[i].count]]

Field(loc, value) == [loc |-> loc, value |-> value]

\* getIobCfgData, the part of the IOController.  A stride is cut to its
\* width; other values are not.
getIobCfgData(io) ==
  LET pattern == Pattern(io.loops)
      stride(i) == IF i < Len(pattern) THEN pattern[i + 1].stride ELSE 0
      cycles(i) == IF i < Len(pattern) THEN pattern[i + 1].cycles ELSE 0
  IN     { Field(BaseAddr, Bits(io.spadAddr + io.offset, WordBits)),
           Field(II, {0}),
           Field(Latency, Bits(io.latency, WordBits)),
           Field(IsStore, Bits(IF io.store THEN 1 ELSE 0, WordBits)) }
    \cup {Field(Stride(i), Bits(stride(i), lgMaxStride)) : i \in 0 .. agNestLevels - 1}
    \cup {Field(Cycles(i), Bits(cycles(i), WordBits)) : i \in 0 .. agNestLevels - 1}

---------------------------------------------------------------------------
(* getNodeCfgData.  The bits of a value that reach past its field are      *)
(* dropped only at the end of the last word the field lies in.             *)
LastWord(loc) == (loc.lsb + loc.len - 1) \div WordBits

Placed(field) ==
  {b \in Shl(field.value, field.loc.lsb) : b < (LastWord(field.loc) + 1) * WordBits}

cfgDataVec(fields) == UNION {Placed(f) : f \in fields}

addrs(fields) ==
  UNION { LET first == f.loc.lsb \div WordBits
              num   == (f.loc.len + (f.loc.lsb % WordBits) + WordBits - 1) \div WordBits
          IN  first .. first + num - 1 : f \in fields }

\* The packets of a block, in ascending order of address.
getNodeCfgData(blk, fields) ==
  LET data == cfgDataVec(fields)
      seq  == SetToSortSeq(addrs(fields), <)
  IN  [n \in DOMAIN seq |->
         [addr |-> Shl(Bits(blk, AddrBits), cfgBlkOffset) \cup Bits(seq[n], AddrBits),
          data |-> Slice(data, seq[n] * WordBits, WordBits)]]

\* getCfgData: the packets of all the blocks; cfg maps a block to its
\* fields, none for one the kernel does not use.
getCfgData(cfg) ==
  LET blks == SetToSortSeq(DOMAIN cfg, <)
  IN  FlattenSeq([n \in DOMAIN blks |-> getNodeCfgData(blks[n], cfg[blks[n]])])

---------------------------------------------------------------------------
(* genCfgData: row after row, the data below the address.                  *)

Row(packet) == packet.data \cup Shl(packet.addr, WordBits)

Image(packets) == UNION {Shl(Row(packets[n]), (n - 1) * cfgWidth) : n \in DOMAIN packets}
=============================================================================
