-------------------------- MODULE ConfigController -------------------------
(***************************************************************************)
(* The configuration controller (cgra-mg/.../soc/ConfigController.scala):  *)
(* reads the image from the configuration scratchpad, dataWidthSram bits   *)
(* at a time with a latency of some cycles, gathers them in dataReg and    *)
(* puts a packet on the bus as soon as dataReg holds one.  A step is a     *)
(* clock cycle.                                                            *)
(*                                                                         *)
(* The generator's parameters of the scratchpad are variables that no step *)
(* changes, so that one run sees several builds.                           *)
(***************************************************************************)
EXTENDS Configuration

CONSTANT cfgRegNum     \* registers of the bus between the first row and the last

VARIABLES
  sramWidth,      \* dataWidthSram: bits of a word of the scratchpad
  readLatency,    \* readLatencySram: cycles from a read to its data
  cc_state, cnt, dataReg,
  wOffset,        \* bits of dataReg in use
  availOffset,    \* those and the bits of the reads under way
  waitCnt, cc_done, addrSram,
  reads           \* the data of the reads under way, the latest first

cc_vars == <<sramWidth, readLatency, cc_state, cnt, dataReg, wOffset,
             availOffset, waitCnt, cc_done, addrSram, reads>>

NoRead == {-1}

\* The register takes a word or a packet, whichever is longer, the words on
\* their way and one more.
regWidth ==
  LET longer == IF sramWidth > cfgWidth THEN sramWidth ELSE cfgWidth
  IN  ((longer + sramWidth - 1) \div sramWidth + readLatency + 1) * sramWidth

sramRen == cc_state = "s_data" /\ availOffset <= regWidth - sramWidth
wen     == reads[readLatency] # NoRead
ren(cfg_num) == wOffset >= cfgWidth /\ cnt < cfg_num

Packet == [addr |-> Slice(dataReg, WordBits, AddrBits), data |-> Slice(dataReg, 0, WordBits)]

ConfigControllerInit(widths, latencies) ==
  /\ sramWidth \in widths /\ readLatency \in latencies
  /\ cc_state = "s_idle" /\ cc_done = FALSE
  /\ cnt = 0 /\ dataReg = {} /\ wOffset = 0 /\ availOffset = 0 /\ waitCnt = 0
  /\ addrSram = 0
  /\ reads = [n \in 1 .. readLatency |-> NoRead]

---------------------------------------------------------------------------
\* Mutant of WaitOver: the bus has no registers.
Bug_WaitOver == waitCnt >= 0

WaitOver == waitCnt >= cfgRegNum

State(start, cfg_num) ==
  CASE cc_state = "s_idle" /\ start         -> cc_state' = "s_data" /\ cc_done' = FALSE
    [] cc_state = "s_data" /\ cnt >= cfg_num -> cc_state' = "s_wait" /\ UNCHANGED cc_done
    [] cc_state = "s_wait" /\ WaitOver      -> cc_state' = "s_idle" /\ cc_done' = TRUE
    [] OTHER                                -> UNCHANGED <<cc_state, cc_done>>

\* Mutant of DataNext: a word that arrives while a packet leaves is put
\* where it would go if none left.
Bug_DataNext(cfg_num) ==
  LET dout == reads[readLatency]
      kept == IF ren(cfg_num) THEN Shr(dataReg, cfgWidth) ELSE dataReg
  IN  IF wen THEN kept \cup Shl(dout, wOffset) ELSE kept

\* dataReg: the packet goes out at the bottom, the word comes in on top.
\* A shift to the left keeps all bits, so the pair of shifts that is to
\* clear what lies above wOffset clears nothing.
DataNext(cfg_num) ==
  LET dout == reads[readLatency]
      kept == IF ren(cfg_num) THEN Shr(dataReg, cfgWidth) ELSE dataReg
  IN  IF wen THEN kept \cup Shl(dout, IF ren(cfg_num) THEN wOffset - cfgWidth ELSE wOffset)
             ELSE kept

Moved(offset, more, less) ==
  offset + (IF more THEN sramWidth ELSE 0) - (IF less THEN cfgWidth ELSE 0)

\* image is the content of the scratchpad, word after word.
ConfigControllerStep(start, base_addr, cfg_num, image) ==
  LET idle == cc_state = "s_idle"
      dout == Slice(image, addrSram * sramWidth, sramWidth)
  IN
  /\ State(start, cfg_num)
  /\ cnt' = IF idle THEN 0 ELSE IF ren(cfg_num) THEN cnt + 1 ELSE cnt
  /\ waitCnt' = IF idle THEN 0 ELSE IF cc_state = "s_wait" THEN waitCnt + 1 ELSE waitCnt
  /\ availOffset' = IF idle THEN 0 ELSE Moved(availOffset, sramRen, ren(cfg_num))
  /\ wOffset' = IF idle THEN 0 ELSE Moved(wOffset, wen, ren(cfg_num))
  /\ dataReg' = IF idle THEN {} ELSE {b \in DataNext(cfg_num) : b < regWidth}
  /\ addrSram' = IF idle THEN base_addr ELSE IF sramRen THEN addrSram + 1 ELSE addrSram
  /\ reads' = [n \in DOMAIN reads |->
                 IF n > 1 THEN reads[n - 1] ELSE IF sramRen THEN dout ELSE NoRead]
  /\ UNCHANGED <<sramWidth, readLatency>>

\* Property.  While packets are read out of the image, availOffset counts
\* the bits in the register and the bits of every read under way, neither
\* runs past the register, and nothing lies above the bits in use: a word
\* that arrives in the cycle a packet leaves is neither lost nor doubled.
RegisterInStep ==
  LET underWay == Cardinality({n \in DOMAIN reads : reads[n] # NoRead}) IN
  cc_state = "s_data" =>
    /\ availOffset = wOffset + underWay * sramWidth
    /\ wOffset >= 0 /\ availOffset <= regWidth
    /\ \A b \in dataReg : b < wOffset
=============================================================================
