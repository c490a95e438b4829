-------------------------- MODULE ScratchpadRead ---------------------------
(***************************************************************************)
(* The stream read port of the scratchpad (cgra-mg/.../soc/Scratchpad.scala*)
(* lines 171-213, with the read side of the bank multiplexers): a pipeline *)
(* of one stage, the synchronous memory.  In a cycle in which the consumer *)
(* is ready the word of the present address is fetched and the word before *)
(* it leaves.                                                              *)
(*                                                                         *)
(* A word is named by its address.  The memory keeps its output while it   *)
(* is not enabled, and the bank index is kept beside it (readBankIdxSyn),  *)
(* so that both together are the address of the word on the stream.  A     *)
(* writer to the same bank in the same cycle is excluded here.             *)
(***************************************************************************)
EXTENDS Integers

CONSTANTS dataByte   (* Bytes of a stream word. *)

VARIABLES
  readState,
  readAddr,         \* address fetched next
  readMaxAddr,      \* address of the last word
  rdataValid,       \* the word on the stream is valid
  rdata,            \* address of the word on the stream
  read_exp_ack

vars == <<readState, readAddr, readMaxAddr, rdataValid, rdata, read_exp_ack>>

s_read_idle      == "s_read_idle"
s_read_data      == "s_read_data"
s_read_data_last == "s_read_data_last"

Init ==
  /\ readState = s_read_idle /\ readAddr = 0 /\ readMaxAddr = 0
  /\ rdataValid = FALSE /\ rdata = 0 /\ read_exp_ack = FALSE

req_ready == readState = s_read_idle

\* Of an address the memory sees the part above the byte offset.  The last
\* block, which may be smaller than a bank, sees fewer bits at the top as
\* well: a request to it is taken to stay within it, so these say nothing.
Word(addr) == (addr \div dataByte) * dataByte

\* Mutant of MaxAddr: the word before the last.
Bug_MaxAddr(addr, len) == addr + (IF len > 2 * dataByte THEN len - 2 * dataByte ELSE 0)

\* The end of a request, no less than its first word.
MaxAddr(addr, len) == addr + (IF len > dataByte THEN len - dataByte ELSE 0)

Accept(addr, len) ==
  /\ readState = s_read_idle /\ readState' = s_read_data
  /\ readAddr' = addr /\ readMaxAddr' = MaxAddr(addr, len)
  /\ rdataValid' = FALSE /\ UNCHANGED rdata

Idle ==
  /\ readState = s_read_idle
  /\ rdataValid' = FALSE
  /\ UNCHANGED <<readState, readAddr, readMaxAddr, rdata>>

Abort(expReq) ==
  /\ readState = s_read_data /\ expReq
  /\ readState' = s_read_idle
  /\ UNCHANGED <<readAddr, readMaxAddr, rdataValid, rdata>>

Fetch(expReq, streamReady) ==
  /\ readState = s_read_data /\ ~expReq /\ streamReady
  /\ rdata' = Word(readAddr) /\ rdataValid' = TRUE
  /\ readAddr' = readAddr + dataByte
  /\ readState' = IF readAddr >= readMaxAddr THEN s_read_data_last ELSE s_read_data
  /\ UNCHANGED readMaxAddr

Last(streamReady) ==
  /\ readState = s_read_data_last /\ streamReady
  /\ readState' = s_read_idle /\ rdataValid' = FALSE
  /\ UNCHANGED <<readAddr, readMaxAddr, rdata>>

Stall(expReq, streamReady) ==
  /\ readState # s_read_idle /\ ~streamReady
  /\ readState = s_read_data => ~expReq
  /\ UNCHANGED <<readState, readAddr, readMaxAddr, rdataValid, rdata>>

\* The acknowledgement of an abort, in the cycle after it.
ExpAck(expReq) ==
  read_exp_ack' = \/ readState = s_read_data /\ expReq
                  \/ readState # s_read_idle /\ read_exp_ack

\* A cycle without a new request.
Serve(expReq, streamReady) ==
  Idle \/ Abort(expReq) \/ Fetch(expReq, streamReady) \/ Last(streamReady)
  \/ Stall(expReq, streamReady)
=============================================================================
