-------------------------- MODULE ScratchpadWrite --------------------------
(***************************************************************************)
(* The stream write port of the scratchpad (cgra-mg/.../soc/               *)
(* Scratchpad.scala lines 132-169, with the write side of the bank         *)
(* multiplexers): every word goes to all the addresses of the request.  A  *)
(* bank has one port: of several addresses in one bank the first is        *)
(* served.  The block of configurations, above the banks, takes the first  *)
(* address only.                                                           *)
(***************************************************************************)
EXTENDS Integers

CONSTANTS
  dataByte,      (* Bytes of a stream word.           *)
  spadAddrNum,   (* Addresses of a request.           *)
  nBanks,        (* Banks before the last block.      *)
  sizeBank       (* Bytes of a bank.                  *)

VARIABLES
  writeState, writeAddrs, writeAddrNum, writeMaxAddr, write_exp_ack

vars == <<writeState, writeAddrs, writeAddrNum, writeMaxAddr, write_exp_ack>>

s_write_idle == "s_write_idle"
s_write_data == "s_write_data"

AddrIdx == 0 .. spadAddrNum - 1

Init ==
  /\ writeState = s_write_idle /\ writeAddrs = [j \in AddrIdx |-> 0]
  /\ writeAddrNum = 0 /\ writeMaxAddr = 0 /\ write_exp_ack = FALSE

req_ready    == writeState = s_write_idle
stream_ready == writeState = s_write_data

Bank(addr) == addr \div sizeBank

\* The word an address names.  The last block, which may be smaller than a
\* bank, sees fewer bits at the top: a request to it is taken to stay within
\* it, so these say nothing.
Word(addr) == (addr \div dataByte) * dataByte

\* Mutant of Served: the number of addresses is not looked at.
Bug_Served ==
  {j \in AddrIdx :
     IF Bank(writeAddrs[j]) < nBanks
     THEN \A k \in 0 .. j - 1 : Bank(writeAddrs[k]) # Bank(writeAddrs[j])
     ELSE j = 0}

\* The addresses a word is written to in this cycle.
Served ==
  {j \in AddrIdx :
     /\ j <= writeAddrNum
     /\ IF Bank(writeAddrs[j]) < nBanks
        THEN \A k \in 0 .. j - 1 : Bank(writeAddrs[k]) # Bank(writeAddrs[j])
        ELSE j = 0}
WordsWritten == {Word(writeAddrs[j]) : j \in Served}

Accept(addrs, num, len) ==
  /\ writeState = s_write_idle /\ writeState' = s_write_data
  /\ writeAddrs' = addrs /\ writeAddrNum' = num
  /\ writeMaxAddr' = addrs[0] + (IF len > dataByte THEN len - dataByte ELSE 0)

Idle ==
  /\ writeState = s_write_idle
  /\ UNCHANGED <<writeState, writeAddrs, writeAddrNum, writeMaxAddr>>

Abort(expReq) ==
  /\ writeState = s_write_data /\ expReq /\ writeState' = s_write_idle
  /\ UNCHANGED <<writeAddrs, writeAddrNum, writeMaxAddr>>

Write(expReq, fire) ==
  /\ writeState = s_write_data /\ ~expReq /\ fire
  /\ writeAddrs' = [j \in AddrIdx |-> writeAddrs[j] + dataByte]
  /\ writeState' = IF writeAddrs[0] >= writeMaxAddr THEN s_write_idle ELSE s_write_data
  /\ UNCHANGED <<writeAddrNum, writeMaxAddr>>

Stall(expReq, fire) ==
  /\ writeState = s_write_data /\ ~expReq /\ ~fire
  /\ UNCHANGED <<writeState, writeAddrs, writeAddrNum, writeMaxAddr>>

\* The acknowledgement of an abort, in the cycle after it.
ExpAck(expReq) ==
  write_exp_ack' = \/ writeState = s_write_data /\ expReq
                   \/ writeState # s_write_idle /\ write_exp_ack

\* A cycle without a new request.
Serve(expReq, fire) == Idle \/ Abort(expReq) \/ Write(expReq, fire) \/ Stall(expReq, fire)
=============================================================================
