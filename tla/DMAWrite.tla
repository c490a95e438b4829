----------------------------- MODULE DMAWrite ------------------------------
(***************************************************************************)
(* The write controller of the DMA (DMAWriteController in                  *)
(* cgra-mg/.../soc/DMA.scala): it cuts a request into packets (DMASlice),  *)
(* has the address of each translated, and sends its beats on the bus, the *)
(* beats outside the request with an empty mask and without taking a word  *)
(* from the stream.                                                        *)
(*                                                                         *)
(* The registers len_align_bw, len_align_fw and their selection follow     *)
(* vaddr and leftLen with a delay of two cycles, which is what s_slice and *)
(* s_wait are for: they are written here where they become valid.          *)
(***************************************************************************)
EXTENDS DMASlice

CONSTANTS nReqInflight   (* Number of transaction ids. *)

VARIABLES
  state,
  vaddr, leftLen,   \* what is left of the request
  more,             \* selBw: another packet follows this one
  len, base,        \* the packet: len_align, vxo_align
  addr,             \* offset of the beat within the block
  tl_id             \* transaction id of the packet

vars == <<state, vaddr, leftLen, more, len, base, addr, tl_id>>
packet == <<more, len, base>>

s_idle     == "s_idle"
s_slice    == "s_slice"
s_wait     == "s_wait"
s_tlb_req  == "s_tlb_req"
s_tlb_resp == "s_tlb_resp"
s_dma_req  == "s_dma_req"
s_exp      == "s_exp"

Init ==
  /\ state = s_idle /\ vaddr = 0 /\ leftLen = 0 /\ more = FALSE
  /\ len = 0 /\ base = 0 /\ addr = 0 /\ tl_id = 0

req_ready == state = s_idle
exp_req   == state = s_exp

\* Mutant of isDataInvalid: the beats before the request are sent with data.
Bug_isDataInvalid == addr >= vxo(vaddr) + leftLen

\* "over-fetched data is invalid, not transferred on the stream interface"
isDataInvalid == addr < vxo(vaddr) \/ addr >= vxo(vaddr) + leftLen

stream_ready(aReady) == state = s_dma_req /\ aReady /\ ~isDataInvalid
a_valid(streamValid) == state = s_dma_req /\ (streamValid \/ isDataInvalid)

\* The beat is the last of its packet: edge.done when it fires.
LastBeat == addr + dataByte >= base + packet_size(len)

next_tl_id == IF tl_id < nReqInflight - 1 THEN tl_id + 1 ELSE 0

\* Bytes of the address space the mask of the beat lets through, all of
\* the beat or, in a packet smaller than a beat, all of the packet.
MaskedBytes ==
  LET first == vxn(vaddr) * maxSizeTL + addr
      size  == IF packet_size(len) < dataByte THEN packet_size(len) ELSE dataByte
  IN  IF isDataInvalid THEN {} ELSE first .. (first + size - 1)

Accept(req) ==
  /\ state = s_idle /\ state' = s_slice
  /\ vaddr' = req.addr /\ leftLen' = req.len
  /\ UNCHANGED <<packet, addr, tl_id>>

Slice ==
  /\ state = s_slice /\ state' = s_wait
  /\ more' = selBw(vaddr, leftLen)
  /\ UNCHANGED <<vaddr, leftLen, len, base, addr, tl_id>>

Wait ==
  /\ state = s_wait /\ state' = s_tlb_req
  /\ len' = len_align(vaddr, leftLen, more)
  /\ base' = vxo_align(vaddr, len')
  /\ UNCHANGED <<vaddr, leftLen, more, addr, tl_id>>

TlbReq(fire) ==
  /\ state = s_tlb_req /\ state' = IF fire THEN s_tlb_resp ELSE s_tlb_req
  /\ UNCHANGED <<vaddr, leftLen, packet, addr, tl_id>>

TlbResp(fire, miss) ==
  /\ state = s_tlb_resp
  /\ state' = IF ~fire THEN s_tlb_resp ELSE IF miss THEN s_exp ELSE s_dma_req
  /\ addr' = base
  /\ UNCHANGED <<vaddr, leftLen, packet, tl_id>>

\* A beat that is not the packet's last, or none.
Beat(aFire) ==
  /\ state = s_dma_req /\ ~(aFire /\ LastBeat)
  /\ addr' = IF aFire THEN (addr + dataByte) % maxSizeTL ELSE addr
  /\ UNCHANGED <<state, vaddr, leftLen, packet, tl_id>>

Done(aFire) ==
  /\ state = s_dma_req /\ aFire /\ LastBeat
  /\ addr' = (addr + dataByte) % maxSizeTL
  /\ state' = IF more THEN s_slice ELSE s_idle
  /\ leftLen' = next_leftLen(vaddr, leftLen, more)
  /\ vaddr' = next_vaddr(vaddr)
  /\ tl_id' = next_tl_id
  /\ UNCHANGED packet

Exp(ack) ==
  /\ state = s_exp /\ state' = IF ack THEN s_idle ELSE s_exp
  /\ UNCHANGED <<vaddr, leftLen, packet, addr, tl_id>>

\* A cycle without a new request.
Serve(tlbReqFire, tlbRespFire, miss, aFire, expAck) ==
  \/ state = s_idle /\ UNCHANGED vars
  \/ Slice \/ Wait \/ TlbReq(tlbReqFire) \/ TlbResp(tlbRespFire, miss)
  \/ Beat(aFire) \/ Done(aFire) \/ Exp(expAck)
=============================================================================
