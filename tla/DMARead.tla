------------------------------ MODULE DMARead ------------------------------
(***************************************************************************)
(* The read controller of the DMA (DMAReadController in                    *)
(* cgra-mg/.../soc/DMA.scala): one FSM cuts requests into packets and has  *)
(* them translated, a second one brings each packet first to the reorder   *)
(* buffer and then to the bus, a third one takes the words out of the      *)
(* reorder buffer, packet by packet as packetInfoQue lists them, and keeps *)
(* the ones the request asked for.  An exception takes its place in        *)
(* packetInfoQue, behind the packets before it.                            *)
(***************************************************************************)
EXTENDS DMASlice, ChiselQueue

CONSTANTS nReqInflight   (* Transaction ids, and depth of packetInfoQue. *)

VARIABLES
  state,
  vaddr, leftLen, id,   \* what is left of the request
  more,                 \* selBw: another packet follows this one
  len, base,            \* the packet: len_align, vxo_align
  dma_req_state, tl_id, \* the way of the packet to the bus
  packetInfoQue,
  streamState,
  min_pos, max_pos, cache_id, addr    \* the packet that streams

slicer == <<state, vaddr, leftLen, id, more, len, base>>
stream == <<streamState, min_pos, max_pos, cache_id, addr>>
vars   == <<slicer, dma_req_state, tl_id, packetInfoQue, stream>>
packet == <<more, len, base>>

s_idle     == "s_idle"
s_slice    == "s_slice"
s_wait     == "s_wait"
s_tlb_req  == "s_tlb_req"
s_tlb_resp == "s_tlb_resp"
s_dma_req  == "s_dma_req"
s_exp      == "s_exp"

s_dma_req_idle == "s_dma_req_idle"
s_dma_req_wait == "s_dma_req_wait"
s_dma_req_load == "s_dma_req_load"

s_stream_idle == "s_stream_idle"
s_stream_data == "s_stream_data"
s_stream_exp  == "s_stream_exp"

Init ==
  /\ state = s_idle /\ vaddr = 0 /\ leftLen = 0 /\ id = 0
  /\ more = FALSE /\ len = 0 /\ base = 0
  /\ dma_req_state = s_dma_req_idle /\ tl_id = 0
  /\ packetInfoQue = <<>>
  /\ streamState = s_stream_idle
  /\ min_pos = 0 /\ max_pos = 0 /\ cache_id = 0 /\ addr = 0

req_ready == state = s_idle
exp_req   == streamState = s_stream_exp

---------------------------------------------------------------------------
(* Slicer. *)

Accept(req) ==
  /\ state = s_idle /\ state' = s_slice
  /\ vaddr' = req.addr /\ leftLen' = req.len /\ id' = req.id
  /\ UNCHANGED packet

Slice ==
  /\ state = s_slice /\ state' = s_wait
  /\ more' = selBw(vaddr, leftLen)
  /\ UNCHANGED <<vaddr, leftLen, id, len, base>>

Wait ==
  /\ state = s_wait /\ state' = s_tlb_req
  /\ len' = len_align(vaddr, leftLen, more)
  /\ base' = vxo_align(vaddr, len')
  /\ UNCHANGED <<vaddr, leftLen, id, more>>

TlbReq(fire) ==
  /\ state = s_tlb_req /\ state' = IF fire THEN s_tlb_resp ELSE s_tlb_req
  /\ UNCHANGED <<vaddr, leftLen, id, packet>>

TlbResp(fire, miss) ==
  /\ state = s_tlb_resp
  /\ state' = IF ~fire THEN s_tlb_resp ELSE IF miss THEN s_exp ELSE s_dma_req
  /\ UNCHANGED <<vaddr, leftLen, id, packet>>

DmaReq(aFire) ==
  /\ state = s_dma_req
  /\ \/ ~aFire /\ UNCHANGED <<state, vaddr, leftLen>>
     \/ /\ aFire
        /\ state' = IF more THEN s_slice ELSE s_idle
        /\ leftLen' = next_leftLen(vaddr, leftLen, more)
        /\ vaddr' = next_vaddr(vaddr)
  /\ UNCHANGED <<id, packet>>

Exp ==
  /\ state = s_exp
  /\ state' = IF enq_ready(packetInfoQue, nReqInflight) THEN s_idle ELSE s_exp
  /\ UNCHANGED <<vaddr, leftLen, id, packet>>

\* A cycle without a new request.
Serve(tlbReqFire, tlbRespFire, miss, aFire) ==
  \/ state = s_idle /\ UNCHANGED slicer
  \/ Slice \/ Wait \/ TlbReq(tlbReqFire) \/ TlbResp(tlbRespFire, miss)
  \/ DmaReq(aFire) \/ Exp

---------------------------------------------------------------------------
(* To the reorder buffer and the bus.  reorder_req_valid is set in         *)
(* s_dma_req_wait, tl_a_valid in s_dma_req_load.                           *)

reorder_req_valid == dma_req_state = s_dma_req_wait
a_valid(robReady) ==
  (reorder_req_valid /\ robReady) \/ dma_req_state = s_dma_req_load

next_tl_id == IF tl_id < nReqInflight - 1 THEN tl_id + 1 ELSE 0

BusReq(hit, robReady, aReady) ==
  /\ \/ /\ dma_req_state = s_dma_req_idle
        /\ dma_req_state' = IF hit THEN s_dma_req_wait ELSE s_dma_req_idle
     \/ /\ dma_req_state = s_dma_req_wait
        /\ dma_req_state' = IF ~robReady THEN s_dma_req_wait
                            ELSE IF aReady THEN s_dma_req_idle ELSE s_dma_req_load
     \/ /\ dma_req_state = s_dma_req_load
        /\ dma_req_state' = IF aReady THEN s_dma_req_idle ELSE s_dma_req_load
  /\ tl_id' = IF a_valid(robReady) /\ aReady THEN next_tl_id ELSE tl_id

PacketInfo ==
  LET end == vxo(vaddr) - base + leftLen
  IN  [min_pos |-> vxo(vaddr) - base,
       max_pos |-> IF end >= maxSizeTL THEN maxSizeTL - 1 ELSE end,
       id |-> id, exception |-> state = s_exp]

\* The queue is not asked for room when a packet goes to the bus.
InfoQue(aFire) ==
  packetInfoQue' = QueStep(packetInfoQue, nReqInflight, streamState = s_stream_idle,
                           aFire \/ state = s_exp, PacketInfo)

---------------------------------------------------------------------------
(* Stream. *)

\* "over-fetched data is invalid, not transferred on the stream interface"
isDataInvalid == addr < min_pos \/ addr >= max_pos

stream_valid(outValid) == streamState = s_stream_data /\ outValid /\ ~isDataInvalid
out_ready(streamReady) == streamState = s_stream_data /\ (streamReady \/ isDataInvalid)

StreamStep(outFire, outLast, expAck) ==
  /\ IF streamState = s_stream_idle /\ deq_valid(packetInfoQue)
     THEN LET info == Head(packetInfoQue)
          IN  /\ streamState' = IF info.exception THEN s_stream_exp ELSE s_stream_data
              /\ min_pos' = info.min_pos /\ max_pos' = info.max_pos
              /\ cache_id' = info.id
     ELSE /\ streamState' = IF \/ streamState = s_stream_data /\ outFire /\ outLast
                               \/ streamState = s_stream_exp /\ expAck
                            THEN s_stream_idle ELSE streamState
          /\ UNCHANGED <<min_pos, max_pos, cache_id>>
  /\ addr' = IF streamState = s_stream_idle THEN 0
             ELSE IF outFire THEN (addr + dataByte) % maxSizeTL ELSE addr
=============================================================================
