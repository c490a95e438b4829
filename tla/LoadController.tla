-------------------------- MODULE LoadController ---------------------------
(***************************************************************************)
(* The load controller (cgra-mg/.../soc/LoadController.scala), two FSMs    *)
(* with a queue between them.  The first collects loads marked fused (one  *)
(* source, several scratchpad addresses), up to spadAddrNum of them, and   *)
(* asks the DMA for their words once.  The second asks the scratchpad to   *)
(* write the words to all the addresses, answers all the loads of a group  *)
(* but one beforehand, passes the words on (streamQueDepth is 0), and      *)
(* answers the last when they have all gone by.                            *)
(*                                                                         *)
(* The register fused is written and never read, and left out.             *)
(***************************************************************************)
EXTENDS ChiselQueue

CONSTANTS
  dataByte,       (* Bytes of a stream word.                    *)
  lgMaxDataLen,   (* Width of the registers of lengths.         *)
  spadAddrNum,    (* Loads that can share a transfer.           *)
  reqQueDepth     (* Depth of the queue between the FSMs.       *)

VARIABLES
  state, remote_addr, spad_addrs, addr_num, total_len, id,
  spadReqQue,
  spadState, leftLen, leftNum, spadReqId, success

request == <<state, remote_addr, spad_addrs, addr_num, total_len, id>>
stream  == <<spadState, leftLen, leftNum, spadReqId, success>>
vars    == <<request, spadReqQue, stream>>

s_idle    == "s_idle"
s_dma_req == "s_dma_req"
s_spad_req    == "s_spad_req"
s_spad_stream == "s_spad_stream"
s_exp      == "s_exp"
s_pre_resp == "s_pre_resp"
s_resp     == "s_resp"

AddrIdx == 0 .. spadAddrNum - 1

Init ==
  /\ state = s_idle /\ remote_addr = 0 /\ spad_addrs = [j \in AddrIdx |-> 0]
  /\ addr_num = 0 /\ total_len = 0 /\ id = 0
  /\ spadReqQue = <<>>
  /\ spadState = s_spad_req /\ leftLen = 0 /\ leftNum = 0 /\ spadReqId = 0
  /\ success = TRUE

core_req_ready  == state = s_idle
core_resp_valid == spadState \in {s_pre_resp, s_resp}
dma_req_valid   == state = s_dma_req /\ enq_ready(spadReqQue, reqQueDepth)
spad_req_valid  == spadState = s_spad_req /\ deq_valid(spadReqQue)
spad_exp_req    == spadState = s_exp
streaming       == spadState = s_spad_stream   \* gates both ends of the stream

---------------------------------------------------------------------------
(* Requests. *)

GroupComplete(cmd) == ~cmd.fused \/ addr_num = spadAddrNum - 1

Accept(cmd) ==
  /\ state = s_idle
  /\ remote_addr' = cmd.remote_addr /\ total_len' = cmd.total_len /\ id' = cmd.id
  /\ spad_addrs' = [spad_addrs EXCEPT ![addr_num] = cmd.spad_addr]
  /\ IF GroupComplete(cmd) THEN state' = s_dma_req /\ UNCHANGED addr_num
     ELSE UNCHANGED state /\ addr_num' = addr_num + 1

DmaReq(fire) ==
  /\ state = s_dma_req
  /\ IF fire THEN state' = s_idle /\ addr_num' = 0 ELSE UNCHANGED <<state, addr_num>>
  /\ UNCHANGED <<remote_addr, spad_addrs, total_len, id>>

\* A cycle without a new load.
ServeRequest(dmaReqFire) ==
  DmaReq(dmaReqFire) \/ (state = s_idle /\ UNCHANGED request)

SpadReqQue(dmaReqFire, spadReqFire) ==
  spadReqQue' = QueStep(spadReqQue, reqQueDepth, spadReqFire, dmaReqFire,
                        [addrs |-> spad_addrs, num |-> addr_num, len |-> total_len,
                         id |-> id])

---------------------------------------------------------------------------
(* Streams. *)

SpadReq(fire) ==
  /\ spadState = s_spad_req
  /\ IF fire
     THEN LET r == Head(spadReqQue)
          IN  /\ leftLen' = r.len /\ leftNum' = r.num /\ spadReqId' = r.id
              /\ success' = TRUE
              /\ spadState' = IF r.num > 0 THEN s_pre_resp ELSE s_spad_stream
     ELSE UNCHANGED stream

\* Mutants of LastWord: the answer comes a word early, or never.
Bug_LastWord_early == leftLen <= 2 * dataByte
Bug_LastWord_late  == leftLen < dataByte

LastWord == leftLen <= dataByte

Stream(expReq, fire) ==
  /\ spadState = s_spad_stream
  /\ UNCHANGED <<leftNum, spadReqId>>
  /\ \/ expReq /\ spadState' = s_exp /\ success' = FALSE /\ UNCHANGED leftLen
     \/ /\ ~expReq /\ fire
        /\ leftLen' = (leftLen - dataByte) % 2^lgMaxDataLen
        /\ spadState' = IF LastWord THEN s_resp ELSE s_spad_stream
        /\ UNCHANGED success
     \/ ~expReq /\ ~fire /\ UNCHANGED <<spadState, leftLen, success>>

Exp(ack) ==
  /\ spadState = s_exp /\ spadState' = IF ack THEN s_resp ELSE s_exp
  /\ UNCHANGED <<leftLen, leftNum, spadReqId, success>>

\* Mutant of LastPreResp: as many early answers as loads, one too many.
Bug_LastPreResp == leftNum = 0

LastPreResp == leftNum = 1

PreResp(respReady) ==
  /\ spadState = s_pre_resp
  /\ IF respReady
     THEN /\ leftNum' = leftNum - 1
          /\ spadState' = IF LastPreResp THEN s_spad_stream ELSE s_pre_resp
     ELSE UNCHANGED <<leftNum, spadState>>
  /\ UNCHANGED <<leftLen, spadReqId, success>>

Resp(respReady) ==
  /\ spadState = s_resp /\ spadState' = IF respReady THEN s_spad_req ELSE s_resp
  /\ UNCHANGED <<leftLen, leftNum, spadReqId, success>>

StreamSide(spadReqFire, expReq, streamFire, expAck, respReady) ==
  \/ SpadReq(spadReqFire) \/ Stream(expReq, streamFire) \/ Exp(expAck)
  \/ PreResp(respReady) \/ Resp(respReady)
=============================================================================
