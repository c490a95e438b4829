-------------------------- MODULE StoreController --------------------------
(***************************************************************************)
(* The store controller (cgra-mg/.../soc/StoreController.scala): one store *)
(* at a time, it asks the scratchpad and then the DMA for a stream each,   *)
(* joins the two (streamQueDepth is 0 in every configuration, so that they *)
(* are one wire), counts the words down and answers.                       *)
(*                                                                         *)
(* The operators take the wires the controller reads in a cycle.  The id   *)
(* travels with the one store in service and is left out.                  *)
(***************************************************************************)
EXTENDS Integers

CONSTANTS
  dataByte,       (* Bytes of a stream word.           *)
  lgMaxDataLen    (* Width of the register of lengths. *)

VARIABLES
  state,
  remote_addr, spad_addr,  \* where to, where from
  leftLen,                 \* bytes the stream has not carried yet
  success

vars == <<state, remote_addr, spad_addr, leftLen, success>>

s_idle     == "s_idle"
s_spad_req == "s_spad_req"
s_dma_req  == "s_dma_req"
s_stream   == "s_stream"
s_exp      == "s_exp"
s_resp     == "s_resp"

Init ==
  /\ state = s_idle /\ remote_addr = 0 /\ spad_addr = 0 /\ leftLen = 0
  /\ success = TRUE

core_req_ready == state = s_idle
spad_req_valid == state = s_spad_req
dma_req_valid  == state = s_dma_req
spad_exp_req   == state = s_exp
core_resp_valid == state = s_resp
streaming      == state = s_stream   \* gates both ends of the stream

Accept(req) ==
  /\ state = s_idle /\ state' = s_spad_req
  /\ remote_addr' = req.remote_addr /\ spad_addr' = req.spad_addr
  /\ leftLen' = req.total_len /\ success' = TRUE

SpadReq(fire) ==
  /\ state = s_spad_req /\ state' = IF fire THEN s_dma_req ELSE s_spad_req
  /\ UNCHANGED <<remote_addr, spad_addr, leftLen, success>>

DmaReq(fire) ==
  /\ state = s_dma_req /\ state' = IF fire THEN s_stream ELSE s_dma_req
  /\ UNCHANGED <<remote_addr, spad_addr, leftLen, success>>

\* Mutant of LastWord: it is never there.
Bug_LastWord_late == leftLen < dataByte

LastWord == leftLen <= dataByte

Stream(expReq, fire) ==
  /\ state = s_stream
  /\ UNCHANGED <<remote_addr, spad_addr>>
  /\ \/ expReq /\ state' = s_exp /\ success' = FALSE /\ UNCHANGED leftLen
     \/ /\ ~expReq /\ fire
        /\ leftLen' = (leftLen - dataByte) % 2^lgMaxDataLen
        /\ state' = IF LastWord THEN s_resp ELSE s_stream
        /\ UNCHANGED success
     \/ ~expReq /\ ~fire /\ UNCHANGED <<state, leftLen, success>>

Exp(ack) ==
  /\ state = s_exp /\ state' = IF ack THEN s_resp ELSE s_exp
  /\ UNCHANGED <<remote_addr, spad_addr, leftLen, success>>

Resp(respReady) ==
  /\ state = s_resp /\ state' = IF respReady THEN s_idle ELSE s_resp
  /\ UNCHANGED <<remote_addr, spad_addr, leftLen, success>>

\* A cycle without a new command.
Serve(spadReqReady, dmaReqReady, expReq, streamFire, expAck, respReady) ==
  \/ state = s_idle /\ UNCHANGED vars
  \/ SpadReq(spadReqReady) \/ DmaReq(dmaReqReady)
  \/ Stream(expReq, streamFire) \/ Exp(expAck) \/ Resp(respReady)
=============================================================================
