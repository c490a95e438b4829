----------------------------- MODULE StorePath -----------------------------
(***************************************************************************)
(* The way of a store: StoreController between the stream read port of the *)
(* scratchpad and the write controller of the DMA, as TRAM.scala wires     *)
(* them, with the translation buffer and the bus as environment.  A step   *)
(* is a clock cycle: the three blocks step together.                       *)
(*                                                                         *)
(* Memory is addressed by virtual addresses: a block lies within a page,   *)
(* so that translation moves it as a whole.                                *)
(***************************************************************************)
EXTENDS Integers

CONSTANTS
  Requests,       (* Stores: remote_addr, spad_addr, total_len, in bytes.   *)
  dataByte,       (* Bytes of a word of the stream and of a beat.           *)
  maxLgSizeTL,    (* log2 of the largest packet.                            *)
  lgMaxDataLen,   (* Width of lengths.                                      *)
  nReqInflight,   (* Transaction ids of the write controller.               *)
  TLBMayMiss,     (* A translation may fail: entries are being flushed.     *)
  MaxUnacked      (* Bound: packets the bus holds unanswered under one id.  *)

ASSUME StorePathAssumption ==
  /\ maxLgSizeTL \in Nat /\ dataByte \in {2^n : n \in 0 .. maxLgSizeTL}
  /\ nReqInflight \in Nat \ {0} /\ lgMaxDataLen \in Nat /\ MaxUnacked \in Nat \ {0}

\* Two facts of exponentiation, of which the provers know nothing.
ASSUME PowersAssumption ==
  /\ \A n \in 0 .. maxLgSizeTL : 2^n \in Nat \ {0} /\ 2^(n + 1) = 2 * 2^n
  /\ 2^lgMaxDataLen \in Nat \ {0}

(* Addresses are those of whole words: the arrays of the programs are      *)
(* declared aligned(16), and IOScheduler aligns those in the scratchpad.   *)
(* An offset and a length fit into a register of lengths, which is as wide *)
(* as an address of the scratchpad, and no single byte is stored.          *)
ASSUME RequestsAssumption ==
  /\ dataByte # 1
  /\ \A r \in Requests :
       /\ r.remote_addr \in Nat /\ r.remote_addr % dataByte = 0
       /\ r.spad_addr \in Nat /\ r.spad_addr % dataByte = 0
       /\ r.total_len \in 2 .. 2^lgMaxDataLen - 2^maxLgSizeTL

VARIABLES
  sc_state, remote_addr, spad_addr, sc_leftLen, success,         \* controller
  readState, readAddr, readMaxAddr, rdataValid, rdata, read_exp_ack,  \* port
  dw_state, vaddr, dw_leftLen, more, len, base, addr, tl_id,     \* DMA writer
  unacked,    \* bus: packets not acknowledged yet, by transaction id
  request,    \* history: the store last taken
  copied      \* history: pairs of remote and scratchpad bytes it has put

sc   == <<sc_state, remote_addr, spad_addr, sc_leftLen, success>>
spad == <<readState, readAddr, readMaxAddr, rdataValid, rdata, read_exp_ack>>
dw   == <<dw_state, vaddr, dw_leftLen, more, len, base, addr, tl_id>>
vars == <<sc, spad, dw, unacked, request, copied>>

SC   == INSTANCE StoreController WITH state <- sc_state, leftLen <- sc_leftLen
Spad == INSTANCE ScratchpadRead
DW   == INSTANCE DMAWrite WITH state <- dw_state, leftLen <- dw_leftLen

Ids == 0 .. nReqInflight - 1

---------------------------------------------------------------------------
(* Wires.  aReady is the bus's. *)
spad_req_fire == SC!spad_req_valid /\ Spad!req_ready
dma_req_fire  == SC!dma_req_valid /\ DW!req_ready
stream_ready(aReady) == DW!stream_ready(aReady) /\ SC!streaming
stream_valid  == rdataValid /\ SC!streaming
a_fire(aReady) == DW!a_valid(stream_valid) /\ aReady

\* The bytes a beat puts into memory, each with the byte of the scratchpad.
Carried ==
  LET first == DW!vxn(vaddr) * DW!maxSizeTL + addr
  IN  {<<b, rdata + (b - first)>> : b \in DW!MaskedBytes}

---------------------------------------------------------------------------
Init ==
  /\ SC!Init /\ Spad!Init /\ DW!Init
  /\ unacked = [s \in Ids |-> 0]
  /\ request \in Requests /\ copied = {}

TakeCommand ==
  \E r \in Requests : SC!Accept(r) /\ request' = r /\ copied' = {}

ServeCommand(aReady) ==
  /\ SC!Serve(spad_req_fire, dma_req_fire, DW!exp_req,
              rdataValid /\ stream_ready(aReady), read_exp_ack, TRUE)
  /\ copied' = copied \cup (IF a_fire(aReady) THEN Carried ELSE {})
  /\ UNCHANGED request

SpadStep(aReady) ==
  /\ IF spad_req_fire THEN Spad!Accept(spad_addr, sc_leftLen)
     ELSE Spad!Serve(SC!spad_exp_req, stream_ready(aReady))
  /\ Spad!ExpAck(SC!spad_exp_req)

DMAStep(aReady, tlbReqFire, tlbRespFire, miss) ==
  IF dma_req_fire THEN DW!Accept([addr |-> remote_addr, len |-> sc_leftLen])
  ELSE DW!Serve(tlbReqFire, tlbRespFire, miss, a_fire(aReady), read_exp_ack)

\* The bus takes a packet with its last beat, and acknowledges packets in
\* any order, at most one a cycle.
BusStep(aReady, acked) ==
  LET taken(s) == IF s = tl_id /\ a_fire(aReady) /\ DW!LastBeat THEN 1 ELSE 0
      done(s)  == IF s \in acked THEN 1 ELSE 0
  IN  unacked' = [s \in Ids |-> unacked[s] + taken(s) - done(s)]

Cycle(aReady, tlbReqFire, tlbRespFire, miss, acked) ==
  /\ TakeCommand \/ ServeCommand(aReady)
  /\ SpadStep(aReady)
  /\ DMAStep(aReady, tlbReqFire, tlbRespFire, miss)
  /\ BusStep(aReady, acked)

\* A choice of the environment that matters in some states only.
When(cond) == IF cond THEN BOOLEAN ELSE {FALSE}

Next ==
  \E aReady      \in When(dw_state = "s_dma_req" /\ unacked[tl_id] < MaxUnacked),
     tlbReqFire  \in When(dw_state = "s_tlb_req"),
     tlbRespFire \in When(dw_state = "s_tlb_resp"),
     miss        \in When(dw_state = "s_tlb_resp" /\ TLBMayMiss),
     acked       \in {{}} \cup {{s} : s \in {t \in Ids : unacked[t] > 0}} :
    Cycle(aReady, tlbReqFire, tlbRespFire, miss, acked)

Spec == Init /\ [][Next]_vars

(* The clock keeps ticking; the bus, the translation buffer and the core   *)
(* do not all withhold for ever what the others wait for.                  *)
FairSpec == Spec /\ WF_vars(Next)

---------------------------------------------------------------------------
(* Properties. *)

(* Every register holds a value of its width, and the bus counts packets.  *)
TypeOK ==
  /\ sc_state \in {"s_idle", "s_spad_req", "s_dma_req", "s_stream", "s_exp", "s_resp"}
  /\ sc_leftLen \in 0 .. 2^lgMaxDataLen - 1
  /\ readState \in {"s_read_idle", "s_read_data", "s_read_data_last"}
  /\ rdataValid \in BOOLEAN /\ read_exp_ack \in BOOLEAN /\ success \in BOOLEAN
  /\ remote_addr \in Nat /\ spad_addr \in Nat /\ readAddr \in Nat
  /\ readMaxAddr \in Nat /\ rdata \in Nat /\ vaddr \in Nat
  /\ dw_state \in {"s_idle", "s_slice", "s_wait", "s_tlb_req", "s_tlb_resp",
                   "s_dma_req", "s_exp"}
  /\ dw_leftLen \in 0 .. 2^lgMaxDataLen - 1
  /\ more \in BOOLEAN /\ len \in 0 .. DW!maxSizeTL
  /\ base \in 0 .. DW!maxSizeTL - 1 /\ addr \in 0 .. DW!maxSizeTL - 1
  /\ tl_id \in Ids /\ unacked \in [Ids -> 0 .. MaxUnacked]
  /\ request \in Requests

(* The store path does what StoreService promises: what is in memory when  *)
(* a store is answered with success is what the store asked for.           *)
Service == INSTANCE StoreService WITH busy <- sc_state # "s_idle"
ImplementsStoreService == Service!Spec

(* The three blocks count the words of a store on their own.  While the    *)
(* stream runs they agree on how many are still to come.                   *)
Words(n) == (n + dataByte - 1) \div dataByte
SpadWordsLeft ==
  (IF rdataValid THEN 1 ELSE 0)
  + (IF readState = "s_read_data" /\ readAddr <= request.spad_addr + request.total_len
     THEN Words(request.spad_addr + request.total_len - readAddr) ELSE 0)
DmaWordsLeft ==
  IF dw_state \in {"s_dma_req"}
  THEN LET end  == DW!vxo(vaddr) + dw_leftLen
           from == IF addr < DW!vxo(vaddr) THEN DW!vxo(vaddr) ELSE addr
       IN  IF from < end THEN Words(end - from) ELSE 0
  ELSE Words(dw_leftLen)
WordsInStep ==
  sc_state = "s_stream" /\ dw_state # "s_exp" =>
    Words(sc_leftLen) = SpadWordsLeft /\ Words(sc_leftLen) = DmaWordsLeft

\* The packets a bus allows in a block, and those that hold a range of it.
Packets == {k \in [base : 0 .. DW!maxSizeTL - 1, size : DW!PacketSizes] :
              k.base % k.size = 0 /\ k.base + k.size <= DW!maxSizeTL}
Holding(first, last) ==
  {k \in Packets : k.base <= first /\ last < k.base + k.size}

(* The packet cut from the head of what is left is the smallest aligned    *)
(* power-of-two range of the block that holds all of it that lies in the   *)
(* block ("aligned to power2 value >= it", backward to the block's end or  *)
(* forward to the request's).                                              *)
PacketIsLeast ==
  dw_state = "s_tlb_req" =>
    LET packet == [base |-> base, size |-> DW!packet_size(len)]
        first  == DW!vxo(vaddr)
        end    == IF first + dw_leftLen > DW!maxSizeTL THEN DW!maxSizeTL
                  ELSE first + dw_leftLen
    IN  /\ packet \in Holding(first, end - 1)
        /\ \A k \in Holding(first, end - 1) : packet.size <= k.size

(* Every store is answered and the next one can be taken, unless its       *)
(* translation fails: ExceptionAcknowledged is about those.                *)
EveryStoreAnswered ==
  sc_state # "s_idle" ~> (sc_state = "s_idle" \/ dw_state = "s_exp")

(* ExceptionIF: "req keep true until ack is true".  A unit that reports an *)
(* exception is released by the acknowledgement.                           *)
ExceptionAcknowledged == dw_state = "s_exp" ~> dw_state # "s_exp"

(* DMAReq.len is the "transferring data length in bytes" and "over-fetched *)
(* data is invalid, not transferred": nothing but the request is written.  *)
WritesOnlyRequest == copied \subseteq Service!Bytes(request, request.total_len)

(* A store in service no more is complete in memory: a fence answers when  *)
(* "previous commands have all been completed".                            *)
AnsweredIsWritten == sc_state = "s_idle" => \A s \in Ids : unacked[s] = 0
=============================================================================
