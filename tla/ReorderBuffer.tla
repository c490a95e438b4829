--------------------------- MODULE ReorderBuffer ---------------------------
(***************************************************************************)
(* The reorder buffer of the DMA (ReorderBuffer in cgra-mg/.../soc/        *)
(* DMA.scala): responses come in any order of transaction ids and leave in *)
(* the order of the requests.  The response that is due passes through     *)
(* (s_bypass); any other is written to the buffer and read from there when *)
(* its turn comes (s_read).                                                *)
(*                                                                         *)
(* A word of data is a value the environment chooses.  A request carries   *)
(* log2 of its size in bytes; sizes here are those the bus returns.        *)
(***************************************************************************)
EXTENDS ChiselQueue

CONSTANTS
  dataByte,        (* Bytes of a word, a power of two.                   *)
  maxLgBurstSize,  (* log2 of the largest response.                      *)
  nReqInflight     (* Transaction ids.                                   *)

VARIABLES
  ready,              \* io.req.ready
  reqQue,             \* requests in order, [id, size]
  statusTable,        \* of each id: 0 idle, 1 requested, 2 in the buffer
  state,
  rdOffset, wrOffset, \* words read and written of the packet in hand
  doutValid, doutLast,
  buf_we,             \* a response is being written to the buffer
  buffer,             \* its contents
  dout                \* its output, kept while the port is not enabled

vars == <<ready, reqQue, statusTable, state, rdOffset, wrOffset, doutValid,
          doutLast, buf_we, buffer, dout>>

s_idle   == "s_idle"
s_bypass == "s_bypass"
s_read   == "s_read"

Ids     == 0 .. nReqInflight - 1
Log2Ceil(n) == CHOOSE k \in 0 .. n : 2^k >= n /\ \A j \in 0 .. k - 1 : 2^j < n
Offsets == 0 .. (2^maxLgBurstSize \div dataByte) - 1

Init(blank) ==
  /\ ready = FALSE /\ reqQue = <<>> /\ statusTable = [i \in Ids |-> 0]
  /\ state = s_idle /\ rdOffset = 0 /\ wrOffset = 0
  /\ doutValid = FALSE /\ doutLast = FALSE /\ buf_we = FALSE
  /\ buffer = [a \in Ids \X Offsets |-> blank] /\ dout = blank

due == Head(reqQue)

\* The register bypass is set and reset with the state.
bypass == state = s_bypass

\* The size is kept in lgSize = log2Ceil(maxLgBurstSize) bits.
Kept(size) == size % 2^Log2Ceil(maxLgBurstSize)

\* Words of the packet that is due, by the size kept.
rdDataSize == IF 2^due.size <= dataByte THEN 1 ELSE 2^due.size \div dataByte

---------------------------------------------------------------------------
(* Requests: accepted with a pulse of ready, a cycle after they are queued.*)

\* Mutant of Admits: nothing is asked of the queue and of the id.
Bug_Admits(valid, id) == ~ready /\ valid /\ id \in Ids

\* Mutant of Admits: an id is taken as soon as it is answered, though its
\* words may still be in the buffer.
Bug_Admits_answered(valid, id) == ~ready /\ valid /\ statusTable[id] # 1

Admits(valid, id) ==
  ~ready /\ valid /\ statusTable[id] = 0 /\ enq_ready(reqQue, nReqInflight)

req_fire(valid) == valid /\ ready

---------------------------------------------------------------------------
(* Responses.  inp is what the response port shows: valid, id, word, last. *)

\* Mutant of ToBypass: a response passes while another one is being stored.
Bug_ToBypass(inp) ==
  state = s_idle /\ deq_valid(reqQue) /\ inp.valid /\ due.id = inp.id

ToBypass(inp) ==
  state = s_idle /\ deq_valid(reqQue) /\ inp.valid /\ ~buf_we /\ due.id = inp.id
ToRead(inp) ==
  /\ state = s_idle /\ ~ToBypass(inp)
  /\ deq_valid(reqQue) /\ statusTable[due.id] = 2
ToBuffer(inp) ==
  ~buf_we /\ state = s_idle /\ deq_valid(reqQue) /\ inp.valid /\ due.id # inp.id

in_ready(outReady) == (bypass /\ outReady) \/ buf_we
EndOfBypass(inp, outReady) == bypass /\ outReady /\ inp.valid /\ inp.last
\* Mutant of EndOfRead: off by one.
Bug_EndOfRead(outReady) == state = s_read /\ outReady /\ rdOffset > rdDataSize

EndOfRead(outReady) == state = s_read /\ outReady /\ rdOffset >= rdDataSize
EndOfStore(inp)            == buf_we /\ inp.valid /\ inp.last
ReadOn(outReady)           == state = s_read /\ outReady /\ rdOffset < rdDataSize

out_valid(inp) == doutValid \/ (bypass /\ inp.valid)
out_word(inp)  == IF bypass THEN inp.word ELSE dout
out_last(inp)  == (doutValid /\ doutLast) \/ (bypass /\ inp.last)

---------------------------------------------------------------------------
StateStep(inp, outReady) ==
  state' = IF ToBypass(inp) THEN s_bypass
           ELSE IF ToRead(inp) THEN s_read
           ELSE IF EndOfBypass(inp, outReady) \/ EndOfRead(outReady) THEN s_idle
           ELSE state

\* Reading ahead of the output by one word.
ReadStep(inp, outReady) ==
  \/ /\ ToRead(inp) \/ ReadOn(outReady)
     /\ rdOffset' = rdOffset + 1
     /\ doutValid' = TRUE /\ doutLast' = (rdOffset + 1 >= rdDataSize)
     /\ dout' = buffer[<<due.id, rdOffset % (2^maxLgBurstSize \div dataByte)>>]
  \/ /\ EndOfRead(outReady)
     /\ rdOffset' = 0 /\ doutValid' = FALSE /\ doutLast' = FALSE
     /\ UNCHANGED dout
  \/ /\ ~ToRead(inp) /\ ~ReadOn(outReady) /\ ~EndOfRead(outReady)
     /\ UNCHANGED <<rdOffset, doutValid, doutLast, dout>>

\* While buf_we is set the buffer is written in every cycle, whether or not
\* the response port shows a valid word.
StoreStep(inp) ==
  /\ buf_we' = (ToBuffer(inp) \/ (buf_we /\ ~EndOfStore(inp)))
  /\ wrOffset' = IF EndOfStore(inp) THEN 0
                 ELSE IF buf_we /\ inp.valid
                 THEN (wrOffset + 1) % (2^maxLgBurstSize \div dataByte) ELSE wrOffset
  /\ buffer' = IF buf_we THEN [buffer EXCEPT ![<<inp.id, wrOffset>>] = inp.word]
               ELSE buffer

StatusStep(reqValid, reqId, inp, deq) ==
  statusTable' =
    [i \in Ids |-> IF req_fire(reqValid) /\ reqId = i THEN 1
                   ELSE IF EndOfStore(inp) /\ inp.id = i THEN 2
                   ELSE IF deq /\ due.id = i THEN 0
                   ELSE statusTable[i]]

Cycle(reqValid, reqId, reqSize, inp, outReady) ==
  LET deq == EndOfBypass(inp, outReady) \/ EndOfRead(outReady)
      enq == Admits(reqValid, reqId)
  IN  /\ ready' = enq
      /\ reqQue' = QueStep(reqQue, nReqInflight, deq, enq,
                           [id |-> reqId, size |-> Kept(reqSize)])
      /\ StateStep(inp, outReady)
      /\ ReadStep(inp, outReady)
      /\ StoreStep(inp)
      /\ StatusStep(reqValid, reqId, inp, deq)
=============================================================================
