------------------------------ MODULE ReadPath -----------------------------
(***************************************************************************)
(* The read side of the DMA: DMAReadController with its ReorderBuffer,     *)
(* between a requester, the translation buffer and a bus that answers in   *)
(* any order.  A step is a clock cycle.                                    *)
(*                                                                         *)
(* A word of data is its address in memory.                                *)
(***************************************************************************)
EXTENDS Integers, Sequences, FiniteSets

CONSTANTS
  Requests,       (* Reads: addr, len in bytes, id.                         *)
  dataByte,       (* Bytes of a word of the stream and of a beat.           *)
  maxLgSizeTL,    (* log2 of the largest packet.                            *)
  nReqInflight,   (* Transaction ids.                                       *)
  MaxMisses,      (* Bound: exceptions the DMA has not handed on yet.       *)
  Stalls,         (* Who may wait: "requester", "tlb", "bus", "consumer".   *)
  BitsHeld        (* A response port that shows no valid word keeps its     *)
                  (* bits; otherwise they are those of any earlier packet.  *)

ASSUME ReadPathAssumption ==
  /\ maxLgSizeTL \in Nat /\ dataByte \in {2^n : n \in 0 .. maxLgSizeTL}
  /\ nReqInflight \in Nat \ {0} /\ MaxMisses \in Nat
  /\ Stalls \subseteq {"requester", "tlb", "bus", "consumer"}

\* Two facts of exponentiation, of which the provers know nothing.
ASSUME PowersAssumption ==
  \A n \in 0 .. maxLgSizeTL : 2^n \in Nat \ {0} /\ 2^(n + 1) = 2 * 2^n

(* Reads begin at whole words, as the arrays of the programs do (they are  *)
(* declared aligned(16)), and are longer than a byte, as a word is.        *)
ASSUME RequestsAssumption ==
  /\ dataByte # 1
  /\ \A r \in Requests :
       r.addr \in Nat /\ r.addr % dataByte = 0 /\ r.len \in Nat \ {0, 1}

VARIABLES
  state, vaddr, leftLen, id, more, len, base,                 \* controller
  dma_req_state, tl_id, packetInfoQue,
  streamState, min_pos, max_pos, cache_id, addr,
  ready, reqQue, statusTable, rob_state, rdOffset, wrOffset,  \* reorder buffer
  doutValid, doutLast, buf_we, buffer, dout,
  gets,       \* bus: words still to come, by transaction id
  cur,        \* bus: the packet whose words are coming
  d_valid, d_id,  \* bus: its port shows a word; the id on it
  expected    \* history: what the stream is still to carry, in order

ctrl == <<state, vaddr, leftLen, id, more, len, base, dma_req_state, tl_id,
          packetInfoQue, streamState, min_pos, max_pos, cache_id, addr>>
rob  == <<ready, reqQue, statusTable, rob_state, rdOffset, wrOffset,
          doutValid, doutLast, buf_we, buffer, dout>>
bus  == <<gets, cur, d_valid, d_id>>
vars == <<ctrl, rob, bus, expected>>

Ctrl == INSTANCE DMARead
ROB  == INSTANCE ReorderBuffer WITH state <- rob_state, maxLgBurstSize <- maxLgSizeTL

(* The reorder buffer keeps sizes in too few bits when maxLgSizeTL is 1, 2 *)
(* or 4.  Builds have 6.                                                   *)
ASSUME SizesAssumption == \A n \in 0 .. maxLgSizeTL : ROB!Kept(n) = n

Ids  == 0 .. nReqInflight - 1
NoId == -1
Junk == -1      \* what is on a port that shows no valid word
Raised == -2    \* in the place of a word: the request ends with an exception

---------------------------------------------------------------------------
(* Wires. *)
inp ==
  [valid |-> d_valid, id |-> d_id,
   word |-> IF d_valid THEN Head(gets[d_id]) ELSE Junk,
   last |-> d_valid /\ Len(gets[d_id]) = 1]

out_fire(streamReady) == ROB!out_valid(inp) /\ Ctrl!out_ready(streamReady)
stream_valid == Ctrl!stream_valid(ROB!out_valid(inp))
a_fire(aReady) == Ctrl!a_valid(ready) /\ aReady

\* The words that so many bytes from an address on lie in.
WordsFrom(from, bytes) ==
  [n \in 1 .. (bytes + dataByte - 1) \div dataByte |-> from + (n - 1) * dataByte]
PacketWords == WordsFrom(Ctrl!vxn(vaddr) * Ctrl!maxSizeTL + base, Ctrl!packet_size(len))

---------------------------------------------------------------------------
(* The bus answers the packets in any order, the words of a packet         *)
(* together but with pauses, and keeps a word on its port until it is      *)
(* taken.  next is the packet whose word comes next, or NoId; other is     *)
(* the id on a port that shows nothing.                                    *)
BusStep(aReady, streamReady, next, other) ==
  LET taken == d_valid /\ ROB!in_ready(Ctrl!out_ready(streamReady))
      left  == IF taken THEN [gets EXCEPT ![d_id] = Tail(@)] ELSE gets
  IN  /\ gets' = IF a_fire(aReady) THEN [left EXCEPT ![tl_id] = PacketWords] ELSE left
      /\ \/ /\ d_valid /\ ~taken /\ next = d_id
            /\ UNCHANGED <<cur, d_valid, d_id>>
         \/ /\ ~d_valid \/ taken
            /\ next # NoId => /\ gets'[next] # <<>>
                              /\ cur # NoId => (next = cur \/ left[cur] = <<>>)
            /\ cur' = IF next # NoId THEN next
                      ELSE IF cur # NoId /\ left[cur] # <<>> THEN cur ELSE NoId
            /\ d_valid' = (next # NoId) /\ d_id' = other

---------------------------------------------------------------------------
(* The history: a request adds its words; an exception takes the place of  *)
(* the words that have not been asked for yet.                             *)
Ended(n) == SubSeq(expected, 1, Len(expected) - n)

Expect(req, streamReady, expAck) ==
  LET carried == IF (stream_valid /\ streamReady) \/ (Ctrl!exp_req /\ expAck) THEN 1 ELSE 0
      all == IF state = "s_exp" /\ Len(packetInfoQue) < nReqInflight
             THEN Append(Ended((leftLen + dataByte - 1) \div dataByte), <<id, Raised>>)
             ELSE expected
      new == [n \in DOMAIN WordsFrom(req.addr, req.len)
                |-> <<req.id, WordsFrom(req.addr, req.len)[n]>>]
  IN  expected' = SubSeq(all, 1 + carried, Len(all))
                  \o new

---------------------------------------------------------------------------
Init ==
  /\ Ctrl!Init /\ ROB!Init(Junk)
  /\ gets = [i \in Ids |-> <<>>] /\ cur = NoId /\ d_valid = FALSE /\ d_id = 0
  /\ expected = <<>>

NoRequest == [addr |-> 0, len |-> 0, id |-> 0]

Cycle(req, tlbReqFire, tlbRespFire, miss, aReady, next, other, streamReady, expAck) ==
  /\ BusStep(aReady, streamReady, next, other)
  /\ IF req # NoRequest THEN Ctrl!Accept(req)
     ELSE Ctrl!Serve(tlbReqFire, tlbRespFire, miss, a_fire(aReady))
  /\ Ctrl!BusReq(tlbRespFire /\ ~miss, ready, aReady)
  /\ Ctrl!InfoQue(a_fire(aReady))
  /\ Ctrl!StreamStep(out_fire(streamReady), ROB!out_last(inp), expAck)
  /\ ROB!Cycle(Ctrl!reorder_req_valid, tl_id, Ctrl!lgLen_align(len), inp,
               Ctrl!out_ready(streamReady))
  /\ Expect(req, streamReady, expAck)

\* The exceptions on their way to the loader.
Misses ==
  Cardinality({n \in DOMAIN packetInfoQue : packetInfoQue[n].exception})
  + (IF state = "s_exp" THEN 1 ELSE 0) + (IF Ctrl!exp_req THEN 1 ELSE 0)

\* One that may stall acts or does not; any other acts as soon as it can.
May(who, can) == IF ~can THEN {FALSE} ELSE IF who \in Stalls THEN BOOLEAN ELSE {TRUE}

Next ==
  \E offered     \in May("requester", state = "s_idle"),
     tlbReqFire  \in May("tlb", state = "s_tlb_req"),
     tlbRespFire \in May("tlb", state = "s_tlb_resp"),
     aReady      \in May("bus", Ctrl!a_valid(ready)),
     streamReady \in May("consumer", streamState = "s_stream_data"),
     expAck      \in May("consumer", Ctrl!exp_req),
     next        \in Ids \cup {NoId} :
  \E req   \in IF offered THEN Requests ELSE {NoRequest},
     miss  \in IF tlbRespFire /\ Misses < MaxMisses THEN BOOLEAN ELSE {FALSE},
     other \in IF next # NoId THEN {next} ELSE IF BitsHeld THEN {d_id} ELSE Ids :
    Cycle(req, tlbReqFire, tlbRespFire, miss, aReady, next, other, streamReady, expAck)

Spec == Init /\ [][Next]_vars

(* The clock keeps ticking; the bus, the translation buffer, the requester *)
(* and the consumer do not all withhold for ever what the others wait for. *)
FairSpec == Spec /\ WF_vars(Next)

---------------------------------------------------------------------------
(* Properties. *)

(* Registers hold values of their width, queues are no longer than deep.   *)
TypeOK ==
  /\ leftLen \in Nat /\ vaddr \in Nat /\ tl_id \in Ids
  /\ len \in 0 .. Ctrl!maxSizeTL /\ base \in 0 .. Ctrl!maxSizeTL - 1
  /\ addr \in 0 .. Ctrl!maxSizeTL - 1
  /\ min_pos \in 0 .. Ctrl!maxSizeTL - 1 /\ max_pos \in 0 .. Ctrl!maxSizeTL - 1
  /\ Len(packetInfoQue) <= nReqInflight /\ Len(reqQue) <= nReqInflight
  /\ statusTable \in [Ids -> 0 .. 2]
  /\ rdOffset \in 0 .. Ctrl!maxSizeTL \div dataByte
  /\ wrOffset \in ROB!Offsets
  /\ cur \in Ids \cup {NoId} /\ d_id \in Ids /\ d_valid \in BOOLEAN

(* "make its order consistent with the request order": whatever the order  *)
(* of the bus, the stream carries the words that were asked for in the     *)
(* order in which they were asked for, each once, under the id of its      *)
(* request, and an exception after the words that precede it.              *)
InOrder ==
  /\ stream_valid => expected # <<>> /\ Head(expected) = <<cache_id, ROB!out_word(inp)>>
  /\ Ctrl!exp_req => expected # <<>> /\ Head(expected) = <<cache_id, Raised>>

(* A transaction id is given to the bus only when the packet that had it   *)
(* before has been answered in full, holds no words in the reorder buffer  *)
(* and has left its queue.                                                 *)
IdIsFree ==
  Ctrl!a_valid(ready) =>
    /\ gets[tl_id] = <<>>
    /\ statusTable[tl_id] # 2
    /\ \A n \in DOMAIN reqQue : reqQue[n].id = tl_id => n = Len(reqQue)

(* A packet's entry always finds room in packetInfoQue, which is not       *)
(* asked for it.                                                           *)
PacketHasRoom ==
  Ctrl!a_valid(ready) => Len(packetInfoQue) < nReqInflight

(* The path does not hang: the controller takes requests for ever.         *)
KeepsServing == []<>(state = "s_idle")
=============================================================================
