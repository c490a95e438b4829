-------------------------- MODULE ReadPathProofs --------------------------
(***************************************************************************)
(* Proofs about ReadPath: a transaction id is free when it is given out,   *)
(* packetInfoQue has room for every packet that goes to the bus, and the   *)
(* words leave in the order of the requests.                               *)
(*                                                                         *)
(* Nobody asks for the first two where they are needed.  The id is         *)
(* compared with statusTable a cycle before it is used, and nothing but    *)
(* the order of events keeps the table and the bus in agreement (IdInv).   *)
(* The room follows from that of the reorder buffer's queue, which is      *)
(* asked for room, as long as exceptions take up no more than one place    *)
(* (RoomInv).  For the third, every word on the bus and in the buffer is   *)
(* that of its packet (Delivers), and what streams, each entry of          *)
(* packetInfoQue and what is left of the request have their places in what *)
(* is still to be carried (OrderInv).                                      *)
(***************************************************************************)
EXTENDS ReadPath, FiniteSetTheorems, SequenceTheorems, TLAPS

Cut == INSTANCE DMASliceProofs

Aligned(a) == a \in Nat /\ a % dataByte = 0

B == Ctrl!maxSizeTL

---------------------------------------------------------------------------
(* The slicer: its packet is the one cut from the head of what is left.    *)
Cutting    == {"s_slice", "s_wait", "s_tlb_req", "s_tlb_resp", "s_dma_req", "s_exp"}
WithPacket == {"s_tlb_req", "s_tlb_resp", "s_dma_req", "s_exp"}

SlicerTypes ==
  /\ state \in Cutting \cup {"s_idle"} /\ vaddr \in Nat /\ leftLen \in Nat
  /\ more \in BOOLEAN /\ len \in 0 .. B /\ base \in 0 .. B - 1

\* A single byte can only be left at the beginning of a block.
Left == leftLen # 0 /\ (leftLen = 1 => Ctrl!vxo(vaddr) = 0)

Packet ==
  /\ Cut!Fits(vaddr, leftLen, more, len, base)
  /\ Cut!InWords(vaddr, more, len, base)

Slicer ==
  /\ SlicerTypes /\ Aligned(vaddr)
  /\ state \in Cutting => Left
  /\ state \in WithPacket \cup {"s_wait"} => more = Ctrl!selBw(vaddr, leftLen)
  /\ state \in WithPacket => Packet
  /\ (dma_req_state # "s_dma_req_idle") <=> state = "s_dma_req"

---------------------------------------------------------------------------
(* Transaction ids. *)

\* The packet in hand is in the reorder buffer's queue, and not on the bus.
Pending == ready \/ dma_req_state = "s_dma_req_load"

Entries == [id : Ids, size : 0 .. maxLgSizeTL]

IdTypes ==
  /\ dma_req_state \in {"s_dma_req_idle", "s_dma_req_wait", "s_dma_req_load"}
  /\ tl_id \in Ids /\ ready \in BOOLEAN
  /\ reqQue \in Seq(Entries) /\ Len(reqQue) <= nReqInflight
  /\ statusTable \in [Ids -> 0 .. 2]
  /\ rob_state \in {"s_idle", "s_bypass", "s_read"} /\ rdOffset \in Nat
  /\ doutValid \in BOOLEAN /\ doutLast \in BOOLEAN /\ buf_we \in BOOLEAN
  /\ gets \in [Ids -> Seq(Int)]
  /\ cur \in Ids \cup {NoId} /\ d_valid \in BOOLEAN /\ d_id \in Ids

\* What was promised to the packet in hand.
Promised ==
  /\ ready => dma_req_state = "s_dma_req_wait" /\ statusTable[tl_id] = 0
  /\ dma_req_state = "s_dma_req_load" => statusTable[tl_id] = 1 /\ gets[tl_id] = <<>>
  /\ Pending => reqQue # <<>> /\ reqQue[Len(reqQue)].id = tl_id

\* No id is in the queue twice, and all of them but a new one have a status.
Distinct ==
  /\ \A m, n \in DOMAIN reqQue : reqQue[m].id = reqQue[n].id => m = n
  /\ \A n \in DOMAIN reqQue :
       statusTable[reqQue[n].id] = 0 => ready /\ n = Len(reqQue)

\* The bus has words of packets with status 1 only, and ends what it begins.
OnBus ==
  /\ \A i \in Ids : gets[i] # <<>> => statusTable[i] = 1
  /\ d_valid => cur = d_id /\ gets[d_id] # <<>>

\* The packet the reorder buffer passes on, reads and writes.
InHand ==
  /\ rob_state = "s_bypass" =>
       reqQue # <<>> /\ cur = ROB!due.id /\ gets[ROB!due.id] # <<>> /\ ~buf_we
  /\ buf_we => cur # NoId /\ gets[cur] # <<>>
  /\ rob_state = "s_read" => reqQue # <<>> /\ statusTable[ROB!due.id] = 2
  /\ doutValid <=> rob_state = "s_read"
  /\ doutLast <=> rob_state = "s_read" /\ rdOffset >= ROB!rdDataSize

IdInv == Slicer /\ IdTypes /\ Promised /\ Distinct /\ OnBus /\ InHand

---------------------------------------------------------------------------
(* Room for the packets. *)
Exceptions(que) == Cardinality({n \in DOMAIN que : que[n].exception})

Bit(b) == IF b THEN 1 ELSE 0

ReqIds == {r.id : r \in Requests} \cup {0}
Infos  == [min_pos : Int, max_pos : Int, id : ReqIds, exception : BOOLEAN]

\* Entries of the reorder buffer are packets listed, streaming or in hand.
RoomInv ==
  /\ id \in ReqIds
  /\ packetInfoQue \in Seq(Infos) /\ Len(packetInfoQue) <= nReqInflight
  /\ streamState \in {"s_stream_idle", "s_stream_data", "s_stream_exp"}
  /\ Misses <= MaxMisses
  /\ Len(reqQue) = Len(packetInfoQue) - Exceptions(packetInfoQue)
                   + Bit(streamState = "s_stream_data") + Bit(Pending)
  /\ Pending => Len(packetInfoQue) < nReqInflight

---------------------------------------------------------------------------
(* The constants, and the operators of the slicer as those of the lemmas   *)
(* about packets.                                                          *)
LEMMA Constants ==
  /\ Cut!Sizes /\ dataByte \in Cut!PacketSizes /\ dataByte # 1
  /\ dataByte \in Nat \ {0} /\ B \in Nat \ {0}
  /\ nReqInflight \in Nat \ {0} /\ maxLgSizeTL \in Nat /\ NoId \notin Ids /\ 0 \in Ids
<1>1. Cut!Sizes
  BY ReadPathAssumption, PowersAssumption DEF Cut!Sizes
<1>2. dataByte \in Cut!PacketSizes
  BY ReadPathAssumption DEF Cut!PacketSizes
<1>3. dataByte \in Nat \ {0} /\ Cut!maxSizeTL \in Nat \ {0}
  BY <1>1, <1>2, Cut!PacketSizesType
<1>4. B = Cut!maxSizeTL
  BY DEF B, Ctrl!maxSizeTL, Cut!maxSizeTL
<1>5. NoId \notin Ids /\ 0 \in Ids
  BY ReadPathAssumption DEF NoId, Ids
<1>6. QED BY <1>1, <1>2, <1>3, <1>4, <1>5, ReadPathAssumption, RequestsAssumption

LEMMA SameOperators ==
  /\ Ctrl!maxSizeTL = Cut!maxSizeTL /\ B = Cut!maxSizeTL
  /\ \A v : Ctrl!vxn(v) = Cut!vxn(v) /\ Ctrl!vxo(v) = Cut!vxo(v)
  /\ \A v, l : Ctrl!selBw(v, l) = Cut!selBw(v, l)
  /\ \A v, l, m : Ctrl!len_align(v, l, m) = Cut!len_align(v, l, m)
  /\ \A v, l : Ctrl!vxo_align(v, l) = Cut!vxo_align(v, l)
  /\ \A l : Ctrl!packet_size(l) = Cut!packet_size(l)
  /\ Ctrl!PacketSizes = Cut!PacketSizes
<1>1. Ctrl!maxSizeTL = Cut!maxSizeTL /\ B = Cut!maxSizeTL /\ Ctrl!PacketSizes = Cut!PacketSizes
  BY DEF B, Ctrl!maxSizeTL, Cut!maxSizeTL, Ctrl!PacketSizes, Cut!PacketSizes
<1>2. \A v : Ctrl!vxn(v) = Cut!vxn(v) /\ Ctrl!vxo(v) = Cut!vxo(v)
  BY <1>1 DEF Ctrl!vxn, Cut!vxn, Ctrl!vxo, Cut!vxo
<1>3. \A v, l : Ctrl!selBw(v, l) = Cut!selBw(v, l)
  BY <1>1, <1>2 DEF Ctrl!selBw, Cut!selBw
<1>4. \A x : Ctrl!PowerAbove(x) = Cut!PowerAbove(x)
  BY <1>1 DEF Ctrl!PowerAbove, Cut!PowerAbove
<1>5. \A v : Ctrl!len_align_bw(v) = Cut!len_align_bw(v)
  BY <1>1, <1>2, <1>4 DEF Ctrl!len_align_bw, Cut!len_align_bw
<1>6. \A v, l : Ctrl!len_align_fw(v, l) = Cut!len_align_fw(v, l)
  BY DEF Ctrl!len_align_fw, Cut!len_align_fw, Ctrl!vxo, Cut!vxo, Ctrl!maxSizeTL, Cut!maxSizeTL,
         Ctrl!PacketSizes, Cut!PacketSizes
<1>7. \A v, l, m : Ctrl!len_align(v, l, m) = Cut!len_align(v, l, m)
  BY <1>5, <1>6 DEF Ctrl!len_align, Cut!len_align
<1>8. \A v, l : Ctrl!vxo_align(v, l) = Cut!vxo_align(v, l)
  BY <1>2 DEF Ctrl!vxo_align, Cut!vxo_align
<1>9. \A l : Ctrl!packet_size(l) = Cut!packet_size(l)
  BY DEF Ctrl!packet_size, Cut!packet_size
<1>10. QED BY <1>1, <1>2, <1>3, <1>7, <1>8, <1>9

\* Block and offset of an address, in words.
LEMMA Blocks ==
  ASSUME NEW v, Aligned(v)
  PROVE  /\ v \in Nat /\ Ctrl!vxn(v) \in Nat /\ Ctrl!vxo(v) \in 0 .. B - 1
         /\ v = Ctrl!vxn(v) * B + Ctrl!vxo(v) /\ Ctrl!vxn(v) * B \in Nat
         /\ Ctrl!vxo(v) % dataByte = 0 /\ (Ctrl!vxn(v) * B) % dataByte = 0
         /\ B % dataByte = 0
<1>1. v \in Nat /\ v % dataByte = 0
  BY DEF Aligned
<1>2. /\ Cut!vxn(v) \in Nat /\ Cut!vxo(v) \in 0 .. Cut!maxSizeTL - 1
      /\ v = Cut!vxn(v) * Cut!maxSizeTL + Cut!vxo(v)
      /\ Cut!vxn(v) * Cut!maxSizeTL \in Nat
  BY <1>1, Constants, Cut!Offset
<1>3. /\ Cut!vxo(v) % dataByte = 0 /\ Cut!maxSizeTL % dataByte = 0
      /\ (Cut!vxn(v) * Cut!maxSizeTL) % dataByte = 0
  BY <1>1, Constants, Cut!OffsetAligned
<1>4. Ctrl!vxn(v) = Cut!vxn(v) /\ Ctrl!vxo(v) = Cut!vxo(v) /\ B = Cut!maxSizeTL
  BY SameOperators
<1>5. QED BY <1>1, <1>2, <1>3, <1>4

\* The block after.
LEMMA NextBlock ==
  ASSUME NEW v, Aligned(v)
  PROVE  /\ Aligned(Ctrl!next_vaddr(v)) /\ Ctrl!vxo(Ctrl!next_vaddr(v)) = 0
         /\ Ctrl!next_vaddr(v) = Ctrl!vxn(v) * B + B
<1> DEFINE n == Ctrl!vxn(v)
           m == n * B
           next == (n + 1) * B
<1>1. n \in Nat /\ m \in Nat /\ m % dataByte = 0 /\ B % dataByte = 0
  BY Blocks
<1>2. B \in Nat \ {0} /\ dataByte \in Nat \ {0}
  BY Constants
<1>3. Ctrl!next_vaddr(v) = next
  BY DEF Ctrl!next_vaddr, B
<1> HIDE DEF n
<1>4. next = m + B /\ next = B * (n + 1) + 0
  BY <1>1, <1>2
<1>5. next % B = 0
  <2> HIDE DEF next
  <2>1. (B * (n + 1) + 0) % B = 0
    BY <1>1, <1>2, Cut!DivisionUnique
  <2>2. QED BY <1>4, <2>1
<1>6. (m + B) % dataByte = 0
  <2> HIDE DEF m
  <2>1. (m + B) % dataByte = B % dataByte
    BY <1>1, <1>2, Cut!MultipleSum
  <2>2. QED BY <1>1, <2>1
<1>7. next \in Nat
  <2> HIDE DEF m, next
  <2>1. QED BY <1>1, <1>2, <1>4
<1> HIDE DEF next, m
<1>8. Ctrl!vxo(next) = 0
  BY <1>5 DEF Ctrl!vxo, B
<1>9. QED BY <1>3, <1>4, <1>6, <1>7, <1>8 DEF Aligned, m, n

---------------------------------------------------------------------------
(* A cycle, with what the environment can do in it. *)
Env(req, tlbRespFire, miss, aReady, next, other) ==
  /\ req # NoRequest => req \in Requests
  /\ aReady \in BOOLEAN /\ (aReady => Ctrl!a_valid(ready))
  /\ tlbRespFire \in BOOLEAN /\ (tlbRespFire => state = "s_tlb_resp")
  /\ miss \in BOOLEAN /\ (miss => tlbRespFire /\ Misses < MaxMisses)
  /\ next \in Ids \cup {NoId} /\ (next # NoId => other = next) /\ other \in Ids
  /\ BitsHeld = TRUE /\ next = NoId => other = d_id

LEMMA Cycles ==
  ASSUME Next, d_id \in Ids
  PROVE  \E req, tlbReqFire, tlbRespFire, miss, aReady, next, other, streamReady, expAck :
           /\ Env(req, tlbRespFire, miss, aReady, next, other)
           /\ Cycle(req, tlbReqFire, tlbRespFire, miss, aReady, next, other, streamReady, expAck)
<1>1. PICK offered     \in May("requester", state = "s_idle"),
           tlbReqFire  \in May("tlb", state = "s_tlb_req"),
           tlbRespFire \in May("tlb", state = "s_tlb_resp"),
           aReady      \in May("bus", Ctrl!a_valid(ready)),
           streamReady \in May("consumer", streamState = "s_stream_data"),
           expAck      \in May("consumer", Ctrl!exp_req),
           next        \in Ids \cup {NoId} :
        \E req   \in IF offered THEN Requests ELSE {NoRequest},
           miss  \in IF tlbRespFire /\ Misses < MaxMisses THEN BOOLEAN ELSE {FALSE},
           other \in IF next # NoId THEN {next} ELSE IF BitsHeld THEN {d_id} ELSE Ids :
          Cycle(req, tlbReqFire, tlbRespFire, miss, aReady, next, other, streamReady, expAck)
  BY Zenon DEF Next
<1>2. PICK req   \in IF offered THEN Requests ELSE {NoRequest},
           miss  \in IF tlbRespFire /\ Misses < MaxMisses THEN BOOLEAN ELSE {FALSE},
           other \in IF next # NoId THEN {next} ELSE IF BitsHeld THEN {d_id} ELSE Ids :
        Cycle(req, tlbReqFire, tlbRespFire, miss, aReady, next, other, streamReady, expAck)
  BY <1>1, Zenon
<1>3. aReady \in BOOLEAN /\ (aReady => Ctrl!a_valid(ready))
  BY DEF May
<1>4. tlbRespFire \in BOOLEAN /\ (tlbRespFire => state = "s_tlb_resp")
  BY DEF May
<1>5. Env(req, tlbRespFire, miss, aReady, next, other)
  BY <1>3, <1>4 DEF Env
<1>6. QED BY <1>2, <1>5

---------------------------------------------------------------------------
(* The slicer on its own. *)
LEMMA SlicerStays ==
  ASSUME Slicer, UNCHANGED <<vaddr, leftLen, more, len, base>>,
         state' \in Cutting \cup {"s_idle"},
         state' \in Cutting => state \in Cutting,
         state' \in WithPacket => state \in WithPacket,
         state' = "s_wait" => state \in WithPacket \cup {"s_wait"},
         (dma_req_state' # "s_dma_req_idle") <=> state' = "s_dma_req"
  PROVE  Slicer'
<1>1. SlicerTypes' /\ Aligned(vaddr)' /\ (Left => Left') /\ (Packet => Packet')
  BY DEF Slicer, SlicerTypes, Aligned, Left, Packet, B, Ctrl!maxSizeTL
<1>2. QED BY <1>1 DEF Slicer

LEMMA SlicerWait ==
  ASSUME Slicer, Ctrl!Wait, dma_req_state' = "s_dma_req_idle"
  PROVE  Slicer'
<1>1. /\ state = "s_wait" /\ state' = "s_tlb_req"
      /\ len' = Ctrl!len_align(vaddr, leftLen, more)
      /\ base' = Ctrl!vxo_align(vaddr, len')
      /\ UNCHANGED <<vaddr, leftLen, more>>
  BY DEF Ctrl!Wait, Ctrl!s_wait, Ctrl!s_tlb_req
<1>2. Aligned(vaddr) /\ Left /\ more = Ctrl!selBw(vaddr, leftLen)
  BY <1>1 DEF Slicer, Cutting
<1>3. /\ vaddr \in Nat /\ vaddr % dataByte = 0 /\ leftLen \in Nat \ {0}
      /\ leftLen = 1 => Cut!vxo(vaddr) = 0
  BY <1>2, SameOperators, Constants DEF Aligned, Left, Slicer, SlicerTypes
<1>4. /\ more = Cut!selBw(vaddr, leftLen)
      /\ len' = Cut!len_align(vaddr, leftLen, more)
      /\ base' = Cut!vxo_align(vaddr, len')
  BY <1>1, <1>2, SameOperators
<1>5. Cut!Fits(vaddr, leftLen, more, len', base') /\ Cut!InWords(vaddr, more, len', base')
  BY <1>3, <1>4, Constants, Cut!PacketOfRequest
<1>6. Packet' /\ Left' /\ Aligned(vaddr)' /\ more' = Ctrl!selBw(vaddr', leftLen')
  BY <1>1, <1>2, <1>5 DEF Packet, Left, Aligned
<1>7. base' \in 0 .. B - 1 /\ len' \in 0 .. B
  <2>1. more \in BOOLEAN
    BY DEF Slicer, SlicerTypes
  <2>2. len' \in 0 .. Cut!maxSizeTL /\ base' \in Nat /\ base' <= Cut!vxo(vaddr)
    BY <1>5, <2>1 DEF Cut!Fits
  <2>3. Cut!vxo(vaddr) \in 0 .. B - 1 /\ B = Cut!maxSizeTL
    BY <1>2, Blocks, SameOperators
  <2>4. QED BY <2>2, <2>3, Constants
<1>8. SlicerTypes'
  BY <1>1, <1>7 DEF Slicer, SlicerTypes, Cutting, B, Ctrl!maxSizeTL
<1>9. QED BY <1>1, <1>6, <1>8 DEF Slicer

LEMMA SlicerNext ==
  ASSUME Slicer, state = "s_dma_req", dma_req_state' = "s_dma_req_idle",
         state' = IF more THEN "s_slice" ELSE "s_idle",
         leftLen' = Ctrl!next_leftLen(vaddr, leftLen, more),
         vaddr' = Ctrl!next_vaddr(vaddr), UNCHANGED <<more, len, base>>
  PROVE  Slicer'
<1> DEFINE first == Ctrl!vxo(vaddr)
<1>1. Aligned(vaddr) /\ (more <=> first + leftLen > B) /\ SlicerTypes
  BY DEF Slicer, WithPacket, Ctrl!selBw, B
<1>2. Aligned(vaddr') /\ Ctrl!vxo(vaddr') = 0
  BY <1>1, NextBlock
<1>3. leftLen' = IF more THEN first + leftLen - B ELSE 0
  BY DEF Ctrl!next_leftLen, B
<1>4. leftLen' \in Nat /\ (more => leftLen' # 0)
  <2>1. first \in 0 .. B - 1 /\ leftLen \in Nat /\ B \in Nat
    BY <1>1, Blocks, Constants DEF SlicerTypes
  <2> HIDE DEF first
  <2>2. QED BY <1>1, <1>3, <2>1
<1>5. SlicerTypes' /\ Aligned(vaddr)' /\ (more => Left')
  BY <1>1, <1>2, <1>4 DEF SlicerTypes, Aligned, Left, Cutting, B, Ctrl!maxSizeTL
<1>6. state' \in {"s_slice", "s_idle"} /\ (state' = "s_slice" => more)
  BY <1>1 DEF SlicerTypes
<1>7. QED BY <1>5, <1>6 DEF Slicer, Cutting, WithPacket

\* Where the packet in hand is after a cycle.
LEMMA BusReqStep ==
  ASSUME IdTypes, NEW hit \in BOOLEAN, NEW aReady \in BOOLEAN, aReady => Ctrl!a_valid(ready),
         ready => dma_req_state = "s_dma_req_wait", Ctrl!BusReq(hit, ready, aReady)
  PROVE  /\ a_fire(aReady) <=> aReady
         /\ aReady => dma_req_state' = "s_dma_req_idle" /\ Pending
                      /\ dma_req_state # "s_dma_req_idle"
         /\ ~aReady => tl_id' = tl_id
         /\ ~aReady /\ dma_req_state = "s_dma_req_idle" =>
              dma_req_state' = IF hit THEN "s_dma_req_wait" ELSE "s_dma_req_idle"
         /\ ~aReady /\ dma_req_state # "s_dma_req_idle" =>
              dma_req_state' = IF Pending THEN "s_dma_req_load" ELSE "s_dma_req_wait"
         /\ tl_id' \in Ids
<1> USE DEF Ctrl!s_dma_req_idle, Ctrl!s_dma_req_wait, Ctrl!s_dma_req_load
<1>1. Ctrl!a_valid(ready) <=> Pending
  BY DEF Ctrl!a_valid, Ctrl!reorder_req_valid, Pending
<1>2. a_fire(aReady) <=> aReady
  BY DEF a_fire
<1>3. \/ /\ dma_req_state = "s_dma_req_idle"
         /\ dma_req_state' = IF hit THEN "s_dma_req_wait" ELSE "s_dma_req_idle"
      \/ /\ dma_req_state = "s_dma_req_wait"
         /\ dma_req_state' = IF ~ready THEN "s_dma_req_wait"
                             ELSE IF aReady THEN "s_dma_req_idle" ELSE "s_dma_req_load"
      \/ /\ dma_req_state = "s_dma_req_load"
         /\ dma_req_state' = IF aReady THEN "s_dma_req_idle" ELSE "s_dma_req_load"
  BY DEF Ctrl!BusReq
<1>4. tl_id' = IF Ctrl!a_valid(ready) /\ aReady THEN Ctrl!next_tl_id ELSE tl_id
  BY DEF Ctrl!BusReq
<1>5. tl_id' \in Ids
  BY <1>4, Constants DEF Ctrl!next_tl_id, Ids, IdTypes
<1>6. QED BY <1>1, <1>2, <1>3, <1>4, <1>5 DEF Pending

LEMMA SlicerStep ==
  ASSUME Slicer, IdTypes, NEW req, NEW tlbReqFire, NEW tlbRespFire, NEW miss,
         NEW aReady, NEW next, NEW other, Env(req, tlbRespFire, miss, aReady, next, other),
         ready => dma_req_state = "s_dma_req_wait",
         IF req # NoRequest THEN Ctrl!Accept(req)
         ELSE Ctrl!Serve(tlbReqFire, tlbRespFire, miss, a_fire(aReady)),
         Ctrl!BusReq(tlbRespFire /\ ~miss, ready, aReady)
  PROVE  Slicer'
<1> DEFINE hit == tlbRespFire /\ ~miss
<1>1. /\ aReady => dma_req_state' = "s_dma_req_idle" /\ dma_req_state # "s_dma_req_idle"
      /\ ~aReady /\ dma_req_state = "s_dma_req_idle" =>
           dma_req_state' = IF hit THEN "s_dma_req_wait" ELSE "s_dma_req_idle"
      /\ ~aReady /\ dma_req_state # "s_dma_req_idle" => dma_req_state' # "s_dma_req_idle"
      /\ a_fire(aReady) <=> aReady
  <2>1. hit \in BOOLEAN /\ aReady \in BOOLEAN /\ (aReady => Ctrl!a_valid(ready))
    BY DEF Env
  <2> HIDE DEF hit
  <2>2. Ctrl!BusReq(hit, ready, aReady)
    BY DEF hit
  <2>3. QED BY <2>1, <2>2, BusReqStep
<1>2. (dma_req_state # "s_dma_req_idle") <=> state = "s_dma_req"
  BY DEF Slicer
<1>3. ASSUME state # "s_dma_req", state # "s_tlb_resp"
      PROVE  dma_req_state' = "s_dma_req_idle"
  BY <1>1, <1>2, <1>3 DEF Env
<1>4. CASE req # NoRequest
  <2>1. /\ state = "s_idle" /\ state' = "s_slice"
        /\ vaddr' = req.addr /\ leftLen' = req.len /\ UNCHANGED <<more, len, base>>
    BY <1>4 DEF Ctrl!Accept, Ctrl!packet, Ctrl!s_idle, Ctrl!s_slice
  <2>2. Aligned(req.addr) /\ req.addr \in Nat /\ req.len \in Nat \ {0, 1}
    BY <1>4, RequestsAssumption DEF Env, Aligned
  <2>3. SlicerTypes' /\ Aligned(vaddr)' /\ Left'
    BY <2>1, <2>2 DEF Slicer, SlicerTypes, Aligned, Left, Cutting, B, Ctrl!maxSizeTL
  <2>4. QED BY <1>3, <2>1, <2>3 DEF Slicer, Cutting, WithPacket
<1>5. CASE req = NoRequest
  <2>1. Ctrl!Serve(tlbReqFire, tlbRespFire, miss, a_fire(aReady))
    BY <1>5
  <2>2. CASE state = "s_idle" /\ UNCHANGED Ctrl!slicer
    <3>1. UNCHANGED <<state, vaddr, leftLen, more, len, base>>
      BY <2>2 DEF Ctrl!slicer
    <3>2. QED BY <1>3, <2>2, <3>1, SlicerStays DEF Cutting, WithPacket
  <2>3. CASE Ctrl!Slice
    <3>1. /\ state = "s_slice" /\ state' = "s_wait" /\ more' = Ctrl!selBw(vaddr, leftLen)
          /\ UNCHANGED <<vaddr, leftLen, len, base>>
      BY <2>3 DEF Ctrl!Slice, Ctrl!s_slice, Ctrl!s_wait
    <3>2. more' \in BOOLEAN /\ more' = Ctrl!selBw(vaddr', leftLen')
      BY <3>1 DEF Ctrl!selBw
    <3>3. SlicerTypes' /\ Aligned(vaddr)' /\ Left'
      BY <3>1, <3>2 DEF Slicer, SlicerTypes, Aligned, Left, Cutting, B, Ctrl!maxSizeTL
    <3>4. QED BY <1>3, <3>1, <3>2, <3>3 DEF Slicer, Cutting, WithPacket
  <2>4. CASE Ctrl!Wait
    <3>1. state = "s_wait"
      BY <2>4 DEF Ctrl!Wait, Ctrl!s_wait
    <3>2. QED BY <1>3, <2>4, <3>1, SlicerWait
  <2>5. CASE Ctrl!TlbReq(tlbReqFire)
    <3>1. /\ state = "s_tlb_req" /\ state' \in {"s_tlb_req", "s_tlb_resp"}
          /\ UNCHANGED <<vaddr, leftLen, more, len, base>>
      BY <2>5 DEF Ctrl!TlbReq, Ctrl!packet, Ctrl!s_tlb_req, Ctrl!s_tlb_resp
    <3>2. QED BY <1>3, <3>1, SlicerStays DEF Cutting, WithPacket
  <2>6. CASE Ctrl!TlbResp(tlbRespFire, miss)
    <3>1. /\ state = "s_tlb_resp"
          /\ state' = IF ~tlbRespFire THEN "s_tlb_resp" ELSE IF miss THEN "s_exp" ELSE "s_dma_req"
          /\ UNCHANGED <<vaddr, leftLen, more, len, base>>
      BY <2>6 DEF Ctrl!TlbResp, Ctrl!packet, Ctrl!s_tlb_resp, Ctrl!s_exp, Ctrl!s_dma_req
    <3>2. (dma_req_state' # "s_dma_req_idle") <=> state' = "s_dma_req"
      BY <1>1, <1>2, <3>1 DEF Env
    <3>3. QED BY <3>1, <3>2, SlicerStays DEF Cutting, WithPacket
  <2>7. CASE Ctrl!DmaReq(a_fire(aReady))
    <3>1. state = "s_dma_req" /\ UNCHANGED <<more, len, base>>
      BY <2>7 DEF Ctrl!DmaReq, Ctrl!packet, Ctrl!s_dma_req
    <3>2. CASE ~a_fire(aReady)
      <4>1. UNCHANGED <<state, vaddr, leftLen>>
        BY <2>7, <3>2 DEF Ctrl!DmaReq
      <4>2. dma_req_state' # "s_dma_req_idle"
        BY <1>1, <1>2, <3>1, <3>2
      <4>3. QED BY <3>1, <4>1, <4>2, SlicerStays DEF Cutting, WithPacket
    <3>3. CASE a_fire(aReady)
      <4>1. /\ state' = IF more THEN "s_slice" ELSE "s_idle"
            /\ leftLen' = Ctrl!next_leftLen(vaddr, leftLen, more)
            /\ vaddr' = Ctrl!next_vaddr(vaddr)
        BY <2>7, <3>3 DEF Ctrl!DmaReq, Ctrl!s_slice, Ctrl!s_idle
      <4>2. dma_req_state' = "s_dma_req_idle"
        BY <1>1, <3>3
      <4>3. QED BY <3>1, <4>1, <4>2, SlicerNext
    <3>4. QED BY <3>2, <3>3
  <2>8. CASE Ctrl!Exp
    <3>1. /\ state = "s_exp" /\ state' \in {"s_exp", "s_idle"}
          /\ UNCHANGED <<vaddr, leftLen, more, len, base>>
      BY <2>8 DEF Ctrl!Exp, Ctrl!packet, Ctrl!s_exp, Ctrl!s_idle
    <3>2. QED BY <1>3, <3>1, SlicerStays DEF Cutting, WithPacket
  <2>9. QED BY <2>1, <2>2, <2>3, <2>4, <2>5, <2>6, <2>7, <2>8 DEF Ctrl!Serve, Ctrl!s_idle
<1>6. QED BY <1>4, <1>5

---------------------------------------------------------------------------
(* What happens in a cycle, o telling whether the stream takes a word.     *)
Ends(o)  == ROB!EndOfBypass(inp, o) \/ ROB!EndOfRead(o)
Stored   == ROB!EndOfStore(inp)
Admitted == ROB!Admits(Ctrl!reorder_req_valid, tl_id)
NewEntry == [id |-> tl_id, size |-> ROB!Kept(Ctrl!lgLen_align(len))]
RobStep(o) ==
  ROB!Cycle(Ctrl!reorder_req_valid, tl_id, Ctrl!lgLen_align(len), inp, o)
Taken(o) == d_valid /\ ROB!in_ready(o)

\* The size of a packet fits into the bits the reorder buffer has for it.
LEMMA NewEntryType ==
  ASSUME Slicer, IdTypes, state = "s_dma_req"
  PROVE  NewEntry \in Entries /\ Ctrl!packet_size(len) \in Nat \ {0}
<1>1. Cut!packet_size(len) \in Cut!PacketSizes
  BY DEF Slicer, WithPacket, Packet, Cut!Fits
<1>2. Ctrl!packet_size(len) \in Nat \ {0}
  BY <1>1, Constants, SameOperators, Cut!PacketSizesType
<1>3. PICK n \in 0 .. maxLgSizeTL : 2^n = Ctrl!packet_size(len)
  BY <1>1, SameOperators DEF Cut!PacketSizes
<1>4. Ctrl!lgLen_align(len) \in 0 .. maxLgSizeTL
  BY <1>3 DEF Ctrl!lgLen_align
<1>5. ROB!Kept(Ctrl!lgLen_align(len)) \in 0 .. maxLgSizeTL
  BY <1>4, SizesAssumption
<1>6. tl_id \in Ids
  BY DEF IdTypes
<1>7. QED BY <1>2, <1>5, <1>6 DEF NewEntry, Entries

\* The words of a packet.
LEMMA PacketWordsType ==
  ASSUME Slicer, IdTypes, state = "s_dma_req"
  PROVE  PacketWords \in Seq(Int)
<1> DEFINE from  == Ctrl!vxn(vaddr) * Ctrl!maxSizeTL + base
           bytes == Ctrl!packet_size(len)
           k     == (bytes + dataByte - 1) \div dataByte
<1>1. from \in Int
  <2> DEFINE m == Ctrl!vxn(vaddr) * B
  <2>1. m \in Nat /\ base \in Int
    BY Blocks, Constants DEF Slicer, SlicerTypes
  <2>2. from = m + base
    BY DEF B
  <2> HIDE DEF m, from
  <2>3. QED BY <2>1, <2>2
<1>2. bytes \in Nat \ {0} /\ dataByte \in Nat \ {0}
  BY NewEntryType, Constants
<1>3. k \in Nat
  <2> DEFINE a == bytes + dataByte - 1
  <2>1. a \in Nat
    <3> HIDE DEF bytes
    <3>1. QED BY <1>2
  <2> HIDE DEF a
  <2>2. a \div dataByte \in Nat
    BY <1>2, <2>1, Cut!Division
  <2>3. QED BY <2>2 DEF a
<1>4. PacketWords = [n \in 1 .. k |-> from + (n - 1) * dataByte]
  BY DEF PacketWords, WordsFrom
<1> HIDE DEF from, k
<1>5. \A n \in 1 .. k : from + (n - 1) * dataByte \in Int
  BY <1>1, <1>2, <1>3
<1>6. [n \in 1 .. k |-> from + (n - 1) * dataByte] \in [1 .. k -> Int]
  BY <1>5, Zenon
<1>7. [1 .. k -> Int] \subseteq Seq(Int)
  BY <1>3 DEF Seq
<1>8. QED BY <1>4, <1>6, <1>7

\* Who can be meant by the events of a cycle.
LEMMA Events ==
  ASSUME IdInv, NEW o \in BOOLEAN
  PROVE  /\ Ends(o) => reqQue # <<>> /\ rob_state # "s_idle"
         /\ Stored => buf_we /\ d_valid /\ Len(gets[d_id]) = 1 /\ statusTable[d_id] = 1
         /\ ROB!EndOfBypass(inp, o) => d_valid /\ d_id = ROB!due.id
         /\ Ends(o) /\ Pending => tl_id # ROB!due.id
         /\ Ends(o) /\ Stored => d_id # ROB!due.id
         /\ Pending => gets[tl_id] = <<>> /\ (ready \/ statusTable[tl_id] = 1)
         /\ Pending /\ d_valid => d_id # tl_id
         /\ reqQue # <<>> => ROB!due \in Entries /\ ROB!due = reqQue[1]
<1> USE DEF IdInv
<1>1. ROB!EndOfBypass(inp, o) =>
        /\ d_valid /\ reqQue # <<>> /\ rob_state = "s_bypass" /\ ~buf_we
        /\ d_id = ROB!due.id /\ gets[ROB!due.id] # <<>> /\ Len(gets[d_id]) = 1
  BY DEF ROB!EndOfBypass, ROB!bypass, ROB!s_bypass, inp, InHand, OnBus
<1>2. ROB!EndOfRead(o) =>
        /\ reqQue # <<>> /\ rob_state = "s_read" /\ statusTable[ROB!due.id] = 2
  BY DEF ROB!EndOfRead, ROB!s_read, InHand
<1>3. Stored => buf_we /\ d_valid /\ Len(gets[d_id]) = 1
  BY DEF Stored, ROB!EndOfStore, inp
<1>4. reqQue # <<>> => ROB!due \in Entries /\ ROB!due = reqQue[1]
  BY DEF IdTypes, ROB!due
<1>5. d_valid => gets[d_id] # <<>> /\ statusTable[d_id] = 1 /\ d_id \in Ids
  BY DEF OnBus, IdTypes
<1>6. Pending => gets[tl_id] = <<>> /\ (ready => statusTable[tl_id] = 0)
                 /\ (~ready => statusTable[tl_id] = 1)
  BY DEF Pending, Promised, OnBus, IdTypes
<1>7. ROB!EndOfBypass(inp, o) => statusTable[ROB!due.id] = 1 /\ gets[ROB!due.id] # <<>>
  BY <1>1, <1>5
<1>8. QED BY <1>1, <1>2, <1>3, <1>4, <1>5, <1>6, <1>7 DEF Ends

\* What is admitted is new.
LEMMA AdmittedIsNew ==
  ASSUME IdInv, Admitted
  PROVE  /\ ~ready /\ dma_req_state = "s_dma_req_wait" /\ ~Pending
         /\ statusTable[tl_id] = 0 /\ Len(reqQue) < nReqInflight
         /\ \A n \in DOMAIN reqQue : reqQue[n].id # tl_id
<1>1. /\ ~ready /\ dma_req_state = "s_dma_req_wait" /\ statusTable[tl_id] = 0
      /\ Len(reqQue) < nReqInflight
  BY DEF Admitted, ROB!Admits, ROB!enq_ready, Ctrl!reorder_req_valid, Ctrl!s_dma_req_wait
<1>2. QED BY <1>1 DEF Pending, IdInv, Distinct

\* The queue of the reorder buffer.
LEMMA QueueStep ==
  ASSUME IdInv, NEW o \in BOOLEAN, RobStep(o), state = "s_dma_req" \/ ~Admitted
  PROVE  \E rest :
           /\ rest = IF Ends(o) THEN Tail(reqQue) ELSE reqQue
           /\ rest \in Seq(Entries) /\ Len(rest) = Len(reqQue) - Bit(Ends(o))
           /\ \A n \in DOMAIN rest :
                rest[n] = reqQue[n + Bit(Ends(o))] /\ n + Bit(Ends(o)) \in DOMAIN reqQue
           /\ reqQue' = IF Admitted THEN Append(rest, NewEntry) ELSE rest
           /\ reqQue' \in Seq(Entries) /\ Len(reqQue') <= nReqInflight
           /\ Len(reqQue') = Len(rest) + Bit(Admitted)
           /\ \A n \in DOMAIN rest : n \in DOMAIN reqQue' /\ reqQue'[n] = rest[n]
           /\ Admitted => reqQue'[Len(reqQue')] = NewEntry
           /\ \A n \in DOMAIN reqQue' :
                n \in DOMAIN rest \/ (Admitted /\ n = Len(reqQue'))
<1> DEFINE deq == Ends(o)
           rest == IF deq THEN Tail(reqQue) ELSE reqQue
<1>1. reqQue \in Seq(Entries) /\ Len(reqQue) <= nReqInflight /\ nReqInflight \in Nat
  BY Constants DEF IdInv, IdTypes
<1>2. deq => reqQue # <<>>
  BY Events
<1>3. Admitted => Len(reqQue) < nReqInflight /\ NewEntry \in Entries
  BY AdmittedIsNew, NewEntryType DEF IdInv
<1>4. reqQue' = IF Admitted THEN Append(rest, NewEntry) ELSE rest
  <2>1. reqQue' = ROB!QueStep(reqQue, nReqInflight, deq, Admitted, NewEntry)
    BY DEF RobStep, ROB!Cycle, Ends, Admitted, NewEntry
  <2> HIDE DEF deq
  <2>2. QED BY <2>1, <1>2, <1>3 DEF ROB!QueStep, ROB!deq_valid, ROB!enq_ready
<1> HIDE DEF deq
<1>5. /\ rest \in Seq(Entries) /\ Len(rest) = Len(reqQue) - Bit(deq)
      /\ \A n \in DOMAIN rest :
           rest[n] = reqQue[n + Bit(deq)] /\ n + Bit(deq) \in DOMAIN reqQue
  BY <1>1, <1>2 DEF Bit
<1> HIDE DEF rest
<1>6. /\ reqQue' \in Seq(Entries) /\ Len(reqQue') <= nReqInflight
      /\ Len(reqQue') = Len(rest) + Bit(Admitted)
      /\ \A n \in DOMAIN rest : n \in DOMAIN reqQue' /\ reqQue'[n] = rest[n]
      /\ Admitted => reqQue'[Len(reqQue')] = NewEntry
      /\ \A n \in DOMAIN reqQue' :
           n \in DOMAIN rest \/ (Admitted /\ n = Len(reqQue'))
  <2>1. CASE Admitted
    BY <1>1, <1>3, <1>4, <1>5, <2>1 DEF Bit
  <2>2. CASE ~Admitted
    BY <1>1, <1>4, <1>5, <2>2 DEF Bit
  <2>3. QED BY <2>1, <2>2
<1>7. rest = IF deq THEN Tail(reqQue) ELSE reqQue
  BY DEF rest
<1>8. QED BY <1>4, <1>5, <1>6, <1>7 DEF deq

\* The status of an id.
LEMMA StatusStep ==
  ASSUME IdInv, NEW o \in BOOLEAN, RobStep(o)
  PROVE  /\ ready' = Admitted /\ ready' \in BOOLEAN
         /\ statusTable' \in [Ids -> 0 .. 2]
         /\ \A i \in Ids :
              statusTable'[i] = IF ready /\ tl_id = i THEN 1
                                ELSE IF Stored /\ d_id = i THEN 2
                                ELSE IF Ends(o) /\ ROB!due.id = i THEN 0
                                ELSE statusTable[i]
<1>1. ready' = Admitted
  BY DEF RobStep, ROB!Cycle, Admitted
<1>2. ROB!req_fire(Ctrl!reorder_req_valid) <=> ready
  BY DEF ROB!req_fire, Ctrl!reorder_req_valid, Ctrl!s_dma_req_wait, IdInv, Promised
<1>3. inp.id = d_id
  BY DEF inp
<1>4. statusTable' =
        [i \in Ids |-> IF ready /\ tl_id = i THEN 1
                       ELSE IF Stored /\ d_id = i THEN 2
                       ELSE IF Ends(o) /\ ROB!due.id = i THEN 0
                       ELSE statusTable[i]]
  <2>1. ROB!StatusStep(Ctrl!reorder_req_valid, tl_id, inp, Ends(o))
    BY DEF RobStep, ROB!Cycle, Ends
  <2>2. ROB!Ids = Ids
    BY DEF ROB!Ids, Ids
  <2>3. statusTable' =
        [i \in ROB!Ids |-> IF ROB!req_fire(Ctrl!reorder_req_valid) /\ tl_id = i THEN 1
                       ELSE IF ROB!EndOfStore(inp) /\ inp.id = i THEN 2
                       ELSE IF Ends(o) /\ ROB!due.id = i THEN 0
                       ELSE statusTable[i]]
    BY <2>1 DEF ROB!StatusStep
  <2>4. QED BY <1>2, <1>3, <2>2, <2>3 DEF Stored
<1>5. Admitted \in BOOLEAN
  BY DEF Admitted, ROB!Admits
<1>6. statusTable \in [Ids -> 0 .. 2]
  BY DEF IdInv, IdTypes
<1>7. QED BY <1>1, <1>4, <1>5, <1>6

\* The bus: words come for packets that went to it.
LEMMA BusMoves ==
  ASSUME IdInv, NEW streamReady, NEW o \in BOOLEAN, o = Ctrl!out_ready(streamReady),
         NEW aReady \in BOOLEAN, aReady => Pending, a_fire(aReady) <=> aReady,
         aReady => PacketWords \in Seq(Int),
         NEW next \in Ids \cup {NoId}, NEW other \in Ids, next # NoId => other = next,
         BusStep(aReady, streamReady, next, other)
  PROVE  /\ gets' \in [Ids -> Seq(Int)]
         /\ cur' \in Ids \cup {NoId} /\ d_valid' \in BOOLEAN /\ d_id' \in Ids
         /\ \A i \in Ids : gets'[i] # <<>> =>
              \/ aReady /\ i = tl_id
              \/ gets[i] # <<>> /\ ~(d_id = i /\ Taken(o) /\ Len(gets[i]) = 1)
         /\ \A i \in Ids : ~(aReady /\ i = tl_id) /\ gets[i] = <<>> => gets'[i] = <<>>
         /\ d_valid' => cur' = d_id' /\ gets'[d_id'] # <<>>
         /\ /\ cur # NoId /\ gets[cur] # <<>>
            /\ ~(Taken(o) /\ d_id = cur /\ Len(gets[cur]) = 1)
            => cur' = cur /\ gets'[cur'] # <<>>
<1> DEFINE taken == d_valid /\ ROB!in_ready(o)
           left  == IF taken THEN [gets EXCEPT ![d_id] = Tail(@)] ELSE gets
<1>1. /\ gets \in [Ids -> Seq(Int)] /\ cur \in Ids \cup {NoId} /\ NoId \notin Ids
      /\ d_valid \in BOOLEAN /\ d_id \in Ids /\ tl_id \in Ids
      /\ d_valid => cur = d_id /\ gets[d_id] # <<>>
  BY Constants DEF IdInv, IdTypes, OnBus
<1>2. Pending => gets[tl_id] = <<>>
  BY Events
<1>3. gets' = IF aReady THEN [left EXCEPT ![tl_id] = PacketWords] ELSE left
  BY DEF BusStep
<1>4. \/ /\ d_valid /\ ~taken /\ next = d_id
         /\ UNCHANGED <<cur, d_valid, d_id>>
      \/ /\ ~d_valid \/ taken
         /\ next # NoId => /\ gets'[next] # <<>>
                           /\ cur # NoId => (next = cur \/ left[cur] = <<>>)
         /\ cur' = IF next # NoId THEN next
                   ELSE IF cur # NoId /\ left[cur] # <<>> THEN cur ELSE NoId
         /\ d_valid' = (next # NoId) /\ d_id' = other
  BY DEF BusStep
<1>5. Taken(o) <=> taken
  BY DEF Taken
<1>6. taken => d_valid
  OBVIOUS
<1> HIDE DEF taken
<1>7. /\ left \in [Ids -> Seq(Int)]
      /\ \A i \in Ids : ~(taken /\ d_id = i) => left[i] = gets[i]
      /\ taken => (left[d_id] = <<>> <=> Len(gets[d_id]) = 1)
  <2>1. CASE taken
    <3>1. gets[d_id] \in Seq(Int) /\ gets[d_id] # <<>>
      BY <1>1, <1>6, <2>1
    <3>2. Tail(gets[d_id]) \in Seq(Int) /\ (Tail(gets[d_id]) = <<>> <=> Len(gets[d_id]) = 1)
      <4> DEFINE s == gets[d_id]
      <4>1. s \in Seq(Int) /\ s # <<>>
        BY <3>1
      <4> HIDE DEF s
      <4>2. Tail(s) \in Seq(Int) /\ Len(Tail(s)) = Len(s) - 1
        BY <4>1
      <4>3. ASSUME NEW t \in Seq(Int) PROVE t = <<>> <=> Len(t) = 0
        OBVIOUS
      <4>4. Tail(s) = <<>> <=> Len(Tail(s)) = 0
        BY <4>2, <4>3
      <4>5. Len(s) \in Nat
        BY <4>1
      <4>6. Len(Tail(s)) = 0 <=> Len(s) = 1
        BY <4>2, <4>5
      <4>7. QED BY <4>2, <4>4, <4>6 DEF s
    <3>3. left = [gets EXCEPT ![d_id] = Tail(gets[d_id])]
      BY <2>1
    <3> HIDE DEF left
    <3>4. QED BY <1>1, <2>1, <3>2, <3>3
  <2>2. CASE ~taken
    BY <1>1, <2>2
  <2>3. QED BY <2>1, <2>2
<1> HIDE DEF left
<1>8. /\ gets' \in [Ids -> Seq(Int)]
      /\ \A i \in Ids : ~(aReady /\ i = tl_id) => gets'[i] = left[i]
  BY <1>1, <1>3, <1>7
<1>9. /\ \A i \in Ids : gets'[i] # <<>> =>
           \/ aReady /\ i = tl_id
           \/ gets[i] # <<>> /\ ~(d_id = i /\ taken /\ Len(gets[i]) = 1)
      /\ \A i \in Ids : ~(aReady /\ i = tl_id) /\ gets[i] = <<>> => gets'[i] = <<>>
  <2>1. \A i \in Ids : gets[i] = <<>> => ~(taken /\ d_id = i)
    BY <1>1, <1>6
  <2>2. QED BY <1>7, <1>8, <2>1
<1>10. /\ cur' \in Ids \cup {NoId} /\ d_valid' \in BOOLEAN /\ d_id' \in Ids
  BY <1>1, <1>4
<1>11. d_valid' => cur' = d_id' /\ gets'[d_id'] # <<>>
  <2>1. CASE d_valid /\ ~taken /\ next = d_id /\ UNCHANGED <<cur, d_valid, d_id>>
    <3>1. gets[d_id] # <<>> /\ ~(aReady /\ d_id = tl_id) /\ cur = d_id
      BY <1>1, <1>2, <2>1
    <3>2. QED BY <1>1, <1>7, <1>8, <2>1, <3>1
  <2>2. CASE /\ next # NoId => gets'[next] # <<>>
             /\ cur' = IF next # NoId THEN next
                       ELSE IF cur # NoId /\ left[cur] # <<>> THEN cur ELSE NoId
             /\ d_valid' = (next # NoId) /\ d_id' = other
    BY <2>2
  <2>3. QED BY <1>4, <2>1, <2>2
<1>12. ASSUME cur # NoId, gets[cur] # <<>>, ~(taken /\ d_id = cur /\ Len(gets[cur]) = 1)
       PROVE  cur' = cur /\ gets'[cur'] # <<>>
  <2>1. cur \in Ids /\ left[cur] # <<>>
    BY <1>1, <1>7, <1>12
  <2>2. ~(aReady /\ cur = tl_id)
    BY <1>2, <1>12
  <2>3. cur' = cur
    BY <1>4, <1>12, <2>1
  <2>4. QED BY <1>8, <2>1, <2>2, <2>3
<1>13. QED BY <1>5, <1>8, <1>9, <1>10, <1>11, <1>12

\* The reorder buffer's own registers.
LEMMA BufferStep ==
  ASSUME IdInv, NEW o \in BOOLEAN, RobStep(o)
  PROVE  /\ rob_state' \in {"s_idle", "s_bypass", "s_read"} /\ rdOffset' \in Nat
         /\ doutValid' \in BOOLEAN /\ doutLast' \in BOOLEAN /\ buf_we' \in BOOLEAN
         /\ rob_state' = "s_bypass" =>
              \/ /\ rob_state = "s_idle" /\ reqQue # <<>> /\ d_valid /\ ROB!due.id = d_id
                 /\ ~Taken(o) /\ ~Ends(o) /\ ~buf_we'
              \/ rob_state = "s_bypass" /\ ~Ends(o) /\ ~buf_we'
                 /\ ~(Taken(o) /\ Len(gets[d_id]) = 1)
         /\ buf_we' =>
              \/ d_valid /\ ~Taken(o)
              \/ buf_we /\ ~(Taken(o) /\ Len(gets[d_id]) = 1)
         /\ rob_state' = "s_read" =>
              ~Ends(o) /\ reqQue # <<>> /\ statusTable[ROB!due.id] = 2
         /\ doutValid' <=> rob_state' = "s_read"
         /\ doutLast' <=> rob_state' = "s_read" /\ rdOffset' >= ROB!rdDataSize
<1> DEFINE eb == ROB!EndOfBypass(inp, o)
           er == ROB!EndOfRead(o)
           tb == ROB!ToBypass(inp)
           tr == ROB!ToRead(inp)
           ro == ROB!ReadOn(o)
           ts == ROB!ToBuffer(inp)
           size == ROB!rdDataSize
<1>1. /\ rob_state \in {"s_idle", "s_bypass", "s_read"} /\ rdOffset \in Nat
      /\ doutValid \in BOOLEAN /\ doutLast \in BOOLEAN /\ buf_we \in BOOLEAN /\ d_valid \in BOOLEAN
  BY DEF IdInv, IdTypes
<1>2. /\ rob_state = "s_bypass" => reqQue # <<>> /\ ~buf_we
      /\ rob_state = "s_read" => reqQue # <<>> /\ statusTable[ROB!due.id] = 2
      /\ doutValid <=> rob_state = "s_read"
      /\ doutLast <=> rob_state = "s_read" /\ rdOffset >= size
  BY DEF IdInv, InHand
<1>3. rob_state' = IF tb THEN "s_bypass" ELSE IF tr THEN "s_read"
                   ELSE IF eb \/ er THEN "s_idle" ELSE rob_state
  BY DEF RobStep, ROB!Cycle, ROB!StateStep, ROB!s_bypass, ROB!s_read, ROB!s_idle
<1>4. \/ /\ tr \/ ro
         /\ rdOffset' = rdOffset + 1
         /\ doutValid' = TRUE /\ doutLast' = (rdOffset + 1 >= size)
      \/ /\ er /\ rdOffset' = 0 /\ doutValid' = FALSE /\ doutLast' = FALSE
      \/ /\ ~tr /\ ~ro /\ ~er
         /\ UNCHANGED <<rdOffset, doutValid, doutLast>>
  BY DEF RobStep, ROB!Cycle, ROB!ReadStep
<1>5. buf_we' = (ts \/ (buf_we /\ ~Stored))
  BY DEF RobStep, ROB!Cycle, ROB!StoreStep, Stored
<1>6. tb <=> rob_state = "s_idle" /\ reqQue # <<>> /\ d_valid /\ ~buf_we /\ ROB!due.id = d_id
  BY DEF ROB!ToBypass, ROB!deq_valid, inp, ROB!s_idle
<1>7. tr <=> rob_state = "s_idle" /\ ~tb /\ reqQue # <<>> /\ statusTable[ROB!due.id] = 2
  BY DEF ROB!ToRead, ROB!deq_valid, ROB!s_idle
<1>8. ts <=> ~buf_we /\ rob_state = "s_idle" /\ reqQue # <<>> /\ d_valid /\ ROB!due.id # d_id
  BY DEF ROB!ToBuffer, ROB!deq_valid, inp, ROB!s_idle
<1>9. er <=> rob_state = "s_read" /\ o /\ rdOffset >= size
  BY DEF ROB!EndOfRead, ROB!s_read
<1>10. ro <=> rob_state = "s_read" /\ o /\ rdOffset < size
  BY DEF ROB!ReadOn, ROB!s_read
<1>11. eb <=> rob_state = "s_bypass" /\ o /\ d_valid /\ Len(gets[d_id]) = 1
  BY DEF ROB!EndOfBypass, ROB!bypass, ROB!s_bypass, inp
<1>12. Stored <=> buf_we /\ d_valid /\ Len(gets[d_id]) = 1
  BY DEF Stored, ROB!EndOfStore, inp
<1>13. Taken(o) <=> d_valid /\ ((rob_state = "s_bypass" /\ o) \/ buf_we)
  BY DEF Taken, ROB!in_ready, ROB!bypass, ROB!s_bypass
<1>14. Ends(o) <=> eb \/ er
  BY DEF Ends
<1>15. rob_state' \in {"s_idle", "s_bypass", "s_read"}
  BY <1>1, <1>3
<1>16. rdOffset' \in Nat /\ doutValid' \in BOOLEAN /\ doutLast' \in BOOLEAN /\ buf_we' \in BOOLEAN
  <2>1. rdOffset' \in Nat
    BY <1>1, <1>4
  <2>2. buf_we' \in BOOLEAN
    BY <1>5
  <2>3. doutValid' \in BOOLEAN /\ doutLast' \in BOOLEAN
    <3> DEFINE more_ == (rdOffset + 1 >= size)
    <3>1. more_ \in BOOLEAN
      OBVIOUS
    <3> HIDE DEF more_
    <3>2. QED BY <1>1, <1>4, <3>1 DEF more_
  <2>4. QED BY <2>1, <2>2, <2>3
<1>17. reqQue # <<>> => size \in Nat
  <2>1. SUFFICES ASSUME reqQue # <<>> PROVE size \in Nat
    OBVIOUS
  <2> DEFINE n == ROB!due.size
  <2>2. n \in 0 .. maxLgSizeTL
    BY <2>1, Events DEF Entries
  <2> HIDE DEF n
  <2>3. 2^n \in Nat /\ dataByte \in Nat \ {0}
    BY <2>2, PowersAssumption, Constants
  <2>4. 2^n \div dataByte \in Nat
    BY <2>3, Cut!Division
  <2>5. size = IF 2^n <= dataByte THEN 1 ELSE 2^n \div dataByte
    BY DEF ROB!rdDataSize, n
  <2>6. QED BY <2>4, <2>5
<1> HIDE DEF eb, er, tb, tr, ro, ts, size
<1>18. QED
  <2>1. rob_state' = "s_bypass" =>
              \/ /\ rob_state = "s_idle" /\ reqQue # <<>> /\ d_valid /\ ROB!due.id = d_id
                 /\ ~Taken(o) /\ ~Ends(o) /\ ~buf_we'
              \/ rob_state = "s_bypass" /\ ~Ends(o) /\ ~buf_we'
                 /\ ~(Taken(o) /\ Len(gets[d_id]) = 1)
    BY <1>1, <1>2, <1>3, <1>5, <1>6, <1>7, <1>8, <1>9, <1>11, <1>13, <1>14
  <2>2. buf_we' => \/ d_valid /\ ~Taken(o)
                   \/ buf_we /\ ~(Taken(o) /\ Len(gets[d_id]) = 1)
    BY <1>1, <1>5, <1>8, <1>12, <1>13
  <2>3. rob_state' = "s_read" => ~Ends(o) /\ reqQue # <<>> /\ statusTable[ROB!due.id] = 2
    BY <1>1, <1>2, <1>3, <1>6, <1>7, <1>9, <1>11, <1>14
  <2>4. /\ tr \/ ro => rob_state' = "s_read" /\ reqQue # <<>>
        /\ er => rob_state' # "s_read"
        /\ ~tr /\ ~ro /\ ~er => (rob_state' = "s_read" <=> rob_state = "s_read")
    <3>1. reqQue # <<>> /\ rob_state = "s_read" => size \in Nat
      BY <1>17
    <3>2. er => ~ro
      BY <1>1, <1>2, <1>9, <1>10, <3>1
    <3>3. QED BY <1>1, <1>2, <1>3, <1>6, <1>7, <1>9, <1>10, <1>11, <3>2
  <2>5. doutValid' <=> rob_state' = "s_read"
    BY <1>2, <1>4, <2>4
  <2>6. doutLast' <=> rob_state' = "s_read" /\ rdOffset' >= size
    <3>1. CASE tr \/ ro
      <4>1. er => FALSE
        BY <1>1, <1>2, <1>7, <1>9, <1>10, <1>17, <3>1
      <4>2. rdOffset' = rdOffset + 1 /\ doutLast' = (rdOffset + 1 >= size)
        BY <1>4, <3>1, <4>1
      <4>3. QED BY <2>4, <3>1, <4>2
    <3>2. CASE er
      BY <1>1, <1>2, <1>4, <1>7, <1>9, <1>10, <1>17, <2>4, <3>2
    <3>3. CASE ~tr /\ ~ro /\ ~er
      BY <1>2, <1>4, <2>4, <3>3
    <3>4. QED BY <3>1, <3>2, <3>3
  <2>7. QED BY <1>15, <1>16, <2>1, <2>2, <2>3, <2>5, <2>6 DEF size

---------------------------------------------------------------------------
(* A cycle keeps the invariant of the ids. *)

\* A cycle, seen from the packet in hand.
Step(streamReady, o, hit, aReady, next, other) ==
  /\ o = Ctrl!out_ready(streamReady) /\ o \in BOOLEAN
  /\ hit \in BOOLEAN /\ (hit => dma_req_state = "s_dma_req_idle")
  /\ aReady \in BOOLEAN /\ (aReady => Pending) /\ (a_fire(aReady) <=> aReady)
  /\ aReady => state = "s_dma_req" /\ PacketWords \in Seq(Int)
  /\ Admitted => state = "s_dma_req"
  /\ aReady => dma_req_state' = "s_dma_req_idle"
  /\ ~aReady => tl_id' = tl_id
  /\ ~aReady /\ dma_req_state = "s_dma_req_idle" =>
       dma_req_state' = IF hit THEN "s_dma_req_wait" ELSE "s_dma_req_idle"
  /\ ~aReady /\ dma_req_state # "s_dma_req_idle" =>
       dma_req_state' = IF Pending THEN "s_dma_req_load" ELSE "s_dma_req_wait"
  /\ tl_id' \in Ids
  /\ next \in Ids \cup {NoId} /\ other \in Ids /\ (next # NoId => other = next)
  /\ BusStep(aReady, streamReady, next, other)
  /\ RobStep(o)

LEMMA CycleIsStep ==
  ASSUME IdInv, NEW req, NEW tlbReqFire, NEW tlbRespFire, NEW miss, NEW aReady, NEW next,
         NEW other, NEW streamReady, NEW expAck,
         Env(req, tlbRespFire, miss, aReady, next, other),
         Cycle(req, tlbReqFire, tlbRespFire, miss, aReady, next, other, streamReady, expAck)
  PROVE  Step(streamReady, Ctrl!out_ready(streamReady), tlbRespFire /\ ~miss, aReady, next, other)
<1> DEFINE o == Ctrl!out_ready(streamReady)
           hit == tlbRespFire /\ ~miss
<1>1. o = Ctrl!out_ready(streamReady) /\ o \in BOOLEAN
  BY DEF Ctrl!out_ready
<1>2. hit \in BOOLEAN /\ (hit => dma_req_state = "s_dma_req_idle")
  BY DEF Env, IdInv, Slicer
<1>3. aReady \in BOOLEAN /\ (aReady => Ctrl!a_valid(ready))
  BY DEF Env
<1>4. Ctrl!a_valid(ready) => Pending
  BY DEF Ctrl!a_valid, Ctrl!reorder_req_valid, Pending, Ctrl!s_dma_req_load
<1>5. Ctrl!BusReq(hit, ready, aReady)
  BY DEF Cycle
<1>6. RobStep(o)
  BY DEF Cycle, RobStep
<1>7. BusStep(aReady, streamReady, next, other)
  BY DEF Cycle
<1> HIDE DEF o, hit
<1>8. ready => dma_req_state = "s_dma_req_wait"
  BY DEF IdInv, Promised
<1>9. /\ a_fire(aReady) <=> aReady
      /\ aReady => dma_req_state' = "s_dma_req_idle" /\ Pending
                   /\ dma_req_state # "s_dma_req_idle"
      /\ ~aReady => tl_id' = tl_id
      /\ ~aReady /\ dma_req_state = "s_dma_req_idle" =>
           dma_req_state' = IF hit THEN "s_dma_req_wait" ELSE "s_dma_req_idle"
      /\ ~aReady /\ dma_req_state # "s_dma_req_idle" =>
           dma_req_state' = IF Pending THEN "s_dma_req_load" ELSE "s_dma_req_wait"
      /\ tl_id' \in Ids
  BY <1>2, <1>3, <1>5, <1>8, BusReqStep DEF IdInv
<1>10. aReady => state = "s_dma_req" /\ PacketWords \in Seq(Int)
  BY <1>9, PacketWordsType DEF IdInv, Slicer
<1>11. Admitted => state = "s_dma_req"
  BY AdmittedIsNew DEF IdInv, Slicer
<1>12. next \in Ids \cup {NoId} /\ other \in Ids /\ (next # NoId => other = next)
  BY DEF Env
<1>13. Step(streamReady, o, hit, aReady, next, other)
  BY <1>1, <1>2, <1>3, <1>4, <1>6, <1>7, <1>9, <1>10, <1>11, <1>12 DEF Step, o
<1>14. QED BY <1>13 DEF o, hit

LEMMA TypesStep ==
  ASSUME IdInv, NEW streamReady, NEW o, NEW hit, NEW aReady, NEW next, NEW other,
         Step(streamReady, o, hit, aReady, next, other)
  PROVE  IdTypes'
<1>1. /\ o \in BOOLEAN /\ RobStep(o) /\ (state = "s_dma_req" \/ ~Admitted)
  BY DEF Step
<1>2. reqQue' \in Seq(Entries) /\ Len(reqQue') <= nReqInflight
  BY <1>1, QueueStep
<1>3. statusTable' \in [Ids -> 0 .. 2] /\ ready' \in BOOLEAN
  BY <1>1, StatusStep
<1>4. /\ rob_state' \in {"s_idle", "s_bypass", "s_read"} /\ rdOffset' \in Nat
      /\ doutValid' \in BOOLEAN /\ doutLast' \in BOOLEAN /\ buf_we' \in BOOLEAN
  BY <1>1, BufferStep
<1>5. /\ gets' \in [Ids -> Seq(Int)]
      /\ cur' \in Ids \cup {NoId} /\ d_valid' \in BOOLEAN /\ d_id' \in Ids
  BY BusMoves DEF Step
<1>6. dma_req_state' \in {"s_dma_req_idle", "s_dma_req_wait", "s_dma_req_load"} /\ tl_id' \in Ids
  BY DEF Step, IdInv, IdTypes
<1>7. Ids' = Ids /\ Entries' = Entries /\ NoId' = NoId
  BY DEF Ids, Entries, NoId
<1>8. QED BY <1>2, <1>3, <1>4, <1>5, <1>6, <1>7 DEF IdTypes

LEMMA PromisedStep ==
  ASSUME IdInv, NEW streamReady, NEW o, NEW hit, NEW aReady, NEW next, NEW other,
         Step(streamReady, o, hit, aReady, next, other)
  PROVE  Promised'
<1>1. /\ o \in BOOLEAN /\ RobStep(o) /\ (state = "s_dma_req" \/ ~Admitted)
      /\ tl_id \in Ids /\ (aReady => Pending)
  BY DEF Step, IdInv, IdTypes
<1>2. /\ ready' = Admitted
      /\ \A i \in Ids :
              statusTable'[i] = IF ready /\ tl_id = i THEN 1
                                ELSE IF Stored /\ d_id = i THEN 2
                                ELSE IF Ends(o) /\ ROB!due.id = i THEN 0
                                ELSE statusTable[i]
  BY <1>1, StatusStep
<1>3. PICK rest :
        /\ Len(rest) = Len(reqQue) - Bit(Ends(o)) /\ rest \in Seq(Entries)
        /\ \A n \in DOMAIN rest :
             rest[n] = reqQue[n + Bit(Ends(o))] /\ n + Bit(Ends(o)) \in DOMAIN reqQue
        /\ reqQue' = IF Admitted THEN Append(rest, NewEntry) ELSE rest
        /\ Admitted => reqQue'[Len(reqQue')] = NewEntry
        /\ Len(reqQue') = Len(rest) + Bit(Admitted) /\ reqQue' \in Seq(Entries)
  BY <1>1, QueueStep
<1>4. /\ Ends(o) => reqQue # <<>>
      /\ Stored => d_valid /\ statusTable[d_id] = 1
      /\ Ends(o) /\ Pending => tl_id # ROB!due.id
      /\ Pending => gets[tl_id] = <<>> /\ (ready \/ statusTable[tl_id] = 1)
      /\ Pending /\ d_valid => d_id # tl_id
      /\ reqQue # <<>> => ROB!due = reqQue[1]
  BY <1>1, Events
<1>5. CASE Admitted
  <2>1. /\ ~ready /\ dma_req_state = "s_dma_req_wait" /\ ~Pending /\ statusTable[tl_id] = 0
        /\ \A n \in DOMAIN reqQue : reqQue[n].id # tl_id
    BY <1>5, AdmittedIsNew
  <2>2. dma_req_state' = "s_dma_req_wait" /\ tl_id' = tl_id
    BY <2>1 DEF Step
  <2>3. statusTable'[tl_id] = 0
    BY <1>1, <1>2, <1>4, <2>1
  <2>4. reqQue' # <<>> /\ reqQue'[Len(reqQue')].id = tl_id
    BY <1>3, <1>5 DEF NewEntry
  <2>5. QED BY <1>2, <1>5, <2>2, <2>3, <2>4 DEF Promised, Pending
<1>6. CASE ~Admitted
  <2>1. ~ready'
    BY <1>2, <1>6
  <2>2. ASSUME dma_req_state' = "s_dma_req_load"
        PROVE  /\ statusTable'[tl_id'] = 1 /\ gets'[tl_id'] = <<>>
               /\ reqQue' # <<>> /\ reqQue'[Len(reqQue')].id = tl_id'
    <3>1. ~aReady /\ tl_id' = tl_id /\ Pending
      BY <2>2 DEF Step
    <3>2. statusTable'[tl_id] = 1
      BY <1>1, <1>2, <1>4, <3>1
    <3>3. gets'[tl_id] = <<>>
      <4>1. \A i \in Ids : ~(aReady /\ i = tl_id) /\ gets[i] = <<>> => gets'[i] = <<>>
        BY BusMoves DEF Step
      <4>2. QED BY <1>1, <1>4, <3>1, <4>1
    <3>4. /\ reqQue # <<>> /\ reqQue[Len(reqQue)].id = tl_id /\ reqQue \in Seq(Entries)
          /\ Ends(o) => Len(reqQue) # 1
      BY <1>4, <3>1 DEF IdInv, Promised, IdTypes
    <3>5. reqQue' = rest
      BY <1>3, <1>6
    <3>6. Len(rest) \in Nat /\ Len(rest) # 0
      BY <1>3, <3>4 DEF Bit
    <3>7. rest[Len(rest)] = reqQue[Len(reqQue)] /\ rest # <<>>
      <4>1. Len(rest) \in DOMAIN rest
        BY <1>3, <3>6
      <4>2. rest[Len(rest)] = reqQue[Len(rest) + Bit(Ends(o))]
        BY <1>3, <4>1
      <4>3. Len(rest) + Bit(Ends(o)) = Len(reqQue)
        BY <1>3, <3>4 DEF Bit
      <4>4. QED BY <3>6, <4>2, <4>3
    <3>8. QED BY <3>1, <3>2, <3>3, <3>4, <3>5, <3>7
  <2>3. QED BY <2>1, <2>2 DEF Promised, Pending
<1>7. QED BY <1>5, <1>6

LEMMA DistinctStep ==
  ASSUME IdInv, NEW streamReady, NEW o, NEW hit, NEW aReady, NEW next, NEW other,
         Step(streamReady, o, hit, aReady, next, other)
  PROVE  Distinct'
<1>1. /\ o \in BOOLEAN /\ RobStep(o) /\ (state = "s_dma_req" \/ ~Admitted)
  BY DEF Step
<1>2. /\ ready' = Admitted
      /\ \A i \in Ids :
              statusTable'[i] = IF ready /\ tl_id = i THEN 1
                                ELSE IF Stored /\ d_id = i THEN 2
                                ELSE IF Ends(o) /\ ROB!due.id = i THEN 0
                                ELSE statusTable[i]
  BY <1>1, StatusStep
<1>3. PICK rest :
        /\ \A n \in DOMAIN rest :
             rest[n] = reqQue[n + Bit(Ends(o))] /\ n + Bit(Ends(o)) \in DOMAIN reqQue
        /\ rest \in Seq(Entries)
        /\ \A n \in DOMAIN rest : n \in DOMAIN reqQue' /\ reqQue'[n] = rest[n]
        /\ Admitted => reqQue'[Len(reqQue')] = NewEntry
        /\ \A n \in DOMAIN reqQue' : n \in DOMAIN rest \/ (Admitted /\ n = Len(reqQue'))
  BY <1>1, QueueStep
<1>4. /\ reqQue # <<>> => ROB!due = reqQue[1]
      /\ Ends(o) => reqQue # <<>>
  BY <1>1, Events
<1>5. /\ reqQue \in Seq(Entries)
      /\ \A m, n \in DOMAIN reqQue : reqQue[m].id = reqQue[n].id => m = n
      /\ \A n \in DOMAIN reqQue : statusTable[reqQue[n].id] = 0 => ready /\ n = Len(reqQue)
      /\ ready => reqQue[Len(reqQue)].id = tl_id
  BY DEF IdInv, IdTypes, Distinct, Promised, Pending
<1>6. \A n \in DOMAIN rest : n \in Nat \ {0} /\ Bit(Ends(o)) \in {0, 1}
  BY <1>3 DEF Bit
<1>7. ASSUME NEW m \in DOMAIN rest, NEW n \in DOMAIN rest, rest[m].id = rest[n].id
      PROVE  m = n
  <2>1. m + Bit(Ends(o)) = n + Bit(Ends(o))
    BY <1>3, <1>5, <1>7
  <2>2. QED BY <1>6, <2>1
<1>8. ASSUME Admitted, NEW n \in DOMAIN rest
      PROVE  rest[n].id # tl_id
  BY <1>3, <1>8, AdmittedIsNew
<1>9. ASSUME NEW m \in DOMAIN reqQue', NEW n \in DOMAIN reqQue',
             reqQue'[m].id = reqQue'[n].id
      PROVE  m = n
  <2>1. CASE m \in DOMAIN rest /\ n \in DOMAIN rest
    BY <1>3, <1>7, <1>9, <2>1
  <2>2. CASE m \notin DOMAIN rest \/ n \notin DOMAIN rest
    <3>1. Admitted /\ NewEntry.id = tl_id
      BY <1>3, <2>2 DEF NewEntry
    <3>2. QED BY <1>3, <1>8, <1>9, <2>2, <3>1
  <2>3. QED BY <2>1, <2>2
<1>10. ASSUME NEW n \in DOMAIN reqQue', statusTable'[reqQue'[n].id] = 0
       PROVE  ready' /\ n = Len(reqQue')
  <2>1. ASSUME n \in DOMAIN rest PROVE FALSE
    <3> DEFINE k == n + Bit(Ends(o))
               i == rest[n].id
    <3>1. /\ k \in DOMAIN reqQue /\ i = reqQue[k].id /\ i \in Ids /\ statusTable'[i] = 0
          /\ k \in Nat /\ (Ends(o) => k # 1)
      <4>1. k \in DOMAIN reqQue /\ rest[n] = reqQue[k] /\ statusTable'[i] = 0
        BY <1>3, <1>10, <2>1
      <4>2. rest[n] \in Entries /\ n \in Nat \ {0}
        BY <1>3, <1>6, <2>1
      <4>3. k \in Nat /\ (Ends(o) => k # 1)
        BY <4>2 DEF Bit
      <4>4. i \in Ids
        BY <4>2 DEF Entries
      <4>5. QED BY <4>1, <4>3, <4>4
    <3> HIDE DEF k, i
    <3>2. CASE Ends(o) /\ ROB!due.id = i
      <4>1. 1 \in DOMAIN reqQue /\ reqQue[1].id = i
        BY <1>4, <1>5, <3>2
      <4>2. k = 1
        BY <1>5, <3>1, <4>1
      <4>3. QED BY <3>1, <3>2, <4>2
    <3>3. CASE ~(Ends(o) /\ ROB!due.id = i)
      <4>1. statusTable[i] = 0 /\ ~(ready /\ tl_id = i)
        BY <1>2, <3>1, <3>3
      <4>2. ready /\ k = Len(reqQue)
        BY <1>5, <3>1, <4>1
      <4>3. QED BY <1>5, <3>1, <4>1, <4>2
    <3>4. QED BY <3>2, <3>3
  <2>2. QED BY <1>2, <1>3, <2>1
<1>11. QED BY <1>9, <1>10 DEF Distinct

LEMMA OnBusStep ==
  ASSUME IdInv, NEW streamReady, NEW o, NEW hit, NEW aReady, NEW next, NEW other,
         Step(streamReady, o, hit, aReady, next, other)
  PROVE  OnBus'
<1>1. /\ o \in BOOLEAN /\ RobStep(o) /\ tl_id \in Ids /\ (aReady => Pending)
  BY DEF Step, IdInv, IdTypes
<1>2. /\ \A i \in Ids :
              statusTable'[i] = IF ready /\ tl_id = i THEN 1
                                ELSE IF Stored /\ d_id = i THEN 2
                                ELSE IF Ends(o) /\ ROB!due.id = i THEN 0
                                ELSE statusTable[i]
  BY <1>1, StatusStep
<1>3. /\ Stored => buf_we /\ d_valid /\ Len(gets[d_id]) = 1
      /\ ROB!EndOfBypass(inp, o) => d_valid /\ d_id = ROB!due.id
      /\ Ends(o) /\ Pending => tl_id # ROB!due.id
      /\ Pending => ready \/ statusTable[tl_id] = 1
      /\ Pending /\ d_valid => d_id # tl_id
  BY <1>1, Events
<1>4. /\ d_valid' => cur' = d_id' /\ gets'[d_id'] # <<>>
      /\ \A i \in Ids : gets'[i] # <<>> =>
           \/ aReady /\ i = tl_id
           \/ gets[i] # <<>> /\ ~(d_id = i /\ Taken(o) /\ Len(gets[i]) = 1)
  BY BusMoves DEF Step
<1>5. /\ Stored => Taken(o)
      /\ ROB!EndOfBypass(inp, o) => Taken(o) /\ Len(gets[d_id]) = 1
  BY <1>3 DEF Taken, ROB!in_ready, ROB!EndOfBypass, inp
<1>6. ROB!EndOfRead(o) => statusTable[ROB!due.id] = 2
  BY DEF ROB!EndOfRead, ROB!s_read, IdInv, InHand
<1>7. ASSUME NEW i \in Ids, gets'[i] # <<>> PROVE statusTable'[i] = 1
  <2>1. CASE aReady /\ i = tl_id
    BY <1>1, <1>2, <1>3, <2>1
  <2>2. CASE gets[i] # <<>> /\ ~(d_id = i /\ Taken(o) /\ Len(gets[i]) = 1)
    <3>1. statusTable[i] = 1
      BY <2>2 DEF IdInv, OnBus
    <3>2. ~(Stored /\ d_id = i)
      BY <1>3, <1>5, <2>2
    <3>3. ~(Ends(o) /\ ROB!due.id = i)
      BY <1>3, <1>5, <1>6, <2>2, <3>1 DEF Ends
    <3>4. QED BY <1>2, <3>1, <3>2, <3>3
  <2>3. QED BY <1>4, <1>7, <2>1, <2>2
<1>8. Ids' = Ids
  BY DEF Ids
<1>9. QED BY <1>4, <1>7, <1>8 DEF OnBus

LEMMA InHandStep ==
  ASSUME IdInv, NEW streamReady, NEW o, NEW hit, NEW aReady, NEW next, NEW other,
         Step(streamReady, o, hit, aReady, next, other)
  PROVE  InHand'
<1>1. /\ o \in BOOLEAN /\ RobStep(o) /\ (state = "s_dma_req" \/ ~Admitted)
  BY DEF Step
<1>2. /\ rob_state' = "s_bypass" =>
           \/ /\ rob_state = "s_idle" /\ reqQue # <<>> /\ d_valid /\ ROB!due.id = d_id
              /\ ~Taken(o) /\ ~Ends(o) /\ ~buf_we'
           \/ rob_state = "s_bypass" /\ ~Ends(o) /\ ~buf_we'
              /\ ~(Taken(o) /\ Len(gets[d_id]) = 1)
      /\ buf_we' =>
           \/ d_valid /\ ~Taken(o)
           \/ buf_we /\ ~(Taken(o) /\ Len(gets[d_id]) = 1)
      /\ rob_state' = "s_read" =>
           ~Ends(o) /\ reqQue # <<>> /\ statusTable[ROB!due.id] = 2
      /\ doutValid' <=> rob_state' = "s_read"
      /\ doutLast' <=> rob_state' = "s_read" /\ rdOffset' >= ROB!rdDataSize
  BY <1>1, BufferStep
<1>3. /\ rob_state = "s_bypass" => reqQue # <<>> /\ cur = ROB!due.id /\ gets[cur] # <<>>
      /\ buf_we => cur # NoId /\ gets[cur] # <<>>
      /\ d_valid => cur = d_id /\ gets[d_id] # <<>>
      /\ d_id \in Ids /\ NoId \notin Ids
      /\ reqQue # <<>> => ROB!due \in Entries /\ ROB!due = reqQue[1]
      /\ reqQue \in Seq(Entries)
  BY <1>1, Events, Constants DEF IdInv, InHand, OnBus, IdTypes
<1>4. /\ cur # NoId /\ gets[cur] # <<>>
      /\ ~(Taken(o) /\ d_id = cur /\ Len(gets[cur]) = 1)
      => cur' = cur /\ gets'[cur'] # <<>>
  BY BusMoves DEF Step
<1>5. ASSUME ~Ends(o), reqQue # <<>>
      PROVE  reqQue' # <<>> /\ ROB!due' = ROB!due /\ ROB!due \in Entries
  <2>1. PICK rest :
          /\ rest = IF Ends(o) THEN Tail(reqQue) ELSE reqQue
          /\ reqQue' \in Seq(Entries)
          /\ \A n \in DOMAIN rest : n \in DOMAIN reqQue' /\ reqQue'[n] = rest[n]
    BY <1>1, QueueStep
  <2>2. rest = reqQue /\ 1 \in DOMAIN reqQue
    BY <1>3, <1>5, <2>1
  <2>3. 1 \in DOMAIN reqQue' /\ reqQue'[1] = reqQue[1]
    BY <2>1, <2>2
  <2>4. reqQue' # <<>> /\ Head(reqQue') = reqQue'[1]
    BY <2>1, <2>3
  <2>5. ROB!due' = reqQue'[1]
    BY <2>4 DEF ROB!due
  <2>6. QED BY <1>3, <1>5, <2>3, <2>4, <2>5
<1>6. ASSUME rob_state' = "s_bypass"
      PROVE  /\ reqQue' # <<>> /\ cur' = ROB!due'.id /\ gets'[ROB!due'.id] # <<>> /\ ~buf_we'
  <2>1. ~Ends(o) /\ reqQue # <<>> /\ ~buf_we'
    BY <1>2, <1>3, <1>6
  <2>2. reqQue' # <<>> /\ ROB!due' = ROB!due /\ ROB!due.id \in Ids
    BY <1>5, <2>1 DEF Entries
  <2>3. /\ cur = ROB!due.id /\ gets[cur] # <<>>
        /\ ~(Taken(o) /\ d_id = cur /\ Len(gets[cur]) = 1)
    BY <1>2, <1>3, <1>6 DEF Taken
  <2>4. cur' = cur /\ gets'[cur'] # <<>>
    BY <1>3, <1>4, <2>2, <2>3
  <2>5. QED BY <2>1, <2>2, <2>3, <2>4
<1>7. ASSUME buf_we' PROVE cur' # NoId /\ gets'[cur'] # <<>>
  <2>1. /\ cur # NoId /\ gets[cur] # <<>>
        /\ ~(Taken(o) /\ d_id = cur /\ Len(gets[cur]) = 1)
    BY <1>2, <1>3, <1>7 DEF Taken
  <2>2. QED BY <1>4, <2>1
<1>8. ASSUME rob_state' = "s_read"
      PROVE  /\ reqQue' # <<>> /\ statusTable'[ROB!due'.id] = 2
             /\ ROB!rdDataSize' = ROB!rdDataSize
  <2>1. ~Ends(o) /\ reqQue # <<>> /\ statusTable[ROB!due.id] = 2
    BY <1>2, <1>8
  <2>2. reqQue' # <<>> /\ ROB!due' = ROB!due /\ ROB!due.id \in Ids
    BY <1>5, <2>1 DEF Entries
  <2>3. statusTable'[ROB!due.id] = IF ready /\ tl_id = ROB!due.id THEN 1
                                ELSE IF Stored /\ d_id = ROB!due.id THEN 2
                                ELSE IF Ends(o) /\ ROB!due.id = ROB!due.id THEN 0
                                ELSE statusTable[ROB!due.id]
    BY <1>1, <2>2, StatusStep
  <2>4. ready => statusTable[tl_id] = 0
    BY DEF IdInv, Promised
  <2>5. statusTable'[ROB!due.id] = 2
    BY <2>1, <2>3, <2>4
  <2>6. ROB!rdDataSize' = ROB!rdDataSize
    BY <2>2 DEF ROB!rdDataSize
  <2>7. QED BY <2>2, <2>5, <2>6
<1>9. NoId' = NoId
  BY DEF NoId
<1>10. doutLast' <=> rob_state' = "s_read" /\ rdOffset' >= ROB!rdDataSize'
  BY <1>2, <1>8
<1>11. QED BY <1>2, <1>6, <1>7, <1>8, <1>9, <1>10 DEF InHand

LEMMA InitIds == Init => IdInv
<1> SUFFICES ASSUME Init PROVE IdInv
  OBVIOUS
<1> USE Constants
<1>1. /\ state = "s_idle" /\ vaddr = 0 /\ leftLen = 0 /\ more = FALSE /\ len = 0 /\ base = 0
      /\ dma_req_state = "s_dma_req_idle" /\ tl_id = 0
  BY DEF Init, Ctrl!Init, Ctrl!s_idle, Ctrl!s_dma_req_idle
<1>2. /\ ready = FALSE /\ reqQue = <<>> /\ statusTable = [i \in Ids |-> 0]
      /\ rob_state = "s_idle" /\ rdOffset = 0
      /\ doutValid = FALSE /\ doutLast = FALSE /\ buf_we = FALSE
  BY DEF Init, ROB!Init, ROB!s_idle, ROB!Ids, Ids
<1>3. gets = [i \in Ids |-> <<>>] /\ cur = NoId /\ d_valid = FALSE /\ d_id = 0
  BY DEF Init
<1>4. Aligned(vaddr)
  <2>1. 0 % dataByte = 0
    BY Cut!Multiple
  <2>2. QED BY <1>1, <2>1 DEF Aligned
<1>5. Slicer
  <2>1. SlicerTypes
    <3>1. B \in Nat \ {0}
      BY Constants
    <3>2. 0 \in 0 .. B /\ 0 \in 0 .. B - 1
      BY <3>1
    <3>3. QED BY <1>1, <3>2, Zenon DEF SlicerTypes
  <2>2. state \notin Cutting /\ state \notin WithPacket \cup {"s_wait"}
    BY <1>1 DEF Cutting, WithPacket
  <2>3. (dma_req_state # "s_dma_req_idle") <=> state = "s_dma_req"
    BY <1>1
  <2>4. QED BY <1>4, <2>1, <2>2, <2>3, Zenon DEF Slicer
<1>6. IdTypes
  BY <1>1, <1>2, <1>3 DEF IdTypes
<1>7. Promised /\ Distinct /\ OnBus /\ InHand
  BY <1>1, <1>2, <1>3 DEF Promised, Pending, Distinct, OnBus, InHand
<1>8. QED BY <1>5, <1>6, <1>7 DEF IdInv

LEMMA NextIds == IdInv /\ [Next]_vars => IdInv'
<1> SUFFICES ASSUME IdInv, [Next]_vars PROVE IdInv'
  OBVIOUS
<1>1. CASE Next
  <2>1. d_id \in Ids
    BY DEF IdInv, IdTypes
  <2>2. PICK req, tlbReqFire, tlbRespFire, miss, aReady, next, other, streamReady, expAck :
           /\ Env(req, tlbRespFire, miss, aReady, next, other)
           /\ Cycle(req, tlbReqFire, tlbRespFire, miss, aReady, next, other, streamReady, expAck)
    BY <1>1, <2>1, Cycles
  <2>3. Step(streamReady, Ctrl!out_ready(streamReady), tlbRespFire /\ ~miss, aReady, next, other)
    BY <2>2, CycleIsStep
  <2>4. Slicer'
    <3>1. ready => dma_req_state = "s_dma_req_wait"
      BY DEF IdInv, Promised
    <3>2. /\ IF req # NoRequest THEN Ctrl!Accept(req)
             ELSE Ctrl!Serve(tlbReqFire, tlbRespFire, miss, a_fire(aReady))
          /\ Ctrl!BusReq(tlbRespFire /\ ~miss, ready, aReady)
      BY <2>2, Zenon DEF Cycle
    <3>3. QED BY <2>2, <3>1, <3>2, SlicerStep DEF IdInv
  <2>5. IdTypes'
    BY <2>3, TypesStep
  <2>6. Promised'
    BY <2>3, PromisedStep
  <2>7. Distinct'
    BY <2>3, DistinctStep
  <2>8. OnBus'
    BY <2>3, OnBusStep
  <2>9. InHand'
    BY <2>3, InHandStep
  <2>10. QED BY <2>4, <2>5, <2>6, <2>7, <2>8, <2>9 DEF IdInv
<1>2. CASE UNCHANGED vars
  <2>1. /\ UNCHANGED <<state, vaddr, leftLen, id, more, len, base, dma_req_state, tl_id>>
        /\ UNCHANGED <<ready, reqQue, statusTable, rob_state, rdOffset, doutValid, doutLast,
                       buf_we, gets, cur, d_valid, d_id>>
    BY <1>2 DEF vars, ctrl, rob, bus
  <2>2. Slicer'
    BY <2>1, SlicerStays DEF IdInv, Slicer, SlicerTypes
  <2>3. IdTypes' /\ Promised' /\ Distinct' /\ OnBus'
    BY <2>1 DEF IdInv, IdTypes, Promised, Pending, Distinct, OnBus
  <2>4. ROB!due' = ROB!due /\ ROB!rdDataSize' = ROB!rdDataSize
    BY <2>1 DEF ROB!due, ROB!rdDataSize
  <2>5. InHand'
    BY <2>1, <2>4 DEF IdInv, InHand
  <2>6. QED BY <2>2, <2>3, <2>5 DEF IdInv
<1>3. QED BY <1>1, <1>2

(***************************************************************************)
(* The table of the ids, the reorder buffer's queue and the bus stay in    *)
(* agreement in every cycle of the read side (DMA.scala).                  *)
(***************************************************************************)
THEOREM IdsAgree == Spec => []IdInv
<1>1. QED BY InitIds, NextIds, PTL DEF Spec

(***************************************************************************)
(* A transaction id goes to the bus only when the packet that had it       *)
(* before has been answered in full, holds no words in the reorder buffer  *)
(* and has left its queue.                                                 *)
(***************************************************************************)
THEOREM IdsAreFree == Spec => []IdIsFree
<1>1. ASSUME IdInv, Ctrl!a_valid(ready)
      PROVE  /\ gets[tl_id] = <<>> /\ statusTable[tl_id] \in {0, 1}
             /\ \A n \in DOMAIN reqQue : reqQue[n].id = tl_id => n = Len(reqQue)
  <2>1. Pending
    BY <1>1 DEF Pending, Ctrl!a_valid, Ctrl!s_dma_req_load
  <2>2. statusTable[tl_id] \in {0, 1} /\ gets[tl_id] = <<>>
    BY <1>1, <2>1 DEF IdInv, Promised, OnBus, IdTypes, Pending
  <2>3. Len(reqQue) \in DOMAIN reqQue /\ reqQue[Len(reqQue)].id = tl_id
    BY <1>1, <2>1 DEF IdInv, Promised, IdTypes
  <2>4. \A n \in DOMAIN reqQue : reqQue[n].id = tl_id => n = Len(reqQue)
    BY <1>1, <2>3 DEF IdInv, Distinct
  <2>5. QED BY <2>2, <2>4
<1>2. IdInv => IdIsFree
  BY <1>1 DEF IdIsFree
<1>3. QED BY <1>2, IdsAgree, PTL

---------------------------------------------------------------------------
(* The exceptions in a queue. *)
LEMMA ExceptionsFinite ==
  ASSUME NEW que \in Seq(Infos)
  PROVE  /\ IsFiniteSet({n \in DOMAIN que : que[n].exception})
         /\ Exceptions(que) \in Nat
<1>1. IsFiniteSet(DOMAIN que)
  <2>1. DOMAIN que = 1 .. Len(que) /\ Len(que) \in Int /\ 1 \in Int
    OBVIOUS
  <2>2. QED BY <2>1, FS_Interval
<1>2. {n \in DOMAIN que : que[n].exception} \in SUBSET DOMAIN que
  OBVIOUS
<1>3. IsFiniteSet({n \in DOMAIN que : que[n].exception})
  BY <1>1, <1>2, FS_Subset
<1>4. QED BY <1>3, FS_CardinalityType DEF Exceptions

LEMMA ExceptionsAppend ==
  ASSUME NEW que \in Seq(Infos), NEW x \in Infos
  PROVE  Exceptions(Append(que, x)) = Exceptions(que) + Bit(x.exception)
<1> DEFINE more_ == Append(que, x)
           S == {n \in DOMAIN que : que[n].exception}
           T == {n \in DOMAIN more_ : more_[n].exception}
           k == Len(que) + 1
<1>1. IsFiniteSet(S) /\ Exceptions(que) \in Nat /\ Cardinality(S) = Exceptions(que)
  BY ExceptionsFinite DEF Exceptions
<1>2. /\ DOMAIN more_ = DOMAIN que \cup {k} /\ k \notin DOMAIN que
      /\ \A n \in DOMAIN que : more_[n] = que[n]
      /\ more_[k] = x
  OBVIOUS
<1> HIDE DEF more_, k
<1>3. CASE x.exception
  <2>1. T = S \cup {k} /\ k \notin S
    BY <1>2, <1>3
  <2> HIDE DEF S, T
  <2>2. Cardinality(T) = Cardinality(S) + 1
    BY <1>1, <2>1, FS_AddElement
  <2>3. QED BY <1>1, <1>3, <2>2 DEF Bit, Exceptions, T, more_
<1>4. CASE ~x.exception
  <2>1. T = S
    BY <1>2, <1>4
  <2>2. Exceptions(more_) = Cardinality(T)
    BY DEF Exceptions
  <2> HIDE DEF S, T
  <2>3. QED BY <1>1, <1>4, <2>1, <2>2 DEF Bit, more_
<1>5. QED BY <1>3, <1>4

LEMMA ExceptionsTail ==
  ASSUME NEW que \in Seq(Infos), que # <<>>
  PROVE  Exceptions(Tail(que)) = Exceptions(que) - Bit(Head(que).exception)
<1> DEFINE rest == Tail(que)
           S == {n \in DOMAIN que : que[n].exception}
           T == {n \in DOMAIN rest : rest[n].exception}
           U == S \ {1}
           up == [n \in T |-> n + 1]
<1>1. IsFiniteSet(S) /\ Exceptions(que) \in Nat /\ Cardinality(S) = Exceptions(que)
  BY ExceptionsFinite DEF Exceptions
<1>2. /\ rest \in Seq(Infos) /\ Len(rest) = Len(que) - 1 /\ Len(que) \in Nat \ {0}
      /\ DOMAIN que = 1 .. Len(que) /\ DOMAIN rest = 1 .. Len(que) - 1
      /\ \A n \in 1 .. Len(que) - 1 : rest[n] = que[n + 1]
      /\ Head(que) = que[1]
  OBVIOUS
<1> HIDE DEF rest
<1>3. IsFiniteSet(T) /\ Cardinality(T) = Exceptions(rest)
  BY <1>2, ExceptionsFinite DEF Exceptions
<1>4. ExistsBijection(T, U)
  <2>1. \A n \in T : n + 1 \in U
    BY <1>2
  <2>2. \A n, m \in T : n + 1 = m + 1 => n = m
    BY <1>2
  <2>3. \A u \in U : \E n \in T : n + 1 = u
    <3> SUFFICES ASSUME NEW u \in U PROVE \E n \in T : n + 1 = u
      OBVIOUS
    <3>1. u \in 1 .. Len(que) /\ u # 1 /\ que[u].exception
      BY <1>2
    <3>2. u - 1 \in 1 .. Len(que) - 1 /\ (u - 1) + 1 = u
      BY <1>2, <3>1
    <3>3. u - 1 \in T
      BY <1>2, <3>1, <3>2
    <3>4. QED BY <3>2, <3>3
  <2> HIDE DEF T, U
  <2>4. up \in Bijection(T, U)
    BY <2>1, <2>2, <2>3 DEF Bijection, Injection, Surjection, IsInjective
  <2>5. QED BY <2>4 DEF ExistsBijection
<1>5. Cardinality(U) = Cardinality(T)
  BY <1>3, <1>4, FS_Bijection
<1>6. Cardinality(U) = IF 1 \in S THEN Cardinality(S) - 1 ELSE Cardinality(S)
  BY <1>1, FS_RemoveElement
<1>7. 1 \in S <=> Head(que).exception
  BY <1>2
<1> HIDE DEF S, T, U
<1>8. Exceptions(rest) = Exceptions(que) - Bit(Head(que).exception)
  BY <1>1, <1>3, <1>5, <1>6, <1>7 DEF Bit
<1>9. QED BY <1>8 DEF rest

---------------------------------------------------------------------------
(* A cycle keeps the invariant of the room. *)

\* The stream is done with a packet when the reorder buffer is.
LEMMA StreamEnds ==
  ASSUME IdInv, NEW streamReady, NEW o, o = Ctrl!out_ready(streamReady)
  PROVE  /\ Ends(o) => streamState = "s_stream_data"
         /\ streamState = "s_stream_data" =>
              (Ends(o) <=> out_fire(streamReady) /\ ROB!out_last(inp))
<1>1. o => streamState = "s_stream_data"
  BY DEF Ctrl!out_ready, Ctrl!s_stream_data
<1>2. /\ doutValid <=> rob_state = "s_read"
      /\ doutLast <=> rob_state = "s_read" /\ rdOffset >= ROB!rdDataSize
  BY DEF IdInv, InHand
<1>3. Ends(o) <=> \/ rob_state = "s_bypass" /\ o /\ inp.valid /\ inp.last
                  \/ rob_state = "s_read" /\ o /\ rdOffset >= ROB!rdDataSize
  BY DEF Ends, ROB!EndOfBypass, ROB!EndOfRead, ROB!bypass, ROB!s_bypass, ROB!s_read
<1>4. out_fire(streamReady) <=> o /\ (doutValid \/ (rob_state = "s_bypass" /\ inp.valid))
  BY DEF out_fire, ROB!out_valid, ROB!bypass, ROB!s_bypass
<1>5. ROB!out_last(inp) <=> (doutValid /\ doutLast) \/ (rob_state = "s_bypass" /\ inp.last)
  BY DEF ROB!out_last, ROB!bypass, ROB!s_bypass
<1>6. inp.last => inp.valid
  BY DEF inp
<1>7. QED BY <1>1, <1>2, <1>3, <1>4, <1>5, <1>6

SlicerMoves(req, tlbReqFire, tlbRespFire, miss, aReady) ==
  IF req # NoRequest THEN Ctrl!Accept(req)
  ELSE Ctrl!Serve(tlbReqFire, tlbRespFire, miss, a_fire(aReady))

\* An exception waits from a miss until packetInfoQue has room for it.
LEMMA Excepted ==
  ASSUME Slicer, id \in ReqIds, NEW req, NEW tlbReqFire, NEW tlbRespFire, NEW miss \in BOOLEAN,
         NEW aReady, NEW next, NEW other, Env(req, tlbRespFire, miss, aReady, next, other),
         SlicerMoves(req, tlbReqFire, tlbRespFire, miss, aReady)
  PROVE  /\ id' \in ReqIds
         /\ miss = TRUE => state' = "s_exp"
         /\ state = "s_exp" /\ ~(Len(packetInfoQue) < nReqInflight) => state' = "s_exp"
         /\ miss = FALSE /\ state # "s_exp" => state' # "s_exp"
         /\ miss = FALSE /\ Len(packetInfoQue) < nReqInflight => state' # "s_exp"
<1> USE DEF Ctrl!s_idle, Ctrl!s_slice, Ctrl!s_wait, Ctrl!s_tlb_req, Ctrl!s_tlb_resp,
            Ctrl!s_dma_req, Ctrl!s_exp
<1>1. /\ miss \in BOOLEAN /\ tlbRespFire \in BOOLEAN
      /\ miss => state = "s_tlb_resp" /\ tlbRespFire
  BY DEF Env
<1>2. CASE req # NoRequest
  <2>1. req \in Requests /\ state = "s_idle" /\ state' = "s_slice" /\ id' = req.id
    BY <1>2 DEF SlicerMoves, Env, Ctrl!Accept
  <2>2. id' \in ReqIds
    BY <2>1 DEF ReqIds
  <2>3. QED BY <1>1, <2>1, <2>2
<1>3. CASE req = NoRequest
  <2>1. Ctrl!Serve(tlbReqFire, tlbRespFire, miss, a_fire(aReady))
    BY <1>3 DEF SlicerMoves
  <2>2. id' = id
    BY <2>1 DEF Ctrl!Serve, Ctrl!slicer, Ctrl!Slice, Ctrl!Wait, Ctrl!TlbReq, Ctrl!TlbResp,
                Ctrl!DmaReq, Ctrl!Exp
  <2>3. CASE state = "s_idle" /\ UNCHANGED Ctrl!slicer
    BY <1>1, <2>2, <2>3 DEF Ctrl!slicer
  <2>4. CASE Ctrl!Slice \/ Ctrl!Wait \/ Ctrl!TlbReq(tlbReqFire)
    BY <1>1, <2>2, <2>4 DEF Ctrl!Slice, Ctrl!Wait, Ctrl!TlbReq
  <2>5. CASE Ctrl!TlbResp(tlbRespFire, miss)
    BY <1>1, <2>2, <2>5 DEF Ctrl!TlbResp
  <2>6. CASE Ctrl!DmaReq(a_fire(aReady))
    <3>1. state = "s_dma_req" /\ state' # "s_exp"
      BY <2>6 DEF Ctrl!DmaReq
    <3>2. QED BY <1>1, <2>2, <3>1
  <2>7. CASE Ctrl!Exp
    BY <1>1, <2>2, <2>7 DEF Ctrl!Exp, Ctrl!enq_ready
  <2>8. QED BY <2>1, <2>3, <2>4, <2>5, <2>6, <2>7 DEF Ctrl!Serve
<1>4. QED BY <1>2, <1>3

LEMMA InfoType ==
  ASSUME Slicer, id \in ReqIds
  PROVE  Ctrl!PacketInfo \in Infos /\ (Ctrl!PacketInfo.exception <=> state = "s_exp")
<1>1. Ctrl!vxo(vaddr) \in Int /\ base \in Int /\ leftLen \in Int /\ Ctrl!maxSizeTL \in Int
  BY Blocks, Constants DEF Slicer, SlicerTypes, B
<1> DEFINE end == Ctrl!vxo(vaddr) - base + leftLen
<1>2. end \in Int /\ Ctrl!vxo(vaddr) - base \in Int /\ Ctrl!maxSizeTL - 1 \in Int
  BY <1>1
<1> HIDE DEF end
<1>3. Ctrl!PacketInfo =
        [min_pos |-> Ctrl!vxo(vaddr) - base,
         max_pos |-> IF end >= Ctrl!maxSizeTL THEN Ctrl!maxSizeTL - 1 ELSE end,
         id |-> id, exception |-> state = "s_exp"]
  BY DEF Ctrl!PacketInfo, Ctrl!s_exp, end
<1>4. QED BY <1>2, <1>3 DEF Infos

\* packetInfoQue, with its length and its exceptions.
LEMMA InfoStep ==
  ASSUME Slicer, id \in ReqIds, packetInfoQue \in Seq(Infos), NEW fire \in BOOLEAN,
         Ctrl!InfoQue(fire), NEW deq, deq = (streamState = "s_stream_idle" /\ packetInfoQue # <<>>),
         NEW enq, enq = ((fire \/ state = "s_exp") /\ Len(packetInfoQue) < nReqInflight)
  PROVE  /\ packetInfoQue' \in Seq(Infos)
         /\ Len(packetInfoQue') = Len(packetInfoQue) - Bit(deq) + Bit(enq)
         /\ Exceptions(packetInfoQue') =
              Exceptions(packetInfoQue) - Bit(deq /\ Head(packetInfoQue).exception)
              + Bit(enq /\ state = "s_exp")
<1> DEFINE q == packetInfoQue
           rest == IF deq THEN Tail(q) ELSE q
           x == Ctrl!PacketInfo
<1>1. x \in Infos /\ (x.exception <=> state = "s_exp")
  BY InfoType
<1>2. q' = IF enq THEN Append(rest, x) ELSE rest
  BY DEF Ctrl!InfoQue, Ctrl!QueStep, Ctrl!deq_valid, Ctrl!enq_ready, Ctrl!s_stream_idle, Ctrl!s_exp
<1>3. /\ rest \in Seq(Infos) /\ Len(rest) = Len(q) - Bit(deq)
      /\ Exceptions(rest) = Exceptions(q) - Bit(deq /\ Head(q).exception)
      /\ Exceptions(rest) \in Nat /\ Exceptions(q) \in Nat
  <2>1. CASE deq
    <3>1. q # <<>> /\ q \in Seq(Infos)
      BY <2>1
    <3>2. Exceptions(Tail(q)) = Exceptions(q) - Bit(Head(q).exception)
      BY <3>1, ExceptionsTail
    <3>3. Tail(q) \in Seq(Infos) /\ Len(Tail(q)) = Len(q) - 1
      BY <3>1
    <3>4. Exceptions(Tail(q)) \in Nat /\ Exceptions(q) \in Nat
      BY <3>1, <3>3, ExceptionsFinite
    <3>5. QED BY <2>1, <3>2, <3>3, <3>4 DEF Bit
  <2>2. CASE ~deq
    <3>1. q \in Seq(Infos)
      OBVIOUS
    <3>2. Exceptions(q) \in Nat
      BY <3>1, ExceptionsFinite
    <3>3. Len(q) \in Nat
      BY <3>1
    <3>4. QED BY <2>2, <3>1, <3>2, <3>3 DEF Bit
  <2>3. QED BY <2>1, <2>2
<1> HIDE DEF q, rest, x
<1>4. CASE enq
  <2>1. /\ Append(rest, x) \in Seq(Infos) /\ Len(Append(rest, x)) = Len(rest) + 1
    BY <1>1, <1>3
  <2>2. Exceptions(Append(rest, x)) = Exceptions(rest) + Bit(x.exception)
    BY <1>1, <1>3, ExceptionsAppend
  <2>3. Bit(x.exception) = Bit(enq /\ state = "s_exp") /\ Bit(enq) = 1
    BY <1>1, <1>4 DEF Bit
  <2>4. QED BY <1>2, <1>3, <1>4, <2>1, <2>2, <2>3 DEF q
<1>5. CASE ~enq
  <2>1. Bit(enq) = 0 /\ Bit(enq /\ state = "s_exp") = 0
    BY <1>5 DEF Bit
  <2>2. Len(rest) \in Nat
    BY <1>3
  <2>3. QED BY <1>2, <1>3, <1>5, <2>1, <2>2 DEF q
<1>6. QED BY <1>4, <1>5

LEMMA RoomStep ==
  ASSUME MaxMisses \in {0, 1}, IdInv, RoomInv, Next
  PROVE  RoomInv'
<1>1. PICK req, tlbReqFire, tlbRespFire, miss, aReady, next, other, streamReady, expAck :
         /\ Env(req, tlbRespFire, miss, aReady, next, other)
         /\ Cycle(req, tlbReqFire, tlbRespFire, miss, aReady, next, other, streamReady, expAck)
  BY Cycles DEF IdInv, IdTypes
<1> DEFINE o    == Ctrl!out_ready(streamReady)
           hit  == tlbRespFire /\ ~miss
           deq  == streamState = "s_stream_idle" /\ packetInfoQue # <<>>
           enq  == (aReady \/ state = "s_exp") /\ Len(packetInfoQue) < nReqInflight
           exc  == Head(packetInfoQue).exception
           done == Ends(o)
           ack  == streamState = "s_stream_exp" /\ expAck
           L    == Len(packetInfoQue)
           R    == Len(reqQue)
           E    == Exceptions(packetInfoQue)
           X    == Bit(state = "s_exp")
           Y    == Bit(streamState = "s_stream_exp")
           D    == Bit(streamState = "s_stream_data")
           P    == Bit(Pending)
<1>2. Step(streamReady, o, hit, aReady, next, other)
  BY <1>1, CycleIsStep
<1>3. id' \in ReqIds /\ (state' = "s_exp" <=> (miss \/ (state = "s_exp" /\ ~(L < nReqInflight))))
      /\ (miss => state = "s_tlb_resp")
  <2>1. SlicerMoves(req, tlbReqFire, tlbRespFire, miss, aReady)
    BY <1>1, Zenon DEF Cycle, SlicerMoves
  <2>2. Slicer /\ id \in ReqIds /\ Env(req, tlbRespFire, miss, aReady, next, other)
    BY <1>1 DEF IdInv, RoomInv
  <2>3. id' \in ReqIds
    <3>1. miss \in BOOLEAN
      BY <2>2 DEF Env
    <3>2. QED BY <2>1, <2>2, <3>1, Excepted
  <2>4. miss => state = "s_tlb_resp"
    BY <2>2 DEF Env
  <2>5. state' = "s_exp" <=> (miss \/ (state = "s_exp" /\ ~(L < nReqInflight)))
    <3>1. miss \in BOOLEAN
      BY <2>2 DEF Env
    <3>2. /\ miss = TRUE => state' = "s_exp"
          /\ state = "s_exp" /\ ~(L < nReqInflight) => state' = "s_exp"
          /\ miss = FALSE /\ state # "s_exp" => state' # "s_exp"
          /\ miss = FALSE /\ L < nReqInflight => state' # "s_exp"
      BY <2>1, <2>2, <3>1, Excepted
    <3>3. QED BY <3>1, <3>2
  <2>6. QED BY <2>3, <2>4, <2>5
<1>4. /\ packetInfoQue' \in Seq(Infos)
      /\ L' = L - Bit(deq) + Bit(enq)
      /\ E' = E - Bit(deq /\ exc) + Bit(enq /\ state = "s_exp")
  <2>1. Ctrl!InfoQue(a_fire(aReady)) /\ (a_fire(aReady) <=> aReady) /\ aReady \in BOOLEAN
    BY <1>1, <1>2 DEF Cycle, Step
  <2>2. a_fire(aReady) \in BOOLEAN
    BY DEF a_fire
  <2>3. enq = ((a_fire(aReady) \/ state = "s_exp") /\ L < nReqInflight)
    BY <2>1, <2>2
  <2>4. Slicer /\ id \in ReqIds /\ packetInfoQue \in Seq(Infos)
    BY DEF IdInv, RoomInv
  <2>5. deq = (streamState = "s_stream_idle" /\ packetInfoQue # <<>>)
    OBVIOUS
  <2> HIDE DEF deq, enq
  <2>6. QED BY <2>1, <2>2, <2>3, <2>4, <2>5, InfoStep
<1>5. /\ deq => streamState' = IF exc THEN "s_stream_exp" ELSE "s_stream_data"
      /\ ~deq => streamState' = IF done \/ ack THEN "s_stream_idle" ELSE streamState
      /\ done => streamState = "s_stream_data"
  <2>1. Ctrl!StreamStep(out_fire(streamReady), ROB!out_last(inp), expAck)
    BY <1>1 DEF Cycle
  <2>2. /\ Ends(o) => streamState = "s_stream_data"
        /\ streamState = "s_stream_data" =>
              (Ends(o) <=> out_fire(streamReady) /\ ROB!out_last(inp))
    BY StreamEnds
  <2>3. /\ deq => streamState' = IF exc THEN "s_stream_exp" ELSE "s_stream_data"
        /\ ~deq => streamState' =
             IF \/ streamState = "s_stream_data" /\ out_fire(streamReady) /\ ROB!out_last(inp)
                \/ ack
             THEN "s_stream_idle" ELSE streamState
    BY <2>1 DEF Ctrl!StreamStep, Ctrl!deq_valid, Ctrl!s_stream_idle, Ctrl!s_stream_data,
                Ctrl!s_stream_exp
  <2> HIDE DEF deq, exc, ack, o
  <2>4. QED BY <2>2, <2>3 DEF o
<1>6. R' = R - Bit(done) + Bit(Admitted)
  <2>1. o \in BOOLEAN /\ RobStep(o) /\ (state = "s_dma_req" \/ ~Admitted)
    BY <1>2 DEF Step
  <2>2. PICK rest :
           /\ Len(rest) = Len(reqQue) - Bit(Ends(o))
           /\ Len(reqQue') = Len(rest) + Bit(Admitted)
    BY <2>1, QueueStep
  <2>3. QED BY <2>2
<1>7. /\ Pending' <=> Admitted \/ (Pending /\ ~aReady)
      /\ aReady => Pending
      /\ Admitted => ~Pending /\ R < nReqInflight /\ state = "s_dma_req"
      /\ Pending => state = "s_dma_req"
  <2>1. Admitted => ~ready /\ ~Pending /\ dma_req_state = "s_dma_req_wait" /\ R < nReqInflight
    BY AdmittedIsNew
  <2>2. Pending => dma_req_state # "s_dma_req_idle"
    BY DEF Pending, IdInv, Promised
  <2>3. dma_req_state # "s_dma_req_idle" => state = "s_dma_req"
    BY DEF IdInv, Slicer
  <2>4. ready' = Admitted
    BY <1>2, StatusStep DEF Step
  <2>5. dma_req_state' = "s_dma_req_load" <=> (Pending /\ ~aReady)
    BY <1>2, <2>2 DEF Step
  <2>6. aReady => Pending
    BY <1>2 DEF Step
  <2>7. QED BY <2>1, <2>2, <2>3, <2>4, <2>5, <2>6 DEF Pending
<1>8. /\ E + X + Y <= MaxMisses /\ (miss => E + X + Y < MaxMisses)
      /\ MaxMisses' = MaxMisses /\ nReqInflight' = nReqInflight
  <2>1. Misses = E + X + Y
    BY DEF Misses, Bit, Exceptions, Ctrl!exp_req, Ctrl!s_stream_exp
  <2>2. Misses <= MaxMisses /\ (miss => Misses < MaxMisses)
    BY <1>1 DEF RoomInv, Env
  <2>3. QED BY <2>1, <2>2
<1>9. Misses' = E' + X' + Y'
  BY DEF Misses, Bit, Exceptions, Ctrl!exp_req, Ctrl!s_stream_exp
<1>10. /\ L \in Nat /\ R \in Nat /\ E \in Nat /\ L <= nReqInflight /\ nReqInflight \in Nat \ {0}
       /\ R = L - E + D + P /\ (Pending => L < nReqInflight)
       /\ streamState \in {"s_stream_idle", "s_stream_data", "s_stream_exp"}
       /\ L # 0 => packetInfoQue # <<>> /\ exc \in BOOLEAN
  <2>1. packetInfoQue \in Seq(Infos) /\ reqQue \in Seq(Entries)
    BY DEF RoomInv, IdInv, IdTypes
  <2>2. E \in Nat
    BY <2>1, ExceptionsFinite
  <2>3. packetInfoQue # <<>> => packetInfoQue[1] \in Infos /\ exc = packetInfoQue[1].exception
    BY <2>1
  <2>4. L # 0 => packetInfoQue # <<>>
    BY <2>1
  <2>5. L # 0 => exc \in BOOLEAN
    BY <2>3, <2>4 DEF Infos
  <2>6. L \in Nat /\ R \in Nat
    BY <2>1
  <2> HIDE DEF exc
  <2>7. QED BY <2>2, <2>4, <2>5, <2>6, Constants DEF RoomInv
<1>11. E' \in Nat
  BY <1>4, ExceptionsFinite

<1>12. /\ done \in BOOLEAN /\ ack \in BOOLEAN /\ deq \in BOOLEAN /\ enq \in BOOLEAN
       /\ (enq /\ state = "s_exp" <=> state = "s_exp" /\ L < nReqInflight)
       /\ (aReady => enq /\ state # "s_exp") /\ (enq => aReady \/ state = "s_exp")
       /\ (enq => L < nReqInflight)
       /\ (deq => streamState = "s_stream_idle" /\ L # 0)
       /\ (streamState = "s_stream_idle" /\ L # 0 => deq)
       /\ (ack => streamState = "s_stream_exp")
  <2>1. aReady \in BOOLEAN /\ (aReady => Pending)
    BY <1>2 DEF Step
  <2>2. packetInfoQue # <<>> <=> L # 0
    BY DEF RoomInv
  <2>3. done \in BOOLEAN
    BY DEF Ends, ROB!EndOfBypass, ROB!EndOfRead
  <2>4. ack \in BOOLEAN
    BY <1>1 DEF Cycle
  <2> HIDE DEF done
  <2>5. QED BY <1>7, <1>10, <2>1, <2>2, <2>3, <2>4
<1>13. streamState' \in {"s_stream_idle", "s_stream_data", "s_stream_exp"}
  BY <1>5, <1>10, <1>12
<1>14. miss \in BOOLEAN /\ aReady \in BOOLEAN /\ Admitted \in BOOLEAN /\ Pending \in BOOLEAN
       /\ Pending' \in BOOLEAN
  BY <1>1 DEF Env, Admitted, ROB!Admits, Pending
<1> HIDE DEF o, hit, deq, enq, exc, done, ack, L, R, E
<1>15. D' = D + Bit(deq /\ ~exc) - Bit(done) /\ Y' = Y + Bit(deq /\ exc) - Bit(ack)
       /\ Bit(deq) = Bit(deq /\ exc) + Bit(deq /\ ~exc)
  BY <1>5, <1>10, <1>12 DEF Bit
<1>16. P' = P + Bit(Admitted) - Bit(aReady)
  BY <1>7, <1>14 DEF Bit
<1>17. Bit(enq) = Bit(aReady) + Bit(enq /\ state = "s_exp")
       /\ X' = X + Bit(miss) - Bit(enq /\ state = "s_exp")
  BY <1>3, <1>12, <1>14 DEF Bit
<1>18. \A b : Bit(b) \in 0 .. 1
  BY DEF Bit
<1>19. /\ X \in 0 .. 1 /\ Y \in 0 .. 1 /\ D \in 0 .. 1 /\ P \in 0 .. 1
       /\ X' \in 0 .. 1 /\ Y' \in 0 .. 1 /\ D' \in 0 .. 1 /\ P' \in 0 .. 1
       /\ L' \in Int /\ E' \in Int
  BY <1>4, <1>10, <1>11, <1>18 DEF Bit
<1>20. Misses' <= MaxMisses'
  <2> DEFINE n == Bit(deq /\ exc)
             k == Bit(enq /\ state = "s_exp")
             m == Bit(miss)
             a == Bit(ack)
  <2>1. E' = (E - n) + k /\ Y' = Y + (n - a) /\ X' = X + (m - k)
    BY <1>4, <1>15, <1>17
  <2>2. n \in 0 .. 1 /\ k \in 0 .. 1 /\ m \in 0 .. 1 /\ a \in 0 .. 1
    BY <1>18
  <2>3. E + X + Y + m <= MaxMisses /\ E \in Nat /\ X \in 0 .. 1 /\ Y \in 0 .. 1
    BY <1>8, <1>10, <1>14, <1>19 DEF Bit
  <2> HIDE DEF n, k, m, a, X, Y
  <2>4. E' + X' + Y' = E + X + Y + (m - a)
    BY <2>1, <2>2, <2>3
  <2>5. Misses' = E + X + Y + (m - a)
    BY <1>9, <2>4
  <2>6. E + X + Y + (m - a) <= MaxMisses
    BY <2>2, <2>3
  <2>7. QED BY <1>8, <2>5, <2>6
<1>21. R' = L' - E' + D' + P'
  <2> DEFINE n == Bit(deq /\ exc)
             k == Bit(deq /\ ~exc)
             e == Bit(enq /\ state = "s_exp")
             d == Bit(done)
             a == Bit(Admitted)
             f == Bit(aReady)
  <2>1. /\ L' = L - (n + k) + (f + e) /\ E' = E - n + e /\ R' = R - d + a
        /\ D' = D + k - d /\ P' = P + a - f /\ R = L - E + D + P
    BY <1>4, <1>6, <1>10, <1>15, <1>16, <1>17
  <2>2. /\ n \in 0 .. 1 /\ k \in 0 .. 1 /\ e \in 0 .. 1 /\ d \in 0 .. 1
        /\ a \in 0 .. 1 /\ f \in 0 .. 1
    BY <1>18
  <2> HIDE DEF n, k, e, d, a, f, D, P
  <2>3. QED BY <1>10, <1>19, <2>1, <2>2
<1>22. L' <= nReqInflight'
  BY <1>4, <1>8, <1>10, <1>12 DEF Bit
<1>23. Pending' => L' < nReqInflight'
  <2>1. CASE Admitted
    <3>1. ~enq /\ P = 0 /\ R < nReqInflight
      BY <1>7, <1>12, <1>14, <2>1 DEF Bit
    <3>2. L < nReqInflight \/ deq
      <4>1. L - E + D < nReqInflight /\ E + Y <= 1
        BY <1>8, <1>10, <1>19, <3>1
      <4>2. CASE streamState = "s_stream_idle"
        BY <1>10, <1>12, <4>2
      <4>3. CASE streamState = "s_stream_data"
        BY <1>10, <1>19, <4>1, <4>3 DEF Bit
      <4>4. CASE streamState = "s_stream_exp"
        BY <1>10, <1>19, <4>1, <4>4 DEF Bit
      <4>5. QED BY <1>10, <4>2, <4>3, <4>4
    <3>3. QED BY <1>4, <1>8, <1>10, <3>1, <3>2 DEF Bit
  <2>2. CASE ~Admitted /\ Pending'
    <3>1. Pending /\ ~aReady /\ state = "s_dma_req"
      BY <1>7, <2>2
    <3>2. ~enq /\ L < nReqInflight
      BY <1>10, <1>12, <3>1
    <3>3. QED BY <1>4, <1>8, <1>10, <3>2 DEF Bit
  <2>3. QED BY <2>1, <2>2
<1>24. ReqIds' = ReqIds /\ Infos' = Infos
  BY DEF ReqIds, Infos
<1>25. QED BY <1>3, <1>4, <1>13, <1>20, <1>21, <1>22, <1>23, <1>24 DEF RoomInv, L, R, E

LEMMA InitRoom ==
  ASSUME MaxMisses \in {0, 1}, Init
  PROVE  RoomInv
<1>1. /\ state = "s_idle" /\ id = 0 /\ dma_req_state = "s_dma_req_idle" /\ ready = FALSE
      /\ packetInfoQue = <<>> /\ streamState = "s_stream_idle" /\ reqQue = <<>>
  BY DEF Init, Ctrl!Init, Ctrl!s_idle, Ctrl!s_dma_req_idle, Ctrl!s_stream_idle, ROB!Init
<1>2. packetInfoQue \in Seq(Infos) /\ Len(packetInfoQue) = 0 /\ id \in ReqIds
  BY <1>1 DEF ReqIds
<1>3. Exceptions(packetInfoQue) = 0
  <2>1. {n \in DOMAIN packetInfoQue : packetInfoQue[n].exception} = {}
    BY <1>1
  <2>2. QED BY <2>1, FS_EmptySet DEF Exceptions
<1>4. Misses = 0
  BY <1>1, <1>3 DEF Misses, Exceptions, Ctrl!exp_req, Ctrl!s_stream_exp
<1>5. Len(reqQue) = 0 /\ ~Pending
  BY <1>1 DEF Pending
<1>6. QED BY <1>1, <1>2, <1>3, <1>4, <1>5, Constants DEF RoomInv, Bit

LEMMA NextRoom ==
  ASSUME MaxMisses \in {0, 1}, IdInv, RoomInv, [Next]_vars
  PROVE  RoomInv'
<1>1. CASE Next
  BY <1>1, RoomStep
<1>2. CASE UNCHANGED vars
  <2>1. UNCHANGED <<state, id, dma_req_state, packetInfoQue, streamState, ready, reqQue>>
    BY <1>2 DEF vars, ctrl, rob
  <2>2. /\ Misses' = Misses /\ Pending' = Pending
        /\ Exceptions(packetInfoQue)' = Exceptions(packetInfoQue)
    BY <2>1 DEF Misses, Pending, Exceptions, Ctrl!exp_req, Ctrl!s_stream_exp
  <2>3. QED BY <2>1, <2>2 DEF RoomInv, ReqIds, Infos
<1>3. QED BY <1>1, <1>2

(***************************************************************************)
(* With no more than one exception on its way, the entries of              *)
(* packetInfoQue, of the reorder buffer and of the stream account for one  *)
(* another in every cycle of the read side (DMA.scala).                    *)
(***************************************************************************)
THEOREM PacketsAccounted ==
  ASSUME MaxMisses \in {0, 1}
  PROVE  Spec => []RoomInv
<1>1. Init => RoomInv
  BY InitRoom
<1>2. IdInv /\ RoomInv /\ [Next]_vars => RoomInv'
  BY NextRoom
<1>3. QED BY <1>1, <1>2, IdsAgree, PTL DEF Spec

(***************************************************************************)
(* With no more than one exception on its way, a packet that goes to the   *)
(* bus finds room in packetInfoQue, which is not asked for it.             *)
(***************************************************************************)
THEOREM PacketsHaveRoom ==
  ASSUME MaxMisses \in {0, 1}
  PROVE  Spec => []PacketHasRoom
<1>1. RoomInv => PacketHasRoom
  BY DEF RoomInv, PacketHasRoom, Pending, Ctrl!a_valid, Ctrl!reorder_req_valid,
         Ctrl!s_dma_req_load
<1>2. QED BY <1>1, PacketsAccounted, PTL

---------------------------------------------------------------------------
(* The words: what the reorder buffer hands on is what was asked for.  The *)
(* witness sent says for each id where its packet begins and how many      *)
(* words it has; the words on the bus, in the buffer and on the way from   *)
(* one to the other are those (Delivers).                                  *)
MaxWords == B \div dataByte
Stretches == [from : Int, words : 1 .. MaxWords]
WordAt(p, k) == p.from + k * dataByte

\* The packets that went to the bus and have not been handed on, in order.
NSent == Len(reqQue) - Bit(Pending)
SentQue(sent) == [n \in 1 .. NSent |-> sent[reqQue[n].id]]

\* The packet whose words are taken from the bus.
Moving(i) == (rob_state = "s_bypass" /\ ROB!due.id = i) \/ (buf_we /\ cur = i)

WordsOf(e) == IF 2^e.size <= dataByte THEN 1 ELSE 2^e.size \div dataByte

SizesAgree(sent) ==
  /\ \A n \in 1 .. NSent : sent[reqQue[n].id].words = WordsOf(reqQue[n])
  /\ Pending => 2^reqQue[Len(reqQue)].size = Ctrl!packet_size(len)

OnWay(sent) ==
  \A i \in Ids : gets[i] # <<>> =>
    /\ Len(gets[i]) <= sent[i].words
    /\ \A j \in 1 .. Len(gets[i]) :
         gets[i][j] = WordAt(sent[i], (sent[i].words - Len(gets[i])) + (j - 1))
    /\ ~Moving(i) => Len(gets[i]) = sent[i].words

InBuffer(sent) ==
  /\ buffer \in [Ids \X (0 .. MaxWords - 1) -> Int]
  /\ \A i \in Ids : statusTable[i] = 2 =>
       \A k \in 0 .. sent[i].words - 1 : buffer[<<i, k>>] = WordAt(sent[i], k)
  /\ buf_we => /\ d_id = cur /\ wrOffset = sent[cur].words - Len(gets[cur])
               /\ \A k \in 0 .. wrOffset - 1 : buffer[<<cur, k>>] = WordAt(sent[cur], k)
  /\ ~buf_we => wrOffset = 0

Reading(sent) ==
  /\ rob_state # "s_read" => rdOffset = 0
  /\ rob_state = "s_read" =>
       /\ rdOffset \in 1 .. sent[ROB!due.id].words
       /\ dout = WordAt(sent[ROB!due.id], rdOffset - 1)

Delivers(sent) ==
  sent \in [Ids -> Stretches] /\ SizesAgree(sent) /\ OnWay(sent) /\ InBuffer(sent) /\ Reading(sent)

\* The words of the packet that is due which the stream has taken.
Passed(sent) ==
  IF rob_state = "s_bypass" THEN sent[ROB!due.id].words - Len(gets[ROB!due.id])
  ELSE IF rob_state = "s_read" THEN rdOffset - 1 ELSE 0

\* The packet in hand, and what was sent when it went to the bus.
NewSent == [from |-> Ctrl!vxn(vaddr) * Ctrl!maxSizeTL + base, words |-> Len(PacketWords)]
SentNext(sent, aReady) == IF aReady THEN [sent EXCEPT ![tl_id] = NewSent] ELSE sent

---------------------------------------------------------------------------
(* Numbers of words. *)
LEMMA WordsUp ==
  ASSUME NEW s \in Nat \ {0}, NEW d \in Nat \ {0}
  PROVE  /\ (s + d - 1) \div d \in Nat \ {0}
         /\ s <= d => (s + d - 1) \div d = 1
         /\ s % d = 0 => (s + d - 1) \div d = s \div d /\ s = d * (s \div d)
<1>1. s <= d => (s + d - 1) \div d = 1
  <2> SUFFICES ASSUME s <= d PROVE (s + d - 1) \div d = 1
    OBVIOUS
  <2>1. s - 1 \in Nat /\ s - 1 < d /\ s + d - 1 = d * 1 + (s - 1)
    OBVIOUS
  <2>2. (d * 1 + (s - 1)) \div d = 1
    BY <2>1, Cut!DivisionUnique
  <2>3. QED BY <2>1, <2>2
<1>2. s % d = 0 => (s + d - 1) \div d = s \div d /\ s = d * (s \div d)
  <2> SUFFICES ASSUME s % d = 0 PROVE (s + d - 1) \div d = s \div d /\ s = d * (s \div d)
    OBVIOUS
  <2> DEFINE q == s \div d
  <2>1. q \in Nat /\ s = d * q + (s % d)
    BY Cut!Division
  <2> HIDE DEF q
  <2>2. d - 1 \in Nat /\ d - 1 < d /\ s + d - 1 = d * q + (d - 1) /\ s = d * q
    BY <2>1
  <2>3. (d * q + (d - 1)) \div d = q
    BY <2>1, <2>2, Cut!DivisionUnique
  <2>4. QED BY <2>2, <2>3 DEF q
<1>3. (s + d - 1) \div d \in Nat \ {0}
  <2> DEFINE a == s + d - 1
             q == a \div d
  <2>1. a \in Nat /\ a >= d
    OBVIOUS
  <2> HIDE DEF a
  <2>2. q \in Nat /\ (a % d) \in Nat /\ (a % d) < d /\ a = d * q + (a % d)
    BY <2>1, Cut!Division
  <2> HIDE DEF q
  <2>3. q # 0
    <3>1. SUFFICES ASSUME q = 0 PROVE FALSE
      OBVIOUS
    <3>2. d * q = 0
      BY <3>1
    <3>3. QED BY <2>1, <2>2, <3>2
  <2>4. QED BY <2>2, <2>3 DEF q, a
<1>4. QED BY <1>1, <1>2, <1>3

\* Division by the size of a word keeps the order of multiples of it.
LEMMA WordsOrder ==
  ASSUME NEW s \in Nat, NEW t \in Nat, NEW d \in Nat \ {0}, s % d = 0, t % d = 0, s <= t
  PROVE  s \div d <= t \div d /\ s = d * (s \div d) /\ t = d * (t \div d)
<1> DEFINE p == s \div d
           q == t \div d
<1>1. p \in Nat /\ q \in Nat /\ s = d * p + (s % d) /\ t = d * q + (t % d)
  BY Cut!Division
<1> HIDE DEF p, q
<1>2. s = d * p /\ t = d * q
  BY <1>1
<1>3. p <= q
  <2>1. SUFFICES ASSUME p >= q + 1 PROVE FALSE
    BY <1>1
  <2>2. d * p >= d * (q + 1) /\ d * (q + 1) = d * q + d
    BY <1>1, <2>1
  <2> DEFINE x == d * p
             y == d * q
  <2>3. x \in Nat /\ y \in Nat /\ x >= y + d /\ x <= y
    BY <1>1, <1>2, <2>2
  <2> HIDE DEF x, y
  <2>4. QED BY <2>3
<1>4. QED BY <1>2, <1>3 DEF p, q

\* A packet has room for a word.
LEMMA MaxWordsType == MaxWords \in Nat \ {0}
<1>1. /\ B \in Nat \ {0} /\ dataByte \in Nat \ {0} /\ B % dataByte = 0 /\ dataByte <= B
  BY Constants, SameOperators, Cut!PacketSizesType
<1>2. (B + dataByte - 1) \div dataByte \in Nat \ {0}
      /\ (B + dataByte - 1) \div dataByte = B \div dataByte
  BY <1>1, WordsUp
<1>3. QED BY <1>2 DEF MaxWords

\* The packet in hand, in words.
LEMMA NewSentType ==
  ASSUME Slicer, IdTypes, state = "s_dma_req"
  PROVE  /\ NewSent \in Stretches /\ MaxWords \in Nat \ {0}
         /\ Len(PacketWords) = NewSent.words
         /\ \A j \in 1 .. NewSent.words : PacketWords[j] = WordAt(NewSent, j - 1)
         /\ \A e \in Entries : 2^e.size = Ctrl!packet_size(len) => WordsOf(e) = NewSent.words
<1> DEFINE from  == Ctrl!vxn(vaddr) * Ctrl!maxSizeTL + base
           bytes == Ctrl!packet_size(len)
           k     == (bytes + dataByte - 1) \div dataByte
<1>1. from \in Int
  <2> DEFINE m == Ctrl!vxn(vaddr) * B
  <2>1. m \in Nat /\ base \in Int
    BY Blocks, Constants DEF Slicer, SlicerTypes
  <2>2. from = m + base
    BY DEF B
  <2> HIDE DEF m, from
  <2>3. QED BY <2>1, <2>2
<1>2. bytes \in Nat \ {0} /\ dataByte \in Nat \ {0} /\ B \in Nat \ {0}
  BY NewEntryType, Constants
<1>3. PacketWords = [n \in 1 .. k |-> from + (n - 1) * dataByte]
  BY DEF PacketWords, WordsFrom
<1>4. /\ B % dataByte = 0 /\ bytes <= B /\ dataByte <= B
      /\ dataByte <= bytes => bytes % dataByte = 0
  <2>1. bytes = Cut!packet_size(len) /\ B = Cut!maxSizeTL
    BY SameOperators
  <2>2. Cut!packet_size(len) \in Cut!PacketSizes /\ Cut!InWords(vaddr, more, len, base)
    BY DEF Slicer, WithPacket, Packet, Cut!Fits
  <2>3. Cut!packet_size(len) <= Cut!maxSizeTL /\ dataByte <= Cut!maxSizeTL
    BY <2>2, Constants, Cut!PacketSizesType
  <2> HIDE DEF bytes
  <2>4. QED BY <2>1, <2>2, <2>3 DEF Cut!InWords
<1> HIDE DEF from, bytes
<1>5. /\ k \in Nat \ {0} /\ (bytes <= dataByte => k = 1)
      /\ dataByte <= bytes => k = bytes \div dataByte
  BY <1>2, <1>4, WordsUp
<1>6. MaxWords \in Nat \ {0}
  BY MaxWordsType
<1>7. k <= MaxWords
  <2>1. CASE bytes <= dataByte
    BY <1>5, <1>6, <2>1
  <2>2. CASE dataByte <= bytes
    <3>1. bytes \div dataByte <= B \div dataByte
      BY <1>2, <1>4, <2>2, WordsOrder
    <3>2. QED BY <1>5, <2>2, <3>1 DEF MaxWords
  <2>3. QED BY <1>2, <2>1, <2>2
<1>8. \A e \in Entries : 2^e.size = bytes => WordsOf(e) = k
  BY <1>2, <1>5 DEF WordsOf
<1> HIDE DEF k
<1>9. Len(PacketWords) = k /\ \A j \in 1 .. k : PacketWords[j] = from + (j - 1) * dataByte
  BY <1>3, <1>5
<1>10. NewSent = [from |-> from, words |-> k]
  BY <1>9 DEF NewSent, from
<1>11. QED BY <1>1, <1>5, <1>6, <1>7, <1>8, <1>9, <1>10 DEF Stretches, WordAt, bytes

---------------------------------------------------------------------------
(* A cycle and the words. *)
Held(next, other) == next = NoId => other = d_id

\* What the bus still has, and what its port shows.
LEMMA BusWords ==
  ASSUME IdInv, NEW streamReady, NEW o, NEW hit, NEW aReady, NEW next, NEW other,
         Step(streamReady, o, hit, aReady, next, other), Held(next, other)
  PROVE  /\ \A i \in Ids : gets'[i] = IF aReady /\ i = tl_id THEN PacketWords
                                      ELSE IF Taken(o) /\ i = d_id THEN Tail(gets[i])
                                      ELSE gets[i]
         /\ d_valid /\ ~Taken(o) => cur' = cur /\ d_id' = d_id
         /\ cur # NoId /\ d_id = cur /\ gets'[cur] # <<>> /\ ~(aReady /\ cur = tl_id)
            => cur' = cur /\ d_id' = cur
<1> DEFINE taken == d_valid /\ ROB!in_ready(o)
           left  == IF taken THEN [gets EXCEPT ![d_id] = Tail(@)] ELSE gets
<1>1. /\ gets \in [Ids -> Seq(Int)] /\ cur \in Ids \cup {NoId} /\ NoId \notin Ids
      /\ d_valid \in BOOLEAN /\ d_id \in Ids /\ tl_id \in Ids
  BY Constants DEF IdInv, IdTypes
<1>2. /\ aReady \in BOOLEAN /\ (a_fire(aReady) <=> aReady) /\ o = Ctrl!out_ready(streamReady)
      /\ next \in Ids \cup {NoId} /\ (next # NoId => other = next)
      /\ BusStep(aReady, streamReady, next, other)
  BY DEF Step
<1>3. gets' = IF aReady THEN [left EXCEPT ![tl_id] = PacketWords] ELSE left
  BY <1>2 DEF BusStep
<1>4. \/ /\ d_valid /\ ~taken /\ next = d_id
         /\ UNCHANGED <<cur, d_valid, d_id>>
      \/ /\ ~d_valid \/ taken
         /\ next # NoId => /\ gets'[next] # <<>>
                           /\ cur # NoId => (next = cur \/ left[cur] = <<>>)
         /\ cur' = IF next # NoId THEN next
                   ELSE IF cur # NoId /\ left[cur] # <<>> THEN cur ELSE NoId
         /\ d_valid' = (next # NoId) /\ d_id' = other
  BY <1>2 DEF BusStep
<1>5. Taken(o) <=> taken
  BY DEF Taken
<1>6. taken => d_valid
  OBVIOUS
<1> HIDE DEF taken
<1>7. /\ left \in [Ids -> Seq(Int) \cup {Tail(gets[d_id])}]
      /\ \A i \in Ids : left[i] = IF taken /\ i = d_id THEN Tail(gets[i]) ELSE gets[i]
  BY <1>1
<1> HIDE DEF left
<1>8. \A i \in Ids : gets'[i] = IF aReady /\ i = tl_id THEN PacketWords ELSE left[i]
  BY <1>1, <1>2, <1>3, <1>7
<1>9. d_valid /\ ~taken => cur' = cur /\ d_id' = d_id
  BY <1>1, <1>4
<1>10. ASSUME cur # NoId, d_id = cur, gets'[cur] # <<>>, ~(aReady /\ cur = tl_id)
       PROVE  cur' = cur /\ d_id' = cur
  <2>1. cur \in Ids /\ left[cur] # <<>>
    BY <1>1, <1>8, <1>10
  <2>2. CASE next = NoId
    BY <1>1, <1>4, <1>10, <2>1, <2>2 DEF Held
  <2>3. CASE next # NoId
    BY <1>2, <1>4, <1>10, <2>1, <2>3
  <2>4. QED BY <2>2, <2>3
<1>11. QED BY <1>5, <1>7, <1>8, <1>9, <1>10

\* The words a packet has left on the bus, one less when one is taken.
LEMMA TailWords ==
  ASSUME NEW s \in Seq(Int), s # <<>>
  PROVE  /\ Len(s) \in Nat \ {0} /\ Tail(s) \in Seq(Int) /\ Len(Tail(s)) = Len(s) - 1
         /\ Tail(s) = <<>> <=> Len(s) = 1
         /\ \A j \in 1 .. Len(s) - 1 : Tail(s)[j] = s[j + 1]
         /\ Head(s) = s[1]
<1>1. Len(s) \in Nat \ {0} /\ Tail(s) \in Seq(Int) /\ Len(Tail(s)) = Len(s) - 1
  OBVIOUS
<1>2. ASSUME NEW t \in Seq(Int) PROVE t = <<>> <=> Len(t) = 0
  OBVIOUS
<1>3. Tail(s) = <<>> <=> Len(Tail(s)) = 0
  BY <1>1, <1>2
<1>4. \A j \in 1 .. Len(s) - 1 : Tail(s)[j] = s[j + 1]
  OBVIOUS
<1>5. QED BY <1>1, <1>3, <1>4

\* The registers of the reorder buffer that hold words.
LEMMA RobWords ==
  ASSUME IdInv, NEW o \in BOOLEAN, RobStep(o)
  PROVE  /\ buf_we' <=> ROB!ToBuffer(inp) \/ (buf_we /\ ~Stored)
         /\ ROB!ToBuffer(inp) <=> /\ ~buf_we /\ rob_state = "s_idle" /\ reqQue # <<>>
                                  /\ d_valid /\ ROB!due.id # d_id
         /\ Stored <=> buf_we /\ d_valid /\ Len(gets[d_id]) = 1
         /\ wrOffset' = IF Stored THEN 0 ELSE IF buf_we /\ d_valid
                        THEN (wrOffset + 1) % MaxWords ELSE wrOffset
         /\ buffer' = IF buf_we THEN [buffer EXCEPT ![<<d_id, wrOffset>>] = inp.word] ELSE buffer
         /\ Taken(o) <=> d_valid /\ ((rob_state = "s_bypass" /\ o) \/ buf_we)
         /\ Ends(o) <=> \/ rob_state = "s_bypass" /\ o /\ d_valid /\ Len(gets[d_id]) = 1
                        \/ rob_state = "s_read" /\ o /\ rdOffset >= ROB!rdDataSize
         /\ rob_state = "s_bypass" /\ ~Ends(o) => rob_state' = "s_bypass"
         /\ rob_state = "s_read" /\ ~Ends(o) => rob_state' = "s_read"
         /\ rob_state' = "s_bypass" =>
              \/ rob_state = "s_bypass" /\ ~Ends(o)
              \/ /\ rob_state = "s_idle" /\ reqQue # <<>> /\ d_valid /\ ROB!due.id = d_id
                 /\ ~buf_we /\ ~Taken(o) /\ ~Ends(o)
         /\ rob_state' = "s_read" =>
              \/ /\ rob_state = "s_idle" /\ reqQue # <<>> /\ statusTable[ROB!due.id] = 2
                 /\ rdOffset' = rdOffset + 1 /\ ~Ends(o)
                 /\ dout' = buffer[<<ROB!due.id, rdOffset % MaxWords>>]
              \/ /\ rob_state = "s_read" /\ o /\ rdOffset < ROB!rdDataSize /\ ~Ends(o)
                 /\ rdOffset' = rdOffset + 1
                 /\ dout' = buffer[<<ROB!due.id, rdOffset % MaxWords>>]
              \/ rob_state = "s_read" /\ ~o /\ ~Ends(o) /\ rdOffset' = rdOffset /\ dout' = dout
         /\ rob_state' # "s_read" => rdOffset' = 0 \/ (rob_state # "s_read" /\ rdOffset' = rdOffset)
<1> DEFINE eb == ROB!EndOfBypass(inp, o)
           er == ROB!EndOfRead(o)
           tb == ROB!ToBypass(inp)
           tr == ROB!ToRead(inp)
           ro == ROB!ReadOn(o)
           ts == ROB!ToBuffer(inp)
           size == ROB!rdDataSize
<1>1. /\ rob_state \in {"s_idle", "s_bypass", "s_read"} /\ rdOffset \in Nat
      /\ buf_we \in BOOLEAN /\ d_valid \in BOOLEAN
  BY DEF IdInv, IdTypes
<1>2. 2^maxLgSizeTL \div dataByte = MaxWords
  BY DEF MaxWords, B, Ctrl!maxSizeTL
<1>3. rob_state' = IF tb THEN "s_bypass" ELSE IF tr THEN "s_read"
                   ELSE IF eb \/ er THEN "s_idle" ELSE rob_state
  BY DEF RobStep, ROB!Cycle, ROB!StateStep, ROB!s_bypass, ROB!s_read, ROB!s_idle
<1>4. \/ /\ tr \/ ro
         /\ rdOffset' = rdOffset + 1
         /\ dout' = buffer[<<ROB!due.id, rdOffset % MaxWords>>]
      \/ er /\ rdOffset' = 0
      \/ ~tr /\ ~ro /\ ~er /\ UNCHANGED <<rdOffset, dout>>
  BY <1>2 DEF RobStep, ROB!Cycle, ROB!ReadStep
<1>5. /\ buf_we' = (ts \/ (buf_we /\ ~Stored))
      /\ wrOffset' = IF Stored THEN 0 ELSE IF buf_we /\ d_valid
                     THEN (wrOffset + 1) % MaxWords ELSE wrOffset
      /\ buffer' = IF buf_we THEN [buffer EXCEPT ![<<d_id, wrOffset>>] = inp.word] ELSE buffer
  <2>1. ROB!StoreStep(inp) /\ inp.valid = d_valid /\ inp.id = d_id
    BY DEF RobStep, ROB!Cycle, inp
  <2>2. QED BY <1>2, <2>1 DEF ROB!StoreStep, Stored
<1>6. tb <=> rob_state = "s_idle" /\ reqQue # <<>> /\ d_valid /\ ~buf_we /\ ROB!due.id = d_id
  BY DEF ROB!ToBypass, ROB!deq_valid, inp, ROB!s_idle
<1>7. tr <=> rob_state = "s_idle" /\ ~tb /\ reqQue # <<>> /\ statusTable[ROB!due.id] = 2
  BY DEF ROB!ToRead, ROB!deq_valid, ROB!s_idle
<1>8. ts <=> ~buf_we /\ rob_state = "s_idle" /\ reqQue # <<>> /\ d_valid /\ ROB!due.id # d_id
  BY DEF ROB!ToBuffer, ROB!deq_valid, inp, ROB!s_idle
<1>9. er <=> rob_state = "s_read" /\ o /\ rdOffset >= size
  BY DEF ROB!EndOfRead, ROB!s_read
<1>10. ro <=> rob_state = "s_read" /\ o /\ rdOffset < size
  BY DEF ROB!ReadOn, ROB!s_read
<1>11. eb <=> rob_state = "s_bypass" /\ o /\ d_valid /\ Len(gets[d_id]) = 1
  BY DEF ROB!EndOfBypass, ROB!bypass, ROB!s_bypass, inp
<1>12. Stored <=> buf_we /\ d_valid /\ Len(gets[d_id]) = 1
  BY DEF Stored, ROB!EndOfStore, inp
<1>13. Taken(o) <=> d_valid /\ ((rob_state = "s_bypass" /\ o) \/ buf_we)
  BY DEF Taken, ROB!in_ready, ROB!bypass, ROB!s_bypass
<1>14. Ends(o) <=> eb \/ er
  BY DEF Ends
<1>15. rob_state = "s_read" => size \in Nat
  <2>1. SUFFICES ASSUME rob_state = "s_read" PROVE size \in Nat
    OBVIOUS
  <2> DEFINE n == ROB!due.size
  <2>2. n \in 0 .. maxLgSizeTL
    BY <2>1, Events DEF Entries, IdInv, InHand
  <2> HIDE DEF n
  <2>3. 2^n \in Nat /\ dataByte \in Nat \ {0}
    BY <2>2, PowersAssumption, Constants
  <2>4. 2^n \div dataByte \in Nat
    BY <2>3, Cut!Division
  <2>5. size = IF 2^n <= dataByte THEN 1 ELSE 2^n \div dataByte
    BY DEF ROB!rdDataSize, n
  <2>6. QED BY <2>4, <2>5
<1> HIDE DEF eb, er, tb, tr, ro, ts, size
<1>16. rob_state = "s_read" /\ o => er \/ ro
  BY <1>1, <1>9, <1>10, <1>15
<1>17. rob_state = "s_bypass" /\ ~Ends(o) => rob_state' = "s_bypass"
  BY <1>3, <1>6, <1>7, <1>9, <1>14
<1>18. rob_state' = "s_bypass" =>
              \/ rob_state = "s_bypass" /\ ~Ends(o)
              \/ /\ rob_state = "s_idle" /\ reqQue # <<>> /\ d_valid /\ ROB!due.id = d_id
                 /\ ~buf_we /\ ~Taken(o) /\ ~Ends(o)
  BY <1>1, <1>3, <1>6, <1>9, <1>11, <1>13, <1>14
<1>19. er => ~tr /\ ~ro
  BY <1>1, <1>7, <1>9, <1>10, <1>15
<1>20. rob_state' = "s_read" => rob_state \in {"s_idle", "s_read"} /\ ~er /\ ~eb
  BY <1>1, <1>3, <1>7, <1>9, <1>11, <1>19
<1>21. rob_state' = "s_read" /\ rob_state = "s_idle" => tr
  BY <1>3, <1>9, <1>11
<1>22. QED
  <2>1. rob_state' = "s_read" =>
          \/ /\ rob_state = "s_idle" /\ reqQue # <<>> /\ statusTable[ROB!due.id] = 2
             /\ rdOffset' = rdOffset + 1 /\ ~Ends(o)
             /\ dout' = buffer[<<ROB!due.id, rdOffset % MaxWords>>]
          \/ /\ rob_state = "s_read" /\ o /\ rdOffset < size /\ ~Ends(o)
             /\ rdOffset' = rdOffset + 1
             /\ dout' = buffer[<<ROB!due.id, rdOffset % MaxWords>>]
          \/ rob_state = "s_read" /\ ~o /\ ~Ends(o) /\ rdOffset' = rdOffset /\ dout' = dout
    BY <1>4, <1>7, <1>10, <1>14, <1>16, <1>20, <1>21
  <2>2. rob_state' # "s_read" => rdOffset' = 0 \/ (rob_state # "s_read" /\ rdOffset' = rdOffset)
    <3>1. CASE er
      BY <1>4, <1>19, <3>1
    <3>2. CASE ~er /\ rob_state = "s_read"
      BY <1>3, <1>6, <1>7, <1>11, <3>2
    <3>3. CASE ~er /\ rob_state # "s_read"
      BY <1>3, <1>4, <1>7, <1>10, <3>3
    <3>4. QED BY <3>1, <3>2, <3>3
  <2>3. Ends(o) <=> \/ rob_state = "s_bypass" /\ o /\ d_valid /\ Len(gets[d_id]) = 1
                    \/ rob_state = "s_read" /\ o /\ rdOffset >= size
    BY <1>9, <1>11, <1>14
  <2>4. buf_we' <=> ts \/ (buf_we /\ ~Stored)
    BY <1>5
  <2>5. rob_state = "s_read" /\ ~Ends(o) => rob_state' = "s_read"
    BY <1>3, <1>6, <1>7, <1>11, <1>14
  <2>6. QED BY <1>5, <1>8, <1>12, <1>13, <1>17, <1>18, <2>1, <2>2, <2>3, <2>4, <2>5 DEF size, ts

\* The packet that is due stays due until its last word is taken.
LEMMA DueStays ==
  ASSUME IdInv, NEW o \in BOOLEAN, RobStep(o), state = "s_dma_req" \/ ~Admitted,
         reqQue # <<>>, ~Ends(o)
  PROVE  reqQue' # <<>> /\ ROB!due' = ROB!due
<1>1. PICK rest :
         /\ rest = IF Ends(o) THEN Tail(reqQue) ELSE reqQue
         /\ reqQue' \in Seq(Entries)
         /\ \A n \in DOMAIN rest : n \in DOMAIN reqQue' /\ reqQue'[n] = rest[n]
  BY QueueStep
<1>2. reqQue \in Seq(Entries)
  BY DEF IdInv, IdTypes
<1>3. 1 \in DOMAIN reqQue /\ rest = reqQue
  BY <1>1, <1>2
<1>4. 1 \in DOMAIN reqQue' /\ reqQue'[1] = reqQue[1]
  BY <1>1, <1>3
<1>5. QED BY <1>1, <1>2, <1>4 DEF ROB!due

\* A packet that is due and went to the bus is the first of those sent.
LEMMA DueSent ==
  ASSUME IdInv, NEW sent, sent \in [Ids -> Stretches], SizesAgree(sent), reqQue # <<>>,
         gets[ROB!due.id] # <<>> \/ statusTable[ROB!due.id] = 2
  PROVE  /\ NSent \in Nat \ {0} /\ ROB!due = reqQue[1] /\ ROB!due.id \in Ids
         /\ ~(Pending /\ ROB!due.id = tl_id)
         /\ sent[ROB!due.id].words = ROB!rdDataSize
         /\ sent[ROB!due.id].words \in 1 .. MaxWords
<1>1. /\ ROB!due = reqQue[1] /\ ROB!due \in Entries /\ ROB!due.id \in Ids
      /\ reqQue \in Seq(Entries) /\ Len(reqQue) \in Nat \ {0}
  <2>1. ROB!due = reqQue[1] /\ ROB!due \in Entries /\ reqQue \in Seq(Entries)
    BY Events DEF IdInv, IdTypes
  <2>2. QED BY <2>1 DEF Entries
<1>2. ~(Pending /\ ROB!due.id = tl_id)
  BY DEF IdInv, Pending, Promised, OnBus, IdTypes
<1>3. NSent \in Nat \ {0}
  <2>1. CASE Pending
    <3>1. reqQue[Len(reqQue)].id = tl_id
      BY <2>1 DEF IdInv, Promised
    <3>2. Len(reqQue) # 1
      BY <1>1, <1>2, <2>1, <3>1
    <3>3. QED BY <1>1, <2>1, <3>2 DEF NSent, Bit
  <2>2. CASE ~Pending
    BY <1>1, <2>2 DEF NSent, Bit
  <2>3. QED BY <2>1, <2>2
<1>4. sent[reqQue[1].id].words = WordsOf(reqQue[1])
  BY <1>3 DEF SizesAgree
<1>5. WordsOf(reqQue[1]) = ROB!rdDataSize
  BY <1>1 DEF WordsOf, ROB!rdDataSize
<1>6. QED BY <1>1, <1>2, <1>3, <1>4, <1>5 DEF Stretches

\* Words are taken of a packet until it is complete.
LEMMA MovingStep ==
  ASSUME IdInv, NEW streamReady, NEW o, NEW hit, NEW aReady, NEW next, NEW other,
         Step(streamReady, o, hit, aReady, next, other), Held(next, other),
         buf_we => d_id = cur, NEW i \in Ids, ~(aReady /\ i = tl_id), gets'[i] # <<>>,
         Moving(i) \/ (Taken(o) /\ i = d_id)
  PROVE  Moving(i)'
<1>1. o \in BOOLEAN /\ RobStep(o) /\ (state = "s_dma_req" \/ ~Admitted)
  BY DEF Step
<1>2. gets'[i] = IF Taken(o) /\ i = d_id THEN Tail(gets[i]) ELSE gets[i]
  BY BusWords
<1>3. gets[i] \in Seq(Int)
  BY DEF IdInv, IdTypes
<1>4. gets[i] # <<>>
  BY <1>2, <1>3 DEF IdInv, OnBus, Taken
<1>5. ~(Taken(o) /\ i = d_id /\ Len(gets[i]) = 1)
  BY <1>2, <1>3, <1>4, TailWords
<1>6. CASE rob_state = "s_bypass" /\ ROB!due.id = i
  <2>1. reqQue # <<>> /\ cur = i
    BY <1>6 DEF IdInv, InHand
  <2>2. ~Ends(o)
    <3>1. ASSUME Ends(o) PROVE FALSE
      <4>1. d_valid /\ o /\ Len(gets[d_id]) = 1
        BY <1>1, <1>6, <3>1, RobWords
      <4>2. d_id = i /\ Taken(o)
        BY <1>1, <1>6, <2>1, <4>1, RobWords DEF IdInv, OnBus
      <4>3. QED BY <1>5, <4>1, <4>2
    <3>2. QED BY <3>1
  <2>3. rob_state' = "s_bypass"
    BY <1>1, <1>6, <2>2, RobWords
  <2>4. ROB!due' = ROB!due
    BY <1>1, <2>1, <2>2, DueStays
  <2>5. QED BY <1>6, <2>3, <2>4 DEF Moving
<1>7. CASE buf_we /\ cur = i
  <2>1. ~Stored
    BY <1>1, <1>5, <1>7, RobWords
  <2>2. buf_we'
    BY <1>1, <1>7, <2>1, RobWords
  <2>3. i # NoId
    BY Constants
  <2>4. cur' = cur
    BY <1>7, <2>3, BusWords
  <2>5. QED BY <1>7, <2>2, <2>4 DEF Moving
<1>8. CASE Taken(o) /\ i = d_id
  <2>1. cur = i
    BY <1>8 DEF Taken, IdInv, OnBus
  <2>2. (rob_state = "s_bypass" /\ ROB!due.id = i) \/ buf_we
    BY <1>1, <1>8, <2>1, RobWords DEF IdInv, InHand
  <2>3. QED BY <1>6, <1>7, <2>1, <2>2
<1>9. QED BY <1>6, <1>7, <1>8 DEF Moving

\* The words still to come.
LEMMA OnWayStep ==
  ASSUME IdInv, NEW streamReady, NEW o, NEW hit, NEW aReady, NEW next, NEW other,
         Step(streamReady, o, hit, aReady, next, other), Held(next, other),
         NEW sent, Delivers(sent), NEW sent2, sent2 = SentNext(sent, aReady)
  PROVE  OnWay(sent2)'
<1>1. aReady \in BOOLEAN /\ (aReady => state = "s_dma_req") /\ tl_id \in Ids
  BY DEF Step, IdInv, IdTypes
<1>2. sent \in [Ids -> Stretches] /\ OnWay(sent) /\ (buf_we => d_id = cur)
  BY DEF Delivers, InBuffer
<1>3. \A i \in Ids : sent2[i] = IF aReady /\ i = tl_id THEN NewSent ELSE sent[i]
  BY <1>1, <1>2 DEF SentNext
<1> SUFFICES ASSUME NEW i \in Ids, gets'[i] # <<>>
             PROVE  /\ Len(gets'[i]) <= sent2[i].words
                    /\ \A j \in 1 .. Len(gets'[i]) :
                         gets'[i][j] = WordAt(sent2[i], (sent2[i].words - Len(gets'[i])) + (j - 1))
                    /\ ~Moving(i)' => Len(gets'[i]) = sent2[i].words
  BY DEF OnWay, WordAt
<1>4. CASE aReady /\ i = tl_id
  <2>1. gets'[i] = PacketWords /\ sent2[i] = NewSent
    BY <1>3, <1>4, BusWords
  <2>2. /\ NewSent \in Stretches /\ Len(PacketWords) = NewSent.words
        /\ \A j \in 1 .. NewSent.words : PacketWords[j] = WordAt(NewSent, j - 1)
    BY <1>1, <1>4, NewSentType DEF IdInv
  <2>3. NewSent.words \in Nat
    BY <2>2 DEF Stretches
  <2>4. \A j \in 1 .. NewSent.words : (NewSent.words - Len(PacketWords)) + (j - 1) = j - 1
    BY <2>2, <2>3
  <2>5. QED BY <2>1, <2>2, <2>3, <2>4
<1>5. CASE ~(aReady /\ i = tl_id)
  <2>1. gets'[i] = IF Taken(o) /\ i = d_id THEN Tail(gets[i]) ELSE gets[i]
    BY <1>5, BusWords
  <2>2. sent2[i] = sent[i] /\ sent[i].words \in Nat
    BY <1>2, <1>3, <1>5 DEF Stretches
  <2>3. gets[i] \in Seq(Int)
    BY DEF IdInv, IdTypes
  <2>4. gets[i] # <<>>
    BY <2>1, <2>3 DEF IdInv, OnBus, Taken
  <2>5. /\ Len(gets[i]) <= sent[i].words
        /\ \A j \in 1 .. Len(gets[i]) :
             gets[i][j] = WordAt(sent[i], (sent[i].words - Len(gets[i])) + (j - 1))
        /\ ~Moving(i) => Len(gets[i]) = sent[i].words
    BY <1>2, <2>4 DEF OnWay
  <2>6. CASE Taken(o) /\ i = d_id
    <3>1. Moving(i)'
      BY <1>2, <1>5, <2>6, MovingStep
    <3> DEFINE s == gets[i]
               w == sent[i].words
    <3>2. /\ Len(s) \in Nat \ {0} /\ Len(Tail(s)) = Len(s) - 1
          /\ \A j \in 1 .. Len(s) - 1 : Tail(s)[j] = s[j + 1]
      BY <2>3, <2>4, TailWords
    <3>3. \A j \in 1 .. Len(s) - 1 :
            /\ j + 1 \in 1 .. Len(s)
            /\ (w - Len(s)) + ((j + 1) - 1) = (w - (Len(s) - 1)) + (j - 1)
      BY <2>2, <3>2
    <3>4. \A j \in 1 .. Len(s) - 1 : Tail(s)[j] = WordAt(sent[i], (w - (Len(s) - 1)) + (j - 1))
      BY <2>5, <3>2, <3>3
    <3>5. gets'[i] = Tail(s) /\ Len(s) - 1 <= w
      BY <2>1, <2>2, <2>5, <2>6, <3>2
    <3>6. QED BY <2>2, <3>1, <3>2, <3>4, <3>5
  <2>7. CASE ~(Taken(o) /\ i = d_id)
    <3>1. Moving(i) => Moving(i)'
      BY <1>2, <1>5, MovingStep
    <3>2. QED BY <2>1, <2>2, <2>5, <2>7, <3>1
  <2>8. QED BY <2>6, <2>7
<1>6. QED BY <1>4, <1>5

\* The word at the port, when one is being stored.
LEMMA StoredWord ==
  ASSUME IdInv, NEW sent, Delivers(sent), buf_we
  PROVE  /\ d_id = cur /\ d_id \in Ids /\ gets[d_id] \in Seq(Int) /\ gets[d_id] # <<>>
         /\ Len(gets[d_id]) \in Nat \ {0} /\ Len(gets[d_id]) <= sent[d_id].words
         /\ statusTable[d_id] = 1 /\ ~(Pending /\ d_id = tl_id)
         /\ sent[d_id] \in Stretches /\ sent[d_id].words \in 1 .. MaxWords
         /\ wrOffset = sent[d_id].words - Len(gets[d_id]) /\ wrOffset \in 0 .. MaxWords - 1
         /\ d_valid => inp.word = WordAt(sent[d_id], wrOffset)
         /\ inp.word \in Int
<1>1. d_id = cur /\ d_id \in Ids /\ wrOffset = sent[d_id].words - Len(gets[d_id])
  BY DEF Delivers, InBuffer, IdInv, IdTypes
<1>2. gets[d_id] \in Seq(Int) /\ gets[d_id] # <<>> /\ statusTable[d_id] = 1
  BY <1>1 DEF IdInv, IdTypes, InHand, OnBus
<1>3. ~(Pending /\ d_id = tl_id)
  BY <1>2 DEF IdInv, Pending, Promised, OnBus, IdTypes
<1>4. sent[d_id] \in Stretches /\ sent[d_id].words \in 1 .. MaxWords
  BY <1>1 DEF Delivers, Stretches
<1>5. Len(gets[d_id]) \in Nat \ {0} /\ Head(gets[d_id]) = gets[d_id][1] /\ gets[d_id][1] \in Int
  BY <1>2
<1>6. /\ Len(gets[d_id]) <= sent[d_id].words
      /\ gets[d_id][1] = WordAt(sent[d_id], (sent[d_id].words - Len(gets[d_id])) + (1 - 1))
  BY <1>1, <1>2, <1>5 DEF Delivers, OnWay
<1>7. wrOffset \in 0 .. MaxWords - 1 /\ (sent[d_id].words - Len(gets[d_id])) + (1 - 1) = wrOffset
  BY <1>1, <1>4, <1>5, <1>6, MaxWordsType
<1>8. inp.word = IF d_valid THEN Head(gets[d_id]) ELSE -1
  BY DEF inp, Junk
<1>9. QED BY <1>1, <1>2, <1>3, <1>4, <1>5, <1>6, <1>7, <1>8

\* The buffer.
LEMMA InBufferStep ==
  ASSUME IdInv, NEW streamReady, NEW o, NEW hit, NEW aReady, NEW next, NEW other,
         Step(streamReady, o, hit, aReady, next, other), Held(next, other),
         NEW sent, Delivers(sent), NEW sent2, sent2 = SentNext(sent, aReady)
  PROVE  InBuffer(sent2)'
<1>1. o \in BOOLEAN /\ RobStep(o) /\ aReady \in BOOLEAN /\ (aReady => Pending)
  BY DEF Step
<1>2. tl_id \in Ids /\ d_id \in Ids /\ gets \in [Ids -> Seq(Int)] /\ statusTable \in [Ids -> 0 .. 2]
      /\ cur \in Ids \cup {NoId} /\ NoId \notin Ids
  BY Constants DEF IdInv, IdTypes
<1>3. sent \in [Ids -> Stretches] /\ InBuffer(sent) /\ OnWay(sent)
  BY DEF Delivers
<1>4. \A i \in Ids : sent2[i] = IF aReady /\ i = tl_id THEN NewSent ELSE sent[i]
  BY <1>1, <1>2, <1>3 DEF SentNext
<1>5. /\ buf_we' <=> ROB!ToBuffer(inp) \/ (buf_we /\ ~Stored)
      /\ ROB!ToBuffer(inp) => /\ ~buf_we /\ rob_state = "s_idle" /\ d_valid /\ ~Taken(o)
      /\ Stored <=> buf_we /\ d_valid /\ Len(gets[d_id]) = 1
      /\ wrOffset' = IF Stored THEN 0 ELSE IF buf_we /\ d_valid
                     THEN (wrOffset + 1) % MaxWords ELSE wrOffset
      /\ buffer' = IF buf_we THEN [buffer EXCEPT ![<<d_id, wrOffset>>] = inp.word] ELSE buffer
      /\ buf_we => (Taken(o) <=> d_valid)
  BY <1>1, RobWords
<1>6. /\ buffer' \in [Ids \X (0 .. MaxWords - 1) -> Int]
      /\ \A i \in Ids, k \in 0 .. MaxWords - 1 :
           buffer'[<<i, k>>] = IF buf_we /\ i = d_id /\ k = wrOffset THEN inp.word
                               ELSE buffer[<<i, k>>]
  <2>1. buffer \in [Ids \X (0 .. MaxWords - 1) -> Int]
    BY <1>3 DEF InBuffer
  <2>2. CASE buf_we
    <3>1. <<d_id, wrOffset>> \in Ids \X (0 .. MaxWords - 1) /\ inp.word \in Int
      BY <2>2, StoredWord
    <3>2. buffer' = [buffer EXCEPT ![<<d_id, wrOffset>>] = inp.word]
      BY <1>5, <2>2
    <3>3. buffer' \in [Ids \X (0 .. MaxWords - 1) -> Int]
      BY <2>1, <3>1, <3>2
    <3>4. \A i \in Ids, k \in 0 .. MaxWords - 1 :
            /\ <<i, k>> \in Ids \X (0 .. MaxWords - 1)
            /\ <<i, k>> = <<d_id, wrOffset>> <=> i = d_id /\ k = wrOffset
      OBVIOUS
    <3>5. QED BY <2>1, <2>2, <3>1, <3>2, <3>3, <3>4
  <2>3. CASE ~buf_we
    BY <1>5, <2>1, <2>3
  <2>4. QED BY <2>2, <2>3
<1>7. ASSUME NEW i \in Ids, statusTable'[i] = 2, NEW k \in 0 .. sent2[i].words - 1
      PROVE  buffer'[<<i, k>>] = WordAt(sent2[i], k)
  <2>1. ~(ready /\ tl_id = i)
    BY <1>1, <1>7, StatusStep
  <2>2. (Stored /\ d_id = i) \/ statusTable[i] = 2
    BY <1>1, <1>7, <2>1, StatusStep
  <2>3. ~(aReady /\ i = tl_id)
    <3>1. Stored /\ d_id = i => ~(Pending /\ i = tl_id)
      BY <1>5, StoredWord
    <3>2. statusTable[i] = 2 => ~(Pending /\ i = tl_id)
      BY DEF Pending, IdInv, Promised
    <3>3. QED BY <1>1, <2>2, <3>1, <3>2
  <2>4. sent2[i] = sent[i] /\ sent[i].words \in 1 .. MaxWords
    BY <1>3, <1>4, <2>3 DEF Stretches
  <2>5. k \in 0 .. MaxWords - 1 /\ k \in 0 .. sent[i].words - 1
    BY <2>4, MaxWordsType
  <2>6. CASE Stored /\ d_id = i
    <3>1. /\ buf_we /\ d_valid /\ Len(gets[d_id]) = 1 /\ cur = i
          /\ wrOffset = sent[i].words - 1 /\ inp.word = WordAt(sent[i], wrOffset)
      BY <1>5, <2>6, StoredWord
    <3>2. CASE k = wrOffset
      BY <1>6, <2>4, <2>5, <2>6, <3>1, <3>2
    <3>3. CASE k # wrOffset
      <4>1. k \in 0 .. wrOffset - 1
        BY <2>4, <2>5, <3>1, <3>3
      <4>2. buffer[<<i, k>>] = WordAt(sent[i], k)
        BY <1>3, <3>1, <4>1 DEF InBuffer
      <4>3. QED BY <1>6, <2>4, <2>5, <3>3, <4>2
    <3>4. QED BY <3>2, <3>3
  <2>7. CASE ~(Stored /\ d_id = i)
    <3>1. statusTable[i] = 2
      BY <2>2, <2>7
    <3>2. ~(buf_we /\ i = d_id)
      BY <3>1, StoredWord
    <3>3. buffer[<<i, k>>] = WordAt(sent[i], k)
      BY <1>3, <2>5, <3>1 DEF InBuffer
    <3>4. QED BY <1>6, <2>4, <2>5, <3>2, <3>3
  <2>8. QED BY <2>6, <2>7
<1>8. ASSUME buf_we'
      PROVE  /\ d_id' = cur' /\ wrOffset' = sent2[cur'].words - Len(gets'[cur'])
             /\ \A k \in 0 .. wrOffset' - 1 : buffer'[<<cur', k>>] = WordAt(sent2[cur'], k)
  <2>1. CASE ROB!ToBuffer(inp)
    <3>1. ~buf_we /\ rob_state = "s_idle" /\ d_valid /\ ~Taken(o) /\ ~Stored
      BY <1>5, <2>1
    <3>2. cur = d_id /\ gets[d_id] # <<>> /\ cur' = cur /\ d_id' = d_id
      BY <3>1, BusWords DEF IdInv, OnBus
    <3>3. ~(aReady /\ d_id = tl_id)
      BY <1>1, <3>1, Events
    <3>4. gets'[d_id] = gets[d_id]
      BY <1>2, <3>1, <3>3, BusWords
    <3>5. Len(gets[d_id]) = sent[d_id].words
      BY <1>2, <1>3, <3>1, <3>2 DEF OnWay, Moving
    <3>6. wrOffset' = 0
      BY <1>3, <1>5, <3>1 DEF InBuffer
    <3>7. sent[d_id].words \in Nat /\ sent2[d_id] = sent[d_id]
      BY <1>2, <1>3, <1>4, <3>3 DEF Stretches
    <3>8. wrOffset' = sent2[cur'].words - Len(gets'[cur'])
      BY <3>2, <3>4, <3>5, <3>6, <3>7
    <3>9. \A k \in 0 .. wrOffset' - 1 : FALSE
      BY <3>6
    <3>10. QED BY <3>2, <3>8, <3>9
  <2>2. CASE buf_we /\ ~Stored
    <3> DEFINE g == gets[d_id]
               w == sent[d_id].words
    <3>1. /\ d_id = cur /\ g \in Seq(Int) /\ g # <<>> /\ Len(g) \in Nat \ {0} /\ Len(g) <= w
          /\ ~(Pending /\ d_id = tl_id) /\ w \in 1 .. MaxWords
          /\ wrOffset = w - Len(g) /\ wrOffset \in 0 .. MaxWords - 1
          /\ d_valid => inp.word = WordAt(sent[d_id], wrOffset)
      BY <2>2, StoredWord
    <3>2. sent2[d_id] = sent[d_id] /\ ~(aReady /\ d_id = tl_id)
      BY <1>1, <1>2, <1>4, <3>1
    <3>3. gets'[d_id] = IF d_valid THEN Tail(g) ELSE g
      BY <1>2, <1>5, <2>2, <3>2, BusWords
    <3>4. gets'[d_id] # <<>>
      BY <1>5, <2>2, <3>1, <3>3, TailWords
    <3>5. cur' = cur /\ d_id' = cur
      BY <1>2, <3>1, <3>2, <3>4, BusWords
    <3>6. \A k \in 0 .. wrOffset - 1 : buffer[<<d_id, k>>] = WordAt(sent[d_id], k)
      BY <1>3, <2>2, <3>1 DEF InBuffer
    <3>7. CASE d_valid
      <4>1. Len(g) # 1
        BY <1>5, <2>2, <3>7
      <4>2. Len(Tail(g)) = Len(g) - 1
        BY <3>1, TailWords
      <4> HIDE DEF g, w
      <4>3. wrOffset + 1 \in 0 .. MaxWords - 1 /\ wrOffset + 1 = w - (Len(g) - 1) /\ MaxWords \in Nat
        <5> DEFINE n == Len(g)
        <5>1. n \in Nat \ {0, 1} /\ n <= w /\ w \in 1 .. MaxWords /\ wrOffset = w - n
          BY <3>1, <4>1
        <5> HIDE DEF n
        <5>2. wrOffset + 1 \in 0 .. MaxWords - 1 /\ wrOffset + 1 = w - (n - 1)
          BY <5>1, MaxWordsType
        <5>3. QED BY <5>2, MaxWordsType DEF n
      <4>4. (wrOffset + 1) % MaxWords = wrOffset + 1
        <5> DEFINE x == wrOffset + 1
        <5>1. x \in 0 .. MaxWords - 1 /\ MaxWords \in Nat
          BY <4>3
        <5> HIDE DEF x
        <5>2. x % MaxWords = x
          BY <5>1
        <5>3. QED BY <5>2 DEF x
      <4>5. wrOffset' = wrOffset + 1
        BY <1>5, <2>2, <3>7, <4>4
      <4>6. wrOffset' = sent2[cur'].words - Len(gets'[cur'])
        BY <3>1, <3>2, <3>3, <3>5, <3>7, <4>2, <4>3, <4>5 DEF g, w
      <4>7. ASSUME NEW k \in 0 .. wrOffset' - 1
            PROVE  buffer'[<<cur', k>>] = WordAt(sent2[cur'], k)
        <5>1. k \in 0 .. MaxWords - 1 /\ (k = wrOffset \/ k \in 0 .. wrOffset - 1)
          BY <3>1, <4>3, <4>5
        <5>2. buffer'[<<d_id, k>>] = IF k = wrOffset THEN inp.word ELSE buffer[<<d_id, k>>]
          BY <1>2, <1>6, <2>2, <5>1
        <5>3. buffer'[<<d_id, k>>] = WordAt(sent[d_id], k)
          BY <3>1, <3>6, <3>7, <5>1, <5>2
        <5>4. QED BY <3>1, <3>2, <3>5, <5>3
      <4>8. QED BY <3>5, <4>6, <4>7
    <3>8. CASE ~d_valid
      <4>1. wrOffset' = wrOffset /\ gets'[d_id] = g
        BY <1>5, <3>3, <3>8
      <4>2. wrOffset' = sent2[cur'].words - Len(gets'[cur'])
        BY <3>1, <3>2, <3>5, <4>1
      <4>3. ASSUME NEW k \in 0 .. wrOffset' - 1
            PROVE  buffer'[<<cur', k>>] = WordAt(sent2[cur'], k)
        <5>1. k \in 0 .. MaxWords - 1 /\ k # wrOffset /\ k \in 0 .. wrOffset - 1
          BY <3>1, <4>1, MaxWordsType
        <5>2. buffer'[<<d_id, k>>] = buffer[<<d_id, k>>]
          BY <1>2, <1>6, <5>1
        <5>3. QED BY <3>1, <3>2, <3>5, <3>6, <5>1, <5>2
      <4>4. QED BY <3>5, <4>2, <4>3
    <3>9. d_valid \in BOOLEAN
      BY DEF IdInv, IdTypes
    <3>10. QED BY <3>7, <3>8, <3>9
  <2>3. QED BY <1>5, <1>8, <2>1, <2>2
<1>9. ~buf_we' => wrOffset' = 0
  <2>1. CASE buf_we
    BY <1>5, <2>1
  <2>2. CASE ~buf_we
    BY <1>3, <1>5, <2>2 DEF InBuffer
  <2>3. QED BY <2>1, <2>2
<1>10. MaxWords' = MaxWords
  BY DEF MaxWords, B, Ctrl!maxSizeTL
<1>11. QED BY <1>6, <1>7, <1>8, <1>9, <1>10 DEF InBuffer, WordAt

\* The word at the output of the buffer.
LEMMA ReadingStep ==
  ASSUME IdInv, NEW streamReady, NEW o, NEW hit, NEW aReady, NEW next, NEW other,
         Step(streamReady, o, hit, aReady, next, other),
         NEW sent, Delivers(sent), NEW sent2, sent2 = SentNext(sent, aReady)
  PROVE  Reading(sent2)'
<1>1. o \in BOOLEAN /\ RobStep(o) /\ aReady \in BOOLEAN /\ (aReady => Pending)
      /\ (state = "s_dma_req" \/ ~Admitted)
  BY DEF Step
<1>2. tl_id \in Ids /\ rdOffset \in Nat
  BY DEF IdInv, IdTypes
<1>3. sent \in [Ids -> Stretches] /\ SizesAgree(sent) /\ InBuffer(sent) /\ Reading(sent)
  BY DEF Delivers
<1>4. \A i \in Ids : sent2[i] = IF aReady /\ i = tl_id THEN NewSent ELSE sent[i]
  BY <1>1, <1>2, <1>3 DEF SentNext
<1>5. rob_state' # "s_read" => rdOffset' = 0
  BY <1>1, <1>3, RobWords DEF Reading
<1>6. ASSUME rob_state' = "s_read"
      PROVE  /\ rdOffset' \in 1 .. sent2[ROB!due'.id].words
             /\ dout' = WordAt(sent2[ROB!due'.id], rdOffset' - 1)
  <2> DEFINE i == ROB!due.id
             w == sent[i].words
  <2>1. /\ \/ /\ rob_state = "s_idle" \/ (rob_state = "s_read" /\ rdOffset < ROB!rdDataSize)
              /\ rdOffset' = rdOffset + 1 /\ dout' = buffer[<<i, rdOffset % MaxWords>>]
           \/ rob_state = "s_read" /\ rdOffset' = rdOffset /\ dout' = dout
        /\ ~Ends(o) /\ reqQue # <<>> /\ statusTable[i] = 2
    BY <1>1, <1>6, RobWords DEF IdInv, InHand
  <2>2. ROB!due' = ROB!due
    BY <1>1, <2>1, DueStays
  <2>3. i \in Ids /\ ~(Pending /\ i = tl_id) /\ w = ROB!rdDataSize /\ w \in 1 .. MaxWords
    BY <1>3, <2>1, DueSent
  <2>4. sent2[i] = sent[i]
    BY <1>1, <1>4, <2>3
  <2>5. CASE /\ rob_state = "s_idle" \/ (rob_state = "s_read" /\ rdOffset < ROB!rdDataSize)
             /\ rdOffset' = rdOffset + 1 /\ dout' = buffer[<<i, rdOffset % MaxWords>>]
    <3>1. rdOffset \in 0 .. w - 1 /\ rdOffset \in 0 .. MaxWords - 1
      <4>1. rob_state = "s_idle" => rdOffset = 0
        BY <1>3 DEF Reading
      <4> HIDE DEF w, i
      <4>2. QED BY <1>2, <2>3, <2>5, <4>1, MaxWordsType
    <3>2. rdOffset % MaxWords = rdOffset
      BY <3>1, MaxWordsType
    <3>3. buffer[<<i, rdOffset>>] = WordAt(sent[i], rdOffset)
      BY <1>3, <2>1, <2>3, <3>1 DEF InBuffer
    <3>4. rdOffset' \in 1 .. w /\ rdOffset' - 1 = rdOffset
      <4>1. rdOffset' = rdOffset + 1
        BY <2>5
      <4> HIDE DEF w, i
      <4>2. rdOffset + 1 \in 1 .. w /\ (rdOffset + 1) - 1 = rdOffset
        BY <2>3, <3>1, MaxWordsType
      <4>3. QED BY <4>1, <4>2
    <3>5. dout' = WordAt(sent[i], rdOffset' - 1)
      BY <2>5, <3>2, <3>3, <3>4
    <3>6. QED BY <2>2, <2>4, <3>4, <3>5
  <2>6. CASE rob_state = "s_read" /\ rdOffset' = rdOffset /\ dout' = dout
    <3>1. rdOffset \in 1 .. w /\ dout = WordAt(sent[i], rdOffset - 1)
      BY <1>3, <2>6 DEF Reading
    <3>2. QED BY <2>2, <2>4, <2>6, <3>1
  <2>7. QED BY <2>1, <2>5, <2>6
<1>7. QED BY <1>5, <1>6 DEF Reading, WordAt

\* The packet in hand waits for its entry, and for the bus.
LEMMA PendingStep ==
  ASSUME IdInv, NEW streamReady, NEW o, NEW hit, NEW aReady, NEW next, NEW other,
         Step(streamReady, o, hit, aReady, next, other)
  PROVE  /\ Pending' <=> Admitted \/ (Pending /\ ~aReady)
         /\ aReady \in BOOLEAN /\ (aReady => Pending)
         /\ Admitted => ~Pending /\ state = "s_dma_req"
         /\ Pending => state = "s_dma_req"
<1>1. Admitted => ~Pending /\ dma_req_state = "s_dma_req_wait"
  BY AdmittedIsNew
<1>2. Pending => dma_req_state # "s_dma_req_idle"
  BY DEF Pending, IdInv, Promised
<1>3. dma_req_state # "s_dma_req_idle" => state = "s_dma_req"
  BY DEF IdInv, Slicer
<1>4. ready' = Admitted
  BY StatusStep DEF Step
<1>5. dma_req_state' = "s_dma_req_load" <=> (Pending /\ ~aReady)
  BY <1>2 DEF Step
<1>6. aReady \in BOOLEAN /\ (aReady => Pending)
  BY DEF Step
<1>7. QED BY <1>1, <1>2, <1>3, <1>4, <1>5, <1>6 DEF Pending

\* A sequence that gets another element, and one that loses its first.
Grown(s, t, b, x) ==
  /\ Len(t) = Len(s) + Bit(b) /\ (\A n \in 1 .. Len(s) : t[n] = s[n])
  /\ b => t[Len(s) + 1] = x
Shifted(s, t, b) ==
  Len(t) = Len(s) - Bit(b) /\ \A n \in 1 .. Len(t) : t[n] = s[n + Bit(b)]

\* What was sent, after a cycle.
LEMMA SentStep ==
  ASSUME IdInv, NEW streamReady, NEW o, NEW hit, NEW aReady, NEW next, NEW other,
         Step(streamReady, o, hit, aReady, next, other),
         NEW sent, Delivers(sent), NEW sent2, sent2 = SentNext(sent, aReady)
  PROVE  /\ NSent \in Nat /\ NSent' \in Nat /\ NSent' = NSent - Bit(Ends(o)) + Bit(aReady)
         /\ \A n \in 1 .. NSent' :
              /\ n + Bit(Ends(o)) \in DOMAIN reqQue /\ reqQue'[n] = reqQue[n + Bit(Ends(o))]
              /\ \/ n + Bit(Ends(o)) \in 1 .. NSent
                    /\ sent2[reqQue'[n].id] = sent[reqQue[n + Bit(Ends(o))].id]
                 \/ /\ aReady /\ n + Bit(Ends(o)) = NSent + 1 /\ NSent + 1 = Len(reqQue)
                    /\ sent2[reqQue'[n].id] = NewSent
<1> DEFINE e == Bit(Ends(o))
           f == Bit(aReady)
<1>1. o \in BOOLEAN /\ RobStep(o) /\ aReady \in BOOLEAN /\ (aReady => Pending)
      /\ (state = "s_dma_req" \/ ~Admitted)
  BY DEF Step
<1>2. PICK rest :
         /\ rest \in Seq(Entries) /\ Len(rest) = Len(reqQue) - e
         /\ \A n \in DOMAIN rest : rest[n] = reqQue[n + e] /\ n + e \in DOMAIN reqQue
         /\ reqQue' \in Seq(Entries) /\ Len(reqQue') = Len(rest) + Bit(Admitted)
         /\ \A n \in DOMAIN rest : n \in DOMAIN reqQue' /\ reqQue'[n] = rest[n]
  BY <1>1, QueueStep
<1>3. /\ Pending' <=> Admitted \/ (Pending /\ ~aReady)
      /\ Admitted => ~Pending
  BY PendingStep
<1>4. reqQue \in Seq(Entries) /\ Len(reqQue) \in Nat /\ tl_id \in Ids
  BY DEF IdInv, IdTypes
<1>5. Pending => reqQue # <<>> /\ reqQue[Len(reqQue)].id = tl_id
  BY DEF IdInv, Promised
<1>6. \A i \in Ids : sent2[i] = IF aReady /\ i = tl_id THEN NewSent ELSE sent[i]
  BY <1>1, <1>4 DEF SentNext, Delivers
<1>7. e \in 0 .. 1 /\ f \in 0 .. 1 /\ Bit(Admitted) \in 0 .. 1 /\ Bit(Pending) \in 0 .. 1
      /\ Bit(Pending)' \in 0 .. 1
  BY DEF Bit
<1>8. Bit(Pending)' = Bit(Pending) + Bit(Admitted) - f
  BY <1>1, <1>3 DEF Bit
<1>9. Len(reqQue') \in Nat /\ Len(rest) \in Nat
  BY <1>2
<1>10. Ends(o) => reqQue # <<>> /\ (Pending => reqQue[1].id # tl_id)
  BY <1>1, Events
<1>11. NSent \in Nat /\ (aReady => NSent + 1 = Len(reqQue)) /\ e <= NSent
  <2>1. Pending => Len(reqQue) # 0
    BY <1>4, <1>5
  <2>2. Ends(o) => Len(reqQue) # 0 /\ (Pending => Len(reqQue) # 1)
    BY <1>4, <1>5, <1>10
  <2>3. aReady => Pending
    BY <1>1
  <2>4. CASE Pending
    <3> DEFINE l == Len(reqQue)
    <3>1. NSent = l - 1
      BY <2>4 DEF NSent, Bit
    <3>2. l \in Nat \ {0} /\ (Ends(o) => l # 1) /\ (Ends(o) \/ e = 0) /\ e \in 0 .. 1
      BY <1>4, <2>1, <2>2, <2>4 DEF Bit
    <3> HIDE DEF l, e
    <3>3. QED BY <3>1, <3>2 DEF l
  <2>5. CASE ~Pending
    BY <1>4, <2>2, <2>3, <2>5 DEF NSent, Bit
  <2>6. QED BY <2>4, <2>5
<1> HIDE DEF e, f
<1>12. NSent' = NSent - e + f
  <2>1. NSent = Len(reqQue) - Bit(Pending) /\ NSent' = Len(reqQue') - Bit(Pending)'
    BY DEF NSent
  <2>2. Len(reqQue') = Len(reqQue) - e + Bit(Admitted)
    BY <1>2, <1>4, <1>7
  <2>3. QED BY <1>4, <1>7, <1>8, <2>1, <2>2
<1>13. NSent' \in Nat
  BY <1>7, <1>11, <1>12
<1>14. ASSUME NEW n \in 1 .. NSent'
       PROVE  /\ n + e \in DOMAIN reqQue /\ reqQue'[n] = reqQue[n + e]
              /\ \/ n + e \in 1 .. NSent /\ sent2[reqQue'[n].id] = sent[reqQue[n + e].id]
                 \/ /\ aReady /\ n + e = NSent + 1 /\ NSent + 1 = Len(reqQue)
                    /\ sent2[reqQue'[n].id] = NewSent
  <2>1. n \in Nat /\ n >= 1 /\ n + e <= NSent + f
    <3> DEFINE m == NSent'
    <3>1. n \in 1 .. m /\ m = NSent - e + f /\ m \in Nat
      BY <1>12, <1>13
    <3> HIDE DEF m
    <3>2. QED BY <1>7, <1>11, <3>1
  <2>2. f = IF aReady THEN 1 ELSE 0
    BY DEF f, Bit
  <2>3. NSent <= Len(reqQue)
    BY <1>4, <1>7 DEF NSent
  <2>4. n \in 1 .. Len(reqQue) - e /\ n + e \in DOMAIN reqQue
    BY <1>4, <1>7, <1>11, <2>1, <2>2, <2>3
  <2>5. reqQue'[n] = reqQue[n + e]
    BY <1>2, <2>4
  <2>6. CASE n + e <= NSent
    <3>1. n + e \in 1 .. NSent
      BY <1>7, <1>11, <2>1, <2>6
    <3>2. ~(aReady /\ reqQue[n + e].id = tl_id)
      <4>1. ASSUME aReady, reqQue[n + e].id = tl_id PROVE FALSE
        <5>1. Len(reqQue) \in DOMAIN reqQue /\ reqQue[Len(reqQue)].id = tl_id
          BY <1>1, <1>4, <1>5, <4>1
        <5>2. n + e = Len(reqQue)
          BY <2>4, <4>1, <5>1 DEF IdInv, Distinct
        <5>3. QED BY <1>11, <2>6, <4>1, <5>2
      <4>2. QED BY <4>1
    <3>3. reqQue[n + e].id \in Ids
      <4> DEFINE m == n + e
      <4>1. m \in DOMAIN reqQue /\ reqQue \in Seq(Entries)
        BY <1>4, <2>4
      <4> HIDE DEF m
      <4>2. reqQue[m] \in Entries
        BY <4>1
      <4>3. QED BY <4>2 DEF Entries, m
    <3>4. sent2[reqQue'[n].id] = sent[reqQue[n + e].id]
      BY <1>6, <2>5, <3>2, <3>3
    <3>5. QED BY <2>4, <2>5, <3>1, <3>4
  <2>7. CASE ~(n + e <= NSent)
    <3>1. aReady /\ n + e = NSent + 1
      BY <1>7, <1>11, <2>1, <2>2, <2>7
    <3>2. NSent + 1 = Len(reqQue)
      BY <1>11, <3>1
    <3>3. sent2[reqQue'[n].id] = NewSent
      BY <1>1, <1>4, <1>5, <1>6, <2>5, <3>1, <3>2
    <3>4. QED BY <2>4, <2>5, <3>1, <3>2, <3>3
  <2>8. QED BY <2>6, <2>7
<1>15. QED BY <1>11, <1>12, <1>13, <1>14 DEF e, f

\* The packet in hand stays as it is until it goes to the bus.
LEMMA LenStays ==
  ASSUME NEW req, NEW tlbReqFire, NEW tlbRespFire, NEW miss, NEW aReady,
         SlicerMoves(req, tlbReqFire, tlbRespFire, miss, aReady), state = "s_dma_req"
  PROVE  UNCHANGED <<id, more, len, base>>
<1> USE DEF Ctrl!s_idle, Ctrl!s_slice, Ctrl!s_wait, Ctrl!s_tlb_req, Ctrl!s_tlb_resp,
            Ctrl!s_dma_req, Ctrl!s_exp
<1>1. req = NoRequest
  BY DEF SlicerMoves, Ctrl!Accept
<1>2. Ctrl!Serve(tlbReqFire, tlbRespFire, miss, a_fire(aReady))
  BY <1>1 DEF SlicerMoves
<1>3. Ctrl!DmaReq(a_fire(aReady))
  BY <1>2 DEF Ctrl!Serve, Ctrl!Slice, Ctrl!Wait, Ctrl!TlbReq, Ctrl!TlbResp, Ctrl!Exp
<1>4. QED BY <1>3 DEF Ctrl!DmaReq, Ctrl!packet

\* The sizes in the reorder buffer stay those of the packets sent.
LEMMA SizesAgreeStep ==
  ASSUME IdInv, NEW streamReady, NEW o, NEW hit, NEW aReady, NEW next, NEW other,
         Step(streamReady, o, hit, aReady, next, other),
         Pending' => len' = len,
         NEW sent, Delivers(sent), NEW sent2, sent2 = SentNext(sent, aReady)
  PROVE  SizesAgree(sent2)'
<1> DEFINE e == Bit(Ends(o))
<1>1. /\ NSent' \in Nat /\ NSent \in Nat
      /\ \A n \in 1 .. NSent' :
           /\ n + e \in DOMAIN reqQue /\ reqQue'[n] = reqQue[n + e]
           /\ \/ n + e \in 1 .. NSent /\ sent2[reqQue'[n].id] = sent[reqQue[n + e].id]
              \/ /\ aReady /\ n + e = NSent + 1 /\ NSent + 1 = Len(reqQue)
                 /\ sent2[reqQue'[n].id] = NewSent
  BY SentStep
<1>2. /\ \A n \in 1 .. NSent : sent[reqQue[n].id].words = WordsOf(reqQue[n])
      /\ Pending => 2^reqQue[Len(reqQue)].size = Ctrl!packet_size(len)
  BY DEF Delivers, SizesAgree
<1>3. /\ o \in BOOLEAN /\ RobStep(o) /\ (state = "s_dma_req" \/ ~Admitted)
      /\ aReady \in BOOLEAN /\ (aReady => Pending)
  BY DEF Step
<1>4. /\ Pending' <=> Admitted \/ (Pending /\ ~aReady)
      /\ Admitted => ~Pending /\ state = "s_dma_req"
      /\ Pending => state = "s_dma_req"
  BY PendingStep
<1>5. reqQue \in Seq(Entries) /\ Len(reqQue) \in Nat
  BY DEF IdInv, IdTypes
<1> HIDE DEF e
<1>6. ASSUME NEW n \in 1 .. NSent'
      PROVE  sent2[reqQue'[n].id].words = WordsOf(reqQue'[n])
  <2>1. CASE n + e \in 1 .. NSent /\ sent2[reqQue'[n].id] = sent[reqQue[n + e].id]
    <3>1. reqQue'[n] = reqQue[n + e]
      BY <1>1
    <3>2. QED BY <1>2, <2>1, <3>1
  <2>2. CASE /\ aReady /\ n + e = NSent + 1 /\ NSent + 1 = Len(reqQue)
             /\ sent2[reqQue'[n].id] = NewSent
    <3>1. reqQue'[n] = reqQue[Len(reqQue)] /\ Len(reqQue) \in DOMAIN reqQue
      BY <1>1, <2>2
    <3>2. reqQue[Len(reqQue)] \in Entries
      BY <1>5, <3>1
    <3>3. 2^reqQue[Len(reqQue)].size = Ctrl!packet_size(len) /\ state = "s_dma_req"
      BY <1>2, <1>3, <1>4, <2>2
    <3>4. WordsOf(reqQue[Len(reqQue)]) = NewSent.words
      BY <3>2, <3>3, NewSentType DEF IdInv
    <3>5. QED BY <2>2, <3>1, <3>4
  <2>3. QED BY <1>1, <2>1, <2>2
<1>7. ASSUME Pending'
      PROVE  2^reqQue'[Len(reqQue')].size = Ctrl!packet_size(len)
  <2>1. PICK rest :
         /\ rest \in Seq(Entries) /\ Len(rest) = Len(reqQue) - e
         /\ \A n \in DOMAIN rest : rest[n] = reqQue[n + e] /\ n + e \in DOMAIN reqQue
         /\ Len(reqQue') = Len(rest) + Bit(Admitted)
         /\ \A n \in DOMAIN rest : n \in DOMAIN reqQue' /\ reqQue'[n] = rest[n]
         /\ Admitted => reqQue'[Len(reqQue')] = NewEntry
    BY <1>3, QueueStep DEF e
  <2>2. CASE Admitted
    <3>1. Cut!packet_size(len) \in Cut!PacketSizes
      BY <1>4, <2>2 DEF IdInv, Slicer, WithPacket, Packet, Cut!Fits
    <3>2. PICK n \in 0 .. maxLgSizeTL : 2^n = Ctrl!packet_size(len)
      BY <3>1, SameOperators DEF Cut!PacketSizes
    <3>3. /\ Ctrl!lgLen_align(len) \in 0 .. maxLgSizeTL
          /\ 2^Ctrl!lgLen_align(len) = Ctrl!packet_size(len)
      BY <3>2 DEF Ctrl!lgLen_align
    <3>4. ROB!Kept(Ctrl!lgLen_align(len)) = Ctrl!lgLen_align(len)
      BY <3>3, SizesAssumption
    <3>5. NewEntry.size = Ctrl!lgLen_align(len)
      BY <3>4 DEF NewEntry
    <3>6. QED BY <2>1, <2>2, <3>3, <3>5
  <2>3. CASE ~Admitted
    <3> DEFINE l == Len(reqQue)
               k == Len(rest)
    <3>1. Pending /\ reqQue # <<>> /\ reqQue[l].id = tl_id
      BY <1>4, <1>7, <2>3 DEF IdInv, Promised
    <3>2. Ends(o) => l # 1
      BY <1>3, <3>1, Events
    <3>3. e = IF Ends(o) THEN 1 ELSE 0
      BY DEF e, Bit
    <3>4. l \in Nat \ {0} /\ k = l - e
      BY <1>5, <2>1, <3>1
    <3>5. k \in Nat \ {0} /\ k + e = l
      <4> HIDE DEF l, k
      <4>1. QED BY <3>2, <3>3, <3>4
    <3>6. k \in DOMAIN rest
      BY <2>1, <3>5
    <3>7. Len(reqQue') = k
      BY <2>1, <2>3, <3>5 DEF Bit
    <3>8. reqQue'[k] = reqQue[l]
      BY <2>1, <3>5, <3>6
    <3>9. QED BY <1>2, <3>1, <3>7, <3>8
  <2>4. QED BY <2>2, <2>3
<1>8. Pending' => 2^reqQue'[Len(reqQue')].size = Ctrl!packet_size(len')
  BY <1>7
<1>9. QED BY <1>6, <1>8 DEF SizesAgree, WordsOf, Ctrl!packet_size

\* Every word stays that of its packet.
LEMMA DeliversStep ==
  ASSUME IdInv, NEW streamReady, NEW o, NEW hit, NEW aReady, NEW next, NEW other,
         Step(streamReady, o, hit, aReady, next, other), Held(next, other),
         Pending' => len' = len,
         NEW sent, Delivers(sent), NEW sent2, sent2 = SentNext(sent, aReady)
  PROVE  Delivers(sent2)'
<1>1. OnWay(sent2)'
  BY OnWayStep
<1>2. InBuffer(sent2)'
  BY InBufferStep
<1>3. Reading(sent2)'
  BY ReadingStep
<1>4. SizesAgree(sent2)'
  BY SizesAgreeStep
<1>5. sent2 \in [Ids -> Stretches]
  <2>1. sent \in [Ids -> Stretches] /\ tl_id \in Ids
    BY DEF Delivers, IdInv, IdTypes
  <2>2. aReady => NewSent \in Stretches
    BY NewSentType DEF Step, IdInv
  <2>3. QED BY <2>1, <2>2 DEF SentNext
<1>6. Ids' = Ids /\ Stretches' = Stretches
  BY DEF Ids, Stretches, MaxWords, B, Ctrl!maxSizeTL
<1>7. QED BY <1>1, <1>2, <1>3, <1>4, <1>5, <1>6 DEF Delivers

\* A step that changes nothing, and the beginning.
LEMMA DeliversStays ==
  ASSUME NEW sent, Delivers(sent), UNCHANGED vars
  PROVE  Delivers(sent)'
<1>1. /\ UNCHANGED <<len, dma_req_state, ready, reqQue, statusTable, rob_state, rdOffset>>
      /\ UNCHANGED <<wrOffset, buf_we, buffer, dout, gets, cur, d_id>>
  BY DEF vars, ctrl, rob, bus
<1>2. /\ Pending' = Pending /\ NSent' = NSent /\ ROB!due' = ROB!due
      /\ \A i \in Ids : Moving(i)' = Moving(i)
  BY <1>1 DEF Pending, NSent, ROB!due, Moving
<1>3. SizesAgree(sent)'
  BY <1>1, <1>2 DEF Delivers, SizesAgree, WordsOf, Ctrl!packet_size
<1>4. OnWay(sent)'
  BY <1>1, <1>2 DEF Delivers, OnWay, WordAt
<1>5. InBuffer(sent)'
  BY <1>1 DEF Delivers, InBuffer, WordAt, MaxWords, B, Ctrl!maxSizeTL
<1>6. Reading(sent)'
  BY <1>1, <1>2 DEF Delivers, Reading, WordAt
<1>7. (sent \in [Ids -> Stretches])'
  BY DEF Delivers, Ids, Stretches, MaxWords, B, Ctrl!maxSizeTL
<1>8. QED BY <1>3, <1>4, <1>5, <1>6, <1>7 DEF Delivers

LEMMA InitDelivers == Init => \E sent : Delivers(sent)
<1> SUFFICES ASSUME Init PROVE \E sent : Delivers(sent)
  OBVIOUS
<1> DEFINE sent == [i \in Ids |-> [from |-> 0, words |-> 1]]
<1>1. /\ dma_req_state = "s_dma_req_idle"
      /\ ready = FALSE /\ reqQue = <<>> /\ statusTable = [i \in Ids |-> 0]
      /\ rob_state = "s_idle" /\ rdOffset = 0 /\ wrOffset = 0 /\ buf_we = FALSE
      /\ buffer = [a \in ROB!Ids \X ROB!Offsets |-> -1]
      /\ gets = [i \in Ids |-> <<>>]
  BY DEF Init, Ctrl!Init, ROB!Init, Ctrl!s_dma_req_idle, ROB!s_idle, Junk, ROB!Ids, Ids
<1>2. sent \in [Ids -> Stretches]
  BY MaxWordsType DEF Stretches
<1>3. Len(reqQue) = 0 /\ ~Pending /\ NSent = 0
  BY <1>1 DEF Pending, NSent, Bit
<1>4. buffer \in [Ids \X (0 .. MaxWords - 1) -> Int]
  BY <1>1 DEF ROB!Ids, Ids, ROB!Offsets, MaxWords, B, Ctrl!maxSizeTL
<1> HIDE DEF sent
<1>5. SizesAgree(sent)
  BY <1>3 DEF SizesAgree
<1>6. OnWay(sent)
  BY <1>1 DEF OnWay
<1>7. InBuffer(sent)
  BY <1>1, <1>4 DEF InBuffer
<1>8. Reading(sent)
  BY <1>1 DEF Reading
<1>9. QED BY <1>2, <1>5, <1>6, <1>7, <1>8 DEF Delivers

\* What the reorder buffer shows is the next word of the first packet sent.
LEMMA OutWord ==
  ASSUME IdInv, NEW sent, Delivers(sent), ROB!out_valid(inp)
  PROVE  /\ reqQue # <<>> /\ rob_state \in {"s_bypass", "s_read"}
         /\ NSent \in Nat \ {0} /\ SentQue(sent)[1] = sent[ROB!due.id]
         /\ sent[ROB!due.id] \in Stretches
         /\ Passed(sent) \in 0 .. sent[ROB!due.id].words - 1
         /\ ROB!out_word(inp) = WordAt(sent[ROB!due.id], Passed(sent))
         /\ ROB!out_last(inp) <=> Passed(sent) = sent[ROB!due.id].words - 1
<1> DEFINE i == ROB!due.id
           p == sent[i]
<1>1. /\ doutValid <=> rob_state = "s_read"
      /\ doutLast <=> rob_state = "s_read" /\ rdOffset >= ROB!rdDataSize
      /\ d_valid => cur = d_id /\ gets[d_id] # <<>>
      /\ gets \in [Ids -> Seq(Int)] /\ d_id \in Ids
  BY DEF IdInv, IdTypes, InHand, OnBus
<1>2. /\ ROB!out_valid(inp) <=> doutValid \/ (rob_state = "s_bypass" /\ d_valid)
      /\ ROB!out_word(inp) = IF rob_state = "s_bypass" THEN inp.word ELSE dout
      /\ ROB!out_last(inp) <=> (doutValid /\ doutLast) \/ (rob_state = "s_bypass" /\ inp.last)
  BY DEF ROB!out_valid, ROB!out_word, ROB!out_last, ROB!bypass, ROB!s_bypass, inp
<1>3. /\ rob_state = "s_bypass" => reqQue # <<>> /\ cur = i /\ gets[i] # <<>>
      /\ rob_state = "s_read" => reqQue # <<>> /\ statusTable[i] = 2
  BY DEF IdInv, InHand
<1>4. sent \in [Ids -> Stretches] /\ SizesAgree(sent) /\ OnWay(sent) /\ Reading(sent)
  BY DEF Delivers
<1>5. /\ reqQue # <<>> /\ NSent \in Nat \ {0} /\ ROB!due = reqQue[1] /\ i \in Ids
      /\ p.words = ROB!rdDataSize /\ p.words \in 1 .. MaxWords
  BY <1>1, <1>2, <1>3, <1>4, DueSent
<1>6. SentQue(sent)[1] = p /\ p \in Stretches
  BY <1>4, <1>5 DEF SentQue
<1>7. MaxWords \in Nat \ {0}
  BY MaxWordsType
<1>8. CASE rob_state = "s_read"
  <2>1. Passed(sent) = rdOffset - 1 /\ ROB!out_word(inp) = dout
    BY <1>2, <1>8 DEF Passed
  <2>2. rdOffset \in 1 .. p.words /\ dout = WordAt(p, rdOffset - 1)
    BY <1>4, <1>8 DEF Reading
  <2>3. ROB!out_last(inp) <=> rdOffset >= p.words
    BY <1>1, <1>2, <1>5, <1>8
  <2> HIDE DEF p
  <2>4. Passed(sent) \in 0 .. p.words - 1 /\ (rdOffset >= p.words <=> rdOffset - 1 = p.words - 1)
    BY <1>5, <1>7, <2>1, <2>2
  <2>5. QED BY <1>5, <1>6, <1>8, <2>1, <2>2, <2>3, <2>4 DEF p
<1>9. CASE rob_state = "s_bypass"
  <2>1. d_valid /\ d_id = i /\ gets[i] # <<>> /\ gets[i] \in Seq(Int)
    BY <1>1, <1>2, <1>3, <1>5, <1>9
  <2>2. inp.word = gets[i][1] /\ (inp.last <=> Len(gets[i]) = 1)
    <3>1. inp.word = Head(gets[i]) /\ (inp.last <=> Len(gets[i]) = 1)
      BY <2>1 DEF inp
    <3>2. Head(gets[i]) = gets[i][1]
      BY <2>1, TailWords
    <3>3. QED BY <3>1, <3>2
  <2> DEFINE n == Len(gets[i])
  <2>3. n \in Nat \ {0}
    BY <2>1
  <2>4. /\ n <= p.words
        /\ \A j \in 1 .. n : gets[i][j] = WordAt(p, (p.words - n) + (j - 1))
    BY <1>4, <1>5, <2>1 DEF OnWay
  <2>5. Passed(sent) = p.words - n
    BY <1>9 DEF Passed
  <2>6. ROB!out_word(inp) = gets[i][1] /\ (ROB!out_last(inp) <=> n = 1)
    BY <1>1, <1>2, <1>9, <2>2
  <2> HIDE DEF n, p
  <2>7. gets[i][1] = WordAt(p, (p.words - n) + (1 - 1))
    BY <2>3, <2>4
  <2>8. (p.words - n) + (1 - 1) = p.words - n /\ p.words - n \in 0 .. p.words - 1
        /\ (n = 1 <=> p.words - n = p.words - 1)
    BY <1>5, <1>7, <2>3, <2>4
  <2>9. QED BY <1>5, <1>6, <1>9, <2>5, <2>6, <2>7, <2>8 DEF p
<1>10. QED BY <1>1, <1>2, <1>8, <1>9

\* A word is passed when the stream fires, and a packet begins again.
LEMMA PassedStep ==
  ASSUME IdInv, NEW streamReady, NEW o, NEW hit, NEW aReady, NEW next, NEW other,
         Step(streamReady, o, hit, aReady, next, other), Held(next, other),
         NEW sent, Delivers(sent), NEW sent2, sent2 = SentNext(sent, aReady)
  PROVE  Passed(sent2)' = IF Ends(o) THEN 0 ELSE Passed(sent) + Bit(out_fire(streamReady))
<1> DEFINE i == ROB!due.id
           w == sent[i].words
           n == Len(gets[i])
<1>1. o \in BOOLEAN /\ RobStep(o) /\ aReady \in BOOLEAN /\ (aReady => Pending)
      /\ (state = "s_dma_req" \/ ~Admitted) /\ o = Ctrl!out_ready(streamReady)
  BY DEF Step
<1>2. /\ tl_id \in Ids /\ rdOffset \in Nat /\ gets \in [Ids -> Seq(Int)]
      /\ d_valid \in BOOLEAN
      /\ doutValid <=> rob_state = "s_read"
      /\ d_valid => cur = d_id /\ gets[d_id] # <<>>
      /\ rob_state = "s_bypass" => reqQue # <<>> /\ cur = i /\ gets[i] # <<>> /\ ~buf_we
      /\ rob_state = "s_read" => reqQue # <<>> /\ statusTable[i] = 2
  BY DEF IdInv, IdTypes, InHand, OnBus
<1>3. /\ sent \in [Ids -> Stretches] /\ SizesAgree(sent) /\ OnWay(sent) /\ Reading(sent)
  BY DEF Delivers
<1>4. \A k \in Ids : sent2[k] = IF aReady /\ k = tl_id THEN NewSent ELSE sent[k]
  BY <1>1, <1>2, <1>3 DEF SentNext
<1>5. out_fire(streamReady) <=> o /\ (rob_state = "s_read" \/ (rob_state = "s_bypass" /\ d_valid))
  BY <1>1, <1>2 DEF out_fire, ROB!out_valid, ROB!bypass, ROB!s_bypass, inp
<1>6. /\ Passed(sent2)' = IF rob_state' = "s_bypass" THEN sent2[ROB!due'.id].words - Len(gets'[ROB!due'.id])
                          ELSE IF rob_state' = "s_read" THEN rdOffset' - 1 ELSE 0
      /\ Passed(sent) = IF rob_state = "s_bypass" THEN w - n
                        ELSE IF rob_state = "s_read" THEN rdOffset - 1 ELSE 0
  BY DEF Passed
<1>7. CASE rob_state' = "s_bypass"
  <2>1. /\ reqQue # <<>> /\ gets[i] # <<>> /\ ~Ends(o) /\ ~buf_we
        /\ (rob_state = "s_bypass" /\ (d_valid => d_id = i)) \/ (rob_state = "s_idle" /\ ~Taken(o))
    BY <1>1, <1>2, <1>7, RobWords
  <2>2. ROB!due' = ROB!due
    BY <1>1, <2>1, DueStays
  <2>3. i \in Ids /\ ~(Pending /\ i = tl_id) /\ w \in 1 .. MaxWords
    BY <1>3, <2>1, DueSent
  <2>4. gets[i] \in Seq(Int) /\ n \in Nat \ {0} /\ Len(Tail(gets[i])) = n - 1
    BY <1>2, <2>1, <2>3
  <2>5. gets'[i] = IF Taken(o) /\ i = d_id THEN Tail(gets[i]) ELSE gets[i]
    BY <1>1, <2>3, BusWords
  <2>6. Passed(sent2)' = w - Len(gets'[i])
    BY <1>1, <1>4, <1>6, <1>7, <2>2, <2>3
  <2>7. CASE rob_state = "s_bypass" /\ (d_valid => d_id = i)
    <3>1. Taken(o) /\ i = d_id <=> out_fire(streamReady)
      <4>1. Taken(o) <=> d_valid /\ ((rob_state = "s_bypass" /\ o) \/ buf_we)
        BY <1>1, RobWords
      <4>2. QED BY <1>5, <2>1, <2>7, <4>1
    <3>2. Len(gets'[i]) = n - Bit(out_fire(streamReady))
      <4>1. CASE out_fire(streamReady)
        <5>1. gets'[i] = Tail(gets[i]) /\ Bit(out_fire(streamReady)) = 1
          BY <2>5, <3>1, <4>1 DEF Bit
        <5>2. QED BY <2>4, <5>1
      <4>2. CASE ~out_fire(streamReady)
        <5>1. gets'[i] = gets[i] /\ Bit(out_fire(streamReady)) = 0
          BY <2>5, <3>1, <4>2 DEF Bit
        <5>2. n - 0 = n
          BY <2>4
        <5>3. QED BY <5>1, <5>2
      <4>3. QED BY <4>1, <4>2
    <3>3. Bit(out_fire(streamReady)) \in 0 .. 1
      BY DEF Bit
    <3> HIDE DEF n, w
    <3>4. Passed(sent2)' = w - (n - Bit(out_fire(streamReady)))
      BY <2>6, <3>2
    <3>5. w - (n - Bit(out_fire(streamReady))) = (w - n) + Bit(out_fire(streamReady))
      BY <2>3, <2>4, <3>3, MaxWordsType
    <3>6. Passed(sent) = w - n
      BY <1>6, <2>7 DEF n, w
    <3>7. QED BY <2>1, <3>4, <3>5, <3>6
  <2>8. CASE rob_state = "s_idle" /\ ~Taken(o)
    <3>1. gets'[i] = gets[i] /\ ~Moving(i)
      BY <2>1, <2>5, <2>8 DEF Moving
    <3>2. n = w
      BY <1>3, <2>1, <2>3, <3>1 DEF OnWay
    <3>3. Passed(sent2)' = 0
      <4>1. Passed(sent2)' = w - w
        BY <2>6, <3>1, <3>2
      <4>2. w - w = 0
        BY <2>3, MaxWordsType
      <4>3. QED BY <4>1, <4>2
    <3>4. Passed(sent) = 0 /\ ~out_fire(streamReady)
      BY <1>5, <1>6, <2>8
    <3>5. QED BY <2>1, <3>3, <3>4 DEF Bit
  <2>9. QED BY <2>1, <2>7, <2>8
<1>8. CASE rob_state' = "s_read"
  <2>1. ~Ends(o) /\ Passed(sent2)' = rdOffset' - 1
    BY <1>1, <1>6, <1>8, RobWords
  <2>2. \/ rob_state = "s_idle" /\ rdOffset' = rdOffset + 1
        \/ rob_state = "s_read" /\ o /\ rdOffset' = rdOffset + 1
        \/ rob_state = "s_read" /\ ~o /\ rdOffset' = rdOffset
    BY <1>1, <1>8, RobWords
  <2>3. CASE rob_state = "s_idle" /\ rdOffset' = rdOffset + 1
    <3>1. rdOffset = 0
      BY <1>3, <2>3 DEF Reading
    <3>2. Passed(sent) = 0 /\ ~out_fire(streamReady)
      BY <1>5, <1>6, <2>3
    <3>3. QED BY <2>1, <2>3, <3>1, <3>2 DEF Bit
  <2>4. CASE rob_state = "s_read" /\ o /\ rdOffset' = rdOffset + 1
    <3>1. Passed(sent) = rdOffset - 1 /\ out_fire(streamReady)
      BY <1>5, <1>6, <2>4
    <3>2. Bit(out_fire(streamReady)) = 1
      BY <3>1 DEF Bit
    <3>3. (rdOffset + 1) - 1 = (rdOffset - 1) + 1
      BY <1>2
    <3>4. QED BY <2>1, <2>4, <3>1, <3>2, <3>3
  <2>5. CASE rob_state = "s_read" /\ ~o /\ rdOffset' = rdOffset
    <3>1. Passed(sent) = rdOffset - 1 /\ ~out_fire(streamReady)
      BY <1>5, <1>6, <2>5
    <3>2. QED BY <1>2, <2>1, <2>5, <3>1 DEF Bit
  <2>6. QED BY <2>2, <2>3, <2>4, <2>5
<1>9. CASE rob_state' # "s_bypass" /\ rob_state' # "s_read"
  <2>1. Passed(sent2)' = 0
    BY <1>6, <1>9
  <2>2. CASE ~Ends(o)
    <3>1. rob_state # "s_bypass" /\ rob_state # "s_read"
      BY <1>1, <1>9, <2>2, RobWords
    <3>2. Passed(sent) = 0 /\ ~out_fire(streamReady)
      BY <1>5, <1>6, <3>1
    <3>3. QED BY <2>1, <2>2, <3>2 DEF Bit
  <2>3. QED BY <2>1, <2>2
<1>10. QED BY <1>7, <1>8, <1>9

\* The words passed belong to the packet that is due, or there are none.
LEMMA PassedType ==
  ASSUME IdInv, NEW sent, Delivers(sent)
  PROVE  Passed(sent) \in Nat
<1>1. /\ rob_state = "s_bypass" => reqQue # <<>> /\ gets[ROB!due.id] # <<>>
      /\ gets \in [Ids -> Seq(Int)]
  BY DEF IdInv, IdTypes, InHand
<1>2. sent \in [Ids -> Stretches] /\ SizesAgree(sent) /\ OnWay(sent) /\ Reading(sent)
  BY DEF Delivers
<1>3. CASE rob_state = "s_bypass"
  <2> DEFINE i == ROB!due.id
             w == sent[i].words
             n == Len(gets[i])
  <2>1. i \in Ids /\ w \in 1 .. MaxWords
    BY <1>1, <1>2, <1>3, DueSent
  <2>2. n \in Nat /\ n <= w
    BY <1>1, <1>2, <1>3, <2>1 DEF OnWay
  <2>3. Passed(sent) = w - n
    BY <1>3 DEF Passed
  <2> HIDE DEF n, w
  <2>4. QED BY <2>1, <2>2, <2>3, MaxWordsType
<1>4. CASE rob_state = "s_read"
  <2> DEFINE w == sent[ROB!due.id].words
  <2>1. rdOffset \in 1 .. w /\ Passed(sent) = rdOffset - 1
    BY <1>2, <1>4 DEF Reading, Passed
  <2> HIDE DEF w
  <2>2. rdOffset \in Nat
    BY DEF IdInv, IdTypes
  <2>3. rdOffset # 0
    <3>1. SUFFICES ASSUME rdOffset = 0 PROVE FALSE
      OBVIOUS
    <3>2. 0 \in 1 .. w
      BY <2>1, <3>1
    <3>3. QED BY <3>2
  <2>4. QED BY <2>1, <2>2, <2>3
<1>5. CASE rob_state # "s_bypass" /\ rob_state # "s_read"
  BY <1>5 DEF Passed
<1>6. QED BY <1>3, <1>4, <1>5

\* The packets sent: one more at the end, one less at the front.
SentMore(sent, aReady) ==
  [n \in 1 .. NSent + Bit(aReady) |-> IF n <= NSent THEN SentQue(sent)[n] ELSE NewSent]

\* One more when the bus takes a packet, one less when one is handed on.
LEMMA SentQueStep ==
  ASSUME IdInv, NEW streamReady, NEW o, NEW hit, NEW aReady, NEW next, NEW other,
         Step(streamReady, o, hit, aReady, next, other),
         NEW sent, Delivers(sent), NEW sent2, sent2 = SentNext(sent, aReady)
  PROVE  /\ NSent \in Nat /\ Len(SentQue(sent)) = NSent
         /\ Grown(SentQue(sent), SentMore(sent, aReady), aReady, NewSent)
         /\ Shifted(SentMore(sent, aReady), SentQue(sent2)', Ends(o))
<1> DEFINE e == Bit(Ends(o))
           f == Bit(aReady)
           k == NSent
           q == SentQue(sent)
           t == SentMore(sent, aReady)
           u == SentQue(sent2)'
<1>1. /\ k \in Nat /\ NSent' \in Nat /\ NSent' = k - e + f
      /\ \A n \in 1 .. NSent' :
           \/ n + e \in 1 .. k /\ sent2[reqQue'[n].id] = sent[reqQue[n + e].id]
           \/ /\ aReady /\ n + e = k + 1
              /\ sent2[reqQue'[n].id] = NewSent
  <2>1. /\ NSent \in Nat /\ NSent' \in Nat /\ NSent' = NSent - Bit(Ends(o)) + Bit(aReady)
        /\ \A n \in 1 .. NSent' :
             \/ n + Bit(Ends(o)) \in 1 .. NSent
                /\ sent2[reqQue'[n].id] = sent[reqQue[n + Bit(Ends(o))].id]
             \/ /\ aReady /\ n + Bit(Ends(o)) = NSent + 1
                /\ sent2[reqQue'[n].id] = NewSent
    BY SentStep
  <2>2. QED BY <2>1
<1>2. /\ q = [n \in 1 .. k |-> sent[reqQue[n].id]]
      /\ t = [n \in 1 .. k + f |-> IF n <= k THEN q[n] ELSE NewSent]
      /\ u = [n \in 1 .. NSent' |-> sent2[reqQue'[n].id]]
  BY DEF SentQue, SentMore
<1>3. e \in 0 .. 1 /\ f \in 0 .. 1 /\ (aReady => f = 1)
  BY DEF Bit
<1> HIDE DEF e, f, k, q, t, u
<1>4. Len(q) = k /\ Len(t) = k + f /\ Len(u) = NSent'
  <2>1. Len(q) = k
    BY <1>1, <1>2
  <2>2. k + f \in Nat
    BY <1>1, <1>3
  <2>3. Len(t) = k + f
    BY <1>2, <2>2
  <2>4. Len(u) = NSent'
    BY <1>1, <1>2
  <2>5. QED BY <2>1, <2>3, <2>4
<1>5. \A n \in 1 .. k : t[n] = q[n]
  BY <1>1, <1>2, <1>3
<1>6. aReady => t[k + 1] = NewSent
  <2>1. SUFFICES ASSUME aReady PROVE t[k + 1] = NewSent
    OBVIOUS
  <2>2. k + 1 \in 1 .. k + f /\ ~(k + 1 <= k)
    BY <1>1, <1>3, <2>1
  <2>3. QED BY <1>2, <2>2
<1>7. ASSUME NEW n \in 1 .. Len(u)
      PROVE  u[n] = t[n + e]
  <2>1. n \in 1 .. NSent' /\ u[n] = sent2[reqQue'[n].id]
    BY <1>2, <1>4
  <2>2. CASE n + e \in 1 .. k /\ sent2[reqQue'[n].id] = sent[reqQue[n + e].id]
    <3>1. t[n + e] = q[n + e] /\ q[n + e] = sent[reqQue[n + e].id]
      BY <1>2, <1>5, <2>2
    <3>2. QED BY <2>1, <2>2, <3>1
  <2>3. CASE aReady /\ n + e = k + 1 /\ sent2[reqQue'[n].id] = NewSent
    BY <1>6, <2>1, <2>3
  <2>4. QED BY <1>1, <2>1, <2>2, <2>3
<1>8. Len(t) = Len(q) + Bit(aReady)
  BY <1>4 DEF f
<1>9. Len(u) = Len(t) - Bit(Ends(o))
  <2>1. NSent' = (k + f) - e
    BY <1>1, <1>3
  <2>2. QED BY <1>4, <2>1 DEF e
<1>10. Grown(q, t, aReady, NewSent)
  BY <1>4, <1>5, <1>6, <1>8 DEF Grown
<1>11. Shifted(t, u, Ends(o))
  BY <1>7, <1>9 DEF Shifted, e
<1>12. QED BY <1>1, <1>4, <1>10, <1>11 DEF q, t, u, k

---------------------------------------------------------------------------
(* The order: what the stream is still to carry is, from its end to its    *)
(* front, what is left of the request, the entries of packetInfoQue, and   *)
(* what streams.  Of a packet it carries the words from lo to hi - 1.      *)
Kept(min, max, p, lo, hi) ==
  /\ lo < hi /\ hi <= p.words /\ min = lo * dataByte
  /\ \A k \in 0 .. p.words - 1 : k * dataByte < max <=> k < hi

Remaining(lo, hi, passed) ==
  IF passed <= lo THEN hi - lo ELSE IF passed < hi THEN hi - passed ELSE 0

\* The places after v, up to w, of the words to come of a packet.
Carries(exp, min, max, who, p, passed, v, w) ==
  \E lo, hi \in Nat :
    /\ Kept(min, max, p, lo, hi) /\ w = v + Remaining(lo, hi, passed)
    /\ \A k \in lo .. hi - 1 : k >= passed => exp[(w - hi) + (k + 1)] = <<who, WordAt(p, k)>>

\* The places of an entry after v, and its packet after r.
Entry(e, q, exp, v, w, r, s) ==
  IF e.exception THEN s = r /\ w = v + 1 /\ exp[w] = <<e.id, Raised>>
  ELSE s = r + 1 /\ Carries(exp, e.min_pos, e.max_pos, e.id, q[s], 0, v, w)

Lined(infos, q, exp, word, slot) ==
  /\ word \in [0 .. Len(infos) -> Nat] /\ slot \in [0 .. Len(infos) -> Nat]
  /\ \A m, n \in 0 .. Len(infos) : m <= n => word[m] <= word[n] /\ slot[m] <= slot[n]
  /\ slot[Len(infos)] = Len(q) /\ word[Len(infos)] <= Len(exp)
  /\ \A n \in 1 .. Len(infos) :
       Entry(infos[n], q, exp, word[n - 1], word[n], slot[n - 1], slot[n])

\* What streams has the places after v, up to w, and the packet after r.
Front(what, min, max, who, at, q, passed, exp, v, w, r, s) ==
  /\ v <= w /\ r <= s
  /\ what = "s_stream_data" =>
       /\ s = r + 1 /\ at = passed * dataByte
       /\ Carries(exp, min, max, who, q[s], passed, v, w)
  /\ what # "s_stream_data" => s = r /\ passed = 0
  /\ what = "s_stream_exp" => w = v + 1 /\ exp[w] = <<who, Raised>>
  /\ what = "s_stream_idle" => w = v

Words(bytes) == (bytes + dataByte - 1) \div dataByte

Rest(fsm, from, bytes, who, exp, w) ==
  IF fsm \in Cutting
  THEN /\ Len(exp) = w + Words(bytes)
       /\ \A j \in 1 .. Words(bytes) : exp[w + j] = <<who, from + (j - 1) * dataByte>>
  ELSE Len(exp) = w

\* The elements after v, up to w, c places further down in another sequence.
Moved(s, t, v, w, c) == \A m \in v + 1 .. w : t[m - c] = s[m]

\* How many of the words that are wanted are still to come.
LEMMA RemainingType ==
  ASSUME NEW lo \in Nat, NEW hi \in Nat, lo < hi, NEW passed \in Nat, NEW v \in Nat,
         NEW w, w = v + Remaining(lo, hi, passed)
  PROVE  /\ Remaining(lo, hi, passed) \in Nat /\ w \in Nat /\ v <= w
         /\ passed = 0 => Remaining(lo, hi, passed) = hi - lo
         /\ \A k \in lo .. hi - 1 : k >= passed => (w - hi) + (k + 1) \in v + 1 .. w
BY DEF Remaining

\* The places of a packet do not depend on what stands elsewhere.
LEMMA CarriesMove ==
  ASSUME NEW exp, NEW exp2, NEW min, NEW max, NEW who, NEW p, NEW passed \in Nat,
         NEW v \in Nat, NEW w, Carries(exp, min, max, who, p, passed, v, w),
         NEW c \in Nat, Moved(exp, exp2, v, w, c)
  PROVE  Carries(exp2, min, max, who, p, passed, v - c, w - c)
<1>1. PICK lo \in Nat, hi \in Nat :
        /\ Kept(min, max, p, lo, hi) /\ w = v + Remaining(lo, hi, passed)
        /\ \A k \in lo .. hi - 1 : k >= passed => exp[(w - hi) + (k + 1)] = <<who, WordAt(p, k)>>
  BY DEF Carries
<1>2. lo < hi
  BY <1>1 DEF Kept
<1> DEFINE r == Remaining(lo, hi, passed)
<1>3. /\ r \in Nat /\ w \in Nat
      /\ \A k \in lo .. hi - 1 : k >= passed => (w - hi) + (k + 1) \in v + 1 .. w
  <2>1. w = v + Remaining(lo, hi, passed)
    BY <1>1
  <2>2. /\ Remaining(lo, hi, passed) \in Nat /\ w \in Nat
        /\ \A k \in lo .. hi - 1 : k >= passed => (w - hi) + (k + 1) \in v + 1 .. w
    BY <1>1, <1>2, <2>1, RemainingType
  <2>3. QED BY <2>2
<1> HIDE DEF r
<1>4. w - c = (v - c) + r
  BY <1>1, <1>3 DEF r
<1>5. ASSUME NEW k \in lo .. hi - 1, k >= passed
      PROVE  exp2[((w - c) - hi) + (k + 1)] = <<who, WordAt(p, k)>>
  <2> DEFINE m == (w - hi) + (k + 1)
  <2>1. m \in v + 1 .. w /\ exp[m] = <<who, WordAt(p, k)>>
    BY <1>1, <1>3, <1>5
  <2>2. m - c = ((w - c) - hi) + (k + 1)
    BY <1>3
  <2> HIDE DEF m
  <2>3. exp2[m - c] = exp[m]
    BY <2>1 DEF Moved
  <2>4. QED BY <2>1, <2>2, <2>3
<1>6. QED BY <1>1, <1>4, <1>5 DEF Carries, r

\* The places of a packet lie after v, if there are any.
LEMMA CarriesUp ==
  ASSUME NEW exp, NEW min, NEW max, NEW who, NEW p, NEW passed \in Nat,
         NEW v \in Nat, NEW w, Carries(exp, min, max, who, p, passed, v, w)
  PROVE  w \in Nat /\ v <= w
<1>1. PICK lo \in Nat, hi \in Nat : Kept(min, max, p, lo, hi) /\ w = v + Remaining(lo, hi, passed)
  BY DEF Carries
<1>2. QED BY <1>1, RemainingType DEF Kept

\* Nor do those of an entry.
LEMMA EntryMove ==
  ASSUME NEW e, NEW q, NEW q2, NEW exp, NEW exp2, NEW v \in Nat, NEW w \in Nat,
         NEW r \in Nat, NEW s \in Nat, Entry(e, q, exp, v, w, r, s),
         NEW c \in Nat, Moved(exp, exp2, v, w, c),
         NEW t \in Nat, s = r + 1 => q2[s - t] = q[s]
  PROVE  Entry(e, q2, exp2, v - c, w - c, r - t, s - t)
<1>1. CASE e.exception
  <2>1. s = r /\ w = v + 1 /\ exp[w] = <<e.id, Raised>>
    BY <1>1 DEF Entry
  <2>2. w \in v + 1 .. w /\ w - c = (v - c) + 1
    BY <2>1
  <2>3. exp2[w - c] = exp[w]
    BY <2>2 DEF Moved
  <2>4. QED BY <1>1, <2>1, <2>2, <2>3 DEF Entry
<1>2. CASE ~e.exception
  <2>1. s = r + 1 /\ Carries(exp, e.min_pos, e.max_pos, e.id, q[s], 0, v, w)
    BY <1>2 DEF Entry
  <2>2. Carries(exp2, e.min_pos, e.max_pos, e.id, q[s], 0, v - c, w - c)
    BY <2>1, CarriesMove
  <2>3. s - t = (r - t) + 1 /\ q2[s - t] = q[s]
    BY <2>1
  <2>4. QED BY <1>2, <2>2, <2>3 DEF Entry
<1>3. QED BY <1>1, <1>2

\* The first entry may leave, with the places and packets before it.
Movable(infos, infos2, q, q2, exp, exp2, word, slot, d, c, t, k, k2) ==
  /\ Lined(infos, q, exp, word, slot)
  /\ d \in 0 .. 1 /\ c \in Nat /\ t \in Nat /\ Len(q) \in Nat
  /\ k = Len(infos) /\ k2 = Len(infos2) /\ k2 \in Nat /\ k = k2 + d
  /\ Moved(infos, infos2, d, k, d)
  /\ t <= slot[d] /\ Len(q2) = Len(q) - t /\ Moved(q, q2, slot[d], Len(q), t)
  /\ c <= word[d] /\ word[k] - c <= Len(exp2) /\ Moved(exp, exp2, word[d], word[k], c)

\* The entries keep their places, counted from the new first ones.
LEMMA LinedMove ==
  ASSUME NEW infos, NEW infos2, NEW q, NEW q2, NEW exp, NEW exp2, NEW word, NEW slot,
         NEW d, NEW c, NEW t, NEW k, NEW k2,
         Movable(infos, infos2, q, q2, exp, exp2, word, slot, d, c, t, k, k2)
  PROVE  \E word2, slot2 :
           /\ Lined(infos2, q2, exp2, word2, slot2)
           /\ word2[0] = word[d] - c /\ word2[k2] = word[k] - c /\ slot2[0] = slot[d] - t
<1>0. /\ Lined(infos, q, exp, word, slot)
      /\ d \in 0 .. 1 /\ c \in Nat /\ t \in Nat /\ Len(q) \in Nat
      /\ k = Len(infos) /\ k2 = Len(infos2) /\ k2 \in Nat /\ k = k2 + d
      /\ Moved(infos, infos2, d, k, d)
      /\ t <= slot[d] /\ Len(q2) = Len(q) - t /\ Moved(q, q2, slot[d], Len(q), t)
      /\ c <= word[d] /\ word[k] - c <= Len(exp2) /\ Moved(exp, exp2, word[d], word[k], c)
  BY DEF Movable
<1> USE <1>0
<1> DEFINE word2 == [n \in 0 .. k2 |-> word[n + d] - c]
           slot2 == [n \in 0 .. k2 |-> slot[n + d] - t]
<1>1. /\ word \in [0 .. k -> Nat] /\ slot \in [0 .. k -> Nat]
      /\ \A m, n \in 0 .. k : m <= n => word[m] <= word[n] /\ slot[m] <= slot[n]
      /\ slot[k] = Len(q)
      /\ \A n \in 1 .. k :
           Entry(infos[n], q, exp, word[n - 1], word[n], slot[n - 1], slot[n])
  BY DEF Lined
<1>2. ASSUME NEW n \in 0 .. k2
      PROVE  /\ n + d \in 0 .. k /\ d \in 0 .. k /\ word[n + d] >= word[d] /\ slot[n + d] >= slot[d]
             /\ word[n + d] <= word[k] /\ slot[n + d] <= slot[k]
  <2>1. n + d \in 0 .. k /\ d \in 0 .. k /\ k \in 0 .. k /\ d <= n + d /\ n + d <= k
    OBVIOUS
  <2>2. QED BY <1>1, <2>1
<1>3. ASSUME NEW n \in 0 .. k2
      PROVE  word[n + d] - c \in Nat /\ slot[n + d] - t \in Nat
  <2> DEFINE j == n + d
  <2>1. j \in 0 .. k /\ d \in 0 .. k
    BY <1>2
  <2> HIDE DEF j
  <2>2. word[j] \in Nat /\ slot[j] \in Nat /\ word[d] \in Nat /\ slot[d] \in Nat
    BY <1>1, <2>1
  <2>3. word[j] >= word[d] /\ slot[j] >= slot[d]
    BY <1>2 DEF j
  <2> DEFINE v == word[j]
             w == word[d]
             r == slot[j]
             s == slot[d]
  <2>4. v \in Nat /\ w \in Nat /\ r \in Nat /\ s \in Nat /\ v >= w /\ r >= s /\ c <= w /\ t <= s
    BY <2>2, <2>3
  <2> HIDE DEF v, w, r, s
  <2>5. v - c \in Nat /\ r - t \in Nat
    BY <2>4
  <2>6. QED BY <2>5 DEF j, v, r
<1>4. word2 \in [0 .. k2 -> Nat] /\ slot2 \in [0 .. k2 -> Nat]
  BY <1>3
<1>5. ASSUME NEW m \in 0 .. k2, NEW n \in 0 .. k2, m <= n
      PROVE  word2[m] <= word2[n] /\ slot2[m] <= slot2[n]
  <2> DEFINE i == m + d
             j == n + d
  <2>1. i \in 0 .. k /\ j \in 0 .. k /\ i <= j
    BY <1>2, <1>5
  <2>2. /\ word2[m] = word[i] - c /\ word2[n] = word[j] - c
        /\ slot2[m] = slot[i] - t /\ slot2[n] = slot[j] - t
    OBVIOUS
  <2> HIDE DEF i, j, word2, slot2
  <2> DEFINE v == word[i]
             w == word[j]
             r == slot[i]
             s == slot[j]
  <2>3. v <= w /\ r <= s /\ v \in Nat /\ w \in Nat /\ r \in Nat /\ s \in Nat
    BY <1>1, <2>1
  <2>4. word2[m] = v - c /\ word2[n] = w - c /\ slot2[m] = r - t /\ slot2[n] = s - t
    BY <2>2
  <2> HIDE DEF v, w, r, s
  <2>5. v - c <= w - c /\ r - t <= s - t
    BY <2>3
  <2>6. QED BY <2>4, <2>5
<1>6. slot2[k2] = Len(q2) /\ word2[k2] <= Len(exp2)
  BY <1>1
<1>7. ASSUME NEW n \in 1 .. k2
      PROVE  Entry(infos2[n], q2, exp2, word2[n - 1], word2[n], slot2[n - 1], slot2[n])
  <2> DEFINE j == n + d
             v == word[j - 1]
             w == word[j]
             r == slot[j - 1]
             s == slot[j]
  <2>1. /\ j \in 1 .. k /\ j - 1 \in 0 .. k /\ j \in 0 .. k /\ d \in 0 .. k /\ k \in 0 .. k
        /\ d <= j - 1 /\ j <= k
        /\ n - 1 \in 0 .. k2 /\ n \in 0 .. k2 /\ (n - 1) + d = j - 1
    OBVIOUS
  <2>2. word2[n - 1] = v - c /\ word2[n] = w - c /\ slot2[n - 1] = r - t /\ slot2[n] = s - t
    BY <2>1
  <2>3. infos2[n] = infos[j]
    <3>1. j \in d + 1 .. k /\ j - d = n
      OBVIOUS
    <3> HIDE DEF j
    <3>2. QED BY <3>1 DEF Moved
  <2> HIDE DEF j, word2, slot2
  <2>4. /\ v \in Nat /\ w \in Nat /\ r \in Nat /\ s \in Nat
        /\ word[d] \in Nat /\ slot[d] \in Nat /\ word[k] \in Nat
    BY <1>1, <2>1
  <2>5. v >= word[d] /\ r >= slot[d] /\ w <= word[k] /\ s <= slot[k]
    BY <1>1, <2>1
  <2>6. Entry(infos[j], q, exp, v, w, r, s)
    BY <1>1, <2>1
  <2> HIDE DEF v, w, r, s
  <2>7. Moved(exp, exp2, v, w, c)
    <3> DEFINE a == word[d]
               b == word[k]
    <3>1. a \in Nat /\ b \in Nat /\ v >= a /\ w <= b /\ Moved(exp, exp2, a, b, c)
      BY <2>4, <2>5
    <3> HIDE DEF a, b
    <3>2. \A m \in v + 1 .. w : m \in a + 1 .. b
      BY <2>4, <3>1
    <3>3. QED BY <3>1, <3>2 DEF Moved
  <2>8. s = r + 1 => q2[s - t] = q[s]
    <3> DEFINE a == slot[d]
               b == Len(q)
    <3>1. a \in Nat /\ b \in Nat /\ r >= a /\ s <= b /\ Moved(q, q2, a, b, t)
      BY <1>1, <2>4, <2>5
    <3> HIDE DEF a, b
    <3>2. s = r + 1 => s \in a + 1 .. b
      BY <2>4, <3>1
    <3>3. QED BY <3>1, <3>2 DEF Moved
  <2>9. Entry(infos[j], q2, exp2, v - c, w - c, r - t, s - t)
    BY <2>4, <2>6, <2>7, <2>8, EntryMove
  <2>10. QED BY <2>2, <2>3, <2>9
<1>8. word2[0] = word[d] - c /\ word2[k2] = word[k] - c /\ slot2[0] = slot[d] - t
  OBVIOUS
<1> HIDE DEF word2, slot2
<1>9. Lined(infos2, q2, exp2, word2, slot2)
  BY <1>4, <1>5, <1>6, <1>7 DEF Lined
<1>10. QED BY <1>8, <1>9

\* Another entry at the end.
Longer(infos, infos2, k) ==
  k \in Nat /\ k = Len(infos) /\ k + 1 = Len(infos2) /\ Moved(infos, infos2, 0, k, 0)

\* An entry joins with the places after those of the others.
LEMMA LinedMore ==
  ASSUME NEW infos, NEW infos2, NEW q, NEW q2, NEW exp, NEW exp2, NEW word, NEW slot,
         Lined(infos, q, exp, word, slot),
         NEW k, Longer(infos, infos2, k),
         NEW w \in Nat, word[k] <= w, slot[k] <= Len(q2),
         Len(q) \in Nat, Len(q2) \in Nat, Moved(q, q2, 0, Len(q), 0),
         w <= Len(exp2), Moved(exp, exp2, 0, word[k], 0),
         Entry(infos2[k + 1], q2, exp2, word[k], w, slot[k], Len(q2))
  PROVE  \E word2, slot2 :
           /\ Lined(infos2, q2, exp2, word2, slot2)
           /\ word2[0] = word[0] /\ word2[k + 1] = w /\ slot2[0] = slot[0]
<1>0. k \in Nat /\ k = Len(infos) /\ k + 1 = Len(infos2) /\ Moved(infos, infos2, 0, k, 0)
  BY DEF Longer
<1> USE <1>0
<1> DEFINE s == Len(q2)
<1>00. /\ s \in Nat /\ slot[k] <= s /\ Len(q2) = s
       /\ Entry(infos2[k + 1], q2, exp2, word[k], w, slot[k], s)
  OBVIOUS
<1> HIDE DEF s
<1> USE <1>00
<1> DEFINE word2 == [n \in 0 .. k + 1 |-> IF n <= k THEN word[n] ELSE w]
           slot2 == [n \in 0 .. k + 1 |-> IF n <= k THEN slot[n] ELSE s]
<1>1. /\ word \in [0 .. k -> Nat] /\ slot \in [0 .. k -> Nat]
      /\ \A m, n \in 0 .. k : m <= n => word[m] <= word[n] /\ slot[m] <= slot[n]
      /\ slot[k] = Len(q)
      /\ \A n \in 1 .. k :
           Entry(infos[n], q, exp, word[n - 1], word[n], slot[n - 1], slot[n])
  BY DEF Lined
<1>2. /\ \A n \in 0 .. k : word2[n] = word[n] /\ slot2[n] = slot[n] /\ word[n] <= word[k]
                           /\ slot[n] <= slot[k] /\ word[n] \in Nat /\ slot[n] \in Nat
      /\ word2[k + 1] = w /\ slot2[k + 1] = s
  <2>1. ASSUME NEW n \in 0 .. k
        PROVE  word[n] <= word[k] /\ slot[n] <= slot[k] /\ word[n] \in Nat /\ slot[n] \in Nat
    BY <1>1
  <2>2. ASSUME NEW n \in 0 .. k PROVE word2[n] = word[n] /\ slot2[n] = slot[n]
    OBVIOUS
  <2>3. word2[k + 1] = w /\ slot2[k + 1] = s
    OBVIOUS
  <2> HIDE DEF word2, slot2
  <2>4. QED BY <2>1, <2>2, <2>3
<1>3. word2 \in [0 .. k + 1 -> Nat] /\ slot2 \in [0 .. k + 1 -> Nat]
  BY <1>1
<1> HIDE DEF word2, slot2
<1>4. ASSUME NEW m \in 0 .. k + 1, NEW n \in 0 .. k + 1, m <= n
      PROVE  word2[m] <= word2[n] /\ slot2[m] <= slot2[n]
  <2>1. CASE n \in 0 .. k
    <3>1. m \in 0 .. k
      BY <1>4, <2>1
    <3>2. QED BY <1>1, <1>2, <1>4, <2>1, <3>1
  <2>2. CASE n = k + 1
    <3>1. CASE m \in 0 .. k
      BY <1>2, <2>2, <3>1
    <3>2. CASE m = k + 1
      BY <1>2, <2>2, <3>2
    <3>3. QED BY <3>1, <3>2
  <2>3. QED BY <2>1, <2>2
<1>5. ASSUME NEW n \in 1 .. k + 1
      PROVE  Entry(infos2[n], q2, exp2, word2[n - 1], word2[n], slot2[n - 1], slot2[n])
  <2>1. CASE n \in 1 .. k
    <3> DEFINE v == word[n - 1]
               x == word[n]
               r == slot[n - 1]
               y == slot[n]
    <3>1. n - 1 \in 0 .. k /\ n \in 0 .. k
      BY <2>1
    <3>2. /\ v \in Nat /\ x \in Nat /\ r \in Nat /\ y \in Nat /\ x <= word[k] /\ y <= Len(q)
          /\ word2[n - 1] = v /\ word2[n] = x /\ slot2[n - 1] = r /\ slot2[n] = y
          /\ word[k] \in Nat
      BY <1>1, <1>2, <2>1, <3>1
    <3>3. Entry(infos[n], q, exp, v, x, r, y)
      BY <1>1, <2>1
    <3> HIDE DEF v, x, r, y
    <3>4. Moved(exp, exp2, v, x, 0)
      <4>1. \A m \in v + 1 .. x : m \in 0 + 1 .. word[k]
        BY <3>2
      <4>2. QED BY <4>1 DEF Moved
    <3>5. y = r + 1 => q2[y - 0] = q[y]
      <4>1. y = r + 1 => y \in 0 + 1 .. Len(q)
        BY <3>2
      <4>2. QED BY <4>1 DEF Moved
    <3>9. infos2[n] = infos[n]
      <4>1. n \in 0 + 1 .. k /\ n - 0 = n
        BY <2>1
      <4>2. QED BY <4>1 DEF Moved
    <3>6. Entry(infos[n], q2, exp2, v - 0, x - 0, r - 0, y - 0)
      <4>1. 0 \in Nat /\ v \in Nat /\ x \in Nat /\ r \in Nat /\ y \in Nat
        BY <3>2
      <4>2. QED BY <3>3, <3>4, <3>5, <4>1, EntryMove
    <3>7. v - 0 = v /\ x - 0 = x /\ r - 0 = r /\ y - 0 = y
      BY <3>2
    <3>8. QED BY <3>2, <3>6, <3>7, <3>9
  <2>2. CASE n = k + 1
    <3>1. word2[n - 1] = word[k] /\ slot2[n - 1] = slot[k] /\ word2[n] = w /\ slot2[n] = s
      <4>1. k \in 0 .. k /\ n - 1 = k
        BY <2>2
      <4>2. QED BY <1>2, <2>2, <4>1
    <3>2. QED BY <2>2, <3>1
  <2>3. QED BY <2>1, <2>2
<1>6. Lined(infos2, q2, exp2, word2, slot2)
  BY <1>2, <1>3, <1>4, <1>5 DEF Lined
<1>7. word2[0] = word[0] /\ slot2[0] = slot[0]
  <2>1. 0 \in 0 .. k
    OBVIOUS
  <2>2. QED BY <1>2, <2>1
<1>8. QED BY <1>2, <1>6, <1>7

\* Multiples of the size of a word are in order and a word apart.
LEMMA ProductOrder ==
  ASSUME NEW a \in Nat, NEW b \in Nat, NEW d \in Nat \ {0}
  PROVE  /\ a * d \in Nat /\ b * d \in Nat /\ (a < b <=> a * d < b * d)
         /\ a < b => a * d + d <= b * d
<1>1. a * d \in Nat /\ b * d \in Nat
  OBVIOUS
<1>2. ASSUME a < b PROVE a * d + d <= b * d
  <2> DEFINE e == b - (a + 1)
             x == a * d
             y == e * d
  <2>1. e \in Nat /\ b = (a + 1) + e
    BY <1>2
  <2> HIDE DEF e
  <2>2. b * d = (x + d) + y /\ x \in Nat /\ y \in Nat
    BY <2>1
  <2> HIDE DEF x, y
  <2>3. x + d <= (x + d) + y
    BY <2>2
  <2>4. QED BY <2>2, <2>3 DEF x
<1>3. ASSUME ~(a < b) PROVE b * d <= a * d
  <2> DEFINE e == a - b
             x == b * d
             y == e * d
  <2>1. e \in Nat /\ a = b + e
    BY <1>3
  <2> HIDE DEF e
  <2>2. a * d = x + y /\ x \in Nat /\ y \in Nat
    BY <2>1
  <2> HIDE DEF x, y
  <2>3. x <= x + y
    BY <2>2
  <2>4. QED BY <2>2, <2>3 DEF x
<1> DEFINE x == a * d
           y == b * d
<1>4. /\ x \in Nat /\ y \in Nat /\ (a < b => x + d <= y) /\ (~(a < b) => y <= x)
  BY <1>1, <1>2, <1>3
<1> HIDE DEF x, y
<1>5. a < b <=> x < y
  BY <1>4
<1>6. QED BY <1>1, <1>2, <1>5 DEF x, y

\* The words that begin among so many bytes.
LEMMA WordsBelow ==
  ASSUME NEW x \in Nat
  PROVE  /\ Words(x) \in Nat /\ (x # 0 => Words(x) # 0) /\ (x = 0 => Words(x) = 0)
         /\ \A k \in Nat : k * dataByte < x <=> k < Words(x)
         /\ \A a \in Nat : Words(a * dataByte + x) = a + Words(x)
<1> DEFINE d == dataByte
           y == x + d - 1
           q == y \div d
           r == y % d
<1>1. d \in Nat \ {0}
  BY Constants
<1>2. y \in Nat
  BY <1>1
<1>3. q \in Nat /\ r \in Nat /\ r < d /\ y = d * q + r
  BY <1>1, <1>2, Cut!Division
<1>4. Words(x) = q
  BY DEF Words
<1> HIDE DEF q, r
<1>5. ASSUME NEW k \in Nat PROVE k * d < x <=> k < q
  <2> DEFINE u == k * d
             v == q * d
  <2>1. u \in Nat /\ v \in Nat /\ (k < q => u + d <= v) /\ (~(k < q) => v <= u)
    <3>1. /\ k * d \in Nat /\ q * d \in Nat /\ (k < q <=> k * d < q * d)
          /\ k < q => k * d + d <= q * d
      BY <1>1, <1>3, ProductOrder
    <3>2. QED BY <3>1
  <2>2. d * q = v
    BY <1>1, <1>3
  <2> HIDE DEF u, v, d
  <2>3. x + d - 1 = v + r
    BY <1>3, <2>2
  <2>4. u < x <=> k < q
    BY <1>1, <1>3, <2>1, <2>3
  <2>5. QED BY <2>4 DEF u
<1>6. ASSUME NEW a \in Nat PROVE Words(a * d + x) = a + q
  <2> DEFINE z == (a * d + x) + d - 1
  <2>1. Words(a * d + x) = z \div d
    BY DEF Words
  <2>2. z = d * (a + q) + r
    <3> DEFINE u == a * d
    <3>1. z = u + y /\ u \in Nat
      BY <1>1
    <3>2. d * (a + q) = u + d * q
      BY <1>1, <1>3
    <3> DEFINE v == d * q
    <3>3. v \in Nat /\ y = v + r
      BY <1>1, <1>3
    <3> HIDE DEF u, v, y, z, d
    <3>4. QED BY <1>3, <3>1, <3>2, <3>3 DEF v
  <2> HIDE DEF z
  <2>3. (d * (a + q) + r) \div d = a + q
    BY <1>1, <1>3, Cut!DivisionUnique
  <2>4. QED BY <2>1, <2>2, <2>3
<1>7. (x # 0 => q # 0) /\ (x = 0 => q = 0)
  <2>1. 0 * d = 0
    BY <1>1
  <2>2. 0 < x <=> 0 < q
    BY <1>5, <2>1
  <2>3. QED BY <1>3, <2>2
<1>8. QED BY <1>3, <1>4, <1>5, <1>6, <1>7

\* What a word more that has been passed means for the places.
Wanted(min, max, at) == ~(at < min \/ at >= max)

\* The next word of a packet is for the requester, or it is not.
Carried(exp, min, max, who, p, passed, w, at) ==
  /\ w \in Nat /\ Bit(Wanted(min, max, at)) <= w
  /\ Wanted(min, max, at) => exp[1] = <<who, WordAt(p, passed)>>
  /\ Carries(exp, min, max, who, p, passed + 1, Bit(Wanted(min, max, at)), w)
  /\ passed = p.words - 1 => w = Bit(Wanted(min, max, at))

\* It is not when it lies outside of what the request asked for.
LEMMA CarriesNext ==
  ASSUME NEW exp, NEW min, NEW max \in Int, NEW who, NEW p \in Stretches,
         NEW passed \in 0 .. p.words - 1, NEW w, Carries(exp, min, max, who, p, passed, 0, w)
  PROVE  Carried(exp, min, max, who, p, passed, w, passed * dataByte)
<1> DEFINE n == p.words
           at == passed * dataByte
           valid == Wanted(min, max, at)
<1>0. valid \in BOOLEAN /\ valid = ~(at < min \/ at >= max) /\ at = passed * dataByte
  BY DEF Wanted
<1> HIDE DEF at, valid
<1> USE <1>0
<1>1. PICK lo \in Nat, hi \in Nat :
        /\ Kept(min, max, p, lo, hi) /\ w = 0 + Remaining(lo, hi, passed)
        /\ \A k \in lo .. hi - 1 : k >= passed => exp[(w - hi) + (k + 1)] = <<who, WordAt(p, k)>>
  BY DEF Carries
<1>2. /\ lo < hi /\ hi <= n /\ min = lo * dataByte
      /\ \A k \in 0 .. n - 1 : k * dataByte < max <=> k < hi
  BY <1>1 DEF Kept
<1>3. n \in Nat /\ passed \in Nat /\ passed < n /\ dataByte \in Nat \ {0}
  BY MaxWordsType, Constants DEF Stretches
<1>4. valid <=> lo <= passed /\ passed < hi
  <2>1. at \in Nat /\ min \in Nat /\ (passed < lo <=> at < min)
    BY <1>1, <1>2, <1>3, ProductOrder
  <2>2. at < max <=> passed < hi
    BY <1>2
  <2>3. ~(at >= max) <=> at < max
    BY <2>1
  <2>4. ~(passed < lo) <=> lo <= passed
    BY <1>1, <1>3
  <2>5. valid <=> ~(at < min) /\ ~(at >= max)
    OBVIOUS
  <2>6. valid <=> ~(passed < lo) /\ passed < hi
    BY <2>1, <2>2, <2>3, <2>5, Zenon
  <2>7. QED BY <2>4, <2>6, Zenon
<1> HIDE DEF n
<1>5. /\ w \in Nat /\ Remaining(lo, hi, passed) = Bit(valid) + Remaining(lo, hi, passed + 1)
      /\ Remaining(lo, hi, passed + 1) \in Nat
      /\ (passed + 1 = n => Remaining(lo, hi, passed + 1) = 0)
  BY <1>1, <1>2, <1>3, <1>4 DEF Remaining, Bit
<1>6. Bit(valid) \in 0 .. 1
  BY DEF Bit
<1>7. w = Bit(valid) + Remaining(lo, hi, passed + 1)
  BY <1>1, <1>5, <1>6
<1>8. valid => exp[1] = <<who, WordAt(p, passed)>>
  <2>1. SUFFICES ASSUME valid PROVE exp[1] = <<who, WordAt(p, passed)>>
    OBVIOUS
  <2>2. passed \in lo .. hi - 1 /\ (w - hi) + (passed + 1) = 1
    BY <1>1, <1>3, <1>4, <2>1 DEF Remaining
  <2>3. QED BY <1>1, <1>3, <2>2
<1>9. Carries(exp, min, max, who, p, passed + 1, Bit(valid), w)
  <2>1. \A k \in lo .. hi - 1 : k >= passed + 1 => k >= passed
    BY <1>1, <1>3
  <2>2. QED BY <1>1, <1>7, <2>1 DEF Carries
<1>10. passed = p.words - 1 => w = Bit(valid)
  <2>1. SUFFICES ASSUME passed = n - 1 PROVE w = Bit(valid)
    BY DEF n
  <2>2. passed + 1 = n
    BY <1>3, <2>1
  <2>3. QED BY <1>5, <1>6, <1>7, <2>2
<1>11. w \in Nat /\ Bit(valid) <= w
  BY <1>5, <1>6, <1>7
<1>12. Carried(exp, min, max, who, p, passed, w, at)
  BY <1>8, <1>9, <1>10, <1>11, Zenon DEF Carried, valid
<1>13. QED BY <1>12 DEF at

\* The words the request asked for of the packet in hand, and those that
\* are left of it then.
LEMMA PacketKept ==
  ASSUME Slicer, IdTypes, state = "s_dma_req"
  PROVE  \E lo, hi \in Nat :
           /\ Kept(Ctrl!PacketInfo.min_pos, Ctrl!PacketInfo.max_pos, NewSent, lo, hi)
           /\ \A k \in lo .. hi - 1 : WordAt(NewSent, k) = vaddr + (k - lo) * dataByte
           /\ more => /\ leftLen # 0 /\ Ctrl!next_leftLen(vaddr, leftLen, more) \in Nat
                      /\ Words(leftLen) = (hi - lo)
                           + Words(Ctrl!next_leftLen(vaddr, leftLen, more))
                      /\ Ctrl!next_vaddr(vaddr) = vaddr + (hi - lo) * dataByte
           /\ ~more => Words(leftLen) = hi - lo
<1> DEFINE d == dataByte
           f == Ctrl!vxo(vaddr)
           m == Ctrl!vxn(vaddr) * B
           s == Ctrl!packet_size(len)
           w == NewSent.words
           end == f - base + leftLen
           max == IF end >= B THEN B - 1 ELSE end
<1>1. /\ d \in Nat /\ d >= 2 /\ B \in Nat \ {0}
  BY Constants
<1>2. /\ vaddr \in Nat /\ f \in Nat /\ m \in Nat /\ vaddr = m + f
      /\ f % d = 0 /\ B % d = 0
  BY Blocks DEF Slicer
<1>3. /\ base \in Nat /\ base <= f /\ f < base + s /\ base + s <= B /\ s \in Nat \ {0}
      /\ more => base + s = B /\ f + leftLen > B
      /\ ~more => f + leftLen <= base + s
      /\ base % d = 0
      /\ d <= s => s % d = 0
      /\ ~(d <= s) => base = f /\ ~more
  <2>1. Cut!Fits(vaddr, leftLen, more, len, base) /\ Cut!InWords(vaddr, more, len, base)
    BY DEF Slicer, WithPacket, Packet
  <2>2. /\ s = Cut!packet_size(len) /\ f = Cut!vxo(vaddr) /\ B = Cut!maxSizeTL
    BY SameOperators
  <2>3. s \in Nat \ {0}
    BY NewEntryType
  <2> HIDE DEF s, f, d
  <2>4. QED BY <2>1, <2>2, <2>3 DEF Cut!Fits, Cut!InWords, d
<1>4. leftLen \in Nat \ {0} /\ more \in BOOLEAN
  BY DEF Slicer, SlicerTypes, Cutting, Left
<1>5. /\ NewSent.from = m + base /\ w = Words(s)
      /\ Ctrl!PacketInfo.min_pos = f - base /\ Ctrl!PacketInfo.max_pos = max
  <2>1. NewSent.from = m + base
    BY DEF NewSent, B
  <2>2. Len(PacketWords) = w
    BY NewSentType
  <2>3. PacketWords = [n \in 1 .. Words(s) |-> (m + base) + (n - 1) * dataByte]
    BY DEF PacketWords, WordsFrom, Words, B
  <2>4. Words(s) \in Nat
    <3>1. s \in Nat
      BY <1>3
    <3>2. QED BY <3>1, WordsBelow
  <2>5. Len(PacketWords) = Words(s)
    BY <2>3, <2>4
  <2>6. Ctrl!PacketInfo.min_pos = f - base /\ Ctrl!PacketInfo.max_pos = max
    BY DEF Ctrl!PacketInfo, B
  <2>7. QED BY <2>1, <2>2, <2>5, <2>6
<1>6. /\ Ctrl!next_leftLen(vaddr, leftLen, more) = IF more THEN f + leftLen - B ELSE 0
      /\ Ctrl!next_vaddr(vaddr) = m + B
  BY NextBlock DEF Slicer, Ctrl!next_leftLen, B
<1> HIDE DEF d, f, m, s, w
<1>7. PICK lo \in Nat : f = base + lo * d
  <2>1. PICK x \in Nat : f = d * x
    BY <1>1, <1>2, Cut!Multiple
  <2>2. PICK y \in Nat : base = d * y
    <3>1. base \in Nat /\ base % d = 0 /\ d \in Nat \ {0}
      BY <1>1, <1>3
    <3>2. QED BY <3>1, Cut!Multiple
  <2>3. y <= x
    <3>1. SUFFICES ASSUME x < y PROVE FALSE
      BY <2>1, <2>2
    <3>2. x * d < y * d
      BY <1>1, <2>1, <2>2, <3>1, ProductOrder
    <3>3. d * x < d * y
      BY <1>1, <2>1, <2>2, <3>2
    <3>4. QED BY <1>2, <1>3, <2>1, <2>2, <3>3
  <2>4. x - y \in Nat /\ d * x = d * y + (x - y) * d
    BY <1>1, <2>1, <2>2, <2>3
  <2>5. QED BY <2>1, <2>2, <2>4
<1>8. PICK h \in Nat : B = d * h
  <2>1. B \in Nat /\ d \in Nat \ {0}
    BY <1>1
  <2>2. QED BY <1>2, <2>1, Cut!Multiple
<1>9. \A k \in Nat : k * d \in Nat /\ (k * d < B => k * d < B - 1)
  <2> TAKE k \in Nat
  <2>1. k * d \in Nat
    BY <1>1
  <2>2. /\ h * d = B /\ (k < h <=> k * d < h * d) /\ (k < h => k * d + d <= h * d)
    <3>1. h * d = B
      BY <1>1, <1>8
    <3>2. d \in Nat \ {0}
      BY <1>1
    <3>3. QED BY <1>8, <3>1, <3>2, ProductOrder
  <2> DEFINE x == k * d
  <2>3. x \in Nat /\ (x < B => x + d <= B)
    BY <2>1, <2>2
  <2> HIDE DEF x
  <2>4. x < B => x < B - 1
    BY <1>1, <2>3
  <2>5. QED BY <2>1, <2>4 DEF x
<1>10. /\ w \in Nat /\ \A k \in Nat : k * d < s <=> k < w
  BY <1>3, <1>5, WordsBelow DEF d
<1> DEFINE z == lo * d
<1>11. z \in Nat /\ f = base + z /\ f - base = z
  BY <1>1, <1>3, <1>7
<1>12. end = z + leftLen /\ end \in Nat
  <2> HIDE DEF z
  <2>1. QED BY <1>3, <1>4, <1>11
<1>13. \A k \in lo .. w : (m + base) + k * d = vaddr + (k - lo) * d
  <2> TAKE k \in lo .. w
  <2>1. k * d = z + (k - lo) * d /\ (k - lo) * d \in Nat
    <3>1. k \in Nat /\ k - lo \in Nat
      BY <1>7, <1>10
    <3>2. QED BY <1>1, <1>7, <3>1
  <2> DEFINE x == (k - lo) * d
  <2> HIDE DEF x, z
  <2>2. (m + base) + (z + x) = (m + (base + z)) + x
    BY <1>2, <1>3, <1>11, <2>1 DEF x
  <2>3. QED BY <1>2, <1>11, <2>1, <2>2 DEF x
<1>14. CASE more
  <2>1. d <= s /\ base + s = B /\ f + leftLen > B /\ s % d = 0
    BY <1>3, <1>14
  <2>2. s = w * d
    <3>1. s \in Nat \ {0} /\ d \in Nat \ {0}
      BY <1>1, <1>3
    <3>2. (s + d - 1) \div d = s \div d /\ s = d * (s \div d)
      BY <2>1, <3>1, WordsUp
    <3>3. w = s \div d
      BY <1>5, <3>2 DEF Words, d
    <3>4. QED BY <1>10, <3>1, <3>2, <3>3
  <2>3. lo < w
    <3>1. z < s
      <4> HIDE DEF z
      <4>1. QED BY <1>3, <1>11
    <3>2. QED BY <1>7, <1>10, <3>1
  <2>4. \A k \in 0 .. w - 1 : k * d < max
    <3> TAKE k \in 0 .. w - 1
    <3>1. k \in Nat /\ k < w
      BY <1>10
    <3> DEFINE x == k * d
    <3>2. x \in Nat /\ x < s /\ (x < B => x < B - 1)
      BY <1>9, <1>10, <3>1
    <3>3. x < B
      <4> HIDE DEF x
      <4>1. base \in Nat /\ s \in Nat /\ B \in Nat /\ base + s = B
        BY <1>1, <1>3, <2>1
      <4>2. s <= B
        BY <4>1
      <4>3. x \in Nat /\ x < s
        BY <3>2
      <4>4. QED BY <4>1, <4>2, <4>3
    <3>4. s < end
      <4> HIDE DEF end
      <4>1. end = f - base + leftLen
        BY DEF end
      <4>2. QED BY <1>2, <1>3, <1>4, <2>1, <4>1
    <3> HIDE DEF x, end
    <3>5. x < max
      BY <1>3, <1>12, <3>2, <3>3, <3>4
    <3>6. QED BY <3>5 DEF x
  <2>5. Kept(z, max, NewSent, lo, w)
    <3> HIDE DEF max
    <3>1. \A k \in 0 .. w - 1 : k * dataByte < max <=> k < w
      BY <1>10, <2>4 DEF d
    <3>2. w <= NewSent.words /\ z = lo * dataByte
      BY <1>10 DEF w, d
    <3>3. QED BY <2>3, <3>1, <3>2 DEF Kept, w
  <2> DEFINE l == f + leftLen - B
             x == (w - lo) * d
  <2>6. l \in Nat
    BY <1>1, <1>2, <1>4, <2>1
  <2>7. w - lo \in Nat /\ x \in Nat /\ w * d = z + x
    <3>1. w - lo \in Nat
      BY <1>7, <1>10, <2>3
    <3>2. QED BY <1>1, <1>7, <1>10, <3>1
  <2>8. leftLen = x + l /\ m + B = vaddr + x
    <3> HIDE DEF x, z
    <3>1. B = (base + z) + x
      BY <1>3, <1>11, <2>1, <2>2, <2>7
    <3>2. QED BY <1>1, <1>2, <1>3, <1>4, <1>11, <2>7, <3>1
  <2>9. Words(leftLen) = (w - lo) + Words(l)
    <3>1. Words((w - lo) * dataByte + l) = (w - lo) + Words(l)
      <4> HIDE DEF l
      <4>1. QED BY <2>6, <2>7, WordsBelow
    <3>2. QED BY <2>8, <3>1 DEF d
  <2>10. \A k \in lo .. w - 1 : WordAt(NewSent, k) = vaddr + (k - lo) * dataByte
    <3> TAKE k \in lo .. w - 1
    <3>1. k \in lo .. w
      BY <1>7, <1>10
    <3>2. (m + base) + k * d = vaddr + (k - lo) * d
      BY <1>13, <3>1
    <3>3. QED BY <1>5, <3>2 DEF WordAt, d
  <2>11. QED
    <3> HIDE DEF l, x, z, max
    <3>1. Ctrl!next_leftLen(vaddr, leftLen, more) = l /\ Ctrl!next_vaddr(vaddr) = vaddr + x
      BY <1>6, <1>14, <2>8 DEF l
    <3>2. Kept(Ctrl!PacketInfo.min_pos, Ctrl!PacketInfo.max_pos, NewSent, lo, w)
      BY <1>5, <1>11, <2>5
    <3>3. Ctrl!next_vaddr(vaddr) = vaddr + (w - lo) * dataByte
      BY <3>1 DEF x, d
    <3>4. QED BY <1>4, <1>7, <1>10, <1>14, <2>6, <2>9, <2>10, <3>1, <3>2, <3>3
<1>15. CASE ~more
  <2> DEFINE hi == Words(end)
  <2>1. f + leftLen <= base + s
    BY <1>3, <1>15
  <2>2. end <= s
    <3> HIDE DEF end
    <3>1. end = f - base + leftLen
      BY DEF end
    <3>2. QED BY <1>2, <1>3, <1>4, <2>1, <3>1
  <2>3. hi \in Nat /\ \A k \in Nat : k * d < end <=> k < hi
    BY <1>12, WordsBelow DEF d
  <2>4. Words(leftLen) \in Nat /\ Words(leftLen) # 0 /\ hi = lo + Words(leftLen)
    <3>1. Words(lo * dataByte + leftLen) = lo + Words(leftLen)
      BY <1>4, <1>7, WordsBelow
    <3>2. QED BY <1>4, <1>12, <3>1, WordsBelow DEF d
  <2>5. hi <= w
    <3> HIDE DEF hi
    <3>1. hi - 1 \in Nat /\ hi - 1 < hi
      BY <1>7, <2>3, <2>4
    <3> DEFINE x == (hi - 1) * d
    <3>2. x \in Nat /\ x < end
      BY <1>9, <2>3, <3>1
    <3>3. x < s
      <4> HIDE DEF x, end
      <4>1. QED BY <1>3, <1>12, <2>2, <3>2
    <3>4. hi - 1 < w
      BY <1>10, <3>1, <3>3
    <3>5. QED BY <1>10, <2>3, <3>4
  <2>6. \A k \in 0 .. w - 1 : k * d < max <=> k < hi
    <3> TAKE k \in 0 .. w - 1
    <3>1. k \in Nat /\ k < w
      BY <1>10
    <3> DEFINE x == k * d
    <3>2. x \in Nat /\ x < s /\ (x < B => x < B - 1) /\ (x < end <=> k < hi)
      BY <1>9, <1>10, <2>3, <3>1
    <3> HIDE DEF x, hi, end
    <3>3. CASE end >= B
      <4>1. end = B /\ s = B /\ max = B - 1
        BY <1>1, <1>3, <1>12, <2>2, <3>3
      <4>2. x < B - 1 /\ k < hi
        BY <3>2, <4>1
      <4>3. QED BY <4>1, <4>2 DEF x
    <3>4. CASE ~(end >= B)
      BY <3>2, <3>4 DEF x
    <3>5. QED BY <3>3, <3>4
  <2>7. lo < hi
    <3> HIDE DEF hi
    <3>1. QED BY <1>7, <2>4
  <2>8. Kept(z, max, NewSent, lo, hi)
    <3> HIDE DEF max, hi
    <3>1. \A k \in 0 .. w - 1 : k * dataByte < max <=> k < hi
      BY <2>6 DEF d
    <3>2. hi <= NewSent.words /\ z = lo * dataByte
      BY <2>5 DEF w, d
    <3>3. QED BY <2>7, <3>1, <3>2 DEF Kept, w
  <2>9. \A k \in lo .. hi - 1 : WordAt(NewSent, k) = vaddr + (k - lo) * dataByte
    <3> HIDE DEF hi
    <3> TAKE k \in lo .. hi - 1
    <3>1. k \in lo .. w
      BY <1>7, <1>10, <2>3, <2>5
    <3>2. (m + base) + k * d = vaddr + (k - lo) * d
      BY <1>13, <3>1
    <3>3. QED BY <1>5, <3>2 DEF WordAt, d
  <2>10. Words(leftLen) = hi - lo
    <3> HIDE DEF hi
    <3>1. QED BY <1>7, <2>4
  <2>11. QED
    <3> HIDE DEF hi, z, max
    <3>1. Kept(Ctrl!PacketInfo.min_pos, Ctrl!PacketInfo.max_pos, NewSent, lo, hi)
      BY <1>5, <1>11, <2>8
    <3>2. QED BY <1>7, <1>15, <2>3, <2>9, <2>10, <3>1
<1>16. QED BY <1>4, <1>14, <1>15

\* The packet in hand, or the exception, as another entry.
Joined(infos, infos2, k) == Longer(infos, infos2, k) /\ infos2[k + 1] = Ctrl!PacketInfo

\* The entry of a packet gets the first places of what is left of the request.
LEMMA PacketListed ==
  ASSUME Slicer, IdTypes, state = "s_dma_req", id \in ReqIds,
         NEW infos, NEW infos2, NEW q, NEW q2, NEW exp, NEW word, NEW slot,
         Lined(infos, q, exp, word, slot),
         NEW k, Joined(infos, infos2, k),
         Len(q) \in Nat, Len(q2) = Len(q) + 1, Moved(q, q2, 0, Len(q), 0),
         q2[Len(q) + 1] = NewSent, Len(exp) \in Nat,
         Rest(state, vaddr, leftLen, id, exp, word[k])
  PROVE  \E word2, slot2 :
           /\ Lined(infos2, q2, exp, word2, slot2)
           /\ word2[0] = word[0] /\ slot2[0] = slot[0]
           /\ Rest(IF more THEN "s_slice" ELSE "s_idle", Ctrl!next_vaddr(vaddr),
                   Ctrl!next_leftLen(vaddr, leftLen, more), id, exp, word2[k + 1])
<1>0. /\ Longer(infos, infos2, k) /\ infos2[k + 1] = Ctrl!PacketInfo
      /\ k \in Nat /\ k = Len(infos) /\ k + 1 = Len(infos2) /\ Moved(infos, infos2, 0, k, 0)
  BY DEF Joined, Longer
<1> USE <1>0
<1> DEFINE v == word[k]
           e == Ctrl!PacketInfo
           n == Len(q)
           left == Ctrl!next_leftLen(vaddr, leftLen, more)
           to == Ctrl!next_vaddr(vaddr)
           all == Words(leftLen)
           rest == Words(left)
<1>1. PICK lo \in Nat, hi \in Nat :
        /\ Kept(e.min_pos, e.max_pos, NewSent, lo, hi)
        /\ \A j \in lo .. hi - 1 : WordAt(NewSent, j) = vaddr + (j - lo) * dataByte
        /\ more => /\ leftLen # 0 /\ left \in Nat
                   /\ all = (hi - lo) + rest
                   /\ to = vaddr + (hi - lo) * dataByte
        /\ ~more => all = hi - lo
  BY PacketKept
<1>2. lo < hi
  BY <1>1 DEF Kept
<1>3. /\ word \in [0 .. k -> Nat] /\ slot \in [0 .. k -> Nat] /\ slot[k] = n
  BY DEF Lined
<1>4. v \in Nat /\ n \in Nat /\ k \in 0 .. k /\ 0 \in 0 .. k
  BY <1>3
<1>5. more \in BOOLEAN /\ vaddr \in Nat /\ leftLen \in Nat /\ dataByte \in Nat
  BY Constants DEF Slicer, SlicerTypes
<1>6. all \in Nat /\ (more => rest \in Nat)
  BY <1>1, <1>5, WordsBelow
<1>7. /\ Len(exp) = v + all
      /\ \A j \in 1 .. all : exp[v + j] = <<id, vaddr + (j - 1) * dataByte>>
  BY DEF Rest, Cutting
<1> DEFINE w == v + (hi - lo)
<1>8. ~e.exception /\ e.id = id
  <2>1. e.exception <=> state = "s_exp"
    BY InfoType
  <2>2. e.id = id
    BY DEF Ctrl!PacketInfo
  <2>3. QED BY <2>1, <2>2
<1> HIDE DEF v, e, n, left, to, all, rest
<1>9. w \in Nat /\ v <= w /\ w <= Len(exp) /\ hi - lo <= all
  <2>1. hi - lo \in Nat
    BY <1>1, <1>2
  <2>2. hi - lo <= all
    <3>1. CASE more
      BY <1>1, <1>6, <2>1, <3>1
    <3>2. CASE ~more
      BY <1>1, <1>6, <2>1, <3>2
    <3>3. QED BY <3>1, <3>2
  <2> DEFINE g == hi - lo
  <2> HIDE DEF g
  <2>3. v + g \in Nat /\ v <= v + g /\ v + g <= Len(exp)
    BY <1>4, <1>6, <1>7, <2>1, <2>2 DEF g
  <2>4. QED BY <2>2, <2>3 DEF g
<1>10. Carries(exp, e.min_pos, e.max_pos, id, NewSent, 0, v, w)
  <2>1. w = v + Remaining(lo, hi, 0)
    BY <1>1, <1>2 DEF Remaining
  <2>2. ASSUME NEW j \in lo .. hi - 1
        PROVE  exp[(w - hi) + (j + 1)] = <<id, WordAt(NewSent, j)>>
    <3> DEFINE i == (j - lo) + 1
    <3>1. i \in 1 .. all /\ (w - hi) + (j + 1) = v + i /\ i - 1 = j - lo
      BY <1>1, <1>2, <1>4, <1>6, <1>9
    <3> HIDE DEF i
    <3>2. exp[v + i] = <<id, vaddr + (i - 1) * dataByte>>
      BY <1>7, <3>1
    <3>3. WordAt(NewSent, j) = vaddr + (j - lo) * dataByte
      BY <1>1
    <3>4. QED BY <3>1, <3>2, <3>3
  <2> HIDE DEF w
  <2>3. QED BY <1>1, <2>1, <2>2 DEF Carries
<1>11. Entry(infos2[k + 1], q2, exp, v, w, n, n + 1)
  BY <1>8, <1>10 DEF Entry, n, e
<1>12. PICK word2, slot2 :
         /\ Lined(infos2, q2, exp, word2, slot2)
         /\ word2[0] = word[0] /\ word2[k + 1] = w /\ slot2[0] = slot[0]
  <2>1. Moved(exp, exp, 0, word[k], 0)
    <3>1. \A j \in 1 .. v : j - 0 = j
      OBVIOUS
    <3>2. QED BY <3>1 DEF Moved, v
  <2>2. /\ w \in Nat /\ Len(q2) \in Nat /\ word[k] <= w /\ slot[k] <= Len(q2)
        /\ Len(q) \in Nat /\ Entry(infos2[k + 1], q2, exp, word[k], w, slot[k], Len(q2))
    BY <1>3, <1>4, <1>9, <1>11 DEF v, n
  <2> HIDE DEF w
  <2>3. QED BY <1>9, <2>1, <2>2, LinedMore
<1>14. Rest(IF more THEN "s_slice" ELSE "s_idle", to, left, id, exp, w)
  <2>1. CASE more
    <3>1. Len(exp) = w + rest
      BY <1>1, <1>4, <1>6, <1>7, <2>1
    <3>2. ASSUME NEW j \in 1 .. rest
          PROVE  exp[w + j] = <<id, to + (j - 1) * dataByte>>
      <4> DEFINE i == (hi - lo) + j
      <4>1. hi - lo \in Nat /\ rest \in Nat /\ all = (hi - lo) + rest
        BY <1>1, <1>2, <1>6, <2>1
      <4>2. i \in 1 .. all /\ w + j = v + i
        BY <1>4, <4>1
      <4>3. exp[v + i] = <<id, vaddr + (i - 1) * dataByte>>
        BY <1>7, <4>2
      <4>4. (i - 1) * dataByte = (hi - lo) * dataByte + (j - 1) * dataByte
        BY <1>5, <4>1
      <4> DEFINE x == (hi - lo) * dataByte
                 y == (j - 1) * dataByte
      <4>5. x \in Int /\ y \in Int
        BY <1>5, <4>1
      <4>6. to = vaddr + x
        BY <1>1, <2>1
      <4> HIDE DEF i, x, y
      <4>7. vaddr + (x + y) = (vaddr + x) + y
        BY <1>5, <4>5
      <4>8. QED BY <4>2, <4>3, <4>4, <4>6, <4>7 DEF x, y
    <3> HIDE DEF w
    <3>3. QED BY <2>1, <3>1, <3>2 DEF Rest, rest, Cutting
  <2>2. CASE ~more
    <3>1. Len(exp) = w
      BY <1>1, <1>7, <2>2
    <3>2. QED BY <2>2, <3>1 DEF Rest, Cutting
  <2>3. QED BY <1>5, <2>1, <2>2
<1> HIDE DEF w
<1>15. QED BY <1>12, <1>14 DEF to, left

\* An exception takes the place of the words that are left.
Excepts(exp, exp2) ==
  /\ Len(exp2) = Len(exp) - Words(leftLen) + 1
  /\ Moved(exp, exp2, 0, Len(exp) - Words(leftLen), 0)
  /\ exp2[Len(exp) - Words(leftLen) + 1] = <<id, Raised>>

\* The entry of an exception gets the place that is put after the others.
LEMMA ExceptionListed ==
  ASSUME Slicer, state = "s_exp", id \in ReqIds,
         NEW infos, NEW infos2, NEW q, NEW q2, NEW exp, NEW exp2, NEW word, NEW slot,
         Lined(infos, q, exp, word, slot),
         NEW k, Joined(infos, infos2, k),
         Len(q) \in Nat, Len(q2) = Len(q), Moved(q, q2, 0, Len(q), 0),
         Rest(state, vaddr, leftLen, id, exp, word[k]), Excepts(exp, exp2)
  PROVE  /\ Moved(exp, exp2, 0, word[k], 0)
         /\ \E word2, slot2 :
              /\ Lined(infos2, q2, exp2, word2, slot2)
              /\ word2[0] = word[0] /\ slot2[0] = slot[0]
              /\ Rest("s_idle", vaddr, leftLen, id, exp2, word2[k + 1])
<1>0. /\ Longer(infos, infos2, k) /\ infos2[k + 1] = Ctrl!PacketInfo
      /\ k \in Nat /\ k = Len(infos) /\ k + 1 = Len(infos2) /\ Moved(infos, infos2, 0, k, 0)
  BY DEF Joined, Longer
<1> USE <1>0
<1>00. /\ Len(exp2) = Len(exp) - Words(leftLen) + 1
       /\ Moved(exp, exp2, 0, Len(exp) - Words(leftLen), 0)
       /\ exp2[Len(exp) - Words(leftLen) + 1] = <<id, Raised>>
  BY DEF Excepts
<1> USE <1>00
<1> DEFINE v == word[k]
           e == Ctrl!PacketInfo
           n == Len(q)
           all == Words(leftLen)
<1>1. /\ word \in [0 .. k -> Nat] /\ slot \in [0 .. k -> Nat] /\ slot[k] = n
  BY DEF Lined
<1>2. v \in Nat /\ n \in Nat /\ k \in 0 .. k /\ 0 \in 0 .. k
  BY <1>1
<1>3. all \in Nat /\ Len(exp) = v + all
  <2>1. leftLen \in Nat
    BY DEF Slicer, SlicerTypes
  <2>2. QED BY <2>1, WordsBelow DEF Rest, Cutting
<1>4. e.exception /\ e.id = id
  <2>1. e.exception <=> state = "s_exp"
    BY InfoType
  <2>2. e.id = id
    BY DEF Ctrl!PacketInfo
  <2>3. QED BY <2>1, <2>2
<1> HIDE DEF v, e, n, all
<1>5. Len(exp) - all = v
  BY <1>2, <1>3
<1>6. Moved(exp, exp2, 0, word[k], 0) /\ Len(exp2) = v + 1 /\ exp2[v + 1] = <<id, Raised>>
  BY <1>5 DEF v, all
<1>7. Entry(infos2[k + 1], q2, exp2, v, v + 1, n, n)
  BY <1>4, <1>6 DEF Entry, e
<1>8. PICK word2, slot2 :
        /\ Lined(infos2, q2, exp2, word2, slot2)
        /\ word2[0] = word[0] /\ word2[k + 1] = v + 1 /\ slot2[0] = slot[0]
  <2> DEFINE w == v + 1
  <2>2. /\ w \in Nat /\ word[k] <= w /\ slot[k] <= Len(q2)
        /\ Len(q) \in Nat /\ Len(q2) \in Nat /\ w <= Len(exp2)
        /\ Entry(infos2[k + 1], q2, exp2, word[k], w, slot[k], Len(q2))
    BY <1>1, <1>2, <1>6, <1>7 DEF v, n
  <2> HIDE DEF w
  <2>3. \E word2, slot2 :
          /\ Lined(infos2, q2, exp2, word2, slot2)
          /\ word2[0] = word[0] /\ word2[k + 1] = w /\ slot2[0] = slot[0]
    BY <1>6, <2>2, LinedMore
  <2>4. QED BY <2>3 DEF w
<1>10. Rest("s_idle", vaddr, leftLen, id, exp2, v + 1)
  BY <1>6 DEF Rest, Cutting
<1>11. QED BY <1>6, <1>8, <1>10

---------------------------------------------------------------------------
(* A cycle and the order: an entry joins, the stream moves on, a request   *)
(* is accepted.                                                            *)

\* packetInfoQue before its first entry leaves.
InfosMore(enq) == IF enq THEN Append(packetInfoQue, Ctrl!PacketInfo) ELSE packetInfoQue

Listing(fire, deq, enq, k, m) ==
  /\ fire \in BOOLEAN /\ Ctrl!InfoQue(fire)
  /\ deq = (streamState = "s_stream_idle" /\ packetInfoQue # <<>>)
  /\ enq = ((fire \/ state = "s_exp") /\ Len(packetInfoQue) < nReqInflight)
  /\ k = Len(packetInfoQue) /\ m = Len(InfosMore(enq))

\* Entries keep their order in packetInfoQue.
LEMMA InfosMoved ==
  ASSUME Slicer, id \in ReqIds, packetInfoQue \in Seq(Infos),
         NEW fire, NEW deq, NEW enq, NEW k, NEW m, Listing(fire, deq, enq, k, m)
  PROVE  /\ k \in Nat /\ InfosMore(enq) \in Seq(Infos) /\ m = k + Bit(enq)
         /\ Moved(packetInfoQue, InfosMore(enq), 0, k, 0)
         /\ enq => InfosMore(enq)[k + 1] = Ctrl!PacketInfo
         /\ Len(packetInfoQue') = m - Bit(deq)
         /\ Moved(InfosMore(enq), packetInfoQue', Bit(deq), m, Bit(deq))
<1>0. /\ fire \in BOOLEAN /\ Ctrl!InfoQue(fire)
      /\ deq = (streamState = "s_stream_idle" /\ packetInfoQue # <<>>)
      /\ enq = ((fire \/ state = "s_exp") /\ Len(packetInfoQue) < nReqInflight)
      /\ k = Len(packetInfoQue) /\ m = Len(InfosMore(enq))
  BY DEF Listing
<1> DEFINE q == packetInfoQue
           x == Ctrl!PacketInfo
           t == InfosMore(enq)
           u == packetInfoQue'
<1>1. x \in Infos /\ q \in Seq(Infos) /\ k \in Nat /\ k = Len(q)
  BY <1>0, InfoType
<1>2. /\ deq \in BOOLEAN /\ enq \in BOOLEAN /\ (deq = TRUE => q # <<>>)
      /\ t = (IF enq = TRUE THEN Append(q, x) ELSE q)
      /\ u = (IF enq = TRUE THEN Append(IF deq = TRUE THEN Tail(q) ELSE q, x)
                            ELSE IF deq = TRUE THEN Tail(q) ELSE q)
  BY <1>0 DEF Ctrl!InfoQue, Ctrl!QueStep, Ctrl!deq_valid, Ctrl!enq_ready, Ctrl!s_stream_idle,
         Ctrl!s_exp, InfosMore
<1> HIDE DEF q, x, t, u
<1>3. /\ t \in Seq(Infos) /\ Len(t) = k + Bit(enq)
      /\ \A n \in 1 .. k : t[n] = q[n]
      /\ enq = TRUE => t[k + 1] = x
  <2>1. CASE enq = TRUE
    <3>1. t = Append(q, x) /\ Bit(enq) = 1
      BY <1>2, <2>1 DEF Bit
    <3>2. QED BY <1>1, <3>1
  <2>2. CASE enq = FALSE
    <3>1. t = q /\ Bit(enq) = 0
      BY <1>2, <2>2 DEF Bit
    <3>2. QED BY <1>1, <2>2, <3>1
  <2>3. QED BY <1>2, <2>1, <2>2
<1>4. /\ Len(u) = Len(t) - Bit(deq)
      /\ \A n \in 1 .. Len(t) - Bit(deq) : u[n] = t[n + Bit(deq)]
  <2>1. CASE deq = FALSE
    <3>1. u = t /\ Bit(deq) = 0
      BY <1>2, <2>1 DEF Bit
    <3>2. QED BY <1>3, <3>1
  <2>2. CASE deq = TRUE
    <3>1. q # <<>> /\ Bit(deq) = 1
      BY <1>2, <2>2 DEF Bit
    <3>2. /\ Tail(q) \in Seq(Infos) /\ Len(Tail(q)) = k - 1 /\ k >= 1
          /\ \A n \in 1 .. k - 1 : Tail(q)[n] = q[n + 1]
      BY <1>1, <3>1
    <3>3. CASE enq = TRUE
      <4>1. t = Append(q, x) /\ u = Append(Tail(q), x)
        BY <1>2, <2>2, <3>3
      <4>2. Len(t) = k + 1 /\ Len(u) = k
        BY <1>1, <3>2, <4>1
      <4>3. \A n \in 1 .. k : u[n] = IF n <= k - 1 THEN Tail(q)[n] ELSE x
        BY <1>1, <3>2, <4>1
      <4>4. \A n \in 1 .. k + 1 : t[n] = IF n <= k THEN q[n] ELSE x
        BY <1>1, <4>1
      <4>5. \A n \in 1 .. k : u[n] = t[n + 1]
        BY <1>1, <3>2, <4>3, <4>4
      <4>6. (k + 1) - 1 = k
        BY <1>1
      <4>7. QED BY <3>1, <4>2, <4>5, <4>6
    <3>4. CASE enq = FALSE
      <4>1. t = q /\ u = Tail(q)
        BY <1>2, <2>2, <3>4
      <4>2. QED BY <1>1, <3>1, <3>2, <4>1
    <3>5. QED BY <1>2, <3>3, <3>4
  <2>3. QED BY <1>2, <2>1, <2>2
<1>5. m = Len(t) /\ Len(t) \in Nat /\ Bit(deq) \in 0 .. 1
  BY <1>0, <1>3 DEF Bit, t
<1>6. Moved(q, t, 0, k, 0)
  <2>1. \A n \in 0 + 1 .. k : n - 0 = n /\ n \in 1 .. k
    BY <1>1
  <2>2. QED BY <1>3, <2>1 DEF Moved
<1>7. Moved(t, u, Bit(deq), m, Bit(deq))
  <2> DEFINE b == Bit(deq)
  <2>1. \A n \in b + 1 .. m : n - b \in 1 .. m - b /\ (n - b) + b = n
    BY <1>5
  <2>2. \A n \in 1 .. m - b : u[n] = t[n + b]
    BY <1>4, <1>5
  <2> HIDE DEF b
  <2>3. QED BY <2>1, <2>2 DEF Moved, b
<1>8. QED BY <1>1, <1>2, <1>3, <1>4, <1>5, <1>6, <1>7 DEF q, t, u, x

\* A sequence that grows, and one that shifts, as movements.
LEMMA GrownMoves ==
  ASSUME NEW s, NEW t, NEW b, NEW x, Grown(s, t, b, x), Len(s) \in Nat
  PROVE  Moved(s, t, 0, Len(s), 0)
<1>1. \A n \in 0 + 1 .. Len(s) : n - 0 = n /\ n \in 1 .. Len(s)
  OBVIOUS
<1>2. QED BY <1>1 DEF Moved, Grown

LEMMA ShiftedMoves ==
  ASSUME NEW s, NEW t, NEW b, Shifted(s, t, b), Len(s) \in Nat
  PROVE  Moved(s, t, Bit(b), Len(s), Bit(b))
<1> DEFINE k == Len(s)
           c == Bit(b)
<1>1. k \in Nat /\ c \in 0 .. 1
  BY DEF Bit
<1>2. Len(t) = k - c /\ \A n \in 1 .. k - c : t[n] = s[n + c]
  BY DEF Shifted
<1> HIDE DEF k, c
<1>3. \A n \in c + 1 .. k : n - c \in 1 .. k - c /\ (n - c) + c = n
  BY <1>1
<1>4. QED BY <1>2, <1>3 DEF Moved, k, c

\* What the stream is still to carry.
Items == ReqIds \X Int
ItemsMore(raised) ==
  IF raised THEN Append(Ended(Words(leftLen)), <<id, Raised>>) ELSE expected

\* An exception takes the place of the words not asked for.
LEMMA ItemsGrow ==
  ASSUME expected \in Seq(Items), id \in ReqIds, NEW raised \in BOOLEAN,
         raised = TRUE => Words(leftLen) \in 0 .. Len(expected)
  PROVE  /\ ItemsMore(raised) \in Seq(Items)
         /\ raised = FALSE => ItemsMore(raised) = expected
         /\ raised = TRUE =>
              /\ Len(ItemsMore(raised)) = Len(expected) - Words(leftLen) + 1
              /\ Moved(expected, ItemsMore(raised), 0, Len(expected) - Words(leftLen), 0)
              /\ ItemsMore(raised)[Len(expected) - Words(leftLen) + 1] = <<id, Raised>>
<1>1. CASE raised = FALSE
  BY <1>1 DEF ItemsMore
<1>2. CASE raised = TRUE
  <2> DEFINE n == Len(expected) - Words(leftLen)
             s == Ended(Words(leftLen))
             x == <<id, Raised>>
  <2>1. n \in 0 .. Len(expected)
    BY <1>2
  <2>2. x \in Items
    BY DEF Items, Raised
  <2>3. s = SubSeq(expected, 1, n) /\ ItemsMore(raised) = Append(s, x)
    BY <1>2 DEF Ended, ItemsMore
  <2> HIDE DEF n, s, x
  <2>4. s \in Seq(Items) /\ Len(s) = n /\ \A m \in 1 .. n : s[m] = expected[m]
    BY <2>1, <2>3
  <2>5. /\ Append(s, x) \in Seq(Items) /\ Len(Append(s, x)) = n + 1
        /\ Append(s, x)[n + 1] = x
        /\ \A m \in 1 .. n : Append(s, x)[m] = expected[m]
    BY <2>1, <2>2, <2>4
  <2>6. Moved(expected, Append(s, x), 0, n, 0)
    <3>1. \A m \in 0 + 1 .. n : m - 0 = m /\ m \in 1 .. n
      BY <2>1
    <3>2. QED BY <2>5, <3>1 DEF Moved
  <2>7. QED BY <1>2, <2>3, <2>5, <2>6 DEF n, x
<1>3. QED BY <1>1, <1>2

Expecting(req, streamReady, expAck, raised, carried, all) ==
  /\ Expect(req, streamReady, expAck)
  /\ req.addr \in Nat /\ req.len \in Nat /\ req.id \in ReqIds
  /\ raised = (state = "s_exp" /\ Len(packetInfoQue) < nReqInflight)
  /\ carried = ((stream_valid /\ streamReady) \/ (Ctrl!exp_req /\ expAck))
  /\ all \in Seq(Items) /\ all = ItemsMore(raised) /\ Bit(carried) <= Len(all)

\* What the stream carried is gone, what a request asks for is added.
LEMMA ExpectStep ==
  ASSUME expected \in Seq(Items), NEW req, NEW streamReady, NEW expAck, NEW raised,
         NEW carried, NEW all, Expecting(req, streamReady, expAck, raised, carried, all)
  PROVE  /\ expected' \in Seq(Items)
         /\ Len(expected') = (Len(all) - Bit(carried)) + Words(req.len)
         /\ Moved(all, expected', Bit(carried), Len(all), Bit(carried))
         /\ \A j \in 1 .. Words(req.len) :
              expected'[(Len(all) - Bit(carried)) + j] = <<req.id, req.addr + (j - 1) * dataByte>>
<1>0. /\ Expect(req, streamReady, expAck)
      /\ req.addr \in Nat /\ req.len \in Nat /\ req.id \in ReqIds
      /\ raised = (state = "s_exp" /\ Len(packetInfoQue) < nReqInflight)
      /\ carried = ((stream_valid /\ streamReady) \/ (Ctrl!exp_req /\ expAck))
      /\ all \in Seq(Items) /\ all = ItemsMore(raised) /\ Bit(carried) <= Len(all)
  BY DEF Expecting
<1> USE <1>0
<1> DEFINE c == Bit(carried)
           w == Words(req.len)
           words == WordsFrom(req.addr, req.len)
           new == [n \in DOMAIN words |-> <<req.id, words[n]>>]
           rest == SubSeq(all, 1 + c, Len(all))
           k == Len(all)
<1>1. c \in 0 .. 1 /\ w \in Nat /\ k \in Nat /\ c <= k
  <2>1. Words(req.len) \in Nat
    BY WordsBelow
  <2>2. Bit(carried) \in 0 .. 1
    BY DEF Bit
  <2>3. QED BY <2>1, <2>2
<1>2. words = [n \in 1 .. w |-> req.addr + (n - 1) * dataByte]
  BY DEF WordsFrom, Words
<1>3. new = [n \in 1 .. w |-> <<req.id, req.addr + (n - 1) * dataByte>>]
  BY <1>2
<1>4. new \in Seq(Items) /\ Len(new) = w
      /\ \A n \in 1 .. w : new[n] = <<req.id, req.addr + (n - 1) * dataByte>>
  <2> HIDE DEF new, w
  <2>1. \A n \in 1 .. w : <<req.id, req.addr + (n - 1) * dataByte>> \in Items
    <3> TAKE n \in 1 .. w
    <3>1. n \in Int /\ dataByte \in Int /\ req.addr \in Int
      BY <1>1, Constants
    <3>2. req.addr + (n - 1) * dataByte \in Int
      BY <3>1
    <3>3. QED BY <3>2 DEF Items
  <2>2. new \in [1 .. w -> Items]
    BY <1>3, <2>1
  <2>3. QED BY <1>1, <1>3, <2>2
<1>5. expected' = rest \o new
  <2>1. all = IF state = "s_exp" /\ Len(packetInfoQue) < nReqInflight
              THEN Append(Ended((leftLen + dataByte - 1) \div dataByte), <<id, Raised>>)
              ELSE expected
    BY DEF ItemsMore, Words
  <2>2. c = IF (stream_valid /\ streamReady) \/ (Ctrl!exp_req /\ expAck) THEN 1 ELSE 0
    BY DEF Bit
  <2> HIDE DEF c
  <2>3. QED BY <2>1, <2>2 DEF Expect
<1> HIDE DEF c, w, words, new, k
<1>6. rest \in Seq(Items) /\ Len(rest) = k - c /\ \A m \in 1 .. k - c : rest[m] = all[m + c]
  <2>1. 1 + c \in 1 .. k + 1
    BY <1>1
  <2>2. QED BY <1>1, <2>1 DEF k
<1> HIDE DEF rest
<1>7. /\ rest \o new \in Seq(Items) /\ Len(rest \o new) = (k - c) + w
      /\ \A m \in 1 .. k - c : (rest \o new)[m] = rest[m]
      /\ \A j \in 1 .. w : (rest \o new)[(k - c) + j] = new[j]
  <2> DEFINE a == k - c
  <2>1. a \in Nat /\ Len(rest) = a
    BY <1>1, <1>6
  <2> HIDE DEF a
  <2>2. /\ rest \o new \in Seq(Items) /\ Len(rest \o new) = a + w
        /\ \A m \in 1 .. a + w : (rest \o new)[m] = IF m <= a THEN rest[m] ELSE new[m - a]
    <3>1. rest \in Seq(Items) /\ new \in Seq(Items) /\ Len(rest) = a /\ Len(new) = w
      BY <1>4, <1>6, <2>1
    <3>2. /\ rest \o new \in Seq(Items) /\ Len(rest \o new) = Len(rest) + Len(new)
          /\ \A m \in 1 .. Len(rest) + Len(new) :
               (rest \o new)[m] = IF m <= Len(rest) THEN rest[m] ELSE new[m - Len(rest)]
      BY <3>1, ConcatProperties, ZenonT(40)
    <3>3. QED BY <3>1, <3>2, Zenon
  <2>3. \A m \in 1 .. a : (rest \o new)[m] = rest[m]
    BY <1>1, <2>1, <2>2
  <2>4. \A j \in 1 .. w : (rest \o new)[a + j] = new[j]
    <3> TAKE j \in 1 .. w
    <3> DEFINE m == a + j
    <3>1. m \in 1 .. a + w /\ ~(m <= a) /\ m - a = j
      BY <1>1, <2>1
    <3> HIDE DEF m
    <3>2. (rest \o new)[m] = new[m - a]
      BY <2>2, <3>1
    <3>3. QED BY <3>1, <3>2 DEF m
  <2>5. QED BY <2>2, <2>3, <2>4 DEF a
<1>8. Moved(all, expected', c, k, c)
  <2>1. \A m \in c + 1 .. k : m - c \in 1 .. k - c /\ (m - c) + c = m
    BY <1>1
  <2>2. QED BY <1>5, <1>6, <1>7, <2>1 DEF Moved
<1>9. QED BY <1>4, <1>5, <1>7, <1>8 DEF c, w, k

\* What becomes of the request.
SlicerGoes(req, aReady, raised) ==
  \/ /\ req # NoRequest /\ req \in Requests /\ ~aReady /\ ~raised
     /\ state = "s_idle" /\ state' = "s_slice"
     /\ vaddr' = req.addr /\ leftLen' = req.len /\ id' = req.id
  \/ /\ req = NoRequest /\ ~aReady /\ ~raised
     /\ UNCHANGED <<vaddr, leftLen, id>> /\ (state \in Cutting <=> state' \in Cutting)
  \/ /\ req = NoRequest /\ aReady /\ ~raised /\ state = "s_dma_req" /\ id' = id
     /\ state' = IF more THEN "s_slice" ELSE "s_idle"
     /\ leftLen' = Ctrl!next_leftLen(vaddr, leftLen, more)
     /\ vaddr' = Ctrl!next_vaddr(vaddr)
  \/ /\ req = NoRequest /\ ~aReady /\ raised /\ state = "s_exp" /\ state' = "s_idle"
     /\ UNCHANGED <<vaddr, leftLen, id>>

\* The slicer does one of the four.
LEMMA SlicerCases ==
  ASSUME Slicer, NEW req, NEW tlbReqFire, NEW tlbRespFire, NEW miss, NEW aReady \in BOOLEAN,
         NEW next, NEW other, Env(req, tlbRespFire, miss, aReady, next, other),
         SlicerMoves(req, tlbReqFire, tlbRespFire, miss, aReady),
         a_fire(aReady) <=> aReady, aReady => state = "s_dma_req",
         NEW raised, raised = (state = "s_exp" /\ Len(packetInfoQue) < nReqInflight)
  PROVE  SlicerGoes(req, aReady, raised)
<1> USE DEF SlicerGoes
<1> USE DEF Ctrl!s_idle, Ctrl!s_slice, Ctrl!s_wait, Ctrl!s_tlb_req, Ctrl!s_tlb_resp,
            Ctrl!s_dma_req, Ctrl!s_exp
<1>1. CASE req # NoRequest
  <2>1. req \in Requests
    BY <1>1 DEF Env
  <2>2. Ctrl!Accept(req)
    BY <1>1 DEF SlicerMoves
  <2>3. QED BY <1>1, <2>1, <2>2 DEF Ctrl!Accept
<1>2. CASE req = NoRequest
  <2>1. Ctrl!Serve(tlbReqFire, tlbRespFire, miss, a_fire(aReady))
    BY <1>2 DEF SlicerMoves
  <2>2. CASE state = "s_idle" /\ UNCHANGED Ctrl!slicer
    BY <1>2, <2>2 DEF Ctrl!slicer, Cutting
  <2>3. CASE Ctrl!Slice \/ Ctrl!Wait \/ Ctrl!TlbReq(tlbReqFire) \/ Ctrl!TlbResp(tlbRespFire, miss)
    <3>1. /\ state \in {"s_slice", "s_wait", "s_tlb_req", "s_tlb_resp"}
          /\ state' \in Cutting /\ UNCHANGED <<vaddr, leftLen, id>>
      BY <2>3 DEF Ctrl!Slice, Ctrl!Wait, Ctrl!TlbReq, Ctrl!TlbResp, Cutting
    <3>2. QED BY <1>2, <3>1 DEF Cutting
  <2>4. CASE Ctrl!DmaReq(a_fire(aReady))
    <3>1. state = "s_dma_req" /\ id' = id
      BY <2>4 DEF Ctrl!DmaReq
    <3>2. CASE aReady
      <4>1. /\ state' = IF more THEN "s_slice" ELSE "s_idle"
            /\ leftLen' = Ctrl!next_leftLen(vaddr, leftLen, more)
            /\ vaddr' = Ctrl!next_vaddr(vaddr)
        BY <2>4, <3>2 DEF Ctrl!DmaReq
      <4>2. QED BY <1>2, <3>1, <3>2, <4>1
    <3>3. CASE ~aReady
      <4>1. UNCHANGED <<state, vaddr, leftLen>>
        BY <2>4, <3>3 DEF Ctrl!DmaReq
      <4>2. QED BY <1>2, <3>1, <3>3, <4>1
    <3>4. QED BY <3>2, <3>3
  <2>5. CASE Ctrl!Exp
    <3>1. /\ state = "s_exp" /\ UNCHANGED <<vaddr, leftLen, id>>
          /\ state' = IF Len(packetInfoQue) < nReqInflight THEN "s_idle" ELSE "s_exp"
      BY <2>5 DEF Ctrl!Exp, Ctrl!enq_ready
    <3>2. QED BY <1>2, <3>1 DEF Cutting
  <2>6. QED BY <2>1, <2>2, <2>3, <2>4, <2>5 DEF Ctrl!Serve
<1>3. QED BY <1>1, <1>2

\* What becomes of what streams.
StreamGoes(deq, ends, fire, carried) ==
  \/ /\ streamState = "s_stream_idle" /\ deq /\ packetInfoQue # <<>>
     /\ ~ends /\ ~fire /\ ~carried
     /\ streamState' = IF Head(packetInfoQue).exception THEN "s_stream_exp"
                                                        ELSE "s_stream_data"
     /\ min_pos' = Head(packetInfoQue).min_pos /\ max_pos' = Head(packetInfoQue).max_pos
     /\ cache_id' = Head(packetInfoQue).id /\ addr' = 0
  \/ /\ streamState = "s_stream_idle" /\ ~deq /\ ~ends /\ ~fire /\ ~carried
     /\ streamState' = "s_stream_idle" /\ UNCHANGED <<min_pos, max_pos, cache_id>>
  \/ /\ streamState = "s_stream_exp" /\ ~deq /\ ~ends /\ ~fire
     /\ streamState' = IF carried THEN "s_stream_idle" ELSE "s_stream_exp"
     /\ UNCHANGED <<min_pos, max_pos, cache_id>>
  \/ /\ streamState = "s_stream_data" /\ ~deq
     /\ (fire => ROB!out_valid(inp)) /\ (ends <=> fire /\ ROB!out_last(inp))
     /\ carried = (fire /\ Wanted(min_pos, max_pos, addr))
     /\ streamState' = IF ends THEN "s_stream_idle" ELSE "s_stream_data"
     /\ addr' = IF fire THEN (addr + dataByte) % B ELSE addr
     /\ UNCHANGED <<min_pos, max_pos, cache_id>>

Streaming(streamReady, o, expAck, deq, fire, carried) ==
  /\ o = Ctrl!out_ready(streamReady)
  /\ Ctrl!StreamStep(out_fire(streamReady), ROB!out_last(inp), expAck)
  /\ deq = (streamState = "s_stream_idle" /\ packetInfoQue # <<>>)
  /\ fire = out_fire(streamReady)
  /\ carried = ((stream_valid /\ streamReady) \/ (Ctrl!exp_req /\ expAck))

\* The stream does one of the four.
LEMMA StreamCases ==
  ASSUME IdInv, streamState \in {"s_stream_idle", "s_stream_data", "s_stream_exp"},
         NEW streamReady, NEW o, NEW expAck, NEW deq, NEW fire, NEW carried,
         Streaming(streamReady, o, expAck, deq, fire, carried)
  PROVE  StreamGoes(deq, Ends(o), fire, carried)
<1>0. /\ o = Ctrl!out_ready(streamReady)
      /\ Ctrl!StreamStep(out_fire(streamReady), ROB!out_last(inp), expAck)
      /\ deq = (streamState = "s_stream_idle" /\ packetInfoQue # <<>>)
      /\ fire = out_fire(streamReady)
      /\ carried = ((stream_valid /\ streamReady) \/ (Ctrl!exp_req /\ expAck))
  BY DEF Streaming
<1> USE <1>0
<1> USE DEF StreamGoes, Wanted
<1> USE DEF Ctrl!s_stream_idle, Ctrl!s_stream_data, Ctrl!s_stream_exp
<1>1. /\ Ends(o) => streamState = "s_stream_data"
      /\ streamState = "s_stream_data" =>
           (Ends(o) <=> out_fire(streamReady) /\ ROB!out_last(inp))
  BY StreamEnds
<1>2. /\ fire <=> /\ ROB!out_valid(inp) /\ streamState = "s_stream_data"
                  /\ streamReady \/ addr < min_pos \/ addr >= max_pos
      /\ fire \in BOOLEAN
  BY DEF out_fire, Ctrl!out_ready, Ctrl!isDataInvalid
<1>3. /\ carried \in BOOLEAN
      /\ carried <=> \/ /\ streamState = "s_stream_data" /\ ROB!out_valid(inp)
                        /\ ~(addr < min_pos \/ addr >= max_pos) /\ streamReady
                     \/ streamState = "s_stream_exp" /\ expAck
  BY DEF stream_valid, Ctrl!stream_valid, Ctrl!isDataInvalid, Ctrl!exp_req
<1>4. /\ deq => /\ streamState' = IF Head(packetInfoQue).exception THEN "s_stream_exp"
                                                               ELSE "s_stream_data"
                /\ min_pos' = Head(packetInfoQue).min_pos
                /\ max_pos' = Head(packetInfoQue).max_pos
                /\ cache_id' = Head(packetInfoQue).id
      /\ ~deq => /\ streamState' = IF \/ streamState = "s_stream_data" /\ fire /\ ROB!out_last(inp)
                                      \/ streamState = "s_stream_exp" /\ expAck
                                   THEN "s_stream_idle" ELSE streamState
                 /\ UNCHANGED <<min_pos, max_pos, cache_id>>
      /\ addr' = IF streamState = "s_stream_idle" THEN 0
                 ELSE IF fire THEN (addr + dataByte) % B ELSE addr
  BY DEF Ctrl!StreamStep, Ctrl!deq_valid, B
<1>5. deq <=> streamState = "s_stream_idle" /\ packetInfoQue # <<>>
  OBVIOUS
<1>6. CASE streamState = "s_stream_idle"
  <2>1. ~Ends(o) /\ ~fire /\ ~carried /\ addr' = 0
    BY <1>1, <1>2, <1>3, <1>4, <1>6
  <2>2. ~deq => streamState' = "s_stream_idle"
    BY <1>4, <1>6
  <2>3. QED BY <1>4, <1>5, <1>6, <2>1, <2>2
<1>7. CASE streamState = "s_stream_exp"
  <2>1. ~Ends(o) /\ ~fire /\ ~deq /\ (carried <=> expAck)
    BY <1>1, <1>2, <1>3, <1>5, <1>7
  <2>2. streamState' = IF carried THEN "s_stream_idle" ELSE "s_stream_exp"
    BY <1>4, <1>7, <2>1
  <2>3. QED BY <1>4, <1>7, <2>1, <2>2
<1>8. CASE streamState = "s_stream_data"
  <2>1. ~deq /\ (fire => ROB!out_valid(inp)) /\ (Ends(o) <=> fire /\ ROB!out_last(inp))
    BY <1>1, <1>2, <1>5, <1>8
  <2>2. carried <=> fire /\ ~(addr < min_pos \/ addr >= max_pos)
    BY <1>2, <1>3, <1>8, Zenon
  <2>3. carried = (fire /\ ~(addr < min_pos \/ addr >= max_pos))
    BY <1>3, <2>2
  <2>4. streamState' = IF Ends(o) THEN "s_stream_idle" ELSE "s_stream_data"
    BY <1>4, <1>8, <2>1
  <2>5. addr' = IF fire THEN (addr + dataByte) % B ELSE addr
    BY <1>4, <1>8
  <2>6. QED BY <1>4, <1>8, <2>1, <2>3, <2>4, <2>5
<1>9. QED BY <1>6, <1>7, <1>8

\* What streams keeps its places when earlier ones are gone.
LEMMA FrontMove ==
  ASSUME NEW what, NEW min, NEW max, NEW who, NEW at, NEW q, NEW q2, NEW passed \in Nat,
         NEW exp, NEW exp2, NEW v \in Nat, NEW w \in Nat, NEW r \in Nat, NEW s \in Nat,
         Front(what, min, max, who, at, q, passed, exp, v, w, r, s),
         NEW c \in Nat, NEW t \in Nat,
         Moved(exp, exp2, v, w, c), s = r + 1 => q2[s - t] = q[s]
  PROVE  Front(what, min, max, who, at, q2, passed, exp2, v - c, w - c, r - t, s - t)
<1>1. v - c <= w - c /\ r - t <= s - t /\ (s = r => s - t = r - t) /\ (w = v => w - c = v - c)
      /\ (s = r + 1 => s - t = (r - t) + 1) /\ (w = v + 1 => w - c = (v - c) + 1)
  BY DEF Front
<1>2. what = "s_stream_data" =>
        s = r + 1 /\ at = passed * dataByte
        /\ Carries(exp2, min, max, who, q2[s - t], passed, v - c, w - c)
  <2>1. SUFFICES ASSUME what = "s_stream_data"
                 PROVE  s = r + 1 /\ at = passed * dataByte
                        /\ Carries(exp2, min, max, who, q2[s - t], passed, v - c, w - c)
    OBVIOUS
  <2>2. s = r + 1 /\ at = passed * dataByte /\ Carries(exp, min, max, who, q[s], passed, v, w)
    BY <2>1 DEF Front
  <2>3. Carries(exp2, min, max, who, q[s], passed, v - c, w - c)
    BY <2>2, CarriesMove
  <2>4. QED BY <2>2, <2>3
<1>3. what = "s_stream_exp" => w = v + 1 /\ exp2[w - c] = <<who, Raised>>
  <2>1. SUFFICES ASSUME what = "s_stream_exp" PROVE w = v + 1 /\ exp2[w - c] = <<who, Raised>>
    OBVIOUS
  <2>2. w = v + 1 /\ exp[w] = <<who, Raised>>
    BY <2>1 DEF Front
  <2>3. w \in v + 1 .. w
    BY <2>2
  <2>4. QED BY <2>2, <2>3 DEF Moved
<1>4. /\ what # "s_stream_data" => s = r /\ passed = 0
      /\ what = "s_stream_idle" => w = v
  BY DEF Front
<1>5. QED BY <1>1, <1>2, <1>3, <1>4 DEF Front

\* Part of what moves moves; what stays has moved by nothing.
LEMMA MovedPart ==
  ASSUME NEW s, NEW t, NEW v \in Nat, NEW w \in Nat, NEW c \in Nat, Moved(s, t, v, w, c),
         NEW v2 \in Nat, NEW w2 \in Nat, v <= v2, w2 <= w
  PROVE  Moved(s, t, v2, w2, c)
<1>1. \A m \in v2 + 1 .. w2 : m \in v + 1 .. w
  OBVIOUS
<1>2. QED BY <1>1 DEF Moved

LEMMA MovedSame ==
  ASSUME NEW s, NEW v \in Nat, NEW w \in Nat
  PROVE  Moved(s, s, v, w, 0)
<1>1. \A m \in v + 1 .. w : m - 0 = m
  OBVIOUS
<1>2. QED BY <1>1 DEF Moved

\* The places are numbers, in order.
InLine(infos, q, exp, word, slot, d) ==
  /\ word[0] \in Nat /\ word[d] \in Nat /\ word[Len(infos)] \in Nat
  /\ slot[0] \in Nat /\ slot[d] \in Nat /\ slot[Len(infos)] = Len(q)
  /\ word[0] <= word[d] /\ word[d] <= word[Len(infos)]
  /\ word[Len(infos)] <= Len(exp)
  /\ slot[0] <= slot[d] /\ slot[d] <= slot[Len(infos)]

LEMMA LinedTypes ==
  ASSUME NEW infos, NEW q, NEW exp, NEW word, NEW slot, Lined(infos, q, exp, word, slot),
         NEW d, d \in 0 .. Len(infos)
  PROVE  InLine(infos, q, exp, word, slot, d)
<1> DEFINE k == Len(infos)
<1>1. /\ word \in [0 .. k -> Nat] /\ slot \in [0 .. k -> Nat]
      /\ \A m, n \in 0 .. k : m <= n => word[m] <= word[n] /\ slot[m] <= slot[n]
      /\ slot[k] = Len(q) /\ word[k] <= Len(exp)
  BY DEF Lined
<1>2. 0 \in 0 .. k /\ k \in 0 .. k /\ d \in 0 .. k /\ 0 <= d /\ d <= k
  OBVIOUS
<1>3. QED BY <1>1, <1>2 DEF InLine

\* Entries stay in line when what they are in line with is written anew.
LEMMA LinedSame ==
  ASSUME NEW infos, NEW infos2, NEW q, NEW q2, NEW exp, NEW word, NEW slot,
         Lined(infos, q, exp, word, slot), Len(exp) \in Nat,
         Len(infos) \in Nat, Len(infos2) = Len(infos), Moved(infos, infos2, 0, Len(infos), 0),
         Len(q) \in Nat, Len(q2) = Len(q), Moved(q, q2, 0, Len(q), 0)
  PROVE  \E word2, slot2 :
           /\ Lined(infos2, q2, exp, word2, slot2)
           /\ word2[0] = word[0] /\ word2[Len(infos)] = word[Len(infos)] /\ slot2[0] = slot[0]
<1> DEFINE k == Len(infos)
<1>1. /\ word[0] \in Nat /\ word[k] \in Nat /\ slot[0] \in Nat /\ slot[k] = Len(q)
      /\ word[0] <= word[k] /\ word[k] <= Len(exp) /\ slot[0] <= slot[k]
  <2>1. /\ word \in [0 .. k -> Nat] /\ slot \in [0 .. k -> Nat]
        /\ \A m, n \in 0 .. k : m <= n => word[m] <= word[n] /\ slot[m] <= slot[n]
        /\ slot[k] = Len(q) /\ word[k] <= Len(exp)
    BY DEF Lined
  <2>2. 0 \in 0 .. k /\ k \in 0 .. k /\ 0 <= k
    OBVIOUS
  <2>3. QED BY <2>1, <2>2
<1>2. Moved(q, q2, slot[0], Len(q), 0)
  BY <1>1, MovedPart
<1>3. Moved(exp, exp, word[0], word[k], 0)
  BY <1>1, MovedSame
<1>4. /\ 0 \in 0 .. 1 /\ 0 \in Nat /\ k = k + 0 /\ 0 <= word[0] /\ 0 <= slot[0]
      /\ Len(q2) = Len(q) - 0 /\ word[k] - 0 <= Len(exp)
  BY <1>1
<1>5. Movable(infos, infos2, q, q2, exp, exp, word, slot, 0, 0, 0, k, k)
  BY <1>2, <1>3, <1>4 DEF Movable
<1>6. PICK word2, slot2 :
        /\ Lined(infos2, q2, exp, word2, slot2)
        /\ word2[0] = word[0] - 0 /\ word2[k] = word[k] - 0 /\ slot2[0] = slot[0] - 0
  BY <1>5, LinedMove, SMT
<1>7. word2[0] = word[0] /\ word2[k] = word[k] /\ slot2[0] = slot[0]
  BY <1>1, <1>6
<1>8. QED BY <1>6, <1>7

\* A packet that goes to the bus, or an exception, joins packetInfoQue.
Joining(req, tlbReqFire, tlbRespFire, miss, aReady, next, other, raised,
        q, qm, word, slot, k, enq, infos, m) ==
  /\ Env(req, tlbRespFire, miss, aReady, next, other)
  /\ SlicerMoves(req, tlbReqFire, tlbRespFire, miss, aReady)
  /\ aReady \in BOOLEAN /\ (a_fire(aReady) <=> aReady) /\ (aReady => state = "s_dma_req")
  /\ raised = (state = "s_exp" /\ Len(packetInfoQue) < nReqInflight)
  /\ Grown(q, qm, aReady, NewSent) /\ Len(q) \in Nat
  /\ Lined(packetInfoQue, q, expected, word, slot)
  /\ k \in Nat /\ k = Len(packetInfoQue) /\ Rest(state, vaddr, leftLen, id, expected, word[k])
  /\ enq = (aReady \/ raised) /\ m = Len(infos) /\ m = k + Bit(enq)
  /\ Moved(packetInfoQue, infos, 0, k, 0) /\ (enq => infos[k + 1] = Ctrl!PacketInfo)

LEMMA JoinStep ==
  ASSUME Slicer, IdTypes, id \in ReqIds, expected \in Seq(Items),
         NEW req, NEW tlbReqFire, NEW tlbRespFire, NEW miss, NEW aReady, NEW next, NEW other,
         NEW raised, NEW q, NEW qm, NEW word, NEW slot, NEW k, NEW enq, NEW infos, NEW m,
         Joining(req, tlbReqFire, tlbRespFire, miss, aReady, next, other, raised,
                 q, qm, word, slot, k, enq, infos, m)
  PROVE  /\ ItemsMore(raised) \in Seq(Items) /\ Moved(expected, ItemsMore(raised), 0, word[k], 0)
         /\ \E word2, slot2 :
              /\ Lined(infos, qm, ItemsMore(raised), word2, slot2)
              /\ word2[0] = word[0] /\ slot2[0] = slot[0]
              /\ IF req = NoRequest
                 THEN Rest(state', vaddr', leftLen', id', ItemsMore(raised), word2[m])
                 ELSE Len(ItemsMore(raised)) = word2[m]
<1>a. /\ Env(req, tlbRespFire, miss, aReady, next, other)
      /\ SlicerMoves(req, tlbReqFire, tlbRespFire, miss, aReady)
      /\ aReady \in BOOLEAN /\ (a_fire(aReady) <=> aReady) /\ (aReady => state = "s_dma_req")
      /\ raised = (state = "s_exp" /\ Len(packetInfoQue) < nReqInflight)
      /\ Grown(q, qm, aReady, NewSent) /\ Len(q) \in Nat
      /\ Lined(packetInfoQue, q, expected, word, slot)
      /\ k \in Nat /\ k = Len(packetInfoQue) /\ Rest(state, vaddr, leftLen, id, expected, word[k])
      /\ enq = (aReady \/ raised) /\ m = Len(infos) /\ m = k + Bit(enq)
      /\ Moved(packetInfoQue, infos, 0, k, 0) /\ (enq => infos[k + 1] = Ctrl!PacketInfo)
  BY DEF Joining
<1> USE <1>a
<1> DEFINE all == ItemsMore(raised)
<1>0. SlicerGoes(req, aReady, raised)
  BY SlicerCases
<1>1. /\ word[0] \in Nat /\ word[k] \in Nat /\ slot[0] \in Nat /\ slot[k] = Len(q)
      /\ word[0] <= word[k] /\ word[k] <= Len(expected) /\ slot[0] <= slot[k]
  <2>1. 0 \in 0 .. Len(packetInfoQue)
    OBVIOUS
  <2>2. /\ word[0] \in Nat /\ word[Len(packetInfoQue)] \in Nat
        /\ slot[0] \in Nat /\ slot[Len(packetInfoQue)] = Len(q)
        /\ word[0] <= word[Len(packetInfoQue)] /\ word[Len(packetInfoQue)] <= Len(expected)
        /\ slot[0] <= slot[Len(packetInfoQue)]
    <3>1. InLine(packetInfoQue, q, expected, word, slot, 0)
      BY <2>1, LinedTypes
    <3>2. QED BY <3>1 DEF InLine
  <2>3. QED BY <2>2
<1>2. Len(expected) \in Nat /\ raised \in BOOLEAN /\ enq \in BOOLEAN
  OBVIOUS
<1>3. Moved(q, qm, 0, Len(q), 0) /\ Len(qm) = Len(q) + Bit(aReady)
      /\ (aReady => qm[Len(q) + 1] = NewSent)
  BY GrownMoves DEF Grown
<1>4. CASE ~aReady /\ ~raised
  <2>1. all = expected /\ m = k /\ Len(qm) = Len(q)
    BY <1>2, <1>3, <1>4 DEF ItemsMore, Bit
  <2>2. Moved(expected, all, 0, word[k], 0)
    BY <1>1, <2>1, MovedSame
  <2> HIDE DEF all
  <2>3. PICK word2, slot2 :
          /\ Lined(infos, qm, expected, word2, slot2)
          /\ word2[0] = word[0]
          /\ word2[Len(packetInfoQue)] = word[Len(packetInfoQue)] /\ slot2[0] = slot[0]
    <3>1. /\ Len(packetInfoQue) \in Nat /\ Len(infos) = Len(packetInfoQue)
          /\ Moved(packetInfoQue, infos, 0, Len(packetInfoQue), 0)
      BY <2>1
    <3>2. QED BY <1>2, <1>3, <2>1, <3>1, LinedSame
  <2>4. word2[m] = word[k]
    BY <2>1, <2>3
  <2>5. CASE req # NoRequest
    <3>1. state = "s_idle"
      BY <1>4, <2>5, <1>0 DEF SlicerGoes
    <3>2. Len(all) = word[k]
      BY <2>1, <3>1 DEF Rest, Cutting
    <3>3. QED BY <2>1, <2>2, <2>3, <2>4, <2>5, <3>2 DEF all
  <2>6. CASE req = NoRequest
    <3>1. UNCHANGED <<vaddr, leftLen, id>> /\ (state \in Cutting <=> state' \in Cutting)
      BY <1>4, <2>6, <1>0 DEF SlicerGoes
    <3>2. Rest(state', vaddr', leftLen', id', all, word2[m])
      BY <2>1, <2>4, <3>1 DEF Rest
    <3>3. QED BY <2>1, <2>2, <2>3, <2>4, <2>6, <3>2 DEF all
  <2>7. QED BY <2>5, <2>6
<1>5. CASE aReady
  <2>1. /\ req = NoRequest /\ ~raised /\ state = "s_dma_req" /\ id' = id
        /\ state' = IF more THEN "s_slice" ELSE "s_idle"
        /\ leftLen' = Ctrl!next_leftLen(vaddr, leftLen, more)
        /\ vaddr' = Ctrl!next_vaddr(vaddr)
    BY <1>5, <1>0 DEF SlicerGoes
  <2>2. all = expected /\ k + 1 = m /\ Len(qm) = Len(q) + 1 /\ qm[Len(q) + 1] = NewSent
        /\ Joined(packetInfoQue, infos, k)
    BY <1>2, <1>3, <1>5, <2>1 DEF ItemsMore, Bit, Joined, Longer
  <2>3. Moved(expected, all, 0, word[k], 0)
    BY <1>1, <2>2, MovedSame
  <2> HIDE DEF all
  <2>4. PICK word2, slot2 :
          /\ Lined(infos, qm, expected, word2, slot2)
          /\ word2[0] = word[0] /\ slot2[0] = slot[0]
          /\ Rest(IF more THEN "s_slice" ELSE "s_idle", Ctrl!next_vaddr(vaddr),
                  Ctrl!next_leftLen(vaddr, leftLen, more), id, expected, word2[k + 1])
    BY <1>2, <1>3, <2>1, <2>2, PacketListed
  <2>5. Rest(state', vaddr', leftLen', id', all, word2[m])
    BY <2>1, <2>2, <2>4
  <2>6. QED BY <2>1, <2>2, <2>3, <2>4, <2>5 DEF all
<1>6. CASE ~aReady /\ raised
  <2>1. /\ req = NoRequest /\ state = "s_exp" /\ state' = "s_idle"
        /\ UNCHANGED <<vaddr, leftLen, id>>
    BY <1>6, <1>0 DEF SlicerGoes
  <2>2. k + 1 = m /\ Len(qm) = Len(q) /\ Joined(packetInfoQue, infos, k)
    BY <1>2, <1>3, <1>6 DEF Bit, Joined, Longer
  <2>3. Words(leftLen) \in Nat /\ Len(expected) = word[k] + Words(leftLen)
    <3>1. leftLen \in Nat
      BY DEF Slicer, SlicerTypes
    <3>2. Len(expected) = word[k] + Words(leftLen)
      BY <2>1 DEF Rest, Cutting
    <3>3. QED BY <3>1, <3>2, WordsBelow
  <2>4. /\ all \in Seq(Items)
        /\ Excepts(expected, all)
    <3>1. Words(leftLen) \in 0 .. Len(expected)
      BY <1>1, <2>3
    <3>2. QED BY <1>2, <1>6, <3>1, ItemsGrow DEF Excepts
  <2> HIDE DEF all
  <2>5. Moved(expected, all, 0, word[k], 0)
    BY <1>2, <1>3, <2>1, <2>2, <2>4, ExceptionListed
  <2>6. PICK word2, slot2 :
          /\ Lined(infos, qm, all, word2, slot2)
          /\ word2[0] = word[0] /\ slot2[0] = slot[0]
          /\ Rest("s_idle", vaddr, leftLen, id, all, word2[k + 1])
    BY <1>2, <1>3, <2>1, <2>2, <2>4, ExceptionListed
  <2>7. Rest(state', vaddr', leftLen', id', all, word2[m])
    BY <2>1, <2>2, <2>6
  <2>8. QED BY <2>1, <2>4, <2>5, <2>6, <2>7 DEF all
<1>7. all \in Seq(Items)
  BY <1>2, <1>4, <1>5, <1>6
<1>8. QED BY <1>2, <1>4, <1>5, <1>6

\* The stream takes a word of the packet that is due.
Goes(min, max, who, at, q, p, passed, exp, w, s) ==
  /\ w \in Nat /\ Bit(Wanted(min, max, at)) <= w /\ s = 1
  /\ Wanted(min, max, at) => exp[1] = <<who, WordAt(p, passed)>>
  /\ passed = p.words - 1 =>
       Front("s_stream_idle", min, max, who, 0, q, 0, exp, Bit(Wanted(min, max, at)), w, 1, s)
  /\ passed # p.words - 1 =>
       Front("s_stream_data", min, max, who, (at + dataByte) % B, q, passed + 1, exp,
             Bit(Wanted(min, max, at)), w, 0, s)

\* The word that passes has the first place, if it has one.
LEMMA FrontWord ==
  ASSUME NEW min, NEW max \in Int, NEW who, NEW at, NEW q, NEW p \in Stretches, q[1] = p,
         NEW passed \in 0 .. p.words - 1, NEW exp, NEW w, NEW s,
         Front("s_stream_data", min, max, who, at, q, passed, exp, 0, w, 0, s)
  PROVE  Goes(min, max, who, at, q, p, passed, exp, w, s)
<1> DEFINE valid == Wanted(min, max, at)
<1>1. s = 1 /\ at = passed * dataByte /\ Carries(exp, min, max, who, p, passed, 0, w)
  BY DEF Front
<1>2. /\ w \in Nat /\ Bit(valid) <= w
      /\ valid => exp[1] = <<who, WordAt(p, passed)>>
      /\ Carries(exp, min, max, who, p, passed + 1, Bit(valid), w)
      /\ passed = p.words - 1 => w = Bit(valid)
  <2>1. Carried(exp, min, max, who, p, passed, w, at)
    BY <1>1, CarriesNext
  <2>2. QED BY <2>1 DEF Carried
<1> HIDE DEF valid
<1>3. p.words \in Nat /\ p.words <= MaxWords /\ MaxWords \in Nat /\ passed \in Nat
  BY MaxWordsType DEF Stretches
<1>4. ASSUME passed = p.words - 1
      PROVE  Front("s_stream_idle", min, max, who, 0, q, 0, exp, Bit(valid), w, 1, s)
  <2>1. w = Bit(valid) /\ s = 1 /\ Bit(valid) <= w
    BY <1>1, <1>2, <1>4
  <2>2. QED BY <2>1 DEF Front
<1>5. ASSUME passed # p.words - 1
      PROVE  Front("s_stream_data", min, max, who, (at + dataByte) % B, q, passed + 1, exp,
                   Bit(valid), w, 0, s)
  <2> DEFINE x == (passed + 1) * dataByte
             y == MaxWords * dataByte
             d == dataByte
  <2>1. passed + 1 \in Nat /\ passed + 1 < MaxWords
    BY <1>3, <1>5
  <2>2. d \in Nat \ {0} /\ B \in Nat \ {0} /\ B % d = 0
    BY Constants, SameOperators, Cut!PacketSizesType
  <2>3. x \in Nat /\ y \in Nat /\ x + d <= y
    BY <1>3, <2>1, <2>2, ProductOrder
  <2>4. y = B
    <3>1. B = d * (B \div d) + (B % d)
      BY <2>2, Cut!Division
    <3>2. B = d * MaxWords
      BY <1>3, <2>2, <3>1 DEF MaxWords
    <3>3. QED BY <1>3, <2>2, <3>2
  <2>5. at + d = x
    BY <1>1, <1>3, <2>2
  <2> HIDE DEF x, y, d
  <2>6. x \in Nat /\ x < B
    BY <2>2, <2>3, <2>4
  <2>7. (at + dataByte) % B = x
    <3>1. x % B = x
      BY <2>2, <2>6
    <3>2. QED BY <2>5, <3>1 DEF d
  <2>8. Carries(exp, min, max, who, q[s], passed + 1, Bit(valid), w)
    BY <1>1, <1>2
  <2>9. Bit(valid) <= w /\ 0 <= s /\ s = 0 + 1
    BY <1>1, <1>2
  <2>10. QED BY <2>7, <2>8, <2>9 DEF Front, x
<1>6. QED BY <1>1, <1>2, <1>4, <1>5, Zenon DEF Goes, valid

\* What streams has its places in what is to come, before and after a cycle.
LEMMA StreamTakes ==
  ASSUME IdInv, NEW sent, Delivers(sent), max_pos \in Int,
         NEW deq, NEW ends, NEW fire, NEW carried, StreamGoes(deq, ends, fire, carried),
         NEW infos, NEW q, NEW exp, NEW word, NEW slot, Lined(infos, q, exp, word, slot),
         Len(infos) \in Nat,
         packetInfoQue # <<>> =>
           Len(infos) # 0 /\ infos[1] = Head(packetInfoQue) /\ infos[1] \in Infos,
         ROB!out_valid(inp) => q[1] = sent[ROB!due.id],
         Front(streamState, min_pos, max_pos, cache_id, addr, q, Passed(sent), exp,
               0, word[0], 0, slot[0])
  PROVE  /\ max_pos' \in Int /\ Bit(deq) <= Len(infos)
         /\ Bit(carried) <= word[Bit(deq)] /\ Bit(ends) <= slot[Bit(deq)]
         /\ Front(streamState', min_pos', max_pos', cache_id', addr', q,
                  IF ends THEN 0 ELSE Passed(sent) + Bit(fire), exp,
                  Bit(carried), word[Bit(deq)], Bit(ends), slot[Bit(deq)])
<1> DEFINE now == IF ends THEN 0 ELSE Passed(sent) + Bit(fire)
           e   == infos[1]
<1>1. Passed(sent) \in Nat
  BY PassedType
<1>2. word[0] \in Nat /\ slot[0] \in Nat
  <2>1. 0 \in 0 .. Len(infos)
    OBVIOUS
  <2>2. InLine(infos, q, exp, word, slot, 0)
    BY <2>1, LinedTypes
  <2>3. QED BY <2>2 DEF InLine
<1>3. CASE /\ streamState = "s_stream_idle" /\ deq /\ packetInfoQue # <<>>
           /\ ~ends /\ ~fire /\ ~carried
           /\ streamState' = IF Head(packetInfoQue).exception THEN "s_stream_exp"
                                                              ELSE "s_stream_data"
           /\ min_pos' = Head(packetInfoQue).min_pos /\ max_pos' = Head(packetInfoQue).max_pos
           /\ cache_id' = Head(packetInfoQue).id /\ addr' = 0
  <2>1. /\ Bit(deq) = 1 /\ Bit(ends) = 0 /\ Bit(fire) = 0 /\ Bit(carried) = 0
        /\ 1 \in 1 .. Len(infos) /\ 1 \in 0 .. Len(infos) /\ e \in Infos
        /\ min_pos' = e.min_pos /\ max_pos' = e.max_pos /\ cache_id' = e.id
        /\ streamState' = IF e.exception THEN "s_stream_exp" ELSE "s_stream_data"
    BY <1>3 DEF Bit
  <2>2. word[0] = 0 /\ slot[0] = 0 /\ Passed(sent) = 0
    BY <1>3 DEF Front
  <2>3. word[1] \in Nat /\ slot[1] \in Nat
    <3>1. InLine(infos, q, exp, word, slot, 1)
      BY <2>1, LinedTypes
    <3>2. QED BY <3>1 DEF InLine
  <2>4. Entry(e, q, exp, 0, word[1], 0, slot[1])
    <3>1. Entry(infos[1], q, exp, word[1 - 1], word[1], slot[1 - 1], slot[1])
      BY <2>1 DEF Lined
    <3>2. QED BY <2>2, <3>1
  <2>5. now = 0
    BY <1>3, <2>1, <2>2
  <2>6. max_pos' \in Int /\ e.exception \in BOOLEAN
    BY <2>1 DEF Infos
  <2> HIDE DEF now, e
  <2>7. Front(streamState', min_pos', max_pos', cache_id', addr', q, now, exp,
              0, word[1], 0, slot[1])
    <3>1. CASE e.exception
      <4>1. slot[1] = 0 /\ word[1] = 0 + 1 /\ exp[word[1]] = <<cache_id', Raised>>
        BY <2>1, <2>4, <3>1 DEF Entry
      <4>2. streamState' = "s_stream_exp"
        BY <2>1, <3>1
      <4>3. QED BY <2>3, <2>5, <4>1, <4>2 DEF Front
    <3>2. CASE ~e.exception
      <4>1. slot[1] = 0 + 1
            /\ Carries(exp, min_pos', max_pos', cache_id', q[slot[1]], 0, 0, word[1])
        BY <2>1, <2>4, <3>2 DEF Entry
      <4>2. streamState' = "s_stream_data"
        BY <2>1, <3>2
      <4>3. addr' = 0 * dataByte
        BY <1>3, Constants
      <4>4. QED BY <2>3, <2>5, <4>1, <4>2, <4>3 DEF Front
    <3>3. QED BY <3>1, <3>2
  <2>8. Bit(deq) <= Len(infos) /\ Bit(carried) <= word[Bit(deq)] /\ Bit(ends) <= slot[Bit(deq)]
    BY <2>1, <2>3
  <2>9. QED BY <2>1, <2>6, <2>7, <2>8 DEF now
<1>4. CASE /\ streamState = "s_stream_idle" /\ ~deq /\ ~ends /\ ~fire /\ ~carried
           /\ streamState' = "s_stream_idle" /\ UNCHANGED <<min_pos, max_pos, cache_id>>
  <2>1. Bit(deq) = 0 /\ Bit(ends) = 0 /\ Bit(fire) = 0 /\ Bit(carried) = 0
    BY <1>4 DEF Bit
  <2>2. word[0] = 0 /\ slot[0] = 0 /\ Passed(sent) = 0
    BY <1>4 DEF Front
  <2>3. now = 0
    BY <1>4, <2>1, <2>2
  <2> HIDE DEF now
  <2>4. Front(streamState', min_pos', max_pos', cache_id', addr', q, now, exp,
              0, word[0], 0, slot[0])
    BY <1>4, <2>2, <2>3 DEF Front
  <2>5. QED BY <1>2, <1>4, <2>1, <2>4 DEF now
<1>5. CASE /\ streamState = "s_stream_exp" /\ ~deq /\ ~ends /\ ~fire
           /\ streamState' = IF carried THEN "s_stream_idle" ELSE "s_stream_exp"
           /\ UNCHANGED <<min_pos, max_pos, cache_id>>
  <2>1. Bit(deq) = 0 /\ Bit(ends) = 0 /\ Bit(fire) = 0
    BY <1>5 DEF Bit
  <2>2. word[0] = 0 + 1 /\ slot[0] = 0 /\ Passed(sent) = 0
        /\ exp[word[0]] = <<cache_id', Raised>>
    BY <1>5 DEF Front
  <2>3. now = 0
    BY <1>5, <2>1, <2>2
  <2> HIDE DEF now
  <2>4. Bit(carried) <= word[0]
        /\ Front(streamState', min_pos', max_pos', cache_id', addr', q, now, exp,
                 Bit(carried), word[0], 0, slot[0])
    <3>1. CASE carried
      <4>1. streamState' = "s_stream_idle" /\ Bit(carried) = 1
        BY <1>5, <3>1 DEF Bit
      <4>2. QED BY <2>2, <2>3, <4>1 DEF Front
    <3>2. CASE ~carried
      <4>1. streamState' = "s_stream_exp" /\ Bit(carried) = 0
        BY <1>5, <3>2 DEF Bit
      <4>2. QED BY <2>2, <2>3, <4>1 DEF Front
    <3>3. QED BY <3>1, <3>2
  <2>5. QED BY <1>2, <1>5, <2>1, <2>4 DEF now
<1>6. CASE /\ streamState = "s_stream_data" /\ ~deq
           /\ (fire => ROB!out_valid(inp)) /\ (ends <=> fire /\ ROB!out_last(inp))
           /\ carried = (fire /\ Wanted(min_pos, max_pos, addr))
           /\ streamState' = IF ends THEN "s_stream_idle" ELSE "s_stream_data"
           /\ addr' = IF fire THEN (addr + dataByte) % B ELSE addr
           /\ UNCHANGED <<min_pos, max_pos, cache_id>>
  <2>1. Bit(deq) = 0
    BY <1>6 DEF Bit
  <2>2. CASE ~fire
    <3>1. ~ends /\ ~carried /\ Bit(ends) = 0 /\ Bit(fire) = 0 /\ Bit(carried) = 0
      BY <1>6, <2>2 DEF Bit
    <3>2. now = Passed(sent) /\ streamState' = streamState /\ addr' = addr
      BY <1>1, <1>6, <2>2, <3>1
    <3>3. QED BY <1>2, <1>6, <2>1, <3>1, <3>2
  <2>3. CASE fire
    <3> DEFINE p == sent[ROB!due.id]
               n == Passed(sent)
               w == word[0]
               s == slot[0]
               v == Wanted(min_pos, max_pos, addr)
    <3>1. p \in Stretches /\ n \in 0 .. p.words - 1 /\ q[1] = p
          /\ (ROB!out_last(inp) <=> n = p.words - 1)
      BY <1>6, <2>3, OutWord
    <3>2. Front("s_stream_data", min_pos, max_pos, cache_id, addr, q, n, exp, 0, w, 0, s)
      BY <1>6
    <3>3. Bit(fire) = 1 /\ Bit(carried) = Bit(v) /\ (ends <=> n = p.words - 1)
          /\ addr' = (addr + dataByte) % B
      BY <1>6, <2>3, <3>1 DEF Bit
    <3> HIDE DEF p, n, w, s, v
    <3>4. /\ w \in Nat /\ Bit(v) <= w /\ s = 1
          /\ n = p.words - 1 =>
               Front("s_stream_idle", min_pos, max_pos, cache_id, 0, q, 0, exp, Bit(v), w, 1, s)
          /\ n # p.words - 1 =>
               Front("s_stream_data", min_pos, max_pos, cache_id, (addr + dataByte) % B, q, n + 1,
                     exp, Bit(v), w, 0, s)
      <4>1. Goes(min_pos, max_pos, cache_id, addr, q, p, n, exp, w, s)
        BY <3>1, <3>2, FrontWord
      <4>2. QED BY <4>1 DEF Goes, v
    <3>5. CASE ends
      <4>1. Bit(ends) = 1 /\ now = 0 /\ streamState' = "s_stream_idle"
        BY <1>6, <3>5 DEF Bit
      <4>2. Front("s_stream_idle", min_pos, max_pos, cache_id, 0, q, 0, exp, Bit(v), w, 1, s)
        BY <3>3, <3>4, <3>5
      <4>3. Front("s_stream_idle", min_pos, max_pos, cache_id, addr', q, 0, exp, Bit(v), w, 1, s)
        BY <4>2 DEF Front
      <4> HIDE DEF now
      <4>4. QED BY <1>6, <2>1, <3>3, <3>4, <4>1, <4>3 DEF now, w, s
    <3>6. CASE ~ends
      <4>1. Bit(ends) = 0 /\ now = n + 1 /\ streamState' = "s_stream_data"
        BY <1>6, <3>3, <3>6 DEF Bit, n
      <4>2. Front("s_stream_data", min_pos, max_pos, cache_id, addr', q, n + 1, exp, Bit(v), w, 0, s)
        BY <3>3, <3>4, <3>6
      <4> HIDE DEF now
      <4>3. QED BY <1>6, <2>1, <3>3, <3>4, <4>1, <4>2 DEF now, w, s
    <3>7. QED BY <3>5, <3>6
  <2>4. QED BY <2>2, <2>3
<1>7. QED BY <1>3, <1>4, <1>5, <1>6 DEF StreamGoes

---------------------------------------------------------------------------
(* A cycle keeps the order.                                                *)
Ordered(sent, word, slot) ==
  /\ Lined(packetInfoQue, SentQue(sent), expected, word, slot)
  /\ Front(streamState, min_pos, max_pos, cache_id, addr, SentQue(sent), Passed(sent), expected,
           0, word[0], 0, slot[0])
  /\ Rest(state, vaddr, leftLen, id, expected, word[Len(packetInfoQue)])

OrderInv ==
  /\ expected \in Seq(Items) /\ max_pos \in Int
  /\ \E sent : Delivers(sent) /\ \E word, slot : Ordered(sent, word, slot)

\* In between: the entry has joined, the stream has not moved.
Between(req, sent, infos, q, exp, word, slot) ==
  /\ Lined(infos, q, exp, word, slot)
  /\ Front(streamState, min_pos, max_pos, cache_id, addr, q, Passed(sent), exp,
           0, word[0], 0, slot[0])
  /\ IF req = NoRequest THEN Rest(state', vaddr', leftLen', id', exp, word[Len(infos)])
                        ELSE Len(exp) = word[Len(infos)]

\* The first half of a cycle.
LEMMA BetweenStep ==
  ASSUME IdInv, RoomInv, NEW req, NEW tlbReqFire, NEW tlbRespFire, NEW miss, NEW aReady,
         NEW next, NEW other, NEW streamReady, NEW expAck,
         Env(req, tlbRespFire, miss, aReady, next, other),
         Cycle(req, tlbReqFire, tlbRespFire, miss, aReady, next, other, streamReady, expAck),
         expected \in Seq(Items), NEW sent, Delivers(sent), NEW word, NEW slot,
         Ordered(sent, word, slot),
         NEW raised, raised = (state = "s_exp" /\ Len(packetInfoQue) < nReqInflight),
         NEW deq, deq = (streamState = "s_stream_idle" /\ packetInfoQue # <<>>),
         NEW infos, infos = InfosMore(aReady \/ raised)
  PROVE  /\ Len(infos) \in Nat /\ infos \in Seq(Infos) /\ ItemsMore(raised) \in Seq(Items)
         /\ packetInfoQue # <<>> => Len(infos) # 0 /\ infos[1] = Head(packetInfoQue)
         /\ Len(packetInfoQue') = Len(infos) - Bit(deq)
         /\ Moved(infos, packetInfoQue', Bit(deq), Len(infos), Bit(deq))
         /\ \E word2, slot2 :
              Between(req, sent, infos, SentMore(sent, aReady), ItemsMore(raised), word2, slot2)
<1> DEFINE o   == Ctrl!out_ready(streamReady)
           hit == tlbRespFire /\ ~miss
           k   == Len(packetInfoQue)
           m   == Len(infos)
           enq == aReady \/ raised
           q   == SentQue(sent)
           qm  == SentMore(sent, aReady)
           all == ItemsMore(raised)
<1>1. Step(streamReady, o, hit, aReady, next, other)
  BY CycleIsStep
<1>2. /\ aReady \in BOOLEAN /\ (a_fire(aReady) <=> aReady) /\ a_fire(aReady) \in BOOLEAN
      /\ aReady => Pending /\ state = "s_dma_req"
      /\ raised \in BOOLEAN /\ enq \in BOOLEAN
  BY <1>1 DEF Step, a_fire
<1>3. Pending => k < nReqInflight
  BY DEF RoomInv
<1>4. enq = ((a_fire(aReady) \/ state = "s_exp") /\ k < nReqInflight)
  BY <1>2, <1>3
<1>5. Slicer /\ IdTypes /\ id \in ReqIds /\ packetInfoQue \in Seq(Infos)
  BY DEF IdInv, RoomInv
<1>6. Ctrl!InfoQue(a_fire(aReady)) /\ SlicerMoves(req, tlbReqFire, tlbRespFire, miss, aReady)
  BY Zenon DEF Cycle, SlicerMoves
<1>7. /\ k \in Nat /\ infos \in Seq(Infos) /\ m = k + Bit(enq)
      /\ Moved(packetInfoQue, infos, 0, k, 0)
      /\ enq => infos[k + 1] = Ctrl!PacketInfo
      /\ Len(packetInfoQue') = m - Bit(deq)
      /\ Moved(infos, packetInfoQue', Bit(deq), m, Bit(deq))
  <2> HIDE DEF k, m, enq
  <2>1. k = Len(packetInfoQue) /\ m = Len(infos) /\ infos = InfosMore(enq)
    BY DEF k, m, enq
  <2>2. Listing(a_fire(aReady), deq, enq, k, m)
    BY <1>2, <1>4, <1>6, <2>1 DEF Listing
  <2>3. QED BY <1>5, <2>1, <2>2, InfosMoved
<1>8. k # 0 => m # 0 /\ infos[1] = Head(packetInfoQue)
  <2>1. SUFFICES ASSUME k # 0 PROVE m # 0 /\ infos[1] = packetInfoQue[1]
    BY <1>5
  <2>2. 1 \in 0 + 1 .. k /\ Bit(enq) \in 0 .. 1
    BY <1>7, <2>1 DEF Bit
  <2>3. infos[1 - 0] = packetInfoQue[1]
    BY <1>7, <2>2 DEF Moved
  <2> HIDE DEF k, m, enq
  <2>4. QED BY <1>7, <2>1, <2>2, <2>3
<1>9. Len(q) \in Nat /\ Grown(q, qm, aReady, NewSent)
  <2>1. SentNext(sent, aReady) = SentNext(sent, aReady)
    OBVIOUS
  <2>2. NSent \in Nat /\ Len(q) = NSent /\ Grown(q, qm, aReady, NewSent)
    BY <1>1, <2>1, SentQueStep
  <2>3. QED BY <2>2
<1>10. /\ Lined(packetInfoQue, q, expected, word, slot)
       /\ Front(streamState, min_pos, max_pos, cache_id, addr, q, Passed(sent), expected,
                0, word[0], 0, slot[0])
       /\ Rest(state, vaddr, leftLen, id, expected, word[k])
  BY DEF Ordered
<1>11. k = Len(packetInfoQue) /\ m = Len(infos) /\ enq = (aReady \/ raised)
  OBVIOUS
<1>12. m \in Nat
  BY <1>7
<1> HIDE DEF o, hit, k, m, enq, q, qm, all
<1>13. /\ ItemsMore(raised) \in Seq(Items) /\ Moved(expected, ItemsMore(raised), 0, word[k], 0)
       /\ \E word2, slot2 :
            /\ Lined(infos, qm, ItemsMore(raised), word2, slot2)
            /\ word2[0] = word[0] /\ slot2[0] = slot[0]
            /\ IF req = NoRequest
               THEN Rest(state', vaddr', leftLen', id', ItemsMore(raised), word2[m])
               ELSE Len(ItemsMore(raised)) = word2[m]
  <2>1. Joining(req, tlbReqFire, tlbRespFire, miss, aReady, next, other, raised,
                q, qm, word, slot, k, enq, infos, m)
    BY <1>2, <1>6, <1>7, <1>9, <1>10, <1>11 DEF Joining
  <2>2. QED BY <1>5, <2>1, JoinStep
<1>14. PICK word2, slot2 :
         /\ Lined(infos, qm, all, word2, slot2)
         /\ word2[0] = word[0] /\ slot2[0] = slot[0]
         /\ IF req = NoRequest THEN Rest(state', vaddr', leftLen', id', all, word2[m])
                               ELSE Len(all) = word2[m]
  BY <1>13 DEF all
<1>15. /\ word[0] \in Nat /\ word[k] \in Nat /\ word[0] <= word[k]
       /\ slot[0] \in Nat /\ slot[0] <= Len(q)
  <2>1. 0 \in 0 .. Len(packetInfoQue)
    BY <1>7, <1>11
  <2>2. /\ word[0] \in Nat /\ word[Len(packetInfoQue)] \in Nat
        /\ slot[0] \in Nat /\ slot[Len(packetInfoQue)] = Len(q)
        /\ word[0] <= word[Len(packetInfoQue)]
        /\ slot[0] <= slot[Len(packetInfoQue)]
    <3>1. InLine(packetInfoQue, q, expected, word, slot, 0)
      BY <1>10, <2>1, LinedTypes
    <3>2. QED BY <3>1 DEF InLine
  <2>3. QED BY <1>11, <2>2
<1>16. Front(streamState, min_pos, max_pos, cache_id, addr, qm, Passed(sent), all,
             0, word[0], 0, slot[0])
  <2>1. Moved(expected, all, 0, word[0], 0)
    BY <1>13, <1>15, MovedPart DEF all
  <2>2. slot[0] = 0 + 1 => qm[slot[0] - 0] = q[slot[0]]
    BY <1>9, <1>15 DEF Grown
  <2>3. Passed(sent) \in Nat
    BY PassedType
  <2>4. Front(streamState, min_pos, max_pos, cache_id, addr, qm, Passed(sent), all,
              0 - 0, word[0] - 0, 0 - 0, slot[0] - 0)
    BY <1>10, <1>15, <2>1, <2>2, <2>3, FrontMove
  <2>5. 0 - 0 = 0 /\ word[0] - 0 = word[0] /\ slot[0] - 0 = slot[0]
    BY <1>15
  <2>6. QED BY <2>4, <2>5
<1>17. Between(req, sent, infos, qm, all, word2, slot2)
  BY <1>11, <1>14, <1>16 DEF Between
<1>18. packetInfoQue # <<>> => k # 0
  BY <1>5, <1>11
<1>19. QED BY <1>7, <1>8, <1>11, <1>12, <1>13, <1>17, <1>18 DEF all, qm

\* What is left of a request has its places when earlier ones are gone.
LEMMA RestMove ==
  ASSUME NEW fsm, NEW from, NEW bytes \in Nat, NEW who, NEW exp, NEW exp2,
         NEW w \in Nat, NEW c \in Nat, c <= w, Len(exp) \in Nat, w <= Len(exp),
         Rest(fsm, from, bytes, who, exp, w),
         Moved(exp, exp2, c, Len(exp), c), Len(exp2) = Len(exp) - c
  PROVE  Rest(fsm, from, bytes, who, exp2, w - c)
<1>1. CASE fsm \in Cutting
  <2> DEFINE n == Words(bytes)
             x(j) == <<who, from + (j - 1) * dataByte>>
  <2>1. n \in Nat
    BY WordsBelow
  <2>2. Len(exp) = w + n /\ \A j \in 1 .. n : exp[w + j] = x(j)
    BY <1>1 DEF Rest
  <2> HIDE DEF n, x
  <2>3. Len(exp2) = (w - c) + n
    BY <2>1, <2>2
  <2>4. \A j \in 1 .. n : exp2[(w - c) + j] = x(j)
    <3> TAKE j \in 1 .. n
    <3>1. w + j \in c + 1 .. Len(exp) /\ (w + j) - c = (w - c) + j
      BY <2>1, <2>2
    <3>2. exp2[(w + j) - c] = exp[w + j]
      BY <3>1 DEF Moved
    <3>3. QED BY <2>2, <3>1, <3>2
  <2>5. QED BY <1>1, <2>3, <2>4 DEF Rest, n, x
<1>2. CASE fsm \notin Cutting
  <2>1. Len(exp) = w
    BY <1>2 DEF Rest
  <2>2. Len(exp2) = w - c
    BY <2>1
  <2>3. QED BY <1>2, <2>2 DEF Rest
<1>3. QED BY <1>1, <1>2

\* The second half, and with it the cycle.
LEMMA FollowsStep ==
  ASSUME BitsHeld = TRUE, IdInv, RoomInv, Next,
         NEW req, NEW tlbReqFire, NEW tlbRespFire, NEW miss, NEW aReady, NEW next,
         NEW other, NEW streamReady, NEW expAck,
         Env(req, tlbRespFire, miss, aReady, next, other),
         Cycle(req, tlbReqFire, tlbRespFire, miss, aReady, next, other, streamReady, expAck),
         expected \in Seq(Items), max_pos \in Int, NEW sent, Delivers(sent), NEW word, NEW slot,
         Ordered(sent, word, slot)
  PROVE  OrderInv'
<1>0. PICK sent2 : sent2 = SentNext(sent, aReady)
  OBVIOUS
<1> DEFINE o       == Ctrl!out_ready(streamReady)
           hit     == tlbRespFire /\ ~miss
           raised  == state = "s_exp" /\ Len(packetInfoQue) < nReqInflight
           deq     == streamState = "s_stream_idle" /\ packetInfoQue # <<>>
           fire    == out_fire(streamReady)
           carried == (stream_valid /\ streamReady) \/ (Ctrl!exp_req /\ expAck)
           ends    == Ends(o)
           infos   == InfosMore(aReady \/ raised)
           q       == SentMore(sent, aReady)
           all     == ItemsMore(raised)
           k       == Len(infos)
           k2      == Len(packetInfoQue')
           q2      == SentQue(sent2)'
           now     == IF ends THEN 0 ELSE Passed(sent) + Bit(fire)
           c       == Bit(carried)
           d       == Bit(deq)
           t       == Bit(ends)
<1>1. Step(streamReady, o, hit, aReady, next, other) /\ Held(next, other)
      /\ (a_fire(aReady) <=> aReady) /\ aReady \in BOOLEAN
  <2>1. Step(streamReady, o, hit, aReady, next, other)
    BY CycleIsStep
  <2>2. Held(next, other)
    BY DEF Env, Held
  <2> HIDE DEF o, hit
  <2>3. QED BY <2>1, <2>2 DEF Step
<1>2. /\ raised = (state = "s_exp" /\ Len(packetInfoQue) < nReqInflight)
      /\ deq = (streamState = "s_stream_idle" /\ packetInfoQue # <<>>)
      /\ infos = InfosMore(aReady \/ raised) /\ k = Len(infos)
  OBVIOUS
<1> HIDE DEF raised, deq, infos, k
<1>3. /\ Len(infos) \in Nat /\ infos \in Seq(Infos) /\ ItemsMore(raised) \in Seq(Items)
      /\ packetInfoQue # <<>> => Len(infos) # 0 /\ infos[1] = Head(packetInfoQue)
      /\ Len(packetInfoQue') = Len(infos) - Bit(deq)
      /\ Moved(infos, packetInfoQue', Bit(deq), Len(infos), Bit(deq))
      /\ \E word2, slot2 :
           Between(req, sent, infos, SentMore(sent, aReady), ItemsMore(raised), word2, slot2)
  BY <1>2, BetweenStep
<1>4. PICK word1, slot1 : Between(req, sent, infos, q, all, word1, slot1)
  BY <1>3
<1>5. /\ Lined(infos, q, all, word1, slot1)
      /\ Front(streamState, min_pos, max_pos, cache_id, addr, q, Passed(sent), all,
               0, word1[0], 0, slot1[0])
      /\ IF req = NoRequest THEN Rest(state', vaddr', leftLen', id', all, word1[k])
                            ELSE Len(all) = word1[k]
  BY <1>4 DEF Between, k
<1>6. /\ Len(SentQue(sent)) \in Nat /\ Grown(SentQue(sent), q, aReady, NewSent)
      /\ Shifted(q, q2, ends) /\ Len(q) \in Nat
      /\ Passed(sent2)' = now
  <2>1. /\ NSent \in Nat /\ Len(SentQue(sent)) = NSent
        /\ Grown(SentQue(sent), q, aReady, NewSent) /\ Shifted(q, q2, ends)
    BY <1>0, <1>1, SentQueStep
  <2>2. Passed(sent2)' = now
    BY <1>0, <1>1, PassedStep DEF now, fire, ends, o
  <2>3. Len(q) = NSent + Bit(aReady)
    BY <2>1 DEF Grown
  <2>4. QED BY <2>1, <2>2, <2>3 DEF Bit
<1>7. Delivers(sent2)'
  <2>1. SlicerMoves(req, tlbReqFire, tlbRespFire, miss, aReady)
    BY Zenon DEF Cycle, SlicerMoves
  <2>2. Pending' => state = "s_dma_req"
    BY <1>1, PendingStep
  <2>3. Pending' => len' = len
    BY <2>1, <2>2, LenStays
  <2>4. QED BY <1>0, <1>1, <2>3, DeliversStep
<1>8. ROB!out_valid(inp) => q[1] = sent[ROB!due.id]
  <2>1. SUFFICES ASSUME ROB!out_valid(inp) PROVE q[1] = sent[ROB!due.id]
    OBVIOUS
  <2>2. NSent \in Nat \ {0} /\ SentQue(sent)[1] = sent[ROB!due.id]
    BY <2>1, OutWord
  <2>3. 1 \in 1 .. Len(SentQue(sent))
    BY <2>2 DEF SentQue
  <2>4. QED BY <1>6, <2>2, <2>3 DEF Grown
<1>9. StreamGoes(deq, ends, fire, carried)
  <2>1. streamState \in {"s_stream_idle", "s_stream_data", "s_stream_exp"}
    BY DEF RoomInv
  <2>2. Streaming(streamReady, o, expAck, deq, fire, carried)
    BY <1>2 DEF Cycle, Streaming
  <2>3. QED BY <2>1, <2>2, StreamCases
<1> HIDE DEF carried, ends, fire, now, o

<1>10. /\ max_pos' \in Int /\ Bit(deq) <= Len(infos)
       /\ Bit(carried) <= word1[Bit(deq)] /\ Bit(ends) <= slot1[Bit(deq)]
       /\ Front(streamState', min_pos', max_pos', cache_id', addr', q, now, all,
                Bit(carried), word1[Bit(deq)], Bit(ends), slot1[Bit(deq)])
  <2>1. packetInfoQue # <<>> =>
          Len(infos) # 0 /\ infos[1] = Head(packetInfoQue) /\ infos[1] \in Infos
    BY <1>3
  <2>2. QED BY <1>3, <1>5, <1>8, <1>9, <2>1, StreamTakes DEF now
<1>11. c \in 0 .. 1 /\ d \in 0 .. 1 /\ t \in 0 .. 1 /\ d <= k /\ k \in Nat
       /\ k2 = k - d /\ k2 \in Nat /\ now \in Nat
  <2>1. c \in 0 .. 1 /\ d \in 0 .. 1 /\ t \in 0 .. 1
    BY DEF Bit
  <2>2. d <= k /\ k \in Nat /\ k2 = k - d
    BY <1>2, <1>3, <1>10
  <2>3. now \in Nat
    <3>1. Passed(sent) \in Nat
      BY PassedType
    <3>2. QED BY <3>1 DEF now, Bit
  <2> HIDE DEF c, d, t, k2
  <2>4. QED BY <2>1, <2>2, <2>3
<1>12. /\ word1[d] \in Nat /\ word1[k] \in Nat /\ slot1[d] \in Nat
       /\ word1[d] <= word1[k] /\ word1[k] <= Len(all) /\ slot1[d] <= Len(q)
       /\ c <= word1[d] /\ t <= slot1[d]
  <2>1. d \in 0 .. Len(infos)
    BY <1>2, <1>11
  <2> HIDE DEF d, c, t, q, all
  <2>2. /\ word1[d] \in Nat /\ word1[Len(infos)] \in Nat
        /\ slot1[d] \in Nat /\ slot1[Len(infos)] = Len(q)
        /\ word1[d] <= word1[Len(infos)] /\ word1[Len(infos)] <= Len(all)
        /\ slot1[d] <= slot1[Len(infos)]
    <3>1. InLine(infos, q, all, word1, slot1, d)
      BY <1>5, <2>1, LinedTypes
    <3>2. QED BY <3>1 DEF InLine
  <2>3. QED BY <1>2, <1>10, <2>2 DEF d, c, t
<1>13. Len(all) \in Nat /\ all \in Seq(Items)
  BY <1>3
<1>14. req.addr \in Nat /\ req.len \in Nat /\ req.id \in ReqIds
       /\ (req = NoRequest => Words(req.len) = 0)
  <2>1. CASE req = NoRequest
    <3>1. req.addr = 0 /\ req.len = 0 /\ req.id = 0
      BY <2>1 DEF NoRequest
    <3>2. 0 \in ReqIds
      BY DEF ReqIds
    <3>3. Words(0) = 0
      BY WordsBelow
    <3>4. QED BY <3>1, <3>2, <3>3
  <2>2. CASE req # NoRequest
    <3>1. req \in Requests
      BY <2>2 DEF Env
    <3>2. QED BY <2>2, <3>1, RequestsAssumption DEF ReqIds
  <2>3. QED BY <2>1, <2>2
<1>15. /\ expected' \in Seq(Items)
       /\ Len(expected') = (Len(all) - c) + Words(req.len)
       /\ Moved(all, expected', c, Len(all), c)
       /\ \A j \in 1 .. Words(req.len) :
            expected'[(Len(all) - c) + j] = <<req.id, req.addr + (j - 1) * dataByte>>
  <2>1. c <= Len(all)
    <3> HIDE DEF c, d, all
    <3>1. QED BY <1>11, <1>12, <1>13
  <2>2. Expecting(req, streamReady, expAck, raised, carried, all)
    BY <1>2, <1>13, <1>14, <2>1 DEF Expecting, Cycle, carried
  <2>3. QED BY <2>2, ExpectStep
<1> HIDE DEF c, d, t, q, q2, k2, all
<1>16. Words(req.len) \in Nat
  BY <1>14, WordsBelow
<1>17. Len(q2) = Len(q) - t /\ Moved(q, q2, t, Len(q), t)
       /\ (slot1[d] = t + 1 => q2[slot1[d] - t] = q[slot1[d]])
  <2>1. Len(q2) = Len(q) - t /\ Moved(q, q2, t, Len(q), t)
    BY <1>6, ShiftedMoves DEF Shifted, t
  <2>2. slot1[d] = t + 1 => slot1[d] \in t + 1 .. Len(q)
    BY <1>6, <1>11, <1>12
  <2>3. QED BY <2>1, <2>2 DEF Moved
<1>18. Movable(infos, packetInfoQue', q, q2, all, expected', word1, slot1, d, c, t, k, k2)
  <2>1. Moved(infos, packetInfoQue', d, k, d)
    BY <1>2, <1>3 DEF d
  <2>2. Moved(q, q2, slot1[d], Len(q), t)
    BY <1>6, <1>11, <1>12, <1>17, MovedPart
  <2>3. Moved(all, expected', word1[d], word1[k], c)
    BY <1>11, <1>12, <1>13, <1>15, MovedPart, SMTT(30)
  <2>4. word1[k] - c <= Len(expected')
    BY <1>11, <1>12, <1>13, <1>15, <1>16
  <2>5. k = k2 + d
    BY <1>11
  <2>6. k2 = Len(packetInfoQue')
    BY DEF k2
  <2>7. d \in 0 .. 1 /\ c \in Nat /\ t \in Nat /\ Len(q) \in Nat /\ k2 \in Nat
    BY <1>6, <1>11
  <2>8. Lined(infos, q, all, word1, slot1) /\ k = Len(infos)
    BY <1>2, <1>5
  <2>9. t <= slot1[d] /\ Len(q2) = Len(q) - t /\ c <= word1[d]
    BY <1>12, <1>17
  <2>10. QED BY <2>1, <2>2, <2>3, <2>4, <2>5, <2>6, <2>7, <2>8, <2>9, Zenon DEF Movable
<1>19. PICK word2, slot2 :
         /\ Lined(packetInfoQue', q2, expected', word2, slot2)
         /\ word2[0] = word1[d] - c /\ word2[k2] = word1[k] - c /\ slot2[0] = slot1[d] - t
  BY <1>18, LinedMove, SMT
<1>20. Front(streamState', min_pos', max_pos', cache_id', addr', q2, now, expected',
             0, word2[0], 0, slot2[0])
  <2>1. Front(streamState', min_pos', max_pos', cache_id', addr', q, now, all,
              c, word1[d], t, slot1[d])
    BY <1>10 DEF c, d, t
  <2>2. Moved(all, expected', c, word1[d], c)
    BY <1>11, <1>12, <1>13, <1>15, MovedPart
  <2>3. c \in Nat /\ t \in Nat
    BY <1>11
  <2>4. Front(streamState', min_pos', max_pos', cache_id', addr', q2, now, expected',
              c - c, word1[d] - c, t - t, slot1[d] - t)
    BY <1>11, <1>12, <1>17, <2>1, <2>2, <2>3, FrontMove
  <2>5. c - c = 0 /\ t - t = 0
    BY <1>11
  <2>6. QED BY <1>19, <2>4, <2>5
<1>21. Rest(state', vaddr', leftLen', id', expected', word2[k2])
  <2>1. leftLen' \in Nat
    <3>1. IdInv'
      BY NextIds
    <3>2. QED BY <3>1 DEF IdInv, Slicer, SlicerTypes
  <2>2. c \in Nat /\ c <= word1[k]
    BY <1>11, <1>12
  <2>3. CASE req = NoRequest
    <3>1. Rest(state', vaddr', leftLen', id', all, word1[k])
      BY <1>5, <2>3
    <3>2. Len(expected') = Len(all) - c
      BY <1>11, <1>13, <1>14, <1>15, <2>3
    <3>3. Rest(state', vaddr', leftLen', id', expected', word1[k] - c)
      BY <1>12, <1>13, <1>15, <2>1, <2>2, <3>1, <3>2, RestMove
    <3>4. QED BY <1>19, <3>3
  <2>4. CASE req # NoRequest
    <3>1. Len(all) = word1[k]
      BY <1>5, <2>4
    <3>2. state' = "s_slice" /\ vaddr' = req.addr /\ leftLen' = req.len /\ id' = req.id
      BY <2>4 DEF Cycle, Ctrl!Accept, Ctrl!s_slice
    <3>3. /\ Len(expected') = (word1[k] - c) + Words(leftLen')
          /\ \A j \in 1 .. Words(leftLen') :
               expected'[(word1[k] - c) + j] = <<id', vaddr' + (j - 1) * dataByte>>
      BY <1>15, <3>1, <3>2
    <3>4. QED BY <1>19, <3>2, <3>3 DEF Rest, Cutting
  <2>5. QED BY <2>3, <2>4
<1>22. Ordered(sent2, word2, slot2)'
  <2>1. Lined(packetInfoQue', SentQue(sent2)', expected', word2, slot2)
    BY <1>19 DEF q2
  <2>2. Front(streamState', min_pos', max_pos', cache_id', addr', SentQue(sent2)', Passed(sent2)',
              expected', 0, word2[0], 0, slot2[0])
    BY <1>6, <1>20 DEF q2
  <2>3. Rest(state', vaddr', leftLen', id', expected', word2[Len(packetInfoQue')])
    BY <1>21 DEF k2
  <2>4. QED BY <2>1, <2>2, <2>3 DEF Ordered
<1>23. (expected \in Seq(Items))' /\ (max_pos \in Int)'
  BY <1>10, <1>15 DEF Items, ReqIds
<1>24. QED BY <1>7, <1>22, <1>23 DEF OrderInv

\* A step that changes nothing, and the beginning.
LEMMA OrderStays ==
  ASSUME OrderInv, UNCHANGED vars
  PROVE  OrderInv'
<1>1. /\ UNCHANGED <<state, vaddr, leftLen, id, dma_req_state, packetInfoQue>>
      /\ UNCHANGED <<streamState, min_pos, max_pos, cache_id, addr, expected>>
      /\ UNCHANGED <<ready, reqQue, rob_state, rdOffset, gets>>
  BY DEF vars, ctrl, rob, bus
<1>2. PICK sent, word, slot : Delivers(sent) /\ Ordered(sent, word, slot)
  BY DEF OrderInv
<1>3. Delivers(sent)'
  BY <1>2, DeliversStays
<1>4. SentQue(sent)' = SentQue(sent) /\ Passed(sent)' = Passed(sent)
  BY <1>1 DEF SentQue, NSent, Pending, Passed, ROB!due
<1>5. Ordered(sent, word, slot)'
  BY <1>1, <1>2, <1>4 DEF Ordered
<1>6. (expected \in Seq(Items))' /\ (max_pos \in Int)'
  BY <1>1 DEF OrderInv, Items, ReqIds
<1>7. QED BY <1>3, <1>5, <1>6 DEF OrderInv

LEMMA InitOrder == Init => OrderInv
<1> SUFFICES ASSUME Init PROVE OrderInv
  OBVIOUS
<1> DEFINE zero == [n \in 0 .. 0 |-> 0]
<1>1. /\ state = "s_idle" /\ dma_req_state = "s_dma_req_idle" /\ packetInfoQue = <<>>
      /\ streamState = "s_stream_idle" /\ max_pos = 0 /\ expected = <<>>
      /\ ready = FALSE /\ reqQue = <<>> /\ rob_state = "s_idle"
  BY DEF Init, Ctrl!Init, ROB!Init, Ctrl!s_dma_req_idle, Ctrl!s_idle, Ctrl!s_stream_idle,
         ROB!s_idle
<1>2. PICK sent : Delivers(sent)
  BY InitDelivers
<1>3. Len(SentQue(sent)) = 0 /\ Passed(sent) = 0
  <2>1. NSent = 0
    BY <1>1 DEF Pending, NSent, Bit
  <2>2. SentQue(sent) = <<>>
    BY <2>1 DEF SentQue
  <2>3. QED BY <1>1, <2>2 DEF Passed
<1>4. Len(packetInfoQue) = 0 /\ Len(expected) = 0
  BY <1>1
<1>5. zero \in [0 .. 0 -> Nat] /\ zero[0] = 0 /\ \A n \in 0 .. 0 : n = 0
  OBVIOUS
<1> HIDE DEF zero
<1>6. Lined(packetInfoQue, SentQue(sent), expected, zero, zero)
  BY <1>3, <1>4, <1>5 DEF Lined
<1>7. Front(streamState, min_pos, max_pos, cache_id, addr, SentQue(sent), Passed(sent), expected,
            0, zero[0], 0, zero[0])
  BY <1>1, <1>3, <1>5 DEF Front
<1>8. Rest(state, vaddr, leftLen, id, expected, zero[Len(packetInfoQue)])
  BY <1>1, <1>4, <1>5 DEF Rest, Cutting
<1>9. Ordered(sent, zero, zero)
  BY <1>6, <1>7, <1>8 DEF Ordered
<1>10. expected \in Seq(Items) /\ max_pos \in Int
  BY <1>1
<1>11. QED BY <1>2, <1>9, <1>10 DEF OrderInv

\* The steps together.
LEMMA NextOrder ==
  ASSUME BitsHeld = TRUE, IdInv, RoomInv, OrderInv, [Next]_vars
  PROVE  OrderInv'
<1>1. CASE Next
  <2>1. PICK req, tlbReqFire, tlbRespFire, miss, aReady, next, other, streamReady, expAck :
          /\ Env(req, tlbRespFire, miss, aReady, next, other)
          /\ Cycle(req, tlbReqFire, tlbRespFire, miss, aReady, next, other, streamReady, expAck)
    BY <1>1, Cycles DEF IdInv, IdTypes
  <2>2. PICK sent, word, slot : Delivers(sent) /\ Ordered(sent, word, slot)
    BY DEF OrderInv
  <2>3. expected \in Seq(Items) /\ max_pos \in Int
    BY DEF OrderInv
  <2>4. QED BY <1>1, <2>1, <2>2, <2>3, FollowsStep
<1>2. CASE UNCHANGED vars
  BY <1>2, OrderStays
<1>3. QED BY <1>1, <1>2

\* What the stream and the exception port show is what comes first.
LEMMA OrderShows ==
  ASSUME IdInv, RoomInv, OrderInv
  PROVE  InOrder
<1>1. PICK sent, word, slot : Delivers(sent) /\ Ordered(sent, word, slot)
  BY DEF OrderInv
<1>2. /\ Lined(packetInfoQue, SentQue(sent), expected, word, slot)
      /\ Front(streamState, min_pos, max_pos, cache_id, addr, SentQue(sent), Passed(sent), expected,
               0, word[0], 0, slot[0])
      /\ expected \in Seq(Items) /\ max_pos \in Int
  BY <1>1 DEF Ordered, OrderInv
<1>3. word[0] \in Nat /\ word[0] <= Len(expected)
  <2>1. Len(packetInfoQue) \in Nat
    BY DEF RoomInv
  <2>2. 0 \in 0 .. Len(packetInfoQue)
    BY <2>1
  <2>3. /\ word[0] \in Nat /\ word[0] <= word[Len(packetInfoQue)]
        /\ word[Len(packetInfoQue)] <= Len(expected) /\ word[Len(packetInfoQue)] \in Nat
    <3>1. InLine(packetInfoQue, SentQue(sent), expected, word, slot, 0)
      BY <1>2, <2>2, LinedTypes
    <3>2. QED BY <3>1 DEF InLine
  <2>4. Len(expected) \in Nat
    BY <1>2
  <2>5. QED BY <2>3, <2>4
<1>4. ASSUME stream_valid
      PROVE  expected # <<>> /\ Head(expected) = <<cache_id, ROB!out_word(inp)>>
  <2> DEFINE p == sent[ROB!due.id]
             n == Passed(sent)
             q == SentQue(sent)
  <2>1. /\ streamState = "s_stream_data" /\ ROB!out_valid(inp) /\ Wanted(min_pos, max_pos, addr)
    BY <1>4 DEF stream_valid, Ctrl!stream_valid, Ctrl!isDataInvalid, Ctrl!s_stream_data, Wanted
  <2>2. /\ q[1] = p /\ p \in Stretches /\ n \in 0 .. p.words - 1
        /\ ROB!out_word(inp) = WordAt(p, n)
    BY <1>1, <2>1, OutWord
  <2>3. Front("s_stream_data", min_pos, max_pos, cache_id, addr, q, n, expected,
              0, word[0], 0, slot[0])
    BY <1>2, <2>1
  <2> HIDE DEF p, n, q
  <2>4. Goes(min_pos, max_pos, cache_id, addr, q, p, n, expected, word[0], slot[0])
    BY <1>2, <2>2, <2>3, FrontWord
  <2>5. Bit(Wanted(min_pos, max_pos, addr)) = 1
    BY <2>1 DEF Bit
  <2>6. 1 <= word[0] /\ expected[1] = <<cache_id, WordAt(p, n)>>
    BY <2>1, <2>4, <2>5 DEF Goes
  <2>7. Len(expected) # 0
    BY <1>3, <2>6
  <2>8. expected # <<>> /\ Head(expected) = expected[1]
    BY <1>2, <2>7
  <2>9. QED BY <2>2, <2>6, <2>8
<1>5. ASSUME Ctrl!exp_req
      PROVE  expected # <<>> /\ Head(expected) = <<cache_id, Raised>>
  <2>1. streamState = "s_stream_exp"
    BY <1>5 DEF Ctrl!exp_req, Ctrl!s_stream_exp
  <2>2. word[0] = 0 + 1 /\ expected[word[0]] = <<cache_id, Raised>>
    BY <1>2, <2>1 DEF Front
  <2>3. Len(expected) # 0
    BY <1>3, <2>2
  <2>4. expected # <<>> /\ Head(expected) = expected[1]
    BY <1>2, <2>3
  <2>5. QED BY <2>2, <2>4
<1>6. QED BY <1>4, <1>5 DEF InOrder

(***************************************************************************)
(* The inductive invariant of the order: the words of each entry, of what  *)
(* streams and of what is left of the request have their places in what is *)
(* still to be carried.                                                    *)
(***************************************************************************)
THEOREM WordsPlaced ==
  ASSUME MaxMisses \in {0, 1}, BitsHeld = TRUE
  PROVE  Spec => []OrderInv
<1>1. Init => OrderInv
  BY InitOrder
<1>2. IdInv /\ RoomInv /\ OrderInv /\ [Next]_vars => OrderInv'
  BY NextOrder
<1>3. Spec => []IdInv
  BY IdsAgree
<1>4. Spec => []RoomInv
  BY PacketsAccounted
<1>5. QED BY <1>1, <1>2, <1>3, <1>4, PTL DEF Spec

(***************************************************************************)
(* The bus answers packets in any order, and the reorder buffer of         *)
(* DMA.scala is to "make its order consistent with the request order".     *)
(* Whatever the bus does, the stream carries nothing but the words that    *)
(* were asked for, in the order in which they were asked for and each      *)
(* once, under the id of its request, and an exception after the words     *)
(* before it.  The bus keeps the bits on its port, and no more than one    *)
(* exception is on its way.                                                *)
(***************************************************************************)
THEOREM WordsInOrder ==
  ASSUME MaxMisses \in {0, 1}, BitsHeld = TRUE
  PROVE  Spec => []InOrder
<1>1. IdInv /\ RoomInv /\ OrderInv => InOrder
  BY OrderShows
<1>2. Spec => []IdInv
  BY IdsAgree
<1>3. Spec => []RoomInv
  BY PacketsAccounted
<1>4. Spec => []OrderInv
  BY WordsPlaced
<1>5. QED BY <1>1, <1>2, <1>3, <1>4, PTL
=============================================================================
