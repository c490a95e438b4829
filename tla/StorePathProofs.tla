-------------------------- MODULE StorePathProofs -------------------------
(***************************************************************************)
(* Proofs about StorePath: what a store answered with success has copied,  *)
(* how its packets are cut, and that the three blocks count its words      *)
(* alike.                                                                  *)
(*                                                                         *)
(* Nothing ties the blocks together while a stream runs but the words      *)
(* themselves: the controller counts down from the length, the port counts *)
(* addresses up, the writer walks over the beats of packets that need not  *)
(* begin or end with the request.  The invariant says that all three are   *)
(* at the same byte of the store (Streaming), and that outside of the      *)
(* stream the writer has at most beats left that carry nothing (DwQuiet).  *)
(***************************************************************************)
EXTENDS StorePath, TLAPS

Cut == INSTANCE DMASliceProofs

Aligned(a) == a \in Nat /\ a % dataByte = 0

\* The writer's place in memory: the next byte it takes from the stream, and
\* the end of the request.
Position ==
  IF dw_state = "s_dma_req"
  THEN DW!vxn(vaddr) * DW!maxSizeTL + (IF addr < DW!vxo(vaddr) THEN DW!vxo(vaddr) ELSE addr)
  ELSE vaddr
End == vaddr + dw_leftLen

\* Bytes of the store that the stream has carried.
Sent == request.total_len - sc_leftLen

Cutting == {"s_slice", "s_wait", "s_tlb_req", "s_tlb_resp", "s_dma_req"}
WithPacket == {"s_tlb_req", "s_tlb_resp", "s_dma_req"}

\* A single byte can only be left at the beginning of a block.
Left == dw_leftLen # 0 /\ (dw_leftLen = 1 => DW!vxo(vaddr) = 0)

\* The packet in the registers is the one of what is left.
Packet ==
  /\ Cut!Fits(vaddr, dw_leftLen, more, len, base)
  /\ Cut!InWords(vaddr, more, len, base)
  /\ Cut!Smallest(vaddr, IF more THEN DW!maxSizeTL - 1
                         ELSE DW!vxo(vaddr) + dw_leftLen - 1, len)

Beat ==
  /\ addr % dataByte = 0 /\ base <= addr /\ addr < base + DW!packet_size(len)

Writer ==
  /\ Aligned(vaddr)
  /\ dw_state \in Cutting => Left
  /\ dw_state \in WithPacket \cup {"s_wait"} => more = DW!selBw(vaddr, dw_leftLen)
  /\ dw_state \in WithPacket => Packet
  /\ dw_state = "s_dma_req" => Beat

\* The writer has nothing to carry, though it may not be done.
DwQuiet ==
  \/ dw_state = "s_idle"
  \/ dw_state = "s_dma_req" /\ ~more /\ addr >= DW!vxo(vaddr) + dw_leftLen

\* The port is about to fetch the first word.
PortReady ==
  /\ readState = "s_read_data" /\ ~rdataValid
  /\ readAddr = request.spad_addr
  /\ readMaxAddr = Spad!MaxAddr(request.spad_addr, request.total_len)

\* The word on the stream, if there is one, is the one at Sent; the port is
\* to fetch the one after.
PortStreams ==
  /\ readMaxAddr = Spad!MaxAddr(request.spad_addr, request.total_len)
  /\ IF rdataValid
     THEN /\ rdata = request.spad_addr + Sent
          /\ readAddr = request.spad_addr + Sent + dataByte
          /\ readState = IF sc_leftLen <= dataByte THEN "s_read_data_last" ELSE "s_read_data"
     ELSE readState = "s_read_data" /\ readAddr = request.spad_addr + Sent

Streaming ==
  sc_state = "s_stream" /\ dw_state # "s_exp" =>
    /\ sc_leftLen \in 1 .. request.total_len /\ Sent % dataByte = 0
    /\ dw_state # "s_idle"
    /\ Position = request.remote_addr + Sent
    /\ End = request.remote_addr + request.total_len
    /\ PortStreams
    /\ copied = Service!Bytes(request, Sent)

Control ==
  /\ sc_state \in {"s_idle", "s_spad_req", "s_resp"} => readState = "s_read_idle"
  /\ sc_state \in {"s_idle", "s_spad_req", "s_dma_req", "s_resp"} => DwQuiet
  /\ sc_state \in {"s_spad_req", "s_dma_req"} =>
       /\ remote_addr = request.remote_addr /\ spad_addr = request.spad_addr
       /\ sc_leftLen = request.total_len /\ copied = {} /\ success
  /\ sc_state = "s_dma_req" => PortReady
  /\ sc_state = "s_stream" => success
  /\ sc_state = "s_exp" =>
       dw_state = "s_exp" /\ ~success /\ (read_exp_ack => readState = "s_read_idle")
  /\ dw_state = "s_exp" => sc_state \in {"s_stream", "s_exp"}
  /\ sc_state # "s_exp" => ~read_exp_ack

Copied ==
  /\ copied \subseteq Service!Bytes(request, Service!WholeWords(request))
  /\ sc_state = "s_resp" /\ success =>
       Service!Bytes(request, request.total_len) \subseteq copied

IInv == TypeOK /\ Writer /\ Control /\ Streaming /\ Copied


---------------------------------------------------------------------------
(* The constants, and the operators of the writer as those of the lemmas   *)
(* about packets.                                                          *)
W == 2^lgMaxDataLen
B == DW!maxSizeTL

LEMMA Constants ==
  /\ Cut!Sizes /\ dataByte \in Cut!PacketSizes /\ dataByte # 1
  /\ dataByte \in Nat \ {0} /\ W \in Nat \ {0} /\ B \in Nat \ {0}
  /\ nReqInflight \in Nat \ {0} /\ MaxUnacked \in Nat \ {0}
<1>1. Cut!Sizes
  BY StorePathAssumption, PowersAssumption DEF Cut!Sizes
<1>2. dataByte \in Cut!PacketSizes
  BY StorePathAssumption DEF Cut!PacketSizes
<1>3. dataByte \in Nat \ {0} /\ Cut!maxSizeTL \in Nat \ {0}
  BY <1>1, <1>2, Cut!PacketSizesType
<1>4. B = Cut!maxSizeTL
  BY DEF B, DW!maxSizeTL, Cut!maxSizeTL
<1>5. QED BY <1>1, <1>2, <1>3, <1>4, StorePathAssumption, PowersAssumption, RequestsAssumption
           DEF W

LEMMA SameOperators ==
  /\ DW!maxSizeTL = Cut!maxSizeTL /\ B = Cut!maxSizeTL
  /\ \A v : DW!vxn(v) = Cut!vxn(v) /\ DW!vxo(v) = Cut!vxo(v)
  /\ \A v, l : DW!selBw(v, l) = Cut!selBw(v, l)
  /\ \A v, l, m : DW!len_align(v, l, m) = Cut!len_align(v, l, m)
  /\ \A v, l : DW!vxo_align(v, l) = Cut!vxo_align(v, l)
  /\ \A l : DW!packet_size(l) = Cut!packet_size(l)
  /\ DW!PacketSizes = Cut!PacketSizes
<1>1. DW!maxSizeTL = Cut!maxSizeTL /\ B = Cut!maxSizeTL /\ DW!PacketSizes = Cut!PacketSizes
  BY DEF B, DW!maxSizeTL, Cut!maxSizeTL, DW!PacketSizes, Cut!PacketSizes
<1>2. \A v : DW!vxn(v) = Cut!vxn(v) /\ DW!vxo(v) = Cut!vxo(v)
  BY <1>1 DEF DW!vxn, Cut!vxn, DW!vxo, Cut!vxo
<1>3. \A v, l : DW!selBw(v, l) = Cut!selBw(v, l)
  BY <1>1, <1>2 DEF DW!selBw, Cut!selBw
<1>4. \A x : DW!PowerAbove(x) = Cut!PowerAbove(x)
  BY <1>1 DEF DW!PowerAbove, Cut!PowerAbove
<1>5. \A v : DW!len_align_bw(v) = Cut!len_align_bw(v)
  BY <1>1, <1>2, <1>4 DEF DW!len_align_bw, Cut!len_align_bw
<1>6. \A v, l : DW!len_align_fw(v, l) = Cut!len_align_fw(v, l)
  BY DEF DW!len_align_fw, Cut!len_align_fw, DW!vxo, Cut!vxo, DW!maxSizeTL, Cut!maxSizeTL,
         DW!PacketSizes, Cut!PacketSizes
<1>7. \A v, l, m : DW!len_align(v, l, m) = Cut!len_align(v, l, m)
  BY <1>5, <1>6 DEF DW!len_align, Cut!len_align
<1>8. \A v, l : DW!vxo_align(v, l) = Cut!vxo_align(v, l)
  BY <1>2 DEF DW!vxo_align, Cut!vxo_align
<1>9. \A l : DW!packet_size(l) = Cut!packet_size(l)
  BY DEF DW!packet_size, Cut!packet_size
<1>10. QED BY <1>1, <1>2, <1>3, <1>7, <1>8, <1>9

\* Block and offset of an address, in words.
LEMMA Blocks ==
  ASSUME NEW v, Aligned(v)
  PROVE  /\ v \in Nat /\ DW!vxn(v) \in Nat /\ DW!vxo(v) \in 0 .. B - 1
         /\ v = DW!vxn(v) * B + DW!vxo(v) /\ DW!vxn(v) * B \in Nat
         /\ DW!vxo(v) % dataByte = 0 /\ (DW!vxn(v) * B) % dataByte = 0
         /\ B % dataByte = 0
<1>1. v \in Nat /\ v % dataByte = 0
  BY DEF Aligned
<1>2. /\ Cut!vxn(v) \in Nat /\ Cut!vxo(v) \in 0 .. Cut!maxSizeTL - 1
      /\ v = Cut!vxn(v) * Cut!maxSizeTL + Cut!vxo(v)
      /\ Cut!vxn(v) * Cut!maxSizeTL \in Nat
  BY <1>1, Constants, Cut!Offset
<1>3. /\ Cut!vxo(v) % dataByte = 0 /\ Cut!maxSizeTL % dataByte = 0
      /\ (Cut!vxn(v) * Cut!maxSizeTL) % dataByte = 0
  BY <1>1, Constants, Cut!OffsetAligned
<1>4. DW!vxn(v) = Cut!vxn(v) /\ DW!vxo(v) = Cut!vxo(v) /\ B = Cut!maxSizeTL
  BY SameOperators
<1>5. QED BY <1>1, <1>2, <1>3, <1>4

\* The block after.
LEMMA NextBlock ==
  ASSUME NEW v, Aligned(v)
  PROVE  /\ Aligned(DW!next_vaddr(v)) /\ DW!vxo(DW!next_vaddr(v)) = 0
         /\ DW!next_vaddr(v) = DW!vxn(v) * B + B
<1> DEFINE n == DW!vxn(v)
           m == n * B
           next == (n + 1) * B
<1>1. n \in Nat /\ m \in Nat /\ m % dataByte = 0 /\ B % dataByte = 0
  BY Blocks
<1>2. B \in Nat \ {0} /\ dataByte \in Nat \ {0}
  BY Constants
<1>3. DW!next_vaddr(v) = next
  BY DEF DW!next_vaddr, B
<1> HIDE DEF n
<1>4. next = m + B /\ next = B * (n + 1) + 0
  BY <1>1, <1>2
<1>5. next % B = 0
  <2> HIDE DEF next
  <2>1. (B * (n + 1) + 0) % B = 0
    BY <1>1, <1>2, Cut!DivisionUnique
  <2>2. QED BY <1>4, <2>1
<1>6. (m + B) % dataByte = 0
  <2> HIDE DEF m
  <2>1. (m + B) % dataByte = B % dataByte
    BY <1>1, <1>2, Cut!MultipleSum
  <2>2. QED BY <1>1, <2>1
<1>7. next \in Nat
  <2> HIDE DEF m, next
  <2>1. QED BY <1>1, <1>2, <1>4
<1> HIDE DEF next, m
<1>8. DW!vxo(next) = 0
  BY <1>5 DEF DW!vxo, B
<1>9. QED BY <1>3, <1>4, <1>6, <1>7, <1>8 DEF Aligned, m, n


---------------------------------------------------------------------------
(* The writer on its own. *)
ControlTypes ==
  /\ sc_state \in {"s_idle", "s_spad_req", "s_dma_req", "s_stream", "s_exp", "s_resp"}
  /\ sc_leftLen \in 0 .. W - 1 /\ success \in BOOLEAN
  /\ remote_addr \in Nat /\ spad_addr \in Nat /\ request \in Requests

PortTypes ==
  /\ readState \in {"s_read_idle", "s_read_data", "s_read_data_last"}
  /\ rdataValid \in BOOLEAN /\ read_exp_ack \in BOOLEAN
  /\ readAddr \in Nat /\ readMaxAddr \in Nat /\ rdata \in Nat

WriterTypes ==
  /\ dw_state \in {"s_idle", "s_slice", "s_wait", "s_tlb_req", "s_tlb_resp",
                   "s_dma_req", "s_exp"}
  /\ vaddr \in Nat /\ dw_leftLen \in 0 .. W - 1
  /\ more \in BOOLEAN /\ len \in 0 .. B
  /\ base \in 0 .. B - 1 /\ addr \in 0 .. B - 1 /\ tl_id \in Ids

BusTypes == unacked \in [Ids -> 0 .. MaxUnacked]

LEMMA Types == TypeOK <=> ControlTypes /\ PortTypes /\ WriterTypes /\ BusTypes
BY DEF TypeOK, ControlTypes, PortTypes, WriterTypes, BusTypes, W, B

\* What the registers of a packet are, in numbers.
LEMMA PacketNumbers ==
  ASSUME Writer, dw_state \in WithPacket, more \in BOOLEAN
  PROVE  LET size  == DW!packet_size(len)
             first == DW!vxo(vaddr)
         IN  /\ size \in Nat \ {0} /\ base \in 0 .. B - 1 /\ len \in 0 .. B
             /\ first \in 0 .. B - 1 /\ first % dataByte = 0 /\ base % dataByte = 0
             /\ base <= first /\ first < base + size /\ base + size <= B
             /\ IF more THEN base + size = B /\ first + dw_leftLen > B
                        ELSE first + dw_leftLen <= base + size
             /\ size < dataByte => base = first /\ ~more
<1> DEFINE size  == DW!packet_size(len)
           first == DW!vxo(vaddr)
<1>1. Aligned(vaddr) /\ Packet
  BY DEF Writer
<1>2. first \in 0 .. B - 1 /\ first % dataByte = 0
  BY <1>1, Blocks
<1>3. /\ Cut!Fits(vaddr, dw_leftLen, more, len, base)
      /\ Cut!InWords(vaddr, more, len, base)
  BY <1>1 DEF Packet
<1>4. size = Cut!packet_size(len) /\ first = Cut!vxo(vaddr) /\ B = Cut!maxSizeTL
  BY SameOperators
<1>5. size \in Cut!PacketSizes
  BY <1>3, <1>4 DEF Cut!Fits
<1> HIDE DEF size, first
<1>6. size \in Nat \ {0}
  BY <1>5, Constants, Cut!PacketSizesType
<1>7. /\ base \in Nat /\ len \in 0 .. B /\ base <= first /\ first < base + size
      /\ base + size <= B
      /\ IF more THEN base + size = B /\ first + dw_leftLen > B
                 ELSE first + dw_leftLen <= base + size
  BY <1>3, <1>4 DEF Cut!Fits
<1>8. base % dataByte = 0 /\ (dataByte <= size \/ (base = first /\ ~more))
  BY <1>3, <1>4 DEF Cut!InWords
<1>9. base \in 0 .. B - 1 /\ (size < dataByte => base = first /\ ~more)
  BY <1>2, <1>6, <1>7, <1>8, Constants
<1>10. QED BY <1>2, <1>6, <1>7, <1>8, <1>9 DEF size, first

\* A beat, the next one, and where the last one ends.
LEMMA BeatNumbers ==
  ASSUME Writer, WriterTypes, dw_state = "s_dma_req"
  PROVE  LET size  == DW!packet_size(len)
             first == DW!vxo(vaddr)
             next  == addr + dataByte
         IN  /\ addr \in Nat /\ addr % dataByte = 0 /\ base <= addr /\ addr < base + size
             /\ next % dataByte = 0 /\ next % B \in 0 .. B - 1
             /\ addr < first => next <= first /\ ~DW!LastBeat
             /\ ~DW!LastBeat => next % B = next /\ next < base + size
             /\ DW!LastBeat /\ dataByte <= size => next = base + size
<1> DEFINE size  == DW!packet_size(len)
           first == DW!vxo(vaddr)
           next  == addr + dataByte
<1>1. Aligned(vaddr) /\ Packet /\ Beat
  BY DEF Writer, WithPacket
<1>2. more \in BOOLEAN /\ addr \in Nat
  BY Constants DEF WriterTypes
<1>3. /\ Cut!Fits(vaddr, dw_leftLen, more, len, base)
      /\ Cut!InWords(vaddr, more, len, base)
  BY <1>1 DEF Packet
<1>4. size = Cut!packet_size(len) /\ first = Cut!vxo(vaddr) /\ B = Cut!maxSizeTL
  BY SameOperators
<1>5. vaddr \in Nat
  BY <1>1 DEF Aligned
<1>6. addr % dataByte = 0 /\ base <= addr /\ addr < base + size
  BY <1>1 DEF Beat
<1>7. /\ next % dataByte = 0 /\ next % B \in 0 .. B - 1
      /\ addr < first => next <= first /\ next < base + size
      /\ next < base + size => next % B = next
      /\ next >= base + size /\ dataByte <= size => next = base + size
  <2>1. addr < base + Cut!packet_size(len)
    BY <1>4, <1>6
  <2>2. Cut!Sizes /\ dataByte \in Cut!PacketSizes
    BY Constants
  <2>3. /\ next % dataByte = 0 /\ next % Cut!maxSizeTL \in 0 .. Cut!maxSizeTL - 1
        /\ addr < Cut!vxo(vaddr) =>
             next <= Cut!vxo(vaddr) /\ next < base + Cut!packet_size(len)
        /\ next < base + Cut!packet_size(len) => next % Cut!maxSizeTL = next
        /\ next >= base + Cut!packet_size(len) /\ dataByte <= Cut!packet_size(len) =>
             next = base + Cut!packet_size(len)
    BY <1>2, <1>3, <1>5, <1>6, <2>1, <2>2, Cut!Beats
  <2> HIDE DEF size, first
  <2>4. QED BY <1>4, <2>3 DEF size, first
<1>8. DW!LastBeat <=> next >= base + size
  BY DEF DW!LastBeat
<1>9. next \in Nat /\ base + size \in Nat
  <2>1. size \in Nat /\ base \in Nat
    BY <1>2, PacketNumbers DEF WithPacket
  <2> HIDE DEF size
  <2>2. QED BY <1>2, <2>1, Constants
<1> HIDE DEF size, first, next
<1>10. /\ addr < first => next <= first /\ ~DW!LastBeat
       /\ ~DW!LastBeat => next % B = next /\ next < base + size
       /\ DW!LastBeat /\ dataByte <= size => next = base + size
  BY <1>7, <1>8, <1>9
<1>11. QED BY <1>2, <1>6, <1>7, <1>10 DEF size, first, next


\* Every step of the writer keeps its registers in order.
Asks(aReady, tlbReqFire, tlbRespFire, miss) ==
  /\ DMAStep(aReady, tlbReqFire, tlbRespFire, miss)
  /\ dma_req_fire => Aligned(remote_addr) /\ sc_leftLen \in 2 .. W - 1

LEMMA WriterAccept ==
  ASSUME WriterTypes, Writer, NEW req, DW!Accept(req),
         Aligned(req.addr), req.len \in 2 .. W - 1
  PROVE  WriterTypes' /\ Writer'
<1>1. /\ dw_state' = "s_slice" /\ vaddr' = req.addr /\ dw_leftLen' = req.len
      /\ UNCHANGED <<more, len, base, addr, tl_id>>
  BY DEF DW!Accept, DW!packet, DW!s_slice
<1>2. WriterTypes'
  BY <1>1, Constants DEF WriterTypes, Aligned
<1>3. Aligned(vaddr)'
  BY <1>1 DEF Aligned
<1>4. Left'
  BY <1>1, Constants DEF Left
<1>5. QED BY <1>1, <1>2, <1>3, <1>4 DEF Writer, Cutting, WithPacket

LEMMA WriterStays ==
  ASSUME WriterTypes, Writer, UNCHANGED <<vaddr, dw_leftLen, more, len, base>>,
         addr' \in 0 .. B - 1, tl_id' \in Ids,
         dw_state' \in WithPacket => dw_state \in WithPacket,
         dw_state' = "s_wait" => dw_state \in WithPacket \cup {"s_wait"},
         dw_state' \in Cutting => dw_state \in Cutting,
         dw_state' \in Cutting \cup {"s_idle", "s_exp"},
         dw_state' = "s_dma_req" => Beat'
  PROVE  WriterTypes' /\ Writer'
<1>1. WriterTypes'
  BY DEF WriterTypes, Cutting
<1>2. Aligned(vaddr)' /\ (Left => Left') /\ (Packet => Packet')
  BY DEF Writer, Aligned, Left, Packet
<1>3. QED BY <1>1, <1>2 DEF Writer, Cutting, WithPacket

LEMMA WriterWait ==
  ASSUME WriterTypes, Writer, DW!Wait
  PROVE  WriterTypes' /\ Writer'
<1>1. /\ dw_state = "s_wait" /\ dw_state' = "s_tlb_req"
      /\ len' = DW!len_align(vaddr, dw_leftLen, more)
      /\ base' = DW!vxo_align(vaddr, len')
      /\ UNCHANGED <<vaddr, dw_leftLen, more, addr, tl_id>>
  BY DEF DW!Wait, DW!s_wait, DW!s_tlb_req
<1>2. Aligned(vaddr) /\ Left /\ more = DW!selBw(vaddr, dw_leftLen)
  BY <1>1 DEF Writer, Cutting
<1>3. /\ vaddr \in Nat /\ vaddr % dataByte = 0 /\ dw_leftLen \in Nat \ {0}
      /\ dw_leftLen = 1 => Cut!vxo(vaddr) = 0
  BY <1>2, SameOperators, Constants DEF Aligned, Left, WriterTypes
<1>4. /\ more = Cut!selBw(vaddr, dw_leftLen)
      /\ len' = Cut!len_align(vaddr, dw_leftLen, more)
      /\ base' = Cut!vxo_align(vaddr, len')
  BY <1>1, <1>2, SameOperators
<1>5. /\ Cut!Fits(vaddr, dw_leftLen, more, len', base')
      /\ Cut!InWords(vaddr, more, len', base')
      /\ Cut!Smallest(vaddr, IF more THEN Cut!maxSizeTL - 1
                             ELSE Cut!vxo(vaddr) + dw_leftLen - 1, len')
  BY <1>3, <1>4, Constants, Cut!PacketOfRequest
<1>6. Packet'
  BY <1>1, <1>5, SameOperators DEF Packet
<1>7. Writer'
  BY <1>1, <1>2, <1>6 DEF Writer, Aligned, Left, Cutting, WithPacket
<1>8. more' \in BOOLEAN /\ dw_state' \in WithPacket
  BY <1>1 DEF WriterTypes, WithPacket
<1>9. (base \in 0 .. B - 1 /\ len \in 0 .. B)'
  <2>1. Cut!Fits(vaddr, dw_leftLen, more, len', base') /\ more \in BOOLEAN
    BY <1>5 DEF WriterTypes
  <2>2. /\ len' \in 0 .. Cut!maxSizeTL /\ base' \in Nat /\ base' <= Cut!vxo(vaddr)
    BY <2>1 DEF Cut!Fits
  <2>3. Cut!vxo(vaddr) \in 0 .. B - 1 /\ B = Cut!maxSizeTL
    BY <1>2, Blocks, SameOperators
  <2>4. QED BY <2>2, <2>3, Constants
<1>10. WriterTypes'
  BY <1>1, <1>9 DEF WriterTypes
<1>11. QED BY <1>7, <1>10

LEMMA WriterDone ==
  ASSUME WriterTypes, Writer, NEW aFire, DW!Done(aFire)
  PROVE  /\ WriterTypes' /\ Writer'
         /\ more => /\ vaddr' = DW!vxn(vaddr) * B + B /\ dw_leftLen' > 0
                    /\ dw_leftLen' = DW!vxo(vaddr) + dw_leftLen - B
<1> DEFINE first == DW!vxo(vaddr)
<1>1. /\ dw_state = "s_dma_req" /\ dw_state' = IF more THEN "s_slice" ELSE "s_idle"
      /\ addr' = (addr + dataByte) % B
      /\ dw_leftLen' = IF more THEN first + dw_leftLen - B ELSE 0
      /\ vaddr' = DW!next_vaddr(vaddr)
      /\ tl_id' = IF tl_id < nReqInflight - 1 THEN tl_id + 1 ELSE 0
      /\ UNCHANGED <<more, len, base>>
  BY DEF DW!Done, DW!s_dma_req, DW!s_slice, DW!s_idle, DW!next_leftLen, DW!next_tl_id,
         DW!packet, B
<1>2. /\ Aligned(vaddr') /\ DW!vxo(vaddr') = 0 /\ vaddr' = DW!vxn(vaddr) * B + B
  BY <1>1, NextBlock DEF Writer
<1>3. addr' \in 0 .. B - 1
  BY <1>1, BeatNumbers
<1>4. tl_id' \in Ids
  BY <1>1, Constants DEF WriterTypes, Ids
<1>5. /\ dw_leftLen' \in 0 .. W - 1 /\ (more => dw_leftLen' > 0)
  <2>1. first \in 0 .. B - 1 /\ (more => first + dw_leftLen > B) /\ more \in BOOLEAN
    BY <1>1, PacketNumbers DEF WriterTypes, WithPacket
  <2> HIDE DEF first
  <2>2. QED BY <1>1, <2>1, Constants DEF WriterTypes
<1>6. WriterTypes'
  BY <1>1, <1>2, <1>3, <1>4, <1>5 DEF WriterTypes, Aligned
<1>7. Writer'
  <2>1. more => dw_leftLen' # 0
    BY <1>5, Constants
  <2>2. QED BY <1>1, <1>2, <2>1 DEF Writer, Aligned, Left, Cutting, WithPacket, WriterTypes
<1>8. QED BY <1>1, <1>2, <1>5, <1>6, <1>7

LEMMA WriterStep ==
  ASSUME WriterTypes, Writer, NEW aReady, NEW tlbReqFire, NEW tlbRespFire, NEW miss,
         Asks(aReady, tlbReqFire, tlbRespFire, miss)
  PROVE  WriterTypes' /\ Writer'
<1>1. CASE dma_req_fire
  <2> DEFINE req == [addr |-> remote_addr, len |-> sc_leftLen]
  <2>1. DW!Accept(req)
    BY <1>1 DEF Asks, DMAStep
  <2>2. Aligned(req.addr) /\ req.len \in 2 .. W - 1
    BY <1>1 DEF Asks
  <2> HIDE DEF req
  <2>3. QED BY <2>1, <2>2, WriterAccept
<1>2. CASE ~dma_req_fire
  <2>1. DW!Serve(tlbReqFire, tlbRespFire, miss, a_fire(aReady), read_exp_ack)
    BY <1>2 DEF Asks, DMAStep
  <2>2. CASE dw_state = "s_idle" /\ UNCHANGED DW!vars
    <3>1. UNCHANGED <<dw_state, vaddr, dw_leftLen, more, len, base, addr, tl_id>>
      BY <2>2 DEF DW!vars
    <3>2. QED BY <2>2, <3>1, WriterStays DEF WriterTypes, WithPacket, Cutting
  <2>3. CASE DW!Slice
    <3>1. /\ dw_state = "s_slice" /\ dw_state' = "s_wait"
          /\ more' = DW!selBw(vaddr, dw_leftLen)
          /\ UNCHANGED <<vaddr, dw_leftLen, len, base, addr, tl_id>>
      BY <2>3 DEF DW!Slice, DW!s_slice, DW!s_wait
    <3>2. more' \in BOOLEAN
      BY <3>1 DEF DW!selBw
    <3>3. Aligned(vaddr) /\ Left
      BY <3>1 DEF Writer, Cutting
    <3>4. (Aligned(vaddr) /\ Left)'
      BY <3>1, <3>3 DEF Aligned, Left
    <3>5. more' = DW!selBw(vaddr', dw_leftLen')
      BY <3>1
    <3>6. Writer'
      BY <3>1, <3>4, <3>5 DEF Writer, Cutting, WithPacket
    <3>7. WriterTypes'
      BY <3>1, <3>2 DEF WriterTypes
    <3>8. QED BY <3>6, <3>7
  <2>4. CASE DW!Wait
    BY <2>4, WriterWait
  <2>5. CASE DW!TlbReq(tlbReqFire)
    <3>1. /\ dw_state = "s_tlb_req" /\ dw_state' \in {"s_tlb_req", "s_tlb_resp"}
          /\ UNCHANGED <<vaddr, dw_leftLen, more, len, base, addr, tl_id>>
      BY <2>5 DEF DW!TlbReq, DW!packet, DW!s_tlb_req, DW!s_tlb_resp
    <3>2. QED BY <3>1, WriterStays DEF WriterTypes, WithPacket, Cutting
  <2>6. CASE DW!TlbResp(tlbRespFire, miss)
    <3>1. /\ dw_state = "s_tlb_resp" /\ dw_state' \in {"s_tlb_resp", "s_exp", "s_dma_req"}
          /\ addr' = base /\ UNCHANGED <<vaddr, dw_leftLen, more, len, base, tl_id>>
      BY <2>6 DEF DW!TlbResp, DW!packet, DW!s_tlb_resp, DW!s_exp, DW!s_dma_req
    <3>2. base \in 0 .. B - 1 /\ base % dataByte = 0 /\ DW!packet_size(len) \in Nat \ {0}
      BY <3>1, PacketNumbers DEF WriterTypes, WithPacket
    <3>3. Beat'
      <4> DEFINE size == DW!packet_size(len)
      <4>1. base <= base /\ base < base + size
        <5> HIDE DEF size
        <5>1. QED BY <3>2, Constants DEF size
      <4>2. QED BY <3>1, <3>2, <4>1 DEF Beat
    <3>4. addr' \in 0 .. B - 1 /\ tl_id' \in Ids
      BY <3>1, <3>2 DEF WriterTypes
    <3>5. QED BY <3>1, <3>3, <3>4, WriterStays DEF WithPacket, Cutting
  <2>7. CASE DW!Beat(a_fire(aReady))
    <3>1. /\ dw_state = "s_dma_req" /\ dw_state' = "s_dma_req"
          /\ addr' = addr \/ (~DW!LastBeat /\ addr' = (addr + dataByte) % B)
          /\ UNCHANGED <<vaddr, dw_leftLen, more, len, base, tl_id>>
      BY <2>7 DEF DW!Beat, DW!packet, DW!s_dma_req, B
    <3>2. Beat
      BY <3>1 DEF Writer
    <3>3. Beat' /\ addr' \in 0 .. B - 1
      <4>1. CASE addr' = addr
        BY <3>1, <3>2, <4>1 DEF Beat, WriterTypes
      <4>2. CASE ~DW!LastBeat /\ addr' = (addr + dataByte) % B
        <5> DEFINE next == addr + dataByte
                   size == DW!packet_size(len)
        <5>1. /\ next % dataByte = 0 /\ next % B \in 0 .. B - 1
              /\ next % B = next /\ next < base + size
              /\ addr \in Nat /\ base <= addr
          BY <3>1, <4>2, BeatNumbers
        <5>2. base <= next
          BY <5>1, Constants DEF WriterTypes
        <5> HIDE DEF next
        <5>3. addr' = next
          BY <4>2, <5>1 DEF next
        <5>4. QED BY <3>1, <5>1, <5>2, <5>3 DEF Beat
      <4>3. QED BY <3>1, <4>1, <4>2
    <3>4. tl_id' \in Ids
      BY <3>1 DEF WriterTypes
    <3>5. QED BY <3>1, <3>3, <3>4, WriterStays DEF WithPacket, Cutting
  <2>8. CASE DW!Done(a_fire(aReady))
    BY <2>8, WriterDone
  <2>9. CASE DW!Exp(read_exp_ack)
    <3>1. /\ dw_state = "s_exp" /\ dw_state' \in {"s_exp", "s_idle"}
          /\ UNCHANGED <<vaddr, dw_leftLen, more, len, base, addr, tl_id>>
      BY <2>9 DEF DW!Exp, DW!packet, DW!s_exp, DW!s_idle
    <3>2. QED BY <3>1, WriterStays DEF WriterTypes, WithPacket, Cutting
  <2>10. QED BY <2>1, <2>2, <2>3, <2>4, <2>5, <2>6, <2>7, <2>8, <2>9
              DEF DW!Serve, DW!s_idle
<1>3. QED BY <1>1, <1>2


---------------------------------------------------------------------------
(* What the writer takes from the stream. *)
DataBeat(aFire) == dw_state = "s_dma_req" /\ aFire /\ ~DW!isDataInvalid

LEMMA QuietTakesNothing ==
  ASSUME DwQuiet, NEW aFire
  PROVE  ~DataBeat(aFire)
BY DEF DwQuiet, DataBeat, DW!isDataInvalid

LEMMA QuietStays ==
  ASSUME WriterTypes, Writer, DwQuiet, NEW tlbReqFire, NEW tlbRespFire, NEW miss,
         NEW aFire, NEW expAck, DW!Serve(tlbReqFire, tlbRespFire, miss, aFire, expAck)
  PROVE  DwQuiet'
<1>1. CASE dw_state = "s_idle"
  <2>1. UNCHANGED DW!vars
    BY <1>1 DEF DW!Serve, DW!Slice, DW!Wait, DW!TlbReq, DW!TlbResp, DW!Beat, DW!Done, DW!Exp,
                DW!s_idle, DW!s_slice, DW!s_wait, DW!s_tlb_req, DW!s_tlb_resp, DW!s_dma_req,
                DW!s_exp
  <2>2. QED BY <1>1, <2>1 DEF DW!vars, DwQuiet
<1>2. CASE dw_state = "s_dma_req" /\ ~more /\ addr >= DW!vxo(vaddr) + dw_leftLen
  <2>1. DW!Beat(aFire) \/ DW!Done(aFire)
    BY <1>2 DEF DW!Serve, DW!Slice, DW!Wait, DW!TlbReq, DW!TlbResp, DW!Exp,
                DW!s_idle, DW!s_slice, DW!s_wait, DW!s_tlb_req, DW!s_tlb_resp, DW!s_dma_req,
                DW!s_exp
  <2>2. CASE DW!Done(aFire)
    BY <1>2, <2>2 DEF DW!Done, DW!s_idle, DwQuiet
  <2>3. CASE DW!Beat(aFire)
    <3>1. /\ dw_state' = "s_dma_req"
          /\ addr' = addr \/ (~DW!LastBeat /\ addr' = (addr + dataByte) % B)
          /\ UNCHANGED <<vaddr, dw_leftLen, more>>
      BY <2>3 DEF DW!Beat, DW!packet, DW!s_dma_req, B
    <3>2. addr' >= addr
      <4>1. addr \in Nat /\ (~DW!LastBeat => (addr + dataByte) % B = addr + dataByte)
        BY <1>2, BeatNumbers
      <4>2. CASE addr' = addr
        BY <4>1, <4>2
      <4>3. CASE ~DW!LastBeat /\ addr' = (addr + dataByte) % B
        <5>1. addr' = addr + dataByte
          BY <4>1, <4>3
        <5>2. QED BY <4>1, <5>1, Constants
      <4>4. QED BY <3>1, <4>2, <4>3
    <3> DEFINE first == DW!vxo(vaddr)
    <3>3. first \in Nat /\ addr \in Nat /\ addr' \in Nat /\ dw_leftLen \in Nat
      <4>1. first \in 0 .. B - 1 /\ addr \in Nat /\ (addr + dataByte) % B \in 0 .. B - 1
        BY <1>2, Blocks, BeatNumbers DEF Writer
      <4> HIDE DEF first
      <4>2. QED BY <3>1, <4>1, Constants DEF WriterTypes
    <3>4. DW!vxo(vaddr)' = first
      BY <3>1 DEF DW!vxo, DW!maxSizeTL
    <3>5. addr' >= first + dw_leftLen
      <4>1. addr >= first + dw_leftLen
        BY <1>2
      <4> HIDE DEF first
      <4>2. QED BY <3>2, <3>3, <4>1
    <3>6. QED BY <1>2, <3>1, <3>4, <3>5 DEF DwQuiet
  <2>4. QED BY <2>1, <2>2, <2>3
<1>3. QED BY <1>1, <1>2 DEF DwQuiet

\* The place of the writer is that of its registers, in numbers.
LEMMA PlaceNumbers ==
  ASSUME WriterTypes, Writer
  PROVE  LET first == DW!vxo(vaddr)
             block == DW!vxn(vaddr) * B
         IN  /\ first \in 0 .. B - 1 /\ block \in Nat /\ vaddr = block + first
             /\ dw_leftLen \in Nat /\ addr \in 0 .. B - 1
             /\ End = block + first + dw_leftLen
             /\ dw_state = "s_dma_req" =>
                  Position = block + (IF addr < first THEN first ELSE addr)
             /\ dw_state # "s_dma_req" => Position = vaddr
<1> DEFINE first == DW!vxo(vaddr)
           block == DW!vxn(vaddr) * B
<1>1. first \in 0 .. B - 1 /\ block \in Nat /\ vaddr = block + first
  BY Blocks DEF Writer
<1>2. dw_leftLen \in Nat /\ addr \in 0 .. B - 1
  BY Constants DEF WriterTypes
<1>3. dw_state = "s_dma_req" => Position = block + (IF addr < first THEN first ELSE addr)
  BY DEF Position, B
<1>4. dw_state # "s_dma_req" => Position = vaddr
  BY DEF Position
<1> HIDE DEF first, block
<1>5. End = block + first + dw_leftLen
  BY <1>1, <1>2, Constants DEF End
<1>6. QED BY <1>1, <1>2, <1>3, <1>4, <1>5 DEF first, block

Walks(aFire) ==
  /\ ~DataBeat(aFire) =>
       /\ dw_state' \in Cutting \cup {"s_exp"}
       /\ dw_state' # "s_exp" => Position' = Position /\ End' = End
  /\ DataBeat(aFire) /\ Position + dataByte < End =>
       dw_state' \in Cutting /\ Position' = Position + dataByte /\ End' = End
  /\ DataBeat(aFire) /\ Position + dataByte >= End => DwQuiet'

LEMMA WalksBeat ==
  ASSUME WriterTypes, Writer, WriterTypes', Writer', Position < End,
         NEW aFire, DW!Beat(aFire)
  PROVE  Walks(aFire)
<1> DEFINE first == DW!vxo(vaddr)
           block == DW!vxn(vaddr) * B
           size == DW!packet_size(len)
           next == addr + dataByte
<1>1. /\ dw_state = "s_dma_req" /\ dw_state' = "s_dma_req"
      /\ addr' = IF aFire THEN next % B ELSE addr
      /\ aFire => ~DW!LastBeat
      /\ UNCHANGED <<vaddr, dw_leftLen, more, len, base>>
  BY DEF DW!Beat, DW!packet, DW!s_dma_req, B
<1>2. /\ first \in 0 .. B - 1 /\ block \in Nat /\ dw_leftLen \in Nat /\ addr \in 0 .. B - 1
      /\ End = block + first + dw_leftLen
      /\ Position = block + (IF addr < first THEN first ELSE addr)
  BY <1>1, PlaceNumbers
<1>3. /\ addr' \in 0 .. B - 1 /\ End' = End
      /\ Position' = block + (IF addr' < first THEN first ELSE addr')
  <2>1. DW!vxo(vaddr)' = first /\ (DW!vxn(vaddr) * B)' = block
    BY <1>1 DEF DW!vxo, DW!vxn, DW!maxSizeTL, B
  <2>2. Position' = block + (IF addr' < first THEN first ELSE addr')
    BY <1>1, <2>1 DEF Position, B
  <2>3. QED BY <1>1, <2>2 DEF End, WriterTypes, B, DW!maxSizeTL
<1>4. DW!isDataInvalid <=> addr < first \/ addr >= first + dw_leftLen
  BY DEF DW!isDataInvalid
<1>5. /\ addr < first => next <= first
      /\ aFire => next % B = next /\ next < base + size
  BY <1>1, BeatNumbers
<1>6. more => base + size = B /\ first + dw_leftLen > B
  BY <1>1, PacketNumbers DEF WithPacket, WriterTypes
<1>7. size \in Nat /\ base \in Nat /\ more \in BOOLEAN
  BY <1>1, PacketNumbers DEF WithPacket, WriterTypes
<1>8. DwQuiet' <=> ~more /\ addr' >= first + dw_leftLen
  <2>1. DW!vxo(vaddr)' = first
    BY <1>1 DEF DW!vxo, DW!maxSizeTL
  <2>2. QED BY <1>1, <2>1 DEF DwQuiet
<1>9. DataBeat(aFire) <=> aFire /\ ~(addr < first \/ addr >= first + dw_leftLen)
  BY <1>1, <1>4 DEF DataBeat
<1>10. dw_state' \in Cutting
  BY <1>1 DEF Cutting
<1> HIDE DEF first, block, size
<1>11. ASSUME ~DataBeat(aFire) PROVE Position' = Position /\ End' = End
  <2>1. CASE ~aFire
    BY <1>1, <1>2, <1>3, <2>1
  <2>2. CASE aFire
    <3>1. addr < first \/ addr >= first + dw_leftLen
      BY <1>9, <1>11, <2>2
    <3>2. addr < first
      BY <1>2, <3>1, Constants
    <3>3. addr' = next /\ next <= first
      BY <1>1, <1>5, <2>2, <3>2
    <3>4. QED BY <1>2, <1>3, <3>2, <3>3, Constants
  <2>3. QED BY <2>1, <2>2
<1>12. ASSUME DataBeat(aFire)
       PROVE  /\ Position = block + addr /\ Position' = Position + dataByte
              /\ addr' = addr + dataByte
  <2>1. addr >= first /\ aFire
    BY <1>2, <1>9, <1>12, Constants
  <2>2. addr' = next
    BY <1>1, <1>5, <2>1
  <2>3. QED BY <1>2, <1>3, <2>1, <2>2, Constants
<1>13. ASSUME DataBeat(aFire), Position + dataByte >= End PROVE DwQuiet'
  <2>1. addr + dataByte >= first + dw_leftLen /\ addr' >= first + dw_leftLen
    BY <1>2, <1>12, <1>13, Constants
  <2>2. ~more
    <3>1. aFire /\ next < base + size
      BY <1>5, <1>9, <1>13
    <3>2. QED BY <1>2, <1>6, <1>7, <2>1, <3>1, Constants
  <2>3. QED BY <1>8, <2>1, <2>2
<1>14. QED BY <1>3, <1>10, <1>11, <1>12, <1>13 DEF Walks

LEMMA WalksDone ==
  ASSUME WriterTypes, Writer, WriterTypes', Writer', Position < End,
         NEW aFire, DW!Done(aFire)
  PROVE  Walks(aFire)
<1> DEFINE first == DW!vxo(vaddr)
           block == DW!vxn(vaddr) * B
           size == DW!packet_size(len)
           next == addr + dataByte
<1>1. /\ dw_state = "s_dma_req" /\ dw_state' = IF more THEN "s_slice" ELSE "s_idle"
      /\ aFire /\ DW!LastBeat
  BY DEF DW!Done, DW!s_dma_req, DW!s_slice, DW!s_idle
<1>2. /\ first \in 0 .. B - 1 /\ block \in Nat /\ dw_leftLen \in Nat /\ addr \in 0 .. B - 1
      /\ End = block + first + dw_leftLen
      /\ Position = block + (IF addr < first THEN first ELSE addr)
  BY <1>1, PlaceNumbers
<1>3. ~(addr < first)
  BY <1>1, BeatNumbers
<1>4. /\ size \in Nat /\ base \in Nat /\ more \in BOOLEAN /\ (more => base + size = B)
      /\ (~more => first + dw_leftLen <= base + size) /\ (size < dataByte => ~more)
  BY <1>1, PacketNumbers DEF WithPacket, WriterTypes
<1>5. dataByte <= size => next = base + size
  BY <1>1, BeatNumbers
<1>6. next >= base + size
  BY <1>1 DEF DW!LastBeat
<1>7. more => /\ vaddr' = block + B /\ dw_leftLen' > 0
              /\ dw_leftLen' = first + dw_leftLen - B
  BY WriterDone
<1>8. DataBeat(aFire)
  <2>1. ~(addr >= first + dw_leftLen)
    <3> HIDE DEF first, block
    <3>1. QED BY <1>2, <1>3, Constants
  <2>2. ~DW!isDataInvalid
    BY <1>3, <2>1 DEF DW!isDataInvalid
  <2>3. QED BY <1>1, <2>2 DEF DataBeat
<1> HIDE DEF first, block, size
<1>9. CASE more
  <2>1. dw_state' = "s_slice"
    BY <1>1, <1>9
  <2>2. Position' = vaddr' /\ End' = vaddr' + dw_leftLen'
    BY <2>1 DEF Position, End
  <2>3. next = B
    BY <1>4, <1>5, <1>9, Constants
  <2>4. Position' = Position + dataByte /\ End' = End /\ Position + dataByte < End
    BY <1>2, <1>3, <1>7, <1>9, <2>2, <2>3, Constants
  <2>5. ~(Position + dataByte >= End)
    <3>1. Position \in Nat /\ End \in Nat
      BY <1>2, <1>3, Constants
    <3>2. QED BY <2>4, <3>1, Constants
  <2>6. QED BY <1>8, <2>1, <2>4, <2>5 DEF Walks, Cutting
<1>10. CASE ~more
  <2>1. DwQuiet'
    BY <1>1, <1>10 DEF DwQuiet
  <2>2. ~(Position + dataByte < End)
    BY <1>2, <1>3, <1>4, <1>6, <1>10, Constants
  <2>3. QED BY <1>8, <2>1, <2>2 DEF Walks
<1>11. QED BY <1>9, <1>10

LEMMA WriterWalks ==
  ASSUME WriterTypes, Writer, WriterTypes', Writer', Position < End, dw_state \in Cutting,
         NEW tlbReqFire, NEW tlbRespFire, NEW miss, NEW aFire, NEW expAck,
         DW!Serve(tlbReqFire, tlbRespFire, miss, aFire, expAck)
  PROVE  Walks(aFire)
<1>1. CASE DW!Slice \/ DW!Wait \/ DW!TlbReq(tlbReqFire)
  <2>1. /\ dw_state \in Cutting \ {"s_dma_req"} /\ dw_state' \in Cutting \ {"s_dma_req"}
        /\ UNCHANGED <<vaddr, dw_leftLen>>
    BY <1>1 DEF DW!Slice, DW!Wait, DW!TlbReq, DW!s_slice, DW!s_wait, DW!s_tlb_req,
                DW!s_tlb_resp, Cutting
  <2>2. Position' = Position /\ End' = End /\ ~DataBeat(aFire)
    BY <2>1 DEF Position, End, DataBeat
  <2>3. QED BY <2>1, <2>2 DEF Walks
<1>2. CASE DW!TlbResp(tlbRespFire, miss)
  <2>1. /\ dw_state = "s_tlb_resp" /\ dw_state' \in {"s_tlb_resp", "s_exp", "s_dma_req"}
        /\ addr' = base /\ UNCHANGED <<vaddr, dw_leftLen, more, len, base, tl_id>>
    BY <1>2 DEF DW!TlbResp, DW!packet, DW!s_tlb_resp, DW!s_exp, DW!s_dma_req
  <2>2. End' = End /\ ~DataBeat(aFire) /\ Position = vaddr
    BY <2>1 DEF End, DataBeat, Position
  <2>3. CASE dw_state' # "s_dma_req"
    BY <2>1, <2>2, <2>3 DEF Walks, Position, Cutting
  <2>4. CASE dw_state' = "s_dma_req"
    <3> DEFINE first == DW!vxo(vaddr)
               block == DW!vxn(vaddr) * B
    <3>1. first \in 0 .. B - 1 /\ block \in Nat /\ vaddr = block + first
      BY PlaceNumbers
    <3>2. base \in 0 .. B - 1 /\ base <= first
      BY <2>1, PacketNumbers DEF WithPacket, WriterTypes
    <3>3. Position' = block + (IF base < first THEN first ELSE base)
      <4>1. DW!vxo(vaddr)' = first /\ (DW!vxn(vaddr) * DW!maxSizeTL)' = block
        BY <2>1 DEF DW!vxo, DW!vxn, DW!maxSizeTL, B
      <4>2. QED BY <2>1, <2>4, <4>1 DEF Position
    <3> HIDE DEF first, block
    <3>4. Position' = Position
      BY <2>2, <3>1, <3>2, <3>3, Constants
    <3>5. QED BY <2>2, <2>4, <3>4 DEF Walks, Cutting
  <2>5. QED BY <2>3, <2>4
<1>3. CASE DW!Beat(aFire)
  BY <1>3, WalksBeat
<1>4. CASE DW!Done(aFire)
  BY <1>4, WalksDone
<1>5. dw_state # "s_idle" /\ dw_state # "s_exp"
  BY DEF Cutting
<1>6. QED BY <1>1, <1>2, <1>3, <1>4, <1>5 DEF DW!Serve, DW!Exp, DW!s_idle, DW!s_exp


---------------------------------------------------------------------------
(* Types. *)
LEMMA RequestNumbers ==
  ASSUME NEW r \in Requests
  PROVE  /\ Aligned(r.remote_addr) /\ Aligned(r.spad_addr)
         /\ r.remote_addr \in Nat /\ r.spad_addr \in Nat
         /\ r.total_len \in 2 .. W - 1 /\ r.total_len \in Nat
<1>1. 2^maxLgSizeTL \in Nat \ {0}
  BY StorePathAssumption, PowersAssumption
<1>2. r.total_len \in 2 .. W - 2^maxLgSizeTL
  BY RequestsAssumption DEF W
<1>3. r.total_len \in 2 .. W - 1
  <2> DEFINE t == r.total_len
             m == 2^maxLgSizeTL
  <2> HIDE DEF t, m
  <2>1. t \in 2 .. W - m /\ m \in Nat \ {0}
    BY <1>1, <1>2 DEF t, m
  <2>2. t \in 2 .. W - 1
    BY <2>1, Constants
  <2>3. QED BY <2>2 DEF t
<1>4. QED BY <1>3, RequestsAssumption, Constants DEF Aligned

\* A cycle, with what the environment can do in it.
Env(aReady, acked) ==
  /\ aReady \in BOOLEAN /\ (aReady => dw_state = "s_dma_req" /\ unacked[tl_id] < MaxUnacked)
  /\ acked \subseteq {t \in Ids : unacked[t] > 0}

LEMMA Cycles ==
  ASSUME Next
  PROVE  \E aReady, tlbReqFire, tlbRespFire, miss, acked :
           Env(aReady, acked) /\ Cycle(aReady, tlbReqFire, tlbRespFire, miss, acked)
<1>1. PICK aReady      \in When(dw_state = "s_dma_req" /\ unacked[tl_id] < MaxUnacked),
           tlbReqFire  \in When(dw_state = "s_tlb_req"),
           tlbRespFire \in When(dw_state = "s_tlb_resp"),
           miss        \in When(dw_state = "s_tlb_resp" /\ TLBMayMiss),
           acked       \in {{}} \cup {{s} : s \in {t \in Ids : unacked[t] > 0}} :
        Cycle(aReady, tlbReqFire, tlbRespFire, miss, acked)
  BY Zenon DEF Next
<1>2. aReady \in BOOLEAN /\ (aReady => dw_state = "s_dma_req" /\ unacked[tl_id] < MaxUnacked)
  BY DEF When
<1>3. acked \subseteq {t \in Ids : unacked[t] > 0}
  OBVIOUS
<1>4. Env(aReady, acked)
  BY <1>2, <1>3 DEF Env
<1>5. QED BY <1>1, <1>4

LEMMA BusKeepsTypes ==
  ASSUME BusTypes, NEW aReady, NEW acked, Env(aReady, acked), BusStep(aReady, acked)
  PROVE  BusTypes'
<1> DEFINE taken(s) == IF s = tl_id /\ a_fire(aReady) /\ DW!LastBeat THEN 1 ELSE 0
           done(s) == IF s \in acked THEN 1 ELSE 0
<1>1. unacked' = [s \in Ids |-> unacked[s] + taken(s) - done(s)]
  BY DEF BusStep
<1>2. ASSUME NEW s \in Ids PROVE unacked[s] + taken(s) - done(s) \in 0 .. MaxUnacked
  <2>1. unacked[s] \in 0 .. MaxUnacked
    BY DEF BusTypes
  <2>2. taken(s) \in {0, 1} /\ (taken(s) = 1 => s = tl_id /\ a_fire(aReady))
    OBVIOUS
  <2>3. taken(s) = 1 => unacked[s] < MaxUnacked
    BY <2>2 DEF Env, a_fire
  <2>4. done(s) \in {0, 1} /\ (done(s) = 1 => unacked[s] > 0)
    BY DEF Env
  <2> HIDE DEF taken, done
  <2>5. QED BY <2>1, <2>2, <2>3, <2>4, Constants
<1> HIDE DEF taken, done
<1>3. QED BY <1>1, <1>2 DEF BusTypes

LEMMA ControlKeepsTypes ==
  ASSUME ControlTypes, NEW aReady, TakeCommand \/ ServeCommand(aReady)
  PROVE  ControlTypes'
<1>1. CASE TakeCommand
  <2>1. PICK r \in Requests : SC!Accept(r) /\ request' = r
    BY <1>1 DEF TakeCommand
  <2>2. /\ sc_state' = "s_spad_req" /\ remote_addr' = r.remote_addr
        /\ spad_addr' = r.spad_addr /\ sc_leftLen' = r.total_len /\ success' = TRUE
    BY <2>1 DEF SC!Accept, SC!s_spad_req
  <2>3. r.remote_addr \in Nat /\ r.spad_addr \in Nat /\ r.total_len \in 0 .. W - 1
    BY RequestNumbers, Constants
  <2>4. QED BY <2>1, <2>2, <2>3 DEF ControlTypes
<1>2. CASE ServeCommand(aReady)
  <2>1. request' = request
    BY <1>2 DEF ServeCommand
  <2>2. (sc_leftLen - dataByte) % W \in 0 .. W - 1
    BY Constants DEF ControlTypes
  <2>3. sc_leftLen' \in {sc_leftLen, (sc_leftLen - dataByte) % W}
    BY <1>2 DEF ServeCommand, SC!Serve, SC!SpadReq, SC!DmaReq, SC!Stream, SC!Exp, SC!Resp,
                SC!vars, W
  <2>4. /\ remote_addr' = remote_addr /\ spad_addr' = spad_addr
        /\ success' \in {success, FALSE}
    BY <1>2 DEF ServeCommand, SC!Serve, SC!SpadReq, SC!DmaReq, SC!Stream, SC!Exp, SC!Resp,
                SC!vars
  <2>5. sc_state' \in {sc_state, "s_spad_req", "s_dma_req", "s_stream", "s_exp", "s_resp", "s_idle"}
    BY <1>2 DEF ServeCommand, SC!Serve, SC!SpadReq, SC!DmaReq, SC!Stream, SC!Exp, SC!Resp,
                SC!vars, SC!s_idle, SC!s_spad_req, SC!s_dma_req, SC!s_stream, SC!s_exp,
                SC!s_resp
  <2>6. QED BY <2>1, <2>2, <2>3, <2>4, <2>5 DEF ControlTypes
<1>3. QED BY <1>1, <1>2

LEMMA MaxAddrNumbers ==
  ASSUME NEW a \in Nat, NEW l \in Nat
  PROVE  Spad!MaxAddr(a, l) \in Nat
BY Constants DEF Spad!MaxAddr

LEMMA WordNumbers ==
  ASSUME NEW a \in Nat
  PROVE  Spad!Word(a) \in Nat /\ (a % dataByte = 0 => Spad!Word(a) = a)
<1> DEFINE d == a \div dataByte
           r == a % dataByte
<1>1. d \in Nat /\ r \in Nat /\ a = dataByte * d + r
  BY Constants, Cut!Division
<1> HIDE DEF d, r
<1>2. d * dataByte \in Nat /\ (r = 0 => d * dataByte = a)
  BY <1>1, Constants
<1>3. QED BY <1>2 DEF Spad!Word, d, r

LEMMA PortKeepsTypes ==
  ASSUME PortTypes, ControlTypes, NEW aReady, SpadStep(aReady)
  PROVE  PortTypes'
<1>1. spad_addr \in Nat /\ sc_leftLen \in Nat /\ readAddr \in Nat
  BY Constants DEF ControlTypes, PortTypes
<1>2. /\ Spad!MaxAddr(spad_addr, sc_leftLen) \in Nat /\ Spad!Word(readAddr) \in Nat
      /\ readAddr + dataByte \in Nat
  <2>1. Spad!MaxAddr(spad_addr, sc_leftLen) \in Nat
    BY <1>1, MaxAddrNumbers
  <2>2. Spad!Word(readAddr) \in Nat
    BY <1>1, WordNumbers
  <2>3. readAddr + dataByte \in Nat
    BY <1>1, Constants
  <2>4. QED BY <2>1, <2>2, <2>3
<1>3. read_exp_ack' \in BOOLEAN
  BY DEF SpadStep, Spad!ExpAck
<1>4. \/ Spad!Accept(spad_addr, sc_leftLen)
      \/ Spad!Serve(SC!spad_exp_req, stream_ready(aReady))
  BY DEF SpadStep
<1>5. readState' \in {"s_read_idle", "s_read_data", "s_read_data_last"}
  BY <1>4 DEF PortTypes, Spad!Accept, Spad!Serve, Spad!Idle, Spad!Abort, Spad!Fetch, Spad!Last,
              Spad!Stall, Spad!s_read_idle, Spad!s_read_data, Spad!s_read_data_last
<1>6. /\ readAddr' \in {readAddr, spad_addr, readAddr + dataByte}
      /\ readMaxAddr' \in {readMaxAddr, Spad!MaxAddr(spad_addr, sc_leftLen)}
      /\ rdata' \in {rdata, Spad!Word(readAddr)} /\ rdataValid' \in {rdataValid, TRUE, FALSE}
  <2>1. CASE Spad!Accept(spad_addr, sc_leftLen)
    BY <2>1 DEF Spad!Accept
  <2>2. CASE Spad!Fetch(SC!spad_exp_req, stream_ready(aReady))
    BY <2>2 DEF Spad!Fetch
  <2>3. CASE \/ Spad!Idle \/ Spad!Abort(SC!spad_exp_req) \/ Spad!Last(stream_ready(aReady))
             \/ Spad!Stall(SC!spad_exp_req, stream_ready(aReady))
    BY <2>3 DEF Spad!Idle, Spad!Abort, Spad!Last, Spad!Stall
  <2>4. QED BY <1>4, <2>1, <2>2, <2>3 DEF Spad!Serve
<1>7. readAddr' \in Nat /\ readMaxAddr' \in Nat /\ rdata' \in Nat /\ rdataValid' \in BOOLEAN
  BY <1>1, <1>2, <1>6 DEF PortTypes
<1>8. QED BY <1>3, <1>5, <1>7 DEF PortTypes

LEMMA CycleKeepsTypes ==
  ASSUME TypeOK, Writer, Control, NEW aReady, NEW tlbReqFire, NEW tlbRespFire, NEW miss,
         NEW acked, Env(aReady, acked), Cycle(aReady, tlbReqFire, tlbRespFire, miss, acked)
  PROVE  TypeOK' /\ WriterTypes' /\ Writer'
<1>1. ControlTypes /\ PortTypes /\ WriterTypes /\ BusTypes
  BY Types
<1>2. ControlTypes'
  BY <1>1, ControlKeepsTypes DEF Cycle
<1>3. PortTypes'
  BY <1>1, PortKeepsTypes DEF Cycle
<1>4. BusTypes'
  BY <1>1, BusKeepsTypes DEF Cycle
<1>5. dma_req_fire => Aligned(remote_addr) /\ sc_leftLen \in 2 .. W - 1
  <2>1. SUFFICES ASSUME dma_req_fire PROVE Aligned(remote_addr) /\ sc_leftLen \in 2 .. W - 1
    OBVIOUS
  <2>2. sc_state = "s_dma_req"
    BY <2>1 DEF dma_req_fire, SC!dma_req_valid, SC!s_dma_req
  <2>3. remote_addr = request.remote_addr /\ sc_leftLen = request.total_len
    BY <2>2 DEF Control
  <2>4. QED BY <1>1, <2>3, RequestNumbers DEF ControlTypes
<1>6. Asks(aReady, tlbReqFire, tlbRespFire, miss)
  BY <1>5 DEF Asks, Cycle
<1>7. WriterTypes' /\ Writer'
  BY <1>1, <1>6, WriterStep
<1>8. TypeOK'
  <2>1. (ControlTypes /\ PortTypes /\ WriterTypes /\ BusTypes)'
    BY <1>2, <1>3, <1>4, <1>7
  <2>2. (TypeOK <=> ControlTypes /\ PortTypes /\ WriterTypes /\ BusTypes)'
    BY Types, PTL
  <2>3. QED BY <2>1, <2>2
<1>9. QED BY <1>7, <1>8


---------------------------------------------------------------------------
(* What the beats bring to memory. *)
LEMMA BytesMonotone ==
  ASSUME NEW r, NEW m \in Nat, NEW n \in Nat, m <= n
  PROVE  Service!Bytes(r, m) \subseteq Service!Bytes(r, n)
<1>1. 0 .. m - 1 \subseteq 0 .. n - 1
  OBVIOUS
<1>2. QED BY <1>1, Zenon DEF Service!Bytes

LEMMA BytesGrow ==
  ASSUME NEW r, NEW s \in Nat, NEW n \in Nat, r.remote_addr \in Nat, r.spad_addr \in Nat
  PROVE  Service!Bytes(r, s)
           \cup {<<(r.remote_addr + s) + k, (r.spad_addr + s) + k>> : k \in 0 .. n - 1}
           = Service!Bytes(r, s + n)
<1> DEFINE a == r.remote_addr
           b == r.spad_addr
           P(k) == <<a + k, b + k>>
           Q(k) == <<(a + s) + k, (b + s) + k>>
<1>1. a \in Nat /\ b \in Nat
  OBVIOUS
<1>2. \A k \in Nat : Q(k) = P(s + k)
  <2> HIDE DEF a, b
  <2>1. \A k \in Nat : (a + s) + k = a + (s + k) /\ (b + s) + k = b + (s + k)
    BY <1>1
  <2>2. QED BY <2>1
<1>3. Service!Bytes(r, s) = {P(k) : k \in 0 .. s - 1}
  BY DEF Service!Bytes
<1>4. Service!Bytes(r, s + n) = {P(k) : k \in 0 .. (s + n) - 1}
  BY DEF Service!Bytes
<1> HIDE DEF P, Q
<1>5. ASSUME NEW k \in 0 .. n - 1 PROVE Q(k) \in {P(i) : i \in 0 .. (s + n) - 1}
  <2>1. s + k \in 0 .. (s + n) - 1 /\ Q(k) = P(s + k)
    BY <1>2
  <2>2. QED BY <2>1
<1>6. ASSUME NEW k \in 0 .. (s + n) - 1
      PROVE  P(k) \in {P(i) : i \in 0 .. s - 1} \cup {Q(i) : i \in 0 .. n - 1}
  <2>1. CASE k <= s - 1
    <3>1. k \in 0 .. s - 1
      BY <2>1
    <3>2. QED BY <3>1
  <2>2. CASE k >= s
    <3>1. k - s \in 0 .. n - 1 /\ k - s \in Nat /\ s + (k - s) = k
      BY <2>2
    <3>2. Q(k - s) = P(s + (k - s))
      BY <1>2, <3>1
    <3>3. P(k) = Q(k - s)
      BY <3>1, <3>2
    <3>4. QED BY <3>1, <3>3
  <2>3. QED BY <2>1, <2>2
<1>7. ASSUME NEW k \in 0 .. s - 1 PROVE P(k) \in {P(i) : i \in 0 .. (s + n) - 1}
  <2>1. k \in 0 .. (s + n) - 1
    OBVIOUS
  <2>2. QED BY <2>1
<1>8. {P(k) : k \in 0 .. s - 1} \cup {Q(k) : k \in 0 .. n - 1}
      = {P(k) : k \in 0 .. (s + n) - 1}
  BY <1>5, <1>6, <1>7
<1>9. QED BY <1>3, <1>4, <1>8 DEF P, Q

\* A store in whole words ends with the word in which it ends.
LEMMA WholeWordsNumbers ==
  ASSUME NEW r, r.total_len \in Nat \ {0}
  PROVE  /\ Service!WholeWords(r) \in Nat /\ r.total_len <= Service!WholeWords(r)
         /\ \A s \in Nat : s % dataByte = 0 /\ s < r.total_len
                             => s + dataByte <= Service!WholeWords(r)
<1> DEFINE t == r.total_len
           x == t + dataByte - 1
           whole == x - (x % dataByte)
<1>1. t \in Nat \ {0} /\ dataByte \in Nat \ {0}
  BY Constants
<1> HIDE DEF t
<1>2. x \in Nat
  BY <1>1
<1>3. /\ whole \in Nat /\ whole % dataByte = 0 /\ whole <= x /\ x < whole + dataByte
      /\ whole = dataByte * (x \div dataByte)
  <2> HIDE DEF x
  <2>1. QED BY <1>1, <1>2, Cut!AlignDown
<1>4. Service!WholeWords(r) = whole
  <2>1. Service!WholeWords(r) = (x \div dataByte) * dataByte
    BY DEF Service!WholeWords, t
  <2>2. x \div dataByte \in Nat
    BY <1>1, <1>2, Cut!Division
  <2> DEFINE d == x \div dataByte
  <2>3. d \in Nat /\ whole = dataByte * d
    BY <1>3, <2>2
  <2> HIDE DEF d, whole
  <2>4. d * dataByte = whole
    BY <1>1, <2>3
  <2>5. QED BY <2>1, <2>4 DEF d
<1> HIDE DEF whole
<1>5. t <= whole
  BY <1>1, <1>2, <1>3
<1>6. ASSUME NEW s \in Nat, s % dataByte = 0, s < t PROVE s + dataByte <= whole
  <2>1. s < whole
    BY <1>1, <1>3, <1>5, <1>6
  <2>2. QED BY <1>1, <1>3, <1>6, <2>1, Cut!MultipleStep
<1>7. QED BY <1>3, <1>4, <1>5, <1>6 DEF t

\* A beat carries the next bytes of the store, a word of them or all that
\* are left.
LEMMA BeatCarries ==
  ASSUME WriterTypes, Writer, dw_state = "s_dma_req", ~DW!isDataInvalid,
         NEW a \in Nat, NEW b \in Nat, Position = a, rdata = b
  PROVE  \E n \in 1 .. dataByte :
           /\ Carried = {<<a + k, b + k>> : k \in 0 .. n - 1}
           /\ n = dataByte \/ Position + n >= End
<1> DEFINE first == DW!vxo(vaddr)
           block == DW!vxn(vaddr) * B
           size == DW!packet_size(len)
           n == IF size < dataByte THEN size ELSE dataByte
           m == block + addr
<1>1. /\ first \in 0 .. B - 1 /\ block \in Nat /\ dw_leftLen \in Nat /\ addr \in 0 .. B - 1
      /\ End = block + first + dw_leftLen
      /\ Position = block + (IF addr < first THEN first ELSE addr)
  BY PlaceNumbers
<1>2. ~(addr < first) /\ ~(addr >= first + dw_leftLen)
  BY DEF DW!isDataInvalid
<1>3. /\ size \in Nat \ {0} /\ base \in 0 .. B - 1 /\ more \in BOOLEAN
      /\ size < dataByte => base = first /\ ~more
      /\ ~more => first + dw_leftLen <= base + size
  BY PacketNumbers DEF WithPacket, WriterTypes
<1>4. n \in 1 .. dataByte
  <2> HIDE DEF size
  <2>1. QED BY <1>3, Constants
<1>5. base <= addr
  BY BeatNumbers
<1>6. DW!MaskedBytes = m .. (m + n - 1)
  BY DEF DW!MaskedBytes, B
<1>7. Carried = {<<i, b + (i - m)>> : i \in m .. (m + n - 1)}
  BY <1>6 DEF Carried, B
<1> HIDE DEF first, block, size
<1>8. m = a /\ m \in Nat
  BY <1>1, <1>2, Constants
<1>9. n = dataByte \/ Position + n >= End
  <2>1. CASE size < dataByte
    <3>1. n = size /\ base = first /\ first + dw_leftLen <= base + size
      BY <1>3, <2>1
    <3>2. QED BY <1>1, <1>2, <1>3, <1>5, <3>1, Constants
  <2>2. CASE ~(size < dataByte)
    BY <2>2
  <2>3. QED BY <2>1, <2>2
<1> HIDE DEF n, m
<1>10. {<<i, b + (i - m)>> : i \in m .. (m + n - 1)} = {<<a + k, b + k>> : k \in 0 .. n - 1}
  <2>1. n \in Nat
    BY <1>4, Constants
  <2>2. ASSUME NEW i \in m .. (m + n - 1)
        PROVE  <<i, b + (i - m)>> \in {<<a + k, b + k>> : k \in 0 .. n - 1}
    <3>1. i - m \in 0 .. n - 1 /\ a + (i - m) = i
      BY <1>8, <2>1
    <3>2. QED BY <3>1
  <2>3. ASSUME NEW k \in 0 .. n - 1
        PROVE  <<a + k, b + k>> \in {<<i, b + (i - m)>> : i \in m .. (m + n - 1)}
    <3>1. a + k \in m .. (m + n - 1) /\ (a + k) - m = k
      BY <1>8, <2>1
    <3>2. QED BY <3>1
  <2>4. QED BY <2>2, <2>3
<1>11. QED BY <1>4, <1>7, <1>9, <1>10

\* A quiet writer brings nothing.
LEMMA InvalidCarriesNothing ==
  ASSUME dw_state = "s_dma_req" => DW!isDataInvalid, NEW aReady
  PROVE  a_fire(aReady) => Carried = {}
<1>1. DW!isDataInvalid => DW!MaskedBytes = {}
  BY DEF DW!MaskedBytes
<1>2. DW!MaskedBytes = {} => Carried = {}
  BY DEF Carried
<1>3. a_fire(aReady) => dw_state = "s_dma_req"
  BY DEF a_fire, DW!a_valid, DW!s_dma_req
<1>4. QED BY <1>1, <1>2, <1>3


---------------------------------------------------------------------------
(* The three blocks in step. *)
fire(aReady) == rdataValid /\ stream_ready(aReady)

LEMMA FireIsDataBeat ==
  ASSUME sc_state = "s_stream", PortTypes, NEW aReady \in BOOLEAN
  PROVE  /\ fire(aReady) <=> DataBeat(a_fire(aReady))
         /\ ~fire(aReady) /\ a_fire(aReady) => Carried = {}
<1>1. fire(aReady) <=> rdataValid /\ dw_state = "s_dma_req" /\ aReady /\ ~DW!isDataInvalid
  BY DEF fire, stream_ready, DW!stream_ready, SC!streaming, SC!s_stream, DW!s_dma_req
<1>2. a_fire(aReady) <=>
        dw_state = "s_dma_req" /\ (rdataValid \/ DW!isDataInvalid) /\ aReady
  BY DEF a_fire, DW!a_valid, stream_valid, SC!streaming, SC!s_stream, DW!s_dma_req
<1>3. DW!isDataInvalid \in BOOLEAN
  BY DEF DW!isDataInvalid
<1>4. fire(aReady) <=> DataBeat(a_fire(aReady))
  BY <1>1, <1>2, <1>3 DEF DataBeat, PortTypes
<1>5. ASSUME ~fire(aReady), a_fire(aReady) PROVE Carried = {}
  <2>1. DW!isDataInvalid
    BY <1>1, <1>2, <1>3, <1>5
  <2>2. QED BY <1>5, <2>1, InvalidCarriesNothing
<1>6. QED BY <1>4, <1>5

\* The last address of the port is that of the last word of the store.
LEMMA LastAddress ==
  ASSUME NEW a \in Nat, NEW t \in Nat, NEW l \in 1 .. t
  PROVE  a + (t - l) >= Spad!MaxAddr(a, t) <=> l <= dataByte
BY Constants DEF Spad!MaxAddr

LEMMA AlignedSum ==
  ASSUME NEW a, Aligned(a), NEW s \in Nat, s % dataByte = 0
  PROVE  Aligned(a + s)
<1>1. a \in Nat /\ a % dataByte = 0
  BY DEF Aligned
<1>2. (a + s) % dataByte = s % dataByte
  BY <1>1, Constants, Cut!MultipleSum
<1>3. QED BY <1>1, <1>2 DEF Aligned

\* The port follows the stream.
LEMMA PortFollows ==
  ASSUME PortTypes, sc_state = "s_stream", request \in Requests,
         sc_leftLen \in 1 .. request.total_len, Sent % dataByte = 0, PortStreams,
         NEW aReady \in BOOLEAN, SpadStep(aReady), request' = request
  PROVE  /\ ~fire(aReady) /\ sc_leftLen' = sc_leftLen => PortStreams'
         /\ fire(aReady) /\ sc_leftLen > dataByte /\ sc_leftLen' = sc_leftLen - dataByte =>
              PortStreams'
         /\ fire(aReady) /\ sc_leftLen <= dataByte => readState' = "s_read_idle"
<1> DEFINE a == request.spad_addr
           t == request.total_len
           l == sc_leftLen
           top == Spad!MaxAddr(a, t)
<1>1. /\ Aligned(a) /\ a \in Nat /\ t \in Nat /\ l \in 1 .. t /\ dataByte \in Nat \ {0}
      /\ Sent = t - l /\ (t - l) % dataByte = 0
  BY RequestNumbers, Constants DEF Sent
<1>2. Spad!Serve(FALSE, stream_ready(aReady))
  <2>1. ~spad_req_fire /\ (SC!spad_exp_req <=> FALSE)
    BY DEF spad_req_fire, SC!spad_req_valid, SC!spad_exp_req, SC!s_spad_req, SC!s_exp
  <2>2. Spad!Serve(SC!spad_exp_req, stream_ready(aReady))
    BY <2>1 DEF SpadStep
  <2>3. SC!spad_exp_req = FALSE
    BY <2>1 DEF SC!spad_exp_req
  <2>4. QED BY <2>2, <2>3
<1>3. /\ readState \in {"s_read_data", "s_read_data_last"} /\ readMaxAddr = top
      /\ rdataValid =>
           /\ rdata = a + (t - l) /\ readAddr = a + (t - l) + dataByte
           /\ readState = IF l <= dataByte THEN "s_read_data_last" ELSE "s_read_data"
      /\ ~rdataValid => readState = "s_read_data" /\ readAddr = a + (t - l)
  BY <1>1 DEF PortStreams
<1>4. (PortStreams <=>
        /\ readMaxAddr = Spad!MaxAddr(request.spad_addr, request.total_len)
        /\ IF rdataValid
           THEN /\ rdata = request.spad_addr + Sent
                /\ readAddr = request.spad_addr + Sent + dataByte
                /\ readState = IF sc_leftLen <= dataByte THEN "s_read_data_last"
                               ELSE "s_read_data"
           ELSE readState = "s_read_data" /\ readAddr = request.spad_addr + Sent)'
  BY DEF PortStreams
<1>5. Sent' = t - sc_leftLen'
  BY DEF Sent
<1>6. CASE ~stream_ready(aReady)
  <2>1. UNCHANGED <<readState, readAddr, readMaxAddr, rdataValid, rdata>>
    BY <1>2, <1>3, <1>6 DEF Spad!Serve, Spad!Idle, Spad!Abort, Spad!Fetch, Spad!Last,
                            Spad!Stall, Spad!s_read_idle
  <2>2. ~fire(aReady)
    BY <1>6 DEF fire
  <2>3. ASSUME sc_leftLen' = sc_leftLen PROVE PortStreams'
    <3>1. Sent' = Sent
      BY <1>5, <2>3 DEF Sent
    <3>2. QED BY <2>1, <2>3, <3>1 DEF PortStreams, Spad!MaxAddr
  <2>4. QED BY <2>2, <2>3
<1>7. CASE stream_ready(aReady) /\ ~rdataValid
  <2>1. ~fire(aReady)
    BY <1>7 DEF fire
  <2>2. readState = "s_read_data" /\ readAddr = a + (t - l)
    BY <1>3, <1>7
  <2>3. /\ rdata' = Spad!Word(readAddr) /\ rdataValid' = TRUE
        /\ readAddr' = readAddr + dataByte /\ readMaxAddr' = readMaxAddr
        /\ readState' = IF readAddr >= readMaxAddr THEN "s_read_data_last" ELSE "s_read_data"
    BY <1>2, <1>7, <2>2 DEF Spad!Serve, Spad!Idle, Spad!Abort, Spad!Fetch, Spad!Last,
         Spad!Stall, Spad!s_read_idle, Spad!s_read_data, Spad!s_read_data_last
  <2>4. Aligned(readAddr)
    <3>1. t - l \in Nat
      BY <1>1
    <3>2. QED BY <1>1, <2>2, <3>1, AlignedSum
  <2>5. Spad!Word(readAddr) = readAddr
    BY <2>4, WordNumbers DEF Aligned
  <2>6. readAddr >= readMaxAddr <=> l <= dataByte
    BY <1>1, <1>3, <2>2, LastAddress
  <2>7. ASSUME sc_leftLen' = sc_leftLen PROVE PortStreams'
    <3>1. Sent' = t - l
      BY <1>5, <2>7
    <3>2. readMaxAddr' = Spad!MaxAddr(request'.spad_addr, request'.total_len)
      BY <1>3, <2>3
    <3>3. /\ rdata' = request'.spad_addr + Sent'
          /\ readAddr' = request'.spad_addr + Sent' + dataByte
      BY <2>2, <2>3, <2>5, <3>1
    <3>4. readState' = IF sc_leftLen' <= dataByte THEN "s_read_data_last" ELSE "s_read_data"
      BY <2>3, <2>6, <2>7
    <3>5. QED BY <1>4, <2>3, <3>2, <3>3, <3>4 DEF Spad!MaxAddr
  <2>8. QED BY <2>1, <2>7
<1>8. CASE stream_ready(aReady) /\ rdataValid
  <2>1. fire(aReady)
    BY <1>8 DEF fire
  <2>2. CASE l <= dataByte
    <3>1. readState = "s_read_data_last"
      BY <1>3, <1>8, <2>2
    <3>2. readState' = "s_read_idle"
      BY <1>2, <1>8, <3>1 DEF Spad!Serve, Spad!Idle, Spad!Abort, Spad!Fetch, Spad!Last,
           Spad!Stall, Spad!s_read_idle, Spad!s_read_data, Spad!s_read_data_last
    <3>3. ~(l > dataByte)
      BY <1>1, <2>2
    <3>4. QED BY <2>1, <3>2, <3>3
  <2>3. CASE l > dataByte
    <3>1. ~(l <= dataByte)
      BY <1>1, <2>3
    <3>2. readState = "s_read_data" /\ readAddr = a + (t - l) + dataByte
      BY <1>3, <1>8, <3>1
    <3>3. /\ rdata' = Spad!Word(readAddr) /\ rdataValid' = TRUE
          /\ readAddr' = readAddr + dataByte /\ readMaxAddr' = readMaxAddr
          /\ readState' = IF readAddr >= readMaxAddr THEN "s_read_data_last" ELSE "s_read_data"
      BY <1>2, <1>8, <3>2 DEF Spad!Serve, Spad!Idle, Spad!Abort, Spad!Fetch, Spad!Last,
           Spad!Stall, Spad!s_read_idle, Spad!s_read_data, Spad!s_read_data_last
    <3> DEFINE k == l - dataByte
    <3>4. k \in 1 .. t /\ readAddr = a + (t - k) /\ t - k \in Nat /\ t - k = (t - l) + dataByte
      <4> HIDE DEF a, t, l
      <4>1. QED BY <1>1, <2>3, <3>2
    <3>5. (t - k) % dataByte = 0
      <4> DEFINE d == t - l
      <4>1. d \in Nat /\ d % dataByte = 0 /\ dataByte % dataByte = 0
        <5>1. dataByte = dataByte * 1
          BY <1>1
        <5>2. QED BY <1>1, <5>1, Cut!Multiple
      <4> HIDE DEF d
      <4>2. (d + dataByte) % dataByte = dataByte % dataByte
        BY <1>1, <4>1, Cut!MultipleSum
      <4>3. QED BY <3>4, <4>1, <4>2 DEF d
    <3>6. Aligned(readAddr)
      BY <1>1, <3>4, <3>5, AlignedSum
    <3>7. Spad!Word(readAddr) = readAddr
      BY <3>6, WordNumbers DEF Aligned
    <3>8. readAddr >= readMaxAddr <=> k <= dataByte
      <4> HIDE DEF k
      <4>1. QED BY <1>1, <1>3, <3>4, LastAddress
    <3>9. ASSUME sc_leftLen' = sc_leftLen - dataByte PROVE PortStreams'
      <4>1. Sent' = t - k /\ sc_leftLen' = k
        BY <1>5, <3>9
      <4> HIDE DEF k
      <4>2. readMaxAddr' = Spad!MaxAddr(request'.spad_addr, request'.total_len)
        BY <1>3, <3>3
      <4>3. /\ rdata' = request'.spad_addr + Sent'
            /\ readAddr' = request'.spad_addr + Sent' + dataByte
        BY <3>3, <3>4, <3>7, <4>1
      <4>4. readState' = IF sc_leftLen' <= dataByte THEN "s_read_data_last" ELSE "s_read_data"
        BY <3>3, <3>8, <4>1
      <4>5. QED BY <1>4, <3>3, <4>2, <4>3, <4>4 DEF Spad!MaxAddr
    <3>10. QED BY <2>1, <3>1, <3>9
  <2>4. QED BY <1>1, <2>2, <2>3
<1>9. QED BY <1>6, <1>7, <1>8 DEF PortTypes


---------------------------------------------------------------------------
(* A cycle, by the state of the controller. *)
\* A cycle from a state of the invariant, with the types after it.
Runs(aReady, tlbReqFire, tlbRespFire, miss) ==
  /\ PortTypes /\ ControlTypes /\ WriterTypes /\ Writer /\ Control /\ Streaming /\ Copied
  /\ aReady \in BOOLEAN
  /\ TakeCommand \/ ServeCommand(aReady)
  /\ SpadStep(aReady) /\ DMAStep(aReady, tlbReqFire, tlbRespFire, miss)
  /\ WriterTypes' /\ Writer'

LEMMA Reads ==
  ASSUME ControlTypes
  PROVE  request.total_len \in 2 .. W - 1 /\ request.total_len \in Nat \ {0}
BY RequestNumbers, Constants DEF ControlTypes

\* The stream runs and no word moves.
LEMMA StreamWaits ==
  ASSUME NEW aReady, NEW tlbReqFire, NEW tlbRespFire, NEW miss,
         Runs(aReady, tlbReqFire, tlbRespFire, miss),
         sc_state = "s_stream", dw_state # "s_exp", ~fire(aReady),
         UNCHANGED <<sc_state, sc_leftLen, success, request>>,
         copied' = copied \cup (IF a_fire(aReady) THEN Carried ELSE {}),
         Walks(a_fire(aReady))
  PROVE  (Control /\ Streaming /\ Copied)'
<1>1. /\ PortTypes /\ ControlTypes /\ WriterTypes /\ Writer /\ Control /\ Streaming /\ Copied
      /\ aReady \in BOOLEAN /\ SpadStep(aReady)
  BY DEF Runs
<1>2. copied' = copied
  BY <1>1, FireIsDataBeat
<1>3. /\ dw_state' \in Cutting \cup {"s_exp"}
      /\ dw_state' # "s_exp" => Position' = Position /\ End' = End
  BY <1>1, FireIsDataBeat DEF Walks
<1>4. /\ sc_leftLen \in 1 .. request.total_len /\ Sent % dataByte = 0
      /\ Position = request.remote_addr + Sent
      /\ End = request.remote_addr + request.total_len
      /\ PortStreams /\ copied = Service!Bytes(request, Sent)
  BY <1>1 DEF Streaming
<1>5. PortStreams'
  BY <1>1, <1>4, PortFollows DEF ControlTypes
<1>6. Sent' = Sent
  BY DEF Sent
<1>7. Streaming'
  <2>1. Service!Bytes(request, Sent)' = Service!Bytes(request, Sent)
    BY <1>6 DEF Service!Bytes
  <2>2. QED BY <1>2, <1>3, <1>4, <1>5, <1>6, <2>1 DEF Streaming, Cutting
<1>8. ~read_exp_ack'
  BY <1>1 DEF Control, SpadStep, Spad!ExpAck, SC!spad_exp_req, SC!s_exp
<1>9. Control'
  BY <1>1, <1>3, <1>8 DEF Control
<1>10. Copied'
  <2>1. Service!Bytes(request, Service!WholeWords(request))'
          = Service!Bytes(request, Service!WholeWords(request))
    BY DEF Service!Bytes, Service!WholeWords
  <2>2. QED BY <1>1, <1>2, <2>1 DEF Copied
<1>11. QED BY <1>7, <1>9, <1>10

\* A word moves.  What the beat brings is what the store is to have next.
LEMMA StreamMoves ==
  ASSUME NEW aReady, NEW tlbReqFire, NEW tlbRespFire, NEW miss,
         Runs(aReady, tlbReqFire, tlbRespFire, miss),
         sc_state = "s_stream", dw_state # "s_exp", fire(aReady),
         UNCHANGED <<success, request>>,
         sc_leftLen' = (sc_leftLen - dataByte) % W,
         sc_state' = IF sc_leftLen <= dataByte THEN "s_resp" ELSE "s_stream",
         copied' = copied \cup (IF a_fire(aReady) THEN Carried ELSE {}),
         Walks(a_fire(aReady))
  PROVE  (Control /\ Streaming /\ Copied)'
<1> DEFINE r == request
           t == request.total_len
           l == sc_leftLen
           s == t - l
<1>1. /\ PortTypes /\ ControlTypes /\ WriterTypes /\ Writer /\ Control /\ Streaming /\ Copied
      /\ aReady \in BOOLEAN /\ SpadStep(aReady)
  BY DEF Runs
<1>2. /\ l \in 1 .. t /\ Sent = s /\ s % dataByte = 0
      /\ Position = r.remote_addr + s /\ End = r.remote_addr + t
      /\ PortStreams /\ copied = Service!Bytes(r, s)
  BY <1>1 DEF Streaming, Sent
<1>3. /\ r \in Requests /\ r.remote_addr \in Nat /\ r.spad_addr \in Nat /\ t \in 2 .. W - 1
      /\ t \in Nat \ {0} /\ Aligned(r.remote_addr) /\ Aligned(r.spad_addr)
  BY <1>1, RequestNumbers, Constants DEF ControlTypes
<1>4. s \in Nat /\ s < t /\ dataByte \in Nat \ {0} /\ l \in Nat
  <2> HIDE DEF t, l
  <2>1. QED BY <1>2, <1>3, Constants
<1>5. DataBeat(a_fire(aReady)) /\ rdataValid
  BY <1>1, FireIsDataBeat DEF fire
<1>6. dw_state = "s_dma_req" /\ ~DW!isDataInvalid /\ a_fire(aReady)
  BY <1>5 DEF DataBeat
<1>7. rdata = r.spad_addr + s
  BY <1>2, <1>5 DEF PortStreams
<1>8. PICK n \in 1 .. dataByte :
        /\ Carried = {<<(r.remote_addr + s) + k, (r.spad_addr + s) + k>> : k \in 0 .. n - 1}
        /\ n = dataByte \/ Position + n >= End
  <2>1. r.remote_addr + s \in Nat /\ r.spad_addr + s \in Nat
    <3> HIDE DEF s
    <3>1. QED BY <1>3, <1>4
  <2>2. QED BY <1>1, <1>2, <1>6, <1>7, <2>1, BeatCarries
<1>9. copied' = Service!Bytes(r, s + n)
  <2>1. copied' = copied \cup Carried
    BY <1>6
  <2>2. n \in Nat
    BY <1>4
  <2> DEFINE new == {<<(r.remote_addr + s) + k, (r.spad_addr + s) + k>> : k \in 0 .. n - 1}
  <2>3. r.remote_addr \in Nat /\ r.spad_addr \in Nat /\ s \in Nat
    BY <1>3, <1>4
  <2>4. Service!Bytes(r, s) \cup new = Service!Bytes(r, s + n)
    <3> HIDE DEF s
    <3>1. QED BY <2>2, <2>3, BytesGrow
  <2>5. Carried = new
    BY <1>8
  <2> HIDE DEF new, s
  <2>6. QED BY <1>2, <2>1, <2>4, <2>5
<1>10. Service!Bytes(r, s + n) \subseteq Service!Bytes(r, Service!WholeWords(r))
  <2>1. Service!WholeWords(r) \in Nat /\ s + dataByte <= Service!WholeWords(r)
    <3> HIDE DEF s
    <3>1. QED BY <1>2, <1>3, <1>4, WholeWordsNumbers
  <2>2. s + n \in Nat /\ s + n <= Service!WholeWords(r)
    <3> HIDE DEF s
    <3>1. QED BY <1>4, <1>8, <2>1
  <2> HIDE DEF s
  <2>3. QED BY <2>1, <2>2, BytesMonotone
<1>11. ~read_exp_ack'
  BY <1>1 DEF Control, SpadStep, Spad!ExpAck, SC!spad_exp_req, SC!s_exp
<1>12. Service!Bytes(request, Service!WholeWords(request))'
         = Service!Bytes(request, Service!WholeWords(request))
  BY DEF Service!Bytes, Service!WholeWords
<1>13. CASE l <= dataByte
  <2>1. sc_state' = "s_resp"
    BY <1>13
  <2>2. Position + dataByte >= End
    <3> HIDE DEF t, l
    <3>1. QED BY <1>2, <1>3, <1>4, <1>13
  <2>3. DwQuiet'
    BY <1>5, <2>2 DEF Walks
  <2>4. readState' = "s_read_idle"
    BY <1>1, <1>2, <1>3, <1>13, PortFollows
  <2>5. dw_state' # "s_exp"
    BY <2>3 DEF DwQuiet
  <2>6. Control'
    BY <1>11, <2>1, <2>3, <2>4, <2>5 DEF Control
  <2>7. Streaming'
    BY <2>1 DEF Streaming
  <2>8. s + n >= t
    <3>1. CASE n = dataByte
      <4> HIDE DEF t, l
      <4>1. QED BY <1>2, <1>3, <1>4, <1>13, <3>1
    <3>2. CASE Position + n >= End
      <4> HIDE DEF t, l
      <4>1. QED BY <1>2, <1>3, <1>4, <1>8, <3>2
    <3>3. QED BY <1>8, <3>1, <3>2
  <2>9. Service!Bytes(r, t) \subseteq Service!Bytes(r, s + n)
    <3>1. s + n \in Nat /\ t <= s + n /\ t \in Nat
      <4> HIDE DEF t, l, s
      <4>1. QED BY <1>3, <1>4, <1>8, <2>8
    <3> HIDE DEF t, s
    <3>2. QED BY <3>1, BytesMonotone
  <2>10. Service!Bytes(request, request.total_len)' = Service!Bytes(r, t)
    BY DEF Service!Bytes
  <2>11. Copied'
    BY <1>9, <1>10, <1>12, <2>9, <2>10 DEF Copied
  <2>12. QED BY <2>6, <2>7, <2>11
<1>14. CASE ~(l <= dataByte)
  <2>1. l > dataByte
    <3> HIDE DEF l
    <3>1. QED BY <1>4, <1>14
  <2>2. sc_state' = "s_stream" /\ sc_leftLen' = l - dataByte
    <3> DEFINE k == l - dataByte
    <3>1. k \in 0 .. W - 1 /\ k \in Nat
      <4> HIDE DEF t, l
      <4>1. QED BY <1>2, <1>3, <1>4, <2>1, Constants
    <3>2. sc_leftLen' = k % W
      OBVIOUS
    <3> HIDE DEF k, l
    <3>3. (W * 0 + k) % W = k
      BY <3>1, Constants, Cut!DivisionUnique
    <3>4. W * 0 + k = k
      BY <3>1, Constants
    <3>5. k % W = k
      BY <3>3, <3>4
    <3>6. QED BY <1>14, <3>2, <3>5 DEF k, l
  <2>3. Position + dataByte < End
    <3> HIDE DEF t, l
    <3>1. QED BY <1>2, <1>3, <1>4, <2>1
  <2>4. dw_state' \in Cutting /\ Position' = Position + dataByte /\ End' = End
    BY <1>5, <2>3 DEF Walks
  <2>5. PortStreams'
    BY <1>1, <1>2, <1>3, <2>1, <2>2, PortFollows
  <2>6. n = dataByte
    <3>1. ~(Position + n >= End)
      <4> HIDE DEF t, l
      <4>1. QED BY <1>2, <1>3, <1>4, <1>8, <2>3
    <3>2. QED BY <1>8, <3>1
  <2>7. Sent' = s + dataByte
    <3>1. Sent' = t - (l - dataByte)
      BY <2>2 DEF Sent
    <3> HIDE DEF t, l
    <3>2. QED BY <1>2, <1>3, <1>4, <3>1
  <2>8. (s + dataByte) % dataByte = 0
    <3> HIDE DEF s
    <3>1. dataByte % dataByte = 0
      <4>1. dataByte = dataByte * 1
        BY <1>4
      <4>2. QED BY <1>4, <4>1, Cut!Multiple
    <3>2. (s + dataByte) % dataByte = dataByte % dataByte
      BY <1>2, <1>4, Cut!MultipleSum
    <3>3. QED BY <3>1, <3>2
  <2>9. sc_leftLen' \in 1 .. t
    <3> HIDE DEF t, l
    <3>1. QED BY <1>2, <1>3, <1>4, <2>1, <2>2
  <2>10. Position' = r.remote_addr + (s + dataByte)
    <3> HIDE DEF s
    <3>1. QED BY <1>2, <1>3, <1>4, <2>4
  <2>11. copied' = Service!Bytes(request, Sent)'
    BY <1>9, <2>6, <2>7 DEF Service!Bytes
  <2>12. Streaming'
    BY <1>2, <2>2, <2>4, <2>5, <2>7, <2>8, <2>9, <2>10, <2>11 DEF Streaming, Cutting
  <2>13. Control'
    BY <1>1, <1>11, <2>2, <2>4 DEF Control, Cutting
  <2>14. Copied'
    BY <1>9, <1>10, <1>12, <2>2 DEF Copied
  <2>15. QED BY <2>12, <2>13, <2>14
<1>15. QED BY <1>13, <1>14


LEMMA StreamStep ==
  ASSUME NEW aReady, NEW tlbReqFire, NEW tlbRespFire, NEW miss,
         Runs(aReady, tlbReqFire, tlbRespFire, miss), sc_state = "s_stream"
  PROVE  (Control /\ Streaming /\ Copied)'
<1>1. /\ PortTypes /\ ControlTypes /\ WriterTypes /\ Writer /\ Control /\ Streaming /\ Copied
      /\ aReady \in BOOLEAN /\ SpadStep(aReady) /\ WriterTypes' /\ Writer'
  BY DEF Runs
<1>2. /\ request' = request
      /\ copied' = copied \cup (IF a_fire(aReady) THEN Carried ELSE {})
      /\ SC!Stream(DW!exp_req, fire(aReady))
  <2>1. ~TakeCommand
    BY DEF TakeCommand, SC!Accept, SC!s_idle
  <2>2. ServeCommand(aReady)
    BY <2>1 DEF Runs
  <2>3. SC!Serve(spad_req_fire, dma_req_fire, DW!exp_req, fire(aReady), read_exp_ack, TRUE)
    BY <2>2 DEF ServeCommand, fire
  <2>4. SC!Stream(DW!exp_req, fire(aReady))
    BY <2>3 DEF SC!Serve, SC!SpadReq, SC!DmaReq, SC!Exp, SC!Resp, SC!s_idle, SC!s_spad_req,
                SC!s_dma_req, SC!s_exp, SC!s_resp
  <2>5. QED BY <2>2, <2>4 DEF ServeCommand
<1>3. DW!Serve(tlbReqFire, tlbRespFire, miss, a_fire(aReady), read_exp_ack)
  <2>1. ~dma_req_fire
    BY DEF dma_req_fire, SC!dma_req_valid, SC!s_dma_req
  <2>2. QED BY <2>1 DEF Runs, DMAStep
<1>4. Service!Bytes(request, Service!WholeWords(request))'
        = Service!Bytes(request, Service!WholeWords(request))
  BY <1>2 DEF Service!Bytes, Service!WholeWords
<1>5. CASE dw_state = "s_exp"
  <2>1. sc_state' = "s_exp" /\ success' = FALSE
    BY <1>2, <1>5 DEF SC!Stream, DW!exp_req, DW!s_exp, SC!s_exp
  <2>2. ~read_exp_ack
    BY <1>1 DEF Control
  <2>3. dw_state' = "s_exp"
    BY <1>3, <1>5, <2>2 DEF DW!Serve, DW!Slice, DW!Wait, DW!TlbReq, DW!TlbResp, DW!Beat,
       DW!Done, DW!Exp, DW!s_idle, DW!s_slice, DW!s_wait, DW!s_tlb_req, DW!s_tlb_resp,
       DW!s_dma_req, DW!s_exp
  <2>4. ~read_exp_ack'
    BY <1>1, <2>2 DEF SpadStep, Spad!ExpAck, SC!spad_exp_req, SC!s_exp
  <2>5. copied' = copied
    BY <1>2, <1>5, InvalidCarriesNothing
  <2>6. Control'
    BY <2>1, <2>3, <2>4 DEF Control
  <2>7. QED BY <1>1, <1>4, <2>1, <2>5, <2>6 DEF Streaming, Copied
<1>6. CASE dw_state # "s_exp"
  <2>1. Walks(a_fire(aReady))
    <3>1. /\ dw_state # "s_idle" /\ sc_leftLen \in 1 .. request.total_len
          /\ Position = request.remote_addr + Sent
          /\ End = request.remote_addr + request.total_len
      BY <1>1, <1>6 DEF Streaming
    <3>2. dw_state \in Cutting
      BY <1>1, <1>6, <3>1 DEF WriterTypes, Cutting
    <3>3. Position < End
      <4>1. request.remote_addr \in Nat /\ request.total_len \in Nat
        BY <1>1, RequestNumbers DEF ControlTypes
      <4> DEFINE a == request.remote_addr
                 t == request.total_len
      <4>2. Position = a + (t - sc_leftLen) /\ End = a + t /\ sc_leftLen \in 1 .. t
            /\ a \in Nat /\ t \in Nat
        BY <3>1, <4>1 DEF Sent
      <4> HIDE DEF a, t
      <4>3. QED BY <4>2
    <3>4. QED BY <1>1, <1>3, <3>2, <3>3, WriterWalks
  <2>2. DW!exp_req = FALSE
    BY <1>6 DEF DW!exp_req, DW!s_exp
  <2>3. CASE ~fire(aReady)
    <3>1. UNCHANGED <<sc_state, sc_leftLen, success, request>>
      BY <1>2, <2>2, <2>3 DEF SC!Stream
    <3>2. QED BY <1>2, <1>6, <2>1, <2>3, <3>1, StreamWaits
  <2>4. CASE fire(aReady)
    <3>1. /\ sc_leftLen' = (sc_leftLen - dataByte) % W /\ success' = success
          /\ sc_state' = IF sc_leftLen <= dataByte THEN "s_resp" ELSE "s_stream"
      BY <1>2, <2>2, <2>4 DEF SC!Stream, SC!LastWord, SC!s_resp, SC!s_stream, W
    <3>2. QED BY <1>2, <1>6, <2>1, <2>4, <3>1, StreamMoves
  <2>5. QED BY <2>3, <2>4
<1>7. QED BY <1>5, <1>6

\* Outside of the stream nothing is copied and the writer stays quiet.
LEMMA OutsideStream ==
  ASSUME NEW aReady, NEW tlbReqFire, NEW tlbRespFire, NEW miss,
         Runs(aReady, tlbReqFire, tlbRespFire, miss),
         sc_state \in {"s_idle", "s_spad_req", "s_dma_req", "s_resp"}
  PROVE  /\ ~dma_req_fire => DwQuiet'
         /\ a_fire(aReady) => Carried = {}
         /\ ~read_exp_ack /\ ~read_exp_ack'
<1>1. WriterTypes /\ Writer /\ DwQuiet /\ ~read_exp_ack /\ SpadStep(aReady)
  BY DEF Runs, Control
<1>2. ASSUME ~dma_req_fire PROVE DwQuiet'
  <2>1. DW!Serve(tlbReqFire, tlbRespFire, miss, a_fire(aReady), read_exp_ack)
    BY <1>2 DEF Runs, DMAStep
  <2>2. QED BY <1>1, <2>1, QuietStays
<1>3. a_fire(aReady) => Carried = {}
  <2>1. dw_state = "s_dma_req" => DW!isDataInvalid
    BY <1>1 DEF DwQuiet, DW!isDataInvalid
  <2>2. QED BY <2>1, InvalidCarriesNothing
<1>4. ~read_exp_ack'
  BY <1>1 DEF SpadStep, Spad!ExpAck, SC!spad_exp_req, SC!s_exp
<1>5. QED BY <1>1, <1>2, <1>3, <1>4

LEMMA IdlePort ==
  ASSUME NEW aReady, SpadStep(aReady), readState = "s_read_idle", ~spad_req_fire
  PROVE  readState' = "s_read_idle"
BY DEF SpadStep, Spad!Serve, Spad!Idle, Spad!Abort, Spad!Fetch, Spad!Last, Spad!Stall,
       Spad!s_read_idle, Spad!s_read_data, Spad!s_read_data_last

LEMMA NothingCopied ==
  ASSUME Copied, UNCHANGED <<request, copied, success>>,
         sc_state' = "s_resp" => sc_state = "s_resp" \/ ~success
  PROVE  Copied'
BY DEF Copied, Service!Bytes, Service!WholeWords

LEMMA IdleStep ==
  ASSUME NEW aReady, NEW tlbReqFire, NEW tlbRespFire, NEW miss,
         Runs(aReady, tlbReqFire, tlbRespFire, miss), sc_state = "s_idle"
  PROVE  (Control /\ Streaming /\ Copied)'
<1>1. Control /\ Copied /\ SpadStep(aReady) /\ (TakeCommand \/ ServeCommand(aReady))
  BY DEF Runs
<1>2. readState' = "s_read_idle"
  <2>1. ~spad_req_fire /\ readState = "s_read_idle"
    BY <1>1 DEF spad_req_fire, SC!spad_req_valid, SC!s_spad_req, Control
  <2>2. QED BY <1>1, <2>1, IdlePort
<1>3. ~dma_req_fire
  BY DEF dma_req_fire, SC!dma_req_valid, SC!s_dma_req
<1>4. DwQuiet' /\ (a_fire(aReady) => Carried = {}) /\ ~read_exp_ack'
  BY <1>3, OutsideStream
<1>5. dw_state' # "s_exp"
  BY <1>4 DEF DwQuiet
<1>6. CASE TakeCommand
  <2>1. PICK r \in Requests : SC!Accept(r) /\ request' = r /\ copied' = {}
    BY <1>6 DEF TakeCommand
  <2>2. /\ sc_state' = "s_spad_req" /\ remote_addr' = r.remote_addr
        /\ spad_addr' = r.spad_addr /\ sc_leftLen' = r.total_len /\ success' = TRUE
    BY <2>1 DEF SC!Accept, SC!s_spad_req
  <2>3. Control'
    BY <1>2, <1>4, <1>5, <2>1, <2>2 DEF Control
  <2>4. Streaming' /\ Copied'
    BY <2>1, <2>2 DEF Streaming, Copied
  <2>5. QED BY <2>3, <2>4
<1>7. CASE ServeCommand(aReady)
  <2>1. UNCHANGED <<sc_state, success, request, copied>>
    BY <1>4, <1>7 DEF ServeCommand, SC!Serve, SC!SpadReq, SC!DmaReq, SC!Stream, SC!Exp,
       SC!Resp, SC!vars, SC!s_idle, SC!s_spad_req, SC!s_dma_req, SC!s_stream, SC!s_exp,
       SC!s_resp
  <2>2. Control'
    BY <1>2, <1>4, <1>5, <2>1 DEF Control
  <2>3. Copied'
    BY <1>1, <2>1, NothingCopied
  <2>4. QED BY <2>1, <2>2, <2>3 DEF Streaming
<1>8. QED BY <1>1, <1>6, <1>7

LEMMA SpadReqStep ==
  ASSUME NEW aReady, NEW tlbReqFire, NEW tlbRespFire, NEW miss,
         Runs(aReady, tlbReqFire, tlbRespFire, miss), sc_state = "s_spad_req"
  PROVE  (Control /\ Streaming /\ Copied)'
<1>1. Control /\ Copied /\ SpadStep(aReady) /\ ServeCommand(aReady)
  BY DEF Runs, TakeCommand, SC!Accept, SC!s_idle
<1>2. spad_req_fire /\ ~dma_req_fire
  BY <1>1 DEF Control, spad_req_fire, dma_req_fire, SC!spad_req_valid, SC!s_spad_req,
              SC!dma_req_valid, SC!s_dma_req, Spad!req_ready, Spad!s_read_idle
<1>3. DwQuiet' /\ (a_fire(aReady) => Carried = {}) /\ ~read_exp_ack'
  BY <1>2, OutsideStream
<1>4. dw_state' # "s_exp"
  BY <1>3 DEF DwQuiet
<1>5. /\ sc_state' = "s_dma_req"
      /\ UNCHANGED <<remote_addr, spad_addr, sc_leftLen, success, request, copied>>
  BY <1>1, <1>2, <1>3 DEF ServeCommand, SC!Serve, SC!SpadReq, SC!DmaReq, SC!Stream, SC!Exp,
     SC!Resp, SC!vars, SC!s_idle, SC!s_spad_req, SC!s_dma_req, SC!s_stream, SC!s_exp,
     SC!s_resp
<1>6. PortReady'
  <2>1. Spad!Accept(spad_addr, sc_leftLen)
    BY <1>1, <1>2 DEF SpadStep
  <2>2. /\ readState' = "s_read_data" /\ readAddr' = request.spad_addr
        /\ readMaxAddr' = Spad!MaxAddr(request.spad_addr, request.total_len)
        /\ ~rdataValid'
    BY <1>1, <2>1 DEF Spad!Accept, Spad!s_read_data, Control
  <2>3. QED BY <1>5, <2>2 DEF PortReady, Spad!MaxAddr
<1>7. Control'
  BY <1>1, <1>3, <1>4, <1>5, <1>6 DEF Control
<1>8. Copied'
  BY <1>1, <1>5, NothingCopied
<1>9. QED BY <1>5, <1>7, <1>8 DEF Streaming

LEMMA DmaReqStep ==
  ASSUME NEW aReady, NEW tlbReqFire, NEW tlbRespFire, NEW miss,
         Runs(aReady, tlbReqFire, tlbRespFire, miss), sc_state = "s_dma_req"
  PROVE  (Control /\ Streaming /\ Copied)'
<1>1. /\ Control /\ Copied /\ SpadStep(aReady) /\ ServeCommand(aReady) /\ PortTypes
      /\ ControlTypes
  BY DEF Runs, TakeCommand, SC!Accept, SC!s_idle
<1>2. /\ remote_addr = request.remote_addr /\ spad_addr = request.spad_addr
      /\ sc_leftLen = request.total_len /\ copied = {} /\ success /\ PortReady
  BY <1>1 DEF Control
<1>3. ~dma_req_fire => DwQuiet' 
  BY OutsideStream
<1>4. (a_fire(aReady) => Carried = {}) /\ ~read_exp_ack'
  BY OutsideStream
<1>5. /\ sc_state' = IF dma_req_fire THEN "s_stream" ELSE "s_dma_req"
      /\ UNCHANGED <<remote_addr, spad_addr, sc_leftLen, success, request, copied>>
  BY <1>1, <1>4 DEF ServeCommand, SC!Serve, SC!SpadReq, SC!DmaReq, SC!Stream, SC!Exp,
     SC!Resp, SC!vars, SC!s_idle, SC!s_spad_req, SC!s_dma_req, SC!s_stream, SC!s_exp,
     SC!s_resp
<1>6. UNCHANGED <<readState, readAddr, readMaxAddr, rdataValid, rdata>>
  <2>1. ~spad_req_fire /\ ~SC!spad_exp_req /\ ~stream_ready(aReady)
    BY DEF spad_req_fire, SC!spad_req_valid, SC!spad_exp_req, SC!s_spad_req, SC!s_exp,
           stream_ready, SC!streaming, SC!s_stream
  <2>2. readState = "s_read_data"
    BY <1>2 DEF PortReady
  <2>3. QED BY <1>1, <2>1, <2>2 DEF SpadStep, Spad!Serve, Spad!Idle, Spad!Abort, Spad!Fetch,
       Spad!Last, Spad!Stall, Spad!s_read_idle, Spad!s_read_data, Spad!s_read_data_last
<1>7. CASE ~dma_req_fire
  <2>1. dw_state' # "s_exp" /\ DwQuiet'
    BY <1>3, <1>7 DEF DwQuiet
  <2>2. PortReady'
    BY <1>2, <1>5, <1>6 DEF PortReady, Spad!MaxAddr
  <2>3. Control'
    BY <1>2, <1>4, <1>5, <1>7, <2>1, <2>2 DEF Control
  <2>4. Copied'
    BY <1>1, <1>5, <1>7, NothingCopied
  <2>5. QED BY <1>5, <1>7, <2>3, <2>4 DEF Streaming
<1>8. CASE dma_req_fire
  <2>1. DW!Accept([addr |-> remote_addr, len |-> sc_leftLen])
    BY <1>8 DEF Runs, DMAStep
  <2>2. dw_state' = "s_slice" /\ vaddr' = remote_addr /\ dw_leftLen' = sc_leftLen
    BY <2>1 DEF DW!Accept, DW!s_slice
  <2>3. sc_state' = "s_stream"
    BY <1>5, <1>8
  <2>4. Control'
    BY <1>2, <1>4, <1>5, <2>2, <2>3 DEF Control
  <2>5. /\ request.total_len \in 1 .. request.total_len /\ request.spad_addr \in Nat
        /\ request.remote_addr \in Nat /\ request.total_len \in Nat
    BY <1>1, RequestNumbers, Reads DEF ControlTypes
  <2>6. Sent' = 0
    BY <1>2, <1>5, <2>5 DEF Sent
  <2>7. PortStreams'
    BY <1>2, <1>5, <1>6, <2>5, <2>6 DEF PortStreams, PortReady, Spad!MaxAddr
  <2>8. Position' = request.remote_addr /\ End' = request.remote_addr + request.total_len
    BY <1>2, <2>2 DEF Position, End
  <2>9. copied' = Service!Bytes(request, Sent)'
    <3>1. 0 .. 0 - 1 = {}
      OBVIOUS
    <3>2. QED BY <1>2, <1>5, <2>6, <3>1 DEF Service!Bytes
  <2>10. 0 % dataByte = 0
    <3>1. 0 = dataByte * 0
      BY Constants
    <3>2. QED BY <3>1, Constants, Cut!Multiple
  <2>11. Streaming'
    BY <1>2, <1>5, <2>2, <2>5, <2>6, <2>7, <2>8, <2>9, <2>10 DEF Streaming
  <2>12. Copied'
    BY <1>1, <1>5, <2>3, NothingCopied
  <2>13. QED BY <2>4, <2>11, <2>12
<1>9. QED BY <1>7, <1>8

LEMMA ExpStep ==
  ASSUME NEW aReady, NEW tlbReqFire, NEW tlbRespFire, NEW miss,
         Runs(aReady, tlbReqFire, tlbRespFire, miss), sc_state = "s_exp"
  PROVE  (Control /\ Streaming /\ Copied)'
<1>1. /\ Control /\ Copied /\ SpadStep(aReady) /\ ServeCommand(aReady) /\ PortTypes
  BY DEF Runs, TakeCommand, SC!Accept, SC!s_idle
<1>2. dw_state = "s_exp" /\ ~success /\ (read_exp_ack => readState = "s_read_idle")
  BY <1>1 DEF Control
<1>3. ~spad_req_fire /\ ~dma_req_fire /\ SC!spad_exp_req
  BY DEF spad_req_fire, SC!spad_req_valid, SC!s_spad_req, dma_req_fire, SC!dma_req_valid,
         SC!s_dma_req, SC!spad_exp_req, SC!s_exp
<1>4. /\ sc_state' = IF read_exp_ack THEN "s_resp" ELSE "s_exp"
      /\ UNCHANGED <<success, request, copied>>
  <2>1. a_fire(aReady) => Carried = {}
    BY <1>2, InvalidCarriesNothing
  <2>2. QED BY <1>1, <2>1 DEF ServeCommand, SC!Serve, SC!SpadReq, SC!DmaReq, SC!Stream,
       SC!Exp, SC!Resp, SC!vars, SC!s_idle, SC!s_spad_req, SC!s_dma_req, SC!s_stream,
       SC!s_exp, SC!s_resp
<1>5. dw_state' = IF read_exp_ack THEN "s_idle" ELSE "s_exp"
  <2>1. DW!Serve(tlbReqFire, tlbRespFire, miss, a_fire(aReady), read_exp_ack)
    BY <1>3 DEF Runs, DMAStep
  <2>2. QED BY <1>2, <2>1 DEF DW!Serve, DW!Slice, DW!Wait, DW!TlbReq, DW!TlbResp, DW!Beat,
       DW!Done, DW!Exp, DW!s_idle, DW!s_slice, DW!s_wait, DW!s_tlb_req, DW!s_tlb_resp,
       DW!s_dma_req, DW!s_exp
<1>6. Copied'
  BY <1>1, <1>2, <1>4, NothingCopied
<1>7. Streaming'
  BY <1>4 DEF Streaming
<1>8. CASE read_exp_ack
  <2>1. readState = "s_read_idle"
    BY <1>2, <1>8
  <2>2. readState' = "s_read_idle"
    BY <1>1, <1>3, <2>1, IdlePort
  <2>3. ~read_exp_ack'
    BY <1>1, <2>1 DEF SpadStep, Spad!ExpAck, Spad!s_read_data, Spad!s_read_idle
  <2>4. Control'
    BY <1>2, <1>4, <1>5, <1>8, <2>2, <2>3 DEF Control, DwQuiet
  <2>5. QED BY <1>6, <1>7, <2>4
<1>9. CASE ~read_exp_ack
  <2>1. Spad!Serve(SC!spad_exp_req, stream_ready(aReady))
    BY <1>1, <1>3 DEF SpadStep
  <2>2. read_exp_ack' => readState = "s_read_data"
    BY <1>1, <1>9 DEF SpadStep, Spad!ExpAck, Spad!s_read_data
  <2>3. readState = "s_read_data" => readState' = "s_read_idle"
    BY <1>3, <2>1 DEF Spad!Serve, Spad!Idle, Spad!Abort, Spad!Fetch, Spad!Last, Spad!Stall,
       Spad!s_read_idle, Spad!s_read_data, Spad!s_read_data_last
  <2>4. Control'
    BY <1>2, <1>4, <1>5, <1>9, <2>2, <2>3 DEF Control
  <2>5. QED BY <1>6, <1>7, <2>4
<1>10. QED BY <1>1, <1>8, <1>9 DEF PortTypes

LEMMA RespStep ==
  ASSUME NEW aReady, NEW tlbReqFire, NEW tlbRespFire, NEW miss,
         Runs(aReady, tlbReqFire, tlbRespFire, miss), sc_state = "s_resp"
  PROVE  (Control /\ Streaming /\ Copied)'
<1>1. Control /\ Copied /\ SpadStep(aReady) /\ ServeCommand(aReady)
  BY DEF Runs, TakeCommand, SC!Accept, SC!s_idle
<1>2. readState' = "s_read_idle"
  <2>1. ~spad_req_fire /\ readState = "s_read_idle"
    BY <1>1 DEF spad_req_fire, SC!spad_req_valid, SC!s_spad_req, Control
  <2>2. QED BY <1>1, <2>1, IdlePort
<1>3. ~dma_req_fire
  BY DEF dma_req_fire, SC!dma_req_valid, SC!s_dma_req
<1>4. DwQuiet' /\ (a_fire(aReady) => Carried = {}) /\ ~read_exp_ack'
  BY <1>3, OutsideStream
<1>5. dw_state' # "s_exp"
  BY <1>4 DEF DwQuiet
<1>6. sc_state' = "s_idle" /\ UNCHANGED <<success, request, copied>>
  BY <1>1, <1>4 DEF ServeCommand, SC!Serve, SC!SpadReq, SC!DmaReq, SC!Stream, SC!Exp,
     SC!Resp, SC!vars, SC!s_idle, SC!s_spad_req, SC!s_dma_req, SC!s_stream, SC!s_exp,
     SC!s_resp
<1>7. Control'
  BY <1>2, <1>4, <1>5, <1>6 DEF Control
<1>8. Copied'
  BY <1>1, <1>6, NothingCopied
<1>9. QED BY <1>6, <1>7, <1>8 DEF Streaming


---------------------------------------------------------------------------
(* The theorems. *)
LEMMA InitHolds == Init => IInv
<1> SUFFICES ASSUME Init PROVE IInv
  OBVIOUS
<1>1. /\ sc_state = "s_idle" /\ remote_addr = 0 /\ spad_addr = 0 /\ sc_leftLen = 0
      /\ success = TRUE
  BY DEF Init, SC!Init, SC!s_idle
<1>2. /\ readState = "s_read_idle" /\ readAddr = 0 /\ readMaxAddr = 0
      /\ rdataValid = FALSE /\ rdata = 0 /\ read_exp_ack = FALSE
  BY DEF Init, Spad!Init, Spad!s_read_idle
<1>3. /\ dw_state = "s_idle" /\ vaddr = 0 /\ dw_leftLen = 0 /\ more = FALSE
      /\ len = 0 /\ base = 0 /\ addr = 0 /\ tl_id = 0
  BY DEF Init, DW!Init, DW!s_idle
<1>4. unacked = [s \in Ids |-> 0] /\ request \in Requests /\ copied = {}
  BY DEF Init
<1>5. 0 \in 0 .. W - 1 /\ 0 \in 0 .. B - 1 /\ 0 \in 0 .. B /\ 0 \in Ids
      /\ 0 \in 0 .. MaxUnacked
  BY Constants DEF Ids
<1>6. ControlTypes /\ PortTypes
  BY <1>1, <1>2, <1>4, <1>5 DEF ControlTypes, PortTypes
<1>7. WriterTypes /\ BusTypes
  BY <1>3, <1>4, <1>5 DEF WriterTypes, BusTypes
<1>8. Aligned(vaddr)
  <2>1. 0 = dataByte * 0
    BY Constants
  <2>2. 0 % dataByte = 0
    BY <2>1, Constants, Cut!Multiple
  <2>3. QED BY <1>3, <2>2 DEF Aligned
<1>9. Writer
  BY <1>3, <1>8 DEF Writer, Cutting, WithPacket
<1>10. Control
  BY <1>1, <1>2, <1>3 DEF Control, DwQuiet
<1>11. Streaming /\ Copied
  BY <1>1, <1>4 DEF Streaming, Copied
<1>12. QED BY <1>6, <1>7, <1>9, <1>10, <1>11, Types DEF IInv

LEMMA CycleKeepsInvariant ==
  ASSUME IInv, NEW aReady, NEW tlbReqFire, NEW tlbRespFire, NEW miss, NEW acked,
         Env(aReady, acked), Cycle(aReady, tlbReqFire, tlbRespFire, miss, acked)
  PROVE  IInv'
<1>1. TypeOK /\ Writer /\ Control /\ Streaming /\ Copied
  BY DEF IInv
<1>2. TypeOK' /\ WriterTypes' /\ Writer'
  BY <1>1, CycleKeepsTypes
<1>3. ControlTypes /\ PortTypes /\ WriterTypes
  BY <1>1, Types
<1>4. Runs(aReady, tlbReqFire, tlbRespFire, miss)
  BY <1>1, <1>2, <1>3 DEF Runs, Cycle, Env
<1>5. (Control /\ Streaming /\ Copied)'
  <2>1. CASE sc_state = "s_idle"
    BY <1>4, <2>1, IdleStep
  <2>2. CASE sc_state = "s_spad_req"
    BY <1>4, <2>2, SpadReqStep
  <2>3. CASE sc_state = "s_dma_req"
    BY <1>4, <2>3, DmaReqStep
  <2>4. CASE sc_state = "s_stream"
    BY <1>4, <2>4, StreamStep
  <2>5. CASE sc_state = "s_exp"
    BY <1>4, <2>5, ExpStep
  <2>6. CASE sc_state = "s_resp"
    BY <1>4, <2>6, RespStep
  <2>7. QED BY <1>3, <2>1, <2>2, <2>3, <2>4, <2>5, <2>6 DEF ControlTypes
<1>6. QED BY <1>2, <1>5 DEF IInv

LEMMA StutterKeepsInvariant == IInv /\ UNCHANGED vars => IInv'
<1> SUFFICES ASSUME IInv, UNCHANGED vars PROVE IInv'
  OBVIOUS
<1>1. /\ UNCHANGED <<sc_state, remote_addr, spad_addr, sc_leftLen, success>>
      /\ UNCHANGED <<readState, readAddr, readMaxAddr, rdataValid, rdata, read_exp_ack>>
      /\ UNCHANGED <<dw_state, vaddr, dw_leftLen, more, len, base, addr, tl_id>>
      /\ UNCHANGED <<unacked, request, copied>>
  BY DEF vars, sc, spad, dw
<1>2. TypeOK'
  BY <1>1 DEF IInv, TypeOK, DW!maxSizeTL, Ids
<1>3. Writer'
  BY <1>1 DEF IInv, Writer, Aligned, Left, Packet, Beat, Cutting, WithPacket
<1>4. Control'
  BY <1>1 DEF IInv, Control, DwQuiet, PortReady, Spad!MaxAddr
<1>5. Streaming'
  BY <1>1 DEF IInv, Streaming, Position, End, Sent, PortStreams, Spad!MaxAddr, Service!Bytes
<1>6. Copied'
  BY <1>1 DEF IInv, Copied, Service!Bytes, Service!WholeWords
<1>7. QED BY <1>2, <1>3, <1>4, <1>5, <1>6 DEF IInv

LEMMA NextKeepsInvariant == IInv /\ [Next]_vars => IInv'
<1> SUFFICES ASSUME IInv, [Next]_vars PROVE IInv'
  OBVIOUS
<1>1. CASE Next
  <2>1. PICK aReady, tlbReqFire, tlbRespFire, miss, acked :
          Env(aReady, acked) /\ Cycle(aReady, tlbReqFire, tlbRespFire, miss, acked)
    BY <1>1, Cycles
  <2>2. QED BY <2>1, CycleKeepsInvariant
<1>2. CASE UNCHANGED vars
  BY <1>2, StutterKeepsInvariant
<1>3. QED BY <1>1, <1>2

(* In every cycle of every store the three blocks are at the same byte, the *)
(* packet in the writer is cut right, and the writer is quiet outside of   *)
(* the stream: the inductive invariant the theorems below follow from.     *)
THEOREM Invariant == Spec => []IInv
<1>1. Init => IInv
  BY InitHolds
<1>2. IInv /\ [Next]_vars => IInv'
  BY NextKeepsInvariant
<1>3. QED BY <1>1, <1>2, PTL DEF Spec

(* Every register of the store path keeps to its width, for all requests,  *)
(* packet sizes and numbers of transaction ids.                            *)
THEOREM TypeCorrect == Spec => []TypeOK
<1>1. IInv => TypeOK
  BY DEF IInv
<1>2. QED BY <1>1, Invariant, PTL

\* Words to carry n bytes.
LEMMA WordsNumbers ==
  ASSUME NEW n \in Nat \ {0}
  PROVE  /\ Words(n) \in Nat
         /\ n <= dataByte => Words(n) = 1
         /\ n > dataByte => Words(n) = 1 + Words(n - dataByte)
<1>1. dataByte \in Nat \ {0}
  BY Constants
<1>2. Words(n) \in Nat
  <2>1. n + dataByte - 1 \in Nat
    BY <1>1
  <2>2. (n + dataByte - 1) \div dataByte \in Nat
    BY <1>1, <2>1, Cut!Division
  <2>3. QED BY <2>2 DEF Words
<1>3. ASSUME n <= dataByte PROVE Words(n) = 1
  <2>1. n + dataByte - 1 = dataByte * 1 + (n - 1) /\ n - 1 \in Nat /\ n - 1 < dataByte
    BY <1>1, <1>3
  <2>2. (dataByte * 1 + (n - 1)) \div dataByte = 1
    BY <1>1, <2>1, Cut!DivisionUnique
  <2>3. QED BY <2>1, <2>2 DEF Words
<1>4. ASSUME n > dataByte PROVE Words(n) = 1 + Words(n - dataByte)
  <2> DEFINE x == (n - dataByte) + dataByte - 1
             d == x \div dataByte
             q == x % dataByte
  <2>1. x \in Nat
    BY <1>1, <1>4
  <2>2. d \in Nat /\ q \in Nat /\ q < dataByte /\ x = dataByte * d + q
    <3> HIDE DEF x
    <3>1. QED BY <1>1, <2>1, Cut!Division
  <2>3. Words(n - dataByte) = d
    BY DEF Words
  <2>4. n + dataByte - 1 = x + dataByte
    BY <1>1, <1>4
  <2> HIDE DEF d, q, x
  <2>5. n + dataByte - 1 = dataByte * (1 + d) + q
    <3>1. dataByte * (1 + d) = dataByte + dataByte * d /\ dataByte * d \in Nat
      BY <1>1, <2>2
    <3>2. QED BY <1>1, <2>1, <2>2, <2>4, <3>1
  <2>6. (dataByte * (1 + d) + q) \div dataByte = 1 + d
    BY <1>1, <2>2, Cut!DivisionUnique
  <2>7. QED BY <2>3, <2>5, <2>6 DEF Words
<1>5. QED BY <1>2, <1>3, <1>4

LEMMA InStep == IInv => WordsInStep
<1> SUFFICES ASSUME IInv, sc_state = "s_stream", dw_state # "s_exp"
             PROVE  /\ Words(sc_leftLen) = SpadWordsLeft
                    /\ Words(sc_leftLen) = DmaWordsLeft
  BY DEF WordsInStep
<1> DEFINE a == request.spad_addr
           r == request.remote_addr
           t == request.total_len
           l == sc_leftLen
<1>1. /\ l \in 1 .. t /\ Sent = t - l
      /\ Position = r + (t - l) /\ End = r + t /\ PortStreams
  BY DEF IInv, Streaming, Sent
<1>2. a \in Nat /\ r \in Nat /\ t \in Nat /\ dataByte \in Nat \ {0}
  BY RequestNumbers, Constants DEF IInv, TypeOK
<1>3. /\ rdataValid =>
           /\ readAddr = a + (t - l) + dataByte
           /\ readState = IF l <= dataByte THEN "s_read_data_last" ELSE "s_read_data"
      /\ ~rdataValid => readState = "s_read_data" /\ readAddr = a + (t - l)
  BY <1>1 DEF PortStreams
<1>4. Words(l) = SpadWordsLeft
  <2>1. SpadWordsLeft = (IF rdataValid THEN 1 ELSE 0)
          + (IF readState = "s_read_data" /\ readAddr <= a + t
             THEN Words(a + t - readAddr) ELSE 0)
    BY DEF SpadWordsLeft
  <2> HIDE DEF a, r, t, l
  <2>2. l \in Nat \ {0} /\ Words(l) \in Nat
    <3>1. l \in Nat \ {0}
      BY <1>1, <1>2
    <3>2. QED BY <3>1, WordsNumbers
  <2>3. CASE ~rdataValid
    <3>1. readAddr <= a + t /\ a + t - readAddr = l
      BY <1>1, <1>2, <1>3, <2>3
    <3>2. QED BY <1>3, <2>1, <2>2, <2>3, <3>1
  <2>4. CASE rdataValid /\ l <= dataByte
    <3>1. readState # "s_read_data"
      BY <1>3, <2>4
    <3>2. Words(l) = 1
      BY <2>2, <2>4, WordsNumbers
    <3>3. QED BY <2>1, <2>4, <3>1, <3>2
  <2>5. CASE rdataValid /\ ~(l <= dataByte)
    <3>1. readState = "s_read_data" /\ readAddr = a + (t - l) + dataByte
      BY <1>3, <2>5
    <3>2. readAddr <= a + t /\ a + t - readAddr = l - dataByte /\ l > dataByte
      BY <1>1, <1>2, <2>5, <3>1
    <3>3. Words(l) = 1 + Words(l - dataByte)
      BY <2>2, <3>2, WordsNumbers
    <3>4. QED BY <2>1, <2>5, <3>1, <3>2, <3>3
  <2>6. QED BY <2>3, <2>4, <2>5
<1>5. Words(l) = DmaWordsLeft
  <2> DEFINE first == DW!vxo(vaddr)
             block == DW!vxn(vaddr) * B
             from == IF addr < first THEN first ELSE addr
  <2>1. WriterTypes /\ Writer
    BY Types DEF IInv
  <2>2. /\ first \in 0 .. B - 1 /\ block \in Nat /\ vaddr = block + first
        /\ dw_leftLen \in Nat /\ addr \in 0 .. B - 1 /\ End = block + first + dw_leftLen
        /\ dw_state = "s_dma_req" => Position = block + from
        /\ dw_state # "s_dma_req" => Position = vaddr
    BY <2>1, PlaceNumbers
  <2>3. dw_state # "s_dma_req" => DmaWordsLeft = Words(dw_leftLen)
    BY DEF DmaWordsLeft
  <2>4. dw_state = "s_dma_req" =>
          DmaWordsLeft = IF from < first + dw_leftLen THEN Words((first + dw_leftLen) - from) ELSE 0
    BY DEF DmaWordsLeft
  <2> HIDE DEF a, r, t, l, first, block
  <2>5. CASE dw_state # "s_dma_req"
    <3>1. dw_leftLen = l
      BY <1>1, <1>2, <2>2, <2>5, Constants
    <3>2. QED BY <2>3, <2>5, <3>1
  <2>6. CASE dw_state = "s_dma_req"
    <3>1. from \in Nat
      BY <2>2, Constants
    <3> HIDE DEF from
    <3>2. (first + dw_leftLen) - from = l /\ from < first + dw_leftLen
      BY <1>1, <1>2, <2>2, <2>6, <3>1, Constants
    <3>3. QED BY <2>4, <2>6, <3>2
  <2>7. QED BY <2>5, <2>6
<1>6. QED BY <1>4, <1>5

(* StoreController, the scratchpad's read port and the DMA's writer count   *)
(* the words of a store on their own, and agree in every cycle of the      *)
(* stream, for all stores, word and packet sizes.                          *)
THEOREM CountsAgree == Spec => []WordsInStep
<1>1. IInv => WordsInStep
  BY InStep
<1>2. QED BY <1>1, Invariant, PTL

LEMMA LeastPacket == IInv => PacketIsLeast
<1> DEFINE first == DW!vxo(vaddr)
           packet == [base |-> base, size |-> DW!packet_size(len)]
           end == IF first + dw_leftLen > B THEN B ELSE first + dw_leftLen
<1> SUFFICES ASSUME IInv, dw_state = "s_tlb_req"
             PROVE  /\ packet \in Holding(first, end - 1)
                    /\ \A k \in Holding(first, end - 1) : packet.size <= k.size
  BY DEF PacketIsLeast, B
<1>1. WriterTypes /\ Writer
  BY Types DEF IInv
<1>2. Packet /\ (more <=> first + dw_leftLen > B)
  BY <1>1 DEF Writer, WithPacket, DW!selBw, B
<1>3. /\ packet.size \in Nat \ {0} /\ base \in 0 .. B - 1 /\ first \in 0 .. B - 1
      /\ base <= first /\ first < base + packet.size /\ base + packet.size <= B
      /\ IF more THEN base + packet.size = B ELSE first + dw_leftLen <= base + packet.size
  BY <1>1, PacketNumbers DEF WithPacket, WriterTypes
<1>4. packet.size \in DW!PacketSizes /\ base % packet.size = 0
  <2>1. Cut!packet_size(len) \in Cut!PacketSizes /\ base % Cut!packet_size(len) = 0
    BY <1>2 DEF Packet, Cut!Fits
  <2>2. QED BY <2>1, SameOperators
<1>5. packet \in Packets
  BY <1>3, <1>4 DEF Packets, B
<1>6. end - 1 < base + packet.size
  <2> DEFINE size == packet.size
  <2>1. size \in Nat \ {0} /\ base \in Nat /\ first \in Nat /\ dw_leftLen \in Nat
    BY <1>1, <1>3, Constants DEF WriterTypes
  <2>2. CASE more
    <3>1. end = B /\ base + size = B
      BY <1>2, <1>3, <2>2
    <3> HIDE DEF size, end
    <3>2. QED BY <3>1, Constants DEF size
  <2>3. CASE ~more
    <3>1. end = first + dw_leftLen /\ first + dw_leftLen <= base + size
      BY <1>2, <1>3, <2>3
    <3> HIDE DEF size, end, first
    <3>2. end - 1 < base + size
      BY <2>1, <3>1
    <3>3. QED BY <3>2 DEF size
  <2>4. QED BY <2>2, <2>3
<1>7. packet \in Holding(first, end - 1)
  BY <1>3, <1>5, <1>6 DEF Holding
<1>8. ASSUME NEW k \in Holding(first, end - 1) PROVE packet.size <= k.size
  <2>1. /\ k.base \in 0 .. B - 1 /\ k.size \in DW!PacketSizes /\ k.base % k.size = 0
        /\ k.base <= first /\ end - 1 < k.base + k.size
    BY DEF Holding, Packets, B
  <2>2. Cut!Smallest(vaddr, end - 1, len)
    <3>1. Cut!Smallest(vaddr, IF more THEN B - 1 ELSE first + dw_leftLen - 1, len)
      BY <1>2 DEF Packet, B
    <3>2. CASE more
      BY <1>2, <3>1, <3>2
    <3>3. CASE ~more
      <4>1. end = first + dw_leftLen /\ first \in Nat /\ dw_leftLen \in Nat
        BY <1>1, <1>2, <1>3, <3>3, Constants DEF WriterTypes
      <4> HIDE DEF first, end
      <4>2. end - 1 = first + dw_leftLen - 1
        BY <4>1
      <4>3. QED BY <3>1, <3>3, <4>2
    <3>4. QED BY <3>2, <3>3
  <2>3. k.size \in Cut!PacketSizes /\ first = Cut!vxo(vaddr)
    BY <2>1, SameOperators
  <2>4. k.base \in 0 .. Cut!vxo(vaddr)
    BY <1>3, <2>1, <2>3, Constants
  <2>5. Cut!packet_size(len) <= k.size
    <3> HIDE DEF end, first, packet
    <3>1. QED BY <2>1, <2>2, <2>3, <2>4 DEF Cut!Smallest
  <2>6. QED BY <2>5, SameOperators
<1>9. QED BY <1>7, <1>8

(* The packet DMAWriteController cuts from the head of a request ("aligned  *)
(* to power2 value >= it") is the smallest the bus has that holds it, for  *)
(* all requests and largest packets.                                       *)
THEOREM PacketsAreLeast == Spec => []PacketIsLeast
<1>1. IInv => PacketIsLeast
  BY LeastPacket
<1>2. QED BY <1>1, Invariant, PTL


---------------------------------------------------------------------------
(* The refinement.  A cycle takes a store, copies, fails or answers, or    *)
(* does none of these.                                                     *)
LEMMA ServiceInit == Init => Service!Init
BY DEF Init, SC!Init, SC!s_idle, Service!Init

\* A cycle in which the controller goes on and nothing is copied.
LEMMA ServiceStutters ==
  ASSUME UNCHANGED <<request, copied, success>>,
         sc_state # "s_idle" <=> sc_state' # "s_idle"
  PROVE  UNCHANGED Service!vars
<1>1. (sc_state # "s_idle") = (sc_state' # "s_idle")
  OBVIOUS
<1>2. QED BY <1>1 DEF Service!vars

LEMMA StreamServes ==
  ASSUME NEW aReady, NEW tlbReqFire, NEW tlbRespFire, NEW miss,
         Runs(aReady, tlbReqFire, tlbRespFire, miss), sc_state = "s_stream", Copied'
  PROVE  Service!Copy \/ Service!Fail
<1>1. Control /\ ServeCommand(aReady)
  BY DEF Runs, TakeCommand, SC!Accept, SC!s_idle
<1>2. success = TRUE
  BY <1>1 DEF Control, Runs, ControlTypes
<1>3. /\ request' = request
      /\ copied' = copied \cup (IF a_fire(aReady) THEN Carried ELSE {})
      /\ SC!Stream(DW!exp_req, fire(aReady))
  BY <1>1 DEF ServeCommand, fire, SC!Serve, SC!SpadReq, SC!DmaReq, SC!Exp, SC!Resp,
     SC!s_idle, SC!s_spad_req, SC!s_dma_req, SC!s_exp, SC!s_resp
<1>4. CASE dw_state = "s_exp"
  <2>1. sc_state' = "s_exp" /\ success' = FALSE
    BY <1>3, <1>4 DEF SC!Stream, DW!exp_req, DW!s_exp, SC!s_exp
  <2>2. copied' = copied
    BY <1>3, <1>4, InvalidCarriesNothing
  <2>3. Service!Fail
    BY <1>2, <1>3, <2>1, <2>2 DEF Service!Fail
  <2>4. QED BY <2>3
<1>5. CASE dw_state # "s_exp"
  <2>1. sc_state' \in {"s_stream", "s_resp"} /\ success' = success
    BY <1>3, <1>5 DEF SC!Stream, DW!exp_req, DW!s_exp, SC!s_stream, SC!s_resp
  <2>2. copied' \subseteq Service!Bytes(request, Service!WholeWords(request))
    BY <1>3 DEF Copied, Service!Bytes, Service!WholeWords
  <2>3. Service!Copy
    BY <1>2, <1>3, <2>1, <2>2 DEF Service!Copy
  <2>4. QED BY <2>3
<1>6. QED BY <1>4, <1>5

LEMMA AnswerServes ==
  ASSUME NEW aReady, NEW tlbReqFire, NEW tlbRespFire, NEW miss,
         Runs(aReady, tlbReqFire, tlbRespFire, miss), sc_state = "s_resp"
  PROVE  Service!Answer
<1>1. Copied /\ ServeCommand(aReady) /\ (a_fire(aReady) => Carried = {})
  BY OutsideStream DEF Runs, TakeCommand, SC!Accept, SC!s_idle
<1>2. sc_state' = "s_idle" /\ UNCHANGED <<success, request, copied>>
  BY <1>1 DEF ServeCommand, SC!Serve, SC!SpadReq, SC!DmaReq, SC!Stream, SC!Exp,
     SC!Resp, SC!vars, SC!s_idle, SC!s_spad_req, SC!s_dma_req, SC!s_stream, SC!s_exp,
     SC!s_resp
<1>3. success => Service!Bytes(request, request.total_len) \subseteq copied
  BY <1>1 DEF Copied
<1>4. QED BY <1>2, <1>3 DEF Service!Answer

LEMMA IdleServes ==
  ASSUME NEW aReady, NEW tlbReqFire, NEW tlbRespFire, NEW miss,
         Runs(aReady, tlbReqFire, tlbRespFire, miss), sc_state = "s_idle"
  PROVE  Service!Accept \/ UNCHANGED Service!vars
<1>1. (a_fire(aReady) => Carried = {}) /\ (TakeCommand \/ ServeCommand(aReady))
  BY OutsideStream DEF Runs
<1>2. CASE TakeCommand
  <2>1. PICK r \in Requests : SC!Accept(r) /\ request' = r /\ copied' = {}
    BY <1>2 DEF TakeCommand
  <2>2. Service!Accept
    BY <2>1 DEF Service!Accept, SC!Accept, SC!s_spad_req
  <2>3. QED BY <2>2
<1>3. CASE ServeCommand(aReady)
  <2>1. UNCHANGED <<sc_state, success, request, copied>>
    BY <1>1, <1>3 DEF ServeCommand, SC!Serve, SC!SpadReq, SC!DmaReq, SC!Stream, SC!Exp,
       SC!Resp, SC!vars, SC!s_idle, SC!s_spad_req, SC!s_dma_req, SC!s_stream, SC!s_exp,
       SC!s_resp
  <2>2. QED BY <2>1, ServiceStutters
<1>4. QED BY <1>1, <1>2, <1>3

\* The states of the controller that only hand on.
LEMMA HandsOn ==
  ASSUME NEW aReady, NEW tlbReqFire, NEW tlbRespFire, NEW miss,
         Runs(aReady, tlbReqFire, tlbRespFire, miss),
         sc_state \in {"s_spad_req", "s_dma_req", "s_exp"}
  PROVE  UNCHANGED Service!vars
<1>1. Control /\ ServeCommand(aReady)
  BY DEF Runs, TakeCommand, SC!Accept, SC!s_idle
<1>2. a_fire(aReady) => Carried = {}
  <2>1. CASE sc_state = "s_exp"
    <3>1. dw_state = "s_exp"
      BY <1>1, <2>1 DEF Control
    <3>2. QED BY <3>1, InvalidCarriesNothing
  <2>2. CASE sc_state # "s_exp"
    BY <2>2, OutsideStream
  <2>3. QED BY <2>1, <2>2
<1>3. sc_state' # "s_idle" /\ UNCHANGED <<success, request, copied>>
  BY <1>1, <1>2 DEF ServeCommand, SC!Serve, SC!SpadReq, SC!DmaReq, SC!Stream, SC!Exp,
     SC!Resp, SC!s_idle, SC!s_spad_req, SC!s_dma_req, SC!s_stream, SC!s_exp, SC!s_resp
<1>4. QED BY <1>3, ServiceStutters

LEMMA ServiceNext == IInv /\ IInv' /\ [Next]_vars => [Service!Next]_(Service!vars)
<1> SUFFICES ASSUME IInv, IInv', [Next]_vars PROVE [Service!Next]_(Service!vars)
  OBVIOUS
<1>1. CASE Next
  <2>1. PICK aReady, tlbReqFire, tlbRespFire, miss, acked :
          Env(aReady, acked) /\ Cycle(aReady, tlbReqFire, tlbRespFire, miss, acked)
    BY <1>1, Cycles
  <2>2. /\ ControlTypes /\ PortTypes /\ WriterTypes
        /\ WriterTypes' /\ Writer' /\ Copied'
    <3>1. TypeOK /\ TypeOK' /\ Writer' /\ Copied'
      BY DEF IInv
    <3>2. WriterTypes'
      BY <2>1, CycleKeepsTypes DEF IInv
    <3>3. QED BY <3>1, <3>2, Types
  <2>3. Runs(aReady, tlbReqFire, tlbRespFire, miss)
    BY <2>1, <2>2 DEF IInv, Runs, Cycle, Env
  <2>4. CASE sc_state = "s_idle"
    BY <2>3, <2>4, IdleServes DEF Service!Next
  <2>5. CASE sc_state = "s_stream"
    BY <2>2, <2>3, <2>5, StreamServes DEF Service!Next
  <2>6. CASE sc_state = "s_resp"
    BY <2>3, <2>6, AnswerServes DEF Service!Next
  <2>7. CASE sc_state \in {"s_spad_req", "s_dma_req", "s_exp"}
    BY <2>3, <2>7, HandsOn
  <2>8. QED BY <2>2, <2>4, <2>5, <2>6, <2>7 DEF ControlTypes
<1>2. CASE UNCHANGED vars
  <2>1. UNCHANGED <<sc_state, success, request, copied>>
    BY <1>2 DEF vars, sc
  <2>2. QED BY <2>1, ServiceStutters
<1>3. QED BY <1>1, <1>2

(* The store path does what StoreService promises, for all stores, word    *)
(* and packet sizes: a store answered with success is in memory as a       *)
(* whole, and nothing but the bytes of its words is ever written.          *)
THEOREM StoreServed == Spec => ImplementsStoreService
<1>1. Init => Service!Init
  BY ServiceInit
<1>2. IInv /\ IInv' /\ [Next]_vars => [Service!Next]_(Service!vars)
  BY ServiceNext
<1>3. QED BY <1>1, <1>2, Invariant, PTL DEF Spec, ImplementsStoreService, Service!Spec
=============================================================================
