--------------------------- MODULE LoadPathProofs --------------------------
(***************************************************************************)
(* Proofs about LoadPath: every load is answered once, in order and with   *)
(* its id, the data are in place when the last answer of a transfer comes, *)
(* and nothing else is written.                                            *)
(*                                                                         *)
(* The invariant has three parts.  Control relates the registers of both   *)
(* FSMs and the queue between them to the transfers that are not over;     *)
(* Port relates the write port to the transfer in service; Data says that  *)
(* what the DMA still owes is cut into one segment for each transfer.      *)
(***************************************************************************)
EXTENDS LoadPath, SequenceTheorems, TLAPS

Serving == spadState # "s_spad_req"

\* The transfer in service is at the head of transfers; the others wait in
\* the queue.
off == IF Serving THEN 1 ELSE 0

\* Loads taken since the last transfer was asked for.
Collected == IF state = "s_idle" THEN addr_num ELSE addr_num + 1
Taken     == IF transfers = <<>> THEN answered ELSE transfers[Len(transfers)].last

Transfer == [first : Nat \ {0}, last : Nat]
QueueEntry == [addrs : [LC!AddrIdx -> Nat], num : LC!AddrIdx,
             len : 1 .. 2^lgMaxDataLen - 1, id : Nat]

\* Loads that may share a transfer, and bring the same.
Group(p, first, last) ==
  /\ 1 <= first /\ first <= last /\ last <= Len(p) /\ last - first < spadAddrNum
  /\ FusedRun(p, first, last)
  /\ \A k \in first .. last : SameSource(p[k], p[last])

RequestTypes ==
  /\ state \in {"s_idle", "s_dma_req"}
  /\ remote_addr \in Nat /\ spad_addrs \in [LC!AddrIdx -> Nat] /\ addr_num \in LC!AddrIdx
  /\ total_len \in 0 .. 2^lgMaxDataLen - 1 /\ id \in Nat
  /\ program \in Programs /\ accepted \in 0 .. Len(program)

StreamTypes ==
  /\ spadState \in {"s_spad_req", "s_spad_stream", "s_exp", "s_pre_resp", "s_resp"}
  /\ leftLen \in 0 .. 2^lgMaxDataLen - 1 /\ leftNum \in LC!AddrIdx /\ spadReqId \in Nat
  /\ success \in BOOLEAN /\ answered \in Nat

PortTypes ==
  /\ writeState \in {"s_write_idle", "s_write_data"} /\ write_exp_ack \in BOOLEAN
  /\ writeAddrs \in [LC!AddrIdx -> Nat] /\ writeAddrNum \in LC!AddrIdx /\ writeMaxAddr \in Nat
  /\ banks \in [SpadWords -> Int]

QueueTypes ==
  /\ spadReqQue \in Seq(QueueEntry) /\ Len(spadReqQue) <= reqQueDepth
  /\ owed \in Seq(Int) /\ transfers \in Seq(Transfer)

TypeInv == RequestTypes /\ StreamTypes /\ PortTypes /\ QueueTypes

\* The loads being collected are the last ones taken.
Collecting ==
  /\ accepted = Taken + Collected /\ Collected <= spadAddrNum
  /\ FusedRun(program, Taken + 1, IF state = "s_idle" THEN accepted + 1 ELSE accepted)
  /\ \A k \in Taken + 1 .. accepted :
       /\ remote_addr = program[k].remote_addr /\ total_len = program[k].total_len
       /\ id = program[k].id
       /\ spad_addrs[k - Taken - 1] = program[k].spad_addr

\* A transfer that waits, and its entry in the queue.
Describes(p, r, t) ==
  /\ Group(p, t.first, t.last)
  /\ r.num = t.last - t.first
  /\ r.id = p[t.last].id /\ r.len = p[t.last].total_len
  /\ \A j \in 0 .. r.num : r.addrs[j] = p[t.first + j].spad_addr

InService ==
  Serving =>
    LET t == transfers[1]
    IN  /\ Group(program, t.first, t.last)
        /\ spadReqId = program[t.last].id
        /\ answered + 1 >= t.first
        /\ IF spadState = "s_pre_resp" THEN leftNum >= 1 /\ answered + 1 + leftNum = t.last
           ELSE answered + 1 = t.last

Control ==
  /\ Len(transfers) = Len(spadReqQue) + off
  /\ \A i \in 1 .. Len(transfers) : transfers[i].last <= accepted
  /\ \A i \in 1 .. Len(transfers) - 1 : transfers[i + 1].first = transfers[i].last + 1
  /\ ~Serving /\ transfers # <<>> => transfers[1].first = answered + 1
  /\ \A i \in 1 .. Len(spadReqQue) : Describes(program, spadReqQue[i], transfers[i + off])
  /\ Collecting /\ InService

---------------------------------------------------------------------------
\* Bytes that have been written of the transfer in service.
done == program[transfers[1].last].total_len - leftLen

\* The write port works for the stream, a word behind none.
Port ==
  /\ writeState = "s_write_data" <=>
       spadState \in {"s_pre_resp", "s_spad_stream"} \/ (spadState = "s_exp" /\ ~write_exp_ack)
  /\ write_exp_ack => spadState = "s_exp"
  /\ spadState \in {"s_pre_resp", "s_spad_stream"} =>
       LET t   == transfers[1]
           len == program[t.last].total_len
       IN  /\ leftLen \in 1 .. len
           /\ spadState = "s_pre_resp" => done = 0
           /\ writeAddrNum = t.last - t.first
           /\ \A j \in 0 .. writeAddrNum :
                writeAddrs[j] = program[t.first + j].spad_addr + done
           /\ writeMaxAddr = program[t.first].spad_addr
                               + (IF len > dataByte THEN len - dataByte ELSE 0)

\* The first n words of a load are in the scratchpad.
Placed(b, load, n) ==
  \A k \in 0 .. n - 1 :
    b[load.spad_addr + k * dataByte] = load.remote_addr + k * dataByte

\* What is owed between two cuts: n words from an address, or fewer and an
\* exception.
Word(from, k) == from + (k - 1) * dataByte

Segment(o, lo, hi, from, n) ==
  \/ hi - lo = n /\ \A k \in 1 .. n : o[lo + k] = Word(from, k)
  \/ /\ hi - lo \in 1 .. n /\ o[hi] = Raised
     /\ \A k \in 1 .. hi - lo - 1 : o[lo + k] = Word(from, k)

\* The segment of the transfer in service.
InTransit(hi) ==
  LET t    == transfers[1]
      load == program[t.last]
  IN  \/ /\ spadState \in {"s_pre_resp", "s_spad_stream"} /\ success
         /\ \E n \in 0 .. Words(load.total_len) - 1 :
              /\ done = n * dataByte
              /\ \A k \in t.first .. t.last : Placed(banks, program[k], n)
              /\ Segment(owed, 0, hi, load.remote_addr + done, Words(load.total_len) - n)
      \/ /\ spadState = "s_exp" /\ ~success
         /\ hi = 1 /\ owed[1] = Raised
      \/ /\ spadState = "s_resp" /\ hi = 0
         /\ success =>
              \A k \in t.first .. t.last : Placed(banks, program[k], Words(load.total_len))

Cuts(c) ==
  /\ c \in [0 .. Len(transfers) -> 0 .. Len(owed)]
  /\ c[0] = 0 /\ c[Len(transfers)] = Len(owed)
  /\ \A i, j \in 0 .. Len(transfers) : i <= j => c[i] <= c[j]
  /\ Serving => InTransit(c[1])
  /\ \A i \in off + 1 .. Len(transfers) :
       LET load == program[transfers[i].last]
       IN  Segment(owed, c[i - 1], c[i], load.remote_addr, Words(load.total_len))

Data == \E c \in [0 .. Len(transfers) -> 0 .. Len(owed)] : Cuts(c)

IInv == TypeInv /\ Control /\ Port /\ Data /\ OnlyLoads

---------------------------------------------------------------------------
(* A cycle, taken apart.  d, e, p, h are 1 if in this cycle a transfer     *)
(* enters service, is asked for, is over, or a word leaves the DMA.        *)

\* What the request side does.
Takes ==
  /\ state = "s_idle" /\ accepted < Len(program) /\ accepted' = accepted + 1
  /\ LET load == program[accepted + 1]
     IN  /\ remote_addr' = load.remote_addr /\ total_len' = load.total_len
         /\ id' = load.id
         /\ spad_addrs' = [spad_addrs EXCEPT ![addr_num] = load.spad_addr]
         /\ \/ /\ ~load.fused \/ addr_num = spadAddrNum - 1
               /\ state' = "s_dma_req" /\ addr_num' = addr_num
            \/ /\ load.fused /\ addr_num # spadAddrNum - 1
               /\ state' = "s_idle" /\ addr_num' = addr_num + 1

Stays ==
  /\ state' = state /\ addr_num' = addr_num /\ remote_addr' = remote_addr
  /\ total_len' = total_len /\ id' = id /\ spad_addrs' = spad_addrs
  /\ accepted' = accepted

Asks ==
  /\ state = "s_dma_req" /\ state' = "s_idle" /\ addr_num' = 0
  /\ Len(spadReqQue) < reqQueDepth
  /\ remote_addr' = remote_addr /\ total_len' = total_len /\ id' = id
  /\ spad_addrs' = spad_addrs /\ accepted' = accepted

RequestMove(e) == (e = 0 /\ (Takes \/ Stays)) \/ (e = 1 /\ Asks)

\* What the stream side does, one operator for each kind of cycle.
PortStays == writeState' = writeState /\ writeAddrs' = writeAddrs
             /\ writeAddrNum' = writeAddrNum /\ writeMaxAddr' = writeMaxAddr
StreamStays == leftLen' = leftLen /\ leftNum' = leftNum /\ spadReqId' = spadReqId
               /\ success' = success

Starts ==
  LET r == spadReqQue[1]
  IN  /\ spadState = "s_spad_req" /\ spadReqQue # <<>> /\ writeState = "s_write_idle"
      /\ leftLen' = r.len /\ leftNum' = r.num /\ spadReqId' = r.id /\ success' = TRUE
      /\ spadState' = IF r.num > 0 THEN "s_pre_resp" ELSE "s_spad_stream"
      /\ writeState' = "s_write_data" /\ writeAddrs' = r.addrs /\ writeAddrNum' = r.num
      /\ writeMaxAddr' = r.addrs[0] + (IF r.len > dataByte THEN r.len - dataByte ELSE 0)
      /\ write_exp_ack' = FALSE /\ banks' = banks /\ answered' = answered

\* Nothing to do, nothing shown, or the write port busy with an abort.
Waits ==
  /\ spadState \in {"s_spad_req", "s_spad_stream"} /\ spadState' = spadState
  /\ StreamStays /\ PortStays /\ write_exp_ack' = FALSE
  /\ banks' = banks /\ answered' = answered

Raises ==
  /\ spadState = "s_spad_stream" /\ owed # <<>> /\ owed[1] = Raised
  /\ spadState' = "s_exp" /\ success' = FALSE
  /\ leftLen' = leftLen /\ leftNum' = leftNum /\ spadReqId' = spadReqId
  /\ PortStays /\ write_exp_ack' = FALSE
  /\ banks' = banks /\ answered' = answered

Carries ==
  /\ spadState = "s_spad_stream" /\ owed # <<>> /\ owed[1] # Raised
  /\ leftNum' = leftNum /\ spadReqId' = spadReqId /\ success' = success
  /\ leftLen' = (leftLen - dataByte) % 2^lgMaxDataLen
  /\ spadState' = IF leftLen <= dataByte THEN "s_resp" ELSE "s_spad_stream"
  /\ writeAddrs' = [j \in LC!AddrIdx |-> writeAddrs[j] + dataByte]
  /\ writeState' = IF writeAddrs[0] >= writeMaxAddr THEN "s_write_idle" ELSE "s_write_data"
  /\ writeAddrNum' = writeAddrNum /\ writeMaxAddr' = writeMaxAddr
  /\ write_exp_ack' = FALSE /\ answered' = answered
  /\ banks' = [w \in SpadWords |-> IF w \in Spad!WordsWritten THEN owed[1] ELSE banks[w]]

Aborts ==
  /\ spadState = "s_exp" /\ ~write_exp_ack /\ spadState' = "s_exp" /\ StreamStays
  /\ writeState' = "s_write_idle" /\ write_exp_ack' = TRUE
  /\ writeAddrs' = writeAddrs /\ writeAddrNum' = writeAddrNum /\ writeMaxAddr' = writeMaxAddr
  /\ banks' = banks /\ answered' = answered

Acknowledges ==
  /\ spadState = "s_exp" /\ write_exp_ack /\ spadState' = "s_resp" /\ StreamStays
  /\ PortStays /\ write_exp_ack' = FALSE
  /\ banks' = banks /\ answered' = answered

AnswersEarly ==
  /\ spadState = "s_pre_resp" /\ leftNum' = leftNum - 1
  /\ spadState' = IF leftNum = 1 THEN "s_spad_stream" ELSE "s_pre_resp"
  /\ leftLen' = leftLen /\ spadReqId' = spadReqId /\ success' = success
  /\ PortStays /\ write_exp_ack' = FALSE
  /\ banks' = banks /\ answered' = answered + 1

AnswersLast ==
  /\ spadState = "s_resp" /\ spadState' = "s_spad_req" /\ StreamStays
  /\ PortStays /\ write_exp_ack' = FALSE
  /\ banks' = banks /\ answered' = answered + 1

StreamMove(d, p, h) ==
  \/ d = 1 /\ p = 0 /\ h = 0 /\ Starts
  \/ d = 0 /\ p = 0 /\ h = 0 /\ (Waits \/ Raises \/ Aborts \/ AnswersEarly)
  \/ d = 0 /\ p = 0 /\ h = 1 /\ (Carries \/ Acknowledges)
  \/ d = 0 /\ p = 1 /\ h = 0 /\ AnswersLast

\* A sequence that may lose its head, and then may get new elements.
Shifted(new, old, k) ==
  /\ Len(new) >= Len(old) - k
  /\ \A i \in 1 .. Len(old) - k : new[i] = old[i + k]

QueueMove(d, e) ==
  /\ d <= Len(spadReqQue) /\ Len(spadReqQue') = Len(spadReqQue) - d + e
  /\ Shifted(spadReqQue', spadReqQue, d)
  /\ e = 1 => spadReqQue'[Len(spadReqQue')] =
                [addrs |-> spad_addrs, num |-> addr_num, len |-> total_len, id |-> id]

TransfersMove(p, e) ==
  /\ p <= Len(transfers) /\ Len(transfers') = Len(transfers) - p + e
  /\ Shifted(transfers', transfers, p)
  /\ e = 1 => transfers'[Len(transfers')] = [first |-> Taken + 1, last |-> accepted]

OwedMove(h, e) ==
  /\ h <= Len(owed) /\ Shifted(owed', owed, h)
  /\ e = 0 => Len(owed') = Len(owed) - h
  /\ e = 1 => Segment(owed', Len(owed) - h, Len(owed'), remote_addr, Words(total_len))

---------------------------------------------------------------------------
LEMMA Numbers ==
  /\ dataByte \in Nat \ {0} /\ 2^lgMaxDataLen \in Nat /\ reqQueDepth \in Nat \ {0}
  /\ spadAddrNum \in Nat /\ spadAddrNum > 1
  /\ LC!AddrIdx = 0 .. spadAddrNum - 1 /\ Spad!AddrIdx = LC!AddrIdx
  BY LoadPathAssumption DEF LC!AddrIdx, Spad!AddrIdx

(* The request side of a cycle.                                            *)
LEMMA RequestFacts ==
  ASSUME TypeInv, NEW offered \in BOOLEAN, NEW dmaReady \in BOOLEAN,
         offered => accepted < Len(program),
         RequestStep(offered, dmaReady)
  PROVE  \/ dma_req_fire(dmaReady) /\ Asks
         \/ ~dma_req_fire(dmaReady) /\ (Takes \/ Stays)
<1> USE DEF LC!s_idle, LC!s_dma_req, LC!enq_ready, LC!dma_req_valid, dma_req_fire
<1>1. CASE offered
  BY <1>1 DEF RequestStep, LC!Accept, LC!GroupComplete, Takes
<1>2. CASE ~offered
  <2>1. LC!ServeRequest(dma_req_fire(dmaReady)) /\ accepted' = accepted
    BY <1>2 DEF RequestStep
  <2>2. QED BY <2>1 DEF LC!ServeRequest, LC!DmaReq, LC!request, Asks, Stays
<1>3. QED BY <1>1, <1>2

(* The stream side: the FSM, the write port and the answers.               *)
LEMMA StreamFacts ==
  ASSUME TypeInv, Control, Port, Data, NEW shown \in BOOLEAN, spadState = "s_exp" => shown,
         LC!StreamSide(spad_req_fire, exp_req(shown), stream_fire(shown), write_exp_ack, TRUE),
         PortStep(shown), Answer
  PROVE  \E d, p, h \in {0, 1} :
           /\ StreamMove(d, p, h)
           /\ d = 1 <=> spad_req_fire
           /\ p = 1 <=> spadState = "s_resp"
           /\ h = 1 <=> stream_fire(shown) \/ (exp_req(shown) /\ write_exp_ack)
           /\ d = 1 => spadReqQue # <<>>
           /\ h = 1 => owed # <<>>
<1> USE DEF LC!s_spad_req, LC!s_spad_stream, LC!s_exp, LC!s_pre_resp, LC!s_resp,
            Spad!s_write_idle, Spad!s_write_data, LC!spad_req_valid, LC!deq_valid,
            LC!spad_exp_req, LC!streaming, LC!core_resp_valid, Spad!req_ready,
            Spad!stream_ready, spad_req_fire, exp_req, dma_valid, stream_fire,
            StreamStays, PortStays
<1> USE DEF LC!StreamSide, LC!SpadReq, LC!Stream, LC!Exp, LC!PreResp, LC!Resp, LC!stream,
            LC!LastWord, LC!LastPreResp, PortStep, Spad!Serve, Spad!Idle, Spad!Abort,
            Spad!Write, Spad!Stall, Spad!ExpAck, Answer, Port
<1>1. CASE spadState = "s_spad_req" /\ spad_req_fire
  <2>1. spadReqQue # <<>> /\ Head(spadReqQue) = spadReqQue[1]
    BY <1>1 DEF TypeInv, RequestTypes, StreamTypes, PortTypes, QueueTypes
  <2>2. Starts
    BY <1>1, <2>1 DEF Starts, Spad!Accept
  <2>3. StreamMove(1, 0, 0)
    BY <2>2 DEF StreamMove
  <2>4. QED BY <1>1, <2>1, <2>3
<1>2. CASE spadState = "s_spad_req" /\ ~spad_req_fire
  <2>1. Waits
    BY <1>2 DEF Waits, TypeInv, RequestTypes, StreamTypes, PortTypes, QueueTypes
  <2>2. StreamMove(0, 0, 0)
    BY <2>1 DEF StreamMove
  <2>3. QED BY <1>2, <2>2
<1>3. CASE spadState = "s_spad_stream" /\ exp_req(shown)
  <2>1. /\ owed # <<>> /\ Head(owed) = Raised /\ write_exp_ack = FALSE
        /\ stream_fire(shown) = FALSE /\ exp_req(shown) = TRUE
    BY <1>3 DEF TypeInv, RequestTypes, StreamTypes, PortTypes, QueueTypes
  <2> owed[1] = Raised
    BY <2>1 DEF TypeInv, RequestTypes, StreamTypes, PortTypes, QueueTypes
  <2>2. LC!Stream(exp_req(shown), stream_fire(shown)) /\ Spad!Stall(FALSE, FALSE)
    BY <1>3, <2>1
  <2>3. Raises
    BY <1>3, <2>1, <2>2 DEF Raises, TypeInv, RequestTypes, StreamTypes, PortTypes, QueueTypes
  <2>4. StreamMove(0, 0, 0)
    BY <2>3 DEF StreamMove
  <2>5. QED BY <1>3, <2>1, <2>4
<1>4. CASE spadState = "s_spad_stream" /\ stream_fire(shown)
  <2>1. owed # <<>> /\ Head(owed) = owed[1]
    BY <1>4 DEF TypeInv, RequestTypes, StreamTypes, PortTypes, QueueTypes
  <2>2. Carries
    BY <1>4, <2>1, Numbers DEF Carries, TypeInv, RequestTypes, StreamTypes, PortTypes, QueueTypes
  <2>3. StreamMove(0, 0, 1)
    BY <2>2 DEF StreamMove
  <2>4. QED BY <1>4, <2>1, <2>3
<1>5. CASE spadState = "s_spad_stream" /\ ~exp_req(shown) /\ ~stream_fire(shown)
  <2>1. Waits
    BY <1>5 DEF Waits, TypeInv, RequestTypes, StreamTypes, PortTypes, QueueTypes
  <2>2. StreamMove(0, 0, 0)
    BY <2>1 DEF StreamMove
  <2>3. QED BY <1>5, <2>2
<1>6. CASE spadState = "s_exp" /\ ~write_exp_ack
  <2>1. Aborts
    BY <1>6 DEF Aborts, TypeInv, RequestTypes, StreamTypes, PortTypes, QueueTypes
  <2>2. StreamMove(0, 0, 0)
    BY <2>1 DEF StreamMove
  <2>3. QED BY <1>6, <2>2
<1>7. CASE spadState = "s_exp" /\ write_exp_ack
  <2>1. owed # <<>> /\ exp_req(shown)
    <3>1. PICK c \in [0 .. Len(transfers) -> 0 .. Len(owed)] : Cuts(c)
      BY DEF Data
    <3>2. c[1] = 1 /\ owed[1] = Raised /\ 1 \in 0 .. Len(transfers) /\ c[1] \in 0 .. Len(owed)
      BY <1>7, <3>1, Control, SMTT(30) DEF Cuts, InTransit, Serving, Control, off, TypeInv, RequestTypes, StreamTypes, PortTypes, QueueTypes
    <3>3. QED BY <1>7, <3>2 DEF TypeInv, RequestTypes, StreamTypes, PortTypes, QueueTypes
  <2>2. Acknowledges
    BY <1>7 DEF Acknowledges, TypeInv, RequestTypes, StreamTypes, PortTypes, QueueTypes
  <2>3. StreamMove(0, 0, 1)
    BY <2>2 DEF StreamMove
  <2>4. QED BY <1>7, <2>1, <2>3
<1>8. CASE spadState = "s_pre_resp"
  <2>1. AnswersEarly
    BY <1>8 DEF AnswersEarly, TypeInv, RequestTypes, StreamTypes, PortTypes, QueueTypes
  <2>2. StreamMove(0, 0, 0)
    BY <2>1 DEF StreamMove
  <2>3. QED BY <1>8, <2>2
<1>9. CASE spadState = "s_resp"
  <2>1. AnswersLast
    BY <1>9 DEF AnswersLast, TypeInv, RequestTypes, StreamTypes, PortTypes, QueueTypes
  <2>2. StreamMove(0, 1, 0)
    BY <2>1 DEF StreamMove
  <2>3. QED BY <1>9, <2>2
<1>10. QED BY <1>1, <1>2, <1>3, <1>4, <1>5, <1>6, <1>7, <1>8, <1>9 DEF TypeInv, RequestTypes, StreamTypes, PortTypes, QueueTypes

\* One step of a sequence that loses its head (d = 1) and gets an element (e = 1).
SeqStep(S, new, q, d, e, x) ==
  /\ q \in Seq(S) /\ d \in {0, 1} /\ e \in {0, 1}
  /\ d = 1 => q # <<>>
  /\ e = 1 => x \in S
  /\ LET r == IF d = 1 THEN Tail(q) ELSE q
     IN  new = IF e = 1 THEN Append(r, x) ELSE r

SeqStepDone(S, new, q, d, e, x) ==
  /\ new \in Seq(S) /\ Len(new) = Len(q) - d + e /\ Shifted(new, q, d) /\ d <= Len(q)
  /\ e = 1 => new[Len(new)] = x

LEMMA SeqMove ==
  ASSUME NEW S, NEW q, NEW x, NEW d, NEW e, NEW new, SeqStep(S, new, q, d, e, x)
  PROVE  SeqStepDone(S, new, q, d, e, x)
<1> USE DEF SeqStepDone
<1>0. q \in Seq(S) /\ d \in {0, 1} /\ e \in {0, 1} /\ (d = 1 => q # <<>>) /\ (e = 1 => x \in S)
  BY DEF SeqStep
<1> DEFINE r == IF d = 1 THEN Tail(q) ELSE q
<1>1. /\ r \in Seq(S) /\ Len(r) = Len(q) - d /\ d <= Len(q)
      /\ \A i \in 1 .. Len(r) : r[i] = q[i + d]
  <2>1. CASE d = 1
    BY <1>0, <2>1
  <2>2. CASE d = 0
    BY <1>0, <2>2
  <2>3. QED BY <1>0, <2>1, <2>2
<1>2. new = IF e = 1 THEN Append(r, x) ELSE r
  BY DEF SeqStep
<1> HIDE DEF r
<1>3. CASE e = 0
  BY <1>0, <1>1, <1>2, <1>3 DEF Shifted
<1>4. CASE e = 1
  <2>1. new = Append(r, x)
    BY <1>2, <1>4
  <2>2. /\ new \in Seq(S) /\ Len(new) = Len(r) + 1 /\ new[Len(new)] = x
        /\ \A i \in 1 .. Len(r) : new[i] = r[i]
    BY <1>0, <1>1, <1>4, <2>1
  <2>3. QED BY <1>0, <1>1, <1>4, <2>2 DEF Shifted
<1>5. QED BY <1>0, <1>3, <1>4

(* The words of a length: enough for it, and not one too many.             *)
LEMMA WordsFacts ==
  ASSUME NEW n \in Nat
  PROVE  /\ Words(n) \in Nat /\ n <= Words(n) * dataByte
         /\ (Words(n) - 1) * dataByte < n \/ n = 0
         /\ n > 0 => Words(n) > 0
  BY Numbers DEF Words

\* What the DMA adds for a request is a segment.
WordsAdded(new, o, from, all, n) ==
  new = o \o WordsFrom(from, n) \o (IF n < all THEN <<Raised>> ELSE <<>>)

LEMMA SegmentAdded ==
  ASSUME NEW o \in Seq(Int), NEW from \in Nat, NEW all \in Nat, NEW n \in 0 .. all,
         NEW new, WordsAdded(new, o, from, all, n)
  PROVE  /\ new \in Seq(Int) /\ Shifted(new, o, 0)
         /\ Segment(new, Len(o), Len(new), from, all)
<1> DEFINE w == WordsFrom(from, n)
           ow == o \o w
<1>1. w \in Seq(Int) /\ Len(w) = n /\ \A k \in 1 .. n : w[k] = Word(from, k)
  <2>1. \A k \in 1 .. n : Word(from, k) \in Int
    BY Numbers DEF Word
  <2>2. w \in [1 .. n -> Int] /\ \A k \in 1 .. n : w[k] = Word(from, k)
    BY <2>1 DEF WordsFrom, Word
  <2>3. w \in Seq(Int)
    BY <2>2, SeqDef
  <2>4. QED BY <2>2, <2>3, LenProperties
<1> HIDE DEF w
<1>2. /\ ow \in Seq(Int) /\ Len(ow) = Len(o) + n
      /\ \A i \in 1 .. Len(o) + n : ow[i] = IF i <= Len(o) THEN o[i] ELSE w[i - Len(o)]
  BY <1>1, ConcatProperties
<1>3. (new = ow \o <<Raised>> /\ n < all) \/ (new = ow \o <<>> /\ n = all)
  <2> DEFINE t == IF n < all THEN <<Raised>> ELSE <<>>
  <2>1. new = ow \o t
    BY DEF w, WordsAdded
  <2>2. (t = <<Raised>> /\ n < all) \/ (t = <<>> /\ n = all)
    OBVIOUS
  <2> HIDE DEF t, ow
  <2>3. QED BY <2>1, <2>2
<1> HIDE DEF ow
<1>4. Len(o) \in Nat /\ n \in Nat
  OBVIOUS
<1>5. \A i \in 1 .. Len(o) : ow[i] = o[i]
  <2>1. TAKE i \in 1 .. Len(o)
  <2>2. i \in 1 .. Len(o) + n /\ i <= Len(o)
    BY <1>4
  <2>3. QED BY <1>2, <2>2
<1>6. \A k \in 1 .. n : ow[Len(o) + k] = Word(from, k)
  <2>1. TAKE k \in 1 .. n
  <2>2. Len(o) + k \in 1 .. Len(o) + n /\ ~(Len(o) + k <= Len(o)) /\ (Len(o) + k) - Len(o) = k
    BY <1>4
  <2>3. ow[Len(o) + k] = w[(Len(o) + k) - Len(o)]
    BY <1>2, <2>2
  <2>4. QED BY <1>1, <2>2, <2>3
<1>7. CASE new = ow \o <<Raised>> /\ n < all
  <2>0. Raised \in Int /\ ow \in Seq(Int)
    BY <1>2 DEF Raised
  <2>1. new = Append(ow, Raised)
    BY <1>2, <1>7, <2>0, AppendIsConcat
  <2>2. /\ new \in Seq(Int) /\ Len(new) = Len(ow) + 1 /\ new[Len(new)] = Raised
        /\ \A i \in 1 .. Len(ow) : new[i] = ow[i]
    BY <2>0, <2>1, AppendProperties
  <2>3. Len(new) = Len(o) + n + 1 /\ \A i \in 1 .. Len(o) + n : new[i] = ow[i]
    BY <1>2, <2>2
  <2>4. Shifted(new, o, 0)
    BY <1>4, <1>5, <2>3 DEF Shifted
  <2>5. \A k \in 1 .. n : new[Len(o) + k] = Word(from, k)
    <3>1. TAKE k \in 1 .. n
    <3>2. Len(o) + k \in 1 .. Len(o) + n
      BY <1>4
    <3>3. QED BY <1>6, <2>3, <3>2
  <2>6. Len(new) - Len(o) = n + 1 /\ n + 1 \in 1 .. all /\ (Len(new) - Len(o)) - 1 = n
    BY <1>4, <1>7, <2>3
  <2>7. Segment(new, Len(o), Len(new), from, all)
    BY <2>2, <2>5, <2>6 DEF Segment
  <2>8. QED BY <2>2, <2>4, <2>7
<1>8. CASE new = ow \o <<>> /\ n = all
  <2>1. new = ow
    BY <1>2, <1>8, ConcatEmptySeq
  <2>2. Shifted(new, o, 0)
    BY <1>2, <1>4, <1>5, <2>1 DEF Shifted
  <2>3. Segment(new, Len(o), Len(new), from, all)
    <3>1. Len(new) - Len(o) = all /\ n = all
      BY <1>2, <1>4, <1>8, <2>1
    <3>2. \A k \in 1 .. all : new[Len(o) + k] = Word(from, k)
      BY <1>6, <2>1, <3>1
    <3>3. QED BY <3>1, <3>2 DEF Segment
  <2>4. QED BY <1>2, <2>1, <2>2, <2>3
<1>9. QED BY <1>3, <1>7, <1>8

(* The program, and what the registers hold when a group is complete.      *)
LEMMA ProgramFacts ==
  ASSUME TypeInv
  PROVE  /\ program \in Seq(LoadCmd) /\ Len(program) \in Nat
         /\ \A k \in 1 .. Len(program) :
              /\ InItsBlock(program[k])
              /\ program[k].total_len \in 1 .. 2^lgMaxDataLen - 1
              /\ program[k].remote_addr \in Nat /\ program[k].spad_addr \in Nat
              /\ program[k].id \in Nat /\ program[k].fused \in BOOLEAN
<1>1. program \in Seq(LoadCmd) /\ \A k \in 1 .. Len(program) : InItsBlock(program[k])
  BY ProgramsAssumption DEF TypeInv, RequestTypes, StreamTypes, PortTypes, QueueTypes
<1>2. \A k \in 1 .. Len(program) : program[k] \in LoadCmd
  BY <1>1, ElementOfSeq
<1>3. Len(program) \in Nat
  BY <1>1
<1>4. QED BY <1>1, <1>2, <1>3 DEF LoadCmd

LEMMA TransfersFacts ==
  ASSUME TypeInv
  PROVE  /\ Len(transfers) \in Nat
         /\ \A i \in 1 .. Len(transfers) :
              transfers[i].first \in Nat \ {0} /\ transfers[i].last \in Nat
<1>1. transfers \in Seq(Transfer)
  BY DEF TypeInv, RequestTypes, StreamTypes, PortTypes, QueueTypes
<1>2. \A i \in 1 .. Len(transfers) : transfers[i] \in Transfer
  BY <1>1, ElementOfSeq
<1>3. QED BY <1>1, <1>2 DEF Transfer

LEMMA TakenIsNat ==
  ASSUME TypeInv
  PROVE  Taken \in Nat
<1>1. CASE transfers = <<>>
  BY <1>1 DEF Taken, TypeInv, RequestTypes, StreamTypes, PortTypes, QueueTypes
<1>2. CASE transfers # <<>>
  <2>1. Len(transfers) \in 1 .. Len(transfers)
    BY <1>2 DEF TypeInv, RequestTypes, StreamTypes, PortTypes, QueueTypes
  <2>2. QED BY <1>2, <2>1, TransfersFacts DEF Taken
<1>3. QED BY <1>1, <1>2

LEMMA ReadyToAsk ==
  ASSUME TypeInv, Control, state = "s_dma_req"
  PROVE  /\ Taken \in Nat /\ accepted = Taken + addr_num + 1 /\ accepted \in 1 .. Len(program)
         /\ total_len = program[accepted].total_len /\ id = program[accepted].id
         /\ remote_addr = program[accepted].remote_addr
         /\ total_len \in 1 .. 2^lgMaxDataLen - 1 /\ id \in Nat
<1>1. Taken \in Nat
  BY TakenIsNat
<1>2. accepted = Taken + addr_num + 1 /\ addr_num \in Nat /\ accepted \in 1 .. Len(program)
  BY <1>1, Numbers, ProgramFacts DEF Control, Collecting, Collected, TypeInv, RequestTypes
<1>3. accepted \in Taken + 1 .. accepted
  BY <1>1, <1>2
<1>4. QED BY <1>1, <1>2, <1>3, ProgramFacts DEF Control, Collecting

(* The parts of a cycle.                                                   *)
Parts(d, e, p, h) ==
  /\ d \in {0, 1} /\ e \in {0, 1} /\ p \in {0, 1} /\ h \in {0, 1}
  /\ RequestMove(e) /\ StreamMove(d, p, h)
  /\ QueueMove(d, e) /\ TransfersMove(p, e) /\ OwedMove(h, e)
  /\ spadReqQue' \in Seq(QueueEntry) /\ transfers' \in Seq(Transfer) /\ owed' \in Seq(Int)
  /\ program' = program

LEMMA CycleFacts ==
  ASSUME TypeInv, Control, Port, Data, Next
  PROVE  \E d, e, p, h \in {0, 1} : Parts(d, e, p, h)
<1>1. PICK offered \in BOOLEAN, dmaReady \in BOOLEAN, shown \in BOOLEAN, n \in 0 .. Words(total_len) :
        /\ offered => accepted < Len(program)
        /\ spadState = "s_exp" => shown
        /\ Cycle(offered, dmaReady, n, shown)
  <2>1. Words(total_len) \in Nat
    BY WordsFacts, Numbers DEF TypeInv, RequestTypes, StreamTypes, PortTypes, QueueTypes
  <2>2. PICK offered \in When(accepted < Len(program) /\ LC!core_req_ready),
             dmaReady \in When(LC!dma_req_valid),
             shown \in (IF spadState = "s_exp" THEN {TRUE}
                       ELSE When(owed # <<>> /\ LC!streaming)) :
          \E n \in IF TLBMayMiss /\ dmaReady THEN 0 .. Words(total_len) ELSE {Words(total_len)} :
            Cycle(offered, dmaReady, n, shown)
    BY DEF Next
  <2>3. PICK n \in 0 .. Words(total_len) : Cycle(offered, dmaReady, n, shown)
    BY <2>1, <2>2
  <2>4. /\ offered \in BOOLEAN /\ dmaReady \in BOOLEAN /\ shown \in BOOLEAN
        /\ offered => accepted < Len(program)
        /\ spadState = "s_exp" => shown
    BY <2>2 DEF When
  <2>5. QED BY <2>3, <2>4
<1>2. RequestStep(offered, dmaReady) /\ PortStep(shown) /\ DMAStep(dmaReady, n, shown)
      /\ Answer /\ Transfers(dmaReady)
      /\ LC!StreamSide(spad_req_fire, exp_req(shown), stream_fire(shown), write_exp_ack, TRUE)
  BY <1>1 DEF Cycle
<1>3. PICK d \in {0, 1}, p \in {0, 1}, h \in {0, 1} :
           /\ StreamMove(d, p, h)
           /\ d = 1 <=> spad_req_fire
           /\ p = 1 <=> spadState = "s_resp"
           /\ h = 1 <=> stream_fire(shown) \/ (exp_req(shown) /\ write_exp_ack)
           /\ d = 1 => spadReqQue # <<>>
           /\ h = 1 => owed # <<>>
  BY <1>1, <1>2, StreamFacts
<1> DEFINE e == IF dma_req_fire(dmaReady) THEN 1 ELSE 0
<1>4. e \in {0, 1} /\ (e = 1 <=> dma_req_fire(dmaReady))
  OBVIOUS
<1> HIDE DEF e
<1>5. RequestMove(e)
  BY <1>1, <1>2, <1>4, RequestFacts DEF RequestMove
<1>6. spadReqQue' \in Seq(QueueEntry) /\ QueueMove(d, e)
  <2> DEFINE x == [addrs |-> spad_addrs, num |-> addr_num, len |-> total_len, id |-> id]
             r == IF d = 1 THEN Tail(spadReqQue) ELSE spadReqQue
  <2>1. e = 1 => x \in QueueEntry
    BY <1>5, ReadyToAsk, Numbers DEF RequestMove, Asks, TypeInv, RequestTypes, StreamTypes, PortTypes, QueueTypes, QueueEntry
  <2>2. spadReqQue' = IF e = 1 THEN Append(r, x) ELSE r
    BY <1>2, <1>3, <1>4, <1>5 DEF RequestStep, LC!SpadReqQue, LC!QueStep, LC!deq_valid,
       LC!enq_ready, RequestMove, Asks
  <2> HIDE DEF x
  <2>3. SeqStep(QueueEntry, spadReqQue', spadReqQue, d, e, x)
    BY <1>3, <1>4, <2>1, <2>2 DEF SeqStep, TypeInv, RequestTypes, StreamTypes, PortTypes, QueueTypes
  <2>4. SeqStepDone(QueueEntry, spadReqQue', spadReqQue, d, e, x)
    BY <2>3, SeqMove
  <2>5. QED BY <2>4 DEF SeqStepDone, QueueMove, x
<1>7. transfers' \in Seq(Transfer) /\ TransfersMove(p, e)
  <2> DEFINE x == [first |-> Taken + 1, last |-> accepted]
             r == IF p = 1 THEN Tail(transfers) ELSE transfers
  <2>1. e = 1 => x \in Transfer
    BY <1>5, ReadyToAsk DEF RequestMove, Asks, Transfer
  <2>2. transfers' = IF e = 1 THEN Append(r, x) ELSE r
    BY <1>2, <1>3, <1>4 DEF Transfers, Taken
  <2> HIDE DEF x
  <2>3. transfers \in Seq(Transfer) /\ (p = 1 => transfers # <<>>)
    BY <1>3 DEF TypeInv, RequestTypes, StreamTypes, PortTypes, QueueTypes, Control, off, Serving
  <2>4. SeqStep(Transfer, transfers', transfers, p, e, x)
    BY <1>3, <1>4, <2>1, <2>2, <2>3 DEF SeqStep
  <2>5. SeqStepDone(Transfer, transfers', transfers, p, e, x)
    BY <2>4, SeqMove
  <2>6. QED BY <2>5 DEF SeqStepDone, TransfersMove, x
<1>8. owed' \in Seq(Int) /\ OwedMove(h, e)
  <2> DEFINE r == IF h = 1 THEN Tail(owed) ELSE owed
  <2>1. SeqStep(Int, r, owed, h, 0, 0) /\ owed \in Seq(Int)
    BY <1>3 DEF SeqStep, TypeInv, RequestTypes, StreamTypes, PortTypes, QueueTypes
  <2>2. owed' = IF e = 1
                THEN r \o WordsFrom(remote_addr, n) \o (IF n < Words(total_len) THEN <<Raised>> ELSE <<>>)
                ELSE r
    BY <1>2, <1>3, <1>4 DEF DMAStep
  <2> HIDE DEF r
  <2>3. r \in Seq(Int) /\ Len(r) = Len(owed) - h + 0 /\ Shifted(r, owed, h) /\ h <= Len(owed)
    <3>1. SeqStepDone(Int, r, owed, h, 0, 0)
      BY <2>1, SeqMove
    <3>2. QED BY <3>1 DEF SeqStepDone
  <2>4. CASE e = 0
    BY <2>1, <2>2, <2>3, <2>4 DEF OwedMove
  <2>5. CASE e = 1
    <3>1. Words(total_len) \in Nat /\ remote_addr \in Nat
      BY WordsFacts, Numbers DEF TypeInv, RequestTypes, StreamTypes, PortTypes, QueueTypes
    <3>2. /\ owed' \in Seq(Int) /\ Shifted(owed', r, 0)
          /\ Segment(owed', Len(r), Len(owed'), remote_addr, Words(total_len))
      BY <2>2, <2>3, <2>5, <3>1, SegmentAdded DEF WordsAdded
    <3>3. Shifted(owed', owed, h) /\ Len(r) = Len(owed) - h
      BY <2>1, <2>3, <3>2 DEF Shifted
    <3>4. QED BY <2>3, <2>5, <3>2, <3>3 DEF OwedMove
  <2>6. QED BY <1>4, <2>4, <2>5
<1>9. program' = program
  BY <1>2 DEF Answer
<1>10. Parts(d, e, p, h)
  BY <1>3, <1>4, <1>5, <1>6, <1>7, <1>8, <1>9 DEF Parts
<1>11. QED BY <1>4, <1>10

(* The head of the queue and its transfer.                                 *)
LEMMA QueueFacts ==
  ASSUME TypeInv
  PROVE  /\ Len(spadReqQue) \in Nat
         /\ \A i \in 1 .. Len(spadReqQue) :
              /\ spadReqQue[i].addrs \in [LC!AddrIdx -> Nat] /\ spadReqQue[i].num \in LC!AddrIdx
              /\ spadReqQue[i].len \in 1 .. 2^lgMaxDataLen - 1 /\ spadReqQue[i].id \in Nat
<1>1. spadReqQue \in Seq(QueueEntry)
  BY DEF TypeInv, RequestTypes, StreamTypes, PortTypes, QueueTypes
<1>2. \A i \in 1 .. Len(spadReqQue) : spadReqQue[i] \in QueueEntry
  BY <1>1, ElementOfSeq
<1>3. \A r \in QueueEntry : /\ r.addrs \in [LC!AddrIdx -> Nat] /\ r.num \in LC!AddrIdx
                           /\ r.len \in 1 .. 2^lgMaxDataLen - 1 /\ r.id \in Nat
  BY DEF QueueEntry
<1>4. Len(spadReqQue) \in Nat
  BY <1>1
<1> HIDE DEF QueueEntry
<1>5. QED BY <1>2, <1>3, <1>4

(* A cycle keeps the types.                                                *)
LEMMA TypeStep ==
  ASSUME TypeInv, Control, NEW d, NEW e, NEW p, NEW h, Parts(d, e, p, h)
  PROVE  TypeInv'
<1>1. /\ RequestMove(e) /\ StreamMove(d, p, h) /\ QueueMove(d, e)
      /\ d \in {0, 1} /\ e \in {0, 1} /\ p \in {0, 1} /\ h \in {0, 1} /\ program' = program
      /\ spadReqQue' \in Seq(QueueEntry) /\ transfers' \in Seq(Transfer) /\ owed' \in Seq(Int)
  BY DEF Parts
<1>2. RequestTypes'
  <2>1. CASE Takes
    <3>1. accepted + 1 \in 1 .. Len(program)
      BY <2>1, ProgramFacts DEF Takes, TypeInv, RequestTypes
    <3>2. /\ program[accepted + 1].total_len \in 1 .. 2^lgMaxDataLen - 1
          /\ program[accepted + 1].remote_addr \in Nat
          /\ program[accepted + 1].spad_addr \in Nat /\ program[accepted + 1].id \in Nat
      BY <3>1, ProgramFacts
    <3>3. addr_num' \in LC!AddrIdx
      <4>1. addr_num \in 0 .. spadAddrNum - 1
        BY Numbers DEF TypeInv, RequestTypes
      <4>2. addr_num' = addr_num \/ (addr_num # spadAddrNum - 1 /\ addr_num' = addr_num + 1)
        BY <2>1 DEF Takes
      <4>3. QED BY <4>1, <4>2, Numbers
    <3>4. spad_addrs' \in [LC!AddrIdx -> Nat]
      BY <2>1, <3>2 DEF Takes, TypeInv, RequestTypes
    <3>5. accepted' \in 0 .. Len(program) /\ state' \in {"s_idle", "s_dma_req"}
      BY <2>1, <3>1 DEF Takes
    <3>6. total_len' \in 0 .. 2^lgMaxDataLen - 1 /\ remote_addr' \in Nat /\ id' \in Nat
      BY <2>1, <3>2, Numbers DEF Takes
    <3>7. QED BY <1>1, <3>3, <3>4, <3>5, <3>6 DEF RequestTypes, TypeInv
  <2>2. CASE Stays
    BY <1>1, <2>2 DEF Stays, TypeInv, RequestTypes
  <2>3. CASE Asks
    BY <1>1, <2>3, Numbers, SMTT(30) DEF Asks, TypeInv, RequestTypes
  <2>4. QED BY <1>1, <2>1, <2>2, <2>3 DEF RequestMove
<1>3. QueueTypes'
  <2>1. e = 1 => Len(spadReqQue) < reqQueDepth
    BY <1>1 DEF RequestMove, Asks
  <2>2. Len(spadReqQue) \in Nat /\ Len(spadReqQue) <= reqQueDepth
    BY QueueFacts DEF TypeInv, QueueTypes
  <2>3. Len(spadReqQue') <= reqQueDepth
    BY <1>1, <2>1, <2>2, Numbers DEF QueueMove
  <2>4. QED BY <1>1, <2>3 DEF QueueTypes
<1>4. StreamTypes' /\ write_exp_ack' \in BOOLEAN /\ banks' \in [SpadWords -> Int]
  <2> USE DEF StreamStays, StreamTypes
  <2>0. StreamTypes /\ banks \in [SpadWords -> Int]
    BY DEF TypeInv, PortTypes
  <2>1. CASE Starts
    <3>1. 1 \in 1 .. Len(spadReqQue)
      BY <2>1, QueueFacts DEF Starts, TypeInv, QueueTypes
    <3>2. /\ spadReqQue[1].len \in 0 .. 2^lgMaxDataLen - 1
          /\ spadReqQue[1].num \in LC!AddrIdx /\ spadReqQue[1].id \in Nat
      BY <3>1, QueueFacts, Numbers
    <3>3. /\ leftLen' \in 0 .. 2^lgMaxDataLen - 1 /\ leftNum' \in LC!AddrIdx
          /\ spadReqId' \in Nat /\ success' = TRUE /\ answered' = answered
          /\ write_exp_ack' = FALSE /\ banks' = banks
          /\ spadState' = "s_pre_resp" \/ spadState' = "s_spad_stream"
      BY <2>1, <3>2 DEF Starts
    <3>4. QED BY <2>0, <3>3
  <2>2. CASE Waits
    BY <2>0, <2>2 DEF Waits
  <2>3. CASE Aborts
    BY <2>0, <2>3 DEF Aborts
  <2>4. CASE Acknowledges
    BY <2>0, <2>4 DEF Acknowledges
  <2>5. CASE AnswersLast
    <3>1. spadState' = "s_spad_req" /\ answered' = answered + 1 /\ answered' \in Nat
      BY <2>0, <2>5 DEF AnswersLast
    <3>2. QED BY <2>0, <2>5, <3>1 DEF AnswersLast
  <2>6. CASE Raises
    BY <2>0, <2>6 DEF Raises
  <2>7. CASE AnswersEarly
    <3>1. leftNum \in 1 .. spadAddrNum - 1
      BY <2>0, <2>7, Numbers DEF AnswersEarly, Control, InService, Serving
    <3>2. leftNum' \in LC!AddrIdx
      BY <2>7, <3>1, Numbers DEF AnswersEarly
    <3>3. answered' = answered + 1 /\ answered' \in Nat
          /\ (spadState' = "s_spad_stream" \/ spadState' = "s_pre_resp")
      BY <2>0, <2>7 DEF AnswersEarly
    <3>4. QED BY <2>0, <2>7, <3>2, <3>3 DEF AnswersEarly
  <2>8. CASE Carries
    <3>1. leftLen' \in 0 .. 2^lgMaxDataLen - 1
      <4>1. leftLen - dataByte \in Int /\ 2^lgMaxDataLen \in Nat /\ 2^lgMaxDataLen > 0
        BY <2>0, Numbers
      <4>2. leftLen' = (leftLen - dataByte) % 2^lgMaxDataLen
        BY <2>8 DEF Carries
      <4> HIDE DEF StreamTypes
      <4>3. QED BY <4>1, <4>2
    <3>2. owed[1] \in Int
      BY <2>8 DEF Carries, TypeInv, QueueTypes
    <3>3. banks' \in [SpadWords -> Int]
      BY <2>0, <2>8, <3>2 DEF Carries
    <3>4. QED BY <2>0, <2>8, <3>1, <3>3 DEF Carries
  <2>9. QED BY <1>1, <2>1, <2>2, <2>3, <2>4, <2>5, <2>6, <2>7, <2>8 DEF StreamMove
<1>5. /\ writeState' \in {"s_write_idle", "s_write_data"}
      /\ writeAddrs' \in [LC!AddrIdx -> Nat] /\ writeAddrNum' \in LC!AddrIdx /\ writeMaxAddr' \in Nat
  <2> USE DEF PortStays
  <2>0. PortTypes
    BY DEF TypeInv
  <2>1. CASE Starts
    <3>1. 1 \in 1 .. Len(spadReqQue) /\ 0 \in LC!AddrIdx
      BY <2>1, QueueFacts, Numbers DEF Starts, TypeInv, QueueTypes
    <3>2. /\ spadReqQue[1].addrs \in [LC!AddrIdx -> Nat] /\ spadReqQue[1].num \in LC!AddrIdx
          /\ spadReqQue[1].len \in 1 .. 2^lgMaxDataLen - 1
      BY <3>1, QueueFacts
    <3> spadReqQue[1].addrs[0] \in Nat /\ spadReqQue[1].len \in Nat
      BY <3>1, <3>2, Numbers
    <3>0. \A a, l \in Nat : a + (IF l > dataByte THEN l - dataByte ELSE 0) \in Nat
      BY Numbers
    <3>3. writeMaxAddr' \in Nat
      BY <2>1, <3>0 DEF Starts
    <3>4. QED BY <2>1, <3>2, <3>3 DEF Starts
  <2>2. CASE Waits
    BY <2>0, <2>2 DEF Waits, PortTypes
  <2>3. CASE Aborts
    BY <2>0, <2>3 DEF Aborts, PortTypes
  <2>4. CASE Acknowledges
    BY <2>0, <2>4 DEF Acknowledges, PortTypes
  <2>5. CASE AnswersLast
    BY <2>0, <2>5 DEF AnswersLast, PortTypes
  <2>6. CASE Raises
    BY <2>0, <2>6 DEF Raises, PortTypes
  <2>7. CASE AnswersEarly
    BY <2>0, <2>7 DEF AnswersEarly, PortTypes
  <2>8. CASE Carries
    BY <2>0, <2>8, Numbers DEF Carries, PortTypes
  <2>9. QED BY <1>1, <2>1, <2>2, <2>3, <2>4, <2>5, <2>6, <2>7, <2>8 DEF StreamMove
<1>6. QED BY <1>2, <1>3, <1>4, <1>5 DEF TypeInv, PortTypes

---------------------------------------------------------------------------
(* How the transfers move: one enters service, is over, is asked for.      *)
LEMMA Lengths ==
  ASSUME TypeInv, Control, NEW d, NEW e, NEW p, NEW h, Parts(d, e, p, h)
  PROVE  /\ d \in {0, 1} /\ e \in {0, 1} /\ p \in {0, 1} /\ h \in {0, 1}
         /\ off \in {0, 1} /\ off' = off + d - p /\ off' \in {0, 1}
         /\ Serving <=> off = 1
         /\ Serving' <=> off' = 1
         /\ Len(transfers) \in Nat /\ Len(spadReqQue) \in Nat
         /\ Len(transfers) = Len(spadReqQue) + off
         /\ Len(transfers') = Len(transfers) - p + e /\ p <= Len(transfers)
         /\ Len(spadReqQue') = Len(spadReqQue) - d + e /\ d <= Len(spadReqQue)
         /\ d = 1 => off = 0
         /\ p = 1 => off = 1
<1>1. StreamMove(d, p, h)
  BY DEF Parts
<1>2. /\ off' = off + d - p
      /\ d = 1 => off = 0
      /\ p = 1 => off = 1
  <2> USE DEF off, Serving
  <2>1. CASE Starts /\ d = 1 /\ p = 0
    BY <2>1 DEF Starts
  <2>2. CASE (Waits \/ Raises \/ Aborts \/ AnswersEarly) /\ d = 0 /\ p = 0
    BY <2>2 DEF Waits, Raises, Aborts, AnswersEarly
  <2>3. CASE (Carries \/ Acknowledges) /\ d = 0 /\ p = 0
    BY <2>3 DEF Carries, Acknowledges
  <2>4. CASE AnswersLast /\ d = 0 /\ p = 1
    BY <2>4 DEF AnswersLast
  <2>5. QED BY <1>1, <2>1, <2>2, <2>3, <2>4 DEF StreamMove
<1>3. off \in {0, 1} /\ off' \in {0, 1} /\ (Serving <=> off = 1) /\ (Serving' <=> off' = 1)
  BY DEF off
<1>4. QED BY <1>2, <1>3, TransfersFacts, QueueFacts DEF Parts, Control, QueueMove, TransfersMove

LEMMA HeadStays ==
  ASSUME TypeInv, Control, NEW d, NEW e, NEW p, NEW h, Parts(d, e, p, h), Serving'
  PROVE  Len(transfers) >= 1 /\ p = 0 /\ transfers'[1] = transfers[1]
<1>1. p = 0 /\ Len(transfers) >= 1
  BY Lengths
<1>2. Shifted(transfers', transfers, 0)
  BY <1>1 DEF Parts, TransfersMove
<1>3. 1 \in 1 .. Len(transfers) - 0 /\ 1 + 0 = 1
  BY <1>1, Lengths
<1>4. QED BY <1>1, <1>2, <1>3 DEF Shifted

LEMMA TakenStep ==
  ASSUME TypeInv, Control, NEW d, NEW e, NEW p, NEW h, Parts(d, e, p, h)
  PROVE  Taken' = IF e = 1 THEN accepted ELSE Taken
<1>1. /\ transfers \in Seq(Transfer) /\ transfers' \in Seq(Transfer)
      /\ Shifted(transfers', transfers, p)
      /\ StreamMove(d, p, h)
      /\ e = 1 => transfers'[Len(transfers')] = [first |-> Taken + 1, last |-> accepted]
  BY DEF Parts, TransfersMove, TypeInv, QueueTypes
<1>2. CASE e = 1
  <2>1. transfers' # <<>> /\ transfers'[Len(transfers')].last = accepted
    BY <1>1, <1>2, Lengths
  <2>2. QED BY <1>2, <2>1 DEF Taken
<1>3. CASE e = 0 /\ Len(transfers) - p >= 1
  <2>1. transfers # <<>> /\ transfers' # <<>> /\ Len(transfers') = Len(transfers) - p
        /\ Len(transfers) - p \in 1 .. Len(transfers) - p
        /\ (Len(transfers) - p) + p = Len(transfers)
    BY <1>1, <1>3, Lengths
  <2>2. transfers'[Len(transfers')] = transfers[Len(transfers)]
    BY <1>1, <2>1 DEF Shifted
  <2>3. QED BY <1>3, <2>1, <2>2 DEF Taken
<1>4. CASE e = 0 /\ Len(transfers) - p = 0 /\ p = 1
  <2>1. transfers' = <<>> /\ transfers # <<>> /\ Len(transfers) = 1
    BY <1>1, <1>4, Lengths
  <2>2. answered' = answered + 1 /\ spadState = "s_resp"
    BY <1>1, <1>4 DEF StreamMove, AnswersLast
  <2>3. answered + 1 = transfers[1].last
    BY <2>2 DEF Control, InService, Serving
  <2>4. QED BY <1>4, <2>1, <2>2, <2>3 DEF Taken
<1>5. CASE e = 0 /\ Len(transfers) - p = 0 /\ p = 0
  <2>1. transfers' = <<>> /\ transfers = <<>> /\ d = 0 /\ off = 0
    BY <1>1, <1>5, Lengths
  <2>2. spadState = "s_spad_req"
    BY <2>1 DEF off, Serving
  <2>3. answered' = answered
    BY <1>1, <1>5, <2>1, <2>2 DEF StreamMove, Waits, Raises, Aborts, AnswersEarly, Carries, Acknowledges
  <2>4. QED BY <1>5, <2>1, <2>3 DEF Taken
<1>6. QED BY <1>2, <1>3, <1>4, <1>5, Lengths

(* The loads being collected: alike, and next to each other.               *)
LEMMA CollectingStep ==
  ASSUME TypeInv, Control, NEW d, NEW e, NEW p, NEW h, Parts(d, e, p, h)
  PROVE  Collecting'
<1>1. RequestMove(e) /\ e \in {0, 1} /\ program' = program
  BY DEF Parts
<1>2. Taken' = IF e = 1 THEN accepted ELSE Taken
  BY TakenStep
<1>3. /\ Taken \in Nat /\ accepted \in Nat /\ addr_num \in 0 .. spadAddrNum - 1 /\ spadAddrNum \in Nat
      /\ Collecting
  BY TakenIsNat, Numbers, ProgramFacts DEF TypeInv, RequestTypes, Control
<1>4. CASE e = 0 /\ Takes
  <2> DEFINE load == program[accepted + 1]
  <2>1. /\ state = "s_idle" /\ accepted' = accepted + 1 /\ accepted + 1 \in 1 .. Len(program)
        /\ remote_addr' = load.remote_addr /\ total_len' = load.total_len /\ id' = load.id
        /\ spad_addrs' = [spad_addrs EXCEPT ![addr_num] = load.spad_addr]
        /\ \/ state' = "s_dma_req" /\ addr_num' = addr_num
           \/ load.fused /\ addr_num # spadAddrNum - 1 /\ state' = "s_idle" /\ addr_num' = addr_num + 1
    BY <1>4, <1>3, ProgramFacts DEF Takes
  <2>2. /\ accepted = Taken + addr_num /\ Taken' = Taken
        /\ \A k \in Taken + 1 .. accepted :
             /\ program[k].fused
             /\ remote_addr = program[k].remote_addr /\ total_len = program[k].total_len
             /\ id = program[k].id
             /\ spad_addrs[k - Taken - 1] = program[k].spad_addr
    BY <1>2, <1>3, <1>4, <2>1 DEF Collecting, Collected, FusedRun
  <2>3. accepted > Taken => SameSource(program[accepted], load)
    <3>1. SUFFICES ASSUME accepted > Taken PROVE SameSource(program[accepted], load)
      OBVIOUS
    <3>2. accepted \in Taken + 1 .. accepted /\ accepted \in 1 .. Len(program) - 1
      BY <1>3, <2>1, <3>1, ProgramFacts
    <3>3. program[accepted].fused
      BY <2>2, <3>2
    <3>4. QED BY <3>2, <3>3, ProgramsAssumption DEF TypeInv, RequestTypes
  <2>4. \A k \in Taken + 1 .. accepted :
          load.remote_addr = program[k].remote_addr /\ load.total_len = program[k].total_len
          /\ load.id = program[k].id
    <3>1. TAKE k \in Taken + 1 .. accepted
    <3>2. accepted > Taken /\ accepted \in Taken + 1 .. accepted
      BY <1>3
    <3>3. QED BY <2>2, <2>3, <3>2 DEF SameSource
  <2> HIDE DEF load
  <2>5. \A k \in Taken + 1 .. accepted + 1 :
          /\ remote_addr' = program[k].remote_addr /\ total_len' = program[k].total_len
          /\ id' = program[k].id
          /\ spad_addrs'[k - Taken - 1] = program[k].spad_addr
    <3>1. TAKE k \in Taken + 1 .. accepted + 1
    <3>2. CASE k = accepted + 1
      <4>1. k - Taken - 1 = addr_num /\ addr_num \in LC!AddrIdx
        BY <1>3, <2>2, <3>2, Numbers
      <4>2. spad_addrs'[addr_num] = load.spad_addr
        BY <2>1, <4>1 DEF TypeInv, RequestTypes
      <4>3. QED BY <2>1, <3>2, <4>1, <4>2 DEF load
    <3>3. CASE k # accepted + 1
      <4>1. k \in Taken + 1 .. accepted /\ k - Taken - 1 \in LC!AddrIdx /\ k - Taken - 1 # addr_num
        BY <1>3, <2>2, <3>3, Numbers
      <4>2. spad_addrs'[k - Taken - 1] = spad_addrs[k - Taken - 1]
        BY <2>1, <4>1 DEF TypeInv, RequestTypes
      <4>3. QED BY <2>1, <2>2, <2>4, <4>1, <4>2
    <3>4. QED BY <3>2, <3>3
  <2>6. accepted' = Taken' + Collected' /\ Collected' <= spadAddrNum
    BY <1>3, <2>1, <2>2 DEF Collected
  <2>7. FusedRun(program', Taken' + 1, IF state' = "s_idle" THEN accepted' + 1 ELSE accepted')
    BY <1>1, <1>3, <2>1, <2>2 DEF FusedRun, load
  <2>8. QED BY <1>1, <2>1, <2>2, <2>5, <2>6, <2>7 DEF Collecting
<1>5. CASE e = 0 /\ Stays
  BY <1>1, <1>2, <1>3, <1>5 DEF Stays, Collecting, Collected
<1>6. CASE e = 1 /\ Asks
  <2>1. /\ Taken' = accepted /\ accepted' = accepted /\ Collected' = 0 /\ state' = "s_idle"
    BY <1>2, <1>6 DEF Asks, Collected
  <2>2. QED BY <1>1, <1>3, <2>1 DEF Collecting, FusedRun
<1>7. QED BY <1>1, <1>4, <1>5, <1>6 DEF RequestMove

\* The group that has been collected when the transfer is asked for.
LEMMA GroupCollected ==
  ASSUME TypeInv, Control, state = "s_dma_req"
  PROVE  Group(program, Taken + 1, accepted)
<1>1. /\ Taken \in Nat /\ accepted = Taken + addr_num + 1 /\ accepted \in 1 .. Len(program)
      /\ addr_num \in 0 .. spadAddrNum - 1 /\ spadAddrNum \in Nat /\ Collecting
  BY ReadyToAsk, Numbers DEF TypeInv, RequestTypes, Control
<1>2. FusedRun(program, Taken + 1, accepted)
  BY <1>1 DEF Collecting
<1>3. \A k \in Taken + 1 .. accepted :
        /\ remote_addr = program[k].remote_addr /\ total_len = program[k].total_len
        /\ id = program[k].id
  BY <1>1 DEF Collecting
<1>4. \A k \in Taken + 1 .. accepted : SameSource(program[k], program[accepted])
  BY <1>1, <1>3 DEF SameSource
<1>5. QED BY <1>1, <1>2, <1>4, ProgramFacts DEF Group

LEMMA DescribesStep ==
  ASSUME TypeInv, Control, NEW d, NEW e, NEW p, NEW h, Parts(d, e, p, h)
  PROVE  \A i \in 1 .. Len(spadReqQue') :
           Describes(program', spadReqQue'[i], transfers'[i + off'])
<1>1. /\ RequestMove(e) /\ program' = program
      /\ Shifted(spadReqQue', spadReqQue, d) /\ Shifted(transfers', transfers, p)
      /\ e = 1 => /\ spadReqQue'[Len(spadReqQue')] =
                      [addrs |-> spad_addrs, num |-> addr_num, len |-> total_len, id |-> id]
                  /\ transfers'[Len(transfers')] = [first |-> Taken + 1, last |-> accepted]
  BY DEF Parts, QueueMove, TransfersMove
<1>2. SUFFICES ASSUME NEW i \in 1 .. Len(spadReqQue')
               PROVE  Describes(program, spadReqQue'[i], transfers'[i + off'])
  BY <1>1
<1>3. CASE i <= Len(spadReqQue) - d
  <2>1. /\ i \in 1 .. Len(spadReqQue) - d /\ i + off' \in 1 .. Len(transfers) - p
        /\ i + d \in 1 .. Len(spadReqQue) /\ (i + off') + p = (i + d) + off
    BY <1>3, Lengths
  <2>2. spadReqQue'[i] = spadReqQue[i + d] /\ transfers'[i + off'] = transfers[(i + d) + off]
    BY <1>1, <2>1 DEF Shifted
  <2>3. Describes(program, spadReqQue[i + d], transfers[(i + d) + off])
    BY <2>1 DEF Control
  <2>4. QED BY <2>2, <2>3
<1>4. CASE i > Len(spadReqQue) - d
  <2>1. e = 1 /\ i = Len(spadReqQue') /\ i + off' = Len(transfers')
    BY <1>4, Lengths
  <2> DEFINE r == [addrs |-> spad_addrs, num |-> addr_num, len |-> total_len, id |-> id]
             t == [first |-> Taken + 1, last |-> accepted]
  <2>2. spadReqQue'[i] = r /\ transfers'[i + off'] = t
    BY <1>1, <2>1
  <2>3. state = "s_dma_req"
    BY <1>1, <2>1 DEF RequestMove, Asks
  <2>4. Group(program, Taken + 1, accepted)
    BY <2>3, GroupCollected
  <2>5. /\ Taken \in Nat /\ accepted = Taken + addr_num + 1 /\ addr_num \in Nat
        /\ total_len = program[accepted].total_len /\ id = program[accepted].id
    <3>1. addr_num \in Nat
      BY Numbers DEF TypeInv, RequestTypes
    <3>2. QED BY <2>3, <3>1, ReadyToAsk
  <2>6. \A j \in 0 .. addr_num : spad_addrs[j] = program[Taken + 1 + j].spad_addr
    <3>1. TAKE j \in 0 .. addr_num
    <3>2. Taken + 1 + j \in Taken + 1 .. accepted /\ (Taken + 1 + j) - Taken - 1 = j
      BY <2>5
    <3>3. spad_addrs[(Taken + 1 + j) - Taken - 1] = program[Taken + 1 + j].spad_addr
      BY <3>2 DEF Control, Collecting
    <3>4. QED BY <3>2, <3>3
  <2>7. Describes(program, r, t)
    BY <2>4, <2>5, <2>6 DEF Describes
  <2>8. QED BY <2>2, <2>7
<1>5. QED BY <1>3, <1>4, Lengths

(* Transfers follow each other without a gap.                              *)
LEMMA ChainStep ==
  ASSUME TypeInv, Control, NEW d, NEW e, NEW p, NEW h, Parts(d, e, p, h)
  PROVE  /\ \A i \in 1 .. Len(transfers') - 1 : transfers'[i + 1].first = transfers'[i].last + 1
         /\ ~Serving' /\ transfers' # <<>> => transfers'[1].first = answered' + 1
<1>1. /\ StreamMove(d, p, h) /\ Shifted(transfers', transfers, p)
      /\ transfers \in Seq(Transfer) /\ transfers' \in Seq(Transfer)
      /\ e = 1 => transfers'[Len(transfers')] = [first |-> Taken + 1, last |-> accepted]
  BY DEF Parts, TransfersMove, TypeInv, QueueTypes
<1>2. \A i \in 1 .. Len(transfers) - 1 : transfers[i + 1].first = transfers[i].last + 1
  BY DEF Control
<1>3. Len(transfers) >= 1 => Taken = transfers[Len(transfers)].last
  BY <1>1 DEF Taken
<1>4. ASSUME NEW i \in 1 .. Len(transfers') - 1
      PROVE  transfers'[i + 1].first = transfers'[i].last + 1
  <2>1. i \in 1 .. Len(transfers) - p /\ i + p \in 1 .. Len(transfers)
    BY Lengths
  <2>2. transfers'[i] = transfers[i + p]
    BY <1>1, <2>1 DEF Shifted
  <2>3. CASE i + 1 <= Len(transfers) - p
    <3>1. i + 1 \in 1 .. Len(transfers) - p /\ (i + 1) + p = (i + p) + 1
          /\ i + p \in 1 .. Len(transfers) - 1
      BY <2>3, Lengths
    <3>2. transfers'[i + 1] = transfers[(i + p) + 1]
      BY <1>1, <3>1 DEF Shifted
    <3>3. QED BY <1>2, <2>2, <3>1, <3>2
  <2>4. CASE i + 1 > Len(transfers) - p
    <3>1. e = 1 /\ i + 1 = Len(transfers') /\ i + p = Len(transfers) /\ Len(transfers) >= 1
      BY <2>1, <2>4, Lengths
    <3>2. QED BY <1>1, <1>3, <2>2, <3>1
  <2>5. QED BY <2>3, <2>4, Lengths
<1>5. ASSUME ~Serving', transfers' # <<>> PROVE transfers'[1].first = answered' + 1
  <2>0. /\ Len(transfers') >= 1 /\ Len(transfers') = Len(transfers) - p + e
        /\ Len(transfers) \in Nat /\ e \in {0, 1} /\ p \in {0, 1}
    <3>1. Len(transfers') # 0 /\ Len(transfers') \in Nat
      BY <1>1, <1>5
    <3>2. QED BY <3>1, Lengths
  <2>1. CASE p = 1
    <3>1. /\ spadState = "s_resp" /\ answered' = answered + 1
          /\ answered + 1 = transfers[1].last /\ Len(transfers) >= 1
      BY <1>1, <2>1, Lengths DEF StreamMove, AnswersLast, Control, InService, Serving
    <3>2. CASE Len(transfers) >= 2
      <4>1. 1 \in 1 .. Len(transfers) - p /\ 1 \in 1 .. Len(transfers) - 1 /\ 1 + p = 2 /\ 1 + 1 = 2
        BY <2>1, <3>2, Lengths
      <4>2. transfers'[1] = transfers[2] /\ transfers[2].first = transfers[1].last + 1
        BY <1>1, <1>2, <4>1 DEF Shifted
      <4>3. QED BY <3>1, <4>2
    <3>3. CASE Len(transfers) = 1
      <4>1. e = 1 /\ Len(transfers') = 1
        BY <2>0, <2>1, <3>3
      <4>2. transfers'[1].first = Taken + 1
        BY <1>1, <4>1
      <4>3. QED BY <1>3, <3>1, <3>3, <4>2
    <3>4. Len(transfers) >= 2 \/ Len(transfers) = 1
      <4>1. \A n \in Nat : n >= 1 => n >= 2 \/ n = 1
        OBVIOUS
      <4>2. Len(transfers) \in Nat /\ Len(transfers) >= 1
        BY <2>0, <3>1
      <4>3. QED BY <4>1, <4>2
    <3>5. QED BY <3>2, <3>3, <3>4
  <2>2. CASE p = 0
    <3>1. off = 0 /\ d = 0
      BY <1>5, <2>2, Lengths
    <3>2. ~Serving /\ answered' = answered
      BY <1>1, <2>2, <3>1, Lengths
         DEF StreamMove, Waits, Raises, Aborts, AnswersEarly, Carries, Acknowledges, Serving
    <3>3. CASE Len(transfers) >= 1
      <4>1. 1 \in 1 .. Len(transfers) - p /\ 1 + p = 1 /\ transfers # <<>>
        BY <1>1, <2>2, <3>3, Lengths
      <4>2. transfers'[1] = transfers[1] /\ transfers[1].first = answered + 1
        BY <1>1, <3>2, <4>1 DEF Shifted, Control
      <4>3. QED BY <3>2, <4>2
    <3>4. CASE Len(transfers) = 0
      <4>1. e = 1 /\ Len(transfers') = 1 /\ transfers = <<>>
        <5>1. transfers = <<>>
          BY <1>1, <3>4
        <5>2. QED BY <2>0, <2>2, <3>4, <5>1
      <4>2. transfers'[1].first = Taken + 1 /\ Taken = answered
        BY <1>1, <4>1 DEF Taken
      <4>3. QED BY <3>2, <4>2
    <3>5. QED BY <3>3, <3>4, Lengths
  <2>3. QED BY <2>1, <2>2, Lengths
<1>6. QED BY <1>4, <1>5

(* What is still to be answered of the transfer in service.                *)
LEMMA InServiceStep ==
  ASSUME TypeInv, Control, NEW d, NEW e, NEW p, NEW h, Parts(d, e, p, h)
  PROVE  InService'
<1>1. StreamMove(d, p, h) /\ program' = program
  BY DEF Parts
<1>2. SUFFICES ASSUME Serving' PROVE InService'
  BY DEF InService
<1> DEFINE t == transfers[1]
<1>3. /\ Len(transfers) >= 1 /\ p = 0 /\ transfers'[1] = t
      /\ t.first \in Nat /\ t.last \in Nat /\ answered \in Nat
      /\ leftNum \in 0 .. spadAddrNum - 1 /\ spadAddrNum \in Nat
  BY <1>2, HeadStays, TransfersFacts, Lengths, Numbers DEF TypeInv, StreamTypes
<1>4. CASE d = 1 /\ Starts
  <2> DEFINE r == spadReqQue[1]
  <2>1. off = 0 /\ 1 \in 1 .. Len(spadReqQue) /\ 1 + off = 1 /\ ~Serving /\ transfers # <<>>
    BY <1>3, <1>4, Lengths DEF TypeInv, QueueTypes
  <2>2. Describes(program, r, t) /\ t.first = answered + 1
    BY <2>1 DEF Control
  <2>3. Group(program, t.first, t.last) /\ r.num = t.last - t.first /\ r.id = program[t.last].id
    BY <2>2 DEF Describes
  <2>4. t.first <= t.last
    BY <2>3 DEF Group
  <2>5. /\ spadState' = (IF r.num > 0 THEN "s_pre_resp" ELSE "s_spad_stream")
        /\ leftNum' = r.num /\ spadReqId' = r.id /\ answered' = answered
    BY <1>4 DEF Starts
  <2> HIDE DEF r, t
  <2>6. QED BY <1>1, <1>3, <2>2, <2>3, <2>4, <2>5 DEF InService
<1>5. CASE Serving
  <2>1. /\ Group(program, t.first, t.last) /\ spadReqId = program[t.last].id
        /\ answered + 1 >= t.first
        /\ IF spadState = "s_pre_resp" THEN leftNum >= 1 /\ answered + 1 + leftNum = t.last
           ELSE answered + 1 = t.last
    BY <1>5 DEF InService, Control
  <2> HIDE DEF t
  <2>2. CASE Waits \/ Raises \/ Carries \/ Aborts \/ Acknowledges
    <3>1. /\ spadReqId' = spadReqId /\ answered' = answered
          /\ spadState # "s_pre_resp" /\ spadState' # "s_pre_resp"
      BY <2>2 DEF Waits, Raises, Carries, Aborts, Acknowledges, StreamStays
    <3>2. QED BY <1>1, <1>3, <2>1, <3>1 DEF InService
  <2>3. CASE AnswersEarly
    <3>1. /\ spadReqId' = spadReqId /\ answered' = answered + 1 /\ leftNum' = leftNum - 1
          /\ spadState = "s_pre_resp"
          /\ spadState' = (IF leftNum = 1 THEN "s_spad_stream" ELSE "s_pre_resp")
      BY <2>3 DEF AnswersEarly
    <3>2. QED BY <1>1, <1>3, <2>1, <3>1 DEF InService
  <2>4. QED BY <1>1, <1>3, <1>5, <2>2, <2>3, Lengths DEF StreamMove
<1>6. QED BY <1>1, <1>2, <1>3, <1>4, <1>5, Lengths
         DEF StreamMove, Waits, Raises, Carries, Aborts, Acknowledges, AnswersEarly, Serving

LEMMA ControlStep ==
  ASSUME TypeInv, Control, NEW d, NEW e, NEW p, NEW h, Parts(d, e, p, h)
  PROVE  Control'
<1>1. Len(transfers') = Len(spadReqQue') + off'
  BY Lengths
<1>2. \A i \in 1 .. Len(transfers') : transfers'[i].last <= accepted'
  <2>1. /\ RequestMove(e) /\ Shifted(transfers', transfers, p)
        /\ e = 1 => transfers'[Len(transfers')] = [first |-> Taken + 1, last |-> accepted]
    BY DEF Parts, TransfersMove
  <2>2. accepted \in Nat /\ accepted' \in Nat /\ accepted <= accepted' /\ (e = 1 => accepted' = accepted)
    BY <2>1, ProgramFacts DEF RequestMove, Takes, Stays, Asks, TypeInv, RequestTypes
  <2>3. TAKE i \in 1 .. Len(transfers')
  <2>4. CASE i <= Len(transfers) - p
    <3>1. i \in 1 .. Len(transfers) - p /\ i + p \in 1 .. Len(transfers)
      BY <2>4, Lengths
    <3>2. transfers'[i] = transfers[i + p] /\ transfers[i + p].last <= accepted
          /\ transfers[i + p].last \in Nat
      BY <2>1, <3>1, TransfersFacts DEF Shifted, Control
    <3>3. QED BY <2>2, <3>2
  <2>5. CASE i > Len(transfers) - p
    <3>1. e = 1 /\ i = Len(transfers')
      BY <2>5, Lengths
    <3>2. QED BY <2>1, <2>2, <3>1
  <2>6. QED BY <2>4, <2>5, Lengths
<1>3. QED BY <1>1, <1>2, DescribesStep, ChainStep, CollectingStep, InServiceStep DEF Control

---------------------------------------------------------------------------
(* The transfer in service and its loads.                                  *)
LEMMA ServiceFacts ==
  ASSUME TypeInv, Control, Serving
  PROVE  LET t == transfers[1]
         IN  /\ Len(transfers) \in Nat /\ Len(transfers) >= 1
             /\ t.first \in 1 .. Len(program) /\ t.last \in 1 .. Len(program)
             /\ t.first <= t.last /\ t.last <= accepted /\ t.last - t.first < spadAddrNum
             /\ Group(program, t.first, t.last)
             /\ program[t.last].total_len \in 1 .. 2^lgMaxDataLen - 1
             /\ program[t.last].remote_addr \in Nat
             /\ \A k \in t.first .. t.last :
                  /\ k \in 1 .. Len(program) /\ program[k].spad_addr \in Nat
                  /\ program[k].remote_addr = program[t.last].remote_addr
                  /\ program[k].total_len = program[t.last].total_len
                  /\ program[k].id = program[t.last].id
<1> DEFINE t == transfers[1]
<1>1. Len(transfers) \in Nat /\ Len(transfers) >= 1 /\ t.first \in Nat \ {0} /\ t.last \in Nat
  <2>1. Len(transfers) = Len(spadReqQue) + 1 /\ Len(spadReqQue) \in Nat
    BY QueueFacts DEF Control, off
  <2>2. QED BY <2>1, TransfersFacts
<1>2. Group(program, t.first, t.last) /\ t.last <= accepted
  BY <1>1 DEF Control, InService
<1> HIDE DEF t
<1>3. t.first \in 1 .. Len(program) /\ t.last \in 1 .. Len(program) /\ t.first <= t.last
      /\ t.last - t.first < spadAddrNum
  BY <1>1, <1>2, ProgramFacts DEF Group
<1>4. \A k \in t.first .. t.last : k \in 1 .. Len(program)
  BY <1>1, <1>3
<1>5. \A k \in t.first .. t.last : SameSource(program[k], program[t.last])
  BY <1>2 DEF Group
<1>6. QED BY <1>1, <1>2, <1>3, <1>4, <1>5, ProgramFacts DEF SameSource, t

(* The write port stays in step with the stream.                           *)
LEMMA PortKept ==
  ASSUME TypeInv, Control, Port, NEW d, NEW e, NEW p, NEW h, Parts(d, e, p, h)
  PROVE  Port'
<1>1. StreamMove(d, p, h) /\ program' = program
  BY DEF Parts
<1>2. Serving' => transfers'[1] = transfers[1]
  BY HeadStays
<1>3. /\ leftLen \in Nat /\ leftLen < 2^lgMaxDataLen
      /\ writeAddrs \in [LC!AddrIdx -> Nat] /\ writeAddrNum \in LC!AddrIdx
  BY Numbers DEF TypeInv, StreamTypes, PortTypes
<1>4. CASE Starts /\ d = 1
  <2> DEFINE r == spadReqQue[1]
             t == transfers[1]
  <2>1. off = 0 /\ 1 \in 1 .. Len(spadReqQue) /\ 1 + off = 1 /\ transfers'[1] = t
    BY <1>2, <1>4, Lengths DEF Starts, Serving
  <2>2. Describes(program, r, t) /\ r.len \in 1 .. 2^lgMaxDataLen - 1 /\ r.num \in LC!AddrIdx
        /\ r.addrs \in [LC!AddrIdx -> Nat]
    BY <2>1, QueueFacts DEF Control
  <2>3. /\ r.num = t.last - t.first /\ r.len = program[t.last].total_len /\ r.num \in Nat
        /\ \A j \in 0 .. r.num : r.addrs[j] = program[t.first + j].spad_addr
        /\ \A j \in 0 .. r.num : r.addrs[j] \in Nat
        /\ t.first \in Nat
    <3>1. r.num \in Nat /\ \A j \in 0 .. r.num : j \in LC!AddrIdx
      BY <2>2, Numbers
    <3>2. t.first \in Nat
      BY <2>1, TransfersFacts, Lengths
    <3>3. QED BY <2>2, <3>1, <3>2 DEF Describes
  <2>4. /\ leftLen' = r.len /\ writeState' = "s_write_data" /\ writeAddrs' = r.addrs
        /\ writeAddrNum' = r.num /\ write_exp_ack' = FALSE
        /\ writeMaxAddr' = r.addrs[0] + (IF r.len > dataByte THEN r.len - dataByte ELSE 0)
        /\ spadState' = "s_pre_resp" \/ spadState' = "s_spad_stream"
    BY <1>4 DEF Starts
  <2> HIDE DEF r, t
  <2>5. done' = 0
    BY <1>1, <2>1, <2>2, <2>3, <2>4 DEF done
  <2>6. r.addrs[0] = program[t.first].spad_addr
    BY <2>3
  <2>7. \A j \in 0 .. writeAddrNum' : writeAddrs'[j] = program[t.first + j].spad_addr + done'
    BY <2>3, <2>4, <2>5
  <2>8. QED BY <1>1, <2>1, <2>2, <2>3, <2>4, <2>5, <2>6, <2>7 DEF Port
<1>5. CASE Waits
  BY <1>1, <1>2, <1>5 DEF Waits, Port, StreamStays, PortStays, Serving, done
<1>6. CASE Raises
  BY <1>6 DEF Raises, Port, PortStays
<1>7. CASE Aborts
  BY <1>7 DEF Aborts, Port
<1>8. CASE AnswersEarly
  BY <1>1, <1>2, <1>8 DEF AnswersEarly, Port, PortStays, Serving, done
<1>9. CASE Carries
  <2> DEFINE t   == transfers[1]
             len == program[t.last].total_len
             base == program[t.first].spad_addr
  <2>1. /\ Serving /\ leftLen \in 1 .. len /\ done = len - leftLen /\ len \in Nat
        /\ writeAddrNum = t.last - t.first /\ writeAddrNum \in Nat
        /\ \A j \in 0 .. writeAddrNum : writeAddrs[j] = program[t.first + j].spad_addr + done
        /\ writeMaxAddr = base + (IF len > dataByte THEN len - dataByte ELSE 0)
        /\ base \in Nat /\ t.first \in Nat
        /\ \A j \in 0 .. writeAddrNum : j \in LC!AddrIdx /\ program[t.first + j].spad_addr \in Nat
    <3>1. Serving
      BY <1>9 DEF Carries, Serving
    <3>2. /\ t.first \in 1 .. Len(program) /\ t.first <= t.last /\ len \in Nat
          /\ \A k \in t.first .. t.last : program[k].spad_addr \in Nat
          /\ t.last \in Nat /\ t.last - t.first < spadAddrNum
      <4>1. /\ t.first \in 1 .. Len(program) /\ t.last \in 1 .. Len(program)
            /\ t.first <= t.last /\ t.last - t.first < spadAddrNum
            /\ len \in 1 .. 2^lgMaxDataLen - 1
            /\ \A k \in t.first .. t.last : program[k].spad_addr \in Nat
        BY <3>1, ServiceFacts
      <4> HIDE DEF t, len
      <4>2. len \in Nat /\ t.last \in Nat
        BY <4>1, Numbers
      <4>3. QED BY <4>1, <4>2
    <3>3. base \in Nat /\ t.first \in Nat
      BY <3>2
    <3>4. writeAddrNum = t.last - t.first
      BY <1>9 DEF Port, Carries
    <3>5. \A j \in 0 .. t.last - t.first : j \in LC!AddrIdx /\ t.first + j \in t.first .. t.last
      BY <3>2, Numbers, SMTT(30)
    <3>6. /\ leftLen \in 1 .. len
          /\ \A j \in 0 .. writeAddrNum : writeAddrs[j] = program[t.first + j].spad_addr + done
          /\ writeMaxAddr = base + (IF len > dataByte THEN len - dataByte ELSE 0)
      BY <1>9 DEF Port, Carries
    <3>7. done = len - leftLen
      BY DEF done
    <3>8. t.last - t.first \in Nat
      BY <3>2, <3>3
    <3> HIDE DEF t, len, base
    <3>9. \A j \in 0 .. writeAddrNum : j \in LC!AddrIdx /\ program[t.first + j].spad_addr \in Nat
      BY <3>2, <3>4, <3>5
    <3>10. QED BY <3>1, <3>2, <3>3, <3>4, <3>6, <3>7, <3>8, <3>9
  <2>2. /\ leftLen' = (leftLen - dataByte) % 2^lgMaxDataLen
        /\ spadState' = IF leftLen <= dataByte THEN "s_resp" ELSE "s_spad_stream"
        /\ writeAddrs' = [j \in LC!AddrIdx |-> writeAddrs[j] + dataByte]
        /\ writeState' = IF writeAddrs[0] >= writeMaxAddr THEN "s_write_idle" ELSE "s_write_data"
        /\ writeAddrNum' = writeAddrNum /\ writeMaxAddr' = writeMaxAddr /\ write_exp_ack' = FALSE
    BY <1>9 DEF Carries
  <2> HIDE DEF len, base
  <2>3. writeAddrs[0] >= writeMaxAddr <=> leftLen <= dataByte
    <3>1. writeAddrs[0] = base + done
      BY <2>1 DEF base
    <3>2. QED BY <2>1, <3>1, Numbers
  <2>4. CASE leftLen <= dataByte
    BY <2>2, <2>3, <2>4 DEF Port
  <2>5. CASE ~(leftLen <= dataByte)
    <3>1. leftLen - dataByte \in 1 .. 2^lgMaxDataLen - 1 /\ 2^lgMaxDataLen \in Nat
      BY <1>3, <2>1, <2>5, Numbers, SMTT(30)
    <3>2. \A x, m \in Nat : x < m => x % m = x
      OBVIOUS
    <3>3. leftLen' = leftLen - dataByte
      BY <2>2, <3>1, <3>2
    <3>4. spadState' = "s_spad_stream" /\ writeState' = "s_write_data" /\ transfers'[1] = t
      BY <1>2, <2>2, <2>3, <2>5 DEF Serving
    <3>5. done' = done + dataByte /\ leftLen' \in 1 .. len
      BY <1>1, <2>1, <2>5, <3>3, <3>4, Numbers, SMTT(30) DEF done, len
    <3>6. \A j \in 0 .. writeAddrNum : writeAddrs'[j] = program[t.first + j].spad_addr + done'
      <4>1. TAKE j \in 0 .. writeAddrNum
      <4>2. writeAddrs'[j] = writeAddrs[j] + dataByte
        BY <2>1, <2>2
      <4>3. QED BY <2>1, <3>5, <4>2, Numbers, SMTT(30)
    <3>7. QED BY <1>1, <2>1, <2>2, <3>4, <3>5, <3>6 DEF Port, len, base
  <2>6. QED BY <2>4, <2>5
<1>10. CASE Acknowledges
  BY <1>10 DEF Acknowledges, Port, PortStays
<1>11. CASE AnswersLast
  BY <1>11 DEF AnswersLast, Port, PortStays
<1>12. QED BY <1>1, <1>4, <1>5, <1>6, <1>7, <1>8, <1>9, <1>10, <1>11 DEF StreamMove

---------------------------------------------------------------------------
(* Segments under the moves of what is owed.                               *)
LEMMA WordIsNat ==
  ASSUME NEW from \in Nat, NEW k \in Nat \ {0}
  PROVE  Word(from, k) \in Nat /\ Word(from, k) # Raised /\ Word(from, 1) = from
<1>1. (k - 1) * dataByte \in Nat
  BY Numbers
<1>2. QED BY <1>1, Numbers DEF Word, Raised

LEMMA SegmentShift ==
  ASSUME NEW o, NEW new, NEW h \in {0, 1}, Shifted(new, o, h), Len(o) \in Nat,
         NEW lo \in Nat, NEW hi \in Nat, NEW from, NEW n \in Nat,
         h <= lo, lo <= hi, hi <= Len(o), Segment(o, lo, hi, from, n)
  PROVE  Segment(new, lo - h, hi - h, from, n)
<1>1. \A i \in lo + 1 .. hi : new[i - h] = o[i]
  <2>1. TAKE i \in lo + 1 .. hi
  <2>2. i - h \in 1 .. Len(o) - h /\ (i - h) + h = i
    OBVIOUS
  <2>3. QED BY <2>2 DEF Shifted
<1>2. \A k \in 1 .. hi - lo : new[(lo - h) + k] = o[lo + k]
  <2>1. TAKE k \in 1 .. hi - lo
  <2>2. lo + k \in lo + 1 .. hi /\ (lo + k) - h = (lo - h) + k
    OBVIOUS
  <2>3. QED BY <1>1, <2>2
<1>3. (hi - h) - (lo - h) = hi - lo
  OBVIOUS
<1>4. CASE hi - lo = n /\ \A k \in 1 .. n : o[lo + k] = Word(from, k)
  BY <1>2, <1>3, <1>4 DEF Segment
<1>5. CASE /\ hi - lo \in 1 .. n /\ o[hi] = Raised
           /\ \A k \in 1 .. hi - lo - 1 : o[lo + k] = Word(from, k)
  <2>1. new[hi - h] = Raised
    <3>1. hi \in lo + 1 .. hi
      BY <1>5
    <3>2. QED BY <1>1, <1>5, <3>1
  <2>2. \A k \in 1 .. hi - lo - 1 : new[(lo - h) + k] = Word(from, k)
    <3>1. \A k \in 1 .. hi - lo - 1 : k \in 1 .. hi - lo
      OBVIOUS
    <3>2. \A k \in 1 .. hi - lo - 1 : o[lo + k] = Word(from, k)
      BY <1>5
    <3>3. QED BY <1>2, <3>1, <3>2
  <2>3. QED BY <1>3, <1>5, <2>1, <2>2 DEF Segment
<1>6. QED BY <1>4, <1>5 DEF Segment

\* A word leaves the segment at the head.
LEMMA SegmentTail ==
  ASSUME NEW o, NEW new, Shifted(new, o, 1), Len(o) \in Nat,
         NEW hi \in Nat, hi <= Len(o), NEW from \in Nat, NEW n \in Nat \ {0},
         o[1] # Raised, Segment(o, 0, hi, from, n)
  PROVE  o[1] = from /\ hi >= 1 /\ Segment(new, 0, hi - 1, from + dataByte, n - 1)
<1>1. Word(from, 1) = from
  BY WordIsNat
<1>2. \A k \in Nat : Word(from, k + 1) = Word(from + dataByte, k)
  BY Numbers DEF Word
<1>3. \A k \in 1 .. hi - 1 : new[0 + k] = o[0 + (k + 1)]
  <2>1. TAKE k \in 1 .. hi - 1
  <2>2. k \in 1 .. Len(o) - 1 /\ 0 + k = k /\ 0 + (k + 1) = k + 1
    OBVIOUS
  <2>3. QED BY <2>2 DEF Shifted
<1>4. CASE hi - 0 = n /\ \A k \in 1 .. n : o[0 + k] = Word(from, k)
  <2>1. hi = n /\ 1 \in 1 .. n /\ 0 + 1 = 1
    BY <1>4
  <2>2. o[1] = from
    BY <1>1, <1>4, <2>1
  <2>3. \A k \in 1 .. n - 1 : new[0 + k] = Word(from + dataByte, k)
    <3>1. TAKE k \in 1 .. n - 1
    <3>2. k \in 1 .. hi - 1 /\ k + 1 \in 1 .. n /\ k \in Nat
      BY <2>1
    <3>3. QED BY <1>2, <1>3, <1>4, <3>2
  <2>4. (hi - 1) - 0 = n - 1
    BY <2>1
  <2>5. QED BY <2>1, <2>2, <2>3, <2>4 DEF Segment
<1>5. CASE /\ hi - 0 \in 1 .. n /\ o[hi] = Raised
           /\ \A k \in 1 .. hi - 0 - 1 : o[0 + k] = Word(from, k)
  <2>1. hi \in 2 .. n
    BY <1>5
  <2>2. o[1] = from
    <3>1. 1 \in 1 .. hi - 0 - 1 /\ 0 + 1 = 1
      BY <2>1
    <3>2. QED BY <1>1, <1>5, <3>1
  <2>3. new[hi - 1] = Raised
    <3>1. hi - 1 \in 1 .. hi - 1 /\ 0 + (hi - 1) = hi - 1 /\ 0 + ((hi - 1) + 1) = hi
      BY <2>1
    <3>2. QED BY <1>3, <1>5, <3>1
  <2>4. \A k \in 1 .. (hi - 1) - 0 - 1 : new[0 + k] = Word(from + dataByte, k)
    <3>1. TAKE k \in 1 .. (hi - 1) - 0 - 1
    <3>2. k \in 1 .. hi - 1 /\ k + 1 \in 1 .. hi - 0 - 1 /\ k \in Nat
      BY <2>1
    <3>3. QED BY <1>2, <1>3, <1>5, <3>2
  <2>5. (hi - 1) - 0 \in 1 .. n - 1
    BY <2>1
  <2>6. QED BY <2>1, <2>2, <2>3, <2>4, <2>5 DEF Segment
<1>6. QED BY <1>4, <1>5 DEF Segment

\* An exception at the head is all that is owed for the transfer.
LEMMA SegmentRaised ==
  ASSUME NEW o, NEW hi \in Nat, NEW from \in Nat, NEW n \in Nat \ {0},
         o[1] = Raised, Segment(o, 0, hi, from, n)
  PROVE  hi = 1
<1>1. Word(from, 1) # Raised
  BY WordIsNat
<1>2. CASE hi - 0 = n /\ \A k \in 1 .. n : o[0 + k] = Word(from, k)
  <2>1. 1 \in 1 .. n /\ 0 + 1 = 1
    OBVIOUS
  <2>2. QED BY <1>1, <1>2, <2>1
<1>3. CASE /\ hi - 0 \in 1 .. n /\ o[hi] = Raised
           /\ \A k \in 1 .. hi - 0 - 1 : o[0 + k] = Word(from, k)
  <2>1. CASE hi > 1
    <3>1. 1 \in 1 .. hi - 0 - 1 /\ 0 + 1 = 1
      BY <2>1
    <3>2. QED BY <1>1, <1>3, <3>1
  <2>2. QED BY <1>3, <2>1
<1>4. QED BY <1>2, <1>3 DEF Segment

\* What remains of a segment when all its words are still to come.
LEMMA SegmentLength ==
  ASSUME NEW o, NEW hi \in Nat, NEW from, NEW n \in Nat \ {0}, Segment(o, 0, hi, from, n)
  PROVE  hi >= 1 /\ hi <= n
  BY DEF Segment

(* Words and bytes.                                                        *)
LEMMA TimesOrder ==
  ASSUME NEW a \in Nat, NEW b \in Nat
  PROVE  /\ a * dataByte \in Nat
         /\ a < b <=> a * dataByte < b * dataByte
         /\ a = b <=> a * dataByte = b * dataByte
         /\ (a + 1) * dataByte = a * dataByte + dataByte
<1>1. dataByte \in Nat /\ dataByte > 0
  BY Numbers
<1>2. ASSUME NEW x \in Nat, NEW y \in Nat, x < y PROVE x * dataByte < y * dataByte
  <2>1. y - x \in Nat /\ y - x > 0
    BY <1>2
  <2>2. \A z \in Nat : z > 0 => z * dataByte > 0
    BY <1>1
  <2>3. (y - x) * dataByte > 0
    BY <2>1, <2>2
  <2>4. y * dataByte = x * dataByte + (y - x) * dataByte
    BY <1>1
  <2>5. x * dataByte \in Nat /\ (y - x) * dataByte \in Nat /\ y * dataByte \in Nat
    BY <1>1, <2>1
  <2>6. QED BY <2>3, <2>4, <2>5
<1>3. a * dataByte \in Nat /\ b * dataByte \in Nat
  BY <1>1
<1>4. a < b => a * dataByte < b * dataByte
  BY <1>2
<1>5. b < a => b * dataByte < a * dataByte
  BY <1>2
<1>6. (a + 1) * dataByte = a * dataByte + dataByte
  BY <1>1
<1>7. a < b \/ a = b \/ b < a
  OBVIOUS
<1>8. QED BY <1>3, <1>4, <1>5, <1>6, <1>7

LEMMA NextWord ==
  ASSUME NEW len \in Nat \ {0}, NEW n \in 0 .. Words(len) - 1, NEW left \in Nat,
         len - left = n * dataByte
  PROVE  /\ left <= dataByte => n + 1 = Words(len)
         /\ left > dataByte => n + 1 \in 0 .. Words(len) - 1
<1>1. /\ Words(len) \in Nat /\ len <= Words(len) * dataByte
      /\ (Words(len) - 1) * dataByte < len /\ Words(len) > 0
  BY WordsFacts
<1>2. (n + 1) * dataByte = n * dataByte + dataByte /\ n * dataByte \in Nat /\ n \in Nat
      /\ (n + 1) * dataByte \in Nat
  BY <1>1, TimesOrder, n + 1 \in Nat
<1>3. Words(len) - 1 \in Nat /\ n + 1 \in Nat
  BY <1>1, <1>2
<1> DEFINE W == Words(len)
<1>4. CASE left <= dataByte
  <2>1. (W - 1) * dataByte < (n + 1) * dataByte
    <3>1. (W - 1) * dataByte \in Nat
      BY <1>3, TimesOrder
    <3>2. QED BY <1>1, <1>2, <1>4, <3>1, Numbers
  <2>2. W - 1 < n + 1
    BY <1>3, <2>1, TimesOrder
  <2>3. QED BY <1>1, <1>2, <1>4, <2>2, Numbers
<1>5. CASE left > dataByte
  <2>1. (n + 1) * dataByte < W * dataByte
    <3>1. W * dataByte \in Nat
      BY <1>1, TimesOrder
    <3>2. QED BY <1>1, <1>2, <1>5, <3>1, Numbers
  <2>2. n + 1 < W
    BY <1>1, <1>3, <2>1, TimesOrder
  <2>3. QED BY <1>1, <1>2, <1>5, <2>2, Numbers
<1>6. QED BY <1>4, <1>5, Numbers

(* A word of a load is at its place in the scratchpad.                     *)
LEMMA PlaceFacts ==
  ASSUME TypeInv, NEW k \in 1 .. Len(program), NEW n \in 0 .. Words(program[k].total_len) - 1
  PROVE  LET w == program[k].spad_addr + n * dataByte
         IN  /\ w \in SpadWords /\ Spad!Word(w) = w
             /\ Spad!Bank(w) = Spad!Bank(program[k].spad_addr)
<1> DEFINE w == program[k].spad_addr + n * dataByte
<1>1. w \in SpadWords /\ Spad!Bank(w) = Spad!Bank(program[k].spad_addr)
  BY ProgramFacts DEF InItsBlock
<1>2. PICK m \in 0 .. ((nBanks + 1) * sizeBank) \div dataByte - 1 : w = m * dataByte
  BY <1>1 DEF SpadWords
<1>3. \A x \in Nat : (x * dataByte) \div dataByte = x
  BY Numbers
<1>4. m \in Nat
  <2>1. ((nBanks + 1) * sizeBank) \div dataByte \in Int
    BY Numbers, LoadPathAssumption
  <2>2. QED BY <2>1
<1> HIDE DEF w
<1>5. Spad!Word(w) = w
  BY <1>2, <1>3, <1>4 DEF Spad!Word
<1>6. QED BY <1>1, <1>5 DEF w

(* The loads of a transfer go to different banks.                          *)
LEMMA BanksApart ==
  ASSUME TypeInv, Control, Serving,
         NEW i \in transfers[1].first .. transfers[1].last,
         NEW j \in transfers[1].first .. transfers[1].last, i < j
  PROVE  /\ Spad!Bank(program[i].spad_addr) < nBanks
         /\ Spad!Bank(program[j].spad_addr) < nBanks
         /\ Spad!Bank(program[i].spad_addr) # Spad!Bank(program[j].spad_addr)
<1> DEFINE t == transfers[1]
<1>1. /\ t.first \in 1 .. Len(program) /\ t.last \in 1 .. Len(program)
      /\ t.last - t.first < spadAddrNum /\ spadAddrNum \in Nat /\ Len(program) \in Nat
      /\ Group(program, t.first, t.last)
  BY ServiceFacts, Numbers, ProgramFacts
<1>2. i \in t.first .. t.last /\ j \in t.first .. t.last
  OBVIOUS
<1> HIDE DEF t
<1>3. /\ t.first \in Nat /\ t.last \in Nat /\ t.last - t.first < spadAddrNum
      /\ t.first >= 1 /\ t.last <= Len(program) /\ spadAddrNum \in Nat /\ Len(program) \in Nat
      /\ i \in Nat /\ j \in Nat /\ i < j /\ j <= t.last /\ t.first <= i
  BY <1>1, <1>2
<1>4. i \in 1 .. Len(program) /\ j \in 1 .. Len(program) /\ j - i < spadAddrNum
  BY <1>3
<1>5. FusedRun(program, i, j)
  <2>1. \A k \in t.first .. t.last - 1 : program[k].fused
    BY <1>1 DEF Group, FusedRun
  <2>2. \A k \in i .. j - 1 : k \in t.first .. t.last - 1
    BY <1>3
  <2>3. QED BY <2>1, <2>2 DEF FusedRun
<1>6. QED BY <1>4, <1>5, ProgramsAssumption DEF TypeInv, RequestTypes

(* Where a word of the transfer in service is written: for each of its     *)
(* loads at the same place, and nowhere else.                              *)
LEMMA WriteFacts ==
  ASSUME TypeInv, Control, Port, Carries,
         NEW n \in 0 .. Words(program[transfers[1].last].total_len) - 1, done = n * dataByte
  PROVE  LET t == transfers[1]
         IN  Spad!WordsWritten = {program[k].spad_addr + n * dataByte : k \in t.first .. t.last}
<1> DEFINE t == transfers[1]
           w(k) == program[k].spad_addr + n * dataByte
<1>1. Serving
  BY DEF Carries, Serving
<1>2. /\ t.first \in Nat /\ t.last \in Nat /\ t.first <= t.last /\ t.last - t.first < spadAddrNum
      /\ t.first \in 1 .. Len(program) /\ t.last \in 1 .. Len(program)
      /\ Group(program, t.first, t.last) /\ spadAddrNum \in Nat /\ Len(program) \in Nat
  BY <1>1, ServiceFacts, Numbers, ProgramFacts
<1>3. \A k \in t.first .. t.last :
        /\ k \in 1 .. Len(program)
        /\ Spad!Word(w(k)) = w(k) /\ Spad!Bank(w(k)) = Spad!Bank(program[k].spad_addr)
  <2>1. TAKE k \in t.first .. t.last
  <2>2. k \in 1 .. Len(program) /\ program[k].total_len = program[t.last].total_len
    BY <1>1, ServiceFacts
  <2>3. n \in 0 .. Words(program[k].total_len) - 1
    BY <2>2
  <2>4. QED BY <2>2, <2>3, PlaceFacts
<1>4. /\ writeAddrNum = t.last - t.first
      /\ \A j \in 0 .. t.last - t.first : writeAddrs[j] = w(t.first + j)
  BY DEF Port, Carries
<1> HIDE DEF t
<1>5. \A i, j \in 0 .. t.last - t.first : i < j =>
        /\ Spad!Bank(program[t.first + i].spad_addr) < nBanks
        /\ Spad!Bank(program[t.first + j].spad_addr) < nBanks
        /\ Spad!Bank(program[t.first + i].spad_addr) # Spad!Bank(program[t.first + j].spad_addr)
  <2>1. \A i, j \in t.first .. t.last : i < j =>
          /\ Spad!Bank(program[i].spad_addr) < nBanks
          /\ Spad!Bank(program[j].spad_addr) < nBanks
          /\ Spad!Bank(program[i].spad_addr) # Spad!Bank(program[j].spad_addr)
    BY <1>1, BanksApart DEF t
  <2>2. \A i, j \in 0 .. t.last - t.first : i < j =>
          t.first + i \in t.first .. t.last /\ t.first + j \in t.first .. t.last
          /\ t.first + i < t.first + j
    <3>1. t.first \in Nat /\ t.last \in Nat
      BY <1>2
    <3>2. QED BY <3>1
  <2>3. QED BY <2>1, <2>2
<1>6. \A j \in 0 .. t.last - t.first : j \in Spad!Served
  <2>1. TAKE j \in 0 .. t.last - t.first
  <2>2. j \in Spad!AddrIdx /\ j <= writeAddrNum
    BY <1>2, <1>4, Numbers
  <2>3. \A i \in 0 .. t.last - t.first :
          Spad!Bank(writeAddrs[i]) = Spad!Bank(program[t.first + i].spad_addr)
    <3>1. TAKE i \in 0 .. t.last - t.first
    <3>2. t.first + i \in t.first .. t.last
      BY <1>2
    <3>3. QED BY <1>3, <1>4, <3>2
  <2>4. \A i \in 0 .. j - 1 : Spad!Bank(writeAddrs[i]) # Spad!Bank(writeAddrs[j])
    <3>1. TAKE i \in 0 .. j - 1
    <3>2. i \in 0 .. t.last - t.first /\ i < j
      BY <1>2
    <3>3. QED BY <1>5, <2>3, <3>2
  <2>5. Spad!Bank(writeAddrs[j]) < nBanks \/ j = 0
    <3>1. SUFFICES ASSUME j # 0 PROVE Spad!Bank(writeAddrs[j]) < nBanks
      OBVIOUS
    <3>2. 0 \in 0 .. t.last - t.first /\ 0 < j
      BY <1>2, <3>1
    <3>3. QED BY <1>5, <2>3, <3>2
  <2>6. QED BY <2>2, <2>4, <2>5 DEF Spad!Served
<1>7. \A j \in Spad!Served : j \in 0 .. t.last - t.first
  BY <1>2, <1>4, Numbers DEF Spad!Served
<1> HIDE DEF w
<1>8. Spad!WordsWritten = {w(k) : k \in t.first .. t.last}
  <2>1. \A j \in 0 .. t.last - t.first :
          t.first + j \in t.first .. t.last /\ Spad!Word(writeAddrs[j]) = w(t.first + j)
    <3>1. TAKE j \in 0 .. t.last - t.first
    <3>2. t.first + j \in t.first .. t.last
      BY <1>2
    <3>3. QED BY <1>3, <1>4, <3>2
  <2>2. \A k \in t.first .. t.last :
          k - t.first \in 0 .. t.last - t.first /\ t.first + (k - t.first) = k
    BY <1>2
  <2>3. \A x \in Spad!WordsWritten : x \in {w(k) : k \in t.first .. t.last}
    BY <1>7, <2>1 DEF Spad!WordsWritten
  <2>4. \A k \in t.first .. t.last : w(k) \in Spad!WordsWritten
    <3>1. TAKE k \in t.first .. t.last
    <3>2. k - t.first \in Spad!Served /\ Spad!Word(writeAddrs[k - t.first]) = w(k)
      BY <1>6, <2>1, <2>2
    <3>3. QED BY <3>2 DEF Spad!WordsWritten
  <2>5. QED BY <2>3, <2>4
<1>9. QED BY <1>8 DEF t, w


---------------------------------------------------------------------------
LEMMA CutsFacts ==
  ASSUME TypeInv, NEW c, Cuts(c)
  PROVE  /\ Len(transfers) \in Nat /\ Len(owed) \in Nat
         /\ \A i \in 0 .. Len(transfers) : c[i] \in Nat /\ c[i] <= Len(owed)
         /\ \A i, j \in 0 .. Len(transfers) : i <= j => c[i] <= c[j]
         /\ c[0] = 0 /\ c[Len(transfers)] = Len(owed)
<1>1. owed \in Seq(Int) /\ transfers \in Seq(Transfer)
  BY DEF TypeInv, QueueTypes
<1>2. Len(transfers) \in Nat /\ Len(owed) \in Nat
  BY <1>1
<1>3. c \in [0 .. Len(transfers) -> 0 .. Len(owed)]
  BY DEF Cuts
<1>4. \A i \in 0 .. Len(transfers) : c[i] \in 0 .. Len(owed)
  BY <1>3
<1>5. \A i \in 0 .. Len(transfers) : c[i] \in Nat /\ c[i] <= Len(owed)
  BY <1>2, <1>4
<1>6. QED BY <1>2, <1>5 DEF Cuts

(* The word that leaves the DMA is the next one, the n-th from 0, of the   *)
(* transfer in service.                                                    *)
Beat(c, n) ==
  LET t    == transfers[1]
      load == program[t.last]
  IN  /\ n \in 0 .. Words(load.total_len) - 1
      /\ done = n * dataByte /\ success
      /\ owed[1] = load.remote_addr + n * dataByte
      /\ \A k \in t.first .. t.last : Placed(banks, program[k], n)
      /\ c[1] >= 1
      /\ Segment(owed', 0, c[1] - 1, load.remote_addr + n * dataByte + dataByte,
                 Words(load.total_len) - n - 1)

LEMMA CarryFacts ==
  ASSUME TypeInv, Control, NEW c, Cuts(c), Carries, Shifted(owed', owed, 1)
  PROVE  \E n \in Nat : Beat(c, n)
<1> DEFINE t    == transfers[1]
           load == program[t.last]
           W    == Words(load.total_len)
<1>1. Serving /\ spadState = "s_spad_stream" /\ owed[1] # Raised
  BY DEF Carries, Serving
<1>2. InTransit(c[1])
  BY <1>1 DEF Cuts
<1>3. PICK n \in 0 .. W - 1 :
        /\ done = n * dataByte
        /\ \A k \in t.first .. t.last : Placed(banks, program[k], n)
        /\ Segment(owed, 0, c[1], load.remote_addr + done, W - n)
  BY <1>1, <1>2 DEF InTransit
<1>4. success
  BY <1>1, <1>2 DEF InTransit
<1>5. W \in Nat /\ load.remote_addr \in Nat /\ Len(transfers) >= 1 /\ Len(transfers) \in Nat
  <2>1. load.total_len \in Nat
    BY <1>1, ServiceFacts, Numbers
  <2>2. QED BY <1>1, <2>1, ServiceFacts, WordsFacts
<1>6. c[1] \in Nat /\ c[1] <= Len(owed) /\ Len(owed) \in Nat
  <2>1. 1 \in 0 .. Len(transfers)
    BY <1>5
  <2>2. QED BY <2>1, CutsFacts
<1> HIDE DEF load, W, t
<1>7. n \in Nat /\ n * dataByte \in Nat /\ W - n \in Nat \ {0}
  <2>1. n \in Nat /\ W - n \in Nat \ {0}
    BY <1>5
  <2>2. QED BY <2>1, TimesOrder
<1> DEFINE from == load.remote_addr + done
<1>8. from \in Nat
  BY <1>3, <1>5, <1>7
<1>9. Segment(owed, 0, c[1], from, W - n)
  BY <1>3
<1> HIDE DEF from
<1>10. owed[1] = from /\ c[1] >= 1 /\ Segment(owed', 0, c[1] - 1, from + dataByte, W - n - 1)
  BY <1>1, <1>6, <1>7, <1>8, <1>9, SegmentTail
<1>11. from = load.remote_addr + n * dataByte
  BY <1>3 DEF from
<1>12. QED BY <1>3, <1>4, <1>7, <1>10, <1>11 DEF Beat, load, W, t


(* What a cycle writes is the next word of the transfer in service, for    *)
(* each of its loads.                                                      *)
LEMMA BanksFacts ==
  ASSUME TypeInv, Control, Port, NEW c, Carries, NEW n \in Nat, Beat(c, n)
  PROVE  LET t    == transfers[1]
             load == program[t.last]
         IN  /\ \A w \in SpadWords :
                  \/ banks'[w] = banks[w]
                  \/ /\ banks'[w] = load.remote_addr + n * dataByte
                     /\ \E k \in t.first .. t.last : w = program[k].spad_addr + n * dataByte
             /\ \A k \in t.first .. t.last :
                  /\ program[k].spad_addr + n * dataByte \in SpadWords
                  /\ banks'[program[k].spad_addr + n * dataByte] = load.remote_addr + n * dataByte
<1> DEFINE t    == transfers[1]
           load == program[t.last]
<1>1. /\ n \in 0 .. Words(load.total_len) - 1 /\ done = n * dataByte
      /\ owed[1] = load.remote_addr + n * dataByte
  BY DEF Beat
<1>2. Spad!WordsWritten = {program[k].spad_addr + n * dataByte : k \in t.first .. t.last}
  BY <1>1, WriteFacts
<1>3. banks' = [w \in SpadWords |-> IF w \in Spad!WordsWritten THEN owed[1] ELSE banks[w]]
  BY DEF Carries
<1>4. Serving
  BY DEF Carries, Serving
<1>5. \A k \in t.first .. t.last : program[k].spad_addr + n * dataByte \in SpadWords
  <2>1. TAKE k \in t.first .. t.last
  <2>2. k \in 1 .. Len(program) /\ program[k].total_len = load.total_len
    BY <1>4, ServiceFacts
  <2>3. n \in 0 .. Words(program[k].total_len) - 1
    BY <1>1, <2>2
  <2>4. QED BY <2>2, <2>3, PlaceFacts
<1> HIDE DEF load, t
<1>6. QED BY <1>1, <1>2, <1>3, <1>5 DEF load, t

LEMMA OnlyLoadsKept ==
  ASSUME TypeInv, Control, Port, Data, OnlyLoads,
         NEW d, NEW e, NEW p, NEW h, Parts(d, e, p, h)
  PROVE  OnlyLoads'
<1>1. /\ StreamMove(d, p, h) /\ program' = program /\ RequestMove(e) /\ OwedMove(h, e)
  BY DEF Parts
<1>2. accepted \in Nat /\ accepted' \in Nat /\ accepted <= accepted'
  BY <1>1, ProgramFacts DEF RequestMove, Takes, Stays, Asks, TypeInv, RequestTypes
<1>3. \A k \in 1 .. accepted : k \in 1 .. accepted'
  BY <1>2
<1>4. ASSUME NEW w \in SpadWords, banks'[w] = banks[w], banks'[w] # Blank
      PROVE  \E k \in 1 .. accepted' :
               /\ w - program'[k].spad_addr \in 0 .. program'[k].total_len - 1
               /\ banks'[w] = program'[k].remote_addr + (w - program'[k].spad_addr)
  BY <1>1, <1>3, <1>4 DEF OnlyLoads
<1>5. CASE banks' = banks
  BY <1>4, <1>5 DEF OnlyLoads
<1>6. CASE Carries /\ h = 1
  <2> DEFINE t    == transfers[1]
             load == program[t.last]
  <2>1. PICK c : Cuts(c)
    BY DEF Data
  <2>2. Shifted(owed', owed, 1)
    BY <1>1, <1>6 DEF OwedMove
  <2>3. PICK n \in Nat : Beat(c, n)
    BY <1>6, <2>1, <2>2, CarryFacts
  <2>4. SUFFICES ASSUME NEW w \in SpadWords, NEW k \in t.first .. t.last,
                        banks'[w] = load.remote_addr + n * dataByte,
                        w = program[k].spad_addr + n * dataByte
                 PROVE  \E j \in 1 .. accepted' :
                          /\ w - program'[j].spad_addr \in 0 .. program'[j].total_len - 1
                          /\ banks'[w] = program'[j].remote_addr + (w - program'[j].spad_addr)
    BY <1>4, <1>6, <2>1, <2>3, BanksFacts DEF OnlyLoads
  <2>5. /\ k \in 1 .. Len(program) /\ program[k].spad_addr \in Nat
        /\ program[k].remote_addr = load.remote_addr /\ program[k].total_len = load.total_len
        /\ load.remote_addr \in Nat /\ k <= accepted
    <3>1. Serving
      BY <1>6 DEF Carries, Serving
    <3>2. t.last <= accepted /\ t.last \in Nat /\ t.first \in Nat
      BY <3>1, ServiceFacts
    <3>3. k <= accepted
      BY <1>2, <3>2
    <3>4. QED BY <3>1, <3>3, ServiceFacts
  <2>6. n * dataByte \in Nat /\ n * dataByte = load.total_len - leftLen
        /\ leftLen \in 1 .. load.total_len /\ load.total_len \in Nat
    <3>1. load.total_len \in Nat
      BY <1>6, ServiceFacts, Numbers DEF Carries, Serving
    <3>2. leftLen \in 1 .. load.total_len
      BY <1>6 DEF Carries, Port
    <3>3. QED BY <2>3, <3>1, <3>2, TimesOrder DEF Beat, done
  <2> HIDE DEF load, t
  <2>7. w - program[k].spad_addr = n * dataByte
    BY <2>4, <2>5, <2>6
  <2>8. n * dataByte \in 0 .. program[k].total_len - 1
    BY <2>5, <2>6
  <2>9. banks'[w] = program[k].remote_addr + (w - program[k].spad_addr)
    BY <2>4, <2>5, <2>7
  <2>10. k \in 1 .. accepted'
    BY <1>2, <2>5
  <2>11. QED BY <1>1, <2>7, <2>8, <2>9, <2>10
<1>7. QED
  BY <1>1, <1>5, <1>6 DEF StreamMove, Starts, Waits, Raises, Aborts, AnswersEarly,
     Acknowledges, AnswersLast


---------------------------------------------------------------------------
(* The cuts after a cycle.                                                 *)
NewCuts(c, p, h) ==
  [i \in 0 .. Len(transfers') |->
     IF i = 0 THEN 0
     ELSE IF i <= Len(transfers) - p THEN c[i + p] - h ELSE Len(owed')]

(* A word leaves the segment of the transfer in service only, and a        *)
(* transfer that is over has none left.                                    *)
LEMMA HeadCut ==
  ASSUME TypeInv, Control, NEW c, Cuts(c), NEW d, NEW e, NEW p, NEW h, Parts(d, e, p, h)
  PROVE  /\ c[p] = 0 /\ \A i \in 1 .. Len(transfers) - p : h <= c[i + p]
         /\ h = 1 => p = 0 /\ d = 0 /\ off = 1 /\ c[1] >= 1
<1>1. StreamMove(d, p, h) /\ OwedMove(h, e)
  BY DEF Parts
<1>2. Serving => Len(transfers) >= 1 /\ Len(transfers) \in Nat
  BY ServiceFacts
<1>3. Serving => InTransit(c[1])
  BY DEF Cuts
<1>4. p = 1 => c[1] = 0
  <2>1. p = 1 => AnswersLast
    BY <1>1 DEF StreamMove
  <2>2. QED BY <1>3, <2>1 DEF AnswersLast, Serving, InTransit
<1>5. h = 1 => p = 0 /\ d = 0 /\ off = 1 /\ c[1] >= 1
  <2>1. SUFFICES ASSUME h = 1 PROVE p = 0 /\ d = 0 /\ off = 1 /\ c[1] >= 1
    OBVIOUS
  <2>2. p = 0 /\ d = 0 /\ (Carries \/ Acknowledges)
    BY <1>1, <2>1 DEF StreamMove
  <2>3. CASE Carries
    <3>1. Shifted(owed', owed, 1)
      BY <1>1, <2>1 DEF OwedMove
    <3>2. c[1] >= 1
      BY <2>3, <3>1, CarryFacts DEF Beat
    <3>3. QED BY <2>2, <2>3, <3>2 DEF Carries, Serving, off
  <2>4. CASE Acknowledges
    BY <1>3, <2>2, <2>4 DEF Acknowledges, InTransit, Serving, off
  <2>5. QED BY <2>2, <2>3, <2>4
<1>6. \A i \in 1 .. Len(transfers) - p : h <= c[i + p]
  <2>1. TAKE i \in 1 .. Len(transfers) - p
  <2>2. i + p \in 0 .. Len(transfers) /\ i + p >= 1 /\ 1 \in 0 .. Len(transfers)
    BY Lengths
  <2>3. c[i + p] \in Nat /\ c[1] \in Nat /\ c[1] <= c[i + p]
    BY <2>2, CutsFacts
  <2>4. QED BY <1>5, <2>3, Lengths
<1>7. c[p] = 0
  BY <1>4, Lengths DEF Cuts
<1>8. QED BY <1>5, <1>6, <1>7

LEMMA NewCutsFacts ==
  ASSUME TypeInv, Control, NEW c, Cuts(c), NEW d, NEW e, NEW p, NEW h, Parts(d, e, p, h)
  PROVE  LET c2 == NewCuts(c, p, h)
         IN  /\ c2 \in [0 .. Len(transfers') -> 0 .. Len(owed')]
             /\ c2[0] = 0 /\ c2[Len(transfers')] = Len(owed')
             /\ \A i, j \in 0 .. Len(transfers') : i <= j => c2[i] <= c2[j]
             /\ \A i \in 1 .. Len(transfers) - p : c2[i] = c[i + p] - h
             /\ Len(transfers') > Len(transfers) - p => c2[Len(transfers) - p] = Len(owed) - h
<1> DEFINE c2 == NewCuts(c, p, h)
           L  == Len(transfers)
           L2 == Len(transfers')
           N  == Len(owed)
           N2 == Len(owed')
<1>1. /\ L \in Nat /\ L2 \in Nat /\ L2 = L - p + e /\ p <= L /\ e \in {0, 1} /\ p \in {0, 1}
      /\ h \in {0, 1}
  BY Lengths
<1>2. /\ N \in Nat /\ N2 \in Nat /\ N2 >= N - h /\ h <= N /\ (e = 0 => N2 = N - h)
  <2>1. owed \in Seq(Int) /\ owed' \in Seq(Int) /\ OwedMove(h, e)
    BY DEF Parts, TypeInv, QueueTypes
  <2>2. QED BY <2>1 DEF OwedMove, Shifted
<1>3. /\ \A i \in 0 .. L : c[i] \in Nat /\ c[i] <= N
      /\ \A i, j \in 0 .. L : i <= j => c[i] <= c[j]
      /\ c[L] = N /\ c[p] = 0
      /\ \A i \in 1 .. L - p : h <= c[i + p]
  BY CutsFacts, HeadCut
<1>4. \A i \in 0 .. L2 : c2[i] = IF i = 0 THEN 0 ELSE IF i <= L - p THEN c[i + p] - h ELSE N2
  BY DEF NewCuts
<1>5. c2 = [i \in 0 .. L2 |-> c2[i]]
  BY DEF NewCuts
<1> HIDE DEF L, L2, N, N2, c2
<1>6. \A i \in 1 .. L - p : i + p \in 0 .. L /\ i \in 0 .. L2 /\ i # 0 /\ i <= L - p
  BY <1>1
<1>7. \A i \in 1 .. L - p : c2[i] = c[i + p] - h
  BY <1>4, <1>6
<1>8. \A i \in 1 .. L - p : c2[i] \in Nat /\ c2[i] <= N - h
  <2>1. TAKE i \in 1 .. L - p
  <2>2. c[i + p] \in Nat /\ c[i + p] <= N /\ h <= c[i + p] /\ c2[i] = c[i + p] - h
    BY <1>3, <1>6, <1>7
  <2>3. QED BY <1>1, <1>2, <2>2
<1>9. L = p => N = 0 /\ h = 0
  BY <1>1, <1>2, <1>3
<1>10. c2[0] = 0
  BY <1>1, <1>4
<1>11. c2[L - p] = N - h
  <2>1. CASE L = p
    BY <1>1, <1>9, <1>10, <2>1
  <2>2. CASE L # p
    <3>1. L - p \in 1 .. L - p /\ (L - p) + p = L
      BY <1>1, <2>2
    <3>2. QED BY <1>3, <1>7, <3>1
  <2>3. QED BY <2>1, <2>2
<1>12. c2[L2] = N2
  <2>1. CASE e = 0
    BY <1>1, <1>2, <1>11, <2>1
  <2>2. CASE e = 1
    <3>1. L2 \in 0 .. L2 /\ L2 # 0 /\ ~(L2 <= L - p)
      BY <1>1, <2>2
    <3>2. QED BY <1>4, <3>1
  <2>3. QED BY <1>1, <2>1, <2>2
<1>13. \A i \in 0 .. L2 : i = 0 \/ i \in 1 .. L - p \/ (i > L - p /\ c2[i] = N2)
  BY <1>1, <1>4
<1>14. \A i \in 0 .. L2 : c2[i] \in 0 .. N2
  BY <1>1, <1>2, <1>8, <1>10, <1>13
<1>15. \A i, j \in 0 .. L2 : i <= j => c2[i] <= c2[j]
  <2>1. SUFFICES ASSUME NEW i \in 0 .. L2, NEW j \in 0 .. L2, i <= j PROVE c2[i] <= c2[j]
    OBVIOUS
  <2>2. c2[i] \in 0 .. N2 /\ c2[j] \in 0 .. N2
    BY <1>14
  <2>3. CASE i = 0
    BY <1>2, <1>10, <2>2, <2>3
  <2>4. CASE j > L - p
    BY <1>1, <1>2, <1>13, <2>2, <2>4
  <2>5. CASE i # 0 /\ ~(j > L - p)
    <3>1. i \in 1 .. L - p /\ j \in 1 .. L - p /\ i + p <= j + p
      BY <1>1, <2>1, <2>5
    <3>2. /\ c[i + p] \in Nat /\ c[j + p] \in Nat /\ c[i + p] <= c[j + p]
          /\ c2[i] = c[i + p] - h /\ c2[j] = c[j + p] - h
      BY <1>3, <1>6, <1>7, <3>1
    <3>3. QED BY <1>1, <3>2
  <2>6. QED BY <2>3, <2>4, <2>5
<1>16. c2 \in [0 .. L2 -> 0 .. N2]
  BY <1>5, <1>14
<1>17. QED BY <1>7, <1>10, <1>11, <1>12, <1>15, <1>16 DEF L, L2, N, N2, c2


(* The segments of the transfers that wait, the new one among them.        *)
LEMMA WaitingSegments ==
  ASSUME TypeInv, Control, NEW c, Cuts(c), NEW d, NEW e, NEW p, NEW h, Parts(d, e, p, h),
         NEW i \in off' + 1 .. Len(transfers')
  PROVE  LET c2   == NewCuts(c, p, h)
             load == program'[transfers'[i].last]
         IN  Segment(owed', c2[i - 1], c2[i], load.remote_addr, Words(load.total_len))
<1> DEFINE c2   == NewCuts(c, p, h)
           L    == Len(transfers)
           L2   == Len(transfers')
           load == program[transfers'[i].last]
           W    == Words(load.total_len)
<1>1. /\ RequestMove(e) /\ OwedMove(h, e) /\ TransfersMove(p, e) /\ program' = program
      /\ transfers' \in Seq(Transfer)
  BY DEF Parts
<1>2. /\ L \in Nat /\ L2 \in Nat /\ L2 = L - p + e /\ p <= L /\ e \in {0, 1} /\ p \in {0, 1}
      /\ h \in {0, 1} /\ d \in {0, 1} /\ off \in {0, 1} /\ off' = off + d - p /\ off' \in {0, 1}
      /\ i \in 1 .. L2 /\ i >= off' + 1
  BY Lengths
<1>3. /\ c2[0] = 0 /\ c2[L2] = Len(owed')
      /\ \A j \in 1 .. L - p : c2[j] = c[j + p] - h
      /\ L2 > L - p => c2[L - p] = Len(owed) - h
  BY NewCutsFacts
<1>4. /\ c[p] = 0 /\ \A j \in 1 .. L - p : h <= c[j + p]
      /\ h = 1 => p = 0 /\ d = 0 /\ off = 1
  BY HeadCut
<1> HIDE DEF c2, L, L2
<1>5. CASE i <= L - p
  <2>1. i \in 1 .. L - p /\ i + p \in off + 1 .. L /\ i + p \in 1 .. L /\ (i - 1) + p \in 0 .. L
        /\ (i + p) - 1 = (i - 1) + p /\ i + p \in 0 .. L
    BY <1>2, <1>5
  <2>2. transfers'[i] = transfers[i + p]
    BY <1>1, <2>1 DEF TransfersMove, Shifted, L
  <2>3. Segment(owed, c[(i + p) - 1], c[i + p], load.remote_addr, W)
    BY <2>1, <2>2 DEF Cuts, L
  <2>4. /\ c[i + p] \in Nat /\ c[(i - 1) + p] \in Nat /\ c[(i - 1) + p] <= c[i + p]
        /\ c[i + p] <= Len(owed) /\ Len(owed) \in Nat
    <3>1. (i - 1) + p <= i + p
      BY <1>2
    <3>2. QED BY <2>1, <3>1, CutsFacts DEF L
  <2>5. c2[i] = c[i + p] - h
    BY <1>3, <2>1
  <2>6. c2[i - 1] = c[(i - 1) + p] - h /\ h <= c[(i - 1) + p]
    <3>1. CASE i = 1
      <4>1. off' = 0 /\ (i - 1) + p = p
        BY <1>2, <3>1
      <4>2. h = 0
        BY <1>2, <1>4, <4>1
      <4>3. QED BY <1>3, <1>4, <3>1, <4>1, <4>2
    <3>2. CASE i # 1
      <4>1. i - 1 \in 1 .. L - p
        BY <1>2, <2>1, <3>2
      <4>2. QED BY <1>3, <1>4, <4>1
    <3>3. QED BY <3>1, <3>2
  <2>7. W \in Nat
    <3>1. transfers[i + p].last \in 1 .. Len(program)
      <4>1. /\ transfers[i + p].last \in Nat /\ Len(spadReqQue) = L - off
            /\ (i + p) - off \in 1 .. Len(spadReqQue) /\ ((i + p) - off) + off = i + p
        <5>1. L = Len(spadReqQue) + off /\ Len(spadReqQue) \in Nat
          BY Lengths DEF L
        <5>2. transfers[i + p].last \in Nat
          BY <2>1, TransfersFacts DEF L
        <5>3. i + p \in off + 1 .. Len(spadReqQue) + off /\ off \in Nat /\ i + p \in Nat
          BY <1>2, <2>1, <5>1
        <5>4. \A x, y, z \in Nat : x \in y + 1 .. z + y => x - y \in 1 .. z /\ (x - y) + y = x
          OBVIOUS
        <5>5. (i + p) - off \in 1 .. Len(spadReqQue) /\ ((i + p) - off) + off = i + p
          BY <5>1, <5>3, <5>4
        <5>6. Len(spadReqQue) = L - off
          BY <1>2, <5>1
        <5>7. QED BY <5>2, <5>5, <5>6
      <4>2. Describes(program, spadReqQue[(i + p) - off], transfers[i + p])
        BY <4>1 DEF Control
      <4>3. transfers[i + p].last >= 1 /\ transfers[i + p].last <= Len(program)
        <5>1. /\ 1 <= transfers[i + p].first /\ transfers[i + p].first <= transfers[i + p].last
              /\ transfers[i + p].last <= Len(program)
          BY <4>2 DEF Describes, Group
        <5>2. transfers[i + p].first \in Nat
          BY <2>1, TransfersFacts DEF L
        <5>3. QED BY <4>1, <5>1, <5>2
      <4>4. QED BY <4>1, <4>3, ProgramFacts
    <3>2. load.total_len \in Nat
      BY <2>2, <3>1, ProgramFacts, Numbers
    <3>3. QED BY <3>2, WordsFacts
  <2>8. Shifted(owed', owed, h)
    BY <1>1 DEF OwedMove
  <2> HIDE DEF W, load
  <2>9. Segment(owed', c[(i - 1) + p] - h, c[i + p] - h, load.remote_addr, W)
    BY <1>2, <2>1, <2>3, <2>4, <2>6, <2>7, <2>8, SegmentShift
  <2>10. QED BY <1>1, <2>5, <2>6, <2>9 DEF W, load, c2
<1>6. CASE ~(i <= L - p)
  <2>1. e = 1 /\ i = L2 /\ i - 1 = L - p /\ L2 > L - p
    BY <1>2, <1>6
  <2>2. transfers'[i].last = accepted
    BY <1>1, <2>1 DEF TransfersMove, L2
  <2>3. /\ total_len = program[accepted].total_len /\ remote_addr = program[accepted].remote_addr
    BY <1>1, <2>1, ReadyToAsk DEF RequestMove, Asks
  <2>4. Segment(owed', Len(owed) - h, Len(owed'), remote_addr, Words(total_len))
    BY <1>1, <2>1 DEF OwedMove
  <2>5. c2[i] = Len(owed') /\ c2[i - 1] = Len(owed) - h
    BY <1>3, <2>1
  <2>6. QED BY <1>1, <2>2, <2>3, <2>4, <2>5 DEF c2
<1>7. QED BY <1>5, <1>6


(* One more word of the loads in service is in place, and none of the      *)
(* earlier ones is lost: the loads are in banks of their own.              *)
LEMMA OneMorePlaced ==
  ASSUME TypeInv, Control, Port, NEW c, Carries, NEW n \in Nat, Beat(c, n),
         NEW k \in transfers[1].first .. transfers[1].last
  PROVE  Placed(banks', program[k], n + 1)
<1> DEFINE t    == transfers[1]
           load == program[t.last]
           w(m) == program[k].spad_addr + m * dataByte
<1>1. Serving /\ n \in 0 .. Words(load.total_len) - 1 /\ Placed(banks, program[k], n)
  BY DEF Carries, Serving, Beat
<1>2. /\ k \in 1 .. Len(program) /\ program[k].spad_addr \in Nat
      /\ program[k].remote_addr = load.remote_addr /\ program[k].total_len = load.total_len
      /\ load.remote_addr \in Nat /\ t.first \in Nat /\ t.last \in Nat /\ t.last <= Len(program)
      /\ Len(program) \in Nat /\ Words(load.total_len) \in Nat
  <2>1. load.total_len \in Nat
    BY <1>1, ServiceFacts, Numbers, SMTT(30)
  <2>2. Words(load.total_len) \in Nat
    BY <2>1, WordsFacts
  <2>3. /\ k \in 1 .. Len(program) /\ program[k].spad_addr \in Nat
        /\ program[k].remote_addr = load.remote_addr /\ program[k].total_len = load.total_len
    BY <1>1, ServiceFacts
  <2>4. /\ load.remote_addr \in Nat /\ t.first \in 1 .. Len(program)
        /\ t.last \in 1 .. Len(program) /\ Len(program) \in Nat
    BY <1>1, ServiceFacts, ProgramFacts
  <2>5. t.first \in Nat /\ t.last \in Nat /\ t.last <= Len(program)
    BY <2>4
  <2>6. QED BY <2>2, <2>3, <2>4, <2>5
<1>3. \A x \in SpadWords :
        \/ banks'[x] = banks[x]
        \/ \E k2 \in t.first .. t.last : x = program[k2].spad_addr + n * dataByte
  BY BanksFacts
<1>4. banks'[w(n)] = load.remote_addr + n * dataByte
  BY BanksFacts
<1>5. ASSUME NEW m \in 0 .. n - 1 PROVE banks'[w(m)] = banks[w(m)]
  <2>1. m \in Nat /\ m < n /\ m \in 0 .. Words(program[k].total_len) - 1
    BY <1>1, <1>2, <1>5
  <2>2. w(m) \in SpadWords /\ Spad!Bank(w(m)) = Spad!Bank(program[k].spad_addr)
    BY <1>2, <2>1, PlaceFacts
  <2>3. SUFFICES ASSUME NEW k2 \in t.first .. t.last,
                        w(m) = program[k2].spad_addr + n * dataByte
                 PROVE  FALSE
    BY <1>3, <2>2
  <2>4. Spad!Bank(w(m)) = Spad!Bank(program[k2].spad_addr)
    <3>1. k2 \in 1 .. Len(program) /\ program[k2].total_len = load.total_len
      BY <1>1, ServiceFacts
    <3>2. n \in 0 .. Words(program[k2].total_len) - 1
      BY <1>1, <3>1
    <3>3. QED BY <2>3, <3>1, <3>2, PlaceFacts
  <2>5. k2 = k
    <3>1. Spad!Bank(program[k2].spad_addr) = Spad!Bank(program[k].spad_addr)
      BY <2>2, <2>4
    <3>2. k2 \in Nat /\ k \in Nat /\ (k2 < k \/ k < k2 \/ k2 = k)
      BY <1>2
    <3>3. ~(k2 < k) /\ ~(k < k2)
      BY <1>1, <3>1, BanksApart
    <3>4. QED BY <3>2, <3>3
  <2>6. m * dataByte = n * dataByte
    <3>1. m * dataByte \in Nat /\ n * dataByte \in Nat
      BY <2>1, TimesOrder
    <3>2. QED BY <1>2, <2>3, <2>5, <3>1
  <2>7. m = n
    BY <2>1, <2>6, TimesOrder
  <2>8. QED BY <2>1, <2>7
<1>6. \A m \in 0 .. (n + 1) - 1 : m = n \/ m \in 0 .. n - 1
  OBVIOUS
<1>7. \A m \in 0 .. n - 1 : banks[w(m)] = program[k].remote_addr + m * dataByte
  BY <1>1 DEF Placed
<1> HIDE DEF load, t
<1>8. \A m \in 0 .. (n + 1) - 1 : banks'[w(m)] = program[k].remote_addr + m * dataByte
  BY <1>2, <1>4, <1>5, <1>6, <1>7
<1>9. QED BY <1>8 DEF Placed


(* The transfer in service, a cycle later.                                 *)
LEMMA InTransitKept ==
  ASSUME TypeInv, Control, Port, NEW c, Cuts(c),
         NEW d, NEW e, NEW p, NEW h, Parts(d, e, p, h),
         Serving', NEW hi, hi = c[1] - h
  PROVE  InTransit(hi)'
<1> DEFINE t    == transfers[1]
           load == program[t.last]
           W    == Words(load.total_len)
<1>1. /\ StreamMove(d, p, h) /\ OwedMove(h, e) /\ program' = program
      /\ Shifted(owed', owed, h) /\ owed \in Seq(Int) /\ Len(owed) \in Nat
  BY DEF Parts, OwedMove, TypeInv, QueueTypes
<1>2. transfers'[1] = t /\ p = 0 /\ Len(transfers) >= 1 /\ Len(transfers) \in Nat
  BY HeadStays, Lengths
<1>3. c[0] = 0 /\ c[1] \in Nat /\ c[1] <= Len(owed) /\ h \in {0, 1} /\ (h = 1 => c[1] >= 1)
  <2>1. 1 \in 0 .. Len(transfers)
    BY <1>2
  <2>2. QED BY <2>1, CutsFacts, HeadCut, Lengths
<1>4. hi \in Nat /\ (h = 0 => hi = c[1])
  BY <1>3
<1>5. /\ load.total_len \in Nat /\ load.total_len > 0 /\ load.remote_addr \in Nat
      /\ W \in Nat /\ W > 0
  <2>1. /\ load.total_len \in Nat /\ load.total_len > 0 /\ load.remote_addr \in Nat
    <3>1. CASE Serving
      BY <3>1, ServiceFacts, Numbers
    <3>2. CASE ~Serving
      <4>1. off = 0 /\ 1 \in 1 .. Len(spadReqQue) /\ 1 + off = 1 /\ 1 \in 1 .. Len(transfers)
        BY <1>2, <3>2, Lengths
      <4>2. Describes(program, spadReqQue[1], t)
        BY <4>1 DEF Control
      <4>3. /\ 1 <= t.first /\ t.first <= t.last /\ t.last <= Len(program)
            /\ t.first \in Nat /\ t.last \in Nat
        BY <4>1, <4>2, TransfersFacts DEF Describes, Group
      <4>4. t.last \in 1 .. Len(program)
        BY <4>3
      <4>5. QED BY <4>4, ProgramFacts, Numbers, SMTT(30)
    <3>3. QED BY <3>1, <3>2
  <2>2. QED BY <2>1, WordsFacts
<1>6. Serving => InTransit(c[1])
  BY DEF Cuts
<1>7. CASE Starts /\ d = 1
  <2>1. /\ spadState' \in {"s_pre_resp", "s_spad_stream"} /\ success' /\ banks' = banks
        /\ ~Serving /\ leftLen' = spadReqQue[1].len
    BY <1>7 DEF Starts, Serving
  <2>2. off = 0 /\ 1 \in 1 .. Len(spadReqQue) /\ 1 + off = 1 /\ h = 0 /\ 1 \in off + 1 .. Len(transfers)
    BY <1>2, <2>1, Lengths, HeadCut
  <2>3. Describes(program, spadReqQue[1], t)
    BY <2>2 DEF Control
  <2>4. done' = 0
    BY <1>1, <1>2, <1>5, <2>1, <2>3 DEF done, Describes
  <2>5. Segment(owed, 0, c[1], load.remote_addr, W)
    <3>1. Segment(owed, c[1 - 1], c[1], load.remote_addr, W)
      BY <2>2 DEF Cuts
    <3>2. QED BY <1>3, <3>1
  <2> HIDE DEF load, t, W
  <2>6. Segment(owed', 0 - h, c[1] - h, load.remote_addr, W)
    BY <1>1, <1>3, <1>5, <2>2, <2>5, SegmentShift
  <2>7. Segment(owed', 0, hi, load.remote_addr + done', W - 0)
    <3>1. 0 - h = 0 /\ load.remote_addr + done' = load.remote_addr /\ W - 0 = W
      BY <1>5, <2>2, <2>4
    <3>2. QED BY <2>6, <3>1
  <2>8. 0 \in 0 .. W - 1 /\ done' = 0 * dataByte
    BY <1>5, <2>4, Numbers
  <2>9. \A k \in t.first .. t.last : Placed(banks, program[k], 0)
    BY DEF Placed
  <2>10. QED
    BY <1>1, <1>2, <2>1, <2>7, <2>8, <2>9 DEF InTransit, load, t, W
<1>8. CASE (Waits \/ AnswersEarly) /\ h = 0
  <2>1. /\ spadState \in {"s_pre_resp", "s_spad_stream"}
        /\ spadState' \in {"s_pre_resp", "s_spad_stream"}
        /\ success' = success /\ banks' = banks /\ leftLen' = leftLen /\ Serving
    BY <1>8 DEF Waits, AnswersEarly, StreamStays, Serving
  <2>2. h = 0
    BY <1>8
  <2>3. done' = done
    BY <1>1, <1>2, <2>1 DEF done
  <2>4. PICK n \in 0 .. W - 1 :
          /\ done = n * dataByte
          /\ \A k \in t.first .. t.last : Placed(banks, program[k], n)
          /\ Segment(owed, 0, c[1], load.remote_addr + done, W - n)
    BY <1>6, <2>1 DEF InTransit
  <2>5. success
    BY <1>6, <2>1 DEF InTransit
  <2> HIDE DEF load, t, W
  <2>6. W - n \in Nat
    BY <1>5
  <2>7. Segment(owed', 0 - h, c[1] - h, load.remote_addr + done, W - n)
    BY <1>1, <1>3, <2>2, <2>4, <2>6, SegmentShift
  <2>8. Segment(owed', 0, hi, load.remote_addr + done', W - n)
    <3>1. 0 - h = 0
      BY <2>2
    <3>2. QED BY <2>3, <2>7, <3>1
  <2>9. QED
    BY <1>1, <1>2, <2>1, <2>3, <2>4, <2>5, <2>8 DEF InTransit, load, t, W
<1>9. CASE Raises /\ h = 0
  <2>1. /\ spadState = "s_spad_stream" /\ spadState' = "s_exp" /\ success' = FALSE
        /\ owed[1] = Raised /\ Serving
    BY <1>9 DEF Raises, Serving
  <2>2. h = 0
    BY <1>9
  <2>3. PICK n \in 0 .. W - 1 :
          done = n * dataByte /\ Segment(owed, 0, c[1], load.remote_addr + done, W - n)
    BY <1>6, <2>1 DEF InTransit
  <2>4. c[1] = 1
    <3>1. W - n \in Nat \ {0} /\ n \in Nat
      BY <1>5
    <3>2. load.remote_addr + done \in Nat
      BY <1>5, <2>3, <3>1, TimesOrder
    <3>3. QED BY <1>3, <2>1, <2>3, <3>1, <3>2, SegmentRaised
  <2>5. owed'[1] = Raised
    <3>1. 1 \in 1 .. Len(owed) - h /\ 1 + h = 1
      BY <1>1, <1>3, <2>2, <2>4
    <3>2. QED BY <1>1, <2>1, <3>1 DEF Shifted
  <2>6. QED BY <1>4, <2>1, <2>2, <2>4, <2>5 DEF InTransit
<1>10. CASE Aborts /\ h = 0
  <2>1. spadState = "s_exp" /\ spadState' = "s_exp" /\ success' = success /\ Serving
    BY <1>10 DEF Aborts, StreamStays, Serving
  <2>2. h = 0
    BY <1>10
  <2>3. c[1] = 1 /\ owed[1] = Raised /\ ~success
    BY <1>6, <2>1 DEF InTransit
  <2>4. owed'[1] = Raised
    <3>1. 1 \in 1 .. Len(owed) - h /\ 1 + h = 1
      BY <1>1, <1>3, <2>2, <2>3
    <3>2. QED BY <1>1, <2>3, <3>1 DEF Shifted
  <2>5. QED BY <1>4, <2>1, <2>2, <2>3, <2>4 DEF InTransit
<1>11. CASE Acknowledges /\ h = 1
  <2>1. spadState = "s_exp" /\ spadState' = "s_resp" /\ success' = success /\ Serving
    BY <1>11 DEF Acknowledges, StreamStays, Serving
  <2>2. c[1] = 1 /\ ~success
    BY <1>6, <2>1 DEF InTransit
  <2>3. hi = 0
    BY <1>11, <2>2
  <2>4. QED BY <2>1, <2>2, <2>3 DEF InTransit
<1>12. CASE Carries /\ h = 1
  <2>1. PICK n \in Nat : Beat(c, n)
    BY <1>1, <1>12, CarryFacts
  <2>2. /\ n \in 0 .. W - 1 /\ done = n * dataByte /\ success
        /\ Segment(owed', 0, c[1] - 1, load.remote_addr + n * dataByte + dataByte, W - n - 1)
    BY <2>1 DEF Beat
  <2>3. \A k \in t.first .. t.last : Placed(banks', program[k], n + 1)
    BY <1>12, <2>1, OneMorePlaced
  <2>4. /\ leftLen \in 1 .. load.total_len
        /\ leftLen' = (leftLen - dataByte) % 2^lgMaxDataLen /\ success' = success
        /\ spadState' = IF leftLen <= dataByte THEN "s_resp" ELSE "s_spad_stream"
        /\ leftLen < 2^lgMaxDataLen
    BY <1>12, Numbers DEF Port, Carries, TypeInv, StreamTypes
  <2>5. load.total_len - leftLen = n * dataByte
    BY <2>2 DEF done
  <2>6. /\ leftLen <= dataByte => n + 1 = W
        /\ leftLen > dataByte => n + 1 \in 0 .. W - 1
    <3>1. load.total_len \in Nat \ {0} /\ leftLen \in Nat
      BY <1>5, <2>4
    <3>2. QED BY <2>2, <2>5, <3>1, NextWord
  <2>7. hi = c[1] - 1 /\ (n + 1) * dataByte = n * dataByte + dataByte /\ n * dataByte \in Nat
    BY <1>12, TimesOrder
  <2> HIDE DEF W, load, t
  <2>8. CASE leftLen <= dataByte
    <3>1. n + 1 = W /\ W - n - 1 = 0
      BY <1>5, <2>6, <2>8
    <3>2. hi = 0
      BY <1>4, <2>2, <2>7, <3>1 DEF Segment
    <3>3. spadState' = "s_resp"
      BY <2>4, <2>8
    <3>4. QED BY <1>1, <1>2, <2>3, <3>1, <3>2, <3>3 DEF InTransit, load, t, W
  <2>9. CASE ~(leftLen <= dataByte)
    <3>1. n + 1 \in 0 .. W - 1 /\ spadState' = "s_spad_stream"
      BY <2>4, <2>6, <2>9, Numbers
    <3>2. leftLen' = leftLen - dataByte
      <4>1. leftLen - dataByte \in Nat /\ leftLen - dataByte < 2^lgMaxDataLen
        BY <1>5, <2>4, <2>9, Numbers
      <4>2. \A x, m \in Nat : x < m => x % m = x
        OBVIOUS
      <4>3. QED BY <2>4, <4>1, <4>2, Numbers
    <3>3. done' = (n + 1) * dataByte
      <4>1. done' = load.total_len - leftLen'
        BY <1>1, <1>2 DEF done, load, t
      <4>2. QED BY <1>5, <2>4, <2>5, <2>7, <3>2, <4>1, Numbers, SMTT(30)
    <3>4. Segment(owed', 0, hi, load.remote_addr + done', W - (n + 1))
      <4>1. /\ load.remote_addr + n * dataByte + dataByte = load.remote_addr + done'
            /\ W - n - 1 = W - (n + 1)
        BY <1>5, <2>7, <3>3, Numbers
      <4>2. QED BY <2>2, <2>7, <4>1
    <3>5. QED
      BY <1>1, <1>2, <2>2, <2>3, <2>4, <3>1, <3>3, <3>4 DEF InTransit, load, t, W
  <2>10. QED BY <2>8, <2>9
<1>13. CASE AnswersLast
  BY <1>13 DEF AnswersLast, Serving
<1>14. QED
  BY <1>1, <1>7, <1>8, <1>9, <1>10, <1>11, <1>12, <1>13 DEF StreamMove


LEMMA DataKept ==
  ASSUME TypeInv, Control, Port, Data,
         NEW d, NEW e, NEW p, NEW h, Parts(d, e, p, h)
  PROVE  Data'
<1>1. PICK c : Cuts(c)
  BY DEF Data
<1>2. PICK c2 : c2 = NewCuts(c, p, h)
  OBVIOUS
<1>3. /\ c2 \in [0 .. Len(transfers') -> 0 .. Len(owed')]
      /\ c2[0] = 0 /\ c2[Len(transfers')] = Len(owed')
      /\ \A i, j \in 0 .. Len(transfers') : i <= j => c2[i] <= c2[j]
      /\ \A i \in 1 .. Len(transfers) - p : c2[i] = c[i + p] - h
  BY <1>1, <1>2, NewCutsFacts
<1>4. ASSUME Serving' PROVE InTransit(c2[1])'
  <2>1. p = 0 /\ 1 \in 1 .. Len(transfers) - p /\ 1 + p = 1
    BY <1>4, HeadStays, Lengths
  <2>2. c2[1] = c[1] - h
    BY <1>3, <2>1
  <2>3. PICK hi : hi = c2[1]
    OBVIOUS
  <2>4. InTransit(hi)'
    BY <1>1, <1>4, <2>2, <2>3, InTransitKept
  <2>5. QED BY <2>3, <2>4
<1>5. \A i \in off' + 1 .. Len(transfers') :
        LET load == program'[transfers'[i].last]
        IN  Segment(owed', c2[i - 1], c2[i], load.remote_addr, Words(load.total_len))
  BY <1>1, <1>2, WaitingSegments
<1>6. Cuts(c2)'
  BY <1>3, <1>4, <1>5 DEF Cuts
<1>7. QED BY <1>3, <1>6 DEF Data

---------------------------------------------------------------------------
LEMMA InitIInv == Init => IInv
<1> SUFFICES ASSUME Init PROVE IInv
  OBVIOUS
<1>1. /\ state = "s_idle" /\ remote_addr = 0 /\ addr_num = 0 /\ total_len = 0 /\ id = 0
      /\ spad_addrs = [j \in LC!AddrIdx |-> 0] /\ spadReqQue = <<>>
      /\ spadState = "s_spad_req" /\ leftLen = 0 /\ leftNum = 0 /\ spadReqId = 0
      /\ success \in BOOLEAN
      /\ writeState = "s_write_idle" /\ writeAddrs = [j \in LC!AddrIdx |-> 0]
      /\ writeAddrNum = 0 /\ writeMaxAddr = 0 /\ write_exp_ack = FALSE
      /\ banks = [w \in SpadWords |-> Blank] /\ owed = <<>> /\ transfers = <<>>
      /\ program \in Programs /\ accepted = 0 /\ answered = 0
  BY Numbers DEF Init, LC!Init, Spad!Init, LC!s_idle, LC!s_spad_req, Spad!s_write_idle
<1>2. program \in Seq(LoadCmd) /\ Len(program) \in Nat
  BY <1>1, ProgramsAssumption
<1>3. TypeInv
  <2>1. RequestTypes
    <3>1. 0 \in LC!AddrIdx /\ 0 \in 0 .. 2^lgMaxDataLen - 1 /\ 0 \in 0 .. Len(program)
      BY <1>2, Numbers, LoadPathAssumption
    <3>2. QED BY <1>1, <3>1 DEF RequestTypes
  <2>2. StreamTypes /\ PortTypes
    <3>1. 0 \in LC!AddrIdx /\ 0 \in 0 .. 2^lgMaxDataLen - 1
      BY Numbers, LoadPathAssumption
    <3>2. QED BY <1>1, <3>1 DEF StreamTypes, PortTypes, Blank
  <2>3. QueueTypes
    BY <1>1, Numbers DEF QueueTypes
  <2>4. QED BY <2>1, <2>2, <2>3 DEF TypeInv
<1>4. Control
  BY <1>1, Numbers DEF Control, off, Serving, Collecting, Collected, Taken, InService, FusedRun
<1>5. Port
  BY <1>1 DEF Port
<1>6. Data
  <2> DEFINE c == [i \in {0} |-> 0]
  <2>1. Len(transfers) = 0 /\ Len(owed) = 0 /\ 0 .. 0 = {0}
    BY <1>1
  <2>2. c \in [0 .. Len(transfers) -> 0 .. Len(owed)]
    BY <2>1
  <2>3. c[0] = 0 /\ \A i \in 0 .. Len(transfers) : i = 0
    BY <2>1
  <2> HIDE DEF c
  <2>4. Cuts(c)
    BY <1>1, <2>1, <2>2, <2>3 DEF Cuts, Serving, off
  <2>5. QED BY <2>2, <2>4 DEF Data
<1>7. OnlyLoads
  BY <1>1 DEF OnlyLoads
<1>8. QED BY <1>3, <1>4, <1>5, <1>6, <1>7 DEF IInv

LEMMA StepIInv == IInv /\ [Next]_vars => IInv'
<1> SUFFICES ASSUME IInv, [Next]_vars PROVE IInv'
  OBVIOUS
<1>1. TypeInv /\ Control /\ Port /\ Data /\ OnlyLoads
  BY DEF IInv
<1>2. CASE Next
  <2>1. PICK d \in {0, 1}, e \in {0, 1}, p \in {0, 1}, h \in {0, 1} : Parts(d, e, p, h)
    BY <1>1, <1>2, CycleFacts
  <2>2. TypeInv' /\ Control' /\ Port' /\ Data' /\ OnlyLoads'
    BY <1>1, <2>1, TypeStep, ControlStep, PortKept, DataKept, OnlyLoadsKept
  <2>3. QED BY <2>2 DEF IInv
<1>3. CASE UNCHANGED vars
  <2>1. /\ UNCHANGED <<state, remote_addr, spad_addrs, addr_num, total_len, id, spadReqQue>>
        /\ UNCHANGED <<spadState, leftLen, leftNum, spadReqId, success>>
        /\ UNCHANGED <<writeState, writeAddrs, writeAddrNum, writeMaxAddr, write_exp_ack>>
        /\ UNCHANGED <<banks, owed, program, accepted, answered, transfers>>
    BY <1>3 DEF vars, ctrl, port
  <2>2. TypeInv'
    BY <1>1, <2>1 DEF TypeInv, RequestTypes, StreamTypes, PortTypes, QueueTypes
  <2>3. Control'
    BY <1>1, <2>1 DEF Control, off, Serving, Collecting, Collected, Taken, InService
  <2>4. Port'
    BY <1>1, <2>1 DEF Port, done
  <2>5. Data'
    BY <1>1, <2>1 DEF Data, Cuts, InTransit, Serving, off, done
  <2>6. OnlyLoads'
    BY <1>1, <2>1 DEF OnlyLoads
  <2>7. QED BY <2>2, <2>3, <2>4, <2>5, <2>6 DEF IInv
<1>4. QED BY <1>2, <1>3

(* The registers, the queue, the write port and what the DMA owes are in   *)
(* step with the transfers under way, in every state of every program.     *)
THEOREM Invariant == Spec => []IInv
<1>1. QED BY InitIInv, StepIInv, PTL DEF Spec


---------------------------------------------------------------------------
(* Registers keep their width, and no more loads are answered than taken.  *)
THEOREM TypeCorrect == Spec => []TypeOK
<1>1. IInv => TypeOK
  <2> SUFFICES ASSUME IInv PROVE TypeOK
    OBVIOUS
  <2>1. TypeInv /\ Control
    BY DEF IInv
  <2>2. answered <= accepted
    <3>1. answered \in Nat /\ accepted \in Nat /\ Len(transfers) \in Nat
      BY <2>1, ProgramFacts, TransfersFacts DEF TypeInv, RequestTypes, StreamTypes
    <3>2. CASE Serving
      <4> DEFINE last == transfers[1].last
      <4>1. last \in Nat /\ last <= accepted
        BY <2>1, <3>2, ServiceFacts
      <4>2. \/ spadState = "s_pre_resp" /\ leftNum >= 1 /\ answered + 1 + leftNum = last
            \/ answered + 1 = last
        BY <2>1, <3>2 DEF Control, InService
      <4>3. leftNum \in Nat
        BY <2>1, Numbers DEF TypeInv, StreamTypes
      <4> HIDE DEF last
      <4>4. QED BY <3>1, <4>1, <4>2, <4>3
    <3>3. CASE ~Serving /\ transfers # <<>>
      <4> DEFINE t == transfers[1]
      <4>1. Len(transfers) >= 1 /\ off = 0 /\ Len(spadReqQue) = Len(transfers)
        BY <2>1, <3>1, <3>3, QueueFacts DEF TypeInv, QueueTypes, Control, off
      <4>2. /\ t.first = answered + 1 /\ t.last <= accepted /\ t.last \in Nat
            /\ Describes(program, spadReqQue[1], t)
        BY <2>1, <3>1, <3>3, <4>1, TransfersFacts DEF Control
      <4> HIDE DEF t
      <4>3. t.first <= t.last
        BY <4>2 DEF Describes, Group
      <4>4. QED BY <3>1, <4>2, <4>3
    <3>4. CASE ~Serving /\ transfers = <<>>
      <4>1. accepted = answered + Collected
        BY <2>1, <3>4 DEF Control, Collecting, Taken
      <4>2. Collected \in Nat
        BY <2>1, Numbers DEF Collected, TypeInv, RequestTypes
      <4>3. QED BY <3>1, <4>1, <4>2
    <3>5. QED BY <3>2, <3>3, <3>4
  <2>3. accepted <= Len(program)
    BY <2>1, ProgramFacts DEF TypeInv, RequestTypes
  <2>4. QED
    BY <2>1, <2>2, <2>3 DEF TypeOK, TypeInv, RequestTypes, StreamTypes, PortTypes, QueueTypes
<1>2. QED BY <1>1, Invariant, PTL

(* Every load is answered once, in the order in which the loads were       *)
(* taken, with its id, and the last of a transfer when the transfer is     *)
(* over: the answers LoadController gives in advance are not too many.     *)
THEOREM InOrder == Spec => []AnswersInOrder
<1>1. IInv => AnswersInOrder
  <2> SUFFICES ASSUME IInv, LC!core_resp_valid PROVE AnswersInOrder
    BY DEF AnswersInOrder
  <2> DEFINE t == transfers[1]
  <2>1. TypeInv /\ Control /\ Serving /\ spadState \in {"s_pre_resp", "s_resp"}
    BY DEF IInv, LC!core_resp_valid, LC!s_pre_resp, LC!s_resp, Serving
  <2>2. /\ transfers # <<>> /\ Head(transfers) = t
        /\ t.first \in Nat /\ t.last \in Nat /\ t.first <= t.last
        /\ \A k \in t.first .. t.last : program[k].id = program[t.last].id
    BY <2>1, ServiceFacts DEF TypeInv, QueueTypes
  <2>3. /\ spadReqId = program[t.last].id /\ answered + 1 >= t.first
        /\ IF spadState = "s_pre_resp" THEN leftNum >= 1 /\ answered + 1 + leftNum = t.last
           ELSE answered + 1 = t.last
    BY <2>1 DEF Control, InService
  <2>4. answered \in Nat /\ leftNum \in Nat
    BY <2>1, Numbers DEF TypeInv, StreamTypes
  <2> HIDE DEF t
  <2>5. /\ answered + 1 \in t.first .. t.last
        /\ spadState = "s_pre_resp" => answered + 1 \in t.first .. t.last - 1
    BY <2>2, <2>3, <2>4
  <2>6. spadReqId = program[answered + 1].id
    BY <2>2, <2>3, <2>5
  <2>7. QED BY <2>2, <2>3, <2>5, <2>6 DEF AnswersInOrder
<1>2. QED BY <1>1, Invariant, PTL

(* When the last load of a transfer is answered with success, the data of  *)
(* all loads of the transfer are in the scratchpad.                        *)
THEOREM DataInPlace == Spec => []LoadedWhenAnswered
<1>1. IInv => LoadedWhenAnswered
  <2> SUFFICES ASSUME IInv, spadState = "s_resp", success PROVE LoadedWhenAnswered
    BY DEF LoadedWhenAnswered
  <2> DEFINE t == transfers[1]
  <2>1. TypeInv /\ Control /\ Serving /\ Data
    BY DEF IInv, Serving
  <2>2. PICK c : Cuts(c)
    BY <2>1 DEF Data
  <2>3. \A k \in t.first .. t.last :
          Placed(banks, program[k], Words(program[t.last].total_len))
    BY <2>1, <2>2 DEF Cuts, InTransit
  <2>4. \A k \in t.first .. t.last : program[k].total_len = program[t.last].total_len
    BY <2>1, ServiceFacts
  <2>5. Head(transfers) = t
    BY <2>1, ServiceFacts DEF TypeInv, QueueTypes
  <2> HIDE DEF t
  <2>6. \A k \in t.first .. t.last : Loaded(program[k])
    BY <2>3, <2>4 DEF Placed, Loaded
  <2>7. QED BY <2>5, <2>6 DEF LoadedWhenAnswered
<1>2. QED BY <1>1, Invariant, PTL

(* The scratchpad is written only where a load puts its data, and with     *)
(* that data.                                                              *)
THEOREM NothingElseWritten == Spec => []OnlyLoads
<1>1. IInv => OnlyLoads
  BY DEF IInv
<1>2. QED BY <1>1, Invariant, PTL
=============================================================================
