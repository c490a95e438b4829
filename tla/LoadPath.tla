------------------------------ MODULE LoadPath -----------------------------
(***************************************************************************)
(* The way of a load: LoadController between the reservation station, the  *)
(* read side of the DMA and the stream write port of the scratchpad, as    *)
(* TRAM.scala wires them.  A step is a clock cycle.                        *)
(*                                                                         *)
(* The DMA is what ReadPath shows it to be: it carries the words of the    *)
(* requests in order, and an exception in the place of the words it could  *)
(* not fetch.  A word of data is its address in memory.                    *)
(***************************************************************************)
EXTENDS Integers, Sequences

CONSTANTS
  dataByte,       (* Bytes of a word of the stream.                         *)
  lgMaxDataLen,   (* Width of lengths.                                      *)
  spadAddrNum,    (* Loads that can share a transfer.                       *)
  reqQueDepth,    (* Transfers asked for ahead of the stream.               *)
  Programs,       (* Sequences of loads: remote_addr, spad_addr, total_len, *)
                  (* in bytes, fused, id.                                   *)
  nBanks,         (* Banks of the scratchpad before the last block.         *)
  sizeBank,       (* Bytes of a bank.                                       *)
  TLBMayMiss      (* A transfer may end with an exception.                  *)

ASSUME LoadPathAssumption ==
  /\ dataByte \in Nat \ {0} /\ 2^lgMaxDataLen \in Nat \ {0}
  /\ spadAddrNum \in Nat \ {0, 1} /\ reqQueDepth \in Nat \ {0}
  /\ nBanks \in Nat \ {0} /\ sizeBank \in Nat \ {0} /\ sizeBank % dataByte = 0

VARIABLES
  state, remote_addr, spad_addrs, addr_num, total_len, id,            \* requests
  spadReqQue,
  spadState, leftLen, leftNum, spadReqId, success,                    \* streams
  writeState, writeAddrs, writeAddrNum, writeMaxAddr, write_exp_ack,  \* port
  banks,      \* contents of the scratchpad, by word
  owed,       \* DMA: what the stream is still to carry
  program,
  accepted,   \* number of loads handed over
  answered,   \* number of loads answered
  transfers   \* history: first and last load of the transfers that are not over

ctrl == <<state, remote_addr, spad_addrs, addr_num, total_len, id, spadReqQue,
          spadState, leftLen, leftNum, spadReqId, success>>
port == <<writeState, writeAddrs, writeAddrNum, writeMaxAddr, write_exp_ack>>
vars == <<ctrl, port, banks, owed, program, accepted, answered, transfers>>


LC   == INSTANCE LoadController
Spad == INSTANCE ScratchpadWrite

Raised == -1    \* in the place of a word: the transfer ends with an exception
Blank  == -2

---------------------------------------------------------------------------
(* Wires.  shown: the DMA shows what it owes. *)
exp_req(shown)      == shown /\ owed # <<>> /\ Head(owed) = Raised
dma_valid(shown)    == shown /\ owed # <<>> /\ Head(owed) # Raised
stream_fire(shown)  == dma_valid(shown) /\ Spad!stream_ready /\ LC!streaming
dma_req_fire(ready) == LC!dma_req_valid /\ ready
spad_req_fire       == LC!spad_req_valid /\ Spad!req_ready

Words(n) == (n + dataByte - 1) \div dataByte
WordsFrom(from, n) == [k \in 1 .. n |-> from + (k - 1) * dataByte]

SpadWords == {n * dataByte : n \in 0 .. ((nBanks + 1) * sizeBank) \div dataByte - 1}

---------------------------------------------------------------------------
(* What the compiler emits.  A load starts at a word, stays in its block   *)
(* of the scratchpad and is not empty.  A load is marked fused if the next *)
(* one brings the same data of the same task; the loads of such a run go   *)
(* to IO blocks, thus banks, of their own.                                 *)
LoadCmd == [remote_addr : Nat, spad_addr : Nat, total_len : 1 .. 2^lgMaxDataLen - 1,
            fused : BOOLEAN, id : Nat]

InItsBlock(load) ==
  \A k \in 0 .. Words(load.total_len) - 1 :
    /\ load.spad_addr + k * dataByte \in SpadWords
    /\ Spad!Bank(load.spad_addr + k * dataByte) = Spad!Bank(load.spad_addr)

SameSource(load, other) ==
  /\ load.remote_addr = other.remote_addr /\ load.total_len = other.total_len
  /\ load.id = other.id

FusedRun(p, first, last) == \A k \in first .. last - 1 : p[k].fused

ASSUME ProgramsAssumption ==
  \A p \in Programs :
    /\ p \in Seq(LoadCmd)
    /\ \A k \in 1 .. Len(p) : InItsBlock(p[k])
    /\ \A k \in 1 .. Len(p) - 1 : p[k].fused => SameSource(p[k], p[k + 1])
    /\ \A first, last \in 1 .. Len(p) :
         first < last /\ last - first < spadAddrNum /\ FusedRun(p, first, last) =>
           /\ Spad!Bank(p[first].spad_addr) < nBanks /\ Spad!Bank(p[last].spad_addr) < nBanks
           /\ Spad!Bank(p[first].spad_addr) # Spad!Bank(p[last].spad_addr)

---------------------------------------------------------------------------
Init ==
  /\ LC!Init /\ Spad!Init
  /\ banks = [w \in SpadWords |-> Blank] /\ owed = <<>>
  /\ program \in Programs /\ accepted = 0 /\ answered = 0 /\ transfers = <<>>

RequestStep(offered, dmaReady) ==
  /\ \/ offered /\ LC!Accept(program[accepted + 1])
     \/ ~offered /\ LC!ServeRequest(dma_req_fire(dmaReady))
  /\ accepted' = IF offered THEN accepted + 1 ELSE accepted
  /\ LC!SpadReqQue(dma_req_fire(dmaReady), spad_req_fire)

PortStep(shown) ==
  /\ IF spad_req_fire
     THEN LET r == Head(spadReqQue) IN Spad!Accept(r.addrs, r.num, r.len)
     ELSE Spad!Serve(LC!spad_exp_req, stream_fire(shown))
  /\ Spad!ExpAck(LC!spad_exp_req)
  /\ banks' = IF stream_fire(shown)
              THEN [w \in SpadWords |-> IF w \in Spad!WordsWritten THEN Head(owed)
                                        ELSE banks[w]]
              ELSE banks

\* The DMA takes a request and will carry n words of it, and if these are
\* not all, an exception.
DMAStep(dmaReady, n, shown) ==
  LET rest == IF stream_fire(shown) \/ (exp_req(shown) /\ write_exp_ack)
              THEN Tail(owed) ELSE owed
  IN  owed' = IF dma_req_fire(dmaReady)
              THEN rest \o WordsFrom(remote_addr, n)
                        \o (IF n < Words(total_len) THEN <<Raised>> ELSE <<>>)
              ELSE rest

\* The reservation station takes every answer.
Answer ==
  /\ answered' = IF LC!core_resp_valid THEN answered + 1 ELSE answered
  /\ UNCHANGED program

Transfers(dmaReady) ==
  LET rest == IF spadState = "s_resp" THEN Tail(transfers) ELSE transfers
      before == IF transfers = <<>> THEN answered ELSE transfers[Len(transfers)].last
  IN  transfers' = IF dma_req_fire(dmaReady)
                   THEN Append(rest, [first |-> before + 1, last |-> accepted])
                   ELSE rest

Cycle(offered, dmaReady, n, shown) ==
  /\ RequestStep(offered, dmaReady)
  /\ LC!StreamSide(spad_req_fire, exp_req(shown), stream_fire(shown), write_exp_ack, TRUE)
  /\ PortStep(shown)
  /\ DMAStep(dmaReady, n, shown)
  /\ Answer /\ Transfers(dmaReady)

When(cond) == IF cond THEN BOOLEAN ELSE {FALSE}

Next ==
  \E offered  \in When(accepted < Len(program) /\ LC!core_req_ready),
     dmaReady \in When(LC!dma_req_valid),
     \* the DMA may pause between words, and holds an exception once shown
     shown    \in IF spadState = "s_exp" THEN {TRUE} ELSE When(owed # <<>> /\ LC!streaming) :
  \E n \in IF TLBMayMiss /\ dmaReady THEN 0 .. Words(total_len) ELSE {Words(total_len)} :
    Cycle(offered, dmaReady, n, shown)

Spec == Init /\ [][Next]_vars

(* The clock keeps ticking; the DMA and the reservation station do not     *)
(* both withhold for ever what the others wait for.                        *)
FairSpec == Spec /\ WF_vars(Next)

---------------------------------------------------------------------------
(* Properties. *)

(* Registers hold values of their width, and the blocks agree on whether a *)
(* transfer is under way.                                                  *)
TypeOK ==
  /\ state \in {"s_idle", "s_dma_req"}
  /\ spadState \in {"s_spad_req", "s_spad_stream", "s_exp", "s_pre_resp", "s_resp"}
  /\ spad_addrs \in [LC!AddrIdx -> Nat] /\ addr_num \in LC!AddrIdx /\ leftNum \in LC!AddrIdx
  /\ total_len \in 0 .. 2^lgMaxDataLen - 1 /\ leftLen \in 0 .. 2^lgMaxDataLen - 1
  /\ Len(spadReqQue) <= reqQueDepth
  /\ writeAddrs \in [LC!AddrIdx -> Nat] /\ writeAddrNum \in LC!AddrIdx /\ writeMaxAddr \in Nat
  /\ writeState \in {"s_write_idle", "s_write_data"} /\ write_exp_ack \in BOOLEAN
  /\ answered <= accepted /\ accepted <= Len(program)

(* "generate (n-1) responses in advance": every load is answered once, in  *)
(* the order in which they were taken and with its id, and the last of a   *)
(* transfer not before the transfer is over.                               *)
AnswersInOrder ==
  LC!core_resp_valid =>
    /\ transfers # <<>>
    /\ spadReqId = program[answered + 1].id
    /\ IF spadState = "s_pre_resp"
       THEN answered + 1 \in Head(transfers).first .. Head(transfers).last - 1
       ELSE answered + 1 = Head(transfers).last

(* The data of a load, in the scratchpad. *)
Loaded(load) ==
  \A k \in 0 .. Words(load.total_len) - 1 :
    banks[load.spad_addr + k * dataByte] = load.remote_addr + k * dataByte

(* The answer to the last load of a transfer, if it reports success, means *)
(* that the data of all its loads are in place: the execution that waits   *)
(* for the answers finds them.                                             *)
LoadedWhenAnswered ==
  spadState = "s_resp" /\ success =>
    \A k \in Head(transfers).first .. Head(transfers).last : Loaded(program[k])

(* Nothing is written but to where a load puts it.                         *)
OnlyLoads ==
  \A w \in SpadWords :
    banks[w] # Blank =>
      \E k \in 1 .. accepted :
        /\ w - program[k].spad_addr \in 0 .. program[k].total_len - 1
        /\ banks[w] = program[k].remote_addr + (w - program[k].spad_addr)

(* Every program of loads is answered to its end.                          *)
Progress == <>[](answered = Len(program))
=============================================================================
