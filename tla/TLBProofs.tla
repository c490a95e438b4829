----------------------------- MODULE TLBProofs -----------------------------
(***************************************************************************)
(* What the safety of TLB rests on, for any number of ports, pages and     *)
(* ways, shared or private.                                                *)
(***************************************************************************)
EXTENDS TLB, TLAPS

Types ==
  /\ shared \in Builds
  /\ dma \in [Slaves -> {"s_other", "s_tlb_req", "s_tlb_resp"}]
  /\ vaddr \in [Slaves -> Pages]
  /\ slave \in [Slaves -> {"s_idle", "s_resp"}]
  /\ state \in [Slaves -> {"s_idle", "s_resp", "s_retry"}]
  /\ retried \in [Slaves -> BOOLEAN]
  /\ rocket \in [Slaves -> {"s_ready", "s_request", "s_wait", "s_wait_invalidate"}]
  /\ entries \in [Slaves -> SUBSET Pages]
  /\ flushedIn \in [Slaves -> SUBSET {1, 2}]

\* A port waits when its controller does, and then its buffer is at work for
\* it alone.
Waiting ==
  /\ \A i \in Slaves : slave[i] = "s_resp" <=> dma[i] = "s_tlb_resp"
  /\ \A i \in Slaves : slave[i] = "s_resp" => state[tlbOf(i)] # "s_idle"
  /\ \A i, j \in Slaves : shared /\ slave[i] = "s_resp" /\ slave[j] = "s_resp" => i = j

\* The request of the first lookup is kept, and so is any in a private buffer.
Kept ==
  \A i \in Slaves :
    slave[i] = "s_resp" /\ (shared => ~retried[0]) => req_reg[tlbOf(i)] = Bits(i)

Lookup(t) == IF retried[t] THEN 2 ELSE 1

\* Why a lookup may fail: only a flush takes away what its walk brings.
Spoilt ==
  \A t \in Tlbs :
    /\ state[t] # "s_resp" => rocket[t] = "s_ready"
    /\ rocket[t] \in {"s_request", "s_wait"} => tag[t] = req_reg[t].vaddr
    /\ rocket[t] = "s_wait_invalidate" => Lookup(t) \in flushedIn[t]
    /\ state[t] = "s_resp" /\ rocket[t] = "s_ready" /\ req_reg[t].vaddr \notin entries[t]
         => Lookup(t) \in flushedIn[t]
    /\ state[t] = "s_retry" \/ (state[t] = "s_resp" /\ retried[t]) => 1 \in flushedIn[t]

Inv == Types /\ Waiting /\ Kept /\ Spoilt

---------------------------------------------------------------------------
(***************************************************************************)
(* Every port has a buffer (tlbOf is the map of MultiPortTLB.scala:180).   *)
(***************************************************************************)
LEMMA Buffers == /\ Tlbs \subseteq Slaves
                 /\ \A i \in Slaves : tlbOf(i) \in Tlbs
BY TLBAssumption DEF Tlbs, tlbOf, Slaves

(***************************************************************************)
(* A wrapper whose lookup is under way keeps the request it took           *)
(* (MultiPortTLB.scala:117).                                               *)
(***************************************************************************)
LEMMA Holds == \A t : state[t] = "s_resp" => ~tlb_req_fire(t) /\ req(t) = req_reg[t]
BY DEF tlb_req_fire, req

(***************************************************************************)
(* A wrapper goes idle only by answering a port that waits.                *)
(***************************************************************************)
LEMMA IdleByAnswer ==
  ASSUME NEW t, state[t] # "s_idle", StateNext(t) = "s_idle"
  PROVE  state[t] = "s_resp" /\ resp_valid(t) /\ resp_ready(t)
BY DEF StateNext

(***************************************************************************)
(* A port whose request is taken has its own bits looked up, and the       *)
(* wrapper leaves idle for it (MultiPortTLB.scala:90-101, 194).            *)
(***************************************************************************)
LEMMA Taken ==
  ASSUME NEW i \in Slaves, req_fire(i)
  PROVE  /\ StateNext(tlbOf(i)) = "s_resp" /\ ~RetriedNext(tlbOf(i))
         /\ req(tlbOf(i)) = Bits(i)
<1>1. tlb_req_fire(tlbOf(i))
  BY DEF req_fire, tlb_req_fire, in_valid, tlbOf
<1>2. in_bits(tlbOf(i)) = Bits(i)
  BY DEF req_fire, in_bits, tlbOf
<1> QED BY <1>1, <1>2 DEF req_fire, StateNext, RetriedNext, req

---------------------------------------------------------------------------
(***************************************************************************)
(* A cycle keeps the types.                                                *)
(***************************************************************************)
LEMMA TypesStep ==
  ASSUME Inv, NEW wants \in Wishes, NEW flush \in BOOLEAN, NEW ptwReady, NEW ptwResp,
         Cycle(wants, flush, ptwReady, ptwResp)
  PROVE  Types'
<1> USE TLBAssumption DEF Inv, Types
<1>1. WrapStep(flush) /\ RocketStep(flush, ptwReady, ptwResp) /\ PortStep(wants) /\ shared' = shared
  BY DEF Cycle
<1>2. dma' \in [Slaves -> {"s_other", "s_tlb_req", "s_tlb_resp"}]
  BY <1>1 DEF PortStep, DmaNext
<1>3. vaddr' \in [Slaves -> Pages]
  BY <1>1 DEF PortStep
<1>4. slave' \in [Slaves -> {"s_idle", "s_resp"}]
  BY <1>1 DEF PortStep, SlaveNext
<1>5. state' \in [Slaves -> {"s_idle", "s_resp", "s_retry"}]
  BY <1>1 DEF WrapStep, StateNext
<1>6. retried' \in [Slaves -> BOOLEAN]
  BY <1>1 DEF WrapStep, RetriedNext
<1>7. rocket' \in [Slaves -> {"s_ready", "s_request", "s_wait", "s_wait_invalidate"}]
  BY <1>1 DEF RocketStep, RocketNext
<1>8. entries' \in [Slaves -> SUBSET Pages]
  BY <1>1 DEF RocketStep
<1>9. flushedIn' \in [Slaves -> SUBSET {1, 2}]
  <2> DEFINE now(t) == IF flush THEN {IF retried'[t] THEN 2 ELSE 1} ELSE {}
  <2>1. flushedIn' = [t \in Slaves |-> IF t \notin Tlbs \/ StateNext(t) = "s_idle" THEN {}
                                       ELSE flushedIn[t] \cup now(t)]
    BY <1>1 DEF WrapStep
  <2>2. \A t \in Slaves : now(t) \in SUBSET {1, 2}
    OBVIOUS
  <2> QED BY <2>1, <2>2
<1> QED BY <1>1, <1>2, <1>3, <1>4, <1>5, <1>6, <1>7, <1>8, <1>9

(***************************************************************************)
(* A cycle keeps each buffer at work for the one port that waits.          *)
(***************************************************************************)
LEMMA WaitingStep ==
  ASSUME Inv, NEW wants \in Wishes, NEW flush \in BOOLEAN, NEW ptwReady, NEW ptwResp,
         Cycle(wants, flush, ptwReady, ptwResp)
  PROVE  Waiting'
<1>1. Types /\ Waiting
  BY DEF Inv
<1>2. /\ \A i \in Slaves : slave'[i] = SlaveNext(i) /\ dma'[i] = DmaNext(i, wants)
      /\ \A t \in Tlbs : state'[t] = StateNext(t)
      /\ shared' = shared
  BY Buffers DEF Cycle, PortStep, WrapStep
<1>3. \A i \in Slaves : tlbOf(i)' = tlbOf(i)
  BY <1>2 DEF tlbOf
<1>4. ASSUME NEW i \in Slaves PROVE slave'[i] = "s_resp" <=> dma'[i] = "s_tlb_resp"
  <2>1. req_fire(i) => dma[i] = "s_tlb_req"
    BY DEF req_fire, Asking
  <2>2. \/ slave[i] = "s_idle" /\ dma[i] = "s_tlb_req"
        \/ slave[i] = "s_idle" /\ dma[i] = "s_other"
        \/ slave[i] = "s_resp" /\ dma[i] = "s_tlb_resp"
    BY <1>1 DEF Types, Waiting
  <2> QED BY <1>2, <2>1, <2>2 DEF SlaveNext, DmaNext
<1>5. ASSUME NEW i \in Slaves, slave'[i] = "s_resp"
      PROVE  \/ req_fire(i)
             \/ slave[i] = "s_resp" /\ ~resp_fire(i)
  BY <1>1, <1>2, <1>5 DEF Types, SlaveNext
<1>6. ASSUME NEW i \in Slaves, slave[i] = "s_resp", ~resp_fire(i)
      PROVE  StateNext(tlbOf(i)) # "s_idle"
  <2> SUFFICES ASSUME StateNext(tlbOf(i)) = "s_idle" PROVE FALSE
    OBVIOUS
  <2>1. state[tlbOf(i)] # "s_idle"
    BY <1>1, <1>6 DEF Waiting
  <2>2. resp_valid(tlbOf(i)) /\ resp_ready(tlbOf(i))
    BY <2>1, IdleByAnswer
  <2>3. PICK j \in Slaves : tlbOf(j) = tlbOf(i) /\ slaveRespReady(j)
    BY <2>2 DEF resp_ready
  <2>4. i = j
    BY <1>1, <1>6, <2>3 DEF Waiting, slaveRespReady, tlbOf
  <2> QED BY <1>6, <2>2, <2>3, <2>4 DEF resp_fire
<1>7. ASSUME NEW i \in Slaves, slave'[i] = "s_resp" PROVE state'[tlbOf(i)] # "s_idle"
  BY <1>2, <1>5, <1>6, <1>7, Taken, Buffers
<1>8. ASSUME NEW i \in Slaves, NEW j \in Slaves, shared, slave'[i] = "s_resp", slave'[j] = "s_resp"
      PROVE  i = j
  <2>1. CASE req_fire(i) /\ req_fire(j)
    BY <1>8, <2>1 DEF req_fire
  <2>2. ASSUME NEW k \in Slaves, NEW l \in Slaves, req_fire(k), slave[l] = "s_resp" PROVE FALSE
    BY <1>1, <1>8, <2>2 DEF req_fire, Waiting, tlbOf
  <2>3. CASE slave[i] = "s_resp" /\ slave[j] = "s_resp"
    BY <1>1, <1>8, <2>3 DEF Waiting
  <2> QED BY <1>5, <1>8, <2>1, <2>2, <2>3
<1> QED BY <1>2, <1>3, <1>4, <1>7, <1>8 DEF Waiting

(***************************************************************************)
(* A cycle keeps the request of a port that waits, until a shared buffer   *)
(* repeats the lookup (MultiPortTLB.scala:117).                            *)
(***************************************************************************)
LEMMA KeptStep ==
  ASSUME Inv, NEW wants \in Wishes, NEW flush \in BOOLEAN, NEW ptwReady, NEW ptwResp,
         Cycle(wants, flush, ptwReady, ptwResp)
  PROVE  Kept'
<1>1. Types /\ Waiting /\ Kept
  BY DEF Inv
<1>2. /\ \A i \in Slaves : slave'[i] = SlaveNext(i)
      /\ \A i \in Slaves : dma[i] # "s_other" => vaddr'[i] = vaddr[i]
      /\ \A t \in Tlbs : req_reg'[t] = req(t) /\ retried'[t] = RetriedNext(t)
      /\ shared' = shared
  BY Buffers DEF Cycle, PortStep, WrapStep
<1>3. \A i \in Slaves : tlbOf(i)' = tlbOf(i)
  BY <1>2 DEF tlbOf
<1> SUFFICES ASSUME NEW i \in Slaves, slave'[i] = "s_resp", shared => ~retried'[0]
             PROVE  req(tlbOf(i)) = Bits(i) /\ dma[i] # "s_other"
  BY <1>2, <1>3, Buffers DEF Kept, Bits
<1>4. CASE req_fire(i)
  BY <1>4, Taken DEF req_fire, Asking
<1>5. CASE slave[i] = "s_resp"
  <2>1. dma[i] # "s_other" /\ state[tlbOf(i)] # "s_idle"
    BY <1>1, <1>5 DEF Waiting
  <2>2. CASE tlb_req_fire(tlbOf(i))
    <3>1. state[tlbOf(i)] = "s_retry"
      BY <2>1, <2>2 DEF tlb_req_fire
    <3>2. ~shared
      BY <1>2, <2>2, <3>1, Buffers DEF RetriedNext, tlbOf
    <3> QED BY <2>1, <2>2, <3>2 DEF req, in_bits, tlbOf
  <2>3. CASE ~tlb_req_fire(tlbOf(i))
    <3>1. shared => ~retried[0]
      BY <1>2, <2>3, Buffers DEF RetriedNext, tlbOf
    <3> QED BY <1>1, <1>5, <2>1, <2>3, <3>1 DEF Kept, req
  <2> QED BY <2>2, <2>3
<1> QED BY <1>1, <1>2, <1>4, <1>5 DEF Types, SlaveNext

(***************************************************************************)
(* The steps of rocket's TLB, as the wrapper sees them.                    *)
(***************************************************************************)
LEMMA RocketMoves ==
  ASSUME NEW t, NEW flush \in BOOLEAN, NEW ptwReady, NEW ptwResp,
         NEW next, next = RocketNext(t, flush, t \in ptwReady, t \in ptwResp)
  PROVE
    /\ rocket[t] = "s_ready" =>
         next = IF tlb_req_fire(t) /\ miss(t) THEN "s_request" ELSE "s_ready"
    /\ rocket[t] = "s_request" /\ ~flush => next \in {"s_request", "s_wait"}
    /\ rocket[t] = "s_wait" /\ ~flush => next = IF t \in ptwResp THEN "s_ready" ELSE "s_wait"
    /\ rocket[t] \notin {"s_ready", "s_request", "s_wait"} =>
         next \notin {"s_request", "s_wait"}
    /\ next = "s_wait_invalidate" => rocket[t] = "s_wait_invalidate" \/ flush
<1>1. CASE rocket[t] = "s_ready"
  <2>1. next = IF tlb_req_fire(t) /\ miss(t) THEN "s_request" ELSE "s_ready"
    BY <1>1, Zenon DEF RocketNext
  <2> QED BY <1>1, <2>1
<1>2. CASE rocket[t] = "s_request"
  <2>1. t \in ptwReady => next = IF flush THEN "s_wait_invalidate" ELSE "s_wait"
    BY <1>2, Zenon DEF RocketNext
  <2>2. t \notin ptwReady => next = IF flush THEN "s_ready" ELSE "s_request"
    BY <1>2, Zenon DEF RocketNext
  <2> QED BY <1>2, <2>1, <2>2
<1>3. CASE rocket[t] = "s_wait"
  <2>1. t \in ptwResp => next = "s_ready"
    BY <1>3, Zenon DEF RocketNext
  <2>2. t \notin ptwResp => next = IF flush THEN "s_wait_invalidate" ELSE "s_wait"
    BY <1>3, Zenon DEF RocketNext
  <2> QED BY <1>3, <2>1, <2>2
<1>4. CASE rocket[t] \notin {"s_ready", "s_request", "s_wait"}
  <2>1. next \in {rocket[t], "s_ready"}
    BY <1>4, Zenon DEF RocketNext
  <2> QED BY <1>4, <2>1
<1> QED BY <1>1, <1>2, <1>3, <1>4

(***************************************************************************)
(* The steps of a wrapper: what brings it where it is.                     *)
(***************************************************************************)
LEMMA WrapperMoves ==
  ASSUME NEW t
  PROVE
    /\ tlb_req_fire(t) => StateNext(t) = "s_resp"
    /\ StateNext(t) = "s_resp" => tlb_req_fire(t) \/ state[t] = "s_resp"
    /\ StateNext(t) = "s_retry" =>
         \/ state[t] = "s_resp" /\ tlb_ready(t) /\ miss(t) /\ ~retried[t]
         \/ state[t] = "s_retry"
    /\ state[t] = "s_resp" /\ StateNext(t) # "s_resp" => tlb_ready(t)
<1>1. tlb_req_fire(t) => StateNext(t) = "s_resp"
  BY DEF StateNext, tlb_req_fire
<1>2. StateNext(t) = "s_resp" => tlb_req_fire(t) \/ state[t] = "s_resp"
  BY DEF StateNext
<1>3. StateNext(t) = "s_retry" =>
         \/ state[t] = "s_resp" /\ tlb_ready(t) /\ miss(t) /\ ~retried[t]
         \/ state[t] = "s_retry"
  BY DEF StateNext
<1>4. state[t] = "s_resp" /\ StateNext(t) # "s_resp" => tlb_ready(t)
  BY DEF StateNext, resp_valid, Answerable
<1> QED BY <1>1, <1>2, <1>3, <1>4

(***************************************************************************)
(* A cycle keeps the reasons for which a lookup may fail: what a walk      *)
(* brings is there for the lookup that asked for it, unless a flush fell   *)
(* in between (MultiPortTLB.scala:103-107).                                *)
(***************************************************************************)
LEMMA SpoiltStep ==
  ASSUME Inv, NEW wants \in Wishes, NEW flush \in BOOLEAN, NEW ptwReady, NEW ptwResp,
         Cycle(wants, flush, ptwReady, ptwResp)
  PROVE  Spoilt'
<1>1. Types /\ Spoilt /\ Tlbs' = Tlbs
  BY DEF Inv, Cycle, Tlbs
<1> SUFFICES ASSUME NEW t \in Tlbs
             PROVE
    /\ state'[t] # "s_resp" => rocket'[t] = "s_ready"
    /\ rocket'[t] \in {"s_request", "s_wait"} => tag'[t] = req_reg'[t].vaddr
    /\ rocket'[t] = "s_wait_invalidate" => Lookup(t)' \in flushedIn'[t]
    /\ state'[t] = "s_resp" /\ rocket'[t] = "s_ready" /\ req_reg'[t].vaddr \notin entries'[t]
         => Lookup(t)' \in flushedIn'[t]
    /\ state'[t] = "s_retry" \/ (state'[t] = "s_resp" /\ retried'[t]) => 1 \in flushedIn'[t]
  BY <1>1 DEF Spoilt
<1>t. t \in Slaves
  BY Buffers
<1>2. /\ state'[t] = StateNext(t) /\ retried'[t] = RetriedNext(t) /\ req_reg'[t] = req(t)
      /\ tag'[t] = IF tlb_req_fire(t) /\ miss(t) THEN req(t).vaddr ELSE tag[t]
      /\ rocket'[t] = RocketNext(t, flush, t \in ptwReady, t \in ptwResp)
      /\ entries'[t] \in EntriesNext(t, flush, t \in ptwResp)
  BY <1>t DEF Cycle, WrapStep, RocketStep
<1>r. /\ rocket[t] = "s_ready" =>
           rocket'[t] = IF tlb_req_fire(t) /\ miss(t) THEN "s_request" ELSE "s_ready"
      /\ rocket[t] = "s_request" /\ ~flush => rocket'[t] \in {"s_request", "s_wait"}
      /\ rocket[t] = "s_wait" /\ ~flush =>
           rocket'[t] = IF t \in ptwResp THEN "s_ready" ELSE "s_wait"
      /\ rocket[t] \notin {"s_ready", "s_request", "s_wait"} =>
           rocket'[t] \notin {"s_request", "s_wait"}
      /\ rocket'[t] = "s_wait_invalidate" => rocket[t] = "s_wait_invalidate" \/ flush
  BY <1>2, RocketMoves, Zenon
<1>3. /\ StateNext(t) # "s_idle" => flushedIn[t] \subseteq flushedIn'[t]
      /\ StateNext(t) # "s_idle" /\ flush => Lookup(t)' \in flushedIn'[t]
  BY <1>t DEF Cycle, WrapStep, Lookup
<1>4. ~tlb_req_fire(t) => Lookup(t)' = Lookup(t) /\ req_reg'[t] = req_reg[t] /\ tag'[t] = tag[t]
  BY <1>2 DEF Lookup, RetriedNext, req
<1>5. rocket[t] # "s_ready" => ~tlb_req_fire(t) /\ state[t] = "s_resp"
  BY <1>1 DEF tlb_req_fire, tlb_ready, Spoilt
<1>6. state'[t] # "s_resp" => rocket'[t] = "s_ready"
  <2>1. state'[t] # "s_resp" => rocket[t] = "s_ready" /\ ~tlb_req_fire(t)
    BY <1>1, <1>2, WrapperMoves DEF tlb_ready, Spoilt
  <2> QED BY <1>2, <2>1, <1>r
<1>7. rocket'[t] \in {"s_request", "s_wait"} => tag'[t] = req_reg'[t].vaddr
  <2>1. CASE rocket[t] = "s_ready"
    BY <1>2, <2>1, <1>r
  <2>2. CASE rocket[t] \in {"s_request", "s_wait"}
    BY <1>1, <1>4, <1>5, <2>2 DEF Spoilt
  <2>3. CASE rocket[t] \notin {"s_ready", "s_request", "s_wait"}
    BY <1>2, <2>3, <1>r
  <2> QED BY <2>1, <2>2, <2>3
<1>8. rocket'[t] = "s_wait_invalidate" => Lookup(t)' \in flushedIn'[t]
  <2> SUFFICES ASSUME rocket'[t] = "s_wait_invalidate" PROVE Lookup(t)' \in flushedIn'[t]
    OBVIOUS
  <2>1. StateNext(t) # "s_idle"
    BY <1>2, <1>6
  <2>2. rocket[t] = "s_wait_invalidate" \/ flush
    BY <1>2, <1>r
  <2> QED BY <1>1, <1>3, <1>4, <1>5, <2>1, <2>2 DEF Spoilt
<1>9. state'[t] = "s_resp" /\ rocket'[t] = "s_ready" /\ req_reg'[t].vaddr \notin entries'[t]
        => Lookup(t)' \in flushedIn'[t]
  <2> SUFFICES ASSUME state'[t] = "s_resp", rocket'[t] = "s_ready", ~flush,
                      req_reg'[t].vaddr \notin entries'[t]
               PROVE  Lookup(t)' \in flushedIn'[t]
    BY <1>2, <1>3
  <2>1. ~Refilled(t, flush, t \in ptwResp) => entries'[t] = entries[t]
    BY <1>2, Zenon DEF EntriesNext
  <2>2. CASE tlb_req_fire(t)
    <3>1. rocket[t] = "s_ready"
      BY <2>2 DEF tlb_req_fire, tlb_ready
    <3>2. entries'[t] = entries[t] /\ ~miss(t)
      BY <1>2, <2>1, <2>2, <3>1, <1>r DEF Refilled
    <3> QED BY <1>2, <3>2 DEF miss
  <2>3. CASE ~tlb_req_fire(t)
    <3>1. state[t] = "s_resp" /\ flushedIn[t] \subseteq flushedIn'[t]
      BY <1>2, <1>3, <2>3, WrapperMoves
    <3>2. CASE rocket[t] = "s_ready"
      BY <1>1, <1>4, <2>1, <2>3, <3>1, <3>2 DEF Spoilt, Refilled
    <3>3. CASE rocket[t] = "s_request"
      BY <1>2, <3>3, <1>r
    <3>4. CASE rocket[t] = "s_wait"
      <4>1. Refilled(t, flush, t \in ptwResp)
        BY <1>2, <3>4, <1>r DEF Refilled
      <4>2. tag[t] \in entries'[t]
        BY <1>2, <4>1 DEF EntriesNext
      <4> QED BY <1>1, <1>4, <2>3, <3>4, <4>2 DEF Spoilt
    <3>5. CASE rocket[t] = "s_wait_invalidate"
      BY <1>1, <1>4, <2>3, <3>1, <3>5 DEF Spoilt
    <3> QED BY <1>1, <1>t, <3>2, <3>3, <3>4, <3>5 DEF Types
  <2> QED BY <2>2, <2>3
<1>10. state'[t] = "s_retry" \/ (state'[t] = "s_resp" /\ retried'[t]) => 1 \in flushedIn'[t]
  <2>1. CASE state'[t] = "s_retry"
    <3>1. 1 \in flushedIn[t]
      BY <1>1, <1>2, <2>1, WrapperMoves, Holds DEF Spoilt, tlb_ready, miss, Lookup
    <3> QED BY <1>2, <1>3, <2>1, <3>1
  <2>2. CASE state'[t] = "s_resp" /\ retried'[t]
    <3>1. state[t] = "s_retry" \/ (state[t] = "s_resp" /\ retried[t])
      BY <1>2, <2>2, WrapperMoves DEF RetriedNext
    <3> QED BY <1>1, <1>2, <1>3, <2>2, <3>1 DEF Spoilt
  <2> QED BY <2>1, <2>2
<1> QED BY <1>6, <1>7, <1>8, <1>9, <1>10

---------------------------------------------------------------------------
(***************************************************************************)
(* The invariant holds of every state of MultiPortTLB.scala that can be    *)
(* reached.                                                                *)
(***************************************************************************)
LEMMA Invariance == Spec => []Inv
<1>1. Init => Inv
  <2> SUFFICES ASSUME Init PROVE Inv
    OBVIOUS
  <2>1. Types
    BY DEF Init, Types
  <2>2. Waiting /\ Kept
    BY DEF Init, Waiting, Kept
  <2>3. Spoilt
    BY Buffers DEF Init, Spoilt
  <2> QED BY <2>1, <2>2, <2>3 DEF Inv
<1>2. Inv /\ [Next]_vars => Inv'
  <2> SUFFICES ASSUME Inv, [Next]_vars PROVE Inv'
    OBVIOUS
  <2>1. CASE Next
    <3>1. PICK wants \in Wishes, flush \in BOOLEAN,
               ptwReady \in SUBSET Walking, ptwResp \in SUBSET Awaiting :
            Cycle(wants, flush, ptwReady, ptwResp)
      BY <2>1 DEF Next
    <3> QED BY <3>1, TypesStep, WaitingStep, KeptStep, SpoiltStep DEF Inv
  <2>2. CASE UNCHANGED vars
    BY <2>2 DEF vars, Inv, Types, Waiting, Kept, Spoilt, Lookup, Tlbs, tlbOf, Bits
  <2> QED BY <2>1, <2>2
<1> QED BY <1>1, <1>2, PTL DEF Spec

(***************************************************************************)
(* The answer of a first lookup, and any of a buffer of one's own, is of   *)
(* the request of the one port that waits (MultiPortTLB.scala:117, 196).   *)
(***************************************************************************)
THEOREM FirstLookups == Spec => []FirstLookupAnswersIt
<1>1. Inv => FirstLookupAnswersIt
  BY Holds DEF Inv, Waiting, Kept, FirstLookupAnswersIt, resp_fire, slaveRespReady, resp_valid
<1> QED BY <1>1, Invariance, PTL

(***************************************************************************)
(* A miss is told only of a request with a flush in both of its lookups    *)
(* (MultiPortTLB.scala:103-107).                                           *)
(***************************************************************************)
THEOREM MissesOnlyIfFlushed == Spec => []MissOnlyIfFlushed
<1>1. Inv => MissOnlyIfFlushed
  <2> SUFFICES ASSUME Inv, NEW t \in Tlbs, resp_valid(t), miss(t)
               PROVE  flushedIn[t] = {1, 2}
    BY DEF MissOnlyIfFlushed
  <2>1. state[t] = "s_resp" /\ rocket[t] = "s_ready" /\ retried[t]
    BY DEF resp_valid, Answerable, tlb_ready
  <2>2. 1 \in flushedIn[t] /\ 2 \in flushedIn[t]
    BY <2>1, Holds DEF Inv, Spoilt, Lookup, miss
  <2>3. flushedIn[t] \in SUBSET {1, 2}
    BY Buffers DEF Inv, Types
  <2> QED BY <2>2, <2>3
<1> QED BY <1>1, Invariance, PTL

(***************************************************************************)
(* Without tlb_is_shared every answer is of the request it is given to     *)
(* (MultiPortTLB.scala:166-174).                                           *)
(***************************************************************************)
THEOREM PrivateAnswers ==
  ASSUME Builds = {FALSE}
  PROVE  Spec => []AnswersItsRequest
<1>1. Inv => AnswersItsRequest
  <2> SUFFICES ASSUME Inv, NEW i \in Slaves, resp_fire(i) PROVE req(tlbOf(i)).vaddr = vaddr[i]
    BY DEF AnswersItsRequest
  <2>1. ~shared
    BY DEF Inv, Types
  <2>2. slave[i] = "s_resp" /\ req(tlbOf(i)) = req_reg[tlbOf(i)]
    BY Holds DEF resp_fire, slaveRespReady, resp_valid
  <2>3. req_reg[tlbOf(i)] = Bits(i)
    BY <2>1, <2>2 DEF Inv, Kept
  <2> QED BY <2>2, <2>3 DEF Bits
<1> QED BY <1>1, Invariance, PTL
=============================================================================
