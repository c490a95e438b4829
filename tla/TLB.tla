-------------------------------- MODULE TLB --------------------------------
(***************************************************************************)
(* The translation buffers of the DMA (cgra-mg/.../soc/MultiPortTLB.scala, *)
(* instantiated at DMA.scala:712): the ports of the two DMA controllers,   *)
(* the arbiter before a shared buffer, the wrapper that repeats a lookup   *)
(* which failed, and rocket's TLB as the wrapper uses it.  The core may    *)
(* flush in any cycle, since a FLUSH does not wait for the commands before *)
(* it.  A step is a clock cycle.                                           *)
(*                                                                         *)
(* A translation is named by the page it is of.  The status that travels   *)
(* with a request, the same for all, is left out.                          *)
(***************************************************************************)
EXTENDS Integers, FiniteSets, FiniteSetsExt

CONSTANTS
  Builds,     (* Values of useSharedTLB.                                    *)
  nSlaves,    (* 2: the reader is port 0, the writer port 1.                *)
  Pages, NoPage,
  Denied,     (* The pages whose entry forbids the access of each port.     *)
  nWays

Slaves == 0 .. nSlaves - 1

ASSUME TLBAssumption ==
  /\ nSlaves \in Nat \ {0} /\ nWays \in Nat \ {0}
  /\ NoPage \notin Pages /\ Builds \subseteq BOOLEAN
  /\ Denied \in [Slaves -> SUBSET Pages]

VARIABLES
  shared,             \* useSharedTLB: one buffer, of index 0
  dma, vaddr,         \* the DMA controllers: state, page on the request port
  slave,              \* state of each port
  lastGrant,          \* of the arbiter, a register without reset
  state, retried, req_reg, interrupt,      \* wrappers
  rocket, tag, entries,                    \* rocket's TLBs
  flushedIn           \* history: the lookups of the request in hand, 1 or 2,
                      \* that a flush fell into

vars == <<shared, dma, vaddr, slave, lastGrant, state, retried, req_reg,
          interrupt, rocket, tag, entries, flushedIn>>

Tlbs     == IF shared THEN {0} ELSE Slaves
tlbOf(i) == IF shared THEN 0 ELSE i

---------------------------------------------------------------------------
(* Wires. *)
Asking  == {i \in Slaves : dma[i] = "s_tlb_req"}
Bits(i) == [vaddr |-> vaddr[i], cmd |-> i]

\* The round-robin arbiter: the first that asks behind the last one served;
\* the last port when nobody asks.
chosen ==
  LET behind == {i \in Asking : i > lastGrant} IN
  IF behind # {} THEN Min(behind) ELSE IF Asking # {} THEN Min(Asking) ELSE nSlaves - 1

\* The request side of a wrapper.
in_valid(t) == IF shared THEN Asking # {} ELSE t \in Asking
in_bits(t)  == Bits(IF shared THEN chosen ELSE t)

tlb_ready(t)    == rocket[t] = "s_ready"
tlb_req_fire(t) ==
  ((state[t] = "s_idle" /\ in_valid(t)) \/ state[t] = "s_retry") /\ tlb_ready(t)

\* Mutant of req: what is on the port is looked up in every cycle.
Bug_req(t) == in_bits(t)

req(t) == IF tlb_req_fire(t) THEN in_bits(t) ELSE req_reg[t]

miss(t)      == req(t).vaddr \notin entries[t]
exception(t) == ~miss(t) /\ req(t).vaddr \in Denied[req(t).cmd]

\* Mutant of Answerable: a lookup that failed is not repeated.
Bug_Answerable(t) == tlb_ready(t)

Answerable(t) == tlb_ready(t) /\ (~miss(t) \/ retried[t])
resp_valid(t) == state[t] = "s_resp" /\ Answerable(t)

req_fire(i)  ==
  /\ i \in Asking /\ state[tlbOf(i)] = "s_idle" /\ tlb_ready(tlbOf(i))
  /\ shared => i = chosen
slaveRespReady(i) == slave[i] = "s_resp" /\ dma[i] = "s_tlb_resp"
resp_fire(i)      == slaveRespReady(i) /\ resp_valid(tlbOf(i))
resp_ready(t)     == \E i \in Slaves : tlbOf(i) = t /\ slaveRespReady(i)

---------------------------------------------------------------------------
(* TLBWrap. *)
StateNext(t) ==
  CASE state[t] = "s_idle" /\ tlb_req_fire(t)                        -> "s_resp"
    [] state[t] = "s_resp" /\ resp_valid(t) /\ resp_ready(t)         -> "s_idle"
    [] state[t] = "s_resp" /\ tlb_ready(t) /\ miss(t) /\ ~retried[t] -> "s_retry"
    [] state[t] = "s_retry" /\ tlb_req_fire(t)                       -> "s_resp"
    [] OTHER                                                         -> state[t]

\* Mutant of RetriedNext: a lookup is repeated again and again.
Bug_RetriedNext(t) == FALSE

RetriedNext(t) == IF tlb_req_fire(t) THEN state[t] = "s_retry" ELSE retried[t]

InterruptNext(t, flush) ==
  IF interrupt[t] /\ flush THEN FALSE
  ELSE interrupt[t] \/ (state[t] = "s_resp" /\ tlb_ready(t) /\ exception(t))

WrapStep(flush) ==
  /\ state'     = [t \in Slaves |-> IF t \in Tlbs THEN StateNext(t) ELSE state[t]]
  /\ retried'   = [t \in Slaves |-> IF t \in Tlbs THEN RetriedNext(t) ELSE FALSE]
  /\ req_reg'   = [t \in Slaves |-> IF t \in Tlbs THEN req(t) ELSE req_reg[t]]
  /\ interrupt' = [t \in Slaves |-> t \in Tlbs /\ InterruptNext(t, flush)]
  /\ flushedIn' = [t \in Slaves |->
       IF t \notin Tlbs \/ StateNext(t) = "s_idle" THEN {}
       ELSE flushedIn[t] \cup (IF flush THEN {IF retried'[t] THEN 2 ELSE 1} ELSE {})]

---------------------------------------------------------------------------
(* Rocket's TLB.  A lookup that misses starts a walk; a flush empties the  *)
(* buffer, calls off a walk the walker has not taken and voids the result  *)
(* of one it has.  A full buffer loses an entry.                           *)
RocketNext(t, flush, ptwReady, ptwResp) ==
  CASE rocket[t] = "s_ready" /\ tlb_req_fire(t) /\ miss(t) -> "s_request"
    [] rocket[t] = "s_request" /\ ptwReady -> IF flush THEN "s_wait_invalidate" ELSE "s_wait"
    [] rocket[t] = "s_request" /\ ~ptwReady /\ flush -> "s_ready"
    [] rocket[t] \in {"s_wait", "s_wait_invalidate"} /\ ptwResp -> "s_ready"
    [] rocket[t] = "s_wait" /\ ~ptwResp /\ flush -> "s_wait_invalidate"
    [] OTHER -> rocket[t]

Refilled(t, flush, ptwResp) == rocket[t] = "s_wait" /\ ptwResp /\ ~flush

EntriesNext(t, flush, ptwResp) ==
  CASE flush -> {{}}
    [] Refilled(t, flush, ptwResp) ->
         {{tag[t]} \cup kept : kept \in {s \in SUBSET entries[t] :
            Cardinality(s) = Min({Cardinality(entries[t]), nWays - 1})}}
    [] OTHER -> {entries[t]}

RocketStep(flush, ptwReady, ptwResp) ==
  /\ rocket' = [t \in Slaves |-> IF t \in Tlbs THEN RocketNext(t, flush, t \in ptwReady, t \in ptwResp)
                                 ELSE rocket[t]]
  /\ tag' = [t \in Slaves |-> IF t \in Tlbs /\ tlb_req_fire(t) /\ miss(t) THEN req(t).vaddr ELSE tag[t]]
  /\ \E new \in [Slaves -> SUBSET Pages] :
       /\ \A t \in Tlbs : new[t] \in EntriesNext(t, flush, t \in ptwResp)
       /\ \A t \in Slaves \ Tlbs : new[t] = entries[t]
       /\ entries' = new

---------------------------------------------------------------------------
(* MultiPortTLB and the controllers at its ports.  wants is the page a     *)
(* controller that is not about a translation turns to, if any.            *)
SlaveNext(i) ==
  CASE slave[i] = "s_idle" /\ req_fire(i)  -> "s_resp"
    [] slave[i] = "s_resp" /\ resp_fire(i) -> "s_idle"
    [] OTHER                               -> slave[i]

DmaNext(i, wants) ==
  CASE dma[i] = "s_other" /\ wants[i] \in Pages -> "s_tlb_req"
    [] dma[i] = "s_tlb_req" /\ req_fire(i)      -> "s_tlb_resp"
    [] dma[i] = "s_tlb_resp" /\ resp_fire(i)    -> "s_other"
    [] OTHER                                    -> dma[i]

PortStep(wants) ==
  /\ slave' = [i \in Slaves |-> SlaveNext(i)]
  /\ dma'   = [i \in Slaves |-> DmaNext(i, wants)]
  /\ vaddr' = [i \in Slaves |-> IF dma[i] = "s_other" /\ wants[i] \in Pages THEN wants[i] ELSE vaddr[i]]
  /\ lastGrant' = IF shared /\ \E i \in Slaves : req_fire(i) THEN chosen ELSE lastGrant

Init ==
  /\ shared \in Builds
  /\ dma = [i \in Slaves |-> "s_other"] /\ vaddr \in [Slaves -> Pages]
  /\ slave = [i \in Slaves |-> "s_idle"]
  /\ lastGrant \in Slaves /\ (~shared => lastGrant = 0)
  /\ state = [t \in Slaves |-> "s_idle"] /\ retried = [t \in Slaves |-> FALSE]
  /\ req_reg = [t \in Slaves |-> [vaddr |-> NoPage, cmd |-> 0]]
  /\ interrupt = [t \in Slaves |-> FALSE]
  /\ rocket = [t \in Slaves |-> "s_ready"] /\ tag = [t \in Slaves |-> NoPage]
  /\ entries = [t \in Slaves |-> {}]
  /\ flushedIn = [t \in Slaves |-> {}]

Cycle(wants, flush, ptwReady, ptwResp) ==
  /\ WrapStep(flush) /\ RocketStep(flush, ptwReady, ptwResp) /\ PortStep(wants)
  /\ UNCHANGED shared

Walking  == {t \in Tlbs : rocket[t] = "s_request"}
Awaiting == {t \in Tlbs : rocket[t] \in {"s_wait", "s_wait_invalidate"}}
Wishes   ==
  {w \in [Slaves -> Pages \cup {NoPage}] : \A i \in Slaves : dma[i] # "s_other" => w[i] = NoPage}

Next == \E wants \in Wishes, flush \in BOOLEAN,
           ptwReady \in SUBSET Walking, ptwResp \in SUBSET Awaiting :
          Cycle(wants, flush, ptwReady, ptwResp)

Spec == Init /\ [][Next]_vars

\* The walker takes a walk and ends one again and again; the core may flush
\* as often as it likes.
WalkerServes == \E wants \in Wishes, flush \in BOOLEAN : Cycle(wants, flush, Walking, Awaiting)

FairSpec == Spec /\ WF_vars(WalkerServes)

---------------------------------------------------------------------------
(***************************************************************************)
(* "keep io.req.bits before the next fire": what a controller is answered  *)
(* is the translation of the address it asked for, whatever the other one  *)
(* puts on its port meanwhile.                                             *)
(***************************************************************************)
AnswersItsRequest ==
  \A i \in Slaves : resp_fire(i) /\ ~miss(tlbOf(i)) => req(tlbOf(i)).vaddr = vaddr[i]

(***************************************************************************)
(* The same where the repeated lookup takes the bits of no other port: in  *)
(* a buffer of one's own, or at the first lookup of a shared one, of which *)
(* the answer goes to the one port that waits, although the ready of the   *)
(* wrapper is that of any (MultiPortTLB.scala:196, 222-224).               *)
(***************************************************************************)
FirstLookupAnswersIt ==
  \A i \in Slaves :
    /\ resp_fire(i) /\ ~miss(tlbOf(i)) /\ (shared => ~retried[0]) => req(tlbOf(i)) = Bits(i)
    /\ \A j \in Slaves : shared /\ resp_fire(i) /\ resp_fire(j) => i = j

(***************************************************************************)
(* A controller is told of a miss, which ends its request with an          *)
(* exception, only when a flush fell into both of its lookups              *)
(* (MultiPortTLB.scala:103-107, DMA.scala:332): one flush, or a page that  *)
(* is not in the buffer, never costs a command.                            *)
(***************************************************************************)
MissOnlyIfFlushed ==
  \A t \in Tlbs : resp_valid(t) /\ miss(t) => flushedIn[t] = {1, 2}

(***************************************************************************)
(* Every request is answered, however often the core flushes and the other *)
(* controller asks: a lookup is repeated once, and the arbiter goes round. *)
(***************************************************************************)
EveryRequestAnswered ==
  \A i \in Slaves : dma[i] = "s_tlb_req" ~> dma[i] = "s_other"
=============================================================================
