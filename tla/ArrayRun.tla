------------------------------ MODULE ArrayRun ------------------------------
(***************************************************************************)
(* A mapped DFG on the array: LatencySchedule decides when everything      *)
(* happens, the configuration (Configuration::getGpeCfgData, getIobCfgData) *)
(* turns that into delays, accumulation parameters and the cycles in which *)
(* an IOB starts, and the blocks, with the registers of the routes between *)
(* them, carry it out, a cycle a step.                                     *)
(*                                                                         *)
(* The kernel is a loop nest of Iterations iterations, one per cycle.  A   *)
(* node of the DFG without operands is an INPUT, or a register that counts; *)
(* one without users is an OUTPUT or, with a second operand, a STORE.  The *)
(* controller of an IOB is reduced to the cycles it acts in and to the     *)
(* number of the address it generates; IOController has its counters.      *)
(***************************************************************************)
EXTENDS LatencySchedule, Blocks

CONSTANTS
  Iterations,
  LOAD,         \* the nodes that load from an address computed
  AddRegSram,   \* registers between the IOBs and their banks
  AccParams     \* what the accumulating nodes may be: functions of them to
                \* cycles, interval, repeats, accFirst (acc_params, acc_first)

\* The latencies of the operations are those the generator wrote.
ASSUME LatencyAssumption ==
  \A n \in Nodes :
    /\ n \in LOAD \/ (InEdges(n) = {} /\ \A p \in AccParams : n \notin DOMAIN p)
         => opLatency[n] = load_latency(AddRegSram)
    /\ OutEdges(n) = {} => opLatency[n] = store_latency(AddRegSram)

VARIABLES
  accParams,    \* of the DFG, fixed
  clock,        \* cycles since the start pulse, or Unset
  route,        \* edge -> the registers of its tracks
  rdu, acr,     \* of the blocks with a delay unit, of the processing elements
  divPipe,      \* the stages of the dividers
  iob,          \* registers of the IOBs
  stored        \* history: what the stores have written, in order

arrayVars == <<accParams, clock, route, rdu, acr, divPipe, iob, stored>>
---------------------------------------------------------------------------
Accs   == DOMAIN accParams
Loads  == {n \in Nodes \ Accs : InEdges(n) = {}} \cup LOAD
Stores == {n \in Nodes : OutEdges(n) = {}}
Iobs   == Loads \cup Stores
Gpes   == Nodes \ Iobs

useAddr(n) == n \in LOAD \/ (n \in Stores /\ Cardinality(InEdges(n)) = 2)

\* An IOB in FIFO mode has one operand and no delay unit.
Delaying == Gpes \cup {n \in Iobs : numOperands[n] > 1}

operands(n) == Ports(numOperands[n])

(* getGpeCfgData and, for the cycle an IOB starts in, getIobCfgData. *)
startLat(n) == lat[n] - opLatency[n]

DelayConfig(n) ==
  [i \in operands(n) |->
     LET ins == {e \in InEdges(n) : edge[e].dstPort = i}
     IN  IF ins = {} THEN 0 ELSE delayUsed[CHOOSE e \in ins : TRUE]]

AccConfig(n) ==
  IF n \in Accs
  THEN [WI |-> accParams[n].interval, latency |-> startLat(n), cycles |-> accParams[n].cycles,
        repeats |-> accParams[n].repeats, skipFirst |-> ~accParams[n].accFirst]
  ELSE [WI |-> 0, latency |-> 0, cycles |-> 0, repeats |-> 0, skipFirst |-> FALSE]
---------------------------------------------------------------------------
(* Wires. *)
Out(n) == IF n \in Gpes THEN acr[n].valueReg ELSE IobOut(iob[n], AddRegSram)

Arriving(e) == IF routeLat[e] = 0 THEN Out(edge[e].src) ELSE route[e][routeLat[e]]

In(n) ==
  [i \in operands(n) |->
     LET ins == {e \in InEdges(n) : edge[e].dstPort = i}
     IN  IF ins = {} THEN Const ELSE Arriving(CHOOSE e \in ins : TRUE)]

DelayIn(n)  == IF n \in Accs THEN RduIn(acr[n], In(n), TRUE) ELSE In(n)
DelayOf(n)  == RduConfig(DelayConfig(n), n \in Accs)

\* What comes out of the delay unit of a block.
Operands(n, en) ==
  IF n \in Delaying
  THEN [i \in operands(n) |->
          RduOut(rdu[n], maxDelay[n], numOperands[n], DelayOf(n), en, DelayIn(n), i)]
  ELSE In(n)

AluOut(n, en) == Alu(n, n \in Accs, Operands(n, en))

\* An operation of more than a cycle is a pipeline before the register.
Result(n, en) == IF divPipe[n] = <<>> THEN AluOut(n, en) ELSE divPipe[n][Len(divPipe[n])]

\* The controller of an IOB accesses its bank in the cycles of the loop.
launch(n) == clock - startLat(n) \in 0 .. Iterations - 1

AddressOf(n, en) == Address(useAddr(n), n \in Stores, clock - startLat(n), Operands(n, en))

Writes(n) == BankPort(iob[n], AddRegSram, launch(n), AddressOf(n, TRUE), Operands(n, TRUE))

Shifted(regs, in) == [k \in DOMAIN regs |-> IF k = 1 THEN in ELSE regs[k - 1]]

ArrayStep(en, start) ==
  /\ route' = [e \in Edges |-> Shifted(route[e], Out(edge[e].src))]
  /\ rdu' = [n \in Delaying |->
                RduNext(rdu[n], maxDelay[n], numOperands[n], DelayOf(n), en, DelayIn(n))]
  /\ divPipe' = [n \in Gpes |-> Shifted(divPipe[n], AluOut(n, en))]
  /\ acr' = [n \in Gpes |-> AcrNext(acr[n], AccConfig(n), start, n \notin Accs, Result(n, en))]
  /\ iob' = [n \in Iobs |-> IobNext(iob[n], n, AddRegSram, n \in Stores, launch(n),
                                     AddressOf(n, en), Operands(n, en))]
---------------------------------------------------------------------------
ArrayInit ==
  /\ Init
  /\ accParams \in AccParams /\ clock = Unset
  /\ route = [e \in Edges |-> [k \in 1 .. routeLat[e] |-> NoData]]
  /\ rdu = [n \in Delaying |-> RduInit(maxDelay[n], numOperands[n])]
  /\ acr = [n \in Gpes |-> AcrInit]
  /\ divPipe = [n \in Gpes |-> [k \in 1 .. opLatency[n] - 1 |-> NoData]]
  /\ iob = [n \in Iobs |-> IobInit]
  /\ stored = [n \in Stores |-> <<>>]

Compile == Next /\ UNCHANGED arrayVars

\* The pulse comes with the array configured and not yet enabled.
Start ==
  /\ phase = "done" /\ (\A e \in Edges : vio[e] = 0) /\ clock = Unset
  /\ clock' = 0
  /\ ArrayStep(FALSE, TRUE)
  /\ UNCHANGED <<vars, accParams, stored>>

Finished == \A n \in Stores : clock >= lat[n] + Iterations

Cycle ==
  /\ clock # Unset /\ ~Finished
  /\ clock' = clock + 1
  /\ ArrayStep(TRUE, FALSE)
  /\ stored' = [n \in Stores |->
       LET port == Writes(n)
       IN  IF port.en THEN Append(stored[n], <<port.addr, port.din>>) ELSE stored[n]]
  /\ UNCHANGED <<vars, accParams>>

ArrayNext == Compile \/ Start \/ Cycle

ArraySpec == ArrayInit /\ [][ArrayNext]_<<vars, arrayVars>> /\ WF_<<vars, arrayVars>>(ArrayNext)
---------------------------------------------------------------------------
(* What the loops of the kernel compute in an iteration. *)
\* The iterations whose words an accumulating node has added by iteration k.
AddedBy(n, k) ==
  LET p     == accParams[n]
      first == k - (k % (p.interval * p.cycles))
      count == (k % (p.interval * p.cycles)) \div p.interval + (IF p.accFirst THEN 1 ELSE 0)
  IN  [j \in 1 .. count |-> first + (j - 1) * p.interval]

Computed[n \in Nodes, k \in 0 .. Iterations - 1] ==
  LET from(i, it) == LET ins == {e \in InEdges(n) : edge[e].dstPort = i}
                     IN  IF ins = {} THEN Const ELSE Computed[edge[CHOOSE e \in ins : TRUE].src, it]
      address == IF useAddr(n) THEN from(IF n \in LOAD THEN 0 ELSE 1, k) ELSE k
  IN  CASE n \in Loads  -> <<n, address>>
        [] n \in Accs   -> [j \in DOMAIN AddedBy(n, k) |-> from(0, AddedBy(n, k)[j])]
        [] n \in Stores -> <<address, from(0, k)>>
        [] OTHER        -> <<n, [i \in operands(n) |-> from(i, k)]>>

(***************************************************************************)
(* On a mapping without violations every store writes, iteration by        *)
(* iteration, what the loops of the kernel compute to the address they     *)
(* compute: the operands of each element, data and address of each IOB     *)
(* among them, come out of the ring they share in step, though nothing in  *)
(* the array marks valid data (RDU.scala:69-127), the accumulators start,  *)
(* add and start afresh in the right cycles (DMR.scala:61-123), and the    *)
(* registers around the banks take what latency the compiler was told      *)
(* (IOController.scala:195-223, CgraParam.scala:130-131).                  *)
(***************************************************************************)
StoresTheLoops ==
  \A n \in Stores :
    /\ \A k \in DOMAIN stored[n] : stored[n][k] = Computed[n, k - 1]
    /\ clock # Unset /\ Finished => Len(stored[n]) = Iterations
=============================================================================
