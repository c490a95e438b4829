# A verification development for FDRA

FDRA is a coarse-grained reconfigurable accelerator ("TRAM") attached to a RISC-V
core through RoCC, with the compiler that maps dataflow graphs onto it. The
hardware generator is Chisel (`src/cgra-mg`), the compiler C++
(`src/cgra-compiler`), the programs C (`src/software/tests`). These modules model
the parts whose correctness depends on what happens in which order.

## The system

| component | state | operations | interacts with |
|---|---|---|---|
| Command set (`soc/ISA.scala`, `ISA.h`) | none | builds commands: load_cfg, load_data, config, execute, store, fence, flush | compiler emits, core issues |
| ReservationStation | front-end FSM, three command queues, four trackers, three issue FSMs | take a command, decide, issue, retire, fence, flush | core (RoCC), the three controllers (CoreIF) |
| LoadController | FSM, fused address list, pre-response counter | accept a load, start the DMA, stream to the scratchpad, answer | ReservationStation, DMA, Scratchpad |
| StoreController | FSM | accept a store, stream from the scratchpad to the DMA, answer | same |
| CGRAController | FSM (idle, configuring, ready, executing), flags to the array | CFG, EXE | ReservationStation, ConfigController, CGRA |
| ConfigController | FSM, word address, data register with its fill level, `done` | read configuration words of one width, write words of another | Scratchpad (configuration bank), bus of the array |
| DMA, ReorderBuffer | slicers, transaction ids, in-flight table, data buffer | cut a request into bus transfers, put the responses back in order | TLB, TileLink bus, Load/StoreController |
| TLB (TLBWrap, MultiPortTLB) | request register, FSM and retry flag per buffer, FSM per port | translate, retry once, raise an exception, flush | DMA, rocket's TLB and page-table walker |
| Scratchpad | stream pipelines, bank arbiters | stream reads and writes of several banks, CGRA port | controllers, IO blocks |
| IOController, IOB | nested loop counters, initiation interval, address of every level | generate addresses in step with the array | Scratchpad, PEs |
| PE, RDU, DMR, ConfigMem | ring of delay registers with its pointers, accumulator with its counters, configuration | delay operands, compute, accumulate | interconnect |
| CGRA template, Interconnect | registers of the configuration bus and of the tracks | carry configuration and data | blocks of the array |
| IOScheduler (compiler) | bank statuses of the last two tasks, last configuration range, task counter | assign banks, choose dependence types, order and fuse commands | decides what ReservationStation has to order |
| Mapper (compiler) | placement, routes, port flags, latencies, delays; the best mappings and the DFGs they belong to | place, route, unroute, schedule, simulated annealing, insert pass nodes | ADG, DFG, Configuration |
| Configuration (compiler) | containers | turn a mapping into fields, words and packets | Mapper, IOScheduler |
| LLVM pass | inside LLVM | extract dataflow graphs, strides and counts of memory accesses | Configuration, IOController |
| graphs, IR, operations, visualize, main | containers | parse, print, loop over the kernels | files |

What makes it hard:

* The circuit is synchronous but its blocks are not in step: a decision is a
  register, carried out cycles later, when the state it was based on has moved on.
* Three queues run concurrently, in program order each, and order across them is
  reconstructed from task ids of five bits, the heads of queues, and a dependence
  type the compiler chose from a history of two tasks.
* Units answer late, early (fused loads) or only after an exception.
* The bus answers out of order; buffers, queues and id spaces are small.
* Nothing in the array marks valid data. The compiler computes the cycle in which
  every node acts, and delays, counters and loop nests must hit it exactly.
* The annealer moves nodes and routes thousands of times over shared ports, and hands
  graphs and mappings it deletes from one loop to the other.

Correct means: commands run in an order that respects what the program depends
on; nothing handed over is lost or answered twice; a fence means what it says;
every program ends; data arrives where and in the order it was asked for.

## The modules

| module | models |
|---|---|
| `TramISA` | the command set, the commands of a compiled kernel |
| `ChiselQueue` | `chisel3.util.Queue`, external |
| `TaskOrder` | abstract: which commands must have completed before another starts |
| `ReservationStation` | `soc/ReservationStation.scala`, cycle by cycle, with the ports of the core and of the three units |
| `DMASlice` | how `soc/DMA.scala` cuts a request into bus packets, pure functions |
| `StoreController` | `soc/StoreController.scala` |
| `ScratchpadRead`, `ScratchpadWrite` | the stream ports of `soc/Scratchpad.scala` |
| `DMAWrite` | `DMAWriteController` of `soc/DMA.scala` |
| `StoreService` | abstract: what a store promises |
| `StorePath` | composition: StoreController, ScratchpadRead, DMAWrite, as `TRAM.scala` wires them, with TLB and bus |
| `ReorderBuffer`, `DMARead` | `ReorderBuffer` and `DMAReadController` of `soc/DMA.scala` |
| `ReadPath` | composition: DMARead, ReorderBuffer, with TLB, bus and consumer |
| `LoadController` | `soc/LoadController.scala` |
| `LoadPath` | composition: LoadController, ScratchpadWrite, with the reservation station and the DMA as `ReadPath` shows it to be |
| `TLB` | `soc/MultiPortTLB.scala`, with the requests of the two DMA controllers and rocket's TLB and walker as external |
| `IOScheduler` | `mapper/io_scheduler.cpp`: banks, dependences, place of the configuration, order and fusing of the commands |
| `KernelRun` | composition: the program `IOScheduler` emits, run in every order `TaskOrder` allows, over the contents of the scratchpad |
| `Mapping` | `mapper/mapping.cpp`: place, route, undo |
| `LatencySchedule` | `Mapping::latencySchedule` and `calEdgeLatVio` |
| `Blocks` | `dsa/pe/PE.scala` with `SharedRDU` and `AffineCtrlReg`, and the data path of an IOB (`IOB.scala`, `IOController.scala` 157-223), pure operators on their registers |
| `ArrayRun` | composition: `LatencySchedule`, the part of `configuration.cpp` that sets delays, accumulation and starting cycles, `Blocks` and the registers of the routes |
| `MapperSA` | `mapper/mapper_sa.cpp`, `mapper.cpp` and the loop of `main.cpp`: the two loops of the annealer and the life of DFGs and mappings |
| `Configuration` | the strides of the LLVM pass, the fields of an IOB, the packing of fields into words, packets and the image |
| `ConfigController` | `soc/ConfigController.scala` |
| `IOController` | `dsa/io/IOController.scala`: its state machine, loops and generated addresses |
| `CGRAController` | composition: `soc/CGRAController.scala`, `ConfigController`, the bus, the configuration memories, `IOController`; the image is what `Configuration` makes |
| `MC*` | what the runs are instantiated with |
| `*Proofs` | theorems about the module of that name; those of `DMASliceProofs` are lemmas for both directions of the DMA |

In the modules of the hardware a step is a clock cycle: all registers take their next values together,
from their present values and from what the other parties do in that cycle. A
component's operators take the wires it reads; a composition computes the wires, and
`Next` chooses what the environment does. Variables have the names of the registers.

### ReservationStation

`Next` chooses what the core and the units do: the core offers a command or takes a
response, the loader accepts, a unit answers. A queue
holds the position of its command in the program rather than the command; only
the fields the hardware stores are read from it (see the module's head).

| code | definition |
|---|---|
| `switch(state)` 78-135 | `FrontFlush` ... `FrontFlushResp`, joined in `FrontEnd` |
| `switch(ld_state)` 164-208 | `LdSameTask`, `LdAheadOfStore`, `LdAheadOfEx` for the three branches, `LdIssue` |
| `switch(ex_state)` 210-230 | `ExMayIssue`, `ExIssue` |
| `switch(st_state)` 232-246 | `StMayIssue`, `StIssue` |
| wiring 141-147, 248-277 | `CmdQueues`, `ResvQueues` |
| the controllers' side of CoreIF | `Units`: in-order service; the loader several commands at a time, the storer and the CGRA controller one |

`TaskOrder` is the abstract specification: a command starts and completes, and
`Precedes` says what must have completed before. It states the comments on the
dependence types (`ISA.scala` 20-23) and the window of two tasks that IOScheduler's
history of two tasks needs. `ImplementsTaskOrder` is the refinement, with
`started` and `completed` computed from the queues and units.

The programs are sequences of kernels in the form the compiler emits
(`genInstructions`): configuration load, data loads, CFG, EXE, at least one store, and
tasks numbered one after the other (io_scheduler.cpp 437). `KernelByKernel` in `TramISA`
is what is needed of that form, and `KernelsAssumption` asks it of the programs. It
matters: without a store per task, or with a task left out, the two-task window is not
kept, since it is the store at the head of its queue that holds the others back. It is
asked between two fences only; after a fence a program may start anew, with the same
kernel again, say.

### The store path

A store is carried out by three blocks that count its words each on their own: the
controller in `leftLen`, the scratchpad by `readAddr` against `readMaxAddr`, one word
ahead of the stream, the DMA by its slices and the offset of the beat. A word of the
scratchpad is named by its address; what the bus has been given is the history
`copied`, pairs of a byte of memory and the byte of the scratchpad put there. The
translation buffer answers when it likes, and fails when `TLBMayMiss`; the bus takes a
beat when it likes and acknowledges packets in any order.

`StoreService` is the abstract specification: when a store is answered with success
every byte it asked for has been copied, and nothing but bytes of its words.

`RequestsAssumption` says which stores there are. Both addresses are those of whole words:
the arrays of the programs are declared `aligned(16)`, and IOScheduler aligns the banks it
gives out. An offset in a block and the length together fit into a register of lengths,
which is as wide as an address of the scratchpad (`lgMaxDataLen`). No store is of a single
byte, nor is a word one byte wide: the source cuts a packet of no bytes from a single one
(DMA.scala 274).

### The read side of the DMA

`DMARead` has three FSMs: slicing and translation; bringing a packet to the reorder
buffer and then to the bus; taking words out of the reorder buffer, packet by packet
as `packetInfoQue` lists them, without the over-fetched ones. `ReorderBuffer` lets the
response that is due pass and stores the others. The bus answers the packets in any
order, the words of one together, with pauses. A word is its address in memory. The
history `expected` is what the stream has still to carry, in order; an exception
replaces the words its request has not fetched.

As for stores, `RequestsAssumption` takes whole words and more than a byte: the arrays are
`aligned(16)`, and a single byte off the start of a block has no packet. `SizesAssumption`
says that log2 of a packet's size fits into the bits the reorder buffer keeps of it, which
is so unless `maxLgSizeTL` is 1, 2 or 4; builds have 6.

### The load path

`LoadController` collects fused loads (one source, several scratchpad addresses), asks
the DMA once, answers all loads of the group but one in advance, streams the words to
all the addresses, and answers the last. The DMA is reduced to what `InOrder` of
`ReadPath` says: a sequence `owed` of words or an exception. `ReservationStation`
in turn reduces the loader to a unit that answers in order, which is what
`AnswersInOrder` says of `LoadPath`.

### The translation buffers

`TLB` has three layers with a state per port, per wrapper and per buffer: the port FSM
of `MultiPortTLB` (`slave`), `TLBWrap` (`state`, `retried`, `req_reg`), and rocket's TLB,
which the repository only instantiates, as far as the wrapper can tell (`rocket`, the
states of its refill, and the pages it holds). The two controllers are reduced to when
they ask and that they wait (`dma`). A flush may come in any cycle, since the front end
does not wait for the commands before it (ReservationStation 81-85). `Builds` chooses
between one buffer for both ports, the default, and one each.

### IOScheduler and the programs it emits

`ioSchedule`, `CfgPlace`, `genInstructions` and `execute` are functions of the history
(`oldStatus`, `olderStatus`, the last configuration range, the task number), as the
source's are of the members of the class. `KernelRun` executes the commands with the
guarantees of `TaskOrder` and nothing else: each command starts and completes, a writer
owns the bytes of its range from its start on, a byte remembers whose data it holds, and
one that two running commands write holds nobody's. A kernel
given to the scheduler is what it reads from the DFG: size, offset, direction and array
of every access, and the length of the configuration.

### The mapper

`Mapping` keeps what `mapping.h` keeps: which node is placed where, the links of each
route (`edgeLinks`), which edges pass a GIB, and the use flags of the ports. Search
order (distance, richness) is left out: any candidate may be next, and any path the
breadth-first search could find may be found. `mapDfgNode` is one action with the
undoing of a half-routed node in it; `unmapDfgNode` another.

`LatencySchedule` is sequential: `phase` is the loop, `at` the position in topological
order, one node per step. `routeLat` and `maxDelay` are what a mapping may give.

`ArrayRun` carries the outcome further: `getGpeCfgData` (`DelayConfig`, `AccConfig`)
turns delays and latencies into the configuration of the processing elements, a start
pulse comes from the controller, and from then on the delay units, accumulators,
dividers and track registers run cycle by cycle. A word is the term of what it was
computed from, so the comparison with the loops of the kernel (`Computed`) is exact.
The IOBs move the words: through their delay unit when they are in SRAM mode, and through
the registers before and behind the bank (`AddRegSram`, 2 in `tram_spec.json`), with the
latencies the generator tells the compiler (`LatencyAssumption`). A LOAD and a STORE take
their address from the array, a LOAD as its first operand, a STORE as its second. The
controllers are reduced to the cycles they act in and the number of the address they
generate (`AccessesFollowLoops` of `CGRAController` says which address that is); a bank is
symbolic, what is read from it being the term of the bank and the address.

`MapperSA` is the control of the search. Placement, scheduling and the objective are
choices; what is kept is which Mapping is cached where, to which DFG it points, and
which DFG has been deleted (`live`). `pc` is `pnr` and `stuck` in `pnrSync`, `opt` and
`judge` in `pnrSyncOpt`.

### The configuration path

`Pattern` is the computation of strides and counts at the end of the LLVM pass,
`getIobCfgData` the fields of an IOB, `getNodeCfgData` the packing of any block's
fields, `Image` what `genCfgData` writes into memory. A bit vector is the set of the
positions that are set. `CGRAController` reads this image back, cycle by cycle:
`ConfigController` with its data register (`cc_*` variables), the registers of the bus,
one per row, the configuration memories `regs`, and the controllers `iocs`, which read
the fields from their memory and walk their loops.

## The runs

| run | question | bounds |
|---|---|---|
| `tasks` (`RS.cfg`) | Does the circuit keep the order of the tasks, whatever dependences a kernel declares? Is a decision to issue still right when it is carried out? Do the trackers stay in step, is nothing lost, does everything end? | 3 kernels and a fence with 16 combinations of dependences, 4 kernels (one without loads) with 4, two kernels, or one twice, among flushes and fences with and without response; queues of 4/3/4, so that loads run as far ahead as the window lets them and the load queue, shorter than the program, still stalls the front end |
| `store` | Is every packet the least aligned power of two that holds its part of the request? Do the three counts agree; is what was asked for copied; is every store answered? | blocks of 4 words, starts at each of them, 8 lengths from 2 bytes to 9 words (three packets), also not multiples of a word; translations may fail, and a store is excused from an answer only then |
| `read` | Are words and exceptions delivered in order, does the packet queue hold, is an id free (answered, out of the buffer and of its queue) when reused, does the reader never hang? | two instances: 2 ids, requests that are cut and fetch too much, one exception pending at most; 3 ids and packets of two words, the fewest with one packet stored, one due, one to come. Bus and consumer may wait |
| `load` | Are loads answered in order, once, and not before their data is in place? Does every program end? | 7 loads, groups of 1, 2 and 3 with 2 addresses per transfer, so that one is cut; 1 to 3 words; a queue of 2; an exception after any number of words |
| `tlb` | Does each answer belong to the request of the port that gets it, as far as first lookups and private buffers go? Does one flush never cost a command? Is everyone answered? | shared and private; 2 ports, the most the DMA has; 3 pages, each port denied one, with room for 2, so that entries are evicted; flushes free |
| `tlb_shared` | The same for every answer of a shared buffer: violated, see below | as `tlb`, shared only |
| `sched` | Do the dependences IOScheduler declares keep what a kernel still reads, and loads and stores off each other's banks? | 3 banks, 5 kinds of kernel that do and do not fit together, all sequences of 4: the history is two tasks, so the fourth meets a bank whose use is forgotten |
| `sched_late` | The same for long programs: violated, see below | 3 tasks, the first numbered 64 |
| `mapping` | Do placement, routes, passes and port flags agree, however nodes come and go? | ring of 3 GIBs with one track each way, 6 units, 5 nodes, 5 edges; a value with three uses, two of which meet again; a commutative operation with two ports per operand |
| `latency` (`ArrayRun.cfg`) | Do delays fit the delay unit, are the operands in step, does scheduling end, and does the array then store what the loops compute? | 10 nodes, 13 edges, joins of three operands, one operation of 3 cycles, IOBs of both modes, a load and a store with computed addresses whose data may come before the address and after it; routing latencies 0 to 2 on four edges, 0 and 1 on three; delay units of 2 and of 3, which fills its field; a sum and a counter with every order of interval and period; 4 iterations, two periods of each accumulator; 2 registers around a bank (0 and 1 give the same result in runs by hand) |
| `mapper_sa` | Is what is reported mapped a mapping, of a graph that exists, and the best found? | 2 kernels of 2 or 5 operations on 4 GPEs, 3 objectives, violations up to 3; limits of the loops scaled down so that each is reached |
| `config` | Does the configuration arrive whole, in time, and do the IOBs walk the loops of the source, as far as their steps fit a stride? Is every command answered? | all sequences of 3 kernels out of 3, and 84 loop nests of up to 3 levels, with steps that just fit a stride (-8 and 7) and some that do not; words of 8 bits for 32, addresses of 4 for 16, strides of 4 bits and addresses of banks of 5, so that the sign of a stride counts; a bus of 4 registers; ports of 8, 12 and 16 bits (less than, equal to and more than a packet), latencies 1 to 3 |

Two tasks in flight with a third waiting is the most the window allows, so three
and four kernels show every situation up to the renaming of tasks. Task ids do not
wrap in these runs: equal ids of tasks 32 apart cannot meet in queues this short.

Fairness (`FairSpec`) is weak fairness of the whole cycle: the clock keeps ticking.
A cycle in which nobody acts and no register moves is a stutter, so this says that
the core and the units do not all withhold for ever what the others wait for. A
unit that always finishes what it accepted, and a core that always takes a
response, satisfy it. The compositions use the same fairness in the same sense: bus,
translation buffer and consumer do not all withhold for ever what the others wait for.
`CGRAController` assumes the cycles in which the core both offers and takes, again and
again; `TLB` those in which the walker serves. `LatencySchedule` and `ArrayRun` are
sequential: their fairness says that the program runs and the clock ticks.

Deadlock is checked except in `latency` and `mapper_sa`, whose programs end.

Bounds that stand for assumptions: `MaxUnacked = 1` says that the bus takes no packet
under an id that it has not acknowledged (a bus that relies on unique ids must not be
given one; the writer itself does not look, see below); `MaxMisses` bounds the exceptions
pending in the reader; `BitsHeld` says that the response port keeps its bits in a
pause. In `config` the register behind `done` of the array has no reset
(`RegNext`), so it starts with either value. Memory is addressed by virtual addresses, since a packet lies within a page.

### Where code and comments part

Two runs show it:

* `sched_late`: the compiler never reduces its task counter (io_scheduler.cpp 437) and
  `ISA.h` shifts it into place without a mask (25, 34), so from task 32 on it runs into
  the dependence type. At task 64 a load no longer waits for the store it depends on.
* `tlb_shared`: `TLBWrap` takes its request register again with the repeated lookup
  (MultiPortTLB 121), from whichever port the arbiter shows. With a shared buffer, the
  default, a lookup that a flush spoilt is answered with another controller's page.

The following are to be run by hand, in the `.cfg` of a run with the property named in
place of those it lists; TLC finds each violated:

* `RS.cfg` with `ExResvIdentifiesCfg`: `ex_resv_que` has a bit "+1: identify cfg or
  exe command" (line 59) that is never written, so a configuration load with
  `LD_DEP_EX_LAST_TASK` never waits for a CFG in service. Compiled kernels come to no
  harm, as `tasks` shows: the CFG is complete before its EXE leaves the queue, and the
  load waits for that.
* `Store.cfg` with `TLBMayMiss = FALSE` and `AnsweredIsWritten`: a store is answered with its last word, before
  the bus acknowledges (StoreController 66, DMA 661), so a fence answers too early by
  its comment ("previous commands have all been completed", ReservationStation 87).
* the same with `WritesOnlyRequest`: the last beat of a store is written whole
  (DMA 650), also where the length ends within it; the benchmarks have such lengths.
* `Store.cfg` with `ExceptionAcknowledged`: the scratchpad acknowledges an exception
  only in `s_read_data` (Scratchpad 208). With the last word fetched, one ahead of the
  stream, it does not, and the store path waits for ever. Needs a translation that fails
  twice, for a last packet of one beat.
* `Read.cfg` with `BitsHeld = FALSE`, the properties as they are: a word being stored is written in
  every cycle at the id the response port shows, valid or not (DMA 155, 159). If the
  port does not keep its bits in a pause, a packet already stored is damaged.
* `CGRAController.cfg` with `StepsFit(io) =>` taken out of `AccessesFollowLoops`: the
  compiler cuts a stride to its field (configuration.cpp 212) and does not look whether it
  fits. In the default build the field (13 bits) is as wide as the largest address, and
  what is cut does not matter.
* `Read.cfg` with `MaxMisses = 2` and `Stalls = {"requester", "tlb", "bus", "consumer"}`,
  `InOrder`: `packetInfoQue` is not asked for room (DMA 427), and exceptions take
  room too. Two pending at once can push a packet out; one cannot.

Found by reading. In the hardware:

* `busy` (ReservationStation 42: "has command not completed") is `state =/= s_idle ||
  cmd.valid` (77): low while commands are queued and in service.
* The writer reuses transaction ids without looking (DMA 646; the table that did look is
  commented out, 565-566, 664-671), against "support n requests inflight" (496).
* The size of a packet is kept in `log2Ceil(maxLgBurstSize)` bits (DMA 67), one value too
  few when that exponent is 1, 2 or 4 (`Kept` in `ReorderBuffer`). The default is 6; the
  runs use 3. DMA 274: a single byte off the start of a block has no size of its own.
* A page fault is answered as success with the interrupt raised; only a lookup that two
  flushes spoil is answered as a failure. A fault in the cycle in which a flush clears
  the interrupt is lost (MultiPortTLB 154, the last assignment wins).
* In `SharedRDU` the first offset is summed in the width of a delay and wraps when that
  delay is 2^k-1 (RDU 89). Then pointers meet, but one of the two operands has no delay,
  so nothing is lost (`latency` includes this case). A unit with `maxDelay` 0 cannot be
  elaborated.
* With `skipFirst` an accumulator adds the operands 1..c of a period instead of 0..c-1
  (DMR 114-127); the same for the loop-invariant operands of the counters it is used for.
* The divider of a simulation build tests `op1 === 0` the wrong way round (Div 78) and
  gives 0 for every divisor that is not zero.
* The block of configurations is addressed with the bits of a bank (Scratchpad 249, 254).
  `TRAM` (37-40) and `lastBanks` (265-267) make room for one larger than a bank, whose
  parts would then fall together; the default is smaller.
* An EXE that enables no IOB never completes, nor does one that does not follow a CFG
  (CGRAController 132): the compiler emits them in turn, and `Progress` of `tasks`
  (`KernelsAssumption`) and `EveryCommandAnswered` of `config` are about such programs only. The double shifts of
  ConfigController 101 and 105 should clear the bits above the fill level; as Chisel widens
  a shift to the left they clear nothing, but those bits are zero anyway.

In the compiler:

* `isDfgModified()` returns the pointer (mapper.h 61). `opLeftDfgAdgNum` drifts.
  `DFG::delNode` uses iterators it has invalidated (dfg.cpp 69-81).
* In `mapper_sa.cpp` restoring `_mapping` (78, 85) has no effect, the `else` of 182-186 is
  never taken, and a failed placement `continue`s past the restart (127-129).
* `latencySchedule` does not end for a node that reaches no output. `routeDfgEdgePass`
  compares (`==`) where it means to assign.
* `InitVal >> 32;` and `imm >> 32;` (configuration.cpp 76, 144) do nothing; line 370 shifts
  a 32-bit value without widening it. Values are not masked to their fields, strides are,
  silently.
* io_scheduler.cpp 248 counts packets twice for `cfgDataWidth` below 32; 88 limits the IOBs
  to 31; nothing checks that a range fits a bank, or a configuration its scratchpad. A
  dependence between kernels through memory is left to the program's `fence()`.

## The proofs

`ReservationStationProofs` proves, for every set of programs and all positive queue
depths (`ProgramsAssumption`, `DepthAssumption`):

* `TypeCorrect`: `Spec => []TypeOK`, no register leaves its width, no queue or
  tracker its depth;
* `TrackersStayInStep`: `Spec => []TrackersInStep`;
* `AcceptedCommandsQueued`: `Spec => AcceptedIsQueued`;
* `Invariance`: the inductive invariant `Inv` they follow from.

`TypeOK` and `TrackersInStep` are not inductive. `Inv` adds what makes them so: the
positions in a queue ascend and lie behind those in its unit (a tracker can only be
matched with its unit if both are in the same order), every queue holds commands of
its kind (or the wrong tracker is popped), an issue FSM stands in `s_issue` only over
a non-empty queue (or the head is undefined), and a raised `cmd_ready` belongs to a
command whose queue has room. A cycle is proved per kind of command: `QueStep` and
`UnitStep` are instances of one operation `Moved` (drop the head, append) about which
order, elements and length are proved once.

The same module proves, of the programs of `KernelsAssumption`:

* `TaskOrderImplemented`: `Spec => ImplementsTaskOrder`, every step of the registers is a
  step of `TaskOrder` or a stutter;
* `DecisionsStaySound`: `Spec => []DecisionsSound`;
* `OrderInvariance`: the inductive invariant `OrderInv` they follow from.

An issue FSM compares tasks at the heads of queues and trackers. That this says something
about all the commands that must precede, most of which it does not see, is what has to be
proved. A queue that is empty, or whose head is later, shows that the earlier commands of
its kind have started (`HeadsShow`); whether they have completed is learnt from what
started after them, so `OrderInv` says that too: what must precede a command that started
is complete (`StartedSound`), and the stores of earlier tasks have started before an EXE
does (`ExecutesBehindStores`). Thus a started store shows that its task is executed, a
started EXE that its task is loaded, and the tasks in between are there because the
compiler leaves none out (`Between`). `LastLoad` says which load `last_ld_cmd_task_id` is
of, on which the window of the loads depends; `ExecuteHeld` and `DecisionsSound` carry a
decision from the cycle it is taken in to the one it is carried out in; `ControlHeld` does
the same for a fence. `CompletedInOrder` is not needed for these, but for the promise that
a unit completes in order. Since tasks ascend by one between fences and an id has five
bits, `KernelsAssumption` allows at most 32 tasks between two fences: past that ids run
over, see `sched_late`.

`LoadPathProofs` proves, for every program, group size, depth of the queue, number and size
of banks and size of a word, and whatever translations fail: `InOrder`
(`Spec => []AnswersInOrder`), `DataInPlace` (`Spec => []LoadedWhenAnswered`),
`NothingElseWritten` (`Spec => []OnlyLoads`) and `TypeCorrect`. The answers, the words and
the writes belong to three blocks that count on their own, so the invariant `IInv` ties
each to the transfers under way: `Control` the registers of both FSMs and the entries of
the queue, `Port` the addresses the write port walks, `Data` what the DMA still owes, cut
into one segment for each transfer. Without the cuts it could not be said which transfer
an exception ends. `ProgramsAssumption` is what the compiler sees to: a load lies in its
bank (io_scheduler.cpp 84, 216), fused loads have one source and length (358-369), and the
first and last load of a group lie in different banks (92: a bank is taken once per task).

`StorePathProofs` proves, for every word, packet and register size, every number of
transaction ids and all stores of `RequestsAssumption`, whatever translations fail:

* `StoreServed`: `Spec => ImplementsStoreService`, a cycle of the three blocks is a step
  of the abstract store or a stutter;
* `CountsAgree`: `Spec => []WordsInStep`;
* `PacketsAreLeast`: `Spec => []PacketIsLeast`;
* `TypeCorrect`, and the inductive invariant `Invariant` they follow from.

`WordsInStep` is not inductive: three counts that agree may be of different words. `IInv`
says where each block is. `Writer` is about the writer by itself: its packet is the one cut
from the head of what is left, and its beat lies in the packet. `Streaming` sets the three
to the same byte: the next byte the writer carries (`Position`) and the word on the stream
(`PortStreams`) are both at `Sent`, what the controller has counted off, and `copied` is the
bytes before it. `Copied` keeps this past the end of the stream, when only the history
knows. The writer may not be done when the controller answers, for it still fills the packet
with masked beats and may even take the next store's first cycles for it; that it carries
nothing then is `DwQuiet` of `Control`, without which the next store would not start at its
first byte.

That a packet is cut right is proved in `DMASliceProofs` of the functions alone: every
packet is a power of two that divides its base, lies in its block, holds the bytes it is
for, and no smaller one does (`PacketOfRequest`, `Smallest`), and its beats are whole words
(`Beats`). The source finds it with bit operations, and the reason it is right, that two
aligned powers of two either nest or are apart, would be an induction; the proofs take the
least element of a set of naturals instead (`Least`). Two facts of exponentiation are
assumed (`PowersAssumption`): a power of two is positive, and the next one is its double.

`ReadPathProofs` proves, for any requests of whole words, any number of transaction ids and
any order of the bus:

* `IdsAreFree`: `Spec => []IdIsFree`;
* `PacketsHaveRoom`: `Spec => []PacketHasRoom`, if `MaxMisses` is 0 or 1;
* `WordsInOrder`: `Spec => []InOrder`, if `MaxMisses` is 0 or 1 and `BitsHeld`;
* `IdsAgree`, `PacketsAccounted` and `WordsPlaced`, the inductive invariants `IdInv`,
  `RoomInv` and `OrderInv`.

The id is compared with `statusTable` in one cycle, `ready` tells the controller in the next,
and the bus may take the packet many cycles later. `IdInv` says what holds in between: an id
whose packet is in hand is the last of the queue and has no words on the bus (`Promised`), no
id is in the queue twice (`Distinct`), the bus has words only for ids with status 1
(`OnBus`), and the packet that is passed on, read or written is the one on the bus or in the
table (`InHand`). Then whatever leaves the queue is another id than the one in hand.
`packetInfoQue` is not asked for room, the reorder buffer's queue is, and the two hold the
same packets but for exceptions, the packet that streams and the one in hand, which
`RoomInv` counts. One exception too many is made up for by the one that streams; with two
pending a packet can be lost, which the instance run by hand with `MaxMisses = 2` shows (see
above).

`InOrder` compares what the stream shows with the first item of `expected`, and says nothing
of the words behind it. `OrderInv` stands on two accounts of those. The first is of the data
(`Delivers`): there is, for each id, the stretch of words that was asked for when the id was
given out, and the words on the bus are the last ones of it (`OnWay`), those in the buffer
are in their places (`InBuffer`), and what the buffer shows is the word it has got to
(`Reading`). The second is of the order: there are, for each entry of `packetInfoQue`, a
place in `expected` and a place among the packets sent at which it begins (`Lined`); what
streams comes before them (`Front`) and what is left of the request behind them (`Rest`). An
entry wants those words of its packet that lie between `min_pos` and `max_pos`, which is cut
off at the end of the block; that these are the words the request asked for of the packet,
and that what the slicer counts down is the rest (`PacketKept`), needs that a packet is cut
right, which `DMASliceProofs` shows. A cycle is taken in two halves: an entry joins
(`BetweenStep`), then the stream and the history move on (`FollowsStep`). An exception takes
the places of the words that are not asked for any more. A packet that found no room in
`packetInfoQue` would have no places at all, so `OrderInv` is inductive only with `RoomInv`,
and a word being stored goes to the right id in a pause (`InBuffer`) only if the port keeps
its bits (`Held`): the runs by hand show both conditions of the theorem to be needed. The
stretches and places are
witnesses, not variables: the model has no history but `expected`.

`LatencyScheduleProofs` proves, for every acyclic DFG in topological order, every routing
and every size of the delay units: the assertion of `calEdgeLatVio` holds
(`DelaysAlwaysFit`), scheduling does not make the DFG longer (`NeverLonger`), and without
violations all the operands of a node meet (`NoViolationSynchronises`). Nodes are moved
while delays are already being given, so the invariant says what no longer moves: the
bound found first stays feasible (`Feasible`), the operands of a node are settled before
anything is assigned to them (`Settled`, on the longest path `PathFirst`), a delay is given
between nodes that are both scheduled (`Given`), and what a unit has given away is within
its size (`Budget`).

`MapperSAProofs` proves, for any number of kernels, any array and any limits of the loops,
the five properties of `mapper_sa` and that a DFG is only replaced by a larger one
(`AlwaysGrows`). The argument: the DFG is not replaced once there is a solution, so from
then on all cached mappings point to the present one (`Solved`); before, they point to the
DFG of the kernel, which is never deleted (`Unsolved`).

`TLBProofs` proves, for any number of ports, pages and ways, the two invariants of `tlb`
(`FirstLookups`, `MissesOnlyIfFlushed`), and that with private buffers every answer belongs
to its request (`PrivateAnswers`, assuming `Builds = {FALSE}`; `tlb_shared` shows that the
assumption is needed). The invariant: exactly the port that waits has a wrapper at work for
it (`Waiting`), the register holds its request until the first lookup is over (`Kept`), and
only a flush takes away what a walk brings (`Spoilt`).

Liveness (`Progress`, `KeepsServing`, `EveryStoreAnswered`, `EveryRequestAnswered`,
`EveryCommandAnswered`, `Terminates`) stays with TLC, and so do `KernelRun`, `Mapping`, the
configuration path and `ArrayRun`. `Mapping` searches with a RECURSIVE operator, and
`Computed`, `offset` and the packing of fields are recursive over data: what they compute
for every input needs induction with an operator parameter, which is out of the prover's
reach.

## The plan

Done: ReservationStation; store path, read side of the DMA, load path; the controller of
the array with its configuration; IOScheduler with the programs it emits; the translation
buffers; the mapper (placing, scheduling, annealing); the processing elements on a
scheduled kernel.

1. Theorems: `RegisterInStep` of the configuration controller; that no two operands with
   delays share a live register of the ring (`StoresTheLoops` shows it on instances).
2. The CGRA side of the scratchpad banks with the IOBs at their ports: the contents of a
   bank under a load and a store with computed addresses; `IOController` in `ArrayRun` in
   place of the cycles it is reduced to.
3. Refinements: LoadPath and StorePath as the units of ReservationStation; ReadPath as the
   DMA of LoadPath.

## Not modelled

Elaboration-time code (templates, operations, specifications, the IR of the generator);
parsing and printing; graph extraction inside LLVM, which is LLVM's API; vendored
libraries (riscv-tests, nlohmann, spdlog, fmt), which are most of the repository's lines;
the arithmetic of the operations; the variants with a queue in the stream
(`ls_stream_queue_depth` is 0) and with masks (`hasMask` is false in `TRAM.scala`); a read
and a write of one scratchpad bank in one cycle, which the dependences exclude (`PortsAlone`);
single-byte requests; the unshared `RDU` and `RegFile`, which nothing instantiates; the
costs that order the mapper's candidates, its objective and its temperature, in whose place
any outcome is allowed.
