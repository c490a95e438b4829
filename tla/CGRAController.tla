--------------------------- MODULE CGRAController --------------------------
(***************************************************************************)
(* The controller of the array (cgra-mg/.../soc/CGRAController.scala) with *)
(* what it instantiates: the configuration controller and the CGRA, of     *)
(* which there are the configuration bus, the configuration memories of    *)
(* the blocks and the controllers of the IOBs.  CFG and EXE commands come  *)
(* in turn, as IOScheduler emits them; the core may delay a command and    *)
(* the taking of an answer.  A step is a clock cycle.                      *)
(*                                                                         *)
(* A kernel is [ios, others]: the IO node on each IOB it uses, and the     *)
(* fields of each other block it uses.                                     *)
(***************************************************************************)
EXTENDS ConfigController, IOController, TLC

CONSTANTS
  Programs,       (* Sequences of kernels.                                  *)
  Blocks, IOBs,   (* Indices of the blocks; those of the IOBs among them.   *)
  rowOf,          (* The row of each block.                                 *)
  sumCfgWidth,    (* Bits of each block's configuration memory.             *)
  SramWidths, ReadLatencies   (* The builds of the scratchpad's port.       *)

ASSUME CGRAControllerAssumption ==
  /\ Blocks \subseteq Nat /\ IOBs \subseteq Blocks
  /\ rowOf \in [Blocks -> 0 .. cfgRegNum]
  /\ \A b \in Blocks : sumCfgWidth[b] <= WordBits * 2^cfgBlkOffset

VARIABLES
  program,        \* kernel, base_addr and cfg_num of the commands, in order
  spad,           \* the bits of the configuration scratchpad
  sent,           \* commands the controller has taken
  state, cfg_start, exe_start, ex_enable, iob_ens,
  cfgRegs,        \* registers of the bus, the one after the first row first
  regs,           \* configuration memories
  iocs,           \* controllers of the IOBs
  cgra_done,      \* a register without reset
  time, accesses  \* history: cycles since the start, accesses of each IOB

vars == <<cc_vars, program, spad, sent, state, cfg_start, exe_start, ex_enable,
          iob_ens, cfgRegs, regs, iocs, cgra_done, time, accesses>>

NoPacket == [addr |-> NoRead, data |-> {}]

Fields(kernel) ==
  [b \in DOMAIN kernel.ios \cup DOMAIN kernel.others |->
     IF b \in DOMAIN kernel.ios THEN getIobCfgData(kernel.ios[b]) ELSE kernel.others[b]]

\* The command in hand, or the last one taken, belongs to this kernel.
Current == program[(sent + 1) \div 2]
isCfgCmd == sent < 2 * Len(program) /\ sent % 2 = 0
isExeCmd == sent % 2 = 1

---------------------------------------------------------------------------
\* genCfgData: a configuration lies behind the one of the kernel before it,
\* at a whole word of the scratchpad.
PlacedIn(kernels) ==
  LET num(n)   == Len(getCfgData(Fields(kernels[n])))
      words(n) == (num(n) * cfgWidth + sramWidth - 1) \div sramWidth
  IN  [n \in DOMAIN kernels |->
         [kernel |-> kernels[n], cfg_num |-> num(n),
          base_addr |-> MapThenSumSet(words, 1 .. n - 1)]]

Init ==
  /\ ConfigControllerInit(SramWidths, ReadLatencies)
  /\ \E kernels \in Programs : program = PlacedIn(kernels)
  /\ spad = UNION {Shl(Image(getCfgData(Fields(program[n].kernel))),
                       program[n].base_addr * sramWidth) : n \in DOMAIN program}
  /\ sent = 0 /\ state = "s_idle"
  /\ cfg_start = FALSE /\ exe_start = FALSE /\ ex_enable = FALSE /\ iob_ens = {}
  /\ cfgRegs = [r \in 1 .. cfgRegNum |-> NoPacket]
  /\ regs = [b \in Blocks |-> {}]
  /\ iocs = [b \in IOBs |-> IdleIOC]
  /\ cgra_done \in BOOLEAN
  /\ time = 0 /\ accesses = [b \in IOBs |-> <<>>]

---------------------------------------------------------------------------
(* The controller's state machine; valid and ready are the core's.         *)
resp_valid == \/ state = "s_cfg_resp" /\ cc_done
              \/ state = "s_exe_resp" /\ cgra_done

TakeCfg(valid) ==
  /\ state = "s_idle" /\ valid /\ isCfgCmd
  /\ state' = "s_cfg_run" /\ cfg_start' = TRUE /\ sent' = sent + 1
  /\ UNCHANGED <<exe_start, ex_enable, iob_ens>>

CfgRun ==
  /\ state = "s_cfg_run"
  /\ cfg_start' = FALSE
  /\ state' = IF cc_done THEN state ELSE "s_cfg_resp"
  /\ UNCHANGED <<sent, exe_start, ex_enable, iob_ens>>

CfgResp(ready) ==
  /\ state = "s_cfg_resp" /\ resp_valid /\ ready
  /\ state' = "s_exe_wait"
  /\ UNCHANGED <<sent, cfg_start, exe_start, ex_enable, iob_ens>>

TakeExe(valid) ==
  /\ state = "s_exe_wait" /\ valid /\ isExeCmd
  /\ state' = "s_exe_run" /\ exe_start' = TRUE /\ sent' = sent + 1
  /\ iob_ens' = DOMAIN Current.kernel.ios
  /\ UNCHANGED <<cfg_start, ex_enable>>

ExeRun ==
  /\ state = "s_exe_run"
  /\ exe_start' = FALSE /\ ex_enable' = TRUE
  /\ state' = IF cgra_done THEN state ELSE "s_exe_resp"
  /\ UNCHANGED <<sent, cfg_start, iob_ens>>

ExeResp(ready) ==
  /\ state = "s_exe_resp" /\ resp_valid /\ ready
  /\ state' = "s_idle" /\ ex_enable' = FALSE
  /\ UNCHANGED <<sent, cfg_start, exe_start, iob_ens>>

Wait(valid, ready) ==
  /\ \/ state = "s_idle" /\ ~(valid /\ isCfgCmd)
     \/ state = "s_exe_wait" /\ ~(valid /\ isExeCmd)
     \/ state \in {"s_cfg_resp", "s_exe_resp"} /\ ~(resp_valid /\ ready)
  /\ UNCHANGED <<state, sent, cfg_start, exe_start, ex_enable, iob_ens>>

ControllerStep(valid, ready) ==
  \/ TakeCfg(valid) \/ CfgRun \/ CfgResp(ready)
  \/ TakeExe(valid) \/ ExeRun \/ ExeResp(ready)
  \/ Wait(valid, ready)
---------------------------------------------------------------------------
(* The registers of the CFG in hand. *)
cfg_base_addr == IF sent = 0 THEN 0 ELSE Current.base_addr
cfg_num       == IF sent = 0 THEN 0 ELSE Current.cfg_num

\* What the bus shows in a row.
Bus(row) ==
  IF row > 0 THEN cfgRegs[row] ELSE IF ren(cfg_num) THEN Packet ELSE NoPacket

\* A block takes the packets whose upper address bits are its index; the
\* lower ones select the word.
ConfigMemNext(b) ==
  LET p    == Bus(rowOf[b])
      word == Unsigned(Slice(p.addr, 0, cfgBlkOffset))
      lsb  == word * WordBits
  IN  IF p = NoPacket \/ Shr(p.addr, cfgBlkOffset) # Bits(b, AddrBits) THEN regs[b]
      ELSE {c \in (regs[b] \ (lsb .. lsb + WordBits - 1)) \cup Shl(p.data, lsb) :
              c < sumCfgWidth[b]}

Enabled(b) == exe_start /\ b \in iob_ens

CGRAStep ==
  /\ cfgRegs' = [r \in DOMAIN cfgRegs |-> Bus(r - 1)]
  /\ regs' = [b \in Blocks |-> ConfigMemNext(b)]
  /\ iocs' = [b \in IOBs |-> IOCNext(iocs[b], regs[b], Enabled(b))]
  /\ cgra_done' = \A b \in iob_ens : iocs[b].done

History ==
  LET active == \E b \in IOBs : iocs[b].state # "s_idle"
      timed(b) == [n \in DOMAIN Access(iocs[b], regs[b]) |->
                     Access(iocs[b], regs[b])[n] @@ [at |-> time]]
  IN  /\ time' = IF exe_start THEN 0 ELSE IF active THEN time + 1 ELSE time
      /\ accesses' = [b \in IOBs |-> IF state' = "s_cfg_run" THEN <<>> ELSE accesses[b] \o timed(b)]

Cycle(valid, ready) ==
  /\ ControllerStep(valid, ready)
  /\ ConfigControllerStep(cfg_start, cfg_base_addr, cfg_num, spad)
  /\ CGRAStep /\ History
  /\ UNCHANGED <<program, spad>>

Finished == sent = 2 * Len(program) /\ state = "s_idle"

Next == \E valid, ready \in BOOLEAN : Cycle(valid, ready)

Spec == Init /\ [][Next]_vars

\* The core offers a command and takes an answer again and again.
FairSpec == Spec /\ WF_vars(Cycle(TRUE, TRUE))

---------------------------------------------------------------------------
(***************************************************************************)
(* From the answer of a CFG to the next CFG, every field of every block    *)
(* the kernel uses reads as what the mapper computed: packed, laid out,    *)
(* read back, cut into packets and carried down the rows, nothing is lost, *)
(* shifted or delivered late, and nothing of another kernel's shows        *)
(* through (CGRAController.scala:147, IOController.scala:44: the           *)
(* configuration is to keep constant while the array runs).                *)
(***************************************************************************)
Configured ==
  (state = "s_cfg_resp" /\ cc_done) \/ state \in {"s_exe_wait", "s_exe_run", "s_exe_resp"}
  => LET fields == Fields(Current.kernel) IN
     \A b \in DOMAIN fields : \A f \in fields[b] :
        Slice(regs[b], f.loc.lsb, f.loc.len) = f.value

(* Where the loops of the source are in their nth round, counted from 0,   *)
(* with their own strides; an access to it comes in each cycle after the   *)
(* latency.                                                                *)
Position(io, n) ==
  LET inner(i) == FoldLeft(LAMBDA x, loop : x * loop.count, 1, SubSeq(io.loops, 1, i - 1))
      index(i) == (n \div inner(i)) % io.loops[i].count
  IN  MapThenSumSet(LAMBDA i : index(i) * io.loops[i].stride, DOMAIN io.loops)

LoopAccess(io, n) ==
  [addr |-> (io.spadAddr + io.offset + Position(io, n)) % 2^addrWidth,
   store |-> io.store, at |-> io.latency + n]

NumAccesses(io) == FoldLeft(LAMBDA x, loop : x * loop.count, 1, io.loops)

(* No step from one access to the next is wider than the field of a        *)
(* stride, which holds a sign too.  The compiler cuts strides to the field *)
(* (configuration.cpp:212) and does not look whether they fit.             *)
StepsFit(io) ==
  \A n \in 1 .. NumAccesses(io) - 1 :
    Position(io, n) - Position(io, n - 1)
      \in -(2^(lgMaxStride - 1)) .. 2^(lgMaxStride - 1) - 1

(***************************************************************************)
(* Each IOB of the kernel accesses its bank in the cycles of the loop      *)
(* nest, and where it says, in its order, if the steps of the nest fit the *)
(* fields of strides; the others do not access theirs at all.  When the    *)
(* EXE is answered every one of them has made all its accesses, though the *)
(* flag that says so keeps its value from the execution before until after *)
(* the start (IOController.scala:95, CGRA.scala:473).                      *)
(***************************************************************************)
AccessesFollowLoops ==
  \A b \in IOBs :
    LET io == Current.kernel.ios[b] IN
    /\ accesses[b] # <<>> =>
         /\ b \in DOMAIN Current.kernel.ios /\ Len(accesses[b]) <= NumAccesses(io)
         /\ \A n \in DOMAIN accesses[b] :
              LET made == accesses[b][n]  due == LoopAccess(io, n - 1) IN
              made.at = due.at /\ made.store = due.store
              /\ (StepsFit(io) => made.addr = due.addr)
    /\ state = "s_exe_resp" /\ cgra_done /\ b \in DOMAIN Current.kernel.ios
         => Len(accesses[b]) = NumAccesses(io)

(***************************************************************************)
(* Every program ends: the state machine sees each flag fall and rise,     *)
(* however short the execution and whatever the flag was before.           *)
(***************************************************************************)
EveryCommandAnswered == <>Finished
=============================================================================
