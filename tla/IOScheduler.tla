---------------------------- MODULE IOScheduler ----------------------------
(***************************************************************************)
(* The compiler's allocation of scratchpad space and choice of dependences *)
(* (cgra-compiler/src/mapper/io_scheduler.cpp).                            *)
(*                                                                         *)
(* Every IO node of a kernel (task) gets a range of one of the banks its   *)
(* IOB reaches.  The scheduler remembers which range of each bank the last *)
(* two kernels use, prefers a range they leave alone, and where there is   *)
(* none declares the dependence that makes the hardware wait.  The code of *)
(* one kernel is then emitted as commands of the accelerator.              *)
(*                                                                         *)
(* A kernel is a record: ios, its IO nodes, and cfgLen, the bytes of its   *)
(* configuration.  An IO node is a record: id, the iob it is mapped to,    *)
(* store (or load), size in bytes, array and off (what it accesses in      *)
(* memory; arrays are numbers, whose order is that of the names).          *)
(*                                                                         *)
(* Left out: the cost of the dependences, an input of the annealer's       *)
(* objective, and the text of the code emitted.                            *)
(***************************************************************************)
EXTENDS TramISA, FiniteSets, SequencesExt, Bitwise

CONSTANTS
  NumBanks,         \* adg->numIobNodes(): as many banks as IOBs
  sizeofBank,       \* bytes of a bank
  spadDataByte,     \* bytes of a word of the scratchpad's stream ports
  cfgSpadSize,      \* bytes of the bank of the configuration
  iobToSpadBanks,   \* the banks of each IOB, in order
  FirstTask         \* kernels scheduled before on other banks, and completed

ASSUME SpadAssumption ==
  /\ {NumBanks, sizeofBank, spadDataByte, cfgSpadSize} \subseteq Nat \ {0}
  /\ FirstTask \in Nat
  /\ sizeofBank % spadDataByte = 0 /\ cfgSpadSize % spadDataByte = 0

Banks   == 0 .. (NumBanks - 1)
CfgBank == NumBanks               \* on top of the IOB banks

VARIABLES
  old_bank_status,    \* bank -> what the last kernel does with it
  older_bank_status,  \* bank -> what the kernel before the last does with it
  old_cfg_status,     \* the range of the last kernel's configuration
  task_id,            \* of the next kernel
  prog,               \* the commands emitted
  accesses            \* for each command, what it does to the scratchpad

sched_vars == <<old_bank_status, older_bank_status, old_cfg_status, task_id, prog, accesses>>

\* used: 0 free, 1 load data, 2 store data
FreeBank == [used |-> 0, start |-> 0, end |-> 0]
FreeBanks == [b \in Banks |-> FreeBank]

Aligned(n) == ((n + spadDataByte - 1) \div spadDataByte) * spadDataByte
---------------------------------------------------------------------------
(* The order in which the IO nodes of a kernel get their space: loads      *)
(* first, then the larger ones, then those whose array has fewer accesses. *)

memNum(ios, io) == Cardinality({x \in ios : x.array = io.array})

Before(ios, x, y) ==
  LET key(io) == <<IF io.store THEN 1 ELSE 0, -io.size, memNum(ios, io), io.array, io.id>>
      less(p, q) == \E n \in DOMAIN p : p[n] < q[n] /\ \A m \in 1 .. (n - 1) : p[m] = q[m]
  IN  less(key(x), key(y))

sortedIoNodes(ios) == SetToSortSeq(ios, LAMBDA x, y : Before(ios, x, y))
---------------------------------------------------------------------------
(* How a bank suits an IO node.  0: free for both kernels; 1: the last one *)
(* leaves room; 2: the one before does; 3: neither.                        *)

used(isStore) == IF isStore THEN 2 ELSE 1

\* What the last kernel leaves: a status (2: not available) and a start.
oldStatus(old, isStore, memSize) ==
  CASE old.used = 0 \/ (old.used = 1 /\ isStore) -> <<0, 0>>
    [] old.used = used(isStore) /\ memSize <= sizeofBank - old.end -> <<1, old.end>>
    [] old.used = used(isStore) /\ memSize > sizeofBank - old.end /\ memSize <= old.start -> <<1, 0>>
    [] OTHER -> <<2, 0>>

\* Mutant of olderStatus: the kernel before the last is forgotten.
Bug_olderStatus(older, isStore) == 0

\* A load may not enter a bank that the kernel before the last stores from.
olderStatus(older, isStore) == IF older.used = 2 /\ ~isStore THEN 2 ELSE 0

bankStatus(b, isStore, memSize) ==
  LET o == oldStatus(old_bank_status[b], isStore, memSize)
      p == olderStatus(older_bank_status[b], isStore)
  IN  [status |-> (IF o[1] < 2 THEN 0 ELSE 2) + (IF p = 0 THEN 0 ELSE 1), start |-> o[2]]

\* Two IOs of one kernel never share a bank.
availBanks(cur, iob) == SelectSeq(iobToSpadBanks[iob], LAMBDA b : cur[b].used = 0)

\* The bank, the start in it and the dependence of an IO node.
Allocation(cur, io) ==
  LET avail  == availBanks(cur, io.iob)
      stat   == [i \in DOMAIN avail |-> bankStatus(avail[i], io.store, Aligned(io.size))]
      first(P(_)) == SelectInSeq([i \in DOMAIN avail |-> i], P)   \* 0: there is none
      free   == first(LAMBDA i : stat[i].status = 0)
      older  == first(LAMBDA i : stat[i].status = 1)
      loaded == first(LAMBDA i : old_bank_status[avail[i]].used = 1)
      at(i, dep) == [bank |-> avail[i], start |-> stat[i].start, dep |-> dep]
  IN  CASE free > 0   -> at(free, NO_DEP)
        [] free = 0 /\ older > 0 -> at(older, LD_DEP_ST_LAST_SEC_TASK)
        [] free = 0 /\ older = 0 /\ io.store -> at(1, EX_DEP_ST_LAST_TASK)
        [] free = 0 /\ older = 0 /\ ~io.store /\ loaded > 0 -> at(loaded, LD_DEP_EX_LAST_TASK)
        [] OTHER -> at(1, LD_DEP_ST_LAST_TASK)

\* ioSchedule: the allocations, node by node, and the bank status they leave.
ioSchedule(ios) ==
  FoldLeft(
    LAMBDA s, io :
      LET a == Allocation(s.cur, io)
      IN  [cur  |-> [s.cur EXCEPT ![a.bank] =
                       [used |-> used(io.store), start |-> a.start, end |-> a.start + Aligned(io.size)]],
           info |-> [x \in DOMAIN s.info \cup {io.id} |-> IF x = io.id THEN a ELSE s.info[x]]],
    [cur |-> FreeBanks, info |-> [x \in {} |-> 0]],
    sortedIoNodes(ios))

\* EXE waits for the stores of the last kernel if any store had to.
ex_dep(ios, info) ==
  IF \E io \in ios : io.store /\ info[io.id].dep # NO_DEP THEN EX_DEP_ST_LAST_TASK ELSE NO_DEP
---------------------------------------------------------------------------
(* Where the configuration goes: after the last one, before it, or over    *)
(* it with a dependence.                                                   *)

\* Mutant of CfgPlace: no dependence when the new range covers the old one.
Bug_CfgPlace(len) ==
  [start |-> IF len <= cfgSpadSize - old_cfg_status.end THEN old_cfg_status.end ELSE 0,
   dep |-> NO_DEP]

CfgPlace(len) ==
  CASE len <= cfgSpadSize - old_cfg_status.end -> [start |-> old_cfg_status.end, dep |-> NO_DEP]
    [] len > cfgSpadSize - old_cfg_status.end /\ len <= old_cfg_status.start ->
         [start |-> 0, dep |-> NO_DEP]
    [] OTHER -> [start |-> 0, dep |-> LD_DEP_EX_LAST_TASK]

CfgEnd(start, len) ==
  LET end == start + Aligned(len) IN IF end < cfgSpadSize THEN end ELSE cfgSpadSize
---------------------------------------------------------------------------
(* The commands of a kernel.  Loads of one array are adjacent, the arrays  *)
(* in the order of their strongest dependence, and a load is fused with    *)
(* the next one when both read the same bytes of the same array.           *)

sort_dep(dep) ==
  CASE dep = NO_DEP -> 0
    [] dep = LD_DEP_ST_LAST_SEC_TASK -> 1
    [] dep = LD_DEP_EX_LAST_TASK -> 2
    [] dep = LD_DEP_ST_LAST_TASK -> 3

arrayDeps(loads, info, array) ==
  LET deps == {sort_dep(info[x.id].dep) : x \in {y \in loads : y.array = array}}
  IN  CHOOSE d \in deps : \A e \in deps : e <= d

ld_data_deps(loads, info) ==
  LET key(io) == <<arrayDeps(loads, info, io.array), io.array, sort_dep(info[io.id].dep), io.id>>
      less(p, q) == \E n \in DOMAIN p : p[n] < q[n] /\ \A m \in 1 .. (n - 1) : p[m] = q[m]
  IN  SetToSortSeq(loads, LAMBDA x, y : less(key(x), key(y)))

SameSource(x, y) == x.array = y.array /\ x.size = y.size /\ x.off = y.off

\* The dependence type as it arrives: ISA.h shifts the task id next to it and
\* masks neither, so a task id of more than TASK_ID_WIDTH bits runs into it.
dep_type(dep) == (dep | (task_id \div 2^TASK_ID_WIDTH)) % 2^3

\* What a command does to a range of a bank; data says whose bytes they are.
Touch(bank, start, len, write, data) ==
  [bank |-> bank, lo |-> start, hi |-> start + len - 1, write |-> write, data |-> data]

TouchIo(io, info, write) ==
  Touch(info[io.id].bank, info[io.id].start, io.size, write, <<task_id, io.id>>)

\* genInstructions, a sequence of pairs of a command and its accesses.
genInstructions(kernel, info, cfg) ==
  LET loads  == {io \in kernel.ios : ~io.store}
      stores == SetToSortSeq(kernel.ios \ loads, LAMBDA x, y : x.id < y.id)
      ld     == ld_data_deps(loads, info)
      fused(n) == n < Len(ld) /\ SameSource(ld[n], ld[n + 1])
      config(write) == Touch(CfgBank, cfg.start, kernel.cfgLen, write, <<task_id, "cfg">>)
  IN     <<[cmd |-> LoadCfg(task_id, dep_type(cfg.dep)), acc |-> {config(TRUE)}]>>
      \o [n \in DOMAIN ld |-> [cmd |-> LoadData(task_id, dep_type(info[ld[n].id].dep), fused(n)),
                               acc |-> {TouchIo(ld[n], info, TRUE)}]]
      \o <<[cmd |-> Config(task_id), acc |-> {config(FALSE)}],
           [cmd |-> Execute(task_id, dep_type(ex_dep(kernel.ios, info))),
            acc |-> {TouchIo(io, info, io.store) : io \in kernel.ios}]>>
      \o [n \in DOMAIN stores |-> [cmd |-> Store(task_id), acc |-> {TouchIo(stores[n], info, FALSE)}]]
---------------------------------------------------------------------------
SchedInit ==
  /\ old_bank_status = FreeBanks /\ older_bank_status = FreeBanks
  /\ old_cfg_status = [start |-> 0, end |-> 0]
  /\ task_id = FirstTask /\ prog = <<>> /\ accesses = <<>>

\* execute: allocate, shift the history, place the configuration, emit.
execute(kernel) ==
  LET s   == ioSchedule(kernel.ios)
      cfg == CfgPlace(kernel.cfgLen)
      ins == genInstructions(kernel, s.info, cfg)
  IN  /\ older_bank_status' = old_bank_status
      /\ old_bank_status' = s.cur
      /\ old_cfg_status' = [start |-> cfg.start, end |-> CfgEnd(cfg.start, kernel.cfgLen)]
      /\ prog' = prog \o [n \in DOMAIN ins |-> ins[n].cmd]
      /\ accesses' = accesses \o [n \in DOMAIN ins |-> ins[n].acc]
      /\ task_id' = task_id + 1
=============================================================================
