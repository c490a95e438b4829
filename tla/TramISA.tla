------------------------------ MODULE TramISA ------------------------------
(***************************************************************************)
(* The command set of the accelerator (cgra-mg/.../soc/ISA.scala and the   *)
(* C wrappers of software/tests/include/ISA.h).                            *)
(*                                                                         *)
(* A command is what the scheduling hardware distinguishes of a RoCC       *)
(* command: its function, the task it belongs to, its dependence type, and *)
(* for a load whether it fills the configuration bank and whether it is    *)
(* fused with the next load.  Addresses and lengths are the business of    *)
(* the modules that move data.                                             *)
(***************************************************************************)
EXTENDS Integers, Sequences

\* funct7 values
LOAD_CMD  == "LOAD"
STORE_CMD == "STORE"
CFG_CMD   == "CFG"
EXE_CMD   == "EXE"
FLUSH_CMD == "FLUSH"
FENCE_CMD == "FENCE"

Functs == {LOAD_CMD, STORE_CMD, CFG_CMD, EXE_CMD, FLUSH_CMD, FENCE_CMD}

TASK_ID_WIDTH == 5
TaskIds == 0 .. (2^TASK_ID_WIDTH - 1)

\* Dependence types of a load and of an execute command.
NO_DEP                  == 0
LD_DEP_ST_LAST_TASK     == 1
LD_DEP_EX_LAST_TASK     == 2
LD_DEP_ST_LAST_SEC_TASK == 3
EX_DEP_ST_LAST_TASK     == 1

DepTypes == 0 .. 7

Command == [funct : Functs, task : TaskIds, dep : DepTypes,
            is_cfg : BOOLEAN, fused : BOOLEAN, xd : BOOLEAN]

\* Commands the execute queue takes, and those that go to any queue at all.
IsEx(c)     == c.funct \in {CFG_CMD, EXE_CMD}
IsQueued(c) == c.funct \in {LOAD_CMD, CFG_CMD, EXE_CMD, STORE_CMD}

---------------------------------------------------------------------------
(* Building commands, one operator per intrinsic of ISA.h. *)

LoadCfg(t, d) ==
  [funct |-> LOAD_CMD, task |-> t, dep |-> d, is_cfg |-> TRUE, fused |-> FALSE, xd |-> FALSE]
LoadData(t, d, f) ==
  [funct |-> LOAD_CMD, task |-> t, dep |-> d, is_cfg |-> FALSE, fused |-> f, xd |-> FALSE]
Config(t) ==
  [funct |-> CFG_CMD, task |-> t, dep |-> NO_DEP, is_cfg |-> FALSE, fused |-> FALSE, xd |-> FALSE]
Execute(t, d) ==
  [funct |-> EXE_CMD, task |-> t, dep |-> d, is_cfg |-> FALSE, fused |-> FALSE, xd |-> FALSE]
Store(t) ==
  [funct |-> STORE_CMD, task |-> t, dep |-> NO_DEP, is_cfg |-> FALSE, fused |-> FALSE, xd |-> FALSE]
Fence(x) ==
  [funct |-> FENCE_CMD, task |-> 0, dep |-> NO_DEP, is_cfg |-> FALSE, fused |-> FALSE, xd |-> x]
Flush ==
  [funct |-> FLUSH_CMD, task |-> 0, dep |-> NO_DEP, is_cfg |-> FALSE, fused |-> FALSE, xd |-> TRUE]

(***************************************************************************)
(* The commands of one kernel in the order the compiler emits them         *)
(* (IOScheduler::genInstructions): load the configuration, load the data,  *)
(* configure, execute, store.  ldDeps lists the dependence types of the    *)
(* data loads; a kernel has at least one output, hence at least one store. *)
(***************************************************************************)
KernelCommands(t, cfgDep, ldDeps, exDep, stores) ==
     <<LoadCfg(t, cfgDep)>>
  \o [n \in 1 .. Len(ldDeps) |-> LoadData(t, ldDeps[n], FALSE)]
  \o <<Config(t), Execute(t, exDep)>>
  \o [n \in 1 .. stores |-> Store(t)]

(***************************************************************************)
(* What the compiler's programs have in common: between two fences, the    *)
(* tasks follow one another without a gap, each of them loads, configures, *)
(* executes and stores in this order, and none comes to an end without an  *)
(* execution and a store.  After a fence the tasks may start anew, as when *)
(* a loop calls the same kernel again.                                     *)
(***************************************************************************)
Stage(c) ==
  CASE c.funct = LOAD_CMD -> 1 [] c.funct = CFG_CMD -> 2 [] c.funct = EXE_CMD -> 3 [] OTHER -> 4

Together(p, j, i) == \A k \in j .. i : p[k].funct # FENCE_CMD

\* The task t has a command f before position i, with no fence between.
Earlier(p, i, f, t) ==
  \E k \in 1 .. (i - 1) : Together(p, k, i) /\ p[k].funct = f /\ p[k].task = t

InStep(p, j, i) ==
  /\ p[j].task <= p[i].task
  /\ p[j].task = p[i].task => Stage(p[j]) <= Stage(p[i])
  /\ \A t \in p[j].task .. (p[i].task - 1), f \in {LOAD_CMD, EXE_CMD, STORE_CMD} :
        Earlier(p, i, f, t)

KernelByKernel(p) ==
  \A i \in DOMAIN p : IsQueued(p[i]) =>
    /\ p[i].funct = EXE_CMD   => Earlier(p, i, CFG_CMD, p[i].task)
    /\ p[i].funct = STORE_CMD => Earlier(p, i, EXE_CMD, p[i].task)
    /\ \A j \in 1 .. (i - 1) : IsQueued(p[j]) /\ Together(p, j, i) => InStep(p, j, i)
=============================================================================
