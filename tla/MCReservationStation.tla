----------------------- MODULE MCReservationStation -----------------------
(***************************************************************************)
(* Instances of ReservationStation for TLC: sets of programs, all of them  *)
(* sequences of kernels as the compiler emits them, with every dependence  *)
(* a kernel can declare.                                                   *)
(***************************************************************************)
EXTENDS ReservationStation

(* Three kernels and a fence: the last one declares each combination of    *)
(* dependences on its configuration load, its first data load and its EXE. *)
DepPrograms ==
  { KernelCommands(0, NO_DEP, <<NO_DEP>>, NO_DEP, 2)
    \o KernelCommands(1, NO_DEP, <<NO_DEP>>, NO_DEP, 1)
    \o KernelCommands(2, cfgDep, <<ldDep, NO_DEP>>, exDep, 1)
    \o <<Fence(TRUE)>> :
      cfgDep \in {NO_DEP, LD_DEP_EX_LAST_TASK},
      ldDep \in {NO_DEP, LD_DEP_ST_LAST_TASK, LD_DEP_EX_LAST_TASK, LD_DEP_ST_LAST_SEC_TASK},
      exDep \in {NO_DEP, EX_DEP_ST_LAST_TASK} }

(* Four kernels, one of them without data loads, as deep as the queues let *)
(* the front end run ahead.                                                *)
WindowPrograms ==
  { KernelCommands(0, NO_DEP, <<NO_DEP>>, NO_DEP, 1)
    \o KernelCommands(1, NO_DEP, <<>>, NO_DEP, 1)
    \o KernelCommands(2, NO_DEP, <<ldDep>>, NO_DEP, 2)
    \o KernelCommands(3, NO_DEP, <<ldDep>>, NO_DEP, 1) :
      ldDep \in {NO_DEP, LD_DEP_ST_LAST_TASK, LD_DEP_EX_LAST_TASK, LD_DEP_ST_LAST_SEC_TASK} }

(* Two kernels, or one twice, among the commands that bypass the queues. *)
ControlPrograms ==
  { <<Flush>>
    \o KernelCommands(0, NO_DEP, <<NO_DEP, NO_DEP, NO_DEP>>, NO_DEP, 2)
    \o <<Fence(xd)>>
    \o KernelCommands(t, NO_DEP, <<LD_DEP_ST_LAST_TASK>>, EX_DEP_ST_LAST_TASK, 1)
    \o <<Flush, Fence(TRUE)>> : xd \in BOOLEAN, t \in {0, 1} }

TaskPrograms == DepPrograms \cup WindowPrograms

AllPrograms == TaskPrograms \cup ControlPrograms
=============================================================================
