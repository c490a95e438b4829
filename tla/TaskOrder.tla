----------------------------- MODULE TaskOrder -----------------------------
(***************************************************************************)
(* What the reservation station promises to a program: in which order the  *)
(* commands of its tasks may run.                                          *)
(*                                                                         *)
(* A command starts, and later completes.  Precedes says which commands    *)
(* must have completed before another starts.  It states the comments of   *)
(* ISA.scala and ReservationStation.scala on the dependence types, and the *)
(* window the compiler relies on: IOScheduler remembers the scratchpad     *)
(* banks of the last two tasks only, so a command with no declared         *)
(* dependence must not overtake what belongs to older tasks.               *)
(***************************************************************************)
EXTENDS TramISA

CONSTANT Programs

VARIABLES
  prog,       \* the program
  started,    \* positions of the commands that have started
  completed   \* positions of the commands that have completed

vars == <<prog, started, completed>>

\* Commands of one unit run in program order.
SameUnit(c, d) ==
  \/ c.funct = LOAD_CMD /\ d.funct = LOAD_CMD
  \/ IsEx(c) /\ IsEx(d)
  \/ c.funct = STORE_CMD /\ d.funct = STORE_CMD

\* d is at least n tasks later than c.
LaterBy(n, c, d) == c.task + n <= d.task

\* Before a load: its declared dependence, and the window of two tasks.
PrecedesLoad(c, d) ==
  \/ IsEx(c) /\ LaterBy(2, c, d)
  \/ c.funct = STORE_CMD /\ LaterBy(3, c, d)
  \/ d.dep = LD_DEP_ST_LAST_TASK     /\ c.funct = STORE_CMD /\ LaterBy(1, c, d)
  \/ d.dep = LD_DEP_ST_LAST_SEC_TASK /\ c.funct = STORE_CMD /\ LaterBy(2, c, d)
  \/ d.dep = LD_DEP_EX_LAST_TASK /\ LaterBy(1, c, d)
     /\ (c.funct = CFG_CMD \/ (c.funct = EXE_CMD /\ ~d.is_cfg))

\* Before a CFG or an EXE: the loads of its task that it uses, the CGRA being
\* free, its declared dependence, and the window of two tasks.
PrecedesEx(c, d) ==
  \/ c.funct = LOAD_CMD /\ c.task <= d.task /\ c.is_cfg
  \/ c.funct = LOAD_CMD /\ c.task <= d.task /\ d.funct = EXE_CMD
  \/ IsEx(c)
  \/ c.funct = STORE_CMD /\ LaterBy(2, c, d)
  \/ d.dep = EX_DEP_ST_LAST_TASK /\ c.funct = STORE_CMD /\ LaterBy(1, c, d)

\* Before a store: all that its task loads and computes, and earlier stores.
PrecedesStore(c, d) ==
  \/ c.funct # STORE_CMD /\ c.task <= d.task
  \/ c.funct = STORE_CMD

\* Command j of the program must have completed before command i starts.
Precedes(j, i) ==
  LET c == prog[j]  d == prog[i]
  IN  /\ j < i
      /\ \/ c.funct = FENCE_CMD
         \/ d.funct = FENCE_CMD /\ c.funct # FLUSH_CMD
         \/ d.funct = LOAD_CMD  /\ IsQueued(c) /\ PrecedesLoad(c, d)
         \/ IsEx(d)             /\ IsQueued(c) /\ PrecedesEx(c, d)
         \/ d.funct = STORE_CMD /\ IsQueued(c) /\ PrecedesStore(c, d)

Init == prog \in Programs /\ started = {} /\ completed = {}

\* Any number of commands start and complete in a step.
Next ==
  /\ UNCHANGED prog
  /\ started \subseteq started' /\ completed \subseteq completed'
  /\ started' \subseteq DOMAIN prog /\ completed' \subseteq started'
  /\ \A i \in started' \ started : \A j \in DOMAIN prog : Precedes(j, i) => j \in completed
  /\ \A i \in started' : \A j \in 1 .. (i - 1) :
        SameUnit(prog[j], prog[i]) => j \in started'
  /\ \A i \in completed' : \A j \in 1 .. (i - 1) :
        SameUnit(prog[j], prog[i]) => j \in completed'

Spec == Init /\ [][Next]_vars
=============================================================================
