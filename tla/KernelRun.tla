----------------------------- MODULE KernelRun -----------------------------
(***************************************************************************)
(* The program IOScheduler emits, run by hardware that promises TaskOrder  *)
(* and nothing else.                                                       *)
(*                                                                         *)
(* The compiler schedules MaxTasks kernels; then the commands start and    *)
(* complete in any order TaskOrder allows.  Between the two a command may  *)
(* touch the scratchpad at any time: a writer owns the bytes of its range  *)
(* from its start on, and a byte that two running commands write holds     *)
(* nobody's data afterwards.                                               *)
(***************************************************************************)
EXTENDS IOScheduler

CONSTANTS
  Kernels,    \* the kernels a program may consist of
  MaxTasks    \* bound: kernels of a program

VARIABLES
  started,    \* positions of the commands that have started
  completed,  \* positions of the commands that have completed
  content     \* bank -> byte -> whose data it holds

run_vars == <<started, completed, content>>
vars == <<sched_vars, run_vars>>

Nobody == <<-1, "none">>

TO == INSTANCE TaskOrder WITH Programs <- {}

AllBanks == Banks \cup {CfgBank}
BankSize(b) == IF b = CfgBank THEN cfgSpadSize ELSE sizeofBank

Init ==
  /\ SchedInit
  /\ started = {} /\ completed = {}
  /\ content = [b \in AllBanks |-> [x \in 0 .. (BankSize(b) - 1) |-> Nobody]]

Compile ==
  /\ task_id < FirstTask + MaxTasks
  /\ \E k \in Kernels : execute(k)
  /\ UNCHANGED run_vars

Running == started \ completed
Covers(a, b, x) == a.bank = b /\ a.lo <= x /\ x <= a.hi

\* What the byte holds once command i owns the ranges it writes.
Owned(i, b, x) ==
  LET mine   == {a \in accesses[i] : a.write /\ Covers(a, b, x)}
      others == {j \in Running : \E a \in accesses[j] : a.write /\ Covers(a, b, x)}
  IN  IF mine = {} THEN content[b][x]
      ELSE IF others # {} THEN Nobody
      ELSE (CHOOSE a \in mine : TRUE).data

Start ==
  /\ task_id = FirstTask + MaxTasks
  /\ \E i \in DOMAIN prog \ started :
       /\ started' = started \cup {i}
       /\ content' = [b \in AllBanks |-> [x \in DOMAIN content[b] |-> Owned(i, b, x)]]
  /\ UNCHANGED <<sched_vars, completed>>
  /\ TO!Next

Complete ==
  /\ \E i \in Running : completed' = completed \cup {i}
  /\ UNCHANGED <<sched_vars, started, content>>
  /\ TO!Next

Done == completed = DOMAIN prog /\ task_id = FirstTask + MaxTasks /\ UNCHANGED vars

Next == Compile \/ Start \/ Complete \/ Done

Spec == Init /\ [][Next]_vars
---------------------------------------------------------------------------
TypeOK ==
  /\ \A b \in Banks : /\ old_bank_status[b].used \in 0 .. 2
                      /\ old_bank_status[b].end \in old_bank_status[b].start .. sizeofBank
  /\ old_cfg_status.end \in old_cfg_status.start .. cfgSpadSize
  /\ \A i \in DOMAIN prog : prog[i].dep \in DepTypes
  /\ completed \subseteq started /\ started \subseteq DOMAIN prog

(***************************************************************************)
(* While a command runs, every byte it reads is still the one that was put *)
(* there for it: an EXE sees the data its own kernel's loads brought, a    *)
(* store sends what its own kernel computed, CFG reads its own kernel's    *)
(* configuration.  No other kernel writes a byte that is still needed,     *)
(* however far ahead the hardware runs (io_scheduler.cpp:82-223).          *)
(***************************************************************************)
ReadsOwnData ==
  \A i \in Running : \A a \in {x \in accesses[i] : ~x.write} :
     \A x \in a.lo .. a.hi : content[a.bank][x] = a.data

(***************************************************************************)
(* A bank's port on the side of the DMA takes one access at a time and     *)
(* tells nobody who lost (Scratchpad.scala:215: the requester should make  *)
(* sure of it), and only the declared dependences keep them apart: no load *)
(* writes a bank while a store of any kernel reads it.                     *)
(***************************************************************************)
PortsAlone ==
  \A i, j \in Running :
     (prog[i].funct = LOAD_CMD /\ prog[j].funct = STORE_CMD)
       => \A a \in accesses[i], b \in accesses[j] : a.bank # b.bank

=============================================================================
