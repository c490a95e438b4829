------------------------ MODULE ReservationStation ------------------------
(***************************************************************************)
(* The reservation station (cgra-mg/.../soc/ReservationStation.scala): it  *)
(* takes RoCC commands in program order, queues them for the loader, the   *)
(* CGRA controller and the storer, and decides when each may start.        *)
(*                                                                         *)
(* The circuit is synchronous, so a step of the specification is one clock *)
(* cycle: every register takes its next value from the present values of   *)
(* all registers and from the inputs of the cycle.  The inputs are what    *)
(* the other parties may do: the core offers a command or takes a          *)
(* response, a unit accepts a request or answers one.                      *)
(*                                                                         *)
(* A queue element is the position in the program of the command it holds  *)
(* or stands for.  The hardware stores the command itself, prog[position], *)
(* in a command queue and its id in a tracker; accordingly only the fields *)
(* of prog[position] are read: task, dep, funct and is_cfg in a command    *)
(* queue, task alone in a tracker.                                         *)
(***************************************************************************)
EXTENDS TramISA, ChiselQueue

CONSTANTS
  Programs,       (* The command sequences the core may run.                *)
  loadQueDepth,   (* Depth of the load command queue and of its tracker.    *)
  storeQueDepth,  (* Depth of the store command queue and of its tracker.   *)
  exeQueDepth     (* Depth of the execute command queue and of its tracker. *)

ld_cfg_resv_depth == 3

ASSUME ProgramsAssumption == Programs \subseteq Seq(Command)
ASSUME KernelsAssumption == \A p \in Programs : KernelByKernel(p)
ASSUME DepthAssumption ==
  /\ loadQueDepth \in Nat \ {0}
  /\ storeQueDepth \in Nat \ {0}
  /\ exeQueDepth \in Nat \ {0}

VARIABLES
  prog,                \* the program the core runs; it never changes
  pc,                  \* position of the command the core offers next
  cmd_valid,           \* io.cmd.valid
  state, cmd_ready,    \* front-end FSM and its ready register
  req_xd,              \* the fence being answered wants a response
  flush,               \* TLB flush request
  ld_cmd_que, st_cmd_que, ex_cmd_que,           \* command queues
  ld_dat_resv_que, ld_cfg_resv_que,             \* trackers of the commands
  st_resv_que, ex_resv_que,                     \*   that are in service
  ld_state, st_state, ex_state,                 \* issue FSMs
  last_ld_cmd_task_id,                          \* task of the last load issued
  ld_unit, st_unit, ex_unit,                    \* commands each unit serves
  configured           \* the CGRA controller is between CFG and EXE

core  == <<prog, pc, cmd_valid>>
front == <<state, cmd_ready, req_xd, flush>>
ques  == <<ld_cmd_que, st_cmd_que, ex_cmd_que>>
resvs == <<ld_dat_resv_que, ld_cfg_resv_que, st_resv_que, ex_resv_que>>
issue == <<ld_state, st_state, ex_state, last_ld_cmd_task_id>>
units == <<ld_unit, st_unit, ex_unit, configured>>
vars  == <<core, front, ques, resvs, issue, units>>

s_idle  == "s_idle"
s_enq   == "s_enq"
s_fence == "s_fence"
s_flush == "s_flush"
s_wait  == "s_wait"
s_issue == "s_issue"

---------------------------------------------------------------------------
cmd_fire == cmd_valid /\ cmd_ready

---------------------------------------------------------------------------
(* Front end: take the command the core offers, or hold it back. *)

\* Mutant of QueueReadyFor: the room in the queue is not looked at.
Bug_QueueReadyFor(c) == IsQueued(c)

QueueReadyFor(c) ==
  \/ c.funct = LOAD_CMD  /\ enq_ready(ld_cmd_que, loadQueDepth)
  \/ IsEx(c)             /\ enq_ready(ex_cmd_que, exeQueDepth)
  \/ c.funct = STORE_CMD /\ enq_ready(st_cmd_que, storeQueDepth)

\* "previous commands have all been completed"
Drained ==
  /\ ~deq_valid(ld_cmd_que) /\ ~deq_valid(ex_cmd_que) /\ ~deq_valid(st_cmd_que)
  /\ ~deq_valid(ld_dat_resv_que) /\ ~deq_valid(ld_cfg_resv_que)
  /\ ~deq_valid(ex_resv_que) /\ ~deq_valid(st_resv_que)

FrontFlush ==
  /\ state = s_idle /\ cmd_valid /\ prog[pc].funct = FLUSH_CMD
  /\ state' = s_flush /\ cmd_ready' = TRUE /\ flush' = TRUE
  /\ UNCHANGED req_xd

FrontFence ==
  /\ state = s_idle /\ cmd_valid /\ prog[pc].funct = FENCE_CMD /\ Drained
  /\ state' = s_fence /\ cmd_ready' = TRUE /\ req_xd' = prog[pc].xd
  /\ UNCHANGED flush

FrontAccept ==
  /\ state = s_idle /\ cmd_valid /\ QueueReadyFor(prog[pc])
  /\ state' = s_enq /\ cmd_ready' = TRUE
  /\ UNCHANGED <<req_xd, flush>>

FrontHold ==
  /\ state = s_idle
  /\ cmd_valid => /\ prog[pc].funct # FLUSH_CMD
                  /\ ~(prog[pc].funct = FENCE_CMD /\ Drained)
                  /\ ~QueueReadyFor(prog[pc])
  /\ UNCHANGED front

FrontEnq ==
  /\ state = s_enq
  /\ state' = s_idle /\ cmd_ready' = FALSE
  /\ UNCHANGED <<req_xd, flush>>

\* io.resp.valid, and the two states that present a response.
resp_valid == state = s_flush \/ (state = s_fence /\ req_xd)

\* Mutant of FrontFenceResp: a fence without destination awaits the core too.
Bug_FrontFenceResp(respReady) ==
  /\ state = s_fence /\ cmd_ready' = FALSE
  /\ state' = IF respReady THEN s_idle ELSE s_fence
  /\ UNCHANGED <<req_xd, flush>>

FrontFenceResp(respReady) ==
  /\ state = s_fence
  /\ cmd_ready' = FALSE
  /\ state' = IF ~req_xd \/ respReady THEN s_idle ELSE s_fence
  /\ UNCHANGED <<req_xd, flush>>

FrontFlushResp(respReady) ==
  /\ state = s_flush
  /\ cmd_ready' = FALSE
  /\ state' = IF respReady THEN s_idle ELSE s_flush
  /\ flush' = (flush /\ ~respReady)
  /\ UNCHANGED req_xd

FrontEnd(respReady) ==
  \/ FrontFlush \/ FrontFence \/ FrontAccept \/ FrontHold \/ FrontEnq
  \/ FrontFenceResp(respReady) \/ FrontFlushResp(respReady)

(* The core: an offered command stays offered until it is taken. *)
MoreAfter(n) == n <= Len(prog)

CoreStep(offer) ==
  /\ pc' = IF cmd_fire THEN pc + 1 ELSE pc
  /\ cmd_valid' = IF cmd_valid /\ ~cmd_ready THEN TRUE ELSE offer /\ MoreAfter(pc')
  /\ UNCHANGED prog

---------------------------------------------------------------------------
(* Load issue. *)

HeadTask(que)     == prog[Head(que)].task
SameOrNone(t, que) == ~deq_valid(que) \/ t = HeadTask(que)

ld_resv_que_ready ==
  IF prog[Head(ld_cmd_que)].is_cfg
  THEN enq_ready(ld_cfg_resv_que, ld_cfg_resv_depth)
  ELSE enq_ready(ld_dat_resv_que, loadQueDepth)

(* The CFG/EXE bit at the head of ex_resv_que.  What is enqueued there is  *)
(* the bare task id, zero-extended to the width of the queue: never set.   *)
ex_resv_is_cfg == FALSE

\* The load must wait for the store, or for the CFG or EXE, in service.
AwaitStore(c) ==
  c.dep \in {LD_DEP_ST_LAST_TASK, LD_DEP_ST_LAST_SEC_TASK} /\ deq_valid(st_resv_que)
AwaitEx(c) ==
  /\ c.dep = LD_DEP_EX_LAST_TASK /\ deq_valid(ex_resv_que)
  /\ ~c.is_cfg \/ ex_resv_is_cfg

\* Neither an execute nor a store command of another task is ahead.
LdSameTask(c) ==
  /\ SameOrNone(c.task, ex_cmd_que) /\ SameOrNone(c.task, st_cmd_que)
  /\ ~AwaitStore(c) /\ ~AwaitEx(c)

\* Mutant of LdAheadOfStore: a dependence on the last task's stores only looks
\* at the store in service.
Bug_LdAheadOfStore(c) ==
  /\ SameOrNone(c.task, ex_cmd_que) /\ ~SameOrNone(c.task, st_cmd_que)
  /\ ~AwaitStore(c) /\ ~AwaitEx(c)

\* Stores of another task are still to be issued.
LdAheadOfStore(c) ==
  /\ SameOrNone(c.task, ex_cmd_que) /\ ~SameOrNone(c.task, st_cmd_que)
  /\ c.dep # LD_DEP_ST_LAST_TASK
  /\ ~AwaitStore(c) /\ ~AwaitEx(c)

\* Mutant of LdAheadOfEx: loads may run ahead by any number of tasks.
Bug_LdAheadOfEx(c) ==
  /\ ~SameOrNone(c.task, ex_cmd_que)
  /\ deq_valid(st_cmd_que) /\ HeadTask(ex_cmd_que) = HeadTask(st_cmd_que)
  /\ c.dep \notin {LD_DEP_ST_LAST_TASK, LD_DEP_EX_LAST_TASK}
  /\ ~AwaitStore(c)

\* Execute and store commands of another, common task are still to be issued.
LdAheadOfEx(c) ==
  /\ ~SameOrNone(c.task, ex_cmd_que)
  /\ deq_valid(st_cmd_que) /\ HeadTask(ex_cmd_que) = HeadTask(st_cmd_que)
  /\ c.dep \notin {LD_DEP_ST_LAST_TASK, LD_DEP_EX_LAST_TASK}
  /\ last_ld_cmd_task_id \in {c.task, HeadTask(ex_cmd_que)}
  /\ ~AwaitStore(c)

LdMayIssue ==
  /\ deq_valid(ld_cmd_que)
  /\ LET c == prog[Head(ld_cmd_que)]
     IN  LdSameTask(c) \/ LdAheadOfStore(c) \/ LdAheadOfEx(c)

\* io.ld.req.valid
ld_req_valid == ld_state = s_issue /\ ld_resv_que_ready

LdIssue(ldFire) ==
  \/ /\ ld_state = s_wait
     /\ ld_state' = IF LdMayIssue THEN s_issue ELSE s_wait
     /\ UNCHANGED last_ld_cmd_task_id
  \/ /\ ld_state = s_issue /\ ldFire
     /\ ld_state' = s_wait
     /\ last_ld_cmd_task_id' = HeadTask(ld_cmd_que)
  \/ /\ ld_state = s_issue /\ ~ldFire
     /\ UNCHANGED <<ld_state, last_ld_cmd_task_id>>

---------------------------------------------------------------------------
(* Execute issue (CFG and EXE share the queue). *)

ExAwaitsLoads(c) ==
  IF c.funct = CFG_CMD
  THEN deq_valid(ld_cfg_resv_que) /\ c.task = HeadTask(ld_cfg_resv_que)
  ELSE deq_valid(ld_dat_resv_que) /\ c.task = HeadTask(ld_dat_resv_que)

ExMayIssue ==
  /\ deq_valid(ex_cmd_que)
  /\ LET c == prog[Head(ex_cmd_que)]
     IN  /\ SameOrNone(c.task, st_cmd_que)
         /\ ~deq_valid(ld_cmd_que) \/ c.task # HeadTask(ld_cmd_que)
         /\ ~(c.dep = EX_DEP_ST_LAST_TASK /\ deq_valid(st_resv_que))
         /\ ~ExAwaitsLoads(c)

ex_req_valid == ex_state = s_issue /\ enq_ready(ex_resv_que, exeQueDepth)

ExIssue(exFire) ==
  \/ ex_state = s_wait  /\ ex_state' = IF ExMayIssue THEN s_issue ELSE s_wait
  \/ ex_state = s_issue /\ ex_state' = IF exFire THEN s_wait ELSE s_issue

---------------------------------------------------------------------------
(* Store issue. *)

StMayIssue ==
  /\ deq_valid(st_cmd_que)
  /\ LET t == HeadTask(st_cmd_que)
     IN  /\ ~deq_valid(ex_resv_que) \/ t # HeadTask(ex_resv_que)
         /\ ~deq_valid(ld_cmd_que)  \/ t # HeadTask(ld_cmd_que)
         /\ ~deq_valid(ex_cmd_que)  \/ t # HeadTask(ex_cmd_que)

st_req_valid == st_state = s_issue /\ enq_ready(st_resv_que, storeQueDepth)

StIssue(stFire) ==
  \/ st_state = s_wait  /\ st_state' = IF StMayIssue THEN s_issue ELSE s_wait
  \/ st_state = s_issue /\ st_state' = IF stFire THEN s_wait ELSE s_issue

---------------------------------------------------------------------------
(* The units, seen from their CoreIF ports.  Each serves its commands in   *)
(* order and answers with the id it was given.  The loader may take a      *)
(* command while others are in service; the storer (StoreController) and   *)
(* the CGRA controller (CGRAController) serve one at a time, and the       *)
(* latter takes a CFG only when it is idle and an EXE only after a CFG.    *)

st_req_ready == st_unit = <<>>
ex_req_ready ==
  ex_unit = <<>> /\ configured = (prog[Head(ex_cmd_que)].funct = EXE_CMD)

UnitStep(unit, resp, fire, que) ==
  LET rest == IF resp THEN Tail(unit) ELSE unit
  IN  IF fire THEN Append(rest, Head(que)) ELSE rest

Units(ldFire, ldResp, stFire, stResp, exFire, exResp) ==
  /\ ld_unit' = UnitStep(ld_unit, ldResp, ldFire, ld_cmd_que)
  /\ st_unit' = UnitStep(st_unit, stResp, stFire, st_cmd_que)
  /\ ex_unit' = UnitStep(ex_unit, exResp, exFire, ex_cmd_que)
  /\ configured' = IF exResp THEN prog[Head(ex_unit)].funct = CFG_CMD ELSE configured

---------------------------------------------------------------------------
(* Queue wiring. *)

CmdQueues(ldFire, stFire, exFire) ==
  /\ ld_cmd_que' = QueStep(ld_cmd_que, loadQueDepth, ldFire,
                           cmd_fire /\ prog[pc].funct = LOAD_CMD, pc)
  /\ st_cmd_que' = QueStep(st_cmd_que, storeQueDepth, stFire,
                           cmd_fire /\ prog[pc].funct = STORE_CMD, pc)
  /\ ex_cmd_que' = QueStep(ex_cmd_que, exeQueDepth, exFire,
                           cmd_fire /\ IsEx(prog[pc]), pc)

\* Mutant of ld_resp_is_cfg: the id of a request does not carry is_cfg.
Bug_ld_resp_is_cfg == FALSE

\* io.ld.resp.bits.id(taskIdWidth): the bit of the request's id, given back.
ld_resp_is_cfg == prog[Head(ld_unit)].is_cfg

ResvQueues(ldFire, ldResp, stFire, stResp, exFire, exResp) ==
  LET ldCfg == prog[Head(ld_cmd_que)].is_cfg
  IN  /\ ld_dat_resv_que' =
           QueStep(ld_dat_resv_que, loadQueDepth, ldResp /\ ~ld_resp_is_cfg,
                   ldFire /\ ~ldCfg, Head(ld_cmd_que))
      /\ ld_cfg_resv_que' =
           QueStep(ld_cfg_resv_que, ld_cfg_resv_depth, ldResp /\ ld_resp_is_cfg,
                   ldFire /\ ldCfg, Head(ld_cmd_que))
      /\ st_resv_que' = QueStep(st_resv_que, storeQueDepth, stResp, stFire,
                                Head(st_cmd_que))
      /\ ex_resv_que' = QueStep(ex_resv_que, exeQueDepth, exResp, exFire,
                                Head(ex_cmd_que))

---------------------------------------------------------------------------
Init ==
  /\ prog \in Programs /\ pc = 1 /\ cmd_valid = FALSE
  /\ state = s_idle /\ cmd_ready = FALSE /\ req_xd = FALSE /\ flush = FALSE
  /\ ld_cmd_que = <<>> /\ st_cmd_que = <<>> /\ ex_cmd_que = <<>>
  /\ ld_dat_resv_que = <<>> /\ ld_cfg_resv_que = <<>>
  /\ st_resv_que = <<>> /\ ex_resv_que = <<>>
  /\ ld_state = s_wait /\ st_state = s_wait /\ ex_state = s_wait
  /\ last_ld_cmd_task_id = 0
  /\ ld_unit = <<>> /\ st_unit = <<>> /\ ex_unit = <<>> /\ configured = FALSE

\* One clock cycle, given what fires in it.
Cycle(offer, respReady, ldFire, ldResp, stFire, stResp, exFire, exResp) ==
  /\ CoreStep(offer)
  /\ FrontEnd(respReady)
  /\ LdIssue(ldFire)
  /\ ExIssue(exFire)
  /\ StIssue(stFire)
  /\ CmdQueues(ldFire, stFire, exFire)
  /\ ResvQueues(ldFire, ldResp, stFire, stResp, exFire, exResp)
  /\ Units(ldFire, ldResp, stFire, stResp, exFire, exResp)

\* The other party decides when a valid transfer goes through.
May(valid) == IF valid THEN BOOLEAN ELSE {FALSE}

Next ==
  \E offer     \in May(~cmd_valid \/ cmd_ready),
     respReady \in May(resp_valid),
     ldFire    \in May(ld_req_valid),
     ldResp    \in May(ld_unit # <<>>),
     stResp    \in May(st_unit # <<>>),
     exResp    \in May(ex_unit # <<>>) :
    Cycle(offer, respReady, ldFire, ldResp,
          st_req_valid /\ st_req_ready, stResp,
          ex_req_valid /\ ex_req_ready, exResp)

Spec == Init /\ [][Next]_vars

(* The clock keeps ticking and no unit, nor the core, withholds for ever   *)
(* the only thing the others wait for.                                     *)
FairSpec == Spec /\ WF_vars(Next)

---------------------------------------------------------------------------
(* Properties. *)

Queued     == Elems(ld_cmd_que) \cup Elems(st_cmd_que) \cup Elems(ex_cmd_que)
InService  == Elems(ld_unit) \cup Elems(st_unit) \cup Elems(ex_unit)

\* The commands that have started, and those that have completed.
Started   == {i \in 1 .. (pc - 1) : i \notin Queued}
Completed == Started \ InService

\* A queue of positions of the program, within its depth.
QueueOf(que, depth) == que \in Seq(1 .. (pc - 1)) /\ Len(que) <= depth

(* Every register holds a value of its width, and no queue exceeds its     *)
(* depth, trackers included.                                               *)
TypeOK ==
  /\ prog \in Programs /\ pc \in 1 .. (Len(prog) + 1)
  /\ cmd_valid \in BOOLEAN /\ (cmd_valid => pc <= Len(prog))
  /\ state \in {s_idle, s_enq, s_fence, s_flush}
  /\ cmd_ready \in BOOLEAN /\ req_xd \in BOOLEAN /\ flush \in BOOLEAN
  /\ QueueOf(ld_cmd_que, loadQueDepth) /\ QueueOf(ld_dat_resv_que, loadQueDepth)
  /\ QueueOf(st_cmd_que, storeQueDepth) /\ QueueOf(st_resv_que, storeQueDepth)
  /\ QueueOf(ex_cmd_que, exeQueDepth) /\ QueueOf(ex_resv_que, exeQueDepth)
  /\ QueueOf(ld_cfg_resv_que, ld_cfg_resv_depth)
  /\ ld_state \in {s_wait, s_issue} /\ st_state \in {s_wait, s_issue}
  /\ ex_state \in {s_wait, s_issue}
  /\ last_ld_cmd_task_id \in TaskIds
  /\ QueueOf(ld_unit, loadQueDepth + ld_cfg_resv_depth)
  /\ QueueOf(st_unit, 1) /\ QueueOf(ex_unit, 1)
  /\ configured \in BOOLEAN

(* A tracker lists exactly the commands in service it stands for, in the   *)
(* order they are answered, so that the response of a unit always releases *)
(* the entry of the command it answers: "ld_resv_que.io.deq.bits ===       *)
(* io.ld.resp.bits.id // verification".  The loader answers data and       *)
(* configuration loads in one stream; each response pops the right tracker.*)
TrackersInStep ==
  /\ Increasing(ld_unit) /\ Increasing(ld_dat_resv_que) /\ Increasing(ld_cfg_resv_que)
  /\ Elems(ld_dat_resv_que) = {i \in Elems(ld_unit) : ~prog[i].is_cfg}
  /\ Elems(ld_cfg_resv_que) = {i \in Elems(ld_unit) : prog[i].is_cfg}
  /\ st_resv_que = st_unit
  /\ ex_resv_que = ex_unit

(* A command the core hands over is in its queue in the next cycle.  The   *)
(* room was checked a cycle earlier, when cmd_ready was raised.            *)
AcceptedIsQueued ==
  [][cmd_fire /\ IsQueued(prog[pc]) => pc \in Queued']_vars

(* The order of the tasks is kept. *)
Order == INSTANCE TaskOrder WITH started <- Started, completed <- Completed

(* The order of commands promised in TaskOrder is what the registers       *)
(* implement.                                                              *)
ImplementsTaskOrder == Order!Spec

(* A decision to issue is taken in one cycle and carried out in a later    *)
(* one, when the unit is ready.  All that must precede the command is      *)
(* complete whenever an issue FSM stands in s_issue, however long; only    *)
(* for earlier commands of the same unit is it the unit that waits.        *)
DecisionSound(fsm, que) ==
  fsm = s_issue => /\ deq_valid(que)
                   /\ \A j \in 1 .. (pc - 1) :
                        /\ Order!Precedes(j, Head(que))
                        /\ ~Order!SameUnit(prog[j], prog[Head(que)])
                        => j \in Completed

DecisionsSound ==
  /\ DecisionSound(ld_state, ld_cmd_que)
  /\ DecisionSound(ex_state, ex_cmd_que)
  /\ DecisionSound(st_state, st_cmd_que)

(* Every program runs to its end: all its commands are taken, started and  *)
(* completed and every fence is answered.                                  *)
AllDone == pc > Len(prog) /\ Completed = DOMAIN prog /\ state = s_idle
Progress == <>[]AllDone

(* The comment on ex_resv_que: "+1: identify cfg or exe command".  The bit  *)
(* at the head of the tracker tells a CFG in service from an EXE.          *)
ExResvIdentifiesCfg ==
  deq_valid(ex_resv_que) =>
    (ex_resv_is_cfg <=> prog[Head(ex_resv_que)].funct = CFG_CMD)
=============================================================================
