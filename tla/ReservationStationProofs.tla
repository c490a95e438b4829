--------------------- MODULE ReservationStationProofs ---------------------
(***************************************************************************)
(* Theorems about ReservationStation, for every set of programs and all    *)
(* queue depths.                                                           *)
(*                                                                         *)
(* The invariant Inv says where the commands are.  Positions go up along   *)
(* every queue and from a unit to the queue in front of it, the trackers   *)
(* list what the units serve, a command taken from the core was promised   *)
(* room in its queue, and an FSM that issues has a command to issue.       *)
(* It needs nothing of the programs but that they hold commands.           *)
(*                                                                         *)
(* The invariant OrderInv adds what has run when a command runs.  It is    *)
(* about the programs of KernelsAssumption: an FSM that looks at the heads *)
(* of the queues concludes from a head what lies behind it, which is right *)
(* only when the tasks follow one another.                                 *)
(***************************************************************************)
EXTENDS ReservationStation, TLAPS

---------------------------------------------------------------------------
(* Queues: what a step does to their elements, their order and their       *)
(* number, for queues of numbers in ascending order.                       *)

(* A queue over a set is one over any larger set. *)
LEMMA SeqMonotone ==
  ASSUME NEW S, NEW T, S \subseteq T, NEW q \in Seq(S)
  PROVE  q \in Seq(T)
  OBVIOUS

(* What Tail leaves of an ascending queue: all but its least element. *)
LEMMA TailFacts ==
  ASSUME NEW S \in SUBSET Int, NEW q \in Seq(S), q # <<>>, Increasing(q)
  PROVE  /\ Tail(q) \in Seq(S)
         /\ Len(Tail(q)) = Len(q) - 1
         /\ Head(q) \in Elems(q)
         /\ \A e \in Elems(q) : Head(q) <= e
         /\ Increasing(Tail(q))
         /\ Elems(Tail(q)) = Elems(q) \ {Head(q)}
<1>1. Len(q) \in Nat \ {0} /\ DOMAIN q = 1 .. Len(q)
  OBVIOUS
<1>2. \A n \in 1 .. Len(q) : q[n] \in Int
  <2>1. \A n \in 1 .. Len(q) : q[n] \in S
    BY <1>1
  <2>2. QED BY <2>1
<1>3. Head(q) = q[1]
  OBVIOUS
<1>4. /\ Tail(q) \in Seq(S) /\ Len(Tail(q)) = Len(q) - 1
      /\ DOMAIN Tail(q) = 1 .. (Len(q) - 1)
      /\ \A n \in 1 .. (Len(q) - 1) : Tail(q)[n] = q[n + 1]
  BY <1>1
<1>5. \A a, b \in 1 .. Len(q) : a < b => q[a] < q[b]
  BY <1>1 DEF Increasing
<1>6. \A e \in Elems(q) : Head(q) <= e
  BY <1>1, <1>2, <1>3, <1>5 DEF Elems
<1>7. Increasing(Tail(q))
  BY <1>1, <1>4, <1>5 DEF Increasing
<1>8. Elems(Tail(q)) = Elems(q) \ {Head(q)}
  <2>1. ASSUME NEW e \in Elems(Tail(q)) PROVE e \in Elems(q) \ {Head(q)}
    <3>1. PICK n \in 1 .. (Len(q) - 1) : e = q[n + 1]
      BY <1>4 DEF Elems
    <3>2. n + 1 \in 1 .. Len(q) /\ 1 \in 1 .. Len(q) /\ 1 < n + 1
      BY <1>1
    <3>3. q[1] < q[n + 1]
      BY <3>2, <1>5
    <3>4. e # Head(q)
      BY <3>1, <3>2, <3>3, <1>2, <1>3
    <3>5. QED BY <3>1, <3>2, <3>4, <1>1 DEF Elems
  <2>2. ASSUME NEW e \in Elems(q) \ {Head(q)} PROVE e \in Elems(Tail(q))
    <3>1. PICK n \in 1 .. Len(q) : e = q[n]
      BY <1>1 DEF Elems
    <3>2. n # 1
      BY <3>1, <1>3
    <3>3. n - 1 \in 1 .. (Len(q) - 1) /\ (n - 1) + 1 = n
      BY <3>1, <3>2, <1>1
    <3>4. Tail(q)[n - 1] = e
      BY <3>1, <3>3, <1>4
    <3>5. QED BY <3>3, <3>4, <1>4 DEF Elems
  <2>3. QED BY <2>1, <2>2
<1>9. Head(q) \in Elems(q)
  BY <1>1, <1>3 DEF Elems
<1>10. QED BY <1>4, <1>6, <1>7, <1>8, <1>9

(* Appending an element larger than all others keeps the queue ascending. *)
LEMMA AppendFacts ==
  ASSUME NEW S \in SUBSET Int, NEW q \in Seq(S), Increasing(q),
         NEW x \in S, \A e \in Elems(q) : e < x
  PROVE  /\ Append(q, x) \in Seq(S)
         /\ Len(Append(q, x)) = Len(q) + 1
         /\ Increasing(Append(q, x))
         /\ Elems(Append(q, x)) = Elems(q) \cup {x}
<1>1. Len(q) \in Nat /\ DOMAIN q = 1 .. Len(q)
  OBVIOUS
<1>2. /\ Append(q, x) \in Seq(S) /\ Len(Append(q, x)) = Len(q) + 1
      /\ DOMAIN Append(q, x) = 1 .. (Len(q) + 1)
      /\ \A n \in 1 .. Len(q) : Append(q, x)[n] = q[n]
      /\ Append(q, x)[Len(q) + 1] = x
  BY <1>1
<1>3. \A n \in 1 .. Len(q) : q[n] < x
  BY <1>1 DEF Elems
<1>4. Increasing(Append(q, x))
  <2>1. SUFFICES ASSUME NEW a \in 1 .. (Len(q) + 1), NEW b \in 1 .. (Len(q) + 1), a < b
                 PROVE  Append(q, x)[a] < Append(q, x)[b]
    BY <1>2 DEF Increasing
  <2>2. CASE b = Len(q) + 1
    BY <2>1, <2>2, <1>1, <1>2, <1>3
  <2>3. CASE b # Len(q) + 1
    <3>1. a \in 1 .. Len(q) /\ b \in 1 .. Len(q)
      BY <2>1, <2>3, <1>1
    <3>2. q[a] < q[b]
      BY <3>1, <2>1, <1>1 DEF Increasing
    <3>3. QED BY <3>1, <3>2, <1>2
  <2>4. QED BY <2>2, <2>3
<1>5. Elems(Append(q, x)) = Elems(q) \cup {x}
  BY <1>1, <1>2 DEF Elems
<1>6. QED BY <1>2, <1>4, <1>5

(* A queue that removes (d = 1) and adds (e = 1) an element in one step.   *)
(* The flags are numbers, which the provers handle better than Booleans.   *)
Bit(b) == IF b THEN 1 ELSE 0

Moved(q, d, e, x) ==
  LET rest == IF d = 1 THEN Tail(q) ELSE q
  IN  IF e = 1 THEN Append(rest, x) ELSE rest

\* What such a step asks of an ascending queue over S, and what it does.
MoveFits(S, q, d, e, x) ==
  /\ S \in SUBSET Int /\ q \in Seq(S) /\ Increasing(q)
  /\ d \in {0, 1} /\ e \in {0, 1}
  /\ d = 1 => q # <<>>
  /\ e = 1 => x \in S /\ \A y \in Elems(q) : y < x

MoveDone(S, q, d, e, x) ==
  /\ Moved(q, d, e, x) \in Seq(S)
  /\ Increasing(Moved(q, d, e, x))
  /\ Elems(Moved(q, d, e, x)) =
       (Elems(q) \ (IF d = 1 THEN {Head(q)} ELSE {})) \cup (IF e = 1 THEN {x} ELSE {})
  /\ Len(Moved(q, d, e, x)) = Len(q) - d + e

(* One step of a queue: what it holds afterwards, in order, and how much.  *)
LEMMA MovedFacts ==
  ASSUME NEW S, NEW q, NEW d, NEW e, NEW x, MoveFits(S, q, d, e, x)
  PROVE  MoveDone(S, q, d, e, x)
<1> USE DEF MoveFits
<1> DEFINE rest == IF d = 1 THEN Tail(q) ELSE q
<1>1. /\ rest \in Seq(S) /\ Increasing(rest) /\ Len(rest) = Len(q) - d
      /\ Elems(rest) = Elems(q) \ (IF d = 1 THEN {Head(q)} ELSE {})
  <2>1. Len(q) \in Nat
    BY DEF MoveFits
  <2>2. CASE d = 1
    BY <2>1, <2>2, TailFacts
  <2>3. CASE d = 0
    BY <2>1, <2>3
  <2>4. QED BY <2>2, <2>3
<1>2. CASE e = 1
  <2>1. Moved(q, d, e, x) = Append(rest, x)
    BY <1>2 DEF Moved
  <2>2. \A y \in Elems(rest) : y < x
    BY <1>1, <1>2
  <2>3. /\ Append(rest, x) \in Seq(S) /\ Len(Append(rest, x)) = Len(rest) + 1
        /\ Increasing(Append(rest, x)) /\ Elems(Append(rest, x)) = Elems(rest) \cup {x}
    BY <1>1, <1>2, <2>2, AppendFacts, ZenonT(40)
  <2>4. Len(q) \in Nat
    OBVIOUS
  <2>5. QED
    <3> HIDE DEF rest
    <3> QED BY <1>1, <1>2, <2>1, <2>3, <2>4 DEF MoveDone
<1>3. CASE e = 0
  <2>1. Moved(q, d, e, x) = rest
    BY <1>3 DEF Moved
  <2>2. Len(q) \in Nat
    OBVIOUS
  <2>3. QED
    <3> HIDE DEF rest
    <3> QED BY <1>1, <1>3, <2>1, <2>2 DEF MoveDone
<1>4. QED BY <1>2, <1>3 DEF MoveDone

---------------------------------------------------------------------------
(* The invariant. *)

(* The handshake with the core: a command is only taken in the cycle after *)
(* the decision to take it, when it is still offered and its queue, if it  *)
(* goes to one, still has room.                                            *)
Handshake ==
  /\ cmd_ready => cmd_valid
  /\ state = s_idle => ~cmd_ready
  /\ state = s_enq => cmd_ready /\ QueueReadyFor(prog[pc])
  /\ state \in {s_fence, s_flush} /\ cmd_ready => ~IsQueued(prog[pc])

(* Every command is in the queue and the unit made for it. *)
Kinds ==
  /\ \A i \in Elems(ld_cmd_que) \cup Elems(ld_unit) : prog[i].funct = LOAD_CMD
  /\ \A i \in Elems(st_cmd_que) \cup Elems(st_unit) : prog[i].funct = STORE_CMD
  /\ \A i \in Elems(ex_cmd_que) \cup Elems(ex_unit) : IsEx(prog[i])

Behind(unit, que) == \A i \in Elems(unit), j \in Elems(que) : i < j

(* Commands of one kind stay in program order. *)
InOrder ==
  /\ Increasing(ld_cmd_que) /\ Increasing(st_cmd_que) /\ Increasing(ex_cmd_que)
  /\ Behind(ld_unit, ld_cmd_que) /\ Behind(st_unit, st_cmd_que)
  /\ Behind(ex_unit, ex_cmd_que)

Issuing ==
  /\ ld_state = s_issue => ld_cmd_que # <<>>
  /\ st_state = s_issue => st_cmd_que # <<>>
  /\ ex_state = s_issue => ex_cmd_que # <<>>

TrackerSizes ==
  /\ Len(ld_unit) = Len(ld_dat_resv_que) + Len(ld_cfg_resv_que)
  /\ Increasing(st_unit) /\ Increasing(ex_unit)

Inv == TypeOK /\ Handshake /\ Kinds /\ InOrder /\ Issuing /\ TrackersInStep /\ TrackerSizes

---------------------------------------------------------------------------
(* The steps of queues and units as moves. *)
LEMMA QueStepMoved ==
  ASSUME NEW q, NEW depth \in Nat, NEW deq, NEW enq, NEW x
  PROVE  QueStep(q, depth, deq, enq, x) =
           Moved(q, Bit(deq /\ q # <<>>), Bit(enq /\ Len(q) < depth), x)
BY DEF QueStep, Moved, Bit, deq_valid, enq_ready

LEMMA UnitStepMoved ==
  ASSUME NEW u, NEW resp, NEW fire, NEW que
  PROVE  UnitStep(u, resp, fire, que) = Moved(u, Bit(resp), Bit(fire), Head(que))
BY DEF UnitStep, Moved, Bit

(* The positions of a program hold commands. *)
LEMMA ProgFacts ==
  ASSUME TypeOK
  PROVE  /\ prog \in Seq(Command) /\ Len(prog) \in Nat
         /\ \A i \in 1 .. Len(prog) :
              /\ prog[i] \in Command
              /\ prog[i].is_cfg \in BOOLEAN /\ prog[i].task \in TaskIds
              /\ prog[i].funct \in Functs
         /\ pc \in Nat /\ 1 <= pc /\ pc <= Len(prog) + 1
<1>1. prog \in Seq(Command)
  BY ProgramsAssumption DEF TypeOK
<1>2. \A i \in 1 .. Len(prog) : prog[i] \in Command
  BY <1>1
<1>3. \A i \in 1 .. Len(prog) : /\ prog[i].is_cfg \in BOOLEAN
                                /\ prog[i].task \in TaskIds
                                /\ prog[i].funct \in Functs
  BY <1>2 DEF Command
<1>4. Len(prog) \in Nat
  BY <1>1
<1>5. QED BY <1>1, <1>2, <1>3, <1>4 DEF TypeOK

LEMMA InitInv == Init => Inv
<1> SUFFICES ASSUME Init PROVE Inv
  OBVIOUS
<1>1. Elems(<<>>) = {} /\ Increasing(<<>>)
  BY DEF Elems, Increasing
<1>2. \A S : <<>> \in Seq(S)
  OBVIOUS
<1>3. Len(prog) \in Nat
  BY ProgramsAssumption DEF Init
<1>4. TypeOK
  <2>1. 0 \in TaskIds
    BY DEF TaskIds, TASK_ID_WIDTH
  <2>2. Len(<<>>) = 0
    OBVIOUS
  <2>3. \A d \in Nat : QueueOf(<<>>, d)
    BY <1>2, <2>2 DEF QueueOf
  <2>4. loadQueDepth + ld_cfg_resv_depth \in Nat /\ ld_cfg_resv_depth \in Nat /\ 1 \in Nat
    BY DepthAssumption DEF ld_cfg_resv_depth
  <2>5. /\ QueueOf(ld_cmd_que, loadQueDepth) /\ QueueOf(ld_dat_resv_que, loadQueDepth)
        /\ QueueOf(st_cmd_que, storeQueDepth) /\ QueueOf(st_resv_que, storeQueDepth)
        /\ QueueOf(ex_cmd_que, exeQueDepth) /\ QueueOf(ex_resv_que, exeQueDepth)
        /\ QueueOf(ld_cfg_resv_que, ld_cfg_resv_depth)
        /\ QueueOf(ld_unit, loadQueDepth + ld_cfg_resv_depth)
        /\ QueueOf(st_unit, 1) /\ QueueOf(ex_unit, 1)
    BY <2>3, <2>4, DepthAssumption DEF Init
  <2>6. pc \in 1 .. (Len(prog) + 1)
    BY <1>3 DEF Init
  <2>7. QED
    BY <2>1, <2>5, <2>6, Zenon DEF Init, TypeOK
<1>5. QED
  BY <1>1, <1>4 DEF Init, Inv, Handshake, Kinds, InOrder, Behind, Issuing, TrackersInStep,
     TrackerSizes, s_idle, s_enq, s_fence, s_flush, s_wait, s_issue

---------------------------------------------------------------------------
(* One cycle with given inputs. *)
StFires == st_req_valid /\ st_req_ready
ExFires == ex_req_valid /\ ex_req_ready

CycleOf(offer, respReady, ldFire, ldResp, stResp, exResp) ==
  /\ ldFire \in BOOLEAN /\ (ldFire => ld_req_valid)
  /\ ldResp \in BOOLEAN /\ (ldResp => ld_unit # <<>>)
  /\ stResp \in BOOLEAN /\ (stResp => st_unit # <<>>)
  /\ exResp \in BOOLEAN /\ (exResp => ex_unit # <<>>)
  /\ Cycle(offer, respReady, ldFire, ldResp, StFires, stResp, ExFires, exResp)

LEMMA NextIsCycle ==
  Next => \E offer, respReady, ldFire, ldResp, stResp, exResp \in BOOLEAN :
            CycleOf(offer, respReady, ldFire, ldResp, stResp, exResp)
<1>1. \A v : v \in BOOLEAN => \A x \in May(v) : x \in BOOLEAN /\ (x => v)
  BY DEF May
<1>2. SUFFICES ASSUME Next
      PROVE  \E offer, respReady, ldFire, ldResp, stResp, exResp \in BOOLEAN :
               CycleOf(offer, respReady, ldFire, ldResp, stResp, exResp)
  OBVIOUS
<1>3. PICK offer \in May(~cmd_valid \/ cmd_ready), respReady \in May(resp_valid),
           ldFire \in May(ld_req_valid), ldResp \in May(ld_unit # <<>>),
           stResp \in May(st_unit # <<>>), exResp \in May(ex_unit # <<>>) :
        Cycle(offer, respReady, ldFire, ldResp, StFires, stResp, ExFires, exResp)
  BY <1>2 DEF Next, StFires, ExFires
<1>4. /\ offer \in BOOLEAN /\ respReady \in BOOLEAN
      /\ ldFire \in BOOLEAN /\ (ldFire => ld_req_valid)
      /\ ldResp \in BOOLEAN /\ (ldResp => ld_unit # <<>>)
      /\ stResp \in BOOLEAN /\ (stResp => st_unit # <<>>)
      /\ exResp \in BOOLEAN /\ (exResp => ex_unit # <<>>)
  BY DEF May
<1>5. QED
  BY <1>3, <1>4, ZenonT(40) DEF CycleOf

(* The core and the front end. *)
LEMMA FrontStep ==
  ASSUME Inv, NEW offer \in BOOLEAN, NEW respReady \in BOOLEAN,
         NEW ldFire, NEW ldResp, NEW stResp, NEW exResp,
         CycleOf(offer, respReady, ldFire, ldResp, stResp, exResp)
  PROVE  /\ prog' = prog /\ prog' \in Programs
         /\ pc' = IF cmd_fire THEN pc + 1 ELSE pc
         /\ pc' \in 1 .. (Len(prog') + 1)
         /\ cmd_valid' \in BOOLEAN /\ (cmd_valid' => pc' <= Len(prog'))
         /\ state' \in {s_idle, s_enq, s_fence, s_flush}
         /\ cmd_ready' \in BOOLEAN /\ req_xd' \in BOOLEAN /\ flush' \in BOOLEAN
         /\ cmd_fire /\ prog[pc].funct = LOAD_CMD => Len(ld_cmd_que) < loadQueDepth
         /\ cmd_fire /\ prog[pc].funct = STORE_CMD => Len(st_cmd_que) < storeQueDepth
         /\ cmd_fire /\ IsEx(prog[pc]) => Len(ex_cmd_que) < exeQueDepth
         /\ cmd_fire => pc <= Len(prog)
<1>1. CoreStep(offer) /\ FrontEnd(respReady)
  BY DEF CycleOf, Cycle
<1>2. TypeOK /\ Handshake
  BY DEF Inv
<1>3. /\ pc \in Nat /\ 1 <= pc /\ pc <= Len(prog) + 1 /\ Len(prog) \in Nat
  BY <1>2, ProgFacts
<1>4. cmd_fire => pc <= Len(prog)
  BY <1>2 DEF TypeOK, cmd_fire
<1>5. prog' = prog /\ prog' \in Programs /\ pc' = IF cmd_fire THEN pc + 1 ELSE pc
  BY <1>1, <1>2 DEF CoreStep, TypeOK
<1>6. pc' \in 1 .. (Len(prog') + 1)
  BY <1>3, <1>4, <1>5
<1>7. cmd_valid' \in BOOLEAN /\ (cmd_valid' => pc' <= Len(prog'))
  <2>1. CASE cmd_valid /\ ~cmd_ready
    BY <2>1, <1>1, <1>2, <1>5 DEF CoreStep, cmd_fire, TypeOK
  <2>2. CASE ~(cmd_valid /\ ~cmd_ready)
    BY <2>2, <1>1, <1>5 DEF CoreStep, MoreAfter
  <2>3. QED BY <2>1, <2>2
<1>8. /\ state' \in {s_idle, s_enq, s_fence, s_flush}
      /\ cmd_ready' \in BOOLEAN /\ flush' \in BOOLEAN
  BY <1>1, <1>2 DEF FrontEnd, FrontFlush, FrontFence, FrontAccept, FrontHold, FrontEnq,
     FrontFenceResp, FrontFlushResp, front, TypeOK
<1>9. req_xd' \in BOOLEAN
  <2>1. CASE FrontFence
    <3>1. pc \in 1 .. Len(prog)
      BY <2>1, <1>2, <1>3 DEF FrontFence, TypeOK
    <3>2. prog[pc].xd \in BOOLEAN
      BY <3>1, <1>2, ProgFacts DEF Command
    <3>3. QED BY <2>1, <3>2 DEF FrontFence
  <2>2. CASE ~FrontFence
    BY <1>1, <1>2, <2>2 DEF FrontEnd, FrontFlush, FrontAccept, FrontHold, FrontEnq,
       FrontFenceResp, FrontFlushResp, front, TypeOK
  <2>3. QED BY <2>1, <2>2
<1>10. cmd_fire => \/ state = s_enq /\ QueueReadyFor(prog[pc])
                   \/ ~IsQueued(prog[pc])
  BY <1>2 DEF Handshake, cmd_fire, TypeOK
<1>11. /\ cmd_fire /\ prog[pc].funct = LOAD_CMD => Len(ld_cmd_que) < loadQueDepth
       /\ cmd_fire /\ prog[pc].funct = STORE_CMD => Len(st_cmd_que) < storeQueDepth
       /\ cmd_fire /\ IsEx(prog[pc]) => Len(ex_cmd_que) < exeQueDepth
  BY <1>10 DEF QueueReadyFor, IsQueued, IsEx, enq_ready,
     LOAD_CMD, STORE_CMD, CFG_CMD, EXE_CMD
<1>12. QED
  BY <1>4, <1>5, <1>6, <1>7, <1>8, <1>9, <1>11

(* A command queue and the unit behind it, in one cycle.  The unit takes   *)
(* the head of the queue when fire, answers its own head when resp; the    *)
(* queue takes the core's command when enq.                                *)
LEMMA QueueAndUnit ==
  ASSUME NEW n \in Nat, NEW m \in Nat, n <= m,
         NEW que \in Seq(1 .. n), NEW unit \in Seq(1 .. n),
         Increasing(que), Increasing(unit), Behind(unit, que),
         NEW d \in {0, 1}, NEW e \in {0, 1}, NEW r \in {0, 1},
         d = 1 => que # <<>>,
         r = 1 => unit # <<>>,
         e = 1 => m = n + 1,
         NEW que2, que2 = Moved(que, d, e, n + 1),
         NEW unit2, unit2 = Moved(unit, r, d, Head(que))
  PROVE  /\ MoveDone(1 .. m, que, d, e, n + 1)
         /\ MoveFits(1 .. m, unit, r, d, Head(que))
         /\ MoveDone(1 .. m, unit, r, d, Head(que))
         /\ Behind(unit2, que2)
<1>1. que \in Seq(1 .. m) /\ unit \in Seq(1 .. m)
  <2>1. 1 .. n \subseteq 1 .. m
    OBVIOUS
  <2>2. QED BY <2>1, SeqMonotone
<1>2. 1 .. m \in SUBSET Int
  OBVIOUS
<1>3. \A x \in Elems(que) \cup Elems(unit) : x \in 1 .. n
  BY DEF Elems
<1>4. e = 1 => n + 1 \in 1 .. m /\ \A y \in Elems(que) : y < n + 1
  BY <1>3
<1>5. d = 1 => /\ Head(que) \in Elems(que) /\ \A y \in Elems(que) : Head(que) <= y
  BY <1>1, <1>2, TailFacts
<1>6. d = 1 => Head(que) \in 1 .. m /\ \A y \in Elems(unit) : y < Head(que)
  BY <1>3, <1>5 DEF Behind
<1>7. MoveDone(1 .. m, que, d, e, n + 1)
  <2>1. MoveFits(1 .. m, que, d, e, n + 1)
    BY <1>1, <1>2, <1>4 DEF MoveFits
  <2>2. QED BY <2>1, MovedFacts, Zenon
<1>8. MoveFits(1 .. m, unit, r, d, Head(que)) /\ MoveDone(1 .. m, unit, r, d, Head(que))
  <2>1. MoveFits(1 .. m, unit, r, d, Head(que))
    BY <1>1, <1>2, <1>6 DEF MoveFits
  <2>2. QED BY <2>1, MovedFacts, Zenon
<1>9. Behind(unit2, que2)
  <2>1. SUFFICES ASSUME NEW i \in Elems(unit2), NEW j \in Elems(que2) PROVE i < j
    BY DEF Behind
  <2>2. i \in Elems(unit) \/ (d = 1 /\ i = Head(que))
    BY <1>8 DEF MoveDone
  <2>3. (j \in Elems(que) /\ (d = 1 => j # Head(que))) \/ (e = 1 /\ j = n + 1)
    BY <1>7 DEF MoveDone
  <2>4. CASE i \in Elems(unit) /\ j \in Elems(que)
    BY <2>4 DEF Behind
  <2>5. CASE d = 1 /\ i = Head(que) /\ j \in Elems(que) /\ j # Head(que)
    BY <2>5, <1>3, <1>5
  <2>6. CASE j = n + 1
    BY <2>2, <2>6, <1>3, <1>5
  <2>7. QED BY <2>2, <2>3, <2>4, <2>5, <2>6
<1>10. QED
  BY <1>7, <1>8, <1>9

(* The tracker of some of the commands of a unit has their first at its    *)
(* head when that is the one the unit answers.                             *)
LEMMA HeadOfTracker ==
  ASSUME NEW S \in SUBSET Int, NEW unit \in Seq(S), NEW tracker \in Seq(S),
         Increasing(unit), Increasing(tracker), unit # <<>>,
         Elems(tracker) \subseteq Elems(unit), Head(unit) \in Elems(tracker)
  PROVE  tracker # <<>> /\ Head(tracker) = Head(unit)
<1>1. tracker # <<>>
  BY DEF Elems
<1>2. /\ Head(tracker) \in Elems(tracker) /\ \A y \in Elems(tracker) : Head(tracker) <= y
      /\ Head(unit) \in Elems(unit) /\ \A y \in Elems(unit) : Head(unit) <= y
  BY <1>1, TailFacts
<1>3. Head(tracker) \in Int /\ Head(unit) \in Int
  <2>1. DOMAIN unit = 1 .. Len(unit) /\ \A n \in DOMAIN unit : unit[n] \in S
    OBVIOUS
  <2>2. \A y \in Elems(unit) : y \in S
    BY <2>1 DEF Elems
  <2>3. Head(unit) \in S /\ Head(tracker) \in S
    BY <1>2, <2>2
  <2>4. QED BY <2>3
<1>4. QED
  BY <1>1, <1>2, <1>3

(* A tracker of those commands of a unit that lie in C follows the unit.   *)
TrackerFits(S, C, unit, tracker, r, d, x, r2, d2) ==
  /\ MoveFits(S, unit, r, d, x)
  /\ tracker \in Seq(S) /\ Increasing(tracker)
  /\ Elems(tracker) = Elems(unit) \cap C
  /\ r2 = Bit(r = 1 /\ Head(unit) \in C)
  /\ d2 = Bit(d = 1 /\ x \in C)

TrackerDone(S, C, unit, tracker, r, d, x, r2, d2) ==
  /\ MoveDone(S, tracker, r2, d2, x)
  /\ Elems(Moved(tracker, r2, d2, x)) = Elems(Moved(unit, r, d, x)) \cap C

LEMMA TrackerStep ==
  ASSUME NEW S, NEW C, NEW unit, NEW tracker, NEW r, NEW d, NEW x, NEW r2, NEW d2,
         TrackerFits(S, C, unit, tracker, r, d, x, r2, d2)
  PROVE  TrackerDone(S, C, unit, tracker, r, d, x, r2, d2)
<1> USE DEF TrackerFits
<1>1. r2 \in {0, 1} /\ d2 \in {0, 1}
  BY DEF Bit
<1>2. r2 = 1 => /\ tracker # <<>> /\ Head(tracker) = Head(unit)
                /\ r = 1 /\ Head(unit) \in C
  <2>1. SUFFICES ASSUME r2 = 1 PROVE /\ tracker # <<>> /\ Head(tracker) = Head(unit)
                                     /\ r = 1 /\ Head(unit) \in C
    OBVIOUS
  <2>2. r = 1 /\ Head(unit) \in C
    BY <2>1 DEF Bit
  <2>3. /\ S \in SUBSET Int /\ unit \in Seq(S) /\ Increasing(unit) /\ unit # <<>>
    BY <2>2 DEF MoveFits
  <2>4. Head(unit) \in Elems(tracker)
    BY <2>2, <2>3, TailFacts
  <2>5. Elems(tracker) \subseteq Elems(unit)
    OBVIOUS
  <2>6. QED BY <2>2, <2>3, <2>4, <2>5, HeadOfTracker
<1>3. d2 = 1 => d = 1 /\ x \in C
  BY DEF Bit
<1>4. MoveFits(S, tracker, r2, d2, x)
  BY <1>1, <1>2, <1>3 DEF MoveFits
<1>5. MoveDone(S, tracker, r2, d2, x) /\ MoveDone(S, unit, r, d, x)
  BY <1>4, MovedFacts, Zenon
<1>6. r \in {0, 1} /\ d \in {0, 1}
  BY DEF MoveFits
<1>7. Elems(Moved(tracker, r2, d2, x)) = Elems(Moved(unit, r, d, x)) \cap C
  BY <1>2, <1>5, <1>6 DEF MoveDone, Bit
<1>8. QED BY <1>5, <1>7 DEF TrackerDone

(* The positions handed out in a cycle. *)
LEMMA PcStep ==
  ASSUME Inv, NEW offer \in BOOLEAN, NEW respReady \in BOOLEAN,
         NEW ldFire, NEW ldResp, NEW stResp, NEW exResp,
         CycleOf(offer, respReady, ldFire, ldResp, stResp, exResp)
  PROVE  /\ pc - 1 \in Nat /\ pc' - 1 \in Nat /\ pc - 1 <= pc' - 1
         /\ pc = (pc - 1) + 1
         /\ cmd_fire => pc' - 1 = (pc - 1) + 1
<1>1. TypeOK
  BY DEF Inv
<1>2. pc \in Nat /\ 1 <= pc
  BY <1>1, ProgFacts
<1>3. pc' = IF cmd_fire THEN pc + 1 ELSE pc
  BY FrontStep, Zenon
<1>4. QED BY <1>2, <1>3

\* The command queue and the unit of one kind, after a cycle.
KindStep(que, unit, que2, unit2, r, d, e) ==
  /\ que2 = Moved(que, d, e, pc)
  /\ unit2 = Moved(unit, r, d, Head(que))
  /\ MoveFits(1 .. (pc' - 1), unit, r, d, Head(que))
  /\ MoveDone(1 .. (pc' - 1), que, d, e, pc)
  /\ MoveDone(1 .. (pc' - 1), unit, r, d, Head(que))
  /\ Behind(unit2, que2)

LEMMA KindStepOf ==
  ASSUME Inv, NEW offer \in BOOLEAN, NEW respReady \in BOOLEAN,
         NEW ldFire, NEW ldResp, NEW stResp, NEW exResp,
         CycleOf(offer, respReady, ldFire, ldResp, stResp, exResp),
         NEW que \in Seq(1 .. (pc - 1)), NEW unit \in Seq(1 .. (pc - 1)),
         Increasing(que), Increasing(unit), Behind(unit, que),
         NEW d \in {0, 1}, NEW e \in {0, 1}, NEW r \in {0, 1},
         d = 1 => que # <<>>, r = 1 => unit # <<>>, e = 1 => cmd_fire,
         NEW que2, que2 = Moved(que, d, e, pc),
         NEW unit2, unit2 = Moved(unit, r, d, Head(que))
  PROVE  KindStep(que, unit, que2, unit2, r, d, e)
<1> DEFINE n == pc - 1
           m == pc' - 1
<1>1. /\ n \in Nat /\ m \in Nat /\ n <= m /\ pc = n + 1
      /\ e = 1 => m = n + 1
  BY PcStep
<1>2. que \in Seq(1 .. n) /\ unit \in Seq(1 .. n)
  OBVIOUS
<1> HIDE DEF n, m
<1>3. que2 = Moved(que, d, e, n + 1)
  BY <1>1
<1>4. /\ MoveDone(1 .. m, que, d, e, n + 1)
      /\ MoveFits(1 .. m, unit, r, d, Head(que))
      /\ MoveDone(1 .. m, unit, r, d, Head(que))
      /\ Behind(unit2, que2)
  BY <1>1, <1>2, <1>3, QueueAndUnit
<1>5. MoveDone(1 .. m, que, d, e, pc)
  BY <1>1, <1>4
<1>6. QED
  BY <1>4, <1>5 DEF KindStep, m

---------------------------------------------------------------------------
(* The loads in a cycle. *)
LdEnq == cmd_fire /\ prog[pc].funct = LOAD_CMD

LEMMA LoadStep ==
  ASSUME Inv, NEW offer \in BOOLEAN, NEW respReady \in BOOLEAN,
         NEW ldFire, NEW ldResp, NEW stResp, NEW exResp,
         CycleOf(offer, respReady, ldFire, ldResp, stResp, exResp)
  PROVE  /\ KindStep(ld_cmd_que, ld_unit, ld_cmd_que', ld_unit',
                     Bit(ldResp), Bit(ldFire), Bit(LdEnq))
         /\ Len(ld_cmd_que') <= loadQueDepth
<1> DEFINE d == Bit(ldFire)
           e == Bit(LdEnq)
           r == Bit(ldResp)
<1>1. /\ CmdQueues(ldFire, StFires, ExFires)
      /\ Units(ldFire, ldResp, StFires, stResp, ExFires, exResp)
      /\ ldFire \in BOOLEAN /\ (ldFire => ld_req_valid)
      /\ ldResp \in BOOLEAN /\ (ldResp => ld_unit # <<>>)
  BY DEF CycleOf, Cycle
<1>2. TypeOK /\ InOrder /\ Issuing /\ TrackersInStep
  BY DEF Inv
<1>3. /\ ld_cmd_que \in Seq(1 .. (pc - 1)) /\ ld_unit \in Seq(1 .. (pc - 1))
      /\ Len(ld_cmd_que) <= loadQueDepth
  BY <1>2 DEF TypeOK, QueueOf
<1>4. Increasing(ld_cmd_que) /\ Increasing(ld_unit) /\ Behind(ld_unit, ld_cmd_que)
  BY <1>2 DEF InOrder, TrackersInStep
<1>5. /\ d \in {0, 1} /\ e \in {0, 1} /\ r \in {0, 1}
      /\ (d = 1 => ldFire) /\ (r = 1 => ldResp) /\ (e = 1 => LdEnq)
  BY <1>1 DEF Bit
<1>6. /\ ldFire => ld_cmd_que # <<>>
      /\ LdEnq => cmd_fire /\ Len(ld_cmd_que) < loadQueDepth
  <2>1. ldFire => ld_cmd_que # <<>>
    BY <1>1, <1>2 DEF ld_req_valid, Issuing
  <2>2. LdEnq => Len(ld_cmd_que) < loadQueDepth
    BY FrontStep, Zenon DEF LdEnq
  <2>3. QED BY <2>1, <2>2 DEF LdEnq
<1>7. ld_cmd_que' = Moved(ld_cmd_que, d, e, pc)
  <2>1. ld_cmd_que' = QueStep(ld_cmd_que, loadQueDepth, ldFire, LdEnq, pc)
    BY <1>1 DEF CmdQueues, LdEnq
  <2>2. ld_cmd_que' = Moved(ld_cmd_que, Bit(ldFire /\ ld_cmd_que # <<>>),
                            Bit(LdEnq /\ Len(ld_cmd_que) < loadQueDepth), pc)
    BY <2>1, QueStepMoved, DepthAssumption
  <2>3. /\ Bit(ldFire /\ ld_cmd_que # <<>>) = d
        /\ Bit(LdEnq /\ Len(ld_cmd_que) < loadQueDepth) = e
    BY <1>6 DEF Bit
  <2>4. QED BY <2>2, <2>3
<1>8. ld_unit' = Moved(ld_unit, r, d, Head(ld_cmd_que))
  BY <1>1, UnitStepMoved DEF Units
<1>9. /\ d = 1 => ld_cmd_que # <<>>
      /\ r = 1 => ld_unit # <<>>
      /\ e = 1 => cmd_fire /\ Len(ld_cmd_que) < loadQueDepth
  BY <1>1, <1>5, <1>6
<1> HIDE DEF d, e, r
<1>10. KindStep(ld_cmd_que, ld_unit, ld_cmd_que', ld_unit', r, d, e)
  BY <1>3, <1>4, <1>5, <1>7, <1>8, <1>9, KindStepOf
<1>11. Len(ld_cmd_que') <= loadQueDepth
  <2>1. Len(ld_cmd_que') = Len(ld_cmd_que) - d + e /\ Len(ld_cmd_que) \in Nat
    BY <1>3, <1>10 DEF KindStep, MoveDone
  <2>2. QED BY <2>1, <1>3, <1>5, <1>9, DepthAssumption
<1>12. QED
  BY <1>10, <1>11 DEF d, e, r

(* The stores in a cycle. *)
StEnq == cmd_fire /\ prog[pc].funct = STORE_CMD

LEMMA StoreStep ==
  ASSUME Inv, NEW offer \in BOOLEAN, NEW respReady \in BOOLEAN,
         NEW ldFire, NEW ldResp, NEW stResp, NEW exResp,
         CycleOf(offer, respReady, ldFire, ldResp, stResp, exResp)
  PROVE  /\ KindStep(st_cmd_que, st_unit, st_cmd_que', st_unit',
                     Bit(stResp), Bit(StFires), Bit(StEnq))
         /\ Len(st_cmd_que') <= storeQueDepth
<1> DEFINE d == Bit(StFires)
           e == Bit(StEnq)
           r == Bit(stResp)
<1>1. /\ CmdQueues(ldFire, StFires, ExFires)
      /\ Units(ldFire, ldResp, StFires, stResp, ExFires, exResp)
      /\ stResp \in BOOLEAN /\ (stResp => st_unit # <<>>)
  BY DEF CycleOf, Cycle
<1>2. TypeOK /\ InOrder /\ Issuing /\ TrackerSizes
  BY DEF Inv
<1>3. /\ st_cmd_que \in Seq(1 .. (pc - 1)) /\ st_unit \in Seq(1 .. (pc - 1))
      /\ Len(st_cmd_que) <= storeQueDepth
  BY <1>2 DEF TypeOK, QueueOf
<1>4. Increasing(st_cmd_que) /\ Increasing(st_unit) /\ Behind(st_unit, st_cmd_que)
  BY <1>2 DEF InOrder, TrackerSizes
<1>5. /\ d \in {0, 1} /\ e \in {0, 1} /\ r \in {0, 1}
      /\ (d = 1 => StFires) /\ (r = 1 => stResp) /\ (e = 1 => StEnq)
  BY <1>1 DEF Bit
<1>6. /\ StFires => st_cmd_que # <<>>
      /\ StEnq => cmd_fire /\ Len(st_cmd_que) < storeQueDepth
  <2>1. StFires => st_cmd_que # <<>>
    BY <1>2 DEF StFires, st_req_valid, Issuing
  <2>2. StEnq => Len(st_cmd_que) < storeQueDepth
    BY FrontStep, Zenon DEF StEnq
  <2>3. QED BY <2>1, <2>2 DEF StEnq
<1>7. st_cmd_que' = Moved(st_cmd_que, d, e, pc)
  <2>1. st_cmd_que' = QueStep(st_cmd_que, storeQueDepth, StFires, StEnq, pc)
    BY <1>1 DEF CmdQueues, StEnq
  <2>2. st_cmd_que' = Moved(st_cmd_que, Bit(StFires /\ st_cmd_que # <<>>),
                            Bit(StEnq /\ Len(st_cmd_que) < storeQueDepth), pc)
    BY <2>1, QueStepMoved, DepthAssumption
  <2>3. /\ Bit(StFires /\ st_cmd_que # <<>>) = d
        /\ Bit(StEnq /\ Len(st_cmd_que) < storeQueDepth) = e
    BY <1>6 DEF Bit
  <2>4. QED BY <2>2, <2>3
<1>8. st_unit' = Moved(st_unit, r, d, Head(st_cmd_que))
  BY <1>1, UnitStepMoved DEF Units
<1>9. /\ d = 1 => st_cmd_que # <<>>
      /\ r = 1 => st_unit # <<>>
      /\ e = 1 => cmd_fire /\ Len(st_cmd_que) < storeQueDepth
  BY <1>1, <1>5, <1>6
<1> HIDE DEF d, e, r
<1>10. KindStep(st_cmd_que, st_unit, st_cmd_que', st_unit', r, d, e)
  BY <1>3, <1>4, <1>5, <1>7, <1>8, <1>9, KindStepOf
<1>11. Len(st_cmd_que') <= storeQueDepth
  <2>1. Len(st_cmd_que') = Len(st_cmd_que) - d + e /\ Len(st_cmd_que) \in Nat
    BY <1>3, <1>10 DEF KindStep, MoveDone
  <2>2. QED BY <2>1, <1>3, <1>5, <1>9, DepthAssumption
<1>12. QED
  BY <1>10, <1>11 DEF d, e, r

(* The CFG and EXE commands in a cycle. *)
ExEnq == cmd_fire /\ IsEx(prog[pc])

LEMMA ExecuteStep ==
  ASSUME Inv, NEW offer \in BOOLEAN, NEW respReady \in BOOLEAN,
         NEW ldFire, NEW ldResp, NEW stResp, NEW exResp,
         CycleOf(offer, respReady, ldFire, ldResp, stResp, exResp)
  PROVE  /\ KindStep(ex_cmd_que, ex_unit, ex_cmd_que', ex_unit',
                     Bit(exResp), Bit(ExFires), Bit(ExEnq))
         /\ Len(ex_cmd_que') <= exeQueDepth
<1> DEFINE d == Bit(ExFires)
           e == Bit(ExEnq)
           r == Bit(exResp)
<1>1. /\ CmdQueues(ldFire, StFires, ExFires)
      /\ Units(ldFire, ldResp, StFires, stResp, ExFires, exResp)
      /\ exResp \in BOOLEAN /\ (exResp => ex_unit # <<>>)
  BY DEF CycleOf, Cycle
<1>2. TypeOK /\ InOrder /\ Issuing /\ TrackerSizes
  BY DEF Inv
<1>3. /\ ex_cmd_que \in Seq(1 .. (pc - 1)) /\ ex_unit \in Seq(1 .. (pc - 1))
      /\ Len(ex_cmd_que) <= exeQueDepth
  BY <1>2 DEF TypeOK, QueueOf
<1>4. Increasing(ex_cmd_que) /\ Increasing(ex_unit) /\ Behind(ex_unit, ex_cmd_que)
  BY <1>2 DEF InOrder, TrackerSizes
<1>5. /\ d \in {0, 1} /\ e \in {0, 1} /\ r \in {0, 1}
      /\ (d = 1 => ExFires) /\ (r = 1 => exResp) /\ (e = 1 => ExEnq)
  BY <1>1 DEF Bit
<1>6. /\ ExFires => ex_cmd_que # <<>>
      /\ ExEnq => cmd_fire /\ Len(ex_cmd_que) < exeQueDepth
  <2>1. ExFires => ex_cmd_que # <<>>
    BY <1>2 DEF ExFires, ex_req_valid, Issuing
  <2>2. ExEnq => Len(ex_cmd_que) < exeQueDepth
    BY FrontStep, Zenon DEF ExEnq
  <2>3. QED BY <2>1, <2>2 DEF ExEnq
<1>7. ex_cmd_que' = Moved(ex_cmd_que, d, e, pc)
  <2>1. ex_cmd_que' = QueStep(ex_cmd_que, exeQueDepth, ExFires, ExEnq, pc)
    BY <1>1 DEF CmdQueues, ExEnq
  <2>2. ex_cmd_que' = Moved(ex_cmd_que, Bit(ExFires /\ ex_cmd_que # <<>>),
                            Bit(ExEnq /\ Len(ex_cmd_que) < exeQueDepth), pc)
    BY <2>1, QueStepMoved, DepthAssumption
  <2>3. /\ Bit(ExFires /\ ex_cmd_que # <<>>) = d
        /\ Bit(ExEnq /\ Len(ex_cmd_que) < exeQueDepth) = e
    BY <1>6 DEF Bit
  <2>4. QED BY <2>2, <2>3
<1>8. ex_unit' = Moved(ex_unit, r, d, Head(ex_cmd_que))
  BY <1>1, UnitStepMoved DEF Units
<1>9. /\ d = 1 => ex_cmd_que # <<>>
      /\ r = 1 => ex_unit # <<>>
      /\ e = 1 => cmd_fire /\ Len(ex_cmd_que) < exeQueDepth
  BY <1>1, <1>5, <1>6
<1> HIDE DEF d, e, r
<1>10. KindStep(ex_cmd_que, ex_unit, ex_cmd_que', ex_unit', r, d, e)
  BY <1>3, <1>4, <1>5, <1>7, <1>8, <1>9, KindStepOf
<1>11. Len(ex_cmd_que') <= exeQueDepth
  <2>1. Len(ex_cmd_que') = Len(ex_cmd_que) - d + e /\ Len(ex_cmd_que) \in Nat
    BY <1>3, <1>10 DEF KindStep, MoveDone
  <2>2. QED BY <2>1, <1>3, <1>5, <1>9, DepthAssumption
<1>12. QED
  BY <1>10, <1>11 DEF d, e, r

(* The storer and the CGRA controller serve one command at a time. *)
LEMMA StoreTracker ==
  ASSUME Inv, NEW offer \in BOOLEAN, NEW respReady \in BOOLEAN,
         NEW ldFire, NEW ldResp, NEW stResp, NEW exResp,
         CycleOf(offer, respReady, ldFire, ldResp, stResp, exResp)
  PROVE  st_resv_que' = st_unit' /\ Len(st_unit') <= 1
<1>1. /\ ResvQueues(ldFire, ldResp, StFires, stResp, ExFires, exResp)
      /\ Units(ldFire, ldResp, StFires, stResp, ExFires, exResp)
      /\ stResp \in BOOLEAN /\ (stResp => st_unit # <<>>)
  BY DEF CycleOf, Cycle
<1>2. st_resv_que = st_unit /\ st_unit \in Seq(1 .. (pc - 1)) /\ Len(st_unit) <= 1
  BY DEF Inv, TypeOK, QueueOf, TrackersInStep
<1>3. StFires => st_unit = <<>> /\ Len(st_resv_que) < storeQueDepth
  BY DEF StFires, st_req_ready, st_req_valid, enq_ready
<1>4. st_resv_que' = st_unit'
  BY <1>1, <1>2, <1>3 DEF ResvQueues, Units, QueStep, UnitStep, deq_valid, enq_ready
<1>5. Len(st_unit') <= 1
  <2>1. Len(st_unit') = Len(st_unit) - Bit(stResp) + Bit(StFires) /\ Len(st_unit) \in Nat
    <3>1. KindStep(st_cmd_que, st_unit, st_cmd_que', st_unit',
                   Bit(stResp), Bit(StFires), Bit(StEnq))
      BY StoreStep, Zenon
    <3>2. Len(st_unit) \in Nat
      BY <1>2
    <3>3. QED BY <3>1, <3>2 DEF KindStep, MoveDone
  <2>2. CASE StFires
    BY <1>1, <1>3, <2>1, <2>2 DEF Bit
  <2>3. CASE ~StFires
    BY <1>2, <2>1, <2>3 DEF Bit
  <2>4. QED BY <2>2, <2>3
<1>6. QED BY <1>4, <1>5

LEMMA ExecuteTracker ==
  ASSUME Inv, NEW offer \in BOOLEAN, NEW respReady \in BOOLEAN,
         NEW ldFire, NEW ldResp, NEW stResp, NEW exResp,
         CycleOf(offer, respReady, ldFire, ldResp, stResp, exResp)
  PROVE  ex_resv_que' = ex_unit' /\ Len(ex_unit') <= 1
<1>1. /\ ResvQueues(ldFire, ldResp, StFires, stResp, ExFires, exResp)
      /\ Units(ldFire, ldResp, StFires, stResp, ExFires, exResp)
      /\ exResp \in BOOLEAN /\ (exResp => ex_unit # <<>>)
  BY DEF CycleOf, Cycle
<1>2. ex_resv_que = ex_unit /\ ex_unit \in Seq(1 .. (pc - 1)) /\ Len(ex_unit) <= 1
  BY DEF Inv, TypeOK, QueueOf, TrackersInStep
<1>3. ExFires => ex_unit = <<>> /\ Len(ex_resv_que) < exeQueDepth
  BY DEF ExFires, ex_req_ready, ex_req_valid, enq_ready
<1>4. ex_resv_que' = ex_unit'
  BY <1>1, <1>2, <1>3 DEF ResvQueues, Units, QueStep, UnitStep, deq_valid, enq_ready
<1>5. Len(ex_unit') <= 1
  <2>1. Len(ex_unit') = Len(ex_unit) - Bit(exResp) + Bit(ExFires) /\ Len(ex_unit) \in Nat
    <3>1. KindStep(ex_cmd_que, ex_unit, ex_cmd_que', ex_unit',
                   Bit(exResp), Bit(ExFires), Bit(ExEnq))
      BY ExecuteStep, Zenon
    <3>2. Len(ex_unit) \in Nat
      BY <1>2
    <3>3. QED BY <3>1, <3>2 DEF KindStep, MoveDone
  <2>2. CASE ExFires
    BY <1>1, <1>3, <2>1, <2>2 DEF Bit
  <2>3. CASE ~ExFires
    BY <1>2, <2>1, <2>3 DEF Bit
  <2>4. QED BY <2>2, <2>3
<1>6. QED BY <1>4, <1>5

(* Both trackers of the loader. *)
LEMMA LoadTrackers ==
  ASSUME Inv, NEW offer \in BOOLEAN, NEW respReady \in BOOLEAN,
         NEW ldFire, NEW ldResp, NEW stResp, NEW exResp,
         CycleOf(offer, respReady, ldFire, ldResp, stResp, exResp)
  PROVE  /\ QueueOf(ld_dat_resv_que, loadQueDepth)'
         /\ QueueOf(ld_cfg_resv_que, ld_cfg_resv_depth)'
         /\ Increasing(ld_dat_resv_que') /\ Increasing(ld_cfg_resv_que')
         /\ Elems(ld_dat_resv_que') = {i \in Elems(ld_unit') : ~prog'[i].is_cfg}
         /\ Elems(ld_cfg_resv_que') = {i \in Elems(ld_unit') : prog'[i].is_cfg}
         /\ Len(ld_unit') = Len(ld_dat_resv_que') + Len(ld_cfg_resv_que')
<1> DEFINE d == Bit(ldFire)
           r == Bit(ldResp)
           x == Head(ld_cmd_que)
           S == 1 .. (pc' - 1)
           C == {i \in Int : prog[i].is_cfg}
           D == {i \in Int : ~prog[i].is_cfg}
<1>1. /\ ResvQueues(ldFire, ldResp, StFires, stResp, ExFires, exResp)
      /\ ldFire \in BOOLEAN /\ (ldFire => ld_req_valid)
      /\ ldResp \in BOOLEAN /\ (ldResp => ld_unit # <<>>)
  BY DEF CycleOf, Cycle
<1>2. TypeOK /\ TrackersInStep /\ TrackerSizes /\ Issuing
  BY DEF Inv
<1>3. /\ ld_unit' = Moved(ld_unit, r, d, x)
      /\ MoveFits(S, ld_unit, r, d, x) /\ MoveDone(S, ld_unit, r, d, x)
  BY LoadStep, Zenon DEF KindStep
<1>4. /\ ld_dat_resv_que \in Seq(1 .. (pc - 1)) /\ Len(ld_dat_resv_que) <= loadQueDepth
      /\ ld_cfg_resv_que \in Seq(1 .. (pc - 1)) /\ Len(ld_cfg_resv_que) <= ld_cfg_resv_depth
      /\ ld_unit \in Seq(1 .. (pc - 1)) /\ ld_cmd_que \in Seq(1 .. (pc - 1))
  BY <1>2 DEF TypeOK, QueueOf
<1>5. ld_dat_resv_que \in Seq(S) /\ ld_cfg_resv_que \in Seq(S)
  <2>1. 1 .. (pc - 1) \subseteq S
    BY PcStep
  <2>2. QED BY <1>4, <2>1, SeqMonotone, ZenonT(40)
<1>6. \A i \in Elems(ld_unit) \cup Elems(ld_unit') : i \in Int
  <2>1. S \in SUBSET Int /\ ld_unit \in Seq(S) /\ ld_unit' \in Seq(S)
    BY <1>3 DEF MoveFits, MoveDone
  <2> HIDE DEF S
  <2>2. \A q \in Seq(S) : \A i \in Elems(q) : i \in S
    BY DEF Elems
  <2>3. QED BY <2>1, <2>2
<1>7. /\ Elems(ld_cfg_resv_que) = Elems(ld_unit) \cap C
      /\ Elems(ld_dat_resv_que) = Elems(ld_unit) \cap D
      /\ Increasing(ld_cfg_resv_que) /\ Increasing(ld_dat_resv_que)
  BY <1>2, <1>6 DEF TrackersInStep
<1>8. /\ ldFire => ld_cmd_que # <<>> /\ x \in Int
      /\ ldResp => Head(ld_unit) \in Int
  <2>1. ldFire => ld_cmd_que # <<>>
    BY <1>1, <1>2 DEF ld_req_valid, Issuing
  <2>2. \A T : \A q \in Seq(T) : q # <<>> => Head(q) \in T
    OBVIOUS
  <2>3. /\ ldFire => ld_cmd_que # <<>> /\ x \in 1 .. (pc - 1)
        /\ ldResp => Head(ld_unit) \in 1 .. (pc - 1)
    BY <1>1, <1>4, <2>1, <2>2
  <2> HIDE DEF x
  <2>4. QED BY <2>3
<1> DEFINE dD == Bit(d = 1 /\ x \in D)
           rD == Bit(r = 1 /\ Head(ld_unit) \in D)
           dC == Bit(d = 1 /\ x \in C)
           rC == Bit(r = 1 /\ Head(ld_unit) \in C)
<1>9. /\ Bit(ldFire /\ ~prog[x].is_cfg) = dD /\ Bit(ldFire /\ prog[x].is_cfg) = dC
      /\ Bit(ldResp /\ ~ld_resp_is_cfg) = rD /\ Bit(ldResp /\ ld_resp_is_cfg) = rC
      /\ d = dD + dC /\ r = rD + rC
  BY <1>1, <1>8 DEF Bit, ld_resp_is_cfg
<1>10. /\ ld_dat_resv_que' = Moved(ld_dat_resv_que, rD, dD, x)
       /\ dD = 1 => Len(ld_dat_resv_que) < loadQueDepth
  <2> DEFINE deq == ldResp /\ ~ld_resp_is_cfg
             enq == ldFire /\ ~prog[x].is_cfg
  <2>1. deq => ld_dat_resv_que # <<>>
    <3>1. ldResp => Head(ld_unit) \in Elems(ld_unit)
      BY <1>1, <1>4 DEF Elems
    <3>2. QED BY <3>1, <1>7, <1>8 DEF ld_resp_is_cfg, Elems
  <2>2. enq => Len(ld_dat_resv_que) < loadQueDepth
    BY <1>1 DEF ld_req_valid, ld_resv_que_ready, enq_ready
  <2>3. ld_dat_resv_que' = QueStep(ld_dat_resv_que, loadQueDepth, deq, enq, x)
    BY <1>1, Zenon DEF ResvQueues
  <2>4. Bit(deq) = rD /\ Bit(enq) = dD
    BY <1>9
  <2> HIDE DEF deq, enq, x, rD, dD
  <2>5. loadQueDepth \in Nat
    BY DepthAssumption DEF ld_cfg_resv_depth
  <2>6. ld_dat_resv_que' = Moved(ld_dat_resv_que, Bit(deq /\ ld_dat_resv_que # <<>>),
                                Bit(enq /\ Len(ld_dat_resv_que) < loadQueDepth), x)
    BY <2>3, <2>5, QueStepMoved
  <2>7. /\ Bit(deq /\ ld_dat_resv_que # <<>>) = Bit(deq)
        /\ Bit(enq /\ Len(ld_dat_resv_que) < loadQueDepth) = Bit(enq)
    BY <2>1, <2>2 DEF Bit
  <2>8. dD = 1 => enq
    BY <2>4 DEF Bit
  <2>9. QED BY <2>2, <2>4, <2>6, <2>7, <2>8
<1>11. /\ ld_cfg_resv_que' = Moved(ld_cfg_resv_que, rC, dC, x)
       /\ dC = 1 => Len(ld_cfg_resv_que) < ld_cfg_resv_depth
  <2> DEFINE deq == ldResp /\ ld_resp_is_cfg
             enq == ldFire /\ prog[x].is_cfg
  <2>1. deq => ld_cfg_resv_que # <<>>
    <3>1. ldResp => Head(ld_unit) \in Elems(ld_unit)
      BY <1>1, <1>4 DEF Elems
    <3>2. QED BY <3>1, <1>7, <1>8 DEF ld_resp_is_cfg, Elems
  <2>2. enq => Len(ld_cfg_resv_que) < ld_cfg_resv_depth
    BY <1>1 DEF ld_req_valid, ld_resv_que_ready, enq_ready
  <2>3. ld_cfg_resv_que' = QueStep(ld_cfg_resv_que, ld_cfg_resv_depth, deq, enq, x)
    BY <1>1, Zenon DEF ResvQueues
  <2>4. Bit(deq) = rC /\ Bit(enq) = dC
    BY <1>9
  <2> HIDE DEF deq, enq, x, rC, dC
  <2>5. ld_cfg_resv_depth \in Nat
    BY DepthAssumption DEF ld_cfg_resv_depth
  <2>6. ld_cfg_resv_que' = Moved(ld_cfg_resv_que, Bit(deq /\ ld_cfg_resv_que # <<>>),
                                Bit(enq /\ Len(ld_cfg_resv_que) < ld_cfg_resv_depth), x)
    BY <2>3, <2>5, QueStepMoved
  <2>7. /\ Bit(deq /\ ld_cfg_resv_que # <<>>) = Bit(deq)
        /\ Bit(enq /\ Len(ld_cfg_resv_que) < ld_cfg_resv_depth) = Bit(enq)
    BY <2>1, <2>2 DEF Bit
  <2>8. dC = 1 => enq
    BY <2>4 DEF Bit
  <2>9. QED BY <2>2, <2>4, <2>6, <2>7, <2>8
<1>12. dC \in {0, 1} /\ dD \in {0, 1} /\ rC \in {0, 1} /\ rD \in {0, 1}
  BY DEF Bit
<1>13. /\ TrackerFits(S, D, ld_unit, ld_dat_resv_que, r, d, x, rD, dD)
       /\ TrackerFits(S, C, ld_unit, ld_cfg_resv_que, r, d, x, rC, dC)
  <2> HIDE DEF S, C, D, r, d, x
  <2> QED BY <1>3, <1>5, <1>7, Zenon DEF TrackerFits
<1>20. d = dD + dC /\ r = rD + rC /\ d \in {0, 1} /\ r \in {0, 1}
  BY <1>9 DEF Bit
<1> HIDE DEF S, C, D, dC, dD, rC, rD, r, d, x
<1>14. /\ TrackerDone(S, D, ld_unit, ld_dat_resv_que, r, d, x, rD, dD)
       /\ TrackerDone(S, C, ld_unit, ld_cfg_resv_que, r, d, x, rC, dC)
  BY <1>13, TrackerStep
<1>15. /\ Elems(ld_dat_resv_que') = {i \in Elems(ld_unit') : ~prog'[i].is_cfg}
       /\ Elems(ld_cfg_resv_que') = {i \in Elems(ld_unit') : prog'[i].is_cfg}
  <2>1. /\ Elems(ld_dat_resv_que') = Elems(ld_unit') \cap D
        /\ Elems(ld_cfg_resv_que') = Elems(ld_unit') \cap C
    BY <1>3, <1>10, <1>11, <1>14 DEF TrackerDone
  <2>2. prog' = prog
    BY FrontStep, Zenon
  <2>3. QED BY <1>6, <2>1, <2>2 DEF C, D
<1>16. /\ ld_dat_resv_que' \in Seq(S) /\ Increasing(ld_dat_resv_que')
       /\ Len(ld_dat_resv_que') = Len(ld_dat_resv_que) - rD + dD
       /\ ld_cfg_resv_que' \in Seq(S) /\ Increasing(ld_cfg_resv_que')
       /\ Len(ld_cfg_resv_que') = Len(ld_cfg_resv_que) - rC + dC
       /\ Len(ld_unit') = Len(ld_unit) - r + d
  BY <1>3, <1>10, <1>11, <1>14 DEF MoveDone, TrackerDone
<1>17. /\ Len(ld_dat_resv_que) \in Nat /\ Len(ld_cfg_resv_que) \in Nat
       /\ Len(ld_unit) = Len(ld_dat_resv_que) + Len(ld_cfg_resv_que)
  BY <1>2, <1>4 DEF TrackerSizes
<1>18. Len(ld_unit') = Len(ld_dat_resv_que') + Len(ld_cfg_resv_que')
  BY <1>12, <1>16, <1>17, <1>20
<1>19. Len(ld_dat_resv_que') <= loadQueDepth /\ Len(ld_cfg_resv_que') <= ld_cfg_resv_depth
  <2>1. loadQueDepth \in Nat /\ ld_cfg_resv_depth \in Nat
    BY DepthAssumption DEF ld_cfg_resv_depth
  <2>2. Len(ld_dat_resv_que) <= loadQueDepth /\ Len(ld_cfg_resv_que) <= ld_cfg_resv_depth
    BY <1>4
  <2>3. /\ Len(ld_dat_resv_que') = Len(ld_dat_resv_que) - rD + dD
        /\ Len(ld_cfg_resv_que') = Len(ld_cfg_resv_que) - rC + dC
    BY <1>16
  <2>4. /\ dD = 1 => Len(ld_dat_resv_que) < loadQueDepth
        /\ dC = 1 => Len(ld_cfg_resv_que) < ld_cfg_resv_depth
    BY <1>10, <1>11
  <2>5. QED BY <1>12, <1>17, <2>1, <2>2, <2>3, <2>4
<1>21. QueueOf(ld_dat_resv_que, loadQueDepth)' /\ QueueOf(ld_cfg_resv_que, ld_cfg_resv_depth)'
  BY <1>16, <1>19 DEF QueueOf, S
<1>22. QED
  BY <1>15, <1>16, <1>18, <1>21

---------------------------------------------------------------------------

(* A unit only takes what its queue holds. *)
LEMMA Heads ==
  ASSUME Inv, NEW offer \in BOOLEAN, NEW respReady \in BOOLEAN,
         NEW ldFire, NEW ldResp, NEW stResp, NEW exResp,
         CycleOf(offer, respReady, ldFire, ldResp, stResp, exResp)
  PROVE  /\ Bit(ldFire) = 1 => Head(ld_cmd_que) \in Elems(ld_cmd_que)
         /\ Bit(StFires) = 1 => Head(st_cmd_que) \in Elems(st_cmd_que)
         /\ Bit(ExFires) = 1 => Head(ex_cmd_que) \in Elems(ex_cmd_que)
<1>1. /\ Bit(ldFire) = 1 => ld_cmd_que # <<>>
      /\ Bit(StFires) = 1 => st_cmd_que # <<>>
      /\ Bit(ExFires) = 1 => ex_cmd_que # <<>>
  BY DEF CycleOf, Bit, StFires, ExFires, ld_req_valid, st_req_valid, ex_req_valid, Inv, Issuing
<1>2. /\ ld_cmd_que \in Seq(1 .. (pc - 1)) /\ st_cmd_que \in Seq(1 .. (pc - 1))
      /\ ex_cmd_que \in Seq(1 .. (pc - 1))
  BY DEF Inv, TypeOK, QueueOf
<1>3. \A T : \A q \in Seq(T) : q # <<>> => Head(q) \in Elems(q)
  BY DEF Elems
<1>4. QED BY <1>1, <1>2, <1>3

(* The parts of the invariant after a cycle. *)
LEMMA OrderStep ==
  ASSUME Inv, NEW offer \in BOOLEAN, NEW respReady \in BOOLEAN,
         NEW ldFire, NEW ldResp, NEW stResp, NEW exResp,
         CycleOf(offer, respReady, ldFire, ldResp, stResp, exResp)
  PROVE  InOrder' /\ Kinds' /\ TrackerSizes'
<1>1. KindStep(ld_cmd_que, ld_unit, ld_cmd_que', ld_unit', Bit(ldResp), Bit(ldFire), Bit(LdEnq))
  BY LoadStep, Zenon
<1>2. KindStep(st_cmd_que, st_unit, st_cmd_que', st_unit', Bit(stResp), Bit(StFires), Bit(StEnq))
  BY StoreStep, Zenon
<1>3. KindStep(ex_cmd_que, ex_unit, ex_cmd_que', ex_unit', Bit(exResp), Bit(ExFires), Bit(ExEnq))
  BY ExecuteStep, Zenon
<1>4. InOrder'
  BY <1>1, <1>2, <1>3 DEF InOrder, KindStep, MoveDone
<1>5. TrackerSizes'
  BY <1>2, <1>3, LoadTrackers, Zenon DEF TrackerSizes, KindStep, MoveDone
<1>6. Kinds'
  <2>1. Kinds /\ prog' = prog
    BY FrontStep, Zenon DEF Inv
  <2>2. \A i \in Elems(ld_cmd_que') \cup Elems(ld_unit') : prog'[i].funct = LOAD_CMD
    <3>1. Elems(ld_cmd_que') \subseteq Elems(ld_cmd_que) \cup (IF Bit(LdEnq) = 1 THEN {pc} ELSE {})
      BY <1>1 DEF KindStep, MoveDone
    <3>2. Elems(ld_unit') \subseteq Elems(ld_unit) \cup Elems(ld_cmd_que)
      <4>1. Elems(ld_unit') \subseteq Elems(ld_unit) \cup (IF Bit(ldFire) = 1 THEN {Head(ld_cmd_que)} ELSE {})
        BY <1>1 DEF KindStep, MoveDone
      <4>2. Bit(ldFire) = 1 => Head(ld_cmd_que) \in Elems(ld_cmd_que)
        BY Heads, Zenon
      <4>3. QED BY <4>1, <4>2
    <3>3. Bit(LdEnq) = 1 => prog[pc].funct = LOAD_CMD
      BY DEF Bit, LdEnq
    <3>4. QED BY <2>1, <3>1, <3>2, <3>3 DEF Kinds
  <2>3. \A i \in Elems(st_cmd_que') \cup Elems(st_unit') : prog'[i].funct = STORE_CMD
    <3>1. Elems(st_cmd_que') \subseteq Elems(st_cmd_que) \cup (IF Bit(StEnq) = 1 THEN {pc} ELSE {})
      BY <1>2 DEF KindStep, MoveDone
    <3>2. Elems(st_unit') \subseteq Elems(st_unit) \cup Elems(st_cmd_que)
      <4>1. Elems(st_unit') \subseteq Elems(st_unit) \cup (IF Bit(StFires) = 1 THEN {Head(st_cmd_que)} ELSE {})
        BY <1>2 DEF KindStep, MoveDone
      <4>2. Bit(StFires) = 1 => Head(st_cmd_que) \in Elems(st_cmd_que)
        BY Heads, Zenon
      <4>3. QED BY <4>1, <4>2
    <3>3. Bit(StEnq) = 1 => prog[pc].funct = STORE_CMD
      BY DEF Bit, StEnq
    <3>4. QED BY <2>1, <3>1, <3>2, <3>3 DEF Kinds
  <2>4. \A i \in Elems(ex_cmd_que') \cup Elems(ex_unit') : IsEx(prog'[i])
    <3>1. Elems(ex_cmd_que') \subseteq Elems(ex_cmd_que) \cup (IF Bit(ExEnq) = 1 THEN {pc} ELSE {})
      BY <1>3 DEF KindStep, MoveDone
    <3>2. Elems(ex_unit') \subseteq Elems(ex_unit) \cup Elems(ex_cmd_que)
      <4>1. Elems(ex_unit') \subseteq Elems(ex_unit) \cup (IF Bit(ExFires) = 1 THEN {Head(ex_cmd_que)} ELSE {})
        BY <1>3 DEF KindStep, MoveDone
      <4>2. Bit(ExFires) = 1 => Head(ex_cmd_que) \in Elems(ex_cmd_que)
        BY Heads, Zenon
      <4>3. QED BY <4>1, <4>2
    <3>3. Bit(ExEnq) = 1 => IsEx(prog[pc])
      BY DEF Bit, ExEnq
    <3>4. QED BY <2>1, <3>1, <3>2, <3>3 DEF Kinds
  <2>5. QED BY <2>2, <2>3, <2>4 DEF Kinds
<1>7. QED BY <1>4, <1>5, <1>6

(* How long the command queues are after a cycle. *)
LEMMA CmdLengths ==
  ASSUME Inv, NEW offer \in BOOLEAN, NEW respReady \in BOOLEAN,
         NEW ldFire, NEW ldResp, NEW stResp, NEW exResp,
         CycleOf(offer, respReady, ldFire, ldResp, stResp, exResp)
  PROVE  /\ Len(ld_cmd_que') = Len(ld_cmd_que) - Bit(ldFire) + Bit(LdEnq)
         /\ Len(st_cmd_que') = Len(st_cmd_que) - Bit(StFires) + Bit(StEnq)
         /\ Len(ex_cmd_que') = Len(ex_cmd_que) - Bit(ExFires) + Bit(ExEnq)
         /\ Len(ld_cmd_que) \in Nat /\ Len(st_cmd_que) \in Nat /\ Len(ex_cmd_que) \in Nat
         /\ \E T : ld_cmd_que' \in Seq(T) /\ st_cmd_que' \in Seq(T) /\ ex_cmd_que' \in Seq(T)
<1>1. KindStep(ld_cmd_que, ld_unit, ld_cmd_que', ld_unit', Bit(ldResp), Bit(ldFire), Bit(LdEnq))
  BY LoadStep, Zenon
<1>2. KindStep(st_cmd_que, st_unit, st_cmd_que', st_unit', Bit(stResp), Bit(StFires), Bit(StEnq))
  BY StoreStep, Zenon
<1>3. KindStep(ex_cmd_que, ex_unit, ex_cmd_que', ex_unit', Bit(exResp), Bit(ExFires), Bit(ExEnq))
  BY ExecuteStep, Zenon
<1>4. /\ ld_cmd_que \in Seq(1 .. (pc - 1)) /\ st_cmd_que \in Seq(1 .. (pc - 1))
      /\ ex_cmd_que \in Seq(1 .. (pc - 1))
  BY DEF Inv, TypeOK, QueueOf
<1>5. Len(ld_cmd_que) \in Nat /\ Len(st_cmd_que) \in Nat /\ Len(ex_cmd_que) \in Nat
  BY <1>4
<1>6. QED BY <1>1, <1>2, <1>3, <1>5, Zenon DEF KindStep, MoveDone

LEMMA IssuingStep ==
  ASSUME Inv, NEW offer \in BOOLEAN, NEW respReady \in BOOLEAN,
         NEW ldFire, NEW ldResp, NEW stResp, NEW exResp,
         CycleOf(offer, respReady, ldFire, ldResp, stResp, exResp)
  PROVE  /\ Issuing'
         /\ ld_state' \in {s_wait, s_issue} /\ st_state' \in {s_wait, s_issue}
         /\ ex_state' \in {s_wait, s_issue}
<1>1. LdIssue(ldFire) /\ StIssue(StFires) /\ ExIssue(ExFires) /\ (ldFire => ld_req_valid)
  BY DEF CycleOf, Cycle
<1>2. Inv /\ Issuing /\ TypeOK
  BY DEF Inv
<1>3. /\ ld_state' \in {s_wait, s_issue} /\ st_state' \in {s_wait, s_issue}
      /\ ex_state' \in {s_wait, s_issue}
  BY <1>1, <1>2 DEF LdIssue, StIssue, ExIssue, TypeOK
\* An FSM that issues after the cycle took nothing from its queue in it.
<1>4. /\ ld_state' = s_issue => ~ldFire /\ ld_cmd_que # <<>>
      /\ st_state' = s_issue => ~StFires /\ st_cmd_que # <<>>
      /\ ex_state' = s_issue => ~ExFires /\ ex_cmd_que # <<>>
  BY <1>1, <1>2 DEF LdIssue, StIssue, ExIssue, StFires, ExFires, ld_req_valid, st_req_valid,
     ex_req_valid, LdMayIssue, StMayIssue, ExMayIssue, deq_valid, Issuing, s_wait, s_issue
<1>5. \A T : \A q \in Seq(T) : Len(q) > 0 <=> q # <<>>
  OBVIOUS
<1>6. /\ ld_cmd_que \in Seq(1 .. (pc - 1)) /\ st_cmd_que \in Seq(1 .. (pc - 1))
      /\ ex_cmd_que \in Seq(1 .. (pc - 1))
  BY <1>2 DEF TypeOK, QueueOf
<1>7. /\ ld_state' = s_issue => Len(ld_cmd_que) > 0 /\ Bit(ldFire) = 0
      /\ st_state' = s_issue => Len(st_cmd_que) > 0 /\ Bit(StFires) = 0
      /\ ex_state' = s_issue => Len(ex_cmd_que) > 0 /\ Bit(ExFires) = 0
  BY <1>4, <1>5, <1>6 DEF Bit
<1>8. Bit(LdEnq) \in {0, 1} /\ Bit(StEnq) \in {0, 1} /\ Bit(ExEnq) \in {0, 1}
  BY DEF Bit
<1>9. /\ Len(ld_cmd_que') = Len(ld_cmd_que) - Bit(ldFire) + Bit(LdEnq)
      /\ Len(st_cmd_que') = Len(st_cmd_que) - Bit(StFires) + Bit(StEnq)
      /\ Len(ex_cmd_que') = Len(ex_cmd_que) - Bit(ExFires) + Bit(ExEnq)
      /\ Len(ld_cmd_que) \in Nat /\ Len(st_cmd_que) \in Nat /\ Len(ex_cmd_que) \in Nat
  BY CmdLengths, Zenon
<1>10. /\ ld_state' = s_issue => Len(ld_cmd_que') > 0
       /\ st_state' = s_issue => Len(st_cmd_que') > 0
       /\ ex_state' = s_issue => Len(ex_cmd_que') > 0
  BY <1>7, <1>8, <1>9
<1>11. PICK T : ld_cmd_que' \in Seq(T) /\ st_cmd_que' \in Seq(T) /\ ex_cmd_que' \in Seq(T)
  BY CmdLengths, Zenon
<1>12. QED
  BY <1>3, <1>5, <1>10, <1>11 DEF Issuing

LEMMA HandshakeStep ==
  ASSUME Inv, NEW offer \in BOOLEAN, NEW respReady \in BOOLEAN,
         NEW ldFire, NEW ldResp, NEW stResp, NEW exResp,
         CycleOf(offer, respReady, ldFire, ldResp, stResp, exResp)
  PROVE  Handshake'
<1>1. CoreStep(offer) /\ FrontEnd(respReady)
  BY DEF CycleOf, Cycle
<1>2. Handshake /\ TypeOK /\ prog' = prog
  BY FrontStep, Zenon DEF Inv
<1> USE DEF s_idle, s_enq, s_fence, s_flush
<1>3. CASE FrontAccept
  <2>1. state = s_idle /\ cmd_valid /\ ~cmd_ready /\ QueueReadyFor(prog[pc])
    BY <1>2, <1>3 DEF FrontAccept, Handshake
  <2>2. pc' = pc /\ cmd_valid' = TRUE
    BY <1>1, <2>1 DEF CoreStep, cmd_fire
  \* Nothing enters a queue in this cycle: the room seen is still there in the next.
  <2>3. /\ Len(ld_cmd_que') <= Len(ld_cmd_que)
        /\ Len(st_cmd_que') <= Len(st_cmd_que)
        /\ Len(ex_cmd_que') <= Len(ex_cmd_que)
    <3>1. Bit(LdEnq) = 0 /\ Bit(StEnq) = 0 /\ Bit(ExEnq) = 0
      BY <2>1 DEF Bit, LdEnq, StEnq, ExEnq, cmd_fire
    <3>2. Bit(ldFire) \in {0, 1} /\ Bit(StFires) \in {0, 1} /\ Bit(ExFires) \in {0, 1}
      BY DEF Bit
    <3>3. /\ Len(ld_cmd_que') = Len(ld_cmd_que) - Bit(ldFire) + Bit(LdEnq)
          /\ Len(st_cmd_que') = Len(st_cmd_que) - Bit(StFires) + Bit(StEnq)
          /\ Len(ex_cmd_que') = Len(ex_cmd_que) - Bit(ExFires) + Bit(ExEnq)
          /\ Len(ld_cmd_que) \in Nat /\ Len(st_cmd_que) \in Nat /\ Len(ex_cmd_que) \in Nat
      BY CmdLengths, Zenon
    <3>4. QED BY <3>1, <3>2, <3>3
  <2>4. Len(ld_cmd_que) \in Nat /\ Len(st_cmd_que) \in Nat /\ Len(ex_cmd_que) \in Nat
    BY CmdLengths, Zenon
  <2>5. /\ Len(ld_cmd_que') \in Int /\ Len(st_cmd_que') \in Int /\ Len(ex_cmd_que') \in Int
    <3>1. Bit(LdEnq) \in Int /\ Bit(StEnq) \in Int /\ Bit(ExEnq) \in Int
          /\ Bit(ldFire) \in Int /\ Bit(StFires) \in Int /\ Bit(ExFires) \in Int
      BY DEF Bit
    <3>2. /\ Len(ld_cmd_que') = Len(ld_cmd_que) - Bit(ldFire) + Bit(LdEnq)
          /\ Len(st_cmd_que') = Len(st_cmd_que) - Bit(StFires) + Bit(StEnq)
          /\ Len(ex_cmd_que') = Len(ex_cmd_que) - Bit(ExFires) + Bit(ExEnq)
      BY CmdLengths, Zenon
    <3>3. QED BY <2>4, <3>1, <3>2
  <2>6. /\ Len(ld_cmd_que) < loadQueDepth => Len(ld_cmd_que') < loadQueDepth
        /\ Len(st_cmd_que) < storeQueDepth => Len(st_cmd_que') < storeQueDepth
        /\ Len(ex_cmd_que) < exeQueDepth => Len(ex_cmd_que') < exeQueDepth
    BY <2>3, <2>4, <2>5, DepthAssumption
  <2>7. QueueReadyFor(prog[pc])'
    BY <1>2, <2>1, <2>2, <2>6 DEF QueueReadyFor, enq_ready
  <2>8. cmd_ready' = TRUE /\ state' = s_enq
    BY <1>3 DEF FrontAccept
  <2>9. QED BY <1>2, <2>2, <2>7, <2>8 DEF Handshake
<1>4. CASE FrontFlush \/ FrontFence
  <2>1. state = s_idle /\ cmd_valid /\ ~cmd_ready /\ prog[pc].funct \in {FLUSH_CMD, FENCE_CMD}
    BY <1>2, <1>4 DEF FrontFlush, FrontFence, Handshake
  <2>2. pc' = pc /\ cmd_valid' = TRUE
    BY <1>1, <2>1 DEF CoreStep, cmd_fire
  <2>3. ~IsQueued(prog[pc])
    BY <2>1 DEF IsQueued, FLUSH_CMD, FENCE_CMD, LOAD_CMD, STORE_CMD, CFG_CMD, EXE_CMD
  <2>4. state' \in {s_fence, s_flush} /\ cmd_ready' = TRUE
    BY <1>4 DEF FrontFlush, FrontFence
  <2>5. QED BY <1>2, <2>2, <2>3, <2>4 DEF Handshake
<1>5. CASE FrontHold
  BY <1>2, <1>5 DEF FrontHold, Handshake, front
<1>6. CASE FrontEnq
  BY <1>6 DEF FrontEnq, Handshake
<1>7. CASE FrontFenceResp(respReady) \/ FrontFlushResp(respReady)
  BY <1>7 DEF FrontFenceResp, FrontFlushResp, Handshake
<1>8. QED
  BY <1>1, <1>3, <1>4, <1>5, <1>6, <1>7 DEF FrontEnd

LEMMA TypeStep ==
  ASSUME Inv, NEW offer \in BOOLEAN, NEW respReady \in BOOLEAN,
         NEW ldFire, NEW ldResp, NEW stResp, NEW exResp,
         CycleOf(offer, respReady, ldFire, ldResp, stResp, exResp)
  PROVE  TypeOK'
<1>1. TypeOK
  BY DEF Inv
<1>2. /\ prog' \in Programs /\ pc' \in 1 .. (Len(prog') + 1)
      /\ cmd_valid' \in BOOLEAN /\ (cmd_valid' => pc' <= Len(prog'))
      /\ state' \in {s_idle, s_enq, s_fence, s_flush}
      /\ cmd_ready' \in BOOLEAN /\ req_xd' \in BOOLEAN /\ flush' \in BOOLEAN
  BY FrontStep, Zenon
<1>3. /\ ld_state' \in {s_wait, s_issue} /\ st_state' \in {s_wait, s_issue}
      /\ ex_state' \in {s_wait, s_issue}
  BY IssuingStep, Zenon
<1>4. /\ QueueOf(ld_cmd_que, loadQueDepth)' /\ QueueOf(st_cmd_que, storeQueDepth)'
      /\ QueueOf(ex_cmd_que, exeQueDepth)'
  BY LoadStep, StoreStep, ExecuteStep, ZenonT(40) DEF QueueOf, KindStep, MoveDone
<1>5. QueueOf(ld_dat_resv_que, loadQueDepth)' /\ QueueOf(ld_cfg_resv_que, ld_cfg_resv_depth)'
  BY LoadTrackers, Zenon
<1>6. /\ ld_unit' \in Seq(1 .. (pc' - 1)) /\ st_unit' \in Seq(1 .. (pc' - 1))
      /\ ex_unit' \in Seq(1 .. (pc' - 1))
  <2>1. ld_unit' \in Seq(1 .. (pc' - 1))
    BY LoadStep, Zenon DEF KindStep, MoveDone
  <2>2. st_unit' \in Seq(1 .. (pc' - 1))
    BY StoreStep, Zenon DEF KindStep, MoveDone
  <2>3. ex_unit' \in Seq(1 .. (pc' - 1))
    BY ExecuteStep, Zenon DEF KindStep, MoveDone
  <2>4. QED BY <2>1, <2>2, <2>3
<1>7. QueueOf(ld_unit, loadQueDepth + ld_cfg_resv_depth)'
  <2>1. Len(ld_unit') = Len(ld_dat_resv_que') + Len(ld_cfg_resv_que')
    BY LoadTrackers, Zenon
  <2>2. /\ ld_dat_resv_que' \in Seq(1 .. (pc' - 1)) /\ Len(ld_dat_resv_que') <= loadQueDepth
        /\ ld_cfg_resv_que' \in Seq(1 .. (pc' - 1)) /\ Len(ld_cfg_resv_que') <= ld_cfg_resv_depth
    BY <1>5 DEF QueueOf
  <2>3. Len(ld_dat_resv_que') \in Nat /\ Len(ld_cfg_resv_que') \in Nat
    BY <2>2
  <2>4. loadQueDepth \in Nat /\ ld_cfg_resv_depth \in Nat
    BY DepthAssumption DEF ld_cfg_resv_depth
  <2>5. Len(ld_unit') <= loadQueDepth + ld_cfg_resv_depth
    BY <2>1, <2>2, <2>3, <2>4
  <2>6. QED BY <1>6, <2>5 DEF QueueOf
<1>8. /\ QueueOf(st_resv_que, storeQueDepth)' /\ QueueOf(st_unit, 1)'
      /\ QueueOf(ex_resv_que, exeQueDepth)' /\ QueueOf(ex_unit, 1)'
  <2>1. /\ st_resv_que' = st_unit' /\ Len(st_unit') <= 1
        /\ ex_resv_que' = ex_unit' /\ Len(ex_unit') <= 1
    BY StoreTracker, ExecuteTracker, Zenon
  <2>2. \A T : \A q \in Seq(T) : Len(q) \in Nat
    OBVIOUS
  <2>3. Len(st_unit') <= storeQueDepth /\ Len(ex_unit') <= exeQueDepth
    BY <1>6, <2>1, <2>2, DepthAssumption
  <2>4. QED BY <1>6, <2>1, <2>3 DEF QueueOf
<1>9. last_ld_cmd_task_id' \in TaskIds
  <2>1. LdIssue(ldFire) /\ (ldFire => ld_req_valid) /\ Issuing
    BY DEF CycleOf, Cycle, Inv
  <2>2. CASE ldFire
    <3>1. ld_cmd_que # <<>> /\ ld_cmd_que \in Seq(1 .. (pc - 1))
      BY <1>1, <2>1, <2>2 DEF ld_req_valid, Issuing, TypeOK, QueueOf
    <3>2. \A T : \A q \in Seq(T) : q # <<>> => Head(q) \in T
      OBVIOUS
    <3>3. Head(ld_cmd_que) \in 1 .. (pc - 1)
      BY <3>1, <3>2, Zenon
    <3>4. Head(ld_cmd_que) \in 1 .. Len(prog)
      BY <1>1, <3>3, ProgFacts
    <3>5. HeadTask(ld_cmd_que) \in TaskIds
      BY <1>1, <3>4, ProgFacts DEF HeadTask
    <3>6. QED BY <1>1, <2>1, <3>5 DEF LdIssue, TypeOK
  <2>3. CASE ~ldFire
    BY <1>1, <2>1, <2>3 DEF LdIssue, TypeOK
  <2>4. QED BY <2>2, <2>3
<1>10. configured' \in BOOLEAN
  BY <1>1 DEF CycleOf, Cycle, Units, TypeOK
<1>11. QED
  BY <1>2, <1>3, <1>4, <1>5, <1>7, <1>8, <1>9, <1>10, Zenon DEF TypeOK

LEMMA TrackersStep ==
  ASSUME Inv, NEW offer \in BOOLEAN, NEW respReady \in BOOLEAN,
         NEW ldFire, NEW ldResp, NEW stResp, NEW exResp,
         CycleOf(offer, respReady, ldFire, ldResp, stResp, exResp)
  PROVE  TrackersInStep'
<1>1. Increasing(ld_unit')
  BY LoadStep, Zenon DEF KindStep, MoveDone
<1>2. QED
  BY <1>1, LoadTrackers, StoreTracker, ExecuteTracker, Zenon DEF TrackersInStep

LEMMA NextInv == Inv /\ [Next]_vars => Inv'
<1>1. SUFFICES ASSUME Inv, [Next]_vars PROVE Inv'
  OBVIOUS
<1>2. CASE Next
  <2>1. PICK offer, respReady, ldFire, ldResp, stResp, exResp \in BOOLEAN :
          CycleOf(offer, respReady, ldFire, ldResp, stResp, exResp)
    BY <1>2, NextIsCycle, Zenon
  <2>2. TypeOK'
    BY <1>1, <2>1, TypeStep, Zenon
  <2>3. Handshake' /\ Issuing'
    BY <1>1, <2>1, HandshakeStep, IssuingStep, Zenon
  <2>4. InOrder' /\ Kinds' /\ TrackerSizes'
    BY <1>1, <2>1, OrderStep, Zenon
  <2>5. TrackersInStep'
    BY <1>1, <2>1, TrackersStep, Zenon
  <2>6. QED BY <2>2, <2>3, <2>4, <2>5 DEF Inv
<1>3. CASE UNCHANGED vars
  <2>1. /\ UNCHANGED <<prog, pc, cmd_valid>> /\ UNCHANGED <<state, cmd_ready, req_xd, flush>>
        /\ UNCHANGED <<ld_cmd_que, st_cmd_que, ex_cmd_que>>
        /\ UNCHANGED <<ld_dat_resv_que, ld_cfg_resv_que, st_resv_que, ex_resv_que>>
        /\ UNCHANGED <<ld_state, st_state, ex_state, last_ld_cmd_task_id>>
        /\ UNCHANGED <<ld_unit, st_unit, ex_unit, configured>>
    BY <1>3 DEF vars, core, front, ques, resvs, issue, units
  <2>2. TypeOK'
    BY <1>1, <2>1, Zenon DEF Inv, TypeOK, QueueOf
  <2>3. Handshake' /\ Issuing' /\ InOrder' /\ Kinds' /\ TrackerSizes' /\ TrackersInStep'
    BY <1>1, <2>1 DEF Inv, Handshake, Issuing, InOrder, Behind, Kinds, TrackerSizes,
       TrackersInStep, QueueReadyFor
  <2>4. QED BY <2>2, <2>3 DEF Inv
<1>4. QED BY <1>1, <1>2, <1>3

---------------------------------------------------------------------------
(* The strengthened invariant holds in every cycle of every program.  It   *)
(* adds to TypeOK and TrackersInStep that queues and units hold commands   *)
(* of their own kind in program order, that a queue lies behind its unit,  *)
(* and that an issue FSM stands in s_issue only over a non-empty queue.    *)
THEOREM Invariance == Spec => []Inv
BY InitInv, NextInv, PTL DEF Spec

(* Whatever the programs and the depths of the queues: every register      *)
(* holds a value of its width and no queue or tracker overflows.           *)
THEOREM TypeCorrect == Spec => []TypeOK
<1>1. Inv => TypeOK
  BY DEF Inv
<1>2. QED BY <1>1, Invariance, PTL

(* The trackers always list exactly the commands the units serve, in the   *)
(* order they answer, so each response releases the entry of the command   *)
(* it answers.                                                             *)
THEOREM TrackersStayInStep == Spec => []TrackersInStep
<1>1. Inv => TrackersInStep
  BY DEF Inv
<1>2. QED BY <1>1, Invariance, PTL

(* No command the core hands over is lost: the room the front end saw a    *)
(* cycle before it took the command is still there.                        *)
LEMMA AcceptedStep ==
  Inv /\ [Next]_vars => [cmd_fire /\ IsQueued(prog[pc]) => pc \in Queued']_vars
<1>1. SUFFICES ASSUME Inv, Next, cmd_fire, IsQueued(prog[pc])
      PROVE  pc \in Queued'
  OBVIOUS
<1>2. PICK offer, respReady, ldFire, ldResp, stResp, exResp \in BOOLEAN :
        CycleOf(offer, respReady, ldFire, ldResp, stResp, exResp)
  BY <1>1, NextIsCycle, Zenon
<1>3. Bit(LdEnq) = 1 \/ Bit(StEnq) = 1 \/ Bit(ExEnq) = 1
  BY <1>1 DEF Bit, LdEnq, StEnq, ExEnq, IsQueued, IsEx
<1>4. KindStep(ld_cmd_que, ld_unit, ld_cmd_que', ld_unit', Bit(ldResp), Bit(ldFire), Bit(LdEnq))
  BY <1>1, <1>2, LoadStep, Zenon
<1>5. KindStep(st_cmd_que, st_unit, st_cmd_que', st_unit', Bit(stResp), Bit(StFires), Bit(StEnq))
  BY <1>1, <1>2, StoreStep, Zenon
<1>6. KindStep(ex_cmd_que, ex_unit, ex_cmd_que', ex_unit', Bit(exResp), Bit(ExFires), Bit(ExEnq))
  BY <1>1, <1>2, ExecuteStep, Zenon
<1>7. /\ Bit(LdEnq) = 1 => pc \in Elems(ld_cmd_que')
      /\ Bit(StEnq) = 1 => pc \in Elems(st_cmd_que')
      /\ Bit(ExEnq) = 1 => pc \in Elems(ex_cmd_que')
  BY <1>4, <1>5, <1>6 DEF KindStep, MoveDone
<1>8. QED BY <1>3, <1>7 DEF Queued

THEOREM AcceptedCommandsQueued == Spec => AcceptedIsQueued
BY Invariance, AcceptedStep, PTL DEF Spec, AcceptedIsQueued


---------------------------------------------------------------------------
(* The order of the tasks.                                                 *)
(*                                                                         *)
(* A decision to issue looks at the heads of the queues and of the         *)
(* trackers only.  What it may conclude from them comes from what has      *)
(* started: a store that started shows that its task has executed, an EXE  *)
(* that started that its task is loaded, that the one before has executed  *)
(* and that the stores of the one before that are complete.                *)

(* Units serve in order. *)
StartedInOrder ==
  \A i \in Started, j \in Queued : Order!SameUnit(prog[i], prog[j]) => i < j
CompletedInOrder ==
  \A i \in Completed, j \in InService : Order!SameUnit(prog[i], prog[j]) => i < j

(* What had to precede a command that started is complete. *)
StartedSound ==
  \A i \in Started, j \in 1 .. (pc - 1) : Order!Precedes(j, i) => j \in Completed

(* The stores of earlier tasks start before a CFG or an EXE does.          *)
StoreOfEarlier(j, i) ==
  j < i /\ prog[j].funct = STORE_CMD /\ prog[j].task < prog[i].task
ExecutesBehindStores ==
  \A i \in Started, j \in 1 .. (pc - 1) :
    IsEx(prog[i]) /\ StoreOfEarlier(j, i) => j \in Started
ExecuteHeld ==
  ex_state = s_issue =>
    \A j \in 1 .. (pc - 1) : StoreOfEarlier(j, Head(ex_cmd_que)) => j \in Started

(* last_ld_cmd_task_id is the task of the last load that started. *)
StartedLoad(i) == i \in Started /\ prog[i].funct = LOAD_CMD
LastLoad ==
  \/ last_ld_cmd_task_id = 0 /\ \A i \in Started : ~StartedLoad(i)
  \/ \E m \in Started : /\ StartedLoad(m) /\ last_ld_cmd_task_id = prog[m].task
                        /\ \A i \in Started : StartedLoad(i) => i <= m

(* A fence is taken when all before it is complete. *)
ControlHeld ==
  /\ state = s_fence /\ cmd_ready => 1 .. (pc - 1) \subseteq Completed
  /\ state = s_flush /\ cmd_ready => prog[pc].funct = FLUSH_CMD

Settled  == Inv /\ StartedInOrder /\ StartedSound /\ ExecutesBehindStores /\ LastLoad
OrderInv == Settled /\ CompletedInOrder /\ ExecuteHeld /\ ControlHeld /\ DecisionsSound

(* The command at a position, in the terms of the order. *)
Ld(i)   == prog[i].funct = LOAD_CMD
Cf(i)   == prog[i].funct = CFG_CMD
Xe(i)   == prog[i].funct = EXE_CMD
St(i)   == prog[i].funct = STORE_CMD
Fn(i)   == prog[i].funct = FENCE_CMD
Fl(i)   == prog[i].funct = FLUSH_CMD
Tk(i)   == prog[i].task
Dep(i)  == prog[i].dep
CfgB(i) == prog[i].is_cfg

LEMMA CommandFacts ==
  ASSUME TypeOK, NEW i \in 1 .. Len(prog)
  PROVE  /\ Tk(i) \in Nat
         /\ Ld(i) \/ Cf(i) \/ Xe(i) \/ St(i) \/ Fn(i) \/ Fl(i)
         /\ Ld(i) => ~Cf(i) /\ ~Xe(i) /\ ~St(i) /\ ~Fn(i) /\ ~Fl(i)
         /\ Cf(i) => ~Xe(i) /\ ~St(i) /\ ~Fn(i) /\ ~Fl(i)
         /\ Xe(i) => ~St(i) /\ ~Fn(i) /\ ~Fl(i)
         /\ St(i) => ~Fn(i) /\ ~Fl(i)
         /\ Fn(i) => ~Fl(i)
         /\ IsQueued(prog[i]) <=> Ld(i) \/ Cf(i) \/ Xe(i) \/ St(i)
         /\ IsEx(prog[i]) <=> Cf(i) \/ Xe(i)
         /\ Stage(prog[i]) = IF Ld(i) THEN 1 ELSE IF Cf(i) THEN 2 ELSE IF Xe(i) THEN 3 ELSE 4
<1>1. prog[i].task \in TaskIds /\ prog[i].funct \in Functs
  BY ProgFacts
<1>2. Tk(i) \in Nat
  BY <1>1 DEF Tk, TaskIds
<1>3. QED
  BY <1>1, <1>2 DEF Functs, Ld, Cf, Xe, St, Fn, Fl, IsQueued, IsEx, Stage,
     LOAD_CMD, CFG_CMD, EXE_CMD, STORE_CMD, FENCE_CMD, FLUSH_CMD

(* What must precede a load, a CFG or an EXE, a store and a fence. *)
BeforeLoad(j, i) ==
  \/ (Cf(j) \/ Xe(j)) /\ Tk(j) + 2 <= Tk(i)
  \/ St(j) /\ Tk(j) + 3 <= Tk(i)
  \/ Dep(i) = 1 /\ St(j) /\ Tk(j) + 1 <= Tk(i)
  \/ Dep(i) = 3 /\ St(j) /\ Tk(j) + 2 <= Tk(i)
  \/ Dep(i) = 2 /\ Tk(j) + 1 <= Tk(i) /\ (Cf(j) \/ (Xe(j) /\ ~CfgB(i)))
BeforeEx(j, i) ==
  \/ Ld(j) /\ Tk(j) <= Tk(i) /\ (CfgB(j) \/ Xe(i))
  \/ Cf(j) \/ Xe(j)
  \/ St(j) /\ Tk(j) + 2 <= Tk(i)
  \/ Dep(i) = 1 /\ St(j) /\ Tk(j) + 1 <= Tk(i)
BeforeStore(j, i) ==
  \/ (Ld(j) \/ Cf(j) \/ Xe(j)) /\ Tk(j) <= Tk(i)
  \/ St(j)

LEMMA PrecedesFacts ==
  ASSUME TypeOK, NEW i \in 1 .. Len(prog), NEW j \in 1 .. Len(prog)
  PROVE  /\ Ld(i) => (Order!Precedes(j, i) <=> j < i /\ (Fn(j) \/ BeforeLoad(j, i)))
         /\ Cf(i) \/ Xe(i) => (Order!Precedes(j, i) <=> j < i /\ (Fn(j) \/ BeforeEx(j, i)))
         /\ St(i) => (Order!Precedes(j, i) <=> j < i /\ (Fn(j) \/ BeforeStore(j, i)))
         /\ Fn(i) => (Order!Precedes(j, i) <=> j < i /\ ~Fl(j))
         /\ Fl(i) => (Order!Precedes(j, i) <=> j < i /\ Fn(j))
<1> DEFINE c == prog[j]
           d == prog[i]
<1>1. /\ d.task \in Nat /\ c.task \in Nat /\ d.funct \in Functs /\ c.funct \in Functs
  BY ProgFacts DEF TaskIds
<1>2. Order!Precedes(j, i) <=>
      /\ j < i
      /\ \/ c.funct = FENCE_CMD
         \/ d.funct = FENCE_CMD /\ c.funct # FLUSH_CMD
         \/ d.funct = LOAD_CMD  /\ IsQueued(c) /\ Order!PrecedesLoad(c, d)
         \/ IsEx(d)             /\ IsQueued(c) /\ Order!PrecedesEx(c, d)
         \/ d.funct = STORE_CMD /\ IsQueued(c) /\ Order!PrecedesStore(c, d)
  BY DEF Order!Precedes, Order!IsQueued, Order!IsEx, IsQueued, IsEx, Order!FENCE_CMD,
     Order!FLUSH_CMD, Order!LOAD_CMD, Order!STORE_CMD, Order!CFG_CMD, Order!EXE_CMD,
     LOAD_CMD, CFG_CMD, EXE_CMD, STORE_CMD, FENCE_CMD, FLUSH_CMD
<1>3. /\ Order!PrecedesLoad(c, d) <=> BeforeLoad(j, i)
      /\ IsEx(d) => (Order!PrecedesEx(c, d) <=> BeforeEx(j, i))
      /\ IsQueued(c) => (Order!PrecedesStore(c, d) <=> BeforeStore(j, i))
  <2>1. Order!PrecedesLoad(c, d) <=> BeforeLoad(j, i)
    <3>1. /\ Order!IsEx(c) <=> Cf(j) \/ Xe(j)
          /\ c.funct = Order!STORE_CMD <=> St(j)
          /\ c.funct = Order!CFG_CMD <=> Cf(j)
          /\ c.funct = Order!EXE_CMD <=> Xe(j)
      BY DEF Order!IsEx, Order!STORE_CMD, Order!CFG_CMD, Order!EXE_CMD, STORE_CMD, CFG_CMD,
         EXE_CMD, Cf, Xe, St
    <3>2. /\ d.dep = Order!LD_DEP_ST_LAST_TASK <=> Dep(i) = 1
          /\ d.dep = Order!LD_DEP_EX_LAST_TASK <=> Dep(i) = 2
          /\ d.dep = Order!LD_DEP_ST_LAST_SEC_TASK <=> Dep(i) = 3
          /\ d.is_cfg <=> CfgB(i)
      BY DEF Order!LD_DEP_ST_LAST_TASK, Order!LD_DEP_EX_LAST_TASK,
         Order!LD_DEP_ST_LAST_SEC_TASK, Dep, CfgB
    <3>3. /\ Order!LaterBy(1, c, d) <=> Tk(j) + 1 <= Tk(i)
          /\ Order!LaterBy(2, c, d) <=> Tk(j) + 2 <= Tk(i)
          /\ Order!LaterBy(3, c, d) <=> Tk(j) + 3 <= Tk(i)
      BY DEF Order!LaterBy, Tk
    <3> HIDE DEF c, d
    <3>4. QED BY <3>1, <3>2, <3>3, Zenon DEF Order!PrecedesLoad, BeforeLoad
  <2>2. IsEx(d) => (Order!PrecedesEx(c, d) <=> BeforeEx(j, i))
    BY <1>1 DEF Order!PrecedesEx, BeforeEx, Order!LaterBy, Order!EX_DEP_ST_LAST_TASK, IsEx,
     Order!IsEx, Order!LOAD_CMD, Order!STORE_CMD, Order!CFG_CMD, Order!EXE_CMD,
     LOAD_CMD, STORE_CMD, CFG_CMD, EXE_CMD, Ld, Cf, Xe, St, Tk, Dep, CfgB
  <2>3. IsQueued(c) => (Order!PrecedesStore(c, d) <=> BeforeStore(j, i))
    BY <1>1 DEF Order!PrecedesStore, BeforeStore, IsQueued,
     Order!IsEx, Order!LOAD_CMD, Order!STORE_CMD, Order!CFG_CMD, Order!EXE_CMD,
     LOAD_CMD, STORE_CMD, CFG_CMD, EXE_CMD, Ld, Cf, Xe, St, Tk, Dep, CfgB
  <2>4. QED BY <2>1, <2>2, <2>3
<1>4. c.funct = FENCE_CMD <=> Fn(j)
  BY DEF Fn
<1>5. /\ d.funct = FENCE_CMD <=> Fn(i)
      /\ c.funct = FLUSH_CMD <=> Fl(j)
      /\ d.funct = LOAD_CMD <=> Ld(i)
      /\ d.funct = STORE_CMD <=> St(i)
      /\ IsEx(d) <=> Cf(i) \/ Xe(i)
  BY DEF Fn, Fl, Ld, St, IsEx, Cf, Xe
<1>6. /\ BeforeLoad(j, i) => IsQueued(c)
      /\ BeforeEx(j, i) => IsQueued(c)
      /\ BeforeStore(j, i) => IsQueued(c)
  BY CommandFacts DEF BeforeLoad, BeforeEx, BeforeStore
<1> HIDE DEF c, d
<1>7. QED
  BY <1>2, <1>3, <1>4, <1>5, <1>6, CommandFacts


(* Where a command is that the core handed over. *)
LEMMA Positions ==
  ASSUME Inv
  PROVE  /\ TypeOK /\ Kinds
         /\ pc \in Nat /\ pc - 1 \in Nat /\ pc - 1 <= Len(prog) /\ Len(prog) \in Nat
         /\ \A i \in 1 .. (pc - 1) : i \in 1 .. Len(prog) /\ i \in Nat
<1>1. TypeOK /\ Kinds
  BY DEF Inv
<1>2. pc \in Nat /\ 1 <= pc /\ pc <= Len(prog) + 1 /\ Len(prog) \in Nat
  BY <1>1, ProgFacts
<1>3. pc - 1 \in Nat /\ pc - 1 <= Len(prog)
  BY <1>2
<1>4. \A i \in 1 .. (pc - 1) : i \in 1 .. Len(prog) /\ i \in Nat
  BY <1>2, <1>3
<1>5. QED BY <1>1, <1>2, <1>3, <1>4

LEMMA Places ==
  ASSUME Inv, NEW i \in 1 .. (pc - 1)
  PROVE  /\ i \notin Started <=> i \in Queued
         /\ i \notin Started => i \notin Completed
         /\ i \in Elems(ld_cmd_que) <=> Ld(i) /\ i \notin Started
         /\ i \in Elems(st_cmd_que) <=> St(i) /\ i \notin Started
         /\ i \in Elems(ex_cmd_que) <=> (Cf(i) \/ Xe(i)) /\ i \notin Started
         /\ Ld(i) /\ i \in Started /\ i \notin Completed => i \in Elems(ld_unit)
         /\ St(i) /\ i \in Started /\ i \notin Completed => i \in Elems(st_unit)
         /\ (Cf(i) \/ Xe(i)) /\ i \in Started /\ i \notin Completed => i \in Elems(ex_unit)
         /\ ~IsQueued(prog[i]) => i \in Completed
<1>1. TypeOK /\ Kinds /\ i \in 1 .. Len(prog)
  BY Positions
<1>2. /\ i \in Elems(ld_cmd_que) \cup Elems(ld_unit) => Ld(i)
      /\ i \in Elems(st_cmd_que) \cup Elems(st_unit) => St(i)
      /\ i \in Elems(ex_cmd_que) \cup Elems(ex_unit) => Cf(i) \/ Xe(i)
  BY <1>1, CommandFacts DEF Kinds, Ld, St
<1>3. /\ i \notin Started <=> i \in Queued
      /\ i \in Completed <=> i \in Started /\ i \notin InService
  BY DEF Started, Completed
<1>4. /\ i \in Queued <=> \/ i \in Elems(ld_cmd_que) \/ i \in Elems(st_cmd_que)
                         \/ i \in Elems(ex_cmd_que)
      /\ i \in InService <=> \/ i \in Elems(ld_unit) \/ i \in Elems(st_unit)
                            \/ i \in Elems(ex_unit)
  BY DEF Queued, InService
<1>5. QED BY <1>1, <1>2, <1>3, <1>4, CommandFacts

LEMMA HeadIsLeast ==
  ASSUME NEW S \in SUBSET Int, NEW q \in Seq(S), Increasing(q), q # <<>>
  PROVE  Head(q) \in Elems(q) /\ Head(q) \in S /\ \A i \in Elems(q) : Head(q) <= i
<1>1. Head(q) \in Elems(q) /\ \A i \in Elems(q) : Head(q) <= i
  BY TailFacts
<1>2. Head(q) \in S
  OBVIOUS
<1>3. QED BY <1>1, <1>2

(* The heads of the command queues are the first of their kind to start.   *)
LEMMA QueueHeads ==
  ASSUME Inv
  PROVE  /\ ld_cmd_que # <<>> =>
              /\ Head(ld_cmd_que) \in 1 .. (pc - 1) /\ Head(ld_cmd_que) \notin Started
              /\ Ld(Head(ld_cmd_que))
              /\ \A i \in 1 .. (pc - 1) : Ld(i) /\ i \notin Started => Head(ld_cmd_que) <= i
         /\ st_cmd_que # <<>> =>
              /\ Head(st_cmd_que) \in 1 .. (pc - 1) /\ Head(st_cmd_que) \notin Started
              /\ St(Head(st_cmd_que))
              /\ \A i \in 1 .. (pc - 1) : St(i) /\ i \notin Started => Head(st_cmd_que) <= i
         /\ ex_cmd_que # <<>> =>
              /\ Head(ex_cmd_que) \in 1 .. (pc - 1) /\ Head(ex_cmd_que) \notin Started
              /\ Cf(Head(ex_cmd_que)) \/ Xe(Head(ex_cmd_que))
              /\ \A i \in 1 .. (pc - 1) :
                   (Cf(i) \/ Xe(i)) /\ i \notin Started => Head(ex_cmd_que) <= i
         /\ \A i \in 1 .. (pc - 1) :
              /\ Ld(i) /\ i \notin Started => ld_cmd_que # <<>>
              /\ St(i) /\ i \notin Started => st_cmd_que # <<>>
              /\ (Cf(i) \/ Xe(i)) /\ i \notin Started => ex_cmd_que # <<>>
<1>1. /\ ld_cmd_que \in Seq(1 .. (pc - 1)) /\ st_cmd_que \in Seq(1 .. (pc - 1))
      /\ ex_cmd_que \in Seq(1 .. (pc - 1))
      /\ Increasing(ld_cmd_que) /\ Increasing(st_cmd_que) /\ Increasing(ex_cmd_que)
  BY DEF Inv, TypeOK, QueueOf, InOrder
<1>2. 1 .. (pc - 1) \in SUBSET Int
  OBVIOUS
<1>3. Elems(<<>>) = {}
  BY DEF Elems
<1>4. /\ ld_cmd_que # <<>> =>
           /\ Head(ld_cmd_que) \in Elems(ld_cmd_que) /\ Head(ld_cmd_que) \in 1 .. (pc - 1)
           /\ \A i \in Elems(ld_cmd_que) : Head(ld_cmd_que) <= i
      /\ st_cmd_que # <<>> =>
           /\ Head(st_cmd_que) \in Elems(st_cmd_que) /\ Head(st_cmd_que) \in 1 .. (pc - 1)
           /\ \A i \in Elems(st_cmd_que) : Head(st_cmd_que) <= i
      /\ ex_cmd_que # <<>> =>
           /\ Head(ex_cmd_que) \in Elems(ex_cmd_que) /\ Head(ex_cmd_que) \in 1 .. (pc - 1)
           /\ \A i \in Elems(ex_cmd_que) : Head(ex_cmd_que) <= i
  BY <1>1, <1>2, HeadIsLeast, Zenon
<1>5. \A i \in 1 .. (pc - 1) :
        /\ i \in Elems(ld_cmd_que) <=> Ld(i) /\ i \notin Started
        /\ i \in Elems(st_cmd_que) <=> St(i) /\ i \notin Started
        /\ i \in Elems(ex_cmd_que) <=> (Cf(i) \/ Xe(i)) /\ i \notin Started
  BY Places
<1>6. QED
  BY <1>3, <1>4, <1>5, Zenon

(* No fence was handed over after a command that is not complete. *)
LEMMA NoFenceAfter ==
  ASSUME Settled, NEW j \in 1 .. (pc - 1), j \notin Completed,
         NEW k \in 1 .. (pc - 1), j <= k
  PROVE  ~Fn(k)
<1>1. SUFFICES ASSUME Fn(k) PROVE FALSE
  OBVIOUS
<1>2. Inv /\ StartedSound
  BY DEF Settled
<1>3. j \in 1 .. Len(prog) /\ k \in 1 .. Len(prog) /\ TypeOK
  BY <1>2, Positions
<1>4. k \in Completed /\ k \in Started
  BY <1>1, <1>2, <1>3, CommandFacts, Places
<1>5. j < k /\ IsQueued(prog[j])
  <2>1. j # k
    BY <1>4
  <2>2. IsQueued(prog[j])
    BY <1>2, Places
  <2>3. QED BY <2>1, <2>2
<1>6. Order!Precedes(j, k)
  BY <1>1, <1>3, <1>5, PrecedesFacts, CommandFacts
<1>7. QED BY <1>2, <1>4, <1>6 DEF StartedSound


(* The kernels of a program, seen from a command that is not complete.     *)
LEMMA TogetherHere ==
  ASSUME Settled, NEW j \in 1 .. (pc - 1), j \notin Completed,
         NEW a \in 1 .. (pc - 1), NEW b \in 1 .. (pc - 1), j <= a
  PROVE  Together(prog, a, b)
<1>1. SUFFICES ASSUME NEW k \in a .. b PROVE prog[k].funct # FENCE_CMD
  BY DEF Together
<1>2. Inv
  BY DEF Settled
<1>3. k \in 1 .. (pc - 1) /\ j <= k
  BY <1>2, Positions
<1>4. QED BY <1>3, NoFenceAfter DEF Fn

LEMMA TasksAscend ==
  ASSUME Settled, NEW j \in 1 .. (pc - 1), j \notin Completed,
         NEW a \in 1 .. (pc - 1), NEW b \in 1 .. (pc - 1), j <= a, a < b,
         IsQueued(prog[a]), IsQueued(prog[b])
  PROVE  InStep(prog, a, b) /\ Tk(a) <= Tk(b)
<1>1. Inv
  BY DEF Settled
<1>2. a \in 1 .. (b - 1) /\ b \in DOMAIN prog
  <2>1. a \in 1 .. Len(prog) /\ b \in 1 .. Len(prog) /\ TypeOK
    BY <1>1, Positions
  <2>2. DOMAIN prog = 1 .. Len(prog)
    BY <2>1, ProgFacts
  <2>3. QED BY <2>1, <2>2
<1>3. KernelByKernel(prog)
  BY <1>1, KernelsAssumption DEF Inv, TypeOK
<1>4. Together(prog, a, b)
  BY TogetherHere
<1>5. QED BY <1>2, <1>3, <1>4 DEF KernelByKernel, InStep, Tk

\* In every run of commands without a fence, k belongs after j.
Follows(j, k) ==
  Tk(j) < Tk(k) \/ (Tk(j) = Tk(k) /\ Stage(prog[j]) < Stage(prog[k]))

LEMMA FollowsIsAfter ==
  ASSUME Settled, NEW j \in 1 .. (pc - 1), j \notin Completed, IsQueued(prog[j]),
         NEW i \in 1 .. (pc - 1), j < i,
         NEW k \in 1 .. (i - 1), Together(prog, k, i), IsQueued(prog[k]), Follows(j, k)
  PROVE  k \in 1 .. (pc - 1) /\ j < k
<1>1. Inv
  BY DEF Settled
<1>2. /\ TypeOK /\ i \in Nat /\ j \in Nat /\ pc - 1 \in Nat /\ i <= pc - 1
      /\ j \in 1 .. Len(prog) /\ k \in 1 .. Len(prog) /\ DOMAIN prog = 1 .. Len(prog)
      /\ k \in Nat /\ k < i /\ k \in 1 .. (pc - 1)
  <2>1. TypeOK /\ i \in 1 .. Len(prog) /\ j \in 1 .. Len(prog) /\ pc - 1 \in Nat
    BY <1>1, Positions
  <2>2. k \in Nat /\ k < i /\ k \in 1 .. (pc - 1) /\ k \in 1 .. Len(prog)
    BY <1>1, Positions
  <2>3. DOMAIN prog = 1 .. Len(prog)
    BY <2>1, ProgFacts
  <2>4. QED BY <2>1, <2>2, <2>3
<1>3. SUFFICES ASSUME k <= j PROVE FALSE
  BY <1>2
<1>4. k # j
  <2>1. Tk(j) \in Nat /\ Stage(prog[j]) \in Nat
    BY <1>2, CommandFacts
  <2>2. QED BY <2>1 DEF Follows
<1>5. k \in 1 .. (j - 1)
  BY <1>2, <1>3, <1>4
<1>6. Together(prog, k, j)
  <2>1. \A n \in k .. j : n \in k .. i
    BY <1>2
  <2>2. QED BY <2>1 DEF Together
<1>7. InStep(prog, k, j)
  <2>1. KernelByKernel(prog)
    BY <1>1, KernelsAssumption DEF Inv, TypeOK
  <2>2. QED BY <2>1, <1>2, <1>5, <1>6 DEF KernelByKernel
<1>8. Tk(k) <= Tk(j) /\ (Tk(k) = Tk(j) => Stage(prog[k]) <= Stage(prog[j]))
  BY <1>7 DEF InStep, Tk
<1>9. Tk(j) \in Nat /\ Tk(k) \in Nat /\ Stage(prog[j]) \in Nat /\ Stage(prog[k]) \in Nat
  BY <1>2, CommandFacts
<1>10. QED BY <1>8, <1>9 DEF Follows

(* What lies between a command j that is not complete and a later one.     *)
LEMMA Between ==
  ASSUME Settled, NEW j \in 1 .. (pc - 1), j \notin Completed, IsQueued(prog[j]),
         NEW i \in 1 .. (pc - 1), j < i, IsQueued(prog[i]),
         NEW t \in Tk(j) .. (Tk(i) - 1)
  PROVE  /\ t > Tk(j) => \E k \in 1 .. (pc - 1) : j < k /\ k < i /\ Ld(k) /\ Tk(k) = t
         /\ t > Tk(j) \/ Ld(j) \/ Cf(j) =>
              \E k \in 1 .. (pc - 1) : j < k /\ k < i /\ Xe(k) /\ Tk(k) = t
         /\ t > Tk(j) \/ ~St(j) =>
              \E k \in 1 .. (pc - 1) : j < k /\ k < i /\ St(k) /\ Tk(k) = t
<1>1. Inv /\ TypeOK /\ j \in 1 .. Len(prog) /\ i \in 1 .. Len(prog)
  BY Positions DEF Settled
<1>2. Tk(j) \in Nat /\ Tk(i) \in Nat /\ t \in Nat
  BY <1>1, CommandFacts
<1>3. InStep(prog, j, i)
  BY TasksAscend, <1>1, Positions
<1>4. ASSUME NEW f \in {LOAD_CMD, EXE_CMD, STORE_CMD},
             \A k \in 1 .. Len(prog) : prog[k].funct = f /\ Tk(k) = t =>
               IsQueued(prog[k]) /\ Follows(j, k)
      PROVE  \E k \in 1 .. (pc - 1) : j < k /\ k < i /\ prog[k].funct = f /\ Tk(k) = t
  <2>1. Earlier(prog, i, f, t)
    BY <1>3 DEF InStep, Tk
  <2>2. PICK k \in 1 .. (i - 1) : Together(prog, k, i) /\ prog[k].funct = f /\ Tk(k) = t
    BY <2>1 DEF Earlier, Tk
  <2>3. k \in 1 .. Len(prog) /\ k < i
    BY <1>1
  <2>4. k \in 1 .. (pc - 1) /\ j < k
    BY <1>4, <2>2, <2>3, FollowsIsAfter
  <2>5. QED BY <2>2, <2>3, <2>4
<1>5. ASSUME NEW k \in 1 .. Len(prog), Tk(k) = t
      PROVE  /\ Ld(k) /\ t > Tk(j) => IsQueued(prog[k]) /\ Follows(j, k)
             /\ Xe(k) /\ (t > Tk(j) \/ Ld(j) \/ Cf(j)) => IsQueued(prog[k]) /\ Follows(j, k)
             /\ St(k) /\ (t > Tk(j) \/ ~St(j)) => IsQueued(prog[k]) /\ Follows(j, k)
  BY <1>1, <1>2, <1>5, CommandFacts DEF Follows
<1>6. t > Tk(j) => \E k \in 1 .. (pc - 1) : j < k /\ k < i /\ Ld(k) /\ Tk(k) = t
  BY <1>4, <1>5 DEF Ld
<1>7. t > Tk(j) \/ Ld(j) \/ Cf(j) =>
        \E k \in 1 .. (pc - 1) : j < k /\ k < i /\ Xe(k) /\ Tk(k) = t
  BY <1>4, <1>5 DEF Xe
<1>8. t > Tk(j) \/ ~St(j) => \E k \in 1 .. (pc - 1) : j < k /\ k < i /\ St(k) /\ Tk(k) = t
  BY <1>4, <1>5 DEF St
<1>9. QED BY <1>6, <1>7, <1>8

(* The CFG before an EXE and the EXE before a store of the same task.      *)
LEMMA OwnTask ==
  ASSUME Settled, NEW j \in 1 .. (pc - 1), j \notin Completed, Ld(j),
         NEW i \in 1 .. (pc - 1), j < i, Tk(j) <= Tk(i)
  PROVE  /\ Xe(i) => \E k \in 1 .. (pc - 1) : j < k /\ k < i /\ Cf(k) /\ Tk(k) = Tk(i)
         /\ St(i) => \E k \in 1 .. (pc - 1) : j < k /\ k < i /\ Xe(k) /\ Tk(k) = Tk(i)
<1>1. Inv /\ TypeOK /\ j \in 1 .. Len(prog) /\ i \in 1 .. Len(prog)
  BY Positions DEF Settled
<1>2. Tk(j) \in Nat /\ Tk(i) \in Nat /\ IsQueued(prog[j])
  BY <1>1, CommandFacts
<1>3. i \in DOMAIN prog /\ KernelByKernel(prog)
  BY <1>1, ProgFacts, KernelsAssumption DEF TypeOK
<1>4. ASSUME NEW f \in {CFG_CMD, EXE_CMD}, Earlier(prog, i, f, Tk(i))
      PROVE  \E k \in 1 .. (pc - 1) : j < k /\ k < i /\ prog[k].funct = f /\ Tk(k) = Tk(i)
  <2>1. PICK k \in 1 .. (i - 1) : Together(prog, k, i) /\ prog[k].funct = f /\ Tk(k) = Tk(i)
    BY <1>4 DEF Earlier, Tk
  <2>2. k \in 1 .. Len(prog) /\ k < i
    BY <1>1
  <2>3. IsQueued(prog[k]) /\ Follows(j, k)
    <3>1. Cf(k) \/ Xe(k)
      BY <2>1 DEF Cf, Xe
    <3>2. QED BY <3>1, <2>1, <2>2, <1>1, <1>2, CommandFacts DEF Follows
  <2>4. k \in 1 .. (pc - 1) /\ j < k
    BY <2>1, <2>3, <1>2, FollowsIsAfter
  <2>5. QED BY <2>1, <2>2, <2>4
<1>5. Xe(i) \/ St(i) => IsQueued(prog[i])
  BY <1>1, CommandFacts
<1>6. /\ Xe(i) => Earlier(prog, i, CFG_CMD, Tk(i))
      /\ St(i) => Earlier(prog, i, EXE_CMD, Tk(i))
  BY <1>3, <1>5 DEF KernelByKernel, Xe, St, Tk
<1>7. QED BY <1>4, <1>6 DEF Cf, Xe


(* What a command that started shows of those before it.                   *)
LEMMA Shown ==
  ASSUME Settled, NEW j \in 1 .. (pc - 1), NEW k \in Started, j < k
  PROVE  /\ St(k) /\ (Ld(j) \/ Cf(j) \/ Xe(j)) /\ Tk(j) <= Tk(k) => j \in Completed
         /\ St(k) /\ St(j) => j \in Completed
         /\ Xe(k) /\ Ld(j) /\ Tk(j) <= Tk(k) => j \in Completed
         /\ (Xe(k) \/ Cf(k)) /\ (Cf(j) \/ Xe(j)) => j \in Completed
         /\ (Xe(k) \/ Cf(k)) /\ St(j) /\ Tk(j) + 2 <= Tk(k) => j \in Completed
         /\ Cf(k) /\ Ld(j) /\ CfgB(j) /\ Tk(j) <= Tk(k) => j \in Completed
         /\ Ld(k) /\ (Cf(j) \/ Xe(j)) /\ Tk(j) + 2 <= Tk(k) => j \in Completed
<1>1. Inv /\ StartedSound
  BY DEF Settled
<1>2. k \in 1 .. (pc - 1)
  BY DEF Started
<1>3. TypeOK /\ j \in 1 .. Len(prog) /\ k \in 1 .. Len(prog)
  BY <1>1, <1>2, Positions
<1>4. Order!Precedes(j, k) => j \in Completed
  BY <1>1 DEF StartedSound
<1>5. /\ Ld(k) => (Order!Precedes(j, k) <=> j < k /\ (Fn(j) \/ BeforeLoad(j, k)))
      /\ Cf(k) \/ Xe(k) => (Order!Precedes(j, k) <=> j < k /\ (Fn(j) \/ BeforeEx(j, k)))
      /\ St(k) => (Order!Precedes(j, k) <=> j < k /\ (Fn(j) \/ BeforeStore(j, k)))
  BY <1>3, PrecedesFacts
<1>6. /\ (Ld(j) \/ Cf(j) \/ Xe(j)) /\ Tk(j) <= Tk(k) => BeforeStore(j, k)
      /\ St(j) => BeforeStore(j, k)
      /\ Xe(k) /\ Ld(j) /\ Tk(j) <= Tk(k) => BeforeEx(j, k)
      /\ Cf(j) \/ Xe(j) => BeforeEx(j, k)
      /\ St(j) /\ Tk(j) + 2 <= Tk(k) => BeforeEx(j, k)
      /\ Ld(j) /\ CfgB(j) /\ Tk(j) <= Tk(k) => BeforeEx(j, k)
      /\ (Cf(j) \/ Xe(j)) /\ Tk(j) + 2 <= Tk(k) => BeforeLoad(j, k)
  BY DEF BeforeStore, BeforeEx, BeforeLoad
<1>7. QED BY <1>4, <1>5, <1>6, Zenon

(* The task at the head of a queue is the least of those that wait there.  *)
LEMMA HeadTasks ==
  ASSUME Settled, NEW i \in 1 .. (pc - 1), i \notin Started
  PROVE  /\ Ld(i) => ld_cmd_que # <<>> /\ Tk(Head(ld_cmd_que)) <= Tk(i)
         /\ St(i) => st_cmd_que # <<>> /\ Tk(Head(st_cmd_que)) <= Tk(i)
         /\ Cf(i) \/ Xe(i) => ex_cmd_que # <<>> /\ Tk(Head(ex_cmd_que)) <= Tk(i)
<1>1. Inv /\ TypeOK /\ i \in 1 .. Len(prog)
  BY Positions DEF Settled
<1>2. ASSUME NEW h \in 1 .. (pc - 1), h \notin Started, h <= i,
             IsQueued(prog[h]), IsQueued(prog[i])
      PROVE  Tk(h) <= Tk(i)
  <2>1. CASE h = i
    <3>1. Tk(i) \in Nat
      BY <1>1, CommandFacts
    <3>2. QED BY <2>1, <3>1
  <2>2. CASE h # i
    <3>1. h < i /\ h \notin Completed /\ h <= h
      BY <1>1, <1>2, <2>2, Places, Positions
    <3>2. QED BY <1>2, <3>1, TasksAscend
  <2>3. QED BY <2>1, <2>2
<1>3. Ld(i) \/ St(i) \/ Cf(i) \/ Xe(i) => IsQueued(prog[i])
  BY <1>1, CommandFacts
<1>4. \A h \in 1 .. (pc - 1) : Ld(h) \/ St(h) \/ Cf(h) \/ Xe(h) => IsQueued(prog[h])
  BY <1>1, CommandFacts, Positions
<1>5. CASE Ld(i)
  <2>1. /\ ld_cmd_que # <<>> /\ Head(ld_cmd_que) \in 1 .. (pc - 1)
        /\ Head(ld_cmd_que) \notin Started /\ Ld(Head(ld_cmd_que)) /\ Head(ld_cmd_que) <= i
    BY <1>1, <1>5, QueueHeads, Zenon
  <2>2. QED BY <1>1, <1>2, <1>3, <1>4, <1>5, <2>1, CommandFacts
<1>6. CASE St(i)
  <2>1. /\ st_cmd_que # <<>> /\ Head(st_cmd_que) \in 1 .. (pc - 1)
        /\ Head(st_cmd_que) \notin Started /\ St(Head(st_cmd_que)) /\ Head(st_cmd_que) <= i
    BY <1>1, <1>6, QueueHeads, Zenon
  <2>2. QED BY <1>1, <1>2, <1>3, <1>4, <1>6, <2>1, CommandFacts
<1>7. CASE Cf(i) \/ Xe(i)
  <2>1. /\ ex_cmd_que # <<>> /\ Head(ex_cmd_que) \in 1 .. (pc - 1)
        /\ Head(ex_cmd_que) \notin Started /\ Head(ex_cmd_que) <= i
        /\ Cf(Head(ex_cmd_que)) \/ Xe(Head(ex_cmd_que))
    BY <1>1, <1>7, QueueHeads, Zenon
  <2>2. QED BY <1>1, <1>2, <1>3, <1>4, <1>7, <2>1, CommandFacts
<1>8. QED BY <1>5, <1>6, <1>7

(* A command of the storer or the CGRA controller that is not complete     *)
(* occupies the unit, and with it the tracker.                             *)
LEMMA UnitBusy ==
  ASSUME Inv, NEW j \in 1 .. (pc - 1), j \in Started, j \notin Completed
  PROVE  /\ St(j) => deq_valid(st_resv_que) /\ j = Head(st_resv_que) /\ st_unit # <<>>
         /\ Cf(j) \/ Xe(j) => deq_valid(ex_resv_que) /\ j = Head(ex_resv_que) /\ ex_unit # <<>>
<1>1. /\ st_resv_que = st_unit /\ ex_resv_que = ex_unit
      /\ st_unit \in Seq(1 .. (pc - 1)) /\ Len(st_unit) <= 1
      /\ ex_unit \in Seq(1 .. (pc - 1)) /\ Len(ex_unit) <= 1
  BY DEF Inv, TypeOK, QueueOf, TrackersInStep
<1>2. \A q \in Seq(1 .. (pc - 1)) : Len(q) <= 1 /\ j \in Elems(q) => q # <<>> /\ j = Head(q)
  BY DEF Elems
<1>3. /\ St(j) => j \in Elems(st_unit)
      /\ Cf(j) \/ Xe(j) => j \in Elems(ex_unit)
  BY Places
<1>4. QED BY <1>1, <1>2, <1>3, Zenon DEF deq_valid


---------------------------------------------------------------------------
(* The decisions.                                                          *)

\* A load at the head of its queue that would overtake j.
Overtakes(h, j) ==
  /\ h \in 1 .. (pc - 1) /\ Ld(h) /\ h \notin Started
  /\ j \in 1 .. (pc - 1) /\ j \notin Completed /\ j < h
  /\ BeforeLoad(j, h)

LEMMA OvertakesFacts ==
  ASSUME Settled, NEW h, NEW j, Overtakes(h, j)
  PROVE  /\ Tk(j) \in Nat /\ Tk(h) \in Nat /\ Tk(j) + 1 <= Tk(h)
         /\ Cf(j) \/ Xe(j) \/ St(j)
         /\ IsQueued(prog[j]) /\ IsQueued(prog[h])
         /\ ~(St(j) /\ (Cf(j) \/ Xe(j)))
         /\ \A t \in Tk(j) .. (Tk(h) - 1) :
              /\ t > Tk(j) => \E k \in 1 .. (pc - 1) : j < k /\ k < h /\ Xe(k) /\ Tk(k) = t
              /\ Cf(j) => \E k \in 1 .. (pc - 1) : j < k /\ k < h /\ Xe(k) /\ Tk(k) = t
              /\ t > Tk(j) \/ Cf(j) \/ Xe(j) =>
                   \E k \in 1 .. (pc - 1) : j < k /\ k < h /\ St(k) /\ Tk(k) = t
<1> USE DEF Overtakes
<1>1. Inv /\ TypeOK /\ j \in 1 .. Len(prog) /\ h \in 1 .. Len(prog)
  BY Positions DEF Settled
<1>2. Tk(j) \in Nat /\ Tk(h) \in Nat
  BY <1>1, CommandFacts
<1>3. (Cf(j) \/ Xe(j) \/ St(j)) /\ Tk(j) + 1 <= Tk(h)
  BY <1>2 DEF BeforeLoad
<1>4. IsQueued(prog[j]) /\ IsQueued(prog[h]) /\ ~(St(j) /\ (Cf(j) \/ Xe(j)))
  BY <1>1, <1>3, CommandFacts
<1>5. QED
  BY <1>2, <1>3, <1>4, Between

(* The stores of tasks before n, or their CFG and EXE, have all started.   *)
StoresStarted(n)   == \A k \in 1 .. (pc - 1) : St(k) /\ Tk(k) < n => k \in Started
ExecutesStarted(n) == \A k \in 1 .. (pc - 1) : (Cf(k) \/ Xe(k)) /\ Tk(k) < n => k \in Started

LEMMA HeadsShow ==
  ASSUME Settled, NEW n \in Nat
  PROVE  /\ SameOrNone(n, st_cmd_que) => StoresStarted(n)
         /\ SameOrNone(n, ex_cmd_que) => ExecutesStarted(n)
         /\ deq_valid(st_cmd_que) /\ n <= HeadTask(st_cmd_que) => StoresStarted(n)
<1>1. Inv /\ TypeOK
  BY Positions DEF Settled
<1>2. \A k \in 1 .. (pc - 1) : Tk(k) \in Nat
  BY <1>1, Positions, CommandFacts
<1>3. \A k \in 1 .. (pc - 1) : k \notin Started =>
        /\ St(k) => st_cmd_que # <<>> /\ Tk(Head(st_cmd_que)) <= Tk(k)
        /\ Cf(k) \/ Xe(k) => ex_cmd_que # <<>> /\ Tk(Head(ex_cmd_que)) <= Tk(k)
  BY HeadTasks
<1>4. /\ st_cmd_que # <<>> => Tk(Head(st_cmd_que)) \in Nat
      /\ ex_cmd_que # <<>> => Tk(Head(ex_cmd_que)) \in Nat
  BY <1>1, <1>2, QueueHeads
<1>5. /\ HeadTask(st_cmd_que) = Tk(Head(st_cmd_que))
      /\ HeadTask(ex_cmd_que) = Tk(Head(ex_cmd_que))
  BY DEF HeadTask, Tk
<1>6. /\ SameOrNone(n, st_cmd_que) <=> st_cmd_que = <<>> \/ n = HeadTask(st_cmd_que)
      /\ SameOrNone(n, ex_cmd_que) <=> ex_cmd_que = <<>> \/ n = HeadTask(ex_cmd_que)
      /\ deq_valid(st_cmd_que) <=> st_cmd_que # <<>>
  BY DEF SameOrNone, deq_valid
<1>7. QED BY <1>2, <1>3, <1>4, <1>5, <1>6 DEF StoresStarted, ExecutesStarted

(* No other task is ahead of the load. *)
LEMMA LoadSameTask ==
  ASSUME Settled, NEW h, NEW j, Overtakes(h, j), StoresStarted(Tk(h)),
         ~AwaitStore(prog[h])
  PROVE  FALSE
<1>1. /\ Inv /\ j \in 1 .. (pc - 1) /\ j \notin Completed
      /\ BeforeLoad(j, h)
  BY DEF Settled, Overtakes
<1>2. Tk(j) \in Nat /\ Tk(h) \in Nat /\ Tk(j) + 1 <= Tk(h)
  BY OvertakesFacts
<1>3. CASE Cf(j) \/ Xe(j)
  <2>1. PICK k \in 1 .. (pc - 1) : j < k /\ St(k) /\ Tk(k) = Tk(j)
    BY <1>2, <1>3, OvertakesFacts
  <2>2. k \in Started
    BY <2>1, <1>2 DEF StoresStarted
  <2>3. QED BY <1>1, <1>2, <1>3, <2>1, <2>2, Shown
<1>4. CASE St(j) /\ Tk(j) + 2 <= Tk(h)
  <2>1. PICK k \in 1 .. (pc - 1) : j < k /\ St(k) /\ Tk(k) = Tk(j) + 1
    BY <1>2, <1>4, OvertakesFacts
  <2>2. k \in Started
    BY <2>1, <1>2, <1>4 DEF StoresStarted
  <2>3. QED BY <1>1, <1>4, <2>1, <2>2, Shown
<1>5. CASE St(j) /\ Dep(h) = 1
  <2>1. j \in Started
    BY <1>1, <1>2, <1>5 DEF StoresStarted
  <2>2. deq_valid(st_resv_que)
    BY <1>1, <1>5, <2>1, UnitBusy
  <2>3. QED BY <1>5, <2>2 DEF AwaitStore, Dep, LD_DEP_ST_LAST_TASK
<1>6. QED
  <2>1. Cf(j) \/ Xe(j) \/ (St(j) /\ Tk(j) + 2 <= Tk(h)) \/ (St(j) /\ Dep(h) = 1)
    BY <1>1, <1>2 DEF BeforeLoad
  <2>2. QED BY <1>3, <1>4, <1>5, <2>1

(* Stores of another task are ahead of it. *)
LEMMA LoadAheadOfStore ==
  ASSUME Settled, NEW h, NEW j, Overtakes(h, j), ExecutesStarted(Tk(h)),
         Dep(h) # 1, ~AwaitStore(prog[h]), ~AwaitEx(prog[h])
  PROVE  FALSE
<1>1. /\ Inv /\ j \in 1 .. (pc - 1) /\ j \notin Completed
      /\ BeforeLoad(j, h)
  BY DEF Settled, Overtakes
<1>2. Tk(j) \in Nat /\ Tk(h) \in Nat /\ Tk(j) + 1 <= Tk(h)
  BY OvertakesFacts
<1>3. CASE (Cf(j) \/ Xe(j)) /\ Tk(j) + 2 <= Tk(h)
  <2>1. PICK k \in 1 .. (pc - 1) : j < k /\ Xe(k) /\ Tk(k) = Tk(j) + 1
    BY <1>2, <1>3, OvertakesFacts
  <2>2. k \in Started
    BY <2>1, <1>2, <1>3 DEF ExecutesStarted
  <2>3. QED BY <1>1, <1>3, <2>1, <2>2, Shown
<1>4. CASE Dep(h) = 2 /\ (Cf(j) \/ (Xe(j) /\ ~CfgB(h)))
  <2>1. j \in Started
    BY <1>1, <1>2, <1>4 DEF ExecutesStarted
  <2>2. deq_valid(ex_resv_que)
    BY <1>1, <1>4, <2>1, UnitBusy
  <2>3. CfgB(h)
    BY <1>4, <2>2 DEF AwaitEx, Dep, CfgB, LD_DEP_EX_LAST_TASK
  <2>4. PICK k \in 1 .. (pc - 1) : j < k /\ Xe(k) /\ Tk(k) = Tk(j)
    BY <1>2, <1>4, <2>3, OvertakesFacts
  <2>5. k \in Started
    BY <2>4, <1>2 DEF ExecutesStarted
  <2>6. QED BY <1>1, <1>4, <2>4, <2>5, Shown
<1>5. CASE St(j) /\ Tk(j) + 3 <= Tk(h)
  <2>1. PICK k \in 1 .. (pc - 1) : j < k /\ Xe(k) /\ Tk(k) = Tk(j) + 2
    BY <1>2, <1>5, OvertakesFacts
  <2>2. k \in Started
    BY <2>1, <1>2, <1>5 DEF ExecutesStarted
  <2>3. Tk(j) + 2 <= Tk(k)
    BY <2>1, <1>2
  <2>4. QED BY <1>1, <1>5, <2>1, <2>2, <2>3, Shown
<1>6. CASE Dep(h) = 3 /\ St(j) /\ Tk(j) + 2 <= Tk(h)
  <2>1. PICK k \in 1 .. (pc - 1) : j < k /\ Xe(k) /\ Tk(k) = Tk(j) + 1
    BY <1>2, <1>6, OvertakesFacts
  <2>2. k \in Started
    BY <2>1, <1>2, <1>6 DEF ExecutesStarted
  <2>3. j \in Started
    <3>1. StoreOfEarlier(j, k) /\ IsEx(prog[k])
      BY <1>2, <1>6, <2>1 DEF StoreOfEarlier, St, Tk, Xe, IsEx
    <3>2. QED BY <1>1, <2>2, <3>1 DEF Settled, ExecutesBehindStores
  <2>4. deq_valid(st_resv_que)
    BY <1>1, <1>6, <2>3, UnitBusy
  <2>5. QED BY <1>6, <2>4 DEF AwaitStore, Dep, LD_DEP_ST_LAST_SEC_TASK
<1>7. QED
  <2>1. \/ (Cf(j) \/ Xe(j)) /\ Tk(j) + 2 <= Tk(h)
        \/ Dep(h) = 2 /\ (Cf(j) \/ (Xe(j) /\ ~CfgB(h)))
        \/ St(j) /\ Tk(j) + 3 <= Tk(h)
        \/ Dep(h) = 3 /\ St(j) /\ Tk(j) + 2 <= Tk(h)
    BY <1>1 DEF BeforeLoad
  <2>2. QED BY <1>3, <1>4, <1>5, <1>6, <2>1


(* Executes and stores of another, common task are ahead of it: they are   *)
(* those of the task before its own.                                       *)
LEMMA CommonTaskIsLast ==
  ASSUME Settled, NEW h \in 1 .. (pc - 1), Ld(h), h \notin Started,
         \A k \in 1 .. (pc - 1) : k < h /\ Ld(k) => k \in Started,
         NEW e \in 1 .. (pc - 1), Cf(e) \/ Xe(e), e \notin Started,
         last_ld_cmd_task_id \in {Tk(h), Tk(e)}
  PROVE  Tk(h) <= Tk(e) + 1
<1>1. /\ Inv /\ TypeOK /\ h \in 1 .. Len(prog) /\ e \in 1 .. Len(prog)
      /\ e \notin Completed /\ h \notin Completed /\ LastLoad
  BY Positions, Places DEF Settled
<1>2. /\ Tk(h) \in Nat /\ Tk(e) \in Nat /\ IsQueued(prog[h]) /\ IsQueued(prog[e])
      /\ e # h
  BY <1>1, CommandFacts
<1>3. SUFFICES ASSUME Tk(e) + 2 <= Tk(h) PROVE FALSE
  BY <1>2
<1>4. e < h
  <2>1. h < e => Tk(h) <= Tk(e)
    BY <1>1, <1>2, TasksAscend
  <2>2. QED BY <1>2, <1>3, <2>1
<1>5. PICK k \in 1 .. (pc - 1) : e < k /\ k < h /\ Ld(k) /\ Tk(k) = Tk(e) + 1
  <2>1. Tk(e) + 1 \in Tk(e) .. (Tk(h) - 1) /\ Tk(e) + 1 > Tk(e)
    BY <1>2, <1>3
  <2>2. QED BY <1>1, <1>2, <1>4, <2>1, Between
<1>6. k \in Started /\ StartedLoad(k)
  BY <1>5 DEF StartedLoad, Ld
<1>7. PICK m \in Started : /\ StartedLoad(m) /\ last_ld_cmd_task_id = prog[m].task
                           /\ \A i \in Started : StartedLoad(i) => i <= m
  BY <1>1, <1>6 DEF LastLoad
<1>8. /\ m \in 1 .. (pc - 1) /\ Ld(m) /\ k <= m /\ m \in 1 .. Len(prog) /\ e < m
      /\ Tk(m) = last_ld_cmd_task_id
  <2>1. m \in 1 .. (pc - 1) /\ Ld(m) /\ k <= m
    BY <1>6, <1>7 DEF Started, StartedLoad, Ld
  <2>2. m \in 1 .. Len(prog) /\ e < m
    BY <2>1, <1>1, <1>5, Positions
  <2>3. QED BY <1>7, <2>1, <2>2 DEF Tk
<1>9. Tk(e) + 1 <= Tk(m)
  <2>1. IsQueued(prog[m]) /\ IsQueued(prog[k]) /\ Tk(m) \in Nat
    BY <1>1, <1>5, <1>8, CommandFacts, Positions
  <2>2. CASE k = m
    BY <1>2, <1>5, <2>2
  <2>3. CASE k # m
    <3>1. Tk(k) <= Tk(m)
      BY <1>1, <1>5, <1>8, <2>1, <2>3, TasksAscend, Positions
    <3>2. QED BY <1>5, <3>1
  <2>4. QED BY <2>2, <2>3
<1>10. Tk(m) = Tk(h)
  BY <1>2, <1>8, <1>9
<1>11. e \in Completed
  BY <1>3, <1>7, <1>8, <1>10, Shown
<1>12. QED BY <1>1, <1>11

LEMMA LoadAheadOfEx ==
  ASSUME Settled, NEW h, NEW j, Overtakes(h, j),
         NEW n \in Nat, StoresStarted(n), Tk(h) <= n + 1,
         Dep(h) \notin {1, 2}, ~AwaitStore(prog[h])
  PROVE  FALSE
<1>1. /\ Inv /\ j \in 1 .. (pc - 1) /\ j \notin Completed
      /\ BeforeLoad(j, h)
  BY DEF Settled, Overtakes
<1>2. Tk(j) \in Nat /\ Tk(h) \in Nat
  BY OvertakesFacts
<1>3. CASE (Cf(j) \/ Xe(j)) /\ Tk(j) + 2 <= Tk(h)
  <2>1. PICK k \in 1 .. (pc - 1) : j < k /\ St(k) /\ Tk(k) = Tk(j)
    BY <1>2, <1>3, OvertakesFacts
  <2>2. k \in Started
    BY <2>1, <1>2, <1>3 DEF StoresStarted
  <2>3. QED BY <1>1, <1>2, <1>3, <2>1, <2>2, Shown
<1>4. CASE St(j) /\ Tk(j) + 3 <= Tk(h)
  <2>1. PICK k \in 1 .. (pc - 1) : j < k /\ St(k) /\ Tk(k) = Tk(j) + 1
    BY <1>2, <1>4, OvertakesFacts
  <2>2. k \in Started
    BY <2>1, <1>2, <1>4 DEF StoresStarted
  <2>3. QED BY <1>1, <1>4, <2>1, <2>2, Shown
<1>5. CASE Dep(h) = 3 /\ St(j) /\ Tk(j) + 2 <= Tk(h)
  <2>1. j \in Started
    BY <1>1, <1>2, <1>5 DEF StoresStarted
  <2>2. deq_valid(st_resv_que)
    BY <1>1, <1>5, <2>1, UnitBusy
  <2>3. QED BY <1>5, <2>2 DEF AwaitStore, Dep, LD_DEP_ST_LAST_SEC_TASK
<1>6. QED
  BY <1>1, <1>3, <1>4, <1>5 DEF BeforeLoad

(* A load may issue: all that must precede it is complete. *)
LEMMA LoadDecision ==
  ASSUME Settled, LdMayIssue, NEW j \in 1 .. (pc - 1), Order!Precedes(j, Head(ld_cmd_que))
  PROVE  j \in Completed
<1> DEFINE h == Head(ld_cmd_que)
           e == Head(ex_cmd_que)
           s == Head(st_cmd_que)
<1>1. SUFFICES ASSUME j \notin Completed PROVE FALSE
  OBVIOUS
<1>2. Inv /\ TypeOK /\ ld_cmd_que # <<>>
  BY Positions DEF Settled, LdMayIssue, deq_valid
<1>3. /\ h \in 1 .. (pc - 1) /\ Ld(h) /\ h \notin Started
      /\ \A k \in 1 .. (pc - 1) : Ld(k) /\ k \notin Started => h <= k
  BY <1>2, QueueHeads, Zenon
<1>4. h \in 1 .. Len(prog) /\ j \in 1 .. Len(prog)
  BY <1>2, <1>3, Positions
<1>5. Overtakes(h, j)
  <2>1. j < h /\ (Fn(j) \/ BeforeLoad(j, h))
    BY <1>2, <1>3, <1>4, PrecedesFacts
  <2>2. Fn(j) => ~IsQueued(prog[j])
    BY <1>2, <1>4, CommandFacts
  <2>3. ~Fn(j)
    BY <1>1, <1>2, <2>2, Places
  <2>4. QED BY <1>1, <1>3, <2>1, <2>3 DEF Overtakes
<1>6. Tk(h) \in Nat /\ prog[h].task = Tk(h) /\ prog[h].dep = Dep(h)
  BY <1>2, <1>4, CommandFacts DEF Tk, Dep
<1>7. LdSameTask(prog[h]) \/ LdAheadOfStore(prog[h]) \/ LdAheadOfEx(prog[h])
  BY DEF LdMayIssue
<1> HIDE DEF h, e, s
<1>8. CASE LdSameTask(prog[h])
  <2>1. SameOrNone(Tk(h), st_cmd_que) /\ ~AwaitStore(prog[h])
    BY <1>6, <1>8 DEF LdSameTask
  <2>2. StoresStarted(Tk(h))
    BY <1>6, <2>1, HeadsShow
  <2>3. QED BY <1>5, <2>1, <2>2, LoadSameTask
<1>9. CASE LdAheadOfStore(prog[h])
  <2>1. /\ SameOrNone(Tk(h), ex_cmd_que) /\ Dep(h) # 1
        /\ ~AwaitStore(prog[h]) /\ ~AwaitEx(prog[h])
    BY <1>6, <1>9 DEF LdAheadOfStore, LD_DEP_ST_LAST_TASK
  <2>2. ExecutesStarted(Tk(h))
    BY <1>6, <2>1, HeadsShow
  <2>3. QED BY <1>5, <2>1, <2>2, LoadAheadOfStore
<1>10. CASE LdAheadOfEx(prog[h])
  <2>1. /\ deq_valid(st_cmd_que) /\ HeadTask(ex_cmd_que) = HeadTask(st_cmd_que)
        /\ ex_cmd_que # <<>> /\ Dep(h) \notin {1, 2} /\ ~AwaitStore(prog[h])
        /\ last_ld_cmd_task_id \in {Tk(h), HeadTask(ex_cmd_que)}
    BY <1>6, <1>10 DEF LdAheadOfEx, LD_DEP_ST_LAST_TASK, LD_DEP_EX_LAST_TASK, SameOrNone,
       deq_valid
  <2>2. e \in 1 .. (pc - 1) /\ e \notin Started /\ (Cf(e) \/ Xe(e))
    BY <1>2, <2>1, QueueHeads DEF e
  <2>3. HeadTask(ex_cmd_que) = Tk(e) /\ Tk(e) \in Nat
    BY <1>2, <2>2, Positions, CommandFacts DEF HeadTask, Tk, e
  <2>4. StoresStarted(Tk(e))
    BY <2>1, <2>3, HeadsShow
  <2>5. \A k \in 1 .. (pc - 1) : k < h /\ Ld(k) => k \in Started
    BY <1>2, <1>3, Positions
  <2>6. Tk(h) <= Tk(e) + 1
    BY <1>3, <2>1, <2>2, <2>3, <2>5, CommonTaskIsLast
  <2>7. QED BY <1>5, <2>1, <2>3, <2>4, <2>6, LoadAheadOfEx
<1>11. QED BY <1>7, <1>8, <1>9, <1>10


(* The loads of earlier tasks are complete when a CFG or an EXE is at the  *)
(* head of its queue: an EXE of theirs has started.                        *)
LEMMA EarlierLoadsDone ==
  ASSUME Settled, NEW e \in 1 .. (pc - 1), Cf(e) \/ Xe(e),
         \A k \in 1 .. (pc - 1) : k < e /\ (Cf(k) \/ Xe(k)) => k \in Started,
         NEW g \in 1 .. (pc - 1), Ld(g), g < e, Tk(g) < Tk(e)
  PROVE  g \in Completed
<1>1. Inv /\ TypeOK /\ g \in 1 .. Len(prog) /\ e \in 1 .. Len(prog)
  BY Positions DEF Settled
<1>2. Tk(g) \in Nat /\ Tk(e) \in Nat /\ IsQueued(prog[g]) /\ IsQueued(prog[e])
  BY <1>1, CommandFacts
<1>3. SUFFICES ASSUME g \notin Completed PROVE FALSE
  OBVIOUS
<1>4. PICK k \in 1 .. (pc - 1) : g < k /\ k < e /\ Xe(k) /\ Tk(k) = Tk(g)
  BY <1>2, <1>3, Between
<1>5. k \in Started
  BY <1>4
<1>6. QED BY <1>2, <1>3, <1>4, <1>5, Shown

(* A load in service is in its tracker, behind the head or at it.          *)
LEMMA LoadTracked ==
  ASSUME Settled, NEW j \in 1 .. (pc - 1), Ld(j), j \in Started, j \notin Completed,
         NEW que, que = IF CfgB(j) THEN ld_cfg_resv_que ELSE ld_dat_resv_que
  PROVE  /\ deq_valid(que) /\ Head(que) \in 1 .. (pc - 1) /\ Head(que) <= j
         /\ Ld(Head(que)) /\ Head(que) \notin Completed /\ HeadTask(que) <= Tk(j)
<1>1. Inv /\ TypeOK /\ j \in 1 .. Len(prog)
  BY Positions DEF Settled
<1>2. j \in Elems(ld_unit)
  BY <1>1, Places
<1>3. /\ j \in Elems(que) /\ Elems(que) \subseteq Elems(ld_unit)
      /\ que \in Seq(1 .. (pc - 1)) /\ Increasing(que)
  <2>1. /\ Increasing(ld_dat_resv_que) /\ Increasing(ld_cfg_resv_que)
        /\ Elems(ld_dat_resv_que) = {i \in Elems(ld_unit) : ~prog[i].is_cfg}
        /\ Elems(ld_cfg_resv_que) = {i \in Elems(ld_unit) : prog[i].is_cfg}
        /\ ld_dat_resv_que \in Seq(1 .. (pc - 1)) /\ ld_cfg_resv_que \in Seq(1 .. (pc - 1))
    BY <1>1 DEF Inv, TrackersInStep, TypeOK, QueueOf
  <2>2. QED BY <1>2, <2>1 DEF CfgB
<1>4. que # <<>>
  BY <1>3 DEF Elems
<1>5. /\ Head(que) \in Elems(que) /\ Head(que) \in 1 .. (pc - 1)
      /\ \A i \in Elems(que) : Head(que) <= i
  <2>1. 1 .. (pc - 1) \in SUBSET Int
    OBVIOUS
  <2>2. QED BY <1>3, <1>4, <2>1, HeadIsLeast
<1> DEFINE g == Head(que)
<1>6. g \in Elems(ld_unit) /\ g \in 1 .. (pc - 1) /\ g <= j
  BY <1>3, <1>5
<1> HIDE DEF g
<1>7. Ld(g) /\ g \notin Completed
  BY <1>1, <1>6 DEF Inv, Kinds, Ld, Completed, InService
<1>8. Tk(g) <= Tk(j)
  <2>1. CASE g = j
    <3>1. Tk(j) \in Nat
      BY <1>1, CommandFacts
    <3>2. QED BY <2>1, <3>1
  <2>2. CASE g # j
    <3>1. g < j /\ g <= g /\ IsQueued(prog[g]) /\ IsQueued(prog[j])
      BY <1>1, <1>6, <1>7, <2>2, Positions, CommandFacts
    <3>2. QED BY <1>6, <1>7, <3>1, TasksAscend
  <2>3. QED BY <2>1, <2>2
<1>9. QED
  BY <1>4, <1>6, <1>7, <1>8 DEF deq_valid, HeadTask, Tk, g

(* A CFG or an EXE may issue: all that must precede it is complete, and    *)
(* the stores of earlier tasks have started.                               *)
LEMMA ExecuteDecision ==
  ASSUME Settled, ExMayIssue, NEW j \in 1 .. (pc - 1)
  PROVE  /\ Order!Precedes(j, Head(ex_cmd_que)) /\ ~(Cf(j) \/ Xe(j)) => j \in Completed
         /\ StoreOfEarlier(j, Head(ex_cmd_que)) => j \in Started
<1> DEFINE e == Head(ex_cmd_que)
           l == Head(ld_cmd_que)
<1>1. Inv /\ TypeOK /\ ex_cmd_que # <<>>
  BY Positions DEF Settled, ExMayIssue, deq_valid
<1>2. /\ e \in 1 .. (pc - 1) /\ (Cf(e) \/ Xe(e)) /\ e \notin Started
      /\ \A k \in 1 .. (pc - 1) : (Cf(k) \/ Xe(k)) /\ k \notin Started => e <= k
  BY <1>1, QueueHeads, Zenon
<1>3. /\ e \in 1 .. Len(prog) /\ j \in 1 .. Len(prog)
      /\ \A k \in 1 .. (pc - 1) : k < e /\ (Cf(k) \/ Xe(k)) => k \in Started
  BY <1>1, <1>2, Positions
<1>4. /\ Tk(e) \in Nat /\ Tk(j) \in Nat /\ prog[e].task = Tk(e) /\ prog[e].dep = Dep(e)
      /\ prog[e].funct = CFG_CMD <=> Cf(e)
      /\ IsQueued(prog[e])
  BY <1>1, <1>2, <1>3, CommandFacts DEF Tk, Dep, Cf
<1>5. /\ SameOrNone(Tk(e), st_cmd_que)
      /\ ~deq_valid(ld_cmd_que) \/ Tk(e) # HeadTask(ld_cmd_que)
      /\ ~(Dep(e) = EX_DEP_ST_LAST_TASK /\ deq_valid(st_resv_que))
      /\ ~ExAwaitsLoads(prog[e])
  BY <1>4 DEF ExMayIssue
<1>6. StoresStarted(Tk(e))
  BY <1>4, <1>5, HeadsShow
<1> HIDE DEF e, l
<1>7. StoreOfEarlier(j, e) => j \in Started
  BY <1>6 DEF StoreOfEarlier, StoresStarted, St, Tk
<1>8. ASSUME Order!Precedes(j, e), ~(Cf(j) \/ Xe(j)), j \notin Completed
      PROVE  FALSE
  <2>1. j < e /\ IsQueued(prog[j]) /\ BeforeEx(j, e)
    <3>1. j < e /\ (Fn(j) \/ BeforeEx(j, e))
      BY <1>1, <1>2, <1>3, <1>8, PrecedesFacts
    <3>2. IsQueued(prog[j])
      BY <1>1, <1>8, Places
    <3>3. ~Fn(j)
      BY <1>1, <1>3, <3>2, CommandFacts
    <3>4. QED BY <3>1, <3>2, <3>3
  <2>2. CASE St(j) /\ Tk(j) + 2 <= Tk(e)
    <3>1. Tk(j) + 1 \in Tk(j) .. (Tk(e) - 1) /\ Tk(j) + 1 > Tk(j)
      BY <1>4, <2>2
    <3>2. PICK k \in 1 .. (pc - 1) : j < k /\ k < e /\ St(k) /\ Tk(k) = Tk(j) + 1
      BY <1>2, <1>4, <1>8, <2>1, <3>1, Between
    <3>3. k \in Started
      BY <1>4, <1>6, <2>2, <3>2 DEF StoresStarted
    <3>4. QED BY <1>8, <2>2, <3>2, <3>3, Shown
  <2>3. CASE Dep(e) = 1 /\ St(j) /\ Tk(j) + 1 <= Tk(e)
    <3>1. j \in Started
      BY <1>4, <1>6, <2>3 DEF StoresStarted
    <3>2. deq_valid(st_resv_que)
      BY <1>1, <1>8, <2>3, <3>1, UnitBusy
    <3>3. QED BY <1>5, <2>3, <3>2 DEF EX_DEP_ST_LAST_TASK
  <2>4. CASE Ld(j) /\ Tk(j) <= Tk(e) /\ (CfgB(j) \/ Xe(e))
    <3>1. Tk(j) = Tk(e)
      <4>1. ~(Tk(j) < Tk(e))
        BY <1>2, <1>3, <1>8, <2>1, <2>4, EarlierLoadsDone
      <4>2. QED BY <1>4, <2>4, <4>1
    <3>2. j \in Started
      <4>1. SUFFICES ASSUME j \notin Started PROVE FALSE
        OBVIOUS
      <4>2. /\ ld_cmd_que # <<>> /\ l \in 1 .. (pc - 1) /\ l \notin Started /\ Ld(l) /\ l <= j
        BY <1>1, <2>4, <4>1, QueueHeads DEF l
      <4>3. Tk(l) <= Tk(e) /\ HeadTask(ld_cmd_que) = Tk(l) /\ Tk(l) \in Nat
        <5>1. Tk(l) <= Tk(j)
          BY <2>4, <4>1, HeadTasks DEF l
        <5>2. Tk(l) \in Nat
          BY <1>1, <4>2, Positions, CommandFacts
        <5>3. QED BY <3>1, <5>1, <5>2 DEF HeadTask, Tk, l
      <4>4. Tk(l) < Tk(e)
        BY <1>4, <1>5, <4>2, <4>3 DEF deq_valid
      <4>5. l < e /\ l \notin Completed
        BY <1>1, <1>3, <2>1, <4>2, Places, Positions
      <4>6. QED BY <1>2, <1>3, <4>2, <4>4, <4>5, EarlierLoadsDone
    <3>3. CASE Xe(e) /\ CfgB(j)
      <4>1. PICK k \in 1 .. (pc - 1) : j < k /\ k < e /\ Cf(k) /\ Tk(k) = Tk(e)
        BY <1>2, <1>8, <2>1, <2>4, <3>3, OwnTask
      <4>2. k \in Started
        BY <1>3, <4>1
      <4>3. QED BY <1>8, <2>4, <3>3, <4>1, <4>2, Shown
    <3>4. CASE (Xe(e) /\ ~CfgB(j)) \/ (Cf(e) /\ CfgB(j))
      <4> DEFINE que == IF CfgB(j) THEN ld_cfg_resv_que ELSE ld_dat_resv_que
                 g == Head(que)
      <4>1. /\ deq_valid(que) /\ g \in 1 .. (pc - 1) /\ g <= j
            /\ Ld(g) /\ g \notin Completed /\ HeadTask(que) <= Tk(j)
        BY <1>8, <2>4, <3>2, LoadTracked
      <4>2. HeadTask(que) = Tk(g)
        BY DEF HeadTask, Tk
      <4>3. ~(Cf(e) /\ Xe(e))
        BY <1>1, <1>3, CommandFacts
      <4>4. Tk(e) # HeadTask(que)
        BY <1>4, <1>5, <3>4, <4>1, <4>3 DEF ExAwaitsLoads
      <4> HIDE DEF g
      <4>5. Tk(g) \in Nat
        BY <1>1, <4>1, Positions, CommandFacts
      <4>6. g < e /\ Tk(g) < Tk(e)
        BY <1>1, <1>3, <1>4, <2>1, <3>1, <4>1, <4>2, <4>4, <4>5, Positions
      <4>7. QED BY <1>2, <1>3, <4>1, <4>6, EarlierLoadsDone
    <3>5. QED
      <4>1. Xe(e) \/ Cf(e)
        BY <1>2
      <4>2. QED BY <2>4, <3>3, <3>4, <4>1
  <2>5. QED BY <1>8, <2>1, <2>2, <2>3, <2>4 DEF BeforeEx
<1>9. QED BY <1>7, <1>8 DEF e


(* A store may issue: all that must precede it is complete. *)
LEMMA StoreDecision ==
  ASSUME Settled, StMayIssue, NEW j \in 1 .. (pc - 1),
         Order!Precedes(j, Head(st_cmd_que)), ~St(j)
  PROVE  j \in Completed
<1> DEFINE s == Head(st_cmd_que)
           x == Head(ex_cmd_que)
<1>1. Inv /\ TypeOK /\ st_cmd_que # <<>>
  BY Positions DEF Settled, StMayIssue, deq_valid
<1>2. /\ s \in 1 .. (pc - 1) /\ St(s) /\ s \notin Started
      /\ \A k \in 1 .. (pc - 1) : St(k) /\ k \notin Started => s <= k
  BY <1>1, QueueHeads, Zenon
<1>3. /\ s \in 1 .. Len(prog) /\ j \in 1 .. Len(prog)
      /\ \A k \in 1 .. (pc - 1) : k < s /\ St(k) => k \in Started
  BY <1>1, <1>2, Positions
<1>4. /\ Tk(s) \in Nat /\ Tk(j) \in Nat /\ HeadTask(st_cmd_que) = Tk(s)
      /\ IsQueued(prog[s])
  BY <1>1, <1>2, <1>3, CommandFacts DEF Tk, HeadTask
<1>5. /\ ~deq_valid(ex_resv_que) \/ Tk(s) # HeadTask(ex_resv_que)
      /\ ~deq_valid(ex_cmd_que)  \/ Tk(s) # HeadTask(ex_cmd_que)
  BY <1>4 DEF StMayIssue
<1> HIDE DEF s, x
\* A store of every earlier task has started.
<1>6. ASSUME NEW g \in 1 .. (pc - 1), g < s, IsQueued(prog[g]), ~St(g), Tk(g) < Tk(s)
      PROVE  g \in Completed
  <2>1. SUFFICES ASSUME g \notin Completed PROVE FALSE
    OBVIOUS
  <2>2. g \in 1 .. Len(prog)
    BY <1>1, Positions
  <2>3. Tk(g) \in Tk(g) .. (Tk(s) - 1) /\ (Ld(g) \/ Cf(g) \/ Xe(g))
    BY <1>1, <1>4, <1>6, <2>2, CommandFacts
  <2>4. PICK k \in 1 .. (pc - 1) : g < k /\ k < s /\ St(k) /\ Tk(k) = Tk(g)
    BY <1>2, <1>4, <1>6, <2>1, <2>3, Between
  <2>5. k \in Started /\ Tk(g) <= Tk(k)
    BY <1>1, <1>3, <2>2, <2>4, CommandFacts
  <2>6. QED BY <2>1, <2>3, <2>4, <2>5, Shown
<1>7. ASSUME NEW k \in 1 .. (pc - 1), k < s, Cf(k) \/ Xe(k), Tk(k) = Tk(s)
      PROVE  k \in Completed
  <2>1. SUFFICES ASSUME k \notin Completed PROVE FALSE
    OBVIOUS
  <2>2. CASE k \in Started
    <3>1. deq_valid(ex_resv_que) /\ k = Head(ex_resv_que)
      BY <1>1, <1>7, <2>1, <2>2, UnitBusy
    <3>2. HeadTask(ex_resv_que) = Tk(k)
      BY <3>1 DEF HeadTask, Tk
    <3>3. QED BY <1>5, <1>7, <3>1, <3>2
  <2>3. CASE k \notin Started
    <3>1. /\ ex_cmd_que # <<>> /\ x \in 1 .. (pc - 1) /\ x \notin Started /\ x <= k
          /\ Cf(x) \/ Xe(x)
      BY <1>1, <1>7, <2>3, QueueHeads DEF x
    <3>2. Tk(x) <= Tk(k)
      BY <1>7, <2>3, HeadTasks DEF x
    <3>3. HeadTask(ex_cmd_que) = Tk(x)
      BY DEF HeadTask, Tk, x
    <3>4. /\ Tk(x) \in Nat /\ IsQueued(prog[x]) /\ ~St(x) /\ x < s
          /\ x \notin Completed
      BY <1>1, <1>3, <1>7, <3>1, Positions, CommandFacts, Places
    <3>5. Tk(x) < Tk(s)
      BY <1>4, <1>5, <1>7, <3>1, <3>2, <3>3, <3>4 DEF deq_valid
    <3>6. QED BY <1>6, <3>1, <3>4, <3>5
  <2>4. QED BY <2>2, <2>3
<1>8. SUFFICES ASSUME j \notin Completed PROVE FALSE
  OBVIOUS
<1>9. j < s /\ IsQueued(prog[j]) /\ (Ld(j) \/ Cf(j) \/ Xe(j)) /\ Tk(j) <= Tk(s)
  <2>1. j < s /\ (Fn(j) \/ BeforeStore(j, s))
    BY <1>1, <1>2, <1>3, PrecedesFacts DEF s
  <2>2. IsQueued(prog[j])
    BY <1>1, <1>8, Places
  <2>3. ~Fn(j)
    BY <1>1, <1>3, <2>2, CommandFacts
  <2>4. QED BY <2>1, <2>2, <2>3 DEF BeforeStore
<1>10. Tk(j) = Tk(s)
  BY <1>4, <1>6, <1>8, <1>9
<1>11. CASE Cf(j) \/ Xe(j)
  BY <1>7, <1>8, <1>9, <1>10, <1>11
<1>12. CASE Ld(j)
  <2>1. PICK k \in 1 .. (pc - 1) : j < k /\ k < s /\ Xe(k) /\ Tk(k) = Tk(s)
    BY <1>2, <1>8, <1>9, <1>12, OwnTask
  <2>2. k \in Completed /\ k \in Started
    BY <1>7, <2>1 DEF Completed
  <2>3. QED BY <1>8, <1>9, <1>12, <2>1, <2>2, Shown
<1>13. QED BY <1>9, <1>11, <1>12


---------------------------------------------------------------------------
(* What starts and what completes in a cycle. *)
LEMMA SameUnitFacts ==
  ASSUME TypeOK, NEW i \in 1 .. Len(prog), NEW j \in 1 .. Len(prog)
  PROVE  Order!SameUnit(prog[i], prog[j]) <=>
           \/ Ld(i) /\ Ld(j)
           \/ (Cf(i) \/ Xe(i)) /\ (Cf(j) \/ Xe(j))
           \/ St(i) /\ St(j)
<1>1. /\ Order!IsEx(prog[i]) <=> Cf(i) \/ Xe(i)
      /\ Order!IsEx(prog[j]) <=> Cf(j) \/ Xe(j)
  BY DEF Order!IsEx, Order!CFG_CMD, Order!EXE_CMD, CFG_CMD, EXE_CMD, Cf, Xe
<1>2. QED
  BY <1>1 DEF Order!SameUnit, Order!LOAD_CMD, Order!STORE_CMD, LOAD_CMD, STORE_CMD, Ld, St

LEMMA KindElems ==
  ASSUME NEW que, NEW unit, NEW que2, NEW unit2, NEW r, NEW d, NEW e,
         KindStep(que, unit, que2, unit2, Bit(r), Bit(d), Bit(e)), NEW i
  PROVE  /\ i \in Elems(que2) <=>
              (i \in Elems(que) /\ ~(d /\ i = Head(que))) \/ (e /\ i = pc)
         /\ i \in Elems(unit2) <=>
              (i \in Elems(unit) /\ ~(r /\ i = Head(unit))) \/ (d /\ i = Head(que))
<1>1. /\ Elems(que2) = (Elems(que) \ (IF Bit(d) = 1 THEN {Head(que)} ELSE {}))
                          \cup (IF Bit(e) = 1 THEN {pc} ELSE {})
      /\ Elems(unit2) = (Elems(unit) \ (IF Bit(r) = 1 THEN {Head(unit)} ELSE {}))
                          \cup (IF Bit(d) = 1 THEN {Head(que)} ELSE {})
  BY DEF KindStep, MoveDone
<1>2. (Bit(d) = 1 <=> d) /\ (Bit(e) = 1 <=> e) /\ (Bit(r) = 1 <=> r)
  BY DEF Bit
<1>3. QED BY <1>1, <1>2

LEMMA ElemsStep ==
  ASSUME Inv, NEW offer \in BOOLEAN, NEW respReady \in BOOLEAN,
         NEW ldFire, NEW ldResp, NEW stResp, NEW exResp,
         CycleOf(offer, respReady, ldFire, ldResp, stResp, exResp), NEW i
  PROVE  /\ i \in Elems(ld_cmd_que') <=>
              \/ i \in Elems(ld_cmd_que) /\ ~(ldFire /\ i = Head(ld_cmd_que))
              \/ LdEnq /\ i = pc
         /\ i \in Elems(st_cmd_que') <=>
              \/ i \in Elems(st_cmd_que) /\ ~(StFires /\ i = Head(st_cmd_que))
              \/ StEnq /\ i = pc
         /\ i \in Elems(ex_cmd_que') <=>
              \/ i \in Elems(ex_cmd_que) /\ ~(ExFires /\ i = Head(ex_cmd_que))
              \/ ExEnq /\ i = pc
         /\ i \in Elems(ld_unit') <=>
              \/ i \in Elems(ld_unit) /\ ~(ldResp /\ i = Head(ld_unit))
              \/ ldFire /\ i = Head(ld_cmd_que)
         /\ i \in Elems(st_unit') <=>
              \/ i \in Elems(st_unit) /\ ~(stResp /\ i = Head(st_unit))
              \/ StFires /\ i = Head(st_cmd_que)
         /\ i \in Elems(ex_unit') <=>
              \/ i \in Elems(ex_unit) /\ ~(exResp /\ i = Head(ex_unit))
              \/ ExFires /\ i = Head(ex_cmd_que)
<1>1. KindStep(ld_cmd_que, ld_unit, ld_cmd_que', ld_unit', Bit(ldResp), Bit(ldFire), Bit(LdEnq))
  BY LoadStep, Zenon
<1>2. KindStep(st_cmd_que, st_unit, st_cmd_que', st_unit', Bit(stResp), Bit(StFires), Bit(StEnq))
  BY StoreStep, Zenon
<1>3. KindStep(ex_cmd_que, ex_unit, ex_cmd_que', ex_unit', Bit(exResp), Bit(ExFires), Bit(ExEnq))
  BY ExecuteStep, Zenon
<1>4. /\ i \in Elems(ld_cmd_que') <=>
           (i \in Elems(ld_cmd_que) /\ ~(ldFire /\ i = Head(ld_cmd_que))) \/ (LdEnq /\ i = pc)
      /\ i \in Elems(ld_unit') <=>
           (i \in Elems(ld_unit) /\ ~(ldResp /\ i = Head(ld_unit)))
             \/ (ldFire /\ i = Head(ld_cmd_que))
  BY <1>1, KindElems
<1>5. /\ i \in Elems(st_cmd_que') <=>
           (i \in Elems(st_cmd_que) /\ ~(StFires /\ i = Head(st_cmd_que))) \/ (StEnq /\ i = pc)
      /\ i \in Elems(st_unit') <=>
           (i \in Elems(st_unit) /\ ~(stResp /\ i = Head(st_unit)))
             \/ (StFires /\ i = Head(st_cmd_que))
  BY <1>2, KindElems
<1>6. /\ i \in Elems(ex_cmd_que') <=>
           (i \in Elems(ex_cmd_que) /\ ~(ExFires /\ i = Head(ex_cmd_que))) \/ (ExEnq /\ i = pc)
      /\ i \in Elems(ex_unit') <=>
           (i \in Elems(ex_unit) /\ ~(exResp /\ i = Head(ex_unit)))
             \/ (ExFires /\ i = Head(ex_cmd_que))
  BY <1>3, KindElems
<1>7. QED BY <1>4, <1>5, <1>6, Zenon

\* What the units take, and what they answer, in the cycle.
Taken(i, ldFire) ==
  \/ ldFire /\ i = Head(ld_cmd_que)
  \/ StFires /\ i = Head(st_cmd_que)
  \/ ExFires /\ i = Head(ex_cmd_que)
Answered(i, ldResp, stResp, exResp) ==
  \/ ldResp /\ i = Head(ld_unit)
  \/ stResp /\ i = Head(st_unit)
  \/ exResp /\ i = Head(ex_unit)

(* A unit takes what its FSM has decided to issue. *)
LEMMA TakenFacts ==
  ASSUME Inv, NEW offer \in BOOLEAN, NEW respReady \in BOOLEAN,
         NEW ldFire, NEW ldResp, NEW stResp, NEW exResp,
         CycleOf(offer, respReady, ldFire, ldResp, stResp, exResp)
  PROVE  /\ ldFire \in BOOLEAN /\ ldResp \in BOOLEAN
         /\ stResp \in BOOLEAN /\ exResp \in BOOLEAN
         /\ ldFire => ld_state = s_issue /\ ld_cmd_que # <<>>
         /\ StFires => st_state = s_issue /\ st_cmd_que # <<>> /\ st_unit = <<>>
         /\ ExFires => ex_state = s_issue /\ ex_cmd_que # <<>> /\ ex_unit = <<>>
         /\ ldResp => ld_unit # <<>>
         /\ stResp => st_unit # <<>>
         /\ exResp => ex_unit # <<>>
<1>1. Issuing
  BY DEF Inv
<1>2. QED
  BY <1>1 DEF CycleOf, Issuing, StFires, ExFires, ld_req_valid, st_req_valid, ex_req_valid,
     st_req_ready, ex_req_ready

LEMMA TakenPlaces ==
  ASSUME Inv, NEW offer \in BOOLEAN, NEW respReady \in BOOLEAN,
         NEW ldFire, NEW ldResp, NEW stResp, NEW exResp,
         CycleOf(offer, respReady, ldFire, ldResp, stResp, exResp),
         NEW i, Taken(i, ldFire)
  PROVE  /\ i \in 1 .. (pc - 1) /\ i \notin Started
         /\ Ld(i) => ldFire /\ i = Head(ld_cmd_que)
         /\ St(i) => StFires /\ i = Head(st_cmd_que)
         /\ Cf(i) \/ Xe(i) => ExFires /\ i = Head(ex_cmd_que)
         /\ IsQueued(prog[i])
<1>1. /\ ldFire => ld_cmd_que # <<>>
      /\ StFires => st_cmd_que # <<>>
      /\ ExFires => ex_cmd_que # <<>>
  BY TakenFacts
<1>2. /\ i \in 1 .. (pc - 1) /\ i \notin Started
      /\ \/ Ld(i) /\ ldFire /\ i = Head(ld_cmd_que)
         \/ St(i) /\ StFires /\ i = Head(st_cmd_que)
         \/ (Cf(i) \/ Xe(i)) /\ ExFires /\ i = Head(ex_cmd_que)
  BY <1>1, QueueHeads, Zenon DEF Taken
<1>3. i \in 1 .. Len(prog) /\ TypeOK
  BY <1>2, Positions
<1>4. QED BY <1>2, <1>3, CommandFacts, Zenon


LEMMA Progressed ==
  ASSUME Inv, NEW offer \in BOOLEAN, NEW respReady \in BOOLEAN,
         NEW ldFire, NEW ldResp, NEW stResp, NEW exResp,
         CycleOf(offer, respReady, ldFire, ldResp, stResp, exResp)
  PROVE  /\ prog' = prog
         /\ \A i \in 1 .. (pc' - 1) : i \in 1 .. (pc - 1) \/ (cmd_fire /\ i = pc)
         /\ \A i \in 1 .. (pc - 1) : i \in 1 .. (pc' - 1) /\ i # pc /\ i < pc
         /\ \A i \in 1 .. (pc - 1) :
              /\ i \in Started' <=> i \in Started \/ Taken(i, ldFire)
              /\ i \in Completed => i \in Completed'
              /\ i \in Completed' /\ i \notin Completed =>
                   i \in Started /\ Answered(i, ldResp, stResp, exResp)
              /\ i \in InService' <=>
                   \/ i \in InService /\ ~Answered(i, ldResp, stResp, exResp)
                   \/ Taken(i, ldFire)
         /\ cmd_fire => /\ pc \in 1 .. (pc' - 1) /\ pc \in 1 .. Len(prog)
                        /\ pc \in Started' <=> ~IsQueued(prog[pc])
                        /\ pc \notin InService'
<1>1. TypeOK /\ Kinds /\ pc \in Nat /\ pc - 1 \in Nat /\ Len(prog) \in Nat
  BY Positions
<1>2. /\ prog' = prog /\ pc' = IF cmd_fire THEN pc + 1 ELSE pc
      /\ cmd_fire => pc <= Len(prog)
  BY FrontStep, Zenon
<1>3. /\ \A i \in 1 .. (pc' - 1) : i \in 1 .. (pc - 1) \/ (cmd_fire /\ i = pc)
      /\ \A i \in 1 .. (pc - 1) : i \in 1 .. (pc' - 1) /\ i # pc /\ i < pc
      /\ cmd_fire => pc \in 1 .. (pc' - 1) /\ pc \in 1 .. Len(prog)
  BY <1>1, <1>2
<1>4. /\ \A i : i \in Started' <=> i \in 1 .. (pc' - 1) /\ i \notin Queued'
      /\ \A i : i \in Completed' <=> i \in Started' /\ i \notin InService'
      /\ \A i : i \in Completed <=> i \in Started /\ i \notin InService
      /\ \A i \in 1 .. (pc - 1) : i \in Started <=> i \notin Queued
  BY DEF Started, Completed
\* A unit only holds commands of its kind, and so does a queue.
<1>5. /\ ldFire => ld_cmd_que # <<>>
      /\ StFires => st_cmd_que # <<>>
      /\ ExFires => ex_cmd_que # <<>>
      /\ ldResp => ld_unit # <<>>
      /\ stResp => st_unit # <<>>
      /\ exResp => ex_unit # <<>>
  BY TakenFacts
<1>6. /\ ldFire => Ld(Head(ld_cmd_que))
      /\ StFires => St(Head(st_cmd_que))
      /\ ExFires => Cf(Head(ex_cmd_que)) \/ Xe(Head(ex_cmd_que))
  BY <1>5, QueueHeads, Zenon
<1>7. /\ ldResp => Head(ld_unit) \in Elems(ld_unit)
      /\ stResp => Head(st_unit) \in Elems(st_unit)
      /\ exResp => Head(ex_unit) \in Elems(ex_unit)
  <2>1. /\ ld_unit \in Seq(1 .. (pc - 1)) /\ st_unit \in Seq(1 .. (pc - 1))
        /\ ex_unit \in Seq(1 .. (pc - 1))
    BY <1>1 DEF TypeOK, QueueOf
  <2>2. \A q \in Seq(1 .. (pc - 1)) : q # <<>> => Head(q) \in Elems(q)
    BY DEF Elems
  <2>3. QED BY <1>5, <2>1, <2>2, Zenon
<1>8. ASSUME NEW i \in 1 .. (pc - 1)
      PROVE  /\ i \in Queued' <=> i \in Queued /\ ~Taken(i, ldFire)
             /\ i \in InService' <=>
                   \/ i \in InService /\ ~Answered(i, ldResp, stResp, exResp)
                   \/ Taken(i, ldFire)
             /\ Taken(i, ldFire) => i \in Queued
             /\ i \in Queued => i \notin InService
  <2>1. i \in 1 .. Len(prog) /\ i # pc
    BY <1>3, Positions
  <2>2. /\ i \in Elems(ld_cmd_que) => Ld(i)
        /\ i \in Elems(st_cmd_que) => St(i)
        /\ i \in Elems(ex_cmd_que) => Cf(i) \/ Xe(i)
    BY Places
  <2>3. /\ i \in Elems(ld_unit) => Ld(i)
        /\ i \in Elems(st_unit) => St(i)
        /\ i \in Elems(ex_unit) => Cf(i) \/ Xe(i)
    BY <1>1, <2>1, CommandFacts DEF Kinds, Ld, St
  <2>4. /\ Ld(i) => ~Cf(i) /\ ~Xe(i) /\ ~St(i)
        /\ Cf(i) => ~Xe(i) /\ ~St(i)
        /\ Xe(i) => ~St(i)
    BY <1>1, <2>1, CommandFacts
  <2>5. /\ i \in Elems(ld_cmd_que') <=>
              i \in Elems(ld_cmd_que) /\ ~(ldFire /\ i = Head(ld_cmd_que))
        /\ i \in Elems(st_cmd_que') <=>
              i \in Elems(st_cmd_que) /\ ~(StFires /\ i = Head(st_cmd_que))
        /\ i \in Elems(ex_cmd_que') <=>
              i \in Elems(ex_cmd_que) /\ ~(ExFires /\ i = Head(ex_cmd_que))
        /\ i \in Elems(ld_unit') <=> \/ i \in Elems(ld_unit) /\ ~(ldResp /\ i = Head(ld_unit))
                                     \/ ldFire /\ i = Head(ld_cmd_que)
        /\ i \in Elems(st_unit') <=> \/ i \in Elems(st_unit) /\ ~(stResp /\ i = Head(st_unit))
                                     \/ StFires /\ i = Head(st_cmd_que)
        /\ i \in Elems(ex_unit') <=> \/ i \in Elems(ex_unit) /\ ~(exResp /\ i = Head(ex_unit))
                                     \/ ExFires /\ i = Head(ex_cmd_que)
    BY <2>1, ElemsStep
  <2>6. /\ i \in Queued <=> \/ i \in Elems(ld_cmd_que) \/ i \in Elems(st_cmd_que)
                           \/ i \in Elems(ex_cmd_que)
        /\ i \in Queued' <=> \/ i \in Elems(ld_cmd_que') \/ i \in Elems(st_cmd_que')
                            \/ i \in Elems(ex_cmd_que')
        /\ i \in InService <=> \/ i \in Elems(ld_unit) \/ i \in Elems(st_unit)
                              \/ i \in Elems(ex_unit)
        /\ i \in InService' <=> \/ i \in Elems(ld_unit') \/ i \in Elems(st_unit')
                               \/ i \in Elems(ex_unit')
    BY DEF Queued, InService
  <2>7. Taken(i, ldFire) => i \in Queued
    BY TakenPlaces, Places
  <2>8. i \in Queued => i \notin InService
    <3>1. /\ ~(i \in Elems(ld_cmd_que) /\ i \in Elems(ld_unit))
          /\ ~(i \in Elems(st_cmd_que) /\ i \in Elems(st_unit))
          /\ ~(i \in Elems(ex_cmd_que) /\ i \in Elems(ex_unit))
      BY DEF Inv, InOrder, Behind
    <3>2. QED BY <2>2, <2>3, <2>4, <2>6, <3>1, Zenon
  <2>9. i \in Queued' <=> i \in Queued /\ ~Taken(i, ldFire)
    BY <1>6, <2>2, <2>4, <2>5, <2>6, Zenon DEF Taken
  <2>10. i \in InService' <=> \/ i \in InService /\ ~Answered(i, ldResp, stResp, exResp)
                              \/ Taken(i, ldFire)
    <3>1. /\ ldResp /\ i = Head(ld_unit) => i \in Elems(ld_unit)
          /\ stResp /\ i = Head(st_unit) => i \in Elems(st_unit)
          /\ exResp /\ i = Head(ex_unit) => i \in Elems(ex_unit)
      BY <1>7
    <3>2. QED BY <2>3, <2>4, <2>5, <2>6, <3>1, Zenon DEF Taken, Answered
  <2>11. QED BY <2>7, <2>8, <2>9, <2>10
<1>9. ASSUME cmd_fire
      PROVE  (pc \in Started' <=> ~IsQueued(prog[pc])) /\ pc \notin InService'
  <2>1. /\ pc \notin Elems(ld_cmd_que) /\ pc \notin Elems(st_cmd_que)
        /\ pc \notin Elems(ex_cmd_que) /\ pc \notin Elems(ld_unit)
        /\ pc \notin Elems(st_unit) /\ pc \notin Elems(ex_unit)
    <3>1. \A q \in Seq(1 .. (pc - 1)) : pc \notin Elems(q)
      BY <1>1 DEF Elems
    <3>2. QED BY <1>1, <3>1 DEF TypeOK, QueueOf
  <2>2. /\ ldFire => Head(ld_cmd_que) # pc
        /\ StFires => Head(st_cmd_que) # pc
        /\ ExFires => Head(ex_cmd_que) # pc
    BY <1>3, <1>5, QueueHeads
  <2>3. /\ pc \in Elems(ld_cmd_que') <=> LdEnq
        /\ pc \in Elems(st_cmd_que') <=> StEnq
        /\ pc \in Elems(ex_cmd_que') <=> ExEnq
        /\ pc \notin Elems(ld_unit') /\ pc \notin Elems(st_unit') /\ pc \notin Elems(ex_unit')
    BY <2>1, <2>2, ElemsStep
  <2>4. pc \in Queued' <=> IsQueued(prog[pc])
    <3>1. (LdEnq \/ StEnq \/ ExEnq) <=> IsQueued(prog[pc])
      BY <1>9 DEF LdEnq, StEnq, ExEnq, IsQueued, IsEx
    <3>2. QED BY <2>3, <3>1 DEF Queued
  <2>5. pc \notin InService'
    BY <2>3 DEF InService
  <2>6. QED BY <1>3, <1>4, <1>9, <2>4, <2>5
<1>10. QED
  <2>1. ASSUME NEW i \in 1 .. (pc - 1)
        PROVE  /\ i \in Started' <=> i \in Started \/ Taken(i, ldFire)
               /\ i \in Completed => i \in Completed'
               /\ i \in Completed' /\ i \notin Completed =>
                    i \in Started /\ Answered(i, ldResp, stResp, exResp)
    BY <1>3, <1>4, <1>8, Zenon
  <2>2. QED BY <1>2, <1>3, <1>8, <1>9, <2>1, Zenon


(* What a unit takes, or the front end by itself, was allowed to start.    *)
LEMMA TakenSound ==
  ASSUME OrderInv, NEW offer \in BOOLEAN, NEW respReady \in BOOLEAN,
         NEW ldFire, NEW ldResp, NEW stResp, NEW exResp,
         CycleOf(offer, respReady, ldFire, ldResp, stResp, exResp),
         NEW i, Taken(i, ldFire), NEW j \in 1 .. (pc - 1), Order!Precedes(j, i)
  PROVE  j \in Completed
<1>1. Inv /\ TypeOK /\ j \in 1 .. Len(prog)
  BY Positions DEF OrderInv, Settled
<1>2. /\ i \in 1 .. (pc - 1) /\ i \in 1 .. Len(prog) /\ IsQueued(prog[i])
      /\ Ld(i) => ldFire /\ i = Head(ld_cmd_que)
      /\ St(i) => StFires /\ i = Head(st_cmd_que)
      /\ Cf(i) \/ Xe(i) => ExFires /\ i = Head(ex_cmd_que)
  BY <1>1, TakenPlaces, Positions
<1>3. /\ ldFire => ld_state = s_issue
      /\ StFires => st_state = s_issue /\ st_unit = <<>>
      /\ ExFires => ex_state = s_issue /\ ex_unit = <<>>
  BY <1>1, TakenFacts
<1>4. Ld(i) \/ Cf(i) \/ Xe(i) \/ St(i)
  BY <1>1, <1>2, CommandFacts
<1>5. ~Order!SameUnit(prog[j], prog[i]) => j \in Completed
  <2>1. /\ DecisionSound(ld_state, ld_cmd_que) /\ DecisionSound(ex_state, ex_cmd_que)
        /\ DecisionSound(st_state, st_cmd_que)
    BY DEF OrderInv, DecisionsSound
  <2>2. QED BY <1>2, <1>3, <1>4, <2>1 DEF DecisionSound
<1>6. CASE Order!SameUnit(prog[j], prog[i])
  <2>1. j < i /\ (Ld(i) => ~Ld(j))
    <3>1. /\ Ld(i) => j < i /\ (Fn(j) \/ BeforeLoad(j, i))
          /\ Cf(i) \/ Xe(i) => j < i
          /\ St(i) => j < i
      BY <1>1, <1>2, PrecedesFacts
    <3>2. Ld(j) => ~Fn(j) /\ ~BeforeLoad(j, i)
      BY <1>1, CommandFacts DEF BeforeLoad
    <3>3. QED BY <1>4, <3>1, <3>2
  <2>2. ((Cf(i) \/ Xe(i)) /\ (Cf(j) \/ Xe(j))) \/ (St(i) /\ St(j))
    BY <1>1, <1>2, <1>6, <2>1, SameUnitFacts
  <2>3. j \in Started
    <3>1. /\ Cf(i) \/ Xe(i) => ex_cmd_que # <<>>
          /\ St(i) => st_cmd_que # <<>>
      BY <1>1, <1>2, TakenFacts
    <3>2. SUFFICES ASSUME j \notin Started PROVE FALSE
      OBVIOUS
    <3>3. i <= j
      BY <1>1, <1>2, <2>2, <3>1, <3>2, QueueHeads
    <3>4. i \in Nat /\ j \in Nat
      BY <1>1, <1>2, Positions
    <3>5. QED BY <2>1, <3>3, <3>4
  <2>4. SUFFICES ASSUME j \notin Completed PROVE FALSE
    OBVIOUS
  <2>5. /\ St(j) => st_unit # <<>>
        /\ Cf(j) \/ Xe(j) => ex_unit # <<>>
    BY <1>1, <2>3, <2>4, UnitBusy
  <2>6. QED BY <1>2, <1>3, <2>2, <2>5
<1>7. QED BY <1>5, <1>6

LEMMA ControlSound ==
  ASSUME OrderInv, cmd_fire, ~IsQueued(prog[pc]),
         NEW j \in 1 .. (pc - 1), Order!Precedes(j, pc)
  PROVE  j \in Completed
<1>1. Inv /\ TypeOK /\ j \in 1 .. Len(prog) /\ pc \in 1 .. Len(prog) /\ Handshake
  <2>1. Inv
    BY DEF OrderInv, Settled
  <2>2. pc \in 1 .. Len(prog)
    <3>1. pc <= Len(prog)
      BY <2>1 DEF Inv, TypeOK, cmd_fire
    <3>2. pc \in Nat /\ 1 <= pc /\ Len(prog) \in Nat
      BY <2>1, ProgFacts DEF Inv
    <3>3. QED BY <3>1, <3>2
  <2>3. QED BY <2>1, <2>2, Positions DEF Inv
<1>2. Fn(pc) \/ Fl(pc)
  BY <1>1, CommandFacts
<1>3. CASE Fl(pc)
  <2>1. Fn(j)
    BY <1>1, <1>3, PrecedesFacts
  <2>2. ~IsQueued(prog[j])
    BY <1>1, <2>1, CommandFacts
  <2>3. QED BY <1>1, <2>2, Places
<1>4. CASE Fn(pc)
  <2>1. ~Fl(pc)
    BY <1>1, <1>4, CommandFacts
  <2>2. state \in {s_idle, s_enq, s_fence, s_flush} /\ cmd_ready
    BY <1>1 DEF TypeOK, cmd_fire
  <2>3. state # s_idle
    BY <1>1, <2>2 DEF Handshake
  <2>4. state # s_enq
    BY <1>1 DEF Handshake, QueueReadyFor, IsQueued, IsEx
  <2>5. state # s_flush
    BY <2>1, <2>2 DEF OrderInv, ControlHeld, Fl
  <2>6. 1 .. (pc - 1) \subseteq Completed
    BY <2>2, <2>3, <2>4, <2>5 DEF OrderInv, ControlHeld
  <2>7. QED BY <2>6
<1>5. QED BY <1>2, <1>3, <1>4

LEMMA ElemsIn ==
  ASSUME NEW S, NEW q \in Seq(S), NEW n \in Elems(q)
  PROVE  n \in S
BY DEF Elems

(* Started and not started commands in the next cycle. *)
LEMMA Newly ==
  ASSUME Inv, Inv', NEW offer \in BOOLEAN, NEW respReady \in BOOLEAN,
         NEW ldFire, NEW ldResp, NEW stResp, NEW exResp,
         CycleOf(offer, respReady, ldFire, ldResp, stResp, exResp)
  PROVE  /\ \A i \in Started' : \/ i \in Started
                                \/ i \in 1 .. (pc - 1) /\ Taken(i, ldFire)
                                \/ cmd_fire /\ i = pc /\ ~IsQueued(prog[pc])
         /\ \A i \in Queued' : /\ i \in 1 .. (pc' - 1) /\ i \notin Started'
                               /\ \/ i \in 1 .. (pc - 1) /\ i \notin Started
                                  \/ cmd_fire /\ i = pc /\ IsQueued(prog[pc])
<1>1. /\ \A i \in 1 .. (pc' - 1) : i \in 1 .. (pc - 1) \/ (cmd_fire /\ i = pc)
      /\ \A i \in 1 .. (pc - 1) : i \in Started' <=> i \in Started \/ Taken(i, ldFire)
      /\ cmd_fire => (pc \in Started' <=> ~IsQueued(prog[pc]))
  BY Progressed, Zenon
<1>2. /\ \A i \in Started' : i \in 1 .. (pc' - 1) /\ i \notin Queued'
      /\ \A i \in 1 .. (pc' - 1) : i \notin Queued' => i \in Started'
  BY DEF Started
<1>3. \A i \in Queued' : i \in 1 .. (pc' - 1)
  <2>1. /\ ld_cmd_que' \in Seq(1 .. (pc' - 1)) /\ st_cmd_que' \in Seq(1 .. (pc' - 1))
        /\ ex_cmd_que' \in Seq(1 .. (pc' - 1))
    BY DEF Inv, TypeOK, QueueOf
  <2>2. QED BY <2>1, ElemsIn, Zenon DEF Queued
<1>4. QED BY <1>1, <1>2, <1>3, Zenon

---------------------------------------------------------------------------
(* The parts of the invariant, after a cycle. *)
LEMMA StartedInOrderStep ==
  ASSUME OrderInv, Inv', NEW offer \in BOOLEAN, NEW respReady \in BOOLEAN,
         NEW ldFire, NEW ldResp, NEW stResp, NEW exResp,
         CycleOf(offer, respReady, ldFire, ldResp, stResp, exResp)
  PROVE  StartedInOrder'
<1>1. Inv /\ TypeOK /\ StartedInOrder /\ prog' = prog
  BY Positions, FrontStep, Zenon DEF OrderInv, Settled
<1>2. SUFFICES ASSUME NEW i \in Started', NEW j \in Queued', Order!SameUnit(prog[i], prog[j])
               PROVE  i < j
  BY <1>1 DEF StartedInOrder
<1>3. /\ \/ i \in Started
         \/ i \in 1 .. (pc - 1) /\ Taken(i, ldFire)
         \/ cmd_fire /\ i = pc /\ ~IsQueued(prog[pc])
      /\ j \notin Started'
      /\ \/ j \in 1 .. (pc - 1) /\ j \notin Started
         \/ cmd_fire /\ j = pc /\ IsQueued(prog[pc])
  BY <1>1, Newly
<1>4. /\ \A n \in 1 .. (pc - 1) : n \in 1 .. Len(prog) /\ n < pc
      /\ cmd_fire => pc \in 1 .. Len(prog)
      /\ \A n \in Started : n \in 1 .. (pc - 1)
  <2>1. /\ \A n \in 1 .. (pc - 1) : n < pc
        /\ cmd_fire => pc \in 1 .. Len(prog)
    BY <1>1, Progressed, Zenon
  <2>2. QED BY <1>1, <2>1, Positions DEF Started
<1>5. ~(cmd_fire /\ i = pc /\ ~IsQueued(prog[pc]))
  BY <1>1, <1>2, <1>3, <1>4, SameUnitFacts, CommandFacts
<1>6. CASE cmd_fire /\ j = pc
  BY <1>3, <1>4, <1>5, <1>6
<1>7. CASE j \in 1 .. (pc - 1) /\ j \notin Started
  <2>1. CASE i \in Started
    <3>1. j \in Queued
      BY <1>1, <1>7, Places
    <3>2. QED BY <1>1, <1>2, <2>1, <3>1 DEF StartedInOrder
  <2>2. CASE i \in 1 .. (pc - 1) /\ Taken(i, ldFire)
    <3>1. /\ Ld(i) => ld_cmd_que # <<>> /\ i = Head(ld_cmd_que)
          /\ St(i) => st_cmd_que # <<>> /\ i = Head(st_cmd_que)
          /\ Cf(i) \/ Xe(i) => ex_cmd_que # <<>> /\ i = Head(ex_cmd_que)
          /\ i \in 1 .. Len(prog) /\ j \in 1 .. Len(prog)
      BY <1>1, <1>4, <1>7, <2>2, TakenPlaces, TakenFacts
    <3>2. i <= j
      BY <1>1, <1>2, <1>7, <3>1, SameUnitFacts, QueueHeads
    <3>3. i # j
      <4>1. i \in Started'
        OBVIOUS
      <4>2. QED BY <1>3, <4>1
    <3>4. QED BY <3>1, <3>2, <3>3
  <2>3. QED BY <1>3, <1>5, <2>1, <2>2
<1>8. QED BY <1>3, <1>6, <1>7

LEMMA CompletedInOrderStep ==
  ASSUME OrderInv, Inv', NEW offer \in BOOLEAN, NEW respReady \in BOOLEAN,
         NEW ldFire, NEW ldResp, NEW stResp, NEW exResp,
         CycleOf(offer, respReady, ldFire, ldResp, stResp, exResp)
  PROVE  CompletedInOrder'
<1>1. Inv /\ TypeOK /\ StartedInOrder /\ CompletedInOrder /\ prog' = prog
  BY Positions, FrontStep, Zenon DEF OrderInv, Settled
<1>2. SUFFICES ASSUME NEW i \in Completed', NEW j \in InService',
                      Order!SameUnit(prog[i], prog[j])
               PROVE  i < j
  BY <1>1 DEF CompletedInOrder
<1>3. i \in Started' /\ i \notin InService'
  BY DEF Completed
<1>4. /\ \A n \in 1 .. (pc - 1) : n \in 1 .. Len(prog) /\ n < pc
      /\ cmd_fire => pc \in 1 .. Len(prog)
      /\ \A n \in Started : n \in 1 .. (pc - 1)
  <2>1. /\ \A n \in 1 .. (pc - 1) : n < pc
        /\ cmd_fire => pc \in 1 .. Len(prog)
    BY <1>1, Progressed, Zenon
  <2>2. QED BY <1>1, <2>1, Positions DEF Started
<1>5. j \in 1 .. (pc - 1)
  <2>1. j \in 1 .. (pc' - 1)
    <3>1. /\ ld_unit' \in Seq(1 .. (pc' - 1)) /\ st_unit' \in Seq(1 .. (pc' - 1))
          /\ ex_unit' \in Seq(1 .. (pc' - 1))
      BY DEF Inv, TypeOK, QueueOf
    <3>2. QED BY <3>1, ElemsIn, Zenon DEF InService
  <2>2. j \in 1 .. (pc - 1) \/ (cmd_fire /\ j = pc)
    BY <1>1, <2>1, Progressed, Zenon
  <2>3. cmd_fire => pc \notin InService'
    BY <1>1, Progressed, Zenon
  <2>4. QED BY <2>2, <2>3
<1>6. \/ j \in InService /\ ~Answered(j, ldResp, stResp, exResp)
      \/ Taken(j, ldFire)
  BY <1>1, <1>5, Progressed
<1>7. i \in 1 .. (pc - 1) /\ i \in Started
  <2>1. \/ i \in Started
        \/ i \in 1 .. (pc - 1) /\ Taken(i, ldFire)
        \/ cmd_fire /\ i = pc /\ ~IsQueued(prog[pc])
    BY <1>1, <1>3, Newly
  <2>2. ~(cmd_fire /\ i = pc /\ ~IsQueued(prog[pc]))
    BY <1>1, <1>2, <1>4, <1>5, SameUnitFacts, CommandFacts
  <2>3. ~(i \in 1 .. (pc - 1) /\ Taken(i, ldFire))
    BY <1>1, <1>3, Progressed
  <2>4. QED BY <1>4, <2>1, <2>2, <2>3
<1>8. CASE Taken(j, ldFire)
  <2>1. j \in Queued
    BY <1>1, <1>5, <1>8, TakenPlaces, Places
  <2>2. QED BY <1>1, <1>2, <1>7, <2>1 DEF StartedInOrder
<1>9. CASE j \in InService /\ ~Answered(j, ldResp, stResp, exResp)
  <2>1. CASE i \in Completed
    BY <1>1, <1>2, <1>9, <2>1 DEF CompletedInOrder
  <2>2. CASE i \notin Completed
    <3>1. Answered(i, ldResp, stResp, exResp)
      BY <1>1, <1>7, <2>2, Progressed
    <3>2. /\ i \in 1 .. Len(prog) /\ j \in 1 .. Len(prog)
          /\ i # j
      BY <1>4, <1>5, <1>7, <1>9, <3>1
    <3>3. /\ ldResp => /\ Head(ld_unit) \in Elems(ld_unit)
                       /\ \A n \in Elems(ld_unit) : Head(ld_unit) <= n
          /\ stResp => /\ Head(st_unit) \in Elems(st_unit)
                       /\ \A n \in Elems(st_unit) : Head(st_unit) <= n
          /\ exResp => /\ Head(ex_unit) \in Elems(ex_unit)
                       /\ \A n \in Elems(ex_unit) : Head(ex_unit) <= n
      <4>1. /\ ld_unit \in Seq(1 .. (pc - 1)) /\ st_unit \in Seq(1 .. (pc - 1))
            /\ ex_unit \in Seq(1 .. (pc - 1))
            /\ Increasing(ld_unit) /\ Increasing(st_unit) /\ Increasing(ex_unit)
        BY <1>1 DEF Inv, TypeOK, QueueOf, TrackersInStep, TrackerSizes
      <4>2. 1 .. (pc - 1) \in SUBSET Int
        OBVIOUS
      <4>3. (ldResp => ld_unit # <<>>) /\ (stResp => st_unit # <<>>) /\ (exResp => ex_unit # <<>>)
        BY <1>1, TakenFacts
      <4>4. QED BY <4>1, <4>2, <4>3, HeadIsLeast, Zenon
    <3>4. /\ i \in Elems(ld_unit) => Ld(i)
          /\ i \in Elems(st_unit) => St(i)
          /\ i \in Elems(ex_unit) => Cf(i) \/ Xe(i)
          /\ j \in Elems(ld_unit) => Ld(j)
          /\ j \in Elems(st_unit) => St(j)
          /\ j \in Elems(ex_unit) => Cf(j) \/ Xe(j)
      BY <1>1, <3>2, CommandFacts DEF Inv, Kinds, Ld, St
    <3>5. /\ Ld(i) => ~Cf(i) /\ ~Xe(i) /\ ~St(i)
          /\ Cf(i) => ~Xe(i) /\ ~St(i)
          /\ Xe(i) => ~St(i)
          /\ Ld(j) => ~Cf(j) /\ ~Xe(j) /\ ~St(j)
          /\ Cf(j) => ~Xe(j) /\ ~St(j)
          /\ Xe(j) => ~St(j)
      BY <1>1, <3>2, CommandFacts
    <3>6. \/ Ld(i) /\ Ld(j)
          \/ (Cf(i) \/ Xe(i)) /\ (Cf(j) \/ Xe(j))
          \/ St(i) /\ St(j)
      BY <1>1, <1>2, <3>2, SameUnitFacts
    <3>7. i <= j
      BY <1>9, <3>1, <3>3, <3>4, <3>5, <3>6, Zenon DEF Answered, InService
    <3>8. QED BY <3>2, <3>7
  <2>3. QED BY <2>1, <2>2
<1>10. QED BY <1>6, <1>8, <1>9


LEMMA StartedSoundStep ==
  ASSUME OrderInv, Inv', NEW offer \in BOOLEAN, NEW respReady \in BOOLEAN,
         NEW ldFire, NEW ldResp, NEW stResp, NEW exResp,
         CycleOf(offer, respReady, ldFire, ldResp, stResp, exResp)
  PROVE  /\ StartedSound'
         /\ \A i \in Started', j \in 1 .. (pc' - 1) :
              i \notin Started /\ Order!Precedes(j, i) => j \in Completed
<1>1. Inv /\ TypeOK /\ StartedSound /\ prog' = prog
  BY Positions, FrontStep, Zenon DEF OrderInv, Settled
<1>2. \A i, j : Order!Precedes(j, i)' <=> Order!Precedes(j, i)
  BY <1>1 DEF Order!Precedes, Order!PrecedesLoad, Order!PrecedesEx, Order!PrecedesStore
<1>3. \A i, j : Order!Precedes(j, i) => j < i
  BY DEF Order!Precedes
<1>4. ASSUME NEW i \in Started', NEW j \in 1 .. (pc' - 1), Order!Precedes(j, i)
      PROVE  /\ j \in Completed'
             /\ i \notin Started => j \in Completed
  <2>1. \/ i \in Started
        \/ i \in 1 .. (pc - 1) /\ Taken(i, ldFire)
        \/ cmd_fire /\ i = pc /\ ~IsQueued(prog[pc])
    BY <1>1, Newly
  <2>2. j \in 1 .. (pc - 1)
    <3>1. i \in 1 .. (pc' - 1) /\ pc' - 1 \in Nat /\ j < i
      BY <1>1, <1>3, <1>4, PcStep DEF Started
    <3>2. /\ i \in 1 .. (pc - 1) \/ (cmd_fire /\ i = pc)
          /\ pc \in Nat
      BY <1>1, <3>1, Progressed, Positions, Zenon
    <3>3. QED BY <3>1, <3>2
  <2>3. CASE i \in Started
    <3>1. j \in Completed
      BY <1>1, <1>4, <2>2, <2>3 DEF StartedSound
    <3>2. QED BY <1>1, <2>2, <2>3, <3>1, Progressed
  <2>4. CASE i \in 1 .. (pc - 1) /\ Taken(i, ldFire)
    <3>1. j \in Completed
      BY <1>4, <2>2, <2>4, TakenSound
    <3>2. QED BY <1>1, <2>2, <3>1, Progressed
  <2>5. CASE cmd_fire /\ i = pc /\ ~IsQueued(prog[pc])
    <3>1. j \in Completed
      BY <1>4, <2>2, <2>5, ControlSound
    <3>2. QED BY <1>1, <2>2, <3>1, Progressed
  <2>6. QED BY <2>1, <2>3, <2>4, <2>5
<1>5. StartedSound'
  BY <1>2, <1>4 DEF StartedSound
<1>6. QED BY <1>4, <1>5

LEMMA ExecutesStep ==
  ASSUME OrderInv, Inv', NEW offer \in BOOLEAN, NEW respReady \in BOOLEAN,
         NEW ldFire, NEW ldResp, NEW stResp, NEW exResp,
         CycleOf(offer, respReady, ldFire, ldResp, stResp, exResp)
  PROVE  ExecutesBehindStores'
<1>1. Inv /\ TypeOK /\ ExecutesBehindStores /\ ExecuteHeld /\ prog' = prog
  BY Positions, FrontStep, Zenon DEF OrderInv, Settled
<1>2. SUFFICES ASSUME NEW i \in Started', NEW j \in 1 .. (pc' - 1), IsEx(prog[i]),
                      StoreOfEarlier(j, i)
               PROVE  j \in Started'
  BY <1>1 DEF ExecutesBehindStores, StoreOfEarlier
<1>3. IsQueued(prog[i])
  BY <1>2 DEF IsEx, IsQueued
<1>4. i \in Started \/ (i \in 1 .. (pc - 1) /\ Taken(i, ldFire))
  BY <1>1, <1>3, Newly
<1>5. i \in 1 .. (pc - 1) /\ j \in 1 .. (pc - 1)
  <2>1. i \in 1 .. (pc - 1)
    BY <1>4 DEF Started
  <2>2. j < i /\ j \in Nat
    BY <1>1, <1>2, PcStep DEF StoreOfEarlier
  <2>3. QED BY <1>1, <2>1, <2>2, Positions
<1>6. j \in Started
  <2>1. CASE i \in Started
    BY <1>1, <1>2, <1>5, <2>1 DEF ExecutesBehindStores
  <2>2. CASE Taken(i, ldFire)
    <3>1. Cf(i) \/ Xe(i)
      BY <1>2 DEF IsEx, Cf, Xe
    <3>2. ExFires /\ i = Head(ex_cmd_que) /\ ex_state = s_issue
      BY <1>1, <2>2, <3>1, TakenPlaces, TakenFacts
    <3>3. QED BY <1>1, <1>2, <1>5, <3>2 DEF ExecuteHeld
  <2>3. QED BY <1>4, <2>1, <2>2
<1>7. QED BY <1>1, <1>5, <1>6, Progressed

LEMMA LastLoadStep ==
  ASSUME OrderInv, Inv', NEW offer \in BOOLEAN, NEW respReady \in BOOLEAN,
         NEW ldFire, NEW ldResp, NEW stResp, NEW exResp,
         CycleOf(offer, respReady, ldFire, ldResp, stResp, exResp)
  PROVE  LastLoad'
<1>1. Inv /\ TypeOK /\ LastLoad /\ StartedInOrder /\ prog' = prog
  BY Positions, FrontStep, Zenon DEF OrderInv, Settled
<1>2. LdIssue(ldFire) /\ ldFire \in BOOLEAN /\ (ldFire => ld_state = s_issue)
  <2>1. LdIssue(ldFire)
    BY DEF CycleOf, Cycle
  <2>2. ldFire \in BOOLEAN /\ (ldFire => ld_state = s_issue)
    BY <1>1, TakenFacts
  <2>3. QED BY <2>1, <2>2
<1>3. ASSUME NEW i \in Started', Ld(i)
      PROVE  i \in Started \/ (ldFire /\ i = Head(ld_cmd_que))
  <2>1. IsQueued(prog[i])
    BY <1>3 DEF Ld, IsQueued
  <2>2. i \in Started \/ (i \in 1 .. (pc - 1) /\ Taken(i, ldFire))
    BY <1>1, <1>3, <2>1, Newly
  <2>3. QED BY <1>1, <1>3, <2>2, TakenPlaces
<1>4. \A i : StartedLoad(i)' <=> i \in Started' /\ Ld(i)
  BY <1>1 DEF StartedLoad, Ld
<1>5. CASE ldFire
  <2> DEFINE m == Head(ld_cmd_que)
  <2>1. ld_cmd_que # <<>> /\ Taken(m, ldFire)
    BY <1>1, <1>5, TakenFacts DEF Taken
  <2>2. m \in 1 .. (pc - 1) /\ Ld(m) /\ m \in Queued /\ m \in 1 .. Len(prog)
    BY <1>1, <2>1, QueueHeads, Places, Positions
  <2>3. m \in Started'
    BY <1>1, <2>1, <2>2, Progressed
  <2>4. last_ld_cmd_task_id' = prog[m].task
    BY <1>2, <1>5 DEF LdIssue, HeadTask, s_wait, s_issue
  <2> HIDE DEF m
  <2>5. ASSUME NEW i \in Started', Ld(i) PROVE i <= m
    <3>1. CASE i \in Started
      <4>1. i \in 1 .. (pc - 1) /\ i \in 1 .. Len(prog)
        BY <1>1, <3>1, Positions DEF Started
      <4>2. Order!SameUnit(prog[i], prog[m])
        BY <1>1, <2>2, <2>5, <4>1, SameUnitFacts
      <4>3. i < m
        BY <1>1, <2>2, <3>1, <4>2 DEF StartedInOrder
      <4>4. QED BY <2>2, <4>1, <4>3
    <3>2. CASE i = m
      BY <2>2, <3>2
    <3>3. QED BY <1>3, <2>5, <3>1, <3>2 DEF m
  <2>6. \E n \in Started' : /\ n \in Started' /\ Ld(n) /\ last_ld_cmd_task_id' = prog'[n].task
                            /\ \A i \in Started' : i \in Started' /\ Ld(i) => i <= n
    BY <1>1, <2>2, <2>3, <2>4, <2>5
  <2>7. QED BY <1>4, <2>6 DEF LastLoad
<1>6. CASE ~ldFire
  <2>1. last_ld_cmd_task_id' = last_ld_cmd_task_id
    BY <1>2, <1>6 DEF LdIssue
  <2>2. \A i : StartedLoad(i) <=> i \in Started /\ Ld(i)
    BY DEF StartedLoad, Ld
  <2>3. \A i : i \in Started' /\ Ld(i) <=> i \in Started /\ Ld(i)
    <3>1. \A i \in Started : i \in Started'
      BY <1>1, Progressed DEF Started
    <3>2. QED BY <1>3, <1>6, <3>1
  <2>4. CASE last_ld_cmd_task_id = 0 /\ \A i \in Started : ~StartedLoad(i)
    BY <1>4, <2>1, <2>2, <2>3, <2>4 DEF LastLoad
  <2>5. CASE \E m \in Started : /\ StartedLoad(m) /\ last_ld_cmd_task_id = prog[m].task
                                /\ \A i \in Started : StartedLoad(i) => i <= m
    <3>1. PICK m \in Started : /\ StartedLoad(m) /\ last_ld_cmd_task_id = prog[m].task
                               /\ \A i \in Started : StartedLoad(i) => i <= m
      BY <2>5
    <3>2. /\ m \in Started' /\ Ld(m) /\ last_ld_cmd_task_id' = prog'[m].task
          /\ \A i \in Started' : i \in Started' /\ Ld(i) => i <= m
      BY <1>1, <2>1, <2>2, <2>3, <3>1
    <3>3. QED BY <1>4, <3>2 DEF LastLoad
  <2>6. QED BY <1>1, <2>4, <2>5 DEF LastLoad
<1>7. QED BY <1>2, <1>5, <1>6


(* An FSM that stands in s_issue has just decided, or still stands there,  *)
(* over the same head of its queue.                                        *)
LEMMA HeadKept ==
  ASSUME NEW n \in Nat, NEW q \in Seq(1 .. n), q # <<>>, NEW e \in {0, 1}, NEW x
  PROVE  Moved(q, 0, e, x) # <<>> /\ Head(Moved(q, 0, e, x)) = Head(q)
BY DEF Moved

LEMMA DecisionKept ==
  ASSUME Inv, NEW offer \in BOOLEAN, NEW respReady \in BOOLEAN,
         NEW ldFire, NEW ldResp, NEW stResp, NEW exResp,
         CycleOf(offer, respReady, ldFire, ldResp, stResp, exResp)
  PROVE  /\ ld_state' = s_issue => /\ ld_state = s_issue \/ LdMayIssue
                                   /\ ld_cmd_que # <<>> /\ ld_cmd_que' # <<>>
                                   /\ Head(ld_cmd_que') = Head(ld_cmd_que)
         /\ st_state' = s_issue => /\ st_state = s_issue \/ StMayIssue
                                   /\ st_cmd_que # <<>> /\ st_cmd_que' # <<>>
                                   /\ Head(st_cmd_que') = Head(st_cmd_que)
         /\ ex_state' = s_issue => /\ ex_state = s_issue \/ ExMayIssue
                                   /\ ex_cmd_que # <<>> /\ ex_cmd_que' # <<>>
                                   /\ Head(ex_cmd_que') = Head(ex_cmd_que)
<1>1. LdIssue(ldFire) /\ StIssue(StFires) /\ ExIssue(ExFires) /\ (ldFire => ld_req_valid)
  BY DEF CycleOf, Cycle
<1>2. Issuing /\ TypeOK
  BY DEF Inv
<1>3. /\ ld_state' = s_issue =>
           ~ldFire /\ ld_cmd_que # <<>> /\ (ld_state = s_issue \/ LdMayIssue)
      /\ st_state' = s_issue =>
           ~StFires /\ st_cmd_que # <<>> /\ (st_state = s_issue \/ StMayIssue)
      /\ ex_state' = s_issue =>
           ~ExFires /\ ex_cmd_que # <<>> /\ (ex_state = s_issue \/ ExMayIssue)
  BY <1>1, <1>2 DEF LdIssue, StIssue, ExIssue, StFires, ExFires, ld_req_valid, st_req_valid,
     ex_req_valid, LdMayIssue, StMayIssue, ExMayIssue, deq_valid, Issuing, s_wait, s_issue
<1>4. /\ ld_cmd_que' = Moved(ld_cmd_que, Bit(ldFire), Bit(LdEnq), pc)
      /\ st_cmd_que' = Moved(st_cmd_que, Bit(StFires), Bit(StEnq), pc)
      /\ ex_cmd_que' = Moved(ex_cmd_que, Bit(ExFires), Bit(ExEnq), pc)
  BY LoadStep, StoreStep, ExecuteStep, Zenon DEF KindStep
<1>5. /\ ~ldFire => Bit(ldFire) = 0
      /\ ~StFires => Bit(StFires) = 0
      /\ ~ExFires => Bit(ExFires) = 0
      /\ Bit(LdEnq) \in {0, 1} /\ Bit(StEnq) \in {0, 1} /\ Bit(ExEnq) \in {0, 1}
  BY DEF Bit
<1>6. /\ ld_cmd_que \in Seq(1 .. (pc - 1)) /\ st_cmd_que \in Seq(1 .. (pc - 1))
      /\ ex_cmd_que \in Seq(1 .. (pc - 1)) /\ pc - 1 \in Nat
  BY <1>2, Positions DEF TypeOK, QueueOf
<1>7. ASSUME NEW q \in Seq(1 .. (pc - 1)), NEW q2, q # <<>>, NEW e \in {0, 1},
             q2 = Moved(q, 0, e, pc)
      PROVE  q2 # <<>> /\ Head(q2) = Head(q)
  BY <1>6, <1>7, HeadKept
<1>8. QED
  <2>1. ld_state' = s_issue => ld_cmd_que' # <<>> /\ Head(ld_cmd_que') = Head(ld_cmd_que)
    BY <1>3, <1>4, <1>5, <1>6, <1>7
  <2>2. st_state' = s_issue => st_cmd_que' # <<>> /\ Head(st_cmd_que') = Head(st_cmd_que)
    BY <1>3, <1>4, <1>5, <1>6, <1>7
  <2>3. ex_state' = s_issue => ex_cmd_que' # <<>> /\ Head(ex_cmd_que') = Head(ex_cmd_que)
    BY <1>3, <1>4, <1>5, <1>6, <1>7
  <2>4. QED BY <1>3, <2>1, <2>2, <2>3

LEMMA ExecuteHeldStep ==
  ASSUME OrderInv, Inv', NEW offer \in BOOLEAN, NEW respReady \in BOOLEAN,
         NEW ldFire, NEW ldResp, NEW stResp, NEW exResp,
         CycleOf(offer, respReady, ldFire, ldResp, stResp, exResp)
  PROVE  ExecuteHeld'
<1>1. Inv /\ Settled /\ TypeOK /\ ExecuteHeld /\ prog' = prog
  BY Positions, FrontStep, Zenon DEF OrderInv, Settled
<1> DEFINE e == Head(ex_cmd_que)
<1>2. SUFFICES ASSUME ex_state' = s_issue, NEW j \in 1 .. (pc' - 1),
                      StoreOfEarlier(j, Head(ex_cmd_que'))
               PROVE  j \in Started'
  BY <1>1 DEF ExecuteHeld, StoreOfEarlier
<1>3. /\ ex_state = s_issue \/ ExMayIssue
      /\ ex_cmd_que # <<>> /\ Head(ex_cmd_que') = e
  BY <1>1, <1>2, DecisionKept
<1>4. e \in 1 .. (pc - 1) /\ pc \in Nat
  BY <1>1, <1>3, QueueHeads, Positions
<1>5. StoreOfEarlier(j, e) /\ j < e
  BY <1>2, <1>3 DEF StoreOfEarlier
<1> HIDE DEF e
<1>6. j \in 1 .. (pc - 1)
  <2>1. j \in Nat /\ 1 <= j
    BY <1>1, PcStep
  <2>2. QED BY <1>4, <1>5, <2>1
<1>7. j \in Started
  <2>1. CASE ex_state = s_issue
    BY <1>1, <1>5, <1>6, <2>1 DEF ExecuteHeld, e
  <2>2. CASE ExMayIssue
    BY <1>1, <1>5, <1>6, <2>2, ExecuteDecision DEF e
  <2>3. QED BY <1>3, <2>1, <2>2
<1>8. QED BY <1>1, <1>6, <1>7, Progressed

(* One FSM: what it may conclude when it decides, it may conclude as long  *)
(* as it stands in s_issue.                                                *)
LEMMA DecisionStep ==
  ASSUME Inv, Inv', NEW offer \in BOOLEAN, NEW respReady \in BOOLEAN,
         NEW ldFire, NEW ldResp, NEW stResp, NEW exResp,
         CycleOf(offer, respReady, ldFire, ldResp, stResp, exResp),
         NEW h \in 1 .. (pc - 1),
         \A j \in 1 .. (pc - 1) :
           Order!Precedes(j, h) /\ ~Order!SameUnit(prog[j], prog[h]) => j \in Completed
  PROVE  \A j \in 1 .. (pc' - 1) :
           Order!Precedes(j, h) /\ ~Order!SameUnit(prog[j], prog[h]) => j \in Completed'
<1>1. pc \in Nat /\ h \in Nat /\ h < pc
  BY Positions
<1>2. SUFFICES ASSUME NEW j \in 1 .. (pc' - 1), Order!Precedes(j, h),
                      ~Order!SameUnit(prog[j], prog[h])
               PROVE  j \in Completed'
  OBVIOUS
<1>3. j < h
  BY <1>2 DEF Order!Precedes
<1>4. j \in 1 .. (pc - 1)
  <2>1. j \in Nat /\ 1 <= j
    BY PcStep
  <2>2. QED BY <1>1, <1>3, <2>1
<1>5. j \in Completed
  BY <1>2, <1>4
<1>6. QED BY <1>4, <1>5, Progressed

LEMMA DecisionsStep ==
  ASSUME OrderInv, Inv', NEW offer \in BOOLEAN, NEW respReady \in BOOLEAN,
         NEW ldFire, NEW ldResp, NEW stResp, NEW exResp,
         CycleOf(offer, respReady, ldFire, ldResp, stResp, exResp)
  PROVE  DecisionsSound'
<1>1. Inv /\ Settled /\ TypeOK /\ prog' = prog
  BY Positions, FrontStep, Zenon DEF OrderInv, Settled
<1>2. /\ DecisionSound(ld_state, ld_cmd_que) /\ DecisionSound(ex_state, ex_cmd_que)
      /\ DecisionSound(st_state, st_cmd_que)
  BY DEF OrderInv, DecisionsSound
<1>3. DecisionSound(ld_state, ld_cmd_que)'
  <2> DEFINE h == Head(ld_cmd_que)
  <2>1. \A j : /\ Order!Precedes(j, Head(ld_cmd_que))' <=> Order!Precedes(j, Head(ld_cmd_que'))
               /\ Order!SameUnit(prog[j], prog[Head(ld_cmd_que)])' <=>
                    Order!SameUnit(prog[j], prog[Head(ld_cmd_que')])
    BY <1>1 DEF Order!Precedes, Order!PrecedesLoad, Order!PrecedesEx, Order!PrecedesStore
  <2>2. SUFFICES ASSUME ld_state' = s_issue
                 PROVE  /\ ld_cmd_que' # <<>>
                        /\ \A j \in 1 .. (pc' - 1) :
                             /\ Order!Precedes(j, Head(ld_cmd_que'))
                             /\ ~Order!SameUnit(prog[j], prog[Head(ld_cmd_que')])
                             => j \in Completed'
    BY <2>1 DEF DecisionSound, deq_valid
  <2>3. /\ ld_state = s_issue \/ LdMayIssue
        /\ ld_cmd_que # <<>> /\ ld_cmd_que' # <<>> /\ Head(ld_cmd_que') = h
    BY <1>1, <2>2, DecisionKept
  <2>4. h \in 1 .. (pc - 1) /\ Ld(h)
    BY <1>1, <2>3, QueueHeads
  <2>5. ASSUME NEW j \in 1 .. (pc - 1), Order!Precedes(j, h),
               ~Order!SameUnit(prog[j], prog[h])
        PROVE  j \in Completed
    <3>1. CASE ld_state = s_issue
      BY <1>2, <2>5, <3>1 DEF DecisionSound
    <3>2. CASE LdMayIssue
      BY <1>1, <2>5, <3>2, LoadDecision
    <3>3. QED BY <2>3, <3>1, <3>2
  <2> HIDE DEF h
  <2>6. \A j \in 1 .. (pc' - 1) :
          Order!Precedes(j, h) /\ ~Order!SameUnit(prog[j], prog[h]) => j \in Completed'
    BY <1>1, <2>4, <2>5, DecisionStep
  <2>7. QED BY <2>3, <2>6
<1>4. DecisionSound(ex_state, ex_cmd_que)'
  <2> DEFINE h == Head(ex_cmd_que)
  <2>1. \A j : /\ Order!Precedes(j, Head(ex_cmd_que))' <=> Order!Precedes(j, Head(ex_cmd_que'))
               /\ Order!SameUnit(prog[j], prog[Head(ex_cmd_que)])' <=>
                    Order!SameUnit(prog[j], prog[Head(ex_cmd_que')])
    BY <1>1 DEF Order!Precedes, Order!PrecedesLoad, Order!PrecedesEx, Order!PrecedesStore
  <2>2. SUFFICES ASSUME ex_state' = s_issue
                 PROVE  /\ ex_cmd_que' # <<>>
                        /\ \A j \in 1 .. (pc' - 1) :
                             /\ Order!Precedes(j, Head(ex_cmd_que'))
                             /\ ~Order!SameUnit(prog[j], prog[Head(ex_cmd_que')])
                             => j \in Completed'
    BY <2>1 DEF DecisionSound, deq_valid
  <2>3. /\ ex_state = s_issue \/ ExMayIssue
        /\ ex_cmd_que # <<>> /\ ex_cmd_que' # <<>> /\ Head(ex_cmd_que') = h
    BY <1>1, <2>2, DecisionKept
  <2>4. h \in 1 .. (pc - 1) /\ (Cf(h) \/ Xe(h))
    BY <1>1, <2>3, QueueHeads
  <2>5. ASSUME NEW j \in 1 .. (pc - 1), Order!Precedes(j, h),
               ~Order!SameUnit(prog[j], prog[h])
        PROVE  j \in Completed
    <3>1. CASE ex_state = s_issue
      BY <1>2, <2>5, <3>1 DEF DecisionSound
    <3>2. CASE ExMayIssue
      <4>1. ~(Cf(j) \/ Xe(j))
        BY <1>1, <2>4, <2>5, Positions, SameUnitFacts
      <4>2. QED BY <1>1, <2>5, <3>2, <4>1, ExecuteDecision
    <3>3. QED BY <2>3, <3>1, <3>2
  <2> HIDE DEF h
  <2>6. \A j \in 1 .. (pc' - 1) :
          Order!Precedes(j, h) /\ ~Order!SameUnit(prog[j], prog[h]) => j \in Completed'
    BY <1>1, <2>4, <2>5, DecisionStep
  <2>7. QED BY <2>3, <2>6
<1>5. DecisionSound(st_state, st_cmd_que)'
  <2> DEFINE h == Head(st_cmd_que)
  <2>1. \A j : /\ Order!Precedes(j, Head(st_cmd_que))' <=> Order!Precedes(j, Head(st_cmd_que'))
               /\ Order!SameUnit(prog[j], prog[Head(st_cmd_que)])' <=>
                    Order!SameUnit(prog[j], prog[Head(st_cmd_que')])
    BY <1>1 DEF Order!Precedes, Order!PrecedesLoad, Order!PrecedesEx, Order!PrecedesStore
  <2>2. SUFFICES ASSUME st_state' = s_issue
                 PROVE  /\ st_cmd_que' # <<>>
                        /\ \A j \in 1 .. (pc' - 1) :
                             /\ Order!Precedes(j, Head(st_cmd_que'))
                             /\ ~Order!SameUnit(prog[j], prog[Head(st_cmd_que')])
                             => j \in Completed'
    BY <2>1 DEF DecisionSound, deq_valid
  <2>3. /\ st_state = s_issue \/ StMayIssue
        /\ st_cmd_que # <<>> /\ st_cmd_que' # <<>> /\ Head(st_cmd_que') = h
    BY <1>1, <2>2, DecisionKept
  <2>4. h \in 1 .. (pc - 1) /\ St(h)
    BY <1>1, <2>3, QueueHeads
  <2>5. ASSUME NEW j \in 1 .. (pc - 1), Order!Precedes(j, h),
               ~Order!SameUnit(prog[j], prog[h])
        PROVE  j \in Completed
    <3>1. CASE st_state = s_issue
      BY <1>2, <2>5, <3>1 DEF DecisionSound
    <3>2. CASE StMayIssue
      <4>1. ~St(j)
        BY <1>1, <2>4, <2>5, Positions, SameUnitFacts
      <4>2. QED BY <1>1, <2>5, <3>2, <4>1, StoreDecision
    <3>3. QED BY <2>3, <3>1, <3>2
  <2> HIDE DEF h
  <2>6. \A j \in 1 .. (pc' - 1) :
          Order!Precedes(j, h) /\ ~Order!SameUnit(prog[j], prog[h]) => j \in Completed'
    BY <1>1, <2>4, <2>5, DecisionStep
  <2>7. QED BY <2>3, <2>6
<1>6. QED BY <1>3, <1>4, <1>5 DEF DecisionsSound

(* What the front end sees when nothing is left in a queue or a tracker.   *)
LEMMA DrainedDone ==
  ASSUME Inv, Drained
  PROVE  1 .. (pc - 1) \subseteq Completed
<1>1. TypeOK /\ TrackersInStep
  BY DEF Inv
<1>2. /\ ld_cmd_que = <<>> /\ ex_cmd_que = <<>> /\ st_cmd_que = <<>>
      /\ ld_dat_resv_que = <<>> /\ ld_cfg_resv_que = <<>>
      /\ ex_unit = <<>> /\ st_unit = <<>>
  BY <1>1 DEF Drained, deq_valid, TrackersInStep
<1>3. Elems(<<>>) = {}
  BY DEF Elems
<1>4. Elems(ld_unit) = {}
  BY <1>1, <1>2, <1>3 DEF TrackersInStep
<1>5. Queued = {} /\ InService = {}
  BY <1>2, <1>3, <1>4 DEF Queued, InService
<1>6. QED BY <1>5 DEF Started, Completed

LEMMA ControlStep ==
  ASSUME OrderInv, Inv', NEW offer \in BOOLEAN, NEW respReady \in BOOLEAN,
         NEW ldFire, NEW ldResp, NEW stResp, NEW exResp,
         CycleOf(offer, respReady, ldFire, ldResp, stResp, exResp)
  PROVE  ControlHeld'
<1>1. Inv /\ TypeOK /\ ControlHeld /\ prog' = prog /\ Handshake
  BY Positions, FrontStep, Zenon DEF OrderInv, Settled, Inv
<1>2. pc' = IF cmd_fire THEN pc + 1 ELSE pc
  BY <1>1, FrontStep, Zenon
<1>3. FrontEnd(respReady)
  BY DEF CycleOf, Cycle
<1> USE DEF s_idle, s_enq, s_fence, s_flush
<1>4. CASE FrontFence
  <2>1. state' = s_fence /\ ~cmd_ready /\ Drained
    BY <1>1, <1>4 DEF FrontFence, Handshake
  <2>2. pc' = pc
    BY <1>2, <2>1 DEF cmd_fire
  <2>3. \A i \in 1 .. (pc - 1) : i \in Completed
    BY <1>1, <2>1, DrainedDone
  <2>4. \A i \in 1 .. (pc' - 1) : i \in Completed'
    BY <1>1, <2>2, <2>3, Progressed
  <2>5. QED BY <2>1, <2>4 DEF ControlHeld
<1>5. CASE FrontFlush
  <2>1. state' = s_flush /\ ~cmd_ready /\ prog[pc].funct = FLUSH_CMD
    BY <1>1, <1>5 DEF FrontFlush, Handshake
  <2>2. pc' = pc
    BY <1>2, <2>1 DEF cmd_fire
  <2>3. QED BY <1>1, <2>1, <2>2 DEF ControlHeld
<1>6. CASE FrontHold
  BY <1>1, <1>6 DEF FrontHold, front, ControlHeld, Handshake
<1>7. CASE FrontAccept \/ FrontEnq \/ FrontFenceResp(respReady) \/ FrontFlushResp(respReady)
  BY <1>7 DEF FrontAccept, FrontEnq, FrontFenceResp, FrontFlushResp, ControlHeld
<1>8. QED BY <1>3, <1>4, <1>5, <1>6, <1>7 DEF FrontEnd


---------------------------------------------------------------------------
(* What has started and completed, and what must precede what, changes     *)
(* only with the registers.                                                *)
LEMMA Stutter ==
  ASSUME UNCHANGED vars
  PROVE  /\ prog' = prog /\ pc' = pc
         /\ Queued' = Queued /\ InService' = InService
         /\ Started' = Started /\ Completed' = Completed
         /\ \A i, j : Order!Precedes(j, i)' <=> Order!Precedes(j, i)
<1>1. /\ UNCHANGED <<prog, pc>>
      /\ UNCHANGED <<ld_cmd_que, st_cmd_que, ex_cmd_que>>
      /\ UNCHANGED <<ld_unit, st_unit, ex_unit>>
  BY DEF vars, core, ques, units
<1>2. Queued' = Queued /\ InService' = InService
  BY <1>1 DEF Queued, InService
<1>3. Started' = Started
  BY <1>1, <1>2 DEF Started
<1>4. Completed' = Completed
  BY <1>2, <1>3 DEF Completed
<1>5. \A i, j : Order!Precedes(j, i)' <=> Order!Precedes(j, i)
  BY <1>1 DEF Order!Precedes, Order!PrecedesLoad, Order!PrecedesEx, Order!PrecedesStore
<1>6. QED BY <1>1, <1>2, <1>3, <1>4, <1>5

LEMMA InitOrderInv == Init => OrderInv
<1> SUFFICES ASSUME Init PROVE OrderInv
  OBVIOUS
<1>1. Inv
  BY InitInv
<1>2. pc - 1 = 0 /\ 1 .. (pc - 1) = {}
  BY DEF Init
<1>3. Started = {} /\ Completed = {}
  BY <1>2 DEF Started, Completed
<1>4. Settled /\ CompletedInOrder
  BY <1>1, <1>3 DEF Settled, StartedInOrder, StartedSound, ExecutesBehindStores, LastLoad,
     CompletedInOrder, Init
<1>5. /\ ld_state # s_issue /\ ex_state # s_issue /\ st_state # s_issue
      /\ state # s_fence /\ state # s_flush
  BY DEF Init, s_idle, s_fence, s_flush, s_wait, s_issue
<1>6. ExecuteHeld /\ ControlHeld /\ DecisionsSound
  BY <1>5 DEF ExecuteHeld, ControlHeld, DecisionsSound, DecisionSound
<1>7. QED BY <1>4, <1>6 DEF OrderInv

LEMMA NextOrderInv == OrderInv /\ [Next]_vars => OrderInv'
<1>1. SUFFICES ASSUME OrderInv, [Next]_vars PROVE OrderInv'
  OBVIOUS
<1>2. Inv'
  BY <1>1, NextInv DEF OrderInv, Settled
<1>3. CASE Next
  <2>1. PICK offer, respReady, ldFire, ldResp, stResp, exResp \in BOOLEAN :
          CycleOf(offer, respReady, ldFire, ldResp, stResp, exResp)
    BY <1>3, NextIsCycle, Zenon
  <2>2. StartedInOrder' /\ StartedSound' /\ ExecutesBehindStores' /\ LastLoad'
    BY <1>1, <1>2, <2>1, StartedInOrderStep, StartedSoundStep, ExecutesStep, LastLoadStep, Zenon
  <2>3. CompletedInOrder' /\ ExecuteHeld' /\ ControlHeld' /\ DecisionsSound'
    BY <1>1, <1>2, <2>1, CompletedInOrderStep, ExecuteHeldStep, ControlStep, DecisionsStep, Zenon
  <2>4. QED BY <1>2, <2>2, <2>3 DEF OrderInv, Settled
<1>4. CASE UNCHANGED vars
  <2>1. /\ prog' = prog /\ pc' = pc
        /\ Queued' = Queued /\ InService' = InService
        /\ Started' = Started /\ Completed' = Completed
        /\ \A i, j : Order!Precedes(j, i)' <=> Order!Precedes(j, i)
    BY <1>4, Stutter
  <2>2. /\ UNCHANGED <<state, cmd_ready>> /\ UNCHANGED <<ld_state, st_state, ex_state>>
        /\ UNCHANGED <<ld_cmd_que, st_cmd_que, ex_cmd_que>> /\ UNCHANGED last_ld_cmd_task_id
    BY <1>4 DEF vars, front, issue, ques
  <2>3. StartedInOrder' /\ ExecutesBehindStores' /\ LastLoad'
    BY <1>1, <2>1, <2>2 DEF OrderInv, Settled, StartedInOrder, ExecutesBehindStores, LastLoad,
       StartedLoad, StoreOfEarlier
  <2>4. CompletedInOrder' /\ ExecuteHeld' /\ ControlHeld'
    BY <1>1, <2>1, <2>2 DEF OrderInv, CompletedInOrder, ExecuteHeld, ControlHeld, StoreOfEarlier
  <2>5. StartedSound' /\ DecisionsSound'
    BY <1>1, <2>1, <2>2 DEF OrderInv, Settled, StartedSound, DecisionsSound, DecisionSound,
       Order!Precedes, Order!PrecedesLoad, Order!PrecedesEx, Order!PrecedesStore
  <2>6. QED BY <1>2, <2>3, <2>4, <2>5 DEF OrderInv, Settled
<1>5. QED BY <1>1, <1>3, <1>4

(* The invariant of the order of the tasks holds in every cycle.           *)
THEOREM OrderInvariance == Spec => []OrderInv
BY InitOrderInv, NextOrderInv, PTL DEF Spec

(* Whatever programs of such kernels run, whatever the depths of the       *)
(* queues: while an issue FSM stands in s_issue, all that must precede the *)
(* command it issues is complete, but for earlier commands of its unit.    *)
THEOREM DecisionsStaySound == Spec => []DecisionsSound
<1>1. OrderInv => DecisionsSound
  BY DEF OrderInv
<1>2. QED BY <1>1, OrderInvariance, PTL

(* Every step of the registers is a step of the order, or leaves what has  *)
(* started and completed alone.                                            *)
LEMMA OrderInit == Init => Order!Init
<1> SUFFICES ASSUME Init PROVE Order!Init
  OBVIOUS
<1>1. 1 .. (pc - 1) = {} /\ prog \in Programs
  BY DEF Init
<1>2. QED BY <1>1 DEF Order!Init, Started, Completed

LEMMA Below ==
  ASSUME NEW m \in Nat, NEW i \in 1 .. m, NEW j \in 1 .. (i - 1)
  PROVE  i \in Nat /\ j \in 1 .. m /\ j < i /\ j \in Nat
OBVIOUS

LEMMA PcBound ==
  ASSUME NEW n \in Nat, NEW p \in 1 .. (n + 1)
  PROVE  p - 1 \in Nat /\ p \in Nat /\ p - 1 <= n
OBVIOUS

LEMMA OrderNext == OrderInv /\ OrderInv' /\ [Next]_vars => [Order!Next]_(Order!vars)
<1>1. SUFFICES ASSUME OrderInv, OrderInv', [Next]_vars PROVE [Order!Next]_(Order!vars)
  OBVIOUS
<1>2. CASE UNCHANGED vars
  BY <1>2, Stutter DEF Order!vars
<1>3. CASE Next
  <2>1. PICK offer, respReady, ldFire, ldResp, stResp, exResp \in BOOLEAN :
          CycleOf(offer, respReady, ldFire, ldResp, stResp, exResp)
    BY <1>3, NextIsCycle, Zenon
  <2>2. Inv /\ TypeOK /\ prog' = prog /\ Inv'
    BY <1>1, <2>1, Positions, FrontStep, Zenon DEF OrderInv, Settled
  <2>3. pc' - 1 \in Nat /\ pc' \in Nat /\ pc' - 1 <= Len(prog) /\ Len(prog) \in Nat
    <3>1. pc' \in 1 .. (Len(prog') + 1)
      BY <2>2 DEF Inv, TypeOK
    <3>2. Len(prog') = Len(prog) /\ Len(prog) \in Nat
      BY <2>2, ProgFacts
    <3>3. pc' \in 1 .. (Len(prog) + 1)
      BY <3>1, <3>2
    <3>4. QED BY <3>2, <3>3, PcBound
  <2>4. DOMAIN prog = 1 .. Len(prog)
    BY <2>2, ProgFacts
  <2>5. /\ \A i \in Started' : i \in 1 .. (pc' - 1) /\ i \notin Queued'
        /\ \A i \in 1 .. (pc' - 1) : i \in Started' \/ i \in Queued'
        /\ \A i \in Completed' : i \in Started'
        /\ \A i \in Started' : i \in Completed' \/ i \in InService'
    BY DEF Started, Completed
  <2>6. Started \subseteq Started' /\ Completed \subseteq Completed'
    <3>1. \A i \in 1 .. (pc - 1) : /\ i \in Started => i \in Started'
                                   /\ i \in Completed => i \in Completed'
      BY <2>1, <2>2, Progressed
    <3>2. QED BY <3>1 DEF Started, Completed
  <2>7. Started' \subseteq DOMAIN prog /\ Completed' \subseteq Started'
    BY <2>3, <2>4, <2>5
  <2>8. \A i \in Started' \ Started : \A j \in DOMAIN prog : Order!Precedes(j, i) => j \in Completed
    <3>1. SUFFICES ASSUME NEW i \in Started', i \notin Started, NEW j \in DOMAIN prog,
                          Order!Precedes(j, i)
                   PROVE  j \in Completed
      OBVIOUS
    <3>2. j < i
      BY <3>1 DEF Order!Precedes
    <3>3. j \in 1 .. (pc' - 1)
      BY <2>3, <2>4, <2>5, <3>2
    <3>4. QED BY <1>1, <2>1, <2>2, <3>1, <3>3, StartedSoundStep
  <2>9. \A c, d : Order!SameUnit(c, d) <=> Order!SameUnit(d, c)
    BY DEF Order!SameUnit
  <2>10. StartedInOrder' /\ CompletedInOrder'
    BY <1>1 DEF OrderInv, Settled
  <2>11. ASSUME NEW i \in Started', NEW j \in 1 .. (i - 1), Order!SameUnit(prog[j], prog[i])
         PROVE  j \in Started'
    <3>1. i \in Nat /\ j \in 1 .. (pc' - 1) /\ j < i /\ j \in Nat
      <4>1. i \in 1 .. (pc' - 1)
        BY <2>5
      <4>2. QED BY <2>3, <4>1, Below
    <3>2. SUFFICES ASSUME j \in Queued' PROVE FALSE
      BY <2>5, <3>1
    <3>3. i < j
      BY <2>2, <2>9, <2>10, <2>11, <3>2 DEF StartedInOrder
    <3>4. QED BY <3>1, <3>3
  <2>12. ASSUME NEW i \in Completed', NEW j \in 1 .. (i - 1), Order!SameUnit(prog[j], prog[i])
         PROVE  j \in Completed'
    <3>1. i \in Started' /\ j \in Started'
      BY <2>5, <2>11, <2>12
    <3>2. i \in Nat /\ j < i /\ j \in Nat
      BY <2>3, <2>5, <3>1
    <3>3. SUFFICES ASSUME j \in InService' PROVE FALSE
      BY <2>5, <3>1
    <3>4. i < j
      BY <2>2, <2>9, <2>10, <2>12, <3>3 DEF CompletedInOrder
    <3>5. QED BY <3>2, <3>4
  <2>13. Order!Next
    BY <2>2, <2>6, <2>7, <2>8, <2>11, <2>12 DEF Order!Next
  <2>14. QED BY <2>13
<1>4. QED BY <1>1, <1>2, <1>3

(* The registers implement the abstract order of TaskOrder: no command     *)
(* starts before what must precede it has completed, and the commands of   *)
(* a unit start and complete in program order.                             *)
THEOREM TaskOrderImplemented == Spec => ImplementsTaskOrder
<1>1. Init => Order!Init
  BY OrderInit
<1>2. OrderInv /\ OrderInv' /\ [Next]_vars => [Order!Next]_(Order!vars)
  BY OrderNext
<1>3. QED BY <1>1, <1>2, OrderInvariance, PTL DEF Spec, ImplementsTaskOrder, Order!Spec
=============================================================================
