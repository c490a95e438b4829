--------------------------- MODULE MapperSAProofs ---------------------------
(***************************************************************************)
(* For every number of kernels, every size of the array and every limit of *)
(* the loops: what the mapper reports as mapped is mapped, on a DFG that   *)
(* still exists; inserted pass nodes fit the GPEs; and the DFG only grows. *)
(*                                                                         *)
(* The argument: the DFG is not replaced once there is a solution, so from *)
(* then on what is cached points to the present DFG (Solved); before, it   *)
(* points to the DFG of the kernel, which is never deleted (Unsolved).     *)
(***************************************************************************)
EXTENDS MapperSA, TLAPS

DFGs == Nat \X Nat

Mappings == [dfg : DFGs, complete : BOOLEAN, vio : 0 .. MaxVio, obj : Nat]

TypeInv ==
  /\ pc \in {"main", "pnr", "stuck", "judge", "opt", "end"}
  /\ kernel \in Nat /\ ops \in Nat
  /\ dfg \in DFGs /\ dfgModified \in DFGs
  /\ mapping \in Mappings /\ curMapping \in Mappings /\ lastAccept \in Mappings
  /\ bestMapping \in Mappings /\ optAccept \in Mappings
  /\ oldVio \in Nat /\ minVio \in Nat /\ oldObj \in Nat /\ minObj \in Nat /\ least \in Nat
  /\ objOpt \in BOOLEAN /\ update \in BOOLEAN /\ modifyDfg \in BOOLEAN
  /\ optSucceed \in BOOLEAN /\ initObj \in BOOLEAN /\ succeed \in BOOLEAN

Searching == pc # "main"
InPnr     == pc \in {"pnr", "stuck"}

Solution(m) == m.dfg = dfg /\ m.complete /\ m.vio = 0

\* The DFG of the kernel and the present one exist, and only copies are ever replaced.
Lives ==
  /\ dfg[1] = kernel
  /\ dfgModified = None \/ dfgModified[2] > 0
  /\ kernel > 0 => dfg \in live
  /\ Searching => kernel > 0 /\ <<kernel, 0>> \in live /\ ops <= numGpeNodes

\* All that pnrSync works on is about the present DFG ...
Current ==
  /\ Searching => mapping.dfg = dfg
  /\ InPnr => curMapping.dfg = dfg /\ lastAccept.dfg = dfg
  /\ InPnr /\ objOpt => (modifyDfg <=> ~optSucceed)
  /\ pc \in {"judge", "opt", "end"} => objOpt

\* ... and when it is stuck, some mapping of this DFG has been scheduled, and violates.
Judged ==
  InPnr =>
    /\ update => mapping.vio > 0
    /\ ~update => oldVio = MaxViolation /\ minVio = MaxViolation
    /\ pc = "stuck" => update

\* Before the first solution.
Unsolved ==
  Searching /\ objOpt /\ ~optSucceed =>
    /\ bestMapping.dfg = <<kernel, 0>> /\ optAccept.dfg = <<kernel, 0>>
    /\ initObj /\ oldObj = Far /\ minObj = Far /\ least = Far

\* After it.
Solved ==
  Searching /\ objOpt /\ optSucceed =>
    /\ Solution(bestMapping) /\ Solution(optAccept) /\ ~initObj
    /\ bestMapping.obj = minObj /\ least = minObj /\ minObj <= oldObj

Found ==
  /\ pc = "judge" /\ res = 1 => Solution(mapping)
  /\ pc = "main" /\ kernel > 0 /\ succeed =>
       Solution(mapping) /\ (objOpt => mapping.obj = least)

IInv == TypeInv /\ Lives /\ Current /\ Judged /\ Unsolved /\ Solved /\ Found
---------------------------------------------------------------------------
LEMMA FreshMapping ==
  ASSUME NEW d \in DFGs
  PROVE  Mapping(d) \in Mappings /\ Mapping(d).dfg = d
BY MapperAssumption DEF Mapping, Mappings, Far

LEMMA ScheduledMapping ==
  ASSUME NEW d \in DFGs, NEW m \in Scheduled(d)
  PROVE  m \in Mappings /\ m.dfg = d /\ m.complete /\ m.vio \in 0 .. MaxVio
<1>1. m.dfg = d /\ m.vio \in 0 .. MaxVio /\ m.obj = Far BY DEF Scheduled
<1>2. m.complete = TRUE BY DEF Scheduled
<1>3. m = [dfg |-> m.dfg, complete |-> m.complete, vio |-> m.vio, obj |-> m.obj]
  BY DEF Scheduled
<1>4. m.obj \in Nat BY <1>1 DEF Far
<1>5. m \in Mappings BY <1>1, <1>2, <1>3, <1>4 DEF Mappings
<1>. QED BY <1>1, <1>2, <1>5

LEMMA ScoredMapping ==
  ASSUME NEW m \in Mappings, NEW o \in Nat
  PROVE  /\ Scored(m, o) \in Mappings /\ Scored(m, o).obj = o /\ Scored(m, o).dfg = m.dfg
         /\ Scored(m, o).vio = m.vio /\ Scored(m, o).complete = m.complete
<1>1. m.dfg \in DFGs /\ m.complete \in BOOLEAN /\ m.vio \in 0 .. MaxVio BY DEF Mappings
<1>. QED BY <1>1 DEF Mappings, Scored

LEMMA InitIInv == Init => IInv
<1>. SUFFICES ASSUME Init PROVE IInv OBVIOUS
<1>1. None \in DFGs BY DEF None, DFGs
<1>2. Mapping(None) \in Mappings /\ Mapping(None).dfg = None BY <1>1, FreshMapping
<1>3. MaxViolation \in Nat BY MapperAssumption DEF MaxViolation
<1>4. TypeInv BY <1>1, <1>2, <1>3 DEF Init, TypeInv, Far
<1>5. Lives BY DEF Init, Lives, None, Searching
<1>6. Current /\ Judged BY DEF Init, Current, Judged, Searching, InPnr
<1>7. Unsolved /\ Solved /\ Found BY DEF Init, Unsolved, Solved, Found, Searching
<1>. QED BY <1>4, <1>5, <1>6, <1>7 DEF IInv
---------------------------------------------------------------------------
(* The steps of main and of pnrSync. *)

LEMMA NextKernelStep == IInv /\ NextKernel => IInv'
<1>. SUFFICES ASSUME IInv, NextKernel PROVE IInv' OBVIOUS
<1>. DEFINE d == <<kernel + 1, 0>>
<1>0. TypeInv /\ Lives BY DEF IInv
<1>1. PICK n \in OpCounts :
        /\ SetDFG(d, n)
        /\ IF n > numGpeNodes
           THEN pc' = "main" /\ succeed' = FALSE
           ELSE pc' = (IF objOpt THEN "opt" ELSE "pnr") /\ succeed' = TRUE
  BY DEF NextKernel
<1>2. kernel' = kernel + 1 /\ EnterPnr(d, pnrRestartIters, TRUE) /\ EnterOpt(d)
      /\ least' = Far /\ objOpt' = objOpt
  BY DEF NextKernel
<1>3. n \in Nat /\ numGpeNodes \in Nat /\ MaxViolation \in Nat
  BY MapperAssumption DEF MaxViolation
<1>4. d \in DFGs /\ d[1] = kernel' /\ d = <<kernel', 0>> /\ kernel' \in Nat /\ kernel' > 0
  BY <1>0, <1>2 DEF DFGs, TypeInv
<1>5. Mapping(d) \in Mappings /\ Mapping(d).dfg = d BY <1>4, FreshMapping
<1>6. /\ dfg' = d /\ ops' = n /\ mapping' = Mapping(d) /\ dfgModified' = dfgModified
      /\ live' = (live \cap {dfgModified}) \cup {d}
  BY <1>1 DEF SetDFG
<1>7. /\ pc' \in {"main", "opt", "pnr"} /\ succeed' \in BOOLEAN
      /\ pc' # "main" => n <= numGpeNodes
      /\ pc' = "main" => succeed' = FALSE
      /\ pc' = "opt" => objOpt
      /\ pc' = "pnr" => ~objOpt
  <2>1. CASE n > numGpeNodes BY <1>1, <2>1
  <2>2. CASE n <= numGpeNodes
    <3>1. ~(n > numGpeNodes) BY <1>3, <2>2
    <3>2. pc' = (IF objOpt THEN "opt" ELSE "pnr") /\ succeed' = TRUE BY <1>1, <3>1
    <3>. QED BY <2>2, <3>2
  <2>3. n > numGpeNodes \/ n <= numGpeNodes BY <1>3
  <2>. QED BY <2>1, <2>2, <2>3, Zenon
<1>. HIDE DEF d
<1>8. TypeInv'
  BY <1>0, <1>2, <1>3, <1>4, <1>5, <1>6, <1>7 DEF TypeInv, EnterPnr, EnterOpt, Far
<1>9. Lives' BY <1>0, <1>4, <1>6, <1>7 DEF Lives, Searching
<1>10. Current' /\ Judged'
  BY <1>2, <1>5, <1>6, <1>7 DEF Current, Judged, Searching, InPnr, EnterPnr
<1>11. Unsolved' /\ Solved' /\ Found'
  BY <1>2, <1>4, <1>5, <1>7 DEF Unsolved, Solved, Found, Searching, EnterOpt
<1>. QED BY <1>8, <1>9, <1>10, <1>11 DEF IInv

LEMMA StutterStep == IInv /\ UNCHANGED vars => IInv'
BY DEF IInv, vars, main, dfgs, pnrMaps, pnr, opt, TypeInv, Lives, Current, Judged, Unsolved,
       Solved, Found, Searching, InPnr, Solution

LEMMA TimeOutStep == IInv /\ TimeOut => IInv'
BY DEF IInv, TimeOut, main, dfgs, pnrMaps, pnr, opt, TypeInv, Lives, Current, Judged, Unsolved,
       Solved, Found, Searching, InPnr, Solution

\* pnrSync returns without a solution.
LEMMA ReturnStep ==
  ASSUME IInv, InPnr, NEW r \in {0, -1}, Return(r),
         UNCHANGED <<main, timeout, dfgs, mapping, pnr, opt>>
  PROVE  IInv'
<1>1. /\ res' # 1 /\ pc' \in {"judge", "main"} /\ succeed' \in BOOLEAN
      /\ pc' = "judge" => objOpt
      /\ pc' = "main" => ~succeed'
  <2>1. res' = r /\ succeed \in BOOLEAN BY DEF Return, IInv, TypeInv
  <2>2. CASE objOpt BY <2>1, <2>2 DEF Return
  <2>3. CASE ~objOpt
    <3>1. r # 1 OBVIOUS
    <3>2. pc' = "main" /\ succeed' = FALSE BY <2>3, <3>1, Zenon DEF Return
    <3>. QED BY <2>1, <2>3, <3>1, <3>2
  <2>. QED BY <2>2, <2>3
<1>. QED
  BY <1>1 DEF IInv, main, dfgs, pnrMaps, pnr, opt, TypeInv, Lives, Current, Judged, Unsolved,
              Solved, Found, Searching, InPnr, Solution

LEMMA PnrOverStep == IInv /\ PnrOver => IInv'
BY ReturnStep DEF PnrOver, InPnr

LEMMA GiveUpStep == IInv /\ GiveUp => IInv'
BY ReturnStep DEF GiveUp, StillStuck, InPnr

LEMMA PnrFailsStep == IInv /\ PnrFails => IInv'
<1>. SUFFICES ASSUME IInv, PnrFails PROVE IInv' OBVIOUS
<1>1. curMapping.dfg \in DFGs BY DEF IInv, TypeInv, Mappings
<1>2. curMapping' \in Mappings /\ curMapping'.dfg = curMapping.dfg
  BY <1>1, FreshMapping DEF PnrFails
<1>. QED
  BY <1>2 DEF PnrFails, IInv, main, dfgs, opt, TypeInv, Lives, Current, Judged, Unsolved,
              Solved, Found, Searching, InPnr, Solution

LEMMA PnrSucceedsStep == IInv /\ PnrSucceeds => IInv'
<1>. SUFFICES ASSUME IInv, PnrSucceeds PROVE IInv' OBVIOUS
<1>1. PICK m \in Scheduled(curMapping.dfg) : m.vio = 0 /\ mapping' = m /\ curMapping' = m
  BY DEF PnrSucceeds
<1>2. pc = "pnr" /\ curMapping.dfg = dfg /\ dfg \in DFGs
  BY DEF PnrSucceeds, Turn, IInv, Current, InPnr, TypeInv
<1>3. m \in Mappings /\ m.dfg = dfg /\ Solution(m) BY <1>1, <1>2, ScheduledMapping DEF Solution
<1>4. /\ pc' \in {"judge", "main"} /\ succeed' \in BOOLEAN
      /\ pc' = "judge" => objOpt
      /\ pc' = "main" => ~objOpt
  <2>1. CASE objOpt BY <2>1 DEF PnrSucceeds, Return, IInv, TypeInv
  <2>2. CASE ~objOpt BY <2>2 DEF PnrSucceeds, Return
  <2>. QED BY <2>1, <2>2
<1>. QED
  BY <1>1, <1>2, <1>3, <1>4
     DEF PnrSucceeds, IInv, main, dfgs, opt, TypeInv, Lives, Current, Judged, Unsolved, Solved,
         Found, Searching, InPnr, Solution

LEMMA PnrViolatesStep == IInv /\ PnrViolates => IInv'
<1>. SUFFICES ASSUME IInv, PnrViolates PROVE IInv' OBVIOUS
<1>1. PICK m \in Scheduled(curMapping.dfg) : m.vio # 0 /\ (PnrAccepts(m) \/ PnrRejects(m))
  BY DEF PnrViolates
<1>2. pc = "pnr" /\ curMapping.dfg = dfg /\ dfg \in DFGs
  BY DEF PnrViolates, Turn, IInv, Current, InPnr, TypeInv
<1>3. m \in Mappings /\ m.dfg = dfg BY <1>2, ScheduledMapping
<1>4. m.vio \in Nat /\ m.vio > 0 /\ m.vio < MaxViolation
  BY <1>1, <1>2, ScheduledMapping, MapperAssumption DEF MaxViolation
<1>5. pc' = "stuck" /\ UNCHANGED <<main, timeout, dfgs, modifyDfg, opt, res, succeed>>
  BY DEF PnrViolates
<1>6. CASE PnrAccepts(m) /\ m.vio < minVio
  BY <1>2, <1>3, <1>4, <1>5, <1>6
     DEF PnrAccepts, IInv, main, dfgs, opt, TypeInv, Lives, Current, Judged, Unsolved, Solved,
         Found, Searching, InPnr, Solution
<1>7. CASE PnrAccepts(m) /\ ~(m.vio < minVio)
  BY <1>2, <1>3, <1>4, <1>5, <1>7
     DEF PnrAccepts, IInv, main, dfgs, opt, TypeInv, Lives, Current, Judged, Unsolved, Solved,
         Found, Searching, InPnr, Solution
<1>8. CASE PnrRejects(m)
  BY <1>2, <1>3, <1>4, <1>5, <1>8
     DEF PnrRejects, IInv, main, dfgs, opt, TypeInv, Lives, Current, Judged, Unsolved, Solved,
         Found, Searching, InPnr, Solution
<1>. QED BY <1>1, <1>6, <1>7, <1>8

LEMMA PnrGoOnStep == IInv /\ PnrGoOn => IInv'
BY DEF IInv, PnrGoOn, main, dfgs, pnrMaps, opt, TypeInv, Lives, Current, Judged, Unsolved,
       Solved, Found, Searching, InPnr, Solution

LEMMA RestartStep == IInv /\ Restart => IInv'
<1>. SUFFICES ASSUME IInv, Restart PROVE IInv' OBVIOUS
<1>1. curMapping.dfg \in DFGs BY DEF IInv, TypeInv, Mappings
<1>2. Mapping(curMapping.dfg) \in Mappings /\ Mapping(curMapping.dfg).dfg = curMapping.dfg
  BY <1>1, FreshMapping
<1>3. /\ curMapping' = Mapping(curMapping.dfg) /\ lastAccept' = Mapping(curMapping.dfg)
      /\ oldVio' = MaxViolation /\ minVio' = MaxViolation /\ update' = FALSE
      /\ pc = "stuck" /\ pc' = "pnr"
      /\ UNCHANGED <<main, timeout, dfgs, mapping, modifyDfg, opt, res, succeed>>
  BY DEF Restart, Afresh
<1>4. MaxViolation \in Nat BY MapperAssumption DEF MaxViolation
<1>. QED
  BY <1>2, <1>3, <1>4 DEF IInv, main, dfgs, opt, TypeInv, Lives, Current, Judged, Unsolved,
                         Solved, Found, Searching, InPnr, Solution

\* What the pass nodes are inserted for is a violation, and they fit.
LEMMA InsertedNodes ==
  ASSUME IInv, InsertPass
  PROVE  ops' \in Nat /\ ops' > ops /\ ops' <= numGpeNodes
<1>1. /\ ops \in Nat /\ numGpeNodes \in Nat /\ ops < numGpeNodes
      /\ ops' = ops + Inserted(IF update THEN mapping ELSE lastAccept)
  BY MapperAssumption DEF InsertPass, IInv, TypeInv
<1>2. update /\ mapping.vio > 0 BY DEF InsertPass, StillStuck, IInv, Judged, InPnr
<1>3. mapping.vio \in Nat BY MapperAssumption DEF IInv, TypeInv, Mappings
<1>4. ops' = ops + Inserted(mapping) BY <1>1, <1>2
<1>. QED BY <1>1, <1>2, <1>3, <1>4 DEF Inserted

LEMMA InsertPassStep == IInv /\ InsertPass => IInv'
<1>. SUFFICES ASSUME IInv, InsertPass PROVE IInv' OBVIOUS
<1>. DEFINE d == <<kernel, dfg[2] + 1>>
<1>1. kernel \in Nat /\ dfg[2] \in Nat BY DEF IInv, TypeInv, DFGs
<1>2. d \in DFGs /\ d[1] = kernel /\ d[2] > 0 BY <1>1 DEF DFGs
<1>3. Mapping(d) \in Mappings /\ Mapping(d).dfg = d BY <1>2, FreshMapping
<1>4. /\ dfg' = d /\ dfgModified' = d /\ live' = (live \ {dfgModified}) \cup {d}
      /\ mapping' = Mapping(d) /\ curMapping' = Mapping(d) /\ lastAccept' = Mapping(d)
      /\ oldVio' = MaxViolation /\ minVio' = MaxViolation /\ update' = FALSE
      /\ pc = "stuck" /\ pc' = "pnr"
      /\ UNCHANGED <<main, timeout, modifyDfg, opt, res, succeed>>
  BY DEF InsertPass, Afresh, StillStuck
<1>5. modifyDfg BY DEF InsertPass
<1>6. MaxViolation \in Nat BY MapperAssumption DEF MaxViolation
<1>7. kernel' = kernel /\ objOpt' = objOpt BY <1>4 DEF main
<1>8. Lives'
  <2>1. kernel > 0 /\ <<kernel, 0>> \in live BY <1>4 DEF IInv, Lives, Searching
  <2>2. dfgModified # <<kernel, 0>>
    <3>1. dfgModified = None \/ dfgModified[2] > 0 BY DEF IInv, Lives
    <3>. QED BY <2>1, <3>1 DEF None
  <2>3. <<kernel, 0>> \in live' /\ dfg' \in live' BY <1>4, <2>1, <2>2
  <2>. HIDE DEF d
  <2>. QED BY <1>2, <1>4, <1>7, <2>1, <2>3, InsertedNodes DEF Lives
<1>. HIDE DEF d
<1>9. TypeInv'
  BY <1>2, <1>3, <1>4, <1>6, InsertedNodes DEF IInv, TypeInv, main, opt
<1>10. Current' /\ Judged'
  BY <1>3, <1>4, <1>5 DEF IInv, Current, Judged, main, opt, Searching, InPnr
<1>11. Unsolved' /\ Solved' /\ Found'
  BY <1>4, <1>5, <1>7 DEF IInv, Current, Unsolved, Solved, Found, main, opt, Searching, InPnr
<1>. QED BY <1>8, <1>9, <1>10, <1>11 DEF IInv
---------------------------------------------------------------------------
(* The steps of pnrSyncOpt. *)

LEMMA OptCallStep == IInv /\ OptCall => IInv'
<1>. SUFFICES ASSUME IInv, OptCall PROVE IInv' OBVIOUS
<1>1. mapping.dfg \in DFGs BY DEF IInv, TypeInv, Mappings
<1>2. Mapping(mapping.dfg) \in Mappings /\ Mapping(mapping.dfg).dfg = mapping.dfg
  BY <1>1, FreshMapping
<1>3. MaxViolation \in Nat BY MapperAssumption DEF MaxViolation
<1>4. modifyDfg' = ~optSucceed BY DEF OptCall, EnterPnr, MayModify
<1>. QED
  BY <1>2, <1>3, <1>4
     DEF OptCall, EnterPnr, IInv, main, dfgs, opt, TypeInv, Lives, Current, Judged, Unsolved,
         Solved, Found, Searching, InPnr, Solution

LEMMA OptFailedStep == IInv /\ OptFailed => IInv'
BY DEF IInv, OptFailed, main, dfgs, pnrMaps, pnr, TypeInv, Lives, Current, Judged, Unsolved,
       Solved, Found, Searching, InPnr, Solution

LEMMA OptCheckFailedStep == IInv /\ OptCheckFailed => IInv'
BY DEF IInv, OptCheckFailed, main, dfgs, pnrMaps, pnr, opt, TypeInv, Lives, Current, Judged,
       Unsolved, Solved, Found, Searching, InPnr, Solution

LEMMA OptOverStep == IInv /\ OptOver => IInv'
BY DEF IInv, OptOver, main, dfgs, pnrMaps, pnr, opt, TypeInv, Lives, Current, Judged,
       Unsolved, Solved, Found, Searching, InPnr, Solution

\* The first solution is accepted, and what is better than the best is accepted.
LEMMA OptScoreStep == IInv /\ OptScore => IInv'
<1>. SUFFICES ASSUME IInv, OptScore PROVE IInv' OBVIOUS
<1>1. PICK o \in (IF initObj THEN {FirstObj} ELSE Objs) :
        /\ OptAccepts(Scored(mapping, o), o) \/ OptRejects(o)
        /\ OptGoOn(minObj' < minObj)
        /\ least' = IF o < least THEN o ELSE least
  BY DEF OptScore
<1>2. o \in Nat /\ (initObj => o = 1) BY <1>1, MapperAssumption DEF FirstObj
<1>3. /\ pc = "judge" /\ res = 1 /\ optSucceed' = TRUE /\ initObj' = FALSE
      /\ UNCHANGED <<main, timeout, dfgs, pnr, res, succeed>>
  BY DEF OptScore
<1>4. /\ objOpt /\ Solution(mapping) /\ mapping \in Mappings
      /\ oldObj \in Nat /\ minObj \in Nat /\ least \in Nat
      /\ bestMapping \in Mappings /\ optAccept \in Mappings
  BY <1>3 DEF IInv, Current, Found, TypeInv
<1>5. /\ optSucceed => Solution(bestMapping) /\ Solution(optAccept) /\ bestMapping.obj = minObj
                       /\ least = minObj /\ minObj <= oldObj
      /\ ~optSucceed => o = 1 /\ oldObj = 10 /\ minObj = 10 /\ least = 10
  BY <1>2, <1>3, <1>4 DEF IInv, Solved, Unsolved, Searching, Far
<1>6. /\ Scored(mapping, o) \in Mappings /\ Scored(mapping, o).obj = o
      /\ Solution(Scored(mapping, o))
  BY <1>2, <1>4, ScoredMapping DEF Solution
<1>7. /\ Solution(bestMapping') /\ Solution(optAccept') /\ bestMapping'.obj = minObj'
      /\ least' = minObj' /\ minObj' <= oldObj'
      /\ bestMapping' \in Mappings /\ optAccept' \in Mappings
      /\ oldObj' \in Nat /\ minObj' \in Nat /\ least' \in Nat
  <2>1. CASE OptAccepts(Scored(mapping, o), o) /\ o < minObj
    BY <1>1, <1>2, <1>4, <1>5, <1>6, <2>1 DEF OptAccepts, Better
  <2>2. CASE OptAccepts(Scored(mapping, o), o) /\ ~(o < minObj)
    BY <1>1, <1>2, <1>4, <1>5, <1>6, <2>2 DEF OptAccepts, Better
  <2>3. CASE OptRejects(o)
    BY <1>1, <1>2, <1>4, <1>5, <2>3 DEF OptRejects
  <2>. QED BY <1>1, <2>1, <2>2, <2>3
<1>8. pc' \in {"opt", "end"} /\ mapping' \in {bestMapping', optAccept'}
  BY <1>1, Zenon DEF OptGoOn
<1>9. Solution(mapping') /\ mapping' \in Mappings BY <1>7, <1>8
<1>10. dfg' = dfg /\ kernel' = kernel /\ objOpt' = objOpt BY <1>3 DEF dfgs, main
<1>11. TypeInv' BY <1>3, <1>7, <1>8, <1>9 DEF IInv, TypeInv, main, dfgs, pnr, pnrMaps
<1>12. Lives' BY <1>3, <1>8 DEF IInv, Lives, main, dfgs, Searching
<1>13. Current' /\ Judged'
  BY <1>4, <1>8, <1>9, <1>10 DEF Current, Judged, Searching, InPnr, Solution
<1>14. Unsolved' /\ Solved' /\ Found'
  BY <1>3, <1>7, <1>8, <1>10 DEF Unsolved, Solved, Found, Searching, Solution
<1>. QED BY <1>11, <1>12, <1>13, <1>14 DEF IInv

LEMMA OptEndStep == IInv /\ OptEnd => IInv'
BY DEF IInv, OptEnd, Final, main, dfgs, pnrMaps, pnr, opt, TypeInv, Lives, Current, Judged,
       Unsolved, Solved, Found, Searching, InPnr, Solution

LEMMA NextIInv == IInv /\ [Next]_vars => IInv'
BY NextKernelStep, TimeOutStep, PnrOverStep, PnrFailsStep, PnrSucceedsStep, PnrViolatesStep,
   PnrGoOnStep, RestartStep, GiveUpStep, InsertPassStep, OptCallStep, OptFailedStep,
   OptCheckFailedStep, OptScoreStep, OptOverStep, OptEndStep, StutterStep DEF Next
---------------------------------------------------------------------------
(* What follows for every run of the mapper. *)

\* The strengthening is an invariant of the search.
THEOREM Invariance == Spec => []IInv
BY InitIInv, NextIInv, PTL DEF Spec

\* execute() generates code from a complete mapping without violations (mapper.cpp:450-470).
THEOREM ResultAlwaysValid == Spec => []ResultValid
<1>1. IInv => ResultValid BY DEF IInv, Lives, Found, Solution, ResultValid
<1>. QED BY <1>1, Invariance, PTL

\* No Mapping the search reads points into a deleted DFG (mapper.cpp:52-58).
THEOREM NeverDangling == Spec => []NoDangling
<1>1. IInv => NoDangling
  <2>. SUFFICES ASSUME IInv, NEW m \in InUse PROVE m.dfg \in live BY DEF NoDangling
  <2>1. pc # "main" BY DEF InUse, IInv, TypeInv
  <2>2. dfg \in live /\ <<kernel, 0>> \in live BY <2>1 DEF IInv, Lives, Searching
  <2>3. CASE m = mapping BY <2>1, <2>2, <2>3 DEF IInv, Current, Searching
  <2>4. CASE pc \in {"pnr", "stuck"} /\ m \in {curMapping, lastAccept}
    BY <2>2, <2>4 DEF IInv, Current, InPnr
  <2>5. CASE objOpt /\ m \in {bestMapping, optAccept}
    <3>1. optSucceed => bestMapping.dfg = dfg /\ optAccept.dfg = dfg
      BY <2>1, <2>5 DEF IInv, Solved, Searching, Solution
    <3>2. ~optSucceed => bestMapping.dfg = <<kernel, 0>> /\ optAccept.dfg = <<kernel, 0>>
      BY <2>1, <2>5 DEF IInv, Unsolved, Searching
    <3>. QED BY <2>2, <2>5, <3>1, <3>2
  <2>. QED BY <2>3, <2>4, <2>5 DEF InUse
<1>. QED BY <1>1, Invariance, PTL

\* What pnrSync places are the nodes of the DFG it has the order of (mapper_sa.cpp:280).
THEOREM AlwaysPlacesItsNodes == Spec => []PlacesItsNodes
<1>1. IInv => PlacesItsNodes BY DEF IInv, Current, InPnr, PlacesItsNodes
<1>. QED BY <1>1, Invariance, PTL

\* The result of the optimisation is the best solution found (mapper_sa.cpp:65-69 and 89).
THEOREM BestAlwaysBest == Spec => []BestIsBest
<1>1. IInv => BestIsBest BY DEF IInv, Found, BestIsBest
<1>. QED BY <1>1, Invariance, PTL

\* With the pass nodes inserted there are no more computing nodes than GPEs
\* (mapper_sa.cpp:197-200).
THEOREM AlwaysFitsGpes == Spec => []FitsGpes
<1>1. IInv => FitsGpes BY DEF IInv, Lives, Searching, FitsGpes
<1>. QED BY <1>1, Invariance, PTL

\* A DFG is replaced only by one with more pass nodes (mapper_sa.cpp:178-186).
THEOREM AlwaysGrows == Spec => Grows
<1>1. IInv /\ [Next]_vars => [dfg'[1] = dfg[1] /\ dfg' # dfg => ops' > ops]_vars
  <2>. SUFFICES ASSUME IInv, Next, dfg'[1] = dfg[1], dfg' # dfg PROVE ops' > ops
    OBVIOUS
  <2>1. ~NextKernel
    <3>1. dfg[1] = kernel /\ kernel \in Nat BY DEF IInv, Lives, TypeInv
    <3>2. NextKernel => dfg' = <<kernel + 1, 0>> BY DEF NextKernel, SetDFG
    <3>. QED BY <3>1, <3>2
  <2>2. InsertPass
    BY <2>1 DEF Next, dfgs, TimeOut, PnrOver, PnrFails, PnrSucceeds, PnrViolates, PnrGoOn,
                Restart, GiveUp, OptCall, OptFailed, OptCheckFailed, OptScore, OptOver, OptEnd
  <2>. QED BY <2>2, InsertedNodes
<1>. QED BY <1>1, Invariance, PTL DEF Spec, Grows
=============================================================================
