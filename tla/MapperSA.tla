------------------------------ MODULE MapperSA ------------------------------
(***************************************************************************)
(* The search for a mapping (MapperSA::mapper, pnrSyncOpt and pnrSync of   *)
(* cgra-compiler/src/mapper/mapper_sa.cpp) for the kernels of one program, *)
(* one after the other (main.cpp), and the DFGs and Mappings it juggles:   *)
(* the mapper inserts pass nodes into copies of the DFG and deletes the    *)
(* copies it replaces, while Mappings keep pointers into them.             *)
(*                                                                         *)
(* Placement, routing and latency scheduling are in Mapping and            *)
(* LatencySchedule; here they end in any of their outcomes.  A Mapping is  *)
(* the DFG it points to, whether all its nodes are mapped, how many edges  *)
(* violate (each by a cycle) and, once scored, its objective.  The         *)
(* temperature is left out: any nodes may be unmapped, and a solution that *)
(* is no better may be accepted or not.                                    *)
(***************************************************************************)
EXTENDS Integers, FiniteSets

CONSTANTS
  numKernels,       \* DFG files of the program
  OpCounts,         \* computing nodes a kernel may have
  numGpeNodes,
  MaxVio,           \* bound: violating edges of a mapping
  Objs,             \* objectives of the solutions after the first
  maxIters,         \* of the optimisation
  pnrMaxIters,      \* of one pnrSync
  pnrRestartIters,  \* restarts of pnrSync before the first solution
  noImprvIters,     \* iterations of pnrSync without improvement
  optNoImprvIters, optRestartIters

ASSUME MapperAssumption ==
  /\ numKernels \in Nat /\ OpCounts \subseteq Nat /\ numGpeNodes \in Nat /\ MaxVio \in Nat
  /\ {maxIters, pnrMaxIters, pnrRestartIters, noImprvIters, optNoImprvIters,
      optRestartIters} \subseteq Nat
  /\ Objs \subseteq Nat

FirstObj == 1   \* objFunc of the first solution is at most 1.0 ...
Far == 10       \* ... below where the search for the least begins
MaxViolation == MaxVio + 1   \* 0x7fffffff
None == <<0, 0>>

VARIABLES
  pc,           \* main, pnr, stuck, opt, judge, end
  kernel,       \* the DFG file worked on
  objOpt,       \* optimise the objective?
  timeout,      \* the time is over
  dfg,          \* _dfg, as <<kernel, version>>; version 0 is the DFGIR's
  ops,          \* its computing nodes
  dfgModified,  \* _dfgModified
  live,         \* DFGs not deleted
  mapping,      \* _mapping
  \* pnrSync
  curMapping, lastAccept, oldVio, minVio, update, modifyDfg,
  pnrIt,        \* [iter, lastImprv, restarts, restartIters]
  \* pnrSyncOpt
  bestMapping, optAccept, oldObj, minObj, optSucceed, initObj,
  optIt,        \* [iter, lastImprv, lastRestart]
  res,          \* what pnrSync returned
  succeed,      \* what mapper() returned
  least         \* history: the least objective of the solutions of the kernel

main    == <<kernel, objOpt>>
dfgs    == <<dfg, ops, dfgModified, live>>
pnrMaps == <<curMapping, lastAccept>>
pnr     == <<pnrMaps, oldVio, minVio, update, modifyDfg, pnrIt>>
opt     == <<bestMapping, optAccept, oldObj, minObj, optSucceed, initObj, optIt, least>>
vars    == <<pc, main, timeout, dfgs, mapping, pnr, opt, res, succeed>>

Mapping(d) == [dfg |-> d, complete |-> FALSE, vio |-> 0, obj |-> Far]

\* The Mappings the search makes when all nodes are placed and scheduled.
Scheduled(d) == [dfg : {d}, complete : {TRUE}, vio : 0 .. MaxVio, obj : {Far}]

Init ==
  /\ pc = "main" /\ kernel = 0 /\ objOpt \in BOOLEAN /\ timeout = FALSE
  /\ dfg = None /\ ops = 0 /\ dfgModified = None /\ live = {}
  /\ mapping = Mapping(None) /\ curMapping = Mapping(None) /\ lastAccept = Mapping(None)
  /\ oldVio = MaxViolation /\ minVio = MaxViolation /\ update = FALSE /\ modifyDfg = FALSE
  /\ pnrIt = [iter |-> 0, lastImprv |-> 0, restarts |-> 0, restartIters |-> 0]
  /\ bestMapping = Mapping(None) /\ optAccept = Mapping(None)
  /\ oldObj = Far /\ minObj = Far /\ optSucceed = FALSE /\ initObj = TRUE
  /\ optIt = [iter |-> 0, lastImprv |-> 0, lastRestart |-> 0]
  /\ res = 0 /\ succeed = TRUE /\ least = Far
---------------------------------------------------------------------------
(* Entering pnrSync and pnrSyncOpt. *)

EnterPnr(d, restartIters, modify) ==
  /\ curMapping' = Mapping(d) /\ lastAccept' = Mapping(d)
  /\ oldVio' = MaxViolation /\ minVio' = MaxViolation /\ update' = FALSE
  /\ modifyDfg' = modify
  /\ pnrIt' = [iter |-> 0, lastImprv |-> 0, restarts |-> 0, restartIters |-> restartIters]

EnterOpt(d) ==
  /\ bestMapping' = Mapping(d) /\ optAccept' = Mapping(d)
  /\ oldObj' = Far /\ minObj' = Far /\ optSucceed' = FALSE /\ initObj' = TRUE
  /\ optIt' = [iter |-> 0, lastImprv |-> 0, lastRestart |-> 0]
---------------------------------------------------------------------------
(* main: the next kernel, if the last was mapped. *)

\* The DFGIR of the last kernel is gone with its DFG, a modified DFG stays.
SetDFG(d, n) ==
  /\ dfg' = d /\ ops' = n /\ mapping' = Mapping(d)
  /\ live' = (live \cap {dfgModified}) \cup {d} /\ UNCHANGED dfgModified

NextKernel ==
  /\ pc = "main" /\ succeed /\ kernel < numKernels
  /\ kernel' = kernel + 1
  /\ \E n \in OpCounts :
       /\ SetDFG(<<kernel + 1, 0>>, n)
       /\ IF n > numGpeNodes   \* preMapCheck
          THEN pc' = "main" /\ succeed' = FALSE
          ELSE pc' = (IF objOpt THEN "opt" ELSE "pnr") /\ succeed' = TRUE
  /\ EnterPnr(<<kernel + 1, 0>>, pnrRestartIters, TRUE) /\ EnterOpt(<<kernel + 1, 0>>)
  /\ timeout' = FALSE /\ res' = 0 /\ least' = Far /\ UNCHANGED objOpt

TimeOut ==
  /\ pc # "main" /\ ~timeout /\ timeout' = TRUE
  /\ UNCHANGED <<pc, main, dfgs, mapping, pnr, opt, res, succeed>>
---------------------------------------------------------------------------
(* pnrSync *)

\* The caller is mapper() itself or an iteration of pnrSyncOpt.
Return(r) ==
  /\ res' = r
  /\ IF objOpt THEN pc' = "judge" /\ UNCHANGED succeed
               ELSE pc' = "main" /\ succeed' = (r = 1)

PnrOver ==
  /\ pc = "pnr" /\ (pnrIt.iter >= pnrMaxIters \/ timeout)
  /\ Return(0)
  /\ UNCHANGED <<main, timeout, dfgs, mapping, pnr, opt>>

Turn == pc = "pnr" /\ pnrIt.iter < pnrMaxIters /\ ~timeout

NextIter == pnrIt' = [pnrIt EXCEPT !.iter = @ + 1]

\* Not all the nodes unmapSA left unmapped find a place.
PnrFails ==
  /\ Turn
  /\ curMapping' = Mapping(curMapping.dfg) /\ NextIter
  /\ UNCHANGED <<pc, main, timeout, dfgs, mapping, lastAccept, oldVio, minVio, update,
                 modifyDfg, opt, res, succeed>>

PnrSucceeds ==
  /\ Turn
  /\ \E m \in Scheduled(curMapping.dfg) : m.vio = 0 /\ mapping' = m /\ curMapping' = m
  /\ Return(1)
  /\ UNCHANGED <<main, timeout, dfgs, lastAccept, oldVio, minVio, update, modifyDfg, pnrIt, opt>>

PnrAccepts(m) ==
  /\ curMapping' = m /\ lastAccept' = m /\ oldVio' = m.vio
  /\ IF m.vio < minVio
     THEN mapping' = m /\ minVio' = m.vio /\ update' = TRUE
          /\ pnrIt' = [pnrIt EXCEPT !.lastImprv = pnrIt.iter]
     ELSE UNCHANGED <<mapping, minVio, update, pnrIt>>

PnrRejects(m) ==
  /\ m.vio >= oldVio   \* metropolis
  /\ curMapping' = lastAccept
  /\ UNCHANGED <<mapping, lastAccept, oldVio, minVio, update, pnrIt>>

PnrViolates ==
  /\ Turn
  /\ \E m \in Scheduled(curMapping.dfg) : m.vio # 0 /\ (PnrAccepts(m) \/ PnrRejects(m))
  /\ pc' = "stuck"
  /\ UNCHANGED <<main, timeout, dfgs, modifyDfg, opt, res, succeed>>

NotImproved == pnrIt.iter - pnrIt.lastImprv > noImprvIters

PnrGoOn ==
  /\ pc = "stuck" /\ ~NotImproved
  /\ pc' = "pnr" /\ NextIter
  /\ UNCHANGED <<main, timeout, dfgs, mapping, pnrMaps, oldVio, minVio, update, modifyDfg, opt,
                 res, succeed>>

Afresh(d, restarts) ==
  /\ curMapping' = Mapping(d) /\ lastAccept' = Mapping(d)
  /\ oldVio' = MaxViolation /\ minVio' = MaxViolation /\ update' = FALSE
  /\ pnrIt' = [pnrIt EXCEPT !.restarts = restarts, !.lastImprv = pnrIt.iter, !.iter = @ + 1]

Restart ==
  /\ pc = "stuck" /\ NotImproved /\ pnrIt.restarts < pnrIt.restartIters
  /\ pc' = "pnr" /\ Afresh(curMapping.dfg, pnrIt.restarts + 1)
  /\ UNCHANGED <<main, timeout, dfgs, mapping, modifyDfg, opt, res, succeed>>

StillStuck == pc = "stuck" /\ NotImproved /\ pnrIt.restarts >= pnrIt.restartIters

GiveUp ==
  /\ StillStuck
  /\ \/ ~modifyDfg /\ Return(0)
     \/ modifyDfg /\ ops >= numGpeNodes /\ Return(-1)   \* no GPE for a pass node
  /\ UNCHANGED <<main, timeout, dfgs, mapping, pnr, opt>>

\* Mutant of Inserted: one pass node more than there are GPEs left.
Bug_Inserted(m) == IF m.vio <= numGpeNodes - ops THEN m.vio ELSE numGpeNodes - ops + 1

\* The pass nodes insertPassDfgNodes adds: one for a violating edge, as long as GPEs are left.
Inserted(m) == IF m.vio <= numGpeNodes - ops THEN m.vio ELSE numGpeNodes - ops

InsertPass ==
  /\ StillStuck /\ modifyDfg /\ ops < numGpeNodes
  /\ ops' = ops + Inserted(IF update THEN mapping ELSE lastAccept)
  /\ LET d == <<kernel, dfg[2] + 1>> IN   \* setDFG(newDfg, true)
     /\ dfg' = d /\ dfgModified' = d
     /\ live' = (live \ {dfgModified}) \cup {d}
     /\ mapping' = Mapping(d)
     /\ Afresh(d, 0)
  /\ pc' = "pnr"
  /\ UNCHANGED <<main, timeout, modifyDfg, opt, res, succeed>>
---------------------------------------------------------------------------
(* pnrSyncOpt *)

\* Mutant of MayModify: the DFG may grow after a solution as well.
Bug_MayModify == TRUE

MayModify == ~optSucceed

OptCall ==
  /\ pc = "opt" /\ optIt.iter < maxIters
  /\ pc' = "pnr"
  /\ EnterPnr(mapping.dfg, IF optSucceed THEN 0 ELSE pnrRestartIters, MayModify)
  /\ UNCHANGED <<main, timeout, dfgs, mapping, opt, res, succeed>>

OptFailed ==
  /\ pc = "judge" /\ res = 0
  /\ pc' = "opt" /\ optIt' = [optIt EXCEPT !.iter = @ + 1]
  /\ UNCHANGED <<main, timeout, dfgs, mapping, pnr, bestMapping, optAccept, oldObj, minObj,
                 optSucceed, initObj, least, res, succeed>>

OptCheckFailed ==
  /\ pc = "judge" /\ res = -1
  /\ pc' = "end"
  /\ UNCHANGED <<main, timeout, dfgs, mapping, pnr, opt, res, succeed>>

\* objFunc of a solution.
Scored(m, o) == [dfg |-> m.dfg, complete |-> m.complete, vio |-> m.vio, obj |-> o]

\* Mutant of Better: the best is whatever improves on the last one.
Bug_Better(o) == o < oldObj

Better(o) == o < minObj

OptAccepts(m, o) ==
  /\ optAccept' = m /\ oldObj' = o
  /\ IF Better(o) THEN bestMapping' = m /\ minObj' = o
                  ELSE UNCHANGED <<bestMapping, minObj>>

OptRejects(o) ==
  /\ o >= oldObj   \* metropolis
  /\ UNCHANGED <<bestMapping, optAccept, oldObj, minObj>>

\* After a new solution: stop, go on from the best one or from the accepted one.
OptGoOn(improved) ==
  LET lastImprv   == IF improved THEN optIt.iter ELSE optIt.lastImprv
      lastRestart == IF improved THEN optIt.iter ELSE optIt.lastRestart
      again       == optIt.iter - lastRestart > optRestartIters
  IN IF optIt.iter - lastImprv > optNoImprvIters
     THEN pc' = "end" /\ mapping' = optAccept' /\ UNCHANGED optIt
     ELSE /\ pc' = "opt"
          /\ mapping' = IF again THEN bestMapping' ELSE optAccept'
          /\ optIt' = [iter |-> optIt.iter + 1, lastImprv |-> lastImprv,
                       lastRestart |-> IF again THEN optIt.iter ELSE lastRestart]

OptScore ==
  /\ pc = "judge" /\ res = 1
  /\ \E o \in IF initObj THEN {FirstObj} ELSE Objs :
       /\ OptAccepts(Scored(mapping, o), o) \/ OptRejects(o)
       /\ OptGoOn(minObj' < minObj)
       /\ least' = IF o < least THEN o ELSE least
  /\ optSucceed' = TRUE /\ initObj' = FALSE
  /\ UNCHANGED <<main, timeout, dfgs, pnr, res, succeed>>

OptOver ==
  /\ pc = "opt" /\ optIt.iter >= maxIters
  /\ pc' = "end"
  /\ UNCHANGED <<main, timeout, dfgs, mapping, pnr, opt, res, succeed>>

\* Mutant of Final: the mapping is left as the last iteration made it.
Bug_Final == mapping

Final == bestMapping

OptEnd ==
  /\ pc = "end"
  /\ mapping' = Final /\ succeed' = optSucceed
  /\ pc' = "main"
  /\ UNCHANGED <<main, timeout, dfgs, pnr, opt, res>>

Next ==
  \/ NextKernel \/ TimeOut
  \/ PnrOver \/ PnrFails \/ PnrSucceeds \/ PnrViolates
  \/ PnrGoOn \/ Restart \/ GiveUp \/ InsertPass
  \/ OptCall \/ OptFailed \/ OptCheckFailed \/ OptScore \/ OptOver \/ OptEnd

Spec == Init /\ [][Next]_vars
---------------------------------------------------------------------------
\* What the mapper says it mapped, it mapped: execute() generates code from a Mapping of
\* every node of the current DFG without latency violations (mapper.cpp:450-470).
ResultValid ==
  pc = "main" /\ kernel > 0 /\ succeed =>
    mapping.complete /\ mapping.vio = 0 /\ mapping.dfg = dfg /\ mapping.dfg \in live

\* A Mapping the search still reads points into a DFG that is not deleted
\* (setDfgModified deletes the one it replaces, mapper.cpp:52-58) ...
InUse ==
  (IF pc = "main" THEN {} ELSE {mapping})
    \cup (IF pc \in {"pnr", "stuck"} THEN {curMapping, lastAccept} ELSE {})
    \cup (IF objOpt /\ pc # "main" THEN {bestMapping, optAccept} ELSE {})

NoDangling == \A m \in InUse : m.dfg \in live

\* ... and what pnrSync places are the nodes of the DFG whose order it follows, which
\* setDFG sorted (dfgNodeIdPlaceOrder, mapper_sa.cpp:280).
PlacesItsNodes == pc \in {"pnr", "stuck"} => curMapping.dfg = dfg /\ lastAccept.dfg = dfg

\* With optimisation, the result is the best of all the solutions that were found
\* (bestMapping, mapper_sa.cpp:65-69 and 89).
BestIsBest == pc = "main" /\ kernel > 0 /\ succeed /\ objOpt => mapping.obj = least

\* However often pass nodes are inserted, there are no more computing nodes than GPEs,
\* although the preMapCheck of the new DFG is commented out (mapper_sa.cpp:197-200).  That
\* enough of the GPEs can PASS, which it would check too (mapper.cpp:415-420), nothing sees to.
FitsGpes == pc \in {"pnr", "stuck"} => ops <= numGpeNodes

\* The DFG is replaced only by one with more pass nodes: what they are inserted for is
\* a schedule of the present DFG that violates (mapper_sa.cpp:178-186).
Grows == [][dfg'[1] = dfg[1] /\ dfg' # dfg => ops' > ops]_vars
=============================================================================
