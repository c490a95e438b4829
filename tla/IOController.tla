---------------------------- MODULE IOController ---------------------------
(***************************************************************************)
(* The controller of an IOB (cgra-mg/.../dsa/io/IOController.scala): after *)
(* a start it waits its latency, then accesses its bank once in II cycles, *)
(* walking over nested loops that it counts in cycleCnt and whose address  *)
(* it moves by the stride of the outermost loop that goes on.              *)
(*                                                                         *)
(* The registers of a controller are a record; config is the content of    *)
(* its configuration memory.  Addresses come from the counters (useAddr is *)
(* low).  The sign bit of genAddrReg, which no address carries, is left    *)
(* out; Blocks has the data path between the array and the bank.           *)
(***************************************************************************)
EXTENDS Configuration

Levels == 0 .. agNestLevels - 1

Read(config, loc) == Unsigned(Slice(config, loc.lsb, loc.len))

IdleIOC ==
  [state |-> "s_idle", latCnt |-> 0, cycleCnt |-> [i \in Levels |-> 0], iiCnt |-> 0,
   genAddr |-> 0, done |-> FALSE]

launch(r) == r.state = "s_data"
iiEnd(r, config) == (r.iiCnt + 1) % 2^lgMaxII >= Read(config, II)

\* The loops up to i are all in their last round.
cycleCntEnd(r, config, i) ==
  \A j \in 0 .. i : (r.cycleCnt[j] + 1) % 2^lgMaxCycles >= Read(config, Cycles(j))

cntEnd(r, config) == cycleCntEnd(r, config, agNestLevels - 1)

\* Mutant of IOCState: the flag of the last execution is still up after the
\* start of this one.
Bug_IOCState(r, config, start) ==
  CASE r.state = "s_idle" /\ start ->
         [state |-> IF Read(config, Latency) = 0 THEN "s_data" ELSE "s_pre_lat", done |-> r.done]
    [] r.state = "s_pre_lat" /\ (r.latCnt + 1) % 2^lgMaxLat >= Read(config, Latency) ->
         [state |-> "s_data", done |-> r.done]
    [] launch(r) /\ cntEnd(r, config) /\ iiEnd(r, config) -> [state |-> "s_idle", done |-> TRUE]
    [] OTHER -> [state |-> r.state, done |-> r.done]

IOCState(r, config, start) ==
  CASE r.state = "s_idle" /\ start ->
         [state |-> IF Read(config, Latency) = 0 THEN "s_data" ELSE "s_pre_lat", done |-> FALSE]
    [] r.state = "s_pre_lat" /\ (r.latCnt + 1) % 2^lgMaxLat >= Read(config, Latency) ->
         [state |-> "s_data", done |-> r.done]
    [] launch(r) /\ cntEnd(r, config) /\ iiEnd(r, config) -> [state |-> "s_idle", done |-> TRUE]
    [] OTHER -> [state |-> r.state, done |-> r.done]

CycleCntNext(r, config, i) ==
  CASE r.state = "s_idle" -> 0
    [] launch(r) /\ iiEnd(r, config) ->
         IF cycleCntEnd(r, config, i) THEN 0
         ELSE IF i = 0 \/ cycleCntEnd(r, config, i - 1) THEN r.cycleCnt[i] + 1 ELSE r.cycleCnt[i]
    [] OTHER -> r.cycleCnt[i]

\* The stride of the outermost loop whose inner loops are all at their end.
strideMap(r, config) ==
  LET i == CHOOSE n \in Levels : /\ n = 0 \/ cycleCntEnd(r, config, n - 1)
                                 /\ \A m \in Levels : m > n => ~cycleCntEnd(r, config, m - 1)
  IN  Signed(Slice(config, Stride(i).lsb, lgMaxStride), lgMaxStride)

GenAddrNext(r, config) ==
  CASE ~launch(r) -> Read(config, BaseAddr)
    [] launch(r) /\ iiEnd(r, config) -> (r.genAddr + strideMap(r, config)) % 2^addrWidth
    [] OTHER -> r.genAddr

\* A cycle of a controller.
IOCNext(r, config, start) ==
  LET s == IOCState(r, config, start) IN
  [state    |-> s.state,
   done     |-> s.done,
   latCnt   |-> CASE r.state = "s_idle" -> 0 [] r.state = "s_pre_lat" -> r.latCnt + 1
                  [] OTHER -> r.latCnt,
   iiCnt    |-> CASE r.state = "s_idle" -> 0
                  [] launch(r) -> IF iiEnd(r, config) THEN 0 ELSE r.iiCnt + 1
                  [] OTHER -> r.iiCnt,
   cycleCnt |-> [i \in Levels |-> CycleCntNext(r, config, i)],
   genAddr  |-> GenAddrNext(r, config)]

\* The accesses of a cycle to the bank: none or one.
Access(r, config) ==
  IF launch(r) /\ r.iiCnt = 0
    THEN <<[addr |-> r.genAddr, store |-> Read(config, IsStore) = 1]>> ELSE <<>>
=============================================================================
