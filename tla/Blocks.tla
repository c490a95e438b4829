------------------------------- MODULE Blocks ------------------------------
(***************************************************************************)
(* The blocks of the array that compute and that access memory.  The       *)
(* processing element (cgra-mg/.../dsa/pe/PE.scala): the delay unit its    *)
(* operands share (SharedRDU, dsa/util/RDU.scala), and the register behind *)
(* the ALU, which also accumulates (AffineCtrlReg, DMR.scala).  The data   *)
(* path of an IOB (dsa/io/IOB.scala, IOController.scala): a delay unit     *)
(* before and registers around the port of its bank.                       *)
(*                                                                         *)
(* The registers of a unit are a record; an operator ending in Next gives  *)
(* their next values.  The ALU is symbolic: a result is the term of its    *)
(* operands, an accumulated one the sequence of what was added to the      *)
(* initial value, a word read the term of its bank and address.  Counters  *)
(* are as wide as what they count.                                         *)
(***************************************************************************)
EXTENDS Integers, Sequences

NoData == <<"none">>    \* what nobody has computed
Const  == <<"const">>   \* the constant of a configuration

log2Ceil(x) == CHOOSE w \in 0 .. x : 2 ^ w >= x /\ \A v \in 0 .. w - 1 : 2 ^ v < x
---------------------------------------------------------------------------
(* SharedRDU: one ring of registers for the num operands, in which each    *)
(* has a pointer that goes round.  The first starts at 0, the others where *)
(* the delays of those before them end; config is the delay of each.       *)
Ports(num)           == 0 .. num - 1
regNum(maxDelay, num) == maxDelay + num

\* Mutant of offset: no room is left for the word an operand writes.
Bug_offset(maxDelay, num, config) ==
  LET off[i \in 1 .. num - 1] == IF i = 1 THEN config[1] ELSE off[i - 1] + config[i]
  IN  off

\* The first sum is as wide as a delay, the others as wide as a pointer.
offset(maxDelay, num, config) ==
  LET cfgSize == 2 ^ log2Ceil(maxDelay + 1)
      ptrSize == 2 ^ log2Ceil(regNum(maxDelay, num))
      off[i \in 1 .. num - 1] ==
        IF i = 1 THEN (config[1] + 1) % cfgSize ELSE (off[i - 1] + config[i] + 1) % ptrSize
  IN  off

RduInit(maxDelay, num) ==
  [regs |-> [s \in 0 .. regNum(maxDelay, num) - 1 |-> NoData],
   wptr |-> [i \in Ports(num) |-> 0]]

\* Where the pointers of two operands meet, the later one's word is kept.
RduNext(r, maxDelay, num, config, en, in) ==
  [regs |-> [s \in DOMAIN r.regs |->
     LET here == {i \in Ports(num) : en /\ r.wptr[i] = s}
     IN  IF here = {} THEN r.regs[s] ELSE in[CHOOSE i \in here : \A j \in here : j <= i]],
   wptr |-> [i \in Ports(num) |->
     CASE en      -> IF r.wptr[i] < regNum(maxDelay, num) - 1 THEN r.wptr[i] + 1 ELSE 0
       [] OTHER   -> IF i = 0 THEN 0 ELSE offset(maxDelay, num, config)[i]]]

rptr(r, maxDelay, num, config, i) ==
  IF r.wptr[i] >= config[i] THEN r.wptr[i] - config[i]
  ELSE regNum(maxDelay, num) + r.wptr[i] - config[i]

RduOut(r, maxDelay, num, config, en, in, i) ==
  CASE en /\ config[i] = 0 -> in[i]
    [] en /\ config[i] # 0 -> r.regs[rptr(r, maxDelay, num, config, i)]
    [] OTHER               -> NoData
---------------------------------------------------------------------------
(* AffineCtrlReg.  c is its configuration: WI, latency, cycles, repeats    *)
(* and skipFirst.  With bypass it is a plain register.                     *)
initVal == <<>>

AcrInit ==
  [state |-> "s_idle", latCnt |-> 0, wiCnt |-> 0, cycleCnt |-> 0, repeatCnt |-> 0,
   valueReg |-> NoData, valueRegAcc |-> NoData]

wiEnd(r, c)        == r.wiCnt + 1 >= c.WI
cycleCntEnd(r, c)  == r.cycleCnt + 1 >= c.cycles
repeatCntEnd(r, c) == r.repeatCnt + 1 >= c.repeats

AcrStateNext(r, c, start) ==
  CASE r.state = "s_idle" /\ start -> IF c.latency = 0 THEN "s_data" ELSE "s_pre_lat"
    [] r.state = "s_pre_lat" /\ r.latCnt + 1 >= c.latency -> "s_data"
    [] r.state = "s_data" /\ repeatCntEnd(r, c) /\ cycleCntEnd(r, c) /\ wiEnd(r, c) -> "s_idle"
    [] OTHER -> r.state

\* A word is taken in the first cycle of every interval.
Takes(r) == r.state = "s_data" /\ r.wiCnt = 0

\* What the next word is added to.
AccNext(r, c, in) ==
  CASE \/ r.state = "s_idle"
       \/ Takes(r) /\ c.skipFirst /\ r.cycleCnt = 0
       \/ Takes(r) /\ ~c.skipFirst /\ cycleCntEnd(r, c) -> initVal
    [] Takes(r) /\ (IF c.skipFirst THEN r.cycleCnt # 0 ELSE ~cycleCntEnd(r, c)) -> in
    [] OTHER -> r.valueRegAcc

\* What the element puts out.
ValueNext(r, c, bypass, in) ==
  CASE bypass \/ (Takes(r) /\ (r.cycleCnt > 0 \/ ~c.skipFirst)) -> in
    [] ~bypass /\ Takes(r) /\ r.cycleCnt = 0 /\ c.skipFirst     -> initVal
    [] OTHER                                                    -> r.valueReg

CountersNext(r, c) ==
  LET runs == r.state = "s_data" IN
  [latCnt    |-> IF r.state = "s_idle" THEN 0 ELSE IF r.state = "s_pre_lat" THEN r.latCnt + 1 ELSE r.latCnt,
   wiCnt     |-> IF r.state = "s_idle" \/ (runs /\ wiEnd(r, c)) THEN 0
                 ELSE r.wiCnt + IF runs THEN 1 ELSE 0,
   cycleCnt  |-> IF r.state = "s_idle" \/ (runs /\ wiEnd(r, c) /\ cycleCntEnd(r, c)) THEN 0
                 ELSE r.cycleCnt + IF runs /\ wiEnd(r, c) THEN 1 ELSE 0,
   repeatCnt |-> IF r.state = "s_idle" THEN 0
                 ELSE r.repeatCnt + IF runs /\ wiEnd(r, c) /\ cycleCntEnd(r, c) THEN 1 ELSE 0]

AcrNext(r, c, start, bypass, in) ==
  LET count == CountersNext(r, c) IN
  [state |-> AcrStateNext(r, c, start), latCnt |-> count.latCnt, wiCnt |-> count.wiCnt,
   cycleCnt |-> count.cycleCnt, repeatCnt |-> count.repeatCnt,
   valueReg |-> ValueNext(r, c, bypass, in), valueRegAcc |-> AccNext(r, c, in)]
---------------------------------------------------------------------------
(* The element: operands through the delay unit into the ALU.  An operation *)
(* that accumulates takes its second operand from the register, undelayed.  *)
RduConfig(config, isAccOp) == IF isAccOp THEN [config EXCEPT ![1] = 0] ELSE config
RduIn(r, in, isAccOp)      == IF isAccOp THEN [in EXCEPT ![1] = r.valueRegAcc] ELSE in

Alu(op, isAccOp, operands) ==
  IF isAccOp THEN Append(operands[1], operands[0]) ELSE <<op, operands>>
---------------------------------------------------------------------------
(* The IOB.  addReg is the number of registers between it and its bank and *)
(* back; valid says that the controller accesses the bank (wValid or       *)
(* raValid), useAddr that the address comes through the delay unit: first  *)
(* of the operands of a load, second, behind the data, of a store.         *)
load_latency(addReg)  == addReg + 1
store_latency(addReg) == IF addReg > 0 THEN 1 ELSE 0

IobInit ==
  [valid |-> FALSE, addr |-> NoData, din |-> NoData,   \* before the bank
   bankOut |-> NoData, read |-> FALSE, dout |-> NoData]

Address(useAddr, isStore, genAddr, in) ==
  IF useAddr THEN in[IF isStore THEN 1 ELSE 0] ELSE genAddr

\* What the bank sees in a cycle.
BankPort(r, addReg, valid, addr, in) ==
  IF addReg > 0 THEN [en |-> r.valid, addr |-> r.addr, din |-> r.din]
                ELSE [en |-> valid, addr |-> addr, din |-> in[0]]

\* The bank answers a read in the next cycle; otherwise it puts out anything.
IobNext(r, bank, addReg, isStore, valid, addr, in) ==
  LET port == BankPort(r, addReg, valid, addr, in)
      read == port.en /\ ~isStore
  IN  [valid   |-> valid,
       addr    |-> IF valid THEN addr ELSE r.addr,
       din     |-> IF valid /\ isStore THEN in[0] ELSE r.din,
       bankOut |-> IF read THEN <<bank, port.addr>> ELSE NoData,
       read    |-> read,
       dout    |-> IF r.read THEN r.bankOut ELSE r.dout]

IobOut(r, addReg) == IF addReg > 1 THEN r.dout ELSE r.bankOut
=============================================================================
