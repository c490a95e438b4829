-------------------------- MODULE MCCGRAController -------------------------
(***************************************************************************)
(* An array of one row of GPEs for TLC: IOBs 0 and 2 above and below, a    *)
(* GPE 1 between, with a bus of four registers (IOB, GIB, GPE, GIB, IOB).  *)
(* Words of 8 bits and addresses of 4 stand for 32 and 16.  A stride has a *)
(* bit less than an address of a bank.                                     *)
(***************************************************************************)
EXTENDS CGRAController

Row4    == [b \in Blocks |-> 2 * b]
CfgBits == [b \in Blocks |-> IF b \in IOBs THEN ioCtrlCfgWidth ELSE 15]

Loop(stride, count) == [stride |-> stride, count |-> count]
Io(spadAddr, offset, loops, latency, store) ==
  [spadAddr |-> spadAddr, offset |-> offset, loops |-> loops, latency |-> latency, store |-> store]

\* A column read, a row written backwards, one read again and again, a scalar.
Column == Io(4, 1, <<Loop(4, 2), Loop(1, 3)>>, 0, FALSE)
Back   == Io(8, 0, <<Loop(-2, 3)>>, 3, TRUE)
Reread == Io(0, 2, <<Loop(0, 2), Loop(5, 2)>>, 1, FALSE)
Scalar == Io(12, 0, <<Loop(0, 1)>>, 0, TRUE)

\* Fields of a GPE: three bits, eight that cross the end of a word, four.
Gpe(x, y, z) ==
  {Field(At(0, 3), Bits(x, WordBits)), Field(At(3, 8), Bits(y, WordBits)),
   Field(At(11, 4), Bits(z, WordBits))}

Kernel(ios, others) == [ios |-> ios, others |-> others]

KernelA == Kernel(0 :> Column @@ 2 :> Back, 1 :> Gpe(5, 179, 9))
KernelB == Kernel(2 :> Scalar, 1 :> {Field(At(3, 8), Bits(170, WordBits))})
KernelC == Kernel(0 :> Reread, <<>>)

KernelSequences == [1 .. 3 -> {KernelA, KernelB, KernelC}]

\* Every nest of one to three of these loops, alone on an IOB.  The steps
\* back and forth reach both ends of what a stride can be (-8 and 7), and
\* leave it.
SomeLoops == {Loop(1, 2), Loop(-2, 2), Loop(0, 2), Loop(7, 2)}
Nests     == UNION {[1 .. n -> SomeLoops] : n \in 1 .. 3}
OneNest   == {<<Kernel(0 :> Io(6, 0, loops, Len(loops) - 1, FALSE), <<>>)>> : loops \in Nests}

AllPrograms == KernelSequences \cup OneNest
=============================================================================
