---------------------------- MODULE MCReadPath -----------------------------
(***************************************************************************)
(* Two instances of ReadPath for TLC, of which a behaviour takes one: the  *)
(* cfg's, with requests that are cut and fetch too much, two ids and       *)
(* exceptions; and one with three ids and packets of two words, the        *)
(* fewest with which one packet is stored, one due and one to come.        *)
(* InOrder and IdIsFree name no constant: they are the same properties of  *)
(* both.                                                                   *)
(***************************************************************************)
EXTENDS ReadPath

\* One request of two packets, the first of which fetches too much, and
\* one of a single packet, which does too.
CutReads == { [addr |-> 2, len |-> 14, id |-> 0], [addr |-> 16, len |-> 6, id |-> 1] }

\* A request of three packets, again and again.
LongRead == { [addr |-> 0, len |-> 24, id |-> 0] }

VARIABLE three      \* which instance

Three == INSTANCE ReadPath WITH
  Requests <- LongRead, dataByte <- 4, nReqInflight <- 3, MaxMisses <- 0

BothInit == three \in BOOLEAN /\ (IF three THEN Three!Init ELSE Init)
BothNext ==
  \/ three /\ Three!Next /\ UNCHANGED three
  \/ ~three /\ Next /\ UNCHANGED three

\* The fairness of ReadPath.
BothSpec ==
  /\ BothInit /\ [][BothNext]_<<vars, three>> /\ WF_<<vars, three>>(BothNext)

\* PacketHasRoom of either instance: no entry of packetInfoQue is lost.
BothPacketHasRoom == IF three THEN Three!PacketHasRoom ELSE PacketHasRoom
=============================================================================
