-------------------------- MODULE DMASliceProofs --------------------------
(***************************************************************************)
(* Lemmas about DMASlice: the packet cut from the head of a request is the *)
(* least that a bus allows, it holds the bytes it is for, and it begins    *)
(* and ends at words.  The proofs about the write and the read path cite   *)
(* them.                                                                   *)
(*                                                                         *)
(* The provers know nothing of powers: Sizes states the two facts of       *)
(* exponentiation that are used.  What holds of all powers comes from the  *)
(* first one for which it does not (Least).                                *)
(***************************************************************************)
EXTENDS DMASlice, WellFoundedInduction, TLAPS

Sizes ==
  /\ maxLgSizeTL \in Nat
  /\ \A n \in 0 .. maxLgSizeTL : 2^n \in Nat \ {0} /\ 2^(n + 1) = 2 * 2^n

---------------------------------------------------------------------------
(* Numbers. *)
Below == {p \in Nat \X Nat : p[1] < p[2]}

\* A nonempty set of naturals has a least element.
LEMMA Least ==
  ASSUME NEW S \in SUBSET Nat, S # {}
  PROVE  \E m \in S : \A k \in S : m <= k
<1>1. IsWellFoundedOn(Below, Nat)
  BY NatLessThanWellFounded DEF OpToRel, Below
<1>2. PICK m \in S : \A k \in S : ~(<<k, m>> \in Below)
  BY <1>1, WFMin
<1>3. \A k \in Nat, n \in Nat : <<k, n>> \in Below <=> k < n
  BY DEF Below
<1>4. ASSUME NEW k \in S PROVE m <= k
  <2>1. k \in Nat /\ m \in Nat
    OBVIOUS
  <2>2. (<<k, m>> \in Below) <=> (k < m)
    BY <2>1, <1>3, Zenon
  <2>3. ~(<<k, m>> \in Below)
    BY <1>2, Zenon
  <2>4. ~(k < m)
    BY <2>2, <2>3, Zenon
  <2>5. QED BY <2>1, <2>4
<1>5. QED BY <1>4

\* Division with remainder, and that it is unique.
LEMMA Division ==
  ASSUME NEW a \in Nat, NEW p \in Nat \ {0}
  PROVE  /\ a \div p \in Nat /\ a % p \in Nat /\ a % p < p
         /\ a = p * (a \div p) + (a % p)
OBVIOUS

LEMMA DivisionUnique ==
  ASSUME NEW q \in Nat, NEW p \in Nat \ {0}, NEW r \in Nat, r < p
  PROVE  (p * q + r) \div p = q /\ (p * q + r) % p = r
<1> DEFINE a == p * q + r
           d == a \div p
           s == a % p
<1>1. p * q \in Nat /\ a \in Nat
  OBVIOUS
<1>2. d \in Nat /\ s \in Nat /\ s < p /\ a = p * d + s
  BY <1>1, Division
<1>3. p * d \in Nat /\ p * q + r = p * d + s
  BY <1>2
<1> HIDE DEF d, s
<1>4. ~(q + 1 <= d)
  <2>1. SUFFICES ASSUME q + 1 <= d PROVE FALSE
    OBVIOUS
  <2>2. p * (q + 1) <= p * d
    BY <1>2, <2>1
  <2>3. p * (q + 1) = p * q + p
    OBVIOUS
  <2>4. QED BY <1>1, <1>2, <1>3, <2>2, <2>3
<1>5. ~(d + 1 <= q)
  <2>1. SUFFICES ASSUME d + 1 <= q PROVE FALSE
    OBVIOUS
  <2>2. p * (d + 1) <= p * q
    BY <1>2, <2>1
  <2>3. p * (d + 1) = p * d + p
    BY <1>2
  <2>4. QED BY <1>1, <1>2, <1>3, <2>2, <2>3
<1>6. d = q
  BY <1>2, <1>4, <1>5
<1>7. s = r
  BY <1>1, <1>2, <1>3, <1>6
<1>8. QED BY <1>6, <1>7 DEF d, s

\* Multiples.
LEMMA Multiple ==
  ASSUME NEW a \in Nat, NEW p \in Nat \ {0}
  PROVE  a % p = 0 <=> \E q \in Nat : a = p * q
<1>1. ASSUME a % p = 0 PROVE \E q \in Nat : a = p * q
  <2>1. a \div p \in Nat /\ a = p * (a \div p) + (a % p)
    BY Division
  <2>2. p * (a \div p) \in Nat
    BY <2>1
  <2>3. a = p * (a \div p)
    BY <1>1, <2>1, <2>2
  <2>4. QED BY <2>1, <2>3
<1>2. ASSUME NEW q \in Nat, a = p * q PROVE a % p = 0
  <2>1. (p * q + 0) % p = 0
    BY DivisionUnique
  <2>2. p * q + 0 = a
    BY <1>2
  <2>3. QED BY <2>1, <2>2
<1>3. QED BY <1>1, <1>2

LEMMA MultipleSum ==
  ASSUME NEW a \in Nat, NEW b \in Nat, NEW p \in Nat \ {0}, a % p = 0
  PROVE  (a + b) % p = b % p
<1>1. PICK q \in Nat : a = p * q
  BY Multiple
<1>2. b \div p \in Nat /\ b % p \in Nat /\ b % p < p /\ b = p * (b \div p) + (b % p)
  BY Division
<1> DEFINE d == b \div p
           r == b % p
<1>3. d \in Nat /\ r \in Nat /\ r < p /\ b = p * d + r
  BY <1>2
<1> HIDE DEF d, r
<1>4. a + b = p * (q + d) + r
  <2>1. p * (q + d) = p * q + p * d
    BY <1>3
  <2>2. p * q \in Nat /\ p * d \in Nat
    BY <1>3
  <2>3. QED BY <1>1, <1>3, <2>1, <2>2
<1>5. (p * (q + d) + r) % p = r
  BY <1>3, DivisionUnique
<1>6. QED BY <1>4, <1>5 DEF r

LEMMA MultipleDifference ==
  ASSUME NEW a \in Nat, NEW b \in Nat, NEW p \in Nat \ {0}, a % p = 0, b % p = 0, b <= a
  PROVE  (a - b) % p = 0
<1>1. a - b \in Nat /\ b + (a - b) = a
  OBVIOUS
<1>2. (b + (a - b)) % p = (a - b) % p
  BY <1>1, MultipleSum
<1>3. QED BY <1>1, <1>2

LEMMA MultipleTransitive ==
  ASSUME NEW a \in Nat, NEW p \in Nat \ {0}, NEW q \in Nat \ {0}, a % p = 0, p % q = 0
  PROVE  a % q = 0
<1>1. PICK i \in Nat : a = p * i
  BY Multiple
<1>2. PICK j \in Nat : p = q * j
  BY Multiple
<1>3. a = q * (j * i)
  <2>1. (q * j) * i = q * (j * i)
    OBVIOUS
  <2>2. QED BY <1>1, <1>2, <2>1
<1>4. j * i \in Nat
  OBVIOUS
<1>5. QED BY <1>3, <1>4, Multiple

\* Between two multiples there is room for the number.
LEMMA MultipleStep ==
  ASSUME NEW a \in Nat, NEW b \in Nat, NEW p \in Nat \ {0}, a % p = 0, b % p = 0, a < b
  PROVE  a + p <= b
<1>1. PICK i \in Nat : a = p * i
  BY Multiple
<1>2. PICK j \in Nat : b = p * j
  BY Multiple
<1>3. i + 1 <= j
  <2>1. ASSUME j <= i PROVE FALSE
    <3>1. p * j <= p * i
      BY <2>1
    <3>2. QED BY <1>1, <1>2, <3>1
  <2>2. QED BY <2>1
<1>4. p * (i + 1) <= p * j
  BY <1>3
<1>5. p * (i + 1) = p * i + p
  OBVIOUS
<1>6. QED BY <1>1, <1>2, <1>4, <1>5


---------------------------------------------------------------------------
(* Powers of two up to the largest packet. *)
LEMMA PowersAreMultiples ==
  ASSUME Sizes, NEW i \in 0 .. maxLgSizeTL, NEW j \in 0 .. maxLgSizeTL, i <= j
  PROVE  2^j % 2^i = 0 /\ 2^i <= 2^j
<1> DEFINE Holds(k) == 2^k % 2^i = 0 /\ 2^i <= 2^k
           Fails == {k \in i .. maxLgSizeTL : ~Holds(k)}
<1>1. ASSUME Fails # {} PROVE FALSE
  <2>1. PICK m \in Fails : \A k \in Fails : m <= k
    <3>1. Fails \in SUBSET Nat
      OBVIOUS
    <3>2. QED BY <1>1, <3>1, Least
  <2>2. m \in i .. maxLgSizeTL /\ ~Holds(m)
    OBVIOUS
  <2>3. 2^i \in Nat \ {0}
    BY DEF Sizes
  <2>4. Holds(i)
    <3> DEFINE p == 2^i
    <3>1. p \in Nat \ {0}
      BY <2>3
    <3> HIDE DEF p
    <3>2. p % p = 0 /\ p <= p
      <4>1. p = p * 1
        BY <3>1
      <4>2. QED BY <3>1, <4>1, Multiple
    <3>3. QED BY <3>2 DEF p
  <2>5. m # i
    BY <2>2, <2>4
  <2>6. m - 1 \in i .. maxLgSizeTL /\ m - 1 \in 0 .. maxLgSizeTL /\ ~(m <= m - 1)
        /\ (m - 1) + 1 = m
    BY <2>2, <2>5 DEF Sizes
  <2>7. Holds(m - 1)
    BY <2>1, <2>6
  <2>8. 2^(m - 1) \in Nat \ {0} /\ 2^((m - 1) + 1) = 2 * 2^(m - 1)
    BY <2>6 DEF Sizes
  <2>9. Holds(m)
    <3> DEFINE p == 2^i
               q == 2^(m - 1)
               r == 2^m
    <3>1. p \in Nat \ {0} /\ q \in Nat \ {0} /\ r = 2 * q /\ q % p = 0 /\ p <= q
      BY <2>3, <2>6, <2>7, <2>8
    <3> HIDE DEF p, q, r
    <3>2. r \in Nat /\ p <= r /\ r = q + q
      BY <3>1
    <3>3. (q + q) % p = 0
      BY <3>1, MultipleSum
    <3>4. r % p = 0 /\ p <= r
      BY <3>2, <3>3
    <3>5. QED BY <3>4 DEF p, r
  <2>10. QED BY <2>2, <2>9
<1>2. QED BY <1>1

LEMMA PacketSizesType ==
  ASSUME Sizes, NEW p \in PacketSizes
  PROVE  /\ p \in Nat \ {0} /\ maxSizeTL \in Nat \ {0}
         /\ p <= maxSizeTL /\ maxSizeTL % p = 0
<1>1. PICK i \in 0 .. maxLgSizeTL : p = 2^i
  BY DEF PacketSizes
<1>2. maxLgSizeTL \in 0 .. maxLgSizeTL
  BY DEF Sizes
<1>3. 2^maxLgSizeTL % 2^i = 0 /\ 2^i <= 2^maxLgSizeTL
  BY <1>2, PowersAreMultiples DEF Sizes
<1>4. 2^i \in Nat \ {0} /\ 2^maxLgSizeTL \in Nat \ {0}
  BY <1>2 DEF Sizes
<1>5. QED BY <1>1, <1>3, <1>4 DEF maxSizeTL

LEMMA OneAndMax ==
  ASSUME Sizes
  PROVE  1 \in PacketSizes /\ maxSizeTL \in PacketSizes
<1>1. 2^0 = 1
  OBVIOUS
<1>2. 0 \in 0 .. maxLgSizeTL /\ maxLgSizeTL \in 0 .. maxLgSizeTL
  BY DEF Sizes
<1>3. QED BY <1>1, <1>2 DEF PacketSizes, maxSizeTL

\* Half a packet size is one, unless it is 1, and a multiple of the smaller
\* ones.
LEMMA Half ==
  ASSUME Sizes, NEW p \in PacketSizes, p # 1
  PROVE  /\ p \div 2 \in PacketSizes /\ p = 2 * (p \div 2)
         /\ \A s \in PacketSizes : s < p => (p \div 2) % s = 0 /\ s <= p \div 2
<1>1. PICK j \in 0 .. maxLgSizeTL : p = 2^j
  BY DEF PacketSizes
<1>2. j # 0
  <2>1. 2^0 = 1
    OBVIOUS
  <2>2. QED BY <1>1, <2>1
<1>3. j - 1 \in 0 .. maxLgSizeTL /\ (j - 1) + 1 = j
  BY <1>1, <1>2 DEF Sizes
<1>4. 2^(j - 1) \in Nat \ {0} /\ 2^j = 2 * 2^(j - 1)
  BY <1>3 DEF Sizes
<1>5. p \div 2 = 2^(j - 1)
  <2> DEFINE h == 2^(j - 1)
  <2>1. h \in Nat /\ p = 2 * h
    BY <1>1, <1>4
  <2> HIDE DEF h
  <2>2. p \div 2 = h
    BY <2>1
  <2>3. QED BY <2>2 DEF h
<1>6. ASSUME NEW s \in PacketSizes, s < p
      PROVE  (p \div 2) % s = 0 /\ s <= p \div 2
  <2>1. PICK i \in 0 .. maxLgSizeTL : s = 2^i
    BY DEF PacketSizes
  <2>2. ~(j <= i)
    <3>1. ASSUME j <= i PROVE FALSE
      <4>1. 2^j <= 2^i
        BY <3>1, PowersAreMultiples
      <4>2. 2^j \in Nat /\ 2^i \in Nat
        BY DEF Sizes
      <4>3. QED BY <1>1, <1>6, <2>1, <4>1, <4>2
    <3>2. QED BY <3>1
  <2>3. i <= j - 1
    BY <2>2 DEF Sizes
  <2>4. 2^(j - 1) % 2^i = 0 /\ 2^i <= 2^(j - 1)
    BY <1>3, <2>3, PowersAreMultiples
  <2>5. QED BY <1>5, <2>1, <2>4
<1>7. p \div 2 \in PacketSizes
  BY <1>3, <1>5 DEF PacketSizes
<1>8. QED BY <1>1, <1>4, <1>5, <1>6, <1>7

\* The first size for which something holds that holds of the largest but
\* not of 1: it does not hold of half that size.
LEMMA FirstSize ==
  ASSUME Sizes, NEW S \in SUBSET PacketSizes, maxSizeTL \in S, 1 \notin S
  PROVE  \E p \in S : p \div 2 \in PacketSizes /\ p \div 2 \notin S /\ p = 2 * (p \div 2)
<1>1. S \in SUBSET Nat
  BY PacketSizesType
<1>2. PICK p \in S : \A k \in S : p <= k
  BY <1>1, Least
<1>3. p \in PacketSizes /\ p # 1 /\ p \in Nat \ {0}
  BY PacketSizesType
<1>4. p \div 2 \in PacketSizes /\ p = 2 * (p \div 2)
  BY <1>3, Half
<1>5. p \div 2 \in Nat /\ ~(p <= p \div 2)
  BY <1>3, <1>4
<1>6. p \div 2 \notin S
  BY <1>2, <1>5
<1>7. QED BY <1>4, <1>6


---------------------------------------------------------------------------
(* Packets. *)
LEMMA Offset ==
  ASSUME Sizes, NEW vaddr \in Nat
  PROVE  /\ maxSizeTL \in Nat \ {0} /\ vxn(vaddr) \in Nat /\ vxo(vaddr) \in 0 .. maxSizeTL - 1
         /\ vaddr = vxn(vaddr) * maxSizeTL + vxo(vaddr)
         /\ vxn(vaddr) * maxSizeTL \in Nat
<1>1. maxSizeTL \in Nat \ {0}
  BY OneAndMax, PacketSizesType
<1>2. /\ vaddr \div maxSizeTL \in Nat /\ vaddr % maxSizeTL \in Nat
      /\ vaddr % maxSizeTL < maxSizeTL
      /\ vaddr = maxSizeTL * (vaddr \div maxSizeTL) + (vaddr % maxSizeTL)
  BY <1>1, Division
<1> DEFINE n == vaddr \div maxSizeTL
           o == vaddr % maxSizeTL
<1>3. n \in Nat /\ o \in Nat /\ o < maxSizeTL /\ vaddr = maxSizeTL * n + o
  BY <1>2
<1> HIDE DEF n, o
<1>4. maxSizeTL * n = n * maxSizeTL /\ n * maxSizeTL \in Nat
  BY <1>1, <1>3
<1>5. vxn(vaddr) = n /\ vxo(vaddr) = o
  BY DEF vxn, vxo, n, o
<1>6. QED BY <1>1, <1>3, <1>4, <1>5

\* PowerAbove finds the least size above x.
LEMMA PowerAboveFits ==
  ASSUME Sizes, NEW x \in 1 .. maxSizeTL - 1
  PROVE  PowerAbove(x) \in PacketSizes /\ x < PowerAbove(x) /\ PowerAbove(x) <= 2 * x
<1> DEFINE S == {p \in PacketSizes : x < p}
<1>1. maxSizeTL \in Nat
  BY OneAndMax, PacketSizesType
<1>2. maxSizeTL \in S /\ 1 \notin S /\ S \in SUBSET PacketSizes
  BY <1>1, OneAndMax
<1>3. PICK p \in S : p \div 2 \in PacketSizes /\ p \div 2 \notin S /\ p = 2 * (p \div 2)
  <2> HIDE DEF S
  <2>1. QED BY <1>2, FirstSize
<1>4. p \div 2 \in Nat /\ ~(x < p \div 2)
  BY <1>3, PacketSizesType
<1>5. p \in PacketSizes /\ x < p /\ p <= 2 * x
  <2> DEFINE h == p \div 2
  <2>1. h \in Nat /\ h <= x /\ p = 2 * h
    BY <1>1, <1>3, <1>4
  <2> HIDE DEF h
  <2>2. p <= 2 * x
    BY <1>1, <2>1
  <2>3. QED BY <1>3, <2>2
<1>6. x # 0
  OBVIOUS
<1>7. PowerAbove(x) = CHOOSE q \in PacketSizes : x < q /\ q <= 2 * x
  BY <1>6 DEF PowerAbove
<1>8. QED BY <1>5, <1>7

(* A packet is of a size the bus has, aligned to it, in one block, and      *)
(* holds the first byte of what is left; it runs to the end of the block   *)
(* when more follows, and holds all that is left otherwise.                *)
Fits(vaddr, leftLen, more, len, base) ==
  LET size == packet_size(len)
      first == vxo(vaddr)
  IN  /\ len \in 0 .. maxSizeTL /\ size \in PacketSizes /\ base \in Nat
      /\ base % size = 0 /\ base <= first /\ first < base + size
      /\ base + size <= maxSizeTL
      /\ IF more THEN base + size = maxSizeTL /\ first + leftLen > maxSizeTL
                 ELSE first + leftLen <= base + size

\* No other packet that holds the bytes up to the last one is smaller.
Smallest(vaddr, last, len) ==
  \A size \in PacketSizes, base \in 0 .. vxo(vaddr) :
    base % size = 0 /\ last < base + size => packet_size(len) <= size

\* The multiple of p before a, and after.
LEMMA AlignDown ==
  ASSUME NEW a \in Nat, NEW p \in Nat \ {0}
  PROVE  /\ a - (a % p) \in Nat /\ (a - (a % p)) % p = 0
         /\ a - (a % p) <= a /\ a < (a - (a % p)) + p
         /\ a - (a % p) = p * (a \div p)
<1> DEFINE d == a \div p
           r == a % p
<1>1. d \in Nat /\ r \in Nat /\ r < p /\ a = p * d + r
  BY Division
<1> HIDE DEF d, r
<1>2. p * d \in Nat
  BY <1>1
<1>3. a - r = p * d
  BY <1>1, <1>2
<1>4. (p * d) % p = 0
  BY <1>1, <1>2, Multiple
<1>5. a - r \in Nat /\ (a - r) % p = 0 /\ a - r <= a /\ a < (a - r) + p /\ a - r = p * d
  BY <1>1, <1>2, <1>3, <1>4
<1>6. QED BY <1>5 DEF d, r

\* In a block, multiples of a size leave room for it.
LEMMA RoomInBlock ==
  ASSUME Sizes, NEW p \in PacketSizes, NEW b \in Nat, b % p = 0, b < maxSizeTL
  PROVE  b + p <= maxSizeTL
<1>1. p \in Nat \ {0} /\ maxSizeTL \in Nat /\ maxSizeTL % p = 0
  BY PacketSizesType
<1>2. QED BY <1>1, MultipleStep

LEMMA Backward ==
  ASSUME Sizes, NEW vaddr \in Nat, NEW leftLen \in Nat, selBw(vaddr, leftLen),
         vxo(vaddr) # maxSizeTL - 1
  PROVE  LET len == len_align(vaddr, leftLen, TRUE)
         IN  /\ Fits(vaddr, leftLen, TRUE, len, vxo_align(vaddr, len))
             /\ Smallest(vaddr, maxSizeTL - 1, len)
<1> DEFINE o == vxo(vaddr)
           B == maxSizeTL
           x == B - 1 - o
           p == PowerAbove(x)
           b == o - (o % p)
<1>1. B \in Nat \ {0} /\ o \in 0 .. B - 1 /\ o # B - 1 /\ o + leftLen > B
  BY Offset DEF selBw
<1>2. x \in 1 .. maxSizeTL - 1
  <2> HIDE DEF o
  <2>1. QED BY <1>1
<1>3. p \in PacketSizes /\ x < p /\ p <= 2 * x
  <2> HIDE DEF x
  <2>1. QED BY <1>2, PowerAboveFits
<1>4. p \in Nat \ {0} /\ p <= B
  <2> HIDE DEF p
  <2>1. QED BY <1>3, PacketSizesType
<1>5. len_align(vaddr, leftLen, TRUE) = p
  BY DEF len_align, len_align_bw
<1>6. vxo_align(vaddr, p) = b /\ packet_size(p) = p
  BY <1>4 DEF vxo_align, packet_size
<1> HIDE DEF p, o
<1>7. b \in Nat /\ b % p = 0 /\ b <= o /\ o < b + p
  <2>1. o \in Nat
    BY <1>1
  <2> HIDE DEF B, x
  <2>2. QED BY <1>4, <2>1, AlignDown
<1> HIDE DEF b
<1>8. b + p <= B
  <2>1. b < B
    BY <1>1, <1>7
  <2>2. QED BY <1>3, <1>7, <2>1, RoomInBlock
<1>9. b + p = B
  <2>1. ASSUME b + p # B PROVE FALSE
    <3>1. B % p = 0 /\ p % p = 0
      <4>1. p = p * 1
        BY <1>4
      <4>2. QED BY <1>3, <1>4, <4>1, PacketSizesType, Multiple
    <3>2. b + p \in Nat /\ (b + p) % p = 0
      BY <1>4, <1>7, <3>1, MultipleSum
    <3>3. (b + p) + p <= B
      BY <1>1, <1>4, <1>7, <1>8, <2>1, <3>1, <3>2, MultipleStep
    <3>4. QED BY <1>1, <1>2, <1>3, <1>4, <1>7, <3>3
  <2>2. QED BY <2>1
<1>10. Fits(vaddr, leftLen, TRUE, p, b)
  BY <1>1, <1>3, <1>4, <1>6, <1>7, <1>9 DEF Fits, o
<1>11. Smallest(vaddr, maxSizeTL - 1, p)
  <2>1. SUFFICES ASSUME NEW s \in PacketSizes, NEW c \in 0 .. o,
                        c % s = 0, B - 1 < c + s
                 PROVE  p <= s
    BY <1>6 DEF Smallest, o
  <2>2. s \in Nat \ {0}
    BY PacketSizesType
  <2>3. ASSUME s < p PROVE FALSE
    <3>1. p # 1
      BY <1>4, <2>2, <2>3
    <3>2. p = 2 * (p \div 2) /\ s <= p \div 2 /\ p \div 2 \in Nat
      BY <1>3, <2>3, <3>1, Half, PacketSizesType
    <3>3. p \div 2 <= x
      BY <1>1, <1>3, <3>2
    <3>4. s <= B - 1 - o
      BY <1>1, <2>2, <3>2, <3>3
    <3>5. QED BY <1>1, <2>1, <2>2, <3>4
  <2>4. QED BY <1>4, <2>2, <2>3
<1>12. QED BY <1>5, <1>6, <1>10, <1>11


\* Two numbers between a multiple of s and the next are between the same
\* multiples of a multiple of s.
InSlot(a, b, c, s) == c % s = 0 /\ c <= a /\ a <= b /\ b < c + s
SameQuotient(a, b, h) == a \div h = b \div h

LEMMA SameDividend ==
  ASSUME NEW a \in Nat, NEW b \in Nat, NEW c \in Nat, NEW s \in Nat \ {0}, NEW h \in Nat \ {0},
         InSlot(a, b, c, s), h % s = 0
  PROVE  SameQuotient(a, b, h)
<1>0. c % s = 0 /\ c <= a /\ a <= b /\ b < c + s
  BY DEF InSlot
<1> DEFINE m == h * (c \div h)
           q == c \div h
<1>1. c - (c % h) = m /\ m \in Nat /\ m <= c /\ c < m + h /\ m % h = 0 /\ q \in Nat
  <2>1. /\ c - (c % h) \in Nat /\ (c - (c % h)) % h = 0 /\ c - (c % h) <= c
        /\ c < (c - (c % h)) + h /\ c - (c % h) = m
    BY AlignDown
  <2>2. q \in Nat
    BY Division
  <2> DEFINE d == c - (c % h)
  <2>3. d \in Nat /\ d % h = 0 /\ d <= c /\ c < d + h /\ d = m
    BY <2>1
  <2> HIDE DEF d, m, q
  <2>4. m \in Nat /\ m % h = 0 /\ m <= c /\ c < m + h
    BY <2>3
  <2>5. QED BY <2>2, <2>3, <2>4 DEF d
<1>2. m % s = 0
  <2> HIDE DEF m
  <2>1. QED BY <1>0, <1>1, MultipleTransitive
<1>3. (m + h) % s = 0
  <2> HIDE DEF m
  <2>1. QED BY <1>1, <1>2, MultipleSum
<1>4. c + s <= m + h
  <2> HIDE DEF m
  <2>1. m + h \in Nat
    BY <1>1
  <2>2. QED BY <1>0, <1>1, <1>3, <2>1, MultipleStep
<1>5. ASSUME NEW x \in Nat, m <= x, x < m + h
      PROVE  x \div h = q
  <2>1. x - m \in Nat /\ x - m < h
    <3> HIDE DEF m
    <3>1. QED BY <1>1, <1>5
  <2>2. (h * q + (x - m)) \div h = q
    <3> HIDE DEF m, q
    <3>1. QED BY <1>1, <2>1, DivisionUnique
  <2>3. h * q + (x - m) = x
    <3>1. m = h * q
      OBVIOUS
    <3> HIDE DEF m, q
    <3>2. QED BY <1>1, <3>1
  <2>4. QED BY <2>2, <2>3
<1>6. m <= a /\ a < m + h /\ m <= b /\ b < m + h
  <2> HIDE DEF m
  <2>1. QED BY <1>0, <1>1, <1>4
<1>7. a \div h = q /\ b \div h = q
  <2> HIDE DEF m, q
  <2>1. QED BY <1>5, <1>6
<1>8. QED BY <1>7 DEF SameQuotient


LEMMA Forward ==
  ASSUME Sizes, NEW vaddr \in Nat, NEW leftLen \in Nat \ {0}, ~selBw(vaddr, leftLen),
         leftLen = 1 => vxo(vaddr) = 0
  PROVE  LET len == len_align(vaddr, leftLen, FALSE)
         IN  /\ Fits(vaddr, leftLen, FALSE, len, vxo_align(vaddr, len))
             /\ Smallest(vaddr, vxo(vaddr) + leftLen - 1, len)
<1> DEFINE o == vxo(vaddr)
           B == maxSizeTL
           l == o + leftLen - 1
           Same(q) == o \div q = l \div q
           len == len_align_fw(vaddr, leftLen)
<1>1. B \in Nat \ {0} /\ o \in Nat /\ l \in Nat /\ o < B /\ l < B /\ o <= l
  <2>1. B \in Nat \ {0} /\ o \in 0 .. B - 1
    BY Offset
  <2>2. ~(o + leftLen > B)
    BY DEF selBw
  <2> HIDE DEF o, B
  <2>3. QED BY <2>1, <2>2
<1>2. len_align(vaddr, leftLen, FALSE) = len
  BY DEF len_align
<1>3. CASE leftLen = 1
  <2>1. o = 0 /\ l = 0 /\ len = 0
    BY <1>3 DEF len_align_fw
  <2>2. vxo_align(vaddr, len) = 0 /\ packet_size(len) = 1
    BY <2>1 DEF vxo_align, packet_size
  <2>3. 1 \in PacketSizes /\ \A s \in PacketSizes : s \in Nat \ {0}
    BY OneAndMax, PacketSizesType
  <2>4. 0 % 1 = 0
    OBVIOUS
  <2> HIDE DEF len
  <2>5. Fits(vaddr, leftLen, FALSE, len, 0)
    BY <1>1, <1>3, <2>1, <2>2, <2>3, <2>4 DEF Fits
  <2>6. Smallest(vaddr, l, len)
    BY <2>2, <2>3 DEF Smallest
  <2>7. QED BY <1>2, <2>2, <2>5, <2>6
<1>4. CASE leftLen # 1
  <2>1. o # l /\ o < l
    <3> HIDE DEF o
    <3>1. QED BY <1>1, <1>4
  <2> DEFINE S == {q \in PacketSizes : Same(q)}
  <2>2. maxSizeTL \in S
    <3>1. \A a \in Nat : a < B => a \div B = 0
      <4>1. SUFFICES ASSUME NEW a \in Nat, a < B PROVE a \div B = 0
        OBVIOUS
      <4>2. (B * 0 + a) \div B = 0
        BY <1>1, <4>1, DivisionUnique
      <4>3. B * 0 + a = a
        BY <1>1
      <4>4. QED BY <4>2, <4>3
    <3>2. o \div B = 0 /\ l \div B = 0
      <4> HIDE DEF o, l
      <4>1. QED BY <1>1, <3>1
    <3>3. QED BY <3>2, OneAndMax
  <2>3. 1 \notin S
    <3>1. \A a \in Nat : a \div 1 = a
      OBVIOUS
    <3>2. o \div 1 = o /\ l \div 1 = l
      <4> HIDE DEF o, l
      <4>1. QED BY <1>1, <3>1
    <3>3. QED BY <2>1, <3>2
  <2>4. PICK r \in S : r \div 2 \in PacketSizes /\ r \div 2 \notin S /\ r = 2 * (r \div 2)
    <3>1. S \in SUBSET PacketSizes
      OBVIOUS
    <3> HIDE DEF S
    <3>2. QED BY <2>2, <2>3, <3>1, FirstSize
  <2>5. r \in PacketSizes /\ Same(r) /\ ~Same(r \div 2)
    BY <2>4
  <2> DEFINE Cut(q) == Same(q) /\ ~Same(q \div 2)
  <2>6. len = CHOOSE q \in PacketSizes : Cut(q)
    BY <2>1 DEF len_align_fw
  <2>7. len \in PacketSizes /\ Cut(len)
    <3>1. Cut(r)
      BY <2>5
    <3> HIDE DEF Cut, len
    <3>2. QED BY <2>5, <2>6, <3>1
  <2> DEFINE p == len
             b == o - (o % p)
  <2>8. p \in PacketSizes /\ Same(p) /\ ~Same(p \div 2) /\ p \in Nat \ {0} /\ p <= B
    <3> HIDE DEF len, o, l
    <3>1. QED BY <2>7, PacketSizesType
  <2>9. vxo_align(vaddr, p) = b /\ packet_size(p) = p
    <3> HIDE DEF len
    <3>1. QED BY <2>8 DEF vxo_align, packet_size
  <2>10. b \in Nat /\ b % p = 0 /\ b <= o /\ o < b + p /\ b = p * (o \div p)
    <3> HIDE DEF len, o, l
    <3>1. QED BY <1>1, <2>8, AlignDown
  <2>11. l < b + p
    <3>1. l - (l % p) = p * (l \div p) /\ l < (l - (l % p)) + p
      <4> HIDE DEF len, o, l
      <4>1. QED BY <1>1, <2>8, AlignDown
    <3>2. p * (l \div p) = b
      <4> HIDE DEF len, o, l, b
      <4>1. QED BY <2>8, <2>10
    <3> HIDE DEF len, o, l, b
    <3>3. QED BY <3>1, <3>2
  <2>12. b + p <= B
    <3> HIDE DEF len, o, l, b
    <3>1. b < B
      BY <1>1, <2>10
    <3>2. QED BY <2>8, <2>10, <3>1, RoomInBlock
  <2>13. Fits(vaddr, leftLen, FALSE, len, b)
    <3>1. o + leftLen <= b + p
      <4> HIDE DEF len, o, b
      <4>1. QED BY <1>1, <2>8, <2>10, <2>11
    <3>2. p \in 0 .. maxSizeTL
      <4> HIDE DEF len, o, l, b
      <4>1. QED BY <1>1, <2>8
    <3> HIDE DEF len, l, b
    <3>3. QED BY <2>8, <2>9, <2>10, <2>12, <3>1, <3>2 DEF Fits
  <2>14. Smallest(vaddr, l, len)
    <3>1. SUFFICES ASSUME NEW s \in PacketSizes, NEW c \in 0 .. o,
                          c % s = 0, o + leftLen - 1 < c + s
                   PROVE  p <= s
      <4> HIDE DEF len, b
      <4>1. QED BY <2>9 DEF Smallest
    <3>2. s \in Nat \ {0}
      BY PacketSizesType
    <3>3. ASSUME s < p PROVE FALSE
      <4> DEFINE h == p \div 2
      <4>1. p # 1
        <5> HIDE DEF len, o, l, b
        <5>1. QED BY <2>8, <3>2, <3>3
      <4>2. h \in PacketSizes /\ h % s = 0 /\ h \in Nat \ {0}
        <5> HIDE DEF len, o, l, b
        <5>1. QED BY <2>8, <3>3, <4>1, Half, PacketSizesType
      <4>3. Same(h)
        <5> HIDE DEF len, h, b
        <5>1. l < c + s /\ c <= o
          BY <1>1, <3>1, <3>2
        <5> HIDE DEF o, l
        <5>2. o \in Nat /\ l \in Nat /\ o <= l /\ c % s = 0 /\ h % s = 0
          BY <1>1, <3>1, <4>2
        <5>3. InSlot(o, l, c, s)
          BY <5>1, <5>2 DEF InSlot
        <5>4. SameQuotient(o, l, h)
          BY <3>2, <4>2, <5>2, <5>3, SameDividend
        <5>5. QED BY <5>4 DEF SameQuotient
      <4>4. QED BY <2>8, <4>3
    <3> HIDE DEF len, o, l, b
    <3>4. QED BY <2>8, <3>2, <3>3
  <2>15. QED BY <1>2, <2>9, <2>13, <2>14
<1>5. QED BY <1>3, <1>4


\* A packet begins and ends at words of an aligned request, or is smaller
\* than a word and holds the last bytes of the request.
InWords(vaddr, more, len, base) ==
  /\ base % dataByte = 0 /\ maxSizeTL % dataByte = 0 /\ vxo(vaddr) % dataByte = 0
  /\ IF dataByte <= packet_size(len) THEN packet_size(len) % dataByte = 0
                                     ELSE base = vxo(vaddr) /\ ~more

LEMMA OffsetAligned ==
  ASSUME Sizes, dataByte \in PacketSizes, NEW vaddr \in Nat, vaddr % dataByte = 0
  PROVE  /\ vxo(vaddr) % dataByte = 0 /\ maxSizeTL % dataByte = 0
         /\ (vxn(vaddr) * maxSizeTL) % dataByte = 0
<1> DEFINE n == vxn(vaddr)
           o == vxo(vaddr)
           m == n * maxSizeTL
<1>1. dataByte \in Nat \ {0} /\ maxSizeTL \in Nat \ {0} /\ maxSizeTL % dataByte = 0
  BY PacketSizesType
<1>2. n \in Nat /\ o \in Nat /\ vaddr = m + o /\ m \in Nat
  BY Offset
<1> HIDE DEF n, o
<1>3. m % maxSizeTL = 0
  <2>1. m = maxSizeTL * n
    BY <1>1, <1>2
  <2> HIDE DEF m
  <2>2. QED BY <1>1, <1>2, <2>1, Multiple
<1> HIDE DEF m
<1>4. m % dataByte = 0
  BY <1>1, <1>2, <1>3, MultipleTransitive
<1>5. o % dataByte = 0
  <2>1. (m + o) % dataByte = o % dataByte
    BY <1>1, <1>2, <1>4, MultipleSum
  <2>2. QED BY <1>2, <2>1
<1>6. QED BY <1>1, <1>4, <1>5 DEF m, n, o

LEMMA FitsInWords ==
  ASSUME Sizes, dataByte \in PacketSizes, NEW vaddr \in Nat, vaddr % dataByte = 0,
         NEW leftLen, NEW more \in BOOLEAN, NEW len, NEW base,
         Fits(vaddr, leftLen, more, len, base)
  PROVE  InWords(vaddr, more, len, base)
<1> DEFINE o == vxo(vaddr)
           size == packet_size(len)
<1>1. dataByte \in Nat \ {0} /\ maxSizeTL \in Nat \ {0} /\ maxSizeTL % dataByte = 0
  BY PacketSizesType
<1>2. o \in Nat /\ o % dataByte = 0
  BY Offset, OffsetAligned
<1>3. /\ size \in PacketSizes /\ base \in Nat /\ base % size = 0 /\ base <= o
      /\ o < base + size /\ base + size <= maxSizeTL /\ (more => base + size = maxSizeTL)
  BY DEF Fits
<1>4. size \in Nat \ {0}
  <2> HIDE DEF size
  <2>1. QED BY <1>3, PacketSizesType
<1> HIDE DEF o, size
<1>5. CASE dataByte <= size
  <2>1. size % dataByte = 0
    <3>1. CASE dataByte = size
      <4>1. size = dataByte * 1
        BY <1>1, <3>1
      <4>2. QED BY <1>1, <1>4, <4>1, Multiple
    <3>2. CASE dataByte < size
      <4> DEFINE h == size \div 2
      <4>1. size # 1
        BY <1>1, <3>2
      <4>2. size = 2 * h /\ h % dataByte = 0 /\ h \in Nat
        BY <1>3, <3>2, <4>1, Half, PacketSizesType
      <4> HIDE DEF h
      <4>3. (h + h) % dataByte = h % dataByte
        BY <1>1, <4>2, MultipleSum
      <4>4. size = h + h
        BY <4>2
      <4>5. QED BY <4>2, <4>3, <4>4
    <3>3. QED BY <1>1, <1>4, <1>5, <3>1, <3>2
  <2>2. base % dataByte = 0
    BY <1>1, <1>3, <1>4, <2>1, MultipleTransitive
  <2>3. QED BY <1>1, <1>2, <1>5, <2>1, <2>2 DEF InWords, o, size
<1>6. CASE ~(dataByte <= size)
  <2>1. size < dataByte
    BY <1>1, <1>4, <1>6
  <2>2. dataByte % size = 0
    <3>1. dataByte # 1
      BY <1>4, <2>1
    <3>2. dataByte = 2 * (dataByte \div 2) /\ (dataByte \div 2) % size = 0
          /\ dataByte \div 2 \in Nat
      BY <1>3, <2>1, <3>1, Half, PacketSizesType
    <3> DEFINE h == dataByte \div 2
    <3>3. dataByte = 2 * h /\ h % size = 0 /\ h \in Nat
      BY <3>2
    <3> HIDE DEF h
    <3>4. (h + h) % size = h % size
      BY <1>4, <3>3, MultipleSum
    <3>5. dataByte = h + h
      BY <3>3
    <3>6. QED BY <3>3, <3>4, <3>5
  <2>3. o % size = 0
    BY <1>1, <1>2, <1>4, <2>2, MultipleTransitive
  <2>4. base = o
    <3>1. ASSUME base # o PROVE FALSE
      <4>1. base < o
        BY <1>2, <1>3, <3>1
      <4>2. base + size <= o
        BY <1>2, <1>3, <1>4, <2>3, <4>1, MultipleStep
      <4>3. QED BY <1>2, <1>3, <1>4, <4>2
    <3>2. QED BY <3>1
  <2>5. ~more
    <3>1. ASSUME more PROVE FALSE
      <4>1. o < maxSizeTL
        BY <1>2, <1>3, <1>4, <2>4, <3>1
      <4>2. o + dataByte <= maxSizeTL
        BY <1>1, <1>2, <4>1, MultipleStep
      <4>3. QED BY <1>1, <1>2, <1>3, <1>4, <2>1, <2>4, <3>1, <4>2
    <3>2. QED BY <3>1
  <2>6. QED BY <1>1, <1>2, <1>6, <2>4, <2>5 DEF InWords, o, size
<1>7. QED BY <1>5, <1>6

\* All of it for the packet at the head of an aligned request.
LEMMA PacketOfRequest ==
  ASSUME Sizes, dataByte \in PacketSizes, dataByte # 1,
         NEW vaddr \in Nat, vaddr % dataByte = 0, NEW leftLen \in Nat \ {0},
         leftLen = 1 => vxo(vaddr) = 0, NEW more, more = selBw(vaddr, leftLen),
         NEW len, len = len_align(vaddr, leftLen, more),
         NEW base, base = vxo_align(vaddr, len)
  PROVE  /\ Fits(vaddr, leftLen, more, len, base)
         /\ InWords(vaddr, more, len, base)
         /\ Smallest(vaddr, IF more THEN maxSizeTL - 1 ELSE vxo(vaddr) + leftLen - 1, len)
<1>1. more \in BOOLEAN
  BY DEF selBw
<1>2. CASE more
  <2>1. vxo(vaddr) # maxSizeTL - 1
    <3> DEFINE o == vxo(vaddr)
    <3>1. o \in Nat /\ o % dataByte = 0 /\ maxSizeTL % dataByte = 0 /\ o < maxSizeTL
      BY Offset, OffsetAligned
    <3>2. dataByte \in Nat \ {0} /\ maxSizeTL \in Nat \ {0}
      BY PacketSizesType
    <3> HIDE DEF o
    <3>3. o + dataByte <= maxSizeTL
      BY <3>1, <3>2, MultipleStep
    <3>4. o # maxSizeTL - 1
      BY <3>1, <3>2, <3>3
    <3>5. QED BY <3>4 DEF o
  <2>2. more = TRUE
    BY <1>1, <1>2
  <2>3. len = len_align(vaddr, leftLen, TRUE)
    BY <2>2
  <2>4. Fits(vaddr, leftLen, TRUE, len, base) /\ Smallest(vaddr, maxSizeTL - 1, len)
    BY <1>2, <2>1, <2>3, Backward
  <2>5. InWords(vaddr, TRUE, len, base)
    BY <2>4, FitsInWords
  <2>6. QED BY <2>2, <2>4, <2>5
<1>3. CASE ~more
  <2>1. more = FALSE
    BY <1>1, <1>3
  <2>2. len = len_align(vaddr, leftLen, FALSE)
    BY <2>1
  <2>3. /\ Fits(vaddr, leftLen, FALSE, len, base)
        /\ Smallest(vaddr, vxo(vaddr) + leftLen - 1, len)
    BY <1>3, <2>2, Forward
  <2>4. InWords(vaddr, FALSE, len, base)
    BY <2>3, FitsInWords
  <2>5. QED BY <2>1, <2>3, <2>4
<1>4. QED BY <1>2, <1>3


\* The beats of a packet.  Those before the request end where it begins,
\* and the last one ends the packet, unless the packet is less than a beat.
LEMMA Beats ==
  ASSUME Sizes, dataByte \in PacketSizes, NEW vaddr \in Nat, NEW leftLen, NEW more \in BOOLEAN,
         NEW len, NEW base,
         Fits(vaddr, leftLen, more, len, base), InWords(vaddr, more, len, base),
         NEW a \in Nat, a % dataByte = 0, base <= a, a < base + packet_size(len)
  PROVE  /\ (a + dataByte) % dataByte = 0 /\ (a + dataByte) % maxSizeTL \in 0 .. maxSizeTL - 1
         /\ a < vxo(vaddr) =>
              a + dataByte <= vxo(vaddr) /\ a + dataByte < base + packet_size(len)
         /\ a + dataByte < base + packet_size(len) =>
              (a + dataByte) % maxSizeTL = a + dataByte
         /\ a + dataByte >= base + packet_size(len) /\ dataByte <= packet_size(len) =>
              a + dataByte = base + packet_size(len)
<1> DEFINE o == vxo(vaddr)
           size == packet_size(len)
           B == maxSizeTL
           D == dataByte
           n == a + D
<1>1. D \in Nat \ {0} /\ B \in Nat \ {0} /\ size \in Nat \ {0}
  BY PacketSizesType DEF Fits
<1>2. /\ o \in Nat /\ base \in Nat /\ base <= o /\ o < base + size /\ base + size <= B
      /\ base % D = 0 /\ o % D = 0 /\ (D <= size => size % D = 0)
      /\ base <= a /\ a < base + size
  BY Offset DEF Fits, InWords
<1> HIDE DEF o, size, B, D
<1>3. n \in Nat /\ n % D = 0
  <2>1. D % D = 0
    <3>1. D = D * 1
      BY <1>1
    <3>2. QED BY <1>1, <3>1, Multiple
  <2>2. (a + D) % D = D % D
    BY <1>1, MultipleSum DEF D
  <2>3. QED BY <1>1, <2>1, <2>2
<1>4. ASSUME a < o PROVE n <= o /\ n < base + size
  <2>1. a + D <= o
    BY <1>1, <1>2, <1>4, MultipleStep DEF D
  <2>2. QED BY <1>1, <1>2, <2>1
<1>5. ASSUME n < base + size PROVE n % B = n
  <2>1. n < B
    BY <1>1, <1>2, <1>5
  <2> HIDE DEF n
  <2>2. (B * 0 + n) % B = n
    BY <1>1, <1>3, <2>1, DivisionUnique
  <2>3. B * 0 + n = n
    BY <1>1, <1>3
  <2>4. QED BY <2>2, <2>3
<1>6. ASSUME n >= base + size, D <= size PROVE n = base + size
  <2>1. (base + size) % D = size % D
    BY <1>1, <1>2, MultipleSum
  <2>2. (base + size) % D = 0 /\ base + size \in Nat
    BY <1>1, <1>2, <1>6, <2>1
  <2>3. a + D <= base + size
    BY <1>1, <1>2, <2>2, MultipleStep DEF D
  <2>4. QED BY <1>1, <1>2, <1>6, <2>3
<1>7. n % B \in 0 .. B - 1
  <2> HIDE DEF n
  <2>1. n % B \in Nat /\ n % B < B
    BY <1>1, <1>3, Division
  <2>2. QED BY <1>1, <2>1
<1>8. QED BY <1>3, <1>4, <1>5, <1>6, <1>7 DEF n, o, size, B, D
=============================================================================
