--------------------------- MODULE AssemblerProofs ---------------------------
(***************************************************************************)
(* Proofs about the assembler, for every set of lines a file may be made   *)
(* of and layout of the memory: its types, that data is allocated where it *)
(* is written, and that branches and jumps go to the labels they name.     *)
(***************************************************************************)
EXTENDS AssemblerProperties, FiniteSetTheorems, WellFoundedInduction, TLAPS

-----------------------------------------------------------------------------
(* A set of numbers that is not empty has a least element, from which       *)
(* induction over the numbers follows.                                      *)
LEMMA LeastElement ==
  ASSUME NEW T, T \subseteq Nat, T # {}
  PROVE  \E x \in T : \A y \in T : x <= y
<1>1. PICK x \in T : \A y \in T : ~(<<y, x>> \in OpToRel(<, Nat))
  BY WFMin, NatLessThanWellFounded, Zenon
<1>2. \A y \in T : ~(y < x)
  BY <1>1, Zenon DEF OpToRel
<1> QED BY <1>2

LEMMA Induction ==
  ASSUME NEW S, 0 \in S, \A n \in Nat : n \in S => n + 1 \in S
  PROVE  Nat \subseteq S
<1> SUFFICES ASSUME Nat \ S # {} PROVE FALSE
  OBVIOUS
<1>1. PICK x \in Nat \ S : \A y \in Nat \ S : x <= y
  BY LeastElement
<1>2. x - 1 \in Nat /\ x - 1 \in S
  BY <1>1
<1> QED BY <1>1, <1>2

(* The row of the table of | that belongs to a, from the one of its half.   *)
Bit(a, b) == IF a % 2 = 0 /\ b % 2 = 0 THEN 0 ELSE 1

Row(a, half) == [b \in Nat |-> IF a = 0 \/ b = 0 THEN a + b ELSE 2 * half[b \div 2] + Bit(a, b)]

RowsUpTo(n, g) == g = [a \in 0 .. n |-> Row(a, g[a \div 2])]

(* Halving a number makes it smaller.                                       *)
LEMMA Halves == ASSUME NEW n \in Nat PROVE n \div 2 \in 0 .. n /\ (n # 0 => n \div 2 < n)
OBVIOUS

(* The tables of | up to a number exist, agree where they meet, and so make *)
(* one table: the definition of Or has a value.                             *)
LEMMA RowsExist == ASSUME NEW n \in Nat PROVE \E g : RowsUpTo(n, g)
<1> DEFINE S == { k \in Nat : \E g : RowsUpTo(k, g) }
<1>1. 0 \in S
  <2> DEFINE g == [a \in 0 .. 0 |-> [b \in Nat |-> b]]
  <2>1. ASSUME NEW a \in 0 .. 0 PROVE g[a] = Row(a, g[a \div 2])
    BY DEF Row
  <2>2. g = [a \in 0 .. 0 |-> g[a]]
    OBVIOUS
  <2> HIDE DEF g
  <2> QED BY <2>1, <2>2, Zenon DEF RowsUpTo
<1>2. ASSUME NEW k \in Nat, k \in S PROVE k + 1 \in S
  <2>1. PICK g : RowsUpTo(k, g)
    BY <1>2
  <2> DEFINE h == [a \in 0 .. k + 1 |-> IF a = k + 1 THEN Row(a, g[a \div 2]) ELSE g[a]]
  <2>2. ASSUME NEW a \in 0 .. k + 1 PROVE h[a] = Row(a, h[a \div 2])
    <3>1. CASE a = k + 1
      <4>1. a \div 2 \in 0 .. k /\ a \div 2 # k + 1
        BY <3>1, Halves
      <4>2. h[a \div 2] = g[a \div 2] /\ h[a] = Row(a, g[a \div 2])
        BY <3>1, <4>1
      <4> HIDE DEF h
      <4> QED BY <4>2
    <3>2. CASE a # k + 1
      <4>1. a \in 0 .. k /\ a \div 2 \in 0 .. k
        BY <3>2, Halves
      <4>2. g[a] = Row(a, g[a \div 2])
        BY <2>1, <4>1, Zenon DEF RowsUpTo
      <4>3. h[a] = g[a] /\ h[a \div 2] = g[a \div 2]
        BY <4>1
      <4> HIDE DEF h
      <4> QED BY <4>2, <4>3
    <3> QED BY <3>1, <3>2
  <2>3. h = [a \in 0 .. k + 1 |-> h[a]]
    OBVIOUS
  <2> HIDE DEF h
  <2>4. RowsUpTo(k + 1, h)
    BY <2>2, <2>3, Zenon DEF RowsUpTo
  <2> QED BY <2>4
<1> HIDE DEF S
<1>3. Nat \subseteq S
  BY <1>1, <1>2, Induction
<1> QED BY <1>3 DEF S

(* Two tables agree on the rows both have.                                  *)
LEMMA RowsAgree ==
  ASSUME NEW k \in Nat, NEW g, NEW h, NEW l \in Nat, RowsUpTo(k, g), RowsUpTo(l, h)
  PROVE  \A a \in Nat : a <= k /\ a <= l => g[a] = h[a]
<1> DEFINE D == { a \in Nat : a <= k /\ a <= l /\ g[a] # h[a] }
<1> SUFFICES ASSUME D # {} PROVE FALSE
  OBVIOUS
<1>1. PICK a \in D : \A b \in D : a <= b
  BY LeastElement
<1>2. a \in 0 .. k /\ a \in 0 .. l
  OBVIOUS
<1>3. g[a] = Row(a, g[a \div 2]) /\ h[a] = Row(a, h[a \div 2])
  BY <1>2, Zenon DEF RowsUpTo
<1>4. CASE a = 0
  <2>1. g[a] = [b \in Nat |-> b] /\ h[a] = [b \in Nat |-> b]
    BY <1>3, <1>4 DEF Row
  <2> QED BY <2>1
<1>5. CASE a # 0
  <2>1. a \div 2 \in Nat /\ a \div 2 < a
    BY <1>5, Halves
  <2>2. g[a \div 2] = h[a \div 2]
    BY <2>1, <1>1
  <2> QED BY <2>2, <1>3
<1> QED BY <1>4, <1>5

(* The table of | for all numbers exists.                                   *)
LEMMA OrRows == \E f : f = [a \in Nat |-> Row(a, f[a \div 2])]
<1> DEFINE g(n) == CHOOSE h : RowsUpTo(n, h)
           f == [a \in Nat |-> g(a)[a]]
<1>1. ASSUME NEW n \in Nat PROVE RowsUpTo(n, g(n))
  BY RowsExist, Zenon
<1> HIDE DEF g
<1>2. ASSUME NEW a \in Nat PROVE f[a] = Row(a, f[a \div 2])
  <2>1. a \div 2 \in 0 .. a /\ a \in 0 .. a
    BY Halves
  <2>2. g(a)[a] = Row(a, g(a)[a \div 2])
    BY <1>1, <2>1, Zenon DEF RowsUpTo
  <2>3. /\ RowsUpTo(a, g(a)) /\ RowsUpTo(a \div 2, g(a \div 2))
        /\ a \div 2 \in Nat /\ a \div 2 <= a /\ a \div 2 <= a \div 2
    BY <1>1, <2>1
  <2>4. g(a)[a \div 2] = g(a \div 2)[a \div 2]
    BY <2>3, RowsAgree
  <2> QED BY <2>1, <2>2, <2>4
<1>3. f = [a \in Nat |-> f[a]]
  OBVIOUS
<1> HIDE DEF f
<1>4. f = [a \in Nat |-> Row(a, f[a \div 2])]
  BY <1>2, <1>3, Zenon
<1> QED BY <1>4

(* One bit of |, and the rest.                                              *)
LEMMA OrIs ==
  ASSUME NEW a \in Nat, NEW b \in Nat
  PROVE  (a | b) = IF a = 0 \/ b = 0 THEN a + b
                   ELSE 2 * ((a \div 2) | (b \div 2)) + Bit(a, b)
<1>1. Or = [c \in Nat |-> Row(c, Or[c \div 2])]
  BY OrRows, Zenon DEF Or, Row, Bit
<1>2. Or[a] = Row(a, Or[a \div 2])
  BY <1>1, Zenon
<1>3. Or[a][b] = IF a = 0 \/ b = 0 THEN a + b ELSE 2 * Or[a \div 2][b \div 2] + Bit(a, b)
  BY <1>2 DEF Row
<1> QED BY <1>3 DEF |

(* The result of | is a number.                                             *)
LEMMA OrIsNat == \A a, b \in Nat : (a | b) \in Nat
<1> DEFINE D == { a \in Nat : \E b \in Nat : (a | b) \notin Nat }
<1> SUFFICES ASSUME D # {} PROVE FALSE
  OBVIOUS
<1>1. PICK a \in D : \A c \in D : a <= c
  BY LeastElement
<1>2. PICK b \in Nat : (a | b) \notin Nat
  BY <1>1
<1>3. CASE a = 0 \/ b = 0
  BY <1>2, <1>3, OrIs
<1>4. CASE ~(a = 0 \/ b = 0)
  <2>1. a \div 2 \in Nat /\ a \div 2 < a /\ b \div 2 \in Nat
    BY <1>4, Halves
  <2>2. ((a \div 2) | (b \div 2)) \in Nat
    BY <2>1, <1>1
  <2>3. (a | b) = 2 * ((a \div 2) | (b \div 2)) + Bit(a, b) /\ Bit(a, b) \in Nat
    BY <1>4, OrIs DEF Bit
  <2> HIDE DEF D
  <2> QED BY <2>2, <2>3, <1>2
<1> QED BY <1>3, <1>4

(* The lower n values of two numbers are ORed apart from what is above.     *)
Apart(n, a, b, r, s) == /\ ((a * n + r) | (b * n + s)) = n * (a | b) + (r | s)
                         /\ (r | s) \in 0 .. n - 1

Fieldwise(n) == \A a, b \in Nat : \A r, s \in 0 .. n - 1 : Apart(n, a, b, r, s)

(* The lowest bit is apart from those above.                                *)
LEMMA Bits == Fieldwise(2)
<1>0. ASSUME NEW a \in Nat, NEW b \in Nat, NEW r \in 0 .. 2 - 1, NEW s \in 0 .. 2 - 1
      PROVE  Apart(2, a, b, r, s)
  <2> SUFFICES ((a * 2 + r) | (b * 2 + s)) = 2 * (a | b) + (r | s) /\ (r | s) \in 0 .. 2 - 1
    BY Zenon DEF Apart
  <2>1. (0 | 0) = 0 /\ (0 | 1) = 1 /\ (1 | 0) = 1 /\ (1 | 1) = 1
    BY OrIs DEF Bit
  <2>2. (a | 0) = a /\ (0 | b) = b /\ (a | b) \in Nat
    BY OrIs, OrIsNat
  <2> DEFINE c == a * 2 + r
             d == b * 2 + s
  <2>3. c \in Nat /\ d \in Nat /\ c \div 2 = a /\ d \div 2 = b /\ c % 2 = r /\ d % 2 = s
    OBVIOUS
  <2>4. Bit(c, d) = (r | s)
    <3>1. r \in {0, 1} /\ s \in {0, 1}
      OBVIOUS
    <3> HIDE DEF c, d
    <3> QED BY <3>1, <2>3, <2>1 DEF Bit
  <2>5. CASE c = 0 \/ d = 0
    <3>1. c = 0 => a = 0 /\ r = 0
      OBVIOUS
    <3>2. d = 0 => b = 0 /\ s = 0
      OBVIOUS
    <3>3. (c | d) = c + d
      BY <2>3, <2>5, OrIs
    <3>4. r \in {0, 1} /\ s \in {0, 1}
      OBVIOUS
    <3>5. CASE c = 0
      BY <3>1, <3>3, <3>4, <3>5, <2>1, <2>2
    <3>6. CASE d = 0
      BY <3>2, <3>3, <3>4, <3>6, <2>1, <2>2
    <3> QED BY <2>5, <3>5, <3>6
  <2>6. CASE ~(c = 0 \/ d = 0)
    <3>1. (c | d) = 2 * (a | b) + (r | s)
      BY <2>3, <2>4, <2>6, OrIs
    <3> QED BY <3>1, <2>1
  <2> QED BY <2>5, <2>6
<1> QED BY <1>0, Zenon DEF Fieldwise

(* The same, for four numbers.                                              *)
LEMMA FieldwiseIs ==
  ASSUME NEW n, Fieldwise(n), NEW a \in Nat, NEW b \in Nat,
         NEW r \in 0 .. n - 1, NEW s \in 0 .. n - 1
  PROVE  ((a * n + r) | (b * n + s)) = n * (a | b) + (r | s) /\ (r | s) \in 0 .. n - 1
<1>1. Apart(n, a, b, r, s)
  BY DEF Fieldwise
<1> QED BY <1>1, Zenon DEF Apart

(* Two fields beside each other are apart from what is above both.          *)
LEMMA Wider ==
  ASSUME NEW k \in Nat \ {0}, NEW n \in Nat \ {0}, Fieldwise(k), Fieldwise(n)
  PROVE  Fieldwise(k * n)
<1> SUFFICES ASSUME NEW a \in Nat, NEW b \in Nat, NEW r \in 0 .. k * n - 1, NEW s \in 0 .. k * n - 1
             PROVE  Apart(k * n, a, b, r, s)
  BY DEF Fieldwise
<1>1. k \in Nat /\ n \in Nat /\ k >= 1 /\ n >= 1 /\ k * n \in Nat
  OBVIOUS
<1>2. ASSUME NEW x \in 0 .. k * n - 1
      PROVE  x \div n \in 0 .. k - 1 /\ x % n \in 0 .. n - 1 /\ x = (x \div n) * n + (x % n)
  <2>1. x \in Nat /\ x < k * n
    BY <1>1
  <2>2. x \div n \in Nat /\ x % n \in 0 .. n - 1 /\ x = n * (x \div n) + (x % n)
    BY <1>1, <2>1
  <2>3. x \div n < k
    <3> DEFINE q == x \div n
    <3> SUFFICES ASSUME q >= k PROVE FALSE
      BY <2>2, <1>1
    <3>1. q * n >= k * n
      <4> HIDE DEF q
      <4>1. q \in Nat
        BY <2>2 DEF q
      <4> QED BY <1>1, <4>1
    <3> QED BY <3>1, <2>1, <2>2, <1>1
  <2> QED BY <2>2, <2>3, <1>1
<1> DEFINE r1 == r \div n
           r0 == r % n
           s1 == s \div n
           s0 == s % n
<1>3. /\ r1 \in 0 .. k - 1 /\ r0 \in 0 .. n - 1 /\ r = r1 * n + r0
      /\ s1 \in 0 .. k - 1 /\ s0 \in 0 .. n - 1 /\ s = s1 * n + s0
  BY <1>2
<1> HIDE DEF r1, r0, s1, s0
<1>4. /\ r1 \in Nat /\ s1 \in Nat /\ r0 \in Nat /\ s0 \in Nat
      /\ a * k + r1 \in Nat /\ b * k + s1 \in Nat
  BY <1>1, <1>3
<1>5. /\ a * (k * n) + r = (a * k + r1) * n + r0
      /\ b * (k * n) + s = (b * k + s1) * n + s0
  BY <1>1, <1>3, <1>4
<1>6. /\ (((a * k + r1) * n + r0) | ((b * k + s1) * n + s0))
             = n * ((a * k + r1) | (b * k + s1)) + (r0 | s0)
      /\ (r0 | s0) \in 0 .. n - 1
  <2> DEFINE c == a * k + r1
             d == b * k + s1
  <2>1. c \in Nat /\ d \in Nat
    BY <1>4
  <2> HIDE DEF c, d
  <2>2. Apart(n, c, d, r0, s0)
    BY <2>1, <1>3, Zenon DEF Fieldwise
  <2>3. ((c * n + r0) | (d * n + s0)) = n * (c | d) + (r0 | s0) /\ (r0 | s0) \in 0 .. n - 1
    BY <2>2, Zenon DEF Apart
  <2> QED BY <2>3, Zenon DEF c, d
<1>7. ((a * k + r1) | (b * k + s1)) = k * (a | b) + (r1 | s1) /\ (r1 | s1) \in 0 .. k - 1
  <2>1. Apart(k, a, b, r1, s1)
    BY <1>3, Zenon DEF Fieldwise
  <2> QED BY <2>1, Zenon DEF Apart
<1>8. (r | s) = n * (r1 | s1) + (r0 | s0)
  <2>1. Apart(n, r1, s1, r0, s0)
    BY <1>4, <1>3, Zenon DEF Fieldwise
  <2>2. ((r1 * n + r0) | (s1 * n + s0)) = n * (r1 | s1) + (r0 | s0)
    BY <2>1, Zenon DEF Apart
  <2> QED BY <2>2, <1>3, Zenon
<1>9. (a | b) \in Nat
  BY OrIsNat
<1> DEFINE o == a | b
           o1 == r1 | s1
           o0 == r0 | s0
<1>10. n * (k * o + o1) + o0 = (k * n) * o + (n * o1 + o0)
  <2>1. o \in Nat /\ o1 \in Nat /\ o0 \in Nat
    BY <1>1, <1>6, <1>7, <1>9
  <2> HIDE DEF o, o1, o0
  <2> QED BY <2>1, <1>1
<1>11. n * o1 + o0 \in 0 .. k * n - 1
  <2>1. o1 \in 0 .. k - 1 /\ o0 \in 0 .. n - 1
    BY <1>6, <1>7
  <2> HIDE DEF o1, o0
  <2>2. n * o1 <= n * (k - 1) /\ n * o1 \in Nat
    BY <2>1, <1>1
  <2>3. n * (k - 1) = k * n - n
    BY <1>1
  <2> QED BY <2>1, <2>2, <2>3, <1>1
<1>12. ((a * (k * n) + r) | (b * (k * n) + s)) = (k * n) * (a | b) + (r | s)
  <2>1. n * (k * o + o1) + o0 = (k * n) * o + (r | s)
    BY <1>10, <1>8, Zenon
  <2>2. ((a * (k * n) + r) | (b * (k * n) + s)) = n * (k * o + o1) + o0
    BY <1>5, <1>6, <1>7, Zenon
  <2> QED BY <2>1, <2>2, Zenon
<1>13. (r | s) \in 0 .. k * n - 1
  BY <1>8, <1>11, Zenon
<1> QED BY <1>12, <1>13, Zenon DEF Apart

(* An immediate is apart from what is above it, and so is each of the other *)
(* fields; the 26 bits behind an opcode are apart from it.                  *)
LEMMA Powers ==
  /\ Fieldwise(ImmSize) /\ Fieldwise(JumpSize) /\ Fieldwise(FunctSize)
  /\ Fieldwise(RegSize * FunctSize) /\ Fieldwise(RegSize * ImmSize)
<1>1. Fieldwise(32)
  <2>1. Fieldwise(2 * 2)
    BY Bits, Wider
  <2>2. Fieldwise(4 * 2)
    <3>1. Fieldwise(4)
      BY <2>1
    <3> QED BY <3>1, Bits, Wider
  <2>3. Fieldwise(8) /\ Fieldwise(4)
    BY <2>1, <2>2
  <2>4. Fieldwise(8 * 4)
    BY <2>3, Wider
  <2> QED BY <2>4
<1>2. Fieldwise(RegSize) /\ RegSize \in Nat \ {0}
  BY <1>1 DEF RegSize
<1>3. Fieldwise(FunctSize) /\ FunctSize \in Nat \ {0}
  <2>1. Fieldwise(32 * 2)
    BY <1>1, Bits, Wider
  <2> QED BY <2>1 DEF FunctSize
<1>4. RegSize * RegSize \in Nat \ {0} /\ Fieldwise(RegSize * RegSize)
  BY <1>2, Wider
<1>5. Fieldwise(ImmSize) /\ ImmSize \in Nat \ {0}
  BY <1>3, <1>4, Wider DEF ImmSize
<1>6. Fieldwise(JumpSize)
  BY <1>4, <1>5, Wider DEF JumpSize
<1>7. Fieldwise(RegSize * FunctSize)
  BY <1>2, <1>3, Wider
<1>8. Fieldwise(RegSize * ImmSize)
  BY <1>2, <1>5, Wider
<1> QED BY <1>3, <1>5, <1>6, <1>7, <1>8

-----------------------------------------------------------------------------
(* Words.  What the fields of a statement hold before they are put together.*)
FieldType ==
  [opcode : 0 .. 63, cop : Register, rs : Register, rt : Register, rd : Register,
   shamt : 0 .. ByteSize - 1, funct : 0 .. FunctSize - 1,
   addr_i : 0 .. ImmSize - 1, addr_j : 0 .. 15]

(* The 26 bits behind an opcode.                                            *)
Rest26 == 0 .. JumpSize - 1

(* How many values the fields have.                                         *)
LEMMA Sizes == /\ RegSize = 32 /\ FunctSize = 64 /\ ByteSize = 256
               /\ ImmSize = 65536 /\ JumpSize = 67108864
BY DEF RegSize, FunctSize, ByteSize, ImmSize, JumpSize

(* What is ORed of 26 bits has 26 bits.                                     *)
LEMMA OrRange == ASSUME NEW r \in Rest26, NEW s \in Rest26 PROVE (r | s) \in Rest26
<1>1. Apart(JumpSize, 0, 0, r, s)
  BY Powers, Zenon DEF Fieldwise, Rest26
<1> QED BY <1>1, Zenon DEF Apart, Rest26

(* A field at its place is within the bits behind the opcode; also a shift  *)
(* amount that reaches into the next field.                                 *)
LEMMA FieldRange ==
  /\ \A x \in Register : High(x) \in Rest26 /\ Low(x) \in Rest26 /\ Third(x) \in Rest26
  /\ \A x \in 0 .. ByteSize - 1 : Fourth(x) \in Rest26
  /\ \A x \in Register : Fourth(x) \in Rest26
  /\ \A x \in 0 .. ImmSize - 1 : x \in Rest26
  /\ \A x \in 0 .. FunctSize - 1 : x \in Rest26
  /\ \A x \in 0 .. 15 : x \in Rest26
<1>1. ASSUME NEW x \in Int, 0 <= x, x <= 31
      PROVE  /\ High(x) \in Int /\ 0 <= High(x) /\ High(x) < JumpSize
             /\ Low(x) \in Int /\ 0 <= Low(x) /\ Low(x) < JumpSize
             /\ Third(x) \in Int /\ 0 <= Third(x) /\ Third(x) < JumpSize
  BY <1>1, SMT DEF High, Low, Third, RegSize, FunctSize, ImmSize, JumpSize
<1>2. ASSUME NEW x \in Int, 0 <= x, x <= 255
      PROVE  Fourth(x) \in Int /\ 0 <= Fourth(x) /\ Fourth(x) < JumpSize
  BY <1>2, SMT DEF Fourth, RegSize, FunctSize, ImmSize, JumpSize
<1>3. ASSUME NEW x \in Register PROVE x \in Int /\ 0 <= x /\ x <= 31
  BY SMT DEF Register, RegSize
<1>10. JumpSize \in Int /\ JumpSize > 65535
  BY SMT DEF RegSize, FunctSize, ImmSize, JumpSize
<1>9. ASSUME NEW x \in Int, 0 <= x, x < JumpSize PROVE x \in Rest26
  BY <1>9, <1>10, SMT DEF Rest26
<1>4. \A x \in Register : High(x) \in Rest26 /\ Low(x) \in Rest26 /\ Third(x) \in Rest26
  BY <1>1, <1>3, <1>9, SMT
<1>5. \A x \in 0 .. ByteSize - 1 : Fourth(x) \in Rest26
  BY <1>2, <1>9, SMT DEF ByteSize
<1>6. \A x \in Register : Fourth(x) \in Rest26
  BY <1>2, <1>3, <1>9, SMT
<1>11. ImmSize \in Int /\ ImmSize <= 65536 /\ FunctSize \in Int /\ FunctSize <= 64
  BY SMT DEF RegSize, FunctSize, ImmSize
<1>7. /\ \A x \in 0 .. ImmSize - 1 : x \in Rest26
      /\ \A x \in 0 .. FunctSize - 1 : x \in Rest26
      /\ \A x \in 0 .. 15 : x \in Rest26
  <2>1. ASSUME NEW n \in Int, n <= 65536, NEW x \in 0 .. n - 1 PROVE x \in Rest26
    <3>1. x \in Int /\ 0 <= x /\ x < JumpSize
      BY <1>10, <2>1, SMT
    <3> QED BY <1>9, <3>1
  <2>2. \A x \in 0 .. ImmSize - 1 : x \in Rest26
    BY <1>11, <2>1, SMT
  <2>3. \A x \in 0 .. FunctSize - 1 : x \in Rest26
    BY <1>11, <2>1, SMT
  <2>4. \A x \in 0 .. 16 - 1 : x \in Rest26
    BY <2>1, SMT
  <2> QED BY <2>2, <2>3, <2>4, SMT
<1> QED BY <1>4, <1>5, <1>6, <1>7

(* What encode_instruction puts together of fields in their ranges has 26   *)
(* bits.                                                                    *)
LEMMA EncodeRange == ASSUME NEW f \in FieldType PROVE Encode(f).rest \in Rest26
<1>1. /\ High(f.cop) \in Rest26 /\ High(f.rs) \in Rest26 /\ Low(f.rs) \in Rest26
      /\ Low(f.rt) \in Rest26 /\ Third(f.rt) \in Rest26 /\ Third(f.rd) \in Rest26
      /\ Fourth(f.rd) \in Rest26 /\ Fourth(f.shamt) \in Rest26 /\ f.funct \in Rest26
      /\ f.addr_i \in Rest26 /\ f.addr_j \in Rest26
  BY FieldRange DEF FieldType
<1>2. \A r, s \in Rest26 : (r | s) \in Rest26
  BY OrRange
<1> HIDE DEF Rest26
<1>3. /\ (High(f.cop) | Low(f.rs) | (IF f.cop = FpBranchCop THEN f.addr_i
                                    ELSE Third(f.rt) | Fourth(f.rd) | f.funct)) \in Rest26
      /\ (High(f.rs) | Low(f.rt) | Third(f.rd) | Fourth(f.shamt) | f.funct) \in Rest26
      /\ (High(f.rs) | Low(f.rt) | f.addr_i) \in Rest26
  BY <1>1, <1>2
<1> QED BY <1>1, <1>3, SMT DEF Encode

(* What the tables hold, and in which a name is.                            *)
LEMMA Numbers ==
  /\ \A n \in DOMAIN RType : RType[n] \in 0 .. 63
  /\ \A n \in DOMAIN JType : JType[n] \in {2, 3}
  /\ \A n \in DOMAIN IType : IType[n] \in 4 .. 63 /\ IType[n] # OpFType
  /\ \A n \in DOMAIN FType : FType[n] \in 0 .. 63
  /\ \A n \in DOMAIN FBranch : FBranch[n] \in {0, 1}
<1>1. \A n \in DOMAIN RType : RType[n] \in 0 .. 63
  BY DEF RType
<1>2. \A n \in DOMAIN JType : JType[n] \in {2, 3}
  BY DEF JType
<1>3. \A n \in DOMAIN IType : IType[n] \in 4 .. 63 /\ IType[n] # OpFType
  BY DEF IType, OpFType
<1>4. \A n \in DOMAIN FType : FType[n] \in 0 .. 63
  BY SMT DEF FType
<1>5. \A n \in DOMAIN FBranch : FBranch[n] \in {0, 1}
  BY DEF FBranch
<1> QED BY <1>1, <1>2, <1>3, <1>4, <1>5

(* Which table has the name of an instruction, and that no other has it.    *)
LEMMA RNames ==
  \A n \in {"add", "sub", "and", "or", "xor", "nor", "slt", "sllv", "srlv", "srav", "jr",
            "syscall", "mult", "multu", "div", "divu", "sll", "srl", "sra"} :
    /\ n \in DOMAIN RType /\ n \notin DOMAIN JType /\ n \notin DOMAIN IType
    /\ n \notin DOMAIN FType /\ n \notin DOMAIN FBranch
<1>1. \A n \in {"add", "sub", "and", "or", "xor", "nor", "slt", "sllv", "srlv", "srav", "jr",
            "syscall", "mult", "multu", "div", "divu", "sll", "srl", "sra"} : n \in DOMAIN RType
  BY DEF RType
<1>2. \A n \in DOMAIN RType :
    /\ n \notin DOMAIN JType /\ n \notin DOMAIN IType
    /\ n \notin DOMAIN FType /\ n \notin DOMAIN FBranch
  BY SMT DEF RType, JType, IType, FType, FBranch
<1> QED BY <1>1, <1>2

(* The names of the immediate format are in its table alone.                *)
LEMMA INames ==
  \A n \in {"addi", "andi", "ori", "xori", "bne", "beq", "lui"} \cup Displaced :
    /\ n \in DOMAIN IType /\ n \notin DOMAIN JType /\ n \notin DOMAIN RType
    /\ n \notin DOMAIN FType /\ n \notin DOMAIN FBranch
BY SMT DEF RType, JType, IType, FType, FBranch, Displaced

(* The names of the other formats, and those no table has.                  *)
LEMMA OtherNames ==
  /\ \A n \in {"add.", "sub.", "mul.", "div.", "mov."} \cup Compares :
       /\ n \in DOMAIN FType /\ n \notin DOMAIN IType /\ n \notin DOMAIN JType
       /\ n \notin DOMAIN RType /\ n \notin DOMAIN FBranch
  /\ \A n \in {"bc1t", "bc1f"} :
       /\ n \in DOMAIN FBranch /\ n \notin DOMAIN IType /\ n \notin DOMAIN JType
       /\ n \notin DOMAIN RType /\ n \notin DOMAIN FType
  /\ \A n \in {"j", "jal"} :
       /\ n \in DOMAIN JType /\ n \notin DOMAIN IType /\ n \notin DOMAIN FBranch
       /\ n \notin DOMAIN RType /\ n \notin DOMAIN FType
  /\ DOMAIN JType = {"j", "jal"} /\ DOMAIN FBranch = {"bc1t", "bc1f"}
  /\ \A n \in {"nop", "subi", "c.ne.", "c.ge.", "c.gt."} :
       /\ n \notin DOMAIN JType /\ n \notin DOMAIN IType /\ n \notin DOMAIN FBranch
       /\ n \notin DOMAIN RType /\ n \notin DOMAIN FType
BY SMT DEF RType, JType, IType, FType, FBranch, Compares

(* What is left of a number by ImmSize is an immediate.                     *)
LEMMA Modulo == \A x \in Int : x % ImmSize \in 0 .. ImmSize - 1
<1>1. ImmSize \in Nat \ {0}
  BY DEF ImmSize, RegSize, FunctSize
<1> HIDE DEF ImmSize
<1> QED BY <1>1

(* The fields of each format.                                               *)
LEMMA BlankType == Blank \in FieldType
BY DEF FieldType, Blank, OpRType, Register, RegSize, ByteSize, FunctSize, ImmSize

(* The fields of an instruction on registers.                               *)
LEMMA RFieldsType ==
  ASSUME NEW s, s.name \in DOMAIN RType,
         \/ /\ s.ops[1] \in Register /\ s.ops[2] \in Register /\ s.ops[3] \in Register
            /\ s.name \notin Shifts
         \/ s.name \in Shifts /\ s.ops[1] \in Register /\ s.ops[2] \in Register /\ s.ops[3] \in Int
         \/ s.name \in MulDiv /\ s.ops[1] \in Register /\ s.ops[2] \in Register
         \/ s.name = "jr" /\ s.ops[1] \in Register
         \/ s.name = "syscall"
  PROVE  RFields(s) \in FieldType
<1> DEFINE f == [Blank EXCEPT !.funct = RType[s.name]]
           o == s.ops
<1>1. f \in FieldType
  <2>1. RType[s.name] \in 0 .. FunctSize - 1
    BY Numbers DEF FunctSize
  <2> QED BY <2>1, BlankType DEF FieldType
<1> HIDE DEF f
<1>2. \A x \in Int : x % ByteSize \in 0 .. ByteSize - 1
  BY DEF ByteSize
<1>3. CASE s.name = "syscall"
  <2>1. RFields(s) = f
    BY <1>3, SMT DEF RFields, f, MulDiv, Shifts
  <2> QED BY <2>1, <1>1
<1>4. CASE s.name \in MulDiv
  <2>1. RFields(s) = [f EXCEPT !.rs = o[1], !.rt = o[2]]
    BY <1>4, SMT DEF RFields, f, MulDiv, Shifts
  <2>2. o[1] \in Register /\ o[2] \in Register
    BY <1>4 DEF MulDiv, Shifts
  <2> HIDE DEF o
  <2> QED BY <2>1, <2>2, <1>1 DEF FieldType
<1>5. CASE s.name \in Shifts
  <2>1. RFields(s) = [f EXCEPT !.rd = o[1], !.rt = o[2], !.shamt = o[3] % ByteSize]
    BY <1>5, SMT DEF RFields, f, MulDiv, Shifts
  <2>2. o[1] \in Register /\ o[2] \in Register /\ o[3] % ByteSize \in 0 .. ByteSize - 1
    BY <1>2, <1>5 DEF MulDiv, Shifts
  <2> HIDE DEF o
  <2> QED BY <2>1, <2>2, <1>1 DEF FieldType
<1>6. CASE s.name = "jr"
  <2>1. RFields(s) = [f EXCEPT !.rs = o[1]]
    BY <1>6, SMT DEF RFields, f, MulDiv, Shifts
  <2>2. o[1] \in Register
    BY <1>6 DEF MulDiv, Shifts
  <2> HIDE DEF o
  <2> QED BY <2>1, <2>2, <1>1 DEF FieldType
<1>7. CASE s.name \notin MulDiv \cup Shifts \cup {"syscall", "jr"}
  <2>1. RFields(s) = [f EXCEPT !.rd = o[1], !.rs = o[2], !.rt = o[3]]
    BY <1>7, SMT DEF RFields, f
  <2>2. o[1] \in Register /\ o[2] \in Register /\ o[3] \in Register
    BY <1>7
  <2> HIDE DEF o
  <2> QED BY <2>1, <2>2, <1>1 DEF FieldType
<1> QED BY <1>3, <1>4, <1>5, <1>6, <1>7

(* The fields of an instruction with an immediate.                          *)
LEMMA IFieldsType ==
  ASSUME NEW s, s.name \in DOMAIN IType,
         \/ /\ s.name \in Displaced
            /\ s.ops[1] \in Register /\ s.ops[2] \in Int /\ s.ops[3] \in Register
         \/ s.name = "lui" /\ s.ops[1] \in Register /\ s.ops[2] \in Int
         \/ /\ s.name \notin Displaced \cup {"lui"}
            /\ s.ops[1] \in Register /\ s.ops[2] \in Register /\ s.ops[3] \in Int
  PROVE  IFields(s) \in FieldType
<1> DEFINE f == [Blank EXCEPT !.opcode = IType[s.name]]
           o == s.ops
           g == IOperands(s)
<1>1. f \in FieldType
  <2>1. IType[s.name] \in 0 .. 63
    BY Numbers
  <2> QED BY <2>1, BlankType DEF FieldType
<1> HIDE DEF f
<1>2. \A x \in Int : x % ImmSize \in 0 .. ImmSize - 1
  BY Modulo
<1>3. g \in FieldType
  <2>1. CASE s.name \in Displaced
    <3>1. g = [f EXCEPT !.rt = o[1], !.addr_i = o[2] % ImmSize, !.rs = o[3]]
      BY <2>1, SMT DEF IOperands, f, Displaced
    <3>2. o[1] \in Register /\ o[2] % ImmSize \in 0 .. ImmSize - 1 /\ o[3] \in Register
      BY <1>2, <2>1 DEF Displaced
    <3> HIDE DEF o, g
    <3> QED BY <3>1, <3>2, <1>1 DEF FieldType
  <2>2. CASE s.name = "lui"
    <3>1. g = [f EXCEPT !.rt = o[1], !.addr_i = o[2] % ImmSize]
      BY <2>2, SMT DEF IOperands, f, Displaced
    <3>2. o[1] \in Register /\ o[2] % ImmSize \in 0 .. ImmSize - 1
      BY <1>2, <2>2 DEF Displaced
    <3> HIDE DEF o, g
    <3> QED BY <3>1, <3>2, <1>1 DEF FieldType
  <2>3. CASE s.name \notin Displaced \cup {"lui"}
    <3>1. g = [f EXCEPT !.rt = o[1], !.rs = o[2], !.addr_i = o[3] % ImmSize]
      BY <2>3, SMT DEF IOperands, f
    <3>2. o[1] \in Register /\ o[2] \in Register /\ o[3] % ImmSize \in 0 .. ImmSize - 1
      BY <1>2, <2>3
    <3> HIDE DEF o, g
    <3> QED BY <3>1, <3>2, <1>1 DEF FieldType
  <2> QED BY <2>1, <2>2, <2>3
<1> HIDE DEF g
<1>5. [g EXCEPT !.rs = g.rt, !.rt = g.rs] \in FieldType
  BY <1>3 DEF FieldType
<1> QED BY <1>3, <1>5 DEF IFields, g

(* The fields of a floating-point instruction.                              *)
LEMMA FFieldsType ==
  ASSUME NEW s, s.name \in DOMAIN FType, s.cop \in {0, 1},
         \/ s.ops[1] \in Register /\ s.ops[2] \in Register /\ s.ops[3] \in Register
         \/ /\ s.name \in Compares \cup {"mov."}
            /\ s.ops[1] \in Register /\ s.ops[2] \in Register
  PROVE  FFields(s) \in FieldType
<1> DEFINE f == [Blank EXCEPT !.opcode = OpFType, !.cop = s.cop, !.funct = FType[s.name]]
           o == s.ops
<1>1. f \in FieldType
  <2>1. FType[s.name] \in 0 .. FunctSize - 1
    BY Numbers DEF FunctSize
  <2>2. OpFType \in 0 .. 63 /\ s.cop \in Register
    BY DEF OpFType, Register, RegSize
  <2> QED BY <2>1, <2>2, BlankType DEF FieldType
<1> HIDE DEF f
<1>2. CASE s.name = "mov."
  <2>1. FFields(s) = [f EXCEPT !.rd = o[1], !.rt = o[2]]
    BY <1>2, SMT DEF FFields, f, Compares
  <2>2. o[1] \in Register /\ o[2] \in Register
    BY <1>2
  <2> HIDE DEF o
  <2> QED BY <2>1, <2>2, <1>1 DEF FieldType
<1>3. CASE s.name \in Compares
  <2>1. FFields(s) = [f EXCEPT !.rt = o[1], !.rs = o[2]]
    BY <1>3, SMT DEF FFields, f, Compares
  <2>2. o[1] \in Register /\ o[2] \in Register
    BY <1>3
  <2> HIDE DEF o
  <2> QED BY <2>1, <2>2, <1>1 DEF FieldType
<1>4. CASE s.name \notin Compares \cup {"mov."}
  <2>1. FFields(s) = [f EXCEPT !.rd = o[1], !.rs = o[2], !.rt = o[3]]
    BY <1>4, SMT DEF FFields, f
  <2>2. o[1] \in Register /\ o[2] \in Register /\ o[3] \in Register
    BY <1>4
  <2> HIDE DEF o
  <2> QED BY <2>1, <2>2, <1>1 DEF FieldType
<1> QED BY <1>2, <1>3, <1>4

(* The fields of a jump and of a floating-point branch.                     *)
LEMMA OtherFieldsType ==
  /\ \A s : s.name \in DOMAIN JType /\ s.ops[1] \in 0 .. 15 => JFields(s) \in FieldType
  /\ \A s : s.name \in DOMAIN FBranch /\ s.ops[1] \in Int => FBranchFields(s) \in FieldType
<1>1. ASSUME NEW s, s.name \in DOMAIN JType, s.ops[1] \in 0 .. 15 PROVE JFields(s) \in FieldType
  <2> DEFINE n == JType[s.name]
  <2>1. n \in 0 .. 63
    BY <1>1, Numbers
  <2> HIDE DEF n
  <2>2. [Blank EXCEPT !.opcode = n, !.addr_j = s.ops[1]] \in FieldType
    BY <1>1, <2>1, BlankType DEF FieldType
  <2> QED BY <2>2 DEF JFields, n
<1>2. ASSUME NEW s, s.name \in DOMAIN FBranch, s.ops[1] \in Int
      PROVE  FBranchFields(s) \in FieldType
  <2> DEFINE n == FBranch[s.name]
             i == s.ops[1] % ImmSize
  <2>1. n \in Register /\ i \in 0 .. ImmSize - 1
    BY <1>2, Numbers, Modulo DEF Register, RegSize
  <2>2. OpFType \in 0 .. 63 /\ FpBranchCop \in Register
    BY DEF OpFType, FpBranchCop, Register, RegSize
  <2> HIDE DEF n, i
  <2>3. [Blank EXCEPT !.opcode = OpFType, !.cop = FpBranchCop, !.rs = n, !.addr_i = i] \in FieldType
    BY <2>1, <2>2, BlankType DEF FieldType
  <2> QED BY <2>3 DEF FBranchFields, n, i
<1> QED BY <1>1, <1>2

(* What is put together of a line the grammar has and the tables know.      *)
Statement(l) == [name |-> l.name, cop |-> l.cop, ops |-> Operands(l)]

(* Its fields are in their ranges: the operands fit them, a shift amount is *)
(* cut to its byte, and a name that is a number is at most 15.              *)
LEMMA StatementType ==
  ASSUME NEW l \in Line, l.kind \in InstructionKind, Assembles(l), ~Ends(l),
         NEW s, s = Statement(l)
  PROVE  Fields(s) \in FieldType
<1> DEFINE d == Digits[l.label]
<1>1. /\ s.name = l.name /\ s.cop = l.cop /\ s.ops = Operands(l) /\ s.cop \in {0, 1}
      /\ Written(l) /\ (l.kind # "plain" => d \in 0 .. 15)
  BY LineAssumption, DigitsAssumption
  DEF LineAssumption, DigitsAssumption, Legal, Written, Statement, InstructionKind
<1> HIDE DEF d
<1>2. /\ l.kind = "plain" => s.ops = l.ops
      /\ l.kind # "plain" => s.ops = Append(l.ops, d)
  BY <1>1 DEF Operands, d
<1>3. /\ l.name \notin HalfWords /\ l.name \notin {"subi", "c.ne.", "c.ge.", "c.gt."}
      /\ l.kind = "absolute" => l.name \in {"j", "jal"}
      /\ l.kind = "plain" => l.name # "jalr"
  <2>1. \A n \in {"subi", "c.ne.", "c.ge.", "c.gt."} : l.name = n => FALSE
    BY OtherNames DEF Assembles
  <2> QED BY <2>1, OtherNames DEF Assembles, Ends
<1>4. CASE /\ l.kind = "plain" /\ l.name \in ThreeRegisters
           /\ l.ops \in Register \X Register \X Register
  <2>1. s.ops[1] \in Register /\ s.ops[2] \in Register /\ s.ops[3] \in Register
    BY <1>2, <1>4
  <2>2. CASE s.name \in {"add.", "sub.", "mul.", "div."}
    <3>1. Fields(s) = FFields(s)
      BY <2>2, OtherNames, SMT DEF Fields
    <3>2. s.name \in DOMAIN FType
      BY <2>2, OtherNames
    <3> QED BY <1>1, <2>1, <3>1, <3>2, FFieldsType
  <2>3. CASE s.name \notin {"add.", "sub.", "mul.", "div."}
    <3>1. s.name \in {"add", "sub", "and", "or", "xor", "nor", "slt", "sllv", "srlv", "srav"}
      BY <1>1, <1>4, <2>3 DEF ThreeRegisters
    <3>2. Fields(s) = RFields(s) /\ s.name \in DOMAIN RType /\ s.name \notin Shifts
      BY <3>1, RNames, SMT DEF Fields, Shifts
    <3> QED BY <2>1, <3>2, RFieldsType
  <2> QED BY <2>2, <2>3
<1>5. CASE l.kind = "plain" /\ l.name \in TwoRegisters /\ l.ops \in Register \X Register
  <2>1. s.ops[1] \in Register /\ s.ops[2] \in Register
    BY <1>2, <1>5
  <2>2. CASE s.name \in MulDiv
    <3>1. Fields(s) = RFields(s) /\ s.name \in DOMAIN RType
      BY <2>2, RNames, SMT DEF Fields, MulDiv
    <3> QED BY <2>1, <2>2, <3>1, RFieldsType
  <2>3. CASE s.name \notin MulDiv
    <3>1. s.name \in Compares \cup {"mov."}
      BY <1>1, <1>3, <1>5, <2>3 DEF TwoRegisters
    <3>2. Fields(s) = FFields(s) /\ s.name \in DOMAIN FType
      BY <3>1, OtherNames, SMT DEF Fields
    <3> QED BY <1>1, <2>1, <3>1, <3>2, FFieldsType
  <2> QED BY <2>2, <2>3
<1>6. CASE \/ l.kind = "plain" /\ l.name \in Immediates /\ l.ops \in Register \X Register \X Int
           \/ l.kind = "relative" /\ l.name \in Immediates /\ l.ops \in Register \X Register
  <2>1. s.ops[1] \in Register /\ s.ops[2] \in Register /\ s.ops[3] \in Int
    <3>1. CASE l.kind = "plain"
      BY <1>2, <1>6, <3>1
    <3>2. CASE l.kind = "relative"
      <4>1. PICK x \in Register, y \in Register : l.ops = <<x, y>>
        BY <1>6, <3>2
      <4>2. s.ops = <<x, y, d>> /\ d \in Int
        BY <1>1, <1>2, <3>2, <4>1
      <4> QED BY <4>2
    <3> QED BY <1>6, <3>1, <3>2
  <2>2. s.name \in {"addi", "andi", "ori", "xori", "bne", "beq"}
    BY <1>1, <1>3, <1>6 DEF Immediates
  <2>3. Fields(s) = IFields(s) /\ s.name \in DOMAIN IType /\ s.name \notin Displaced \cup {"lui"}
    BY <2>2, INames, SMT DEF Fields, Displaced
  <2> QED BY <2>1, <2>3, IFieldsType
<1>7. CASE l.kind = "plain" /\ l.name \in Shifts /\ l.ops \in Register \X Register \X Int
  <2>1. s.ops[1] \in Register /\ s.ops[2] \in Register /\ s.ops[3] \in Int
    BY <1>2, <1>7
  <2>2. Fields(s) = RFields(s) /\ s.name \in DOMAIN RType /\ s.name \in Shifts
    BY <1>1, <1>7, RNames, SMT DEF Fields, Shifts
  <2> QED BY <2>1, <2>2, RFieldsType
<1>8. CASE l.kind = "plain" /\ l.name = "lui" /\ l.ops \in Register \X Int
  <2>1. s.ops[1] \in Register /\ s.ops[2] \in Int
    BY <1>2, <1>8
  <2>2. Fields(s) = IFields(s) /\ s.name \in DOMAIN IType /\ s.name = "lui"
    BY <1>1, <1>8, INames, SMT DEF Fields
  <2> QED BY <2>1, <2>2, IFieldsType
<1>9. CASE /\ l.kind = "plain" /\ l.name \in Displaced \cup HalfWords
           /\ l.ops \in Register \X Int \X Register
  <2>1. s.ops[1] \in Register /\ s.ops[2] \in Int /\ s.ops[3] \in Register
    BY <1>2, <1>9
  <2>3. s.name \in Displaced
    BY <1>1, <1>3, <1>9
  <2>2. Fields(s) = IFields(s) /\ s.name \in DOMAIN IType /\ s.name \in Displaced
    <3>1. /\ s.name \in DOMAIN IType /\ s.name \notin DOMAIN JType /\ s.name \notin DOMAIN RType
          /\ s.name \notin DOMAIN FType /\ s.name \notin DOMAIN FBranch
      BY <2>3, INames, Zenon
    <3>2. s.name # "nop"
      BY <2>3 DEF Displaced
    <3> QED BY <2>3, <3>1, <3>2, SMT DEF Fields
  <2> QED BY <2>1, <2>2, IFieldsType
<1>10. CASE l.kind = "plain" /\ l.name \in {"jr", "jalr"} /\ l.ops \in { <<r>> : r \in Register }
  <2>1. s.ops[1] \in Register
    BY <1>2, <1>10
  <2>2. Fields(s) = RFields(s) /\ s.name \in DOMAIN RType /\ s.name = "jr"
    BY <1>1, <1>3, <1>10, RNames, SMT DEF Fields
  <2> QED BY <2>1, <2>2, RFieldsType
<1>11. CASE \/ l.kind = "plain" /\ l.name \in {"j", "jal"} /\ l.ops \in {<<0>>}
            \/ l.kind = "absolute" /\ l.name \in Jumps /\ l.ops \in {<< >>}
  <2>1. s.ops[1] \in 0 .. 15
    <3>1. CASE l.kind = "plain"
      BY <1>2, <1>11, <3>1
    <3>2. CASE l.kind = "absolute"
      <4>1. s.ops = <<d>> /\ d \in 0 .. 15
        BY <1>1, <1>2, <1>11, <3>2
      <4> QED BY <4>1
    <3> QED BY <1>11, <3>1, <3>2
  <2>2. Fields(s) = JFields(s) /\ s.name \in DOMAIN JType
    BY <1>1, <1>3, <1>11, OtherNames, SMT DEF Fields
  <2> QED BY <2>1, <2>2, OtherFieldsType
<1>12. CASE l.kind = "relative" /\ l.name \in DOMAIN FBranch /\ l.ops \in {<< >>}
  <2>1. s.ops[1] \in Int
    <3>1. s.ops = <<d>> /\ d \in Int
      BY <1>1, <1>2, <1>12
    <3> QED BY <3>1
  <2>2. Fields(s) = FBranchFields(s) /\ s.name \in DOMAIN FBranch
    BY <1>1, <1>12, OtherNames, SMT DEF Fields
  <2> QED BY <2>1, <2>2, OtherFieldsType
<1>13. CASE l.kind = "plain" /\ l.name \in {"syscall", "nop"} /\ l.ops \in {<< >>}
  <2>1. CASE s.name = "syscall"
    <3>1. Fields(s) = RFields(s) /\ s.name \in DOMAIN RType
      BY <2>1, RNames, SMT DEF Fields
    <3> QED BY <2>1, <3>1, RFieldsType
  <2>2. CASE s.name = "nop"
    <3>1. Fields(s) = Blank
      BY <2>2, OtherNames, SMT DEF Fields
    <3> QED BY <3>1, BlankType
  <2> QED BY <1>1, <1>13, <2>1, <2>2
<1> QED
  BY <1>1, <1>4, <1>5, <1>6, <1>7, <1>8, <1>9, <1>10, <1>11, <1>12, <1>13, Zenon DEF Written

-----------------------------------------------------------------------------
(* The types of the tables, and how many lines and words there may be: a    *)
(* call parses its own lines and those the scanner has kept, and a line is  *)
(* at most two words.                                                       *)
Names == { l.label : l \in Line }
Items == { l \in Line : l.kind = "item" /\ ~Ends(l) }
SectionOf(l, position) ==
  [label |-> l.label, type |-> l.type, position |-> position, length |-> Length(l),
   values |-> l.values]

EntryType ==
  [word : [opcode : 0 .. 63, rest : Rest26], line : Addr,
   kind : InstructionKind \cup {"high", "low"}, label : Names]
LabelType == [name : Names, line : Addr]
SectionType == { SectionOf(l, p) : l \in Items, p \in Addr }

(* What the scanner has read and what the parser has of it.                 *)
ScannerInv ==
  /\ read \in 0 .. MaxLines
  /\ parsed \in Seq(Line) /\ buffer \in Seq(Line)
  /\ Len(buffer) <= MaxLines /\ Len(parsed) <= 2 * MaxLines
  /\ phase = "parse" => Len(parsed) + Len(buffer) <= MaxLines + read

(* The tables the parser fills.  A word is numbered by its place.           *)
TablesInv ==
  /\ labels \in Seq(LabelType) /\ instructions \in Seq(EntryType)
  /\ memsections \in Seq(SectionType) /\ mem_pos \in Addr
  /\ Len(instructions) <= 2 * Len(parsed) /\ line = Len(instructions)

(* The data that is in memory ends where the next is to be written.         *)
DataEnd == Start["data"] + Size["data"]
BlocksInv ==
  /\ m = [locked |-> m.locked, blocks |-> m.blocks, content |-> m.content, snap |-> m.snap]
  /\ m.content = [r \in Region |-> m.content[r]]
  /\ m.blocks \in Seq(Block)
  /\ phase \in {"parse", "resolve"} => m.blocks = << >>
  /\ phase = "setup" => /\ next_address \in DataEnds(m)
                        /\ \A e \in DataEnds(m) : e <= next_address
                        /\ Start["data"] <= next_address /\ next_address <= DataEnd
  /\ next_address \in Addr

(* The invariant of the assembler.                                          *)
AssemblerInv == /\ phase \in Phase /\ next \in Nat \ {0}
                /\ ScannerInv /\ TablesInv /\ BlocksInv

-----------------------------------------------------------------------------
(* What the assumptions say of the layout: no address and no number of a    *)
(* word leaves 32 bits.                                                     *)
LEMMA Bounds ==
  /\ AddrSize \in Nat \ {0} /\ WordBytes \in Nat \ {0} /\ MaxLines \in Nat
  /\ 4 * MaxLines + 2 < AddrSize
  /\ Start["data"] \in Addr /\ Size["data"] \in Addr /\ DataEnd < AddrSize
  /\ Start["stack"] \in Addr /\ Size["stack"] \in Addr
  /\ Start["text"] \in Addr /\ Size["text"] \in Addr /\ Start["text"] + Size["text"] < AddrSize
<1>1. AddrSize \in Nat \ {0} /\ WordBytes \in Nat \ {0} /\ MaxLines \in Nat
  BY AddrAssumption, TextAssumption DEF AddrAssumption, TextAssumption
<1>2. 4 * MaxLines + 2 < AddrSize
  <2> DEFINE n == 4 * MaxLines + 2
  <2>1. n \in Nat /\ n * WordBytes < AddrSize
    <3>1. Start["text"] + n * WordBytes < AddrSize
      BY TextAssumption DEF TextAssumption
    <3>2. Start["text"] \in Nat
      BY RegionAssumption DEF RegionAssumption, Addr
    <3>3. n \in Nat /\ n * WordBytes \in Nat
      BY <1>1
    <3> HIDE DEF n
    <3> QED BY <1>1, <3>1, <3>2, <3>3
  <2> HIDE DEF n
  <2>2. n <= n * WordBytes
    BY <1>1, <2>1
  <2> QED BY <1>1, <2>1, <2>2 DEF n
<1>3. \A r \in Region : Start[r] \in Addr /\ Size[r] \in Addr /\ Start[r] + Size[r] < AddrSize
  BY RegionAssumption DEF RegionAssumption
<1>4. {"text", "data", "stack"} \subseteq Region
  BY RegionAssumption DEF RegionAssumption
<1> QED BY <1>1, <1>2, <1>3, <1>4 DEF DataEnd

(* What wraps is an address.                                                *)
LEMMA WrapType == \A x \in Int : Wrap(x) \in Addr
BY Bounds DEF Wrap, Addr

(* An address does not wrap.                                                *)
LEMMA WrapSame == \A x \in Addr : Wrap(x) = x
BY Bounds DEF Wrap, Addr

(* A line of a file has a kind, and its operands are those of its kind.     *)
LEMMA LineType ==
  ASSUME NEW l \in Line
  PROVE  l.kind \in Kind /\ Legal(l) /\ l.label \in Names
BY LineAssumption DEF LineAssumption, Legal, Names

(* A line that is parsed is one of a file.                                  *)
LEMMA LinesAreLines == ASSUME ScannerInv, NEW l \in Lines PROVE l \in Line
<1>1. CASE buffer # << >>
  BY <1>1 DEF Lines, ScannerInv
<1>2. CASE buffer = << >>
  <2>1. read + 1 \in 1 .. MaxLines /\ l \in LineAt[read + 1]
    BY <1>2, Bounds DEF Lines, ScannerInv
  <2> QED BY <2>1 DEF Line
<1> QED BY <1>1, <1>2

(* A line that is parsed joins those before it, within the bound on lines.  *)
LEMMA ConsumeType ==
  ASSUME ScannerInv, phase = "parse", NEW l \in Lines, Consumes(l)
  PROVE  ScannerInv' /\ parsed' = Append(parsed, l) /\ Len(parsed') = Len(parsed) + 1
<1>1. l \in Line /\ parsed \in Seq(Line) /\ parsed' = Append(parsed, l) /\ phase' = phase
  BY LinesAreLines DEF Consumes, ScannerInv
<1>2. parsed' \in Seq(Line) /\ Len(parsed') = Len(parsed) + 1
  BY <1>1
<1>3. CASE buffer # << >>
  <2>1. buffer' = Tail(buffer) /\ read' = read
    BY <1>3 DEF Consumes
  <2>2. buffer' \in Seq(Line) /\ Len(buffer') = Len(buffer) - 1 /\ Len(buffer) \in Nat
    BY <1>3, <2>1 DEF ScannerInv
  <2> QED BY <1>1, <1>2, <2>1, <2>2, Bounds DEF ScannerInv
<1>4. CASE buffer = << >>
  <2>1. buffer' = buffer /\ read' = read + 1 /\ read < MaxLines
    BY <1>4 DEF Consumes, Lines
  <2>2. Len(buffer) = 0
    BY <1>4
  <2> QED BY <1>1, <1>2, <2>1, <2>2, Bounds DEF ScannerInv
<1> QED BY <1>1, <1>2, <1>3, <1>4

(* Every action leaves the types, the bounds and the end of the data.       *)
LEMMA InitInv == ASSUME Init PROVE AssemblerInv
<1>1. ScannerInv
  BY Bounds DEF Init, ScannerInv
<1>2. TablesInv
  BY Bounds DEF Init, TablesInv, Addr
<1>3. BlocksInv
  <2>1. /\ New = [locked |-> FALSE,
                  blocks |-> << [start |-> Start["stack"], size |-> Size["stack"]] >>,
                  content |-> [r \in Region |-> Zero], snap |-> [r \in Region |-> NoSnapshot]]
    <3> DEFINE b == [start |-> Start["stack"], size |-> Size["stack"]]
    <3>1. New = [Empty EXCEPT !.blocks = Append(@, b)]
      BY DEF New, AllocateAt, Push
    <3> HIDE DEF b
    <3>2. Append(<< >>, b) = << b >>
      OBVIOUS
    <3>3. New = [Empty EXCEPT !.blocks = << b >>]
      BY <3>1, <3>2 DEF Empty
    <3> QED BY <3>3 DEF Empty, b
  <2>2. [start |-> Start["stack"], size |-> Size["stack"]] \in Block
    BY Bounds DEF Block
  <2> QED BY <2>1, <2>2, Bounds DEF Init, BlocksInv, Addr
<1> QED BY <1>1, <1>2, <1>3 DEF Init, AssemblerInv, Phase, Returned

(* A call of load_program starts with empty tables and memory.              *)
LEMMA BeginInv == ASSUME AssemblerInv, Begin PROVE AssemblerInv'
<1>1. ScannerInv'
  BY Bounds DEF AssemblerInv, ScannerInv, Begin
<1>2. TablesInv'
  BY Bounds DEF Begin, TablesInv, Addr
<1>3. BlocksInv'
  <2>1. m' = [locked |-> m.locked, blocks |-> << >>,
              content |-> [r \in Region |-> Zero], snap |-> [r \in Region |-> NoSnapshot]]
    BY DEF Begin, Cleared, Empty
  <2> QED BY <2>1, Bounds DEF Begin, BlocksInv, Addr
<1> QED BY <1>1, <1>2, <1>3 DEF Begin, AssemblerInv, Phase, Returned

(* A step of the parser touches no memory.                                  *)
LEMMA ParserKeeps ==
  ASSUME AssemblerInv, phase = "parse", NEW l \in Lines, Consumes(l)
  PROVE  /\ ScannerInv' /\ BlocksInv' /\ phase' \in Phase /\ next' \in Nat \ {0}
         /\ Len(parsed') = Len(parsed) + 1 /\ Len(parsed) \in Nat
         /\ Len(instructions) <= 2 * Len(parsed) /\ Len(instructions) \in Nat
         /\ l \in Line
         /\ line \in Addr /\ line = Len(instructions) /\ line + 1 \in Addr /\ line + 2 \in Addr
<1>1. ScannerInv' /\ Len(parsed') = Len(parsed) + 1
  BY ConsumeType DEF AssemblerInv
<1>2. m' = m /\ phase' = phase /\ next' = next /\ next_address' = next_address
  BY DEF Consumes
<1>3. Len(parsed) \in Nat /\ Len(instructions) \in Nat
  BY DEF AssemblerInv, ScannerInv, TablesInv
<1>4. Len(parsed') <= 2 * MaxLines
  BY <1>1 DEF ScannerInv
<1>5. BlocksInv'
  BY <1>2, Zenon DEF AssemblerInv, BlocksInv, DataEnds
<1>6. line = Len(instructions) /\ Len(instructions) <= 2 * Len(parsed)
  BY DEF AssemblerInv, TablesInv
<1>7. line \in Addr /\ line + 1 \in Addr /\ line + 2 \in Addr
  BY <1>1, <1>3, <1>4, <1>6, Bounds DEF Addr
<1> QED
  BY <1>1, <1>2, <1>3, <1>5, <1>6, <1>7, LinesAreLines DEF AssemblerInv

(* A directive changes no table.                                            *)
LEMMA DirectiveInv == ASSUME AssemblerInv, NEW l \in Lines, Directive(l) PROVE AssemblerInv'
<1>1. phase = "parse" /\ Consumes(l) /\ UNCHANGED tables
  BY DEF Directive, Parses
<1>2. TablesInv'
  BY <1>1, ParserKeeps DEF AssemblerInv, TablesInv, tables
<1> QED BY <1>1, <1>2, ParserKeeps DEF AssemblerInv

(* The entry of an instruction, and those of la.                            *)
LEMMA EntryIs ==
  ASSUME NEW s, Fields(s) \in FieldType, NEW at \in Addr, NEW label \in Names,
         NEW kind \in InstructionKind \cup {"high", "low"},
         s = [name |-> s.name, cop |-> s.cop, ops |-> s.ops]
  PROVE  Entry(s.name, s.cop, s.ops, at, kind, label) \in EntryType
<1>1. Assemble(s).rest \in Rest26 /\ Assemble(s).opcode = Fields(s).opcode
  BY EncodeRange, Zenon DEF Assemble, Encode
<1>2. Assemble(s) = [opcode |-> Assemble(s).opcode, rest |-> Assemble(s).rest]
  BY DEF Assemble, Encode
<1>3. Fields(s).opcode \in 0 .. 63
  BY DEF FieldType
<1>4. Entry(s.name, s.cop, s.ops, at, kind, label)
        = [word |-> Assemble(s), line |-> at, kind |-> kind, label |-> label]
  BY Zenon DEF Entry
<1> HIDE DEF Rest26
<1>5. Assemble(s) \in [opcode : 0 .. 63, rest : Rest26]
  BY <1>1, <1>2, <1>3
<1> DEFINE w == Assemble(s)
           e == Entry(s.name, s.cop, s.ops, at, kind, label)
<1>6. e = [word |-> w, line |-> at, kind |-> kind, label |-> label]
  BY <1>4
<1> HIDE DEF w, e
<1>7. w \in [opcode : 0 .. 63, rest : Rest26]
  BY <1>5 DEF w
<1>8. e \in EntryType
  BY <1>6, <1>7 DEF EntryType
<1> QED BY <1>8 DEF e

(* The entry of an instruction: a word of 32 bits, and what it names.       *)
LEMMA EntryOf ==
  ASSUME NEW l \in Line, l.kind \in InstructionKind, Assembles(l), ~Ends(l), NEW at \in Addr
  PROVE  Entry(l.name, l.cop, Operands(l), at, l.kind, l.label) \in EntryType
<1> DEFINE s == Statement(l)
           e == Entry(l.name, l.cop, Operands(l), at, l.kind, l.label)
<1>1. Fields(s) \in FieldType /\ l.label \in Names
  BY StatementType, LineType
<1>2. s = [name |-> s.name, cop |-> s.cop, ops |-> s.ops]
  BY DEF Statement
<1>3. e = Entry(s.name, s.cop, s.ops, at, l.kind, l.label)
  BY DEF Statement
<1> HIDE DEF s, e
<1>4. e \in EntryType
  BY <1>1, <1>2, <1>3, EntryIs
<1> QED BY <1>4 DEF e

(* The two entries of a load of an address.                                 *)
LEMMA AddressEntries ==
  ASSUME NEW l \in Line, l.kind = "la", NEW at \in Addr, NEW behind \in Addr
  PROVE  /\ Entry("lui", 0, <<l.ops[1], 0>>, at, "high", l.label) \in EntryType
         /\ Entry("ori", 0, <<l.ops[1], l.ops[1], 0>>, behind, "low", l.label) \in EntryType
<1> DEFINE h == [name |-> "lui", cop |-> 0, ops |-> <<l.ops[1], 0>>]
           o == [name |-> "ori", cop |-> 0, ops |-> <<l.ops[1], l.ops[1], 0>>]
<1>4. l.ops[1] \in Register /\ l.label \in Names
  BY LineAssumption, LineType DEF LineAssumption, Legal
<1>5. Fields(h) \in FieldType
  <2>1. h.ops[1] \in Register /\ h.ops[2] \in Int /\ h.name = "lui"
    BY <1>4
  <2> HIDE DEF h
  <2>2. Fields(h) = IFields(h) /\ h.name \in DOMAIN IType
    BY <2>1, INames, SMT DEF Fields
  <2> QED BY <2>1, <2>2, IFieldsType
<1>6. Fields(o) \in FieldType
  <2>1. o.ops[1] \in Register /\ o.ops[2] \in Register /\ o.ops[3] \in Int /\ o.name = "ori"
    BY <1>4
  <2> HIDE DEF o
  <2>2. Fields(o) = IFields(o) /\ o.name \in DOMAIN IType /\ o.name \notin Displaced \cup {"lui"}
    BY <2>1, INames, SMT DEF Fields, Displaced
  <2> QED BY <2>1, <2>2, IFieldsType
<1>7. /\ Entry(h.name, h.cop, h.ops, at, "high", l.label) \in EntryType
      /\ Entry(o.name, o.cop, o.ops, behind, "low", l.label) \in EntryType
  <2>1. /\ h = [name |-> h.name, cop |-> h.cop, ops |-> h.ops]
        /\ o = [name |-> o.name, cop |-> o.cop, ops |-> o.ops]
    OBVIOUS
  <2> HIDE DEF h, o
  <2> QED BY <1>4, <1>5, <1>6, <2>1, EntryIs
<1> QED BY <1>7

(* An instruction adds a word.                                              *)
LEMMA InstructionInv ==
  ASSUME AssemblerInv, NEW l \in Lines, Instruction(l)
  PROVE  AssemblerInv'
<1> DEFINE e == Entry(l.name, l.cop, Operands(l), line, l.kind, l.label)
<1>1. /\ phase = "parse" /\ Consumes(l) /\ l.kind \in InstructionKind
      /\ Assembles(l) /\ ~Ends(l)
      /\ instructions' = Append(instructions, e) /\ line' = Wrap(line + 1)
      /\ UNCHANGED <<labels, memsections, mem_pos>>
  BY DEF Instruction, Parses, AddsLine
<1>2. l \in Line /\ l.label \in Names
  BY <1>1, ParserKeeps, LineType
<1>3. line \in Addr /\ line = Len(instructions) /\ Wrap(line + 1) = line + 1
  BY <1>1, ParserKeeps, WrapSame
<1>4. e \in EntryType
  BY <1>1, <1>2, <1>3, EntryOf
<1> HIDE DEF e
<1>5. TablesInv'
  <2>1. instructions' \in Seq(EntryType) /\ Len(instructions') = Len(instructions) + 1
    BY <1>1, <1>4 DEF AssemblerInv, TablesInv
  <2>2. labels' \in Seq(LabelType) /\ memsections' \in Seq(SectionType) /\ mem_pos' \in Addr
    BY <1>1 DEF AssemblerInv, TablesInv
  <2> QED BY <1>1, <1>3, <2>1, <2>2, ParserKeeps DEF TablesInv
<1> QED BY <1>1, <1>5, ParserKeeps DEF AssemblerInv

(* A load of an address adds two.                                           *)
LEMMA LoadAddressInv ==
  ASSUME AssemblerInv, NEW l \in Lines, LoadAddress(l)
  PROVE  AssemblerInv'
<1> DEFINE lui == Entry("lui", 0, <<l.ops[1], 0>>, line, "high", l.label)
           ori == Entry("ori", 0, <<l.ops[1], l.ops[1], 0>>, Wrap(line + 1), "low", l.label)
<1>1. /\ phase = "parse" /\ Consumes(l) /\ l.kind = "la"
      /\ instructions' = instructions \o <<lui, ori>> /\ line' = Wrap(line + 2)
      /\ UNCHANGED <<labels, memsections, mem_pos>>
  BY DEF LoadAddress, Parses, AddsLine, LaLines
<1>2. l \in Line /\ l.label \in Names
  BY <1>1, ParserKeeps, LineType
<1>3. /\ line \in Addr /\ line = Len(instructions)
      /\ Wrap(line + 2) = line + 2 /\ Wrap(line + 1) \in Addr
  BY <1>1, ParserKeeps, WrapSame
<1>7. lui \in EntryType /\ ori \in EntryType
  BY <1>1, <1>2, <1>3, AddressEntries
<1> HIDE DEF lui, ori
<1>8. TablesInv'
  <2>1. instructions' \in Seq(EntryType) /\ Len(instructions') = Len(instructions) + 2
    BY <1>1, <1>7 DEF AssemblerInv, TablesInv
  <2>2. labels' \in Seq(LabelType) /\ memsections' \in Seq(SectionType) /\ mem_pos' \in Addr
    BY <1>1 DEF AssemblerInv, TablesInv
  <2> QED BY <1>1, <1>3, <2>1, <2>2, ParserKeeps DEF TablesInv
<1> QED BY <1>1, <1>8, ParserKeeps DEF AssemblerInv

(* A tag counts the line it has taken back.                                 *)
LEMMA LineOfTagIs == ASSUME line \in Addr PROVE LineOfTag = line
<1>1. CASE line = 0
  <2>1. Wrap(line - 1) = AddrSize - 1
    BY <1>1, Bounds DEF Wrap
  <2> QED BY <1>1, <2>1, Bounds DEF Wrap, LineOfTag
<1>2. CASE line # 0
  <2>1. line - 1 \in Addr
    BY <1>2, Bounds DEF Addr
  <2>2. Wrap(line - 1) = line - 1
    BY <2>1, WrapSame
  <2> QED BY <2>2, WrapSame DEF LineOfTag, Addr
<1> QED BY <1>1, <1>2

(* A label is added, with the number of the word behind it.                 *)
LEMMA TagInv == ASSUME AssemblerInv, NEW l \in Lines, Tag(l) PROVE AssemblerInv'
<1>1. /\ phase = "parse" /\ Consumes(l)
      /\ labels' = Append(labels, [name |-> l.label, line |-> line])
      /\ line' = LineOfTag
      /\ UNCHANGED <<instructions, memsections, mem_pos>>
  BY DEF Tag, Parses, AddsLine
<1>2. l \in Line /\ l.label \in Names
  BY <1>1, ParserKeeps, LineType
<1>3. line \in Addr /\ line' = line
  BY <1>1, ParserKeeps, LineOfTagIs
<1>4. labels' \in Seq(LabelType)
  BY <1>1, <1>2, <1>3 DEF AssemblerInv, TablesInv, LabelType
<1>5. TablesInv'
  BY <1>1, <1>3, <1>4, ParserKeeps DEF AssemblerInv, TablesInv
<1> QED BY <1>1, <1>5, ParserKeeps DEF AssemblerInv

(* As many numbers leave the grammar as were written.                       *)
LEMMA UnsignedLength ==
  ASSUME NEW values \in Seq(Int)
  PROVE  Unsigned(values) \in Seq(Int) /\ Len(Unsigned(values)) = Len(values)
<1>1. \A x \in Int : Wrap(x) \in Int
  BY Bounds DEF Wrap
<1>2. DOMAIN values = 1 .. Len(values) /\ Len(values) \in Nat
  OBVIOUS
<1>3. \A k \in 1 .. Len(values) :
        (IF values[k] < 0 THEN Wrap(values[k]) ELSE values[k]) \in Int
  BY <1>1
<1> QED BY <1>2, <1>3 DEF Unsigned

(* The length of an item is that of its image, padded for a string; and an  *)
(* item that starts in the region of data ends before the addresses do.     *)
LEMMA ItemLength ==
  ASSUME NEW l \in Items
  PROVE  /\ Length(l) \in Nat /\ DataEnd + Length(l) < AddrSize
         /\ \A at \in Int, p \in Addr : Behind(at, SectionOf(l, p)) = at + Length(l)
<1>1. /\ l \in Line /\ l.kind = "item" /\ ~Ends(l) /\ l.type \in DataType
      /\ l.values \in Seq(IF l.type = "asciiz" THEN Seq(Int) ELSE Int)
      /\ Start["data"] + Size["data"] + Length(l) < AddrSize
  BY LineAssumption, Zenon DEF LineAssumption, Legal, Items
<1>2. WordBytes \in Nat \ {0}
  BY Bounds
<1>3. ASSUME NEW at \in Int, NEW p \in Addr
      PROVE  Length(l) \in Nat /\ Behind(at, SectionOf(l, p)) = at + Length(l)
  <2> DEFINE sec == SectionOf(l, p)
  <2>1. sec.type = l.type /\ sec.values = l.values /\ sec.length = Length(l)
    BY DEF SectionOf
  <2> HIDE DEF sec
  <2>2. CASE l.type \in {"word", "float"}
    <3>1. l.values \in Seq(Int) /\ Len(l.values) \in Nat
      BY <1>1, <2>2
    <3>2. Length(l) = Len(l.values) * WordBytes
      BY <2>2 DEF Length
    <3>3. Length(l) \in Nat
      BY <1>2, <3>1, <3>2
    <3>4. Image(sec) = Spread(Unsigned(l.values), WordBytes)
      BY <2>1, <2>2 DEF Image
    <3>5. Len(Image(sec)) = Len(l.values) * WordBytes
      BY <3>1, <3>2, <3>3, <3>4, UnsignedLength DEF Spread
    <3>6. Behind(at, sec) = at + Len(Image(sec))
      BY <2>1, <2>2 DEF Behind
    <3> QED BY <3>2, <3>3, <3>5, <3>6 DEF sec
  <2>3. CASE l.type = "double"
    <3>1. l.values \in Seq(Int) /\ Len(l.values) \in Nat
      BY <1>1, <2>3
    <3>2. Length(l) = Len(l.values) * 2 * WordBytes
      BY <2>3 DEF Length
    <3>3. Length(l) \in Nat /\ Length(l) = Len(l.values) * (2 * WordBytes)
      <4> DEFINE n == Len(l.values)
      <4> HIDE DEF n
      <4>1. n \in Nat /\ Length(l) = n * 2 * WordBytes
        BY <3>1, <3>2 DEF n
      <4>2. n * 2 * WordBytes = n * (2 * WordBytes) /\ n * 2 * WordBytes \in Nat
        BY <1>2, <4>1
      <4> QED BY <4>1, <4>2 DEF n
    <3>4. Image(sec) = Spread(Unsigned(l.values), 2 * WordBytes)
      BY <2>1, <2>3 DEF Image
    <3>5. Len(Image(sec)) = Len(l.values) * (2 * WordBytes)
      BY <3>1, <3>3, <3>4, UnsignedLength DEF Spread
    <3>6. Behind(at, sec) = at + Len(Image(sec))
      BY <2>1, <2>3 DEF Behind
    <3> QED BY <3>3, <3>5, <3>6 DEF sec
  <2>4. CASE l.type = "asciiz"
    <3>1. l.values \in Seq(Seq(Int)) /\ Len(l.values) = 1
      BY <1>1, <2>4 DEF Ends
    <3>2. l.values[1] \in Seq(Int) /\ Len(l.values[1]) \in Nat
      BY <3>1
    <3>3. Length(l) = Align4(Len(l.values[1]))
      BY <2>4 DEF Length
    <3>4. Length(l) \in Nat
      <4> DEFINE n == Len(l.values[1])
      <4>1. n \in Nat /\ -n \in Int
        BY <3>2
      <4> HIDE DEF n
      <4>2. (-n) % WordBytes \in Nat
        BY <1>2, <4>1
      <4>3. Length(l) = n + ((-n) % WordBytes)
        BY <3>3 DEF Align4, n
      <4> QED BY <4>1, <4>2, <4>3
    <3>5. Behind(at, sec) = at + sec.length
      BY <2>1, <2>4 DEF Behind
    <3> QED BY <2>1, <3>4, <3>5 DEF sec
  <2>5. CASE l.type = "space"
    <3>1. l.values \in Seq(Int) /\ Len(l.values) = 1 /\ ~(l.values[1] < 0)
      BY <1>1, <2>5 DEF Ends
    <3>2. l.values[1] \in Nat
      BY <3>1
    <3>3. Length(l) = l.values[1]
      BY <2>5 DEF Length
    <3>4. Behind(at, sec) = at + sec.values[1]
      BY <2>1, <2>5 DEF Behind
    <3> QED BY <2>1, <3>2, <3>3, <3>4 DEF sec
  <2> QED BY <1>1, <2>2, <2>3, <2>4, <2>5 DEF DataType
<1>4. 0 \in Addr
  BY Bounds DEF Addr
<1>5. Length(l) \in Nat
  BY <1>3, <1>4
<1> HIDE DEF Length, DataEnd
<1>6. DataEnd + Length(l) < AddrSize
  BY <1>1 DEF DataEnd
<1> QED BY <1>3, <1>5, <1>6

(* A datum adds a section, and moves the place of the next.                 *)
LEMMA ItemInv == ASSUME AssemblerInv, NEW l \in Lines, Item(l) PROVE AssemblerInv'
<1>1. /\ phase = "parse" /\ Consumes(l) /\ l.kind = "item" /\ ~Ends(l)
      /\ memsections' = Append(memsections, SectionOf(l, mem_pos))
      /\ mem_pos' = Wrap(mem_pos + Length(l))
      /\ UNCHANGED <<labels, instructions, line>>
  BY DEF Item, Parses, AddsLine, SectionOf
<1>2. l \in Line /\ l \in Items
  BY <1>1, ParserKeeps DEF Items
<1>3. mem_pos \in Addr /\ mem_pos \in Int
  BY DEF AssemblerInv, TablesInv, Addr
<1>4. SectionOf(l, mem_pos) \in SectionType
  BY <1>2, <1>3 DEF SectionType
<1>5. mem_pos' \in Addr
  BY <1>1, <1>2, <1>3, ItemLength, WrapType
<1>6. memsections' \in Seq(SectionType)
  BY <1>1, <1>4 DEF AssemblerInv, TablesInv
<1>7. TablesInv'
  BY <1>1, <1>5, <1>6, ParserKeeps DEF AssemblerInv, TablesInv
<1> QED BY <1>1, <1>7, ParserKeeps DEF AssemblerInv

(* The ways out of the parser.                                              *)
LEMMA Outside ==
  ASSUME AssemblerInv, UNCHANGED <<m, tables, read, next_address, parsed>>,
         phase' \in Phase \ {"parse", "setup"}, phase' = "resolve" => phase = "parse",
         next' \in Nat \ {0}, buffer' \in Seq(Line), Len(buffer') <= MaxLines
  PROVE  AssemblerInv'
<1>1. /\ m' = m /\ labels' = labels /\ instructions' = instructions
      /\ memsections' = memsections /\ line' = line /\ mem_pos' = mem_pos
      /\ read' = read /\ parsed' = parsed /\ next_address' = next_address
  BY DEF tables
<1>2. ScannerInv'
  BY <1>1 DEF AssemblerInv, ScannerInv
<1>3. TablesInv'
  BY <1>1 DEF AssemblerInv, TablesInv
<1>4. BlocksInv'
  BY <1>1, Zenon DEF AssemblerInv, BlocksInv
<1> QED BY <1>2, <1>3, <1>4 DEF AssemblerInv

(* Whatever the scanner keeps of its buffer is lines of a file.             *)
LEMMA KeptBuffer ==
  ASSUME AssemblerInv
  PROVE  /\ buffer \in Seq(Line) /\ Len(buffer) <= MaxLines
         /\ buffer # << >> => Tail(buffer) \in Seq(Line) /\ Len(Tail(buffer)) <= MaxLines
         /\ << >> \in Seq(Line) /\ Len(<< >>) <= MaxLines
         /\ \A r \in Rest : r \in Seq(Line) /\ Len(r) <= MaxLines
<1>1. buffer \in Seq(Line) /\ Len(buffer) <= MaxLines
  BY DEF AssemblerInv, ScannerInv
<1>2. buffer # << >> => Tail(buffer) \in Seq(Line) /\ Len(Tail(buffer)) = Len(buffer) - 1
  BY <1>1
<1> QED BY <1>1, <1>2, Bounds, RestAssumption DEF RestAssumption

(* A call that stops, or comes to the end of the file, leaves tables of the *)
(* right types.                                                             *)
LEMMA LeavingInv ==
  ASSUME AssemblerInv, NEW l,
         Refused(l) \/ ParserEnds(l) \/ SyntaxError(l) \/ Incomplete \/ EndOfFile
  PROVE  AssemblerInv'
<1>1. next \in Nat \ {0}
  BY DEF AssemblerInv
<1>2. CASE Refused(l)
  <2>1. UNCHANGED <<m, tables, read, next_address, parsed>> /\ next' = next /\ phase' = "threw"
    BY <1>2 DEF Refused
  <2>2. buffer' \in Seq(Line) /\ Len(buffer') <= MaxLines
    BY <1>2, KeptBuffer DEF Refused
  <2> QED BY <1>1, <2>1, <2>2, Outside DEF Phase, Returned
<1>3. CASE ParserEnds(l)
  <2>1. /\ UNCHANGED <<m, tables, read, next_address, parsed>> /\ next' = next
        /\ phase' = "ended" /\ buffer' = buffer
    BY <1>3 DEF ParserEnds, Ended, scanner
  <2> QED BY <1>1, <2>1, KeptBuffer, Outside DEF Phase, Returned
<1>4. CASE SyntaxError(l) \/ Incomplete
  <2>1. /\ UNCHANGED <<m, tables, read, next_address, parsed>> /\ next' = next
        /\ phase' = "failed" /\ buffer' = << >>
    BY <1>4 DEF SyntaxError, Incomplete, Leaves
  <2> QED BY <1>1, <2>1, KeptBuffer, Outside DEF Phase, Returned
<1>5. CASE EndOfFile
  <2>1. /\ UNCHANGED <<m, tables, read, next_address, parsed>> /\ next' = 1
        /\ phase' = "resolve" /\ phase = "parse" /\ buffer' = buffer
    BY <1>5 DEF EndOfFile, AtEnd, scanner
  <2> QED BY <2>1, KeptBuffer, Outside DEF Phase, Returned
<1> QED BY <1>2, <1>3, <1>4, <1>5

-----------------------------------------------------------------------------
(* The operand of an instruction fits behind its opcode.                    *)
LEMMA OperandType ==
  ASSUME AssemblerInv, NEW entry \in EntryType, Refers(entry), NEW k \in Named(entry)
  PROVE  Operand(entry, k) \in Rest26
<1>1. /\ ImmSize \in Nat \ {0} /\ JumpSize \in Nat \ {0}
      /\ \A x \in 0 .. ImmSize - 1 : x \in Rest26
  <2>1. ImmSize \in Nat \ {0} /\ JumpSize \in Nat \ {0}
    BY DEF ImmSize, JumpSize, RegSize, FunctSize
  <2> QED BY <2>1, FieldRange, Zenon
<1>2. entry.kind \in {"relative", "absolute", "high", "low"} /\ entry.line \in Int
  BY DEF EntryType, Refers, InstructionKind, Addr
<1> HIDE DEF ImmSize, JumpSize
<1>3. CASE entry.kind \in {"relative", "absolute"}
  <2>1. k \in DOMAIN labels
    BY <1>3 DEF Named
  <2>2. labels[k].line \in Int
    <3>1. labels[k] \in LabelType
      BY <2>1 DEF AssemblerInv, TablesInv
    <3> QED BY <3>1 DEF LabelType, Addr
  <2>3. CASE entry.kind = "relative"
    <3>1. Distance(entry, labels[k]) \in Int
      BY <1>2, <2>2 DEF Distance
    <3>2. Operand(entry, k) = Distance(entry, labels[k]) % ImmSize
      BY <2>3 DEF Operand
    <3> QED BY <1>1, <3>1, <3>2
  <2>4. CASE entry.kind = "absolute"
    <3>1. Start["text"] \div WordBytes \in Int
      BY Bounds DEF Addr
    <3>2. Operand(entry, k) = (Start["text"] \div WordBytes + labels[k].line) % JumpSize
      BY <2>4 DEF Operand
    <3> QED BY <1>1, <2>2, <3>1, <3>2 DEF Rest26
  <2> QED BY <1>3, <2>3, <2>4
<1>4. CASE entry.kind \in {"high", "low"}
  <2>1. k \in DOMAIN memsections
    BY <1>4 DEF Named
  <2>2. memsections[k] \in SectionType
    BY <2>1 DEF AssemblerInv, TablesInv
  <2>3. memsections[k].position \in Addr
    BY <2>2 DEF SectionType, SectionOf
  <2> DEFINE x == Start["data"] + memsections[k].position
  <2>4. x \in Int
    BY <2>3, Bounds DEF Addr
  <2>5. /\ entry.kind = "high" => Operand(entry, k) = (x \div ImmSize) % ImmSize
        /\ entry.kind = "low" => Operand(entry, k) = x % ImmSize
    BY <1>4 DEF Operand
  <2> HIDE DEF x
  <2>6. x \div ImmSize \in Int
    BY <1>1, <2>4
  <2> QED BY <1>1, <1>4, <2>4, <2>5, <2>6
<1> QED BY <1>2, <1>3, <1>4

(* An instruction whose operand was ORed in.                                *)
Ored(s, k, o) == [s EXCEPT ![k].word.rest = @ | o]

(* It is an entry still, and what it is and names stays as it was.          *)
LEMMA OredType ==
  ASSUME NEW s, s \in Seq(EntryType), NEW k, k \in DOMAIN s, NEW o, o \in Rest26
  PROVE  /\ Ored(s, k, o) \in Seq(EntryType) /\ Len(Ored(s, k, o)) = Len(s)
         /\ Ored(s, k, o)[k].kind = s[k].kind /\ Ored(s, k, o)[k].label = s[k].label
         /\ Ored(s, k, o)[k].line = s[k].line
         /\ Ored(s, k, o)[k].word.rest = (s[k].word.rest | o)
         /\ Ored(s, k, o)[k].word.opcode = s[k].word.opcode
         /\ \A j \in DOMAIN s : j # k => Ored(s, k, o)[j] = s[j]
<1> DEFINE e == s[k]
           f == [e EXCEPT !.word.rest = @ | o]
<1>1. e \in EntryType /\ e.word.rest \in Rest26
  <2>1. e \in EntryType
    OBVIOUS
  <2> HIDE DEF e, Rest26
  <2> QED BY <2>1 DEF EntryType
<1>2. (e.word.rest | o) \in Rest26
  BY <1>1, OrRange
<1>3. f \in EntryType
  <2> DEFINE x == e.word.rest | o
  <2>1. f = [e EXCEPT !.word = [e.word EXCEPT !.rest = x]] /\ x \in Rest26
    BY <1>1, <1>2 DEF EntryType
  <2> HIDE DEF x, e, f
  <2>2. [e.word EXCEPT !.rest = x] \in [opcode : 0 .. 63, rest : Rest26]
    BY <1>1, <2>1 DEF EntryType
  <2> QED BY <1>1, <2>1, <2>2 DEF EntryType
<1> DEFINE t == Ored(s, k, o)
<1>4. t = [s EXCEPT ![k] = f]
  BY DEF Ored
<1> HIDE DEF f, e, t
<1>5. /\ t \in Seq(EntryType) /\ Len(t) = Len(s) /\ t[k] = f
      /\ \A j \in DOMAIN s : j # k => t[j] = s[j]
  BY <1>3, <1>4
<1>6. /\ f.kind = e.kind /\ f.label = e.label /\ f.line = e.line
      /\ f.word.rest = (e.word.rest | o) /\ f.word.opcode = e.word.opcode
  <2>1. /\ e = [word |-> e.word, line |-> e.line, kind |-> e.kind, label |-> e.label]
        /\ e.word = [opcode |-> e.word.opcode, rest |-> e.word.rest]
    BY <1>1 DEF EntryType
  <2>2. f = [e EXCEPT !.word.rest = @ | o]
    BY DEF f
  <2> QED BY <2>1, <2>2
<1> QED BY <1>5, <1>6 DEF e, t

(* Resolving an operand leaves a word of 32 bits.                           *)
LEMMA ResolveInv == ASSUME AssemblerInv, Resolve PROVE AssemblerInv'
<1> DEFINE entry == instructions[next]
<1>1. /\ phase = "resolve" /\ next <= Len(instructions) /\ next' = next + 1
      /\ m' = m /\ labels' = labels /\ memsections' = memsections /\ line' = line
      /\ mem_pos' = mem_pos /\ buffer' = buffer /\ read' = read /\ phase' = phase
      /\ next_address' = next_address /\ parsed' = parsed
  BY DEF Resolve, Resolving, scanner
<1>2. instructions \in Seq(EntryType) /\ next \in DOMAIN instructions
  BY <1>1 DEF AssemblerInv, TablesInv
<1>3. instructions' \in Seq(EntryType) /\ Len(instructions') = Len(instructions)
  <2>1. CASE instructions' = instructions
    BY <1>2, <2>1
  <2>2. CASE /\ Refers(entry)
             /\ \E k \in Named(entry) :
                  instructions' = [instructions EXCEPT ![next].word.rest = @ | Operand(entry, k)]
    <3>1. PICK k \in Named(entry) :
            instructions' = [instructions EXCEPT ![next].word.rest = @ | Operand(entry, k)]
      BY <2>2
    <3>2. entry \in EntryType
      BY <1>2
    <3>3. Operand(entry, k) \in Rest26
      BY <2>2, <3>2, OperandType
    <3>4. instructions' = Ored(instructions, next, Operand(entry, k))
      BY <3>1 DEF Ored
    <3> HIDE DEF entry
    <3> QED BY <1>2, <3>3, <3>4, OredType
  <2> QED BY <2>1, <2>2 DEF Resolve
<1>4. ScannerInv'
  BY <1>1 DEF AssemblerInv, ScannerInv
<1>5. TablesInv'
  BY <1>1, <1>3 DEF AssemblerInv, TablesInv
<1>6. BlocksInv'
  BY <1>1, Zenon DEF AssemblerInv, BlocksInv
<1> QED BY <1>1, <1>4, <1>5, <1>6 DEF AssemblerInv

(* Where the loops stop.                                                    *)
LEMMA StoppedInv == ASSUME AssemblerInv, Unresolved \/ NoRoom \/ SetupEnds PROVE AssemblerInv'
<1>1. /\ UNCHANGED <<m, tables, read, next_address, parsed>> /\ next' = next
      /\ phase' \in {"threw", "ended"} /\ buffer' = buffer
  BY DEF Unresolved, NoRoom, SetupEnds, Ended, scanner
<1>2. next \in Nat \ {0}
  BY DEF AssemblerInv
<1> QED BY <1>1, <1>2, KeptBuffer, Outside DEF Phase, Returned

(* Setting up begins at the start of the data, where none is yet.           *)
LEMMA ResolvedInv == ASSUME AssemblerInv, Resolved PROVE AssemblerInv'
<1>1. /\ phase = "resolve" /\ m' = Locked(m) /\ phase' = "setup" /\ next' = 1
      /\ next_address' = Start["data"] /\ UNCHANGED <<tables, buffer, read, parsed>>
  BY DEF Resolved, scanner
<1>2. ScannerInv'
  BY <1>1 DEF AssemblerInv, ScannerInv
<1>3. TablesInv'
  BY <1>1 DEF AssemblerInv, TablesInv, tables
<1>4. /\ m' = [locked |-> m'.locked, blocks |-> m'.blocks, content |-> m'.content, snap |-> m'.snap]
      /\ m'.content = [r \in Region |-> m'.content[r]]
      /\ m'.blocks = << >>
  BY <1>1 DEF AssemblerInv, BlocksInv, Locked
<1>5. DataEnds(m') = {Start["data"]}
  BY <1>4 DEF DataEnds
<1>6. Start["data"] \in Nat /\ Start["data"] <= DataEnd
  BY Bounds DEF DataEnd, Addr
<1>7. BlocksInv'
  BY <1>1, <1>4, <1>5, <1>6, Bounds DEF BlocksInv
<1> QED BY <1>1, <1>2, <1>3, <1>7 DEF AssemblerInv, Phase, Returned

(* The ends of the data blocks are numbers.                                 *)
LEMMA DataEndsAre == ASSUME AssemblerInv PROVE DataEnds(m) \subseteq Int
<1>1. ASSUME NEW k \in DOMAIN m.blocks PROVE End(m.blocks[k]) \in Int
  <2>1. m.blocks[k].start \in Int /\ m.blocks[k].size \in Int
    <3>1. m.blocks[k] \in Block
      BY <1>1 DEF AssemblerInv, BlocksInv
    <3> QED BY <3>1 DEF Block, Addr
  <2> QED BY <2>1, Bounds DEF End, Wrap
<1> QED BY <1>1, Bounds DEF DataEnds, Addr

(* What is written is allocated behind the data, to where the next begins.  *)
LEMMA NextFreeIs ==
  ASSUME AssemblerInv, phase = "setup"
  PROVE  NextFree(m) = next_address
<1>1. /\ next_address \in DataEnds(m) /\ next_address \in Int
      /\ \A e \in DataEnds(m) : e <= next_address
  BY DEF AssemblerInv, BlocksInv, Addr
<1>2. DataEnds(m) \subseteq Int
  BY DataEndsAre
<1>3. \A x \in DataEnds(m) : (\A y \in DataEnds(m) : x >= y) <=> x = next_address
  BY <1>1, <1>2
<1> QED BY <1>1, <1>3 DEF NextFree, Max

(* The section to be set up is one that was parsed.                         *)
LEMMA SectionIs ==
  ASSUME AssemblerInv, SettingUp
  PROVE  \E l \in Items, p \in Addr : memsections[next] = SectionOf(l, p)
<1>1. memsections[next] \in SectionType
  BY DEF AssemblerInv, TablesInv, SettingUp
<1> QED BY <1>1 DEF SectionType

(* A section is allocated where the last one ends, and ends in the region   *)
(* of data.                                                                 *)
LEMMA SetupSectionInv == ASSUME AssemblerInv, SetupSection PROVE AssemblerInv'
<1> DEFINE sec == memsections[next]
           block == [start |-> next_address, size |-> sec.length]
<1>1. /\ phase = "setup" /\ next <= Len(memsections) /\ SettingUp /\ Room
      /\ m' = Stored(Pushed(sec), next_address, sec)
      /\ \/ next' = next + 1 /\ next_address' = Behind(next_address, sec) /\ phase' = phase
         \/ phase' = "threw" /\ next' = next /\ next_address' = next_address
      /\ UNCHANGED <<tables, buffer, read, parsed>>
  BY DEF SetupSection, SettingUp, scanner
<1>2. PICK l \in Items, p \in Addr : sec = SectionOf(l, p)
  BY <1>1, SectionIs
<1>3. next_address \in Int /\ NextFree(m) = next_address
  BY <1>1, NextFreeIs DEF AssemblerInv, BlocksInv, Addr
<1>4. /\ sec.length \in Nat /\ DataEnd + sec.length < AddrSize
      /\ Behind(next_address, sec) = next_address + sec.length
  <2>1. sec.length = Length(l)
    BY <1>2 DEF SectionOf
  <2> QED BY <1>2, <1>3, <2>1, ItemLength
<1>5. /\ Start["data"] <= next_address /\ next_address <= DataEnd
      /\ next_address \in DataEnds(m) /\ \A e \in DataEnds(m) : e <= next_address
  BY <1>1 DEF AssemblerInv, BlocksInv
<1>6. DataEnd \in Int /\ AddrSize \in Int /\ next_address \in Addr /\ Start["data"] \in Int
  <2>1. next_address \in Addr
    BY DEF AssemblerInv, BlocksInv
  <2> QED BY <2>1, Bounds DEF DataEnd, Addr
<1>7. sec.length \in Addr /\ Wrap(next_address + sec.length) = next_address + sec.length
  <2>1. sec.length \in Addr /\ next_address + sec.length \in Addr
    <3>1. DataEnd >= 0 /\ next_address >= 0
      BY <1>6, Bounds DEF DataEnd, Addr
    <3> QED BY <1>3, <1>4, <1>5, <1>6, <3>1 DEF Addr
  <2> QED BY <2>1, WrapSame
<1>8. next_address + sec.length <= DataEnd
  BY <1>1, <1>3, <1>7, Zenon DEF Room, CanAllocateNext, Fits, DataEnd
<1>9. block \in Block /\ End(block) = next_address + sec.length
  BY <1>6, <1>7 DEF Block, End
<1>10. m.blocks \in Seq(Block)
  BY DEF AssemblerInv, BlocksInv
<1> DEFINE mem == Pushed(sec)
<1>11. /\ mem = [locked |-> m.locked, blocks |-> Append(m.blocks, block), content |-> m.content,
                 snap |-> m.snap]
  <2>1. mem = [m EXCEPT !.blocks = Append(@, block)]
    BY <1>3, Zenon DEF Pushed, AllocateNext, Push
  <2>2. m = [locked |-> m.locked, blocks |-> m.blocks, content |-> m.content, snap |-> m.snap]
    BY DEF AssemblerInv, BlocksInv
  <2> HIDE DEF block, mem
  <2> QED BY <2>1, <2>2
<1> HIDE DEF mem, block
<1>12. \E c : /\ m' = [locked |-> m.locked, blocks |-> Append(m.blocks, block), content |-> c,
                       snap |-> m.snap]
              /\ c = [r \in Region |-> c[r]]
  <2>1. \E b : m' = [mem EXCEPT !.content["data"] = b]
    BY <1>1, Zenon DEF Stored, Write, mem
  <2> HIDE DEF sec
  <2> PICK b : m' = [mem EXCEPT !.content["data"] = b]
    BY <2>1
  <2>2. m.content = [r \in Region |-> m.content[r]]
    BY DEF AssemblerInv, BlocksInv
  <2>3. [m.content EXCEPT !["data"] = b] = [r \in Region |-> [m.content EXCEPT !["data"] = b][r]]
    BY <2>2
  <2> WITNESS [m.content EXCEPT !["data"] = b]
  <2> QED BY <1>11, <2>1, <2>3
<1>13. m'.blocks = Append(m.blocks, block) /\ m'.blocks \in Seq(Block)
  BY <1>9, <1>10, <1>12
<1>14. DataEnds(m') = DataEnds(m) \cup (IF Holds("data", next_address)
                                        THEN {next_address + sec.length} ELSE {})
  <2>1. /\ DOMAIN m'.blocks = DOMAIN m.blocks \cup {Len(m.blocks) + 1}
        /\ \A k \in DOMAIN m.blocks : m'.blocks[k] = m.blocks[k]
        /\ m'.blocks[Len(m.blocks) + 1] = block /\ block.start = next_address
    BY <1>10, <1>13 DEF block
  <2> HIDE DEF sec
  <2> QED BY <1>9, <2>1 DEF DataEnds
<1>15. phase' = "setup" => /\ next_address' \in DataEnds(m')
                          /\ \A e \in DataEnds(m') : e <= next_address'
                          /\ Start["data"] <= next_address' /\ next_address' <= DataEnd
                          /\ next_address' = next_address + sec.length
  <2> SUFFICES ASSUME phase' = "setup"
               PROVE  /\ next_address' \in DataEnds(m')
                      /\ \A e \in DataEnds(m') : e <= next_address'
                      /\ Start["data"] <= next_address' /\ next_address' <= DataEnd
                      /\ next_address' = next_address + sec.length
    OBVIOUS
  <2>1. next_address' = next_address + sec.length
    BY <1>1, <1>4
  <2> HIDE DEF sec
  <2>2. Start["data"] <= next_address' /\ next_address' <= DataEnd
    BY <1>3, <1>4, <1>5, <1>6, <1>8, <2>1
  <2>3. CASE Holds("data", next_address)
    <3>1. DataEnds(m') = DataEnds(m) \cup {next_address'}
      BY <1>14, <2>1, <2>3
    <3>2. DataEnds(m) \subseteq Int
      BY DataEndsAre
    <3>3. \A e \in DataEnds(m) : e <= next_address'
      BY <1>3, <1>4, <1>5, <2>1, <3>2
    <3> QED BY <1>3, <1>4, <2>1, <2>2, <3>1, <3>3
  <2>4. CASE ~Holds("data", next_address)
    <3>1. next_address = DataEnd
      BY <1>3, <1>5, <1>6, <2>4 DEF Holds, DataEnd
    <3>2. next_address' = next_address
      BY <1>3, <1>4, <1>6, <1>8, <2>1, <3>1
    <3>3. DataEnds(m') = DataEnds(m)
      BY <1>14, <2>4
    <3> QED BY <1>5, <2>1, <2>2, <3>2, <3>3
  <2> QED BY <2>3, <2>4
<1>16. next_address' \in Addr
  <2>1. next_address' = next_address + sec.length \/ next_address' = next_address
    BY <1>1, <1>4, Zenon
  <2> HIDE DEF sec
  <2>2. next_address + sec.length \in Addr
    BY <1>3, <1>4, <1>7, WrapType
  <2> QED BY <1>6, <2>1, <2>2, Zenon
<1>17. BlocksInv'
  <2>1. PICK c : /\ m' = [locked |-> m.locked, blocks |-> Append(m.blocks, block), content |-> c,
                          snap |-> m.snap]
                 /\ c = [r \in Region |-> c[r]]
    BY <1>12
  <2>2. /\ m' = [locked |-> m'.locked, blocks |-> m'.blocks,
                 content |-> m'.content, snap |-> m'.snap]
        /\ m'.content = [r \in Region |-> m'.content[r]]
    BY <2>1
  <2>3. phase' \notin {"parse", "resolve"}
    BY <1>1
  <2> QED BY <1>13, <1>15, <1>16, <2>2, <2>3, Zenon DEF BlocksInv
<1>18. ScannerInv'
  BY <1>1 DEF AssemblerInv, ScannerInv
<1>19. TablesInv'
  BY <1>1 DEF AssemblerInv, TablesInv, tables
<1>20. phase' \in Phase /\ next' \in Nat \ {0}
  BY <1>1 DEF AssemblerInv, Phase, Returned
<1> QED BY <1>17, <1>18, <1>19, <1>20 DEF AssemblerInv

(* The text is not so long that its end wraps.                              *)
LEMMA TextFits ==
  ASSUME AssemblerInv
  PROVE  TextSize \in Addr /\ Start["text"] + TextSize \in Addr
<1>1. Len(instructions) \in Nat /\ Len(instructions) <= 4 * MaxLines
  <2>1. /\ Len(instructions) \in Nat /\ Len(parsed) \in Nat
        /\ Len(instructions) <= 2 * Len(parsed) /\ Len(parsed) <= 2 * MaxLines
    BY DEF AssemblerInv, TablesInv, ScannerInv
  <2> QED BY <2>1, Bounds
<1> DEFINE n == Len(instructions) + 2
           k == 4 * MaxLines + 2
<1>2. n \in Nat /\ k \in Nat /\ n <= k
  BY <1>1, Bounds
<1>3. Start["text"] + k * WordBytes < AddrSize
  BY TextAssumption DEF TextAssumption
<1>4. TextSize = n * WordBytes
  BY DEF TextSize
<1> HIDE DEF n, k
<1>5. n * WordBytes <= k * WordBytes /\ n * WordBytes \in Nat /\ k * WordBytes \in Nat
  BY <1>2, Bounds
<1>6. Start["text"] \in Nat
  BY Bounds DEF Addr
<1> QED BY <1>3, <1>4, <1>5, <1>6, Bounds DEF Addr

(* The text is allocated in its region.                                     *)
LEMMA SetupTextInv == ASSUME AssemblerInv, SetupText PROVE AssemblerInv'
<1> DEFINE block == [start |-> Start["text"], size |-> TextSize]
           words == [k \in DOMAIN instructions |-> instructions[k].word]
<1>1. /\ phase = "setup" /\ phase' = "ok" /\ next' = next /\ next_address' = next_address
      /\ UNCHANGED <<tables, buffer, read, parsed>>
      /\ m' = Write(Push(m, Start["text"], TextSize), "text", words)
  BY DEF SetupText, AllocateAt, scanner
<1>2. TextSize \in Addr
  BY TextFits
<1>3. block \in Block
  BY <1>2, Bounds DEF Block
<1> HIDE DEF words, block
<1>4. /\ m' = [locked |-> m.locked, blocks |-> Append(m.blocks, block),
               content |-> [m.content EXCEPT !["text"] = words], snap |-> m.snap]
      /\ m.content = [r \in Region |-> m.content[r]] /\ m.blocks \in Seq(Block)
  <2>1. /\ m = [locked |-> m.locked, blocks |-> m.blocks, content |-> m.content, snap |-> m.snap]
        /\ m.content = [r \in Region |-> m.content[r]] /\ m.blocks \in Seq(Block)
    BY DEF AssemblerInv, BlocksInv
  <2>2. m' = [[m EXCEPT !.blocks = Append(@, block)] EXCEPT !.content["text"] = words]
    BY <1>1 DEF Write, Push, block
  <2> QED BY <2>1, <2>2
<1>5. BlocksInv'
  <2>1. /\ m' = [locked |-> m'.locked, blocks |-> m'.blocks,
                 content |-> m'.content, snap |-> m'.snap]
        /\ m'.content = [r \in Region |-> m'.content[r]]
        /\ m'.blocks \in Seq(Block)
    BY <1>3, <1>4
  <2>2. next_address \in Addr
    BY DEF AssemblerInv, BlocksInv
  <2> QED BY <1>1, <2>1, <2>2 DEF BlocksInv
<1>6. ScannerInv'
  BY <1>1 DEF AssemblerInv, ScannerInv
<1>7. TablesInv'
  BY <1>1 DEF AssemblerInv, TablesInv, tables
<1> QED BY <1>1, <1>5, <1>6, <1>7 DEF AssemblerInv, Phase, Returned

(* A step that changes nothing.                                             *)
LEMMA StutterInv == ASSUME AssemblerInv, UNCHANGED vars PROVE AssemblerInv'
<1>1. /\ m' = m /\ labels' = labels /\ instructions' = instructions
      /\ memsections' = memsections /\ line' = line /\ mem_pos' = mem_pos
      /\ buffer' = buffer /\ read' = read /\ phase' = phase /\ next' = next
      /\ next_address' = next_address /\ parsed' = parsed
  BY DEF vars, tables, scanner
<1> QED BY <1>1, Zenon DEF AssemblerInv, ScannerInv, TablesInv, BlocksInv

(* Every step keeps the invariant.                                          *)
LEMMA NextInv == ASSUME AssemblerInv, [Next]_vars PROVE AssemblerInv'
<1>1. CASE UNCHANGED vars
  BY <1>1, StutterInv
<1>2. CASE Begin
  BY <1>2, BeginInv
<1>3. ASSUME NEW l \in Lines, Parse(l) PROVE AssemblerInv'
  BY <1>3, DirectiveInv, InstructionInv, LoadAddressInv, TagInv, ItemInv, LeavingInv, Zenon
  DEF Parse
<1>4. CASE Incomplete \/ EndOfFile
  BY <1>4, LeavingInv, Zenon
<1>5. CASE Resolve
  BY <1>5, ResolveInv
<1>6. CASE Unresolved \/ NoRoom \/ SetupEnds
  BY <1>6, StoppedInv
<1>7. CASE Resolved
  BY <1>7, ResolvedInv
<1>8. CASE SetupSection
  BY <1>8, SetupSectionInv
<1>9. CASE SetupText
  BY <1>9, SetupTextInv
<1> QED
  BY <1>1, <1>2, <1>3, <1>4, <1>5, <1>6, <1>7, <1>8, <1>9, Zenon DEF Next

(* The invariant holds of every state.                                      *)
LEMMA AssemblerInvariant == Spec => []AssemblerInv
BY InitInv, NextInv, PTL DEF Spec

(* The tables and counters hold what their declarations say, an instruction *)
(* stays within its 32 bits when its operand is ORed in, and the counter of *)
(* lines counts the instructions.                                           *)
THEOREM AssemblerTypeCorrect == Spec => []AssemblerTypeOK
<1>1. AssemblerInv => AssemblerTypeOK
  <2> SUFFICES ASSUME AssemblerInv PROVE AssemblerTypeOK
    OBVIOUS
  <2>1. \A k \in DOMAIN instructions : instructions[k].word.rest \in 0 .. JumpSize - 1
    <3>1. \A k \in DOMAIN instructions : instructions[k] \in EntryType
      BY DEF AssemblerInv, TablesInv
    <3> QED BY <3>1 DEF EntryType, Rest26
  <2>2. line \in Addr
    <3>1. /\ Len(instructions) \in Nat /\ Len(parsed) \in Nat /\ line = Len(instructions)
          /\ Len(instructions) <= 2 * Len(parsed) /\ Len(parsed) <= 2 * MaxLines
      BY DEF AssemblerInv, TablesInv, ScannerInv
    <3> QED BY <3>1, Bounds DEF Addr
  <2> QED BY <2>1, <2>2 DEF AssemblerInv, ScannerInv, TablesInv, BlocksInv, AssemblerTypeOK
<1> QED BY <1>1, AssemblerInvariant, PTL

(* The assertion of setup_memory holds: data is allocated where it will be  *)
(* written, behind items of every type and size.                            *)
THEOREM DataIsAllocatedWhereItIsWritten == Spec => []AllocatesWhereItWrites
<1>1. AssemblerInv => AllocatesWhereItWrites
  BY NextFreeIs DEF AllocatesWhereItWrites, SettingUp
<1> QED BY <1>1, AssemblerInvariant, PTL

-----------------------------------------------------------------------------
(* Where branches and jumps go.  The place of a line in a sequence of them; *)
(* every tag has a label with its place; every branch or jump has an entry  *)
(* at its place, which has no operand before the loop comes to it, and that *)
(* of its tags after.                                                       *)
LinesBefore(p, k, kinds) == { j \in DOMAIN p : p[j].kind \in kinds /\ j < k }
PlaceIn(p, k) ==
  Cardinality(LinesBefore(p, k, InstructionKind)) + 2 * Cardinality(LinesBefore(p, k, {"la"}))

Branches(p) == { k \in DOMAIN p : p[k].kind \in {"relative", "absolute"} }
Tags(p, name) == { t \in DOMAIN p : p[t].kind = "tag" /\ p[t].label = name }

HasLabels(p, labs) ==
  \A t \in DOMAIN p : p[t].kind = "tag" =>
    \E i \in DOMAIN labs : labs[i].name = p[t].label /\ labs[i].line = PlaceIn(p, t)

HasEntries(p, ins) ==
  \A k \in Branches(p) :
    /\ PlaceIn(p, k) + 1 \in DOMAIN ins
    /\ ins[PlaceIn(p, k) + 1].kind = p[k].kind
    /\ ins[PlaceIn(p, k) + 1].label = p[k].label
    /\ ins[PlaceIn(p, k) + 1].line = PlaceIn(p, k)

(* What the word holds behind its opcode, if the name is no number.         *)
Open(kind, rest) == IF kind = "relative" THEN rest % ImmSize = 0 ELSE rest = 0
Closed(kind, rest, from, to) ==
  IF kind = "relative" THEN rest % ImmSize = (to - from - 1) % ImmSize
  ELSE rest = (Start["text"] \div WordBytes + to) % JumpSize

StillOpen(p, ins, k) ==
  Digits[p[k].label] = 0 => Open(p[k].kind, ins[PlaceIn(p, k) + 1].word.rest)
IsClosed(p, ins, k) ==
  Digits[p[k].label] = 0 =>
    \A t \in Tags(p, p[k].label) :
      Closed(p[k].kind, ins[PlaceIn(p, k) + 1].word.rest, PlaceIn(p, k), PlaceIn(p, t))

(* Branches and jumps are open while the file is parsed, are closed one     *)
(* after the other, and are closed when the text is written.                *)
TargetsInv ==
  /\ Len(instructions) = PlaceIn(parsed, Len(parsed) + 1)
  /\ HasLabels(parsed, labels) /\ HasEntries(parsed, instructions)
  /\ \A k \in Branches(parsed) :
       /\ phase = "parse" => StillOpen(parsed, instructions, k)
       /\ phase = "resolve" => IF PlaceIn(parsed, k) + 1 >= next
                               THEN StillOpen(parsed, instructions, k)
                               ELSE IsClosed(parsed, instructions, k)
       /\ phase \in {"setup", "ok"} => IsClosed(parsed, instructions, k)
  /\ phase = "ok" =>
       /\ m.content["text"] = [k \in DOMAIN instructions |-> instructions[k].word]
       /\ TextSize <= Size["text"]

(* What Append leaves and adds.                                             *)
LEMMA Appended ==
  ASSUME NEW S, NEW o \in Seq(S), NEW d \in S
  PROVE  /\ Append(o, d) \in Seq(S) /\ Len(Append(o, d)) = Len(o) + 1
         /\ Append(o, d)[Len(o) + 1] = d
         /\ \A i \in 1 .. Len(o) : Append(o, d)[i] = o[i]
<1>1. Append(o, d) \in Seq(S) /\ Len(Append(o, d)) = Len(o) + 1
  OBVIOUS
<1>2. Append(o, d)[Len(o) + 1] = d
  OBVIOUS
<1>3. \A i \in 1 .. Len(o) : Append(o, d)[i] = o[i]
  OBVIOUS
<1> QED BY <1>1, <1>2, <1>3

(* What is appended to two operands is the third.                           *)
LEMMA AppendedToTwo ==
  ASSUME NEW x \in Int, NEW y \in Int, NEW d \in Int, NEW s, s = Append(<<x, y>>, d)
  PROVE  s[1] = x /\ s[2] = y /\ s[3] = d
<1>1. <<x, y>> \in Seq(Int) /\ Len(<<x, y>>) = 2
  OBVIOUS
<1>2. s[Len(<<x, y>>) + 1] = d
  BY <1>1, Appended
<1>3. \A i \in 1 .. Len(<<x, y>>) : s[i] = <<x, y>>[i]
  BY <1>1, Appended
<1> QED BY <1>1, <1>2, <1>3

(* Numbers: what is behind a multiple of a size, and the operand ORed in    *)
(* behind the registers.                                                    *)
LEMMA Remainder ==
  ASSUME NEW n \in Nat \ {0}, NEW q \in Int, NEW r \in 0 .. n - 1
  PROVE  (n * q + r) % n = r
<1> DEFINE x == n * q + r
           d == x \div n
           o == x % n
<1>1. x \in Int
  OBVIOUS
<1>2. d \in Int /\ o \in 0 .. n - 1 /\ x = n * d + o
  <2> HIDE DEF x
  <2> QED BY <1>1
<1> HIDE DEF d, o
<1>3. n * q + r = n * d + o
  BY <1>2
<1> DEFINE k == q - d
<1>4. k \in Int /\ n * k = o - r
  <2>1. n * k = n * q - n * d
    BY <1>2
  <2>2. n * q \in Int /\ n * d \in Int
    BY <1>2
  <2> QED BY <1>2, <1>3, <2>1, <2>2
<1> HIDE DEF k
<1>5. ~(k >= 1)
  <2> SUFFICES ASSUME k >= 1 PROVE FALSE
    OBVIOUS
  <2>1. n * k >= n
    BY <1>4
  <2> QED BY <1>2, <1>4, <2>1
<1>6. ~(k <= -1)
  <2> SUFFICES ASSUME k <= -1 PROVE FALSE
    OBVIOUS
  <2>1. n * k <= -n
    BY <1>4
  <2> QED BY <1>2, <1>4, <2>1
<1>7. k = 0
  BY <1>4, <1>5, <1>6
<1>8. o = r
  BY <1>2, <1>4, <1>7
<1> QED BY <1>8 DEF o

(* Immediates and targets have values.                                      *)
LEMMA ImmSizes == ImmSize \in Nat \ {0} /\ JumpSize \in Nat \ {0}
BY DEF ImmSize, JumpSize, RegSize, FunctSize

(* An immediate ORed into a word whose lower half is empty is its lower     *)
(* half.                                                                    *)
LEMMA OredBehind ==
  ASSUME NEW x \in Nat, x % ImmSize = 0, NEW o \in 0 .. ImmSize - 1
  PROVE  (x | o) % ImmSize = o
<1> HIDE DEF ImmSize
<1> DEFINE q == x \div ImmSize
<1>1. q \in Nat /\ x = ImmSize * q + (x % ImmSize)
  BY ImmSizes
<1> HIDE DEF q
<1>2. x = q * ImmSize + 0
  BY <1>1, ImmSizes
<1>3. o = 0 * ImmSize + o /\ o \in Nat /\ 0 \in 0 .. ImmSize - 1 /\ 0 \in Nat
  BY ImmSizes
<1>4. ((q * ImmSize + 0) | (0 * ImmSize + o)) = ImmSize * (q | 0) + (0 | o)
  <2>1. Apart(ImmSize, q, 0, 0, o)
    BY <1>1, <1>3, Powers, Zenon DEF Fieldwise
  <2> QED BY <2>1, Zenon DEF Apart
<1>5. (q | 0) = q /\ (0 | o) = o
  BY <1>1, <1>3, OrIs
<1>6. (x | o) = ImmSize * q + o
  BY <1>2, <1>3, <1>4, <1>5, Zenon
<1> QED BY <1>1, <1>6, ImmSizes, Remainder

(* The registers of an I-format instruction leave its immediate free.       *)
LEMMA RegistersAbove ==
  ASSUME NEW x \in Register, NEW y \in Register
  PROVE  ((High(x) | Low(y)) | 0) % ImmSize = 0
<1> HIDE DEF ImmSize
<1> DEFINE a == x * RegSize
           b == y
<1>1. a \in Nat /\ b \in Nat
  BY DEF Register, RegSize
<1>2. High(x) = a * ImmSize + 0 /\ Low(y) = b * ImmSize + 0
  BY <1>1, ImmSizes DEF High, Low
<1> HIDE DEF a, b
<1>3. 0 \in 0 .. ImmSize - 1
  BY ImmSizes
<1>4. ((a * ImmSize + 0) | (b * ImmSize + 0)) = ImmSize * (a | b) + (0 | 0)
  <2>1. Apart(ImmSize, a, b, 0, 0)
    BY <1>1, <1>3, Powers, Zenon DEF Fieldwise
  <2> QED BY <2>1, Zenon DEF Apart
<1>5. (0 | 0) = 0 /\ (a | b) \in Nat
  BY <1>1, OrIs, OrIsNat
<1> DEFINE c == a | b
<1>6. (High(x) | Low(y)) = ImmSize * c + 0
  BY <1>2, <1>4, <1>5, Zenon
<1>7. ImmSize * c + 0 \in Nat
  <2>1. c \in Nat
    BY <1>5
  <2> HIDE DEF c
  <2> QED BY <2>1, ImmSizes
<1>8. ((ImmSize * c + 0) | 0) = ImmSize * c + 0
  <2> DEFINE d == ImmSize * c + 0
  <2>1. d \in Nat
    BY <1>7
  <2> HIDE DEF d
  <2>2. (d | 0) = d
    BY <2>1, OrIs
  <2> QED BY <2>2 DEF d
<1>9. (ImmSize * c + 0) % ImmSize = 0
  <2>1. c \in Int
    BY <1>5
  <2> HIDE DEF c
  <2> QED BY <1>3, <2>1, ImmSizes, Remainder
<1> QED BY <1>6, <1>8, <1>9, Zenon

(* A branch or jump to a name that is no number has no operand yet.         *)
LEMMA StatementOpen ==
  ASSUME NEW l \in Line, l.kind \in {"relative", "absolute"}, Assembles(l),
         Digits[l.label] = 0, NEW s, s = Statement(l)
  PROVE  Open(l.kind, Assemble(s).rest)
<1> DEFINE d == Digits[l.label]
<1>0. d = 0
  OBVIOUS
<1> HIDE DEF d
<1>1. /\ s.name = l.name /\ s.cop = l.cop /\ s.ops = Append(l.ops, d) /\ Written(l)
  BY LineAssumption DEF LineAssumption, Legal, Statement, InstructionKind, Operands, d
<1>2. /\ l.name \notin HalfWords /\ l.name \notin {"subi", "c.ne.", "c.ge.", "c.gt."}
      /\ l.kind = "absolute" => l.name \in {"j", "jal"}
  <2>1. \A n \in {"subi", "c.ne.", "c.ge.", "c.gt."} : l.name = n => FALSE
    BY OtherNames DEF Assembles
  <2> QED BY <2>1, OtherNames DEF Assembles
<1> DEFINE f == Fields(s)
<1>3. Assemble(s).rest = Encode(f).rest
  BY Zenon DEF Assemble
<1>4. CASE l.kind = "relative" /\ l.name \in Immediates /\ l.ops \in Register \X Register
  <2>1. PICK x \in Register, y \in Register : l.ops = <<x, y>>
    BY <1>4
  <2>2. s.ops[1] = x /\ s.ops[2] = y /\ s.ops[3] = d
    <3>1. x \in Int /\ y \in Int /\ d \in Int
      BY <1>0 DEF Register, RegSize
    <3>2. s.ops = Append(<<x, y>>, d)
      BY <1>1, <2>1
    <3> HIDE DEF f
    <3> QED BY <3>1, <3>2, AppendedToTwo
  <2>3. s.name \in {"addi", "andi", "ori", "xori", "bne", "beq"}
    BY <1>1, <1>2, <1>4 DEF Immediates
  <2>4. f = IFields(s) /\ s.name \in DOMAIN IType /\ s.name \notin Displaced \cup {"lui"}
    BY <2>3, INames, SMT DEF Fields, Displaced
  <2>5. IType[s.name] \in 4 .. 63 /\ IType[s.name] # OpFType
    BY <2>4, Numbers
  <2> DEFINE g == IOperands(s)
             b == [Blank EXCEPT !.opcode = IType[s.name]]
  <2>6. 0 % ImmSize = 0
    BY ImmSizes
  <2>7. g = [b EXCEPT !.rt = x, !.rs = y, !.addr_i = 0]
    <3>1. g = [b EXCEPT !.rt = s.ops[1], !.rs = s.ops[2], !.addr_i = s.ops[3] % ImmSize]
      BY <2>4, SMT DEF IOperands
    <3>2. s.ops[1] = x /\ s.ops[2] = y /\ s.ops[3] = 0
      BY <1>0, <2>2
    <3> HIDE DEF g, b
    <3> QED BY <3>1, <3>2, <2>6, Zenon
  <2>8. g.opcode = IType[s.name] /\ g.rt = x /\ g.rs = y /\ g.addr_i = 0
    BY <2>7 DEF Blank
  <2>9. g = [opcode |-> g.opcode, cop |-> g.cop, rs |-> g.rs, rt |-> g.rt, rd |-> g.rd,
             shamt |-> g.shamt, funct |-> g.funct, addr_i |-> g.addr_i, addr_j |-> g.addr_j]
    BY <2>7 DEF Blank
  <2> HIDE DEF g, b
  <2>10. /\ f.opcode = IType[s.name] /\ f.addr_i = 0 /\ f.rs \in Register /\ f.rt \in Register
    BY <2>4, <2>8, <2>9 DEF IFields, g
  <2> HIDE DEF f
  <2>11. f.opcode \notin {JType[n] : n \in DOMAIN JType} /\ f.opcode # OpFType /\ f.opcode # OpRType
    BY <2>5, <2>10, Numbers DEF OpRType
  <2>12. Encode(f).rest = ((High(f.rs) | Low(f.rt)) | f.addr_i)
    BY <2>11, SMT DEF Encode
  <2>13. ((High(f.rs) | Low(f.rt)) | f.addr_i) % ImmSize = 0
    BY <2>10, RegistersAbove, Zenon
  <2> QED BY <1>3, <1>4, <2>12, <2>13, Zenon DEF Open
<1>5. CASE l.kind = "relative" /\ l.name \in DOMAIN FBranch /\ l.ops \in {<< >>}
  <2>1. s.ops[1] = 0
    <3>1. s.ops = <<d>>
      <4>1. s.ops = Append(<< >>, d)
        BY <1>1, <1>5
      <4> QED BY <4>1
    <3> QED BY <1>0, <3>1
  <2>2. f = FBranchFields(s) /\ s.name \in DOMAIN FBranch
    BY <1>1, <1>5, OtherNames, SMT DEF Fields
  <2>3. 0 % ImmSize = 0 /\ FBranch[s.name] \in {0, 1}
    BY <2>2, ImmSizes, Numbers
  <2>4. /\ f.opcode = OpFType /\ f.cop = FpBranchCop
        /\ f.rs = FBranch[s.name] /\ f.addr_i = s.ops[1] % ImmSize
    BY <2>2 DEF FBranchFields, Blank
  <2> HIDE DEF f
  <2>5. f.addr_i = 0 /\ f.cop \in Register /\ f.rs \in Register
    BY <2>1, <2>3, <2>4 DEF FpBranchCop, Register, RegSize
  <2>6. Encode(f).rest = ((High(f.cop) | Low(f.rs)) | f.addr_i)
    <3>1. f.opcode \notin {JType[n] : n \in DOMAIN JType} /\ f.opcode = OpFType
      BY <2>4, Numbers DEF OpFType
    <3> QED BY <2>4, <3>1, SMT DEF Encode, OpFType, OpRType
  <2> QED BY <1>3, <1>5, <2>5, <2>6, RegistersAbove, Zenon DEF Open
<1>6. CASE l.kind = "absolute" /\ l.name \in Jumps /\ l.ops \in {<< >>}
  <2>1. s.ops[1] = 0
    <3>1. s.ops = <<d>>
      <4>1. s.ops = Append(<< >>, d)
        BY <1>1, <1>6
      <4> QED BY <4>1
    <3> QED BY <1>0, <3>1
  <2>2. f = JFields(s) /\ s.name \in DOMAIN JType
    BY <1>1, <1>2, <1>6, OtherNames, SMT DEF Fields
  <2>3. f.opcode = JType[s.name] /\ f.addr_j = 0
    BY <2>1, <2>2 DEF JFields, Blank
  <2> HIDE DEF f
  <2>4. f.opcode \in {JType[n] : n \in DOMAIN JType}
    BY <2>2, <2>3
  <2>5. Encode(f).rest = f.addr_j
    <3>1. f.opcode \in {2, 3}
      BY <2>2, <2>3, Numbers
    <3> QED BY <2>4, <3>1, SMT DEF Encode, OpFType, OpRType
  <2> QED BY <1>3, <1>6, <2>3, <2>5, Zenon DEF Open
<1> QED BY <1>1, <1>4, <1>5, <1>6, Zenon DEF Written

-----------------------------------------------------------------------------
(* Places: those of the lines that are there stay as they are when one is   *)
(* parsed, and what is behind it is behind its words.                       *)
Width(l) == IF l.kind \in InstructionKind THEN 1 ELSE IF l.kind = "la" THEN 2 ELSE 0

(* The lines before one are some of finitely many.                          *)
LEMMA LinesBeforeType ==
  ASSUME NEW p \in Seq(Line), NEW k, NEW kinds
  PROVE  /\ IsFiniteSet(LinesBefore(p, k, kinds)) /\ Cardinality(LinesBefore(p, k, kinds)) \in Nat
         /\ LinesBefore(p, k, kinds) \subseteq 1 .. Len(p)
<1>1. Len(p) \in Nat /\ DOMAIN p = 1 .. Len(p)
  OBVIOUS
<1>2. LinesBefore(p, k, kinds) \subseteq 1 .. Len(p)
  BY <1>1 DEF LinesBefore
<1>3. IsFiniteSet(1 .. Len(p))
  BY <1>1, FS_Interval
<1>4. IsFiniteSet(LinesBefore(p, k, kinds))
  BY <1>2, <1>3, FS_Subset
<1> QED BY <1>2, <1>4, FS_CardinalityType

(* A place is a number.                                                     *)
LEMMA PlaceType == ASSUME NEW p \in Seq(Line), NEW k PROVE PlaceIn(p, k) \in Nat
BY LinesBeforeType DEF PlaceIn

(* A later line has no earlier place.                                       *)
LEMMA PlaceGrows ==
  ASSUME NEW p \in Seq(Line), NEW j \in Int, NEW k \in Int, j <= k
  PROVE  PlaceIn(p, j) <= PlaceIn(p, k)
<1>1. ASSUME NEW kinds
      PROVE  Cardinality(LinesBefore(p, j, kinds)) <= Cardinality(LinesBefore(p, k, kinds))
  <2>1. LinesBefore(p, j, kinds) \subseteq LinesBefore(p, k, kinds)
    BY DEF LinesBefore
  <2> QED BY <2>1, LinesBeforeType, FS_Subset
<1>2. \A kinds : /\ Cardinality(LinesBefore(p, j, kinds)) \in Nat
                 /\ Cardinality(LinesBefore(p, k, kinds)) \in Nat
  BY LinesBeforeType
<1>3. /\ Cardinality(LinesBefore(p, j, InstructionKind))
           <= Cardinality(LinesBefore(p, k, InstructionKind))
      /\ Cardinality(LinesBefore(p, j, {"la"})) <= Cardinality(LinesBefore(p, k, {"la"}))
  BY <1>1
<1> QED BY <1>2, <1>3 DEF PlaceIn

(* The lines of a file when one is added.                                   *)
LEMMA LineAdded ==
  ASSUME NEW p \in Seq(Line), NEW l \in Line, NEW q, q = Append(p, l)
  PROVE  /\ q \in Seq(Line) /\ Len(q) = Len(p) + 1 /\ Len(p) \in Nat
         /\ DOMAIN q = 1 .. Len(p) + 1 /\ DOMAIN p = 1 .. Len(p)
         /\ q[Len(p) + 1] = l /\ \A j \in 1 .. Len(p) : q[j] = p[j]
<1>1. q \in Seq(Line) /\ Len(q) = Len(p) + 1
  BY Appended
<1>2. q[Len(p) + 1] = l /\ \A j \in 1 .. Len(p) : q[j] = p[j]
  BY Appended
<1> QED BY <1>1, <1>2

(* The lines that are there keep their places.                              *)
LEMMA PlacesStay ==
  ASSUME NEW p \in Seq(Line), NEW l \in Line, NEW q, q = Append(p, l)
  PROVE  \A k \in 1 .. Len(p) + 1 : PlaceIn(q, k) = PlaceIn(p, k)
<1> SUFFICES ASSUME NEW k \in 1 .. Len(p) + 1 PROVE PlaceIn(q, k) = PlaceIn(p, k)
  OBVIOUS
<1>1. ASSUME NEW kinds PROVE LinesBefore(q, k, kinds) = LinesBefore(p, k, kinds)
  BY LineAdded DEF LinesBefore
<1> QED BY <1>1, Zenon DEF PlaceIn

(* What comes next has its place behind the words of the line.              *)
LEMMA PlaceBehind ==
  ASSUME NEW p \in Seq(Line), NEW l \in Line, NEW q, q = Append(p, l)
  PROVE  PlaceIn(q, Len(q) + 1) = PlaceIn(p, Len(p) + 1) + Width(l)
<1> DEFINE n == Len(p) + 1
<1>1. /\ n \in Nat /\ Len(q) + 1 = n + 1 /\ DOMAIN q = 1 .. n /\ DOMAIN p = 1 .. n - 1
      /\ q[n] = l /\ \A j \in 1 .. n - 1 : q[j] = p[j]
  BY LineAdded
<1> HIDE DEF n
<1>2. ASSUME NEW kinds
      PROVE  /\ Cardinality(LinesBefore(q, n + 1, kinds))
                  = Cardinality(LinesBefore(p, n, kinds)) + (IF l.kind \in kinds THEN 1 ELSE 0)
             /\ Cardinality(LinesBefore(p, n, kinds)) \in Nat
  <2> DEFINE S == LinesBefore(p, n, kinds)
             T == LinesBefore(q, n + 1, kinds)
  <2>1. IsFiniteSet(S) /\ Cardinality(S) \in Nat /\ S \subseteq 1 .. Len(p)
    BY LinesBeforeType
  <2>2. n \notin S
    BY <1>1 DEF LinesBefore
  <2>3. T = S \cup (IF l.kind \in kinds THEN {n} ELSE {})
    BY <1>1 DEF LinesBefore
  <2> HIDE DEF S, T
  <2>4. CASE l.kind \in kinds
    <3>1. T = S \cup {n}
      BY <2>3, <2>4
    <3>2. Cardinality(S \cup {n}) = Cardinality(S) + 1
      BY <2>1, <2>2, FS_AddElement
    <3> QED BY <2>1, <2>4, <3>1, <3>2 DEF S, T
  <2>5. CASE l.kind \notin kinds
    <3>1. T = S
      BY <2>3, <2>5
    <3> QED BY <2>1, <2>5, <3>1 DEF S, T
  <2> QED BY <2>4, <2>5
<1>3. /\ Cardinality(LinesBefore(q, n + 1, InstructionKind))
           = Cardinality(LinesBefore(p, n, InstructionKind))
               + (IF l.kind \in InstructionKind THEN 1 ELSE 0)
      /\ Cardinality(LinesBefore(q, n + 1, {"la"}))
           = Cardinality(LinesBefore(p, n, {"la"})) + (IF l.kind \in {"la"} THEN 1 ELSE 0)
      /\ Cardinality(LinesBefore(p, n, InstructionKind)) \in Nat
      /\ Cardinality(LinesBefore(p, n, {"la"})) \in Nat
  BY <1>2
<1>4. l.kind \in InstructionKind => l.kind # "la"
  BY DEF InstructionKind
<1>5. PlaceIn(q, n + 1) = PlaceIn(p, n) + Width(l)
  <2> DEFINE a == Cardinality(LinesBefore(p, n, InstructionKind))
             b == Cardinality(LinesBefore(p, n, {"la"}))
             c == Cardinality(LinesBefore(q, n + 1, InstructionKind))
             d == Cardinality(LinesBefore(q, n + 1, {"la"}))
  <2>1. /\ a \in Nat /\ b \in Nat
        /\ c = a + (IF l.kind \in InstructionKind THEN 1 ELSE 0)
        /\ d = b + (IF l.kind = "la" THEN 1 ELSE 0)
    BY <1>3
  <2>2. PlaceIn(p, n) = a + 2 * b /\ PlaceIn(q, n + 1) = c + 2 * d
    BY DEF PlaceIn
  <2> HIDE DEF a, b, c, d
  <2> QED BY <1>4, <2>1, <2>2 DEF Width
<1> QED BY <1>1, <1>5 DEF n

(* What joining two sequences leaves and adds.                              *)
LEMMA Joined ==
  ASSUME NEW S, NEW o \in Seq(S), NEW e \in Seq(S)
  PROVE  /\ o \o e \in Seq(S) /\ Len(o \o e) = Len(o) + Len(e)
         /\ Len(o) \in Nat /\ Len(e) \in Nat
         /\ \A i \in 1 .. Len(o) : (o \o e)[i] = o[i]
         /\ Len(e) >= 1 => (o \o e)[Len(o) + 1] = e[1]
<1>1. o \o e \in Seq(S) /\ Len(o) \in Nat /\ Len(e) \in Nat
  OBVIOUS
<1>2. Len(o \o e) = Len(o) + Len(e)
  OBVIOUS
<1>3. \A i \in 1 .. Len(o) : (o \o e)[i] = o[i]
  OBVIOUS
<1>4. Len(e) >= 1 => (o \o e)[Len(o) + 1] = e[1]
  <2> SUFFICES ASSUME Len(e) >= 1 PROVE (o \o e)[Len(o) + 1] = e[1]
    OBVIOUS
  <2>1. Len(o) + 1 \in 1 .. Len(o) + Len(e) /\ ~(Len(o) + 1 <= Len(o)) /\ Len(o) + 1 - Len(o) = 1
    BY <1>1
  <2> QED BY <1>1, <1>2, <2>1
<1> QED BY <1>1, <1>2, <1>3, <1>4

(* What is joined on is behind what was there.                              *)
LEMMA JoinedBehind ==
  ASSUME NEW S, NEW o \in Seq(S), NEW e \in Seq(S), NEW i \in 1 .. Len(e)
  PROVE  /\ Len(o) + i \in DOMAIN (o \o e) /\ (o \o e)[Len(o) + i] = e[i]
         /\ DOMAIN o \subseteq DOMAIN (o \o e)
<1>1. /\ Len(o) \in Nat /\ Len(e) \in Nat /\ Len(o \o e) = Len(o) + Len(e)
      /\ DOMAIN o = 1 .. Len(o)
  OBVIOUS
<1>2. Len(o) + i \in 1 .. Len(o) + Len(e) /\ ~(Len(o) + i <= Len(o)) /\ Len(o) + i - Len(o) = i
  BY <1>1
<1>3. (o \o e)[Len(o) + i] = e[i]
  BY <1>1, <1>2
<1>4. o \o e \in Seq(S)
  OBVIOUS
<1> DEFINE j == o \o e
<1>5. DOMAIN j = 1 .. Len(o) + Len(e)
  <2>1. j \in Seq(S) /\ Len(j) = Len(o) + Len(e)
    BY <1>1, <1>4
  <2> HIDE DEF j
  <2> QED BY <1>1, <2>1
<1> HIDE DEF j
<1> QED BY <1>1, <1>2, <1>3, <1>5 DEF j

(* A line is parsed: its words are behind those there are, and its label    *)
(* names their place.                                                       *)
LEMMA LineParsed ==
  ASSUME AssemblerInv, TargetsInv, phase = "parse", phase' = "parse", NEW l \in Line,
         parsed' = Append(parsed, l),
         NEW fresh \in Seq(EntryType), Len(fresh) = Width(l), instructions' = instructions \o fresh,
         NEW more \in Seq(LabelType), labels' = labels \o more,
         l.kind = "tag" => Len(more) = 1 /\ more[1].name = l.label /\ more[1].line = line,
         l.kind \in {"relative", "absolute"} =>
           /\ fresh[1].kind = l.kind /\ fresh[1].label = l.label /\ fresh[1].line = line
           /\ Digits[l.label] = 0 => Open(l.kind, fresh[1].word.rest)
  PROVE  TargetsInv'
<1> DEFINE p == parsed
           q == parsed'
           n == Len(parsed)
           ins == instructions
           ins2 == instructions'
           place == PlaceIn(parsed, Len(parsed) + 1)
<1>1. /\ p \in Seq(Line) /\ q \in Seq(Line) /\ Len(q) = n + 1 /\ n \in Nat
      /\ DOMAIN p = 1 .. n /\ DOMAIN q = 1 .. n + 1
      /\ q[n + 1] = l /\ \A j \in 1 .. n : q[j] = p[j]
  <2>1. parsed \in Seq(Line)
    BY DEF AssemblerInv, ScannerInv
  <2> QED BY <2>1, LineAdded
<1>2. /\ \A k \in 1 .. n + 1 : PlaceIn(q, k) = PlaceIn(p, k)
      /\ PlaceIn(q, n + 2) = place + Width(l)
      /\ \A k \in 1 .. n + 1 : PlaceIn(q, k) \in Nat
  <2>1. \A k \in 1 .. n + 1 : PlaceIn(q, k) = PlaceIn(p, k)
    BY <1>1, PlacesStay
  <2>2. PlaceIn(q, Len(q) + 1) = place + Width(l)
    BY <1>1, PlaceBehind
  <2> QED BY <1>1, <2>1, <2>2, PlaceType
<1>3. /\ Len(ins) = place /\ line = place /\ ins \in Seq(EntryType) /\ place \in Nat
  BY DEF AssemblerInv, TablesInv, TargetsInv
<1>4. /\ Len(ins2) = Len(ins) + Width(l) /\ Width(l) \in Nat
      /\ DOMAIN ins = 1 .. Len(ins) /\ DOMAIN ins2 = 1 .. Len(ins) + Width(l)
      /\ \A j \in 1 .. Len(ins) : ins2[j] = ins[j]
      /\ Width(l) >= 1 => ins2[Len(ins) + 1] = fresh[1]
  <2>1. Width(l) \in Nat
    BY DEF Width
  <2> DEFINE w == Width(l)
  <2> HIDE DEF w
  <2>2. Len(fresh) = w /\ w \in Nat
    BY <2>1 DEF w
  <2>3. Len(ins2) = Len(ins) + Len(fresh) /\ ins2 \in Seq(EntryType)
    BY <1>3, Joined
  <2>4. \A j \in 1 .. Len(ins) : ins2[j] = ins[j]
    BY <1>3, Joined
  <2>5. Len(fresh) >= 1 => ins2[Len(ins) + 1] = fresh[1]
    BY <1>3, Joined
  <2>6. DOMAIN ins = 1 .. Len(ins) /\ DOMAIN ins2 = 1 .. Len(ins) + w
    BY <1>3, <2>2, <2>3
  <2> QED BY <2>1, <2>2, <2>3, <2>4, <2>5, <2>6 DEF w
<1>5. /\ labels \in Seq(LabelType) /\ DOMAIN labels = 1 .. Len(labels) /\ Len(labels) \in Nat
      /\ DOMAIN labels' = 1 .. Len(labels) + Len(more) /\ Len(more) \in Nat
      /\ \A j \in 1 .. Len(labels) : labels'[j] = labels[j]
      /\ Len(more) = 1 => labels'[Len(labels) + 1] = more[1]
  <2>1. labels \in Seq(LabelType)
    BY DEF AssemblerInv, TablesInv
  <2>2. \A j \in 1 .. Len(labels) : labels'[j] = labels[j]
    BY <2>1, Joined
  <2>3. Len(more) >= 1 => labels'[Len(labels) + 1] = more[1]
    BY <2>1, Joined
  <2> QED BY <2>1, <2>2, <2>3
<1> HIDE DEF p, q, n, ins, ins2, place
<1>6. Len(ins2) = PlaceIn(q, Len(q) + 1)
  <2>1. Len(q) + 1 = n + 2
    BY <1>1
  <2> QED BY <1>2, <1>3, <1>4, <2>1
<1>7. HasLabels(q, labels')
  <2> SUFFICES ASSUME NEW t \in DOMAIN q, q[t].kind = "tag"
               PROVE  \E i \in DOMAIN labels' : labels'[i].name = q[t].label
                                                /\ labels'[i].line = PlaceIn(q, t)
    BY DEF HasLabels
  <2>1. CASE t \in 1 .. n
    <3>1. q[t] = p[t] /\ PlaceIn(q, t) = PlaceIn(p, t) /\ t \in DOMAIN p
      BY <1>1, <1>2, <2>1
    <3>2. HasLabels(p, labels)
      BY DEF TargetsInv, p
    <3>3. PICK i \in DOMAIN labels : labels[i].name = p[t].label /\ labels[i].line = PlaceIn(p, t)
      BY <3>1, <3>2 DEF HasLabels
    <3>4. i \in DOMAIN labels' /\ labels'[i] = labels[i]
      BY <1>5
    <3> QED BY <3>1, <3>3, <3>4
  <2>2. CASE t = n + 1
    <3>1. q[t] = l /\ PlaceIn(q, t) = place
      BY <1>1, <1>2, <2>2 DEF place, p, n
    <3>2. Len(more) = 1 /\ more[1].name = l.label /\ more[1].line = line
      BY <3>1
    <3>3. Len(labels) + 1 \in DOMAIN labels' /\ labels'[Len(labels) + 1] = more[1]
      BY <1>5, <3>2
    <3> QED BY <1>3, <3>1, <3>2, <3>3
  <2> QED BY <1>1, <2>1, <2>2
<1>8. ASSUME NEW k \in Branches(q)
      PROVE  /\ PlaceIn(q, k) + 1 \in DOMAIN ins2
             /\ ins2[PlaceIn(q, k) + 1].kind = q[k].kind
             /\ ins2[PlaceIn(q, k) + 1].label = q[k].label
             /\ ins2[PlaceIn(q, k) + 1].line = PlaceIn(q, k)
             /\ StillOpen(q, ins2, k)
  <2>0. k \in 1 .. n + 1 /\ q[k].kind \in {"relative", "absolute"}
    BY <1>1 DEF Branches
  <2>1. CASE k \in 1 .. n
    <3>1. q[k] = p[k] /\ PlaceIn(q, k) = PlaceIn(p, k) /\ k \in Branches(p)
      BY <1>1, <1>2, <2>0, <2>1 DEF Branches
    <3>2. HasEntries(p, ins) /\ StillOpen(p, ins, k)
      BY <3>1 DEF TargetsInv, p, ins
    <3> DEFINE at == PlaceIn(p, k) + 1
    <3>3. /\ at \in DOMAIN ins /\ ins[at].kind = p[k].kind
          /\ ins[at].label = p[k].label /\ ins[at].line = PlaceIn(p, k)
      BY <3>1, <3>2 DEF HasEntries
    <3>4. at \in DOMAIN ins2 /\ ins2[at] = ins[at]
      <4> HIDE DEF at
      <4>1. at \in 1 .. Len(ins) /\ Len(ins) \in Nat
        BY <1>3, <1>4, <3>3
      <4> QED BY <1>4, <4>1
    <3> QED BY <3>1, <3>2, <3>3, <3>4, Zenon DEF StillOpen
  <2>2. CASE k = n + 1
    <3>1. q[k] = l /\ PlaceIn(q, k) = place
      BY <1>1, <1>2, <2>2 DEF place, p, n
    <3>2. Width(l) = 1 /\ l.kind \in {"relative", "absolute"}
      BY <2>0, <3>1 DEF Width, InstructionKind
    <3>3. place + 1 \in DOMAIN ins2 /\ ins2[place + 1] = fresh[1]
      BY <1>3, <1>4, <3>2
    <3>4. /\ fresh[1].kind = l.kind /\ fresh[1].label = l.label /\ fresh[1].line = line
          /\ Digits[l.label] = 0 => Open(l.kind, fresh[1].word.rest)
      BY <3>2
    <3> QED BY <1>3, <3>1, <3>3, <3>4, Zenon DEF StillOpen
  <2> QED BY <2>0, <1>1, <2>1, <2>2
<1>9. HasEntries(q, ins2)
  BY <1>8, Zenon DEF HasEntries
<1> QED BY <1>6, <1>7, <1>8, <1>9 DEF TargetsInv, q, ins2

-----------------------------------------------------------------------------
(* A file of which nothing is parsed has no branch.                         *)
LEMMA TargetsEmpty ==
  ASSUME parsed = << >>, instructions = << >>, phase \in {"parse", "failed"}
  PROVE  TargetsInv
<1>1. \A k, kinds : LinesBefore(parsed, k, kinds) = {}
  BY DEF LinesBefore
<1>2. Cardinality({}) = 0
  BY FS_EmptySet
<1>3. PlaceIn(parsed, Len(parsed) + 1) = 0
  <2>1. PlaceIn(parsed, Len(parsed) + 1) = Cardinality({}) + 2 * Cardinality({})
    BY <1>1, Zenon DEF PlaceIn
  <2> QED BY <1>2, <2>1
<1>4. Branches(parsed) = {} /\ DOMAIN parsed = {}
  BY DEF Branches
<1>5. Len(instructions) = 0
  OBVIOUS
<1> QED BY <1>3, <1>4, <1>5 DEF TargetsInv, HasLabels, HasEntries

(* So it is when a call begins.                                             *)
LEMMA TargetsBegin == ASSUME Begin PROVE TargetsInv'
<1>1. parsed' = << >> /\ instructions' = << >> /\ phase' \in {"parse", "failed"}
  BY DEF Begin
<1>2. \A k, kinds : LinesBefore(parsed', k, kinds) = {}
  BY <1>1 DEF LinesBefore
<1>3. Cardinality({}) = 0
  BY FS_EmptySet
<1>4. PlaceIn(parsed', Len(parsed') + 1) = 0
  <2>1. PlaceIn(parsed', Len(parsed') + 1) = Cardinality({}) + 2 * Cardinality({})
    BY <1>2, Zenon DEF PlaceIn
  <2> QED BY <1>3, <2>1
<1>5. Branches(parsed') = {} /\ DOMAIN parsed' = {} /\ Len(instructions') = 0
  BY <1>1 DEF Branches
<1> QED BY <1>1, <1>4, <1>5 DEF TargetsInv, HasLabels, HasEntries

(* Where the parser and the loops stop nothing is claimed of operands.      *)
LEMMA TargetsStop ==
  ASSUME TargetsInv, UNCHANGED <<parsed, instructions, labels>>,
         phase' \in {"threw", "failed", "ended"}
  PROVE  TargetsInv'
BY DEF TargetsInv

(* A line that is parsed keeps the places and entries of those before it.   *)
LEMMA TargetsParse ==
  ASSUME AssemblerInv, TargetsInv, NEW l \in Lines, Parse(l)
  PROVE  TargetsInv'
<1>1. << >> \in Seq(EntryType) /\ << >> \in Seq(LabelType) /\ Len(<< >>) = 0
  OBVIOUS
<1>2. /\ instructions \in Seq(EntryType) /\ labels \in Seq(LabelType) /\ line \in Int
      /\ instructions \o << >> = instructions /\ labels \o << >> = labels
  <2>1. instructions \in Seq(EntryType) /\ labels \in Seq(LabelType) /\ line \in Int
    BY DEF AssemblerInv, TablesInv
  <2> QED BY <2>1
<1>3. ASSUME Consumes(l), phase = "parse"
      PROVE  l \in Line /\ phase' = "parse" /\ parsed' = Append(parsed, l) /\ line \in Addr
  BY <1>3, ParserKeeps DEF Consumes
<1>4. CASE Directive(l) \/ Item(l)
  <2>1. /\ phase = "parse" /\ Consumes(l) /\ l.kind \in {"directive", "item"}
        /\ instructions' = instructions /\ labels' = labels
    BY <1>4 DEF Directive, Item, Parses, AddsLine, tables
  <2>2. Width(l) = 0 /\ l.kind # "tag" /\ l.kind \notin {"relative", "absolute"}
    BY <2>1 DEF Width, InstructionKind
  <2>3. /\ l \in Line /\ phase' = "parse" /\ parsed' = Append(parsed, l)
        /\ instructions' = instructions \o << >> /\ labels' = labels \o << >>
    BY <1>2, <1>3, <2>1
  <2> QED BY <1>1, <2>1, <2>2, <2>3, LineParsed
<1>5. CASE Instruction(l)
  <2> DEFINE e == Entry(l.name, l.cop, Operands(l), line, l.kind, l.label)
  <2>1. /\ phase = "parse" /\ Consumes(l) /\ l.kind \in InstructionKind /\ Assembles(l)
        /\ instructions' = Append(instructions, e) /\ labels' = labels
        /\ ~Ends(l)
    BY <1>5 DEF Instruction, Parses, AddsLine
  <2>2. Width(l) = 1 /\ l.kind # "tag"
    BY <2>1 DEF Width, InstructionKind
  <2>3. l \in Line /\ phase' = "parse" /\ parsed' = Append(parsed, l) /\ line \in Addr
    BY <1>3, <2>1
  <2>4. /\ e.kind = l.kind /\ e.label = l.label /\ e.line = line
        /\ e.word = Assemble(Statement(l))
    BY Zenon DEF Entry, Statement
  <2>5. e \in EntryType
    BY <2>1, <2>3, EntryOf
  <2>6. l.kind \in {"relative", "absolute"} /\ Digits[l.label] = 0 => Open(l.kind, e.word.rest)
    BY <2>1, <2>3, <2>4, StatementOpen
  <2> HIDE DEF e
  <2> DEFINE fresh == <<e>>
  <2>7. /\ fresh \in Seq(EntryType) /\ Len(fresh) = 1 /\ fresh[1] = e
        /\ instructions' = instructions \o fresh
    BY <1>2, <2>1, <2>5
  <2>8. labels' = labels \o << >>
    BY <1>2, <2>1
  <2> HIDE DEF fresh
  <2> QED BY <1>1, <2>1, <2>2, <2>3, <2>4, <2>6, <2>7, <2>8, LineParsed
<1>6. CASE LoadAddress(l)
  <2> DEFINE lui == Entry("lui", 0, <<l.ops[1], 0>>, line, "high", l.label)
             ori == Entry("ori", 0, <<l.ops[1], l.ops[1], 0>>, Wrap(line + 1), "low", l.label)
  <2>1. /\ phase = "parse" /\ Consumes(l) /\ l.kind = "la"
        /\ instructions' = instructions \o <<lui, ori>> /\ labels' = labels
    BY <1>6 DEF LoadAddress, Parses, AddsLine
  <2>2. Width(l) = 2 /\ l.kind # "tag" /\ l.kind \notin {"relative", "absolute"}
    BY <2>1 DEF Width, InstructionKind
  <2>3. l \in Line /\ phase' = "parse" /\ parsed' = Append(parsed, l) /\ labels' = labels \o << >>
    BY <1>2, <1>3, <2>1
  <2>4. lui \in EntryType /\ ori \in EntryType
    <3>1. line \in Addr /\ Wrap(line + 1) \in Addr
      BY <1>3, <2>1, WrapType DEF Addr
    <3> QED BY <2>1, <2>3, <3>1, AddressEntries
  <2> HIDE DEF lui, ori
  <2> DEFINE fresh == <<lui, ori>>
  <2>5. fresh \in Seq(EntryType) /\ Len(fresh) = 2 /\ instructions' = instructions \o fresh
    BY <2>1, <2>4
  <2> HIDE DEF fresh
  <2> QED BY <1>1, <2>1, <2>2, <2>3, <2>5, LineParsed
<1>7. CASE Tag(l)
  <2> DEFINE label == [name |-> l.label, line |-> line]
  <2>1. /\ phase = "parse" /\ Consumes(l) /\ l.kind = "tag"
        /\ labels' = Append(labels, label) /\ instructions' = instructions
    BY <1>7 DEF Tag, Parses, AddsLine
  <2>2. Width(l) = 0 /\ l.kind \notin {"relative", "absolute"}
    BY <2>1 DEF Width, InstructionKind
  <2>3. /\ l \in Line /\ phase' = "parse" /\ parsed' = Append(parsed, l) /\ line \in Addr
        /\ instructions' = instructions \o << >>
    BY <1>2, <1>3, <2>1
  <2>4. label \in LabelType /\ label.name = l.label /\ label.line = line
    BY <2>3, LineType DEF LabelType
  <2> HIDE DEF label
  <2> DEFINE more == <<label>>
  <2>5. more \in Seq(LabelType) /\ Len(more) = 1 /\ more[1] = label /\ labels' = labels \o more
    BY <1>2, <2>1, <2>4
  <2> HIDE DEF more
  <2> QED BY <1>1, <2>1, <2>2, <2>3, <2>4, <2>5, LineParsed
<1>8. CASE Refused(l) \/ ParserEnds(l) \/ SyntaxError(l)
  <2>1. UNCHANGED <<parsed, instructions, labels>> /\ phase' \in {"threw", "failed", "ended"}
    BY <1>8 DEF Refused, ParserEnds, SyntaxError, Ended, Leaves, tables
  <2> QED BY <2>1, TargetsStop
<1> QED BY <1>4, <1>5, <1>6, <1>7, <1>8, Zenon DEF Parse

(* At the end of the file no branch is closed yet.                          *)
LEMMA TargetsEndOfFile == ASSUME AssemblerInv, TargetsInv, EndOfFile PROVE TargetsInv'
<1>1. /\ phase = "parse" /\ phase' = "resolve" /\ next' = 1
      /\ parsed' = parsed /\ instructions' = instructions /\ labels' = labels
  BY DEF EndOfFile, AtEnd, tables
<1>2. ASSUME NEW k \in Branches(parsed) PROVE PlaceIn(parsed, k) + 1 >= 1
  <2>1. PlaceIn(parsed, k) \in Nat
    BY PlaceType DEF AssemblerInv, ScannerInv
  <2> QED BY <2>1
<1> QED BY <1>1, <1>2 DEF TargetsInv

(* The loop over the instructions closes the one it is at.                  *)
LEMMA LabelOfTag ==
  ASSUME TargetsInv, NEW entry, NEW t \in DOMAIN parsed, parsed[t].kind = "tag",
         entry.kind \in {"relative", "absolute"}, parsed[t].label = entry.label,
         NEW i, Named(entry) = {i}
  PROVE  labels[i].line = PlaceIn(parsed, t)
<1>1. PICK j \in DOMAIN labels :
        labels[j].name = parsed[t].label /\ labels[j].line = PlaceIn(parsed, t)
  BY DEF TargetsInv, HasLabels
<1>2. j \in Named(entry)
  BY <1>1 DEF Named
<1> QED BY <1>1, <1>2

(* Resolving changes the word of one instruction, and only behind its       *)
(* opcode.                                                                  *)
LEMMA ResolveStep ==
  ASSUME AssemblerInv, Resolve, NEW entry, entry = instructions[next]
  PROVE  /\ entry \in EntryType /\ next \in DOMAIN instructions
         /\ instructions' \in Seq(EntryType)
         /\ Len(instructions') = Len(instructions) /\ DOMAIN instructions' = DOMAIN instructions
         /\ \A j \in DOMAIN instructions : j # next => instructions'[j] = instructions[j]
         /\ instructions'[next].kind = entry.kind /\ instructions'[next].label = entry.label
         /\ instructions'[next].line = entry.line
         /\ instructions'[next].word.opcode = entry.word.opcode
         /\ ~Refers(entry) => instructions' = instructions
         /\ Refers(entry) => \E i \in Named(entry) :
              /\ Named(entry) = {i} /\ Operand(entry, i) \in Rest26
              /\ instructions'[next].word.rest = (entry.word.rest | Operand(entry, i))
<1>1. /\ instructions \in Seq(EntryType) /\ next \in DOMAIN instructions
      /\ DOMAIN instructions = 1 .. Len(instructions)
  BY DEF Resolve, Resolving, AssemblerInv, TablesInv
<1>2. entry \in EntryType
  BY <1>1
<1>3. CASE ~Refers(entry) /\ instructions' = instructions
  BY <1>1, <1>2, <1>3
<1>4. CASE /\ Refers(entry)
           /\ \E i \in Named(entry) :
                /\ Named(entry) = {i}
                /\ instructions' = [instructions EXCEPT ![next].word.rest = @ | Operand(entry, i)]
  <2>1. PICK i \in Named(entry) :
           /\ Named(entry) = {i}
           /\ instructions' = [instructions EXCEPT ![next].word.rest = @ | Operand(entry, i)]
    BY <1>4
  <2>2. instructions' = Ored(instructions, next, Operand(entry, i))
    BY <2>1 DEF Ored
  <2>3. Operand(entry, i) \in Rest26
    BY <1>2, <1>4, OperandType
  <2> DEFINE o == Operand(entry, i)
             new == instructions'
  <2>4. new = Ored(instructions, next, o) /\ o \in Rest26
    BY <2>2, <2>3
  <2> HIDE DEF o, new
  <2>5. /\ Len(new) = Len(instructions) /\ new \in Seq(EntryType)
        /\ new[next].kind = instructions[next].kind /\ new[next].label = instructions[next].label
        /\ new[next].line = instructions[next].line
        /\ new[next].word.rest = (instructions[next].word.rest | o)
        /\ new[next].word.opcode = instructions[next].word.opcode
        /\ \A j \in DOMAIN instructions : j # next => new[j] = instructions[j]
    BY <1>1, <2>4, OredType
  <2>6. DOMAIN new = DOMAIN instructions
    BY <1>1, <2>5
  <2> QED BY <1>1, <1>2, <1>4, <2>1, <2>3, <2>5, <2>6 DEF o, new
<1> QED BY <1>3, <1>4 DEF Resolve

(* Resolving closes the branch it comes to and touches no other: two lines  *)
(* that are branches have two places.                                       *)
LEMMA TargetsResolve == ASSUME AssemblerInv, TargetsInv, Resolve PROVE TargetsInv'
<1> DEFINE entry == instructions[next]
<1>1. /\ phase = "resolve" /\ phase' = "resolve" /\ next <= Len(instructions) /\ next' = next + 1
      /\ parsed' = parsed /\ labels' = labels /\ next \in Nat \ {0}
  BY DEF Resolve, Resolving, AssemblerInv
<1>3. entry \in EntryType
  BY ResolveStep
<1>4. /\ Len(instructions') = Len(instructions) /\ DOMAIN instructions' = DOMAIN instructions
      /\ \A j \in DOMAIN instructions : j # next => instructions'[j] = instructions[j]
      /\ instructions'[next].kind = entry.kind /\ instructions'[next].label = entry.label
      /\ instructions'[next].line = entry.line
      /\ Refers(entry) => \E i \in Named(entry) :
           /\ Named(entry) = {i}
           /\ instructions'[next].word.rest = (entry.word.rest | Operand(entry, i))
  <2> HIDE DEF entry
  <2>1. entry = instructions[next]
    BY DEF entry
  <2> QED BY <2>1, ResolveStep
<1> HIDE DEF entry
<1>5. HasEntries(parsed, instructions')
  <2> SUFFICES ASSUME NEW k \in Branches(parsed)
               PROVE  LET at == PlaceIn(parsed, k) + 1
                      IN  /\ at \in DOMAIN instructions' /\ instructions'[at].kind = parsed[k].kind
                          /\ instructions'[at].label = parsed[k].label
                          /\ instructions'[at].line = PlaceIn(parsed, k)
    BY DEF HasEntries
  <2> DEFINE at == PlaceIn(parsed, k) + 1
  <2>1. /\ at \in DOMAIN instructions /\ instructions[at].kind = parsed[k].kind
        /\ instructions[at].label = parsed[k].label
        /\ instructions[at].line = PlaceIn(parsed, k)
    BY DEF TargetsInv, HasEntries
  <2> HIDE DEF at
  <2>2. CASE at = next
    BY <1>4, <2>1, <2>2 DEF entry, at
  <2>3. CASE at # next
    BY <1>4, <2>1, <2>3 DEF at
  <2> QED BY <2>2, <2>3
<1>6. ASSUME NEW k \in Branches(parsed)
      PROVE  IF PlaceIn(parsed, k) + 1 >= next + 1
             THEN StillOpen(parsed, instructions', k)
             ELSE IsClosed(parsed, instructions', k)
  <2> DEFINE at == PlaceIn(parsed, k) + 1
  <2>1. /\ at \in DOMAIN instructions /\ instructions[at].kind = parsed[k].kind
        /\ instructions[at].label = parsed[k].label
        /\ instructions[at].line = at - 1 /\ at \in Nat /\ at - 1 = PlaceIn(parsed, k)
    <3>1. PlaceIn(parsed, k) \in Nat
      BY PlaceType DEF AssemblerInv, ScannerInv
    <3> QED BY <3>1 DEF TargetsInv, HasEntries
  <2>2. IF at >= next THEN StillOpen(parsed, instructions, k) ELSE IsClosed(parsed, instructions, k)
    BY <1>1 DEF TargetsInv
  <2>3. CASE at # next
    <3>1. instructions'[at] = instructions[at]
      BY <1>4, <2>1, <2>3
    <3>2. at >= next <=> at >= next + 1
      BY <1>1, <2>1, <2>3
    <3>3. /\ StillOpen(parsed, instructions, k) => StillOpen(parsed, instructions', k)
          /\ IsClosed(parsed, instructions, k) => IsClosed(parsed, instructions', k)
      BY <3>1, Zenon DEF StillOpen, IsClosed, at
    <3> QED BY <2>2, <3>2, <3>3
  <2>4. CASE at = next
    <3> SUFFICES IsClosed(parsed, instructions', k)
      BY <1>1, <2>1, <2>4
    <3> SUFFICES ASSUME Digits[parsed[k].label] = 0, NEW t \in Tags(parsed, parsed[k].label)
                 PROVE  Closed(parsed[k].kind, instructions'[at].word.rest,
                               PlaceIn(parsed, k), PlaceIn(parsed, t))
      BY Zenon DEF IsClosed
    <3>1. Open(parsed[k].kind, entry.word.rest)
      <4>1. StillOpen(parsed, instructions, k)
        BY <1>1, <2>1, <2>2, <2>4
      <4> QED BY <2>4, <4>1, Zenon DEF StillOpen, entry
    <3>2. /\ parsed[k].kind \in {"relative", "absolute"} /\ entry.kind = parsed[k].kind
          /\ entry.label = parsed[k].label /\ entry.line = at - 1
          /\ t \in DOMAIN parsed /\ parsed[t].kind = "tag" /\ parsed[t].label = entry.label
      BY <2>1, <2>4 DEF Branches, Tags, entry
    <3>3. Refers(entry)
      BY <3>2 DEF Refers
    <3>4. PICK i \in Named(entry) :
            /\ Named(entry) = {i}
            /\ instructions'[at].word.rest = (entry.word.rest | Operand(entry, i))
      BY <1>4, <2>4, <3>3
    <3>5. labels[i].line = PlaceIn(parsed, t)
      BY <3>2, <3>4, LabelOfTag
    <3>6. PlaceIn(parsed, t) \in Nat
      BY PlaceType DEF AssemblerInv, ScannerInv
    <3>7. entry.word.rest \in Nat
      BY <1>3 DEF EntryType, Rest26
    <3> DEFINE rest == entry.word.rest
               to == PlaceIn(parsed, t)
               from == PlaceIn(parsed, k)
    <3> HIDE DEF at
    <3>8. CASE parsed[k].kind = "relative"
      <4>1. Operand(entry, i) = (to - (at - 1) - 1) % ImmSize
        BY <3>2, <3>5, <3>8, SMT DEF Operand, Distance
      <4> DEFINE o == (to - from - 1) % ImmSize
      <4>2. o \in 0 .. ImmSize - 1
        <5>1. to - from - 1 \in Int
          BY <2>1, <3>6
        <5> QED BY <5>1, Modulo
      <4>3. rest % ImmSize = 0
        BY <3>1, <3>8 DEF Open
      <4>4. instructions'[at].word.rest = (rest | o)
        BY <2>1, <3>4, <4>1
      <4> HIDE DEF o, rest
      <4>5. (rest | o) % ImmSize = o
        BY <3>7, <4>2, <4>3, OredBehind DEF rest
      <4> QED BY <3>8, <4>4, <4>5, Zenon DEF Closed, o, at
    <3>9. CASE parsed[k].kind = "absolute"
      <4> DEFINE o == (Start["text"] \div WordBytes + to) % JumpSize
      <4>1. Operand(entry, i) = o
        BY <3>2, <3>5, <3>9, SMT DEF Operand
      <4>2. o \in Nat
        <5> DEFINE x == Start["text"] \div WordBytes + to
        <5>1. x \in Int
          BY <3>6, Bounds DEF Addr
        <5> HIDE DEF x
        <5>2. x % JumpSize \in Nat
          BY <5>1, ImmSizes
        <5> QED BY <5>2 DEF x
      <4>3. rest = 0
        BY <3>1, <3>9 DEF Open
      <4> HIDE DEF o, rest
      <4>4. (0 | o) = o
        BY <4>2, OrIs
      <4>5. instructions'[at].word.rest = o
        BY <3>4, <4>1, <4>3, <4>4, Zenon DEF rest
      <4> QED BY <3>9, <4>5, Zenon DEF Closed, o, at
    <3> QED BY <3>2, <3>8, <3>9
  <2> QED BY <2>3, <2>4
<1>7. Len(instructions') = PlaceIn(parsed, Len(parsed) + 1) /\ HasLabels(parsed, labels)
  BY <1>4 DEF TargetsInv
<1> QED BY <1>1, <1>5, <1>6, <1>7 DEF TargetsInv

(* When all are resolved, every branch is closed.                           *)
LEMMA TargetsResolved == ASSUME AssemblerInv, TargetsInv, Resolved PROVE TargetsInv'
<1>1. /\ phase = "resolve" /\ phase' = "setup" /\ next > Len(instructions)
      /\ parsed' = parsed /\ instructions' = instructions /\ labels' = labels
  BY DEF Resolved, tables
<1>2. ASSUME NEW k \in Branches(parsed) PROVE ~(PlaceIn(parsed, k) + 1 >= next)
  <2>1. PlaceIn(parsed, k) + 1 \in DOMAIN instructions
    BY DEF TargetsInv, HasEntries
  <2>2. instructions \in Seq(EntryType) /\ next \in Nat
    BY DEF AssemblerInv, TablesInv
  <2>3. DOMAIN instructions = 1 .. Len(instructions) /\ Len(instructions) \in Nat
    BY <2>2
  <2> QED BY <1>1, <2>1, <2>2, <2>3
<1> QED BY <1>1, <1>2 DEF TargetsInv

(* Setting up the data touches no word of the text.                         *)
LEMMA TargetsSetup ==
  ASSUME TargetsInv, SetupSection \/ SetupEnds \/ NoRoom \/ Unresolved
  PROVE  TargetsInv'
<1>1. /\ parsed' = parsed /\ instructions' = instructions /\ labels' = labels
      /\ phase' \in {"threw", "ended"} \/ (phase' = "setup" /\ phase = "setup")
  BY DEF SetupSection, SettingUp, SetupEnds, Ended, NoRoom, Unresolved, tables
<1> QED BY <1>1 DEF TargetsInv

(* The text ends in its region, and is what the table holds.                *)
LEMMA TargetsText == ASSUME AssemblerInv, TargetsInv, SetupText PROVE TargetsInv'
<1> DEFINE words == [k \in DOMAIN instructions |-> instructions[k].word]
<1>1. /\ phase = "setup" /\ phase' = "ok"
      /\ parsed' = parsed /\ instructions' = instructions /\ labels' = labels
      /\ Fits("text", Start["text"], TextSize)
      /\ m' = Write(Push(m, Start["text"], TextSize), "text", words)
  BY DEF SetupText, CanAllocateAt, AllocateAt, tables
<1>2. TextSize' = TextSize
  BY <1>1 DEF TextSize
<1>3. TextSize <= Size["text"]
  <2>1. Wrap(Start["text"] + TextSize) = Start["text"] + TextSize
    BY TextFits, WrapSame
  <2>2. Start["text"] + TextSize <= Start["text"] + Size["text"]
    BY <1>1, <2>1 DEF Fits
  <2>3. Start["text"] \in Int /\ TextSize \in Int /\ Size["text"] \in Int
    BY TextFits, Bounds DEF Addr
  <2> QED BY <2>2, <2>3
<1>4. m'.content["text"] = words
  <2> HIDE DEF words
  <2>1. /\ m = [locked |-> m.locked, blocks |-> m.blocks, content |-> m.content, snap |-> m.snap]
        /\ m.content = [r \in Region |-> m.content[r]]
    BY DEF AssemblerInv, BlocksInv
  <2>2. "text" \in Region
    BY RegionAssumption DEF RegionAssumption
  <2>3. m'.content = [m.content EXCEPT !["text"] = words]
    BY <1>1, <2>1 DEF Write, Push
  <2> QED BY <2>1, <2>2, <2>3
<1> QED BY <1>1, <1>2, <1>3, <1>4 DEF TargetsInv

(* Every step keeps the places and the branches.                            *)
LEMMA TargetsNext == ASSUME AssemblerInv, TargetsInv, [Next]_vars PROVE TargetsInv'
<1>1. CASE UNCHANGED vars
  <2>1. /\ m' = m /\ parsed' = parsed /\ instructions' = instructions /\ labels' = labels
        /\ phase' = phase /\ next' = next /\ TextSize' = TextSize
    BY <1>1 DEF vars, tables, scanner, TextSize
  <2> QED BY <2>1, Zenon DEF TargetsInv
<1>2. CASE Begin
  BY <1>2, TargetsBegin
<1>3. ASSUME NEW l \in Lines, Parse(l) PROVE TargetsInv'
  BY <1>3, TargetsParse
<1>4. CASE Incomplete
  <2>1. UNCHANGED <<parsed, instructions, labels>> /\ phase' = "failed"
    BY <1>4 DEF Incomplete, Leaves, tables
  <2> QED BY <2>1, TargetsStop
<1>5. CASE EndOfFile
  BY <1>5, TargetsEndOfFile
<1>6. CASE Resolve
  BY <1>6, TargetsResolve
<1>7. CASE Resolved
  BY <1>7, TargetsResolved
<1>8. CASE SetupSection \/ SetupEnds \/ NoRoom \/ Unresolved
  BY <1>8, TargetsSetup
<1>9. CASE SetupText
  BY <1>9, TargetsText
<1> QED
  BY <1>1, <1>2, <1>3, <1>4, <1>5, <1>6, <1>7, <1>8, <1>9, Zenon DEF Next

(* They hold of every state.                                                *)
LEMMA TargetsInvariant == Spec => []TargetsInv
<1>1. Init => TargetsInv
  BY TargetsEmpty DEF Init
<1> QED BY <1>1, TargetsNext, AssemblerInvariant, PTL DEF Spec

(* What the CPUs make of an operand of 16 bits, and where text ends.        *)
LEMMA SignedDistance ==
  ASSUME NEW d \in Int, Representable(d)
  PROVE  Signed(d % ImmSize) = d
<1> HIDE DEF ImmSize
<1>1. -ImmSize <= 2 * d /\ 2 * d < ImmSize /\ ImmSize \in Nat \ {0}
  BY ImmSizes DEF Representable
<1>2. CASE d >= 0
  <2>1. d \in 0 .. ImmSize - 1 /\ d = ImmSize * 0 + d
    BY <1>1, <1>2
  <2>2. d % ImmSize = d
    BY <1>1, <2>1, Remainder
  <2> QED BY <1>1, <2>2 DEF Signed
<1>3. CASE d < 0
  <2> DEFINE r == d + ImmSize
  <2>1. r \in 0 .. ImmSize - 1 /\ -1 \in Int /\ d = ImmSize * (-1) + r
    BY <1>1, <1>3
  <2> HIDE DEF r
  <2>2. d % ImmSize = r
    BY <1>1, <2>1, Remainder
  <2>3. ~(2 * r < ImmSize) /\ r - ImmSize = d
    BY <1>1, <1>3 DEF r
  <2> QED BY <2>2, <2>3 DEF Signed
<1> QED BY <1>2, <1>3

(* The immediate and the target of a word are its lower bits, whatever its  *)
(* format.                                                                  *)
LEMMA FilledImmediates ==
  ASSUME NEW w
  PROVE  Fill(w).addr_i = w.rest % ImmSize /\ Fill(w).addr_j = w.rest
<1>1. CASE w.opcode = OpFType
  BY <1>1 DEF Fill
<1>2. CASE w.opcode # OpFType
  BY <1>2 DEF Fill
<1> QED BY <1>1, <1>2

(* A branch or jump of a loaded program goes to the instruction behind the  *)
(* tag it names.                                                            *)
THEOREM BranchesGoToLabels == Spec => []TargetsAreLabels
<1>1. AssemblerInv /\ TargetsInv => TargetsAreLabels
  <2> SUFFICES ASSUME AssemblerInv, TargetsInv, Loaded,
                      NEW k \in OfKind({"relative", "absolute"}), NEW t \in TagsOf(k),
                      Digits[parsed[k].label] = 0
               PROVE  LET w == WordAt(Place(k))
                          distance == Place(t) - (Place(k) + 1)
                      IN  IF parsed[k].kind = "relative"
                          THEN Representable(distance) => Signed(w.addr_i) = distance
                          ELSE w.addr_j * WordBytes = Start["text"] + Place(t) * WordBytes
    BY Zenon DEF TargetsAreLabels
  <2> DEFINE from == PlaceIn(parsed, k)
             to == PlaceIn(parsed, t)
             entry == instructions[from + 1]
             w == WordAt(Place(k))
  <2>1. Place(k) = from /\ Place(t) = to
    <3>1. \A j, kinds : Before(j, kinds) = LinesBefore(parsed, j, kinds)
      BY DEF Before, OfKind, LinesBefore
    <3> QED BY <3>1, Zenon DEF Place, PlaceIn
  <2>2. /\ k \in Branches(parsed) /\ t \in Tags(parsed, parsed[k].label) /\ phase = "ok"
        /\ t \in 1 .. Len(parsed) /\ Len(parsed) \in Nat
    <3>1. parsed \in Seq(Line)
      BY DEF AssemblerInv, ScannerInv
    <3> QED BY <3>1 DEF OfKind, TagsOf, Branches, Tags, Loaded
  <2>3. parsed \in Seq(Line) /\ instructions \in Seq(EntryType) /\ from \in Nat /\ to \in Nat
    BY PlaceType DEF AssemblerInv, ScannerInv, TablesInv
  <2>4. from + 1 \in DOMAIN instructions /\ entry \in EntryType
    <3>1. from + 1 \in DOMAIN instructions
      BY <2>2 DEF TargetsInv, HasEntries
    <3> QED BY <2>3, <3>1
  <2>5. Closed(parsed[k].kind, entry.word.rest, from, to)
    BY <2>2 DEF TargetsInv, IsClosed
  <2>6. m.content["text"][from + 1] = entry.word
    <3>1. m.content["text"] = [j \in DOMAIN instructions |-> instructions[j].word]
      BY <2>2 DEF TargetsInv
    <3> QED BY <2>4, <3>1
  <2>7. w.addr_i = entry.word.rest % ImmSize /\ w.addr_j = entry.word.rest
    <3>1. w = Fill(entry.word)
      BY <2>1, <2>6, Zenon DEF WordAt
    <3> HIDE DEF w, entry
    <3> QED BY <3>1, FilledImmediates
  <2> HIDE DEF w, entry, from, to
  <2>8. CASE parsed[k].kind = "relative"
    <3> SUFFICES ASSUME Representable(to - (from + 1)) PROVE Signed(w.addr_i) = to - (from + 1)
      BY <2>1, <2>8 DEF w
    <3>1. to - from - 1 = to - (from + 1) /\ to - (from + 1) \in Int
      BY <2>3
    <3>2. w.addr_i = (to - (from + 1)) % ImmSize
      BY <2>5, <2>7, <2>8, <3>1, Zenon DEF Closed
    <3> QED BY <3>1, <3>2, SignedDistance, Zenon
  <2>9. CASE parsed[k].kind # "relative"
    <3> SUFFICES w.addr_j * WordBytes = Start["text"] + to * WordBytes
      BY <2>1, <2>9 DEF w
    <3> DEFINE base == Start["text"] \div WordBytes
    <3>1. w.addr_j = (base + to) % JumpSize
      BY <2>5, <2>7, <2>9 DEF Closed
    <3>2. /\ Start["text"] \in Nat /\ Size["text"] \in Nat /\ WordBytes \in Nat \ {0}
      BY Bounds DEF Addr
    <3>3. base \in Nat /\ Start["text"] = base * WordBytes
      <4>1. Start["text"] % WordBytes = 0
        BY TextAssumption DEF TextAssumption, Aligned
      <4> DEFINE x == Start["text"]
      <4>2. x \in Nat /\ x % WordBytes = 0
        BY <3>2, <4>1
      <4> HIDE DEF x
      <4>3. x \div WordBytes \in Nat /\ x = WordBytes * (x \div WordBytes) + (x % WordBytes)
        BY <3>2, <4>2
      <4> QED BY <3>2, <4>2, <4>3 DEF x
    <3>4. to <= Len(instructions) /\ Len(instructions) \in Nat
      <4>1. Len(instructions) = PlaceIn(parsed, Len(parsed) + 1)
        BY DEF TargetsInv
      <4>2. t \in Int /\ Len(parsed) + 1 \in Int /\ t <= Len(parsed) + 1
        BY <2>2
      <4> QED BY <2>3, <4>1, <4>2, PlaceGrows DEF to
    <3>5. base + to < JumpSize
      <4>1. TextSize <= Size["text"] /\ TextSize = (Len(instructions) + 2) * WordBytes
        BY <2>2 DEF TargetsInv, TextSize
      <4>2. Start["text"] + Size["text"] <= JumpSize * WordBytes
        BY TextAssumption DEF TextAssumption
      <4> DEFINE n == Len(instructions)
      <4> HIDE DEF n, base, JumpSize
      <4>3. base * WordBytes + (n + 2) * WordBytes <= JumpSize * WordBytes
        BY <3>2, <3>3, <3>4, <4>1, <4>2, ImmSizes DEF n
      <4>4. base + (n + 2) <= JumpSize
        <5> SUFFICES ASSUME base + (n + 2) > JumpSize PROVE FALSE
          BY <3>3, <3>4, ImmSizes DEF n
        <5> DEFINE a == base + (n + 2)
        <5>1. a \in Nat /\ n \in Nat /\ a >= JumpSize + 1
          BY <3>3, <3>4, ImmSizes DEF n
        <5>2. base * WordBytes + (n + 2) * WordBytes = a * WordBytes
          BY <3>2, <3>3, <5>1
        <5> HIDE DEF a
        <5>3. a * WordBytes >= (JumpSize + 1) * WordBytes
          BY <3>2, <5>1, ImmSizes
        <5>4. /\ (JumpSize + 1) * WordBytes = JumpSize * WordBytes + WordBytes
              /\ JumpSize * WordBytes \in Nat
          BY <3>2, ImmSizes
        <5>5. a * WordBytes \in Nat
          BY <3>2, <5>1
        <5> QED BY <3>2, <4>3, <5>2, <5>3, <5>4, <5>5
      <4> QED BY <2>3, <3>3, <3>4, <4>4, ImmSizes DEF n
    <3>6. w.addr_j = base + to
      <4> HIDE DEF base, JumpSize
      <4> DEFINE a == base + to
      <4>1. a \in 0 .. JumpSize - 1 /\ a = JumpSize * 0 + a
        BY <2>3, <3>3, <3>5, ImmSizes
      <4> HIDE DEF a
      <4>2. a % JumpSize = a
        BY <4>1, ImmSizes, Remainder
      <4> QED BY <3>1, <4>2, Zenon DEF a
    <3> HIDE DEF base
    <3> QED BY <2>3, <3>2, <3>3, <3>6
  <2> QED BY <2>8, <2>9
<1> QED BY <1>1, AssemblerInvariant, TargetsInvariant, PTL

-----------------------------------------------------------------------------
(* What a word is displayed as.  A field behind others is beside them.      *)
LEMMA Beside ==
  ASSUME NEW n \in Nat \ {0}, Fieldwise(n), NEW x \in Nat, NEW s \in 0 .. n - 1
  PROVE  ((x * n) | s) = x * n + s
<1>1. /\ x * n = x * n + 0 /\ s = 0 * n + s /\ s \in Nat /\ 0 \in Nat /\ 0 \in 0 .. n - 1
      /\ x * n = n * x
  OBVIOUS
<1>2. ((x * n + 0) | (0 * n + s)) = n * (x | 0) + (0 | s)
  <2>1. Apart(n, x, 0, 0, s)
    BY <1>1, Zenon DEF Fieldwise
  <2> QED BY <2>1, Zenon DEF Apart
<1>3. (x | 0) = x /\ (0 | s) = s
  BY <1>1, OrIs
<1> QED BY <1>1, <1>2, <1>3, Zenon

(* Two registers in front of what else is in a word.                        *)
LEMMA TwoPacked ==
  ASSUME NEW a \in Register, NEW b \in Register
  PROVE  /\ a * RegSize + b \in Nat
         /\ (High(a) | Low(b)) = (a * RegSize + b) * ImmSize
         /\ \A i \in 0 .. ImmSize - 1 :
              ((High(a) | Low(b)) | i) = (a * RegSize + b) * ImmSize + i
<1> DEFINE h == RegSize * ImmSize
           x == a * RegSize + b
<1>1. a \in Nat /\ b \in Nat /\ x \in Nat /\ h \in Nat \ {0} /\ ImmSize \in Nat \ {0}
  BY Sizes, SMT DEF Register
<1>2. High(a) = a * h /\ Low(b) = b * ImmSize /\ Low(b) \in 0 .. h - 1
  <2> USE DEF High, Low
  <2>1. High(a) = a * h /\ Low(b) = b * ImmSize
    BY <1>1, Sizes, SMT
  <2>2. b * ImmSize \in 0 .. h - 1
    <3>1. b \in Int /\ 0 <= b /\ b <= RegSize - 1
      BY Sizes, SMT DEF Register
    <3>2. 0 <= b * ImmSize /\ b * ImmSize < RegSize * ImmSize
      BY <3>1, Sizes, SMT
    <3> HIDE DEF ImmSize, RegSize
    <3> QED BY <1>1, <3>1, <3>2, SMT
  <2> QED BY <2>1, <2>2
<1>3. a * h + b * ImmSize = x * ImmSize
  BY <1>1, Sizes, SMT
<1>4. Fieldwise(h) /\ Fieldwise(ImmSize)
  BY Powers
<1> HIDE DEF h, x, ImmSize
<1>5. ((a * h) | Low(b)) = a * h + Low(b)
  BY <1>1, <1>2, <1>4, Beside
<1>6. (High(a) | Low(b)) = x * ImmSize
  BY <1>2, <1>3, <1>5, Zenon
<1>7. \A i \in 0 .. ImmSize - 1 : ((x * ImmSize) | i) = x * ImmSize + i
  BY <1>1, <1>4, Beside
<1> QED BY <1>1, <1>6, <1>7, Zenon DEF x

(* The number in front of a field, and the field.                           *)
LEMMA Parts ==
  ASSUME NEW n \in Nat \ {0}, NEW q \in Nat, NEW r \in 0 .. n - 1, NEW x, x = q * n + r
  PROVE  x \div n = q /\ x % n = r /\ x \in Nat
<1> DEFINE d == x \div n
<1>1. x = n * q + r /\ x \in Nat
  OBVIOUS
<1>2. x % n = r
  BY <1>1, Remainder
<1>3. d \in Int /\ x = n * d + (x % n)
  BY <1>1
<1> HIDE DEF d
<1>4. n * q + r = n * d + r
  BY <1>1, <1>2, <1>3
<1> DEFINE k == q - d
<1>5. k \in Int /\ n * k = 0
  <2>1. n * k = n * q - n * d
    BY <1>3
  <2>2. n * q \in Int /\ n * d \in Int
    BY <1>3
  <2> QED BY <1>3, <1>4, <2>1, <2>2
<1> HIDE DEF k
<1>6. k = 0
  <2>1. k >= 1 => n * k >= n
    BY <1>5
  <2>2. k <= -1 => n * k <= -n
    BY <1>5
  <2> QED BY <1>5, <2>1, <2>2
<1> QED BY <1>1, <1>2, <1>3, <1>6 DEF k, d

(* A word of five fields, as one number.                                    *)
Packed(a, b, c, d, e) ==
  (((a * RegSize + b) * RegSize + c) * RegSize + d) * FunctSize + e

(* What the fields ORed in at their places make, in the order of either     *)
(* format of registers.                                                     *)
LEMMA FivePacked ==
  ASSUME NEW a \in Register, NEW b \in Register, NEW c \in Register, NEW d \in Register,
         NEW e \in 0 .. FunctSize - 1
  PROVE  /\ ((((High(a) | Low(b)) | Third(c)) | Fourth(d)) | e) = Packed(a, b, c, d, e)
         /\ ((High(a) | Low(b)) | ((Third(c) | Fourth(d)) | e)) = Packed(a, b, c, d, e)
<1> DEFINE t == RegSize * FunctSize
           x == a * RegSize + b
           y == x * RegSize + c
           z == y * RegSize + d
           v == c * RegSize + d
<1>1. /\ a \in Nat /\ b \in Nat /\ c \in Nat /\ d \in Nat /\ e \in Nat
      /\ x \in Nat /\ y \in Nat /\ z \in Nat /\ v \in Nat
      /\ ImmSize \in Nat \ {0} /\ t \in Nat \ {0} /\ FunctSize \in Nat \ {0}
  BY Sizes, SMT DEF Register
<1>2. /\ a <= RegSize - 1 /\ b <= RegSize - 1 /\ c <= RegSize - 1 /\ d <= RegSize - 1
      /\ e <= FunctSize - 1
  BY Sizes, SMT DEF Register
<1>3. Third(c) = c * t /\ Fourth(d) = d * FunctSize
  BY <1>1, Sizes, SMT DEF Third, Fourth
<1>4. /\ x * ImmSize + c * t = y * t /\ y * t + d * FunctSize = z * FunctSize
      /\ c * t + d * FunctSize = v * FunctSize
      /\ x * ImmSize + (v * FunctSize + e) = z * FunctSize + e
  BY <1>1, Sizes, SMT
<1>5. /\ 0 <= c * t /\ c * t < ImmSize /\ 0 <= d * FunctSize /\ d * FunctSize < t
      /\ 0 <= v * FunctSize + e /\ v * FunctSize + e < ImmSize
  BY <1>1, <1>2, Sizes, SMT
<1>6. Fieldwise(t) /\ Fieldwise(ImmSize) /\ Fieldwise(FunctSize)
  BY Powers
<1>7. (High(a) | Low(b)) = x * ImmSize
  BY TwoPacked
<1>8. Packed(a, b, c, d, e) = z * FunctSize + e
  BY Zenon DEF Packed
<1> HIDE DEF t, x, y, z, v, ImmSize, FunctSize
<1>9. /\ c * t \in 0 .. ImmSize - 1 /\ d * FunctSize \in 0 .. t - 1
      /\ v * FunctSize + e \in 0 .. ImmSize - 1
  <2>1. c * t \in Nat /\ d * FunctSize \in Nat /\ v * FunctSize + e \in Nat
    BY <1>1
  <2> QED BY <1>1, <1>5, <2>1
<1>10. ((x * ImmSize) | (c * t)) = y * t
  <2>1. ((x * ImmSize) | (c * t)) = x * ImmSize + c * t
    BY <1>1, <1>6, <1>9, Beside
  <2> QED BY <1>4, <2>1
<1>11. ((y * t) | (d * FunctSize)) = z * FunctSize
  <2>1. ((y * t) | (d * FunctSize)) = y * t + d * FunctSize
    BY <1>1, <1>6, <1>9, Beside
  <2> QED BY <1>4, <2>1
<1>12. ((z * FunctSize) | e) = z * FunctSize + e
  BY <1>1, <1>6, Beside
<1>13. ((c * t) | (d * FunctSize)) = v * FunctSize
  <2>1. ((c * t) | (d * FunctSize)) = c * t + d * FunctSize
    BY <1>1, <1>6, <1>9, Beside
  <2> QED BY <1>4, <2>1
<1>14. ((v * FunctSize) | e) = v * FunctSize + e
  BY <1>1, <1>6, Beside
<1>15. ((x * ImmSize) | (v * FunctSize + e)) = z * FunctSize + e
  <2>1. ((x * ImmSize) | (v * FunctSize + e)) = x * ImmSize + (v * FunctSize + e)
    BY <1>1, <1>6, <1>9, Beside
  <2> QED BY <1>4, <2>1
<1> QED
  BY <1>3, <1>7, <1>8, <1>10, <1>11, <1>12, <1>13, <1>14, <1>15, Zenon

(* fill_instruction takes the five fields apart again.                      *)
LEMMA FiveFields ==
  ASSUME NEW a \in Register, NEW b \in Register, NEW c \in Register, NEW d \in Register,
         NEW e \in 0 .. FunctSize - 1, NEW w, w.rest = Packed(a, b, c, d, e)
  PROVE  /\ Reg1(w) = a /\ Reg2(w) = b /\ Reg3(w) = c /\ Reg4(w) = d
         /\ w.rest % FunctSize = e
<1> DEFINE h == RegSize * ImmSize
           t == RegSize * FunctSize
           x == a * RegSize + b
           y == x * RegSize + c
           z == y * RegSize + d
           low1 == ((b * RegSize + c) * RegSize + d) * FunctSize + e
           low2 == (c * RegSize + d) * FunctSize + e
           low3 == d * FunctSize + e
           r == w.rest
<1>1. /\ a \in Nat /\ b \in Nat /\ c \in Nat /\ d \in Nat /\ e \in Nat
      /\ x \in Nat /\ y \in Nat /\ z \in Nat /\ low1 \in Nat /\ low2 \in Nat /\ low3 \in Nat
      /\ ImmSize \in Nat \ {0} /\ t \in Nat \ {0} /\ FunctSize \in Nat \ {0}
      /\ h \in Nat \ {0} /\ RegSize \in Nat \ {0}
  BY Sizes, SMT DEF Register
<1>2. /\ a <= RegSize - 1 /\ b <= RegSize - 1 /\ c <= RegSize - 1 /\ d <= RegSize - 1
      /\ e <= FunctSize - 1
  BY Sizes, SMT DEF Register
<1>3. r = z * FunctSize + e
  BY Zenon DEF Packed
<1>4. /\ r = a * h + low1 /\ r = x * ImmSize + low2 /\ r = y * t + low3
  BY <1>1, <1>3, Sizes, SMT
<1>5. low1 < h /\ low2 < ImmSize /\ low3 < t
  BY <1>1, <1>2, Sizes, SMT
<1> HIDE DEF h, t, low1, low2, low3, r, ImmSize, FunctSize
<1>6. /\ low1 \in 0 .. h - 1 /\ low2 \in 0 .. ImmSize - 1 /\ low3 \in 0 .. t - 1
      /\ b \in 0 .. RegSize - 1 /\ c \in 0 .. RegSize - 1 /\ d \in 0 .. RegSize - 1
  BY <1>1, <1>2, <1>5
<1> HIDE DEF x, y, z
<1>7. r \div h = a
  BY <1>1, <1>4, <1>6, Parts
<1>8. r \div ImmSize = x
  BY <1>1, <1>4, <1>6, Parts
<1>9. r \div t = y
  BY <1>1, <1>4, <1>6, Parts
<1>10. r \div FunctSize = z /\ r % FunctSize = e
  BY <1>1, <1>3, Parts
<1>11. x % RegSize = b
  BY <1>1, <1>6, Parts DEF x
<1>12. y % RegSize = c
  BY <1>1, <1>6, Parts DEF y
<1>13. z % RegSize = d
  BY <1>1, <1>6, Parts DEF z
<1> QED
  BY <1>7, <1>8, <1>9, <1>10, <1>11, <1>12, <1>13, Zenon DEF Reg1, Reg2, Reg3, Reg4, h, t, r

(* The registers are what is in front of the immediate, whatever that is.   *)
LEMMA TwoFields ==
  ASSUME NEW a \in Register, NEW b \in Register, NEW w, w.rest \in Nat,
         w.rest \div ImmSize = a * RegSize + b
  PROVE  Reg1(w) = a /\ Reg2(w) = b
<1> DEFINE h == RegSize * ImmSize
           x == a * RegSize + b
           i == w.rest % ImmSize
           r == w.rest
<1>1. /\ a \in Nat /\ b \in Nat /\ x \in Nat
      /\ ImmSize \in Nat \ {0} /\ h \in Nat \ {0} /\ RegSize \in Nat \ {0}
  BY Sizes, SMT DEF Register
<1>2. b <= RegSize - 1
  BY Sizes, SMT DEF Register
<1>3. r = x * ImmSize + i /\ i \in 0 .. ImmSize - 1 /\ r \in Nat
  <2>0. r \in Nat /\ r \div ImmSize = x
    OBVIOUS
  <2> HIDE DEF ImmSize, x, r
  <2>1. r \div ImmSize \in Nat /\ r = ImmSize * (r \div ImmSize) + (r % ImmSize)
    BY <1>1, <2>0
  <2>2. i \in 0 .. ImmSize - 1
    BY <1>1, <2>0, Modulo
  <2>3. r = ImmSize * x + i
    BY <2>0, <2>1, SMT DEF r
  <2> QED BY <1>1, <2>0, <2>2, <2>3
<1> HIDE DEF i
<1> DEFINE low == b * ImmSize + i
<1>4. r = a * h + low /\ low \in Nat
  BY <1>1, <1>3, Sizes, SMT
<1>5. low < h
  BY <1>1, <1>2, <1>3, Sizes, SMT
<1> HIDE DEF low, h, r, ImmSize
<1>6. low \in 0 .. h - 1 /\ b \in 0 .. RegSize - 1
  BY <1>1, <1>2, <1>4, <1>5
<1>7. r \div h = a
  BY <1>1, <1>4, <1>6, Parts
<1>8. x % RegSize = b
  BY <1>1, <1>6, Parts
<1>9. r \div ImmSize = x
  BY DEF r
<1> QED BY <1>7, <1>8, <1>9, Zenon DEF Reg1, Reg2, h, r

(* No two names of a table have the same number; and those of the table of  *)
(* jumps and of immediates have none in common.                             *)
LEMMA UniqueR == \A i, n \in DOMAIN RType : RType[i] = RType[n] => i = n
BY SMT DEF RType

(* So do those of the I type.                                               *)
LEMMA UniqueI == \A i, n \in DOMAIN IType : IType[i] = IType[n] => i = n
BY SMT DEF IType

(* So do those of the F type.                                               *)
LEMMA UniqueF == \A i, n \in DOMAIN FType : FType[i] = FType[n] => i = n
BY SMT DEF FType

(* So do the branches of the coprocessor and the jumps.                     *)
LEMMA UniqueOthers ==
  /\ \A i, n \in DOMAIN JType : JType[i] = JType[n] => i = n
  /\ \A i, n \in DOMAIN FBranch : FBranch[i] = FBranch[n] => i = n
BY SMT DEF JType, FBranch

(* The opcodes of the formats.                                              *)
LEMMA Opcodes ==
  /\ \A n \in DOMAIN JType : JType[n] # OpRType /\ JType[n] # OpFType
  /\ \A n \in DOMAIN IType : IType[n] # OpRType /\ IType[n] # OpFType
  /\ \A n \in DOMAIN IType, j \in DOMAIN JType : IType[n] # JType[j]
  /\ OpRType # OpFType
<1>1. \A n \in DOMAIN JType : JType[n] # OpRType /\ JType[n] # OpFType
  BY SMT DEF JType, OpRType, OpFType
<1>2. \A n \in DOMAIN IType : IType[n] # OpRType /\ IType[n] # OpFType
  BY SMT DEF IType, OpRType, OpFType
<1>3. \A n \in DOMAIN IType, j \in DOMAIN JType : IType[n] # JType[j]
  BY SMT DEF IType, JType
<1> QED BY <1>1, <1>2, <1>3, SMT DEF OpRType, OpFType

(* The only name of a number is found again.                                *)
LEMMA NameFound ==
  ASSUME NEW table, NEW n \in DOMAIN table, \A i \in DOMAIN table : table[i] = table[n] => i = n
  PROVE  NameIn(table, table[n]) = n
<1>1. \A i : i \in DOMAIN table /\ table[i] = table[n] <=> i = n
  OBVIOUS
<1> QED BY <1>1, Zenon DEF NameIn

(* find_instruction finds the name again.                                   *)
LEMMA NameOfIs ==
  ASSUME NEW w
  PROVE  /\ \A n \in DOMAIN RType :
              w.opcode = OpRType /\ w.rest % FunctSize = RType[n] => NameOf(w) = n
         /\ \A n \in DOMAIN FType :
              w.opcode = OpFType /\ Reg1(w) # FpBranchCop /\ w.rest % FunctSize = FType[n]
                => NameOf(w) = n
         /\ \A n \in DOMAIN FBranch :
              w.opcode = OpFType /\ Reg1(w) = FpBranchCop /\ Reg2(w) = FBranch[n] => NameOf(w) = n
         /\ \A n \in DOMAIN JType : w.opcode = JType[n] => NameOf(w) = n
         /\ \A n \in DOMAIN IType : w.opcode = IType[n] => NameOf(w) = n
<1> DEFINE f == Fill(w)
<1>1. /\ w.opcode = OpRType => f.funct = w.rest % FunctSize
      /\ w.opcode = OpFType => /\ f.funct = w.rest % FunctSize
                               /\ f.cop = Reg1(w) /\ f.rs = Reg2(w)
  BY Opcodes DEF Fill
<1>2. /\ \A n \in DOMAIN RType : NameIn(RType, RType[n]) = n
      /\ \A n \in DOMAIN FType : NameIn(FType, FType[n]) = n
      /\ \A n \in DOMAIN FBranch : NameIn(FBranch, FBranch[n]) = n
  <2>1. \A n \in DOMAIN RType : NameIn(RType, RType[n]) = n
    BY UniqueR, NameFound, Zenon
  <2>2. \A n \in DOMAIN FType : NameIn(FType, FType[n]) = n
    BY UniqueF, NameFound, Zenon
  <2>3. \A n \in DOMAIN FBranch : NameIn(FBranch, FBranch[n]) = n
    BY UniqueOthers, NameFound, Zenon
  <2> QED BY <2>1, <2>2, <2>3
<1>3. \A n \in DOMAIN IType \cup DOMAIN JType : NameIn(ByOpcode, ByOpcode[n]) = n
  <2>1. ASSUME NEW i \in DOMAIN IType \cup DOMAIN JType, NEW n \in DOMAIN IType \cup DOMAIN JType,
               ByOpcode[i] = ByOpcode[n]
        PROVE  i = n
    <3> HIDE DEF IType, JType
    <3>1. /\ ByOpcode[i] = IF i \in DOMAIN IType THEN IType[i] ELSE JType[i]
          /\ ByOpcode[n] = IF n \in DOMAIN IType THEN IType[n] ELSE JType[n]
      BY Zenon DEF ByOpcode
    <3> QED BY <2>1, <3>1, UniqueI, UniqueOthers, Opcodes
  <2>2. DOMAIN ByOpcode = DOMAIN IType \cup DOMAIN JType
    BY Zenon DEF ByOpcode
  <2> QED BY <2>1, <2>2, NameFound, Zenon
<1>4. /\ \A n \in DOMAIN IType : ByOpcode[n] = IType[n]
      /\ \A n \in DOMAIN JType : ByOpcode[n] = JType[n]
  <2>1. \A n \in DOMAIN JType : n \notin DOMAIN IType
    BY SMT DEF JType, IType
  <2> QED BY <2>1, Zenon DEF ByOpcode
<1>5. /\ w.opcode = OpRType => NameOf(w) = NameIn(RType, f.funct)
      /\ w.opcode = OpFType /\ f.cop = FpBranchCop => NameOf(w) = NameIn(FBranch, f.rs)
      /\ w.opcode = OpFType /\ f.cop # FpBranchCop => NameOf(w) = NameIn(FType, f.funct)
      /\ w.opcode # OpRType /\ w.opcode # OpFType => NameOf(w) = NameIn(ByOpcode, w.opcode)
  <2> HIDE DEF f
  <2> QED BY Opcodes, SMT DEF NameOf, f
<1> HIDE DEF f
<1>6. \A n \in DOMAIN RType :
        w.opcode = OpRType /\ w.rest % FunctSize = RType[n] => NameOf(w) = n
  BY <1>1, <1>2, <1>5, Zenon
<1>7. \A n \in DOMAIN FType :
        w.opcode = OpFType /\ Reg1(w) # FpBranchCop /\ w.rest % FunctSize = FType[n] => NameOf(w) = n
  BY <1>1, <1>2, <1>5, Zenon
<1>8. \A n \in DOMAIN FBranch :
        w.opcode = OpFType /\ Reg1(w) = FpBranchCop /\ Reg2(w) = FBranch[n] => NameOf(w) = n
  BY <1>1, <1>2, <1>5, Zenon
<1>9. \A n \in DOMAIN JType : w.opcode = JType[n] => NameOf(w) = n
  BY <1>3, <1>4, <1>5, Opcodes, Zenon
<1>10. \A n \in DOMAIN IType : w.opcode = IType[n] => NameOf(w) = n
  BY <1>3, <1>4, <1>5, Opcodes, Zenon
<1> QED BY <1>6, <1>7, <1>8, <1>9, <1>10

(* decode_instruction, by format.                                           *)
LEMMA DecodeIs ==
  ASSUME NEW w, NEW n, NameOf(w) = n
  PROVE  /\ w.opcode = OpRType /\ ~Nop(w) /\ n \in DOMAIN RType =>
              Decode(w) = [name |-> n, cop |-> 0, ops |-> DecodeR(n, Fill(w))]
         /\ w.opcode = OpFType /\ n \in DOMAIN FType =>
              Decode(w) = [name |-> n, cop |-> Fill(w).cop, ops |-> DecodeF(n, Fill(w))]
         /\ w.opcode = OpFType /\ n \in DOMAIN FBranch =>
              Decode(w) = [name |-> n, cop |-> 0, ops |-> DecodeF(n, Fill(w))]
         /\ n \in DOMAIN JType /\ w.opcode = JType[n] =>
              Decode(w) = [name |-> n, cop |-> 0, ops |-> <<Fill(w).addr_j>>]
         /\ n \in DOMAIN IType /\ w.opcode = IType[n] =>
              Decode(w) = [name |-> n, cop |-> 0, ops |-> DecodeI(n, Fill(w))]
<1> DEFINE f == Fill(w)
           o == CASE Nop(w) -> << >>
                  [] w.opcode = OpRType /\ ~Nop(w) -> DecodeR(n, f)
                  [] w.opcode = OpFType -> DecodeF(n, f)
                  [] n \in DOMAIN JType -> <<f.addr_j>>
                  [] n \in DOMAIN IType -> DecodeI(n, f)
<1>1. ~Nop(w) => Decode(w) = [name |-> n, cop |-> IF n \in DOMAIN FType THEN f.cop ELSE 0,
                             ops |-> o]
  BY Zenon DEF Decode
<1>2. w.opcode # OpRType => ~Nop(w)
  BY DEF Nop, OpRType
<1>3. /\ n \in DOMAIN RType \/ n \in DOMAIN FBranch \/ n \in DOMAIN JType \/ n \in DOMAIN IType
           => n \notin DOMAIN FType
      /\ n \in DOMAIN JType => n \notin DOMAIN IType
      /\ n \in DOMAIN IType => n \notin DOMAIN JType
  BY SMT DEF RType, JType, IType, FType, FBranch
<1>4. /\ w.opcode = OpRType /\ ~Nop(w) /\ n \in DOMAIN RType => o = DecodeR(n, f)
      /\ w.opcode = OpFType /\ (n \in DOMAIN FType \/ n \in DOMAIN FBranch) => o = DecodeF(n, f)
  <2>1. OpFType # OpRType
    BY DEF OpFType, OpRType
  <2>2. n \in DOMAIN RType \/ n \in DOMAIN FType \/ n \in DOMAIN FBranch
          => n \notin DOMAIN JType /\ n \notin DOMAIN IType
    BY SMT DEF RType, JType, IType, FType, FBranch
  <2>3. ASSUME w.opcode = OpRType, ~Nop(w), n \in DOMAIN RType PROVE o = DecodeR(n, f)
    <3> HIDE DEF f
    <3> QED BY <2>1, <2>2, <2>3, SMT
  <2>4. ASSUME w.opcode = OpFType, n \in DOMAIN FType \/ n \in DOMAIN FBranch
        PROVE  o = DecodeF(n, f)
    <3> HIDE DEF f
    <3> QED BY <1>2, <2>1, <2>2, <2>4, SMT
  <2> HIDE DEF o
  <2> QED BY <2>3, <2>4, Zenon
<1>5. /\ n \in DOMAIN JType /\ w.opcode = JType[n] => o = <<f.addr_j>>
      /\ n \in DOMAIN IType /\ w.opcode = IType[n] => o = DecodeI(n, f)
  <2>1. CASE n \in DOMAIN JType /\ w.opcode = JType[n]
    <3>1. w.opcode # OpRType /\ w.opcode # OpFType /\ n \notin DOMAIN IType
      BY <1>3, <2>1, Opcodes, Zenon
    <3> HIDE DEF f
    <3> QED BY <1>2, <2>1, <3>1, SMT
  <2>2. CASE n \in DOMAIN IType /\ w.opcode = IType[n]
    <3>1. w.opcode # OpRType /\ w.opcode # OpFType /\ n \notin DOMAIN JType
      BY <1>3, <2>2, Opcodes, Zenon
    <3> HIDE DEF f
    <3> QED BY <1>2, <2>2, <3>1, SMT
  <2> QED BY <1>3, <2>1, <2>2, Zenon
<1> HIDE DEF f, o
<1>6. /\ n \in DOMAIN FType /\ ~Nop(w) => Decode(w) = [name |-> n, cop |-> f.cop, ops |-> o]
      /\ n \notin DOMAIN FType /\ ~Nop(w) => Decode(w) = [name |-> n, cop |-> 0, ops |-> o]
  BY <1>1, Zenon
<1>7. /\ n \in DOMAIN JType /\ w.opcode = JType[n] => ~Nop(w)
      /\ n \in DOMAIN IType /\ w.opcode = IType[n] => ~Nop(w)
      /\ w.opcode = OpFType => ~Nop(w)
  BY <1>2, Opcodes, Zenon
<1> QED BY <1>3, <1>4, <1>5, <1>6, <1>7, Zenon DEF f

(* A word of registers is displayed by its name, with the registers it was  *)
(* packed of, unless it is that of nop.                                     *)
LEMMA DecodedR ==
  ASSUME NEW a \in Register, NEW b \in Register, NEW c \in Register, NEW d \in Register,
         NEW n \in DOMAIN RType, ~(n = "sll" /\ b = 0 /\ c = 0 /\ d = 0),
         NEW w, w.opcode = OpRType, w.rest = Packed(a, b, c, d, RType[n])
  PROVE  /\ Decode(w) = [name |-> n, cop |-> 0, ops |-> DecodeR(n, Fill(w))]
         /\ Fill(w).rs = a /\ Fill(w).rt = b /\ Fill(w).rd = c /\ Fill(w).shamt = d
<1>1. RType[n] \in 0 .. FunctSize - 1
  BY Numbers, Sizes, SMT
<1>2. /\ Reg1(w) = a /\ Reg2(w) = b /\ Reg3(w) = c /\ Reg4(w) = d
      /\ w.rest % FunctSize = RType[n]
  BY <1>1, FiveFields
<1>3. NameOf(w) = n
  BY <1>2, NameOfIs, Zenon
<1>4. ~Nop(w)
  <2> SUFFICES ASSUME w.rest = 0 PROVE FALSE
    BY DEF Nop
  <2>1. 0 % FunctSize = 0 /\ 0 \div ImmSize = 0 /\ 0 \div (RegSize * FunctSize) = 0
        /\ 0 \div FunctSize = 0 /\ 0 % RegSize = 0
    BY Sizes, SMT
  <2>2. RType[n] = 0 /\ b = 0 /\ c = 0 /\ d = 0
    BY <1>2, <2>1, Zenon DEF Reg2, Reg3, Reg4
  <2>3. n = "sll"
    BY <2>2, SMT DEF RType
  <2> QED BY <2>2, <2>3
<1>5. Fill(w).rs = a /\ Fill(w).rt = b /\ Fill(w).rd = c /\ Fill(w).shamt = d
  BY <1>2, Opcodes DEF Fill
<1> QED BY <1>3, <1>4, <1>5, DecodeIs, Zenon

(* So is a word of floating-point registers, with its precision.            *)
LEMMA DecodedF ==
  ASSUME NEW a \in {0, 1}, NEW b \in Register, NEW c \in Register, NEW d \in Register,
         NEW n \in DOMAIN FType,
         NEW w, w.opcode = OpFType, w.rest = Packed(a, b, c, d, FType[n])
  PROVE  /\ Decode(w) = [name |-> n, cop |-> a, ops |-> DecodeF(n, Fill(w))]
         /\ Fill(w).rs = b /\ Fill(w).rt = c /\ Fill(w).rd = d
<1>1. FType[n] \in 0 .. FunctSize - 1 /\ a \in Register /\ a # FpBranchCop
  BY Numbers, Sizes, SMT DEF Register, FpBranchCop
<1>2. /\ Reg1(w) = a /\ Reg2(w) = b /\ Reg3(w) = c /\ Reg4(w) = d
      /\ w.rest % FunctSize = FType[n]
  BY <1>1, FiveFields
<1>3. NameOf(w) = n
  BY <1>1, <1>2, NameOfIs, Zenon
<1>4. Fill(w).cop = a /\ Fill(w).rs = b /\ Fill(w).rt = c /\ Fill(w).rd = d
  BY <1>2 DEF Fill
<1> QED BY <1>3, <1>4, DecodeIs, Zenon

(* A word with an immediate is displayed with its registers and what is     *)
(* behind them.                                                             *)
LEMMA DecodedI ==
  ASSUME NEW a \in Register, NEW b \in Register, NEW n \in DOMAIN IType,
         NEW w, w.opcode = IType[n], w.rest \in Nat, w.rest \div ImmSize = a * RegSize + b
  PROVE  /\ Decode(w) = [name |-> n, cop |-> 0, ops |-> DecodeI(n, Fill(w))]
         /\ Fill(w).rs = a /\ Fill(w).rt = b /\ Fill(w).addr_i = w.rest % ImmSize
<1>1. Reg1(w) = a /\ Reg2(w) = b
  BY TwoFields
<1>2. NameOf(w) = n
  BY NameOfIs, Zenon
<1>3. Fill(w).rs = a /\ Fill(w).rt = b /\ Fill(w).addr_i = w.rest % ImmSize
  BY <1>1, Opcodes DEF Fill
<1> QED BY <1>2, <1>3, DecodeIs, Zenon

(* A floating-point branch is displayed with its displacement, a jump with  *)
(* its target.                                                              *)
LEMMA DecodedOther ==
  ASSUME NEW w
  PROVE  /\ \A n \in DOMAIN FBranch :
              /\ w.opcode = OpFType /\ w.rest \in Nat
              /\ w.rest \div ImmSize = FpBranchCop * RegSize + FBranch[n]
              => Decode(w) = [name |-> n, cop |-> 0, ops |-> DecodeF(n, Fill(w))]
         /\ \A n \in DOMAIN JType :
              w.opcode = JType[n] => Decode(w) = [name |-> n, cop |-> 0, ops |-> <<w.rest>>]
<1>1. ASSUME NEW n \in DOMAIN FBranch, w.opcode = OpFType, w.rest \in Nat,
             w.rest \div ImmSize = FpBranchCop * RegSize + FBranch[n]
      PROVE  Decode(w) = [name |-> n, cop |-> 0, ops |-> DecodeF(n, Fill(w))]
  <2>1. FpBranchCop \in Register /\ FBranch[n] \in Register
    BY Numbers, SMT DEF FpBranchCop, Register, RegSize
  <2>2. Reg1(w) = FpBranchCop /\ Reg2(w) = FBranch[n]
    BY <1>1, <2>1, TwoFields
  <2>3. NameOf(w) = n
    BY <1>1, <2>2, NameOfIs, Zenon
  <2> QED BY <1>1, <2>3, DecodeIs, Zenon
<1>2. ASSUME NEW n \in DOMAIN JType, w.opcode = JType[n]
      PROVE  Decode(w) = [name |-> n, cop |-> 0, ops |-> <<w.rest>>]
  <2>1. NameOf(w) = n
    BY <1>2, NameOfIs, Zenon
  <2>2. Fill(w).addr_j = w.rest
    BY FilledImmediates
  <2> QED BY <1>2, <2>1, <2>2, DecodeIs, Zenon
<1> QED BY <1>1, <1>2

(* What encode_instruction makes of the fields of each format.              *)
LEMMA EncodedR ==
  ASSUME NEW f, f.opcode = OpRType, f.rs \in Register, f.rt \in Register, f.rd \in Register,
         f.shamt \in Register, f.funct \in 0 .. FunctSize - 1
  PROVE  /\ Encode(f).opcode = OpRType
         /\ Encode(f).rest = Packed(f.rs, f.rt, f.rd, f.shamt, f.funct)
<1>1. f.opcode \notin {JType[n] : n \in DOMAIN JType} /\ f.opcode # OpFType
  BY Opcodes
<1>2. Encode(f).rest = ((((High(f.rs) | Low(f.rt)) | Third(f.rd)) | Fourth(f.shamt)) | f.funct)
  BY <1>1, SMT DEF Encode
<1> HIDE DEF OpRType
<1>3. Encode(f).opcode = OpRType
  BY DEF Encode
<1>4. ((((High(f.rs) | Low(f.rt)) | Third(f.rd)) | Fourth(f.shamt)) | f.funct)
        = Packed(f.rs, f.rt, f.rd, f.shamt, f.funct)
  BY FivePacked
<1> QED BY <1>2, <1>3, <1>4, Zenon

(* A word of the F type has the five fields it was made of.                 *)
LEMMA EncodedF ==
  ASSUME NEW f, f.opcode = OpFType, f.cop \in {0, 1}, f.rs \in Register, f.rt \in Register,
         f.rd \in Register, f.funct \in 0 .. FunctSize - 1
  PROVE  /\ Encode(f).opcode = OpFType
         /\ Encode(f).rest = Packed(f.cop, f.rs, f.rt, f.rd, f.funct)
<1>1. /\ f.opcode \notin {JType[n] : n \in DOMAIN JType} /\ f.opcode # OpRType
      /\ f.cop # FpBranchCop /\ f.cop \in Register
  <2>1. f.cop # FpBranchCop /\ f.cop \in Register
    BY DEF FpBranchCop, Register, RegSize
  <2> QED BY <2>1, Opcodes
<1>2. Encode(f).rest = ((High(f.cop) | Low(f.rs)) | ((Third(f.rt) | Fourth(f.rd)) | f.funct))
  BY <1>1, SMT DEF Encode
<1>3. Encode(f).opcode = OpFType
  BY DEF Encode
<1>4. ((High(f.cop) | Low(f.rs)) | ((Third(f.rt) | Fourth(f.rd)) | f.funct))
        = Packed(f.cop, f.rs, f.rt, f.rd, f.funct)
  BY <1>1, FivePacked
<1> QED BY <1>2, <1>3, <1>4, Zenon

(* A word of the I type has its registers and its immediate.                *)
LEMMA EncodedI ==
  ASSUME NEW f, NEW n \in DOMAIN IType, f.opcode = IType[n], f.rs \in Register, f.rt \in Register,
         f.addr_i \in 0 .. ImmSize - 1
  PROVE  /\ Encode(f).opcode = IType[n]
         /\ Encode(f).rest \div ImmSize = f.rs * RegSize + f.rt
         /\ Encode(f).rest % ImmSize = f.addr_i
<1>1. /\ f.opcode \notin {JType[j] : j \in DOMAIN JType}
      /\ f.opcode # OpRType /\ f.opcode # OpFType
  BY Opcodes
<1>2. Encode(f).rest = ((High(f.rs) | Low(f.rt)) | f.addr_i)
  BY <1>1, SMT DEF Encode
<1>3. Encode(f).opcode = IType[n]
  BY DEF Encode
<1> DEFINE x == f.rs * RegSize + f.rt
<1>4. Encode(f).rest = x * ImmSize + f.addr_i /\ x \in Nat
  BY <1>2, TwoPacked, Zenon
<1> DEFINE i == f.addr_i
           r == Encode(f).rest
<1>5. r = x * ImmSize + i /\ i \in 0 .. ImmSize - 1
  BY <1>4
<1> HIDE DEF x, i, r, ImmSize
<1>6. r \div ImmSize = x
  BY <1>4, <1>5, ImmSizes, Parts
<1>7. r % ImmSize = i
  BY <1>4, <1>5, ImmSizes, Parts
<1> QED BY <1>3, <1>6, <1>7 DEF x, i, r

(* A branch of the coprocessor has its condition above the distance.        *)
LEMMA EncodedB ==
  ASSUME NEW f, f.opcode = OpFType, f.cop = FpBranchCop, f.rs \in Register,
         f.addr_i \in 0 .. ImmSize - 1
  PROVE  /\ Encode(f).opcode = OpFType
         /\ Encode(f).rest \div ImmSize = FpBranchCop * RegSize + f.rs
<1>1. /\ f.opcode \notin {JType[n] : n \in DOMAIN JType} /\ f.opcode # OpRType
  BY Opcodes
<1>2. Encode(f).rest = ((High(f.cop) | Low(f.rs)) | f.addr_i)
  BY <1>1, SMT DEF Encode
<1>3. Encode(f).opcode = OpFType
  BY DEF Encode
<1>4. FpBranchCop \in Register
  BY DEF FpBranchCop, Register, RegSize
<1> DEFINE x == FpBranchCop * RegSize + f.rs
<1>5. Encode(f).rest = x * ImmSize + f.addr_i /\ x \in Nat
  BY <1>2, <1>4, TwoPacked, Zenon
<1> HIDE DEF x, ImmSize
<1>6. Encode(f).rest \div ImmSize = x
  BY <1>5, ImmSizes, Parts
<1> QED BY <1>3, <1>6 DEF x

(* A jump has its address.                                                  *)
LEMMA EncodedJ ==
  ASSUME NEW f, NEW n \in DOMAIN JType, f.opcode = JType[n]
  PROVE  Encode(f).opcode = JType[n] /\ Encode(f).rest = f.addr_j
<1>1. /\ f.opcode \in {JType[j] : j \in DOMAIN JType}
      /\ f.opcode # OpRType /\ f.opcode # OpFType
  BY Opcodes
<1>2. Encode(f).rest = f.addr_j
  BY <1>1, SMT DEF Encode
<1>3. Encode(f).opcode = JType[n]
  BY DEF Encode
<1> QED BY <1>2, <1>3

(* A word is what was put together of a line, or has been given the place   *)
(* of its label since.                                                      *)
SameAs(kind, w, v) ==
  /\ w.opcode = v.opcode /\ w.rest \in Rest26
  /\ kind = "plain" => w.rest = v.rest
  /\ kind = "relative" => w.rest \div ImmSize = v.rest \div ImmSize

(* It is displayed as the line was written.                                 *)
ShownAs(w, l) ==
  LET shown == Decode(w)
  IN  /\ shown.name = l.name /\ shown.cop = l.cop
      /\ Len(shown.ops) = Len(l.ops) + (IF l.kind = "plain" THEN 0 ELSE 1)
      /\ \A n \in DOMAIN l.ops :
           l.ops[n] % ImmSize = IF shown.name \in Compares THEN shown.ops[3 - n] ELSE shown.ops[n]

(* For that it is enough to know the operands displayed.                    *)
LEMMA ShownIs ==
  ASSUME NEW w, NEW l, NEW o, Decode(w) = [name |-> l.name, cop |-> l.cop, ops |-> o],
         Len(o) = Len(l.ops) + (IF l.kind = "plain" THEN 0 ELSE 1),
         \A n \in DOMAIN l.ops :
           l.ops[n] % ImmSize = IF l.name \in Compares THEN o[3 - n] ELSE o[n]
  PROVE  ShownAs(w, l)
<1> DEFINE d == Decode(w)
<1>1. d.name = l.name /\ d.cop = l.cop /\ d.ops = o
  OBVIOUS
<1> HIDE DEF d
<1> QED BY <1>1, Zenon DEF ShownAs, d

(* A register fits in an immediate.                                         *)
LEMMA RegisterModulo == \A x \in Register : x % ImmSize = x /\ x \in Nat
BY Sizes, SMT DEF Register

(* What a line of a file says, and what its statement is made of.           *)
LEMMA StatementParts ==
  ASSUME NEW l \in Line, l.kind \in InstructionKind, Assembles(l), ~Ends(l),
         NEW s, s = Statement(l)
  PROVE  /\ s.name = l.name /\ s.cop = l.cop /\ Written(l)
         /\ l.cop \in {0, 1} /\ (l.name \notin Doubled => l.cop = 0)
         /\ l.kind = "plain" => s.ops = l.ops
         /\ l.kind # "plain" => s.ops = Append(l.ops, Digits[l.label])
                                /\ Digits[l.label] \in 0 .. 15
         /\ l.name \notin HalfWords /\ l.name \notin {"subi", "c.ne.", "c.ge.", "c.gt."}
         /\ l.kind = "absolute" => l.name \in {"j", "jal"}
         /\ l.kind = "plain" => l.name # "jalr"
<1>1. /\ s.name = l.name /\ s.cop = l.cop /\ s.ops = Operands(l) /\ l.cop \in {0, 1}
      /\ Written(l) /\ (l.kind # "plain" => Digits[l.label] \in 0 .. 15)
      /\ (l.name \notin Doubled => l.cop = 0)
  BY LineAssumption, DigitsAssumption
  DEF LineAssumption, DigitsAssumption, Legal, Written, Statement, InstructionKind
<1>2. /\ l.kind = "plain" => s.ops = l.ops
      /\ l.kind # "plain" => s.ops = Append(l.ops, Digits[l.label])
  BY <1>1 DEF Operands
<1>3. l.name \notin {"subi", "c.ne.", "c.ge.", "c.gt."}
  <2>1. \A n \in {"subi", "c.ne.", "c.ge.", "c.gt."} : l.name = n => FALSE
    BY OtherNames DEF Assembles
  <2> QED BY <2>1
<1>4. /\ l.name \notin HalfWords /\ (l.kind = "absolute" => l.name \in {"j", "jal"})
      /\ l.kind = "plain" => l.name # "jalr"
  BY OtherNames DEF Assembles, Ends
<1> QED BY <1>1, <1>2, <1>3, <1>4

(* The fields of an instruction on registers, of a floating-point one, and  *)
(* of one with an immediate.                                                *)
LEMMA RFieldsAre ==
  ASSUME NEW s, NEW f, f = RFields(s)
  PROVE  /\ f.opcode = OpRType /\ f.funct = RType[s.name]
         /\ s.name = "syscall" => f.rs = 0 /\ f.rt = 0 /\ f.rd = 0 /\ f.shamt = 0
         /\ s.name \in MulDiv =>
              f.rs = s.ops[1] /\ f.rt = s.ops[2] /\ f.rd = 0 /\ f.shamt = 0
         /\ s.name \in Shifts =>
              f.rs = 0 /\ f.rt = s.ops[2] /\ f.rd = s.ops[1] /\ f.shamt = s.ops[3] % ByteSize
         /\ s.name = "jr" => f.rs = s.ops[1] /\ f.rt = 0 /\ f.rd = 0 /\ f.shamt = 0
         /\ s.name \notin MulDiv \cup Shifts \cup {"syscall", "jr"} =>
              f.rs = s.ops[2] /\ f.rt = s.ops[3] /\ f.rd = s.ops[1] /\ f.shamt = 0
<1> DEFINE b == [Blank EXCEPT !.funct = RType[s.name]]
           o == s.ops
<1>1. /\ b = [opcode |-> OpRType, cop |-> 0, rs |-> 0, rt |-> 0, rd |-> 0, shamt |-> 0,
              funct |-> RType[s.name], addr_i |-> 0, addr_j |-> 0]
  <2> DEFINE c == RType[s.name]
  <2> HIDE DEF c
  <2>1. [Blank EXCEPT !.funct = c]
          = [opcode |-> OpRType, cop |-> 0, rs |-> 0, rt |-> 0, rd |-> 0, shamt |-> 0,
             funct |-> c, addr_i |-> 0, addr_j |-> 0]
    BY DEF Blank
  <2> QED BY <2>1 DEF c
<1>2. /\ s.name = "syscall" => f = b
      /\ s.name \in MulDiv => f = [b EXCEPT !.rs = o[1], !.rt = o[2]]
      /\ s.name \in Shifts => f = [b EXCEPT !.rd = o[1], !.rt = o[2], !.shamt = o[3] % ByteSize]
      /\ s.name = "jr" => f = [b EXCEPT !.rs = o[1]]
      /\ s.name \notin MulDiv \cup Shifts \cup {"syscall", "jr"} =>
           f = [b EXCEPT !.rd = o[1], !.rs = o[2], !.rt = o[3]]
  <2> HIDE DEF b, o
  <2> QED BY SMT DEF RFields, b, o, MulDiv, Shifts
<1> HIDE DEF b, o
<1>3. CASE s.name = "syscall"
  BY <1>1, <1>2, <1>3 DEF MulDiv, Shifts
<1>4. CASE s.name \in MulDiv
  BY <1>1, <1>2, <1>4 DEF MulDiv, Shifts, o
<1>5. CASE s.name \in Shifts
  BY <1>1, <1>2, <1>5 DEF MulDiv, Shifts, o
<1>6. CASE s.name = "jr"
  BY <1>1, <1>2, <1>6 DEF MulDiv, Shifts, o
<1>7. CASE s.name \notin MulDiv \cup Shifts \cup {"syscall", "jr"}
  BY <1>1, <1>2, <1>7 DEF o
<1> QED BY <1>3, <1>4, <1>5, <1>6, <1>7, Zenon

(* The fields of a statement of the F type.                                 *)
LEMMA FFieldsAre ==
  ASSUME NEW s, NEW f, f = FFields(s)
  PROVE  /\ f.opcode = OpFType /\ f.cop = s.cop /\ f.funct = FType[s.name]
         /\ s.name = "mov." => f.rs = 0 /\ f.rt = s.ops[2] /\ f.rd = s.ops[1]
         /\ s.name \in Compares => f.rs = s.ops[2] /\ f.rt = s.ops[1] /\ f.rd = 0
         /\ s.name \notin Compares \cup {"mov."} =>
              f.rs = s.ops[2] /\ f.rt = s.ops[3] /\ f.rd = s.ops[1]
<1> DEFINE b == [Blank EXCEPT !.opcode = OpFType, !.cop = s.cop, !.funct = FType[s.name]]
           o == s.ops
<1>1. b = [opcode |-> OpFType, cop |-> s.cop, rs |-> 0, rt |-> 0, rd |-> 0, shamt |-> 0,
           funct |-> FType[s.name], addr_i |-> 0, addr_j |-> 0]
  <2> DEFINE c == FType[s.name]
             p == s.cop
  <2> HIDE DEF c, p, OpFType
  <2> DEFINE x == [Blank EXCEPT !.opcode = OpFType]
             y == [x EXCEPT !.cop = p]
  <2>1. x = [opcode |-> OpFType, cop |-> 0, rs |-> 0, rt |-> 0, rd |-> 0, shamt |-> 0,
             funct |-> 0, addr_i |-> 0, addr_j |-> 0]
    BY DEF Blank
  <2> HIDE DEF x
  <2>2. y = [opcode |-> OpFType, cop |-> p, rs |-> 0, rt |-> 0, rd |-> 0, shamt |-> 0,
             funct |-> 0, addr_i |-> 0, addr_j |-> 0]
    BY <2>1
  <2> HIDE DEF y
  <2>3. [y EXCEPT !.funct = c]
          = [opcode |-> OpFType, cop |-> p, rs |-> 0, rt |-> 0, rd |-> 0, shamt |-> 0,
             funct |-> c, addr_i |-> 0, addr_j |-> 0]
    BY <2>2
  <2> QED BY <2>3, Zenon DEF c, p, x, y
<1>2. /\ s.name = "mov." => f = [b EXCEPT !.rd = o[1], !.rt = o[2]]
      /\ s.name \in Compares => f = [b EXCEPT !.rt = o[1], !.rs = o[2]]
      /\ s.name \notin Compares \cup {"mov."} =>
           f = [b EXCEPT !.rd = o[1], !.rs = o[2], !.rt = o[3]]
  <2> HIDE DEF b, o
  <2> QED BY SMT DEF FFields, b, o, Compares
<1> HIDE DEF b, o
<1>3. CASE s.name = "mov."
  BY <1>1, <1>2, <1>3 DEF Compares, o
<1>4. CASE s.name \in Compares
  BY <1>1, <1>2, <1>4 DEF Compares, o
<1>5. CASE s.name \notin Compares \cup {"mov."}
  BY <1>1, <1>2, <1>5 DEF o
<1> QED BY <1>3, <1>4, <1>5, Zenon

(* The fields of a statement of the I type.                                 *)
LEMMA IFieldsAre ==
  ASSUME NEW s, NEW f, f = IFields(s)
  PROVE  /\ f.opcode = IType[s.name]
         /\ s.name \in Displaced =>
              f.rt = s.ops[1] /\ f.rs = s.ops[3] /\ f.addr_i = s.ops[2] % ImmSize
         /\ s.name = "lui" => f.rt = s.ops[1] /\ f.rs = 0 /\ f.addr_i = s.ops[2] % ImmSize
         /\ s.name \in {"beq", "bne"} =>
              f.rs = s.ops[1] /\ f.rt = s.ops[2] /\ f.addr_i = s.ops[3] % ImmSize
         /\ s.name \notin Displaced \cup {"lui", "beq", "bne"} =>
              f.rt = s.ops[1] /\ f.rs = s.ops[2] /\ f.addr_i = s.ops[3] % ImmSize
<1> DEFINE b == [Blank EXCEPT !.opcode = IType[s.name]]
           o == s.ops
           g == IOperands(s)
<1>1. b = [opcode |-> IType[s.name], cop |-> 0, rs |-> 0, rt |-> 0, rd |-> 0, shamt |-> 0,
           funct |-> 0, addr_i |-> 0, addr_j |-> 0]
  <2> HIDE DEF IType
  <2> QED BY DEF Blank
<1>2. /\ s.name \in Displaced =>
           g = [b EXCEPT !.rt = o[1], !.addr_i = o[2] % ImmSize, !.rs = o[3]]
      /\ s.name = "lui" => g = [b EXCEPT !.rt = o[1], !.addr_i = o[2] % ImmSize]
      /\ s.name \notin Displaced \cup {"lui"} =>
           g = [b EXCEPT !.rt = o[1], !.rs = o[2], !.addr_i = o[3] % ImmSize]
  <2> HIDE DEF b, o
  <2> QED BY SMT DEF IOperands, b, o, Displaced
<1>3. /\ s.name \in {"beq", "bne"} => f = [g EXCEPT !.rs = g.rt, !.rt = g.rs]
      /\ s.name \notin {"beq", "bne"} => f = g
  BY Zenon DEF IFields
<1> HIDE DEF b, o, g
<1>4. /\ g.opcode = IType[s.name]
      /\ s.name \in Displaced => g.rt = o[1] /\ g.rs = o[3] /\ g.addr_i = o[2] % ImmSize
      /\ s.name = "lui" => g.rt = o[1] /\ g.rs = 0 /\ g.addr_i = o[2] % ImmSize
      /\ s.name \notin Displaced \cup {"lui"} =>
           g.rt = o[1] /\ g.rs = o[2] /\ g.addr_i = o[3] % ImmSize
      /\ g = [opcode |-> g.opcode, cop |-> g.cop, rs |-> g.rs, rt |-> g.rt, rd |-> g.rd,
              shamt |-> g.shamt, funct |-> g.funct, addr_i |-> g.addr_i, addr_j |-> g.addr_j]
  <2> DEFINE c == IType[s.name]
             i2 == o[2] % ImmSize
             i3 == o[3] % ImmSize
  <2> HIDE DEF c, i2, i3
  <2>1. b = [opcode |-> c, cop |-> 0, rs |-> 0, rt |-> 0, rd |-> 0, shamt |-> 0,
             funct |-> 0, addr_i |-> 0, addr_j |-> 0]
    BY <1>1 DEF c
  <2>2. /\ s.name \in Displaced => g = [b EXCEPT !.rt = o[1], !.addr_i = i2, !.rs = o[3]]
        /\ s.name = "lui" => g = [b EXCEPT !.rt = o[1], !.addr_i = i2]
        /\ s.name \notin Displaced \cup {"lui"} =>
             g = [b EXCEPT !.rt = o[1], !.rs = o[2], !.addr_i = i3]
    BY <1>2, Zenon DEF i2, i3
  <2>3. CASE s.name \in Displaced
    <3>1. s.name # "lui"
      BY <2>3 DEF Displaced
    <3> QED BY <2>1, <2>2, <2>3, <3>1 DEF c, i2
  <2>4. CASE s.name = "lui"
    <3>1. s.name \notin Displaced
      BY <2>4 DEF Displaced
    <3> QED BY <2>1, <2>2, <2>4, <3>1 DEF c, i2
  <2>5. CASE s.name \notin Displaced \cup {"lui"}
    BY <2>1, <2>2, <2>5 DEF c, i3
  <2> QED BY <2>3, <2>4, <2>5, Zenon
<1>5. CASE s.name \in {"beq", "bne"}
  <2>1. s.name \notin Displaced \cup {"lui"}
    BY <1>5 DEF Displaced
  <2>2. /\ g.rt = o[1] /\ g.rs = o[2] /\ g.addr_i = o[3] % ImmSize
        /\ f = [g EXCEPT !.rs = g.rt, !.rt = g.rs]
    BY <1>3, <1>4, <1>5, <2>1, Zenon
  <2>3. f.opcode = g.opcode /\ f.rs = g.rt /\ f.rt = g.rs /\ f.addr_i = g.addr_i
    BY <1>4, <2>2
  <2> QED BY <1>4, <1>5, <2>1, <2>2, <2>3, Zenon DEF o
<1>6. CASE s.name \notin {"beq", "bne"}
  <2>1. f = g
    BY <1>3, <1>6
  <2> QED BY <1>4, <1>6, <2>1, Zenon DEF o
<1> QED BY <1>5, <1>6

(* The operands of an instruction that names no label, one after the other. *)
LEMMA ShownThree ==
  ASSUME NEW w, NEW l, l.kind = "plain", l.name \notin Compares,
         NEW x \in Int, NEW y \in Int, NEW z \in Int, l.ops = <<x, y, z>>,
         NEW i, NEW j, NEW k, i = x % ImmSize, j = y % ImmSize, k = z % ImmSize,
         Decode(w) = [name |-> l.name, cop |-> l.cop, ops |-> <<i, j, k>>]
  PROVE  ShownAs(w, l)
<1>1. Len(<<i, j, k>>) = 3 /\ Len(l.ops) = 3 /\ DOMAIN l.ops = 1 .. 3
  OBVIOUS
<1>2. \A n \in 1 .. 3 : l.ops[n] % ImmSize = <<i, j, k>>[n]
  <2>1. l.ops[1] = x /\ l.ops[2] = y /\ l.ops[3] = z
    OBVIOUS
  <2> HIDE DEF ImmSize
  <2> QED BY <2>1
<1> DEFINE o == <<i, j, k>>
<1>3. /\ Len(o) = Len(l.ops) + (IF l.kind = "plain" THEN 0 ELSE 1)
      /\ \A n \in DOMAIN l.ops :
           l.ops[n] % ImmSize = IF l.name \in Compares THEN o[3 - n] ELSE o[n]
  <2>1. Len(o) = 3 /\ \A n \in 1 .. 3 : l.ops[n] % ImmSize = o[n]
    BY <1>1, <1>2
  <2> HIDE DEF o, ImmSize
  <2> QED BY <1>1, <2>1
<1>4. Decode(w) = [name |-> l.name, cop |-> l.cop, ops |-> o]
  OBVIOUS
<1> HIDE DEF o
<1> QED BY <1>3, <1>4, ShownIs, Zenon

(* The same with two operands.                                              *)
LEMMA ShownTwo ==
  ASSUME NEW w, NEW l, l.kind = "plain", l.name \notin Compares,
         NEW x \in Int, NEW y \in Int, l.ops = <<x, y>>,
         NEW i, NEW j, i = x % ImmSize, j = y % ImmSize,
         Decode(w) = [name |-> l.name, cop |-> l.cop, ops |-> <<i, j>>]
  PROVE  ShownAs(w, l)
<1>1. Len(<<i, j>>) = 2 /\ Len(l.ops) = 2 /\ DOMAIN l.ops = 1 .. 2
  OBVIOUS
<1>2. \A n \in 1 .. 2 : l.ops[n] % ImmSize = <<i, j>>[n]
  <2>1. l.ops[1] = x /\ l.ops[2] = y
    OBVIOUS
  <2> HIDE DEF ImmSize
  <2> QED BY <2>1
<1> DEFINE o == <<i, j>>
<1>3. /\ Len(o) = Len(l.ops) + (IF l.kind = "plain" THEN 0 ELSE 1)
      /\ \A n \in DOMAIN l.ops :
           l.ops[n] % ImmSize = IF l.name \in Compares THEN o[3 - n] ELSE o[n]
  <2>1. Len(o) = 2 /\ \A n \in 1 .. 2 : l.ops[n] % ImmSize = o[n]
    BY <1>1, <1>2
  <2> HIDE DEF o, ImmSize
  <2> QED BY <1>1, <2>1
<1>4. Decode(w) = [name |-> l.name, cop |-> l.cop, ops |-> o]
  OBVIOUS
<1> HIDE DEF o
<1> QED BY <1>3, <1>4, ShownIs, Zenon

(* The same with one.                                                       *)
LEMMA ShownOne ==
  ASSUME NEW w, NEW l, l.kind = "plain", l.name \notin Compares,
         NEW x \in Int, l.ops = <<x>>, NEW i, i = x % ImmSize,
         Decode(w) = [name |-> l.name, cop |-> l.cop, ops |-> <<i>>]
  PROVE  ShownAs(w, l)
<1>1. Len(<<i>>) = 1 /\ Len(l.ops) = 1 /\ DOMAIN l.ops = 1 .. 1
  OBVIOUS
<1>2. \A n \in 1 .. 1 : l.ops[n] % ImmSize = <<i>>[n]
  <2>1. l.ops[1] = x
    OBVIOUS
  <2> HIDE DEF ImmSize
  <2> QED BY <2>1
<1> DEFINE o == <<i>>
<1>3. /\ Len(o) = Len(l.ops) + (IF l.kind = "plain" THEN 0 ELSE 1)
      /\ \A n \in DOMAIN l.ops :
           l.ops[n] % ImmSize = IF l.name \in Compares THEN o[3 - n] ELSE o[n]
  <2>1. Len(o) = 1 /\ \A n \in 1 .. 1 : l.ops[n] % ImmSize = o[n]
    BY <1>1, <1>2
  <2> HIDE DEF o, ImmSize
  <2> QED BY <1>1, <2>1
<1>4. Decode(w) = [name |-> l.name, cop |-> l.cop, ops |-> o]
  OBVIOUS
<1> HIDE DEF o
<1> QED BY <1>3, <1>4, ShownIs, Zenon

(* The same with none.                                                      *)
LEMMA ShownNone ==
  ASSUME NEW w, NEW l, l.kind = "plain", l.ops = << >>,
         Decode(w) = [name |-> l.name, cop |-> l.cop, ops |-> << >>]
  PROVE  ShownAs(w, l)
<1> DEFINE o == << >>
<1>1. /\ Len(o) = Len(l.ops) + (IF l.kind = "plain" THEN 0 ELSE 1)
      /\ \A n \in DOMAIN l.ops :
           l.ops[n] % ImmSize = IF l.name \in Compares THEN o[3 - n] ELSE o[n]
  <2>1. Len(o) = 0 /\ DOMAIN l.ops = {} /\ Len(l.ops) = 0
    OBVIOUS
  <2> HIDE DEF o, ImmSize
  <2> QED BY <2>1
<1>2. Decode(w) = [name |-> l.name, cop |-> l.cop, ops |-> o]
  OBVIOUS
<1> HIDE DEF o
<1> QED BY <1>1, <1>2, ShownIs, Zenon

(* The same of a comparison, whose operands the table swaps.                *)
LEMMA ShownSwapped ==
  ASSUME NEW w, NEW l, l.kind = "plain", l.name \in Compares,
         NEW x \in Register, NEW y \in Register, l.ops = <<x, y>>,
         Decode(w) = [name |-> l.name, cop |-> l.cop, ops |-> <<y, x>>]
  PROVE  ShownAs(w, l)
<1> DEFINE o == <<y, x>>
<1>1. /\ Len(o) = 2 /\ Len(l.ops) = 2 /\ DOMAIN l.ops = 1 .. 2
      /\ l.ops[1] = x /\ l.ops[2] = y /\ o[1] = y /\ o[2] = x
  OBVIOUS
<1>2. x % ImmSize = x /\ y % ImmSize = y
  BY RegisterModulo
<1>3. Decode(w) = [name |-> l.name, cop |-> l.cop, ops |-> o]
  OBVIOUS
<1> HIDE DEF o, ImmSize
<1>4. \A n \in DOMAIN l.ops :
        l.ops[n] % ImmSize = IF l.name \in Compares THEN o[3 - n] ELSE o[n]
  <2> SUFFICES ASSUME NEW n \in 1 .. 2 PROVE l.ops[n] % ImmSize = o[3 - n]
    BY <1>1
  <2>1. (n = 1 /\ 3 - n = 2) \/ (n = 2 /\ 3 - n = 1)
    OBVIOUS
  <2> QED BY <1>1, <1>2, <2>1
<1>5. Len(o) = Len(l.ops) + (IF l.kind = "plain" THEN 0 ELSE 1)
  BY <1>1
<1> QED BY <1>3, <1>4, <1>5, ShownIs, Zenon

(* The operands of one that does, with what is behind them.                 *)
LEMMA ShownBehind ==
  ASSUME NEW w, NEW l, l.kind # "plain", l.name \notin Compares, NEW i
  PROVE  /\ \A x, y \in Register :
              /\ l.ops = <<x, y>>
              /\ Decode(w) = [name |-> l.name, cop |-> l.cop, ops |-> <<x, y, i>>]
              => ShownAs(w, l)
         /\ /\ l.ops = << >>
            /\ Decode(w) = [name |-> l.name, cop |-> l.cop, ops |-> <<i>>]
            => ShownAs(w, l)
<1>1. ASSUME NEW x \in Register, NEW y \in Register, l.ops = <<x, y>>,
             Decode(w) = [name |-> l.name, cop |-> l.cop, ops |-> <<x, y, i>>]
      PROVE  ShownAs(w, l)
  <2> DEFINE o == <<x, y, i>>
  <2>1. /\ Len(o) = 3 /\ Len(l.ops) = 2 /\ DOMAIN l.ops = 1 .. 2
        /\ l.ops[1] = x /\ l.ops[2] = y /\ o[1] = x /\ o[2] = y
    BY <1>1
  <2>2. x % ImmSize = x /\ y % ImmSize = y
    BY RegisterModulo
  <2>3. Decode(w) = [name |-> l.name, cop |-> l.cop, ops |-> o]
    BY <1>1
  <2> HIDE DEF o, ImmSize
  <2>4. \A n \in DOMAIN l.ops :
          l.ops[n] % ImmSize = IF l.name \in Compares THEN o[3 - n] ELSE o[n]
    <3> SUFFICES ASSUME NEW n \in 1 .. 2 PROVE l.ops[n] % ImmSize = o[n]
      BY <2>1
    <3>1. n = 1 \/ n = 2
      OBVIOUS
    <3> QED BY <2>1, <2>2, <3>1
  <2>5. Len(o) = Len(l.ops) + (IF l.kind = "plain" THEN 0 ELSE 1)
    BY <2>1
  <2> QED BY <2>3, <2>4, <2>5, ShownIs, Zenon
<1>2. ASSUME l.ops = << >>, Decode(w) = [name |-> l.name, cop |-> l.cop, ops |-> <<i>>]
      PROVE  ShownAs(w, l)
  <2> DEFINE o == <<i>>
  <2>1. Len(o) = 1 /\ Len(l.ops) = 0 /\ DOMAIN l.ops = {}
    BY <1>2
  <2>2. Decode(w) = [name |-> l.name, cop |-> l.cop, ops |-> o]
    BY <1>2
  <2> HIDE DEF o, ImmSize
  <2>3. \A n \in DOMAIN l.ops :
          l.ops[n] % ImmSize = IF l.name \in Compares THEN o[3 - n] ELSE o[n]
    BY <2>1
  <2>4. Len(o) = Len(l.ops) + (IF l.kind = "plain" THEN 0 ELSE 1)
    BY <2>1
  <2> QED BY <2>2, <2>3, <2>4, ShownIs, Zenon
<1> QED BY <1>1, <1>2

(* What is displayed of the formats of registers.                           *)
LEMMA ShownR ==
  ASSUME NEW l \in Line, l.kind = "plain", Assembles(l), ~Ends(l), ~Ambiguous(l),
         NEW w, SameAs("plain", w, Assemble(Statement(l))),
         \/ /\ l.name \in {"add", "sub", "and", "or", "xor", "nor", "slt", "sllv", "srlv", "srav"}
            /\ l.ops \in Register \X Register \X Register
         \/ l.name \in MulDiv /\ l.ops \in Register \X Register
         \/ l.name \in Shifts /\ l.ops \in Register \X Register \X Int
         \/ l.name = "jr" /\ l.ops \in { <<r>> : r \in Register }
         \/ l.name = "syscall" /\ l.ops = << >>
  PROVE  ShownAs(w, l)
<1> DEFINE s == Statement(l)
           f == Fields(s)
           n == l.name
           v == Fill(w)
<1>1. s.name = n /\ s.ops = l.ops /\ (n \notin Doubled => l.cop = 0)
  BY StatementParts DEF InstructionKind
<1>2. n \in DOMAIN RType /\ n \notin DOMAIN FType /\ n # "nop"
      /\ n \notin DOMAIN JType /\ n \notin DOMAIN IType /\ n \notin DOMAIN FBranch
  BY RNames DEF MulDiv, Shifts
<1>3. f = RFields(s)
  BY <1>1, <1>2, SMT DEF Fields
<1>4. l.cop = 0
  BY <1>1 DEF MulDiv, Shifts, Doubled, Compares
<1>5. w.opcode = Encode(f).opcode /\ w.rest = Encode(f).rest
  BY Zenon DEF SameAs, Assemble
<1>6. f.opcode = OpRType /\ f.funct = RType[n] /\ RType[n] \in 0 .. FunctSize - 1
  <2>1. RType[n] \in 0 .. FunctSize - 1
    BY <1>2, Numbers, Sizes, SMT
  <2> HIDE DEF f, s, n
  <2>2. f.opcode = OpRType /\ f.funct = RType[s.name]
    BY <1>3, RFieldsAre, Zenon
  <2> QED BY <1>1, <2>1, <2>2, Zenon
<1>7. 0 \in Register
  BY DEF Register, RegSize
<1> HIDE DEF f, s, n
<1>8. ASSUME NEW a \in Register, NEW b \in Register, NEW c \in Register, NEW d \in Register,
             f.rs = a, f.rt = b, f.rd = c, f.shamt = d, ~(n = "sll" /\ b = 0 /\ c = 0 /\ d = 0)
      PROVE  /\ Decode(w) = [name |-> n, cop |-> 0, ops |-> DecodeR(n, v)]
             /\ v.rs = a /\ v.rt = b /\ v.rd = c /\ v.shamt = d
  <2>1. Encode(f).opcode = OpRType /\ Encode(f).rest = Packed(a, b, c, d, RType[n])
    BY <1>6, <1>8, EncodedR
  <2>2. w.opcode = OpRType /\ w.rest = Packed(a, b, c, d, RType[n])
    BY <1>5, <2>1
  <2> HIDE DEF v
  <2>3. n \in DOMAIN RType /\ ~(n = "sll" /\ b = 0 /\ c = 0 /\ d = 0)
    BY <1>2, <1>8
  <2>4. Decode(w) = [name |-> n, cop |-> 0, ops |-> DecodeR(n, v)]
    BY <2>2, <2>3, DecodedR DEF v
  <2>5. v.rs = a /\ v.rt = b /\ v.rd = c /\ v.shamt = d
    BY <2>2, <2>3, DecodedR DEF v
  <2> QED BY <2>4, <2>5
<1>9. CASE /\ n \in {"add", "sub", "and", "or", "xor", "nor", "slt", "sllv", "srlv", "srav"}
           /\ l.ops \in Register \X Register \X Register
  <2>1. PICK x \in Register, y \in Register, z \in Register : l.ops = <<x, y, z>>
    BY <1>9
  <2>2. s.ops[1] = x /\ s.ops[2] = y /\ s.ops[3] = z
    BY <1>1, <2>1
  <2>3. n \notin MulDiv \cup Shifts \cup {"syscall", "jr"} /\ n \notin {"jr", "jalr"}
        /\ n \notin Compares /\ n # "sll"
    BY <1>9 DEF MulDiv, Shifts, Compares
  <2>4. f.rs = y /\ f.rt = z /\ f.rd = x /\ f.shamt = 0
    BY <1>1, <1>3, <2>2, <2>3, RFieldsAre, Zenon
  <2>5. /\ Decode(w) = [name |-> n, cop |-> 0, ops |-> DecodeR(n, v)]
        /\ v.rs = y /\ v.rt = z /\ v.rd = x
    BY <1>7, <1>8, <2>3, <2>4, Zenon
  <2> HIDE DEF v
  <2>6. DecodeR(n, v) = <<v.rd, v.rs, v.rt>>
    BY <2>3, SMT DEF DecodeR
  <2>7. DecodeR(n, v) = <<x, y, z>>
    BY <2>5, <2>6
  <2> QED BY <1>4, <2>1, <2>3, <2>5, <2>7, RegisterModulo, ShownThree DEF n
<1>10. CASE n \in MulDiv /\ l.ops \in Register \X Register
  <2>1. PICK x \in Register, y \in Register : l.ops = <<x, y>>
    BY <1>10
  <2>2. s.ops[1] = x /\ s.ops[2] = y
    BY <1>1, <2>1
  <2>3. n \notin {"jr", "jalr"} /\ n \notin Shifts /\ n \notin Compares /\ n # "sll" /\ n # "syscall"
    BY <1>10 DEF MulDiv, Shifts, Compares
  <2>4. f.rs = x /\ f.rt = y /\ f.rd = 0 /\ f.shamt = 0
    BY <1>1, <1>3, <1>10, <2>2, RFieldsAre, Zenon
  <2>5. /\ Decode(w) = [name |-> n, cop |-> 0, ops |-> DecodeR(n, v)]
        /\ v.rs = x /\ v.rt = y
    BY <1>7, <1>8, <2>3, <2>4, Zenon
  <2> HIDE DEF v
  <2>6. DecodeR(n, v) = <<v.rs, v.rt>>
    BY <1>10, <2>3, SMT DEF DecodeR
  <2>7. DecodeR(n, v) = <<x, y>>
    BY <2>5, <2>6
  <2> QED BY <1>4, <2>1, <2>3, <2>5, <2>7, RegisterModulo, ShownTwo DEF n
<1>11. CASE n \in Shifts /\ l.ops \in Register \X Register \X Int
  <2>1. PICK x \in Register, y \in Register, z \in Int : l.ops = <<x, y, z>>
    BY <1>11
  <2>2. s.ops[1] = x /\ s.ops[2] = y /\ s.ops[3] = z /\ l.ops[3] = z
    BY <1>1, <2>1
  <2>3. n \notin {"jr", "jalr"} /\ n \notin MulDiv /\ n \notin Compares /\ n # "syscall"
    BY <1>11 DEF MulDiv, Shifts, Compares
  <2>4. z \in Register /\ ~(n = "sll" /\ y = 0 /\ x = 0 /\ z = 0)
    BY <1>11, <2>1, <2>2, SMT DEF Ambiguous, n
  <2>5. z % ByteSize = z
    BY <2>4, Sizes, SMT DEF Register
  <2>6. f.rs = 0 /\ f.rt = y /\ f.rd = x /\ f.shamt = z
    <3>1. f.rs = 0 /\ f.rt = s.ops[2] /\ f.rd = s.ops[1] /\ f.shamt = s.ops[3] % ByteSize
      BY <1>1, <1>3, <1>11, RFieldsAre, Zenon
    <3> HIDE DEF ByteSize
    <3> QED BY <2>2, <2>5, <3>1, Zenon
  <2>7. /\ Decode(w) = [name |-> n, cop |-> 0, ops |-> DecodeR(n, v)]
        /\ v.rt = y /\ v.rd = x /\ v.shamt = z
    <3> HIDE DEF v
    <3> QED BY <1>7, <1>8, <2>4, <2>6
  <2> HIDE DEF v
  <2>8. DecodeR(n, v) = <<v.rd, v.rt, v.shamt>>
    BY <1>11, <2>3, SMT DEF DecodeR
  <2>9. DecodeR(n, v) = <<x, y, z>>
    BY <2>7, <2>8
  <2>10. z \in Register
    BY <2>4
  <2>11. Decode(w) = [name |-> n, cop |-> 0, ops |-> <<x, y, z>>]
    BY <2>7, <2>9
  <2>12. x % ImmSize = x /\ y % ImmSize = y /\ z % ImmSize = z
    BY <2>10, RegisterModulo
  <2>13. x \in Int /\ y \in Int /\ l.name \notin Compares /\ l.kind = "plain"
    BY <2>3, RegisterModulo DEF n
  <2>14. Decode(w) = [name |-> l.name, cop |-> l.cop, ops |-> <<x, y, z>>]
    BY <1>4, <2>11 DEF n
  <2> HIDE DEF ImmSize
  <2> QED BY <2>1, <2>12, <2>13, <2>14, ShownThree
<1>12. CASE n = "jr" /\ l.ops \in { <<r>> : r \in Register }
  <2>1. PICK x \in Register : l.ops = <<x>>
    BY <1>12
  <2>2. s.ops[1] = x
    BY <1>1, <2>1
  <2>3. n \notin Shifts /\ n \notin MulDiv /\ n \notin Compares /\ n # "syscall" /\ n # "sll"
    BY <1>12 DEF MulDiv, Shifts, Compares
  <2>4. f.rs = x /\ f.rt = 0 /\ f.rd = 0 /\ f.shamt = 0
    BY <1>1, <1>3, <1>12, <2>2, RFieldsAre, Zenon
  <2>5. Decode(w) = [name |-> n, cop |-> 0, ops |-> DecodeR(n, v)] /\ v.rs = x
    BY <1>7, <1>8, <2>3, <2>4, Zenon
  <2> HIDE DEF v
  <2>6. DecodeR(n, v) = <<v.rs>>
    BY <1>12, <2>3, SMT DEF DecodeR
  <2>7. DecodeR(n, v) = <<x>>
    BY <2>5, <2>6
  <2> QED BY <1>4, <2>1, <2>3, <2>5, <2>7, RegisterModulo, ShownOne DEF n
<1>13. CASE n = "syscall" /\ l.ops = << >>
  <2>1. n \notin Shifts /\ n \notin MulDiv /\ n \notin Compares /\ n # "sll" /\ n \notin {"jr", "jalr"}
    BY <1>13 DEF MulDiv, Shifts, Compares
  <2>2. f.rs = 0 /\ f.rt = 0 /\ f.rd = 0 /\ f.shamt = 0
    BY <1>1, <1>3, <1>13, RFieldsAre, Zenon
  <2>3. Decode(w) = [name |-> n, cop |-> 0, ops |-> DecodeR(n, v)]
    BY <1>7, <1>8, <2>1, <2>2, Zenon
  <2> HIDE DEF v
  <2>4. DecodeR(n, v) = << >>
    BY <1>13, <2>1, SMT DEF DecodeR
  <2> QED BY <1>4, <1>13, <2>3, <2>4, ShownNone DEF n
<1> QED BY <1>9, <1>10, <1>11, <1>12, <1>13, Zenon DEF n

(* A comparison is displayed with its registers the other way round.        *)
LEMMA ShownF ==
  ASSUME NEW l \in Line, l.kind = "plain", Assembles(l), ~Ends(l),
         NEW w, SameAs("plain", w, Assemble(Statement(l))),
         \/ l.name \in {"add.", "sub.", "mul.", "div."} /\ l.ops \in Register \X Register \X Register
         \/ l.name \in Compares \cup {"mov."} /\ l.ops \in Register \X Register
  PROVE  ShownAs(w, l)
<1> DEFINE s == Statement(l)
           f == Fields(s)
           n == l.name
           v == Fill(w)
<1>1. s.name = n /\ s.ops = l.ops /\ s.cop = l.cop /\ l.cop \in {0, 1}
  BY StatementParts DEF InstructionKind
<1>2. n \in DOMAIN FType /\ n \notin DOMAIN RType /\ n # "nop"
      /\ n \notin DOMAIN JType /\ n \notin DOMAIN IType /\ n \notin DOMAIN FBranch
  BY OtherNames DEF Compares
<1>3. f = FFields(s)
  BY <1>1, <1>2, SMT DEF Fields
<1>5. w.opcode = Encode(f).opcode /\ w.rest = Encode(f).rest
  BY Zenon DEF SameAs, Assemble
<1>6. f.opcode = OpFType /\ f.funct = FType[n] /\ FType[n] \in 0 .. FunctSize - 1 /\ f.cop = l.cop
  <2>1. FType[n] \in 0 .. FunctSize - 1
    BY <1>2, Numbers, Sizes, SMT
  <2> HIDE DEF f, s, n
  <2>2. f.opcode = OpFType /\ f.funct = FType[s.name] /\ f.cop = s.cop
    BY <1>3, FFieldsAre, Zenon
  <2> QED BY <1>1, <2>1, <2>2, Zenon
<1>7. 0 \in Register
  BY DEF Register, RegSize
<1> HIDE DEF f, s, n
<1>8. ASSUME NEW b \in Register, NEW c \in Register, NEW d \in Register,
             f.rs = b, f.rt = c, f.rd = d
      PROVE  /\ Decode(w) = [name |-> n, cop |-> l.cop, ops |-> DecodeF(n, v)]
             /\ v.rs = b /\ v.rt = c /\ v.rd = d
  <2>1. Encode(f).opcode = OpFType /\ Encode(f).rest = Packed(l.cop, b, c, d, FType[n])
    BY <1>1, <1>6, <1>8, EncodedF
  <2>2. w.opcode = OpFType /\ w.rest = Packed(l.cop, b, c, d, FType[n])
    BY <1>5, <2>1
  <2> HIDE DEF v
  <2>3. Decode(w) = [name |-> n, cop |-> l.cop, ops |-> DecodeF(n, v)]
    BY <1>1, <1>2, <2>2, DecodedF DEF v
  <2>4. v.rs = b /\ v.rt = c /\ v.rd = d
    BY <1>1, <1>2, <2>2, DecodedF DEF v
  <2> QED BY <2>3, <2>4
<1>9. CASE n \in {"add.", "sub.", "mul.", "div."} /\ l.ops \in Register \X Register \X Register
  <2>1. PICK x \in Register, y \in Register, z \in Register : l.ops = <<x, y, z>>
    BY <1>9
  <2>2. s.ops[1] = x /\ s.ops[2] = y /\ s.ops[3] = z
    BY <1>1, <2>1
  <2>3. n \notin Compares /\ n # "mov."
    BY <1>9 DEF Compares
  <2>4. f.rs = y /\ f.rt = z /\ f.rd = x
    BY <1>1, <1>3, <2>2, <2>3, FFieldsAre, Zenon
  <2>5. /\ Decode(w) = [name |-> n, cop |-> l.cop, ops |-> DecodeF(n, v)]
        /\ v.rs = y /\ v.rt = z /\ v.rd = x
    BY <1>7, <1>8, <2>4, Zenon
  <2> HIDE DEF v
  <2>6. DecodeF(n, v) = <<v.rd, v.rs, v.rt>>
    BY <1>2, <2>3, SMT DEF DecodeF
  <2>7. DecodeF(n, v) = <<x, y, z>>
    BY <2>5, <2>6
  <2> QED BY <2>1, <2>3, <2>5, <2>7, RegisterModulo, ShownThree DEF n
<1>10. CASE n = "mov." /\ l.ops \in Register \X Register
  <2>1. PICK x \in Register, y \in Register : l.ops = <<x, y>>
    BY <1>10
  <2>2. s.ops[1] = x /\ s.ops[2] = y
    BY <1>1, <2>1
  <2>3. n \notin Compares
    BY <1>10 DEF Compares
  <2>4. f.rs = 0 /\ f.rt = y /\ f.rd = x
    BY <1>1, <1>3, <1>10, <2>2, FFieldsAre, Zenon
  <2>5. /\ Decode(w) = [name |-> n, cop |-> l.cop, ops |-> DecodeF(n, v)]
        /\ v.rt = y /\ v.rd = x
    BY <1>7, <1>8, <2>4, Zenon
  <2> HIDE DEF v
  <2>6. DecodeF(n, v) = <<v.rd, v.rt>>
    BY <1>2, <1>10, <2>3, SMT DEF DecodeF
  <2>7. DecodeF(n, v) = <<x, y>>
    BY <2>5, <2>6
  <2> QED BY <2>1, <2>3, <2>5, <2>7, RegisterModulo, ShownTwo DEF n
<1>11. CASE n \in Compares /\ l.ops \in Register \X Register
  <2>1. PICK x \in Register, y \in Register : l.ops = <<x, y>>
    BY <1>11
  <2>2. s.ops[1] = x /\ s.ops[2] = y
    BY <1>1, <2>1
  <2>3. n # "mov."
    BY <1>11 DEF Compares
  <2>4. f.rs = y /\ f.rt = x /\ f.rd = 0
    BY <1>1, <1>3, <1>11, <2>2, FFieldsAre, Zenon
  <2>5. /\ Decode(w) = [name |-> n, cop |-> l.cop, ops |-> DecodeF(n, v)]
        /\ v.rs = y /\ v.rt = x
    BY <1>7, <1>8, <2>4, Zenon
  <2> HIDE DEF v
  <2>6. DecodeF(n, v) = <<v.rs, v.rt>>
    BY <1>2, <1>11, <2>3, SMT DEF DecodeF
  <2>7. Decode(w) = [name |-> l.name, cop |-> l.cop, ops |-> <<y, x>>]
    BY <2>5, <2>6 DEF n
  <2>8. l.name \in Compares
    BY <1>11 DEF n
  <2> QED BY <2>1, <2>7, <2>8, ShownSwapped
<1> QED BY <1>9, <1>10, <1>11, Zenon DEF n

(* What is displayed of the format of immediates: the registers and what    *)
(* was written, or what was ORed in.                                        *)
LEMMA ShownI ==
  ASSUME NEW l \in Line, l.kind \in InstructionKind, Assembles(l), ~Ends(l),
         NEW w, SameAs(l.kind, w, Assemble(Statement(l))),
         \/ l.kind = "plain" /\ l.name \in Displaced /\ l.ops \in Register \X Int \X Register
         \/ l.kind = "plain" /\ l.name = "lui" /\ l.ops \in Register \X Int
         \/ /\ l.kind = "plain" /\ l.name \in Immediates
            /\ l.ops \in Register \X Register \X Int
         \/ l.kind = "relative" /\ l.name \in Immediates /\ l.ops \in Register \X Register
  PROVE  ShownAs(w, l)
<1> DEFINE s == Statement(l)
           f == Fields(s)
           n == l.name
           v == Fill(w)
<1>1. /\ s.name = n /\ (n \notin Doubled => l.cop = 0) /\ n # "subi"
      /\ l.kind = "plain" => s.ops = l.ops
      /\ l.kind # "plain" => s.ops = Append(l.ops, Digits[l.label]) /\ Digits[l.label] \in 0 .. 15
  BY StatementParts
<1>2. n \in {"addi", "andi", "ori", "xori", "bne", "beq", "lui"} \cup Displaced
  BY <1>1 DEF Immediates
<1>3. n \in DOMAIN IType /\ n \notin DOMAIN RType /\ n # "nop"
      /\ n \notin DOMAIN JType /\ n \notin DOMAIN FType /\ n \notin DOMAIN FBranch
  <2>1. n # "nop"
    BY <1>2 DEF Displaced
  <2> QED BY <1>2, <2>1, INames
<1>4. f = IFields(s)
  BY <1>1, <1>3, SMT DEF Fields
<1>5. l.cop = 0 /\ n \notin Compares
  BY <1>1, <1>2 DEF Doubled, Compares, Displaced
<1>6. /\ w.opcode = Encode(f).opcode /\ w.rest \in Nat
      /\ w.rest \div ImmSize = Encode(f).rest \div ImmSize
      /\ l.kind = "plain" => w.rest = Encode(f).rest
  <2>1. w.rest \in Nat
    BY DEF SameAs, Rest26
  <2>2. /\ w.opcode = Encode(f).opcode /\ (l.kind = "plain" => w.rest = Encode(f).rest)
        /\ l.kind = "relative" => w.rest \div ImmSize = Encode(f).rest \div ImmSize
    BY Zenon DEF SameAs, Assemble
  <2> HIDE DEF ImmSize, f
  <2> QED BY <2>1, <2>2
<1> HIDE DEF f, s, n
<1>7. ASSUME NEW a \in Register, NEW b \in Register, NEW i \in Int,
             f.rs = a, f.rt = b, f.addr_i = i % ImmSize
      PROVE  /\ Decode(w) = [name |-> n, cop |-> 0, ops |-> DecodeI(n, v)]
             /\ v.rs = a /\ v.rt = b /\ v.addr_i = w.rest % ImmSize
             /\ l.kind = "plain" => v.addr_i = i % ImmSize
  <2>0. f.addr_i \in 0 .. ImmSize - 1
    <3> HIDE DEF ImmSize
    <3> QED BY <1>7, Modulo
  <2>1. f.opcode = IType[n]
    BY <1>1, <1>4, IFieldsAre, Zenon
  <2> HIDE DEF ImmSize, v
  <2>2. /\ Encode(f).opcode = IType[n] /\ Encode(f).rest \div ImmSize = a * RegSize + b
        /\ Encode(f).rest % ImmSize = i % ImmSize
    BY <1>3, <1>7, <2>0, <2>1, EncodedI
  <2>3. w.opcode = IType[n] /\ w.rest \div ImmSize = a * RegSize + b
    BY <1>6, <2>2
  <2>4. Decode(w) = [name |-> n, cop |-> 0, ops |-> DecodeI(n, v)]
    BY <1>3, <1>6, <2>3, DecodedI DEF v
  <2>5. v.rs = a /\ v.rt = b /\ v.addr_i = w.rest % ImmSize
    BY <1>3, <1>6, <2>3, DecodedI DEF v
  <2>6. l.kind = "plain" => v.addr_i = i % ImmSize
    BY <1>6, <2>2, <2>5, Zenon
  <2> QED BY <2>4, <2>5, <2>6
<1>8. CASE l.kind = "plain" /\ n \in Displaced /\ l.ops \in Register \X Int \X Register
  <2>1. PICK x \in Register, i \in Int, z \in Register : l.ops = <<x, i, z>>
    BY <1>8
  <2>2. s.ops[1] = x /\ s.ops[2] = i /\ s.ops[3] = z
    BY <1>1, <1>8, <2>1
  <2>3. n \notin {"beq", "bne"} /\ n # "lui"
    BY <1>8 DEF Displaced
  <2>4. f.rt = x /\ f.rs = z /\ f.addr_i = i % ImmSize
    <3> HIDE DEF ImmSize
    <3> QED BY <1>1, <1>4, <1>8, <2>2, IFieldsAre, Zenon
  <2> HIDE DEF v, ImmSize
  <2>5. /\ Decode(w) = [name |-> n, cop |-> 0, ops |-> DecodeI(n, v)]
        /\ v.rt = x /\ v.rs = z /\ v.addr_i = i % ImmSize
    BY <1>7, <1>8, <2>4
  <2>6. DecodeI(n, v) = <<v.rt, v.addr_i, v.rs>>
    BY <1>8, <2>3, SMT DEF DecodeI
  <2>7. Decode(w) = [name |-> l.name, cop |-> l.cop, ops |-> <<x, i % ImmSize, z>>]
    BY <1>5, <2>5, <2>6 DEF n
  <2>8. x % ImmSize = x /\ z % ImmSize = z /\ x \in Int /\ z \in Int /\ l.name \notin Compares
    BY <1>5, RegisterModulo DEF n
  <2> QED BY <1>8, <2>1, <2>7, <2>8, ShownThree
<1>9. CASE l.kind = "plain" /\ n = "lui" /\ l.ops \in Register \X Int
  <2>1. PICK x \in Register, i \in Int : l.ops = <<x, i>>
    BY <1>9
  <2>2. s.ops[1] = x /\ s.ops[2] = i
    BY <1>1, <1>9, <2>1
  <2>3. n \notin Displaced /\ n \notin {"beq", "bne"}
    BY <1>9 DEF Displaced
  <2>4. f.rt = x /\ f.rs = 0 /\ f.addr_i = i % ImmSize /\ 0 \in Register
    <3>1. 0 \in Register
      BY DEF Register, RegSize
    <3> HIDE DEF ImmSize
    <3> QED BY <1>1, <1>4, <1>9, <2>2, <3>1, IFieldsAre, Zenon
  <2> HIDE DEF v, ImmSize
  <2>5. /\ Decode(w) = [name |-> n, cop |-> 0, ops |-> DecodeI(n, v)]
        /\ v.rt = x /\ v.addr_i = i % ImmSize
    BY <1>7, <1>9, <2>4
  <2>6. DecodeI(n, v) = <<v.rt, v.addr_i>>
    BY <1>9, <2>3, SMT DEF DecodeI
  <2>7. Decode(w) = [name |-> l.name, cop |-> l.cop, ops |-> <<x, i % ImmSize>>]
    BY <1>5, <2>5, <2>6 DEF n
  <2>8. x % ImmSize = x /\ x \in Int /\ l.name \notin Compares
    BY <1>5, RegisterModulo DEF n
  <2> QED BY <1>9, <2>1, <2>7, <2>8, ShownTwo
<1>10. ASSUME n \in Immediates, NEW x \in Register, NEW y \in Register, NEW i \in Int,
              s.ops[1] = x, s.ops[2] = y, s.ops[3] = i
       PROVE  /\ Decode(w) = [name |-> n, cop |-> 0, ops |-> <<x, y, w.rest % ImmSize>>]
              /\ l.kind = "plain" => w.rest % ImmSize = i % ImmSize
  <2>1. n \notin Displaced /\ n # "lui"
    BY <1>10 DEF Displaced, Immediates
  <2> HIDE DEF v, ImmSize
  <2>2. CASE n \in {"beq", "bne"}
    <3>1. f.rs = x /\ f.rt = y /\ f.addr_i = i % ImmSize
      BY <1>1, <1>4, <1>10, <2>2, IFieldsAre, Zenon
    <3>2. /\ Decode(w) = [name |-> n, cop |-> 0, ops |-> DecodeI(n, v)]
          /\ v.rs = x /\ v.rt = y /\ v.addr_i = w.rest % ImmSize
          /\ l.kind = "plain" => v.addr_i = i % ImmSize
      BY <1>7, <3>1
    <3>3. DecodeI(n, v) = <<v.rs, v.rt, v.addr_i>>
      BY <2>1, <2>2, SMT DEF DecodeI
    <3> QED BY <3>2, <3>3
  <2>3. CASE n \notin {"beq", "bne"}
    <3>1. f.rt = x /\ f.rs = y /\ f.addr_i = i % ImmSize
      <4>1. n \notin Displaced \cup {"lui", "beq", "bne"}
        BY <2>1, <2>3
      <4> QED BY <1>1, <1>4, <1>10, <4>1, IFieldsAre, Zenon
    <3>2. /\ Decode(w) = [name |-> n, cop |-> 0, ops |-> DecodeI(n, v)]
          /\ v.rt = x /\ v.rs = y /\ v.addr_i = w.rest % ImmSize
          /\ l.kind = "plain" => v.addr_i = i % ImmSize
      BY <1>7, <3>1
    <3>3. DecodeI(n, v) = <<v.rt, v.rs, v.addr_i>>
      BY <2>1, <2>3, SMT DEF DecodeI
    <3> QED BY <3>2, <3>3
  <2> QED BY <2>2, <2>3
<1>11. CASE l.kind = "plain" /\ n \in Immediates /\ l.ops \in Register \X Register \X Int
  <2>1. PICK x \in Register, y \in Register, i \in Int : l.ops = <<x, y, i>>
    BY <1>11
  <2>2. s.ops[1] = x /\ s.ops[2] = y /\ s.ops[3] = i
    BY <1>1, <1>11, <2>1
  <2> HIDE DEF ImmSize
  <2>3. Decode(w) = [name |-> l.name, cop |-> l.cop, ops |-> <<x, y, i % ImmSize>>]
    BY <1>5, <1>10, <1>11, <2>2 DEF n
  <2>4. x % ImmSize = x /\ y % ImmSize = y /\ x \in Int /\ y \in Int /\ l.name \notin Compares
    BY <1>5, RegisterModulo DEF n
  <2> QED BY <1>11, <2>1, <2>3, <2>4, ShownThree
<1>12. CASE l.kind = "relative" /\ n \in Immediates /\ l.ops \in Register \X Register
  <2>1. PICK x \in Register, y \in Register : l.ops = <<x, y>>
    BY <1>12
  <2> DEFINE d == Digits[l.label]
  <2>2. s.ops[1] = x /\ s.ops[2] = y /\ s.ops[3] = d /\ d \in Int
    <3>1. x \in Int /\ y \in Int /\ d \in Int /\ s.ops = Append(<<x, y>>, d)
      BY <1>1, <1>12, <2>1, RegisterModulo
    <3> HIDE DEF d
    <3> QED BY <3>1, AppendedToTwo
  <2> HIDE DEF d, ImmSize
  <2>3. Decode(w) = [name |-> l.name, cop |-> l.cop, ops |-> <<x, y, w.rest % ImmSize>>]
    BY <1>5, <1>10, <1>12, <2>2 DEF n
  <2>4. l.name \notin Compares /\ l.kind # "plain"
    BY <1>5, <1>12 DEF n
  <2> QED BY <2>1, <2>3, <2>4, ShownBehind
<1> QED BY <1>8, <1>9, <1>11, <1>12, Zenon DEF n

(* And of nop, of the jumps and of the floating-point branches.             *)
LEMMA ShownOther ==
  ASSUME NEW l \in Line, l.kind \in InstructionKind, Assembles(l), ~Ends(l),
         NEW w, SameAs(l.kind, w, Assemble(Statement(l))),
         \/ l.kind = "plain" /\ l.name = "nop" /\ l.ops = << >>
         \/ l.kind = "plain" /\ l.name \in {"j", "jal"} /\ l.ops = << 0 >>
         \/ l.kind = "absolute" /\ l.ops = << >>
         \/ l.kind = "relative" /\ l.name \in DOMAIN FBranch /\ l.ops = << >>
  PROVE  ShownAs(w, l)
<1> DEFINE s == Statement(l)
           f == Fields(s)
           n == l.name
<1>1. /\ s.name = n /\ (n \notin Doubled => l.cop = 0)
      /\ l.kind = "plain" => s.ops = l.ops
      /\ l.kind # "plain" => s.ops = Append(l.ops, Digits[l.label]) /\ Digits[l.label] \in 0 .. 15
      /\ l.kind = "absolute" => n \in {"j", "jal"}
  BY StatementParts
<1>2. l.cop = 0 /\ n \notin Compares
  BY <1>1, OtherNames DEF Doubled, Compares
<1>3. /\ w.opcode = Encode(f).opcode /\ w.rest \in Nat
      /\ l.kind = "plain" => w.rest = Encode(f).rest
      /\ l.kind = "relative" => w.rest \div ImmSize = Encode(f).rest \div ImmSize
  <2>1. w.rest \in Nat
    BY DEF SameAs, Rest26
  <2>2. /\ w.opcode = Encode(f).opcode /\ (l.kind = "plain" => w.rest = Encode(f).rest)
        /\ l.kind = "relative" => w.rest \div ImmSize = Encode(f).rest \div ImmSize
    BY Zenon DEF SameAs, Assemble
  <2> HIDE DEF ImmSize, f
  <2> QED BY <2>1, <2>2
<1> HIDE DEF f, s, n, ImmSize
<1>4. CASE l.kind = "plain" /\ n = "nop" /\ l.ops = << >>
  <2>1. f = Blank
    BY <1>1, <1>4, OtherNames, SMT DEF Fields, f
  <2>2. /\ f.opcode = OpRType /\ f.rs = 0 /\ f.rt = 0 /\ f.rd = 0 /\ f.shamt = 0 /\ f.funct = 0
    BY <2>1 DEF Blank
  <2>3. 0 \in Register /\ 0 \in 0 .. FunctSize - 1
    BY Sizes, SMT DEF Register
  <2>4. Encode(f).opcode = OpRType /\ Encode(f).rest = Packed(0, 0, 0, 0, 0)
    BY <2>2, <2>3, EncodedR
  <2>5. Packed(0, 0, 0, 0, 0) = 0
    BY Sizes, SMT DEF Packed
  <2>6. Nop(w)
    BY <1>3, <1>4, <2>4, <2>5 DEF Nop, OpRType
  <2>7. "nop" \notin DOMAIN FType
    BY OtherNames
  <2>8. Decode(w) = [name |-> l.name, cop |-> l.cop, ops |-> << >>]
    <3>1. w.opcode # OpFType /\ w.opcode = OpRType /\ "nop" \notin DOMAIN JType
          /\ "nop" \notin DOMAIN IType
      BY <1>3, <2>4, Opcodes, OtherNames
    <3> DEFINE v == Fill(w)
               o == CASE Nop(w) -> << >>
                      [] w.opcode = OpRType /\ ~Nop(w) -> DecodeR("nop", v)
                      [] w.opcode = OpFType -> DecodeF("nop", v)
                      [] "nop" \in DOMAIN JType -> <<v.addr_j>>
                      [] "nop" \in DOMAIN IType -> DecodeI("nop", v)
    <3>2. Decode(w) = [name |-> "nop", cop |-> 0, ops |-> o]
      BY <2>6, <2>7, Zenon DEF Decode
    <3>3. o = << >>
      <4> HIDE DEF v
      <4> QED BY <2>6, <3>1, SMT
    <3> HIDE DEF o, v
    <3> QED BY <1>2, <1>4, <3>2, <3>3 DEF n
  <2> QED BY <1>4, <2>8, ShownNone
<1>5. ASSUME n \in {"j", "jal"}
      PROVE  /\ Decode(w) = [name |-> l.name, cop |-> l.cop, ops |-> <<w.rest>>]
             /\ Encode(f).rest = s.ops[1]
  <2>1. n \in DOMAIN JType
    BY <1>5, OtherNames
  <2>2. f = JFields(s)
    BY <1>1, <1>5, OtherNames, SMT DEF Fields, f
  <2>3. f.opcode = JType[n] /\ f.addr_j = s.ops[1]
    <3> DEFINE c == JType[s.name]
               i == s.ops[1]
    <3> HIDE DEF c, i
    <3>1. f = [Blank EXCEPT !.opcode = c, !.addr_j = i]
      BY <2>2, Zenon DEF JFields, c, i
    <3>2. f.opcode = c /\ f.addr_j = i
      BY <3>1 DEF Blank
    <3> QED BY <1>1, <3>2, Zenon DEF c, i
  <2>4. Encode(f).opcode = JType[n] /\ Encode(f).rest = f.addr_j
    BY <2>1, <2>3, EncodedJ
  <2>5. w.opcode = JType[n]
    BY <1>3, <2>4
  <2>6. Decode(w) = [name |-> n, cop |-> 0, ops |-> <<w.rest>>]
    BY <2>1, <2>5, DecodedOther, Zenon
  <2> QED BY <1>2, <2>3, <2>4, <2>6 DEF n
<1>6. CASE l.kind = "plain" /\ n \in {"j", "jal"} /\ l.ops = <<0>>
  <2>1. w.rest = 0
    BY <1>1, <1>3, <1>5, <1>6
  <2>2. 0 % ImmSize = 0
    BY ImmSizes
  <2> QED BY <1>2, <1>5, <1>6, <2>1, <2>2, ShownOne DEF n
<1>7. CASE l.kind = "absolute" /\ l.ops = << >>
  <2>1. Decode(w) = [name |-> l.name, cop |-> l.cop, ops |-> <<w.rest>>]
    BY <1>1, <1>5, <1>7
  <2>2. l.kind # "plain" /\ l.name \notin Compares
    BY <1>2, <1>7 DEF n
  <2> QED BY <1>7, <2>1, <2>2, ShownBehind
<1>8. CASE l.kind = "relative" /\ n \in DOMAIN FBranch /\ l.ops = << >>
  <2>1. n \in {"bc1t", "bc1f"}
    BY <1>8, OtherNames
  <2>2. f = FBranchFields(s)
    BY <1>1, <2>1, OtherNames, SMT DEF Fields, f
  <2> DEFINE d == Digits[l.label]
  <2>3. s.ops[1] = d /\ d \in Int
    <3>1. s.ops = Append(<< >>, d) /\ d \in Int
      BY <1>1, <1>8
    <3> HIDE DEF d
    <3>2. s.ops = <<d>>
      BY <3>1
    <3> QED BY <3>1, <3>2
  <2> HIDE DEF d
  <2>4. /\ f.opcode = OpFType /\ f.cop = FpBranchCop /\ f.rs = FBranch[n]
        /\ f.addr_i = d % ImmSize
    <3> DEFINE c == FBranch[s.name]
               i == s.ops[1] % ImmSize
    <3> HIDE DEF c, i
    <3>1. f = [Blank EXCEPT !.opcode = OpFType, !.cop = FpBranchCop, !.rs = c, !.addr_i = i]
      BY <2>2, Zenon DEF FBranchFields, c, i
    <3>2. f.opcode = OpFType /\ f.cop = FpBranchCop /\ f.rs = c /\ f.addr_i = i
      BY <3>1 DEF Blank
    <3> QED BY <1>1, <2>3, <3>2, Zenon DEF c, i
  <2>5. f.rs \in Register /\ f.addr_i \in 0 .. ImmSize - 1
    <3>1. FBranch[n] \in {0, 1}
      BY <1>8, Numbers
    <3>2. FBranch[n] \in Register
      BY <3>1 DEF Register, RegSize
    <3> QED BY <2>3, <2>4, <3>2, Modulo
  <2>6. /\ Encode(f).opcode = OpFType
        /\ Encode(f).rest \div ImmSize = FpBranchCop * RegSize + f.rs
    BY <2>4, <2>5, EncodedB
  <2>7. w.opcode = OpFType /\ w.rest \div ImmSize = FpBranchCop * RegSize + FBranch[n]
    BY <1>3, <1>8, <2>4, <2>6
  <2> DEFINE v == Fill(w)
  <2> HIDE DEF v
  <2>8. Decode(w) = [name |-> n, cop |-> 0, ops |-> DecodeF(n, v)]
    BY <1>3, <1>8, <2>7, DecodedOther, Zenon DEF v
  <2>9. DecodeF(n, v) = <<v.addr_i>>
    <3>1. n # "mov." /\ n \notin Compares
      BY <2>1 DEF Compares
    <3> QED BY <1>8, <3>1, SMT DEF DecodeF
  <2>10. Decode(w) = [name |-> l.name, cop |-> l.cop, ops |-> <<v.addr_i>>]
    BY <1>2, <2>8, <2>9 DEF n
  <2>11. l.kind # "plain" /\ l.name \notin Compares
    BY <1>2, <1>8 DEF n
  <2> QED BY <1>8, <2>10, <2>11, ShownBehind
<1> QED BY <1>4, <1>6, <1>7, <1>8, Zenon DEF n

(* Whatever the format, the word of a line is displayed as it was written.  *)
LEMMA ShownLine ==
  ASSUME NEW l \in Line, l.kind \in InstructionKind, Assembles(l), ~Ends(l), ~Ambiguous(l),
         NEW w, SameAs(l.kind, w, Assemble(Statement(l)))
  PROVE  ShownAs(w, l)
<1>1. /\ Written(l) /\ l.name \notin HalfWords /\ l.name \notin {"subi", "c.ne.", "c.ge.", "c.gt."}
      /\ l.kind = "absolute" => l.name \in {"j", "jal"}
      /\ l.kind = "plain" => l.name # "jalr"
  BY StatementParts
<1>2. CASE /\ l.kind = "plain" /\ l.name \in ThreeRegisters
           /\ l.ops \in Register \X Register \X Register
  <2>1. \/ l.name \in {"add.", "sub.", "mul.", "div."}
        \/ l.name \in {"add", "sub", "and", "or", "xor", "nor", "slt", "sllv", "srlv", "srav"}
    BY <1>2 DEF ThreeRegisters
  <2> QED BY <1>2, <2>1, ShownR, ShownF
<1>3. CASE l.kind = "plain" /\ l.name \in TwoRegisters /\ l.ops \in Register \X Register
  <2>1. l.name \in MulDiv \/ l.name \in Compares \cup {"mov."}
    BY <1>1, <1>3 DEF TwoRegisters
  <2> QED BY <1>3, <2>1, ShownR, ShownF
<1>4. CASE /\ l.kind = "plain" /\ l.name \in Shifts \cup Immediates
           /\ l.ops \in Register \X Register \X Int
  BY <1>4, ShownR, ShownI
<1>5. CASE l.kind = "plain" /\ l.name \in {"lui"} /\ l.ops \in Register \X Int
  BY <1>5, ShownI
<1>6. CASE /\ l.kind = "plain" /\ l.name \in Displaced \cup HalfWords
           /\ l.ops \in Register \X Int \X Register
  BY <1>1, <1>6, ShownI
<1>7. CASE l.kind = "plain" /\ l.name \in {"jr", "jalr"} /\ l.ops \in { <<r>> : r \in Register }
  BY <1>1, <1>7, ShownR
<1>8. CASE l.kind = "plain" /\ l.name \in {"j", "jal"} /\ l.ops \in {<<0>>}
  BY <1>8, ShownOther
<1>9. CASE l.kind = "plain" /\ l.name \in {"syscall", "nop"} /\ l.ops \in {<< >>}
  BY <1>9, ShownR, ShownOther
<1>10. CASE l.kind = "relative" /\ l.name \in Immediates /\ l.ops \in Register \X Register
  BY <1>10, ShownI
<1>11. CASE l.kind = "relative" /\ l.name \in DOMAIN FBranch /\ l.ops \in {<< >>}
  BY <1>11, ShownOther
<1>12. CASE l.kind = "absolute" /\ l.name \in Jumps /\ l.ops \in {<< >>}
  BY <1>12, ShownOther
<1> QED
  BY <1>1, <1>2, <1>3, <1>4, <1>5, <1>6, <1>7, <1>8, <1>9, <1>10, <1>11, <1>12, Zenon DEF Written

-----------------------------------------------------------------------------
(* What the tables hold of each line that is parsed: the word of an         *)
(* instruction, the two of la, and the section of an item.                  *)
HasWord(l, ins, at) ==
  /\ at \in DOMAIN ins /\ ins[at].kind = l.kind
  /\ Assembles(l) /\ ~Ends(l) /\ SameAs(l.kind, ins[at].word, Assemble(Statement(l)))
HasHalves(l, ins, at) ==
  /\ at \in DOMAIN ins /\ ins[at].kind = "high" /\ ins[at].label = l.label
  /\ at + 1 \in DOMAIN ins /\ ins[at + 1].kind = "low" /\ ins[at + 1].label = l.label
HasSection(l, secs) ==
  /\ ~Ends(l)
  /\ \E i \in DOMAIN secs : secs[i] = SectionOf(l, secs[i].position)

LineKept(l, ins, secs, at) ==
  /\ l.kind \in InstructionKind => HasWord(l, ins, at)
  /\ l.kind = "la" => HasHalves(l, ins, at)
  /\ l.kind = "item" => HasSection(l, secs)

LinesInv ==
  \A k \in DOMAIN parsed :
    LineKept(parsed[k], instructions, memsections, PlaceIn(parsed, k) + 1)

(* The two halves of an address: their immediates are open until the loop   *)
(* comes to them, and then those of the one section of the name.            *)
Half(e) == e.kind \in {"high", "low"}
HalfOpen(e) == Half(e) => e.word.rest % ImmSize = 0
Called(secs, name) == { k \in DOMAIN secs : secs[k].label = name }
HalfOf(kind, address) == (IF kind = "high" THEN address \div ImmSize ELSE address) % ImmSize
HalfClosed(e, secs) ==
  Half(e) => \E j \in DOMAIN secs :
               /\ Called(secs, e.label) = {j}
               /\ e.word.rest % ImmSize = HalfOf(e.kind, Start["data"] + secs[j].position)

(* What is added to the tables leaves what they hold of a line.             *)
LEMMA KeptBefore ==
  ASSUME NEW l \in Line, NEW ins \in Seq(EntryType), NEW fresh \in Seq(EntryType),
         NEW secs \in Seq(SectionType), NEW more \in Seq(SectionType), NEW at \in Nat,
         LineKept(l, ins, secs, at)
  PROVE  LineKept(l, ins \o fresh, secs \o more, at)
<1> DEFINE ins2 == ins \o fresh
           secs2 == secs \o more
<1>1. /\ DOMAIN ins \subseteq DOMAIN ins2 /\ \A i \in DOMAIN ins : ins2[i] = ins[i]
  <2>1. \A i \in 1 .. Len(ins) : ins2[i] = ins[i]
    BY Joined
  <2>2. ins2 \in Seq(EntryType) /\ Len(ins2) = Len(ins) + Len(fresh)
    BY Joined
  <2>3. DOMAIN ins = 1 .. Len(ins) /\ Len(ins) \in Nat /\ Len(fresh) \in Nat
    OBVIOUS
  <2> HIDE DEF ins2
  <2>4. DOMAIN ins2 = 1 .. Len(ins) + Len(fresh)
    BY <2>2
  <2> QED BY <2>1, <2>3, <2>4
<1>2. /\ DOMAIN secs \subseteq DOMAIN secs2 /\ \A i \in DOMAIN secs : secs2[i] = secs[i]
  <2>1. \A i \in 1 .. Len(secs) : secs2[i] = secs[i]
    BY Joined
  <2>2. secs2 \in Seq(SectionType) /\ Len(secs2) = Len(secs) + Len(more)
    BY Joined
  <2> HIDE DEF secs2
  <2> QED BY <2>1, <2>2
<1> HIDE DEF ins2, secs2
<1>3. l.kind \in InstructionKind => HasWord(l, ins2, at)
  BY <1>1, Zenon DEF LineKept, HasWord
<1>4. l.kind = "la" => HasHalves(l, ins2, at)
  BY <1>1, Zenon DEF LineKept, HasHalves
<1>5. l.kind = "item" => HasSection(l, secs2)
  BY <1>2, Zenon DEF LineKept, HasSection
<1> QED BY <1>3, <1>4, <1>5, Zenon DEF LineKept, ins2, secs2

(* The tables hold a line when what is added for it does.                   *)
LEMMA KeptBehind ==
  ASSUME NEW l \in Line, NEW ins \in Seq(EntryType), NEW fresh \in Seq(EntryType),
         NEW secs \in Seq(SectionType), NEW more \in Seq(SectionType),
         LineKept(l, fresh, more, 1)
  PROVE  LineKept(l, ins \o fresh, secs \o more, Len(ins) + 1)
<1> DEFINE ins2 == ins \o fresh
           secs2 == secs \o more
           at == Len(ins) + 1
<1>1. \A i \in DOMAIN fresh : Len(ins) + i \in DOMAIN ins2 /\ ins2[Len(ins) + i] = fresh[i]
  BY JoinedBehind
<1>2. \A i \in DOMAIN more : Len(secs) + i \in DOMAIN secs2 /\ secs2[Len(secs) + i] = more[i]
  BY JoinedBehind
<1>3. at = Len(ins) + 1 /\ at + 1 = Len(ins) + 2 /\ 1 + 1 = 2
  OBVIOUS
<1> HIDE DEF ins2, secs2, at
<1>4. l.kind \in InstructionKind => HasWord(l, ins2, at)
  BY <1>1, <1>3, Zenon DEF LineKept, HasWord
<1>5. l.kind = "la" => HasHalves(l, ins2, at)
  BY <1>1, <1>3, Zenon DEF LineKept, HasHalves
<1>6. l.kind = "item" => HasSection(l, secs2)
  BY <1>2, Zenon DEF LineKept, HasSection
<1> QED BY <1>4, <1>5, <1>6, Zenon DEF LineKept, ins2, secs2, at

(* A line is parsed, and what is added to the tables is what they hold of   *)
(* it.                                                                      *)
LEMMA LinesParsed ==
  ASSUME AssemblerInv, TargetsInv, LinesInv, NEW l \in Line, parsed' = Append(parsed, l),
         NEW fresh \in Seq(EntryType), instructions' = instructions \o fresh,
         NEW more \in Seq(SectionType), memsections' = memsections \o more,
         LineKept(l, fresh, more, 1)
  PROVE  LinesInv'
<1>1. /\ parsed \in Seq(Line) /\ instructions \in Seq(EntryType)
      /\ memsections \in Seq(SectionType)
      /\ Len(instructions) = PlaceIn(parsed, Len(parsed) + 1)
  BY DEF AssemblerInv, ScannerInv, TablesInv, TargetsInv
<1> DEFINE q == parsed'
           n == Len(parsed)
<1>2. /\ n \in Nat /\ DOMAIN parsed = 1 .. n /\ DOMAIN q = 1 .. n + 1
      /\ q[n + 1] = l /\ \A j \in 1 .. n : q[j] = parsed[j]
  BY <1>1, LineAdded
<1>3. \A k \in 1 .. n + 1 : PlaceIn(q, k) = PlaceIn(parsed, k) /\ PlaceIn(parsed, k) \in Nat
  BY <1>1, PlacesStay, PlaceType
<1> HIDE DEF q, n
<1>4. ASSUME NEW k \in DOMAIN q
      PROVE  LineKept(q[k], instructions', memsections', PlaceIn(q, k) + 1)
  <2>1. CASE k \in 1 .. n
    <3>1. LineKept(parsed[k], instructions, memsections, PlaceIn(parsed, k) + 1)
      BY <1>2, <2>1 DEF LinesInv
    <3>2. parsed[k] \in Line /\ PlaceIn(parsed, k) + 1 \in Nat
      BY <1>1, <1>2, <1>3, <2>1
    <3>3. LineKept(parsed[k], instructions', memsections', PlaceIn(parsed, k) + 1)
      BY <1>1, <3>1, <3>2, KeptBefore
    <3>4. q[k] = parsed[k] /\ PlaceIn(q, k) = PlaceIn(parsed, k)
      BY <1>2, <1>3, <2>1
    <3> QED BY <3>3, <3>4
  <2>2. CASE k = n + 1
    <3>1. LineKept(l, instructions', memsections', Len(instructions) + 1)
      BY <1>1, KeptBehind
    <3>2. q[k] = l /\ PlaceIn(q, k) = Len(instructions)
      BY <1>1, <1>2, <1>3, <2>2 DEF n
    <3> QED BY <3>1, <3>2
  <2> QED BY <1>2, <2>1, <2>2
<1> QED BY <1>4, Zenon DEF LinesInv, q

(* The word of an instruction that is parsed is what is put together of it. *)
LEMMA FreshWord ==
  ASSUME NEW l \in Line, l.kind \in InstructionKind, Assembles(l), ~Ends(l),
         NEW e \in EntryType, e.kind = l.kind, e.word = Assemble(Statement(l)),
         NEW fresh, fresh = <<e>>, NEW secs
  PROVE  LineKept(l, fresh, secs, 1)
<1>1. l.kind # "la" /\ l.kind # "item"
  BY DEF InstructionKind
<1>2. e.word.rest \in Rest26
  <2> HIDE DEF Rest26
  <2> QED BY DEF EntryType
<1>3. SameAs(l.kind, e.word, Assemble(Statement(l)))
  BY <1>2, Zenon DEF SameAs
<1>4. 1 \in DOMAIN fresh /\ fresh[1] = e
  OBVIOUS
<1> QED BY <1>1, <1>3, <1>4, Zenon DEF LineKept, HasWord

(* The words of la have no address yet.                                     *)
LEMMA FreshHalves ==
  ASSUME NEW l \in Line, l.kind = "la", NEW at, NEW behind
  PROVE  /\ HalfOpen(Entry("lui", 0, <<l.ops[1], 0>>, at, "high", l.label))
         /\ HalfOpen(Entry("ori", 0, <<l.ops[1], l.ops[1], 0>>, behind, "low", l.label))
<1> DEFINE r == l.ops[1]
<1>1. r \in Register /\ 0 \in Register /\ 0 % ImmSize = 0 /\ 0 \in 0 .. ImmSize - 1
  <2>1. r \in Register
    BY LineAssumption DEF LineAssumption, Legal
  <2> HIDE DEF r
  <2> QED BY <2>1, Sizes, SMT DEF Register
<1> HIDE DEF r
<1> DEFINE s == [name |-> "lui", cop |-> 0, ops |-> <<r, 0>>]
           o == [name |-> "ori", cop |-> 0, ops |-> <<r, r, 0>>]
<1>2. Assemble(s).rest % ImmSize = 0
  <2>1. s.ops[1] = r /\ s.ops[2] = 0 /\ s.name = "lui"
    OBVIOUS
  <2> HIDE DEF s
  <2>2. Fields(s) = IFields(s) /\ s.name \in DOMAIN IType
    BY <2>1, INames, SMT DEF Fields
  <2> DEFINE f == Fields(s)
  <2>3. /\ f.opcode = IType[s.name] /\ f.rt = r /\ f.rs = 0 /\ f.addr_i = 0
    BY <1>1, <2>1, <2>2, IFieldsAre
  <2> HIDE DEF f
  <2>4. Encode(f).rest % ImmSize = 0
    BY <1>1, <2>2, <2>3, EncodedI
  <2> QED BY <2>4, Zenon DEF Assemble, f
<1>3. Assemble(o).rest % ImmSize = 0
  <2>1. o.ops[1] = r /\ o.ops[2] = r /\ o.ops[3] = 0 /\ o.name = "ori"
    OBVIOUS
  <2> HIDE DEF o
  <2>2. /\ Fields(o) = IFields(o) /\ o.name \in DOMAIN IType
        /\ o.name \notin Displaced \cup {"lui", "beq", "bne"}
    BY <2>1, INames, SMT DEF Fields, Displaced
  <2> DEFINE f == Fields(o)
  <2>3. /\ f.opcode = IType[o.name] /\ f.rt = r /\ f.rs = r /\ f.addr_i = 0
    BY <1>1, <2>1, <2>2, IFieldsAre
  <2> HIDE DEF f
  <2>4. Encode(f).rest % ImmSize = 0
    BY <1>1, <2>2, <2>3, EncodedI
  <2> QED BY <2>4, Zenon DEF Assemble, f
<1>4. /\ Entry("lui", 0, <<l.ops[1], 0>>, at, "high", l.label).word = Assemble(s)
      /\ Entry("ori", 0, <<l.ops[1], l.ops[1], 0>>, behind, "low", l.label).word = Assemble(o)
  BY Zenon DEF Entry, r
<1> HIDE DEF s, o
<1> QED BY <1>2, <1>3, <1>4, Zenon DEF HalfOpen

(* What a line that is parsed adds to the tables.                           *)
Adds(l, fresh, more) ==
  /\ fresh \in Seq(EntryType) /\ instructions' = instructions \o fresh
  /\ more \in Seq(SectionType) /\ memsections' = memsections \o more
  /\ LineKept(l, fresh, more, 1)
  /\ \A i \in DOMAIN fresh : HalfOpen(fresh[i])
  /\ \/ more = << >> /\ mem_pos' = mem_pos
     \/ more = << SectionOf(l, mem_pos) >> /\ mem_pos' = Wrap(mem_pos + Length(l))

(* What the parse of a line does to what has been parsed and to the sections. *)
LEMMA ParseAdds ==
  ASSUME AssemblerInv, NEW l \in Lines, Parse(l)
  PROVE  /\ m' = m /\ phase = "parse"
         /\ \/ /\ UNCHANGED <<parsed, instructions, memsections, mem_pos>>
               /\ phase' \in {"threw", "failed", "ended"}
            \/ /\ l \in Line /\ parsed' = Append(parsed, l) /\ phase' = "parse"
               /\ \E fresh, more : Adds(l, fresh, more)
<1>1. << >> \in Seq(EntryType) /\ << >> \in Seq(SectionType) /\ DOMAIN << >> = {}
  OBVIOUS
<1>2. /\ instructions \in Seq(EntryType) /\ memsections \in Seq(SectionType)
      /\ instructions \o << >> = instructions /\ memsections \o << >> = memsections
  <2>1. instructions \in Seq(EntryType) /\ memsections \in Seq(SectionType)
    BY DEF AssemblerInv, TablesInv
  <2> QED BY <2>1
<1>3. ASSUME Consumes(l), phase = "parse"
      PROVE  l \in Line /\ parsed' = Append(parsed, l) /\ phase' = "parse" /\ m' = m /\ line \in Addr
  BY <1>3, ParserKeeps DEF Consumes
<1>4. CASE Directive(l) \/ Tag(l)
  <2>1. /\ phase = "parse" /\ Consumes(l) /\ l.kind \in {"directive", "tag"}
        /\ instructions' = instructions /\ memsections' = memsections /\ mem_pos' = mem_pos
    BY <1>4 DEF Directive, Tag, Parses, AddsLine, tables
  <2>2. LineKept(l, << >>, << >>, 1)
    BY <2>1 DEF LineKept, InstructionKind
  <2>3. Adds(l, << >>, << >>)
    BY <1>1, <1>2, <2>1, <2>2, Zenon DEF Adds
  <2> QED BY <1>3, <2>1, <2>3
<1>5. CASE Instruction(l)
  <2> DEFINE e == Entry(l.name, l.cop, Operands(l), line, l.kind, l.label)
  <2>1. /\ phase = "parse" /\ Consumes(l) /\ l.kind \in InstructionKind /\ Assembles(l) /\ ~Ends(l)
        /\ instructions' = Append(instructions, e) /\ memsections' = memsections
        /\ mem_pos' = mem_pos
    BY <1>5 DEF Instruction, Parses, AddsLine
  <2>2. l \in Line /\ line \in Addr
    BY <1>3, <2>1
  <2>3. e.kind = l.kind /\ e.word = Assemble(Statement(l))
    BY Zenon DEF Entry, Statement
  <2>4. e \in EntryType
    BY <2>1, <2>2, EntryOf
  <2> HIDE DEF e
  <2>5. HalfOpen(e)
    BY <2>1, <2>3 DEF HalfOpen, Half, InstructionKind
  <2> DEFINE fresh == <<e>>
  <2>6. /\ fresh \in Seq(EntryType) /\ instructions' = instructions \o fresh
        /\ \A i \in DOMAIN fresh : fresh[i] = e
    BY <1>2, <2>1, <2>4
  <2>7. fresh = <<e>>
    OBVIOUS
  <2> HIDE DEF fresh
  <2>8. LineKept(l, fresh, << >>, 1)
    BY <2>1, <2>2, <2>3, <2>4, <2>7, FreshWord
  <2>9. Adds(l, fresh, << >>)
    BY <1>1, <1>2, <2>1, <2>5, <2>6, <2>8, Zenon DEF Adds
  <2> QED BY <1>3, <2>1, <2>9
<1>6. CASE LoadAddress(l)
  <2> DEFINE lui == Entry("lui", 0, <<l.ops[1], 0>>, line, "high", l.label)
             ori == Entry("ori", 0, <<l.ops[1], l.ops[1], 0>>, Wrap(line + 1), "low", l.label)
  <2>1. /\ phase = "parse" /\ Consumes(l) /\ l.kind = "la"
        /\ instructions' = instructions \o <<lui, ori>> /\ memsections' = memsections
        /\ mem_pos' = mem_pos
    BY <1>6 DEF LoadAddress, Parses, AddsLine
  <2>2. l \in Line /\ line \in Addr
    BY <1>3, <2>1
  <2>3. lui \in EntryType /\ ori \in EntryType
    <3>1. Wrap(line + 1) \in Addr
      BY <2>2, WrapType DEF Addr
    <3> QED BY <2>1, <2>2, <3>1, AddressEntries
  <2>4. /\ lui.kind = "high" /\ lui.label = l.label /\ ori.kind = "low" /\ ori.label = l.label
    BY Zenon DEF Entry
  <2>5. HalfOpen(lui) /\ HalfOpen(ori)
    BY <2>1, <2>2, FreshHalves
  <2> HIDE DEF lui, ori
  <2> DEFINE fresh == <<lui, ori>>
  <2>6. /\ fresh \in Seq(EntryType) /\ instructions' = instructions \o fresh
        /\ 1 \in DOMAIN fresh /\ 1 + 1 \in DOMAIN fresh /\ fresh[1] = lui /\ fresh[1 + 1] = ori
        /\ \A i \in DOMAIN fresh : fresh[i] = lui \/ fresh[i] = ori
    BY <2>1, <2>3
  <2> HIDE DEF fresh
  <2>7. LineKept(l, fresh, << >>, 1)
    <3>1. HasHalves(l, fresh, 1)
      BY <2>4, <2>6, Zenon DEF HasHalves
    <3>2. l.kind \notin InstructionKind /\ l.kind # "item"
      BY <2>1 DEF InstructionKind
    <3> QED BY <3>1, <3>2 DEF LineKept
  <2>8. \A i \in DOMAIN fresh : HalfOpen(fresh[i])
    BY <2>5, <2>6, Zenon
  <2>9. Adds(l, fresh, << >>)
    BY <1>1, <1>2, <2>1, <2>6, <2>7, <2>8, Zenon DEF Adds
  <2> QED BY <1>3, <2>1, <2>9
<1>7. CASE Item(l)
  <2> DEFINE sec == SectionOf(l, mem_pos)
  <2>1. /\ phase = "parse" /\ Consumes(l) /\ l.kind = "item" /\ ~Ends(l)
        /\ memsections' = Append(memsections, sec) /\ instructions' = instructions
        /\ mem_pos' = Wrap(mem_pos + Length(l))
    BY <1>7 DEF Item, Parses, AddsLine, SectionOf
  <2>2. l \in Line
    BY <1>3, <2>1
  <2>3. sec \in SectionType
    BY <2>1, <2>2 DEF SectionType, Items, AssemblerInv, TablesInv
  <2>4. sec.position = mem_pos
    BY DEF SectionOf
  <2>5. sec = SectionOf(l, sec.position)
    BY <2>4
  <2> HIDE DEF sec
  <2> DEFINE more == <<sec>>
  <2>6. /\ more \in Seq(SectionType) /\ memsections' = memsections \o more
        /\ 1 \in DOMAIN more /\ more[1] = sec
    BY <1>2, <2>1, <2>3
  <2>7. more = << SectionOf(l, mem_pos) >>
    BY DEF sec
  <2> HIDE DEF more
  <2>8. LineKept(l, << >>, more, 1)
    <3>1. HasSection(l, more)
      BY <2>1, <2>5, <2>6, Zenon DEF HasSection
    <3>2. l.kind \notin InstructionKind /\ l.kind # "la"
      BY <2>1 DEF InstructionKind
    <3> QED BY <3>1, <3>2 DEF LineKept
  <2>9. Adds(l, << >>, more)
    BY <1>1, <1>2, <2>1, <2>6, <2>7, <2>8, Zenon DEF Adds
  <2> QED BY <1>3, <2>1, <2>9
<1>8. CASE Refused(l) \/ ParserEnds(l) \/ SyntaxError(l)
  BY <1>8 DEF Refused, ParserEnds, SyntaxError, Parses, Ended, Leaves, tables
<1> QED BY <1>4, <1>5, <1>6, <1>7, <1>8, Zenon DEF Parse

(* The lines and what the tables hold of them, as a call goes on.           *)
LEMMA LinesParse ==
  ASSUME AssemblerInv, TargetsInv, LinesInv, NEW l \in Lines, Parse(l)
  PROVE  LinesInv'
<1>1. CASE UNCHANGED <<parsed, instructions, memsections>>
  BY <1>1, Zenon DEF LinesInv
<1>2. CASE l \in Line /\ parsed' = Append(parsed, l) /\ \E fresh, more : Adds(l, fresh, more)
  <2>1. PICK fresh, more : Adds(l, fresh, more)
    BY <1>2
  <2> QED BY <1>2, <2>1, LinesParsed DEF Adds
<1> QED BY <1>1, <1>2, ParseAdds

(* An operand ORed into the immediate leaves what is above it.              *)
LEMMA OredAbove ==
  ASSUME NEW x \in Nat, NEW o \in 0 .. ImmSize - 1
  PROVE  (x | o) \div ImmSize = x \div ImmSize
<1> HIDE DEF ImmSize
<1> DEFINE q == x \div ImmSize
           r == x % ImmSize
<1>1. q \in Nat /\ r \in 0 .. ImmSize - 1 /\ x = q * ImmSize + r
  BY ImmSizes
<1> HIDE DEF q, r
<1>2. o = 0 * ImmSize + o /\ 0 \in Nat
  BY ImmSizes
<1>3. /\ ((q * ImmSize + r) | (0 * ImmSize + o)) = ImmSize * (q | 0) + (r | o)
      /\ (r | o) \in 0 .. ImmSize - 1
  <2>1. Apart(ImmSize, q, 0, r, o)
    BY <1>1, <1>2, Powers, Zenon DEF Fieldwise
  <2> QED BY <2>1, Zenon DEF Apart
<1>4. (q | 0) = q
  BY <1>1, OrIs
<1> DEFINE s == r | o
<1>5. (x | o) = ImmSize * q + s /\ s \in 0 .. ImmSize - 1
  BY <1>1, <1>2, <1>3, <1>4, Zenon
<1> DEFINE y == x | o
<1>6. y = ImmSize * q + s /\ s \in 0 .. ImmSize - 1
  BY <1>5
<1> HIDE DEF s, y
<1>7. y = q * ImmSize + s
  BY <1>1, <1>6, ImmSizes
<1>8. y \div ImmSize = q
  BY <1>1, <1>6, <1>7, ImmSizes, Parts
<1> QED BY <1>8 DEF y, q

(* Resolving leaves of a word what its format has in front of the label.    *)
LEMMA ResolveKeeps ==
  ASSUME AssemblerInv, Resolve, NEW i \in DOMAIN instructions,
         NEW e, e = instructions[i], NEW f, f = instructions'[i]
  PROVE  /\ f.kind = e.kind /\ f.label = e.label
         /\ \A v : SameAs(e.kind, e.word, v) => SameAs(e.kind, f.word, v)
<1>1. /\ next \in DOMAIN instructions /\ instructions' \in Seq(EntryType)
      /\ DOMAIN instructions' = DOMAIN instructions /\ instructions \in Seq(EntryType)
  BY ResolveStep DEF AssemblerInv, TablesInv
<1>2. e \in EntryType /\ f \in EntryType
  BY <1>1
<1>3. e.word.rest \in Rest26 /\ f.word.rest \in Rest26
  <2> HIDE DEF Rest26
  <2> QED BY <1>2 DEF EntryType
<1>4. CASE i # next \/ ~Refers(instructions[next])
  <2>1. f = e
    BY <1>4, ResolveStep
  <2> QED BY <2>1
<1>5. CASE i = next /\ Refers(instructions[next])
  <2>1. /\ f.kind = e.kind /\ f.label = e.label /\ f.word.opcode = e.word.opcode
        /\ Refers(e) /\ e.kind # "plain"
    BY <1>5, ResolveStep DEF Refers
  <2>2. PICK j \in Named(e) : f.word.rest = (e.word.rest | Operand(e, j))
    BY <1>5, ResolveStep
  <2>3. ASSUME e.kind = "relative"
        PROVE  f.word.rest \div ImmSize = e.word.rest \div ImmSize
    <3>1. j \in DOMAIN labels /\ labels \in Seq(LabelType)
      BY <2>3 DEF Named, AssemblerInv, TablesInv
    <3>2. labels[j] \in LabelType
      BY <3>1
    <3>3. labels[j].line \in Int /\ e.line \in Int
      BY <1>2, <3>2 DEF LabelType, EntryType, Addr
    <3>4. Distance(e, labels[j]) \in Int
      BY <3>3 DEF Distance
    <3>5. Operand(e, j) = Distance(e, labels[j]) % ImmSize
      BY <2>3 DEF Operand
    <3> DEFINE o == Operand(e, j)
               x == e.word.rest
    <3>6. o \in 0 .. ImmSize - 1
      BY <3>4, <3>5, Modulo
    <3>7. x \in Nat
      BY <1>3 DEF Rest26
    <3>8. f.word.rest = (x | o)
      BY <2>2
    <3> HIDE DEF o, x
    <3>9. (x | o) \div ImmSize = x \div ImmSize
      BY <3>6, <3>7, OredAbove
    <3> QED BY <3>8, <3>9 DEF x
  <2>4. ASSUME NEW v, SameAs(e.kind, e.word, v) PROVE SameAs(e.kind, f.word, v)
    <3>1. /\ e.word.opcode = v.opcode
          /\ e.kind = "relative" => e.word.rest \div ImmSize = v.rest \div ImmSize
      BY <2>4, Zenon DEF SameAs
    <3> QED BY <1>3, <2>1, <2>3, <3>1, Zenon DEF SameAs
  <2> QED BY <2>1, <2>4
<1> QED BY <1>4, <1>5

(* So it leaves what the tables hold of the lines.                          *)
LEMMA LinesResolve == ASSUME AssemblerInv, LinesInv, Resolve PROVE LinesInv'
<1>1. /\ parsed' = parsed /\ memsections' = memsections
      /\ DOMAIN instructions' = DOMAIN instructions
  BY ResolveStep DEF Resolve
<1>2. ASSUME NEW k \in DOMAIN parsed
      PROVE  LineKept(parsed[k], instructions', memsections, PlaceIn(parsed, k) + 1)
  <2> DEFINE l == parsed[k]
             at == PlaceIn(parsed, k) + 1
             new == instructions'
  <2>1. LineKept(l, instructions, memsections, at)
    BY DEF LinesInv
  <2>2. \A i \in DOMAIN instructions :
          /\ i \in DOMAIN new /\ new[i].kind = instructions[i].kind
          /\ new[i].label = instructions[i].label
          /\ \A v : SameAs(instructions[i].kind, instructions[i].word, v) =>
                      SameAs(instructions[i].kind, new[i].word, v)
    BY <1>1, ResolveKeeps
  <2> HIDE DEF l, at, new
  <2>3. HasWord(l, instructions, at) => HasWord(l, new, at)
    BY <2>2, Zenon DEF HasWord
  <2>4. HasHalves(l, instructions, at) => HasHalves(l, new, at)
    BY <2>2, Zenon DEF HasHalves
  <2>5. LineKept(l, new, memsections, at)
    BY <2>1, <2>3, <2>4, Zenon DEF LineKept
  <2> QED BY <2>5 DEF l, at, new
<1> QED BY <1>1, <1>2, Zenon DEF LinesInv

(* Every step keeps what the tables hold of the lines.                      *)
LEMMA LinesNext == ASSUME AssemblerInv, TargetsInv, LinesInv, [Next]_vars PROVE LinesInv'
<1>1. CASE UNCHANGED <<parsed, instructions, memsections>>
  BY <1>1, Zenon DEF LinesInv
<1>2. CASE Begin
  <2>1. parsed' = << >>
    BY <1>2 DEF Begin
  <2> QED BY <2>1 DEF LinesInv
<1>3. ASSUME NEW l \in Lines, Parse(l) PROVE LinesInv'
  BY <1>3, LinesParse
<1>4. CASE Resolve
  BY <1>4, LinesResolve
<1>5. CASE UNCHANGED vars \/ Incomplete \/ EndOfFile
  BY <1>1, <1>5 DEF vars, tables, Incomplete, Leaves, EndOfFile
<1>6. CASE Unresolved \/ Resolved \/ SetupSection \/ NoRoom \/ SetupEnds \/ SetupText
  BY <1>1, <1>6 DEF tables, Unresolved, Resolved, SetupSection, NoRoom, SetupEnds, Ended, SetupText
<1> QED BY <1>2, <1>3, <1>4, <1>5, <1>6, Zenon DEF Next

(* They are kept in every state.                                            *)
LEMMA LinesInvariant == Spec => []LinesInv
<1>1. Init => LinesInv
  BY DEF Init, LinesInv
<1> QED BY <1>1, LinesNext, AssemblerInvariant, TargetsInvariant, PTL DEF Spec

(* The word of an instruction of a loaded program is displayed as what was  *)
(* written, whatever its format, also after its label was resolved.         *)
THEOREM WordsAreDisplayedAsWritten == Spec => []WordsDecode
<1>1. AssemblerInv /\ TargetsInv /\ LinesInv => WordsDecode
  <2> SUFFICES ASSUME AssemblerInv, TargetsInv, LinesInv, Loaded,
                      NEW k \in OfKind(InstructionKind), ~Ambiguous(parsed[k])
               PROVE  ShownAs(m.content["text"][Place(k) + 1], parsed[k])
    BY Zenon DEF WordsDecode, ShownAs
  <2> DEFINE l == parsed[k]
             at == PlaceIn(parsed, k) + 1
  <2>1. Place(k) + 1 = at
    <3>1. \A j, kinds : Before(j, kinds) = LinesBefore(parsed, j, kinds)
      BY DEF Before, OfKind, LinesBefore
    <3> QED BY <3>1, Zenon DEF Place, PlaceIn
  <2>2. k \in DOMAIN parsed /\ l.kind \in InstructionKind /\ l \in Line
    BY DEF OfKind, AssemblerInv, ScannerInv
  <2>3. HasWord(l, instructions, at)
    BY <2>2 DEF LinesInv, LineKept
  <2> HIDE DEF l, at
  <2>4. m.content["text"][at] = instructions[at].word
    <3>1. m.content["text"] = [j \in DOMAIN instructions |-> instructions[j].word]
      BY DEF TargetsInv, Loaded
    <3> QED BY <2>3, <3>1 DEF HasWord
  <2>5. ShownAs(instructions[at].word, l)
    <3>1. Assembles(l) /\ ~Ends(l) /\ SameAs(l.kind, instructions[at].word, Assemble(Statement(l)))
      BY <2>3, Zenon DEF HasWord
    <3>2. ~Ambiguous(l)
      BY DEF l
    <3> QED BY <2>2, <3>1, <3>2, ShownLine
  <2> QED BY <2>1, <2>4, <2>5 DEF l
<1> QED BY <1>1, AssemblerInvariant, TargetsInvariant, LinesInvariant, PTL

-----------------------------------------------------------------------------
(* The halves of addresses are open while the file is parsed, are closed    *)
(* one after the other, and are closed when the text is written.            *)
HalvesInv ==
  \A i \in DOMAIN instructions :
    /\ phase = "parse" => HalfOpen(instructions[i])
    /\ phase = "resolve" => IF i >= next THEN HalfOpen(instructions[i])
                            ELSE HalfClosed(instructions[i], memsections)
    /\ phase \in {"setup", "ok"} => HalfClosed(instructions[i], memsections)

(* The positions of the sections follow each other, from 0 to the counter   *)
(* of the parser.                                                           *)
PositionIn(secs, pos, i) == IF i = Len(secs) + 1 THEN pos ELSE secs[i].position
LaidOut(secs, pos) ==
  /\ PositionIn(secs, pos, 1) = 0
  /\ \A i \in DOMAIN secs : PositionIn(secs, pos, i + 1) = Wrap(secs[i].position + secs[i].length)

(* A section behind the others is laid out behind them.                     *)
LEMMA LaidOutBehind ==
  ASSUME NEW secs \in Seq(SectionType), NEW pos, LaidOut(secs, pos),
         NEW sec \in SectionType, sec.position = pos,
         NEW secs2, secs2 = Append(secs, sec), NEW pos2, pos2 = Wrap(pos + sec.length)
  PROVE  LaidOut(secs2, pos2)
<1> DEFINE n == Len(secs)
<1>1. /\ n \in Nat /\ DOMAIN secs = 1 .. n /\ Len(secs2) = n + 1 /\ DOMAIN secs2 = 1 .. n + 1
      /\ secs2[n + 1] = sec /\ \A i \in 1 .. n : secs2[i] = secs[i]
  <2>1. secs2 \in Seq(SectionType) /\ Len(secs2) = n + 1
    BY Appended
  <2>2. secs2[n + 1] = sec /\ \A i \in 1 .. n : secs2[i] = secs[i]
    BY Appended
  <2>3. n \in Nat /\ DOMAIN secs = 1 .. n
    OBVIOUS
  <2> QED BY <2>1, <2>2, <2>3
<1> HIDE DEF n
<1>2. /\ PositionIn(secs, pos, 1) = 0
      /\ \A i \in 1 .. n :
           PositionIn(secs, pos, i + 1) = Wrap(secs[i].position + secs[i].length)
  BY <1>1 DEF LaidOut
<1>3. \A i \in 1 .. n + 1 : PositionIn(secs2, pos2, i) = PositionIn(secs, pos, i)
  BY <1>1 DEF PositionIn, n
<1>4. PositionIn(secs2, pos2, n + 2) = Wrap(secs2[n + 1].position + secs2[n + 1].length)
  BY <1>1 DEF PositionIn
<1>5. ASSUME NEW i \in 1 .. n + 1
      PROVE  PositionIn(secs2, pos2, i + 1) = Wrap(secs2[i].position + secs2[i].length)
  <2>1. CASE i = n + 1
    BY <1>1, <1>4, <2>1
  <2>2. CASE i \in 1 .. n
    <3>1. i + 1 \in 1 .. n + 1
      BY <1>1, <2>2
    <3> QED BY <1>1, <1>2, <1>3, <2>2, <3>1
  <2> QED BY <1>1, <2>1, <2>2
<1>6. PositionIn(secs2, pos2, 1) = 0
  <2>1. 1 \in 1 .. n + 1
    BY <1>1
  <2> QED BY <1>2, <1>3, <2>1
<1> QED BY <1>1, <1>5, <1>6, Zenon DEF LaidOut

(* The bytes of a section, in a memory.                                     *)
HoldsImage(mem, sec) ==
  \A n \in 1 .. sec.length :
     ReadByte(mem, Start["data"] + sec.position + n - 1) =
       IF n <= Len(Image(sec)) THEN Image(sec)[n] ELSE Nul

(* Data is written from the start of its region on, section by section:     *)
(* there is none before, the sections that were set up are held behind each *)
(* other, and nothing is written behind them.                               *)
Setup(sec) == Start["data"] + sec.position + sec.length
ContentInv ==
  /\ phase \in {"parse", "resolve"} => Bytes(m) = << >>
  /\ phase = "setup" =>
       /\ next <= Len(memsections) + 1
       /\ next_address = Start["data"] + PositionIn(memsections, mem_pos, next)
       /\ DOMAIN Bytes(m) \subseteq Int /\ \A a \in DOMAIN Bytes(m) : a < next_address
       /\ \A i \in 1 .. next - 1 :
            HoldsImage(m, memsections[i]) /\ Setup(memsections[i]) <= next_address
  /\ phase = "ok" =>
       \A i \in DOMAIN memsections :
         HoldsImage(m, memsections[i]) /\ Setup(memsections[i]) <= DataEnd

DataInv == HalvesInv /\ LaidOut(memsections, mem_pos) /\ ContentInv

(* What two memories with the same bytes hold is the same.                  *)
LEMMA SameImage ==
  ASSUME NEW a, NEW b, Bytes(a) = Bytes(b), NEW sec
  PROVE  HoldsImage(a, sec) = HoldsImage(b, sec)
<1>1. \A x : ReadByte(a, x) = ReadByte(b, x)
  BY Zenon DEF ReadByte
<1> QED BY <1>1 DEF HoldsImage

(* A line that is parsed keeps the halves open and the sections in a row.   *)
LEMMA DataParse ==
  ASSUME AssemblerInv, DataInv, NEW l \in Lines, Parse(l)
  PROVE  DataInv'
<1>1. m' = m /\ phase = "parse"
  BY ParseAdds
<1>2. ContentInv'
  <2>1. phase' \in {"parse", "threw", "failed", "ended"}
    BY ParseAdds
  <2> QED BY <1>1, <2>1 DEF DataInv, ContentInv, Bytes
<1>3. CASE /\ UNCHANGED <<parsed, instructions, memsections, mem_pos>>
           /\ phase' \in {"threw", "failed", "ended"}
  <2>1. HalvesInv'
    BY <1>3 DEF HalvesInv
  <2>2. LaidOut(memsections', mem_pos')
    BY <1>3 DEF DataInv
  <2> QED BY <1>2, <2>1, <2>2 DEF DataInv
<1>4. CASE phase' = "parse" /\ \E fresh, more : Adds(l, fresh, more)
  <2>1. PICK fresh, more : Adds(l, fresh, more)
    BY <1>4
  <2> DEFINE ins == instructions'
  <2>2. /\ instructions \in Seq(EntryType) /\ memsections \in Seq(SectionType)
        /\ fresh \in Seq(EntryType) /\ more \in Seq(SectionType)
        /\ ins = instructions \o fresh /\ memsections' = memsections \o more
    BY <2>1 DEF AssemblerInv, TablesInv, Adds
  <2>3. ASSUME NEW i \in DOMAIN ins PROVE HalfOpen(ins[i])
    <3>1. /\ Len(ins) = Len(instructions) + Len(fresh) /\ ins \in Seq(EntryType)
          /\ Len(instructions) \in Nat /\ Len(fresh) \in Nat
      BY <2>2, Joined
    <3> HIDE DEF ins
    <3>2. i \in 1 .. Len(instructions) + Len(fresh)
      BY <3>1
    <3>3. CASE i \in 1 .. Len(instructions)
      <4>1. ins[i] = instructions[i] /\ i \in DOMAIN instructions
        BY <2>2, <3>3, Joined
      <4> QED BY <1>1, <4>1 DEF DataInv, HalvesInv
    <3>4. CASE i \notin 1 .. Len(instructions)
      <4> DEFINE j == i - Len(instructions)
      <4>1. j \in 1 .. Len(fresh) /\ i = Len(instructions) + j
        BY <3>1, <3>2, <3>4
      <4> HIDE DEF j
      <4>2. ins[Len(instructions) + j] = fresh[j] /\ j \in DOMAIN fresh
        BY <2>2, <4>1, JoinedBehind
      <4> QED BY <2>1, <4>1, <4>2 DEF Adds
    <3> QED BY <3>3, <3>4
  <2>4. HalvesInv'
    BY <1>4, <2>3 DEF HalvesInv
  <2>5. LaidOut(memsections', mem_pos')
    <3>1. CASE more = << >> /\ mem_pos' = mem_pos
      <4>1. memsections' = memsections
        BY <2>2, <3>1
      <4> QED BY <3>1, <4>1 DEF DataInv
    <3>2. CASE more = << SectionOf(l, mem_pos) >> /\ mem_pos' = Wrap(mem_pos + Length(l))
      <4> DEFINE sec == SectionOf(l, mem_pos)
      <4>1. sec.position = mem_pos /\ sec.length = Length(l)
        BY DEF SectionOf
      <4> HIDE DEF sec
      <4>2. more = << sec >>
        BY <3>2 DEF sec
      <4>3. sec \in SectionType /\ memsections' = Append(memsections, sec)
        BY <2>2, <4>2
      <4>4. LaidOut(memsections, mem_pos) /\ mem_pos' = Wrap(mem_pos + sec.length)
        BY <3>2, <4>1 DEF DataInv
      <4> QED BY <2>2, <4>1, <4>3, <4>4, LaidOutBehind
    <3> QED BY <2>1, <3>1, <3>2, Zenon DEF Adds
  <2> QED BY <1>2, <2>4, <2>5 DEF DataInv
<1> QED BY <1>3, <1>4, ParseAdds

(* Resolving closes the half it comes to.                                   *)
LEMMA DataResolve == ASSUME AssemblerInv, DataInv, Resolve PROVE DataInv'
<1> DEFINE entry == instructions[next]
<1>1. /\ phase = "resolve" /\ phase' = "resolve" /\ next' = next + 1 /\ next \in Nat
      /\ memsections' = memsections /\ mem_pos' = mem_pos /\ labels' = labels /\ m' = m
  BY DEF Resolve, Resolving, AssemblerInv
<1>2. ContentInv' /\ LaidOut(memsections', mem_pos')
  BY <1>1 DEF DataInv, ContentInv, Bytes
<1>3. ASSUME NEW i \in DOMAIN instructions'
      PROVE  IF i >= next + 1 THEN HalfOpen(instructions'[i])
             ELSE HalfClosed(instructions'[i], memsections)
  <2>1. i \in DOMAIN instructions /\ i \in Nat
    BY ResolveStep DEF AssemblerInv, TablesInv
  <2>2. IF i >= next THEN HalfOpen(instructions[i]) ELSE HalfClosed(instructions[i], memsections)
    BY <1>1, <2>1 DEF DataInv, HalvesInv
  <2>3. CASE i # next
    <3>1. instructions'[i] = instructions[i]
      BY <2>1, <2>3, ResolveStep
    <3>2. i >= next <=> i >= next + 1
      BY <1>1, <2>1, <2>3
    <3> QED BY <2>2, <3>1, <3>2
  <2>4. CASE i = next
    <3> DEFINE f == instructions'[i]
    <3>1. HalfOpen(entry) /\ ~(i >= next + 1)
      BY <1>1, <2>1, <2>2, <2>4
    <3>2. /\ f.kind = entry.kind /\ f.label = entry.label /\ entry \in EntryType
      BY <2>4, ResolveStep
    <3> SUFFICES ASSUME Half(entry) PROVE HalfClosed(f, memsections)
      BY <3>1, <3>2 DEF HalfClosed, Half
    <3>3. /\ Refers(entry) /\ entry.kind \in {"high", "low"}
          /\ Named(entry) = Called(memsections, entry.label)
      BY DEF Half, Refers, Named, Called
    <3>4. PICK j \in Named(entry) :
            Named(entry) = {j} /\ f.word.rest = (entry.word.rest | Operand(entry, j))
      BY <2>4, <3>3, ResolveStep
    <3> DEFINE o == Operand(entry, j)
               x == entry.word.rest
               y == Start["data"] + memsections[j].position
    <3>5. j \in DOMAIN memsections
      BY <3>3 DEF Called
    <3>6. y \in Int /\ o = HalfOf(entry.kind, y)
      <4>1. memsections \in Seq(SectionType)
        BY DEF AssemblerInv, TablesInv
      <4>2. memsections[j] \in SectionType
        BY <3>5, <4>1
      <4>3. memsections[j].position \in Addr
        BY <4>2 DEF SectionType, SectionOf
      <4> QED BY <3>3, <4>3, Bounds DEF Addr, Operand, HalfOf
    <3> HIDE DEF o, y
    <3>7. o \in 0 .. ImmSize - 1
      <4>1. y \div ImmSize \in Int
        BY <3>6, Sizes, SMT
      <4> QED BY <3>6, <4>1, Modulo DEF HalfOf
    <3>8. x \in Nat /\ x % ImmSize = 0
      <4>1. x \in Rest26
        <5> HIDE DEF Rest26
        <5> QED BY <3>2 DEF EntryType
      <4> QED BY <3>1, <4>1 DEF HalfOpen, Rest26
    <3>9. f.word.rest = (x | o)
      BY <3>4 DEF o
    <3> HIDE DEF x
    <3>10. (x | o) % ImmSize = o
      BY <3>7, <3>8, OredBehind
    <3>11. f.word.rest % ImmSize = HalfOf(f.kind, y)
      BY <3>2, <3>6, <3>9, <3>10, Zenon
    <3>12. Called(memsections, f.label) = {j}
      BY <3>2, <3>3, <3>4
    <3> HIDE DEF f
    <3> QED BY <3>5, <3>11, <3>12, Zenon DEF HalfClosed, y
  <2> QED BY <2>3, <2>4
<1>4. HalvesInv'
  <2>1. phase' = "resolve" /\ next' = next + 1 /\ memsections' = memsections
    BY <1>1
  <2> HIDE DEF entry
  <2> QED BY <1>3, <2>1, Zenon DEF HalvesInv
<1> QED BY <1>2, <1>4 DEF DataInv

(* A call begins without sections and with no byte of data.                 *)
LEMMA DataBegin == ASSUME AssemblerInv, Begin PROVE DataInv'
<1>1. /\ instructions' = << >> /\ memsections' = << >> /\ mem_pos' = 0
      /\ phase' \in {"parse", "failed"} /\ m' = Cleared(m)
  BY DEF Begin
<1>2. Bytes(m') = << >>
  <2>1. m' = [locked |-> m.locked, blocks |-> << >>,
              content |-> [r \in Region |-> Zero], snap |-> [r \in Region |-> NoSnapshot]]
    BY <1>1 DEF Cleared, Empty
  <2>2. "data" \in Region
    BY RegionAssumption DEF RegionAssumption
  <2> QED BY <2>1, <2>2, ZeroAssumption DEF Bytes, ZeroAssumption
<1>3. LaidOut(memsections', mem_pos')
  BY <1>1 DEF LaidOut, PositionIn
<1>4. HalvesInv'
  BY <1>1 DEF HalvesInv
<1>5. ContentInv'
  <2>1. Bytes(m)' = << >>
    BY <1>2 DEF Bytes
  <2> QED BY <1>1, <2>1 DEF ContentInv
<1> QED BY <1>3, <1>4, <1>5 DEF DataInv

(* Where the parser and the loops stop nothing is claimed of halves and     *)
(* bytes.                                                                   *)
LEMMA DataStop ==
  ASSUME DataInv, UNCHANGED <<instructions, memsections, mem_pos>>,
         phase' \in {"threw", "failed", "ended"}
  PROVE  DataInv'
BY DEF DataInv, HalvesInv, ContentInv

(* A step that changes none of what is claimed.                             *)
LEMMA DataSame ==
  ASSUME DataInv,
         UNCHANGED <<m, instructions, memsections, mem_pos, phase, next, next_address>>
  PROVE  DataInv'
BY DEF DataInv, HalvesInv, ContentInv, Bytes, HoldsImage, ReadByte

(* At the end of the file no half is closed yet.                            *)
LEMMA DataEndOfFile == ASSUME AssemblerInv, DataInv, EndOfFile PROVE DataInv'
<1>1. /\ phase = "parse" /\ phase' = "resolve" /\ next' = 1 /\ m' = m
      /\ instructions' = instructions /\ memsections' = memsections /\ mem_pos' = mem_pos
  BY DEF EndOfFile, AtEnd, tables
<1>2. \A i \in DOMAIN instructions : i >= 1
  BY DEF AssemblerInv, TablesInv
<1>3. HalvesInv'
  BY <1>1, <1>2 DEF DataInv, HalvesInv
<1> QED BY <1>1, <1>3 DEF DataInv, ContentInv, Bytes

(* When all are resolved every half is closed, and the data begins where    *)
(* its region does.                                                         *)
LEMMA DataResolved == ASSUME AssemblerInv, DataInv, Resolved PROVE DataInv'
<1>1. /\ phase = "resolve" /\ phase' = "setup" /\ next > Len(instructions)
      /\ next' = 1 /\ next_address' = Start["data"] /\ m' = Locked(m)
      /\ instructions' = instructions /\ memsections' = memsections /\ mem_pos' = mem_pos
  BY DEF Resolved, tables
<1>2. HalvesInv'
  <2>1. next \in Nat /\ \A i \in DOMAIN instructions : ~(i >= next)
    BY <1>1 DEF AssemblerInv, TablesInv
  <2> QED BY <1>1, <2>1 DEF DataInv, HalvesInv
<1>3. Bytes(m)' = << >>
  <2>1. m'.content = m.content
    <3>1. m = [locked |-> m.locked, blocks |-> m.blocks, content |-> m.content, snap |-> m.snap]
      BY DEF AssemblerInv, BlocksInv
    <3> QED BY <1>1, <3>1 DEF Locked
  <2> QED BY <1>1, <2>1 DEF Bytes, DataInv, ContentInv
<1>4. ContentInv'
  <2>1. PositionIn(memsections, mem_pos, 1) = 0 /\ Len(memsections) \in Nat
    BY DEF DataInv, LaidOut, AssemblerInv, TablesInv
  <2>2. 1 <= Len(memsections) + 1 /\ Start["data"] = Start["data"] + 0
    BY <2>1, Bounds DEF Addr
  <2> QED BY <1>1, <1>3, <2>1, <2>2 DEF ContentInv
<1> QED BY <1>1, <1>2, <1>4 DEF DataInv

(* An item of data: the bytes of its image, of which there are no more than *)
(* its length says, and behind them none that was written.                  *)
LEMMA ItemBytes ==
  ASSUME NEW l \in Items, NEW p \in Addr, NEW sec, sec = SectionOf(l, p)
  PROVE  /\ Len(Image(sec)) \in Nat /\ Len(Image(sec)) <= Length(l)
         /\ \A n \in DOMAIN BytesOf(l) :
              /\ n \in 1 .. Length(l)
              /\ BytesOf(l)[n] = IF n <= Len(Image(sec)) THEN Image(sec)[n] ELSE Nul
<1>1. /\ l \in Line /\ l.kind = "item" /\ ~Ends(l) /\ l.type \in DataType
      /\ l.values \in Seq(IF l.type = "asciiz" THEN Seq(Int) ELSE Int)
  BY LineAssumption, Zenon DEF LineAssumption, Legal, Items
<1>2. WordBytes \in Nat \ {0}
  BY Bounds
<1>3. sec.type = l.type /\ sec.values = l.values
  BY DEF SectionOf
<1> DEFINE image == Image(sec)
<1>4. ASSUME NEW size \in Nat, l.values \in Seq(Int),
             image = Spread(Unsigned(l.values), size),
             BytesOf(l) = Spread(Unsigned(l.values), size), Length(l) = Len(l.values) * size
      PROVE  /\ Len(image) \in Nat /\ Len(image) <= Length(l)
             /\ \A n \in DOMAIN BytesOf(l) :
                  n \in 1 .. Length(l) /\ BytesOf(l)[n] = IF n <= Len(image) THEN image[n] ELSE Nul
  <2>1. Len(l.values) * size \in Nat
    <3>1. Len(l.values) \in Nat
      BY <1>4
    <3> DEFINE k == Len(l.values)
    <3> HIDE DEF k
    <3>2. k * size \in Nat
      BY <1>4, <3>1 DEF k
    <3> QED BY <3>2 DEF k
  <2>2. Len(image) = Len(l.values) * size /\ DOMAIN BytesOf(l) = 1 .. Len(l.values) * size
    <3> DEFINE vals == Unsigned(l.values)
    <3>1. Len(vals) = Len(l.values)
      BY <1>4, UnsignedLength
    <3>2. image = Spread(vals, size) /\ BytesOf(l) = Spread(vals, size)
      BY <1>4
    <3> HIDE DEF vals, image
    <3>3. Len(vals) * size \in Nat
      BY <2>1, <3>1
    <3>4. Len(image) = Len(vals) * size /\ DOMAIN BytesOf(l) = 1 .. Len(vals) * size
      BY <3>2, <3>3 DEF Spread
    <3> QED BY <3>1, <3>4 DEF image
  <2> HIDE DEF image
  <2> DEFINE k == Len(l.values) * size
  <2>3. k \in Nat /\ Len(image) = k /\ DOMAIN BytesOf(l) = 1 .. k /\ Length(l) = k
    BY <1>4, <2>1, <2>2
  <2> HIDE DEF k
  <2> QED BY <1>4, <2>3
<1>5. CASE l.type \in {"word", "float"}
  <2>1. /\ image = Spread(Unsigned(l.values), WordBytes)
        /\ BytesOf(l) = Spread(Unsigned(l.values), WordBytes)
    BY <1>3, <1>5 DEF Image, BytesOf
  <2>2. Length(l) = Len(l.values) * WordBytes
    BY <1>5 DEF Length
  <2>3. l.values \in Seq(Int)
    BY <1>1, <1>5
  <2> HIDE DEF image
  <2> QED BY <1>2, <1>4, <2>1, <2>2, <2>3 DEF image
<1>6. CASE l.type = "double"
  <2>1. /\ image = Spread(Unsigned(l.values), 2 * WordBytes)
        /\ BytesOf(l) = Spread(Unsigned(l.values), 2 * WordBytes)
    BY <1>3, <1>6 DEF Image, BytesOf
  <2>2. l.values \in Seq(Int)
    BY <1>1, <1>6
  <2>3. Length(l) = Len(l.values) * (2 * WordBytes) /\ 2 * WordBytes \in Nat
    <3> DEFINE n == Len(l.values)
    <3>1. n \in Nat /\ Length(l) = n * 2 * WordBytes
      BY <1>6, <2>2 DEF Length
    <3> HIDE DEF n
    <3>2. n * 2 * WordBytes = n * (2 * WordBytes)
      BY <1>2, <3>1
    <3>3. 2 * WordBytes \in Nat
      BY <1>2
    <3> QED BY <3>1, <3>2, <3>3, Zenon DEF n
  <2> HIDE DEF image
  <2> QED BY <1>4, <2>1, <2>2, <2>3 DEF image
<1>7. CASE l.type = "space"
  <2>1. image = << >> /\ BytesOf(l) = [n \in 1 .. l.values[1] |-> Nul] /\ Length(l) = l.values[1]
    BY <1>3, <1>7 DEF Image, BytesOf, Length
  <2>2. l.values[1] \in Nat
    <3>1. l.values \in Seq(Int) /\ Len(l.values) = 1 /\ ~(l.values[1] < 0)
      BY <1>1, <1>7 DEF Ends
    <3> QED BY <3>1
  <2>3. Len(image) = 0
    BY <2>1
  <2> HIDE DEF image
  <2> QED BY <2>1, <2>2, <2>3 DEF image
<1>8. CASE l.type = "asciiz"
  <2> DEFINE chars == Spread(l.values[1], 1)
             c == Len(l.values[1])
             pad == (-c) % WordBytes
  <2>1. image = chars /\ Length(l) = c + pad
    BY <1>3, <1>8 DEF Image, Length, Align4
  <2>2. BytesOf(l) = IF Len(chars) % WordBytes = 0 THEN chars ELSE Append(chars, Nul)
    BY <1>8 DEF BytesOf
  <2>3. c \in Nat
    <3>1. l.values \in Seq(Seq(Int)) /\ Len(l.values) = 1
      BY <1>1, <1>8 DEF Ends
    <3>2. l.values[1] \in Seq(Int)
      BY <3>1
    <3> QED BY <3>2
  <2>4. pad \in Nat /\ (c % WordBytes # 0 => pad >= 1)
    <3> HIDE DEF c
    <3>1. -c \in Int
      BY <2>3
    <3>2. pad \in 0 .. WordBytes - 1
      BY <1>2, <3>1
    <3>3. ASSUME pad = 0 PROVE c % WordBytes = 0
      <4> DEFINE q == (-c) \div WordBytes
      <4>1. q \in Int /\ -c = WordBytes * q + pad
        BY <1>2, <3>1
      <4> HIDE DEF q, pad
      <4>2. -q \in Int /\ c = WordBytes * (-q) + 0 /\ 0 \in 0 .. WordBytes - 1
        BY <1>2, <2>3, <3>3, <4>1
      <4> DEFINE r == -q
      <4>3. r \in Int /\ c = WordBytes * r + 0
        BY <4>2
      <4> HIDE DEF r
      <4> QED BY <1>2, <2>3, <4>2, <4>3, Remainder
    <3> HIDE DEF pad
    <3> QED BY <1>2, <3>2, <3>3
  <2>5. /\ chars \in Seq({ chars[n] : n \in 1 .. c } \cup {Nul})
        /\ Len(chars) = c /\ DOMAIN chars = 1 .. c
    <3>1. c * 1 = c
      BY <2>3
    <3>2. chars = [n \in 1 .. c |-> chars[n]]
      BY <3>1 DEF Spread
    <3> HIDE DEF chars, c
    <3> QED BY <2>3, <3>2
  <2> DEFINE T == { chars[n] : n \in 1 .. c } \cup {Nul}
  <2>6. chars \in Seq(T) /\ Nul \in T
    BY <2>5
  <2> HIDE DEF chars, c, T, pad
  <2>7. CASE Len(chars) % WordBytes = 0
    <3>1. BytesOf(l) = chars
      BY <2>2, <2>7
    <3> HIDE DEF image
    <3> QED BY <2>1, <2>3, <2>4, <2>5, <3>1 DEF image
  <2>8. CASE Len(chars) % WordBytes # 0
    <3> DEFINE all == Append(chars, Nul)
    <3>1. BytesOf(l) = all /\ pad >= 1
      BY <2>2, <2>4, <2>5, <2>8
    <3>2. all \in Seq(T) /\ Len(all) = c + 1
      BY <2>5, <2>6
    <3>3. all[c + 1] = Nul /\ \A n \in 1 .. c : all[n] = chars[n]
      BY <2>5, <2>6, Appended
    <3> HIDE DEF all
    <3>4. DOMAIN all = 1 .. c + 1
      BY <3>2
    <3> HIDE DEF image
    <3> QED BY <2>1, <2>3, <2>4, <2>5, <3>1, <3>3, <3>4 DEF image
  <2> QED BY <2>7, <2>8
<1> QED BY <1>1, <1>5, <1>6, <1>7, <1>8 DEF DataType

(* A memory is another one with an image written from an address on.        *)
WrittenOver(mem, old, at, image) ==
  /\ DOMAIN Bytes(mem) = (at .. at + Len(image) - 1) \cup DOMAIN Bytes(old)
  /\ \A n \in 1 .. Len(image) : ReadByte(mem, at + n - 1) = image[n]
  /\ \A a \in Int : a \notin at .. at + Len(image) - 1 => ReadByte(mem, a) = ReadByte(old, a)

(* A section that is set up without an exception is written over the memory. *)
LEMMA StoredBytes ==
  ASSUME AssemblerInv, NEW sec, NEW at \in Int, Len(Image(sec)) \in Nat,
         Writes(Pushed(sec), at, sec)
  PROVE  WrittenOver(Stored(Pushed(sec), at, sec), m, at, Image(sec))
<1> DEFINE mem == Stored(Pushed(sec), at, sec)
           size == Len(Image(sec))
<1>1. /\ m = [locked |-> m.locked, blocks |-> m.blocks, content |-> m.content, snap |-> m.snap]
      /\ m.content = [r \in Region |-> m.content[r]] /\ "data" \in Region
  BY RegionAssumption DEF AssemblerInv, BlocksInv, RegionAssumption
<1> DEFINE p == Pushed(sec)
           image == Image(sec)
           written == at .. at + Done(p, at, sec) - 1
           new == [a \in written \cup DOMAIN Bytes(p) |->
                     IF a \in written THEN image[a - at + 1] ELSE Bytes(p)[a]]
<1>2. /\ p = [locked |-> m.locked, blocks |-> p.blocks, content |-> m.content, snap |-> m.snap]
      /\ p.content = [r \in Region |-> m.content[r]] /\ Bytes(p) = Bytes(m)
  <2> DEFINE blocks == Append(m.blocks, [start |-> NextFree(m), size |-> sec.length])
  <2>1. p = [m EXCEPT !.blocks = blocks]
    BY DEF Pushed, AllocateNext, Push
  <2> HIDE DEF blocks, p
  <2>2. p = [locked |-> m.locked, blocks |-> blocks, content |-> m.content, snap |-> m.snap]
    BY <1>1, <2>1
  <2>3. p.content = m.content /\ p.blocks = blocks
    BY <2>2
  <2> QED BY <1>1, <2>2, <2>3 DEF Bytes
<1>3. Done(p, at, sec) = size /\ size \in Nat
  BY DEF Done
<1>4. mem = Write(p, "data", new)
  BY DEF Stored
<1> HIDE DEF new, p, mem, size
<1>5. Bytes(mem) = new
  BY <1>1, <1>2, <1>4 DEF Write, Bytes
<1>6. /\ DOMAIN new = (at .. at + size - 1) \cup DOMAIN Bytes(m)
      /\ \A a \in at .. at + size - 1 : new[a] = image[a - at + 1]
      /\ \A a \in DOMAIN Bytes(m) : a \notin at .. at + size - 1 => new[a] = Bytes(m)[a]
  BY <1>2, <1>3 DEF new
<1> HIDE DEF image
<1>7. ASSUME NEW n \in 1 .. size PROVE ReadByte(mem, at + n - 1) = image[n]
  <2>1. at + n - 1 \in at .. at + size - 1 /\ (at + n - 1) - at + 1 = n
    BY <1>3
  <2> QED BY <1>5, <1>6, <2>1 DEF ReadByte
<1>8. ASSUME NEW a \in Int, a \notin at .. at + size - 1 PROVE ReadByte(mem, a) = ReadByte(m, a)
  BY <1>5, <1>6, <1>8, Zenon DEF ReadByte
<1>9. DOMAIN Bytes(mem) = (at .. at + size - 1) \cup DOMAIN Bytes(m)
  BY <1>5, <1>6
<1> QED BY <1>7, <1>8, <1>9, Zenon DEF WrittenOver, image, mem, size

(* The section that is set up is held, and those before it still are.       *)
LEMMA DataSetup == ASSUME AssemblerInv, AssemblerInv', DataInv, SetupSection PROVE DataInv'
<1> DEFINE sec == memsections[next]
           at == next_address
<1>1. /\ phase = "setup" /\ next <= Len(memsections) /\ SettingUp
      /\ instructions' = instructions /\ memsections' = memsections /\ mem_pos' = mem_pos
      /\ m' = Stored(Pushed(sec), at, sec)
      /\ \/ /\ Writes(Pushed(sec), at, sec) /\ next' = next + 1
            /\ next_address' = Behind(at, sec) /\ phase' = "setup"
         \/ phase' = "threw"
  BY DEF SetupSection, SettingUp, tables
<1>2. CASE phase' = "threw"
  BY <1>1, <1>2, DataStop
<1>3. CASE /\ Writes(Pushed(sec), at, sec) /\ next' = next + 1
           /\ next_address' = Behind(at, sec) /\ phase' = "setup"
  <2>1. PICK l \in Items, p \in Addr : sec = SectionOf(l, p)
    BY <1>1, SectionIs
  <2> DEFINE size == Len(Image(sec))
             length == Length(l)
  <2>2. size \in Nat /\ size <= length /\ length \in Nat
    BY <2>1, ItemBytes, ItemLength
  <2>3. at \in Int /\ Start["data"] \in Int /\ next \in Nat \ {0} /\ Len(memsections) \in Nat
    <3>1. next_address \in Addr /\ memsections \in Seq(SectionType)
      BY DEF AssemblerInv, BlocksInv, TablesInv
    <3>2. at \in Int /\ Start["data"] \in Int
      BY <3>1, Bounds DEF Addr
    <3> QED BY <3>1, <3>2 DEF AssemblerInv
  <2>4. next_address' = at + length /\ sec.length = length /\ sec.position = p
    <3>1. Behind(at, sec) = at + Length(l)
      BY <2>1, <2>3, ItemLength
    <3>2. sec.length = Length(l) /\ sec.position = p
      BY <2>1 DEF SectionOf
    <3> QED BY <1>3, <3>1, <3>2
  <2>5. next_address' <= DataEnd
    BY <1>3 DEF AssemblerInv, BlocksInv
  <2>6. /\ at = Start["data"] + p /\ DOMAIN Bytes(m) \subseteq Int
        /\ \A a \in DOMAIN Bytes(m) : a < at
        /\ \A i \in 1 .. next - 1 : HoldsImage(m, memsections[i]) /\ Setup(memsections[i]) <= at
    <3>1. ContentInv /\ next # Len(memsections) + 1
      BY <1>1, <2>3 DEF DataInv
    <3> QED BY <1>1, <2>4, <3>1 DEF ContentInv, PositionIn
  <2>7. PositionIn(memsections, mem_pos, next + 1) = p + length
    <3>1. next \in DOMAIN memsections
      BY <1>1, <2>3 DEF AssemblerInv, TablesInv
    <3>2. PositionIn(memsections, mem_pos, next + 1) = Wrap(p + length)
      BY <2>4, <3>1 DEF DataInv, LaidOut
    <3>3. p + length \in Addr
      <4>1. p \in Nat /\ Start["data"] \in Nat /\ DataEnd \in Int
        BY Bounds DEF Addr, DataEnd
      <4> HIDE DEF size, length, sec, DataEnd
      <4>2. p + length \in Nat /\ p + length < AddrSize
        BY <2>2, <2>4, <2>5, <2>6, <4>1, Bounds
      <4> QED BY <4>2, Bounds DEF Addr
    <3> QED BY <3>2, <3>3, WrapSame
  <2> HIDE DEF size, length
  <2>8. /\ DOMAIN Bytes(m') = (at .. at + size - 1) \cup DOMAIN Bytes(m)
        /\ \A n \in 1 .. size : ReadByte(m', at + n - 1) = Image(sec)[n]
        /\ \A a \in Int : a \notin at .. at + size - 1 => ReadByte(m', a) = ReadByte(m, a)
    <3>1. WrittenOver(Stored(Pushed(sec), at, sec), m, at, Image(sec))
      <4>1. at \in Int
        BY <2>3
      <4>2. Len(Image(sec)) \in Nat
        BY <2>2 DEF size
      <4>3. Writes(Pushed(sec), at, sec)
        BY <1>3
      <4> HIDE DEF at, sec
      <4> QED BY <4>1, <4>2, <4>3, StoredBytes
    <3>2. WrittenOver(m', m, at, Image(sec))
      BY <1>1, <3>1, Zenon
    <3> HIDE DEF sec, at
    <3> QED BY <3>2, Zenon DEF WrittenOver, size
  <2>9. /\ DOMAIN Bytes(m') \subseteq Int
        /\ \A a \in DOMAIN Bytes(m') : a < at + length
    BY <2>2, <2>3, <2>6, <2>8
  <2>10. HoldsImage(m', sec)
    <3> SUFFICES ASSUME NEW n \in 1 .. length
                 PROVE  ReadByte(m', Start["data"] + p + n - 1) =
                          IF n <= size THEN Image(sec)[n] ELSE Nul
      BY <2>4 DEF HoldsImage, size
    <3>1. Start["data"] + p + n - 1 = at + n - 1 /\ at + n - 1 \in Int
      BY <2>2, <2>3, <2>6
    <3>2. CASE n <= size
      <4>1. n \in 1 .. size
        BY <2>2, <3>2
      <4> QED BY <2>8, <3>1, <3>2, <4>1
    <3>3. CASE ~(n <= size)
      <4>1. at + n - 1 \notin at .. at + size - 1 /\ ~(at + n - 1 < at)
        BY <2>2, <2>3, <3>3
      <4>2. ReadByte(m, at + n - 1) = Nul
        BY <2>6, <4>1 DEF ReadByte
      <4> QED BY <2>8, <3>1, <3>3, <4>1, <4>2
    <3> QED BY <3>2, <3>3
  <2>11. ASSUME NEW i \in 1 .. next - 1
         PROVE  HoldsImage(m', memsections[i]) /\ Setup(memsections[i]) <= at + length
    <3> DEFINE old == memsections[i]
    <3>1. HoldsImage(m, old) /\ Setup(old) <= at
      BY <2>6
    <3>2. old.position \in Nat /\ old.length \in Nat
      <4>1. old \in SectionType
        <5>1. i \in DOMAIN memsections /\ memsections \in Seq(SectionType)
          BY <1>1, <2>3 DEF AssemblerInv, TablesInv
        <5> QED BY <5>1
      <4> HIDE DEF old
      <4>2. PICK k \in Items, q \in Addr : old = SectionOf(k, q)
        BY <4>1 DEF SectionType
      <4>3. old.position = q /\ old.length = Length(k)
        BY <4>2 DEF SectionOf
      <4> QED BY <4>3, ItemLength DEF Addr
    <3> HIDE DEF old
    <3>3. ASSUME NEW n \in 1 .. old.length
          PROVE  LET a == Start["data"] + old.position + n - 1
                 IN  ReadByte(m', a) = ReadByte(m, a)
      <4> DEFINE a == Start["data"] + old.position + n - 1
      <4>1. a \in Int /\ a < at
        BY <2>3, <3>1, <3>2 DEF Setup
      <4> HIDE DEF a
      <4>2. a \notin at .. at + size - 1
        BY <2>3, <4>1
      <4>3. ReadByte(m', a) = ReadByte(m, a)
        BY <2>8, <4>1, <4>2
      <4> QED BY <4>3 DEF a
    <3>4. HoldsImage(m', old)
      BY <3>1, <3>3, Zenon DEF HoldsImage
    <3>5. Setup(old) <= at + length
      BY <2>2, <2>3, <3>1, <3>2 DEF Setup
    <3> QED BY <3>4, <3>5 DEF old
  <2>12. Setup(sec) <= at + length
    <3>1. Setup(sec) = at + length /\ at + length \in Int
      BY <2>2, <2>3, <2>4, <2>6 DEF Setup
    <3> QED BY <3>1
  <2>13. ContentInv'
    <3>1. next + 1 <= Len(memsections) + 1 /\ at + length = Start["data"] + (p + length)
      <4>1. p \in Int
        BY DEF Addr
      <4> QED BY <1>1, <2>2, <2>3, <2>6, <4>1
    <3>2. ASSUME NEW i \in 1 .. next
          PROVE  HoldsImage(m', memsections[i]) /\ Setup(memsections[i]) <= at + length
      <4>1. i \in 1 .. next - 1 \/ i = next
        BY <2>3
      <4> QED BY <2>10, <2>11, <2>12, <4>1
    <3> HIDE DEF sec, at
    <3>3. Bytes(m)' = Bytes(m')
      BY DEF Bytes
    <3>4. \A i : HoldsImage(m, memsections[i])' = HoldsImage(m', memsections[i])
      BY <1>1 DEF HoldsImage, ReadByte, Bytes
    <3>5. /\ next' = next + 1 /\ next_address' = at + length /\ phase' = "setup"
          /\ memsections' = memsections /\ mem_pos' = mem_pos
      BY <1>1, <1>3, <2>4
    <3>6. \A i : Setup(memsections[i])' = Setup(memsections[i])
      BY <3>5 DEF Setup
    <3>7. next_address' = Start["data"] + PositionIn(memsections, mem_pos, next')
      BY <2>7, <3>1, <3>5
    <3>8. /\ DOMAIN Bytes(m)' \subseteq Int
          /\ \A a \in DOMAIN Bytes(m)' : a < next_address'
      BY <2>9, <3>3, <3>5
    <3>9. \A i \in 1 .. next' - 1 :
             HoldsImage(m, memsections[i])' /\ Setup(memsections[i])' <= next_address'
      <4>1. next' - 1 = next
        BY <2>3, <3>5
      <4>2. next_address' = at + length
        BY <3>5
      <4>3. ASSUME NEW i \in 1 .. next' - 1
            PROVE  HoldsImage(m, memsections[i])' /\ Setup(memsections[i])' <= next_address'
        <5>1. HoldsImage(m', memsections[i]) /\ Setup(memsections[i]) <= at + length
          BY <3>2, <4>1, <4>3, Zenon
        <5>2. HoldsImage(m, memsections[i])'
          BY <3>4, <5>1, Zenon
        <5>3. Setup(memsections[i])' <= next_address'
          BY <3>6, <4>2, <5>1, Zenon
        <5> QED BY <5>2, <5>3
      <4> QED BY <4>3, Zenon
    <3>10. next' <= Len(memsections') + 1
      BY <3>1, <3>5
    <3> QED BY <3>5, <3>7, <3>8, <3>9, <3>10 DEF ContentInv
  <2>14. HalvesInv' /\ LaidOut(memsections', mem_pos')
    BY <1>1, <1>3 DEF DataInv, HalvesInv
  <2> QED BY <2>13, <2>14 DEF DataInv
<1> QED BY <1>1, <1>2, <1>3

(* The text is written, and the data is as it was.                          *)
LEMMA DataText == ASSUME AssemblerInv, DataInv, SetupText PROVE DataInv'
<1> DEFINE words == [k \in DOMAIN instructions |-> instructions[k].word]
<1>1. /\ phase = "setup" /\ phase' = "ok" /\ next > Len(memsections)
      /\ instructions' = instructions /\ memsections' = memsections /\ mem_pos' = mem_pos
      /\ m' = Write(Push(m, Start["text"], TextSize), "text", words)
  BY DEF SetupText, AllocateAt, tables
<1>2. HalvesInv' /\ LaidOut(memsections', mem_pos')
  BY <1>1 DEF DataInv, HalvesInv
<1>3. Bytes(m') = Bytes(m)
  <2> HIDE DEF words
  <2>1. /\ m = [locked |-> m.locked, blocks |-> m.blocks, content |-> m.content, snap |-> m.snap]
        /\ m.content = [r \in Region |-> m.content[r]]
    BY DEF AssemblerInv, BlocksInv
  <2>2. "data" \in Region /\ "data" # "text"
    BY RegionAssumption DEF RegionAssumption
  <2>3. m'.content = [m.content EXCEPT !["text"] = words]
    BY <1>1, <2>1 DEF Write, Push
  <2> QED BY <2>1, <2>2, <2>3 DEF Bytes
<1>4. ASSUME NEW i \in DOMAIN memsections
      PROVE  HoldsImage(m', memsections[i]) /\ Setup(memsections[i]) <= DataEnd
  <2> DEFINE sec == memsections[i]
  <2>1. i \in 1 .. next - 1
    BY <1>1 DEF AssemblerInv, TablesInv
  <2>2. HoldsImage(m, sec) /\ Setup(sec) <= next_address
    BY <1>1, <2>1 DEF DataInv, ContentInv
  <2>3. next_address <= DataEnd /\ next_address \in Int /\ DataEnd \in Int
    <3>1. next_address <= DataEnd /\ next_address \in Addr
      BY <1>1 DEF AssemblerInv, BlocksInv
    <3>2. AddrSize \in Nat /\ Start["data"] \in Addr /\ Size["data"] \in Addr
      BY Bounds
    <3> QED BY <3>1, <3>2 DEF Addr, DataEnd
  <2>4. Setup(sec) \in Int
    <3>1. sec \in SectionType
      BY DEF AssemblerInv, TablesInv
    <3> HIDE DEF sec
    <3>2. PICK l \in Items, p \in Addr : sec = SectionOf(l, p)
      BY <3>1 DEF SectionType
    <3>3. sec.position = p /\ sec.length = Length(l)
      BY <3>2 DEF SectionOf
    <3> QED BY <3>3, ItemLength, Bounds DEF Addr, Setup
  <2> HIDE DEF sec, DataEnd
  <2>5. HoldsImage(m', sec)
    BY <1>3, <2>2, SameImage
  <2>6. Setup(sec) <= DataEnd
    BY <2>2, <2>3, <2>4
  <2> QED BY <2>5, <2>6 DEF sec
<1>5. ContentInv'
  <2>1. \A i \in DOMAIN memsections' :
          HoldsImage(m', memsections'[i]) /\ Setup(memsections'[i]) <= DataEnd
    BY <1>1, <1>4, Zenon
  <2> HIDE DEF words
  <2> QED BY <1>1, <2>1 DEF ContentInv, HoldsImage, ReadByte, Bytes, Setup, DataEnd
<1> QED BY <1>2, <1>5 DEF DataInv

(* Every step keeps the halves and the data.                                *)
LEMMA DataNext == ASSUME AssemblerInv, DataInv, [Next]_vars PROVE DataInv'
<1>1. CASE UNCHANGED vars
  BY <1>1, DataSame DEF vars, tables
<1>2. CASE Begin
  BY <1>2, DataBegin
<1>3. ASSUME NEW l \in Lines, Parse(l) PROVE DataInv'
  BY <1>3, DataParse
<1>4. CASE Incomplete \/ Unresolved \/ NoRoom \/ SetupEnds
  <2>1. UNCHANGED <<instructions, memsections, mem_pos>>
    BY <1>4 DEF Incomplete, Leaves, Unresolved, NoRoom, SetupEnds, Ended, tables
  <2>2. phase' \in {"threw", "failed", "ended"}
    BY <1>4 DEF Incomplete, Leaves, Unresolved, NoRoom, SetupEnds, Ended
  <2> QED BY <2>1, <2>2, DataStop
<1>5. CASE EndOfFile
  BY <1>5, DataEndOfFile
<1>6. CASE Resolve
  BY <1>6, DataResolve
<1>7. CASE Resolved
  BY <1>7, DataResolved
<1>8. CASE SetupSection
  BY <1>8, NextInv, DataSetup
<1>9. CASE SetupText
  BY <1>9, DataText
<1> QED
  BY <1>1, <1>2, <1>3, <1>4, <1>5, <1>6, <1>7, <1>8, <1>9, Zenon DEF Next

(* They hold of every state.                                                *)
LEMMA DataInvariant == Spec => []DataInv
<1>1. Init => DataInv
  BY DEF Init, DataInv, HalvesInv, LaidOut, PositionIn, ContentInv
<1> QED BY <1>1, DataNext, AssemblerInvariant, PTL DEF Spec

(* Division with remainder.                                                 *)
LEMMA Quotient == ASSUME NEW x \in Nat, NEW size, size = 65536 PROVE x \div size \in Nat
OBVIOUS

LEMMA Division ==
  ASSUME NEW x \in Nat, NEW size, size = 65536
  PROVE  x = (x \div size) * size + (x % size)
OBVIOUS

(* An address is its two halves.                                            *)
LEMMA WholeAddress ==
  ASSUME NEW x \in Addr
  PROVE  HalfOf("high", x) * ImmSize + HalfOf("low", x) = x
<1>1. x \in Nat /\ x <= AddrSize - 1 /\ AddrSize \in Nat
  BY Bounds DEF Addr
<1>2. ImmSize = 65536
  BY Sizes
<1> DEFINE q == x \div ImmSize
           r == x % ImmSize
<1>3. q \in Nat /\ r \in 0 .. ImmSize - 1 /\ x = q * ImmSize + r
  <2>1. q \in Nat
    BY <1>1, <1>2, Quotient
  <2>2. r \in 0 .. ImmSize - 1
    BY <1>1, Modulo
  <2>3. x = q * ImmSize + r
    BY <1>1, <1>2, Division
  <2> QED BY <2>1, <2>2, <2>3
<1>4. q < ImmSize
  <2> DEFINE last == (AddrSize - 1) \div ImmSize
  <2>1. q <= last /\ last \in Int
    BY <1>1, <1>2, SMT
  <2>2. last < ImmSize
    BY WidthAssumption DEF WidthAssumption
  <2> HIDE DEF q, last
  <2>3. q \in Int /\ ImmSize \in Int
    BY <1>3, ImmSizes
  <2> HIDE DEF ImmSize
  <2> QED BY <2>1, <2>2, <2>3
<1>5. q % ImmSize = q
  <2>1. q \in Nat /\ ImmSize \in Nat \ {0}
    BY <1>3, ImmSizes
  <2> HIDE DEF q, ImmSize
  <2> QED BY <1>4, <2>1
<1>6. HalfOf("high", x) = q % ImmSize /\ HalfOf("low", x) = r
  BY DEF HalfOf
<1> HIDE DEF q, r
<1> QED BY <1>3, <1>5, <1>6

(* What la puts in its register is the address of the item it names, which  *)
(* holds the item's values and no byte of another's, for items of every     *)
(* type and size in any order.                                              *)
THEOREM LoadedAddressesReachTheirData == Spec => []AddressesReachData
<1>1. AssemblerInv /\ TargetsInv /\ LinesInv /\ DataInv => AddressesReachData
  <2> SUFFICES ASSUME AssemblerInv, TargetsInv, LinesInv, DataInv, Loaded,
                      NEW k \in OfKind({"la"}), NEW d \in OfKind({"item"}),
                      parsed[d].label = parsed[k].label,
                      NEW n \in DOMAIN BytesOf(parsed[d])
               PROVE  ReadByte(m, WordAt(Place(k)).addr_i * ImmSize
                                  + WordAt(Place(k) + 1).addr_i + n - 1) = BytesOf(parsed[d])[n]
    BY Zenon DEF AddressesReachData
  <2> DEFINE la == parsed[k]
             l == parsed[d]
             at == PlaceIn(parsed, k) + 1
             high == instructions[at]
             low == instructions[at + 1]
  <2>1. Place(k) + 1 = at /\ (Place(k) + 1) + 1 = at + 1
    <3>1. \A j, kinds : Before(j, kinds) = LinesBefore(parsed, j, kinds)
      BY DEF Before, OfKind, LinesBefore
    <3> QED BY <3>1, Zenon DEF Place, PlaceIn
  <2>2. /\ k \in DOMAIN parsed /\ la.kind = "la" /\ la \in Line
        /\ d \in DOMAIN parsed /\ l.kind = "item" /\ l \in Line
    BY DEF OfKind, AssemblerInv, ScannerInv
  <2>3. HasHalves(la, instructions, at) /\ HasSection(l, memsections)
    BY <2>2, Zenon DEF LinesInv, LineKept
  <2> HIDE DEF la, at
  <2>4. /\ WordAt(Place(k)).addr_i = high.word.rest % ImmSize
        /\ WordAt(Place(k) + 1).addr_i = low.word.rest % ImmSize
    <3>1. m.content["text"] = [j \in DOMAIN instructions |-> instructions[j].word]
      BY DEF TargetsInv, Loaded
    <3>2. m.content["text"][at] = high.word /\ m.content["text"][at + 1] = low.word
      BY <2>3, <3>1 DEF HasHalves
    <3> QED BY <2>1, <3>2, FilledImmediates, Zenon DEF WordAt
  <2>5. PICK i \in DOMAIN memsections : memsections[i] = SectionOf(l, memsections[i].position)
    BY <2>3 DEF HasSection
  <2> DEFINE sec == memsections[i]
             x == Start["data"] + sec.position
  <2>6. i \in Called(memsections, la.label)
    <3>1. sec.label = l.label
      BY <2>5 DEF SectionOf
    <3> QED BY <3>1 DEF Called, la
  <2>7. HoldsImage(m, sec) /\ Setup(sec) <= DataEnd
    BY DEF DataInv, ContentInv, Loaded
  <2> HIDE DEF l
  <2>8. /\ l \in Items /\ sec.position \in Addr /\ sec = SectionOf(l, sec.position)
        /\ sec.length = Length(l)
    <3>1. l \in Items
      BY <2>2, <2>3 DEF Items, HasSection
    <3>2. sec \in SectionType
      BY DEF AssemblerInv, TablesInv
    <3>3. sec.position \in Addr
      BY <3>2 DEF SectionType, SectionOf
    <3>4. sec = SectionOf(l, sec.position)
      BY <2>5
    <3> HIDE DEF sec
    <3>5. sec.length = Length(l)
      BY <3>4 DEF SectionOf
    <3> QED BY <3>1, <3>3, <3>4, <3>5
  <2>9. x \in Addr
    <3>1. Setup(sec) = x + sec.length
      BY DEF Setup
    <3>2. sec.length \in Nat
      BY <2>8, ItemLength
    <3>3. x \in Nat /\ DataEnd \in Nat /\ DataEnd < AddrSize /\ AddrSize \in Nat
      BY <2>8, Bounds DEF Addr, DataEnd
    <3> HIDE DEF x, sec, DataEnd
    <3> QED BY <2>7, <3>1, <3>2, <3>3 DEF Addr
  <2>10. /\ high.word.rest % ImmSize = HalfOf("high", x)
         /\ low.word.rest % ImmSize = HalfOf("low", x)
    <3>1. ASSUME NEW a \in {at, at + 1}
          PROVE  instructions[a].word.rest % ImmSize = HalfOf(instructions[a].kind, x)
      <4> DEFINE e == instructions[a]
      <4>1. a \in DOMAIN instructions /\ Half(e) /\ e.label = la.label
        BY <2>3, <3>1 DEF HasHalves, Half
      <4>2. HalfClosed(e, memsections)
        BY <4>1 DEF DataInv, HalvesInv, Loaded
      <4> HIDE DEF e, sec, x
      <4>3. PICK j \in DOMAIN memsections :
              /\ Called(memsections, e.label) = {j}
              /\ e.word.rest % ImmSize = HalfOf(e.kind, Start["data"] + memsections[j].position)
        BY <4>1, <4>2 DEF HalfClosed
      <4>4. i = j
        BY <2>6, <4>1, <4>3
      <4> QED BY <4>3, <4>4 DEF e, x, sec
    <3>2. high.kind = "high" /\ low.kind = "low"
      BY <2>3 DEF HasHalves
    <3> HIDE DEF x
    <3> QED BY <3>1, <3>2
  <2>11. WordAt(Place(k)).addr_i * ImmSize + WordAt(Place(k) + 1).addr_i = x
    <3> HIDE DEF x, high, low
    <3> QED BY <2>4, <2>9, <2>10, WholeAddress
  <2>12. /\ n \in 1 .. sec.length
         /\ BytesOf(l)[n] = IF n <= Len(Image(sec)) THEN Image(sec)[n] ELSE Nul
    <3>1. n \in DOMAIN BytesOf(l)
      BY DEF l
    <3> HIDE DEF sec
    <3> QED BY <2>8, <3>1, ItemBytes
  <2>13. ReadByte(m, x + n - 1) = BytesOf(l)[n]
    <3> HIDE DEF sec
    <3> QED BY <2>7, <2>12 DEF HoldsImage, x
  <2> HIDE DEF x
  <2>14. ReadByte(m, WordAt(Place(k)).addr_i * ImmSize
                     + WordAt(Place(k) + 1).addr_i + n - 1) = BytesOf(l)[n]
    BY <2>11, <2>13
  <2> QED BY <2>14 DEF l
<1> QED BY <1>1, AssemblerInvariant, TargetsInvariant, LinesInvariant, DataInvariant, PTL
=============================================================================
