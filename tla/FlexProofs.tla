------------------------------ MODULE FlexProofs ------------------------------
(***************************************************************************)
(* Proofs about CpuFlex and its coprocessor, for any number of units of    *)
(* each type, any latencies, every program and every order in which the    *)
(* results come.                                                           *)
(***************************************************************************)
EXTENDS FlexProperties, FiniteSetTheorems, TLAPS

-----------------------------------------------------------------------------
(* What the state of the coprocessor is made of.                            *)
Unit == [type : UnitType, busy : BOOLEAN, elapsed : Nat, delay : Nat, seg : SegReg]

Forwards == UNION { [regs -> Entry] : regs \in SUBSET Nat }

FpuState == [units : Seq(Unit), dests : Seq(FReg), fwd : Forwards, done : Nat,
             tied : BOOLEAN, cond : BOOLEAN, condDelay : 0 .. 2, lost : BOOLEAN]

(* In a unit there are operations of the coprocessor only.                  *)
Calculates(i) == i.op \in CoprocessorOp /\ WellFormed(i)

Valid(f) == /\ f \in FpuState
            /\ \A n \in Busy(f) : Calculates(f.units[n].seg.i)

LEMMA BasicTypes ==
  /\ 0 \in Word /\ WordSize - 1 \in Word /\ Bubble \in FlexInstr /\ Empty \in SegReg
  /\ TextAddr \subseteq Word /\ TextStart \in TextAddr /\ WellFormed(Bubble)
<1>1. 0 \in Word /\ WordSize - 1 \in Word
  BY WordSizeAssumption DEF WordSizeAssumption, Word
<1>2. Bubble \in FlexInstr
  BY <1>1, RegAssumption DEF RegAssumption, Bubble, FlexInstr, FlexOp, Op
<1>3. Empty \in SegReg
  BY <1>1, <1>2 DEF Empty, SegReg
<1>4. TextAddr \subseteq Word /\ TextStart \in TextAddr
  BY TextAssumption, WordSizeAssumption DEF TextAssumption, WordSizeAssumption, TextAddr, Word
<1>5. WellFormed(Bubble)
  BY RegAssumption
  DEF RegAssumption, WellFormed, Bubble, SigRegBank, FpBank, CoprocessorOp, Arithmetic
<1> QED BY <1>1, <1>2, <1>3, <1>4, <1>5

LEMMA WordArithmetic ==
  \A a, b \in Word : /\ Plus(a, b) \in Word /\ Plus(a, 1) \in Word
                     /\ Minus(a, b) \in Word /\ Minus(a, 1) \in Word
<1>1. WordSize \in Nat /\ WordSize > 0
  BY WordSizeAssumption DEF WordSizeAssumption
<1>2. \A x \in Int : x % WordSize \in 0 .. WordSize - 1
  BY <1>1
<1>3. ASSUME NEW a \in Word, NEW b \in Word
      PROVE  a + b \in Int /\ a + 1 \in Int /\ a - b \in Int /\ a - 1 \in Int
  BY <1>1 DEF Word
<1> QED BY <1>2, <1>3 DEF Plus, Minus, Word

LEMMA FReg2 == FReg \subseteq Nat /\ NoReg \in Nat \ FReg
  BY FRegAssumption, DelayAssumption DEF FRegAssumption, DelayAssumption, NoReg

LEMMA FreeUnitType == ASSUME NEW type \in UnitType PROVE FreeUnit(type) \in Unit
  BY BasicTypes DEF FreeUnit, Unit

-----------------------------------------------------------------------------
(* Forwarding.                                                              *)
LEMMA ForwardsAre ==
  ASSUME NEW fwd
  PROVE  fwd \in Forwards <=> /\ fwd \in [DOMAIN fwd -> Entry] /\ DOMAIN fwd \subseteq Nat
BY DEF Forwards

LEMMA MarkReadyType ==
  ASSUME NEW fwd \in Forwards, NEW regs
  PROVE  MarkReady(fwd, regs) \in Forwards /\ DOMAIN MarkReady(fwd, regs) = DOMAIN fwd
<1>1. fwd \in [DOMAIN fwd -> Entry] /\ DOMAIN fwd \subseteq Nat
  BY ForwardsAre
<1>2. ASSUME NEW q \in DOMAIN fwd
      PROVE  [fwd[q] EXCEPT !.ready = fwd[q].ready \/ q \in regs] \in Entry
  BY <1>1 DEF Entry
<1>3. MarkReady(fwd, regs) \in [DOMAIN fwd -> Entry]
  BY <1>2 DEF MarkReady
<1> QED BY <1>1, <1>3, ForwardsAre

LEMMA StoredType ==
  ASSUME NEW fwd \in Forwards, NEW seg \in SegReg, seg.i.rd \in Nat
  PROVE  Stored(fwd, seg) \in Forwards
<1>1. fwd \in [DOMAIN fwd -> Entry] /\ DOMAIN fwd \subseteq Nat
  BY ForwardsAre
<1>2. Fresh(seg.alu) \in Entry /\ Fresh(seg.alu2) \in Entry
  BY DEF Fresh, Entry, SegReg
<1> DEFINE regs == DOMAIN fwd \cup {seg.i.rd, seg.i.rd + 1}
<1>3. regs \subseteq Nat
  BY <1>1
<1>4. Stored(fwd, seg) \in [regs -> Entry]
  BY <1>1, <1>2 DEF Stored
<1> QED BY <1>3, <1>4 DEF Forwards

LEMMA ForwardType ==
  ASSUME NEW fwd \in Forwards, NEW m \in SegReg, NEW w \in SegReg, NEW v \in Word,
         NEW r, NEW fp
  PROVE  ForwardRegister(m, w, r, v, fp) \in Word /\ ForwardToFpu(m, w, fwd, r, v) \in Word
<1>1. \A s \in SegReg : s.alu \in Word /\ WrittenValue(s) \in Word
  BY DEF SegReg, WrittenValue
<1>2. \A bank : ForwardRegister(m, w, r, v, bank) \in Word
  BY <1>1 DEF ForwardRegister
<1>3. Ready(fwd, r) => fwd[r].value \in Word
  BY ForwardsAre DEF Ready, Entry
<1> QED BY <1>2, <1>3 DEF ForwardToFpu

LEMMA ComputedType ==
  ASSUME NEW fwd \in Forwards, NEW m \in SegReg, NEW w \in SegReg, NEW enabled,
         NEW g \in Word, NEW seg \in SegReg
  PROVE  /\ Computed(fwd, m, w, enabled, g, seg) \in SegReg
         /\ Computed(fwd, m, w, enabled, g, seg).i = seg.i
<1>1. seg.a \in Word /\ seg.b \in Word /\ seg.a2 \in Word /\ seg.b2 \in Word
  BY DEF SegReg
<1>2. \A r : \A v \in Word : Operand(fwd, m, w, enabled, r, v) \in Word
  BY ForwardType DEF Operand
<1>3. \A a, b \in Word : Outcome(seg.i, a, b) \in Word
  BY WordArithmetic DEF Outcome
<1>4. Low(fwd, m, w, enabled, seg) \in Word /\ High(fwd, m, w, enabled, seg) \in Word
  BY <1>1, <1>2, <1>3 DEF Low, High
<1> QED BY <1>4 DEF Computed, SegReg

-----------------------------------------------------------------------------
(* The units.                                                               *)
LEMMA UnitsAre ==
  ASSUME NEW f \in FpuState
  PROVE  /\ Len(f.units) \in Nat /\ DOMAIN f.units = 1 .. Len(f.units)
         /\ \A n \in DOMAIN f.units : f.units[n] \in Unit
<1>1. f.units \in Seq(Unit)
  BY DEF FpuState
<1> QED BY <1>1

LEMMA LeastElement ==
  ASSUME NEW T, T \subseteq Nat, T # {}
  PROVE  \E x \in T : \A y \in T : x <= y
<1>1. PICK x \in T : \A y \in T : ~(<<y, x>> \in OpToRel(<, Nat))
  BY WFMin, NatLessThanWellFounded, Zenon
<1>2. \A y \in T : ~(y < x)
  BY <1>1, Zenon DEF OpToRel
<1> QED BY <1>2

(* Of the units that are done one is the first: by induction on how many    *)
(* of the units are looked at.                                              *)
LEMMA FinishedIs ==
  ASSUME NEW f \in FpuState
  PROVE  IF \E n \in DOMAIN f.units : IsDone(f.units[n])
         THEN Finished(f) \in DOMAIN f.units /\ IsDone(f.units[Finished(f)])
         ELSE Finished(f) = 0
<1> DEFINE done == { n \in DOMAIN f.units : IsDone(f.units[n]) }
           delay(n) == f.units[n].delay
           before(n, k) == delay(k) < delay(n) \/ (delay(k) = delay(n) /\ n <= k)
           first(S) == \E n \in S : \A k \in S : before(n, k)
           upTo(j) == { n \in done : n <= j }
           none == { j \in 0 .. Len(f.units) : upTo(j) # {} /\ ~first(upTo(j)) }
<1>1. done \subseteq 1 .. Len(f.units) /\ Len(f.units) \in Nat
  BY UnitsAre
<1>2. \A n \in done : delay(n) \in Nat /\ n \in Nat
  BY <1>1, UnitsAre DEF Unit
<1>3. none = {}
  <2> SUFFICES ASSUME none # {} PROVE FALSE
    OBVIOUS
  <2>1. PICK j : /\ j \in 0 .. Len(f.units) /\ upTo(j) # {} /\ ~first(upTo(j))
                 /\ \A l \in none : j <= l
    <3>1. none \subseteq Nat
      BY <1>1
    <3>2. PICK j \in none : \A l \in none : j <= l
      <4> HIDE DEF none
      <4> QED BY <3>1, LeastElement
    <3> QED BY <3>2
  <2>2. j \in Nat /\ j # 0 /\ j - 1 \in 0 .. Len(f.units)
    <3>1. j \in Nat /\ j <= Len(f.units)
      BY <1>1, <2>1
    <3>2. j # 0
      BY <1>1, <2>1
    <3> QED BY <1>1, <3>1, <3>2
  <2>3. upTo(j - 1) = {} \/ first(upTo(j - 1))
    <3>1. j - 1 \notin none
      <4>1. ~(j <= j - 1)
        BY <2>2
      <4> HIDE DEF none
      <4> QED BY <2>1, <4>1
    <3> QED BY <2>2, <3>1
  <2>4. upTo(j) = upTo(j - 1) \cup { k \in done : k = j }
    <3>1. ASSUME NEW k \in done PROVE k <= j <=> (k <= j - 1 \/ k = j)
      BY <1>2, <2>2
    <3> QED BY <3>1
  <2> HIDE DEF none, done, delay, first
  <2>5. CASE upTo(j - 1) = {}
    <3>1. \A k \in upTo(j) : k = j /\ k \in done
      BY <2>4, <2>5
    <3>2. j \in upTo(j) /\ \A k \in upTo(j) : before(j, k)
      BY <1>2, <2>1, <3>1
    <3> QED BY <2>1, <3>2 DEF first
  <2>6. CASE upTo(j - 1) # {}
    <3>1. PICK b \in upTo(j - 1) : \A k \in upTo(j - 1) : before(b, k)
      BY <2>3, <2>6 DEF first
    <3>2. b \in done /\ b < j /\ b \in Nat
      BY <1>2, <2>2, <3>1
    <3>3. CASE j \in done /\ delay(b) < delay(j)
      <4>1. ASSUME NEW k \in upTo(j) PROVE before(j, k)
        <5>1. k \in done /\ (k = j \/ before(b, k))
          BY <2>4, <3>1
        <5>2. delay(k) \in Nat /\ delay(b) \in Nat /\ delay(j) \in Nat /\ k \in Nat
          BY <1>2, <3>2, <3>3, <5>1
        <5>3. j \in Nat /\ (k # j => before(b, k)) /\ delay(b) < delay(j)
          BY <2>2, <3>3, <5>1
        <5> QED BY <5>2, <5>3
      <4>2. j \in upTo(j)
        BY <2>2, <3>3
      <4> QED BY <2>1, <4>1, <4>2 DEF first
    <3>4. CASE ~(j \in done /\ delay(b) < delay(j))
      <4>1. ASSUME NEW k \in upTo(j) PROVE before(b, k)
        <5>1. k \in done /\ (k = j \/ before(b, k))
          BY <2>4, <3>1
        <5>2. delay(k) \in Nat /\ delay(b) \in Nat /\ k \in Nat
          BY <1>2, <3>2, <5>1
        <5> QED BY <2>2, <3>2, <3>4, <5>1, <5>2
      <4>2. b \in upTo(j)
        BY <2>2, <3>2
      <4> QED BY <2>1, <4>1, <4>2 DEF first
    <3> QED BY <3>3, <3>4
  <2> QED BY <2>5, <2>6
<1>4. done # {} => first(done)
  <2>1. upTo(Len(f.units)) = done /\ Len(f.units) \in 0 .. Len(f.units)
    BY <1>1
  <2> QED BY <1>3, <2>1
<1>5. Finished(f) = IF done = {} THEN 0
                    ELSE CHOOSE n \in done : \A k \in done : before(n, k)
  BY DEF Finished
<1>6. done # {} => Finished(f) \in done
  <2> HIDE DEF done
  <2> QED BY <1>4, <1>5
<1> QED BY <1>5, <1>6

-----------------------------------------------------------------------------
(* work(): the pass over the units keeps the instructions in them.          *)
SameUnits(f, h) ==
  /\ Len(h.units) = Len(f.units) /\ h.dests = f.dests
  /\ \A n \in 1 .. Len(f.units) : /\ h.units[n].type = f.units[n].type
                                  /\ h.units[n].busy = f.units[n].busy
                                  /\ h.units[n].seg.i = f.units[n].seg.i

LEMMA PassKeeps ==
  ASSUME NEW f, Valid(f), NEW m \in SegReg, NEW w \in SegReg, NEW enabled, NEW g \in Word
  PROVE  Pass(f, m, w, enabled, g) \in FpuState /\ SameUnits(f, Pass(f, m, w, enabled, g))
<1> DEFINE delay == IF f.condDelay > 0 THEN f.condDelay - 1 ELSE 0
           Passed(fwd) == [f EXCEPT !.fwd = fwd, !.condDelay = delay]
<1>1. f \in FpuState /\ f.fwd \in Forwards /\ delay \in 0 .. 2
  BY DEF Valid, FpuState
<1>2. \A fwd \in Forwards, lost \in BOOLEAN :
        /\ [Passed(fwd) EXCEPT !.lost = lost] \in FpuState
        /\ [Passed(fwd) EXCEPT !.lost = lost].units = f.units
        /\ [Passed(fwd) EXCEPT !.lost = lost].dests = f.dests
  BY <1>1 DEF FpuState
<1>3. CASE Enters(f) = {}
  <2> DEFINE regs == DoneRegs(f, DOMAIN f.units)
             lost == ~(regs \subseteq DOMAIN f.fwd)
  <2>1. Pass(f, m, w, enabled, g) = [Passed(MarkReady(f.fwd, regs)) EXCEPT !.lost = lost]
    BY <1>3 DEF Pass
  <2>2. MarkReady(f.fwd, regs) \in Forwards
    BY <1>1, MarkReadyType
  <2>3. lost \in BOOLEAN
    OBVIOUS
  <2> HIDE DEF Passed, regs, lost
  <2> QED BY <1>2, <2>1, <2>2, <2>3 DEF SameUnits
<1>4. CASE Enters(f) # {}
  <2> DEFINE n == CHOOSE k \in Enters(f) : TRUE
             seg == f.units[n].seg
             ahead == DoneRegs(f, 1 .. n - 1)
             behind == DoneRegs(f, n + 1 .. Len(f.units))
             fwd == MarkReady(f.fwd, ahead)
             new == Computed(fwd, m, w, enabled, g, seg)
             stored == IF HasDest(seg.i) THEN Stored(fwd, new) ELSE fwd
             lost == ~(ahead \subseteq DOMAIN fwd /\ behind \subseteq DOMAIN stored)
             pass == [Passed(MarkReady(stored, behind)) EXCEPT !.lost = lost]
             cond == Equal(fwd, m, w, enabled, seg)
  <2>1. Pass(f, m, w, enabled, g)
          = IF HasDest(seg.i) THEN [pass EXCEPT !.units[n].seg = new]
            ELSE [pass EXCEPT !.cond = cond, !.condDelay = 2]
    BY <1>4 DEF Pass
  <2>2. n \in Busy(f)
    BY <1>4 DEF Enters
  <2>3. n \in 1 .. Len(f.units) /\ f.units[n] \in Unit /\ Calculates(seg.i) /\ seg \in SegReg
    BY <1>1, <2>2, UnitsAre DEF Valid, Busy, Unit
  <2>4. fwd \in Forwards
    BY <1>1, MarkReadyType
  <2>5. new \in SegReg /\ new.i = seg.i
    BY <2>3, <2>4, ComputedType
  <2>6. HasDest(seg.i) => seg.i.rd \in Nat
    BY <2>3, FReg2 DEF Calculates, WellFormed
  <2>7. stored \in Forwards
    BY <2>4, <2>5, <2>6, StoredType
  <2>8. MarkReady(stored, behind) \in Forwards
    BY <2>7, MarkReadyType
  <2>9. pass \in FpuState /\ pass.units = f.units /\ pass.dests = f.dests
    <3>1. lost \in BOOLEAN
      OBVIOUS
    <3> HIDE DEF Passed, stored, fwd, ahead, behind, lost
    <3> QED BY <1>2, <2>8, <3>1
  <2>10. cond \in BOOLEAN
    BY DEF Equal
  <2> HIDE DEF pass, new, fwd, seg, n, cond
  <2>11. CASE HasDest(seg.i)
    <3> DEFINE unit == [f.units[n] EXCEPT !.seg = new]
               h == [pass EXCEPT !.units[n].seg = new]
    <3>1. unit \in Unit /\ unit.type = f.units[n].type /\ unit.busy = f.units[n].busy
          /\ unit.seg.i = f.units[n].seg.i
      BY <2>3, <2>5 DEF Unit, seg
    <3>2. f.units \in Seq(Unit)
      BY <1>1 DEF FpuState
    <3>3. h.units = [f.units EXCEPT ![n] = unit] /\ h.dests = f.dests
      BY <2>9 DEF FpuState
    <3>4. h.units \in Seq(Unit) /\ Len(h.units) = Len(f.units)
          /\ \A k \in 1 .. Len(f.units) : h.units[k] = IF k = n THEN unit ELSE f.units[k]
      <4> HIDE DEF h, unit
      <4> QED BY <2>3, <3>1, <3>2, <3>3
    <3>5. h \in FpuState
      BY <2>9, <3>3, <3>4 DEF FpuState
    <3>6. SameUnits(f, h)
      BY <3>1, <3>3, <3>4 DEF SameUnits
    <3> QED BY <2>1, <2>11, <3>5, <3>6
  <2>12. CASE ~HasDest(seg.i)
    <3> DEFINE h == [pass EXCEPT !.cond = cond, !.condDelay = 2]
    <3>1. h \in FpuState /\ h.units = f.units /\ h.dests = f.dests
      <4>1. 2 \in 0 .. 2
        OBVIOUS
      <4> QED BY <2>9, <2>10, <4>1, Zenon DEF FpuState
    <3> QED BY <2>1, <2>12, <3>1 DEF SameUnits
  <2> QED BY <2>11, <2>12
<1> QED BY <1>3, <1>4

-----------------------------------------------------------------------------
(* dest_registers: an entry is taken out, and how often each is in it.      *)
LEMMA RemoveAtIs ==
  ASSUME NEW S, NEW s \in Seq(S), NEW k \in 1 .. Len(s)
  PROVE  /\ RemoveAt(s, k) \in Seq(S) /\ Len(RemoveAt(s, k)) = Len(s) - 1
         /\ \A j \in 1 .. Len(s) - 1 : RemoveAt(s, k)[j] = IF j < k THEN s[j] ELSE s[j + 1]
<1> DEFINE front == SubSeq(s, 1, k - 1)
           back == SubSeq(s, k + 1, Len(s))
<1>1. Len(s) \in Nat /\ k \in Nat
  OBVIOUS
<1>2. /\ front \in Seq(S) /\ Len(front) = k - 1
      /\ \A j \in 1 .. k - 1 : front[j] = s[j]
  BY <1>1
<1>3. /\ back \in Seq(S) /\ Len(back) = Len(s) - k
      /\ \A j \in 1 .. Len(s) - k : back[j] = s[j + k]
  BY <1>1
<1>4. RemoveAt(s, k) = front \o back
  BY DEF RemoveAt
<1> HIDE DEF front, back
<1>5. /\ RemoveAt(s, k) \in Seq(S) /\ Len(RemoveAt(s, k)) = Len(s) - 1
      /\ \A j \in 1 .. Len(s) - 1 :
           RemoveAt(s, k)[j] = IF j <= k - 1 THEN front[j] ELSE back[j - (k - 1)]
  BY <1>1, <1>2, <1>3, <1>4
<1>6. ASSUME NEW j \in 1 .. Len(s) - 1
      PROVE  RemoveAt(s, k)[j] = IF j < k THEN s[j] ELSE s[j + 1]
  <2>1. CASE j < k
    BY <1>1, <1>2, <1>5, <2>1
  <2>2. CASE ~(j < k)
    <3>1. j - (k - 1) \in 1 .. Len(s) - k /\ j - (k - 1) + k = j + 1
      BY <1>1, <2>2
    <3> QED BY <1>1, <1>3, <1>5, <2>2, <3>1
  <2> QED BY <2>1, <2>2
<1> QED BY <1>5, <1>6

LEMMA RemoveFirstIs ==
  ASSUME NEW S, NEW s \in Seq(S), NEW e, \E k \in 1 .. Len(s) : s[k] = e
  PROVE  \E k \in 1 .. Len(s) : s[k] = e /\ RemoveFirst(s, e) = RemoveAt(s, k)
<1> DEFINE at == { k \in 1 .. Len(s) : s[k] = e }
<1>1. at # {} /\ at \subseteq Nat
  OBVIOUS
<1>2. PICK k \in at : \A l \in at : k <= l
  <2> HIDE DEF at
  <2> QED BY <1>1, LeastElement
<1>3. Min(at) \in at
  <2> HIDE DEF at
  <2> QED BY <1>2 DEF Min
<1>4. RemoveFirst(s, e) = RemoveAt(s, Min(at))
  BY <1>1 DEF RemoveFirst, SelectInSeq
<1> QED BY <1>3, <1>4

LEMMA RemoveFirstType ==
  ASSUME NEW S, NEW s \in Seq(S), NEW e
  PROVE  RemoveFirst(s, e) \in Seq(S)
<1>1. CASE \E k \in 1 .. Len(s) : s[k] = e
  <2>1. PICK k \in 1 .. Len(s) : RemoveFirst(s, e) = RemoveAt(s, k)
    BY <1>1, RemoveFirstIs
  <2> QED BY <2>1, RemoveAtIs
<1>2. CASE ~\E k \in 1 .. Len(s) : s[k] = e
  BY <1>2 DEF RemoveFirst
<1> QED BY <1>1, <1>2

Positions(s, e) == { n \in DOMAIN s : s[n] = e }

LEMMA PositionsFinite ==
  ASSUME NEW S, NEW s \in Seq(S), NEW e
  PROVE  IsFiniteSet(Positions(s, e)) /\ Cardinality(Positions(s, e)) \in Nat
<1>1. Positions(s, e) \subseteq 1 .. Len(s) /\ Len(s) \in Nat
  BY DEF Positions
<1>2. IsFiniteSet(1 .. Len(s))
  BY <1>1, FS_Interval
<1> QED BY <1>1, <1>2, FS_Subset, FS_CardinalityType

LEMMA AppendedPositions ==
  ASSUME NEW S, NEW s \in Seq(S), NEW e \in S, NEW r
  PROVE  Cardinality(Positions(Append(s, e), r))
           = Cardinality(Positions(s, r)) + (IF e = r THEN 1 ELSE 0)
<1> DEFINE last == Len(s) + 1
<1>1. /\ Append(s, e) \in Seq(S) /\ Len(Append(s, e)) = last /\ Len(s) \in Nat
      /\ \A n \in 1 .. last : Append(s, e)[n] = IF n = last THEN e ELSE s[n]
  OBVIOUS
<1>2. last \notin Positions(s, r)
  BY <1>1 DEF Positions
<1>3. Positions(Append(s, e), r) = IF e = r THEN Positions(s, r) \cup {last} ELSE Positions(s, r)
  BY <1>1 DEF Positions
<1>4. IsFiniteSet(Positions(s, r)) /\ Cardinality(Positions(s, r)) \in Nat
  BY PositionsFinite
<1>5. Cardinality(Positions(s, r) \cup {last}) = Cardinality(Positions(s, r)) + 1
  BY <1>2, <1>4, FS_AddElement
<1> QED BY <1>3, <1>4, <1>5

LEMMA RemovedPositions ==
  ASSUME NEW S, NEW s \in Seq(S), NEW e, NEW r, Positions(s, e) # {}
  PROVE  Cardinality(Positions(RemoveFirst(s, e), r))
           = Cardinality(Positions(s, r)) - (IF e = r THEN 1 ELSE 0)
<1>1. PICK k \in 1 .. Len(s) : s[k] = e /\ RemoveFirst(s, e) = RemoveAt(s, k)
  BY RemoveFirstIs DEF Positions
<1> DEFINE t == RemoveFirst(s, e)
           old == Positions(s, r) \ {k}
           new == Positions(t, r)
           shift == [j \in new |-> IF j < k THEN j ELSE j + 1]
<1>2. /\ t \in Seq(S) /\ Len(t) = Len(s) - 1 /\ Len(s) \in Nat
      /\ \A j \in 1 .. Len(s) - 1 : t[j] = IF j < k THEN s[j] ELSE s[j + 1]
  <2>1. t = RemoveAt(s, k)
    BY <1>1
  <2>2. Len(s) \in Nat
    OBVIOUS
  <2> HIDE DEF t
  <2> QED BY <2>1, <2>2, RemoveAtIs
<1>3. IsFiniteSet(new) /\ IsFiniteSet(Positions(s, r)) /\ Cardinality(Positions(s, r)) \in Nat
  BY <1>2, PositionsFinite
<1>4. new = { j \in 1 .. Len(s) - 1 : r = IF j < k THEN s[j] ELSE s[j + 1] }
  BY <1>2 DEF Positions
<1>5. old = { j \in 1 .. Len(s) : s[j] = r /\ j # k }
  BY DEF Positions
<1> HIDE DEF t, old, new
<1>6. shift \in Bijection(new, old)
  <2>1. \A j \in new : shift[j] \in old
    BY <1>1, <1>2, <1>4, <1>5
  <2>2. \A i, j \in new : shift[i] = shift[j] => i = j
    BY <1>1, <1>2, <1>4
  <2>3. ASSUME NEW j \in old PROVE \E i \in new : shift[i] = j
    <3>1. CASE j < k
      <4>1. j \in new /\ shift[j] = j
        BY <1>1, <1>2, <1>4, <1>5, <3>1
      <4> QED BY <4>1
    <3>2. CASE ~(j < k)
      <4>1. j - 1 \in new /\ shift[j - 1] = j
        BY <1>1, <1>2, <1>4, <1>5, <3>2
      <4> QED BY <4>1
    <3> QED BY <3>1, <3>2
  <2> QED BY <2>1, <2>2, <2>3 DEF Bijection, Injection, Surjection, IsInjective
<1>7. Cardinality(new) = Cardinality(old)
  BY <1>3, <1>6, FS_Bijection DEF ExistsBijection
<1>8. Cardinality(old) = Cardinality(Positions(s, r)) - (IF e = r THEN 1 ELSE 0)
  <2>1. CASE e = r
    <3>1. k \in Positions(s, r)
      BY <1>1, <2>1 DEF Positions
    <3> QED BY <1>3, <2>1, <3>1, FS_RemoveElement DEF old
  <2>2. CASE e # r
    <3>1. old = Positions(s, r)
      BY <1>1, <2>2 DEF old, Positions
    <3> QED BY <1>3, <2>2, <3>1
  <2> QED BY <2>1, <2>2
<1> QED BY <1>7, <1>8 DEF new, t

-----------------------------------------------------------------------------
(* The units after one has given up its instruction, or none has.           *)
Kept(f, h) ==
  /\ Len(h.units) = Len(f.units)
  /\ \A n \in Busy(h) : h.units[n].seg.i = f.units[n].seg.i

Unlisted(f, i) == IF HasDest(i) THEN RemoveFirst(f.dests, i.rd) ELSE f.dests

Departs(f, h, out) ==
  /\ Kept(f, h)
  /\ \/ out = Empty /\ Busy(h) = Busy(f) /\ h.dests = f.dests
     \/ \E n \in Busy(f) : /\ out.i = f.units[n].seg.i
                           /\ Busy(h) = Busy(f) \ {n}
                           /\ h.dests = Unlisted(f, out.i)

LEMMA TickedType ==
  ASSUME NEW p \in FpuState, NEW win
  PROVE  /\ Ticked(p, win) \in Seq(Unit) /\ Len(Ticked(p, win)) = Len(p.units)
         /\ \A n \in 1 .. Len(p.units) :
              Ticked(p, win)[n] = IF n = win THEN FreeUnit(p.units[n].type) ELSE Tick(p.units[n])
<1>1. Len(p.units) \in Nat /\ DOMAIN p.units = 1 .. Len(p.units)
      /\ \A n \in 1 .. Len(p.units) : p.units[n] \in Unit
  BY UnitsAre
<1>2. \A u \in Unit : Tick(u) \in Unit
  BY DEF Tick, Unit
<1>3. \A u \in Unit : FreeUnit(u.type) \in Unit
  BY FreeUnitType DEF Unit
<1> DEFINE e(n) == IF n = win THEN FreeUnit(p.units[n].type) ELSE Tick(p.units[n])
<1>4. \A n \in 1 .. Len(p.units) : e(n) \in Unit
  BY <1>1, <1>2, <1>3
<1>5. Ticked(p, win) = [n \in 1 .. Len(p.units) |-> e(n)]
  BY <1>1 DEF Ticked
<1> HIDE DEF e
<1>6. Ticked(p, win) \in Seq(Unit) /\ Len(Ticked(p, win)) = Len(p.units)
      /\ \A n \in 1 .. Len(p.units) : Ticked(p, win)[n] = e(n)
  BY <1>1, <1>4, <1>5
<1> QED BY <1>6 DEF e

LEMMA TakeOutKeeps ==
  ASSUME NEW f, Valid(f), NEW p \in FpuState, SameUnits(f, p)
  PROVE  LET win == Finished(f)
             h == TakeOut(f, p, win)
         IN  /\ h \in FpuState
             /\ Departs(f, h, IF win = 0 THEN Empty ELSE p.units[win].seg)
<1> DEFINE win == Finished(f)
           left == [p EXCEPT !.units = Ticked(p, win)]
           r == p.units[win].seg.i.rd
           over == Overwritten(f, r)
           kept == p.tied /\ ~Overwritten(f, f.done)
           h == TakeOut(f, p, win)
           gone == win # 0 /\ HasDest(p.units[win].seg.i)
<1>1. f \in FpuState /\ over \in BOOLEAN /\ kept \in BOOLEAN
  BY DEF Valid, Overwritten
<1>2. win # 0 => win \in Busy(f) /\ win \in 1 .. Len(f.units)
  BY <1>1, FinishedIs, UnitsAre DEF Busy, IsDone
<1>3. h = IF gone
          THEN [left EXCEPT !.dests = RemoveFirst(p.dests, r), !.done = r, !.tied = over]
          ELSE [left EXCEPT !.tied = kept]
  BY DEF TakeOut
<1>4. gone => r \in FReg /\ r \in Nat
  BY <1>1, <1>2, FReg2 DEF Valid, SameUnits, Calculates, WellFormed
<1>5. RemoveFirst(p.dests, r) \in Seq(FReg)
  <2>1. p.dests \in Seq(FReg)
    BY DEF FpuState
  <2> HIDE DEF r
  <2> QED BY <2>1, RemoveFirstType
<1>6. Ticked(p, win) \in Seq(Unit) /\ Len(Ticked(p, win)) = Len(p.units)
  BY TickedType
<1>7. left \in FpuState /\ left.units = Ticked(p, win) /\ left.dests = p.dests
  BY <1>6 DEF FpuState
<1>8. /\ h \in FpuState /\ h.units = Ticked(p, win)
      /\ h.dests = IF gone THEN RemoveFirst(p.dests, r) ELSE p.dests
  <2>1. CASE gone
    <3> HIDE DEF left, r, over, h
    <3> QED BY <1>1, <1>3, <1>4, <1>5, <1>7, <2>1, Zenon DEF FpuState
  <2>2. CASE ~gone
    <3> HIDE DEF left, gone, kept, h
    <3> QED BY <1>1, <1>3, <1>7, <2>2, Zenon DEF FpuState
  <2> QED BY <2>1, <2>2
<1> HIDE DEF h
<1>9. /\ Len(h.units) = Len(f.units) /\ DOMAIN h.units = 1 .. Len(f.units)
      /\ DOMAIN f.units = 1 .. Len(f.units)
  BY <1>1, <1>6, <1>8, UnitsAre DEF SameUnits
<1>10. ASSUME NEW n \in 1 .. Len(f.units)
       PROVE  /\ h.units[n].busy <=> f.units[n].busy /\ n # win
              /\ n # win => h.units[n].seg.i = f.units[n].seg.i
  <2>1. p.units[n] \in Unit /\ p.units[n].busy = f.units[n].busy
        /\ p.units[n].seg.i = f.units[n].seg.i
    BY UnitsAre DEF SameUnits
  <2>2. h.units[n] = IF n = win THEN FreeUnit(p.units[n].type) ELSE Tick(p.units[n])
    BY <1>8, TickedType DEF SameUnits
  <2>3. \A u \in Unit : Tick(u).busy = u.busy /\ Tick(u).seg = u.seg
    BY DEF Tick, Unit
  <2>4. ~FreeUnit(p.units[n].type).busy
    BY DEF FreeUnit
  <2> QED BY <2>1, <2>2, <2>3, <2>4
<1>11. Busy(h) = Busy(f) \ {win}
  BY <1>9, <1>10 DEF Busy
<1>12. Kept(f, h)
  BY <1>9, <1>10 DEF Kept, Busy
<1>13. CASE win = 0
  <2>1. 0 \notin Busy(f)
    BY <1>9 DEF Busy
  <2> QED BY <1>8, <1>11, <1>12, <1>13, <2>1 DEF Departs, SameUnits, h
<1>14. CASE win # 0
  <2>1. p.units[win].seg.i = f.units[win].seg.i
    BY <1>2, <1>14 DEF SameUnits
  <2>2. h.dests = Unlisted(f, f.units[win].seg.i)
    BY <1>8, <1>14, <2>1 DEF Unlisted, SameUnits
  <2> QED BY <1>2, <1>8, <1>11, <1>12, <1>14, <2>1, <2>2 DEF Departs, h
<1> QED BY <1>13, <1>14

LEMMA EraseKeeps ==
  ASSUME NEW f \in FpuState
  PROVE  /\ EraseFinished(f) \in FpuState /\ EraseFinished(f).units = f.units
         /\ EraseFinished(f).dests = f.dests
<1>1. f.fwd \in [DOMAIN f.fwd -> Entry] /\ DOMAIN f.fwd \subseteq Nat
  BY ForwardsAre DEF FpuState
<1> DEFINE r == f.done
           lost == [f EXCEPT !.lost = TRUE]
           seen == [f EXCEPT !.fwd[r].just = FALSE]
           rest == [q \in DOMAIN f.fwd \ {r, r + 1} |-> f.fwd[q]]
           gone == [f EXCEPT !.done = NoReg, !.tied = FALSE, !.fwd = rest]
<1>2. lost \in FpuState /\ lost.units = f.units /\ lost.dests = f.dests
  BY DEF FpuState
<1>3. r \in DOMAIN f.fwd => seen \in FpuState /\ seen.units = f.units /\ seen.dests = f.dests
  <2> DEFINE fwd == [f.fwd EXCEPT ![r].just = FALSE]
  <2> SUFFICES ASSUME r \in DOMAIN f.fwd
               PROVE  seen \in FpuState /\ seen.units = f.units /\ seen.dests = f.dests
    OBVIOUS
  <2>1. [f.fwd[r] EXCEPT !.just = FALSE] \in Entry
    BY <1>1 DEF Entry
  <2>2. fwd \in [DOMAIN f.fwd -> Entry]
    BY <1>1, <2>1
  <2>3. fwd \in Forwards
    BY <1>1, <2>2 DEF Forwards
  <2>4. seen = [f EXCEPT !.fwd = fwd]
    BY DEF FpuState
  <2> HIDE DEF fwd, seen
  <2> QED BY <2>3, <2>4 DEF FpuState
<1>4. gone \in FpuState /\ gone.units = f.units /\ gone.dests = f.dests
  <2>1. rest \in [DOMAIN f.fwd \ {r, r + 1} -> Entry]
    BY <1>1
  <2>2. rest \in Forwards
    BY <1>1, <2>1 DEF Forwards
  <2> HIDE DEF rest
  <2> QED BY <2>2, FReg2 DEF FpuState
<1>5. EraseFinished(f) = f \/ EraseFinished(f) = lost \/ EraseFinished(f) = gone
      \/ (r \in DOMAIN f.fwd /\ EraseFinished(f) = seen)
  BY DEF EraseFinished
<1> HIDE DEF lost, gone, seen
<1> QED BY <1>2, <1>3, <1>4, <1>5

LEMMA WorkKeeps ==
  ASSUME NEW f, Valid(f), NEW m \in SegReg, NEW w \in SegReg, NEW enabled, NEW g \in Word
  PROVE  LET work == Work(f, m, w, enabled, g)
         IN  Valid(work.fpu) /\ work.out \in SegReg /\ Departs(f, work.fpu, work.out)
<1> DEFINE work == Work(f, m, w, enabled, g)
           pass == Pass(f, m, w, enabled, g)
           win == Finished(f)
           left == TakeOut(f, pass, win)
<1>1. pass \in FpuState /\ SameUnits(f, pass)
  BY PassKeeps
<1>2. /\ work.fpu = EraseFinished(left)
      /\ work.out = IF win = 0 THEN Empty ELSE pass.units[win].seg
  BY DEF Work
<1>3. left \in FpuState /\ Departs(f, left, work.out)
  <2> HIDE DEF pass
  <2> QED BY <1>1, <1>2, TakeOutKeeps
<1>4. work.out \in SegReg
  <2>1. f \in FpuState
    BY DEF Valid
  <2>2. win # 0 => win \in 1 .. Len(f.units)
    BY <2>1, FinishedIs, UnitsAre
  <2>3. win # 0 => pass.units[win] \in Unit
    <3> HIDE DEF pass
    <3> QED BY <1>1, <2>2, UnitsAre DEF SameUnits
  <2> QED BY <1>2, <2>3, BasicTypes DEF Unit
<1> HIDE DEF work, left
<1>5. work.fpu \in FpuState /\ work.fpu.units = left.units /\ work.fpu.dests = left.dests
  BY <1>2, <1>3, EraseKeeps
<1>6. Departs(f, work.fpu, work.out)
  BY <1>3, <1>5 DEF Departs, Kept, Busy
<1>7. \A n \in Busy(work.fpu) : Calculates(work.fpu.units[n].seg.i)
  BY <1>6 DEF Departs, Kept, Valid
<1> QED BY <1>4, <1>5, <1>6, <1>7 DEF Valid, work

-----------------------------------------------------------------------------
(* set_seg_reg: an instruction goes into a unit that is free, if there is   *)
(* one of its type.                                                         *)
Listed(f, i) == IF HasDest(i) THEN Append(f.dests, i.rd) ELSE f.dests

Joins(f, h, i) ==
  \E n : /\ n \notin Busy(f) /\ Busy(h) = Busy(f) \cup {n}
         /\ h.units[n].seg.i = i
         /\ \A k \in Busy(f) : h.units[k].seg.i = f.units[k].seg.i
         /\ h.dests = Listed(f, i)

Unmoved(f, h) ==
  /\ Busy(h) = Busy(f) /\ h.dests = f.dests
  /\ \A k \in Busy(f) : h.units[k].seg.i = f.units[k].seg.i

LEMMA SetSegRegKeeps ==
  ASSUME NEW f, Valid(f), NEW i \in FlexInstr, Calculates(i), NEW seg \in SegReg,
         Available(f, TypeOf(i)) => seg.i = i
  PROVE  LET h == SetSegReg(f, TypeOf(i), seg)
         IN  /\ Valid(h)
             /\ IF Available(f, TypeOf(i)) THEN Joins(f, h, i) ELSE Unmoved(f, h)
<1> DEFINE type == TypeOf(i)
           h == SetSegReg(f, type, seg)
           free == { n \in DOMAIN f.units : f.units[n].type = type /\ ~f.units[n].busy }
<1>1. type \in UnitType /\ i.dbl \in BOOLEAN
  BY DEF TypeOf, UnitType, FlexInstr
<1>2. /\ f \in FpuState /\ f.units \in Seq(Unit) /\ f.dests \in Seq(FReg)
      /\ Len(f.units) \in Nat /\ DOMAIN f.units = 1 .. Len(f.units)
      /\ \A n \in 1 .. Len(f.units) : f.units[n] \in Unit
  BY UnitsAre DEF Valid, FpuState
<1>3. Available(f, type) <=> free # {}
  BY DEF Available
<1>4. CASE free # {}
  <2> DEFINE n == CHOOSE k \in free : \A l \in free : k <= l
             unit == [f.units[n] EXCEPT !.busy = TRUE, !.seg = seg, !.delay = DelayOf(type, seg.i)]
  <2>1. n \in free
    <3>1. free \subseteq Nat
      BY <1>2
    <3> HIDE DEF free
    <3> QED BY <1>4, <3>1, LeastElement
  <2>2. seg.i = i
    BY <1>3, <1>4
  <2>3. h = [f EXCEPT !.units[n] = unit, !.dests = Listed(f, i)]
    BY <1>4, <2>2 DEF SetSegReg, Listed
  <2>4. n \in 1 .. Len(f.units) /\ ~f.units[n].busy /\ f.units[n] \in Unit
    BY <1>2, <2>1
  <2>5. DelayOf(type, seg.i) \in Nat
    <3>1. /\ Delay \in [(UnitType \ {"general"}) \X BOOLEAN -> Nat \ {0}]
      BY DelayAssumption DEF DelayAssumption
    <3>2. i.op \notin {"fmov", "fcmp"} => type \in UnitType \ {"general"}
      BY DEF TypeOf, UnitType, Calculates, CoprocessorOp, Arithmetic
    <3> HIDE DEF type
    <3>3. i.op \notin {"fmov", "fcmp"} => Delay[type, i.dbl] \in Nat
      BY <1>1, <3>1, <3>2
    <3> QED BY <2>2, <3>3 DEF DelayOf
  <2> DEFINE delay == DelayOf(type, seg.i)
  <2> HIDE DEF delay
  <2>6. /\ unit \in Unit /\ unit.busy /\ unit.seg = seg /\ unit.type = f.units[n].type
    BY <2>4, <2>5, Zenon DEF Unit, delay
  <2>7. Listed(f, i) \in Seq(FReg)
    BY <1>2 DEF Listed, HasDest, Calculates, WellFormed, CoprocessorOp
  <2> HIDE DEF unit, n, h
  <2>8. /\ h.units = [f.units EXCEPT ![n] = unit] /\ h.dests = Listed(f, i)
        /\ h.fwd = f.fwd /\ h.done = f.done /\ h.tied = f.tied /\ h.cond = f.cond
        /\ h.condDelay = f.condDelay /\ h.lost = f.lost
    BY <1>2, <2>3 DEF FpuState
  <2>9. /\ h.units \in Seq(Unit) /\ Len(h.units) = Len(f.units)
        /\ \A k \in 1 .. Len(f.units) : h.units[k] = IF k = n THEN unit ELSE f.units[k]
    BY <1>2, <2>4, <2>6, <2>8
  <2>10. h \in FpuState
    <3>1. [f EXCEPT !.units = h.units, !.dests = Listed(f, i)] \in FpuState
      BY <1>2, <2>7, <2>9 DEF FpuState
    <3>2. h = [f EXCEPT !.units = h.units, !.dests = Listed(f, i)]
      BY <1>2, <2>3, <2>8 DEF FpuState
    <3> QED BY <3>1, <3>2
  <2>11. DOMAIN h.units = 1 .. Len(f.units)
    BY <2>9
  <2>12. n \notin Busy(f) /\ Busy(h) = Busy(f) \cup {n}
    BY <1>2, <2>4, <2>6, <2>9, <2>11 DEF Busy
  <2>13. h.units[n].seg.i = i /\ \A k \in Busy(f) : h.units[k].seg.i = f.units[k].seg.i
    BY <1>2, <2>2, <2>4, <2>6, <2>9, <2>12 DEF Busy
  <2>14. Joins(f, h, i)
    BY <2>8, <2>12, <2>13 DEF Joins
  <2>15. Valid(h)
    BY <2>10, <2>12, <2>13 DEF Valid
  <2> QED BY <1>3, <1>4, <2>14, <2>15 DEF h
<1>5. CASE free = {} /\ type = "general" /\ Len(f.units) < MaxUnits
  <2> DEFINE new == FreeUnit("general")
             last == Len(f.units) + 1
  <2>1. h = [f EXCEPT !.units = Append(f.units, new)]
    BY <1>5 DEF SetSegReg
  <2>2. new \in Unit /\ ~new.busy
    BY <1>1, <1>5, FreeUnitType DEF FreeUnit
  <2> HIDE DEF new, h
  <2>3. /\ Append(f.units, new) \in Seq(Unit) /\ DOMAIN Append(f.units, new) = 1 .. last
        /\ \A k \in 1 .. last : Append(f.units, new)[k] = IF k = last THEN new ELSE f.units[k]
    BY <1>2, <2>2
  <2>4. h \in FpuState /\ h.units = Append(f.units, new) /\ h.dests = f.dests
    BY <1>2, <2>1, <2>3 DEF FpuState
  <2>5. Busy(h) = Busy(f)
    BY <1>2, <2>2, <2>3, <2>4 DEF Busy
  <2>6. Unmoved(f, h)
    BY <1>2, <2>3, <2>4, <2>5 DEF Unmoved, Busy
  <2>7. Valid(h)
    BY <2>4, <2>5, <2>6 DEF Valid, Unmoved
  <2> QED BY <1>3, <1>5, <2>6, <2>7 DEF h
<1>6. CASE free = {} /\ ~(type = "general" /\ Len(f.units) < MaxUnits)
  <2>1. h = f
    BY <1>6 DEF SetSegReg
  <2> QED BY <1>3, <1>6, <2>1 DEF Unmoved
<1> QED BY <1>4, <1>5, <1>6

LEMMA EmptyLists == <<>> \in Forwards /\ <<>> \in Seq(FReg)
<1>1. <<>> \in [{} -> Entry] /\ {} \in SUBSET Nat
  OBVIOUS
<1>2. <<>> \in Forwards
  BY <1>1 DEF Forwards
<1>3. <<>> \in Seq(FReg)
  OBVIOUS
<1> QED BY <1>2, <1>3

(* reset: nothing is left in the units and in the lists.                    *)
LEMMA ResetKeeps ==
  ASSUME NEW f, Valid(f)
  PROVE  LET h == ResetFpu(f) IN Valid(h) /\ Busy(h) = {} /\ h.dests = <<>>
<1> DEFINE h == ResetFpu(f)
           units == [n \in DOMAIN f.units |-> FreeUnit(f.units[n].type)]
<1>1. /\ f \in FpuState /\ Len(f.units) \in Nat /\ DOMAIN f.units = 1 .. Len(f.units)
      /\ \A n \in 1 .. Len(f.units) : f.units[n] \in Unit
  BY UnitsAre DEF Valid
<1>2. \A n \in 1 .. Len(f.units) : FreeUnit(f.units[n].type) \in Unit
  BY <1>1, FreeUnitType DEF Unit
<1>3. units \in Seq(Unit)
  BY <1>1, <1>2
<1>4. \A n \in DOMAIN units : ~units[n].busy
  BY DEF FreeUnit
<1>5. <<>> \in Forwards /\ <<>> \in Seq(FReg)
  BY EmptyLists
<1>6. h = [f EXCEPT !.units = units, !.dests = <<>>, !.fwd = <<>>, !.done = NoReg, !.tied = FALSE]
  BY DEF ResetFpu
<1> HIDE DEF units, h
<1>7. h \in FpuState /\ h.units = units /\ h.dests = <<>>
  BY <1>1, <1>3, <1>5, <1>6, FReg2 DEF FpuState
<1>8. Busy(h) = {}
  BY <1>4, <1>7 DEF Busy
<1> QED BY <1>7, <1>8 DEF Valid, h

LEMMA NewFpuIs == Valid(NewFpu) /\ Busy(NewFpu) = {} /\ NewFpu.dests = <<>>
<1>1. ASSUME NEW type \in UnitType PROVE UnitsOf(type) \in Seq({ u \in Unit : ~u.busy })
  <2>1. Counts[type] \in Nat
    BY DelayAssumption DEF DelayAssumption
  <2>2. FreeUnit(type) \in { u \in Unit : ~u.busy }
    BY FreeUnitType DEF FreeUnit
  <2> HIDE DEF FreeUnit
  <2> QED BY <2>1, <2>2 DEF UnitsOf
<1>2. NewFpu.units \in Seq({ u \in Unit : ~u.busy })
  BY <1>1 DEF NewFpu, UnitType
<1>3. NewFpu.units \in Seq(Unit) /\ \A n \in DOMAIN NewFpu.units : ~NewFpu.units[n].busy
  BY <1>2
<1>4. <<>> \in Forwards /\ <<>> \in Seq(FReg)
  BY EmptyLists
<1>5. NewFpu \in FpuState
  BY <1>3, <1>4, FReg2 DEF NewFpu, FpuState
<1>6. Busy(NewFpu) = {}
  BY <1>3 DEF Busy
<1> QED BY <1>5, <1>6 DEF Valid, NewFpu

-----------------------------------------------------------------------------
(* The state of CpuFlex between two cycles: what is fetched can be read,    *)
(* and the count is never below the number of instructions in the units     *)
(* and what it started from.                                                *)
ProgramFits ==
  /\ \A a \in TextAddr : WellFormed(prog[a])
  /\ WellFormed(id.i) /\ WellFormed(ifTmp.i) /\ WellFormed(ifNext.i)

CountCovers == countStart + Cardinality(Busy(fpu)) <= fpCount

FlexInv == FlexTypeOK /\ Valid(fpu) /\ ProgramFits /\ CountCovers

LEMMA BusyFinite ==
  ASSUME NEW f, Valid(f)
  PROVE  IsFiniteSet(Busy(f)) /\ Cardinality(Busy(f)) \in Nat
<1>1. Busy(f) \subseteq 1 .. Len(f.units) /\ Len(f.units) \in Nat
  BY UnitsAre DEF Valid, Busy
<1>2. IsFiniteSet(1 .. Len(f.units))
  BY <1>1, FS_Interval
<1> QED BY <1>1, <1>2, FS_Subset, FS_CardinalityType

(* What the stages leave.                                                   *)
LEMMA WriteBackTypes ==
  ASSUME FlexTypeOK
  PROVE  gprWB \in [Reg -> Word] /\ fprWB \in [FReg -> Word]
<1>1. wb \in SegReg /\ gpr \in [Reg -> Word] /\ fpr \in [FReg -> Word]
  BY DEF FlexTypeOK
<1>2. WrittenValue(wb) \in Word /\ wb.alu2 \in Word
  BY <1>1 DEF SegReg, WrittenValue
<1> QED BY <1>1, <1>2 DEF gprWB, fprWB

LEMMA IdTypes ==
  ASSUME FlexTypeOK, ProgramFits, NEW f, NEW garbled
  PROVE  /\ pcID(f, garbled) \in Word /\ idTargetID(f, garbled) \in Word
         /\ pcSrcID(f, garbled) \in {"next", "cbranch", "jump"}
         /\ idNext(f, garbled) \in SegReg
         /\ idNext(f, garbled) = Empty \/ idNext(f, garbled).i = id.i
<1>1. /\ id \in SegReg /\ id.i \in FlexInstr /\ id.pc \in Word /\ id.i.imm \in Word
      /\ pc \in Word /\ idTarget \in Word /\ pcSrc \in {"next", "cbranch", "jump"}
  BY DEF FlexTypeOK, SegReg, FlexInstr
<1>2. Minus(id.pc, 1) \in Word /\ Plus(id.pc, id.i.imm) \in Word
  BY <1>1, WordArithmetic
<1>3. WellFormed(id.i)
  BY DEF ProgramFits
<1>4. ~IsFp => gprWB[id.i.rs] \in Word
  BY <1>3, WriteBackTypes DEF WellFormed, IsFp
<1>5. idTargetID(f, garbled) \in Word
  BY <1>1, <1>2, <1>4 DEF idTargetID, BranchInID
<1> DEFINE bank == IF IsFp THEN fprWB ELSE gprWB
           Upper(r) == IF IsFp THEN fprWB[r + 1] ELSE 0
           b == IF SigRegBank(id.i) THEN fprWB[id.i.rt] ELSE bank[id.i.rt]
           next == [Empty EXCEPT !.i = id.i, !.pc = id.pc,
                                 !.a = bank[id.i.rs], !.a2 = Upper(id.i.rs),
                                 !.b = b, !.b2 = Upper(id.i.rt)]
<1>6. bank[id.i.rs] \in Word /\ Upper(id.i.rs) \in Word /\ b \in Word /\ Upper(id.i.rt) \in Word
  BY <1>3, <1>4, WriteBackTypes, BasicTypes DEF WellFormed, IsFp
<1>7. idNext(f, garbled) = IF Stall(f, garbled) THEN Empty ELSE next
  BY DEF idNext
<1>8. next \in SegReg /\ next.i = id.i
  <2> HIDE DEF bank, Upper, b
  <2> QED BY <1>1, <1>6, BasicTypes DEF SegReg
<1> HIDE DEF next
<1>9. idNext(f, garbled) \in SegReg /\ (idNext(f, garbled) = Empty \/ idNext(f, garbled).i = id.i)
  BY <1>7, <1>8, BasicTypes
<1> QED BY <1>1, <1>2, <1>5, <1>9 DEF pcID, pcSrcID

LEMMA ExTypes ==
  ASSUME FlexTypeOK, NEW f
  PROVE  /\ GprEX(f) \subseteq [Reg -> Word] /\ readyEX(f) \in BOOLEAN
         /\ exRanEX(f) \in BOOLEAN /\ exTmpEX(f) \in SegReg
         /\ StallEX(f) \in BOOLEAN
<1>1. /\ ex \in SegReg /\ me \in SegReg /\ wb \in SegReg /\ exTmp \in SegReg
      /\ ready \in BOOLEAN /\ fpStall \in BOOLEAN
  BY DEF FlexTypeOK
<1>2. ex.i \in FlexInstr /\ ex.i.imm \in Word /\ ex.pc \in Word /\ ex.a \in Word /\ ex.b \in Word
  BY <1>1 DEF SegReg, FlexInstr
<1>3. ExA \in Word /\ ExB \in Word
  BY <1>1, <1>2, EmptyLists, ForwardType DEF ExA, ExB
<1>4. AluOutput(ex.i, ExA, ExB) \in Word
  <2>1. Plus(ExA, ExB) \in Word /\ Plus(ExA, ex.i.imm) \in Word /\ Minus(ExA, ExB) \in Word
    BY <1>2, <1>3, WordArithmetic
  <2> QED BY <1>2, <2>1 DEF AluOutput
<1>5. Plus(ex.pc, ex.i.imm) \in Word /\ Taken(ex.i, ExA, ExB) \in BOOLEAN
  BY <1>2, WordArithmetic DEF Taken
<1>6. exTmpEX(f) \in SegReg
  <2> DEFINE alu == AluOutput(ex.i, ExA, ExB)
             target == Plus(ex.pc, ex.i.imm)
             taken == Taken(ex.i, ExA, ExB)
             next == [Empty EXCEPT !.i = ex.i, !.pc = ex.pc, !.b = ExB, !.alu = alu,
                                   !.target = target, !.taken = taken]
  <2>1. exTmpEX(f) = IF StallEX(f) THEN exTmp ELSE IF IsEmpty(ex) THEN Empty ELSE next
    BY DEF exTmpEX
  <2>2. alu \in Word /\ target \in Word /\ taken \in BOOLEAN
    BY <1>4, <1>5
  <2>3. next \in SegReg
    <3> HIDE DEF alu, target, taken
    <3> QED BY <1>2, <1>3, <2>2, BasicTypes DEF SegReg
  <2> HIDE DEF next
  <2> QED BY <1>1, <2>1, <2>3, BasicTypes
<1>7. GprEX(f) \subseteq [Reg -> Word]
  <2>1. Inputs \subseteq Word
    BY FlexStateAssumption DEF FlexStateAssumption
  <2> QED BY <2>1, WriteBackTypes DEF GprEX
<1>8. readyEX(f) \in BOOLEAN /\ exRanEX(f) \in BOOLEAN /\ StallEX(f) \in BOOLEAN
  BY <1>1, Zenon DEF readyEX, exRanEX, StallEX
<1> QED BY <1>6, <1>7, <1>8

LEMMA MemTypes ==
  ASSUME FlexTypeOK, ProgramFits, NEW f, NEW garbled
  PROVE  /\ pcMEM(f, garbled) \in Word /\ memTargetMEM \in Word
         /\ ~MemError => memMEM \in [DataAddr -> Word] /\ meNext \in SegReg
<1>1. /\ me \in SegReg /\ mem \in [DataAddr -> Word] /\ memTarget \in Word
      /\ me.pc \in Word /\ me.alu \in Word /\ me.b \in Word /\ me.target \in Word
  BY DEF FlexTypeOK, SegReg
<1>2. Minus(me.pc, 1) \in Word
  BY <1>1, WordArithmetic
<1>3. pcMEM(f, garbled) \in Word /\ memTargetMEM \in Word
  BY <1>1, <1>2, IdTypes DEF pcMEM, memTargetMEM
<1>4. memMEM \in [DataAddr -> Word]
  BY <1>1 DEF memMEM, WordWritten
<1> DEFINE word == IF MemRead(me.i) THEN WordRead(me.alu) ELSE WordSize - 1
<1>5. word \in Word
  BY <1>1, BasicTypes DEF WordRead, AddressError
<1>6. meNext \in SegReg
  <2>1. meNext = [me EXCEPT !.word = word, !.a = 0, !.a2 = 0, !.b = 0, !.b2 = 0,
                            !.taken = FALSE, !.target = 0]
    BY DEF meNext
  <2> HIDE DEF word
  <2> QED BY <1>1, <1>5, <2>1, BasicTypes DEF SegReg
<1> QED BY <1>3, <1>4, <1>6

LEMMA IfTypes ==
  ASSUME FlexTypeOK, ProgramFits, NEW f, NEW garbled, ~IfThrows(f, garbled)
  PROVE  /\ pcNext(f, garbled) \in Word
         /\ ifTmpIF(f, garbled) \in SegReg /\ WellFormed(ifTmpIF(f, garbled).i)
         /\ ifNextIF(f, garbled) \in SegReg /\ WellFormed(ifNextIF(f, garbled).i)
<1>1. ifTmp \in SegReg /\ ifNext \in SegReg /\ me.target \in Word
  BY DEF FlexTypeOK, SegReg
<1>2. Plus(pcMEM(f, garbled), 1) \in Word
  BY MemTypes, WordArithmetic
<1>3. pcIF(f, garbled) \in Word
  BY <1>2, MemTypes, IdTypes DEF pcIF, NextAddress
<1>4. pcNext(f, garbled) \in Word
  BY <1>1, <1>3 DEF pcNext
<1>5. WellFormed(Empty.i)
  BY BasicTypes DEF Empty
<1>6. ~StallEX(f) => Fetched(f, garbled) \in SegReg /\ WellFormed(Fetched(f, garbled).i)
  <2> SUFFICES ASSUME ~StallEX(f)
               PROVE  Fetched(f, garbled) \in SegReg /\ WellFormed(Fetched(f, garbled).i)
    OBVIOUS
  <2> DEFINE at == pcMEM(f, garbled)
             next == IF pcSrcID(f, garbled) # "next" /\ status.type = "delayed"
                     THEN Plus(at, 1) ELSE pcIF(f, garbled)
  <2>1. at \in TextAddr
    BY DEF IfThrows
  <2>2. prog[at] \in FlexInstr /\ WellFormed(prog[at]) /\ next \in Word
    BY <1>2, <1>3, <2>1 DEF FlexTypeOK, ProgramFits
  <2>3. Fetched(f, garbled) = [Empty EXCEPT !.i = prog[at], !.pc = next]
    BY DEF Fetched
  <2> HIDE DEF at, next
  <2>4. Fetched(f, garbled) \in SegReg /\ Fetched(f, garbled).i = prog[at]
    BY <2>2, <2>3, BasicTypes DEF SegReg
  <2> QED BY <2>2, <2>4
<1>7. ifTmpIF(f, garbled) \in SegReg /\ WellFormed(ifTmpIF(f, garbled).i)
  BY <1>1, <1>5, <1>6, BasicTypes DEF ifTmpIF, IfAdvances, ProgramFits
<1>8. ifNextIF(f, garbled) \in SegReg /\ WellFormed(ifNextIF(f, garbled).i)
  BY <1>1, <1>7 DEF ifNextIF, ProgramFits
<1> QED BY <1>4, <1>7, <1>8

-----------------------------------------------------------------------------
(* A step of the coprocessor, and what ID sends to it.                      *)
LEMMA FpuTypes ==
  ASSUME NEW f, Valid(f)
  PROVE  /\ \A n \in DOMAIN f.units : f.units[n] \in Unit
         /\ \A r \in DOMAIN f.fwd : r \in Nat /\ f.fwd[r] \in Entry
         /\ f.condDelay \in 0 .. 2 /\ {f.cond, f.tied, f.lost} \subseteq BOOLEAN
<1>1. f \in FpuState /\ f.fwd \in Forwards
  BY DEF Valid, FpuState
<1>2. f.fwd \in [DOMAIN f.fwd -> Entry] /\ DOMAIN f.fwd \subseteq Nat
  BY <1>1, ForwardsAre
<1>3. \A n \in DOMAIN f.units : f.units[n] \in Unit
  BY <1>1, UnitsAre
<1>4. f.condDelay \in 0 .. 2 /\ {f.cond, f.tied, f.lost} \subseteq BOOLEAN
  BY <1>1 DEF FpuState
<1> QED BY <1>2, <1>3, <1>4

LEMMA Departed ==
  ASSUME NEW f, Valid(f), NEW h, NEW out, Departs(f, h, out)
  PROVE  /\ Cardinality(Busy(h)) = Cardinality(Busy(f)) - (IF Returns(out) THEN 1 ELSE 0)
         /\ Returns(out) => Calculates(out.i)
         /\ \A n \in Busy(h) : n \in Busy(f) /\ h.units[n].seg.i = f.units[n].seg.i
<1>1. IsFiniteSet(Busy(f)) /\ Cardinality(Busy(f)) \in Nat
  BY BusyFinite
<1>2. CASE out = Empty /\ Busy(h) = Busy(f)
  BY <1>1, <1>2 DEF Returns, IsEmpty, Empty, Bubble, Departs, Kept
<1>3. CASE \E n \in Busy(f) : out.i = f.units[n].seg.i /\ Busy(h) = Busy(f) \ {n}
  <2>1. PICK n \in Busy(f) : out.i = f.units[n].seg.i /\ Busy(h) = Busy(f) \ {n}
    BY <1>3
  <2>2. Calculates(out.i)
    BY <2>1 DEF Valid
  <2>3. Returns(out)
    BY <2>2 DEF Calculates, CoprocessorOp, Arithmetic, Returns, IsEmpty
  <2>4. Cardinality(Busy(h)) = Cardinality(Busy(f)) - 1
    BY <1>1, <2>1, FS_RemoveElement
  <2> QED BY <2>1, <2>2, <2>3, <2>4 DEF Departs, Kept
<1> QED BY <1>2, <1>3 DEF Departs

LEMMA WorkedIs ==
  ASSUME FlexInv, NEW work \in { Worked(g) : g \in Garbage }
  PROVE  /\ Valid(work.fpu) /\ work.out \in SegReg /\ Departs(fpu, work.fpu, work.out)
         /\ Cardinality(Busy(work.fpu))
              = Cardinality(Busy(fpu)) - (IF Returns(work.out) THEN 1 ELSE 0)
         /\ Cardinality(Busy(work.fpu)) \in Nat
<1>1. PICK g \in Garbage : work = Worked(g)
  OBVIOUS
<1>2. g \in Word
  BY <1>1, DelayAssumption DEF DelayAssumption
<1>3. Valid(fpu) /\ me \in SegReg /\ wb \in SegReg
  BY DEF FlexInv, FlexTypeOK
<1>4. Valid(work.fpu) /\ work.out \in SegReg /\ Departs(fpu, work.fpu, work.out)
  BY <1>1, <1>2, <1>3, WorkKeeps DEF Worked
<1> QED BY <1>3, <1>4, Departed, BusyFinite

Sends(f) == FpUnit(f) \notin {"none", "stall"}

LEMMA SendingIs ==
  ASSUME NEW f
  PROVE  Sends(f) => /\ IsFp /\ FpUnit(f) = TypeOf(id.i)
                     /\ ~FpWaits(f) \/ ~status.hdu
                     /\ FpWaits(f) <=> ~Available(f, TypeOf(id.i))
BY DEF Sends, FpUnit, FpWaits

LEMMA SentIs ==
  ASSUME FlexInv, NEW f, Valid(f), NEW garbled
  PROVE  /\ Valid(Sent(f, garbled))
         /\ ~Sends(f) => Sent(f, garbled) = f
         /\ Sends(f) /\ Available(f, TypeOf(id.i)) => Joins(f, Sent(f, garbled), id.i)
         /\ Sends(f) /\ ~Available(f, TypeOf(id.i)) => Unmoved(f, Sent(f, garbled))
<1>1. CASE ~Sends(f)
  BY <1>1 DEF Sent, Sends
<1>2. CASE Sends(f)
  <2>1. IsFp /\ Sent(f, garbled) = SetSegReg(f, TypeOf(id.i), idNext(f, garbled))
    BY <1>2, SendingIs DEF Sent, Sends
  <2>2. id.i \in FlexInstr /\ Calculates(id.i)
    BY <2>1 DEF FlexInv, FlexTypeOK, ProgramFits, Calculates, IsFp, SegReg
  <2>3. idNext(f, garbled) \in SegReg
    BY IdTypes DEF FlexInv
  <2>4. Available(f, TypeOf(id.i)) => idNext(f, garbled).i = id.i
    <3>1. Available(f, TypeOf(id.i)) => ~Stall(f, garbled)
      BY <1>2, <2>1, SendingIs DEF Stall
    <3>2. ~Stall(f, garbled) => idNext(f, garbled).i = id.i
      BY DEF idNext
    <3> QED BY <3>1, <3>2
  <2> QED BY <1>2, <2>1, <2>2, <2>3, <2>4, SetSegRegKeeps
<1> QED BY <1>1, <1>2

(* The instructions in the units and the count of them, when a cycle has    *)
(* come to its end.                                                         *)
LEMMA CountIs ==
  ASSUME FlexInv, NEW work \in { Worked(g) : g \in Garbage }, NEW garbled
  PROVE  LET h == FlushedFpu(work.fpu, garbled)
         IN  /\ Valid(h)
             /\ countNext(work.fpu, work.out) \in Int
             /\ countStart + Cardinality(Busy(h)) <= countNext(work.fpu, work.out)
             /\ countStart <= countNext(work.fpu, work.out)
<1> DEFINE f == work.fpu
           sent == Sent(f, garbled)
           returned == IF Returns(work.out) THEN 1 ELSE 0
           counted == IF Sends(f) THEN Counted(f, FpUnit(f)) ELSE 0
           n == Cardinality(Busy(fpu))
<1>1. Valid(f) /\ Cardinality(Busy(f)) = n - returned /\ Cardinality(Busy(f)) \in Nat
  BY WorkedIs
<1>2. fpCount \in Int /\ countStart \in Int /\ n \in Nat /\ countStart + n <= fpCount
  BY BusyFinite DEF FlexInv, CountCovers, FlexTypeOK
<1>3. /\ Valid(sent) /\ IsFiniteSet(Busy(f))
      /\ ~Sends(f) => sent = f
      /\ Sends(f) /\ Available(f, TypeOf(id.i)) => Joins(f, sent, id.i)
      /\ Sends(f) /\ ~Available(f, TypeOf(id.i)) => Unmoved(f, sent)
  BY <1>1, SentIs, BusyFinite
<1>4. countNext(f, work.out) = fpCount - returned + counted
  BY DEF countNext, Sends
<1>5. returned \in {0, 1} /\ counted \in {0, 1}
      /\ (Sends(f) /\ Available(f, TypeOf(id.i)) => counted = 1)
  BY SendingIs DEF Counted
<1>6. Cardinality(Busy(sent)) <= Cardinality(Busy(f)) + counted
  <2>1. CASE Sends(f) /\ Available(f, TypeOf(id.i))
    <3>1. PICK k : k \notin Busy(f) /\ Busy(sent) = Busy(f) \cup {k}
      BY <1>3, <2>1 DEF Joins
    <3>2. Cardinality(Busy(sent)) = Cardinality(Busy(f)) + 1
      BY <1>3, <3>1, FS_AddElement
    <3> QED BY <1>1, <1>5, <2>1, <3>2
  <2>2. CASE ~(Sends(f) /\ Available(f, TypeOf(id.i)))
    <3>1. Busy(sent) = Busy(f)
      BY <1>3, <2>2 DEF Unmoved
    <3> HIDE DEF sent, f, counted
    <3> QED BY <1>1, <1>5, <3>1
  <2> QED BY <2>1, <2>2
<1> DEFINE h == FlushedFpu(f, garbled)
<1>7. Valid(h) /\ (h = sent \/ Busy(h) = {})
  BY <1>3, ResetKeeps DEF FlushedFpu
<1>8. Cardinality(Busy(h)) <= Cardinality(Busy(f)) + counted
  <2>1. CASE Busy(h) = {}
    <3>1. Cardinality(Busy(h)) = 0
      BY <2>1, FS_EmptySet
    <3> HIDE DEF h, f, counted
    <3> QED BY <1>1, <1>5, <3>1
  <2> QED BY <1>6, <1>7, <2>1
<1> HIDE DEF h, f, returned, counted, n
<1>9. /\ countNext(f, work.out) \in Int
      /\ countStart + Cardinality(Busy(h)) <= countNext(f, work.out)
      /\ countStart <= countNext(f, work.out)
  <2>1. Cardinality(Busy(h)) \in Nat
    BY <1>7, BusyFinite, <1>3
  <2> QED BY <1>1, <1>2, <1>4, <1>5, <1>8, <2>1
<1> QED BY <1>7, <1>9 DEF h, f

-----------------------------------------------------------------------------
(* The invariant is kept by every way a cycle ends and by a reset.          *)
LEMMA InitFits == Init => FlexInv
<1> SUFFICES ASSUME Init PROVE FlexInv
  OBVIOUS
<1>0. fpCount \in Int /\ countStart = fpCount
  BY FlexStateAssumption DEF FlexStateAssumption, Init
<1>1. PICK s \in Setups : prog = s.prog /\ status = s.status
  BY DEF Init
<1>2. prog \in [TextAddr -> FlexInstr] /\ status \in Status
  BY <1>1, SetupAssumption DEF SetupAssumption
<1>3. \A a \in TextAddr : WellFormed(prog[a])
  BY <1>1, ProgramAssumption DEF ProgramAssumption
<1>4. /\ Valid(fpu) /\ Cardinality(Busy(fpu)) = 0
  BY NewFpuIs, FS_EmptySet DEF Init
<1>5. FlexTypeOK
  <2>1. /\ \A n \in DOMAIN fpu.units : fpu.units[n] \in Unit
        /\ \A r \in DOMAIN fpu.fwd : r \in Nat /\ fpu.fwd[r] \in Entry
        /\ fpu.condDelay \in 0 .. 2 /\ {fpu.cond, fpu.tied, fpu.lost} \subseteq BOOLEAN
    BY <1>4, FpuTypes
  <2>2. mem \in [DataAddr -> Word]
    BY FlexStateAssumption DEF FlexStateAssumption, Init
  <2>3. /\ {id, ex, me, wb, ifTmp, ifNext, exTmp} \subseteq SegReg
        /\ pc \in Word /\ idTarget \in Word /\ memTarget \in Word
        /\ gpr \in [Reg -> Word] /\ fpr \in [FReg -> Word]
    BY BasicTypes DEF Init
  <2>4. /\ {ready, fpStall, exRan, idSyscall} \subseteq BOOLEAN
        /\ pcSrc \in {"next", "cbranch", "jump"} /\ cycle \in {0, 1}
        /\ end \in {"none", "CP1", "EX", "MEM", "IF"}
    BY DEF Init
  <2>5. fpCount \in Int /\ countStart \in Int /\ countStart <= fpCount
    BY <1>0
  <2> QED BY <1>2, <2>1, <2>2, <2>3, <2>4, <2>5 DEF FlexTypeOK, Unit
<1>6. ProgramFits
  BY <1>3, BasicTypes DEF Init, ProgramFits, Empty
<1>7. CountCovers
  BY <1>0, <1>4 DEF CountCovers
<1> QED BY <1>4, <1>5, <1>6, <1>7 DEF FlexInv

(* What a cycle that does not come to its end changes.                      *)
Stopped(f) ==
  /\ fpu' = f /\ fpCount' = fpCount
  /\ UNCHANGED <<prog, status, countStart, id, ex, me, wb, ifNext>>
  /\ pc' \in Word /\ idTarget' \in Word /\ memTarget' \in Word
  /\ gpr' \in [Reg -> Word] /\ fpr' \in [FReg -> Word] /\ mem' \in [DataAddr -> Word]
  /\ exTmp' \in SegReg /\ (ifTmp' = ifTmp \/ ifTmp' = Empty)
  /\ {ready', fpStall', exRan', idSyscall'} \subseteq BOOLEAN
  /\ pcSrc' \in {"next", "cbranch", "jump"}
  /\ pcSrc' = pcSrc \/ \E garbled : pcSrc' = pcSrcID(f, garbled)
  /\ cycle' \in {0, 1} /\ end' \in {"CP1", "EX", "MEM", "IF"}

LEMMA FailedStops ==
  ASSUME FlexInv, NEW f, NEW garbled,
         \/ ThrowCP1(f)
         \/ ThrowEX(f, garbled)
         \/ ReturnMEM(f, garbled)
         \/ ThrowIF(f, garbled)
  PROVE  Stopped(f)
<1>1. FlexTypeOK /\ ProgramFits
  BY DEF FlexInv
<1>2. /\ gprWB \in [Reg -> Word] /\ fprWB \in [FReg -> Word]
      /\ pcID(f, garbled) \in Word /\ idTargetID(f, garbled) \in Word
      /\ pcSrcID(f, garbled) \in {"next", "cbranch", "jump"}
      /\ GprEX(f) \subseteq [Reg -> Word] /\ readyEX(f) \in BOOLEAN
      /\ exRanEX(f) \in BOOLEAN /\ exTmpEX(f) \in SegReg /\ StallEX(f) \in BOOLEAN
      /\ pcMEM(f, garbled) \in Word /\ memTargetMEM \in Word
      /\ ~MemError => memMEM \in [DataAddr -> Word]
  BY <1>1, WriteBackTypes, IdTypes, ExTypes, MemTypes
<1>3. /\ pc \in Word /\ idTarget \in Word /\ memTarget \in Word
      /\ gpr \in [Reg -> Word] /\ mem \in [DataAddr -> Word]
      /\ exTmp \in SegReg /\ {ready, fpStall, exRan, idSyscall} \subseteq BOOLEAN
      /\ pcSrc \in {"next", "cbranch", "jump"} /\ cycle \in {0, 1}
  BY <1>1 DEF FlexTypeOK
<1>4. (id.i.op = "syscall") \in BOOLEAN /\ 1 - cycle \in {0, 1}
  BY <1>3
<1>5. CASE ThrowCP1(f)
  BY <1>2, <1>3, <1>4, <1>5 DEF ThrowCP1, Cycle, Stopped, pipe, signals
<1>6. CASE ThrowEX(f, garbled)
  BY <1>2, <1>3, <1>4, <1>6 DEF ThrowEX, Cycle, Decoded, Stopped, pipe
<1>7. CASE ReturnMEM(f, garbled)
  BY <1>2, <1>3, <1>4, <1>7 DEF ReturnMEM, Executed, Cycle, Decoded, Stopped
<1>8. CASE ThrowIF(f, garbled)
  BY <1>2, <1>3, <1>4, <1>8 DEF ThrowIF, Executed, Cycle, Decoded, Stopped
<1> QED BY <1>5, <1>6, <1>7, <1>8

LEMMA StoppedKeeps ==
  ASSUME FlexInv, NEW work \in { Worked(g) : g \in Garbage }, Stopped(work.fpu)
  PROVE  FlexInv'
<1> DEFINE f == work.fpu
           returned == IF Returns(work.out) THEN 1 ELSE 0
<1>1. FlexTypeOK /\ ProgramFits /\ CountCovers
  BY DEF FlexInv
<1>2. Valid(f) /\ Cardinality(Busy(f)) = Cardinality(Busy(fpu)) - returned
      /\ Cardinality(Busy(fpu)) \in Nat
  BY WorkedIs, BusyFinite DEF FlexInv
<1>3. fpu' = f /\ fpCount' = fpCount /\ countStart' = countStart
  BY DEF Stopped
<1> HIDE DEF f
<1>4. FlexTypeOK'
  <2>1. /\ \A n \in DOMAIN f.units : f.units[n] \in Unit
        /\ \A r \in DOMAIN f.fwd : r \in Nat /\ f.fwd[r] \in Entry
        /\ f.condDelay \in 0 .. 2 /\ {f.cond, f.tied, f.lost} \subseteq BOOLEAN
    BY <1>2, FpuTypes
  <2>2. /\ prog' \in [TextAddr -> FlexInstr] /\ status' \in Status
        /\ {id', ex', me', wb', ifTmp', ifNext', exTmp'} \subseteq SegReg
        /\ fpCount' \in Int /\ countStart' \in Int /\ countStart' <= fpCount'
    BY <1>1, BasicTypes DEF Stopped, FlexTypeOK
  <2>3. /\ pc' \in Word /\ idTarget' \in Word /\ memTarget' \in Word
        /\ gpr' \in [Reg -> Word] /\ fpr' \in [FReg -> Word] /\ mem' \in [DataAddr -> Word]
        /\ {ready', fpStall', exRan', idSyscall'} \subseteq BOOLEAN
        /\ pcSrc' \in {"next", "cbranch", "jump"}
        /\ cycle' \in {0, 1} /\ end' \in {"none", "CP1", "EX", "MEM", "IF"}
    BY DEF Stopped
  <2> QED BY <1>3, <2>1, <2>2, <2>3 DEF FlexTypeOK, Unit
<1>5. ProgramFits'
  BY <1>1, BasicTypes DEF Stopped, ProgramFits, Empty
<1>6. CountCovers'
  <2>1. countStart + Cardinality(Busy(f)) <= fpCount
    <3>1. fpCount \in Int /\ countStart \in Int
      BY <1>1 DEF FlexTypeOK
    <3> QED BY <1>1, <1>2, <3>1 DEF CountCovers
  <2> QED BY <1>3, <2>1 DEF CountCovers
<1> QED BY <1>2, <1>3, <1>4, <1>5, <1>6 DEF FlexInv

LEMMA MovedTypes ==
  ASSUME FlexTypeOK, ProgramFits, NEW f, NEW out \in SegReg, NEW garbled, ~IfThrows(f, garbled)
  PROVE  /\ meMoved(f, out) \in SegReg /\ exMoved(f, out, garbled) \in SegReg
         /\ idMoved(f, out, garbled) \in SegReg /\ WellFormed(idMoved(f, out, garbled).i)
<1>1. id \in SegReg /\ ex \in SegReg /\ WellFormed(id.i)
  BY DEF FlexTypeOK, ProgramFits
<1>2. meMoved(f, out) \in SegReg
  BY ExTypes, BasicTypes DEF meMoved
<1>3. exMoved(f, out, garbled) \in SegReg
  BY <1>1, IdTypes, BasicTypes DEF exMoved
<1>4. idMoved(f, out, garbled) \in SegReg /\ WellFormed(idMoved(f, out, garbled).i)
  BY <1>1, IfTypes DEF idMoved
<1> QED BY <1>2, <1>3, <1>4

LEMMA CompleteKeeps ==
  ASSUME FlexInv, NEW work \in { Worked(g) : g \in Garbage }, NEW garbled,
         Complete(work.fpu, work.out, garbled)
  PROVE  FlexInv'
<1> DEFINE f == work.fpu
           out == work.out
           h == FlushedFpu(f, garbled)
<1>1. FlexTypeOK /\ ProgramFits /\ out \in SegReg
  BY WorkedIs DEF FlexInv
<1>2. /\ Valid(h) /\ countNext(f, out) \in Int
      /\ countStart + Cardinality(Busy(h)) <= countNext(f, out)
      /\ countStart <= countNext(f, out)
  BY CountIs
<1> HIDE DEF f, out, h
<1>3. /\ Executed(f, garbled) /\ ~MemError /\ ~IfThrows(f, garbled) /\ Cycle(f, "none")
      /\ mem' = memMEM /\ memTarget' = memTargetMEM /\ pc' = pcNext(f, garbled)
      /\ Advance(f, out, garbled)
  BY DEF Complete, f, out
<1>4. fpu' = h /\ fpCount' = countNext(f, out)
  BY <1>3 DEF Advance, h
<1>5. /\ prog' = prog /\ status' = status /\ countStart' = countStart
      /\ fpr' = fprWB /\ cycle' = 1 - cycle
      /\ end' = "none"
  BY <1>3 DEF Cycle
<1>6. /\ id' = Empty \/ id' = idMoved(f, out, garbled)
      /\ ex' = Empty \/ ex' = exMoved(f, out, garbled)
      /\ me' = Empty \/ me' = meMoved(f, out)
      /\ wb' = meNext /\ fpStall' = fpStallNext(f, out)
      /\ ifTmp' = ifTmpIF(f, garbled) /\ ifNext' = ifNextIF(f, garbled)
  BY <1>3 DEF Advance
<1>7. /\ {id', ex', me', wb', ifTmp', ifNext'} \subseteq SegReg
      /\ WellFormed(id'.i) /\ WellFormed(ifTmp'.i) /\ WellFormed(ifNext'.i)
      /\ mem' \in [DataAddr -> Word] /\ memTarget' \in Word /\ pc' \in Word
  <2>1. WellFormed(Empty.i) /\ Empty \in SegReg
    BY BasicTypes DEF Empty
  <2>2. /\ meMoved(f, out) \in SegReg /\ exMoved(f, out, garbled) \in SegReg
        /\ idMoved(f, out, garbled) \in SegReg /\ WellFormed(idMoved(f, out, garbled).i)
    BY <1>1, <1>3, MovedTypes
  <2>3. meNext \in SegReg /\ mem' \in [DataAddr -> Word] /\ memTarget' \in Word
    BY <1>1, <1>3, MemTypes
  <2>4. /\ pcNext(f, garbled) \in Word
        /\ ifTmpIF(f, garbled) \in SegReg /\ WellFormed(ifTmpIF(f, garbled).i)
        /\ ifNextIF(f, garbled) \in SegReg /\ WellFormed(ifNextIF(f, garbled).i)
    BY <1>1, <1>3, IfTypes
  <2> QED BY <1>3, <1>6, <2>1, <2>2, <2>3, <2>4
<1>8. FlexTypeOK'
  <2>1. /\ \A n \in DOMAIN h.units : h.units[n] \in Unit
        /\ \A r \in DOMAIN h.fwd : r \in Nat /\ h.fwd[r] \in Entry
        /\ h.condDelay \in 0 .. 2 /\ {h.cond, h.tied, h.lost} \subseteq BOOLEAN
    BY <1>2, FpuTypes
  <2>2. /\ gpr' \in [Reg -> Word] /\ fpr' \in [FReg -> Word] /\ idTarget' \in Word
        /\ pcSrc' \in {"next", "cbranch", "jump"} /\ exTmp' \in SegReg
        /\ {ready', exRan', idSyscall'} \subseteq BOOLEAN
    <3>1. /\ gpr' \in GprEX(f) /\ ready' = readyEX(f) /\ exRan' = exRanEX(f)
          /\ exTmp' = exTmpEX(f) /\ idSyscall' = (id.i.op = "syscall")
          /\ pcSrc' = pcSrcID(f, garbled) /\ idTarget' = idTargetID(f, garbled)
      BY <1>3 DEF Executed, Decoded
    <3>2. (id.i.op = "syscall") \in BOOLEAN
      OBVIOUS
    <3> QED BY <1>1, <1>5, <3>1, <3>2, WriteBackTypes, IdTypes, ExTypes
  <2>3. fpStall' \in BOOLEAN
    <3>1. exRanEX(f) \in BOOLEAN
      BY <1>1, ExTypes
    <3> QED BY <1>6, <3>1 DEF fpStallNext
  <2>4. /\ prog' \in [TextAddr -> FlexInstr] /\ status' \in Status /\ cycle' \in {0, 1}
        /\ countStart' \in Int
    BY <1>1, <1>5 DEF FlexTypeOK
  <2> QED BY <1>2, <1>4, <1>5, <1>7, <2>1, <2>2, <2>3, <2>4 DEF FlexTypeOK, Unit
<1>9. ProgramFits'
  BY <1>1, <1>5, <1>7 DEF ProgramFits
<1>10. CountCovers'
  BY <1>2, <1>4, <1>5 DEF CountCovers
<1> QED BY <1>2, <1>4, <1>8, <1>9, <1>10 DEF FlexInv

LEMMA ResetFits ==
  ASSUME FlexInv, Reset, status' \in Status
  PROVE  FlexInv'
<1>1. FlexTypeOK /\ ProgramFits /\ Valid(fpu)
  BY DEF FlexInv
<1>2. Valid(fpu') /\ Busy(fpu') = {}
  BY <1>1, ResetKeeps DEF Reset
<1>3. /\ id' = Empty /\ ex' = Empty /\ me' = Empty /\ wb' = Empty
      /\ UNCHANGED <<prog, ifTmp, ifNext, exTmp, exRan, idSyscall, pcSrc>>
      /\ pc' = TextStart /\ idTarget' = 0 /\ memTarget' = 0
      /\ gpr' = [r \in Reg |-> 0] /\ fpr' = [r \in FReg |-> 0] /\ mem' = InitialData
      /\ ready' = TRUE /\ cycle' = 0 /\ end' = "none" /\ fpStall' = FALSE
      /\ fpCount' = 0 /\ countStart' = 0
  BY DEF Reset, ResetCpu, ResetHardware, ResetID, ResetMEM
<1>4. FlexTypeOK'
  <2>1. /\ \A n \in DOMAIN fpu'.units : fpu'.units[n] \in Unit
        /\ \A r \in DOMAIN fpu'.fwd : r \in Nat /\ fpu'.fwd[r] \in Entry
        /\ fpu'.condDelay \in 0 .. 2 /\ {fpu'.cond, fpu'.tied, fpu'.lost} \subseteq BOOLEAN
    BY <1>2, FpuTypes
  <2>2. /\ {id', ex', me', wb', ifTmp', ifNext', exTmp'} \subseteq SegReg
        /\ pc' \in Word /\ idTarget' \in Word /\ memTarget' \in Word
        /\ gpr' \in [Reg -> Word] /\ fpr' \in [FReg -> Word]
        /\ prog' \in [TextAddr -> FlexInstr]
        /\ {ready', fpStall', exRan', idSyscall'} \subseteq BOOLEAN
        /\ pcSrc' \in {"next", "cbranch", "jump"}
    BY <1>1, <1>3, BasicTypes DEF FlexTypeOK
  <2>3. mem' \in [DataAddr -> Word]
    BY <1>3, FlexStateAssumption DEF FlexStateAssumption
  <2>4. cycle' \in {0, 1} /\ end' \in {"none", "CP1", "EX", "MEM", "IF"}
    BY <1>3
  <2>5. fpCount' \in Int /\ countStart' \in Int /\ countStart' <= fpCount'
    BY <1>3
  <2> QED BY <2>1, <2>2, <2>3, <2>4, <2>5 DEF FlexTypeOK, Unit
<1>5. ProgramFits'
  BY <1>1, <1>3, BasicTypes DEF ProgramFits, Empty
<1>6. CountCovers'
  BY <1>2, <1>3, FS_EmptySet DEF CountCovers
<1> QED BY <1>2, <1>4, <1>5, <1>6 DEF FlexInv

LEMMA FlexStep == FlexInv /\ [Next]_vars => FlexInv'
<1> SUFFICES ASSUME FlexInv, [Next]_vars PROVE FlexInv'
  OBVIOUS
<1>1. CASE NextCycle
  <2>1. PICK work \in { Worked(g) : g \in Garbage }, garbled \in CopGarbage :
          \/ ThrowCP1(work.fpu)
          \/ ThrowEX(work.fpu, garbled)
          \/ ReturnMEM(work.fpu, garbled)
          \/ ThrowIF(work.fpu, garbled)
          \/ Complete(work.fpu, work.out, garbled)
    BY <1>1 DEF NextCycle
  <2>2. CASE Complete(work.fpu, work.out, garbled)
    BY <2>2, CompleteKeeps
  <2>3. CASE ~Complete(work.fpu, work.out, garbled)
    <3>1. Stopped(work.fpu)
      BY <2>1, <2>3, FailedStops
    <3> QED BY <3>1, StoppedKeeps
  <2> QED BY <2>2, <2>3
<1>2. CASE Reset /\ UNCHANGED status
  BY <1>2, ResetFits DEF FlexInv, FlexTypeOK
<1>3. CASE Reconfigure
  <2>1. Reset /\ status' \in Status
    <3>1. status \in Status
      BY DEF FlexInv, FlexTypeOK
    <3> QED BY <1>3, <3>1
        DEF Reconfigure, EnableHazardDetectionUnit, EnableForwardingUnit, ChangeBranchStage,
            ChangeBranchType, Configure, Status, BranchStage, BranchType
  <2> QED BY <2>1, ResetFits
<1>4. CASE UNCHANGED vars
  <2>1. /\ FlexTypeOK' /\ ProgramFits'
    BY <1>4 DEF FlexInv, FlexTypeOK, ProgramFits, vars, registers, pipe, signals
  <2>2. fpu' = fpu /\ fpCount' = fpCount /\ countStart' = countStart
    BY <1>4 DEF vars, signals
  <2> QED BY <2>1, <2>2 DEF FlexInv, CountCovers
<1> QED BY <1>1, <1>2, <1>3, <1>4 DEF Next

(* Every variable of CpuFlex keeps to the range of its declaration: in      *)
(* particular the count of active instructions never falls below where it   *)
(* started, whatever fails, is flushed or is sent to a unit that is not     *)
(* free.                                                                    *)
THEOREM FlexTypeCorrect == Spec => []FlexTypeOK
<1>1. Init => FlexInv
  BY InitFits
<1>2. FlexInv /\ [Next]_vars => FlexInv'
  BY FlexStep
<1>3. FlexInv => FlexTypeOK
  BY DEF FlexInv
<1> QED BY <1>1, <1>2, <1>3, PTL DEF Spec

-----------------------------------------------------------------------------
(* dest_registers against the units.                                        *)
HeadingOf(f, r) == { n \in Busy(f) : HasDest(f.units[n].seg.i) /\ f.units[n].seg.i.rd = r }

Matched(f) == \A r \in FReg : Cardinality(HeadingOf(f, r)) = Cardinality(Positions(f.dests, r))

LEMMA HeadingFinite ==
  ASSUME NEW f, Valid(f), NEW r
  PROVE  IsFiniteSet(HeadingOf(f, r)) /\ Cardinality(HeadingOf(f, r)) \in Nat
<1>1. HeadingOf(f, r) \subseteq Busy(f)
  BY DEF HeadingOf
<1> QED BY <1>1, BusyFinite, FS_Subset, FS_CardinalityType

LEMMA NothingMatched ==
  ASSUME NEW f, Busy(f) = {}, f.dests = <<>>
  PROVE  Matched(f)
<1>1. ASSUME NEW r \in FReg PROVE HeadingOf(f, r) = {} /\ Positions(f.dests, r) = {}
  BY DEF HeadingOf, Positions
<1> QED BY <1>1 DEF Matched

LEMMA DepartsMatched ==
  ASSUME NEW f, Valid(f), Matched(f), NEW h, NEW out, Departs(f, h, out)
  PROVE  Matched(h)
<1>1. \A n \in Busy(h) : n \in Busy(f) /\ h.units[n].seg.i = f.units[n].seg.i
  BY Departed
<1> SUFFICES ASSUME NEW r \in FReg
             PROVE  Cardinality(HeadingOf(h, r)) = Cardinality(Positions(h.dests, r))
  BY DEF Matched
<1>2. Cardinality(HeadingOf(f, r)) = Cardinality(Positions(f.dests, r))
  BY DEF Matched
<1>3. f.dests \in Seq(FReg)
  BY DEF Valid, FpuState
<1>4. CASE Busy(h) = Busy(f) /\ h.dests = f.dests
  <2>1. HeadingOf(h, r) = HeadingOf(f, r)
    BY <1>1, <1>4 DEF HeadingOf
  <2> QED BY <1>2, <1>4, <2>1
<1>5. CASE \E n \in Busy(f) : /\ out.i = f.units[n].seg.i
                              /\ Busy(h) = Busy(f) \ {n}
                              /\ h.dests = Unlisted(f, out.i)
  <2>1. PICK n \in Busy(f) : /\ out.i = f.units[n].seg.i
                             /\ Busy(h) = Busy(f) \ {n}
                             /\ h.dests = Unlisted(f, out.i)
    BY <1>5
  <2> DEFINE i == f.units[n].seg.i
  <2>2. HeadingOf(h, r) = HeadingOf(f, r) \ {n}
    BY <1>1, <2>1 DEF HeadingOf
  <2>3. n \in HeadingOf(f, r) <=> HasDest(i) /\ i.rd = r
    BY DEF HeadingOf
  <2>4. IsFiniteSet(HeadingOf(f, r)) /\ Cardinality(HeadingOf(f, r)) \in Nat
    BY HeadingFinite
  <2>5. CASE HasDest(i)
    <3>1. i.rd \in FReg
      BY DEF Valid, Calculates, WellFormed
    <3>2. Positions(f.dests, i.rd) # {}
      <4>1. n \in HeadingOf(f, i.rd)
        BY <2>5 DEF HeadingOf
      <4>2. Cardinality(HeadingOf(f, i.rd)) # 0
        BY <4>1, HeadingFinite, FS_EmptySet
      <4>3. Cardinality(Positions(f.dests, i.rd)) # 0
        BY <3>1, <4>2 DEF Matched
      <4> QED BY <4>3, FS_EmptySet
    <3>3. Cardinality(Positions(h.dests, r))
            = Cardinality(Positions(f.dests, r)) - (IF i.rd = r THEN 1 ELSE 0)
      BY <1>3, <2>1, <2>5, <3>2, RemovedPositions DEF Unlisted
    <3>4. CASE i.rd = r
      <4>1. Cardinality(HeadingOf(f, r) \ {n}) = Cardinality(HeadingOf(f, r)) - 1
        BY <2>3, <2>4, <2>5, <3>4, FS_RemoveElement
      <4> HIDE DEF i
      <4> QED BY <1>2, <2>2, <3>3, <3>4, <4>1
    <3>5. CASE i.rd # r
      <4>1. HeadingOf(h, r) = HeadingOf(f, r)
        BY <2>2, <2>3, <3>5
      <4>2. Cardinality(Positions(h.dests, r)) = Cardinality(Positions(f.dests, r)) - 0
        BY <3>3, <3>5
      <4> QED BY <1>2, <2>4, <4>1, <4>2
    <3> QED BY <3>4, <3>5
  <2>6. CASE ~HasDest(i)
    <3>1. HeadingOf(h, r) = HeadingOf(f, r)
      BY <2>2, <2>3, <2>6
    <3>2. h.dests = f.dests
      BY <2>1, <2>6 DEF Unlisted
    <3> QED BY <1>2, <3>1, <3>2
  <2> QED BY <2>5, <2>6
<1> QED BY <1>4, <1>5 DEF Departs

LEMMA JoinsMatched ==
  ASSUME NEW f, Valid(f), Matched(f), NEW h, NEW i, Calculates(i), Joins(f, h, i)
  PROVE  Matched(h)
<1> SUFFICES ASSUME NEW r \in FReg
             PROVE  Cardinality(HeadingOf(h, r)) = Cardinality(Positions(h.dests, r))
  BY DEF Matched
<1>1. Cardinality(HeadingOf(f, r)) = Cardinality(Positions(f.dests, r)) /\ f.dests \in Seq(FReg)
  BY DEF Matched, Valid, FpuState
<1>2. PICK n : /\ n \notin Busy(f) /\ Busy(h) = Busy(f) \cup {n}
               /\ h.units[n].seg.i = i
               /\ \A k \in Busy(f) : h.units[k].seg.i = f.units[k].seg.i
               /\ h.dests = Listed(f, i)
  BY DEF Joins
<1>3. HeadingOf(h, r) = IF HasDest(i) /\ i.rd = r THEN HeadingOf(f, r) \cup {n}
                        ELSE HeadingOf(f, r)
  BY <1>2 DEF HeadingOf
<1>4. IsFiniteSet(HeadingOf(f, r)) /\ Cardinality(HeadingOf(f, r)) \in Nat
      /\ n \notin HeadingOf(f, r)
  BY <1>2, HeadingFinite DEF HeadingOf
<1>5. Cardinality(HeadingOf(f, r) \cup {n}) = Cardinality(HeadingOf(f, r)) + 1
  BY <1>4, FS_AddElement
<1>6. CASE HasDest(i)
  <2>1. i.rd \in FReg
    BY DEF Calculates, WellFormed
  <2>2. Cardinality(Positions(h.dests, r))
          = Cardinality(Positions(f.dests, r)) + (IF i.rd = r THEN 1 ELSE 0)
    BY <1>1, <1>2, <1>6, <2>1, AppendedPositions DEF Listed
  <2>3. CASE i.rd = r
    BY <1>1, <1>3, <1>5, <1>6, <2>2, <2>3
  <2>4. CASE i.rd # r
    BY <1>1, <1>3, <1>4, <2>2, <2>4
  <2> QED BY <2>3, <2>4
<1>7. CASE ~HasDest(i)
  BY <1>1, <1>2, <1>3, <1>7 DEF Listed
<1> QED BY <1>6, <1>7

LEMMA SentMatched ==
  ASSUME FlexInv, NEW f, Valid(f), Matched(f), NEW garbled
  PROVE  Matched(FlushedFpu(f, garbled))
<1> DEFINE sent == Sent(f, garbled)
<1>1. /\ Valid(sent)
      /\ ~Sends(f) => sent = f
      /\ Sends(f) /\ Available(f, TypeOf(id.i)) => Joins(f, sent, id.i)
      /\ Sends(f) /\ ~Available(f, TypeOf(id.i)) => Unmoved(f, sent)
  BY SentIs
<1>2. Sends(f) => Calculates(id.i)
  BY SendingIs DEF FlexInv, ProgramFits, Calculates, IsFp
<1>3. Unmoved(f, sent) => Matched(sent)
  <2> SUFFICES ASSUME Unmoved(f, sent), NEW r \in FReg
               PROVE  HeadingOf(sent, r) = HeadingOf(f, r) /\ sent.dests = f.dests
    BY DEF Matched
  <2> HIDE DEF sent
  <2> QED BY DEF HeadingOf, Unmoved
<1>4. Matched(sent)
  BY <1>1, <1>2, <1>3, JoinsMatched
<1>5. Matched(ResetFpu(sent))
  BY <1>1, ResetKeeps, NothingMatched
<1> QED BY <1>4, <1>5 DEF FlushedFpu

LEMMA MatchedStep == FlexInv /\ Matched(fpu) /\ [Next]_vars => Matched(fpu)'
<1> SUFFICES ASSUME FlexInv, Matched(fpu), [Next]_vars PROVE Matched(fpu')
  OBVIOUS
<1>1. Valid(fpu)
  BY DEF FlexInv
<1>2. CASE NextCycle
  <2>1. PICK work \in { Worked(g) : g \in Garbage }, garbled \in CopGarbage :
          \/ ThrowCP1(work.fpu)
          \/ ThrowEX(work.fpu, garbled)
          \/ ReturnMEM(work.fpu, garbled)
          \/ ThrowIF(work.fpu, garbled)
          \/ Complete(work.fpu, work.out, garbled)
    BY <1>2 DEF NextCycle
  <2>2. Valid(work.fpu) /\ Matched(work.fpu)
    BY <1>1, WorkedIs, DepartsMatched
  <2>3. fpu' = work.fpu \/ fpu' = FlushedFpu(work.fpu, garbled)
    BY <2>1 DEF ThrowCP1, ThrowEX, ReturnMEM, ThrowIF, Complete, Advance
  <2> QED BY <2>2, <2>3, SentMatched
<1>3. CASE (Reset /\ UNCHANGED status) \/ Reconfigure
  <2>1. fpu' = ResetFpu(fpu)
    BY <1>3 DEF Reset, Reconfigure, EnableHazardDetectionUnit, EnableForwardingUnit,
                ChangeBranchStage, ChangeBranchType, Configure
  <2> QED BY <1>1, <2>1, ResetKeeps, NothingMatched
<1>4. CASE UNCHANGED vars
  BY <1>4 DEF vars
<1> QED BY <1>2, <1>3, <1>4 DEF Next

(* What the hazard detection unit takes for the destinations of the         *)
(* instructions in the units are their destinations, each as often as it    *)
(* occurs, however many instructions for the same register are under way    *)
(* and in whatever order they leave.                                        *)
THEOREM DestinationsCorrect == Spec => []DestsInFlight
<1>1. Init => FlexInv /\ Matched(fpu)
  BY InitFits, NewFpuIs, NothingMatched DEF Init
<1>2. FlexInv /\ Matched(fpu) /\ [Next]_vars => (FlexInv /\ Matched(fpu))'
  BY FlexStep, MatchedStep
<1>3. FlexInv /\ Matched(fpu) => DestsInFlight
  BY DEF Matched, DestsInFlight, HeadingOf, Heading, Positions
<1> QED BY <1>1, <1>2, <1>3, PTL DEF Spec

-----------------------------------------------------------------------------
(* The steps of a user are steps of the CPU.                                *)
UserStep == [Drive \/ Again]_vars

LEMMA UserStepIsStep == UserStep => [Next]_vars
BY DEF UserStep, Drive, Again, Next

LEMMA UserFits == FlexInv /\ UserStep => FlexInv'
BY FlexStep, UserStepIsStep

(* By the way it ends: a cycle that came to its end, one that did not, a    *)
(* reset, or no step at all.                                                *)
LEMMA UserStepIs ==
  ASSUME UserStep, FlexInv
  PROVE  \/ /\ end = "none" /\ end' = "none" /\ UNCHANGED <<prog, status, countStart>>
            /\ \E work \in { Worked(g) : g \in Garbage }, garbled \in CopGarbage :
                 Complete(work.fpu, work.out, garbled)
         \/ /\ end' # "none" /\ UNCHANGED <<prog, status, countStart>>
            /\ \E work \in { Worked(g) : g \in Garbage } : Stopped(work.fpu)
         \/ Reset /\ end' = "none" /\ prog' = prog
         \/ UNCHANGED vars
<1>1. CASE Drive
  <2>1. PICK work \in { Worked(g) : g \in Garbage }, garbled \in CopGarbage :
          \/ ThrowCP1(work.fpu)
          \/ ThrowEX(work.fpu, garbled)
          \/ ReturnMEM(work.fpu, garbled)
          \/ ThrowIF(work.fpu, garbled)
          \/ Complete(work.fpu, work.out, garbled)
    BY <1>1 DEF Drive, NextCycle
  <2>2. CASE Complete(work.fpu, work.out, garbled)
    BY <1>1, <2>2 DEF Drive, Complete, Cycle
  <2>3. CASE ~Complete(work.fpu, work.out, garbled)
    <3>1. Stopped(work.fpu)
      BY <2>1, <2>3, FailedStops
    <3> QED BY <3>1 DEF Stopped
  <2> QED BY <2>2, <2>3
<1>2. CASE Again
  BY <1>2 DEF Again, Reset, ResetCpu, Reconfigure, EnableHazardDetectionUnit,
              EnableForwardingUnit, ChangeBranchStage, ChangeBranchType, Configure
<1> QED BY <1>1, <1>2 DEF UserStep

LEMMA CountStep == FlexInv /\ CountIsBusy /\ UserStep => CountIsBusy'
<1> SUFFICES ASSUME FlexInv, CountIsBusy, UserStep, end' = "none", status'.hdu,
                    status'.stage = "ID"
             PROVE  fpCount' = countStart' + Cardinality(Busy(fpu'))
  BY DEF CountIsBusy
<1>1. ASSUME end = "none", UNCHANGED <<status, countStart>>,
             NEW work \in { Worked(g) : g \in Garbage },
             NEW garbled, Complete(work.fpu, work.out, garbled)
      PROVE  fpCount' = countStart' + Cardinality(Busy(fpu'))
  <2> DEFINE f == work.fpu
             sent == Sent(f, garbled)
             returned == IF Returns(work.out) THEN 1 ELSE 0
             counted == IF Sends(f) THEN Counted(f, FpUnit(f)) ELSE 0
  <2>1. /\ Valid(f) /\ Cardinality(Busy(f)) = Cardinality(Busy(fpu)) - returned
        /\ IsFiniteSet(Busy(f)) /\ Cardinality(Busy(f)) \in Nat
    BY WorkedIs, BusyFinite
  <2>2. /\ fpCount = countStart + Cardinality(Busy(fpu)) /\ countStart' = countStart
        /\ fpCount \in Int /\ countStart \in Int /\ status.hdu /\ status.stage = "ID"
    BY <1>1 DEF CountIsBusy, FlexInv, FlexTypeOK
  <2>0. Cardinality(Busy(fpu)) \in Nat
    BY BusyFinite DEF FlexInv
  <2>3. fpu' = sent
    <3>1. FlushSignal(f, garbled) \in {0, 1}
      BY <2>2 DEF FlushSignal, FlushInMEM, BranchInMEM
    <3>2. FlushedFpu(f, garbled) = sent
      BY <3>1 DEF FlushedFpu
    <3> QED BY <1>1, <3>2 DEF Complete, Advance
  <2>4. fpCount' = fpCount - returned + counted
    BY <1>1 DEF Complete, Advance, countNext, Sends
  <2>5. CASE Sends(f)
    <3>1. Available(f, TypeOf(id.i))
      BY <2>2, <2>5, SendingIs
    <3>2. counted = 1 /\ Joins(f, sent, id.i)
      BY <2>1, <2>5, <3>1, SendingIs, SentIs DEF Counted
    <3>3. PICK k : k \notin Busy(f) /\ Busy(sent) = Busy(f) \cup {k}
      BY <3>2 DEF Joins
    <3>4. Cardinality(Busy(sent)) = Cardinality(Busy(f)) + 1
      BY <2>1, <3>3, FS_AddElement
    <3> HIDE DEF f, sent, counted
    <3> QED BY <2>0, <2>1, <2>2, <2>3, <2>4, <3>2, <3>4
  <2>6. CASE ~Sends(f)
    <3>1. sent = f /\ counted = 0
      BY <2>1, <2>6, SentIs
    <3> HIDE DEF f, sent, counted
    <3> QED BY <2>0, <2>1, <2>2, <2>3, <2>4, <3>1
  <2> QED BY <2>5, <2>6
<1>2. CASE Reset
  <2>1. fpCount' = 0 /\ countStart' = 0 /\ Busy(fpu') = {}
    BY <1>2, ResetKeeps DEF Reset, ResetHardware, FlexInv
  <2> QED BY <2>1, FS_EmptySet
<1>3. CASE UNCHANGED vars
  BY <1>3 DEF vars, signals, CountIsBusy
<1> QED BY <1>1, <1>2, <1>3, UserStepIs

(* The count a service call waits for has moved from where it started by    *)
(* the number of the instructions in the units, in every run of a user that *)
(* is not resumed behind an exception: a count that began as 0, as it does  *)
(* after every reset, is that number, and one that did not keeps what the   *)
(* construction left in it.                                                 *)
THEOREM CountCorrect == UserSpec => []CountIsBusy
<1>1. Init => FlexInv /\ CountIsBusy
  <2> SUFFICES ASSUME Init PROVE FlexInv /\ CountIsBusy
    OBVIOUS
  <2>1. FlexInv /\ countStart = fpCount /\ Cardinality(Busy(fpu)) = 0
    BY InitFits, NewFpuIs, FS_EmptySet DEF Init
  <2> QED BY <2>1 DEF CountIsBusy, FlexInv, FlexTypeOK
<1>2. FlexInv /\ CountIsBusy /\ [Drive \/ Again]_vars => (FlexInv /\ CountIsBusy)'
  BY UserFits, CountStep DEF UserStep
<1> QED BY <1>1, <1>2, PTL DEF UserSpec

-----------------------------------------------------------------------------
(* A service call has the units to itself: it left ID when the count said   *)
(* that nothing was in them, and while it is in EX the instruction that     *)
(* enters a unit leaves nothing behind it in EX.                            *)
CallAlone == countStart >= 0 /\ ex.i.op = "syscall" => Busy(fpu) = {}

LEMMA NothingReturns ==
  ASSUME NEW f, Busy(f) = {}, NEW h, NEW out, Departs(f, h, out)
  PROVE  ~Returns(out) /\ Busy(h) = {}
BY DEF Departs, Returns, IsEmpty, Empty, Bubble

LEMMA CalledMeansIdle ==
  ASSUME FlexInv, countStart >= 0, fpCount = 0
  PROVE  Busy(fpu) = {}
<1>1. IsFiniteSet(Busy(fpu)) /\ Cardinality(Busy(fpu)) \in Nat /\ Cardinality(Busy(fpu)) <= 0
  BY BusyFinite DEF FlexInv, CountCovers, FlexTypeOK
<1> QED BY <1>1, FS_EmptySet

LEMMA CompleteCallAlone ==
  ASSUME FlexInv, CallAlone, NEW work \in { Worked(g) : g \in Garbage }, NEW garbled,
         Complete(work.fpu, work.out, garbled)
  PROVE  CallAlone'
<1> DEFINE f == work.fpu
           sent == Sent(f, garbled)
<1> SUFFICES ASSUME countStart >= 0, ex'.i.op = "syscall" PROVE Busy(fpu') = {}
  BY DEF CallAlone, Complete, Cycle
<1>1. Valid(f) /\ Departs(fpu, f, work.out) /\ Valid(sent)
  BY WorkedIs, SentIs
<1>2. fpu' = FlushedFpu(f, garbled)
  BY DEF Complete, Advance
<1>3. ex' = exMoved(f, work.out, garbled)
  BY DEF Complete, Advance, Empty, Bubble
<1>4. ~IsFp
  <2> SUFFICES ASSUME IsFp PROVE FALSE
    OBVIOUS
  <2>1. ex' = Empty
    BY <1>3 DEF exMoved, IntoEX
  <2> QED BY <2>1 DEF Empty, Bubble
<1>5. sent = f
  <2>1. ~Sends(f)
    BY <1>4 DEF Sends, FpUnit
  <2> QED BY <1>1, <2>1, SentIs
<1>6. Busy(fpu) = {}
  <2>1. CASE ex' = ex
    BY <2>1 DEF CallAlone
  <2>2. CASE ex' = idNext(f, garbled)
    <3>1. ~Stall(f, garbled) /\ id.i.op = "syscall"
      BY <2>2 DEF idNext, Empty, Bubble
    <3>2. fpCount = 0
      BY <1>4, <3>1 DEF Stall, IntegerWaits, SyscallWaits
    <3> QED BY <3>2, CalledMeansIdle
  <2> QED BY <1>3, <1>4, <2>1, <2>2 DEF exMoved
<1>7. Busy(f) = {}
  BY <1>1, <1>6, NothingReturns
<1> HIDE DEF sent
<1>8. Busy(FlushedFpu(f, garbled)) = {}
  BY <1>1, <1>5, <1>7, ResetKeeps DEF FlushedFpu, sent
<1> QED BY <1>2, <1>8

LEMMA CallStep == FlexInv /\ CallAlone /\ [Next]_vars => CallAlone'
<1> SUFFICES ASSUME FlexInv, CallAlone, [Next]_vars PROVE CallAlone'
  OBVIOUS
<1>1. CASE NextCycle
  <2>1. PICK work \in { Worked(g) : g \in Garbage }, garbled \in CopGarbage :
          \/ ThrowCP1(work.fpu)
          \/ ThrowEX(work.fpu, garbled)
          \/ ReturnMEM(work.fpu, garbled)
          \/ ThrowIF(work.fpu, garbled)
          \/ Complete(work.fpu, work.out, garbled)
    BY <1>1 DEF NextCycle
  <2>2. CASE Complete(work.fpu, work.out, garbled)
    BY <2>2, CompleteCallAlone
  <2>3. CASE ~Complete(work.fpu, work.out, garbled)
    <3>1. Stopped(work.fpu)
      BY <2>1, <2>3, FailedStops
    <3>2. Departs(fpu, work.fpu, work.out)
      BY WorkedIs
    <3> QED BY <3>1, <3>2, NothingReturns DEF Stopped, CallAlone
  <2> QED BY <2>2, <2>3
<1>2. CASE (Reset /\ UNCHANGED status) \/ Reconfigure
  <2>1. Reset
    BY <1>2 DEF Reconfigure, EnableHazardDetectionUnit, EnableForwardingUnit,
                ChangeBranchStage, ChangeBranchType, Configure
  <2> QED BY <2>1 DEF Reset, CallAlone, Empty, Bubble
<1>3. CASE UNCHANGED vars
  BY <1>3 DEF vars, pipe, CallAlone
<1> QED BY <1>1, <1>2, <1>3 DEF Next

(* No service is served over an instruction in the units, whatever the      *)
(* program and the configuration, and also in a run resumed behind an       *)
(* exception, unless the count started below 0.                             *)
THEOREM ServicesFindUnitsIdle ==
  Spec => [](countStart >= 0 /\ ex.i.op = "syscall" => Busy(fpu) = {})
<1>1. Init => FlexInv /\ CallAlone
  BY InitFits, NewFpuIs DEF Init, CallAlone
<1>2. FlexInv /\ CallAlone /\ [Next]_vars => (FlexInv /\ CallAlone)'
  BY FlexStep, CallStep
<1> QED BY <1>1, <1>2, PTL DEF Spec, CallAlone

-----------------------------------------------------------------------------
(* What is in MEM when a call is served.  Three facts about consecutive     *)
(* cycles: a call in ID is not held back by fp_stall; one that was there    *)
(* already when EX did nothing has at most a call ahead of it in EX; and so *)
(* it has at most that call in MEM when it is in EX itself.                 *)
Released == id.i.op = "syscall" => ~fpStall
Follows == id.i.op = "syscall" /\ idSyscall /\ ~exRan => ex.i.op \in {"nop", "syscall"}
Served == ex.i.op = "syscall" => me.i.op \in {"nop", "syscall"}

LEMMA FetchedIs ==
  ASSUME NEW f, NEW garbled, ~IfThrows(f, garbled)
  PROVE  /\ \/ ifTmpIF(f, garbled).i = prog[pcMEM(f, garbled)] /\ pcMEM(f, garbled) \in TextAddr
            \/ ifTmpIF(f, garbled).i = Bubble
            \/ ifTmpIF(f, garbled).i = ifTmp.i
         /\ \/ ifNextIF(f, garbled).i = ifTmpIF(f, garbled).i
            \/ ifNextIF(f, garbled).i = ifNext.i
<1>1. Fetched(f, garbled).i = prog[pcMEM(f, garbled)] /\ Empty.i = Bubble
  BY DEF Fetched, Empty
<1> QED BY <1>1 DEF ifTmpIF, ifNextIF, IfThrows, IfAdvances

LEMMA ExecutedIs ==
  ASSUME NEW f
  PROVE  /\ ~StallEX(f) /\ ~IsEmpty(ex) => exTmpEX(f).i = ex.i
         /\ ~StallEX(f) /\ IsEmpty(ex) => exTmpEX(f) = Empty
         /\ exRanEX(f) <=> ~StallEX(f) /\ ~IsEmpty(ex)
BY DEF exTmpEX, exRanEX, Empty

(* No call is let into EX, or stays in it, over an instruction in a unit.   *)
CallsFindIdle == fpCount = 0 \/ ex.i.op = "syscall" => Busy(fpu) = {}

LEMMA CompleteServes ==
  ASSUME FlexInv, CallsFindIdle, Released, Follows, NEW work \in { Worked(g) : g \in Garbage },
         NEW garbled, Complete(work.fpu, work.out, garbled)
  PROVE  Follows' /\ Served'
<1> DEFINE f == work.fpu
           out == work.out
<1>1. Departs(fpu, f, out)
  BY WorkedIs
<1> HIDE DEF f, out
<1>2. /\ id' = Empty \/ id' = idMoved(f, out, garbled)
      /\ ex' = Empty \/ ex' = exMoved(f, out, garbled)
      /\ me' = Empty \/ me' = meMoved(f, out)
      /\ idSyscall' = (id.i.op = "syscall") /\ exRan' = exRanEX(f)
  BY DEF Complete, Advance, Executed, Decoded, f, out
<1>3. Empty.i.op = "nop"
  BY DEF Empty, Bubble
<1>4. id.i.op = "syscall" => ~IsFp /\ ~StallEX(f)
  BY DEF Released, StallEX, IsFp, CoprocessorOp, Arithmetic
<1>5. idNext(f, garbled).i = id.i \/ idNext(f, garbled) = Empty
  BY DEF idNext, Empty
<1>6. Follows'
  <2> SUFFICES ASSUME id'.i.op = "syscall", idSyscall', ~exRan'
               PROVE  ex'.i.op \in {"nop", "syscall"}
    BY DEF Follows
  <2>1. id.i.op = "syscall" /\ ~IsFp /\ IsEmpty(ex)
    BY <1>2, <1>4, ExecutedIs
  <2> QED BY <1>2, <1>3, <1>5, <2>1 DEF exMoved, IsEmpty
<1>7. Served'
  <2> SUFFICES ASSUME ex'.i.op = "syscall" PROVE me'.i.op \in {"nop", "syscall"}
    BY DEF Served
  <2>1. ex' = exMoved(f, out, garbled)
    BY <1>2, <1>3
  <2>2. CASE IntoEX(f, out)
    <3>1. id.i.op = "syscall" /\ ~Stall(f, garbled) /\ ~IsFp
      BY <1>3, <2>1, <2>2 DEF exMoved, IntoEX, idNext, Empty
    <3>2. ~exRan /\ idSyscall /\ fpCount = 0
      BY <3>1 DEF Stall, IntegerWaits, SyscallWaits
    <3>3. ~Returns(out)
      BY <1>1, <3>2, NothingReturns DEF CallsFindIdle
    <3>4. ex.i.op \in {"nop", "syscall"} /\ ~StallEX(f)
      BY <1>4, <3>1, <3>2 DEF Follows
    <3>5. meMoved(f, out).i.op \in {"nop", "syscall"}
      BY <1>3, <3>3, <3>4, ExecutedIs DEF meMoved
    <3> QED BY <1>2, <1>3, <3>5
  <2>3. CASE ~IntoEX(f, out)
    <3>1. ~IsFp /\ ex' = ex
      BY <1>3, <2>1, <2>3 DEF exMoved
    <3>2. ~Returns(out)
      BY <1>1, <3>1, NothingReturns DEF CallsFindIdle
    <3>3. ~exRanEX(f)
      <4> SUFFICES ASSUME exRanEX(f) PROVE FALSE
        OBVIOUS
      <4>1. meMoved(f, out).i = exTmpEX(f).i
        BY <3>2 DEF meMoved
      <4> QED BY <2>3, <3>1, <3>2, <4>1 DEF IntoEX
    <3>4. meMoved(f, out) = Empty
      BY <3>2, <3>3 DEF meMoved
    <3> QED BY <1>2, <1>3, <3>4
  <2> QED BY <2>2, <2>3
<1> QED BY <1>6, <1>7

-----------------------------------------------------------------------------
(* Programs without instructions of the coprocessor: fp_stall is never set. *)
Plain(i) == i.op \notin CoprocessorOp

PlainStages == Plain(id.i) /\ Plain(ifTmp.i) /\ Plain(ifNext.i) /\ Busy(fpu) = {}

IntegerInv == Integer(prog) => PlainStages /\ (end = "none" => ~fpStall)

LEMMA CompleteInteger ==
  ASSUME FlexInv, Integer(prog), PlainStages, NEW work \in { Worked(g) : g \in Garbage },
         NEW garbled, Complete(work.fpu, work.out, garbled)
  PROVE  PlainStages' /\ ~fpStall'
<1> DEFINE f == work.fpu
           out == work.out
           sent == Sent(f, garbled)
<1>1. Valid(f) /\ Departs(fpu, f, out) /\ Valid(sent)
  BY WorkedIs, SentIs
<1>2. ~Returns(out) /\ Busy(f) = {}
  BY <1>1, NothingReturns DEF PlainStages
<1>3. ~IsFp /\ FpUnit(f) = "none"
  BY DEF PlainStages, Plain, IsFp, FpUnit
<1>4. sent = f
  BY <1>1, <1>3, SentIs DEF Sends
<1> HIDE DEF f, out, sent
<1>5. /\ fpu' = FlushedFpu(f, garbled) /\ fpStall' = fpStallNext(f, out)
      /\ id' = Empty \/ id' = idMoved(f, out, garbled)
      /\ ifTmp' = ifTmpIF(f, garbled) /\ ifNext' = ifNextIF(f, garbled)
      /\ ~IfThrows(f, garbled)
  BY DEF Complete, Advance, f, out
<1>6. Busy(fpu') = {}
  BY <1>1, <1>2, <1>4, <1>5, ResetKeeps DEF FlushedFpu, sent
<1>7. ~fpStall'
  BY <1>2, <1>3, <1>5 DEF fpStallNext
<1>8. Plain(Bubble) /\ Empty.i = Bubble
  BY DEF Plain, Bubble, CoprocessorOp, Arithmetic, Empty
<1>9. \A a \in TextAddr : Plain(prog[a])
  BY DEF Integer, Plain
<1>10. Plain(ifTmpIF(f, garbled).i) /\ Plain(ifNextIF(f, garbled).i)
  BY <1>5, <1>8, <1>9, FetchedIs DEF PlainStages
<1>11. Plain(id'.i)
  BY <1>5, <1>8, <1>10 DEF PlainStages, idMoved
<1> QED BY <1>5, <1>6, <1>7, <1>10, <1>11 DEF PlainStages

LEMMA IntegerStep == FlexInv /\ IntegerInv /\ UserStep => IntegerInv'
<1> SUFFICES ASSUME FlexInv, IntegerInv, UserStep, Integer(prog')
             PROVE  PlainStages' /\ (end' = "none" => ~fpStall')
  BY DEF IntegerInv
<1>1. prog' = prog /\ Integer(prog) /\ PlainStages
  BY UserStepIs DEF IntegerInv, vars
<1>2. Plain(Empty.i)
  BY DEF Plain, Bubble, CoprocessorOp, Arithmetic, Empty
<1>3. CASE \E work \in { Worked(g) : g \in Garbage }, garbled \in CopGarbage :
             Complete(work.fpu, work.out, garbled)
  BY <1>1, <1>3, CompleteInteger
<1>4. CASE end' # "none" /\ \E work \in { Worked(g) : g \in Garbage } : Stopped(work.fpu)
  <2>1. PICK work \in { Worked(g) : g \in Garbage } : Stopped(work.fpu)
    BY <1>4
  <2>2. Busy(work.fpu) = {}
    BY <1>1, WorkedIs, NothingReturns DEF PlainStages
  <2> QED BY <1>1, <1>2, <1>4, <2>1, <2>2 DEF Stopped, PlainStages
<1>5. CASE Reset
  <2>1. Busy(fpu') = {}
    BY <1>5, ResetKeeps DEF Reset, FlexInv
  <2> QED BY <1>1, <1>2, <1>5, <2>1 DEF Reset, ResetHardware, ResetID, PlainStages
<1>6. CASE UNCHANGED vars
  BY <1>1, <1>6 DEF vars, pipe, signals, PlainStages, IntegerInv
<1> QED BY <1>3, <1>4, <1>5, <1>6, UserStepIs

-----------------------------------------------------------------------------
(* Programs that load first and then calculate, without branches: the PC    *)
(* says where in such a program the pipeline is.                            *)
Ahead == {"nop", "alui", "lwc1"}
Behind == Arithmetic \cup {"nop", "syscall"}

Ordered(first) ==
  /\ first \in TextAddr
  /\ \A a \in TextAddr : prog[a].op \in (IF a < first THEN Ahead ELSE Behind)

(* What holds of them also when a cycle has failed, and before the reset of *)
(* the CPU that the user does next.                                         *)
OrderedStages ==
  /\ \A seg \in {id, ex, me, ifTmp, ifNext} : seg.i.op \in Ahead \cup Behind
  /\ \A n \in Busy(fpu) : fpu.units[n].seg.i.op \in Arithmetic
  /\ pcSrc = "next" /\ fpu.condDelay = 0

(* Up to the first calculation nothing waits; then nothing but calculations *)
(* and calls is on its way, and what is in EX has left when one is started. *)
Progress(first) ==
  /\ pc <= first => id.i.op \in Ahead /\ ~fpStall /\ Busy(fpu) = {}
  /\ pc > first => id.i.op \in Behind /\ ifTmp.i.op \in Behind /\ ifNext.i.op \in Behind
  /\ Busy(fpu) # {} => IsEmpty(ex)
  /\ fpStall => id.i.op \in Arithmetic

OrderedInv ==
  \A first : Ordered(first) =>
    /\ OrderedStages
    /\ countStart >= 0 /\ end = "none" /\ status.hdu /\ status.fu => Progress(first)

(* The condition bit is touched by comparisons only.                        *)
LEMMA CondDelayKept ==
  ASSUME NEW f \in FpuState
  PROVE  /\ ResetFpu(f).condDelay = f.condDelay
         /\ \A type, seg : SetSegReg(f, type, seg).condDelay = f.condDelay
         /\ EraseFinished(f).condDelay = f.condDelay
         /\ \A g, win : TakeOut(g, f, win).condDelay = f.condDelay
<1>1. ResetFpu(f).condDelay = f.condDelay
  BY DEF ResetFpu, FpuState
<1>2. ASSUME NEW type, NEW seg PROVE SetSegReg(f, type, seg).condDelay = f.condDelay
  BY DEF SetSegReg, FpuState
<1>3. EraseFinished(f).condDelay = f.condDelay
  BY DEF EraseFinished, FpuState
<1>4. ASSUME NEW g, NEW win PROVE TakeOut(g, f, win).condDelay = f.condDelay
  BY DEF TakeOut, FpuState
<1> QED BY <1>1, <1>2, <1>3, <1>4

LEMMA NotDelayed ==
  ASSUME NEW f, Valid(f), \A n \in Busy(f) : f.units[n].seg.i.op \in Arithmetic,
         f.condDelay = 0, NEW m \in SegReg, NEW w \in SegReg, NEW enabled, NEW g \in Word
  PROVE  Work(f, m, w, enabled, g).fpu.condDelay = 0
<1> DEFINE pass == Pass(f, m, w, enabled, g)
           left == TakeOut(f, pass, Finished(f))
<1>1. f \in FpuState
  BY DEF Valid
<1>2. pass.condDelay = 0
  <2>1. Enters(f) # {} => HasDest(f.units[CHOOSE k \in Enters(f) : TRUE].seg.i)
    BY DEF Enters, HasDest
  <2> QED BY <1>1, <2>1 DEF Pass, FpuState
<1>3. pass \in FpuState /\ SameUnits(f, pass)
  BY PassKeeps
<1>4. left \in FpuState
  <2> HIDE DEF pass
  <2> QED BY <1>3, TakeOutKeeps
<1>5. left.condDelay = 0
  <2> HIDE DEF pass
  <2> QED BY <1>2, <1>3, CondDelayKept
<1>6. Work(f, m, w, enabled, g).fpu = EraseFinished(left)
  BY DEF Work
<1> HIDE DEF left
<1> QED BY <1>4, <1>5, <1>6, CondDelayKept

LEMMA WorkedOrdered ==
  ASSUME FlexInv, OrderedStages, NEW work \in { Worked(g) : g \in Garbage }
  PROVE  /\ \A n \in Busy(work.fpu) : work.fpu.units[n].seg.i.op \in Arithmetic
         /\ work.fpu.condDelay = 0
         /\ Returns(work.out) => Busy(fpu) # {} /\ work.out.i.op \in Arithmetic
<1>1. Departs(fpu, work.fpu, work.out) /\ Valid(fpu)
  BY WorkedIs DEF FlexInv
<1>2. \A n \in Busy(work.fpu) : work.fpu.units[n].seg.i.op \in Arithmetic
  BY <1>1, Departed DEF OrderedStages
<1>3. work.fpu.condDelay = 0
  <2>1. PICK g \in Garbage : work = Worked(g)
    OBVIOUS
  <2>2. g \in Word /\ me \in SegReg /\ wb \in SegReg
    BY DelayAssumption DEF DelayAssumption, FlexInv, FlexTypeOK
  <2> QED BY <1>1, <2>1, <2>2, NotDelayed DEF OrderedStages, Worked
<1>4. Returns(work.out) => Busy(fpu) # {} /\ work.out.i.op \in Arithmetic
  BY <1>1 DEF Departs, Returns, IsEmpty, Empty, Bubble, OrderedStages
<1> QED BY <1>2, <1>3, <1>4

(* There is no branch to decide, and nothing is flushed.                    *)
LEMMA OrderedStraight ==
  ASSUME OrderedStages, NEW f, NEW garbled
  PROVE  /\ pcSrcID(f, garbled) = "next" /\ FlushSignal(f, garbled) = 0
         /\ pcMEM(f, garbled) = pc
         /\ pcNext(f, garbled) = IF IfAdvances(f, garbled) THEN Plus(pc, 1) ELSE pc
         /\ IsFp => id.i.op \in Arithmetic
<1>1. id.i.op \in Ahead \cup Behind /\ me.i.op \in Ahead \cup Behind /\ pcSrc = "next"
  BY DEF OrderedStages
<1>2. ~BranchInID(f, garbled)
  BY <1>1 DEF BranchInID, Branch, IsBc1, Ahead, Behind, Arithmetic
<1>3. ~BranchInMEM
  BY <1>1 DEF BranchInMEM, SigBranch, Branch, Ahead, Behind, Arithmetic
<1>4. pcSrcID(f, garbled) = "next" /\ FlushSignal(f, garbled) = 0 /\ pcMEM(f, garbled) = pc
  BY <1>1, <1>2, <1>3 DEF pcSrcID, TakenInID, FlushSignal, FlushInMEM, FlushInID, pcMEM, pcID
<1>5. pcNext(f, garbled) = IF IfAdvances(f, garbled) THEN Plus(pc, 1) ELSE pc
  BY <1>3, <1>4 DEF pcNext, pcIF, NextAddress
<1>6. IsFp => id.i.op \in Arithmetic
  BY <1>1 DEF IsFp, CoprocessorOp, Ahead, Behind, Arithmetic
<1> QED BY <1>4, <1>5, <1>6

LEMMA OrderedMoves ==
  ASSUME FlexInv, OrderedStages, NEW work \in { Worked(g) : g \in Garbage }, NEW garbled,
         Complete(work.fpu, work.out, garbled)
  PROVE  LET f == work.fpu
             out == work.out
         IN  /\ id' = idMoved(f, out, garbled) /\ ex' = exMoved(f, out, garbled)
             /\ me' = meMoved(f, out) /\ fpu' = Sent(f, garbled)
             /\ ifTmp' = ifTmpIF(f, garbled) /\ ifNext' = ifNextIF(f, garbled)
             /\ fpStall' = fpStallNext(f, out) /\ pcSrc' = "next"
             /\ pc' = IF IfAdvances(f, garbled) THEN Plus(pc, 1) ELSE pc
             /\ ~StallEX(f) => pc \in TextAddr
             /\ prog' = prog /\ ~IfThrows(f, garbled)
<1> DEFINE f == work.fpu
           out == work.out
<1> HIDE DEF f, out
<1>1. FlushSignal(f, garbled) = 0 /\ pcSrcID(f, garbled) = "next" /\ pcMEM(f, garbled) = pc
  BY OrderedStraight
<1>2. /\ Executed(f, garbled) /\ ~IfThrows(f, garbled) /\ Cycle(f, "none")
      /\ pc' = pcNext(f, garbled) /\ Advance(f, out, garbled)
  BY DEF Complete, f, out
<1>3. fpu' = Sent(f, garbled)
  BY <1>1, <1>2 DEF Advance, FlushedFpu
<1> QED BY <1>1, <1>2, <1>3, OrderedStraight
        DEF Advance, Executed, Decoded, Cycle, IfThrows, f, out

LEMMA CompleteOrderedStages ==
  ASSUME FlexInv, NEW first, Ordered(first), OrderedStages,
         NEW work \in { Worked(g) : g \in Garbage }, NEW garbled,
         Complete(work.fpu, work.out, garbled)
  PROVE  OrderedStages'
<1> DEFINE f == work.fpu
           out == work.out
           Fits(seg) == seg.i.op \in Ahead \cup Behind
<1>1. /\ id' = idMoved(f, out, garbled) /\ ex' = exMoved(f, out, garbled)
      /\ me' = meMoved(f, out) /\ fpu' = Sent(f, garbled)
      /\ ifTmp' = ifTmpIF(f, garbled) /\ ifNext' = ifNextIF(f, garbled)
      /\ pcSrc' = "next" /\ ~IfThrows(f, garbled)
  BY OrderedMoves
<1>2. /\ Valid(f) /\ f.condDelay = 0
      /\ \A n \in Busy(f) : f.units[n].seg.i.op \in Arithmetic
      /\ Returns(out) => out.i.op \in Arithmetic
  BY WorkedIs, WorkedOrdered
<1> HIDE DEF f, out
<1>3. Bubble.op \in Ahead /\ Empty.i = Bubble
  BY DEF Ahead, Empty, Bubble
<1>4. Fits(id) /\ Fits(ex) /\ Fits(me) /\ Fits(ifTmp) /\ Fits(ifNext)
  BY DEF OrderedStages
<1>5. \A a \in TextAddr : prog[a].op \in Ahead \cup Behind
  BY DEF Ordered
<1>6. Fits(ifTmpIF(f, garbled)) /\ Fits(ifNextIF(f, garbled))
  BY <1>1, <1>3, <1>4, <1>5, FetchedIs
<1>7. Fits(id')
  BY <1>1, <1>4, <1>6 DEF idMoved
<1>8. Fits(ex')
  <2>1. idNext(f, garbled).i = id.i \/ idNext(f, garbled) = Empty
    BY DEF idNext, Empty
  <2> QED BY <1>1, <1>3, <1>4, <2>1 DEF exMoved
<1>9. Fits(me')
  BY <1>1, <1>2, <1>3, <1>4, ExecutedIs DEF meMoved, Behind
<1> DEFINE sent == Sent(f, garbled)
<1>10. \A n \in Busy(sent) : sent.units[n].seg.i.op \in Arithmetic
  <2>1. /\ ~Sends(f) => sent = f
        /\ Sends(f) => Joins(f, sent, id.i) \/ Unmoved(f, sent)
    BY <1>2, SentIs
  <2>2. Sends(f) => id.i.op \in Arithmetic
    BY SendingIs, OrderedStraight
  <2> HIDE DEF sent
  <2>3. CASE Sends(f) /\ Joins(f, sent, id.i)
    BY <1>2, <2>2, <2>3 DEF Joins
  <2>4. CASE Sends(f) /\ Unmoved(f, sent)
    BY <1>2, <2>4 DEF Unmoved
  <2> QED BY <1>2, <2>1, <2>3, <2>4
<1>11. sent.condDelay = 0
  BY <1>2, CondDelayKept DEF Valid, Sent
<1> HIDE DEF sent
<1>12. \A n \in Busy(fpu') : fpu'.units[n].seg.i.op \in Arithmetic
  BY <1>1, <1>10 DEF sent
<1> QED BY <1>1, <1>6, <1>7, <1>8, <1>9, <1>11, <1>12 DEF OrderedStages, sent

LEMMA NextInText == \A a \in TextAddr : Plus(a, 1) = a + 1
<1> SUFFICES ASSUME NEW a \in TextAddr PROVE Plus(a, 1) = a + 1
  OBVIOUS
<1>1. WordSize \in Nat /\ a + 1 \in 0 .. WordSize - 1
  BY TextAssumption, WordSizeAssumption DEF TextAssumption, WordSizeAssumption, TextAddr, Word
<1> QED BY <1>1 DEF Plus

(* Before the first calculation.                                            *)
LEMMA LoadsProgress ==
  ASSUME FlexInv, NEW first, Ordered(first), OrderedStages, Progress(first), pc <= first,
         status.fu, NEW work \in { Worked(g) : g \in Garbage }, NEW garbled,
         Complete(work.fpu, work.out, garbled)
  PROVE  Progress(first)'
<1> DEFINE f == work.fpu
           out == work.out
<1>1. /\ id' = idMoved(f, out, garbled) /\ fpu' = Sent(f, garbled)
      /\ ifTmp' = ifTmpIF(f, garbled) /\ ifNext' = ifNextIF(f, garbled)
      /\ fpStall' = fpStallNext(f, out)
      /\ pc' = IF IfAdvances(f, garbled) THEN Plus(pc, 1) ELSE pc
      /\ ~StallEX(f) => pc \in TextAddr
  BY OrderedMoves
<1>2. id.i.op \in Ahead /\ ~fpStall /\ Busy(fpu) = {}
  BY DEF Progress
<1>3. Valid(f) /\ Departs(fpu, f, out) /\ f.condDelay = 0
  BY WorkedIs, WorkedOrdered
<1>4. ~Returns(out) /\ Busy(f) = {}
  BY <1>2, <1>3, NothingReturns
<1> HIDE DEF f, out
<1>5. ~IsFp /\ ~StallEX(f) /\ FpUnit(f) = "none"
  BY <1>2 DEF Ahead, IsFp, CoprocessorOp, Arithmetic, StallEX, FpUnit
<1>6. ~Stall(f, garbled)
  <2>1. ~SyscallWaits
    BY <1>2 DEF SyscallWaits, Ahead
  <2>2. ~OperandWaits(f)
    <3>1. CanForward
      BY <1>2 DEF CanForward, ResolvedInID, Conditional, IsBc1, Ahead
    <3>2. ~ReadsRt(id.i) \/ id.i.op = "nop"
      BY <1>2 DEF ReadsRt, AluSrc, MemWrite, Ahead
    <3>3. ~(WritesReg(ex.i, id.i.rs, FALSE) /\ MemRead(ex.i))
      BY DEF OrderedStages, WritesReg, MemRead, SigRegBank, FpBank, Ahead, Behind, Arithmetic
    <3> QED BY <3>1, <3>2, <3>3 DEF OperandWaits, DetectHazard
  <2>3. ~(f.condDelay > 0)
    BY <1>3
  <2> QED BY <1>5, <2>1, <2>2, <2>3 DEF Stall, IntegerWaits
<1>7. pc \in TextAddr /\ pc' = pc + 1
  BY <1>1, <1>5, <1>6, NextInText DEF IfAdvances
<1>8. ifTmpIF(f, garbled).i = prog[pc] /\ ifNextIF(f, garbled).i = prog[pc]
  BY <1>5, <1>6, OrderedStraight DEF ifTmpIF, ifNextIF, IfAdvances, Fetched, Empty
<1>9. id' = ifNextIF(f, garbled)
  <2>1. IntoEX(f, out)
    BY <1>4, <1>5, ExecutedIs DEF IntoEX, meMoved
  <2> QED BY <1>1, <1>6, <2>1 DEF idMoved, IntoID
<1>10. Busy(fpu') = {}
  <2>1. Sent(f, garbled) = f
    BY <1>3, <1>5, SentIs DEF Sends
  <2> QED BY <1>1, <1>4, <2>1
<1>11. ~fpStall'
  BY <1>1, <1>4, <1>5 DEF fpStallNext
<1>12. prog[pc].op \in (IF pc < first THEN Ahead ELSE Behind)
  BY <1>7 DEF Ordered
<1>13. pc \in Int /\ first \in Int
  BY TextAssumption, <1>7 DEF TextAssumption, TextAddr, Ordered, Word
<1>14. CASE pc < first
  <2>1. pc' <= first /\ ~(pc' > first)
    BY <1>7, <1>13, <1>14
  <2> QED BY <1>8, <1>9, <1>10, <1>11, <1>12, <1>14, <2>1 DEF Progress
<1>15. CASE ~(pc < first)
  <2>1. ~(pc' <= first)
    BY <1>7, <1>13, <1>15
  <2> QED BY <1>1, <1>8, <1>9, <1>10, <1>11, <1>12, <1>15, <2>1 DEF Progress
<1> QED BY <1>14, <1>15

(* From the first calculation on.                                           *)
LEMMA CalculationsProgress ==
  ASSUME FlexInv, NEW first, Ordered(first), OrderedStages, Progress(first), pc > first,
         countStart >= 0, status.hdu, NEW work \in { Worked(g) : g \in Garbage }, NEW garbled,
         Complete(work.fpu, work.out, garbled)
  PROVE  Progress(first)'
<1> DEFINE f == work.fpu
           out == work.out
<1>1. /\ id' = idMoved(f, out, garbled) /\ ex' = exMoved(f, out, garbled)
      /\ fpu' = Sent(f, garbled) /\ fpStall' = fpStallNext(f, out)
      /\ ifTmp' = ifTmpIF(f, garbled) /\ ifNext' = ifNextIF(f, garbled)
      /\ pc' = IF IfAdvances(f, garbled) THEN Plus(pc, 1) ELSE pc
      /\ ~StallEX(f) => pc \in TextAddr
      /\ ~IfThrows(f, garbled)
  BY OrderedMoves
<1>2. id.i.op \in Behind /\ ifTmp.i.op \in Behind /\ ifNext.i.op \in Behind
  <2>1. pc > first
    OBVIOUS
  <2> QED BY <2>1 DEF Progress
<1>3. /\ Valid(f) /\ Departs(fpu, f, out) /\ (Returns(out) => Busy(fpu) # {})
      /\ \A n \in Busy(f) : n \in Busy(fpu)
  BY WorkedIs, WorkedOrdered, Departed DEF FlexInv
<1> HIDE DEF f, out
<1>4. pc \in Int /\ first \in Int
  BY TextAssumption, WordSizeAssumption
     DEF TextAssumption, WordSizeAssumption, TextAddr, Ordered, Word, FlexInv, FlexTypeOK
<1>5. pc' > first /\ ~(pc' <= first)
  <2>1. pc' = pc \/ pc' = pc + 1
    BY <1>1, NextInText DEF IfAdvances
  <2> QED BY <1>4, <2>1
<1>6. Bubble.op \in Behind
  BY DEF Behind, Bubble
<1>7. ifTmpIF(f, garbled).i.op \in Behind /\ ifNextIF(f, garbled).i.op \in Behind
  <2>1. pc \in TextAddr => prog[pc].op \in Behind
    BY <1>4 DEF Ordered
  <2>2. pcMEM(f, garbled) = pc
    BY OrderedStraight
  <2> QED BY <1>1, <1>2, <1>6, <2>1, <2>2, FetchedIs
<1>8. id'.i.op \in Behind
  BY <1>1, <1>2, <1>7 DEF idMoved
<1>9. Busy(fpu) # {} => IsEmpty(ex)
  BY DEF Progress
<1>10. IsFp => ex' = Empty
  BY <1>1 DEF exMoved, IntoEX
<1>11. Busy(fpu') # {} => IsEmpty(ex')
  <2> SUFFICES ASSUME Busy(fpu') # {} PROVE ex'.i.op = "nop"
    BY DEF IsEmpty
  <2>1. Empty.i.op = "nop"
    BY DEF Empty, Bubble
  <2>2. CASE IsFp
    BY <1>10, <2>1, <2>2
  <2>3. CASE ~IsFp
    <3>1. Sent(f, garbled) = f
      BY <1>3, <2>3, SentIs DEF Sends, FpUnit
    <3>2. Busy(fpu) # {} /\ IsEmpty(ex)
      BY <1>1, <1>3, <1>9, <3>1
    <3>3. id.i.op = "syscall" => Stall(f, garbled)
      <4>1. fpCount # 0
        BY <3>2, CalledMeansIdle
      <4> QED BY <2>3, <4>1 DEF Stall, IntegerWaits, SyscallWaits
    <3>4. id.i.op \in {"nop", "syscall"}
      BY <1>2, <2>3 DEF Behind, IsFp, CoprocessorOp
    <3>5. idNext(f, garbled).i.op = "nop"
      BY <2>1, <3>3, <3>4 DEF idNext, Empty
    <3> QED BY <1>1, <2>1, <3>2, <3>5 DEF exMoved, IsEmpty
  <2> QED BY <2>2, <2>3
<1>12. fpStall' => id'.i.op \in Arithmetic
  <2> SUFFICES ASSUME fpStall' PROVE id'.i.op \in Arithmetic
    OBVIOUS
  <2>1. ~IsEmpty(ex) /\ exRanEX(f) /\ FpUnit(f) = "stall"
    BY <1>1, <1>3, <1>9, ExecutedIs DEF fpStallNext
  <2>2. IsFp
    BY <2>1 DEF FpUnit
  <2>3. id' = id
    BY <1>1, <2>1, <2>2 DEF idMoved, IntoID, IntoEX
  <2> QED BY <2>2, <2>3, OrderedStraight
<1> QED BY <1>1, <1>5, <1>7, <1>8, <1>11, <1>12 DEF Progress

LEMMA RestartProgress ==
  ASSUME NEW first, Ordered(first), pc = TextStart, id = Empty, ~fpStall, Busy(fpu) = {}
  PROVE  Progress(first)
<1>1. ~(pc > first) /\ pc <= first
  BY TextAssumption DEF TextAssumption, TextAddr, Ordered, Word
<1> QED BY <1>1 DEF Progress, Ahead, Empty, Bubble

LEMMA OrderedInit == Init => OrderedInv
<1> SUFFICES ASSUME Init, NEW first, Ordered(first) PROVE OrderedStages /\ Progress(first)
  BY DEF OrderedInv
<1>1. Busy(fpu) = {} /\ fpu.condDelay = 0
  BY NewFpuIs DEF Init, NewFpu
<1>2. OrderedStages
  BY <1>1 DEF Init, OrderedStages, Ahead, Empty, Bubble
<1> QED BY <1>1, <1>2, RestartProgress DEF Init

LEMMA OrderedStep == FlexInv /\ OrderedInv /\ UserStep => OrderedInv'
<1> SUFFICES ASSUME FlexInv, OrderedInv, UserStep, NEW first, Ordered(first)'
             PROVE  /\ OrderedStages'
                    /\ countStart' >= 0 /\ end' = "none" /\ status'.hdu /\ status'.fu
                         => Progress(first)'
  BY DEF OrderedInv
<1>1. prog' = prog /\ Ordered(first)
  BY UserStepIs DEF vars, Ordered
<1>2. /\ OrderedStages
      /\ countStart >= 0 /\ end = "none" /\ status.hdu /\ status.fu => Progress(first)
  BY <1>1 DEF OrderedInv
<1>3. ASSUME end = "none", UNCHANGED <<status, countStart>>,
             NEW work \in { Worked(g) : g \in Garbage },
             NEW garbled, Complete(work.fpu, work.out, garbled)
      PROVE  OrderedStages' /\ (countStart' >= 0 /\ status'.hdu /\ status'.fu => Progress(first)')
  <2>1. OrderedStages'
    BY <1>1, <1>2, <1>3, CompleteOrderedStages
  <2>2. ASSUME countStart >= 0, status.hdu, status.fu, pc <= first PROVE Progress(first)'
    BY <1>1, <1>2, <1>3, <2>2, LoadsProgress
  <2>3. ASSUME countStart >= 0, status.hdu, status.fu, pc > first PROVE Progress(first)'
    BY <1>1, <1>2, <1>3, <2>3, CalculationsProgress
  <2>4. pc <= first \/ pc > first
    BY <1>1, TextAssumption, WordSizeAssumption
       DEF TextAssumption, WordSizeAssumption, TextAddr, Ordered, Word, FlexInv, FlexTypeOK
  <2> QED BY <1>3, <2>1, <2>2, <2>3, <2>4
<1>4. ASSUME end' # "none", NEW work \in { Worked(g) : g \in Garbage }, Stopped(work.fpu)
      PROVE  OrderedStages'
  <2>1. Empty.i.op \in Ahead
    BY DEF Ahead, Empty, Bubble
  <2>2. pcSrc' = "next"
    BY <1>2, <1>4, OrderedStraight DEF Stopped, OrderedStages
  <2>3. /\ \A n \in Busy(work.fpu) : work.fpu.units[n].seg.i.op \in Arithmetic
        /\ work.fpu.condDelay = 0 /\ fpu' = work.fpu
    BY <1>2, <1>4, WorkedOrdered DEF Stopped
  <2>4. \A seg \in {id', ex', me', ifTmp', ifNext'} : seg.i.op \in Ahead \cup Behind
    BY <1>2, <1>4, <2>1 DEF Stopped, OrderedStages
  <2> QED BY <2>2, <2>3, <2>4 DEF OrderedStages
<1>5. CASE Reset
  <2>1. /\ id' = Empty /\ ex' = Empty /\ me' = Empty /\ ifTmp' = ifTmp /\ ifNext' = ifNext
        /\ pcSrc' = pcSrc /\ fpu' = ResetFpu(fpu) /\ pc' = TextStart /\ ~fpStall'
    BY <1>5 DEF Reset, ResetCpu, ResetHardware, ResetID, ResetMEM
  <2>2. Busy(fpu') = {} /\ fpu'.condDelay = 0
    BY <1>2, <2>1, ResetKeeps, CondDelayKept DEF FlexInv, Valid, OrderedStages
  <2>3. Empty.i.op \in Ahead
    BY DEF Ahead, Empty, Bubble
  <2>4. OrderedStages'
    BY <1>2, <2>1, <2>2, <2>3 DEF OrderedStages
  <2>5. Progress(first)'
    <3>1. pc' <= first /\ ~(pc' > first)
      BY <1>1, <2>1, TextAssumption DEF TextAssumption, TextAddr, Ordered, Word
    <3> QED BY <2>1, <2>2, <2>3, <3>1 DEF Progress
  <2> QED BY <2>4, <2>5
<1>6. CASE UNCHANGED vars
  <2>1. UNCHANGED <<end, status, countStart, pc, id, ex, me, ifTmp, ifNext, fpu, fpStall, pcSrc>>
    BY <1>6 DEF vars, pipe, signals
  <2> QED BY <1>2, <2>1 DEF OrderedStages, Progress
<1> QED BY <1>3, <1>4, <1>5, <1>6, UserStepIs

-----------------------------------------------------------------------------
(* The programs the reference is kept for are of one kind or the other.     *)
LEMMA SeparatedIsOrdered == Separated(prog) => \E first : Ordered(first)
<1> SUFFICES ASSUME Separated(prog) PROVE \E first : Ordered(first)
  OBVIOUS
<1>1. PICK first \in TextAddr, last \in TextAddr :
        /\ \A a \in TextAddr : (prog[a].op \in Arithmetic) <=> (a \in first .. last)
        /\ \A a \in last + 1 .. TextEnd : prog[a].op \in {"syscall", "nop"}
        /\ \A a \in TextStart .. first - 1 : prog[a].op \in {"alui", "lwc1"}
  BY DEF Separated
<1>2. TextStart \in Int /\ TextEnd \in Int
  BY TextAssumption DEF TextAssumption, Word
<1>3. ASSUME NEW a \in TextAddr
      PROVE  prog[a].op \in (IF a < first THEN Ahead ELSE Behind)
  <2>1. CASE a < first
    <3>1. a \in TextStart .. first - 1
      BY <1>2, <2>1 DEF TextAddr
    <3> QED BY <1>1, <2>1, <3>1 DEF Ahead
  <2>2. CASE ~(a < first) /\ a <= last
    <3>1. a \in first .. last
      BY <1>2, <2>2 DEF TextAddr
    <3> QED BY <1>1, <2>2, <3>1 DEF Behind
  <2>3. CASE ~(a < first) /\ ~(a <= last)
    <3>1. a \in last + 1 .. TextEnd
      BY <1>2, <2>3 DEF TextAddr
    <3> QED BY <1>1, <2>3, <3>1 DEF Behind
  <2> QED BY <2>1, <2>2, <2>3
<1> QED BY <1>3 DEF Ordered

LEMMA FaithfulReleases ==
  ASSUME Faithful, AllCounted, end = "none", IntegerInv, OrderedInv
  PROVE  Released
<1>1. CASE Integer(prog)
  BY <1>1 DEF IntegerInv, Released
<1>2. CASE ~Integer(prog) /\ Separated(prog) /\ status.fu
  <2>1. PICK first : Ordered(first)
    BY <1>2, SeparatedIsOrdered
  <2>2. status.hdu
    BY DEF Faithful, FaithfulInteger, FaithfulFloat
  <2>3. Progress(first)
    BY <1>2, <2>1, <2>2 DEF OrderedInv, AllCounted
  <2> QED BY <2>3 DEF Progress, Released, Arithmetic
<1>3. Integer(prog) \/ (Separated(prog) /\ status.fu)
  BY DEF Faithful, FaithfulInteger, FaithfulFloat, StraightTexts, IntegerTexts, SeparatedTexts
<1> QED BY <1>1, <1>2, <1>3

LEMMA AllCountedIdles ==
  ASSUME AllCounted, FlexInv, CallAlone, IntegerInv
  PROVE  CallsFindIdle
<1>1. CASE Integer(prog)
  BY <1>1 DEF IntegerInv, PlainStages, CallsFindIdle
<1>2. CASE countStart >= 0
  BY <1>2, CalledMeansIdle DEF CallAlone, CallsFindIdle
<1> QED BY <1>1, <1>2 DEF AllCounted

ServiceInv == /\ CallAlone /\ IntegerInv /\ OrderedInv
              /\ Faithful /\ AllCounted /\ end = "none" => Follows /\ Served

LEMMA ServiceInit == Init => ServiceInv
<1> SUFFICES ASSUME Init PROVE ServiceInv
  OBVIOUS
<1>1. CallAlone /\ Follows /\ Served
  BY DEF Init, CallAlone, Follows, Served, Empty, Bubble
<1>2. IntegerInv
  BY NewFpuIs
     DEF Init, IntegerInv, PlainStages, Plain, Empty, Bubble, CoprocessorOp, Arithmetic
<1> QED BY <1>1, <1>2, OrderedInit DEF ServiceInv

LEMMA ServiceStep == FlexInv /\ ServiceInv /\ UserStep => ServiceInv'
<1> SUFFICES ASSUME FlexInv, ServiceInv, UserStep PROVE ServiceInv'
  OBVIOUS
<1>1. CallAlone' /\ IntegerInv' /\ OrderedInv'
  BY CallStep, IntegerStep, OrderedStep, UserStepIsStep DEF ServiceInv
<1>2. ASSUME Faithful', AllCounted', end' = "none" PROVE Follows' /\ Served'
  <2>1. ASSUME end = "none", UNCHANGED <<prog, status, countStart>>,
               NEW work \in { Worked(g) : g \in Garbage }, NEW garbled,
               Complete(work.fpu, work.out, garbled)
        PROVE  Follows' /\ Served'
    <3>1. Faithful /\ AllCounted
      BY <1>2, <2>1 DEF Faithful, FaithfulInteger, FaithfulFloat, AllCounted
    <3>2. Released /\ Follows /\ CallsFindIdle
      BY <2>1, <3>1, FaithfulReleases, AllCountedIdles DEF ServiceInv
    <3> QED BY <2>1, <3>2, CompleteServes
  <2>2. CASE Reset
    BY <2>2 DEF Reset, ResetID, Follows, Served, Empty, Bubble
  <2>3. CASE UNCHANGED vars
    <3>1. UNCHANGED <<prog, status, countStart, id, ex, me, idSyscall, exRan, end>>
      BY <2>3 DEF vars, pipe, signals
    <3>2. Faithful /\ AllCounted /\ end = "none"
      BY <1>2, <3>1 DEF Faithful, FaithfulInteger, FaithfulFloat, AllCounted
    <3> QED BY <3>1, <3>2 DEF ServiceInv, Follows, Served
  <2> QED BY <1>2, <2>1, <2>2, <2>3, UserStepIs
<1> QED BY <1>1, <1>2 DEF ServiceInv

(* A service is served with the units of the coprocessor empty and, in the  *)
(* programs the reference is kept for, with nothing in MEM but a call that  *)
(* has been served: what the registers hold is what the program has         *)
(* computed up to it.                                                       *)
THEOREM ServicesWaitAlone == UserSpec => []ServiceAlone
<1>1. Init => FlexInv /\ ServiceInv
  BY InitFits, ServiceInit
<1>2. FlexInv /\ ServiceInv /\ [Drive \/ Again]_vars => (FlexInv /\ ServiceInv)'
  BY UserFits, ServiceStep DEF UserStep
<1>3. FlexInv /\ ServiceInv => ServiceAlone
  <2> SUFFICES ASSUME FlexInv, ServiceInv, ex.i.op = "syscall", end = "none", AllCounted
               PROVE  Busy(fpu) = {} /\ (Faithful => me.i.op \in {"nop", "syscall"})
    BY DEF ServiceAlone
  <2>1. Busy(fpu) = {}
    BY AllCountedIdles DEF ServiceInv, CallsFindIdle
  <2> QED BY <2>1 DEF ServiceInv, Served
<1> QED BY <1>1, <1>2, <1>3, PTL DEF UserSpec

-----------------------------------------------------------------------------
(* The reference: what Run computes.                                        *)
LEMMA Induction ==
  ASSUME NEW S, 0 \in S, \A n \in Nat : n \in S => n + 1 \in S
  PROVE  Nat \subseteq S
<1> SUFFICES ASSUME Nat \ S # {} PROVE FALSE
  OBVIOUS
<1>1. PICK x \in Nat \ S : \A y \in Nat \ S : x <= y
  BY LeastElement
<1>2. x - 1 \in Nat /\ x - 1 \in S
  BY <1>1
<1> QED BY <1>1, <1>2

RunUpTo(text, count, g) ==
  g = [n \in 0 .. count |->
         IF n = 0 THEN { Loaded } ELSE UNION { Following(text, s) : s \in g[n - 1] }]

LEMMA RunExists == ASSUME NEW text, NEW count \in Nat PROVE \E g : RunUpTo(text, count, g)
<1> DEFINE S == { k \in Nat : \E g : RunUpTo(text, k, g) }
<1>1. 0 \in S
  <2>1. RunUpTo(text, 0, [n \in 0 .. 0 |-> { Loaded }])
    BY DEF RunUpTo
  <2> QED BY <2>1
<1>2. ASSUME NEW k \in Nat, k \in S PROVE k + 1 \in S
  <2>1. PICK g : RunUpTo(text, k, g)
    BY <1>2
  <2> DEFINE more == UNION { Following(text, s) : s \in g[k] }
             h == [n \in 0 .. k + 1 |-> IF n = k + 1 THEN more ELSE g[n]]
  <2>2. ASSUME NEW n \in 0 .. k + 1
        PROVE  h[n] = IF n = 0 THEN { Loaded }
                      ELSE UNION { Following(text, s) : s \in h[n - 1] }
    <3>1. CASE n = k + 1
      <4>1. h[n] = more /\ h[k] = g[k] /\ n - 1 = k /\ n # 0
        BY <3>1
      <4> HIDE DEF h
      <4> QED BY <4>1
    <3>2. CASE n # k + 1
      <4>1. n \in 0 .. k
        BY <3>2
      <4>2. g[n] = IF n = 0 THEN { Loaded } ELSE UNION { Following(text, s) : s \in g[n - 1] }
        BY <2>1, <4>1 DEF RunUpTo
      <4>3. h[n] = g[n] /\ (n # 0 => h[n - 1] = g[n - 1])
        BY <4>1
      <4> HIDE DEF h
      <4> QED BY <4>2, <4>3
    <3> QED BY <3>1, <3>2
  <2>3. h = [n \in 0 .. k + 1 |-> h[n]]
    OBVIOUS
  <2> HIDE DEF h
  <2>4. RunUpTo(text, k + 1, h)
    BY <2>2, <2>3, Zenon DEF RunUpTo
  <2> QED BY <2>4
<1> HIDE DEF S
<1>3. Nat \subseteq S
  BY <1>1, <1>2, Induction
<1> QED BY <1>3 DEF S

LEMMA RunDefined == ASSUME NEW text PROVE RunUpTo(text, Fuel, Run(text))
<1>1. \E g : g = [n \in 0 .. Fuel |-> IF n = 0 THEN { Loaded }
                                      ELSE UNION { Following(text, s) : s \in g[n - 1] }]
  <2>1. PICK g : RunUpTo(text, Fuel, g)
    BY FuelAssumption, RunExists DEF FuelAssumption
  <2> QED BY <2>1, Zenon DEF RunUpTo
<1> DEFINE run[n \in 0 .. Fuel] == IF n = 0 THEN { Loaded }
                                   ELSE UNION { Following(text, s) : s \in run[n - 1] }
<1>2. run = [n \in 0 .. Fuel |-> IF n = 0 THEN { Loaded }
                                 ELSE UNION { Following(text, s) : s \in run[n - 1] }]
  BY <1>1
<1>3. Run(text) = run
  BY DEF Run
<1> HIDE DEF run
<1> QED BY <1>2, <1>3 DEF RunUpTo

LEMMA RunIs ==
  ASSUME NEW text
  PROVE  /\ Run(text)[0] = { Loaded }
         /\ \A n \in 0 .. Fuel - 1 : 
              Run(text)[n + 1] = UNION { Following(text, s) : s \in Run(text)[n] }
<1>1. RunUpTo(text, Fuel, Run(text)) /\ Fuel \in Nat
  BY RunDefined, FuelAssumption DEF FuelAssumption
<1>2. Run(text)[0] = { Loaded }
  BY <1>1 DEF RunUpTo
<1>3. ASSUME NEW n \in 0 .. Fuel - 1
      PROVE  Run(text)[n + 1] = UNION { Following(text, s) : s \in Run(text)[n] }
  <2>1. n + 1 \in 0 .. Fuel /\ n + 1 # 0 /\ (n + 1) - 1 = n
    BY <1>1
  <2> QED BY <1>1, <2>1 DEF RunUpTo
<1> QED BY <1>2, <1>3

(* A run that has come to its end stays there, and one that has not can be  *)
(* continued if the fuel lasts to the end of every run.                     *)
LEMMA EndedStays ==
  ASSUME NEW text, NEW k \in 0 .. Fuel, NEW s \in Run(text)[k], Ended(text, s)
  PROVE  s \in Run(text)[Fuel]
<1> DEFINE S == { n \in Nat : k + n <= Fuel => s \in Run(text)[k + n] }
<1>1. Fuel \in Nat
  BY FuelAssumption DEF FuelAssumption
<1>2. 0 \in S
  <2>1. k + 0 = k
    OBVIOUS
  <2> QED BY <2>1
<1>3. ASSUME NEW n \in Nat, n \in S PROVE n + 1 \in S
  <2> SUFFICES ASSUME k + (n + 1) <= Fuel PROVE s \in Run(text)[k + (n + 1)]
    OBVIOUS
  <2>1. k + n \in 0 .. Fuel - 1 /\ k + (n + 1) = (k + n) + 1 /\ k + n <= Fuel
    BY <1>1
  <2>2. s \in Run(text)[k + n]
    BY <1>3, <2>1
  <2>3. Run(text)[(k + n) + 1] = UNION { Following(text, t) : t \in Run(text)[k + n] }
    BY <2>1, RunIs
  <2>4. s \in Following(text, s)
    BY DEF Following
  <2> QED BY <2>1, <2>2, <2>3, <2>4
<1> HIDE DEF S
<1>4. Fuel - k \in S
  <2>1. Nat \subseteq S
    BY <1>2, <1>3, Induction
  <2> QED BY <1>1, <2>1
<1> USE DEF S
<1>5. k + (Fuel - k) = Fuel
  BY <1>1
<1> QED BY <1>1, <1>4, <1>5

AllEnd(text) == \A final \in Run(text)[Fuel] : Ended(text, final)

LEMMA RunGoesOn ==
  ASSUME NEW text, AllEnd(text), NEW k \in 0 .. Fuel, NEW s \in Run(text)[k], ~Ended(text, s)
  PROVE  k + 1 \in 0 .. Fuel /\ Following(text, s) \subseteq Run(text)[k + 1]
<1>1. Fuel \in Nat
  BY FuelAssumption DEF FuelAssumption
<1>2. k # Fuel
  BY DEF AllEnd
<1>3. k \in 0 .. Fuel - 1 /\ k + 1 \in 0 .. Fuel
  BY <1>1, <1>2
<1> QED BY <1>3, RunIs

-----------------------------------------------------------------------------
(* The state of the reference as the pipeline holds it: the instruction in  *)
(* EX is the next to be executed, those in MEM and WB have been.  An        *)
(* instruction that was fetched has an address, a bubble has none.          *)
GprAfter(seg, bank) ==
  IF SigRegWrite(seg.i) /\ ~SigRegBank(seg.i) THEN [bank EXCEPT ![Dest(seg.i)] = WrittenValue(seg)]
  ELSE bank

FprAfter(seg, bank) == IF seg.i.op = "lwc1" THEN [bank EXCEPT ![seg.i.rt] = seg.word] ELSE bank

Upcoming == IF id.pc # 0 THEN id.pc - 1 ELSE pc

Held == [pc   |-> IF ex.pc # 0 THEN ex.pc - 1 ELSE Upcoming,
         gpr  |-> GprAfter(meNext, GprAfter(wb, gpr)),
         fpr  |-> FprAfter(meNext, FprAfter(wb, fpr)),
         mem  |-> memMEM,
         over |-> FALSE]

Fetches(seg) == IF seg.pc = 0 THEN seg.i = Bubble
                ELSE seg.pc - 1 \in TextAddr /\ seg.i = prog[seg.pc - 1]

OfText(i) == i = Bubble \/ \E a \in TextAddr : i = prog[a]

InOrder == /\ Fetches(id) /\ Fetches(ex) /\ OfText(me.i) /\ OfText(wb.i)
           /\ id.pc # 0 => pc = id.pc
           /\ Link(ex.i) => id.pc = 0
           /\ ex.i.op = "syscall" => id.pc \in {0, ex.pc + 1}

Uses(i) == i.op \in {"alu", "alui", "lw", "sw", "lwc1", "swc1"}

Operands == /\ Uses(ex.i) => ExA = Held.gpr[ex.i.rs]
            /\ ex.i.op \in {"alu", "sw"} => ExB = Held.gpr[ex.i.rt]
            /\ ex.i.op = "swc1" => ExB = Held.fpr[ex.i.rt]

Leads == ex.pc # 0 => Target(ex.i, Held) = Upcoming

Reached == ~MemError /\ AllEnd(prog) => \E k \in 0 .. Fuel : Held \in Run(prog)[k]

Aligned == InOrder /\ Operands /\ Leads /\ Reached

SequentialInv == FaithfulInteger => /\ ready /\ end = "none" => Aligned
                                    /\ ~ready => Sequential

(* What is known of an instruction of such a program.                       *)
Plainly(i) == /\ i.op \notin CoprocessorOp \cup {"bc1", "bc1x"} /\ ~i.dbl /\ WellFormed(i)
              /\ RegWrite(i) /\ ~FpBank(i) => RegDest(i) # 0
              /\ i.low12 => i.op \in {"nop", "lui", "syscall"}

LEMMA OfTextIs ==
  ASSUME FlexInv, FaithfulInteger
  PROVE  /\ \A i : OfText(i) => Plainly(i)
         /\ prog \in IntegerTexts /\ Integer(prog) /\ Regular(prog)
<1>1. prog \in IntegerTexts /\ Integer(prog) /\ Regular(prog)
  BY DEF FaithfulInteger, StraightTexts, IntegerTexts
<1>2. ASSUME NEW a \in TextAddr PROVE Plainly(prog[a])
  <2>1. WellFormed(prog[a]) /\ prog[a].op \notin CoprocessorOp \cup {"bc1", "bc1x"}
    BY <1>1 DEF Integer, FlexInv, ProgramFits
  <2>2. ~prog[a].dbl
    BY <2>1 DEF WellFormed
  <2> QED BY <1>1, <2>1, <2>2 DEF Plainly, Regular
<1>3. Plainly(Bubble)
  BY BasicTypes DEF Plainly, Bubble, RegWrite, CoprocessorOp, Arithmetic
<1> QED BY <1>1, <1>2, <1>3 DEF OfText

LEMMA WritesAre ==
  ASSUME NEW i, Plainly(i)
  PROVE  /\ SigRegWrite(i) <=> RegWrite(i)
         /\ SigRegBank(i) <=> FpBank(i)
         /\ SigBranch(i) <=> Branch(i)
         /\ Dest(i) = RegDest(i) /\ i.op # "fmov"
         /\ RegWrite(i) /\ FpBank(i) <=> i.op = "lwc1"
         /\ i.op = "lwc1" => RegDest(i) = i.rt /\ i.rt \in FReg
<1>1. /\ SigRegWrite(i) <=> RegWrite(i)
      /\ SigRegBank(i) <=> FpBank(i)
      /\ SigBranch(i) <=> Branch(i)
  BY Zenon DEF Plainly, SigRegWrite, SigRegBank, SigBranch, CoprocessorOp
<1>2. Dest(i) = RegDest(i) /\ i.op # "fmov"
  BY DEF Plainly, Dest, CoprocessorOp
<1>3. RegWrite(i) /\ FpBank(i) <=> i.op = "lwc1"
  BY DEF RegWrite, FpBank
<1>4. ASSUME i.op = "lwc1" PROVE RegDest(i) = i.rt /\ i.rt \in FReg
  <2>1. i.op \notin CoprocessorOp /\ SigRegBank(i)
    BY <1>4, <1>1 DEF Plainly, FpBank
  <2> QED BY <1>4, <2>1 DEF Plainly, WellFormed, RegDest, RegDstRd, Link
<1> QED BY <1>1, <1>2, <1>3, <1>4

(* Writing back, by the two halves of the register file.                    *)
LEMMA WrittenBack ==
  ASSUME FlexInv, Plainly(wb.i)
  PROVE  gprWB = GprAfter(wb, gpr) /\ fprWB = FprAfter(wb, fpr)
<1>1. gprWB = GprAfter(wb, gpr)
  BY DEF gprWB, GprAfter
<1>2. fpr \in [FReg -> Word]
  BY DEF FlexInv, FlexTypeOK
<1>3. CASE wb.i.op = "lwc1"
  <2>1. /\ SigRegWrite(wb.i) /\ SigRegBank(wb.i) /\ Dest(wb.i) = wb.i.rt /\ ~wb.i.dbl
        /\ wb.i.rt \in FReg
    BY <1>3, WritesAre DEF RegWrite, FpBank, Plainly
  <2>2. WrittenValue(wb) = wb.word
    BY <1>3 DEF WrittenValue, Link, MemRead
  <2> QED BY <1>1, <1>2, <1>3, <2>1, <2>2 DEF fprWB, FprAfter
<1>4. CASE wb.i.op # "lwc1"
  BY <1>1, <1>4, WritesAre DEF fprWB, FprAfter
<1> QED BY <1>3, <1>4

(* What an instruction in ID that is not held back gets in EX is what the   *)
(* registers hold when the instructions ahead of it have been executed.     *)
Seen(m, w, r, v, fu, fp) == IF fu THEN ForwardRegister(m, w, r, v, fp) ELSE v

Reads(m, w, next, r, bank, fu, fp) ==
  /\ next.i = m.i /\ next.alu = m.alu
  /\ bank \in [IF fp THEN FReg ELSE Reg -> Word] /\ r \in DOMAIN bank
  /\ Plainly(m.i) /\ Plainly(w.i) /\ ~Link(m.i)
  /\ WritesReg(m.i, r, fp) => fu /\ ~MemRead(m.i)
  /\ WritesReg(w.i, r, fp) => fu

SeesGpr(m, w, next, r, bank, fu) ==
  Seen(m, w, r, bank[r], fu, FALSE) = GprAfter(next, GprAfter(w, bank))[r]

LEMMA ReadGpr ==
  ASSUME NEW m, NEW w, NEW next, NEW r, NEW bank, NEW fu, Reads(m, w, next, r, bank, fu, FALSE)
  PROVE  SeesGpr(m, w, next, r, bank, fu)
<1> USE DEF Reads
<1>1. /\ SigRegWrite(m.i) /\ ~SigRegBank(m.i) => Dest(m.i) # 0
      /\ SigRegWrite(w.i) /\ ~SigRegBank(w.i) => Dest(w.i) # 0
  BY WritesAre DEF Plainly
<1>2. GprAfter(w, bank)[r] = IF WritesReg(w.i, r, FALSE) THEN WrittenValue(w) ELSE bank[r]
  BY DEF GprAfter, WritesReg
<1>3. /\ DOMAIN GprAfter(w, bank) = Reg
      /\ GprAfter(next, GprAfter(w, bank))[r]
           = IF WritesReg(m.i, r, FALSE) THEN WrittenValue(next) ELSE GprAfter(w, bank)[r]
  BY DEF GprAfter, WritesReg
<1>4. ~MemRead(m.i) => WrittenValue(next) = m.alu
  BY DEF WrittenValue
<1>5. r = 0 => ~WritesReg(m.i, r, FALSE) /\ ~WritesReg(w.i, r, FALSE)
  BY <1>1 DEF WritesReg
<1> QED BY <1>2, <1>3, <1>4, <1>5 DEF ForwardRegister, Seen, SeesGpr

SeesFpr(m, w, next, r, bank, fu) ==
  Seen(m, w, r, bank[r], fu, TRUE) = FprAfter(next, FprAfter(w, bank))[r]

LEMMA ReadFpr ==
  ASSUME NEW m, NEW w, NEW next, NEW r, NEW bank, NEW fu, Reads(m, w, next, r, bank, fu, TRUE)
  PROVE  SeesFpr(m, w, next, r, bank, fu)
<1> USE DEF Reads
<1>1. ASSUME NEW s, Plainly(s.i)
      PROVE  WritesReg(s.i, r, TRUE) <=> s.i.op = "lwc1" /\ s.i.rt = r
  BY <1>1, WritesAre DEF WritesReg, RegWrite, FpBank
<1>2. ~WritesReg(m.i, r, TRUE)
  BY <1>1 DEF MemRead
<1>3. FprAfter(w, bank)[r] = IF WritesReg(w.i, r, TRUE) THEN w.word ELSE bank[r]
  BY <1>1 DEF FprAfter
<1>4. FprAfter(next, FprAfter(w, bank))[r] = FprAfter(w, bank)[r]
  BY <1>1, <1>2 DEF FprAfter
<1>5. WritesReg(w.i, r, TRUE) => WrittenValue(w) = w.word
  BY <1>1 DEF WrittenValue, MemRead, Link
<1> QED BY <1>2, <1>3, <1>4, <1>5 DEF ForwardRegister, Seen, SeesFpr

-----------------------------------------------------------------------------
(* What a cycle of such a program moves.                                    *)
Goes == Target(id.i, [pc |-> id.pc - 1, gpr |-> gprWB])

LEMMA BubbleIs == Empty.i = Bubble /\ Empty.pc = 0 /\ Bubble.op = "nop" /\ ~Branch(Bubble)
BY DEF Empty, Bubble, Branch

LEMMA BehindText ==
  ASSUME NEW a \in Word, a - 1 \in TextAddr
  PROVE  Minus(a, 1) = a - 1 /\ Plus(a - 1, 1) = a
<1>1. a \in Int /\ a - 1 \in 0 .. WordSize - 1 /\ WordSize \in Nat
  BY BasicTypes, WordSizeAssumption DEF WordSizeAssumption, Word
<1>2. Minus(a, 1) = a - 1
  BY <1>1 DEF Minus
<1>3. Plus(a - 1, 1) = (a - 1) + 1
  BY NextInText
<1> QED BY <1>1, <1>2, <1>3

LEMMA NoBranchInMEM ==
  ASSUME FlexInv, FaithfulInteger, OfText(me.i)
  PROVE  ~BranchInMEM
<1> SUFFICES ASSUME status.stage = "MEM", SigBranch(me.i) PROVE FALSE
  BY DEF BranchInMEM
<1>1. prog \in StraightTexts
  BY DEF FaithfulInteger
<1>2. Branch(me.i)
  BY OfTextIs, WritesAre
<1> QED BY <1>1, <1>2, BubbleIs DEF StraightTexts, Branchless, OfText

LEMMA BranchLeads ==
  ASSUME FlexInv, FaithfulInteger, InOrder, ~IsFp, NEW f, NEW garbled, ~Stall(f, garbled),
         Branch(id.i)
  PROVE  /\ id.pc - 1 \in TextAddr /\ pc = id.pc /\ id.pc \in Word
         /\ status.stage = "ID" /\ status.type # "delayed"
         /\ status.fu => id.i.op \notin {"jr", "jalr"}
         /\ FlushInID(f, garbled) <=> Flushes(TakenInID(f, garbled))
         /\ TakenInID(f, garbled) =>
              /\ pcSrcID(f, garbled) \in {"cbranch", "jump"}
              /\ idTargetID(f, garbled) = Goes
         /\ ~TakenInID(f, garbled) =>
              pcSrcID(f, garbled) = "next" /\ Goes = id.pc /\ ~Link(id.i)
<1>1. id.i # Bubble /\ Fetches(id)
  BY BubbleIs DEF InOrder
<1>2. id.pc - 1 \in TextAddr /\ pc = id.pc /\ id.i = prog[id.pc - 1]
  BY <1>1 DEF InOrder, Fetches
<1>3. id.pc \in Word
  BY DEF FlexInv, FlexTypeOK, SegReg
<1>4. /\ status.stage = "ID" /\ status.type # "delayed"
      /\ status.fu => id.i.op \notin {"jr", "jalr"}
  <2>1. prog \notin StraightTexts
    BY <1>2 DEF StraightTexts, Branchless
  <2>2. id.i.op \in {"jr", "jalr"} => prog \in JumpingTexts
    BY <1>2, OfTextIs DEF JumpingTexts, JumpsToRegister
  <2> QED BY <2>1, <2>2 DEF FaithfulInteger
<1>5. ~IsBc1(id.i)
  BY DEF IsBc1, Branch
<1>6. BranchInID(f, garbled)
  BY DEF BranchInID
<1>7. (id.pc - 1) + 1 = id.pc
  BY <1>3 DEF Word
<1>8. /\ Conditional(id.i) =>
           Goes = IF Taken(id.i, gprWB[id.i.rs], gprWB[id.i.rt]) THEN Plus(id.pc, id.i.imm)
                  ELSE id.pc
      /\ id.i.op \in {"jr", "jalr"} => Goes = gprWB[id.i.rs]
      /\ id.i.op \in {"j", "jal"} => Goes = id.i.imm
  BY <1>7 DEF Goes, Target, Conditional, Branch
<1>9. TakenInID(f, garbled) <=>
        (Conditional(id.i) => Taken(id.i, gprWB[id.i.rs], gprWB[id.i.rt]))
  BY <1>4, <1>5, <1>6 DEF TakenInID
<1>10. ASSUME TakenInID(f, garbled)
       PROVE  /\ pcSrcID(f, garbled) \in {"cbranch", "jump"}
              /\ idTargetID(f, garbled) = Goes
  <2>1. pcSrcID(f, garbled) \in {"cbranch", "jump"}
    BY <1>10 DEF pcSrcID, SourceKept
  <2>2. CASE Conditional(id.i)
    <3>1. Goes = Plus(id.pc, id.i.imm)
      BY <1>8, <1>9, <1>10, <2>2
    <3>2. idTargetID(f, garbled) = Plus(id.pc, id.i.imm)
      BY <1>6, <2>2 DEF idTargetID, ResolvedInID, Conditional
    <3> QED BY <2>1, <3>1, <3>2
  <2>3. CASE id.i.op \in {"jr", "jalr"}
    <3>1. idTargetID(f, garbled) = gprWB[id.i.rs]
      BY <1>5, <1>6, <2>3 DEF idTargetID, ResolvedInID, Conditional
    <3> QED BY <1>8, <2>1, <2>3, <3>1
  <2>4. CASE id.i.op \in {"j", "jal"}
    <3>1. idTargetID(f, garbled) = id.i.imm
      BY <1>5, <1>6, <2>4 DEF idTargetID, ResolvedInID, Conditional
    <3> QED BY <1>8, <2>1, <2>4, <3>1
  <2> QED BY <2>1, <2>2, <2>3, <2>4 DEF Branch, Conditional
<1>11. ASSUME ~TakenInID(f, garbled)
       PROVE  pcSrcID(f, garbled) = "next" /\ Goes = id.pc /\ ~Link(id.i)
  <2>1. pcSrcID(f, garbled) = "next"
    BY <1>11 DEF pcSrcID, SourceKept
  <2> QED BY <1>8, <1>9, <1>11, <2>1 DEF Link, Conditional
<1>12. FlushInID(f, garbled) <=> Flushes(TakenInID(f, garbled))
  BY <1>6 DEF FlushInID
<1> QED BY <1>2, <1>3, <1>4, <1>10, <1>11, <1>12

Moves(f, garbled) ==
  /\ ~IsFp /\ ~StallEX(f) /\ Executed(f, garbled) /\ ~MemError
  /\ ex' = idNext(f, garbled) /\ me' = exTmpEX(f) /\ wb' = meNext
  /\ fpr' = fprWB /\ mem' = memMEM
  /\ prog' = prog /\ status' = status
  /\ \/ Stall(f, garbled) /\ id' = id /\ pc' = pc
     \/ ~Stall(f, garbled) /\ Branch(id.i) /\ id' = Empty /\ pc' = Goes
     \/ /\ ~Stall(f, garbled) /\ pc \in TextAddr
        /\ id'.i = prog[pc] /\ id'.pc = pc + 1 /\ pc' = pc + 1
        /\ Branch(id.i) => Goes = pc /\ ~Link(id.i)

LEMMA IntegerMoves ==
  ASSUME FlexInv, FaithfulInteger, InOrder, PlainStages, ~fpStall,
         NEW work \in { Worked(g) : g \in Garbage }, NEW garbled,
         Complete(work.fpu, work.out, garbled)
  PROVE  Moves(work.fpu, garbled)
<1> DEFINE f == work.fpu
           out == work.out
<1>1. Departs(fpu, f, out)
  BY WorkedIs
<1>2. ~Returns(out)
  BY <1>1, NothingReturns DEF PlainStages
<1> HIDE DEF f, out
<1>3. /\ Executed(f, garbled) /\ ~MemError /\ ~IfThrows(f, garbled) /\ Cycle(f, "none")
      /\ mem' = memMEM /\ pc' = pcNext(f, garbled) /\ Advance(f, out, garbled)
  BY DEF Complete, f, out
<1>4. ~IsFp /\ FpUnit(f) = "none" /\ ~StallEX(f)
  BY DEF PlainStages, Plain, IsFp, FpUnit, StallEX
<1>5. ~BranchInMEM
  BY NoBranchInMEM DEF InOrder
<1>6. /\ FlushSignal(f, garbled) = IF FlushInID(f, garbled) THEN 1 ELSE 0
      /\ pcMEM(f, garbled) = pcID(f, garbled)
      /\ pcNext(f, garbled) = pcIF(f, garbled)
  BY <1>5 DEF FlushSignal, FlushInMEM, pcMEM, pcNext
<1>7. meMoved(f, out) = exTmpEX(f)
  BY <1>2, <1>4, ExecutedIs DEF meMoved
<1>8. IntoEX(f, out)
  BY <1>2, <1>4, <1>7 DEF IntoEX
<1>9. IntoID(f, out, garbled) <=> ~Stall(f, garbled)
  BY <1>2, <1>4, <1>8 DEF IntoID
<1>10. /\ ex' = idNext(f, garbled) /\ me' = exTmpEX(f) /\ wb' = meNext
       /\ id' = IF FlushInID(f, garbled) THEN Empty
                ELSE IF Stall(f, garbled) THEN id ELSE ifNextIF(f, garbled)
  BY <1>3, <1>6, <1>7, <1>8, <1>9 DEF Advance, exMoved, idMoved
<1>11. CASE Stall(f, garbled)
  <2>1. ~BranchInID(f, garbled)
    BY <1>4, <1>11 DEF BranchInID
  <2>2. ~FlushInID(f, garbled) /\ pcID(f, garbled) = pc
    BY <2>1 DEF FlushInID, pcID
  <2>3. pcIF(f, garbled) = pc
    BY <1>6, <1>11, <2>2 DEF pcIF, IfAdvances
  <2> QED BY <1>3, <1>4, <1>6, <1>10, <1>11, <2>2, <2>3 DEF Cycle, Moves, f
<1>12. ASSUME ~Stall(f, garbled)
       PROVE  /\ ifNextIF(f, garbled) = Fetched(f, garbled)
              /\ pc' = NextAddress(f, garbled)
              /\ pcID(f, garbled) \in TextAddr
              /\ pcSrcID(f, garbled) = "next" => pc' = Plus(pcID(f, garbled), 1)
  <2>1. ifNextIF(f, garbled) = Fetched(f, garbled) /\ pc' = NextAddress(f, garbled)
    BY <1>3, <1>4, <1>6, <1>12 DEF ifNextIF, ifTmpIF, IfAdvances, pcIF
  <2> QED BY <1>3, <1>4, <1>6, <2>1 DEF IfThrows, NextAddress
<1>13. ASSUME ~Stall(f, garbled), pcID(f, garbled) = pc, pcSrcID(f, garbled) = "next",
              ~FlushInID(f, garbled)
       PROVE  /\ pc \in TextAddr
              /\ id'.i = prog[pc] /\ id'.pc = pc + 1 /\ pc' = pc + 1
  <2>1. pc \in TextAddr /\ pc' = pc + 1
    BY <1>12, <1>13, NextInText
  <2>2. pcIF(f, garbled) = pc'
    BY <1>3, <1>6
  <2>3. id'.i = prog[pc] /\ id'.pc = pc'
    BY <1>6, <1>10, <1>12, <1>13, <2>2 DEF Fetched, Empty
  <2> QED BY <2>1, <2>3
<1>14. CASE ~Stall(f, garbled) /\ ~Branch(id.i)
  <2>1. ~IsBc1(id.i)
    <3>1. Plainly(id.i)
      BY OfTextIs DEF InOrder, Fetches, OfText
    <3> QED BY <3>1 DEF Plainly, IsBc1
  <2>2. ~BranchInID(f, garbled)
    BY <1>14, <2>1 DEF BranchInID
  <2>3. ~FlushInID(f, garbled) /\ pcID(f, garbled) = pc /\ pcSrcID(f, garbled) = "next"
    BY <1>4, <1>14, <2>2 DEF FlushInID, pcID, pcSrcID, SourceKept, TakenInID
  <2> QED BY <1>3, <1>4, <1>10, <1>13, <1>14, <2>3 DEF Cycle, Moves, f
<1>15. CASE ~Stall(f, garbled) /\ Branch(id.i)
  <2> DEFINE taken == TakenInID(f, garbled)
  <2>1. /\ id.pc - 1 \in TextAddr /\ pc = id.pc /\ id.pc \in Word
        /\ status.stage = "ID" /\ status.type # "delayed"
        /\ FlushInID(f, garbled) <=> Flushes(taken)
        /\ taken => /\ pcSrcID(f, garbled) \in {"cbranch", "jump"}
                    /\ idTargetID(f, garbled) = Goes
        /\ ~taken => pcSrcID(f, garbled) = "next" /\ Goes = id.pc /\ ~Link(id.i)
    BY <1>4, <1>15, BranchLeads
  <2>2. status.type \in {"non_taken", "flush"}
    BY <2>1 DEF FlexInv, FlexTypeOK, Status, BranchType
  <2> HIDE DEF taken
  <2>3. CASE taken
    <3>1. FlushInID(f, garbled)
      BY <2>1, <2>2, <2>3 DEF Flushes
    <3>2. NextAddress(f, garbled) = Goes
      BY <2>1, <2>3 DEF NextAddress
    <3> QED BY <1>3, <1>4, <1>10, <1>12, <1>15, <3>1, <3>2 DEF Cycle, Moves, f
  <2>4. CASE ~taken /\ FlushInID(f, garbled)
    <3>1. pcID(f, garbled) = id.pc - 1
      BY <2>1, <2>4, BehindText DEF pcID, taken
    <3>2. pc' = id.pc
      BY <1>12, <1>15, <2>1, <2>4, <3>1, BehindText
    <3> QED BY <1>3, <1>4, <1>10, <1>15, <2>1, <2>4, <3>2 DEF Cycle, Moves, f
  <2>5. CASE ~taken /\ ~FlushInID(f, garbled)
    <3>1. pcID(f, garbled) = pc
      BY <2>5 DEF pcID
    <3> QED BY <1>3, <1>4, <1>10, <1>13, <1>15, <2>1, <2>5, <3>1 DEF Cycle, Moves, f
  <2> QED BY <2>3, <2>4, <2>5
<1> QED BY <1>11, <1>14, <1>15 DEF f

(* An instruction that ID lets go has its operands, or they can be          *)
(* forwarded to it.                                                         *)
LEMMA NoHazard ==
  ASSUME FlexInv, FaithfulInteger, Plainly(id.i), ~IsFp, NEW f, NEW garbled, ~Stall(f, garbled),
         id.i.op \notin {"nop", "lui", "syscall"}
  PROVE  /\ ~DetectHazard(ex, me, id.i.rs, CanForward, FALSE)
         /\ ReadsRt(id.i) /\ id.i.op # "swc1" =>
              ~DetectHazard(ex, me, id.i.rt, CanForward, FALSE)
         /\ id.i.op = "swc1" => ~DetectHazard(ex, me, id.i.rt, CanForward, TRUE)
<1>1. ~id.i.low12 /\ status.hdu
  BY DEF Plainly, FaithfulInteger
<1>2. ~OperandWaits(f)
  BY <1>1 DEF Stall, IntegerWaits
<1>3. id.i.op = "swc1" => ReadsRt(id.i)
  BY DEF ReadsRt, MemWrite
<1> QED BY <1>1, <1>2, <1>3 DEF OperandWaits, DetectFpuHazard

(* The answer of a service is not what the instruction behind the call      *)
(* reads, which ID has read it for already.                                 *)
LEMMA AnswersMiss ==
  ASSUME FlexInv, FaithfulInteger, InOrder, NEW f, gpr' \in GprEX(f), id.pc # 0
  PROVE  /\ gpr'[id.i.rs] = gprWB[id.i.rs]
         /\ ReadsRt(id.i) => gpr'[id.i.rt] = gprWB[id.i.rt]
<1>1. CASE Serves(f) /\ Service \in DOMAIN Result
  <2>1. ex.i.op = "syscall" /\ ex.i # Bubble
    BY <1>1, BubbleIs DEF Serves
  <2>2. /\ ex.pc - 1 \in TextAddr /\ ex.i = prog[ex.pc - 1] /\ id.pc = ex.pc + 1
        /\ id.pc - 1 \in TextAddr /\ id.i = prog[id.pc - 1]
    BY <2>1 DEF InOrder, Fetches
  <2>3. id.pc \in Int /\ ex.pc \in Int /\ TextStart \in Int /\ TextEnd \in Int
    BY WordSizeAssumption, TextAssumption DEF FlexInv, FlexTypeOK, SegReg, Word, WordSizeAssumption, TextAssumption
  <2>4. /\ ex.pc - 1 \in TextStart .. TextEnd - 1 /\ (ex.pc - 1) + 1 = ex.pc
        /\ id.pc - 1 = ex.pc
    BY <2>2, <2>3 DEF TextAddr
  <2>5. /\ id.i.rs # Result[Service]
        /\ ReadsRt(id.i) => id.i.rt # Result[Service]
    BY <1>1, <2>1, <2>2, <2>4, OfTextIs DEF Regular
  <2>6. PICK v \in Inputs : gpr' = [gprWB EXCEPT ![Result[Service]] = v]
    BY <1>1 DEF GprEX
  <2> QED BY <2>5, <2>6
<1>2. CASE ~(Serves(f) /\ Service \in DOMAIN Result)
  BY <1>2 DEF GprEX
<1> QED BY <1>1, <1>2

LEMMA OrderIsKept ==
  ASSUME FlexInv, InOrder, NEW f, NEW garbled, Moves(f, garbled)
  PROVE  InOrder'
<1>1. prog' = prog
  BY DEF Moves
<1>2. OfText(ex.i)
  BY DEF InOrder, Fetches, OfText
<1>3. OfText(me'.i)
  <2>1. me'.i = ex.i \/ me'.i = Bubble
    BY BubbleIs, ExecutedIs DEF Moves
  <2> QED BY <1>2, <2>1 DEF OfText
<1>4. OfText(wb'.i)
  <2>1. wb'.i = me.i
    BY DEF Moves, meNext
  <2> QED BY <2>1 DEF InOrder
<1>5. OfText(me.i)' /\ OfText(wb.i)'
  BY <1>1, <1>3, <1>4 DEF OfText
<1>6. /\ Stall(f, garbled) => ex' = Empty
      /\ ~Stall(f, garbled) => ex'.i = id.i /\ ex'.pc = id.pc
  BY DEF Moves, idNext, Empty
<1>7. Fetches(ex)'
  BY <1>1, <1>6, BubbleIs DEF InOrder, Fetches
<1>8. Empty.i.op = "nop" /\ ~Link(Empty.i) /\ Empty.i = Bubble /\ Empty.pc = 0
  BY BubbleIs DEF Link
<1>9. CASE Stall(f, garbled)
  <2>1. id' = id /\ pc' = pc /\ ex' = Empty
    BY <1>6, <1>9 DEF Moves
  <2> QED BY <1>1, <1>5, <1>7, <1>8, <2>1 DEF InOrder, Fetches
<1>10. CASE id' = Empty
  BY <1>1, <1>5, <1>7, <1>8, <1>10 DEF InOrder, Fetches
<1>11. CASE /\ ~Stall(f, garbled) /\ pc \in TextAddr
            /\ id'.i = prog[pc] /\ id'.pc = pc + 1 /\ pc' = pc + 1
            /\ Branch(id.i) => Goes = pc /\ ~Link(id.i)
  <2>1. pc \in Nat
    BY <1>11, BasicTypes DEF Word
  <2>2. Fetches(id)'
    <3>1. id'.pc # 0 /\ id'.pc - 1 = pc
      BY <1>11, <2>1
    <3> QED BY <1>1, <1>11, <3>1 DEF Fetches
  <2>3. ~Link(ex'.i)
    BY <1>6, <1>11 DEF Link, Branch
  <2>4. ASSUME ex'.i.op = "syscall" PROVE id'.pc = ex'.pc + 1
    <3>1. id.pc # 0
      BY <1>6, <1>11, <2>4, BubbleIs DEF InOrder, Fetches
    <3> QED BY <1>6, <1>11, <3>1 DEF InOrder
  <2> QED BY <1>5, <1>7, <1>11, <2>2, <2>3, <2>4 DEF InOrder
<1> QED BY <1>9, <1>10, <1>11 DEF Moves

(* What ID has read, with what can be forwarded, is what the registers will *)
(* hold when the instruction is the next to be executed.                    *)
LEMMA ReadInID ==
  ASSUME FlexInv, FlexInv', FaithfulInteger, InOrder, NEW f, NEW garbled, Moves(f, garbled),
         id.pc # 0, ~Link(ex.i), NEW r \in Reg, gpr'[r] = gprWB[r],
         ~DetectHazard(ex, me, r, CanForward, FALSE), NEW fu \in BOOLEAN, CanForward => fu
  PROVE  (IF fu THEN ForwardRegister(me', wb', r, gprWB[r], FALSE) ELSE gprWB[r]) = Held'.gpr[r]
<1>1. me' \in SegReg /\ wb' \in SegReg /\ gpr' \in [Reg -> Word]
  BY DEF FlexInv, FlexTypeOK
<1>2. /\ meNext'.i = me'.i /\ meNext'.alu = me'.alu
      /\ wb'.i = me.i
  BY <1>1 DEF Moves, meNext, SegReg
<1>3. me'.i = ex.i \/ me'.i = Bubble
  BY BubbleIs, ExecutedIs DEF Moves
<1>4. Plainly(ex.i) /\ Plainly(me.i) /\ Plainly(Bubble)
  BY OfTextIs DEF InOrder, Fetches, OfText
<1>5. ~Link(Bubble) /\ ~WritesReg(Bubble, r, FALSE)
  BY <1>4, WritesAre, BubbleIs DEF Link, WritesReg, RegWrite
<1>6. /\ WritesReg(ex.i, r, FALSE) => fu /\ ~MemRead(ex.i)
      /\ WritesReg(me.i, r, FALSE) => fu
  BY DEF DetectHazard
<1>7. /\ Plainly(me'.i) /\ Plainly(wb'.i) /\ ~Link(me'.i)
      /\ WritesReg(me'.i, r, FALSE) => fu /\ ~MemRead(me'.i)
      /\ WritesReg(wb'.i, r, FALSE) => fu
  BY <1>2, <1>3, <1>4, <1>5, <1>6
<1> DEFINE m == me'
           w == wb'
           next == meNext'
           bank == gpr'
<1> HIDE DEF m, w, next, bank
<1>8. Seen(m, w, r, bank[r], fu, FALSE)
         = GprAfter(next, GprAfter(w, bank))[r]
  <2>1. bank \in [Reg -> Word]
    BY <1>1 DEF bank
  <2>2. next.i = m.i /\ next.alu = m.alu
    BY <1>2 DEF m, next
  <2>3. /\ Plainly(m.i) /\ Plainly(w.i) /\ ~Link(m.i)
        /\ WritesReg(m.i, r, FALSE) => fu /\ ~MemRead(m.i)
        /\ WritesReg(w.i, r, FALSE) => fu
    BY <1>7 DEF m, w
  <2>4. Reads(m, w, next, r, bank, fu, FALSE)
    BY <2>1, <2>2, <2>3 DEF Reads
  <2>5. SeesGpr(m, w, next, r, bank, fu)
    BY <2>4, ReadGpr
  <2> QED BY <2>5 DEF SeesGpr
<1>9. Held'.gpr = GprAfter(next, GprAfter(w, bank))
  BY DEF Held, m, w, next, bank, GprAfter
<1>10. bank[r] = gprWB[r]
  BY DEF bank
<1> QED BY <1>8, <1>9, <1>10 DEF m, w, Seen

LEMMA FloatReadInID ==
  ASSUME FlexInv, FlexInv', FaithfulInteger, InOrder, NEW f, NEW garbled, Moves(f, garbled),
         ~Link(ex.i), NEW r \in FReg, ~DetectHazard(ex, me, r, CanForward, TRUE),
         NEW fu \in BOOLEAN, CanForward => fu
  PROVE  (IF fu THEN ForwardRegister(me', wb', r, fprWB[r], TRUE) ELSE fprWB[r]) = Held'.fpr[r]
<1>1. me' \in SegReg /\ wb' \in SegReg /\ fpr' \in [FReg -> Word] /\ fpr' = fprWB
  BY DEF FlexInv, FlexTypeOK, Moves
<1>2. /\ meNext'.i = me'.i /\ meNext'.alu = me'.alu
      /\ wb'.i = me.i
  BY <1>1 DEF Moves, meNext, SegReg
<1>3. me'.i = ex.i \/ me'.i = Bubble
  BY BubbleIs, ExecutedIs DEF Moves
<1>4. Plainly(ex.i) /\ Plainly(me.i) /\ Plainly(Bubble)
  BY OfTextIs DEF InOrder, Fetches, OfText
<1>5. ~Link(Bubble) /\ ~WritesReg(Bubble, r, TRUE)
  BY <1>4, WritesAre, BubbleIs DEF Link, WritesReg, RegWrite
<1>6. /\ WritesReg(ex.i, r, TRUE) => fu /\ ~MemRead(ex.i)
      /\ WritesReg(me.i, r, TRUE) => fu
  BY DEF DetectHazard
<1>7. /\ Plainly(me'.i) /\ Plainly(wb'.i) /\ ~Link(me'.i)
      /\ WritesReg(me'.i, r, TRUE) => fu /\ ~MemRead(me'.i)
      /\ WritesReg(wb'.i, r, TRUE) => fu
  BY <1>2, <1>3, <1>4, <1>5, <1>6
<1> DEFINE m == me'
           w == wb'
           next == meNext'
           bank == fpr'
<1> HIDE DEF m, w, next, bank
<1>8. Seen(m, w, r, bank[r], fu, TRUE)
         = FprAfter(next, FprAfter(w, bank))[r]
  <2>1. bank \in [FReg -> Word] /\ ~Link(m.i)
    BY <1>1, <1>7 DEF bank, m
  <2>2. next.i = m.i /\ next.alu = m.alu
    BY <1>2 DEF m, next
  <2>3. /\ Plainly(m.i) /\ Plainly(w.i)
        /\ WritesReg(m.i, r, TRUE) => fu /\ ~MemRead(m.i)
        /\ WritesReg(w.i, r, TRUE) => fu
    BY <1>7 DEF m, w
  <2>4. Reads(m, w, next, r, bank, fu, TRUE)
    BY <2>1, <2>2, <2>3 DEF Reads
  <2>5. SeesFpr(m, w, next, r, bank, fu)
    BY <2>4, ReadFpr
  <2> QED BY <2>5 DEF SeesFpr
<1>9. Held'.fpr = FprAfter(next, FprAfter(w, bank))
  BY DEF Held, m, w, next, bank, FprAfter
<1>10. bank[r] = fprWB[r]
  BY <1>1 DEF bank
<1> QED BY <1>8, <1>9, <1>10 DEF m, w, Seen

LEMMA AddressesMove ==
  ASSUME FlexInv, InOrder, NEW f, NEW garbled, Moves(f, garbled)
  PROVE  Held'.pc = Upcoming
<1>1. /\ Stall(f, garbled) => ex'.pc = 0
      /\ ~Stall(f, garbled) => ex'.pc = id.pc
  BY DEF Moves, idNext, Empty
<1>2. Held'.pc = IF ex'.pc # 0 THEN ex'.pc - 1 ELSE IF id'.pc # 0 THEN id'.pc - 1 ELSE pc'
  BY DEF Held, Upcoming
<1>3. CASE Stall(f, garbled)
  BY <1>1, <1>2, <1>3 DEF Moves, Upcoming
<1>4. CASE ~Stall(f, garbled) /\ id.pc # 0
  BY <1>1, <1>2, <1>4 DEF Upcoming
<1>5. CASE ~Stall(f, garbled) /\ id.pc = 0
  <2>1. ~Branch(id.i)
    BY <1>5, BubbleIs DEF InOrder, Fetches
  <2>2. pc \in TextAddr /\ id'.pc = pc + 1
    BY <1>5, <2>1 DEF Moves
  <2>3. pc \in Nat
    BY <2>2, BasicTypes DEF Word
  <2> QED BY <1>1, <1>2, <1>5, <2>2, <2>3 DEF Upcoming
<1> QED BY <1>3, <1>4, <1>5

LEMMA LeadsIsKept ==
  ASSUME FlexInv, FlexInv', FaithfulInteger, InOrder, NEW f, NEW garbled, Moves(f, garbled)
  PROVE  Leads'
<1> SUFFICES ASSUME ex'.pc # 0 PROVE Target(ex'.i, Held') = Upcoming'
  BY DEF Leads
<1>1. ~Stall(f, garbled) /\ ex'.pc = id.pc /\ ex'.i = id.i /\ id.pc # 0 /\ ~IsFp
  BY DEF Moves, idNext, Empty
<1>2. Held'.pc = id.pc - 1 /\ pc = id.pc /\ id.pc - 1 \in TextAddr /\ id.i = prog[id.pc - 1]
  BY <1>1, AddressesMove DEF Upcoming, InOrder, Fetches
<1>3. ~Link(ex.i)
  BY <1>1 DEF InOrder
<1>4. id.pc \in Nat /\ (id.pc - 1) + 1 = id.pc
  BY DEF FlexInv, FlexTypeOK, SegReg, Word
<1>5. CASE ~Branch(id.i)
  <2>1. Target(id.i, Held') = Held'.pc + 1
    BY <1>5 DEF Target, Branch, Conditional
  <2>2. id'.pc = pc + 1
    BY <1>1, <1>5 DEF Moves
  <2>3. Upcoming' = pc
    BY <1>2, <1>4, <2>2 DEF Upcoming
  <2> QED BY <1>1, <1>2, <1>4, <2>1, <2>3
<1>6. CASE Branch(id.i)
  <2>1. Upcoming' = Goes
    <3>1. CASE id' = Empty /\ pc' = Goes
      BY <3>1, BubbleIs DEF Upcoming
    <3>2. CASE id'.pc = pc + 1 /\ Goes = pc
      BY <1>2, <1>4, <3>2 DEF Upcoming
    <3> QED BY <1>1, <1>6, <3>1, <3>2 DEF Moves
  <2>2. status.stage = "ID" /\ (status.fu => id.i.op \notin {"jr", "jalr"})
    BY <1>1, <1>6, BranchLeads
  <2>3. Plainly(id.i)
    BY <1>2, OfTextIs DEF OfText
  <2>4. gpr' \in GprEX(f)
    BY DEF Moves, Executed
  <2>5. /\ gpr'[id.i.rs] = gprWB[id.i.rs]
        /\ ReadsRt(id.i) => gpr'[id.i.rt] = gprWB[id.i.rt]
    BY <1>1, <2>4, AnswersMiss
  <2>6. ReadsRt(id.i) /\ id.i.op \notin {"nop", "lui", "syscall", "swc1"}
    BY <1>6 DEF Branch, ReadsRt, AluSrc
  <2>7. /\ ~DetectHazard(ex, me, id.i.rs, CanForward, FALSE)
        /\ ~DetectHazard(ex, me, id.i.rt, CanForward, FALSE)
    BY <1>1, <2>3, <2>6, NoHazard
  <2>8. id.i.rs \in Reg /\ id.i.rt \in Reg
    <3>1. ~SigRegBank(id.i)
      BY <1>6, <2>3, WritesAre DEF FpBank, Branch
    <3> QED BY <2>3, <3>1 DEF Plainly, WellFormed
  <2>9. Conditional(id.i) \/ id.i.op \in {"jr", "jalr"} => ~CanForward
    BY <2>2 DEF CanForward, ResolvedInID
  <2>10. Conditional(id.i) \/ id.i.op \in {"jr", "jalr"} =>
           gprWB[id.i.rs] = Held'.gpr[id.i.rs] /\ gprWB[id.i.rt] = Held'.gpr[id.i.rt]
    <3> SUFFICES ASSUME ~CanForward
                 PROVE  gprWB[id.i.rs] = Held'.gpr[id.i.rs] /\ gprWB[id.i.rt] = Held'.gpr[id.i.rt]
      BY <2>9
    <3>1. ASSUME NEW r \in Reg, gpr'[r] = gprWB[r], ~DetectHazard(ex, me, r, CanForward, FALSE)
          PROVE  gprWB[r] = Held'.gpr[r]
      <4> DEFINE fu == FALSE
      <4>1. fu \in BOOLEAN /\ (CanForward => fu)
        OBVIOUS
      <4>2. (IF fu THEN ForwardRegister(me', wb', r, gprWB[r], FALSE) ELSE gprWB[r])
              = Held'.gpr[r]
        <5> HIDE DEF fu
        <5> QED BY <1>1, <1>3, <3>1, <4>1, ReadInID
      <4> QED BY <4>2
    <3> QED BY <2>5, <2>6, <2>7, <2>8, <3>1
  <2>11. Target(id.i, Held') = Goes
    <3> DEFINE now == [pc |-> id.pc - 1, gpr |-> gprWB]
               then == Held'
    <3>1. now.pc = then.pc /\ now.gpr = gprWB
      BY <1>2
    <3>2. Conditional(id.i) \/ id.i.op \in {"jr", "jalr"} =>
            now.gpr[id.i.rs] = then.gpr[id.i.rs] /\ now.gpr[id.i.rt] = then.gpr[id.i.rt]
      BY <2>10, <3>1
    <3> HIDE DEF now, then
    <3>3. ASSUME Conditional(id.i) PROVE Target(id.i, then) = Target(id.i, now)
      BY <3>1, <3>2, <3>3 DEF Target, Conditional
    <3>4. ASSUME id.i.op \in {"jr", "jalr"} PROVE Target(id.i, then) = Target(id.i, now)
      BY <3>1, <3>2, <3>4 DEF Target, Conditional, Branch
    <3>5. ASSUME id.i.op \in {"j", "jal"} PROVE Target(id.i, then) = Target(id.i, now)
      BY <3>5 DEF Target, Conditional, Branch
    <3>6. Target(id.i, then) = Target(id.i, now)
      BY <1>6, <3>3, <3>4, <3>5 DEF Branch, Conditional
    <3> QED BY <3>6 DEF Goes, now, then
  <2> QED BY <1>1, <2>1, <2>11
<1> QED BY <1>5, <1>6

LEMMA OperandsAreKept ==
  ASSUME FlexInv, FlexInv', FaithfulInteger, InOrder, NEW f, NEW garbled, Moves(f, garbled)
  PROVE  Operands'
<1>1. CASE ~Uses(ex'.i)
  BY <1>1 DEF Operands, Uses
<1>2. CASE Uses(ex'.i)
  <2>1. /\ ~Stall(f, garbled) /\ ex'.i = id.i /\ ~IsFp
        /\ ex'.a = gprWB[id.i.rs]
        /\ ex'.b = IF SigRegBank(id.i) THEN fprWB[id.i.rt] ELSE gprWB[id.i.rt]
    BY <1>2, BubbleIs DEF Moves, idNext, Empty, Uses
  <2>2. id.pc # 0
    BY <1>2, <2>1, BubbleIs DEF InOrder, Fetches, Uses
  <2>3. Plainly(id.i) /\ ~Link(ex.i)
    BY <2>2, OfTextIs DEF InOrder, Fetches, OfText
  <2>4. gpr' \in GprEX(f) /\ status' = status
    BY DEF Moves, Executed
  <2>5. /\ gpr'[id.i.rs] = gprWB[id.i.rs]
        /\ ReadsRt(id.i) => gpr'[id.i.rt] = gprWB[id.i.rt]
    BY <2>2, <2>4, AnswersMiss
  <2>6. /\ ~DetectHazard(ex, me, id.i.rs, CanForward, FALSE)
        /\ ReadsRt(id.i) /\ id.i.op # "swc1" =>
             ~DetectHazard(ex, me, id.i.rt, CanForward, FALSE)
        /\ id.i.op = "swc1" => ~DetectHazard(ex, me, id.i.rt, CanForward, TRUE)
    BY <1>2, <2>1, <2>3, NoHazard DEF Uses
  <2> DEFINE fu == status.fu
  <2>7. fu \in BOOLEAN /\ (CanForward => fu)
    BY DEF FlexInv, FlexTypeOK, Status, CanForward
  <2>8. ExA' = IF fu THEN ForwardRegister(me', wb', id.i.rs, gprWB[id.i.rs], FALSE)
               ELSE gprWB[id.i.rs]
    BY <2>1, <2>4 DEF ExA
  <2>9. id.i.op \in {"alu", "sw"} =>
          /\ ReadsRt(id.i) /\ ~SigRegBank(id.i) /\ id.i.rt \in Reg
          /\ ExB' = IF fu THEN ForwardRegister(me', wb', id.i.rt, gprWB[id.i.rt], FALSE)
                    ELSE gprWB[id.i.rt]
    <3> SUFFICES ASSUME id.i.op \in {"alu", "sw"}
                 PROVE  /\ ReadsRt(id.i) /\ ~SigRegBank(id.i) /\ id.i.rt \in Reg
                        /\ ExB' = IF fu THEN ForwardRegister(me', wb', id.i.rt, gprWB[id.i.rt], FALSE)
                                  ELSE gprWB[id.i.rt]
      OBVIOUS
    <3>1. ReadsRt(id.i) /\ ~SigRegBank(id.i) /\ (RegDstRd(id.i) \/ ~RegWrite(id.i))
      BY <2>3, WritesAre DEF ReadsRt, AluSrc, MemWrite, FpBank, RegDstRd, RegWrite
    <3>2. id.i.rt \in Reg /\ id.i.op # "swc1"
      BY <2>3, <3>1 DEF Plainly, WellFormed
    <3>3. (ex.i.op = "swc1")' <=> FALSE
      BY <2>1, <3>2
    <3> QED BY <2>1, <2>4, <3>1, <3>2 DEF ExB
  <2>10. id.i.op = "swc1" =>
           /\ id.i.rt \in FReg
           /\ ExB' = IF fu THEN ForwardRegister(me', wb', id.i.rt, fprWB[id.i.rt], TRUE)
                     ELSE fprWB[id.i.rt]
    <3> SUFFICES ASSUME id.i.op = "swc1"
                 PROVE  /\ id.i.rt \in FReg
                        /\ ExB' = IF fu THEN ForwardRegister(me', wb', id.i.rt, fprWB[id.i.rt], TRUE)
                                  ELSE fprWB[id.i.rt]
      OBVIOUS
    <3>1. SigRegBank(id.i) /\ ~RegWrite(id.i)
      BY <2>3, WritesAre DEF FpBank, RegWrite
    <3>2. id.i.rt \in FReg
      BY <2>3, <3>1 DEF Plainly, WellFormed
    <3> QED BY <2>1, <2>4, <3>1, <3>2 DEF ExB
  <2>11. id.i.rs \in Reg
    BY <2>3 DEF Plainly, WellFormed
  <2> HIDE DEF fu
  <2>12. ExA' = Held'.gpr[id.i.rs]
    BY <2>2, <2>3, <2>5, <2>6, <2>7, <2>8, <2>11, ReadInID
  <2>13. id.i.op \in {"alu", "sw"} => ExB' = Held'.gpr[id.i.rt]
    BY <2>2, <2>3, <2>5, <2>6, <2>7, <2>9, ReadInID
  <2>14. id.i.op = "swc1" => ExB' = Held'.fpr[id.i.rt]
    BY <2>3, <2>6, <2>7, <2>10, FloatReadInID
  <2> QED BY <2>1, <2>12, <2>13, <2>14 DEF Operands
<1> QED BY <1>1, <1>2

-----------------------------------------------------------------------------
(* What the stages hold after a cycle, by what they held before it.         *)
State(p, g, h, m, o) == [pc |-> p, gpr |-> g, fpr |-> h, mem |-> m, over |-> o]

Means(i, p, g, h, m, o, s) ==
  /\ i.op = "lwc1" =>
       After(i, s) = State(Target(i, s), g, [h EXCEPT ![i.rt] = m[Address(i, s)]], m, o)
  /\ i.op = "lw" =>
       After(i, s) = State(Target(i, s), [g EXCEPT ![i.rt] = m[Address(i, s)]], h, m, o)
  /\ i.op = "sw" =>
       After(i, s) = State(Target(i, s), g, h, [m EXCEPT ![Address(i, s)] = g[i.rt]], o)
  /\ i.op = "swc1" =>
       After(i, s) = State(Target(i, s), g, h, [m EXCEPT ![Address(i, s)] = h[i.rt]], o)
  /\ i.op \in {"alu", "alui", "lui"} =>
       After(i, s) = State(Target(i, s),
                           [g EXCEPT ![RegDest(i)] = AluOutput(i, g[i.rs], g[i.rt])], h, m, o)
  /\ Link(i) => After(i, s) = State(Target(i, s), [g EXCEPT ![RA] = p + 1], h, m, o)
  /\ i.op = "syscall" =>
       After(i, s) = [State(Target(i, s), g, h, m, o) EXCEPT !.over = g[V0] \in Exit]
  /\ i.op \in {"nop", "mult", "mfhi", "beq", "bne", "j", "jr"} =>
       After(i, s) = State(Target(i, s), g, h, m, o)

LEMMA AfterIs ==
  ASSUME NEW i, i.op \in FlexOp \ (CoprocessorOp \cup {"bc1", "bc1x"}),
         NEW p, NEW g, NEW h, NEW m, NEW o, NEW s, s = State(p, g, h, m, o)
  PROVE  Means(i, p, g, h, m, o, s)
<1> DEFINE t == Target(i, s)
           at == Address(i, s)
           next == [s EXCEPT !.pc = t]
<1>1. /\ s.pc = p /\ s.gpr = g /\ s.fpr = h /\ s.mem = m
      /\ next = State(t, g, h, m, o)
  <2> HIDE DEF t
  <2>1. s = [pc |-> p, gpr |-> g, fpr |-> h, mem |-> m, over |-> o]
    BY DEF State
  <2>2. s.pc = p /\ s.gpr = g /\ s.fpr = h /\ s.mem = m
    BY <2>1
  <2>3. next = State(t, g, h, m, o)
    <3>1. [[pc |-> p, gpr |-> g, fpr |-> h, mem |-> m, over |-> o] EXCEPT !.pc = t]
            = State(t, g, h, m, o)
      BY DEF State
    <3> QED BY <2>1, <3>1, Zenon
  <2> QED BY <2>2, <2>3
<1>2. i.op \notin Arithmetic /\ ("mfhi" \notin Arithmetic)
  BY DEF CoprocessorOp, Arithmetic
<1> HIDE DEF t, at
<1>3. ASSUME i.op = "lwc1" PROVE After(i, s) = State(t, g, [h EXCEPT ![i.rt] = m[at]], m, o)
  BY <1>1, <1>3 DEF After, t, at, State, MemWrite, Link, Arithmetic
<1>4. ASSUME i.op = "lw" PROVE After(i, s) = State(t, [g EXCEPT ![i.rt] = m[at]], h, m, o)
  BY <1>1, <1>4 DEF After, t, at, State, MemWrite, Link, Arithmetic
<1>5. ASSUME i.op = "sw" PROVE After(i, s) = State(t, g, h, [m EXCEPT ![at] = g[i.rt]], o)
  BY <1>1, <1>5 DEF After, t, at, State, MemWrite, FpBank, Link, Arithmetic
<1>6. ASSUME i.op = "swc1" PROVE After(i, s) = State(t, g, h, [m EXCEPT ![at] = h[i.rt]], o)
  BY <1>1, <1>6 DEF After, t, at, State, MemWrite, FpBank, Link, Arithmetic
<1>7. ASSUME i.op \in {"alu", "alui", "lui"}
      PROVE  After(i, s) = State(t, [g EXCEPT ![RegDest(i)] = AluOutput(i, g[i.rs], g[i.rt])], h, m, o)
  BY <1>1, <1>7 DEF After, t, at, State, MemWrite, Link, Arithmetic
<1>8. ASSUME Link(i) PROVE After(i, s) = State(t, [g EXCEPT ![RA] = p + 1], h, m, o)
  BY <1>1, <1>8 DEF After, t, at, State, MemWrite, Link, Arithmetic
<1>9. ASSUME i.op = "syscall"
      PROVE  After(i, s) = [State(t, g, h, m, o) EXCEPT !.over = g[V0] \in Exit]
  BY <1>1, <1>9 DEF After, t, at, State, MemWrite, Link, Arithmetic
<1>10. ASSUME i.op \in {"nop", "mult", "mfhi", "beq", "bne", "j", "jr"}
       PROVE  After(i, s) = State(t, g, h, m, o)
  BY <1>1, <1>10 DEF After, t, at, State, MemWrite, Link, Arithmetic
<1> QED BY <1>3, <1>4, <1>5, <1>6, <1>7, <1>8, <1>9, <1>10 DEF t, at, Means

LEMMA HeldMoves ==
  ASSUME FlexInv, FlexInv', FaithfulInteger, InOrder, NEW f, NEW garbled, Moves(f, garbled)
  PROVE  /\ Held' = State(Upcoming, GprAfter(meNext', GprAfter(meNext, gpr')),
                          FprAfter(meNext', Held.fpr), memMEM', FALSE)
         /\ GprAfter(meNext, gprWB) = Held.gpr
         /\ memMEM' = IF MemWrite(me'.i) /\ me'.alu \in DataAddr
                      THEN [Held.mem EXCEPT ![me'.alu] = me'.b] ELSE Held.mem
         /\ meNext'.i = me'.i /\ meNext'.alu = me'.alu /\ meNext'.pc = me'.pc
         /\ MemRead(me'.i) /\ me'.alu \in DataAddr => meNext'.word = Held.mem[me'.alu]
         /\ IsEmpty(ex) => me'.i = Bubble
         /\ ~IsEmpty(ex) => /\ me'.i = ex.i /\ me'.pc = ex.pc /\ me'.b = ExB
                            /\ me'.alu = AluOutput(ex.i, ExA, ExB)
<1>1. me' \in SegReg /\ wb' = meNext /\ fpr' = fprWB /\ mem' = memMEM /\ me' = exTmpEX(f)
      /\ ~StallEX(f)
  BY DEF FlexInv, FlexTypeOK, Moves
<1>2. Plainly(wb.i)
  BY OfTextIs DEF InOrder
<1>3. gprWB = GprAfter(wb, gpr) /\ fprWB = FprAfter(wb, fpr)
  BY <1>2, WrittenBack
<1>4. Held.gpr = GprAfter(meNext, gprWB) /\ Held.fpr = FprAfter(meNext, fprWB)
      /\ Held.mem = memMEM
  BY <1>3 DEF Held
<1>5. Held'.pc = Upcoming
  BY AddressesMove
<1>6. Held' = State(Held'.pc, GprAfter(meNext', GprAfter(wb', gpr')),
                    FprAfter(meNext', FprAfter(wb', fpr')), memMEM', FALSE)
  BY DEF Held, State, GprAfter, FprAfter
<1>7. Held' = State(Upcoming, GprAfter(meNext', GprAfter(meNext, gpr')),
                    FprAfter(meNext', Held.fpr), memMEM', FALSE)
  BY <1>1, <1>4, <1>5, <1>6
<1>8. memMEM' = IF MemWrite(me'.i) /\ me'.alu \in DataAddr
                THEN [Held.mem EXCEPT ![me'.alu] = me'.b] ELSE Held.mem
  <2>1. memMEM' = IF MemWrite(me'.i)
                  THEN IF me'.alu \notin DataAddr THEN mem' ELSE [mem' EXCEPT ![me'.alu] = me'.b]
                  ELSE mem'
    BY DEF memMEM, WordWritten, AddressError
  <2> QED BY <1>1, <1>4, <2>1
<1>9. /\ meNext'.i = me'.i /\ meNext'.alu = me'.alu /\ meNext'.pc = me'.pc
      /\ MemRead(me'.i) /\ me'.alu \in DataAddr => meNext'.word = Held.mem[me'.alu]
  BY <1>1, <1>4 DEF meNext, SegReg, WordRead, AddressError
<1>10. /\ IsEmpty(ex) => me'.i = Bubble
       /\ ~IsEmpty(ex) => /\ me'.i = ex.i /\ me'.pc = ex.pc /\ me'.b = ExB
                          /\ me'.alu = AluOutput(ex.i, ExA, ExB)
  BY <1>1, BubbleIs DEF exTmpEX, Empty
<1> QED BY <1>4, <1>7, <1>8, <1>9, <1>10

LEMMA Quiet ==
  ASSUME NEW n, n.i.op \notin {"alu", "mfhi", "alui", "lui", "lw", "lwc1", "jal", "jalr"},
         n.i.op \notin CoprocessorOp
  PROVE  /\ \A bank : GprAfter(n, bank) = bank
         /\ \A bank : FprAfter(n, bank) = bank
BY DEF GprAfter, FprAfter, SigRegWrite, RegWrite, CoprocessorOp

LEMMA Loud ==
  ASSUME NEW n, Plainly(n.i), NEW bank
  PROVE  /\ n.i.op \in {"alu", "mfhi", "alui", "lui"} =>
              GprAfter(n, bank) = [bank EXCEPT ![RegDest(n.i)] = n.alu]
         /\ n.i.op = "lw" => GprAfter(n, bank) = [bank EXCEPT ![n.i.rt] = n.word]
         /\ Link(n.i) => GprAfter(n, bank) = [bank EXCEPT ![RA] = n.pc]
         /\ n.i.op = "lwc1" => GprAfter(n, bank) = bank
         /\ n.i.op = "lwc1" => FprAfter(n, bank) = [bank EXCEPT ![n.i.rt] = n.word]
         /\ n.i.op # "lwc1" => FprAfter(n, bank) = bank
<1>1. /\ SigRegWrite(n.i) <=> RegWrite(n.i)
      /\ SigRegBank(n.i) <=> FpBank(n.i)
      /\ Dest(n.i) = RegDest(n.i)
  BY WritesAre
<1>2. ASSUME n.i.op \in {"alu", "mfhi", "alui", "lui"}
      PROVE  GprAfter(n, bank) = [bank EXCEPT ![RegDest(n.i)] = n.alu]
  BY <1>1, <1>2 DEF GprAfter, RegWrite, FpBank, WrittenValue, Link, MemRead
<1>3. ASSUME n.i.op = "lw" PROVE GprAfter(n, bank) = [bank EXCEPT ![n.i.rt] = n.word]
  BY <1>1, <1>3 DEF GprAfter, RegWrite, FpBank, WrittenValue, Link, MemRead, RegDest, RegDstRd
<1>4. ASSUME Link(n.i) PROVE GprAfter(n, bank) = [bank EXCEPT ![RA] = n.pc]
  <2>1. RegWrite(n.i) /\ ~FpBank(n.i) /\ RegDest(n.i) = RA
    BY <1>4 DEF Link, RegWrite, FpBank, RegDest, RegDstRd
  <2>2. WrittenValue(n) = n.pc
    BY <1>4 DEF WrittenValue, Link, MemRead
  <2> QED BY <1>1, <2>1, <2>2 DEF GprAfter
<1>5. ASSUME n.i.op = "lwc1" PROVE GprAfter(n, bank) = bank
  BY <1>1, <1>5 DEF GprAfter, FpBank
<1> QED BY <1>2, <1>3, <1>4, <1>5 DEF FprAfter

(* A service is served with all that the instructions before it have        *)
(* computed in the registers.                                               *)
LEMMA ServedUpToDate ==
  ASSUME FlexInv, FaithfulInteger, InOrder, Served, ex.i.op = "syscall"
  PROVE  /\ \A bank : GprAfter(meNext, bank) = bank /\ FprAfter(meNext, bank) = bank
         /\ memMEM = mem /\ Held.gpr = gprWB /\ Held.fpr = fprWB /\ ~MemError
         /\ Service = Held.gpr[V0]
<1>1. me.i.op \in {"nop", "syscall"} /\ meNext.i = me.i
  <2>1. me \in SegReg
    BY DEF FlexInv, FlexTypeOK
  <2> QED BY <2>1 DEF Served, meNext, SegReg
<1>2. \A bank : GprAfter(meNext, bank) = bank /\ FprAfter(meNext, bank) = bank
  BY <1>1, Quiet DEF CoprocessorOp, Arithmetic
<1>3. memMEM = mem /\ ~MemError
  BY <1>1 DEF memMEM, MemError, MemWrite, MemRead
<1>4. gprWB = GprAfter(wb, gpr) /\ fprWB = FprAfter(wb, fpr)
  BY OfTextIs, WrittenBack DEF InOrder
<1> QED BY <1>2, <1>3, <1>4 DEF Held, Service

LEMMA Executes ==
  ASSUME FlexInv, FlexInv', FaithfulInteger, InOrder, Operands, Leads, Served, ready, ready',
         NEW f, NEW garbled, Moves(f, garbled), ex.pc # 0, ~MemError'
  PROVE  ~Ended(prog, Held) /\ Held' \in Following(prog, Held)
<1> DEFINE i == ex.i
           s == Held
           n == meNext'
           t == Target(i, s)
           g == s.gpr
           h == s.fpr
           m == s.mem
           no == FALSE
<1>1. s.pc = ex.pc - 1 /\ s.pc \in TextAddr /\ prog[s.pc] = i /\ t = Upcoming /\ ~s.over
  BY DEF InOrder, Fetches, Leads, Held
<1>2. Plainly(i) /\ i \in FlexInstr
  BY <1>1, OfTextIs DEF OfText, FlexInv, FlexTypeOK
<1>3. s = State(s.pc, g, h, m, no)
  BY DEF State, Held
<1>4. /\ Held' = State(t, GprAfter(n, GprAfter(meNext, gpr')), FprAfter(n, h), memMEM', no)
      /\ GprAfter(meNext, gprWB) = g
      /\ memMEM' = IF MemWrite(me'.i) /\ me'.alu \in DataAddr
                   THEN [m EXCEPT ![me'.alu] = me'.b] ELSE m
      /\ n.i = me'.i /\ n.alu = me'.alu /\ n.pc = me'.pc
      /\ MemRead(me'.i) /\ me'.alu \in DataAddr => n.word = m[me'.alu]
      /\ IsEmpty(ex) => me'.i = Bubble
      /\ ~IsEmpty(ex) => /\ me'.i = i /\ me'.pc = ex.pc /\ me'.b = ExB
                         /\ me'.alu = AluOutput(i, ExA, ExB)
  BY <1>1, HeldMoves
<1>5. /\ gpr' \in GprEX(f) /\ ~StallEX(f) /\ ~ExThrows(f)
      /\ ready' = readyEX(f)
      /\ ~(i.op = "syscall" /\ Service \in Exit)
  <2>1. /\ gpr' \in GprEX(f) /\ ~StallEX(f) /\ ~ExThrows(f)
        /\ ready' = readyEX(f)
    BY DEF Moves, Executed
  <2>2. readyEX(f)
    BY <2>1
  <2> QED BY <2>1, <2>2 DEF readyEX, Serves
<1>6. i.op = "syscall" => /\ Service = g[V0] /\ g = gprWB
                          /\ \A bank : GprAfter(meNext, bank) = bank
  BY ServedUpToDate
<1> HIDE DEF n, t, g, h, m, s, no
<1>7. /\ Uses(i) => ExA = g[i.rs]
      /\ i.op \in {"alu", "sw"} => ExB = g[i.rt]
      /\ i.op = "swc1" => ExB = h[i.rt]
  BY DEF Operands, g, h, s
<1>8. MemRead(i) \/ MemWrite(i) => /\ me'.alu = Address(i, s)
                                   /\ Address(i, s) \in DataAddr
  <2> SUFFICES ASSUME MemRead(i) \/ MemWrite(i)
               PROVE  me'.alu = Address(i, s) /\ Address(i, s) \in DataAddr
    OBVIOUS
  <2>1. i.op \in {"lw", "sw", "lwc1", "swc1"}
    BY DEF MemRead, MemWrite
  <2>2. me'.i = i /\ me'.alu = AluOutput(i, ExA, ExB) /\ ExA = g[i.rs]
    BY <1>4, <1>7, <2>1 DEF IsEmpty, Uses
  <2>3. AluOutput(i, ExA, ExB) = Plus(ExA, i.imm)
    BY <2>1 DEF AluOutput, Conditional, AluSrc
  <2>4. me'.alu \in DataAddr
    BY <2>2 DEF MemError, AddressError
  <2> QED BY <2>2, <2>3, <2>4 DEF Address, g
<1>9. ~Fails(i, s)
  <2>1. i.op \notin {"mfhi", "bc1x"} /\ (i.op = "syscall" => Answered(gprWB))
    BY <1>2, <1>5 DEF ExThrows, Plainly
  <2> QED BY <1>6, <1>8, <2>1 DEF Fails, g
<1>10. ~Ended(prog, s)
  BY <1>1, <1>9 DEF Ended
<1>11. Following(prog, s) = Afterwards(i, s)
  BY <1>1, <1>10 DEF Following
<1>12. i.op \in FlexOp \ (CoprocessorOp \cup {"bc1", "bc1x"})
  BY <1>2 DEF Plainly, FlexInstr
<1>15. /\ i.op = "lwc1" =>
            After(i, s) = State(t, g, [h EXCEPT ![i.rt] = m[Address(i, s)]], m, no)
       /\ i.op = "lw" =>
            After(i, s) = State(t, [g EXCEPT ![i.rt] = m[Address(i, s)]], h, m, no)
       /\ i.op = "sw" =>
            After(i, s) = State(t, g, h, [m EXCEPT ![Address(i, s)] = g[i.rt]], no)
       /\ i.op = "swc1" =>
            After(i, s) = State(t, g, h, [m EXCEPT ![Address(i, s)] = h[i.rt]], no)
       /\ i.op \in {"alu", "alui", "lui"} =>
            After(i, s) = State(t, [g EXCEPT ![RegDest(i)] = AluOutput(i, g[i.rs], g[i.rt])], h, m, no)
       /\ Link(i) => After(i, s) = State(t, [g EXCEPT ![RA] = s.pc + 1], h, m, no)
       /\ i.op = "syscall" =>
            After(i, s) = [State(t, g, h, m, no) EXCEPT !.over = g[V0] \in Exit]
       /\ i.op \in {"nop", "mult", "mfhi", "beq", "bne", "j", "jr"} =>
            After(i, s) = State(t, g, h, m, no)
  <2>1. Means(i, s.pc, g, h, m, no, s)
    BY <1>3, <1>12, AfterIs
  <2> QED BY <2>1, Zenon DEF Means, t
<1>13. CASE i.op = "syscall"
  <2>1. me'.i = i /\ n.i = i
    BY <1>4, <1>13 DEF IsEmpty
  <2>2. \A bank : GprAfter(n, bank) = bank /\ FprAfter(n, bank) = bank
    BY <1>13, <2>1, Quiet DEF CoprocessorOp, Arithmetic
  <2>3. memMEM' = m
    BY <1>4, <1>13, <2>1 DEF MemWrite
  <2>4. Held' = State(t, gpr', h, m, no)
    BY <1>4, <1>6, <1>13, <2>2, <2>3
  <2> DEFINE o == g[V0] \in Exit
  <2>5. After(i, s) = [State(t, g, h, m, no) EXCEPT !.over = o]
    BY <1>13, <1>15
  <2>6. o = no
    <3>1. g[V0] \notin Exit
      BY <1>5, <1>6, <1>13
    <3> QED BY <3>1 DEF no
  <2> HIDE DEF o
  <2>7. After(i, s) = State(t, g, h, m, no)
    <3>1. ASSUME NEW a, NEW b
          PROVE  [State(t, g, h, m, a) EXCEPT !.over = b] = State(t, g, h, m, b)
      BY DEF State
    <3>2. [State(t, g, h, m, no) EXCEPT !.over = o] = State(t, g, h, m, o)
      BY <3>1
    <3> QED BY <2>5, <2>6, <3>2, Zenon
  <2>8. Held' \in Afterwards(i, s)
    <3>1. CASE g[V0] \in DOMAIN Result
      <4>1. Serves(f) /\ Service \in DOMAIN Result /\ Service = g[V0]
        BY <1>5, <1>6, <1>13, <3>1 DEF Serves
      <4>2. PICK v \in Inputs : gpr' = [gprWB EXCEPT ![Result[Service]] = v]
        BY <1>5, <4>1 DEF GprEX
      <4>3. gpr' = [g EXCEPT ![Result[g[V0]]] = v]
        BY <1>6, <1>13, <4>1, <4>2
      <4> DEFINE r == Result[g[V0]]
      <4>4. ASSUME NEW a
            PROVE  [State(t, g, h, m, a) EXCEPT !.gpr[r] = v] = State(t, [g EXCEPT ![r] = v], h, m, a)
        <5> HIDE DEF r
        <5> QED BY DEF State
      <4>5. [After(i, s) EXCEPT !.gpr[r] = v] = State(t, gpr', h, m, no)
        <5>1. [State(t, g, h, m, no) EXCEPT !.gpr[r] = v]
                = State(t, [g EXCEPT ![r] = v], h, m, no)
          BY <4>4
        <5> QED BY <2>7, <4>3, <5>1, Zenon
      <4>6. Asks(i, s) /\ s.gpr = g
        BY <1>13, <3>1 DEF Asks, g
      <4>7. Held' = [After(i, s) EXCEPT !.gpr[Result[s.gpr[V0]]] = v]
        BY <2>4, <4>5, <4>6
      <4> QED BY <4>6, <4>7 DEF Afterwards
    <3>2. CASE g[V0] \notin DOMAIN Result
      <4>1. gpr' = g
        BY <1>5, <1>6, <1>13, <3>2 DEF GprEX
      <4>2. ~Asks(i, s)
        BY <3>2 DEF Asks, g
      <4> QED BY <2>4, <2>7, <4>1, <4>2 DEF Afterwards
    <3> QED BY <3>1, <3>2
  <2> QED BY <1>10, <1>11, <2>8 DEF s
<1>14. CASE i.op # "syscall"
  <2>1. ~Asks(i, s) /\ gpr' = gprWB
    BY <1>5, <1>14 DEF Asks, GprEX, Serves
  <2>2. Held' = State(t, GprAfter(n, g), FprAfter(n, h), memMEM', no)
    BY <1>4, <2>1
  <2>3. Held' = After(i, s)
    <3>1. CASE i.op \in {"nop", "mult", "beq", "bne", "j", "jr"}
      <4>1. n.i = i \/ n.i = Bubble
        BY <1>4
      <4>2. GprAfter(n, g) = g /\ FprAfter(n, h) = h /\ memMEM' = m
        <5>1. n.i.op \in {"nop", "mult", "beq", "bne", "j", "jr"}
          BY <3>1, <4>1, BubbleIs
        <5>2. GprAfter(n, g) = g /\ FprAfter(n, h) = h
          BY <5>1, Quiet DEF CoprocessorOp, Arithmetic
        <5> QED BY <1>4, <5>1, <5>2 DEF MemWrite
      <4>3. After(i, s) = State(t, g, h, m, no)
        BY <1>15, <3>1
      <4> QED BY <2>2, <4>2, <4>3
    <3>2. ASSUME i.op \notin {"nop", "mult", "beq", "bne", "j", "jr"}
          PROVE  n.i = i /\ me'.i = i /\ n.alu = AluOutput(i, ExA, ExB) /\ n.pc = ex.pc /\ me'.b = ExB
      BY <1>4, <3>2 DEF IsEmpty
    <3>3. ~MemWrite(i) => memMEM' = m
      <4>1. ~MemWrite(Bubble)
        BY BubbleIs DEF MemWrite
      <4> QED BY <1>4, <4>1
    <3>4. CASE i.op \in {"alu", "alui", "lui"}
      <4>1. n.i = i /\ n.alu = AluOutput(i, ExA, ExB) /\ memMEM' = m
        BY <3>2, <3>3, <3>4 DEF MemWrite
      <4>2. AluOutput(i, ExA, ExB) = AluOutput(i, g[i.rs], g[i.rt])
        BY <1>7, <3>4 DEF AluOutput, Uses, Conditional, AluSrc
      <4>3. GprAfter(n, g) = [g EXCEPT ![RegDest(i)] = n.alu] /\ FprAfter(n, h) = h
        BY <1>2, <3>4, <4>1, Loud
      <4>4. After(i, s) = State(t, [g EXCEPT ![RegDest(i)] = AluOutput(i, g[i.rs], g[i.rt])], h, m, no)
        BY <1>15, <3>4
      <4> QED BY <2>2, <4>1, <4>2, <4>3, <4>4
    <3>5. CASE i.op = "lw"
      <4>1. n.i = i /\ memMEM' = m /\ n.word = m[Address(i, s)]
        BY <1>4, <1>8, <3>2, <3>3, <3>5 DEF MemWrite, MemRead
      <4>2. GprAfter(n, g) = [g EXCEPT ![i.rt] = n.word] /\ FprAfter(n, h) = h
        BY <1>2, <3>5, <4>1, Loud
      <4>3. After(i, s) = State(t, [g EXCEPT ![i.rt] = m[Address(i, s)]], h, m, no)
        BY <1>15, <3>5
      <4> QED BY <2>2, <4>1, <4>2, <4>3
    <3>6. CASE i.op = "lwc1"
      <4>1. n.i = i /\ memMEM' = m /\ n.word = m[Address(i, s)]
        BY <1>4, <1>8, <3>2, <3>3, <3>6 DEF MemWrite, MemRead
      <4>2. GprAfter(n, g) = g /\ FprAfter(n, h) = [h EXCEPT ![i.rt] = n.word]
        BY <1>2, <3>6, <4>1, Loud
      <4>3. After(i, s) = State(t, g, [h EXCEPT ![i.rt] = m[Address(i, s)]], m, no)
        BY <1>15, <3>6
      <4> QED BY <2>2, <4>1, <4>2, <4>3
    <3>7. CASE MemWrite(i)
      <4>1. i.op \in {"sw", "swc1"}
        BY <3>7 DEF MemWrite
      <4>2. n.i = i /\ memMEM' = [m EXCEPT ![Address(i, s)] = ExB]
        BY <1>4, <1>8, <3>2, <3>7, <4>1
      <4>3. GprAfter(n, g) = g /\ FprAfter(n, h) = h
        BY <4>1, <4>2, Quiet DEF CoprocessorOp, Arithmetic
      <4>4. After(i, s) = State(t, g, h, [m EXCEPT ![Address(i, s)] = ExB], no)
        <5>1. CASE i.op = "sw"
          BY <1>7, <1>15, <5>1
        <5>2. CASE i.op = "swc1"
          BY <1>7, <1>15, <5>2
        <5> QED BY <4>1, <5>1, <5>2
      <4> QED BY <2>2, <4>2, <4>3, <4>4
    <3>8. CASE Link(i)
      <4>1. i.op \in {"jal", "jalr"}
        BY <3>8 DEF Link
      <4>2. n.i = i /\ n.pc = ex.pc /\ memMEM' = m
        BY <3>2, <3>3, <4>1 DEF MemWrite
      <4>3. GprAfter(n, g) = [g EXCEPT ![RA] = ex.pc] /\ FprAfter(n, h) = h
        <5>1. Plainly(n.i) /\ Link(n.i) /\ n.i.op # "lwc1"
          BY <1>2, <3>8, <4>1, <4>2
        <5>2. GprAfter(n, g) = [g EXCEPT ![RA] = n.pc]
          BY <5>1, Loud
        <5>3. FprAfter(n, h) = h
          BY <5>1, Loud
        <5> QED BY <4>2, <5>2, <5>3
      <4>4. After(i, s) = State(t, [g EXCEPT ![RA] = s.pc + 1], h, m, no)
        BY <1>15, <3>8
      <4>5. s.pc + 1 = ex.pc
        <5>1. ex.pc \in Int
          BY DEF FlexInv, FlexTypeOK, SegReg, Word
        <5> QED BY <1>1, <5>1
      <4> QED BY <2>2, <4>2, <4>3, <4>4, <4>5
    <3>9. i.op # "mfhi"
      BY <1>5 DEF ExThrows
    <3> QED BY <1>12, <1>14, <3>1, <3>4, <3>5, <3>6, <3>7, <3>8, <3>9
            DEF FlexOp, Op, CoprocessorOp, Arithmetic, MemWrite, Link
  <2>4. Held' \in Afterwards(i, s)
    BY <2>1, <2>3 DEF Afterwards
  <2> QED BY <1>10, <1>11, <2>4 DEF s
<1> QED BY <1>13, <1>14

LEMMA ReachedIsKept ==
  ASSUME FlexInv, FlexInv', FaithfulInteger, Aligned, Served, ready, ready',
         NEW f, NEW garbled, Moves(f, garbled)
  PROVE  Reached'
<1> SUFFICES ASSUME ~MemError', AllEnd(prog) PROVE \E k \in 0 .. Fuel : Held' \in Run(prog)[k]
  <2>1. prog' = prog
    BY DEF Moves
  <2> QED BY <2>1 DEF Reached, AllEnd
<1>1. PICK k \in 0 .. Fuel : Held \in Run(prog)[k]
  BY DEF Aligned, Reached, Moves
<1>2. CASE ex.pc # 0
  <2>1. ~Ended(prog, Held) /\ Held' \in Following(prog, Held)
    BY <1>2, Executes DEF Aligned
  <2> QED BY <1>1, <2>1, RunGoesOn
<1>3. CASE ex.pc = 0
  <2>1. ex.i = Bubble /\ IsEmpty(ex)
    BY <1>3, BubbleIs DEF Aligned, InOrder, Fetches, IsEmpty
  <2> DEFINE n == meNext'
             no == FALSE
  <2>2. /\ Held' = State(Upcoming, GprAfter(n, GprAfter(meNext, gpr')), FprAfter(n, Held.fpr),
                         memMEM', no)
        /\ GprAfter(meNext, gprWB) = Held.gpr
        /\ memMEM' = IF MemWrite(me'.i) /\ me'.alu \in DataAddr
                     THEN [Held.mem EXCEPT ![me'.alu] = me'.b] ELSE Held.mem
        /\ n.i = me'.i /\ me'.i = Bubble
    BY <2>1, HeldMoves DEF Aligned
  <2> HIDE DEF n, no
  <2>3. n.i.op = "nop" /\ ~MemWrite(me'.i)
    BY <2>2, BubbleIs DEF MemWrite
  <2>4. \A bank : GprAfter(n, bank) = bank /\ FprAfter(n, bank) = bank
    BY <2>3, Quiet DEF CoprocessorOp, Arithmetic
  <2>5. gpr' = gprWB
    BY <2>1 DEF Moves, Executed, GprEX, Serves, IsEmpty
  <2>6. Held' = State(Upcoming, Held.gpr, Held.fpr, Held.mem, no)
    BY <2>2, <2>3, <2>4, <2>5
  <2>7. Held = State(Upcoming, Held.gpr, Held.fpr, Held.mem, no)
    BY <1>3 DEF Held, State, no
  <2> QED BY <1>1, <2>6, <2>7
<1> QED BY <1>2, <1>3

(* The call of the exit service leaves what the reference does.             *)
LEMMA ExitLeaves ==
  ASSUME FlexInv, FaithfulInteger, Aligned, Served, NEW f, NEW garbled,
         Executed(f, garbled), ready, ~ready', fpr' = fprWB, mem' = memMEM, prog' = prog
  PROVE  Sequential'
<1>1. ex.i.op = "syscall" /\ Service \in Exit /\ gpr' = gprWB
  <2>1. Serves(f) /\ Service \in Exit
    BY DEF Executed, readyEX
  <2>2. Service \notin DOMAIN Result
    BY <2>1, ServiceAssumption DEF ServiceAssumption
  <2> QED BY <2>1, <2>2 DEF Executed, GprEX, Serves
<1>2. ~MemError /\ Held.gpr = gprWB /\ Held.fpr = fprWB /\ Service = Held.gpr[V0]
  BY <1>1, ServedUpToDate DEF Aligned
<1>3. Held.mem = memMEM /\ ~Held.over
  BY DEF Held
<1>4. Held.pc \in TextAddr /\ prog[Held.pc] = ex.i
  <2>1. ex.pc # 0
    BY <1>1, BubbleIs DEF Aligned, InOrder, Fetches
  <2> QED BY <2>1 DEF Aligned, InOrder, Fetches, Held
<1>5. Finals[prog] = Run(prog)[Fuel]
  BY OfTextIs DEF Finals
<1> SUFFICES ASSUME AllEnd(prog)
             PROVE  \E final \in Run(prog)[Fuel] : final.over /\ gpr' = final.gpr
                                                   /\ fpr' = final.fpr /\ mem' = final.mem
  BY <1>5, Zenon DEF Sequential, LeftBy, AllEnd
<1>6. PICK k \in 0 .. Fuel : Held \in Run(prog)[k]
  BY <1>2 DEF Aligned, Reached
<1> DEFINE s == Held
           i == ex.i
           left == After(i, s)
<1>7. ~Fails(i, s)
  <2>1. Answered(s.gpr)
    BY <1>1, <1>2, ServiceAssumption DEF ServiceAssumption, Answered, Services
  <2> QED BY <1>1, <2>1 DEF Fails, MemRead, MemWrite
<1>8. ~Ended(prog, s) /\ Following(prog, s) = Afterwards(i, s)
  BY <1>3, <1>4, <1>7 DEF Ended, Following
<1>9. Afterwards(i, s) = { left }
  <2>1. s.gpr[V0] \notin DOMAIN Result
    BY <1>1, <1>2, ServiceAssumption DEF ServiceAssumption
  <2> QED BY <2>1 DEF Afterwards, Asks
<1>10. k + 1 \in 0 .. Fuel /\ left \in Run(prog)[k + 1]
  BY <1>6, <1>8, <1>9, RunGoesOn
<1>11. left.over /\ left.gpr = s.gpr /\ left.fpr = s.fpr /\ left.mem = s.mem
  <2> DEFINE g == s.gpr
             h == s.fpr
             m == s.mem
             no == FALSE
             o == g[V0] \in Exit
             t == Target(i, s)
  <2>1. s = State(s.pc, g, h, m, no)
    BY DEF State, Held
  <2>2. i.op \in FlexOp \ (CoprocessorOp \cup {"bc1", "bc1x"})
    BY <1>1 DEF FlexOp, Op, CoprocessorOp, Arithmetic
  <2>3. o
    BY <1>1, <1>2
  <2> HIDE DEF s, i, g, h, m, no
  <2>4. Means(i, s.pc, g, h, m, no, s)
    BY <2>1, <2>2, AfterIs
  <2>5. left = [State(t, g, h, m, no) EXCEPT !.over = o]
    BY <1>1, <2>4 DEF Means, i
  <2> HIDE DEF t, o, left
  <2>6. ASSUME NEW a, NEW b
        PROVE  [State(t, g, h, m, a) EXCEPT !.over = b] = State(t, g, h, m, b)
    BY DEF State
  <2>7. left = State(t, g, h, m, o)
    BY <2>5, <2>6
  <2> QED BY <2>3, <2>7 DEF State, g, h, m
<1>12. left \in Run(prog)[Fuel]
  <2>1. Ended(prog, left)
    BY <1>11 DEF Ended
  <2> HIDE DEF left
  <2> QED BY <1>10, <2>1, EndedStays
<1> QED BY <1>1, <1>2, <1>3, <1>11, <1>12

(* After a reset the reference is at its beginning.                         *)
Restarted == /\ id = Empty /\ ex = Empty /\ me = Empty /\ wb = Empty /\ pc = TextStart
         /\ gpr = [r \in Reg |-> 0] /\ fpr = [r \in FReg |-> 0] /\ mem = InitialData

LEMMA RestartIsAligned == Restarted => Aligned
<1> SUFFICES ASSUME Restarted PROVE Aligned
  OBVIOUS
<1>1. /\ id.i = Bubble /\ ex.i = Bubble /\ me.i = Bubble /\ wb.i = Bubble
      /\ id.pc = 0 /\ ex.pc = 0 /\ Bubble.op = "nop"
  BY BubbleIs DEF Restarted
<1>2. InOrder
  BY <1>1 DEF InOrder, Fetches, OfText, Link
<1>3. Operands /\ Leads
  BY <1>1 DEF Operands, Leads, Uses
<1>4. Held = Loaded
  <2>1. meNext.i = Bubble
    BY <1>1 DEF meNext, Restarted, Empty
  <2>2. GprAfter(meNext, GprAfter(wb, gpr)) = gpr /\ FprAfter(meNext, FprAfter(wb, fpr)) = fpr
    BY <1>1, <2>1, Quiet DEF CoprocessorOp, Arithmetic
  <2>3. memMEM = mem
    BY <1>1 DEF memMEM, MemWrite
  <2>4. Upcoming = pc
    BY <1>1 DEF Upcoming
  <2> QED BY <1>1, <2>2, <2>3, <2>4 DEF Held, Loaded, Restarted
<1>5. Held \in Run(prog)[0] /\ 0 \in 0 .. Fuel
  BY <1>4, RunIs, FuelAssumption DEF FuelAssumption
<1> QED BY <1>2, <1>3, <1>5 DEF Aligned, Reached

LEMMA RestartIsAlignedNext == Restarted' => Aligned'
BY RestartIsAligned, PTL

LEMMA SequentialInit == Init => SequentialInv
<1> SUFFICES ASSUME Init PROVE SequentialInv
  OBVIOUS
<1>1. Restarted /\ ready
  BY DEF Init, Restarted
<1> QED BY <1>1, RestartIsAligned DEF SequentialInv

LEMMA SequentialStep == FlexInv /\ ServiceInv /\ SequentialInv /\ UserStep => SequentialInv'
<1> SUFFICES ASSUME FlexInv, ServiceInv, SequentialInv, UserStep, FaithfulInteger'
             PROVE  /\ (ready /\ end = "none" => Aligned)'
                    /\ (~ready => Sequential)'
  BY DEF SequentialInv
<1>1. FlexInv'
  BY UserFits
<1>2. CASE Drive
  <2>1. PICK work \in { Worked(g) : g \in Garbage }, garbled \in CopGarbage :
          \/ ThrowCP1(work.fpu)
          \/ ThrowEX(work.fpu, garbled)
          \/ ReturnMEM(work.fpu, garbled)
          \/ ThrowIF(work.fpu, garbled)
          \/ Complete(work.fpu, work.out, garbled)
    BY <1>2 DEF Drive, NextCycle
  <2> DEFINE f == work.fpu
  <2>2. ready /\ end = "none" /\ UNCHANGED <<prog, status>>
    BY <1>2, <2>1 DEF Drive, ThrowCP1, ThrowEX, ReturnMEM, ThrowIF, Complete, Cycle
  <2>3. FaithfulInteger /\ Aligned
    BY <2>2 DEF FaithfulInteger, SequentialInv
  <2>4. Served /\ PlainStages /\ ~fpStall
    <3>1. Faithful /\ Integer(prog) /\ AllCounted
      BY <2>3, OfTextIs DEF Faithful, AllCounted
    <3> QED BY <2>2, <3>1 DEF ServiceInv, IntegerInv
  <2>5. CASE ThrowCP1(f)
    BY <2>2, <2>5 DEF ThrowCP1, Cycle
  <2>6. CASE ThrowEX(f, garbled)
    BY <2>2, <2>6 DEF ThrowEX, Cycle
  <2>7. CASE ReturnMEM(f, garbled)
    <3>1. ex.i.op # "syscall"
      BY <2>3, <2>4, <2>7, ServedUpToDate DEF ReturnMEM, Aligned
    <3>2. ready'
      BY <2>2, <2>7, <3>1 DEF ReturnMEM, Executed, readyEX, Serves
    <3> QED BY <2>7, <3>2 DEF ReturnMEM, Cycle
  <2>8. CASE ThrowIF(f, garbled)
    <3>1. Executed(f, garbled) /\ fpr' = fprWB /\ mem' = memMEM /\ end' = "IF"
      BY <2>8 DEF ThrowIF, Cycle
    <3>2. ~ready' => Sequential'
      BY <2>2, <2>3, <2>4, <3>1, ExitLeaves
    <3> QED BY <3>1, <3>2
  <2>9. CASE Complete(f, work.out, garbled)
    <3>1. Executed(f, garbled) /\ fpr' = fprWB /\ mem' = memMEM
      BY <2>9 DEF Complete, Cycle
    <3>2. ~ready' => Sequential'
      BY <2>2, <2>3, <2>4, <3>1, ExitLeaves
    <3>3. ready' => Aligned'
      <4>1. Moves(f, garbled) /\ InOrder
        BY <2>3, <2>4, <2>9, IntegerMoves DEF Aligned
      <4> HIDE DEF f
      <4>2. InOrder' /\ Operands' /\ Leads'
        BY <1>1, <2>3, <4>1, OrderIsKept, OperandsAreKept, LeadsIsKept
      <4>3. ready' => Reached'
        BY <1>1, <2>2, <2>3, <2>4, <4>1, ReachedIsKept
      <4> QED BY <4>2, <4>3 DEF Aligned
    <3> QED BY <3>2, <3>3
  <2> QED BY <2>1, <2>5, <2>6, <2>7, <2>8, <2>9
<1>3. CASE Again
  <2>1. Reset
    BY <1>3 DEF Again, Reconfigure, EnableHazardDetectionUnit,
                EnableForwardingUnit, ChangeBranchStage, ChangeBranchType, Configure
  <2>2. Restarted' /\ ready'
    BY <2>1 DEF Reset, ResetCpu, ResetID, ResetMEM, Restarted
  <2> QED BY <2>2, RestartIsAlignedNext
<1>4. CASE UNCHANGED vars
  <2>1. UNCHANGED <<prog, status, pc, gpr, fpr, mem, ready, id, ex, me, wb, end>>
    BY <1>4 DEF vars, registers, pipe
  <2>2. FaithfulInteger
    BY <2>1 DEF FaithfulInteger
  <2>3. Sequential => Sequential'
    BY <2>1 DEF Sequential, LeftBy
  <2>4. Held' = Held /\ MemError' = MemError /\ ExA' = ExA /\ ExB' = ExB /\ Upcoming' = Upcoming
    <3>1. meNext' = meNext /\ memMEM' = memMEM /\ Upcoming' = Upcoming
      BY <2>1 DEF meNext, memMEM, Upcoming, WordRead, WordWritten
    <3>2. ExA' = ExA /\ ExB' = ExB /\ MemError' = MemError
      BY <2>1 DEF ExA, ExB, MemError
    <3> QED BY <2>1, <3>1, <3>2 DEF Held
  <2>5. Aligned => Aligned'
    <3>1. InOrder => InOrder'
      BY <2>1 DEF InOrder, Fetches, OfText
    <3>2. Operands => Operands'
      BY <2>1, <2>4 DEF Operands
    <3>3. Leads => Leads'
      BY <2>1, <2>4 DEF Leads
    <3>4. Reached => Reached'
      BY <2>1, <2>4 DEF Reached, AllEnd
    <3> QED BY <3>1, <3>2, <3>3, <3>4 DEF Aligned
  <2> QED BY <2>1, <2>2, <2>3, <2>5 DEF SequentialInv
<1> QED BY <1>2, <1>3, <1>4 DEF UserStep

(* An integer program that has called its exit service has left what it     *)
(* leaves when its instructions are executed one after the other: in every  *)
(* reachable state, for every program, configuration, machine word and      *)
(* data region the property speaks of, and after any number of resets.      *)
THEOREM IntegerProgramsAreSequential == UserSpec => []IntegerResultsAreSequential
<1>1. Init => FlexInv /\ ServiceInv /\ SequentialInv
  BY InitFits, ServiceInit, SequentialInit
<1>2. FlexInv /\ ServiceInv /\ SequentialInv /\ [Drive \/ Again]_vars
        => (FlexInv /\ ServiceInv /\ SequentialInv)'
  BY UserFits, ServiceStep, SequentialStep DEF UserStep
<1>3. SequentialInv => IntegerResultsAreSequential
  BY DEF SequentialInv, IntegerResultsAreSequential
<1> QED BY <1>1, <1>2, <1>3, PTL DEF UserSpec

=============================================================================
