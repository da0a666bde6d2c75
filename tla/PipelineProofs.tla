---------------------------- MODULE PipelineProofs ----------------------------
(***************************************************************************)
(* Proofs about CpuPipelined for every program, register file and          *)
(* configuration: its types, that a service call runs alone, and that the  *)
(* hazard detection unit gives every instruction it watches its operands.  *)
(***************************************************************************)
EXTENDS PipelineProperties, Microcode, TLAPS

-----------------------------------------------------------------------------
(* Arithmetic on machine words stays within them.                           *)
LEMMA WordArithmetic ==
  \A a, b \in Word : /\ Plus(a, b) \in Word /\ Plus(a, 1) \in Word
                     /\ Minus(a, b) \in Word /\ Minus(a, 1) \in Word
                     /\ Times(a, b) \in Word
<1>1. WordSize \in Nat /\ WordSize > 0
  BY WordSizeAssumption DEF WordSizeAssumption
<1>2. \A x \in Int : x % WordSize \in 0 .. WordSize - 1
  BY <1>1
<1>3. ASSUME NEW a \in Word, NEW b \in Word
      PROVE  a + b \in Int /\ a + 1 \in Int /\ a - b \in Int /\ a - 1 \in Int /\ a * b \in Int
  BY <1>1 DEF Word
<1> QED BY <1>2, <1>3 DEF Plus, Minus, Times, Word

LEMMA TextWord == TextAddr \subseteq Word /\ 0 \in Word /\ 1 \in Int /\ TextStart \in Word
  BY TextAssumption, WordSizeAssumption
  DEF TextAssumption, WordSizeAssumption, TextAddr, Word

LEMMA NopType == Nop \in Instr
  BY RegAssumption, TextWord DEF RegAssumption, Nop, Instr, Op

LEMMA RegDestType == ASSUME NEW i \in Instr PROVE RegDest(i) \in Reg
  BY RegAssumption DEF RegAssumption, RegDest, Instr

LEMMA AluOutputType ==
  ASSUME NEW i \in Instr, NEW a \in Word, NEW b \in Word
  PROVE  AluOutput(i, a, b) \in Word
<1>1. i.imm \in Word
  BY DEF Instr
<1>2. Plus(a, b) \in Word /\ Plus(a, i.imm) \in Word /\ Minus(a, b) \in Word
  BY <1>1, WordArithmetic
<1> QED BY <1>1, <1>2 DEF AluOutput

LEMMA BubbleTypes ==
  /\ IfIdBubble \in IfIdReg /\ IdExBubble \in IdExReg
  /\ ExMemBubble \in ExMemReg /\ MemWbBubble \in MemWbReg
  BY NopType, TextWord
  DEF IfIdBubble, IdExBubble, ExMemBubble, MemWbBubble, IfIdReg, IdExReg, ExMemReg, MemWbReg

-----------------------------------------------------------------------------
(* The values the stages leave have the types of the state they go to.      *)
LEMMA WriteBackTypes ==
  ASSUME TypeOK
  PROVE  WbValue \in Word /\ gprWB \in [Reg -> Word] /\ fprWB \in [Reg -> Word]
<1>1. memwb.i \in Instr /\ memwb.pc \in Word /\ memwb.alu \in Word /\ memwb.word \in Word
  BY DEF TypeOK, MemWbReg
<1>2. WbValue \in Word
  BY <1>1 DEF WbValue
<1>3. RegDest(memwb.i) \in Reg
  BY <1>1, RegDestType
<1> QED BY <1>2, <1>3 DEF TypeOK, gprWB, fprWB

LEMMA MemTypes ==
  ASSUME TypeOK
  PROVE  /\ flushMEM \in {0, 1, 3} /\ pcMEM \in Word /\ nextPcMEM \in Word
         /\ ~MemThrows => memMEM \in [DataAddr -> Word] /\ memwbNext \in MemWbReg
<1>1. /\ exmem.i \in Instr /\ exmem.pc \in Word /\ exmem.b \in Word
      /\ exmem.alu \in Word /\ exmem.target \in Word
  BY DEF TypeOK, ExMemReg
<1>2. Minus(exmem.pc, 1) \in Word
  BY <1>1, WordArithmetic
<1>3. WordSize - 1 \in Word
  BY WordSizeAssumption DEF WordSizeAssumption, Word
<1>4. memMEM \in [DataAddr -> Word]
  BY <1>1 DEF memMEM, TypeOK
<1>5. ~MemThrows => memwbNext \in MemWbReg
  BY <1>1, <1>3 DEF memwbNext, MemWbReg, MemThrows, TypeOK
<1> QED BY <1>1, <1>2, <1>4, <1>5 DEF flushMEM, pcMEM, nextPcMEM, TypeOK

LEMMA ForwardType ==
  ASSUME TypeOK, NEW r \in Reg, NEW v \in Word, NEW fp \in BOOLEAN
  PROVE  Forward(r, v, fp) \in Word
<1>1. exmem.alu \in Word
  BY DEF TypeOK, ExMemReg
<1> QED BY <1>1, WriteBackTypes DEF Forward

LEMMA ExTypes ==
  ASSUME TypeOK
  PROVE  /\ GprEX \subseteq [Reg -> Word] /\ hiloEX \in Word
         /\ readyEX \in BOOLEAN /\ exmemNext \in ExMemReg
<1>1. /\ idex.i \in Instr /\ idex.pc \in Word /\ idex.a \in Word /\ idex.b \in Word
      /\ idex.i.rs \in Reg /\ idex.i.rt \in Reg /\ idex.i.imm \in Word
  BY DEF TypeOK, IdExReg, Instr
<1>2. (idex.i.op = "swc1") \in BOOLEAN
  OBVIOUS
<1>3. ExA \in Word /\ ExB \in Word
  BY <1>1, <1>2, ForwardType DEF ExA, ExB
<1>4. GprEX \subseteq [Reg -> Word]
  BY WriteBackTypes, StateAssumption DEF StateAssumption, GprEX
<1>5. hiloEX \in Word
  BY <1>3, WordArithmetic DEF hiloEX, TypeOK
<1>6. readyEX \in BOOLEAN
  BY DEF readyEX, TypeOK
<1>7. AluOutput(idex.i, ExA, ExB) \in Word
  BY <1>1, <1>3, AluOutputType
<1>8. Plus(idex.pc, idex.i.imm) \in Word
  BY <1>1, WordArithmetic
<1>9. Taken(idex.i, ExA, ExB) \in BOOLEAN
  BY DEF Taken
<1>10. exmemNext \in ExMemReg
  BY <1>1, <1>3, <1>7, <1>8, <1>9 DEF exmemNext, ExMemReg
<1> QED BY <1>4, <1>5, <1>6, <1>10

LEMMA IdTypes ==
  ASSUME TypeOK, NEW g \in [Reg -> Word]
  PROVE  /\ flushID(g) \in {0, 1, 3} /\ pcID(g) \in Word
         /\ IdTarget(g) \in Word /\ idexNext(g) \in IdExReg
<1>1. /\ ifid.i \in Instr /\ ifid.pc \in Word
      /\ ifid.i.rs \in Reg /\ ifid.i.rt \in Reg /\ ifid.i.imm \in Word
  BY DEF TypeOK, IfIdReg, Instr
<1>2. Plus(ifid.pc, ifid.i.imm) \in Word /\ Minus(ifid.pc, 1) \in Word
  BY <1>1, WordArithmetic
<1>3. g[ifid.i.rs] \in Word /\ g[ifid.i.rt] \in Word /\ fprWB[ifid.i.rt] \in Word
  BY <1>1, WriteBackTypes
<1>4. IdTarget(g) \in Word
  BY <1>1, <1>2, <1>3 DEF IdTarget
<1>5. idexNext(g) \in IdExReg
  BY <1>1, <1>3, BubbleTypes DEF idexNext, IdExReg
<1> QED BY <1>2, <1>4, <1>5, MemTypes DEF flushID, pcID

LEMMA IfTypes ==
  ASSUME TypeOK, NEW g \in [Reg -> Word], ~IfThrows(g)
  PROVE  pcIF(g) \in Word /\ ifidNext(g) \in IfIdReg
<1>1. Plus(pcID(g), 1) \in Word
  BY IdTypes, WordArithmetic
<1>2. pcIF(g) \in Word
  BY <1>1, IdTypes DEF pcIF
<1>3. prog[pcID(g)] \in Instr
  BY DEF TypeOK, IfThrows
<1> QED BY <1>2, <1>3 DEF ifidNext, IfIdReg, TypeOK

-----------------------------------------------------------------------------
(* Every step keeps the types.                                              *)
LEMMA InitType == Init => TypeOK
<1> SUFFICES ASSUME Init PROVE TypeOK
  OBVIOUS
<1>1. prog \in [TextAddr -> Instr] /\ status \in Status
  BY SetupAssumption DEF Init, SetupAssumption
<1>2. cycle \in 0 .. MaxDiagram
  BY StateAssumption DEF Init, StateAssumption
<1>3. mem \in [DataAddr -> Word]
  BY StateAssumption DEF Init, StateAssumption
<1> QED BY <1>1, <1>2, <1>3, TextWord, BubbleTypes DEF Init, TypeOK

LEMMA TickType ==
  ASSUME TypeOK, NEW end, Tick(end),
         end \in {"none", "WB", "MEM", "EX", "ID", "IF", "diagram", "abort"}
  PROVE  /\ prog' \in [TextAddr -> Instr] /\ status' \in Status
         /\ cycle' \in 0 .. MaxDiagram
         /\ thrown' \in {"none", "WB", "MEM", "EX", "ID", "IF", "diagram", "abort"}
  BY StateAssumption DEF StateAssumption, Tick, TypeOK

LEMMA BackEndType ==
  ASSUME TypeOK, BackEnd
  PROVE  /\ gpr' \in [Reg -> Word] /\ fpr' \in [Reg -> Word] /\ hilo' \in Word
         /\ mem' \in [DataAddr -> Word] /\ ready' \in BOOLEAN
         /\ memwbNext \in MemWbReg
  BY WriteBackTypes, MemTypes, ExTypes DEF BackEnd

LEMMA CompleteType == ASSUME TypeOK, Complete PROVE TypeOK'
<1> DEFINE f == flushID(gpr')
<1>1. /\ gpr' \in [Reg -> Word] /\ fpr' \in [Reg -> Word] /\ hilo' \in Word
      /\ mem' \in [DataAddr -> Word] /\ ready' \in BOOLEAN /\ memwbNext \in MemWbReg
  BY BackEndType DEF Complete
<1>2. idexNext(gpr') \in IdExReg
  BY <1>1, IdTypes
<1>3. pcIF(gpr') \in Word /\ ifidNext(gpr') \in IfIdReg
  BY <1>1, IfTypes DEF Complete
<1>4. /\ ifid' \in IfIdReg /\ idex' \in IdExReg
      /\ exmem' \in ExMemReg /\ memwb' \in MemWbReg
  BY <1>1, <1>2, <1>3, ExTypes, BubbleTypes DEF Complete, Advance
<1>5. pc' \in Word /\ flush' \in {0, 1, 3} /\ nextPc' \in Word
  BY <1>3, MemTypes, TextWord DEF Complete
<1>6. /\ prog' \in [TextAddr -> Instr] /\ status' \in Status
      /\ cycle' \in 0 .. MaxDiagram /\ thrown' = "none"
  BY TickType DEF Complete, Tick
<1> QED BY <1>1, <1>4, <1>5, <1>6 DEF TypeOK

LEMMA NextCycleType == ASSUME TypeOK, NextCycle PROVE TypeOK'
<1>1. CASE ThrowWB
  <2>1. /\ prog' \in [TextAddr -> Instr] /\ status' \in Status
        /\ cycle' \in 0 .. MaxDiagram /\ thrown' = "WB"
    BY <1>1, TickType DEF ThrowWB, Tick
  <2> QED BY <1>1, <2>1 DEF ThrowWB, TypeOK, segRegs
<1>2. CASE ThrowMEM
  <2>1. /\ prog' \in [TextAddr -> Instr] /\ status' \in Status
        /\ cycle' \in 0 .. MaxDiagram /\ thrown' = "MEM"
    BY <1>2, TickType DEF ThrowMEM, Tick
  <2> QED BY <1>2, <2>1, WriteBackTypes DEF ThrowMEM, TypeOK, segRegs
<1>3. CASE ThrowEX
  <2>1. /\ prog' \in [TextAddr -> Instr] /\ status' \in Status
        /\ cycle' \in 0 .. MaxDiagram /\ thrown' = "EX"
    BY <1>3, TickType DEF ThrowEX, Tick
  <2> QED BY <1>3, <2>1, WriteBackTypes, MemTypes DEF ThrowEX, TypeOK, segRegs
<1>4. CASE ThrowID
  <2>1. /\ prog' \in [TextAddr -> Instr] /\ status' \in Status
        /\ cycle' \in 0 .. MaxDiagram /\ thrown' = "ID"
    BY <1>4, TickType DEF ThrowID, Tick
  <2> QED BY <1>4, <2>1, BackEndType, MemTypes DEF ThrowID, TypeOK, segRegs
<1>5. CASE ThrowIF \/ Overflow \/ Abort
  <2>1. BackEnd /\ ~IdThrows /\ UNCHANGED segRegs
    BY <1>5 DEF ThrowIF, Overflow, Abort
  <2>2. /\ prog' \in [TextAddr -> Instr] /\ status' \in Status
        /\ cycle' \in 0 .. MaxDiagram /\ thrown' \in {"IF", "diagram", "abort"}
    BY <1>5, TickType DEF ThrowIF, Overflow, Abort, Tick
  <2>3. gpr' \in [Reg -> Word]
    BY <2>1, BackEndType
  <2>4. pcID(gpr') \in Word /\ flushID(gpr') \in {0, 1, 3}
    BY <2>3, IdTypes
  <2>5. CASE ThrowIF
    BY <2>1, <2>2, <2>4, <2>5, BackEndType, MemTypes DEF ThrowIF, TypeOK, segRegs
  <2>6. CASE Overflow \/ Abort
    <3>1. pcIF(gpr') \in Word
      BY <2>3, <2>6, IfTypes DEF Overflow, Abort
    <3>2. pc' \in Word /\ flush' \in {0, 1, 3} /\ nextPc' \in Word
      BY <2>4, <2>6, <3>1, MemTypes DEF Overflow, Abort
    <3> QED BY <2>1, <2>2, <3>2, BackEndType DEF TypeOK, segRegs
  <2> QED BY <1>5, <2>5, <2>6
<1>6. CASE Complete
  BY <1>6, CompleteType
<1> QED BY <1>1, <1>2, <1>3, <1>4, <1>5, <1>6 DEF NextCycle

LEMMA ResetType == ASSUME TypeOK, Reset PROVE TypeOK'
  BY StateAssumption, TextWord, BubbleTypes DEF StateAssumption, Reset, TypeOK

LEMMA ReconfigureType == ASSUME TypeOK, Reconfigure PROVE TypeOK'
<1>1. ASSUME NEW key \in {"type", "stage", "fu", "hdu"}, NEW value,
             Configure(key, value), [status EXCEPT ![key] = value] \in Status
      PROVE  TypeOK'
  BY <1>1 DEF Configure, TypeOK, segRegs
<1>2. CASE \E e \in BOOLEAN : EnableHazardDetectionUnit(e)
  BY <1>1, <1>2 DEF EnableHazardDetectionUnit, Status, TypeOK
<1>3. CASE \E e \in BOOLEAN : EnableForwardingUnit(e)
  BY <1>1, <1>3 DEF EnableForwardingUnit, Status, TypeOK
<1>4. CASE \E s \in BranchStage : SetBranchStage(s)
  BY <1>1, <1>4 DEF SetBranchStage, Status, TypeOK
<1>5. CASE \E t \in BranchType : SetBranchType(t)
  BY <1>1, <1>5 DEF SetBranchType, Status, TypeOK
<1> QED BY <1>2, <1>3, <1>4, <1>5 DEF Reconfigure

(* The variables of the CPU keep their types, whatever is run and however   *)
(* the configuration is changed on the way.                                 *)
THEOREM TypeCorrect == Spec => []TypeOK
<1>1. Init => TypeOK
  BY InitType
<1>2. TypeOK /\ [Next]_vars => TypeOK'
  <2> SUFFICES ASSUME TypeOK, [Next]_vars PROVE TypeOK'
    OBVIOUS
  <2>1. CASE NextCycle
    BY <2>1, NextCycleType
  <2>2. CASE Reset
    BY <2>2, ResetType
  <2>3. CASE Reconfigure
    BY <2>3, ReconfigureType
  <2>4. CASE UNCHANGED vars
    BY <2>4 DEF vars, segRegs, TypeOK
  <2> QED BY <2>1, <2>2, <2>3, <2>4 DEF Next
<1> QED BY <1>1, <1>2, PTL DEF Spec

-----------------------------------------------------------------------------
(* A service call runs alone.  The invariant is inductive as it stands: the *)
(* registers move in Complete only, and stage_id lets a syscall into ID/EX  *)
(* in a cycle that found nothing in ID/EX and EX/MEM.                       *)
LEMMA BubbleOps == /\ IdExBubble.i.op = "nop" /\ ExMemBubble.i.op = "nop"
                   /\ IfIdBubble.i.op = "nop" /\ MemWbBubble.i.op = "nop"
  BY DEF IdExBubble, ExMemBubble, IfIdBubble, MemWbBubble, Nop

LEMMA OthersHold ==
  ASSUME NextCycle, ~Complete
  PROVE  UNCHANGED segRegs /\ UNCHANGED status
  BY DEF NextCycle, ThrowWB, ThrowMEM, ThrowEX, ThrowID, ThrowIF, Overflow, Abort, Tick

LEMMA CompleteAlone == ASSUME Complete PROVE SyscallAlone'
<1> SUFFICES ASSUME idex'.i.op = "syscall"
             PROVE  exmem'.i.op = "nop" /\ memwb'.i.op = "nop"
  BY DEF SyscallAlone
<1>1. idex' = idexNext(gpr') /\ ~Stall
  BY BubbleOps DEF Complete, Advance, idexNext
<1>2. ifid.i.op = "syscall"
  BY <1>1 DEF idexNext
<1>3. idex.i.op = "nop" /\ exmem.i.op = "nop"
  BY <1>1, <1>2 DEF Stall, SyscallWaits
<1> QED BY <1>3, BubbleOps DEF Complete, Advance, exmemNext, memwbNext

(* A service call in EX has nothing older in front of it.                   *)
THEOREM SyscallRunsAlone == Spec => []SyscallAlone
<1>1. Init => SyscallAlone
  BY BubbleOps DEF Init, SyscallAlone
<1>2. SyscallAlone /\ [Next]_vars => SyscallAlone'
  <2> SUFFICES ASSUME SyscallAlone, [Next]_vars PROVE SyscallAlone'
    OBVIOUS
  <2>1. CASE Complete
    BY <2>1, CompleteAlone
  <2>2. CASE NextCycle /\ ~Complete
    BY <2>2, OthersHold DEF segRegs, SyscallAlone
  <2>3. CASE Reset
    BY <2>3, BubbleOps DEF Reset, SyscallAlone
  <2>4. CASE Reconfigure
    BY <2>4 DEF Reconfigure, EnableHazardDetectionUnit, EnableForwardingUnit,
                SetBranchStage, SetBranchType, Configure, segRegs, SyscallAlone
  <2>5. CASE UNCHANGED vars
    BY <2>5 DEF vars, segRegs, SyscallAlone
  <2> QED BY <2>1, <2>2, <2>3, <2>4, <2>5 DEF Next
<1> QED BY <1>1, <1>2, PTL DEF Spec

-----------------------------------------------------------------------------
(* The hazard detection unit, while the configuration stays what it was     *)
(* when the program was started.                                            *)
LEMMA FixedTypes == FixedSpec => []TypeOK
<1>1. [NextCycle \/ Reset]_vars => [Next]_vars
  BY DEF Next
<1> QED BY <1>1, TypeCorrect, PTL DEF FixedSpec, Spec

LEMMA CompleteReady == ASSUME TypeOK, Complete PROVE OperandsReady'
<1>1. status' = status /\ status.stage \in {"ID", "MEM"}
  BY DEF Complete, Tick, TypeOK, Status, BranchStage
<1> SUFFICES ASSUME status.hdu, idex'.i.op \notin {"nop", "lui", "syscall"},
                    ~idex'.i.low12
             PROVE  HasOperands(idex.i)'
  BY <1>1 DEF OperandsReady
<1>2. idex'.i = ifid.i /\ ~Stall
  BY BubbleOps DEF Complete, Advance, idexNext
<1>3. ~Hazard(ifid.i.rs, FALSE) /\ (ReadsRt(ifid.i) => ~Hazard(ifid.i.rt, ifid.i.op = "swc1"))
  BY <1>2 DEF Stall, OperandWaits
<1>4. memwb'.i = exmem.i /\ (exmem'.i = idex.i \/ exmem'.i = Nop)
  BY DEF Complete, Advance, memwbNext, exmemNext, ExMemBubble
<1>5. \A r, fp : ~Writes(Nop, r, fp)
  BY DEF Writes, RegWrite, Nop
<1>6. ASSUME NEW r, NEW fp, ~Hazard(r, fp)
      PROVE  IF status.fu /\ ~(Conditional(ifid.i) /\ status.stage = "ID")
             THEN ~(MemRead(exmem'.i) /\ Writes(exmem'.i, r, fp))
             ELSE ~Writes(exmem'.i, r, fp) /\ ~Writes(memwb'.i, r, fp)
  BY <1>1, <1>4, <1>5, <1>6 DEF Hazard, CanForward
<1> QED BY <1>1, <1>2, <1>3, <1>6 DEF HasOperands, HasOperand

(* What the hazard unit lets into EX finds its operands.                    *)
THEOREM HazardUnitInterlocks == FixedSpec => []OperandsReady
<1>1. Init => OperandsReady
  BY BubbleOps DEF Init, OperandsReady
<1>2. TypeOK /\ OperandsReady /\ [NextCycle \/ Reset]_vars => OperandsReady'
  <2> SUFFICES ASSUME TypeOK, OperandsReady, [NextCycle \/ Reset]_vars
               PROVE  OperandsReady'
    OBVIOUS
  <2>1. CASE Complete
    BY <2>1, CompleteReady
  <2>2. CASE NextCycle /\ ~Complete
    BY <2>2, OthersHold DEF segRegs, OperandsReady, HasOperands, HasOperand
  <2>3. CASE Reset
    BY <2>3, BubbleOps DEF Reset, OperandsReady
  <2>4. CASE UNCHANGED vars
    BY <2>4 DEF vars, segRegs, OperandsReady, HasOperands, HasOperand
  <2> QED BY <2>1, <2>2, <2>3, <2>4
<1> QED BY <1>1, <1>2, FixedTypes, PTL DEF FixedSpec
-----------------------------------------------------------------------------
(* Under flush an instruction is in front of the address kept with it, so   *)
(* that the addresses to which ID and MEM put the PC back lie in the text.  *)
LEMMA TextBounds ==
  /\ TextStart \in Int /\ TextEnd \in Int /\ TextStart > 0
  /\ WordSize \in Int /\ TextEnd <= WordSize - 2 /\ TextStart <= TextEnd
  BY TextAssumption, WordSizeAssumption DEF TextAssumption, WordSizeAssumption, Word

LEMMA BackAndForth ==
  /\ \A x \in Word : Plus(Minus(x, 1), 1) = x
  /\ \A x \in TextAddr : Minus(Plus(x, 1), 1) = x
<1>1. WordSize \in Nat /\ WordSize > 0
  BY WordSizeAssumption DEF WordSizeAssumption
<1>2. ASSUME NEW x \in Word PROVE Plus(Minus(x, 1), 1) = x
  <2>1. CASE x = 0
    <3>1. Minus(x, 1) = WordSize - 1
      BY <1>1, <2>1 DEF Minus
    <3> QED BY <1>1, <2>1, <3>1 DEF Plus
  <2>2. CASE x # 0
    <3>1. Minus(x, 1) = x - 1
      BY <1>1, <2>2 DEF Minus, Word
    <3> QED BY <1>1, <2>2, <3>1 DEF Plus, Word
  <2> QED BY <2>1, <2>2
<1>3. ASSUME NEW x \in TextAddr PROVE Minus(Plus(x, 1), 1) = x
  <2>1. Plus(x, 1) = x + 1
    BY TextBounds DEF Plus, TextAddr
  <2> QED BY <2>1, TextBounds DEF Minus, TextAddr
<1> QED BY <1>2, <1>3

(* Under flush an instruction is in front of the address next to it, so a   *)
(* branch to whose address MEM puts the PC back is fetched again.           *)
InFront(seg) ==
  seg.i.op # "nop" => Minus(seg.pc, 1) \in TextAddr /\ prog[Minus(seg.pc, 1)] = seg.i

Placed == status.type = "flush" => InFront(ifid) /\ InFront(idex) /\ InFront(exmem)

LEMMA CompletePlaced == ASSUME Placed, Complete PROVE Placed'
<1>1. prog' = prog /\ status' = status /\ pcID(gpr') \in TextAddr
  BY DEF Complete, Tick, IfThrows
<1> SUFFICES ASSUME status.type = "flush"
             PROVE  InFront(ifid)' /\ InFront(idex)' /\ InFront(exmem)'
  BY <1>1 DEF Placed
<1>2. InFront(ifid) /\ InFront(idex)
  BY DEF Placed
<1> DEFINE f == flushID(gpr')
<1>3. /\ ifid' = IF f > 0 THEN IfIdBubble ELSE ifidNext(gpr')
      /\ idex' = IF f > 1 THEN IdExBubble ELSE idexNext(gpr')
      /\ exmem' = IF f > 2 THEN ExMemBubble ELSE exmemNext
  BY DEF Complete, Advance
<1>4. IdFlush(gpr') => f = 1
  BY DEF flushID
<1> HIDE DEF f
<1>5. InFront(exmem)'
  BY <1>1, <1>2, <1>3, BubbleOps DEF InFront, exmemNext
<1>6. InFront(idex)'
  <2>1. idex' = IdExBubble \/ (idex'.i = ifid.i /\ idex'.pc = ifid.pc)
    BY <1>3 DEF idexNext
  <2> QED BY <1>1, <1>2, <2>1, BubbleOps DEF InFront
<1>7. InFront(ifid)'
  <2>1. CASE f > 0
    BY <1>3, <2>1, BubbleOps DEF InFront
  <2>2. CASE ~(f > 0) /\ Stall
    BY <1>1, <1>2, <1>3, <2>2 DEF InFront, ifidNext
  <2>3. CASE ~(f > 0) /\ ~Stall
    <3>1. ~IdFlush(gpr')
      BY <1>4, <2>3
    <3>2. ifid'.i = prog[pcID(gpr')] /\ ifid'.pc = Plus(pcID(gpr'), 1)
      BY <1>3, <2>3, <3>1 DEF ifidNext, pcIF, IdTaken, IdFlush
    <3>3. Minus(ifid'.pc, 1) = pcID(gpr')
      BY <1>1, <3>2, BackAndForth
    <3> QED BY <1>1, <3>2, <3>3 DEF InFront
  <2> QED BY <2>1, <2>2, <2>3
<1> QED BY <1>5, <1>6, <1>7

LEMMA FixedPlaced == FixedSpec => []Placed
<1>1. Init => Placed
  BY BubbleOps DEF Init, Placed, InFront
<1>2. Placed /\ [NextCycle \/ Reset]_vars => Placed'
  <2> SUFFICES ASSUME Placed, [NextCycle \/ Reset]_vars PROVE Placed'
    OBVIOUS
  <2>1. CASE Complete
    BY <2>1, CompletePlaced
  <2>2. CASE NextCycle /\ ~Complete
    <3>1. prog' = prog
      BY <2>2 DEF NextCycle, ThrowWB, ThrowMEM, ThrowEX, ThrowID, ThrowIF, Overflow, Abort, Tick
    <3> QED BY <2>2, <3>1, OthersHold DEF segRegs, Placed, InFront
  <2>3. CASE Reset
    BY <2>3, BubbleOps DEF Reset, Placed, InFront
  <2>4. CASE UNCHANGED vars
    BY <2>4 DEF vars, Placed, InFront
  <2> QED BY <2>1, <2>2, <2>3, <2>4
<1> QED BY <1>1, <1>2, PTL DEF FixedSpec

-----------------------------------------------------------------------------
(* A cycle that threw throws again.  What made it throw is still there: in  *)
(* the segmentation registers, in the count of cycles, or as a PC outside   *)
(* the text that no flush puts back.                                        *)
OffText == /\ pc \notin TextAddr
           /\ ~(MemFlush /\ ~exmem.taken)
           /\ ~(status.type = "flush" /\ Branch(ifid.i))

Stuck == thrown # "none" => \/ thrown = "abort"
                            \/ cycle + 1 >= MaxDiagram
                            \/ WbThrows \/ MemThrows \/ ExThrows \/ IdThrows
                            \/ OffText

(* The PC is next to the instruction in ID.                                 *)
Follows ==
  thrown = "none" =>
    /\ flush = 0 /\ nextPc = 0
    /\ status.type = "flush" /\ ifid.i.op # "nop" => pc = ifid.pc

(* The last word of the text is no branch: setup_memory ends it with zeros. *)
EndsInZero == ~Branch(prog[TextEnd])

ThrowInv ==
  TypeOK /\ SyscallAlone /\ Placed /\ Follows /\ Stuck /\ EndsInZero

LEMMA StaysThrown == ASSUME ThrowInv, thrown # "none", NextCycle PROVE thrown' # "none"
<1> SUFFICES ASSUME Complete PROVE FALSE
  BY DEF NextCycle, ThrowWB, ThrowMEM, ThrowEX, ThrowID, ThrowIF, Overflow, Abort, Tick
<1>1. OffText
  BY StateAssumption DEF ThrowInv, Stuck, Complete, BackEnd, Tick, Running, TypeOK,
                         StateAssumption
<1>2. pcID(gpr') = pc
  BY <1>1 DEF OffText, pcID, pcMEM, IdFlush, IdBranch
<1> QED BY <1>1, <1>2 DEF OffText, Complete, IfThrows

(* A cycle fetches outside the text when the PC was there already.          *)
LEMMA FetchesOffText ==
  ASSUME ThrowInv, thrown = "none", NEW g, IfThrows(g)
  PROVE  OffText /\ pcID(g) = pc
<1>1. status.type \in {"flush", "non_taken", "delayed"}
  BY DEF ThrowInv, TypeOK, Status, BranchType
<1>2. CASE status.type # "flush"
  <2>1. pcMEM = pc /\ ~(MemFlush /\ ~exmem.taken)
    BY <1>1, <1>2 DEF pcMEM, MemFlush
  <2>2. pcID(g) = pcMEM
    BY <1>1, <1>2 DEF pcID, IdFlush
  <2> QED BY <1>2, <2>1, <2>2 DEF IfThrows, OffText
<1>3. CASE status.type = "flush"
  <2>1. InFront(ifid) /\ InFront(exmem) /\ (ifid.i.op # "nop" => pc = ifid.pc)
    BY <1>3 DEF ThrowInv, Placed, Follows
  <2>2. MemFlush => Minus(exmem.pc, 1) \in TextAddr
    BY <2>1 DEF MemFlush, MemBranch, InFront, Branch
  <2>3. Branch(ifid.i) => pc \in TextAddr /\ Minus(ifid.pc, 1) \in TextAddr
    <3> SUFFICES ASSUME Branch(ifid.i) PROVE pc \in TextAddr /\ Minus(ifid.pc, 1) \in TextAddr
      OBVIOUS
    <3>1. /\ Minus(ifid.pc, 1) \in TextAddr /\ prog[Minus(ifid.pc, 1)] = ifid.i
          /\ pc = ifid.pc /\ ifid.pc \in Word
      BY <2>1 DEF InFront, Branch, ThrowInv, TypeOK, IfIdReg
    <3>2. Minus(ifid.pc, 1) # TextEnd
      BY <3>1 DEF ThrowInv, EndsInZero
    <3> DEFINE p == Minus(ifid.pc, 1)
    <3>3. Plus(p, 1) = ifid.pc
      BY <3>1, BackAndForth
    <3> HIDE DEF p
    <3>4. p \in TextStart .. TextEnd - 1
      BY <3>1, <3>2, TextBounds DEF TextAddr, p
    <3>5. Plus(p, 1) = p + 1
      BY <3>4, TextBounds DEF Plus
    <3> QED BY <3>1, <3>3, <3>4, <3>5, TextBounds DEF TextAddr
  <2>4. pcID(g) \notin TextAddr
    BY DEF IfThrows
  <2>5. ~Branch(ifid.i)
    BY <2>2, <2>3, <2>4 DEF pcID, pcMEM
  <2>6. pcID(g) = pcMEM
    BY <2>5 DEF pcID, IdFlush, IdBranch
  <2>7. ~(MemFlush /\ ~exmem.taken)
    BY <2>2, <2>4, <2>6 DEF pcMEM
  <2>8. pcMEM = pc
    BY <2>7 DEF pcMEM
  <2> QED BY <2>4, <2>5, <2>6, <2>7, <2>8 DEF OffText
<1> QED BY <1>2, <1>3

LEMMA StuckKept == ASSUME ThrowInv, NextCycle PROVE Stuck'
<1>0. thrown' # "none" \/ Stuck'
  BY DEF Stuck
<1>1. CASE Complete
  BY <1>1 DEF Complete, Tick, Stuck
<1>2. CASE ~Complete
  <2>1. UNCHANGED segRegs /\ UNCHANGED status
    BY <1>2, OthersHold
  <2>2. UNCHANGED <<ifid, idex, exmem, memwb>>
    BY <2>1 DEF segRegs
  <2>3. CASE ThrowWB
    BY <2>2, <2>3 DEF ThrowWB, WbThrows, Stuck, RegWrite, FpBank, RegDest, RegDstRd, Link
  <2>4. CASE ThrowMEM
    BY <2>2, <2>4 DEF ThrowMEM, MemThrows, Stuck, MemRead, MemWrite
  <2>5. CASE ThrowEX
    <3>1. CASE idex.i.op = "mfhi"
      BY <2>2, <3>1 DEF ExThrows, Stuck
    <3>2. CASE idex.i.op = "syscall"
      <4>1. memwb.i.op = "nop" /\ ~Answered(gprWB)
        BY <2>5, <3>2 DEF ThrowInv, SyscallAlone, ThrowEX, ExThrows
      <4>2. gprWB = gpr /\ gprWB' = gpr'
        BY <2>2, <4>1 DEF gprWB, RegWrite
      <4>3. gprWB' = gprWB
        BY <2>5, <4>2 DEF ThrowEX
      <4> QED BY <2>2, <3>2, <4>1, <4>3 DEF ExThrows, Stuck
    <3> QED BY <2>5, <3>1, <3>2 DEF ThrowEX, ExThrows
  <2>6. CASE ThrowID
    BY <2>2, <2>6 DEF ThrowID, IdThrows, Stuck
  <2>7. CASE ThrowIF
    <3>1. CASE OffText
      <4>1. pcID(gpr') = pc
        BY <3>1 DEF OffText, pcID, pcMEM, IdFlush, IdBranch
      <4>2. OffText'
        BY <2>1, <2>2, <2>7, <3>1, <4>1
        DEF OffText, ThrowIF, MemFlush, MemBranch, Branch
      <4> QED BY <4>2 DEF Stuck
    <3>2. CASE ~OffText
      <4>1. thrown # "none"
        BY <2>7, <3>2, FetchesOffText DEF ThrowIF
      <4>2. cycle + 1 >= MaxDiagram
        BY <2>7, <3>2, <4>1 DEF ThrowInv, Stuck, ThrowIF, BackEnd, Tick, Running
      <4>3. cycle' + 1 >= MaxDiagram
        BY <2>7, <4>2, StateAssumption DEF ThrowIF, Tick, ThrowInv, TypeOK, StateAssumption
      <4> QED BY <4>3 DEF Stuck
    <3> QED BY <3>1, <3>2
  <2>8. CASE Overflow
    BY <2>8, StateAssumption DEF Overflow, Tick, ThrowInv, TypeOK, StateAssumption, Stuck
  <2>9. CASE Abort
    BY <2>9 DEF Abort, Tick, Stuck
  <2> QED BY <1>2, <2>3, <2>4, <2>5, <2>6, <2>7, <2>8, <2>9 DEF NextCycle
<1> QED BY <1>1, <1>2

LEMMA FollowsKept == ASSUME ThrowInv, NextCycle PROVE Follows'
<1> SUFFICES ASSUME thrown' = "none" PROVE Follows'
  BY DEF Follows
<1>1. Complete /\ thrown = "none"
  BY StaysThrown DEF NextCycle, ThrowWB, ThrowMEM, ThrowEX, ThrowID, ThrowIF, Overflow,
                     Abort, Tick
<1>2. flush' = 0 /\ nextPc' = 0 /\ status' = status
  BY <1>1 DEF Complete, Tick
<1> SUFFICES ASSUME status.type = "flush", ifid'.i.op # "nop" PROVE pc' = ifid'.pc
  BY <1>2 DEF Follows
<1>3. flush = 0 /\ nextPc = 0 /\ (ifid.i.op # "nop" => pc = ifid.pc)
  BY <1>1 DEF ThrowInv, Follows
<1>4. ~IdFlush(gpr') /\ ~MemFlush /\ ifid' = ifidNext(gpr')
  <2>1. flushID(gpr') \in {0, 1, 3}
    BY <1>3 DEF flushID, flushMEM
  <2>2. ~(flushID(gpr') > 0)
    BY <1>1, BubbleOps DEF Complete, Advance
  <2>3. flushID(gpr') = 0
    BY <2>1, <2>2
  <2> QED BY <1>1, <2>2, <2>3 DEF flushID, flushMEM, Complete, Advance
<1>5. nextPcMEM = 0 /\ pcID(gpr') = pc /\ ~IdTaken(gpr')
  BY <1>3, <1>4 DEF nextPcMEM, MemFlush, pcID, pcMEM, IdFlush, IdTaken
<1>6. pc' = pcIF(gpr')
  BY <1>1, <1>5 DEF Complete
<1> QED BY <1>3, <1>4, <1>5, <1>6 DEF ifidNext, pcIF

LEMMA ThrowInvHolds == FixedSpec /\ EndsInZero => []ThrowInv
<1>1. Init /\ EndsInZero => Follows /\ Stuck
  BY BubbleOps DEF Init, Follows, Stuck
<1>2. ThrowInv /\ [NextCycle \/ Reset]_vars => (Follows /\ Stuck /\ EndsInZero)'
  <2> SUFFICES ASSUME ThrowInv, [NextCycle \/ Reset]_vars
               PROVE  (Follows /\ Stuck /\ EndsInZero)'
    OBVIOUS
  <2>1. CASE NextCycle
    <3>1. prog' = prog
      BY <2>1 DEF NextCycle, ThrowWB, ThrowMEM, ThrowEX, ThrowID, ThrowIF, Overflow, Abort,
                  Complete, Tick
    <3> QED BY <2>1, <3>1, StuckKept, FollowsKept DEF ThrowInv, EndsInZero
  <2>2. CASE Reset
    BY <2>2, BubbleOps DEF Reset, Follows, Stuck, ThrowInv, EndsInZero
  <2>3. CASE UNCHANGED vars
    <3>1. Follows' /\ EndsInZero'
      BY <2>3 DEF vars, ThrowInv, Follows, EndsInZero
    <3>2. Stuck'
      BY <2>3 DEF vars, ThrowInv, Stuck, WbThrows, MemThrows, ExThrows, IdThrows, OffText,
                  Service, gprWB, WbValue, MemFlush, MemBranch
    <3> QED BY <3>1, <3>2
  <2> QED BY <2>1, <2>2, <2>3
<1>3. [NextCycle \/ Reset]_vars => [Next]_vars
  BY DEF Next
<1>4. FixedSpec => [](TypeOK /\ SyscallAlone /\ Placed)
  BY <1>3, FixedTypes, FixedPlaced, SyscallRunsAlone, PTL DEF FixedSpec, Spec
<1>5. TypeOK /\ SyscallAlone /\ Placed /\ Follows /\ Stuck /\ EndsInZero
        /\ [NextCycle \/ Reset]_vars => (Follows /\ Stuck /\ EndsInZero)'
  BY <1>2 DEF ThrowInv
<1>6. FixedSpec /\ EndsInZero => [](Follows /\ Stuck /\ EndsInZero)
  BY <1>1, <1>4, <1>5, PTL DEF FixedSpec
<1> QED BY <1>4, <1>6, PTL DEF ThrowInv

(* A cycle that threw cannot be got past by asking for another, for every   *)
(* program that does not end in a branch and every way of throwing: an      *)
(* access, a register, a service, an instruction, the text or the diagram.  *)
THEOREM ThrowsAgain == FixedSpec /\ EndsInZero => ThrowIsFinal
<1>1. ThrowInv /\ [NextCycle \/ Reset]_vars
        => [thrown # "none" /\ NextCycle => thrown' # "none"]_vars
  BY StaysThrown
<1> QED BY <1>1, ThrowInvHolds, PTL DEF FixedSpec, ThrowIsFinal

-----------------------------------------------------------------------------
(* Microcode: what a stage finds in the control word that reaches it.       *)

(* Where the signals begin, and how wide they are.                          *)
LEMMA Widths ==
  /\ DOMAIN SignalBits = 1 .. 16
  /\ SignalBits[1] = 0 /\ SignalBits[2] = 2 /\ SignalBits[3] = 0 /\ SignalBits[4] = 1
  /\ SignalBits[5] = 1 /\ SignalBits[6] = 0 /\ SignalBits[7] = 2 /\ SignalBits[8] = 1
  /\ SignalBits[9] = 2 /\ SignalBits[10] = 1 /\ SignalBits[11] = 0 /\ SignalBits[12] = 0
  /\ SignalBits[13] = 1 /\ SignalBits[14] = 2 /\ SignalBits[15] = 1 /\ SignalBits[16] = 0
BY DEF SignalBits

(* The recursive definition of the positions has a solution.                *)
LEMMA PositionsAre ==
  \A s \in 1 .. 16 : Position[s] = IF s = 1 THEN 0 ELSE Position[s - 1] + SignalBits[s - 1]
<1> DEFINE Follow(g) == [s \in DOMAIN SignalBits |->
                           IF s = 1 THEN 0 ELSE g[s - 1] + SignalBits[s - 1]]
           w == <<0, 0, 2, 2, 3, 4, 4, 6, 7, 9, 10, 10, 10, 11, 13, 14>>
<1>1. w = [s \in 1 .. 16 |-> w[s]]
  OBVIOUS
<1>2. /\ w[1] = 0 /\ w[2] = 0 /\ w[3] = 2 /\ w[4] = 2 /\ w[5] = 3 /\ w[6] = 4
      /\ w[7] = 4 /\ w[8] = 6 /\ w[9] = 7 /\ w[10] = 9 /\ w[11] = 10
      /\ w[12] = 10 /\ w[13] = 10 /\ w[14] = 11 /\ w[15] = 13 /\ w[16] = 14
  OBVIOUS
<1> HIDE DEF w
<1>3. ASSUME NEW s \in 1 .. 16 PROVE w[s] = IF s = 1 THEN 0 ELSE w[s - 1] + SignalBits[s - 1]
  BY <1>2, Widths
<1>4. w = Follow(w)
  BY <1>1, <1>3, Widths
<1>5. \E g : g = Follow(g)
  BY <1>4
<1> HIDE DEF Follow
<1>6. Position = CHOOSE g : g = Follow(g)
  BY Zenon DEF Position, Follow
<1>7. Position = Follow(Position)
  BY <1>5, <1>6, Zenon
<1> QED BY <1>7, Widths DEF Follow

(* Their values.                                                            *)
LEMMA Positions ==
  /\ Position[1] = 0 /\ Position[2] = 0 /\ Position[3] = 2 /\ Position[4] = 2
  /\ Position[5] = 3 /\ Position[6] = 4 /\ Position[7] = 4 /\ Position[8] = 6
  /\ Position[9] = 7 /\ Position[10] = 9 /\ Position[11] = 10 /\ Position[12] = 10
  /\ Position[13] = 10 /\ Position[14] = 11 /\ Position[15] = 13 /\ Position[16] = 14
<1>1. Position[1] = 0
  BY PositionsAre
<1>2. Position[2] = 0
  BY <1>1, PositionsAre, Widths
<1>3. Position[3] = 2
  BY <1>2, PositionsAre, Widths
<1>4. Position[4] = 2
  BY <1>3, PositionsAre, Widths
<1>5. Position[5] = 3
  BY <1>4, PositionsAre, Widths
<1>6. Position[6] = 4
  BY <1>5, PositionsAre, Widths
<1>7. Position[7] = 4
  BY <1>6, PositionsAre, Widths
<1>8. Position[8] = 6
  BY <1>7, PositionsAre, Widths
<1>9. Position[9] = 7
  BY <1>8, PositionsAre, Widths
<1>10. Position[10] = 9
  BY <1>9, PositionsAre, Widths
<1>11. Position[11] = 10
  BY <1>10, PositionsAre, Widths
<1>12. Position[12] = 10
  BY <1>11, PositionsAre, Widths
<1>13. Position[13] = 10
  BY <1>12, PositionsAre, Widths
<1>14. Position[14] = 11
  BY <1>13, PositionsAre, Widths
<1>15. Position[15] = 13
  BY <1>14, PositionsAre, Widths
<1>16. Position[16] = 14
  BY <1>15, PositionsAre, Widths
<1> QED BY <1>1, <1>2, <1>3, <1>4, <1>5, <1>6, <1>7, <1>8, <1>9, <1>10, <1>11, <1>12,
           <1>13, <1>14, <1>15, <1>16, Zenon

(* No two signals share a bit.                                              *)
LEMMA MasksApart ==
  ASSUME NEW s \in 1 .. 16, NEW t \in 1 .. 16, NEW b \in SignalMask(s) \cap SignalMask(t)
  PROVE  s = t
<1>1. ASSUME NEW p \in 1 .. 16, NEW q \in 1 .. 16, p < q
      PROVE  Position[p] + SignalBits[p] <= Position[q]
  BY <1>1, Widths, Positions
<1>2. /\ Position[s] \in Nat /\ SignalBits[s] \in Nat
      /\ Position[t] \in Nat /\ SignalBits[t] \in Nat
  BY Widths, Positions
<1>3. /\ b \in Int /\ Position[s] <= b /\ b < Position[s] + SignalBits[s]
      /\ Position[t] <= b /\ b < Position[t] + SignalBits[t]
  BY <1>2 DEF SignalMask
<1> QED BY <1>1, <1>2, <1>3

(* The bits of a number, and the number of those bits.                      *)
LEMMA BitsAre ==
  /\ BitsOf(X) = {} /\ BitsOf(0) = {} /\ BitsOf(1) = {0} /\ BitsOf(2) = {1} /\ BitsOf(3) = {0, 1}
BY DEF BitsOf, X

(* A number read back from its bits is that number.                         *)
LEMMA NumberOfBits == ASSUME NEW v \in 0 .. 3 PROVE Number(BitsOf(v)) = v
<1>1. ASSUME NEW u \in 0 .. 3, BitsOf(u) = BitsOf(v) PROVE u = v
  <2>1. (0 \in BitsOf(u) <=> 0 \in BitsOf(v)) /\ (1 \in BitsOf(u) <=> 1 \in BitsOf(v))
    BY <1>1
  <2>2. \A x \in 0 .. 3 : /\ 0 \in BitsOf(x) <=> x \in {1, 3}
                          /\ 1 \in BitsOf(x) <=> x \in {2, 3}
    BY BitsAre
  <2> QED BY <2>1, <2>2
<1> DEFINE Same(u) == BitsOf(u) = BitsOf(v)
<1>2. \E u \in 0 .. 3 : Same(u)
  OBVIOUS
<1>3. Number(BitsOf(v)) = CHOOSE u \in 0 .. 3 : Same(u)
  BY DEF Number
<1> HIDE DEF Same
<1>4. Number(BitsOf(v)) \in 0 .. 3 /\ Same(Number(BitsOf(v)))
  BY <1>2, <1>3
<1> QED BY <1>1, <1>4 DEF Same

(* A row of the matrix has a value for each signal that its bits hold.      *)
Fits(row) ==
  /\ DOMAIN row = 1 .. 16
  /\ \A s \in 1 .. 16 : SignalBits[s] # 0 => /\ row[s] \in 0 .. 3
                                            /\ BitsOf(row[s]) \subseteq 0 .. SignalBits[s] - 1

(* A signal of a packed row is the one in the row.                          *)
LEMMA Unpacked ==
  ASSUME NEW row, Fits(row), NEW s \in 1 .. 16, SignalBits[s] # 0,
         NEW word, word \cap SignalMask(s) = Packed(row) \cap SignalMask(s)
  PROVE  Number({ b - Position[s] : b \in word \cap SignalMask(s) }) = row[s]
<1> DEFINE own == { Position[s] + b : b \in BitsOf(row[s]) }
<1>1. /\ DOMAIN row = 1 .. 16
      /\ \A t \in 1 .. 16 : SignalBits[t] # 0 => BitsOf(row[t]) \subseteq 0 .. SignalBits[t] - 1
  BY DEF Fits
<1>2. \A t \in 1 .. 16 : Position[t] \in Nat /\ SignalBits[t] \in Nat
  BY Widths, Positions
<1>3. ASSUME NEW t \in 1 .. 16, SignalBits[t] # 0, NEW b \in BitsOf(row[t])
      PROVE  Position[t] + b \in SignalMask(t)
  <2>1. b \in 0 .. SignalBits[t] - 1
    BY <1>1, <1>3
  <2> QED BY <1>2, <2>1 DEF SignalMask
<1>4. own \subseteq Packed(row) \cap SignalMask(s)
  BY <1>1, <1>3 DEF Packed
<1>5. ASSUME NEW x \in Packed(row) \cap SignalMask(s) PROVE x \in own
  <2>1. PICK t \in 1 .. 16 : SignalBits[t] # 0 /\ x \in { Position[t] + b : b \in BitsOf(row[t]) }
    BY <1>1 DEF Packed
  <2>2. PICK b \in BitsOf(row[t]) : x = Position[t] + b
    BY <2>1
  <2>3. x \in SignalMask(t)
    BY <1>3, <2>1, <2>2
  <2>4. s = t
    BY <2>3, MasksApart
  <2> QED BY <2>2, <2>4
<1>6. word \cap SignalMask(s) = own
  BY <1>4, <1>5
<1>7. { x - Position[s] : x \in own } = BitsOf(row[s])
  <2>1. \A b \in BitsOf(row[s]) : b \in Int /\ (Position[s] + b) - Position[s] = b
    BY <1>1, <1>2
  <2> QED BY <2>1
<1>8. row[s] \in 0 .. 3
  BY DEF Fits
<1> HIDE DEF own
<1> QED BY <1>6, <1>7, <1>8, NumberOfBits

(* The numbers of the signals that are tested.                              *)

LEMMA Indices ==
  /\ Index("MemRead") = 4
  /\ Index("MemWrite") = 5
  /\ Index("MemToReg") = 7
  /\ Index("RegBank") = 8
  /\ Index("RegDst") = 9
  /\ Index("RegWrite") = 10
  /\ Index("ALUSrc") = 13
  /\ Index("ALUOp") = 14
  /\ Index("Branch") = 15
  /\ Index("PCSrc") = 2
<1>1. DOMAIN Signals = 1 .. 16
  BY DEF Signals
<1>2. /\ Signals[1] = "PCWrite" /\ Signals[2] = "PCSrc" /\ Signals[3] = "IoD"
      /\ Signals[4] = "MemRead" /\ Signals[5] = "MemWrite" /\ Signals[6] = "IRWrite"
      /\ Signals[7] = "MemToReg" /\ Signals[8] = "RegBank" /\ Signals[9] = "RegDst"
      /\ Signals[10] = "RegWrite" /\ Signals[11] = "SelALUA" /\ Signals[12] = "SelALUB"
      /\ Signals[13] = "ALUSrc" /\ Signals[14] = "ALUOp" /\ Signals[15] = "Branch"
      /\ Signals[16] = "CtrlDir"
  BY DEF Signals
<1>3. ASSUME NEW s \in 1 .. 16, NEW t \in 1 .. 16, Signals[s] = Signals[t] PROVE s = t
  BY <1>2, <1>3
<1>4. ASSUME NEW s \in 1 .. 16 PROVE Index(Signals[s]) = s
  <2> DEFINE Same(t) == Signals[t] = Signals[s]
  <2>1. Index(Signals[s]) = CHOOSE t \in 1 .. 16 : Same(t)
    BY <1>1 DEF Index
  <2>2. \E t \in 1 .. 16 : Same(t)
    OBVIOUS
  <2> HIDE DEF Same
  <2>3. Index(Signals[s]) \in 1 .. 16 /\ Same(Index(Signals[s]))
    BY <2>1, <2>2
  <2> QED BY <1>3, <2>3 DEF Same
<1>5. Index("MemRead") = 4
  BY <1>2, <1>4
<1>6. Index("MemWrite") = 5
  BY <1>2, <1>4
<1>7. Index("MemToReg") = 7
  BY <1>2, <1>4
<1>8. Index("RegBank") = 8
  BY <1>2, <1>4
<1>9. Index("RegDst") = 9
  BY <1>2, <1>4
<1>10. Index("RegWrite") = 10
  BY <1>2, <1>4
<1>11. Index("ALUSrc") = 13
  BY <1>2, <1>4
<1>12. Index("ALUOp") = 14
  BY <1>2, <1>4
<1>13. Index("Branch") = 15
  BY <1>2, <1>4
<1>14. Index("PCSrc") = 2
  BY <1>2, <1>4
<1> QED BY <1>5, <1>6, <1>7, <1>8, <1>9, <1>10, <1>11, <1>12, <1>13, <1>14, Zenon

(* Every row fits, and what each has for the signals that are tested.       *)
LEMMA Row0 ==
  LET row == Matrix[1]
  IN  /\ Fits(row)
      /\ row[4] = 0 /\ row[5] = 0 /\ row[7] = 1 /\ row[8] = 0 /\ row[9] = 1
      /\ row[10] = 1 /\ row[13] = 0 /\ row[14] = 2 /\ row[15] = 0
<1> DEFINE row == <<-1, 0, -1, 0, 0, -1, 1, 0, 1, 1, -1, -1, 0, 2, 0, -1>>
<1>1. Matrix[1] = row
  BY DEF Matrix, X
<1>2. DOMAIN row = 1 .. 16
  OBVIOUS
<1>3. /\ row[2] = 0 /\ row[4] = 0 /\ row[5] = 0 /\ row[7] = 1 /\ row[8] = 0
      /\ row[9] = 1 /\ row[10] = 1 /\ row[13] = 0 /\ row[14] = 2 /\ row[15] = 0
  OBVIOUS
<1> HIDE DEF row
<1>4. Fits(row)
  BY <1>2, <1>3, Widths, BitsAre DEF Fits
<1> QED BY <1>1, <1>3, <1>4

(* What the stages find of the row of j.                                    *)
LEMMA Row1 ==
  LET row == Matrix[2]
  IN  /\ Fits(row)
      /\ row[4] = 0 /\ row[5] = 0 /\ row[7] = 0 /\ row[8] = 0 /\ row[9] = 0
      /\ row[10] = 0 /\ row[13] = 0 /\ row[14] = 0 /\ row[15] = 1
<1> DEFINE row == <<-1, 3, -1, 0, 0, -1, 0, 0, 0, 0, -1, -1, 0, 0, 1, -1>>
<1>1. Matrix[2] = row
  BY DEF Matrix, X
<1>2. DOMAIN row = 1 .. 16
  OBVIOUS
<1>3. /\ row[2] = 3 /\ row[4] = 0 /\ row[5] = 0 /\ row[7] = 0 /\ row[8] = 0
      /\ row[9] = 0 /\ row[10] = 0 /\ row[13] = 0 /\ row[14] = 0 /\ row[15] = 1
  OBVIOUS
<1> HIDE DEF row
<1>4. Fits(row)
  BY <1>2, <1>3, Widths, BitsAre DEF Fits
<1> QED BY <1>1, <1>3, <1>4

(* What the stages find of the row of jr.                                   *)
LEMMA Row2 ==
  LET row == Matrix[3]
  IN  /\ Fits(row)
      /\ row[4] = 0 /\ row[5] = 0 /\ row[7] = 0 /\ row[8] = 0 /\ row[9] = 0
      /\ row[10] = 0 /\ row[13] = 0 /\ row[14] = 0 /\ row[15] = 1
<1> DEFINE row == <<-1, 2, -1, 0, 0, -1, 0, 0, 0, 0, -1, -1, 0, 0, 1, -1>>
<1>1. Matrix[3] = row
  BY DEF Matrix, X
<1>2. DOMAIN row = 1 .. 16
  OBVIOUS
<1>3. /\ row[2] = 2 /\ row[4] = 0 /\ row[5] = 0 /\ row[7] = 0 /\ row[8] = 0
      /\ row[9] = 0 /\ row[10] = 0 /\ row[13] = 0 /\ row[14] = 0 /\ row[15] = 1
  OBVIOUS
<1> HIDE DEF row
<1>4. Fits(row)
  BY <1>2, <1>3, Widths, BitsAre DEF Fits
<1> QED BY <1>1, <1>3, <1>4

(* What the stages find of the row of jal.                                  *)
LEMMA Row3 ==
  LET row == Matrix[4]
  IN  /\ Fits(row)
      /\ row[4] = 0 /\ row[5] = 0 /\ row[7] = 2 /\ row[8] = 0 /\ row[9] = 2
      /\ row[10] = 1 /\ row[13] = 0 /\ row[14] = 0 /\ row[15] = 1
<1> DEFINE row == <<-1, 3, -1, 0, 0, -1, 2, 0, 2, 1, -1, -1, 0, 0, 1, -1>>
<1>1. Matrix[4] = row
  BY DEF Matrix, X
<1>2. DOMAIN row = 1 .. 16
  OBVIOUS
<1>3. /\ row[2] = 3 /\ row[4] = 0 /\ row[5] = 0 /\ row[7] = 2 /\ row[8] = 0
      /\ row[9] = 2 /\ row[10] = 1 /\ row[13] = 0 /\ row[14] = 0 /\ row[15] = 1
  OBVIOUS
<1> HIDE DEF row
<1>4. Fits(row)
  BY <1>2, <1>3, Widths, BitsAre DEF Fits
<1> QED BY <1>1, <1>3, <1>4

(* What the stages find of the row of jalr.                                 *)
LEMMA Row4 ==
  LET row == Matrix[5]
  IN  /\ Fits(row)
      /\ row[4] = 0 /\ row[5] = 0 /\ row[7] = 2 /\ row[8] = 0 /\ row[9] = 2
      /\ row[10] = 1 /\ row[13] = 0 /\ row[14] = 0 /\ row[15] = 1
<1> DEFINE row == <<-1, 2, -1, 0, 0, -1, 2, 0, 2, 1, -1, -1, 0, 0, 1, -1>>
<1>1. Matrix[5] = row
  BY DEF Matrix, X
<1>2. DOMAIN row = 1 .. 16
  OBVIOUS
<1>3. /\ row[2] = 2 /\ row[4] = 0 /\ row[5] = 0 /\ row[7] = 2 /\ row[8] = 0
      /\ row[9] = 2 /\ row[10] = 1 /\ row[13] = 0 /\ row[14] = 0 /\ row[15] = 1
  OBVIOUS
<1> HIDE DEF row
<1>4. Fits(row)
  BY <1>2, <1>3, Widths, BitsAre DEF Fits
<1> QED BY <1>1, <1>3, <1>4

(* What the stages find of the row of bne and beq.                          *)
LEMMA Row5 ==
  LET row == Matrix[6]
  IN  /\ Fits(row)
      /\ row[4] = 0 /\ row[5] = 0 /\ row[7] = 0 /\ row[8] = 0 /\ row[9] = 0
      /\ row[10] = 0 /\ row[13] = 0 /\ row[14] = 1 /\ row[15] = 1
<1> DEFINE row == <<-1, 1, -1, 0, 0, -1, 0, 0, 0, 0, -1, -1, 0, 1, 1, -1>>
<1>1. Matrix[6] = row
  BY DEF Matrix, X
<1>2. DOMAIN row = 1 .. 16
  OBVIOUS
<1>3. /\ row[2] = 1 /\ row[4] = 0 /\ row[5] = 0 /\ row[7] = 0 /\ row[8] = 0
      /\ row[9] = 0 /\ row[10] = 0 /\ row[13] = 0 /\ row[14] = 1 /\ row[15] = 1
  OBVIOUS
<1> HIDE DEF row
<1>4. Fits(row)
  BY <1>2, <1>3, Widths, BitsAre DEF Fits
<1> QED BY <1>1, <1>3, <1>4

(* What the stages find of the row of lw.                                   *)
LEMMA Row6 ==
  LET row == Matrix[7]
  IN  /\ Fits(row)
      /\ row[4] = 1 /\ row[5] = 0 /\ row[7] = 0 /\ row[8] = 0 /\ row[9] = 0
      /\ row[10] = 1 /\ row[13] = 1 /\ row[14] = 0 /\ row[15] = 0
<1> DEFINE row == <<-1, 0, -1, 1, 0, -1, 0, 0, 0, 1, -1, -1, 1, 0, 0, -1>>
<1>1. Matrix[7] = row
  BY DEF Matrix, X
<1>2. DOMAIN row = 1 .. 16
  OBVIOUS
<1>3. /\ row[2] = 0 /\ row[4] = 1 /\ row[5] = 0 /\ row[7] = 0 /\ row[8] = 0
      /\ row[9] = 0 /\ row[10] = 1 /\ row[13] = 1 /\ row[14] = 0 /\ row[15] = 0
  OBVIOUS
<1> HIDE DEF row
<1>4. Fits(row)
  BY <1>2, <1>3, Widths, BitsAre DEF Fits
<1> QED BY <1>1, <1>3, <1>4

(* What the stages find of the row of sw.                                   *)
LEMMA Row7 ==
  LET row == Matrix[8]
  IN  /\ Fits(row)
      /\ row[4] = 0 /\ row[5] = 1 /\ row[7] = 0 /\ row[8] = 0 /\ row[9] = 0
      /\ row[10] = 0 /\ row[13] = 1 /\ row[14] = 0 /\ row[15] = 0
<1> DEFINE row == <<-1, 0, -1, 0, 1, -1, 0, 0, 0, 0, -1, -1, 1, 0, 0, -1>>
<1>1. Matrix[8] = row
  BY DEF Matrix, X
<1>2. DOMAIN row = 1 .. 16
  OBVIOUS
<1>3. /\ row[2] = 0 /\ row[4] = 0 /\ row[5] = 1 /\ row[7] = 0 /\ row[8] = 0
      /\ row[9] = 0 /\ row[10] = 0 /\ row[13] = 1 /\ row[14] = 0 /\ row[15] = 0
  OBVIOUS
<1> HIDE DEF row
<1>4. Fits(row)
  BY <1>2, <1>3, Widths, BitsAre DEF Fits
<1> QED BY <1>1, <1>3, <1>4

(* What the stages find of the row of the I type.                           *)
LEMMA Row8 ==
  LET row == Matrix[9]
  IN  /\ Fits(row)
      /\ row[4] = 0 /\ row[5] = 0 /\ row[7] = 1 /\ row[8] = 0 /\ row[9] = 0
      /\ row[10] = 1 /\ row[13] = 1 /\ row[14] = 2 /\ row[15] = 0
<1> DEFINE row == <<-1, 0, -1, 0, 0, -1, 1, 0, 0, 1, -1, -1, 1, 2, 0, -1>>
<1>1. Matrix[9] = row
  BY DEF Matrix, X
<1>2. DOMAIN row = 1 .. 16
  OBVIOUS
<1>3. /\ row[2] = 0 /\ row[4] = 0 /\ row[5] = 0 /\ row[7] = 1 /\ row[8] = 0
      /\ row[9] = 0 /\ row[10] = 1 /\ row[13] = 1 /\ row[14] = 2 /\ row[15] = 0
  OBVIOUS
<1> HIDE DEF row
<1>4. Fits(row)
  BY <1>2, <1>3, Widths, BitsAre DEF Fits
<1> QED BY <1>1, <1>3, <1>4

(* What the stages find of the row of the F type.                           *)
LEMMA Row9 ==
  LET row == Matrix[10]
  IN  /\ Fits(row)
      /\ row[4] = 0 /\ row[5] = 0 /\ row[7] = 1 /\ row[8] = 1 /\ row[9] = 1
      /\ row[10] = 1 /\ row[13] = 0 /\ row[14] = 2 /\ row[15] = 0
<1> DEFINE row == <<-1, 0, -1, 0, 0, -1, 1, 1, 1, 1, -1, -1, 0, 2, 0, -1>>
<1>1. Matrix[10] = row
  BY DEF Matrix, X
<1>2. DOMAIN row = 1 .. 16
  OBVIOUS
<1>3. /\ row[2] = 0 /\ row[4] = 0 /\ row[5] = 0 /\ row[7] = 1 /\ row[8] = 1
      /\ row[9] = 1 /\ row[10] = 1 /\ row[13] = 0 /\ row[14] = 2 /\ row[15] = 0
  OBVIOUS
<1> HIDE DEF row
<1>4. Fits(row)
  BY <1>2, <1>3, Widths, BitsAre DEF Fits
<1> QED BY <1>1, <1>3, <1>4

(* What the stages find of the row of lwc1.                                 *)
LEMMA Row10 ==
  LET row == Matrix[11]
  IN  /\ Fits(row)
      /\ row[4] = 1 /\ row[5] = 0 /\ row[7] = 0 /\ row[8] = 1 /\ row[9] = 0
      /\ row[10] = 1 /\ row[13] = 1 /\ row[14] = 0 /\ row[15] = 0
<1> DEFINE row == <<-1, 0, -1, 1, 0, -1, 0, 1, 0, 1, -1, -1, 1, 0, 0, -1>>
<1>1. Matrix[11] = row
  BY DEF Matrix, X
<1>2. DOMAIN row = 1 .. 16
  OBVIOUS
<1>3. /\ row[2] = 0 /\ row[4] = 1 /\ row[5] = 0 /\ row[7] = 0 /\ row[8] = 1
      /\ row[9] = 0 /\ row[10] = 1 /\ row[13] = 1 /\ row[14] = 0 /\ row[15] = 0
  OBVIOUS
<1> HIDE DEF row
<1>4. Fits(row)
  BY <1>2, <1>3, Widths, BitsAre DEF Fits
<1> QED BY <1>1, <1>3, <1>4

(* What the stages find of the row of swc1.                                 *)
LEMMA Row11 ==
  LET row == Matrix[12]
  IN  /\ Fits(row)
      /\ row[4] = 0 /\ row[5] = 1 /\ row[7] = 0 /\ row[8] = 1 /\ row[9] = 0
      /\ row[10] = 0 /\ row[13] = 1 /\ row[14] = 0 /\ row[15] = 0
<1> DEFINE row == <<-1, 0, -1, 0, 1, -1, 0, 1, 0, 0, -1, -1, 1, 0, 0, -1>>
<1>1. Matrix[12] = row
  BY DEF Matrix, X
<1>2. DOMAIN row = 1 .. 16
  OBVIOUS
<1>3. /\ row[2] = 0 /\ row[4] = 0 /\ row[5] = 1 /\ row[7] = 0 /\ row[8] = 1
      /\ row[9] = 0 /\ row[10] = 0 /\ row[13] = 1 /\ row[14] = 0 /\ row[15] = 0
  OBVIOUS
<1> HIDE DEF row
<1>4. Fits(row)
  BY <1>2, <1>3, Widths, BitsAre DEF Fits
<1> QED BY <1>1, <1>3, <1>4

(* What the stages find of the row of syscall.                              *)
LEMMA Row12 ==
  LET row == Matrix[13]
  IN  /\ Fits(row)
      /\ row[4] = 0 /\ row[5] = 0 /\ row[7] = 0 /\ row[8] = 0 /\ row[9] = 0
      /\ row[10] = 0 /\ row[13] = 0 /\ row[14] = 2 /\ row[15] = 0
<1> DEFINE row == <<-1, 0, -1, 0, 0, -1, 0, 0, 0, 0, -1, -1, 0, 2, 0, -1>>
<1>1. Matrix[13] = row
  BY DEF Matrix, X
<1>2. DOMAIN row = 1 .. 16
  OBVIOUS
<1>3. /\ row[2] = 0 /\ row[4] = 0 /\ row[5] = 0 /\ row[7] = 0 /\ row[8] = 0
      /\ row[9] = 0 /\ row[10] = 0 /\ row[13] = 0 /\ row[14] = 2 /\ row[15] = 0
  OBVIOUS
<1> HIDE DEF row
<1>4. Fits(row)
  BY <1>2, <1>3, Widths, BitsAre DEF Fits
<1> QED BY <1>1, <1>3, <1>4

(* What the stages find of the row of mult and div.                         *)
LEMMA Row13 ==
  LET row == Matrix[14]
  IN  /\ Fits(row)
      /\ row[4] = 0 /\ row[5] = 0 /\ row[7] = 0 /\ row[8] = 0 /\ row[9] = 1
      /\ row[10] = 0 /\ row[13] = 0 /\ row[14] = 2 /\ row[15] = 0
<1> DEFINE row == <<-1, 0, -1, 0, 0, -1, 0, 0, 1, 0, -1, -1, 0, 2, 0, -1>>
<1>1. Matrix[14] = row
  BY DEF Matrix, X
<1>2. DOMAIN row = 1 .. 16
  OBVIOUS
<1>3. /\ row[2] = 0 /\ row[4] = 0 /\ row[5] = 0 /\ row[7] = 0 /\ row[8] = 0
      /\ row[9] = 1 /\ row[10] = 0 /\ row[13] = 0 /\ row[14] = 2 /\ row[15] = 0
  OBVIOUS
<1> HIDE DEF row
<1>4. Fits(row)
  BY <1>2, <1>3, Widths, BitsAre DEF Fits
<1> QED BY <1>1, <1>3, <1>4

-----------------------------------------------------------------------------
(* The signals a stage tests are passed on to it.                           *)
LEMMA PassedOn ==
  /\ \A signal \in Tested["EX"] \cup Tested["MEM"] \cup Tested["WB"] :
       SignalMask(Index(signal)) \subseteq Sigmask("EX")
  /\ \A signal \in Tested["MEM"] \cup Tested["WB"] :
       SignalMask(Index(signal)) \subseteq Sigmask("MEM")
  /\ \A signal \in Tested["WB"] : SignalMask(Index(signal)) \subseteq Sigmask("WB")
<1>1. /\ Sigmask("EX") = Bitmask(10) /\ Sigmask("MEM") = Bitmask(7) /\ Sigmask("WB") = Bitmask(3)
  BY DEF Sigmask
<1>2. ASSUME NEW count \in Nat, NEW k \in 1 .. count
      PROVE  SignalMask(Index(SignalsID[k])) \subseteq Bitmask(count)
  BY DEF Bitmask
<1>3. /\ SignalsID[1] = "MemToReg" /\ SignalsID[2] = "RegBank" /\ SignalsID[3] = "RegWrite"
      /\ SignalsID[4] = "MemRead" /\ SignalsID[5] = "MemWrite" /\ SignalsID[6] = "Branch"
      /\ SignalsID[8] = "ALUSrc" /\ SignalsID[9] = "ALUOp" /\ SignalsID[10] = "RegDst"
  BY DEF SignalsID
<1>4. /\ Tested["EX"] = {"RegDst", "RegWrite", "RegBank", "MemRead", "ALUSrc", "ALUOp"}
      /\ Tested["MEM"] = {"Branch", "MemRead", "MemWrite", "RegWrite", "RegBank"}
      /\ Tested["WB"] = {"MemToReg", "RegWrite", "RegBank"}
  BY DEF Tested
<1>5. /\ \A signal \in Tested["EX"] \cup Tested["MEM"] \cup Tested["WB"] :
           \E k \in 1 .. 10 : SignalsID[k] = signal
      /\ \A signal \in Tested["MEM"] \cup Tested["WB"] : \E k \in 1 .. 7 : SignalsID[k] = signal
      /\ \A signal \in Tested["WB"] : \E k \in 1 .. 3 : SignalsID[k] = signal
  BY <1>3, <1>4
<1> QED BY <1>1, <1>2, <1>5

(* So a stage finds there what the control word has.                        *)
LEMMA Arrives ==
  ASSUME NEW op \in Op, NEW stage \in DOMAIN Tested, NEW signal \in Tested[stage]
  PROVE  LET s == Index(signal)
         IN  /\ Arriving(op, stage) \cap SignalMask(s) = ControlWord(op) \cap SignalMask(s)
             /\ Found[stage][op][signal] =
                  Number({ b - Position[s] : b \in Arriving(op, stage) \cap SignalMask(s) })
<1> DEFINE s == Index(signal)
<1>1. stage \in {"EX", "MEM", "WB"}
  BY DEF Tested
<1>2. Found[stage][op][signal] = Test(Arriving(op, stage), signal)
  BY Zenon DEF Found
<1>3. Arriving(op, stage) \cap SignalMask(s) = ControlWord(op) \cap SignalMask(s)
  <2> HIDE DEF s
  <2>1. CASE stage = "EX"
    <3>1. Arriving(op, stage) = ControlWord(op) \cap Sigmask("EX")
      BY <2>1 DEF Arriving
    <3> QED BY <2>1, <3>1, PassedOn DEF s
  <2>2. CASE stage = "MEM"
    <3>1. Arriving(op, stage) = (ControlWord(op) \cap Sigmask("EX")) \cap Sigmask("MEM")
      BY <2>2 DEF Arriving
    <3> QED BY <2>2, <3>1, PassedOn DEF s
  <2>3. CASE stage = "WB"
    <3>1. Arriving(op, stage) =
            ((ControlWord(op) \cap Sigmask("EX")) \cap Sigmask("MEM")) \cap Sigmask("WB")
      BY <2>3 DEF Arriving
    <3> QED BY <2>3, <3>1, PassedOn DEF s
  <2> QED BY <1>1, <2>1, <2>2, <2>3
<1> QED BY <1>2, <1>3 DEF Test

-----------------------------------------------------------------------------
(* The directory, and the row it leads each operation to.                   *)
LEMMA DirectoryIs ==
  /\ DOMAIN Directory = 1 .. 16
  /\ Directory[1] = <<0, 8, 2>>
  /\ Directory[2] = <<0, 9, 4>>
  /\ Directory[3] = <<0, 12, 12>>
  /\ Directory[4] = <<0, 24, 13>>
  /\ Directory[5] = <<0, -1, 0>>
  /\ Directory[6] = <<2, -1, 1>>
  /\ Directory[7] = <<3, -1, 3>>
  /\ Directory[8] = <<4, -1, 5>>
  /\ Directory[9] = <<5, -1, 5>>
  /\ Directory[10] = <<35, -1, 6>>
  /\ Directory[11] = <<49, -1, 10>>
  /\ Directory[12] = <<43, -1, 7>>
  /\ Directory[13] = <<57, -1, 11>>
  /\ Directory[14] = <<17, 0, 9>>
  /\ Directory[15] = <<17, -1, 5>>
  /\ Directory[16] = <<-1, -1, 8>>
BY DEF Directory, RType, Undef

(* The first entry that fits is the one that is found.                      *)
LEMMA EntryIs ==
  ASSUME NEW code, NEW e \in Fitting(code), \A d \in Fitting(code) : e <= d
  PROVE  Entry(code) = e
<1> DEFINE Least(x) == \A d \in Fitting(code) : x <= d
<1>1. \A d \in Fitting(code) : d \in 1 .. 16
  BY DirectoryIs DEF Fitting
<1>2. Entry(code) = CHOOSE x \in Fitting(code) : Least(x)
  BY DEF Entry
<1>3. Least(e)
  OBVIOUS
<1> HIDE DEF Least
<1>4. Entry(code) \in Fitting(code) /\ Least(Entry(code))
  BY <1>2, <1>3
<1> QED BY <1>1, <1>4 DEF Least

StartsAt(e, a, b) ==
  /\ e \in 1 .. 16 /\ Directory[e][1] \in {a, -1} /\ Directory[e][2] \in {b, -1}
  /\ \A d \in 1 .. e - 1 : ~(Directory[d][1] \in {a, -1} /\ Directory[d][2] \in {b, -1})
RowOf(op) == Matrix[Directory[Entry(Encoding[op])][3] + 1]

(* The row of the matrix that the directory gives each operation.           *)
LEMMA RowsOf ==
  /\ RowOf("alu") = Matrix[1]
  /\ RowOf("mult") = Matrix[14]
  /\ RowOf("mfhi") = Matrix[1]
  /\ RowOf("alui") = Matrix[9]
  /\ RowOf("lui") = Matrix[9]
  /\ RowOf("lw") = Matrix[7]
  /\ RowOf("sw") = Matrix[8]
  /\ RowOf("lwc1") = Matrix[11]
  /\ RowOf("swc1") = Matrix[12]
  /\ RowOf("beq") = Matrix[6]
  /\ RowOf("bne") = Matrix[6]
  /\ RowOf("j") = Matrix[2]
  /\ RowOf("jal") = Matrix[4]
  /\ RowOf("jr") = Matrix[3]
  /\ RowOf("jalr") = Matrix[5]
  /\ RowOf("syscall") = Matrix[13]
<1>1. ASSUME NEW a, NEW b, NEW e, NEW op, Encoding[op] = <<a, b>>, StartsAt(e, a, b)
      PROVE  RowOf(op) = Matrix[Directory[e][3] + 1]
  <2> DEFINE code == <<a, b>>
  <2>1. \A d : d \in Fitting(code) <=>
                d \in 1 .. 16 /\ Directory[d][1] \in {a, -1} /\ Directory[d][2] \in {b, -1}
    BY DirectoryIs DEF Fitting, Undef
  <2> HIDE DEF code
  <2>2. e \in Fitting(code) /\ \A d \in Fitting(code) : e <= d
    BY <1>1, <2>1 DEF StartsAt
  <2>3. Entry(code) = e
    BY <2>2, EntryIs
  <2> QED BY <1>1, <2>3 DEF RowOf, code
<1>2. RowOf("alu") = Matrix[1]
  <2>1. Encoding["alu"] = <<0, 32>>
    BY DEF Encoding, RType
  <2>2. StartsAt(5, 0, 32)
    BY DirectoryIs DEF StartsAt
  <2>3. Directory[5][3] + 1 = 1
    BY DirectoryIs
  <2>4. RowOf("alu") = Matrix[Directory[5][3] + 1]
    BY <1>1, <2>1, <2>2
  <2> QED BY <2>3, <2>4
<1>3. RowOf("mult") = Matrix[14]
  <2>1. Encoding["mult"] = <<0, 24>>
    BY DEF Encoding, RType
  <2>2. StartsAt(4, 0, 24)
    BY DirectoryIs DEF StartsAt
  <2>3. Directory[4][3] + 1 = 14
    BY DirectoryIs
  <2>4. RowOf("mult") = Matrix[Directory[4][3] + 1]
    BY <1>1, <2>1, <2>2
  <2> QED BY <2>3, <2>4
<1>4. RowOf("mfhi") = Matrix[1]
  <2>1. Encoding["mfhi"] = <<0, 16>>
    BY DEF Encoding, RType
  <2>2. StartsAt(5, 0, 16)
    BY DirectoryIs DEF StartsAt
  <2>3. Directory[5][3] + 1 = 1
    BY DirectoryIs
  <2>4. RowOf("mfhi") = Matrix[Directory[5][3] + 1]
    BY <1>1, <2>1, <2>2
  <2> QED BY <2>3, <2>4
<1>5. RowOf("alui") = Matrix[9]
  <2>1. Encoding["alui"] = <<8, 12>>
    BY DEF Encoding, RType
  <2>2. StartsAt(16, 8, 12)
    BY DirectoryIs DEF StartsAt
  <2>3. Directory[16][3] + 1 = 9
    BY DirectoryIs
  <2>4. RowOf("alui") = Matrix[Directory[16][3] + 1]
    BY <1>1, <2>1, <2>2
  <2> QED BY <2>3, <2>4
<1>6. RowOf("lui") = Matrix[9]
  <2>1. Encoding["lui"] = <<15, 0>>
    BY DEF Encoding, RType
  <2>2. StartsAt(16, 15, 0)
    BY DirectoryIs DEF StartsAt
  <2>3. Directory[16][3] + 1 = 9
    BY DirectoryIs
  <2>4. RowOf("lui") = Matrix[Directory[16][3] + 1]
    BY <1>1, <2>1, <2>2
  <2> QED BY <2>3, <2>4
<1>7. RowOf("lw") = Matrix[7]
  <2>1. Encoding["lw"] = <<35, 12>>
    BY DEF Encoding, RType
  <2>2. StartsAt(10, 35, 12)
    BY DirectoryIs DEF StartsAt
  <2>3. Directory[10][3] + 1 = 7
    BY DirectoryIs
  <2>4. RowOf("lw") = Matrix[Directory[10][3] + 1]
    BY <1>1, <2>1, <2>2
  <2> QED BY <2>3, <2>4
<1>8. RowOf("sw") = Matrix[8]
  <2>1. Encoding["sw"] = <<43, 8>>
    BY DEF Encoding, RType
  <2>2. StartsAt(12, 43, 8)
    BY DirectoryIs DEF StartsAt
  <2>3. Directory[12][3] + 1 = 8
    BY DirectoryIs
  <2>4. RowOf("sw") = Matrix[Directory[12][3] + 1]
    BY <1>1, <2>1, <2>2
  <2> QED BY <2>3, <2>4
<1>9. RowOf("lwc1") = Matrix[11]
  <2>1. Encoding["lwc1"] = <<49, 12>>
    BY DEF Encoding, RType
  <2>2. StartsAt(11, 49, 12)
    BY DirectoryIs DEF StartsAt
  <2>3. Directory[11][3] + 1 = 11
    BY DirectoryIs
  <2>4. RowOf("lwc1") = Matrix[Directory[11][3] + 1]
    BY <1>1, <2>1, <2>2
  <2> QED BY <2>3, <2>4
<1>10. RowOf("swc1") = Matrix[12]
  <2>1. Encoding["swc1"] = <<57, 24>>
    BY DEF Encoding, RType
  <2>2. StartsAt(13, 57, 24)
    BY DirectoryIs DEF StartsAt
  <2>3. Directory[13][3] + 1 = 12
    BY DirectoryIs
  <2>4. RowOf("swc1") = Matrix[Directory[13][3] + 1]
    BY <1>1, <2>1, <2>2
  <2> QED BY <2>3, <2>4
<1>11. RowOf("beq") = Matrix[6]
  <2>1. Encoding["beq"] = <<4, 8>>
    BY DEF Encoding, RType
  <2>2. StartsAt(8, 4, 8)
    BY DirectoryIs DEF StartsAt
  <2>3. Directory[8][3] + 1 = 6
    BY DirectoryIs
  <2>4. RowOf("beq") = Matrix[Directory[8][3] + 1]
    BY <1>1, <2>1, <2>2
  <2> QED BY <2>3, <2>4
<1>12. RowOf("bne") = Matrix[6]
  <2>1. Encoding["bne"] = <<5, 9>>
    BY DEF Encoding, RType
  <2>2. StartsAt(9, 5, 9)
    BY DirectoryIs DEF StartsAt
  <2>3. Directory[9][3] + 1 = 6
    BY DirectoryIs
  <2>4. RowOf("bne") = Matrix[Directory[9][3] + 1]
    BY <1>1, <2>1, <2>2
  <2> QED BY <2>3, <2>4
<1>13. RowOf("j") = Matrix[2]
  <2>1. Encoding["j"] = <<2, 12>>
    BY DEF Encoding, RType
  <2>2. StartsAt(6, 2, 12)
    BY DirectoryIs DEF StartsAt
  <2>3. Directory[6][3] + 1 = 2
    BY DirectoryIs
  <2>4. RowOf("j") = Matrix[Directory[6][3] + 1]
    BY <1>1, <2>1, <2>2
  <2> QED BY <2>3, <2>4
<1>14. RowOf("jal") = Matrix[4]
  <2>1. Encoding["jal"] = <<3, 8>>
    BY DEF Encoding, RType
  <2>2. StartsAt(7, 3, 8)
    BY DirectoryIs DEF StartsAt
  <2>3. Directory[7][3] + 1 = 4
    BY DirectoryIs
  <2>4. RowOf("jal") = Matrix[Directory[7][3] + 1]
    BY <1>1, <2>1, <2>2
  <2> QED BY <2>3, <2>4
<1>15. RowOf("jr") = Matrix[3]
  <2>1. Encoding["jr"] = <<0, 8>>
    BY DEF Encoding, RType
  <2>2. StartsAt(1, 0, 8)
    BY DirectoryIs DEF StartsAt
  <2>3. Directory[1][3] + 1 = 3
    BY DirectoryIs
  <2>4. RowOf("jr") = Matrix[Directory[1][3] + 1]
    BY <1>1, <2>1, <2>2
  <2> QED BY <2>3, <2>4
<1>16. RowOf("jalr") = Matrix[5]
  <2>1. Encoding["jalr"] = <<0, 9>>
    BY DEF Encoding, RType
  <2>2. StartsAt(2, 0, 9)
    BY DirectoryIs DEF StartsAt
  <2>3. Directory[2][3] + 1 = 5
    BY DirectoryIs
  <2>4. RowOf("jalr") = Matrix[Directory[2][3] + 1]
    BY <1>1, <2>1, <2>2
  <2> QED BY <2>3, <2>4
<1>17. RowOf("syscall") = Matrix[13]
  <2>1. Encoding["syscall"] = <<0, 12>>
    BY DEF Encoding, RType
  <2>2. StartsAt(3, 0, 12)
    BY DirectoryIs DEF StartsAt
  <2>3. Directory[3][3] + 1 = 13
    BY DirectoryIs
  <2>4. RowOf("syscall") = Matrix[Directory[3][3] + 1]
    BY <1>1, <2>1, <2>2
  <2> QED BY <2>3, <2>4
<1> QED BY <1>2, <1>3, <1>4, <1>5, <1>6, <1>7, <1>8, <1>9
          , <1>10, <1>11, <1>12, <1>13, <1>14, <1>15, <1>16, <1>17, Zenon

(* The row of an operation fits.                                            *)
LEMMA RowsFit == \A op \in Op \ {"nop", "fp"} : Fits(RowOf(op))
BY RowsOf, Row0, Row1, Row2, Row3, Row4, Row5, Row6, Row7, Row8, Row9, Row10, Row11, Row12,
   Row13 DEF Op

(* What is found of the control word of an operation: the signal in its     *)
(* row; and of a nop, which has none, 0.                                    *)
LEMMA FoundIs ==
  ASSUME NEW op \in Op, op # "fp", NEW stage \in DOMAIN Tested, NEW signal \in Tested[stage]
  PROVE  Found[stage][op][signal] = IF op = "nop" THEN 0 ELSE RowOf(op)[Index(signal)]
<1> DEFINE s == Index(signal)
           word == Arriving(op, stage)
           value == Number({ b - Position[s] : b \in word \cap SignalMask(s) })
<1>1. /\ word \cap SignalMask(s) = ControlWord(op) \cap SignalMask(s)
      /\ Found[stage][op][signal] = value
  BY Arrives
<1> HIDE DEF word
<1>2. CASE op = "nop"
  <2>1. { b - Position[s] : b \in word \cap SignalMask(s) } = {}
    BY <1>1, <1>2 DEF ControlWord
  <2>2. value = Number(BitsOf(0))
    BY <2>1, BitsAre
  <2>3. Number(BitsOf(0)) = 0
    BY NumberOfBits
  <2> QED BY <1>1, <1>2, <2>2, <2>3
<1>3. CASE op # "nop"
  <2>1. ControlWord(op) = Packed(RowOf(op)) /\ Fits(RowOf(op))
    BY <1>3, RowsFit DEF ControlWord, RowOf
  <2>2. s \in 1 .. 16 /\ SignalBits[s] # 0
    <3>1. signal \in {"MemRead", "MemWrite", "MemToReg", "RegBank", "RegDst",
                     "RegWrite", "ALUSrc", "ALUOp", "Branch"}
      BY DEF Tested
    <3> QED BY <3>1, Indices, Widths
  <2> HIDE DEF s
  <2>3. value = RowOf(op)[s]
    BY <1>1, <2>1, <2>2, Unpacked
  <2> QED BY <1>1, <1>3, <2>3 DEF s
<1> QED BY <1>2, <1>3

-----------------------------------------------------------------------------
(* What the rows say of the operations is what Pipeline says of them.       *)
LEMMA RowsAgree ==
  ASSUME NEW i \in Instr, i.op \notin {"nop", "fp"}
  PROVE  LET row == RowOf(i.op)
         IN  /\ row[10] = Bit(RegWrite(i)) /\ row[8] = Bit(FpBank(i)) /\ row[4] = Bit(MemRead(i))
             /\ row[5] = Bit(MemWrite(i)) /\ row[15] = Bit(Branch(i))
             /\ row[13] = Bit(AluSrc(i)) /\ (row[14] = 1) = Conditional(i)
             /\ row[9] = (IF RegDstRd(i) THEN 1 ELSE IF Link(i) THEN 2 ELSE 0)
             /\ RegWrite(i) => row[7] = (IF MemRead(i) THEN 0 ELSE IF Link(i) THEN 2 ELSE 1)
<1> DEFINE row == RowOf(i.op)
<1>1. CASE i.op = "alu"
  <2>1. row = Matrix[1]
    BY <1>1, RowsOf
  <2> HIDE DEF row
  <2> QED BY <1>1, <2>1, Row0 DEF row, Bit, RegWrite, FpBank, MemRead, MemWrite, Branch,
        AluSrc, Conditional, RegDstRd, Link
<1>2. CASE i.op = "mult"
  <2>1. row = Matrix[14]
    BY <1>2, RowsOf
  <2> HIDE DEF row
  <2> QED BY <1>2, <2>1, Row13 DEF row, Bit, RegWrite, FpBank, MemRead, MemWrite, Branch,
        AluSrc, Conditional, RegDstRd, Link
<1>3. CASE i.op = "mfhi"
  <2>1. row = Matrix[1]
    BY <1>3, RowsOf
  <2> HIDE DEF row
  <2> QED BY <1>3, <2>1, Row0 DEF row, Bit, RegWrite, FpBank, MemRead, MemWrite, Branch,
        AluSrc, Conditional, RegDstRd, Link
<1>4. CASE i.op = "alui"
  <2>1. row = Matrix[9]
    BY <1>4, RowsOf
  <2> HIDE DEF row
  <2> QED BY <1>4, <2>1, Row8 DEF row, Bit, RegWrite, FpBank, MemRead, MemWrite, Branch,
        AluSrc, Conditional, RegDstRd, Link
<1>5. CASE i.op = "lui"
  <2>1. row = Matrix[9]
    BY <1>5, RowsOf
  <2> HIDE DEF row
  <2> QED BY <1>5, <2>1, Row8 DEF row, Bit, RegWrite, FpBank, MemRead, MemWrite, Branch,
        AluSrc, Conditional, RegDstRd, Link
<1>6. CASE i.op = "lw"
  <2>1. row = Matrix[7]
    BY <1>6, RowsOf
  <2> HIDE DEF row
  <2> QED BY <1>6, <2>1, Row6 DEF row, Bit, RegWrite, FpBank, MemRead, MemWrite, Branch,
        AluSrc, Conditional, RegDstRd, Link
<1>7. CASE i.op = "sw"
  <2>1. row = Matrix[8]
    BY <1>7, RowsOf
  <2> HIDE DEF row
  <2> QED BY <1>7, <2>1, Row7 DEF row, Bit, RegWrite, FpBank, MemRead, MemWrite, Branch,
        AluSrc, Conditional, RegDstRd, Link
<1>8. CASE i.op = "lwc1"
  <2>1. row = Matrix[11]
    BY <1>8, RowsOf
  <2> HIDE DEF row
  <2> QED BY <1>8, <2>1, Row10 DEF row, Bit, RegWrite, FpBank, MemRead, MemWrite, Branch,
        AluSrc, Conditional, RegDstRd, Link
<1>9. CASE i.op = "swc1"
  <2>1. row = Matrix[12]
    BY <1>9, RowsOf
  <2> HIDE DEF row
  <2> QED BY <1>9, <2>1, Row11 DEF row, Bit, RegWrite, FpBank, MemRead, MemWrite, Branch,
        AluSrc, Conditional, RegDstRd, Link
<1>10. CASE i.op = "beq"
  <2>1. row = Matrix[6]
    BY <1>10, RowsOf
  <2> HIDE DEF row
  <2> QED BY <1>10, <2>1, Row5 DEF row, Bit, RegWrite, FpBank, MemRead, MemWrite, Branch,
        AluSrc, Conditional, RegDstRd, Link
<1>11. CASE i.op = "bne"
  <2>1. row = Matrix[6]
    BY <1>11, RowsOf
  <2> HIDE DEF row
  <2> QED BY <1>11, <2>1, Row5 DEF row, Bit, RegWrite, FpBank, MemRead, MemWrite, Branch,
        AluSrc, Conditional, RegDstRd, Link
<1>12. CASE i.op = "j"
  <2>1. row = Matrix[2]
    BY <1>12, RowsOf
  <2> HIDE DEF row
  <2> QED BY <1>12, <2>1, Row1 DEF row, Bit, RegWrite, FpBank, MemRead, MemWrite, Branch,
        AluSrc, Conditional, RegDstRd, Link
<1>13. CASE i.op = "jal"
  <2>1. row = Matrix[4]
    BY <1>13, RowsOf
  <2> HIDE DEF row
  <2> QED BY <1>13, <2>1, Row3 DEF row, Bit, RegWrite, FpBank, MemRead, MemWrite, Branch,
        AluSrc, Conditional, RegDstRd, Link
<1>14. CASE i.op = "jr"
  <2>1. row = Matrix[3]
    BY <1>14, RowsOf
  <2> HIDE DEF row
  <2> QED BY <1>14, <2>1, Row2 DEF row, Bit, RegWrite, FpBank, MemRead, MemWrite, Branch,
        AluSrc, Conditional, RegDstRd, Link
<1>15. CASE i.op = "jalr"
  <2>1. row = Matrix[5]
    BY <1>15, RowsOf
  <2> HIDE DEF row
  <2> QED BY <1>15, <2>1, Row4 DEF row, Bit, RegWrite, FpBank, MemRead, MemWrite, Branch,
        AluSrc, Conditional, RegDstRd, Link
<1>16. CASE i.op = "syscall"
  <2>1. row = Matrix[13]
    BY <1>16, RowsOf
  <2> HIDE DEF row
  <2> QED BY <1>16, <2>1, Row12 DEF row, Bit, RegWrite, FpBank, MemRead, MemWrite, Branch,
        AluSrc, Conditional, RegDstRd, Link
<1>17. i.op \in Op
  BY DEF Instr
<1> QED BY <1>1, <1>2, <1>3, <1>4, <1>5, <1>6, <1>7, <1>8,
          <1>9, <1>10, <1>11, <1>12, <1>13, <1>14, <1>15, <1>16, <1>17 DEF Op

(* So every signal that is tested is that of the instruction.               *)
LEMMA AllAgree ==
  ASSUME NEW i \in Instr, i.op # "fp", NEW stage \in DOMAIN Tested, NEW signal \in Tested[stage]
  PROVE  Agrees(signal, Found[stage][i.op][signal], i)
<1> DEFINE value == Found[stage][i.op][signal]
<1>1. signal \in {"MemRead", "MemWrite", "MemToReg", "RegBank", "RegDst",
                 "RegWrite", "ALUSrc", "ALUOp", "Branch"}
  BY DEF Tested
<1>2. value = IF i.op = "nop" THEN 0 ELSE RowOf(i.op)[Index(signal)]
  BY FoundIs DEF Instr
<1> HIDE DEF value
<1>3. CASE i.op = "nop"
  <2>1. /\ ~RegWrite(i) /\ ~FpBank(i) /\ ~MemRead(i) /\ ~MemWrite(i) /\ ~Branch(i)
        /\ ~AluSrc(i) /\ ~Conditional(i) /\ ~RegDstRd(i) /\ ~Link(i)
    BY <1>3 DEF RegWrite, FpBank, MemRead, MemWrite, Branch, AluSrc, Conditional, RegDstRd, Link
  <2>2. value = 0
    BY <1>2, <1>3
  <2>3. /\ value = Bit(RegWrite(i)) /\ value = Bit(FpBank(i)) /\ value = Bit(MemRead(i))
        /\ value = Bit(MemWrite(i)) /\ value = Bit(Branch(i)) /\ value = Bit(AluSrc(i))
        /\ value = (IF RegDstRd(i) THEN 1 ELSE IF Link(i) THEN 2 ELSE 0)
    BY <2>1, <2>2 DEF Bit
  <2>4. (value = 1) = Conditional(i)
    <3>1. ~(value = 1) /\ Conditional(i) = FALSE
      BY <2>1, <2>2 DEF Conditional
    <3> QED BY <3>1, Zenon
  <2>5. Agrees(signal, value, i)
    BY <1>1, <2>1, <2>3, <2>4 DEF Agrees
  <2> QED BY <2>5 DEF value
<1>4. CASE i.op # "nop"
  <2> DEFINE row == RowOf(i.op)
  <2>1. value = row[Index(signal)]
    BY <1>2, <1>4
  <2>2. /\ row[10] = Bit(RegWrite(i)) /\ row[8] = Bit(FpBank(i)) /\ row[4] = Bit(MemRead(i))
        /\ row[5] = Bit(MemWrite(i)) /\ row[15] = Bit(Branch(i))
        /\ row[13] = Bit(AluSrc(i)) /\ (row[14] = 1) = Conditional(i)
        /\ row[9] = (IF RegDstRd(i) THEN 1 ELSE IF Link(i) THEN 2 ELSE 0)
        /\ RegWrite(i) => row[7] = (IF MemRead(i) THEN 0 ELSE IF Link(i) THEN 2 ELSE 1)
    BY <1>4, RowsAgree
  <2> HIDE DEF row
  <2>3. Agrees(signal, value, i)
    BY <1>1, <2>1, <2>2, Indices DEF Agrees
  <2> QED BY <2>3 DEF value
<1> QED BY <1>3, <1>4

(* stage_id throws on an operation of the coprocessor, so none is behind.   *)
NoFp == idex.i.op # "fp" /\ exmem.i.op # "fp" /\ memwb.i.op # "fp"

(* Spec keeps operations of the coprocessor out of the stages behind ID.    *)
LEMMA NoFpHolds == Spec => []NoFp
<1>1. Init => NoFp
  BY BubbleOps DEF Init, NoFp
<1>2. NoFp /\ [Next]_vars => NoFp'
  <2> SUFFICES ASSUME NoFp, [Next]_vars PROVE NoFp'
    OBVIOUS
  <2>1. CASE Complete
    <3>1. idex'.i.op # "fp"
      BY <2>1, BubbleOps DEF Complete, Advance, idexNext, IdThrows
    <3> QED BY <2>1, <3>1, BubbleOps DEF Complete, Advance, exmemNext, memwbNext, NoFp
  <2>2. CASE NextCycle /\ ~Complete
    BY <2>2, OthersHold DEF segRegs, NoFp
  <2>3. CASE Reset
    BY <2>3, BubbleOps DEF Reset, NoFp
  <2>4. CASE Reconfigure
    BY <2>4 DEF Reconfigure, EnableHazardDetectionUnit, EnableForwardingUnit,
                SetBranchStage, SetBranchType, Configure, segRegs, NoFp
  <2>5. CASE UNCHANGED vars
    BY <2>5 DEF vars, segRegs, NoFp
  <2> QED BY <2>1, <2>2, <2>3, <2>4, <2>5 DEF Next
<1> QED BY <1>1, <1>2, PTL DEF Spec

(* An instruction in a stage is treated as what it is, whatever the program *)
(* and the configuration: every signal that is tested there comes through   *)
(* the packing, the directory and the masks of the stages before.           *)
THEOREM EverySignalArrives == Spec => []SignalsArrive
<1>1. TypeOK /\ NoFp => SignalsArrive
  <2> SUFFICES ASSUME TypeOK, NoFp, NEW stage \in DOMAIN Tested, NEW signal \in Tested[stage]
               PROVE  Agrees(signal, Found[stage][InStage[stage].op][signal], InStage[stage])
    BY DEF SignalsArrive
  <2>1. InStage[stage] \in {idex.i, exmem.i, memwb.i}
    BY DEF Tested, InStage
  <2>2. InStage[stage] \in Instr /\ InStage[stage].op # "fp"
    BY <2>1 DEF TypeOK, IdExReg, ExMemReg, MemWbReg, NoFp
  <2> QED BY <2>2, AllAgree
<1> QED BY <1>1, TypeCorrect, NoFpHolds, PTL
=============================================================================
