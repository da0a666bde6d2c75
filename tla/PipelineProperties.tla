------------------------- MODULE PipelineProperties -------------------------
(***************************************************************************)
(* What CpuPipelined promises: the invariants of its segmentation          *)
(* registers and the refinement of the sequential machine of Isa.          *)
(***************************************************************************)
EXTENDS Pipeline

(* Every variable holds a value of the range its declaration in             *)
(* cpu_pipelined.h and cpu.h gives it.                                      *)
TypeOK ==
  /\ prog \in [TextAddr -> Instr]
  /\ status \in Status
  /\ pc \in Word /\ nextPc \in Word
  /\ gpr \in [Reg -> Word]
  /\ fpr \in [Reg -> Word]
  /\ hilo \in Word
  /\ mem \in [DataAddr -> Word]
  /\ ifid \in IfIdReg /\ idex \in IdExReg
  /\ exmem \in ExMemReg /\ memwb \in MemWbReg
  /\ flush \in {0, 1, 3}
  /\ cycle \in 0 .. MaxDiagram
  /\ ready \in BOOLEAN
  /\ thrown \in {"none", "WB", "MEM", "EX", "ID", "IF", "diagram", "abort"}

(* A service call runs alone: when it reaches EX every older instruction    *)
(* has left the pipeline, so the service reads the registers and the memory *)
(* as the program order leaves them.  stage_id holds it back for this, with *)
(* or without a hazard detection unit.                                      *)
SyscallAlone ==
  idex.i.op = "syscall" => exmem.i.op = "nop" /\ memwb.i.op = "nop"

(* The instruction in EX has its operand r: whoever still had to write it   *)
(* when the instruction was decoded can be forwarded from.  A load is not   *)
(* right ahead, and ahead of a branch decided in ID, which cannot be        *)
(* forwarded to, there was nobody at all.                                   *)
HasOperand(i, r, fp) ==
  IF status.fu /\ ~(Conditional(i) /\ status.stage = "ID")
  THEN ~(MemRead(exmem.i) /\ Writes(exmem.i, r, fp))
  ELSE ~Writes(exmem.i, r, fp) /\ ~Writes(memwb.i, r, fp)

HasOperands(i) == /\ HasOperand(i, i.rs, FALSE)
                  /\ ReadsRt(i) => HasOperand(i, i.rt, i.op = "swc1")

(* The contract of the hazard detection unit, for the instructions stage_id *)
(* submits to it: those whose constant ends in 0xc pass for service calls.  *)
OperandsReady ==
  /\ status.hdu
  /\ idex.i.op \notin {"nop", "lui", "syscall"} /\ ~idex.i.low12
  => HasOperands(idex.i)

(* A jump through a register has its operand when it is resolved, in ID.    *)
JumpOperandReady ==
  /\ status.hdu /\ ~Stall
  /\ ifid.i.op \in {"jr", "jalr"}
  => /\ ~Writes(idex.i, ifid.i.rs, FALSE)
     /\ ~Writes(exmem.i, ifid.i.rs, FALSE)

(* A branch or jump that leaves MEM is followed by what PCSRC says of it:   *)
(* the oldest instruction behind it, or the next to be fetched, is that at  *)
(* its target, or right behind it when it is not taken; or else it is       *)
(* fetched once more itself.                                                *)
Successor == CASE ~Conditional(exmem.i) -> exmem.i.imm
               [] exmem.taken           -> exmem.target
               [] OTHER                 -> exmem.pc

NextInPipeline == CASE exmem.pc # 0 -> Minus(exmem.pc, 1)
                    [] exmem.pc = 0 /\ idex.pc # 0 -> Minus(idex.pc, 1)
                    [] exmem.pc = 0 /\ idex.pc = 0 /\ ifid.pc # 0 -> Minus(ifid.pc, 1)
                    [] OTHER -> pc

BranchesLead ==
  [][ Complete /\ Branch(exmem.i) /\ exmem.i.op \notin {"jr", "jalr"}
        => NextInPipeline' \in {Successor, Minus(exmem.pc, 1)} ]_vars

(* A cycle that threw cannot be got past by asking for another: next_cycle  *)
(* repeats the stages on the same segmentation registers and throws again,  *)
(* until the CPU is reset.                                                  *)
ThrowIsFinal == [][ thrown # "none" /\ NextCycle => thrown' # "none" ]_vars

(* The program comes to its exit service.                                   *)
RunsToExit == <>~ready

-----------------------------------------------------------------------------
(* The sequential machine inside the pipeline.  An instruction has taken    *)
(* effect once it has left MEM, or EX when it is a service call; what it    *)
(* still has to write is in MEM/WB.  A cycle that threw in a stage after    *)
(* MEM has done the work of MEM without moving on, and one that threw after *)
(* EX the work of EX.                                                       *)
MemDone == thrown \in {"EX", "ID", "IF", "diagram"}
ExDone == thrown \in {"ID", "IF", "diagram"}

Faulty(i) == RegWrite(i) /\ ~FpBank(i) /\ RegDest(i) = 0

RetiredInMEM == MemDone /\ ~Branch(exmem.i) /\ ~Faulty(exmem.i)

WriteBack(bank, seg, fp) ==
  IF RegWrite(seg.i) /\ FpBank(seg.i) = fp /\ ~Faulty(seg.i)
  THEN [bank EXCEPT ![RegDest(seg.i)] =
          CASE Link(seg.i)    -> seg.pc
            [] MemRead(seg.i) -> seg.word
            [] OTHER          -> seg.alu]
  ELSE bank

Architectural(bank, fp) ==
  LET committed == WriteBack(bank, memwb, fp)
  IN  IF RetiredInMEM THEN WriteBack(committed, memwbNext, fp) ELSE committed

(* The oldest instruction that has not taken effect, with the address next  *)
(* to it: the PC a segmentation register keeps is the one after the fetch,  *)
(* which behind a delayed branch is the target.                             *)
Pending ==
  IF Faulty(memwb.i) THEN memwb
  ELSE IF exmem.i.op \notin {"nop", "syscall"} /\ ~RetiredInMEM THEN exmem
  ELSE IF idex.i.op # "nop" /\ ~(idex.i.op = "syscall" /\ ExDone) THEN idex
  ELSE IF ifid.i.op # "nop" THEN ifid
  ELSE [i  |-> InstructionAt(prog, NextNonzero(prog, pc)),
        pc |-> NextNonzero(prog, pc) + 1]

Sequential == INSTANCE Isa WITH
  delayed <- (status.type = "delayed"),
  current <- Pending.i,
  next <- Pending.pc,
  gpr <- Architectural(gpr, FALSE),
  fpr <- Architectural(fpr, TRUE),
  HasFp <- FALSE

(* With its hazard detection unit on, the pipeline runs every program as    *)
(* the sequential machine does, whatever its instructions overlap with;     *)
(* with delayed branches, as the one that has a delay slot.                 *)
ImplementsIsa == Sequential!Spec
=============================================================================
