-------------------------------- MODULE Flex --------------------------------
(***************************************************************************)
(* CpuFlex: the five-stage pipeline of cpu_flex/ with a floating-point     *)
(* coprocessor beside it.                                                  *)
(*                                                                         *)
(* One call of next_cycle is one action.  It runs rising_flank of every    *)
(* stage (WB writes its registers), the coprocessor, then work_h and       *)
(* work_l of the stages in the order IF, ID, EX, MEM, WB, and last moves   *)
(* the segmentation registers.  A name ending in a stage is what that      *)
(* stage leaves.  Unlike CpuPipelined an instruction may leave in another  *)
(* order than it came, and the stages are held back by two signals:        *)
(* pc_write, for a hazard in ID, and fp_stall, for a result of the         *)
(* coprocessor that takes the place of the instruction in EX.              *)
(***************************************************************************)
EXTENDS Fpu

CONSTANTS Setups,       \* programs with a configuration set before they start
          InitialData,  \* the data snapshot, [DataAddr -> Word]
          Inputs,       \* words a service may leave in its result register
          MaxCount,     \* bound on fpCount in a model, the code has none
          CountGarbage, \* values fpCount, which no constructor initialises, may
                        \* have until a reset
          CopGarbage    \* whether the uninitialised instruction_t::cop of an
                        \* instruction that is not of type F may read as 8

VARIABLES
  prog,      \* text region: the loaded program, never written
  status,    \* branch type and stage of the HardwareManager, and the two units
  pc, gpr, fpr, mem, ready,
  id, ex, me, wb,    \* seg_reg of the stages
  ifTmp, ifNext,     \* tmp_seg_reg and next_seg_reg of StageIF
  exTmp,             \* tmp_seg_reg of StageEX
  fpu,               \* FPCoprocessor
  fpStall,           \* fp_stall
  fpCount,           \* fp_coprocessor_active_instruction_count
  countStart,        \* what fpCount was before the first instruction, of which
                     \* the code keeps no record
  exRan,             \* stage_instructions[STAGE_EX] is not 0
  idSyscall,         \* stage_instructions[STAGE_ID] is a syscall
  pcSrc, idTarget,   \* sig_pcsrc, and the address_branch it selects
  memTarget,         \* addr_cbranch of StageMEM
  cycle,             \* current_cycle, modulo 2
  end                \* how the last next_cycle ended

registers == <<gpr, fpr, mem>>
pipe == <<id, ex, me, wb, ifTmp, ifNext, exTmp>>
signals == <<fpStall, fpCount, exRan, idSyscall, pcSrc, idTarget, memTarget>>
vars == <<prog, status, countStart, pc, registers, ready, pipe, fpu, signals, cycle, end>>

BranchType == {"non_taken", "flush", "delayed"}
BranchStage == {"ID", "MEM"}
Status == [type : BranchType, stage : BranchStage, fu : BOOLEAN, hdu : BOOLEAN]

ASSUME SetupAssumption == Setups \subseteq [prog : [TextAddr -> FlexInstr], status : Status]
ASSUME ProgramAssumption == \A s \in Setups, a \in TextAddr : WellFormed(s.prog[a])
ASSUME FlexStateAssumption == /\ InitialData \in [DataAddr -> Word]
                              /\ Inputs \subseteq Word
                              /\ CopGarbage \subseteq BOOLEAN /\ MaxCount \in Nat
                              /\ CountGarbage \subseteq Int

Init ==
  /\ \E s \in Setups : prog = s.prog /\ status = s.status
  /\ pc = TextStart
  /\ gpr = [r \in Reg |-> 0] /\ fpr = [r \in FReg |-> 0]
  /\ mem = InitialData
  /\ ready = TRUE
  /\ id = Empty /\ ex = Empty /\ me = Empty /\ wb = Empty
  /\ ifTmp = Empty /\ ifNext = Empty /\ exTmp = Empty
  /\ fpu = NewFpu
  /\ fpCount \in CountGarbage /\ countStart = fpCount
  /\ fpStall = FALSE /\ exRan = FALSE /\ idSyscall = FALSE
  /\ pcSrc = "next" /\ idTarget = 0 /\ memTarget = 0
  /\ cycle = 0 /\ end = "none"

-----------------------------------------------------------------------------
(* rising_flank: StageWB writes the registers, $0 like any other.           *)
gprWB == IF SigRegWrite(wb.i) /\ ~SigRegBank(wb.i)
         THEN [gpr EXCEPT ![Dest(wb.i)] = WrittenValue(wb)] ELSE gpr

(* A move is known by its opcode, and a comparison by its RegWrite.          *)
fprWB ==
  IF (SigRegWrite(wb.i) /\ SigRegBank(wb.i)) \/ wb.i.op = "fmov"
  THEN [r \in FReg |-> IF r = Dest(wb.i) THEN WrittenValue(wb)
                       ELSE IF wb.i.dbl /\ r = Dest(wb.i) + 1 THEN wb.alu2
                       ELSE fpr[r]]
  ELSE fpr

(* What the coprocessor does, and the result it sends to MEM.               *)
Worked(g) == Work(fpu, me, wb, status.fu, g)

-----------------------------------------------------------------------------
(* StageID::work_h.  f is the coprocessor after its work, garbled says that *)
(* the cop field of an integer instruction reads as 8.                      *)
IsFp == id.i.op \in CoprocessorOp

(* An instruction of the coprocessor waits for a unit, for its operands and *)
(* for an earlier result for its destination: FpWaitsForOperands would      *)
(* forget the last.                                                         *)
FpWaitsForOperands(f) ==
  \/ ~Available(f, TypeOf(id.i))
  \/ /\ status.hdu
     /\ \E r \in Span(id.i, id.i.rs) \cup Span(id.i, id.i.rt) :
          DetectFpuHazard(f, ex, me, r, status.fu, TRUE)

FpWaits(f) ==
  \/ ~Available(f, TypeOf(id.i))
  \/ /\ status.hdu
     /\ \E r \in Span(id.i, id.i.rs) \cup Span(id.i, id.i.rt)
                   \cup (IF id.i.op \in Arithmetic THEN Span(id.i, id.i.rd) ELSE {}) :
          DetectFpuHazard(f, ex, me, r, status.fu, TRUE)

(* Older instructions have left when MEM and EX are empty, the call has     *)
(* been in ID for a cycle and the coprocessor has nothing to finish;        *)
(* SyscallWaitsForStages would not look at the coprocessor.                 *)
SyscallWaitsForStages == /\ id.i.op = "syscall"
                         /\ exRan \/ ~IsEmpty(me) \/ ~idSyscall

SyscallWaits == /\ id.i.op = "syscall"
                /\ exRan \/ ~IsEmpty(me) \/ ~idSyscall \/ fpCount # 0

ResolvedInID == Conditional(id.i) \/ IsBc1(id.i)

(* Nothing is forwarded to ID: CanForwardAnywhere would forget that the     *)
(* conditional branches may be decided there.                               *)
CanForwardAnywhere == status.fu

CanForward == status.fu /\ (ResolvedInID => status.stage = "MEM")

ReadsRt(i) == ~AluSrc(i) \/ MemWrite(i)

OperandWaits(f) ==
  /\ id.i.op \notin {"nop", "lui", "syscall"} /\ ~id.i.low12
  /\ \/ DetectHazard(ex, me, id.i.rs, CanForward, FALSE)
     \/ /\ ReadsRt(id.i)
        /\ IF id.i.op = "swc1"
           THEN DetectFpuHazard(f, ex, me, id.i.rt, CanForward, TRUE)
           ELSE DetectHazard(ex, me, id.i.rt, CanForward, FALSE)

IntegerWaits(f, garbled) ==
  \/ SyscallWaits
  \/ status.hdu /\ OperandWaits(f)
  \/ status.hdu /\ (IsBc1(id.i) \/ garbled) /\ f.condDelay > 0

Stall(f, garbled) == IF IsFp THEN FpWaits(f) ELSE IntegerWaits(f, garbled)

(* send_to_cp1: what becomes of an instruction of the coprocessor.          *)
FpUnit(f) == CASE ~IsFp -> "none"
               [] IsFp /\ status.hdu /\ FpWaits(f) -> "stall"
               [] OTHER -> TypeOf(id.i)

BranchInID(f, garbled) == /\ ~IsFp /\ ~Stall(f, garbled)
                          /\ Branch(id.i) \/ IsBc1(id.i)

TakenInID(f, garbled) ==
  /\ BranchInID(f, garbled)
  /\ CASE IsBc1(id.i)         -> f.cond = (id.i.rs # 0)
       [] Conditional(id.i)   -> status.stage = "ID" /\ Taken(id.i, gprWB[id.i.rs], gprWB[id.i.rt])
       [] OTHER               -> TRUE

Flushes(taken) == status.type = "flush" \/ (status.type = "non_taken" /\ taken)

FlushInID(f, garbled) == BranchInID(f, garbled) /\ Flushes(TakenInID(f, garbled))

pcID(f, garbled) ==
  IF FlushInID(f, garbled) /\ ~TakenInID(f, garbled) THEN Minus(id.pc, 1) ELSE pc

(* sig_pcsrc and its address are left as they were when ID stalls and by an *)
(* instruction of the coprocessor.                                          *)
SourceKept(f, garbled) == IsFp \/ Stall(f, garbled)

pcSrcID(f, garbled) ==
  CASE SourceKept(f, garbled)     -> pcSrc
    [] TakenInID(f, garbled)      -> IF ResolvedInID THEN "cbranch" ELSE "jump"
    [] OTHER                      -> "next"

(* The address a branch decided in ID goes to: idTargetUnwrapped would add  *)
(* the offset in wider arithmetic.                                          *)
idTargetUnwrapped(f, garbled) ==
  CASE ~BranchInID(f, garbled)       -> idTarget
    [] BranchInID(f, garbled) /\ ResolvedInID -> id.pc + id.i.imm
    [] BranchInID(f, garbled) /\ id.i.op \in {"jr", "jalr"} -> gprWB[id.i.rs]
    [] OTHER                         -> id.i.imm

idTargetID(f, garbled) ==
  CASE ~BranchInID(f, garbled)       -> idTarget
    [] BranchInID(f, garbled) /\ ResolvedInID -> Plus(id.pc, id.i.imm)
    [] BranchInID(f, garbled) /\ id.i.op \in {"jr", "jalr"} -> gprWB[id.i.rs]
    [] OTHER                         -> id.i.imm

idNext(f, garbled) ==
  IF Stall(f, garbled) THEN Empty
  ELSE LET bank == IF IsFp THEN fprWB ELSE gprWB
           Upper(r) == IF IsFp THEN fprWB[r + 1] ELSE 0
       IN  [Empty EXCEPT !.i = id.i, !.pc = id.pc,
                         !.a = bank[id.i.rs], !.a2 = Upper(id.i.rs),
                         !.b = IF SigRegBank(id.i) THEN fprWB[id.i.rt] ELSE bank[id.i.rt],
                         !.b2 = Upper(id.i.rt)]

-----------------------------------------------------------------------------
(* StageEX::work_h: nothing is done under fp_stall, which an instruction    *)
(* that ID just sent to the coprocessor has taken back.                     *)
StallEX(f) == fpStall /\ ~(IsFp /\ ~FpWaits(f))

ExA == IF status.fu THEN ForwardRegister(me, wb, ex.i.rs, ex.a, FALSE) ELSE ex.a
ExB == IF status.fu /\ (RegDstRd(ex.i) \/ ~RegWrite(ex.i))
       THEN ForwardRegister(me, wb, ex.i.rt, ex.b, ex.i.op = "swc1") ELSE ex.b

Service == gprWB[V0]
Serves(f) == ex.i.op = "syscall" /\ ~StallEX(f)

ExThrows(f) == /\ ~StallEX(f)
               /\ \/ ex.i.op \in {"mfhi", "bc1x"}
                  \/ ex.i.op = "syscall" /\ ~Answered(gprWB)

GprEX(f) == IF Serves(f) /\ Service \in DOMAIN Result
            THEN { [gprWB EXCEPT ![Result[Service]] = v] : v \in Inputs }
            ELSE { gprWB }

readyEX(f) == ready /\ ~(Serves(f) /\ Service \in Exit)
exRanEX(f) == ~StallEX(f) /\ ~IsEmpty(ex)

exTmpEX(f) ==
  IF StallEX(f) THEN exTmp
  ELSE IF IsEmpty(ex) THEN Empty
  ELSE [Empty EXCEPT !.i = ex.i, !.pc = ex.pc, !.b = ExB,
                     !.alu = AluOutput(ex.i, ExA, ExB),
                     !.target = Plus(ex.pc, ex.i.imm),
                     !.taken = Taken(ex.i, ExA, ExB)]

-----------------------------------------------------------------------------
(* StageMEM::work_h.                                                        *)
(* The accesses that report an error instead of throwing: what they were to *)
(* read is then left undefined, and nothing is written.                     *)
AddressError(a) == a \notin DataAddr
WordRead(a) == IF AddressError(a) THEN WordSize - 1 ELSE mem[a]
WordWritten(a, v) == IF AddressError(a) THEN mem ELSE [mem EXCEPT ![a] = v]

MemError == (MemRead(me.i) \/ MemWrite(me.i)) /\ AddressError(me.alu)
memMEM == IF MemWrite(me.i) THEN WordWritten(me.alu, me.b) ELSE mem

BranchInMEM == status.stage = "MEM" /\ SigBranch(me.i)
FlushInMEM == BranchInMEM /\ Flushes(me.taken)
memTargetMEM == IF BranchInMEM /\ me.taken THEN me.target ELSE memTarget

pcMEM(f, garbled) == IF FlushInMEM /\ ~me.taken THEN Minus(me.pc, 1) ELSE pcID(f, garbled)

meNext == [me EXCEPT !.word = IF MemRead(me.i) THEN WordRead(me.alu) ELSE WordSize - 1,
                     !.a = 0, !.a2 = 0, !.b = 0, !.b2 = 0, !.taken = FALSE, !.target = 0]

(* flush_signal as the stages leave it: MEM has the last word.              *)
FlushSignal(f, garbled) == IF FlushInMEM THEN 3
                           ELSE IF FlushInID(f, garbled) THEN 1 ELSE 0

-----------------------------------------------------------------------------
(* StageIF::work_l, and StageMEM::work_l, which has the last word on the PC. *)
IfThrows(f, garbled) == ~StallEX(f) /\ pcMEM(f, garbled) \notin TextAddr

IfAdvances(f, garbled) == ~StallEX(f) /\ ~Stall(f, garbled)

NextAddress(f, garbled) ==
  CASE pcSrcID(f, garbled) = "next" -> Plus(pcMEM(f, garbled), 1)
    [] pcSrcID(f, garbled) = "cbranch" /\ status.stage = "MEM" -> memTargetMEM
    [] OTHER -> idTargetID(f, garbled)

pcIF(f, garbled) == IF IfAdvances(f, garbled) THEN NextAddress(f, garbled)
                    ELSE pcMEM(f, garbled)

pcNext(f, garbled) ==
  IF BranchInMEM /\ me.taken /\ me.target # 0 THEN me.target ELSE pcIF(f, garbled)

(* In the delay slot of a branch the PC kept is that of the next in line.   *)
Fetched(f, garbled) ==
  [Empty EXCEPT !.i = prog[pcMEM(f, garbled)],
                !.pc = IF pcSrcID(f, garbled) # "next" /\ status.type = "delayed"
                       THEN Plus(pcMEM(f, garbled), 1) ELSE pcIF(f, garbled)]

ifTmpIF(f, garbled) ==
  CASE StallEX(f)               -> ifTmp
    [] IfAdvances(f, garbled)   -> Fetched(f, garbled)
    [] OTHER                    -> Empty

(* Without pc_write what was to be sent stays what it was.                  *)
ifNextIF(f, garbled) == IF ~StallEX(f) /\ Stall(f, garbled) THEN ifNext
                        ELSE ifTmpIF(f, garbled)

-----------------------------------------------------------------------------
(* next_cycle: the segmentation registers, with the result of the           *)
(* coprocessor in place of that of EX if there is one.                      *)
Returns(out) == ~IsEmpty(out)

(* Held back in EX and before: a result came while EX was at work, or an    *)
(* instruction of the coprocessor waits in ID.                              *)
fpStallNext(f, out) ==
  /\ exRanEX(f)
  /\ (Returns(out) /\ ~IsEmpty(ex)) \/ FpUnit(f) = "stall"

meMoved(f, out) == IF Returns(out) THEN out
                   ELSE IF exRanEX(f) THEN exTmpEX(f) ELSE Empty

(* An integer instruction moves from ID to EX when MEM took what EX did,    *)
(* told by comparing instruction codes.                                     *)
IntoEX(f, out) == /\ ~IsFp
                  /\ ~(Returns(out) /\ ~IsEmpty(ex) /\ exRanEX(f))
                  /\ meMoved(f, out).i = exTmpEX(f).i

exMoved(f, out, garbled) == IF IntoEX(f, out) THEN idNext(f, garbled)
                            ELSE IF IsFp THEN Empty ELSE ex

(* ID takes what IF fetched.                                                *)
IntoID(f, out, garbled) ==
  \/ Returns(out) /\ IsEmpty(ex)
  \/ FpUnit(f) \notin {"none", "stall"}
  \/ IntoEX(f, out) /\ ~Stall(f, garbled)

idMoved(f, out, garbled) == IF IntoID(f, out, garbled) THEN ifNextIF(f, garbled) ELSE id

Sent(f, garbled) == IF FpUnit(f) \in {"none", "stall"} THEN f
                    ELSE SetSegReg(f, FpUnit(f), idNext(f, garbled))

FlushedFpu(f, garbled) == IF FlushSignal(f, garbled) >= 2 THEN ResetFpu(Sent(f, garbled))
                          ELSE Sent(f, garbled)

(* The count goes down with a result and up with an instruction sent;       *)
(* countNextIssued is what it would be if only one of them were counted.    *)
countNextIssued(f, out) ==
  IF FpUnit(f) \in {"none", "stall"} THEN fpCount - (IF Returns(out) THEN 1 ELSE 0)
  ELSE fpCount + Counted(f, FpUnit(f))

countNext(f, out) ==
  fpCount - (IF Returns(out) THEN 1 ELSE 0)
          + (IF FpUnit(f) \in {"none", "stall"} THEN 0 ELSE Counted(f, FpUnit(f)))

Advance(f, out, garbled) ==
  LET flush == FlushSignal(f, garbled)
  IN  /\ id' = IF flush >= 1 THEN Empty ELSE idMoved(f, out, garbled)
      /\ ex' = IF flush >= 2 THEN Empty ELSE exMoved(f, out, garbled)
      /\ me' = IF flush >= 3 THEN Empty ELSE meMoved(f, out)
      /\ wb' = meNext
      /\ fpu' = FlushedFpu(f, garbled)
      /\ fpCount' = countNext(f, out) /\ fpCount' <= MaxCount
      /\ fpStall' = fpStallNext(f, out)
      /\ ifTmp' = ifTmpIF(f, garbled) /\ ifNext' = ifNextIF(f, garbled)

-----------------------------------------------------------------------------
(* A cycle, by the way it ends.  It is counted, and the registers are       *)
(* written, in any case.                                                    *)
Cycle(f, how) ==
  /\ ready /\ end # "CP1"
  /\ fpr' = fprWB
  /\ cycle' = 1 - cycle /\ end' = how
  /\ UNCHANGED <<prog, status, countStart>>

(* What StageID leaves in the signals.                                      *)
Decoded(f, garbled) ==
  /\ idSyscall' = (id.i.op = "syscall")
  /\ pcSrc' = pcSrcID(f, garbled) /\ idTarget' = idTargetID(f, garbled)

(* A result that forwarding_registers no longer has ends work() with a      *)
(* std::out_of_range, which nobody catches: the process has terminated.     *)
ThrowCP1(f) ==
  /\ f.lost
  /\ Cycle(f, "CP1")
  /\ gpr' = gprWB /\ fpu' = f
  /\ UNCHANGED <<pc, mem, ready, pipe, signals>>

ThrowEX(f, garbled) ==
  /\ ~f.lost /\ ExThrows(f)
  /\ Cycle(f, "EX")
  /\ gpr' = gprWB /\ fpu' = f /\ pc' = pcID(f, garbled)
  /\ Decoded(f, garbled) /\ fpStall' = FALSE
  /\ UNCHANGED <<mem, ready, pipe, fpCount, exRan, memTarget>>

(* EX ran to its end.                                                       *)
Executed(f, garbled) ==
  /\ ~f.lost /\ ~ExThrows(f)
  /\ gpr' \in GprEX(f) /\ ready' = readyEX(f)
  /\ exRan' = exRanEX(f) /\ exTmp' = exTmpEX(f)
  /\ Decoded(f, garbled)

(* An access MEM cannot make is returned, not thrown: nothing moves.        *)
ReturnMEM(f, garbled) ==
  /\ Executed(f, garbled) /\ MemError
  /\ Cycle(f, "MEM")
  /\ fpu' = f /\ pc' = pcID(f, garbled) /\ fpStall' = StallEX(f)
  /\ UNCHANGED <<mem, id, ex, me, wb, ifTmp, ifNext, fpCount, memTarget>>

ThrowIF(f, garbled) ==
  /\ Executed(f, garbled) /\ ~MemError /\ IfThrows(f, garbled)
  /\ Cycle(f, "IF")
  /\ fpu' = f /\ pc' = pcMEM(f, garbled) /\ fpStall' = StallEX(f)
  /\ mem' = memMEM /\ memTarget' = memTargetMEM /\ ifTmp' = Empty
  /\ UNCHANGED <<id, ex, me, wb, ifNext, fpCount>>

Complete(f, out, garbled) ==
  /\ Executed(f, garbled) /\ ~MemError /\ ~IfThrows(f, garbled)
  /\ Cycle(f, "none")
  /\ mem' = memMEM /\ memTarget' = memTargetMEM
  /\ pc' = pcNext(f, garbled)
  /\ Advance(f, out, garbled)

NextCycle ==
  \E work \in { Worked(g) : g \in Garbage }, garbled \in CopGarbage :
    \/ ThrowCP1(work.fpu)
    \/ ThrowEX(work.fpu, garbled)
    \/ ReturnMEM(work.fpu, garbled)
    \/ ThrowIF(work.fpu, garbled)
    \/ Complete(work.fpu, work.out, garbled)

-----------------------------------------------------------------------------
(* reset, part by part.                                                     *)
ResetCpu == /\ pc' = TextStart
            /\ gpr' = [r \in Reg |-> 0] /\ fpr' = [r \in FReg |-> 0]
            /\ mem' = InitialData /\ ready' = TRUE
            /\ cycle' = 0 /\ end' = "none"

ResetHardware == fpStall' = FALSE /\ fpCount' = 0 /\ countStart' = 0

ResetID  == id' = Empty /\ idTarget' = 0
ResetMEM == me' = Empty /\ memTarget' = 0

(* What no part names stays: the condition bit, the instructions the stages *)
(* saw, sig_pcsrc, and what IF and EX were about to send.                   *)
Reset ==
  /\ end # "CP1"
  /\ ResetCpu /\ ResetHardware
  /\ ResetID /\ ex' = Empty /\ ResetMEM /\ wb' = Empty
  /\ fpu' = ResetFpu(fpu)
  /\ UNCHANGED <<prog, ifTmp, ifNext, exTmp, exRan, idSyscall, pcSrc>>

(* The setters of the configuration reset the CPU first.                    *)
Configure(key, value) == Reset /\ status' = [status EXCEPT ![key] = value]

EnableHazardDetectionUnit(enabled) == Configure("hdu", enabled)
EnableForwardingUnit(enabled) == Configure("fu", enabled)
ChangeBranchStage(stage) == Configure("stage", stage)
ChangeBranchType(type) == Configure("type", type)

Reconfigure == \/ \E e \in BOOLEAN : EnableHazardDetectionUnit(e)
               \/ \E e \in BOOLEAN : EnableForwardingUnit(e)
               \/ \E s \in BranchStage : ChangeBranchStage(s)
               \/ \E t \in BranchType : ChangeBranchType(t)

Next == NextCycle \/ (Reset /\ UNCHANGED status) \/ Reconfigure

Spec == Init /\ [][Next]_vars

(* The loop of a driver: next_cycle until the program is done.  Every call  *)
(* counts the cycle, so a driver that goes on is one that goes on counting. *)
Drive == end = "none" /\ NextCycle
DriveSpec == Init /\ [][Drive]_vars

Clock == ready /\ end = "none" /\ cycle' = 1 - cycle
RunSpec == DriveSpec /\ WF_cycle(Clock)
=============================================================================
