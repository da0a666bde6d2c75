------------------------------ MODULE Pipeline ------------------------------
(***************************************************************************)
(* CpuPipelined: the five-stage pipeline of cpu/cpu_pipelined.cpp.         *)
(*                                                                         *)
(* One call of next_cycle is one action.  It runs the stages in the order  *)
(* WB, MEM, EX, ID, IF on the segmentation registers of the previous cycle *)
(* and then replaces them, so a stage sees what the stages before it have  *)
(* just done to the registers, the memory and the PC.  The operators below *)
(* follow that order: a name ending in a stage (gprWB, pcID, ...) is the   *)
(* value that stage leaves.  A stage that throws ends the cycle there: what*)
(* the earlier stages did stays, the segmentation registers do not move.   *)
(***************************************************************************)
EXTENDS Instructions

CONSTANTS Setups,       \* programs that may be loaded, each with a configuration
                        \* the CPU may be built with or set to before it starts
          InitialData,  \* the data snapshot, [DataAddr -> Word]
          Inputs,       \* words a service may leave in its result register
          MaxDiagram    \* MAX_DIAGRAM_SIZE, cycles the diagram has room for

VARIABLES
  prog,    \* text region: the loaded program, never written
  status,  \* configuration: branch-type, branch-stage and the two units
  pc,      \* SPECIAL_PC
  gpr,     \* integer registers
  fpr,     \* FP registers
  hilo,    \* SPECIAL_HI and SPECIAL_LO
  mem,     \* data region
  ifid, idex, exmem, memwb,  \* seg_regs
  flush,   \* flush_pipeline: how many segmentation registers to clear
  nextPc,  \* next_pc: where a branch decided in MEM goes, 0 when none
  cycle,   \* cycle, counted up to MaxDiagram, where next_cycle throws
  ready,   \* FALSE once the program called the exit service
  thrown   \* where the last next_cycle threw, "none" when it completed, "abort"
           \* when a failed assertion ended the process

segRegs == <<ifid, idex, exmem, memwb>>
vars == <<prog, status, pc, gpr, fpr, hilo, mem, ifid, idex, exmem, memwb,
          flush, nextPc, cycle, ready, thrown>>

BranchType == {"non_taken", "flush", "delayed"}
BranchStage == {"ID", "MEM"}

(* The status keys, and whether the build evaluates assert().               *)
Status == [type : BranchType, stage : BranchStage, fu : BOOLEAN, hdu : BOOLEAN,
           asserts : BOOLEAN]

ASSUME SetupAssumption ==
  Setups \subseteq [prog : [TextAddr -> Instr], status : Status]
ASSUME StateAssumption == /\ InitialData \in [DataAddr -> Word]
                          /\ Inputs \subseteq Word
                          /\ MaxDiagram \in Nat \ {0}

(* Segmentation registers.  Signals, register numbers and the destination   *)
(* are functions of the instruction; an all-zero register is a bubble.      *)
IfIdReg  == [i : Instr, pc : Word]
IdExReg  == [i : Instr, pc : Word, a : Word, b : Word]
ExMemReg == [i : Instr, pc : Word, b : Word, alu : Word, target : Word, taken : BOOLEAN]
MemWbReg == [i : Instr, pc : Word, alu : Word, word : Word]

IfIdBubble  == [i |-> Nop, pc |-> 0]
IdExBubble  == [i |-> Nop, pc |-> 0, a |-> 0, b |-> 0]
ExMemBubble == [i |-> Nop, pc |-> 0, b |-> 0, alu |-> 0, target |-> 0, taken |-> FALSE]
MemWbBubble == [i |-> Nop, pc |-> 0, alu |-> 0, word |-> 0]

Init ==
  /\ \E s \in Setups : prog = s.prog /\ status = s.status
  /\ pc = TextStart
  /\ gpr = [r \in Reg |-> 0]
  /\ fpr = [r \in Reg |-> 0]
  /\ hilo = 0
  /\ mem = InitialData
  /\ ifid = IfIdBubble /\ idex = IdExBubble
  /\ exmem = ExMemBubble /\ memwb = MemWbBubble
  /\ flush = 0 /\ nextPc = 0
  /\ cycle = 0 /\ ready = TRUE /\ thrown = "none"

-----------------------------------------------------------------------------
(* stage_wb                                                                 *)
WbValue == CASE Link(memwb.i)    -> memwb.pc
             [] MemRead(memwb.i) -> memwb.word
             [] OTHER            -> memwb.alu

WbThrows == RegWrite(memwb.i) /\ ~FpBank(memwb.i) /\ RegDest(memwb.i) = 0

gprWB == IF RegWrite(memwb.i) /\ ~FpBank(memwb.i)
         THEN [gpr EXCEPT ![RegDest(memwb.i)] = WbValue] ELSE gpr

fprWB == IF RegWrite(memwb.i) /\ FpBank(memwb.i)
         THEN [fpr EXCEPT ![RegDest(memwb.i)] = WbValue] ELSE fpr

-----------------------------------------------------------------------------
(* stage_mem: conditional branches are decided here when the branch stage   *)
(* is MEM.  Programs are taken not to address their own text as data, so an *)
(* address outside the data region is one that get_memory_region rejects.   *)
MemBranch == status.stage = "MEM" /\ Branch(exmem.i)

MemFlush == /\ MemBranch
            /\ \/ status.type = "flush"
               \/ status.type = "non_taken" /\ exmem.taken

(* Error variant of flushMEM: retries of a cycle add up.                     *)
flushMEMAdded == IF MemFlush THEN flush + 3 ELSE flush

flushMEM == IF MemFlush THEN 3 ELSE flush
(* Error variant of pcMEM: a branch not taken is flushed behind for good.    *)
pcMEMKept == pc

pcMEM == IF MemFlush /\ ~exmem.taken THEN Minus(exmem.pc, 1) ELSE pc
nextPcMEM == IF MemBranch /\ exmem.taken THEN exmem.target ELSE nextPc

MemThrows == /\ MemRead(exmem.i) \/ MemWrite(exmem.i)
             /\ exmem.alu \notin DataAddr

memMEM == IF MemWrite(exmem.i) THEN [mem EXCEPT ![exmem.alu] = exmem.b] ELSE mem

memwbNext == [i    |-> exmem.i, pc |-> exmem.pc, alu |-> exmem.alu,
              word |-> IF MemRead(exmem.i) THEN mem[exmem.alu] ELSE WordSize - 1]

-----------------------------------------------------------------------------
(* stage_ex and forward_register: the operand as the two instructions ahead *)
(* would leave it.                                                          *)
(* Error variant of Writes: takes a bubble for a writer of $0.               *)
WritesOrBubble(i, r, fp) == RegDest(i) = r /\ FpBank(i) = fp

Writes(i, r, fp) == RegWrite(i) /\ RegDest(i) = r /\ FpBank(i) = fp

(* Error variant of Forward: the older of two results wins.                  *)
ForwardOldest(r, v, fp) ==
  IF r = 0 /\ ~fp THEN v
  ELSE IF Writes(memwb.i, r, fp) THEN WbValue
  ELSE IF Writes(exmem.i, r, fp) /\ ~MemRead(exmem.i) THEN exmem.alu
  ELSE v

Forward(r, v, fp) ==
  IF r = 0 /\ ~fp THEN v
  ELSE IF Writes(exmem.i, r, fp) /\ ~MemRead(exmem.i) THEN exmem.alu
  ELSE IF Writes(memwb.i, r, fp) THEN WbValue
  ELSE v

ExA == IF status.fu THEN Forward(idex.i.rs, idex.a, FALSE) ELSE idex.a

ExB == IF status.fu /\ (RegDstRd(idex.i) \/ ~RegWrite(idex.i))
       THEN Forward(idex.i.rt, idex.b, idex.i.op = "swc1") ELSE idex.b

Service == gprWB[V0]

ExThrows == \/ idex.i.op = "mfhi"
            \/ idex.i.op = "syscall" /\ ~Answered(gprWB)

hiloEX == IF idex.i.op = "mult" THEN Times(ExA, ExB) ELSE hilo
readyEX == ready /\ ~(idex.i.op = "syscall" /\ Service \in Exit)

(* The registers the service called in EX may leave.                        *)
GprEX == IF idex.i.op = "syscall" /\ Service \in DOMAIN Result
         THEN { [gprWB EXCEPT ![Result[Service]] = v] : v \in Inputs }
         ELSE { gprWB }

exmemNext ==
  [i      |-> idex.i, pc |-> idex.pc, b |-> ExB,
   alu    |-> AluOutput(idex.i, ExA, ExB),
   target |-> Plus(idex.pc, idex.i.imm),
   taken  |-> Taken(idex.i, ExA, ExB)]

-----------------------------------------------------------------------------
(* stage_id, process_branch and detect_hazard.  g is the register file EX   *)
(* left, the one ID reads: jumps are resolved here, and the conditional     *)
(* branches when the branch stage is ID.                                    *)
CanForward == status.fu /\ (~Conditional(ifid.i) \/ status.stage = "MEM")

(* Error variant of Hazard: forwarding is trusted with loads too.            *)
HazardUnlessForwarded(r, fp) ==
  ~CanForward /\ (Writes(idex.i, r, fp) \/ Writes(exmem.i, r, fp))

Hazard(r, fp) ==
  \/ Writes(idex.i, r, fp) /\ (MemRead(idex.i) \/ ~CanForward)
  \/ Writes(exmem.i, r, fp) /\ ~CanForward

ReadsRt(i) == ~AluSrc(i) \/ MemWrite(i)

(* Error variant of SyscallWaits: does not wait for the instruction in MEM.  *)
SyscallWaitsForEX == ifid.i.op = "syscall" /\ idex.i.op # "nop"

SyscallWaits == /\ ifid.i.op = "syscall"
                /\ idex.i.op # "nop" \/ exmem.i.op # "nop"

(* The low six bits of any format pass for the funct of a syscall.          *)
OperandWaits ==
  /\ status.hdu
  /\ ifid.i.op \notin {"nop", "lui", "syscall"} /\ ~ifid.i.low12
  /\ \/ Hazard(ifid.i.rs, FALSE)
     \/ ReadsRt(ifid.i) /\ Hazard(ifid.i.rt, ifid.i.op = "swc1")

Stall == SyscallWaits \/ OperandWaits

IdThrows == ifid.i.op = "fp"

IdBranch == ~Stall /\ Branch(ifid.i)

IdTaken(g) == /\ IdBranch
              /\ Conditional(ifid.i) => /\ status.stage = "ID"
                                        /\ Taken(ifid.i, g[ifid.i.rs], g[ifid.i.rt])

IdTarget(g) == CASE Conditional(ifid.i)            -> Plus(ifid.pc, ifid.i.imm)
                 [] ifid.i.op \in {"jr", "jalr"}   -> g[ifid.i.rs]
                 [] OTHER                          -> ifid.i.imm

IdFlush(g) == /\ IdBranch
              /\ \/ status.type = "flush"
                 \/ status.type = "non_taken" /\ IdTaken(g)

flushID(g) == IF IdFlush(g) THEN 1 ELSE flushMEM
pcID(g) == IF IdFlush(g) /\ ~IdTaken(g) THEN Minus(ifid.pc, 1) ELSE pcMEM

idexNext(g) ==
  IF Stall THEN IdExBubble
  ELSE [i |-> ifid.i, pc |-> ifid.pc, a |-> g[ifid.i.rs],
        b |-> IF FpBank(ifid.i) THEN fprWB[ifid.i.rt] ELSE g[ifid.i.rt]]

-----------------------------------------------------------------------------
(* stage_if: a stalled pipeline still fetches, and drops what it fetched.   *)
(* The PC kept with an instruction is the one after the update.             *)
IfThrows(g) == pcID(g) \notin TextAddr

pcIF(g) == IF Stall THEN pcID(g)
           ELSE IF IdTaken(g) THEN IdTarget(g)
           ELSE Plus(pcID(g), 1)

ifidNext(g) == IF Stall THEN ifid ELSE [i |-> prog[pcID(g)], pc |-> pcIF(g)]

-----------------------------------------------------------------------------
(* next_cycle, by the way it ends.                                          *)
Running == thrown # "abort"

Tick(end) ==
  /\ Running /\ ready
  /\ cycle' = IF cycle < MaxDiagram THEN cycle + 1 ELSE cycle
  /\ thrown' = end
  /\ UNCHANGED <<prog, status>>

ThrowWB ==
  /\ WbThrows
  /\ Tick("WB")
  /\ UNCHANGED <<pc, gpr, fpr, hilo, mem, segRegs, flush, nextPc, ready>>

ThrowMEM ==
  /\ ~WbThrows /\ MemThrows
  /\ Tick("MEM")
  /\ gpr' = gprWB /\ fpr' = fprWB
  /\ UNCHANGED <<pc, hilo, mem, segRegs, flush, nextPc, ready>>

(* Error variant of ThrowEX: the instruction that threw is discarded.        *)
ThrowEXDiscarding ==
  /\ ~WbThrows /\ ~MemThrows /\ ExThrows
  /\ Tick("EX")
  /\ gpr' = gprWB /\ fpr' = fprWB
  /\ mem' = memMEM /\ pc' = pcMEM /\ flush' = flushMEM /\ nextPc' = nextPcMEM
  /\ idex' = IdExBubble
  /\ UNCHANGED <<hilo, ifid, exmem, memwb, ready>>

ThrowEX ==
  /\ ~WbThrows /\ ~MemThrows /\ ExThrows
  /\ Tick("EX")
  /\ gpr' = gprWB /\ fpr' = fprWB
  /\ mem' = memMEM /\ pc' = pcMEM /\ flush' = flushMEM /\ nextPc' = nextPcMEM
  /\ UNCHANGED <<hilo, segRegs, ready>>

(* WB, MEM and EX ran to their end.                                         *)
BackEnd ==
  /\ ~WbThrows /\ ~MemThrows /\ ~ExThrows
  /\ gpr' \in GprEX /\ fpr' = fprWB
  /\ mem' = memMEM
  /\ hilo' = hiloEX /\ ready' = readyEX

ThrowID ==
  /\ BackEnd /\ IdThrows
  /\ Tick("ID")
  /\ pc' = pcMEM /\ flush' = flushMEM /\ nextPc' = nextPcMEM
  /\ UNCHANGED segRegs

ThrowIF ==
  /\ BackEnd /\ ~IdThrows /\ IfThrows(gpr')
  /\ Tick("IF")
  /\ pc' = pcID(gpr') /\ flush' = flushID(gpr') /\ nextPc' = nextPcMEM
  /\ UNCHANGED segRegs

(* All five stages ran, but the diagram has no column for this cycle.       *)
Overflow ==
  /\ BackEnd /\ ~IdThrows /\ ~IfThrows(gpr')
  /\ cycle + 1 >= MaxDiagram
  /\ Tick("diagram")
  /\ pc' = pcIF(gpr') /\ flush' = flushID(gpr') /\ nextPc' = nextPcMEM
  /\ UNCHANGED segRegs

(* The diagram is updated for STAGE_COUNT stages, six of them, and          *)
(* get_current_instruction asserts that the last one does not exist; without *)
(* assertions it is an entry of seg_regs that stays zero.                   *)
Abort ==
  /\ BackEnd /\ ~IdThrows /\ ~IfThrows(gpr')
  /\ cycle + 1 < MaxDiagram /\ status.asserts
  /\ Tick("abort")
  /\ pc' = pcIF(gpr') /\ flush' = flushID(gpr') /\ nextPc' = nextPcMEM
  /\ UNCHANGED segRegs

(* The segmentation registers advance, the first f of them cleared.         *)
Advance(f) ==
  /\ ifid' = IF f > 0 THEN IfIdBubble ELSE ifidNext(gpr')
  /\ idex' = IF f > 1 THEN IdExBubble ELSE idexNext(gpr')
  /\ exmem' = IF f > 2 THEN ExMemBubble ELSE exmemNext
  /\ memwb' = memwbNext

Complete ==
  /\ BackEnd /\ ~IdThrows /\ ~IfThrows(gpr')
  /\ cycle + 1 < MaxDiagram /\ ~status.asserts
  /\ Tick("none")
  /\ Advance(flushID(gpr'))
  /\ pc' = IF nextPcMEM # 0 THEN nextPcMEM ELSE pcIF(gpr')
  /\ flush' = 0 /\ nextPc' = 0

NextCycle == \/ ThrowWB \/ ThrowMEM \/ ThrowEX \/ ThrowID \/ ThrowIF
             \/ Overflow \/ Abort \/ Complete

-----------------------------------------------------------------------------
(* The other operations: reset, and the setters of the configuration, which *)
(* the menus call at any moment and which touch nothing else.               *)
Reset ==
  /\ Running
  /\ pc' = TextStart
  /\ gpr' = [r \in Reg |-> 0]
  /\ fpr' = [r \in Reg |-> 0]
  /\ hilo' = 0
  /\ mem' = InitialData
  /\ ifid' = IfIdBubble /\ idex' = IdExBubble
  /\ exmem' = ExMemBubble /\ memwb' = MemWbBubble
  /\ flush' = 0 /\ nextPc' = 0
  /\ cycle' = 0 /\ ready' = TRUE /\ thrown' = "none"
  /\ UNCHANGED <<prog, status>>

Configure(key, value) ==
  /\ Running
  /\ status' = [status EXCEPT ![key] = value]
  /\ UNCHANGED <<prog, pc, gpr, fpr, hilo, mem, segRegs, flush, nextPc, cycle,
                 ready, thrown>>

EnableHazardDetectionUnit(enabled) == Configure("hdu", enabled)
EnableForwardingUnit(enabled) == Configure("fu", enabled)
SetBranchStage(stage) == Configure("stage", stage)
SetBranchType(type) == Configure("type", type)

Reconfigure == \/ \E e \in BOOLEAN : EnableHazardDetectionUnit(e)
               \/ \E e \in BOOLEAN : EnableForwardingUnit(e)
               \/ \E s \in BranchStage : SetBranchStage(s)
               \/ \E t \in BranchType : SetBranchType(t)

Next == NextCycle \/ Reset \/ Reconfigure

Spec == Init /\ [][Next]_vars

(* A configuration chosen before the program is started, as the settings    *)
(* window of the GUI does by resetting the CPU after a change; the user may *)
(* ask for another cycle after one that threw.                              *)
FixedSpec == Init /\ [][NextCycle \/ Reset]_vars

(* The drivers that do not go on after an exception (run_batch and the run  *)
(* command leave their loop), for as long as the diagram has room.          *)
Drive == thrown = "none" /\ NextCycle

DriveSpec == Init /\ [][(cycle + 1 < MaxDiagram /\ Drive) \/ Reset]_vars

(* The loop of those drivers: next_cycle until the program is done.         *)
RunSpec == Init /\ [][Drive]_vars /\ WF_vars(Drive)
=============================================================================
