----------------------------- MODULE MultiCycle -----------------------------
(***************************************************************************)
(* CpuMulti: the microprogrammed CPU of cpu/cpu_multi.cpp.                 *)
(*                                                                         *)
(* One call of next_cycle executes one microinstruction, a row of the      *)
(* microcode matrix, on the datapath registers; the last column and the    *)
(* control directory say which row comes next.  Reset leaves the datapath  *)
(* registers as they are.  A cycle that throws (an access outside the      *)
(* data, a fetch outside the text, an operation the ALU does not know, an  *)
(* unknown service, a write to $0) has changed nothing that a retry does   *)
(* not write again, so it is a stuttering step.                            *)
(***************************************************************************)
EXTENDS Instructions

CONSTANTS Programs,     \* programs that may be loaded
          InitialData,  \* the data snapshot, [DataAddr -> Word]
          Inputs,       \* words a service may leave in its result register
          FpDelay       \* status "fp-add-delay": cycles an FP operation stalls

VARIABLES
  prog,           \* text region
  pc, gpr, fpr,   \* SPECIAL_PC and the register banks
  hilo,           \* SPECIAL_HI and SPECIAL_LO
  mem,            \* data region
  ready,          \* FALSE once the program called the exit service
  mi,             \* mi_index, the row to execute
  stall,          \* execution_stall
  ir, a, b, fa, fb, aluOut, mdr  \* instruction, A_REG, B_REG, FA_REG, FB_REG,
                                 \* ALU_OUT_REG, MEM_DATA_REG

datapath == <<ir, a, b, fa, fb, aluOut, mdr>>
vars == <<prog, pc, gpr, fpr, hilo, mem, ready, mi, stall, datapath>>

ASSUME MultiAssumption == /\ Programs \subseteq [TextAddr -> Instr]
                          /\ InitialData \in [DataAddr -> Word]
                          /\ Inputs \subseteq Word
                          /\ FpDelay \in Nat

(* The encodings of nop and syscall have no destination: it reads as $0.    *)
ASSUME EncodingAssumption ==
  \A text \in Programs, p \in TextAddr : text[p].op \in {"nop", "syscall"} => text[p].rd = 0

Init ==
  /\ prog \in Programs
  /\ pc = TextStart
  /\ gpr = [r \in Reg |-> 0] /\ fpr = [r \in Reg |-> 0]
  /\ hilo = 0 /\ mem = InitialData
  /\ ready = TRUE
  /\ mi = 0 /\ stall = 0
  /\ ir = Nop
  /\ a = 0 /\ b = 0 /\ fa = 0 /\ fb = 0 /\ aluOut = 0 /\ mdr = 0

-----------------------------------------------------------------------------
(* The microcode matrix; X, "do not care", becomes 0 in build_microcode.    *)
X == 0

Rows == 0 .. 19

Microcode == <<
  <<1, 0, 0, 1, X, 1, X, 0, X, X, 0, 1, 0, 0, 3>>,   \*  0 fetch
  <<X, X, X, X, X, X, X, 0, X, X, 0, 3, 0, X, 1>>,   \*  1 decode
  <<X, X, X, X, X, X, X, 0, X, X, 1, 2, 0, X, 2>>,   \*  2 address
  <<X, X, 1, 1, X, X, X, 0, X, X, X, X, X, X, 3>>,   \*  3 lw
  <<X, X, X, X, X, X, 1, 0, 0, 1, X, X, X, X, 0>>,   \*  4
  <<X, X, 1, X, 1, X, X, 0, X, X, X, X, X, X, 0>>,   \*  5 sw
  <<X, X, X, X, X, X, X, 0, X, X, 1, 0, 2, X, 4>>,   \*  6 R format
  <<X, X, X, X, X, X, 0, 0, 1, 1, X, X, X, X, 0>>,   \*  7
  <<1, 1, X, X, X, X, X, 0, X, X, 1, 0, 1, 1, 0>>,   \*  8 beq, bne
  <<1, 2, X, X, X, X, X, 0, X, X, X, X, X, X, 0>>,   \*  9 j
  <<X, X, X, X, X, X, X, 0, X, X, 1, 2, 2, X, 3>>,   \* 10 I format
  <<X, X, X, X, X, X, 0, 0, 0, 1, X, X, X, X, 0>>,   \* 11
  <<X, X, 1, 1, X, X, X, 0, X, X, X, X, X, X, 3>>,   \* 12 lwc1
  <<X, X, X, X, X, X, 1, 1, 0, 1, X, X, X, X, 0>>,   \* 13
  <<X, X, 1, X, 1, X, X, 1, X, X, X, X, X, X, 0>>,   \* 14 swc1
  <<1, 2, X, X, X, X, 2, 0, 2, 1, X, X, X, X, 0>>,   \* 15 jal
  <<1, 3, X, X, X, X, X, 0, X, X, X, X, X, X, 0>>,   \* 16 jr
  <<1, 3, X, X, X, X, 2, 0, 2, 1, X, X, X, X, 0>>,   \* 17 jalr
  <<X, X, X, X, X, X, X, 0, X, X, 1, 0, 3, X, 4>>,   \* 18 F format
  <<X, X, X, X, X, X, 0, 0, 1, 0, X, X, X, X, 0>>   \* 19 mult, div
  >>

(* The microinstruction to execute, its columns by name.                    *)
S == LET row == Microcode[mi + 1] IN
  [pcWrite |-> row[1], pcSrc |-> row[2], iOrD |-> row[3], memRead |-> row[4],
   memWrite |-> row[5], irWrite |-> row[6], mem2Reg |-> row[7], regBank |-> row[8],
   regDst |-> row[9], regWrite |-> row[10], selAluA |-> row[11],
   selAluB |-> row[12], aluOp |-> row[13], branch |-> row[14], ctrlDir |-> row[15]]

(* The control directory.                                                   *)
Jump1(op) == CASE op = "jr" -> 16 [] op = "jalr" -> 17
               [] op = "fp" -> 18
               [] op = "j" -> 9   [] op = "jal" -> 15
               [] op \in {"beq", "bne"} -> 8
               [] op \in {"alui", "lui"} -> 10
               [] op \in {"lw", "sw", "lwc1", "swc1"} -> 2
               [] OTHER -> 6
Jump2(op) == CASE op = "lw" -> 3 [] op = "sw" -> 5 [] op = "lwc1" -> 12 [] OTHER -> 14

(* Error variant of Jump4: multiplications end in a row that is not there.   *)
Jump4Next(op) == IF op = "mult" THEN 20 ELSE 7

Jump4(op) == IF op = "mult" THEN 19 ELSE 7

NextRow(op) == CASE S.ctrlDir = 1 -> Jump1(op)
                 [] S.ctrlDir = 2 -> Jump2(op)
                 [] S.ctrlDir = 3 -> mi + 1
                 [] S.ctrlDir = 4 -> Jump4(op)
                 [] OTHER -> 0

-----------------------------------------------------------------------------
(* One microinstruction.                                                    *)
FetchesText == S.memRead = 1 /\ S.iOrD = 0
ReadsData == S.memRead = 1 /\ S.iOrD = 1
WritesData == S.memWrite = 1

AluA == IF S.selAluA = 0 THEN pc ELSE a
AluB == CASE S.selAluB = 0 -> b
          [] S.selAluB = 1 -> 1
          [] OTHER         -> ir.imm

Service == S.aluOp = 2 /\ ir.op = "syscall"

AluResult == CASE Service        -> 0
               [] S.aluOp = 1    -> Minus(AluA, AluB)
               [] S.aluOp = 3    -> Plus(fa, fb)
               [] S.aluOp = 2 /\ ir.op = "lui" -> AluB
               [] S.aluOp = 2 /\ ir.op = "mult" -> WordSize - 1
               [] OTHER          -> Plus(AluA, AluB)

Dest == CASE S.regDst = 0 -> ir.rt
          [] S.regDst = 1 -> ir.rd
          [] OTHER        -> RA
Data == CASE S.mem2Reg = 0 -> aluOut
          [] S.mem2Reg = 1 -> mdr
          [] OTHER         -> pc

WritesFpr == S.regWrite = 1 /\ (S.regBank = 1 \/ ir.op = "fp")
WritesGpr == S.regWrite = 1 /\ ~WritesFpr

Throws == \/ FetchesText /\ pc \notin TextAddr
          \/ ReadsData /\ aluOut \notin DataAddr
          \/ WritesData /\ aluOut \notin DataAddr
          \/ S.aluOp = 2 /\ ir.op = "mfhi"
          \/ Service /\ ~Answered(gpr)
          \/ WritesGpr /\ Dest = 0

(* What a service may leave in the registers.                               *)
Served == IF Service /\ gpr[V0] \in DOMAIN Result
          THEN { [gpr EXCEPT ![Result[gpr[V0]]] = v] : v \in Inputs }
          ELSE { gpr }

WritesPc == /\ S.pcWrite = 1
            /\ \/ S.branch = 0
               \/ ir.op = "bne" /\ AluResult > 0
               \/ ir.op = "beq" /\ AluResult = 0
PcSource == CASE S.pcSrc = 0 -> AluResult
              [] S.pcSrc = 1 -> aluOut
              [] S.pcSrc = 2 -> ir.imm
              [] OTHER       -> a

(* Error variant of StoreValue: looks at one register bank only.             *)
StoreValueInteger == b

StoreValue == IF S.regBank = 1 THEN fb ELSE b

(* The operands are read again in every cycle.  MDR also holds instructions *)
(* after a fetch, which nothing reads and which are 0 here.                 *)
Latch(g, f) == /\ a' = g[ir'.rs] /\ b' = g[ir'.rt]
               /\ fa' = f[ir'.rs] /\ fb' = f[ir'.rt]

Microinstruction ==
  /\ ready /\ stall = 0 /\ ~Throws
  /\ ir' = IF S.irWrite = 1 THEN prog[pc] ELSE ir
  /\ mdr' = IF ReadsData THEN mem[aluOut] ELSE 0
  /\ mem' = IF WritesData
            THEN [mem EXCEPT ![aluOut] = StoreValue] ELSE mem
  /\ ready' = ~(Service /\ gpr[V0] \in Exit)
  /\ hilo' = IF S.aluOp = 2 /\ ir.op = "mult" THEN Times(AluA, AluB) ELSE hilo
  /\ \E g \in Served :
       gpr' = IF WritesGpr THEN [g EXCEPT ![Dest] = Data] ELSE g
  /\ fpr' = IF WritesFpr THEN [fpr EXCEPT ![Dest] = Data] ELSE fpr
  /\ pc' = IF WritesPc THEN PcSource ELSE pc
  /\ Latch(gpr', fpr')
  /\ aluOut' = AluResult
  /\ stall' = IF S.aluOp = 3 THEN FpDelay ELSE 0
  /\ mi' = NextRow(ir'.op)
  /\ UNCHANGED prog

(* Error variant of Stall: execution_stall is not counted down.              *)
StallForGood == ready /\ stall > 0 /\ UNCHANGED vars

Stall == /\ ready /\ stall > 0
         /\ stall' = stall - 1
         /\ UNCHANGED <<prog, pc, gpr, fpr, hilo, mem, ready, mi, datapath>>

NextCycle == Stall \/ Microinstruction

Reset == /\ pc' = TextStart
         /\ gpr' = [r \in Reg |-> 0] /\ fpr' = [r \in Reg |-> 0]
         /\ hilo' = 0 /\ mem' = InitialData
         /\ ready' = TRUE
         /\ mi' = 0 /\ stall' = 0
         /\ UNCHANGED <<prog, datapath>>

Next == NextCycle \/ Reset

Spec == Init /\ [][Next]_vars

(* The loops of the drivers, which ask for cycles while the program runs.   *)
DriveSpec == Spec /\ WF_vars(NextCycle)

-----------------------------------------------------------------------------
(* Every variable holds a value of its type; the row to execute exists.     *)
MultiTypeOK ==
  /\ prog \in [TextAddr -> Instr]
  /\ pc \in Word
  /\ gpr \in [Reg -> Word] /\ fpr \in [Reg -> Word]
  /\ hilo \in Word
  /\ mem \in [DataAddr -> Word]
  /\ ready \in BOOLEAN
  /\ mi \in Rows
  /\ stall \in 0 .. FpDelay
  /\ ir \in Instr
  /\ {a, b, fa, fb, aluOut, mdr} \subseteq Word

(* The sequential machine inside the CPU.  The PC moves on in the fetch and *)
(* everything else an instruction does in its last cycle, except that a     *)
(* service call has taken effect a cycle before it ends.                    *)
CurrentPc == IF mi = 0 \/ (mi = 7 /\ ir.op = "syscall") THEN pc ELSE pc - 1

Executing == InstructionAt(prog, NextNonzero(prog, CurrentPc))

Sequential == INSTANCE Isa WITH
  delayed <- FALSE,
  current <- Executing,
  next <- NextNonzero(prog, CurrentPc) + 1,
  HasFp <- TRUE

(* The microcode implements the instruction set: every instruction goes     *)
(* through rows that do, together and in time, what the instruction means,  *)
(* whatever an earlier instruction, or a reset, left in the datapath.       *)
MicrocodeImplementsIsa == Sequential!Spec

(* An instruction that does not throw comes to its end: no path through the *)
(* microcode and its stalls goes round.                                     *)
InstructionsEnd == mi # 0 ~> (mi = 0 \/ Throws \/ ~ready)
=============================================================================
