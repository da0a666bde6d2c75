-------------------------- MODULE MultiCycleProofs --------------------------
(***************************************************************************)
(* Proofs about CpuMulti for every program, word size, register file and   *)
(* length of the stalls: its types, and that the microcode implements the  *)
(* sequential machine.                                                     *)
(***************************************************************************)
EXTENDS MultiCycle, TLAPS

-----------------------------------------------------------------------------
(* The microcode, column by column.                                         *)
SignalTable ==
  /\ S.pcWrite = IF mi \in {0, 8, 9, 15, 16, 17} THEN 1 ELSE 0
  /\ S.pcSrc = CASE mi = 8 -> 1 [] mi \in {9, 15} -> 2 [] mi \in {16, 17} -> 3 [] OTHER -> 0
  /\ S.iOrD = IF mi \in {3, 5, 12, 14} THEN 1 ELSE 0
  /\ S.memRead = IF mi \in {0, 3, 12} THEN 1 ELSE 0
  /\ S.memWrite = IF mi \in {5, 14} THEN 1 ELSE 0
  /\ S.irWrite = IF mi = 0 THEN 1 ELSE 0
  /\ S.mem2Reg = CASE mi \in {4, 13} -> 1 [] mi \in {15, 17} -> 2 [] OTHER -> 0
  /\ S.regBank = IF mi \in {13, 14} THEN 1 ELSE 0
  /\ S.regDst = CASE mi \in {7, 19} -> 1 [] mi \in {15, 17} -> 2 [] OTHER -> 0
  /\ S.regWrite = IF mi \in {4, 7, 11, 13, 15, 17} THEN 1 ELSE 0
  /\ S.selAluA = IF mi \in {2, 6, 8, 10, 18} THEN 1 ELSE 0
  /\ S.selAluB = CASE mi = 0 -> 1 [] mi \in {2, 10} -> 2 [] mi = 1 -> 3 [] OTHER -> 0
  /\ S.aluOp = CASE mi = 8 -> 1 [] mi \in {6, 10} -> 2 [] mi = 18 -> 3 [] OTHER -> 0
  /\ S.branch = IF mi = 8 THEN 1 ELSE 0
  /\ S.ctrlDir = CASE mi = 1 -> 1 [] mi = 2 -> 2 [] mi \in {0, 3, 10, 12} -> 3
                   [] mi \in {6, 18} -> 4 [] OTHER -> 0

(* The matrix says what the table says.                                     *)
LEMMA Signals == ASSUME mi \in Rows PROVE SignalTable
<1>1. CASE mi = 0
  <2>1. Microcode[1] = <<1, 0, 0, 1, 0, 1, 0, 0, 0, 0, 0, 1, 0, 0, 3>>
    BY DEF Microcode, X
  <2> QED BY <1>1, <2>1 DEF S, SignalTable
<1>2. CASE mi = 1
  <2>1. Microcode[2] = <<0, 0, 0, 0, 0, 0, 0, 0, 0, 0, 0, 3, 0, 0, 1>>
    BY DEF Microcode, X
  <2> QED BY <1>2, <2>1 DEF S, SignalTable
<1>3. CASE mi = 2
  <2>1. Microcode[3] = <<0, 0, 0, 0, 0, 0, 0, 0, 0, 0, 1, 2, 0, 0, 2>>
    BY DEF Microcode, X
  <2> QED BY <1>3, <2>1 DEF S, SignalTable
<1>4. CASE mi = 3
  <2>1. Microcode[4] = <<0, 0, 1, 1, 0, 0, 0, 0, 0, 0, 0, 0, 0, 0, 3>>
    BY DEF Microcode, X
  <2> QED BY <1>4, <2>1 DEF S, SignalTable
<1>5. CASE mi = 4
  <2>1. Microcode[5] = <<0, 0, 0, 0, 0, 0, 1, 0, 0, 1, 0, 0, 0, 0, 0>>
    BY DEF Microcode, X
  <2> QED BY <1>5, <2>1 DEF S, SignalTable
<1>6. CASE mi = 5
  <2>1. Microcode[6] = <<0, 0, 1, 0, 1, 0, 0, 0, 0, 0, 0, 0, 0, 0, 0>>
    BY DEF Microcode, X
  <2> QED BY <1>6, <2>1 DEF S, SignalTable
<1>7. CASE mi = 6
  <2>1. Microcode[7] = <<0, 0, 0, 0, 0, 0, 0, 0, 0, 0, 1, 0, 2, 0, 4>>
    BY DEF Microcode, X
  <2> QED BY <1>7, <2>1 DEF S, SignalTable
<1>8. CASE mi = 7
  <2>1. Microcode[8] = <<0, 0, 0, 0, 0, 0, 0, 0, 1, 1, 0, 0, 0, 0, 0>>
    BY DEF Microcode, X
  <2> QED BY <1>8, <2>1 DEF S, SignalTable
<1>9. CASE mi = 8
  <2>1. Microcode[9] = <<1, 1, 0, 0, 0, 0, 0, 0, 0, 0, 1, 0, 1, 1, 0>>
    BY DEF Microcode, X
  <2> QED BY <1>9, <2>1 DEF S, SignalTable
<1>10. CASE mi = 9
  <2>1. Microcode[10] = <<1, 2, 0, 0, 0, 0, 0, 0, 0, 0, 0, 0, 0, 0, 0>>
    BY DEF Microcode, X
  <2> QED BY <1>10, <2>1 DEF S, SignalTable
<1>11. CASE mi = 10
  <2>1. Microcode[11] = <<0, 0, 0, 0, 0, 0, 0, 0, 0, 0, 1, 2, 2, 0, 3>>
    BY DEF Microcode, X
  <2> QED BY <1>11, <2>1 DEF S, SignalTable
<1>12. CASE mi = 11
  <2>1. Microcode[12] = <<0, 0, 0, 0, 0, 0, 0, 0, 0, 1, 0, 0, 0, 0, 0>>
    BY DEF Microcode, X
  <2> QED BY <1>12, <2>1 DEF S, SignalTable
<1>13. CASE mi = 12
  <2>1. Microcode[13] = <<0, 0, 1, 1, 0, 0, 0, 0, 0, 0, 0, 0, 0, 0, 3>>
    BY DEF Microcode, X
  <2> QED BY <1>13, <2>1 DEF S, SignalTable
<1>14. CASE mi = 13
  <2>1. Microcode[14] = <<0, 0, 0, 0, 0, 0, 1, 1, 0, 1, 0, 0, 0, 0, 0>>
    BY DEF Microcode, X
  <2> QED BY <1>14, <2>1 DEF S, SignalTable
<1>15. CASE mi = 14
  <2>1. Microcode[15] = <<0, 0, 1, 0, 1, 0, 0, 1, 0, 0, 0, 0, 0, 0, 0>>
    BY DEF Microcode, X
  <2> QED BY <1>15, <2>1 DEF S, SignalTable
<1>16. CASE mi = 15
  <2>1. Microcode[16] = <<1, 2, 0, 0, 0, 0, 2, 0, 2, 1, 0, 0, 0, 0, 0>>
    BY DEF Microcode, X
  <2> QED BY <1>16, <2>1 DEF S, SignalTable
<1>17. CASE mi = 16
  <2>1. Microcode[17] = <<1, 3, 0, 0, 0, 0, 0, 0, 0, 0, 0, 0, 0, 0, 0>>
    BY DEF Microcode, X
  <2> QED BY <1>17, <2>1 DEF S, SignalTable
<1>18. CASE mi = 17
  <2>1. Microcode[18] = <<1, 3, 0, 0, 0, 0, 2, 0, 2, 1, 0, 0, 0, 0, 0>>
    BY DEF Microcode, X
  <2> QED BY <1>18, <2>1 DEF S, SignalTable
<1>19. CASE mi = 18
  <2>1. Microcode[19] = <<0, 0, 0, 0, 0, 0, 0, 0, 0, 0, 1, 0, 3, 0, 4>>
    BY DEF Microcode, X
  <2> QED BY <1>19, <2>1 DEF S, SignalTable
<1>20. CASE mi = 19
  <2>1. Microcode[20] = <<0, 0, 0, 0, 0, 0, 0, 0, 1, 0, 0, 0, 0, 0, 0>>
    BY DEF Microcode, X
  <2> QED BY <1>20, <2>1 DEF S, SignalTable
<1> QED
  BY <1>1, <1>2, <1>3, <1>4, <1>5, <1>6, <1>7, <1>8, <1>9, <1>10, <1>11,
     <1>12, <1>13, <1>14, <1>15, <1>16, <1>17, <1>18, <1>19, <1>20 DEF Rows

-----------------------------------------------------------------------------
(* Words.                                                                   *)
(* Whatever is reduced modulo WordSize is a word.                           *)
LEMMA Modulus == \A x \in Int : x % WordSize \in Word
  BY WordSizeAssumption DEF WordSizeAssumption, Word

(* Arithmetic on words stays within them.                                   *)
LEMMA WordArithmetic ==
  \A x, y \in Word : /\ Plus(x, y) \in Word /\ Minus(x, y) \in Word /\ Times(x, y) \in Word
<1>1. ASSUME NEW x \in Word, NEW y \in Word
      PROVE  x + y \in Int /\ x - y \in Int /\ x * y \in Int
  BY WordSizeAssumption DEF WordSizeAssumption, Word
<1> QED BY <1>1, Modulus DEF Plus, Minus, Times

(* The address behind one of the text is a word: the PC does not wrap.      *)
LEMMA SmallWords ==
  /\ 0 \in Word /\ 1 \in Word /\ WordSize - 1 \in Word /\ TextStart \in Word
  /\ \A p \in TextAddr : p \in Int /\ p \in Word /\ p + 1 \in Word /\ Plus(p, 1) = p + 1
  BY TextAssumption, WordSizeAssumption
  DEF TextAssumption, WordSizeAssumption, TextAddr, Word, Plus

(* Unequal words have a difference that is not 0, also modulo WordSize.     *)
LEMMA Difference ==
  ASSUME NEW x \in Word, NEW y \in Word
  PROVE  Minus(x, y) = 0 <=> x = y
<1>1. WordSize \in Nat /\ WordSize > 0 /\ x \in Int /\ y \in Int
      /\ 0 <= x /\ x < WordSize /\ 0 <= y /\ y < WordSize
  BY WordSizeAssumption DEF WordSizeAssumption, Word
<1>2. CASE x >= y
  <2>1. x - y \in 0 .. WordSize - 1
    BY <1>1, <1>2
  <2>2. (x - y) % WordSize = x - y
    BY <1>1, <2>1
  <2> QED BY <1>1, <2>2 DEF Minus
<1>3. CASE x < y
  <2>1. x - y + WordSize \in 1 .. WordSize - 1
    BY <1>1, <1>3
  <2>2. (x - y) % WordSize = x - y + WordSize
    BY <1>1, <2>1
  <2> QED BY <1>1, <1>3, <2>1, <2>2 DEF Minus
<1> QED BY <1>1, <1>2, <1>3

(* The initial content of the instruction register is an instruction.       *)
LEMMA NopType == Nop \in Instr
  BY RegAssumption, SmallWords DEF RegAssumption, Nop, Instr, Op

-----------------------------------------------------------------------------
(* Types.                                                                   *)
(* What the datapath computes from state of the right types.                *)
LEMMA ValueTypes ==
  ASSUME MultiTypeOK
  PROVE  /\ AluResult \in Word /\ Times(AluA, AluB) \in Word /\ Dest \in Reg /\ Data \in Word
         /\ PcSource \in Word /\ StoreValue \in Word
         /\ Served \subseteq [Reg -> Word]
<1>1. /\ pc \in Word /\ a \in Word /\ b \in Word /\ fa \in Word /\ fb \in Word
      /\ aluOut \in Word /\ mdr \in Word /\ ir.imm \in Word
      /\ ir.rt \in Reg /\ ir.rd \in Reg
  BY DEF MultiTypeOK, Instr
<1>2. AluA \in Word /\ AluB \in Word
  BY <1>1, SmallWords DEF AluA, AluB
<1>3. Minus(AluA, AluB) \in Word /\ Plus(AluA, AluB) \in Word /\ Plus(fa, fb) \in Word
      /\ Times(AluA, AluB) \in Word
  BY <1>1, <1>2, WordArithmetic
<1>4. AluResult \in Word
  BY <1>2, <1>3, SmallWords DEF AluResult
<1>5. Dest \in Reg
  BY <1>1, RegAssumption DEF Dest, RegAssumption
<1>6. Data \in Word /\ PcSource \in Word /\ StoreValue \in Word
  BY <1>1, <1>4 DEF Data, PcSource, StoreValue
<1>7. Served \subseteq [Reg -> Word]
  BY MultiAssumption DEF MultiAssumption, Served, MultiTypeOK
<1> QED BY <1>3, <1>4, <1>5, <1>6, <1>7

(* The control directory names rows that exist, and no row that goes on to  *)
(* the next is the last.                                                    *)
LEMMA NextRowType ==
  ASSUME MultiTypeOK, NEW op \in Op
  PROVE  NextRow(op) \in Rows
<1>1. mi \in Rows /\ SignalTable
  BY Signals DEF MultiTypeOK
<1>2. Jump1(op) \in Rows /\ Jump2(op) \in Rows /\ Jump4(op) \in Rows
  BY DEF Jump1, Jump2, Jump4, Rows
<1>3. S.ctrlDir = 3 => mi + 1 \in Rows
  BY <1>1 DEF SignalTable, Rows
<1> QED BY <1>2, <1>3 DEF NextRow, Rows

(* The constructor.                                                         *)
LEMMA InitTypes == Init => MultiTypeOK
  BY SmallWords, NopType, MultiAssumption DEF MultiAssumption, Init, MultiTypeOK, Rows

(* What a row writes has the type of where it goes.  A fetch that does not  *)
(* throw is from the text, a load from the data.                            *)
LEMMA MicroinstructionTypes ==
  ASSUME MultiTypeOK, Microinstruction
  PROVE  MultiTypeOK'
<1>1. mi \in Rows /\ SignalTable
  BY Signals DEF MultiTypeOK
<1>2. ir' \in Instr
  <2>1. S.irWrite = 1 => pc \in TextAddr
    BY <1>1 DEF Microinstruction, SignalTable, Throws, FetchesText
  <2> QED BY <2>1 DEF Microinstruction, MultiTypeOK
<1>3. mdr' \in Word /\ mem' \in [DataAddr -> Word]
  BY ValueTypes, SmallWords DEF Microinstruction, Throws, MultiTypeOK
<1>4. gpr' \in [Reg -> Word] /\ fpr' \in [Reg -> Word]
  BY ValueTypes DEF Microinstruction, MultiTypeOK
<1>5. {a, b, fa, fb, aluOut, mdr}' \subseteq Word
  BY <1>2, <1>3, <1>4, ValueTypes DEF Microinstruction, Latch, Instr
<1>6. pc' \in Word /\ hilo' \in Word /\ ready' \in BOOLEAN
  BY ValueTypes DEF Microinstruction, MultiTypeOK
<1>7. stall' \in 0 .. FpDelay
  BY MultiAssumption DEF MultiAssumption, Microinstruction
<1>8. mi' \in Rows
  BY <1>2, NextRowType DEF Microinstruction, Instr
<1>9. prog' \in [TextAddr -> Instr]
  BY DEF Microinstruction, MultiTypeOK
<1> QED BY <1>2, <1>3, <1>4, <1>5, <1>6, <1>7, <1>8, <1>9 DEF MultiTypeOK

(* Cycles that count a stall down, resets and stuttering.                   *)
LEMMA OtherTypes ==
  ASSUME MultiTypeOK, Stall \/ Reset \/ UNCHANGED vars
  PROVE  MultiTypeOK'
<1>1. CASE Stall
  BY <1>1, MultiAssumption DEF MultiAssumption, Stall, MultiTypeOK, datapath
<1>2. CASE Reset
  BY <1>2, SmallWords, MultiAssumption DEF MultiAssumption, Reset, MultiTypeOK, datapath, Rows
<1>3. CASE UNCHANGED vars
  BY <1>3 DEF vars, MultiTypeOK, datapath
<1> QED BY <1>1, <1>2, <1>3

(* Every variable keeps its type and the row to execute exists, for every   *)
(* program and length of the stalls, whatever an instruction finds.         *)
THEOREM MultiTypeCorrect == Spec => []MultiTypeOK
<1>1. MultiTypeOK /\ [Next]_vars => MultiTypeOK'
  BY MicroinstructionTypes, OtherTypes DEF Next, NextCycle
<1> QED BY InitTypes, <1>1, PTL DEF Spec

-----------------------------------------------------------------------------
(* The microcode implements the sequential machine.                         *)

(* The instruction in progress is the one in front of the PC, and its       *)
(* operands are the ones the registers hold.                                *)
Fetched ==
  mi # 0 => /\ pc - 1 \in TextAddr /\ ir = prog[pc - 1]
            /\ a = gpr[ir.rs] /\ b = gpr[ir.rt]
            /\ fa = fpr[ir.rs] /\ fb = fpr[ir.rt]

(* Each row belongs to some instructions.                                   *)
RightRow ==
  /\ mi = 2 => ir.op \in {"lw", "sw", "lwc1", "swc1"}
  /\ mi \in {3, 4} => ir.op = "lw"
  /\ mi = 5 => ir.op = "sw"
  /\ mi = 6 => ir.op \in {"nop", "alu", "mult", "mfhi", "syscall"}
  /\ mi = 7 => ir.op \in {"nop", "alu", "syscall", "fp"}
  /\ mi = 8 => ir.op \in {"beq", "bne"}
  /\ mi = 9 => ir.op = "j"
  /\ mi \in {10, 11} => ir.op \in {"alui", "lui"}
  /\ mi \in {12, 13} => ir.op = "lwc1"
  /\ mi = 14 => ir.op = "swc1"
  /\ mi = 15 => ir.op = "jal"
  /\ mi = 16 => ir.op = "jr"
  /\ mi = 17 => ir.op = "jalr"
  /\ mi = 18 => ir.op = "fp"
  /\ mi = 19 => ir.op = "mult"

(* What the rows before have left for the one to execute.                   *)
EffectiveAddress == Plus(gpr[ir.rs], ir.imm)

Computed ==
  /\ mi \in {3, 5, 12, 14} => aluOut = EffectiveAddress
  /\ mi \in {4, 13} => EffectiveAddress \in DataAddr /\ mdr = mem[EffectiveAddress]
  /\ mi = 7 /\ ir.op = "alu" => aluOut = Plus(gpr[ir.rs], gpr[ir.rt])
  /\ mi = 7 /\ ir.op = "fp" => aluOut = Plus(fpr[ir.rs], fpr[ir.rt])
  /\ mi = 8 => aluOut = Plus(pc, ir.imm)
  /\ mi = 11 => aluOut = AluOutput(ir, gpr[ir.rs], gpr[ir.rt])

MicrocodeInv == MultiTypeOK /\ prog \in Programs /\ Fetched /\ RightRow /\ Computed

(* What a row leaves alone, and where the microcode goes next.              *)
LEMMA LeftAlone ==
  ASSUME MicrocodeInv, Microinstruction
  PROVE  /\ mi \in Rows /\ SignalTable /\ prog' = prog /\ mi' = NextRow(ir'.op)
         /\ mi # 0 => ir' = ir
         /\ mi \notin {0, 8, 9, 15, 16, 17} => pc' = pc
         /\ mi \notin {5, 14} => mem' = mem
         /\ mi \notin {4, 6, 7, 11, 15, 17} => gpr' = gpr
         /\ mi = 6 /\ ir.op # "syscall" => gpr' = gpr
         /\ mi = 7 /\ ir.op = "fp" => gpr' = gpr
         /\ mi \notin {7, 13} => fpr' = fpr
         /\ mi = 7 /\ ir.op # "fp" => fpr' = fpr
         /\ ~(mi = 6 /\ ir.op = "syscall") => ready' = ready
<1>1. mi \in Rows /\ SignalTable
  BY Signals DEF MicrocodeInv, MultiTypeOK
<1>2. ~(mi = 6 /\ ir.op = "syscall") => ~Service
  BY <1>1 DEF Service, SignalTable, MicrocodeInv, RightRow
<1>3. mi \notin {4, 7, 11, 13, 15, 17} => ~WritesGpr /\ ~WritesFpr
  BY <1>1 DEF SignalTable, WritesGpr, WritesFpr
<1>4. /\ mi = 13 => ~WritesGpr
      /\ mi \in {4, 11, 15, 17} => ~WritesFpr
      /\ mi = 7 /\ ir.op = "fp" => ~WritesGpr
      /\ mi = 7 /\ ir.op # "fp" => ~WritesFpr
  BY <1>1 DEF SignalTable, WritesGpr, WritesFpr, MicrocodeInv, RightRow
<1>5. mi \notin {0, 8, 9, 15, 16, 17} => ~WritesPc
  BY <1>1 DEF SignalTable, WritesPc
<1>6. mi \notin {5, 14} => ~WritesData
  BY <1>1 DEF SignalTable, WritesData
<1>7. mi # 0 => S.irWrite # 1
  BY <1>1 DEF SignalTable
<1>8. ~Service => gpr' = (IF WritesGpr THEN [gpr EXCEPT ![Dest] = Data] ELSE gpr) /\ ready' = ready
  BY DEF Microinstruction, Served
<1>9. /\ prog' = prog /\ mi' = NextRow(ir'.op)
      /\ mi # 0 => ir' = ir
      /\ mi \notin {0, 8, 9, 15, 16, 17} => pc' = pc
      /\ mi \notin {5, 14} => mem' = mem
      /\ ~WritesFpr => fpr' = fpr
  BY <1>5, <1>6, <1>7 DEF Microinstruction
<1>10. /\ mi \notin {7, 13} => fpr' = fpr
       /\ mi = 7 /\ ir.op # "fp" => fpr' = fpr
  BY <1>3, <1>4, <1>9
<1>11. /\ mi \notin {4, 6, 7, 11, 15, 17} => gpr' = gpr
       /\ mi = 6 /\ ir.op # "syscall" => gpr' = gpr
       /\ mi = 7 /\ ir.op = "fp" => gpr' = gpr
  BY <1>2, <1>3, <1>4, <1>8
<1>12. ~(mi = 6 /\ ir.op = "syscall") => ready' = ready
  BY <1>2, <1>8
<1> QED BY <1>1, <1>9, <1>10, <1>11, <1>12

(* Nothing is in progress at first.                                         *)
LEMMA InitInv == Init => MicrocodeInv
  BY InitTypes DEF Init, MicrocodeInv, Fetched, RightRow, Computed

(* Only the fetch changes the instruction in progress, and the PC changes   *)
(* again only with its last row; each cycle latches the operands anew.      *)
LEMMA FetchedStep ==
  ASSUME MicrocodeInv, Microinstruction
  PROVE  Fetched'
<1>1. Latch(gpr', fpr')
  BY DEF Microinstruction
<1>2. CASE mi = 0
  <2>1. FetchesText /\ WritesPc /\ S.pcSrc = 0 /\ AluResult = Plus(pc, 1) /\ S.irWrite = 1
    BY <1>2, LeftAlone DEF SignalTable, FetchesText, WritesPc, AluResult, AluA, AluB, Service
  <2>2. pc \in TextAddr /\ pc' = Plus(pc, 1) /\ ir' = prog[pc]
    BY <2>1 DEF Microinstruction, Throws, PcSource
  <2>3. pc' = pc + 1 /\ pc' - 1 = pc
    BY <2>2, SmallWords
  <2> QED BY <1>1, <2>2, <2>3, LeftAlone DEF Fetched, Latch
<1>3. CASE mi # 0 /\ mi' # 0
  <2>1. mi \notin {8, 9, 15, 16, 17}
    BY <1>3, LeftAlone DEF SignalTable, NextRow
  <2> QED BY <1>1, <1>3, <2>1, LeftAlone DEF Fetched, Latch, MicrocodeInv
<1> QED BY <1>2, <1>3 DEF Fetched

(* The directory sends each instruction to its own rows.                    *)
LEMMA RightRowStep ==
  ASSUME MicrocodeInv, Microinstruction
  PROVE  RightRow'
<1>1. ir'.op \in Op
  BY MicroinstructionTypes DEF MicrocodeInv, MultiTypeOK, Instr
<1>2. CASE mi = 1
  <2>1. mi' = Jump1(ir'.op)
    BY <1>2, LeftAlone DEF SignalTable, NextRow
  <2> QED BY <1>1, <2>1 DEF Jump1, RightRow, Op
<1>3. CASE mi = 2
  <2>1. mi' = Jump2(ir.op) /\ ir' = ir /\ ir.op \in {"lw", "sw", "lwc1", "swc1"}
    BY <1>3, LeftAlone DEF SignalTable, NextRow, MicrocodeInv, RightRow
  <2> QED BY <2>1 DEF Jump2, RightRow
<1>4. CASE mi \in {6, 18}
  <2>1. mi' = Jump4(ir.op) /\ ir' = ir
    BY <1>4, LeftAlone DEF SignalTable, NextRow
  <2>2. ir.op \in {"nop", "alu", "mult", "syscall", "fp"}
    BY <1>4, LeftAlone DEF MicrocodeInv, RightRow, Microinstruction, Throws, SignalTable
  <2> QED BY <2>1, <2>2 DEF Jump4, RightRow
<1>5. CASE mi \in {0, 3, 10, 12}
  <2>1. mi' = mi + 1 /\ (mi # 0 => ir' = ir)
    BY <1>5, LeftAlone DEF SignalTable, NextRow
  <2> QED BY <1>5, <2>1 DEF MicrocodeInv, RightRow
<1>6. CASE mi \notin {0, 1, 2, 3, 6, 10, 12, 18}
  <2>1. mi' = 0
    BY <1>6, LeftAlone DEF SignalTable, NextRow
  <2> QED BY <2>1 DEF RightRow
<1> QED BY <1>2, <1>3, <1>4, <1>5, <1>6

(* What the rows that compute compute.                                      *)
LEMMA AluResults ==
  ASSUME MicrocodeInv, mi \in Rows, SignalTable
  PROVE  /\ mi = 1 => AluResult = Plus(pc, ir.imm)
         /\ mi = 2 => AluResult = EffectiveAddress
         /\ mi = 6 /\ ir.op = "alu" => AluResult = Plus(gpr[ir.rs], gpr[ir.rt])
         /\ mi = 8 => AluResult = Minus(gpr[ir.rs], gpr[ir.rt])
         /\ mi = 10 => AluResult = AluOutput(ir, gpr[ir.rs], gpr[ir.rt])
         /\ mi = 18 => AluResult = Plus(fpr[ir.rs], fpr[ir.rt])
<1>1. mi # 0 => /\ a = gpr[ir.rs] /\ b = gpr[ir.rt]
                /\ fa = fpr[ir.rs] /\ fb = fpr[ir.rt]
  BY DEF MicrocodeInv, Fetched
<1>2. CASE mi = 1
  BY <1>2 DEF SignalTable, AluResult, AluA, AluB, Service
<1>3. CASE mi = 2
  BY <1>1, <1>3 DEF SignalTable, AluResult, AluA, AluB, Service, EffectiveAddress
<1>4. CASE mi = 6 /\ ir.op = "alu"
  BY <1>1, <1>4 DEF SignalTable, AluResult, AluA, AluB, Service
<1>5. CASE mi = 8
  BY <1>1, <1>5 DEF SignalTable, AluResult, AluA, AluB, Service
<1>6. CASE mi = 10
  <2>1. ir.op \in {"alui", "lui"}
    BY <1>6 DEF MicrocodeInv, RightRow
  <2>2. AluA = gpr[ir.rs] /\ AluB = ir.imm /\ S.aluOp = 2 /\ ~Service
    BY <1>1, <1>6, <2>1 DEF SignalTable, AluA, AluB, Service
  <2>3. AluResult = IF ir.op = "lui" THEN ir.imm ELSE Plus(gpr[ir.rs], ir.imm)
    BY <2>1, <2>2 DEF AluResult
  <2>4. AluOutput(ir, gpr[ir.rs], gpr[ir.rt])
          = IF ir.op = "lui" THEN ir.imm ELSE Plus(gpr[ir.rs], ir.imm)
    BY <2>1 DEF AluOutput, Conditional, AluSrc
  <2> QED BY <1>6, <2>3, <2>4
<1>7. CASE mi = 18
  BY <1>1, <1>7 DEF SignalTable, AluResult, Service
<1> QED BY <1>2, <1>3, <1>4, <1>5, <1>6, <1>7

(* A row leaves in ALU_OUT or MDR what the next one relies on.              *)
LEMMA ComputedStep ==
  ASSUME MicrocodeInv, Microinstruction
  PROVE  Computed'
<1>1. /\ mi \in Rows /\ SignalTable /\ aluOut' = AluResult
      /\ mi' = NextRow(ir'.op) /\ (mi # 0 => ir' = ir)
      /\ ir'.op \in Op
  BY LeftAlone, MicroinstructionTypes DEF Microinstruction, MicrocodeInv, MultiTypeOK, Instr
<1>2. CASE mi = 0
  BY <1>1, <1>2 DEF SignalTable, NextRow, Computed
<1>3. CASE mi = 1
  <2>1. mi' \notin {3, 4, 5, 7, 11, 12, 13, 14}
    BY <1>1, <1>3 DEF SignalTable, NextRow, Jump1
  <2>2. pc' = pc /\ aluOut' = Plus(pc, ir.imm) /\ ir' = ir
    BY <1>1, <1>3, AluResults, LeftAlone
  <2> QED BY <2>1, <2>2 DEF Computed
<1>4. CASE mi = 2
  <2>1. mi' \in {3, 5, 12, 14}
    BY <1>1, <1>4 DEF SignalTable, NextRow, Jump2
  <2>2. aluOut' = EffectiveAddress /\ gpr' = gpr /\ ir' = ir
    BY <1>1, <1>4, AluResults, LeftAlone
  <2> QED BY <2>1, <2>2 DEF Computed, EffectiveAddress
<1>5. CASE mi \in {3, 12}
  <2>1. mi' \in {4, 13}
    BY <1>1, <1>5 DEF SignalTable, NextRow
  <2>2. ReadsData /\ aluOut = EffectiveAddress
    BY <1>1, <1>5 DEF SignalTable, ReadsData, MicrocodeInv, Computed
  <2>3. EffectiveAddress \in DataAddr /\ mdr' = mem[EffectiveAddress]
    BY <2>2 DEF Microinstruction, Throws
  <2>4. gpr' = gpr /\ ir' = ir /\ mem' = mem
    BY <1>1, <1>5, LeftAlone
  <2> QED BY <2>1, <2>3, <2>4 DEF Computed, EffectiveAddress
<1>6. CASE mi = 6
  <2>1. mi' \in {7, 19} /\ ir' = ir /\ ir.op # "fp"
    BY <1>1, <1>6 DEF SignalTable, NextRow, Jump4, MicrocodeInv, RightRow
  <2>2. ir.op = "alu" => gpr' = gpr /\ aluOut' = Plus(gpr[ir.rs], gpr[ir.rt])
    BY <1>1, <1>6, AluResults, LeftAlone
  <2> QED BY <2>1, <2>2 DEF Computed
<1>7. CASE mi = 10
  <2>1. mi' = 11 /\ ir' = ir
    BY <1>1, <1>7 DEF SignalTable, NextRow
  <2>2. gpr' = gpr /\ aluOut' = AluOutput(ir, gpr[ir.rs], gpr[ir.rt])
    BY <1>1, <1>7, AluResults, LeftAlone
  <2> QED BY <2>1, <2>2 DEF Computed
<1>8. CASE mi = 18
  <2>1. mi' \in {7, 19} /\ ir' = ir /\ ir.op = "fp"
    BY <1>1, <1>8 DEF SignalTable, NextRow, Jump4, MicrocodeInv, RightRow
  <2>2. fpr' = fpr /\ aluOut' = Plus(fpr[ir.rs], fpr[ir.rt])
    BY <1>1, <1>8, AluResults, LeftAlone
  <2> QED BY <2>1, <2>2 DEF Computed
<1>9. CASE mi \notin {0, 1, 2, 3, 6, 10, 12, 18}
  BY <1>1, <1>9 DEF SignalTable, NextRow, Computed
<1> QED BY <1>2, <1>3, <1>4, <1>5, <1>6, <1>7, <1>8, <1>9

(* The invariant is inductive.                                              *)
LEMMA StepInv == MicrocodeInv /\ [Next]_vars => MicrocodeInv'
<1>1. ASSUME MicrocodeInv, Microinstruction PROVE MicrocodeInv'
  BY <1>1, MicroinstructionTypes, LeftAlone, FetchedStep, RightRowStep, ComputedStep
  DEF MicrocodeInv
<1>2. ASSUME MicrocodeInv, Stall \/ UNCHANGED vars PROVE MicrocodeInv'
  <2>1. UNCHANGED <<prog, pc, gpr, fpr, mem, mi, ir, a, b, fa, fb, aluOut, mdr>>
    BY <1>2 DEF Stall, vars, datapath
  <2>2. MultiTypeOK'
    BY <1>2, OtherTypes DEF MicrocodeInv
  <2> QED BY <1>2, <2>1, <2>2
          DEF MicrocodeInv, Fetched, RightRow, Computed, EffectiveAddress
<1>3. ASSUME MicrocodeInv, Reset PROVE MicrocodeInv'
  BY <1>3, OtherTypes DEF Reset, MicrocodeInv, Fetched, RightRow, Computed
<1> QED BY <1>1, <1>2, <1>3 DEF Next, NextCycle

-----------------------------------------------------------------------------
(* The step of the sequential machine.  INSTANCE brings in the operators on *)
(* words and instructions a second time, with the same definitions.         *)
LEMMA SameOperators ==
  /\ \A x, y : Sequential!Plus(x, y) = Plus(x, y)
  /\ Sequential!TextAddr = TextAddr
  /\ Sequential!Word = Word /\ Sequential!Instr = Instr
  /\ \A g : Sequential!Answered(g) <=> Answered(g)
  /\ \A i, x, y : /\ Sequential!AluOutput(i, x, y) = AluOutput(i, x, y)
                  /\ Sequential!Taken(i, x, y) = Taken(i, x, y)
  /\ \A i : /\ Sequential!MemRead(i) <=> i.op \in {"lw", "lwc1"}
            /\ Sequential!MemWrite(i) <=> i.op \in {"sw", "swc1"}
            /\ Sequential!FpBank(i) <=> i.op \in {"lwc1", "swc1"}
            /\ Sequential!Link(i) <=> i.op \in {"jal", "jalr"}
            /\ Sequential!Conditional(i) <=> i.op \in {"beq", "bne"}
            /\ Sequential!RegDest(i) = RegDest(i)
<1>1. /\ \A x, y : Sequential!Plus(x, y) = Plus(x, y)
      /\ \A x, y : Sequential!Minus(x, y) = Minus(x, y)
      /\ Sequential!TextAddr = TextAddr
      /\ Sequential!Word = Word
      /\ \A g : Sequential!Answered(g) <=> Answered(g)
  BY DEF Sequential!Plus, Plus, Sequential!Minus, Minus, Sequential!TextAddr, TextAddr,
         Sequential!Word, Word, Sequential!Services, Services, Sequential!Answered, Answered
<1>2. Sequential!Instr = Instr
  BY <1>1 DEF Sequential!Instr, Instr, Sequential!Op, Op
<1>3. \A i, x, y : /\ Sequential!AluOutput(i, x, y) = AluOutput(i, x, y)
                   /\ Sequential!Taken(i, x, y) = Taken(i, x, y)
  BY <1>1 DEF Sequential!AluOutput, AluOutput, Sequential!Conditional, Conditional,
              Sequential!AluSrc, AluSrc, Sequential!Taken, Taken
<1>4. \A i : /\ Sequential!MemRead(i) <=> i.op \in {"lw", "lwc1"}
             /\ Sequential!MemWrite(i) <=> i.op \in {"sw", "swc1"}
             /\ Sequential!FpBank(i) <=> i.op \in {"lwc1", "swc1"}
             /\ Sequential!Link(i) <=> i.op \in {"jal", "jalr"}
             /\ Sequential!Conditional(i) <=> i.op \in {"beq", "bne"}
             /\ Sequential!RegDest(i) = RegDest(i)
  BY DEF Sequential!MemRead, Sequential!MemWrite, Sequential!FpBank, Sequential!Link,
         Sequential!Conditional, Sequential!RegDest, RegDest, Sequential!RegDstRd, RegDstRd, Link
<1> QED BY <1>1, <1>2, <1>3, <1>4

(* Likewise for the next instruction that is not a zero word.               *)
LEMMA SameNextNonzero ==
  \A text, p : Sequential!NextNonzero(text, p) = NextNonzero(text, p)
  BY DEF Sequential!NextNonzero, NextNonzero, Sequential!TextAddr, TextAddr

(* Likewise for the instruction at an address.                              *)
LEMMA SameInstructionAt ==
  \A text, p : Sequential!InstructionAt(text, p) = InstructionAt(text, p)
  BY DEF Sequential!InstructionAt, InstructionAt, Sequential!TextAddr, TextAddr,
         Sequential!Nop, Nop

(* An instruction other than a zero word is not skipped.                    *)
LEMMA NextNonzeroHere ==
  ASSUME NEW text, NEW p \in TextAddr, text[p].op # "nop"
  PROVE  NextNonzero(text, p) = p
<1> DEFINE First(q) == /\ q = TextEnd + 1 \/ text[q].op # "nop"
                       /\ \A k \in p .. q - 1 : text[k].op = "nop"
<1>1. p \in p .. TextEnd + 1 /\ p .. p - 1 = {}
  BY TextAssumption, WordSizeAssumption
  DEF TextAssumption, WordSizeAssumption, TextAddr, Word
<1>2. First(p)
  BY <1>1
<1>3. \A q \in p .. TextEnd + 1 : First(q) => q = p
  <2> TAKE q \in p .. TextEnd + 1
  <2>1. q # p => p \in p .. q - 1
    BY TextAssumption, WordSizeAssumption
    DEF TextAssumption, WordSizeAssumption, TextAddr, Word
  <2> QED BY <2>1
<1>4. (CHOOSE q \in p .. TextEnd + 1 : First(q)) = p
  BY <1>1, <1>2, <1>3
<1> QED BY <1>4 DEF NextNonzero

(* Where the sequential machine is while an instruction is in progress.     *)
LEMMA InProgress ==
  ASSUME MicrocodeInv, mi # 0, ir.op # "nop", ~(mi = 7 /\ ir.op = "syscall")
  PROVE  /\ NextNonzero(prog, CurrentPc) = pc - 1
         /\ pc - 1 \in TextAddr /\ prog[pc - 1] = ir /\ (pc - 1) + 1 = pc
<1>1. pc - 1 \in TextAddr /\ prog[pc - 1] = ir
  BY DEF MicrocodeInv, Fetched
<1>2. CurrentPc = pc - 1
  BY DEF CurrentPc
<1>3. pc \in Int
  BY WordSizeAssumption DEF WordSizeAssumption, MicrocodeInv, MultiTypeOK, Word
<1> QED BY <1>1, <1>2, <1>3, NextNonzeroHere

(* The state the sequential machine is in at the instruction in progress.   *)
LEMMA AtInstruction ==
  ASSUME MicrocodeInv, mi # 0, ir.op # "nop", ~(mi = 7 /\ ir.op = "syscall")
  PROVE  /\ Executing = ir
         /\ Sequential!Address = EffectiveAddress
         /\ NextNonzero(prog, CurrentPc) + 1 = pc
<1>1. Executing = ir
  BY InProgress DEF Executing, InstructionAt
<1> QED BY <1>1, InProgress, SameOperators
        DEF Sequential!Address, EffectiveAddress, Executing

(* After its last row the machine is at what the PC says.                   *)
LEMMA ToNext ==
  ASSUME NEW p, prog' = prog, CurrentPc' = p
  PROVE  Sequential!Goto(p) /\ Sequential!BranchTo(p)
<1>1. Sequential!Goto(p)
  BY SameNextNonzero, SameInstructionAt DEF Sequential!Goto, Executing
<1> QED BY <1>1 DEF Sequential!BranchTo

(* Rows that only prepare are stuttering steps.                             *)
LEMMA Preparing ==
  ASSUME MicrocodeInv, Microinstruction,
         mi \in {0, 1, 2, 3, 6, 10, 12, 18}, ~(mi = 6 /\ ir.op = "syscall")
  PROVE  UNCHANGED Sequential!isaVars
<1>1. mi' # 0 /\ (mi' = 7 => mi \in {6, 18})
  BY LeftAlone, MicroinstructionTypes
  DEF SignalTable, NextRow, Jump1, Jump2, Jump4, MicrocodeInv, MultiTypeOK, Rows
<1>2. CurrentPc' = CurrentPc
  <2>1. CASE mi = 0
    <3>1. FetchesText /\ WritesPc /\ S.pcSrc = 0 /\ AluResult = Plus(pc, 1)
      BY <2>1, LeftAlone DEF SignalTable, FetchesText, WritesPc, AluResult, AluA, AluB, Service
    <3>2. pc \in TextAddr /\ pc' = Plus(pc, 1)
      BY <3>1 DEF Microinstruction, Throws, PcSource
    <3>3. pc' - 1 = pc
      BY <3>2, SmallWords
    <3> QED BY <1>1, <2>1, <3>3 DEF CurrentPc
  <2>2. CASE mi # 0
    <3>1. pc' = pc /\ ir' = ir
      BY <2>2, LeftAlone
    <3>2. mi' = 7 => ir.op # "syscall"
      BY <1>1 DEF MicrocodeInv, RightRow
    <3>3. mi # 7
      OBVIOUS
    <3> QED BY <1>1, <2>2, <3>1, <3>2, <3>3 DEF CurrentPc
  <2> QED BY <2>1, <2>2
<1>3. prog' = prog /\ gpr' = gpr /\ fpr' = fpr /\ mem' = mem /\ ready' = ready
  BY LeftAlone
<1> QED BY <1>2, <1>3 DEF Sequential!isaVars, Executing

(* One lemma for the rows in which each kind of instruction takes effect.   *)
(* A service call does in row 6, before it goes on to row 7.                *)
LEMMA ServiceRow ==
  ASSUME MicrocodeInv, Microinstruction, mi = 6, ir.op = "syscall"
  PROVE  Sequential!Syscall
<1>1. Service /\ ~WritesGpr /\ ir' = ir /\ pc' = pc /\ mi' = 7
  BY LeftAlone DEF SignalTable, Service, WritesGpr, NextRow, Jump4
<1>2. UNCHANGED <<prog, fpr, mem>>
  BY LeftAlone
<1>3. Answered(gpr) /\ ready' = (gpr[V0] \notin Exit)
  BY <1>1 DEF Microinstruction, Throws
<1>4. gpr' \in Served
  BY <1>1 DEF Microinstruction
<1>5. IF gpr[V0] \in DOMAIN Result
      THEN \E v \in Inputs : Sequential!SetGpr(Result[gpr[V0]], v)
      ELSE UNCHANGED gpr
  BY <1>1, <1>4, ServiceAssumption DEF ServiceAssumption, Served, Sequential!SetGpr
<1>6. CurrentPc' = pc
  BY <1>1 DEF CurrentPc
<1>7. Sequential!Goto(NextNonzero(prog, CurrentPc) + 1)
  BY <1>2, <1>6, AtInstruction, ToNext
<1> QED BY <1>2, <1>3, <1>5, <1>7, AtInstruction, SameOperators DEF Sequential!Syscall

(* The last rows go back to the fetch; an instruction without a destination *)
(* does not get past row 7.                                                 *)
LEMMA LastRow ==
  ASSUME MicrocodeInv, Microinstruction, mi \in {4, 5, 7, 8, 9, 11, 13, 14, 15, 16, 17, 19}
  PROVE  /\ ir.op \notin {"nop", "syscall"} /\ mi' = 0 /\ CurrentPc' = pc'
         /\ ir' = ir /\ prog' = prog /\ ready' = ready
<1>1. mi' = 0
  BY LeftAlone DEF SignalTable, NextRow
<1>2. ir.op \notin {"nop", "syscall"}
  <2>1. CASE mi = 7
    <3>1. S.regWrite = 1 /\ S.regBank = 0 /\ S.regDst = 1
      BY <2>1, LeftAlone DEF SignalTable
    <3>2. ASSUME ir.op \in {"nop", "syscall"} PROVE WritesGpr /\ Dest = ir.rd /\ ir.rd = 0
      BY <2>1, <3>1, <3>2, EncodingAssumption
      DEF EncodingAssumption, WritesGpr, WritesFpr, Dest, MicrocodeInv, Fetched
    <3> QED BY <3>2 DEF Microinstruction, Throws
  <2>2. CASE mi # 7
    BY <2>2 DEF MicrocodeInv, RightRow
  <2> QED BY <2>1, <2>2
<1>3. CurrentPc' = pc'
  BY <1>1 DEF CurrentPc
<1> QED BY <1>1, <1>2, <1>3, LeftAlone

(* A row that writes an integer register and goes on.                       *)
LEMMA IntegerResult ==
  ASSUME MicrocodeInv, Microinstruction, WritesGpr, ~Service
  PROVE  Sequential!SetGpr(Dest, Data)
  BY DEF Microinstruction, Throws, Served, Sequential!SetGpr

(* Rows 7 and 11: integer operations.                                       *)
LEMMA ComputeRow ==
  ASSUME MicrocodeInv, Microinstruction, mi = 11 \/ (mi = 7 /\ ir.op = "alu")
  PROVE  Sequential!Compute
<1>1. ir.op \in {"alu", "alui", "lui"}
  BY DEF MicrocodeInv, RightRow
<1>2. WritesGpr /\ ~Service /\ Data = aluOut /\ Dest = RegDest(ir)
  BY <1>1, LeftAlone
  DEF SignalTable, WritesGpr, WritesFpr, Service, Data, Dest, RegDest, RegDstRd, Link,
      MicrocodeInv, RightRow
<1>3. aluOut = AluOutput(ir, gpr[ir.rs], gpr[ir.rt])
  <2>1. CASE mi = 11
    BY <2>1 DEF MicrocodeInv, Computed
  <2>2. CASE mi = 7 /\ ir.op = "alu"
    BY <2>2 DEF MicrocodeInv, Computed, AluOutput, Conditional, AluSrc
  <2> QED BY <2>1, <2>2
<1>4. Sequential!SetGpr(RegDest(ir), AluOutput(ir, gpr[ir.rs], gpr[ir.rt]))
  BY <1>2, <1>3, IntegerResult
<1>5. pc' = pc /\ fpr' = fpr /\ mem' = mem
  BY LeftAlone
<1>6. Sequential!Goto(NextNonzero(prog, CurrentPc) + 1)
  BY <1>5, LastRow, AtInstruction, ToNext
<1> QED BY <1>1, <1>4, <1>5, <1>6, LastRow, AtInstruction, SameOperators DEF Sequential!Compute

(* Row 7 for operations of type F.                                          *)
LEMMA FpRow ==
  ASSUME MicrocodeInv, Microinstruction, mi = 7, ir.op = "fp"
  PROVE  Sequential!ComputeFp
<1>1. WritesFpr /\ Data = aluOut /\ Dest = ir.rd
  BY LeftAlone DEF SignalTable, WritesFpr, Data, Dest
<1>2. aluOut = Plus(fpr[ir.rs], fpr[ir.rt])
  BY DEF MicrocodeInv, Computed
<1>3. fpr' = [fpr EXCEPT ![ir.rd] = Plus(fpr[ir.rs], fpr[ir.rt])]
  BY <1>1, <1>2 DEF Microinstruction
<1>4. pc' = pc /\ gpr' = gpr /\ mem' = mem
  BY LeftAlone
<1>5. Sequential!Goto(NextNonzero(prog, CurrentPc) + 1)
  BY <1>4, LastRow, AtInstruction, ToNext
<1>6. Sequential!Plus(fpr[ir.rs], fpr[ir.rt]) = Plus(fpr[ir.rs], fpr[ir.rt])
  BY SameOperators
<1>7. Executing = ir /\ prog' = prog /\ ready' = ready
  BY LastRow, AtInstruction
<1>8. fpr' = [fpr EXCEPT ![Executing.rd] =
                Sequential!Plus(fpr[Executing.rs], fpr[Executing.rt])]
  BY <1>3, <1>6, <1>7
<1> QED BY <1>4, <1>5, <1>7, <1>8 DEF Sequential!ComputeFp

(* Row 19 writes no register.                                               *)
LEMMA MultiplyRow ==
  ASSUME MicrocodeInv, Microinstruction, mi = 19
  PROVE  Sequential!Multiply
<1>1. pc' = pc /\ gpr' = gpr /\ fpr' = fpr /\ mem' = mem /\ ir.op = "mult"
  BY LeftAlone DEF MicrocodeInv, RightRow
<1>2. Sequential!Goto(NextNonzero(prog, CurrentPc) + 1)
  BY <1>1, LastRow, AtInstruction, ToNext
<1> QED BY <1>1, <1>2, LastRow, AtInstruction DEF Sequential!Multiply

(* Rows 4 and 13: loads into either bank.                                   *)
LEMMA LoadRow ==
  ASSUME MicrocodeInv, Microinstruction, mi \in {4, 13}
  PROVE  Sequential!Load
<1>1. EffectiveAddress \in DataAddr /\ mdr = mem[EffectiveAddress]
  BY DEF MicrocodeInv, Computed
<1>2. Data = mdr /\ Dest = ir.rt
  BY LeftAlone DEF SignalTable, Data, Dest
<1>3. pc' = pc /\ mem' = mem
  BY LeftAlone
<1>4. Sequential!Goto(NextNonzero(prog, CurrentPc) + 1)
  BY <1>3, LastRow, AtInstruction, ToNext
<1>5. CASE mi = 4
  <2>1. ir.op = "lw" /\ WritesGpr /\ ~Service /\ fpr' = fpr
    BY <1>5, LeftAlone DEF SignalTable, WritesGpr, WritesFpr, Service, MicrocodeInv, RightRow
  <2>2. Sequential!SetGpr(ir.rt, mem[EffectiveAddress])
    BY <1>1, <1>2, <2>1, IntegerResult
  <2> QED BY <1>1, <1>3, <1>4, <2>1, <2>2, LastRow, AtInstruction, SameOperators
          DEF Sequential!Load
<1>6. CASE mi = 13
  <2>1. ir.op = "lwc1" /\ WritesFpr /\ gpr' = gpr
    BY <1>6, LeftAlone DEF SignalTable, WritesFpr, MicrocodeInv, RightRow
  <2>2. fpr' = [fpr EXCEPT ![ir.rt] = mem[EffectiveAddress]]
    BY <1>1, <1>2, <2>1 DEF Microinstruction
  <2>3. Sequential!MemRead(ir) /\ Sequential!FpBank(ir)
    BY <2>1, SameOperators
  <2>4. /\ Executing = ir /\ Sequential!Address = EffectiveAddress
        /\ prog' = prog /\ ready' = ready
    BY LastRow, AtInstruction
  <2>5. fpr' = [fpr EXCEPT ![Executing.rt] = mem[Sequential!Address]]
    BY <2>2, <2>4
  <2> QED BY <1>1, <1>3, <1>4, <2>1, <2>3, <2>4, <2>5 DEF Sequential!Load
<1> QED BY <1>5, <1>6

(* Rows 5 and 14: stores from either bank.                                  *)
LEMMA StoreRow ==
  ASSUME MicrocodeInv, Microinstruction, mi \in {5, 14}
  PROVE  Sequential!Store
<1>1. WritesData /\ aluOut = EffectiveAddress
  BY LeftAlone DEF SignalTable, WritesData, MicrocodeInv, Computed
<1>2. EffectiveAddress \in DataAddr /\ mem' = [mem EXCEPT ![EffectiveAddress] = StoreValue]
  BY <1>1 DEF Microinstruction, Throws
<1>3. ir.op \in {"sw", "swc1"}
      /\ StoreValue = IF ir.op = "swc1" THEN fpr[ir.rt] ELSE gpr[ir.rt]
  BY LeftAlone DEF SignalTable, StoreValue, MicrocodeInv, RightRow, Fetched
<1>4. pc' = pc /\ gpr' = gpr /\ fpr' = fpr
  BY LeftAlone
<1>5. Sequential!Goto(NextNonzero(prog, CurrentPc) + 1)
  BY <1>4, LastRow, AtInstruction, ToNext
<1>6. Sequential!MemWrite(ir) /\ (Sequential!FpBank(ir) <=> ir.op = "swc1")
  BY <1>3, SameOperators
<1>7. mem' = [mem EXCEPT ![EffectiveAddress] =
                IF Sequential!FpBank(ir) THEN fpr[ir.rt] ELSE gpr[ir.rt]]
  BY <1>2, <1>3, <1>6
<1>8. /\ Executing = ir /\ Sequential!Address = EffectiveAddress
      /\ prog' = prog /\ ready' = ready
  BY LastRow, AtInstruction
<1>9. mem' = [mem EXCEPT ![Sequential!Address] =
                IF Sequential!FpBank(Executing)
                THEN fpr[Executing.rt] ELSE gpr[Executing.rt]]
  BY <1>7, <1>8
<1> QED BY <1>2, <1>4, <1>5, <1>6, <1>8, <1>9 DEF Sequential!Store

(* Row 8: the target comes from the decoding row, the condition from this.  *)
LEMMA BranchRow ==
  ASSUME MicrocodeInv, Microinstruction, mi = 8
  PROVE  Sequential!CondBranch
<1>1. ir.op \in {"beq", "bne"} /\ aluOut = Plus(pc, ir.imm)
  BY DEF MicrocodeInv, RightRow, Computed
<1>2. gpr[ir.rs] \in Word /\ gpr[ir.rt] \in Word
  BY DEF MicrocodeInv, MultiTypeOK, Instr
<1>3. AluResult = Minus(gpr[ir.rs], gpr[ir.rt])
  BY LeftAlone, AluResults
<1>4. AluResult \in Nat /\ (AluResult = 0 <=> gpr[ir.rs] = gpr[ir.rt])
  <2>1. Minus(gpr[ir.rs], gpr[ir.rt]) = 0 <=> gpr[ir.rs] = gpr[ir.rt]
    BY <1>2, Difference
  <2>2. AluResult \in Word
    BY <1>2, <1>3, WordArithmetic
  <2> QED BY <1>3, <2>1, <2>2, WordSizeAssumption DEF WordSizeAssumption, Word
<1>5. WritesPc <=> Taken(ir, gpr[ir.rs], gpr[ir.rt])
  <2>1. S.pcWrite = 1 /\ S.branch = 1
    BY LeftAlone DEF SignalTable
  <2> QED BY <1>1, <1>4, <2>1 DEF WritesPc, Taken
<1>6. PcSource = aluOut
  BY LeftAlone DEF SignalTable, PcSource
<1>7. pc' = IF Taken(ir, gpr[ir.rs], gpr[ir.rt]) THEN Plus(pc, ir.imm) ELSE pc
  BY <1>1, <1>5, <1>6 DEF Microinstruction
<1>8. gpr' = gpr /\ fpr' = fpr /\ mem' = mem
  BY LeftAlone
<1>9. IF Taken(ir, gpr[ir.rs], gpr[ir.rt])
      THEN Sequential!BranchTo(Plus(pc, ir.imm)) ELSE Sequential!Goto(pc)
  BY <1>7, LastRow, ToNext
<1> QED BY <1>1, <1>8, <1>9, LastRow, AtInstruction, SameOperators DEF Sequential!CondBranch

(* Rows 9, 15, 16 and 17: jumps, two of which leave a return address.       *)
LEMMA JumpRow ==
  ASSUME MicrocodeInv, Microinstruction, mi \in {9, 15, 16, 17}
  PROVE  Sequential!Jump
<1>1. ir.op \in {"j", "jal", "jr", "jalr"} /\ (ir.op \in {"jal", "jalr"} <=> mi \in {15, 17})
      /\ (ir.op \in {"jr", "jalr"} <=> mi \in {16, 17})
  BY DEF MicrocodeInv, RightRow
<1>2. pc' = IF ir.op \in {"jr", "jalr"} THEN gpr[ir.rs] ELSE ir.imm
  <2>1. WritesPc
    BY LeftAlone DEF SignalTable, WritesPc
  <2>2. PcSource = IF mi \in {16, 17} THEN a ELSE ir.imm
    BY LeftAlone DEF SignalTable, PcSource
  <2> QED BY <1>1, <2>1, <2>2 DEF Microinstruction, MicrocodeInv, Fetched
<1>3. IF ir.op \in {"jal", "jalr"} THEN Sequential!SetGpr(RA, pc) ELSE UNCHANGED gpr
  <2>1. CASE mi \in {15, 17}
    <3>1. WritesGpr /\ ~Service /\ Dest = RA /\ Data = pc
      BY <1>1, <2>1, LeftAlone DEF SignalTable, WritesGpr, WritesFpr, Service, Dest, Data
    <3> QED BY <1>1, <2>1, <3>1, IntegerResult
  <2>2. CASE mi \notin {15, 17}
    BY <1>1, <2>2, LeftAlone
  <2> QED BY <2>1, <2>2
<1>4. fpr' = fpr /\ mem' = mem
  BY LeftAlone
<1>5. Sequential!BranchTo(IF ir.op \in {"jr", "jalr"} THEN gpr[ir.rs] ELSE ir.imm)
  BY <1>2, LastRow, ToNext
<1> QED BY <1>1, <1>3, <1>4, <1>5, LastRow, AtInstruction, SameOperators DEF Sequential!Jump

(* Every row is a step of the sequential machine or none.                   *)
LEMMA MicroinstructionRefines ==
  ASSUME MicrocodeInv, Microinstruction
  PROVE  Sequential!Execute \/ UNCHANGED Sequential!isaVars
<1>1. mi \in Rows /\ ready
  BY LeftAlone DEF Microinstruction
<1>2. CASE mi = 6 /\ ir.op = "syscall"
  BY <1>1, <1>2, ServiceRow, AtInstruction, SameOperators DEF Sequential!Execute
<1>3. CASE mi \in {0, 1, 2, 3, 6, 10, 12, 18} /\ ~(mi = 6 /\ ir.op = "syscall")
  BY <1>3, Preparing
<1>4. CASE mi \in {4, 5, 7, 8, 9, 11, 13, 14, 15, 16, 17, 19}
  <2>1. \/ Sequential!Compute \/ Sequential!ComputeFp \/ Sequential!Multiply
        \/ Sequential!Load \/ Sequential!Store \/ Sequential!CondBranch \/ Sequential!Jump
    <3>1. mi = 7 => ir.op \in {"alu", "fp"}
      BY <1>4, LastRow DEF MicrocodeInv, RightRow
    <3>2. CASE mi = 11 \/ (mi = 7 /\ ir.op = "alu")
      BY <3>2, ComputeRow
    <3>3. CASE mi = 7 /\ ir.op = "fp"
      BY <3>3, FpRow
    <3>4. CASE mi = 19
      BY <3>4, MultiplyRow
    <3>5. CASE mi \in {4, 13}
      BY <3>5, LoadRow
    <3>6. CASE mi \in {5, 14}
      BY <3>6, StoreRow
    <3>7. CASE mi = 8
      BY <3>7, BranchRow
    <3>8. CASE mi \in {9, 15, 16, 17}
      BY <3>8, JumpRow
    <3>9. \/ mi = 11 \/ (mi = 7 /\ ir.op = "alu")
          \/ mi = 7 /\ ir.op = "fp"
          \/ mi = 19
          \/ mi \in {4, 13}
          \/ mi \in {5, 14}
          \/ mi = 8
          \/ mi \in {9, 15, 16, 17}
      BY <1>4, <3>1
    <3> QED BY <3>2, <3>3, <3>4, <3>5, <3>6, <3>7, <3>8, <3>9
  <2> QED BY <1>1, <2>1 DEF Sequential!Execute
<1> QED BY <1>1, <1>2, <1>3, <1>4 DEF Rows

(* Both machines start at the first instruction that is not a zero word.    *)
LEMMA InitRefines == Init => Sequential!Init
<1>1. Init => prog \in [TextAddr -> Instr] /\ CurrentPc = TextStart
  BY MultiAssumption DEF MultiAssumption, Init, CurrentPc
<1> QED BY <1>1, SameOperators, SameNextNonzero, SameInstructionAt
        DEF Init, Sequential!Init, Executing

(* Stalls are stuttering steps and a reset is a reset.                      *)
LEMMA StepRefines ==
  MicrocodeInv /\ [Next]_vars => [Sequential!Next]_Sequential!isaVars
<1>1. ASSUME Stall \/ UNCHANGED vars PROVE UNCHANGED Sequential!isaVars
  <2>1. UNCHANGED <<prog, pc, gpr, fpr, mem, ready, mi, ir>>
    BY <1>1 DEF Stall, vars, datapath
  <2> QED BY <2>1 DEF Sequential!isaVars, Executing, CurrentPc
<1>2. ASSUME Reset PROVE Sequential!Reset
  <2>1. prog' = prog /\ CurrentPc' = TextStart
    BY <1>2 DEF Reset, CurrentPc
  <2> QED BY <1>2, <2>1, ToNext DEF Reset, Sequential!Reset
<1> QED BY <1>1, <1>2, MicroinstructionRefines DEF Next, NextCycle, Sequential!Next

(* The microcode implements the instruction set, for every program, word    *)
(* size, register file and length of the stalls, and whatever a reset in    *)
(* the middle of an instruction leaves in the datapath.                     *)
THEOREM MicrocodeCorrect == Spec => MicrocodeImplementsIsa
<1>1. Spec => []MicrocodeInv
  BY InitInv, StepInv, PTL DEF Spec
<1> QED BY <1>1, InitRefines, StepRefines, PTL
        DEF Spec, MicrocodeImplementsIsa, Sequential!Spec
=============================================================================
