------------------------------ MODULE Encoding ------------------------------
(***************************************************************************)
(* Machine words (utils.cpp): how an instruction of a source file becomes  *)
(* a word, and how the simulator takes the word apart again.               *)
(*                                                                         *)
(* A word is its six bits of opcode and the 26 behind them, one number,    *)
(* which the formats divide differently.  A statement is the name of an    *)
(* instruction, the precision of a floating-point one, and its operands as *)
(* numbers, in the order they are written.                                 *)
(***************************************************************************)
EXTENDS Integers, Sequences

RegSize == 32    \* values of a field of five bits
FunctSize == 64
ByteSize == 256
ImmSize == RegSize * RegSize * FunctSize
JumpSize == RegSize * RegSize * ImmSize

(* instructions_def, by format.                                             *)
RType == [add |-> 32, sll |-> 0, srl |-> 2, sra |-> 3, sllv |-> 4, srlv |-> 6,
          srav |-> 7, jr |-> 8, jalr |-> 9, syscall |-> 12, mult |-> 24,
          multu |-> 25, div |-> 26, divu |-> 27, addu |-> 33, sub |-> 34,
          subu |-> 35, and |-> 36, or |-> 37, xor |-> 38, nor |-> 39,
          slt |-> 42, sltu |-> 43, mfhi |-> 16, mthi |-> 17, mflo |-> 18,
          mtlo |-> 19]
JType == [j |-> 2, jal |-> 3]
IType == [beq |-> 4, bne |-> 5, blez |-> 6, bgtz |-> 7, addi |-> 8, addiu |-> 9,
          slti |-> 10, sltiu |-> 11, andi |-> 12, ori |-> 13, xori |-> 14,
          lui |-> 15, lb |-> 32, lh |-> 33, lw |-> 35, lbu |-> 36, lhu |-> 37,
          sb |-> 40, sh |-> 41, sw |-> 43, lwc1 |-> 49, swc1 |-> 57]
FType == [n \in {"add.", "sub.", "mul.", "div.", "mov.", "c.le.", "c.lt.", "c.eq."} |->
            CASE n = "add." -> 0 [] n = "sub." -> 1 [] n = "mul." -> 2 [] n = "div." -> 3
              [] n = "mov." -> 6 [] n = "c.le." -> 62 [] n = "c.lt." -> 60 [] n = "c.eq." -> 50]
FBranch == [bc1t |-> 1, bc1f |-> 0]

OpRType == 0
OpFType == 17
FpBranchCop == 8

Compares == {"c.le.", "c.lt.", "c.eq."}
MulDiv == {"mult", "multu", "div", "divu"}
Shifts == {"sll", "srl", "sra"}
Displaced == {"lw", "sw", "lb", "sb", "lwc1", "swc1"}

HalfWords == {"lh", "sh"}

-----------------------------------------------------------------------------
(* The statements of the grammar: the names the scanner knows, by the       *)
(* operands they take.  A label is no operand; a register behind j or jal   *)
(* is read as the number 0; and only some have a second precision, cop 1.   *)
Register == 0 .. RegSize - 1
ThreeRegisters == {"add", "sub", "and", "or", "xor", "nor", "slt", "sllv", "srlv", "srav",
                   "add.", "sub.", "mul.", "div."}
TwoRegisters == MulDiv \cup Compares \cup {"mov.", "c.ne.", "c.ge.", "c.gt."}
Doubled == {"add.", "sub.", "mul.", "div.", "c.ne.", "c.ge.", "c.gt."} \cup Compares
Immediates == {"addi", "subi", "andi", "ori", "xori", "bne", "beq"}
Jumps == {"j", "jal", "jr", "jalr"}

Written(s) ==
  LET Takes(kind, names, operands) == s.kind = kind /\ s.name \in names /\ s.ops \in operands
  IN  /\ s.cop \in {0, 1} /\ (s.cop = 1 => s.name \in Doubled)
      /\ \/ Takes("plain", ThreeRegisters, Register \X Register \X Register)
         \/ Takes("plain", TwoRegisters, Register \X Register)
         \/ Takes("plain", Shifts \cup Immediates, Register \X Register \X Int)
         \/ Takes("plain", {"lui"}, Register \X Int)
         \/ Takes("plain", Displaced \cup HalfWords, Register \X Int \X Register)
         \/ Takes("plain", {"jr", "jalr"}, { <<r>> : r \in Register })
         \/ Takes("plain", {"j", "jal"}, {<<0>>})
         \/ Takes("plain", {"syscall", "nop"}, {<< >>})
         \/ Takes("relative", Immediates, Register \X Register)
         \/ Takes("relative", DOMAIN FBranch, {<< >>})
         \/ Takes("absolute", Jumps, {<< >>})

(* find_instruction_by_name finds the name, and find_register_by_name those *)
(* of the registers.  The half-word accesses have names, but their operands *)
(* are taken for those of an addition, and the offset is no name of a       *)
(* register; nor is the label of a jump through a register.                 *)
Assembles(s) ==
  /\ \/ s.name = "nop"
     \/ \E names \in {RType, JType, IType, FType, FBranch} : s.name \in DOMAIN names
  /\ s.name \notin HalfWords
  /\ s.kind = "absolute" => s.name \in DOMAIN JType

-----------------------------------------------------------------------------
(* assemble_instruction up to the call of encode_instruction.               *)
Blank == [opcode |-> OpRType, cop |-> 0, rs |-> 0, rt |-> 0, rd |-> 0,
          shamt |-> 0, funct |-> 0, addr_i |-> 0, addr_j |-> 0]

RFields(s) ==
  LET f == [Blank EXCEPT !.funct = RType[s.name]]
      o == s.ops
  IN  CASE s.name = "syscall"    -> f
        [] s.name \in MulDiv     -> [f EXCEPT !.rs = o[1], !.rt = o[2]]
        [] s.name \in Shifts     -> [f EXCEPT !.rd = o[1], !.rt = o[2], !.shamt = o[3] % ByteSize]
        [] s.name = "jr"         -> [f EXCEPT !.rs = o[1]]
        [] OTHER                 -> [f EXCEPT !.rd = o[1], !.rs = o[2], !.rt = o[3]]

IOperands(s) ==
  LET f == [Blank EXCEPT !.opcode = IType[s.name]]
      o == s.ops
  IN  CASE s.name \in Displaced -> [f EXCEPT !.rt = o[1], !.addr_i = o[2] % ImmSize,
                                             !.rs = o[3]]
        [] s.name = "lui"       -> [f EXCEPT !.rt = o[1], !.addr_i = o[2] % ImmSize]
        [] OTHER                -> [f EXCEPT !.rt = o[1], !.rs = o[2],
                                             !.addr_i = o[3] % ImmSize]

(* The registers of a branch are written in the other order.                *)
IFields(s) ==
  LET f == IOperands(s)
  IN  IF s.name \in {"beq", "bne"} THEN [f EXCEPT !.rs = f.rt, !.rt = f.rs] ELSE f

JFields(s) == [Blank EXCEPT !.opcode = JType[s.name], !.addr_j = s.ops[1]]

FFields(s) ==
  LET f == [Blank EXCEPT !.opcode = OpFType, !.cop = s.cop, !.funct = FType[s.name]]
      o == s.ops
  IN  CASE s.name = "mov."       -> [f EXCEPT !.rd = o[1], !.rt = o[2]]
        [] s.name \in Compares   -> [f EXCEPT !.rt = o[1], !.rs = o[2]]
        [] OTHER                 -> [f EXCEPT !.rd = o[1], !.rs = o[2], !.rt = o[3]]

FBranchFields(s) ==
  [Blank EXCEPT !.opcode = OpFType, !.cop = FpBranchCop, !.rs = FBranch[s.name],
                !.addr_i = s.ops[1] % ImmSize]

Fields(s) ==
  CASE s.name \in DOMAIN RType -> RFields(s)
    [] s.name \in DOMAIN JType -> JFields(s)
    [] s.name \in DOMAIN IType -> IFields(s)
    [] s.name \in DOMAIN FType -> FFields(s)
    [] s.name \in DOMAIN FBranch -> FBranchFields(s)
    [] s.name = "nop" -> Blank

(* encode_instruction: fields are ORed in at their places, whatever their   *)
(* width; nothing keeps a shift amount of 32 or more out of rd.             *)
(* This is C's |, bit by bit: the halves of two numbers, and their last bits.*)
Or[a \in Nat] ==
  [b \in Nat |-> IF a = 0 \/ b = 0 THEN a + b
                 ELSE 2 * Or[a \div 2][b \div 2] + (IF a % 2 = 0 /\ b % 2 = 0 THEN 0 ELSE 1)]

x | y == Or[x][y]

High(x) == x * RegSize * ImmSize
Low(x) == x * ImmSize
Third(x) == x * RegSize * FunctSize
Fourth(x) == x * FunctSize

Encode(f) ==
  [opcode |-> f.opcode,
   rest |-> CASE f.opcode \in {JType[n] : n \in DOMAIN JType} -> f.addr_j
              [] f.opcode = OpFType ->
                   High(f.cop) | Low(f.rs)
                     | (IF f.cop = FpBranchCop THEN f.addr_i
                        ELSE Third(f.rt) | Fourth(f.rd) | f.funct)
              [] f.opcode = OpRType ->
                   High(f.rs) | Low(f.rt) | Third(f.rd) | Fourth(f.shamt) | f.funct
              [] OTHER -> High(f.rs) | Low(f.rt) | f.addr_i]

Assemble(s) == Encode(Fields(s))

-----------------------------------------------------------------------------
(* fill_instruction.  It leaves the precision of an instruction that is not *)
(* floating-point, and the shift amount of one that is, as they were.       *)
Reg1(w) == w.rest \div (RegSize * ImmSize)
Reg2(w) == (w.rest \div ImmSize) % RegSize
Reg3(w) == (w.rest \div (RegSize * FunctSize)) % RegSize
Reg4(w) == (w.rest \div FunctSize) % RegSize

Fill(w) ==
  IF w.opcode = OpFType
  THEN [opcode |-> w.opcode, cop |-> Reg1(w), rs |-> Reg2(w), rt |-> Reg3(w), rd |-> Reg4(w),
        funct |-> w.rest % FunctSize, addr_i |-> w.rest % ImmSize, addr_j |-> w.rest]
  ELSE [opcode |-> w.opcode, rs |-> Reg1(w), rt |-> Reg2(w), rd |-> Reg3(w), shamt |-> Reg4(w),
        funct |-> w.rest % FunctSize, addr_i |-> w.rest % ImmSize, addr_j |-> w.rest]

(* find_instruction: the name a word is displayed and executed under.       *)
NameIn(table, code) == CHOOSE n \in DOMAIN table : table[n] = code
ByOpcode == [n \in DOMAIN IType \cup DOMAIN JType |->
               IF n \in DOMAIN IType THEN IType[n] ELSE JType[n]]

NameOf(w) ==
  LET f == Fill(w)
  IN  CASE w.opcode = OpRType -> NameIn(RType, f.funct)
        [] w.opcode = OpFType /\ f.cop = FpBranchCop -> NameIn(FBranch, f.rs)
        [] w.opcode = OpFType /\ f.cop # FpBranchCop -> NameIn(FType, f.funct)
        [] OTHER -> NameIn(ByOpcode, w.opcode)

(* decode_instruction: the operands a word is displayed with.  Those of a   *)
(* comparison come out in the order of the fields, not of the source.       *)
DecodeR(name, f) ==
  CASE name \in MulDiv         -> <<f.rs, f.rt>>
    [] name \in {"jr", "jalr"} -> <<f.rs>>
    [] name \in Shifts         -> <<f.rd, f.rt, f.shamt>>
    [] name = "syscall"        -> << >>
    [] OTHER                   -> <<f.rd, f.rs, f.rt>>

DecodeF(name, f) ==
  CASE name \in DOMAIN FBranch -> <<f.addr_i>>
    [] name = "mov."           -> <<f.rd, f.rt>>
    [] name \in Compares       -> <<f.rs, f.rt>>
    [] OTHER                   -> <<f.rd, f.rs, f.rt>>

DecodeI(name, f) ==
  CASE name \in {"beq", "bne"} -> <<f.rs, f.rt, f.addr_i>>
    [] name \in Displaced      -> <<f.rt, f.addr_i, f.rs>>
    [] name = "lui"            -> <<f.rt, f.addr_i>>
    [] OTHER                   -> <<f.rt, f.rs, f.addr_i>>

Nop(w) == w.opcode = 0 /\ w.rest = 0

Decode(w) ==
  LET f == Fill(w)
      name == IF Nop(w) THEN "nop" ELSE NameOf(w)
  IN  [name |-> name,
       cop |-> IF name \in DOMAIN FType THEN f.cop ELSE 0,
       ops |-> CASE Nop(w) -> << >>
                 [] w.opcode = OpRType /\ ~Nop(w) -> DecodeR(name, f)
                 [] w.opcode = OpFType -> DecodeF(name, f)
                 [] name \in DOMAIN JType -> <<f.addr_j>>
                 [] name \in DOMAIN IType -> DecodeI(name, f)]
=============================================================================
