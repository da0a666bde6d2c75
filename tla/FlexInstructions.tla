-------------------------- MODULE FlexInstructions --------------------------
(***************************************************************************)
(* The instructions of CpuFlex: those of Instructions with the             *)
(* floating-point operations told apart, and one segmentation register.    *)
(*                                                                         *)
(* A floating-point register holds a word, a double takes register r and   *)
(* r + 1.  "fadd" stands for the two operations of the add unit, "fcmp"    *)
(* for the three comparisons, "bc1" for the two branches on their outcome, *)
(* told apart by rs as in their encoding.  Arithmetic on floats is that of *)
(* words: what is modelled is which operands an instruction gets.  "bc1x"  *)
(* is a bc1 whose offset ends in the sub-opcode of another operation of    *)
(* type F (0 to 3 among them), whose row the microcode then finds for it.  *)
(***************************************************************************)
EXTENDS Instructions

CONSTANT FReg  \* floating-point registers, 0 .. 31 in the code

ASSUME FRegAssumption == FReg \subseteq Nat

Arithmetic == {"fadd", "fmul", "fdiv"}
CoprocessorOp == Arithmetic \cup {"fmov", "fcmp"}
FlexOp == (Op \ {"fp"}) \cup CoprocessorOp \cup {"bc1", "bc1x"}

FlexInstr == [op : FlexOp, rs : Reg \cup FReg, rt : Reg \cup FReg,
              rd : Reg \cup FReg, imm : Word, dbl : BOOLEAN, low12 : BOOLEAN]

Bubble == [op |-> "nop", rs |-> 0, rt |-> 0, rd |-> 0, imm |-> 0,
           dbl |-> FALSE, low12 |-> FALSE]

-----------------------------------------------------------------------------
(* The rows of the microcode matrix uc_ctrl_dir finds: a comparison gets the *)
(* row of the I format, which writes an integer register, and a move that   *)
(* of the conditional branches.                                             *)
SigRegWrite(i) == RegWrite(i) \/ i.op \in Arithmetic \cup {"fcmp"}
SigRegBank(i) == FpBank(i) \/ i.op \in Arithmetic
SigBranch(i) == Branch(i) \/ i.op \in {"bc1", "fmov"}
Dest(i) == IF i.op \in CoprocessorOp THEN i.rd ELSE RegDest(i)

(* Registers a result goes to: one, or a pair.                              *)
Span(i, r) == IF i.dbl THEN {r, r + 1} ELSE {r}

(* The registers an instruction names are there, of an operand of the       *)
(* coprocessor the upper half too, which ID reads for singles as well: the  *)
(* program ends at an assertion of read_fp_register when it is not.  The    *)
(* precision is kept of an operation of the coprocessor only.               *)
WellFormed(i) ==
  IF i.op \in CoprocessorOp THEN \A r \in {i.rs, i.rt, i.rd} : {r, r + 1} \subseteq FReg
  ELSE i.rs \in Reg /\ i.rt \in (IF SigRegBank(i) THEN FReg ELSE Reg) /\ ~i.dbl

(* A segmentation register: the instruction, the PC kept with it, the two   *)
(* operands with the upper halves of a double, the output of the ALU or of  *)
(* the coprocessor, the word read, and the branch it resolved.              *)
SegReg == [i : FlexInstr, pc : Word, a : Word, a2 : Word, b : Word, b2 : Word,
           alu : Word, alu2 : Word, word : Word, taken : BOOLEAN, target : Word]

Empty == [i |-> Bubble, pc |-> 0, a |-> 0, a2 |-> 0, b |-> 0, b2 |-> 0,
          alu |-> 0, alu2 |-> 0, word |-> 0, taken |-> FALSE, target |-> 0]

IsBc1(i) == i.op \in {"bc1", "bc1x"}

IsEmpty(seg) == seg.i.op = "nop"

(* The value stage_wb writes for the instruction of a segmentation register. *)
WrittenValue(seg) == CASE Link(seg.i)    -> seg.pc
                       [] MemRead(seg.i) -> seg.word
                       [] OTHER          -> seg.alu
=============================================================================
