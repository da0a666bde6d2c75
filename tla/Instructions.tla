---------------------------- MODULE Instructions ----------------------------
(***************************************************************************)
(* The instruction set the simulated CPUs share: instructions as records,  *)
(* the control signals the microcode gives each of them, and arithmetic on *)
(* machine words.                                                          *)
(*                                                                         *)
(* An address counts words (the code's addresses divided by 4), a machine  *)
(* word is a residue modulo WordSize (the code's uint32_t is modulo 2^32). *)
(* The encodings of an instruction are abstracted to its fields; the one   *)
(* accident of an encoding that the CPU reacts to is kept: low12 says      *)
(* that the low six bits of the code are those of the syscall sub-opcode   *)
(* (0xc), which fill_instruction reports as "funct" whatever the format.   *)
(***************************************************************************)
EXTENDS Integers

CONSTANTS
  WordSize,   \* number of values of a machine word
  Reg,        \* register numbers, 0 is the constant zero
  RA,         \* $ra, register 31
  V0,         \* $v0, register 2, the service number of a syscall
  A0,         \* $a0, register 4, the argument of a service
  TextStart,  \* address of the first instruction, MEM_TEXT_START
  TextEnd,    \* last word of the text region that can be fetched
  DataAddr,   \* addresses allocated in the data region
  Exit,       \* service numbers that stop the program (10)
  Result,     \* the register a service leaves its result in: $v0 for 5 and 9,
              \* $a0 for 41 and 42
  Output,     \* service numbers that change no register (1, 2, 3, 4)
  Refused     \* pairs of a service and an argument it throws on: 4 on an
              \* address in no block, 9 on a size there is no room for

Word == 0 .. WordSize - 1
TextAddr == TextStart .. TextEnd

ASSUME WordSizeAssumption == WordSize \in Nat \ {0}
ASSUME RegAssumption == {RA, V0, A0} \subseteq Reg \ {0} /\ 0 \in Reg
ASSUME TextAssumption == /\ TextStart \in Word \ {0}
                         /\ TextEnd \in TextStart .. WordSize - 2
ASSUME DataAssumption == DataAddr \subseteq Word \ TextAddr
ASSUME ServiceAssumption == /\ Result \in [DOMAIN Result -> Reg \ {0}]
                            /\ Exit \cap DOMAIN Result = {}
                            /\ \A pair \in Refused : pair[1] \notin Exit

-----------------------------------------------------------------------------
(* Operations that differ in control; "alu" and "alui" stand for every      *)
(* R-type and I-type operation of the ALU, "mfhi" for those it throws on,   *)
(* "fp" for opcode OP_FTYPE.                                                *)
Op == {"nop", "alu", "mult", "mfhi", "alui", "lui", "lw", "sw", "lwc1", "swc1",
       "beq", "bne", "j", "jal", "jr", "jalr", "syscall", "fp"}

Instr == [op : Op, rs : Reg, rt : Reg, rd : Reg, imm : Word, low12 : BOOLEAN]

Services == Exit \cup DOMAIN Result \cup Output

(* Cpu::syscall does not throw: there is such a service, and it can do what *)
(* the registers ask of it.                                                 *)
Answered(regs) == /\ regs[V0] \in Services
                  /\ <<regs[V0], regs[A0]>> \notin Refused

Nop == [op |-> "nop", rs |-> 0, rt |-> 0, rd |-> 0, imm |-> 0, low12 |-> FALSE]

Plus(a, b) == (a + b) % WordSize
Minus(a, b) == (a - b) % WordSize
Times(a, b) == (a * b) % WordSize

(* The first address from p on whose word of the text is not zero.          *)
NextNonzero(text, p) ==
  IF p \notin TextAddr THEN p
  ELSE CHOOSE q \in p .. TextEnd + 1 :
         /\ q = TextEnd + 1 \/ text[q].op # "nop"
         /\ \A k \in p .. q - 1 : text[k].op = "nop"

(* The instruction at an address, a zero word outside the text.             *)
InstructionAt(text, p) == IF p \in TextAddr THEN text[p] ELSE Nop

-----------------------------------------------------------------------------
(* Columns of the microcode matrix.                                         *)
RegWrite(i) == i.op \in {"alu", "mfhi", "alui", "lui", "lw", "lwc1", "jal", "jalr"}
MemRead(i)  == i.op \in {"lw", "lwc1"}
MemWrite(i) == i.op \in {"sw", "swc1"}
FpBank(i)   == i.op \in {"lwc1", "swc1"}
Branch(i)   == i.op \in {"beq", "bne", "j", "jal", "jr", "jalr"}
AluSrc(i)   == i.op \in {"lw", "sw", "alui", "lui", "lwc1", "swc1"}
RegDstRd(i) == i.op \in {"alu", "mfhi", "mult"}
Link(i)     == i.op \in {"jal", "jalr"}

Conditional(i) == i.op \in {"beq", "bne"}

(* The register an instruction names as its destination.                    *)
RegDest(i) == CASE RegDstRd(i) -> i.rd
                [] Link(i)     -> RA
                [] OTHER       -> i.rt

(* What the ALU leaves on its output: sub for the conditional branches, add *)
(* for addresses and for the operations "alu" and "alui" stand for.         *)
AluOutput(i, a, b) ==
  CASE i.op = "lui"   -> i.imm
    [] Conditional(i) -> Minus(a, b)
    [] AluSrc(i) /\ i.op # "lui" -> Plus(a, i.imm)
    [] OTHER          -> Plus(a, b)

(* A conditional branch on these operands is taken.                         *)
Taken(i, a, b) == \/ i.op = "beq" /\ a = b
                  \/ i.op = "bne" /\ a # b
=============================================================================
