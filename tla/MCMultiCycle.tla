---------------------------- MODULE MCMultiCycle ----------------------------
(* Programs of three instructions of every kind, dependent on each other    *)
(* through registers, memory and control, and loops that multiply, compute  *)
(* in floating point, call and return.                                      *)
EXTENDS MultiCycle, SequencesExt, TLC

MCReg == 0 .. 3
MCDataAddr == {12, 13}
MCInitialData == (12 :> 3) @@ (13 :> 12)
MCResult == (5 :> 2) @@ (9 :> 2)
MCRefused == ({4} \X (Word \ MCDataAddr)) \cup ({9} \X { size \in Word : size > 4 })

I(op, rd, rs, rt, imm) ==
  [op |-> op, rs |-> rs, rt |-> rt, rd |-> rd, imm |-> imm % WordSize, low12 |-> FALSE]

Li(rt, imm) == I("alui", 0, 0, rt, imm)
Syscall == I("syscall", 0, 0, 0, 0)

Text(code) == [addr \in TextAddr |->
                 IF addr - TextStart < Len(code) THEN code[addr - TextStart + 1] ELSE Nop]

Instrs ==
  { Li(2, 10), Li(2, 5), Syscall, I("alui", 0, 1, 1, 12), I("alu", 3, 1, 2, 0),
    I("alu", 0, 1, 1, 0), I("lui", 0, 0, 1, 13), I("mult", 0, 1, 1, 0),
    I("mfhi", 1, 0, 0, 0), I("lw", 0, 1, 2, 0), I("lw", 0, 0, 1, 13),
    I("sw", 0, 1, 2, 0), I("lwc1", 0, 0, 1, 12), I("swc1", 0, 1, 1, 0),
    I("fp", 1, 1, 1, 0), I("beq", 0, 1, 0, 1), I("bne", 0, 1, 0, -2),
    I("j", 0, 0, 0, 3), I("jal", 0, 0, 0, 3), I("jr", 0, 3, 0, 0),
    I("jalr", 1, 3, 0, 0), Nop }

Loops ==
  { <<Li(1, 2), x, y, I("alui", 0, 1, 1, -1), I("bne", 0, 1, 0, -4), Li(2, 10), Syscall>> :
      x \in Instrs, y \in Instrs }

(* Services that are refused what they are asked, and that are not.         *)
Asking == { <<Li(2, service), Li(1, argument), Syscall, I("sw", 0, 0, 2, 13)>> :
              service \in {4, 9}, argument \in {1, 12} }

MCPrograms == { Text(code) : code \in [1 .. 3 -> Instrs] \cup Loops \cup Asking }
=============================================================================
