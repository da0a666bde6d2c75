----------------------------- MODULE MCPipeline -----------------------------
(***************************************************************************)
(* Small instances of the pipelined CPU: words of four bits, four          *)
(* registers, programs of a few instructions followed, as setup_memory     *)
(* lays them out, by two zero words.                                       *)
(***************************************************************************)
EXTENDS PipelineProperties, SequencesExt

MCReg == 0 .. 3
MCDataAddr == {12, 13}
MCInitialData == (12 :> 3) @@ (13 :> 12)
MCResult == (5 :> 2) @@ (9 :> 2)
MCRefused == ({4} \X (Word \ MCDataAddr)) \cup ({9} \X { size \in Word : size > 4 })

I(op, rd, rs, rt, imm) ==
  [op |-> op, rs |-> rs, rt |-> rt, rd |-> rd, imm |-> imm, low12 |-> FALSE]

Addi(rt, rs, imm) == I("alui", 0, rs, rt, imm)
Li(rt, imm) == Addi(rt, 0, imm)
Add(rd, rs, rt) == I("alu", rd, rs, rt, 0)
Lw(rt, imm, rs) == I("lw", 0, rs, rt, imm)
Sw(rt, imm, rs) == I("sw", 0, rs, rt, imm)
Lwc1(rt, imm, rs) == I("lwc1", 0, rs, rt, imm)
Swc1(rt, imm, rs) == I("swc1", 0, rs, rt, imm)
Beq(rs, rt, offset) == I("beq", 0, rs, rt, offset % WordSize)
Bne(rs, rt, offset) == I("bne", 0, rs, rt, offset % WordSize)
J(target) == I("j", 0, 0, 1, target)
Jal(target) == I("jal", 0, 0, 1, target)
Jr(rs) == I("jr", 0, rs, 0, 0)
Jalr(rs) == I("jalr", 3, rs, 0, 0)
Syscall == I("syscall", 0, 0, 0, 0)
Mult(rs, rt) == I("mult", 0, rs, rt, 0)
Mfhi == I("mfhi", 1, 0, 0, 0)
Fp == I("fp", 1, 1, 1, 0)

(* The loaded text: the instructions and zero words up to its end.          *)
Text(code) == [a \in TextAddr |->
                 IF a - TextStart < Len(code) THEN code[a - TextStart + 1] ELSE Nop]

(* All programs of n instructions of a set.                                 *)
TextsOf(instrs, n) == { Text(code) : code \in [1 .. n -> instrs] }

(* Every program of a set under every configuration of another.             *)
Under(texts, statuses) == [prog : texts, status : statuses]

(* A configuration, in a build without assertions.                          *)
Config(type, stage, fu, hdu) ==
  [type |-> type, stage |-> stage, fu |-> fu, hdu |-> hdu, asserts |-> FALSE]
=============================================================================
