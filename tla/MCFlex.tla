------------------------------- MODULE MCFlex -------------------------------
(***************************************************************************)
(* Small instances of CpuFlex: the units it is built with and the delays   *)
(* they have, four integer registers and eight floating-point ones.        *)
(***************************************************************************)
EXTENDS FlexProperties

MCReg == 0 .. 3
MCFReg == 0 .. 7
MCDataAddr == {12, 13}
MCInitialData == (12 :> 3) @@ (13 :> 5)
MCResult == (5 :> 2) @@ (9 :> 2)
MCRefused == ({4} \X (Word \ MCDataAddr)) \cup ({9} \X { size \in Word : size > 4 })
MCCountGarbage == {-1, 0, 1}
MCCounts == [type \in UnitType |-> IF type = "general" THEN 3 ELSE 1]
MCDelay == [u \in {"add", "mult", "div"} \X BOOLEAN |->
              CASE u[1] = "add"  -> 2
                [] u[1] = "mult" -> IF u[2] THEN 5 ELSE 4
                [] u[1] = "div"  -> IF u[2] THEN 19 ELSE 12]

I(op, rd, rs, rt, imm) ==
  [op |-> op, rs |-> rs, rt |-> rt, rd |-> rd, imm |-> imm, dbl |-> FALSE, low12 |-> FALSE]

D(instr) == [instr EXCEPT !.dbl = TRUE]
Fadd(rd, rs, rt) == I("fadd", rd, rs, rt, 0)
Fmul(rd, rs, rt) == I("fmul", rd, rs, rt, 0)
Fdiv(rd, rs, rt) == I("fdiv", rd, rs, rt, 0)
Fmov(rd, rt) == I("fmov", rd, 0, rt, 0)
Fcmp(rs, rt) == I("fcmp", 0, rs, rt, 0)
Bc1(taken, offset) == I("bc1", 0, IF taken THEN 1 ELSE 0, 0, offset % WordSize)
Lwc1(rt, imm) == I("lwc1", 0, 0, rt, imm)
Swc1(rt, imm) == I("swc1", 0, 0, rt, imm)
Lui(rt, imm) == I("lui", 0, 0, rt, imm)
Li(rt, imm) == I("alui", 0, 0, rt, imm)
Addi(rt, rs, imm) == I("alui", 0, rs, rt, imm % WordSize)
Add(rd, rs, rt) == I("alu", rd, rs, rt, 0)
Lw(rt, imm) == I("lw", 0, 0, rt, imm)
Sw(rt, imm) == I("sw", 0, 0, rt, imm)
Bne(rs, rt, offset) == I("bne", 0, rs, rt, offset % WordSize)
J(target) == I("j", 0, 0, 1, target)
Jal(target) == I("jal", 0, 0, 1, target)
Jr(rs) == I("jr", 0, rs, 0, 0)
Mfhi == I("mfhi", 1, 0, 0, 0)
Syscall == [Bubble EXCEPT !.op = "syscall", !.low12 = TRUE]

Text(code) == [a \in TextAddr |->
                 IF a - TextStart < Len(code) THEN code[a - TextStart + 1] ELSE Bubble]

(* Three calculations on values loaded just before: the first two in every  *)
(* combination of units, precisions and dependencies of the set, then a     *)
(* short or a long one that depends on both.                                *)
Calculation == {Fadd(2, 0, 0), Fadd(0, 0, 2), Fmul(2, 0, 2), Fdiv(0, 2, 0),
                D(Fadd(2, 2, 0)), D(Fmul(0, 2, 0))}
LastCalculation == {Fadd(0, 0, 2), Fmul(2, 0, 2), D(Fmul(0, 2, 0))}

Calculating ==
  { <<Li(2, 10), Lwc1(0, 12), Lwc1(1, 13), Lwc1(2, 13), x, y, z, Syscall>> :
      x \in Calculation, y \in Calculation, z \in LastCalculation }

(* A loop around two integer instructions.                                  *)
Body == {Sw(1, 13), Lw(3, 12), Add(3, 3, 1), Addi(1, 1, 1), Bne(1, 3, 1), Bubble}

Looping == { <<Li(1, 2), x, Addi(1, 1, -1), y, Bne(1, 0, -4), Li(2, 10), Syscall>> :
               x \in Body, y \in Body }

(* Calls of services one behind the other, of which the last one exits.     *)
Serving == { <<Li(2, n), Syscall, x, Li(2, 10), Syscall>> : n \in {1, 5}, x \in {Syscall, Bubble} }

(* Services that are refused what they are asked, and that are not.         *)
Asking == { <<Li(2, service), Li(1, argument), Syscall, Bubble, Li(2, 10), Syscall>> :
              service \in {4, 9}, argument \in {1, 12} }

(* An answer that is stored, and a subroutine that copies a word through    *)
(* the registers of the coprocessor.                                        *)
Calling == { <<Li(2, 5), Syscall, Bubble, Sw(2, 13), Li(2, 10), Syscall>>,
             <<Jal(4), Li(2, 10), Syscall, Lwc1(2, 13), Swc1(2, 12), Lui(1, 7), Jr(3)>> }

(* Programs with what the reference is not kept for: moves, comparisons and *)
(* the branches on them, stores of results, integer instructions behind     *)
(* floating-point ones, instructions that throw.                            *)
Mixed ==
  { <<Li(2, 10), Lwc1(0, 12), Fmov(2, 0), Fmov(4, 0), Fmov(6, 0), Fmov(2, 0), Syscall>>,
    <<Li(2, 10), Lwc1(0, 12), Fadd(2, 0, 0), Swc1(2, 13), Lwc1(2, 12), Syscall>>,
    <<Li(2, 10), Lwc1(0, 12), Fcmp(0, 2), Bc1(TRUE, 2), D(Fadd(2, 0, 0)), Mfhi, Syscall>>,
    <<Lwc1(0, 12), Fmul(2, 0, 0), Fdiv(4, 0, 0), Li(2, 10), Fadd(6, 0, 0), Syscall>>,
    <<Li(2, 5), Fadd(2, 0, 0), Syscall, Fmul(2, 0, 0), Lw(1, 7), Syscall>>,
    <<Li(2, 10), Fadd(0, 0, 0), Jal(5), Syscall, Fdiv(2, 0, 0), Jr(3)>>,
    <<Fdiv(0, 0, 0), Fadd(2, 0, 0), J(11)>> }

Config(type, stage, fu, hdu) == [type |-> type, stage |-> stage, fu |-> fu, hdu |-> hdu]

(* The one CpuFlex is constructed with.                                     *)
Constructed == Config("non_taken", "ID", TRUE, TRUE)

MCSetups ==
  [prog : { Text(code) : code \in Calculating \cup Looping \cup Serving \cup Asking \cup Calling \cup Mixed },
   status : {Constructed}]
=============================================================================
