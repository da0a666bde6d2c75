-------------------------------- MODULE Isa --------------------------------
(***************************************************************************)
(* What a program means: one instruction at a time, in program order, each *)
(* reading the registers and the memory its predecessors left.  It is the  *)
(* contract of the pipelined CPU, which keeps up to five instructions in   *)
(* flight and must not let a program see it, and of the multicycle CPU,    *)
(* whose microcode executes an instruction in several steps.               *)
(*                                                                         *)
(* Its state is the instruction to execute and the address next to it, so  *)
(* that a machine with delayed branches, which executes the instruction    *)
(* behind a branch before it goes where the branch goes, is the same       *)
(* machine with another BranchTo: branch offsets and return addresses are  *)
(* relative to next in both.                                               *)
(*                                                                         *)
(* Zero words change nothing, so the instruction to execute is never one   *)
(* of them, except past the text.  An instruction that the machine cannot  *)
(* execute (an access outside the data, a write to $0, an unknown service, *)
(* an unsupported operation, a fetch past the text) is where the machine   *)
(* stays: there is no step for it.                                         *)
(***************************************************************************)
EXTENDS Instructions

CONSTANTS InitialData,  \* data region as loaded
          Inputs,       \* words a service may leave in its result register
          HasFp         \* whether the machine has operations of type F

VARIABLES
  prog,
  delayed,   \* whether branches are delayed, by one instruction
  current,   \* the instruction to execute
  next,      \* the address behind it, or where the branch ahead of it goes
  gpr, fpr, mem, ready

isaVars == <<prog, delayed, current, next, gpr, fpr, mem, ready>>

Init ==
  /\ prog \in [TextAddr -> Instr]
  /\ delayed \in BOOLEAN
  /\ current = InstructionAt(prog, NextNonzero(prog, TextStart))
  /\ next = NextNonzero(prog, TextStart) + 1
  /\ gpr = [r \in Reg |-> 0]
  /\ fpr = [r \in Reg |-> 0]
  /\ mem = InitialData
  /\ ready = TRUE

-----------------------------------------------------------------------------
Goto(p) == /\ current' = InstructionAt(prog, NextNonzero(prog, p))
           /\ next' = NextNonzero(prog, p) + 1

(* The instruction next to a delayed branch is executed, if there is one,   *)
(* before the one at p.                                                     *)
BranchTo(p) ==
  IF delayed /\ InstructionAt(prog, next).op # "nop"
  THEN current' = prog[next] /\ next' = p
  ELSE Goto(IF delayed /\ next \notin TextAddr THEN next ELSE p)

SetGpr(r, v) == r # 0 /\ gpr' = [gpr EXCEPT ![r] = v]

Compute ==
  /\ current.op \in {"alu", "alui", "lui"}
  /\ SetGpr(RegDest(current), AluOutput(current, gpr[current.rs], gpr[current.rt]))
  /\ Goto(next)
  /\ UNCHANGED <<prog, delayed, fpr, mem, ready>>

ComputeFp ==
  /\ HasFp /\ current.op = "fp"
  /\ fpr' = [fpr EXCEPT ![current.rd] = Plus(fpr[current.rs], fpr[current.rt])]
  /\ Goto(next)
  /\ UNCHANGED <<prog, delayed, gpr, mem, ready>>

Multiply ==
  /\ current.op = "mult"
  /\ Goto(next)
  /\ UNCHANGED <<prog, delayed, gpr, fpr, mem, ready>>

Address == Plus(gpr[current.rs], current.imm)

Load ==
  /\ MemRead(current) /\ Address \in DataAddr
  /\ IF FpBank(current)
     THEN fpr' = [fpr EXCEPT ![current.rt] = mem[Address]] /\ UNCHANGED gpr
     ELSE SetGpr(current.rt, mem[Address]) /\ UNCHANGED fpr
  /\ Goto(next)
  /\ UNCHANGED <<prog, delayed, mem, ready>>

Store ==
  /\ MemWrite(current) /\ Address \in DataAddr
  /\ mem' = [mem EXCEPT ![Address] =
               IF FpBank(current) THEN fpr[current.rt] ELSE gpr[current.rt]]
  /\ Goto(next)
  /\ UNCHANGED <<prog, delayed, gpr, fpr, ready>>

CondBranch ==
  /\ Conditional(current)
  /\ IF Taken(current, gpr[current.rs], gpr[current.rt])
     THEN BranchTo(Plus(next, current.imm)) ELSE Goto(next)
  /\ UNCHANGED <<prog, delayed, gpr, fpr, mem, ready>>

Jump ==
  /\ current.op \in {"j", "jal", "jr", "jalr"}
  /\ BranchTo(IF current.op \in {"jr", "jalr"} THEN gpr[current.rs] ELSE current.imm)
  /\ IF Link(current) THEN SetGpr(RA, next) ELSE UNCHANGED gpr
  /\ UNCHANGED <<prog, delayed, fpr, mem, ready>>

Syscall ==
  /\ current.op = "syscall"
  /\ Answered(gpr)
  /\ ready' = (gpr[V0] \notin Exit)
  /\ IF gpr[V0] \in DOMAIN Result
     THEN \E v \in Inputs : SetGpr(Result[gpr[V0]], v)
     ELSE UNCHANGED gpr
  /\ Goto(next)
  /\ UNCHANGED <<prog, delayed, fpr, mem>>

Execute ==
  /\ ready
  /\ Compute \/ ComputeFp \/ Multiply \/ Load \/ Store \/ CondBranch \/ Jump \/ Syscall

Reset ==
  /\ Goto(TextStart)
  /\ gpr' = [r \in Reg |-> 0]
  /\ fpr' = [r \in Reg |-> 0]
  /\ mem' = InitialData
  /\ ready' = TRUE
  /\ UNCHANGED <<prog, delayed>>

Next == Execute \/ Reset

Spec == Init /\ [][Next]_isaVars
=============================================================================
