------------------------- MODULE MCPipelineRefinement -------------------------
(***************************************************************************)
(* Programs the pipeline is to run as the sequential machine does, in both *)
(* branch stages.  Left out are the programs on which the code departs     *)
(* from it: see JumpInSecondSlot and BranchesInARow.                       *)
(***************************************************************************)
EXTENDS MCPipeline

-----------------------------------------------------------------------------
(* Branches decided in ID.  Straight-line programs whose instructions       *)
(* depend on each other through the registers of both banks and through the *)
(* memory, with instructions that throw in MEM, EX and WB among them;       *)
(* programs whose instructions send control elsewhere, forwards, backwards  *)
(* and into each other, with service calls, stores and accesses on the      *)
(* paths they leave and take; and a subroutine call around any three        *)
(* instructions.                                                            *)
Dependent ==
  TextsOf({Li(1, 12), Addi(1, 1, 1), Add(2, 1, 2), Lw(2, 12, 0), Lw(1, 0, 1),
           Sw(2, 0, 1), Lwc1(1, 12, 0), Swc1(1, 13, 0),
           Add(0, 1, 1), Mfhi}, 4)

Anywhere == {Addi(1, 1, 1), Li(2, 10), Sw(1, 12, 0), Lw(1, 12, 0), Syscall, Nop,
             Beq(1, 0, 1), Bne(1, 0, -2), Jal(4)}

Call(x, y, z) == <<Li(2, 5), Jal(4), x, Syscall, y, z, Jr(3)>>

(* Services that are refused what they are asked, and that are not.         *)
Asking ==
  { <<Li(2, service), Li(1, argument), x, Syscall, Sw(2, 13, 0), Li(2, 10), Syscall>> :
      service \in {4, 9}, argument \in {1, 12}, x \in {Nop, Sw(1, 12, 0)} }

Branching ==
  TextsOf(Anywhere, 4) \cup { Text(code) : code \in Asking }
    \cup { Text(Call(x, y, z)) : x \in Anywhere, y \in Anywhere \ {Jal(4)},
                                 z \in Anywhere \ {Jal(4)} }

-----------------------------------------------------------------------------
(* Conditional branches decided in MEM, with what the pipeline may hold     *)
(* behind them: other branches, stores, service calls, instructions that    *)
(* throw, and jumps that are not the second instruction after a branch.     *)
(* A flushing pipeline is given conditional branches only, no two in a row. *)
JumpInSecondSlot(text) ==
  \E a \in TextStart .. TextEnd - 2 :
    /\ Conditional(text[a])
    /\ Branch(text[a + 2]) /\ ~Conditional(text[a + 2])

BranchesInARow(text) ==
  \E a \in TextStart .. TextEnd - 1 : Branch(text[a]) /\ Branch(text[a + 1])

Behind == {Addi(1, 1, 1), Li(2, 10), Sw(1, 12, 0), Syscall, Mfhi,
           Beq(1, 0, 1), Beq(1, 2, 2), Bne(1, 0, -2), J(3), Jal(4)}

NonTakenPrograms == { text \in TextsOf(Behind, 4) : ~JumpInSecondSlot(text) }

FlushPrograms ==
  { text \in TextsOf(Behind \ {J(3), Jal(4)}, 4) : ~BranchesInARow(text) }

-----------------------------------------------------------------------------
(* Delayed branches, decided in ID, with everything that may be in a delay  *)
(* slot: other branches, calls, service calls, zero words and instructions  *)
(* that throw.                                                              *)
Slots == {Addi(1, 1, 1), Li(2, 10), Sw(1, 12, 0), Syscall, Nop, Mfhi,
          Beq(1, 0, 1), Bne(1, 0, -2), J(3), Jal(4)}

DelayedPrograms ==
  TextsOf(Slots, 4)
    \cup { Text(Call(x, y, z)) : x \in Slots, y \in Slots \ {Jal(4)},
                                 z \in Slots \ {Jal(4)} }

-----------------------------------------------------------------------------
MCSetups ==
  UNION { Under(Dependent, { Config("non_taken", "ID", fu, TRUE) : fu \in BOOLEAN }),
          Under(Branching, { Config(type, "ID", fu, TRUE) :
                               type \in {"non_taken", "flush"}, fu \in BOOLEAN }),
          Under(DelayedPrograms, { Config("delayed", "ID", TRUE, TRUE) }),
          Under(NonTakenPrograms, { Config("non_taken", "MEM", fu, TRUE) : fu \in BOOLEAN }),
          Under(FlushPrograms, { Config("flush", "MEM", fu, TRUE) : fu \in BOOLEAN }) }
===============================================================================
