------------------------- MODULE MCPipelineFindings -------------------------
(* Programs on which the pipelined CPU departs from what its comments say.  *)
EXTENDS MCPipeline

(* A jump through a register right behind the load of that register.        *)
ReturnPrograms == {Text(<<Lw(3, 12, 0), x, Jr(3), Li(2, 10), Syscall>>) :
                     x \in {Nop, Addi(1, 1, 1)}}

(* A branch that is not taken right before the service call.                *)
ExitPrograms == {Text(<<Li(2, 10), Bne(0, 0, 1), Syscall>>)}

(* A branch that is taken, with a jump two instructions behind it, or       *)
(* another branch right behind it.                                          *)
ShadowPrograms == {Text(<<Li(2, 10), Beq(0, 0, 3), x, J(3), Syscall, Syscall>>) :
                     x \in {Addi(1, 1, 1), Sw(1, 12, 0)}}
InARowPrograms == {Text(<<Li(2, 10), Li(1, 1), Beq(0, 0, 1), Beq(0, 0, 1), Syscall>>)}

(* A jump over an instruction.                                              *)
JumpPrograms == {Text(<<Li(2, 10), Li(1, 1), J(5), Li(2, 1), Li(3, 1), Syscall>>)}

InID == {Config("non_taken", "ID", TRUE, TRUE)}
NonTakenInMEM == {Config("non_taken", "MEM", TRUE, TRUE)}
FlushInMEM == {Config("flush", "MEM", TRUE, TRUE)}

ReturnSetups == Under(ReturnPrograms, InID)
ExitSetups == Under(ExitPrograms, FlushInMEM)
BranchSetups == Under(ShadowPrograms, NonTakenInMEM)
                  \cup Under(InARowPrograms \cup JumpPrograms, FlushInMEM)
=============================================================================
