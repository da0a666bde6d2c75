------------------------- MODULE MCPipelineInterlock -------------------------
(* Dependent instructions, and jumps to and fro, under every configuration  *)
(* with a hazard detection unit, going on after a cycle that threw.         *)
EXTENDS MCPipeline, Diagram

MCDependent ==
  TextsOf({Addi(1, 1, 1), Add(2, 1, 2), Lw(1, 12, 0), Sw(1, 13, 0),
           Lwc1(1, 12, 0), Swc1(1, 13, 0), Beq(1, 2, 1), Syscall, Mfhi, Jr(2)}, 3)

MCJumping ==
  TextsOf({Addi(1, 1, 1), J(1), J(2), J(3), Beq(0, 0, 0), Beq(0, 0, -1), Bne(0, 1, 1)}, 3)

MCPrograms == MCDependent \cup MCJumping

MCStatuses == [type : BranchType, stage : BranchStage, fu : BOOLEAN, hdu : {TRUE},
               asserts : {FALSE}]

MCSetups == Under(MCPrograms, MCStatuses)
=============================================================================
