---------------------------- MODULE MCPipelineAny ----------------------------
(* Every configuration, changed at any moment, with every kind of           *)
(* instruction: what must hold whatever the user does.                      *)
EXTENDS MCPipeline, Microcode

Instrs == {Addi(1, 1, 1), Li(2, 5), Syscall, Lw(1, 12, 0), Jr(1), Jalr(1), Mfhi,
           Add(0, 1, 1), Fp, Bne(1, 0, -1)}

MCPrograms ==
  TextsOf(Instrs, 2)
    \cup { Text(code) : code \in { <<Beq(0, 0, 1), Syscall, J(2)>>,
                                   <<Beq(0, 0, 1), Mfhi, Syscall>>,
                                   <<Li(2, 5), Sw(2, 12, 0), Syscall>>,
                                   <<Lw(1, 7, 0), Syscall>>, <<Li(2, 4), Syscall>>,
                                   <<Mult(1, 1), Jal(1)>>,
                                   <<Lwc1(1, 12, 0), Swc1(1, 13, 0), I("lui", 0, 0, 1, 5)>> } }

MCStatuses == {Config("non_taken", "ID", TRUE, TRUE), Config("delayed", "MEM", FALSE, FALSE),
               [Config("flush", "ID", TRUE, TRUE) EXCEPT !.asserts = TRUE]}

MCSetups == Under(MCPrograms, MCStatuses)
=============================================================================
