---------------------------- MODULE MCPipelineRun ----------------------------
(* Programs that count down, do something in between and call the exit      *)
(* service, the shape of those under testdata/.                             *)
EXTENDS MCPipeline

Body == {Nop, Sw(1, 13, 0), Lw(3, 12, 0), Add(3, 3, 1), Lwc1(1, 12, 0), Mult(1, 3),
         Beq(1, 3, 0), Syscall}
Skip == Bne(1, 3, 1)

Countdown(x, y, z) == <<Li(1, 2), Li(2, 1), x, y, Addi(1, 1, -1 % WordSize), z,
                        Bne(1, 0, -5), Li(2, 10), Syscall>>

MCPrograms == { Text(Countdown(x, y, z)) : x \in Body \cup {Skip}, y \in Body,
                                         z \in Body \cup {Skip} }

MCStatuses == { Config("non_taken", stage, fu, TRUE) : stage \in BranchStage,
                                                      fu \in BOOLEAN }
              \cup { Config("flush", "ID", fu, TRUE) : fu \in BOOLEAN }

MCSetups == Under(MCPrograms, MCStatuses)
=============================================================================
