------------------------------ MODULE Microcode ------------------------------
(***************************************************************************)
(* The control words of the pipelined CPU (component/control_unit.cpp):    *)
(* the rows of the microcode matrix packed into words, the fields taken    *)
(* out of them again, and the masks with which each stage passes on the    *)
(* signals the next ones need.  Pipeline works with predicates on          *)
(* instructions instead (RegWrite, MemRead, ...); SignalsArrive relates    *)
(* the two.                                                                *)
(*                                                                         *)
(* A control word is the set of the bits that are 1 in it, so that the     *)
(* code's | is \cup and its & is \cap.                                     *)
(***************************************************************************)
EXTENDS Pipeline

X == -1

(* signal_t, with the bits each signal has in a control word.               *)
Signals == <<"PCWrite", "PCSrc", "IoD", "MemRead", "MemWrite", "IRWrite", "MemToReg",
             "RegBank", "RegDst", "RegWrite", "SelALUA", "SelALUB", "ALUSrc", "ALUOp",
             "Branch", "CtrlDir">>
SignalBits == <<0, 2, 0, 1, 1, 0, 2, 1, 2, 1, 0, 0, 1, 2, 1, 0>>

Matrix ==
  << <<X, 0, X, 0, 0, X, 1, 0, 1, 1, X, X, 0, 2, 0, X>>,   \* R type
     <<X, 3, X, 0, 0, X, 0, 0, 0, 0, X, X, 0, 0, 1, X>>,   \* j
     <<X, 2, X, 0, 0, X, 0, 0, 0, 0, X, X, 0, 0, 1, X>>,   \* jr
     <<X, 3, X, 0, 0, X, 2, 0, 2, 1, X, X, 0, 0, 1, X>>,   \* jal
     <<X, 2, X, 0, 0, X, 2, 0, 2, 1, X, X, 0, 0, 1, X>>,   \* jalr
     <<X, 1, X, 0, 0, X, 0, 0, 0, 0, X, X, 0, 1, 1, X>>,   \* bne, beq
     <<X, 0, X, 1, 0, X, 0, 0, 0, 1, X, X, 1, 0, 0, X>>,   \* lw
     <<X, 0, X, 0, 1, X, 0, 0, 0, 0, X, X, 1, 0, 0, X>>,   \* sw
     <<X, 0, X, 0, 0, X, 1, 0, 0, 1, X, X, 1, 2, 0, X>>,   \* I type
     <<X, 0, X, 0, 0, X, 1, 1, 1, 1, X, X, 0, 2, 0, X>>,   \* F type
     <<X, 0, X, 1, 0, X, 0, 1, 0, 1, X, X, 1, 0, 0, X>>,   \* lwc1
     <<X, 0, X, 0, 1, X, 0, 1, 0, 0, X, X, 1, 0, 0, X>>,   \* swc1
     <<X, 0, X, 0, 0, X, 0, 0, 0, 0, X, X, 0, 2, 0, X>>,   \* syscall
     <<X, 0, X, 0, 0, X, 0, 0, 1, 0, X, X, 0, 2, 0, X>> >> \* mult, div

(* The control directory, as far as the operations of Op need it: opcode,   *)
(* sub-opcode or Undef, and index of the row.  The first that fits counts.  *)
Undef == -1
RType == 0
Directory ==
  << <<RType, 8, 2>>, <<RType, 9, 4>>, <<RType, 12, 12>>, <<RType, 24, 13>>,
     <<RType, Undef, 0>>, <<2, Undef, 1>>, <<3, Undef, 3>>, <<4, Undef, 5>>,
     <<5, Undef, 5>>, <<35, Undef, 6>>, <<49, Undef, 10>>, <<43, Undef, 7>>,
     <<57, Undef, 11>>, <<17, 0, 9>>, <<17, Undef, 5>>, <<Undef, Undef, 8>> >>

(* An encoding of each operation: opcode and low six bits, which are those  *)
(* of a constant outside the R format.                                      *)
Encoding == [alu |-> <<RType, 32>>, mult |-> <<RType, 24>>, mfhi |-> <<RType, 16>>,
             alui |-> <<8, 12>>, lui |-> <<15, 0>>, lw |-> <<35, 12>>, sw |-> <<43, 8>>,
             lwc1 |-> <<49, 12>>, swc1 |-> <<57, 24>>, beq |-> <<4, 8>>, bne |-> <<5, 9>>,
             j |-> <<2, 12>>, jal |-> <<3, 8>>, jr |-> <<RType, 8>>,
             jalr |-> <<RType, 9>>, syscall |-> <<RType, 12>>, fp |-> <<17, 0>>]

-----------------------------------------------------------------------------
(* The bits of a number of at most two, and back.  What is not positive in  *)
(* the matrix counts as 0.                                                  *)
BitsOf(value) == IF value > 0 THEN << {0}, {1}, {0, 1} >>[value] ELSE {}
Number(bits) == CHOOSE value \in 0 .. 3 : BitsOf(value) = bits

(* Where a signal begins in a control word, and the bits it has there.      *)
Position[s \in DOMAIN SignalBits] ==
  IF s = 1 THEN 0 ELSE Position[s - 1] + SignalBits[s - 1]

SignalMask(s) == Position[s] .. Position[s] + SignalBits[s] - 1

Index(signal) == CHOOSE s \in DOMAIN Signals : Signals[s] = signal

(* build_microcode: a row becomes a word.                                   *)
Packed(row) ==
  UNION { { Position[s] + b : b \in BitsOf(row[s]) } :
            s \in { t \in DOMAIN row : SignalBits[t] # 0 } }

Test(word, signal) ==
  LET s == Index(signal)
  IN  Number({ b - Position[s] : b \in word \cap SignalMask(s) })

(* find_ctrl_dir_entry.                                                     *)
Fitting(code) ==
  { e \in DOMAIN Directory : /\ Directory[e][1] \in {code[1], Undef}
                             /\ Directory[e][2] \in {code[2], Undef} }
Entry(code) == CHOOSE e \in Fitting(code) : \A d \in Fitting(code) : e <= d

(* The control word stage_id finds; a nop has none.                         *)
ControlWord(op) == IF op = "nop" THEN {}
                    ELSE Packed(Matrix[Directory[Entry(Encoding[op])][3] + 1])

-----------------------------------------------------------------------------
(* signals_ID: those for WB, those for MEM, those for EX.                   *)
SignalsID == <<"MemToReg", "RegBank", "RegWrite", "MemRead", "MemWrite", "Branch",
               "PCSrc", "ALUSrc", "ALUOp", "RegDst">>

(* get_signal_bitmask, of the first so many of them.                        *)
Bitmask(count) == UNION { SignalMask(Index(SignalsID[k])) : k \in 1 .. count }

(* Error variant of Sigmask: MEM gets what only WB needs.                   *)
SigmaskShort(stage) == Bitmask(CASE stage = "EX" -> 10 [] OTHER -> 3)

(* The signals passed on to a stage.                                        *)
Sigmask(stage) ==
  Bitmask(CASE stage = "EX" -> 10 [] stage = "MEM" -> 7 [] stage = "WB" -> 3)

(* What is left of the control word of an operation in a stage.             *)
Arriving(op, stage) ==
  LET inEX == ControlWord(op) \cap Sigmask("EX")
      inMEM == inEX \cap Sigmask("MEM")
  IN  CASE stage = "EX" -> inEX
        [] stage = "MEM" -> inMEM
        [] stage = "WB" -> inMEM \cap Sigmask("WB")

(* The signals each stage tests, for itself or for the hazard and           *)
(* forwarding units, and what it finds.                                     *)
Tested == [EX |-> {"RegDst", "RegWrite", "RegBank", "MemRead", "ALUSrc", "ALUOp"},
           MEM |-> {"Branch", "MemRead", "MemWrite", "RegWrite", "RegBank"},
           WB |-> {"MemToReg", "RegWrite", "RegBank"}]

Found == [stage \in DOMAIN Tested |->
            [op \in Op |-> [signal \in Tested[stage] |-> Test(Arriving(op, stage), signal)]]]

-----------------------------------------------------------------------------
InStage == [EX |-> idex.i, MEM |-> exmem.i, WB |-> memwb.i]

Bit(b) == IF b THEN 1 ELSE 0

(* What a signal that is found says of an instruction.                      *)
Agrees(signal, value, i) ==
  CASE signal = "RegWrite" -> value = Bit(RegWrite(i))
    [] signal = "RegBank"  -> value = Bit(FpBank(i))
    [] signal = "MemRead"  -> value = Bit(MemRead(i))
    [] signal = "MemWrite" -> value = Bit(MemWrite(i))
    [] signal = "Branch"   -> value = Bit(Branch(i))
    [] signal = "ALUSrc"   -> value = Bit(AluSrc(i))
    [] signal = "ALUOp"    -> (value = 1) = Conditional(i)
    [] signal = "RegDst"   -> value = (IF RegDstRd(i) THEN 1 ELSE IF Link(i) THEN 2 ELSE 0)
    [] signal = "MemToReg" -> RegWrite(i) =>
                                value = (IF MemRead(i) THEN 0 ELSE IF Link(i) THEN 2 ELSE 1)

(* An instruction in a stage is treated as what it is: every signal that is *)
(* tested there has come through the packing, the directory, which looks at *)
(* bits that another format uses for constants, and the masks of the stages *)
(* before.                                                                  *)
SignalsArrive ==
  \A stage \in DOMAIN Tested : \A signal \in Tested[stage] :
    Agrees(signal, Found[stage][InStage[stage].op][signal], InStage[stage])
==============================================================================
