--------------------------- MODULE RefinementProofs ---------------------------
(***************************************************************************)
(* The pipeline implements the sequential machine, for every program, with *)
(* the hazard detection unit on.  The invariant says of the instructions   *)
(* in flight that each was fetched from where the one ahead of it leads,   *)
(* or is taken to lead until MEM decides, and that what EX computed is what*)
(* the sequential machine computes when the instruction takes effect.      *)
(***************************************************************************)
EXTENDS PipelineProofs

-----------------------------------------------------------------------------
(* The configurations and programs the theorem is about: a hazard detection *)
(* unit, no assertions, delayed branches only in ID, and no constant that   *)
(* makes an instruction pass for a service call.                            *)
Covered == /\ status.hdu /\ ~status.asserts
           /\ status.stage = "MEM" => status.type # "delayed"
           /\ \A a \in TextAddr : ~prog[a].low12

(* The instruction in the delay slot of a jal or jalr does not read $ra     *)
(* through the forwarding unit, which would give it the output of the ALU.  *)
LinkNotForwarded ==
  /\ status.fu /\ Link(exmem.i)
  /\ idex.i.op \notin {"nop", "lui", "syscall", "j", "jal"}
  => /\ RA # idex.i.rs
     /\ (ReadsRt(idex.i) => RA # idex.i.rt \/ idex.i.op = "swc1")

(* When MEM flushes the three registers behind it, it does so for a branch  *)
(* that was left to it, ID does not ask for a flush of its own, which would *)
(* take the place of MEM's.  Addresses that a branch reaches are not 0.     *)
ShadowQuiet ==
  MemFlush => /\ Conditional(exmem.i)
              /\ ~(IdBranch /\ (status.type = "flush" \/ ~Conditional(ifid.i)))
              /\ exmem.taken => exmem.target # 0

-----------------------------------------------------------------------------
(* The instructions of Isa are those of the pipeline.                       *)
LEMMA SameOperators ==
  /\ \A x, y : Sequential!Plus(x, y) = Plus(x, y)
  /\ Sequential!TextAddr = TextAddr
  /\ \A g : Sequential!Answered(g) <=> Answered(g)
  /\ Sequential!Instr = Instr
  /\ \A i, x, y : /\ Sequential!AluOutput(i, x, y) = AluOutput(i, x, y)
                  /\ Sequential!Taken(i, x, y) <=> Taken(i, x, y)
  /\ \A i : /\ Sequential!MemRead(i) <=> i.op \in {"lw", "lwc1"}
            /\ Sequential!MemWrite(i) <=> i.op \in {"sw", "swc1"}
            /\ Sequential!FpBank(i) <=> i.op \in {"lwc1", "swc1"}
            /\ Sequential!Link(i) <=> i.op \in {"jal", "jalr"}
            /\ Sequential!Conditional(i) <=> i.op \in {"beq", "bne"}
            /\ Sequential!RegDest(i) = RegDest(i)
<1>1. /\ \A x, y : Sequential!Plus(x, y) = Plus(x, y)
      /\ \A x, y : Sequential!Minus(x, y) = Minus(x, y)
      /\ Sequential!TextAddr = TextAddr /\ Sequential!Word = Word
      /\ \A g : Sequential!Answered(g) <=> Answered(g)
  BY DEF Sequential!Plus, Plus, Sequential!Minus, Minus, Sequential!TextAddr, TextAddr,
         Sequential!Word, Word, Sequential!Services, Services, Sequential!Answered, Answered
<1>2. Sequential!Instr = Instr
  BY <1>1 DEF Sequential!Instr, Instr, Sequential!Op, Op
<1>3. \A i, x, y : /\ Sequential!AluOutput(i, x, y) = AluOutput(i, x, y)
                   /\ Sequential!Taken(i, x, y) <=> Taken(i, x, y)
  BY <1>1 DEF Sequential!AluOutput, AluOutput, Sequential!Conditional, Conditional,
              Sequential!AluSrc, AluSrc, Sequential!Taken, Taken
<1>4. \A i : /\ Sequential!MemRead(i) <=> i.op \in {"lw", "lwc1"}
             /\ Sequential!MemWrite(i) <=> i.op \in {"sw", "swc1"}
             /\ Sequential!FpBank(i) <=> i.op \in {"lwc1", "swc1"}
             /\ Sequential!Link(i) <=> i.op \in {"jal", "jalr"}
             /\ Sequential!Conditional(i) <=> i.op \in {"beq", "bne"}
             /\ Sequential!RegDest(i) = RegDest(i)
  BY DEF Sequential!MemRead, Sequential!MemWrite, Sequential!FpBank, Sequential!Link,
         Sequential!Conditional, Sequential!RegDest, RegDest, Sequential!RegDstRd, RegDstRd, Link
<1> QED BY <1>1, <1>2, <1>3, <1>4

LEMMA SameText ==
  \A text, p : /\ Sequential!NextNonzero(text, p) = NextNonzero(text, p)
               /\ Sequential!InstructionAt(text, p) = InstructionAt(text, p)
<1>1. \A text, p : Sequential!NextNonzero(text, p) = NextNonzero(text, p)
  BY DEF Sequential!NextNonzero, NextNonzero, Sequential!TextAddr, TextAddr
<1>2. \A text, p : Sequential!InstructionAt(text, p) = InstructionAt(text, p)
  BY DEF Sequential!InstructionAt, InstructionAt, Sequential!TextAddr, TextAddr,
         Sequential!Nop, Nop
<1> QED BY <1>1, <1>2

-----------------------------------------------------------------------------
(* The instruction the sequential machine comes to at p, with the address   *)
(* next to it, and what a segmentation register holds of one.               *)
At(p) == [i  |-> InstructionAt(prog, NextNonzero(prog, p)),
          pc |-> NextNonzero(prog, p) + 1]

Held(seg) == [i |-> seg.i, pc |-> seg.pc]

(* The oldest instruction in ID or not fetched yet, and in EX or behind it. *)
FromID == IF ifid.i.op # "nop" THEN Held(ifid) ELSE At(pc)
FromEX == IF idex.i.op # "nop" THEN Held(idex) ELSE FromID

(* Where the sequential machine goes behind instruction i, which finds next *)
(* as the address next to it and a and b in its registers.                  *)
Goes(i, a, b) == Branch(i) /\ (Conditional(i) => Taken(i, a, b))

Target(i, next, a) == CASE Conditional(i)          -> Plus(next, i.imm)
                        [] i.op \in {"jr", "jalr"} -> a
                        [] OTHER                   -> i.imm

InSlot(next) == status.type = "delayed" /\ InstructionAt(prog, next).op # "nop"

NextOf(i, next, a, b) ==
  IF ~Goes(i, a, b) THEN At(next)
  ELSE IF InSlot(next) THEN [i |-> prog[next], pc |-> Target(i, next, a)]
  ELSE At(IF status.type = "delayed" /\ next \notin TextAddr THEN next
          ELSE Target(i, next, a))

(* Behind a branch left to MEM the pipeline fetches what is next to it.     *)
Leads(i, next, a, b) ==
  IF Conditional(i) /\ status.stage = "MEM" THEN At(next) ELSE NextOf(i, next, a, b)

(* The registers as the instructions that have left MEM leave them.         *)
Gpr == Architectural(gpr, FALSE)
Fpr == Architectural(fpr, TRUE)

(* The instruction in ID is followed by the PC.                             *)
Fetched ==
  /\ flush = 0 /\ nextPc = 0
  /\ ~ifid.i.low12 /\ ~idex.i.low12
  /\ ifid.i.op # "nop" => pc = ifid.pc

(* The instruction in EX has what the registers hold; a jump through a      *)
(* register, which has been resolved, waited for whoever writes it.  What   *)
(* is behind it was fetched from where it goes.                             *)
Decoded ==
  idex.i.op # "nop" =>
    /\ idex.i.op # "fp"
    /\ idex.a = gpr[idex.i.rs]
    /\ idex.b = IF FpBank(idex.i) THEN fpr[idex.i.rt] ELSE gpr[idex.i.rt]
    /\ idex.i.op \in {"jr", "jalr"} =>
         ~Writes(exmem.i, idex.i.rs, FALSE) /\ ~Writes(memwb.i, idex.i.rs, FALSE)
    /\ FromID = Leads(idex.i, idex.pc, idex.a, idex.b)

(* What EX left for MEM is what the instruction computes from the registers *)
(* its predecessors leave.                                                  *)
UsesAlu(i) == i.op \in {"alu", "alui", "lui", "lw", "sw", "lwc1", "swc1"}

Executed ==
  exmem.i.op \notin {"nop", "syscall"} =>
    /\ exmem.i.op \notin {"fp", "mfhi"}
    /\ UsesAlu(exmem.i) =>
         exmem.alu = AluOutput(exmem.i, Gpr[exmem.i.rs], Gpr[exmem.i.rt])
    /\ MemWrite(exmem.i) =>
         exmem.b = IF FpBank(exmem.i) THEN Fpr[exmem.i.rt] ELSE Gpr[exmem.i.rt]
    /\ Conditional(exmem.i) =>
         /\ exmem.taken <=> Taken(exmem.i, Gpr[exmem.i.rs], Gpr[exmem.i.rt])
         /\ exmem.target = Plus(exmem.pc, exmem.i.imm)
    /\ FromEX = Leads(exmem.i, exmem.pc, Gpr[exmem.i.rs], Gpr[exmem.i.rt])

(* Behind a jal or jalr that is not delayed there is nothing in flight.     *)
SlotFlushed ==
  status.type # "delayed" => /\ Link(idex.i) => ifid.i.op = "nop"
                             /\ Link(exmem.i) => idex.i.op = "nop"

InFlight ==
  thrown = "none" => Fetched /\ Decoded /\ Executed /\ SlotFlushed

RefinementInv == TypeOK /\ SyscallAlone /\ OperandsReady /\ Placed /\ Covered /\ InFlight

-----------------------------------------------------------------------------
(* Sequential steps, told of the pipeline's state.                          *)
LEMMA GotoAt ==
  ASSUME NEW p, Pending.i' = At(p).i, Pending.pc' = At(p).pc
  PROVE  Sequential!Goto(p)
BY SameText DEF Sequential!Goto, At

LEMMA ToNextOf ==
  ASSUME NEW i, NEW next, NEW a, NEW b, Pending.pc = next,
         Goes(i, a, b),
         Pending.i' = NextOf(i, next, a, b).i, Pending.pc' = NextOf(i, next, a, b).pc
  PROVE  Sequential!BranchTo(Target(i, next, a))
<1>1. CASE InSlot(next)
  BY <1>1, SameText DEF NextOf, InSlot, Sequential!BranchTo
<1>2. CASE ~InSlot(next)
  <2> DEFINE p == IF status.type = "delayed" /\ next \notin TextAddr THEN next
                  ELSE Target(i, next, a)
  <2>1. Sequential!Goto(p)
    BY <1>2, GotoAt DEF NextOf
  <2> QED BY <1>2, <2>1, SameText, SameOperators DEF InSlot, Sequential!BranchTo
<1> QED BY <1>1, <1>2

-----------------------------------------------------------------------------
(* An instruction takes effect when it leaves MEM: the registers and the    *)
(* memory become what it writes, and the one behind it is next.             *)
Retires ==
  /\ exmem.i.op \notin {"nop", "syscall"} /\ ~Faulty(exmem.i)
  /\ ~WbThrows /\ ~MemThrows /\ ready
  /\ prog' = prog /\ status' = status /\ ready' = ready
  /\ mem' = memMEM
  /\ Gpr' = WriteBack(Gpr, memwbNext, FALSE) /\ Fpr' = WriteBack(Fpr, memwbNext, TRUE)
  /\ LET behind == NextOf(exmem.i, exmem.pc, Gpr[exmem.i.rs], Gpr[exmem.i.rt])
     IN  Pending.i' = behind.i /\ Pending.pc' = behind.pc

LEMMA Registers ==
  ASSUME thrown = "none"
  PROVE  /\ Gpr = WriteBack(gpr, memwb, FALSE) /\ Fpr = WriteBack(fpr, memwb, TRUE)
         /\ ~WbThrows => Gpr = gprWB /\ Fpr = fprWB
<1>1. Gpr = WriteBack(gpr, memwb, FALSE) /\ Fpr = WriteBack(fpr, memwb, TRUE)
  BY DEF Gpr, Fpr, Architectural, RetiredInMEM, MemDone
<1>2. ~WbThrows => ~Faulty(memwb.i)
  BY DEF WbThrows, Faulty
<1> QED BY <1>1, <1>2 DEF WriteBack, gprWB, fprWB, WbValue, FpBank

LEMMA Current ==
  ASSUME thrown = "none", ~WbThrows, exmem.i.op \notin {"nop", "syscall"}
  PROVE  Pending = exmem
<1>1. ~RetiredInMEM /\ ~Faulty(memwb.i)
  BY DEF RetiredInMEM, MemDone, WbThrows, Faulty
<1> QED BY <1>1 DEF Pending

LEMMA RegisterTypes ==
  ASSUME TypeOK, thrown = "none", ~WbThrows
  PROVE  Gpr \in [Reg -> Word] /\ Fpr \in [Reg -> Word]
  BY Registers, WriteBackTypes

LEMMA RetireUnchanged ==
  ASSUME Retires
  PROVE  UNCHANGED <<prog, status.type = "delayed", ready>>
  BY DEF Retires

(* What the instruction writes.                                             *)
LEMMA RetireWrites ==
  ASSUME Retires
  PROVE  /\ RegWrite(exmem.i) /\ ~FpBank(exmem.i) =>
              /\ RegDest(exmem.i) # 0 /\ Fpr' = Fpr
              /\ Gpr' = [Gpr EXCEPT ![RegDest(exmem.i)] =
                           CASE Link(exmem.i)    -> exmem.pc
                             [] MemRead(exmem.i) -> mem[exmem.alu]
                             [] OTHER            -> exmem.alu]
         /\ RegWrite(exmem.i) /\ FpBank(exmem.i) =>
              /\ Gpr' = Gpr
              /\ Fpr' = [Fpr EXCEPT ![exmem.i.rt] = mem[exmem.alu]]
         /\ ~RegWrite(exmem.i) => Gpr' = Gpr /\ Fpr' = Fpr
<1>1. /\ memwbNext.i = exmem.i /\ memwbNext.pc = exmem.pc /\ memwbNext.alu = exmem.alu
      /\ MemRead(exmem.i) => memwbNext.word = mem[exmem.alu]
  BY DEF memwbNext
<1>2. Gpr' = WriteBack(Gpr, memwbNext, FALSE) /\ Fpr' = WriteBack(Fpr, memwbNext, TRUE)
  BY DEF Retires
<1>3. ~Faulty(exmem.i)
  BY DEF Retires
<1>4. ASSUME RegWrite(exmem.i), ~FpBank(exmem.i)
      PROVE  /\ RegDest(exmem.i) # 0 /\ Fpr' = Fpr
             /\ Gpr' = [Gpr EXCEPT ![RegDest(exmem.i)] =
                           CASE Link(exmem.i)    -> exmem.pc
                             [] MemRead(exmem.i) -> mem[exmem.alu]
                             [] OTHER            -> exmem.alu]
  <2>1. /\ Gpr' = [Gpr EXCEPT ![RegDest(exmem.i)] =
                     CASE Link(exmem.i)    -> memwbNext.pc
                       [] MemRead(exmem.i) -> memwbNext.word
                       [] OTHER            -> memwbNext.alu]
        /\ Fpr' = Fpr
    BY <1>1, <1>2, <1>3, <1>4 DEF WriteBack, FpBank
  <2>2. CASE Link(exmem.i)
    BY <1>1, <1>3, <1>4, <2>1, <2>2 DEF Faulty
  <2>3. CASE ~Link(exmem.i) /\ MemRead(exmem.i)
    BY <1>1, <1>3, <1>4, <2>1, <2>3 DEF Faulty
  <2>4. CASE ~Link(exmem.i) /\ ~MemRead(exmem.i)
    BY <1>1, <1>3, <1>4, <2>1, <2>4 DEF Faulty
  <2> QED BY <2>2, <2>3, <2>4
<1>5. ASSUME RegWrite(exmem.i), FpBank(exmem.i)
      PROVE  Gpr' = Gpr /\ Fpr' = [Fpr EXCEPT ![exmem.i.rt] = mem[exmem.alu]]
  <2>1. MemRead(exmem.i) /\ ~Link(exmem.i) /\ RegDest(exmem.i) = exmem.i.rt
    BY <1>5 DEF RegWrite, FpBank, MemRead, Link, RegDest, RegDstRd
  <2> QED BY <1>1, <1>2, <1>3, <1>5, <2>1 DEF WriteBack, FpBank
<1>6. ASSUME ~RegWrite(exmem.i) PROVE Gpr' = Gpr /\ Fpr' = Fpr
  BY <1>1, <1>2, <1>6 DEF WriteBack
<1> QED BY <1>4, <1>5, <1>6

(* Behind an instruction that is no branch comes the next address.          *)
LEMMA RetireGoes ==
  ASSUME RefinementInv, thrown = "none", Retires,
         ~Goes(exmem.i, Gpr[exmem.i.rs], Gpr[exmem.i.rt])
  PROVE  Sequential!Goto(Pending.pc)
<1>1. Pending = exmem
  BY Current DEF Retires
<1> QED BY <1>1, GotoAt DEF Retires, NextOf

LEMMA RetireCompute ==
  ASSUME RefinementInv, thrown = "none", Retires, exmem.i.op \in {"alu", "alui", "lui"}
  PROVE  Sequential!Compute
<1>1. Pending = exmem
  BY Current DEF Retires
<1>2. RegWrite(exmem.i) /\ ~FpBank(exmem.i) /\ ~Link(exmem.i) /\ ~MemRead(exmem.i)
      /\ ~MemWrite(exmem.i) /\ ~Branch(exmem.i) /\ UsesAlu(exmem.i)
  BY DEF RegWrite, FpBank, Link, MemRead, MemWrite, Branch, UsesAlu
<1>3. exmem.alu = AluOutput(exmem.i, Gpr[exmem.i.rs], Gpr[exmem.i.rt])
  BY <1>2 DEF RefinementInv, InFlight, Executed, Retires
<1>4. /\ RegDest(exmem.i) # 0 /\ Fpr' = Fpr
      /\ Gpr' = [Gpr EXCEPT ![RegDest(exmem.i)] = exmem.alu]
  BY <1>2, RetireWrites
<1>5. Sequential!Goto(Pending.pc)
  BY <1>2, RetireGoes DEF Goes
<1>6. mem' = mem
  BY <1>2 DEF Retires, memMEM
<1> QED BY <1>1, <1>3, <1>4, <1>5, <1>6, SameOperators, RetireUnchanged
        DEF Sequential!Compute, Sequential!SetGpr, Gpr, Fpr

LEMMA RetireMultiply ==
  ASSUME RefinementInv, thrown = "none", Retires, exmem.i.op = "mult"
  PROVE  Sequential!Multiply
<1>1. Pending = exmem
  BY Current DEF Retires
<1>2. ~RegWrite(exmem.i) /\ ~MemWrite(exmem.i) /\ ~Branch(exmem.i)
  BY DEF RegWrite, MemWrite, Branch
<1>3. Gpr' = Gpr /\ Fpr' = Fpr
  BY <1>2, RetireWrites
<1>4. Sequential!Goto(Pending.pc)
  BY <1>2, RetireGoes DEF Goes
<1>5. mem' = mem
  BY <1>2 DEF Retires, memMEM
<1> QED BY <1>1, <1>3, <1>4, <1>5, RetireUnchanged DEF Sequential!Multiply, Gpr, Fpr

LEMMA RetireAddress ==
  ASSUME RefinementInv, thrown = "none", Retires,
         exmem.i.op \in {"lw", "sw", "lwc1", "swc1"}
  PROVE  /\ exmem.alu = Sequential!Address /\ exmem.alu \in DataAddr
         /\ Sequential!Goto(Pending.pc)
<1>1. Pending = exmem
  BY Current DEF Retires
<1>2. exmem.alu = Plus(Gpr[exmem.i.rs], exmem.i.imm)
  <2>1. exmem.alu = AluOutput(exmem.i, Gpr[exmem.i.rs], Gpr[exmem.i.rt])
    BY DEF RefinementInv, InFlight, Executed, Retires, UsesAlu
  <2> QED BY <2>1 DEF AluOutput, AluSrc, Conditional
<1>3. Sequential!Address = Plus(Gpr[exmem.i.rs], exmem.i.imm)
  BY <1>1, SameOperators DEF Sequential!Address, Gpr
<1>4. exmem.alu \in DataAddr
  BY DEF Retires, MemThrows, MemRead, MemWrite
<1>5. Sequential!Goto(Pending.pc)
  BY RetireGoes DEF Goes, Branch
<1> QED BY <1>2, <1>3, <1>4, <1>5

LEMMA RetireLoad ==
  ASSUME RefinementInv, thrown = "none", Retires, exmem.i.op \in {"lw", "lwc1"}
  PROVE  Sequential!Load
<1>1. Pending = exmem
  BY Current DEF Retires
<1>2. /\ RegWrite(exmem.i) /\ MemRead(exmem.i) /\ ~MemWrite(exmem.i) /\ ~Link(exmem.i)
      /\ RegDest(exmem.i) = exmem.i.rt /\ (FpBank(exmem.i) <=> exmem.i.op = "lwc1")
  BY DEF RegWrite, MemRead, MemWrite, Link, RegDest, RegDstRd, FpBank
<1>3. mem' = mem
  BY <1>2 DEF Retires, memMEM
<1>4. CASE exmem.i.op = "lw"
  <2>1. /\ exmem.i.rt # 0 /\ Fpr' = Fpr
        /\ Gpr' = [Gpr EXCEPT ![exmem.i.rt] = mem[exmem.alu]]
    BY <1>2, <1>4, RetireWrites
  <2> QED BY <1>1, <1>3, <1>4, <2>1, RetireAddress, RetireUnchanged, SameOperators
          DEF Sequential!Load, Sequential!SetGpr, Gpr, Fpr
<1>5. CASE exmem.i.op = "lwc1"
  <2>1. /\ Gpr' = Gpr /\ Fpr' = [Fpr EXCEPT ![exmem.i.rt] = mem[exmem.alu]]
    BY <1>2, <1>5, RetireWrites
  <2> QED BY <1>1, <1>3, <1>5, <2>1, RetireAddress, RetireUnchanged, SameOperators
          DEF Sequential!Load, Gpr, Fpr
<1> QED BY <1>4, <1>5

LEMMA RetireStore ==
  ASSUME RefinementInv, thrown = "none", Retires, exmem.i.op \in {"sw", "swc1"}
  PROVE  Sequential!Store
<1>1. Pending = exmem
  BY Current DEF Retires
<1>2. MemWrite(exmem.i) /\ ~RegWrite(exmem.i) /\ (FpBank(exmem.i) <=> exmem.i.op = "swc1")
  BY DEF MemWrite, RegWrite, FpBank
<1>3. Gpr' = Gpr /\ Fpr' = Fpr
  BY <1>2, RetireWrites
<1>4. mem' = [mem EXCEPT ![exmem.alu] = exmem.b]
  BY <1>2 DEF Retires, memMEM
<1>5. exmem.b = IF FpBank(exmem.i) THEN Fpr[exmem.i.rt] ELSE Gpr[exmem.i.rt]
  BY <1>2 DEF RefinementInv, InFlight, Executed, Retires
<1>6. CASE exmem.i.op = "sw"
  <2>1. mem' = [mem EXCEPT ![exmem.alu] = Gpr[exmem.i.rt]]
    BY <1>2, <1>4, <1>5, <1>6
  <2> QED BY <1>1, <1>3, <1>6, <2>1, RetireAddress, RetireUnchanged, SameOperators
          DEF Sequential!Store, Gpr, Fpr
<1>7. CASE exmem.i.op = "swc1"
  <2>1. mem' = [mem EXCEPT ![exmem.alu] = Fpr[exmem.i.rt]]
    BY <1>2, <1>4, <1>5, <1>7
  <2> QED BY <1>1, <1>3, <1>7, <2>1, RetireAddress, RetireUnchanged, SameOperators
          DEF Sequential!Store, Gpr, Fpr
<1> QED BY <1>6, <1>7

(* A branch goes where its operands send it.                                *)
LEMMA RetireBranches ==
  ASSUME RefinementInv, thrown = "none", Retires,
         Goes(exmem.i, Gpr[exmem.i.rs], Gpr[exmem.i.rt])
  PROVE  Sequential!BranchTo(Target(exmem.i, exmem.pc, Gpr[exmem.i.rs]))
<1>1. Pending = exmem
  BY Current DEF Retires
<1> QED BY <1>1, ToNextOf DEF Retires

LEMMA RetireCondBranch ==
  ASSUME RefinementInv, thrown = "none", Retires, exmem.i.op \in {"beq", "bne"}
  PROVE  Sequential!CondBranch
<1>1. Pending = exmem
  BY Current DEF Retires
<1>2. ~RegWrite(exmem.i) /\ ~MemWrite(exmem.i) /\ Branch(exmem.i) /\ Conditional(exmem.i)
  BY DEF RegWrite, MemWrite, Branch, Conditional
<1>3. Gpr' = Gpr /\ Fpr' = Fpr /\ mem' = mem
  BY <1>2, RetireWrites DEF Retires, memMEM
<1>4. CASE Taken(exmem.i, Gpr[exmem.i.rs], Gpr[exmem.i.rt])
  <2>1. Sequential!BranchTo(Plus(exmem.pc, exmem.i.imm))
    BY <1>2, <1>4, RetireBranches DEF Goes, Target
  <2> QED BY <1>1, <1>2, <1>3, <1>4, <2>1, RetireUnchanged, SameOperators
          DEF Sequential!CondBranch, Gpr, Fpr, Conditional
<1>5. CASE ~Taken(exmem.i, Gpr[exmem.i.rs], Gpr[exmem.i.rt])
  <2>1. Sequential!Goto(Pending.pc)
    BY <1>2, <1>5, RetireGoes DEF Goes
  <2> QED BY <1>1, <1>2, <1>3, <1>5, <2>1, RetireUnchanged, SameOperators
          DEF Sequential!CondBranch, Gpr, Fpr, Conditional
<1> QED BY <1>4, <1>5

LEMMA RetireJump ==
  ASSUME RefinementInv, thrown = "none", Retires, exmem.i.op \in {"j", "jal", "jr", "jalr"}
  PROVE  Sequential!Jump
<1>1. Pending = exmem
  BY Current DEF Retires
<1>2. /\ ~MemWrite(exmem.i) /\ ~MemRead(exmem.i) /\ Branch(exmem.i)
      /\ ~Conditional(exmem.i) /\ ~FpBank(exmem.i) /\ (RegWrite(exmem.i) <=> Link(exmem.i))
      /\ Link(exmem.i) => RegDest(exmem.i) = RA
  BY DEF RegWrite, MemWrite, MemRead, Branch, Conditional, FpBank, Link, RegDest, RegDstRd
<1>3. mem' = mem
  BY <1>2 DEF Retires, memMEM
<1>4. Sequential!BranchTo(IF exmem.i.op \in {"jr", "jalr"} THEN Gpr[exmem.i.rs]
                          ELSE exmem.i.imm)
  <2>1. Target(exmem.i, exmem.pc, Gpr[exmem.i.rs]) =
          IF exmem.i.op \in {"jr", "jalr"} THEN Gpr[exmem.i.rs] ELSE exmem.i.imm
    BY <1>2 DEF Target
  <2>2. Goes(exmem.i, Gpr[exmem.i.rs], Gpr[exmem.i.rt])
    BY <1>2 DEF Goes
  <2> QED BY <2>1, <2>2, RetireBranches
<1>5. CASE Link(exmem.i)
  <2>1. RA # 0 /\ Fpr' = Fpr /\ Gpr' = [Gpr EXCEPT ![RA] = exmem.pc]
    BY <1>2, <1>5, RetireWrites
  <2>2. exmem.i.op \in {"jal", "jalr"}
    BY <1>5 DEF Link
  <2> QED BY <1>1, <1>3, <1>4, <2>1, <2>2, RetireUnchanged, SameOperators
          DEF Sequential!Jump, Sequential!SetGpr, Gpr, Fpr
<1>6. CASE ~Link(exmem.i)
  <2>1. Gpr' = Gpr /\ Fpr' = Fpr
    BY <1>2, <1>6, RetireWrites
  <2>2. exmem.i.op \notin {"jal", "jalr"}
    BY <1>6 DEF Link
  <2> QED BY <1>1, <1>3, <1>4, <2>1, <2>2, RetireUnchanged, SameOperators
          DEF Sequential!Jump, Gpr, Fpr
<1> QED BY <1>5, <1>6

LEMMA RetireRefines ==
  ASSUME RefinementInv, thrown = "none", Retires
  PROVE  Sequential!Execute
<1>1. ready /\ exmem.i.op \in Op \ {"nop", "syscall", "fp", "mfhi"}
  BY DEF RefinementInv, TypeOK, ExMemReg, Instr, InFlight, Executed, Retires
<1>2. \/ Sequential!Compute \/ Sequential!Multiply \/ Sequential!Load \/ Sequential!Store
      \/ Sequential!CondBranch \/ Sequential!Jump
  BY <1>1, RetireCompute, RetireMultiply, RetireLoad, RetireStore, RetireCondBranch, RetireJump
  DEF Op
<1> QED BY <1>1, <1>2 DEF Sequential!Execute

-----------------------------------------------------------------------------
(* The front of the pipeline.  The sequential machine skips zero words.     *)
LEMMA NotSkipped ==
  ASSUME NEW p \in TextAddr, prog[p].op # "nop"
  PROVE  NextNonzero(prog, p) = p
<1> DEFINE First(q) == /\ q = TextEnd + 1 \/ prog[q].op # "nop"
                       /\ \A k \in p .. q - 1 : prog[k].op = "nop"
<1>1. p \in p .. TextEnd + 1 /\ p .. p - 1 = {}
  BY TextBounds DEF TextAddr
<1>2. \A q \in p .. TextEnd + 1 : q # p => p \in p .. q - 1
  BY TextBounds DEF TextAddr
<1>3. (CHOOSE q \in p .. TextEnd + 1 : First(q)) = p
  BY <1>1, <1>2
<1> QED BY <1>3 DEF NextNonzero

LEMMA Skipped ==
  ASSUME NEW p \in TextAddr, prog[p].op = "nop"
  PROVE  NextNonzero(prog, p) = NextNonzero(prog, p + 1)
<1> DEFINE First(q) == /\ q = TextEnd + 1 \/ prog[q].op # "nop"
                       /\ \A k \in p .. q - 1 : prog[k].op = "nop"
           Second(q) == /\ q = TextEnd + 1 \/ prog[q].op # "nop"
                        /\ \A k \in p + 1 .. q - 1 : prog[k].op = "nop"
<1>1. p \in Int /\ TextStart <= p /\ p <= TextEnd
  BY TextBounds DEF TextAddr
<1>2. ASSUME NEW q
      PROVE  (q \in p .. TextEnd + 1 /\ First(q)) <=> (q \in p + 1 .. TextEnd + 1 /\ Second(q))
  <2>1. First(q) => q # p
    BY <1>1, TextBounds
  <2>2. q \in p .. TextEnd + 1 /\ q # p <=> q \in p + 1 .. TextEnd + 1
    BY <1>1, TextBounds
  <2>3. q \in p + 1 .. TextEnd + 1 => p .. q - 1 = {p} \cup (p + 1 .. q - 1)
    BY <1>1, TextBounds
  <2>4. q \in p + 1 .. TextEnd + 1 => (First(q) <=> Second(q))
    BY <2>3
  <2> QED BY <2>1, <2>2, <2>4
<1>3. NextNonzero(prog, p) = CHOOSE q \in p .. TextEnd + 1 : First(q)
  BY DEF NextNonzero
<1>4. (CHOOSE q \in p .. TextEnd + 1 : First(q)) = CHOOSE q \in p + 1 .. TextEnd + 1 : Second(q)
  <2> HIDE DEF First, Second
  <2> QED BY <1>2, Zenon
<1>5. CASE p + 1 \in TextAddr
  BY <1>3, <1>4, <1>5 DEF NextNonzero
<1>6. CASE p + 1 \notin TextAddr
  <2>1. p = TextEnd
    BY <1>1, <1>6, TextBounds DEF TextAddr
  <2>2. p + 1 .. TextEnd + 1 = {p + 1} /\ p + 1 .. (p + 1) - 1 = {}
    BY <1>1, <2>1
  <2>3. (CHOOSE q \in p + 1 .. TextEnd + 1 : Second(q)) = p + 1
    BY <2>1, <2>2
  <2> QED BY <1>3, <1>4, <1>6, <2>3 DEF NextNonzero
<1> QED BY <1>5, <1>6

(* Fetching at the PC comes to where the sequential machine is.             *)
LEMMA FetchAt ==
  ASSUME NEW p \in TextAddr
  PROVE  /\ prog[p].op # "nop" => At(p) = [i |-> prog[p], pc |-> Plus(p, 1)]
         /\ prog[p].op = "nop" => At(p) = At(Plus(p, 1))
<1>1. Plus(p, 1) = p + 1
  BY TextBounds DEF Plus, TextAddr
<1> QED BY <1>1, NotSkipped, Skipped DEF At, InstructionAt

(* Unless MEM flushes it moves no PC.                                       *)
LEMMA MemIsQuiet ==
  ASSUME RefinementInv, thrown = "none", ~MemFlush
  PROVE  /\ flushMEM = 0 /\ nextPcMEM = 0 /\ pcMEM = pc
         /\ \A g : /\ flushID(g) = IF IdFlush(g) THEN 1 ELSE 0
                   /\ ~IdFlush(g) => pcID(g) = pc
<1>1. status.type \in {"non_taken", "flush", "delayed"}
  BY DEF RefinementInv, TypeOK, Status, BranchType
<1>2. ~(MemBranch /\ exmem.taken)
  BY <1>1 DEF RefinementInv, Covered, MemFlush, MemBranch
<1> QED BY <1>2 DEF RefinementInv, InFlight, Fetched, flushMEM, nextPcMEM, pcMEM, flushID, pcID

LEMMA Completes ==
  ASSUME Complete
  PROVE  /\ memwb' = memwbNext /\ pcID(gpr') \in TextAddr
         /\ thrown' = "none" /\ flush' = 0 /\ nextPc' = 0
         /\ prog' = prog /\ status' = status
  BY DEF Complete, Advance, Tick, IfThrows

LEMMA Advances ==
  ASSUME RefinementInv, thrown = "none", Complete, ~MemFlush
  PROVE  /\ exmem' = exmemNext /\ idex' = idexNext(gpr')
         /\ ifid' = IF IdFlush(gpr') THEN IfIdBubble ELSE ifidNext(gpr')
         /\ pc' = pcIF(gpr')
         /\ memwb' = memwbNext /\ pcID(gpr') \in TextAddr
         /\ thrown' = "none" /\ flush' = 0 /\ nextPc' = 0
         /\ prog' = prog /\ status' = status
  BY MemIsQuiet, Completes DEF Complete, Advance

LEMMA SameNext ==
  ASSUME prog' = prog, status' = status
  PROVE  /\ At(pc)' = At(pc')
         /\ Leads(idex.i, idex.pc, idex.a, idex.b)' =
              Leads(idex'.i, idex'.pc, idex'.a, idex'.b)
  BY DEF At, Leads, NextOf, InSlot

(* A stall holds ID back; what it has fetched is dropped.                   *)
LEMMA StallFront ==
  ASSUME RefinementInv, thrown = "none", Complete, ~MemFlush, Stall
  PROVE  /\ FromEX' = FromID /\ idex'.i.op = "nop"
         /\ ifid' = ifid /\ pc' = pc
<1>1. ~IdFlush(gpr')
  BY DEF IdFlush, IdBranch
<1>2. /\ idex' = IdExBubble /\ ifid' = ifid /\ pc' = pc
      /\ prog' = prog /\ status' = status
  BY <1>1, Advances, MemIsQuiet DEF idexNext, ifidNext, pcIF
<1>3. At(pc)' = At(pc)
  BY <1>2, SameNext
<1> QED BY <1>2, <1>3, BubbleOps DEF FromEX, FromID, Held

(* A zero word in ID is followed by what is fetched.                        *)
LEMMA ZeroFront ==
  ASSUME RefinementInv, thrown = "none", Complete, ~MemFlush, ~Stall, ifid.i.op = "nop"
  PROVE  FromEX' = FromID /\ idex'.i.op = "nop"
<1>1. ~IdFlush(gpr') /\ ~IdTaken(gpr')
  BY DEF IdFlush, IdTaken, IdBranch, Branch
<1>2. /\ idex'.i = ifid.i /\ ifid' = [i |-> prog[pc], pc |-> Plus(pc, 1)]
      /\ pc' = Plus(pc, 1) /\ pc \in TextAddr /\ prog' = prog /\ status' = status
  BY <1>1, Advances, MemIsQuiet DEF idexNext, ifidNext, pcIF
<1>3. At(pc)' = At(Plus(pc, 1))
  BY <1>2, SameNext
<1>4. FromEX' = IF prog[pc].op # "nop" THEN [i |-> prog[pc], pc |-> Plus(pc, 1)]
                ELSE At(Plus(pc, 1))
  BY <1>2, <1>3 DEF FromEX, FromID, Held
<1> QED BY <1>2, <1>4, FetchAt DEF FromID

(* An instruction leaves ID, and the next one comes from where it goes.     *)
LEMMA DecodeFront ==
  ASSUME RefinementInv, thrown = "none", Complete, ~MemFlush, ~Stall, ifid.i.op # "nop"
  PROVE  /\ FromEX' = FromID
         /\ FromID' = Leads(idex'.i, idex'.pc, idex'.a, idex'.b)
<1> DEFINE g == gpr'
           a == g[ifid.i.rs]
           b == IF FpBank(ifid.i) THEN fprWB[ifid.i.rt] ELSE g[ifid.i.rt]
<1>1. /\ idex' = [i |-> ifid.i, pc |-> ifid.pc, a |-> a, b |-> b]
      /\ ifid' = IF IdFlush(g) THEN IfIdBubble ELSE [i |-> prog[pcID(g)], pc |-> pcIF(g)]
      /\ pc' = IF IdTaken(g) THEN IdTarget(g) ELSE Plus(pcID(g), 1)
      /\ pc' = pcIF(g) /\ pcID(g) \in TextAddr /\ prog' = prog /\ status' = status
  BY Advances DEF idexNext, ifidNext, pcIF
<1>2. pc = ifid.pc /\ ifid.pc \in Word /\ status.stage \in {"ID", "MEM"}
      /\ status.type \in {"flush", "non_taken", "delayed"}
  BY DEF RefinementInv, InFlight, Fetched, TypeOK, IfIdReg, Status, BranchType, BranchStage
<1>3. IdTaken(g) <=> /\ Goes(ifid.i, a, b)
                     /\ ~(Conditional(ifid.i) /\ status.stage = "MEM")
  <2>1. Conditional(ifid.i) => b = g[ifid.i.rt]
    BY DEF Conditional, FpBank
  <2> QED BY <1>2, <2>1 DEF IdTaken, IdBranch, Goes
<1>4. IdTarget(g) = Target(ifid.i, ifid.pc, a)
  BY DEF IdTarget, Target
<1>5. At(pc)' = At(pc')
  BY <1>1, SameNext
<1>6. FromEX' = FromID
  BY <1>1 DEF FromEX, FromID, Held
<1> HIDE DEF a, b, g
<1> SUFFICES FromID' = Leads(ifid.i, ifid.pc, a, b)
  BY <1>1, <1>6
<1>7. CASE ~IdTaken(g) /\ ~IdFlush(g)
  <2>1. pcID(g) = pc
    BY <1>7, MemIsQuiet
  <2>2. FromID' = IF prog[pc].op # "nop" THEN [i |-> prog[pc], pc |-> Plus(pc, 1)]
                  ELSE At(Plus(pc, 1))
    BY <1>1, <1>5, <1>7, <2>1 DEF FromID, Held
  <2>3. FromID' = At(ifid.pc)
    BY <1>1, <1>2, <2>1, <2>2, FetchAt
  <2> QED BY <1>1, <1>3, <1>7, <2>3 DEF Leads, NextOf
<1>8. CASE ~IdTaken(g) /\ IdFlush(g)
  <2>1. pcID(g) = Minus(ifid.pc, 1)
    BY <1>8 DEF pcID
  <2>2. pc' = ifid.pc
    BY <1>1, <1>2, <1>8, <2>1, BackAndForth
  <2>3. FromID' = At(ifid.pc)
    BY <1>1, <1>5, <1>8, <2>2, BubbleOps DEF FromID
  <2> QED BY <1>1, <1>3, <1>8, <2>3 DEF Leads, NextOf
<1>9. CASE IdTaken(g) /\ status.type # "delayed"
  <2>1. IdFlush(g)
    BY <1>2, <1>9 DEF IdFlush, IdTaken
  <2>2. FromID' = At(Target(ifid.i, ifid.pc, a))
    BY <1>1, <1>4, <1>5, <1>9, <2>1, BubbleOps DEF FromID
  <2> QED BY <1>1, <1>3, <1>9, <2>2 DEF Leads, NextOf, InSlot
<1>10. CASE IdTaken(g) /\ status.type = "delayed"
  <2>1. ~IdFlush(g)
    BY <1>10 DEF IdFlush
  <2>2. pcID(g) = pc
    BY <2>1, MemIsQuiet
  <2>3. /\ ifid' = [i |-> prog[pc], pc |-> Target(ifid.i, ifid.pc, a)]
        /\ pc' = Target(ifid.i, ifid.pc, a)
    BY <1>1, <1>4, <1>10, <2>1, <2>2
  <2>4. ifid.pc \in TextAddr /\ InstructionAt(prog, ifid.pc) = prog[pc]
    BY <1>1, <1>2, <2>2 DEF InstructionAt
  <2>5. FromID' = IF prog[pc].op # "nop" THEN [i |-> prog[pc], pc |-> Target(ifid.i, ifid.pc, a)]
                  ELSE At(Target(ifid.i, ifid.pc, a))
    BY <1>5, <2>3 DEF FromID, Held
  <2> QED BY <1>1, <1>2, <1>3, <1>10, <2>4, <2>5 DEF Leads, NextOf, InSlot
<1> QED BY <1>7, <1>8, <1>9, <1>10

LEMMA FrontMoves ==
  ASSUME RefinementInv, thrown = "none", Complete, ~MemFlush
  PROVE  /\ FromEX' = FromID
         /\ idex'.i.op # "nop" => FromID' = Leads(idex'.i, idex'.pc, idex'.a, idex'.b)
  BY StallFront, ZeroFront, DecodeFront

LEMMA FetchedKept ==
  ASSUME RefinementInv, thrown = "none", Complete, ~MemFlush
  PROVE  Fetched'
<1>1. CASE Stall
  BY <1>1, StallFront, Advances DEF RefinementInv, InFlight, Fetched, idexNext, IdExBubble, Nop
<1>2. CASE ~Stall
  <2>1. /\ idex'.i = ifid.i /\ pc' = pcIF(gpr') /\ status' = status
        /\ ifid' = IF IdFlush(gpr') THEN IfIdBubble
                   ELSE [i |-> prog[pcID(gpr')], pc |-> pcIF(gpr')]
    BY <1>2, Advances DEF idexNext, ifidNext
  <2>2. ~ifid'.i.low12 /\ ~idex'.i.low12
    BY <2>1, Advances DEF RefinementInv, Covered, InFlight, Fetched, IfIdBubble, Nop
  <2>3. ifid'.i.op # "nop" => pc' = ifid'.pc
    BY <2>1, BubbleOps
  <2> QED BY <2>2, <2>3, Advances DEF Fetched
<1> QED BY <1>1, <1>2

LEMMA DecodedKept ==
  ASSUME RefinementInv, thrown = "none", Complete, ~MemFlush, JumpOperandReady
  PROVE  Decoded'
<1> SUFFICES ASSUME idex'.i.op # "nop"
             PROVE  /\ idex'.i.op # "fp"
                    /\ idex'.a = gpr'[idex'.i.rs]
                    /\ idex'.b = IF FpBank(idex'.i) THEN fpr'[idex'.i.rt]
                                 ELSE gpr'[idex'.i.rt]
                    /\ idex'.i.op \in {"jr", "jalr"} =>
                         /\ ~Writes(exmem'.i, idex'.i.rs, FALSE)
                         /\ ~Writes(memwb'.i, idex'.i.rs, FALSE)
                    /\ FromID' = Leads(idex'.i, idex'.pc, idex'.a, idex'.b)
  BY Advances, SameNext DEF Decoded, FpBank, Writes, RegWrite, RegDest, RegDstRd, Link
<1>1. /\ ~Stall /\ fpr' = fprWB /\ ifid.i.op # "fp"
      /\ idex' = [i |-> ifid.i, pc |-> ifid.pc, a |-> gpr'[ifid.i.rs],
                  b |-> IF FpBank(ifid.i) THEN fprWB[ifid.i.rt] ELSE gpr'[ifid.i.rt]]
  BY StallFront, Advances DEF idexNext, Complete, BackEnd, IdThrows
<1>2. exmem'.i = idex.i /\ memwb'.i = exmem.i
  BY Advances DEF exmemNext, memwbNext
<1>3. ifid.i.op \in {"jr", "jalr"} =>
        ~Writes(idex.i, ifid.i.rs, FALSE) /\ ~Writes(exmem.i, ifid.i.rs, FALSE)
  BY <1>1 DEF JumpOperandReady, RefinementInv, Covered
<1> QED BY <1>1, <1>2, <1>3, FrontMoves

-----------------------------------------------------------------------------
(* Operands.  What WB, MEM and EX leave of a register, and what forwarding  *)
(* makes of the value read in ID.                                           *)
LEMMA CompleteRegisters ==
  ASSUME RefinementInv, thrown = "none", Complete, idex.i.op # "syscall"
  PROVE  /\ gpr' = Gpr /\ fpr' = Fpr
         /\ Gpr' = WriteBack(Gpr, memwbNext, FALSE) /\ Fpr' = WriteBack(Fpr, memwbNext, TRUE)
<1>1. gpr' = Gpr /\ fpr' = Fpr
  BY Registers DEF Complete, BackEnd, GprEX
<1>2. thrown' = "none" /\ memwb' = memwbNext
  BY Completes
<1>3. Gpr' = WriteBack(gpr', memwb', FALSE) /\ Fpr' = WriteBack(fpr', memwb', TRUE)
  BY <1>2 DEF Gpr, Fpr, Architectural, RetiredInMEM, MemDone, WriteBack, Faulty,
              FpBank, RegWrite, RegDest, RegDstRd, Link, MemRead
<1> QED BY <1>1, <1>2, <1>3

LEMMA IntegerAfter ==
  ASSUME RefinementInv, thrown = "none", Complete, idex.i.op # "syscall", NEW r \in Reg
  PROVE  /\ Writes(exmem.i, r, FALSE) /\ ~MemRead(exmem.i) /\ ~Link(exmem.i) /\ r # 0 =>
              Gpr'[r] = exmem.alu
         /\ ~Writes(exmem.i, r, FALSE) \/ r = 0 =>
              Gpr'[r] = IF Writes(memwb.i, r, FALSE) THEN WbValue ELSE gpr[r]
<1>1. gpr \in [Reg -> Word] /\ Gpr \in [Reg -> Word]
  BY RegisterTypes DEF RefinementInv, TypeOK, Complete, BackEnd
<1>2. Gpr[r] = IF Writes(memwb.i, r, FALSE) THEN WbValue ELSE gpr[r]
  <2>1. Gpr = gprWB
    BY Registers DEF Complete, BackEnd
  <2>2. CASE Writes(memwb.i, r, FALSE)
    BY <1>1, <2>1, <2>2 DEF gprWB, Writes, FpBank
  <2>3. CASE ~Writes(memwb.i, r, FALSE)
    BY <1>1, <2>1, <2>3 DEF gprWB, Writes, FpBank
  <2> QED BY <2>2, <2>3
<1>3. Gpr' = WriteBack(Gpr, memwbNext, FALSE)
  BY CompleteRegisters
<1>4. memwbNext.i = exmem.i /\ memwbNext.alu = exmem.alu
  BY DEF memwbNext
<1>5. ASSUME Writes(exmem.i, r, FALSE), ~MemRead(exmem.i), ~Link(exmem.i), r # 0
      PROVE  Gpr'[r] = exmem.alu
  BY <1>1, <1>3, <1>4, <1>5 DEF WriteBack, Writes, Faulty, FpBank
<1>6. ASSUME ~Writes(exmem.i, r, FALSE) \/ r = 0
      PROVE  Gpr'[r] = Gpr[r]
  <2>1. RegWrite(exmem.i) /\ ~FpBank(exmem.i) /\ ~Faulty(exmem.i) => RegDest(exmem.i) # r
    BY <1>6 DEF Writes, Faulty, FpBank
  <2> QED BY <1>1, <1>3, <1>4, <2>1 DEF WriteBack, FpBank
<1> QED BY <1>2, <1>5, <1>6

LEMMA FpAfter ==
  ASSUME RefinementInv, thrown = "none", Complete, idex.i.op # "syscall", NEW r \in Reg,
         ~Writes(exmem.i, r, TRUE)
  PROVE  Fpr'[r] = IF Writes(memwb.i, r, TRUE) THEN WbValue ELSE fpr[r]
<1>1. fpr \in [Reg -> Word] /\ Fpr \in [Reg -> Word]
  BY RegisterTypes DEF RefinementInv, TypeOK, Complete, BackEnd
<1>2. Fpr[r] = IF Writes(memwb.i, r, TRUE) THEN WbValue ELSE fpr[r]
  BY <1>1, Registers DEF Complete, BackEnd, fprWB, Writes, FpBank
<1>3. Fpr' = WriteBack(Fpr, memwbNext, TRUE) /\ memwbNext.i = exmem.i
  BY CompleteRegisters DEF memwbNext
<1> QED BY <1>1, <1>2, <1>3 DEF WriteBack, Writes, FpBank

(* The operand of a register as EX takes it.                                *)
LEMMA IntegerOperand ==
  ASSUME RefinementInv, thrown = "none", Complete, idex.i.op # "syscall",
         NEW r \in Reg, HasOperand(idex.i, r, FALSE),
         status.fu /\ Link(exmem.i) => r # RA
  PROVE  (IF status.fu THEN Forward(r, gpr[r], FALSE) ELSE gpr[r]) = Gpr'[r]
<1>1. r = 0 => ~Writes(memwb.i, r, FALSE)
  BY DEF Complete, BackEnd, WbThrows, Writes, FpBank
<1>2. status.fu /\ Link(exmem.i) => ~Writes(exmem.i, r, FALSE)
  BY DEF Writes, RegDest, RegDstRd, Link
<1>3. CASE ~Writes(exmem.i, r, FALSE)
  BY <1>1, <1>3, IntegerAfter DEF HasOperand, Forward
<1>4. CASE Writes(exmem.i, r, FALSE)
  <2>1. status.fu /\ ~MemRead(exmem.i) /\ ~Link(exmem.i)
    BY <1>2, <1>4 DEF HasOperand
  <2> QED BY <1>1, <1>4, <2>1, IntegerAfter DEF Forward
<1> QED BY <1>3, <1>4

LEMMA FpOperand ==
  ASSUME RefinementInv, thrown = "none", Complete, idex.i.op # "syscall",
         NEW r \in Reg, HasOperand(idex.i, r, TRUE)
  PROVE  (IF status.fu THEN Forward(r, fpr[r], TRUE) ELSE fpr[r]) = Fpr'[r]
<1>1. ~Writes(exmem.i, r, TRUE)
  BY DEF HasOperand, Writes, MemRead, FpBank, RegWrite
<1> QED BY <1>1, FpAfter DEF HasOperand, Forward

(* Branches have no older instruction that writes what they have read.      *)
LEMMA BranchOperand ==
  ASSUME RefinementInv, thrown = "none", Complete, idex.i.op # "syscall",
         NEW r \in Reg, ~Writes(exmem.i, r, FALSE), ~Writes(memwb.i, r, FALSE)
  PROVE  Gpr'[r] = gpr[r]
  BY IntegerAfter

(* What EX computes is what the sequential machine will compute.            *)
LEMMA ExResult ==
  ASSUME RefinementInv, thrown = "none", Complete, ~MemFlush, LinkNotForwarded,
         idex.i.op \notin {"nop", "syscall"}
  PROVE  /\ UsesAlu(idex.i) =>
              exmem'.alu = AluOutput(idex.i, Gpr'[idex.i.rs], Gpr'[idex.i.rt])
         /\ MemWrite(idex.i) =>
              exmem'.b = IF FpBank(idex.i) THEN Fpr'[idex.i.rt] ELSE Gpr'[idex.i.rt]
         /\ Conditional(idex.i) =>
              (exmem'.taken <=> Taken(idex.i, Gpr'[idex.i.rs], Gpr'[idex.i.rt]))
<1>1. /\ exmem'.alu = AluOutput(idex.i, ExA, ExB) /\ exmem'.b = ExB
      /\ exmem'.taken = Taken(idex.i, ExA, ExB)
      /\ idex.i.rs \in Reg /\ idex.i.rt \in Reg
  BY Advances DEF exmemNext, RefinementInv, TypeOK, IdExReg, Instr
<1>2. /\ idex.a = gpr[idex.i.rs]
      /\ idex.b = IF FpBank(idex.i) THEN fpr[idex.i.rt] ELSE gpr[idex.i.rt]
  BY DEF RefinementInv, InFlight, Decoded
<1>3. idex.i.op # "lui" => HasOperands(idex.i)
  BY DEF RefinementInv, Covered, InFlight, Fetched, OperandsReady
<1>4. ASSUME UsesAlu(idex.i) \/ Conditional(idex.i), idex.i.op # "lui" PROVE ExA = Gpr'[idex.i.rs]
  <2>1. /\ HasOperand(idex.i, idex.i.rs, FALSE)
        /\ status.fu /\ Link(exmem.i) => idex.i.rs # RA
    BY <1>3, <1>4 DEF HasOperands, LinkNotForwarded, UsesAlu, Conditional
  <2> QED BY <1>1, <1>2, <2>1, IntegerOperand DEF ExA
<1>5. ASSUME idex.i.op \in {"alu", "sw", "beq", "bne"} PROVE ExB = Gpr'[idex.i.rt]
  <2>1. /\ ReadsRt(idex.i) /\ ~FpBank(idex.i)
        /\ RegDstRd(idex.i) \/ ~RegWrite(idex.i)
    BY <1>5 DEF ReadsRt, AluSrc, Conditional, MemWrite, FpBank, RegDstRd, RegWrite
  <2>2. /\ HasOperand(idex.i, idex.i.rt, FALSE)
        /\ status.fu /\ Link(exmem.i) => idex.i.rt # RA
    BY <1>3, <1>5, <2>1 DEF HasOperands, LinkNotForwarded
  <2>3. idex.b = gpr[idex.i.rt] /\ (idex.i.op = "swc1") = FALSE
    BY <1>2, <1>5, <2>1
  <2> QED BY <1>1, <2>1, <2>2, <2>3, IntegerOperand DEF ExB
<1>6. ASSUME idex.i.op = "swc1" PROVE ExB = Fpr'[idex.i.rt]
  <2>1. ReadsRt(idex.i) /\ FpBank(idex.i) /\ ~RegWrite(idex.i)
    BY <1>6 DEF ReadsRt, MemWrite, FpBank, RegWrite
  <2>2. (idex.i.op = "swc1") = TRUE
    BY <1>6
  <2>3. HasOperand(idex.i, idex.i.rt, TRUE)
    BY <1>3, <1>6, <2>1, <2>2 DEF HasOperands
  <2>4. idex.b = fpr[idex.i.rt]
    BY <1>2, <2>1
  <2> QED BY <1>1, <2>1, <2>2, <2>3, <2>4, FpOperand DEF ExB
<1>7. UsesAlu(idex.i) =>
        AluOutput(idex.i, ExA, ExB) = AluOutput(idex.i, Gpr'[idex.i.rs], Gpr'[idex.i.rt])
  BY <1>4, <1>5 DEF UsesAlu, AluOutput, AluSrc, Conditional
<1>8. MemWrite(idex.i) => ExB = IF FpBank(idex.i) THEN Fpr'[idex.i.rt] ELSE Gpr'[idex.i.rt]
  BY <1>5, <1>6 DEF MemWrite, FpBank
<1>9. Conditional(idex.i) =>
        (Taken(idex.i, ExA, ExB) <=> Taken(idex.i, Gpr'[idex.i.rs], Gpr'[idex.i.rt]))
  BY <1>4, <1>5 DEF Conditional
<1> QED BY <1>1, <1>7, <1>8, <1>9

(* A branch goes where it went in ID.                                       *)
LEMMA BranchStays ==
  ASSUME RefinementInv, thrown = "none", Complete, idex.i.op \notin {"nop", "syscall"}
  PROVE  Leads(idex.i, idex.pc, idex.a, idex.b) =
           Leads(idex.i, idex.pc, Gpr'[idex.i.rs], Gpr'[idex.i.rt])
<1>1. idex.i.rs \in Reg /\ idex.i.rt \in Reg /\ idex.i.op \in Op
  BY DEF RefinementInv, TypeOK, IdExReg, Instr
<1>2. /\ idex.a = gpr[idex.i.rs]
      /\ idex.b = IF FpBank(idex.i) THEN fpr[idex.i.rt] ELSE gpr[idex.i.rt]
      /\ idex.i.op \in {"jr", "jalr"} =>
           ~Writes(exmem.i, idex.i.rs, FALSE) /\ ~Writes(memwb.i, idex.i.rs, FALSE)
  BY DEF RefinementInv, InFlight, Decoded
<1>3. CASE ~Branch(idex.i)
  BY <1>3 DEF Leads, NextOf, Goes
<1>4. CASE Conditional(idex.i) /\ status.stage # "MEM"
  <2>1. /\ HasOperand(idex.i, idex.i.rs, FALSE) /\ HasOperand(idex.i, idex.i.rt, FALSE)
        /\ ~FpBank(idex.i)
    BY <1>4 DEF RefinementInv, Covered, InFlight, Fetched, OperandsReady, HasOperands,
                Conditional, ReadsRt, AluSrc, FpBank
  <2>2. \A r \in {idex.i.rs, idex.i.rt} :
          ~Writes(exmem.i, r, FALSE) /\ ~Writes(memwb.i, r, FALSE)
    BY <1>4, <2>1 DEF HasOperand, RefinementInv, TypeOK, Status, BranchStage
  <2>3. idex.a = Gpr'[idex.i.rs] /\ idex.b = Gpr'[idex.i.rt]
    BY <1>1, <1>2, <2>1, <2>2, BranchOperand
  <2> QED BY <2>3
<1>5. CASE idex.i.op \in {"jr", "jalr"}
  <2>1. idex.a = Gpr'[idex.i.rs]
    BY <1>1, <1>2, <1>5, BranchOperand
  <2> QED BY <1>5, <2>1 DEF Leads, NextOf, Goes, Target, Branch, Conditional
<1>6. CASE idex.i.op \in {"j", "jal"}
  BY <1>6 DEF Leads, NextOf, Goes, Target, Branch, Conditional
<1>7. CASE Conditional(idex.i) /\ status.stage = "MEM"
  BY <1>7 DEF Leads
<1> QED BY <1>3, <1>4, <1>5, <1>6, <1>7 DEF Branch, Conditional

LEMMA ExecutedKept ==
  ASSUME RefinementInv, thrown = "none", Complete, ~MemFlush, LinkNotForwarded
  PROVE  Executed'
<1>1. /\ exmem'.i = idex.i /\ exmem'.pc = idex.pc /\ prog' = prog /\ status' = status
      /\ exmem'.target = Plus(idex.pc, idex.i.imm)
  BY Advances DEF exmemNext
<1> SUFFICES ASSUME idex.i.op \notin {"nop", "syscall"} PROVE Executed'
  BY <1>1 DEF Executed
<1>2. idex.i.op # "fp" /\ idex.i.op # "mfhi"
  BY DEF RefinementInv, InFlight, Decoded, Complete, BackEnd, ExThrows
<1>3. FromEX' = Leads(idex.i, idex.pc, Gpr'[idex.i.rs], Gpr'[idex.i.rt])
  BY FrontMoves, BranchStays DEF RefinementInv, InFlight, Decoded
<1>4. Leads(exmem.i, exmem.pc, Gpr[exmem.i.rs], Gpr[exmem.i.rt])' =
        Leads(idex.i, idex.pc, Gpr'[idex.i.rs], Gpr'[idex.i.rt])
  BY <1>1 DEF Leads, NextOf, At, InSlot
<1>5. AluOutput(exmem.i, Gpr[exmem.i.rs], Gpr[exmem.i.rt])' =
        AluOutput(idex.i, Gpr'[idex.i.rs], Gpr'[idex.i.rt])
  BY <1>1
<1>6. Conditional(exmem.i)' =>
        /\ exmem'.taken <=> Taken(exmem.i, Gpr[exmem.i.rs], Gpr[exmem.i.rt])'
        /\ exmem'.target = Plus(exmem'.pc, exmem'.i.imm)
  BY <1>1, ExResult
<1> QED BY <1>1, <1>2, <1>3, <1>4, <1>5, <1>6, ExResult DEF Executed, UsesAlu, MemWrite, FpBank

-----------------------------------------------------------------------------
(* Every cycle is a step of the sequential machine or none.                 *)
LEMMA Stutters ==
  ASSUME prog' = prog, status' = status, mem' = mem, ready' = ready,
         Gpr' = Gpr, Fpr' = Fpr, Pending.i' = Pending.i, Pending.pc' = Pending.pc
  PROVE  UNCHANGED Sequential!isaVars
  BY DEF Sequential!isaVars, Gpr, Fpr

LEMMA Waiting ==
  ASSUME thrown = "none", ~WbThrows, exmem.i.op \in {"nop", "syscall"}
  PROVE  Pending.i = FromEX.i /\ Pending.pc = FromEX.pc
<1>1. ~Faulty(memwb.i) /\ ~ExDone
  BY DEF WbThrows, Faulty, ExDone
<1> QED BY <1>1 DEF Pending, FromEX, FromID, Held, At

(* A service call takes effect when it leaves EX, with nothing ahead of it. *)
LEMMA ServiceRefines ==
  ASSUME RefinementInv, thrown = "none", idex.i.op = "syscall", ~ExThrows, ready,
         ~WbThrows, prog' = prog, status' = status, ready' = readyEX, mem' = mem,
         Gpr' \in GprEX, Fpr' = Fpr,
         Pending.i' = FromID.i, Pending.pc' = FromID.pc
  PROVE  Sequential!Execute
<1>1. exmem.i.op = "nop" /\ memwb.i.op = "nop"
  BY DEF RefinementInv, SyscallAlone
<1>2. Pending.i = idex.i /\ Pending.pc = idex.pc
  BY <1>1, Waiting DEF FromEX, Held
<1>3. gprWB = Gpr /\ Service = Gpr[V0]
  BY Registers DEF Service
<1>4. FromID = At(idex.pc)
  BY DEF RefinementInv, InFlight, Decoded, Leads, NextOf, Goes, Branch
<1>5. Sequential!Goto(Pending.pc)
  BY <1>2, <1>4, GotoAt
<1>6. Answered(Gpr) /\ ready' = (Gpr[V0] \notin Exit)
  BY <1>3 DEF ExThrows, readyEX
<1>7. IF Gpr[V0] \in DOMAIN Result
      THEN \E v \in Inputs : Sequential!SetGpr(Result[Gpr[V0]], v)
      ELSE Gpr' = Gpr
  <2>1. CASE Gpr[V0] \in DOMAIN Result
    <3>1. PICK v \in Inputs : Gpr' = [Gpr EXCEPT ![Result[Gpr[V0]]] = v]
      BY <1>3, <2>1 DEF GprEX
    <3>2. Result[Gpr[V0]] # 0
      BY <2>1, ServiceAssumption DEF ServiceAssumption
    <3> QED BY <2>1, <3>1, <3>2 DEF Sequential!SetGpr, Gpr
  <2>2. CASE Gpr[V0] \notin DOMAIN Result
    BY <1>3, <2>2 DEF GprEX
  <2> QED BY <2>1, <2>2
<1>8. Sequential!Syscall
  BY <1>2, <1>5, <1>6, <1>7, SameOperators DEF Sequential!Syscall, Gpr, Fpr
<1> QED BY <1>8 DEF Sequential!Execute

(* What is in MEM/WB may be written back twice.                             *)
LEMMA WrittenBack ==
  ASSUME RefinementInv, ~WbThrows
  PROVE  WriteBack(gprWB, memwb, FALSE) = gprWB /\ WriteBack(fprWB, memwb, TRUE) = fprWB
<1>1. gpr \in [Reg -> Word] /\ fpr \in [Reg -> Word]
  BY DEF RefinementInv, TypeOK
<1>2. ~Faulty(memwb.i) /\ FpBank(memwb.i) \in BOOLEAN
  BY DEF WbThrows, Faulty, FpBank
<1> DEFINE d == RegDest(memwb.i)
<1>3. \A bank : /\ WriteBack(bank, memwb, FALSE) =
                    IF RegWrite(memwb.i) /\ ~FpBank(memwb.i)
                    THEN [bank EXCEPT ![d] = WbValue] ELSE bank
               /\ WriteBack(bank, memwb, TRUE) =
                    IF RegWrite(memwb.i) /\ FpBank(memwb.i)
                    THEN [bank EXCEPT ![d] = WbValue] ELSE bank
  BY <1>2 DEF WriteBack, WbValue
<1> HIDE DEF d
<1>4. WriteBack(gprWB, memwb, FALSE) = gprWB
  BY <1>1, <1>3 DEF gprWB, d
<1>5. WriteBack(fprWB, memwb, TRUE) = fprWB
  BY <1>1, <1>3 DEF fprWB, d
<1> QED BY <1>4, <1>5

(* What a cycle that throws behind MEM has done.                            *)
LEMMA ThrownState ==
  ASSUME RefinementInv, thrown = "none", ThrowEX \/ ThrowID \/ ThrowIF
  PROVE  /\ ~WbThrows /\ ~MemThrows /\ ready
         /\ prog' = prog /\ status' = status /\ mem' = memMEM
         /\ UNCHANGED segRegs /\ fpr' = fprWB
         /\ thrown' \in {"EX", "ID", "IF"}
         /\ thrown' = "EX" => /\ idex.i.op \in {"mfhi", "syscall"}
                              /\ gpr' = gprWB /\ ready' = ready
         /\ thrown' # "EX" => gpr' \in GprEX /\ ready' = readyEX /\ ~ExThrows
         /\ thrown' = "ID" => ifid.i.op # "nop"
         /\ thrown' = "IF" => pc' = pcID(gpr')
<1>1. CASE ThrowEX
  BY <1>1 DEF ThrowEX, Tick, ExThrows
<1>2. CASE ThrowID
  BY <1>2 DEF ThrowID, BackEnd, Tick, IdThrows
<1>3. CASE ThrowIF
  BY <1>3 DEF ThrowIF, BackEnd, Tick
<1> QED BY <1>1, <1>2, <1>3

LEMMA ThrownRegisters ==
  ASSUME RefinementInv, thrown = "none", ThrowEX \/ ThrowID \/ ThrowIF
  PROVE  /\ RetiredInMEM' <=> ~Branch(exmem.i) /\ ~Faulty(exmem.i)
         /\ gpr' = gprWB =>
              IF ~Branch(exmem.i) /\ ~Faulty(exmem.i)
              THEN Gpr' = WriteBack(Gpr, memwbNext, FALSE) ELSE Gpr' = Gpr
         /\ IF ~Branch(exmem.i) /\ ~Faulty(exmem.i)
            THEN Fpr' = WriteBack(Fpr, memwbNext, TRUE) ELSE Fpr' = Fpr
         /\ exmem.i.op = "nop" /\ memwb.i.op = "nop" => Gpr' = gpr'
<1>1. /\ exmem' = exmem /\ memwb' = memwb /\ mem' = memMEM /\ ~WbThrows
      /\ thrown' \in {"EX", "ID", "IF"} /\ fpr' = fprWB
  BY ThrownState DEF segRegs
<1>2. RetiredInMEM' <=> ~Branch(exmem.i) /\ ~Faulty(exmem.i)
  BY <1>1 DEF RetiredInMEM, MemDone, Branch, Faulty, RegWrite, FpBank, RegDest, RegDstRd, Link
<1>3. memwbNext' = memwbNext
  <2>1. CASE MemWrite(exmem.i)
    BY <1>1, <2>1 DEF memwbNext, MemRead, MemWrite
  <2>2. CASE ~MemWrite(exmem.i)
    BY <1>1, <2>2 DEF memwbNext, memMEM, MemRead
  <2> QED BY <2>1, <2>2
<1>4. /\ Gpr' = IF RetiredInMEM'
                THEN WriteBack(WriteBack(gpr', memwb, FALSE), memwbNext, FALSE)
                ELSE WriteBack(gpr', memwb, FALSE)
      /\ Fpr' = IF RetiredInMEM'
                THEN WriteBack(WriteBack(fpr', memwb, TRUE), memwbNext, TRUE)
                ELSE WriteBack(fpr', memwb, TRUE)
  BY <1>1, <1>3 DEF Gpr, Fpr, Architectural
<1>5. Gpr = gprWB /\ Fpr = fprWB
  BY <1>1, Registers
<1>6. WriteBack(gprWB, memwb, FALSE) = gprWB /\ WriteBack(fprWB, memwb, TRUE) = fprWB
  BY <1>1, WrittenBack
<1>7. exmem.i.op = "nop" /\ memwb.i.op = "nop" => Gpr' = gpr'
  BY <1>4 DEF WriteBack, memwbNext, RegWrite
<1> QED BY <1>1, <1>2, <1>4, <1>5, <1>6, <1>7

LEMMA ThrownFront ==
  ASSUME RefinementInv, thrown = "none", ThrowEX \/ ThrowID \/ ThrowIF, ~Branch(exmem.i)
  PROVE  FromID' = FromID /\ FromEX' = FromEX
<1>1. ifid' = ifid /\ idex' = idex /\ prog' = prog /\ status' = status
  BY ThrownState DEF segRegs
<1>2. ifid.i.op = "nop" => pc' = pc
  <2> ~MemFlush
    BY DEF MemFlush, MemBranch
  <2>1. CASE ThrowEX
    BY <2>1, MemIsQuiet DEF ThrowEX
  <2>2. CASE ThrowID
    BY <2>2 DEF ThrowID, IdThrows
  <2>3. CASE ThrowIF
    BY <2>3, MemIsQuiet DEF ThrowIF, IdFlush, IdBranch, Branch
  <2> QED BY <2>1, <2>2, <2>3
<1>3. At(pc)' = At(pc')
  BY <1>1, SameNext
<1> QED BY <1>1, <1>2, <1>3 DEF FromEX, FromID, Held

LEMMA ThrownPending ==
  ASSUME RefinementInv, thrown = "none", ThrowEX \/ ThrowID \/ ThrowIF
  PROVE  LET next == IF idex.i.op = "syscall" /\ thrown' # "EX" THEN FromID
                     ELSE IF /\ exmem.i.op \notin {"nop", "syscall"}
                             /\ Branch(exmem.i) \/ Faulty(exmem.i)
                     THEN exmem
                     ELSE FromEX
         IN  Pending.i' = next.i /\ Pending.pc' = next.pc
<1>1. /\ UNCHANGED <<ifid, idex, exmem, memwb>> /\ prog' = prog /\ ~Faulty(memwb.i)
      /\ thrown' \in {"EX", "ID", "IF"}
      /\ ~Branch(exmem.i) => FromID' = FromID /\ FromEX' = FromEX
  BY ThrownState, ThrownFront DEF segRegs, WbThrows, Faulty
<1>2. RetiredInMEM' <=> ~Branch(exmem.i) /\ ~Faulty(exmem.i)
  BY ThrownRegisters
<1>3. ExDone' <=> thrown' # "EX"
  BY <1>1 DEF ExDone
<1>4. idex.i.op = "syscall" => exmem.i.op = "nop"
  BY DEF RefinementInv, SyscallAlone
<1>5. Pending' = IF exmem.i.op \notin {"nop", "syscall"} /\ ~RetiredInMEM' THEN exmem
                 ELSE IF idex.i.op # "nop" /\ ~(idex.i.op = "syscall" /\ ExDone') THEN idex
                 ELSE IF ifid.i.op # "nop" THEN ifid
                 ELSE At(pc)'
  BY <1>1 DEF Pending, At, Faulty, RegWrite, FpBank, RegDest, RegDstRd, Link
<1>6. /\ ~Branch(exmem.i) =>
           FromID = IF ifid.i.op # "nop" THEN Held(ifid) ELSE At(pc)'
      /\ FromEX = IF idex.i.op # "nop" THEN Held(idex) ELSE FromID
  BY <1>1 DEF FromID, FromEX, Held
<1>7. /\ ~Branch(exmem.i) =>
           /\ FromID.i = (IF ifid.i.op # "nop" THEN ifid ELSE At(pc)').i
           /\ FromID.pc = (IF ifid.i.op # "nop" THEN ifid ELSE At(pc)').pc
      /\ idex.i.op # "nop" => FromEX.i = idex.i /\ FromEX.pc = idex.pc
      /\ idex.i.op = "nop" => FromEX = FromID
  BY <1>6 DEF Held
<1>8. exmem.i.op \in {"nop", "syscall"} => ~Branch(exmem.i)
  BY DEF Branch
<1> QED BY <1>2, <1>3, <1>4, <1>5, <1>7, <1>8

(* Unless MEM flushes, what is behind it follows.                           *)
LEMMA Followed ==
  ASSUME RefinementInv, thrown = "none", exmem.i.op \notin {"nop", "syscall"}, ~MemFlush
  PROVE  FromEX = NextOf(exmem.i, exmem.pc, Gpr[exmem.i.rs], Gpr[exmem.i.rt])
<1>1. CASE Conditional(exmem.i) /\ status.stage = "MEM"
  <2>1. ~exmem.taken
    <3>1. status.type \in {"flush", "non_taken"} /\ Branch(exmem.i)
      BY <1>1 DEF RefinementInv, TypeOK, Status, BranchType, Covered, Conditional, Branch
    <3> QED BY <1>1, <3>1 DEF MemFlush, MemBranch
  <2>2. ~Goes(exmem.i, Gpr[exmem.i.rs], Gpr[exmem.i.rt]) /\ FromEX = At(exmem.pc)
    BY <1>1, <2>1 DEF RefinementInv, InFlight, Executed, Leads, Goes
  <2> QED BY <2>2 DEF NextOf
<1>2. CASE ~(Conditional(exmem.i) /\ status.stage = "MEM")
  BY <1>2 DEF RefinementInv, InFlight, Executed, Leads
<1> QED BY <1>1, <1>2

(* A cycle that throws behind MEM has retired what was in MEM, if it can, or *)
(* the service call in EX.                                                   *)
LEMMA ThrownRefines ==
  ASSUME RefinementInv, thrown = "none", ThrowEX \/ ThrowID \/ ThrowIF
  PROVE  Sequential!Execute \/ UNCHANGED Sequential!isaVars
<1>1. CASE idex.i.op = "syscall" /\ thrown' # "EX"
  <2>1. exmem.i.op = "nop" /\ memwb.i.op = "nop"
    BY <1>1 DEF RefinementInv, SyscallAlone
  <2>2. mem' = mem /\ Gpr' \in GprEX
    BY <1>1, <2>1, ThrownState, ThrownRegisters DEF memMEM, MemWrite
  <2>3. Fpr' = Fpr
    BY <2>1, ThrownRegisters DEF WriteBack, memwbNext, RegWrite
  <2>4. Pending.i' = FromID.i /\ Pending.pc' = FromID.pc
    BY <1>1, ThrownPending
  <2> QED BY <1>1, <2>2, <2>3, <2>4, ThrownState, ServiceRefines
<1>2. CASE ~(idex.i.op = "syscall" /\ thrown' # "EX")
  <2>1. gpr' = gprWB /\ ready' = ready
    BY <1>2, ThrownState DEF GprEX, readyEX, RefinementInv, TypeOK
  <2>2. CASE exmem.i.op \notin {"nop", "syscall"} /\ ~Branch(exmem.i) /\ ~Faulty(exmem.i)
    <3>1. Pending.i' = FromEX.i /\ Pending.pc' = FromEX.pc
      BY <1>2, <2>2, ThrownPending
    <3>2. FromEX = NextOf(exmem.i, exmem.pc, Gpr[exmem.i.rs], Gpr[exmem.i.rt])
      BY <2>2, Followed DEF MemFlush, MemBranch
    <3>3. Retires
      BY <2>1, <2>2, <3>1, <3>2, ThrownState, ThrownRegisters DEF Retires
    <3> QED BY <3>3, RetireRefines
  <2>3. CASE exmem.i.op \notin {"nop", "syscall"} /\ (Branch(exmem.i) \/ Faulty(exmem.i))
    <3>1. Pending.i' = Pending.i /\ Pending.pc' = Pending.pc
      BY <1>2, <2>3, ThrownPending, ThrownState, Current
    <3>2. mem' = mem
      BY <2>3, ThrownState DEF memMEM, MemWrite, Branch, Faulty, RegWrite
    <3>3. Gpr' = Gpr /\ Fpr' = Fpr
      BY <2>1, <2>3, ThrownRegisters
    <3> QED BY <2>1, <3>1, <3>2, <3>3, ThrownState, Stutters
  <2>4. CASE exmem.i.op \in {"nop", "syscall"}
    <3>1. Pending.i' = Pending.i /\ Pending.pc' = Pending.pc
      BY <1>2, <2>4, ThrownPending, ThrownState, Waiting
    <3>2. mem' = mem
      BY <2>4, ThrownState DEF memMEM, MemWrite
    <3>3. Gpr' = Gpr /\ Fpr' = Fpr
      BY <2>1, <2>4, ThrownRegisters DEF WriteBack, memwbNext, RegWrite
    <3> QED BY <2>1, <3>1, <3>2, <3>3, ThrownState, Stutters
  <2> QED BY <2>2, <2>3, <2>4
<1> QED BY <1>1, <1>2

(* A cycle that throws in WB or MEM has done nothing a program could see.   *)
LEMMA FaultRefines ==
  ASSUME RefinementInv, thrown = "none", ThrowWB \/ ThrowMEM
  PROVE  UNCHANGED Sequential!isaVars
<1>1. /\ UNCHANGED segRegs /\ prog' = prog /\ status' = status /\ ready' = ready
      /\ mem' = mem /\ pc' = pc /\ thrown' \in {"WB", "MEM"}
  BY DEF ThrowWB, ThrowMEM, Tick
<1>2. Gpr' = WriteBack(gpr', memwb, FALSE) /\ Fpr' = WriteBack(fpr', memwb, TRUE)
  BY <1>1 DEF Gpr, Fpr, Architectural, RetiredInMEM, MemDone, segRegs, WriteBack, Faulty,
              FpBank, RegWrite, RegDest, RegDstRd, Link, MemRead
<1>3. Gpr' = Gpr /\ Fpr' = Fpr
  <2>1. CASE ThrowWB
    BY <1>2, <2>1, Registers DEF ThrowWB
  <2>2. CASE ThrowMEM
    BY <1>2, <2>2, Registers, WrittenBack DEF ThrowMEM
  <2> QED BY <2>1, <2>2
<1>4. Pending' = Pending
  BY <1>1 DEF Pending, RetiredInMEM, MemDone, ExDone, segRegs, Faulty, RegWrite, FpBank,
              RegDest, RegDstRd, Link, Branch
<1> QED BY <1>1, <1>3, <1>4, Stutters

LEMMA CompletePending ==
  ASSUME RefinementInv, thrown = "none", Complete, ~MemFlush
  PROVE  LET next == IF Faulty(exmem.i) THEN exmem
                     ELSE IF idex.i.op = "syscall" THEN FromID
                     ELSE FromEX
         IN  Pending.i' = next.i /\ Pending.pc' = next.pc
<1>1. /\ memwb'.i = exmem.i /\ memwb'.pc = exmem.pc
      /\ exmem'.i = idex.i /\ exmem'.pc = idex.pc /\ thrown' = "none"
  BY Advances DEF memwbNext, exmemNext
<1>2. ~RetiredInMEM' /\ ~ExDone' /\ (Faulty(memwb.i)' <=> Faulty(exmem.i))
  BY <1>1 DEF RetiredInMEM, MemDone, ExDone, Faulty, RegWrite, FpBank, RegDest, RegDstRd, Link
<1>3. FromEX' = FromID
  BY FrontMoves
<1>4. Pending' = IF Faulty(exmem.i) THEN memwb'
                 ELSE IF exmem'.i.op \notin {"nop", "syscall"} THEN exmem'
                 ELSE IF idex'.i.op # "nop" THEN idex'
                 ELSE IF ifid'.i.op # "nop" THEN ifid'
                 ELSE At(pc)'
  BY <1>2 DEF Pending, At
<1>5. FromEX' = IF idex'.i.op # "nop" THEN [i |-> idex'.i, pc |-> idex'.pc]
                ELSE IF ifid'.i.op # "nop" THEN [i |-> ifid'.i, pc |-> ifid'.pc]
                ELSE At(pc)'
  BY DEF FromEX, FromID, Held
<1>6. /\ idex'.i.op # "nop" => FromEX'.i = idex'.i /\ FromEX'.pc = idex'.pc
      /\ idex'.i.op = "nop" /\ ifid'.i.op # "nop" =>
           FromEX'.i = ifid'.i /\ FromEX'.pc = ifid'.pc
      /\ idex'.i.op = "nop" /\ ifid'.i.op = "nop" => FromEX' = At(pc)'
  BY <1>5
<1>7. /\ idex.i.op # "nop" => FromEX.i = idex.i /\ FromEX.pc = idex.pc
      /\ idex.i.op = "nop" => FromEX = FromID
  BY DEF FromEX, Held
<1> HIDE DEF Pending, FromEX, FromID, At, Faulty
<1>8. CASE Faulty(exmem.i)
  BY <1>1, <1>4, <1>8
<1>9. CASE ~Faulty(exmem.i) /\ idex.i.op \notin {"nop", "syscall"}
  BY <1>1, <1>4, <1>7, <1>9
<1>10. CASE ~Faulty(exmem.i) /\ idex.i.op \in {"nop", "syscall"}
  BY <1>1, <1>3, <1>4, <1>6, <1>7, <1>10
<1> QED BY <1>8, <1>9, <1>10

(* A cycle that completes moves what was in MEM to WB, and a service call   *)
(* out of EX.                                                               *)
LEMMA CompleteRefines ==
  ASSUME RefinementInv, thrown = "none", Complete, ~MemFlush
  PROVE  Sequential!Execute \/ UNCHANGED Sequential!isaVars
<1>1. /\ ~WbThrows /\ ~MemThrows /\ ~ExThrows /\ ready
      /\ mem' = memMEM /\ ready' = readyEX
      /\ gpr' \in GprEX /\ fpr' = fprWB /\ prog' = prog /\ status' = status
  BY DEF Complete, BackEnd, Tick
<1>2. CASE idex.i.op = "syscall"
  <2>1. exmem.i.op = "nop"
    BY <1>2 DEF RefinementInv, SyscallAlone
  <2>2. mem' = mem /\ ~Faulty(exmem.i)
    BY <1>1, <2>1 DEF memMEM, MemWrite, Faulty, RegWrite
  <2>3. Gpr' = gpr' /\ Fpr' = fpr'
    <3>1. ~RetiredInMEM' /\ memwb'.i.op = "nop"
      BY <2>1, Advances DEF RetiredInMEM, MemDone, memwbNext
    <3> QED BY <3>1 DEF Gpr, Fpr, Architectural, WriteBack, RegWrite
  <2>4. Fpr' = Fpr
    BY <1>1, <2>3, Registers
  <2>5. Pending.i' = FromID.i /\ Pending.pc' = FromID.pc
    BY <1>2, <2>2, CompletePending
  <2> QED BY <1>1, <1>2, <2>2, <2>3, <2>4, <2>5, ServiceRefines
<1>3. CASE idex.i.op # "syscall"
  <2>1. ready' = ready
    BY <1>1, <1>3 DEF readyEX
  <2>2. Gpr' = WriteBack(Gpr, memwbNext, FALSE) /\ Fpr' = WriteBack(Fpr, memwbNext, TRUE)
    BY <1>3, CompleteRegisters
  <2>3. ~Faulty(exmem.i) => Pending.i' = FromEX.i /\ Pending.pc' = FromEX.pc
    BY <1>3, CompletePending
  <2>4. CASE exmem.i.op \notin {"nop", "syscall"} /\ ~Faulty(exmem.i)
    <3>1. Retires
      BY <1>1, <2>1, <2>2, <2>3, <2>4, Followed DEF Retires
    <3> QED BY <3>1, RetireRefines
  <2>5. CASE Faulty(exmem.i)
    <3>1. exmem.i.op \notin {"nop", "syscall"} /\ ~MemWrite(exmem.i)
      BY <2>5 DEF Faulty, RegWrite, MemWrite
    <3>2. Pending.i' = Pending.i /\ Pending.pc' = Pending.pc
      BY <1>1, <2>5, <3>1, CompletePending, Current
    <3>3. Gpr' = Gpr /\ Fpr' = Fpr
      BY <2>2, <2>5 DEF WriteBack, memwbNext
    <3> QED BY <1>1, <2>1, <3>1, <3>2, <3>3, Stutters DEF memMEM
  <2>6. CASE exmem.i.op \in {"nop", "syscall"}
    <3>1. ~Faulty(exmem.i) /\ ~MemWrite(exmem.i) /\ ~RegWrite(exmem.i)
      BY <2>6 DEF Faulty, RegWrite, MemWrite
    <3>2. Pending.i' = Pending.i /\ Pending.pc' = Pending.pc
      BY <1>1, <2>3, <2>6, <3>1, Waiting
    <3>3. Gpr' = Gpr /\ Fpr' = Fpr
      BY <2>2, <3>1 DEF WriteBack, memwbNext
    <3> QED BY <1>1, <2>1, <3>1, <3>2, <3>3, Stutters DEF memMEM
  <2> QED BY <2>4, <2>5, <2>6
<1> QED BY <1>2, <1>3

(* A reset is a reset, from any state.                                      *)
LEMMA Emptied ==
  ASSUME pc' = TextStart, thrown' = "none",
         ifid' = IfIdBubble, idex' = IdExBubble, exmem' = ExMemBubble, memwb' = MemWbBubble
  PROVE  /\ Pending' = At(TextStart)' /\ Gpr' = gpr' /\ Fpr' = fpr'
         /\ Decoded' /\ Executed'
<1>1. /\ ifid'.i.op = "nop" /\ idex'.i.op = "nop" /\ exmem'.i.op = "nop"
      /\ memwb'.i.op = "nop"
  BY BubbleOps
<1>2. ~RetiredInMEM' /\ ~Faulty(memwb.i)'
  BY <1>1 DEF RetiredInMEM, MemDone, Faulty, RegWrite
<1>3. Pending' = At(TextStart)'
  BY <1>1, <1>2 DEF Pending, At
<1>4. Gpr' = gpr' /\ Fpr' = fpr'
  BY <1>1, <1>2 DEF Gpr, Fpr, Architectural, WriteBack, RegWrite
<1> QED BY <1>1, <1>3, <1>4 DEF Decoded, Executed

(* A branch decided in MEM leaves with nothing behind it.                   *)
LEMMA Flushes ==
  ASSUME RefinementInv, thrown = "none", Complete, MemFlush, ShadowQuiet
  PROVE  /\ ifid' = IfIdBubble /\ idex' = IdExBubble /\ exmem' = ExMemBubble
         /\ memwb' = memwbNext
         /\ pc' = IF exmem.taken THEN exmem.target
                  ELSE IF Stall THEN Minus(exmem.pc, 1) ELSE exmem.pc
<1>1. /\ Conditional(exmem.i) /\ status.stage = "MEM"
      /\ status.type \in {"flush", "non_taken"}
      /\ exmem.pc \in Word
  BY DEF ShadowQuiet, MemFlush, MemBranch, RefinementInv, TypeOK, Status, BranchType, Covered,
         ExMemReg
<1>2. ~IdFlush(gpr')
  BY <1>1 DEF IdFlush, IdTaken, ShadowQuiet
<1>3. flushID(gpr') = 3
  BY <1>2 DEF flushID, flushMEM
<1>4. CASE exmem.taken
  <2>1. nextPcMEM = exmem.target /\ exmem.target # 0
    BY <1>4 DEF nextPcMEM, ShadowQuiet, MemFlush
  <2> QED BY <1>3, <1>4, <2>1 DEF Complete, Advance
<1>5. CASE ~exmem.taken
  <2>1. nextPcMEM = 0 /\ pcMEM = Minus(exmem.pc, 1) /\ ~IdBranch
    BY <1>1, <1>5 DEF nextPcMEM, pcMEM, ShadowQuiet, MemFlush, RefinementInv, InFlight, Fetched
  <2>2. pcIF(gpr') = IF Stall THEN Minus(exmem.pc, 1) ELSE exmem.pc
    BY <1>1, <1>2, <2>1, BackAndForth DEF pcIF, pcID, IdTaken
  <2> QED BY <1>3, <1>5, <2>1, <2>2 DEF Complete, Advance
<1> QED BY <1>4, <1>5

LEMMA FlushRefines ==
  ASSUME RefinementInv, thrown = "none", Complete, MemFlush, ShadowQuiet
  PROVE  Sequential!Execute \/ UNCHANGED Sequential!isaVars
<1>1. /\ ~WbThrows /\ ~MemThrows /\ ready /\ mem' = memMEM /\ ready' = readyEX
      /\ prog' = prog /\ status' = status /\ thrown' = "none"
  BY DEF Complete, BackEnd, Tick
<1>2. /\ Conditional(exmem.i) /\ exmem.i.op \notin {"nop", "syscall"} /\ ~RegWrite(exmem.i)
      /\ ~Faulty(exmem.i)
      /\ status.type # "delayed"
  BY DEF ShadowQuiet, Conditional, Faulty, RegWrite, MemFlush, MemBranch, RefinementInv, Covered
<1>3. idex.i.op # "syscall" /\ ready' = ready
  BY <1>1, <1>2 DEF RefinementInv, SyscallAlone, TypeOK, readyEX
<1>4. Gpr' = WriteBack(Gpr, memwbNext, FALSE) /\ Fpr' = WriteBack(Fpr, memwbNext, TRUE)
  BY <1>3, CompleteRegisters
<1>5. /\ exmem.taken <=> Taken(exmem.i, Gpr[exmem.i.rs], Gpr[exmem.i.rt])
      /\ exmem.target = Plus(exmem.pc, exmem.i.imm)
  BY <1>2 DEF RefinementInv, InFlight, Executed
<1>6. NextOf(exmem.i, exmem.pc, Gpr[exmem.i.rs], Gpr[exmem.i.rt]) =
        At(IF exmem.taken THEN exmem.target ELSE exmem.pc)
  <2>1. Goes(exmem.i, Gpr[exmem.i.rs], Gpr[exmem.i.rt]) <=> exmem.taken
    BY <1>2, <1>5 DEF Goes, Branch, Conditional
  <2>2. Target(exmem.i, exmem.pc, Gpr[exmem.i.rs]) = exmem.target
    BY <1>2, <1>5 DEF Target, Conditional
  <2>3. status.type # "delayed" /\ ~InSlot(exmem.pc)
    BY <1>2 DEF InSlot
  <2> QED BY <2>1, <2>2, <2>3 DEF NextOf
<1>7. Pending' = At(pc)'
  <2>1. /\ ifid'.i.op = "nop" /\ idex'.i.op = "nop" /\ exmem'.i.op = "nop"
        /\ memwb'.i = exmem.i
    BY Flushes, BubbleOps DEF memwbNext
  <2>2. ~RetiredInMEM' /\ ~Faulty(memwb.i)'
    BY <1>1, <1>2, <2>1 DEF RetiredInMEM, MemDone, Faulty, RegWrite
  <2> QED BY <2>1, <2>2 DEF Pending, At
<1>8. CASE exmem.taken \/ ~Stall
  <2>1. At(pc)' = At(IF exmem.taken THEN exmem.target ELSE exmem.pc)
    BY <1>1, <1>8, Flushes, SameNext
  <2>2. Retires
    BY <1>1, <1>2, <1>3, <1>4, <1>6, <1>7, <2>1 DEF Retires
  <2> QED BY <2>2, RetireRefines
<1>9. CASE ~exmem.taken /\ Stall
  <2> DEFINE p == Minus(exmem.pc, 1)
  <2>1. p \in TextAddr /\ prog[p] = exmem.i /\ exmem.pc \in Word
    BY <1>2, <1>9 DEF RefinementInv, Placed, InFront, MemFlush, TypeOK, ExMemReg
  <2>2. Plus(p, 1) = exmem.pc
    BY <2>1, BackAndForth
  <2>3. At(pc)' = At(p)
    BY <1>1, <1>9, Flushes, SameNext
  <2>4. Pending'.i = exmem.i /\ Pending'.pc = exmem.pc
    <3> HIDE DEF p
    <3> QED BY <1>2, <1>7, <2>1, <2>2, <2>3, FetchAt
  <2>5. Pending = exmem
    BY <1>1, <1>2, Current
  <2>6. Gpr' = Gpr /\ Fpr' = Fpr /\ mem' = mem
    BY <1>1, <1>2, <1>4 DEF WriteBack, memwbNext, memMEM, MemWrite, Conditional
  <2> QED BY <1>1, <1>3, <2>4, <2>5, <2>6, Stutters
<1> QED BY <1>8, <1>9

LEMMA FlushKeeps ==
  ASSUME RefinementInv, thrown = "none", Complete, MemFlush, ShadowQuiet
  PROVE  InFlight'
<1>1. /\ ifid'.i = Nop /\ idex'.i = Nop /\ exmem'.i = Nop
      /\ flush' = 0 /\ nextPc' = 0 /\ thrown' = "none"
  BY Flushes, Completes DEF IfIdBubble, IdExBubble, ExMemBubble
<1> QED BY <1>1 DEF InFlight, Fetched, Decoded, Executed, SlotFlushed, Nop, Link

LEMMA ResetRefines ==
  ASSUME Reset
  PROVE  Sequential!Reset
<1>1. /\ Pending' = At(TextStart)' /\ Gpr' = gpr' /\ Fpr' = fpr'
      /\ prog' = prog /\ status' = status
  BY Emptied DEF Reset
<1>2. At(TextStart)' = At(TextStart)
  BY <1>1 DEF At
<1>3. Sequential!Goto(TextStart)
  BY <1>1, <1>2, GotoAt
<1> QED BY <1>1, <1>3 DEF Reset, Sequential!Reset, Gpr, Fpr

LEMMA InitRefines == Init => Sequential!Init
<1> SUFFICES ASSUME Init PROVE Sequential!Init
  OBVIOUS
<1>1. /\ ifid.i.op = "nop" /\ idex.i.op = "nop" /\ exmem.i.op = "nop" /\ memwb.i.op = "nop"
  BY BubbleOps DEF Init
<1>2. ~RetiredInMEM /\ ~Faulty(memwb.i)
  BY <1>1 DEF Init, RetiredInMEM, MemDone, Faulty, RegWrite
<1>3. Pending = [i  |-> InstructionAt(prog, NextNonzero(prog, TextStart)),
                 pc |-> NextNonzero(prog, TextStart) + 1]
  BY <1>1, <1>2 DEF Pending, Init
<1>4. Architectural(gpr, FALSE) = gpr /\ Architectural(fpr, TRUE) = fpr
  BY <1>1, <1>2 DEF Architectural, WriteBack, RegWrite
<1>5. prog \in [TextAddr -> Instr]
  BY InitType DEF TypeOK
<1> QED BY <1>3, <1>4, <1>5, SameOperators, SameText DEF Init, Sequential!Init

-----------------------------------------------------------------------------
(* The invariant holds along the runs of the drivers that stop at an        *)
(* exception.                                                               *)
DriveNext == (cycle + 1 < MaxDiagram /\ Drive) \/ Reset

LEMMA InitInFlight == Init /\ Covered => InFlight
<1> SUFFICES ASSUME Init, Covered
             PROVE  Fetched /\ Decoded /\ Executed /\ SlotFlushed
  BY DEF InFlight
<1> QED BY BubbleOps DEF Init, Fetched, Decoded, Executed, SlotFlushed,
                         IfIdBubble, IdExBubble, Nop

LEMMA SlotKept ==
  ASSUME RefinementInv, thrown = "none", Complete, ~MemFlush
  PROVE  SlotFlushed'
<1> SUFFICES ASSUME status.type # "delayed"
             PROVE  /\ Link(idex'.i) => ifid'.i.op = "nop"
                    /\ Link(exmem'.i) => idex'.i.op = "nop"
  BY Advances DEF SlotFlushed, Link
<1>1. status.type \in {"flush", "non_taken"}
  BY DEF RefinementInv, TypeOK, Status, BranchType
<1>2. ASSUME Link(idex'.i) PROVE ifid'.i.op = "nop"
  <2>1. ~Stall /\ Link(ifid.i)
    BY <1>2, StallFront, Advances DEF idexNext, Link
  <2>2. IdFlush(gpr')
    BY <1>1, <2>1 DEF IdFlush, IdTaken, IdBranch, Branch, Link, Conditional
  <2> QED BY <2>2, Advances, BubbleOps
<1>3. ASSUME Link(exmem'.i) PROVE idex'.i.op = "nop"
  <2>1. Link(idex.i)
    BY <1>3, Advances DEF exmemNext
  <2>2. ifid.i.op = "nop"
    BY <2>1 DEF RefinementInv, InFlight, SlotFlushed
  <2> QED BY <2>2, Advances, BubbleOps DEF idexNext
<1> QED BY <1>2, <1>3

(* What forwarding must not get wrong: a jump through a register is given   *)
(* what its predecessors leave in it, and the delay slot the return address.*)
Bypassed == /\ status.fu => JumpOperandReady
            /\ status.type = "delayed" => LinkNotForwarded

(* Without forwarding the hazard detection unit holds such jumps back.      *)
LEMMA BypassSuffices ==
  ASSUME RefinementInv, thrown = "none", Bypassed
  PROVE  JumpOperandReady /\ LinkNotForwarded
<1>1. ~status.fu => JumpOperandReady
  BY DEF RefinementInv, Covered, InFlight, Fetched, JumpOperandReady, Stall, OperandWaits,
         Hazard, CanForward
<1>2. status.type # "delayed" => LinkNotForwarded
  BY DEF RefinementInv, InFlight, SlotFlushed, LinkNotForwarded
<1> QED BY <1>1, <1>2 DEF Bypassed

LEMMA StepInFlight ==
  ASSUME RefinementInv, Bypassed, ShadowQuiet, [DriveNext]_vars
  PROVE  Covered' /\ InFlight'
<1>1. CASE cycle + 1 < MaxDiagram /\ Drive
  <2>1. thrown = "none" /\ NextCycle
    BY <1>1 DEF Drive
  <2>2. prog' = prog /\ status' = status /\ (Complete \/ thrown' # "none")
    BY <2>1 DEF NextCycle, ThrowWB, ThrowMEM, ThrowEX, ThrowID, ThrowIF, Overflow, Abort,
                Complete, Tick
  <2>3. Covered'
    BY <2>2 DEF RefinementInv, Covered
  <2>4. CASE Complete /\ MemFlush
    BY <2>1, <2>3, <2>4, FlushKeeps
  <2>5. CASE Complete /\ ~MemFlush
    <3>1. JumpOperandReady /\ LinkNotForwarded
      BY <2>1, BypassSuffices
    <3> QED BY <2>1, <2>3, <2>5, <3>1, FetchedKept, DecodedKept, ExecutedKept, SlotKept
           DEF InFlight
  <2> QED BY <2>2, <2>3, <2>4, <2>5 DEF InFlight
<1>2. CASE Reset
  <2>1. Covered'
    BY <1>2 DEF Reset, RefinementInv, Covered
  <2>2. Decoded' /\ Executed'
    BY <1>2, Emptied DEF Reset
  <2>3. Fetched' /\ SlotFlushed'
    BY <1>2, BubbleOps DEF Reset, Fetched, SlotFlushed, IfIdBubble, IdExBubble,
                           ExMemBubble, Nop, Link
  <2> QED BY <2>1, <2>2, <2>3 DEF InFlight
<1>3. CASE UNCHANGED vars
  <2>1. UNCHANGED <<prog, status, pc, gpr, fpr, mem, ifid, idex, exmem, memwb, flush, nextPc, thrown>>
    BY <1>3 DEF vars
  <2>2. Covered'
    BY <2>1 DEF RefinementInv, Covered
  <2>3. Gpr' = Gpr /\ Fpr' = Fpr /\ FromID' = FromID /\ FromEX' = FromEX
    BY <2>1 DEF Gpr, Fpr, Architectural, RetiredInMEM, MemDone, memwbNext, FromID, FromEX,
                Held, At
  <2>4. InFlight'
    <3>1. Fetched' <=> Fetched
      BY <2>1 DEF Fetched
    <3>2. Decoded' <=> Decoded
      BY <2>1, <2>3 DEF Decoded, Leads, NextOf, At, InSlot
    <3>3. Executed' <=> Executed
      BY <2>1, <2>3 DEF Executed, Leads, NextOf, At, InSlot
    <3>4. SlotFlushed' <=> SlotFlushed
      BY <2>1 DEF SlotFlushed
    <3> QED BY <2>1, <3>1, <3>2, <3>3, <3>4 DEF RefinementInv, InFlight
  <2> QED BY <2>2, <2>4
<1> QED BY <1>1, <1>2, <1>3 DEF DriveNext

LEMMA StepRefines ==
  RefinementInv /\ ShadowQuiet /\ [DriveNext]_vars => [Sequential!Next]_Sequential!isaVars
<1> SUFFICES ASSUME RefinementInv, ShadowQuiet, [DriveNext]_vars
             PROVE  [Sequential!Next]_Sequential!isaVars
  OBVIOUS
<1>1. CASE cycle + 1 < MaxDiagram /\ Drive
  <2>1. thrown = "none" /\ NextCycle
    BY <1>1 DEF Drive
  <2>2. ~Overflow
    BY <1>1, StateAssumption DEF Overflow, RefinementInv, TypeOK, StateAssumption
  <2>3. ~Abort
    BY DEF Abort, RefinementInv, Covered
  <2> QED BY <2>1, <2>2, <2>3, FaultRefines, ThrownRefines, CompleteRefines, FlushRefines
          DEF NextCycle, Sequential!Next
<1>2. CASE Reset
  BY <1>2, ResetRefines DEF Sequential!Next
<1>3. CASE UNCHANGED vars
  <2>1. UNCHANGED <<prog, status, pc, gpr, fpr, mem, ifid, idex, exmem, memwb, thrown, ready>>
    BY <1>3 DEF vars
  <2>2. Gpr' = Gpr /\ Fpr' = Fpr /\ Pending' = Pending
    BY <2>1 DEF Gpr, Fpr, Architectural, RetiredInMEM, MemDone, ExDone, memwbNext, Pending
  <2> QED BY <2>1, <2>2, Stutters
<1> QED BY <1>1, <1>2, <1>3 DEF DriveNext

LEMMA DriveInvariants == DriveSpec => [](TypeOK /\ SyscallAlone /\ OperandsReady /\ Placed)
<1>1. [(cycle + 1 < MaxDiagram /\ Drive) \/ Reset]_vars => [NextCycle \/ Reset]_vars
  BY DEF Drive
<1>2. [(cycle + 1 < MaxDiagram /\ Drive) \/ Reset]_vars => [Next]_vars
  BY DEF Drive, Next
<1>3. DriveSpec => Spec /\ FixedSpec
  BY <1>1, <1>2, PTL DEF DriveSpec, Spec, FixedSpec
<1> QED BY <1>3, TypeCorrect, SyscallRunsAlone, HazardUnitInterlocks, FixedPlaced, PTL

LEMMA InFlightHolds ==
  DriveSpec /\ Covered /\ []Bypassed /\ []ShadowQuiet => []RefinementInv
<1>1. TypeOK /\ SyscallAlone /\ OperandsReady /\ Placed /\ Bypassed /\ ShadowQuiet /\ Covered /\ InFlight
        /\ [(cycle + 1 < MaxDiagram /\ Drive) \/ Reset]_vars => (Covered /\ InFlight)'
  BY StepInFlight DEF RefinementInv, DriveNext
<1>2. DriveSpec /\ Covered /\ []Bypassed /\ []ShadowQuiet => [](Covered /\ InFlight)
  BY <1>1, InitInFlight, DriveInvariants, PTL DEF DriveSpec
<1> QED BY <1>2, DriveInvariants, PTL DEF RefinementInv

(* The pipeline implements the instruction set, for every program, word     *)
(* size, register file and branch type, with branches decided in ID or MEM  *)
(* and a hazard detection unit, in every run in which forwarding is not     *)
(* taken for what it is not (Bypassed) and nothing interferes with a flush  *)
(* of MEM (ShadowQuiet).                                                    *)
THEOREM PipelineCorrect ==
  DriveSpec /\ Covered /\ []Bypassed /\ []ShadowQuiet => ImplementsIsa
<1>1. RefinementInv /\ ShadowQuiet /\ [(cycle + 1 < MaxDiagram /\ Drive) \/ Reset]_vars
        => [Sequential!Next]_Sequential!isaVars
  BY StepRefines DEF DriveNext
<1> QED BY <1>1, InFlightHolds, InitRefines, PTL
        DEF DriveSpec, ImplementsIsa, Sequential!Spec

(* Without a forwarding unit, and with branches decided in ID, nothing has  *)
(* to be set aside: interlocking alone makes the pipeline the sequential    *)
(* machine, whatever the branch type.                                       *)
THEOREM InterlocksSuffice ==
  DriveSpec /\ Covered /\ ~status.fu /\ status.stage = "ID" => ImplementsIsa
<1> DEFINE Interlocked == ~status.fu /\ status.stage = "ID"
<1>1. Interlocked /\ [(cycle + 1 < MaxDiagram /\ Drive) \/ Reset]_vars => Interlocked'
  BY DEF Drive, NextCycle, ThrowWB, ThrowMEM, ThrowEX, ThrowID, ThrowIF, Overflow, Abort,
         Complete, Tick, Reset, vars
<1>2. Interlocked => Bypassed /\ ShadowQuiet
  BY DEF Bypassed, LinkNotForwarded, ShadowQuiet, MemFlush, MemBranch
<1> HIDE DEF Interlocked
<1>3. DriveSpec /\ Interlocked => []Bypassed /\ []ShadowQuiet
  BY <1>1, <1>2, PTL DEF DriveSpec
<1> QED BY <1>3, PipelineCorrect, PTL DEF Interlocked
===============================================================================
