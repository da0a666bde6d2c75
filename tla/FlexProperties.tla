--------------------------- MODULE FlexProperties ---------------------------
(***************************************************************************)
(* What CpuFlex promises: the order its coprocessor finishes instructions  *)
(* in cannot be told from the registers and the memory a program leaves.   *)
(***************************************************************************)
EXTENDS Flex, FiniteSets

CONSTANT Fuel  \* bound on the instructions a program of an instance executes

ASSUME FuelAssumption == Fuel \in Nat

(* Every variable holds a value of the range its declaration in cpu_flex/   *)
(* gives it.                                                                *)
FlexTypeOK ==
  /\ prog \in [TextAddr -> FlexInstr] /\ status \in Status
  /\ pc \in Word /\ idTarget \in Word /\ memTarget \in Word
  /\ gpr \in [Reg -> Word] /\ fpr \in [FReg -> Word] /\ mem \in [DataAddr -> Word]
  /\ {id, ex, me, wb, ifTmp, ifNext, exTmp} \subseteq SegReg
  /\ \A n \in DOMAIN fpu.units :
       fpu.units[n] \in [type : UnitType, busy : BOOLEAN, elapsed : Nat, delay : Nat,
                         seg : SegReg]
  /\ \A r \in DOMAIN fpu.fwd : r \in Nat /\ fpu.fwd[r] \in Entry
  /\ fpu.condDelay \in 0 .. 2 /\ fpCount \in Int /\ countStart \in Int
  /\ countStart <= fpCount
  /\ {ready, fpStall, exRan, idSyscall, fpu.cond, fpu.tied, fpu.lost} \subseteq BOOLEAN
  /\ pcSrc \in {"next", "cbranch", "jump"}
  /\ cycle \in {0, 1} /\ end \in {"none", "CP1", "EX", "MEM", "IF"}

-----------------------------------------------------------------------------
(* dest_registers, which the hazard detection unit reads, lists as often    *)
(* as they occur the destinations of the instructions that are in the       *)
(* units: one too many and ID waits for a result nobody computes, one too   *)
(* few and it does not wait for one that is being computed.                 *)
Heading(r) == { n \in Busy(fpu) : HasDest(fpu.units[n].seg.i) /\ fpu.units[n].seg.i.rd = r }

DestsInFlight ==
  \A r \in FReg : Cardinality(Heading(r)) = Cardinality({ n \in DOMAIN fpu.dests : fpu.dests[n] = r })

(* The count a service call waits for in ID tells the instructions in the  *)
(* units from where it started, though it is kept by HardwareManager and    *)
(* they by the coprocessor: unless a cycle failed half way, a branch        *)
(* decided in MEM emptied the units, or, without hazard detection, ID sent  *)
(* an instruction to a unit that was not free.  Only after a reset is it    *)
(* sure to start from 0, and to be their number.                            *)
CountIsBusy ==
  end = "none" /\ status.hdu /\ status.stage = "ID" =>
    fpCount = countStart + Cardinality(Busy(fpu))

-----------------------------------------------------------------------------
(* The reference: a program run one instruction at a time.  Run(text)[n]    *)
(* holds the states it may be in after n instructions, one for each answer  *)
(* the services it called may have given, or at its end if that is earlier: *)
(* the call of the exit service, an instruction that fails, or an address   *)
(* outside the text.                                                        *)
Loaded == [pc |-> TextStart, gpr |-> [r \in Reg |-> 0], fpr |-> [r \in FReg |-> 0],
           mem |-> InitialData, over |-> FALSE]

Operated(i, bank) ==
  [r \in FReg |-> IF r = i.rd THEN Plus(bank[i.rs], bank[i.rt])
                  ELSE IF i.dbl /\ r = i.rd + 1 THEN Plus(bank[i.rs + 1], bank[i.rt + 1])
                  ELSE bank[r]]

Address(i, s) == Plus(s.gpr[i.rs], i.imm)

Target(i, s) == CASE Conditional(i) -> IF Taken(i, s.gpr[i.rs], s.gpr[i.rt])
                                       THEN Plus(s.pc + 1, i.imm) ELSE s.pc + 1
                  [] i.op \in {"jr", "jalr"} -> s.gpr[i.rs]
                  [] i.op \in {"j", "jal"} -> i.imm
                  [] ~Branch(i) -> s.pc + 1

After(i, s) ==
  LET next == [s EXCEPT !.pc = Target(i, s)]
      at == Address(i, s)
  IN  CASE i.op \in Arithmetic -> [next EXCEPT !.fpr = Operated(i, @)]
        [] i.op = "lwc1"    -> [next EXCEPT !.fpr[i.rt] = s.mem[at]]
        [] i.op = "lw"      -> [next EXCEPT !.gpr[i.rt] = s.mem[at]]
        [] MemWrite(i)      -> [next EXCEPT !.mem[at] = IF FpBank(i) THEN s.fpr[i.rt]
                                                        ELSE s.gpr[i.rt]]
        [] i.op \in {"alu", "alui", "lui"} ->
             [next EXCEPT !.gpr[RegDest(i)] = AluOutput(i, s.gpr[i.rs], s.gpr[i.rt])]
        [] Link(i)          -> [next EXCEPT !.gpr[RA] = s.pc + 1]
        [] i.op = "syscall" -> [next EXCEPT !.over = s.gpr[V0] \in Exit]
        [] i.op \notin Arithmetic \cup {"lw", "sw", "lwc1", "swc1", "alu", "alui", "lui",
                                       "jal", "jalr", "syscall"} -> next

Asks(i, s) == i.op = "syscall" /\ s.gpr[V0] \in DOMAIN Result

Afterwards(i, s) ==
  IF Asks(i, s) THEN { [After(i, s) EXCEPT !.gpr[Result[s.gpr[V0]]] = v] : v \in Inputs }
  ELSE { After(i, s) }

Fails(i, s) == \/ i.op \in {"mfhi", "bc1x"}
               \/ i.op = "syscall" /\ ~Answered(s.gpr)
               \/ (MemRead(i) \/ MemWrite(i)) /\ Address(i, s) \notin DataAddr

Ended(text, s) == s.over \/ s.pc \notin TextAddr \/ Fails(text[s.pc], s)

Following(text, s) == IF Ended(text, s) THEN { s } ELSE Afterwards(text[s.pc], s)

Run(text) ==
  LET run[n \in 0 .. Fuel] == IF n = 0 THEN { Loaded }
                              ELSE UNION { Following(text, s) : s \in run[n - 1] }
  IN  run

(* The programs the reference is kept for.  Integer programs are run as     *)
(* such by any configuration with hazard detection, those with branches     *)
(* where branches are decided in ID and their delay slots not executed.  Of *)
(* them no instruction writes $0, the low bits of no instruction that reads *)
(* a register are those of a service call, and behind a call that gives an  *)
(* answer comes an instruction that does not read it; a jump to a register  *)
(* needs a configuration without forwarding.                                *)
Integer(text) == \A a \in TextAddr : text[a].op \notin CoprocessorOp \cup {"bc1", "bc1x"}

Regular(text) ==
  /\ \A a \in TextAddr : /\ RegWrite(text[a]) /\ ~FpBank(text[a]) => RegDest(text[a]) # 0
                         /\ text[a].low12 => text[a].op \in {"nop", "lui", "syscall"}
  /\ \A a \in TextStart .. TextEnd - 1 :
       text[a].op = "syscall" =>
         \A v \in DOMAIN Result : /\ text[a + 1].rs # Result[v]
                                  /\ ReadsRt(text[a + 1]) => text[a + 1].rt # Result[v]

Branchless(text) == \A a \in TextAddr : ~Branch(text[a])
JumpsToRegister(text) == \E a \in TextAddr : text[a].op \in {"jr", "jalr"}

(* Programs with a floating-point part need forwarding too: loads first,    *)
(* then additions, multiplications and divisions on registers of even       *)
(* number, singles and doubles, up to service calls.                        *)
Separated(text) ==
  \E first \in TextAddr, last \in TextAddr :
    /\ \A a \in TextAddr : (text[a].op \in Arithmetic) <=> (a \in first .. last)
    /\ \A a \in last + 1 .. TextEnd : text[a].op \in {"syscall", "nop"}
    /\ \A a \in first .. last, r \in {"rs", "rt", "rd"} : text[a][r] % 2 = 0
    /\ \A a \in TextStart .. first - 1 : text[a].op \in {"alui", "lwc1"}

Texts == { s.prog : s \in Setups }
SeparatedTexts == { text \in Texts : Separated(text) }
IntegerTexts == { text \in Texts : Integer(text) /\ Regular(text) }
StraightTexts == { text \in IntegerTexts : Branchless(text) }
JumpingTexts == { text \in IntegerTexts : JumpsToRegister(text) }

FaithfulInteger ==
  /\ status.hdu
  /\ \/ prog \in StraightTexts
     \/ /\ prog \in IntegerTexts /\ status.stage = "ID" /\ status.type # "delayed"
        /\ status.fu => prog \notin JumpingTexts

FaithfulFloat == status.hdu /\ status.fu /\ prog \in SeparatedTexts

Faithful == FaithfulInteger \/ FaithfulFloat

(* What the reference leaves of them.                                       *)
Finals == [text \in SeparatedTexts \cup IntegerTexts |-> Run(text)[Fuel]]

LeftBy(final) == final.over /\ gpr = final.gpr /\ fpr = final.fpr /\ mem = final.mem

(* What CpuFlex leaves is what the reference may leave, of a program that   *)
(* comes to its end within Fuel.                                            *)
Sequential ==
  (\A final \in Finals[prog] : Ended(prog, final)) => \E final \in Finals[prog] : LeftBy(final)

(* What the count does not tell of are the instructions that bring it up   *)
(* from a start below 0.                                                    *)
AllCounted == countStart >= 0 \/ Integer(prog)

(* A service call is served with nothing in the units of the coprocessor,   *)
(* whatever the program and the configuration, and in a program the         *)
(* reference is kept for with nothing in MEM either but another call, which *)
(* has been served: ID does not make a call wait for the one ahead of it.   *)
ServiceAlone ==
  ex.i.op = "syscall" /\ end = "none" /\ AllCounted =>
    Busy(fpu) = {} /\ (Faithful => me.i.op \in {"nop", "syscall"})

(* An integer program that has called its exit service has left in every    *)
(* register and in memory what it leaves when its instructions are executed *)
(* one after the other, whatever is forwarded, stalled or flushed, and also *)
(* after a reset of a CPU that another run left in any state.               *)
IntegerResultsAreSequential == ~ready /\ FaithfulInteger => Sequential

(* So has a program with a floating-point part, whatever order the results  *)
(* of the coprocessor came in.                                              *)
FloatResultsAreSequential == ~ready /\ AllCounted /\ FaithfulFloat => Sequential

-----------------------------------------------------------------------------
(* A call that is alone in the pipeline and waits for a count that nothing  *)
(* in the units will bring to 0.                                            *)
CallHangs == /\ id.i.op = "syscall" /\ idSyscall /\ IsEmpty(ex) /\ IsEmpty(me) /\ ~exRan
             /\ Busy(fpu) = {} /\ fpCount # 0

(* The user runs a program to the end of the run, to an exception or to     *)
(* such a call, and then resets the CPU, with another configuration or not. *)
Over == ~ready \/ end # "none" \/ CallHangs

Again == Over /\ ((Reset /\ UNCHANGED status) \/ Reconfigure)

UserSpec == Init /\ [][Drive \/ Again]_vars /\ WF_cycle(Clock)

(* A program that comes to its exit service when its instructions are       *)
(* executed one after the other does so in CpuFlex whenever it is started   *)
(* with a count of 0, as it is after every reset: no stall, of one signal   *)
(* or the other, lasts for ever.                                            *)
RunsToExit ==
  (Faithful /\ countStart = 0 /\ (\A final \in Finals[prog] : final.over) /\ ready) ~> ~ready
=============================================================================
