-------------------------------- MODULE Fpu --------------------------------
(***************************************************************************)
(* FPCoprocessor, the HazardDetectionUnit and the ForwardingUnit of        *)
(* CpuFlex (cpu_flex/fp_coprocessor.cpp and cpu/component/), as operators  *)
(* on the coprocessor's state: a record                                    *)
(*   units  the functional units, general ones last, in the order work()   *)
(*          goes through them                                              *)
(*   dests  dest_registers: the destinations of the instructions in them   *)
(*   fwd    forwarding_registers: results to forward, by register          *)
(*   done   the destination of the last result taken out, NoReg when it    *)
(*          need not be erased from fwd                                    *)
(*   tied   its entry was computed in the very cycle it was taken out      *)
(*   cond   the condition bit, and how long it is not ready (condDelay)    *)
(*   lost   an entry of fwd was asked for and missing: work() threw        *)
(* A free unit's segmentation register is read by nobody and kept Empty.   *)
(***************************************************************************)
EXTENDS FlexInstructions, SequencesExt

CONSTANTS
  Delay,     \* cycles a result takes, by type of unit and precision
  Counts,    \* units the CPU is built with, by type
  MaxUnits,  \* bound on the units a model follows, the code has none
  Garbage    \* words an uninitialised variable may hold

UnitType == {"add", "mult", "div", "general"}
NoReg == 99

ASSUME DelayAssumption ==
  /\ Delay \in [(UnitType \ {"general"}) \X BOOLEAN -> Nat \ {0}]
  /\ Counts \in [UnitType -> Nat \ {0}]
  /\ NoReg \notin FReg /\ Garbage \subseteq Word

FreeUnit(type) == [type |-> type, busy |-> FALSE, elapsed |-> 0, delay |-> 0, seg |-> Empty]

UnitsOf(type) == [n \in 1 .. Counts[type] |-> FreeUnit(type)]

Entry == [value : Word, ready : BOOLEAN, just : BOOLEAN]

(* fp_unit_type of stage_id.                                                *)
TypeOf(i) == CASE i.op = "fadd" -> "add"
               [] i.op = "fmul" -> "mult"
               [] i.op = "fdiv" -> "div"
               [] OTHER         -> "general"

(* A comparison has no destination for the coprocessor.                     *)
HasDest(i) == i.op \in Arithmetic \cup {"fmov"}

NewFpu == [units |-> UnitsOf("add") \o UnitsOf("mult") \o UnitsOf("div") \o UnitsOf("general"),
           dests |-> <<>>, fwd |-> <<>>, done |-> NoReg, tied |-> FALSE,
           cond |-> FALSE, condDelay |-> 0, lost |-> FALSE]

(* ResetFpuKeepingDests is what reset would do if it left dest_registers.   *)
ResetFpuKeepingDests(fpu) ==
  [fpu EXCEPT !.units = [n \in DOMAIN @ |-> FreeUnit(@[n].type)],
              !.fwd = <<>>, !.done = NoReg, !.tied = FALSE]

(* reset: neither the units added meanwhile nor the condition go.           *)
ResetFpu(fpu) ==
  [fpu EXCEPT !.units = [n \in DOMAIN @ |-> FreeUnit(@[n].type)],
              !.dests = <<>>, !.fwd = <<>>, !.done = NoReg, !.tied = FALSE]

Busy(fpu) == { n \in DOMAIN fpu.units : fpu.units[n].busy }

Available(fpu, type) ==
  \E n \in DOMAIN fpu.units : fpu.units[n].type = type /\ ~fpu.units[n].busy

-----------------------------------------------------------------------------
(* ForwardingUnit::forward_register: the value of register r, v as read,    *)
(* with m and w in MEM and WB; the coprocessor also looks into fwd.         *)
WritesReg(i, r, fp) == SigRegWrite(i) /\ Dest(i) = r /\ SigRegBank(i) = fp

ForwardRegister(m, w, r, v, fp) ==
  IF r = 0 /\ ~fp THEN v
  ELSE IF WritesReg(m.i, r, fp) /\ ~MemRead(m.i) THEN m.alu
  ELSE IF WritesReg(w.i, r, fp) THEN WrittenValue(w)
  ELSE v

InSegRegs(m, w, r) == \/ WritesReg(m.i, r, TRUE) /\ ~MemRead(m.i)
                      \/ WritesReg(w.i, r, TRUE)

Ready(fwd, r) == r \in DOMAIN fwd /\ fwd[r].ready

ForwardToFpu(m, w, fwd, r, v) ==
  IF ~InSegRegs(m, w, r) /\ Ready(fwd, r) THEN fwd[r].value
  ELSE ForwardRegister(m, w, r, v, TRUE)

(* HazardDetectionUnit::detect_hazard: x and m are in EX and MEM.           *)
DetectHazard(x, m, r, canForward, fp) ==
  \/ WritesReg(x.i, r, fp) /\ (MemRead(x.i) \/ ~canForward)
  \/ WritesReg(m.i, r, fp) /\ ~canForward

(* With a coprocessor: a result is waited for until it can be forwarded.    *)
DetectFpuHazard(fpu, x, m, r, canForward, fp) ==
  \/ DetectHazard(x, m, r, canForward, fp)
  \/ /\ canForward
     /\ \E n \in DOMAIN fpu.dests : fpu.dests[n] = r /\ ~Ready(fpu.fwd, r)

-----------------------------------------------------------------------------
(* fp_unit_compute: the outcome of an instruction on its operands, upper    *)
(* halves apart; g is what the upper half of a single result happens to be. *)
Outcome(i, a, b) == IF i.op = "fmov" THEN b ELSE Plus(a, b)

(* The operands of an instruction entering its unit, and its result, fwd    *)
(* being what there is to forward at that point of the pass over the units. *)
Operand(fwd, m, w, enabled, r, v) == IF enabled THEN ForwardToFpu(m, w, fwd, r, v) ELSE v

Low(fwd, m, w, enabled, seg) ==
  Outcome(seg.i, Operand(fwd, m, w, enabled, seg.i.rs, seg.a),
                 Operand(fwd, m, w, enabled, seg.i.rt, seg.b))

High(fwd, m, w, enabled, seg) ==
  Outcome(seg.i, Operand(fwd, m, w, enabled, seg.i.rs + 1, seg.a2),
                 Operand(fwd, m, w, enabled, seg.i.rt + 1, seg.b2))

Computed(fwd, m, w, enabled, g, seg) ==
  [seg EXCEPT !.alu = Low(fwd, m, w, enabled, seg),
              !.alu2 = IF seg.i.dbl THEN High(fwd, m, w, enabled, seg) ELSE g]

Equal(fwd, m, w, enabled, seg) ==
  LET Same(r, v, q, u) == Operand(fwd, m, w, enabled, r, v) = Operand(fwd, m, w, enabled, q, u)
  IN  /\ Same(seg.i.rs, seg.a, seg.i.rt, seg.b)
      /\ seg.i.dbl => Same(seg.i.rs + 1, seg.a2, seg.i.rt + 1, seg.b2)

Fresh(v) == [value |-> v, ready |-> FALSE, just |-> TRUE]

Stored(fwd, seg) ==
  LET r == seg.i.rd
  IN  [q \in DOMAIN fwd \cup {r, r + 1} |->
         IF q = r THEN Fresh(seg.alu) ELSE IF q = r + 1 THEN Fresh(seg.alu2) ELSE fwd[q]]

IsDone(u) == u.busy /\ u.elapsed = u.delay

(* The results of the units of a set that are done are marked ready, the    *)
(* pair for a double.                                                       *)
DoneRegs(fpu, ns) ==
  UNION { Span(fpu.units[n].seg.i, fpu.units[n].seg.i.rd) :
            n \in { k \in ns : IsDone(fpu.units[k]) /\ HasDest(fpu.units[k].seg.i) } }

MarkReady(fwd, regs) == [q \in DOMAIN fwd |-> [fwd[q] EXCEPT !.ready = @ \/ q \in regs]]

(* One pass over the units.  One instruction is sent to them in a cycle, so *)
(* at most one of them, n, has its result to compute; it sees the marks of  *)
(* the units before it, and those behind it see its entries.                *)
Enters(fpu) == { n \in Busy(fpu) : fpu.units[n].elapsed = 0 }

Pass(fpu, m, w, enabled, g) ==
  LET delay == IF fpu.condDelay > 0 THEN fpu.condDelay - 1 ELSE 0
      Ended(fwd) == [fpu EXCEPT !.fwd = fwd, !.condDelay = delay]
  IN  IF Enters(fpu) = {}
      THEN [Ended(MarkReady(fpu.fwd, DoneRegs(fpu, DOMAIN fpu.units))) EXCEPT
              !.lost = ~(DoneRegs(fpu, DOMAIN fpu.units) \subseteq DOMAIN fpu.fwd)]
      ELSE LET n == CHOOSE k \in Enters(fpu) : TRUE
               seg == fpu.units[n].seg
               ahead == DoneRegs(fpu, 1 .. n - 1)
               behind == DoneRegs(fpu, n + 1 .. Len(fpu.units))
               fwd == MarkReady(fpu.fwd, ahead)
               new == Computed(fwd, m, w, enabled, g, seg)
               stored == IF HasDest(seg.i) THEN Stored(fwd, new) ELSE fwd
               pass == [Ended(MarkReady(stored, behind)) EXCEPT
                          !.lost = ~(ahead \subseteq DOMAIN fwd /\ behind \subseteq DOMAIN stored)]
           IN  IF HasDest(seg.i) THEN [pass EXCEPT !.units[n].seg = new]
               ELSE [pass EXCEPT !.cond = Equal(fwd, m, w, enabled, seg), !.condDelay = 2]

(* Of the results that are done the one that took longest goes first, and   *)
(* of those that took the same the one in the first unit; 0 when there is   *)
(* none.                                                                    *)
Finished(fpu) ==
  LET done == { n \in DOMAIN fpu.units : IsDone(fpu.units[n]) }
  IN  IF done = {} THEN 0
      ELSE CHOOSE n \in done : \A k \in done :
             \/ fpu.units[k].delay < fpu.units[n].delay
             \/ fpu.units[k].delay = fpu.units[n].delay /\ n <= k

(* The entry of a result taken out stays until the cycle after it is seen   *)
(* ready, provided no later result for the register replaced it.  It is     *)
(* looked up with at(), which throws when the entry is not there.           *)
EraseFinished(fpu) ==
  LET r == fpu.done
  IN  IF r = NoReg THEN fpu
      ELSE IF r \notin DOMAIN fpu.fwd THEN [fpu EXCEPT !.lost = TRUE]
      ELSE IF ~fpu.tied \/ ~fpu.fwd[r].ready THEN fpu
      ELSE IF fpu.fwd[r].just THEN [fpu EXCEPT !.fwd[r].just = FALSE]
      ELSE [fpu EXCEPT !.done = NoReg, !.tied = FALSE,
                       !.fwd = [q \in DOMAIN @ \ {r, r + 1} |-> @[q]]]

(* work(): one cycle of the coprocessor, as the state it leaves and the     *)
(* segmentation register it hands to MEM.                                   *)
Tick(u) == [u EXCEPT !.elapsed = IF u.busy /\ @ < u.delay THEN @ + 1 ELSE @]

Overwritten(fpu, r) ==
  \E n \in Enters(fpu) : LET i == fpu.units[n].seg.i
                         IN  HasDest(i) /\ r \in {i.rd, i.rd + 1}

Ticked(pass, win) ==
  [n \in DOMAIN pass.units |-> IF n = win THEN FreeUnit(pass.units[n].type)
                               ELSE Tick(pass.units[n])]

(* The result of unit win, if any, leaves it and dest_registers.            *)
TakeOut(fpu, pass, win) ==
  LET left == [pass EXCEPT !.units = Ticked(pass, win)]
      r == pass.units[win].seg.i.rd
  IN  IF win # 0 /\ HasDest(pass.units[win].seg.i)
      THEN [left EXCEPT !.dests = RemoveFirst(@, r), !.done = r, !.tied = Overwritten(fpu, r)]
      ELSE [left EXCEPT !.tied = @ /\ ~Overwritten(fpu, fpu.done)]

Work(fpu, m, w, enabled, g) ==
  LET pass == Pass(fpu, m, w, enabled, g)
      win == Finished(fpu)
  IN  [fpu |-> EraseFinished(TakeOut(fpu, pass, win)),
       out |-> IF win = 0 THEN Empty ELSE pass.units[win].seg]

-----------------------------------------------------------------------------
(* set_seg_reg: an instruction is put into the first free unit of its type. *)
(* When all general units are busy another one is added, and left empty.    *)
DelayOf(type, i) == CASE i.op = "fmov" -> 1
                      [] i.op = "fcmp" -> 2
                      [] OTHER         -> Delay[type, i.dbl]

SetSegReg(fpu, type, seg) ==
  LET free == { n \in DOMAIN fpu.units : fpu.units[n].type = type /\ ~fpu.units[n].busy }
  IN  IF free # {}
      THEN LET n == CHOOSE k \in free : \A l \in free : k <= l
           IN  [fpu EXCEPT !.units[n] = [@ EXCEPT !.busy = TRUE, !.seg = seg,
                                                  !.delay = DelayOf(type, seg.i)],
                           !.dests = IF HasDest(seg.i) THEN Append(@, seg.i.rd) ELSE @]
      ELSE IF type = "general" /\ Len(fpu.units) < MaxUnits
      THEN [fpu EXCEPT !.units = Append(@, FreeUnit("general"))]
      ELSE fpu

(* What it adds to the count of active instructions.                        *)
Counted(fpu, type) == IF Available(fpu, type) \/ type = "general" THEN 1 ELSE 0
=============================================================================
