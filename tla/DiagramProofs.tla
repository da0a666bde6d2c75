---------------------------- MODULE DiagramProofs ----------------------------
(***************************************************************************)
(* The rows of the diagram follow the instructions, and keep their order,  *)
(* for every program, configuration and sequence of cycles, exceptions,    *)
(* retries and resets.                                                     *)
(***************************************************************************)
EXTENDS Diagram, PipelineProofs, WellFoundedInduction

Rows == {iid.ifid, iid.idex, iid.exmem, iid.memwb}

(* What a row is about: a bubble, or the instruction fetched from the       *)
(* address that was noted for it.                                           *)
Names(row, i, text, notes) ==
  IF row = 0 THEN i.op = "nop" ELSE row \in DOMAIN notes /\ i = text[notes[row]]

(* The property is inductive, given that what is noted about the fetches is *)
(* never changed and that there is always a last one.                       *)
RowsInv ==
  /\ loaded \in Seq(Word) /\ loaded # << >>
  /\ iid \in [{"ifid", "idex", "exmem", "memwb"} -> Nat]
  /\ \A row \in Rows : row # 0 => row \in DOMAIN loaded /\ loaded[row] \in TextAddr
  /\ RowsNameInstructions

LEMMA RowsAreNames ==
  RowsNameInstructions <=> /\ Names(iid.ifid, ifid.i, prog, loaded)
                           /\ Names(iid.idex, idex.i, prog, loaded)
                           /\ Names(iid.exmem, exmem.i, prog, loaded)
                           /\ Names(iid.memwb, memwb.i, prog, loaded)
<1>1. DOMAIN Segments = {"ifid", "idex", "exmem", "memwb"}
  BY DEF Segments
<1>2. /\ Segments["ifid"] = ifid.i /\ Segments["idex"] = idex.i
      /\ Segments["exmem"] = exmem.i /\ Segments["memwb"] = memwb.i
  BY DEF Segments
<1> QED BY <1>1, <1>2 DEF RowsNameInstructions, Names

LEMMA RowsAreNamesThen ==
  /\ Names(iid'.ifid, ifid'.i, prog', loaded')
  /\ Names(iid'.idex, idex'.i, prog', loaded')
  /\ Names(iid'.exmem, exmem'.i, prog', loaded')
  /\ Names(iid'.memwb, memwb'.i, prog', loaded')
  => RowsNameInstructions'
<1>1. DOMAIN Segments' = {"ifid", "idex", "exmem", "memwb"}
  BY DEF Segments
<1>2. /\ Segments'["ifid"] = ifid'.i /\ Segments'["idex"] = idex'.i
      /\ Segments'["exmem"] = exmem'.i /\ Segments'["memwb"] = memwb'.i
  BY DEF Segments
<1> QED BY <1>1, <1>2 DEF RowsNameInstructions, Names

(* Noting a fetch leaves the notes of the earlier ones as they are, and the *)
(* fetch has the last; a note is added unless the last fetch was the same.  *)
LEMMA Noted ==
  ASSUME loaded \in Seq(Word), loaded # << >>, NEW address \in Word
  PROVE  /\ Loaded(address) \in Seq(Word) /\ Loaded(address) # << >>
         /\ \A row \in DOMAIN loaded : /\ row \in DOMAIN Loaded(address)
                                       /\ Loaded(address)[row] = loaded[row]
         /\ Len(Loaded(address)) \in DOMAIN Loaded(address) \ {0}
         /\ Len(Loaded(address)) \in Nat
         /\ Loaded(address)[Len(Loaded(address))] = address
         /\ Last(Loaded(address)) = address
         /\ Len(Loaded(address)) = IF address = Last(loaded) THEN Len(loaded)
                                   ELSE Len(loaded) + 1
<1>1. CASE address = Last(loaded)
  BY <1>1 DEF Loaded, Last
<1>2. CASE address # Last(loaded)
  BY <1>2 DEF Loaded, Last
<1> QED BY <1>1, <1>2

(* The address a cycle fetches from is a word.                              *)
LEMMA FetchedWord == ASSUME TypeOK, BackEnd PROVE pcID(gpr') \in Word
  BY BackEndType, IdTypes

LEMMA Ends ==
  ASSUME NextCycle
  PROVE  /\ thrown' = "none" <=> Complete
         /\ thrown' \in {"none", "IF", "diagram", "abort"}
              <=> ThrowIF \/ Overflow \/ Abort \/ Complete
  BY DEF NextCycle, ThrowWB, ThrowMEM, ThrowEX, ThrowID, ThrowIF, Overflow, Abort,
         Complete, Tick

(* A cycle that threw moves no instruction and no row.                      *)
LEMMA NamesAfterThrow ==
  ASSUME TypeOK, RowsInv, CycleRecorded, ~Complete
  PROVE  /\ RowsInv'
         /\ iid' = iid /\ diagram' = diagram
         /\ loaded' = loaded \/ (BackEnd /\ loaded' = Loaded(pcID(gpr')))
<1>1. iid' = iid /\ diagram' = diagram
  BY Ends DEF CycleRecorded
<1>2. UNCHANGED segRegs /\ prog' = prog
  BY OthersHold DEF CycleRecorded, NextCycle, ThrowWB, ThrowMEM, ThrowEX, ThrowID, ThrowIF,
     Overflow, Abort, Tick
<1>3. loaded' = loaded \/ (BackEnd /\ loaded' = Loaded(pcID(gpr')))
  BY Ends DEF CycleRecorded, ThrowIF, Overflow, Abort
<1>4. /\ loaded' \in Seq(Word) /\ loaded' # << >>
      /\ \A row \in DOMAIN loaded : row \in DOMAIN loaded' /\ loaded'[row] = loaded[row]
  BY <1>3, FetchedWord, Noted DEF RowsInv
<1>5. \A row \in Rows : row # 0 => row \in DOMAIN loaded' /\ loaded'[row] \in TextAddr
  BY <1>4 DEF RowsInv
<1>6. ASSUME NEW row \in Rows, NEW i, Names(row, i, prog, loaded)
      PROVE  Names(row, i, prog', loaded')
  BY <1>2, <1>4, <1>5, <1>6 DEF Names
<1>7. RowsNameInstructions'
  <2>1. /\ Names(iid.ifid, ifid.i, prog', loaded')
        /\ Names(iid.idex, idex.i, prog', loaded')
        /\ Names(iid.exmem, exmem.i, prog', loaded')
        /\ Names(iid.memwb, memwb.i, prog', loaded')
    BY <1>6, RowsAreNames DEF RowsInv, Rows
  <2> QED BY <1>1, <1>2, <2>1, RowsAreNamesThen DEF segRegs
<1> QED BY <1>1, <1>3, <1>4, <1>5, <1>7 DEF RowsInv, Rows

(* A row moves on with its instruction, is cleared with it, or is the one   *)
(* the instruction was given as it was fetched.                             *)
LEMMA NamesAfterCycle == ASSUME TypeOK, RowsInv, CycleRecorded, Complete PROVE RowsInv'
<1> DEFINE address == pcID(gpr')
           f == flushID(gpr')
<1>1. /\ loaded' = Loaded(address) /\ iid' = Moved(f) /\ thrown' = "none"
      /\ prog' = prog /\ address \in TextAddr /\ BackEnd
  BY Ends DEF CycleRecorded, Complete, Tick, IfThrows
<1>2. /\ loaded' \in Seq(Word) /\ loaded' # << >>
      /\ \A row \in DOMAIN loaded : row \in DOMAIN loaded' /\ loaded'[row] = loaded[row]
      /\ Len(loaded') \in Nat \ {0} /\ Len(loaded') \in DOMAIN loaded'
      /\ loaded'[Len(loaded')] = address
  BY <1>1, FetchedWord, Noted DEF RowsInv
<1>3. /\ iid.ifid \in Nat /\ iid.idex \in Nat /\ iid.exmem \in Nat /\ iid.memwb \in Nat
  BY DEF RowsInv
<1>4. /\ iid'.ifid = IF f > 0 THEN 0 ELSE IF Stall THEN iid.ifid ELSE Len(loaded')
      /\ iid'.idex = IF f > 1 \/ Stall THEN 0 ELSE iid.ifid
      /\ iid'.exmem = IF f > 2 THEN 0 ELSE iid.idex
      /\ iid'.memwb = iid.exmem
      /\ iid' \in [{"ifid", "idex", "exmem", "memwb"} -> Nat]
  BY <1>1, <1>2, <1>3 DEF Moved
<1>5. ASSUME NEW row \in Rows, NEW i, Names(row, i, prog, loaded)
      PROVE  Names(row, i, prog', loaded')
  BY <1>1, <1>2, <1>5 DEF Names
<1>6. ASSUME NEW i, i.op = "nop" PROVE Names(0, i, prog', loaded')
  BY <1>6 DEF Names
<1>7. /\ Names(iid.ifid, ifid.i, prog', loaded')
      /\ Names(iid.idex, idex.i, prog', loaded')
      /\ Names(iid.exmem, exmem.i, prog', loaded')
  BY <1>5, RowsAreNames DEF RowsInv, Rows
<1>8. Names(Len(loaded'), prog[address], prog', loaded')
  BY <1>1, <1>2 DEF Names
<1>9. Names(iid'.ifid, ifid'.i, prog', loaded')
  <2>1. ifid' = IF f > 0 THEN IfIdBubble ELSE IF Stall THEN ifid
                ELSE [i |-> prog[address], pc |-> pcIF(gpr')]
    BY DEF Complete, Advance, ifidNext
  <2> QED BY <1>4, <1>6, <1>7, <1>8, <2>1, BubbleOps
<1>10. Names(iid'.idex, idex'.i, prog', loaded')
  <2>1. idex'.i = IF f > 1 \/ Stall THEN IdExBubble.i ELSE ifid.i
    BY DEF Complete, Advance, idexNext
  <2> QED BY <1>4, <1>6, <1>7, <2>1, BubbleOps
<1>11. Names(iid'.exmem, exmem'.i, prog', loaded')
  <2>1. exmem'.i = IF f > 2 THEN ExMemBubble.i ELSE idex.i
    BY DEF Complete, Advance, exmemNext
  <2> QED BY <1>4, <1>6, <1>7, <2>1, BubbleOps
<1>12. Names(iid'.memwb, memwb'.i, prog', loaded')
  <2>1. memwb'.i = exmem.i
    BY DEF Complete, Advance, memwbNext
  <2> QED BY <1>4, <1>7, <2>1
<1>13. RowsNameInstructions'
  BY <1>9, <1>10, <1>11, <1>12, RowsAreNamesThen
<1>14. \A row \in Rows' : row # 0 => row \in DOMAIN loaded' /\ loaded'[row] \in TextAddr
  <2>1. Rows' \subseteq Rows \cup {0, Len(loaded')}
    BY <1>4 DEF Rows
  <2> QED BY <1>1, <1>2, <2>1 DEF RowsInv
<1> QED BY <1>2, <1>4, <1>13, <1>14 DEF RowsInv

(* An empty pipeline, at the start and after a reset.                       *)
Emptied ==
  /\ loaded = <<TextStart>> /\ iid = NoRows /\ diagram = << >> /\ nextPc = 0
  /\ cycle = 0 /\ thrown = "none"
  /\ ifid = IfIdBubble /\ idex = IdExBubble /\ exmem = ExMemBubble /\ memwb = MemWbBubble

LEMMA NamesAtStart == Emptied => RowsInv
<1> SUFFICES ASSUME Emptied PROVE RowsInv
  OBVIOUS
<1> USE DEF Emptied
<1>1. loaded \in Seq(Word) /\ loaded # << >>
  BY TextWord
<1>2. /\ iid \in [{"ifid", "idex", "exmem", "memwb"} -> Nat] /\ Rows = {0}
      /\ iid.ifid = 0 /\ iid.idex = 0 /\ iid.exmem = 0 /\ iid.memwb = 0
  BY DEF NoRows, Rows
<1>3. RowsNameInstructions
  BY <1>2, RowsAreNames, BubbleOps DEF Names
<1> QED BY <1>1, <1>2, <1>3 DEF RowsInv

LEMMA DiagramTypes == DiagramSpec => []TypeOK
<1>1. DiagramInit => TypeOK
  BY InitType DEF DiagramInit
<1>2. TypeOK /\ [CycleRecorded \/ DiagramReset]_<<vars, history>> => TypeOK'
  <2> SUFFICES ASSUME TypeOK, [CycleRecorded \/ DiagramReset]_<<vars, history>>
               PROVE  TypeOK'
    OBVIOUS
  <2>1. CASE CycleRecorded
    BY <2>1, NextCycleType DEF CycleRecorded
  <2>2. CASE DiagramReset
    BY <2>2, ResetType DEF DiagramReset
  <2>3. CASE UNCHANGED <<vars, history>>
    BY <2>3 DEF vars, segRegs, TypeOK
  <2> QED BY <2>1, <2>2, <2>3
<1> QED BY <1>1, <1>2, PTL DEF DiagramSpec

LEMMA RowsInvHolds == DiagramSpec => []RowsInv
<1>1. DiagramInit => RowsInv
  BY NamesAtStart DEF DiagramInit, Init, Emptied
<1>2. TypeOK /\ RowsInv /\ [CycleRecorded \/ DiagramReset]_<<vars, history>> => RowsInv'
  <2> SUFFICES ASSUME TypeOK, RowsInv, [CycleRecorded \/ DiagramReset]_<<vars, history>>
               PROVE  RowsInv'
    OBVIOUS
  <2>1. CASE CycleRecorded
    BY <2>1, NamesAfterThrow, NamesAfterCycle
  <2>2. CASE DiagramReset
    <3>1. Emptied'
      BY <2>2 DEF DiagramReset, Reset, Emptied
    <3> QED BY <3>1, NamesAtStart, PTL
  <2>3. CASE UNCHANGED <<vars, history>>
    BY <2>3 DEF vars, segRegs, history, RowsInv, Rows, RowsNameInstructions, Segments
  <2> QED BY <2>1, <2>2, <2>3
<1> QED BY <1>1, <1>2, DiagramTypes, PTL DEF DiagramSpec

(* For every program and configuration, whatever a cycle does or however it *)
(* ends, the row that moves with an instruction is the one of the address   *)
(* it was fetched from, and what has no row is a bubble.                    *)
THEOREM RowsFollowInstructions == DiagramSpec => []RowsNameInstructions
<1>1. RowsInv => RowsNameInstructions
  BY DEF RowsInv
<1> QED BY <1>1, RowsInvHolds, PTL

-----------------------------------------------------------------------------
(* The order of the rows.  Whoever entered the pipeline later has a later   *)
(* row: a fetch is given a new one unless it is of the address of the last, *)
(* and then the last is nobody's who is still in the pipeline, since the PC *)
(* leaves an address once the instruction there has gone on.                *)
Ordered == /\ \A r \in {iid.idex, iid.exmem, iid.memwb} : iid.ifid # 0 => iid.ifid > r
           /\ \A r \in {iid.exmem, iid.memwb} : iid.idex # 0 => iid.idex > r
           /\ iid.exmem # 0 => iid.exmem > iid.memwb

OrderInv ==
  /\ nextPc # 0 => MemBranch /\ exmem.taken
  /\ RowsAreTold => /\ Ordered
                    /\ Len(loaded) \in Rows => pc # Last(loaded)
  /\ RowsInOrder

(* When branches are not delayed the fetch is from the PC, unless a branch  *)
(* is flushed for in ID, which has what is fetched flushed too.             *)
LEMMA FetchedFromPc ==
  ASSUME RowsAreTold, NEW g
  PROVE  /\ pcMEM = pc
         /\ ~IdFlush(g) => pcID(g) = pc
         /\ ~IdFlush(g) /\ ~Stall => pcIF(g) = Plus(pc, 1)
         /\ Stall => ~IdFlush(g) /\ pcIF(g) = pc
         /\ pcID(g) # pc => /\ IdFlush(g) /\ ~IdTaken(g) /\ ~MemBranch
                            /\ pcIF(g) = Plus(pcID(g), 1)
         /\ MemBranch /\ exmem.taken => MemFlush
<1>1. pcMEM = pc /\ (MemBranch /\ exmem.taken => MemFlush)
  BY DEF RowsAreTold, pcMEM, MemFlush, MemBranch
<1>2. Stall => ~IdBranch
  BY DEF IdBranch
<1>3. IdTaken(g) => IdFlush(g)
  BY DEF RowsAreTold, IdTaken, IdFlush
<1>4. IdFlush(g) /\ ~IdTaken(g) => ~MemBranch
  BY DEF RowsAreTold, IdFlush, MemBranch
<1> QED BY <1>1, <1>2, <1>3, <1>4 DEF pcID, pcIF, IdFlush, IdTaken

(* The address behind is another address.                                   *)
LEMMA NextAddress == \A a \in Word : Plus(a, 1) # a
<1>1. WordSize \in Nat /\ WordSize > 1
  BY WordSizeAssumption, TextAssumption
  DEF WordSizeAssumption, TextAssumption, Word
<1>2. \A a \in 0 .. WordSize - 1 : (a + 1) % WordSize = IF a = WordSize - 1 THEN 0 ELSE a + 1
  BY <1>1
<1> QED BY <1>1, <1>2 DEF Plus, Word

(* If somebody in the pipeline has the last row after a fetch, he had it    *)
(* before, and it was of the same address.                                  *)
LEMMA NotAppended ==
  ASSUME RowsInv, NEW address \in Word
  PROVE  /\ Len(loaded) \in Nat \ {0} /\ Len(Loaded(address)) \in Nat
         /\ \A r \in Rows : r \in Nat /\ r <= Len(loaded) /\ r <= Len(Loaded(address))
         /\ Len(Loaded(address)) \in Rows
              => /\ Last(loaded) = address /\ Len(loaded) \in Rows
                 /\ address \in TextAddr
<1>1. Len(loaded) \in Nat \ {0} /\ \A r \in Rows : r \in Nat /\ r <= Len(loaded)
  BY DEF RowsInv, Rows
<1>2. /\ Len(Loaded(address)) \in Nat
      /\ Len(Loaded(address)) = IF address = Last(loaded) THEN Len(loaded) ELSE Len(loaded) + 1
  BY Noted DEF RowsInv
<1>3. Len(loaded) \in Rows => Last(loaded) \in TextAddr
  BY <1>1 DEF RowsInv, Last
<1> QED BY <1>1, <1>2, <1>3

LEMMA OrderAfterThrow ==
  ASSUME TypeOK, RowsInv, OrderInv, CycleRecorded, ~Complete PROVE OrderInv'
<1> DEFINE address == pcID(gpr')
<1>1. /\ iid' = iid /\ diagram' = diagram /\ exmem' = exmem /\ status' = status
  BY NamesAfterThrow, OthersHold DEF CycleRecorded, segRegs
<1>2. Rows' = Rows /\ RowsAreTold' = RowsAreTold /\ MemBranch' = MemBranch
  BY <1>1 DEF Rows, RowsAreTold, MemBranch
<1>3. nextPc' = nextPc \/ nextPc' = nextPcMEM
  BY DEF CycleRecorded, NextCycle, ThrowWB, ThrowMEM, ThrowEX, ThrowID, ThrowIF,
         Overflow, Abort
<1>4. nextPc' # 0 => MemBranch' /\ exmem'.taken
  BY <1>1, <1>2, <1>3 DEF OrderInv, nextPcMEM
<1>5. RowsAreTold => Ordered'
  BY <1>1 DEF OrderInv, Ordered
<1>6. RowsInOrder'
  BY <1>1, <1>2 DEF OrderInv, RowsInOrder
<1>7. ASSUME RowsAreTold, Len(loaded') \in Rows PROVE pc' # Last(loaded')
  <2>1. CASE ThrowWB \/ ThrowMEM \/ ThrowEX \/ ThrowID
    <3>1. pc' = pc
      BY <1>7, <2>1, FetchedFromPc DEF ThrowWB, ThrowMEM, ThrowEX, ThrowID
    <3>2. loaded' = loaded
      BY <2>1 DEF CycleRecorded, ThrowWB, ThrowMEM, ThrowEX, ThrowID, Tick
    <3> QED BY <1>7, <3>1, <3>2 DEF OrderInv
  <2>2. CASE ThrowIF \/ Overflow \/ Abort
    <3>1. loaded' = Loaded(address) /\ address \in Word
      BY <2>2, Ends, FetchedWord DEF CycleRecorded, ThrowIF, Overflow, Abort
    <3>2. /\ Last(loaded) = address /\ Len(loaded) \in Rows /\ address \in TextAddr
          /\ Last(loaded') = address
      BY <1>7, <3>1, NotAppended, Noted DEF RowsInv
    <3>3. address # pc
      BY <1>7, <3>2 DEF OrderInv
    <3>4. pcIF(gpr') = Plus(address, 1) /\ Plus(address, 1) # address
      BY <1>7, <3>1, <3>3, FetchedFromPc, NextAddress
    <3>5. pc' = pcIF(gpr')
      BY <2>2, <3>2 DEF ThrowIF, IfThrows, Overflow, Abort
    <3> QED BY <3>2, <3>4, <3>5
  <2> QED BY <2>1, <2>2 DEF CycleRecorded, NextCycle
<1> QED BY <1>2, <1>4, <1>5, <1>6, <1>7 DEF OrderInv

(* The column a cycle adds is the last of the diagram.                      *)
LEMMA ColumnIsLast ==
  ASSUME TypeOK, CycleRecorded, Complete
  PROVE  diagram' # << >> /\ Last(diagram') = CurrentInstructions
<1>1. diagram' = Column(CurrentInstructions) /\ cycle' = cycle + 1 /\ cycle' \in Nat \ {0}
  BY Ends, StateAssumption DEF CycleRecorded, Complete, Tick, TypeOK, StateAssumption
<1>2. \A n \in Nat : \A e : Len([c \in 1 .. n |-> e[c]]) = n
  OBVIOUS
<1>3. DOMAIN diagram' = 1 .. cycle' /\ diagram'[cycle'] = CurrentInstructions
  BY <1>1 DEF Column
<1>4. Len(diagram') = cycle'
  <2>1. diagram' = [c \in 1 .. cycle' |-> diagram'[c]]
    BY <1>1 DEF Column
  <2> QED BY <1>1, <1>2, <2>1
<1> QED BY <1>1, <1>3, <1>4 DEF Last

LEMMA OrderAfterCycle ==
  ASSUME TypeOK, RowsInv, OrderInv, CycleRecorded, Complete PROVE OrderInv'
<1> DEFINE g == gpr'
           address == pcID(g)
           f == flushID(g)
           new == Len(loaded')
<1>1. /\ loaded' = Loaded(address) /\ iid' = Moved(f) /\ status' = status
      /\ address \in Word /\ BackEnd /\ nextPc' = 0
      /\ pc' = IF nextPcMEM # 0 THEN nextPcMEM ELSE pcIF(g)
  BY Ends, FetchedWord DEF CycleRecorded, Complete, Tick
<1>2. RowsAreTold' = RowsAreTold
  BY <1>1 DEF RowsAreTold
<1>3. /\ Len(loaded) \in Nat \ {0} /\ new \in Nat
      /\ \A r \in Rows : r \in Nat /\ r <= Len(loaded) /\ r <= new
      /\ new \in Rows => /\ Last(loaded) = address /\ Len(loaded) \in Rows
      /\ Last(loaded') = address /\ new # 0
  BY <1>1, NotAppended, Noted DEF RowsInv
<1>4. /\ iid'.ifid = IF f > 0 THEN 0 ELSE IF Stall THEN iid.ifid ELSE new
      /\ iid'.idex = IF f > 1 \/ Stall THEN 0 ELSE iid.ifid
      /\ iid'.exmem = IF f > 2 THEN 0 ELSE iid.idex
      /\ iid'.memwb = iid.exmem
  BY <1>1 DEF Moved
<1>5. Rows' \subseteq Rows \cup {0, iid'.ifid}
  BY <1>4 DEF Rows
<1>6. f \in {0, 1, 3} /\ (f = 0 => ~IdFlush(g) /\ ~MemFlush) /\ (IdFlush(g) => f = 1)
  BY <1>1, BackEndType, IdTypes DEF flushID, flushMEM
<1>7. nextPcMEM # 0 => MemBranch /\ exmem.taken
  BY DEF OrderInv, nextPcMEM
<1>8. ASSUME RowsAreTold, ~IdFlush(g) PROVE \A r \in Rows : r < new
  <2>1. address = pc
    BY <1>8, FetchedFromPc
  <2>2. new \notin Rows
    BY <1>3, <1>8, <2>1 DEF OrderInv
  <2> QED BY <1>3, <2>2
<1>9. RowsAreTold => Ordered'
  <2> SUFFICES ASSUME RowsAreTold PROVE Ordered'
    OBVIOUS
  <2>1. /\ iid.ifid \in Nat /\ iid.idex \in Nat /\ iid.exmem \in Nat /\ iid.memwb \in Nat
        /\ \A r \in {iid.idex, iid.exmem, iid.memwb} : iid.ifid # 0 => iid.ifid > r
        /\ \A r \in {iid.exmem, iid.memwb} : iid.idex # 0 => iid.idex > r
        /\ iid.exmem # 0 => iid.exmem > iid.memwb
    BY <1>3 DEF OrderInv, Ordered, Rows
  <2>2. f = 0 => new > iid.ifid /\ new > iid.idex /\ new > iid.exmem
    BY <1>6, <1>8 DEF Rows
  <2>3. \A r \in {iid'.idex, iid'.exmem, iid'.memwb} : iid'.ifid # 0 => iid'.ifid > r
    BY <1>3, <1>4, <1>6, <2>1, <2>2
  <2>4. /\ \A r \in {iid'.exmem, iid'.memwb} : iid'.idex # 0 => iid'.idex > r
        /\ iid'.exmem # 0 => iid'.exmem > iid'.memwb
    BY <1>4, <1>6, <2>1
  <2> QED BY <2>3, <2>4 DEF Ordered
<1>10. ASSUME RowsAreTold, new \in Rows' PROVE pc' # Last(loaded')
  <2>1. CASE IdFlush(g)
    <3>1. new \in Rows
      BY <1>3, <1>4, <1>5, <1>6, <1>10, <2>1
    <3>2. address # pc
      BY <1>3, <1>10, <3>1 DEF OrderInv
    <3>3. pc' = Plus(address, 1)
      BY <1>1, <1>7, <1>10, <3>2, FetchedFromPc
    <3> QED BY <1>1, <1>3, <3>3, NextAddress
  <2>2. CASE ~IdFlush(g)
    <3>1. new \notin Rows /\ iid.ifid # new /\ address = pc
      BY <1>3, <1>8, <1>10, <2>2, FetchedFromPc DEF Rows
    <3>2. f = 0 /\ ~Stall
      BY <1>3, <1>4, <1>5, <1>6, <1>10, <3>1
    <3>3. pc' = Plus(pc, 1)
      BY <1>1, <1>6, <1>7, <1>10, <2>2, <3>2, FetchedFromPc
    <3> QED BY <1>1, <1>3, <3>1, <3>3, NextAddress
  <2> QED BY <2>1, <2>2
<1>11. RowsInOrder'
  <2> SUFFICES ASSUME RowsAreTold,
                      NEW s \in (IF iid'.ifid = 0 THEN 2 ELSE 1) .. 5,
                      NEW t \in (IF iid'.ifid = 0 THEN 2 ELSE 1) .. 5,
                      s < t, CurrentInstructions[s] # 0, CurrentInstructions[t] # 0
               PROVE  CurrentInstructions[s] > CurrentInstructions[t]
    BY <1>2, ColumnIsLast DEF RowsInOrder
  <2>1. CASE s = 1
    <3>1. f = 0
      BY <1>4, <1>6, <2>1
    <3>2. \A r \in Rows : new > r
      BY <1>3, <1>6, <1>8, <3>1
    <3>3. t \in 2 .. 5
      BY <2>1
    <3>4. CurrentInstructions[t] \in Rows
      BY <3>3 DEF CurrentInstructions, Rows
    <3> QED BY <2>1, <3>2, <3>4 DEF CurrentInstructions
  <2>2. CASE s # 1
    <3>1. s \in 2 .. 4 /\ t \in s + 1 .. 5
      BY <2>2
    <3> QED BY <3>1 DEF CurrentInstructions, OrderInv, Ordered
  <2> QED BY <2>1, <2>2
<1> QED BY <1>1, <1>2, <1>9, <1>10, <1>11 DEF OrderInv

LEMMA OrderAtStart == Emptied => OrderInv
<1> SUFFICES ASSUME Emptied PROVE OrderInv
  OBVIOUS
<1>1. /\ iid.ifid = 0 /\ iid.idex = 0 /\ iid.exmem = 0 /\ iid.memwb = 0
      /\ Rows = {0} /\ Len(loaded) = 1
  BY DEF Emptied, NoRows, Rows
<1> QED BY <1>1 DEF Emptied, OrderInv, Ordered, RowsInOrder

LEMMA OrderInvHolds == DiagramSpec => []OrderInv
<1>1. DiagramInit => OrderInv
  BY OrderAtStart DEF DiagramInit, Init, Emptied
<1>2. TypeOK /\ RowsInv /\ OrderInv /\ [CycleRecorded \/ DiagramReset]_<<vars, history>>
        => OrderInv'
  <2> SUFFICES ASSUME TypeOK, RowsInv, OrderInv,
                      [CycleRecorded \/ DiagramReset]_<<vars, history>>
               PROVE  OrderInv'
    OBVIOUS
  <2>1. CASE CycleRecorded
    BY <2>1, OrderAfterThrow, OrderAfterCycle
  <2>2. CASE DiagramReset
    <3>1. Emptied'
      BY <2>2 DEF DiagramReset, Reset, Emptied
    <3> QED BY <3>1, OrderAtStart, PTL
  <2>3. CASE UNCHANGED <<vars, history>>
    <3>1. UNCHANGED <<status, pc, exmem, nextPc, loaded, iid, diagram>>
      BY <2>3 DEF vars, history, segRegs
    <3>2. UNCHANGED <<RowsAreTold, Ordered, Rows, MemBranch, RowsInOrder>>
      BY <3>1 DEF RowsAreTold, Ordered, Rows, MemBranch, RowsInOrder
    <3> QED BY <3>1, <3>2 DEF OrderInv
  <2> QED BY <2>1, <2>2, <2>3
<1> QED BY <1>1, <1>2, DiagramTypes, RowsInvHolds, PTL DEF DiagramSpec

(* When branches are not delayed, and not flushed for in MEM: for every     *)
(* program and sequence of cycles, exceptions, retries and resets, no two   *)
(* instructions that go on share a row in a column, and the one that        *)
(* entered the pipeline first is higher up.                                 *)
THEOREM RowsKeepOrder == DiagramSpec => []RowsInOrder
<1>1. OrderInv => RowsInOrder
  BY DEF OrderInv
<1> QED BY <1>1, OrderInvHolds, PTL

-----------------------------------------------------------------------------
(* The cells of a row.  A cycle that threw throws until the next reset, so  *)
(* the columns up to one that did not are all there.                        *)
Recorded ==
  /\ diagram \in Seq(Seq(Nat)) /\ Len(diagram) < MaxDiagram
  /\ IF thrown = "none" THEN Len(diagram) = cycle ELSE Len(diagram) < cycle
  /\ \A c \in DOMAIN diagram :
       /\ Len(diagram[c]) = 5
       /\ \A s \in 1 .. 5 : diagram[c][s] <= Len(loaded)

(* The cell of a row in a column: of two stages the later one.              *)
LastStage(column, row) ==
  IF column[5] = row THEN 5 ELSE IF column[4] = row THEN 4 ELSE IF column[3] = row THEN 3
  ELSE IF column[2] = row THEN 2 ELSE IF column[1] = row THEN 1 ELSE 0

CellOf(columns, row, c) == IF c \in DOMAIN columns THEN LastStage(columns[c], row) ELSE 0

(* The rows in the pipeline have a cell in the last column, at the stage    *)
(* they are behind, or still in; the last fetch has one in IF, unless that  *)
(* instruction has gone on.                                                 *)
Staged ==
  /\ iid.ifid # 0 => CellOf(diagram, iid.ifid, cycle) \in {1, 2}
  /\ iid.idex # 0 => CellOf(diagram, iid.idex, cycle) = 2
  /\ iid.exmem # 0 => CellOf(diagram, iid.exmem, cycle) = 3
  /\ iid.memwb # 0 => CellOf(diagram, iid.memwb, cycle) = 4
  /\ cycle # 0 /\ Len(loaded) \notin Rows => CellOf(diagram, Len(loaded), cycle) = 1

(* A row that has a cell in the last column has one in each since its first.*)
Contiguous ==
  \A row \in DOMAIN loaded :
    CellOf(diagram, row, cycle) > 0 =>
      \A b \in 1 .. cycle : \A c \in b .. cycle :
        CellOf(diagram, row, b) > 0 => CellOf(diagram, row, c) > 0

(* It is in the stage it was in, in the column before, or in the next.      *)
Stepwise ==
  \A row \in DOMAIN loaded :
    CellOf(diagram, row, cycle) > 0 =>
      CellOf(diagram, row, cycle) - CellOf(diagram, row, cycle - 1) \in {0, 1}

WholeInv ==
  /\ Recorded
  /\ RowsAreTold /\ thrown = "none" => Staged /\ Contiguous /\ Stepwise

LEMMA LeastElement ==
  ASSUME NEW T, T \subseteq Nat, T # {}
  PROVE  \E x \in T : \A y \in T : x <= y
<1>1. PICK x \in T : \A y \in T : ~(<<y, x>> \in OpToRel(<, Nat))
  BY WFMin, NatLessThanWellFounded, Zenon
<1>2. \A y \in T : ~(y < x)
  BY <1>1, Zenon DEF OpToRel
<1> QED BY <1>2

LEMMA MaxIs == ASSUME NEW S, S \subseteq Nat, NEW m \in S, \A y \in S : m >= y
               PROVE  Max(S) = m
<1>1. PICK x \in S : x = Max(S) /\ \A y \in S : x >= y
  BY DEF Max
<1> QED BY <1>1

LEMMA SelectLast ==
  ASSUME NEW column, Len(column) = 5, NEW row
  PROVE  LET I == { i \in 1 .. Len(column) : column[i] = row }
         IN  (IF I # {} THEN Max(I) ELSE 0) = LastStage(column, row)
<1> DEFINE I == { i \in 1 .. Len(column) : column[i] = row }
<1>1. I = { i \in {1, 2, 3, 4, 5} : column[i] = row }
  OBVIOUS
<1>2. \A m \in I : (\A y \in I : m >= y) => Max(I) = m
  BY MaxIs
<1> QED BY <1>1, <1>2 DEF LastStage

LEMMA CellIs ==
  ASSUME \A c \in DOMAIN diagram : Len(diagram[c]) = 5, NEW row, NEW c
  PROVE  Cell(row, c) = CellOf(diagram, row, c)
<1> DEFINE I == { i \in 1 .. Len(diagram[c]) : diagram[c][i] = row }
<1>1. Cell(row, c) = IF c \in DOMAIN diagram THEN (IF I # {} THEN Max(I) ELSE 0) ELSE 0
  BY DEF Cell, SelectLastInSeq
<1> QED BY <1>1, SelectLast DEF CellOf

LEMMA SeqElements ==
  ASSUME NEW T, NEW q \in Seq(T), NEW s \in 1 .. Len(q) PROVE q[s] \in T
OBVIOUS

LEMMA ColumnsAre ==
  ASSUME Recorded, Len(loaded) \in Nat, NEW c \in DOMAIN diagram
  PROVE  /\ diagram[c] \in Seq(Nat) /\ Len(diagram[c]) = 5
         /\ \A s \in 1 .. 5 : diagram[c][s] \in Nat /\ diagram[c][s] <= Len(loaded)
<1>1. diagram[c] \in Seq(Nat) /\ Len(diagram[c]) = 5
  BY DEF Recorded
<1>2. \A s \in 1 .. 5 : diagram[c][s] \in Nat
  BY <1>1, SeqElements
<1>3. \A s \in 1 .. 5 : diagram[c][s] <= Len(loaded)
  BY DEF Recorded
<1> QED BY <1>1, <1>2, <1>3

(* A cycle adds a column to those there are.                                *)
LEMMA Extended ==
  ASSUME TypeOK, RowsInv, Recorded, thrown = "none", CycleRecorded, Complete
  PROVE  /\ cycle \in Nat /\ cycle' = cycle + 1
         /\ DOMAIN diagram = 1 .. cycle /\ DOMAIN diagram' = 1 .. cycle + 1
         /\ \A c \in 1 .. cycle : diagram'[c] = diagram[c]
         /\ diagram'[cycle + 1] = CurrentInstructions
         /\ Recorded'
<1>1. /\ cycle \in Nat /\ cycle' = cycle + 1 /\ cycle + 1 < MaxDiagram
      /\ diagram' = Column(CurrentInstructions) /\ thrown' = "none"
  BY Ends, StateAssumption DEF CycleRecorded, Complete, Tick, TypeOK, StateAssumption
<1>2. DOMAIN diagram = 1 .. cycle /\ Len(diagram) = cycle
  BY <1>1 DEF Recorded
<1>3. /\ DOMAIN diagram' = 1 .. cycle + 1 /\ diagram'[cycle + 1] = CurrentInstructions
      /\ \A c \in 1 .. cycle : diagram'[c] = diagram[c]
  BY <1>1, <1>2 DEF Column
<1>4. /\ Len(loaded) \in Nat /\ Len(loaded') \in Nat /\ Len(loaded') >= Len(loaded)
      /\ \A r \in Rows : r \in Nat /\ r <= Len(loaded')
  <2>1. loaded' = Loaded(pcID(gpr')) /\ pcID(gpr') \in Word
    BY Ends, FetchedWord DEF CycleRecorded, Complete
  <2> QED BY <2>1, NotAppended, Noted DEF RowsInv
<1>5. /\ CurrentInstructions \in Seq(Nat) /\ Len(CurrentInstructions) = 5
      /\ \A s \in 1 .. 5 : CurrentInstructions[s] <= Len(loaded')
  BY <1>4 DEF CurrentInstructions, Rows
<1>6. \A c \in 1 .. cycle : /\ diagram[c] \in Seq(Nat) /\ Len(diagram[c]) = 5
                            /\ \A s \in 1 .. 5 : diagram[c][s] \in Nat
                                                 /\ diagram[c][s] <= Len(loaded)
  BY <1>2, <1>4, ColumnsAre
<1>7. ASSUME NEW c \in 1 .. cycle + 1
      PROVE  /\ diagram'[c] \in Seq(Nat) /\ Len(diagram'[c]) = 5
             /\ \A s \in 1 .. 5 : diagram'[c][s] <= Len(loaded')
  <2>1. CASE c = cycle + 1
    BY <1>3, <1>5, <2>1
  <2>2. CASE c # cycle + 1
    <3>1. c \in 1 .. cycle /\ diagram'[c] = diagram[c]
      BY <1>1, <1>3, <2>2
    <3>2. ASSUME NEW s \in 1 .. 5 PROVE diagram[c][s] <= Len(loaded')
      <4>1. diagram[c][s] \in Nat /\ diagram[c][s] <= Len(loaded)
        BY <1>6, <3>1
      <4> QED BY <1>4, <4>1
    <3> QED BY <1>6, <3>1, <3>2
  <2> QED BY <2>1, <2>2
<1>8. diagram' \in Seq(Seq(Nat)) /\ Len(diagram') = cycle + 1
  <2>1. diagram' = [c \in 1 .. cycle + 1 |-> diagram'[c]]
    BY <1>1 DEF Column
  <2>2. \A n \in Nat : \A e : (\A c \in 1 .. n : e[c] \in Seq(Nat))
          => [c \in 1 .. n |-> e[c]] \in Seq(Seq(Nat)) /\ Len([c \in 1 .. n |-> e[c]]) = n
    OBVIOUS
  <2> QED BY <1>1, <1>7, <2>1, <2>2
<1> QED BY <1>1, <1>2, <1>3, <1>7, <1>8 DEF Recorded

LEMMA RecordedAfterThrow ==
  ASSUME TypeOK, RowsInv, Recorded, CycleRecorded, ~Complete PROVE Recorded'
<1>1. /\ diagram' = diagram /\ thrown' # "none"
      /\ loaded' = loaded \/ (BackEnd /\ loaded' = Loaded(pcID(gpr')))
  BY NamesAfterThrow, Ends DEF CycleRecorded
<1>2. cycle \in 0 .. MaxDiagram /\ cycle' = IF cycle < MaxDiagram THEN cycle + 1 ELSE cycle
  BY DEF TypeOK, CycleRecorded, NextCycle, ThrowWB, ThrowMEM, ThrowEX, ThrowID, ThrowIF,
         Overflow, Abort, Complete, Tick
<1>3. Len(loaded) \in Nat /\ Len(loaded') \in Nat /\ Len(loaded') >= Len(loaded)
  BY <1>1, FetchedWord, NotAppended, Noted DEF RowsInv
<1>4. Len(diagram) \in Nat /\ Len(diagram) < cycle'
  BY <1>2, StateAssumption DEF Recorded, StateAssumption
<1>5. ASSUME NEW c \in DOMAIN diagram
      PROVE  Len(diagram[c]) = 5 /\ \A s \in 1 .. 5 : diagram[c][s] <= Len(loaded')
  BY <1>3, ColumnsAre
<1> QED BY <1>1, <1>4, <1>5 DEF Recorded

(* How the rows move on: what is fetched has a row nobody in the pipeline   *)
(* has, but for a branch that ID flushes for and does not take.             *)
LEMMA Movement ==
  ASSUME TypeOK, RowsInv, OrderInv, ThrowInv, thrown = "none", RowsAreTold,
         CycleRecorded, Complete
  PROVE  LET new == Len(loaded')
             f   == flushID(gpr')
         IN  /\ Len(loaded) \in Nat \ {0} /\ new \in Nat \ {0}
             /\ new = Len(loaded) \/ new = Len(loaded) + 1
             /\ \A r \in Rows : r \in Nat /\ r <= Len(loaded)
             /\ iid'.ifid = IF f > 0 THEN 0 ELSE IF Stall THEN iid.ifid ELSE new
             /\ iid'.idex = IF f > 1 \/ Stall THEN 0 ELSE iid.ifid
             /\ iid'.exmem = IF f > 2 THEN 0 ELSE iid.idex
             /\ iid'.memwb = iid.exmem
             /\ f = IF IdFlush(gpr') THEN 1 ELSE IF MemFlush THEN 3 ELSE 0
             /\ new \in Rows => IdFlush(gpr') /\ ~Stall /\ new = iid.ifid
<1> DEFINE new == Len(loaded')
<1>1. /\ loaded' = Loaded(pcID(gpr')) /\ iid' = Moved(flushID(gpr')) /\ pcID(gpr') \in Word
  BY Ends, FetchedWord DEF CycleRecorded, Complete
<1>2. /\ Len(loaded) \in Nat \ {0} /\ new \in Nat \ {0}
      /\ new = Len(loaded) \/ new = Len(loaded) + 1
      /\ \A r \in Rows : r \in Nat /\ r <= Len(loaded)
      /\ new \in Rows => Last(loaded) = pcID(gpr') /\ Len(loaded) \in Rows /\ new = Len(loaded)
  BY <1>1, NotAppended, Noted DEF RowsInv
<1>3. flushID(gpr') = IF IdFlush(gpr') THEN 1 ELSE IF MemFlush THEN 3 ELSE 0
  BY DEF flushID, flushMEM, ThrowInv, Follows
<1>4. ASSUME new \in Rows PROVE IdFlush(gpr') /\ ~Stall /\ new = iid.ifid
  <2>1. pcID(gpr') # pc
    BY <1>2, <1>4 DEF OrderInv
  <2>2. IdFlush(gpr') /\ ~Stall /\ Branch(ifid.i)
    BY <2>1, FetchedFromPc DEF IdFlush, IdBranch
  <2>3. iid.ifid # 0
    BY <2>2, RowsAreNames DEF RowsInv, Names, Branch
  <2> QED BY <1>2, <1>4, <2>2, <2>3 DEF OrderInv, Ordered, Rows
<1> QED BY <1>1, <1>2, <1>3, <1>4 DEF Moved

(* The cells of the columns there were stay; in the new one a row has the   *)
(* stage it is in.                                                          *)
LEMMA NewCells ==
  ASSUME TypeOK, RowsInv, Recorded, thrown = "none", CycleRecorded, Complete, NEW row
  PROVE  /\ \A c \in 0 .. cycle : CellOf(diagram', row, c) = CellOf(diagram, row, c)
         /\ CellOf(diagram', row, cycle') = LastStage(CurrentInstructions, row)
BY Extended DEF CellOf

LEMMA StagedKept ==
  ASSUME TypeOK, RowsInv, OrderInv, ThrowInv, Recorded, thrown = "none", RowsAreTold,
         CycleRecorded, Complete
  PROVE  Staged'
<1> DEFINE new == Len(loaded')
<1>1. /\ new \in Nat \ {0}
      /\ iid'.ifid \in {0, new} \/ (iid'.ifid = iid.ifid /\ Stall)
      /\ iid'.ifid # 0 => ~IdFlush(gpr')
      /\ iid'.idex \in {0, iid.ifid} /\ iid'.exmem \in {0, iid.idex} /\ iid'.memwb = iid.exmem
      /\ new \in Rows => new = iid.ifid /\ iid'.idex = new /\ IdFlush(gpr')
  BY Movement
<1>2. \A r : CellOf(diagram', r, cycle') = LastStage(CurrentInstructions, r)
  BY NewCells
<1>3. /\ \A r \in {iid.idex, iid.exmem, iid.memwb} : iid.ifid # 0 => iid.ifid # r
      /\ \A r \in {iid.exmem, iid.memwb} : iid.idex # 0 => iid.idex # r
      /\ iid.exmem # 0 => iid.exmem # iid.memwb
  <2>1. \A r \in Rows : r \in Nat
    BY Movement
  <2> QED BY <2>1 DEF OrderInv, Ordered, Rows
<1>4. /\ iid.ifid # 0 => LastStage(CurrentInstructions, iid.ifid) = 2
      /\ iid.idex # 0 => LastStage(CurrentInstructions, iid.idex) = 3
      /\ iid.exmem # 0 => LastStage(CurrentInstructions, iid.exmem) = 4
      /\ new \notin Rows => LastStage(CurrentInstructions, new) = 1
  BY <1>3 DEF LastStage, CurrentInstructions, Rows
<1>5. iid'.ifid # 0 => CellOf(diagram', iid'.ifid, cycle') \in {1, 2}
  BY <1>1, <1>2, <1>4
<1>6. /\ iid'.idex # 0 => CellOf(diagram', iid'.idex, cycle') = 2
      /\ iid'.exmem # 0 => CellOf(diagram', iid'.exmem, cycle') = 3
      /\ iid'.memwb # 0 => CellOf(diagram', iid'.memwb, cycle') = 4
  BY <1>1, <1>2, <1>4
<1>7. new \notin Rows' => CellOf(diagram', new, cycle') = 1
  <2>1. iid'.idex \in Rows'
    BY DEF Rows
  <2> QED BY <1>1, <1>2, <1>4, <2>1
<1> QED BY <1>5, <1>6, <1>7 DEF Staged

(* A row that is to come has no cell.                                       *)
LEMMA NotNoted ==
  ASSUME RowsInv, Recorded, NEW c
  PROVE  CellOf(diagram, Len(loaded) + 1, c) = 0
<1>1. Len(loaded) \in Nat
  BY DEF RowsInv
<1>2. CASE c \in DOMAIN diagram
  <2>1. ASSUME NEW s \in 1 .. 5 PROVE diagram[c][s] # Len(loaded) + 1
    <3>1. diagram[c][s] \in Nat /\ diagram[c][s] <= Len(loaded)
      BY <1>1, <1>2, ColumnsAre
    <3> QED BY <1>1, <3>1
  <2> QED BY <1>2, <2>1 DEF CellOf, LastStage
<1> QED BY <1>2 DEF CellOf

(* A row that has a cell in the new column moved on by a stage at most, or  *)
(* is that of the first fetch of an instruction.                            *)
LEMMA Entered ==
  ASSUME TypeOK, RowsInv, OrderInv, ThrowInv, Recorded, Staged, thrown = "none", RowsAreTold,
         CycleRecorded, Complete,
         NEW row, row # 0, LastStage(CurrentInstructions, row) > 0
  PROVE  LET stage == LastStage(CurrentInstructions, row)
             before == CellOf(diagram, row, cycle)
         IN  /\ before \in Nat /\ stage - before \in {0, 1}
             /\ before = 0 => \A c \in 0 .. cycle : CellOf(diagram, row, c) = 0
<1> DEFINE new == Len(loaded')
           stage == LastStage(CurrentInstructions, row)
           before == CellOf(diagram, row, cycle)
<1>1. row \in {new, iid.ifid, iid.idex, iid.exmem, iid.memwb}
  BY DEF LastStage, CurrentInstructions
<1>2. CASE row \in Rows
  <2>1. /\ row = iid.memwb => stage = 5 /\ before = 4
        /\ row = iid.exmem /\ row # iid.memwb => stage = 4 /\ before = 3
        /\ row = iid.idex /\ row # iid.exmem /\ row # iid.memwb => stage = 3 /\ before = 2
        /\ row = iid.ifid /\ row # iid.idex /\ row # iid.exmem /\ row # iid.memwb
             => stage = 2 /\ before \in {1, 2}
    BY DEF LastStage, CurrentInstructions, Staged
  <2> QED BY <1>2, <2>1 DEF Rows
<1>3. CASE row \notin Rows
  <2>1. row = new /\ stage = 1
    BY <1>1, <1>3 DEF Rows, LastStage, CurrentInstructions
  <2>2. CASE cycle = 0
    <3>1. DOMAIN diagram = 1 .. 0
      BY <2>2, Extended
    <3> QED BY <2>1, <2>2, <3>1 DEF CellOf
  <2>3. CASE cycle # 0 /\ new = Len(loaded)
    BY <1>3, <2>1, <2>3 DEF Staged
  <2>4. CASE new = Len(loaded) + 1
    BY <2>1, <2>4, NotNoted, Extended
  <2> QED BY <2>2, <2>3, <2>4, Movement
<1> QED BY <1>2, <1>3

LEMMA ContiguousKept ==
  ASSUME TypeOK, RowsInv, OrderInv, ThrowInv, Recorded, Staged, Contiguous, thrown = "none",
         RowsAreTold, CycleRecorded, Complete
  PROVE  Contiguous'
<1>1. cycle \in Nat /\ cycle' = cycle + 1
  BY Extended
<1> SUFFICES ASSUME NEW row \in DOMAIN loaded', CellOf(diagram', row, cycle') > 0,
                    NEW b \in 1 .. cycle', NEW c \in b .. cycle',
                    CellOf(diagram', row, b) > 0
             PROVE  CellOf(diagram', row, c) > 0
  BY DEF Contiguous
<1>2. /\ \A d \in 0 .. cycle : CellOf(diagram', row, d) = CellOf(diagram, row, d)
      /\ CellOf(diagram', row, cycle') = LastStage(CurrentInstructions, row)
  BY NewCells
<1>3. row \in Nat \ {0} /\ Len(loaded) \in Nat /\ DOMAIN loaded = 1 .. Len(loaded)
  <2>1. loaded' \in Seq(Word)
    BY NamesAfterCycle DEF RowsInv
  <2> QED BY <2>1, Movement DEF RowsInv
<1>4. CASE c # cycle'
  <2>1. c \in b .. cycle /\ b \in 1 .. cycle
    BY <1>1, <1>4
  <2>2. CellOf(diagram, row, cycle) > 0
    BY <1>1, <1>2, <1>3, <2>1, Entered
  <2>3. row \in DOMAIN loaded
    <3>1. cycle \in DOMAIN diagram /\ LastStage(diagram[cycle], row) > 0
      BY <2>2 DEF CellOf
    <3>2. PICK s \in 1 .. 5 : diagram[cycle][s] = row
      BY <3>1 DEF LastStage
    <3>3. row <= Len(loaded)
      BY <1>3, <3>1, <3>2, ColumnsAre
    <3> QED BY <1>3, <3>3
  <2> QED BY <1>1, <1>2, <2>1, <2>2, <2>3 DEF Contiguous
<1> QED BY <1>4

LEMMA StepwiseKept ==
  ASSUME TypeOK, RowsInv, OrderInv, ThrowInv, Recorded, Staged, thrown = "none", RowsAreTold,
         CycleRecorded, Complete
  PROVE  Stepwise'
<1>1. cycle \in Nat /\ cycle' - 1 = cycle
  BY Extended
<1> SUFFICES ASSUME NEW row \in DOMAIN loaded', CellOf(diagram', row, cycle') > 0
             PROVE  CellOf(diagram', row, cycle') - CellOf(diagram', row, cycle) \in {0, 1}
  BY <1>1 DEF Stepwise
<1>2. row # 0
  <2>1. loaded' \in Seq(Word)
    BY NamesAfterCycle DEF RowsInv
  <2> QED BY <2>1
<1>3. /\ CellOf(diagram', row, cycle) = CellOf(diagram, row, cycle)
      /\ CellOf(diagram', row, cycle') = LastStage(CurrentInstructions, row)
  BY <1>1, NewCells
<1> QED BY <1>2, <1>3, Entered

LEMMA WholeAtStart == Emptied => WholeInv
<1> SUFFICES ASSUME Emptied PROVE WholeInv
  OBVIOUS
<1>1. Recorded
  BY StateAssumption DEF Emptied, Recorded, StateAssumption
<1>2. Staged /\ Contiguous /\ Stepwise
  BY DEF Emptied, NoRows, Staged, Contiguous, Stepwise, CellOf
<1> QED BY <1>1, <1>2 DEF WholeInv

LEMMA WholeKept ==
  ASSUME TypeOK, RowsInv, OrderInv, ThrowInv, WholeInv, CycleRecorded
  PROVE  WholeInv'
<1>1. CASE Complete
  <2>1. thrown = "none" /\ status' = status
    BY <1>1, StaysThrown DEF CycleRecorded, Complete, Tick
  <2>2. Recorded'
    BY <1>1, <2>1, Extended DEF WholeInv
  <2>3. ASSUME RowsAreTold PROVE Staged' /\ Contiguous' /\ Stepwise'
    BY <1>1, <2>1, <2>3, StagedKept, ContiguousKept, StepwiseKept DEF WholeInv
  <2> QED BY <2>1, <2>2, <2>3 DEF WholeInv, RowsAreTold
<1>2. CASE ~Complete
  BY <1>2, RecordedAfterThrow, Ends DEF WholeInv, CycleRecorded
<1> QED BY <1>1, <1>2

(* The invariants of the pipeline and of the rows hold of the diagram.      *)
LEMMA DiagramInvariants ==
  DiagramSpec /\ EndsInZero => [](TypeOK /\ RowsInv /\ OrderInv /\ ThrowInv)
<1>1. [CycleRecorded \/ DiagramReset]_<<vars, history>> => [NextCycle \/ Reset]_vars
  BY DEF CycleRecorded, DiagramReset
<1>2. DiagramSpec => FixedSpec
  BY <1>1, PTL DEF DiagramSpec, DiagramInit, FixedSpec
<1> QED BY <1>2, ThrowInvHolds, DiagramTypes, RowsInvHolds, OrderInvHolds, PTL

LEMMA WholeInvHolds == DiagramSpec /\ EndsInZero => []WholeInv
<1>1. DiagramInit => WholeInv
  BY WholeAtStart DEF DiagramInit, Init, Emptied
<1>2. TypeOK /\ RowsInv /\ OrderInv /\ ThrowInv /\ WholeInv
        /\ [CycleRecorded \/ DiagramReset]_<<vars, history>> => WholeInv'
  <2> SUFFICES ASSUME TypeOK, RowsInv, OrderInv, ThrowInv, WholeInv,
                      [CycleRecorded \/ DiagramReset]_<<vars, history>>
               PROVE  WholeInv'
    OBVIOUS
  <2>1. CASE CycleRecorded
    BY <2>1, WholeKept
  <2>2. CASE DiagramReset
    <3>1. Emptied'
      BY <2>2 DEF DiagramReset, Reset, Emptied
    <3> QED BY <3>1, WholeAtStart, PTL
  <2>3. CASE UNCHANGED <<vars, history>>
    BY <2>3 DEF vars, history, WholeInv, Recorded, RowsAreTold, Staged, Contiguous, Stepwise,
                Rows
  <2> QED BY <2>1, <2>2, <2>3
<1> QED BY <1>1, <1>2, DiagramInvariants, PTL DEF DiagramSpec

(* Only a cycle that completed has a column, so only then are rows shown.   *)
LEMMA ShownAre ==
  ASSUME TypeOK, WholeInv, NEW row \in Shown
  PROVE  /\ thrown = "none" /\ cycle \in Nat \ {0} /\ row \in DOMAIN loaded
         /\ CellOf(diagram, row, cycle) > 0
         /\ \A c : Cell(row, c) = CellOf(diagram, row, c)
<1>1. \A c : Cell(row, c) = CellOf(diagram, row, c)
  BY CellIs DEF WholeInv, Recorded
<1>2. row \in DOMAIN loaded /\ CellOf(diagram, row, cycle) > 0
  BY <1>1 DEF Shown
<1>3. cycle \in DOMAIN diagram
  BY <1>2 DEF CellOf
<1>4. cycle \in 1 .. Len(diagram)
  BY <1>3 DEF WholeInv, Recorded
<1> QED BY <1>1, <1>2, <1>4 DEF WholeInv, Recorded, TypeOK

(* When branches are not delayed, and not flushed for in MEM: in every run  *)
(* of a program that does not end in a branch, whatever throws and is       *)
(* retried, a row in the pipeline is printed as a whole and reads IF, ID,   *)
(* EX, MEM, WB, going neither back nor over a stage.                        *)
THEOREM RowsStayWhole == DiagramSpec /\ EndsInZero => []RowsAreWhole
<1>1. TypeOK /\ WholeInv => RowsAreWhole
  <2> SUFFICES ASSUME TypeOK, WholeInv, RowsAreTold, NEW row \in Shown
               PROVE  /\ Printed(row, cycle)
                      /\ Cell(row, cycle) - Cell(row, cycle - 1) \in {0, 1}
    BY DEF RowsAreWhole
  <2>1. /\ thrown = "none" /\ cycle \in Nat \ {0} /\ row \in DOMAIN loaded
        /\ CellOf(diagram, row, cycle) > 0
        /\ \A c : Cell(row, c) = CellOf(diagram, row, c)
    BY ShownAre
  <2>2. Cell(row, cycle) - Cell(row, cycle - 1) \in {0, 1}
    BY <2>1 DEF WholeInv, Stepwise
  <2>3. Printed(row, cycle)
    <3> DEFINE cells == { b \in 1 .. cycle : Cell(row, b) > 0 }
    <3>1. cycle \in cells /\ cells \subseteq Nat
      BY <2>1
    <3>2. PICK first \in cells : \A b \in cells : first <= b
      BY <3>1, LeastElement
    <3>3. Min(cells) \in cells
      <4> HIDE DEF cells
      <4> QED BY <3>2 DEF Min
    <3>4. Min(cells) .. cycle \subseteq cells
      <4> DEFINE b == Min(cells)
      <4>1. b \in 1 .. cycle /\ CellOf(diagram, row, b) > 0
        BY <2>1, <3>3
      <4> HIDE DEF b
      <4>2. \A c \in b .. cycle : CellOf(diagram, row, c) > 0
        BY <2>1, <4>1 DEF WholeInv, Contiguous
      <4>3. b .. cycle \subseteq cells
        BY <2>1, <4>1, <4>2
      <4> QED BY <4>3 DEF b
    <3> QED BY <3>1, <3>4 DEF Printed
  <2> QED BY <2>2, <2>3
<1> QED BY <1>1, DiagramTypes, WholeInvHolds, PTL

-----------------------------------------------------------------------------
(* How long an instruction stays.  It waits in ID for two others at most,   *)
(* which are in EX and MEM and leave; so does the one behind it, in IF.     *)
Waits == IF idex.i.op # "nop" THEN 2 ELSE IF exmem.i.op # "nop" THEN 1 ELSE 0

(* For how long the last fetch has been repeated: while ID waits, or behind *)
(* a branch, when nobody is in ID to wait for.                              *)
Refetched == IF ifid.i.op # "nop" THEN 2 - Waits
             ELSE IF idex.i.op # "nop" THEN 3
             ELSE IF exmem.i.op # "nop" THEN 0 ELSE 4

(* In one of the last n + 1 columns the row has no cell.                    *)
Young(columns, now, row, n) ==
  \E c \in 0 .. now : c >= now - n /\ CellOf(columns, row, c) = 0

Aged ==
  /\ iid.ifid # 0 => Young(diagram, cycle, iid.ifid, 5 - Waits)
  /\ iid.idex # 0 => Young(diagram, cycle, iid.idex, 6)
  /\ iid.exmem # 0 => Young(diagram, cycle, iid.exmem, 7)
  /\ iid.memwb # 0 => Young(diagram, cycle, iid.memwb, 8)
  /\ Len(loaded) \notin Rows => Young(diagram, cycle, Len(loaded), Refetched)

NineAtMost ==
  \A row \in DOMAIN loaded :
    CellOf(diagram, row, cycle) > 0 => Young(diagram, cycle, row, 9)

AgeInv == RowsAreTold /\ thrown = "none" => Aged /\ NineAtMost

(* ID waits only while somebody is in EX or MEM.                            *)
LEMMA StallWaits == Stall => ifid.i.op # "nop" /\ (idex.i.op # "nop" \/ exmem.i.op # "nop")
BY DEF Stall, SyscallWaits, OperandWaits, Hazard, Writes, RegWrite

(* The instructions move on with their rows.                                *)
LEMMA MovesOn ==
  ASSUME TypeOK, Complete
  PROVE  LET f == flushID(gpr')
         IN  /\ f > 0 => ifid'.i.op = "nop"
             /\ f > 2 => idex'.i.op = "nop" /\ exmem'.i.op = "nop"
             /\ ~(f > 0) /\ Stall => ifid'.i.op = ifid.i.op
             /\ ~(f > 1) => idex'.i.op = IF Stall THEN "nop" ELSE ifid.i.op
             /\ ~(f > 2) => exmem'.i.op = idex.i.op
<1> DEFINE f == flushID(gpr')
<1>1. /\ ifid' = IF f > 0 THEN IfIdBubble ELSE ifidNext(gpr')
      /\ idex' = IF f > 1 THEN IdExBubble ELSE idexNext(gpr')
      /\ exmem' = IF f > 2 THEN ExMemBubble ELSE exmemNext
  BY DEF Complete, Advance
<1>2. f \in {0, 1, 3}
  BY BackEndType, IdTypes DEF Complete
<1> HIDE DEF f
<1>3. /\ f > 0 => ifid'.i.op = "nop"
      /\ f > 2 => idex'.i.op = "nop" /\ exmem'.i.op = "nop"
      /\ ~(f > 0) /\ Stall => ifid'.i.op = ifid.i.op
      /\ ~(f > 1) => idex'.i.op = IF Stall THEN "nop" ELSE ifid.i.op
      /\ ~(f > 2) => exmem'.i.op = idex.i.op
  <2>1. /\ f > 0 => ifid'.i.op = "nop"
        /\ f > 2 => idex'.i.op = "nop" /\ exmem'.i.op = "nop"
    <3>1. f > 2 => f > 1
      BY <1>2
    <3> QED BY <1>1, <3>1, BubbleOps
  <2>2. ~(f > 0) /\ Stall => ifid'.i.op = ifid.i.op
    BY <1>1 DEF ifidNext
  <2>3. ~(f > 1) => idex'.i.op = IF Stall THEN "nop" ELSE ifid.i.op
    BY <1>1, BubbleOps DEF idexNext
  <2>4. ~(f > 2) => exmem'.i.op = idex.i.op
    BY <1>1 DEF exmemNext
  <2> QED BY <2>1, <2>2, <2>3, <2>4
<1> QED BY <1>3 DEF f

LEMMA Aging ==
  ASSUME TypeOK, RowsInv, Recorded, thrown = "none", CycleRecorded, Complete,
         NEW row, NEW n \in Nat
  PROVE  Young(diagram, cycle, row, n) => Young(diagram', cycle', row, n + 1)
<1>1. cycle \in Nat /\ cycle' = cycle + 1
  BY Extended
<1>2. \A c \in 0 .. cycle : CellOf(diagram', row, c) = CellOf(diagram, row, c)
  BY NewCells
<1> QED BY <1>1, <1>2 DEF Young

LEMMA YoungFor ==
  ASSUME NEW columns, NEW now \in Nat, NEW row, NEW m \in Nat, NEW n \in Nat, m <= n,
         Young(columns, now, row, m)
  PROVE  Young(columns, now, row, n)
BY DEF Young

(* How old the row of the fetch is.                                         *)
LEMMA FetchAge ==
  ASSUME TypeOK, RowsInv, OrderInv, ThrowInv, Recorded, Aged, thrown = "none", RowsAreTold,
         CycleRecorded, Complete, Len(loaded') \notin Rows
  PROVE  Young(diagram', cycle', Len(loaded'), Refetched + 1)
<1> DEFINE new == Len(loaded')
<1>1. Refetched \in Nat /\ cycle' \in Nat
  BY Extended DEF Refetched, Waits
<1>2. CASE new = Len(loaded)
  BY <1>1, <1>2, Aging DEF Aged
<1>3. CASE new = Len(loaded) + 1
  <2>1. \A c \in 0 .. cycle : CellOf(diagram, new, c) = 0
    BY <1>3, NotNoted
  <2>2. Young(diagram, cycle, new, 0)
    BY <2>1, Extended DEF Young
  <2>3. Young(diagram', cycle', new, 1)
    BY <2>2, Aging
  <2> QED BY <1>1, <2>3, YoungFor
<1> QED BY <1>2, <1>3, Movement

LEMMA AgedKept ==
  ASSUME TypeOK, RowsInv, OrderInv, ThrowInv, Recorded, Aged, thrown = "none", RowsAreTold,
         CycleRecorded, Complete
  PROVE  Aged'
<1> DEFINE new == Len(loaded')
           f   == flushID(gpr')
<1>1. /\ iid'.ifid = IF f > 0 THEN 0 ELSE IF Stall THEN iid.ifid ELSE new
      /\ iid'.idex = IF f > 1 \/ Stall THEN 0 ELSE iid.ifid
      /\ iid'.exmem = IF f > 2 THEN 0 ELSE iid.idex
      /\ iid'.memwb = iid.exmem
      /\ f = IF IdFlush(gpr') THEN 1 ELSE IF MemFlush THEN 3 ELSE 0
      /\ new \in Rows => IdFlush(gpr') /\ ~Stall /\ new = iid.ifid
  BY Movement
<1>2. /\ f > 0 => ifid'.i.op = "nop"
      /\ f > 2 => idex'.i.op = "nop" /\ exmem'.i.op = "nop"
      /\ ~(f > 0) /\ Stall => ifid'.i.op = ifid.i.op
      /\ ~(f > 1) => idex'.i.op = IF Stall THEN "nop" ELSE ifid.i.op
      /\ ~(f > 2) => exmem'.i.op = idex.i.op
  BY MovesOn
<1>3. /\ IdFlush(gpr') => ~Stall /\ ifid.i.op # "nop"
      /\ MemFlush => exmem.i.op # "nop"
      /\ Stall => ifid.i.op # "nop" /\ (idex.i.op # "nop" \/ exmem.i.op # "nop")
  BY StallWaits DEF IdFlush, IdBranch, MemFlush, MemBranch, Branch
<1>4. cycle' \in Nat
  BY Extended
<1> HIDE DEF f
<1>5. /\ Waits \in 0 .. 2 /\ Waits' \in 0 .. 2 /\ Refetched \in 0 .. 4 /\ Refetched' \in 0 .. 4
  BY DEF Waits, Refetched
<1> DEFINE w == Waits'
           A(row, m) == Young(diagram', cycle', row, m) /\ m <= 5 - w
                          => Young(diagram', cycle', row, 5 - w)
<1>6. \A row : A(row, 5 - Waits + 1)
  <2>1. 5 - Waits + 1 \in Nat /\ 5 - w \in Nat
    BY DEF Waits, Refetched
  <2> HIDE DEF w
  <2> QED BY <1>4, <2>1, YoungFor
<1>7. \A row : A(row, Refetched + 1)
  <2>1. Refetched + 1 \in Nat /\ 5 - w \in Nat
    BY DEF Waits, Refetched
  <2> HIDE DEF w
  <2> QED BY <1>4, <2>1, YoungFor
<1>8. ASSUME iid'.ifid # 0 PROVE Young(diagram', cycle', iid'.ifid, 5 - Waits')
  <2>1. f = 0 /\ ~IdFlush(gpr') /\ ~MemFlush
    BY <1>1, <1>8
  <2>2. CASE Stall
    <3>1. Young(diagram', cycle', iid'.ifid, 5 - Waits + 1)
      BY <1>1, <1>5, <1>8, <2>1, <2>2, Aging DEF Aged
    <3>2. 5 - Waits + 1 <= 5 - Waits'
      BY <1>2, <1>3, <2>1, <2>2 DEF Waits
    <3> QED BY <3>1, <3>2, <1>6
  <2>3. CASE ~Stall
    <3>1. iid'.ifid = new /\ new \notin Rows
      BY <1>1, <2>1, <2>3
    <3>2. Young(diagram', cycle', new, Refetched + 1)
      BY <3>1, FetchAge
    <3>3. Refetched + 1 <= 5 - Waits'
      BY <1>2, <2>1, <2>3 DEF Waits, Refetched
    <3> QED BY <3>1, <3>2, <3>3, <1>7
  <2> QED BY <2>2, <2>3
<1>9. ASSUME iid'.idex # 0 PROVE Young(diagram', cycle', iid'.idex, 6)
  <2>1. iid'.idex = iid.ifid /\ Young(diagram, cycle, iid.ifid, 5 - Waits)
    BY <1>1, <1>9 DEF Aged
  <2>2. Young(diagram', cycle', iid'.idex, 5 - Waits + 1)
    BY <1>5, <2>1, Aging
  <2> QED BY <1>4, <1>5, <2>2, YoungFor
<1>10. ASSUME iid'.exmem # 0 PROVE Young(diagram', cycle', iid'.exmem, 7)
  <2>1. iid'.exmem = iid.idex /\ Young(diagram, cycle, iid.idex, 6)
    BY <1>1, <1>10 DEF Aged
  <2> QED BY <2>1, Aging
<1>11. ASSUME iid'.memwb # 0 PROVE Young(diagram', cycle', iid'.memwb, 8)
  <2>1. iid'.memwb = iid.exmem /\ Young(diagram, cycle, iid.exmem, 7)
    BY <1>1, <1>11 DEF Aged
  <2> QED BY <2>1, Aging
<1>12. ASSUME new \notin Rows' PROVE Young(diagram', cycle', new, Refetched')
  <2>1. new # iid'.ifid /\ new # iid'.idex
    BY <1>12 DEF Rows
  <2>2. new \notin Rows /\ (Stall \/ f # 0)
    BY <1>1, <2>1
  <2>3. Young(diagram', cycle', new, Refetched + 1)
    BY <2>2, FetchAge
  <2>4. Refetched + 1 <= Refetched'
    <3>1. CASE f = 0
      BY <1>2, <1>3, <2>2, <3>1 DEF Waits, Refetched
    <3>2. CASE f = 1
      BY <1>1, <1>2, <1>3, <3>2 DEF Waits, Refetched
    <3>3. CASE f = 3
      BY <1>1, <1>2, <1>3, <3>3 DEF Waits, Refetched
    <3> QED BY <1>1, <3>1, <3>2, <3>3
  <2> QED BY <1>4, <1>5, <2>3, <2>4, YoungFor
<1> QED BY <1>8, <1>9, <1>10, <1>11, <1>12 DEF Aged

LEMMA NineKept ==
  ASSUME TypeOK, RowsInv, OrderInv, ThrowInv, Recorded, Aged, thrown = "none", RowsAreTold,
         CycleRecorded, Complete
  PROVE  NineAtMost'
<1> SUFFICES ASSUME NEW row \in DOMAIN loaded', CellOf(diagram', row, cycle') > 0
             PROVE  Young(diagram', cycle', row, 9)
  BY DEF NineAtMost
<1>1. row \in Nat \ {0} /\ cycle' \in Nat
  <2>1. loaded' \in Seq(Word)
    BY NamesAfterCycle DEF RowsInv
  <2> QED BY <2>1, Extended
<1>2. row \in {Len(loaded'), iid.ifid, iid.idex, iid.exmem, iid.memwb}
  BY NewCells DEF LastStage, CurrentInstructions
<1>3. CASE row \in Rows
  <2>1. Young(diagram, cycle, row, 8)
    <3>1. /\ row = iid.ifid => Young(diagram, cycle, row, 5 - Waits)
          /\ row = iid.idex => Young(diagram, cycle, row, 6)
          /\ row = iid.exmem => Young(diagram, cycle, row, 7)
          /\ row = iid.memwb => Young(diagram, cycle, row, 8)
      BY <1>1 DEF Aged
    <3>2. 5 - Waits \in 0 .. 8 /\ cycle \in Nat
      BY Extended DEF Waits
    <3> QED BY <1>3, <3>1, <3>2, YoungFor DEF Rows
  <2> QED BY <2>1, Aging
<1>4. CASE row \notin Rows
  <2>1. Young(diagram', cycle', row, Refetched + 1)
    BY <1>2, <1>4, FetchAge DEF Rows
  <2>2. Refetched + 1 \in 0 .. 9
    BY DEF Refetched, Waits
  <2> QED BY <1>1, <2>1, <2>2, YoungFor
<1> QED BY <1>3, <1>4

LEMMA AgeAtStart == Emptied => AgeInv
<1> SUFFICES ASSUME Emptied PROVE Aged /\ NineAtMost
  BY DEF AgeInv
<1>1. /\ iid.ifid = 0 /\ iid.idex = 0 /\ iid.exmem = 0 /\ iid.memwb = 0
      /\ cycle = 0 /\ diagram = << >>
  BY DEF Emptied, NoRows
<1>2. \A row : \A n \in Nat : Young(diagram, cycle, row, n)
  BY <1>1 DEF Young, CellOf
<1>3. Refetched \in Nat
  BY DEF Refetched, Waits
<1> QED BY <1>1, <1>2, <1>3 DEF Aged, NineAtMost

LEMMA AgeInvHolds == DiagramSpec /\ EndsInZero => []AgeInv
<1>1. DiagramInit => AgeInv
  BY AgeAtStart DEF DiagramInit, Init, Emptied
<1>2. TypeOK /\ RowsInv /\ OrderInv /\ ThrowInv /\ WholeInv /\ AgeInv
        /\ [CycleRecorded \/ DiagramReset]_<<vars, history>> => AgeInv'
  <2> SUFFICES ASSUME TypeOK, RowsInv, OrderInv, ThrowInv, WholeInv, AgeInv,
                      [CycleRecorded \/ DiagramReset]_<<vars, history>>
               PROVE  AgeInv'
    OBVIOUS
  <2>1. CASE CycleRecorded
    <3>1. CASE Complete
      <4>1. thrown = "none" /\ status' = status
        BY <2>1, <3>1, StaysThrown DEF CycleRecorded, Complete, Tick
      <4>2. RowsAreTold => Aged' /\ NineAtMost'
        BY <2>1, <3>1, <4>1, AgedKept, NineKept DEF WholeInv, AgeInv
      <4> QED BY <4>1, <4>2 DEF AgeInv, RowsAreTold
    <3>2. CASE ~Complete
      BY <2>1, <3>2, Ends DEF AgeInv, CycleRecorded
    <3> QED BY <3>1, <3>2
  <2>2. CASE DiagramReset
    <3>1. Emptied'
      BY <2>2 DEF DiagramReset, Reset, Emptied
    <3> QED BY <3>1, AgeAtStart, PTL
  <2>3. CASE UNCHANGED <<vars, history>>
    BY <2>3 DEF vars, history, AgeInv, RowsAreTold, Aged, NineAtMost, Waits, Refetched, Rows
  <2> QED BY <2>1, <2>2, <2>3
<1> QED BY <1>1, <1>2, DiagramInvariants, WholeInvHolds, PTL DEF DiagramSpec

(* The row of an instruction begins at most nine columns back.              *)
LEMMA SinceIs ==
  ASSUME TypeOK, WholeInv, AgeInv, RowsAreTold, NEW row \in Shown
  PROVE  /\ Since(row) \in 0 .. cycle - 1 /\ Since(row) >= cycle - 9
<1>1. /\ thrown = "none" /\ cycle \in Nat \ {0} /\ row \in DOMAIN loaded
      /\ CellOf(diagram, row, cycle) > 0
      /\ \A c : Cell(row, c) = CellOf(diagram, row, c)
  BY ShownAre
<1> DEFINE Empty(c) == CellOf(diagram, row, c) = 0
           T == { n \in 0 .. cycle : Empty(cycle - n) }
<1>2. PICK young \in 0 .. cycle : young >= cycle - 9 /\ Empty(young)
  BY <1>1 DEF AgeInv, NineAtMost, Young
<1>3. ~Empty(cycle) /\ \A c : ~Empty(c) <=> Cell(row, c) > 0
  BY <1>1 DEF CellOf, LastStage
<1> HIDE DEF Empty
<1>4. T \subseteq Nat /\ cycle - young \in T
  BY <1>1, <1>2
<1>5. PICK n \in T : \A m \in T : n <= m
  BY <1>4, LeastElement
<1>6. /\ cycle - n \in 0 .. cycle - 1 /\ Empty(cycle - n)
      /\ \A c \in cycle - n + 1 .. cycle : ~Empty(c)
  <2>1. n \in 1 .. cycle /\ Empty(cycle - n)
    BY <1>1, <1>3, <1>5
  <2>2. ASSUME NEW c \in cycle - n + 1 .. cycle PROVE ~Empty(c)
    <3>1. cycle - c \in 0 .. cycle /\ ~(n <= cycle - c) /\ cycle - (cycle - c) = c
      BY <1>1, <2>1
    <3> QED BY <1>5, <3>1
  <2> QED BY <1>1, <2>1, <2>2
<1>7. \A c : Cell(row, c) = 0 <=> Empty(c)
  BY <1>1 DEF Empty
<1>8. /\ Since(row) \in 0 .. cycle - 1
      /\ \A c \in Since(row) + 1 .. cycle : ~Empty(c)
  <2>1. \E c \in 0 .. cycle - 1 : /\ Cell(row, c) = 0
                                  /\ \A b \in c + 1 .. cycle : Cell(row, b) > 0
    BY <1>3, <1>6, <1>7
  <2>2. /\ Since(row) \in 0 .. cycle - 1
        /\ \A b \in Since(row) + 1 .. cycle : Cell(row, b) > 0
    BY <2>1 DEF Since
  <2> QED BY <1>3, <2>2
<1>9. young \notin Since(row) + 1 .. cycle
  BY <1>2, <1>8
<1> QED BY <1>1, <1>2, <1>8, <1>9

(* When branches are not delayed, and not flushed for in MEM: no sequence   *)
(* of stalls and flushes keeps an instruction in the pipeline for as long   *)
(* as ten cycles, so a window of ten columns or more holds all of its cells *)
(* and numbers them as the cycles they are of.                              *)
THEOREM WindowIsWideEnough == DiagramSpec /\ EndsInZero => []WindowHolds
<1>1. TypeOK /\ WholeInv /\ AgeInv => WindowHolds
  <2> SUFFICES ASSUME TypeOK, WholeInv, AgeInv, RowsAreTold,
                      NEW row \in Shown, NEW c \in Since(row) + 1 .. cycle
               PROVE  /\ WindowColumn(c, Width) \in 1 .. MaxDiaCycles
                      /\ Labelled(WindowColumn(c, Width) - 1, Width)
                      /\ LabelCycle(WindowColumn(c, Width) - 1) = c
    BY DEF WindowHolds
  <2> DEFINE S == { Since(r) : r \in Shown } \cup {cycle}
  <2>1. cycle \in Nat \ {0}
    BY ShownAre
  <2>2. \A s \in S : s \in 0 .. cycle /\ s >= cycle - 9
    BY <2>1, SinceIs
  <2>3. PICK first \in S : \A s \in S : first <= s
    <3>1. S \subseteq Nat /\ cycle \in S
      BY <2>1, <2>2
    <3> HIDE DEF S
    <3> QED BY <3>1, LeastElement
  <2>4. Min(S) \in S /\ \A s \in S : Min(S) <= s
    <3> HIDE DEF S
    <3> QED BY <2>3 DEF Min
  <2>5. Width \in 0 .. 9 /\ Width >= cycle - Since(row)
    <3>1. Width = cycle - Min(S) /\ Since(row) \in S
      BY DEF Width
    <3> HIDE DEF S
    <3> QED BY <2>1, <2>2, <2>4, <3>1
  <2>6. Since(row) \in 0 .. cycle - 1 /\ Since(row) >= cycle - 9
    BY SinceIs
  <2> DEFINE w == Width
             since == Since(row)
  <2>7. /\ w \in 0 .. 9 /\ since \in 0 .. cycle - 1 /\ c \in since + 1 .. cycle
        /\ w >= cycle - since /\ since >= cycle - 9
    BY <2>5, <2>6
  <2> HIDE DEF w, since
  <2>8. WindowColumn(c, w) = MaxDiaCycles + c - cycle
    BY <2>1, <2>7, WindowAssumption DEF WindowColumn, WindowAssumption
  <2>9. /\ WindowColumn(c, w) \in 1 .. MaxDiaCycles
        /\ Labelled(WindowColumn(c, w) - 1, w)
        /\ LabelCycle(WindowColumn(c, w) - 1) = c
    BY <2>1, <2>7, <2>8, WindowAssumption DEF Labelled, LabelCycle, WindowAssumption
  <2> QED BY <2>9 DEF w
<1> QED BY <1>1, DiagramTypes, WholeInvHolds, AgeInvHolds, PTL
=============================================================================
