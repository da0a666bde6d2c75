------------------------------- MODULE Diagram -------------------------------
(***************************************************************************)
(* The diagram of the pipelined CPU, which is what the simulator is for: a *)
(* row for each instruction that was fetched, a column for each cycle, and *)
(* in a cell the stage the instruction was in.  Here are how next_cycle    *)
(* records it, how print_diagram prints it and how the window shows its    *)
(* last columns.                                                           *)
(***************************************************************************)
EXTENDS PipelineProperties, SequencesExt

CONSTANT MaxDiaCycles   \* the columns of the window

ASSUME WindowAssumption == MaxDiaCycles \in Nat /\ MaxDiaCycles >= 10

VARIABLES
  loaded,   \* loaded_instructions behind the first: what each row is about
  iid,      \* SR_IID of the segmentation registers; row 0 is nobody's
  diagram   \* per cycle, the row of the instruction in each of the stages

history == <<loaded, iid, diagram>>

NoRows == [ifid |-> 0, idex |-> 0, exmem |-> 0, memwb |-> 0]

DiagramInit == Init /\ loaded = <<TextStart>> /\ iid = NoRows /\ diagram = << >>

-----------------------------------------------------------------------------
(* stage_if: what is fetched has a row of its own unless it is what the     *)
(* last fetch was of.  Error variant: a row for every address.              *)
LoadedOnce(address) == IF address \in ToSet(loaded) THEN loaded ELSE Append(loaded, address)

Loaded(address) == IF address = Last(loaded) THEN loaded ELSE Append(loaded, address)

(* get_current_instruction, for each stage.                                 *)
CurrentInstructions == <<Len(loaded'), iid.ifid, iid.idex, iid.exmem, iid.memwb>>

(* Error variant of Moved: a flush does not clear the rows.                 *)
MovedUnflushed(f) == [ifid  |-> IF Stall THEN iid.ifid ELSE Len(loaded'),
                      idex  |-> IF Stall THEN 0 ELSE iid.ifid,
                      exmem |-> iid.idex, memwb |-> iid.exmem]

(* The rows that move on with the instructions, the first f cleared.        *)
Moved(f) == [ifid  |-> IF f > 0 THEN 0 ELSE IF Stall THEN iid.ifid ELSE Len(loaded'),
             idex  |-> IF f > 1 \/ Stall THEN 0 ELSE iid.ifid,
             exmem |-> IF f > 2 THEN 0 ELSE iid.idex,
             memwb |-> iid.exmem]

(* The column of this cycle; one that threw in between has an empty one.    *)
Column(rows) == [c \in 1 .. cycle' |->
                   IF c = cycle' THEN rows
                   ELSE IF c \in DOMAIN diagram THEN diagram[c]
                   ELSE <<0, 0, 0, 0, 0>>]

(* The address is noted before it is read.                                  *)
CycleRecorded ==
  /\ NextCycle
  /\ loaded' = IF thrown' \in {"none", "IF", "diagram", "abort"}
               THEN Loaded(pcID(gpr')) ELSE loaded
  /\ IF thrown' = "none"
     THEN iid' = Moved(flushID(gpr')) /\ diagram' = Column(CurrentInstructions)
     ELSE UNCHANGED <<iid, diagram>>

DiagramReset ==
  Reset /\ loaded' = <<TextStart>> /\ iid' = NoRows /\ diagram' = << >>

DiagramSpec == DiagramInit /\ [][CycleRecorded \/ DiagramReset]_<<vars, history>>

-----------------------------------------------------------------------------
(* diagram[row][c]: of two stages the later one is written last.            *)
Cell(row, c) ==
  IF c \in DOMAIN diagram
  THEN SelectLastInSeq(diagram[c], LAMBDA r : r = row)
  ELSE 0

(* print_diagram gives a row up at the first empty cell behind one that is  *)
(* not; a stage that is the same as before is printed as "--".              *)
Printed(row, c) ==
  LET cells == { b \in 1 .. c : Cell(row, b) > 0 }
  IN  c \in cells /\ Min(cells) .. c \subseteq cells

(* set_diagram_labels: the rows of the instructions in the pipeline, each   *)
(* as far back as it is contiguous.                                         *)
Shown == { row \in DOMAIN loaded : Cell(row, cycle) > 0 }

Since(row) ==
  CHOOSE c \in 0 .. cycle - 1 : /\ Cell(row, c) = 0
                                /\ \A b \in c + 1 .. cycle : Cell(row, b) > 0

(* How many cycles the window shows.                                        *)
Width == cycle - Min({ Since(row) : row \in Shown } \cup {cycle})

(* The last label without a number is unsigned: below 0 it is a huge one.   *)
Labelled(label, width) == LET last == MaxDiaCycles - width - 1
                          IN  last >= 0 /\ label > last

LabelCycle(label) == label - MaxDiaCycles + cycle + 1

(* Where the cell of a cycle goes.  Error variant: one to the left.         *)
WindowColumnLeft(c, width) == MaxDiaCycles - width + (c - (cycle - width)) - 1

WindowColumn(c, width) == MaxDiaCycles - width + (c - (cycle - width))

-----------------------------------------------------------------------------
Segments == [ifid |-> ifid.i, idex |-> idex.i, exmem |-> exmem.i, memwb |-> memwb.i]

(* What moves through the pipeline is what its row says it is: the row was  *)
(* chosen when it was fetched, and follows it through stalls, flushes,      *)
(* exceptions, retries and resets; what has no row is a bubble.             *)
RowsNameInstructions ==
  \A s \in DOMAIN Segments :
    IF iid[s] = 0 THEN Segments[s].op = "nop"
    ELSE iid[s] \in DOMAIN loaded /\ Segments[s] = prog[loaded[iid[s]]]

(* With branches delayed a jump to its own slot is two fetches of one       *)
(* address one behind the other, which share a row, and so is a jump that   *)
(* MEM flushes after ID has taken it.                                       *)
RowsAreTold == \/ status.type = "non_taken"
               \/ status.type = "flush" /\ status.stage = "ID"

(* In no cycle do two instructions that go on share a row, which would hide *)
(* one of them, and whoever entered the pipeline first is higher up.  An    *)
(* instruction that is flushed as it is fetched may have the row of the     *)
(* branch it was flushed for.                                               *)
RowsInOrder ==
  RowsAreTold /\ diagram # << >> =>
    LET column == Last(diagram)
        first == IF iid.ifid = 0 THEN 2 ELSE 1
    IN  \A s, t \in first .. 5 :
          s < t /\ column[s] # 0 /\ column[t] # 0 => column[s] > column[t]

(* A row is printed as a whole and reads IF, ID, EX, MEM, WB, each stage    *)
(* for as long as it lasted: neither a flush, nor a fetch of the same       *)
(* address again, nor an exception and a retry leaves a gap in it or has    *)
(* it go back or skip a stage.                                              *)
RowsAreWhole ==
  RowsAreTold =>
    \A row \in Shown : /\ Printed(row, cycle)
                       /\ Cell(row, cycle) - Cell(row, cycle - 1) \in {0, 1}

(* The ten columns of the window hold every instruction in the pipeline     *)
(* from its fetch on, each cell under the number of its cycle: no sequence  *)
(* of stalls keeps one for as long as ten cycles.                           *)
WindowHolds ==
  LET width == Width
  IN  RowsAreTold => \A row \in Shown : \A c \in Since(row) + 1 .. cycle :
                         /\ WindowColumn(c, width) \in 1 .. MaxDiaCycles
                         /\ Labelled(WindowColumn(c, width) - 1, width)
                         /\ LabelCycle(WindowColumn(c, width) - 1) = c
==============================================================================
