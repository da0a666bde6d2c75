------------------------------ MODULE Assembler ------------------------------
(***************************************************************************)
(* assemble_file (assembler/mips_assembler.y): a file is parsed line by    *)
(* line into tables, the names its instructions refer to are resolved, and *)
(* setup_memory lays data and text out in the memory of MemoryOps.         *)
(*                                                                         *)
(* A line is one reduction of the grammar.  The tables, and what the       *)
(* scanner has buffered, are static and outlive a call.                    *)
(***************************************************************************)
EXTENDS MemoryOps, SequencesExt, Encoding

CONSTANTS
  LineAt,     \* the lines that may stand at each place of a file
  Rest,       \* what may be behind an instruction that is refused
  Digits,     \* the number strtol or atoi reads from the name of a label
  MaxLines    \* bound: lines of a file

(* A line is                                                                *)
(*   a directive, .text or .data;                                           *)
(*   an instruction, with the label it refers to if it is relative, a       *)
(*   branch, or absolute, a jump;                                           *)
(*   la; a tag, which names the place of the next instruction; or           *)
(*   an item of data: its tag, its type and its values;                     *)
(*   or something that is not one of these.                                 *)
Kind == {"directive", "plain", "relative", "absolute", "la", "tag", "item", "junk"}
DataType == {"word", "float", "double", "asciiz", "space"}

InstructionKind == {"plain", "relative", "absolute"}
Line == UNION { LineAt[k] : k \in 1 .. MaxLines }

(* A jalr of one register looks for the second and ends the program.        *)
Ends(l) == \/ l.kind = "plain" /\ l.name = "jalr"
           \/ l.kind = "item" /\ l.type \in {"asciiz", "space"} /\ Len(l.values) # 1
           \/ l.kind = "item" /\ l.type = "space" /\ l.values[1] < 0

(* Error variant of Align4: a string takes as much room as it has characters. *)
Unaligned(n) == n

Align4(n) == n + ((-n) % WordBytes)

Length(l) ==
  CASE l.type \in {"word", "float"} -> Len(l.values) * WordBytes
    [] l.type = "double" -> Len(l.values) * 2 * WordBytes
    [] l.type = "asciiz" -> Align4(Len(l.values[1]))
    [] l.type = "space" -> l.values[1]

(* What the scanner and the grammar let pass.  An item is no longer than    *)
(* what stoi reads or a file holds, so that its end does not wrap.          *)
Legal(l) ==
  /\ l.kind \in Kind
  /\ l.kind \in InstructionKind => Written(l)
  /\ l.kind \in {"relative", "absolute"} => l.label \in DOMAIN Digits
  /\ l.kind = "la" => l.ops \in { <<r>> : r \in Register }
  /\ l.kind = "item" =>
       /\ l.type \in DataType
       /\ l.values \in Seq(IF l.type = "asciiz" THEN Seq(Int) ELSE Int)
       /\ ~Ends(l) => Start["data"] + Size["data"] + Length(l) < AddrSize

ASSUME LineAssumption == \A l \in Line : Legal(l)
ASSUME RestAssumption == Rest \subseteq Seq(Line) /\ \A r \in Rest : Len(r) <= MaxLines

(* Only the letter before an x is read as a number.                         *)
ASSUME DigitsAssumption == \A n \in DOMAIN Digits : Digits[n] \in 0 .. 15

(* An address is as wide as two immediates; and a memory that is cleared    *)
(* holds no byte that was written.                                          *)
ASSUME WidthAssumption == (AddrSize - 1) \div ImmSize < ImmSize
ASSUME ZeroAssumption == Zero = << >>

(* A file, with the rest of another before it, has fewer words of text than *)
(* there are addresses from the start of the text on; and every word of the *)
(* region of text can be jumped to.                                         *)
ASSUME TextAssumption ==
  /\ MaxLines \in Nat /\ Start["text"] + (4 * MaxLines + 2) * WordBytes < AddrSize
  /\ Aligned(Start["text"])
  /\ Start["text"] + Size["text"] <= JumpSize * WordBytes

VARIABLES
  m,             \* the memory
  labels,        \* the static tables and counters of the parser
  instructions,
  memsections,
  line,
  mem_pos,
  part,          \* what the grammar is in: the sections begun, and whether the
                 \* last of them has a line
  buffer,        \* lines of an earlier file the scanner still has
  read,          \* number of lines it has read of this one
  phase,         \* where assemble_file is
  next,          \* instruction or section it works on
  next_address,
  parsed         \* history: the lines parsed since the call began

tables == <<labels, instructions, memsections, line, mem_pos>>
scanner == <<buffer, read>>
vars == <<m, tables, part, scanner, phase, next, next_address, parsed>>

(* Outside of a call the phase tells how the last one ended: returning 0 or *)
(* 1, by an exception, or with the program.                                 *)
Returned == {"ok", "failed", "threw"}
Phase == Returned \cup {"parse", "resolve", "setup", "ended"}

NoPart == [begun |-> << >>, empty |-> TRUE]

Init == /\ m = New
        /\ labels = << >> /\ instructions = << >> /\ memsections = << >>
        /\ line = 0 /\ mem_pos = 0
        /\ part = NoPart /\ buffer = << >> /\ read = 0 /\ phase = "failed"
        /\ next = 1 /\ next_address = 0 /\ parsed = << >>

-----------------------------------------------------------------------------
(* The beginning.  The scanner reads the file, if it exists, behind what it *)
(* still has.                                                               *)
Begin ==
  /\ phase \in Returned
  /\ m' = Cleared(m)
  /\ labels' = << >> /\ instructions' = << >> /\ memsections' = << >>
  /\ line' = 0 /\ mem_pos' = 0
  /\ part' = NoPart /\ parsed' = << >> /\ phase' \in {"parse", "failed"}
  /\ read' = 0 /\ next' = 1 /\ next_address' = 0
  /\ UNCHANGED buffer

-----------------------------------------------------------------------------
(* Parsing.                                                                 *)
InSection(name) == part.begun # << >> /\ Last(part.begun) = name

Expected(l) ==
  CASE l.kind = "directive" ->
         /\ part.begun = << >> \/ ~part.empty
         /\ l.name \in {"text", "data"} /\ ~Contains(part.begun, l.name)
    [] l.kind = "item" -> InSection("data")
    [] l.kind = "junk" -> FALSE
    [] OTHER -> InSection("text")

Lines == IF buffer # << >> THEN {Head(buffer)}
         ELSE IF read < MaxLines THEN LineAt[read + 1] ELSE {}

Parses(l, kinds) == phase = "parse" /\ l.kind \in kinds /\ Expected(l)

Consumes(l) ==
  /\ IF buffer # << >> THEN buffer' = Tail(buffer) /\ UNCHANGED read
     ELSE read' = read + 1 /\ UNCHANGED buffer
  /\ parsed' = Append(parsed, l)
  /\ UNCHANGED <<m, phase, next, next_address>>

AddsLine(l) == part' = [part EXCEPT !.empty = FALSE] /\ Consumes(l)

Directive(l) ==
  /\ Parses(l, {"directive"})
  /\ part' = [begun |-> Append(part.begun, l.name), empty |-> TRUE]
  /\ Consumes(l)
  /\ UNCHANGED tables

(* What is written where a label stands is read as a number.                *)
Operands(l) == IF l.kind = "plain" THEN l.ops ELSE Append(l.ops, Digits[l.label])

Entry(name, cop, ops, at, kind, label) ==
  [word |-> Assemble([name |-> name, cop |-> cop, ops |-> ops]),
   line |-> at, kind |-> kind, label |-> label]

Instruction(l) ==
  /\ Parses(l, InstructionKind) /\ Assembles(l) /\ ~Ends(l)
  /\ instructions' = Append(instructions, Entry(l.name, l.cop, Operands(l), line,
                                               l.kind, l.label))
  /\ line' = Wrap(line + 1)
  /\ AddsLine(l)
  /\ UNCHANGED <<labels, memsections, mem_pos>>

(* Error variant of LaLines: the line of the first half is not counted.      *)
LaOneLine == 1

LaLines == 2

(* la becomes lui and ori, on a line each.                                  *)
LoadAddress(l) ==
  /\ Parses(l, {"la"})
  /\ LET lui == Entry("lui", 0, <<l.ops[1], 0>>, line, "high", l.label)
         ori == Entry("ori", 0, <<l.ops[1], l.ops[1], 0>>, Wrap(line + 1), "low", l.label)
     IN  instructions' = instructions \o <<lui, ori>>
  /\ line' = Wrap(line + LaLines)
  /\ AddsLine(l)
  /\ UNCHANGED <<labels, memsections, mem_pos>>

(* Error variant of LineOfTag: the line is taken back and not counted.        *)
LineOfTagUncounted == Wrap(line - 1)

(* A tag takes its line back before the sequence of instructions counts it. *)
LineOfTag == Wrap(Wrap(line - 1) + 1)

Tag(l) ==
  /\ Parses(l, {"tag"})
  /\ labels' = Append(labels, [name |-> l.label, line |-> line])
  /\ line' = LineOfTag
  /\ AddsLine(l)
  /\ UNCHANGED <<instructions, memsections, mem_pos>>

Item(l) ==
  /\ Parses(l, {"item"}) /\ ~Ends(l)
  /\ memsections' = Append(memsections, [label |-> l.label, type |-> l.type,
                                         position |-> mem_pos, length |-> Length(l),
                                         values |-> l.values])
  /\ mem_pos' = Wrap(mem_pos + Length(l))
  /\ AddsLine(l)
  /\ UNCHANGED <<labels, instructions, line>>

(* The exception leaves the parser by the way of assemble_file, which does  *)
(* not come to close the file or to empty the scanner.  The scanner keeps   *)
(* the rest of the file it was in, or of the one before if it was in that.  *)
Refused(l) ==
  /\ Parses(l, InstructionKind) /\ ~Assembles(l)
  /\ IF buffer # << >> THEN buffer' = Tail(buffer) ELSE buffer' \in Rest
  /\ phase' = "threw"
  /\ UNCHANGED <<m, tables, part, read, next, next_address, parsed>>

Ended == /\ phase' = "ended"
         /\ UNCHANGED <<m, tables, part, scanner, next, next_address, parsed>>

ParserEnds(l) == Parses(l, Kind) /\ Ends(l) /\ Ended

(* Here the scanner is emptied.                                             *)
Leaves == /\ buffer' = << >> /\ phase' = "failed"
          /\ UNCHANGED <<m, tables, part, read, next, next_address, parsed>>

SyntaxError(l) == phase = "parse" /\ ~Expected(l) /\ Leaves

AtEnd == phase = "parse" /\ buffer = << >>
Complete == ~part.empty /\ Contains(part.begun, "text")

Incomplete == AtEnd /\ ~Complete /\ Leaves

EndOfFile ==
  /\ AtEnd /\ Complete
  /\ phase' = "resolve" /\ next' = 1
  /\ UNCHANGED <<m, tables, part, scanner, next_address, parsed>>

-----------------------------------------------------------------------------
(* The loop over the instructions.  Branches and jumps look the code labels *)
(* up, la the labels of data, and a name found twice throws.                *)
Named(entry) ==
  IF entry.kind \in {"high", "low"}
  THEN { k \in DOMAIN memsections : memsections[k].label = entry.label }
  ELSE { k \in DOMAIN labels : labels[k].name = entry.label }

Refers(entry) == entry.kind # "plain"

Distance(entry, label) == label.line - entry.line - 1

Operand(entry, k) ==
  CASE entry.kind = "relative" -> Distance(entry, labels[k]) % ImmSize
    [] entry.kind = "absolute" -> (Start["text"] \div WordBytes + labels[k].line) % JumpSize
    [] entry.kind = "high" -> ((Start["data"] + memsections[k].position) \div ImmSize) % ImmSize
    [] entry.kind = "low" -> (Start["data"] + memsections[k].position) % ImmSize

Resolving == phase = "resolve" /\ next <= Len(instructions)

Resolve ==
  /\ Resolving
  /\ LET entry == instructions[next]
     IN  \/ /\ ~Refers(entry)
            /\ UNCHANGED instructions
         \/ /\ Refers(entry)
            /\ \E k \in Named(entry) :
                 /\ Named(entry) = {k}
                 /\ instructions' = [instructions EXCEPT
                                       ![next].word.rest = @ | Operand(entry, k)]
  /\ next' = next + 1
  /\ UNCHANGED <<m, labels, memsections, line, mem_pos, part, scanner, phase, next_address,
                 parsed>>

(* Of a name found twice the first is in the instruction, which no one sees.*)
Unresolved ==
  /\ Resolving
  /\ LET entry == instructions[next]
     IN  Refers(entry) /\ \A k \in Named(entry) : Named(entry) # {k}
  /\ phase' = "threw"
  /\ UNCHANGED <<m, tables, part, scanner, next, next_address, parsed>>

Resolved ==
  /\ phase = "resolve" /\ next > Len(instructions)
  /\ m' = Locked(m)
  /\ phase' = "setup" /\ next' = 1 /\ next_address' = Start["data"]
  /\ UNCHANGED <<tables, part, scanner, parsed>>

-----------------------------------------------------------------------------
(* setup_memory.  The memory is written in bytes, each of which is one of   *)
(* those of a value; a value of 0 has only zeros, as what was not written.  *)
Nul == <<0, 0>>
Byte(v, k) == IF v = 0 THEN Nul ELSE <<v, k>>
Bytes(mem) == mem.content["data"]
ReadByte(mem, a) == IF a \in DOMAIN Bytes(mem) THEN Bytes(mem)[a] ELSE Nul

(* The bytes the values of an item are written as, and how many of them one *)
(* call of the memory writes.                                               *)
Spread(values, size) ==
  [n \in 1 .. Len(values) * size |->
     Byte(values[(n - 1) \div size + 1], (n - 1) % size)]

(* The grammar holds an integer as an unsigned one before it becomes text   *)
(* again, for items of every type.  A number with a point has no sign.      *)
Unsigned(values) ==
  [k \in DOMAIN values |-> IF values[k] < 0 THEN Wrap(values[k]) ELSE values[k]]

Image(sec) ==
  CASE sec.type \in {"word", "float"} -> Spread(Unsigned(sec.values), WordBytes)
    [] sec.type = "double" -> Spread(Unsigned(sec.values), 2 * WordBytes)
    [] sec.type = "asciiz" -> Spread(sec.values[1], 1)
    [] sec.type = "space" -> << >>

Unit(sec) == IF sec.type = "asciiz" THEN 1 ELSE WordBytes

(* The calls are for one unit after the other.  The first that is refused   *)
(* throws, and what is before it has been written.                          *)
RefusedAt(mem, at, sec) ==
  { n \in 0 .. Len(Image(sec)) - 1 :
      /\ n % Unit(sec) = 0
      /\ ~((at + n) % Unit(sec) = 0 /\ Accessible(mem, at + n)) }

Writes(mem, at, sec) == RefusedAt(mem, at, sec) = {}
Done(mem, at, sec) ==
  IF Writes(mem, at, sec) THEN Len(Image(sec)) ELSE Min(RefusedAt(mem, at, sec))

Stored(mem, at, sec) ==
  LET written == at .. at + Done(mem, at, sec) - 1
  IN  Write(mem, "data", [a \in written \cup DOMAIN Bytes(mem) |->
                            IF a \in written THEN Image(sec)[a - at + 1] ELSE Bytes(mem)[a]])

(* Error variant of Behind: the next section follows the last character.     *)
BehindChars(at, sec) ==
  at + (IF sec.type = "space" THEN sec.values[1] ELSE Len(Image(sec)))

(* Where the next section is written.                                       *)
Behind(at, sec) ==
  at + (CASE sec.type \in {"word", "float", "double"} -> Len(Image(sec))
          [] sec.type = "asciiz" -> sec.length
          [] sec.type = "space" -> sec.values[1])

SettingUp == phase = "setup" /\ next <= Len(memsections)
Room == CanAllocateNext(m, memsections[next].length)

Pushed(sec) == AllocateNext(m, sec.length)

(* A word is converted by stoi before it is written.  It refuses a negative *)
(* one, which Unsigned makes too large for it, and nobody catches that.     *)
Unconverted(sec) ==
  /\ sec.type = "word"
  /\ \E k \in DOMAIN sec.values :
       sec.values[k] < 0 /\ (k - 1) * WordBytes <= Done(Pushed(sec), next_address, sec)

SetupSection ==
  /\ SettingUp /\ Room
  /\ LET sec == memsections[next]
     IN  /\ NextFree(m) = next_address /\ ~Unconverted(sec)
         /\ m' = Stored(Pushed(sec), next_address, sec)
         /\ IF Writes(Pushed(sec), next_address, sec)
            THEN next' = next + 1 /\ next_address' = Behind(next_address, sec)
                 /\ UNCHANGED phase
            ELSE phase' = "threw" /\ UNCHANGED <<next, next_address>>
  /\ UNCHANGED <<tables, part, scanner, parsed>>

(* Room for two more words than there are instructions.                     *)
TextSize == (Len(instructions) + 2) * WordBytes

NoRoom ==
  /\ phase = "setup"
  /\ IF next <= Len(memsections) THEN ~Room ELSE ~CanAllocateAt(m, "text", TextSize)
  /\ phase' = "threw"
  /\ UNCHANGED <<m, tables, part, scanner, next, next_address, parsed>>

(* An assertion compares what is allocated with what is to be written.      *)
SetupEnds ==
  /\ SettingUp /\ Room
  /\ NextFree(m) # next_address \/ Unconverted(memsections[next])
  /\ Ended

SetupText ==
  /\ phase = "setup" /\ next > Len(memsections)
  /\ CanAllocateAt(m, "text", TextSize)
  /\ m' = Write(AllocateAt(m, "text", TextSize), "text",
                [k \in DOMAIN instructions |-> instructions[k].word])
  /\ phase' = "ok"
  /\ UNCHANGED <<tables, part, scanner, next, next_address, parsed>>

-----------------------------------------------------------------------------
Parse(l) == \/ Directive(l) \/ Instruction(l) \/ LoadAddress(l) \/ Tag(l) \/ Item(l)
            \/ Refused(l) \/ ParserEnds(l) \/ SyntaxError(l)

Next == \/ Begin
        \/ \E l \in Lines : Parse(l)
        \/ Incomplete \/ EndOfFile
        \/ Resolve \/ Unresolved \/ Resolved
        \/ SetupSection \/ NoRoom \/ SetupEnds \/ SetupText

Spec == Init /\ [][Next]_vars
=============================================================================
