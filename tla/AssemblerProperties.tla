------------------------- MODULE AssemblerProperties -------------------------
(***************************************************************************)
(* What a program that was loaded is, told from the lines that were parsed *)
(* and from the memory, without the tables of the assembler.               *)
(***************************************************************************)
EXTENDS Assembler

(* The tables and counters hold what their declarations say; an instruction *)
(* stays within its 32 bits when the operand is ORed in; and the counter of *)
(* lines counts the instructions, whatever tags take back and la adds.      *)
AssemblerTypeOK ==
  /\ phase \in Phase /\ read \in 0 .. MaxLines
  /\ line \in Addr /\ mem_pos \in Addr /\ next_address \in Addr
  /\ m.blocks \in Seq(Block)
  /\ \A k \in DOMAIN instructions : instructions[k].word.rest \in 0 .. JumpSize - 1
  /\ line = Len(instructions)

-----------------------------------------------------------------------------
Loaded == phase = "ok"
OfKind(kinds) == { k \in DOMAIN parsed : parsed[k].kind \in kinds }

(* Number of words of text before a line, which is where its own begin: one *)
(* for an instruction, two for la.                                          *)
Before(k, kinds) == { j \in OfKind(kinds) : j < k }
Place(k) == Cardinality(Before(k, InstructionKind)) + 2 * Cardinality(Before(k, {"la"}))
WordAt(place) == Fill(m.content["text"][place + 1])

TagsOf(k) == { t \in OfKind({"tag"}) : parsed[t].label = parsed[k].label }
Signed(x) == IF 2 * x < ImmSize THEN x ELSE x - ImmSize
Representable(d) == -ImmSize <= 2 * d /\ 2 * d < ImmSize

(* A branch or jump of a loaded program goes to the instruction behind the  *)
(* tag it names, as the CPUs compute targets: through tags, instructions    *)
(* that become two words, data on either side of the text, and the tables   *)
(* an earlier file has left.  A name that is itself read as a number is not *)
(* covered: its digits are ORed into the operand.  Nor is a branch too far  *)
(* for its 16 bits, which are cut off.                                      *)
TargetsAreLabels ==
  Loaded =>
    \A k \in OfKind({"relative", "absolute"}) : \A t \in TagsOf(k) :
      Digits[parsed[k].label] = 0 =>
        LET w == WordAt(Place(k))
            distance == Place(t) - (Place(k) + 1)
        IN  IF parsed[k].kind = "relative"
            THEN Representable(distance) => Signed(w.addr_i) = distance
            ELSE w.addr_j * WordBytes = Start["text"] + Place(t) * WordBytes

(* The word of an instruction is displayed, and executed, as what was       *)
(* written: its name, its precision and its operands, whatever the format,  *)
(* also after the place of its label was ORed in.  The operands of a        *)
(* comparison are displayed the other way round.  A shift amount that needs *)
(* more than its five bits is not covered: it reaches into rd.  Nor is a    *)
(* shift of register 0 into itself by 0: it is the word of nop.             *)
Ambiguous(l) == /\ l.name \in Shifts
                /\ l.ops[3] \notin Register \/ (l.name = "sll" /\ l.ops = <<0, 0, 0>>)

WordsDecode ==
  Loaded =>
    \A k \in OfKind(InstructionKind) : ~Ambiguous(parsed[k]) =>
      LET shown == Decode(m.content["text"][Place(k) + 1])
          written == parsed[k].ops
      IN  /\ shown.name = parsed[k].name /\ shown.cop = parsed[k].cop
          /\ Len(shown.ops) = Len(written) + (IF parsed[k].kind = "plain" THEN 0 ELSE 1)
          /\ \A n \in DOMAIN written :
               written[n] % ImmSize =
                 IF shown.name \in Compares THEN shown.ops[3 - n] ELSE shown.ops[n]

-----------------------------------------------------------------------------
(* The bytes of an item.  The terminator of a string is there only if its   *)
(* length is no multiple of a word, and a negative number of a .float or    *)
(* .double is the unsigned one the grammar makes of it.                     *)
BytesOf(l) ==
  CASE l.type \in {"word", "float"} -> Spread(Unsigned(l.values), WordBytes)
    [] l.type = "double" -> Spread(Unsigned(l.values), 2 * WordBytes)
    [] l.type = "space" -> [n \in 1 .. l.values[1] |-> Nul]
    [] l.type = "asciiz" ->
         LET chars == Spread(l.values[1], 1)
         IN  IF Len(chars) % WordBytes = 0 THEN chars ELSE Append(chars, Nul)

(* What la puts in its register is the address of the item it names, which  *)
(* holds the item's values and no byte of another's: the position counted   *)
(* while parsing, the block allocated and the address written agree for     *)
(* items of every type and size, in any order.                              *)
AddressesReachData ==
  Loaded =>
    \A k \in OfKind({"la"}) : \A d \in OfKind({"item"}) :
      parsed[d].label = parsed[k].label =>
        LET at == WordAt(Place(k)).addr_i * ImmSize + WordAt(Place(k) + 1).addr_i
            bytes == BytesOf(parsed[d])
        IN  \A n \in DOMAIN bytes : ReadByte(m, at + n - 1) = bytes[n]

(* The assertion of setup_memory holds: a block begins where the last one   *)
(* was written to its end.                                                  *)
AllocatesWhereItWrites == SettingUp /\ Room => NextFree(m) = next_address
=============================================================================
