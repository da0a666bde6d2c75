----------------------------- MODULE MCAssembler -----------------------------
(* Files of up to six lines, text before or behind data or alone: any       *)
(* instructions with and without labels, in any order; and, as the second   *)
(* line, an instruction of each format or an item of each type.             *)
EXTENDS AssemblerProperties

MCZero == << >>
MCContent == {MCZero}
MCRegion == {"text", "data", "stack"}
MCStart == "text" :> 64 @@ "data" :> 65544 @@ "stack" :> 70000
MCSize == "text" :> 32 @@ "data" :> 24 @@ "stack" :> 8

MCDigits == [main |-> 0, loop |-> 0, exit |-> 14]

L(kind, name, ops, label) == [kind |-> kind, name |-> name, cop |-> 0, ops |-> ops,
                              label |-> label, type |-> "word", values |-> << >>]
Plain(name, ops) == L("plain", name, ops, "none")
Fp(name, cop, ops) == [Plain(name, ops) EXCEPT !.cop = cop]
Relative(name, ops, label) == L("relative", name, ops, label)
Absolute(name, label) == L("absolute", name, << >>, label)
La(reg, label) == L("la", "la", <<reg>>, label)
Tagged(label) == L("tag", "", << >>, label)
Data(label, type, values) == [L("item", "", << >>, label) EXCEPT !.type = type, !.values = values]
Section(name) == L("directive", name, << >>, "none")
Junk == L("junk", "", << >>, "none")

Formats ==
  { Plain("add", <<31, 1, 2>>), Plain("sll", <<1, 30, 31>>), Plain("sll", <<0, 0, 0>>),
    Plain("sra", <<1, 2, 40>>), Plain("mult", <<3, 31>>),
    Plain("jr", <<31>>), Plain("jalr", <<31>>), Plain("syscall", << >>), Plain("nop", << >>),
    Plain("addi", <<1, 31, -1>>), Plain("lw", <<2, 40000, 29>>), Plain("lui", <<4, 4097>>),
    Plain("beq", <<1, 2, 3>>), Plain("lh", <<1, 0, 2>>), Plain("subi", <<1, 1, 1>>),
    Plain("j", <<0>>),
    Plain("swc1", <<31, 4, 1>>),
    Fp("mul.", 1, <<2, 31, 6>>), Fp("c.lt.", 0, <<2, 31>>), Fp("mov.", 0, <<30, 4>>),
    Relative("bc1t", << >>, "main"), Relative("bc1f", << >>, "loop"),
    Relative("beq", <<1, 31>>, "exit"), Absolute("jal", "exit"), Absolute("jr", "main") }

Items ==
  { Data("main", "word", <<5, 0, 6>>), Data("loop", "word", <<-1>>),
    Data("main", "float", <<-7>>), Data("loop", "double", <<8, -8>>),
    Data("main", "asciiz", << <<1, 2, 3>> >>), Data("loop", "asciiz", << <<1, 2, 3, 4>> >>),
    Data("loop", "asciiz", << << >> >>), Data("main", "space", <<5>>),
    Data("main", "space", <<20>>), Data("loop", "space", <<-1>>) }

Text == { Plain("add", <<1, 2, 3>>), La(4, "main"), La(5, "loop"), Tagged("main"),
          Tagged("loop"), Relative("bne", <<1, 0>>, "loop"), Absolute("j", "main") }

FewItems == { Data("main", "word", <<9>>), Data("loop", "asciiz", << <<1, 2, 3>> >>),
              Data("main", "space", <<6>>) }

Directives == { Section("text"), Section("data") }

MCLineAt ==
  [n \in 1 .. 6 |->
     CASE n = 1 -> Directives \cup {Junk, Tagged("main")}
       [] n = 2 -> Formats \cup Items \cup Text \cup {Tagged("exit"), Section("data")}
       [] n = 3 -> Text \cup FewItems \cup Directives \cup {Tagged("exit")}
       [] n = 4 -> Text \cup FewItems \cup Directives
       [] n = 5 -> {La(4, "main"), Tagged("loop"), Relative("bne", <<1, 0>>, "loop"),
                    Section("data")} \cup FewItems
       [] OTHER -> {La(5, "loop"), Tagged("main"), Data("loop", "word", <<9>>)}]

MCRest == { << >>, <<Plain("add", <<1, 2, 3>>)>>,
            <<Section("data"), Data("main", "word", <<9>>)>>,
            <<Section("data"), Data("loop", "word", <<9>>), Junk>> }
==============================================================================
