------------------------------- MODULE Session -------------------------------
(***************************************************************************)
(* A session of the command line interface (interface/mipscli.cpp): files  *)
(* are loaded, a CPU is set, and its program is run, stepped, taken back   *)
(* and reset, over the memory of MemoryOps.                                *)
(*                                                                         *)
(* The CPU is reduced to what outlives a cycle and a program to the        *)
(* accesses and services it performs, one in each cycle; what overlaps     *)
(* inside a CPU is the concern of Pipeline.  Each handler of the menus is  *)
(* one action.  An exception ends a handler with what it has done so far.  *)
(***************************************************************************)
EXTENDS MemoryOps

CONSTANTS
  File,      \* the files that may be loaded, numbered from 1
  Source,    \* what a file holds, see FileType
  Inputs,    \* words a service may read
  NoCpu,     \* the null pointer of a CPU that was not set
  MaxCycle   \* bound: cycles of a run

(* What a file goes through: it does not exist, does not parse, names a     *)
(* label that does not exist, or is complete.                               *)
State == {"missing", "garbled", "unresolved", "complete"}

(* In a cycle a program does nothing that is kept, stores at an address,    *)
(* asks for memory, reads a word or exits.                                  *)
Effect == [op : {"idle", "store", "sbrk", "read", "exit"}, arg : Addr]

FileType == [state : State, sections : Seq(Addr), data : Content, code : Seq(Effect)]

ASSUME FileAssumption ==
  File \subseteq Content \ {Zero} /\ \A f \in File : Source[f] \in FileType
ASSUME ContentIsWord == /\ Cardinality(Content) \in Nat \ {0}
                        /\ Content = 0 .. Cardinality(Content) - 1 /\ Zero = 0
ASSUME SessionAssumption == Inputs \subseteq Nat /\ MaxCycle \in Nat

VARIABLES
  m,           \* mem
  cpu,         \* the CPU: next instruction, cycle, result register, ready
  fileLoaded,  \* file_loaded
  alive,       \* FALSE when an assertion has failed and ended the program
  restored     \* the run began with the memory as the file was loaded

vars == <<m, cpu, fileLoaded, alive, restored>>

Fresh == [pos |-> 0, cycle |-> 0, result |-> 0, ready |-> TRUE]

Init == /\ m = New
        /\ cpu = NoCpu
        /\ fileLoaded = FALSE
        /\ alive = TRUE
        /\ restored = TRUE

-----------------------------------------------------------------------------
(* One cycle of the CPU, from a state [m, c, threw] to those it may leave.  *)
Code(mem) == IF mem.content["text"] = Zero THEN << >>
             ELSE Source[mem.content["text"]].code

FetchAddr(pos) == Start["text"] + pos * WordBytes

Current(s) == IF s.c.pos < Len(Code(s.m)) THEN Code(s.m)[s.c.pos + 1]
              ELSE [op |-> "idle", arg |-> 0]

Throws(s) ==
  LET e == Current(s)
  IN  \/ ~Accessible(s.m, FetchAddr(s.c.pos))
      \/ e.op = "store" /\ ~(Aligned(e.arg) /\ Accessible(s.m, e.arg))
      \/ e.op = "sbrk" /\ ~CanAllocateNext(s.m, e.arg)

(* A store makes the data another one, which depends on what was computed.  *)
Stored(c, word) == CHOOSE d \in Content : d = (c + word + 1) % Cardinality(Content)

Done(s) ==
  LET e == Current(s)
      c == [s.c EXCEPT !.pos = @ + 1, !.cycle = @ + 1]
  IN  CASE e.op = "store" ->
             { [s EXCEPT !.c = c,
                         !.m = Write(@, "data", Stored(@.content["data"], c.result))] }
        [] e.op = "sbrk" ->
             { [s EXCEPT !.c = [c EXCEPT !.result = NextFree(s.m)],
                         !.m = AllocateNext(@, e.arg)] }
        [] e.op = "read" ->
             { [s EXCEPT !.c = [c EXCEPT !.result = w]] : w \in Inputs }
        [] e.op = "exit" -> { [s EXCEPT !.c = [c EXCEPT !.ready = FALSE]] }
        [] OTHER -> { [s EXCEPT !.c = c] }

Cycle(s) == IF Throws(s) THEN { [s EXCEPT !.c.cycle = @ + 1, !.threw = TRUE] }
            ELSE Done(s)

(* Error variant of HasSnapshots: nothing is asserted.                       *)
HasSnapshotsUnasked(mem) == TRUE

(* reset, which asserts that there are snapshots to restore.                *)
HasSnapshots(mem) == mem.snap["text"] # NoSnapshot /\ mem.snap["data"] # NoSnapshot

(* Error variant of Reset: the data are left as the program made them.      *)
ResetText(mem) == [m |-> Restored(mem, "text"), c |-> Fresh, threw |-> FALSE]

Reset(mem) == [m |-> Restored(Restored(mem, "data"), "text"), c |-> Fresh, threw |-> FALSE]

(* A turn of a loop that calls next_cycle until it throws or the program    *)
(* exits, and count turns of it.                                            *)
Turn(s) == IF s.threw \/ ~s.c.ready THEN {s} ELSE Cycle(s)

Turns(from, count) ==
  LET after[n \in 0 .. count] ==
        IF n = 0 THEN {from} ELSE UNION { Turn(s) : s \in after[n - 1] }
  IN  after[count]

(* run_to_cycle: the loop ends a cycle before the target, and one more      *)
(* cycle is run in any case, after an exit too.                             *)
LastCycle(s) == IF s.threw THEN {s} ELSE Cycle(s)

RunToCycle(mem, target) ==
  IF target = 0 THEN {Reset(mem)}
  ELSE UNION { LastCycle(s) : s \in Turns(Reset(mem), target - 1) }

-----------------------------------------------------------------------------
(* assemble_file, from the memory of before to that of after and how it     *)
(* ended.  setup_memory locks the memory for good, allocates and fills the  *)
(* sections of data, then the text, with room for two more words.           *)
Section(s, size) ==
  IF s.threw \/ ~CanAllocateNext(s.m, size) THEN [s EXCEPT !.threw = TRUE]
  ELSE [s EXCEPT !.m = AllocateNext(@, size)]

TextSize(f) == (Len(Source[f].code) + 2) * WordBytes

(* No file has so many instructions that the end of its text wraps.         *)
ASSUME TextAssumption == \A f \in File : Start["text"] + TextSize(f) < AddrSize

(* The memory once the first count sections of data are allocated.          *)
Sections(mem, f, count) ==
  LET after[n \in 0 .. count] == IF n = 0 THEN [m |-> Locked(mem), threw |-> FALSE]
                                 ELSE Section(after[n - 1], Source[f].sections[n])
  IN  after[count]

SetupMemory(mem, f) ==
  LET data == Sections(mem, f, Len(Source[f].sections))
      text == AllocateAt(Write(data.m, "data", Source[f].data), "text", TextSize(f))
  IN  IF data.threw \/ ~CanAllocateAt(data.m, "text", TextSize(f))
      THEN [m |-> data.m, threw |-> TRUE]
      ELSE [m |-> Write(text, "text", f), threw |-> FALSE]

(* load_file.  A file that does not parse returns 1, which is true.         *)
LoadFile(f) ==
  LET cleared == Cleared(m)
      setup == SetupMemory(cleared, f)
  IN  CASE Source[f].state = "missing"    -> [m |-> m, loaded |-> FALSE]
        [] Source[f].state = "garbled"    -> [m |-> cleared, loaded |-> TRUE]
        [] Source[f].state = "unresolved" -> [m |-> cleared, loaded |-> FALSE]
        [] Source[f].state = "complete" /\ setup.threw -> [m |-> setup.m, loaded |-> FALSE]
        [] OTHER -> [m |-> Snap(Snap(setup.m, "text"), "data"), loaded |-> TRUE]

-----------------------------------------------------------------------------
(* The handlers.                                                            *)
Abort == /\ alive' = FALSE
         /\ UNCHANGED <<m, cpu, fileLoaded, restored>>

Become(s) == m' = s.m /\ cpu' = s.c

(* A new file resets the CPU there is.                                      *)
Load(f) ==
  LET r == LoadFile(f)
      resets == r.loaded /\ cpu # NoCpu
  IN  /\ alive
      /\ fileLoaded' = r.loaded
      /\ alive' = (resets => HasSnapshots(r.m))
      /\ IF resets /\ HasSnapshots(r.m)
         THEN Become(Reset(r.m)) /\ restored' = TRUE
         ELSE m' = r.m /\ UNCHANGED <<cpu, restored>>

(* A new CPU finds the memory as it is.  There is no flexible CPU yet.      *)
SetCpu ==
  /\ alive
  /\ cpu' = Fresh
  /\ restored' = (m.content["data"] = m.snap["data"])
  /\ UNCHANGED <<m, fileLoaded, alive>>

SetFlexCpu == alive /\ Abort

Ready == alive /\ cpu # NoCpu /\ fileLoaded

(* A step by the user, or one turn of the loop of run.                      *)
NextCycle ==
  /\ Ready /\ cpu.ready /\ cpu.cycle < MaxCycle
  /\ \E s \in Cycle([m |-> m, c |-> cpu, threw |-> FALSE]) : Become(s)
  /\ UNCHANGED <<fileLoaded, alive, restored>>

GotoCycle(target) ==
  /\ Ready
  /\ \/ /\ HasSnapshots(m)
        /\ \E s \in RunToCycle(m, target) : Become(s)
        /\ restored' = TRUE
        /\ UNCHANGED <<fileLoaded, alive>>
     \/ ~HasSnapshots(m) /\ Abort

PrevCycle == cpu # NoCpu /\ cpu.cycle > 0 /\ GotoCycle(cpu.cycle - 1)

ResetCpu ==
  /\ alive /\ cpu # NoCpu
  /\ \/ /\ HasSnapshots(m)
        /\ Become(Reset(m))
        /\ restored' = TRUE
        /\ UNCHANGED <<fileLoaded, alive>>
     \/ ~HasSnapshots(m) /\ Abort

Next == \/ \E f \in File : Load(f)
        \/ SetCpu \/ SetFlexCpu \/ NextCycle \/ PrevCycle \/ ResetCpu
        \/ \E n \in 0 .. MaxCycle : GotoCycle(n)

Spec == Init /\ [][Next]_vars

-----------------------------------------------------------------------------
(* What the user sees of a state, and its memory.                           *)
Visible(s) == <<s.c.pos, s.c.result, s.c.ready, s.m.content["data"], s.m.content["text"]>>

(* A program whose runs are all alike: it reads no word and asks for no     *)
(* memory, blocks of which outlive a reset.                                 *)
Repeatable == \A k \in DOMAIN Code(m) : Code(m)[k].op \notin {"read", "sbrk"}

SessionTypeOK ==
  /\ cpu = NoCpu \/ cpu \in [pos : Nat, cycle : Nat, result : Nat, ready : BOOLEAN]
  /\ m.blocks \in Seq(Block)
  /\ m.content \in [Region -> Content]
  /\ m.snap \in [Region -> Content \cup {NoSnapshot}]
  /\ {fileLoaded, alive, restored} \subseteq BOOLEAN

(* Going to the cycle one is in changes nothing: run_to_cycle restores what *)
(* the file loaded and comes to the same state by replaying, however the    *)
(* session got there: by steps, by going back and forth, to the cycle       *)
(* behind the exit, or through cycles that threw.  This is what makes       *)
(* "previous cycle" the cycle before.                                       *)
ReplayReproduces ==
  Ready /\ HasSnapshots(m) /\ restored /\ Repeatable =>
    \A s \in RunToCycle(m, cpu.cycle) : Visible(s) = Visible([m |-> m, c |-> cpu])

(* Snapshots are of the program that is loaded, the words of which, and the *)
(* two behind them, can be fetched: no reset or replay brings back a        *)
(* program that a later load, complete or not, has cleared away.            *)
SnapshotsAreOfProgram ==
  HasSnapshots(m) =>
    /\ m.snap["text"] = m.content["text"] /\ m.snap["text"] # Zero
    /\ \A k \in 0 .. Len(Code(m)) + 1 : Accessible(m, FetchAddr(k))
=============================================================================
