# A formal model of mips_sim

`mips_sim` simulates MIPS CPUs cycle by cycle: a multicycle CPU driven by
microcode, a five-stage pipeline with optional hazard detection and forwarding
and three ways of treating branches, and a flexible pipeline with an FP
coprocessor. This directory holds TLA+ modules translated from its C++ sources,
TLC configurations that check them on small instances, and proofs checked by
TLAPS. Paths below are relative to the repository, whose code is in `src/`.

## 1. Inventory of the system

The simulator is one sequential process. There are no threads (the Qt interface
calls the CPU from the event loop), nothing is persisted and nothing is sent.
What makes it hard is inside the CPUs: up to five instructions overlap, each
stage reads state that others change in the same cycle, exceptions stop a cycle
half way, and the user may change the configuration, ask for another cycle or go
back a cycle at any time.

| component | state | operations | hard behaviour |
|---|---|---|---|
| `Cpu` (`src/cpu/cpu.cpp`) | PC, HI, LO, register banks, cycle, `ready`, status table, console | `next_cycle`, `run_to_cycle`, `reset`, `syscall`, `set_status`, register accessors | a write to `$0` throws; the exit service ends the run; services read input and allocate memory, so a replay may differ |
| `CpuPipelined` (`src/cpu/cpu_pipelined.cpp`) | `seg_regs`, `next_seg_regs`, `flush_pipeline`, `next_pc`, the diagram | stages WB, MEM, EX, ID, IF once per `next_cycle`; `reset`; the four setters | stale operands, two stages that flush in one cycle, instructions on paths a branch leaves, exceptions with half a cycle done, retries |
| `CpuMulti` (`src/cpu/cpu_multi.cpp`) | `mi_index`, IR, A, B, ALU output, MDR, diagram | one microinstruction per `next_cycle` | which microinstruction ends an instruction; the diagram's bound |
| `ControlUnit` (`component/control_unit.cpp`) | microcode, control directory | build from the matrix, `test`, `find_ctrl_dir_entry` | packing of fields of several bits |
| `Alu` (`component/alu.cpp`) | delays | `compute_op`, `compute_subop` | signedness, overflow, division by zero |
| `RegistersBank` (`component/registers_bank.cpp`) | 32 words | read/write words, floats and doubles | a double is a pair of registers |
| `Memory` (`src/mem.cpp`) | regions, blocks, snapshots, the lock | `allocate_space`, `mem_read_*`, `mem_write_*`, `snapshot`, `reset`, `clear` | overlap of blocks, what a reset restores and what it keeps |
| Assembler (`assembler/mips_assembler.y`) | label table, lists of instructions and data, counters of lines and positions, all static; the scanner's buffer | `assemble_file`, label resolution, `setup_memory` | forward references, positions counted in three places, an exception that leaves the parser in the middle of a file |
| `CpuFlex`, `HardwareManager`, stages, `HazardDetectionUnit`, `ForwardingUnit`, `FPCoprocessor` (`cpu_flex/`, `component/`) | stage registers, FP units with latencies | as `CpuPipelined`, with FP units that finish out of order | who enters MEM when EX and the coprocessor finish together |
| `MipsCli` (`interface/mipscli.cpp`), `run_batch` (`mips_sim.cpp`) | the CPU, its type, the loaded file | load, set cpu, run, next, prev, goto, reset | going back by replay; exceptions leave the loop |
| Qt interface (`interface/qt/`) | the CPU, the buttons that are enabled, the settings dialog, the labels of the diagram | the four buttons, load, settings | exceptions answered by a replay, settings changed in the middle of a run, what is left after a load that fails |
| `Utils` (`utils.cpp`) | | `assemble_instruction`, `fill_instruction`, `decode_instruction` | fields that share a place, no masks |
| `cli/`, generated parser and scanner | text | | |

Interactions: the drivers own a `Memory` and a CPU that refers to it. A load of
a file clears memory, lets the assembler fill text and data and takes snapshots;
`next_cycle` calls the five stages, which call the ALU, the register banks and
the memory; `syscall` is called from EX and may end the run (`ready = false`),
read input or allocate memory; every exception of a stage passes through
`next_cycle` and ends the driver's loop; `reset` brings registers, segmentation
registers and the snapshots of the memory back. There are no callbacks other
than Qt's signals.

What makes each component correct:

* **CpuPipelined**: a program cannot tell that it runs in a pipeline (with the
  hazard detection unit on); a service call runs alone; every instruction has
  its operands when it computes; what a branch leaves behind has no effect; a
  failed cycle is not silently skipped; a program that exits does so in the
  pipeline too; no cycle breaks an assertion of the code.
  The diagram it records is of the instructions that are in the pipeline.
* **Memory**: blocks are disjoint, an access is to one block, `reset` restores
  what `snapshot` took.
* **Interfaces**: going back n cycles and forward again comes to the same state;
  what is shown is a cycle of the program that is loaded, under one
  configuration; no click ends the program.
* **CpuMulti**: every instruction takes the microinstructions of its entry and
  has its architectural effect.
* **CpuFlex and its coprocessor**: results are written in an order the program
  cannot tell; what the CPU counts is what the coprocessor holds.
* **ControlUnit**: a signal reads in a stage as the matrix has it for the
  instruction that is there.
* **Assembler and Utils**: labels stand for what is behind them, words decode to
  what was written, data is written where it was allocated.

PROJECT.json lists the components with their status and the hazards, each at
its line and with the properties that would show it going wrong.

## 2. What is modelled

| module | models | from |
|---|---|---|
| `Instructions` | instructions as records, microcode columns as predicates, word arithmetic, ALU output, branch conditions | `cpu_pipelined.h`, `alu.cpp`, `utils.cpp` |
| `Isa` | the sequential machine, with or without a delay slot: what a program means, one instruction per step; the contract of `CpuPipelined` and `CpuMulti` | a specification, not a component |
| `Pipeline` | `CpuPipelined` and the parts of `Cpu`, memory and the drivers it needs | `cpu_pipelined.cpp` |
| `PipelineProperties` | the invariants, action properties and the refinement mapping to `Isa` | |
| `PipelineProofs` | TLAPS proofs of its invariants | |
| `RefinementProofs` | TLAPS proofs of the refinement of `Isa` | |
| `Microcode` | the control words of the pipelined CPU: packing, the control directory, masks of the stages, `test` | `control_unit.cpp`, `cpu_pipelined.h` |
| `Diagram` | what `next_cycle` records of the pipeline, which cells `print_diagram` prints and which the window shows | `cpu_pipelined.cpp`, `mips_sim_gui.cpp` |
| `DiagramProofs` | TLAPS proofs | |
| `MemoryOps` | the simulated memory as a record and the operations on it: `allocate_space`, the lock, access checks, snapshots, `reset`, `clear` | `mem.cpp`, `mem.h` |
| `Memory` | that memory as an object, its calls in any order | `mem.cpp` |
| `MemoryProofs` | TLAPS proofs | |
| `Session` | the menus of the command line interface over `MemoryOps`: `load` with `assemble_file`'s effects on memory, `set_cpu`, steps, `p`, `goto`, `reset` | `mipscli.cpp`, `cpu.cpp`, `mem.cpp`, `mips_assembler.y` |
| `Interfaces` | the program as it is started: `Session` as the command line, the handlers of the window, the batch modes | `mips_sim_gui.cpp`, `mips_sim_settings.cpp`, `mips_sim.cpp` |
| `SessionProofs` | TLAPS proofs about `Session` and `Interfaces` | |
| `MultiCycle` | `CpuMulti`: microcode, control directory, datapath, and the refinement mapping to `Isa` | `cpu_multi.cpp`, `cpu_multi.h`, `control_unit.cpp`, `alu.cpp` |
| `MultiCycleProofs` | TLAPS proofs | |
| `FlexInstructions` | the instructions of `CpuFlex` and its segmentation register | `utils.cpp`, `hardware_manager.h`, `stage_id.cpp` |
| `Fpu` | `FPCoprocessor`, `HazardDetectionUnit`, `ForwardingUnit`, as operators | `fp_coprocessor.cpp`, `hazard_detection_unit.cpp`, `forwarding_unit.cpp` |
| `Flex` | `CpuFlex`: stages, `HardwareManager` and the coprocessor composed | `cpu_flex.cpp`, `stages/`, `hardware_manager.cpp` |
| `FlexProperties` | its properties, and the reference they compare with | |
| `FlexProofs` | TLAPS proofs | |
| `Encoding` | statements to fields to words and back | `utils.cpp`, `global_defs.h` |
| `Assembler` | `assemble_file`: the actions of the grammar, resolution of labels, `setup_memory`, over `MemoryOps` | `mips_assembler.y`, by its lines in `mips_parser.cpp` |
| `AssemblerProperties` | its properties, told from the lines and the memory | |
| `AssemblerProofs` | TLAPS proofs | |
| `MCPipeline` and `MCPipeline*`, `MCMemory`, `MCSession`, `MCMultiCycle`, `MCFlex`, `MCAssembler` | instances for TLC | |

### Instructions

An instruction is a record `[op, rs, rt, rd, imm, low12]`. `op` distinguishes
the operations that differ in *control*: one `alu` stands for all R-type
operations of the ALU and `alui` for all immediate ones, `mfhi` for those the
ALU does not know and throws on (`mflo`, `mthi`, `mtlo` too), `fp` for
`OP_FTYPE`. Predicates such as `RegWrite`, `MemRead` and `Branch` are the columns
of `uc_microcode_matrix` (`cpu_pipelined.h` 36-56). `low12` is the one accident
of the encoding that control depends on (`funct` is set from the low six bits of
every format, `utils.cpp` 328-359). An address counts words, a machine word is a
residue modulo `WordSize`.

### Isa

The state of the sequential machine is the instruction to execute (`current`) and
the address next to it (`next`). Branch offsets and return addresses count from
`next`. Without delayed branches `BranchTo` goes to the target; with them it executes the
instruction at `next`, if there is one, and goes to the target after it, so that
a branch in a delay slot counts from the target of the branch ahead of it, as
the PC that `stage_if` keeps with it does (`cpu_pipelined.cpp` 124-151).

### Pipeline

One call of `next_cycle` is one action. The C++ runs WB, MEM, EX, ID, IF in that
order, and each stage sees what the ones before it did in the same cycle. The
operators follow: `gprWB` is the register file stage WB leaves, `memMEM`,
`flushMEM`, `pcMEM` and `nextPcMEM` what MEM leaves, `GprEX` the register files a
service call may leave, `flushID(g)` and `pcID(g)` what ID leaves when EX left
`g`, `pcIF(g)` what IF leaves. The actions are the ways the cycle can end:

| action | end of `next_cycle` |
|---|---|
| `ThrowWB` | `write_register` refuses `$0` |
| `ThrowMEM` | an address no region accepts |
| `ThrowEX` | an operation the ALU does not know, or an unknown service |
| `ThrowID` | an FP instruction |
| `ThrowIF` | a fetch outside the text |
| `Overflow` | the diagram has no column for the cycle (`MAX_DIAGRAM_SIZE`) |
| `Abort` | `assert(stage <= STAGE_WB)` fails, in builds with assertions |
| `Complete` | the segmentation registers advance and the flushed ones are cleared |

`Reset`, the four setters (`Reconfigure`) and the loops of the drivers (`Drive`)
complete it. The state keeps the names of the code: `ifid`, `idex`, `exmem` and
`memwb` are the four entries of `seg_regs`, each reduced to what is not a function
of its instruction (signals, register numbers and the destination are); `flush`
is `flush_pipeline`, `nextPc` is `next_pc`. `next_seg_regs` needs no variable: it
is written and consumed within a cycle, and a cycle that throws leaves entries
that the retry writes again before they are read. `status` holds the four
settings of the configuration and whether the build evaluates `assert`.

Specifications: `Spec` lets anything happen in any order; `FixedSpec` does not
change the configuration after the start but allows cycles after an exception;
`DriveSpec` stops at an exception, as `run_batch` and `run` do, until a reset;
`RunSpec` is their loop, with fairness.

An operator whose name extends another's (`ForwardOldest`, `flushMEMAdded`, ...)
and whose comment calls it an error variant is that operator with a plausible
mistake. PROJECT.json's `mutants` names a property and a run for each: with the
variant in place of the original TLC finds the property violated, which shows
that the property depends on that line of the code.

### Microcode

A control word is the set of its bits that are 1, so that the code's `|` is `\cup` and its `&`
is `\cap`; `BitsOf` and `Number` turn the numbers of the matrix (at most 2, or `X`) into bits and back.
`Matrix`, `SignalBits` and `Directory` are the tables of `cpu_pipelined.h` as data,
`Packed` is `build_microcode`, `Bitmask` and `Sigmask` are the masks the
constructor computes from prefixes of `signals_ID`, `Fitting`, `Entry` and `ControlWord` are the
search of the directory, with the low six bits that other formats use for constants.
`Tested` lists which signal each stage tests. The module adds no state: it says
of the instructions in the segmentation registers of `Pipeline` what the code
would read there.

### Diagram

`CycleRecorded` is `NextCycle` of `Pipeline` with what the same call does to
`loaded_instructions` (`loaded`, without its first entry), to the row an
instruction carries through the segmentation registers (`iid`) and to the matrix
(`diagram`, by cycle). An address is noted before it is read, so a fetch that
throws leaves a note; a cycle that threw earlier leaves none. `Printed` is the inner loop
of `print_diagram`; `Shown`, `Since`, `Width`, `Labelled`, `LabelCycle` and
`WindowColumn` are the arithmetic of `set_diagram_labels`, with the unsigned
comparison of line 210.

### MemoryOps and Memory

A memory is a record `[locked, blocks, content, snap]`: `locked`,
`allocated_regions` in the order of allocation, and for each region what it
holds and its snapshot, each as one opaque value. Operations are operators from
a memory to a memory (`AllocateNext`, `AllocateAt`, `Cleared`, `Snap`, ...),
with the condition under which the code does not throw beside them
(`CanAllocateNext`, `CanAllocateAt`, `Accessible`), so that `Memory` turns each
into an action and `Session` composes them into the handlers. Addresses are
residues modulo `AddrSize`, 2^32 in the code: `End` and `Fits` wrap as its sums
do. A block of size 0 holds no address, not even its own first one, and the
search for free space looks each block up by that address; the model keeps this
accident (`CanAllocateNext`).

`clear` leaves the lock as it is and does not allocate the stack's block again.
Both are kept; the second is among the departures below.

### Session

Each entry of the menus is one action, the whole handler. The CPU is reduced to
what outlives a cycle: how far the program has come (`pos`), the cycle, one
register that services write, and `ready`. A file is a state it fails or
succeeds in, the sizes of its data sections, its data and a program, which in
each cycle does nothing that is kept, stores at an address, asks for memory
(service 9), reads a word or exits; overlap inside a CPU is `Pipeline`'s
concern. `Turn` is one turn of a loop that calls `next_cycle` while nothing throws and
the program has not exited, `Turns` a number of them. `RunToCycle` is `run_to_cycle`: a
reset that restores the snapshots, turns up to the cycle in front of the target and then
one cycle in any case (`cpu.cpp` 598), so that `goto` behind the exit runs a cycle
of a program that has exited. `Sections` allocates the sections of data one after another. `LoadFile` is
`load_file` with `assemble_file` and `setup_memory`, in the order in which they
change the memory, so that each failure leaves what it leaves in the code.
`alive` becomes false when an assertion ends the program. `restored` is history:
whether the current run began with the memory as it was loaded (a CPU set in the
middle of a run finds the memory as that run left it).

### Interfaces

`Interfaces` adds to `Session` how the program was started (`mode`). A handler of
the window is one action, for Qt's loop waits for it; `Click` requires the button to
be enabled as `set_cpu_labels` last left it. `Handled` is the `try` of the
handlers and `HandleException` what they share: it goes back to the cycle before
the one that threw, by a replay that nobody guards. `SettingsAccepted` and
`SettingsCancelled` are the two ways the dialog closes, `LoadTriggered` is
`on_actionLoad_file_triggered` with the window's own `load_file`, which, unlike
`MipsCli`'s, does not take a file that does not parse for loaded. `RunFile`,
`RunHexFile`, `AssembleFile` and `BatchCycle` are `run_batch`. `ranUnder` is
history: the configurations of the cycles since the last reset.

### MultiCycle

One call of `next_cycle` executes one microinstruction, or counts a stall down.
`Microcode` is the matrix of `cpu_multi.h` as data, column by column, with "do
not care" as the 0 that `build_microcode` makes of it; `Jump1`, `Jump2` and
`Jump4` are the control directory and `NextRow` is
`get_next_microinstruction_index`. `Microinstruction` is generic: it interprets
whatever row `mi` names, on the datapath registers `ir`, `a`, `b`, `fa`, `fb`,
`aluOut` and `mdr`, as the C++ does, so a wrong bit in the matrix is a wrong
machine. A cycle that throws (`Throws`) changes nothing that its retry does not
write again and is a stuttering step. `Reset` comes at any microinstruction and
leaves the datapath as it is.

Two instructions never end on this CPU. `nop` (an R-format instruction with
destination `$0`) and a service call that returns both go through row 7, which
writes register `rd`, and `write_register` refuses `$0`. The model keeps this. `Isa` does
not execute them twice: it stays where it is, as the CPU does.

The cycles of multiplications are 0 in the model since `Cpu`'s constructor builds
the `Alu` from status entries it sets afterwards. FP operations stall for
`FpDelay` cycles. `MDR` keeps an instruction after a fetch in the code and 0 in
the model; no row reads it before writing it.

### FlexInstructions, Fpu and Flex

One call of `CpuFlex::next_cycle` is one action of `Flex`: `rising_flank`, the
coprocessor's `work`, both halves of the five stages, then the chain of conditions
that moves the segmentation registers. As in `Pipeline` a name that ends in a stage is what that stage
leaves. `Fpu` holds the coprocessor as a record of what its members hold, so that `Work` is
one call of `work()`: every unit computes, counts, and marks its result as ready
to be forwarded, and the finished one with the longest delay leaves. `Worked`,
`IntoEX`, `IntoID` and `meMoved` keep the comparisons the code makes, by
instruction code, not what they are meant to ask. Uninitialised data is a choice: `Garbage`
for the result of an access that failed, `CopGarbage` for the `cop` field of an
instruction that is not of type F, `CountGarbage` for the count of active instructions (`fpCount`), to which
no constructor gives a value: only `HardwareManager::reset` makes it 0, which `CpuFlex`'s constructor does not
call. `countStart` is history: what the count started from. Entries that `at()` does not find end the call (`lost`).
Floats are words: what is modelled is which operands an instruction gets.

### Encoding and Assembler

The map names the code of the grammar by its lines in `mips_parser.cpp`, which is the file that is
compiled: bison copies actions and functions into it from `mips_assembler.y`.

`Encoding` keeps the number 26 bits wide behind the opcode and puts fields into it
with the OR of the code, so that fields that are too wide or in the wrong place reach
their neighbours. The mnemonics are records from name to number, as `instructions_def`. `Or` is a recursive
function rather than the operator of `Bitwise`, which the prover cannot take. `Written` says which
operands the grammar lets a name have, `Assembles` what of it the tables know; `Legal` is the same of
a line, and an assumption says that the lines of a file are legal. Of the operations of type F only those whose name
says so (`Doubled`) have a second precision.

`Assembler` takes a file as a sequence of lines, each one reduction of the grammar,
chosen as it is read. One action is one reduction (`Directive`, `Instruction`,
`LoadAddress`, `Tag`, `Item`), one turn of a loop (`Resolve`, those of
`setup_memory`), or one way to fail: `Refused` (an exception thrown through the
parser, which leaves the rest of the file in the scanner's buffer for the next
call), `SyntaxError`, `Incomplete`, an unknown or ambiguous name, an allocation or a write
that throws, and what ends the program. `parsed` is history. The loops of `setup_memory` over values and
characters are one write: `Image` is what all calls of the memory together write of an item, `Unit` how much each
does, and `RefusedAt` the first that is refused, up to which `Done` counts what has been written. `Unsigned` is what
the grammar makes of an integer, whose token has an unsigned type, before it writes it down as text again: a negative one in
a `.float` or `.double` is stored as a large positive number, and in a `.word` it is refused by `stoi`.

### Limits of the model

* Text is not addressed as data, and data is not executed: in the program a load
  from the text region reads instructions and a jump into data fetches there.
  Here the former throws in MEM and the latter in IF.
* Unaligned addresses do not occur in the CPUs; bytes and half words are not modelled there.
* Of the services, those that print, read an integer, allocate, draw a random
  integer or exit are modelled: the value left in the result register is any of
  `Inputs`. Which service throws on which argument is the constant `Refused`: printing a string (4) where
  there is no memory, and asking for more of it (9) than there is room for. In the instances these are the addresses of no
  data word, and sizes of more than 4. The blocks of the CPU modules stay as they are; `Session` has the service that
  allocates. Reading floats or strings (6 to 8) and drawing floats (43, 44) write
  FP registers or memory and are left out.
* `$sp` starts at 0 in the CPUs instead of at the top of the stack, which no region of
  the instances contains.
* Division is not modelled; `mult` keeps only the low word of its result (it is
  visible through `hilo` only, which no implemented instruction reads).
* Builds with assertions: `get_current_instruction` asserts `stage <= STAGE_WB` and
  is called for `STAGE_COUNT` = 6 stages (`cpu_pipelined.cpp` 693, 721), so such a
  build, the Makefile's among them, ends in the first cycle of every program (`Abort`). The
  other runs are of builds without assertions, where the sixth stage reads a
  segmentation register that is always empty and its cell goes to row 0, which
  nothing prints.
* `Session`'s programs do not store to their own text. Its CPU is the pipelined
  one in builds without assertions and the multicycle one for programs without services that
  return. In builds without assertions a `reset` without snapshots copies from a
  null pointer instead of failing an assertion; `alive = FALSE` stands for that
  too, as it does for an exception that nobody catches.
* `Assembler` has values of data as numbers (`Encoding`'s statements have theirs as operands); what
  `stoi` and `stof` make of text, and text that the patterns of the scanner divide
  differently, is left out.

## 3. Properties and runs

| property | says | run |
|---|---|---|
| `TypeOK` | every variable has the range its declaration gives; notably `flush_pipeline` stays in {0, 1, 3} and no word outgrows its width | `pipeline_any` |
| `SyscallAlone` | a service call reaches EX with EX/MEM and MEM/WB empty, so it sees what program order leaves | `pipeline_any` |
| `SignalsArrive` | every signal a stage tests reads there as the matrix has it for the instruction in that stage | `pipeline_any` |
| `OperandsReady` | with the hazard detection unit, every instruction the unit watches has operands in EX that forwarding or the register file can give it | `pipeline_interlock` |
| `ThrowIsFinal` | a cycle that threw throws again when retried, until a reset | `pipeline_interlock` |
| `RowsNameInstructions` | the row that moves with an instruction is that of the address it was fetched from; what has no row is a bubble | `pipeline_interlock` |
| `RowsInOrder` | no two instructions that go on share a row in a cycle, and the older is higher up | `pipeline_interlock` |
| `RowsAreWhole` | a row is printed as a whole, and reads IF, ID, EX, MEM, WB without going back or skipping a stage | `pipeline_interlock` |
| `WindowHolds` | ten columns hold every instruction in the pipeline from its fetch on, each cell under its cycle | `pipeline_interlock` |
| `ImplementsIsa` | the pipeline implements the sequential machine | `pipeline` |
| `RunsToExit` (pipeline) | programs that exit do so | `pipeline_run` |
| `BlocksDisjoint` | no byte belongs to two blocks | `memory` |
| `BlocksInRegion` | no block covers a byte outside the region it starts in, also when its size is a negative number | `memory` |
| `MemoryTypeOK` | what a region holds is something written to it or a snapshot that was taken | `memory` |
| `ReplayReproduces` | going to the cycle the session is in changes nothing: `run_to_cycle`, which restores and replays, comes to the state that steps, earlier replays and exceptions led to | `session` |
| `SnapshotsAreOfProgram` | the snapshots a reset restores are of the program that is loaded, all of whose words can be fetched | `session` |
| `WindowShowsCycle` | the window shows a cycle of the loaded program, never one that threw, and offers what can be done then | `session` |
| `ClicksSurvive` | with a file loaded no click ends the program: the assertion of `reset` holds, and the replay that answers an exception throws none | `session` |
| `OneConfiguration` | what the window shows was run from the start under the configuration the CPU has | `session` |
| `InterfaceTypeOK` | memory, CPU and buttons keep their types; nothing is restored from a snapshot that does not exist | `session` |
| `MicrocodeImplementsIsa` | the microcode implements the sequential machine: the rows an instruction goes through do together what it means, whatever its predecessor or a reset left in the datapath | `multicycle` |
| `InstructionsEnd` | an instruction that does not throw comes back to the fetch, through its stalls | `multicycle` |
| `MultiTypeOK` | registers and datapath hold words, and the row to execute exists | `multicycle` |
| `DestsInFlight` | `dest_registers` lists the destinations of the instructions in the units, as often as they occur | `flex` |
| `CountIsBusy` | the count a service call waits for is where it started, which is 0 after a reset, and the instructions in the units | `flex` |
| `ServiceAlone` | a service is served with the coprocessor empty, and in a program the reference is kept for with nothing in MEM but another service call | `flex` |
| `IntegerResultsAreSequential` | at its exit an integer program has left in registers and memory what its instructions leave one after the other | `flex` |
| `FloatResultsAreSequential` | so has a program with a floating-point part, in whatever order its results came | `flex` |
| `RunsToExit` (flex) | a program that comes to its exit service sequentially does so in `CpuFlex`, from a count of 0 and after every reset | `flex` |
| `FlexTypeOK` | stages, units and tables keep their types | `flex` |
| `TargetsAreLabels` | branches and jumps of a loaded program go to the instruction behind the tag they name | `assembler` |
| `WordsDecode` | a word decodes to the statement it was made of | `assembler` |
| `AddressesReachData` | `la` gives the address at which the bytes of the item it names are | `assembler` |
| `AllocatesWhereItWrites` | `setup_memory` writes a section where `allocate_space` puts it | `assembler` |
| `AssemblerTypeOK` | tables and counters keep their types, the line counter counts the instructions | `assembler` |

**`ImplementsIsa`.** The refinement mapping says which instructions have taken
effect: those that left MEM, and service calls that left EX. The abstract
register file is the concrete one with the pending write-back applied; the
instruction to execute is the oldest one that has not taken effect, with the PC kept with it as
the address next to it (`Pending`).
A cycle that throws in EX or later in the cycle has already done MEM's work, which the
mapping takes into account (`MemDone`, `ExDone`). `Isa` skips zero words, so
bubbles and `nop`s are stuttering steps. A wrong forwarding, a missing stall, an
instruction on the wrong path that writes memory, an instruction lost or executed
twice around a flush, an exception raised for an instruction that the program
does not execute all violate it. With delayed branches the mapping is the same:
the PC that `stage_if` keeps with an instruction in a delay slot is the target of
the branch, which is what the abstract machine's `next` is. The abstract machine gets stuck where an
instruction cannot be executed, so "throws" means "does not get past".

**`MicrocodeImplementsIsa`** maps the PC, which moves on in the fetch, back to the
instruction in progress until its last row has run (a service call takes effect
one row earlier), and the registers and the memory to themselves. `Isa` has
operations of type F on this CPU (`HasFp`) and none on the pipelined one, where they throw.

**`RowsInOrder`, `RowsAreWhole`, `WindowHolds`** are stated for fixed non-taken
branches and for flushed branches decided in ID (`RowsAreTold`). In the other configurations the code itself fetches one
address twice in a row, for two instructions that then share a row: with delayed
branches a jump to its own slot, under flush in MEM a jump that is flushed after ID
has taken it. The bound of `WindowHolds` is tight: an instruction stays for at most nine cycles,
and ten would make the window blank every label.

**`IntegerResultsAreSequential`, `FloatResultsAreSequential` and `RunsToExit` of `FlexProperties`** compare
with `Run`, the program executed one instruction at a time. `Run(text)[n]` is a set of states, one for each
answer the services called so far may have given; it stays where it is from the call of the exit service, an
instruction that fails or an address outside the text on. What a program leaves is compared if all of its sequential
executions end within `Fuel` instructions. `Faithful` says which programs are compared, under which configurations:

* Integer programs under every configuration with hazard detection, those with branches where branches are
  decided in ID and not delayed. `Regular` sets aside what the code gets wrong: a write of `$0`, a function field
  that reads as that of `syscall` in another format, an instruction right behind a call that reads its answer; with forwarding
  also programs with `jr` or `jalr` (`JumpingTexts`). Moves between memory and floating-point registers are allowed.
* Programs with a floating-point part that is separated from the integer instructions (loads first,
  then calculations, then service calls), with hazard detection and forwarding.

Outside of these the code loses or confuses instructions; see the departures below. The count must not start below 0 unless the program
is an integer one (`AllCounted`), for a call to wait for what is in the units, and must start from 0 for the call not to wait for ever:
until the first reset nothing ensures either. `DestsInFlight`, `CountIsBusy` (as long as no cycle
failed half way) and `ServiceAlone` are of all programs. `ServiceAlone` lets a call be in MEM behind which
another is served: ID looks at what EX last worked on, so a call does not wait for a call right ahead of
it, which has been served in EX and has nothing to do in MEM. A service call behind the calculations of
a separated program may be followed by service calls only: what the program computes next could pass it.

| run | instance | why it is enough |
|---|---|---|
| `pipeline` | branch stage ID: all straight-line programs of 4 instructions out of 10, all programs of 4 out of 9 with branches and calls, programs that ask services 4 and 9 for what they refuse or grant, and a subroutine around any 3, under fixed non-taken and flush; the same under delayed branches with anything in the slot; branch stage MEM: programs of 4 out of 10 (8 under flush); forwarding on and off except under delayed branches | dependences reach at most two instructions back (EX/MEM and MEM/WB), a branch in ID flushes one instruction, so four instructions hold a producer, two between and a consumer, or a branch, its slot and both paths; a branch in MEM has three instructions behind it |
| `pipeline_any` | all programs of 2 out of 10 and seven others, three initial configurations, setters, resets and retries at any time, a build with assertions | every action is reached from every configuration; every operation is in every stage |
| `pipeline_interlock` | all programs of 3 out of 10, and of 3 out of 7 jumps and branches to and fro, under all 12 configurations with the unit on, with retries and resets | three instructions: consumer and the two ahead; jumps between neighbours are where an address is fetched twice |
| `pipeline_run` | countdown loops of 9 instructions, three of them any of 8 or 9, both branch stages for fixed non-taken, ID for flush | the loop is entered and left; each stall has a cause among the variable instructions |
| `memory` | 32 addresses, three regions, words of 2 bytes, requests of 0, 2, 5 and 30 (-2) bytes, `MaxBlocks` = 3 blocks at a time | two blocks in the data region and one elsewhere, or three in it, in each order; the data region is filled and overrun; the proofs cover the rest |
| `session` | 64 addresses, ten files: complete ones that store to data, to the heap, to the stack, to unaligned addresses, read, ask for memory, exit, or run off their end; one too large for the data region; missing, unresolved and garbled ones; up to `MaxCycle` = 8 cycles; started as command line, window or in each batch mode | every program has ended, by its exit or an exception, before cycle 8; every pair of a file and its successor is loaded |
| `multicycle` | all programs of 3 out of 22 instructions, and countdown loops around any two of them, and refused services; stalls of 2 cycles; a reset at any microinstruction | every instruction is in every place, so each row of the microcode is reached with the datapath left by each other instruction; loops re-execute instructions with the datapath of an earlier round |
| `flex` | the configuration and the units `CpuFlex` is constructed with, and after a run's end any configuration that one change at a time leads to; after three loads any two of six calculations, singles and doubles with each dependence between them, and one of three that depend on both; loops around any two of six integer instructions; service calls in a row; an answer that is stored, and a subroutine that copies a word through the coprocessor's registers; two answers (1 and 10); calls of services 4 and 9 that are refused or not; a count that starts from -1, 0 or 1; seven mixed programs; `MaxUnits` = 7, `MaxCount` = 8, `Fuel` = 64 | three calculations hold two that finish together or out of order and one that waits for both; latencies (2, 4 or 5, 12 or 19) are the code's; the mixed programs reach the ways a cycle can fail, without ending in a result the reference covers; a count above 0 holds every call back, one below 0 lets calls pass instructions |
| `assembler` | files of up to `MaxLines` = 6 lines, loaded one after another: text and data in both orders, as second line any of 42 instructions, items and tags of each format and type, around them branches, jumps, `la`, tags and items; what is left in the scanner is one of four rests | a label is referred to from in front and from behind it, across a `la` and across data; a section is allocated behind each other type |

The instances of the CPUs use words of 4 bits, 4 registers (`$v0` is 2, `$ra` is 3), two data
words and a text that ends in two zero words, as `setup_memory` lays it out. `$a0` is register 1. They
are small in data since control depends on data only through comparisons with
zero, equality and addresses being allocated. `MaxDiagram` is 24 (9, 14 and 80 in
the other runs of the pipeline) and stands for 500: programs of `pipeline` end before or
are cut off by it. `Inputs` are {1, 10}, so that an input may become the exit
service's number. `pipeline` does not explore the step that
overflows the diagram (`DriveSpec`), in which the code loses the fetched instruction; the
runs that include it are `pipeline_any` and `pipeline_interlock`. `MaxDiaCycles` is 10 as in the
code. `assembler` has words of 4 bytes, as the encodings do, and regions of a few words.

Deadlock checking is off where the system really stops: after the exit service
(`ready = FALSE`) or an exception under `RunSpec`, after a failed assertion under
`Spec`, and in `session` and `assembler` once an assertion or an exception nobody catches has
ended the program, or a batch run is over. In `flex` a model stops where an instruction would
need a unit beyond `MaxUnits`.

**Excluded on purpose.** `MCPipelineRefinement` leaves out of the instances of `pipeline`, by
predicates and by the choice of instructions, programs on which the code departs from the sequential
machine. The findings and the departures below say why. Branch stage MEM: no `JumpInSecondSlot` under fixed non-taken
and no `BranchesInARow` under flush (`finding_branch`), and no jumps under flush: programs of
just these kinds violate `BranchesLead`. Everywhere: no `jr` right behind the
instruction that writes its register (`finding_return`), no offsets
that end in 0xc, delayed branches in branch stage ID only, and no instruction behind a delayed `jal` that
reads `$ra`.

`ReplayReproduces` is about runs that began with the memory as loaded, of programs
that neither read input nor ask for memory: a replay reads other input, and blocks
survive a reset, so that the replay gets others.

`ClicksSurvive` and `WindowShowsCycle` are about such programs too (`Repeatable`), and about a window
that has a file loaded. `TargetsAreLabels` is about labels whose names are not read as numbers, and
`WordsDecode` about shift amounts of five bits.

**Fairness.** `RunSpec` of `Pipeline` assumes weak fairness of `Drive`: `run_batch`
(`mips_sim.cpp` 244-256) and `MipsCli::run` (`mipscli.cpp` 274-297) call
`next_cycle` in a loop with no other condition than `is_ready()`. `DriveSpec` of
`MultiCycle` assumes weak fairness of its `NextCycle` for the same reason, and `UserSpec` of
`FlexProperties` weak fairness of `Clock`: that a driver which has not met an exception goes on
counting cycles. A cycle of `CpuFlex` may leave everything but the count as it is, so the count
(`cycle`, modulo 2) tells a cycle that changes nothing, for ever, from no cycle. Nothing is
assumed of resets, setters or retries.

### Findings

Each is a run whose property quotes what the code or its documentation says, and that TLC
violates. The program shows each of them in a build without assertions.
`JumpOperandReady` says that a jump through a register has its operand in ID and `BranchesLead` that what comes behind a branch
or jump in the pipeline is what `PCSRC` says of it. The instance of `finding_branch` also has jumps under flush, which violate it too (below).

| run | what happens |
|---|---|
| `finding_return` | `jr` right behind the instruction that computes or loads its register jumps to the old value |
| `finding_exit` | flush, branch stage MEM: `bne` not taken, then `syscall`, is fetched and flushed until the diagram is full |
| `finding_branch` | fixed non-taken, branch stage MEM: ID's flush of 1 replaces MEM's of 3 in the same cycle, so the instruction behind a taken branch and the jump after it are executed; flush: so is the second of two branches in a row, the first of which is taken |

### Departures

Where the code does something else than its comments, its documentation or its other parts suggest,
and no run is about it. The models keep all of these; properties are stated, or instances chosen, so that
what remains is checked.

Pipelined CPU:

* A build with assertions ends in the first cycle (see the limits above).
* Under flush in MEM, `stage_mem` tests `SIG_BRANCH`, which jumps carry: a jump that
  ID has taken is flushed again in MEM as a branch not taken (555), so no jump
  is ever taken.
* What a change of the settings does to the instructions under way nobody looks at: with the forwarding unit switched off under
  an instruction that was let through because of it the operand is lost, and a branch that was left to MEM is not decided at all
  once branches are decided in ID (837, 849). `SyscallAlone`, `TypeOK` and `SignalsArrive` hold even so; `OperandsReady` and
  `ImplementsIsa` are of a fixed configuration.
* The test that exempts a service call from the hazard check compares `funct`,
  which is set from the low six bits of every format, so a load or store whose
  offset ends in 0xc is not held back for its operands (280).
* With delayed branches forwarding gives the instruction behind `jal` the output of the ALU for
  `$ra` (390).
* With delayed branches decided in MEM, `next_pc` replaces the PC at the end of the cycle (743), whatever
  `stage_if` fetched: how many instructions behind the branch are executed depends on whether
  one of them was stalled in ID.
* `print_diagram` reads the word at every address that was noted (767), also at one whose fetch
  threw, and throws again; `run_batch` calls it outside its `try` (`mips_sim.cpp` 269).
* At cycle 500 the stages have run before `next_cycle` throws (724); a cycle that throws behind
  EX repeats a service call when it is retried (500).

Multicycle CPU: `nop` and service calls that return never end (above); the diagram has 400 rows of 10
entries that are indexed without a check (`cpu_multi.cpp` 124); multiplication and division take 0 cycles
whatever the status says (`cpu.cpp` 18).

`CpuFlex` (found by running its classes beside the model; no part of the program constructs it):

* A result that returns while EX has an integer instruction and ID a floating-point one takes
  the place of the one in EX, which is lost (`cpu_flex.cpp` 125); one that returns while EX is
  empty and ID has an integer instruction has ID overwritten (130).
* Of two finished results the one with the longest delay leaves first, not the first issued, as
  the comment says (`fp_coprocessor.cpp` 121).
* An entry of `forwarding_registers` outlives its instruction; with singles the entry of the next
  register is taken out too, and `at()` may not find what it asks for (126, 155, 232).
* `fp_coprocessor_active_instruction_count` has no value until the first reset (`hardware_manager.h` 65): from one below 0 a service
  call passes instructions in the units, and from any but 0 it may wait for ever. It is not set back when a flush in MEM empties the units, or when
  a unit is added (205): a service call then waits for ever, too.
* An FP instruction in a delay slot finds the branch's `sig_pcsrc`; moves carry `SIG_BRANCH` and are flushed
  again and again in MEM; `mov` is not forwarded to `swc1`; comparisons write integer register `rd`; `$0` is written.
* `instruction_t::cop` is read uninitialised for instructions that are not of type F.
* The instruction right behind a service call that gives an answer reads the register as it was before: it is in
  ID, which runs first, in the cycle in which EX stores the answer, and a call writes no register that
  `detect_hazard` could find (`stage_id.cpp` 274, `stage_ex.cpp` 150).
* With forwarding, `jr` and `jalr` are decided in ID on what the register holds although its new value is still in EX or MEM: `can_forward` is
  denied to `beq`, `bne` and `bc1` only (`stage_id.cpp` 299).
* In a cycle under `fp_stall` EX reports no instruction although it holds one, so a service call may pass
  (`stage_id.cpp` 166).

Memory and sessions: `clear` forgets the block the constructor reserves for the stack (`mem.cpp` 31, 47), and every load
calls it, so a program that pushes a word throws; a block of size 0 holds not even its first address, so the next allocation throws
(`mem.cpp` 121); a word is checked by its first byte (385); blocks a program asked for outlive the reset before a replay, which then gets
others (`cpu.cpp` 191).

Window: after a load that fails the buttons stay as they were (`mips_sim_gui.cpp` 492), and the next
click ends the program on `reset`'s assertion; the dialog keeps changes that were cancelled; an
exception is answered by a replay outside any `try` (424), so that a program that asks for memory may end the simulator.
Batch: `asm` does not look at what `assemble_file` returns and `runhex` stops at the first word that is not a number.

Assembler:

* The label of a branch or jump is first read as a number: `exit` gives 14, which is ORed into the operand
  (`utils.cpp` 448).
* An instruction that is refused throws through `yyparse`: the next load reads what is left of the file in
  front of its own (`mips_assembler.y` 430).
* `.asciiz ""` and `.space 0` in front of another item make the load throw; behind `.space 5` a `.word`
  is unaligned; a string whose length is a multiple of 4 has no terminator (297).
* A negative number of a `.float` or `.double` is stored as the unsigned one the grammar makes of it, -1 as 4294967295.0 (322); a
  number with a point cannot have a sign.
* `stoi` of a negative word, stored as unsigned, and `jalr` of one register end the program with an exception nobody catches.
* Offsets of branches are cut to 16 bits, shift amounts reach into `rd`, labels defined twice are noticed
  only where they are used, comparisons are displayed with their operands exchanged.

Utils and banks: `read_double` by name uses the position of the name in alphabetical order, so service 3
prints another pair than `$f12` (`registers_bank.cpp` 98).

## 4. Proofs

`PipelineProofs` proves, for every program, word size, register file, set of
allocated addresses, `Inputs` and `MaxDiagram` that satisfy the assumptions of
`Instructions` and `Pipeline`:

* `TypeCorrect`: `Spec => []TypeOK`. The invariant is inductive. The proof has a
  lemma per stage (`WriteBackTypes`, `MemTypes`, `ExTypes`, `IdTypes`,
  `IfTypes`): what the stage leaves has the type of where it goes, given `TypeOK`; the
  step lemmas then only assemble them. The two places where it depends on the code
  being right are the fetch (`prog[pcID]` is in the text because IF throws
  otherwise) and the access in MEM.
* `SyscallRunsAlone`: `Spec => []SyscallAlone`, also with the configuration
  changed at any time. The invariant is inductive by itself: only `Complete` moves the
  segmentation registers, a syscall enters ID/EX only if the cycle found ID/EX
  and EX/MEM empty, and those are what EX/MEM and MEM/WB become.
* `HazardUnitInterlocks`: `FixedSpec => []OperandsReady`. A configuration that
  may change makes it false (forwarding switched off under an instruction that was let
  through because of it), so the theorem is about `FixedSpec`. The argument is that what `Hazard`
  excludes of ID/EX and EX/MEM at decoding is what `HasOperand` requires of
  EX/MEM and MEM/WB one cycle later; it uses `TypeOK` for the two branch stages.
* `ThrowsAgain`: `FixedSpec /\ EndsInZero => ThrowIsFinal`. A cycle throws before it moves a
  segmentation register, so the stage that threw would find the same instruction again; but the PC and
  `next_pc` have moved in part. `ThrowInv` therefore says what is left behind (`Stuck`: one of the stages still
  throws, or the PC is off the text, or the diagram is full) and that between two good cycles no flush
  is pending and no PC waits to be set (`Follows`). `EndsInZero` says that no branch is the last word of the text,
  where `setup_memory` puts a zero: with a branch there, a retried cycle could leave.

* `EverySignalArrives`: `Spec => []SignalsArrive`, of the 17 operations, whatever the instruction is. `Positions` computes where
  the signals are in a word; their bits do not overlap (`MasksApart`) and each value of the matrix has room in its own
  (`Fits`), so what is packed can be taken out again (`Unpacked`). A stage's mask has every bit of the signals it
  passes on, so those the stages behind it test get there (`PassedOn`, `Arrives`). `RowsOf` searches the directory for each
  operation, `Row0` to `Row13` name the values of the rows, and `RowsAgree` compares them with the predicates of
  `Pipeline`. The row of the coprocessor's operations does not agree (it writes a register in WB): the invariant
  `NoFp` says that they never get there, because `stage_id` throws.

`RefinementProofs` proves, for the same constants, that the pipeline implements the
sequential machine:

* `PipelineCorrect`: `DriveSpec /\ Covered /\ []Bypassed /\ []ShadowQuiet =>
  ImplementsIsa`. `Covered` says which configurations and programs: the hazard detection
  unit is on, assertions are off, delayed branches are decided in ID, no constant's low
  six bits are 0xc. All three branch types are covered in ID, fixed non-taken and flush in MEM, each with
  and without forwarding, for programs of any length. The two other hypotheses name, state by
  state, the departures of section 3: `Bypassed` that a jump through a
  register is resolved after its register is written, and that nobody in the delay slot
  of a `jal` reads `$ra` through forwarding; `ShadowQuiet` that when MEM flushes for a
  branch it was left, ID does not replace its flush by one of its own, the flush is not for a jump, which
  has been resolved in ID, and the target is not 0, which `next_pc` takes for none.
  TLC finds all of these, and the invariant below, on every instance of the run `pipeline`.
* `InterlocksSuffice`: `DriveSpec /\ Covered /\ ~status.fu /\ status.stage = "ID" =>
  ImplementsIsa`. Without forwarding the hazard detection unit holds back the jumps that `Bypassed` excludes, and
  with branches in ID MEM never flushes, so nothing is assumed of the run.

The inductive invariant `RefinementInv` adds `InFlight` to the three of `PipelineProofs`: the PC follows
the instruction in ID (`Fetched`); the one in EX holds what the registers held when
it was decoded, and what is behind it was fetched from where it leads (`Decoded`); what EX left for MEM is what
the instruction computes from the registers its predecessors leave (`Executed`). Without it nothing relates the instruction
that retires to the sequential machine's current one, nor its result to its operands' values at that moment:
those may have been forwarded, or written after they were read. `Leads` is where the pipeline fetches behind a branch: with the
branch left to MEM it goes straight on, and everything behind a taken one is consistent with
that guess until it is flushed. The proof goes along the stages: the front (`StallFront`,
`ZeroFront`, `DecodeFront`: what a cycle does to the order of instructions), operands
(`IntegerOperand`, `FpOperand`: forwarding gives what `OperandsReady` promises), retirement (`RetireRefines`: one lemma
per kind of instruction, each a step of `Isa`), and the ends of a cycle (`FaultRefines`, `ThrownRefines`, `CompleteRefines`,
`FlushRefines`). `FlushRefines` also covers the cycle of `finding_exit`, in which a
branch is fetched again behind itself: it is a stuttering step, safe but not live.

`DiagramProofs` proves of the diagram, for the same constants and every `MaxDiaCycles` of
at least 10 (`WindowAssumption`):

* `RowsFollowInstructions`: `DiagramSpec => []RowsNameInstructions`. The inductive invariant `RowsInv`
  adds that the notes are a non-empty sequence of words, that rows are naturals and that each row but 0
  is the number of a note whose address lies in the text; a note is never changed,
  so what an instruction was fetched from does not change under it (`NamesAfterCycle`, `NamesAfterThrow`).
* `RowsKeepOrder`: `DiagramSpec => []RowsInOrder`. That two neighbours have different rows rests on
  `stage_if` taking a new one exactly when the PC is not the address noted last. The inductive
  invariant `OrderInv` therefore says that while the last note is of an instruction in the pipeline the PC is
  not that address any more, and that a PC still to be set (`nextPc`) belongs to a branch taken in MEM,
  which flushes what was fetched behind it. `FetchedFromPc` and `NextAddress` give the PC after a cycle,
  `Noted` and `NotAppended` what it notes.
* `RowsStayWhole`: `DiagramSpec /\ EndsInZero => []RowsAreWhole`. `WholeInv` relates the
  last column to the segmentation registers (`Staged`: an instruction's cell is the stage it was in) and columns to
  one another (`Contiguous`, `Stepwise`). A cycle that threw records nothing but counts, so the next
  to complete would leave a gap: it takes `ThrowInv` that none completes, hence `EndsInZero`.
* `WindowIsWideEnough`: `DiagramSpec /\ EndsInZero => []WindowHolds`. `WindowHolds` says nothing of why an instruction
  leaves; `AgeInv` bounds how long each has been there by the stage it is in and by what is ahead of it
  (`Waits`): ID waits only for instructions in EX and MEM, which do not wait (`StallWaits`), so an
  instruction is in IF and ID for six cycles at most. `Refetched` is the same for the last address
  noted, which is fetched again while ID waits, and behind a branch while nobody is in ID.

`MemoryProofs` proves, for every number of addresses, layout of regions that
satisfies `RegionAssumption` and `GapAssumption`, `Content`, `Requests` and `MaxBlocks`:

* `MemoryTypeCorrect`: `Spec => []MemoryTypeOK`.
* `BlocksStayApart`: `Spec => []BlocksDisjoint`. It is not inductive: a new block's
  start is compared with the blocks there are, but a block allocated *in front of*
  another would not be noticed when it runs into it. The inductive invariant
  `MemoryInv` says why there is none in front: of two blocks in a region the one
  allocated first ends before the other starts (`BlocksOrdered`), each ends inside
  its region (`BlocksEnd`), those outside the data region are at the region's first
  address (`BlocksAtStart`), and the search for free space finds a last end
  (`SearchEnds`, which gives `Max` its value).
* `BlocksStayInRegion`: `Spec => []BlocksInRegion`, from `BlocksEnd`: the sum that is
  compared with the end of the region is the same, wrapped, sum that later decides
  which addresses the block holds.

`GapAssumption` says that no region follows the data region directly: a block of
size 0 at the end of the data region starts behind it.

`SessionProofs` proves, for every set of files, `Source`, `Inputs`, `MaxCycle` and memory as above:

* `SessionTypeCorrect`: `Spec => []SessionTypeOK`, and `SnapshotsOfProgram`: `Spec =>
  []SnapshotsAreOfProgram`. The invariant `Kept`, with `Fetchable(m)`, describes the memory
  between two handlers (`Memories`): what the text holds is a program or nothing, snapshots are of
  the text that is there, and all its words can be fetched. Cycles (`CycleKeeps`), replays
  (`ReplayKeeps`), resets and the loads that succeed or fail half way (`LoadKeeps`) keep it.
* `ReplayCorrect`: `Spec => []ReplayReproduces`. A replay comes to at most one state (`TurnOfOne`,
  `ReplayOfOne`) since the program is `Alike` in every run. `Replays`, the inductive
  invariant, says that the state of the session is the one its replay comes to. The
  step from a cycle to the next is the difficult one (`NextIsReplayed`): the replay of one cycle more is the replay
  so far and a turn (`OneMoreTurn`), unless the program has exited or a cycle has thrown, where the
  unconditional last cycle of `run_to_cycle` makes up for the turns that are left out
  (`ComesTo`, `PlaysTo`, `ThrowsAgain`).

What `Turns` and `Sections` compute is by recursion over a number. The induction theorems of the
library cannot be used (below); the module proves induction anew, of sets instead of formulas (`LeastElement`, `Induction`, from the
well-foundedness of the naturals), and from it that both recursive functions exist
(`TurnsExist`, `SectionsExist`).

It proves the same of the program as it is started, and of the window:

* `InterfaceTypeCorrect`, `ReplayInEveryMode` and `SnapshotsInEveryMode`: `InterfaceTypeOK`,
  `ReplayReproduces` and `SnapshotsAreOfProgram` of `InterfaceSpec`. The last one is stated for the modes other than
  `runhex`: the words of a hexadecimal file may fill the text to its last address, where the two
  words behind the program, which only `setup_memory` provides, have no room.
* `WindowCorrect`, `ClicksCorrect` and `ConfigurationCorrect`: `WindowShowsCycle`,
  `ClicksSurvive` and `OneConfiguration`. `WindowKept` is the part of the invariant
  about the window with a file loaded: there are snapshots, the buttons are those of the CPU that is shown,
  `ranUnder` has no configuration but the current one, and the CPU is where a replay comes to. What makes
  `HandleException` safe is `ReplayHandles` and `CycleHandles`: the replay to the cycle in front of the one that
  threw does not throw, since the same cycles have been run before.

The assumptions: `SessionAssumption` types the constants; `TextAssumption` says that no program is so long that
the end of its text wraps around 2^32, for which no file is long enough; `ContentIsWord` numbers the files
and the values stored, so that a program may store a count.

`FlexProofs` proves of `CpuFlex` and its coprocessor, for every program, any number of units of each
type, any latencies, every bound `MaxCount` and every choice of `Garbage`, `CopGarbage` and `CountGarbage`:

* `FlexTypeCorrect`: `Spec => []FlexTypeOK`. The invariant `FlexInv` adds what a unit and the tables
  hold (`Valid`: operations of the coprocessor with registers that are there), that all instructions under way are
  such, and that the count of active instructions is never below where it started and the number of busy units
  together (`CountCovers`), so that it does not fall below its start when a result leaves, whatever has failed, been flushed
  or found no free unit before. A lemma per operation of the coprocessor says what it keeps; `WorkedIs`
  sums up a call of `work()` as `Departs` (at most one instruction leaves, with its destination) and
  `SentIs` what ID sends as `Joins`, and the theorems below use only these two.
* `DestinationsCorrect`: `Spec => []DestsInFlight`, inductive over `FlexInv`. What leaves takes the
  first entry of its register out, which need not be its own: that is harmless because
  entries are compared by register only (`RemovedPositions`, `AppendedPositions`).
* `CountCorrect`: `UserSpec => []CountIsBusy`: the count is `countStart` and the number of busy units, so that it is their number
  after a reset, and on the CPU as it is constructed only if the memory it got held a 0. Under hazard detection ID sends only to a unit that is free,
  and with branches decided in ID nothing is flushed out of the units, so each of the three ways in
  which the count and the units part is excluded. A cycle that fails half way breaks it until
  the reset, hence `UserSpec`.
* `ServicesFindUnitsIdle`: `Spec => [](countStart >= 0 /\ ex.i.op = "syscall" => Busy(fpu) = {})`, of every program
  and configuration, also behind an exception: a call enters EX with the count 0 and nothing enters a unit
  while it is there.
* `ServicesWaitAlone`: `UserSpec => []ServiceAlone`, with `AllCounted`. That nothing but a call is in MEM depends on
  which half of a stage last ran, and on `fp_stall` not being set while a call is in ID. The
  latter is why the theorem needs to know the program: `IntegerInv` says that an integer program never
  sets it, `OrderedInv` that in a separated one the stages hold loads while the PC is in the first part and nothing
  but calculations and calls behind it (`Progress`), so that EX is empty while a unit is busy.
  `Released`, `Follows` and `Served` then carry a call from ID to MEM.
* `IntegerProgramsAreSequential`: `UserSpec => []IntegerResultsAreSequential`, for every word size, data region, `Fuel`
  and set of answers, after any resets. The property speaks of the end of a run only, so that the
  invariant has to say what is true on the way: the reference is executed along with the CPU. `Held` is its state,
  told from the CPU's: the registers with the write-backs of WB and MEM applied, the memory MEM leaves, and the address of the instruction in
  EX, or of the one behind if EX holds a bubble. `Aligned` says that

  + the instructions in ID and EX are those of the text at the addresses kept with them, and the PC follows (`InOrder`);
  + EX holds the operands the instruction reads in `Held` (`Operands`);
  + where that instruction leads is where ID, or the PC, is (`Leads`);
  + `Held` is one of the states of `Run`, at some number of instructions (`Reached`).

  A cycle in which EX holds a bubble leaves `Held` as it is, one with an instruction moves it as `After` does
  (`HeldMoves`, `Executes`), through the answer of a service too. `ReadInID` is what the
  interlocks are for: an instruction that leaves ID has read, or is forwarded, what is in `Held` afterwards (`NoHazard`: of a
  register that is still to be written, ID waits for it or forwarding has it). `RunGoesOn` extends the execution by one instruction, for
  which the bound `Fuel` must not be reached (`EndedStays`: an ended execution stays where it is), and `ExitLeaves` compares the registers
  once the call of the exit service has left them. That `Run` computes what its equation says is `RunIs`.

  An earlier version of the property was stated for all integer programs, with a reference that knew neither `lui` nor the answers of
  services, and held on the programs of the run. The proof failed in `ReadInID`, for the instruction behind a call and for
  `jr` with forwarding: the code goes wrong there (the departures at `stage_id.cpp` 274 and 299), so both are now conditions
  of the property, and the run has programs with an answer and with `jr`.

The first version of `ServiceAlone` asked for MEM to be empty and was true on the programs of the run; the
proof failed for two service calls in a row, which a run confirmed. The run now has such programs.

`AssemblerProofs` proves, for every set of lines a file may be made of, every layout of the regions and every
number of lines that satisfy the assumptions below:

* `AssemblerTypeCorrect`: `Spec => []AssemblerTypeOK`. `AssemblerInv` has three parts. `ScannerInv` bounds how
  many lines a call can parse: its own and those an earlier one left in the scanner, so
  that the counter of lines does not wrap when tags take it back. `TablesInv` types the tables, and says that a line's number is its place.
  `BlocksInv` is the memory's part. That a word keeps to its 26 bits needs a theory of `|`, which comes first:
  the recursive function exists (`OrRows`), gives one bit and the rest (`OrIs`), and treats the lower `n` values of two numbers
  apart from what is above, for every power of two (`Fieldwise`, `Wider`, `Powers`). `EncodeRange` then puts fields
  together, and a lemma per format says what its fields are (`RFieldsType`, ...).
* `DataIsAllocatedWhereItIsWritten`: `Spec => []AllocatesWhereItWrites`. `BlocksInv` says that `next_address`
  is the last end of a block of data while `setup_memory` works; it is kept because what `Behind` adds for each type of item is what
  `Length` counted and `allocate_space` rounded up (`SetupSectionInv`).
* `BranchesGoToLabels`: `Spec => []TargetsAreLabels`. `TargetsInv` gives every line a place in the text
  (`PlaceIn`), every tag an entry of the label table with that place, and every branch or jump an entry of the instructions with
  its own. Until the loop over the instructions comes to it its operand is empty (`StillOpen`), and after that it is the distance or
  the address (`IsClosed`): ORing it in gives it back only because the bits it goes to are still zero
  (`OredBehind`), which `Digits` of the name decides. Two branches have two places (`PlaceBehind`, `PlacesStay`), so the
  loop closes one at a time.

  The first attempt failed for branches whose distance does not fit 16 bits: the code cuts it off. The property
  now names them as not covered, as it does names with digits.
* `WordsAreDisplayedAsWritten`: `Spec => []WordsDecode`. What the fields of a word are is told by arithmetic
  (`FivePacked`, `TwoPacked`: ORing fields that are apart is adding them), and `FiveFields` and `TwoFields` take them out again
  with `\div` and `%`. The code of a name is read back as that name because no other name of its format has it (`UniqueR`, `UniqueI`, ...)
  and no other format has its opcode (`Opcodes`). A lemma per format (`ShownR`, `ShownI`, ...) puts this together for
  the word a line is assembled to. `LinesInv` carries it to the memory: a word is what was assembled, or has
  since been given the place of its label, which changes nothing above the 16 or 26 bits of the operand (`SameAs`).
* `LoadedAddressesReachTheirData`: `Spec => []AddressesReachData`. `LinesInv` says that of the two words of a `la` the first has the upper
  and the second the lower half of the address of the tag (`WholeAddress` puts them together, for which an address must
  not be wider than two immediates); `LaidOut` that the items are in the sections in the order of the lines, each
  where the one before it ends, and each tag has the address of the item behind it; and `ContentInv` that what has
  been written is still there, which needs that everything is written behind what was written before, and that
  the bytes of an item are those `Image` says (`ItemBytes`).

`MultiCycleProofs` proves, for every program, word size, register file, set of
allocated addresses, `Inputs` and `FpDelay`:

* `MultiTypeCorrect`: `Spec => []MultiTypeOK`, inductive. The part that depends on the
  code is that the control directory names rows that exist.
* `MicrocodeCorrect`: `Spec => MicrocodeImplementsIsa`, the refinement. The inductive
  invariant `MicrocodeInv` says what the datapath holds before each row: the instruction
  in progress is the one in front of the PC and A, B, FA, FB are its operands (`Fetched`), the
  row belongs to the instruction (`RightRow`), and ALU_OUT and MDR are what the rows before
  are there for (`Computed`). Without it nothing relates a write-back row to the
  instruction whose result it writes. `SignalTable` first turns the matrix into a table by
  columns, row by row (`Signals`); a lemma per last row (`ComputeRow`, `LoadRow`, ...) then shows
  the instruction's step, `Preparing` that the rows before are stuttering
  steps. `LastRow` uses `EncodingAssumption` (the destination field of `nop` and `syscall`
  reads as `$0`) to show that these two never get past row 7.

The assumptions on constants are named in `Instructions` (word size positive,
`$ra` and `$v0` registers other than 0, text inside the words and not at address
0, data and text apart, service results in registers other than 0) and in
`Pipeline` (programs and configurations of the right type), `MultiCycle` (those,
and the encoding of `nop` and `syscall`), `Fpu` (every operation takes at least a cycle and every type
has a unit) and `Flex` (programs name registers that exist: `read_register` and `read_fp_register` assert it,
`stage_id.cpp` 76-85; of the operands of the coprocessor the upper half too, which ID reads for singles as well), `FlexProperties`
(`Fuel` is a natural number), and
`Assembler` (`LineAssumption`: lines are what the grammar lets pass, and an item is not so long that its end
wraps around 2^32; `RestAssumption`: what a refused file leaves is lines, no more than a file has; `DigitsAssumption`: a name
that is read as a number is one hexadecimal digit, since a name has a letter in front of the `x`; `TextAssumption`: no file has so many
lines that its text would wrap, the text starts at a whole word and its region is within reach of a jump; `WidthAssumption`: an
address is no wider than two immediates; `ZeroAssumption`: memory that was not written holds no byte of an item). TLC evaluates them
in every run.

Only model-checked: `FloatResultsAreSequential`. With several results under way, which leave the
units in another order than they were issued, the reference cannot be executed instruction by instruction along with the CPU; the
invariant would have to say which of them have taken effect, and that what `forwarding_registers` gives is theirs though an entry may outlive its
instruction. `RunsToExit` and `InstructionsEnd` stay with TLC: so is liveness under fairness.

## 5. Plan

Most important first; each module is written to be proved about (constants with
named assumptions, one action per operation, recursive functions rather than
`RECURSIVE` operators).

Done, in the order in which they were written: `Isa`, `Pipeline` and their proofs; `MemoryOps`,
`Memory` and their proofs; `Session`; `MultiCycle` and its proofs; `Fpu` and `Flex`;
`Encoding` and `Assembler`; `Microcode`; `Interfaces`; `Diagram` and its proofs; delay slots in `Isa`; the proofs about
`Session` and `Interfaces`; the refinement proof of the pipeline; the proofs about exceptions and the window of the diagram;
the proofs about `Flex`; those about `Assembler`; the proof that signals arrive; the sequential reference of integer programs in `Flex`.

To add:

1. A proof of `FloatResultsAreSequential`: the reference executed at issue, and what each unit will leave told from it.
2. Division and its undefined cases; the FP services; doubles as register pairs in `MultiCycle`.

## 6. Not modelled, and why

* The generated parser and scanner and the vendored `cli/` library: not this project's code. The patterns
  of the scanner decide what a line is; `Assembler` begins behind that.
* Qt's widgets and tables, printing, formatting, conversions of floats and doubles to text and back:
  display. Which cells of the diagram are shown, and which buttons can be clicked, is modelled.
* Options of the command line, reading files, the console the services print to.
* The operations of the ALU that differ from a modelled one in the number they compute only, division,
  bytes and half words in the CPUs, and the services on floats and strings.
* `execute_syscall_callback` of `cpu_flex/`, which nothing calls; `unlock` and `set_memory_values` of `Memory`,
  likewise.
