------------------------------ MODULE Interfaces ------------------------------
(***************************************************************************)
(* The program as it is started (mips_sim.cpp): with the command line      *)
(* interface of Session, with the window of interface/qt/mips_sim_gui.cpp, *)
(* or in batch, to run a source file, to run words in hexadecimal, or to   *)
(* assemble.                                                               *)
(*                                                                         *)
(* A handler of the window is one action, since the loop of events waits   *)
(* for it; a button can be clicked when set_cpu_labels last enabled it.    *)
(***************************************************************************)
EXTENDS Session

VARIABLES
  mode,      \* run_mode, or "done" when a batch run has come to its end
  enabled,   \* the buttons of the window: Prev, Next and Run, Reset and Settings
  status,    \* the configuration of the CPU of the window
  dialog,    \* the configuration the settings dialog shows
  ranUnder   \* the configurations of the cycles since the last reset

window == <<enabled, status, dialog, ranUnder>>
interfaceVars == <<vars, mode, window>>

Setting == {"default", "other"}

Batch == {"run", "runhex", "asm"}

Disabled == [prev |-> FALSE, next |-> FALSE, reset |-> FALSE]

(* The window builds its CPU and its dialog when it is opened.              *)
InterfaceInit ==
  /\ m = New /\ fileLoaded = FALSE /\ alive = TRUE /\ restored = TRUE
  /\ mode \in {"cli", "gui"} \cup Batch
  /\ cpu = IF mode = "gui" THEN Fresh ELSE NoCpu
  /\ enabled = Disabled
  /\ status = "default" /\ dialog = "default" /\ ranUnder = {}

Now == [m |-> m, c |-> cpu, threw |-> FALSE]

-----------------------------------------------------------------------------
(* The window.                                                              *)

(* set_cpu_labels.                                                          *)
Labels(loaded, c) ==
  [prev |-> loaded /\ c.cycle > 0, next |-> loaded /\ c.ready, reset |-> loaded]

Click(button) == mode = "gui" /\ alive /\ enabled[button]

(* The window shows s, which the CPU has come to under these settings.      *)
Show(s, under) == /\ Become(s)
                  /\ enabled' = Labels(fileLoaded, s.c)
                  /\ ranUnder' = under
                  /\ UNCHANGED <<fileLoaded, alive, restored, mode>>

GuiEnds == Abort /\ UNCHANGED <<mode, enabled, ranUnder>>

(* Error variant of Before: the cycle that threw is played again.            *)
BeforeNothing(s) == s.c.cycle

(* The cycle before the one that threw.                                     *)
Before(s) == s.c.cycle - 1

(* What an exception thrown in a handler leads to.  Nobody catches one that *)
(* handle_exception itself meets.                                           *)
HandleException(s) ==
  \/ ~HasSnapshots(s.m) /\ GuiEnds
  \/ /\ HasSnapshots(s.m)
     /\ \E t \in RunToCycle(s.m, Before(s)) :
          \/ t.threw /\ GuiEnds
          \/ ~t.threw /\ Show(t, {status})

(* Error variant of Handled: the window shows the cycle that threw.          *)
HandledShown(s, under) == Show(s, under)

Handled(s, under) == \/ s.threw /\ HandleException(s)
                     \/ ~s.threw /\ Show(s, under)

NextClicked == /\ Click("next")
               /\ \E s \in Cycle(Now) : Handled(s, ranUnder \cup {status})
               /\ UNCHANGED <<status, dialog>>

(* Cycles until the program has exited or one throws, as it does in the end *)
(* behind the last instruction.                                             *)
RunOn(s) == Turns(s, Len(Code(s.m)) + 3)

RunClicked == /\ Click("next")
              /\ \E s \in RunOn(Now) : Handled(s, ranUnder \cup {status})
              /\ UNCHANGED <<status, dialog>>

PrevClicked ==
  /\ Click("prev")
  /\ \/ ~HasSnapshots(m) /\ GuiEnds
     \/ HasSnapshots(m) /\ \E s \in RunToCycle(m, cpu.cycle - 1) : Handled(s, {status})
  /\ UNCHANGED <<status, dialog>>

ResetShown == \/ ~HasSnapshots(m) /\ GuiEnds
              \/ HasSnapshots(m) /\ Show(Reset(m), {})

ResetClicked == Click("reset") /\ ResetShown /\ UNCHANGED <<status, dialog>>

SetStatus(new) == status' = new /\ dialog' = new

(* set_cpu_status: a configuration that is accepted is set and the CPU is   *)
(* reset.  Error variant: the program goes on.                              *)
SettingsAcceptedGoingOn(new) ==
  Click("reset") /\ SetStatus(new) /\ Show(Now, ranUnder)

SettingsAccepted(new) == Click("reset") /\ SetStatus(new) /\ ResetShown

(* The dialog keeps what was changed in it and not accepted.                *)
SettingsCancelled(new) ==
  /\ Click("reset") /\ dialog' = new
  /\ UNCHANGED <<vars, mode, enabled, status, ranUnder>>

(* load_file of the window, which does not take a file that does not parse  *)
(* for loaded.                                                              *)
WindowLoads(f) ==
  LET r == LoadFile(f)
  IN  [r EXCEPT !.loaded = r.loaded /\ Source[f].state # "garbled"]

(* After a file that does not load the window stays as it is.               *)
LoadTriggered(f) ==
  LET r == WindowLoads(f)
  IN  /\ mode = "gui" /\ alive
      /\ fileLoaded' = r.loaded
      /\ IF r.loaded
         THEN /\ Become(Reset(r.m)) /\ restored' = TRUE
              /\ enabled' = Labels(TRUE, Fresh) /\ ranUnder' = {}
         ELSE m' = r.m /\ UNCHANGED <<cpu, enabled, restored, ranUnder>>
      /\ UNCHANGED <<alive, mode, status, dialog>>

Window == \/ NextClicked \/ RunClicked \/ PrevClicked \/ ResetClicked
          \/ \E new \in Setting : SettingsAccepted(new) \/ SettingsCancelled(new)
          \/ \E f \in File : LoadTriggered(f)

-----------------------------------------------------------------------------
(* Batch runs.                                                              *)
BatchEnds(mem) == /\ m' = mem /\ mode' = "done"
                  /\ UNCHANGED <<cpu, fileLoaded, alive, restored, window>>

(* The snapshots are taken and a CPU is built.                              *)
BatchStarts(mem) ==
  /\ m' = Snap(Snap(mem, "text"), "data")
  /\ cpu' = Fresh /\ fileLoaded' = TRUE /\ restored' = TRUE
  /\ UNCHANGED <<alive, mode, window>>

Assembled(f) == IF Source[f].state = "complete" THEN SetupMemory(Cleared(m), f)
                ELSE [m |-> Cleared(m), threw |-> TRUE]

RunFile(f) ==
  /\ mode = "run" /\ cpu = NoCpu
  /\ \/ Assembled(f).threw /\ BatchEnds(Assembled(f).m)
     \/ ~Assembled(f).threw /\ BatchStarts(Assembled(f).m)

(* load_program writes the words into a memory that nothing has locked, so  *)
(* that the program may access every region.                                *)
HexWords(f) == IF Source[f].state = "complete" THEN Source[f].code ELSE << >>

RunHexFile(f) ==
  /\ mode = "runhex" /\ cpu = NoCpu
  /\ IF /\ HexWords(f) # << >>
        /\ \A k \in DOMAIN HexWords(f) : Accessible(m, FetchAddr(k - 1))
     THEN BatchStarts(Write(m, "text", f))
     ELSE BatchEnds(m)

(* Whether the file parses is not asked.                                    *)
AssembleFile(f) == mode = "asm" /\ BatchEnds(Assembled(f).m)

BatchCycle ==
  /\ mode \in Batch /\ cpu # NoCpu
  /\ \E s \in Cycle(Now) :
       /\ Become(s)
       /\ mode' = IF s.threw \/ ~s.c.ready THEN "done" ELSE mode
  /\ UNCHANGED <<fileLoaded, alive, restored, window>>

RunBatch == \/ \E f \in File : RunFile(f) \/ RunHexFile(f) \/ AssembleFile(f)
            \/ BatchCycle

-----------------------------------------------------------------------------
CommandLine == mode = "cli" /\ Next /\ UNCHANGED <<mode, window>>

InterfaceNext == CommandLine \/ Window \/ RunBatch

InterfaceSpec == InterfaceInit /\ [][InterfaceNext]_interfaceVars

-----------------------------------------------------------------------------
(* The variables of Session keep their types, the buttons are on or off.    *)
InterfaceTypeOK ==
  /\ SessionTypeOK
  /\ mode \in {"cli", "gui", "done"} \cup Batch
  /\ enabled \in [{"prev", "next", "reset"} -> BOOLEAN]
  /\ {status, dialog} \cup ranUnder \subseteq Setting

(* With a file loaded the window never shows a cycle that threw: what it    *)
(* shows is what the program comes to from the start in as many cycles, and *)
(* the buttons offer what can be done then, whatever mixture of clicks,     *)
(* exceptions and loads has led there.                                      *)
WindowShowsCycle ==
  mode = "gui" /\ fileLoaded /\ Repeatable =>
    /\ enabled = Labels(TRUE, cpu)
    /\ \A s \in RunToCycle(m, cpu.cycle) : ~s.threw /\ Visible(s) = Visible(Now)

(* No click ends the program while a file is loaded: the assertions of      *)
(* reset hold, and the replay with which an exception is handled throws     *)
(* none of its own, unless the program asks for memory or reads.            *)
ClicksSurvive == mode = "gui" /\ fileLoaded /\ Repeatable => alive

(* What the window shows was run from the start under the configuration the *)
(* CPU now has, whatever was changed, accepted or cancelled in the dialog   *)
(* in between, and whatever was replayed.                                   *)
OneConfiguration == mode = "gui" /\ fileLoaded => ranUnder \subseteq {status}
===============================================================================
