------------------------------ MODULE MCSession ------------------------------
(* Three regions of an address space of 64 bytes, words of two bytes, and   *)
(* files of each kind: complete ones whose programs store to their data, to *)
(* the heap, to the stack and beside a word, read, ask for memory, exit or  *)
(* run off their end, one that is too large, and ones that fail to load.    *)
EXTENDS Interfaces, TLC

MCRegion == {"text", "data", "stack"}
MCStart == "text" :> 2 @@ "data" :> 20 @@ "stack" :> 40
MCSize == "text" :> 16 @@ "data" :> 8 @@ "stack" :> 4

E(op, arg) == [op |-> op, arg |-> arg]
Idle == E("idle", 0)
Store(a) == E("store", a)
Exit == E("exit", 0)

Complete(sections, code) ==
  [state |-> "complete", sections |-> sections, data |-> 1, code |-> code]
Failing(state) == [Complete(<< >>, << >>) EXCEPT !.state = state]

MCSource ==
  << Complete(<<2, 2>>, <<Store(20), Idle, Store(22), Exit>>),
     Complete(<<4>>, <<Store(22), Store(24), Exit>>),
     Complete(<<2>>, <<Store(20), E("sbrk", 2), Store(22), E("read", 0), Store(20), Exit>>),
     Complete(<< >>, <<Idle>>),
     Complete(<<2>>, <<Store(20), Store(21)>>),
     Complete(<<2>>, <<Store(20), Store(42), Exit>>),
     Complete(<<6, 4>>, <<Store(20), Exit>>),
     Failing("missing"),
     Failing("unresolved"),
     Failing("garbled") >>
==============================================================================
