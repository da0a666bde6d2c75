----------------------------- MODULE SessionProofs -----------------------------
(***************************************************************************)
(* Proofs about sessions, of the command line and of the window, for every *)
(* set of files, layout of the memory, set of inputs and number of cycles: *)
(* what the snapshots are of, that a replay comes to the state it started  *)
(* in, and that what the window shows is a cycle of the program, run under *)
(* one configuration, with no click that ends it while a file is loaded.   *)
(***************************************************************************)
EXTENDS Interfaces, WellFoundedInduction, TLAPS

-----------------------------------------------------------------------------
(* Induction over the natural numbers, told with sets.                      *)
LEMMA LeastElement ==
  ASSUME NEW T, T \subseteq Nat, T # {}
  PROVE  \E x \in T : \A y \in T : x <= y
<1>1. PICK x \in T : \A y \in T : ~(<<y, x>> \in OpToRel(<, Nat))
  BY WFMin, NatLessThanWellFounded, Zenon
<1>2. \A y \in T : ~(y < x)
  BY <1>1, Zenon DEF OpToRel
<1> QED BY <1>2

LEMMA Induction ==
  ASSUME NEW S, 0 \in S, \A n \in Nat : n \in S => n + 1 \in S
  PROVE  Nat \subseteq S
<1> SUFFICES ASSUME Nat \ S # {} PROVE FALSE
  OBVIOUS
<1>1. PICK x \in Nat \ S : \A y \in Nat \ S : x <= y
  BY LeastElement
<1>2. x - 1 \in Nat /\ x - 1 \in S
  BY <1>1
<1> QED BY <1>1, <1>2

(* A set of addresses that is not empty has a largest one.                  *)
LEMMA LargestAddress ==
  ASSUME NEW T, T \subseteq Addr, T # {}
  PROVE  Max(T) \in T
<1>1. AddrSize \in Nat
  BY AddrAssumption DEF AddrAssumption
<1> DEFINE D == { AddrSize - x : x \in T }
<1>2. D \subseteq Nat /\ D # {}
  <2>1. ASSUME NEW x \in T PROVE AddrSize - x \in Nat
    <3>1. x \in 0 .. AddrSize - 1
      BY DEF Addr
    <3> QED BY <3>1, <1>1
  <2> QED BY <2>1
<1>3. PICK d \in D : \A e \in D : d <= e
  BY <1>2, LeastElement
<1>4. PICK x \in T : d = AddrSize - x
  BY <1>3
<1>5. \A y \in T : x >= y
  <2> SUFFICES ASSUME NEW y \in T PROVE x >= y
    OBVIOUS
  <2>1. AddrSize - y \in D
    OBVIOUS
  <2>2. d <= AddrSize - y
    BY <2>1, <1>3
  <2>3. x \in Int /\ y \in Int
    BY <1>1 DEF Addr
  <2> QED BY <2>2, <2>3, <1>4, <1>1
<1> QED BY <1>5 DEF Max

(* What Turns computes: the function it is defined with exists.             *)
TurnsUpTo(from, count, g) ==
  g = [n \in 0 .. count |->
         IF n = 0 THEN {from} ELSE UNION { Turn(s) : s \in g[n - 1] }]

LEMMA TurnsExist ==
  ASSUME NEW from, NEW count \in Nat
  PROVE  \E g : TurnsUpTo(from, count, g)
<1> DEFINE S == { k \in Nat : \E g : TurnsUpTo(from, k, g) }
<1>1. 0 \in S
  <2>1. TurnsUpTo(from, 0, [n \in 0 .. 0 |-> {from}])
    BY DEF TurnsUpTo
  <2> QED BY <2>1
<1>2. ASSUME NEW k \in Nat, k \in S PROVE k + 1 \in S
  <2>1. PICK g : TurnsUpTo(from, k, g)
    BY <1>2
  <2> DEFINE h == [n \in 0 .. k + 1 |-> IF n = k + 1 THEN UNION { Turn(s) : s \in g[k] }
                                                     ELSE g[n]]
  <2>2. ASSUME NEW n \in 0 .. k + 1
        PROVE  h[n] = IF n = 0 THEN {from} ELSE UNION { Turn(s) : s \in h[n - 1] }
    <3>1. CASE n = k + 1
      <4>1. h[n] = UNION { Turn(s) : s \in g[k] } /\ h[k] = g[k] /\ n - 1 = k /\ n # 0
        BY <3>1
      <4> HIDE DEF h
      <4> QED BY <4>1
    <3>2. CASE n # k + 1
      <4>1. n \in 0 .. k
        BY <3>2
      <4>2. g[n] = IF n = 0 THEN {from} ELSE UNION { Turn(s) : s \in g[n - 1] }
        BY <2>1, <4>1 DEF TurnsUpTo
      <4>3. h[n] = g[n] /\ (n # 0 => h[n - 1] = g[n - 1])
        BY <4>1
      <4> HIDE DEF h
      <4> QED BY <4>2, <4>3
    <3> QED BY <3>1, <3>2
  <2>3. h = [n \in 0 .. k + 1 |-> h[n]]
    OBVIOUS
  <2> HIDE DEF h
  <2>4. TurnsUpTo(from, k + 1, h)
    BY <2>2, <2>3, Zenon DEF TurnsUpTo
  <2> QED BY <2>4
<1> HIDE DEF S
<1>3. Nat \subseteq S
  BY <1>1, <1>2, Induction
<1> QED BY <1>3 DEF S

(* ... and is the same for all counts.                                      *)
LEMMA TurnsAgree ==
  ASSUME NEW from, NEW k \in Nat, NEW l \in Nat, NEW g, NEW h,
         TurnsUpTo(from, k, g), TurnsUpTo(from, l, h)
  PROVE  \A n \in Nat : n <= k /\ n <= l => g[n] = h[n]
<1> DEFINE S == { n \in Nat : n <= k /\ n <= l => g[n] = h[n] }
<1>1. 0 \in S
  BY DEF TurnsUpTo
<1>2. ASSUME NEW n \in Nat, n \in S PROVE n + 1 \in S
  <2> SUFFICES ASSUME n + 1 <= k, n + 1 <= l PROVE g[n + 1] = h[n + 1]
    OBVIOUS
  <2>1. g[n] = h[n]
    BY <1>2
  <2>2. g[n + 1] = UNION { Turn(s) : s \in g[n] } /\ h[n + 1] = UNION { Turn(s) : s \in h[n] }
    BY DEF TurnsUpTo
  <2> QED BY <2>1, <2>2
<1> HIDE DEF S
<1>3. Nat \subseteq S
  BY <1>1, <1>2, Induction
<1> QED BY <1>3 DEF S

LEMMA TurnsDefined ==
  ASSUME NEW from, NEW count \in Nat
  PROVE  \E g : TurnsUpTo(from, count, g) /\ Turns(from, count) = g[count]
<1>1. \E g : g = [n \in 0 .. count |->
                    IF n = 0 THEN {from} ELSE UNION { Turn(s) : s \in g[n - 1] }]
  <2>1. PICK g : TurnsUpTo(from, count, g)
    BY TurnsExist
  <2> QED BY <2>1, Zenon DEF TurnsUpTo
<1> DEFINE after[n \in 0 .. count] ==
             IF n = 0 THEN {from} ELSE UNION { Turn(s) : s \in after[n - 1] }
<1>2. after = [n \in 0 .. count |->
                 IF n = 0 THEN {from} ELSE UNION { Turn(s) : s \in after[n - 1] }]
  BY <1>1
<1>3. Turns(from, count) = after[count]
  BY DEF Turns
<1> HIDE DEF after
<1> QED BY <1>2, <1>3 DEF TurnsUpTo

(* No turn, and one more turn.                                              *)
LEMMA NoTurns == ASSUME NEW from PROVE Turns(from, 0) = {from}
<1>1. PICK g : TurnsUpTo(from, 0, g) /\ Turns(from, 0) = g[0]
  BY TurnsDefined
<1> QED BY <1>1 DEF TurnsUpTo

LEMMA OneMoreTurn ==
  ASSUME NEW from, NEW n \in Nat
  PROVE  Turns(from, n + 1) = UNION { Turn(s) : s \in Turns(from, n) }
<1>1. PICK g : TurnsUpTo(from, n, g) /\ Turns(from, n) = g[n]
  BY TurnsDefined
<1>2. PICK h : TurnsUpTo(from, n + 1, h) /\ Turns(from, n + 1) = h[n + 1]
  BY TurnsDefined
<1>3. g[n] = h[n]
  BY <1>1, <1>2, TurnsAgree
<1>4. h[n + 1] = UNION { Turn(s) : s \in h[n] }
  BY <1>2 DEF TurnsUpTo
<1> QED BY <1>1, <1>2, <1>3, <1>4

(* What every cycle keeps, turns and replays keep.                          *)
LEMMA TurnsKeep ==
  ASSUME NEW S, NEW from \in S, \A s \in S : Turn(s) \subseteq S, NEW count \in Nat
  PROVE  Turns(from, count) \subseteq S
<1> DEFINE T == { n \in Nat : Turns(from, n) \subseteq S }
<1>1. 0 \in T
  BY NoTurns
<1>2. ASSUME NEW n \in Nat, n \in T PROVE n + 1 \in T
  <2>1. Turns(from, n + 1) = UNION { Turn(s) : s \in Turns(from, n) }
    BY OneMoreTurn
  <2> QED BY <1>2, <2>1
<1> HIDE DEF T
<1>3. Nat \subseteq T
  BY <1>1, <1>2, Induction
<1> QED BY <1>3 DEF T

LEMMA ReplayKeeps ==
  ASSUME NEW S, NEW mem, Reset(mem) \in S, \A s \in S : Cycle(s) \subseteq S, NEW target \in Nat
  PROVE  RunToCycle(mem, target) \subseteq S
<1>1. CASE target = 0
  BY <1>1 DEF RunToCycle
<1>2. CASE target # 0
  <2>1. Turns(Reset(mem), target - 1) \subseteq S
    <3>1. \A s \in S : Turn(s) \subseteq S
      BY DEF Turn
    <3> QED BY <1>2, <3>1, TurnsKeep
  <2>2. \A s \in S : LastCycle(s) \subseteq S
    BY DEF LastCycle
  <2> QED BY <1>2, <2>1, <2>2 DEF RunToCycle
<1> QED BY <1>1, <1>2

-----------------------------------------------------------------------------
(* The types of a memory and a CPU, and the states of a session.            *)
MemoryType ==
  [ locked : BOOLEAN, blocks : Seq(Block), content : [Region -> Content],
    snap : [Region -> Content \cup {NoSnapshot}] ]

CpuType == [pos : Nat, cycle : Nat, result : Nat, ready : BOOLEAN]

TextIsProgram(mem) == mem.content["text"] \in File \cup {Zero}

SnapshotsOf(mem) ==
  HasSnapshots(mem) => mem.snap["text"] = mem.content["text"] /\ mem.snap["text"] # Zero

(* All words of the program, and the two behind them, can be fetched.       *)
Fetchable(mem) ==
  HasSnapshots(mem) => \A k \in 0 .. Len(Code(mem)) + 1 : Accessible(mem, FetchAddr(k))

(* The memories a handler leaves.                                           *)
Memories == { mem \in MemoryType : TextIsProgram(mem) /\ SnapshotsOf(mem) }

States == [m : Memories, c : CpuType, threw : BOOLEAN]

LEMMA ConstantTypes ==
  /\ AddrSize \in Nat \ {0} /\ WordBytes \in Nat \ {0}
  /\ Zero = 0 /\ Zero \in Content /\ Content \subseteq Nat /\ NoSnapshot \notin Content
  /\ {"text", "data", "stack"} \subseteq Region
  /\ Start \in [Region -> Addr] /\ Size \in [Region -> Addr] /\ Addr \subseteq Nat
<1>1. AddrSize \in Nat \ {0} /\ WordBytes \in Nat \ {0}
  BY AddrAssumption DEF AddrAssumption
<1>2. Zero = 0 /\ Zero \in Content /\ Content \subseteq Nat /\ NoSnapshot \notin Content
  BY ContentIsWord, ContentAssumption DEF ContentIsWord, ContentAssumption
<1>3. /\ {"text", "data", "stack"} \subseteq Region
      /\ Start \in [Region -> Addr] /\ Size \in [Region -> Addr]
  BY RegionAssumption DEF RegionAssumption
<1>4. Addr \subseteq Nat
  BY <1>1 DEF Addr
<1> QED BY <1>1, <1>2, <1>3, <1>4

LEMMA FileTypes ==
  ASSUME NEW f \in File
  PROVE  /\ f \in Content /\ f # Zero
         /\ Source[f].state \in State /\ Source[f].sections \in Seq(Addr)
         /\ Source[f].data \in Content /\ Source[f].code \in Seq(Effect)
BY FileAssumption DEF FileAssumption, FileType

LEMMA WrapIsAddr == ASSUME NEW x \in Int PROVE Wrap(x) \in Addr
BY ConstantTypes DEF Wrap, Addr

LEMMA NextFreeIsAddr ==
  ASSUME NEW mem \in MemoryType
  PROVE  NextFree(mem) \in Addr
<1>1. DataEnds(mem) \subseteq Addr
  <2>1. Start["data"] \in Addr
    BY ConstantTypes
  <2>2. ASSUME NEW k \in DOMAIN mem.blocks PROVE End(mem.blocks[k]) \in Addr
    <3>1. PICK b \in Block : b = mem.blocks[k]
      BY DEF MemoryType
    <3>2. b.start \in Nat /\ b.size \in Nat
      BY ConstantTypes DEF Block
    <3> QED BY <3>1, <3>2, WrapIsAddr DEF End
  <2> QED BY <2>1, <2>2 DEF DataEnds
<1>2. DataEnds(mem) # {}
  BY DEF DataEnds
<1> QED BY <1>1, <1>2, LargestAddress DEF NextFree

-----------------------------------------------------------------------------
(* What the operations on a memory keep.                                    *)
LEMMA PushTyped ==
  ASSUME NEW mem \in MemoryType, NEW start \in Addr, NEW size \in Addr
  PROVE  /\ Push(mem, start, size) \in MemoryType
         /\ Push(mem, start, size).locked = mem.locked
         /\ Push(mem, start, size).content = mem.content
         /\ Push(mem, start, size).snap = mem.snap
         /\ \A a : Allocated(mem, a) => Allocated(Push(mem, start, size), a)
<1> DEFINE b == [start |-> start, size |-> size]
           new == Push(mem, start, size)
<1>1. b \in Block
  BY DEF Block
<1>2. mem.blocks \in Seq(Block)
  BY DEF MemoryType
<1>3. /\ new.blocks = Append(mem.blocks, b) /\ new.locked = mem.locked
      /\ new.content = mem.content /\ new.snap = mem.snap
  BY DEF Push, MemoryType
<1>4. new \in MemoryType
  <2>1. Append(mem.blocks, b) \in Seq(Block)
    BY <1>1, <1>2
  <2> QED BY <2>1 DEF Push, MemoryType
<1>5. ASSUME NEW a, Allocated(mem, a) PROVE Allocated(new, a)
  <2>1. PICK k \in DOMAIN mem.blocks : In(mem.blocks[k], a)
    BY <1>5 DEF Allocated
  <2>2. k \in DOMAIN Append(mem.blocks, b) /\ Append(mem.blocks, b)[k] = mem.blocks[k]
    BY <1>2, <1>1
  <2> QED BY <2>1, <2>2, <1>3 DEF Allocated
<1> HIDE DEF new, b
<1> QED BY <1>3, <1>4, <1>5 DEF new

LEMMA WriteTyped ==
  ASSUME NEW mem \in MemoryType, NEW r \in Region, NEW c \in Content
  PROVE  /\ Write(mem, r, c) \in MemoryType
         /\ Write(mem, r, c).locked = mem.locked /\ Write(mem, r, c).blocks = mem.blocks
         /\ Write(mem, r, c).snap = mem.snap
         /\ Write(mem, r, c).content = [mem.content EXCEPT ![r] = c]
BY DEF Write, MemoryType

LEMMA RestoredTyped ==
  ASSUME NEW mem \in MemoryType, NEW r \in Region, mem.snap[r] # NoSnapshot
  PROVE  /\ Restored(mem, r) \in MemoryType
         /\ Restored(mem, r).locked = mem.locked /\ Restored(mem, r).blocks = mem.blocks
         /\ Restored(mem, r).snap = mem.snap
         /\ Restored(mem, r).content = [mem.content EXCEPT ![r] = mem.snap[r]]
<1>1. mem.snap[r] \in Content
  BY DEF MemoryType
<1> QED BY <1>1 DEF Restored, MemoryType

LEMMA SnapTyped ==
  ASSUME NEW mem \in MemoryType, NEW r \in Region
  PROVE  /\ Snap(mem, r) \in MemoryType
         /\ Snap(mem, r).locked = mem.locked /\ Snap(mem, r).blocks = mem.blocks
         /\ Snap(mem, r).content = mem.content
         /\ Snap(mem, r).snap = [mem.snap EXCEPT ![r] = mem.content[r]]
BY DEF Snap, MemoryType

(* Snapshots stay those of the program as long as what they hold and the    *)
(* text do not change and no block is given back.                           *)
LEMMA SnapshotsStay ==
  ASSUME NEW mem \in MemoryType, NEW new \in MemoryType, SnapshotsOf(mem),
         new.locked = mem.locked, new.snap = mem.snap,
         new.content["text"] = mem.content["text"],
         \A a : Allocated(mem, a) => Allocated(new, a)
  PROVE  SnapshotsOf(new) /\ (Fetchable(mem) => Fetchable(new))
<1>1. HasSnapshots(new) = HasSnapshots(mem) /\ Code(new) = Code(mem)
  BY DEF HasSnapshots, Code
<1>2. \A a : Accessible(mem, a) => Accessible(new, a)
  BY DEF Accessible
<1> QED BY <1>1, <1>2 DEF SnapshotsOf, Fetchable

LEMMA NoneToKeep ==
  ASSUME NEW mem, ~HasSnapshots(mem)
  PROVE  SnapshotsOf(mem) /\ Fetchable(mem)
BY DEF SnapshotsOf, Fetchable

-----------------------------------------------------------------------------
(* A cycle leaves a state of a session, of the same program with the same   *)
(* snapshots, and changes no region but the data.                           *)
LEMMA CurrentIsEffect ==
  ASSUME NEW s \in States
  PROVE  Current(s) \in Effect
<1>1. s.m \in Memories /\ s.c \in CpuType
  BY DEF States
<1>2. Code(s.m) \in Seq(Effect)
  BY <1>1, FileTypes DEF Memories, TextIsProgram, Code
<1>3. s.c.pos \in Nat
  BY <1>1 DEF CpuType
<1>4. CASE s.c.pos < Len(Code(s.m))
  <2>1. s.c.pos + 1 \in 1 .. Len(Code(s.m))
    BY <1>2, <1>3, <1>4
  <2> QED BY <2>1, <1>2, <1>4 DEF Current
<1>5. CASE ~(s.c.pos < Len(Code(s.m)))
  <2>1. 0 \in Addr
    BY ConstantTypes DEF Addr
  <2> QED BY <2>1, <1>5 DEF Current, Effect
<1> QED BY <1>4, <1>5

LEMMA StoredIsContent ==
  ASSUME NEW c \in Nat, NEW word \in Nat
  PROVE  Stored(c, word) \in Content
<1> DEFINE N == Cardinality(Content)
<1>1. N \in Nat \ {0} /\ Content = 0 .. N - 1
  BY ContentIsWord DEF ContentIsWord
<1> HIDE DEF N
<1>2. (c + word + 1) % N \in 0 .. N - 1
  BY <1>1
<1>3. \E d \in Content : d = (c + word + 1) % N
  BY <1>1, <1>2
<1> QED BY <1>3 DEF Stored, N

LEMMA AdvancedTyped ==
  ASSUME NEW c \in CpuType, NEW w \in Nat
  PROVE  /\ [c EXCEPT !.cycle = @ + 1] \in CpuType
         /\ [c EXCEPT !.pos = @ + 1, !.cycle = @ + 1] \in CpuType
         /\ [c EXCEPT !.result = w] \in CpuType
         /\ [c EXCEPT !.ready = FALSE] \in CpuType
<1>1. c.pos + 1 \in Nat /\ c.cycle + 1 \in Nat
  BY DEF CpuType
<1>2. [c EXCEPT !.cycle = c.cycle + 1] \in CpuType
  BY <1>1 DEF CpuType
<1>3. [c EXCEPT !.pos = c.pos + 1, !.cycle = c.cycle + 1] \in CpuType
  BY <1>1 DEF CpuType
<1>4. [c EXCEPT !.result = w] \in CpuType /\ [c EXCEPT !.ready = FALSE] \in CpuType
  BY DEF CpuType
<1> QED BY <1>2, <1>3, <1>4

(* The memory of a cycle that does not throw is that of the one before, a   *)
(* store into the data, or one more block.                                  *)
LEMMA DoneKeeps ==
  ASSUME NEW s \in States, NEW t \in Done(s)
  PROVE  /\ t = [m |-> t.m, c |-> t.c, threw |-> s.threw] /\ t.c \in CpuType
         /\ t.c.cycle = s.c.cycle + 1
         /\ \/ t.m = s.m
            \/ \E d \in Content : t.m = Write(s.m, "data", d)
            \/ \E size \in Addr : t.m = AllocateNext(s.m, size)
<1> DEFINE e == Current(s)
           c == [s.c EXCEPT !.pos = @ + 1, !.cycle = @ + 1]
<1>1. /\ s.m \in MemoryType /\ s.c \in CpuType /\ s.threw \in BOOLEAN
      /\ s = [m |-> s.m, c |-> s.c, threw |-> s.threw]
  BY DEF States, Memories
<1>2. e.arg \in Addr
  BY CurrentIsEffect DEF Effect
<1>3. c \in CpuType /\ c.cycle = s.c.cycle + 1
  <2>1. c.cycle = s.c.cycle + 1
    BY <1>1 DEF CpuType
  <2> QED BY <1>1, <2>1, AdvancedTyped
<1>4. s.m.content["data"] \in Nat /\ c.result \in Nat
  <2>1. s.m.content["data"] \in Content
    BY <1>1, ConstantTypes DEF MemoryType
  <2>2. s.m.content["data"] \in Nat
    BY <2>1, ConstantTypes
  <2> HIDE DEF c
  <2> QED BY <2>2, <1>3 DEF CpuType
<1>5. CASE e.op = "store"
  <2> DEFINE d == Stored(s.m.content["data"], c.result)
  <2>1. d \in Content
    BY <1>4, StoredIsContent
  <2>2. t = [s EXCEPT !.c = c, !.m = Write(@, "data", Stored(@.content["data"], c.result))]
    BY <1>5 DEF Done
  <2> HIDE DEF c, e
  <2>3. t = [m |-> Write(s.m, "data", d), c |-> c, threw |-> s.threw]
    BY <2>2, <1>1
  <2> HIDE DEF d
  <2> QED BY <2>1, <2>3, <1>3
<1>6. CASE e.op = "sbrk"
  <2> DEFINE c2 == [c EXCEPT !.result = NextFree(s.m)]
  <2>1. c2 \in CpuType /\ c2.cycle = c.cycle
    <3>1. NextFree(s.m) \in Nat
      BY <1>1, NextFreeIsAddr, ConstantTypes
    <3> HIDE DEF c
    <3>2. c2.cycle = c.cycle
      BY <1>3 DEF CpuType
    <3> QED BY <3>1, <3>2, <1>3, AdvancedTyped
  <2>2. t = [s EXCEPT !.c = c2, !.m = AllocateNext(@, e.arg)]
    BY <1>6 DEF Done
  <2> HIDE DEF c2, e
  <2>3. t = [m |-> AllocateNext(s.m, e.arg), c |-> c2, threw |-> s.threw]
    BY <2>2, <1>1
  <2> QED BY <2>1, <2>3, <1>2, <1>3
<1>7. CASE e.op = "read"
  <2>1. PICK w \in Inputs : t = [s EXCEPT !.c = [c EXCEPT !.result = w]]
    BY <1>7 DEF Done
  <2> DEFINE c2 == [c EXCEPT !.result = w]
  <2>2. c2 \in CpuType /\ c2.cycle = c.cycle
    <3>1. w \in Nat
      BY SessionAssumption DEF SessionAssumption
    <3> HIDE DEF c
    <3>2. c2.cycle = c.cycle
      BY <1>3 DEF CpuType
    <3> QED BY <3>1, <3>2, <1>3, AdvancedTyped
  <2> HIDE DEF c2
  <2>3. t = [s EXCEPT !.c = c2]
    BY <2>1 DEF c2
  <2>4. t = [m |-> s.m, c |-> c2, threw |-> s.threw]
    BY <2>3, <1>1
  <2> QED BY <2>2, <2>4, <1>3
<1>8. CASE e.op = "exit"
  <2> DEFINE c2 == [c EXCEPT !.ready = FALSE]
  <2>1. t = [s EXCEPT !.c = c2]
    BY <1>8 DEF Done
  <2>2. c2 \in CpuType /\ c2.cycle = c.cycle
    <3> HIDE DEF c
    <3>1. c2.cycle = c.cycle
      BY <1>3 DEF CpuType
    <3> QED BY <3>1, <1>3, AdvancedTyped
  <2> HIDE DEF c2
  <2>3. t = [m |-> s.m, c |-> c2, threw |-> s.threw]
    BY <2>1, <1>1
  <2> QED BY <2>2, <2>3, <1>3
<1>9. CASE e.op \notin {"store", "sbrk", "read", "exit"}
  <2>1. t = [s EXCEPT !.c = c]
    BY <1>9 DEF Done
  <2> HIDE DEF c
  <2>2. t = [m |-> s.m, c |-> c, threw |-> s.threw]
    BY <2>1, <1>1
  <2> QED BY <2>2, <1>3
<1> QED BY <1>5, <1>6, <1>7, <1>8, <1>9

LEMMA CycleKeeps ==
  ASSUME NEW s \in States, NEW t \in Cycle(s)
  PROVE  /\ t \in States /\ (Fetchable(s.m) => Fetchable(t.m))
         /\ t.c.cycle = s.c.cycle + 1
         /\ t.m.locked = s.m.locked /\ t.m.snap = s.m.snap
         /\ \A r \in Region \ {"data"} : t.m.content[r] = s.m.content[r]
<1>1. /\ s.m \in Memories /\ s.m \in MemoryType /\ TextIsProgram(s.m) /\ SnapshotsOf(s.m)
      /\ s.c \in CpuType /\ s.threw \in BOOLEAN
      /\ s = [m |-> s.m, c |-> s.c, threw |-> s.threw]
  BY DEF States, Memories
<1>2. /\ t = [m |-> t.m, c |-> t.c, threw |-> t.threw]
      /\ t.c \in CpuType /\ t.threw \in BOOLEAN /\ t.c.cycle = s.c.cycle + 1
      /\ \/ t.m = s.m
         \/ \E d \in Content : t.m = Write(s.m, "data", d)
         \/ \E size \in Addr : t.m = AllocateNext(s.m, size)
  <2>1. CASE Throws(s)
    <3>1. t = [s EXCEPT !.c.cycle = @ + 1, !.threw = TRUE]
      BY <2>1 DEF Cycle
    <3>2. t = [m |-> s.m, c |-> [s.c EXCEPT !.cycle = @ + 1], threw |-> TRUE]
      BY <3>1, <1>1
    <3>3. /\ [s.c EXCEPT !.cycle = @ + 1] \in CpuType
          /\ [s.c EXCEPT !.cycle = @ + 1].cycle = s.c.cycle + 1
      <4>1. [s.c EXCEPT !.cycle = @ + 1].cycle = s.c.cycle + 1
        BY <1>1 DEF CpuType
      <4> QED BY <1>1, <4>1, AdvancedTyped
    <3> QED BY <3>2, <3>3
  <2>2. CASE ~Throws(s)
    BY <2>2, <1>1, DoneKeeps DEF Cycle
  <2> QED BY <2>1, <2>2
<1>3. /\ t.m \in MemoryType /\ t.m.locked = s.m.locked /\ t.m.snap = s.m.snap
      /\ \A r \in Region \ {"data"} : t.m.content[r] = s.m.content[r]
      /\ \A a : Allocated(s.m, a) => Allocated(t.m, a)
  <2>1. CASE t.m = s.m
    BY <2>1, <1>1
  <2>2. ASSUME NEW d \in Content, t.m = Write(s.m, "data", d)
        PROVE  <1>3!:
    <3>1. "data" \in Region
      BY ConstantTypes
    <3>2. /\ t.m \in MemoryType /\ t.m.locked = s.m.locked /\ t.m.snap = s.m.snap
          /\ t.m.blocks = s.m.blocks /\ t.m.content = [s.m.content EXCEPT !["data"] = d]
      BY <2>2, <1>1, <3>1, WriteTyped
    <3>3. DOMAIN s.m.content = Region
      BY <1>1 DEF MemoryType
    <3> QED BY <3>2, <3>3 DEF Allocated
  <2>3. ASSUME NEW size \in Addr, t.m = AllocateNext(s.m, size)
        PROVE  <1>3!:
    <3>1. NextFree(s.m) \in Addr
      BY <1>1, NextFreeIsAddr
    <3> QED BY <2>3, <1>1, <3>1, PushTyped DEF AllocateNext
  <2> QED BY <1>2, <2>1, <2>2, <2>3
<1>4. t.m.content["text"] = s.m.content["text"]
  <2>1. "text" \in Region \ {"data"}
    BY ConstantTypes
  <2> QED BY <1>3, <2>1
<1>5. TextIsProgram(t.m) /\ SnapshotsOf(t.m) /\ (Fetchable(s.m) => Fetchable(t.m))
  BY <1>1, <1>3, <1>4, SnapshotsStay DEF TextIsProgram
<1>6. t \in States
  BY <1>2, <1>3, <1>5 DEF States, Memories
<1> QED BY <1>2, <1>3, <1>5, <1>6

-----------------------------------------------------------------------------
(* A memory that was cleared, and the sections allocated in it.             *)
LEMMA EmptyTyped ==
  ASSUME NEW mem \in MemoryType
  PROVE  /\ Empty \in MemoryType /\ Cleared(mem) \in MemoryType
         /\ Cleared(mem).content = [r \in Region |-> Zero]
         /\ Cleared(mem).snap = [r \in Region |-> NoSnapshot]
<1>1. [r \in Region |-> Zero] \in [Region -> Content]
  BY ConstantTypes
<1>2. << >> \in Seq(Block)
  OBVIOUS
<1>3. mem.locked \in BOOLEAN
  BY DEF MemoryType
<1> QED BY <1>1, <1>2, <1>3 DEF Empty, Cleared, MemoryType

LEMMA ClearedIsMemory ==
  ASSUME NEW mem \in MemoryType
  PROVE  /\ Cleared(mem) \in Memories /\ ~HasSnapshots(Cleared(mem))
         /\ Fetchable(Cleared(mem))
<1>1. "text" \in Region
  BY ConstantTypes
<1>2. ~HasSnapshots(Cleared(mem)) /\ TextIsProgram(Cleared(mem))
  BY <1>1, EmptyTyped DEF HasSnapshots, TextIsProgram
<1> QED BY <1>2, EmptyTyped, NoneToKeep DEF Memories

LEMMA NewIsMemory == New \in Memories /\ Fetchable(New)
<1>1. Empty \in MemoryType
  <2>1. [r \in Region |-> Zero] \in [Region -> Content] /\ << >> \in Seq(Block)
    BY ConstantTypes
  <2> QED BY <2>1 DEF Empty, MemoryType
<1>2. "text" \in Region /\ Start["stack"] \in Addr /\ Size["stack"] \in Addr
  BY ConstantTypes
<1>3. New \in MemoryType /\ New.content = Empty.content /\ New.snap = Empty.snap
  BY <1>1, <1>2, PushTyped DEF New, AllocateAt
<1>4. New.content["text"] = Zero /\ New.snap["text"] = NoSnapshot
  BY <1>2, <1>3 DEF Empty
<1>5. TextIsProgram(New) /\ ~HasSnapshots(New)
  BY <1>4 DEF TextIsProgram, HasSnapshots
<1> QED BY <1>3, <1>5, NoneToKeep DEF Memories

SectionsUpTo(mem, f, count, g) ==
  g = [n \in 0 .. count |-> IF n = 0 THEN [m |-> Locked(mem), threw |-> FALSE]
                            ELSE Section(g[n - 1], Source[f].sections[n])]

LEMMA SectionsExist ==
  ASSUME NEW mem, NEW f, NEW count \in Nat
  PROVE  \E g : SectionsUpTo(mem, f, count, g)
<1> DEFINE S == { k \in Nat : \E g : SectionsUpTo(mem, f, k, g) }
           first == [m |-> Locked(mem), threw |-> FALSE]
<1>1. 0 \in S
  <2>1. SectionsUpTo(mem, f, 0, [n \in 0 .. 0 |-> first])
    BY DEF SectionsUpTo
  <2> QED BY <2>1
<1> HIDE DEF first
<1>2. ASSUME NEW k \in Nat, k \in S PROVE k + 1 \in S
  <2>1. PICK g : SectionsUpTo(mem, f, k, g)
    BY <1>2
  <2> DEFINE h == [n \in 0 .. k + 1 |->
                     IF n = k + 1 THEN Section(g[k], Source[f].sections[k + 1]) ELSE g[n]]
  <2>2. ASSUME NEW n \in 0 .. k + 1
        PROVE  h[n] = IF n = 0 THEN first ELSE Section(h[n - 1], Source[f].sections[n])
    <3>1. CASE n = k + 1
      <4>1. h[n] = Section(g[k], Source[f].sections[n]) /\ h[k] = g[k] /\ n - 1 = k /\ n # 0
        BY <3>1
      <4> HIDE DEF h
      <4> QED BY <4>1
    <3>2. CASE n # k + 1
      <4>1. n \in 0 .. k
        BY <3>2
      <4>2. g[n] = IF n = 0 THEN first ELSE Section(g[n - 1], Source[f].sections[n])
        BY <2>1, <4>1 DEF SectionsUpTo, first
      <4>3. h[n] = g[n] /\ (n # 0 => h[n - 1] = g[n - 1])
        BY <4>1
      <4> HIDE DEF h
      <4> QED BY <4>2, <4>3
    <3> QED BY <3>1, <3>2
  <2>3. h = [n \in 0 .. k + 1 |-> h[n]]
    OBVIOUS
  <2> HIDE DEF h
  <2>4. SectionsUpTo(mem, f, k + 1, h)
    BY <2>2, <2>3, Zenon DEF SectionsUpTo, first
  <2> QED BY <2>4
<1> HIDE DEF S
<1>3. Nat \subseteq S
  BY <1>1, <1>2, Induction
<1> QED BY <1>3 DEF S

LEMMA SectionsDefined ==
  ASSUME NEW mem, NEW f, NEW count \in Nat
  PROVE  \E g : SectionsUpTo(mem, f, count, g) /\ Sections(mem, f, count) = g[count]
<1>1. \E g : g = [n \in 0 .. count |->
                    IF n = 0 THEN [m |-> Locked(mem), threw |-> FALSE]
                    ELSE Section(g[n - 1], Source[f].sections[n])]
  <2>1. PICK g : SectionsUpTo(mem, f, count, g)
    BY SectionsExist
  <2> QED BY <2>1, Zenon DEF SectionsUpTo
<1> DEFINE after[n \in 0 .. count] == IF n = 0 THEN [m |-> Locked(mem), threw |-> FALSE]
                                      ELSE Section(after[n - 1], Source[f].sections[n])
<1>2. after = [n \in 0 .. count |->
                 IF n = 0 THEN [m |-> Locked(mem), threw |-> FALSE]
                 ELSE Section(after[n - 1], Source[f].sections[n])]
  BY <1>1
<1>3. Sections(mem, f, count) = after[count]
  BY DEF Sections
<1> HIDE DEF after
<1> QED BY <1>2, <1>3 DEF SectionsUpTo

(* A memory with any number of sections is locked and holds nothing yet.    *)
LEMMA SectionsLock ==
  ASSUME NEW mem \in MemoryType, NEW f \in File, NEW count \in 0 .. Len(Source[f].sections)
  PROVE  LET new == Sections(mem, f, count).m
         IN  /\ new \in MemoryType /\ new.locked = TRUE
             /\ new.content = mem.content /\ new.snap = mem.snap
<1> DEFINE T == { s \in [m : MemoryType, threw : BOOLEAN] :
                    s.m.locked = TRUE /\ s.m.content = mem.content /\ s.m.snap = mem.snap }
           N == Len(Source[f].sections)
<1>0. Source[f].sections \in Seq(Addr) /\ N \in Nat
  BY FileTypes
<1>1. PICK g : SectionsUpTo(mem, f, count, g) /\ Sections(mem, f, count) = g[count]
  BY <1>0, SectionsDefined
<1> DEFINE S == { n \in Nat : n <= count => g[n] \in T }
<1>2. 0 \in S
  <2>1. [m |-> Locked(mem), threw |-> FALSE] \in T
    BY DEF Locked, MemoryType
  <2>2. g[0] = [m |-> Locked(mem), threw |-> FALSE]
    BY <1>0, <1>1 DEF SectionsUpTo
  <2> HIDE DEF T
  <2> QED BY <2>1, <2>2
<1> HIDE DEF T
<1>3. ASSUME NEW n \in Nat, n \in S PROVE n + 1 \in S
  <2> SUFFICES ASSUME n + 1 <= count PROVE g[n + 1] \in T
    OBVIOUS
  <2>1. g[n] \in T
    BY <1>3, <1>0
  <2> USE DEF T
  <2> DEFINE size == Source[f].sections[n + 1]
  <2>2. size \in Addr
    BY <1>0
  <2>3. g[n + 1] = Section(g[n], size)
    <3>1. n + 1 \in 0 .. count /\ n + 1 # 0 /\ (n + 1) - 1 = n
      BY <1>0
    <3> QED BY <1>1, <3>1 DEF SectionsUpTo
  <2> HIDE DEF size
  <2>4. CASE g[n].threw \/ ~CanAllocateNext(g[n].m, size)
    <3>1. g[n + 1] = [g[n] EXCEPT !.threw = TRUE]
      BY <2>3, <2>4 DEF Section
    <3> QED BY <3>1, <2>1
  <2>5. CASE ~(g[n].threw \/ ~CanAllocateNext(g[n].m, size))
    <3>1. g[n + 1] = [g[n] EXCEPT !.m = AllocateNext(@, size)]
      BY <2>3, <2>5 DEF Section
    <3>2. g[n].m \in MemoryType /\ NextFree(g[n].m) \in Addr
      BY <2>1, NextFreeIsAddr
    <3> DEFINE new == AllocateNext(g[n].m, size)
    <3>3. /\ new \in MemoryType /\ new.locked = g[n].m.locked
          /\ new.content = g[n].m.content /\ new.snap = g[n].m.snap
      BY <3>2, <2>2, PushTyped DEF AllocateNext
    <3> HIDE DEF new
    <3>4. g[n + 1] = [g[n] EXCEPT !.m = new]
      BY <3>1 DEF new
    <3> QED BY <3>3, <3>4, <2>1
  <2> QED BY <2>4, <2>5
<1> HIDE DEF S
<1>4. count \in S
  BY <1>0, <1>2, <1>3, Induction
<1> QED BY <1>0, <1>1, <1>4 DEF S, T

(* Every address of an instruction of a file, and of the two words behind,  *)
(* is inside the block its text was given.                                  *)
LEMMA WordsInText ==
  ASSUME NEW f \in File, NEW k \in 0 .. Len(Source[f].code) + 1
  PROVE  /\ TextSize(f) \in Addr
         /\ Wrap(Start["text"] + TextSize(f)) = Start["text"] + TextSize(f)
         /\ Start["text"] <= FetchAddr(k) /\ FetchAddr(k) < Start["text"] + TextSize(f)
<1> DEFINE L == Len(Source[f].code)
<1>1. L \in Nat /\ WordBytes \in Nat \ {0} /\ AddrSize \in Nat \ {0} /\ Start["text"] \in Nat
  <2>1. L \in Nat
    BY FileTypes
  <2>2. Start["text"] \in Addr
    BY ConstantTypes
  <2> QED BY <2>1, <2>2, ConstantTypes
<1>2. TextSize(f) = (L + 2) * WordBytes /\ FetchAddr(k) = Start["text"] + k * WordBytes
  BY DEF TextSize, FetchAddr
<1>3. Start["text"] + TextSize(f) < AddrSize
  BY TextAssumption DEF TextAssumption
<1> HIDE DEF L
<1>4. (L + 2) * WordBytes \in Nat /\ k * WordBytes \in Nat
  <2>1. k \in Nat
    BY <1>1 DEF L
  <2> QED BY <1>1, <2>1
<1>5. k * WordBytes < (L + 2) * WordBytes
  <2>1. k \in Nat /\ k < L + 2
    BY <1>1 DEF L
  <2>2. PICK j \in Nat \ {0} : L + 2 = k + j
    <3>1. (L + 2) - k \in Nat \ {0} /\ L + 2 = k + ((L + 2) - k)
      BY <1>1, <2>1
    <3> QED BY <3>1
  <2>3. (k + j) * WordBytes = k * WordBytes + j * WordBytes
    BY <1>1, <2>1, <2>2
  <2>4. j * WordBytes > 0 /\ j * WordBytes \in Nat
    BY <1>1, <2>2
  <2> QED BY <1>4, <2>2, <2>3, <2>4
<1> DEFINE size == TextSize(f)
           from == Start["text"]
<1>6. size \in Nat /\ from \in Nat /\ from + size < AddrSize /\ from + size \in Nat
  BY <1>1, <1>2, <1>3, <1>4
<1>7. from <= FetchAddr(k) /\ FetchAddr(k) < from + size
  BY <1>1, <1>2, <1>4, <1>5
<1> HIDE DEF size, from
<1>8. size \in Addr /\ Wrap(from + size) = from + size
  BY <1>1, <1>6 DEF Wrap, Addr
<1> QED BY <1>7, <1>8 DEF size, from

(* What setup_memory leaves when it does not throw, and when it does.       *)
LEMMA SetupKeeps ==
  ASSUME NEW mem \in MemoryType, NEW f \in File,
         mem.content = [r \in Region |-> Zero], mem.snap = [r \in Region |-> NoSnapshot]
  PROVE  LET s == SetupMemory(mem, f)
         IN  /\ s.m \in MemoryType /\ s.m.snap = mem.snap
             /\ s.threw => s.m \in Memories /\ Fetchable(s.m)
             /\ ~s.threw => /\ s.m.content["text"] = f
                            /\ \A k \in 0 .. Len(Source[f].code) + 1 :
                                  Accessible(s.m, FetchAddr(k))
<1> DEFINE data == Sections(mem, f, Len(Source[f].sections))
           written == Write(data.m, "data", Source[f].data)
           text == AllocateAt(written, "text", TextSize(f))
           s == SetupMemory(mem, f)
<1>0. /\ {"text", "data"} \subseteq Region /\ Start["text"] \in Addr /\ Size["text"] \in Addr
      /\ Source[f].data \in Content /\ f \in Content
      /\ Len(Source[f].sections) \in 0 .. Len(Source[f].sections)
  BY ConstantTypes, FileTypes
<1>1. data.m \in MemoryType /\ data.m.locked = TRUE /\ data.m.content = mem.content /\ data.m.snap = mem.snap
  BY <1>0, SectionsLock
<1> HIDE DEF data
<1>2. CASE data.threw \/ ~CanAllocateAt(data.m, "text", TextSize(f))
  <2>1. s = [m |-> data.m, threw |-> TRUE]
    BY <1>2 DEF SetupMemory, data
  <2>2. ~HasSnapshots(data.m) /\ TextIsProgram(data.m)
    BY <1>0, <1>1 DEF HasSnapshots, TextIsProgram
  <2>3. data.m \in Memories /\ Fetchable(data.m)
    BY <1>1, <2>2, NoneToKeep DEF Memories
  <2> QED BY <2>1, <2>3, <1>1
<1>3. CASE ~(data.threw \/ ~CanAllocateAt(data.m, "text", TextSize(f)))
  <2>1. s = [m |-> Write(text, "text", f), threw |-> FALSE]
    BY <1>3 DEF SetupMemory, data
  <2>2. /\ written \in MemoryType /\ written.locked = TRUE /\ written.snap = mem.snap
    BY <1>0, <1>1, WriteTyped
  <2> HIDE DEF written
  <2>3. TextSize(f) \in Addr
    BY WordsInText, FileTypes
  <2>4. /\ text \in MemoryType /\ text.locked = TRUE /\ text.snap = mem.snap
        /\ text.blocks = Append(written.blocks, [start |-> Start["text"], size |-> TextSize(f)])
    <3>1. text.blocks = Append(written.blocks, [start |-> Start["text"], size |-> TextSize(f)])
      BY <2>2 DEF AllocateAt, Push, MemoryType
    <3> QED BY <1>0, <2>2, <2>3, <3>1, PushTyped DEF AllocateAt
  <2> HIDE DEF text
  <2>5. /\ s.m \in MemoryType /\ s.m.locked = TRUE /\ s.m.snap = mem.snap /\ s.threw = FALSE
        /\ s.m.blocks = text.blocks /\ s.m.content = [text.content EXCEPT !["text"] = f]
    BY <1>0, <2>1, <2>4, WriteTyped
  <2> HIDE DEF s
  <2>6. s.m.content["text"] = f
    BY <1>0, <2>4, <2>5 DEF MemoryType
  <2>7. Fits("text", Start["text"], TextSize(f))
    BY <1>3 DEF CanAllocateAt
  <2>8. ASSUME NEW k \in 0 .. Len(Source[f].code) + 1
        PROVE  Accessible(s.m, FetchAddr(k))
    <3> DEFINE b == [start |-> Start["text"], size |-> TextSize(f)]
    <3>1. /\ Wrap(Start["text"] + TextSize(f)) = Start["text"] + TextSize(f)
          /\ Start["text"] <= FetchAddr(k) /\ FetchAddr(k) < Start["text"] + TextSize(f)
      BY WordsInText
    <3>2. In(b, FetchAddr(k))
      BY <3>1 DEF In, End
    <3>3. b \in Block
      BY <1>0, <2>3 DEF Block
    <3> HIDE DEF b
    <3>4. Allocated(s.m, FetchAddr(k))
      <4>1. written.blocks \in Seq(Block) /\ s.m.blocks = Append(written.blocks, b)
        BY <2>2, <2>4, <2>5 DEF MemoryType, b
      <4>2. /\ Len(written.blocks) + 1 \in DOMAIN s.m.blocks
            /\ s.m.blocks[Len(written.blocks) + 1] = b
        BY <4>1, <3>3
      <4> QED BY <4>2, <3>2 DEF Allocated
    <3>5. Holds("text", FetchAddr(k))
      <4>1. Start["text"] + TextSize(f) <= Start["text"] + Size["text"]
        BY <2>7, <3>1 DEF Fits
      <4> DEFINE from == Start["text"]
      <4>2. from \in Nat /\ TextSize(f) \in Nat /\ Size["text"] \in Nat
        BY <1>0, <2>3, ConstantTypes
      <4>3. FetchAddr(k) \in Int
        BY <4>2, ConstantTypes DEF FetchAddr
      <4> QED BY <4>1, <4>2, <4>3, <3>1 DEF Holds
    <3> QED BY <3>4, <3>5, <1>0 DEF Accessible
  <2> QED BY <2>5, <2>6, <2>8 DEF s
<1> QED BY <1>2, <1>3

(* Snapshots of both regions.                                               *)
LEMMA SnappedIsMemory ==
  ASSUME NEW mem \in MemoryType, mem.content["text"] \in File
  PROVE  LET new == Snap(Snap(mem, "text"), "data")
         IN  /\ new \in Memories /\ HasSnapshots(new) /\ new.content = mem.content
             /\ new.content["data"] = new.snap["data"]
             /\ (\A k \in 0 .. Len(Code(mem)) + 1 : Accessible(mem, FetchAddr(k)))
                  => Fetchable(new)
<1> DEFINE one == Snap(mem, "text")
           new == Snap(one, "data")
<1>1. "text" \in Region /\ "data" \in Region
  BY ConstantTypes
<1>2. /\ one \in MemoryType /\ one.locked = mem.locked /\ one.blocks = mem.blocks
      /\ one.content = mem.content
      /\ one.snap = [mem.snap EXCEPT !["text"] = mem.content["text"]]
  BY <1>1, SnapTyped
<1> HIDE DEF one
<1>3. /\ new \in MemoryType /\ new.locked = one.locked /\ new.blocks = one.blocks
      /\ new.content = one.content
      /\ new.snap = [one.snap EXCEPT !["data"] = one.content["data"]]
  BY <1>1, <1>2, SnapTyped
<1> HIDE DEF new
<1>4. new.snap["text"] = new.content["text"] /\ new.snap["data"] = new.content["data"]
  BY <1>1, <1>2, <1>3 DEF MemoryType
<1>5. /\ new.content["text"] \in Content /\ new.content["text"] # Zero
      /\ new.content["data"] \in Content
  BY <1>1, <1>2, <1>3, FileTypes DEF MemoryType
<1>6. HasSnapshots(new)
  BY <1>4, <1>5, ConstantTypes DEF HasSnapshots
<1>7. new \in Memories
  BY <1>2, <1>3, <1>4, <1>5 DEF Memories, TextIsProgram, SnapshotsOf
<1>8. Code(new) = Code(mem) /\ \A a : Accessible(new, a) = Accessible(mem, a)
  BY <1>2, <1>3 DEF Code, Accessible, Allocated
<1>9. (\A k \in 0 .. Len(Code(mem)) + 1 : Accessible(mem, FetchAddr(k))) => Fetchable(new)
  BY <1>8 DEF Fetchable
<1> QED BY <1>2, <1>3, <1>4, <1>6, <1>7, <1>9 DEF new, one

LEMMA LoadKeeps ==
  ASSUME NEW f \in File, m \in Memories
  PROVE  /\ LoadFile(f).m \in Memories /\ LoadFile(f).loaded \in BOOLEAN
         /\ Fetchable(m) => Fetchable(LoadFile(f).m)
         /\ LoadFile(f).loaded => HasSnapshots(LoadFile(f).m) \/ Source[f].state = "garbled"
<1> DEFINE cleared == Cleared(m)
           setup == SetupMemory(cleared, f)
           new == Snap(Snap(setup.m, "text"), "data")
<1>1. /\ cleared \in MemoryType /\ cleared \in Memories /\ Fetchable(cleared)
      /\ cleared.content = [r \in Region |-> Zero]
      /\ cleared.snap = [r \in Region |-> NoSnapshot]
  BY EmptyTyped, ClearedIsMemory DEF Memories
<1>2. CASE Source[f].state = "missing"
  <2>1. LoadFile(f) = [m |-> m, loaded |-> FALSE]
    BY <1>2 DEF LoadFile
  <2> QED BY <2>1
<1>3. CASE Source[f].state = "garbled"
  <2>1. LoadFile(f) = [m |-> cleared, loaded |-> TRUE]
    BY <1>3 DEF LoadFile
  <2> HIDE DEF cleared
  <2> QED BY <2>1, <1>1, <1>3
<1>4. CASE Source[f].state = "unresolved"
  <2>1. LoadFile(f) = [m |-> cleared, loaded |-> FALSE]
    BY <1>4 DEF LoadFile
  <2> HIDE DEF cleared
  <2> QED BY <2>1, <1>1
<1>5. CASE Source[f].state = "complete"
  <2>1. LoadFile(f) = IF setup.threw THEN [m |-> setup.m, loaded |-> FALSE]
                      ELSE [m |-> new, loaded |-> TRUE]
    BY <1>5 DEF LoadFile
  <2>2. /\ setup.m \in MemoryType
        /\ setup.threw => setup.m \in Memories /\ Fetchable(setup.m)
        /\ ~setup.threw => /\ setup.m.content["text"] = f
                           /\ \A k \in 0 .. Len(Source[f].code) + 1 :
                                 Accessible(setup.m, FetchAddr(k))
    <3> HIDE DEF cleared
    <3> QED BY <1>1, SetupKeeps
  <2> HIDE DEF setup, cleared
  <2>3. CASE setup.threw
    <3>1. LoadFile(f) = [m |-> setup.m, loaded |-> FALSE]
      BY <2>1, <2>3
    <3>2. setup.m \in Memories /\ Fetchable(setup.m)
      BY <2>2, <2>3
    <3> HIDE DEF new
    <3> QED BY <3>1, <3>2
  <2>4. CASE ~setup.threw
    <3>1. setup.m.content["text"] \in File
      BY <2>2, <2>4
    <3>2. /\ new \in Memories /\ HasSnapshots(new)
      BY <2>2, <3>1, SnappedIsMemory
    <3>3. Code(setup.m) = Source[f].code
      BY <2>2, <2>4, FileTypes DEF Code
    <3>4. Fetchable(new)
      BY <2>2, <2>4, <3>1, <3>3, SnappedIsMemory
    <3> HIDE DEF new
    <3> QED BY <2>1, <2>4, <3>2, <3>4
  <2> QED BY <2>3, <2>4
<1>6. Source[f].state \in {"missing", "garbled", "unresolved", "complete"}
  BY FileTypes DEF State
<1> QED BY <1>2, <1>3, <1>4, <1>5, <1>6

(* A reset needs snapshots: it brings back the data of the program there is.*)
LEMMA ResetKeeps ==
  ASSUME NEW mem \in Memories, HasSnapshots(mem)
  PROVE  /\ Reset(mem) \in States /\ (Fetchable(mem) => Fetchable(Reset(mem).m))
         /\ Reset(mem).c = Fresh /\ Reset(mem).threw = FALSE
         /\ Reset(mem).m.locked = mem.locked /\ Reset(mem).m.blocks = mem.blocks
         /\ Reset(mem).m.snap = mem.snap
         /\ Reset(mem).m.content = [mem.content EXCEPT !["data"] = mem.snap["data"]]
<1> DEFINE one == Restored(mem, "data")
           new == Restored(one, "text")
<1>1. /\ {"text", "data"} \subseteq Region /\ mem \in MemoryType
      /\ mem.snap["text"] # NoSnapshot /\ mem.snap["data"] # NoSnapshot
      /\ SnapshotsOf(mem) /\ TextIsProgram(mem)
  BY ConstantTypes DEF HasSnapshots, Memories
<1>2. /\ one \in MemoryType /\ one.locked = mem.locked /\ one.blocks = mem.blocks
      /\ one.snap = mem.snap
      /\ one.content = [mem.content EXCEPT !["data"] = mem.snap["data"]]
  BY <1>1, RestoredTyped
<1> HIDE DEF one
<1>3. /\ new \in MemoryType /\ new.locked = mem.locked /\ new.blocks = mem.blocks
      /\ new.snap = mem.snap
      /\ new.content = [one.content EXCEPT !["text"] = mem.snap["text"]]
  BY <1>1, <1>2, RestoredTyped
<1> HIDE DEF new
<1>4. mem.snap["text"] = mem.content["text"]
  BY <1>1 DEF SnapshotsOf
<1>5. new.content = one.content
  <2>1. one.content \in [Region -> Content] /\ one.content["text"] = mem.content["text"]
    BY <1>1, <1>2 DEF MemoryType
  <2> QED BY <2>1, <1>1, <1>3, <1>4
<1>6. new.content["text"] = mem.content["text"]
  BY <1>1, <1>2, <1>5 DEF MemoryType
<1>7. SnapshotsOf(new) /\ (Fetchable(mem) => Fetchable(new))
  BY <1>1, <1>3, <1>6, SnapshotsStay DEF Allocated
<1>8. new \in Memories
  BY <1>1, <1>3, <1>6, <1>7 DEF Memories, TextIsProgram
<1>9. Fresh \in CpuType
  BY DEF Fresh, CpuType
<1>10. Reset(mem) = [m |-> new, c |-> Fresh, threw |-> FALSE]
  BY DEF Reset, new, one
<1> QED BY <1>2, <1>3, <1>5, <1>7, <1>8, <1>9, <1>10 DEF States

LEMMA ReplayStays ==
  ASSUME NEW mem \in Memories, HasSnapshots(mem), NEW target \in Nat
  PROVE  \A s \in RunToCycle(mem, target) :
           s \in States /\ (Fetchable(mem) => Fetchable(s.m))
<1> DEFINE S == { s \in States : Fetchable(mem) => Fetchable(s.m) }
<1>1. Reset(mem) \in S
  BY ResetKeeps
<1>2. \A s \in S : Cycle(s) \subseteq S
  BY CycleKeeps
<1> HIDE DEF S
<1>3. RunToCycle(mem, target) \subseteq S
  BY <1>1, <1>2, ReplayKeeps
<1> QED BY <1>3 DEF S

-----------------------------------------------------------------------------
(* The invariant: the memory is one of those above and the CPU, once set,   *)
(* has its type.                                                            *)
Kept == /\ m \in Memories
        /\ cpu = NoCpu \/ cpu \in CpuType
        /\ fileLoaded \in BOOLEAN /\ alive \in BOOLEAN /\ restored \in BOOLEAN

LEMMA BecomeKeeps ==
  ASSUME NEW s \in States, Fetchable(m) => Fetchable(s.m), Become(s)
  PROVE  m' \in Memories /\ (Fetchable(m) => Fetchable(m')) /\ cpu' \in CpuType
BY DEF Become, States

LEMMA InitKeeps == Init => Kept /\ Fetchable(m)
BY NewIsMemory DEF Init, Kept

LEMMA StepKeeps ==
  ASSUME Kept, [Next]_vars
  PROVE  Kept' /\ (Fetchable(m) => Fetchable(m'))
<1> USE DEF Kept
<1>1. ASSUME NEW f \in File, Load(f) PROVE Kept' /\ (Fetchable(m) => Fetchable(m'))
  <2>1. /\ LoadFile(f).m \in Memories /\ LoadFile(f).loaded \in BOOLEAN
        /\ Fetchable(m) => Fetchable(LoadFile(f).m)
    BY LoadKeeps
  <2>2. CASE LoadFile(f).loaded /\ cpu # NoCpu /\ HasSnapshots(LoadFile(f).m)
    <3>1. Become(Reset(LoadFile(f).m)) /\ restored' = TRUE
      BY <1>1, <2>2 DEF Load
    <3>2. /\ Reset(LoadFile(f).m) \in States
          /\ Fetchable(m) => Fetchable(Reset(LoadFile(f).m).m)
      BY <2>1, <2>2, ResetKeeps
    <3>3. fileLoaded' \in BOOLEAN /\ alive' \in BOOLEAN
      BY <1>1, <2>1 DEF Load
    <3> QED BY <3>1, <3>2, <3>3, BecomeKeeps
  <2>3. CASE ~(LoadFile(f).loaded /\ cpu # NoCpu /\ HasSnapshots(LoadFile(f).m))
    <3>1. m' = LoadFile(f).m /\ cpu' = cpu /\ restored' = restored
      BY <1>1, <2>3 DEF Load
    <3>2. fileLoaded' \in BOOLEAN /\ alive' \in BOOLEAN
      BY <1>1, <2>1 DEF Load
    <3> QED BY <2>1, <3>1, <3>2
  <2> QED BY <2>2, <2>3
<1>2. CASE SetCpu
  <2>1. Fresh \in CpuType
    BY DEF Fresh, CpuType
  <2> QED BY <1>2, <2>1 DEF SetCpu
<1>3. CASE SetFlexCpu
  BY <1>3 DEF SetFlexCpu, Abort
<1>4. CASE NextCycle
  <2>1. [m |-> m, c |-> cpu, threw |-> FALSE] \in States
    BY <1>4 DEF NextCycle, Ready, States
  <2>2. PICK s \in Cycle([m |-> m, c |-> cpu, threw |-> FALSE]) : Become(s)
    BY <1>4 DEF NextCycle
  <2>3. s \in States /\ (Fetchable(m) => Fetchable(s.m))
    BY <2>1, CycleKeeps
  <2> QED BY <1>4, <2>2, <2>3, BecomeKeeps DEF NextCycle
<1>5. ASSUME NEW n \in Nat, GotoCycle(n) PROVE Kept' /\ (Fetchable(m) => Fetchable(m'))
  <2>1. CASE ~HasSnapshots(m) /\ Abort
    BY <2>1 DEF Abort
  <2>2. ASSUME HasSnapshots(m), NEW s \in RunToCycle(m, n), Become(s), restored' = TRUE,
               UNCHANGED <<fileLoaded, alive>>
        PROVE  Kept' /\ (Fetchable(m) => Fetchable(m'))
    <3>1. s \in States /\ (Fetchable(m) => Fetchable(s.m))
      BY <2>2, ReplayStays
    <3> QED BY <2>2, <3>1, BecomeKeeps
  <2> QED BY <1>5, <2>1, <2>2 DEF GotoCycle
<1>6. CASE PrevCycle
  <2>1. cpu.cycle - 1 \in Nat
    BY <1>6 DEF PrevCycle, CpuType
  <2> QED BY <1>5, <1>6, <2>1 DEF PrevCycle
<1>7. CASE ResetCpu
  <2>1. CASE ~HasSnapshots(m) /\ Abort
    BY <2>1 DEF Abort
  <2>2. CASE HasSnapshots(m) /\ Become(Reset(m)) /\ restored' = TRUE
             /\ UNCHANGED <<fileLoaded, alive>>
    BY <2>2, ResetKeeps, BecomeKeeps
  <2> QED BY <1>7, <2>1, <2>2 DEF ResetCpu
<1>8. CASE UNCHANGED vars
  BY <1>8 DEF vars, Memories, MemoryType, TextIsProgram, SnapshotsOf, HasSnapshots
<1>9. ASSUME NEW n \in 0 .. MaxCycle, GotoCycle(n) PROVE Kept' /\ (Fetchable(m) => Fetchable(m'))
  BY <1>5, <1>9, SessionAssumption DEF SessionAssumption
<1> QED BY <1>1, <1>2, <1>3, <1>4, <1>6, <1>7, <1>8, <1>9 DEF Next

LEMMA AlwaysKept == Spec => [](Kept /\ Fetchable(m))
<1>1. Init => Kept /\ Fetchable(m)
  BY InitKeeps
<1>2. Kept /\ Fetchable(m) /\ [Next]_vars => (Kept /\ Fetchable(m))'
  BY StepKeeps
<1> QED BY <1>1, <1>2, PTL DEF Spec

(* The CPU and the memory of a session keep their types.                    *)
THEOREM SessionTypeCorrect == Spec => []SessionTypeOK
<1>1. Kept => SessionTypeOK
  BY DEF Kept, Memories, MemoryType, CpuType, SessionTypeOK
<1> QED BY <1>1, AlwaysKept, PTL

(* A reset or a replay brings back the program that is loaded, whose words  *)
(* can all be fetched, whatever loads have failed before.                   *)
THEOREM SnapshotsOfProgram == Spec => []SnapshotsAreOfProgram
<1>1. Kept /\ Fetchable(m) => SnapshotsAreOfProgram
  BY DEF Kept, Memories, SnapshotsOf, Fetchable, SnapshotsAreOfProgram
<1> QED BY <1>1, AlwaysKept, PTL

-----------------------------------------------------------------------------
(* Replays.  A program that neither reads nor asks for memory changes the   *)
(* data only, and what it does next depends on what is visible.             *)
Alike(mem) == \A k \in DOMAIN Code(mem) : Code(mem)[k].op \notin {"read", "sbrk"}

Along(mem) ==
  { s \in States : /\ s.m.locked = mem.locked /\ s.m.blocks = mem.blocks /\ s.m.snap = mem.snap
                   /\ \A r \in Region \ {"data"} : s.m.content[r] = mem.content[r] }

LEMMA AlongSame ==
  ASSUME NEW mem \in Memories, NEW s \in Along(mem)
  PROVE  /\ s \in States /\ s.m \in Memories
         /\ Code(s.m) = Code(mem) /\ HasSnapshots(s.m) = HasSnapshots(mem)
         /\ Alike(s.m) = Alike(mem) /\ Along(s.m) = Along(mem)
         /\ \A a : Accessible(s.m, a) = Accessible(mem, a)
<1>1. s \in States /\ s.m \in Memories
  BY DEF Along, States
<1>2. "text" \in Region \ {"data"}
  BY ConstantTypes
<1>3. Code(s.m) = Code(mem)
  BY <1>2 DEF Along, Code
<1>4. HasSnapshots(s.m) = HasSnapshots(mem)
  BY DEF Along, HasSnapshots
<1>5. Alike(s.m) = Alike(mem)
  BY <1>3 DEF Alike
<1>6. Along(s.m) = Along(mem)
  BY DEF Along
<1>7. \A a : Accessible(s.m, a) = Accessible(mem, a)
  BY DEF Along, Accessible, Allocated
<1> QED BY <1>1, <1>3, <1>4, <1>5, <1>6, <1>7

(* A reset undoes what such a program has done.                             *)
LEMMA ResetSame ==
  ASSUME NEW mem \in Memories, HasSnapshots(mem), NEW s \in Along(mem)
  PROVE  Reset(s.m) = Reset(mem) /\ Reset(mem) \in Along(mem)
<1>1. s.m \in Memories /\ HasSnapshots(s.m) /\ s.m \in MemoryType /\ mem \in MemoryType
  BY AlongSame DEF Memories
<1> DEFINE a == Reset(s.m)
           b == Reset(mem)
<1>2. /\ a \in States /\ a.c = Fresh /\ a.threw = FALSE
      /\ a.m.locked = s.m.locked /\ a.m.blocks = s.m.blocks /\ a.m.snap = s.m.snap
      /\ a.m.content = [s.m.content EXCEPT !["data"] = s.m.snap["data"]]
  BY <1>1, ResetKeeps
<1>3. /\ b \in States /\ b.c = Fresh /\ b.threw = FALSE
      /\ b.m.locked = mem.locked /\ b.m.blocks = mem.blocks /\ b.m.snap = mem.snap
      /\ b.m.content = [mem.content EXCEPT !["data"] = mem.snap["data"]]
  BY ResetKeeps
<1> HIDE DEF a, b
<1>4. /\ s.m.locked = mem.locked /\ s.m.blocks = mem.blocks /\ s.m.snap = mem.snap
      /\ \A r \in Region \ {"data"} : s.m.content[r] = mem.content[r]
  BY DEF Along
<1>5. s.m.content \in [Region -> Content] /\ mem.content \in [Region -> Content]
  BY <1>1 DEF MemoryType
<1>6. a.m.content = b.m.content
  BY <1>2, <1>3, <1>4, <1>5
<1>7. a.m \in MemoryType /\ b.m \in MemoryType
  BY <1>2, <1>3 DEF States, Memories
<1>8. a.m = b.m
  BY <1>2, <1>3, <1>4, <1>6, <1>7 DEF MemoryType
<1>9. a = b
  BY <1>2, <1>3, <1>8 DEF States
<1>10. b \in Along(mem)
  BY <1>3, <1>5 DEF Along
<1> QED BY <1>9, <1>10 DEF a, b

(* All there is to a cycle of such a program.                               *)
Follows(t, s) ==
  /\ t.c.cycle = s.c.cycle + 1
  /\ t.c.ready => s.c.ready
  /\ Throws(s) => /\ t.threw = TRUE /\ t.m = s.m
                  /\ t.c.pos = s.c.pos /\ t.c.result = s.c.result /\ t.c.ready = s.c.ready
  /\ ~Throws(s) =>
       /\ t.threw = s.threw
       /\ t.c.pos = s.c.pos + 1 /\ t.c.result = s.c.result
       /\ t.c.ready = IF Current(s).op = "exit" THEN FALSE ELSE s.c.ready
       /\ t.m.content["data"] = IF Current(s).op = "store"
                                THEN Stored(s.m.content["data"], s.c.result)
                                ELSE s.m.content["data"]

LEMMA CurrentIsQuiet ==
  ASSUME NEW s \in States, Alike(s.m)
  PROVE  Current(s).op \notin {"read", "sbrk"}
<1>1. Code(s.m) \in Seq(Effect) /\ s.c.pos \in Nat
  BY FileTypes DEF States, Memories, TextIsProgram, Code, CpuType
<1>2. CASE s.c.pos < Len(Code(s.m))
  <2>1. s.c.pos + 1 \in DOMAIN Code(s.m) /\ Current(s) = Code(s.m)[s.c.pos + 1]
    BY <1>1, <1>2 DEF Current
  <2> QED BY <2>1 DEF Alike
<1>3. CASE ~(s.c.pos < Len(Code(s.m)))
  BY <1>3 DEF Current
<1> QED BY <1>2, <1>3

LEMMA QuietCycle ==
  ASSUME NEW s \in States, Alike(s.m)
  PROVE  \E t \in Along(s.m) : Cycle(s) = {t} /\ Follows(t, s)
<1> DEFINE e == Current(s)
           c == [s.c EXCEPT !.pos = @ + 1, !.cycle = @ + 1]
<1>1. /\ s.m \in MemoryType /\ s.c \in CpuType /\ s.threw \in BOOLEAN
      /\ s = [m |-> s.m, c |-> s.c, threw |-> s.threw] /\ "data" \in Region
  BY ConstantTypes DEF States, Memories
<1>2. e.op \notin {"read", "sbrk"}
  BY CurrentIsQuiet
<1>3. /\ c.pos = s.c.pos + 1 /\ c.cycle = s.c.cycle + 1 /\ c.result = s.c.result
      /\ c.ready = s.c.ready
  BY <1>1 DEF CpuType
<1>4. ASSUME NEW t, Cycle(s) = {t}, t.m.blocks = s.m.blocks
      PROVE  t \in Along(s.m)
  BY <1>4, CycleKeeps DEF Along
<1>5. CASE Throws(s)
  <2> DEFINE t == [m |-> s.m, c |-> [s.c EXCEPT !.cycle = @ + 1], threw |-> TRUE]
  <2>1. Cycle(s) = {[s EXCEPT !.c.cycle = @ + 1, !.threw = TRUE]}
    BY <1>5 DEF Cycle
  <2>2. Cycle(s) = {t}
    <3>1. PICK u : u = [s EXCEPT !.c.cycle = @ + 1, !.threw = TRUE]
      OBVIOUS
    <3>2. u = t
      BY <1>1, <3>1
    <3> QED BY <2>1, <3>1, <3>2
  <2>3. Follows(t, s)
    BY <1>1, <1>5 DEF Follows, CpuType
  <2> QED BY <1>4, <2>2, <2>3
<1>6. CASE ~Throws(s) /\ e.op = "store"
  <2> DEFINE d == Stored(s.m.content["data"], c.result)
             t == [m |-> Write(s.m, "data", d), c |-> c, threw |-> s.threw]
  <2>1. Cycle(s) = {[s EXCEPT !.c = c, !.m = Write(@, "data", Stored(@.content["data"], c.result))]}
    BY <1>6 DEF Cycle, Done
  <2>2. Cycle(s) = {t}
    <3>1. PICK u : u = [s EXCEPT !.c = c, !.m = Write(@, "data", Stored(@.content["data"], c.result))]
      OBVIOUS
    <3>2. u = t
      <4> HIDE DEF c, e
      <4> QED BY <1>1, <3>1
    <3> QED BY <2>1, <3>1, <3>2
  <2> HIDE DEF c, d
  <2>3. t.m.content["data"] = d /\ t.m.blocks = s.m.blocks
    BY <1>1 DEF Write, MemoryType
  <2>4. Follows(t, s)
    BY <1>1, <1>3, <1>6, <2>3 DEF Follows, d
  <2> QED BY <1>4, <2>2, <2>3, <2>4
<1>7. CASE ~Throws(s) /\ e.op = "exit"
  <2> DEFINE t == [m |-> s.m, c |-> [c EXCEPT !.ready = FALSE], threw |-> s.threw]
  <2>1. Cycle(s) = {[s EXCEPT !.c = [c EXCEPT !.ready = FALSE]]}
    BY <1>7 DEF Cycle, Done
  <2>2. Cycle(s) = {t}
    <3> HIDE DEF c
    <3> QED BY <2>1, <1>1
  <2>3. /\ t.c.pos = c.pos /\ t.c.cycle = c.cycle /\ t.c.result = c.result /\ t.c.ready = FALSE
    BY <1>1 DEF CpuType
  <2> HIDE DEF c
  <2>4. Follows(t, s)
    <3> USE <2>3
    <3> HIDE DEF t
    <3>1. t.m = s.m /\ t.threw = s.threw
      BY DEF t
    <3> QED BY <1>3, <1>7, <3>1 DEF Follows
  <2> QED BY <1>4, <2>2, <2>4
<1>8. CASE ~Throws(s) /\ e.op \notin {"store", "exit"}
  <2> DEFINE t == [m |-> s.m, c |-> c, threw |-> s.threw]
  <2>1. Cycle(s) = {[s EXCEPT !.c = c]}
    BY <1>2, <1>8 DEF Cycle, Done
  <2> HIDE DEF c
  <2>2. Cycle(s) = {t}
    BY <2>1, <1>1
  <2>3. Follows(t, s)
    BY <1>3, <1>8 DEF Follows
  <2> QED BY <1>4, <2>2, <2>3
<1> QED BY <1>5, <1>6, <1>7, <1>8

(* Two states that look alike do alike.                                     *)
LEMMA AlikeStates ==
  ASSUME NEW mem \in Memories, Alike(mem), NEW a \in Along(mem), NEW b \in Along(mem),
         Visible(a) = Visible(b)
  PROVE  /\ Throws(a) = Throws(b)
         /\ \A x \in Along(mem), y \in Along(mem) :
              Follows(x, a) /\ Follows(y, b) => Visible(x) = Visible(y)
<1>1. /\ Code(a.m) = Code(b.m) /\ \A addr : Accessible(a.m, addr) = Accessible(b.m, addr)
  BY AlongSame
<1>2. /\ a.c.pos = b.c.pos /\ a.c.result = b.c.result /\ a.c.ready = b.c.ready
      /\ a.m.content["data"] = b.m.content["data"]
      /\ a.m.content["text"] = b.m.content["text"]
  BY DEF Visible
<1>3. Current(a) = Current(b)
  BY <1>1, <1>2 DEF Current
<1>4. a \in States /\ Current(a).op # "sbrk"
  BY AlongSame, CurrentIsQuiet
<1>5. Throws(a) = Throws(b)
  BY <1>1, <1>2, <1>3, <1>4 DEF Throws
<1>6. ASSUME NEW x \in Along(mem), NEW y \in Along(mem), Follows(x, a), Follows(y, b)
      PROVE  Visible(x) = Visible(y)
  <2>1. x.m.content["text"] = y.m.content["text"]
    <3>1. "text" \in Region \ {"data"}
      BY ConstantTypes
    <3> QED BY <3>1 DEF Along
  <2>2. CASE Throws(a)
    BY <1>2, <1>5, <1>6, <2>1, <2>2 DEF Follows, Visible
  <2>3. CASE ~Throws(a)
    BY <1>2, <1>3, <1>5, <1>6, <2>1, <2>3 DEF Follows, Visible
  <2> QED BY <2>2, <2>3
<1> QED BY <1>5, <1>6

(* Where a number of turns comes to: to one state, that as many turns as    *)
(* its cycle come to, and the last of which was a cycle.                    *)
ComesTo(mem, n, s) ==
  /\ Turns(Reset(mem), n) = {s} /\ s.c.cycle <= n /\ Turns(Reset(mem), s.c.cycle) = {s}
  /\ s.threw \/ ~s.c.ready \/ s.c.cycle = n
  /\ s.threw => Throws(s)
  /\ n # 0 => /\ s.c.cycle # 0
              /\ \E p \in Along(mem) : /\ Turns(Reset(mem), s.c.cycle - 1) = {p}
                                       /\ ~p.threw /\ p.c.ready /\ Cycle(p) = {s}

(* A cycle that throws leaves a state that throws again.                    *)
LEMMA ThrowsAgain ==
  ASSUME NEW s \in States, Alike(s.m), NEW t \in Along(s.m), Follows(t, s), ~s.threw, t.threw
  PROVE  Throws(t)
<1>1. Throws(s)
  BY DEF Follows
<1>2. t.m = s.m /\ t.c.pos = s.c.pos
  BY <1>1 DEF Follows
<1>3. Current(t) = Current(s)
  BY <1>2 DEF Current
<1> QED BY <1>1, <1>2, <1>3 DEF Throws

LEMMA ResetStarts ==
  ASSUME NEW mem
  PROVE  /\ Reset(mem).c.cycle = 0 /\ Reset(mem).c.ready = TRUE /\ Reset(mem).threw = FALSE
BY DEF Reset, Fresh

LEMMA TurnOfOne ==
  ASSUME NEW from, NEW n \in Nat, NEW s, Turns(from, n) = {s}
  PROVE  Turns(from, n + 1) = Turn(s)
<1>1. Turns(from, n + 1) = UNION { Turn(x) : x \in {s} }
  BY OneMoreTurn
<1>2. UNION { Turn(x) : x \in {s} } = Turn(s)
  BY Zenon
<1> QED BY <1>1, <1>2

LEMMA TurnsComeTo ==
  ASSUME NEW mem \in Memories, HasSnapshots(mem), Alike(mem), NEW n \in Nat
  PROVE  \E s \in Along(mem) : ComesTo(mem, n, s)
<1> DEFINE R == Reset(mem)
           S == { k \in Nat : \E s \in Along(mem) : ComesTo(mem, k, s) }
<1>0. [m |-> mem, c |-> Fresh, threw |-> FALSE] \in Along(mem)
  BY DEF Along, States, Fresh, CpuType
<1>1. 0 \in S
  <2>1. R \in Along(mem)
    BY <1>0, ResetSame
  <2>2. R.c.cycle = 0 /\ R.threw = FALSE
    BY ResetStarts
  <2>3. Turns(R, 0) = {R}
    BY NoTurns
  <2> QED BY <2>1, <2>2, <2>3 DEF ComesTo
<1>2. ASSUME NEW k \in Nat, k \in S PROVE k + 1 \in S
  <2>1. PICK s \in Along(mem) : ComesTo(mem, k, s)
    BY <1>2
  <2>2. Turns(R, k + 1) = Turn(s)
    BY <2>1, TurnOfOne DEF ComesTo
  <2>3. s.c.cycle \in Nat /\ s \in States /\ Alike(s.m)
    BY AlongSame DEF States, CpuType
  <2>4. CASE s.threw \/ ~s.c.ready
    <3>1. Turns(R, k + 1) = {s}
      BY <2>2, <2>4 DEF Turn
    <3>2. k # 0
      <4> SUFFICES ASSUME k = 0 PROVE FALSE
        OBVIOUS
      <4>1. s = R
        BY <2>1, NoTurns DEF ComesTo
      <4> QED BY <4>1, <2>4, ResetStarts
    <3>3. ComesTo(mem, k + 1, s)
      BY <2>1, <2>3, <2>4, <3>1, <3>2 DEF ComesTo
    <3> QED BY <3>3
  <2>5. CASE ~(s.threw \/ ~s.c.ready)
    <3>1. s.c.cycle = k
      BY <2>1, <2>5 DEF ComesTo
    <3>2. PICK t \in Along(s.m) : Cycle(s) = {t} /\ Follows(t, s)
      BY <2>3, QuietCycle
    <3>3. Turns(R, k + 1) = {t} /\ t.c.cycle = k + 1
      BY <2>2, <2>5, <3>1, <3>2 DEF Turn, Follows
    <3>4. t \in Along(mem)
      BY <3>2, AlongSame
    <3>5. t.threw => Throws(t)
      BY <2>3, <2>5, <3>2, ThrowsAgain
    <3>6. Turns(R, t.c.cycle - 1) = {s}
      BY <2>1, <3>1, <3>3 DEF ComesTo
    <3>7. ComesTo(mem, k + 1, t)
      BY <2>5, <3>2, <3>3, <3>5, <3>6 DEF ComesTo
    <3> QED BY <3>4, <3>7
  <2> QED BY <2>4, <2>5
<1> HIDE DEF S
<1>3. Nat \subseteq S
  BY <1>1, <1>2, Induction
<1> QED BY <1>3 DEF S

(* Where a replay comes to: to one state, that the replay to its own cycle  *)
(* comes to, and so do the turns unless the program has exited.  When it    *)
(* has thrown, the replay to the cycle before does not.                     *)
PlaysTo(mem, n, s) ==
  /\ RunToCycle(mem, n) = {s} /\ RunToCycle(mem, s.c.cycle) = {s} /\ s.c.cycle <= n
  /\ s.threw => /\ Throws(s) /\ s.c.cycle # 0
                /\ \A r \in RunToCycle(mem, s.c.cycle - 1) : ~r.threw
  /\ s.c.ready => Turns(Reset(mem), n) = {s}

LEMMA ReplayOfOne ==
  ASSUME NEW mem, NEW n \in Nat \ {0}, NEW s, Turns(Reset(mem), n - 1) = {s}
  PROVE  RunToCycle(mem, n) = LastCycle(s)
<1>1. RunToCycle(mem, n) = UNION { LastCycle(x) : x \in {s} }
  BY DEF RunToCycle
<1>2. UNION { LastCycle(x) : x \in {s} } = LastCycle(s)
  BY Zenon
<1> QED BY <1>1, <1>2

LEMMA ReplayComesTo ==
  ASSUME NEW mem \in Memories, NEW n \in Nat, NEW s \in Along(mem), ComesTo(mem, n, s)
  PROVE  RunToCycle(mem, s.c.cycle) = {s}
<1>1. s.c.cycle \in Nat
  BY AlongSame DEF States, CpuType
<1>2. CASE n = 0
  <2>1. s.c.cycle = 0 /\ Turns(Reset(mem), 0) = {s}
    BY <1>1, <1>2 DEF ComesTo
  <2> QED BY <2>1, NoTurns DEF RunToCycle
<1>3. CASE n # 0
  <2>1. PICK p \in Along(mem) : /\ Turns(Reset(mem), s.c.cycle - 1) = {p}
                                /\ ~p.threw /\ p.c.ready /\ Cycle(p) = {s}
    BY <1>3 DEF ComesTo
  <2>2. s.c.cycle \in Nat \ {0}
    BY <1>1, <1>3 DEF ComesTo
  <2> QED BY <2>1, <2>2, ReplayOfOne DEF LastCycle
<1> QED BY <1>2, <1>3

LEMMA ReplayPlaysTo ==
  ASSUME NEW mem \in Memories, HasSnapshots(mem), Alike(mem), NEW n \in Nat
  PROVE  \E s \in Along(mem) : PlaysTo(mem, n, s)
<1> DEFINE R == Reset(mem)
<1>1. CASE n = 0
  <2>1. RunToCycle(mem, 0) = {R} /\ Turns(R, 0) = {R}
    BY NoTurns DEF RunToCycle
  <2>2. R \in Along(mem)
    <3>1. [m |-> mem, c |-> Fresh, threw |-> FALSE] \in Along(mem)
      BY DEF Along, States, Fresh, CpuType
    <3> QED BY <3>1, ResetSame
  <2>3. R.c.cycle = 0 /\ R.threw = FALSE
    BY ResetStarts
  <2>4. PlaysTo(mem, n, R)
    BY <1>1, <2>1, <2>3 DEF PlaysTo
  <2> QED BY <2>2, <2>4
<1>2. CASE n # 0
  <2>1. n - 1 \in Nat
    BY <1>2
  <2>2. PICK q \in Along(mem) : ComesTo(mem, n - 1, q)
    BY <2>1, TurnsComeTo
  <2>3. RunToCycle(mem, n) = LastCycle(q) /\ Turns(R, n) = Turn(q)
    BY <1>2, <2>1, <2>2, ReplayOfOne, TurnOfOne DEF ComesTo
  <2>4. q \in States /\ Alike(q.m) /\ q.c.cycle \in Nat
    BY AlongSame DEF States, CpuType
  <2>5. CASE q.threw
    <3>1. n - 1 # 0
      <4>1. n - 1 = 0 => q = R
        BY <2>2, NoTurns DEF ComesTo
      <4> QED BY <4>1, <2>5, ResetStarts
    <3>2. PICK p \in Along(mem) : /\ Turns(R, q.c.cycle - 1) = {p}
                                  /\ ~p.threw /\ p.c.ready /\ Cycle(p) = {q}
      BY <2>2, <3>1 DEF ComesTo
    <3>3. RunToCycle(mem, q.c.cycle) = {q}
      BY <2>1, <2>2, ReplayComesTo
    <3>4. LastCycle(q) = {q} /\ Turn(q) = {q}
      BY <2>5 DEF LastCycle, Turn
    <3>5. q.c.cycle - 1 \in Nat
      BY <2>2, <2>4, <3>1 DEF ComesTo
    <3>6. RunToCycle(mem, q.c.cycle - 1) = {p}
      <4>1. PICK x \in Along(mem) : ComesTo(mem, q.c.cycle - 1, x)
        BY <3>5, TurnsComeTo
      <4>2. x = p
        BY <3>2, <4>1 DEF ComesTo
      <4>3. p.c.cycle = q.c.cycle - 1
        BY <3>2, <4>1, <4>2 DEF ComesTo
      <4> QED BY <3>2, <3>5, <4>1, <4>2, <4>3, ReplayComesTo
    <3>7. PlaysTo(mem, n, q)
      BY <2>2, <2>3, <2>4, <3>1, <3>2, <3>3, <3>4, <3>6 DEF PlaysTo, ComesTo
    <3> QED BY <3>7
  <2>6. CASE ~q.threw
    <3>1. PICK t \in Along(q.m) : Cycle(q) = {t} /\ Follows(t, q)
      BY <2>4, QuietCycle
    <3>2. t \in Along(mem) /\ t.c.cycle = q.c.cycle + 1
      BY <3>1, AlongSame DEF Follows
    <3>3. LastCycle(q) = {t}
      BY <2>6, <3>1 DEF LastCycle
    <3>4. RunToCycle(mem, t.c.cycle) = {t}
      <4>1. t.c.cycle \in Nat \ {0} /\ t.c.cycle - 1 = q.c.cycle
        BY <2>4, <3>2
      <4>2. Turns(R, t.c.cycle - 1) = {q}
        BY <2>2, <4>1 DEF ComesTo
      <4> QED BY <3>3, <4>1, <4>2, ReplayOfOne
    <3>5. t.threw => Throws(t)
      BY <2>4, <2>6, <3>1, ThrowsAgain
    <3>6. t.c.ready => Turns(R, n) = {t}
      BY <2>3, <2>6, <3>1 DEF Turn, Follows
    <3>7. t.c.cycle <= n
      BY <2>2, <2>4, <3>2 DEF ComesTo
    <3>8. t.c.cycle # 0 /\ \A r \in RunToCycle(mem, t.c.cycle - 1) : ~r.threw
      <4>1. RunToCycle(mem, q.c.cycle) = {q} /\ t.c.cycle - 1 = q.c.cycle
        BY <2>1, <2>2, <2>4, <3>2, ReplayComesTo
      <4> QED BY <2>4, <2>6, <3>2, <4>1
    <3>9. PlaysTo(mem, n, t)
      BY <2>3, <3>3, <3>4, <3>5, <3>6, <3>7, <3>8 DEF PlaysTo
    <3> QED BY <3>2, <3>9
  <2> QED BY <2>5, <2>6
<1> QED BY <1>1, <1>2

(* A replay depends on the program and its snapshots only.                  *)
LEMMA ReplaySame ==
  ASSUME NEW mem \in Memories, HasSnapshots(mem), NEW s \in Along(mem), NEW n \in Nat
  PROVE  RunToCycle(s.m, n) = RunToCycle(mem, n)
BY ResetSame DEF RunToCycle

-----------------------------------------------------------------------------
(* The CPU c is where a replay to its cycle comes to, or has thrown there   *)
(* and would throw again.                                                   *)
Replayed(mem, c) ==
  \A r \in RunToCycle(mem, c.cycle) :
    /\ Visible(r) = Visible([m |-> mem, c |-> c])
    /\ r.threw => Throws([m |-> mem, c |-> c, threw |-> FALSE])

(* So it is after a replay to any cycle, ...                                *)
LEMMA GoneIsReplayed ==
  ASSUME NEW mem \in Memories, HasSnapshots(mem), Alike(mem), NEW n \in Nat,
         NEW s \in RunToCycle(mem, n)
  PROVE  Replayed(s.m, s.c) /\ s \in Along(mem)
<1>1. s \in Along(mem) /\ PlaysTo(mem, n, s)
  BY ReplayPlaysTo DEF PlaysTo
<1>2. s.c.cycle \in Nat
  BY <1>1, AlongSame DEF States, CpuType
<1>3. RunToCycle(s.m, s.c.cycle) = {s}
  BY <1>1, <1>2, ReplaySame DEF PlaysTo
<1>4. s.threw => Throws([m |-> s.m, c |-> s.c, threw |-> FALSE])
  BY <1>1 DEF PlaysTo, Throws, Current
<1> QED BY <1>1, <1>3, <1>4 DEF Replayed, Visible

(* ... and after one more cycle.                                            *)
LEMMA NextIsReplayed ==
  ASSUME NEW mem \in Memories, HasSnapshots(mem), Alike(mem), NEW c \in CpuType, c.ready,
         Replayed(mem, c), NEW t \in Cycle([m |-> mem, c |-> c, threw |-> FALSE])
  PROVE  Replayed(t.m, t.c) /\ t \in Along(mem)
<1> DEFINE R == Reset(mem)
           now == [m |-> mem, c |-> c, threw |-> FALSE]
<1>1. now \in States /\ now \in Along(mem) /\ now.m = mem /\ now.c = c /\ ~now.threw
  BY DEF States, Along
<1> HIDE DEF now
<1>2. Cycle(now) = {t} /\ t \in Along(mem) /\ Follows(t, now)
  BY <1>1, QuietCycle DEF now
<1>3. PICK r \in Along(mem) : PlaysTo(mem, c.cycle, r)
  BY ReplayPlaysTo DEF CpuType
<1>4. Visible(r) = Visible(now) /\ (r.threw => Throws(now))
  BY <1>3 DEF PlaysTo, Replayed, now, Visible
<1>5. r.c.ready
  BY <1>1, <1>4 DEF Visible
<1>6. Turns(R, c.cycle) = {r}
  BY <1>3, <1>5 DEF PlaysTo
<1>7. t.c.cycle \in Nat \ {0} /\ t.c.cycle - 1 = c.cycle
  BY <1>1, <1>2 DEF Follows, CpuType
<1>8. RunToCycle(t.m, t.c.cycle) = LastCycle(r)
  <2>1. RunToCycle(mem, t.c.cycle) = LastCycle(r)
    BY <1>6, <1>7, ReplayOfOne
  <2> QED BY <1>2, <1>7, <2>1, ReplaySame
<1>9. Throws(r) = Throws(now)
  BY <1>1, <1>3, <1>4, AlikeStates
<1>10. CASE r.threw
  <2>1. Throws(now) /\ t.m = mem /\ t.c.pos = c.pos /\ t.c.result = c.result /\ t.c.ready = c.ready
    BY <1>1, <1>2, <1>4, <1>10 DEF Follows
  <2>2. LastCycle(r) = {r}
    BY <1>10 DEF LastCycle
  <2>3. Visible(r) = Visible([m |-> t.m, c |-> t.c])
    BY <1>1, <1>4, <2>1 DEF Visible
  <2>4. Throws([m |-> t.m, c |-> t.c, threw |-> FALSE])
    BY <1>1, <2>1 DEF Throws, Current
  <2> QED BY <1>2, <1>8, <2>2, <2>3, <2>4 DEF Replayed
<1>11. CASE ~r.threw
  <2>1. r \in States /\ Alike(r.m) /\ Along(r.m) = Along(mem)
    BY AlongSame
  <2>2. PICK u \in Along(mem) : Cycle(r) = {u} /\ Follows(u, r)
    BY <2>1, QuietCycle
  <2>3. LastCycle(r) = {u}
    BY <1>11, <2>2 DEF LastCycle
  <2>4. Visible(u) = Visible(t)
    BY <1>1, <1>2, <1>3, <1>4, <2>2, AlikeStates
  <2>5. Visible(t) = Visible([m |-> t.m, c |-> t.c])
    BY DEF Visible
  <2>6. u.threw => Throws([m |-> t.m, c |-> t.c, threw |-> FALSE])
    <3> SUFFICES ASSUME u.threw PROVE Throws([m |-> t.m, c |-> t.c, threw |-> FALSE])
      OBVIOUS
    <3>1. Throws(now)
      BY <1>9, <1>11, <2>2 DEF Follows
    <3>2. t.m = mem /\ t.c.pos = c.pos
      BY <1>1, <1>2, <3>1 DEF Follows
    <3> QED BY <1>1, <3>1, <3>2 DEF Throws, Current
  <2> QED BY <1>2, <1>8, <2>3, <2>4, <2>5, <2>6 DEF Replayed
<1> QED BY <1>10, <1>11

(* The invariant about replays.                                             *)
Replays == HasSnapshots(m) /\ restored /\ Alike(m) /\ cpu # NoCpu => Replayed(m, cpu)

(* A CPU that was reset, or is new to data as they were loaded, is where a  *)
(* replay of no cycle comes to.                                             *)
LEMMA FreshIsReplayed ==
  ASSUME NEW mem \in Memories, HasSnapshots(mem), mem.content["data"] = mem.snap["data"]
  PROVE  Replayed(mem, Fresh)
<1>1. RunToCycle(mem, Fresh.cycle) = {Reset(mem)}
  BY DEF RunToCycle, Fresh
<1>2. /\ Reset(mem).c = Fresh /\ Reset(mem).threw = FALSE
      /\ Reset(mem).m.content = [mem.content EXCEPT !["data"] = mem.snap["data"]]
  BY ResetKeeps
<1>3. mem.content \in [Region -> Content] /\ "data" \in Region
  BY ConstantTypes DEF Memories, MemoryType
<1>4. Reset(mem).m.content = mem.content
  BY <1>2, <1>3
<1> QED BY <1>1, <1>2, <1>4 DEF Replayed, Visible

LEMMA ResetIsReplayed ==
  ASSUME NEW mem \in Memories, HasSnapshots(mem)
  PROVE  Replayed(Reset(mem).m, Fresh)
<1> DEFINE new == Reset(mem).m
<1>1. new \in Memories /\ new.snap = mem.snap
      /\ new.content = [mem.content EXCEPT !["data"] = mem.snap["data"]]
  BY ResetKeeps DEF States
<1>2. mem.content \in [Region -> Content] /\ "data" \in Region
  BY ConstantTypes DEF Memories, MemoryType
<1> HIDE DEF new
<1>3. new.content["data"] = new.snap["data"] /\ HasSnapshots(new)
  BY <1>1, <1>2 DEF HasSnapshots
<1> QED BY <1>1, <1>3, FreshIsReplayed DEF new

LEMMA StepReplays ==
  ASSUME Kept, Replays, [Next]_vars
  PROVE  Replays'
<1>0. m \in Memories /\ (cpu = NoCpu \/ cpu \in CpuType)
  BY DEF Kept
<1> SUFFICES ASSUME HasSnapshots(m'), restored', Alike(m'), cpu' # NoCpu
             PROVE  Replayed(m', cpu')
  BY DEF Replays
<1>1. ASSUME m' = m, cpu' = cpu, restored' = restored PROVE Replayed(m', cpu')
  BY <1>1 DEF Replays
<1>2. ASSUME NEW f \in File, Load(f) PROVE Replayed(m', cpu')
  <2> DEFINE r == LoadFile(f)
  <2>1. r.m \in Memories /\ r.loaded \in BOOLEAN
        /\ (r.loaded => HasSnapshots(r.m) \/ Source[f].state = "garbled")
    BY <1>0, LoadKeeps
  <2>2. CASE r.loaded /\ cpu # NoCpu /\ HasSnapshots(r.m)
    <3>1. m' = Reset(r.m).m /\ cpu' = Fresh
      <4>1. Become(Reset(r.m))
        BY <1>2, <2>2 DEF Load
      <4>2. Reset(r.m).c = Fresh
        BY <2>1, <2>2, ResetKeeps
      <4> QED BY <4>1, <4>2 DEF Become
    <3> QED BY <2>1, <2>2, <3>1, ResetIsReplayed
  <2>3. CASE ~(r.loaded /\ cpu # NoCpu /\ HasSnapshots(r.m))
    <3>1. m' = r.m /\ cpu' = cpu /\ restored' = restored
      BY <1>2, <2>3 DEF Load
    <3>2. ~r.loaded
      BY <2>3, <3>1
    <3>3. m' = m
      <4>1. Source[f].state = "missing"
        <5> HIDE DEF r
        <5>1. CASE Source[f].state \in {"garbled", "unresolved"}
          <6>1. r.m = Cleared(m)
            BY <5>1 DEF LoadFile, r
          <6>2. ~HasSnapshots(r.m)
            BY <1>0, <6>1, ClearedIsMemory DEF Memories
          <6> QED BY <3>1, <6>2
        <5>2. CASE Source[f].state = "complete"
          <6> DEFINE setup == SetupMemory(Cleared(m), f)
          <6>1. r.m = setup.m
            BY <5>2, <3>2 DEF LoadFile, r
          <6>2. setup.m.snap = Cleared(m).snap
            BY <1>0, EmptyTyped, SetupKeeps DEF Memories
          <6>3. Cleared(m).snap["text"] = NoSnapshot
            BY <1>0, EmptyTyped, ConstantTypes DEF Memories
          <6> HIDE DEF setup
          <6> QED BY <3>1, <6>1, <6>2, <6>3 DEF HasSnapshots
        <5> QED BY <5>1, <5>2, FileTypes DEF State
      <4> QED BY <3>1, <4>1 DEF LoadFile
    <3> QED BY <1>1, <3>1, <3>3
  <2> QED BY <2>2, <2>3
<1>3. CASE SetCpu
  <2>1. m' = m /\ cpu' = Fresh /\ m.content["data"] = m.snap["data"]
    BY <1>3 DEF SetCpu
  <2> QED BY <1>0, <2>1, FreshIsReplayed
<1>4. CASE SetFlexCpu
  BY <1>1, <1>4 DEF SetFlexCpu, Abort
<1>5. CASE NextCycle
  <2> DEFINE now == [m |-> m, c |-> cpu, threw |-> FALSE]
  <2>1. cpu \in CpuType /\ cpu.ready /\ restored' = restored /\ cpu # NoCpu
    BY <1>0, <1>5 DEF NextCycle, Ready
  <2>2. PICK s \in Cycle(now) : Become(s)
    BY <1>5 DEF NextCycle
  <2>3. now \in States
    BY <1>0, <2>1 DEF States
  <2>4. /\ s.m.snap = m.snap /\ s.m.content["text"] = m.content["text"]
    <3>1. "text" \in Region \ {"data"}
      BY ConstantTypes
    <3> QED BY <2>3, <3>1, CycleKeeps
  <2>5. m' = s.m /\ cpu' = s.c
    BY <2>2 DEF Become
  <2>6. HasSnapshots(m) /\ Alike(m)
    BY <2>4, <2>5 DEF HasSnapshots, Alike, Code
  <2>7. Replayed(m, cpu)
    BY <2>1, <2>6 DEF Replays
  <2> QED BY <1>0, <2>1, <2>2, <2>5, <2>6, <2>7, NextIsReplayed
<1>6. ASSUME NEW n \in Nat, GotoCycle(n) PROVE Replayed(m', cpu')
  <2>1. CASE ~HasSnapshots(m) /\ Abort
    BY <1>1, <2>1 DEF Abort
  <2>2. ASSUME HasSnapshots(m), NEW s \in RunToCycle(m, n), Become(s)
        PROVE  Replayed(m', cpu')
    <3>1. m' = s.m /\ cpu' = s.c
      BY <2>2 DEF Become
    <3>2. s \in States /\ s.m.content["text"] = m.content["text"]
      <4> DEFINE S == { x \in States : x.m.content["text"] = m.content["text"] }
      <4>1. "text" \in Region \ {"data"}
        BY ConstantTypes
      <4>2. \A x \in S : Cycle(x) \subseteq S
        BY <4>1, CycleKeeps
      <4>3. Reset(m) \in S
        <5>1. /\ Reset(m) \in States
              /\ Reset(m).m.content = [m.content EXCEPT !["data"] = m.snap["data"]]
          BY <1>0, <2>2, ResetKeeps
        <5>2. m.content \in [Region -> Content]
          BY <1>0 DEF Memories, MemoryType
        <5> QED BY <4>1, <5>1, <5>2
      <4> HIDE DEF S
      <4>4. s \in S
        BY <2>2, <4>2, <4>3, ReplayKeeps
      <4> QED BY <4>4 DEF S
    <3>3. Alike(m)
      BY <3>1, <3>2 DEF Alike, Code
    <3> QED BY <1>0, <2>2, <3>1, <3>3, GoneIsReplayed
  <2> QED BY <1>6, <2>1, <2>2 DEF GotoCycle
<1>7. CASE PrevCycle
  <2>1. cpu.cycle - 1 \in Nat
    BY <1>0, <1>7 DEF PrevCycle, CpuType
  <2> QED BY <1>6, <1>7, <2>1 DEF PrevCycle
<1>8. CASE ResetCpu
  <2>1. CASE ~HasSnapshots(m) /\ Abort
    BY <1>1, <2>1 DEF Abort
  <2>2. CASE HasSnapshots(m) /\ Become(Reset(m))
    <3>1. m' = Reset(m).m /\ cpu' = Fresh
      BY <1>0, <2>2, ResetKeeps DEF Become
    <3> QED BY <1>0, <2>2, <3>1, ResetIsReplayed
  <2> QED BY <1>8, <2>1, <2>2 DEF ResetCpu
<1>9. ASSUME NEW n \in 0 .. MaxCycle, GotoCycle(n) PROVE Replayed(m', cpu')
  BY <1>6, <1>9, SessionAssumption DEF SessionAssumption
<1>10. CASE UNCHANGED vars
  BY <1>1, <1>10 DEF vars
<1> QED BY <1>2, <1>3, <1>4, <1>5, <1>7, <1>8, <1>9, <1>10 DEF Next

(* Going to the cycle one is in changes nothing, for every program that     *)
(* neither reads nor asks for memory and however the session got there.     *)
THEOREM ReplayCorrect == Spec => []ReplayReproduces
<1>1. Init => Replays
  BY DEF Init, Replays
<1>2. Kept /\ Replays /\ [Next]_vars => Replays'
  BY StepReplays
<1>3. Replays => ReplayReproduces
  <2> SUFFICES ASSUME Replays, Ready, HasSnapshots(m), restored, Repeatable,
                      NEW s \in RunToCycle(m, cpu.cycle)
               PROVE  Visible(s) = Visible([m |-> m, c |-> cpu])
    BY DEF ReplayReproduces
  <2>1. Alike(m) /\ cpu # NoCpu
    BY DEF Alike, Repeatable, Ready
  <2>2. Replayed(m, cpu)
    BY <2>1 DEF Replays
  <2> QED BY <2>2 DEF Replayed
<1> QED BY <1>1, <1>2, <1>3, AlwaysKept, PTL DEF Spec

-----------------------------------------------------------------------------
(* The window shows a cycle the program comes to from its start.            *)
Shown(mem, c) ==
  \A s \in RunToCycle(mem, c.cycle) :
    ~s.threw /\ Visible(s) = Visible([m |-> mem, c |-> c, threw |-> FALSE])

(* What a handler may find after cycles it has run: it shows the state, or  *)
(* plays the cycle before, which does not throw.                            *)
Handles(s) ==
  /\ ~s.threw => Shown(s.m, s.c)
  /\ s.threw => /\ s.c.cycle # 0
                /\ \A r \in RunToCycle(s.m, s.c.cycle - 1) : ~r.threw

LEMMA ShownIsReplayed ==
  ASSUME NEW mem, NEW c, Shown(mem, c)
  PROVE  Replayed(mem, c)
BY DEF Shown, Replayed, Visible

LEMMA ReplayHandles ==
  ASSUME NEW mem \in Memories, HasSnapshots(mem), Alike(mem), NEW n \in Nat,
         NEW s \in RunToCycle(mem, n)
  PROVE  s \in Along(mem) /\ Handles(s)
<1>1. s \in Along(mem) /\ PlaysTo(mem, n, s)
  BY ReplayPlaysTo DEF PlaysTo
<1>2. s.c.cycle \in Nat
  BY <1>1, AlongSame DEF States, CpuType
<1>3. RunToCycle(s.m, s.c.cycle) = {s}
  BY <1>1, <1>2, ReplaySame DEF PlaysTo
<1>4. ~s.threw => Shown(s.m, s.c)
  BY <1>3 DEF Shown, Visible
<1>5. ASSUME s.threw
      PROVE  s.c.cycle # 0 /\ \A r \in RunToCycle(s.m, s.c.cycle - 1) : ~r.threw
  <2>1. s.c.cycle # 0 /\ \A r \in RunToCycle(mem, s.c.cycle - 1) : ~r.threw
    BY <1>1, <1>5 DEF PlaysTo
  <2>2. s.c.cycle - 1 \in Nat
    BY <1>2, <2>1
  <2> QED BY <1>1, <2>1, <2>2, ReplaySame
<1> QED BY <1>1, <1>4, <1>5 DEF Handles

LEMMA CycleHandles ==
  ASSUME NEW mem \in Memories, HasSnapshots(mem), Alike(mem), NEW c \in CpuType, c.ready,
         Shown(mem, c), NEW t \in Cycle([m |-> mem, c |-> c, threw |-> FALSE])
  PROVE  t \in Along(mem) /\ Handles(t)
<1> DEFINE now == [m |-> mem, c |-> c, threw |-> FALSE]
<1>1. now \in States /\ now \in Along(mem) /\ now.m = mem /\ now.c = c /\ ~now.threw
  BY DEF States, Along
<1> HIDE DEF now
<1>2. t \in Along(mem) /\ Replayed(t.m, t.c)
  BY ShownIsReplayed, NextIsReplayed
<1>3. Follows(t, now)
  BY <1>1, QuietCycle DEF now
<1>4. t.c.cycle = c.cycle + 1 /\ c.cycle \in Nat
  BY <1>1, <1>3 DEF Follows, CpuType
<1>5. CASE t.threw
  <2>1. t.c.cycle # 0 /\ t.c.cycle - 1 = c.cycle
    BY <1>4
  <2>2. RunToCycle(t.m, c.cycle) = RunToCycle(mem, c.cycle)
    BY <1>2, <1>4, ReplaySame
  <2>3. \A r \in RunToCycle(mem, c.cycle) : ~r.threw
    BY DEF Shown
  <2> QED BY <1>2, <1>5, <2>1, <2>2, <2>3 DEF Handles
<1>6. CASE ~t.threw
  <2>1. PICK r \in Along(mem) : PlaysTo(mem, c.cycle, r)
    BY <1>4, ReplayPlaysTo
  <2>2. ~r.threw /\ Visible(r) = Visible(now)
    BY <2>1 DEF PlaysTo, Shown, now
  <2>3. r.c.ready /\ r \in States /\ Alike(r.m) /\ Along(r.m) = Along(mem)
    BY <1>1, <2>1, <2>2, AlongSame DEF Visible
  <2>4. ~Throws(now) /\ Throws(r) = Throws(now)
    BY <1>1, <1>3, <1>6, <2>1, <2>2, AlikeStates DEF Follows
  <2>5. PICK u \in Along(mem) : Cycle(r) = {u} /\ Follows(u, r)
    BY <2>3, QuietCycle
  <2>6. RunToCycle(t.m, t.c.cycle) = {u}
    <3>1. Turns(Reset(mem), c.cycle) = {r}
      BY <2>1, <2>3 DEF PlaysTo
    <3>2. t.c.cycle \in Nat \ {0} /\ t.c.cycle - 1 = c.cycle
      BY <1>4
    <3>3. RunToCycle(mem, t.c.cycle) = LastCycle(r)
      BY <3>1, <3>2, ReplayOfOne
    <3> QED BY <1>2, <2>2, <2>5, <3>2, <3>3, ReplaySame DEF LastCycle
  <2>7. ~u.threw
    BY <2>2, <2>4, <2>5 DEF Follows
  <2>8. Visible(u) = Visible([m |-> t.m, c |-> t.c, threw |-> FALSE])
    BY <1>2, <2>6 DEF Replayed, Visible
  <2> QED BY <1>2, <1>6, <2>6, <2>7, <2>8 DEF Handles, Shown
<1> QED BY <1>5, <1>6

(* The run button: cycles until the program exits or throws.                *)
LEMMA RunHandles ==
  ASSUME NEW mem \in Memories, HasSnapshots(mem), Alike(mem), NEW c \in CpuType,
         Shown(mem, c), NEW n \in Nat, NEW t \in Turns([m |-> mem, c |-> c, threw |-> FALSE], n)
  PROVE  t \in Along(mem) /\ Handles(t)
<1> DEFINE S == { s \in Along(mem) : Handles(s) }
           now == [m |-> mem, c |-> c, threw |-> FALSE]
<1>1. now \in S
  BY DEF Along, States, Handles
<1>2. ASSUME NEW s \in S, NEW u \in Turn(s) PROVE u \in S
  <2>1. CASE s.threw \/ ~s.c.ready
    BY <1>2, <2>1 DEF Turn
  <2>2. CASE ~(s.threw \/ ~s.c.ready)
    <3>1. s.m \in Memories /\ HasSnapshots(s.m) /\ Alike(s.m) /\ s.c \in CpuType
          /\ Along(s.m) = Along(mem)
      BY AlongSame DEF States
    <3>2. Shown(s.m, s.c)
      BY <2>2 DEF Handles
    <3>3. s = [m |-> s.m, c |-> s.c, threw |-> FALSE]
      <4>1. s \in States
        BY AlongSame
      <4> QED BY <2>2, <4>1 DEF States
    <3>4. u \in Cycle([m |-> s.m, c |-> s.c, threw |-> FALSE])
      BY <1>2, <2>2, <3>3 DEF Turn
    <3> QED BY <2>2, <3>1, <3>2, <3>4, CycleHandles
  <2> QED BY <2>1, <2>2
<1> HIDE DEF S, now
<1>3. \A s \in S : Turn(s) \subseteq S
  BY <1>2
<1>4. t \in S
  BY <1>1, <1>3, TurnsKeep DEF now
<1> QED BY <1>4 DEF S

-----------------------------------------------------------------------------
(* The states cycles lead to, from the memory mem: of the same program, with*)
(* the same snapshots, and not at the start when one has thrown.            *)
Ran(mem) ==
  { s \in States : /\ s.m.snap = mem.snap /\ s.m.content["text"] = mem.content["text"]
                   /\ s.threw => s.c.cycle # 0
                   /\ Fetchable(mem) => Fetchable(s.m) }

LEMMA RanSame ==
  ASSUME NEW mem \in Memories, NEW s \in Ran(mem)
  PROVE  /\ s \in States /\ s.m \in Memories /\ s.c \in CpuType
         /\ HasSnapshots(s.m) = HasSnapshots(mem) /\ Alike(s.m) = Alike(mem)
         /\ Ran(s.m) \subseteq Ran(mem)
<1>1. s \in States /\ s.m \in Memories /\ s.c \in CpuType
  BY DEF Ran, States
<1>2. HasSnapshots(s.m) = HasSnapshots(mem)
  BY DEF Ran, HasSnapshots
<1>3. Alike(s.m) = Alike(mem)
  BY DEF Ran, Alike, Code
<1>4. Ran(s.m) \subseteq Ran(mem)
  BY DEF Ran
<1> QED BY <1>1, <1>2, <1>3, <1>4

LEMMA CycleRuns ==
  ASSUME NEW mem \in Memories, NEW s \in Ran(mem), NEW t \in Cycle(s)
  PROVE  t \in Ran(mem)
<1>1. s \in States /\ s.c.cycle \in Nat
  BY RanSame DEF CpuType
<1>2. "text" \in Region \ {"data"}
  BY ConstantTypes
<1>3. /\ t \in States /\ (Fetchable(s.m) => Fetchable(t.m)) /\ t.c.cycle = s.c.cycle + 1
      /\ t.m.snap = s.m.snap /\ t.m.content["text"] = s.m.content["text"]
  BY <1>1, <1>2, CycleKeeps
<1> QED BY <1>1, <1>3 DEF Ran

LEMMA TurnsRun ==
  ASSUME NEW mem \in Memories, NEW s \in Ran(mem), NEW n \in Nat
  PROVE  Turns(s, n) \subseteq Ran(mem)
<1> DEFINE S == Ran(mem)
<1>1. \A x \in S : Turn(x) \subseteq S
  BY CycleRuns DEF Turn
<1> HIDE DEF S
<1>2. s \in S
  BY DEF S
<1>3. Turns(s, n) \subseteq S
  BY <1>1, <1>2, TurnsKeep
<1> QED BY <1>3 DEF S

LEMMA ReplayRuns ==
  ASSUME NEW mem \in Memories, HasSnapshots(mem), NEW n \in Nat
  PROVE  RunToCycle(mem, n) \subseteq Ran(mem)
<1> DEFINE S == Ran(mem)
<1>1. Reset(mem) \in Ran(mem)
  <2>1. /\ Reset(mem) \in States /\ (Fetchable(mem) => Fetchable(Reset(mem).m))
        /\ Reset(mem).threw = FALSE /\ Reset(mem).m.snap = mem.snap
        /\ Reset(mem).m.content = [mem.content EXCEPT !["data"] = mem.snap["data"]]
    BY ResetKeeps
  <2>2. Reset(mem).m.content["text"] = mem.content["text"]
    BY <2>1, ConstantTypes DEF Memories, MemoryType
  <2> QED BY <2>1, <2>2 DEF Ran
<1>2. \A x \in S : Cycle(x) \subseteq S
  BY CycleRuns
<1> HIDE DEF S
<1>3. Reset(mem) \in S
  BY <1>1 DEF S
<1>4. RunToCycle(mem, n) \subseteq S
  BY <1>2, <1>3, ReplayKeeps
<1> QED BY <1>4 DEF S

-----------------------------------------------------------------------------
(* The types, of the variables of Session too.                              *)
InterfaceKept ==
  /\ Kept
  /\ mode \in {"cli", "gui", "done"} \cup Batch
  /\ enabled \in [{"prev", "next", "reset"} -> BOOLEAN]
  /\ status \in Setting /\ dialog \in Setting /\ ranUnder \subseteq Setting
  /\ mode = "gui" => /\ cpu \in CpuType /\ restored = TRUE
                     /\ enabled["prev"] => cpu.cycle # 0
  /\ mode = "asm" => cpu = NoCpu
  /\ mode \in Batch /\ cpu # NoCpu => cpu.ready

(* With a file loaded there are snapshots, and the window shows a cycle.    *)
WindowKept ==
  mode = "gui" /\ fileLoaded =>
    /\ HasSnapshots(m)
    /\ enabled = Labels(TRUE, cpu)
    /\ ranUnder \subseteq {status}
    /\ Alike(m) => alive /\ Shown(m, cpu)

LEMMA LabelsTyped ==
  ASSUME NEW loaded \in BOOLEAN, NEW c \in CpuType
  PROVE  /\ Labels(loaded, c) \in [{"prev", "next", "reset"} -> BOOLEAN]
         /\ Labels(loaded, c)["prev"] => c.cycle # 0
         /\ Labels(TRUE, c)["next"] = c.ready
<1>1. c.cycle \in Nat /\ c.ready \in BOOLEAN
  BY DEF CpuType
<1> DEFINE p == loaded /\ c.cycle > 0
           n == loaded /\ c.ready
<1>2. p \in BOOLEAN /\ n \in BOOLEAN
  OBVIOUS
<1>3. Labels(loaded, c) = [prev |-> p, next |-> n, reset |-> loaded]
  BY DEF Labels
<1>4. p => c.cycle # 0
  BY <1>1
<1> HIDE DEF p, n
<1>5. [prev |-> p, next |-> n, reset |-> loaded] \in [{"prev", "next", "reset"} -> BOOLEAN]
  BY <1>2
<1>6. Labels(TRUE, c)["next"] = c.ready
  BY <1>1 DEF Labels
<1> QED BY <1>3, <1>4, <1>5, <1>6

LEMMA NowRuns ==
  ASSUME InterfaceKept, mode = "gui"
  PROVE  Now \in Ran(m) /\ m \in Memories
BY DEF InterfaceKept, Kept, Now, Ran, States

(* The window shows a state that cycles have led to.                        *)
LEMMA ShowKeeps ==
  ASSUME InterfaceKept, mode = "gui", alive, NEW s \in Ran(m), NEW under, Show(s, under),
         under \subseteq Setting, status' \in Setting, dialog' \in Setting
  PROVE  /\ InterfaceKept' /\ (Fetchable(m) => Fetchable(m'))
         /\ WindowKept /\ under \subseteq {status'} /\ (Alike(m) => Shown(s.m, s.c)) => WindowKept'
<1>1. m \in Memories /\ fileLoaded \in BOOLEAN
  BY DEF InterfaceKept, Kept
<1>2. /\ s.m \in Memories /\ s.c \in CpuType
      /\ HasSnapshots(s.m) = HasSnapshots(m) /\ Alike(s.m) = Alike(m)
      /\ Fetchable(m) => Fetchable(s.m)
  BY <1>1, RanSame DEF Ran
<1>3. /\ m' = s.m /\ cpu' = s.c /\ enabled' = Labels(fileLoaded, s.c) /\ ranUnder' = under
      /\ fileLoaded' = fileLoaded /\ alive' = alive /\ restored' = restored /\ mode' = mode
  BY DEF Show, Become
<1>4. /\ enabled' \in [{"prev", "next", "reset"} -> BOOLEAN]
      /\ enabled'["prev"] => cpu'.cycle # 0
  BY <1>1, <1>2, <1>3, LabelsTyped
<1>5. InterfaceKept'
  BY <1>2, <1>3, <1>4 DEF InterfaceKept, Kept, Batch
<1>6. ASSUME WindowKept, under \subseteq {status'}, Alike(m) => Shown(s.m, s.c)
      PROVE  WindowKept'
  BY <1>1, <1>2, <1>3, <1>6 DEF WindowKept
<1> QED BY <1>2, <1>3, <1>5, <1>6

(* An exception is handled.                                                 *)
CanHandle(s, under) == /\ WindowKept
                       /\ fileLoaded => under \subseteq {status}
                       /\ fileLoaded /\ Alike(m) => Handles(s)

LEMMA HandledKeeps ==
  ASSUME InterfaceKept, mode = "gui", alive, NEW s \in Ran(m), NEW under, Handled(s, under),
         under \subseteq Setting, UNCHANGED <<status, dialog>>
  PROVE  /\ InterfaceKept' /\ (Fetchable(m) => Fetchable(m'))
         /\ CanHandle(s, under) => WindowKept'
<1>1. m \in Memories /\ fileLoaded \in BOOLEAN /\ status \in Setting /\ dialog \in Setting
  BY DEF InterfaceKept, Kept
<1>2. s.m \in Memories /\ HasSnapshots(s.m) = HasSnapshots(m) /\ Alike(s.m) = Alike(m)
      /\ Ran(s.m) \subseteq Ran(m) /\ s.c.cycle \in Nat
  BY <1>1, RanSame DEF CpuType
<1>3. ASSUME GuiEnds PROVE InterfaceKept' /\ m' = m
  <2>1. UNCHANGED <<m, cpu, fileLoaded, restored, mode, enabled, ranUnder>> /\ alive' = FALSE
    BY <1>3 DEF GuiEnds, Abort
  <2> QED BY <2>1 DEF InterfaceKept, Kept
<1>4. CASE ~s.threw /\ Show(s, under)
  <2>1. InterfaceKept' /\ (Fetchable(m) => Fetchable(m'))
    BY <1>1, <1>4, ShowKeeps
  <2>2. ASSUME CanHandle(s, under) PROVE WindowKept'
    <3>1. CASE fileLoaded
      <4>1. /\ WindowKept /\ under \subseteq {status'} /\ (Alike(m) => Shown(s.m, s.c))
        BY <1>4, <2>2, <3>1 DEF CanHandle, Handles
      <4> QED BY <1>1, <1>4, <4>1, ShowKeeps
    <3>2. CASE ~fileLoaded
      BY <1>4, <3>2 DEF Show, WindowKept
    <3> QED BY <3>1, <3>2
  <2> QED BY <2>1, <2>2
<1>5. CASE s.threw /\ ~HasSnapshots(s.m) /\ GuiEnds
  <2>1. InterfaceKept' /\ m' = m
    BY <1>3, <1>5
  <2>2. WindowKept => WindowKept'
    BY <1>2, <1>5 DEF WindowKept, GuiEnds, Abort
  <2> QED BY <2>1, <2>2 DEF CanHandle
<1>6. ASSUME s.threw, NEW t \in RunToCycle(s.m, Before(s)), t.threw, GuiEnds
      PROVE  InterfaceKept' /\ m' = m /\ (CanHandle(s, under) => WindowKept')
  <2>1. InterfaceKept' /\ m' = m
    BY <1>3, <1>6
  <2>2. CanHandle(s, under) /\ fileLoaded => ~Alike(m)
    BY <1>6 DEF CanHandle, Handles, Before
  <2>3. CanHandle(s, under) => WindowKept'
    BY <1>6, <2>2 DEF CanHandle, WindowKept, GuiEnds, Abort
  <2> QED BY <2>1, <2>3
<1>7. ASSUME s.threw, HasSnapshots(s.m), NEW t \in RunToCycle(s.m, Before(s)), ~t.threw,
             Show(t, {status})
      PROVE  InterfaceKept' /\ (Fetchable(m) => Fetchable(m')) /\ (CanHandle(s, under) => WindowKept')
  <2>1. Before(s) \in Nat
    <3>1. s.c.cycle # 0
      BY <1>7 DEF Ran
    <3> QED BY <1>2, <3>1 DEF Before
  <2>2. t \in Ran(m)
    BY <1>2, <1>7, <2>1, ReplayRuns
  <2>3. {status} \subseteq Setting /\ {status} \subseteq {status'} /\ status' \in Setting /\ dialog' \in Setting
    BY <1>1
  <2>4. InterfaceKept' /\ (Fetchable(m) => Fetchable(m'))
    BY <1>7, <2>2, <2>3, ShowKeeps
  <2>5. ASSUME CanHandle(s, under) PROVE WindowKept'
    <3>1. CASE fileLoaded
      <4>1. Alike(m) => Shown(t.m, t.c)
        BY <1>2, <1>7, <2>1, ReplayHandles DEF Handles
      <4> QED BY <1>7, <2>2, <2>3, <2>5, <4>1, ShowKeeps DEF CanHandle
    <3>2. CASE ~fileLoaded
      BY <1>7, <3>2 DEF Show, WindowKept
    <3> QED BY <1>1, <3>1, <3>2
  <2> QED BY <2>4, <2>5
<1> QED BY <1>4, <1>5, <1>6, <1>7 DEF Handled, HandleException

-----------------------------------------------------------------------------
(* What every step keeps.                                                   *)
KeptByStep == /\ InterfaceKept'
              /\ Fetchable(m) /\ mode # "runhex" => Fetchable(m')
              /\ WindowKept => WindowKept'

(* The buttons.  What is clicked was enabled for what the window shows.     *)
LEMMA ClickedReady ==
  ASSUME InterfaceKept, WindowKept, Click("next"), fileLoaded
  PROVE  cpu.ready /\ HasSnapshots(m) /\ ranUnder \cup {status} \subseteq {status}
<1>1. cpu \in CpuType
  BY DEF InterfaceKept, Click
<1>2. enabled = Labels(TRUE, cpu) /\ enabled["next"]
  BY DEF WindowKept, Click
<1> QED BY <1>1, <1>2, LabelsTyped DEF WindowKept, Click

LEMMA NextClickedKeeps == ASSUME InterfaceKept, NextClicked PROVE KeptByStep
<1>1. Click("next") /\ mode = "gui" /\ alive /\ UNCHANGED <<status, dialog>>
  BY DEF NextClicked, Click
<1>2. PICK s \in Cycle(Now) : Handled(s, ranUnder \cup {status})
  BY DEF NextClicked
<1>3. s \in Ran(m) /\ m \in Memories /\ cpu \in CpuType
  BY <1>1, NowRuns, CycleRuns DEF InterfaceKept
<1>4. ranUnder \cup {status} \subseteq Setting
  BY DEF InterfaceKept
<1>5. ASSUME WindowKept PROVE CanHandle(s, ranUnder \cup {status})
  <2>1. ASSUME fileLoaded, Alike(m) PROVE Handles(s)
    <3>1. cpu.ready /\ HasSnapshots(m) /\ Shown(m, cpu)
      BY <1>1, <1>5, <2>1, ClickedReady DEF WindowKept
    <3>2. s \in Cycle([m |-> m, c |-> cpu, threw |-> FALSE])
      BY DEF Now
    <3> QED BY <1>3, <2>1, <3>1, <3>2, CycleHandles
  <2>2. fileLoaded => ranUnder \cup {status} \subseteq {status}
    BY <1>1, <1>5, ClickedReady
  <2> QED BY <1>5, <2>1, <2>2 DEF CanHandle
<1> QED BY <1>1, <1>2, <1>3, <1>4, <1>5, HandledKeeps DEF KeptByStep

LEMMA RunClickedKeeps == ASSUME InterfaceKept, RunClicked PROVE KeptByStep
<1>1. Click("next") /\ mode = "gui" /\ alive /\ UNCHANGED <<status, dialog>>
  BY DEF RunClicked, Click
<1>2. PICK s \in RunOn(Now) : Handled(s, ranUnder \cup {status})
  BY DEF RunClicked
<1>3. m \in Memories /\ cpu \in CpuType /\ Now \in Ran(m)
  BY <1>1, NowRuns DEF InterfaceKept
<1>4. /\ Len(Code(m)) + 3 \in Nat
      /\ s \in Turns([m |-> m, c |-> cpu, threw |-> FALSE], Len(Code(m)) + 3)
  <2>1. Code(m) \in Seq(Effect)
    BY <1>3, FileTypes DEF Memories, TextIsProgram, Code
  <2> QED BY <2>1, <1>2 DEF RunOn, Now
<1>5. s \in Ran(m)
  BY <1>3, <1>4, TurnsRun DEF Now
<1>6. ranUnder \cup {status} \subseteq Setting
  BY DEF InterfaceKept
<1>7. ASSUME WindowKept PROVE CanHandle(s, ranUnder \cup {status})
  <2>1. ASSUME fileLoaded, Alike(m) PROVE Handles(s)
    <3>1. HasSnapshots(m) /\ Shown(m, cpu)
      BY <1>1, <1>7, <2>1 DEF WindowKept
    <3> QED BY <1>3, <1>4, <2>1, <3>1, RunHandles
  <2>2. fileLoaded => ranUnder \cup {status} \subseteq {status}
    BY <1>1, <1>7, ClickedReady
  <2> QED BY <1>7, <2>1, <2>2 DEF CanHandle
<1> QED BY <1>1, <1>2, <1>5, <1>6, <1>7, HandledKeeps DEF KeptByStep

(* Nothing but the end of the program: the memory is as it was.             *)
LEMMA EndKeeps ==
  ASSUME InterfaceKept, mode = "gui", GuiEnds, status' \in Setting, dialog' \in Setting,
         WindowKept => ~fileLoaded
  PROVE  KeptByStep
BY DEF InterfaceKept, Kept, WindowKept, GuiEnds, Abort, KeptByStep

LEMMA PrevClickedKeeps == ASSUME InterfaceKept, PrevClicked PROVE KeptByStep
<1>1. /\ Click("prev") /\ mode = "gui" /\ alive /\ UNCHANGED <<status, dialog>>
      /\ m \in Memories /\ cpu \in CpuType /\ cpu.cycle # 0
      /\ status \in Setting /\ dialog \in Setting
  BY DEF PrevClicked, Click, InterfaceKept, Kept
<1>2. cpu.cycle - 1 \in Nat
  BY <1>1 DEF CpuType
<1>3. CASE ~HasSnapshots(m) /\ GuiEnds
  BY <1>1, <1>3, EndKeeps DEF WindowKept
<1>4. ASSUME HasSnapshots(m), NEW s \in RunToCycle(m, cpu.cycle - 1), Handled(s, {status})
      PROVE  KeptByStep
  <2>1. s \in Ran(m)
    BY <1>1, <1>2, <1>4, ReplayRuns
  <2>2. Alike(m) => Handles(s)
    BY <1>1, <1>2, <1>4, ReplayHandles
  <2>3. WindowKept => CanHandle(s, {status})
    BY <2>2 DEF CanHandle
  <2> QED BY <1>1, <1>4, <2>1, <2>3, HandledKeeps DEF KeptByStep
<1> QED BY <1>3, <1>4 DEF PrevClicked

LEMMA ResetShownKeeps ==
  ASSUME InterfaceKept, mode = "gui", alive, ResetShown, status' \in Setting, dialog' \in Setting
  PROVE  KeptByStep
<1>1. m \in Memories /\ fileLoaded \in BOOLEAN
  BY DEF InterfaceKept, Kept
<1>2. CASE ~HasSnapshots(m) /\ GuiEnds
  BY <1>2, EndKeeps DEF WindowKept
<1>3. CASE HasSnapshots(m) /\ Show(Reset(m), {})
  <2>1. RunToCycle(m, 0) = {Reset(m)}
    BY DEF RunToCycle
  <2>2. Reset(m) \in Ran(m)
    BY <1>1, <1>3, <2>1, ReplayRuns
  <2>3. Alike(m) => Shown(Reset(m).m, Reset(m).c)
    BY <1>1, <1>3, <2>1, ReplayHandles, ResetStarts DEF Handles
  <2> QED BY <1>3, <2>2, <2>3, ShowKeeps DEF KeptByStep
<1> QED BY <1>2, <1>3 DEF ResetShown

LEMMA LoadTriggeredKeeps ==
  ASSUME InterfaceKept, NEW f \in File, LoadTriggered(f)
  PROVE  KeptByStep
<1> DEFINE r == WindowLoads(f)
<1>1. /\ mode = "gui" /\ alive /\ m \in Memories
      /\ UNCHANGED <<alive, mode, status, dialog>>
  BY DEF LoadTriggered, InterfaceKept, Kept
<1>2. /\ r.m \in Memories /\ r.loaded \in BOOLEAN /\ (Fetchable(m) => Fetchable(r.m))
      /\ r.loaded => HasSnapshots(r.m)
  <2>1. /\ r.m = LoadFile(f).m
        /\ r.loaded = (LoadFile(f).loaded /\ Source[f].state # "garbled")
    <3>1. LoadFile(f) = [m |-> LoadFile(f).m, loaded |-> LoadFile(f).loaded]
      BY DEF LoadFile
    <3> QED BY <3>1 DEF WindowLoads
  <2> QED BY <1>1, <2>1, LoadKeeps
<1> HIDE DEF r
<1>3. CASE r.loaded
  <2>1. /\ Become(Reset(r.m)) /\ restored' = TRUE /\ fileLoaded' = TRUE
        /\ enabled' = Labels(TRUE, Fresh) /\ ranUnder' = {}
    BY <1>2, <1>3 DEF LoadTriggered, r
  <2>2. /\ Reset(r.m) \in States /\ Reset(r.m).c = Fresh /\ Reset(r.m).threw = FALSE
        /\ HasSnapshots(Reset(r.m).m) /\ (Fetchable(r.m) => Fetchable(Reset(r.m).m))
    BY <1>2, <1>3, ResetKeeps DEF HasSnapshots
  <2>3. m' = Reset(r.m).m /\ cpu' = Fresh /\ m' \in Memories /\ cpu' \in CpuType
    BY <2>1, <2>2 DEF Become, States
  <2>4. enabled' \in [{"prev", "next", "reset"} -> BOOLEAN] /\ (enabled'["prev"] => cpu'.cycle # 0)
    BY <2>1, <2>3, LabelsTyped
  <2>5. InterfaceKept'
    BY <1>1, <2>1, <2>3, <2>4 DEF InterfaceKept, Kept, Batch
  <2>6. Alike(m') => Shown(m', cpu')
    <3>1. Reset(r.m) \in RunToCycle(r.m, 0)
      BY DEF RunToCycle
    <3>2. Alike(m') = Alike(r.m)
      <4>1. Reset(r.m) \in Ran(r.m)
        BY <1>2, <1>3, <3>1, ReplayRuns
      <4> QED BY <1>2, <2>3, <4>1, RanSame
    <3> QED BY <1>2, <1>3, <2>2, <2>3, <3>1, <3>2, ReplayHandles DEF Handles
  <2>7. WindowKept'
    BY <1>1, <2>1, <2>2, <2>3, <2>6 DEF WindowKept
  <2> QED BY <1>2, <2>2, <2>3, <2>5, <2>7 DEF KeptByStep
<1>4. CASE ~r.loaded
  <2>1. m' = r.m /\ fileLoaded' = FALSE /\ UNCHANGED <<cpu, enabled, restored, ranUnder>>
    BY <1>2, <1>4 DEF LoadTriggered, r
  <2>2. InterfaceKept'
    BY <1>1, <1>2, <2>1 DEF InterfaceKept, Kept
  <2> QED BY <1>2, <2>1, <2>2 DEF KeptByStep, WindowKept
<1> QED BY <1>2, <1>3, <1>4

LEMMA WindowKeeps == ASSUME InterfaceKept, Window PROVE KeptByStep
<1>1. CASE ResetClicked
  <2>1. mode = "gui" /\ alive /\ ResetShown /\ UNCHANGED <<status, dialog>>
    BY <1>1 DEF ResetClicked, Click
  <2> QED BY <2>1, ResetShownKeeps DEF InterfaceKept
<1>2. ASSUME NEW new \in Setting, SettingsAccepted(new) PROVE KeptByStep
  <2>1. mode = "gui" /\ alive /\ ResetShown /\ status' = new /\ dialog' = new
    BY <1>2 DEF SettingsAccepted, SetStatus, Click
  <2> QED BY <2>1, ResetShownKeeps
<1>3. ASSUME NEW new \in Setting, SettingsCancelled(new) PROVE KeptByStep
  <2>1. dialog' = new /\ UNCHANGED <<m, cpu, fileLoaded, alive, restored, mode, enabled, status, ranUnder>>
    BY <1>3 DEF SettingsCancelled, vars
  <2> QED BY <2>1 DEF InterfaceKept, Kept, WindowKept, KeptByStep
<1> QED BY <1>1, <1>2, <1>3, NextClickedKeeps, RunClickedKeeps, PrevClickedKeeps,
           LoadTriggeredKeeps DEF Window

-----------------------------------------------------------------------------
(* The batch modes.                                                         *)
LEMMA AssembledKeeps ==
  ASSUME InterfaceKept, NEW f \in File
  PROVE  LET r == Assembled(f)
         IN  /\ r.threw => r.m \in Memories /\ Fetchable(r.m)
             /\ ~r.threw => /\ r.m \in MemoryType /\ r.m.content["text"] \in File
                            /\ ~HasSnapshots(r.m)
                            /\ \A k \in 0 .. Len(Code(r.m)) + 1 : Accessible(r.m, FetchAddr(k))
<1>1. m \in MemoryType
  BY DEF InterfaceKept, Kept, Memories
<1> DEFINE cleared == Cleared(m)
           setup == SetupMemory(cleared, f)
<1>2. /\ cleared \in MemoryType /\ cleared \in Memories /\ Fetchable(cleared)
      /\ cleared.content = [r \in Region |-> Zero]
      /\ cleared.snap = [r \in Region |-> NoSnapshot]
  BY <1>1, EmptyTyped, ClearedIsMemory
<1> HIDE DEF cleared
<1>3. CASE Source[f].state = "complete"
  <2>1. Assembled(f) = setup
    BY <1>3 DEF Assembled, cleared
  <2>2. /\ setup.m \in MemoryType /\ setup.m.snap = cleared.snap
        /\ setup.threw => setup.m \in Memories /\ Fetchable(setup.m)
        /\ ~setup.threw => /\ setup.m.content["text"] = f
                           /\ \A k \in 0 .. Len(Source[f].code) + 1 :
                                 Accessible(setup.m, FetchAddr(k))
    BY <1>2, SetupKeeps
  <2> HIDE DEF setup
  <2>3. ~HasSnapshots(setup.m)
    BY <1>2, <2>2, ConstantTypes DEF HasSnapshots
  <2>4. ~setup.threw => Code(setup.m) = Source[f].code
    BY <2>2, FileTypes DEF Code
  <2> QED BY <2>1, <2>2, <2>3, <2>4
<1>4. CASE Source[f].state # "complete"
  <2>1. Assembled(f) = [m |-> cleared, threw |-> TRUE]
    BY <1>4 DEF Assembled, cleared
  <2> QED BY <1>2, <2>1
<1> QED BY <1>3, <1>4

LEMMA BatchEndsKeeps ==
  ASSUME InterfaceKept, mode \in Batch, NEW mem \in Memories, BatchEnds(mem),
         Fetchable(m) /\ mode # "runhex" => Fetchable(mem)
  PROVE  KeptByStep
BY DEF InterfaceKept, Kept, Batch, BatchEnds, window, KeptByStep, WindowKept

LEMMA BatchStartsKeeps ==
  ASSUME InterfaceKept, mode \in {"run", "runhex"}, NEW mem \in MemoryType, mem.content["text"] \in File,
         BatchStarts(mem),
         mode # "runhex" => \A k \in 0 .. Len(Code(mem)) + 1 : Accessible(mem, FetchAddr(k))
  PROVE  KeptByStep /\ Replayed(m', cpu')
<1> DEFINE new == Snap(Snap(mem, "text"), "data")
<1>1. /\ new \in Memories /\ HasSnapshots(new) /\ new.content["data"] = new.snap["data"]
      /\ mode # "runhex" => Fetchable(new)
  BY SnappedIsMemory
<1>2. /\ m' = new /\ cpu' = Fresh /\ fileLoaded' = TRUE /\ restored' = TRUE
      /\ UNCHANGED <<alive, mode, enabled, status, dialog, ranUnder>>
  BY DEF BatchStarts, window
<1> HIDE DEF new
<1>3. Fresh \in CpuType /\ Fresh.ready
  BY DEF Fresh, CpuType
<1>4. InterfaceKept'
  BY <1>1, <1>2, <1>3 DEF InterfaceKept, Kept, Batch
<1>5. Replayed(m', cpu')
  BY <1>1, <1>2, FreshIsReplayed
<1> QED BY <1>1, <1>2, <1>4, <1>5 DEF KeptByStep, WindowKept

(* A batch run is, in the end, where a replay comes to.                     *)
LEMMA RunBatchKeeps ==
  ASSUME InterfaceKept, RunBatch
  PROVE  KeptByStep /\ (Replays => Replays')
<1>0. m \in Memories /\ m \in MemoryType /\ (cpu = NoCpu \/ cpu \in CpuType)
  BY DEF InterfaceKept, Kept, Memories
<1>1. ASSUME cpu = NoCpu, cpu' = cpu PROVE Replays'
  BY <1>1 DEF Replays
<1>2. ASSUME NEW f \in File, RunFile(f) PROVE KeptByStep /\ Replays'
  <2>1. CASE Assembled(f).threw /\ BatchEnds(Assembled(f).m)
    BY <1>1, <1>2, <2>1, AssembledKeeps, BatchEndsKeeps DEF RunFile, Batch, BatchEnds
  <2>2. CASE ~Assembled(f).threw /\ BatchStarts(Assembled(f).m)
    BY <1>2, <2>2, AssembledKeeps, BatchStartsKeeps DEF RunFile, Replays
  <2> QED BY <1>2, <2>1, <2>2 DEF RunFile
<1>3. ASSUME NEW f \in File, RunHexFile(f) PROVE KeptByStep /\ Replays'
  <2>1. CASE BatchEnds(m)
    BY <1>0, <1>1, <1>3, <2>1, BatchEndsKeeps DEF RunHexFile, Batch, BatchEnds
  <2>2. CASE BatchStarts(Write(m, "text", f))
    <3> DEFINE mem == Write(m, "text", f)
    <3>1. mem \in MemoryType /\ mem.content["text"] \in File
      <4>1. "text" \in Region /\ f \in Content
        BY ConstantTypes, FileTypes
      <4>2. mem \in MemoryType /\ mem.content = [m.content EXCEPT !["text"] = f]
        BY <1>0, <4>1, WriteTyped
      <4> HIDE DEF mem
      <4> QED BY <1>0, <4>1, <4>2 DEF MemoryType
    <3> HIDE DEF mem
    <3> QED BY <1>3, <2>2, <3>1, BatchStartsKeeps DEF RunHexFile, Replays, mem
  <2> QED BY <1>3, <2>1, <2>2 DEF RunHexFile
<1>4. ASSUME NEW f \in File, AssembleFile(f) PROVE KeptByStep /\ Replays'
  <2>1. mode = "asm" /\ BatchEnds(Assembled(f).m) /\ cpu = NoCpu /\ cpu' = cpu
    BY <1>4 DEF AssembleFile, InterfaceKept, BatchEnds
  <2>2. Assembled(f).m \in Memories /\ Fetchable(Assembled(f).m)
    <3>1. CASE Assembled(f).threw
      BY <3>1, AssembledKeeps
    <3>2. CASE ~Assembled(f).threw
      <4> DEFINE mem == Assembled(f).m
      <4>1. mem \in MemoryType /\ mem.content["text"] \in File /\ ~HasSnapshots(mem)
        BY <3>2, AssembledKeeps
      <4> HIDE DEF mem
      <4>2. mem \in Memories /\ Fetchable(mem)
        BY <4>1, NoneToKeep DEF Memories, TextIsProgram
      <4> QED BY <4>2 DEF mem
    <3> QED BY <3>1, <3>2
  <2> QED BY <1>1, <2>1, <2>2, BatchEndsKeeps DEF Batch
<1>5. CASE BatchCycle
  <2>1. mode \in Batch /\ cpu \in CpuType /\ cpu # NoCpu /\ cpu.ready
        /\ UNCHANGED <<fileLoaded, alive, restored, enabled, status, dialog, ranUnder>>
    BY <1>0, <1>5 DEF BatchCycle, InterfaceKept, window
  <2>2. PICK s \in Cycle(Now) : /\ Become(s)
                                /\ mode' = IF s.threw \/ ~s.c.ready THEN "done" ELSE mode
    BY <1>5 DEF BatchCycle
  <2>3. Now \in States /\ Now \in Ran(m)
    BY <1>0, <2>1 DEF Now, Ran, States
  <2>4. /\ s.m \in Memories /\ s.c \in CpuType
        /\ HasSnapshots(s.m) = HasSnapshots(m) /\ Alike(s.m) = Alike(m)
        /\ Fetchable(m) => Fetchable(s.m)
    BY <1>0, <2>3, CycleRuns, RanSame DEF Ran
  <2>5. m' = s.m /\ cpu' = s.c
    BY <2>2 DEF Become
  <2>6. InterfaceKept'
    <3>1. mode' \in {mode, "done"} /\ (mode' # "done" => cpu'.ready) /\ mode # "gui"
      BY <2>1, <2>2, <2>5 DEF Batch
    <3>2. mode = "asm" => cpu = NoCpu
      BY DEF InterfaceKept
    <3> QED BY <2>1, <2>4, <2>5, <3>1, <3>2 DEF InterfaceKept, Kept, Batch
  <2>7. KeptByStep
    BY <2>1, <2>2, <2>4, <2>5, <2>6 DEF KeptByStep, WindowKept, Batch
  <2>8. ASSUME Replays PROVE Replays'
    <3> SUFFICES ASSUME HasSnapshots(m'), restored', Alike(m') PROVE Replayed(m', cpu')
      BY DEF Replays
    <3>1. Replayed(m, cpu)
      BY <2>1, <2>4, <2>5, <2>8 DEF Replays
    <3>2. s \in Cycle([m |-> m, c |-> cpu, threw |-> FALSE])
      BY DEF Now
    <3> QED BY <1>0, <2>1, <2>4, <2>5, <3>1, <3>2, NextIsReplayed
  <2> QED BY <2>7, <2>8
<1> QED BY <1>2, <1>3, <1>4, <1>5 DEF RunBatch

-----------------------------------------------------------------------------
(* The invariant.                                                           *)
InterfaceInvariant == InterfaceKept /\ WindowKept /\ (mode # "gui" => Replays)

(* The mode is chosen once.                                                 *)
LEMMA WindowModeStays == ASSUME Window PROVE mode' = mode
<1>1. ASSUME NEW s, NEW under, Handled(s, under) PROVE mode' = mode
  BY <1>1 DEF Handled, HandleException, Show, GuiEnds
<1>2. ASSUME ResetShown PROVE mode' = mode
  BY <1>2 DEF ResetShown, Show, GuiEnds
<1>3. CASE NextClicked \/ RunClicked
  BY <1>1, <1>3 DEF NextClicked, RunClicked
<1>4. CASE PrevClicked
  BY <1>1, <1>4 DEF PrevClicked, GuiEnds
<1>5. CASE ResetClicked \/ \E new \in Setting : SettingsAccepted(new) \/ SettingsCancelled(new)
  BY <1>2, <1>5 DEF ResetClicked, SettingsAccepted, SettingsCancelled
<1>6. CASE \E f \in File : LoadTriggered(f)
  BY <1>6 DEF LoadTriggered
<1> QED BY <1>3, <1>4, <1>5, <1>6 DEF Window

LEMMA ModeStays ==
  ASSUME [InterfaceNext]_interfaceVars
  PROVE  mode' = mode \/ mode' = "done"
<1>1. CASE Window
  BY <1>1, WindowModeStays
<1>2. CASE RunBatch
  <2>1. CASE BatchCycle
    BY <2>1 DEF BatchCycle
  <2>2. CASE \E f \in File : RunFile(f) \/ RunHexFile(f) \/ AssembleFile(f)
    BY <2>2 DEF RunFile, RunHexFile, AssembleFile, BatchEnds, BatchStarts
  <2> QED BY <1>2, <2>1, <2>2 DEF RunBatch
<1>3. CASE CommandLine
  BY <1>3 DEF CommandLine
<1>4. CASE UNCHANGED interfaceVars
  BY <1>4 DEF interfaceVars
<1> QED BY <1>1, <1>2, <1>3, <1>4 DEF InterfaceNext

LEMMA InterfaceInitKeeps == InterfaceInit => InterfaceInvariant /\ Fetchable(m)
<1> SUFFICES ASSUME InterfaceInit PROVE InterfaceInvariant /\ Fetchable(m)
  OBVIOUS
<1>1. m \in Memories /\ Fetchable(m)
  BY NewIsMemory DEF InterfaceInit
<1>2. Fresh \in CpuType /\ Fresh.cycle = 0 /\ Fresh.ready
  BY DEF Fresh, CpuType
<1>3. enabled \in [{"prev", "next", "reset"} -> BOOLEAN] /\ enabled["prev"] = FALSE
  <2>1. enabled = [prev |-> FALSE, next |-> FALSE, reset |-> FALSE]
    BY DEF InterfaceInit, Disabled
  <2>2. ASSUME NEW p \in BOOLEAN
        PROVE  [prev |-> p, next |-> p, reset |-> p] \in [{"prev", "next", "reset"} -> BOOLEAN]
    OBVIOUS
  <2>3. FALSE \in BOOLEAN
    OBVIOUS
  <2>4. enabled \in [{"prev", "next", "reset"} -> BOOLEAN]
    BY <2>1, <2>2, <2>3, Zenon
  <2> QED BY <2>1, <2>4
<1>4. InterfaceKept
  BY <1>1, <1>2, <1>3 DEF InterfaceInit, InterfaceKept, Kept, Batch, Setting
<1>5. WindowKept /\ (mode # "gui" => Replays)
  BY DEF InterfaceInit, WindowKept, Replays
<1> QED BY <1>1, <1>4, <1>5 DEF InterfaceInvariant

LEMMA InterfaceStepKeeps ==
  ASSUME InterfaceInvariant, [InterfaceNext]_interfaceVars
  PROVE  /\ InterfaceInvariant'
         /\ mode # "runhex" /\ Fetchable(m) => mode' # "runhex" /\ Fetchable(m')
<1>1. InterfaceKept /\ WindowKept /\ (mode # "gui" => Replays) /\ Kept
  BY DEF InterfaceInvariant, InterfaceKept
<1>2. mode' = mode \/ mode' = "done"
  BY ModeStays
<1>3. ASSUME KeptByStep, mode' # "gui" => Replays'
      PROVE  /\ InterfaceInvariant'
             /\ mode # "runhex" /\ Fetchable(m) => mode' # "runhex" /\ Fetchable(m')
  BY <1>1, <1>2, <1>3 DEF KeptByStep, InterfaceInvariant
<1>4. CASE Window
  <2>1. mode = "gui" /\ mode' = "gui"
    <3>1. mode = "gui"
      BY <1>4 DEF Window, NextClicked, RunClicked, PrevClicked, ResetClicked, SettingsAccepted,
                  SettingsCancelled, LoadTriggered, Click
    <3>2. mode' # "done"
      BY <1>4, <3>1, WindowModeStays
    <3> QED BY <1>2, <3>1, <3>2
  <2> QED BY <1>1, <1>3, <1>4, <2>1, WindowKeeps
<1>5. CASE RunBatch
  <2>1. mode # "gui"
    <3>1. mode \in Batch
      BY <1>5 DEF RunBatch, RunFile, RunHexFile, AssembleFile, BatchCycle, Batch
    <3> QED BY <3>1 DEF Batch
  <2> QED BY <1>1, <1>3, <1>5, <2>1, RunBatchKeeps
<1>6. CASE CommandLine
  <2>1. Next /\ mode = "cli" /\ UNCHANGED <<mode, enabled, status, dialog, ranUnder>>
    BY <1>6 DEF CommandLine, window
  <2>2. Kept' /\ (Fetchable(m) => Fetchable(m'))
    BY <1>1, <2>1, StepKeeps
  <2>3. InterfaceKept'
    BY <1>1, <2>1, <2>2 DEF InterfaceKept, Batch
  <2>4. Replays'
    BY <1>1, <2>1, StepReplays
  <2> QED BY <1>3, <2>1, <2>2, <2>3, <2>4 DEF KeptByStep, WindowKept
<1>7. CASE UNCHANGED interfaceVars
  BY <1>1, <1>7 DEF interfaceVars, vars, window, InterfaceInvariant, InterfaceKept, Kept, WindowKept,
     Replays
<1> QED BY <1>4, <1>5, <1>6, <1>7 DEF InterfaceNext

LEMMA AlwaysInvariant == InterfaceSpec => []InterfaceInvariant
<1>1. InterfaceInit => InterfaceInvariant
  BY InterfaceInitKeeps
<1>2. InterfaceInvariant /\ [InterfaceNext]_interfaceVars => InterfaceInvariant'
  BY InterfaceStepKeeps
<1> QED BY <1>1, <1>2, PTL DEF InterfaceSpec

-----------------------------------------------------------------------------
(* The variables of the session and of the window keep their types.         *)
THEOREM InterfaceTypeCorrect == InterfaceSpec => []InterfaceTypeOK
<1>1. InterfaceInvariant => InterfaceTypeOK
  BY DEF InterfaceInvariant, InterfaceKept, Kept, Memories, MemoryType, CpuType, SessionTypeOK,
         InterfaceTypeOK
<1> QED BY <1>1, AlwaysInvariant, PTL

(* With a file loaded the window shows a cycle of the program, never one    *)
(* that threw, and its buttons offer what can be done then.                 *)
THEOREM WindowCorrect == InterfaceSpec => []WindowShowsCycle
<1>1. InterfaceInvariant => WindowShowsCycle
  <2>1. Alike(m) = Repeatable
    BY DEF Alike, Repeatable
  <2> QED BY <2>1 DEF InterfaceInvariant, WindowKept, WindowShowsCycle, Shown, Now
<1> QED BY <1>1, AlwaysInvariant, PTL

(* No click ends the program while a file is loaded.                        *)
THEOREM ClicksCorrect == InterfaceSpec => []ClicksSurvive
<1>1. InterfaceInvariant => ClicksSurvive
  <2>1. Alike(m) = Repeatable
    BY DEF Alike, Repeatable
  <2> QED BY <2>1 DEF InterfaceInvariant, WindowKept, ClicksSurvive
<1> QED BY <1>1, AlwaysInvariant, PTL

(* What the window shows was run under the configuration the CPU has.       *)
THEOREM ConfigurationCorrect == InterfaceSpec => []OneConfiguration
<1>1. InterfaceInvariant => OneConfiguration
  BY DEF InterfaceInvariant, WindowKept, OneConfiguration
<1> QED BY <1>1, AlwaysInvariant, PTL

(* Going to the cycle one is in changes nothing, in whatever mode the       *)
(* program was started.                                                     *)
THEOREM ReplayInEveryMode == InterfaceSpec => []ReplayReproduces
<1>1. ASSUME InterfaceInvariant PROVE ReplayReproduces
  <2> SUFFICES ASSUME Ready, HasSnapshots(m), restored, Repeatable,
                      NEW s \in RunToCycle(m, cpu.cycle)
               PROVE  Visible(s) = Visible([m |-> m, c |-> cpu])
    BY DEF ReplayReproduces
  <2>1. Alike(m) /\ cpu # NoCpu /\ fileLoaded
    BY DEF Alike, Repeatable, Ready
  <2>2. Replayed(m, cpu)
    BY <1>1, <2>1, ShownIsReplayed DEF InterfaceInvariant, WindowKept, Replays
  <2> QED BY <2>2 DEF Replayed
<1> QED BY <1>1, AlwaysInvariant, PTL

(* Snapshots are of the program that is loaded, which can be fetched with   *)
(* the two words behind it, unless the program was started to run words in  *)
(* hexadecimal, which may fill the text region to its last byte.            *)
THEOREM SnapshotsInEveryMode ==
  InterfaceSpec /\ mode # "runhex" => []SnapshotsAreOfProgram
<1> DEFINE Inv == InterfaceInvariant /\ mode # "runhex" /\ Fetchable(m)
<1>1. InterfaceInit /\ mode # "runhex" => Inv
  BY InterfaceInitKeeps
<1>2. Inv /\ [InterfaceNext]_interfaceVars => Inv'
  BY InterfaceStepKeeps
<1>3. Inv => SnapshotsAreOfProgram
  BY DEF InterfaceInvariant, InterfaceKept, Kept, Memories, SnapshotsOf, Fetchable,
         SnapshotsAreOfProgram
<1> HIDE DEF Inv
<1> QED BY <1>1, <1>2, <1>3, PTL DEF InterfaceSpec
=============================================================================
