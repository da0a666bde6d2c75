----------------------------- MODULE MemoryProofs -----------------------------
(***************************************************************************)
(* Proofs about the memory for every address space, layout of regions and  *)
(* sizes asked for: its types, and that its blocks stay in their regions   *)
(* and apart.                                                              *)
(***************************************************************************)
EXTENDS Memory, TLAPS

(* The blocks of a region are in the order of their allocation: each ends,  *)
(* if it holds anything, before the later ones start.                       *)
BlocksOrdered ==
  \A i, j \in DOMAIN m.blocks : i < j =>
    \A r \in Region : Holds(r, m.blocks[i].start) /\ Holds(r, m.blocks[j].start)
                        => End(m.blocks[i]) <= m.blocks[j].start

(* A block ends in the region it starts in; one that starts in none (behind *)
(* the last byte of the data) holds nothing.                                *)
EndsInRegion(b) ==
  \/ \E r \in Region : Holds(r, b.start) /\ End(b) <= Start[r] + Size[r]
  \/ (\A r \in Region : ~Holds(r, b.start)) /\ End(b) <= b.start

BlocksEnd == \A k \in DOMAIN m.blocks : EndsInRegion(m.blocks[k])

(* Outside the data region blocks are allocated at the first byte only.     *)
BlocksAtStart ==
  \A k \in DOMAIN m.blocks : \A r \in Region :
    r # "data" /\ Holds(r, m.blocks[k].start) => m.blocks[k].start = Start[r]

(* The search for the next free address has a result.                       *)
Last(x) == x \in DataEnds(m) /\ \A y \in DataEnds(m) : x >= y
SearchEnds == \E x \in DataEnds(m) : Last(x)

MemoryInv == /\ MemoryTypeOK
             /\ BlocksOrdered /\ BlocksEnd /\ BlocksAtStart /\ SearchEnds

-----------------------------------------------------------------------------
(* What the assumptions say of the regions, as the proofs need it.          *)
LEMMA RegionFacts ==
  /\ AddrSize \in Nat /\ AddrSize > 0
  /\ {"text", "data", "stack"} \subseteq Region
  /\ \A r \in Region : /\ Start[r] \in Addr /\ Start[r] > 0 /\ Size[r] \in Addr
                       /\ Size[r] > 0 /\ Start[r] + Size[r] < AddrSize
                       /\ Holds(r, Start[r])
  BY AddrAssumption, RegionAssumption
  DEF AddrAssumption, RegionAssumption, Addr, Holds

(* Sums of addresses wrap back into the address space.                      *)
LEMMA WrapType == \A x \in Nat : Wrap(x) \in Addr
  BY RegionFacts DEF Wrap, Addr

LEMMA EndType == \A b \in Block : End(b) \in Addr
  BY WrapType DEF End, Block, Addr

(* Blocks, and the ends the search looks at, are made of addresses.         *)
LEMMA BlockType ==
  ASSUME MemoryTypeOK, NEW k \in DOMAIN m.blocks
  PROVE  /\ m.blocks[k] \in Block /\ End(m.blocks[k]) \in Addr
         /\ m.blocks[k].start \in Addr
<1>1. m.blocks \in Seq(Block)
  BY DEF MemoryTypeOK
<1>2. m.blocks[k] \in Block
  BY <1>1
<1> QED BY <1>2, EndType DEF Block

LEMMA DataEndsType == ASSUME MemoryTypeOK PROVE DataEnds(m) \subseteq Addr
  BY BlockType, RegionFacts DEF DataEnds

(* The blocks of a memory a block was added to.                             *)
LEMMA Pushed ==
  ASSUME MemoryTypeOK, NEW start \in Addr, NEW size \in Addr,
         m' = Push(m, start, size)
  PROVE  /\ MemoryTypeOK'
         /\ m'.blocks \in Seq(Block)
         /\ Len(m.blocks) \in Nat
         /\ DOMAIN m.blocks = 1 .. Len(m.blocks)
         /\ DOMAIN m'.blocks = 1 .. Len(m.blocks) + 1
         /\ \A k \in DOMAIN m.blocks : m'.blocks[k] = m.blocks[k]
         /\ m'.blocks[Len(m.blocks) + 1] = [start |-> start, size |-> size]
<1>1. m.blocks \in Seq(Block) /\ [start |-> start, size |-> size] \in Block
  BY DEF MemoryTypeOK, Block
<1>2. m'.blocks = Append(m.blocks, [start |-> start, size |-> size])
  BY DEF Push, MemoryTypeOK
<1>3. m'.locked = m.locked /\ m'.content = m.content /\ m'.snap = m.snap
  BY DEF Push, MemoryTypeOK
<1>4. m' = [locked |-> m'.locked, blocks |-> m'.blocks, content |-> m'.content, snap |-> m'.snap]
  BY <1>2, <1>3 DEF Push, MemoryTypeOK
<1>5. m'.blocks \in Seq(Block)
  BY <1>1, <1>2
<1>6. MemoryTypeOK'
  BY <1>3, <1>4, <1>5 DEF MemoryTypeOK
<1> QED BY <1>1, <1>2, <1>5, <1>6

-----------------------------------------------------------------------------
(* A block that starts behind the ends of the earlier blocks of its region, *)
(* and ends in it, keeps the order.                                         *)
LEMMA PushOrdered ==
  ASSUME MemoryInv, NEW start \in Addr, NEW size \in Addr, m' = Push(m, start, size),
         \A k \in DOMAIN m.blocks : \A r \in Region :
           Holds(r, m.blocks[k].start) /\ Holds(r, start) => End(m.blocks[k]) <= start,
         EndsInRegion([start |-> start, size |-> size]),
         \A r \in Region : r # "data" /\ Holds(r, start) => start = Start[r]
  PROVE  MemoryTypeOK' /\ BlocksOrdered' /\ BlocksEnd' /\ BlocksAtStart'
<1> DEFINE b == [start |-> start, size |-> size]
           n == Len(m.blocks) + 1
<1>1. /\ MemoryTypeOK' /\ Len(m.blocks) \in Nat
      /\ DOMAIN m.blocks = 1 .. Len(m.blocks) /\ DOMAIN m'.blocks = 1 .. n
      /\ \A k \in DOMAIN m.blocks : m'.blocks[k] = m.blocks[k]
      /\ m'.blocks[n] = b
  BY Pushed DEF MemoryInv
<1>2. \A k \in 1 .. n : k = n \/ k \in DOMAIN m.blocks
  BY <1>1
<1>3. BlocksOrdered'
  <2> SUFFICES ASSUME NEW i \in 1 .. n, NEW j \in 1 .. n, i < j, NEW r \in Region,
                      Holds(r, m'.blocks[i].start), Holds(r, m'.blocks[j].start)
               PROVE  End(m'.blocks[i]) <= m'.blocks[j].start
    BY <1>1 DEF BlocksOrdered
  <2>1. i \in DOMAIN m.blocks /\ m'.blocks[i] = m.blocks[i]
    BY <1>1
  <2>2. CASE j = n
    BY <1>1, <2>1, <2>2
  <2>3. CASE j # n
    BY <1>1, <1>2, <2>1, <2>3 DEF MemoryInv, BlocksOrdered
  <2> QED BY <2>2, <2>3
<1>4. BlocksEnd'
  BY <1>1, <1>2 DEF MemoryInv, BlocksEnd
<1>5. BlocksAtStart'
  BY <1>1, <1>2 DEF MemoryInv, BlocksAtStart
<1> QED BY <1>1, <1>3, <1>4, <1>5

(* The search still has a result: the old one or the end of the new block.  *)
LEMMA PushSearch ==
  ASSUME MemoryInv, NEW start \in Addr, NEW size \in Addr, m' = Push(m, start, size)
  PROVE  SearchEnds'
<1> DEFINE b == [start |-> start, size |-> size]
           n == Len(m.blocks) + 1
<1>1. /\ Len(m.blocks) \in Nat
      /\ DOMAIN m.blocks = 1 .. Len(m.blocks) /\ DOMAIN m'.blocks = 1 .. n
      /\ \A k \in DOMAIN m.blocks : m'.blocks[k] = m.blocks[k]
      /\ m'.blocks[n] = b /\ m'.blocks \in Seq(Block)
  BY Pushed DEF MemoryInv
<1>2. DataEnds(m)' = DataEnds(m) \cup IF Holds("data", start) THEN {End(b)} ELSE {}
  <2>1. DataEnds(m') = {Start["data"]} \cup
          { End(m'.blocks[k]) : k \in { j \in 1 .. n : Holds("data", m'.blocks[j].start) } }
    BY <1>1 DEF DataEnds
  <2>2. { j \in 1 .. n : Holds("data", m'.blocks[j].start) }
          = { j \in 1 .. Len(m.blocks) : Holds("data", m.blocks[j].start) }
              \cup IF Holds("data", start) THEN {n} ELSE {}
    BY <1>1
  <2>3. { End(m'.blocks[k]) : k \in { j \in 1 .. n : Holds("data", m'.blocks[j].start) } }
          = { End(m.blocks[k]) : k \in { j \in 1 .. Len(m.blocks) :
                                          Holds("data", m.blocks[j].start) } }
              \cup IF Holds("data", start) THEN {End(b)} ELSE {}
    BY <1>1, <2>2
  <2> QED BY <1>1, <2>1, <2>3 DEF DataEnds
<1>3. PICK x \in DataEnds(m) : \A y \in DataEnds(m) : x >= y
  BY DEF MemoryInv, SearchEnds, Last
<1>4. End(b) \in Int /\ DataEnds(m) \subseteq Int
  <2>1. b \in Block
    BY DEF Block
  <2> QED BY <2>1, EndType, DataEndsType, RegionFacts DEF Addr, MemoryInv
<1>5. CASE Holds("data", start) /\ End(b) >= x
  <2>1. Last(End(b))'
    BY <1>2, <1>3, <1>4, <1>5 DEF Last
  <2> QED BY <2>1 DEF SearchEnds, Last
<1>6. CASE ~(Holds("data", start) /\ End(b) >= x)
  <2>1. Last(x)'
    BY <1>2, <1>3, <1>4, <1>6 DEF Last
  <2> QED BY <2>1 DEF SearchEnds, Last
<1> QED BY <1>5, <1>6

(* The next free address is behind every block of the data region.          *)
LEMMA NextFreeLast ==
  ASSUME MemoryInv
  PROVE  /\ NextFree(m) \in DataEnds(m)
         /\ \A y \in DataEnds(m) : NextFree(m) >= y
  BY DEF MemoryInv, SearchEnds, Last, NextFree, Max

-----------------------------------------------------------------------------
LEMMA AllocateDataInv == ASSUME MemoryInv, AllocateData PROVE MemoryInv'
<1>1. PICK n \in Requests : CanAllocateNext(m, n) /\ m' = Push(m, NextFree(m), n)
  BY DEF AllocateData, AllocateNext
<1> DEFINE start == NextFree(m)
<1>2. n \in Addr
  BY RequestAssumption DEF RequestAssumption
<1>3. start \in Addr /\ start >= Start["data"]
  BY NextFreeLast, EndType, RegionFacts DEF DataEnds, MemoryInv, MemoryTypeOK
<1>4. ASSUME NEW k \in DOMAIN m.blocks, Holds("data", m.blocks[k].start)
      PROVE  End(m.blocks[k]) <= start /\ End(m.blocks[k]) <= Start["data"] + Size["data"]
  <2>1. End(m.blocks[k]) \in DataEnds(m)
    BY <1>4 DEF DataEnds
  <2>2. End(m.blocks[k]) \in Addr /\ m.blocks[k].start \in Addr
    BY BlockType DEF MemoryInv
  <2>3. \A r \in Region : Holds(r, m.blocks[k].start) => r = "data"
    BY <1>4, <2>2, RegionAssumption DEF RegionAssumption
  <2>4. EndsInRegion(m.blocks[k])
    BY DEF MemoryInv, BlocksEnd
  <2>5. End(m.blocks[k]) <= Start["data"] + Size["data"]
    BY <1>4, <2>3, <2>4, RegionFacts DEF EndsInRegion
  <2> QED BY <1>3, <2>1, <2>2, <2>5, NextFreeLast DEF Addr
<1>5. start <= Start["data"] + Size["data"]
  BY <1>4, NextFreeLast, RegionFacts DEF DataEnds, Addr
<1>6. Holds("data", start) \/ \A r \in Region : ~Holds(r, start)
  BY <1>3, <1>5, GapAssumption, RegionFacts DEF GapAssumption, Holds, Addr
<1>7. End([start |-> start, size |-> n]) <= Start["data"] + Size["data"]
  BY <1>1 DEF CanAllocateNext, Fits, End
<1>8. EndsInRegion([start |-> start, size |-> n])
  <2>1. CASE Holds("data", start)
    BY <1>7, <2>1, RegionFacts DEF EndsInRegion
  <2>2. CASE ~Holds("data", start)
    <3>1. start = Start["data"] + Size["data"]
      BY <1>3, <1>5, <2>2, RegionFacts DEF Holds, Addr
    <3> QED BY <1>6, <1>7, <2>2, <3>1 DEF EndsInRegion
  <2> QED BY <2>1, <2>2
<1>9. \A r \in Region : Holds(r, start) => r = "data"
  BY <1>3, <1>6, RegionAssumption DEF RegionAssumption
<1>10. \A k \in DOMAIN m.blocks : \A r \in Region :
         Holds(r, m.blocks[k].start) /\ Holds(r, start) => End(m.blocks[k]) <= start
  BY <1>4, <1>9
<1> QED BY <1>1, <1>2, <1>3, <1>8, <1>9, <1>10, PushOrdered, PushSearch DEF MemoryInv

LEMMA AllocateTextInv == ASSUME MemoryInv, AllocateText PROVE MemoryInv'
<1>1. PICK n \in Requests : CanAllocateAt(m, "text", n) /\ m' = Push(m, Start["text"], n)
  BY DEF AllocateText, AllocateAt
<1> DEFINE start == Start["text"]
<1>2. n \in Addr /\ start \in Addr /\ Holds("text", start)
  BY RequestAssumption, RegionFacts DEF RequestAssumption
<1>3. \A r \in Region : Holds(r, start) => r = "text"
  BY <1>2, RegionFacts, RegionAssumption DEF RegionAssumption
<1>4. EndsInRegion([start |-> start, size |-> n])
  BY <1>1, <1>2, RegionFacts DEF CanAllocateAt, Fits, End, EndsInRegion
<1>5. ASSUME NEW k \in DOMAIN m.blocks, Holds("text", m.blocks[k].start)
      PROVE  End(m.blocks[k]) <= start
  <2>1. m.blocks[k].start = start /\ ~In(m.blocks[k], start)
    BY <1>1, <1>5, RegionFacts DEF MemoryInv, BlocksAtStart, CanAllocateAt, Allocated
  <2>2. End(m.blocks[k]) \in Addr
    BY EndType DEF MemoryInv, MemoryTypeOK
  <2> QED BY <1>2, <2>1, <2>2 DEF In, Addr
<1>6. \A k \in DOMAIN m.blocks : \A r \in Region :
         Holds(r, m.blocks[k].start) /\ Holds(r, start) => End(m.blocks[k]) <= start
  BY <1>3, <1>5
<1> QED BY <1>1, <1>2, <1>3, <1>4, <1>6, PushOrdered, PushSearch DEF MemoryInv

(* A memory without blocks, and one with the same blocks.                   *)
LEMMA EmptyInv ==
  ASSUME NEW l \in BOOLEAN
  PROVE  LET e == [Empty EXCEPT !.locked = l]
         IN  /\ e = [locked |-> l, blocks |-> << >>, content |-> [r \in Region |-> Zero],
                     snap |-> [r \in Region |-> NoSnapshot]]
             /\ DataEnds(e) = {Start["data"]}
  BY DEF Empty, DataEnds

LEMMA ClearInv == ASSUME MemoryInv, Clear PROVE MemoryInv'
<1>1. m.locked \in BOOLEAN /\ m' = [Empty EXCEPT !.locked = m.locked]
  BY DEF MemoryInv, MemoryTypeOK, Clear, Cleared
<1>2. /\ m' = [locked |-> m.locked, blocks |-> << >>, content |-> [r \in Region |-> Zero],
               snap |-> [r \in Region |-> NoSnapshot]]
      /\ DataEnds(m') = {Start["data"]}
  BY <1>1, EmptyInv
<1>3. MemoryTypeOK'
  <2>1. << >> \in Seq(Block) /\ Zero \in Content
    BY ContentAssumption DEF ContentAssumption
  <2>2. /\ m'.locked = m.locked /\ m'.blocks = << >>
        /\ m'.content = [r \in Region |-> Zero] /\ m'.snap = [r \in Region |-> NoSnapshot]
    BY <1>2
  <2>3. m' = [locked |-> m'.locked, blocks |-> m'.blocks, content |-> m'.content,
              snap |-> m'.snap]
    BY <1>2, <2>2
  <2>4. m'.content \in [Region -> Content] /\ m'.snap \in [Region -> Content \cup {NoSnapshot}]
    BY <2>1, <2>2
  <2>5. m'.blocks \in Seq(Block) /\ m'.locked \in BOOLEAN
    BY <1>1, <2>1, <2>2
  <2> QED BY <2>3, <2>4, <2>5 DEF MemoryTypeOK
<1>4. BlocksOrdered' /\ BlocksEnd' /\ BlocksAtStart'
  BY <1>2 DEF BlocksOrdered, BlocksEnd, BlocksAtStart
<1>5. SearchEnds'
  <2>1. Last(Start["data"])'
    BY <1>2, RegionFacts DEF Last, Addr
  <2> QED BY <2>1 DEF SearchEnds, Last
<1> QED BY <1>3, <1>4, <1>5 DEF MemoryInv

LEMMA InitInv == ASSUME Init PROVE MemoryInv
<1> DEFINE b == [start |-> Start["stack"], size |-> Size["stack"]]
<1>1. m = [locked |-> FALSE, blocks |-> <<b>>, content |-> [r \in Region |-> Zero],
           snap |-> [r \in Region |-> NoSnapshot]]
  <2>1. Append(<< >>, b) = <<b>>
    OBVIOUS
  <2> QED BY <2>1 DEF Init, New, AllocateAt, Push, Empty
<1>2. b \in Block /\ Holds("stack", b.start) /\ End(b) <= Start["stack"] + Size["stack"]
  <2>1. Start["stack"] + Size["stack"] \in 0 .. AddrSize - 1
    BY RegionFacts DEF Addr
  <2>2. Wrap(Start["stack"] + Size["stack"]) = Start["stack"] + Size["stack"]
    BY <2>1, RegionFacts DEF Wrap
  <2> QED BY <2>1, <2>2, RegionFacts DEF Block, End
<1>3. MemoryTypeOK
  BY <1>1, <1>2, ContentAssumption DEF MemoryTypeOK, ContentAssumption
<1>4. \A r \in Region : Holds(r, b.start) => r = "stack"
  BY <1>2, RegionFacts, RegionAssumption DEF RegionAssumption
<1>5. BlocksOrdered /\ BlocksEnd /\ BlocksAtStart
  BY <1>1, <1>2, <1>4, RegionFacts DEF BlocksOrdered, BlocksEnd, BlocksAtStart, EndsInRegion
<1>6. DataEnds(m) = {Start["data"]}
  <2>1. ~Holds("data", b.start)
    BY <1>4, RegionFacts
  <2> QED BY <1>1, <2>1 DEF DataEnds
<1>7. SearchEnds
  BY <1>6, RegionFacts DEF SearchEnds, Last, Addr
<1> QED BY <1>3, <1>5, <1>7 DEF MemoryInv

LEMMA SameBlocks ==
  ASSUME MemoryInv, m'.blocks = m.blocks, MemoryTypeOK'
  PROVE  MemoryInv'
  BY DEF MemoryInv, BlocksOrdered, BlocksEnd, BlocksAtStart, SearchEnds, Last, DataEnds

LEMMA OthersInv ==
  ASSUME MemoryInv, Lock \/ WriteWord \/ Snapshot \/ Reset
  PROVE  MemoryInv'
<1> USE DEF MemoryInv, MemoryTypeOK
<1>1. CASE Lock
  BY <1>1, SameBlocks DEF Lock, Locked
<1>2. CASE WriteWord
  BY <1>2, SameBlocks DEF WriteWord, Write
<1>3. CASE Snapshot
  <2>1. PICK r \in {"text", "data"} : m' = Snap(m, r)
    BY <1>3 DEF Snapshot
  <2>2. r \in Region /\ m.content[r] \in Content
    BY <2>1, RegionFacts
  <2>3. MemoryTypeOK'
    BY <2>1, <2>2 DEF Snap
  <2> QED BY <2>1, <2>3, SameBlocks DEF Snap
<1>4. CASE Reset
  <2>1. PICK r \in {"text", "data"} : m.snap[r] # NoSnapshot /\ m' = Restored(m, r)
    BY <1>4 DEF Reset
  <2>2. r \in Region /\ m.snap[r] \in Content
    BY <2>1, RegionFacts
  <2> QED BY <2>1, <2>2, SameBlocks DEF Restored
<1> QED BY <1>1, <1>2, <1>3, <1>4

(* The invariant holds whatever is called in whatever order.                *)
LEMMA MemoryInvariant == Spec => []MemoryInv
<1>1. Init => MemoryInv
  BY InitInv
<1>2. MemoryInv /\ [Next]_m => MemoryInv'
  <2> SUFFICES ASSUME MemoryInv, [Next]_m PROVE MemoryInv'
    OBVIOUS
  <2>1. CASE Clear
    BY <2>1, ClearInv
  <2>2. CASE AllocateData
    BY <2>2, AllocateDataInv
  <2>3. CASE AllocateText
    BY <2>3, AllocateTextInv
  <2>4. CASE Lock \/ WriteWord \/ Snapshot \/ Reset
    BY <2>4, OthersInv
  <2>5. CASE UNCHANGED m
    BY <2>5, SameBlocks DEF MemoryInv, MemoryTypeOK
  <2> QED BY <2>1, <2>2, <2>3, <2>4, <2>5 DEF Next
<1> QED BY <1>1, <1>2, PTL DEF Spec

(* The memory keeps its types; a reset, in particular, copies a snapshot.   *)
THEOREM MemoryTypeCorrect == Spec => []MemoryTypeOK
<1>1. MemoryInv => MemoryTypeOK
  BY DEF MemoryInv
<1> QED BY <1>1, MemoryInvariant, PTL

(* The bytes of a block are in the region it starts in.                     *)
LEMMA InItsRegion ==
  ASSUME MemoryInv, NEW k \in DOMAIN m.blocks, NEW a \in Addr, In(m.blocks[k], a)
  PROVE  \E r \in Region : Holds(r, m.blocks[k].start) /\ Holds(r, a)
<1>1. m.blocks[k] \in Block /\ End(m.blocks[k]) \in Addr /\ EndsInRegion(m.blocks[k])
  BY EndType DEF MemoryInv, MemoryTypeOK, BlocksEnd
<1>2. ~(End(m.blocks[k]) <= m.blocks[k].start)
  BY <1>1 DEF In, Block, Addr
<1>3. PICK r \in Region : /\ Holds(r, m.blocks[k].start)
                          /\ End(m.blocks[k]) <= Start[r] + Size[r]
  BY <1>1, <1>2 DEF EndsInRegion
<1>4. Holds(r, a)
  BY <1>1, <1>3, RegionFacts DEF Holds, In, Block, Addr
<1> QED BY <1>3, <1>4

(* No block runs over the end of its region.                                *)
THEOREM BlocksStayInRegion == Spec => []BlocksInRegion
<1>1. MemoryInv => BlocksInRegion
  BY InItsRegion DEF BlocksInRegion
<1> QED BY <1>1, MemoryInvariant, PTL

(* No byte belongs to two blocks.                                           *)
THEOREM BlocksStayApart == Spec => []BlocksDisjoint
<1>1. MemoryInv => BlocksDisjoint
  <2>1. ASSUME MemoryInv, NEW i \in DOMAIN m.blocks, NEW j \in DOMAIN m.blocks, i < j,
               NEW a \in Addr, In(m.blocks[i], a), In(m.blocks[j], a)
        PROVE  FALSE
    <3>1. PICK r \in Region : Holds(r, m.blocks[i].start) /\ Holds(r, a)
      BY <2>1, InItsRegion
    <3>2. PICK s \in Region : Holds(s, m.blocks[j].start) /\ Holds(s, a)
      BY <2>1, InItsRegion
    <3>3. r = s
      BY <3>1, <3>2, RegionAssumption DEF RegionAssumption
    <3>4. End(m.blocks[i]) <= m.blocks[j].start
      BY <2>1, <3>1, <3>2, <3>3 DEF MemoryInv, BlocksOrdered
    <3>5. End(m.blocks[i]) \in Addr /\ m.blocks[j].start \in Addr
      BY <2>1, BlockType DEF MemoryInv
    <3> QED BY <2>1, <3>4, <3>5 DEF In, Addr
  <2>2. ASSUME MemoryInv, NEW i \in DOMAIN m.blocks, NEW j \in DOMAIN m.blocks, i # j
        PROVE  i < j \/ j < i
    BY <2>2 DEF MemoryInv, MemoryTypeOK
  <2> QED BY <2>1, <2>2 DEF BlocksDisjoint
<1> QED BY <1>1, MemoryInvariant, PTL
=============================================================================
