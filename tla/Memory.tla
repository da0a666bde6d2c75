-------------------------------- MODULE Memory --------------------------------
(***************************************************************************)
(* The memory as an object: the calls the assembler, the drivers and the   *)
(* CPUs make on it, in any order, and what holds of its blocks.            *)
(***************************************************************************)
EXTENDS MemoryOps

CONSTANTS Requests,  \* sizes programs and their data ask for
          MaxBlocks  \* bound: blocks allocated between two clears

ASSUME RequestAssumption == Requests \subseteq Addr /\ MaxBlocks \in Nat

VARIABLE m  \* locked, allocated_regions, what the regions hold, MEM_SNAPSHOT

-----------------------------------------------------------------------------
(* The calls the program makes, in any order.                               *)
Init == m = New

Clear == m' = Cleared(m)
Lock == m' = Locked(m)
AllocateData ==
  /\ Len(m.blocks) < MaxBlocks
  /\ \E n \in Requests : CanAllocateNext(m, n) /\ m' = AllocateNext(m, n)
AllocateText ==
  /\ Len(m.blocks) < MaxBlocks
  /\ \E n \in Requests : CanAllocateAt(m, "text", n) /\ m' = AllocateAt(m, "text", n)
WriteWord == \E r \in Region, c \in Content :
  /\ \E a \in Addr : Holds(r, a) /\ Aligned(a) /\ Accessible(m, a)
  /\ m' = Write(m, r, c)
Snapshot == \E r \in {"text", "data"} : m' = Snap(m, r)
(* Error variant of Reset: does not assert that there is a snapshot.         *)
ResetUnchecked == \E r \in {"text", "data"} : m' = Restored(m, r)

Reset == \E r \in {"text", "data"} : m.snap[r] # NoSnapshot /\ m' = Restored(m, r)

Next == \/ Clear \/ Lock \/ AllocateData \/ AllocateText
        \/ WriteWord \/ Snapshot \/ Reset

Spec == Init /\ [][Next]_m

-----------------------------------------------------------------------------
(* The fields of a memory have their types.                                 *)
MemoryTypeOK ==
  /\ m = [locked |-> m.locked, blocks |-> m.blocks, content |-> m.content, snap |-> m.snap]
  /\ m.locked \in BOOLEAN
  /\ m.blocks \in Seq(Block)
  /\ m.content \in [Region -> Content]
  /\ m.snap \in [Region -> Content \cup {NoSnapshot}]

(* No byte belongs to two blocks.  allocate_space compares a new block's    *)
(* start with the blocks there are, never its end, and sums wrap: that no   *)
(* block runs into another one follows from the order and the places blocks *)
(* are allocated in.                                                        *)
BlocksDisjoint ==
  \A i, j \in DOMAIN m.blocks : i # j =>
    \A a \in Addr : ~(In(m.blocks[i], a) /\ In(m.blocks[j], a))

(* No block runs over the end of the region it starts in, also when its     *)
(* size is a negative number taken for a large one.                         *)
BlocksInRegion ==
  \A k \in DOMAIN m.blocks : \A a \in Addr : In(m.blocks[k], a) =>
    \E r \in Region : Holds(r, m.blocks[k].start) /\ Holds(r, a)
=============================================================================
