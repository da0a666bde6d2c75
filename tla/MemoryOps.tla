------------------------------ MODULE MemoryOps ------------------------------
(***************************************************************************)
(* The simulated memory of mem.cpp: five regions of the address space, the *)
(* blocks that have been allocated in them, a lock that confines accesses  *)
(* to those blocks, and snapshots of regions.                              *)
(*                                                                         *)
(* A memory is a record, and each operation an operator from a memory to   *)
(* the memory it leaves, so that the callers can be written as the         *)
(* sequences of calls they are.  What a region holds is one opaque value.  *)
(***************************************************************************)
EXTENDS Integers, Sequences, FiniteSetsExt

CONSTANTS
  AddrSize,    \* number of addresses, 2^32: sums of addresses wrap
  Region,      \* names of the regions
  Start, Size, \* first address and size of each region, MEM_..._START and _SIZE
  WordBytes,   \* alignment of a word, 4
  Content,     \* what a region may hold
  Zero,        \* a region full of zeros
  NoSnapshot   \* the null pointer of a snapshot that was not taken

Addr == 0 .. AddrSize - 1
Wrap(x) == x % AddrSize

Holds(r, a) == Start[r] <= a /\ a < Start[r] + Size[r]

ASSUME AddrAssumption == AddrSize \in Nat \ {0} /\ WordBytes \in Nat \ {0}
ASSUME RegionAssumption ==
  /\ {"text", "data", "stack"} \subseteq Region
  /\ Start \in [Region -> Addr \ {0}] /\ Size \in [Region -> Addr \ {0}]
  /\ \A r \in Region : Start[r] + Size[r] < AddrSize
  /\ \A r, s \in Region : \A a \in Addr : Holds(r, a) /\ Holds(s, a) => r = s
(* Nothing follows the data region directly.                                *)
ASSUME GapAssumption == \A r \in Region : ~Holds(r, Start["data"] + Size["data"])
ASSUME ContentAssumption == Zero \in Content /\ NoSnapshot \notin Content

Block == [start : Addr, size : Addr]

-----------------------------------------------------------------------------
(* A block holds the addresses from its start to its end, computed modulo   *)
(* AddrSize.                                                                *)
End(b) == Wrap(b.start + b.size)
In(b, a) == b.start <= a /\ a < End(b)

Allocated(mem, a) == \E k \in DOMAIN mem.blocks : In(mem.blocks[k], a)

(* get_memory_region returns; it throws otherwise.                          *)
Accessible(mem, a) == /\ mem.locked => Allocated(mem, a)
                      /\ \E r \in Region : Holds(r, a)

Aligned(a) == a % WordBytes = 0

Push(mem, start, size) ==
  [mem EXCEPT !.blocks = Append(@, [start |-> start, size |-> size])]

(* Error variant of Fits: looks at the first byte only.                      *)
FitsStart(r, start, size) == start < Start[r] + Size[r]

Fits(r, start, size) == Wrap(start + size) <= Start[r] + Size[r]

(* allocate_space with an address, that of a region's first byte in all its *)
(* uses.                                                                    *)
CanAllocateAt(mem, r, size) ==
  ~Allocated(mem, Start[r]) /\ Fits(r, Start[r], size)
AllocateAt(mem, r, size) == Push(mem, Start[r], size)

(* allocate_space without an address: behind the last block of the data     *)
(* region.  It looks every block up by its first address, which throws if   *)
(* the memory is locked and no block holds that address.                    *)
DataEnds(mem) ==
  { Start["data"] } \cup
  { End(mem.blocks[k]) : k \in { j \in DOMAIN mem.blocks :
                                   Holds("data", mem.blocks[j].start) } }

NextFree(mem) == Max(DataEnds(mem))

CanAllocateNext(mem, size) ==
  /\ \A k \in DOMAIN mem.blocks : Accessible(mem, mem.blocks[k].start)
  /\ Fits("data", NextFree(mem), size)
(* Error variant of AllocateNext: behind the block allocated last.          *)
AllocateNextBehindLast(mem, size) ==
  Push(mem, IF mem.blocks = << >> THEN Start["data"]
            ELSE End(mem.blocks[Len(mem.blocks)]), size)

AllocateNext(mem, size) == Push(mem, NextFree(mem), size)

(* The constructor reserves the stack; clear does not, and leaves the lock  *)
(* as it is.                                                                *)
Empty == [locked |-> FALSE, blocks |-> << >>,
          content |-> [r \in Region |-> Zero], snap |-> [r \in Region |-> NoSnapshot]]
New == AllocateAt(Empty, "stack", Size["stack"])
(* Error variant of Cleared: the snapshots survive.                          *)
ClearedKeepingSnapshots(mem) == [Empty EXCEPT !.locked = mem.locked, !.snap = mem.snap]

Cleared(mem) == [Empty EXCEPT !.locked = mem.locked]

Locked(mem) == [mem EXCEPT !.locked = TRUE]
Write(mem, r, c) == [mem EXCEPT !.content[r] = c]
Snap(mem, r) == [mem EXCEPT !.snap[r] = mem.content[r]]
Restored(mem, r) == [mem EXCEPT !.content[r] = mem.snap[r]]
=============================================================================
