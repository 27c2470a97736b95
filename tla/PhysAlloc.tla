----------------------------- MODULE PhysAlloc -----------------------------
(***************************************************************************)
(* The boot-time allocator: the physical allocator of lib/alloc_phys.c,    *)
(* the wrappers malloc, calloc and memalign of lib/alloc.c on top of it,   *)
(* and the hand-over of the memory left to the page allocator by setup_vm  *)
(* (lib/vmalloc.c), which switches alloc_ops for good.                     *)
(*                                                                         *)
(* phys_alloc_aligned_safe touches shared state with the lock held only    *)
(* and is one step; phys_alloc_get_unused reads base and top before it     *)
(* takes the lock.                                                         *)
(***************************************************************************)
EXTENDS Integers, Sequences

CONSTANTS CPUs,
          SetupCPUs,  \* the CPUs that call setup_vm
          Memory,     \* possible arguments <<base, size>> of phys_alloc_init
          Limit,      \* 2^32 in a 32-bit build, else beyond all memory
          Word,       \* sizeof(uintptr_t)
          Aligns,     \* alignments asked for, and sizeof(uintptr_t)
          DefaultAlign, \* DEFAULT_MINIMUM_ALIGNMENT
          Wants,      \* sizes asked for
          NrRegions   \* PHYS_ALLOC_NR_REGIONS

(* Alignments are powers of two; of two of them the smaller divides the    *)
(* other.                                                                  *)
ASSUME PhysAllocAssumption ==
  /\ SetupCPUs \subseteq CPUs
  /\ Memory \subseteq Nat \X Nat
  /\ Limit \in Nat /\ NrRegions \in Nat
  /\ Word \in Aligns /\ DefaultAlign \in Aligns
  /\ Aligns \subseteq Nat \ {0} /\ Wants \subseteq Nat \ {0}
  /\ \A a, b \in Aligns : a <= b => b % a = 0

VARIABLES
  base, top,     \* the memory not yet allocated
  align_min,     \* early_alloc_ops.align_min
  regions,       \* the log: a sequence whose length is nr_regions
  alloc_ops,     \* "none" before phys_alloc_init, "early", or "vmalloc"
  pc,            \* per CPU: where it stands
  p_base, p_top, \* per CPU: what phys_alloc_get_unused gave to setup_vm
  ret,           \* per CPU: what memalign returned last
  refused,       \* per CPU: did the allocator refuse that request?
  origin,        \* history: base as phys_alloc_init set it
  blocks         \* history: what has been allocated

vars == <<base, top, align_min, regions, alloc_ops, pc, p_base, p_top, ret,
          refused, origin, blocks>>

ALIGN(x, a) == ((x + a - 1) \div a) * a
Larger(x, y) == IF x >= y THEN x ELSE y
METADATA_EXTRA == 2 * Word
NULL == 0

(* The lock is free between steps, unless a CPU has stopped inside. *)
LockFree == \A c \in CPUs : pc[c] # "assert"

(* top_safe of phys_alloc_aligned_safe. *)
TopSafe == IF top <= Limit THEN top ELSE Limit

Init ==
  /\ base = 0 /\ top = 0
  /\ align_min = DefaultAlign
  /\ regions = <<>>
  /\ alloc_ops = "none"
  /\ pc = [c \in CPUs |-> "idle"]
  /\ p_base = [c \in CPUs |-> 0] /\ p_top = [c \in CPUs |-> 0]
  /\ ret = [c \in CPUs |-> NULL]
  /\ refused = [c \in CPUs |-> FALSE]
  /\ origin = 0 /\ blocks = {}
-----------------------------------------------------------------------------
SetMinimumAlignment ==
  /\ alloc_ops = "none"
  /\ \E a \in Aligns : align_min' = a
  /\ UNCHANGED <<base, top, regions, alloc_ops, pc, p_base, p_top, ret,
                 refused, origin, blocks>>

PhysAllocInit ==
  /\ alloc_ops = "none"
  /\ \E m \in Memory : /\ base' = m[1] /\ origin' = m[1]
                       /\ top' = m[1] + m[2]
  /\ regions' = <<>>
  /\ alloc_ops' = "early"
  /\ UNCHANGED <<align_min, pc, p_base, p_top, ret, refused, blocks>>
-----------------------------------------------------------------------------
(* memalign's arithmetic: the alignment it settles on, *)
Alignment(alignment) == IF alignment <= Word THEN Word ELSE alignment

(* Mutant: no room is added for aligning the result. *)
BlockSizeTight(alignment, want) ==
  ALIGN(want + METADATA_EXTRA, align_min)

(* ... and the size it asks the allocator for. *)
BlockSize(alignment, want) ==
  ALIGN((IF alignment <= Word THEN want ELSE want + alignment - 1)
        + METADATA_EXTRA, align_min)

Addr(alignment) == ALIGN(base, Larger(Alignment(alignment), align_min))
Mem(p, alignment) == ALIGN(p + METADATA_EXTRA, Alignment(alignment))

(* Mutant: a full log still takes an entry. *)
LogRegionFull(b, s) ==
  regions' = Append(regions, [base |-> b, size |-> s])

LogRegion(b, s) ==
  regions' = IF Len(regions) < NrRegions
               THEN Append(regions, [base |-> b, size |-> s]) ELSE regions

(* Mutant: the slack in front of the block is forgotten. *)
MemalignOverlap(c, alignment, want) ==
  /\ alloc_ops = "early" /\ pc[c] = "idle" /\ LockFree
  /\ base < TopSafe
  /\ LET size == BlockSize(alignment, want)
         addr == Addr(alignment)
     IN /\ size <= TopSafe - base
        /\ base' = base + size
        /\ LogRegion(addr, size)
        /\ blocks' = blocks \cup
             {[addr |-> addr, size |-> size, mem |-> Mem(addr, alignment),
               want |-> want, align |-> Alignment(alignment)]}
        /\ ret' = [ret EXCEPT ![c] = Mem(addr, alignment)]
  /\ refused' = [refused EXCEPT ![c] = FALSE]
  /\ UNCHANGED <<top, align_min, alloc_ops, pc, p_base, p_top, origin>>

(* malloc, calloc or memalign while alloc_ops is early_alloc_ops. *)
Memalign(c, alignment, want) ==
  /\ alloc_ops = "early" /\ pc[c] = "idle" /\ LockFree
  /\ base < TopSafe
  /\ LET size == BlockSize(alignment, want)
         addr == Addr(alignment)
     IN /\ size + (addr - base) <= TopSafe - base
        /\ base' = addr + size
        /\ LogRegion(addr, size)
        /\ blocks' = blocks \cup
             {[addr |-> addr, size |-> size, mem |-> Mem(addr, alignment),
               want |-> want, align |-> Alignment(alignment)]}
        /\ ret' = [ret EXCEPT ![c] = Mem(addr, alignment)]
  /\ refused' = [refused EXCEPT ![c] = FALSE]
  /\ UNCHANGED <<top, align_min, alloc_ops, pc, p_base, p_top, origin>>

(* The allocator has too little left and returns NULL, to which memalign   *)
(* applies the same arithmetic.                                            *)
MemalignRefused(c, alignment, want) ==
  /\ alloc_ops = "early" /\ pc[c] = "idle" /\ LockFree
  /\ base < TopSafe
  /\ BlockSize(alignment, want) + (Addr(alignment) - base) > TopSafe - base
  /\ ret' = [ret EXCEPT ![c] = Mem(NULL, alignment)]
  /\ refused' = [refused EXCEPT ![c] = TRUE]
  /\ UNCHANGED <<base, top, align_min, regions, alloc_ops, pc, p_base, p_top,
                 origin, blocks>>

(* assert(base < top_safe) fails and ends the program on this CPU, which   *)
(* never releases the lock.                                                *)
MemalignAssert(c) ==
  /\ alloc_ops = "early" /\ pc[c] = "idle" /\ LockFree
  /\ base >= TopSafe
  /\ pc' = [pc EXCEPT ![c] = "assert"]
  /\ UNCHANGED <<base, top, align_min, regions, alloc_ops, p_base, p_top, ret,
                 refused, origin, blocks>>
-----------------------------------------------------------------------------
(* setup_vm: phys_alloc_get_unused up to the lock, *)
GetUnusedRead(c) ==
  /\ alloc_ops = "early" /\ pc[c] = "idle" /\ c \in SetupCPUs
  /\ p_base' = [p_base EXCEPT ![c] = base]
  /\ p_top' = [p_top EXCEPT ![c] = top]
  /\ pc' = [pc EXCEPT ![c] = IF base = top THEN "switch" ELSE "take"]
  /\ UNCHANGED <<base, top, align_min, regions, alloc_ops, ret, refused,
                 origin, blocks>>

(* ... its locked part, which logs without looking for room, *)
GetUnusedTake(c) ==
  /\ pc[c] = "take" /\ LockFree
  /\ regions' = Append(regions, [base |-> base, size |-> top - base])
  /\ base' = top
  /\ pc' = [pc EXCEPT ![c] = "switch"]
  /\ UNCHANGED <<top, align_min, alloc_ops, p_base, p_top, ret, refused,
                 origin, blocks>>

(* ... and the assertion and the switch at its end. *)
SwitchOps(c) ==
  /\ pc[c] = "switch"
  /\ IF p_base[c] = p_top[c]
       THEN pc' = [pc EXCEPT ![c] = "abort"] /\ UNCHANGED alloc_ops
       ELSE pc' = [pc EXCEPT ![c] = "owner"] /\ alloc_ops' = "vmalloc"
  /\ UNCHANGED <<base, top, align_min, regions, p_base, p_top, ret, refused,
                 origin, blocks>>

CpuStep(c) ==
  \/ \E a \in Aligns, w \in Wants : Memalign(c, a, w) \/ MemalignRefused(c, a, w)
  \/ MemalignAssert(c) \/ GetUnusedRead(c) \/ GetUnusedTake(c) \/ SwitchOps(c)

Next == SetMinimumAlignment \/ PhysAllocInit \/ \E c \in CPUs : CpuStep(c)

Spec == Init /\ [][Next]_vars
-----------------------------------------------------------------------------
BlockType == [addr : Nat, size : Nat, mem : Nat, want : Nat, align : Nat]

(* The variables keep their types; no size in the log is negative.         *)
TypeOK ==
  /\ base \in Nat /\ top \in Nat /\ origin \in Nat
  /\ align_min \in Aligns
  /\ regions \in Seq([base : Nat, size : Nat])
  /\ alloc_ops \in {"none", "early", "vmalloc"}
  /\ pc \in [CPUs -> {"idle", "take", "switch", "owner", "abort", "assert"}]
  /\ p_base \in [CPUs -> Nat] /\ p_top \in [CPUs -> Nat]
  /\ ret \in [CPUs -> Nat] /\ refused \in [CPUs -> BOOLEAN]
  /\ blocks \subseteq BlockType

(* Apart(a, m, b, n): the m bytes from a and the n bytes from b on do not  *)
(* meet.                                                                   *)
Apart(a, m, b, n) == a + m <= b \/ b + n <= a

(* No two allocations overlap, whichever CPUs asked for them and whatever  *)
(* their alignments.                                                       *)
BlocksApart ==
  \A a, b \in blocks : a # b => Apart(a.addr, a.size, b.addr, b.size)

(* Every allocation lies in the memory given to phys_alloc_init, below     *)
(* what is still free.                                                     *)
BlocksInside ==
  \A b \in blocks : origin <= b.addr /\ b.addr + b.size <= base /\ base <= top

(* What memalign returns is aligned as asked for and, with the metadata in *)
(* front of it, lies inside the block the allocator returned.              *)
UserInside ==
  \A b \in blocks : /\ b.mem % b.align = 0
                    /\ b.addr + METADATA_EXTRA <= b.mem
                    /\ b.mem + b.want <= b.addr + b.size

(* Until the log is full it lists every allocation, and its entries follow *)
(* each other in memory.                                                   *)
LogFaithful ==
  /\ Len(regions) < NrRegions =>
       \A b \in blocks : \E i \in 1 .. Len(regions) :
         regions[i] = [base |-> b.addr, size |-> b.size]
  /\ \A i, j \in 1 .. Len(regions) :
       i < j => regions[i].base + regions[i].size <= regions[j].base

(* The CPU that runs setup_vm owns all it was told to be unused: no        *)
(* allocation lies in it.  (So if no other CPU allocates meanwhile: base   *)
(* is read outside the lock.)                                              *)
UnusedOwned ==
  \A c \in CPUs : pc[c] = "owner" =>
    \A b \in blocks : Apart(p_base[c], p_top[c] - p_base[c], b.addr, b.size)

(* The inductive invariant behind the properties above: memory is given    *)
(* out upwards, so that all allocations and log entries lie below base.    *)
Upwards ==
  /\ origin <= base /\ base <= top
  /\ alloc_ops = "none" => /\ blocks = {} /\ regions = <<>>
                           /\ \A c \in CPUs : pc[c] = "idle"
  /\ \A i \in 1 .. Len(regions) : regions[i].base + regions[i].size <= base

(* The inductive invariant: the properties above hold together, and base   *)
(* moves only upwards past what has been allocated.                        *)
IInv == /\ TypeOK /\ Upwards /\ BlocksApart /\ BlocksInside /\ UserInside
        /\ LogFaithful

(* Allocations never write past the log: until phys_alloc_get_unused adds  *)
(* its entry, which it does without looking for room, the log is inside    *)
(* its array, also when there are more allocations than entries.           *)
LogInBounds ==
  (\A c \in CPUs : pc[c] \notin {"switch", "owner", "abort"}) =>
    Len(regions) <= NrRegions
=============================================================================
