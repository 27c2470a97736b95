------------------------------ MODULE Vmalloc ------------------------------
(***************************************************************************)
(* malloc, calloc, memalign and free after setup_vm: lib/alloc.c on top of *)
(* vm_memalign and vm_free (lib/vmalloc.c), which take pages from the page *)
(* allocator one by one and map them at fresh virtual addresses with       *)
(* install_page (lib/x86/vm.c), itself a client of the page allocator when *)
(* a page table is missing.                                                *)
(*                                                                         *)
(* Other CPUs may call alloc_page and free_page; their steps, those of     *)
(* PageAlloc, go on in between.  Virtual addresses count units of which a  *)
(* page has PageSize; the area below vfree_top is bounded.                 *)
(***************************************************************************)
EXTENDS PageAlloc

CONSTANTS
  PageSize,    \* units of memory in a page
  Word,        \* sizeof(uintptr_t)
  Aligns,      \* alignments asked for
  Wants,       \* sizes asked for
  VirtPages,   \* bound: virtual pages below the initial vfree_top
  TableSpan    \* virtual pages that one page table maps

ASSUME VmallocAssumption ==
  /\ {PageSize, Word, VirtPages, TableSpan} \subseteq Nat \ {0}
  /\ Aligns \subseteq 1 .. PageSize    \* the assertion in vm_memalign
  /\ Wants \subseteq Nat \ {0}
  /\ PageSize % Word = 0               \* 4096 and 8 in the code

VARIABLES
  vfree_top,   \* lowest virtual page handed out
  pte,         \* virtual page -> page mapped there, NULL if none
  table,       \* page tables: part of the virtual area -> page, or NULL
  job,         \* per CPU: the call of memalign or free it is in
  live         \* the blocks the program has, with the metadata of each

vmVars == <<vfree_top, pte, table, job, live>>
allVars == <<vars, vmVars>>

ALIGN(x, a) == ((x + a - 1) \div a) * a
METADATA_EXTRA == 2 * Word

(* A call: where it stands, its block, the place in it reached (p) and     *)
(* what is left to do there, in units; the page to be mapped next.         *)
Idle == [at |-> "idle", mem |-> 0, p |-> 0, left |-> 0, size |-> 0,
         align |-> 0, want |-> 0, page |-> NULL]
Part(p) == (p \div PageSize) \div TableSpan
Step(c, j) == job' = [job EXCEPT ![c] = j]

VmInit ==
  /\ Init
  /\ vfree_top = VirtPages
  /\ pte = [v \in 0 .. VirtPages - 1 |-> NULL]
  /\ table = [t \in 0 .. (VirtPages - 1) \div TableSpan |-> NULL]
  /\ job = [c \in CPUs |-> Idle]
  /\ live = {}
-----------------------------------------------------------------------------
(* memalign's size; align_min is PAGE_SIZE now. *)
BlockSize(alignment, want) ==
  ALIGN((IF alignment <= Word THEN want ELSE want + alignment - 1)
        + METADATA_EXTRA, PageSize)

(* memalign, and vm_memalign up to the unlock in alloc_vpages.  The bound  *)
(* on the pages held counts those the call will need, page tables too.     *)
Malloc(c, alignment, want) ==
  LET size == BlockSize(alignment, want)
      pages == ALIGN(size, PageSize) \div PageSize
      parts == {v \div TableSpan : v \in vfree_top - pages .. vfree_top - 1}
      tables == {t \in parts \cap DOMAIN table : table[t] = NULL}
  IN  /\ job[c].at = "idle" /\ Call(c, "malloc")
      /\ pages <= vfree_top /\ Room(c, pages + Cardinality(tables))
      /\ vfree_top' = vfree_top - pages
      /\ Step(c, [Idle EXCEPT
                    !.at = "vpages", !.left = pages * PageSize, !.size = size,
                    !.align = IF alignment <= Word THEN Word ELSE alignment,
                    !.want = want])
      /\ UNCHANGED <<freelist, link, held, pc, locals, pte, table, live>>

(* alloc_vpages reads vfree_top again after the unlock. *)
AllocVpages(c) ==
  /\ job[c].at = "vpages"
  /\ Step(c, [job[c] EXCEPT !.at = "page", !.mem = vfree_top * PageSize,
                            !.p = vfree_top * PageSize])
  /\ UNCHANGED <<vars, vfree_top, pte, table, live>>

(* alloc_page, for the next page of the block or for a page table.  Its    *)
(* result is not compared with NULL; the pages last, by Malloc's guard.    *)
PageCheck(c) ==
  /\ job[c].at \in {"page", "table"} /\ pc[c] = "idle"
  /\ AllocCheck(c)
  /\ freelist # NULL /\ UNCHANGED vmVars

PageTake(c) ==
  /\ job[c].at \in {"page", "table"}
  /\ AllocTake(c)
  /\ \/ /\ job[c].at = "page"
        /\ Step(c, [job[c] EXCEPT !.at = "install", !.page = freelist])
        /\ UNCHANGED table
     \/ /\ job[c].at = "table" /\ Step(c, [job[c] EXCEPT !.at = "install"])
        /\ table' = [table EXCEPT ![Part(job[c].p)] = freelist]
  /\ UNCHANGED <<vfree_top, pte, live>>

(* Mutant of InstallPage: p is not advanced. *)
InstallPageSame(c) ==
  LET j == job[c]
  IN  /\ j.at = "install" /\ table[Part(j.p)] # NULL
      /\ pte' = [pte EXCEPT ![j.mem \div PageSize] = j.page]
      /\ Step(c, [j EXCEPT !.at = IF j.left > PageSize THEN "page" ELSE "done",
                           !.left = @ - PageSize])
      /\ UNCHANGED <<vars, vfree_top, table, live>>

(* install_page; install_pte looks for the page table first. *)
InstallPage(c) ==
  LET j == job[c]
  IN  /\ j.at = "install" /\ table[Part(j.p)] # NULL
      /\ pte' = [pte EXCEPT ![j.p \div PageSize] = j.page]
      /\ Step(c, [j EXCEPT !.at = IF j.left > PageSize THEN "page" ELSE "done",
                           !.p = @ + PageSize, !.left = @ - PageSize])
      /\ UNCHANGED <<vars, vfree_top, table, live>>

InstallTable(c) ==
  /\ job[c].at = "install" /\ table[Part(job[c].p)] = NULL
  /\ Step(c, [job[c] EXCEPT !.at = "table"])
  /\ UNCHANGED <<vars, vfree_top, pte, table, live>>

(* The rest of memalign: room for the metadata, then the metadata. *)
MallocDone(c) ==
  LET j == job[c]
      mem == ALIGN(j.mem + METADATA_EXTRA, j.align)
  IN  /\ j.at = "done"
      /\ live' = live \cup {[mem |-> mem, slack |-> mem - j.mem,
                             size |-> j.size, want |-> j.want]}
      /\ Step(c, Idle)
      /\ UNCHANGED <<vars, vfree_top, pte, table>>
-----------------------------------------------------------------------------
(* free: block_begin and block_size read the metadata. *)
FreeBlock(c) ==
  /\ job[c].at = "idle" /\ Call(c, "malloc")
  /\ \E b \in live : /\ live' = live \ {b}
                     /\ Step(c, [Idle EXCEPT !.at = "free", !.left = b.size,
                                             !.p = b.mem - b.slack])
  /\ UNCHANGED <<freelist, link, held, pc, locals, vfree_top, pte, table>>

(* vm_free: free_page of what is mapped at mem, until size is 0. *)
VmFree(c) ==
  LET j == job[c]
  IN  /\ j.at = "free" /\ UNCHANGED <<vfree_top, pte, table, live>>
      /\ \/ /\ j.left # 0
            /\ FreePage(c) /\ freelist' = pte[j.p \div PageSize]
            /\ Step(c, [j EXCEPT !.p = @ + PageSize, !.left = @ - PageSize])
         \/ /\ j.left = 0
            /\ Step(c, Idle)
            /\ UNCHANGED vars

(* Calls of the page allocator on the CPUs that do not use malloc. *)
PageCalls(c) ==
  /\ "malloc" \notin usage.ops[c] /\ UNCHANGED vmVars
  /\ \/ AllocCheck(c) \/ AllocTake(c) \/ AllocPagesRead(c) \/ AllocPagesScan(c)
     \/ FreePages(c) \/ FreePage(c)

VmNext ==
  \/ SetupVm /\ UNCHANGED vmVars
  \/ \E c \in CPUs :
       \/ PageCalls(c)
       \/ Scribble(c) /\ UNCHANGED vmVars
       \/ \E a \in Aligns, w \in Wants : Malloc(c, a, w)
       \/ AllocVpages(c) \/ PageCheck(c) \/ PageTake(c) \/ InstallPage(c)
       \/ InstallTable(c) \/ MallocDone(c) \/ FreeBlock(c) \/ VmFree(c)

VmSpec == VmInit /\ [][VmNext]_allVars

(* Another condition the code needs: one CPU at most calls malloc and      *)
(* free.  Otherwise another call may move vfree_top before AllocVpages.    *)
OneMalloc(u) ==
  \A c, d \in CPUs : "malloc" \in u.ops[c] \cap u.ops[d] => c = d
-----------------------------------------------------------------------------
VirtOf(b) ==
  (b.mem - b.slack) \div PageSize ..
    (b.mem - b.slack + b.size - 1) \div PageSize

(* The heap is intact: what malloc returned lies with its metadata inside  *)
(* its own block, every page of every block is mapped to a page the        *)
(* program holds, and no page is mapped twice or serves as a page table as *)
(* well, whatever has been freed in between (vm_memalign, vm_free; a page  *)
(* that is freed stays mapped).                                            *)
HeapIntact ==
  LET uses == {<<b, v>> : b \in live, v \in DOMAIN pte}
      pages == {u \in uses : u[2] \in VirtOf(u[1])}
      owned == UNION {HeldPages(c) : c \in CPUs}
  IN  /\ \A b \in live : /\ METADATA_EXTRA <= b.slack
                         /\ b.slack + b.want <= b.size
      /\ \A u \in pages : /\ pte[u[2]] \in owned
                          /\ \A t \in DOMAIN table : table[t] # pte[u[2]]
      /\ \A u, w \in pages : u # w => pte[u[2]] # pte[w[2]]
=============================================================================
