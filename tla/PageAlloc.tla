----------------------------- MODULE PageAlloc -----------------------------
(***************************************************************************)
(* The page allocator, lib/alloc_page.c: a free list threaded through the  *)
(* free pages themselves, under one spin lock.                             *)
(*                                                                         *)
(* alloc_page and alloc_pages look at freelist before they take the lock;  *)
(* those reads are steps of their own.  What a function does with the lock *)
(* held writes freelist once, so to the unlocked readers the critical      *)
(* section is one step.  A page that is in use belongs to its owner, who   *)
(* may overwrite the word in which a free page keeps its link.             *)
(*                                                                         *)
(* Addresses are page frame numbers.                                       *)
(***************************************************************************)
EXTENDS Integers, FiniteSets

CONSTANTS CPUs,
          First, NrPages,  \* the memory that setup_vm may hand over
          Usages,          \* ways in which programs use the allocator
          Orders,          \* arguments of alloc_pages
          Junk             \* what a page in use holds where the link was

NULL == 0
Pages == First .. First + NrPages - 1

(* A usage: the functions each CPU calls, the pages it holds at most, and  *)
(* how many pages setup_vm may find.                                       *)
PageOps == {"alloc_page", "alloc_pages", "free_page", "free_pages"}
OpNames == PageOps \cup {"malloc"}   \* malloc and free, see Vmalloc

ASSUME PageAllocAssumption ==
  /\ First \in Nat \ {0} /\ NrPages \in Nat
  /\ Orders \subseteq Nat /\ \A o \in Orders : 2^o \in Nat \ {0}
  /\ Usages \subseteq [ops : [CPUs -> SUBSET OpNames], held : [CPUs -> Nat],
                       pages : SUBSET (0 .. NrPages)]
  /\ Junk \notin Pages \cup {NULL}

VARIABLES
  usage,     \* how this program uses the allocator
  given,     \* pages handed over by setup_vm, -1 standing for none yet
  freelist,  \* head of the free list
  link,      \* first word of each page
  held,      \* per CPU: the blocks it owns
  pc,        \* per CPU: where it stands
  head,      \* per CPU: alloc_pages' local next, read before the lock
  order      \* per CPU: alloc_pages' argument

vars == <<usage, given, freelist, link, held, pc, head, order>>
locals == <<head, order>>

Block(start, n) == [start |-> start, n |-> n]
PagesOf(b) == b.start .. b.start + b.n - 1
HeldPages(c) == UNION {PagesOf(b) : b \in held[c]}

(* The free list: Walk[i] is the i-th page after the head. *)
Walk[i \in 0 .. NrPages] ==
  IF i = 0 THEN freelist
           ELSE IF Walk[i - 1] \in Pages THEN link[Walk[i - 1]] ELSE NULL
Free == {Walk[i] : i \in 0 .. NrPages} \ {NULL}

None == -1

Init ==
  /\ usage \in Usages
  /\ given = None
  /\ freelist = NULL
  /\ link = [p \in Pages \cup {NULL} |-> Junk]
  /\ held = [c \in CPUs |-> {}]
  /\ pc = [c \in CPUs |-> "idle"]
  /\ head = [c \in CPUs |-> NULL]
  /\ order = [c \in CPUs |-> 0]
-----------------------------------------------------------------------------
(* Mutant: the last page ends the list instead of joining the old one. *)
PutPagesCut(mem, n) ==
  IF n = 0
    THEN freelist' = NULL /\ UNCHANGED link
    ELSE /\ freelist' = mem
         /\ link' = [p \in DOMAIN link |->
                       IF p \in mem .. mem + n - 2 THEN p + 1
                       ELSE IF p = mem + n - 1 THEN NULL ELSE link[p]]

(* free_pages of n pages from mem on.  Size zero empties the list. *)
PutPages(mem, n) ==
  IF n = 0
    THEN freelist' = NULL /\ UNCHANGED link
    ELSE /\ freelist' = mem
         /\ link' = [p \in DOMAIN link |->
                       IF p \in mem .. mem + n - 2 THEN p + 1
                       ELSE IF p = mem + n - 1 THEN freelist ELSE link[p]]

(* setup_vm hands over what phys_alloc_get_unused left. *)
SetupVm ==
  /\ given = None
  /\ \E n \in usage.pages : given' = n /\ PutPages(First, n)
  /\ UNCHANGED <<usage, held, pc, locals>>

Call(c, op) == /\ given # None /\ pc[c] = "idle" /\ op \in usage.ops[c]
               /\ UNCHANGED <<usage, given>>
Goto(c, l) == pc' = [pc EXCEPT ![c] = l]

FreePages(c) ==
  /\ Call(c, "free_pages")
  /\ \E b \in held[c] : /\ PutPages(b.start, b.n)
                        /\ held' = [held EXCEPT ![c] = @ \ {b}]
  /\ UNCHANGED <<pc, head, order>>

FreePage(c) ==
  /\ Call(c, "free_page")
  /\ \E b \in held[c] : /\ b.n = 1
                        /\ link' = [link EXCEPT ![b.start] = freelist]
                        /\ freelist' = b.start
                        /\ held' = [held EXCEPT ![c] = @ \ {b}]
  /\ UNCHANGED <<pc, head, order>>
-----------------------------------------------------------------------------
Room(c, n) == Cardinality(HeldPages(c)) + n <= usage.held[c]

(* alloc_page: the test outside the lock. *)
AllocCheck(c) ==
  /\ Call(c, "alloc_page") /\ Room(c, 1)
  /\ Goto(c, IF freelist = NULL THEN "idle" ELSE "take")
  /\ UNCHANGED <<freelist, link, held, head, order>>

(* Mutant: the page stays on the list. *)
AllocTakeStays(c) ==
  /\ pc[c] = "take"
  /\ held' = [held EXCEPT ![c] = @ \cup {Block(freelist, 1)}]
  /\ Goto(c, "idle")
  /\ UNCHANGED <<usage, given, freelist, link, locals>>

(* alloc_page: the locked part. *)
AllocTake(c) ==
  /\ pc[c] = "take"
  /\ freelist' = link[freelist]
  /\ held' = [held EXCEPT ![c] = @ \cup {Block(freelist, 1)}]
  /\ Goto(c, "idle")
  /\ UNCHANGED <<usage, given, link, locals>>
-----------------------------------------------------------------------------
(* alloc_pages: next = freelist, before the lock. *)
AllocPagesRead(c) ==
  /\ Call(c, "alloc_pages")
  /\ \E o \in Orders : Room(c, 2^o) /\ order' = [order EXCEPT ![c] = o]
  /\ head' = [head EXCEPT ![c] = freelist]
  /\ Goto(c, "scan")
  /\ UNCHANGED <<freelist, link, held>>

(* One turn of the loop that looks for a run of n pages. *)
ScanTurn(s, n) ==
  LET curr == s.next
      starts == s.run = 0 /\ curr % n = 0
      run == IF starts THEN 1
             ELSE IF s.run > 0 /\ curr = s.run_next THEN s.run + 1 ELSE 0
  IN IF s.run = n \/ curr \notin Pages
     THEN s
     ELSE [curr      |-> curr,
           next      |-> link[curr],
           run       |-> run,
           run_start |-> IF starts THEN curr ELSE s.run_start,
           run_prev  |-> IF starts THEN s.curr ELSE s.run_prev,
           run_next  |-> curr + 1]

(* The loop: it ends at a run of n pages or at the end of the list. *)
Scan(start, n) ==
  LET Turn[i \in 0 .. NrPages] ==
        IF i = 0
          THEN [curr |-> NULL, next |-> start, run |-> 0, run_start |-> NULL,
                run_prev |-> NULL, run_next |-> NULL]
          ELSE ScanTurn(Turn[i - 1], n)
  IN Turn[NrPages]

AllocPagesScan(c) ==
  /\ pc[c] = "scan"
  /\ LET n == 2^order[c]
         s == Scan(head[c], n)
     IN IF s.run = n
        THEN /\ IF s.run_prev # NULL
                  THEN /\ link' = [link EXCEPT ![s.run_prev] = s.next]
                       /\ UNCHANGED freelist
                  ELSE /\ freelist' = s.next
                       /\ UNCHANGED link
             /\ held' = [held EXCEPT ![c] = @ \cup {Block(s.run_start, n)}]
        ELSE UNCHANGED <<freelist, link, held>>
  /\ Goto(c, "idle")
  /\ UNCHANGED <<usage, given, head, order>>
-----------------------------------------------------------------------------
(* The owner of a page uses the word that held the link. *)
Scribble(c) ==
  /\ \E p \in HeldPages(c) : link[p] # Junk /\ link' = [link EXCEPT ![p] = Junk]
  /\ UNCHANGED <<usage, given, freelist, held, pc, locals>>

Next == SetupVm \/ \E c \in CPUs : \/ FreePages(c) \/ FreePage(c)
                                   \/ AllocCheck(c) \/ AllocTake(c)
                                   \/ AllocPagesRead(c) \/ AllocPagesScan(c)
                                   \/ Scribble(c)

Spec == Init /\ [][Next]_vars

(* The conditions the code needs: one CPU alone calls the allocator, or    *)
(* none calls alloc_pages and the pages suffice for all that the CPUs may  *)
(* hold between them.  Otherwise what is read before the lock may be stale *)
(* inside it.                                                              *)
Alone(u) == \E c \in CPUs : \A d \in CPUs \ {c} : u.ops[d] \cap PageOps = {}

Slots(u) == UNION {{c} \X (1 .. u.held[c]) : c \in CPUs}
Roomy(u) == /\ IsFiniteSet(Slots(u))
            /\ \A c \in CPUs : "alloc_pages" \notin u.ops[c]
            /\ \A n \in u.pages : Cardinality(Slots(u)) <= n

SoundUse(u) == Alone(u) \/ Roomy(u)
-----------------------------------------------------------------------------
(* No page has two owners: neither two CPUs nor two blocks of one CPU.     *)
OneOwner ==
  \A c, d \in CPUs : \A a \in held[c] : \A b \in held[d] :
    <<c, a>> # <<d, b>> => PagesOf(a) \cap PagesOf(b) = {}

(* No page is lost, and none given out is still on the list: every page    *)
(* that setup_vm handed over is either free or owned.                      *)
NoneLost ==
  LET owned == UNION {HeldPages(c) : c \in CPUs}
  IN  given # None => /\ Free \cup owned = First .. First + given - 1
                      /\ Free \cap owned = {}
=============================================================================
