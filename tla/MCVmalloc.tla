------------------------------ MODULE MCVmalloc ------------------------------
(* The page allocator and malloc on top of it, for TLC.                    *)
EXTENDS Vmalloc

CONSTANTS c1, c2

Use(ops1, ops2, held1, held2, pages) ==
  [ops |-> [c \in CPUs |-> IF c = c1 THEN ops1 ELSE ops2],
   held |-> [c \in CPUs |-> IF c = c1 THEN held1 ELSE held2],
   pages |-> pages]

(* One CPU that calls all of the page allocator; two that call only        *)
(* alloc_page and the two functions that free, and together never hold all *)
(* pages; one in malloc and free; and one in malloc and free while another *)
(* allocates and frees a page.                                             *)
SafeUse ==
  {Use(PageOps, {}, 5, 0, 0 .. 5),
   Use(PageOps \ {"alloc_pages"}, PageOps \ {"alloc_pages"}, 2, 2, {5}),
   Use({"alloc_page", "free_page", "malloc"}, {}, 6, 0, {6}),
   Use({"alloc_page", "free_page", "malloc"}, {"alloc_page", "free_page"},
       3, 1, {5})}

(* Each of them is one that the proofs allow for. *)
ASSUME SoundUsages == \A u \in Usages : SoundUse(u) /\ OneMalloc(u)
=============================================================================
