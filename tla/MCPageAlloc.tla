---------------------------- MODULE MCPageAlloc ----------------------------
(* PageAlloc for TLC. *)
EXTENDS PageAlloc

CONSTANTS c1, c2

Use(ops1, ops2, held1, held2, pages) ==
  [ops |-> [c \in CPUs |-> IF c = c1 THEN ops1 ELSE ops2],
   held |-> [c \in CPUs |-> IF c = c1 THEN held1 ELSE held2],
   pages |-> pages]

(* One CPU in alloc_pages, the other in alloc_page. *)
RaceUse == {Use({"alloc_pages"}, {"alloc_page"}, 2, 2, {4})}
=============================================================================
