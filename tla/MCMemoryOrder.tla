--------------------------- MODULE MCMemoryOrder ---------------------------
(* Model-checking instance of MemoryOrder: the three programs, and three   *)
(* rounds of each test, so that one can meet what those before it left.    *)
EXTENDS MemoryOrder

MCLoopCases == <<46532, 46533>>
=============================================================================
