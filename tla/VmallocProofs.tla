--------------------------- MODULE VmallocProofs ---------------------------
(***************************************************************************)
(* The heap that malloc and free keep on top of the page allocator stays   *)
(* intact, for every size and alignment, any number of blocks and of CPUs  *)
(* beside the one that calls malloc.                                       *)
(*                                                                         *)
(* The invariant follows the call that is under way: which virtual pages   *)
(* it has reserved, which of them it has mapped, and the page it has taken *)
(* and not mapped yet.  The pages of all blocks, those of the call, and    *)
(* the page tables are different, and malloc's CPU owns them; that the     *)
(* page alloc_page takes is none of them comes from PageInv.               *)
(***************************************************************************)
EXTENDS PageAllocProofs

(* The places of a call of malloc that has its virtual pages, and what a   *)
(* call can be.                                                            *)
Making == {"page", "table", "install", "done"}
Jobs == [at : {"idle", "vpages", "free"} \cup Making, mem : Nat, p : Nat,
         left : Nat, size : Nat, align : Nat, want : Nat,
         page : Pages \cup {NULL}]

(* The call's virtual pages: from the first of its block on, from the one  *)
(* it has come to on, and where they end.                                  *)
From(j) == j.mem \div PageSize
Cur(j) == j.p \div PageSize
Upto(j) == (j.p + j.left) \div PageSize

(* Those that are mapped, and all of them. *)
MappedBy(j) ==
  IF j.at \in Making THEN From(j) .. Cur(j) - 1
  ELSE IF j.at = "free" THEN Cur(j) .. Upto(j) - 1 ELSE {}
SpanOf(j, top) ==
  IF j.at \in Making THEN From(j) .. Upto(j) - 1
  ELSE IF j.at = "free" THEN Cur(j) .. Upto(j) - 1
  ELSE IF j.at = "vpages" THEN top .. top + (j.left \div PageSize) - 1
  ELSE {}

(* The page it has taken and not yet mapped. *)
InHand(j) == IF j.at \in {"install", "table"} THEN {j.page} ELSE {}

(* A call whose block goes from page a up to page k and that has come to   *)
(* page b.                                                                 *)
JobAt(j, a, b, k, top) ==
  /\ j.mem = PageSize * a /\ j.p = PageSize * b /\ j.left = PageSize * (k - b)
  /\ j.size = PageSize * (k - a)
  /\ top <= a /\ a < k /\ a <= b /\ b <= k

(* The pages have room for the metadata, what was asked for and what is    *)
(* lost to the alignment.                                                  *)
Fits(j) ==
  /\ j.align \in Nat \ {0}
  /\ j.want + METADATA_EXTRA + (IF j.align = Word THEN 0 ELSE j.align - 1)
       <= j.size

(* Every call works on whole pages above top; one that has only reserved   *)
(* its pages will find them right at top.                                  *)
JobOk(j, top) ==
  /\ j.at \in Making =>
       /\ Fits(j)
       /\ \E a, b, k \in 0 .. VirtPages :
            JobAt(j, a, b, k, top) /\ (j.at = "done" <=> b = k)
  /\ j.at = "vpages" =>
       /\ Fits(j)
       /\ \E n \in 1 .. VirtPages :
            /\ j.left = PageSize * n /\ j.size = PageSize * n
            /\ top + n <= VirtPages
  /\ j.at = "free" =>
       \E b, k \in 0 .. VirtPages :
         /\ j.p = PageSize * b /\ j.left = PageSize * (k - b)
         /\ top <= b /\ b <= k

(* A block has whole pages above top, and its metadata and contents fit. *)
LiveOk(b, top) ==
  /\ METADATA_EXTRA <= b.slack /\ b.slack + b.want <= b.size
  /\ b.slack \in Nat /\ b.want \in Nat
  /\ \E a, k \in 0 .. VirtPages :
       /\ b.mem - b.slack = PageSize * a /\ b.size = PageSize * (k - a)
       /\ top <= a /\ a < k

(* The virtual pages of blocks, all that are mapped and in use, the pages  *)
(* in hand and the pages of malloc's CPU.                                  *)
LiveV(S) == UNION {VirtOf(b) : b \in S}
Mapped == LiveV(live) \cup UNION {MappedBy(job[c]) : c \in CPUs}
Hands == UNION {InHand(job[c]) : c \in CPUs}
Heap == {x \in Pages : \E c \in CPUs : /\ "malloc" \in usage.ops[c]
                                       /\ Block(x, 1) \in held[c]}

(* With f as the page table entries and t as the page tables: what is      *)
(* mapped at M, in hand (X) or a page table is in H, and no page is two of *)
(* these or mapped twice.                                                  *)
Sound(M, H, X, f, t) ==
  /\ M \subseteq DOMAIN f
  /\ \A v \in M : f[v] \in H
  /\ \A v, w \in M : v # w => f[v] # f[w]
  /\ \A i \in DOMAIN t : t[i] # NULL =>
       t[i] \in H /\ \A v \in M : f[v] # t[i]
  /\ X \subseteq H
  /\ \A x \in X : /\ \A v \in M : f[v] # x
                  /\ \A i \in DOMAIN t : t[i] # x

(* No two blocks, and no block and the call, share a virtual page. *)
Apart ==
  /\ \A b, d \in live : b # d => VirtOf(b) \cap VirtOf(d) = {}
  /\ \A b \in live : \A c \in CPUs :
       VirtOf(b) \cap SpanOf(job[c], vfree_top) = {}

(* The range of every variable. *)
VmTypes ==
  /\ job \in [CPUs -> Jobs] /\ vfree_top \in 0 .. VirtPages
  /\ DOMAIN pte = 0 .. VirtPages - 1
  /\ DOMAIN table = 0 .. (VirtPages - 1) \div TableSpan
  /\ OneMalloc(usage)

(* The inductive invariant. *)
HeapInv ==
  /\ VmTypes
  /\ \A c \in CPUs : job[c].at # "idle" => "malloc" \in usage.ops[c]
  /\ \A c \in CPUs : JobOk(job[c], vfree_top)
  /\ \A b \in live : LiveOk(b, vfree_top)
  /\ Apart
  /\ Sound(Mapped, Heap, Hands, pte, table)
-----------------------------------------------------------------------------
(* The constants. *)
LEMMA Sizes ==
  /\ PageSize \in Nat \ {0} /\ Word \in Nat \ {0} /\ VirtPages \in Nat \ {0}
  /\ TableSpan \in Nat \ {0} /\ METADATA_EXTRA = 2 * Word
  /\ Aligns \subseteq 1 .. PageSize /\ Wants \subseteq Nat \ {0}
  /\ PageSize % Word = 0
BY VmallocAssumption DEF METADATA_EXTRA

(* Whole pages, and places in the last of them. *)
LEMMA Whole ==
  ASSUME NEW P \in Nat \ {0}, NEW q \in Nat
  PROVE  /\ P * q \in Nat /\ (P * q) \div P = q
         /\ \A r \in 0 .. P - 1 : (P * q + r) \div P = q
OBVIOUS

(* Rounding up to a multiple. *)
LEMMA AlignUp ==
  ASSUME NEW P \in Nat \ {0}, NEW x \in Nat
  PROVE  \E q \in Nat : ALIGN(x, P) = P * q /\ x <= P * q /\ P * q <= x + P - 1
<1> DEFINE y == x + P - 1
           q == y \div P
<1>1. y \in Nat
  OBVIOUS
<1>2. q \in Nat /\ P * q <= y /\ y < P * q + P
  BY <1>1
<1>3. ALIGN(x, P) = q * P
  BY DEF ALIGN
<1>4. q * P = P * q
  BY <1>2
<1> QED
  BY <1>2, <1>3, <1>4

(* A multiple stays as it is. *)
LEMMA AlignWhole ==
  ASSUME NEW P \in Nat \ {0}, NEW q \in Nat
  PROVE  ALIGN(P * q, P) = P * q
<1>1. (P * q + (P - 1)) \div P = q
  BY Whole
<1>2. P * q + P - 1 = P * q + (P - 1) /\ q * P = P * q
  OBVIOUS
<1> QED
  BY <1>1, <1>2 DEF ALIGN

(* The pages of a call, from its addresses. *)
LEMMA JobPages ==
  ASSUME NEW j, NEW a \in Nat, NEW b \in Nat, NEW k \in Nat, NEW top,
         JobAt(j, a, b, k, top)
  PROVE  From(j) = a /\ Cur(j) = b /\ Upto(j) = k
<1>1. PageSize \in Nat \ {0}
  BY Sizes
<1>2. PageSize * b + PageSize * (k - b) = PageSize * k
  BY <1>1
<1>3. /\ (PageSize * a) \div PageSize = a /\ (PageSize * b) \div PageSize = b
      /\ (PageSize * k) \div PageSize = k
  BY <1>1, Whole
<1> QED
  BY <1>2, <1>3 DEF JobAt, From, Cur, Upto

(* The pages of a block. *)
LEMMA BlockPages ==
  ASSUME NEW b, NEW a \in Nat, NEW k \in Nat, a < k,
         b.mem - b.slack = PageSize * a, b.size = PageSize * (k - a)
  PROVE  VirtOf(b) = a .. k - 1
<1>1. PageSize \in Nat \ {0}
  BY Sizes
<1>2. PageSize * a + PageSize * (k - a) - 1
        = PageSize * (k - 1) + (PageSize - 1)
  BY <1>1
<1>3. /\ (PageSize * a) \div PageSize = a
      /\ (PageSize * (k - 1) + (PageSize - 1)) \div PageSize = k - 1
  BY <1>1, Whole
<1> QED
  BY <1>2, <1>3 DEF VirtOf
-----------------------------------------------------------------------------
(* A page is taken: it is in hand. *)
LEMMA SoundTake ==
  ASSUME NEW M, NEW H, NEW f, NEW t, Sound(M, H, {}, f, t), NEW x,
         x \notin H, x # NULL
  PROVE  Sound(M, H \cup {x}, {x}, f, t)
BY DEF Sound

(* A page becomes a page table. *)
LEMMA SoundTable ==
  ASSUME NEW M, NEW H, NEW X, NEW f, NEW t, Sound(M, H, X, f, t), NEW x,
         x \notin H, NEW i \in DOMAIN t
  PROVE  Sound(M, H \cup {x}, X, f, [t EXCEPT ![i] = x])
BY DEF Sound

(* The page in hand is mapped. *)
LEMMA SoundInstall ==
  ASSUME NEW M, NEW H, NEW f, NEW t, NEW x, Sound(M, H, {x}, f, t),
         NEW v \in DOMAIN f, v \notin M
  PROVE  Sound(M \cup {v}, H, {}, [f EXCEPT ![v] = x], t)
BY DEF Sound

(* A mapped page is freed; its entry stays. *)
LEMMA SoundFree ==
  ASSUME NEW M, NEW H, NEW f, NEW t, Sound(M, H, {}, f, t), NEW v \in M
  PROVE  Sound(M \ {v}, H \ {f[v]}, {}, f, t)
BY DEF Sound

(* Only the call of the CPU that uses malloc counts. *)
LEMMA SoundCalls ==
  ASSUME HeapInv, NEW c \in CPUs, "malloc" \in usage.ops[c]
  PROVE  /\ Mapped = LiveV(live) \cup MappedBy(job[c])
         /\ Hands = InHand(job[c])
         /\ \A d \in CPUs \ {c} : job[d].at = "idle"
         /\ Sound(LiveV(live) \cup MappedBy(job[c]), Heap, InHand(job[c]),
                  pte, table)
<1>1. \A d \in CPUs \ {c} : job[d].at = "idle"
  BY DEF HeapInv, VmTypes, OneMalloc
<1>2. \A d \in CPUs \ {c} : MappedBy(job[d]) = {} /\ InHand(job[d]) = {}
  BY <1>1 DEF MappedBy, InHand, Making
<1>3. UNION {MappedBy(job[d]) : d \in CPUs} = MappedBy(job[c])
  BY <1>2
<1>4. Hands = InHand(job[c])
  BY <1>2 DEF Hands
<1>5. Mapped = LiveV(live) \cup MappedBy(job[c])
  BY <1>3 DEF Mapped
<1> QED
  BY <1>1, <1>4, <1>5 DEF HeapInv

(* What a step of a call of malloc or free has to keep. *)
LEMMA CallStep ==
  ASSUME HeapInv, UNCHANGED usage, NEW c \in CPUs, "malloc" \in usage.ops[c],
         NEW j \in Jobs, job' = [job EXCEPT ![c] = j],
         vfree_top' \in 0 .. VirtPages, DOMAIN pte' = DOMAIN pte,
         DOMAIN table' = DOMAIN table, JobOk(j, vfree_top'),
         \A b \in live' : LiveOk(b, vfree_top'),
         \A b, d \in live' : b # d => VirtOf(b) \cap VirtOf(d) = {},
         \A b \in live' : VirtOf(b) \cap SpanOf(j, vfree_top') = {},
         Sound(LiveV(live') \cup MappedBy(j), Heap', InHand(j), pte', table')
  PROVE  HeapInv'
<1>1. job \in [CPUs -> Jobs] /\ \A d \in CPUs \ {c} : job[d].at = "idle"
  BY SoundCalls DEF HeapInv, VmTypes
<1>2. /\ job' \in [CPUs -> Jobs] /\ job'[c] = j
      /\ \A d \in CPUs \ {c} : job'[d].at = "idle"
  BY <1>1
<1>3. VmTypes'
  BY <1>2 DEF HeapInv, VmTypes, OneMalloc
<1>4. \A d \in CPUs \ {c} : /\ MappedBy(job'[d]) = {} /\ InHand(job'[d]) = {}
                            /\ SpanOf(job'[d], vfree_top') = {}
                            /\ JobOk(job'[d], vfree_top')
  BY <1>2 DEF MappedBy, InHand, SpanOf, JobOk, Making
<1>5. UNION {MappedBy(job'[d]) : d \in CPUs} = MappedBy(j)
  BY <1>2, <1>4
<1>6. UNION {InHand(job'[d]) : d \in CPUs} = InHand(j)
  BY <1>2, <1>4
<1>7. Mapped' = LiveV(live') \cup MappedBy(j) /\ Hands' = InHand(j)
  BY <1>5, <1>6 DEF Mapped, Hands, LiveV, VirtOf, MappedBy, InHand, From, Cur,
     Upto
<1>8. \A d \in CPUs : job'[d].at # "idle" => "malloc" \in usage'.ops[d]
  BY <1>2
<1>9. \A d \in CPUs : JobOk(job'[d], vfree_top')
  BY <1>2, <1>4
<1>10. Apart'
  <2>1. \A b \in live' : \A d \in CPUs :
          VirtOf(b) \cap SpanOf(job'[d], vfree_top') = {}
    BY <1>2, <1>4
  <2> QED BY <2>1 DEF Apart, VirtOf, SpanOf, From, Cur, Upto
<1>11. Sound(Mapped', Heap', Hands', pte', table')
  BY <1>7
<1> QED
  BY <1>3, <1>8, <1>9, <1>10, <1>11
     DEF HeapInv, JobOk, JobAt, Fits, LiveOk, Sound
-----------------------------------------------------------------------------
(* The pages that malloc's CPU has taken with alloc_page. *)
LEMMA HeapSame ==
  ASSUME UNCHANGED usage,
         \A c \in CPUs : "malloc" \in usage.ops[c] => held'[c] = held[c]
  PROVE  Heap' = Heap
BY DEF Heap, Block

(* alloc_page adds one. *)
LEMMA HeapMore ==
  ASSUME UNCHANGED usage, held \in [CPUs -> SUBSET Blocks],
         NEW c \in CPUs, "malloc" \in usage.ops[c], NEW x \in Pages,
         held' = [held EXCEPT ![c] = @ \cup {Block(x, 1)}]
  PROVE  Heap' = Heap \cup {x}
<1>1. held'[c] = held[c] \cup {Block(x, 1)}
  OBVIOUS
<1>2. \A d \in CPUs \ {c} : held'[d] = held[d]
  OBVIOUS
<1>3. \A y : Block(y, 1) = Block(x, 1) => y = x
  BY DEF Block
<1>5. ASSUME NEW y \in Pages
      PROVE  y \in Heap' <=> y \in Heap \/ y = x
  <2>1. y \in Heap' <=> \E d \in CPUs : /\ "malloc" \in usage.ops[d]
                                        /\ Block(y, 1) \in held'[d]
    BY DEF Heap, Block
  <2>2. y \in Heap <=> \E d \in CPUs : /\ "malloc" \in usage.ops[d]
                                       /\ Block(y, 1) \in held[d]
    BY DEF Heap
  <2> QED
    BY <1>1, <1>2, <1>3, <2>1, <2>2
<1>6. Heap' \subseteq Pages /\ Heap \subseteq Pages
  BY DEF Heap
<1> QED
  BY <1>5, <1>6

(* free_page takes one away. *)
LEMMA HeapLess ==
  ASSUME UNCHANGED usage, held \in [CPUs -> SUBSET Blocks], OneMalloc(usage),
         NEW c \in CPUs, "malloc" \in usage.ops[c], NEW x \in Pages,
         held' = [held EXCEPT ![c] = @ \ {Block(x, 1)}]
  PROVE  Heap' = Heap \ {x}
<1>1. held'[c] = held[c] \ {Block(x, 1)}
  OBVIOUS
<1>2. \A d \in CPUs : "malloc" \in usage.ops[d] => d = c
  BY DEF OneMalloc
<1>3. \A y : Block(y, 1) = Block(x, 1) => y = x
  BY DEF Block
<1>5. ASSUME NEW y \in Pages
      PROVE  y \in Heap' <=> y \in Heap /\ y # x
  <2>1. y \in Heap' <=> \E d \in CPUs : /\ "malloc" \in usage.ops[d]
                                        /\ Block(y, 1) \in held'[d]
    BY DEF Heap, Block
  <2>2. y \in Heap <=> \E d \in CPUs : /\ "malloc" \in usage.ops[d]
                                       /\ Block(y, 1) \in held[d]
    BY DEF Heap
  <2> QED
    BY <1>1, <1>2, <1>3, <2>1, <2>2
<1>6. Heap' \subseteq Pages /\ Heap \subseteq Pages
  BY DEF Heap
<1> QED
  BY <1>5, <1>6

(* They are owned. *)
LEMMA HeapOwned == Heap \subseteq Owned
<1> SUFFICES ASSUME NEW x \in Heap PROVE x \in Owned
  OBVIOUS
<1>1. PICK c \in CPUs : Block(x, 1) \in held[c]
  BY DEF Heap
<1>2. x \in PagesOf(Block(x, 1))
  <2>0. Pages \subseteq Nat
    BY Constants
  <2>1. x \in Pages
    BY DEF Heap
  <2>2. x \in Int
    BY <2>0, <2>1
  <2> QED
    BY <2>2 DEF PagesOf, Block
<1> QED
  BY <1>1, <1>2, OwnedBy

(* alloc_page takes a page that is not one of them. *)
LEMMA FreshPage ==
  ASSUME PageInv, NEW c \in CPUs, pc[c] = "take"
  PROVE  freelist \in Pages /\ freelist \notin Heap /\ freelist # NULL
<1>1. given # None /\ freelist # NULL
  BY TakeFindsPage
<1>2. HasList(freelist, link, Handed \ Owned) /\ Handed \subseteq Pages
  BY <1>1, HandedPages DEF PageInv, ListInv
<1>3. PICK k \in 0 .. NrPages : \E L \in [0 .. k - 1 -> Pages] :
        IsList(L, k, freelist, link) /\ Listed(L, k) = Handed \ Owned
  BY <1>2 DEF HasList
<1>4. PICK L \in [0 .. k - 1 -> Pages] :
        IsList(L, k, freelist, link) /\ Listed(L, k) = Handed \ Owned
  BY <1>3
<1>5. 0 < k /\ freelist = L[0]
  BY <1>1, <1>4 DEF IsList, At
<1>6. freelist \in Handed \ Owned
  BY <1>4, <1>5 DEF Listed
<1> QED
  BY <1>1, <1>2, <1>6, HeapOwned

(* Steps of the page allocator that leave malloc alone. *)
LEMMA ElsewhereStep ==
  ASSUME HeapInv, UNCHANGED vmVars, UNCHANGED usage,
         \A c \in CPUs : "malloc" \in usage.ops[c] => held'[c] = held[c]
  PROVE  HeapInv'
<1>1. UNCHANGED <<vfree_top, pte, table, job, live>>
  BY DEF vmVars
<1>2. Heap' = Heap
  BY HeapSame
<1>3. Mapped' = Mapped /\ Hands' = Hands
  BY <1>1 DEF Mapped, Hands, LiveV, VirtOf, MappedBy, InHand, From, Cur, Upto
<1>4. Sound(Mapped, Heap, Hands, pte, table)'
  BY <1>1, <1>2, <1>3 DEF HeapInv, Sound
<1>5. VmTypes'
  BY <1>1 DEF HeapInv, VmTypes, OneMalloc
<1>6. \A c \in CPUs : job'[c].at # "idle" => "malloc" \in usage'.ops[c]
  BY <1>1 DEF HeapInv
<1>7. \A c \in CPUs : JobOk(job[c], vfree_top)'
  BY <1>1 DEF HeapInv, JobOk, JobAt, Fits
<1>8. \A b \in live' : LiveOk(b, vfree_top')
  BY <1>1 DEF HeapInv
<1>9. Apart'
  BY <1>1 DEF HeapInv, Apart, VirtOf, SpanOf, From, Cur, Upto
<1> QED
  BY <1>4, <1>5, <1>6, <1>7, <1>8, <1>9 DEF HeapInv, LiveOk
-----------------------------------------------------------------------------
(* What is known of a call before its step. *)
LEMMA CallFacts ==
  ASSUME HeapInv, NEW c \in CPUs
  PROVE  /\ job[c] \in Jobs /\ vfree_top \in 0 .. VirtPages
         /\ DOMAIN pte = 0 .. VirtPages - 1
         /\ DOMAIN table = 0 .. (VirtPages - 1) \div TableSpan
         /\ JobOk(job[c], vfree_top)
         /\ \A b \in live : LiveOk(b, vfree_top)
         /\ \A b, d \in live : b # d => VirtOf(b) \cap VirtOf(d) = {}
         /\ \A b \in live : VirtOf(b) \cap SpanOf(job[c], vfree_top) = {}
         /\ job[c].at # "idle" => "malloc" \in usage.ops[c]
BY DEF HeapInv, VmTypes, Apart

(* A CPU that is in no call of malloc or free. *)
LEMMA IdleCall ==
  ASSUME NEW top
  PROVE  /\ Idle \in Jobs /\ Idle.at = "idle" /\ JobOk(Idle, top)
         /\ MappedBy(Idle) = {} /\ InHand(Idle) = {} /\ SpanOf(Idle, top) = {}
<1>1. Idle \in Jobs /\ Idle.at = "idle"
  BY DEF Idle, Jobs
<1> QED
  BY <1>1 DEF JobOk, MappedBy, InHand, SpanOf, Making

(* memalign up to the unlock in alloc_vpages. *)
LEMMA MallocStep ==
  ASSUME HeapInv, NEW c \in CPUs, NEW al \in Aligns, NEW w \in Wants,
         Malloc(c, al, w)
  PROVE  HeapInv'
<1> DEFINE size == BlockSize(al, w)
           n == ALIGN(size, PageSize) \div PageSize
           align == IF al <= Word THEN Word ELSE al
           j == [Idle EXCEPT !.at = "vpages", !.left = n * PageSize,
                             !.size = size, !.align = align, !.want = w]
           x == (IF al <= Word THEN w ELSE w + al - 1) + METADATA_EXTRA
<1>c. /\ job[c] \in Jobs /\ vfree_top \in 0 .. VirtPages
      /\ \A b \in live : LiveOk(b, vfree_top)
      /\ \A b, d \in live : b # d => VirtOf(b) \cap VirtOf(d) = {}
  BY CallFacts
<1>s. /\ PageSize \in Nat \ {0} /\ Word \in Nat \ {0} /\ al \in Nat \ {0}
      /\ w \in Nat \ {0} /\ VirtPages \in Nat /\ METADATA_EXTRA = 2 * Word
  BY Sizes
<1>1. /\ job[c].at = "idle" /\ "malloc" \in usage.ops[c]
      /\ n <= vfree_top /\ vfree_top' = vfree_top - n
      /\ job' = [job EXCEPT ![c] = j]
      /\ UNCHANGED <<usage, held, pte, table, live>>
  BY DEF Malloc, Call, Step
<1>2. /\ x \in Nat \ {0} /\ align \in Nat \ {0}
      /\ w + METADATA_EXTRA + (IF align = Word THEN 0 ELSE align - 1) = x
  BY <1>s
<1>3. \E q \in Nat \ {0} : size = PageSize * q /\ x <= size /\ n = q
  <2>1. size = ALIGN(x, PageSize)
    BY DEF BlockSize
  <2> HIDE DEF x, size
  <2>2. PICK q \in Nat : ALIGN(x, PageSize) = PageSize * q /\ x <= PageSize * q
    BY <1>2, <1>s, AlignUp
  <2>3. q # 0
    BY <1>2, <1>s, <2>2
  <2>4. ALIGN(size, PageSize) = PageSize * q
    BY <1>s, <2>1, <2>2, AlignWhole
  <2>5. n = q
    BY <1>s, <2>4, Whole
  <2> QED
    BY <2>1, <2>2, <2>3, <2>5
<1>4. /\ j \in Jobs /\ j.at = "vpages" /\ j.left = n * PageSize
      /\ j.size = size /\ j.align = align /\ j.want = w
  <2>1. n \in Nat /\ size \in Nat /\ n * PageSize \in Nat
    BY <1>3, <1>s
  <2> HIDE DEF n, size, align
  <2> QED
    BY <1>2, <1>s, <2>1 DEF Idle, Jobs, Making
<1> HIDE DEF j, n, size, align, x
<1>5. PICK q \in Nat \ {0} : size = PageSize * q /\ x <= size /\ n = q
  BY <1>3
<1>v. vfree_top \in Nat /\ vfree_top <= VirtPages
  BY <1>c, <1>s
<1>6. PICK t \in 0 .. VirtPages : vfree_top' = t /\ t + q = vfree_top
  BY <1>1, <1>5, <1>s, <1>v
<1>7. JobOk(j, t)
  <2>1. Fits(j)
    BY <1>2, <1>4, <1>5 DEF Fits
  <2>2. q \in 1 .. VirtPages /\ t + q <= VirtPages
    BY <1>6, <1>s, <1>v
  <2>3. j.left = PageSize * q
    BY <1>4, <1>5, <1>s
  <2> QED
    BY <1>4, <1>5, <2>1, <2>2, <2>3 DEF JobOk, Making
<1>8. SpanOf(j, t) = t .. vfree_top - 1
  <2>1. j.left \div PageSize = q
    BY <1>4, <1>5, <1>s, Whole
  <2>2. SpanOf(j, t) = t .. t + q - 1
    BY <1>4, <2>1 DEF SpanOf, Making
  <2>3. t + q - 1 = vfree_top - 1
    BY <1>6
  <2> QED
    BY <2>2, <2>3
<1>9. MappedBy(j) = {} /\ InHand(j) = {} /\ MappedBy(job[c]) = {}
      /\ InHand(job[c]) = {}
  BY <1>1, <1>4 DEF MappedBy, InHand, Making
<1>10. \A b \in live : /\ LiveOk(b, t)
                       /\ VirtOf(b) \cap SpanOf(j, t) = {}
  <2> SUFFICES ASSUME NEW b \in live
               PROVE  /\ LiveOk(b, t)
                      /\ VirtOf(b) \cap SpanOf(j, t) = {}
    OBVIOUS
  <2>1. LiveOk(b, vfree_top)
    BY <1>c
  <2>2. PICK a, k \in 0 .. VirtPages :
          /\ b.mem - b.slack = PageSize * a /\ b.size = PageSize * (k - a)
          /\ vfree_top <= a /\ a < k
    BY <2>1 DEF LiveOk
  <2>3. t <= a
    BY <1>6, <1>s, <1>v, <2>2
  <2>4. VirtOf(b) = a .. k - 1
    BY <2>2, <1>s, BlockPages
  <2> QED
    BY <1>6, <1>8, <1>v, <2>1, <2>2, <2>3, <2>4 DEF LiveOk
<1>11. Heap' = Heap
  BY <1>1, HeapSame
<1>12. Sound(LiveV(live') \cup MappedBy(j), Heap', InHand(j), pte', table')
  <2>1. Sound(LiveV(live) \cup MappedBy(job[c]), Heap, InHand(job[c]), pte,
              table)
    BY <1>1, SoundCalls
  <2> QED
    BY <1>1, <1>9, <1>11, <2>1
<1> QED
  BY <1>1, <1>4, <1>6, <1>7, <1>10, <1>12, <1>c, CallStep

(* alloc_vpages' second read of vfree_top. *)
LEMMA VpagesStep ==
  ASSUME HeapInv, NEW c \in CPUs, AllocVpages(c)
  PROVE  HeapInv'
<1> DEFINE i == job[c]
           top == vfree_top
           j == [i EXCEPT !.at = "page", !.mem = top * PageSize,
                          !.p = top * PageSize]
<1>c. /\ i \in Jobs /\ top \in 0 .. VirtPages /\ JobOk(i, top)
      /\ \A b \in live : LiveOk(b, top)
      /\ \A b, d \in live : b # d => VirtOf(b) \cap VirtOf(d) = {}
      /\ \A b \in live : VirtOf(b) \cap SpanOf(i, top) = {}
  BY CallFacts
<1>s. PageSize \in Nat \ {0} /\ VirtPages \in Nat
  BY Sizes
<1>1. /\ i.at = "vpages" /\ "malloc" \in usage.ops[c]
      /\ job' = [job EXCEPT ![c] = j]
      /\ UNCHANGED <<usage, held, vfree_top, pte, table, live>>
  BY CallFacts DEF AllocVpages, Step, vars
<1>2. /\ j \in Jobs /\ j.at = "page" /\ j.mem = PageSize * top
      /\ j.p = PageSize * top /\ j.left = i.left /\ j.size = i.size
      /\ j.align = i.align /\ j.want = i.want
  <2>1. top * PageSize \in Nat /\ top * PageSize = PageSize * top
    BY <1>c, <1>s
  <2> QED
    BY <1>c, <2>1 DEF Jobs, Making
<1> HIDE DEF i, j
<1>3. PICK n \in 1 .. VirtPages :
        /\ i.left = PageSize * n /\ i.size = PageSize * n
        /\ top + n <= VirtPages
  BY <1>1, <1>c DEF JobOk
<1>v. /\ top \in Nat /\ n \in Nat \ {0} /\ top + n \in Nat
      /\ (top + n) - top = n
  BY <1>3, <1>c, <1>s
<1>4. JobAt(j, top, top, top + n, top)
  <2>1. top - top = 0
    BY <1>v
  <2> QED
    BY <1>2, <1>3, <1>v, <2>1 DEF JobAt
<1>5. JobOk(j, top)
  <2>1. Fits(j)
    BY <1>1, <1>2, <1>c DEF JobOk, Fits
  <2>2. top + n \in 0 .. VirtPages /\ top + n # top
    BY <1>3, <1>c, <1>s
  <2> QED
    BY <1>2, <1>4, <1>c, <2>1, <2>2 DEF JobOk, Making
<1>6. From(j) = top /\ Cur(j) = top /\ Upto(j) = top + n
  BY <1>4, <1>v, JobPages
<1>7. SpanOf(j, top) = SpanOf(i, top)
  <2>1. i.left \div PageSize = n
    BY <1>3, <1>s, <1>v, Whole
  <2>a. i.at = "vpages"
    BY <1>1
  <2>b. SpanOf(i, top) = top .. top + (i.left \div PageSize) - 1
    BY <2>a DEF SpanOf, Making
  <2>2. SpanOf(i, top) = top .. top + n - 1
    BY <2>1, <2>b
  <2>c. j.at = "page"
    BY <1>2
  <2>d. SpanOf(j, top) = From(j) .. Upto(j) - 1
    BY <2>c DEF SpanOf, Making
  <2>3. SpanOf(j, top) = top .. top + n - 1
    <3>1. From(j) = top /\ Upto(j) - 1 = top + n - 1
      BY <1>6, <1>v
    <3> QED
      BY <2>d, <3>1, Zenon
  <2> QED
    BY <2>2, <2>3
<1>8. MappedBy(j) = {} /\ MappedBy(i) = {} /\ InHand(j) = {} /\ InHand(i) = {}
  BY <1>1, <1>2, <1>6, <1>c DEF MappedBy, InHand, Making
<1>9. Heap' = Heap
  BY <1>1, HeapSame
<1>10. Sound(LiveV(live') \cup MappedBy(j), Heap', InHand(j), pte', table')
  <2>1. Sound(LiveV(live) \cup MappedBy(i), Heap, InHand(i), pte, table)
    BY <1>1, SoundCalls DEF i
  <2> QED
    BY <1>1, <1>8, <1>9, <2>1
<1> QED
  BY <1>1, <1>2, <1>5, <1>7, <1>10, <1>c, CallStep

(* The block of a call that maps its pages. *)
LEMMA MakingFacts ==
  ASSUME NEW j \in Jobs, NEW top \in 0 .. VirtPages, JobOk(j, top),
         j.at \in Making
  PROVE  /\ Fits(j)
         /\ \E a, b, k \in 0 .. VirtPages :
              /\ JobAt(j, a, b, k, top) /\ (j.at = "done" <=> b = k)
              /\ From(j) = a /\ Cur(j) = b /\ Upto(j) = k
              /\ MappedBy(j) = a .. b - 1 /\ SpanOf(j, top) = a .. k - 1
<1>1. PICK a, b, k \in 0 .. VirtPages :
        JobAt(j, a, b, k, top) /\ (j.at = "done" <=> b = k)
  BY DEF JobOk
<1>2. a \in Nat /\ b \in Nat /\ k \in Nat
  BY Sizes
<1>3. From(j) = a /\ Cur(j) = b /\ Upto(j) = k
  BY <1>1, <1>2, JobPages
<1>4. MappedBy(j) = a .. b - 1 /\ SpanOf(j, top) = a .. k - 1
  BY <1>3 DEF MappedBy, SpanOf
<1>5. Fits(j)
  BY DEF JobOk
<1> QED
  BY <1>1, <1>3, <1>4, <1>5

(* A call that maps its pages and goes on to another place with the same   *)
(* block and the same number of pages mapped.                              *)
LEMMA SameBlock ==
  ASSUME NEW i \in Jobs, NEW top \in 0 .. VirtPages, JobOk(i, top),
         i.at \in Making \ {"done"},
         NEW j \in Jobs, j.at \in Making \ {"done"}, j.mem = i.mem, j.p = i.p,
         j.left = i.left, j.size = i.size, j.align = i.align, j.want = i.want
  PROVE  /\ JobOk(j, top) /\ MappedBy(j) = MappedBy(i)
         /\ SpanOf(j, top) = SpanOf(i, top)
<1>1. Fits(j)
  BY DEF JobOk, Fits
<1>2. PICK a, b, k \in 0 .. VirtPages :
        JobAt(i, a, b, k, top) /\ (i.at = "done" <=> b = k)
  BY DEF JobOk
<1>3. JobAt(j, a, b, k, top) /\ (j.at = "done" <=> b = k)
  BY <1>2 DEF JobAt
<1>4. JobOk(j, top)
  BY <1>1, <1>3 DEF JobOk, Making
<1>5. From(j) = From(i) /\ Cur(j) = Cur(i) /\ Upto(j) = Upto(i)
  BY DEF From, Cur, Upto
<1>6. MappedBy(j) = MappedBy(i)
  BY <1>5 DEF MappedBy
<1>7. SpanOf(j, top) = SpanOf(i, top)
  BY <1>5 DEF SpanOf
<1> QED
  BY <1>4, <1>6, <1>7

(* The page table that an address needs has its place in the table. *)
LEMMA PartInTable ==
  ASSUME NEW j \in Jobs, NEW top \in 0 .. VirtPages, JobOk(j, top),
         j.at \in Making \ {"done"}
  PROVE  Part(j.p) \in 0 .. (VirtPages - 1) \div TableSpan
<1>1. PICK a, b, k \in 0 .. VirtPages :
        /\ JobAt(j, a, b, k, top) /\ (j.at = "done" <=> b = k) /\ Cur(j) = b
  BY MakingFacts
<1>2. VirtPages \in Nat \ {0} /\ TableSpan \in Nat \ {0}
  BY Sizes
<1>3. b \in Nat /\ b <= VirtPages - 1
  BY <1>1, <1>2 DEF JobAt
<1>4. Part(j.p) = b \div TableSpan
  BY <1>1 DEF Part, Cur
<1>5. ASSUME NEW T \in Nat \ {0}, NEW x \in Nat, NEW y \in Nat, x <= y
      PROVE  x \div T \in 0 .. y \div T
  <2> DEFINE q == x \div T
             r == y \div T
  <2>1. /\ q \in Nat /\ r \in Nat /\ T * q <= x /\ y < T * r + T
        /\ T * q \in Nat /\ T * r \in Nat
    OBVIOUS
  <2> HIDE DEF q, r
  <2>2. T * q < T * r + T
    <3>1. \A u, v \in Nat : u <= x /\ y < v + T => u < v + T
      BY <1>5
    <3> QED
      BY <2>1, <3>1
  <2>3. q < r + 1
    <3> SUFFICES ASSUME r + 1 <= q PROVE FALSE
      BY <2>1
    <3>1. PICK d \in Nat : q = r + 1 + d
      <4>1. q - (r + 1) \in Nat /\ q = r + 1 + (q - (r + 1))
        BY <2>1
      <4> QED
        BY <4>1
    <3>2. T * q = T * r + T + T * d
      BY <2>1, <3>1
    <3>3. T * d >= 0 /\ T * r \in Nat /\ T * d \in Nat
      BY <2>1
    <3> QED
      BY <2>2, <3>2, <3>3
  <2>4. q <= r
    BY <2>1, <2>3
  <2>5. q \in 0 .. r
    BY <2>1, <2>4
  <2> QED
    BY <2>5 DEF q, r
<1>6. VirtPages - 1 \in Nat
  BY <1>2
<1> QED
  BY <1>2, <1>3, <1>4, <1>5, <1>6

(* The locked part of alloc_page, for a page of the block or for a table.  *)
LEMMA PageTakeStep ==
  ASSUME PageInv, HeapInv, NEW c \in CPUs, PageTake(c)
  PROVE  HeapInv'
<1> DEFINE i == job[c]
           top == vfree_top
<1>c. /\ i \in Jobs /\ top \in 0 .. VirtPages /\ JobOk(i, top)
      /\ \A b \in live : LiveOk(b, top)
      /\ \A b, d \in live : b # d => VirtOf(b) \cap VirtOf(d) = {}
      /\ \A b \in live : VirtOf(b) \cap SpanOf(i, top) = {}
      /\ DOMAIN table = 0 .. (VirtPages - 1) \div TableSpan
  BY CallFacts
<1>1. /\ i.at \in {"page", "table"} /\ pc[c] = "take"
      /\ held' = [held EXCEPT ![c] = @ \cup {Block(freelist, 1)}]
      /\ UNCHANGED <<usage, vfree_top, pte, live>>
  BY DEF PageTake, AllocTake
<1>2. "malloc" \in usage.ops[c]
  BY <1>1, CallFacts
<1>3. freelist \in Pages /\ freelist \notin Heap /\ freelist # NULL
  BY <1>1, FreshPage
<1>4. Heap' = Heap \cup {freelist}
  BY <1>1, <1>2, <1>3, HeapMore DEF PageInv, Types
<1>5. Sound(LiveV(live) \cup MappedBy(i), Heap, InHand(i), pte, table)
  BY <1>2, SoundCalls
<1>6. CASE /\ i.at = "page" /\ UNCHANGED table
           /\ job' = [job EXCEPT ![c] = [i EXCEPT !.at = "install",
                                                  !.page = freelist]]
  <2> DEFINE j == [i EXCEPT !.at = "install", !.page = freelist]
  <2>1. /\ j \in Jobs /\ j.at = "install" /\ j.page = freelist
        /\ j.mem = i.mem /\ j.p = i.p /\ j.left = i.left /\ j.size = i.size
        /\ j.align = i.align /\ j.want = i.want
    BY <1>3, <1>c DEF Jobs, Making
  <2>2. job' = [job EXCEPT ![c] = j]
    BY <1>6
  <2> HIDE DEF i, j
  <2>3. /\ JobOk(j, top) /\ MappedBy(j) = MappedBy(i)
        /\ SpanOf(j, top) = SpanOf(i, top)
    BY <1>6, <1>c, <2>1, SameBlock DEF Making
  <2>4. InHand(i) = {} /\ InHand(j) = {freelist}
    BY <1>6, <2>1 DEF InHand
  <2>5. Sound(LiveV(live) \cup MappedBy(i), Heap \cup {freelist}, {freelist},
              pte, table)
    BY <1>3, <1>5, <2>4, SoundTake
  <2>6. Sound(LiveV(live') \cup MappedBy(j), Heap', InHand(j), pte', table')
    BY <1>1, <1>4, <1>6, <2>3, <2>4, <2>5
  <2>7. DOMAIN table' = DOMAIN table
    BY <1>6
  <2> QED
    BY <1>1, <1>2, <1>c, <2>1, <2>2, <2>3, <2>6, <2>7, CallStep
<1>7. CASE /\ i.at = "table" /\ table' = [table EXCEPT ![Part(i.p)] = freelist]
           /\ job' = [job EXCEPT ![c] = [i EXCEPT !.at = "install"]]
  <2> DEFINE j == [i EXCEPT !.at = "install"]
  <2>1. /\ j \in Jobs /\ j.at = "install" /\ j.page = i.page
        /\ j.mem = i.mem /\ j.p = i.p /\ j.left = i.left /\ j.size = i.size
        /\ j.align = i.align /\ j.want = i.want
    BY <1>c DEF Jobs, Making
  <2>2. job' = [job EXCEPT ![c] = j]
    BY <1>7
  <2> HIDE DEF i, j
  <2>3. /\ JobOk(j, top) /\ MappedBy(j) = MappedBy(i)
        /\ SpanOf(j, top) = SpanOf(i, top)
    BY <1>7, <1>c, <2>1, SameBlock DEF Making
  <2>4. InHand(i) = InHand(j)
    BY <1>7, <2>1 DEF InHand
  <2>5. Part(i.p) \in DOMAIN table
    BY <1>7, <1>c, PartInTable DEF Making
  <2>6. Sound(LiveV(live) \cup MappedBy(i), Heap \cup {freelist}, InHand(i),
              pte, table')
    BY <1>3, <1>5, <1>7, <2>5, SoundTable
  <2>7. Sound(LiveV(live') \cup MappedBy(j), Heap', InHand(j), pte', table')
    BY <1>1, <1>4, <2>3, <2>4, <2>6
  <2>8. DOMAIN table' = DOMAIN table
    BY <1>7
  <2> QED
    BY <1>1, <1>2, <1>c, <2>1, <2>2, <2>3, <2>7, <2>8, CallStep
<1> QED
  BY <1>6, <1>7 DEF PageTake, Step

(* install_page writes the entry of the page that the call has come to. *)
LEMMA InstallStep ==
  ASSUME HeapInv, NEW c \in CPUs, InstallPage(c)
  PROVE  HeapInv'
<1> DEFINE i == job[c]
           top == vfree_top
           j == [i EXCEPT !.at = IF i.left > PageSize THEN "page" ELSE "done",
                          !.p = @ + PageSize, !.left = @ - PageSize]
<1>c. /\ i \in Jobs /\ top \in 0 .. VirtPages /\ JobOk(i, top)
      /\ \A b \in live : LiveOk(b, top)
      /\ \A b, d \in live : b # d => VirtOf(b) \cap VirtOf(d) = {}
      /\ \A b \in live : VirtOf(b) \cap SpanOf(i, top) = {}
      /\ DOMAIN pte = 0 .. VirtPages - 1
  BY CallFacts
<1>s. PageSize \in Nat \ {0} /\ VirtPages \in Nat
  BY Sizes
<1>1. /\ i.at = "install" /\ pte' = [pte EXCEPT ![Cur(i)] = i.page]
      /\ job' = [job EXCEPT ![c] = j]
      /\ UNCHANGED <<usage, held, vfree_top, table, live>>
  BY DEF InstallPage, Step, vars, Cur
<1>2. "malloc" \in usage.ops[c]
  BY <1>1, CallFacts
<1>3. /\ Fits(i)
      /\ \E a, b, k \in 0 .. VirtPages :
           /\ JobAt(i, a, b, k, top) /\ (i.at = "done" <=> b = k)
           /\ From(i) = a /\ Cur(i) = b /\ Upto(i) = k
           /\ MappedBy(i) = a .. b - 1 /\ SpanOf(i, top) = a .. k - 1
  BY <1>1, <1>c, MakingFacts DEF Making
<1>4. PICK a, b, k \in 0 .. VirtPages :
        /\ JobAt(i, a, b, k, top) /\ (i.at = "done" <=> b = k)
        /\ From(i) = a /\ Cur(i) = b /\ Upto(i) = k
        /\ MappedBy(i) = a .. b - 1 /\ SpanOf(i, top) = a .. k - 1
  BY <1>3
<1>5. /\ a \in Nat /\ b \in Nat /\ k \in Nat /\ b + 1 \in Nat
      /\ a <= b /\ b < k /\ k <= VirtPages /\ top <= a
  BY <1>1, <1>4, <1>s DEF JobAt
<1>6. /\ i.p + PageSize = PageSize * (b + 1)
      /\ i.left - PageSize = PageSize * (k - (b + 1))
      /\ i.left > PageSize <=> b + 1 # k
  <2>1. i.p = PageSize * b /\ i.left = PageSize * (k - b)
    BY <1>4 DEF JobAt
  <2>2. PICK m \in Nat : k = b + 1 + m
    <3>1. k - (b + 1) \in Nat /\ k = b + 1 + (k - (b + 1))
      BY <1>5
    <3> QED
      BY <3>1
  <2>3. k - b = 1 + m /\ k - (b + 1) = m
    BY <1>5, <2>2
  <2>4. PageSize * (1 + m) = PageSize + PageSize * m
    BY <1>s
  <2>5. PageSize * m \in Nat /\ (PageSize * m > 0 <=> m # 0)
    BY <1>s
  <2>6. PageSize * (b + 1) = PageSize * b + PageSize
    BY <1>5, <1>s
  <2>7. i.left - PageSize = PageSize * m
    BY <1>s, <2>1, <2>3, <2>4, <2>5
  <2>8. i.left > PageSize <=> m # 0
    BY <1>s, <2>1, <2>3, <2>4, <2>5
  <2> QED
    BY <1>5, <2>1, <2>2, <2>3, <2>6, <2>7, <2>8
<1>7. /\ j \in Jobs /\ j.at = (IF b + 1 # k THEN "page" ELSE "done")
      /\ j.page = i.page /\ j.mem = i.mem /\ j.p = PageSize * (b + 1)
      /\ j.left = PageSize * (k - (b + 1)) /\ j.size = i.size
      /\ j.align = i.align /\ j.want = i.want
  <2>1. PageSize * (b + 1) \in Nat /\ PageSize * (k - (b + 1)) \in Nat
    <3>1. k - (b + 1) \in Nat
      BY <1>5
    <3> QED
      BY <1>5, <1>s, <3>1
  <2>2. j = [i EXCEPT !.at = IF b + 1 # k THEN "page" ELSE "done",
                      !.p = PageSize * (b + 1),
                      !.left = PageSize * (k - (b + 1))]
    BY <1>6, <1>c DEF Jobs
  <2> HIDE DEF i, j
  <2> QED
    BY <1>c, <2>1, <2>2 DEF Jobs, Making
<1> HIDE DEF i, j
<1>8. JobAt(j, a, b + 1, k, top)
  BY <1>4, <1>5, <1>7 DEF JobAt
<1>9. JobOk(j, top)
  <2>1. Fits(j)
    BY <1>3, <1>7 DEF Fits
  <2>2. b + 1 \in 0 .. VirtPages
    BY <1>5, <1>s
  <2>3. j.at \in {"page", "done"} /\ (j.at = "done" <=> b + 1 = k)
    BY <1>7
  <2> QED
    BY <1>8, <2>1, <2>2, <2>3 DEF JobOk, Making
<1>10. From(j) = a /\ Cur(j) = b + 1 /\ Upto(j) = k
  BY <1>5, <1>8, JobPages
<1>11. /\ MappedBy(j) = MappedBy(i) \cup {b} /\ SpanOf(j, top) = SpanOf(i, top)
       /\ InHand(j) = {} /\ InHand(i) = {i.page}
  <2>1. j.at \in {"page", "done"}
    BY <1>7
  <2>2. MappedBy(j) = From(j) .. Cur(j) - 1
    BY <2>1 DEF MappedBy, Making
  <2>3. SpanOf(j, top) = From(j) .. Upto(j) - 1
    BY <2>1 DEF SpanOf, Making
  <2>4. MappedBy(j) = a .. b
    <3>1. b + 1 - 1 = b
      BY <1>5
    <3> QED
      BY <1>10, <2>2, <3>1
  <2>5. a .. b = (a .. b - 1) \cup {b}
    BY <1>5
  <2>6. MappedBy(j) = MappedBy(i) \cup {b}
    BY <1>4, <2>4, <2>5
  <2>7. SpanOf(j, top) = SpanOf(i, top)
    BY <1>4, <1>10, <2>3
  <2>8. InHand(j) = {} /\ InHand(i) = {i.page}
    BY <1>1, <2>1 DEF InHand
  <2> QED
    BY <2>6, <2>7, <2>8
<1>12. b \in DOMAIN pte /\ b \notin LiveV(live) \cup MappedBy(i)
  <2>1. b \in DOMAIN pte
    BY <1>5, <1>c, <1>s
  <2>2. b \in SpanOf(i, top) /\ b \notin MappedBy(i)
    BY <1>4, <1>5
  <2>3. b \notin LiveV(live)
    BY <1>c, <2>2 DEF LiveV
  <2> QED
    BY <2>1, <2>2, <2>3
<1>13. Heap' = Heap
  BY <1>1, HeapSame
<1>14. Sound(LiveV(live') \cup MappedBy(j), Heap', InHand(j), pte', table')
  <2>1. Sound(LiveV(live) \cup MappedBy(i), Heap, {i.page}, pte, table)
    BY <1>2, <1>11, SoundCalls DEF i
  <2>2. Sound((LiveV(live) \cup MappedBy(i)) \cup {b}, Heap, {},
              [pte EXCEPT ![b] = i.page], table)
    BY <1>12, <2>1, SoundInstall
  <2>3. (LiveV(live) \cup MappedBy(i)) \cup {b} = LiveV(live) \cup MappedBy(j)
    BY <1>11
  <2> QED
    BY <1>1, <1>4, <1>11, <1>13, <2>2, <2>3
<1>15. DOMAIN pte' = DOMAIN pte
  BY <1>1
<1> QED
  BY <1>1, <1>2, <1>7, <1>9, <1>11, <1>14, <1>15, <1>c, CallStep

(* A page table is missing. *)
LEMMA NoTableStep ==
  ASSUME HeapInv, NEW c \in CPUs, InstallTable(c)
  PROVE  HeapInv'
<1> DEFINE i == job[c]
           top == vfree_top
           j == [i EXCEPT !.at = "table"]
<1>c. /\ i \in Jobs /\ top \in 0 .. VirtPages /\ JobOk(i, top)
      /\ \A b \in live : LiveOk(b, top)
      /\ \A b, d \in live : b # d => VirtOf(b) \cap VirtOf(d) = {}
      /\ \A b \in live : VirtOf(b) \cap SpanOf(i, top) = {}
  BY CallFacts
<1>1. /\ i.at = "install" /\ job' = [job EXCEPT ![c] = j]
      /\ UNCHANGED <<usage, held, vfree_top, pte, table, live>>
  BY DEF InstallTable, Step, vars
<1>2. "malloc" \in usage.ops[c]
  BY <1>1, CallFacts
<1>3. /\ j \in Jobs /\ j.at = "table" /\ j.page = i.page
      /\ j.mem = i.mem /\ j.p = i.p /\ j.left = i.left /\ j.size = i.size
      /\ j.align = i.align /\ j.want = i.want
  BY <1>c DEF Jobs, Making
<1> HIDE DEF i, j
<1>4. /\ JobOk(j, top) /\ MappedBy(j) = MappedBy(i)
      /\ SpanOf(j, top) = SpanOf(i, top)
  BY <1>1, <1>3, <1>c, SameBlock DEF Making
<1>5. InHand(i) = InHand(j)
  BY <1>1, <1>3 DEF InHand
<1>6. Heap' = Heap
  BY <1>1, HeapSame
<1>7. Sound(LiveV(live') \cup MappedBy(j), Heap', InHand(j), pte', table')
  <2>1. Sound(LiveV(live) \cup MappedBy(i), Heap, InHand(i), pte, table)
    BY <1>2, SoundCalls DEF i
  <2> QED
    BY <1>1, <1>4, <1>5, <1>6, <2>1
<1> QED
  BY <1>1, <1>2, <1>3, <1>4, <1>7, <1>c, CallStep

(* memalign is done: the metadata and the block fit into its pages. *)
LEMMA DoneStep ==
  ASSUME HeapInv, NEW c \in CPUs, MallocDone(c)
  PROVE  HeapInv'
<1> DEFINE i == job[c]
           top == vfree_top
           mem == ALIGN(i.mem + METADATA_EXTRA, i.align)
           new == [mem |-> mem, slack |-> mem - i.mem, size |-> i.size,
                   want |-> i.want]
<1>c. /\ i \in Jobs /\ top \in 0 .. VirtPages /\ JobOk(i, top)
      /\ \A b \in live : LiveOk(b, top)
      /\ \A b, d \in live : b # d => VirtOf(b) \cap VirtOf(d) = {}
      /\ \A b \in live : VirtOf(b) \cap SpanOf(i, top) = {}
  BY CallFacts
<1>s. /\ PageSize \in Nat \ {0} /\ VirtPages \in Nat /\ Word \in Nat \ {0}
      /\ METADATA_EXTRA = 2 * Word /\ PageSize % Word = 0
  BY Sizes
<1>1. /\ i.at = "done" /\ live' = live \cup {new}
      /\ job' = [job EXCEPT ![c] = Idle]
      /\ UNCHANGED <<usage, held, vfree_top, pte, table>>
  BY DEF MallocDone, Step, vars
<1>2. "malloc" \in usage.ops[c]
  BY <1>1, CallFacts
<1>3. /\ Fits(i)
      /\ \E a, b, k \in 0 .. VirtPages :
           /\ JobAt(i, a, b, k, top) /\ (i.at = "done" <=> b = k)
           /\ From(i) = a /\ Cur(i) = b /\ Upto(i) = k
           /\ MappedBy(i) = a .. b - 1 /\ SpanOf(i, top) = a .. k - 1
  BY <1>1, <1>c, MakingFacts DEF Making
<1>4. PICK a, b, k \in 0 .. VirtPages :
        /\ JobAt(i, a, b, k, top) /\ (i.at = "done" <=> b = k)
        /\ From(i) = a /\ Cur(i) = b /\ Upto(i) = k
        /\ MappedBy(i) = a .. b - 1 /\ SpanOf(i, top) = a .. k - 1
  BY <1>3
<1>5. /\ a \in Nat /\ k \in Nat /\ b = k /\ a < k /\ top <= a
      /\ i.mem = PageSize * a /\ i.size = PageSize * (k - a)
  BY <1>1, <1>4, <1>s DEF JobAt
<1>6. /\ i.align \in Nat \ {0} /\ i.want \in Nat /\ i.mem \in Nat
      /\ i.size \in Nat
      /\ i.want + 2 * Word + (IF i.align = Word THEN 0 ELSE i.align - 1)
           <= i.size
  BY <1>3, <1>c, <1>s DEF Fits, Jobs
<1>7. /\ mem \in Nat /\ i.mem + 2 * Word <= mem
      /\ mem <= i.mem + 2 * Word + i.align - 1
      /\ i.align = Word => mem = i.mem + 2 * Word
  <2> DEFINE x == i.mem + 2 * Word
  <2>1. x \in Nat /\ mem = ALIGN(x, i.align)
    BY <1>6, <1>s
  <2> HIDE DEF i, x, mem
  <2>2. PICK q \in Nat : /\ ALIGN(x, i.align) = i.align * q
                         /\ x <= i.align * q /\ i.align * q <= x + i.align - 1
    BY <1>6, <2>1, AlignUp
  <2>3. i.align * q \in Nat
    BY <1>6
  <2>4. ASSUME i.align = Word PROVE mem = x
    <3>1. PICK m \in Nat : PageSize = Word * m
      <4>1. /\ PageSize = Word * (PageSize \div Word)
            /\ PageSize \div Word \in Nat
        BY <1>s
      <4> QED
        BY <4>1
    <3>2. (Word * m) * a + 2 * Word = Word * (m * a + 2) /\ m * a + 2 \in Nat
      BY <1>5, <1>s
    <3>3. x = Word * (m * a + 2)
      BY <1>5, <3>1, <3>2 DEF x
    <3>4. ALIGN(Word * (m * a + 2), Word) = Word * (m * a + 2)
      BY <1>s, <3>2, AlignWhole
    <3> QED
      BY <2>1, <2>4, <3>3, <3>4
  <2> QED
    BY <1>6, <2>1, <2>2, <2>3, <2>4 DEF x
<1>8. LiveOk(new, top) /\ VirtOf(new) = a .. k - 1
  <2>1. /\ new.mem = mem /\ new.slack = mem - i.mem /\ new.size = i.size
        /\ new.want = i.want
    OBVIOUS
  <2> HIDE DEF i, mem, new
  <2>2. /\ new.slack \in Nat /\ new.want \in Nat
        /\ new.mem - new.slack = i.mem
    BY <1>6, <1>7, <1>s, <2>1
  <2>3. 2 * Word <= new.slack
    BY <1>6, <1>7, <1>s, <2>1
  <2>4. new.slack + new.want <= new.size
    BY <1>6, <1>7, <1>s, <2>1
  <2>5. VirtOf(new) = a .. k - 1
    BY <1>5, <2>1, <2>2, BlockPages
  <2> QED
    BY <1>5, <1>s, <2>1, <2>2, <2>3, <2>4, <2>5 DEF LiveOk
<1> HIDE DEF i, mem, new
<1>9. MappedBy(i) = VirtOf(new) /\ SpanOf(i, top) = VirtOf(new)
  BY <1>4, <1>5, <1>8
<1>10. LiveV(live') = LiveV(live) \cup VirtOf(new)
  BY <1>1 DEF LiveV
<1>11. /\ Idle \in Jobs /\ Idle.at = "idle" /\ JobOk(Idle, top)
       /\ MappedBy(Idle) = {} /\ InHand(Idle) = {} /\ SpanOf(Idle, top) = {}
  BY IdleCall
<1>12. Heap' = Heap
  BY <1>1, HeapSame
<1>13. Sound(LiveV(live') \cup MappedBy(Idle), Heap', InHand(Idle), pte',
             table')
  <2>1. Sound(LiveV(live) \cup MappedBy(i), Heap, InHand(i), pte, table)
    BY <1>2, SoundCalls DEF i
  <2>2. InHand(i) = {}
    BY <1>1 DEF InHand
  <2>3. LiveV(live') \cup MappedBy(Idle) = LiveV(live) \cup MappedBy(i)
    BY <1>9, <1>10, <1>11
  <2> QED
    BY <1>1, <1>11, <1>12, <2>1, <2>2, <2>3
<1>14. \A d \in live' : LiveOk(d, top) /\ VirtOf(d) \cap SpanOf(Idle, top) = {}
  BY <1>1, <1>8, <1>11, <1>c
<1>15. \A d, e \in live' : d # e => VirtOf(d) \cap VirtOf(e) = {}
  BY <1>1, <1>9, <1>c
<1> QED
  BY <1>1, <1>2, <1>11, <1>13, <1>14, <1>15, <1>c, CallStep

(* free gives its block to vm_free. *)
LEMMA FreeBlockStep ==
  ASSUME HeapInv, NEW c \in CPUs, FreeBlock(c)
  PROVE  HeapInv'
<1> DEFINE top == vfree_top
<1>c. /\ job[c] \in Jobs /\ top \in 0 .. VirtPages
      /\ \A b \in live : LiveOk(b, top)
      /\ \A b, d \in live : b # d => VirtOf(b) \cap VirtOf(d) = {}
  BY CallFacts
<1>s. PageSize \in Nat \ {0} /\ VirtPages \in Nat
  BY Sizes
<1>1. /\ job[c].at = "idle" /\ "malloc" \in usage.ops[c]
      /\ UNCHANGED <<usage, held, vfree_top, pte, table>>
  BY DEF FreeBlock, Call
<1>2. PICK b \in live :
        /\ live' = live \ {b}
        /\ job' = [job EXCEPT ![c] =
                     [Idle EXCEPT !.at = "free", !.left = b.size,
                                  !.p = b.mem - b.slack]]
  BY DEF FreeBlock, Step
<1> DEFINE j == [Idle EXCEPT !.at = "free", !.left = b.size,
                             !.p = b.mem - b.slack]
<1>3. LiveOk(b, top)
  BY <1>c
<1>4. PICK a, k \in 0 .. VirtPages :
        /\ b.mem - b.slack = PageSize * a /\ b.size = PageSize * (k - a)
        /\ top <= a /\ a < k
  BY <1>3 DEF LiveOk
<1>5. /\ a \in Nat /\ k \in Nat /\ k - a \in Nat
      /\ PageSize * a \in Nat /\ PageSize * (k - a) \in Nat
  BY <1>4, <1>s
<1>6. /\ j \in Jobs /\ j.at = "free" /\ j.p = PageSize * a
      /\ j.left = PageSize * (k - a)
  <2>1. j = [Idle EXCEPT !.at = "free", !.left = PageSize * (k - a),
                         !.p = PageSize * a]
    BY <1>4
  <2> HIDE DEF j
  <2> QED
    BY <1>5, <2>1 DEF Idle, Jobs, Making
<1>7. job' = [job EXCEPT ![c] = j]
  BY <1>2
<1> HIDE DEF j
<1>8. Cur(j) = a /\ Upto(j) = k
  <2>1. PageSize * a + PageSize * (k - a) = PageSize * k
    BY <1>5, <1>s
  <2>2. (PageSize * a) \div PageSize = a /\ (PageSize * k) \div PageSize = k
    BY <1>5, <1>s, Whole
  <2> QED
    BY <1>6, <2>1, <2>2 DEF Cur, Upto
<1>9. VirtOf(b) = a .. k - 1
  BY <1>4, <1>5, BlockPages
<1>10. /\ MappedBy(j) = VirtOf(b) /\ SpanOf(j, top) = VirtOf(b)
       /\ InHand(j) = {} /\ MappedBy(job[c]) = {} /\ InHand(job[c]) = {}
  <2>1. MappedBy(j) = Cur(j) .. Upto(j) - 1
    BY <1>6 DEF MappedBy, Making
  <2>2. SpanOf(j, top) = Cur(j) .. Upto(j) - 1
    BY <1>6 DEF SpanOf, Making
  <2>3. InHand(j) = {}
    BY <1>6 DEF InHand
  <2>4. MappedBy(job[c]) = {} /\ InHand(job[c]) = {}
    BY <1>1 DEF MappedBy, InHand, Making
  <2> QED
    BY <1>8, <1>9, <2>1, <2>2, <2>3, <2>4
<1>11. JobOk(j, top)
  BY <1>4, <1>6 DEF JobOk, Making
<1>12. LiveV(live) = LiveV(live') \cup VirtOf(b)
  BY <1>2 DEF LiveV
<1>13. Heap' = Heap
  BY <1>1, HeapSame
<1>14. Sound(LiveV(live') \cup MappedBy(j), Heap', InHand(j), pte', table')
  <2>1. Sound(LiveV(live) \cup MappedBy(job[c]), Heap, InHand(job[c]), pte,
              table)
    BY <1>1, SoundCalls
  <2>2. LiveV(live) \cup MappedBy(job[c]) = LiveV(live') \cup MappedBy(j)
    BY <1>10, <1>12
  <2> QED
    BY <1>1, <1>10, <1>13, <2>1, <2>2
<1>15. /\ \A d \in live' : LiveOk(d, top)
       /\ \A d \in live' : VirtOf(d) \cap SpanOf(j, top) = {}
       /\ \A d, e \in live' : d # e => VirtOf(d) \cap VirtOf(e) = {}
  BY <1>2, <1>10, <1>c
<1> QED
  BY <1>1, <1>6, <1>7, <1>11, <1>14, <1>15, <1>c, CallStep

(* vm_free: a page of the block is freed, or none is left. *)
LEMMA VmFreeStep ==
  ASSUME PageInv, HeapInv, NEW c \in CPUs, VmFree(c)
  PROVE  HeapInv'
<1> DEFINE i == job[c]
           top == vfree_top
<1>c. /\ i \in Jobs /\ top \in 0 .. VirtPages /\ JobOk(i, top)
      /\ \A b \in live : LiveOk(b, top)
      /\ \A b, d \in live : b # d => VirtOf(b) \cap VirtOf(d) = {}
      /\ \A b \in live : VirtOf(b) \cap SpanOf(i, top) = {}
  BY CallFacts
<1>s. PageSize \in Nat \ {0} /\ VirtPages \in Nat
  BY Sizes
<1>1. i.at = "free" /\ UNCHANGED <<vfree_top, pte, table, live>>
  BY DEF VmFree
<1>2. "malloc" \in usage.ops[c]
  BY <1>1, CallFacts
<1>3. PICK b, k \in 0 .. VirtPages :
        /\ i.p = PageSize * b /\ i.left = PageSize * (k - b)
        /\ top <= b /\ b <= k
  BY <1>1, <1>c DEF JobOk
<1>4. b \in Nat /\ k \in Nat /\ b <= k
  BY <1>3, <1>s
<1>5. Cur(i) = b /\ Upto(i) = k
  <2>1. PageSize * b + PageSize * (k - b) = PageSize * k
    BY <1>4, <1>s
  <2>2. (PageSize * b) \div PageSize = b /\ (PageSize * k) \div PageSize = k
    BY <1>4, <1>s, Whole
  <2> QED
    BY <1>3, <2>1, <2>2 DEF Cur, Upto
<1>6. /\ MappedBy(i) = b .. k - 1 /\ SpanOf(i, top) = b .. k - 1
      /\ InHand(i) = {}
  <2>1. MappedBy(i) = Cur(i) .. Upto(i) - 1
    BY <1>1 DEF MappedBy, Making
  <2>2. SpanOf(i, top) = Cur(i) .. Upto(i) - 1
    BY <1>1 DEF SpanOf, Making
  <2>3. InHand(i) = {}
    BY <1>1 DEF InHand
  <2> QED
    BY <1>5, <2>1, <2>2, <2>3
<1>7. Sound(LiveV(live) \cup MappedBy(i), Heap, {}, pte, table)
  BY <1>2, <1>6, SoundCalls
<1>8. CASE /\ i.left # 0 /\ FreePage(c)
           /\ freelist' = pte[i.p \div PageSize]
           /\ job' = [job EXCEPT ![c] = [i EXCEPT !.p = @ + PageSize,
                                                  !.left = @ - PageSize]]
  <2> DEFINE j == [i EXCEPT !.p = @ + PageSize, !.left = @ - PageSize]
  <2>1. job' = [job EXCEPT ![c] = j]
    BY <1>8
  <2>2. PICK m \in Nat : k = b + 1 + m
    <3>1. b # k
      BY <1>3, <1>8, <1>s
    <3>2. k - (b + 1) \in Nat /\ k = b + 1 + (k - (b + 1))
      BY <1>4, <3>1
    <3> QED
      BY <3>2
  <2>3. /\ i.p + PageSize = PageSize * (b + 1)
        /\ i.left - PageSize = PageSize * (k - (b + 1))
        /\ PageSize * (b + 1) \in Nat /\ PageSize * (k - (b + 1)) \in Nat
    <3>1. k - b = 1 + m /\ k - (b + 1) = m
      BY <1>4, <2>2
    <3>2. PageSize * (1 + m) = PageSize + PageSize * m
      BY <1>s
    <3>3. PageSize * m \in Nat /\ PageSize * (b + 1) \in Nat
      BY <1>4, <1>s
    <3>4. PageSize * (b + 1) = PageSize * b + PageSize
      BY <1>4, <1>s
    <3>5. i.left - PageSize = PageSize * m
      BY <1>3, <1>s, <3>1, <3>2, <3>3
    <3> QED
      BY <1>3, <3>1, <3>3, <3>4, <3>5
  <2>4. /\ j \in Jobs /\ j.at = "free" /\ j.p = PageSize * (b + 1)
        /\ j.left = PageSize * (k - (b + 1))
    <3>1. j = [i EXCEPT !.p = PageSize * (b + 1),
                        !.left = PageSize * (k - (b + 1))]
      BY <1>c, <2>3 DEF Jobs
    <3> HIDE DEF i, j
    <3> QED
      BY <1>1, <1>c, <2>3, <3>1 DEF Jobs, Making
  <2> HIDE DEF i, j
  <2>5. Cur(j) = b + 1 /\ Upto(j) = k
    <3>1. b + 1 \in Nat /\ k - (b + 1) \in Int
      BY <1>4
    <3>2. PageSize * (b + 1) + PageSize * (k - (b + 1)) = PageSize * k
      BY <1>4, <1>s
    <3>3. /\ (PageSize * (b + 1)) \div PageSize = b + 1
          /\ (PageSize * k) \div PageSize = k
      BY <1>4, <1>s, <3>1, Whole
    <3> QED
      BY <2>4, <3>2, <3>3 DEF Cur, Upto
  <2>6. /\ MappedBy(j) = (b + 1) .. k - 1 /\ SpanOf(j, top) = (b + 1) .. k - 1
        /\ InHand(j) = {}
    <3>1. MappedBy(j) = Cur(j) .. Upto(j) - 1
      BY <2>4 DEF MappedBy, Making
    <3>2. SpanOf(j, top) = Cur(j) .. Upto(j) - 1
      BY <2>4 DEF SpanOf, Making
    <3>3. InHand(j) = {}
      BY <2>4 DEF InHand
    <3> QED
      BY <2>5, <3>1, <3>2, <3>3
  <2>7. /\ b \in SpanOf(i, top) /\ b \in MappedBy(i)
        /\ MappedBy(j) = MappedBy(i) \ {b}
        /\ SpanOf(j, top) \subseteq SpanOf(i, top)
    <3>1. b \in b .. k - 1 /\ (b + 1) .. k - 1 = (b .. k - 1) \ {b}
      BY <1>4, <2>2
    <3> QED
      BY <1>6, <2>6, <3>1
  <2>8. b \notin LiveV(live)
    BY <1>c, <2>7 DEF LiveV
  <2>9. (LiveV(live) \cup MappedBy(i)) \ {b} = LiveV(live) \cup MappedBy(j)
    BY <2>7, <2>8
  <2>10. JobOk(j, top)
    <3>1. b + 1 \in 0 .. VirtPages /\ top <= b + 1 /\ b + 1 <= k
      BY <1>3, <1>4, <1>c, <1>s, <2>2
    <3> QED
      BY <2>4, <3>1 DEF JobOk, Making
  <2>11. freelist' = pte[b]
    BY <1>5, <1>8 DEF Cur
  <2>12. UNCHANGED usage /\ Heap' = Heap \ {pte[b]}
    <3>1. PICK x \in held[c] : /\ x.n = 1 /\ freelist' = x.start
                               /\ held' = [held EXCEPT ![c] = @ \ {x}]
      BY <1>8 DEF FreePage
    <3>2. UNCHANGED usage
      BY <1>8 DEF FreePage, Call
    <3>3. held \in [CPUs -> SUBSET Blocks]
      BY DEF PageInv, Types
    <3>4. x \in Blocks
      BY <3>1, <3>3
    <3>5. x = Block(x.start, 1) /\ x.start \in Pages
      BY <3>1, <3>4 DEF Block, Blocks
    <3>6. x.start = pte[b]
      BY <2>11, <3>1
    <3>7. OneMalloc(usage)
      BY DEF HeapInv, VmTypes
    <3>8. held' = [held EXCEPT ![c] = @ \ {Block(pte[b], 1)}]
      BY <3>1, <3>5, <3>6
    <3>9. pte[b] \in Pages
      BY <3>5, <3>6
    <3> QED
      BY <1>2, <3>2, <3>3, <3>7, <3>8, <3>9, HeapLess
  <2>13. Sound(LiveV(live') \cup MappedBy(j), Heap', InHand(j), pte', table')
    <3>1. b \in LiveV(live) \cup MappedBy(i)
      BY <2>7
    <3>2. Sound((LiveV(live) \cup MappedBy(i)) \ {b}, Heap \ {pte[b]}, {},
                pte, table)
      BY <1>7, <3>1, SoundFree
    <3> QED
      BY <1>1, <2>6, <2>9, <2>12, <3>2
  <2>14. \A d \in live : VirtOf(d) \cap SpanOf(j, top) = {}
    BY <1>c, <2>7
  <2> QED
    BY <1>1, <1>2, <1>c, <2>1, <2>4, <2>10, <2>12, <2>13, <2>14, CallStep
<1>9. CASE /\ i.left = 0 /\ UNCHANGED vars
           /\ job' = [job EXCEPT ![c] = Idle]
  <2>1. b = k
    BY <1>3, <1>4, <1>9, <1>s
  <2>2. MappedBy(i) = {}
    BY <1>4, <1>6, <2>1
  <2>3. /\ Idle \in Jobs /\ JobOk(Idle, top)
        /\ MappedBy(Idle) = {} /\ InHand(Idle) = {} /\ SpanOf(Idle, top) = {}
    BY IdleCall
  <2>4. UNCHANGED <<usage, held>>
    BY <1>9 DEF vars
  <2>5. Heap' = Heap
    BY <2>4, HeapSame
  <2>6. Sound(LiveV(live') \cup MappedBy(Idle), Heap', InHand(Idle), pte',
              table')
    BY <1>1, <1>7, <2>2, <2>3, <2>5
  <2> QED
    BY <1>1, <1>2, <1>9, <1>c, <2>3, <2>4, <2>6, CallStep
<1> QED
  BY <1>8, <1>9 DEF VmFree, Step
-----------------------------------------------------------------------------
(* Calls of the page allocator on other CPUs. *)
LEMMA OtherCalls ==
  ASSUME PageInv, HeapInv, NEW c \in CPUs, PageCalls(c)
  PROVE  HeapInv'
<1>1. "malloc" \notin usage.ops[c] /\ UNCHANGED vmVars
  BY DEF PageCalls
<1>2. held \in [CPUs -> SUBSET Blocks]
  BY DEF PageInv, Types
<1>3. UNCHANGED usage
  <2>1. AllocCheck(c) \/ AllocPagesRead(c) \/ FreePages(c) \/ FreePage(c)
          => UNCHANGED usage
    BY DEF AllocCheck, AllocPagesRead, FreePages, FreePage, Call
  <2>2. AllocTake(c) \/ AllocPagesScan(c) => UNCHANGED usage
    BY DEF AllocTake, AllocPagesScan
  <2> QED
    BY <2>1, <2>2 DEF PageCalls
<1>4. UNCHANGED held \/ \E S : held' = [held EXCEPT ![c] = S]
  <2>1. AllocCheck(c) \/ AllocPagesRead(c) => UNCHANGED held
    BY DEF AllocCheck, AllocPagesRead
  <2>2. AllocTake(c) \/ FreePage(c) \/ FreePages(c)
          => \E S : held' = [held EXCEPT ![c] = S]
    BY DEF AllocTake, FreePage, FreePages
  <2>3. AllocPagesScan(c) =>
          UNCHANGED held \/ \E S : held' = [held EXCEPT ![c] = S]
    BY DEF AllocPagesScan
  <2> QED
    BY <2>1, <2>2, <2>3 DEF PageCalls
<1>5. \A d \in CPUs : "malloc" \in usage.ops[d] => held'[d] = held[d]
  BY <1>1, <1>2, <1>4
<1> QED
  BY <1>1, <1>3, <1>5, ElsewhereStep

(* The heap before the first call. *)
LEMMA HeapInit ==
  ASSUME \A u \in Usages : OneMalloc(u), VmInit
  PROVE  HeapInv
<1>1. /\ usage \in Usages /\ vfree_top = VirtPages
      /\ pte = [v \in 0 .. VirtPages - 1 |-> NULL]
      /\ table = [t \in 0 .. (VirtPages - 1) \div TableSpan |-> NULL]
      /\ job = [c \in CPUs |-> Idle] /\ live = {}
  BY DEF VmInit, Init
<1>2. VirtPages \in 0 .. VirtPages
  BY Sizes
<1>3. \A c \in CPUs : job[c] = Idle
  BY <1>1
<1>4. VmTypes
  BY <1>1, <1>2, IdleCall DEF VmTypes
<1>5. \A c \in CPUs : /\ job[c].at = "idle" /\ JobOk(job[c], vfree_top)
                      /\ MappedBy(job[c]) = {} /\ InHand(job[c]) = {}
                      /\ SpanOf(job[c], vfree_top) = {}
  BY <1>3, IdleCall
<1>6. Mapped = {} /\ Hands = {}
  BY <1>1, <1>5 DEF Mapped, Hands, LiveV
<1>7. Sound({}, Heap, {}, pte, table)
  BY <1>1 DEF Sound
<1>8. Apart /\ \A b \in live : LiveOk(b, vfree_top)
  BY <1>1 DEF Apart
<1> QED
  BY <1>4, <1>5, <1>6, <1>7, <1>8 DEF HeapInv

(* Blocks of the heap stay apart, and what is mapped, in hand or a page    *)
(* table stays owned and used once, through every interleaving of malloc   *)
(* and free with the page allocator's callers on other CPUs.               *)
THEOREM HeapInvariance ==
  (\A u \in Usages : SoundUse(u) /\ OneMalloc(u)) => (VmSpec => []HeapInv)
<1> SUFFICES ASSUME \A u \in Usages : SoundUse(u) /\ OneMalloc(u)
             PROVE  VmSpec => []HeapInv
  OBVIOUS
<1>1. VmInit => HeapInv
  BY HeapInit
<1>2. PageInv /\ HeapInv /\ [VmNext]_allVars => HeapInv'
  <2> SUFFICES ASSUME PageInv, HeapInv, [VmNext]_allVars
               PROVE  HeapInv'
    OBVIOUS
  <2>1. CASE UNCHANGED allVars
    <3>1. UNCHANGED vmVars /\ UNCHANGED <<usage, held>>
      BY <2>1 DEF allVars, vars
    <3> QED
      BY <3>1, ElsewhereStep
  <2>2. CASE SetupVm /\ UNCHANGED vmVars
    <3>1. UNCHANGED <<usage, held>>
      BY <2>2 DEF SetupVm
    <3> QED
      BY <2>2, <3>1, ElsewhereStep
  <2>3. ASSUME NEW c \in CPUs, Scribble(c), UNCHANGED vmVars
        PROVE  HeapInv'
    <3>1. UNCHANGED <<usage, held>>
      BY <2>3 DEF Scribble
    <3> QED
      BY <2>3, <3>1, ElsewhereStep
  <2>4. ASSUME NEW c \in CPUs, PageCheck(c)
        PROVE  HeapInv'
    <3>1. UNCHANGED <<usage, held>> /\ UNCHANGED vmVars
      BY <2>4 DEF PageCheck, AllocCheck, Call
    <3> QED
      BY <3>1, ElsewhereStep
  <2> QED
    BY <2>1, <2>2, <2>3, <2>4, OtherCalls, MallocStep, VpagesStep,
       PageTakeStep, InstallStep, NoTableStep, DoneStep, FreeBlockStep,
       VmFreeStep DEF VmNext
<1>3. VmSpec => []PageInv
  <2>1. \A u \in Usages : SoundUse(u)
    OBVIOUS
  <2> QED
    BY <2>1, MallocIsClient, PageInvariance, PTL
<1> QED
  BY <1>1, <1>2, <1>3, PTL DEF VmSpec

(* memalign's result and its metadata lie inside the block's own pages,    *)
(* and vm_memalign and install_page never map a page twice, nor one that   *)
(* was freed or serves as a page table, for blocks of every size and       *)
(* alignment.                                                              *)
THEOREM HeapStaysIntact ==
  (\A u \in Usages : SoundUse(u) /\ OneMalloc(u)) => (VmSpec => []HeapIntact)
<1>1. HeapInv => HeapIntact
  <2> SUFFICES ASSUME HeapInv PROVE HeapIntact
    OBVIOUS
  <2>1. \A b \in live : METADATA_EXTRA <= b.slack /\ b.slack + b.want <= b.size
    BY DEF HeapInv, LiveOk
  <2>2. Sound(Mapped, Heap, Hands, pte, table)
    BY DEF HeapInv
  <2>3. ASSUME NEW b \in live, NEW v \in VirtOf(b)
        PROVE  v \in Mapped
    BY <2>3 DEF Mapped, LiveV
  <2>4. Heap \subseteq UNION {HeldPages(c) : c \in CPUs} /\ NULL \notin Heap
    <3>1. NULL \notin Pages
      BY Constants
    <3>2. Heap \subseteq Pages
      BY DEF Heap
    <3> QED
      BY <3>1, <3>2, HeapOwned DEF Owned
  <2>5. ASSUME NEW b \in live, NEW v \in VirtOf(b)
        PROVE  /\ pte[v] \in UNION {HeldPages(c) : c \in CPUs}
               /\ \A t \in DOMAIN table : table[t] # pte[v]
    <3>1. pte[v] \in Heap
      BY <2>2, <2>3 DEF Sound
    <3>2. \A t \in DOMAIN table : table[t] # NULL => table[t] # pte[v]
      BY <2>2, <2>3 DEF Sound
    <3> QED
      BY <2>4, <3>1, <3>2
  <2>6. ASSUME NEW b \in live, NEW v \in VirtOf(b), NEW d \in live,
               NEW w \in VirtOf(d), <<b, v>> # <<d, w>>
        PROVE  pte[v] # pte[w]
    <3>1. v # w
      BY <2>6 DEF HeapInv, Apart
    <3>2. v \in Mapped /\ w \in Mapped
      BY <2>3
    <3> QED
      BY <2>2, <3>1, <3>2 DEF Sound
  <2> QED
    BY <2>1, <2>5, <2>6 DEF HeapIntact
<1> QED
  BY <1>1, HeapInvariance, PTL
=============================================================================
