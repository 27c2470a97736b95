-------------------------- MODULE PageAllocProofs --------------------------
(***************************************************************************)
(* No page of the page allocator has two owners and none is lost, for any  *)
(* number of CPUs and pages and any sequence of calls, if the allocator is *)
(* used as SoundUse says.                                                  *)
(*                                                                         *)
(* The invariant is about the list itself: there is a sequence of distinct *)
(* pages, linked one to the next from freelist on, and its pages are those *)
(* that were handed over and that nobody owns.  Pushed and Cut say what    *)
(* the two changes of the list do to such a sequence, WalkList that Walk   *)
(* finds it, ScanFinds what the loop of alloc_pages finds on it.  What a   *)
(* call has read before the lock is still so when it holds the lock:       *)
(* because nobody else changed the list, or because the pages suffice.     *)
(***************************************************************************)
EXTENDS Vmalloc, FiniteSetTheorems, WellFoundedInduction, TLAPS

(* Blocks of memory, the pages that some CPU has, and all that setup_vm    *)
(* handed over.                                                            *)
Blocks ==
  {b \in [start : Pages, n : 1 .. NrPages] : PagesOf(b) \subseteq Pages}
Owned == UNION {HeldPages(c) : c \in CPUs}
Handed == First .. First + given - 1

(* The i-th page of the list L of length k; NULL after the last.           *)
At(L, k, i) == IF i < k THEN L[i] ELSE NULL
Listed(L, k) == {L[i] : i \in 0 .. k - 1}

(* The free list that starts at f, with the links l, is L.                 *)
IsList(L, k, f, l) ==
  /\ \A i, j \in 0 .. k - 1 : L[i] = L[j] => i = j
  /\ f = At(L, k, 0)
  /\ \A i \in 0 .. k - 1 : l[L[i]] = At(L, k, i + 1)

(* The pages of that list are those of S. *)
HasList(f, l, S) ==
  \E k \in 0 .. NrPages : \E L \in [0 .. k - 1 -> Pages] :
    IsList(L, k, f, l) /\ Listed(L, k) = S

(* The range of every variable. *)
Types ==
  /\ usage \in Usages /\ SoundUse(usage)
  /\ given = None \/ given \in usage.pages
  /\ DOMAIN link = Pages \cup {NULL}
  /\ held \in [CPUs -> SUBSET Blocks]
  /\ pc \in [CPUs -> {"idle", "take", "scan"}]
  /\ DOMAIN head = CPUs /\ DOMAIN order = CPUs

(* Until setup_vm, nothing is called. *)
Before ==
  given = None => /\ freelist = NULL
                  /\ \A c \in CPUs : held[c] = {} /\ pc[c] = "idle"

(* The pages that nobody owns are on the list. *)
ListInv ==
  given # None => /\ Owned \subseteq Handed
                  /\ HasList(freelist, link, Handed \ Owned)

(* Where a call stands between its read of freelist and the lock: a page   *)
(* will be there (alloc_page), the head read is the head (alloc_pages).    *)
InCall(c) ==
  /\ pc[c] = "take" => /\ "alloc_page" \in usage.ops[c]
                       /\ Room(c, 1)
                       /\ Alone(usage) => freelist # NULL
  /\ pc[c] = "scan" => /\ "alloc_pages" \in usage.ops[c]
                       /\ head[c] = freelist /\ order[c] \in Orders

CallInv == \A c \in CPUs : InCall(c)

(* No CPU exceeds what it may hold. *)
RoomInv ==
  Roomy(usage) => \A c \in CPUs : Cardinality(HeldPages(c)) <= usage.held[c]

PageInv == Types /\ Before /\ ListInv /\ OneOwner /\ CallInv /\ RoomInv
-----------------------------------------------------------------------------
(* A set of natural numbers has a least element. *)
LEMMA Least ==
  ASSUME NEW T, T \subseteq Nat, T # {}
  PROVE  \E n \in T : \A m \in T : n <= m
<1> DEFINE R == OpToRel(<, Nat)
<1>1. IsWellFoundedOn(R, Nat)
  BY NatLessThanWellFounded
<1>2. PICK n \in T : \A m \in T : ~ (<<m, n>> \in R)
  <2> HIDE DEF R
  <2> QED
    BY <1>1, WFMin
<1>3. \A m \in T : ~ (m < n)
  BY <1>2 DEF OpToRel
<1> QED
  BY <1>3

(* Induction over the natural numbers. *)
LEMMA Induct ==
  ASSUME NEW S, 0 \in S, \A n \in Nat : n \in S => n + 1 \in S
  PROVE  Nat \subseteq S
<1> SUFFICES ASSUME Nat \ S # {} PROVE FALSE
  OBVIOUS
<1>1. PICK n \in Nat \ S : \A m \in Nat \ S : n <= m
  BY Least
<1>2. n - 1 \in Nat /\ n - 1 \in S
  BY <1>1
<1> QED
  BY <1>1, <1>2

(* The values of the constants. *)
LEMMA Constants ==
  /\ First \in Nat \ {0} /\ NrPages \in Nat
  /\ NULL \notin Pages /\ Pages \subseteq Nat
  /\ \A u \in Usages : /\ u.ops \in [CPUs -> SUBSET OpNames]
                       /\ u.held \in [CPUs -> Nat]
                       /\ u.pages \subseteq 0 .. NrPages
BY PageAllocAssumption DEF Pages, NULL

(* A block lies in the memory. *)
LEMMA BlockFacts ==
  ASSUME NEW b \in Blocks
  PROVE  /\ b.start \in Pages /\ b.start \in Nat /\ b.n \in Nat \ {0}
         /\ PagesOf(b) = b.start .. b.start + b.n - 1
         /\ PagesOf(b) \subseteq Pages
<1>1. b \in [start : Pages, n : 1 .. NrPages]
  BY Zenon DEF Blocks
<1>2. PagesOf(b) \subseteq Pages
  BY Zenon DEF Blocks
<1>3. b.start \in Pages /\ b.n \in 1 .. NrPages
  BY <1>1
<1>4. b.start \in Nat /\ b.n \in Nat \ {0}
  <2>1. Pages \subseteq Nat /\ 1 .. NrPages \subseteq Nat \ {0}
    BY Constants
  <2> QED BY <1>3, <2>1, Zenon
<1>5. PagesOf(b) = b.start .. b.start + b.n - 1
  BY Zenon DEF PagesOf
<1> QED
  BY <1>2, <1>3, <1>4, <1>5, Zenon

(* A list of different pages is no longer than the memory. *)
LEMMA ListFits ==
  ASSUME NEW k \in Nat, NEW L \in [0 .. k - 1 -> Pages],
         \A i, j \in 0 .. k - 1 : L[i] = L[j] => i = j
  PROVE  k <= NrPages
<1>1. IsFiniteSet(Pages) /\ Cardinality(Pages) = NrPages
  <2> DEFINE last == First + NrPages - 1
  <2>1. First \in Int /\ last \in Int
    BY Constants
  <2>2. (IF First > last THEN 0 ELSE last - First + 1) = NrPages
    BY Constants
  <2> HIDE DEF last
  <2>3. /\ IsFiniteSet(First .. last)
        /\ Cardinality(First .. last)
             = IF First > last THEN 0 ELSE last - First + 1
    BY <2>1, FS_Interval
  <2>4. Pages = First .. last
    BY DEF Pages, last
  <2> QED
    BY <2>2, <2>3, <2>4, Zenon
<1>2. IsFiniteSet(0 .. k - 1) /\ Cardinality(0 .. k - 1) = k
  BY FS_Interval
<1>3. L \in Injection(0 .. k - 1, Pages)
  BY DEF Injection, IsInjective
<1> QED
  BY <1>1, <1>2, <1>3, FS_Injection

(* The links l have become m: n pages from mem on stand before the list f. *)
RunLinked(m, l, mem, n, f) ==
  m = [p \in DOMAIN l |-> IF p \in mem .. mem + n - 2 THEN p + 1
                          ELSE IF p = mem + n - 1 THEN f ELSE l[p]]

(* free_pages puts a run of pages in front of the list. *)
LEMMA Pushed ==
  ASSUME NEW f, NEW l, NEW S, HasList(f, l, S), DOMAIN l = Pages \cup {NULL},
         NEW mem \in Pages, NEW n \in Nat \ {0},
         mem .. mem + n - 1 \subseteq Pages \ S,
         NEW m, RunLinked(m, l, mem, n, f)
  PROVE  HasList(mem, m, S \cup (mem .. mem + n - 1))
<1>a. PICK k \in 0 .. NrPages : \E L \in [0 .. k - 1 -> Pages] :
        IsList(L, k, f, l) /\ Listed(L, k) = S
  BY DEF HasList
<1>b. PICK L \in [0 .. k - 1 -> Pages] : IsList(L, k, f, l) /\ Listed(L, k) = S
  BY <1>a
<1> DEFINE j == k + n
           M == [i \in 0 .. j - 1 |-> IF i < n THEN mem + i ELSE L[i - n]]
<1>0. m = [p \in DOMAIN l |-> IF p \in mem .. mem + n - 2 THEN p + 1
                               ELSE IF p = mem + n - 1 THEN f ELSE l[p]]
  BY DEF RunLinked
<1>1. mem \in Nat /\ j \in Nat /\ k \in Nat
  BY Constants
<1>2. \A i \in 0 .. n - 1 : mem + i \in Pages /\ mem + i \notin Listed(L, k)
  BY <1>1, <1>b
<1>3. \A i \in 0 .. k - 1 : L[i] \in Listed(L, k) /\ L[i] \in Pages
  BY DEF Listed
<1>4. /\ \A i \in 0 .. n - 1 : i \in 0 .. j - 1 /\ M[i] = mem + i
      /\ \A i \in n .. j - 1 : i - n \in 0 .. k - 1 /\ M[i] = L[i - n]
      /\ \A i \in 0 .. j - 1 : i \in 0 .. n - 1 \/ i \in n .. j - 1
  BY <1>1
<1>5. M \in [0 .. j - 1 -> Pages]
  BY <1>2, <1>3, <1>4
<1> HIDE DEF M
<1>6. \A a, b \in 0 .. j - 1 : M[a] = M[b] => a = b
  <2> SUFFICES ASSUME NEW a \in 0 .. j - 1, NEW b \in 0 .. j - 1, M[a] = M[b]
               PROVE  a = b
    OBVIOUS
  <2>1. CASE a < n /\ b < n
    BY <2>1, <1>1, <1>4
  <2>2. CASE a >= n /\ b >= n
    <3>1. a \in n .. j - 1 /\ b \in n .. j - 1
      BY <2>2, <1>1
    <3>2. L[a - n] = L[b - n] /\ a - n \in 0 .. k - 1 /\ b - n \in 0 .. k - 1
      BY <3>1, <1>4
    <3>3. a - n = b - n
      BY <3>2, <1>b DEF IsList
    <3> QED BY <3>3
  <2>3. CASE (a < n) # (b < n)
    BY <2>3, <1>1, <1>2, <1>3, <1>4
  <2> QED
    BY <2>1, <2>2, <2>3, <1>1
<1>7. mem = At(M, j, 0)
  BY <1>1, <1>4 DEF At
<1>8. f = At(M, j, n)
  <2>1. CASE k = 0
    BY <2>1, <1>1, <1>b DEF At, IsList
  <2>2. CASE k > 0
    <3>1. n \in n .. j - 1 /\ M[n] = L[0]
      BY <2>2, <1>1, <1>4
    <3> QED BY <2>2, <3>1, <1>b DEF At, IsList
  <2> QED BY <2>1, <2>2
<1>9. \A i \in 0 .. j - 1 : m[M[i]] = At(M, j, i + 1)
  <2> SUFFICES ASSUME NEW i \in 0 .. j - 1
               PROVE  m[M[i]] = At(M, j, i + 1)
    OBVIOUS
  <2>1. CASE i < n - 1
    <3>1. M[i] = mem + i /\ mem + i \in Pages /\ mem + i \in mem .. mem + n - 2
      BY <2>1, <1>1, <1>2, <1>4
    <3>2. i + 1 < j /\ M[i + 1] = mem + i + 1
      BY <2>1, <1>1, <1>4
    <3> QED BY <3>1, <3>2, <1>0, <1>1 DEF At
  <2>2. CASE i = n - 1
    <3>1. /\ M[i] = mem + n - 1 /\ M[i] \in Pages
          /\ M[i] \notin mem .. mem + n - 2
      BY <2>2, <1>1, <1>2, <1>4
    <3> QED BY <2>2, <3>1, <1>0, <1>8
  <2>3. CASE i >= n
    <3>1. /\ i - n \in 0 .. k - 1 /\ M[i] = L[i - n] /\ M[i] \in Pages
          /\ M[i] \notin mem .. mem + n - 1
      <4>1. i \in n .. j - 1
        BY <2>3, <1>1
      <4>2. i - n \in 0 .. k - 1 /\ M[i] = L[i - n]
        BY <4>1, <1>4
      <4>3. M[i] \in Pages /\ M[i] \in S
        BY <4>2, <1>3, <1>b
      <4> QED BY <4>2, <4>3
    <3>2. m[M[i]] = l[L[i - n]]
      BY <3>1, <1>0, <1>1
    <3>3. m[M[i]] = At(L, k, i - n + 1)
      BY <3>1, <3>2, <1>b DEF IsList
    <3>4. At(L, k, i - n + 1) = At(M, j, i + 1)
      BY <2>3, <1>1, <1>4 DEF At
    <3> QED BY <3>3, <3>4
  <2> QED
    BY <2>1, <2>2, <2>3
<1>10. Listed(M, j) = S \cup (mem .. mem + n - 1)
  <2>1. \A i \in 0 .. k - 1 : i + n \in 0 .. j - 1 /\ M[i + n] = L[i]
    BY <1>1, <1>4
  <2>2. \A p \in mem .. mem + n - 1 : p - mem \in 0 .. j - 1 /\ M[p - mem] = p
    BY <1>1, <1>4
  <2>3. \A i \in 0 .. j - 1 : \/ M[i] \in mem .. mem + n - 1
                              \/ \E h \in 0 .. k - 1 : M[i] = L[h]
    BY <1>1, <1>4
  <2>4. S \subseteq Listed(M, j)
    BY <1>b, <2>1 DEF Listed
  <2>5. mem .. mem + n - 1 \subseteq Listed(M, j)
    BY <2>2 DEF Listed
  <2>6. Listed(M, j) \subseteq S \cup (mem .. mem + n - 1)
    BY <1>b, <2>3 DEF Listed
  <2> QED BY <2>4, <2>5, <2>6
<1>11. j \in 0 .. NrPages
  <2> HIDE DEF j
  <2>1. j <= NrPages
    BY <1>1, <1>5, <1>6, ListFits
  <2> QED BY <1>1, <2>1, Constants
<1>12. IsList(M, j, mem, m)
  BY <1>6, <1>7, <1>9 DEF IsList
<1> QED
  BY <1>5, <1>10, <1>11, <1>12 DEF HasList

(* The head f and the links l have become g and m: n pages of the list     *)
(* are passed over, from place a on.                                       *)
RunCut(g, m, f, l, L, k, a, n) ==
  /\ g = IF a = 0 THEN At(L, k, n) ELSE f
  /\ m = IF a = 0 THEN l ELSE [l EXCEPT ![L[a - 1]] = At(L, k, a + n)]

(* The pages at n places of the list. *)
Places(L, a, n) == {L[i] : i \in a .. a + n - 1}

(* alloc_page and alloc_pages take n pages out of the list.                *)
LEMMA Cut ==
  ASSUME NEW k \in Nat, NEW L \in [0 .. k - 1 -> Pages], NEW l, NEW f,
         IsList(L, k, f, l), DOMAIN l = Pages \cup {NULL},
         NEW a \in Nat, NEW n \in Nat \ {0}, a + n <= k,
         NEW g, NEW m, RunCut(g, m, f, l, L, k, a, n)
  PROVE  HasList(g, m, Listed(L, k) \ Places(L, a, n))
<1> DEFINE j == k - n
           M == [i \in 0 .. j - 1 |-> IF i < a THEN L[i] ELSE L[i + n]]
<1>0. /\ g = IF a = 0 THEN At(L, k, n) ELSE f
      /\ m = IF a = 0 THEN l ELSE [l EXCEPT ![L[a - 1]] = At(L, k, a + n)]
  BY DEF RunCut
<1>1. j \in Nat /\ a <= j
  OBVIOUS
<1>2. \A i, h \in 0 .. k - 1 : L[i] = L[h] => i = h
  BY DEF IsList
<1>3. \A i \in 0 .. k - 1 : L[i] \in Pages
  OBVIOUS
<1>4. /\ \A i \in 0 .. a - 1 : /\ i \in 0 .. k - 1 /\ i \in 0 .. j - 1
                               /\ M[i] = L[i]
      /\ \A i \in a .. j - 1 : /\ i + n \in 0 .. k - 1 /\ i \in 0 .. j - 1
                               /\ M[i] = L[i + n]
      /\ \A i \in 0 .. j - 1 : i \in 0 .. a - 1 \/ i \in a .. j - 1
  BY <1>1
<1>5. M \in [0 .. j - 1 -> Pages]
  BY <1>3, <1>4
<1> HIDE DEF M
<1>6. \A b, c \in 0 .. j - 1 : M[b] = M[c] => b = c
  <2> SUFFICES ASSUME NEW b \in 0 .. j - 1, NEW c \in 0 .. j - 1, M[b] = M[c]
               PROVE  b = c
    OBVIOUS
  <2> DEFINE P(i) == IF i < a THEN i ELSE i + n
  <2>1. P(b) \in 0 .. k - 1 /\ P(c) \in 0 .. k - 1
    BY <1>1
  <2>2. M[b] = L[P(b)] /\ M[c] = L[P(c)]
    BY <1>1, <1>4
  <2>3. P(b) = P(c)
    <3> HIDE DEF P
    <3> QED BY <2>1, <2>2, <1>2
  <2> QED
    BY <2>3
<1>7. \A i \in a .. j : At(M, j, i) = At(L, k, i + n)
  BY <1>1, <1>4 DEF At
<1>8. \A i \in 0 .. a - 1 : At(M, j, i) = At(L, k, i)
  BY <1>1, <1>4 DEF At
<1>9. g = At(M, j, 0)
  <2>1. CASE a = 0
    <3>1. At(M, j, 0) = At(L, k, 0 + n)
      BY <2>1, <1>1, <1>7
    <3> QED BY <2>1, <3>1, <1>0
  <2>2. CASE a # 0
    BY <2>2, <1>0, <1>8 DEF IsList
  <2> QED BY <2>1, <2>2
<1>10. \A i \in 0 .. j - 1 : m[M[i]] = At(M, j, i + 1)
  <2> SUFFICES ASSUME NEW i \in 0 .. j - 1
               PROVE  m[M[i]] = At(M, j, i + 1)
    OBVIOUS
  <2>1. CASE i < a - 1
    <3>1. /\ M[i] = L[i] /\ i \in 0 .. k - 1 /\ a - 1 \in 0 .. k - 1
          /\ i # a - 1 /\ a # 0
      BY <2>1, <1>1, <1>4
    <3>2. L[i] # L[a - 1] /\ L[i] \in Pages
      BY <3>1, <1>2, <1>3
    <3>3. m[M[i]] = l[L[i]]
      BY <3>1, <3>2, <1>0
    <3>4. l[L[i]] = At(L, k, i + 1)
      BY <3>1 DEF IsList
    <3> QED BY <2>1, <3>3, <3>4, <1>1, <1>8
  <2>2. CASE i = a - 1
    <3>1. M[i] = L[a - 1] /\ a - 1 \in 0 .. k - 1 /\ a # 0
      BY <2>2, <1>1, <1>4
    <3>2. m[M[i]] = At(L, k, a + n)
      BY <3>1, <1>0, <1>3
    <3>3. At(M, j, a) = At(L, k, a + n)
      BY <1>1, <1>7
    <3> QED BY <2>2, <3>2, <3>3
  <2>3. CASE i >= a
    <3>1. M[i] = L[i + n] /\ i + n \in 0 .. k - 1
      BY <2>3, <1>1, <1>4
    <3>2. m[M[i]] = l[L[i + n]]
      <4>1. CASE a = 0
        BY <4>1, <3>1, <1>0
      <4>2. CASE a # 0
        <5>1. a - 1 \in 0 .. k - 1 /\ i + n # a - 1
          BY <4>2, <2>3, <1>1
        <5>2. L[i + n] # L[a - 1] /\ L[i + n] \in Pages
          BY <3>1, <5>1, <1>2, <1>3
        <5> QED BY <4>2, <3>1, <5>2, <1>0
      <4> QED BY <4>1, <4>2
    <3>3. l[L[i + n]] = At(L, k, i + n + 1)
      BY <3>1 DEF IsList
    <3>4. At(M, j, i + 1) = At(L, k, i + 1 + n)
      BY <2>3, <1>1, <1>7
    <3> QED BY <3>2, <3>3, <3>4
  <2> QED
    BY <2>1, <2>2, <2>3
<1>11. Listed(M, j) = Listed(L, k) \ Places(L, a, n)
  <2>1. ASSUME NEW i \in 0 .. j - 1
        PROVE  M[i] \in Listed(L, k) \ Places(L, a, n)
    <3> DEFINE b == IF i < a THEN i ELSE i + n
    <3>1. M[i] = L[b] /\ b \in 0 .. k - 1 /\ b \notin a .. a + n - 1
      BY <1>1, <1>4
    <3>2. \A h \in a .. a + n - 1 : h \in 0 .. k - 1
      BY <1>1
    <3> HIDE DEF b
    <3> QED BY <3>1, <3>2, <1>2 DEF Listed, Places
  <2>2. ASSUME NEW h \in 0 .. k - 1, h \notin a .. a + n - 1
        PROVE  L[h] \in Listed(M, j)
    <3>1. CASE h < a
      BY <3>1, <1>4 DEF Listed
    <3>2. CASE h >= a
      <4>1. h - n \in a .. j - 1
        BY <2>2, <3>2
      <4>2. h - n \in 0 .. j - 1 /\ M[h - n] = L[h]
        BY <4>1, <1>4
      <4> QED BY <4>2 DEF Listed
    <3> QED BY <3>1, <3>2
  <2> QED
    BY <2>1, <2>2 DEF Listed, Places
<1>12. j \in 0 .. NrPages
  <2> HIDE DEF j
  <2>1. j <= NrPages
    BY <1>1, <1>5, <1>6, ListFits
  <2> QED BY <1>1, <2>1, Constants
<1>13. IsList(M, j, g, m)
  BY <1>6, <1>9, <1>10 DEF IsList
<1> QED
  BY <1>5, <1>11, <1>12, <1>13 DEF HasList

(* The pages that the walk along the links finds are those of the list. *)
LEMMA WalkList ==
  ASSUME NEW S, HasList(freelist, link, S)
  PROVE  Free = S
<1>a. PICK k \in 0 .. NrPages : \E L \in [0 .. k - 1 -> Pages] :
        IsList(L, k, freelist, link) /\ Listed(L, k) = S
  BY DEF HasList
<1>b. PICK L \in [0 .. k - 1 -> Pages] :
        IsList(L, k, freelist, link) /\ Listed(L, k) = S
  BY <1>a
<1> DEFINE W == [i \in 0 .. NrPages |-> At(L, k, i)]
           F(w) == [i \in 0 .. NrPages |->
                      IF i = 0 THEN freelist
                      ELSE IF w[i - 1] \in Pages THEN link[w[i - 1]] ELSE NULL]
<1>1. NrPages \in Nat /\ NULL \notin Pages /\ k \in Nat
  BY Constants
<1>2. W = F(W)
  <2> SUFFICES ASSUME NEW i \in 0 .. NrPages, i # 0
               PROVE  At(L, k, i) = IF At(L, k, i - 1) \in Pages
                                    THEN link[At(L, k, i - 1)] ELSE NULL
    BY <1>1, <1>b DEF IsList
  <2>1. CASE i - 1 < k
    <3>1. i - 1 \in 0 .. k - 1
      BY <2>1, <1>1
    <3>2. link[L[i - 1]] = At(L, k, i - 1 + 1)
      BY <3>1, <1>b DEF IsList
    <3> QED BY <2>1, <3>1, <3>2 DEF At
  <2>2. CASE i - 1 >= k
    BY <2>2, <1>1 DEF At
  <2> QED BY <1>1, <2>1, <2>2
<1>3. Walk = F(Walk)
  <2>1. Walk = CHOOSE w : w = F(w)
    BY DEF Walk
  <2> HIDE DEF F, W
  <2> QED BY <1>2, <2>1
<1>4. \A i \in Nat : i \in 0 .. NrPages => Walk[i] = At(L, k, i)
  <2> DEFINE T == {i \in Nat : i \in 0 .. NrPages => Walk[i] = At(L, k, i)}
  <2>1. 0 \in T
    BY <1>1, <1>3, <1>b DEF IsList
  <2>2. ASSUME NEW i \in Nat, i \in T
        PROVE  i + 1 \in T
    <3> SUFFICES ASSUME i + 1 \in 0 .. NrPages
                 PROVE  Walk[i + 1] = At(L, k, i + 1)
      OBVIOUS
    <3>1. i \in 0 .. NrPages /\ Walk[i] = At(L, k, i)
      BY <1>1, <2>2
    <3>2. Walk[i + 1] = IF Walk[i] \in Pages THEN link[Walk[i]] ELSE NULL
      BY <1>3, <1>1
    <3>3. W[i + 1] = IF W[i] \in Pages THEN link[W[i]] ELSE NULL
      <4> HIDE DEF W
      <4> QED BY <1>2, <1>1
    <3> QED BY <3>1, <3>2, <3>3
  <2> HIDE DEF T
  <2>3. Nat \subseteq T
    BY <2>1, <2>2, Induct
  <2> QED BY <2>3 DEF T
<1>5. Free = {At(L, k, i) : i \in 0 .. NrPages} \ {NULL}
  BY <1>1, <1>4 DEF Free
<1>6. \A i \in 0 .. NrPages :
        At(L, k, i) # NULL => At(L, k, i) \in Listed(L, k)
  BY <1>1 DEF At, Listed
<1>7. \A i \in 0 .. k - 1 : /\ i \in 0 .. NrPages /\ At(L, k, i) = L[i]
                            /\ L[i] # NULL
  BY <1>1 DEF At
<1> QED
  BY <1>5, <1>6, <1>7, <1>b DEF Listed
-----------------------------------------------------------------------------
(* The state in which the loop of alloc_pages starts. *)
Begin(start) ==
  [curr |-> NULL, next |-> start, run |-> 0, run_start |-> NULL,
   run_prev |-> NULL, run_next |-> NULL]

(* The first m turns of that loop. *)
Turns(t, m, start, n) ==
  t = [i \in 0 .. m |-> IF i = 0 THEN Begin(start) ELSE ScanTurn(t[i - 1], n)]

(* There is such a sequence of turns, of any length. *)
LEMMA TurnsExist ==
  ASSUME NEW start, NEW n, NEW m \in Nat
  PROVE  \E t : Turns(t, m, start, n)
<1> DEFINE S == {h \in Nat : \E t : Turns(t, h, start, n)}
<1>1. 0 \in S
  <2> DEFINE t == [i \in 0 .. 0 |-> Begin(start)]
  <2>1. Turns(t, 0, start, n)
    BY DEF Turns
  <2> QED BY <2>1
<1>2. ASSUME NEW h \in Nat, h \in S
      PROVE  h + 1 \in S
  <2>1. PICK t : Turns(t, h, start, n)
    BY <1>2
  <2> DEFINE u == [i \in 0 .. h + 1 |->
                     IF i <= h THEN t[i] ELSE ScanTurn(t[h], n)]
  <2>2. \A i \in 0 .. h : u[i] = t[i]
    OBVIOUS
  <2>3. u[h + 1] = ScanTurn(t[h], n)
    OBVIOUS
  <2>4. DOMAIN u = 0 .. h + 1 /\ u = [i \in 0 .. h + 1 |-> u[i]]
    OBVIOUS
  <2> HIDE DEF u
  <2>5. \A i \in 0 .. h + 1 :
          u[i] = IF i = 0 THEN Begin(start) ELSE ScanTurn(u[i - 1], n)
    <3> SUFFICES ASSUME NEW i \in 0 .. h + 1
                 PROVE  u[i] = IF i = 0 THEN Begin(start)
                                        ELSE ScanTurn(u[i - 1], n)
      OBVIOUS
    <3>1. CASE i = h + 1
      BY <3>1, <2>2, <2>3
    <3>2. CASE i = 0
      BY <3>2, <2>1, <2>2 DEF Turns
    <3>3. CASE i # 0 /\ i # h + 1
      <4>1. i \in 0 .. h /\ i - 1 \in 0 .. h
        BY <3>3
      <4>2. t[i] = ScanTurn(t[i - 1], n)
        BY <2>1, <3>3, <4>1 DEF Turns
      <4> QED BY <2>2, <3>3, <4>1, <4>2
    <3> QED BY <3>1, <3>2, <3>3
  <2>6. Turns(u, h + 1, start, n)
    BY <2>4, <2>5 DEF Turns
  <2> QED BY <2>6
<1> HIDE DEF S
<1>3. Nat \subseteq S
  BY <1>1, <1>2, Induct
<1> QED
  BY <1>3 DEF S

(* The r pages of the list before place j are a run in memory from start   *)
(* on; prev stands before them on the list, and next would continue them.  *)
InRow(L, j, r, start, prev, next) ==
  /\ \A i \in 0 .. r - 1 : L[j - r + i] = start + i
  /\ prev = IF j = r THEN NULL ELSE L[j - r - 1]
  /\ next = start + r

(* Where the loop stands: it has passed j pages of the list, the last run  *)
(* of them in a row.                                                       *)
Passed(L, k, n, s, j) ==
  /\ j \in 0 .. k
  /\ s.next = At(L, k, j)
  /\ s.curr = IF j = 0 THEN NULL ELSE L[j - 1]
  /\ s.run \in 0 .. n /\ s.run <= j /\ s.run_start \in Nat
  /\ s.run > 0 => InRow(L, j, s.run, s.run_start, s.run_prev, s.run_next)

(* A run starts with one page. *)
LEMMA RowStarts ==
  ASSUME NEW L, NEW j \in Nat, L[j] \in Nat
  PROVE  InRow(L, j + 1, 1, L[j], IF j = 0 THEN NULL ELSE L[j - 1], L[j] + 1)
BY DEF InRow

(* A run grows by the page that continues it. *)
LEMMA RowGrows ==
  ASSUME NEW L, NEW j \in Nat, L[j] \in Nat, NEW r \in Nat, r <= j,
         NEW start \in Nat, NEW prev, InRow(L, j, r, start, prev, L[j])
  PROVE  InRow(L, j + 1, r + 1, start, prev, L[j] + 1)
<1>1. ASSUME NEW i \in 0 .. (r + 1) - 1
      PROVE  L[j + 1 - (r + 1) + i] = start + i
  <2>1. CASE i = r
    BY <2>1 DEF InRow
  <2>2. CASE i # r
    BY <2>2 DEF InRow
  <2> QED BY <2>1, <2>2
<1>2. prev = IF j + 1 = r + 1 THEN NULL ELSE L[j + 1 - (r + 1) - 1]
  BY DEF InRow
<1>3. L[j] + 1 = start + (r + 1)
  BY DEF InRow
<1> QED
  BY <1>1, <1>2, <1>3 DEF InRow

(* One turn of the loop. *)
LEMMA TurnPasses ==
  ASSUME NEW k \in 0 .. NrPages, NEW L \in [0 .. k - 1 -> Pages],
         IsList(L, k, freelist, link), NEW n \in Nat \ {0},
         NEW s, NEW j, Passed(L, k, n, s, j)
  PROVE  \E h : Passed(L, k, n, ScanTurn(s, n), h)
<1>1. k \in Nat /\ NULL \notin Pages /\ Pages \subseteq Nat
  BY Constants
<1>2. CASE s.run = n \/ s.next \notin Pages
  BY <1>2 DEF ScanTurn
<1>3. CASE s.run # n /\ s.next \in Pages
  <2> DEFINE curr == s.next
             starts == s.run = 0 /\ curr % n = 0
             run == IF starts THEN 1
                    ELSE IF s.run > 0 /\ curr = s.run_next THEN s.run + 1
                    ELSE 0
             t == [curr      |-> curr,
                   next      |-> link[curr],
                   run       |-> run,
                   run_start |-> IF starts THEN curr ELSE s.run_start,
                   run_prev  |-> IF starts THEN s.curr ELSE s.run_prev,
                   run_next  |-> curr + 1]
  <2>1. ScanTurn(s, n) = t
    BY <1>3 DEF ScanTurn
  <2>2. j \in 0 .. k - 1 /\ curr = L[j] /\ curr \in Nat
    <3>1. j \in 0 .. k /\ curr = At(L, k, j)
      BY DEF Passed
    <3>2. j < k
      BY <1>1, <1>3, <3>1 DEF At
    <3>3. j \in 0 .. k - 1
      BY <1>1, <3>1, <3>2
    <3>4. curr = L[j]
      BY <3>1, <3>2 DEF At
    <3> QED BY <1>1, <1>3, <3>3, <3>4
  <2>3. link[curr] = At(L, k, j + 1)
    BY <2>2 DEF IsList
  <2>4. PICK r \in 0 .. n - 1, start \in Nat :
          /\ s.run = r /\ s.run_start = start /\ r <= j
          /\ r > 0 => InRow(L, j, r, start, s.run_prev, s.run_next)
    <3>1. s.run \in 0 .. n /\ s.run <= j /\ s.run_start \in Nat
      BY DEF Passed
    <3>2. s.run \in 0 .. n - 1
      BY <1>3, <3>1
    <3>3. s.run > 0 => InRow(L, j, s.run, s.run_start, s.run_prev, s.run_next)
      BY DEF Passed
    <3> QED BY <3>1, <3>2, <3>3
  <2>5. starts \in BOOLEAN /\ (starts => r = 0)
    BY <2>4
  <2> HIDE DEF starts
  <2>6. /\ t.curr = L[j] /\ t.next = At(L, k, j + 1) /\ t.run_next = L[j] + 1
        /\ t.curr = IF j + 1 = 0 THEN NULL ELSE L[j + 1 - 1]
    BY <2>2, <2>3
  <2>7. j \in Nat /\ j + 1 \in 0 .. k /\ L[j] \in Nat
    BY <1>1, <2>2
  <2>8. CASE starts
    <3>1. t.run = 1 /\ t.run_start = L[j] /\ t.run_prev = s.curr
      BY <2>8, <2>2
    <3>2. s.curr = IF j = 0 THEN NULL ELSE L[j - 1]
      BY DEF Passed
    <3> HIDE DEF t
    <3>3. InRow(L, j + 1, t.run, t.run_start, t.run_prev, t.run_next)
      BY <2>6, <2>7, <3>1, <3>2, RowStarts
    <3>4. t.run \in 0 .. n /\ t.run <= j + 1 /\ t.run_start \in Nat
      BY <2>7, <3>1
    <3>5. Passed(L, k, n, t, j + 1)
      BY <2>6, <2>7, <3>3, <3>4 DEF Passed
    <3> QED BY <2>1, <3>5
  <2>9. CASE ~starts /\ r > 0 /\ L[j] = s.run_next
    <3>1. t.run = r + 1 /\ t.run_start = start /\ t.run_prev = s.run_prev
      BY <2>9, <2>2, <2>4
    <3> HIDE DEF t
    <3>2. InRow(L, j, r, start, s.run_prev, L[j])
      BY <2>4, <2>9
    <3>3. InRow(L, j + 1, r + 1, start, s.run_prev, L[j] + 1)
      <4>1. r \in Nat /\ r <= j /\ start \in Nat
        BY <2>4
      <4> QED BY <4>1, <2>7, <3>2, RowGrows
    <3>4. t.run \in 0 .. n /\ t.run <= j + 1 /\ t.run_start \in Nat
      BY <2>4, <2>7, <3>1
    <3>5. InRow(L, j + 1, t.run, t.run_start, t.run_prev, t.run_next)
      BY <2>6, <3>1, <3>3
    <3>6. Passed(L, k, n, t, j + 1)
      BY <2>6, <2>7, <3>4, <3>5 DEF Passed
    <3> QED BY <2>1, <3>6
  <2>10. CASE ~starts /\ ~(r > 0 /\ L[j] = s.run_next)
    <3>1. t.run = 0 /\ t.run_start = start
      BY <2>10, <2>2, <2>4
    <3> HIDE DEF t
    <3>2. /\ t.run \in 0 .. n /\ t.run <= j + 1
          /\ t.run_start \in Nat /\ ~(t.run > 0)
      BY <2>4, <2>7, <3>1
    <3>3. Passed(L, k, n, t, j + 1)
      BY <2>6, <2>7, <3>2 DEF Passed
    <3> QED BY <2>1, <3>3
  <2> QED BY <2>8, <2>9, <2>10
<1> QED
  BY <1>2, <1>3

(* What alloc_pages finds, if it finds anything: n pages in a row, both in *)
(* memory and on the list, with the pages before and after them.           *)
LEMMA ScanFinds ==
  ASSUME NEW k \in 0 .. NrPages, NEW L \in [0 .. k - 1 -> Pages],
         IsList(L, k, freelist, link), NEW n \in Nat \ {0},
         Scan(freelist, n).run = n
  PROVE  \E a \in Nat :
           /\ a + n <= k /\ Scan(freelist, n).run_start \in Nat
           /\ \A i \in 0 .. n - 1 : L[a + i] = Scan(freelist, n).run_start + i
           /\ Scan(freelist, n).next = At(L, k, a + n)
           /\ Scan(freelist, n).run_prev = IF a = 0 THEN NULL ELSE L[a - 1]
<1>1. k \in Nat /\ NrPages \in Nat
  BY Constants
<1> DEFINE t == CHOOSE t : Turns(t, NrPages, freelist, n)
<1>2. Scan(freelist, n) = t[NrPages]
  BY DEF Scan, Turns, Begin
<1>3. Turns(t, NrPages, freelist, n)
  BY <1>1, TurnsExist
<1> HIDE DEF t
<1> DEFINE S == {i \in Nat : i \in 0 .. NrPages =>
                               \E j : Passed(L, k, n, t[i], j)}
<1>4. 0 \in S
  <2>1. t[0] = Begin(freelist)
    BY <1>1, <1>3 DEF Turns
  <2>2. Passed(L, k, n, Begin(freelist), 0)
    <3> DEFINE b == Begin(freelist)
    <3>1. /\ b.next = freelist /\ b.curr = NULL /\ b.run = 0
          /\ b.run_start \in Nat
      BY DEF Begin, NULL
    <3> HIDE DEF b
    <3>2. Passed(L, k, n, b, 0)
      BY <1>1, <3>1 DEF Passed, IsList
    <3> QED BY <3>2 DEF b
  <2> QED BY <2>1, <2>2
<1>5. ASSUME NEW i \in Nat, i \in S
      PROVE  i + 1 \in S
  <2> SUFFICES ASSUME i + 1 \in 0 .. NrPages
               PROVE  \E j : Passed(L, k, n, t[i + 1], j)
    OBVIOUS
  <2>1. PICK j : Passed(L, k, n, t[i], j)
    BY <1>1, <1>5
  <2>2. t[i + 1] = ScanTurn(t[i], n)
    BY <1>1, <1>3 DEF Turns
  <2> QED BY <2>1, <2>2, TurnPasses
<1>6. NrPages \in S
  <2> HIDE DEF S
  <2> QED BY <1>1, <1>4, <1>5, Induct
<1>7. PICK j : Passed(L, k, n, t[NrPages], j)
  BY <1>1, <1>6
<1> DEFINE s == t[NrPages]
<1>8. s.run = n
  BY <1>2
<1> HIDE DEF s
<1>9. j - n \in Nat /\ j - n + n <= k
  BY <1>1, <1>7, <1>8 DEF Passed, s
<1>10. /\ s.run_start \in Nat
       /\ \A i \in 0 .. n - 1 : L[j - n + i] = s.run_start + i
       /\ s.next = At(L, k, j - n + n)
       /\ s.run_prev = IF j - n = 0 THEN NULL ELSE L[j - n - 1]
  <2>1. Passed(L, k, n, s, j)
    BY <1>7 DEF s
  <2>2. n > 0 /\ j \in Nat
    BY <1>1, <2>1 DEF Passed
  <2>3. InRow(L, j, n, s.run_start, s.run_prev, s.run_next)
    BY <1>8, <2>1, <2>2 DEF Passed
  <2>4. s.next = At(L, k, j) /\ j - n + n = j /\ s.run_start \in Nat
    BY <2>1, <2>2 DEF Passed
  <2> QED BY <1>9, <2>2, <2>3, <2>4 DEF InRow
<1> QED
  BY <1>2, <1>9, <1>10 DEF s
-----------------------------------------------------------------------------
(* Who owns a page. *)
LEMMA OwnedBy ==
  /\ \A p : p \in Owned <=> \E c \in CPUs : p \in HeldPages(c)
  /\ \A c, p : p \in HeldPages(c) <=> \E b \in held[c] : p \in PagesOf(b)
BY DEF Owned, HeldPages

(* The same in the next state. *)
LEMMA OwnedByNext ==
  /\ \A p : p \in Owned' <=> \E c \in CPUs : p \in HeldPages(c)'
  /\ \A c, p : p \in HeldPages(c)' <=> \E b \in held'[c] : p \in PagesOf(b)
BY DEF Owned, HeldPages, PagesOf

(* A block that is not empty shares its pages with no other. *)
LEMMA OneHolder ==
  ASSUME OneOwner, NEW c \in CPUs, NEW d \in CPUs, NEW a \in held[c],
         NEW b \in held[d], NEW p \in PagesOf(a) \cap PagesOf(b)
  PROVE  c = d /\ a = b
BY DEF OneOwner

(* A CPU gives back a block. *)
LEMMA OwnedLess ==
  ASSUME held \in [CPUs -> SUBSET Blocks], OneOwner, NEW c \in CPUs,
         NEW b \in held[c], held' = [held EXCEPT ![c] = @ \ {b}]
  PROVE  /\ held' \in [CPUs -> SUBSET Blocks] /\ OneOwner'
         /\ Owned' = Owned \ PagesOf(b)
         /\ \A d \in CPUs : HeldPages(d)' \subseteq HeldPages(d)
<1>1. held' \in [CPUs -> SUBSET Blocks]
  OBVIOUS
<1>2. \A d \in CPUs : held'[d] \subseteq held[d]
  OBVIOUS
<1>3. OneOwner'
  BY <1>2 DEF OneOwner, PagesOf
<1>4. \A d \in CPUs : HeldPages(d)' \subseteq HeldPages(d)
  BY <1>2, OwnedBy, OwnedByNext
<1>5. ASSUME NEW p, p \in Owned'
      PROVE  p \in Owned /\ p \notin PagesOf(b)
  <2>0. PICK d \in CPUs : p \in HeldPages(d)'
    BY <1>5, OwnedByNext
  <2>1. PICK a \in held'[d] : p \in PagesOf(a)
    BY <2>0, OwnedByNext
  <2>2. a \in held[d] /\ (d = c => a # b)
    BY <1>2
  <2>3. p \notin PagesOf(b)
    BY <2>1, <2>2, OneHolder
  <2> QED BY <2>1, <2>2, <2>3, OwnedBy
<1>6. ASSUME NEW p, p \in Owned, p \notin PagesOf(b)
      PROVE  p \in Owned'
  <2>0. PICK d \in CPUs : p \in HeldPages(d)
    BY <1>6, OwnedBy
  <2>1. PICK a \in held[d] : p \in PagesOf(a)
    BY <2>0, OwnedBy
  <2>2. a \in held'[d]
    BY <1>6, <2>1
  <2> QED BY <2>1, <2>2, OwnedByNext
<1> QED
  BY <1>1, <1>3, <1>4, <1>5, <1>6

(* A CPU is given a block of pages that nobody owns. *)
LEMMA OwnedMore ==
  ASSUME held \in [CPUs -> SUBSET Blocks], OneOwner, NEW c \in CPUs,
         NEW b \in Blocks, PagesOf(b) \cap Owned = {},
         held' = [held EXCEPT ![c] = @ \cup {b}]
  PROVE  /\ held' \in [CPUs -> SUBSET Blocks] /\ OneOwner'
         /\ Owned' = Owned \cup PagesOf(b)
         /\ HeldPages(c)' = HeldPages(c) \cup PagesOf(b)
         /\ \A d \in CPUs \ {c} : HeldPages(d)' = HeldPages(d)
<1>1. held' \in [CPUs -> SUBSET Blocks]
  OBVIOUS
<1>2. /\ held'[c] = held[c] \cup {b}
      /\ \A d \in CPUs \ {c} : held'[d] = held[d]
  OBVIOUS
<1>3. HeldPages(c)' = HeldPages(c) \cup PagesOf(b)
  BY <1>2, OwnedBy, OwnedByNext
<1>4. \A d \in CPUs \ {c} : HeldPages(d)' = HeldPages(d)
  BY <1>2 DEF HeldPages, PagesOf
<1>5. Owned' = Owned \cup PagesOf(b)
  <2>1. ASSUME NEW p, p \in Owned'
        PROVE  p \in Owned \cup PagesOf(b)
    <3>1. PICK d \in CPUs : p \in HeldPages(d)'
      BY <2>1, OwnedByNext
    <3> QED BY <1>3, <1>4, <3>1, OwnedBy
  <2>2. ASSUME NEW p, p \in Owned
        PROVE  p \in Owned'
    <3>1. PICK d \in CPUs : p \in HeldPages(d)
      BY <2>2, OwnedBy
    <3> QED BY <1>3, <1>4, <3>1, OwnedByNext
  <2>3. PagesOf(b) \subseteq Owned'
    BY <1>3, OwnedByNext
  <2> QED BY <2>1, <2>2, <2>3
<1>6. \A d \in CPUs : \A a \in held[d] : PagesOf(a) \cap PagesOf(b) = {}
  BY OwnedBy
<1>7. ASSUME NEW d \in CPUs, NEW e \in CPUs, NEW x \in held'[d],
             NEW y \in held'[e], <<d, x>> # <<e, y>>
      PROVE  PagesOf(x) \cap PagesOf(y) = {}
  <2>1. x \in held[d] \/ (d = c /\ x = b)
    BY <1>2
  <2>2. y \in held[e] \/ (e = c /\ y = b)
    BY <1>2
  <2>3. CASE x \in held[d] /\ y \in held[e]
    BY <1>7, <2>3 DEF OneOwner
  <2>4. CASE ~(x \in held[d] /\ y \in held[e])
    BY <1>6, <1>7, <2>1, <2>2, <2>4
  <2> QED BY <2>3, <2>4
<1>8. OneOwner'
  BY <1>7 DEF OneOwner, PagesOf
<1> QED
  BY <1>1, <1>3, <1>4, <1>5, <1>8

(* What has been handed over. *)
LEMMA HandedPages ==
  ASSUME Types, given # None
  PROVE  given \in 0 .. NrPages /\ Handed \subseteq Pages
BY Constants DEF Types, Handed, Pages

(* A CPU holds finitely many pages. *)
LEMMA HeldFinite ==
  ASSUME held \in [CPUs -> SUBSET Blocks], NEW c \in CPUs
  PROVE  /\ HeldPages(c) \subseteq Pages /\ IsFiniteSet(HeldPages(c))
         /\ Cardinality(HeldPages(c)) \in Nat
<1>1. HeldPages(c) \subseteq Pages
  BY OwnedBy DEF Blocks
<1>2. IsFiniteSet(Pages)
  BY Constants, FS_Interval DEF Pages
<1> QED
  BY <1>1, <1>2, FS_Subset, FS_CardinalityType

(* If the pages suffice for all CPUs, one that may take one more page      *)
(* leaves none of the others short: not all are owned.                     *)
LEMMA NotAllOwned ==
  ASSUME Types, OneOwner, RoomInv, Roomy(usage), given # None,
         NEW c \in CPUs, Room(c, 1)
  PROVE  Owned # Handed
<1> DEFINE most == usage.held
           size == [d \in CPUs |-> Cardinality(HeldPages(d))]
           spare == <<c, most[c]>>
<1>1. /\ held \in [CPUs -> SUBSET Blocks] /\ most \in [CPUs -> Nat]
      /\ given \in Nat /\ given \in usage.pages
  BY Constants, HandedPages DEF Types
<1>2. /\ \A d \in CPUs : IsFiniteSet(HeldPages(d)) /\ size[d] \in Nat
      /\ \A d \in CPUs : size[d] <= most[d]
      /\ size[c] + 1 <= most[c]
  BY <1>1, HeldFinite DEF RoomInv, Room
<1>3. \A d \in CPUs : \E f : f \in Injection(HeldPages(d), 1 .. size[d])
  <2> SUFFICES ASSUME NEW d \in CPUs
               PROVE  \E f : f \in Injection(HeldPages(d), 1 .. size[d])
    OBVIOUS
  <2>1. IsFiniteSet(1 .. size[d]) /\ Cardinality(1 .. size[d]) = size[d]
    BY <1>2, FS_Interval
  <2>2. ExistsBijection(HeldPages(d), 1 .. size[d])
    BY <1>2, <2>1, FS_SameCardinalityBij
  <2> QED BY <2>2 DEF ExistsBijection, Bijection
<1> DEFINE num == [d \in CPUs |->
                     CHOOSE f : f \in Injection(HeldPages(d), 1 .. size[d])]
           owner == [p \in Owned |-> CHOOSE d \in CPUs : p \in HeldPages(d)]
           place == [p \in Owned |-> <<owner[p], num[owner[p]][p]>>]
<1>4. \A d \in CPUs : num[d] \in Injection(HeldPages(d), 1 .. size[d])
  <2> SUFFICES ASSUME NEW d \in CPUs
               PROVE  num[d] \in Injection(HeldPages(d), 1 .. size[d])
    OBVIOUS
  <2>1. num[d] = CHOOSE f : f \in Injection(HeldPages(d), 1 .. size[d])
    OBVIOUS
  <2> HIDE DEF num, size
  <2> QED BY <1>3, <2>1
<1>5. \A p \in Owned : owner[p] \in CPUs /\ p \in HeldPages(owner[p])
  BY OwnedBy
<1> HIDE DEF num, owner, size
<1>6. \A p \in Owned : place[p] = <<owner[p], num[owner[p]][p]>>
  OBVIOUS
<1>7. place = [p \in Owned |-> place[p]]
  OBVIOUS
<1> HIDE DEF place
<1>8. \A p \in Owned : num[owner[p]][p] \in 1 .. size[owner[p]]
  BY <1>4, <1>5 DEF Injection
<1>9. \A p \in Owned : place[p] \in Slots(usage) \ {spare}
  <2> SUFFICES ASSUME NEW p \in Owned
               PROVE  place[p] \in Slots(usage) \ {spare}
    OBVIOUS
  <2>1. num[owner[p]][p] \in 1 .. most[owner[p]]
    <3>1. num[owner[p]][p] \in 1 .. size[owner[p]] /\ owner[p] \in CPUs
      BY <1>5, <1>8
    <3>2. /\ size[owner[p]] \in Nat /\ most[owner[p]] \in Nat
          /\ size[owner[p]] <= most[owner[p]]
      BY <1>1, <1>2, <3>1
    <3> QED BY <3>1, <3>2
  <2>2. owner[p] = c => num[owner[p]][p] # most[c]
    BY <1>1, <1>2, <1>5, <1>8
  <2>3. <<owner[p], num[owner[p]][p]>> \in Slots(usage)
    BY <1>5, <2>1 DEF Slots
  <2> QED BY <1>6, <2>2, <2>3
<1>10. \A p, q \in Owned : place[p] = place[q] => p = q
  <2> SUFFICES ASSUME NEW p \in Owned, NEW q \in Owned, place[p] = place[q]
               PROVE  p = q
    OBVIOUS
  <2>1. owner[p] = owner[q] /\ num[owner[p]][p] = num[owner[q]][q]
    BY <1>6
  <2>2. p \in HeldPages(owner[p]) /\ q \in HeldPages(owner[p])
    BY <1>5, <2>1
  <2> QED BY <1>4, <1>5, <2>1, <2>2 DEF Injection, IsInjective
<1>11. place \in Injection(Owned, Slots(usage) \ {spare})
  BY <1>7, <1>9, <1>10 DEF Injection, IsInjective
<1>12. /\ IsFiniteSet(Slots(usage)) /\ Cardinality(Slots(usage)) <= given
       /\ Cardinality(Slots(usage)) \in Nat
  BY <1>1, FS_CardinalityType DEF Roomy
<1>13. spare \in Slots(usage)
  <2>1. most[c] \in 1 .. most[c]
    BY <1>1, <1>2
  <2> QED BY <2>1 DEF Slots
<1>14. /\ IsFiniteSet(Slots(usage) \ {spare})
       /\ Cardinality(Slots(usage) \ {spare}) = Cardinality(Slots(usage)) - 1
  BY <1>12, <1>13, FS_RemoveElement
<1>15. Cardinality(Owned) <= Cardinality(Slots(usage)) - 1
  BY <1>11, <1>14, FS_Injection
<1>16. Cardinality(Handed) = given
  <2> DEFINE last == First + given - 1
  <2>1. First \in Int /\ last \in Int
    BY <1>1, Constants
  <2>2. Cardinality(First .. last) =
          IF First > last THEN 0 ELSE last - First + 1
    <3> HIDE DEF last
    <3> QED BY <2>1, FS_Interval
  <2> QED BY <1>1, <2>1, <2>2 DEF Handed
<1>17. Cardinality(Owned) # given
  BY <1>1, <1>12, <1>15
<1> QED
  BY <1>16, <1>17

(* alloc_page: when the lock is held, the list is not empty. *)
LEMMA TakeFindsPage ==
  ASSUME PageInv, NEW c \in CPUs, pc[c] = "take"
  PROVE  given # None /\ freelist # NULL
<1>1. given # None
  BY DEF PageInv, Before
<1>2. CASE Alone(usage)
  BY <1>1, <1>2 DEF PageInv, CallInv, InCall
<1>3. CASE Roomy(usage)
  <2>1. Owned # Handed
    BY <1>1, <1>3, NotAllOwned DEF PageInv, CallInv, InCall
  <2>2. PICK k \in 0 .. NrPages : \E L \in [0 .. k - 1 -> Pages] :
          IsList(L, k, freelist, link) /\ Listed(L, k) = Handed \ Owned
    BY <1>1 DEF PageInv, ListInv, HasList
  <2>3. PICK L \in [0 .. k - 1 -> Pages] :
          IsList(L, k, freelist, link) /\ Listed(L, k) = Handed \ Owned
    BY <2>2
  <2>4. Listed(L, k) # {}
    BY <1>1, <2>1, <2>3 DEF PageInv, ListInv
  <2>5. k \in Nat /\ k > 0
    BY <2>4, Constants DEF Listed
  <2>6. 0 \in 0 .. k - 1 /\ freelist = L[0]
    BY <2>3, <2>5 DEF IsList, At
  <2>7. L[0] \in Pages
    BY <2>6
  <2> QED BY <1>1, <2>6, <2>7, Constants
<1> QED
  BY <1>2, <1>3 DEF PageInv, Types, SoundUse

(* A step of one CPU leaves the calls of the others in order: if it could  *)
(* disturb them, the two would both use the allocator, and then neither is *)
(* in alloc_pages nor relies on being alone.                               *)
LEMMA OthersKeep ==
  ASSUME PageInv, NEW c \in CPUs, usage.ops[c] \cap PageOps # {},
         UNCHANGED usage, NEW d \in CPUs \ {c}, pc'[d] = pc[d],
         held'[d] = held[d], held \in [CPUs -> SUBSET Blocks]
  PROVE  InCall(d)'
<1>1. Alone(usage) => usage.ops[d] \cap PageOps = {}
  BY DEF Alone
<1>2. InCall(d) /\ SoundUse(usage)
  BY DEF PageInv, CallInv, Types
<1>3. pc[d] = "take" => /\ "alloc_page" \in usage'.ops[d] /\ Room(d, 1)'
                        /\ ~Alone(usage)
  <2>1. HeldPages(d)' = HeldPages(d)
    BY DEF HeldPages, PagesOf
  <2>2. Room(d, 1) => Room(d, 1)'
    BY <2>1 DEF Room
  <2> QED BY <1>1, <1>2, <2>2 DEF InCall, PageOps
<1>4. pc[d] # "scan"
  BY <1>1, <1>2 DEF InCall, SoundUse, Roomy, PageOps
<1>5. Alone(usage)' <=> Alone(usage)
  BY DEF Alone
<1> QED
  BY <1>3, <1>4, <1>5 DEF InCall

(* free_pages and free_page. *)
LEMMA GivesBack ==
  ASSUME PageInv, given # None, NEW c \in CPUs, NEW b \in held[c],
         PutPages(b.start, b.n), held' = [held EXCEPT ![c] = @ \ {b}],
         UNCHANGED <<usage, given>>
  PROVE  /\ ListInv' /\ OneOwner' /\ RoomInv'
         /\ DOMAIN link' = Pages \cup {NULL}
         /\ held' \in [CPUs -> SUBSET Blocks]
<1>1. /\ held \in [CPUs -> SUBSET Blocks] /\ OneOwner
      /\ DOMAIN link = Pages \cup {NULL} /\ RoomInv
  BY DEF PageInv, Types
<1>2. /\ b.start \in Pages /\ b.n \in Nat \ {0} /\ PagesOf(b) \subseteq Pages
      /\ PagesOf(b) = b.start .. b.start + b.n - 1
  BY <1>1, BlockFacts
<1>3. PagesOf(b) \subseteq Owned
  BY OwnedBy
<1>4. /\ freelist' = b.start /\ DOMAIN link' = DOMAIN link
      /\ RunLinked(link', link, b.start, b.n, freelist)
  BY <1>2 DEF PutPages, RunLinked
<1>5. Owned \subseteq Handed /\ HasList(freelist, link, Handed \ Owned)
  BY DEF PageInv, ListInv
<1>6. b.start .. b.start + b.n - 1 \subseteq Pages \ (Handed \ Owned)
  BY <1>2, <1>3
<1>7. HasList(freelist', link', (Handed \ Owned) \cup PagesOf(b))
  <2> DEFINE S == Handed \ Owned
  <2> HIDE DEF S
  <2>1. HasList(b.start, link', S \cup (b.start .. b.start + b.n - 1))
    BY <1>1, <1>2, <1>4, <1>5, <1>6, Pushed DEF S
  <2> QED BY <1>2, <1>4, <2>1 DEF S
<1>11. /\ held' \in [CPUs -> SUBSET Blocks] /\ OneOwner'
       /\ Owned' = Owned \ PagesOf(b)
       /\ \A d \in CPUs : HeldPages(d)' \subseteq HeldPages(d)
  BY <1>1, OwnedLess
<1>12. ListInv'
  <2>1. Handed' = Handed
    BY DEF Handed
  <2>2. Handed' \ Owned' = (Handed \ Owned) \cup PagesOf(b)
    BY <1>3, <1>5, <1>11, <2>1
  <2>3. HasList(freelist', link', Handed' \ Owned')
    BY <1>7, <2>2
  <2>4. HasList(freelist, link, Handed \ Owned)'
    BY <2>3 DEF HasList, IsList, Listed, At
  <2> QED BY <1>5, <1>11, <2>1, <2>4 DEF ListInv
<1>13. RoomInv'
  <2> SUFFICES ASSUME Roomy(usage), NEW d \in CPUs
               PROVE  Cardinality(HeldPages(d)') <= usage.held[d]
    BY DEF RoomInv, Roomy, Slots
  <2>1. /\ Cardinality(HeldPages(d)) \in Nat /\ IsFiniteSet(HeldPages(d))
        /\ Cardinality(HeldPages(d)') \in Nat
    BY <1>1, <1>11, HeldFinite, FS_Subset, FS_CardinalityType
  <2>2. Cardinality(HeldPages(d)') <= Cardinality(HeldPages(d))
    BY <1>11, <2>1, FS_Subset
  <2>3. Cardinality(HeldPages(d)) <= usage.held[d] /\ usage.held[d] \in Nat
    BY <1>1, Constants DEF RoomInv, PageInv, Types
  <2> QED BY <2>1, <2>2, <2>3
<1>14. DOMAIN link' = Pages \cup {NULL}
  BY <1>1, <1>4
<1> QED
  BY <1>11, <1>12, <1>13, <1>14

(* alloc_page and alloc_pages, of n pages from start on, at place a. *)
LEMMA TakesOut ==
  ASSUME PageInv, given # None, NEW c \in CPUs,
         NEW k \in 0 .. NrPages, NEW L \in [0 .. k - 1 -> Pages],
         IsList(L, k, freelist, link), Listed(L, k) = Handed \ Owned,
         NEW a \in Nat, NEW n \in Nat \ {0}, a + n <= k,
         NEW start, \A i \in 0 .. n - 1 : L[a + i] = start + i, start \in Int,
         RunCut(freelist', link', freelist, link, L, k, a, n),
         held' = [held EXCEPT ![c] = @ \cup {Block(start, n)}],
         UNCHANGED <<usage, given>>
  PROVE  /\ ListInv' /\ OneOwner'
         /\ DOMAIN link' = Pages \cup {NULL}
         /\ held' \in [CPUs -> SUBSET Blocks]
         /\ HeldPages(c)' = HeldPages(c) \cup (start .. start + n - 1)
         /\ \A d \in CPUs \ {c} : HeldPages(d)' = HeldPages(d)
<1> DEFINE b == Block(start, n)
<1>1. /\ held \in [CPUs -> SUBSET Blocks] /\ OneOwner
      /\ DOMAIN link = Pages \cup {NULL}
  BY DEF PageInv, Types
<1>2. k \in Nat /\ k <= NrPages /\ NrPages \in Nat
  BY Constants
<1>3. Owned \subseteq Handed
  BY DEF PageInv, ListInv
<1>4. PagesOf(b) = start .. start + n - 1
  BY DEF Block, PagesOf
<1>5. PagesOf(b) = Places(L, a, n)
  <2>1. \A p \in start .. start + n - 1 : \E i \in a .. a + n - 1 : L[i] = p
    <3> SUFFICES ASSUME NEW p \in start .. start + n - 1
                 PROVE  \E i \in a .. a + n - 1 : L[i] = p
      OBVIOUS
    <3>1. p - start \in 0 .. n - 1
      OBVIOUS
    <3>2. L[a + (p - start)] = start + (p - start)
      BY <3>1
    <3> QED BY <3>1, <3>2
  <2>2. \A i \in a .. a + n - 1 : L[i] \in start .. start + n - 1
    <3> SUFFICES ASSUME NEW i \in a .. a + n - 1
                 PROVE  L[i] \in start .. start + n - 1
      OBVIOUS
    <3>1. i - a \in 0 .. n - 1 /\ a + (i - a) = i
      OBVIOUS
    <3>2. L[a + (i - a)] = start + (i - a)
      BY <3>1
    <3> QED BY <3>1, <3>2
  <2> QED BY <1>4, <2>1, <2>2 DEF Places
<1>6. PagesOf(b) \subseteq Listed(L, k) /\ PagesOf(b) \subseteq Pages
  BY <1>2, <1>5 DEF Listed, Places
<1>7. b \in Blocks
  <2>1. start = L[a] /\ start \in Pages
    <3>1. 0 \in 0 .. n - 1 /\ a \in 0 .. k - 1
      BY <1>2
    <3> QED BY <3>1
  <2>2. n \in 1 .. NrPages
    BY <1>2
  <2> QED BY <1>6, <2>1, <2>2 DEF Blocks, Block
<1>8. HasList(freelist', link', Listed(L, k) \ Places(L, a, n))
  BY <1>1, <1>2, Cut
<1>9. /\ held' \in [CPUs -> SUBSET Blocks] /\ OneOwner'
      /\ Owned' = Owned \cup PagesOf(b)
      /\ HeldPages(c)' = HeldPages(c) \cup PagesOf(b)
      /\ \A d \in CPUs \ {c} : HeldPages(d)' = HeldPages(d)
  <2>1. held' = [held EXCEPT ![c] = @ \cup {b}] /\ PagesOf(b) \cap Owned = {}
    BY <1>3, <1>6
  <2> HIDE DEF b
  <2> QED BY <1>1, <1>7, <2>1, OwnedMore
<1>10. ListInv'
  <2>1. Handed' = Handed
    BY DEF Handed
  <2>2. Handed' \ Owned' = Listed(L, k) \ Places(L, a, n)
    BY <1>5, <1>9, <2>1
  <2>3. HasList(freelist', link', Handed' \ Owned')
    BY <1>8, <2>2
  <2>4. HasList(freelist, link, Handed \ Owned)'
    BY <2>3 DEF HasList, IsList, Listed, At
  <2> QED BY <1>3, <1>6, <1>9, <2>1, <2>4 DEF ListInv
<1>11. DOMAIN link' = Pages \cup {NULL}
  BY <1>1 DEF RunCut
<1> QED
  BY <1>4, <1>9, <1>10, <1>11
-----------------------------------------------------------------------------
(* How the allocator is used does not change. *)
LEMMA UseKept ==
  ASSUME UNCHANGED usage
  PROVE  /\ Alone(usage)' <=> Alone(usage)
         /\ Roomy(usage)' <=> Roomy(usage)
         /\ SoundUse(usage)' <=> SoundUse(usage)
<1>1. Alone(usage)' <=> Alone(usage)
  BY DEF Alone
<1>2. Roomy(usage)' <=> Roomy(usage)
  BY DEF Roomy, Slots
<1> QED BY <1>1, <1>2 DEF SoundUse

(* An empty list. *)
LEMMA EmptyList ==
  ASSUME NEW l
  PROVE  HasList(NULL, l, {})
<1> DEFINE L == [i \in 0 .. 0 - 1 |-> NULL]
<1>1. 0 .. 0 - 1 = {} /\ 0 \in 0 .. NrPages
  BY Constants
<1>2. L \in [0 .. 0 - 1 -> Pages]
  BY <1>1
<1>3. IsList(L, 0, NULL, l) /\ Listed(L, 0) = {}
  BY <1>1 DEF IsList, Listed, At
<1> HIDE DEF L
<1> QED
  BY <1>1, <1>2, <1>3 DEF HasList

(* setup_vm: the first free_pages. *)
LEMMA SetupStep ==
  ASSUME PageInv, SetupVm
  PROVE  PageInv'
<1>1. /\ given = None /\ UNCHANGED <<usage, held, pc, head, order>>
      /\ usage \in Usages /\ freelist = NULL
      /\ DOMAIN link = Pages \cup {NULL}
      /\ \A c \in CPUs : held[c] = {} /\ pc[c] = "idle"
  BY DEF SetupVm, PageInv, Types, Before, locals
<1>2. PICK n \in usage.pages : given' = n /\ PutPages(First, n)
  BY DEF SetupVm
<1>3. n \in 0 .. NrPages /\ n # None /\ n \in Nat
  BY <1>1, Constants DEF None
<1>4. Owned' = {} /\ Handed' = First .. First + n - 1
  <2>1. \A c \in CPUs : held'[c] = {}
    BY <1>1
  <2> QED BY <1>2, <2>1, OwnedByNext DEF Handed
<1>5. DOMAIN link' = Pages \cup {NULL} /\ HasList(freelist', link', Handed')
  <2>1. CASE n = 0
    <3>1. freelist' = NULL /\ link' = link
      BY <1>2, <2>1 DEF PutPages
    <3>2. Handed' = {}
      BY <1>4, <2>1, Constants
    <3> QED BY <1>1, <3>1, <3>2, EmptyList
  <2>2. CASE n # 0
    <3>1. /\ freelist' = First /\ RunLinked(link', link, First, n, freelist)
          /\ DOMAIN link' = DOMAIN link
      BY <1>2, <2>2 DEF PutPages, RunLinked
    <3>2. First \in Pages /\ First .. First + n - 1 \subseteq Pages \ {}
      BY <1>3, <2>2, Constants DEF Pages
    <3>3. HasList(freelist, link, {})
      BY <1>1, EmptyList
    <3>4. HasList(First, link', {} \cup (First .. First + n - 1))
      BY <1>1, <1>3, <2>2, <3>1, <3>2, <3>3, Pushed
    <3>5. {} \cup (First .. First + n - 1) = Handed'
      BY <1>4
    <3> QED BY <1>1, <3>1, <3>4, <3>5
  <2> QED BY <2>1, <2>2
<1>6. Types'
  BY <1>1, <1>2, <1>5, UseKept DEF PageInv, Types
<1>7. Before'
  BY <1>2, <1>3 DEF Before
<1>8. ListInv'
  <2>1. HasList(freelist', link', Handed' \ Owned')
    BY <1>4, <1>5
  <2>2. HasList(freelist, link, Handed \ Owned)'
    BY <2>1 DEF HasList, IsList, Listed, At
  <2> QED BY <1>4, <2>2 DEF ListInv
<1>9. OneOwner'
  BY <1>1 DEF OneOwner
<1>10. CallInv'
  BY <1>1 DEF CallInv, InCall
<1>11. RoomInv'
  BY <1>1 DEF PageInv, RoomInv, Roomy, Slots, HeldPages, PagesOf
<1> QED
  BY <1>6, <1>7, <1>8, <1>9, <1>10, <1>11 DEF PageInv

(* free_pages and free_page put a block back. *)
LEMMA FreeStep ==
  ASSUME PageInv, NEW c \in CPUs, FreePages(c) \/ FreePage(c)
  PROVE  PageInv'
<1>1. /\ given # None /\ pc[c] = "idle" /\ usage.ops[c] \cap PageOps # {}
      /\ UNCHANGED <<usage, given, pc, head, order>>
  BY DEF FreePages, FreePage, Call, PageOps
<1>2. held \in [CPUs -> SUBSET Blocks] /\ DOMAIN link = Pages \cup {NULL}
  BY DEF PageInv, Types
<1>3. \E b \in held[c] : /\ PutPages(b.start, b.n)
                         /\ held' = [held EXCEPT ![c] = @ \ {b}]
  <2>1. CASE FreePages(c)
    BY <2>1 DEF FreePages
  <2>2. CASE FreePage(c)
    <3>1. PICK b \in held[c] : /\ b.n = 1
                               /\ link' = [link EXCEPT ![b.start] = freelist]
                               /\ freelist' = b.start
                               /\ held' = [held EXCEPT ![c] = @ \ {b}]
      BY <2>2 DEF FreePage
    <3>2. b.start \in Nat
      BY <1>2, BlockFacts
    <3>3. /\ b.start .. b.start + b.n - 2 = {} /\ b.start + b.n - 1 = b.start
          /\ b.n # 0
      BY <3>1, <3>2
    <3>4. link' = [p \in DOMAIN link |->
                     IF p \in b.start .. b.start + b.n - 2 THEN p + 1
                     ELSE IF p = b.start + b.n - 1 THEN freelist ELSE link[p]]
      BY <3>1, <3>3
    <3>5. PutPages(b.start, b.n)
      BY <3>1, <3>3, <3>4 DEF PutPages
    <3> QED BY <3>1, <3>5
  <2> QED BY <2>1, <2>2
<1>4. PICK b \in held[c] : /\ PutPages(b.start, b.n)
                           /\ held' = [held EXCEPT ![c] = @ \ {b}]
  BY <1>3
<1>5. /\ ListInv' /\ OneOwner' /\ RoomInv'
      /\ DOMAIN link' = Pages \cup {NULL}
      /\ held' \in [CPUs -> SUBSET Blocks]
  BY <1>1, <1>4, GivesBack
<1>6. Types' /\ Before'
  BY <1>1, <1>5, UseKept DEF PageInv, Types, Before
<1>7. CallInv'
  <2>1. ASSUME NEW d \in CPUs \ {c}
        PROVE  InCall(d)'
    <3>1. held'[d] = held[d] /\ pc'[d] = pc[d]
      BY <1>1, <1>2, <1>4
    <3> QED BY <1>1, <1>2, <3>1, OthersKeep
  <2>2. InCall(c)'
    BY <1>1 DEF InCall
  <2> QED BY <2>1, <2>2 DEF CallInv
<1> QED
  BY <1>5, <1>6, <1>7 DEF PageInv

(* What stays if the list and the blocks do. *)
LEMMA SameHeap ==
  ASSUME PageInv, UNCHANGED <<usage, given, held, freelist, link>>
  PROVE  ListInv' /\ OneOwner' /\ RoomInv'
<1>a. ListInv /\ OneOwner /\ RoomInv
  BY DEF PageInv
<1>b. /\ \A c : HeldPages(c)' = HeldPages(c)
      /\ Owned' = Owned /\ Handed' = Handed
  BY DEF HeldPages, PagesOf, Owned, Handed
<1>1. ListInv'
  <2>1. HasList(freelist, link, Handed \ Owned)' <=>
          HasList(freelist, link, Handed \ Owned)
    BY <1>b DEF HasList, IsList, Listed, At
  <2> QED BY <1>a, <1>b, <2>1 DEF ListInv
<1>2. OneOwner'
  BY <1>a DEF OneOwner, PagesOf
<1>3. RoomInv'
  <2>1. Roomy(usage)' <=> Roomy(usage)
    BY DEF Roomy, Slots
  <2> QED BY <1>a, <1>b, <2>1 DEF RoomInv
<1> QED
  BY <1>1, <1>2, <1>3

(* The unlocked beginnings of alloc_page and alloc_pages. *)
LEMMA ReadStep ==
  ASSUME PageInv, NEW c \in CPUs, AllocCheck(c) \/ AllocPagesRead(c)
  PROVE  PageInv'
<1>1. /\ given # None /\ usage.ops[c] \cap PageOps # {}
      /\ UNCHANGED <<usage, given, freelist, link, held>>
  BY DEF AllocCheck, AllocPagesRead, Call, PageOps
<1>2. /\ pc \in [CPUs -> {"idle", "take", "scan"}]
      /\ held \in [CPUs -> SUBSET Blocks] /\ DOMAIN head = CPUs
      /\ DOMAIN order = CPUs
  BY DEF PageInv, Types
<1>3. ListInv' /\ OneOwner' /\ RoomInv'
  BY <1>1, SameHeap
<1>4. /\ pc' \in [CPUs -> {"idle", "take", "scan"}]
      /\ \A d \in CPUs \ {c} : pc'[d] = pc[d]
      /\ DOMAIN head' = CPUs /\ DOMAIN order' = CPUs
  BY <1>2 DEF AllocCheck, AllocPagesRead, Goto
<1>5. Types' /\ Before'
  BY <1>1, <1>4, UseKept DEF PageInv, Types, Before
<1>6. InCall(c)'
  <2>1. CASE AllocCheck(c)
    <3>1. /\ "alloc_page" \in usage.ops[c] /\ Room(c, 1)
          /\ pc'[c] = IF freelist = NULL THEN "idle" ELSE "take"
      BY <1>2, <2>1 DEF AllocCheck, Call, Goto
    <3>2. Room(c, 1)'
      BY <1>1, <3>1 DEF Room, HeldPages, PagesOf
    <3> QED BY <1>1, <3>1, <3>2 DEF InCall
  <2>2. CASE AllocPagesRead(c)
    BY <1>1, <1>2, <2>2 DEF AllocPagesRead, Call, Goto, InCall
  <2> QED BY <2>1, <2>2
<1>7. CallInv'
  <2>1. ASSUME NEW d \in CPUs \ {c}
        PROVE  InCall(d)'
    BY <1>1, <1>2, <1>4, OthersKeep
  <2> QED BY <1>6, <2>1 DEF CallInv
<1> QED
  BY <1>3, <1>5, <1>7 DEF PageInv

(* The locked part of alloc_page. *)
LEMMA TakeStep ==
  ASSUME PageInv, NEW c \in CPUs, AllocTake(c)
  PROVE  PageInv'
<1>1. /\ pc[c] = "take" /\ freelist' = link[freelist]
      /\ held' = [held EXCEPT ![c] = @ \cup {Block(freelist, 1)}]
      /\ pc' = [pc EXCEPT ![c] = "idle"]
      /\ UNCHANGED <<usage, given, link, head, order>>
  BY DEF AllocTake, Goto, locals
<1>2. /\ pc \in [CPUs -> {"idle", "take", "scan"}]
      /\ held \in [CPUs -> SUBSET Blocks] /\ RoomInv
      /\ DOMAIN link = Pages \cup {NULL} /\ usage \in Usages
  BY DEF PageInv, Types
<1>3. given # None /\ freelist # NULL
  BY <1>1, TakeFindsPage
<1>4. "alloc_page" \in usage.ops[c] /\ Room(c, 1)
  BY <1>1 DEF PageInv, CallInv, InCall
<1>5. HasList(freelist, link, Handed \ Owned)
  BY <1>3 DEF PageInv, ListInv
<1>6. PICK k \in 0 .. NrPages : \E L \in [0 .. k - 1 -> Pages] :
        IsList(L, k, freelist, link) /\ Listed(L, k) = Handed \ Owned
  BY <1>5 DEF HasList
<1>7. PICK L \in [0 .. k - 1 -> Pages] :
        IsList(L, k, freelist, link) /\ Listed(L, k) = Handed \ Owned
  BY <1>6
<1>8. k \in Nat /\ 0 + 1 <= k /\ freelist = L[0] /\ L[0] \in Pages
  <2>1. k \in Nat
    BY Constants
  <2>2. freelist = At(L, k, 0)
    BY <1>7 DEF IsList
  <2>3. k > 0
    BY <1>3, <2>1, <2>2 DEF At
  <2> QED BY <2>1, <2>2, <2>3 DEF At
<1>9. link[freelist] = At(L, k, 1)
  <2>1. link[L[0]] = At(L, k, 0 + 1)
    BY <1>7, <1>8 DEF IsList
  <2> QED BY <1>8, <2>1
<1>10. RunCut(freelist', link', freelist, link, L, k, 0, 1)
  BY <1>1, <1>9 DEF RunCut
<1>11. freelist \in Nat /\ \A i \in 0 .. 1 - 1 : L[0 + i] = freelist + i
  BY <1>8, Constants
<1>12. /\ ListInv' /\ OneOwner'
       /\ DOMAIN link' = Pages \cup {NULL}
       /\ held' \in [CPUs -> SUBSET Blocks]
       /\ HeldPages(c)' = HeldPages(c) \cup (freelist .. freelist + 1 - 1)
       /\ \A d \in CPUs \ {c} : HeldPages(d)' = HeldPages(d)
  <2> DEFINE start == freelist
  <2>1. /\ held' = [held EXCEPT ![c] = @ \cup {Block(start, 1)}]
        /\ start \in Int /\ \A i \in 0 .. 1 - 1 : L[0 + i] = start + i
    BY <1>1, <1>11
  <2> HIDE DEF start
  <2>2. /\ ListInv' /\ OneOwner'
        /\ DOMAIN link' = Pages \cup {NULL}
        /\ held' \in [CPUs -> SUBSET Blocks]
        /\ HeldPages(c)' = HeldPages(c) \cup (start .. start + 1 - 1)
        /\ \A d \in CPUs \ {c} : HeldPages(d)' = HeldPages(d)
    <3> DEFINE a == 0
               n == 1
    <3>1. /\ a \in Nat /\ n \in Nat \ {0} /\ a + n <= k
          /\ \A i \in 0 .. n - 1 : L[a + i] = start + i
          /\ RunCut(freelist', link', freelist, link, L, k, a, n)
          /\ held' = [held EXCEPT ![c] = @ \cup {Block(start, n)}]
      BY <1>8, <1>10, <2>1
    <3> HIDE DEF a, n
    <3>2. /\ ListInv' /\ OneOwner'
          /\ DOMAIN link' = Pages \cup {NULL}
          /\ held' \in [CPUs -> SUBSET Blocks]
          /\ HeldPages(c)' = HeldPages(c) \cup (start .. start + n - 1)
          /\ \A d \in CPUs \ {c} : HeldPages(d)' = HeldPages(d)
      BY <1>1, <1>3, <1>7, <2>1, <3>1, TakesOut
    <3> QED BY <3>2 DEF n
  <2> QED BY <2>2 DEF start
<1>13. RoomInv'
  <2> SUFFICES ASSUME Roomy(usage), NEW d \in CPUs
               PROVE  Cardinality(HeldPages(d)') <= usage.held[d]
    BY <1>1 DEF RoomInv, Roomy, Slots
  <2>1. usage.held[d] \in Nat /\ Cardinality(HeldPages(d)) <= usage.held[d]
    BY <1>2, Constants DEF RoomInv
  <2>2. CASE d = c
    <3>1. HeldPages(c)' = HeldPages(c) \cup {freelist}
      <4>1. freelist .. freelist + 1 - 1 = {freelist}
        BY <1>11
      <4> QED BY <1>12, <4>1
    <3>2. /\ IsFiniteSet(HeldPages(c)) /\ Cardinality(HeldPages(c)) \in Nat
          /\ Cardinality(HeldPages(c)) + 1 <= usage.held[c]
      BY <1>2, <1>4, HeldFinite DEF Room
    <3>3. \/ Cardinality(HeldPages(c)') = Cardinality(HeldPages(c))
          \/ Cardinality(HeldPages(c)') = Cardinality(HeldPages(c)) + 1
      BY <3>1, <3>2, FS_AddElement
    <3> QED BY <2>1, <2>2, <3>2, <3>3
  <2>3. CASE d # c
    BY <1>12, <2>1, <2>3
  <2> QED BY <2>2, <2>3
<1>14. Types' /\ Before'
  <2>1. pc' \in [CPUs -> {"idle", "take", "scan"}]
    BY <1>1, <1>2
  <2> QED BY <1>1, <1>3, <1>12, <2>1, UseKept DEF PageInv, Types, Before
<1>15. CallInv'
  <2>1. ASSUME NEW d \in CPUs \ {c}
        PROVE  InCall(d)'
    <3>1. held'[d] = held[d] /\ pc'[d] = pc[d]
      BY <1>1, <1>2
    <3>2. usage.ops[c] \cap PageOps # {}
      BY <1>4 DEF PageOps
    <3> QED BY <1>1, <1>2, <3>1, <3>2, OthersKeep
  <2>2. InCall(c)'
    BY <1>1, <1>2 DEF InCall
  <2> QED BY <2>1, <2>2 DEF CallInv
<1> QED
  BY <1>12, <1>13, <1>14, <1>15 DEF PageInv

(* The locked part of alloc_pages: the run that was found leaves the list. *)
LEMMA ScanStep ==
  ASSUME PageInv, NEW c \in CPUs, AllocPagesScan(c)
  PROVE  PageInv'
<1> DEFINE n == 2^order[c]
           s == Scan(head[c], n)
<1>1. /\ pc[c] = "scan" /\ pc' = [pc EXCEPT ![c] = "idle"]
      /\ UNCHANGED <<usage, given, head, order>>
  BY DEF AllocPagesScan, Goto
<1>2. /\ pc \in [CPUs -> {"idle", "take", "scan"}]
      /\ held \in [CPUs -> SUBSET Blocks] /\ SoundUse(usage)
      /\ DOMAIN link = Pages \cup {NULL} /\ usage \in Usages
  BY DEF PageInv, Types
<1>3. given # None
  BY <1>1 DEF PageInv, Before
<1>4. /\ "alloc_pages" \in usage.ops[c] /\ head[c] = freelist
      /\ order[c] \in Orders
  BY <1>1 DEF PageInv, CallInv, InCall
<1>5. n \in Nat \ {0}
  BY <1>4, PageAllocAssumption
<1>6. \/ /\ s.run = n
         /\ held' = [held EXCEPT ![c] = @ \cup {Block(s.run_start, n)}]
         /\ (s.run_prev # NULL =>
               /\ link' = [link EXCEPT ![s.run_prev] = s.next]
               /\ freelist' = freelist)
         /\ (s.run_prev = NULL => freelist' = s.next /\ link' = link)
      \/ UNCHANGED <<freelist, link, held>>
  BY DEF AllocPagesScan
<1> HIDE DEF n
<1>7. /\ ListInv' /\ OneOwner' /\ DOMAIN link' = Pages \cup {NULL}
      /\ held' \in [CPUs -> SUBSET Blocks]
      /\ \A d \in CPUs \ {c} : held'[d] = held[d]
  <2>1. CASE UNCHANGED <<freelist, link, held>>
    BY <1>1, <1>2, <2>1, SameHeap
  <2>2. CASE /\ s.run = n
             /\ held' = [held EXCEPT ![c] = @ \cup {Block(s.run_start, n)}]
             /\ s.run_prev # NULL =>
                  /\ link' = [link EXCEPT ![s.run_prev] = s.next]
                  /\ freelist' = freelist
             /\ s.run_prev = NULL => freelist' = s.next /\ link' = link
    <3>1. HasList(freelist, link, Handed \ Owned)
      BY <1>3 DEF PageInv, ListInv
    <3>2. PICK k \in 0 .. NrPages : \E L \in [0 .. k - 1 -> Pages] :
            IsList(L, k, freelist, link) /\ Listed(L, k) = Handed \ Owned
      BY <3>1 DEF HasList
    <3>3. PICK L \in [0 .. k - 1 -> Pages] :
            IsList(L, k, freelist, link) /\ Listed(L, k) = Handed \ Owned
      BY <3>2
    <3>4. s = Scan(freelist, n)
      BY <1>4
    <3> HIDE DEF s
    <3>a. Scan(freelist, n).run = n
      BY <2>2, <3>4
    <3>b. \E a \in Nat :
            /\ a + n <= k /\ Scan(freelist, n).run_start \in Nat
            /\ \A i \in 0 .. n - 1 :
                 L[a + i] = Scan(freelist, n).run_start + i
            /\ Scan(freelist, n).next = At(L, k, a + n)
            /\ Scan(freelist, n).run_prev = IF a = 0 THEN NULL ELSE L[a - 1]
      BY <1>5, <3>3, <3>a, ScanFinds
    <3>5. PICK a \in Nat :
            /\ a + n <= k /\ s.run_start \in Nat
            /\ \A i \in 0 .. n - 1 : L[a + i] = s.run_start + i
            /\ s.next = At(L, k, a + n)
            /\ s.run_prev = IF a = 0 THEN NULL ELSE L[a - 1]
      BY <3>4, <3>b, Zenon
    <3>6. RunCut(freelist', link', freelist, link, L, k, a, n)
      <4>1. CASE a = 0
        <5>1. s.run_prev = NULL /\ s.next = At(L, k, n)
          BY <1>5, <3>5, <4>1
        <5>2. freelist' = At(L, k, n) /\ link' = link
          BY <2>2, <5>1
        <5> QED BY <4>1, <5>2 DEF RunCut
      <4>2. CASE a # 0
        <5>1. a - 1 \in 0 .. k - 1
          BY <1>5, <3>5, <4>2, Constants
        <5>2. s.run_prev = L[a - 1] /\ s.run_prev # NULL
          BY <3>5, <4>2, <5>1, Constants
        <5> QED BY <2>2, <3>5, <4>2, <5>2 DEF RunCut
      <4> QED BY <4>1, <4>2
    <3> DEFINE start == s.run_start
    <3>7. /\ held' = [held EXCEPT ![c] = @ \cup {Block(start, n)}]
          /\ start \in Int /\ \A i \in 0 .. n - 1 : L[a + i] = start + i
      BY <2>2, <3>5
    <3> HIDE DEF start
    <3>8. /\ ListInv' /\ OneOwner' /\ DOMAIN link' = Pages \cup {NULL}
          /\ held' \in [CPUs -> SUBSET Blocks]
      BY <1>1, <1>3, <1>5, <3>3, <3>5, <3>6, <3>7, TakesOut
    <3> QED BY <1>2, <3>7, <3>8
  <2> QED BY <1>6, <2>1, <2>2
<1>8. RoomInv'
  <2>1. ~ Roomy(usage)'
    BY <1>1, <1>4 DEF Roomy
  <2> QED BY <2>1 DEF RoomInv
<1>9. Types' /\ Before'
  <2>1. pc' \in [CPUs -> {"idle", "take", "scan"}]
    BY <1>1, <1>2
  <2> QED BY <1>1, <1>3, <1>7, <2>1, UseKept DEF PageInv, Types, Before
<1>10. CallInv'
  <2>1. ASSUME NEW d \in CPUs \ {c}
        PROVE  InCall(d)'
    <3>1. held'[d] = held[d] /\ pc'[d] = pc[d]
      BY <1>1, <1>2, <1>7
    <3>2. usage.ops[c] \cap PageOps # {}
      BY <1>4 DEF PageOps
    <3> QED BY <1>1, <1>2, <3>1, <3>2, OthersKeep
  <2>2. InCall(c)'
    BY <1>1, <1>2 DEF InCall
  <2> QED BY <2>1, <2>2 DEF CallInv
<1> QED
  BY <1>7, <1>8, <1>9, <1>10 DEF PageInv

(* What an owner writes into its page is not seen on the list. *)
LEMMA ScribbleStep ==
  ASSUME PageInv, NEW c \in CPUs, Scribble(c)
  PROVE  PageInv'
<1>1. UNCHANGED <<usage, given, freelist, held, pc, head, order>>
  BY DEF Scribble, locals
<1>2. PICK p \in HeldPages(c) : link' = [link EXCEPT ![p] = Junk]
  BY DEF Scribble
<1>3. /\ DOMAIN link = Pages \cup {NULL} /\ DOMAIN link' = Pages \cup {NULL}
      /\ p \in Owned
  BY <1>2, OwnedBy DEF PageInv, Types
<1>4. /\ \A d : HeldPages(d)' = HeldPages(d)
      /\ Owned' = Owned /\ Handed' = Handed
  BY <1>1 DEF HeldPages, PagesOf, Owned, Handed
<1>5. ListInv'
  <2> SUFFICES ASSUME given # None
               PROVE  /\ Owned \subseteq Handed
                      /\ HasList(freelist, link', Handed \ Owned)
    BY <1>1, <1>4 DEF ListInv, HasList, IsList, Listed, At
  <2>1. Owned \subseteq Handed /\ HasList(freelist, link, Handed \ Owned)
    BY DEF PageInv, ListInv
  <2>2. PICK k \in 0 .. NrPages : \E L \in [0 .. k - 1 -> Pages] :
          IsList(L, k, freelist, link) /\ Listed(L, k) = Handed \ Owned
    BY <2>1 DEF HasList
  <2>3. PICK L \in [0 .. k - 1 -> Pages] :
          IsList(L, k, freelist, link) /\ Listed(L, k) = Handed \ Owned
    BY <2>2
  <2>4. \A i \in 0 .. k - 1 : L[i] # p /\ L[i] \in DOMAIN link
    BY <1>3, <2>3 DEF Listed
  <2>5. IsList(L, k, freelist, link')
    BY <1>2, <2>3, <2>4 DEF IsList
  <2>6. HasList(freelist, link', Handed \ Owned)
    BY <2>3, <2>5 DEF HasList
  <2> QED BY <2>1, <2>6
<1>6. OneOwner'
  <2>1. OneOwner
    BY DEF PageInv
  <2>2. held' = held
    BY <1>1
  <2> QED BY <2>1, <2>2 DEF OneOwner, PagesOf
<1>7. Roomy(usage)' <=> Roomy(usage)
  BY <1>1, UseKept
<1>8. Alone(usage)' <=> Alone(usage)
  BY <1>1, UseKept
<1>9. RoomInv'
  BY <1>1, <1>4, <1>7 DEF PageInv, RoomInv
<1>10. CallInv'
  <2>1. \A d : Room(d, 1)' <=> Room(d, 1)
    BY <1>1, <1>4 DEF Room
  <2> QED BY <1>1, <1>8, <2>1 DEF PageInv, CallInv, InCall
<1>11. Types' /\ Before'
  BY <1>1, <1>3, UseKept DEF PageInv, Types, Before
<1> QED
  BY <1>5, <1>6, <1>9, <1>10, <1>11 DEF PageInv

(* A step that changes nothing. *)
LEMMA StutterStep ==
  ASSUME PageInv, UNCHANGED vars
  PROVE  PageInv'
<1>1. UNCHANGED <<usage, given, freelist, link, held, pc, head, order>>
  BY DEF vars
<1>2. ListInv' /\ OneOwner' /\ RoomInv'
  BY <1>1, SameHeap
<1>3. Types' /\ Before'
  BY <1>1, UseKept DEF PageInv, Types, Before
<1>4. CallInv'
  <2>1. Alone(usage)' <=> Alone(usage)
    BY <1>1 DEF Alone
  <2>2. \A d : Room(d, 1)' <=> Room(d, 1)
    BY <1>1 DEF Room, HeldPages, PagesOf
  <2> QED BY <1>1, <2>1, <2>2 DEF PageInv, CallInv, InCall
<1> QED
  BY <1>2, <1>3, <1>4 DEF PageInv

(* The invariant holds before setup_vm. *)
LEMMA PageInit ==
  ASSUME \A u \in Usages : SoundUse(u), Init
  PROVE  PageInv
<1>1. /\ usage \in Usages /\ given = None /\ freelist = NULL
      /\ DOMAIN link = Pages \cup {NULL} /\ DOMAIN head = CPUs
      /\ DOMAIN order = CPUs
      /\ held \in [CPUs -> SUBSET Blocks]
      /\ pc \in [CPUs -> {"idle", "take", "scan"}]
      /\ \A c \in CPUs : held[c] = {} /\ pc[c] = "idle"
  BY DEF Init
<1>2. Types /\ Before
  BY <1>1 DEF Types, Before
<1>3. ListInv /\ OneOwner /\ CallInv
  BY <1>1 DEF ListInv, OneOwner, CallInv, InCall
<1>4. RoomInv
  <2> SUFFICES ASSUME NEW c \in CPUs
               PROVE  Cardinality(HeldPages(c)) <= usage.held[c]
    BY DEF RoomInv
  <2>1. \A p : p \notin HeldPages(c)
    BY <1>1, OwnedBy
  <2>2. HeldPages(c) = {}
    BY <2>1
  <2>3. usage.held[c] \in Nat
    BY <1>1, Constants
  <2>4. Cardinality({}) = 0
    BY FS_EmptySet
  <2> QED BY <2>2, <2>3, <2>4
<1> QED
  BY <1>2, <1>3, <1>4 DEF PageInv
-----------------------------------------------------------------------------
(* The list stays a list of the pages nobody owns, through every call of   *)
(* alloc_page, alloc_pages, free_page and free_pages, for any number of    *)
(* CPUs and of pages.                                                      *)
THEOREM PageInvariance ==
  (\A u \in Usages : SoundUse(u)) => (Spec => []PageInv)
<1> SUFFICES ASSUME \A u \in Usages : SoundUse(u)
             PROVE  Spec => []PageInv
  OBVIOUS
<1>1. Init => PageInv
  BY PageInit
<1>2. PageInv /\ [Next]_vars => PageInv'
  BY SetupStep, FreeStep, ReadStep, TakeStep, ScanStep, ScribbleStep,
     StutterStep DEF Next
<1> QED
  BY <1>1, <1>2, PTL DEF Spec

(* alloc_page and alloc_pages never give out a page that is in use: no     *)
(* page belongs to two CPUs, or to two blocks of one.                      *)
THEOREM OwnersApart ==
  (\A u \in Usages : SoundUse(u)) => (Spec => []OneOwner)
<1>1. PageInv => OneOwner
  BY DEF PageInv
<1> QED
  BY <1>1, PageInvariance, PTL

(* No page leaks: whatever was allocated and freed, a page that setup_vm   *)
(* handed over is either on the free list, where alloc_page finds it, or   *)
(* owned, never both.                                                      *)
THEOREM PagesKept ==
  (\A u \in Usages : SoundUse(u)) => (Spec => []NoneLost)
<1>1. PageInv => NoneLost
  <2> SUFFICES ASSUME PageInv, given # None
               PROVE  Free \cup Owned = Handed /\ Free \cap Owned = {}
    BY DEF NoneLost, Owned, Handed
  <2>1. Owned \subseteq Handed /\ HasList(freelist, link, Handed \ Owned)
    BY DEF PageInv, ListInv
  <2>2. Free = Handed \ Owned
    BY <2>1, WalkList
  <2> QED BY <2>1, <2>2
<1> QED
  BY <1>1, PageInvariance, PTL

(* malloc and free on top of the page allocator (vm_memalign, vm_free,     *)
(* install_page) make no step on its list that its own functions would not *)
(* make, so all of the above holds of programs that use malloc too.        *)
THEOREM MallocIsClient == VmSpec => Spec
<1>1. VmInit => Init
  BY DEF VmInit
<1>2. [VmNext]_allVars => [Next]_vars
  <2> SUFFICES ASSUME [VmNext]_allVars
               PROVE  [Next]_vars
    OBVIOUS
  <2>1. CASE UNCHANGED allVars
    BY <2>1 DEF allVars
  <2>2. CASE SetupVm
    BY <2>2 DEF Next
  <2>3. ASSUME NEW c \in CPUs, PageCalls(c) \/ Scribble(c) \/ PageCheck(c)
                               \/ PageTake(c)
        PROVE  Next
    BY <2>3 DEF Next, PageCalls, PageCheck, PageTake
  <2>4. ASSUME NEW c \in CPUs, NEW a \in Aligns, NEW w \in Wants,
               Malloc(c, a, w)
        PROVE  UNCHANGED vars
    BY <2>4 DEF Malloc, Call, vars, locals
  <2>5. ASSUME NEW c \in CPUs, AllocVpages(c) \/ InstallPage(c)
                               \/ InstallTable(c) \/ MallocDone(c)
        PROVE  UNCHANGED vars
    BY <2>5 DEF AllocVpages, InstallPage, InstallTable, MallocDone
  <2>6. ASSUME NEW c \in CPUs, FreeBlock(c)
        PROVE  UNCHANGED vars
    BY <2>6 DEF FreeBlock, Call, vars, locals
  <2>7. ASSUME NEW c \in CPUs, VmFree(c)
        PROVE  [Next]_vars
    BY <2>7 DEF VmFree, Next
  <2> QED
    BY <2>1, <2>2, <2>3, <2>4, <2>5, <2>6, <2>7 DEF VmNext
<1> QED
  BY <1>1, <1>2, PTL DEF VmSpec, Spec

(* Both, of a program in which CPUs call malloc and free. *)
THEOREM MallocKeepsPages ==
  (\A u \in Usages : SoundUse(u)) => (VmSpec => [](OneOwner /\ NoneLost))
BY MallocIsClient, OwnersApart, PagesKept, PTL
=============================================================================
