-------------------------- MODULE PhysAllocProofs --------------------------
(***************************************************************************)
(* Proofs about PhysAlloc: for any number of CPUs, any memory, any sizes   *)
(* and alignments the allocations of the boot-time allocator are disjoint, *)
(* inside the memory it was given, aligned, and large enough for what      *)
(* memalign makes of them.                                                 *)
(***************************************************************************)
EXTENDS PhysAlloc, TLAPS

(* Division with remainder. *)
LEMMA DivMod ==
  ASSUME NEW x \in Nat, NEW a \in Nat \ {0}
  PROVE  /\ x \div a \in Nat /\ x % a \in 0 .. a - 1
         /\ x = (x \div a) * a + (x % a)
  OBVIOUS

(* A multiple of a leaves no remainder. *)
LEMMA ModMultiple ==
  ASSUME NEW k \in Nat, NEW a \in Nat \ {0}
  PROVE  (k * a) % a = 0
<1> DEFINE q == (k * a) \div a
           r == (k * a) % a
<1>1. k * a \in Nat
  OBVIOUS
<1>2. q \in Nat /\ r \in 0 .. a - 1 /\ k * a = q * a + r
  BY <1>1, DivMod
<1>3. (k - q) * a = r
  BY <1>2
<1>4. k - q = 0
  BY <1>2, <1>3
<1> QED
  BY <1>3, <1>4

(* ALIGN rounds up to the next multiple: it adds less than the alignment. *)
LEMMA AlignBounds ==
  ASSUME NEW x \in Nat, NEW a \in Nat \ {0}
  PROVE  /\ ALIGN(x, a) \in Nat
         /\ x <= ALIGN(x, a) /\ ALIGN(x, a) <= x + a - 1
         /\ ALIGN(x, a) % a = 0
<1> DEFINE q == (x + a - 1) \div a
           r == (x + a - 1) % a
<1>1. x + a - 1 \in Nat
  OBVIOUS
<1>2. q \in Nat /\ r \in 0 .. a - 1 /\ x + a - 1 = q * a + r
  BY <1>1, DivMod
<1>3. q * a \in Nat
  BY <1>2
<1>4. (q * a) % a = 0
  BY <1>2, ModMultiple
<1> QED
  BY <1>2, <1>3, <1>4 DEF ALIGN

(* What is aligned stays where it is. *)
LEMMA AlignFixed ==
  ASSUME NEW x \in Nat, NEW a \in Nat \ {0}, x % a = 0
  PROVE  ALIGN(x, a) = x
<1> DEFINE k == x \div a
           q == (x + a - 1) \div a
           r == (x + a - 1) % a
<1>1. k \in Nat /\ x = k * a
  BY DivMod
<1>2. x + a - 1 \in Nat
  OBVIOUS
<1>3. q \in Nat /\ r \in 0 .. a - 1 /\ x + a - 1 = q * a + r
  BY <1>2, DivMod
<1>4. (k - q) * a = r - (a - 1)
  BY <1>1, <1>3
<1>5. k - q = 0
  BY <1>1, <1>3, <1>4
<1> QED
  BY <1>1, <1>5 DEF ALIGN

(* Divisibility is transitive. *)
LEMMA DivTrans ==
  ASSUME NEW x \in Nat, NEW a \in Nat \ {0}, NEW b \in Nat \ {0},
         x % b = 0, b % a = 0
  PROVE  x % a = 0
<1> DEFINE k == x \div b
           j == b \div a
<1>1. k \in Nat /\ x = k * b
  BY DivMod
<1>2. j \in Nat /\ b = j * a
  BY DivMod
<1>3. k * j \in Nat /\ x = (k * j) * a
  BY <1>1, <1>2
<1>4. ((k * j) * a) % a = 0
  BY <1>3, ModMultiple
<1> QED
  BY <1>3, <1>4

(* A sum of multiples is a multiple. *)
LEMMA ModSum ==
  ASSUME NEW x \in Nat, NEW k \in Nat, NEW a \in Nat \ {0}, x % a = 0
  PROVE  (x + k * a) % a = 0
<1> DEFINE j == x \div a
<1>1. j \in Nat /\ x = j * a
  BY DivMod
<1>2. j + k \in Nat /\ x + k * a = (j + k) * a
  BY <1>1
<1>3. ((j + k) * a) % a = 0
  BY <1>2, ModMultiple
<1> QED
  BY <1>2, <1>3
-----------------------------------------------------------------------------
(* The arithmetic of memalign and phys_alloc_aligned_safe: the result is   *)
(* aligned, has room for the metadata in front of it, and what was asked   *)
(* for ends inside the block.                                              *)
LEMMA MemalignFits ==
  ASSUME TypeOK, NEW a \in Aligns, NEW w \in Wants
  PROVE  /\ Addr(a) \in Nat /\ base <= Addr(a)
         /\ BlockSize(a, w) \in Nat
         /\ Alignment(a) \in Nat
         /\ Mem(Addr(a), a) \in Nat /\ Mem(Addr(a), a) % Alignment(a) = 0
         /\ Addr(a) + METADATA_EXTRA <= Mem(Addr(a), a)
         /\ Mem(Addr(a), a) + w <= Addr(a) + BlockSize(a, w)
<1> DEFINE al == Alignment(a)
           blk == Larger(al, align_min)
           p == Addr(a)
           ask == (IF a <= Word THEN w ELSE w + a - 1) + METADATA_EXTRA
<1>1. /\ Word \in Nat \ {0} /\ a \in Nat \ {0} /\ w \in Nat \ {0}
      /\ align_min \in Aligns /\ align_min \in Nat \ {0} /\ base \in Nat
      /\ Word \in Aligns
  BY PhysAllocAssumption DEF TypeOK
<1>2. al \in Aligns /\ al \in Nat \ {0}
  BY <1>1 DEF Alignment
<1>3. blk \in Aligns /\ blk \in Nat \ {0} /\ al <= blk
  BY <1>1, <1>2 DEF Larger
<1>4. blk % al = 0
  BY <1>2, <1>3, PhysAllocAssumption
<1>5. p \in Nat /\ base <= p /\ p % blk = 0
  BY <1>1, <1>3, AlignBounds DEF Addr
<1>6. p % al = 0
  BY <1>2, <1>3, <1>4, <1>5, DivTrans
<1>7. METADATA_EXTRA = 2 * Word /\ METADATA_EXTRA \in Nat
  BY <1>1 DEF METADATA_EXTRA
<1>8. ask \in Nat
  BY <1>1, <1>7
<1>9. BlockSize(a, w) \in Nat /\ ask <= BlockSize(a, w)
  BY <1>1, <1>8, AlignBounds DEF BlockSize
<1>10. p + METADATA_EXTRA \in Nat
  BY <1>5, <1>7
<1>11. /\ Mem(p, a) \in Nat /\ Mem(p, a) % al = 0
       /\ p + METADATA_EXTRA <= Mem(p, a)
       /\ Mem(p, a) <= p + METADATA_EXTRA + al - 1
  BY <1>2, <1>10, AlignBounds DEF Mem
<1>12. CASE a <= Word
  <2>1. al = Word
    BY <1>12 DEF Alignment
  <2>2. (p + METADATA_EXTRA) % al = 0
    <3>1. p \in Nat /\ Word \in Nat \ {0} /\ p % Word = 0
      BY <1>1, <1>5, <1>6, <2>1
    <3> HIDE DEF p, al
    <3>2. (p + 2 * Word) % Word = 0
      BY <3>1, ModSum
    <3> QED
      BY <1>7, <2>1, <3>2
  <2>3. Mem(p, a) = p + METADATA_EXTRA
    BY <1>2, <1>10, <2>2, AlignFixed DEF Mem
  <2>4. ask = w + METADATA_EXTRA
    BY <1>12
  <2>5. Mem(p, a) + w <= p + BlockSize(a, w)
    BY <1>1, <1>5, <1>7, <1>9, <2>3, <2>4
  <2> QED
    BY <1>2, <1>5, <1>9, <1>11, <2>5
<1>13. CASE ~(a <= Word)
  <2>1. al = a /\ ask = w + a - 1 + METADATA_EXTRA
    BY <1>13 DEF Alignment
  <2>2. Mem(p, a) + w <= p + BlockSize(a, w)
    BY <1>1, <1>5, <1>7, <1>9, <1>11, <2>1
  <2> QED
    BY <1>2, <1>5, <1>9, <1>11, <2>2
<1> QED
  BY <1>12, <1>13
-----------------------------------------------------------------------------
(* An element of a sequence over S is in S. *)
LEMMA ElementIn ==
  ASSUME NEW S, NEW s \in Seq(S), NEW i \in 1 .. Len(s)
  PROVE  s[i] \in S
  OBVIOUS

(* A successful memalign keeps the invariant: the new block starts at base *)
(* or above, where nothing has been allocated yet.                         *)
LEMMA MemalignKeeps ==
  ASSUME IInv, NEW c \in CPUs, NEW a \in Aligns, NEW w \in Wants,
         Memalign(c, a, w)
  PROVE  IInv'
<1> DEFINE p == Addr(a)
           size == BlockSize(a, w)
           mem == Mem(p, a)
           new == [addr |-> p, size |-> size, mem |-> mem, want |-> w,
                   align |-> Alignment(a)]
           entry == [base |-> p, size |-> size]
<1>1. TypeOK /\ Upwards /\ BlocksApart /\ BlocksInside /\ UserInside
      /\ LogFaithful
  BY DEF IInv
<1>2. /\ p \in Nat /\ base <= p /\ size \in Nat /\ Alignment(a) \in Nat
      /\ mem \in Nat /\ mem % Alignment(a) = 0
      /\ p + METADATA_EXTRA <= mem /\ mem + w <= p + size
  BY <1>1, MemalignFits
<1>3. /\ base \in Nat /\ top \in Nat /\ origin \in Nat /\ w \in Nat
      /\ regions \in Seq([base : Nat, size : Nat])
      /\ blocks \subseteq BlockType /\ NrRegions \in Nat /\ Limit \in Nat
  BY <1>1, PhysAllocAssumption DEF TypeOK
<1>4. /\ base' = p + size /\ size + (p - base) <= TopSafe - base
      /\ blocks' = blocks \cup {new}
      /\ regions' = IF Len(regions) < NrRegions THEN Append(regions, entry)
                                                ELSE regions
      /\ alloc_ops = "early"
      /\ UNCHANGED <<top, align_min, alloc_ops, pc, p_base, p_top, origin>>
  BY DEF Memalign, LogRegion
<1>5. TopSafe \in Nat /\ TopSafe <= top
  BY <1>3 DEF TopSafe
<1>6. base' \in Nat /\ base <= base' /\ base' <= top
  <2>1. /\ p \in Nat /\ base <= p /\ size \in Nat /\ base \in Nat
        /\ top \in Nat
    BY <1>2, <1>3
  <2>2. base' = p + size /\ size + (p - base) <= TopSafe - base
    BY <1>4
  <2> HIDE DEF p, size
  <2> QED
    BY <1>5, <2>1, <2>2
<1>7. new \in BlockType
  BY <1>2, <1>3 DEF BlockType
<1>8. entry \in [base : Nat, size : Nat]
  BY <1>2
<1>9. /\ regions' \in Seq([base : Nat, size : Nat])
      /\ Len(regions') \in {Len(regions), Len(regions) + 1}
      /\ \A i \in 1 .. Len(regions) : regions'[i] = regions[i]
      /\ Len(regions') = Len(regions) + 1 => regions'[Len(regions')] = entry
      /\ Len(regions) < NrRegions => Len(regions') = Len(regions) + 1
  <2>1. CASE Len(regions) < NrRegions
    <3>1. regions' = Append(regions, entry)
      BY <1>4, <2>1
    <3>2. /\ Append(regions, entry) \in Seq([base : Nat, size : Nat])
          /\ Len(Append(regions, entry)) = Len(regions) + 1
          /\ \A i \in 1 .. Len(regions) : Append(regions, entry)[i] = regions[i]
          /\ Append(regions, entry)[Len(regions) + 1] = entry
      BY <1>3, <1>8
    <3> QED
      BY <3>1, <3>2
  <2>2. CASE ~(Len(regions) < NrRegions)
    <3>1. regions' = regions
      BY <1>4, <2>2
    <3>2. Len(regions) \in Nat
      BY <1>3
    <3> QED
      BY <1>3, <2>2, <3>1, <3>2
  <2> QED
    BY <2>1, <2>2
<1>10. Len(regions) \in Nat
  BY <1>3
<1>11. TypeOK'
  <2>1. ret' \in [CPUs -> Nat]
    BY <1>1, <1>2 DEF Memalign, TypeOK
  <2>2. refused' \in [CPUs -> BOOLEAN]
    BY <1>1 DEF Memalign, TypeOK
  <2> QED
    BY <1>1, <1>4, <1>6, <1>7, <1>9, <2>1, <2>2 DEF TypeOK
<1>12. \A b \in blocks : b.addr \in Nat /\ b.size \in Nat
                         /\ b.addr + b.size <= base /\ origin <= b.addr
  BY <1>1, <1>3 DEF BlocksInside, BlockType
<1>13. Upwards'
  <2>1. origin' <= base' /\ base' <= top'
    BY <1>1, <1>3, <1>4, <1>6 DEF Upwards
  <2>2. ASSUME NEW i \in 1 .. Len(regions')
        PROVE  regions'[i].base + regions'[i].size <= base'
    <3>1. CASE i \in 1 .. Len(regions)
      <4>1. regions[i] \in [base : Nat, size : Nat]
        BY <1>3, <3>1, ElementIn
      <4>2. regions[i].base + regions[i].size <= base
        BY <1>1, <3>1 DEF Upwards
      <4>3. regions'[i] = regions[i]
        BY <1>9, <3>1
      <4> QED
        BY <1>3, <1>6, <4>1, <4>2, <4>3
    <3>2. CASE i = Len(regions) + 1
      <4>1. regions'[i] = entry
        BY <1>9, <1>10, <3>2
      <4> QED
        BY <1>2, <1>4, <4>1
    <3> QED
      BY <1>9, <1>10, <3>1, <3>2
  <2>3. alloc_ops' # "none"
    BY <1>4
  <2> QED
    BY <2>1, <2>2, <2>3 DEF Upwards
<1>14. BlocksApart'
  <2>1. \A x, y \in blocks : x # y => Apart(x.addr, x.size, y.addr, y.size)
    BY <1>1 DEF BlocksApart
  <2>2. new.addr = p /\ new.size = size
    OBVIOUS
  <2>3. blocks' = blocks \cup {new}
    BY <1>4
  <2>4. p \in Nat /\ size \in Nat /\ base \in Nat /\ base <= p
    BY <1>2, <1>3
  <2> HIDE DEF new, p, size
  <2>5. \A x \in blocks : /\ Apart(x.addr, x.size, new.addr, new.size)
                          /\ Apart(new.addr, new.size, x.addr, x.size)
    BY <1>12, <2>2, <2>4 DEF Apart
  <2> QED
    BY <2>1, <2>3, <2>5 DEF BlocksApart
<1>15. BlocksInside'
  <2>1. origin <= base
    BY <1>1 DEF Upwards
  <2>2. ASSUME NEW b \in blocks
        PROVE  origin <= b.addr /\ b.addr + b.size <= base'
    BY <1>3, <1>6, <1>12
  <2>3. origin <= new.addr /\ new.addr + new.size <= base'
    BY <1>2, <1>3, <1>4, <2>1
  <2> QED
    BY <1>4, <1>6, <2>2, <2>3 DEF BlocksInside
<1>16. UserInside'
  BY <1>1, <1>2, <1>4 DEF UserInside
<1>17. LogFaithful'
  <2>1. ASSUME Len(regions') < NrRegions, NEW b \in blocks'
        PROVE  \E i \in 1 .. Len(regions') :
                 regions'[i] = [base |-> b.addr, size |-> b.size]
    <3>1. Len(regions) < NrRegions /\ Len(regions') = Len(regions) + 1
      BY <1>3, <1>9, <1>10, <2>1
    <3>2. CASE b \in blocks
      <4>1. PICK i \in 1 .. Len(regions) :
              regions[i] = [base |-> b.addr, size |-> b.size]
        BY <1>1, <3>1, <3>2 DEF LogFaithful
      <4>2. regions'[i] = regions[i] /\ i \in 1 .. Len(regions')
        BY <1>9, <1>10, <3>1, <4>1
      <4> QED
        BY <4>1, <4>2
    <3>3. CASE b = new
      BY <1>9, <1>10, <3>1, <3>3
    <3> QED
      BY <1>4, <3>2, <3>3
  <2>2. ASSUME NEW i \in 1 .. Len(regions'), NEW j \in 1 .. Len(regions'),
               i < j
        PROVE  regions'[i].base + regions'[i].size <= regions'[j].base
    <3>1. i \in 1 .. Len(regions) /\ regions'[i] = regions[i]
      <4>1. i \in 1 .. Len(regions)
        BY <1>9, <1>10, <2>2
      <4> QED
        BY <1>9, <4>1
    <3>2. CASE j \in 1 .. Len(regions)
      BY <1>1, <1>9, <2>2, <3>1, <3>2 DEF LogFaithful
    <3>3. CASE j = Len(regions) + 1
      <4>1. regions'[j] = entry
        BY <1>9, <1>10, <3>3
      <4>2. regions[i].base + regions[i].size <= base
        BY <1>1, <3>1 DEF Upwards
      <4>3. regions[i] \in [base : Nat, size : Nat]
        BY <1>3, <3>1, ElementIn
      <4>4. regions'[j].base = p /\ p \in Nat /\ base \in Nat /\ base <= p
        BY <1>2, <1>3, <4>1
      <4>5. regions[i].base \in Nat /\ regions[i].size \in Nat
        BY <4>3
      <4> HIDE DEF p
      <4>6. regions[i].base + regions[i].size <= regions'[j].base
        BY <4>2, <4>4, <4>5
      <4> QED
        BY <3>1, <4>6
    <3>4. j \in 1 .. Len(regions) \/ j = Len(regions) + 1
      <4>1. j \in 1 .. Len(regions')
        BY <2>2
      <4> QED
        BY <1>9, <1>10, <4>1
    <3> QED
      BY <3>2, <3>3, <3>4
  <2> QED
    BY <2>1, <2>2 DEF LogFaithful
<1> QED
  BY <1>11, <1>13, <1>14, <1>15, <1>16, <1>17 DEF IInv

(* phys_alloc_get_unused appends the rest of the memory to the log. *)
LEMMA GetUnusedKeeps ==
  ASSUME IInv, NEW c \in CPUs, GetUnusedTake(c)
  PROVE  IInv'
<1> DEFINE entry == [base |-> base, size |-> top - base]
<1>1. TypeOK /\ Upwards /\ BlocksApart /\ BlocksInside /\ UserInside
      /\ LogFaithful
  BY DEF IInv
<1>2. /\ base \in Nat /\ top \in Nat /\ origin \in Nat /\ base <= top
      /\ origin <= base /\ regions \in Seq([base : Nat, size : Nat])
      /\ NrRegions \in Nat
  BY <1>1, PhysAllocAssumption DEF TypeOK, Upwards
<1>3. /\ regions' = Append(regions, entry) /\ base' = top
      /\ UNCHANGED <<top, align_min, alloc_ops, p_base, p_top, ret, refused,
                     origin, blocks>>
  BY DEF GetUnusedTake
<1>4. entry \in [base : Nat, size : Nat]
  BY <1>2
<1>5. /\ regions' \in Seq([base : Nat, size : Nat])
      /\ Len(regions') = Len(regions) + 1
      /\ \A i \in 1 .. Len(regions) : regions'[i] = regions[i]
      /\ regions'[Len(regions) + 1] = entry
  <2>1. /\ Append(regions, entry) \in Seq([base : Nat, size : Nat])
        /\ Len(Append(regions, entry)) = Len(regions) + 1
        /\ \A i \in 1 .. Len(regions) : Append(regions, entry)[i] = regions[i]
        /\ Append(regions, entry)[Len(regions) + 1] = entry
    BY <1>2, <1>4
  <2> QED
    BY <1>3, <2>1
<1>6. Len(regions) \in Nat
  BY <1>2
<1>7. TypeOK'
  <2>1. pc' \in [CPUs -> {"idle", "take", "switch", "owner", "abort",
                        "assert"}]
    BY <1>1 DEF GetUnusedTake, TypeOK
  <2> QED
    BY <1>1, <1>2, <1>3, <1>5, <2>1 DEF TypeOK
<1>8. alloc_ops' # "none"
  BY <1>1, <1>3 DEF GetUnusedTake, Upwards
<1>9. Upwards'
  <2>1. ASSUME NEW i \in 1 .. Len(regions')
        PROVE  regions'[i].base + regions'[i].size <= base'
    <3>1. CASE i \in 1 .. Len(regions)
      <4>1. regions[i] \in [base : Nat, size : Nat]
        BY <1>2, <3>1, ElementIn
      <4>2. regions[i].base + regions[i].size <= base
        BY <1>1, <3>1 DEF Upwards
      <4>3. regions'[i] = regions[i]
        BY <1>5, <3>1
      <4> QED
        BY <1>2, <1>3, <4>1, <4>2, <4>3
    <3>2. CASE i = Len(regions) + 1
      <4>1. regions'[i] = entry
        BY <1>5, <3>2
      <4> QED
        BY <1>2, <1>3, <4>1
    <3> QED
      BY <1>5, <1>6, <3>1, <3>2
  <2> QED
    BY <1>2, <1>3, <1>8, <2>1 DEF Upwards
<1>10. BlocksApart' /\ UserInside'
  BY <1>1, <1>3 DEF BlocksApart, UserInside, Apart, METADATA_EXTRA
<1>11. BlocksInside'
  BY <1>1, <1>2, <1>3 DEF BlocksInside, TypeOK, BlockType
<1>12. LogFaithful'
  <2>1. ASSUME Len(regions') < NrRegions, NEW b \in blocks'
        PROVE  \E i \in 1 .. Len(regions') :
                 regions'[i] = [base |-> b.addr, size |-> b.size]
    <3>1. Len(regions) < NrRegions /\ b \in blocks
      BY <1>2, <1>3, <1>5, <1>6, <2>1
    <3>2. PICK i \in 1 .. Len(regions) :
            regions[i] = [base |-> b.addr, size |-> b.size]
      BY <1>1, <3>1 DEF LogFaithful
    <3> QED
      BY <1>5, <1>6, <3>2
  <2>2. ASSUME NEW i \in 1 .. Len(regions'), NEW j \in 1 .. Len(regions'),
               i < j
        PROVE  regions'[i].base + regions'[i].size <= regions'[j].base
    <3>1. i \in 1 .. Len(regions) /\ regions'[i] = regions[i]
      BY <1>5, <1>6, <2>2
    <3>2. CASE j \in 1 .. Len(regions)
      BY <1>1, <1>5, <2>2, <3>1, <3>2 DEF LogFaithful
    <3>3. CASE j = Len(regions) + 1
      <4>1. regions'[j] = entry
        BY <1>5, <3>3
      <4>2. regions[i].base + regions[i].size <= base
        BY <1>1, <3>1 DEF Upwards
      <4> QED
        BY <3>1, <4>1, <4>2
    <3> QED
      BY <1>5, <1>6, <3>2, <3>3
  <2> QED
    BY <2>1, <2>2 DEF LogFaithful
<1> QED
  BY <1>7, <1>9, <1>10, <1>11, <1>12 DEF IInv

(* The other steps change neither the allocations nor the log. *)
LEMMA FrameKeeps ==
  ASSUME IInv, TypeOK', UNCHANGED <<base, top, origin, blocks, regions>>,
         alloc_ops' = "none" => /\ alloc_ops = "none"
                                /\ \A c \in CPUs : pc'[c] = "idle"
  PROVE  IInv'
<1>1. TypeOK /\ Upwards /\ BlocksApart /\ BlocksInside /\ UserInside
      /\ LogFaithful
  BY DEF IInv
<1>2. Upwards'
  BY <1>1 DEF Upwards
<1>3. BlocksApart'
  BY <1>1 DEF BlocksApart, Apart
<1>4. BlocksInside'
  BY <1>1 DEF BlocksInside
<1>5. UserInside'
  BY <1>1 DEF UserInside, METADATA_EXTRA
<1>6. LogFaithful'
  BY <1>1 DEF LogFaithful
<1> QED
  BY <1>2, <1>3, <1>4, <1>5, <1>6 DEF IInv
-----------------------------------------------------------------------------
(* Every step of every CPU keeps the invariant. *)
LEMMA StepKeeps ==
  ASSUME IInv, [Next]_vars
  PROVE  IInv'
<1>1. TypeOK /\ Upwards
  BY DEF IInv
<1> USE PhysAllocAssumption
<1>2. CASE SetMinimumAlignment
  <2>1. TypeOK'
    BY <1>1, <1>2 DEF SetMinimumAlignment, TypeOK
  <2> QED
    BY <1>1, <1>2, <2>1, FrameKeeps DEF SetMinimumAlignment, Upwards
<1>3. CASE PhysAllocInit
  <2>1. PICK m \in Memory : base' = m[1] /\ origin' = m[1] /\ top' = m[1] + m[2]
    BY <1>3 DEF PhysAllocInit
  <2>2. m[1] \in Nat /\ m[2] \in Nat
    OBVIOUS
  <2>3. /\ blocks' = {} /\ regions' = <<>> /\ alloc_ops' = "early"
        /\ UNCHANGED <<align_min, pc, p_base, p_top, ret, refused>>
    BY <1>1, <1>3 DEF PhysAllocInit, Upwards
  <2>4. base' \in Nat /\ top' \in Nat /\ origin' = base' /\ base' <= top'
    BY <2>1, <2>2
  <2>5. TypeOK'
    BY <1>1, <2>3, <2>4 DEF TypeOK
  <2>6. Upwards'
    BY <2>3, <2>4 DEF Upwards
  <2>7. BlocksApart' /\ BlocksInside' /\ UserInside'
    BY <2>3 DEF BlocksApart, BlocksInside, UserInside
  <2>8. LogFaithful'
    BY <2>3 DEF LogFaithful
  <2> QED
    BY <2>5, <2>6, <2>7, <2>8 DEF IInv
<1>4. ASSUME NEW c \in CPUs, NEW a \in Aligns, NEW w \in Wants,
             Memalign(c, a, w)
      PROVE  IInv'
  BY <1>4, MemalignKeeps
<1>5. ASSUME NEW c \in CPUs, NEW a \in Aligns, NEW w \in Wants,
             MemalignRefused(c, a, w)
      PROVE  IInv'
  <2>1. Mem(NULL, a) \in Nat
    <3>1. Alignment(a) \in Nat \ {0}
      BY DEF Alignment
    <3>2. NULL + METADATA_EXTRA \in Nat
      BY DEF NULL, METADATA_EXTRA
    <3> QED
      BY <3>1, <3>2, AlignBounds DEF Mem
  <2>2. ret' \in [CPUs -> Nat]
    BY <1>1, <1>5, <2>1 DEF MemalignRefused, TypeOK
  <2>3. refused' \in [CPUs -> BOOLEAN]
    BY <1>1, <1>5 DEF MemalignRefused, TypeOK
  <2>4. TypeOK'
    BY <1>1, <1>5, <2>2, <2>3 DEF MemalignRefused, TypeOK
  <2> QED
    BY <1>5, <2>4, FrameKeeps DEF MemalignRefused
<1>6. ASSUME NEW c \in CPUs, MemalignAssert(c)
      PROVE  IInv'
  <2>1. TypeOK'
    BY <1>1, <1>6 DEF MemalignAssert, TypeOK
  <2> QED
    BY <1>6, <2>1, FrameKeeps DEF MemalignAssert
<1>7. ASSUME NEW c \in CPUs, GetUnusedRead(c)
      PROVE  IInv'
  <2>1. TypeOK'
    BY <1>1, <1>7 DEF GetUnusedRead, TypeOK
  <2> QED
    BY <1>7, <2>1, FrameKeeps DEF GetUnusedRead
<1>8. ASSUME NEW c \in CPUs, GetUnusedTake(c)
      PROVE  IInv'
  BY <1>8, GetUnusedKeeps
<1>9. ASSUME NEW c \in CPUs, SwitchOps(c)
      PROVE  IInv'
  <2>1. TypeOK'
    BY <1>1, <1>9 DEF SwitchOps, TypeOK
  <2>2. alloc_ops # "none"
    BY <1>1, <1>9 DEF SwitchOps, Upwards
  <2> QED
    BY <1>9, <2>1, <2>2, FrameKeeps DEF SwitchOps
<1>10. CASE UNCHANGED vars
  <2>1. TypeOK'
    BY <1>1, <1>10 DEF vars, TypeOK
  <2>2. alloc_ops' = "none" => \A c \in CPUs : pc'[c] = "idle"
    BY <1>1, <1>10 DEF vars, Upwards
  <2> QED
    BY <1>10, <2>1, <2>2, FrameKeeps DEF vars
<1> QED
  BY <1>2, <1>3, <1>4, <1>5, <1>6, <1>7, <1>8, <1>9, <1>10
     DEF Next, CpuStep
-----------------------------------------------------------------------------
(* The invariant holds in every reachable state.                           *)
THEOREM Invariance == Spec => []IInv
<1>1. Init => IInv
  BY PhysAllocAssumption
     DEF Init, IInv, TypeOK, Upwards, BlocksApart, BlocksInside, UserInside,
         LogFaithful, NULL
<1>2. IInv /\ [Next]_vars => IInv'
  BY StepKeeps
<1> QED
  BY <1>1, <1>2, PTL DEF Spec

(* No two allocations of phys_alloc_aligned_safe overlap.                  *)
THEOREM AllocationsApart == Spec => []BlocksApart
<1>1. IInv => BlocksApart
  BY DEF IInv
<1> QED
  BY <1>1, Invariance, PTL

(* Every allocation lies in the memory given to phys_alloc_init.           *)
THEOREM AllocationsInside == Spec => []BlocksInside
<1>1. IInv => BlocksInside
  BY DEF IInv
<1> QED
  BY <1>1, Invariance, PTL

(* memalign's result is aligned and lies, with its metadata, in its block. *)
THEOREM ResultsFit == Spec => []UserInside
<1>1. IInv => UserInside
  BY DEF IInv
<1> QED
  BY <1>1, Invariance, PTL

(* The log of regions is complete until it is full, and always ascending.  *)
THEOREM LogIsFaithful == Spec => []LogFaithful
<1>1. IInv => LogFaithful
  BY DEF IInv
<1> QED
  BY <1>1, Invariance, PTL

(* phys_alloc_aligned_safe never writes past the log.  That some CPU is    *)
(* past the locked part of phys_alloc_get_unused remains so for good,      *)
(* since no step leads back from there.                                    *)
THEOREM LogStaysInBounds == Spec => []LogInBounds
<1>1. Init => LogInBounds
  BY PhysAllocAssumption DEF Init, LogInBounds
<1>2. ASSUME IInv, LogInBounds, [Next]_vars
      PROVE  LogInBounds'
  <2>1. pc \in [CPUs -> {"idle", "take", "switch", "owner", "abort", "assert"}]
        /\ Len(regions) \in Nat /\ NrRegions \in Nat
    BY <1>2, PhysAllocAssumption DEF IInv, TypeOK
  <2>2. regions \in Seq([base : Nat, size : Nat])
    BY <1>2 DEF IInv, TypeOK
  <2>3. ASSUME NEW c \in CPUs, NEW a \in Aligns, NEW w \in Wants,
               Memalign(c, a, w)
        PROVE  LogInBounds'
    <3>1. pc' = pc /\ LogRegion(Addr(a), BlockSize(a, w))
      BY <2>3 DEF Memalign
    <3>2. Len(regions) <= NrRegions => Len(regions') <= NrRegions
      BY <2>1, <2>2, <3>1 DEF LogRegion
    <3> QED
      BY <1>2, <3>1, <3>2 DEF LogInBounds
  <2>4. ASSUME NEW c \in CPUs, GetUnusedTake(c)
        PROVE  LogInBounds'
    BY <2>1, <2>4 DEF GetUnusedTake, LogInBounds
  <2>5. ASSUME NEW c \in CPUs, GetUnusedRead(c) \/ MemalignAssert(c)
        PROVE  LogInBounds'
    BY <1>2, <2>1, <2>5 DEF GetUnusedRead, MemalignAssert, LogInBounds
  <2>6. ASSUME NEW c \in CPUs, SwitchOps(c)
        PROVE  LogInBounds'
    BY <2>1, <2>6 DEF SwitchOps, LogInBounds
  <2>7. CASE PhysAllocInit
    <3>1. Len(regions') = 0
      BY <2>7 DEF PhysAllocInit
    <3> QED
      BY <2>1, <3>1 DEF LogInBounds
  <2>8. ASSUME UNCHANGED <<pc, regions>>
        PROVE  LogInBounds'
    BY <1>2, <2>8 DEF LogInBounds
  <2> QED
    BY <1>2, <2>3, <2>4, <2>5, <2>6, <2>7, <2>8
       DEF Next, CpuStep, SetMinimumAlignment, MemalignRefused, vars
<1> QED
  BY <1>1, <1>2, Invariance, PTL DEF Spec

(* While a CPU is in setup_vm, and after it, all blocks lie below the base *)
(* it read.                                                                *)
BelowUnused ==
  \A c \in CPUs : pc[c] \in {"take", "switch", "owner"} =>
    \A b \in blocks : b.addr + b.size <= p_base[c]

(* With one CPU phys_alloc_get_unused may read base outside the lock: what *)
(* setup_vm hands to the page allocator meets no allocation, whatever was  *)
(* allocated before.  (With a second CPU that allocates it is not so.)     *)
THEOREM UnusedIsOwned ==
  (\A c, d \in CPUs : c = d) => (Spec => []UnusedOwned)
<1> SUFFICES ASSUME \A c, d \in CPUs : c = d
             PROVE  Spec => []UnusedOwned
  OBVIOUS
<1>1. Init => BelowUnused
  BY DEF Init, BelowUnused
<1>2. ASSUME IInv, BelowUnused, [Next]_vars
      PROVE  BelowUnused'
  <2> USE <1>2 DEF IInv, TypeOK, BelowUnused
  <2>1. CASE SetMinimumAlignment \/ PhysAllocInit
    <3>1. UNCHANGED <<pc, p_base, blocks>>
      BY <2>1 DEF SetMinimumAlignment, PhysAllocInit
    <3> QED
      BY <3>1
  <2>2. ASSUME NEW c \in CPUs, NEW a \in Aligns, NEW w \in Wants,
               Memalign(c, a, w)
        PROVE  BelowUnused'
    <3>1. \A d \in CPUs : pc'[d] = "idle"
      BY <2>2 DEF Memalign
    <3> QED
      BY <3>1
  <2>3. ASSUME NEW c \in CPUs,
               \/ \E a \in Aligns, w \in Wants : MemalignRefused(c, a, w)
               \/ MemalignAssert(c)
        PROVE  BelowUnused'
    <3>1. UNCHANGED <<p_base, blocks>>
          /\ (pc' = pc \/ pc' = [pc EXCEPT ![c] = "assert"])
      BY <2>3 DEF MemalignRefused, MemalignAssert
    <3> QED
      BY <3>1
  <2>4. ASSUME NEW c \in CPUs, GetUnusedRead(c)
        PROVE  BelowUnused'
    <3>1. \A d \in CPUs : p_base'[d] = base
      BY <2>4 DEF GetUnusedRead
    <3>2. blocks' = blocks
      BY <2>4 DEF GetUnusedRead
    <3>3. \A b \in blocks : b.addr + b.size <= base
      BY DEF BlocksInside
    <3> QED
      BY <3>1, <3>2, <3>3
  <2>5. ASSUME NEW c \in CPUs, GetUnusedTake(c) \/ SwitchOps(c)
        PROVE  BelowUnused'
    <3>1. /\ UNCHANGED <<p_base, blocks>>
          /\ \A d \in CPUs : pc[d] \in {"take", "switch", "owner"}
      BY <2>5 DEF GetUnusedTake, SwitchOps
    <3> QED
      BY <3>1
  <2>6. CASE UNCHANGED vars
    BY <2>6 DEF vars
  <2> QED
    BY <2>1, <2>2, <2>3, <2>4, <2>5, <2>6 DEF Next, CpuStep
<1>3. ASSUME IInv, BelowUnused
      PROVE  UnusedOwned
  <2>1. ASSUME NEW c \in CPUs, pc[c] = "owner", NEW b \in blocks
        PROVE  Apart(p_base[c], p_top[c] - p_base[c], b.addr, b.size)
    BY <1>3, <2>1 DEF BelowUnused, Apart
  <2> QED
    BY <2>1 DEF UnusedOwned
<1> QED
  BY <1>1, <1>2, <1>3, Invariance, PTL DEF Spec
=============================================================================
