----------------------------- MODULE VmaProofs -----------------------------
(***************************************************************************)
(* The areas of Vma stay typed, ordered and disjoint whatever the layout,  *)
(* the page size, the calls and the host are, and no two of them ever      *)
(* share a descriptor.                                                     *)
(***************************************************************************)
EXTENDS Vma, TLAPS, NaturalsInduction, WellFoundedInduction, FiniteSetTheorems

(***************************************************************************)
(* The inductive invariant, for the record m that the operators work on.   *)
(***************************************************************************)
IsMm(m) == DOMAIN m = {"areas", "highest", "heap", "fds", "host", "status"}

MmTypeOK(m) ==
    /\ IsMm(m)
    /\ \A r \in m.areas : AreaTypeOK(r)
    /\ m.highest \in Addr
    /\ m.heap \in Addr \cup {NULL, DANGLING}
    /\ m.fds \subseteq Fds
    /\ m.status \in {"run", "exit", "corrupt", "wild"}

\* user_heap_vma points to a linked area.
HeapLinked(m) == m.heap \in Addr => \E r \in m.areas : r.start = m.heap

Sound(m) == WellFormed(m.areas) /\ PairwiseDisjoint(m.areas) /\ HeapLinked(m)

IInv ==
    /\ MmTypeOK(Mm) /\ brk \in Addr
    /\ status = "run" => Sound(Mm) /\ (brk # 0 => heap # NULL)

\* No area of S reaches into the range of n.
FreeFor(S, n) == \A q \in S : q.end <= n.start \/ n.end <= q.start

\* No area of S lies on both sides of a.
NoStraddle(S, a) == \A r \in S : r.start >= a \/ r.end <= a

-----------------------------------------------------------------------------
(***************************************************************************)
(* Numbers and sets.                                                       *)
(***************************************************************************)

\* A set of naturals has a least element.
LEMMA MinExists ==
  ASSUME NEW T \in SUBSET Nat, T # {}
  PROVE  \E x \in T : \A y \in T : x <= y
  <1>1. IsWellFoundedOn(OpToRel(<, Nat), Nat) BY NatLessThanWellFounded
  <1>2. PICK x \in T : \A y \in T : ~(<<y, x>> \in OpToRel(<, Nat))
    BY <1>1, WFMin
  <1>3. ASSUME NEW y \in T, y < x PROVE FALSE
    <2>1. <<y, x>> \in Nat \X Nat BY <1>3
    <2>2. <<y, x>>[1] < <<y, x>>[2] BY <1>3
    <2>3. <<y, x>> \in OpToRel(<, Nat) BY <2>1, <2>2 DEF OpToRel
    <2> QED BY <1>2, <2>3
  <1>4. \A y \in T : x <= y BY <1>3
  <1> QED BY <1>4

\* Lowest and Highest choose a member of a set of areas that has members.
LEMMA LowestExists ==
  ASSUME NEW S, S # {}, \A r \in S : r.start \in Addr
  PROVE  Lowest(S) \in S /\ \A q \in S : Lowest(S).start <= q.start
  <1> DEFINE T == {r.start : r \in S}
  <1>1. T \in SUBSET Nat /\ T # {} BY PageAssumption DEF Addr
  <1>2. PICK x \in T : \A y \in T : x <= y BY <1>1, MinExists
  <1>3. PICK r \in S : r.start = x BY <1>2
  <1>4. \A q \in S : r.start <= q.start BY <1>2, <1>3
  <1> QED BY <1>4 DEF Lowest

\* Addresses are bounded, so among areas Highest chooses the one that starts
\* last.
LEMMA HighestExists ==
  ASSUME NEW S, S # {}, \A r \in S : r.start \in Addr
  PROVE  Highest(S) \in S /\ \A q \in S : q.start <= Highest(S).start
  <1> DEFINE T == {WORD - r.start : r \in S}
  <1>1. T \in SUBSET Nat /\ T # {} BY PageAssumption DEF Addr
  <1>2. PICK x \in T : \A y \in T : x <= y BY <1>1, MinExists
  <1>3. PICK r \in S : WORD - r.start = x BY <1>2
  <1>4. \A q \in S : q.start <= r.start
    <2> TAKE q \in S
    <2>1. x <= WORD - q.start BY <1>2
    <2> QED BY <1>3, <2>1, PageAssumption DEF Addr
  <1> QED BY <1>4 DEF Highest

\* Rounding up to a page stays in the address space and, away from its top,
\* rounds up by less than a page.
LEMMA PageAlignType ==
  ASSUME NEW a \in Addr
  PROVE  /\ PAGE_ALIGN(a) \in Addr
         /\ a + PAGE_SIZE <= WORD => a <= PAGE_ALIGN(a)
         /\ PAGE_ALIGN(a) < a + PAGE_SIZE
         /\ a + PAGE_SIZE > WORD => PAGE_ALIGN(a) = 0
  <1> DEFINE y == a + PAGE_SIZE - 1
  <1>1. y \in Nat /\ y % PAGE_SIZE \in 0 .. PAGE_SIZE - 1
    BY PageAssumption DEF Addr
  <1>2. CASE y < WORD
    BY <1>1, <1>2, PageAssumption DEF PAGE_ALIGN, PAGE_ALIGN_DOWN, Addr
  <1>3. CASE y >= WORD
    <2>1. y - (y % PAGE_SIZE) = WORD
      BY <1>3, PageAssumption DEF Addr, Aligned
    <2> QED BY <1>1, <1>3, <2>1, PageAssumption DEF PAGE_ALIGN, PAGE_ALIGN_DOWN, Addr
  <1> QED BY <1>1, <1>2, <1>3, PageAssumption

\* Sums and differences of addresses wrap and stay addresses.
LEMMA AddSubType ==
  ASSUME NEW a \in Addr, NEW b \in Addr
  PROVE  Add(a, b) \in Addr /\ Sub(a, b) \in Addr
  BY PageAssumption DEF Add, Sub, Addr

\* The page count the merge tests add to an offset is a number.
LEMMA PgLenType ==
  ASSUME NEW a \in Addr, NEW e \in Addr, NEW fd
  PROVE  PgLen(a, e, fd) \in Int
  <1>1. Sub(e, a) \in Nat BY PageAssumption DEF Sub, Addr
  <1>2. Sub(e, a) \div PAGE_SIZE \in Int BY <1>1, PageAssumption
  <1> QED BY <1>2 DEF PgLen, PAGE_DIFFERENCE

\* Removing areas, and adding one whose range is free, keeps areas disjoint.
LEMMA DisjointAdd ==
  ASSUME NEW S, NEW n, WellFormed(S), PairwiseDisjoint(S),
         n.start < n.end, FreeFor(S, n)
  PROVE  WellFormed(S \cup {n}) /\ PairwiseDisjoint(S \cup {n})
  BY DEF WellFormed, PairwiseDisjoint, FreeFor

\* A part of a disjoint set of areas is disjoint.
LEMMA DisjointSubset ==
  ASSUME NEW S, NEW T \in SUBSET S, WellFormed(S), PairwiseDisjoint(S)
  PROVE  WellFormed(T) /\ PairwiseDisjoint(T)
  BY DEF WellFormed, PairwiseDisjoint

-----------------------------------------------------------------------------
(***************************************************************************)
(* Host calls, linking and splitting.                                      *)
(***************************************************************************)

\* kernel_map_vma changes nothing but the area's host fields.
LEMMA MapVmaFields ==
  ASSUME NEW m, MmTypeOK(m), NEW r \in m.areas
  PROVE  /\ MmTypeOK(MapVma(m, r))
         /\ MapVma(m, r).heap = m.heap /\ MapVma(m, r).fds = m.fds
         /\ MapVma(m, r).status = m.status
         /\ \E v : /\ v.start = r.start /\ v.end = r.end
                   /\ MapVma(m, r).areas = (m.areas \ {r}) \cup {v}
  <1> DEFINE v == [r EXCEPT !.hv = KernelMapVma(m.host, r).hv]
             w == MapVma(m, r)
  <1>1. AreaTypeOK(r) BY DEF MmTypeOK
  <1>2. AreaTypeOK(v) /\ v.start = r.start /\ v.end = r.end
    BY <1>1 DEF AreaTypeOK
  <1>3. /\ IsMm(w) /\ w.areas = (m.areas \ {r}) \cup {v} /\ w.highest = m.highest
        /\ w.heap = m.heap /\ w.fds = m.fds /\ w.status = m.status
    BY DEF MapVma, MmTypeOK, IsMm
  <1>4. \A q \in w.areas : AreaTypeOK(q) BY <1>2, <1>3 DEF MmTypeOK
  <1>5. MmTypeOK(w) BY <1>3, <1>4 DEF MmTypeOK
  <1> HIDE DEF w
  <1> QED BY <1>2, <1>3, <1>5 DEF w

\* Mapping an area again keeps the areas' types and their order.
LEMMA MapVmaSound ==
  ASSUME NEW m, MmTypeOK(m), NEW r \in m.areas,
         WellFormed(m.areas), PairwiseDisjoint(m.areas)
  PROVE  /\ WellFormed(MapVma(m, r).areas) /\ PairwiseDisjoint(MapVma(m, r).areas)
         /\ HeapLinked(m) => HeapLinked(MapVma(m, r))
         /\ \A a : NoStraddle(m.areas, a) => NoStraddle(MapVma(m, r).areas, a)
         /\ \A q \in m.areas : \E p \in MapVma(m, r).areas : p.start = q.start
  <1> DEFINE w == MapVma(m, r)
             S == m.areas \ {r}
  <1>1. PICK v : v.start = r.start /\ v.end = r.end /\ w.areas = S \cup {v}
    BY MapVmaFields
  <1>2. WellFormed(S) /\ PairwiseDisjoint(S) BY DisjointSubset
  <1>3. v.start < v.end BY <1>1 DEF WellFormed
  <1>4. FreeFor(S, v) BY <1>1 DEF PairwiseDisjoint, FreeFor
  <1>5. WellFormed(w.areas) /\ PairwiseDisjoint(w.areas)
    BY <1>1, <1>2, <1>3, <1>4, DisjointAdd
  <1>6. \A q \in m.areas : \E p \in w.areas : p.start = q.start BY <1>1
  <1>7. HeapLinked(m) => HeapLinked(w) BY <1>6, MapVmaFields DEF HeapLinked
  <1>8. \A a : NoStraddle(m.areas, a) => NoStraddle(w.areas, a)
    BY <1>1 DEF NoStraddle
  <1> QED BY <1>5, <1>6, <1>7, <1>8

\* vma_link of an area whose range is free.
LEMMA VmaLinkSound ==
  ASSUME NEW m, MmTypeOK(m), Sound(m),
         NEW r, AreaTypeOK(r), r.start < r.end, FreeFor(m.areas, r)
  PROVE  /\ MmTypeOK(VmaLink(m, r)) /\ Sound(VmaLink(m, r))
         /\ VmaLink(m, r).heap = m.heap /\ VmaLink(m, r).fds = m.fds
         /\ VmaLink(m, r).status = m.status
         /\ m.areas \subseteq VmaLink(m, r).areas
         /\ \A a : NoStraddle(m.areas \cup {r}, a) => NoStraddle(VmaLink(m, r).areas, a)
         /\ \E p \in VmaLink(m, r).areas : p.start = r.start
  <1> DEFINE k == [m EXCEPT !.areas = @ \cup {r}, !.highest = LinkedHighest(m, r)]
  <1>1. LinkedHighest(m, r) \in Addr
    BY DEF LinkedHighest, MmTypeOK, AreaTypeOK
  <1>2. /\ IsMm(k) /\ k.areas = m.areas \cup {r} /\ k.highest = LinkedHighest(m, r)
        /\ k.heap = m.heap /\ k.fds = m.fds /\ k.status = m.status
    BY DEF MmTypeOK, IsMm
  <1> HIDE DEF k
  <1>3. MmTypeOK(k) BY <1>1, <1>2 DEF MmTypeOK
  <1>4. WellFormed(k.areas) /\ PairwiseDisjoint(k.areas)
    BY <1>2, DisjointAdd DEF Sound
  <1>5. Sound(k) BY <1>2, <1>4 DEF Sound, HeapLinked
  <1>6. r \in k.areas BY <1>2
  <1>7. MapVma(k, r) = VmaLink(m, r) BY DEF VmaLink, k
  <1>8. r \notin m.areas
    <2>1. r.start \in Int /\ r.end \in Int BY PageAssumption DEF AreaTypeOK, Addr
    <2> QED BY <2>1 DEF FreeFor
  <1>9. PICK v : v.start = r.start /\ v.end = r.end
                 /\ VmaLink(m, r).areas = (k.areas \ {r}) \cup {v}
    BY <1>3, <1>6, <1>7, MapVmaFields
  <1>10. m.areas \subseteq VmaLink(m, r).areas BY <1>2, <1>8, <1>9
  <1>11. \A a : NoStraddle(m.areas \cup {r}, a) => NoStraddle(VmaLink(m, r).areas, a)
    BY <1>2, <1>9 DEF NoStraddle
  <1>12. MmTypeOK(VmaLink(m, r)) /\ Sound(VmaLink(m, r))
    BY <1>3, <1>5, <1>6, <1>7, MapVmaFields, MapVmaSound DEF Sound
  <1>13. /\ VmaLink(m, r).heap = k.heap /\ VmaLink(m, r).fds = k.fds
         /\ VmaLink(m, r).status = k.status
    BY <1>3, <1>6, <1>7, MapVmaFields
  <1>14. \E p \in VmaLink(m, r).areas : p.start = r.start BY <1>9
  <1> QED BY <1>2, <1>10, <1>11, <1>12, <1>13, <1>14

\* kernel_dup returns a descriptor when one is free.
LEMMA DupType ==
  ASSUME NEW open, NEW fd \in Fds \cup {NoFd}, Fds \ open # {}
  PROVE  Dup(open, fd) \in Fds \cup {NoFd}
  <1>1. Fds \ open \in SUBSET Nat BY PageAssumption DEF Fds
  <1>2. PICK least \in Fds \ open : \A c \in Fds \ open : least <= c BY <1>1, MinExists
  <1>3. (CHOOSE d \in Fds \ open : \A c \in Fds \ open : d <= c) \in Fds \ open
    BY <1>2
  <1> QED BY <1>3 DEF Dup

\* vma_split at an address inside an area: afterwards no area lies across it.
LEMMA VmaSplitSound ==
  ASSUME NEW m, MmTypeOK(m), Sound(m), NEW r \in m.areas,
         NEW a \in Addr, r.start < a, a < r.end,
         NEW below \in BOOLEAN, Fds \ m.fds # {}
  PROVE  /\ MmTypeOK(VmaSplit(m, r, a, below)) /\ Sound(VmaSplit(m, r, a, below))
         /\ VmaSplit(m, r, a, below).status = m.status
         /\ m.heap # NULL => VmaSplit(m, r, a, below).heap # NULL
         /\ NoStraddle(VmaSplit(m, r, a, below).areas, a)
         /\ \A b \in Addr : NoStraddle(m.areas, b)
                              => NoStraddle(VmaSplit(m, r, a, below).areas, b)
         /\ \E d : VmaSplit(m, r, a, below).fds \subseteq m.fds \cup {d}
  <1> DEFINE fd == Dup(m.fds, r.fd)
             lo == [r EXCEPT !.end = a]
             hi == [r EXCEPT !.start = a, !.off = @ + PAGE_ALIGN_DOWN(a - r.start)]
             old == IF below THEN hi ELSE lo
             new == [(IF below THEN lo ELSE hi) EXCEPT !.fd = fd]
             S == m.areas \ {r}
             kept == [m EXCEPT !.areas = (@ \ {r}) \cup {old},
                               !.fds = @ \cup ({fd} \ {NoFd}),
                               !.heap = IF @ = r.start THEN old.start ELSE @]
             link == VmaLink(kept, new)
             w == MapVma(link, old)
  <1>1. AreaTypeOK(r) /\ \A q \in m.areas : AreaTypeOK(q) BY DEF MmTypeOK
  <1>2. fd \in Fds \cup {NoFd} BY <1>1, DupType DEF AreaTypeOK
  <1>3. PAGE_ALIGN_DOWN(a - r.start) \in Int
    BY <1>1, PageAssumption DEF PAGE_ALIGN_DOWN, AreaTypeOK, Addr
  <1>4. AreaTypeOK(lo) /\ lo.start = r.start /\ lo.end = a
    BY <1>1 DEF AreaTypeOK
  <1>5. AreaTypeOK(hi) /\ hi.start = a /\ hi.end = r.end
    BY <1>1, <1>3 DEF AreaTypeOK
  <1> HIDE DEF lo, hi, fd
  <1>6. AreaTypeOK(old) /\ AreaTypeOK(new)
    BY <1>2, <1>4, <1>5 DEF AreaTypeOK
  <1>7. \/ old.start = a /\ old.end = r.end /\ new.start = r.start /\ new.end = a
        \/ old.start = r.start /\ old.end = a /\ new.start = a /\ new.end = r.end
    BY <1>4, <1>5 DEF AreaTypeOK
  <1> HIDE DEF old, new
  <1>8. /\ IsMm(kept) /\ kept.areas = S \cup {old} /\ kept.highest = m.highest
        /\ kept.fds = m.fds \cup ({fd} \ {NoFd}) /\ kept.status = m.status
        /\ kept.heap = IF m.heap = r.start THEN old.start ELSE m.heap
    BY DEF MmTypeOK, IsMm
  <1> HIDE DEF kept
  <1>9. MmTypeOK(kept)
    <2>1. kept.heap \in Addr \cup {NULL, DANGLING}
      BY <1>6, <1>8 DEF MmTypeOK, AreaTypeOK
    <2>2. kept.fds \subseteq Fds BY <1>2, <1>8 DEF MmTypeOK
    <2> QED BY <1>1, <1>6, <1>8, <2>1, <2>2 DEF MmTypeOK
  <1>10. \A q \in S : q.end <= r.start \/ r.end <= q.start
    BY DEF Sound, PairwiseDisjoint
  <1>11. /\ \A q \in m.areas : q.start \in Int /\ q.end \in Int
         /\ a \in Int
    BY <1>1, PageAssumption DEF AreaTypeOK, Addr
  <1>12. old.start < old.end /\ new.start < new.end /\ old # new
    BY <1>7, <1>11
  <1>13. FreeFor(S, old) /\ FreeFor(S \cup {old}, new)
    BY <1>7, <1>10, <1>11 DEF FreeFor
  <1>14. WellFormed(S) /\ PairwiseDisjoint(S) BY DisjointSubset DEF Sound
  <1>15. WellFormed(kept.areas) /\ PairwiseDisjoint(kept.areas)
    BY <1>8, <1>12, <1>13, <1>14, DisjointAdd
  <1>16. HeapLinked(kept) BY <1>8 DEF Sound, HeapLinked
  <1>17. Sound(kept) BY <1>15, <1>16 DEF Sound
  <1>18. /\ MmTypeOK(link) /\ Sound(link) /\ link.fds = kept.fds
         /\ link.heap = kept.heap /\ link.status = kept.status /\ old \in link.areas
         /\ \A b : NoStraddle(kept.areas \cup {new}, b) => NoStraddle(link.areas, b)
    BY <1>6, <1>8, <1>9, <1>12, <1>13, <1>17, VmaLinkSound
  <1> HIDE DEF link
  <1>19. /\ MmTypeOK(w) /\ Sound(w) /\ w.fds = kept.fds
         /\ w.heap = kept.heap /\ w.status = kept.status
         /\ \A b : NoStraddle(link.areas, b) => NoStraddle(w.areas, b)
    BY <1>18, MapVmaFields, MapVmaSound DEF Sound
  <1>20. NoStraddle(S \cup {old, new}, a)
    <2>1. \A q \in S : q.start >= a \/ q.end <= a BY <1>10, <1>11
    <2>2. old.start >= a \/ old.end <= a BY <1>7, <1>11
    <2>3. new.start >= a \/ new.end <= a BY <1>7, <1>11
    <2> QED BY <2>1, <2>2, <2>3 DEF NoStraddle
  <1>21. ASSUME NEW b \in Addr, NoStraddle(m.areas, b)
         PROVE  NoStraddle(S \cup {old, new}, b)
    <2>1. b \in Int BY PageAssumption DEF Addr
    <2>2. r.start >= b \/ r.end <= b BY <1>21 DEF NoStraddle
    <2>3. old.start >= b \/ old.end <= b BY <1>7, <1>11, <2>1, <2>2
    <2>4. new.start >= b \/ new.end <= b BY <1>7, <1>11, <2>1, <2>2
    <2> QED BY <1>21, <2>3, <2>4 DEF NoStraddle
  <1>22. w = VmaSplit(m, r, a, below)
    BY DEF VmaSplit, link, kept, new, old, lo, hi, fd
  <1> HIDE DEF w
  <1>23. kept.areas \cup {new} = S \cup {old, new} BY <1>8
  <1>24. \E d : w.fds \subseteq m.fds \cup {d} BY <1>8, <1>19
  <1>25. m.heap # NULL => w.heap # NULL
    BY <1>6, <1>8, <1>19, PageAssumption DEF AreaTypeOK, Addr, NULL
  <1> QED BY <1>8, <1>18, <1>19, <1>20, <1>21, <1>22, <1>23, <1>24, <1>25

-----------------------------------------------------------------------------
(***************************************************************************)
(* munmap.                                                                 *)
(***************************************************************************)

\* One descriptor more in use leaves one fewer.
LEMMA SpareAfterOne ==
  ASSUME NEW F, NEW G, NEW d, G \subseteq F \cup {d},
         NEW k \in Nat, Cardinality(Fds \ F) >= k + 1
  PROVE  Cardinality(Fds \ G) >= k
  <1>1. IsFiniteSet(Fds) BY PageAssumption, FS_Interval DEF Fds
  <1>2. IsFiniteSet(Fds \ F) /\ IsFiniteSet(Fds \ G) BY <1>1, FS_Difference
  <1>3. IsFiniteSet((Fds \ F) \ {d}) BY <1>2, FS_Difference
  <1>4. Cardinality((Fds \ F) \ {d}) >= k
    <2>0. Cardinality(Fds \ F) \in Nat BY <1>2, FS_CardinalityType
    <2>1. CASE d \in Fds \ F
      <3>1. Cardinality((Fds \ F) \ {d}) = Cardinality(Fds \ F) - 1
        BY <1>2, <2>1, FS_RemoveElement
      <3> QED BY <2>0, <3>1
    <2>2. CASE d \notin Fds \ F
      <3>1. (Fds \ F) \ {d} = Fds \ F BY <2>2
      <3> QED BY <2>0, <3>1
    <2> QED BY <2>1, <2>2
  <1>5. (Fds \ F) \ {d} \subseteq Fds \ G OBVIOUS
  <1>6. Cardinality((Fds \ F) \ {d}) <= Cardinality(Fds \ G)
    BY <1>2, <1>5, FS_Subset
  <1> QED BY <1>2, <1>3, <1>4, <1>6, FS_CardinalityType

\* A descriptor is free as long as one or more are left.
LEMMA SpareExists ==
  ASSUME NEW F, NEW k \in Nat \ {0}, Cardinality(Fds \ F) >= k
  PROVE  Fds \ F # {}
  BY FS_EmptySet

\* The first step of munmap, and of its second split: after it no area lies
\* across a.
SplitAt(m, a, below) ==
    IF EndingAbove(m.areas, a) # {} /\ a > VmaFind(m.areas, a).start
    THEN VmaSplit(m, VmaFind(m.areas, a), a, below) ELSE m

\* After the split no area lies across the address.
LEMMA SplitAtSound ==
  ASSUME NEW m, MmTypeOK(m), Sound(m), NEW a \in Addr, NEW below \in BOOLEAN,
         NEW k \in Nat, Cardinality(Fds \ m.fds) >= k + 1
  PROVE  /\ MmTypeOK(SplitAt(m, a, below)) /\ Sound(SplitAt(m, a, below))
         /\ SplitAt(m, a, below).status = m.status
         /\ m.heap # NULL => SplitAt(m, a, below).heap # NULL
         /\ NoStraddle(SplitAt(m, a, below).areas, a)
         /\ \A b \in Addr : NoStraddle(m.areas, b)
                              => NoStraddle(SplitAt(m, a, below).areas, b)
         /\ Cardinality(Fds \ SplitAt(m, a, below).fds) >= k
  <1> DEFINE w == SplitAt(m, a, below)
             E == EndingAbove(m.areas, a)
             f == VmaFind(m.areas, a)
  <1>1. \A r \in m.areas : r.start \in Addr /\ r.end \in Addr
    BY DEF MmTypeOK, AreaTypeOK
  <1>2. E \subseteq m.areas /\ \A r \in E : r.end > a BY DEF EndingAbove
  <1>3. E # {} => f \in E /\ \A q \in E : f.start <= q.start
    BY <1>1, <1>2, LowestExists DEF VmaFind
  <1> HIDE DEF f
  <1>4. CASE E # {} /\ a > f.start
    <2>1. f \in m.areas /\ f.start < a /\ a < f.end
      BY <1>1, <1>2, <1>3, <1>4, PageAssumption DEF Addr
    <2>2. Fds \ m.fds # {}
      <3>1. k + 1 \in Nat \ {0} OBVIOUS
      <3> QED BY <3>1, SpareExists
    <2>3. w = VmaSplit(m, f, a, below) BY <1>4 DEF f, SplitAt
    <2>4. PICK d : w.fds \subseteq m.fds \cup {d} BY <2>1, <2>2, <2>3, VmaSplitSound
    <2>5. Cardinality(Fds \ w.fds) >= k BY <2>4, SpareAfterOne
    <2> QED BY <2>1, <2>2, <2>3, <2>5, VmaSplitSound
  <1>5. CASE ~(E # {} /\ a > f.start)
    <2>1. w = m BY <1>5 DEF f, SplitAt
    <2>2. ASSUME NEW r \in m.areas, ~(r.start >= a \/ r.end <= a) PROVE FALSE
      <3>1. r.start < a /\ r.end > a /\ a \in Int
        BY <1>1, <2>2, PageAssumption DEF Addr
      <3>2. r \in E BY <3>1 DEF EndingAbove
      <3>3. f.start <= r.start /\ f \in m.areas BY <1>2, <1>3, <3>2
      <3> QED BY <1>1, <1>5, <3>1, <3>2, <3>3, PageAssumption DEF Addr
    <2>3. NoStraddle(m.areas, a) BY <2>2 DEF NoStraddle
    <2>4. Cardinality(Fds \ m.fds) >= k
      <3>1. IsFiniteSet(Fds) BY PageAssumption, FS_Interval DEF Fds
      <3>2. IsFiniteSet(Fds \ m.fds) BY <3>1, FS_Difference
      <3> QED BY <3>2, FS_CardinalityType
    <2> QED BY <2>1, <2>3, <2>4
  <1> QED BY <1>4, <1>5

\* vma_remove of detached areas: user_heap_vma is left pointing to a linked
\* area or to none.
LEMMA VmaRemoveFields ==
  ASSUME NEW m, MmTypeOK(m), NEW gone
  PROVE  /\ MmTypeOK(VmaRemove(m, gone))
         /\ VmaRemove(m, gone).areas = m.areas
         /\ VmaRemove(m, gone).status = m.status
         /\ m.heap # NULL => VmaRemove(m, gone).heap # NULL
         /\ VmaRemove(m, gone).heap \in Addr =>
               /\ VmaRemove(m, gone).heap = m.heap
               /\ \A r \in gone : r.start # m.heap
  <1> DEFINE w == VmaRemove(m, gone)
  <1>1. /\ IsMm(w) /\ w.areas = m.areas /\ w.highest = m.highest
        /\ w.fds \subseteq m.fds /\ w.status = m.status
        /\ w.heap = IF \E r \in gone : r.start = m.heap THEN DANGLING ELSE m.heap
    BY DEF VmaRemove, MmTypeOK, IsMm
  <1> HIDE DEF w
  <1>2. DANGLING \notin Addr /\ DANGLING # NULL
    BY PageAssumption DEF DANGLING, NULL, Addr
  <1>3. MmTypeOK(w) BY <1>1 DEF MmTypeOK
  <1> QED BY <1>1, <1>2, <1>3 DEF w

\* vma_highest_addr after detach_vmas_to_be_unmapped is an address.
LEMMA DetachedHighestType ==
  ASSUME NEW m, MmTypeOK(m), NEW left \in SUBSET m.areas, NEW e
  PROVE  DetachedHighest(m, left, e) \in Addr
  <1>1. \A r \in left : r.start \in Addr /\ r.end \in Addr
    BY DEF MmTypeOK, AreaTypeOK
  <1>2. left # {} => Highest(left) \in left BY <1>1, HighestExists
  <1>3. left # {} => Highest(left).end \in Addr BY <1>1, <1>2
  <1>4. 0 \in Addr BY PageAssumption, LayoutAssumption DEF Addr
  <1> QED BY <1>3, <1>4 DEF DetachedHighest, MmTypeOK

\* What munmap leaves keeps off the range it was given.
LEMMA MunmapRangeSound ==
  ASSUME NEW m, MmTypeOK(m), Sound(m), NEW a \in Addr, NEW e \in Addr, a < e,
         EndingAbove(m.areas, a) # {}, Cardinality(Fds \ m.fds) >= 2
  PROVE  /\ MmTypeOK(MunmapRange(m, a, e)) /\ Sound(MunmapRange(m, a, e))
         /\ MunmapRange(m, a, e).status = m.status
         /\ m.heap # NULL => MunmapRange(m, a, e).heap # NULL
         /\ \A q \in MunmapRange(m, a, e).areas : q.end <= a \/ e <= q.start
  <1> DEFINE first == VmaFind(m.areas, a)
             m1 == IF a > first.start THEN VmaSplit(m, first, a, FALSE) ELSE m
             last == VmaFind(m1.areas, e)
             m2 == IF EndingAbove(m1.areas, e) # {} /\ e > last.start
                   THEN VmaSplit(m1, last, e, TRUE) ELSE m1
             gone == {r \in m2.areas : a <= r.start /\ r.start < e}
             left == m2.areas \ gone
             cut == [m2 EXCEPT !.areas = left, !.highest = DetachedHighest(m2, left, e)]
             w == VmaRemove(cut, gone)
  <1>1. m1 = SplitAt(m, a, FALSE) /\ m2 = SplitAt(m1, e, TRUE) BY DEF SplitAt
  <1> HIDE DEF m1, m2
  <1>2. /\ MmTypeOK(m1) /\ Sound(m1) /\ m1.status = m.status
        /\ m.heap # NULL => m1.heap # NULL
        /\ NoStraddle(m1.areas, a) /\ Cardinality(Fds \ m1.fds) >= 1
    <2>1. 1 \in Nat /\ Cardinality(Fds \ m.fds) >= 1 + 1 OBVIOUS
    <2> QED BY <1>1, <2>1, SplitAtSound
  <1>3. /\ MmTypeOK(m2) /\ Sound(m2) /\ m2.status = m1.status
        /\ m1.heap # NULL => m2.heap # NULL
        /\ NoStraddle(m2.areas, e)
        /\ NoStraddle(m1.areas, a) => NoStraddle(m2.areas, a)
    <2>1. 0 \in Nat /\ Cardinality(Fds \ m1.fds) >= 0 + 1 BY <1>2
    <2> QED BY <1>1, <1>2, <2>1, SplitAtSound
  <1>4. \A q \in m2.areas : q.start \in Addr /\ q.end \in Addr
    BY <1>3 DEF MmTypeOK, AreaTypeOK
  <1>5. ASSUME NEW q \in left PROVE q.end <= a \/ e <= q.start
    <2>1. q.start >= a \/ q.end <= a BY <1>2, <1>3 DEF NoStraddle
    <2>2. ~(a <= q.start /\ q.start < e) OBVIOUS
    <2> QED BY <1>4, <2>1, <2>2, PageAssumption DEF Addr
  <1>6. left \in SUBSET m2.areas OBVIOUS
  <1>7. DetachedHighest(m2, left, e) \in Addr
    BY <1>3, <1>6, DetachedHighestType
  <1>8. \A r \in m2.areas : r \in left \/ r \in gone OBVIOUS
  <1> HIDE DEF left, gone
  <1>9. /\ IsMm(cut) /\ cut.areas = left /\ cut.highest = DetachedHighest(m2, left, e)
        /\ cut.heap = m2.heap /\ cut.fds = m2.fds /\ cut.status = m2.status
    BY <1>3 DEF MmTypeOK, IsMm
  <1> HIDE DEF cut
  <1>10. MmTypeOK(cut) BY <1>3, <1>6, <1>7, <1>9 DEF MmTypeOK
  <1>11. /\ MmTypeOK(w) /\ w.areas = left /\ w.status = cut.status
         /\ cut.heap # NULL => w.heap # NULL
         /\ w.heap \in Addr => w.heap = cut.heap /\ \A r \in gone : r.start # cut.heap
    BY <1>9, <1>10, VmaRemoveFields
  <1>12. WellFormed(w.areas) /\ PairwiseDisjoint(w.areas)
    BY <1>3, <1>6, <1>11, DisjointSubset DEF Sound
  <1>13. HeapLinked(w)
    <2>1. SUFFICES ASSUME w.heap \in Addr PROVE \E r \in w.areas : r.start = w.heap
      BY DEF HeapLinked
    <2>2. PICK r \in m2.areas : r.start = m2.heap
      BY <1>3, <1>9, <1>11, <2>1 DEF Sound, HeapLinked
    <2>3. r \in left BY <1>8, <1>9, <1>11, <2>1, <2>2
    <2> QED BY <1>9, <1>11, <2>1, <2>2, <2>3
  <1>14. w = MunmapRange(m, a, e) BY DEF MunmapRange, cut, left, gone, m2, m1
  <1> HIDE DEF w
  <1> QED BY <1>2, <1>3, <1>5, <1>9, <1>11, <1>12, <1>13, <1>14 DEF Sound

\* syscall_munmap leaves sound areas and clears its range.
LEMMA MunmapSound ==
  ASSUME NEW m, MmTypeOK(m), Sound(m), NEW a \in Addr, NEW length \in Addr,
         ~MunmapInvalid(a, length), Cardinality(Fds \ m.fds) >= 2
  PROVE  /\ MmTypeOK(Munmap(m, a, length)) /\ Sound(Munmap(m, a, length))
         /\ Munmap(m, a, length).status = m.status
         /\ m.heap # NULL => Munmap(m, a, length).heap # NULL
         /\ \A q \in Munmap(m, a, length).areas :
               q.end <= a \/ a + length <= q.start
  <1> DEFINE e == a + PAGE_ALIGN(length)
  <1>1. length # 0 /\ length <= kernel_min_address - a
    BY PageAssumption, LayoutAssumption DEF MunmapInvalid, Addr
  <1>2. /\ PAGE_ALIGN(length) \in Addr /\ PAGE_ALIGN(length) < length + PAGE_SIZE
        /\ length <= PAGE_ALIGN(length)
    BY <1>1, PageAlignType, PageAssumption, LayoutAssumption DEF Addr
  <1>3. e \in Addr /\ a < e /\ a + length <= e
    BY <1>1, <1>2, PageAssumption, LayoutAssumption DEF Addr
  <1>4. \A q \in m.areas : q.start \in Addr /\ q.end \in Addr
    BY DEF MmTypeOK, AreaTypeOK
  <1> HIDE DEF e
  <1>5. CASE Overlapped(m.areas, a, e)
    <2>1. EndingAbove(m.areas, a) # {} BY <1>5 DEF Overlapped, EndingAbove
    <2>2. Munmap(m, a, length) = MunmapRange(m, a, e) BY <1>5 DEF Munmap, e
    <2>3. MmTypeOK(MunmapRange(m, a, e)) BY <1>3, <2>1, MunmapRangeSound
    <2>4. \A q \in MunmapRange(m, a, e).areas :
             q.start \in Addr /\ (q.end <= a \/ e <= q.start)
      BY <1>3, <2>1, <2>3, MunmapRangeSound DEF MmTypeOK, AreaTypeOK
    <2>5. \A q \in MunmapRange(m, a, e).areas : q.end <= a \/ a + length <= q.start
      BY <1>3, <2>4, PageAssumption DEF Addr
    <2> QED BY <1>3, <2>1, <2>2, <2>5, MunmapRangeSound
  <1>6. CASE ~Overlapped(m.areas, a, e)
    <2>1. Munmap(m, a, length) = m BY <1>6 DEF Munmap, e
    <2>2. \A q \in m.areas : q.end <= a \/ a + length <= q.start
      BY <1>3, <1>4, <1>6, PageAssumption DEF Overlapped, Addr
    <2> QED BY <2>1, <2>2
  <1> QED BY <1>5, <1>6

-----------------------------------------------------------------------------
(***************************************************************************)
(* vma_merge and mmap_region.                                              *)
(***************************************************************************)

\* w is a sound state after m in which an area starts at `at`.
Placed(w, at, m) ==
    /\ MmTypeOK(w) /\ Sound(w) /\ w.status = m.status
    /\ m.heap # NULL => w.heap # NULL
    /\ at \in Addr /\ \E r \in w.areas : r.start = at

\* Case 1: the range between p and q is filled and q is removed.
LEMMA MergeBothSound ==
  ASSUME NEW m, MmTypeOK(m), Sound(m), NEW p \in m.areas, NEW q \in m.areas,
         NEW n, p.end = n.start, q.start = n.end, n.start < n.end,
         FreeFor(m.areas, n)
  PROVE  Placed(MergeBoth(m, p, q), p.start, m)
  <1> DEFINE g == [p EXCEPT !.end = q.end]
             S == m.areas \ {p, q}
             k == [m EXCEPT !.areas = S \cup {g}]
             mapped == MapVma(k, g)
             done == VmaRemove(mapped, {q})
             w == MergeBoth(m, p, q)
  <1>1. AreaTypeOK(p) /\ AreaTypeOK(q) /\ \A r \in m.areas : AreaTypeOK(r)
    BY DEF MmTypeOK
  <1>2. AreaTypeOK(g) /\ g.start = p.start /\ g.end = q.end
    BY <1>1 DEF AreaTypeOK
  <1> HIDE DEF g
  <1>3. \A r \in m.areas : r.start \in Int /\ r.end \in Int
    BY <1>1, PageAssumption DEF AreaTypeOK, Addr
  <1>4. p.start < p.end /\ q.start < q.end BY DEF Sound, WellFormed
  <1>5. g.start < g.end BY <1>2, <1>3, <1>4
  <1>6. FreeFor(S, g)
    <2>1. SUFFICES ASSUME NEW r \in S PROVE r.end <= p.start \/ q.end <= r.start
      BY <1>2 DEF FreeFor
    <2>2. /\ r.end <= p.start \/ p.end <= r.start
          /\ r.end <= q.start \/ q.end <= r.start
          /\ r.end <= n.start \/ n.end <= r.start
          /\ r.start < r.end
      BY DEF Sound, PairwiseDisjoint, FreeFor, WellFormed
    <2> QED BY <1>3, <1>4, <2>2
  <1>7. /\ IsMm(k) /\ k.areas = S \cup {g} /\ k.highest = m.highest
        /\ k.heap = m.heap /\ k.fds = m.fds /\ k.status = m.status
    BY DEF MmTypeOK, IsMm
  <1> HIDE DEF k
  <1>8. MmTypeOK(k) BY <1>1, <1>2, <1>7 DEF MmTypeOK
  <1>9. WellFormed(k.areas) /\ PairwiseDisjoint(k.areas)
    BY <1>5, <1>6, <1>7, DisjointSubset, DisjointAdd DEF Sound
  <1>10. g \in k.areas BY <1>7
  <1>11. /\ MmTypeOK(mapped) /\ mapped.heap = m.heap /\ mapped.status = m.status
         /\ WellFormed(mapped.areas) /\ PairwiseDisjoint(mapped.areas)
         /\ \A r \in k.areas : \E s \in mapped.areas : s.start = r.start
    <2>1. MmTypeOK(mapped) /\ mapped.heap = k.heap /\ mapped.status = k.status
      BY <1>8, <1>10, MapVmaFields
    <2>2. /\ WellFormed(mapped.areas) /\ PairwiseDisjoint(mapped.areas)
          /\ \A r \in k.areas : \E s \in mapped.areas : s.start = r.start
      BY <1>8, <1>9, <1>10, MapVmaSound
    <2> QED BY <1>7, <2>1, <2>2
  <1> HIDE DEF mapped
  <1>12. /\ MmTypeOK(done) /\ done.areas = mapped.areas /\ done.status = m.status
         /\ m.heap # NULL => done.heap # NULL
         /\ done.heap \in Addr => done.heap = m.heap /\ q.start # m.heap
    BY <1>11, VmaRemoveFields
  <1> HIDE DEF done
  <1>13. HeapLinked(done)
    <2>1. SUFFICES ASSUME done.heap \in Addr
                   PROVE  \E r \in done.areas : r.start = m.heap
      BY <1>12 DEF HeapLinked
    <2>2. PICK r \in m.areas : r.start = m.heap
      BY <1>12, <2>1 DEF Sound, HeapLinked
    <2>3. \E s \in k.areas : s.start = m.heap BY <1>2, <1>7, <1>12, <2>1, <2>2
    <2> QED BY <1>11, <1>12, <2>3
  <1>14. \/ w = done
         \/ w = [done EXCEPT !.highest = q.end]
    BY DEF MergeBoth, done, mapped, k, g
  <1>15. /\ IsMm(w) /\ w.areas = done.areas /\ w.heap = done.heap
         /\ w.fds = done.fds /\ w.status = done.status /\ w.highest \in Addr
    BY <1>1, <1>12, <1>14 DEF MmTypeOK, IsMm, AreaTypeOK
  <1> HIDE DEF w
  <1>16. MmTypeOK(w) BY <1>12, <1>15 DEF MmTypeOK
  <1>17. Sound(w) BY <1>11, <1>12, <1>13, <1>15 DEF Sound, HeapLinked
  <1>18. \E r \in w.areas : r.start = p.start BY <1>2, <1>7, <1>11, <1>12, <1>15
  <1>19. p.start \in Addr BY <1>1 DEF AreaTypeOK
  <1> QED BY <1>12, <1>15, <1>16, <1>17, <1>18, <1>19 DEF Placed, w

\* Case 2: p grows up over the range.
LEMMA MergeUpSound ==
  ASSUME NEW m, MmTypeOK(m), Sound(m), NEW p \in m.areas,
         NEW n, AreaTypeOK(n), p.end = n.start, n.start < n.end, FreeFor(m.areas, n)
  PROVE  Placed(MergeUp(m, p, n), p.start, m)
  <1> DEFINE g == [p EXCEPT !.end = n.end]
             S == m.areas \ {p}
             top == IF After(m.areas, n.end) # {} THEN m.highest ELSE n.end
             k == [m EXCEPT !.areas = S \cup {g}, !.highest = top]
             w == MapVma(k, g)
  <1>1. AreaTypeOK(p) /\ \A r \in m.areas : AreaTypeOK(r) BY DEF MmTypeOK
  <1>2. AreaTypeOK(g) /\ g.start = p.start /\ g.end = n.end
    BY <1>1 DEF AreaTypeOK
  <1>3. top \in Addr BY DEF MmTypeOK, AreaTypeOK
  <1> HIDE DEF g, top
  <1>4. /\ \A r \in m.areas : r.start \in Int /\ r.end \in Int
        /\ n.start \in Int /\ n.end \in Int
    BY <1>1, PageAssumption DEF AreaTypeOK, Addr
  <1>5. p.start < p.end BY DEF Sound, WellFormed
  <1>6. g.start < g.end BY <1>2, <1>4, <1>5
  <1>7. FreeFor(S, g)
    <2>1. SUFFICES ASSUME NEW r \in S PROVE r.end <= p.start \/ n.end <= r.start
      BY <1>2 DEF FreeFor
    <2>2. /\ r.end <= p.start \/ p.end <= r.start
          /\ r.end <= n.start \/ n.end <= r.start
          /\ r.start < r.end
      BY DEF Sound, PairwiseDisjoint, FreeFor, WellFormed
    <2> QED BY <1>4, <1>5, <2>2
  <1>8. /\ IsMm(k) /\ k.areas = S \cup {g} /\ k.highest = top
        /\ k.heap = m.heap /\ k.fds = m.fds /\ k.status = m.status
    BY DEF MmTypeOK, IsMm
  <1> HIDE DEF k
  <1>9. MmTypeOK(k) BY <1>1, <1>2, <1>3, <1>8 DEF MmTypeOK
  <1>10. WellFormed(k.areas) /\ PairwiseDisjoint(k.areas)
    BY <1>6, <1>7, <1>8, DisjointSubset, DisjointAdd DEF Sound
  <1>11. HeapLinked(k) BY <1>2, <1>8 DEF Sound, HeapLinked
  <1>12. g \in k.areas BY <1>8
  <1>13. MmTypeOK(w) /\ w.heap = k.heap /\ w.status = k.status
    BY <1>9, <1>12, MapVmaFields
  <1>14. Sound(w) /\ \E r \in w.areas : r.start = g.start
    BY <1>9, <1>10, <1>11, <1>12, MapVmaSound DEF Sound
  <1>15. p.start \in Addr BY <1>1 DEF AreaTypeOK
  <1>16. w = MergeUp(m, p, n) BY DEF MergeUp, k, g, top
  <1> HIDE DEF w
  <1> QED BY <1>2, <1>8, <1>13, <1>14, <1>15, <1>16 DEF Placed

\* Case 3: q grows down over the range.
LEMMA MergeDownSound ==
  ASSUME NEW m, MmTypeOK(m), Sound(m), NEW q \in m.areas,
         NEW n, AreaTypeOK(n), q.start = n.end, n.start < n.end, FreeFor(m.areas, n)
  PROVE  Placed(MergeDown(m, q, n), n.start, m)
  <1> DEFINE g == [q EXCEPT !.start = n.start,
                            !.off = @ - PgLen(n.start, n.end, n.fd)]
             S == m.areas \ {q}
             k == [m EXCEPT !.areas = (@ \ {q}) \cup {g},
                            !.heap = IF @ = q.start THEN n.start ELSE @]
             w == MapVma(k, g)
  <1>1. AreaTypeOK(q) /\ \A r \in m.areas : AreaTypeOK(r) BY DEF MmTypeOK
  <1>2. PgLen(n.start, n.end, n.fd) \in Int BY PgLenType DEF AreaTypeOK
  <1>3. AreaTypeOK(g) /\ g.start = n.start /\ g.end = q.end
    BY <1>1, <1>2 DEF AreaTypeOK
  <1> HIDE DEF g
  <1>4. /\ \A r \in m.areas : r.start \in Int /\ r.end \in Int
        /\ n.start \in Int /\ n.end \in Int
    BY <1>1, PageAssumption DEF AreaTypeOK, Addr
  <1>5. q.start < q.end BY DEF Sound, WellFormed
  <1>6. g.start < g.end BY <1>3, <1>4, <1>5
  <1>7. FreeFor(S, g)
    <2>1. SUFFICES ASSUME NEW r \in S PROVE r.end <= n.start \/ q.end <= r.start
      BY <1>3 DEF FreeFor
    <2>2. /\ r.end <= q.start \/ q.end <= r.start
          /\ r.end <= n.start \/ n.end <= r.start
          /\ r.start < r.end
      BY DEF Sound, PairwiseDisjoint, FreeFor, WellFormed
    <2> QED BY <1>4, <1>5, <2>2
  <1>8. /\ IsMm(k) /\ k.areas = S \cup {g} /\ k.highest = m.highest
        /\ k.heap = (IF m.heap = q.start THEN n.start ELSE m.heap)
        /\ k.fds = m.fds /\ k.status = m.status
    BY DEF MmTypeOK, IsMm
  <1> HIDE DEF k
  <1>9. n.start \in Addr /\ NULL \notin Addr
    BY PageAssumption DEF AreaTypeOK, NULL, Addr
  <1>10. MmTypeOK(k) BY <1>1, <1>3, <1>8, <1>9 DEF MmTypeOK
  <1>11. WellFormed(k.areas) /\ PairwiseDisjoint(k.areas)
    BY <1>6, <1>7, <1>8, DisjointSubset, DisjointAdd DEF Sound
  <1>12. HeapLinked(k) BY <1>3, <1>8 DEF Sound, HeapLinked
  <1>13. g \in k.areas BY <1>8
  <1>14. MmTypeOK(w) /\ w.heap = k.heap /\ w.status = k.status
    BY <1>10, <1>13, MapVmaFields
  <1>15. Sound(w) /\ \E r \in w.areas : r.start = g.start
    BY <1>10, <1>11, <1>12, <1>13, MapVmaSound DEF Sound
  <1>16. w = MergeDown(m, q, n) BY DEF MergeDown, k, g
  <1> HIDE DEF w
  <1> QED BY <1>3, <1>8, <1>9, <1>14, <1>15, <1>16 DEF Placed

\* Linking or merging an area whose range is free.
LEMMA MergeOrLinkSound ==
  ASSUME NEW m, MmTypeOK(m), Sound(m),
         NEW n, AreaTypeOK(n), n.start < n.end, FreeFor(m.areas, n)
  PROVE  Placed(MergeOrLink(m, n).m, MergeOrLink(m, n).at, m)
  <1> DEFINE P == {p \in m.areas : MergesAfter(p, n)}
             Q == {q \in m.areas : MergesBefore(q, n)}
             p == CHOOSE r \in P : TRUE
             q == CHOOSE r \in Q : TRUE
  <1>1. P # {} => p \in m.areas /\ p.end = n.start BY DEF MergesAfter
  <1>2. Q # {} => q \in m.areas /\ q.start = n.end BY DEF MergesBefore
  <1> HIDE DEF P, Q, p, q
  <1>3. CASE P # {} /\ Q # {}
    <2>1. MergeOrLink(m, n) = [m |-> MergeBoth(m, p, q), at |-> p.start]
      BY <1>3 DEF MergeOrLink, P, Q, p, q
    <2>2. Placed(MergeBoth(m, p, q), p.start, m)
      BY <1>1, <1>2, <1>3, MergeBothSound
    <2> QED BY <2>1, <2>2
  <1>4. CASE P # {} /\ Q = {}
    <2>1. MergeOrLink(m, n) = [m |-> MergeUp(m, p, n), at |-> p.start]
      BY <1>4 DEF MergeOrLink, P, Q, p, q
    <2>2. Placed(MergeUp(m, p, n), p.start, m) BY <1>1, <1>4, MergeUpSound
    <2> QED BY <2>1, <2>2
  <1>5. CASE P = {} /\ Q # {}
    <2>1. MergeOrLink(m, n) = [m |-> MergeDown(m, q, n), at |-> n.start]
      BY <1>5 DEF MergeOrLink, P, Q, p, q
    <2>2. Placed(MergeDown(m, q, n), n.start, m) BY <1>2, <1>5, MergeDownSound
    <2> QED BY <2>1, <2>2
  <1>6. CASE P = {} /\ Q = {}
    <2>1. MergeOrLink(m, n) = [m |-> VmaLink(m, n), at |-> n.start]
      BY <1>6 DEF MergeOrLink, P, Q, p, q
    <2>2. n.start \in Addr BY DEF AreaTypeOK
    <2>3. Placed(VmaLink(m, n), n.start, m) BY <2>2, VmaLinkSound DEF Placed
    <2> QED BY <2>1, <2>3
  <1> QED BY <1>3, <1>4, <1>5, <1>6

\* mmap_region refuses, links a wrapped range (the model's "corrupt"), or
\* places the area in a range that munmap has cleared.
LEMMA MmapRegionSound ==
  ASSUME NEW m, MmTypeOK(m), Sound(m), Cardinality(Fds \ m.fds) >= 2,
         NEW n, AreaTypeOK(n), NEW length \in Addr, n.end = Add(n.start, length)
  PROVE  LET R == MmapRegion(m, n, length)
         IN  \/ R.m = m /\ MunmapInvalid(n.start, length)
             \/ MmTypeOK(R.m) /\ R.m.status = "corrupt" /\ n.end <= n.start
             \/ Placed(R.m, R.at, m)
  <1> DEFINE busy == Overlapped(m.areas, n.start, n.end)
             clear == IF busy THEN Munmap(m, n.start, length) ELSE m
             R == MmapRegion(m, n, length)
             bad == [clear EXCEPT !.areas = @ \cup {n}, !.status = "corrupt"]
  <1>1. CASE busy /\ MunmapInvalid(n.start, length)
    <2>1. R.m = m BY <1>1 DEF MmapRegion
    <2> QED BY <1>1, <2>1
  <1>2. CASE ~(busy /\ MunmapInvalid(n.start, length))
    <2>0. n.start \in Addr /\ n.end \in Addr BY DEF AreaTypeOK
    <2>1. busy => /\ MmTypeOK(clear) /\ Sound(clear) /\ clear.status = m.status
                  /\ m.heap # NULL => clear.heap # NULL
                  /\ \A q \in clear.areas :
                        q.end <= n.start \/ n.start + length <= q.start
      BY <1>2, <2>0, MunmapSound
    <2>2. ~busy => clear = m OBVIOUS
    <2>3. R = IF n.end <= n.start THEN [m |-> bad, at |-> n.start]
              ELSE MergeOrLink(clear, n)
      BY <1>2 DEF MmapRegion
    <2>4. busy => n.end = n.start + length
      <3>1. SUFFICES ASSUME busy PROVE n.end = n.start + length OBVIOUS
      <3>2. length <= kernel_min_address - n.start
        BY <1>2, <2>0, <3>1, PageAssumption, LayoutAssumption DEF MunmapInvalid, Addr
      <3>3. n.start + length < WORD
        BY <2>0, <3>2, PageAssumption, LayoutAssumption DEF Addr
      <3> QED BY <3>3 DEF Add
    <2>5. ~busy => \A q \in m.areas : q.end <= n.start \/ n.end <= q.start
      <3>1. \A q \in m.areas : q.start \in Addr /\ q.end \in Addr
        BY DEF MmTypeOK, AreaTypeOK
      <3> QED BY <2>0, <3>1, PageAssumption DEF Overlapped, Addr
    <2> HIDE DEF busy, clear, R
    <2>6. /\ MmTypeOK(clear) /\ Sound(clear) /\ clear.status = m.status
          /\ m.heap # NULL => clear.heap # NULL
          /\ FreeFor(clear.areas, n)
      BY <2>1, <2>2, <2>4, <2>5 DEF FreeFor
    <2>7. CASE n.end <= n.start
      <3>1. /\ IsMm(bad) /\ bad.areas = clear.areas \cup {n} /\ bad.status = "corrupt"
            /\ bad.highest = clear.highest /\ bad.heap = clear.heap
            /\ bad.fds = clear.fds
        BY <2>6 DEF MmTypeOK, IsMm
      <3> HIDE DEF bad
      <3>2. MmTypeOK(bad) BY <2>6, <3>1 DEF MmTypeOK
      <3>3. R.m = bad BY <2>3, <2>7
      <3> QED BY <2>7, <3>1, <3>2, <3>3 DEF R
    <2>8. CASE ~(n.end <= n.start)
      <3>1. n.start < n.end BY <2>0, <2>8, PageAssumption DEF Addr
      <3>2. Placed(MergeOrLink(clear, n).m, MergeOrLink(clear, n).at, clear)
        BY <2>6, <3>1, MergeOrLinkSound
      <3>3. R = MergeOrLink(clear, n) BY <2>3, <2>8
      <3> QED BY <2>6, <3>2, <3>3 DEF Placed, R
    <2> QED BY <2>7, <2>8
  <1> QED BY <1>1, <1>2

-----------------------------------------------------------------------------
(***************************************************************************)
(* The actions.                                                            *)
(***************************************************************************)

\* Init satisfies the invariant.
LEMMA IInvInit == Init => IInv
  <1> SUFFICES ASSUME Init PROVE IInv OBVIOUS
  <1>1. /\ IsMm(Mm) /\ Mm.areas = BootAreas /\ Mm.highest = user_stack_start
        /\ Mm.heap = NULL /\ Mm.fds = BootFds /\ Mm.status = "run"
    BY DEF Init, Mm, IsMm
  <1>2. MmTypeOK(Mm)
    <2>1. user_stack_start \in Addr BY PageAssumption, LayoutAssumption DEF Addr
    <2> QED BY <1>1, <2>1, BootAssumption DEF MmTypeOK
  <1>3. Sound(Mm)
    <2>1. NULL \notin Addr BY PageAssumption DEF NULL, Addr
    <2> QED BY <1>1, <2>1, BootAssumption DEF Sound, HeapLinked
  <1>4. brk \in Addr BY PageAssumption, LayoutAssumption DEF Init, Addr
  <1> QED BY <1>2, <1>3, <1>4 DEF IInv, Init

\* What a running machine may rely on.
LEMMA RunningSound ==
  ASSUME IInv, Running
  PROVE  /\ MmTypeOK(Mm) /\ Sound(Mm) /\ Mm.status = "run" /\ Mm.fds = fds
         /\ Mm.heap = heap /\ Mm.areas = areas
         /\ Cardinality(Fds \ fds) >= 3 /\ brk \in Addr
         /\ brk # 0 => heap # NULL
  <1>1. /\ Mm.status = status /\ Mm.fds = fds /\ Mm.heap = heap /\ Mm.areas = areas
    BY DEF Mm
  <1> QED BY <1>1 DEF IInv, Running

\* A step that commits m establishes the invariant if m is typed and, when
\* the machine goes on, sound.
LEMMA CommitSound ==
  ASSUME NEW m, MmTypeOK(m), Commit(m), brk' \in Addr,
         m.status = "run" => Sound(m) /\ (brk' # 0 => m.heap # NULL)
  PROVE  IInv'
  <1>1. /\ areas' = m.areas /\ highest' = m.highest /\ heap' = m.heap
        /\ fds' = m.fds /\ status' = m.status
    BY DEF Commit
  <1>2. /\ IsMm(Mm') /\ Mm'.areas = m.areas /\ Mm'.highest = m.highest
        /\ Mm'.heap = m.heap /\ Mm'.fds = m.fds /\ Mm'.status = m.status
    BY <1>1 DEF Mm, IsMm
  <1>3. MmTypeOK(Mm') BY <1>2 DEF MmTypeOK
  <1>4. m.status = "run" => Sound(Mm') BY <1>2 DEF Sound, HeapLinked
  <1> QED BY <1>1, <1>3, <1>4 DEF IInv

\* get_unmapped_area returns an address.
LEMMA FindNextGapType ==
  ASSUME NEW m, MmTypeOK(m), NEW length \in Addr
  PROVE  FindNextGap(m, length) \in Addr
  <1> DEFINE high == user_stack_min - length
             gaps == {r \in m.areas : /\ PrevEnd(m.areas, r) <= high
                                      /\ r.start - PrevEnd(m.areas, r) >= length}
             top == Highest(gaps).start
  <1>1. \A r \in m.areas : r.start \in Addr /\ r.end \in Addr
    BY DEF MmTypeOK, AreaTypeOK
  <1>2. \A r \in m.areas : PrevEnd(m.areas, r) \in Nat
    <2> TAKE r \in m.areas
    <2> DEFINE B == Before(m.areas, r.start)
    <2>1. B \subseteq m.areas BY DEF Before
    <2>2. B # {} => Highest(B) \in B BY <1>1, <2>1, HighestExists
    <2>3. B # {} => Highest(B).end \in Nat BY <1>1, <2>1, <2>2, PageAssumption DEF Addr
    <2> QED BY <2>3 DEF PrevEnd
  <1>3. \A r \in gaps : r.start \in Addr /\ r.start >= length
    BY <1>1, <1>2, PageAssumption DEF Addr
  <1>4. gaps # {} => Highest(gaps) \in gaps BY <1>3, HighestExists
  <1>5. gaps # {} => top \in Addr /\ top >= length BY <1>3, <1>4
  <1>6. user_stack_min \in Addr
    <2>1. user_stack_page_limit * PAGE_SIZE \in Nat
      BY PageAssumption, LayoutAssumption
    <2> QED BY <2>1, PageAssumption, LayoutAssumption DEF user_stack_min, Addr
  <1>7. Neg(ENOMEM) \in Addr BY PageAssumption DEF Neg, Addr
  <1>8. ~(user_stack_min < length) => high \in Addr
    BY <1>6, PageAssumption DEF Addr
  <1>9. gaps # {} /\ ~(user_stack_min < length) =>
          (IF top > user_stack_min THEN user_stack_min ELSE top) - length \in Addr
    BY <1>5, <1>6, PageAssumption DEF Addr
  <1>10. FindNextGap(m, length) =
           IF user_stack_min < length THEN Neg(ENOMEM)
           ELSE IF m.highest <= high THEN high
           ELSE IF gaps = {} THEN Neg(ENOMEM)
           ELSE (IF top > user_stack_min THEN user_stack_min ELSE top) - length
    BY DEF FindNextGap
  <1> HIDE DEF high, gaps, top
  <1> QED BY <1>7, <1>8, <1>9, <1>10

\* get_unmapped_area returns an address, errors included: they are the last
\* addresses of the address space.
LEMMA GetUnmappedAreaType ==
  ASSUME NEW m, MmTypeOK(m), NEW addr \in Addr, NEW length \in Addr, NEW fixed,
         NEW a \in GetUnmappedArea(m, addr, length, fixed)
  PROVE  a \in Addr
  <1>1. CASE fixed BY <1>1 DEF GetUnmappedArea
  <1>2. CASE ~fixed
    <2> DEFINE h == PAGE_ALIGN(addr)
    <2>1. PICK b \in UnmappedAreaUnchecked(m, addr, length) : a = CheckedArea(b, length)
      BY <1>2 DEF GetUnmappedArea
    <2>2. h \in Addr BY PageAlignType
    <2>3. kernel_min_address \in Addr
      BY PageAssumption, LayoutAssumption DEF Addr
    <2>4. Sub(kernel_min_address, length) \in Addr /\ Add(h, length) \in Addr
      BY <2>2, <2>3, AddSubType
    <2>5. \A r \in EndingAbove(m.areas, h) : r.start \in Addr
      BY DEF EndingAbove, MmTypeOK, AreaTypeOK
    <2>6. EndingAbove(m.areas, h) # {} => VmaFind(m.areas, h).start \in Addr
      BY <2>5, LowestExists DEF VmaFind
    <2> HIDE DEF h
    <2>7. CASE addr = 0
      BY <2>1, <2>7, FindNextGapType, PageAssumption
      DEF UnmappedAreaUnchecked, CheckedArea, Neg, Addr
    <2>8. CASE addr # 0 /\ HintIsFree(m, h, length)
      <3>1. b = h BY <2>1, <2>8 DEF UnmappedAreaUnchecked, h
      <3> QED BY <2>1, <2>2, <3>1, PageAssumption DEF CheckedArea, Neg, Addr
    <2>9. CASE addr # 0 /\ ~HintIsFree(m, h, length)
      <3>1. b \in LeftInRax(m, h, length) BY <2>1, <2>9 DEF UnmappedAreaUnchecked, h
      <3>2. b \in Addr
        <4>1. CASE Sub(kernel_min_address, length) < h
          BY <2>4, <3>1, <4>1 DEF LeftInRax
        <4>2. CASE ~(Sub(kernel_min_address, length) < h)
          <5>1. Sub(kernel_min_address, length) >= h
            BY <2>2, <2>4, <4>2, PageAssumption DEF Addr
          <5>2. EndingAbove(m.areas, h) # {} BY <2>9, <5>1 DEF HintIsFree
          <5> QED BY <2>4, <2>6, <3>1, <4>2, <5>2 DEF LeftInRax
        <4> QED BY <4>1, <4>2
      <3> QED BY <2>1, <3>2, PageAssumption DEF CheckedArea, Neg, Addr
    <2> QED BY <2>7, <2>8, <2>9
  <1> QED BY <1>1, <1>2

\* The area an mmap call asks for has its type.
LEMMA NewAreaType ==
  ASSUME NEW c \in MmapCalls, NEW a \in Addr, NEW fd \in Fds \cup {NoFd}
  PROVE  /\ AreaTypeOK(NewArea(c, a, fd))
         /\ NewArea(c, a, fd).start = a
         /\ NewArea(c, a, fd).end = Add(a, PAGE_ALIGN(c.length))
  <1> DEFINE n == NewArea(c, a, fd)
  <1>1. c.length \in Addr /\ c.off \in Int /\ c.prot \subseteq {"READ", "WRITE", "EXEC"}
    BY MmapCallsAssumption
  <1>2. Add(a, PAGE_ALIGN(c.length)) \in Addr BY <1>1, PageAlignType, AddSubType
  <1>3. n.start = a /\ n.end = Add(a, PAGE_ALIGN(c.length)) /\ n.fd = fd
    BY DEF NewArea
  <1>4. n.off \in Int BY <1>1 DEF NewArea
  <1>5. n.file \in Int
    <2>1. c.fd \in Fds \cup {NoFd} BY MmapCallsAssumption
    <2>2. c.fd # NoFd => FileOf(c.fd) \in Int BY <2>1, CallsAssumption
    <2>3. n.file = IF c.fd = NoFd THEN NoFile ELSE FileOf(c.fd) BY DEF NewArea
    <2> QED BY <2>2, <2>3 DEF NoFile
  <1>6. n.prot \subseteq {"READ", "WRITE", "EXEC", "VERSIONED"} BY <1>1 DEF NewArea
  <1>7. n.flags \subseteq {"GROWS", "SHARED"} BY DEF NewArea
  <1>8. DOMAIN n = {"start", "end", "prot", "flags", "off", "file", "fd", "hv"}
    BY DEF NewArea
  <1> HIDE DEF n
  <1> QED BY <1>2, <1>3, <1>4, <1>5, <1>6, <1>7, <1>8 DEF AreaTypeOK, n

\* syscall_mmap keeps the invariant.
LEMMA SysMmapStep ==
  ASSUME IInv, NEW c \in MmapCalls, SysMmap(c)
  PROVE  IInv'
  <1> DEFINE length == PAGE_ALIGN(c.length)
             fd == Dup(fds, c.fd)
             opened == [Mm EXCEPT !.fds = @ \cup ({fd} \ {NoFd})]
  <1>1. Running /\ brk' = brk BY DEF SysMmap
  <1>2. /\ MmTypeOK(Mm) /\ Sound(Mm) /\ Mm.status = "run" /\ Mm.fds = fds
        /\ Mm.heap = heap /\ Cardinality(Fds \ fds) >= 3 /\ brk \in Addr
        /\ brk # 0 => heap # NULL
    BY <1>1, RunningSound
  <1>3. c.length \in Addr /\ c.addr \in Addr /\ c.fd \in Fds \cup {NoFd}
    BY MmapCallsAssumption
  <1>4. length \in Addr BY <1>3, PageAlignType
  <1>5. fd \in Fds \cup {NoFd}
    <2>1. Fds \ fds # {} BY <1>2, SpareExists
    <2> QED BY <1>3, <2>1, DupType
  <1>6. PICK a \in GetUnmappedArea(Mm, c.addr, length, c.fixed) :
          IF MapTypeInvalid(c) THEN Commit(opened)
          ELSE Commit(MmapRegion(opened, NewArea(c, a, fd), length).m)
    BY <1>2 DEF SysMmap, MmapAt
  <1>7. a \in Addr BY <1>2, <1>3, <1>4, GetUnmappedAreaType
  <1>8. /\ IsMm(opened) /\ opened.areas = Mm.areas /\ opened.highest = Mm.highest
        /\ opened.heap = Mm.heap /\ opened.status = Mm.status
        /\ opened.fds = Mm.fds \cup ({fd} \ {NoFd})
    BY <1>2 DEF MmTypeOK, IsMm
  <1> HIDE DEF opened, fd, length
  <1>9. MmTypeOK(opened)
    <2>1. opened.fds \subseteq Fds BY <1>2, <1>5, <1>8 DEF MmTypeOK
    <2> QED BY <1>2, <1>8, <2>1 DEF MmTypeOK
  <1>10. Sound(opened) BY <1>2, <1>8 DEF Sound, HeapLinked
  <1>11. CASE MapTypeInvalid(c)
    BY <1>1, <1>2, <1>6, <1>8, <1>9, <1>10, <1>11, CommitSound
  <1>12. CASE ~MapTypeInvalid(c)
    <2> DEFINE n == NewArea(c, a, fd)
               R == MmapRegion(opened, n, length)
    <2>1. AreaTypeOK(n) /\ n.end = Add(n.start, length)
      BY <1>5, <1>7, NewAreaType DEF length
    <2>2. Cardinality(Fds \ opened.fds) >= 2
      <3>1. opened.fds \subseteq fds \cup {fd} BY <1>2, <1>8
      <3>2. 2 \in Nat /\ Cardinality(Fds \ fds) >= 2 + 1 BY <1>2
      <3> QED BY <3>1, <3>2, SpareAfterOne
    <2> HIDE DEF n
    <2>3. \/ R.m = opened
          \/ MmTypeOK(R.m) /\ R.m.status = "corrupt"
          \/ Placed(R.m, R.at, opened)
      BY <1>4, <1>9, <1>10, <2>1, <2>2, MmapRegionSound
    <2>4. Commit(R.m) BY <1>6, <1>12 DEF n
    <2> HIDE DEF R
    <2>5. MmTypeOK(R.m) BY <1>9, <2>3 DEF Placed
    <2>6. R.m.status = "run" => Sound(R.m) /\ (brk' # 0 => R.m.heap # NULL)
      BY <1>1, <1>2, <1>8, <1>10, <2>3 DEF Placed
    <2> QED BY <1>1, <1>2, <2>4, <2>5, <2>6, CommitSound
  <1> QED BY <1>11, <1>12

\* syscall_munmap keeps the invariant.
LEMMA SysMunmapStep ==
  ASSUME IInv, NEW a \in Addr, NEW length \in Addr, SysMunmap(a, length)
  PROVE  IInv'
  <1>1. Running /\ ~MunmapInvalid(a, length) /\ brk' = brk
        /\ Commit(Munmap(Mm, a, length))
    BY DEF SysMunmap
  <1>2. /\ MmTypeOK(Mm) /\ Sound(Mm) /\ Mm.fds = fds /\ Mm.heap = heap
        /\ Cardinality(Fds \ fds) >= 3 /\ brk \in Addr
        /\ brk # 0 => heap # NULL
    BY <1>1, RunningSound
  <1>3. Cardinality(Fds \ Mm.fds) >= 2
    <2>1. 2 \in Nat /\ Cardinality(Fds \ fds) >= 2 + 1 BY <1>2
    <2> QED BY <1>2, <2>1, SpareAfterOne
  <1>4. /\ MmTypeOK(Munmap(Mm, a, length)) /\ Sound(Munmap(Mm, a, length))
        /\ Mm.heap # NULL => Munmap(Mm, a, length).heap # NULL
    BY <1>1, <1>2, <1>3, MunmapSound
  <1> QED BY <1>1, <1>2, <1>4, CommitSound

\* brk: the first call places the heap area, later ones move its end.
LEMMA SysBrkStep ==
  ASSUME IInv, NEW b \in Addr, SysBrk(b)
  PROVE  IInv'
  <1>1. Running BY DEF SysBrk
  <1>2. /\ MmTypeOK(Mm) /\ Sound(Mm) /\ Mm.status = "run" /\ Mm.fds = fds
        /\ Mm.heap = heap /\ Mm.areas = areas
        /\ Cardinality(Fds \ fds) >= 3 /\ brk \in Addr
        /\ brk # 0 => heap # NULL
    BY <1>1, RunningSound
  <1>3. CASE BrkStart
    <2> DEFINE n == FirstHeapArea
               R == MmapRegion(Mm, n, PAGE_SIZE)
               w == [R.m EXCEPT !.heap = R.at]
    <2>1. Commit(w) /\ brk' = user_heap_start BY <1>3 DEF BrkStart
    <2>2. /\ PAGE_SIZE \in Addr /\ user_heap_start \in Addr
          /\ user_heap_start + PAGE_SIZE \in Addr
      BY PageAssumption, LayoutAssumption DEF Addr
    <2>3. /\ AreaTypeOK(n) /\ n.start = user_heap_start
          /\ n.end = user_heap_start + PAGE_SIZE
      BY <2>2, PageAssumption DEF FirstHeapArea, AreaTypeOK, NoFile, NoFd, Fds
    <2> HIDE DEF n
    <2>4. n.end = Add(n.start, PAGE_SIZE)
      BY <2>2, <2>3, PageAssumption DEF Add, Addr
    <2>5. ~MunmapInvalid(n.start, PAGE_SIZE)
      BY <2>3, PageAssumption, LayoutAssumption DEF MunmapInvalid
    <2>6. ~(n.end <= n.start) BY <2>3, PageAssumption, LayoutAssumption
    <2>7. Cardinality(Fds \ Mm.fds) >= 2
      <3>1. 2 \in Nat /\ Cardinality(Fds \ fds) >= 2 + 1 BY <1>2
      <3> QED BY <1>2, <3>1, SpareAfterOne
    <2>8. Placed(R.m, R.at, Mm)
      BY <1>2, <2>2, <2>3, <2>4, <2>5, <2>6, <2>7, MmapRegionSound
    <2> HIDE DEF R
    <2>9. /\ IsMm(w) /\ w.areas = R.m.areas /\ w.highest = R.m.highest
          /\ w.heap = R.at /\ w.fds = R.m.fds /\ w.status = R.m.status
      BY <2>8 DEF Placed, MmTypeOK, IsMm
    <2> HIDE DEF w
    <2>10. MmTypeOK(w) BY <2>8, <2>9 DEF Placed, MmTypeOK
    <2>11. Sound(w) BY <2>8, <2>9 DEF Placed, Sound, HeapLinked
    <2>12. w.heap # NULL BY <2>8, <2>9, PageAssumption DEF Placed, NULL, Addr
    <2> QED BY <2>1, <2>2, <2>10, <2>11, <2>12, CommitSound
  <1>4. CASE BrkNullHeap(b) \/ BrkDangling(b)
    <2>1. /\ status' \in {"exit", "wild"} /\ brk' = brk
          /\ UNCHANGED <<areas, highest, heap, fds, host>>
      BY <1>4 DEF BrkNullHeap, BrkDangling
    <2>2. /\ IsMm(Mm') /\ Mm'.areas = areas /\ Mm'.highest = highest
          /\ Mm'.heap = heap /\ Mm'.fds = fds /\ Mm'.status = status'
      BY <2>1 DEF Mm, IsMm
    <2>3. /\ Mm.areas = areas /\ Mm.highest = highest
          /\ Mm.heap = heap /\ Mm.fds = fds
      BY DEF Mm
    <2>4. MmTypeOK(Mm') BY <1>2, <2>1, <2>2, <2>3 DEF MmTypeOK
    <2> QED BY <1>2, <2>1, <2>4 DEF IInv
  <1>5. CASE BrkGrow(b)
    <2> DEFINE e == PAGE_ALIGN(b)
               r == HeapVma(Mm)
               g == [r EXCEPT !.end = e]
               S == areas \ {r}
               k == [Mm EXCEPT !.areas = (@ \ {r}) \cup {g}]
               w == MapVma(k, g)
    <2>1. /\ brk # 0 /\ heap # DANGLING /\ BrkFits(r, e) /\ Commit(w) /\ brk' = e
      BY <1>5 DEF BrkGrow
    <2>2. e \in Addr BY PageAlignType
    <2>3. heap \in Addr BY <1>2, <2>1 DEF MmTypeOK
    <2>4. \E q \in Mm.areas : q.start = Mm.heap
      BY <1>2, <2>3 DEF Sound, HeapLinked
    <2>5. r \in areas /\ r.start = heap BY <1>2, <2>4 DEF HeapVma
    <2> HIDE DEF r, e
    <2>6. AreaTypeOK(r) /\ \A q \in areas : AreaTypeOK(q)
      BY <1>2, <2>5 DEF MmTypeOK
    <2>7. AreaTypeOK(g) /\ g.start = r.start /\ g.end = e
      BY <2>2, <2>6 DEF AreaTypeOK
    <2> HIDE DEF g
    <2>8. /\ \A q \in areas : q.start \in Int /\ q.end \in Int
          /\ e \in Int
      BY <2>2, <2>6, PageAssumption DEF AreaTypeOK, Addr
    <2>9. g.start < g.end BY <2>1, <2>5, <2>7, <2>8 DEF BrkFits
    <2>10. FreeFor(S, g)
      <3>1. SUFFICES ASSUME NEW q \in S PROVE q.end <= r.start \/ e <= q.start
        BY <2>7 DEF FreeFor
      <3>2. /\ q.end <= r.start \/ r.end <= q.start
            /\ r.start < r.end
        BY <1>2, <2>5 DEF Sound, PairwiseDisjoint, WellFormed
      <3>3. q.start > r.start => e <= q.start BY <2>1 DEF BrkFits
      <3> QED BY <2>5, <2>8, <3>2, <3>3
    <2>11. /\ IsMm(k) /\ k.areas = S \cup {g} /\ k.highest = Mm.highest
           /\ k.heap = heap /\ k.fds = Mm.fds /\ k.status = Mm.status
      BY <1>2 DEF MmTypeOK, IsMm
    <2> HIDE DEF k
    <2>12. MmTypeOK(k) BY <1>2, <2>6, <2>7, <2>11 DEF MmTypeOK
    <2>13. WellFormed(k.areas) /\ PairwiseDisjoint(k.areas)
      BY <1>2, <2>9, <2>10, <2>11, DisjointSubset, DisjointAdd DEF Sound
    <2>14. HeapLinked(k) BY <2>5, <2>7, <2>11 DEF HeapLinked
    <2>15. g \in k.areas BY <2>11
    <2>16. MmTypeOK(w) /\ w.heap = k.heap BY <2>12, <2>15, MapVmaFields
    <2>17. Sound(w) BY <2>12, <2>13, <2>14, <2>15, MapVmaSound DEF Sound
    <2> HIDE DEF w
    <2> QED BY <1>2, <2>1, <2>2, <2>11, <2>16, <2>17, CommitSound
  <1> QED BY <1>3, <1>4, <1>5 DEF SysBrk

\* Rounding down leaves a whole number of pages.
LEMMA WholePages ==
  ASSUME NEW x \in Nat
  PROVE  x - (x % PAGE_SIZE) = PAGE_SIZE * (x \div PAGE_SIZE)
  BY PageAssumption

\* A rounded address below the first page boundary is 0.
LEMMA PageAlignSmall ==
  ASSUME NEW a \in Addr, PAGE_ALIGN(a) < PAGE_SIZE
  PROVE  PAGE_ALIGN(a) = 0
  <1> DEFINE y == a + PAGE_SIZE - 1
             z == y \div PAGE_SIZE
  <1>1. y \in Nat /\ z \in Nat BY PageAssumption DEF Addr
  <1>2. y - (y % PAGE_SIZE) = PAGE_SIZE * z BY <1>1, WholePages
  <1> HIDE DEF z
  <1>3. CASE y < WORD
    <2>1. PAGE_ALIGN(a) = PAGE_SIZE * z
      BY <1>1, <1>2, <1>3, PageAssumption DEF PAGE_ALIGN, PAGE_ALIGN_DOWN
    <2>2. z >= 1 => PAGE_SIZE * z >= PAGE_SIZE BY <1>1, PageAssumption
    <2>3. z = 0 BY <1>1, <2>1, <2>2, PageAssumption
    <2> QED BY <2>1, <2>3, PageAssumption
  <1>4. CASE y >= WORD
    BY <1>1, <1>4, PageAlignType, PageAssumption DEF Addr
  <1> QED BY <1>1, <1>3, <1>4, PageAssumption

\* The stack grows to or below the address that was touched, unless the
\* touch is too deep.
LEMMA GrownBelow ==
  ASSUME NEW a \in Addr, ~StackTooDeep(a)
  PROVE  GrownStart(a) \in Addr /\ GrownStart(a) <= a
  <1> DEFINE x == PAGE_ALIGN(a)
  <1>1. /\ x \in Addr /\ x < a + PAGE_SIZE
        /\ a + PAGE_SIZE > WORD => x = 0
    BY PageAlignType
  <1>2. PAGE_SIZE \in Addr BY PageAssumption, LayoutAssumption DEF Addr
  <1>3. GrownStart(a) \in Addr BY <1>1, <1>2, AddSubType DEF GrownStart
  <1>4. CASE x >= PAGE_SIZE
    BY <1>1, <1>3, <1>4, PageAssumption DEF GrownStart, Sub, Addr
  <1>5. CASE x < PAGE_SIZE
    <2>1. x = 0 BY <1>5, PageAlignSmall
    <2>2. GrownStart(a) = WORD - PAGE_SIZE
      BY <2>1, PageAssumption DEF GrownStart, Sub
    <2>3. Sub(user_stack_start, WORD - PAGE_SIZE) = user_stack_start + PAGE_SIZE
      BY PageAssumption, LayoutAssumption DEF Sub
    <2>4. (user_stack_start + PAGE_SIZE) \div PAGE_SIZE
             = user_stack_start \div PAGE_SIZE + 1
      BY PageAssumption, LayoutAssumption
    <2>5. user_stack_page_limit <= user_stack_start \div PAGE_SIZE
      BY PageAssumption, LayoutAssumption
    <2>6. user_stack_start \div PAGE_SIZE \in Nat
      BY PageAssumption, LayoutAssumption
    <2>7. PAGE_DIFFERENCE(user_stack_start, GrownStart(a)) > user_stack_page_limit
      BY <2>2, <2>3, <2>4, <2>5, <2>6, LayoutAssumption DEF PAGE_DIFFERENCE
    <2> QED BY <2>7 DEF StackTooDeep
  <1> QED BY <1>1, <1>3, <1>4, <1>5, PageAssumption DEF Addr

\* The page fault handler keeps the invariant: a fault ends the program, grows
\* an area over free pages, or leaves overlapping areas and ends the model.
LEMMA UserPageFaultStep ==
  ASSUME IInv, NEW a \in Addr, UserPageFault(a)
  PROVE  IInv'
  <1>1. Running /\ brk' = brk BY DEF UserPageFault
  <1>2. /\ MmTypeOK(Mm) /\ Sound(Mm) /\ Mm.status = "run" /\ Mm.fds = fds
        /\ Mm.heap = heap /\ Mm.areas = areas /\ brk \in Addr
        /\ brk # 0 => heap # NULL
    BY <1>1, RunningSound
  <1>3. CASE FaultIsFatal(a)
    <2>1. status' = "exit" /\ UNCHANGED <<areas, highest, heap, fds, host>>
      BY <1>3 DEF UserPageFault
    <2>2. /\ IsMm(Mm') /\ Mm'.areas = areas /\ Mm'.highest = highest
          /\ Mm'.heap = heap /\ Mm'.fds = fds /\ Mm'.status = "exit"
      BY <2>1 DEF Mm, IsMm
    <2>3. Mm.highest = highest BY DEF Mm
    <2>4. MmTypeOK(Mm') BY <1>2, <2>2, <2>3 DEF MmTypeOK
    <2> QED BY <1>1, <1>2, <2>1, <2>4 DEF IInv
  <1>4. CASE ~FaultIsFatal(a)
    <2> DEFINE r == VmaFind(areas, a)
               s == GrownStart(a)
               g == [r EXCEPT !.start = s]
               S == areas \ {r}
               over == Overlapped(S, s, r.start)
               k == [Mm EXCEPT !.areas = (@ \ {r}) \cup {g},
                               !.heap = IF @ = r.start THEN s ELSE @,
                               !.status = IF over THEN "corrupt" ELSE @]
               w == MapVma(k, g)
    <2>1. /\ EndingAbove(areas, a) # {} /\ ~(r.start <= a)
          /\ ~StackTooDeep(a) /\ Commit(GrowStack(Mm, r, a))
      BY <1>4 DEF UserPageFault, FaultIsFatal
    <2>2. \A q \in areas : AreaTypeOK(q) BY <1>2 DEF MmTypeOK
    <2>3. EndingAbove(areas, a) \subseteq areas BY DEF EndingAbove
    <2>4. r \in areas
      <3>1. \A q \in EndingAbove(areas, a) : q.start \in Addr
        BY <2>2, <2>3 DEF AreaTypeOK
      <3> QED BY <2>1, <2>3, <3>1, LowestExists DEF VmaFind
    <2> HIDE DEF r
    <2>5. s \in Addr /\ s <= a BY <2>1, GrownBelow
    <2> HIDE DEF s
    <2>6. AreaTypeOK(g) /\ g.start = s /\ g.end = r.end
      BY <2>2, <2>4, <2>5 DEF AreaTypeOK
    <2>7. w = GrowStack(Mm, r, a)
      <3>1. GrowStack(Mm, r, a) =
              MapVma([Mm EXCEPT !.areas = (@ \ {r}) \cup {g},
                                !.heap = IF @ = r.start THEN g.start ELSE @,
                                !.status = IF Overlapped(Mm.areas \ {r}, g.start, r.start)
                                           THEN "corrupt" ELSE @], g)
        BY DEF GrowStack, s
      <3> HIDE DEF g
      <3> QED BY <1>2, <2>6, <3>1
    <2> HIDE DEF g
    <2>8. /\ \A q \in areas : q.start \in Int /\ q.end \in Int
          /\ s \in Int /\ a \in Int
      BY <2>2, <2>5, PageAssumption DEF AreaTypeOK, Addr
    <2>9. r.start < r.end BY <1>2, <2>4 DEF Sound, WellFormed
    <2>10. g.start < g.end BY <2>1, <2>4, <2>5, <2>6, <2>8, <2>9
    <2>11. ~over => FreeFor(S, g)
      <3>1. SUFFICES ASSUME ~over, NEW q \in S PROVE q.end <= s \/ r.end <= q.start
        BY <2>6 DEF FreeFor
      <3>2. /\ q.end <= r.start \/ r.end <= q.start
            /\ q.start < q.end
        BY <1>2, <2>4 DEF Sound, PairwiseDisjoint, WellFormed
      <3>3. ~(q.end > s /\ q.start < r.start) BY <3>1 DEF Overlapped
      <3> QED BY <2>4, <2>8, <3>2, <3>3
    <2> HIDE DEF over
    <2>12. /\ IsMm(k) /\ k.areas = S \cup {g} /\ k.highest = Mm.highest
           /\ k.heap = (IF heap = r.start THEN s ELSE heap) /\ k.fds = fds
           /\ k.status = IF over THEN "corrupt" ELSE "run"
      BY <1>2 DEF MmTypeOK, IsMm
    <2> HIDE DEF k
    <2>13. MmTypeOK(k)
      <3>1. k.heap \in Addr \cup {NULL, DANGLING} BY <1>2, <2>5, <2>12 DEF MmTypeOK
      <3>2. k.status \in {"run", "exit", "corrupt", "wild"} BY <2>12
      <3>3. \A q \in k.areas : AreaTypeOK(q) BY <2>2, <2>6, <2>12
      <3> QED BY <1>2, <2>12, <3>1, <3>2, <3>3 DEF MmTypeOK
    <2>14. g \in k.areas BY <2>12
    <2>15. MmTypeOK(w) /\ w.heap = k.heap /\ w.status = k.status
      BY <2>13, <2>14, MapVmaFields
    <2>16. ~over => Sound(w)
      <3>1. SUFFICES ASSUME ~over PROVE Sound(w) OBVIOUS
      <3>2. WellFormed(k.areas) /\ PairwiseDisjoint(k.areas)
        BY <1>2, <2>10, <2>11, <2>12, <3>1, DisjointSubset, DisjointAdd DEF Sound
      <3>3. HeapLinked(k) BY <1>2, <2>6, <2>12 DEF Sound, HeapLinked
      <3> QED BY <2>13, <2>14, <3>2, <3>3, MapVmaSound DEF Sound
    <2> HIDE DEF w
    <2>17. heap # NULL => w.heap # NULL
      BY <2>5, <2>12, <2>15, PageAssumption DEF NULL, Addr
    <2>18. w.status = "run" => ~over BY <2>12, <2>15
    <2> QED BY <1>1, <1>2, <2>1, <2>7, <2>15, <2>16, <2>17, <2>18, CommitSound
  <1> QED BY <1>3, <1>4

-----------------------------------------------------------------------------
\* Every step keeps the invariant.
LEMMA IInvStep == IInv /\ [Next]_vars => IInv'
  <1> SUFFICES ASSUME IInv, [Next]_vars PROVE IInv' OBVIOUS
  <1>1. ASSUME NEW c \in MmapCalls, SysMmap(c) PROVE IInv' BY <1>1, SysMmapStep
  <1>2. ASSUME NEW u \in MunmapCalls, SysMunmap(u[1], u[2]) PROVE IInv'
    <2>1. u[1] \in Addr /\ u[2] \in Addr BY CallsAssumption
    <2> QED BY <1>2, <2>1, SysMunmapStep
  <1>3. ASSUME NEW b \in BrkCalls, SysBrk(b) PROVE IInv'
    <2>1. b \in Addr BY CallsAssumption
    <2> QED BY <1>3, <2>1, SysBrkStep
  <1>4. ASSUME NEW a \in Touched, UserPageFault(a) PROVE IInv'
    <2>1. a \in Addr BY CallsAssumption
    <2> QED BY <1>4, <2>1, UserPageFaultStep
  <1>5. CASE UNCHANGED vars
    BY <1>5 DEF vars, IInv, MmTypeOK, IsMm, Sound, HeapLinked, Mm
  <1> QED BY <1>1, <1>2, <1>3, <1>4, <1>5 DEF Next

\* The inductive invariant contains both properties.
LEMMA IInvImplies == IInv => TypeOK /\ Disjoint
  <1>1. /\ Mm.areas = areas /\ Mm.highest = highest /\ Mm.heap = heap
        /\ Mm.fds = fds /\ Mm.status = status
    BY DEF Mm
  <1> QED BY <1>1 DEF IInv, MmTypeOK, TypeOK, Disjoint, Sound

\* The variables of the guest kernel keep their types: whatever the program
\* calls, no address, end, break or descriptor leaves its range.
THEOREM VmaTypeCorrect == Spec => []TypeOK
  <1>1. IInv => TypeOK BY IInvImplies
  <1> QED BY <1>1, IInvInit, IInvStep, PTL DEF Spec

\* While the machine runs its areas are non-empty and pairwise disjoint, for
\* any layout, page size, set of calls and behaviour of the host calls.
THEOREM AreasStayDisjoint == Spec => []Disjoint
  <1>1. IInv => Disjoint BY IInvImplies
  <1> QED BY <1>1, IInvInit, IInvStep, PTL DEF Spec
-----------------------------------------------------------------------------
(***************************************************************************)
(* What mapping, linking and splitting leave, area by area.                *)
(***************************************************************************)

\* v differs from r in what the host remembers of it only.
SameArea(v, r) ==
    /\ AreaTypeOK(v)
    /\ v.start = r.start /\ v.end = r.end /\ v.prot = r.prot /\ v.flags = r.flags
    /\ v.off = r.off /\ v.file = r.file /\ v.fd = r.fd

\* kernel_map_vma replaces the area.
LEMMA MapVmaEffect ==
  ASSUME NEW m, MmTypeOK(m), NEW r \in m.areas
  PROVE  LET w == MapVma(m, r)
         IN  /\ MmTypeOK(w) /\ w.highest = m.highest /\ w.heap = m.heap
             /\ w.fds = m.fds /\ w.status = m.status
             /\ w.host = KernelMapVma(m.host, r).host
             /\ \E v : /\ SameArea(v, r) /\ v.hv = KernelMapVma(m.host, r).hv
                       /\ w.areas = (m.areas \ {r}) \cup {v}
  <1> DEFINE v == [r EXCEPT !.hv = KernelMapVma(m.host, r).hv]
             w == MapVma(m, r)
  <1>1. AreaTypeOK(r) BY DEF MmTypeOK
  <1>2. SameArea(v, r) /\ v.hv = KernelMapVma(m.host, r).hv
    BY <1>1 DEF AreaTypeOK, SameArea
  <1>3. /\ w.areas = (m.areas \ {r}) \cup {v} /\ w.highest = m.highest
        /\ w.host = KernelMapVma(m.host, r).host
    BY DEF MapVma, MmTypeOK, IsMm
  <1> HIDE DEF v, w
  <1>4. /\ MmTypeOK(w) /\ w.heap = m.heap /\ w.fds = m.fds /\ w.status = m.status
    BY MapVmaFields DEF w
  <1> QED BY <1>2, <1>3, <1>4 DEF w

\* vma_link adds the area.
LEMMA VmaLinkEffect ==
  ASSUME NEW m, MmTypeOK(m), NEW r, AreaTypeOK(r), r \notin m.areas
  PROVE  LET w == VmaLink(m, r)
         IN  /\ MmTypeOK(w) /\ w.highest = LinkedHighest(m, r) /\ w.heap = m.heap
             /\ w.fds = m.fds /\ w.status = m.status
             /\ w.host = KernelMapVma(m.host, r).host
             /\ \E v : /\ SameArea(v, r) /\ v.hv = KernelMapVma(m.host, r).hv
                       /\ w.areas = m.areas \cup {v}
  <1> DEFINE k == [m EXCEPT !.areas = @ \cup {r}, !.highest = LinkedHighest(m, r)]
             w == VmaLink(m, r)
  <1>1. LinkedHighest(m, r) \in Addr
    BY DEF LinkedHighest, MmTypeOK, AreaTypeOK
  <1>2. /\ IsMm(k) /\ k.areas = m.areas \cup {r} /\ k.highest = LinkedHighest(m, r)
        /\ k.heap = m.heap /\ k.fds = m.fds /\ k.status = m.status /\ k.host = m.host
    BY DEF MmTypeOK, IsMm
  <1>3. w = MapVma(k, r) BY DEF VmaLink
  <1> HIDE DEF k, w
  <1>4. MmTypeOK(k) BY <1>1, <1>2 DEF MmTypeOK
  <1>5. r \in k.areas /\ k.areas \ {r} = m.areas BY <1>2
  <1>6. PICK v : /\ SameArea(v, r) /\ v.hv = KernelMapVma(k.host, r).hv
                 /\ w.areas = (k.areas \ {r}) \cup {v}
    BY <1>3, <1>4, <1>5, MapVmaEffect
  <1>7. /\ MmTypeOK(w) /\ w.highest = k.highest /\ w.heap = k.heap
        /\ w.fds = k.fds /\ w.status = k.status
        /\ w.host = KernelMapVma(k.host, r).host
    BY <1>3, <1>4, <1>5, MapVmaEffect
  <1>8. \E u : /\ SameArea(u, r) /\ u.hv = KernelMapVma(m.host, r).hv
               /\ w.areas = m.areas \cup {u}
    BY <1>2, <1>5, <1>6
  <1> QED BY <1>2, <1>7, <1>8 DEF w

\* The halves of r cut at a, d being the duplicate of its descriptor.
Halves(r, a, below, d, lo, hi) ==
    /\ AreaTypeOK(lo) /\ AreaTypeOK(hi)
    /\ lo.start = r.start /\ lo.end = a /\ hi.start = a /\ hi.end = r.end
    /\ lo.prot = r.prot /\ lo.flags = r.flags /\ lo.file = r.file /\ lo.off = r.off
    /\ hi.prot = r.prot /\ hi.flags = r.flags /\ hi.file = r.file
    /\ hi.off = r.off + PAGE_ALIGN_DOWN(a - r.start)
    /\ IF below THEN lo.fd = d /\ hi.fd = r.fd ELSE lo.fd = r.fd /\ hi.fd = d

\* vma_split puts two areas in the place of one.
LEMMA VmaSplitEffect ==
  ASSUME NEW m, MmTypeOK(m), Sound(m), NEW r \in m.areas,
         NEW a \in Addr, r.start < a, a < r.end,
         NEW below \in BOOLEAN, Fds \ m.fds # {}
  PROVE  LET w == VmaSplit(m, r, a, below)
             d == Dup(m.fds, r.fd)
         IN  /\ w.fds = m.fds \cup ({d} \ {NoFd})
             /\ w.heap = (IF m.heap = r.start /\ below THEN a ELSE m.heap)
             /\ w.highest = (IF below \/ After(m.areas, r.end) # {} THEN m.highest
                             ELSE r.end)
             /\ \E lo, hi : /\ Halves(r, a, below, d, lo, hi)
                            /\ w.areas = (m.areas \ {r}) \cup {lo, hi}
  <1> DEFINE d == Dup(m.fds, r.fd)
             lo == [r EXCEPT !.end = a]
             hi == [r EXCEPT !.start = a, !.off = @ + PAGE_ALIGN_DOWN(a - r.start)]
             old == IF below THEN hi ELSE lo
             new == [(IF below THEN lo ELSE hi) EXCEPT !.fd = d]
             S == m.areas \ {r}
             kept == [m EXCEPT !.areas = (@ \ {r}) \cup {old},
                               !.fds = @ \cup ({d} \ {NoFd}),
                               !.heap = IF @ = r.start THEN old.start ELSE @]
             link == VmaLink(kept, new)
             w == VmaSplit(m, r, a, below)
  <1>1. AreaTypeOK(r) /\ \A q \in m.areas : AreaTypeOK(q) BY DEF MmTypeOK
  <1>2. d \in Fds \cup {NoFd} BY <1>1, DupType DEF AreaTypeOK
  <1>3. PAGE_ALIGN_DOWN(a - r.start) \in Int
    BY <1>1, PageAssumption DEF PAGE_ALIGN_DOWN, AreaTypeOK, Addr
  <1>4. /\ AreaTypeOK(lo) /\ lo.start = r.start /\ lo.end = a
        /\ lo.prot = r.prot /\ lo.flags = r.flags /\ lo.file = r.file
        /\ lo.off = r.off /\ lo.fd = r.fd
    BY <1>1 DEF AreaTypeOK
  <1>5. /\ AreaTypeOK(hi) /\ hi.start = a /\ hi.end = r.end
        /\ hi.prot = r.prot /\ hi.flags = r.flags /\ hi.file = r.file
        /\ hi.off = r.off + PAGE_ALIGN_DOWN(a - r.start) /\ hi.fd = r.fd
    BY <1>1, <1>3 DEF AreaTypeOK
  <1>6. w = MapVma(link, old) BY DEF VmaSplit
  <1> HIDE DEF lo, hi, d, w
  <1>7. /\ AreaTypeOK(old) /\ AreaTypeOK(new)
        /\ IF below THEN Halves(r, a, below, d, new, old) ELSE Halves(r, a, below, d, old, new)
    BY <1>2, <1>4, <1>5 DEF AreaTypeOK, Halves
  <1> HIDE DEF old, new
  <1>8. /\ \A q \in m.areas : q.start \in Int /\ q.end \in Int
        /\ a \in Int
    BY <1>1, PageAssumption DEF AreaTypeOK, Addr
  <1>9. /\ IsMm(kept) /\ kept.areas = S \cup {old} /\ kept.highest = m.highest
        /\ kept.fds = m.fds \cup ({d} \ {NoFd}) /\ kept.status = m.status
        /\ kept.heap = IF m.heap = r.start THEN old.start ELSE m.heap
    BY DEF MmTypeOK, IsMm
  <1> HIDE DEF kept
  <1>10. MmTypeOK(kept)
    <2>1. kept.heap \in Addr \cup {NULL, DANGLING}
      BY <1>7, <1>9 DEF MmTypeOK, AreaTypeOK
    <2>2. kept.fds \subseteq Fds BY <1>2, <1>9 DEF MmTypeOK
    <2> QED BY <1>1, <1>7, <1>9, <2>1, <2>2 DEF MmTypeOK
  <1>11. \A q \in S : q.end <= r.start \/ r.end <= q.start
    BY DEF Sound, PairwiseDisjoint
  <1>12. /\ new.start # old.start /\ new.start \in r.start .. r.end - 1
         /\ old.start \in r.start .. r.end - 1
    BY <1>7, <1>8 DEF Halves
  <1>13. \A q \in S : q.start < q.end BY DEF Sound, WellFormed
  <1>14. old \notin S /\ new \notin kept.areas
    <2>1. old \notin S BY <1>8, <1>11, <1>12, <1>13
    <2>2. new \notin S BY <1>8, <1>11, <1>12, <1>13
    <2> QED BY <1>9, <1>12, <2>1, <2>2
  <1>15. PICK v : SameArea(v, new) /\ link.areas = kept.areas \cup {v}
    BY <1>7, <1>10, <1>14, VmaLinkEffect
  <1>16. /\ MmTypeOK(link) /\ link.highest = LinkedHighest(kept, new)
         /\ link.heap = kept.heap /\ link.fds = kept.fds
    BY <1>7, <1>10, <1>14, VmaLinkEffect
  <1> HIDE DEF link
  <1>17. old \in link.areas BY <1>9, <1>15
  <1>18. PICK u : SameArea(u, old) /\ w.areas = (link.areas \ {old}) \cup {u}
    BY <1>6, <1>16, <1>17, MapVmaEffect
  <1>19. w.highest = link.highest /\ w.heap = link.heap /\ w.fds = link.fds
    BY <1>6, <1>16, <1>17, MapVmaEffect
  <1>20. w.areas = S \cup {u, v}
    <2>1. v.start = new.start BY <1>15 DEF SameArea
    <2> QED BY <1>9, <1>12, <1>14, <1>15, <1>18, <2>1
  <1>21. IF below THEN Halves(r, a, below, d, v, u) ELSE Halves(r, a, below, d, u, v)
    BY <1>7, <1>15, <1>18 DEF SameArea, Halves
  <1>22. \E x, y : Halves(r, a, below, d, x, y) /\ w.areas = S \cup {x, y}
    BY <1>20, <1>21
  <1>23. w.heap = (IF m.heap = r.start /\ below THEN a ELSE m.heap)
    BY <1>7, <1>9, <1>16, <1>19 DEF Halves
  <1>24. After(kept.areas, new.end) # {} <=> below \/ After(m.areas, r.end) # {}
    <2>1. CASE below
      <3>1. old \in After(kept.areas, new.end) BY <1>7, <1>8, <1>9, <2>1 DEF Halves, After
      <3> QED BY <2>1, <3>1
    <2>2. CASE ~below
      <3>1. new.end = r.end /\ old.start = r.start BY <1>7, <2>2 DEF Halves
      <3>2. r.start < r.end /\ r \in m.areas BY DEF Sound, WellFormed
      <3>3. After(kept.areas, r.end) = After(m.areas, r.end)
        BY <1>8, <1>9, <3>1, <3>2 DEF After
      <3> QED BY <2>2, <3>1, <3>3
    <2> QED BY <2>1, <2>2
  <1>25. w.highest = (IF below \/ After(m.areas, r.end) # {} THEN m.highest ELSE r.end)
    <2>1. ~below => new.end = r.end BY <1>7 DEF Halves
    <2> QED BY <1>9, <1>16, <1>19, <1>24, <2>1 DEF LinkedHighest
  <1> QED BY <1>9, <1>16, <1>19, <1>22, <1>23, <1>25 DEF w, d

\* vma_remove closes the descriptors of what it removes.
LEMMA VmaRemoveEffect ==
  ASSUME NEW m, MmTypeOK(m), NEW gone
  PROVE  LET w == VmaRemove(m, gone)
         IN  /\ MmTypeOK(w) /\ w.areas = m.areas /\ w.highest = m.highest
             /\ w.fds = m.fds \ {r.fd : r \in gone}
             /\ w.host = KernelUnmapVma(m.host, gone) /\ w.status = m.status
             /\ w.heap = IF \E r \in gone : r.start = m.heap THEN DANGLING ELSE m.heap
  <1> DEFINE w == VmaRemove(m, gone)
  <1>1. /\ w.areas = m.areas /\ w.highest = m.highest
        /\ w.fds = m.fds \ {r.fd : r \in gone}
        /\ w.host = KernelUnmapVma(m.host, gone)
        /\ w.heap = IF \E r \in gone : r.start = m.heap THEN DANGLING ELSE m.heap
    BY DEF VmaRemove, MmTypeOK, IsMm
  <1> HIDE DEF w
  <1>2. MmTypeOK(w) /\ w.status = m.status BY VmaRemoveFields DEF w
  <1> QED BY <1>1, <1>2 DEF w

\* The stages of munmap: both ends split, and the areas inside taken out.
Ends(m, a, e) == SplitAt(SplitAt(m, a, FALSE), e, TRUE)
Inside(m, a, e) == {r \in m.areas : a <= r.start /\ r.start < e}
Outside(m, a, e) == m.areas \ Inside(m, a, e)
Detached(m, a, e) ==
    [m EXCEPT !.areas = Outside(m, a, e),
              !.highest = DetachedHighest(m, Outside(m, a, e), e)]

\* detach_vmas_to_be_unmapped changes the list and vma_highest_addr only.
LEMMA DetachedEffect ==
  ASSUME NEW m, MmTypeOK(m), NEW a \in Addr, NEW e \in Addr
  PROVE  LET k == Detached(m, a, e)
         IN  /\ MmTypeOK(k) /\ k.areas = Outside(m, a, e)
             /\ k.highest = DetachedHighest(m, Outside(m, a, e), e) /\ k.heap = m.heap
             /\ k.fds = m.fds /\ k.host = m.host /\ k.status = m.status
  <1> DEFINE left == Outside(m, a, e)
             k == Detached(m, a, e)
  <1>1. left \in SUBSET m.areas BY DEF Outside
  <1>2. DetachedHighest(m, left, e) \in Addr BY <1>1, DetachedHighestType
  <1> HIDE DEF left
  <1>3. /\ IsMm(k) /\ k.areas = left /\ k.highest = DetachedHighest(m, left, e)
        /\ k.heap = m.heap /\ k.fds = m.fds /\ k.status = m.status /\ k.host = m.host
    BY DEF MmTypeOK, IsMm, Detached, left
  <1> HIDE DEF k
  <1>4. MmTypeOK(k) BY <1>1, <1>2, <1>3 DEF MmTypeOK
  <1> QED BY <1>3, <1>4 DEF left, k

\* The first split leaves a descriptor for the second.
LEMMA EndsSound ==
  ASSUME NEW m, MmTypeOK(m), Sound(m), NEW a \in Addr, NEW e \in Addr,
         Cardinality(Fds \ m.fds) >= 2
  PROVE  LET m1 == SplitAt(m, a, FALSE)
             m2 == Ends(m, a, e)
         IN  /\ Fds \ m.fds # {} /\ Fds \ m1.fds # {}
             /\ MmTypeOK(m1) /\ Sound(m1) /\ m1.status = m.status
             /\ MmTypeOK(m2) /\ Sound(m2) /\ m2.status = m.status
             /\ NoStraddle(m2.areas, a) /\ NoStraddle(m2.areas, e)
  <1> DEFINE m1 == SplitAt(m, a, FALSE)
             m2 == SplitAt(m1, e, TRUE)
  <1>1. Fds \ m.fds # {}
    <2>1. 2 \in Nat \ {0} OBVIOUS
    <2> QED BY <2>1, SpareExists
  <1>2. /\ MmTypeOK(m1) /\ Sound(m1) /\ m1.status = m.status
        /\ NoStraddle(m1.areas, a) /\ Cardinality(Fds \ m1.fds) >= 1
    <2>1. 1 \in Nat /\ Cardinality(Fds \ m.fds) >= 1 + 1 OBVIOUS
    <2> QED BY <2>1, SplitAtSound
  <1> HIDE DEF m1
  <1>3. Fds \ m1.fds # {}
    <2>1. 1 \in Nat \ {0} OBVIOUS
    <2> QED BY <1>2, <2>1, SpareExists
  <1>4. /\ MmTypeOK(m2) /\ Sound(m2) /\ m2.status = m1.status
        /\ NoStraddle(m2.areas, e)
        /\ NoStraddle(m1.areas, a) => NoStraddle(m2.areas, a)
    <2>1. 0 \in Nat /\ Cardinality(Fds \ m1.fds) >= 0 + 1 BY <1>2
    <2> QED BY <1>2, <2>1, SplitAtSound
  <1>5. m2 = Ends(m, a, e) BY DEF Ends, m1
  <1> HIDE DEF m2
  <1> QED BY <1>1, <1>2, <1>3, <1>4, <1>5 DEF m1

\* munmap as its stages.
LEMMA MunmapRangeStages ==
  ASSUME NEW m, NEW a, NEW e, EndingAbove(m.areas, a) # {}
  PROVE  MunmapRange(m, a, e)
           = VmaRemove(Detached(Ends(m, a, e), a, e), Inside(Ends(m, a, e), a, e))
  BY DEF MunmapRange, SplitAt, Ends, Detached, Inside, Outside

\* The end of munmap's range is an address.
LEMMA MunmapEnd ==
  ASSUME NEW a \in Addr, NEW length \in Addr, ~MunmapInvalid(a, length)
  PROVE  a + PAGE_ALIGN(length) \in Addr /\ a < a + PAGE_ALIGN(length)
  <1>1. length # 0 /\ length <= kernel_min_address - a
    BY PageAssumption, LayoutAssumption DEF MunmapInvalid, Addr
  <1>2. /\ PAGE_ALIGN(length) \in Addr /\ PAGE_ALIGN(length) < length + PAGE_SIZE
        /\ length <= PAGE_ALIGN(length)
    BY <1>1, PageAlignType, PageAssumption, LayoutAssumption DEF Addr
  <1> QED BY <1>1, <1>2, PageAssumption, LayoutAssumption DEF Addr

\* What the merges leave of an area, and of the open descriptors.
Closed(open, d) == open \ {d}
GrownDown(q, n) == [q EXCEPT !.start = n.start,
                             !.off = @ - PgLen(n.start, n.end, n.fd)]

\* vma_merge, case 1: one area from the start of p to the end of q.
LEMMA MergeBothEffect ==
  ASSUME NEW m, MmTypeOK(m), Sound(m), NEW p \in m.areas, NEW q \in m.areas,
         p.end < q.start
  PROVE  LET w == MergeBoth(m, p, q)
         IN  /\ w.fds = Closed(m.fds, q.fd) /\ w.status = m.status
             /\ w.heap = (IF m.heap = q.start THEN DANGLING ELSE m.heap)
             /\ w.highest = LinkedHighest(m, q)
             /\ \E v : /\ SameArea(v, [p EXCEPT !.end = q.end])
                       /\ w.areas = (m.areas \ {p, q}) \cup {v}
  <1> DEFINE g == [p EXCEPT !.end = q.end]
             S == m.areas \ {p, q}
             k == [m EXCEPT !.areas = S \cup {g}]
             mapped == MapVma(k, g)
             done == VmaRemove(mapped, {q})
             w == MergeBoth(m, p, q)
  <1>1. AreaTypeOK(p) /\ AreaTypeOK(q) /\ \A r \in m.areas : AreaTypeOK(r)
    BY DEF MmTypeOK
  <1>2. AreaTypeOK(g) /\ g.start = p.start BY <1>1 DEF AreaTypeOK
  <1>3. w = IF After(m.areas, q.end) # {} THEN done ELSE [done EXCEPT !.highest = q.end]
    BY DEF MergeBoth
  <1> HIDE DEF g, w
  <1>4. g \notin S
    <2>1. \A r \in m.areas : r.start \in Int /\ r.end \in Int /\ r.start < r.end
      BY <1>1, PageAssumption DEF AreaTypeOK, Addr, Sound, WellFormed
    <2>2. \A r \in S : r.end <= p.start \/ p.end <= r.start
      BY DEF Sound, PairwiseDisjoint
    <2> QED BY <1>2, <2>1, <2>2
  <1>5. /\ IsMm(k) /\ k.areas = S \cup {g} /\ k.highest = m.highest
        /\ k.heap = m.heap /\ k.fds = m.fds /\ k.status = m.status
    BY DEF MmTypeOK, IsMm
  <1> HIDE DEF k
  <1>6. MmTypeOK(k) BY <1>1, <1>2, <1>5 DEF MmTypeOK
  <1>7. PICK v : SameArea(v, g) /\ mapped.areas = (k.areas \ {g}) \cup {v}
    BY <1>5, <1>6, MapVmaEffect
  <1>8. /\ MmTypeOK(mapped) /\ mapped.highest = k.highest /\ mapped.heap = k.heap
        /\ mapped.fds = k.fds /\ mapped.status = k.status
    BY <1>5, <1>6, MapVmaEffect
  <1>9. mapped.areas = S \cup {v} BY <1>4, <1>5, <1>7
  <1> HIDE DEF mapped
  <1>10. /\ MmTypeOK(done) /\ done.areas = mapped.areas /\ done.highest = mapped.highest
         /\ done.fds = mapped.fds \ {r.fd : r \in {q}} /\ done.status = mapped.status
         /\ done.heap = IF \E r \in {q} : r.start = mapped.heap THEN DANGLING
                        ELSE mapped.heap
    BY <1>8, VmaRemoveEffect
  <1> HIDE DEF done
  <1>11. /\ w.areas = done.areas /\ w.heap = done.heap /\ w.fds = done.fds
         /\ w.status = done.status
         /\ w.highest = IF After(m.areas, q.end) # {} THEN done.highest ELSE q.end
    BY <1>3, <1>10 DEF MmTypeOK, IsMm
  <1>12. {r.fd : r \in {q}} = {q.fd} OBVIOUS
  <1>13. w.fds = Closed(m.fds, q.fd) BY <1>5, <1>8, <1>10, <1>11, <1>12 DEF Closed
  <1>14. w.heap = (IF m.heap = q.start THEN DANGLING ELSE m.heap)
    BY <1>5, <1>8, <1>10, <1>11
  <1>15. w.areas = S \cup {v} BY <1>9, <1>10, <1>11
  <1>16. \E u : SameArea(u, g) /\ w.areas = S \cup {u} BY <1>7, <1>15
  <1>17. w.highest = LinkedHighest(m, q)
    BY <1>5, <1>8, <1>10, <1>11 DEF LinkedHighest
  <1> QED BY <1>5, <1>8, <1>10, <1>11, <1>13, <1>14, <1>16, <1>17 DEF g, w

\* Case 2: p reaches to the end of the new range.
LEMMA MergeUpEffect ==
  ASSUME NEW m, MmTypeOK(m), Sound(m), NEW p \in m.areas, NEW n, AreaTypeOK(n)
  PROVE  LET w == MergeUp(m, p, n)
         IN  /\ w.fds = m.fds /\ w.status = m.status /\ w.heap = m.heap
             /\ w.highest = (IF After(m.areas, n.end) # {} THEN m.highest ELSE n.end)
             /\ \E v : /\ SameArea(v, [p EXCEPT !.end = n.end])
                       /\ w.areas = (m.areas \ {p}) \cup {v}
  <1> DEFINE g == [p EXCEPT !.end = n.end]
             S == m.areas \ {p}
             top == IF After(m.areas, n.end) # {} THEN m.highest ELSE n.end
             k == [m EXCEPT !.areas = S \cup {g}, !.highest = top]
             w == MergeUp(m, p, n)
  <1>1. AreaTypeOK(p) /\ \A r \in m.areas : AreaTypeOK(r) BY DEF MmTypeOK
  <1>2. AreaTypeOK(g) /\ g.start = p.start BY <1>1 DEF AreaTypeOK
  <1>3. top \in Addr BY DEF MmTypeOK, AreaTypeOK
  <1>4. w = MapVma(k, g) BY DEF MergeUp
  <1> HIDE DEF g, top, w
  <1>5. g \notin S
    <2>1. \A r \in m.areas : r.start \in Int /\ r.end \in Int /\ r.start < r.end
      BY <1>1, PageAssumption DEF AreaTypeOK, Addr, Sound, WellFormed
    <2>2. \A r \in S : r.end <= p.start \/ p.end <= r.start
      BY DEF Sound, PairwiseDisjoint
    <2> QED BY <1>2, <2>1, <2>2
  <1>6. /\ IsMm(k) /\ k.areas = S \cup {g} /\ k.highest = top
        /\ k.heap = m.heap /\ k.fds = m.fds /\ k.status = m.status
    BY DEF MmTypeOK, IsMm
  <1> HIDE DEF k
  <1>7. MmTypeOK(k) BY <1>1, <1>2, <1>3, <1>6 DEF MmTypeOK
  <1>8. PICK v : SameArea(v, g) /\ w.areas = (k.areas \ {g}) \cup {v}
    BY <1>4, <1>6, <1>7, MapVmaEffect
  <1>9. /\ w.highest = k.highest /\ w.heap = k.heap
        /\ w.fds = k.fds /\ w.status = k.status
    BY <1>4, <1>6, <1>7, MapVmaEffect
  <1>10. \E u : SameArea(u, g) /\ w.areas = S \cup {u} BY <1>5, <1>6, <1>8
  <1> QED BY <1>6, <1>9, <1>10 DEF g, top, w

\* Case 3: q starts where the new range starts.
LEMMA MergeDownEffect ==
  ASSUME NEW m, MmTypeOK(m), Sound(m), NEW q \in m.areas, NEW n, AreaTypeOK(n),
         n.end = q.start, n.start < n.end, FreeFor(m.areas, n)
  PROVE  LET w == MergeDown(m, q, n)
         IN  /\ w.fds = m.fds /\ w.status = m.status /\ w.highest = m.highest
             /\ w.heap = (IF m.heap = q.start THEN n.start ELSE m.heap)
             /\ \E v : /\ SameArea(v, GrownDown(q, n))
                       /\ w.areas = (m.areas \ {q}) \cup {v}
  <1> DEFINE g == GrownDown(q, n)
             S == m.areas \ {q}
             k == [m EXCEPT !.areas = (@ \ {q}) \cup {g},
                            !.heap = IF @ = q.start THEN n.start ELSE @]
             w == MergeDown(m, q, n)
  <1>1. AreaTypeOK(q) /\ \A r \in m.areas : AreaTypeOK(r) BY DEF MmTypeOK
  <1>2. PgLen(n.start, n.end, n.fd) \in Int BY PgLenType DEF AreaTypeOK
  <1>3. AreaTypeOK(g) /\ g.start = n.start BY <1>1, <1>2 DEF AreaTypeOK, GrownDown
  <1>4. w = MapVma(k, g) BY DEF MergeDown, GrownDown
  <1> HIDE DEF g, w
  <1>5. g \notin S
    <2>1. \A r \in m.areas : r.start \in Int /\ r.end \in Int /\ r.start < r.end
      BY <1>1, PageAssumption DEF AreaTypeOK, Addr, Sound, WellFormed
    <2>2. n.start \in Int /\ n.end \in Int BY PageAssumption DEF AreaTypeOK, Addr
    <2>3. \A r \in S : r.end <= n.start \/ n.end <= r.start BY DEF FreeFor
    <2> QED BY <1>3, <2>1, <2>2, <2>3
  <1>6. /\ IsMm(k) /\ k.areas = S \cup {g} /\ k.highest = m.highest
        /\ k.heap = (IF m.heap = q.start THEN n.start ELSE m.heap)
        /\ k.fds = m.fds /\ k.status = m.status
    BY DEF MmTypeOK, IsMm
  <1> HIDE DEF k
  <1>7. MmTypeOK(k) BY <1>1, <1>3, <1>6 DEF MmTypeOK, AreaTypeOK
  <1>8. PICK v : SameArea(v, g) /\ w.areas = (k.areas \ {g}) \cup {v}
    BY <1>4, <1>6, <1>7, MapVmaEffect
  <1>9. /\ w.highest = k.highest /\ w.heap = k.heap
        /\ w.fds = k.fds /\ w.status = k.status
    BY <1>4, <1>6, <1>7, MapVmaEffect
  <1>10. \E u : SameArea(u, g) /\ w.areas = S \cup {u} BY <1>5, <1>6, <1>8
  <1> QED BY <1>6, <1>9, <1>10 DEF g, w

-----------------------------------------------------------------------------
(***************************************************************************)
(* Descriptors.  C are the descriptors somebody else owns: they stay open, *)
(* and no area holds one of them.                                          *)
(***************************************************************************)
Owned(m, C) ==
    /\ C \subseteq m.fds
    /\ \A r \in m.areas : r.fd # NoFd =>
         /\ r.fd \in m.fds \ C
         /\ \A q \in m.areas : q.fd = r.fd => q = r

\* A new area brings a descriptor nobody holds.
Fresh(m, C, r) == r.fd # NoFd => r.fd \in m.fds \ C /\ \A q \in m.areas : q.fd # r.fd

\* An area may take the place of one with the same descriptor.
LEMMA ReplaceOwned ==
  ASSUME NEW m, NEW C, Owned(m, C), NEW r \in m.areas, NEW v, v.fd = r.fd,
         NEW w, w.areas = (m.areas \ {r}) \cup {v}, w.fds = m.fds
  PROVE  Owned(w, C)
  BY DEF Owned

\* The host calls leave the descriptors alone.
LEMMA MapVmaOwned ==
  ASSUME NEW m, MmTypeOK(m), NEW C, Owned(m, C), NEW r \in m.areas
  PROVE  Owned(MapVma(m, r), C)
  <1>1. PICK v : SameArea(v, r) /\ MapVma(m, r).areas = (m.areas \ {r}) \cup {v}
    BY MapVmaEffect
  <1>2. MapVma(m, r).fds = m.fds BY MapVmaEffect
  <1>3. v.fd = r.fd BY <1>1 DEF SameArea
  <1> QED BY <1>1, <1>2, <1>3, ReplaceOwned

\* kernel_dup returns a descriptor that was not open.
LEMMA DupFresh ==
  ASSUME NEW open, NEW d, d # NoFd, Fds \ open # {}
  PROVE  Dup(open, d) \in Fds \ open
  <1>1. Fds \ open \in SUBSET Nat BY PageAssumption DEF Fds
  <1>2. PICK least \in Fds \ open : \A c \in Fds \ open : least <= c BY <1>1, MinExists
  <1> QED BY <1>2 DEF Dup

\* vma_split: one half keeps its descriptor, the other gets a duplicate.
LEMMA VmaSplitOwned ==
  ASSUME NEW m, MmTypeOK(m), Sound(m), NEW C, Owned(m, C), NEW r \in m.areas,
         NEW a \in Addr, r.start < a, a < r.end,
         NEW below \in BOOLEAN, Fds \ m.fds # {}
  PROVE  Owned(VmaSplit(m, r, a, below), C)
  <1> DEFINE d == Dup(m.fds, r.fd)
             w == VmaSplit(m, r, a, below)
  <1>1. d # NoFd => r.fd # NoFd /\ d \notin m.fds BY DupFresh DEF Dup
  <1>2. r.fd # NoFd => d \in Fds BY DupFresh
  <1>3. PICK lo, hi : /\ Halves(r, a, below, d, lo, hi)
                      /\ w.areas = (m.areas \ {r}) \cup {lo, hi}
    BY VmaSplitEffect
  <1>4. w.fds = m.fds \cup ({d} \ {NoFd}) BY VmaSplitEffect
  <1>5. \/ lo.fd = d /\ hi.fd = r.fd
        \/ lo.fd = r.fd /\ hi.fd = d
    BY <1>3 DEF Halves
  <1> HIDE DEF d, w
  <1> QED BY <1>1, <1>3, <1>4, <1>5 DEF Owned, w

\* munmap's splits keep the descriptors apart.
LEMMA SplitAtOwned ==
  ASSUME NEW m, MmTypeOK(m), Sound(m), NEW C, Owned(m, C),
         NEW a \in Addr, NEW below \in BOOLEAN, Fds \ m.fds # {}
  PROVE  Owned(SplitAt(m, a, below), C)
  <1> DEFINE E == EndingAbove(m.areas, a)
             f == VmaFind(m.areas, a)
  <1>1. \A r \in m.areas : r.start \in Addr /\ r.end \in Addr
    BY DEF MmTypeOK, AreaTypeOK
  <1>2. E \subseteq m.areas /\ \A r \in E : r.end > a BY DEF EndingAbove
  <1>3. E # {} => f \in E BY <1>1, <1>2, LowestExists DEF VmaFind
  <1>4. CASE E # {} /\ a > f.start
    <2>1. f \in m.areas /\ f.start < a /\ a < f.end
      BY <1>1, <1>2, <1>3, <1>4, PageAssumption DEF Addr
    <2>2. SplitAt(m, a, below) = VmaSplit(m, f, a, below) BY <1>4 DEF SplitAt
    <2> HIDE DEF f
    <2> QED BY <2>1, <2>2, VmaSplitOwned
  <1>5. CASE ~(E # {} /\ a > f.start) BY <1>5 DEF SplitAt
  <1> QED BY <1>4, <1>5

\* Areas that leave the list take their descriptors, and nobody else's, along.
LEMMA RemoveOwned ==
  ASSUME NEW m, MmTypeOK(m), NEW C, Owned(m, C), NEW gone \in SUBSET m.areas,
         NEW k, MmTypeOK(k), k.fds = m.fds, k.areas = m.areas \ gone
  PROVE  Owned(VmaRemove(k, gone), C)
  <1> DEFINE w == VmaRemove(k, gone)
  <1>1. w.areas = k.areas /\ w.fds = k.fds \ {r.fd : r \in gone} BY VmaRemoveEffect
  <1>2. C \subseteq Fds /\ NoFd \notin Fds BY DEF Owned, MmTypeOK, Fds, NoFd
  <1>3. \A r \in gone : r.fd \notin C BY <1>2 DEF Owned
  <1>4. \A q \in k.areas : q.fd # NoFd => \A r \in gone : r.fd # q.fd BY DEF Owned
  <1> HIDE DEF w
  <1> QED BY <1>1, <1>3, <1>4 DEF Owned, w

\* syscall_munmap.
LEMMA MunmapOwned ==
  ASSUME NEW m, MmTypeOK(m), Sound(m), NEW C, Owned(m, C),
         NEW a \in Addr, NEW length \in Addr,
         ~MunmapInvalid(a, length), Cardinality(Fds \ m.fds) >= 2
  PROVE  Owned(Munmap(m, a, length), C)
  <1> DEFINE e == a + PAGE_ALIGN(length)
             m1 == SplitAt(m, a, FALSE)
             m2 == Ends(m, a, e)
             gone == Inside(m2, a, e)
             cut == Detached(m2, a, e)
  <1>1. e \in Addr BY MunmapEnd
  <1> HIDE DEF e
  <1>2. CASE Overlapped(m.areas, a, e)
    <2>1. EndingAbove(m.areas, a) # {} BY <1>2 DEF Overlapped, EndingAbove
    <2>2. Munmap(m, a, length) = VmaRemove(cut, gone)
      BY <1>2, <2>1, MunmapRangeStages DEF Munmap, e
    <2>3. /\ Fds \ m.fds # {} /\ Fds \ m1.fds # {}
          /\ MmTypeOK(m1) /\ Sound(m1) /\ MmTypeOK(m2)
      BY <1>1, EndsSound
    <2>4. Owned(m1, C) BY <2>3, SplitAtOwned
    <2>5. m2 = SplitAt(m1, e, TRUE) BY DEF Ends
    <2> HIDE DEF m1, m2
    <2>6. Owned(m2, C) BY <1>1, <2>3, <2>4, <2>5, SplitAtOwned
    <2>7. MmTypeOK(cut) /\ cut.areas = Outside(m2, a, e) /\ cut.fds = m2.fds
      BY <1>1, <2>3, DetachedEffect
    <2>8. gone \in SUBSET m2.areas /\ Outside(m2, a, e) = m2.areas \ gone
      BY DEF Inside, Outside
    <2> HIDE DEF cut, gone
    <2> QED BY <2>2, <2>3, <2>6, <2>7, <2>8, RemoveOwned
  <1>3. CASE ~Overlapped(m.areas, a, e) BY <1>3 DEF Munmap, e
  <1> QED BY <1>2, <1>3

\* A merged area keeps the descriptor of the area it grew from; that of an
\* area it swallowed is closed.
LEMMA MergeOrLinkOwned ==
  ASSUME NEW m, MmTypeOK(m), Sound(m), NEW C, Owned(m, C),
         NEW n, AreaTypeOK(n), n.start < n.end, FreeFor(m.areas, n), Fresh(m, C, n)
  PROVE  Owned(MergeOrLink(m, n).m, C)
  <1> DEFINE P == {p \in m.areas : MergesAfter(p, n)}
             Q == {q \in m.areas : MergesBefore(q, n)}
             p == CHOOSE r \in P : TRUE
             q == CHOOSE r \in Q : TRUE
             w == MergeOrLink(m, n).m
  <1>1. P # {} => p \in m.areas /\ p.end = n.start BY DEF MergesAfter
  <1>2. Q # {} => q \in m.areas /\ q.start = n.end BY DEF MergesBefore
  <1>3. w = IF P # {} /\ Q # {} THEN MergeBoth(m, p, q)
            ELSE IF P # {} THEN MergeUp(m, p, n)
            ELSE IF Q # {} THEN MergeDown(m, q, n) ELSE VmaLink(m, n)
    BY DEF MergeOrLink
  <1>4. \A r \in m.areas : AreaTypeOK(r) BY DEF MmTypeOK
  <1>5. NoFd \notin Fds /\ C \subseteq Fds BY DEF NoFd, Fds, Owned, MmTypeOK
  <1> HIDE DEF P, Q, p, q, w
  <1>6. CASE P # {} /\ Q # {}
    <2>1. p.end < q.start BY <1>1, <1>2, <1>6
    <2>2. PICK v : /\ SameArea(v, [p EXCEPT !.end = q.end])
                   /\ w.areas = (m.areas \ {p, q}) \cup {v}
      BY <1>1, <1>2, <1>3, <1>6, <2>1, MergeBothEffect
    <2>3. w.fds = m.fds \ {q.fd}
      <3>1. p \in m.areas /\ q \in m.areas BY <1>1, <1>2, <1>6
      <3>2. MergeBoth(m, p, q).fds = Closed(m.fds, q.fd) BY <2>1, <3>1, MergeBothEffect
      <3> QED BY <1>3, <1>6, <3>2 DEF Closed
    <2>4. v.fd = p.fd BY <1>1, <1>4, <1>6, <2>2 DEF SameArea, AreaTypeOK
    <2>5. p # q
      <3>1. p.start < p.end /\ p.start \in Int /\ p.end \in Int
        BY <1>1, <1>4, <1>6, PageAssumption DEF Sound, WellFormed, AreaTypeOK, Addr
      <3> QED BY <2>1, <3>1
    <2>6. q.fd \notin C BY <1>2, <1>5, <1>6 DEF Owned
    <2>7. C \subseteq w.fds BY <2>3, <2>6 DEF Owned
    <2>8. ASSUME NEW r \in w.areas, r.fd # NoFd
          PROVE  r.fd \in w.fds \ C /\ \A s \in w.areas : s.fd = r.fd => s = r
      <3>1. PICK r0 \in m.areas \ {q} : r0.fd = r.fd /\ (r = v \/ r = r0)
        BY <1>1, <1>6, <2>2, <2>4, <2>5
      <3>2. r.fd \in m.fds \ C /\ \A s \in m.areas : s.fd = r.fd => s = r0
        BY <2>8, <3>1 DEF Owned
      <3>3. r.fd # q.fd BY <1>2, <1>6, <3>1, <3>2
      <3>4. ASSUME NEW s \in w.areas, s.fd = r.fd PROVE s = r
        <4>1. CASE r0 = p BY <1>1, <1>6, <2>2, <2>4, <3>1, <3>2, <3>4, <4>1
        <4>2. CASE r0 # p BY <1>1, <1>6, <2>2, <2>4, <3>1, <3>2, <3>4, <4>2
        <4> QED BY <4>1, <4>2
      <3> QED BY <2>3, <3>2, <3>3, <3>4
    <2> QED BY <2>7, <2>8 DEF Owned, w
  <1>7. CASE P # {} /\ Q = {}
    <2>1. PICK v : /\ SameArea(v, [p EXCEPT !.end = n.end])
                   /\ w.areas = (m.areas \ {p}) \cup {v}
      BY <1>1, <1>3, <1>7, MergeUpEffect
    <2>2. w.fds = m.fds BY <1>1, <1>3, <1>7, MergeUpEffect
    <2>3. v.fd = p.fd BY <1>1, <1>4, <1>7, <2>1 DEF SameArea, AreaTypeOK
    <2> QED BY <1>1, <1>7, <2>1, <2>2, <2>3, ReplaceOwned DEF w
  <1>8. CASE P = {} /\ Q # {}
    <2>1. PICK v : /\ SameArea(v, GrownDown(q, n))
                   /\ w.areas = (m.areas \ {q}) \cup {v}
      BY <1>2, <1>3, <1>8, MergeDownEffect
    <2>2. w.fds = m.fds BY <1>2, <1>3, <1>8, MergeDownEffect
    <2>3. v.fd = q.fd BY <1>2, <1>4, <1>8, <2>1 DEF SameArea, AreaTypeOK, GrownDown
    <2> QED BY <1>2, <1>8, <2>1, <2>2, <2>3, ReplaceOwned DEF w
  <1>9. CASE P = {} /\ Q = {}
    <2>1. n \notin m.areas
      <3>1. n.start \in Int /\ n.end \in Int BY PageAssumption DEF AreaTypeOK, Addr
      <3> QED BY <3>1 DEF FreeFor
    <2>2. PICK v : SameArea(v, n) /\ w.areas = m.areas \cup {v}
      BY <1>3, <1>9, <2>1, VmaLinkEffect
    <2>3. w.fds = m.fds BY <1>3, <1>9, <2>1, VmaLinkEffect
    <2>4. v.fd = n.fd BY <2>2 DEF SameArea
    <2> QED BY <2>2, <2>3, <2>4 DEF Owned, Fresh, w
  <1> QED BY <1>6, <1>7, <1>8, <1>9

\* mmap_region gives the area the descriptor it was called with, or none.
LEMMA MmapRegionOwned ==
  ASSUME NEW m, MmTypeOK(m), Sound(m), Cardinality(Fds \ m.fds) >= 2,
         NEW C, NEW D, D \subseteq m.fds, Owned(m, C \cup D),
         NEW n, AreaTypeOK(n), n.fd # NoFd => n.fd \in D /\ n.fd \notin C,
         NEW length \in Addr, n.end = Add(n.start, length)
  PROVE  Owned(MmapRegion(m, n, length).m, C)
  <1> DEFINE busy == Overlapped(m.areas, n.start, n.end)
             clear == IF busy THEN Munmap(m, n.start, length) ELSE m
             R == MmapRegion(m, n, length)
             bad == [clear EXCEPT !.areas = @ \cup {n}, !.status = "corrupt"]
  <1>1. CASE busy /\ MunmapInvalid(n.start, length)
    <2>1. R.m = m BY <1>1 DEF MmapRegion
    <2> QED BY <2>1 DEF Owned
  <1>2. CASE ~(busy /\ MunmapInvalid(n.start, length))
    <2>0. n.start \in Addr /\ n.end \in Addr BY DEF AreaTypeOK
    <2>1. busy => /\ MmTypeOK(clear) /\ Sound(clear) /\ Owned(clear, C \cup D)
                  /\ \A q \in clear.areas :
                        q.end <= n.start \/ n.start + length <= q.start
      BY <1>2, <2>0, MunmapSound, MunmapOwned
    <2>2. ~busy => clear = m OBVIOUS
    <2>3. R = IF n.end <= n.start THEN [m |-> bad, at |-> n.start]
              ELSE MergeOrLink(clear, n)
      BY <1>2 DEF MmapRegion
    <2>4. busy => n.end = n.start + length
      <3>1. SUFFICES ASSUME busy PROVE n.end = n.start + length OBVIOUS
      <3>2. length <= kernel_min_address - n.start
        BY <1>2, <2>0, <3>1, PageAssumption, LayoutAssumption DEF MunmapInvalid, Addr
      <3>3. n.start + length < WORD
        BY <2>0, <3>2, PageAssumption, LayoutAssumption DEF Addr
      <3> QED BY <3>3 DEF Add
    <2>5. ~busy => \A q \in m.areas : q.end <= n.start \/ n.end <= q.start
      <3>1. \A q \in m.areas : q.start \in Addr /\ q.end \in Addr
        BY DEF MmTypeOK, AreaTypeOK
      <3> QED BY <2>0, <3>1, PageAssumption DEF Overlapped, Addr
    <2> HIDE DEF busy, clear, R
    <2>6. /\ MmTypeOK(clear) /\ Sound(clear) /\ Owned(clear, C \cup D)
          /\ FreeFor(clear.areas, n)
      BY <2>1, <2>2, <2>4, <2>5 DEF FreeFor
    <2>7. Owned(clear, C) /\ Fresh(clear, C, n) BY <2>6 DEF Owned, Fresh
    <2>8. CASE n.end <= n.start
      <3>1. bad.areas = clear.areas \cup {n} /\ bad.fds = clear.fds
        BY <2>6 DEF MmTypeOK, IsMm
      <3> HIDE DEF bad
      <3>2. Owned(bad, C) BY <2>7, <3>1 DEF Owned, Fresh
      <3> QED BY <2>3, <2>8, <3>2 DEF R
    <2>9. CASE ~(n.end <= n.start)
      <3>1. n.start < n.end BY <2>0, <2>9, PageAssumption DEF Addr
      <3>2. Owned(MergeOrLink(clear, n).m, C)
        BY <2>6, <2>7, <3>1, MergeOrLinkOwned
      <3> QED BY <2>3, <2>9, <3>2 DEF R
    <2> QED BY <2>8, <2>9
  <1> QED BY <1>1, <1>2

\* The descriptors of the program: mmap duplicates them.
Callers == {c.fd : c \in MmapCalls} \ {NoFd}

\* A step that commits m keeps the descriptors if m does.
LEMMA CommitOwned ==
  ASSUME NEW m, Commit(m), Owned(m, Callers)
  PROVE  Owned(Mm, Callers)'
  <1>1. areas' = m.areas /\ fds' = m.fds BY DEF Commit
  <1>2. Mm'.areas = m.areas /\ Mm'.fds = m.fds BY <1>1 DEF Mm
  <1>3. Owned(Mm', Callers) BY <1>2 DEF Owned
  <1> QED BY <1>3

\* syscall_mmap: the new area holds the duplicate it made.
LEMMA SysMmapOwned ==
  ASSUME IInv, Owned(Mm, Callers), NEW c \in MmapCalls, SysMmap(c)
  PROVE  Owned(Mm, Callers)'
  <1> DEFINE length == PAGE_ALIGN(c.length)
             fd == Dup(fds, c.fd)
             D == {fd} \ {NoFd}
             opened == [Mm EXCEPT !.fds = @ \cup ({fd} \ {NoFd})]
  <1>1. Running BY DEF SysMmap
  <1>2. /\ MmTypeOK(Mm) /\ Sound(Mm) /\ Mm.fds = fds /\ Cardinality(Fds \ fds) >= 3
    BY <1>1, RunningSound
  <1>3. c.length \in Addr /\ c.addr \in Addr /\ c.fd \in Fds \cup {NoFd}
    BY MmapCallsAssumption
  <1>4. length \in Addr BY <1>3, PageAlignType
  <1>5. /\ fd \in Fds \cup {NoFd}
        /\ fd # NoFd => fd \notin fds
    <2>1. Fds \ fds # {} BY <1>2, SpareExists
    <2>2. fd \in Fds \cup {NoFd} BY <1>3, <2>1, DupType
    <2>3. fd # NoFd => c.fd # NoFd BY DEF Dup
    <2> QED BY <2>1, <2>2, <2>3, DupFresh
  <1>6. PICK a \in GetUnmappedArea(Mm, c.addr, length, c.fixed) :
          IF MapTypeInvalid(c) THEN Commit(opened)
          ELSE Commit(MmapRegion(opened, NewArea(c, a, fd), length).m)
    BY <1>2 DEF SysMmap, MmapAt
  <1>7. a \in Addr BY <1>2, <1>3, <1>4, GetUnmappedAreaType
  <1>8. /\ IsMm(opened) /\ opened.areas = Mm.areas /\ opened.highest = Mm.highest
        /\ opened.heap = Mm.heap /\ opened.status = Mm.status
        /\ opened.fds = Mm.fds \cup D
    BY <1>2 DEF MmTypeOK, IsMm
  <1> HIDE DEF opened, fd, length
  <1>9. MmTypeOK(opened)
    <2>1. opened.fds \subseteq Fds BY <1>2, <1>5, <1>8 DEF MmTypeOK
    <2> QED BY <1>2, <1>8, <2>1 DEF MmTypeOK
  <1>10. Sound(opened) BY <1>2, <1>8 DEF Sound, HeapLinked
  <1>11. /\ Owned(opened, Callers) /\ Owned(opened, Callers \cup D)
         /\ D \subseteq opened.fds /\ D \cap Callers = {}
    BY <1>2, <1>5, <1>8 DEF Owned
  <1>12. CASE MapTypeInvalid(c) BY <1>6, <1>11, <1>12, CommitOwned
  <1>13. CASE ~MapTypeInvalid(c)
    <2> DEFINE n == NewArea(c, a, fd)
    <2>1. AreaTypeOK(n) /\ n.end = Add(n.start, length)
      BY <1>5, <1>7, NewAreaType DEF length
    <2>2. n.fd = fd BY DEF NewArea
    <2>3. Cardinality(Fds \ opened.fds) >= 2
      <3>1. opened.fds \subseteq fds \cup {fd} BY <1>2, <1>8
      <3>2. 2 \in Nat /\ Cardinality(Fds \ fds) >= 2 + 1 BY <1>2
      <3> QED BY <3>1, <3>2, SpareAfterOne
    <2>4. n.fd # NoFd => n.fd \in D /\ n.fd \notin Callers BY <1>11, <2>2
    <2> HIDE DEF n, D
    <2>5. Owned(MmapRegion(opened, n, length).m, Callers)
      BY <1>4, <1>9, <1>10, <1>11, <2>1, <2>3, <2>4, MmapRegionOwned
    <2> QED BY <1>6, <1>13, <2>5, CommitOwned DEF n
  <1> QED BY <1>12, <1>13

\* syscall_munmap closes the descriptors of the areas it removes.
LEMMA SysMunmapOwned ==
  ASSUME IInv, Owned(Mm, Callers), NEW a \in Addr, NEW length \in Addr,
         SysMunmap(a, length)
  PROVE  Owned(Mm, Callers)'
  <1>1. Running /\ ~MunmapInvalid(a, length) /\ Commit(Munmap(Mm, a, length))
    BY DEF SysMunmap
  <1>2. MmTypeOK(Mm) /\ Sound(Mm) /\ Mm.fds = fds /\ Cardinality(Fds \ fds) >= 3
    BY <1>1, RunningSound
  <1>3. Cardinality(Fds \ Mm.fds) >= 2
    <2>1. 2 \in Nat /\ Cardinality(Fds \ fds) >= 2 + 1 BY <1>2
    <2> QED BY <1>2, <2>1, SpareAfterOne
  <1>4. Owned(Munmap(Mm, a, length), Callers) BY <1>1, <1>2, <1>3, MunmapOwned
  <1> QED BY <1>1, <1>4, CommitOwned

\* Moving one end of an area and mapping it again keeps its descriptor.
LEMMA ResizedOwned ==
  ASSUME NEW m, MmTypeOK(m), NEW C, Owned(m, C), NEW r \in m.areas,
         NEW g, AreaTypeOK(g), g.fd = r.fd,
         NEW k, MmTypeOK(k), k.areas = (m.areas \ {r}) \cup {g}, k.fds = m.fds
  PROVE  Owned(MapVma(k, g), C)
  <1>1. Owned(k, C) BY ReplaceOwned
  <1> QED BY <1>1, MapVmaOwned

\* brk: the heap area has no descriptor when it is placed, and keeps what it
\* has when its end moves.
LEMMA SysBrkOwned ==
  ASSUME IInv, Owned(Mm, Callers), NEW b \in Addr, SysBrk(b)
  PROVE  Owned(Mm, Callers)'
  <1>1. Running BY DEF SysBrk
  <1>2. /\ MmTypeOK(Mm) /\ Sound(Mm) /\ Mm.fds = fds /\ Mm.heap = heap
        /\ Mm.areas = areas /\ Cardinality(Fds \ fds) >= 3
        /\ brk # 0 => heap # NULL
    BY <1>1, RunningSound
  <1>3. CASE BrkStart
    <2> DEFINE n == FirstHeapArea
               R == MmapRegion(Mm, n, PAGE_SIZE)
               w == [R.m EXCEPT !.heap = R.at]
    <2>1. Commit(w) BY <1>3 DEF BrkStart
    <2>2. /\ PAGE_SIZE \in Addr /\ user_heap_start \in Addr
          /\ user_heap_start + PAGE_SIZE \in Addr
      BY PageAssumption, LayoutAssumption DEF Addr
    <2>3. /\ AreaTypeOK(n) /\ n.start = user_heap_start /\ n.fd = NoFd
          /\ n.end = user_heap_start + PAGE_SIZE
      BY <2>2, PageAssumption DEF FirstHeapArea, AreaTypeOK, NoFile, NoFd, Fds
    <2> HIDE DEF n
    <2>4. n.end = Add(n.start, PAGE_SIZE)
      BY <2>2, <2>3, PageAssumption DEF Add, Addr
    <2>5. ~MunmapInvalid(n.start, PAGE_SIZE) /\ ~(n.end <= n.start)
      BY <2>3, PageAssumption, LayoutAssumption DEF MunmapInvalid
    <2>6. Cardinality(Fds \ Mm.fds) >= 2
      <3>1. 2 \in Nat /\ Cardinality(Fds \ fds) >= 2 + 1 BY <1>2
      <3> QED BY <1>2, <3>1, SpareAfterOne
    <2>7. Placed(R.m, R.at, Mm)
      BY <1>2, <2>2, <2>3, <2>4, <2>5, <2>6, MmapRegionSound
    <2>8. Owned(R.m, Callers)
      <3>1. Owned(Mm, Callers \cup {}) /\ {} \subseteq Mm.fds BY DEF Owned
      <3> QED BY <1>2, <2>2, <2>3, <2>4, <2>6, <3>1, MmapRegionOwned
    <2> HIDE DEF R
    <2>9. w.areas = R.m.areas /\ w.fds = R.m.fds
      BY <2>7 DEF Placed, MmTypeOK, IsMm
    <2> HIDE DEF w
    <2>10. Owned(w, Callers) BY <2>8, <2>9 DEF Owned
    <2> QED BY <2>1, <2>10, CommitOwned
  <1>4. CASE BrkNullHeap(b) \/ BrkDangling(b)
    <2>1. areas' = areas /\ fds' = fds BY <1>4 DEF BrkNullHeap, BrkDangling
    <2>2. Mm'.areas = Mm.areas /\ Mm'.fds = Mm.fds BY <2>1 DEF Mm
    <2>3. Owned(Mm', Callers) BY <2>2 DEF Owned
    <2> QED BY <2>3
  <1>5. CASE BrkGrow(b)
    <2> DEFINE e == PAGE_ALIGN(b)
               r == HeapVma(Mm)
               g == [r EXCEPT !.end = e]
               k == [Mm EXCEPT !.areas = (@ \ {r}) \cup {g}]
    <2>1. brk # 0 /\ heap # DANGLING /\ Commit(MapVma(k, g)) BY <1>5 DEF BrkGrow
    <2>2. e \in Addr BY PageAlignType
    <2>3. heap \in Addr BY <1>2, <2>1 DEF MmTypeOK
    <2>4. \E q \in Mm.areas : q.start = Mm.heap
      BY <1>2, <2>3 DEF Sound, HeapLinked
    <2>5. r \in Mm.areas BY <2>4 DEF HeapVma
    <2> HIDE DEF r, e
    <2>6. AreaTypeOK(g) /\ g.fd = r.fd BY <1>2, <2>2, <2>5 DEF MmTypeOK, AreaTypeOK
    <2> HIDE DEF g
    <2>7. /\ IsMm(k) /\ k.areas = (Mm.areas \ {r}) \cup {g} /\ k.highest = Mm.highest
          /\ k.heap = Mm.heap /\ k.fds = Mm.fds /\ k.status = Mm.status
      BY <1>2 DEF MmTypeOK, IsMm
    <2> HIDE DEF k
    <2>8. MmTypeOK(k) BY <1>2, <2>6, <2>7 DEF MmTypeOK
    <2>9. Owned(MapVma(k, g), Callers) BY <1>2, <2>5, <2>6, <2>7, <2>8, ResizedOwned
    <2> QED BY <2>1, <2>9, CommitOwned
  <1> QED BY <1>3, <1>4, <1>5 DEF SysBrk

\* A fault ends the program or moves the start of an area.
LEMMA UserPageFaultOwned ==
  ASSUME IInv, Owned(Mm, Callers), NEW a \in Addr, UserPageFault(a)
  PROVE  Owned(Mm, Callers)'
  <1>1. Running BY DEF UserPageFault
  <1>2. /\ MmTypeOK(Mm) /\ Mm.heap = heap /\ Mm.areas = areas
        /\ Mm.status = "run"
    BY <1>1, RunningSound
  <1>3. CASE FaultIsFatal(a)
    <2>1. areas' = areas /\ fds' = fds BY <1>3 DEF UserPageFault
    <2>2. Mm'.areas = Mm.areas /\ Mm'.fds = Mm.fds BY <2>1 DEF Mm
    <2>3. Owned(Mm', Callers) BY <2>2 DEF Owned
    <2> QED BY <2>3
  <1>4. CASE ~FaultIsFatal(a)
    <2> DEFINE r == VmaFind(areas, a)
               s == GrownStart(a)
               g == [r EXCEPT !.start = s]
               over == Overlapped(Mm.areas \ {r}, g.start, r.start)
               k == [Mm EXCEPT !.areas = (@ \ {r}) \cup {g},
                               !.heap = IF @ = r.start THEN g.start ELSE @,
                               !.status = IF over THEN "corrupt" ELSE @]
    <2>1. /\ EndingAbove(areas, a) # {} /\ ~StackTooDeep(a)
          /\ Commit(GrowStack(Mm, r, a))
      BY <1>4 DEF UserPageFault, FaultIsFatal
    <2>2. GrowStack(Mm, r, a) = MapVma(k, g) BY DEF GrowStack
    <2>3. r \in Mm.areas
      <3>1. EndingAbove(areas, a) \subseteq areas BY DEF EndingAbove
      <3>2. \A q \in EndingAbove(areas, a) : q.start \in Addr
        BY <1>2, <3>1 DEF MmTypeOK, AreaTypeOK
      <3> QED BY <1>2, <2>1, <3>1, <3>2, LowestExists DEF VmaFind
    <2>4. s \in Addr BY <2>1, GrownBelow
    <2> HIDE DEF r, s
    <2>5. AreaTypeOK(g) /\ g.fd = r.fd /\ g.start \in Addr
      BY <1>2, <2>3, <2>4 DEF MmTypeOK, AreaTypeOK
    <2> HIDE DEF g, over
    <2>6. /\ IsMm(k) /\ k.areas = (Mm.areas \ {r}) \cup {g} /\ k.highest = Mm.highest
          /\ k.heap = (IF Mm.heap = r.start THEN g.start ELSE Mm.heap)
          /\ k.fds = Mm.fds /\ k.status = IF over THEN "corrupt" ELSE "run"
      BY <1>2 DEF MmTypeOK, IsMm
    <2> HIDE DEF k
    <2>7. MmTypeOK(k)
      <3>1. k.heap \in Addr \cup {NULL, DANGLING} BY <1>2, <2>5, <2>6 DEF MmTypeOK
      <3>2. k.status \in {"run", "exit", "corrupt", "wild"} BY <2>6
      <3>3. \A q \in k.areas : AreaTypeOK(q) BY <1>2, <2>5, <2>6 DEF MmTypeOK
      <3> QED BY <1>2, <2>6, <3>1, <3>2, <3>3 DEF MmTypeOK
    <2>8. Owned(MapVma(k, g), Callers) BY <1>2, <2>3, <2>5, <2>6, <2>7, ResizedOwned
    <2> QED BY <2>1, <2>2, <2>8, CommitOwned
  <1> QED BY <1>3, <1>4

\* Every step keeps the descriptors apart.
LEMMA OwnedStep == IInv /\ Owned(Mm, Callers) /\ [Next]_vars => Owned(Mm, Callers)'
  <1> SUFFICES ASSUME IInv, Owned(Mm, Callers), [Next]_vars PROVE Owned(Mm, Callers)'
    OBVIOUS
  <1>1. ASSUME NEW c \in MmapCalls, SysMmap(c) PROVE Owned(Mm, Callers)'
    BY <1>1, SysMmapOwned
  <1>2. ASSUME NEW u \in MunmapCalls, SysMunmap(u[1], u[2]) PROVE Owned(Mm, Callers)'
    <2>1. u[1] \in Addr /\ u[2] \in Addr BY CallsAssumption
    <2> QED BY <1>2, <2>1, SysMunmapOwned
  <1>3. ASSUME NEW b \in BrkCalls, SysBrk(b) PROVE Owned(Mm, Callers)'
    <2>1. b \in Addr BY CallsAssumption
    <2> QED BY <1>3, <2>1, SysBrkOwned
  <1>4. ASSUME NEW a \in Touched, UserPageFault(a) PROVE Owned(Mm, Callers)'
    <2>1. a \in Addr BY CallsAssumption
    <2> QED BY <1>4, <2>1, UserPageFaultOwned
  <1>5. CASE UNCHANGED vars
    <2>1. Mm' = Mm BY <1>5 DEF vars, Mm
    <2> QED BY <2>1
  <1> QED BY <1>1, <1>2, <1>3, <1>4, <1>5 DEF Next

\* Every file mapping keeps a descriptor of its own open, however the program
\* maps, splits, merges and unmaps: vma_split, syscall_mmap and vma_remove
\* never close or share the descriptor of an area that stays.
THEOREM DescriptorsStayOwned == Spec => []OwnDescriptor
  <1>1. Mm.areas = areas /\ Mm.fds = fds BY DEF Mm
  <1>2. Init => Owned(Mm, Callers)
    BY <1>1, BootFdsAssumption DEF Init, Owned, Callers
  <1>3. Owned(Mm, Callers) => OwnDescriptor BY <1>1 DEF Owned, OwnDescriptor, Callers
  <1> QED BY <1>2, <1>3, IInvInit, IInvStep, OwnedStep, PTL DEF Spec
-----------------------------------------------------------------------------
(***************************************************************************)
(* The steps in terms of the operators: what a proof about another side of *)
(* the areas starts from.                                                  *)
(***************************************************************************)

\* syscall_mmap duplicates the descriptor, then refuses or calls mmap_region.
LEMMA SysMmapStages ==
  ASSUME IInv, NEW c \in MmapCalls, SysMmap(c)
  PROVE  \E a, opened, fd :
           /\ a \in GetUnmappedArea(Mm, c.addr, PAGE_ALIGN(c.length), c.fixed)
           /\ a \in Addr /\ fd \in Fds \cup {NoFd} /\ (c.fd = NoFd <=> fd = NoFd)
           /\ MmTypeOK(opened) /\ Sound(opened) /\ Cardinality(Fds \ opened.fds) >= 2
           /\ opened.areas = areas /\ opened.highest = highest /\ opened.heap = heap
           /\ opened.host = host /\ opened.status = "run"
           /\ IF MapTypeInvalid(c) THEN Commit(opened)
              ELSE Commit(MmapRegion(opened, NewArea(c, a, fd), PAGE_ALIGN(c.length)).m)
  <1> DEFINE length == PAGE_ALIGN(c.length)
             fd == Dup(fds, c.fd)
             opened == [Mm EXCEPT !.fds = @ \cup ({fd} \ {NoFd})]
  <1>1. Running BY DEF SysMmap
  <1>2. /\ MmTypeOK(Mm) /\ Sound(Mm) /\ Mm.fds = fds /\ Cardinality(Fds \ fds) >= 3
        /\ Mm.areas = areas /\ Mm.heap = heap /\ Mm.status = "run"
    BY <1>1, RunningSound
  <1>3. Mm.highest = highest /\ Mm.host = host BY DEF Mm
  <1>4. c.length \in Addr /\ c.addr \in Addr /\ c.fd \in Fds \cup {NoFd}
    BY MmapCallsAssumption
  <1>5. length \in Addr BY <1>4, PageAlignType
  <1>6. fd \in Fds \cup {NoFd} /\ (c.fd = NoFd <=> fd = NoFd)
    <2>1. Fds \ fds # {}
      <3>1. Cardinality(Fds \ fds) >= 3 BY <1>2
      <3> QED BY <3>1, SpareExists
    <2>2. NoFd \notin Fds BY DEF NoFd, Fds
    <2>3. c.fd # NoFd => fd \in Fds
      BY <1>4, <2>1, <2>2, DupFresh, DupType
    <2>4. c.fd = NoFd => fd = NoFd BY DEF Dup
    <2> QED BY <2>2, <2>3, <2>4
  <1>7. PICK a \in GetUnmappedArea(Mm, c.addr, length, c.fixed) :
          IF MapTypeInvalid(c) THEN Commit(opened)
          ELSE Commit(MmapRegion(opened, NewArea(c, a, fd), length).m)
    BY <1>2 DEF SysMmap, MmapAt
  <1>8. a \in Addr BY <1>2, <1>4, <1>5, GetUnmappedAreaType
  <1>9. /\ IsMm(opened) /\ opened.areas = areas /\ opened.highest = highest
        /\ opened.heap = heap /\ opened.status = "run" /\ opened.host = host
        /\ opened.fds = fds \cup ({fd} \ {NoFd})
    BY <1>2, <1>3 DEF MmTypeOK, IsMm
  <1> HIDE DEF opened, fd
  <1>10. MmTypeOK(opened)
    <2>1. opened.fds \subseteq Fds BY <1>2, <1>6, <1>9 DEF MmTypeOK
    <2> QED BY <1>2, <1>3, <1>9, <2>1 DEF MmTypeOK
  <1>11. Sound(opened) BY <1>2, <1>9 DEF Sound, HeapLinked
  <1>12. Cardinality(Fds \ opened.fds) >= 2
    <2>1. opened.fds \subseteq fds \cup {fd} BY <1>9
    <2>2. 2 \in Nat /\ Cardinality(Fds \ fds) >= 2 + 1 BY <1>2
    <2> QED BY <2>1, <2>2, SpareAfterOne
  <1> HIDE DEF length
  <1>13. \E o, f :
           /\ a \in Addr /\ f \in Fds \cup {NoFd} /\ (c.fd = NoFd <=> f = NoFd)
           /\ MmTypeOK(o) /\ Sound(o) /\ Cardinality(Fds \ o.fds) >= 2
           /\ o.areas = areas /\ o.highest = highest /\ o.heap = heap
           /\ o.host = host /\ o.status = "run"
           /\ IF MapTypeInvalid(c) THEN Commit(o)
              ELSE Commit(MmapRegion(o, NewArea(c, a, f), length).m)
    BY <1>6, <1>7, <1>8, <1>9, <1>10, <1>11, <1>12
  <1> QED BY <1>13 DEF length

\* brk moves the end of the area at user_heap_vma and maps it again.
LEMMA BrkGrowStages ==
  ASSUME IInv, Running, NEW b \in Addr, BrkGrow(b)
  PROVE  \E r, g, k :
           /\ r \in areas /\ r = HeapVma(Mm) /\ r.start = heap /\ heap \in Addr
           /\ g = [r EXCEPT !.end = PAGE_ALIGN(b)] /\ AreaTypeOK(g)
           /\ r.start < PAGE_ALIGN(b)
           /\ \A q \in areas : q.start > r.start => PAGE_ALIGN(b) <= q.start
           /\ MmTypeOK(k) /\ k.areas = (areas \ {r}) \cup {g} /\ k.highest = highest
           /\ k.heap = heap /\ k.host = host /\ k.status = "run"
           /\ Commit(MapVma(k, g))
  <1> DEFINE e == PAGE_ALIGN(b)
             r == HeapVma(Mm)
             g == [r EXCEPT !.end = e]
             k == [Mm EXCEPT !.areas = (@ \ {r}) \cup {g}]
  <1>1. /\ MmTypeOK(Mm) /\ Sound(Mm) /\ Mm.heap = heap /\ Mm.areas = areas
        /\ Mm.status = "run"
        /\ brk # 0 => heap # NULL
    BY RunningSound
  <1>2. Mm.highest = highest /\ Mm.host = host BY DEF Mm
  <1>3. /\ brk # 0 /\ heap # DANGLING /\ BrkFits(r, e) /\ Commit(MapVma(k, g))
    BY DEF BrkGrow
  <1>4. e \in Addr BY PageAlignType
  <1>5. heap \in Addr BY <1>1, <1>3 DEF MmTypeOK
  <1>6. \E q \in Mm.areas : q.start = Mm.heap BY <1>1, <1>5 DEF Sound, HeapLinked
  <1>7. r \in areas /\ r.start = heap BY <1>1, <1>6 DEF HeapVma
  <1>8. AreaTypeOK(r) BY <1>1, <1>7 DEF MmTypeOK
  <1> HIDE DEF r, e
  <1>9. AreaTypeOK(g) BY <1>4, <1>8 DEF AreaTypeOK
  <1>10. r.start < e /\ \A q \in areas : q.start > r.start => e <= q.start
    BY <1>3, <1>4, <1>8, PageAssumption DEF BrkFits, AreaTypeOK, Addr
  <1> HIDE DEF g
  <1>11. /\ IsMm(k) /\ k.areas = (areas \ {r}) \cup {g} /\ k.highest = highest
         /\ k.heap = heap /\ k.fds = Mm.fds /\ k.status = "run" /\ k.host = host
    BY <1>1, <1>2 DEF MmTypeOK, IsMm
  <1> HIDE DEF k
  <1>12. MmTypeOK(k) BY <1>1, <1>2, <1>9, <1>11 DEF MmTypeOK
  <1>13. \E u, v, w :
           /\ u = r /\ v = g /\ MmTypeOK(w) /\ w.areas = (areas \ {u}) \cup {v}
           /\ w.highest = highest /\ w.heap = heap /\ w.host = host /\ w.status = "run"
           /\ Commit(MapVma(w, v))
    BY <1>3, <1>11, <1>12
  <1> QED BY <1>5, <1>7, <1>9, <1>10, <1>13 DEF g, r, e

\* Two page boundaries are a page or more apart.
LEMMA PagesApart ==
  ASSUME NEW x \in Nat, NEW z \in Nat, PAGE_SIZE * x < PAGE_SIZE * z
  PROVE  PAGE_SIZE * x + PAGE_SIZE <= PAGE_SIZE * z
  <1>1. CASE z <= x
    <2>1. PICK d \in Nat : x = z + d BY <1>1
    <2>2. PAGE_SIZE * x = PAGE_SIZE * z + PAGE_SIZE * d BY <2>1, PageAssumption
    <2>3. PAGE_SIZE * d \in Nat /\ PAGE_SIZE * z \in Nat BY PageAssumption
    <2> QED BY <2>2, <2>3
  <1>2. CASE x < z
    <2>1. PICK d \in Nat : z = x + 1 + d BY <1>2
    <2>2. PAGE_SIZE * z = PAGE_SIZE * x + PAGE_SIZE + PAGE_SIZE * d
      BY <2>1, PageAssumption
    <2>3. PAGE_SIZE * d \in Nat /\ PAGE_SIZE * x \in Nat /\ PAGE_SIZE \in Nat
      BY PageAssumption
    <2> QED BY <2>2, <2>3
  <1> QED BY <1>1, <1>2

\* A brk that is accepted never moves the end of the heap area back, as long as
\* that end is the break or the first page.
LEMMA BrkMovesUp ==
  ASSUME IInv, Running, HeapEndsAtBreak, NEW b \in Addr, BrkGrow(b),
         NEW r \in areas, r = HeapVma(Mm), heap \in Addr, r.start < PAGE_ALIGN(b)
  PROVE  r.end <= PAGE_ALIGN(b)
  <1> DEFINE e == PAGE_ALIGN(b)
  <1>1. AreaTypeOK(r) BY RunningSound DEF MmTypeOK
  <1>2. /\ e \in Int /\ r.start \in Nat /\ r.end \in Int /\ b \in Int
        /\ WORD \in Int /\ PAGE_SIZE \in Int
    BY <1>1, PageAlignType, PageAssumption DEF AreaTypeOK, Addr
  <1>3. \/ r.end <= brk
        \/ r.start = user_heap_start /\ r.end = user_heap_start + PAGE_SIZE
    BY DEF HeapEndsAtBreak, Running
  <1>4. e # 0 BY <1>2
  <1>5. /\ b + PAGE_SIZE <= WORD => b <= e
        /\ b + PAGE_SIZE > WORD => e = 0
    BY PageAlignType
  <1>6. CASE r.end <= brk
    <2>1. brk \in Int /\ brk <= b BY RunningSound, PageAssumption DEF BrkGrow, Addr
    <2> QED BY <1>2, <1>4, <1>5, <1>6, <2>1
  <1>7. CASE r.start = user_heap_start /\ r.end = user_heap_start + PAGE_SIZE
    <2> DEFINE y == b + PAGE_SIZE - 1
               z == y \div PAGE_SIZE
               u == user_heap_start \div PAGE_SIZE
    <2>1. y \in Nat /\ z \in Nat BY PageAssumption DEF Addr
    <2>2. y - (y % PAGE_SIZE) = PAGE_SIZE * z BY <2>1, WholePages
    <2>3. y < WORD BY <1>2, <1>4, <1>5
    <2>4. e = y - (y % PAGE_SIZE)
      BY <2>1, <2>3, PageAssumption DEF PAGE_ALIGN, PAGE_ALIGN_DOWN
    <2>5. user_heap_start \in Nat /\ user_heap_start % PAGE_SIZE = 0 /\ u \in Nat
      BY LayoutAssumption, PageAssumption DEF Aligned
    <2>6. user_heap_start = PAGE_SIZE * u BY <2>5, WholePages
    <2>7. e = PAGE_SIZE * z BY <2>2, <2>4
    <2> HIDE DEF e, u, y, z
    <2> QED BY <1>7, <2>1, <2>5, <2>6, <2>7, PagesApart DEF e
  <1> QED BY <1>3, <1>6, <1>7

\* grow_stack moves the start of the area above the address and maps it again.
LEMMA GrowStages ==
  ASSUME IInv, Running, NEW a \in Addr, ~FaultIsFatal(a),
         Commit(GrowStack(Mm, VmaFind(areas, a), a))
  PROVE  \E r, g, k :
           /\ r \in areas /\ r = VmaFind(areas, a) /\ "GROWS" \in r.flags
           /\ a < r.start /\ GrownStart(a) \in Addr /\ GrownStart(a) <= a
           /\ g = [r EXCEPT !.start = GrownStart(a)] /\ AreaTypeOK(g)
           /\ MmTypeOK(k) /\ k.areas = (areas \ {r}) \cup {g} /\ k.highest = highest
           /\ k.host = host /\ k.heap = (IF heap = r.start THEN GrownStart(a) ELSE heap)
           /\ k.status = (IF Overlapped(areas \ {r}, GrownStart(a), r.start)
                          THEN "corrupt" ELSE "run")
           /\ Commit(MapVma(k, g))
  <1> DEFINE r == VmaFind(areas, a)
             s == GrownStart(a)
             g == [r EXCEPT !.start = s]
             over == Overlapped(Mm.areas \ {r}, g.start, r.start)
             k == [Mm EXCEPT !.areas = (@ \ {r}) \cup {g},
                             !.heap = IF @ = r.start THEN g.start ELSE @,
                             !.status = IF over THEN "corrupt" ELSE @]
  <1>1. /\ MmTypeOK(Mm) /\ Mm.heap = heap /\ Mm.areas = areas /\ Mm.status = "run"
    BY RunningSound
  <1>2. Mm.highest = highest /\ Mm.host = host BY DEF Mm
  <1>3. /\ EndingAbove(areas, a) # {} /\ ~StackTooDeep(a) /\ "GROWS" \in r.flags
        /\ ~(r.start <= a)
    BY DEF FaultIsFatal
  <1>4. GrowStack(Mm, r, a) = MapVma(k, g) BY DEF GrowStack
  <1>5. r \in areas
    <2>1. EndingAbove(areas, a) \subseteq areas BY DEF EndingAbove
    <2>2. \A q \in EndingAbove(areas, a) : q.start \in Addr
      BY <1>1, <2>1 DEF MmTypeOK, AreaTypeOK
    <2> QED BY <1>3, <2>1, <2>2, LowestExists DEF VmaFind
  <1>6. s \in Addr /\ s <= a BY <1>3, GrownBelow
  <1>7. AreaTypeOK(r) BY <1>1, <1>5 DEF MmTypeOK
  <1>8. a < r.start BY <1>3, <1>7, PageAssumption DEF AreaTypeOK, Addr
  <1>9. Commit(MapVma(k, g)) BY <1>4
  <1> HIDE DEF r, s
  <1>10. AreaTypeOK(g) /\ g.start = s BY <1>6, <1>7 DEF AreaTypeOK
  <1>11. over = Overlapped(areas \ {r}, s, r.start) BY <1>1, <1>10
  <1> HIDE DEF g, over
  <1>12. /\ IsMm(k) /\ k.areas = (areas \ {r}) \cup {g} /\ k.highest = highest
         /\ k.heap = (IF heap = r.start THEN s ELSE heap)
         /\ k.fds = Mm.fds /\ k.status = (IF over THEN "corrupt" ELSE "run")
         /\ k.host = host
    BY <1>1, <1>2, <1>10 DEF MmTypeOK, IsMm
  <1> HIDE DEF k
  <1>13. MmTypeOK(k)
    <2>1. k.heap \in Addr \cup {NULL, DANGLING} BY <1>1, <1>6, <1>12 DEF MmTypeOK
    <2>2. k.status \in {"run", "exit", "corrupt", "wild"} BY <1>12
    <2>3. \A q \in k.areas : AreaTypeOK(q) BY <1>1, <1>10, <1>12 DEF MmTypeOK
    <2> QED BY <1>1, <1>2, <1>12, <2>1, <2>2, <2>3 DEF MmTypeOK
  <1>14. \E u, v, w :
           /\ u = r /\ v = g /\ MmTypeOK(w) /\ w.areas = (areas \ {u}) \cup {v}
           /\ w.highest = highest /\ w.host = host
           /\ w.heap = (IF heap = r.start THEN s ELSE heap)
           /\ w.status = (IF Overlapped(areas \ {r}, s, r.start)
                          THEN "corrupt" ELSE "run")
           /\ Commit(MapVma(w, v))
    BY <1>9, <1>11, <1>12, <1>13
  <1> QED BY <1>3, <1>5, <1>6, <1>8, <1>10, <1>14 DEF r, g, s
=============================================================================
