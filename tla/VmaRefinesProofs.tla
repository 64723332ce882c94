------------------------- MODULE VmaRefinesProofs -------------------------
(***************************************************************************)
(* The areas of Vma implement AddrSpace: every call changes the backing of *)
(* exactly the pages it is about.  The argument runs over bytes (Holds),   *)
(* operation by operation, and turns to pages at the end.                  *)
(***************************************************************************)
EXTENDS VmaRefines, VmaProofs

-----------------------------------------------------------------------------
(***************************************************************************)
(* Page arithmetic.                                                        *)
(***************************************************************************)

\* A page boundary is a whole number of pages.
LEMMA AlignedWhole ==
  ASSUME NEW a \in Nat, Aligned(a)
  PROVE  Page(a) \in Nat /\ a = PAGE_SIZE * Page(a)
  <1>1. a - (a % PAGE_SIZE) = PAGE_SIZE * (a \div PAGE_SIZE) BY WholePages
  <1> QED BY <1>1, PageAssumption DEF Aligned, Page

\* A whole number of pages is a page boundary.
LEMMA WholeAligned ==
  ASSUME NEW z \in Nat
  PROVE  Aligned(PAGE_SIZE * z) /\ Page(PAGE_SIZE * z) = z
  BY PageAssumption DEF Aligned, Page

\* Comparing a page boundary with the first byte of a page compares pages.
LEMMA PageOrder ==
  ASSUME NEW a \in Nat, Aligned(a), NEW p \in Nat
  PROVE  a <= p * PAGE_SIZE <=> Page(a) <= p
  <1> DEFINE z == Page(a)
  <1>1. z \in Nat /\ a = PAGE_SIZE * z BY AlignedWhole
  <1> HIDE DEF z
  <1>2. p * PAGE_SIZE = PAGE_SIZE * p /\ p * PAGE_SIZE \in Nat BY PageAssumption
  <1>3. CASE z <= p
    <2>1. PICK d \in Nat : p = z + d BY <1>1, <1>3
    <2>2. PAGE_SIZE * p = PAGE_SIZE * z + PAGE_SIZE * d BY <1>1, <2>1, PageAssumption
    <2>3. PAGE_SIZE * d \in Nat BY PageAssumption
    <2> QED BY <1>1, <1>2, <1>3, <2>2, <2>3 DEF z
  <1>4. CASE p < z
    <2>1. PICK d \in Nat : z = p + 1 + d BY <1>1, <1>4
    <2>2. PAGE_SIZE * z = PAGE_SIZE * p + PAGE_SIZE + PAGE_SIZE * d BY <1>1, <2>1, PageAssumption
    <2>3. PAGE_SIZE * d \in Nat /\ PAGE_SIZE > 0 /\ PAGE_SIZE \in Nat BY PageAssumption
    <2> QED BY <1>1, <1>2, <1>4, <2>2, <2>3 DEF z
  <1> QED BY <1>1, <1>3, <1>4

\* Sums of page boundaries.
LEMMA AlignedSum ==
  ASSUME NEW a \in Nat, NEW b \in Nat, Aligned(a), Aligned(b)
  PROVE  Aligned(a + b) /\ Page(a + b) = Page(a) + Page(b)
  <1> DEFINE y == Page(a)
             z == Page(b)
  <1>1. y \in Nat /\ z \in Nat /\ a = PAGE_SIZE * y /\ b = PAGE_SIZE * z BY AlignedWhole
  <1> HIDE DEF y, z
  <1>2. a + b = PAGE_SIZE * (y + z) /\ y + z \in Nat BY <1>1, PageAssumption
  <1> QED BY <1>2, WholeAligned DEF y, z

\* The same for differences.
LEMMA AlignedDifference ==
  ASSUME NEW a \in Nat, NEW b \in Nat, Aligned(a), Aligned(b), a <= b
  PROVE  Aligned(b - a) /\ Page(b - a) = Page(b) - Page(a)
  <1> DEFINE y == Page(a)
             z == Page(b)
  <1>1. y \in Nat /\ z \in Nat /\ a = PAGE_SIZE * y /\ b = PAGE_SIZE * z BY AlignedWhole
  <1> HIDE DEF y, z
  <1>2. z * PAGE_SIZE = b BY <1>1, PageAssumption
  <1>3. y <= z BY <1>1, <1>2, PageOrder DEF y
  <1>4. b - a = PAGE_SIZE * (z - y) /\ z - y \in Nat BY <1>1, <1>3, PageAssumption
  <1> QED BY <1>4, WholeAligned DEF y, z

\* PAGE_ALIGN returns a page boundary.
LEMMA PageAlignAligned ==
  ASSUME NEW a \in Addr
  PROVE  Aligned(PAGE_ALIGN(a))
  <1> DEFINE y == a + PAGE_SIZE - 1
             z == y \div PAGE_SIZE
  <1>1. y \in Nat /\ z \in Nat BY PageAssumption DEF Addr
  <1>2. y - (y % PAGE_SIZE) = PAGE_SIZE * z BY <1>1, WholePages
  <1>3. CASE y < WORD
    <2>1. PAGE_ALIGN(a) = PAGE_SIZE * z
      BY <1>1, <1>2, <1>3, PageAssumption DEF PAGE_ALIGN, PAGE_ALIGN_DOWN
    <2> HIDE DEF z
    <2> QED BY <1>1, <2>1, WholeAligned
  <1>4. CASE y >= WORD
    <2>1. PAGE_ALIGN(a) = 0 BY <1>4, PageAlignType, PageAssumption DEF Addr
    <2>2. 0 % PAGE_SIZE = 0 BY PageAssumption
    <2> QED BY <2>1, <2>2 DEF Aligned
  <1> QED BY <1>1, <1>3, <1>4, PageAssumption

\* A page boundary is its own PAGE_ALIGN.
LEMMA PageAlignTwice ==
  ASSUME NEW a \in Addr, Aligned(a)
  PROVE  PAGE_ALIGN(a) = a
  <1> DEFINE z == Page(a)
  <1>1. z \in Nat /\ a = PAGE_SIZE * z /\ a < WORD /\ a \in Nat
    BY AlignedWhole, PageAssumption DEF Addr
  <1> HIDE DEF z
  <1>2. (a + PAGE_SIZE - 1) % PAGE_SIZE = PAGE_SIZE - 1
    BY <1>1, PageAssumption DEF Aligned
  <1>3. PAGE_ALIGN_DOWN(a + PAGE_SIZE - 1) = a
    BY <1>1, <1>2, PageAssumption DEF PAGE_ALIGN_DOWN
  <1> QED BY <1>1, <1>3 DEF PAGE_ALIGN

\* A file offset on a page boundary, moved by whole pages.
LEMMA AlignedShift ==
  ASSUME NEW x \in Int, Aligned(x), NEW y \in Nat, Aligned(y)
  PROVE  Aligned(x + y)
  <1> DEFINE i == x \div PAGE_SIZE
             j == y \div PAGE_SIZE
  <1>1. x = PAGE_SIZE * i /\ i \in Int /\ y = PAGE_SIZE * j /\ j \in Int
    BY PageAssumption DEF Aligned
  <1> HIDE DEF i, j
  <1>2. x + y = PAGE_SIZE * (i + j) BY <1>1, PageAssumption
  <1>3. (PAGE_SIZE * (i + j)) % PAGE_SIZE = 0 BY <1>1, PageAssumption
  <1> QED BY <1>2, <1>3 DEF Aligned

\* Less than a page is between no two page boundaries.
LEMMA OffsetsApart ==
  ASSUME NEW x \in Int, Aligned(x), NEW y \in Int, Aligned(y),
         NEW k \in Nat, 0 < k, k < PAGE_SIZE, x + k = y
  PROVE  FALSE
  <1> DEFINE i == x \div PAGE_SIZE
             j == y \div PAGE_SIZE
  <1>1. x = PAGE_SIZE * i /\ i \in Int /\ y = PAGE_SIZE * j /\ j \in Int
    BY PageAssumption DEF Aligned
  <1> HIDE DEF i, j
  <1>2. k = PAGE_SIZE * (j - i) BY <1>1, PageAssumption
  <1>3. CASE j - i <= 0
    <2>1. PAGE_SIZE * (j - i) <= 0 BY <1>1, <1>3, PageAssumption
    <2> QED BY <1>2, <2>1
  <1>4. CASE j - i >= 1
    <2>1. PAGE_SIZE * (j - i) >= PAGE_SIZE BY <1>1, <1>4, PageAssumption
    <2> QED BY <1>2, <2>1, PageAssumption
  <1> QED BY <1>1, <1>3, <1>4

-----------------------------------------------------------------------------
(***************************************************************************)
(* What a byte of the address space is backed by.                          *)
(***************************************************************************)
Cover(r, x) == r.start <= x /\ x < r.end
At(r, x) == Backing(r.file, r.flags, r.off + x - r.start)
Holds(S, x, b) == \E r \in S : Cover(r, x) /\ At(r, x) = b

Same(S, T) == \A x \in Nat : \A b : Holds(T, x, b) <=> Holds(S, x, b)

\* T is S without [a, e).
Cut(S, T, a, e) ==
    \A x \in Nat : \A b : Holds(T, x, b) <=> Holds(S, x, b) /\ ~(a <= x /\ x < e)

\* T is S with n added.
Put(S, T, n) ==
    \A x \in Nat : \A b : Holds(T, x, b) <=> Holds(S, x, b) \/ (Cover(n, x) /\ At(n, x) = b)

\* The area user_heap_vma points to is one that grows, so it is anonymous.
HeapGrows(m) == \A r \in m.areas : r.start = m.heap => "GROWS" \in r.flags
PlainMm(m) == (\A r \in m.areas : Plain(r)) /\ HeapGrows(m)

\* kernel_map_vma changes nothing of this.
LEMMA SameAreaAt ==
  ASSUME NEW v, NEW r, SameArea(v, r)
  PROVE  /\ v.start = r.start /\ v.flags = r.flags /\ v.file = r.file
         /\ Plain(v) <=> Plain(r)
         /\ \A x : (Cover(v, x) <=> Cover(r, x)) /\ At(v, x) = At(r, x)
  BY DEF SameArea, Plain, Cover, At

\* user_heap_vma points into no range that is free.
LEMMA HeapElsewhere ==
  ASSUME NEW m, MmTypeOK(m), Sound(m), NEW n, AreaTypeOK(n), n.start < n.end,
         FreeFor(m.areas, n)
  PROVE  m.heap # n.start
  <1>1. SUFFICES ASSUME m.heap = n.start PROVE FALSE OBVIOUS
  <1>2. n.start \in Addr BY DEF AreaTypeOK
  <1>3. PICK q \in m.areas : q.start = n.start BY <1>1, <1>2 DEF Sound, HeapLinked
  <1>4. q.start < q.end /\ (q.end <= n.start \/ n.end <= q.start)
    BY DEF Sound, WellFormed, FreeFor
  <1>5. q.start \in Int /\ q.end \in Int /\ n.start \in Int /\ n.end \in Int
    BY PageAssumption DEF MmTypeOK, AreaTypeOK, Addr
  <1> QED BY <1>3, <1>4, <1>5

\* vma_split at a page boundary.
LEMMA VmaSplitRef ==
  ASSUME NEW m, MmTypeOK(m), Sound(m), PlainMm(m), NEW r \in m.areas,
         NEW a \in Addr, Aligned(a), r.start < a, a < r.end,
         NEW below \in BOOLEAN, Fds \ m.fds # {}
  PROVE  LET w == VmaSplit(m, r, a, below) IN Same(m.areas, w.areas) /\ PlainMm(w)
  <1> DEFINE d == Dup(m.fds, r.fd)
             w == VmaSplit(m, r, a, below)
  <1>1. PICK lo, hi : /\ Halves(r, a, below, d, lo, hi)
                      /\ w.areas = (m.areas \ {r}) \cup {lo, hi}
    BY VmaSplitEffect
  <1>2. w.heap = (IF m.heap = r.start /\ below THEN a ELSE m.heap) BY VmaSplitEffect
  <1> HIDE DEF d, w
  <1>3. AreaTypeOK(r) /\ Plain(r) BY DEF MmTypeOK, PlainMm
  <1>4. /\ r.start \in Nat /\ r.end \in Nat /\ a \in Nat /\ r.off \in Int
        /\ Aligned(r.start) /\ Aligned(r.end)
    BY <1>3, PageAssumption DEF AreaTypeOK, Addr, Plain
  <1>5. Aligned(a - r.start) /\ a - r.start \in Nat BY <1>4, AlignedDifference
  <1>6. PAGE_ALIGN_DOWN(a - r.start) = a - r.start
    BY <1>5 DEF PAGE_ALIGN_DOWN, Aligned
  <1>7. /\ lo.start = r.start /\ lo.end = a /\ hi.start = a /\ hi.end = r.end
        /\ lo.flags = r.flags /\ lo.file = r.file /\ lo.off = r.off
        /\ hi.flags = r.flags /\ hi.file = r.file /\ hi.off = r.off + (a - r.start)
    BY <1>1, <1>6 DEF Halves
  <1>8. \A x \in Nat : /\ Cover(r, x) <=> Cover(lo, x) \/ Cover(hi, x)
                       /\ At(lo, x) = At(r, x)
    BY <1>4, <1>7 DEF Cover, At
  <1>9. \A x \in Nat : At(hi, x) = At(r, x)
    <2> TAKE x \in Nat
    <2>1. hi.off + x - hi.start = r.off + x - r.start BY <1>4, <1>7
    <2> QED BY <1>7, <2>1 DEF At
  <1>10. Same(m.areas, w.areas) BY <1>1, <1>8, <1>9 DEF Same, Holds
  <1>11. Plain(lo) /\ Plain(hi)
    <2>1. r.file # NoFile => /\ r.file \in Nat /\ Aligned(r.off)
                             /\ r.end - r.start < PAGE_SIZE * PAGE_SIZE
      BY <1>3 DEF Plain
    <2>2. Aligned(r.off) => Aligned(r.off + (a - r.start))
      BY <1>4, <1>5, AlignedShift
    <2>3. PAGE_SIZE * PAGE_SIZE \in Int BY PageAssumption
    <2>4. r.end - r.start < PAGE_SIZE * PAGE_SIZE =>
            a - r.start < PAGE_SIZE * PAGE_SIZE /\ r.end - a < PAGE_SIZE * PAGE_SIZE
      BY <1>4, <2>3
    <2>5. "GROWS" \in r.flags => r.file = NoFile BY <1>3 DEF Plain
    <2> QED BY <1>4, <1>7, <2>1, <2>2, <2>4, <2>5 DEF Plain
  <1>12. HeapGrows(w)
    <2>1. \A q \in m.areas : q.start = m.heap => "GROWS" \in q.flags
      BY DEF PlainMm, HeapGrows
    <2>2. m.heap # a
      <3>1. SUFFICES ASSUME m.heap = a PROVE FALSE OBVIOUS
      <3>2. PICK q \in m.areas : q.start = a BY <3>1 DEF Sound, HeapLinked
      <3>3. q = r \/ q.end <= r.start \/ r.end <= q.start
        BY DEF Sound, PairwiseDisjoint
      <3>4. q.start < q.end /\ q.end \in Int
        BY PageAssumption DEF Sound, WellFormed, MmTypeOK, AreaTypeOK, Addr
      <3> QED BY <1>4, <3>2, <3>3, <3>4
    <2>3. ASSUME NEW q \in w.areas, q.start = w.heap PROVE "GROWS" \in q.flags
      <3>1. CASE q \in m.areas \ {r}
        <4>1. CASE m.heap = r.start /\ below
          <5>1. q.start = a BY <1>2, <2>3, <4>1
          <5>2. q.end <= r.start \/ r.end <= q.start
            BY <3>1 DEF Sound, PairwiseDisjoint
          <5>3. q.start < q.end /\ q.end \in Int
            BY <3>1, PageAssumption DEF Sound, WellFormed, MmTypeOK, AreaTypeOK, Addr
          <5> QED BY <1>4, <5>1, <5>2, <5>3
        <4>2. CASE ~(m.heap = r.start /\ below) BY <1>2, <2>1, <2>3, <3>1, <4>2
        <4> QED BY <4>1, <4>2
      <3>2. CASE q = lo \/ q = hi
        <4>1. m.heap = r.start BY <1>2, <1>4, <1>7, <2>2, <2>3, <3>2
        <4> QED BY <1>7, <2>1, <3>2, <4>1
      <3> QED BY <1>1, <3>1, <3>2
    <2> QED BY <2>3 DEF HeapGrows
  <1>13. \A q \in w.areas : Plain(q) BY <1>1, <1>11 DEF PlainMm
  <1> QED BY <1>10, <1>12, <1>13 DEF PlainMm, w

\* munmap's splits.
LEMMA SplitAtRef ==
  ASSUME NEW m, MmTypeOK(m), Sound(m), PlainMm(m), NEW a \in Addr, Aligned(a),
         NEW below \in BOOLEAN, Fds \ m.fds # {}
  PROVE  LET w == SplitAt(m, a, below) IN Same(m.areas, w.areas) /\ PlainMm(w)
  <1> DEFINE E == EndingAbove(m.areas, a)
             f == VmaFind(m.areas, a)
  <1>1. \A r \in m.areas : r.start \in Addr /\ r.end \in Addr
    BY DEF MmTypeOK, AreaTypeOK
  <1>2. E \subseteq m.areas /\ \A r \in E : r.end > a BY DEF EndingAbove
  <1>3. E # {} => f \in E BY <1>1, <1>2, LowestExists DEF VmaFind
  <1>4. CASE E # {} /\ a > f.start
    <2>1. f \in m.areas /\ f.start < a /\ a < f.end
      BY <1>1, <1>2, <1>3, <1>4, PageAssumption DEF Addr
    <2>2. SplitAt(m, a, below) = VmaSplit(m, f, a, below) BY <1>4 DEF SplitAt
    <2> HIDE DEF f
    <2> QED BY <2>1, <2>2, VmaSplitRef
  <1>5. CASE ~(E # {} /\ a > f.start) BY <1>5 DEF SplitAt, Same
  <1> QED BY <1>4, <1>5

\* syscall_munmap takes exactly its range out.
LEMMA MunmapRef ==
  ASSUME NEW m, MmTypeOK(m), Sound(m), PlainMm(m), NEW a \in Addr, NEW length \in Addr,
         ~MunmapInvalid(a, length), Cardinality(Fds \ m.fds) >= 2
  PROVE  LET w == Munmap(m, a, length)
         IN  Cut(m.areas, w.areas, a, a + PAGE_ALIGN(length)) /\ PlainMm(w)
  <1> DEFINE e == a + PAGE_ALIGN(length)
             m1 == SplitAt(m, a, FALSE)
             m2 == Ends(m, a, e)
             gone == Inside(m2, a, e)
             cut == Detached(m2, a, e)
             w == Munmap(m, a, length)
  <1>1. e \in Addr /\ Aligned(a) BY MunmapEnd DEF MunmapInvalid
  <1>2. Aligned(e)
    <2>1. Aligned(PAGE_ALIGN(length)) /\ PAGE_ALIGN(length) \in Nat /\ a \in Nat
      BY PageAlignAligned, PageAlignType, PageAssumption DEF Addr
    <2> QED BY <1>1, <2>1, AlignedSum
  <1>3. a \in Int /\ e \in Int BY <1>1, PageAssumption DEF Addr
  <1> HIDE DEF e
  <1>4. CASE Overlapped(m.areas, a, e)
    <2>1. EndingAbove(m.areas, a) # {} BY <1>4 DEF Overlapped, EndingAbove
    <2>2. w = VmaRemove(cut, gone) BY <1>4, <2>1, MunmapRangeStages DEF Munmap, e
    <2>3. /\ Fds \ m.fds # {} /\ Fds \ m1.fds # {}
          /\ MmTypeOK(m1) /\ Sound(m1) /\ MmTypeOK(m2)
          /\ NoStraddle(m2.areas, a) /\ NoStraddle(m2.areas, e)
      BY <1>1, EndsSound
    <2>4. Same(m.areas, m1.areas) /\ PlainMm(m1) BY <1>1, <2>3, SplitAtRef
    <2>5. m2 = SplitAt(m1, e, TRUE) BY DEF Ends
    <2> HIDE DEF m1, m2, w
    <2>6. Same(m1.areas, m2.areas) /\ PlainMm(m2)
      BY <1>1, <1>2, <2>3, <2>4, <2>5, SplitAtRef
    <2>7. Same(m.areas, m2.areas) BY <2>4, <2>6 DEF Same
    <2>8. /\ MmTypeOK(cut) /\ cut.areas = Outside(m2, a, e) /\ cut.heap = m2.heap
      BY <1>1, <2>3, DetachedEffect
    <2> HIDE DEF cut
    <2>9. /\ w.areas = cut.areas
          /\ w.heap = IF \E r \in gone : r.start = cut.heap THEN DANGLING ELSE cut.heap
      BY <2>2, <2>8, VmaRemoveEffect
    <2>10. \A r \in m2.areas : r.start \in Int /\ r.end \in Int /\ r.start \in Addr
      BY <2>3, PageAssumption DEF MmTypeOK, AreaTypeOK, Addr
    <2>11. ASSUME NEW r \in m2.areas, NEW x \in Nat, Cover(r, x)
           PROVE  r \in Outside(m2, a, e) <=> ~(a <= x /\ x < e)
      <3>1. /\ r.start >= a \/ r.end <= a
            /\ r.start >= e \/ r.end <= e
        BY <2>3 DEF NoStraddle
      <3> QED BY <1>3, <2>10, <2>11, <3>1 DEF Cover, Outside, Inside
    <2>12. w.areas = Outside(m2, a, e) /\ Outside(m2, a, e) \subseteq m2.areas
      BY <2>8, <2>9 DEF Outside
    <2>13. Cut(m2.areas, w.areas, a, e) BY <2>11, <2>12 DEF Cut, Holds
    <2>14. Cut(m.areas, w.areas, a, e) BY <2>7, <2>13 DEF Cut, Same
    <2>15. HeapGrows(w)
      <3>1. DANGLING \notin Addr BY PageAssumption DEF DANGLING, Addr
      <3>2. \A r \in m2.areas : r.start = m2.heap => "GROWS" \in r.flags
        BY <2>6 DEF PlainMm, HeapGrows
      <3> QED BY <2>8, <2>9, <2>10, <2>12, <3>1, <3>2 DEF HeapGrows
    <2>16. PlainMm(w) BY <2>6, <2>12, <2>15 DEF PlainMm
    <2> QED BY <2>14, <2>16 DEF w, e
  <1>5. CASE ~Overlapped(m.areas, a, e)
    <2>1. w = m BY <1>5 DEF Munmap, e
    <2>2. \A r \in m.areas : r.start \in Int /\ r.end \in Int
      BY PageAssumption DEF MmTypeOK, AreaTypeOK, Addr
    <2>3. \A r \in m.areas : r.end <= a \/ e <= r.start
      BY <1>3, <1>5, <2>2 DEF Overlapped
    <2>4. \A r \in m.areas : \A x \in Nat : Cover(r, x) => ~(a <= x /\ x < e)
      BY <1>3, <2>2, <2>3 DEF Cover
    <2>5. Cut(m.areas, m.areas, a, e) BY <2>4 DEF Cut, Holds
    <2> QED BY <2>1, <2>5 DEF e
  <1> QED BY <1>4, <1>5
-----------------------------------------------------------------------------
(***************************************************************************)
(* Merging.                                                                *)
(***************************************************************************)

\* The length in pages of a short range of whole pages.
LEMMA PagesFew ==
  ASSUME NEW a \in Addr, NEW e \in Addr, Aligned(a), Aligned(e), a < e,
         e - a < PAGE_SIZE * PAGE_SIZE
  PROVE  PAGE_DIFFERENCE(e, a) \in Nat /\ 0 < PAGE_DIFFERENCE(e, a)
         /\ PAGE_DIFFERENCE(e, a) < PAGE_SIZE
  <1> DEFINE z == Page(e - a)
  <1>1. a \in Nat /\ e \in Nat /\ a <= e /\ e - a \in Nat BY PageAssumption DEF Addr
  <1>2. Aligned(e - a) BY <1>1, AlignedDifference
  <1>3. z \in Nat /\ e - a = PAGE_SIZE * z BY <1>1, <1>2, AlignedWhole
  <1>4. PAGE_DIFFERENCE(e, a) = z BY <1>1 DEF PAGE_DIFFERENCE, Sub, Page
  <1> HIDE DEF z
  <1>5. 0 < z
    <2>1. SUFFICES ASSUME z = 0 PROVE FALSE BY <1>3
    <2>2. PAGE_SIZE * z = 0 BY <2>1, PageAssumption
    <2> QED BY <1>1, <1>3, <2>2
  <1>6. z < PAGE_SIZE
    <2>1. SUFFICES ASSUME PAGE_SIZE <= z PROVE FALSE BY <1>3, PageAssumption
    <2>2. PICK d \in Nat : z = PAGE_SIZE + d BY <1>3, <2>1, PageAssumption
    <2>3. PAGE_SIZE * z = PAGE_SIZE * PAGE_SIZE + PAGE_SIZE * d BY <2>2, PageAssumption
    <2>4. PAGE_SIZE * d \in Nat /\ PAGE_SIZE * PAGE_SIZE \in Nat BY PageAssumption
    <2> QED BY <1>1, <1>3, <2>3, <2>4
  <1> QED BY <1>3, <1>4, <1>5, <1>6

\* A new area of whole pages; one of a file holds a descriptor.
NewPlain(n) ==
    AreaTypeOK(n) /\ n.start < n.end /\ Plain(n) /\ (n.file # NoFile => n.fd # NoFd)

\* File mappings of fewer than PAGE_SIZE pages are never joined: the tests
\* compare a number of pages with a difference of byte offsets.
LEMMA FilesApart ==
  ASSUME NEW n, NewPlain(n), n.file # NoFile, NEW p, AreaTypeOK(p), p.start < p.end, Plain(p)
  PROVE  ~MergesAfter(p, n) /\ ~MergesBefore(p, n)
  <1>1. /\ n.start \in Addr /\ n.end \in Addr /\ p.start \in Addr /\ p.end \in Addr
        /\ n.off \in Int /\ p.off \in Int /\ n.start < n.end /\ n.fd # NoFd
    BY DEF NewPlain, AreaTypeOK
  <1>2. /\ Aligned(n.start) /\ Aligned(n.end) /\ Aligned(n.off)
        /\ n.end - n.start < PAGE_SIZE * PAGE_SIZE
    BY DEF NewPlain, Plain
  <1>3. SUFFICES ASSUME p.file = n.file
                 PROVE  /\ p.off + PgLen(p.start, p.end, n.fd) # n.off
                        /\ p.off # n.off + PgLen(n.start, n.end, n.fd)
    BY DEF MergesAfter, MergesBefore, CanMerge
  <1>4. /\ Aligned(p.start) /\ Aligned(p.end) /\ Aligned(p.off)
        /\ p.end - p.start < PAGE_SIZE * PAGE_SIZE
    BY <1>3 DEF Plain
  <1>5. /\ PgLen(p.start, p.end, n.fd) = PAGE_DIFFERENCE(p.end, p.start)
        /\ PgLen(n.start, n.end, n.fd) = PAGE_DIFFERENCE(n.end, n.start)
    BY <1>1 DEF PgLen
  <1>6. /\ PAGE_DIFFERENCE(p.end, p.start) \in Nat /\ 0 < PAGE_DIFFERENCE(p.end, p.start)
        /\ PAGE_DIFFERENCE(p.end, p.start) < PAGE_SIZE
    BY <1>1, <1>4, PagesFew
  <1>7. /\ PAGE_DIFFERENCE(n.end, n.start) \in Nat /\ 0 < PAGE_DIFFERENCE(n.end, n.start)
        /\ PAGE_DIFFERENCE(n.end, n.start) < PAGE_SIZE
    BY <1>1, <1>2, PagesFew
  <1>8. p.off + PgLen(p.start, p.end, n.fd) # n.off
    BY <1>1, <1>2, <1>4, <1>5, <1>6, OffsetsApart
  <1>9. p.off # n.off + PgLen(n.start, n.end, n.fd)
    BY <1>1, <1>2, <1>4, <1>5, <1>7, OffsetsApart
  <1> QED BY <1>8, <1>9

\* What a merge needs to know: one anonymous area v takes the place of the
\* areas in `old` and of the new range n.
Absorbs(old, n, v) ==
    /\ Plain(v) /\ v.file = NoFile /\ v.flags = n.flags /\ n.file = NoFile
    /\ \A r \in old : r.file = NoFile /\ r.flags = n.flags
    /\ \A x \in Nat : Cover(v, x) <=> Cover(n, x) \/ \E r \in old : Cover(r, x)

\* Then exactly the new range was added.
LEMMA AbsorbPut ==
  ASSUME NEW S, NEW old \in SUBSET S, NEW n, NEW v, Absorbs(old, n, v),
         NEW T, T = (S \ old) \cup {v}
  PROVE  Put(S, T, n)
  <1> DEFINE B == Backing(NoFile, n.flags, 0)
  <1>1. \A x : At(v, x) = B /\ At(n, x) = B /\ \A r \in old : At(r, x) = B
    BY DEF Absorbs, At, Backing
  <1> HIDE DEF B
  <1>2. SUFFICES ASSUME NEW x \in Nat, NEW b
                 PROVE  Holds(T, x, b) <=> Holds(S, x, b) \/ (Cover(n, x) /\ At(n, x) = b)
    BY DEF Put
  <1>3. Cover(v, x) <=> Cover(n, x) \/ \E r \in old : Cover(r, x) BY DEF Absorbs
  <1>4. Holds(T, x, b) => Holds(S, x, b) \/ (Cover(n, x) /\ At(n, x) = b)
    BY <1>1, <1>3 DEF Holds
  <1>5. Holds(S, x, b) => Holds(T, x, b) BY <1>1, <1>3 DEF Holds
  <1>6. Cover(n, x) /\ At(n, x) = b => Holds(T, x, b) BY <1>1, <1>3 DEF Holds
  <1> QED BY <1>4, <1>5, <1>6

\* An area is known by its start.
LEMMA SameStart ==
  ASSUME NEW m, MmTypeOK(m), Sound(m), NEW r \in m.areas, NEW q \in m.areas,
         r.start = q.start
  PROVE  r = q
  <1>1. r.start < r.end /\ q.start < q.end BY DEF Sound, WellFormed
  <1>2. r = q \/ r.end <= q.start \/ q.end <= r.start BY DEF Sound, PairwiseDisjoint
  <1>3. r.start \in Int /\ r.end \in Int /\ q.start \in Int /\ q.end \in Int
    BY PageAssumption DEF MmTypeOK, AreaTypeOK, Addr
  <1> QED BY <1>1, <1>2, <1>3

\* What MergeOrLink promises: n is added, and the area it ended up in has its flags.
Joined(m, n, w, at) ==
    /\ Put(m.areas, w.areas, n) /\ PlainMm(w)
    /\ \E v \in w.areas : v.start = at /\ v.flags = n.flags

\* Case 1 of vma_merge.
LEMMA MergeBothRef ==
  ASSUME NEW m, MmTypeOK(m), Sound(m), PlainMm(m), NEW n, NewPlain(n),
         FreeFor(m.areas, n), NEW p \in m.areas, NEW q \in m.areas,
         MergesAfter(p, n), MergesBefore(q, n), n.file = NoFile
  PROVE  Joined(m, n, MergeBoth(m, p, q), p.start)
  <1> DEFINE w == MergeBoth(m, p, q)
             g == [p EXCEPT !.end = q.end]
  <1>1. AreaTypeOK(p) /\ AreaTypeOK(q) /\ AreaTypeOK(n) BY DEF MmTypeOK, NewPlain
  <1>2. /\ p.start < p.end /\ q.start < q.end /\ n.start < n.end
        /\ p.end = n.start /\ q.start = n.end
        /\ p.flags = n.flags /\ q.flags = n.flags /\ p.file = NoFile /\ q.file = NoFile
        /\ Plain(p) /\ Plain(q)
    BY DEF Sound, WellFormed, NewPlain, MergesAfter, MergesBefore, CanMerge, PlainMm
  <1>3. /\ p.start \in Int /\ p.end \in Int /\ q.start \in Int /\ q.end \in Int
        /\ p.start \in Addr /\ q.start \in Addr
    BY <1>1, PageAssumption DEF AreaTypeOK, Addr
  <1>4. p.end < q.start BY <1>2, <1>3
  <1>5. w.heap = (IF m.heap = q.start THEN DANGLING ELSE m.heap)
    BY <1>4, MergeBothEffect
  <1>6. PICK v : SameArea(v, g) /\ w.areas = (m.areas \ {p, q}) \cup {v}
    BY <1>4, MergeBothEffect
  <1>7. g.start = p.start /\ g.end = q.end /\ g.flags = p.flags /\ g.file = p.file
    BY <1>1 DEF AreaTypeOK
  <1>8. v.start = p.start /\ v.end = q.end /\ v.flags = n.flags /\ v.file = NoFile
    BY <1>2, <1>6, <1>7 DEF SameArea
  <1> HIDE DEF w, g
  <1>9. Absorbs({p, q}, n, v)
    <2>1. Plain(v) BY <1>2, <1>8 DEF Plain
    <2>2. \A x \in Nat : Cover(v, x) <=> Cover(n, x) \/ \E r \in {p, q} : Cover(r, x)
      BY <1>2, <1>3, <1>8 DEF Cover
    <2> QED BY <1>2, <1>8, <2>1, <2>2 DEF Absorbs
  <1>10. Put(m.areas, w.areas, n) BY <1>6, <1>9, AbsorbPut
  <1>11. HeapGrows(w)
    <2>1. \A r \in m.areas : r.start = m.heap => "GROWS" \in r.flags
      BY DEF PlainMm, HeapGrows
    <2>2. DANGLING \notin Addr BY PageAssumption DEF DANGLING, Addr
    <2>3. \A r \in m.areas : r.start \in Addr BY DEF MmTypeOK, AreaTypeOK
    <2> QED BY <1>2, <1>3, <1>5, <1>6, <1>8, <2>1, <2>2, <2>3 DEF HeapGrows
  <1>12. PlainMm(w) BY <1>6, <1>9, <1>11 DEF PlainMm, Absorbs
  <1> QED BY <1>6, <1>8, <1>10, <1>12 DEF Joined, w

\* Case 2.
LEMMA MergeUpRef ==
  ASSUME NEW m, MmTypeOK(m), Sound(m), PlainMm(m), NEW n, NewPlain(n),
         FreeFor(m.areas, n), NEW p \in m.areas, MergesAfter(p, n), n.file = NoFile
  PROVE  Joined(m, n, MergeUp(m, p, n), p.start)
  <1> DEFINE w == MergeUp(m, p, n)
             g == [p EXCEPT !.end = n.end]
  <1>1. AreaTypeOK(p) /\ AreaTypeOK(n) BY DEF MmTypeOK, NewPlain
  <1>2. /\ p.start < p.end /\ n.start < n.end /\ p.end = n.start
        /\ p.flags = n.flags /\ p.file = NoFile /\ Plain(p) /\ Plain(n)
    BY DEF Sound, WellFormed, NewPlain, MergesAfter, CanMerge, PlainMm
  <1>3. p.start \in Int /\ p.end \in Int /\ n.end \in Int /\ n.start \in Int
    BY <1>1, PageAssumption DEF AreaTypeOK, Addr
  <1>5. w.heap = m.heap BY <1>1, MergeUpEffect
  <1>6. PICK v : SameArea(v, g) /\ w.areas = (m.areas \ {p}) \cup {v}
    BY <1>1, MergeUpEffect
  <1>7. g.start = p.start /\ g.end = n.end /\ g.flags = p.flags /\ g.file = p.file
    BY <1>1 DEF AreaTypeOK
  <1>8. v.start = p.start /\ v.end = n.end /\ v.flags = n.flags /\ v.file = NoFile
    BY <1>2, <1>6, <1>7 DEF SameArea
  <1> HIDE DEF w, g
  <1>9. Absorbs({p}, n, v)
    <2>1. Plain(v) BY <1>2, <1>8 DEF Plain
    <2>2. \A x \in Nat : Cover(v, x) <=> Cover(n, x) \/ \E r \in {p} : Cover(r, x)
      BY <1>2, <1>3, <1>8 DEF Cover
    <2> QED BY <1>2, <1>8, <2>1, <2>2 DEF Absorbs
  <1>10. Put(m.areas, w.areas, n) BY <1>6, <1>9, AbsorbPut
  <1>11. HeapGrows(w)
    <2>1. \A r \in m.areas : r.start = m.heap => "GROWS" \in r.flags
      BY DEF PlainMm, HeapGrows
    <2> QED BY <1>2, <1>5, <1>6, <1>8, <2>1 DEF HeapGrows
  <1>12. PlainMm(w) BY <1>6, <1>9, <1>11 DEF PlainMm, Absorbs
  <1> QED BY <1>6, <1>8, <1>10, <1>12 DEF Joined, w

\* Case 3.
LEMMA MergeDownRef ==
  ASSUME NEW m, MmTypeOK(m), Sound(m), PlainMm(m), NEW n, NewPlain(n),
         FreeFor(m.areas, n), NEW q \in m.areas, MergesBefore(q, n), n.file = NoFile
  PROVE  Joined(m, n, MergeDown(m, q, n), n.start)
  <1> DEFINE w == MergeDown(m, q, n)
             g == GrownDown(q, n)
  <1>1. AreaTypeOK(q) /\ AreaTypeOK(n) BY DEF MmTypeOK, NewPlain
  <1>2. /\ q.start < q.end /\ n.start < n.end /\ q.start = n.end /\ n.end = q.start
        /\ q.flags = n.flags /\ q.file = NoFile /\ Plain(q) /\ Plain(n)
    BY DEF Sound, WellFormed, NewPlain, MergesBefore, CanMerge, PlainMm
  <1>3. q.start \in Int /\ q.end \in Int /\ n.end \in Int /\ n.start \in Int
    BY <1>1, PageAssumption DEF AreaTypeOK, Addr
  <1>5. w.heap = (IF m.heap = q.start THEN n.start ELSE m.heap)
    BY <1>1, <1>2, MergeDownEffect
  <1>6. PICK v : SameArea(v, g) /\ w.areas = (m.areas \ {q}) \cup {v}
    BY <1>1, <1>2, MergeDownEffect
  <1>7. g.start = n.start /\ g.end = q.end /\ g.flags = q.flags /\ g.file = q.file
    BY <1>1 DEF AreaTypeOK, GrownDown
  <1>8. v.start = n.start /\ v.end = q.end /\ v.flags = n.flags /\ v.file = NoFile
    BY <1>2, <1>6, <1>7 DEF SameArea
  <1> HIDE DEF w, g
  <1>9. Absorbs({q}, n, v)
    <2>1. Plain(v) BY <1>2, <1>8 DEF Plain
    <2>2. \A x \in Nat : Cover(v, x) <=> Cover(n, x) \/ \E r \in {q} : Cover(r, x)
      BY <1>2, <1>3, <1>8 DEF Cover
    <2> QED BY <1>2, <1>8, <2>1, <2>2 DEF Absorbs
  <1>10. Put(m.areas, w.areas, n) BY <1>6, <1>9, AbsorbPut
  <1>11. HeapGrows(w)
    <2>1. \A r \in m.areas : r.start = m.heap => "GROWS" \in r.flags
      BY DEF PlainMm, HeapGrows
    <2>2. m.heap # n.start BY <1>1, <1>2, HeapElsewhere
    <2>3. ASSUME NEW r \in m.areas PROVE r.start # n.start
      <3>1. r.end <= n.start \/ n.end <= r.start BY DEF FreeFor
      <3>2. r.start < r.end /\ r.start \in Int /\ r.end \in Int
        BY PageAssumption DEF Sound, WellFormed, MmTypeOK, AreaTypeOK, Addr
      <3> QED BY <1>2, <1>3, <3>1, <3>2
    <2> QED BY <1>2, <1>5, <1>6, <1>8, <2>1, <2>2, <2>3 DEF HeapGrows
  <1>12. PlainMm(w) BY <1>6, <1>9, <1>11 DEF PlainMm, Absorbs
  <1> QED BY <1>6, <1>8, <1>10, <1>12 DEF Joined, w

\* An area of its own.
LEMMA LinkRef ==
  ASSUME NEW m, MmTypeOK(m), Sound(m), PlainMm(m), NEW n, NewPlain(n), FreeFor(m.areas, n)
  PROVE  Joined(m, n, VmaLink(m, n), n.start)
  <1> DEFINE w == VmaLink(m, n)
  <1>1. AreaTypeOK(n) /\ n.start < n.end /\ Plain(n) BY DEF NewPlain
  <1>2. n.start \in Int /\ n.end \in Int BY <1>1, PageAssumption DEF AreaTypeOK, Addr
  <1>3. n \notin m.areas BY <1>1, <1>2 DEF FreeFor
  <1>4. w.heap = m.heap BY <1>1, <1>3, VmaLinkEffect
  <1>5. PICK v : SameArea(v, n) /\ w.areas = m.areas \cup {v}
    BY <1>1, <1>3, VmaLinkEffect
  <1> HIDE DEF w
  <1>6. /\ v.start = n.start /\ v.flags = n.flags /\ Plain(v)
        /\ \A x : (Cover(v, x) <=> Cover(n, x)) /\ At(v, x) = At(n, x)
    BY <1>1, <1>5, SameAreaAt
  <1>7. Put(m.areas, w.areas, n) BY <1>5, <1>6 DEF Put, Holds
  <1>8. HeapGrows(w)
    <2>1. m.heap # n.start BY <1>1, HeapElsewhere
    <2> QED BY <1>4, <1>5, <1>6, <2>1 DEF HeapGrows, PlainMm
  <1>9. PlainMm(w) BY <1>5, <1>6, <1>8 DEF PlainMm
  <1> QED BY <1>5, <1>6, <1>7, <1>9 DEF Joined, w

\* vma_merge, or vma_link.
LEMMA MergeOrLinkRef ==
  ASSUME NEW m, MmTypeOK(m), Sound(m), PlainMm(m), NEW n, NewPlain(n), FreeFor(m.areas, n)
  PROVE  Joined(m, n, MergeOrLink(m, n).m, MergeOrLink(m, n).at)
  <1> DEFINE P == {p \in m.areas : MergesAfter(p, n)}
             Q == {q \in m.areas : MergesBefore(q, n)}
             p == CHOOSE r \in P : TRUE
             q == CHOOSE r \in Q : TRUE
  <1>1. P # {} => p \in m.areas /\ MergesAfter(p, n) OBVIOUS
  <1>2. Q # {} => q \in m.areas /\ MergesBefore(q, n) OBVIOUS
  <1>3. \A r \in m.areas : AreaTypeOK(r) /\ r.start < r.end /\ Plain(r)
    BY DEF MmTypeOK, Sound, WellFormed, PlainMm
  <1>4. P # {} \/ Q # {} => n.file = NoFile BY <1>1, <1>2, <1>3, FilesApart
  <1>5. MergeOrLink(m, n) =
          IF P # {} /\ Q # {} THEN [m |-> MergeBoth(m, p, q), at |-> p.start]
          ELSE IF P # {} THEN [m |-> MergeUp(m, p, n), at |-> p.start]
          ELSE IF Q # {} THEN [m |-> MergeDown(m, q, n), at |-> n.start]
          ELSE [m |-> VmaLink(m, n), at |-> n.start]
    BY DEF MergeOrLink
  <1> HIDE DEF P, Q, p, q
  <1>6. CASE P # {} /\ Q # {} BY <1>1, <1>2, <1>4, <1>5, <1>6, MergeBothRef
  <1>7. CASE P # {} /\ Q = {} BY <1>1, <1>4, <1>5, <1>7, MergeUpRef
  <1>8. CASE P = {} /\ Q # {} BY <1>2, <1>4, <1>5, <1>8, MergeDownRef
  <1>9. CASE P = {} /\ Q = {} BY <1>5, <1>9, LinkRef
  <1> QED BY <1>6, <1>7, <1>8, <1>9

\* T is S with n in the place of whatever was there.
Over(S, T, n) ==
    \A x \in Nat : \A b : Holds(T, x, b) <=> IF Cover(n, x) THEN At(n, x) = b
                                             ELSE Holds(S, x, b)

\* mmap_region: refused, off the end of the address space, or n is in place.
LEMMA MmapRegionRef ==
  ASSUME NEW m, MmTypeOK(m), Sound(m), PlainMm(m), Cardinality(Fds \ m.fds) >= 2,
         NEW n, AreaTypeOK(n), NEW length \in Addr, Aligned(length),
         n.end = Add(n.start, length), n.start < n.end => NewPlain(n)
  PROVE  LET R == MmapRegion(m, n, length)
         IN  \/ R.m = m /\ MunmapInvalid(n.start, length)
             \/ R.m.status = "corrupt"
             \/ /\ n.start < n.end /\ n.end = n.start + length
                /\ Over(m.areas, R.m.areas, n) /\ PlainMm(R.m)
                /\ \E v \in R.m.areas : v.start = R.at /\ v.flags = n.flags
  <1> DEFINE R == MmapRegion(m, n, length)
             a == n.start
             busy == Overlapped(m.areas, a, n.end)
             k == IF busy THEN Munmap(m, a, length) ELSE m
  <1>1. a \in Addr /\ a \in Int /\ n.end \in Int /\ length \in Int /\ WORD \in Int
        /\ a < WORD /\ length < WORD
    BY PageAssumption DEF AreaTypeOK, Addr
  <1>2. CASE busy /\ MunmapInvalid(a, length) BY <1>2 DEF MmapRegion
  <1>3. CASE ~(busy /\ MunmapInvalid(a, length)) /\ n.end <= a
    <2>1. R.m = [k EXCEPT !.areas = @ \cup {n}, !.status = "corrupt"]
      BY <1>3 DEF MmapRegion
    <2>2. MmTypeOK(k) BY <1>1, <1>3, MunmapSound
    <2>3. R.m.status = "corrupt" BY <2>1, <2>2 DEF MmTypeOK, IsMm
    <2> QED BY <2>3
  <1>4. CASE ~(busy /\ MunmapInvalid(a, length)) /\ ~(n.end <= a)
    <2>1. R = MergeOrLink(k, n) BY <1>4 DEF MmapRegion
    <2>2. a < n.end /\ n.end = a + length BY <1>1, <1>4 DEF Add
    <2>3. NewPlain(n) BY <2>2
    <2>4. /\ MmTypeOK(k) /\ Sound(k) /\ PlainMm(k) /\ FreeFor(k.areas, n)
          /\ Cut(m.areas, k.areas, a, n.end)
      <3>1. CASE busy
        <4>1. k = Munmap(m, a, length) /\ ~MunmapInvalid(a, length) BY <1>4, <3>1
        <4>2. /\ MmTypeOK(k) /\ Sound(k)
              /\ \A q \in k.areas : q.end <= a \/ a + length <= q.start
          BY <1>1, <4>1, MunmapSound
        <4>3. PAGE_ALIGN(length) = length BY PageAlignTwice
        <4> HIDE DEF k
        <4>4. Cut(m.areas, k.areas, a, a + PAGE_ALIGN(length)) /\ PlainMm(k)
          BY <1>1, <4>1, MunmapRef
        <4>5. FreeFor(k.areas, n) BY <2>2, <4>2 DEF FreeFor
        <4> QED BY <2>2, <4>2, <4>3, <4>4, <4>5
      <3>2. CASE ~busy
        <4>1. k = m BY <3>2
        <4>2. \A r \in m.areas : r.start \in Int /\ r.end \in Int
          BY PageAssumption DEF MmTypeOK, AreaTypeOK, Addr
        <4>3. FreeFor(m.areas, n) BY <1>1, <3>2, <4>2 DEF Overlapped, FreeFor
        <4>4. \A r \in m.areas : \A x \in Nat : Cover(r, x) => ~(a <= x /\ x < n.end)
          BY <1>1, <4>2, <4>3 DEF Cover, FreeFor
        <4>5. Cut(m.areas, m.areas, a, n.end) BY <4>4 DEF Cut, Holds
        <4> QED BY <4>1, <4>3, <4>5
      <3> QED BY <3>1, <3>2
    <2> HIDE DEF k, busy
    <2>5. Joined(k, n, R.m, R.at) BY <2>1, <2>3, <2>4, MergeOrLinkRef
    <2>6. Over(m.areas, R.m.areas, n)
      <3>1. SUFFICES ASSUME NEW x \in Nat, NEW b
                     PROVE  Holds(R.m.areas, x, b) <=>
                              IF Cover(n, x) THEN At(n, x) = b ELSE Holds(m.areas, x, b)
        BY DEF Over
      <3>2. Holds(k.areas, x, b) <=> Holds(m.areas, x, b) /\ ~Cover(n, x)
        BY <2>4 DEF Cut, Cover
      <3>3. Holds(R.m.areas, x, b) <=> Holds(k.areas, x, b) \/ (Cover(n, x) /\ At(n, x) = b)
        BY <2>5 DEF Joined, Put
      <3> QED BY <3>2, <3>3
    <2> QED BY <2>2, <2>5, <2>6 DEF Joined
  <1> QED BY <1>2, <1>3, <1>4
-----------------------------------------------------------------------------
(***************************************************************************)
(* vma_highest_addr is the end of the last area.                           *)
(***************************************************************************)
Top(m) == TopIs(m.areas, m.highest)

\* An area above another one ends above it.
LEMMA EndsInOrder ==
  ASSUME NEW m, MmTypeOK(m), Sound(m), NEW r \in m.areas, NEW q \in m.areas
  PROVE  /\ r.start < r.end /\ r.start \in Int /\ r.end \in Int /\ q.end \in Int /\ q.start \in Int
         /\ r.start < q.start => r.end <= q.start
         /\ q.start <= r.start <=> q.end <= r.end
  <1>1. r.start < r.end /\ q.start < q.end BY DEF Sound, WellFormed
  <1>2. r = q \/ r.end <= q.start \/ q.end <= r.start BY DEF Sound, PairwiseDisjoint
  <1>3. r.start \in Int /\ r.end \in Int /\ q.start \in Int /\ q.end \in Int
    BY PageAssumption DEF MmTypeOK, AreaTypeOK, Addr
  <1> QED BY <1>1, <1>2, <1>3

\* An area nothing follows is the last one.
LEMMA NothingAfter ==
  ASSUME NEW m, MmTypeOK(m), Sound(m), NEW n, n.start \in Int, n.end \in Int,
         n.start < n.end, FreeFor(m.areas, n)
  PROVE  /\ After(m.areas, n.end) = {} => \A q \in m.areas : q.end <= n.start
         /\ After(m.areas, n.end) # {} => \E q \in m.areas : n.end < q.end
  <1>1. \A q \in m.areas : /\ q.start < q.end /\ q.start \in Int /\ q.end \in Int
                           /\ q.end <= n.start \/ n.end <= q.start
    BY PageAssumption DEF Sound, WellFormed, MmTypeOK, AreaTypeOK, Addr, FreeFor
  <1> QED BY <1>1 DEF After

\* The same for an area of the list.
LEMMA NothingAfterArea ==
  ASSUME NEW m, MmTypeOK(m), Sound(m), NEW r \in m.areas
  PROVE  /\ After(m.areas, r.end) = {} => \A q \in m.areas : q.end <= r.end
         /\ After(m.areas, r.end) # {} => \E q \in m.areas : r.end < q.end
  <1>1. \A q \in m.areas :
          /\ q.start < q.end /\ q.start \in Int /\ q.end \in Int
          /\ q = r \/ q.end <= r.start \/ r.end <= q.start
    BY PageAssumption DEF Sound, WellFormed, PairwiseDisjoint, MmTypeOK, AreaTypeOK, Addr
  <1> QED BY <1>1 DEF After

\* vma_link_rb.
LEMMA VmaLinkTop ==
  ASSUME NEW m, MmTypeOK(m), Sound(m), Top(m), NEW n, AreaTypeOK(n), n.start < n.end,
         FreeFor(m.areas, n)
  PROVE  Top(VmaLink(m, n))
  <1> DEFINE w == VmaLink(m, n)
  <1>1. n.start \in Int /\ n.end \in Int BY PageAssumption DEF AreaTypeOK, Addr
  <1>2. n \notin m.areas BY <1>1 DEF FreeFor
  <1>3. w.highest = LinkedHighest(m, n) BY <1>2, VmaLinkEffect
  <1>4. PICK v : SameArea(v, n) /\ w.areas = m.areas \cup {v} BY <1>2, VmaLinkEffect
  <1> HIDE DEF w
  <1>5. v.end = n.end BY <1>4 DEF SameArea
  <1>6. \A q \in m.areas : q.end \in Int BY PageAssumption DEF MmTypeOK, AreaTypeOK, Addr
  <1>7. m.highest \in Int BY PageAssumption DEF MmTypeOK, Addr
  <1>8. CASE After(m.areas, n.end) = {}
    BY <1>1, <1>3, <1>4, <1>5, <1>6, <1>8, NothingAfter DEF LinkedHighest, Top, TopIs, w
  <1>9. CASE After(m.areas, n.end) # {}
    BY <1>1, <1>3, <1>4, <1>5, <1>6, <1>7, <1>9, NothingAfter DEF LinkedHighest, Top, TopIs, w
  <1> QED BY <1>8, <1>9

\* vma_split.
LEMMA VmaSplitTop ==
  ASSUME NEW m, MmTypeOK(m), Sound(m), Top(m), NEW r \in m.areas,
         NEW a \in Addr, r.start < a, a < r.end,
         NEW below \in BOOLEAN, Fds \ m.fds # {}
  PROVE  Top(VmaSplit(m, r, a, below))
  <1> DEFINE d == Dup(m.fds, r.fd)
             w == VmaSplit(m, r, a, below)
  <1>1. PICK lo, hi : /\ Halves(r, a, below, d, lo, hi)
                      /\ w.areas = (m.areas \ {r}) \cup {lo, hi}
    BY VmaSplitEffect
  <1>2. w.highest = (IF below \/ After(m.areas, r.end) # {} THEN m.highest ELSE r.end)
    BY VmaSplitEffect
  <1> HIDE DEF d, w
  <1>3. lo.end = a /\ hi.end = r.end BY <1>1 DEF Halves
  <1>4. m.highest \in Int /\ a \in Int /\ \A q \in m.areas : q.end \in Int
    BY PageAssumption DEF MmTypeOK, AreaTypeOK, Addr
  <1>5. w.highest = m.highest
    <2>1. CASE After(m.areas, r.end) = {} BY <1>2, <1>4, <2>1, NothingAfterArea DEF Top, TopIs
    <2> QED BY <1>2, <2>1
  <1> QED BY <1>1, <1>3, <1>4, <1>5 DEF Top, TopIs, w

\* munmap's splits.
LEMMA SplitAtTop ==
  ASSUME NEW m, MmTypeOK(m), Sound(m), Top(m), NEW a \in Addr,
         NEW below \in BOOLEAN, Fds \ m.fds # {}
  PROVE  Top(SplitAt(m, a, below))
  <1> DEFINE E == EndingAbove(m.areas, a)
             f == VmaFind(m.areas, a)
  <1>1. \A r \in m.areas : r.start \in Addr /\ r.end \in Addr
    BY DEF MmTypeOK, AreaTypeOK
  <1>2. E \subseteq m.areas /\ \A r \in E : r.end > a BY DEF EndingAbove
  <1>3. E # {} => f \in E BY <1>1, <1>2, LowestExists DEF VmaFind
  <1>4. CASE E # {} /\ a > f.start
    <2>1. f \in m.areas /\ f.start < a /\ a < f.end
      BY <1>1, <1>2, <1>3, <1>4, PageAssumption DEF Addr
    <2>2. SplitAt(m, a, below) = VmaSplit(m, f, a, below) BY <1>4 DEF SplitAt
    <2> HIDE DEF f
    <2> QED BY <2>1, <2>2, VmaSplitTop
  <1>5. CASE ~(E # {} /\ a > f.start) BY <1>5 DEF SplitAt
  <1> QED BY <1>4, <1>5

\* detach_vmas.
LEMMA DetachedTop ==
  ASSUME NEW m, MmTypeOK(m), Sound(m), Top(m), NEW a \in Addr, NEW e \in Addr
  PROVE  Top(Detached(m, a, e))
  <1> DEFINE L == Outside(m, a, e)
             k == Detached(m, a, e)
  <1>1. k.areas = L /\ k.highest = DetachedHighest(m, L, e) BY DetachedEffect
  <1>2. \A r \in m.areas : r.start \in Int /\ r.end \in Int /\ r.start \in Addr
    BY PageAssumption DEF MmTypeOK, AreaTypeOK, Addr
  <1>3. L \subseteq m.areas /\ a \in Int /\ e \in Int
    BY PageAssumption DEF Outside, Addr
  <1>4. CASE After(L, e) # {}
    <2>1. k.highest = m.highest BY <1>1, <1>4 DEF DetachedHighest
    <2>2. PICK q \in L : q.start >= e BY <1>4 DEF After
    <2>3. PICK t \in m.areas : t.end = m.highest BY <1>3, <2>2 DEF Top, TopIs
    <2>4. q.end <= t.end BY <1>3, <2>2, <2>3 DEF Top, TopIs
    <2>5. q.start <= t.start BY <1>3, <2>2, <2>4, EndsInOrder
    <2>6. t \in L BY <1>2, <1>3, <2>2, <2>5 DEF Outside, Inside
    <2> QED BY <1>1, <1>3, <2>1, <2>3, <2>6 DEF Top, TopIs
  <1>5. CASE After(L, e) = {} /\ L # {}
    <2>1. k.highest = Highest(L).end BY <1>1, <1>5 DEF DetachedHighest
    <2>2. Highest(L) \in L /\ \A q \in L : q.start <= Highest(L).start
      BY <1>2, <1>3, <1>5, HighestExists
    <2>3. \A q \in L : q.end <= Highest(L).end BY <1>3, <2>2, EndsInOrder
    <2> QED BY <1>1, <2>1, <2>2, <2>3 DEF Top, TopIs
  <1>6. CASE L = {} BY <1>1, <1>6 DEF Top, TopIs
  <1> QED BY <1>4, <1>5, <1>6

\* syscall_munmap.
LEMMA MunmapTop ==
  ASSUME NEW m, MmTypeOK(m), Sound(m), Top(m), NEW a \in Addr, NEW length \in Addr,
         ~MunmapInvalid(a, length), Cardinality(Fds \ m.fds) >= 2
  PROVE  Top(Munmap(m, a, length))
  <1> DEFINE e == a + PAGE_ALIGN(length)
             m1 == SplitAt(m, a, FALSE)
             m2 == Ends(m, a, e)
             gone == Inside(m2, a, e)
             cut == Detached(m2, a, e)
             w == Munmap(m, a, length)
  <1>1. e \in Addr BY MunmapEnd
  <1> HIDE DEF e
  <1>2. CASE Overlapped(m.areas, a, e)
    <2>1. EndingAbove(m.areas, a) # {} BY <1>2 DEF Overlapped, EndingAbove
    <2>2. w = VmaRemove(cut, gone) BY <1>2, <2>1, MunmapRangeStages DEF Munmap, e
    <2>3. /\ Fds \ m.fds # {} /\ Fds \ m1.fds # {}
          /\ MmTypeOK(m1) /\ Sound(m1) /\ MmTypeOK(m2) /\ Sound(m2)
      BY <1>1, EndsSound
    <2>4. Top(m1) BY <1>1, <2>3, SplitAtTop
    <2>5. m2 = SplitAt(m1, e, TRUE) BY DEF Ends
    <2> HIDE DEF m1, m2, w
    <2>6. Top(m2) BY <1>1, <2>3, <2>4, <2>5, SplitAtTop
    <2>7. Top(cut) /\ MmTypeOK(cut) BY <1>1, <2>3, <2>6, DetachedTop, DetachedEffect
    <2> HIDE DEF cut
    <2>8. w.areas = cut.areas /\ w.highest = cut.highest BY <2>2, <2>7, VmaRemoveEffect
    <2> QED BY <2>7, <2>8 DEF Top, w
  <1>3. CASE ~Overlapped(m.areas, a, e) BY <1>3 DEF Munmap, e
  <1> QED BY <1>2, <1>3

\* vma_merge, or vma_link.
LEMMA MergeOrLinkTop ==
  ASSUME NEW m, MmTypeOK(m), Sound(m), Top(m),
         NEW n, AreaTypeOK(n), n.start < n.end, FreeFor(m.areas, n)
  PROVE  Top(MergeOrLink(m, n).m)
  <1> DEFINE P == {p \in m.areas : MergesAfter(p, n)}
             Q == {q \in m.areas : MergesBefore(q, n)}
             p == CHOOSE r \in P : TRUE
             q == CHOOSE r \in Q : TRUE
             w == MergeOrLink(m, n).m
  <1>1. P # {} => p \in m.areas /\ p.end = n.start BY DEF MergesAfter
  <1>2. Q # {} => q \in m.areas /\ q.start = n.end BY DEF MergesBefore
  <1>3. w = IF P # {} /\ Q # {} THEN MergeBoth(m, p, q)
            ELSE IF P # {} THEN MergeUp(m, p, n)
            ELSE IF Q # {} THEN MergeDown(m, q, n) ELSE VmaLink(m, n)
    BY DEF MergeOrLink
  <1>4. \A r \in m.areas : AreaTypeOK(r) BY DEF MmTypeOK
  <1>5. /\ m.highest \in Int /\ n.start \in Int /\ n.end \in Int
        /\ \A r \in m.areas : r.start \in Int /\ r.end \in Int /\ r.start < r.end
    BY PageAssumption DEF MmTypeOK, AreaTypeOK, Addr, Sound, WellFormed
  <1>6. (\A r \in m.areas : r.end <= m.highest) /\ \A r \in m.areas : \E t \in m.areas : t.end = m.highest
    BY DEF Top, TopIs
  <1> HIDE DEF P, Q, p, q, w
  <1>7. CASE P # {} /\ Q # {}
    <2>1. p.end < q.start /\ p \in m.areas /\ q \in m.areas BY <1>1, <1>2, <1>7
    <2>2. PICK v : /\ SameArea(v, [p EXCEPT !.end = q.end])
                   /\ w.areas = (m.areas \ {p, q}) \cup {v}
      BY <1>3, <1>7, <2>1, MergeBothEffect
    <2>3. w.highest = (IF After(m.areas, q.end) # {} THEN m.highest ELSE q.end)
      <3>1. MergeBoth(m, p, q).highest = LinkedHighest(m, q) BY <2>1, MergeBothEffect
      <3> QED BY <1>3, <1>7, <3>1 DEF LinkedHighest
    <2>4. v.end = q.end BY <1>4, <2>1, <2>2 DEF SameArea, AreaTypeOK
    <2>5. w.highest = m.highest
      <3>1. CASE After(m.areas, q.end) = {}
        BY <1>5, <1>6, <2>1, <2>3, <3>1, NothingAfterArea
      <3> QED BY <2>3, <3>1
    <2>6. p.end < q.end BY <1>5, <2>1
    <2>7. \E t \in w.areas : t.end = m.highest
      <3>1. PICK t \in m.areas : t.end = m.highest BY <1>6, <2>1
      <3>2. t # p BY <1>5, <1>6, <2>1, <2>6, <3>1
      <3> QED BY <2>2, <2>4, <3>1, <3>2
    <2>8. \A t \in w.areas : t.end <= m.highest BY <1>6, <2>1, <2>2, <2>4
    <2> QED BY <2>5, <2>7, <2>8 DEF Top, TopIs, w
  <1>8. CASE P # {} /\ Q = {}
    <2>1. p \in m.areas /\ p.end = n.start BY <1>1, <1>8
    <2>2. PICK v : /\ SameArea(v, [p EXCEPT !.end = n.end])
                   /\ w.areas = (m.areas \ {p}) \cup {v}
      BY <1>3, <1>8, <2>1, MergeUpEffect
    <2>3. w.highest = (IF After(m.areas, n.end) # {} THEN m.highest ELSE n.end)
      BY <1>3, <1>8, <2>1, MergeUpEffect
    <2>4. v.end = n.end BY <1>4, <2>1, <2>2 DEF SameArea, AreaTypeOK
    <2>5. CASE After(m.areas, n.end) = {}
      <3>1. \A q_1 \in m.areas : q_1.end <= n.start BY <1>5, <2>5, NothingAfter
      <3> QED BY <1>5, <2>2, <2>3, <2>4, <2>5, <3>1 DEF Top, TopIs, w
    <2>6. CASE After(m.areas, n.end) # {}
      <3>1. PICK s \in m.areas : n.end < s.end BY <1>5, <2>6, NothingAfter
      <3>2. PICK t \in m.areas : t.end = m.highest BY <1>6, <2>1
      <3>3. t # p /\ n.end <= m.highest BY <1>5, <1>6, <2>1, <3>1, <3>2
      <3>4. \A x \in w.areas : x.end <= m.highest BY <1>6, <2>2, <2>4, <3>3
      <3> QED BY <2>2, <2>3, <2>6, <3>2, <3>3, <3>4 DEF Top, TopIs, w
    <2> QED BY <2>5, <2>6
  <1>9. CASE P = {} /\ Q # {}
    <2>1. PICK v : /\ SameArea(v, GrownDown(q, n))
                   /\ w.areas = (m.areas \ {q}) \cup {v}
      BY <1>2, <1>3, <1>9, MergeDownEffect
    <2>2. w.highest = m.highest BY <1>2, <1>3, <1>9, MergeDownEffect
    <2>3. v.end = q.end BY <1>2, <1>4, <1>9, <2>1 DEF SameArea, AreaTypeOK, GrownDown
    <2> QED BY <1>2, <1>6, <1>9, <2>1, <2>2, <2>3 DEF Top, TopIs, w
  <1>10. CASE P = {} /\ Q = {} BY <1>3, <1>10, VmaLinkTop DEF w
  <1> QED BY <1>7, <1>8, <1>9, <1>10

\* mmap_region.
LEMMA MmapRegionTop ==
  ASSUME NEW m, MmTypeOK(m), Sound(m), Top(m), Cardinality(Fds \ m.fds) >= 2,
         NEW n, AreaTypeOK(n), NEW length \in Addr, n.end = Add(n.start, length)
  PROVE  LET w == MmapRegion(m, n, length).m IN w.status = "corrupt" \/ Top(w)
  <1> DEFINE R == MmapRegion(m, n, length)
             a == n.start
             busy == Overlapped(m.areas, a, n.end)
             k == IF busy THEN Munmap(m, a, length) ELSE m
  <1>1. a \in Addr /\ a \in Int /\ n.end \in Int /\ length \in Int /\ WORD \in Int
        /\ a < WORD /\ length < WORD
    BY PageAssumption DEF AreaTypeOK, Addr
  <1>2. CASE busy /\ MunmapInvalid(a, length) BY <1>2 DEF MmapRegion
  <1>3. CASE ~(busy /\ MunmapInvalid(a, length)) /\ n.end <= a
    <2>1. R.m = [k EXCEPT !.areas = @ \cup {n}, !.status = "corrupt"]
      BY <1>3 DEF MmapRegion
    <2>2. MmTypeOK(k) BY <1>1, <1>3, MunmapSound
    <2> QED BY <2>1, <2>2 DEF MmTypeOK, IsMm
  <1>4. CASE ~(busy /\ MunmapInvalid(a, length)) /\ ~(n.end <= a)
    <2>1. R = MergeOrLink(k, n) BY <1>4 DEF MmapRegion
    <2>2. a < n.end /\ n.end = a + length BY <1>1, <1>4 DEF Add
    <2>3. MmTypeOK(k) /\ Sound(k) /\ Top(k) /\ FreeFor(k.areas, n)
      <3>1. CASE busy
        <4>1. k = Munmap(m, a, length) /\ ~MunmapInvalid(a, length) BY <1>4, <3>1
        <4>2. /\ MmTypeOK(k) /\ Sound(k)
              /\ \A q \in k.areas : q.end <= a \/ a + length <= q.start
          BY <1>1, <4>1, MunmapSound
        <4>3. Top(k) BY <1>1, <4>1, MunmapTop
        <4> QED BY <2>2, <4>2, <4>3 DEF FreeFor
      <3>2. CASE ~busy
        <4>1. k = m BY <3>2
        <4>2. \A r \in m.areas : r.start \in Int /\ r.end \in Int
          BY PageAssumption DEF MmTypeOK, AreaTypeOK, Addr
        <4>3. FreeFor(m.areas, n) BY <1>1, <3>2, <4>2 DEF Overlapped, FreeFor
        <4> QED BY <4>1, <4>3
      <3> QED BY <3>1, <3>2
    <2> HIDE DEF k
    <2> QED BY <2>1, <2>2, <2>3, MergeOrLinkTop
  <1> QED BY <1>2, <1>3, <1>4

\* brk(0) as the first call maps the first heap page.
LEMMA BrkStartStages ==
  ASSUME IInv, Running, BrkStart
  PROVE  LET n == FirstHeapArea
             R == MmapRegion(Mm, n, PAGE_SIZE)
         IN  /\ AreaTypeOK(n) /\ n.start < n.end /\ n.end = Add(n.start, PAGE_SIZE)
             /\ n.start = user_heap_start /\ n.end = user_heap_start + PAGE_SIZE
             /\ PAGE_SIZE \in Addr /\ ~MunmapInvalid(n.start, PAGE_SIZE)
             /\ Cardinality(Fds \ Mm.fds) >= 2 /\ Placed(R.m, R.at, Mm)
             /\ areas' = R.m.areas /\ highest' = R.m.highest /\ heap' = R.at
             /\ status' = "run"
  <1> DEFINE n == FirstHeapArea
             R == MmapRegion(Mm, n, PAGE_SIZE)
             w == [R.m EXCEPT !.heap = R.at]
  <1>1. /\ MmTypeOK(Mm) /\ Sound(Mm) /\ Mm.fds = fds /\ Mm.status = "run"
        /\ Cardinality(Fds \ fds) >= 3
    BY RunningSound
  <1>2. Commit(w) BY DEF BrkStart
  <1>3. /\ PAGE_SIZE \in Addr /\ user_heap_start \in Addr
        /\ user_heap_start + PAGE_SIZE \in Addr
    BY PageAssumption, LayoutAssumption DEF Addr
  <1>4. /\ AreaTypeOK(n) /\ n.start = user_heap_start /\ n.fd = NoFd
        /\ n.end = user_heap_start + PAGE_SIZE
    BY <1>3, PageAssumption DEF FirstHeapArea, AreaTypeOK, NoFile, NoFd, Fds
  <1> HIDE DEF n
  <1>5. n.end = Add(n.start, PAGE_SIZE)
    BY <1>3, <1>4, PageAssumption DEF Add, Addr
  <1>6. ~MunmapInvalid(n.start, PAGE_SIZE) /\ ~(n.end <= n.start) /\ n.start < n.end
    BY <1>4, PageAssumption, LayoutAssumption DEF MunmapInvalid
  <1>7. Cardinality(Fds \ Mm.fds) >= 2
    <2>1. 2 \in Nat /\ Cardinality(Fds \ fds) >= 2 + 1 BY <1>1
    <2> QED BY <1>1, <2>1, SpareAfterOne
  <1>8. Placed(R.m, R.at, Mm)
    BY <1>1, <1>3, <1>4, <1>5, <1>6, <1>7, MmapRegionSound
  <1> HIDE DEF R
  <1>9. /\ w.areas = R.m.areas /\ w.highest = R.m.highest /\ w.heap = R.at
        /\ w.status = "run"
    BY <1>1, <1>8 DEF Placed, MmTypeOK, IsMm
  <1> HIDE DEF w
  <1> QED BY <1>2, <1>3, <1>4, <1>5, <1>6, <1>7, <1>8, <1>9 DEF Commit, R, n

\* Every step.
LEMMA TopStep ==
  ASSUME IInv, AreaAboveHeap, HighestIsTop, [Next]_vars
  PROVE  HighestIsTop'
  <1>1. ASSUME Running
        PROVE  /\ MmTypeOK(Mm) /\ Sound(Mm) /\ Mm.areas = areas /\ Mm.highest = highest
               /\ Top(Mm) /\ status = "run"
               /\ \A r \in areas : r.end \in Int /\ r.start \in Int /\ r.start < r.end
    <2>1. MmTypeOK(Mm) /\ Sound(Mm) /\ Mm.areas = areas /\ status = "run" /\ Mm.highest = highest
      BY <1>1, RunningSound DEF Running, Mm
    <2>2. \A r \in areas : r.end \in Int /\ r.start \in Int /\ r.start < r.end
      BY <2>1, PageAssumption DEF MmTypeOK, AreaTypeOK, Addr, Sound, WellFormed
    <2> QED BY <2>1, <2>2 DEF HighestIsTop, Top
  <1>2. ASSUME NEW c \in MmapCalls, SysMmap(c) PROVE HighestIsTop'
    <2>1. PICK a, opened, fd :
           /\ a \in GetUnmappedArea(Mm, c.addr, PAGE_ALIGN(c.length), c.fixed)
           /\ a \in Addr /\ fd \in Fds \cup {NoFd} /\ (c.fd = NoFd <=> fd = NoFd)
           /\ MmTypeOK(opened) /\ Sound(opened) /\ Cardinality(Fds \ opened.fds) >= 2
           /\ opened.areas = areas /\ opened.highest = highest /\ opened.heap = heap
           /\ opened.host = host /\ opened.status = "run"
           /\ IF MapTypeInvalid(c) THEN Commit(opened)
              ELSE Commit(MmapRegion(opened, NewArea(c, a, fd), PAGE_ALIGN(c.length)).m)
      BY <1>2, SysMmapStages
    <2>2. Running BY <1>2 DEF SysMmap
    <2>3. Top(opened) BY <1>1, <2>1, <2>2 DEF Top
    <2>4. CASE MapTypeInvalid(c) BY <2>1, <2>3, <2>4 DEF Commit, HighestIsTop, Top
    <2>5. CASE ~MapTypeInvalid(c)
      <3> DEFINE n == NewArea(c, a, fd)
                 w == MmapRegion(opened, n, PAGE_ALIGN(c.length)).m
      <3>1. AreaTypeOK(n) /\ n.end = Add(n.start, PAGE_ALIGN(c.length))
        BY <2>1, NewAreaType
      <3>2. PAGE_ALIGN(c.length) \in Addr BY MmapCallsAssumption, PageAlignType
      <3>3. w.status = "corrupt" \/ Top(w) BY <2>1, <2>3, <3>1, <3>2, MmapRegionTop
      <3>4. Commit(w) BY <2>1, <2>5
      <3> HIDE DEF w
      <3> QED BY <3>3, <3>4 DEF Commit, HighestIsTop, Top
    <2> QED BY <2>4, <2>5
  <1>3. ASSUME NEW u \in MunmapCalls, SysMunmap(u[1], u[2]) PROVE HighestIsTop'
    <2> DEFINE w == Munmap(Mm, u[1], u[2])
    <2>1. Running /\ ~MunmapInvalid(u[1], u[2]) /\ Commit(w) BY <1>3 DEF SysMunmap
    <2>2. u[1] \in Addr /\ u[2] \in Addr BY CallsAssumption
    <2>3. Cardinality(Fds \ Mm.fds) >= 2
      <3>1. Mm.fds = fds /\ Cardinality(Fds \ fds) >= 3 BY <2>1, RunningSound
      <3>2. 2 \in Nat /\ Cardinality(Fds \ fds) >= 2 + 1 BY <3>1
      <3> QED BY <3>1, <3>2, SpareAfterOne
    <2>4. Top(w) BY <1>1, <2>1, <2>2, <2>3, MunmapTop
    <2> HIDE DEF w
    <2> QED BY <2>1, <2>4 DEF Commit, HighestIsTop, Top
  <1>4. ASSUME NEW b \in Addr, SysBrk(b) PROVE HighestIsTop'
    <2>1. Running BY <1>4 DEF SysBrk
    <2>2. CASE BrkStart
      <3> DEFINE n == FirstHeapArea
                 w == MmapRegion(Mm, n, PAGE_SIZE).m
      <3>1. /\ AreaTypeOK(n) /\ n.end = Add(n.start, PAGE_SIZE) /\ PAGE_SIZE \in Addr
            /\ Cardinality(Fds \ Mm.fds) >= 2 /\ w.status = Mm.status
            /\ areas' = w.areas /\ highest' = w.highest
        BY <2>1, <2>2, BrkStartStages DEF Placed
      <3> HIDE DEF n
      <3>2. w.status = "corrupt" \/ Top(w) BY <1>1, <2>1, <3>1, MmapRegionTop
      <3>3. Mm.status = "run" BY <2>1, RunningSound
      <3> HIDE DEF w
      <3> QED BY <3>1, <3>2, <3>3 DEF HighestIsTop, Top
    <2>3. CASE BrkNullHeap(b) \/ BrkDangling(b)
      BY <2>3 DEF BrkNullHeap, BrkDangling, HighestIsTop
    <2>4. CASE BrkGrow(b)
      <3>1. PICK r, g, k :
             /\ r \in areas /\ r = HeapVma(Mm) /\ r.start = heap /\ heap \in Addr
             /\ g = [r EXCEPT !.end = PAGE_ALIGN(b)] /\ AreaTypeOK(g)
             /\ r.start < PAGE_ALIGN(b)
             /\ \A q \in areas : q.start > r.start => PAGE_ALIGN(b) <= q.start
             /\ MmTypeOK(k) /\ k.areas = (areas \ {r}) \cup {g} /\ k.highest = highest
             /\ k.heap = heap /\ k.host = host /\ k.status = "run"
             /\ Commit(MapVma(k, g))
        BY <2>1, <2>4, BrkGrowStages
      <3>2. PICK v : SameArea(v, g) /\ MapVma(k, g).areas = (k.areas \ {g}) \cup {v}
        BY <3>1, MapVmaEffect
      <3>3. MapVma(k, g).highest = k.highest BY <3>1, MapVmaEffect
      <3>4. v.end = PAGE_ALIGN(b) BY <1>1, <2>1, <3>1, <3>2 DEF SameArea, MmTypeOK, AreaTypeOK
      <3>5. areas' = (k.areas \ {g}) \cup {v} /\ highest' = highest
        BY <3>1, <3>2, <3>3 DEF Commit
      <3>6. PICK q \in areas : q.start > r.start BY <1>1, <2>1, <3>1 DEF AreaAboveHeap
      <3>7. PICK t \in areas : t.end = highest BY <1>1, <2>1, <3>6 DEF Top, TopIs
      <3>8. \A s \in areas : s.end <= highest BY <1>1, <2>1 DEF Top, TopIs
      <3>9. r.end < q.end /\ PAGE_ALIGN(b) < q.end /\ PAGE_ALIGN(b) \in Int
        <4>1. r \in Mm.areas /\ q \in Mm.areas BY <1>1, <2>1, <3>1, <3>6
        <4>2. r.end <= q.start BY <1>1, <2>1, <3>6, <4>1, EndsInOrder
        <4>3. PAGE_ALIGN(b) <= q.start BY <3>1, <3>6
        <4>4. PAGE_ALIGN(b) \in Int BY PageAlignType, PageAssumption DEF Addr
        <4> QED BY <1>1, <2>1, <3>1, <3>6, <4>1, <4>2, <4>3, <4>4
      <3>10. t # r /\ highest \in Int BY <1>1, <2>1, <3>6, <3>7, <3>8, <3>9
      <3>11. t # g
        <4>1. g.end = PAGE_ALIGN(b) BY <1>1, <2>1, <3>1 DEF MmTypeOK, AreaTypeOK
        <4> QED BY <1>1, <2>1, <3>6, <3>7, <3>8, <3>9, <4>1
      <3>12. t \in areas' BY <3>1, <3>5, <3>7, <3>10, <3>11
      <3>13. \A s \in areas' : s.end <= highest
        <4>1. PAGE_ALIGN(b) <= highest BY <1>1, <2>1, <3>6, <3>8, <3>9, <3>10
        <4> QED BY <3>1, <3>4, <3>5, <3>8, <4>1
      <3> QED BY <3>5, <3>7, <3>12, <3>13 DEF HighestIsTop, TopIs
    <2> QED BY <1>4, <2>2, <2>3, <2>4 DEF SysBrk
  <1>5. ASSUME NEW a \in Addr, UserPageFault(a) PROVE HighestIsTop'
    <2>1. Running BY <1>5 DEF UserPageFault
    <2>2. CASE FaultIsFatal(a) /\ status' = "exit" BY <2>2 DEF HighestIsTop
    <2>3. CASE ~FaultIsFatal(a) /\ Commit(GrowStack(Mm, VmaFind(areas, a), a))
      <3>1. PICK r, g, k :
             /\ r \in areas /\ r = VmaFind(areas, a) /\ "GROWS" \in r.flags
             /\ a < r.start /\ GrownStart(a) \in Addr /\ GrownStart(a) <= a
             /\ g = [r EXCEPT !.start = GrownStart(a)] /\ AreaTypeOK(g)
             /\ MmTypeOK(k) /\ k.areas = (areas \ {r}) \cup {g} /\ k.highest = highest
             /\ k.host = host /\ k.heap = (IF heap = r.start THEN GrownStart(a) ELSE heap)
             /\ k.status = (IF Overlapped(areas \ {r}, GrownStart(a), r.start)
                            THEN "corrupt" ELSE "run")
             /\ Commit(MapVma(k, g))
        BY <2>1, <2>3, GrowStages
      <3>2. PICK v : SameArea(v, g) /\ MapVma(k, g).areas = (k.areas \ {g}) \cup {v}
        BY <3>1, MapVmaEffect
      <3>3. MapVma(k, g).highest = k.highest BY <3>1, MapVmaEffect
      <3>4. g.end = r.end /\ v.end = r.end
        BY <1>1, <2>1, <3>1, <3>2 DEF SameArea, MmTypeOK, AreaTypeOK
      <3>5. areas' = (k.areas \ {g}) \cup {v} /\ highest' = highest
        BY <3>1, <3>2, <3>3 DEF Commit
      <3>6. TopIs(areas, highest) BY <1>1, <2>1 DEF Top
      <3>7. TopIs(areas', highest) BY <3>1, <3>4, <3>5, <3>6 DEF TopIs
      <3> QED BY <3>5, <3>7 DEF HighestIsTop
    <2> QED BY <1>5, <2>2, <2>3 DEF UserPageFault
  <1>6. CASE UNCHANGED vars BY <1>6 DEF vars, HighestIsTop
  <1> QED BY <1>2, <1>3, <1>4, <1>5, <1>6, CallsAssumption DEF Next

\* vma_highest_addr stays the end of the last area as long as an area lies
\* above the heap, the one whose end syscall_brk moves without recording it.
THEOREM HighestStaysTop == Spec /\ []AreaAboveHeap => []HighestIsTop
  <1>1. Init => HighestIsTop BY BootTopAssumption DEF Init, HighestIsTop
  <1>2. Spec => []IInv
    BY IInvInit, IInvStep, PTL DEF Spec
  <1>3. IInv /\ AreaAboveHeap /\ HighestIsTop /\ [Next]_vars => HighestIsTop' BY TopStep
  <1> QED BY <1>1, <1>2, <1>3, PTL DEF Spec
-----------------------------------------------------------------------------
(***************************************************************************)
(* From bytes to pages.                                                    *)
(***************************************************************************)
Good(m) == MmTypeOK(m) /\ Sound(m) /\ PlainMm(m)

\* Comparing page boundaries compares pages.
LEMMA PageMono ==
  ASSUME NEW a \in Nat, Aligned(a), NEW b \in Nat, Aligned(b)
  PROVE  (a <= b <=> Page(a) <= Page(b)) /\ Page(a) \in Nat /\ Page(b) \in Nat
  <1>1. Page(b) \in Nat /\ b = PAGE_SIZE * Page(b) /\ Page(a) \in Nat BY AlignedWhole
  <1>2. Page(b) * PAGE_SIZE = b BY <1>1, PageAssumption
  <1> QED BY <1>1, <1>2, PageOrder

\* A page boundary lies below a limit when its page does.
LEMMA PageFloor ==
  ASSUME NEW a \in Nat, Aligned(a), NEW x \in Nat
  PROVE  (a <= x <=> Page(a) <= Page(x)) /\ Page(a) \in Nat /\ Page(x) \in Nat
  <1> DEFINE y == x - (x % PAGE_SIZE)
             z == Page(x)
  <1>1. z \in Nat /\ y \in Nat /\ y <= x /\ x < y + PAGE_SIZE BY PageAssumption DEF Page
  <1>2. y = PAGE_SIZE * z BY WholePages DEF Page
  <1> HIDE DEF y, z
  <1>3. Aligned(y) /\ Page(y) = z BY <1>1, <1>2, WholeAligned
  <1>4. (a <= y <=> Page(a) <= z) /\ Page(a) \in Nat BY <1>1, <1>3, PageMono
  <1>5. a <= x => a <= y
    <2>1. SUFFICES ASSUME a <= x, y < a PROVE FALSE BY <1>1
    <2>2. a = PAGE_SIZE * Page(a) BY AlignedWhole
    <2>3. PAGE_SIZE * z + PAGE_SIZE <= PAGE_SIZE * Page(a)
      BY <1>1, <1>2, <1>4, <2>1, <2>2, PagesApart
    <2> QED BY <1>1, <1>2, <2>1, <2>2, <2>3, PageAssumption
  <1> QED BY <1>1, <1>4, <1>5 DEF z

\* The pages of the address space.
LEMMA PagesAre ==
  ASSUME NEW a \in Addr, Aligned(a)
  PROVE  Page(a) \in Pages
  <1>1. a \in Nat /\ WORD \in Nat /\ Aligned(WORD) /\ a < WORD
    BY PageAssumption DEF Addr
  <1>2. Page(a) \in Nat /\ Page(WORD) \in Nat /\ (WORD <= a <=> Page(WORD) <= Page(a))
    BY <1>1, PageMono
  <1> QED BY <1>1, <1>2 DEF Pages

\* The facts about a page number.
LEMMA PageInSpace ==
  ASSUME NEW p \in Pages
  PROVE  p \in Nat /\ p * PAGE_SIZE \in Nat
  <1>1. Page(WORD) \in Nat BY AlignedWhole, PageAssumption
  <1> QED BY <1>1, PageAssumption DEF Pages

\* The pages an area covers.
LEMMA CoverPages ==
  ASSUME NEW r, r.start \in Nat, r.end \in Nat, Aligned(r.start), Aligned(r.end),
         NEW p \in Nat
  PROVE  Cover(r, p * PAGE_SIZE) <=> Page(r.start) <= p /\ p < Page(r.end)
  <1>1. r.start <= p * PAGE_SIZE <=> Page(r.start) <= p BY PageOrder
  <1>2. r.end <= p * PAGE_SIZE <=> Page(r.end) <= p BY PageOrder
  <1>3. p * PAGE_SIZE \in Nat /\ Page(r.end) \in Nat BY AlignedWhole, PageAssumption
  <1> QED BY <1>1, <1>2, <1>3 DEF Cover

\* The facts about an area.
LEMMA GoodArea ==
  ASSUME NEW m, Good(m), NEW r \in m.areas
  PROVE  /\ r.start \in Nat /\ r.end \in Nat /\ Aligned(r.start) /\ Aligned(r.end)
         /\ r.start < r.end /\ r.start \in Addr /\ r.end \in Addr
         /\ Page(r.start) \in Nat /\ Page(r.end) \in Nat
  <1>1. r.start \in Addr /\ r.end \in Addr /\ r.start < r.end /\ Plain(r)
    BY DEF Good, MmTypeOK, AreaTypeOK, Sound, WellFormed, PlainMm
  <1>2. r.start \in Nat /\ r.end \in Nat /\ Aligned(r.start) /\ Aligned(r.end)
    BY <1>1, PageAssumption DEF Addr, Plain
  <1> QED BY <1>1, <1>2, AlignedWhole

\* SpaceOf tells what holds at the first byte of a page.
LEMMA SpaceHolds ==
  ASSUME NEW m, Good(m), NEW p \in Pages
  PROVE  /\ \A b : Holds(m.areas, p * PAGE_SIZE, b) =>
                     SpaceOf(m.areas)[p] = b /\ b # NoBacking
         /\ (\A b : ~Holds(m.areas, p * PAGE_SIZE, b)) => SpaceOf(m.areas)[p] = NoBacking
  <1> DEFINE x == p * PAGE_SIZE
             C == Covering(m.areas, x)
             r == CHOOSE q \in C : TRUE
             B == Backing(r.file, r.flags, r.off + p * PAGE_SIZE - r.start)
  <1>1. SpaceOf(m.areas)[p] = IF C = {} THEN NoBacking ELSE B BY DEF SpaceOf
  <1>2. x \in Nat BY PageInSpace
  <1> HIDE DEF x
  <1>3. C = {q \in m.areas : Cover(q, x)} BY DEF Covering, Cover
  <1>4. B = At(r, x) BY DEF At, x
  <1> HIDE DEF B
  <1>5. \A q \in C : q = r
    <2>1. SUFFICES ASSUME NEW q \in C PROVE q = r OBVIOUS
    <2>2. r \in C OBVIOUS
    <2> HIDE DEF r
    <2>3. /\ q \in m.areas /\ q.start <= x /\ x < q.end
          /\ r \in m.areas /\ r.start <= x /\ x < r.end
      BY <1>3, <2>2 DEF Cover
    <2>4. q = r \/ q.end <= r.start \/ r.end <= q.start
      BY <2>3 DEF Good, Sound, PairwiseDisjoint
    <2>5. q.start \in Nat /\ q.end \in Nat /\ r.start \in Nat /\ r.end \in Nat
      BY <2>3, GoodArea
    <2> QED BY <1>2, <2>3, <2>4, <2>5
  <1> HIDE DEF r, C
  <1>6. \A q \in m.areas : At(q, x) # NoBacking
    <2>1. SUFFICES ASSUME NEW q \in m.areas PROVE At(q, x) # NoBacking OBVIOUS
    <2>2. q.file = NoFile \/ q.file \in Nat BY DEF Good, PlainMm, Plain
    <2>3. q.file # -2 BY <2>2 DEF NoFile
    <2> QED BY <2>3 DEF At, Backing, NoBacking
  <1>7. ASSUME NEW b, Holds(m.areas, x, b) PROVE SpaceOf(m.areas)[p] = b /\ b # NoBacking
    <2>1. PICK q \in m.areas : Cover(q, x) /\ At(q, x) = b BY <1>7 DEF Holds
    <2>2. q \in C BY <1>3, <2>1
    <2>3. q = r BY <1>5, <2>2
    <2>4. C # {} BY <2>2
    <2> QED BY <1>1, <1>4, <1>6, <2>1, <2>3, <2>4
  <1>8. ASSUME \A b : ~Holds(m.areas, x, b) PROVE SpaceOf(m.areas)[p] = NoBacking
    <2>1. \A q \in m.areas : ~Cover(q, x) BY <1>8 DEF Holds
    <2>2. C = {} BY <1>3, <2>1
    <2> QED BY <1>1, <2>2
  <1> QED BY <1>7, <1>8 DEF x

\* The same backing at its first byte, the same page.
LEMMA SpaceSame ==
  ASSUME NEW m, Good(m), NEW w, Good(w), NEW p \in Pages,
         \A b : Holds(w.areas, p * PAGE_SIZE, b) <=> Holds(m.areas, p * PAGE_SIZE, b)
  PROVE  SpaceOf(w.areas)[p] = SpaceOf(m.areas)[p]
  <1>1. CASE \E b : Holds(m.areas, p * PAGE_SIZE, b)
    <2>1. PICK b : Holds(m.areas, p * PAGE_SIZE, b) BY <1>1
    <2>2. Holds(w.areas, p * PAGE_SIZE, b) BY <2>1
    <2>3. SpaceOf(m.areas)[p] = b BY <2>1, SpaceHolds
    <2>4. SpaceOf(w.areas)[p] = b BY <2>2, SpaceHolds
    <2> QED BY <2>3, <2>4
  <1>2. CASE \A b : ~Holds(m.areas, p * PAGE_SIZE, b)
    <2>1. \A b : ~Holds(w.areas, p * PAGE_SIZE, b) BY <1>2
    <2>2. SpaceOf(m.areas)[p] = NoBacking BY <1>2, SpaceHolds
    <2>3. SpaceOf(w.areas)[p] = NoBacking BY <2>1, SpaceHolds
    <2> QED BY <2>2, <2>3
  <1> QED BY <1>1, <1>2

\* Mapping n changes its pages and no other.
LEMMA SpaceOver ==
  ASSUME NEW m, Good(m), NEW w, Good(w), NEW n, Over(m.areas, w.areas, n),
         n.start \in Nat, n.end \in Nat, Aligned(n.start), Aligned(n.end), NEW p \in Pages
  PROVE  SpaceOf(w.areas)[p] = IF Page(n.start) <= p /\ p < Page(n.end)
                               THEN At(n, p * PAGE_SIZE) ELSE SpaceOf(m.areas)[p]
  <1>1. p \in Nat /\ p * PAGE_SIZE \in Nat BY PageInSpace
  <1>2. Cover(n, p * PAGE_SIZE) <=> Page(n.start) <= p /\ p < Page(n.end)
    BY <1>1, CoverPages
  <1>3. \A b : Holds(w.areas, p * PAGE_SIZE, b) <=>
                 IF Cover(n, p * PAGE_SIZE) THEN At(n, p * PAGE_SIZE) = b
                 ELSE Holds(m.areas, p * PAGE_SIZE, b)
    BY <1>1 DEF Over
  <1>4. CASE Cover(n, p * PAGE_SIZE)
    <2>1. Holds(w.areas, p * PAGE_SIZE, At(n, p * PAGE_SIZE)) BY <1>3, <1>4
    <2> QED BY <1>2, <1>4, <2>1, SpaceHolds
  <1>5. CASE ~Cover(n, p * PAGE_SIZE)
    <2>1. \A b : Holds(w.areas, p * PAGE_SIZE, b) <=> Holds(m.areas, p * PAGE_SIZE, b)
      BY <1>3, <1>5
    <2> QED BY <1>2, <1>5, <2>1, SpaceSame
  <1> QED BY <1>4, <1>5

\* munmap clears the pages of its range and no other.
LEMMA SpaceCut ==
  ASSUME NEW m, Good(m), NEW w, Good(w), NEW a \in Nat, NEW e \in Nat,
         Aligned(a), Aligned(e), Cut(m.areas, w.areas, a, e), NEW p \in Pages
  PROVE  SpaceOf(w.areas)[p] = IF Page(a) <= p /\ p < Page(e)
                               THEN NoBacking ELSE SpaceOf(m.areas)[p]
  <1>1. p \in Nat /\ p * PAGE_SIZE \in Nat BY PageInSpace
  <1>2. /\ a <= p * PAGE_SIZE <=> Page(a) <= p
        /\ e <= p * PAGE_SIZE <=> Page(e) <= p
        /\ Page(e) \in Nat
    BY <1>1, PageOrder, AlignedWhole
  <1>3. \A b : Holds(w.areas, p * PAGE_SIZE, b) <=>
                 /\ Holds(m.areas, p * PAGE_SIZE, b)
                 /\ ~(a <= p * PAGE_SIZE /\ p * PAGE_SIZE < e)
    BY <1>1 DEF Cut
  <1>4. CASE a <= p * PAGE_SIZE /\ p * PAGE_SIZE < e
    <2>1. \A b : ~Holds(w.areas, p * PAGE_SIZE, b) BY <1>3, <1>4
    <2>2. SpaceOf(w.areas)[p] = NoBacking BY <2>1, SpaceHolds
    <2> QED BY <1>1, <1>2, <1>4, <2>2
  <1>5. CASE ~(a <= p * PAGE_SIZE /\ p * PAGE_SIZE < e)
    <2>1. \A b : Holds(w.areas, p * PAGE_SIZE, b) <=> Holds(m.areas, p * PAGE_SIZE, b)
      BY <1>3, <1>5
    <2>2. SpaceOf(w.areas)[p] = SpaceOf(m.areas)[p] BY <2>1, SpaceSame
    <2> QED BY <1>1, <1>2, <1>5, <2>2
  <1> QED BY <1>4, <1>5

\* A range of pages is unmapped if no area overlaps it.
LEMMA FreePages ==
  ASSUME NEW m, Good(m), NEW lo \in Nat, NEW hi \in Nat, hi <= Page(WORD),
         \A r \in m.areas : Page(r.end) <= lo \/ hi <= Page(r.start)
  PROVE  \A k \in lo .. hi - 1 : SpaceOf(m.areas)[k] = NoBacking
  <1> TAKE k \in lo .. hi - 1
  <1>1. k \in Nat /\ lo <= k /\ k < hi /\ Page(WORD) \in Nat
    BY AlignedWhole, PageAssumption
  <1>2. k \in Pages BY <1>1 DEF Pages
  <1>3. \A r \in m.areas : ~Cover(r, k * PAGE_SIZE)
    <2> TAKE r \in m.areas
    <2>1. Cover(r, k * PAGE_SIZE) <=> Page(r.start) <= k /\ k < Page(r.end)
      BY <1>1, GoodArea, CoverPages
    <2>2. Page(r.start) \in Nat /\ Page(r.end) \in Nat BY GoodArea
    <2> QED BY <1>1, <2>1, <2>2
  <1>4. \A b : ~Holds(m.areas, k * PAGE_SIZE, b) BY <1>3 DEF Holds
  <1> QED BY <1>2, <1>4, SpaceHolds

\* And only then.
LEMMA UsedPages ==
  ASSUME NEW m, Good(m), NEW lo \in Nat, NEW hi \in Nat, lo < hi, hi <= Page(WORD),
         \A k \in lo .. hi - 1 : SpaceOf(m.areas)[k] = NoBacking, NEW r \in m.areas
  PROVE  Page(r.end) <= lo \/ hi <= Page(r.start)
  <1> DEFINE s == Page(r.start)
             e == Page(r.end)
             k == IF s <= lo THEN lo ELSE s
  <1>1. s \in Nat /\ e \in Nat /\ s < e
    <2>1. /\ r.start \in Nat /\ r.end \in Nat /\ Aligned(r.start) /\ Aligned(r.end)
          /\ r.start < r.end
      BY GoodArea
    <2>2. (r.end <= r.start <=> e <= s) /\ s \in Nat /\ e \in Nat BY <2>1, PageMono
    <2> QED BY <2>1, <2>2
  <1>2. SUFFICES ASSUME lo < e, s < hi PROVE FALSE BY <1>1
  <1> HIDE DEF s, e
  <1>3. k \in Nat /\ k \in lo .. hi - 1 /\ s <= k /\ k < e /\ k < hi BY <1>1, <1>2
  <1> HIDE DEF k
  <1>4. k \in Pages
    <2>1. Page(WORD) \in Nat BY AlignedWhole, PageAssumption
    <2> QED BY <1>3, <2>1 DEF Pages
  <1>5. SpaceOf(m.areas)[k] = NoBacking BY <1>3
  <1>6. Cover(r, k * PAGE_SIZE) BY <1>3, GoodArea, CoverPages DEF s, e
  <1>7. Holds(m.areas, k * PAGE_SIZE, At(r, k * PAGE_SIZE)) BY <1>6 DEF Holds
  <1> QED BY <1>4, <1>5, <1>7, SpaceHolds
-----------------------------------------------------------------------------
(***************************************************************************)
(* Where mmap puts its area.                                               *)
(***************************************************************************)
FreeRange(S, y, length) == \A r \in S : r.end <= y \/ y + length <= r.start

\* PrevEnd is the end of everything below an area.
LEMMA PrevEndIs ==
  ASSUME NEW m, MmTypeOK(m), Sound(m), NEW t \in m.areas
  PROVE  /\ PrevEnd(m.areas, t) \in Nat /\ PrevEnd(m.areas, t) <= t.start
         /\ \A r \in m.areas : r.end <= PrevEnd(m.areas, t) \/ t.start <= r.start
         /\ PrevEnd(m.areas, t) = 0 \/
            \E r \in m.areas : r.end = PrevEnd(m.areas, t) /\ r.start < t.start
  <1> DEFINE B == Before(m.areas, t.start)
             h == Highest(B)
  <1>1. \A r \in m.areas : /\ r.start \in Addr /\ r.start \in Nat /\ r.end \in Nat
                           /\ r.start < r.end
                           /\ r = t \/ r.end <= t.start \/ t.end <= r.start
    BY PageAssumption DEF MmTypeOK, AreaTypeOK, Addr, Sound, WellFormed, PairwiseDisjoint
  <1>2. B \subseteq m.areas /\ \A r \in m.areas : r \in B <=> r.end <= t.start BY DEF Before
  <1>3. CASE B = {}
    <2>1. PrevEnd(m.areas, t) = 0 BY <1>3 DEF PrevEnd
    <2> QED BY <1>1, <1>2, <1>3, <2>1
  <1>4. CASE B # {}
    <2>1. PrevEnd(m.areas, t) = h.end BY <1>4 DEF PrevEnd
    <2>2. h \in B /\ \A q \in B : q.start <= h.start BY <1>1, <1>2, <1>4, HighestExists
    <2> HIDE DEF h, B
    <2>3. h \in m.areas /\ h.end <= t.start BY <1>2, <2>2
    <2>4. \A q \in B : q.end <= h.end BY <1>2, <2>2, <2>3, EndsInOrder
    <2>5. \A r \in m.areas : r.end <= h.end \/ t.start <= r.start BY <1>1, <1>2, <2>4
    <2> QED BY <1>1, <2>1, <2>3, <2>5
  <1> QED BY <1>3, <1>4

\* find_next_gap returns the highest free range below the stack's reserve.
LEMMA GapHighest ==
  ASSUME NEW m, MmTypeOK(m), Sound(m), Top(m), NEW length \in Nat, 0 < length,
         FindNextGap(m, length) # Neg(ENOMEM)
  PROVE  LET u == FindNextGap(m, length)
         IN  /\ u \in Nat /\ u + length <= user_stack_min /\ FreeRange(m.areas, u, length)
             /\ \A y \in Nat : y + length <= user_stack_min /\ FreeRange(m.areas, y, length)
                                 => y <= u
  <1> DEFINE S == m.areas
             high == user_stack_min - length
             gaps == {r \in S : PrevEnd(S, r) <= high /\ r.start - PrevEnd(S, r) >= length}
             t == Highest(gaps)
             e == IF t.start > user_stack_min THEN user_stack_min ELSE t.start
             u == FindNextGap(m, length)
  <1>1. user_stack_min \in Int BY LayoutAssumption, PageAssumption DEF user_stack_min
  <1>2. \A r \in S : r.start \in Addr /\ r.start \in Nat /\ r.end \in Nat /\ r.start < r.end
    BY PageAssumption DEF MmTypeOK, AreaTypeOK, Addr, Sound, WellFormed
  <1>3. m.highest \in Nat BY PageAssumption DEF MmTypeOK, Addr
  <1>4. /\ ~(user_stack_min < length)
        /\ u = IF m.highest <= high THEN high ELSE e - length
        /\ ~(m.highest <= high) => gaps # {}
    BY DEF FindNextGap
  <1>5. high \in Nat BY <1>1, <1>4
  <1>6. CASE m.highest <= high
    <2>1. u = high BY <1>4, <1>6
    <2>2. \A r \in S : r.end <= high BY <1>2, <1>3, <1>5, <1>6 DEF Top, TopIs
    <2> QED BY <1>1, <1>5, <2>1, <2>2 DEF FreeRange
  <1>7. CASE m.highest > high
    <2>1. u = e - length /\ gaps # {} BY <1>3, <1>4, <1>5, <1>7
    <2>2. gaps \subseteq S /\ \A r \in gaps : r.start \in Addr BY <1>2
    <2>3. t \in gaps /\ \A q \in gaps : q.start <= t.start
      BY <2>1, <2>2, HighestExists
    <2> HIDE DEF t
    <2>4. t \in S /\ PrevEnd(S, t) <= high /\ t.start - PrevEnd(S, t) >= length
      BY <2>3
    <2>5. PrevEnd(S, t) \in Nat /\ \A r \in S : r.end <= PrevEnd(S, t) \/ t.start <= r.start
      BY <2>4, PrevEndIs
    <2>6. t.start \in Nat BY <1>2, <2>4
    <2>7. PrevEnd(S, t) <= u /\ u \in Nat /\ u + length <= t.start /\ u + length <= user_stack_min
      BY <1>1, <1>5, <2>1, <2>4, <2>5, <2>6
    <2>8. FreeRange(S, u, length) BY <1>2, <2>5, <2>6, <2>7 DEF FreeRange
    <2>9. ASSUME NEW y \in Nat, y + length <= user_stack_min, FreeRange(S, y, length)
          PROVE  y <= u
      <3> DEFINE E == EndingAbove(S, y)
                 s == Lowest(E)
      <3>1. E \subseteq S /\ \A r \in S : r \in E <=> r.end > y BY DEF EndingAbove
      <3>2. E # {}
        <4>1. PICK r \in S : r.end = m.highest BY <2>4 DEF Top, TopIs
        <4>2. r.end > y BY <1>1, <1>3, <1>5, <1>7, <2>9, <4>1
        <4> QED BY <3>1, <4>2
      <3>3. s \in E /\ \A q \in E : s.start <= q.start BY <1>2, <3>1, <3>2, LowestExists
      <3> HIDE DEF s, E
      <3>4. s \in S /\ s.start \in Nat /\ y + length <= s.start
        BY <1>2, <2>9, <3>1, <3>3 DEF FreeRange
      <3>5. PrevEnd(S, s) \in Nat /\ PrevEnd(S, s) <= y
        <4>1. PrevEnd(S, s) \in Nat BY <3>4, PrevEndIs
        <4>2. CASE \E r \in S : r.end = PrevEnd(S, s) /\ r.start < s.start
          <5>1. PICK r \in S : r.end = PrevEnd(S, s) /\ r.start < s.start BY <4>2
          <5>2. r \notin E BY <1>2, <3>3, <3>4, <5>1
          <5> QED BY <1>2, <3>1, <4>1, <5>1, <5>2
        <4>3. CASE PrevEnd(S, s) = 0 BY <4>3
        <4> QED BY <3>4, <4>1, <4>2, <4>3, PrevEndIs
      <3>6. PrevEnd(S, s) <= high /\ s.start - PrevEnd(S, s) >= length
        BY <1>1, <1>5, <2>9, <3>4, <3>5
      <3>7. s.start <= t.start BY <2>3, <3>4, <3>6
      <3> QED BY <1>1, <2>1, <2>6, <2>9, <3>4, <3>7
    <2> QED BY <2>7, <2>8, <2>9
  <1> QED BY <1>3, <1>5, <1>6, <1>7

\* A hint is taken when its range is free and below the kernel.
LEMMA HintFree ==
  ASSUME NEW m, MmTypeOK(m), Sound(m), NEW a \in Addr, NEW length \in Nat,
         length <= kernel_min_address
  PROVE  HintIsFree(m, a, length) <=>
           a + length <= kernel_min_address /\ FreeRange(m.areas, a, length)
  <1> DEFINE E == EndingAbove(m.areas, a)
             f == VmaFind(m.areas, a)
  <1>1. kernel_min_address \in Nat /\ kernel_min_address < WORD /\ WORD \in Nat /\ a \in Nat
    BY PageAssumption, LayoutAssumption DEF Addr
  <1>2. Sub(kernel_min_address, length) = kernel_min_address - length BY <1>1 DEF Sub
  <1>3. a + length <= kernel_min_address => Add(a, length) = a + length BY <1>1 DEF Add
  <1>4. \A r \in m.areas : r.start \in Addr /\ r.start \in Nat /\ r.end \in Nat
    BY PageAssumption DEF MmTypeOK, AreaTypeOK, Addr
  <1>5. E \subseteq m.areas /\ \A r \in m.areas : r \in E <=> r.end > a BY DEF EndingAbove
  <1>6. E # {} => f \in E /\ \A q \in E : f.start <= q.start
    BY <1>4, <1>5, LowestExists DEF VmaFind
  <1>7. HintIsFree(m, a, length) <=> /\ Sub(kernel_min_address, length) >= a
                                     /\ E = {} \/ Add(a, length) <= f.start
    BY DEF HintIsFree
  <1> HIDE DEF E, f
  <1>8. E = {} => FreeRange(m.areas, a, length) BY <1>1, <1>4, <1>5 DEF FreeRange
  <1>9. E # {} => (a + length <= f.start <=> FreeRange(m.areas, a, length))
    BY <1>1, <1>4, <1>5, <1>6 DEF FreeRange
  <1> QED BY <1>1, <1>2, <1>3, <1>7, <1>8, <1>9

Empty(sp, x, z) == \A j \in x .. z - 1 : sp[j] = NoBacking

\* FreePlaces holds the first pages of the free ranges.
LEMMA PlaceFree ==
  ASSUME NEW m, Good(m), NEW c, NEW L \in Nat, L = PAGE_ALIGN(c.length), Aligned(L), 0 < L,
         NEW y \in Addr, Aligned(y), NEW limit \in Nat, limit < WORD
  PROVE  Page(y) \in FreePlaces(c, SpaceOf(m.areas), Page(limit)) <=>
           y + L <= limit /\ FreeRange(m.areas, y, L)
  <1> DEFINE lo == Page(y)
             k == Page(L)
             hi == lo + k
  <1>1. y \in Nat /\ WORD \in Nat BY PageAssumption DEF Addr
  <1>2. y + L \in Nat /\ Aligned(y + L) /\ Page(y + L) = hi
    <2>1. Aligned(y + L) /\ Page(y + L) = Page(y) + Page(L) BY <1>1, AlignedSum
    <2> QED BY <1>1, <2>1
  <1>3. lo \in Nat /\ k \in Nat /\ 0 < k
    <2>1. lo \in Nat /\ k \in Nat /\ L = PAGE_SIZE * k BY <1>1, AlignedWhole
    <2> HIDE DEF k
    <2>2. k # 0 BY <2>1, PageAssumption
    <2> QED BY <2>1, <2>2
  <1>4. lo \in Pages BY PagesAre
  <1>5. y + L <= limit <=> hi <= Page(limit) BY <1>2, PageFloor
  <1>6. Page(limit) \in Nat /\ Page(limit) <= Page(WORD) /\ Page(WORD) \in Nat
    <2> DEFINE x == PAGE_SIZE * Page(limit)
    <2>1. Page(limit) \in Nat /\ x \in Nat BY PageAssumption DEF Page
    <2>2. Aligned(x) /\ Page(x) = Page(limit) BY <2>1, WholeAligned
    <2> HIDE DEF x
    <2>3. x <= limit BY <2>1, <2>2, PageFloor
    <2> QED BY <1>1, <2>1, <2>2, <2>3, PageFloor
  <1>7. ASSUME NEW r \in m.areas
        PROVE  (r.end <= y <=> Page(r.end) <= lo) /\ (y + L <= r.start <=> hi <= Page(r.start))
    BY <1>1, <1>2, GoodArea, PageMono
  <1>8. PagesOf(c) = k BY DEF PagesOf
  <1> HIDE DEF lo, k
  <1>9. lo \in FreePlaces(c, SpaceOf(m.areas), Page(limit)) <=>
          hi <= Page(limit) /\ Empty(SpaceOf(m.areas), lo, hi)
    <2>1. lo \in FreePlaces(c, SpaceOf(m.areas), Page(limit)) <=>
            /\ lo + PagesOf(c) <= Page(limit)
            /\ \A j \in lo .. lo + PagesOf(c) - 1 : SpaceOf(m.areas)[j] = NoBacking
      BY <1>4 DEF FreePlaces
    <2>2. lo + PagesOf(c) = hi /\ lo + PagesOf(c) - 1 = hi - 1 BY <1>3, <1>8
    <2> HIDE DEF hi
    <2> QED BY <2>1, <2>2 DEF Empty
  <1>10. hi \in Nat /\ lo < hi BY <1>3
  <1> HIDE DEF hi
  <1>11. ASSUME hi <= Page(limit), Empty(SpaceOf(m.areas), lo, hi)
         PROVE  FreeRange(m.areas, y, L)
    <2>1. hi <= Page(WORD) BY <1>6, <1>10, <1>11
    <2>2. \A r \in m.areas : Page(r.end) <= lo \/ hi <= Page(r.start)
      BY <1>3, <1>10, <1>11, <2>1, UsedPages DEF Empty
    <2> QED BY <1>7, <2>2 DEF FreeRange
  <1>12. ASSUME hi <= Page(limit), FreeRange(m.areas, y, L)
         PROVE  Empty(SpaceOf(m.areas), lo, hi)
    <2>1. hi <= Page(WORD) BY <1>6, <1>10, <1>12
    <2>2. \A r \in m.areas : Page(r.end) <= lo \/ hi <= Page(r.start)
      BY <1>7, <1>12 DEF FreeRange
    <2> QED BY <1>3, <1>10, <2>1, <2>2, FreePages DEF Empty
  <1> QED BY <1>5, <1>9, <1>11, <1>12 DEF lo

\* An mmap that does not run off the end of the address space lands where the
\* abstract one may.
LEMMA PlaceRef ==
  ASSUME OrdinaryCalls, NEW m, Good(m), Top(m), NEW c \in MmapCalls, ~MmapInvalid(c),
         NEW a \in GetUnmappedArea(m, c.addr, PAGE_ALIGN(c.length), c.fixed),
         a \in Addr, a < Add(a, PAGE_ALIGN(c.length))
  PROVE  Aligned(a) /\ Page(a) \in Places(c, SpaceOf(m.areas))
  <1> DEFINE L == PAGE_ALIGN(c.length)
             sp == SpaceOf(m.areas)
             gaps == FreePlaces(c, sp, Page(user_stack_min))
             h == PAGE_ALIGN(c.addr)
  <1>1. c.addr \in Addr /\ c.length \in Addr BY MmapCallsAssumption
  <1>2. L \in Addr /\ Aligned(L) BY <1>1, PageAlignType, PageAlignAligned
  <1>3. L \in Nat /\ 0 < L BY <1>2, PageAssumption DEF Addr, MmapInvalid
  <1>4. PAGE_SIZE <= L
    <2>1. SUFFICES ASSUME L < PAGE_SIZE PROVE FALSE BY <1>3, PageAssumption
    <2>2. L = 0 BY <1>1, <2>1, PageAlignSmall
    <2> QED BY <1>3, <2>2
  <1>5. /\ kernel_min_address \in Nat /\ kernel_min_address + PAGE_SIZE <= WORD
        /\ WORD \in Nat /\ PAGE_SIZE \in Nat /\ 0 < PAGE_SIZE
        /\ ENOMEM \in Nat /\ EINVAL \in Nat /\ ENOMEM < PAGE_SIZE /\ EINVAL < PAGE_SIZE
        /\ 0 < ENOMEM /\ 0 < EINVAL
    BY PageAssumption, LayoutAssumption DEF OrdinaryCalls
  <1>6. a \in Nat /\ a < WORD BY <1>5 DEF Addr
  <1>7. Places(c, sp) = IF c.fixed THEN {Page(c.addr)}
                        ELSE IF c.addr = 0 THEN {p \in gaps : \A q \in gaps : q <= p}
                        ELSE IF Page(h) \in FreePlaces(c, sp, Page(kernel_min_address))
                        THEN {Page(h)}
                        ELSE {p \in Pages : p + PagesOf(c) <= Page(kernel_min_address)}
    BY DEF Places
  <1> HIDE DEF L, sp, gaps, h
  <1>8. CASE c.fixed
    <2>1. a = c.addr /\ Aligned(c.addr) BY <1>8 DEF GetUnmappedArea, OrdinaryCalls
    <2> QED BY <1>7, <1>8, <2>1 DEF sp
  <1>9. CASE ~c.fixed
    <2>1. L <= kernel_min_address BY <1>9 DEF OrdinaryCalls, L
    <2>2. PICK u \in UnmappedAreaUnchecked(m, c.addr, L) : a = CheckedArea(u, L)
      BY <1>9 DEF GetUnmappedArea, L
    <2>3. a # Neg(ENOMEM) /\ a # Neg(EINVAL)
      <3>1. a < Add(a, L) BY DEF L
      <3>2. a + L < WORD BY <1>3, <1>5, <1>6, <3>1, <1>2 DEF Add, Addr
      <3> QED BY <1>3, <1>4, <1>5, <1>6, <3>2 DEF Neg
    <2>4. Sub(kernel_min_address, L) = kernel_min_address - L BY <1>5, <1>3, <2>1 DEF Sub
    <2>5. a = u /\ Aligned(u) /\ ~(a > kernel_min_address - L)
      BY <2>2, <2>3, <2>4 DEF CheckedArea
    <2>6. a + L <= kernel_min_address BY <1>3, <1>5, <1>6, <2>5
    <2>7. kernel_min_address < WORD BY <1>5
    <2>8. Page(a) \in Pages BY <2>5, PagesAre
    <2>9. CASE c.addr = 0
      <3>1. u = FindNextGap(m, L) BY <2>2, <2>9 DEF UnmappedAreaUnchecked
      <3>2. /\ a + L <= user_stack_min /\ FreeRange(m.areas, a, L)
            /\ \A y \in Nat : y + L <= user_stack_min /\ FreeRange(m.areas, y, L) => y <= a
        BY <1>3, <2>3, <2>5, <3>1, GapHighest DEF Good
      <3>3. user_stack_min \in Nat /\ user_stack_min < WORD
        BY LayoutAssumption, PageAssumption DEF user_stack_min
      <3>4. Page(a) \in gaps
        BY <1>2, <1>3, <2>5, <3>2, <3>3, PlaceFree DEF gaps, sp, L
      <3>5. ASSUME NEW q \in gaps PROVE q <= Page(a)
        <4> DEFINE y == q * PAGE_SIZE
        <4>1. q \in Pages BY <3>5 DEF gaps, FreePlaces
        <4>2. q \in Nat /\ y \in Nat BY <4>1, PageInSpace
        <4>3. y = PAGE_SIZE * q BY <4>2, PageAssumption
        <4>4. Aligned(y) /\ Page(y) = q BY <4>2, <4>3, WholeAligned
        <4>5. y \in Addr
          <5>1. WORD <= y <=> Page(WORD) <= q BY <4>2, PageOrder, PageAssumption
          <5>2. Page(WORD) \in Nat BY AlignedWhole, PageAssumption
          <5>3. q < Page(WORD) BY <4>1, <4>2, <5>2 DEF Pages
          <5> QED BY <1>5, <4>2, <5>1, <5>2, <5>3 DEF Addr
        <4> HIDE DEF y
        <4>6. y + L <= user_stack_min /\ FreeRange(m.areas, y, L)
          BY <1>2, <1>3, <3>3, <3>5, <4>4, <4>5, PlaceFree DEF gaps, sp, L
        <4>7. y <= a BY <3>2, <4>2, <4>6
        <4> QED BY <1>6, <2>5, <4>2, <4>4, <4>7, PageMono
      <3> QED BY <1>7, <1>9, <2>5, <2>9, <3>4, <3>5 DEF sp
    <2>10. CASE c.addr # 0
      <3>1. h \in Addr /\ Aligned(h) BY <1>1, PageAlignType, PageAlignAligned DEF h
      <3>2. HintIsFree(m, h, L) <=> h + L <= kernel_min_address /\ FreeRange(m.areas, h, L)
        BY <1>3, <2>1, <3>1, HintFree DEF Good
      <3>3. HintIsFree(m, h, L) <=> Page(h) \in FreePlaces(c, sp, Page(kernel_min_address))
        BY <1>2, <1>3, <1>5, <2>7, <3>1, <3>2, PlaceFree DEF sp, L
      <3>4. CASE HintIsFree(m, h, L)
        <4>1. u = h BY <2>2, <2>10, <3>4 DEF UnmappedAreaUnchecked, h
        <4> QED BY <1>7, <1>9, <2>5, <2>10, <3>3, <3>4, <4>1 DEF sp
      <3>5. CASE ~HintIsFree(m, h, L)
        <4>1. Aligned(a + L) /\ Page(a + L) = Page(a) + Page(L) /\ a + L \in Nat
          BY <1>2, <1>3, <1>6, <2>5, AlignedSum
        <4>2. Page(a + L) <= Page(kernel_min_address)
          BY <1>5, <2>6, <4>1, PageFloor
        <4>3. PagesOf(c) = Page(L) BY DEF PagesOf, L
        <4> QED BY <1>7, <1>9, <2>5, <2>8, <2>10, <3>3, <3>5, <4>1, <4>2, <4>3 DEF sp
      <3> QED BY <3>4, <3>5
    <2> QED BY <2>9, <2>10
  <1> QED BY <1>8, <1>9
-----------------------------------------------------------------------------
(***************************************************************************)
(* Every step is a step of AddrSpace.                                      *)
(***************************************************************************)
RInv == status = "run" => PlainMm(Mm)
AbsStep == Abstract!Next \/ UNCHANGED Abstract!vars

\* While the machine runs.
LEMMA RunningGood ==
  ASSUME IInv, RInv, Running
  PROVE  Good(Mm) /\ Mm.areas = areas /\ Mm.heap = heap /\ status = "run"
  BY RunningSound DEF Good, RInv, Running

\* A step that stops the machine.
LEMMA StopsRef ==
  ASSUME status' # "run"
  PROVE  RInv' /\ AbsStep
  BY DEF RInv, AbsStep, Abstract!Next, Abstract!Halt

\* A step that changes neither the areas nor the heap.
LEMMA IdleRef ==
  ASSUME RInv, areas' = areas, heap' = heap, status' = status
  PROVE  RInv' /\ AbsStep
  <1>1. Mm'.areas = Mm.areas /\ Mm'.heap = Mm.heap BY DEF Mm
  <1>2. PlainMm(Mm) => PlainMm(Mm') BY <1>1 DEF PlainMm, HeapGrows
  <1>3. HeapVma(Mm') = HeapVma(Mm) BY <1>1 DEF HeapVma
  <1>4. SpaceOf(areas)' = SpaceOf(areas) /\ HeapEnd' = HeapEnd BY <1>3 DEF HeapEnd
  <1> QED BY <1>2, <1>4 DEF RInv, AbsStep, Abstract!vars

\* What Commit leaves for the next step.
LEMMA CommitRef ==
  ASSUME NEW w, PlainMm(w), areas' = w.areas, heap' = w.heap
  PROVE  RInv' /\ PlainMm(Mm)'
  <1>1. Mm'.areas = w.areas /\ Mm'.heap = w.heap BY DEF Mm
  <1>2. PlainMm(Mm') BY <1>1 DEF PlainMm, HeapGrows
  <1> QED BY <1>2 DEF RInv

\* The area an accepted mmap asks for.
LEMMA NewAreaPlain ==
  ASSUME OrdinaryCalls, NEW c \in MmapCalls, ~MmapInvalid(c), NEW a \in Addr, Aligned(a),
         NEW fd \in Fds \cup {NoFd}, c.fd = NoFd <=> fd = NoFd,
         a < Add(a, PAGE_ALIGN(c.length))
  PROVE  LET n == NewArea(c, a, fd)
         IN  /\ NewPlain(n) /\ n.start = a /\ n.end = a + PAGE_ALIGN(c.length)
             /\ Page(n.end) = Page(a) + PagesOf(c)
             /\ \A p \in Nat : At(n, p * PAGE_SIZE) = NewBacking(c, p - Page(a))
  <1> DEFINE n == NewArea(c, a, fd)
             o == NewArea(c, 0, 0)
             L == PAGE_ALIGN(c.length)
             lo == Page(a)
  <1>1. c.length \in Addr /\ c.fd \in Fds \cup {NoFd} /\ c.off \in Int
    BY MmapCallsAssumption
  <1>2. L \in Addr /\ Aligned(L) BY <1>1, PageAlignType, PageAlignAligned
  <1>3. a \in Nat /\ L \in Nat /\ WORD \in Nat /\ a < WORD /\ L < WORD
    BY <1>2, PageAssumption DEF Addr
  <1>4. AreaTypeOK(n) /\ n.start = a /\ n.end = Add(a, L) BY NewAreaType
  <1>5. n.end = a + L BY <1>3, <1>4 DEF Add
  <1>6. lo \in Nat /\ a = PAGE_SIZE * lo BY <1>3, AlignedWhole
  <1>7. Aligned(n.end) /\ Page(n.end) = lo + PagesOf(c)
    BY <1>2, <1>3, <1>5, AlignedSum DEF PagesOf
  <1>8. /\ n.file = IF c.fd = NoFd THEN NoFile ELSE FileOf(c.fd)
        /\ n.fd = fd /\ n.off = IF c.fd = NoFd /\ c.type = "shared" THEN 0 ELSE c.off
        /\ "GROWS" \in n.flags => c.grows
        /\ o.file = n.file /\ o.flags = n.flags /\ o.off = n.off
    BY DEF NewArea
  <1>9. c.fd # NoFd => ~c.grows /\ FileOf(c.fd) \in Nat /\ L < PAGE_SIZE * PAGE_SIZE
    BY DEF OrdinaryCalls
  <1>10. n.off \in Int BY <1>1, <1>8
  <1> HIDE DEF n, o, L, lo
  <1>11. Plain(n)
    <2>1. Aligned(n.start) BY <1>4
    <2>2. CASE c.fd = NoFd BY <1>7, <1>8, <2>1, <2>2 DEF Plain
    <2>3. CASE c.fd # NoFd
      <3>1. n.file \in Nat /\ "GROWS" \notin n.flags /\ n.off = c.off BY <1>8, <1>9, <2>3
      <3>2. Aligned(n.off) BY <3>1 DEF MmapInvalid
      <3>3. n.end - n.start = L BY <1>3, <1>4, <1>5
      <3> QED BY <1>7, <1>9, <2>1, <2>3, <3>1, <3>2, <3>3 DEF Plain
    <2> QED BY <2>2, <2>3
  <1>12. NewPlain(n)
    <2>1. n.start < n.end BY <1>4 DEF L
    <2>2. n.file # NoFile => n.fd # NoFd BY <1>8
    <2> QED BY <1>4, <1>11, <2>1, <2>2 DEF NewPlain
  <1>13. ASSUME NEW p \in Nat PROVE At(n, p * PAGE_SIZE) = NewBacking(c, p - lo)
    <2>1. n.off + p * PAGE_SIZE - n.start = o.off + (p - lo) * PAGE_SIZE
      BY <1>4, <1>6, <1>8, <1>10, PageAssumption
    <2> QED BY <1>8, <2>1 DEF At, NewBacking, o
  <1> QED BY <1>4, <1>5, <1>7, <1>12, <1>13 DEF n, L, lo

\* syscall_mmap.
LEMMA SysMmapRef ==
  ASSUME OrdinaryCalls, IInv, RInv, HighestIsTop, NEW c \in MmapCalls, SysMmap(c)
  PROVE  RInv' /\ AbsStep
  <1> DEFINE L == PAGE_ALIGN(c.length)
  <1>1. PICK a, opened, fd :
         /\ a \in GetUnmappedArea(Mm, c.addr, PAGE_ALIGN(c.length), c.fixed)
         /\ a \in Addr /\ fd \in Fds \cup {NoFd} /\ (c.fd = NoFd <=> fd = NoFd)
         /\ MmTypeOK(opened) /\ Sound(opened) /\ Cardinality(Fds \ opened.fds) >= 2
         /\ opened.areas = areas /\ opened.highest = highest /\ opened.heap = heap
         /\ opened.host = host /\ opened.status = "run"
         /\ IF MapTypeInvalid(c) THEN Commit(opened)
            ELSE Commit(MmapRegion(opened, NewArea(c, a, fd), PAGE_ALIGN(c.length)).m)
    BY SysMmapStages
  <1>2. Running /\ ~MmapInvalid(c) BY DEF SysMmap
  <1>3. Good(Mm) /\ Mm.areas = areas /\ Mm.heap = heap /\ status = "run"
    BY <1>2, RunningGood
  <1>4. PlainMm(opened) /\ Good(opened)
    BY <1>1, <1>3 DEF Good, PlainMm, HeapGrows
  <1>5. Top(Mm) BY <1>3 DEF HighestIsTop, Top, Mm
  <1>6. CASE MapTypeInvalid(c)
    <2>1. areas' = areas /\ heap' = heap /\ status' = status
      BY <1>1, <1>3, <1>6 DEF Commit
    <2> QED BY <2>1, IdleRef
  <1>7. CASE ~MapTypeInvalid(c)
    <2> DEFINE n == NewArea(c, a, fd)
               R == MmapRegion(opened, n, L)
    <2>1. Commit(R.m) BY <1>1, <1>7
    <2>2. AreaTypeOK(n) /\ n.start = a /\ n.end = Add(a, L) BY <1>1, NewAreaType
    <2>3. L \in Addr /\ Aligned(L)
      BY MmapCallsAssumption, PageAlignType, PageAlignAligned
    <2>4. ASSUME a < n.end
          PROVE  /\ Aligned(a) /\ Page(a) \in Places(c, SpaceOf(areas)) /\ NewPlain(n)
                 /\ n.end = a + L /\ Page(n.end) = Page(a) + PagesOf(c)
                 /\ \A p \in Nat : At(n, p * PAGE_SIZE) = NewBacking(c, p - Page(a))
      <3>1. Aligned(a) /\ Page(a) \in Places(c, SpaceOf(Mm.areas))
        BY <1>1, <1>2, <1>3, <1>5, <2>2, <2>4, PlaceRef
      <3> QED BY <1>1, <1>2, <1>3, <2>2, <2>4, <3>1, NewAreaPlain
    <2> HIDE DEF n, L
    <2>5. \/ R.m = opened /\ MunmapInvalid(n.start, L)
          \/ R.m.status = "corrupt"
          \/ /\ n.start < n.end /\ n.end = n.start + L
             /\ Over(opened.areas, R.m.areas, n) /\ PlainMm(R.m)
             /\ \E v \in R.m.areas : v.start = R.at /\ v.flags = n.flags
      BY <1>1, <1>4, <2>2, <2>3, <2>4, MmapRegionRef
    <2>6. \/ R.m = opened /\ MunmapInvalid(n.start, L)
          \/ MmTypeOK(R.m) /\ R.m.status = "corrupt" /\ n.end <= n.start
          \/ Placed(R.m, R.at, opened)
      BY <1>1, <2>2, <2>3, MmapRegionSound
    <2> HIDE DEF R
    <2>7. CASE R.m = opened
      <3>1. areas' = areas /\ heap' = heap /\ status' = status
        BY <1>1, <1>3, <2>1, <2>7 DEF Commit
      <3> QED BY <3>1, IdleRef
    <2>8. CASE R.m.status = "corrupt"
      <3>1. status' # "run" BY <2>1, <2>8 DEF Commit
      <3> QED BY <3>1, StopsRef
    <2>9. CASE /\ R.m # opened /\ R.m.status # "corrupt"
      <3>1. /\ a < n.end /\ Over(areas, R.m.areas, n) /\ PlainMm(R.m)
        BY <1>1, <2>2, <2>5, <2>9
      <3>2. MmTypeOK(R.m) /\ Sound(R.m) /\ R.m.status = "run"
        BY <1>1, <2>6, <2>9 DEF Placed
      <3>3. Good(R.m) BY <3>1, <3>2 DEF Good
      <3>4. areas' = R.m.areas /\ heap' = R.m.heap /\ status' = "run"
        BY <2>1, <3>2 DEF Commit
      <3>5. RInv' BY <3>1, <3>4, CommitRef
      <3>6. /\ n.start \in Nat /\ n.end \in Nat /\ Aligned(n.start) /\ Aligned(n.end)
        <4>1. n.start \in Nat /\ n.end \in Nat BY <2>2, PageAssumption DEF AreaTypeOK, Addr
        <4>2. Plain(n) BY <2>4, <3>1 DEF NewPlain
        <4> QED BY <4>1, <4>2 DEF Plain
      <3>7. ASSUME NEW p \in Pages
            PROVE  SpaceOf(areas')[p] = IF Page(a) <= p /\ p < Page(a) + PagesOf(c)
                                        THEN NewBacking(c, p - Page(a)) ELSE SpaceOf(areas)[p]
        <4>1. SpaceOf(R.m.areas)[p] = IF Page(n.start) <= p /\ p < Page(n.end)
                                      THEN At(n, p * PAGE_SIZE) ELSE SpaceOf(Mm.areas)[p]
          BY <1>3, <3>1, <3>3, <3>6, SpaceOver
        <4>2. p \in Nat BY PageInSpace
        <4> QED BY <1>3, <2>2, <2>4, <3>1, <3>4, <4>1, <4>2
      <3>8. Page(a) \in Places(c, SpaceOf(areas)) BY <2>4, <3>1
      <3>9. Abstract!Mmap(c) BY <3>7, <3>8 DEF Abstract!Mmap, Abstract!Becomes
      <3>10. AbsStep BY <1>3, <3>4, <3>9 DEF AbsStep, Abstract!Next
      <3> QED BY <3>5, <3>10
    <2> QED BY <2>7, <2>8, <2>9
  <1> QED BY <1>6, <1>7

\* syscall_munmap.
LEMMA SysMunmapRef ==
  ASSUME IInv, RInv, NEW u \in MunmapCalls, SysMunmap(u[1], u[2])
  PROVE  RInv' /\ AbsStep
  <1> DEFINE w == Munmap(Mm, u[1], u[2])
             e == u[1] + PAGE_ALIGN(u[2])
  <1>1. Running /\ ~MunmapInvalid(u[1], u[2]) /\ Commit(w) BY DEF SysMunmap
  <1>2. u[1] \in Addr /\ u[2] \in Addr BY CallsAssumption
  <1>3. Good(Mm) /\ Mm.areas = areas /\ Mm.heap = heap /\ status = "run" /\ Mm.status = "run"
    BY <1>1, RunningGood, RunningSound
  <1>4. Cardinality(Fds \ Mm.fds) >= 2
    <2>1. Mm.fds = fds /\ Cardinality(Fds \ fds) >= 3 BY <1>1, RunningSound
    <2>2. 2 \in Nat /\ Cardinality(Fds \ fds) >= 2 + 1 BY <2>1
    <2> QED BY <2>1, <2>2, SpareAfterOne
  <1>5. MmTypeOK(Mm) /\ Sound(Mm) /\ PlainMm(Mm) BY <1>3 DEF Good
  <1>6. MmTypeOK(w) /\ Sound(w) /\ w.status = Mm.status
    BY <1>1, <1>2, <1>4, <1>5, MunmapSound
  <1>7. Cut(Mm.areas, w.areas, u[1], e) /\ PlainMm(w)
    BY <1>1, <1>2, <1>4, <1>5, MunmapRef
  <1> HIDE DEF w
  <1>8. areas' = w.areas /\ heap' = w.heap /\ status' = "run"
    BY <1>1, <1>3, <1>6 DEF Commit
  <1>9. RInv' BY <1>7, <1>8, CommitRef
  <1>10. u[1] \in Nat /\ e \in Nat /\ Aligned(u[1]) /\ Aligned(e)
    <2>1. Aligned(PAGE_ALIGN(u[2])) /\ PAGE_ALIGN(u[2]) \in Nat /\ u[1] \in Nat
      BY <1>2, PageAlignAligned, PageAlignType, PageAssumption DEF Addr
    <2>2. Aligned(u[1]) BY <1>1 DEF MunmapInvalid
    <2> QED BY <2>1, <2>2, AlignedSum
  <1>11. Good(w) BY <1>6, <1>7 DEF Good
  <1> HIDE DEF e
  <1>12. ASSUME NEW p \in Pages
         PROVE  SpaceOf(areas')[p] = IF Page(u[1]) <= p /\ p < Page(e)
                                     THEN NoBacking ELSE SpaceOf(areas)[p]
    <2>1. SpaceOf(w.areas)[p] = IF Page(u[1]) <= p /\ p < Page(e)
                                THEN NoBacking ELSE SpaceOf(Mm.areas)[p]
      BY <1>3, <1>7, <1>10, <1>11, SpaceCut
    <2> QED BY <1>3, <1>8, <2>1
  <1> DEFINE v == <<Page(u[1]), Page(e)>>
  <1>13. v \in MunmapPages BY DEF MunmapPages, e
  <1>14. Abstract!Munmap(v) BY <1>12 DEF Abstract!Munmap, Abstract!Becomes
  <1> HIDE DEF v
  <1>15. AbsStep BY <1>3, <1>8, <1>13, <1>14 DEF AbsStep, Abstract!Next
  <1> QED BY <1>9, <1>15

\* The first brk(0).
LEMMA BrkStartRef ==
  ASSUME IInv, RInv, Running, BrkStart
  PROVE  RInv' /\ AbsStep
  <1> DEFINE n == FirstHeapArea
             R == MmapRegion(Mm, n, PAGE_SIZE)
             lo == Page(user_heap_start)
             b == Backing(NoFile, {"GROWS"}, 0)
  <1>1. Good(Mm) /\ Mm.areas = areas /\ Mm.heap = heap /\ status = "run" /\ Mm.status = "run"
    BY RunningGood, RunningSound
  <1>2. MmTypeOK(Mm) /\ Sound(Mm) /\ PlainMm(Mm) BY <1>1 DEF Good
  <1>3. /\ AreaTypeOK(n) /\ n.start < n.end /\ n.end = Add(n.start, PAGE_SIZE)
        /\ n.start = user_heap_start /\ n.end = user_heap_start + PAGE_SIZE
        /\ PAGE_SIZE \in Addr /\ ~MunmapInvalid(n.start, PAGE_SIZE)
        /\ Cardinality(Fds \ Mm.fds) >= 2 /\ Placed(R.m, R.at, Mm)
        /\ areas' = R.m.areas /\ highest' = R.m.highest /\ heap' = R.at
        /\ status' = "run"
    BY BrkStartStages
  <1>4. PAGE_SIZE \in Nat /\ user_heap_start \in Nat /\ Aligned(user_heap_start)
    BY PageAssumption, LayoutAssumption
  <1>5. Aligned(PAGE_SIZE) /\ Page(PAGE_SIZE) = 1 BY PageAssumption DEF Aligned, Page
  <1>6. Aligned(n.end) /\ Page(n.end) = lo + 1 BY <1>3, <1>4, <1>5, AlignedSum
  <1>7. n.file = NoFile /\ n.flags = {"GROWS"} BY DEF FirstHeapArea
  <1> HIDE DEF n, R
  <1>8. NewPlain(n) BY <1>3, <1>4, <1>6, <1>7 DEF NewPlain, Plain
  <1>9. \A x : At(n, x) = b BY <1>7 DEF At, Backing
  <1>10. \/ R.m = Mm /\ MunmapInvalid(n.start, PAGE_SIZE)
         \/ R.m.status = "corrupt"
         \/ /\ n.start < n.end /\ n.end = n.start + PAGE_SIZE
            /\ Over(Mm.areas, R.m.areas, n) /\ PlainMm(R.m)
            /\ \E v \in R.m.areas : v.start = R.at /\ v.flags = n.flags
    BY <1>2, <1>3, <1>5, <1>8, MmapRegionRef DEF R
  <1>11. R.m.status = "run" /\ MmTypeOK(R.m) /\ Sound(R.m) BY <1>1, <1>3 DEF Placed
  <1>12. Over(Mm.areas, R.m.areas, n) /\ PlainMm(R.m) BY <1>3, <1>10, <1>11
  <1>13. PICK v \in R.m.areas : v.start = R.at /\ v.flags = n.flags BY <1>3, <1>10, <1>11
  <1>14. Good(R.m) BY <1>11, <1>12 DEF Good
  <1>15. RInv'
    <2>1. Mm'.areas = R.m.areas /\ Mm'.heap = R.at BY <1>3 DEF Mm
    <2>2. ASSUME NEW r \in R.m.areas, r.start = R.at PROVE "GROWS" \in r.flags
      <3>1. r = v BY <1>11, <1>13, <2>2, SameStart
      <3> QED BY <1>7, <1>13, <3>1
    <2>3. PlainMm(Mm') BY <1>12, <2>1, <2>2 DEF PlainMm, HeapGrows
    <2> QED BY <2>3 DEF RInv
  <1> HIDE DEF b, lo
  <1>16. ASSUME NEW p \in Pages
         PROVE  SpaceOf(areas')[p] = IF lo <= p /\ p < lo + 1 THEN b ELSE SpaceOf(areas)[p]
    <2>1. n.start \in Nat /\ n.end \in Nat /\ Aligned(n.start) BY <1>3, <1>4
    <2>2. SpaceOf(R.m.areas)[p] = IF Page(n.start) <= p /\ p < Page(n.end)
                                  THEN At(n, p * PAGE_SIZE) ELSE SpaceOf(Mm.areas)[p]
      BY <1>1, <1>6, <1>12, <1>14, <2>1, SpaceOver
    <2> QED BY <1>1, <1>3, <1>6, <1>9, <2>2 DEF lo
  <1>17. Abstract!BrkStart BY <1>16 DEF Abstract!BrkStart, Abstract!Becomes, lo, b
  <1>18. AbsStep BY <1>1, <1>3, <1>17 DEF AbsStep, Abstract!Next
  <1> QED BY <1>15, <1>18

\* Adding a range nothing covers puts it over nothing.
LEMMA PutOver ==
  ASSUME NEW S, NEW T, NEW n, Put(S, T, n),
         \A r \in S : \A x \in Nat : ~(Cover(r, x) /\ Cover(n, x))
  PROVE  Over(S, T, n)
  <1>1. SUFFICES ASSUME NEW x \in Nat, NEW b
                 PROVE  Holds(T, x, b) <=> IF Cover(n, x) THEN At(n, x) = b ELSE Holds(S, x, b)
    BY DEF Over
  <1>2. Holds(T, x, b) <=> Holds(S, x, b) \/ (Cover(n, x) /\ At(n, x) = b) BY DEF Put
  <1>3. Cover(n, x) => ~Holds(S, x, b) BY DEF Holds
  <1> QED BY <1>2, <1>3

\* n stands for the anonymous bytes [a, e).
Stretch(n, a, e, flags) ==
    n.start = a /\ n.end = e /\ n.file = NoFile /\ n.flags = flags

\* An anonymous area r becomes v, which takes in the free range [a, e) next to it.
LEMMA WidenedOver ==
  ASSUME NEW m, Good(m), NEW r \in m.areas, r.file = NoFile,
         NEW a \in Nat, NEW e \in Nat, Aligned(a), Aligned(e),
         \A q \in m.areas : q.end <= a \/ e <= q.start,
         NEW v, v.file = NoFile, v.flags = r.flags,
         \/ a = r.end /\ r.end <= e /\ v.start = r.start /\ v.end = e
         \/ e = r.start /\ a <= e /\ v.start = a /\ v.end = r.end,
         NEW T, T = (m.areas \ {r}) \cup {v}
  PROVE  \E n : Stretch(n, a, e, r.flags) /\ Over(m.areas, T, n)
  <1> DEFINE n == [r EXCEPT !.start = a, !.end = e]
  <1>1. /\ r.start \in Nat /\ r.end \in Nat /\ Aligned(r.start) /\ Aligned(r.end)
        /\ r.start < r.end
    BY GoodArea
  <1>2. n.start = a /\ n.end = e /\ n.file = NoFile /\ n.flags = r.flags
    BY DEF Good, MmTypeOK, AreaTypeOK
  <1> HIDE DEF n
  <1>4. Absorbs({r}, n, v)
    <2>1. Plain(v)
      <3>1. Aligned(v.start) /\ Aligned(v.end) BY <1>1
      <3> QED BY <3>1 DEF Plain
    <2>2. \A x \in Nat : Cover(v, x) <=> Cover(n, x) \/ Cover(r, x)
      BY <1>1, <1>2 DEF Cover
    <2> QED BY <1>2, <2>1, <2>2 DEF Absorbs
  <1>5. Put(m.areas, T, n) BY <1>4, AbsorbPut
  <1>6. ASSUME NEW q \in m.areas, NEW x \in Nat PROVE ~(Cover(q, x) /\ Cover(n, x))
    <2>1. q.start \in Nat /\ q.end \in Nat /\ (q.end <= a \/ e <= q.start) BY GoodArea
    <2> QED BY <1>2, <2>1 DEF Cover
  <1>7. Over(m.areas, T, n) BY <1>5, <1>6, PutOver
  <1> QED BY <1>2, <1>7 DEF Stretch

\* Then its pages, and no other, take r's backing.
LEMMA WidenedRef ==
  ASSUME NEW m, Good(m), NEW w, Good(w), NEW a \in Nat, NEW e \in Nat, Aligned(a), Aligned(e),
         NEW flags, NEW n, Stretch(n, a, e, flags), Over(m.areas, w.areas, n), NEW p \in Pages
  PROVE  SpaceOf(w.areas)[p] =
           IF Page(a) <= p /\ p < Page(e) THEN Backing(NoFile, flags, 0)
           ELSE SpaceOf(m.areas)[p]
  <1>1. n.start = a /\ n.end = e BY DEF Stretch
  <1>2. At(n, p * PAGE_SIZE) = Backing(NoFile, flags, 0) BY DEF Stretch, At, Backing
  <1>3. SpaceOf(w.areas)[p] = IF Page(n.start) <= p /\ p < Page(n.end)
                              THEN At(n, p * PAGE_SIZE) ELSE SpaceOf(m.areas)[p]
    BY <1>1, SpaceOver
  <1> QED BY <1>1, <1>2, <1>3

\* What backs a page of an anonymous area.
LEMMA AnonymousPage ==
  ASSUME NEW m, Good(m), NEW r \in m.areas, r.file = NoFile, NEW p \in Nat,
         Page(r.start) <= p, p < Page(r.end)
  PROVE  p \in Pages /\ SpaceOf(m.areas)[p] = Backing(NoFile, r.flags, 0)
  <1>1. /\ r.start \in Nat /\ r.end \in Nat /\ Aligned(r.start) /\ Aligned(r.end)
        /\ r.end \in Addr /\ Page(r.end) \in Nat
    BY GoodArea
  <1>2. Page(r.end) \in Pages BY <1>1, PagesAre
  <1>3. p \in Pages
    <2>1. Page(WORD) \in Nat BY AlignedWhole, PageAssumption
    <2> QED BY <1>1, <1>2, <2>1 DEF Pages
  <1>4. Cover(r, p * PAGE_SIZE) BY <1>1, CoverPages
  <1>5. At(r, p * PAGE_SIZE) = Backing(NoFile, r.flags, 0) BY DEF At, Backing
  <1>6. Holds(m.areas, p * PAGE_SIZE, Backing(NoFile, r.flags, 0)) BY <1>4, <1>5 DEF Holds
  <1> QED BY <1>3, <1>6, SpaceHolds


\* v takes the place of r, an area that grows.
LEMMA ResizedGood ==
  ASSUME IInv, IInv', RInv, Running, NEW r \in areas, "GROWS" \in r.flags,
         NEW v, v.flags = r.flags, Plain(v), areas' = (areas \ {r}) \cup {v},
         heap' = heap \/ heap' = v.start, status' = "run"
  PROVE  RInv' /\ Good(Mm')
  <1>1. Good(Mm) /\ Mm.areas = areas /\ Mm.heap = heap BY RunningGood
  <1>2. Mm'.areas = areas' /\ Mm'.heap = heap' BY DEF Mm
  <1>3. MmTypeOK(Mm') /\ Sound(Mm') BY DEF IInv
  <1>4. \A q \in areas : Plain(q) /\ (q.start = heap => "GROWS" \in q.flags)
    BY <1>1 DEF Good, PlainMm, HeapGrows
  <1>5. ASSUME NEW q \in areas', q.start = heap' PROVE "GROWS" \in q.flags
    <2>1. CASE heap' = v.start
      <3>1. v \in Mm'.areas /\ q \in Mm'.areas /\ q.start = v.start BY <1>2, <1>5, <2>1
      <3>2. q = v BY <1>3, <3>1, SameStart
      <3> QED BY <3>2
    <2>2. CASE heap' = heap BY <1>4, <1>5, <2>2
    <2> QED BY <2>1, <2>2
  <1>6. PlainMm(Mm') BY <1>2, <1>4, <1>5 DEF PlainMm, HeapGrows
  <1> QED BY <1>3, <1>6 DEF RInv, Good

\* A later brk.
LEMMA BrkGrowRef ==
  ASSUME IInv, IInv', RInv, HeapEndsAtBreak, Running, NEW b \in BrkCalls, BrkGrow(b)
  PROVE  RInv' /\ AbsStep
  <1> DEFINE e == PAGE_ALIGN(b)
  <1>1. Good(Mm) /\ Mm.areas = areas /\ Mm.heap = heap /\ status = "run" BY RunningGood
  <1>2. b \in Addr /\ e \in Addr /\ Aligned(e)
    BY CallsAssumption, PageAlignType, PageAlignAligned
  <1>3. PICK r, g, k :
         /\ r \in areas /\ r = HeapVma(Mm) /\ r.start = heap /\ heap \in Addr
         /\ g = [r EXCEPT !.end = PAGE_ALIGN(b)] /\ AreaTypeOK(g)
         /\ r.start < PAGE_ALIGN(b)
         /\ \A q \in areas : q.start > r.start => PAGE_ALIGN(b) <= q.start
         /\ MmTypeOK(k) /\ k.areas = (areas \ {r}) \cup {g} /\ k.highest = highest
         /\ k.heap = heap /\ k.host = host /\ k.status = "run"
         /\ Commit(MapVma(k, g))
    BY <1>2, BrkGrowStages
  <1>4. r.end <= e BY <1>2, <1>3, BrkMovesUp
  <1>5. AreaTypeOK(r) /\ Plain(r) /\ "GROWS" \in r.flags /\ r \in Mm.areas
    BY <1>1, <1>3 DEF Good, MmTypeOK, PlainMm, HeapGrows
  <1>6. r.file = NoFile BY <1>5 DEF Plain
  <1>7. g.start = r.start /\ g.end = e /\ g.flags = r.flags /\ g.file = r.file
    BY <1>3, <1>5 DEF AreaTypeOK
  <1> HIDE DEF e
  <1>8. g \notin areas \ {r}
    <2>1. SUFFICES ASSUME g \in areas, g # r PROVE FALSE OBVIOUS
    <2> QED BY <1>1, <1>5, <1>7, <2>1, SameStart DEF Good
  <1>9. PICK v : SameArea(v, g) /\ MapVma(k, g).areas = (k.areas \ {g}) \cup {v}
    BY <1>3, MapVmaEffect
  <1>10. areas' = (areas \ {r}) \cup {v} BY <1>3, <1>8, <1>9 DEF Commit
  <1>11. heap' = heap /\ status' = "run"
    <2>1. MapVma(k, g).heap = k.heap /\ MapVma(k, g).status = k.status BY <1>3, MapVmaEffect
    <2> QED BY <1>3, <2>1 DEF Commit
  <1>12. v.start = r.start /\ v.end = e /\ v.flags = r.flags /\ v.file = NoFile
    BY <1>6, <1>7, <1>9 DEF SameArea
  <1>13. /\ r.start \in Nat /\ r.end \in Nat /\ Aligned(r.start) /\ Aligned(r.end)
         /\ r.start < r.end /\ Page(r.start) \in Nat /\ Page(r.end) \in Nat
    BY <1>1, <1>5, GoodArea
  <1>14. e \in Nat BY <1>2, PageAssumption DEF Addr
  <1>15. Plain(v) BY <1>2, <1>12, <1>13 DEF Plain
  <1>16. RInv' /\ Good(Mm') /\ Mm'.areas = areas'
    BY <1>5, <1>10, <1>11, <1>12, <1>15, ResizedGood DEF Mm
  <1>17. \A q \in areas : q.end <= r.end \/ e <= q.start
    <2> TAKE q \in areas
    <2>1. q.start > r.start => e <= q.start BY <1>3 DEF e
    <2>2. (q.start <= r.start <=> q.end <= r.end) /\ q.start \in Int
      BY <1>1, <1>5, EndsInOrder DEF Good
    <2> QED BY <1>13, <2>1, <2>2
  <1>18. PICK n : Stretch(n, r.end, e, r.flags) /\ Over(Mm.areas, areas', n)
    BY <1>1, <1>2, <1>4, <1>5, <1>6, <1>10, <1>12, <1>13, <1>14, <1>17, WidenedOver
  <1> DEFINE lo == Page(r.end)
             hi == Page(e)
             bk == Backing(NoFile, r.flags, 0)
  <1>19. ASSUME NEW p \in Pages
         PROVE  SpaceOf(areas')[p] = IF lo <= p /\ p < hi THEN bk ELSE SpaceOf(areas)[p]
    BY <1>1, <1>2, <1>13, <1>14, <1>16, <1>18, WidenedRef
  <1>20. lo \in Nat /\ hi \in Nat /\ lo <= hi /\ Page(r.start) < lo /\ hi <= Page(WORD)
    <2>1. (r.end <= e <=> lo <= hi) /\ lo \in Nat /\ hi \in Nat
      BY <1>2, <1>13, <1>14, PageMono
    <2>2. r.end <= r.start <=> lo <= Page(r.start) BY <1>13, PageMono
    <2>3. hi \in Pages BY <1>2, PagesAre
    <2>4. Page(WORD) \in Nat BY AlignedWhole, PageAssumption
    <2> QED BY <1>4, <1>13, <2>1, <2>2, <2>3, <2>4 DEF Pages
  <1>21. SpaceOf(areas)[lo - 1] = bk
    <2>1. lo - 1 \in Nat /\ Page(r.start) <= lo - 1 /\ lo - 1 < Page(r.end) BY <1>13, <1>20
    <2> QED BY <1>1, <1>5, <1>6, <2>1, AnonymousPage
  <1>22. \A p \in lo .. hi - 1 : SpaceOf(areas)[p] = NoBacking
    <2>1. ASSUME NEW q \in Mm.areas PROVE Page(q.end) <= lo \/ hi <= Page(q.start)
      <3>1. q.start \in Nat /\ q.end \in Nat /\ Aligned(q.start) /\ Aligned(q.end)
        BY <1>1, GoodArea
      <3>2. (q.end <= r.end <=> Page(q.end) <= lo) /\ (e <= q.start <=> hi <= Page(q.start))
        BY <1>2, <1>13, <1>14, <3>1, PageMono
      <3> QED BY <1>1, <1>17, <3>2
    <2> QED BY <1>1, <1>20, <2>1, FreePages
  <1>23. HeapEnd = lo BY <1>3 DEF HeapEnd
  <1>24. hi \in BrkPages BY DEF BrkPages, e
  <1> HIDE DEF lo, hi, bk
  <1>25. Abstract!BrkGrow(hi)
    BY <1>19, <1>20, <1>21, <1>22, <1>23 DEF Abstract!BrkGrow, Abstract!Free, Abstract!Becomes
  <1>26. AbsStep BY <1>1, <1>11, <1>24, <1>25 DEF AbsStep, Abstract!Next
  <1> QED BY <1>16, <1>26

\* The stack's new start is a page within the reserve.
LEMMA GrownPage ==
  ASSUME NEW a \in Addr, ~StackTooDeep(a)
  PROVE  Aligned(GrownStart(a)) /\ Page(user_stack_min) <= Page(GrownStart(a))
  <1> DEFINE g == GrownStart(a)
             up == PAGE_ALIGN(a)
             j == Page(g)
             lim == user_stack_page_limit
             uss == user_stack_start
  <1>1. /\ PAGE_SIZE \in Nat /\ 0 < PAGE_SIZE /\ WORD \in Nat /\ Aligned(WORD)
        /\ uss \in Nat /\ lim \in Nat /\ lim * PAGE_SIZE <= uss /\ uss + PAGE_SIZE < WORD
        /\ lim * PAGE_SIZE \in Nat
    BY PageAssumption, LayoutAssumption
  <1>2. up \in Addr /\ Aligned(up) BY PageAlignType, PageAlignAligned
  <1>3. up \in Nat /\ up < WORD BY <1>1, <1>2 DEF Addr
  <1>4. Aligned(PAGE_SIZE) BY PageAssumption DEF Aligned
  <1>5. Aligned(g) /\ g \in Nat /\ g + PAGE_SIZE <= WORD
    <2>1. CASE PAGE_SIZE <= up
      <3>1. g = up - PAGE_SIZE BY <1>1, <1>3, <2>1 DEF GrownStart, Sub
      <3> QED BY <1>1, <1>2, <1>3, <1>4, <2>1, <3>1, AlignedDifference
    <2>2. CASE up < PAGE_SIZE
      <3>1. up = 0 BY <2>2, PageAlignSmall
      <3>2. g = WORD - PAGE_SIZE BY <1>1, <3>1 DEF GrownStart, Sub
      <3>3. PAGE_SIZE <= WORD BY <1>1
      <3> QED BY <1>1, <1>4, <3>2, <3>3, AlignedDifference
    <2> QED BY <1>1, <1>3, <2>1, <2>2
  <1>6. g = PAGE_SIZE * j /\ j \in Nat BY <1>5, AlignedWhole
  <1>7. ~(PAGE_DIFFERENCE(uss, g) > lim) BY DEF StackTooDeep
  <1> HIDE DEF g, j, up
  <1> DEFINE s == Sub(uss, g)
             z == s \div PAGE_SIZE
  <1>8. s \in Nat BY <1>1, <1>5 DEF Sub
  <1>9. z \in Nat /\ z <= lim
    <2>1. z \in Nat BY <1>1, <1>8
    <2> QED BY <1>1, <1>7, <2>1 DEF PAGE_DIFFERENCE
  <1>10. s < PAGE_SIZE * z + PAGE_SIZE BY <1>1, <1>8
  <1> HIDE DEF s, z
  <1>11. PAGE_SIZE * z <= lim * PAGE_SIZE /\ PAGE_SIZE * z \in Nat
    <2>1. PICK d \in Nat : lim = z + d BY <1>1, <1>9
    <2>2. lim * PAGE_SIZE = PAGE_SIZE * z + PAGE_SIZE * d BY <1>1, <1>9, <2>1
    <2>3. PAGE_SIZE * d \in Nat /\ PAGE_SIZE * z \in Nat BY <1>1, <1>9
    <2> QED BY <1>1, <2>2, <2>3
  <1>12. g <= uss
    <2>1. SUFFICES ASSUME uss < g PROVE FALSE BY <1>1, <1>5
    <2>2. s = WORD + uss - g BY <1>1, <1>5, <2>1 DEF Sub, s
    <2> QED BY <1>1, <1>5, <1>10, <1>11, <2>2
  <1>13. s = uss - g BY <1>12 DEF Sub, s
  <1>14. user_stack_min \in Nat /\ user_stack_min < g + PAGE_SIZE
    BY <1>1, <1>5, <1>8, <1>10, <1>11, <1>13 DEF user_stack_min
  <1>15. Page(user_stack_min) <= j
    <2>1. g + PAGE_SIZE = PAGE_SIZE * (j + 1) /\ j + 1 \in Nat BY <1>1, <1>6
    <2>2. Aligned(g + PAGE_SIZE) /\ Page(g + PAGE_SIZE) = j + 1 BY <2>1, WholeAligned
    <2>3. g + PAGE_SIZE \in Nat BY <1>1, <1>5
    <2>4. (g + PAGE_SIZE <= user_stack_min <=> j + 1 <= Page(user_stack_min))
          /\ Page(user_stack_min) \in Nat
      BY <1>14, <2>2, <2>3, PageFloor
    <2> QED BY <1>6, <1>14, <2>3, <2>4
  <1> QED BY <1>5, <1>15 DEF g, j

\* grow_stack.
LEMMA GrowRef ==
  ASSUME IInv, IInv', RInv, Running, NEW a \in Addr, ~FaultIsFatal(a),
         Commit(GrowStack(Mm, VmaFind(areas, a), a))
  PROVE  RInv' /\ AbsStep
  <1> DEFINE s == GrownStart(a)
  <1>1. Good(Mm) /\ Mm.areas = areas /\ Mm.heap = heap /\ status = "run" BY RunningGood
  <1>2. PICK r, g, k :
         /\ r \in areas /\ r = VmaFind(areas, a) /\ "GROWS" \in r.flags
         /\ a < r.start /\ GrownStart(a) \in Addr /\ GrownStart(a) <= a
         /\ g = [r EXCEPT !.start = GrownStart(a)] /\ AreaTypeOK(g)
         /\ MmTypeOK(k) /\ k.areas = (areas \ {r}) \cup {g} /\ k.highest = highest
         /\ k.host = host /\ k.heap = (IF heap = r.start THEN GrownStart(a) ELSE heap)
         /\ k.status = (IF Overlapped(areas \ {r}, GrownStart(a), r.start)
                        THEN "corrupt" ELSE "run")
         /\ Commit(MapVma(k, g))
    BY GrowStages
  <1>3. AreaTypeOK(r) /\ Plain(r) /\ r \in Mm.areas
    BY <1>1, <1>2 DEF Good, MmTypeOK, PlainMm
  <1>4. r.file = NoFile BY <1>2, <1>3 DEF Plain
  <1>5. g.start = s /\ g.end = r.end /\ g.flags = r.flags /\ g.file = r.file
    BY <1>2, <1>3 DEF AreaTypeOK
  <1>6. heap' = k.heap /\ status' = k.status
    <2>1. MapVma(k, g).heap = k.heap /\ MapVma(k, g).status = k.status BY <1>2, MapVmaEffect
    <2> QED BY <1>2, <2>1 DEF Commit
  <1>7. CASE Overlapped(areas \ {r}, s, r.start)
    <2>1. status' # "run" BY <1>2, <1>6, <1>7
    <2> QED BY <2>1, StopsRef
  <1>8. CASE ~Overlapped(areas \ {r}, s, r.start)
    <2>1. status' = "run" BY <1>2, <1>6, <1>8
    <2>2. Aligned(s) /\ Page(user_stack_min) <= Page(s)
      BY GrownPage DEF FaultIsFatal
    <2>3. s \in Addr /\ s <= a /\ s \in Nat /\ a \in Nat BY <1>2, PageAssumption DEF Addr
    <2> HIDE DEF s
    <2>4. /\ r.start \in Nat /\ r.end \in Nat /\ Aligned(r.start) /\ Aligned(r.end)
          /\ r.start < r.end /\ Page(r.start) \in Nat /\ Page(r.end) \in Nat
          /\ r.start \in Addr
      BY <1>1, <1>3, GoodArea
    <2>5. s < r.start BY <1>2, <2>3, <2>4
    <2>6. g \notin areas \ {r}
      <3>1. SUFFICES ASSUME g \in areas, g # r PROVE FALSE OBVIOUS
      <3>2. g.end <= r.start \/ r.end <= g.start
        BY <1>1, <1>2, <3>1 DEF Good, Sound, PairwiseDisjoint
      <3> QED BY <1>5, <2>3, <2>4, <2>5, <3>2
    <2>7. PICK v : SameArea(v, g) /\ MapVma(k, g).areas = (k.areas \ {g}) \cup {v}
      BY <1>2, MapVmaEffect
    <2>8. areas' = (areas \ {r}) \cup {v} BY <1>2, <2>6, <2>7 DEF Commit
    <2>9. v.start = s /\ v.end = r.end /\ v.flags = r.flags /\ v.file = NoFile
      BY <1>4, <1>5, <2>7 DEF SameArea
    <2>10. Plain(v) BY <2>2, <2>4, <2>9 DEF Plain
    <2>11. heap' = heap \/ heap' = v.start BY <1>2, <1>6, <2>9 DEF s
    <2>12. RInv' /\ Good(Mm') /\ Mm'.areas = areas'
      BY <1>2, <2>1, <2>8, <2>9, <2>10, <2>11, ResizedGood DEF Mm
    <2>13. \A q \in areas : q.end <= s \/ r.start <= q.start
      <3> TAKE q \in areas
      <3>1. q.start \in Nat /\ q.end \in Nat BY <1>1, GoodArea
      <3> QED BY <1>8, <2>3, <2>4, <3>1 DEF Overlapped
    <2>14. PICK n : Stretch(n, s, r.start, r.flags) /\ Over(Mm.areas, areas', n)
      <3>1. s <= r.start BY <2>3, <2>4, <2>5
      <3> QED BY <1>1, <1>3, <1>4, <2>2, <2>3, <2>4, <2>8, <2>9, <2>13, <3>1, WidenedOver
    <2> DEFINE lo == Page(s)
               hi == Page(r.start)
               bk == Backing(NoFile, r.flags, 0)
    <2>15. ASSUME NEW p \in Pages
           PROVE  SpaceOf(areas')[p] = IF lo <= p /\ p < hi THEN bk ELSE SpaceOf(areas)[p]
      BY <1>1, <2>2, <2>3, <2>4, <2>12, <2>14, WidenedRef
    <2>16. lo \in Pages /\ hi \in Pages /\ lo \in Nat /\ hi \in Nat /\ lo < hi
           /\ hi < Page(r.end) /\ hi <= Page(WORD)
      <3>1. lo \in Pages /\ hi \in Pages BY <2>2, <2>3, <2>4, PagesAre
      <3>2. (r.start <= s <=> hi <= lo) /\ lo \in Nat /\ hi \in Nat
        BY <2>2, <2>3, <2>4, PageMono
      <3>3. (r.end <= r.start <=> Page(r.end) <= hi) BY <2>4, PageMono
      <3>4. Page(WORD) \in Nat BY AlignedWhole, PageAssumption
      <3> QED BY <2>3, <2>4, <2>5, <3>1, <3>2, <3>3, <3>4 DEF Pages
    <2>17. SpaceOf(areas)[hi] = bk
      BY <1>1, <1>3, <1>4, <2>16, AnonymousPage
    <2>18. \A p \in lo .. hi - 1 : SpaceOf(areas)[p] = NoBacking
      <3>1. ASSUME NEW q \in Mm.areas PROVE Page(q.end) <= lo \/ hi <= Page(q.start)
        <4>1. q.start \in Nat /\ q.end \in Nat /\ Aligned(q.start) /\ Aligned(q.end)
          BY <1>1, GoodArea
        <4>2. /\ q.end <= s <=> Page(q.end) <= lo
              /\ r.start <= q.start <=> hi <= Page(q.start)
          BY <2>2, <2>3, <2>4, <4>1, PageMono
        <4> QED BY <1>1, <2>13, <4>2
      <3> QED BY <1>1, <2>16, <3>1, FreePages
    <2>19. GrowsDown(bk) BY <1>2 DEF GrowsDown, Backing
    <2>20. Page(user_stack_min) <= lo BY <2>2
    <2> HIDE DEF lo, hi, bk
    <2>21. Abstract!Grow
      BY <2>15, <2>16, <2>17, <2>18, <2>19, <2>20
         DEF Abstract!Grow, Abstract!Free, Abstract!Becomes
    <2>22. AbsStep BY <1>1, <2>1, <2>21 DEF AbsStep, Abstract!Next
    <2> QED BY <2>12, <2>22
  <1> QED BY <1>7, <1>8

\* Every step.
LEMMA RefStep ==
  ASSUME OrdinaryCalls, IInv, IInv', RInv, HeapEndsAtBreak, HighestIsTop, [Next]_vars
  PROVE  RInv' /\ AbsStep
  <1>1. ASSUME NEW c \in MmapCalls, SysMmap(c) PROVE RInv' /\ AbsStep
    BY <1>1, SysMmapRef
  <1>2. ASSUME NEW u \in MunmapCalls, SysMunmap(u[1], u[2]) PROVE RInv' /\ AbsStep
    BY <1>2, SysMunmapRef
  <1>3. ASSUME NEW b \in BrkCalls, SysBrk(b) PROVE RInv' /\ AbsStep
    <2>1. Running BY <1>3 DEF SysBrk
    <2>2. CASE BrkStart BY <2>1, <2>2, BrkStartRef
    <2>3. CASE BrkNullHeap(b) \/ BrkDangling(b)
      <3>1. status' # "run" BY <2>3 DEF BrkNullHeap, BrkDangling
      <3> QED BY <3>1, StopsRef
    <2>4. CASE BrkGrow(b) BY <2>1, <2>4, BrkGrowRef
    <2> QED BY <1>3, <2>2, <2>3, <2>4 DEF SysBrk
  <1>4. ASSUME NEW a \in Touched, UserPageFault(a) PROVE RInv' /\ AbsStep
    <2>1. Running /\ a \in Addr BY <1>4, CallsAssumption DEF UserPageFault
    <2>2. CASE status' = "exit"
      <3>1. status' # "run" BY <2>2
      <3> QED BY <3>1, StopsRef
    <2>3. CASE ~FaultIsFatal(a) /\ Commit(GrowStack(Mm, VmaFind(areas, a), a))
      BY <2>1, <2>3, GrowRef
    <2> QED BY <1>4, <2>2, <2>3 DEF UserPageFault
  <1>5. CASE UNCHANGED vars
    <2>1. areas' = areas /\ heap' = heap /\ status' = status BY <1>5 DEF vars
    <2> QED BY <2>1, IdleRef
  <1> QED BY <1>1, <1>2, <1>3, <1>4, <1>5 DEF Next

\* For ordinary calls the areas implement the address space a program sees,
\* AddrSpace, as long as the break and the heap area stay together and an area
\* lies above the heap: every mmap, munmap, brk and stack growth changes the
\* backing of exactly the pages it is about, and mmap lands where it may.
THEOREM AreasImplementAddrSpace ==
  ASSUME OrdinaryCalls
  PROVE  Spec /\ []HeapEndsAtBreak /\ []AreaAboveHeap => ImplementsAddrSpace
  <1>1. Init => RInv
    <2>1. SUFFICES ASSUME Init PROVE PlainMm(Mm) BY DEF RInv
    <2>2. Mm.areas = BootAreas /\ Mm.heap = NULL BY <2>1 DEF Init, Mm
    <2>3. \A r \in BootAreas : Plain(r) /\ r.start # NULL
      BY BootAssumption, PageAssumption DEF OrdinaryCalls, AreaTypeOK, Addr, NULL
    <2> QED BY <2>2, <2>3 DEF PlainMm, HeapGrows
  <1>2. Init => Abstract!Init BY DEF Init, Abstract!Init
  <1>3. Spec => []IInv BY IInvInit, IInvStep, PTL DEF Spec
  <1>4. Spec /\ []AreaAboveHeap => []HighestIsTop BY HighestStaysTop
  <1>5. IInv /\ IInv' /\ RInv /\ HeapEndsAtBreak /\ HighestIsTop /\ [Next]_vars
          => RInv' /\ [Abstract!Next]_(Abstract!vars)
    BY RefStep DEF AbsStep
  <1> QED BY <1>1, <1>2, <1>3, <1>4, <1>5, PTL DEF Spec, ImplementsAddrSpace, Abstract!Spec

-----------------------------------------------------------------------------
(***************************************************************************)
(* The break and the heap area stay together.                              *)
(***************************************************************************)

\* The area user_heap_vma points to ends at or below b, or is the page the
\* first brk maps ahead.
EndsAt(r, b) == \/ r.end <= b
                \/ r.start = user_heap_start /\ r.end = user_heap_start + PAGE_SIZE
HeapEnds(m, b) == \A r \in m.areas : r.start = m.heap => EndsAt(r, b)

\* Whatever grows lies in the stack's reserve.
GrowsHigh(S) == \A r \in S : "GROWS" \in r.flags => Page(user_stack_min) <= Page(r.start)

\* Until the first brk nothing else grows; after it the heap area keeps its end.
HInv == status = "run" => HeapEnds(Mm, brk) /\ (brk = 0 => GrowsHigh(areas))

\* What an operation on the areas does to both.
Keeps(m, w) == /\ \A b \in Int : HeapEnds(m, b) => HeapEnds(w, b)
               /\ GrowsHigh(m.areas) => GrowsHigh(w.areas)

LEMMA KeepsTwice ==
  ASSUME NEW m, NEW k, NEW w, Keeps(m, k), Keeps(k, w)
  PROVE  Keeps(m, w)
  BY DEF Keeps

\* A page holds no page boundary but its own.
LEMMA OnePageWhole ==
  ASSUME NEW s \in Nat, Aligned(s), NEW a \in Nat, Aligned(a), s < a, a < s + PAGE_SIZE
  PROVE  FALSE
  <1>1. Aligned(PAGE_SIZE) /\ Page(PAGE_SIZE) = 1 /\ PAGE_SIZE \in Nat
    BY PageAssumption DEF Aligned, Page
  <1>2. Aligned(s + PAGE_SIZE) /\ Page(s + PAGE_SIZE) = Page(s) + 1 /\ s + PAGE_SIZE \in Nat
    BY <1>1, AlignedSum
  <1>3. (a <= s <=> Page(a) <= Page(s)) /\ Page(a) \in Nat /\ Page(s) \in Nat BY PageMono
  <1>4. s + PAGE_SIZE <= a <=> Page(s + PAGE_SIZE) <= Page(a) BY <1>2, PageMono
  <1> QED BY <1>1, <1>2, <1>3, <1>4

\* vma_split: a half of the heap area ends no higher, and the page the first
\* brk maps is never split.
LEMMA VmaSplitKeeps ==
  ASSUME NEW m, Good(m), NEW r \in m.areas,
         NEW a \in Addr, Aligned(a), r.start < a, a < r.end,
         NEW below \in BOOLEAN, Fds \ m.fds # {}
  PROVE  Keeps(m, VmaSplit(m, r, a, below))
  <1> DEFINE d == Dup(m.fds, r.fd)
             w == VmaSplit(m, r, a, below)
  <1>1. MmTypeOK(m) /\ Sound(m) BY DEF Good
  <1>2. PICK lo, hi : /\ Halves(r, a, below, d, lo, hi)
                      /\ w.areas = (m.areas \ {r}) \cup {lo, hi}
    BY <1>1, VmaSplitEffect
  <1>3. w.heap = (IF m.heap = r.start /\ below THEN a ELSE m.heap) BY <1>1, VmaSplitEffect
  <1> HIDE DEF d, w
  <1>4. /\ lo.start = r.start /\ lo.end = a /\ hi.start = a /\ hi.end = r.end
        /\ lo.flags = r.flags /\ hi.flags = r.flags
    BY <1>2 DEF Halves
  <1>5. /\ r.start \in Nat /\ r.end \in Nat /\ Aligned(r.start) /\ Aligned(r.end)
        /\ Page(r.start) \in Nat
    BY GoodArea
  <1>6. a \in Nat BY PageAssumption DEF Addr
  <1>7. ASSUME NEW q \in m.areas, q # r PROVE q.start # a
    <2>1. q.end <= r.start \/ r.end <= q.start BY <1>1, <1>7 DEF Sound, PairwiseDisjoint
    <2>2. q.start < q.end /\ q.start \in Nat /\ q.end \in Nat BY GoodArea
    <2> QED BY <1>5, <1>6, <2>1, <2>2
  <1>8. m.heap # a
    <2>1. SUFFICES ASSUME m.heap = a PROVE FALSE OBVIOUS
    <2>2. PICK q \in m.areas : q.start = a BY <1>1, <2>1 DEF Sound, HeapLinked
    <2> QED BY <1>5, <1>6, <1>7, <2>2
  <1>9. ASSUME NEW b \in Int, HeapEnds(m, b) PROVE HeapEnds(w, b)
    <2> SUFFICES ASSUME NEW q \in w.areas, q.start = w.heap PROVE EndsAt(q, b)
      BY DEF HeapEnds
    <2>1. CASE q \in m.areas /\ q # r
      <3>1. q.start = m.heap BY <1>3, <1>7, <2>1
      <3> QED BY <1>9, <2>1, <3>1 DEF HeapEnds
    <2>2. CASE q = lo \/ q = hi
      <3>1. m.heap = r.start BY <1>3, <1>4, <1>5, <1>8, <2>2
      <3>2. EndsAt(r, b) BY <1>9, <3>1 DEF HeapEnds
      <3>3. r.end # r.start + PAGE_SIZE BY <1>5, <1>6, OnePageWhole
      <3>4. r.end <= b BY <3>2, <3>3 DEF EndsAt
      <3> QED BY <1>4, <1>5, <1>6, <2>2, <3>4 DEF EndsAt
    <2> QED BY <1>2, <2>1, <2>2
  <1>10. ASSUME GrowsHigh(m.areas) PROVE GrowsHigh(w.areas)
    <2>1. Page(r.start) <= Page(a) /\ Page(a) \in Nat BY <1>5, <1>6, PageMono
    <2>2. "GROWS" \in r.flags => Page(user_stack_min) <= Page(r.start)
      BY <1>10 DEF GrowsHigh
    <2>3. Page(user_stack_min) \in Int
      BY PageAssumption, LayoutAssumption DEF Page, user_stack_min
    <2>4. ASSUME NEW q \in w.areas, "GROWS" \in q.flags
          PROVE  Page(user_stack_min) <= Page(q.start)
      <3>1. CASE q \in m.areas BY <1>10, <2>4, <3>1 DEF GrowsHigh
      <3>2. CASE q = lo \/ q = hi BY <1>4, <1>5, <2>1, <2>2, <2>3, <2>4, <3>2
      <3> QED BY <1>2, <3>1, <3>2
    <2> QED BY <2>4 DEF GrowsHigh
  <1> QED BY <1>9, <1>10 DEF Keeps, w

\* munmap's splits.
LEMMA SplitAtKeeps ==
  ASSUME NEW m, Good(m), NEW a \in Addr, Aligned(a),
         NEW below \in BOOLEAN, Fds \ m.fds # {}
  PROVE  Keeps(m, SplitAt(m, a, below))
  <1> DEFINE E == EndingAbove(m.areas, a)
             f == VmaFind(m.areas, a)
  <1>1. \A r \in m.areas : r.start \in Addr /\ r.end \in Addr BY GoodArea
  <1>2. E \subseteq m.areas /\ \A r \in E : r.end > a BY DEF EndingAbove
  <1>3. E # {} => f \in E BY <1>1, <1>2, LowestExists DEF VmaFind
  <1>4. CASE E # {} /\ a > f.start
    <2>1. f \in m.areas /\ f.start < a /\ a < f.end
      BY <1>1, <1>2, <1>3, <1>4, PageAssumption DEF Addr
    <2>2. SplitAt(m, a, below) = VmaSplit(m, f, a, below) BY <1>4 DEF SplitAt
    <2> HIDE DEF f
    <2> QED BY <2>1, <2>2, VmaSplitKeeps
  <1>5. CASE ~(E # {} /\ a > f.start) BY <1>5 DEF SplitAt, Keeps
  <1> QED BY <1>4, <1>5

\* syscall_munmap.
LEMMA MunmapKeeps ==
  ASSUME NEW m, Good(m), NEW a \in Addr, NEW length \in Addr,
         ~MunmapInvalid(a, length), Cardinality(Fds \ m.fds) >= 2
  PROVE  Keeps(m, Munmap(m, a, length))
  <1> DEFINE e == a + PAGE_ALIGN(length)
             m1 == SplitAt(m, a, FALSE)
             m2 == Ends(m, a, e)
             gone == Inside(m2, a, e)
             cut == Detached(m2, a, e)
             w == Munmap(m, a, length)
  <1>1. e \in Addr /\ Aligned(a) BY MunmapEnd DEF MunmapInvalid
  <1>2. Aligned(e)
    <2>1. Aligned(PAGE_ALIGN(length)) /\ PAGE_ALIGN(length) \in Nat /\ a \in Nat
      BY PageAlignAligned, PageAlignType, PageAssumption DEF Addr
    <2> QED BY <1>1, <2>1, AlignedSum
  <1>3. MmTypeOK(m) /\ Sound(m) /\ PlainMm(m) BY DEF Good
  <1> HIDE DEF e
  <1>4. CASE Overlapped(m.areas, a, e)
    <2>1. EndingAbove(m.areas, a) # {} BY <1>4 DEF Overlapped, EndingAbove
    <2>2. w = VmaRemove(cut, gone) BY <1>4, <2>1, MunmapRangeStages DEF Munmap, e
    <2>3. /\ Fds \ m.fds # {} /\ Fds \ m1.fds # {}
          /\ MmTypeOK(m1) /\ Sound(m1) /\ MmTypeOK(m2) /\ Sound(m2)
      BY <1>1, <1>3, EndsSound
    <2>4. PlainMm(m1) BY <1>1, <1>3, <2>3, SplitAtRef
    <2>5. m2 = SplitAt(m1, e, TRUE) BY DEF Ends
    <2>6. Keeps(m, m1) BY <1>1, <2>3, SplitAtKeeps
    <2> HIDE DEF m1, m2, w
    <2>7. Keeps(m1, m2) BY <1>1, <1>2, <2>3, <2>4, <2>5, SplitAtKeeps DEF Good
    <2>8. Keeps(m, m2) BY <2>6, <2>7, KeepsTwice
    <2>9. /\ MmTypeOK(cut) /\ cut.areas = Outside(m2, a, e) /\ cut.heap = m2.heap
      BY <1>1, <2>3, DetachedEffect
    <2> HIDE DEF cut
    <2>10. /\ w.areas = cut.areas
           /\ w.heap = IF \E r \in gone : r.start = cut.heap THEN DANGLING ELSE cut.heap
      BY <2>2, <2>9, VmaRemoveEffect
    <2>11. w.areas \subseteq m2.areas /\ \A r \in w.areas : r.start # DANGLING
      BY <2>3, <2>9, <2>10, PageAssumption DEF Outside, MmTypeOK, AreaTypeOK, Addr, DANGLING
    <2>12. Keeps(m2, w) BY <2>9, <2>10, <2>11 DEF Keeps, HeapEnds, GrowsHigh
    <2> QED BY <2>8, <2>12, KeepsTwice DEF w
  <1>5. CASE ~Overlapped(m.areas, a, e) BY <1>5 DEF Munmap, Keeps, e
  <1> QED BY <1>4, <1>5

\* vma_merge, or vma_link, for an area that does not grow: neither the heap
\* area nor anything else that grows takes part.
LEMMA MergeOrLinkKeeps ==
  ASSUME NEW m, Good(m), NEW n, AreaTypeOK(n), n.start < n.end, FreeFor(m.areas, n),
         "GROWS" \notin n.flags
  PROVE  Keeps(m, MergeOrLink(m, n).m)
  <1> DEFINE P == {p \in m.areas : MergesAfter(p, n)}
             Q == {q \in m.areas : MergesBefore(q, n)}
             p == CHOOSE r \in P : TRUE
             q == CHOOSE r \in Q : TRUE
             w == MergeOrLink(m, n).m
  <1>1. P # {} => p \in m.areas /\ p.end = n.start /\ p.flags = n.flags
    BY DEF MergesAfter, CanMerge
  <1>2. Q # {} => q \in m.areas /\ q.start = n.end /\ q.flags = n.flags
    BY DEF MergesBefore, CanMerge
  <1>3. w = IF P # {} /\ Q # {} THEN MergeBoth(m, p, q)
            ELSE IF P # {} THEN MergeUp(m, p, n)
            ELSE IF Q # {} THEN MergeDown(m, q, n) ELSE VmaLink(m, n)
    BY DEF MergeOrLink
  <1>4. MmTypeOK(m) /\ Sound(m) /\ \A r \in m.areas : AreaTypeOK(r) BY DEF Good, MmTypeOK
  <1>5. \A r \in m.areas : r.start = m.heap => "GROWS" \in r.flags
    BY DEF Good, PlainMm, HeapGrows
  <1>6. m.heap # n.start BY <1>4, HeapElsewhere
  <1>7. n.start \in Int /\ n.end \in Int BY PageAssumption DEF AreaTypeOK, Addr
  <1> HIDE DEF P, Q, p, q, w
  <1>8. w.heap = m.heap /\ \E v : /\ w.areas \subseteq m.areas \cup {v}
                                  /\ v.start # m.heap /\ v.flags = n.flags
    <2>1. CASE P # {} /\ Q # {}
      <3>1. p.end < q.start /\ p \in m.areas /\ q \in m.areas BY <1>1, <1>2, <1>7, <2>1
      <3>2. p.start # m.heap /\ q.start # m.heap BY <1>1, <1>2, <1>5, <2>1
      <3>3. PICK v : /\ SameArea(v, [p EXCEPT !.end = q.end])
                     /\ w.areas = (m.areas \ {p, q}) \cup {v}
        BY <1>3, <1>4, <2>1, <3>1, MergeBothEffect
      <3>4. w.heap = m.heap BY <1>3, <1>4, <2>1, <3>1, <3>2, MergeBothEffect
      <3>5. v.start = p.start /\ v.flags = p.flags BY <1>4, <3>1, <3>3 DEF SameArea, AreaTypeOK
      <3> QED BY <1>1, <2>1, <3>2, <3>3, <3>4, <3>5
    <2>2. CASE P # {} /\ Q = {}
      <3>1. p \in m.areas /\ p.start # m.heap BY <1>1, <1>5, <2>2
      <3>2. PICK v : /\ SameArea(v, [p EXCEPT !.end = n.end])
                     /\ w.areas = (m.areas \ {p}) \cup {v}
        BY <1>3, <1>4, <2>2, <3>1, MergeUpEffect
      <3>3. w.heap = m.heap BY <1>3, <1>4, <2>2, <3>1, MergeUpEffect
      <3>4. v.start = p.start /\ v.flags = p.flags BY <1>4, <3>1, <3>2 DEF SameArea, AreaTypeOK
      <3> QED BY <1>1, <2>2, <3>1, <3>2, <3>3, <3>4
    <2>3. CASE P = {} /\ Q # {}
      <3>1. q \in m.areas /\ q.start # m.heap /\ n.end = q.start BY <1>2, <1>5, <2>3
      <3>2. PICK v : SameArea(v, GrownDown(q, n)) /\ w.areas = (m.areas \ {q}) \cup {v}
        BY <1>3, <1>4, <2>3, <3>1, MergeDownEffect
      <3>3. w.heap = m.heap BY <1>3, <1>4, <2>3, <3>1, MergeDownEffect
      <3>4. v.start = n.start /\ v.flags = q.flags
        BY <1>4, <3>1, <3>2 DEF SameArea, AreaTypeOK, GrownDown
      <3> QED BY <1>2, <1>6, <2>3, <3>2, <3>3, <3>4
    <2>4. CASE P = {} /\ Q = {}
      <3>1. w = VmaLink(m, n) BY <1>3, <2>4
      <3>2. n \notin m.areas BY <1>7 DEF FreeFor
      <3>3. w.heap = m.heap BY <1>4, <3>1, <3>2, VmaLinkEffect
      <3>4. PICK v : SameArea(v, n) /\ w.areas = m.areas \cup {v}
        BY <1>4, <3>1, <3>2, VmaLinkEffect
      <3>5. v.start = n.start /\ v.flags = n.flags BY <3>4 DEF SameArea
      <3> QED BY <1>6, <3>3, <3>4, <3>5
    <2> QED BY <2>1, <2>2, <2>3, <2>4
  <1> QED BY <1>8 DEF Keeps, HeapEnds, GrowsHigh, w

\* mmap_region for an area that does not grow.
LEMMA MmapRegionKeeps ==
  ASSUME NEW m, Good(m), Cardinality(Fds \ m.fds) >= 2,
         NEW n, AreaTypeOK(n), "GROWS" \notin n.flags,
         NEW length \in Addr, Aligned(length), n.end = Add(n.start, length)
  PROVE  LET R == MmapRegion(m, n, length)
         IN  R.m = m \/ R.m.status = "corrupt" \/ Keeps(m, R.m)
  <1> DEFINE R == MmapRegion(m, n, length)
             a == n.start
             busy == Overlapped(m.areas, a, n.end)
             k == IF busy THEN Munmap(m, a, length) ELSE m
  <1>1. /\ a \in Addr /\ a \in Int /\ n.end \in Int /\ length \in Int /\ WORD \in Int
        /\ a < WORD /\ length < WORD
    BY PageAssumption DEF AreaTypeOK, Addr
  <1>2. MmTypeOK(m) /\ Sound(m) /\ PlainMm(m) BY DEF Good
  <1>3. CASE busy /\ MunmapInvalid(a, length) BY <1>3 DEF MmapRegion
  <1>4. CASE ~(busy /\ MunmapInvalid(a, length)) /\ n.end <= a
    <2>1. R.m = [k EXCEPT !.areas = @ \cup {n}, !.status = "corrupt"]
      BY <1>4 DEF MmapRegion
    <2>2. MmTypeOK(k) BY <1>1, <1>2, <1>4, MunmapSound
    <2>3. R.m.status = "corrupt" BY <2>1, <2>2 DEF MmTypeOK, IsMm
    <2> QED BY <2>3
  <1>5. CASE ~(busy /\ MunmapInvalid(a, length)) /\ ~(n.end <= a)
    <2>1. R = MergeOrLink(k, n) BY <1>5 DEF MmapRegion
    <2>2. a < n.end /\ n.end = a + length BY <1>1, <1>5 DEF Add
    <2>3. Good(k) /\ FreeFor(k.areas, n) /\ Keeps(m, k)
      <3>1. CASE busy
        <4>1. k = Munmap(m, a, length) /\ ~MunmapInvalid(a, length) BY <1>5, <3>1
        <4>2. /\ MmTypeOK(k) /\ Sound(k)
              /\ \A q \in k.areas : q.end <= a \/ a + length <= q.start
          BY <1>1, <1>2, <4>1, MunmapSound
        <4> HIDE DEF k
        <4>3. PlainMm(k) BY <1>1, <1>2, <4>1, MunmapRef
        <4>4. Keeps(m, k) BY <1>1, <4>1, MunmapKeeps
        <4>5. FreeFor(k.areas, n) BY <2>2, <4>2 DEF FreeFor
        <4> QED BY <4>2, <4>3, <4>4, <4>5 DEF Good
      <3>2. CASE ~busy
        <4>1. k = m BY <3>2
        <4>2. \A r \in m.areas : r.start \in Int /\ r.end \in Int
          BY <1>2, PageAssumption DEF MmTypeOK, AreaTypeOK, Addr
        <4>3. FreeFor(m.areas, n) BY <1>1, <3>2, <4>2 DEF Overlapped, FreeFor
        <4> QED BY <4>1, <4>3 DEF Keeps
      <3> QED BY <3>1, <3>2
    <2> HIDE DEF k, busy
    <2>4. Keeps(k, R.m) BY <2>1, <2>2, <2>3, MergeOrLinkKeeps
    <2> QED BY <2>3, <2>4, KeepsTwice
  <1> QED BY <1>3, <1>4, <1>5

\* Where mmap puts a range that does not wrap is a page boundary.
LEMMA PlaceAligned ==
  ASSUME OrdinaryCalls, NEW m, NEW c \in MmapCalls, ~MmapInvalid(c),
         NEW a \in GetUnmappedArea(m, c.addr, PAGE_ALIGN(c.length), c.fixed),
         a \in Addr, a < Add(a, PAGE_ALIGN(c.length))
  PROVE  Aligned(a)
  <1> DEFINE L == PAGE_ALIGN(c.length)
  <1>1. c.length \in Addr BY MmapCallsAssumption
  <1>2. L \in Addr BY <1>1, PageAlignType
  <1>3. L \in Nat /\ 0 < L BY <1>2, PageAssumption DEF Addr, MmapInvalid
  <1>4. PAGE_SIZE <= L
    <2>1. SUFFICES ASSUME L < PAGE_SIZE PROVE FALSE BY <1>3, PageAssumption
    <2>2. L = 0 BY <1>1, <2>1, PageAlignSmall
    <2> QED BY <1>3, <2>2
  <1>5. /\ WORD \in Nat /\ PAGE_SIZE \in Nat /\ ENOMEM \in Nat /\ EINVAL \in Nat
        /\ ENOMEM < PAGE_SIZE /\ EINVAL < PAGE_SIZE /\ a \in Nat /\ a < WORD /\ L < WORD
    BY <1>2, PageAssumption DEF OrdinaryCalls, Addr
  <1>6. a < Add(a, L) OBVIOUS
  <1>7. a \in GetUnmappedArea(m, c.addr, L, c.fixed) OBVIOUS
  <1> HIDE DEF L
  <1>8. CASE c.fixed BY <1>7, <1>8 DEF GetUnmappedArea, OrdinaryCalls
  <1>9. CASE ~c.fixed
    <2>1. PICK u \in UnmappedAreaUnchecked(m, c.addr, L) : a = CheckedArea(u, L)
      BY <1>7, <1>9 DEF GetUnmappedArea
    <2>2. a + L < WORD BY <1>3, <1>5, <1>6 DEF Add
    <2>3. a # Neg(ENOMEM) /\ a # Neg(EINVAL) BY <1>3, <1>4, <1>5, <2>2 DEF Neg
    <2> QED BY <2>1, <2>3 DEF CheckedArea
  <1> QED BY <1>8, <1>9

\* What the next state of the areas means for the invariant.
LEMMA KeepsHInv ==
  ASSUME HInv, brk \in Int, NEW m, m.areas = areas, m.heap = heap, status = "run",
         NEW w, Keeps(m, w), areas' = w.areas, heap' = w.heap, brk' = brk
  PROVE  HInv'
  <1>1. HeapEnds(m, brk) /\ (brk = 0 => GrowsHigh(m.areas))
    BY DEF HInv, HeapEnds, Mm
  <1>2. HeapEnds(w, brk) /\ (brk = 0 => GrowsHigh(w.areas)) BY <1>1 DEF Keeps
  <1>3. Mm'.areas = w.areas /\ Mm'.heap = w.heap BY DEF Mm
  <1> QED BY <1>2, <1>3 DEF HInv, HeapEnds

\* syscall_mmap.
LEMMA SysMmapHeap ==
  ASSUME OrdinaryCalls, HeapApart, IInv, RInv, HInv, NEW c \in MmapCalls, SysMmap(c)
  PROVE  RInv' /\ HInv'
  <1> DEFINE L == PAGE_ALIGN(c.length)
  <1>1. PICK a, opened, fd :
         /\ a \in GetUnmappedArea(Mm, c.addr, PAGE_ALIGN(c.length), c.fixed)
         /\ a \in Addr /\ fd \in Fds \cup {NoFd} /\ (c.fd = NoFd <=> fd = NoFd)
         /\ MmTypeOK(opened) /\ Sound(opened) /\ Cardinality(Fds \ opened.fds) >= 2
         /\ opened.areas = areas /\ opened.highest = highest /\ opened.heap = heap
         /\ opened.host = host /\ opened.status = "run"
         /\ IF MapTypeInvalid(c) THEN Commit(opened)
            ELSE Commit(MmapRegion(opened, NewArea(c, a, fd), PAGE_ALIGN(c.length)).m)
    BY SysMmapStages
  <1>2. Running /\ ~MmapInvalid(c) /\ brk' = brk BY DEF SysMmap
  <1>3. Good(Mm) /\ Mm.areas = areas /\ Mm.heap = heap /\ status = "run"
    BY <1>2, RunningGood
  <1>4. PlainMm(opened) /\ Good(opened)
    BY <1>1, <1>3 DEF Good, PlainMm, HeapGrows
  <1>5. brk \in Int BY PageAssumption DEF IInv, Addr
  <1>6. ASSUME Commit(opened) PROVE RInv' /\ HInv'
    <2>1. areas' = areas /\ heap' = heap /\ status' = status
      BY <1>1, <1>3, <1>6 DEF Commit
    <2>2. Keeps(Mm, Mm) BY DEF Keeps
    <2>3. HInv' BY <1>2, <1>3, <1>5, <2>1, <2>2, KeepsHInv
    <2> QED BY <2>1, <2>3, IdleRef
  <1>7. CASE MapTypeInvalid(c) BY <1>1, <1>6, <1>7
  <1>8. CASE ~MapTypeInvalid(c)
    <2> DEFINE n == NewArea(c, a, fd)
               R == MmapRegion(opened, n, L)
    <2>1. Commit(R.m) BY <1>1, <1>8
    <2>2. AreaTypeOK(n) /\ n.start = a /\ n.end = Add(a, L) BY <1>1, NewAreaType
    <2>3. L \in Addr /\ Aligned(L)
      BY MmapCallsAssumption, PageAlignType, PageAlignAligned
    <2>4. ASSUME a < n.end PROVE NewPlain(n)
      <3>1. Aligned(a) BY <1>1, <1>2, <2>2, <2>4, PlaceAligned
      <3> QED BY <1>1, <1>2, <2>2, <2>4, <3>1, NewAreaPlain
    <2>5. "GROWS" \notin n.flags
      <3>1. ~c.grows BY DEF HeapApart
      <3> QED BY <3>1 DEF NewArea
    <2> HIDE DEF n, L
    <2>6. R.m = opened \/ R.m.status = "corrupt" \/ PlainMm(R.m)
      BY <1>1, <1>4, <2>2, <2>3, <2>4, MmapRegionRef
    <2>7. R.m = opened \/ R.m.status = "corrupt" \/ Keeps(opened, R.m)
      BY <1>1, <1>4, <2>2, <2>3, <2>5, MmapRegionKeeps
    <2> HIDE DEF R
    <2>8. CASE R.m = opened BY <1>6, <2>1, <2>8
    <2>9. CASE R.m.status = "corrupt"
      <3>1. status' # "run" BY <2>1, <2>9 DEF Commit
      <3>2. HInv' BY <3>1 DEF HInv
      <3> QED BY <3>1, <3>2, StopsRef
    <2>10. CASE R.m # opened /\ R.m.status # "corrupt"
      <3>1. areas' = R.m.areas /\ heap' = R.m.heap BY <2>1 DEF Commit
      <3>2. PlainMm(R.m) /\ Keeps(opened, R.m) BY <2>6, <2>7, <2>10
      <3>3. HInv' BY <1>1, <1>2, <1>3, <1>5, <3>1, <3>2, KeepsHInv
      <3> QED BY <3>1, <3>2, <3>3, CommitRef
    <2> QED BY <2>8, <2>9, <2>10
  <1> QED BY <1>7, <1>8

\* syscall_munmap.
LEMMA SysMunmapHeap ==
  ASSUME IInv, RInv, HInv, NEW u \in MunmapCalls, SysMunmap(u[1], u[2])
  PROVE  RInv' /\ HInv'
  <1> DEFINE w == Munmap(Mm, u[1], u[2])
  <1>1. Running /\ ~MunmapInvalid(u[1], u[2]) /\ Commit(w) /\ brk' = brk BY DEF SysMunmap
  <1>2. u[1] \in Addr /\ u[2] \in Addr BY CallsAssumption
  <1>3. Good(Mm) /\ Mm.areas = areas /\ Mm.heap = heap /\ status = "run"
    BY <1>1, RunningGood
  <1>4. Cardinality(Fds \ Mm.fds) >= 2
    <2>1. Mm.fds = fds /\ Cardinality(Fds \ fds) >= 3 BY <1>1, RunningSound
    <2>2. 2 \in Nat /\ Cardinality(Fds \ fds) >= 2 + 1 BY <2>1
    <2> QED BY <2>1, <2>2, SpareAfterOne
  <1>5. Keeps(Mm, w) BY <1>1, <1>2, <1>3, <1>4, MunmapKeeps
  <1> HIDE DEF w
  <1>6. areas' = w.areas /\ heap' = w.heap BY <1>1 DEF Commit
  <1>7. brk \in Int BY PageAssumption DEF IInv, Addr
  <1>8. HInv' BY <1>1, <1>3, <1>5, <1>6, <1>7, KeepsHInv
  <1> QED BY <1>8, SysMunmapRef

\* The first heap page is an area of its own.
LEMMA FirstHeapAlone ==
  ASSUME HeapApart, NEW m, Good(m), GrowsHigh(m.areas), Cardinality(Fds \ m.fds) >= 2,
         LET R == MmapRegion(m, FirstHeapArea, PAGE_SIZE)
         IN  Placed(R.m, R.at, m)
  PROVE  LET R == MmapRegion(m, FirstHeapArea, PAGE_SIZE)
         IN  /\ R.at = user_heap_start
             /\ \A r \in R.m.areas : r.start = R.at => r.end = user_heap_start + PAGE_SIZE
  <1> DEFINE n == FirstHeapArea
             R == MmapRegion(m, n, PAGE_SIZE)
             a == n.start
             busy == Overlapped(m.areas, a, n.end)
             k == IF busy THEN Munmap(m, a, PAGE_SIZE) ELSE m
             P == {p \in k.areas : MergesAfter(p, n)}
             Q == {q \in k.areas : MergesBefore(q, n)}
  <1>1. /\ PAGE_SIZE \in Nat /\ 0 < PAGE_SIZE /\ WORD \in Nat
        /\ user_heap_start \in Nat /\ Aligned(user_heap_start) /\ kernel_min_address \in Nat
        /\ user_heap_start + PAGE_SIZE <= kernel_min_address
        /\ kernel_min_address + PAGE_SIZE <= WORD
    BY PageAssumption, LayoutAssumption
  <1>2. /\ n.start = user_heap_start /\ n.end = user_heap_start + PAGE_SIZE
        /\ n.flags = {"GROWS"} /\ AreaTypeOK(n)
    BY <1>1 DEF FirstHeapArea, AreaTypeOK, Addr, NoFile, NoFd
  <1>3. a \in Addr /\ PAGE_SIZE \in Addr /\ a < n.end BY <1>1, <1>2 DEF Addr
  <1>4. ~MunmapInvalid(a, PAGE_SIZE) BY <1>1, <1>2 DEF MunmapInvalid
  <1>5. MmTypeOK(m) /\ Sound(m) /\ PlainMm(m) BY DEF Good
  <1>6. R = MergeOrLink(k, n)
    <2>1. ~(n.end <= n.start) BY <1>1, <1>2
    <2> QED BY <1>4, <2>1 DEF MmapRegion
  <1>7. MergeOrLink(k, n) = IF P = {} /\ Q = {}
                            THEN [m |-> VmaLink(k, n), at |-> n.start] ELSE MergeOrLink(k, n)
    BY DEF MergeOrLink
  <1>8. Good(k) /\ GrowsHigh(k.areas)
    <2>1. CASE busy
      <3>1. k = Munmap(m, a, PAGE_SIZE) BY <2>1
      <3>2. MmTypeOK(k) /\ Sound(k) BY <1>3, <1>4, <1>5, <3>1, MunmapSound
      <3>3. PlainMm(k) BY <1>3, <1>4, <1>5, <3>1, MunmapRef
      <3>4. Keeps(m, k) BY <1>3, <1>4, <3>1, MunmapKeeps
      <3> QED BY <3>2, <3>3, <3>4 DEF Good, Keeps
    <2>2. CASE ~busy BY <2>2
    <2> QED BY <2>1, <2>2
  <1> HIDE DEF k, n
  <1>9. n \notin k.areas
    <2>1. SUFFICES ASSUME n \in k.areas PROVE FALSE OBVIOUS
    <2>2. CASE busy
      <3>1. k = Munmap(m, a, PAGE_SIZE) BY <2>2 DEF k
      <3>2. \A q \in k.areas : q.end <= a \/ a + PAGE_SIZE <= q.start
        BY <1>3, <1>4, <1>5, <3>1, MunmapSound
      <3> QED BY <1>1, <1>2, <2>1, <3>2
    <2>3. CASE ~busy BY <1>1, <1>2, <2>1, <2>3 DEF Overlapped, k
    <2> QED BY <2>2, <2>3
  <1>10. /\ Page(user_stack_min) \in Int /\ Page(user_heap_start) \in Nat
         /\ Page(user_heap_start) + 1 < Page(user_stack_min)
    <2>1. Page(user_stack_min) \in Int BY PageAssumption, LayoutAssumption DEF Page, user_stack_min
    <2> QED BY <1>1, <2>1, AlignedWhole DEF HeapApart
  <1>11. P = {}
    <2>1. SUFFICES ASSUME NEW p \in k.areas, MergesAfter(p, n) PROVE FALSE OBVIOUS
    <2>2. p.end = user_heap_start /\ "GROWS" \in p.flags
      BY <1>2, <2>1 DEF MergesAfter, CanMerge
    <2>3. Page(user_stack_min) <= Page(p.start) BY <1>8, <2>2 DEF GrowsHigh
    <2>4. /\ p.start \in Nat /\ Aligned(p.start) /\ p.start < p.end /\ Page(p.start) \in Nat
      BY <1>8, GoodArea
    <2>5. p.start <= user_heap_start <=> Page(p.start) <= Page(user_heap_start)
      BY <1>1, <2>4, PageMono
    <2> QED BY <1>1, <1>10, <2>2, <2>3, <2>4, <2>5
  <1>12. Q = {}
    <2>1. SUFFICES ASSUME NEW q \in k.areas, MergesBefore(q, n) PROVE FALSE OBVIOUS
    <2>2. q.start = user_heap_start + PAGE_SIZE /\ "GROWS" \in q.flags
      BY <1>2, <2>1 DEF MergesBefore, CanMerge
    <2>3. Page(user_stack_min) <= Page(q.start) BY <1>8, <2>2 DEF GrowsHigh
    <2>4. Aligned(PAGE_SIZE) /\ Page(PAGE_SIZE) = 1 BY PageAssumption DEF Aligned, Page
    <2>5. Page(q.start) = Page(user_heap_start) + 1 BY <1>1, <2>2, <2>4, AlignedSum
    <2> QED BY <1>10, <2>3, <2>5
  <1>13. R.m = VmaLink(k, n) /\ R.at = n.start BY <1>6, <1>7, <1>11, <1>12
  <1>14. PICK v : SameArea(v, n) /\ R.m.areas = k.areas \cup {v}
    BY <1>2, <1>8, <1>9, <1>13, VmaLinkEffect DEF Good
  <1>15. v.start = n.start /\ v.end = n.end BY <1>14 DEF SameArea
  <1>16. MmTypeOK(R.m) /\ Sound(R.m) BY DEF Placed, n
  <1> HIDE DEF R
  <1>17. ASSUME NEW r \in R.m.areas, r.start = R.at PROVE r.end = user_heap_start + PAGE_SIZE
    <2>1. r = v BY <1>13, <1>14, <1>15, <1>16, <1>17, SameStart
    <2> QED BY <1>2, <1>15, <2>1
  <1> QED BY <1>2, <1>13, <1>17 DEF R, n

\* The first brk(0).
LEMMA BrkStartHeap ==
  ASSUME HeapApart, IInv, RInv, HInv, Running, BrkStart
  PROVE  RInv' /\ HInv'
  <1> DEFINE R == MmapRegion(Mm, FirstHeapArea, PAGE_SIZE)
  <1>1. Good(Mm) /\ Mm.areas = areas /\ status = "run" BY RunningGood
  <1>2. /\ Cardinality(Fds \ Mm.fds) >= 2 /\ Placed(R.m, R.at, Mm)
        /\ areas' = R.m.areas /\ heap' = R.at
    BY BrkStartStages
  <1>3. brk = 0 /\ brk' = user_heap_start /\ user_heap_start # 0
    BY LayoutAssumption DEF BrkStart
  <1>4. GrowsHigh(Mm.areas) BY <1>1, <1>3 DEF HInv
  <1>5. /\ R.at = user_heap_start
        /\ \A r \in R.m.areas : r.start = R.at => r.end = user_heap_start + PAGE_SIZE
    BY <1>1, <1>2, <1>4, FirstHeapAlone
  <1> HIDE DEF R
  <1>6. Mm'.areas = R.m.areas /\ Mm'.heap = R.at BY <1>2 DEF Mm
  <1>7. HeapEnds(Mm', brk') BY <1>5, <1>6 DEF HeapEnds, EndsAt
  <1>8. HInv' BY <1>3, <1>7 DEF HInv
  <1> QED BY <1>8, BrkStartRef

\* The invariant contains the property.
LEMMA HInvImplies ==
  ASSUME IInv, HInv
  PROVE  HeapEndsAtBreak
  <1>1. SUFFICES ASSUME status = "run", heap \in Addr PROVE EndsAt(HeapVma(Mm), brk)
    BY DEF HeapEndsAtBreak, EndsAt
  <1>2. PICK r \in Mm.areas : r.start = Mm.heap
    BY <1>1 DEF IInv, Sound, HeapLinked, Mm
  <1>3. HeapVma(Mm) \in Mm.areas /\ HeapVma(Mm).start = Mm.heap BY <1>2 DEF HeapVma
  <1> QED BY <1>1, <1>3 DEF HInv, HeapEnds

\* A later brk.
LEMMA BrkGrowHeap ==
  ASSUME IInv, IInv', RInv, HInv, Running, NEW b \in BrkCalls, BrkGrow(b)
  PROVE  RInv' /\ HInv'
  <1> DEFINE e == PAGE_ALIGN(b)
  <1>1. Good(Mm) /\ Mm.areas = areas /\ Mm.heap = heap /\ status = "run" BY RunningGood
  <1>2. b \in Addr /\ e \in Addr BY CallsAssumption, PageAlignType
  <1>3. PICK r, g, k :
         /\ r \in areas /\ r = HeapVma(Mm) /\ r.start = heap /\ heap \in Addr
         /\ g = [r EXCEPT !.end = PAGE_ALIGN(b)] /\ AreaTypeOK(g)
         /\ r.start < PAGE_ALIGN(b)
         /\ \A q \in areas : q.start > r.start => PAGE_ALIGN(b) <= q.start
         /\ MmTypeOK(k) /\ k.areas = (areas \ {r}) \cup {g} /\ k.highest = highest
         /\ k.heap = heap /\ k.host = host /\ k.status = "run"
         /\ Commit(MapVma(k, g))
    BY <1>2, BrkGrowStages
  <1>4. brk' = e BY DEF BrkGrow
  <1>5. e # 0 BY <1>2, <1>3, PageAssumption DEF Addr
  <1>6. AreaTypeOK(r) BY <1>1, <1>3 DEF Good, MmTypeOK
  <1>7. g.start = r.start /\ g.end = e BY <1>3, <1>6 DEF AreaTypeOK
  <1> HIDE DEF e
  <1>8. PICK v : SameArea(v, g) /\ MapVma(k, g).areas = (k.areas \ {g}) \cup {v}
    BY <1>3, MapVmaEffect
  <1>9. heap' = heap
    <2>1. MapVma(k, g).heap = k.heap BY <1>3, MapVmaEffect
    <2> QED BY <1>3, <2>1 DEF Commit
  <1>10. areas' \subseteq (areas \ {r}) \cup {v} BY <1>3, <1>8 DEF Commit
  <1>11. v.end = e BY <1>7, <1>8 DEF SameArea
  <1>12. ASSUME NEW q \in areas', q.start = heap' PROVE EndsAt(q, brk')
    <2>1. q # v => q \in areas /\ q # r BY <1>10, <1>12
    <2>2. q # v => FALSE
      BY <1>1, <1>3, <1>9, <1>12, <2>1, SameStart DEF Good
    <2>3. e <= e BY <1>2, PageAssumption DEF Addr
    <2> QED BY <1>4, <1>11, <2>2, <2>3 DEF EndsAt
  <1>13. HInv' BY <1>4, <1>5, <1>12 DEF HInv, HeapEnds, Mm
  <1> QED BY <1>13, HInvImplies, BrkGrowRef

\* grow_stack.
LEMMA GrowHeap ==
  ASSUME HeapApart, IInv, IInv', RInv, HInv, Running, NEW a \in Addr, ~FaultIsFatal(a),
         Commit(GrowStack(Mm, VmaFind(areas, a), a)), brk' = brk
  PROVE  RInv' /\ HInv'
  <1> DEFINE s == GrownStart(a)
  <1>1. Good(Mm) /\ Mm.areas = areas /\ Mm.heap = heap /\ status = "run" BY RunningGood
  <1>2. PICK r, g, k :
         /\ r \in areas /\ r = VmaFind(areas, a) /\ "GROWS" \in r.flags
         /\ a < r.start /\ GrownStart(a) \in Addr /\ GrownStart(a) <= a
         /\ g = [r EXCEPT !.start = GrownStart(a)] /\ AreaTypeOK(g)
         /\ MmTypeOK(k) /\ k.areas = (areas \ {r}) \cup {g} /\ k.highest = highest
         /\ k.host = host /\ k.heap = (IF heap = r.start THEN GrownStart(a) ELSE heap)
         /\ k.status = (IF Overlapped(areas \ {r}, GrownStart(a), r.start)
                        THEN "corrupt" ELSE "run")
         /\ Commit(MapVma(k, g))
    BY GrowStages
  <1>3. /\ r.start \in Nat /\ r.end \in Nat /\ Aligned(r.start) /\ AreaTypeOK(r)
    BY <1>1, <1>2, GoodArea DEF Good, MmTypeOK
  <1>4. Aligned(s) /\ Page(user_stack_min) <= Page(s) BY GrownPage DEF FaultIsFatal
  <1>5. s \in Nat /\ s < r.start BY <1>2, <1>3, PageAssumption DEF Addr
  <1>6. g.start = s /\ g.end = r.end /\ g.flags = r.flags BY <1>2, <1>3 DEF AreaTypeOK
  <1> HIDE DEF s
  <1>7. PICK v : SameArea(v, g) /\ MapVma(k, g).areas = (k.areas \ {g}) \cup {v}
    BY <1>2, MapVmaEffect
  <1>8. heap' = k.heap
    <2>1. MapVma(k, g).heap = k.heap BY <1>2, MapVmaEffect
    <2> QED BY <1>2, <2>1 DEF Commit
  <1>9. areas' \subseteq (areas \ {r}) \cup {v} /\ v \in areas' BY <1>2, <1>7 DEF Commit
  <1>10. v.start = s /\ v.end = r.end /\ v.flags = r.flags BY <1>6, <1>7 DEF SameArea
  <1>11. HInv'
    <2>1. SUFFICES ASSUME status' = "run" PROVE HInv' BY DEF HInv
    <2>2. MmTypeOK(Mm') /\ Sound(Mm') /\ Mm'.areas = areas' /\ Mm'.heap = heap'
      BY <2>1 DEF IInv, Mm
    <2>3. ASSUME NEW q \in areas', q.start = heap' PROVE EndsAt(q, brk)
      <3>1. CASE q = v
        <4>1. heap = r.start
          <5>1. SUFFICES ASSUME heap = v.start PROVE FALSE
            BY <1>2, <1>8, <2>3, <3>1
          <5>2. v.start \in Addr BY <1>2, <1>10 DEF s
          <5>3. PICK p \in areas : p.start = v.start
            BY <1>1, <5>1, <5>2 DEF Good, Sound, HeapLinked
          <5>4. p.end <= r.start \/ p = r
            <6>1. p = r \/ p.end <= r.start \/ r.end <= p.start
              BY <1>1, <1>2, <5>3 DEF Good, Sound, PairwiseDisjoint
            <6>2. r.start < r.end BY <1>1, <1>2, GoodArea
            <6> QED BY <1>3, <1>5, <1>10, <5>3, <6>1, <6>2
          <5>5. p # r BY <1>5, <1>3, <1>10, <5>3
          <5>6. p.start < p.end /\ p.start \in Nat /\ p.end \in Nat BY <1>1, <5>3, GoodArea
          <5>7. Overlapped(areas \ {r}, s, r.start)
            BY <1>3, <1>5, <1>10, <5>3, <5>5, <5>6 DEF Overlapped
          <5>8. MapVma(k, g).status = k.status BY <1>2, MapVmaEffect
          <5>9. status' = "corrupt" BY <1>2, <5>7, <5>8 DEF Commit, s
          <5> QED BY <2>1, <5>9
        <4>2. EndsAt(r, brk) BY <1>1, <1>2, <4>1 DEF HInv, HeapEnds
        <4>3. r.start # user_heap_start
          <5>1. SUFFICES ASSUME r.start = user_heap_start PROVE FALSE OBVIOUS
          <5>2. (s <= r.start <=> Page(s) <= Page(r.start)) /\ Page(s) \in Nat /\ Page(r.start) \in Nat
            BY <1>3, <1>4, <1>5, PageMono
          <5>3. Page(user_heap_start) + 1 < Page(user_stack_min) BY DEF HeapApart
          <5>4. Page(user_stack_min) \in Int
            BY PageAssumption, LayoutAssumption DEF Page, user_stack_min
          <5> QED BY <1>3, <1>4, <1>5, <5>1, <5>2, <5>3, <5>4
        <4> QED BY <1>10, <3>1, <4>2, <4>3 DEF EndsAt
      <3>2. CASE q # v
        <4>1. q \in areas /\ q # r BY <1>9, <3>2
        <4>2. q.start # s BY <1>9, <1>10, <2>2, <3>2, SameStart
        <4>3. q.start = heap BY <1>2, <1>8, <2>3, <4>2 DEF s
        <4> QED BY <1>1, <4>1, <4>3 DEF HInv, HeapEnds
      <3> QED BY <3>1, <3>2
    <2>4. ASSUME brk = 0 PROVE GrowsHigh(areas')
      <3>1. GrowsHigh(areas) BY <1>1, <2>4 DEF HInv
      <3> QED BY <1>4, <1>9, <1>10, <3>1 DEF GrowsHigh
    <2> QED BY <2>2, <2>3, <2>4 DEF HInv, HeapEnds
  <1> QED BY <1>11, GrowRef

\* Every step.
LEMMA HeapStep ==
  ASSUME OrdinaryCalls, HeapApart, IInv, IInv', RInv, HInv, [Next]_vars
  PROVE  RInv' /\ HInv'
  <1>1. ASSUME NEW c \in MmapCalls, SysMmap(c) PROVE RInv' /\ HInv'
    BY <1>1, SysMmapHeap
  <1>2. ASSUME NEW u \in MunmapCalls, SysMunmap(u[1], u[2]) PROVE RInv' /\ HInv'
    BY <1>2, SysMunmapHeap
  <1>3. ASSUME status' # "run" PROVE RInv' /\ HInv'
    <2>1. HInv' BY <1>3 DEF HInv
    <2> QED BY <1>3, <2>1, StopsRef
  <1>4. ASSUME NEW b \in BrkCalls, SysBrk(b) PROVE RInv' /\ HInv'
    <2>1. Running BY <1>4 DEF SysBrk
    <2>2. CASE BrkStart BY <2>1, <2>2, BrkStartHeap
    <2>3. CASE BrkNullHeap(b) \/ BrkDangling(b)
      <3>1. status' # "run" BY <2>3 DEF BrkNullHeap, BrkDangling
      <3> QED BY <1>3, <3>1
    <2>4. CASE BrkGrow(b) BY <2>1, <2>4, BrkGrowHeap
    <2> QED BY <1>4, <2>2, <2>3, <2>4 DEF SysBrk
  <1>5. ASSUME NEW a \in Touched, UserPageFault(a) PROVE RInv' /\ HInv'
    <2>1. Running /\ a \in Addr /\ brk' = brk BY <1>5, CallsAssumption DEF UserPageFault
    <2>2. CASE status' = "exit" BY <1>3, <2>2
    <2>3. CASE ~FaultIsFatal(a) /\ Commit(GrowStack(Mm, VmaFind(areas, a), a))
      BY <2>1, <2>3, GrowHeap
    <2> QED BY <1>5, <2>2, <2>3 DEF UserPageFault
  <1>6. CASE UNCHANGED vars
    <2>1. /\ areas' = areas /\ heap' = heap /\ status' = status /\ brk' = brk
      BY <1>6 DEF vars
    <2>2. HInv' BY <2>1 DEF HInv, HeapEnds, Mm
    <2> QED BY <2>1, <2>2, IdleRef
  <1> QED BY <1>1, <1>2, <1>4, <1>5, <1>6 DEF Next

LEMMA HeapInit == OrdinaryCalls /\ HeapApart /\ Init => RInv /\ HInv
  <1> SUFFICES ASSUME OrdinaryCalls, HeapApart, Init PROVE RInv /\ HInv OBVIOUS
  <1>1. /\ Mm.areas = BootAreas /\ Mm.heap = NULL /\ areas = BootAreas BY DEF Init, Mm
  <1>2. \A r \in BootAreas : Plain(r) /\ r.start # NULL
    BY BootAssumption, PageAssumption DEF OrdinaryCalls, AreaTypeOK, Addr, NULL
  <1>3. RInv BY <1>1, <1>2 DEF RInv, PlainMm, HeapGrows
  <1>4. HInv BY <1>1, <1>2 DEF HInv, HeapEnds, GrowsHigh, HeapApart
  <1> QED BY <1>3, <1>4

\* The break never leaves the heap area's end behind, for programs that map
\* nothing with MAP_GROWSDOWN: syscall_brk sets the end to the new break, and no
\* munmap, mmap, stack growth or merge ever moves it up afterwards.
THEOREM HeapStaysAtBreak ==
  ASSUME OrdinaryCalls, HeapApart
  PROVE  Spec => []HeapEndsAtBreak
  <1>1. Spec => []IInv BY IInvInit, IInvStep, PTL DEF Spec
  <1>2. Init => RInv /\ HInv BY HeapInit
  <1>3. IInv /\ IInv' /\ RInv /\ HInv /\ [Next]_vars => RInv' /\ HInv' BY HeapStep
  <1>4. IInv /\ HInv => HeapEndsAtBreak BY HInvImplies
  <1> QED BY <1>1, <1>2, <1>3, <1>4, PTL DEF Spec

\* For such programs every area stays of whole pages, through every split, merge,
\* break and stack growth (vma_split, vma_merge, syscall_brk, grow_stack).
THEOREM AreasStayWhole ==
  ASSUME OrdinaryCalls, HeapApart
  PROVE  Spec => []AreasWhole
  <1>1. Spec => []IInv BY IInvInit, IInvStep, PTL DEF Spec
  <1>2. Init => RInv /\ HInv BY HeapInit
  <1>3. IInv /\ IInv' /\ RInv /\ HInv /\ [Next]_vars => RInv' /\ HInv' BY HeapStep
  <1>4. RInv => AreasWhole BY DEF RInv, PlainMm, AreasWhole, Mm
  <1> QED BY <1>1, <1>2, <1>3, <1>4, PTL DEF Spec

\* For such programs nothing need be assumed of the heap: they see AddrSpace as
\* long as an area lies above the heap.
THEOREM HeapApartRefinement ==
  ASSUME OrdinaryCalls, HeapApart
  PROVE  Spec /\ []AreaAboveHeap => ImplementsAddrSpace
  BY HeapStaysAtBreak, AreasImplementAddrSpace, PTL
===========================================================================
