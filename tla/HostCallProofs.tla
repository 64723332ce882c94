--------------------------- MODULE HostCallProofs ---------------------------
(***************************************************************************)
(* Proofs for HostCall, for all areas, frames, memories and calls that     *)
(* meet its assumptions.  First the two ways to guest memory: inside one   *)
(* area vm_ptr agrees with the page tables, and the page-wise copies do    *)
(* what GuestMemProofs shows.  Then Control: at a hlt the registers hold   *)
(* a call that was made.  Then, handler by handler, what the call promises *)
(* of output, input and names, and that it leaves the rest of memory       *)
(* alone.  HInv puts them together.                                        *)
(***************************************************************************)
EXTENDS HostCall, GuestMemProofs, FiniteSetTheorems
-----------------------------------------------------------------------------
(* Areas, frames and the table of calls. *)

\* An area is a run of whole pages of the address space, and so are its frames.
LEMMA AreaType ==
    ASSUME NEW a \in Areas
    PROVE  /\ a.start \in Nat /\ a.end \in Nat /\ a.phys \in Nat
           /\ a.start < a.end /\ a.end <= PAGE_SIZE * VA_PAGES
           /\ \E q \in Nat : a.start = PAGE_SIZE * q
           /\ \E q \in Nat : a.end = PAGE_SIZE * q
           /\ \E q \in Nat : a.phys = PAGE_SIZE * q
<1>1. PAGE_SIZE \in Nat \ {0}
  BY GuestMemAssumption
<1>2. /\ a.start \in Nat /\ a.end \in Nat /\ a.phys \in Nat
      /\ a.start < a.end /\ a.end <= PAGE_SIZE * VA_PAGES
      /\ a.start % PAGE_SIZE = 0 /\ a.end % PAGE_SIZE = 0 /\ a.phys % PAGE_SIZE = 0
  BY AreasAssumption
<1>3. ASSUME NEW x \in Nat, x % PAGE_SIZE = 0 PROVE \E q \in Nat : x = PAGE_SIZE * q
  <2>0. x \in Int
    OBVIOUS
  <2>1. PICK q \in Int : q = x \div PAGE_SIZE /\ x = PAGE_SIZE * q + (x % PAGE_SIZE)
    BY <1>1, <2>0, DivisionExact
  <2>2. x = PAGE_SIZE * q
    BY <1>1, <1>3, <2>1
  <2>3. q >= 0
    BY <1>1, <2>2
  <2> QED BY <2>2, <2>3
<1> QED BY <1>2, <1>3

\* The areas that hold a page.
Inside(p) == {a \in Areas : a.start <= p * PAGE_SIZE /\ p * PAGE_SIZE < a.end}

\* The page table of an address inside an area and outside all.
LEMMA PtAt ==
    ASSUME NEW p \in VaPages
    PROVE  pt[p] = IF Inside(p) # {}
                   THEN LET a == CHOOSE b \in Inside(p) : TRUE
                        IN  (a.phys + p * PAGE_SIZE - a.start) \div PAGE_SIZE
                   ELSE IF p \in DOMAIN KernelFrames THEN KernelFrames[p] ELSE NoFrame
BY DEF pt, Inside

\* Every page has a frame number, or NoFrame.
LEMMA PtType == pt \in [VaPages -> Int]
<1>1. pt = [p \in VaPages |-> pt[p]]
  BY DEF pt
<1>2. ASSUME NEW p \in VaPages PROVE pt[p] \in Int
  <2>1. CASE Inside(p) # {}
    <3>1. PICK a \in Areas : pt[p] = (a.phys + p * PAGE_SIZE - a.start) \div PAGE_SIZE
      BY <2>1, PtAt DEF Inside
    <3>2. a.phys \in Int /\ a.start \in Int /\ p \in Int /\ PAGE_SIZE \in Nat \ {0}
      BY AreaType, GuestMemAssumption DEF VaPages
    <3>3. a.phys + p * PAGE_SIZE - a.start \in Int
      BY <3>2
    <3> QED BY <3>1, <3>2, <3>3
  <2>2. CASE Inside(p) = {}
    BY <2>2, PtAt, AreasAssumption DEF NoFrame
  <2> QED BY <2>1, <2>2
<1> QED BY <1>1, <1>2

\* No two pages have one frame: what the page-wise copies need.
LEMMA PtApart == FramesApart(pt)
BY FramesAssumption DEF FramesApart

\* An address is in one area at most.
LEMMA AreaApart ==
    ASSUME NEW a \in Areas, NEW b \in Areas, NEW x \in Int,
           a.start <= x, x < a.end, b.start <= x, x < b.end
    PROVE  b = a
BY AreaType, AreasAssumption

\* vma_find of an address in an area finds that area, not a neighbour, so vm_ptr
\* counts from its start.
LEMMA AreaFound ==
    ASSUME NEW a \in Areas, NEW x \in Int, a.start <= x, x < a.end
    PROVE  VmPtr(x) = a.phys + (x - a.start)
<1>1. a \in VmaFind(x)
  <2> SUFFICES ASSUME NEW b \in Areas, b.end > x PROVE a.end <= b.end
    BY DEF VmaFind
  <2> QED BY AreaType, AreasAssumption
<1>2. ASSUME NEW b \in VmaFind(x) PROVE b = a
  <2>1. b \in Areas /\ b.end = a.end
    BY <1>1, AreaType DEF VmaFind
  <2> QED BY <2>1, AreaType, AreasAssumption
<1>3. (CHOOSE b \in VmaFind(x) : TRUE) = a
  BY <1>1, <1>2
<1>4. VmPtr(x) = a.phys + x - a.start
  BY <1>3 DEF VmPtr
<1> QED BY <1>4, AreaType

\* The page tables agree with vm_ptr inside an area.
LEMMA AreaPhys ==
    ASSUME NEW a \in Areas, NEW x \in Int, a.start <= x, x < a.end
    PROVE  /\ GetPhysAddr(pt, x) = a.phys + (x - a.start)
           /\ IsVpagePresent(pt, x)
<1> DEFINE P == PAGE_SIZE
           V == VA_PAGES
<1>1. P \in Nat \ {0} /\ V \in Nat \ {0} /\ P \in Int /\ V \in Int
  BY GuestMemAssumption
<1>2. /\ a.start \in Nat /\ a.end \in Nat /\ a.phys \in Nat
      /\ a.start < a.end /\ a.end <= P * V
  BY AreaType
<1>3. PICK qs \in Nat, qe \in Nat, qp \in Nat :
          a.start = P * qs /\ a.end = P * qe /\ a.phys = P * qp
  <2>1. PICK qs \in Nat : a.start = P * qs
    BY AreaType
  <2>2. PICK qe \in Nat : a.end = P * qe
    BY AreaType
  <2>3. PICK qp \in Nat : a.phys = P * qp
    BY AreaType
  <2> QED BY <2>1, <2>2, <2>3
<1>4. PICK d \in Int, e \in 0 .. P - 1 : x = P * d + e /\ d = x \div P /\ e = x % P
  BY <1>1, DivisionExact
<1> HIDE DEF P, V
<1>5. qs <= d /\ d < qe /\ d < V
  <2>1. d < qs => P * d + P <= P * qs
    <3> SUFFICES ASSUME d < qs PROVE P * d + P <= P * qs
      OBVIOUS
    <3>1. PICK c \in Nat : qs = d + 1 + c
      <4>1. qs - d - 1 \in Nat
        OBVIOUS
      <4> QED BY <4>1
    <3>2. P * qs = P * d + P + P * c
      BY <1>1, <3>1
    <3> QED BY <1>1, <3>1, <3>2
  <2>2. d >= qe => P * d >= P * qe
    BY <1>1
  <2>3. d >= V => P * d >= P * V
    BY <1>1
  <2>4. PICK u \in Int, s \in Int, t \in Int, v \in Int :
           u = P * d /\ s = P * qs /\ t = P * qe /\ v = P * V
    BY <1>1
  <2>5. u + e < t /\ s <= u + e /\ t <= v /\ e \in Int /\ e < P /\ e >= 0
    <3>1. x = u + e /\ a.start = s /\ a.end = t /\ a.end <= v
      BY <1>2, <1>3, <1>4, <2>4
    <3>2. e \in Int /\ e < P /\ e >= 0
      BY <1>1
    <3> QED BY <3>1, <3>2
  <2>6. (d < qs => u + P <= s) /\ (d >= qe => u >= t) /\ (d >= V => u >= v)
    BY <2>1, <2>2, <2>3, <2>4
  <2> QED BY ONLY <2>5, <2>6, <1>1, d \in Int, qs \in Nat, qe \in Nat, u \in Int, s \in Int,
                  t \in Int, v \in Int
<1>6. PageOf(x) = d /\ PAGE_OFFSET(x) = e /\ d \in VaPages
  <2>1. d \in 0 .. V - 1
    BY <1>1, <1>5
  <2>2. d % V = d
    BY <1>1, <2>1
  <2> QED BY <1>4, <2>1, <2>2 DEF PageOf, PAGE_OFFSET, VaPages, P, V
<1>7. a \in Inside(d)
  <2>1. P * qs <= P * d /\ P * d < P * qe
    BY <1>1, <1>5
  <2>2. d * PAGE_SIZE = P * d
    BY <1>1 DEF P
  <2> QED BY <1>3, <2>1, <2>2 DEF Inside
<1>8. \A b \in Inside(d) : b = a
  <2> SUFFICES ASSUME NEW b \in Inside(d) PROVE b = a
    OBVIOUS
  <2>1. PICK z \in Int : z = d * PAGE_SIZE
    BY <1>1 DEF P
  <2> QED BY <1>7, <2>1, AreaApart DEF Inside
<1>9. pt[d] = (a.phys + d * PAGE_SIZE - a.start) \div PAGE_SIZE
  <2>1. (CHOOSE b \in Inside(d) : TRUE) = a
    BY <1>7, <1>8
  <2> QED BY <1>6, <1>7, <2>1, PtAt
<1>10. pt[d] = qp + d - qs
  <2>1. PICK y \in Int, f \in Int : y = a.phys + d * PAGE_SIZE - a.start /\ f = qp + d - qs
    BY <1>1, <1>2 DEF P
  <2>2. y = P * f + 0 /\ 0 \in 0 .. P - 1
    <3>1. y = P * qp + P * d - P * qs
      BY <1>1, <1>3, <2>1 DEF P
    <3>2. P * f = P * qp + P * d - P * qs
      BY <1>1, <2>1
    <3> QED BY <1>1, <3>1, <3>2
  <2>3. y \div P = f
    BY ONLY <1>1, <2>2, f \in Int, y \in Int, DivisionUnique
  <2> QED BY <1>9, <2>1, <2>3 DEF P
<1>11. GetPhysAddr(pt, x) = a.phys + (x - a.start)
  <2>1. GetPhysAddr(pt, x) = (qp + d - qs) * P + e
    BY <1>6, <1>10 DEF GetPhysAddr, P
  <2>2. (qp + d - qs) * P = P * qp + P * d - P * qs
    BY <1>1
  <2>3. PICK u \in Int, s \in Int, r \in Int : u = P * d /\ s = P * qs /\ r = P * qp
    BY <1>1
  <2>4. GetPhysAddr(pt, x) = (r + u - s) + e /\ x = u + e /\ a.phys = r /\ a.start = s /\ e \in Int
    <3>1. x = u + e
      BY <1>4, <2>3
    <3>2. a.phys = r /\ a.start = s
      BY <1>3, <2>3
    <3>3. (qp + d - qs) * P = r + u - s
      BY <2>2, <2>3
    <3>4. e \in Int
      BY <1>1
    <3> QED BY <2>1, <3>1, <3>2, <3>3, <3>4
  <2> QED BY ONLY <2>4, u \in Int, s \in Int, r \in Int
<1>12. IsVpagePresent(pt, x)
  BY <1>1, <1>5, <1>6, <1>10 DEF IsVpagePresent, NoFrame
<1> QED BY <1>11, <1>12

\* A buffer inside one area can be reached from its first byte on: what vm_ptr
\* relies on when it translates a pointer once.
LEMMA AreaLinear ==
    ASSUME NEW va \in Int, NEW n \in Int, OneArea(va, n), NEW i \in 0 .. n - 1
    PROVE  VmPtr(va) + i = GetPhysAddr(pt, va + i) /\ VmPtr(va) \in Int
<1>1. PICK a \in Areas : a.start <= va /\ va + n <= a.end
  BY DEF OneArea
<1>2. a.start \in Nat /\ a.end \in Nat /\ a.phys \in Nat
  BY AreaType
<1>3. PICK x \in Int : x = va + i
  OBVIOUS
<1>4. va < a.end /\ a.start <= x /\ x < a.end
  BY <1>1, <1>2, <1>3
<1>5. VmPtr(va) = a.phys + (va - a.start)
  BY <1>1, <1>4, AreaFound
<1>6. GetPhysAddr(pt, x) = a.phys + (x - a.start)
  BY <1>1, <1>4, AreaPhys
<1> QED BY <1>2, <1>3, <1>5, <1>6
\* Only the last call of host.h has a stub written by hand.
LEMMA OneCustom ==
    /\ DOMAIN HostCalls = 1 .. 27
    /\ \A i \in 1 .. 27 : HostCalls[i].custom <=> i = 27
<1>1. DOMAIN HostCalls = 1 .. 27
  BY DEF HostCalls
<1>2. ASSUME NEW i \in 1 .. 27 PROVE HostCalls[i].custom <=> i = 27
  BY DEF HostCalls, Def, Custom
<1> QED BY <1>1, <1>2

\* The stub's number is its call's place in the host's table, counted from 0.
LEMMA StubPlace ==
    ASSUME NEW name, \E i \in DOMAIN HostCalls : HostCalls[i].name = name
    PROVE  /\ StubNumber(name) + 1 \in 1 .. 27
           /\ Handler(StubNumber(name)).name = name
<1> DEFINE i == PlaceOf(name)
           before == {j \in DOMAIN HostCalls :
                        \/ ~HostCalls[j].custom /\ (HostCalls[i].custom \/ j < i)
                        \/ HostCalls[j].custom /\ HostCalls[i].custom /\ j < i}
<1>1. i \in DOMAIN HostCalls /\ HostCalls[i].name = name
  BY DEF PlaceOf
<1>2. StubNumber(name) = Cardinality(before)
  BY DEF StubNumber
<1> HIDE DEF i
<1>3. before = 1 .. (i - 1)
  <2>1. ASSUME NEW j \in before PROVE j \in 1 .. (i - 1)
    BY <1>1, OneCustom
  <2>2. ASSUME NEW j \in 1 .. (i - 1) PROVE j \in before
    BY <1>1, OneCustom
  <2> QED BY <2>1, <2>2
<1> HIDE DEF before
<1>4. Cardinality(1 .. (i - 1)) = i - 1
  <2>1. i \in 1 .. 27
    BY <1>1, OneCustom
  <2>2. PICK k \in Int : k = i - 1 /\ k >= 0
    BY <2>1
  <2>3. Cardinality(1 .. k) = IF 1 > k THEN 0 ELSE k - 1 + 1
    BY FS_Interval
  <2> QED BY <2>2, <2>3
<1>5. StubNumber(name) + 1 = i /\ i \in 1 .. 27
  <2>1. i \in 1 .. 27
    BY <1>1, OneCustom
  <2>2. StubNumber(name) = i - 1
    BY <1>2, <1>3, <1>4
  <2> QED BY <2>1, <2>2
<1> QED BY <1>1, <1>5 DEF Handler

-----------------------------------------------------------------------------
(* What the host writes is found by the guest. *)

\* writev finds an address and a length wherever it looks.
Typed(mem) == \A x \in DOMAIN mem : IsByte(mem[x])

\* Memory nobody wrote holds a byte.
LEMMA ZeroIsByte == IsByte(Zero)
BY DEF Zero, IsByte

\* The same, said of every address.
LEMMA TypedStored ==
    ASSUME NEW mem
    PROVE  Typed(mem) <=> \A x : IsByte(Stored(mem, x))
BY ZeroIsByte DEF Typed, Stored

\* A buffer of the host with k bytes.
AreBytes(s, k) == /\ \E B : s \in Seq(B)
                  /\ Len(s) = k
                  /\ \A i \in 1 .. k : IsByte(s[i])
\* Memory m differs from mem only where the n bytes from va on are.
DiffersIn(m, mem, va, n) ==
    \A x : Stored(m, x) # Stored(mem, x) =>
           \E i \in 0 .. n - 1 : x = GetPhysAddr(pt, va + i)
\* The guest finds the first k bytes of s at va.
Finds(m, va, k, s) == GuestBytes(pt, m, va, k) = [i \in 1 .. k |-> s[i]]

\* A memcpy of bytes leaves bytes.
LEMMA StoreTyped ==
    ASSUME NEW mem, Typed(mem), NEW bytes, NEW k \in Nat, AreBytes(bytes, k), NEW a \in Int
    PROVE  Typed(Store(mem, a, bytes))
<1>0. Len(bytes) = k /\ \A i \in 1 .. k : IsByte(bytes[i])
  BY DEF AreBytes
<1> SUFFICES ASSUME NEW x \in DOMAIN Store(mem, a, bytes)
             PROVE  IsByte(Store(mem, a, bytes)[x])
  BY DEF Typed
<1>1. x \in DOMAIN mem \cup a .. a + Len(bytes) - 1
  BY DEF Store
<1>2. Store(mem, a, bytes)[x] =
        IF x \in a .. a + Len(bytes) - 1 THEN bytes[x - a + 1] ELSE mem[x]
  BY <1>1 DEF Store
<1>3. CASE x \in a .. a + Len(bytes) - 1
  <2>1. x - a + 1 \in 1 .. k
    BY <1>0, <1>3
  <2> QED BY <1>0, <1>2, <1>3, <2>1
<1>4. CASE x \notin a .. a + Len(bytes) - 1
  BY <1>1, <1>2, <1>4 DEF Typed
<1> QED BY <1>3, <1>4

\* vm_ptr yields a physical address.
LEMMA VmPtrType ==
    ASSUME NEW va \in Int, VmaFind(va) # {}
    PROVE  VmPtr(va) \in Int
<1>1. PICK a \in Areas : VmPtr(va) = a.phys + va - a.start
  BY DEF VmPtr, VmaFind
<1> QED BY <1>1, AreaType

\* A write of the host through vm_ptr to a buffer inside one area changes the
\* buffer only, and the guest finds there what was written.
LEMMA StoreInArea ==
    ASSUME NEW mem, NEW va \in Int, NEW n \in Int, OneArea(va, n), VmPtr(va) \in Int,
           NEW bytes, NEW k \in Nat, AreBytes(bytes, k), k <= n
    PROVE  /\ DiffersIn(Store(mem, VmPtr(va), bytes), mem, va, n)
           /\ Finds(Store(mem, VmPtr(va), bytes), va, k, bytes)
<1>0. PICK m : m = Store(mem, VmPtr(va), bytes) /\ Len(bytes) = k
  BY DEF AreBytes
<1>1. \A i \in 0 .. n - 1 : VmPtr(va) + i = GetPhysAddr(pt, va + i) /\ VmPtr(va) \in Int
  BY AreaLinear
<1>2. \A x : Stored(m, x) = IF x \in VmPtr(va) .. VmPtr(va) + k - 1
                            THEN bytes[x - VmPtr(va) + 1] ELSE Stored(mem, x)
  BY <1>0, StoredStore
<1>3. CASE k = 0
  <2>1. 1 .. k = {}
    BY <1>3
  <2>2. \A x : Stored(m, x) = Stored(mem, x)
    <3> SUFFICES ASSUME NEW x \in VmPtr(va) .. VmPtr(va) + k - 1 PROVE FALSE
      BY <1>2
    <3> QED BY <1>3
  <2> QED BY <1>0, <2>1, <2>2 DEF GuestBytes, DiffersIn, Finds
<1>4. CASE k > 0
  <2>1. PICK a \in Int : a = VmPtr(va)
    <3>1. 0 \in 0 .. n - 1
      BY <1>4
    <3> QED BY <1>1, <3>1
  <2>2. ASSUME NEW x, Stored(m, x) # Stored(mem, x)
        PROVE  \E i \in 0 .. n - 1 : x = GetPhysAddr(pt, va + i)
    <3>1. x \in a .. a + k - 1
      BY <1>2, <2>1, <2>2
    <3>2. PICK i \in 0 .. n - 1 : x = a + i
      <4>1. x - a \in 0 .. n - 1 /\ x = a + (x - a)
        BY <3>1
      <4> QED BY <4>1
    <3> QED BY <1>1, <2>1, <3>2
  <2>3. \A i \in 1 .. k : Stored(m, GetPhysAddr(pt, va + i - 1)) = bytes[i]
    <3> SUFFICES ASSUME NEW i \in 1 .. k
                 PROVE  Stored(m, GetPhysAddr(pt, va + i - 1)) = bytes[i]
      OBVIOUS
    <3>1. PICK j \in 0 .. n - 1 : j = i - 1
      OBVIOUS
    <3>2. va + i - 1 = va + j
      BY <3>1
    <3>3. GetPhysAddr(pt, va + j) = a + j
      BY <1>1, <2>1
    <3>4. a + j \in a .. a + k - 1 /\ (a + j) - a + 1 = i
      BY <3>1
    <3> QED BY <1>2, <2>1, <3>2, <3>3, <3>4
  <2> QED BY <1>0, <2>2, <2>3 DEF GuestBytes, DiffersIn, Finds
<1> QED BY <1>3, <1>4

\* The same for write_virtual_addr, wherever the buffer's pages are; it may
\* fail, but changes nothing besides the buffer then either.
LEMMA KernelCopy ==
    ASSUME NEW mem, Typed(mem), NEW va \in Int, NEW source, NEW n \in Nat, AreBytes(source, n),
           n <= PAGE_SIZE * VA_PAGES, NEW w, w = WriteVirtualAddr(pt, mem, va, source)
    PROVE  /\ Typed(w.ram)
           /\ DiffersIn(w.ram, mem, va, n)
           /\ w.ok => \A k \in 0 .. n : Finds(w.ram, va, k, source)
<1>0. PICK B : source \in Seq(B) /\ Len(source) = n /\ \A i \in 1 .. n : IsByte(source[i])
  BY DEF AreBytes
<1>1. IsWritten(pt, mem, va, source, n, w)
  BY <1>0, PtType, WriteIsGuestWrite
<1>2. (n - n) + 1 .. n = 1 .. n
  OBVIOUS
<1>3. \A x : \/ Stored(w.ram, x) = Stored(mem, x)
             \/ \E j \in 1 .. n : x = PhysOf(pt, va, j) /\ Stored(w.ram, x) = source[j]
  BY <1>0, <1>1, <1>2 DEF IsWritten
<1>4. Typed(w.ram)
  <2>2. \A x : IsByte(Stored(mem, x))
    BY TypedStored
  <2>3. \A x : IsByte(Stored(w.ram, x))
    BY <1>0, <1>3, <2>2
  <2> QED BY <2>3, TypedStored
<1>5. ASSUME NEW x, Stored(w.ram, x) # Stored(mem, x)
      PROVE  \E i \in 0 .. n - 1 : x = GetPhysAddr(pt, va + i)
  <2>1. PICK j \in 1 .. n : x = PhysOf(pt, va, j)
    BY <1>3, <1>5
  <2>2. j - 1 \in 0 .. n - 1 /\ x = GetPhysAddr(pt, va + (j - 1))
    BY <2>1 DEF PhysOf
  <2> QED BY <2>2
<1>6. ASSUME w.ok, NEW k \in 0 .. n
      PROVE  GuestBytes(pt, w.ram, va, k) = [i \in 1 .. k |-> source[i]]
  <2>1. \A i \in 1 .. Len(source) : Stored(w.ram, GetPhysAddr(pt, va + (i - 1))) = source[i]
    BY <1>0, <1>6, PtType, PtApart, WrittenArrives
  <2>2. \A i \in 1 .. k : Stored(w.ram, GetPhysAddr(pt, va + i - 1)) = source[i]
    <3> SUFFICES ASSUME NEW i \in 1 .. k
                 PROVE  Stored(w.ram, GetPhysAddr(pt, va + i - 1)) = source[i]
      OBVIOUS
    <3>1. va + i - 1 = va + (i - 1) /\ i \in 1 .. Len(source)
      BY <1>0
    <3> QED BY <2>1, <3>1
  <2> QED BY <2>2 DEF GuestBytes
<1> QED BY <1>4, <1>5, <1>6 DEF DiffersIn, Finds

-----------------------------------------------------------------------------
(* Control: dispatch and gs. *)

\* Where the machine is and what the registers hold: at the hlt of a stub they
\* are those of a call that was really made, with its place in the table.
Control ==
    /\ at \in {"kernel", "user", "hlt", "returned", "exited"}
    /\ at = "hlt" => /\ asked \in Made
                     /\ regs.rax = StubNumber(asked.name) /\ regs.args = asked.args
                     /\ regs.from \in {"kernel", "user"}
                     /\ effect = NoEffect

\* A stub leads to such a state.
LEMMA StubStep ==
    ASSUME NEW name, NEW args, NEW from \in {"kernel", "user"}, Stub(name, args, from),
           [name |-> name, args |-> args] \in Made
    PROVE  Control' /\ at' = "hlt"
<1>1. /\ asked' = [name |-> name, args |-> args]
      /\ regs' = [rax |-> StubNumber(name), args |-> args, from |-> from]
      /\ at' = "hlt" /\ effect' = NoEffect
  BY DEF Stub
<1>2. /\ regs'.rax = StubNumber(name) /\ regs'.args = args /\ regs'.from = from
      /\ asked'.name = name /\ asked'.args = args
  BY <1>1
<1> QED BY <1>1, <1>2 DEF Control

\* The way back restores gs for whoever called, kernel or program.
LEMMA ReturnStep ==
    ASSUME Control, GsKept, at = "hlt", NEW v, Return(v)
    PROVE  /\ Control' /\ GsKept' /\ asked' = asked /\ result' = v
           /\ at' \in {"kernel", "user"}
<1>1. regs.from \in {"kernel", "user"}
  BY DEF Control
<1>2. at' = regs.from /\ asked' = asked /\ result' = v /\ set_gs' = set_gs
  BY DEF Return
<1>3. gs = CPU_INFO /\ kernel_gs = set_gs
  BY DEF GsKept
<1>4. GsKept'
  <2>1. CASE regs.from = "user"
    <3>1. gs' = kernel_gs /\ kernel_gs' = gs
      BY <2>1 DEF Return, Swapgs
    <3> QED BY <1>2, <1>3, <2>1, <3>1 DEF GsKept, CPU_INFO
  <2>2. CASE regs.from # "user"
    <3>1. gs' = gs /\ kernel_gs' = kernel_gs
      BY <2>2 DEF Return
    <3> QED BY <1>1, <1>2, <1>3, <2>2, <3>1 DEF GsKept, CPU_INFO
  <2> QED BY <2>1, <2>2
<1> QED BY <1>1, <1>2, <1>4 DEF Control

\* A machine that stopped promises nothing.
LEMMA Stopped ==
    ASSUME at' \in {"returned", "exited"}
    PROVE  Control' /\ GsKept'
BY DEF Control, GsKept

\* Every handler keeps the control state and gs.
LEMMA HostControl ==
    ASSUME Control, GsKept, Host
    PROVE  Control' /\ GsKept'
<1>1. CASE UnmappedPointer
  BY <1>1, Stopped DEF UnmappedPointer
<1>2. CASE AppWrite
  BY <1>2, ReturnStep DEF AppWrite, Handles, Wrote
<1>3. CASE KernelWrite
  BY <1>3, ReturnStep DEF KernelWrite, Handles, Wrote, Fails
<1>4. CASE AppRead
  BY <1>4, ReturnStep DEF AppRead, Handles
<1>5. CASE KernelRead
  BY <1>5, ReturnStep DEF KernelRead, Handles
<1>6. CASE AppName
  BY <1>6, ReturnStep DEF AppName, Handles, Named
<1>7. CASE KernelOpen
  BY <1>7, ReturnStep DEF KernelOpen, Handles, Named, Fails
<1>8. CASE AppPlain
  BY <1>8, ReturnStep DEF AppPlain, Handles
<1>9. CASE AppStat
  BY <1>9, ReturnStep DEF AppStat, Handles
<1>10. CASE KernelStat
  BY <1>10, ReturnStep DEF KernelStat, Handles, KernelStats, Fails
<1>11. CASE KernelFstat
  BY <1>11, ReturnStep DEF KernelFstat, Handles, KernelStats
<1>12. CASE Writev
  BY <1>12, ReturnStep DEF Writev, Handles, Wrote
<1>13. CASE KernelExit
  BY <1>13, Stopped DEF KernelExit
<1> QED BY <1>1, <1>2, <1>3, <1>4, <1>5, <1>6, <1>7, <1>8, <1>9, <1>10, <1>11, <1>12, <1>13
        DEF Host

\* So does every step: system calls swap gs in and out in pairs.
LEMMA ControlNext ==
    ASSUME Control, GsKept, [Next]_vars
    PROVE  Control' /\ GsKept'
<1>1. CASE UNCHANGED vars
  BY <1>1 DEF vars, hostside, machine, Control, GsKept
<1>2. CASE KernelCall
  <2>1. PICK c \in KernelCalls : Stub(c[1], c[2], "kernel")
    BY <1>2 DEF KernelCall
  <2>2. [name |-> c[1], args |-> c[2]] \in Made
    BY DEF Made
  <2>3. Control' /\ at' = "hlt"
    BY <2>1, <2>2, StubStep
  <2>4. GsKept'
    BY <1>2, <2>3 DEF KernelCall, machine, GsKept
  <2> QED BY <2>3, <2>4
<1>3. CASE SwitchUserLand
  BY <1>3 DEF SwitchUserLand, Swapgs, Control, GsKept
<1>4. CASE SyscallBail \/ SyscallNull \/ SyscallIoctl
  BY <1>4 DEF SyscallBail, SyscallNull, SyscallIoctl, Called, Answer, machine, Control, GsKept
<1>5. CASE ArchPrctlSetGs
  BY <1>5 DEF ArchPrctlSetGs, Called, Answer, Control, GsKept
<1>6. CASE ArchPrctl
  BY <1>6 DEF ArchPrctl, Called, Answer, Control, GsKept
<1>7. CASE SyscallForward
  <2>1. PICK s \in Syscalls : /\ Called /\ s[1] \in DOMAIN Forward
                              /\ Swapgs /\ Stub(Forward[s[1]], s[2], "user")
                              /\ set_gs' = set_gs
    BY <1>7 DEF SyscallForward
  <2>2. [name |-> Forward[s[1]], args |-> s[2]] \in Made
    BY <2>1 DEF Made
  <2>3. Control' /\ at' = "hlt"
    BY <2>1, <2>2, StubStep
  <2>4. GsKept'
    BY <2>1, <2>3 DEF Called, Swapgs, GsKept
  <2> QED BY <2>3, <2>4
<1>8. CASE Interrupted \/ GuestStops
  BY <1>8, Stopped DEF Interrupted, GuestStops
<1>9. CASE Host
  BY <1>9, HostControl
<1> QED BY <1>1, <1>2, <1>3, <1>4, <1>5, <1>6, <1>7, <1>8, <1>9 DEF Next

\* The control state is right in every state (syscall_entry, host.S, run).
THEOREM ControlAlways == Spec => [](Control /\ GsKept)
<1>1. Init => Control /\ GsKept
  BY DEF Init, Control, GsKept, CPU_INFO
<1>2. Control /\ GsKept /\ [Next]_vars => Control' /\ GsKept'
  BY ControlNext
<1> QED BY <1>1, <1>2, PTL DEF Spec

\* Behind gs the kernel always finds its cpu_info and the program what it last
\* set with arch_prctl, for every sequence of calls (syscall_entry,
\* switch_user_land, syscall_arch_prctl).
THEOREM KernelKeepsGs == Spec => []GsKept
BY ControlAlways, PTL

\* Every stub reaches the handler of its name, also the one host.S writes out
\* behind the others (host.S, hostcall_table).
THEOREM StubsReachHandlers == Spec => []CallsReachHandlers
<1>1. Control => CallsReachHandlers
  <2> SUFFICES ASSUME Control, at = "hlt" PROVE handler.name = asked.name
    BY DEF CallsReachHandlers
  <2>1. asked \in Made /\ regs.rax = StubNumber(asked.name)
    BY DEF Control
  <2>2. \E i \in DOMAIN HostCalls : HostCalls[i].name = asked.name
    BY <2>1, CallsAssumption
  <2>3. Handler(StubNumber(asked.name)).name = asked.name
    BY <2>2, StubPlace
  <2> QED BY <2>1, <2>3 DEF handler
<1> QED BY <1>1, ControlAlways, PTL

-----------------------------------------------------------------------------
(* Output. *)

\* The handler that runs is that of the call made, with its arguments.
LEMMA Dispatched ==
    ASSUME Control, NEW name, Handles(name)
    PROVE  /\ at = "hlt" /\ asked \in Made /\ asked.name = name /\ handler.name = name
           /\ \A i : Arg(i) = asked.args[i]
           /\ effect = NoEffect
           /\ \A i \in handler.pointers : VmaFind(Arg(i)) # {}
<1>1. /\ at = "hlt" /\ handler.name = name
      /\ \A i \in handler.pointers : VmaFind(Arg(i)) # {}
  BY DEF Handles
<1>2. /\ asked \in Made /\ regs.rax = StubNumber(asked.name) /\ regs.args = asked.args
      /\ effect = NoEffect
  BY <1>1 DEF Control
<1>3. handler.name = asked.name
  <2>1. \E i \in DOMAIN HostCalls : HostCalls[i].name = asked.name
    BY <1>2, CallsAssumption
  <2>2. Handler(StubNumber(asked.name)).name = asked.name
    BY <2>1, StubPlace
  <2> QED BY <1>2, <2>2 DEF handler
<1> QED BY <1>1, <1>2, <1>3 DEF Arg

\* The arguments the host translates, from hostcall_arg_table.
LEMMA PointersOf ==
    ASSUME NEW number
    PROVE  LET d == Handler(number) IN
             number + 1 \in 1 .. 27 =>
             /\ d.name \in {"write", "read", "fstat", "openat"} => 2 \in d.pointers
             /\ d.name \in {"open", "access", "uname"} => 1 \in d.pointers
             /\ d.name = "stat" => 1 \in d.pointers /\ 2 \in d.pointers
BY DEF Handler, HostCalls, Def, Custom

\* A handler runs only when vma_find found an area for its pointers.
LEMMA PointerFound ==
    ASSUME Control, NEW name, Handles(name)
    PROVE  /\ name \in {"write", "read", "fstat", "openat", "stat"} => VmaFind(asked.args[2]) # {}
           /\ name \in {"open", "access", "uname", "stat"} => VmaFind(asked.args[1]) # {}
<1>1. /\ at = "hlt" /\ asked \in Made /\ asked.name = name /\ handler.name = name
      /\ \A i : Arg(i) = asked.args[i]
      /\ \A i \in handler.pointers : VmaFind(Arg(i)) # {}
  BY Dispatched
<1>3. regs.rax + 1 \in 1 .. 27
  <2>1. \E i \in DOMAIN HostCalls : HostCalls[i].name = asked.name
    BY <1>1, CallsAssumption
  <2>2. StubNumber(asked.name) + 1 \in 1 .. 27
    BY <2>1, StubPlace
  <2> QED BY <1>1, <2>2 DEF Control
<1>4. /\ name \in {"write", "read", "fstat", "openat", "stat"} => 2 \in handler.pointers
      /\ name \in {"open", "access", "uname", "stat"} => 1 \in handler.pointers
  BY <1>1, <1>3, PointersOf DEF handler
<1> QED BY <1>1, <1>4

\* write hands over the caller's bytes when they lie in one area.
LEMMA AppWriteOutput ==
    ASSUME Control, AppWrite
    PROVE  OutputIsCallers'
<1>1. /\ at = "hlt" /\ asked \in Made /\ asked.name = "write"
      /\ \A i : Arg(i) = asked.args[i]
  BY Dispatched DEF AppWrite
<1>2. PICK va \in Nat, n \in Nat : va = asked.args[2] /\ n = asked.args[3]
  BY <1>1, CallsAssumption
<1>3. /\ effect'.bytes = Linear(VmPtr(va), n) /\ ram' = ram /\ asked' = asked
  <2>1. Wrote(Linear(VmPtr(va), n))
    BY <1>1, <1>2 DEF AppWrite
  <2> QED BY <2>1 DEF Wrote, Return
<1>4. ASSUME OneArea(va, n) PROVE Linear(VmPtr(va), n) = GuestBytes(pt, ram, va, n)
  <2>1. \A i \in 1 .. n : VmPtr(va) + i - 1 = GetPhysAddr(pt, va + i - 1)
    <3> SUFFICES ASSUME NEW i \in 1 .. n
                 PROVE  VmPtr(va) + i - 1 = GetPhysAddr(pt, va + i - 1)
      OBVIOUS
    <3>1. PICK j \in 0 .. n - 1 : j = i - 1
      OBVIOUS
    <3>2. va \in Int /\ n \in Int
      OBVIOUS
    <3>3. VmPtr(va) + j = GetPhysAddr(pt, va + j) /\ VmPtr(va) \in Int
      BY <1>4, <3>2, AreaLinear
    <3> QED BY <3>1, <3>3
  <2> QED BY <2>1 DEF Linear, GuestBytes
<1> QED BY <1>1, <1>2, <1>3, <1>4 DEF OutputIsCallers

\* kernel_write hands over the caller's bytes, or none if a page is missing.
LEMMA KernelWriteOutput ==
    ASSUME Control, KernelWrite
    PROVE  OutputIsCallers'
<1>1. /\ at = "hlt" /\ asked \in Made /\ asked.name = "kernel_write"
      /\ \A i : Arg(i) = asked.args[i] /\ effect = NoEffect
  BY Dispatched DEF KernelWrite
<1>2. PICK va \in Nat, n \in Nat : va = asked.args[2] /\ n = asked.args[3]
  BY <1>1, CallsAssumption
<1>3. PICK r : /\ r = ReadVirtualAddr(pt, ram, va, n)
               /\ \/ r.ok /\ Wrote(r.bytes)
                  \/ ~r.ok /\ Fails
  <2>1. Arg(2) = va /\ Arg(3) = n
    BY <1>1, <1>2
  <2>2. \E r \in {ReadVirtualAddr(pt, ram, va, n)} :
           \/ r.ok /\ Wrote(r.bytes)
           \/ ~r.ok /\ Fails
    BY <2>1, Zenon DEF KernelWrite
  <2> QED BY <2>2, Zenon
<1>4. IsRead(pt, ram, va, n, r)
  <2>1. va \in Int
    OBVIOUS
  <2> QED BY <1>3, <2>1, PtType, ReadIsGuestBytes
<1>5. CASE Mapped(pt, va, n)
  <2>1. r.ok = TRUE /\ r.bytes = GuestBytes(pt, ram, va, n)
    BY <1>4, <1>5 DEF IsRead
  <2>2. Wrote(r.bytes)
    BY <1>3, <2>1
  <2>3. /\ effect'.call = "write" /\ effect'.bytes = r.bytes /\ ram' = ram /\ asked' = asked
    BY <2>2 DEF Wrote, Return
  <2> QED BY <1>1, <1>2, <1>5, <2>1, <2>3 DEF OutputIsCallers
<1>6. CASE ~Mapped(pt, va, n)
  <2>1. r.ok = FALSE
    BY <1>4, <1>6 DEF IsRead
  <2>2. Fails
    BY <1>3, <2>1
  <2>3. effect' = NoEffect /\ ram' = ram /\ asked' = asked
    BY <1>1, <2>2 DEF Fails, Return, hostside
  <2>4. effect'.call # "write"
    BY <2>3 DEF NoEffect
  <2> QED BY <1>1, <1>2, <1>6, <2>3, <2>4 DEF OutputIsCallers
<1> QED BY <1>5, <1>6

\* writev hands over the bytes of all vectors in order, or none.
LEMMA WritevOutput ==
    ASSUME Control, Typed(ram), Writev
    PROVE  OutputIsCallers'
<1>1. /\ at = "hlt" /\ asked \in Made /\ asked.name = "writev"
      /\ \A i : Arg(i) = asked.args[i] /\ effect = NoEffect
  BY Dispatched DEF Writev
<1>2. PICK va \in Int, n \in Int : va = asked.args[2] /\ n = asked.args[3]
  BY <1>1, CallsAssumption
<1>3. CASE n < 0
  <2>1. asked' = asked
    BY <1>1 DEF Writev, Wrote, Return
  <2> QED BY <1>1, <1>2, <1>3, <2>1 DEF OutputIsCallers
<1>4. CASE n >= 0
  <2>1. PICK v, bufs :
          /\ v = ReadVirtualAddr(pt, ram, va, n)
          /\ bufs = Buffers(v.bytes)
          /\ \/ /\ ~v.ok \/ {i \in DOMAIN bufs : ~bufs[i].ok} # {}
                /\ Return(-EFAULT) /\ UNCHANGED hostside
             \/ /\ v.ok /\ {i \in DOMAIN bufs : ~bufs[i].ok} = {}
                /\ Wrote(FlattenSeq([i \in DOMAIN bufs |-> bufs[i].bytes]))
    <3>1. Arg(2) = va /\ Arg(3) = n /\ ~(n < 0)
      BY <1>1, <1>2, <1>4
    <3>2. PICK v \in {ReadVirtualAddr(pt, ram, Arg(2), IF Arg(3) < 0 THEN 0 ELSE Arg(3))} :
            \E bufs \in {Buffers(v.bytes)} :
              \/ /\ Arg(3) < 0 /\ Return(-EINVAL) /\ UNCHANGED hostside
              \/ /\ Arg(3) >= 0 /\ (~v.ok \/ {i \in DOMAIN bufs : ~bufs[i].ok} # {})
                 /\ Return(-EFAULT) /\ UNCHANGED hostside
              \/ /\ Arg(3) >= 0 /\ v.ok /\ {i \in DOMAIN bufs : ~bufs[i].ok} = {}
                 /\ Wrote(FlattenSeq([i \in DOMAIN bufs |-> bufs[i].bytes]))
      BY Zenon DEF Writev
    <3>3. v = ReadVirtualAddr(pt, ram, va, n)
      BY <3>1
    <3> QED BY <3>1, <3>2, <3>3, Zenon
  <2>2. n \in Nat
    BY <1>4
  <2>3. IsRead(pt, ram, va, n, v)
    BY <2>1, <2>2, PtType, ReadIsGuestBytes
  <2> DEFINE vecs == GuestBytes(pt, ram, va, n)
             whole == Mapped(pt, va, n)
             good == \A i \in 1 .. n : Mapped(pt, Base(vecs[i]), IovLen(vecs[i]))
  <2>4. whole => v.ok = TRUE /\ v.bytes = vecs
    BY <2>3 DEF IsRead
  <2>5. ~whole => v.ok = FALSE
    BY <2>3 DEF IsRead
  <2>6. ASSUME whole
        PROVE  /\ DOMAIN bufs = 1 .. n
               /\ \A i \in 1 .. n : IsRead(pt, ram, Base(vecs[i]), IovLen(vecs[i]), bufs[i])
    <3>1. DOMAIN vecs = 1 .. n
      BY DEF GuestBytes
    <3>2. bufs = [i \in 1 .. n |-> ReadVirtualAddr(pt, ram, Base(vecs[i]), IovLen(vecs[i]))]
      BY <2>1, <2>4, <2>6, <3>1 DEF Buffers
    <3>3. ASSUME NEW i \in 1 .. n
          PROVE  IsRead(pt, ram, Base(vecs[i]), IovLen(vecs[i]), bufs[i])
      <4>1. IsByte(vecs[i])
        BY TypedStored DEF GuestBytes
      <4>2. PICK b \in Int, l \in Nat : b = Base(vecs[i]) /\ l = IovLen(vecs[i])
        BY <4>1 DEF IsByte, Base, IovLen
      <4>3. bufs[i] = ReadVirtualAddr(pt, ram, b, l)
        BY <3>2, <4>2
      <4>4. IsRead(pt, ram, b, l, bufs[i])
        BY <4>3, PtType, ReadIsGuestBytes
      <4> QED BY <4>2, <4>4
    <3> QED BY <3>2, <3>3
  <2>7. CASE whole /\ good
    <3>1. \A i \in 1 .. n : bufs[i] = [ok |-> TRUE, bytes |->
                                GuestBytes(pt, ram, Base(vecs[i]), IovLen(vecs[i]))]
      BY <2>6, <2>7 DEF IsRead
    <3>2. {i \in DOMAIN bufs : ~bufs[i].ok} = {}
      BY <2>6, <2>7, <3>1
    <3>3. Wrote(FlattenSeq([i \in DOMAIN bufs |-> bufs[i].bytes]))
      BY <2>1, <2>4, <2>7, <3>2
    <3>4. [i \in DOMAIN bufs |-> bufs[i].bytes] =
            [i \in 1 .. n |-> GuestBytes(pt, ram, Base(vecs[i]), IovLen(vecs[i]))]
      BY <2>6, <2>7, <3>1
    <3>5. /\ effect'.call = "write" /\ ram' = ram /\ asked' = asked
          /\ effect'.bytes = FlattenSeq([i \in 1 .. n |->
                                GuestBytes(pt, ram, Base(vecs[i]), IovLen(vecs[i]))])
      BY <3>3, <3>4 DEF Wrote, Return
    <3> QED BY <1>1, <1>2, <2>7, <3>5 DEF OutputIsCallers
  <2>8. CASE ~(whole /\ good)
    <3>1. ~v.ok \/ {i \in DOMAIN bufs : ~bufs[i].ok} # {}
      <4>1. CASE ~whole
        BY <2>5, <4>1
      <4>2. CASE whole /\ ~good
        <5>1. PICK i \in 1 .. n : ~Mapped(pt, Base(vecs[i]), IovLen(vecs[i]))
          BY <4>2
        <5>2. i \in DOMAIN bufs /\ bufs[i].ok = FALSE
          BY <2>6, <4>2, <5>1 DEF IsRead
        <5> QED BY <5>2
      <4> QED BY <2>8, <4>1, <4>2
    <3>2. effect' = NoEffect /\ ram' = ram /\ asked' = asked
      BY <1>1, <2>1, <3>1 DEF Return, hostside
    <3>3. effect'.call # "write"
      BY <3>2 DEF NoEffect
    <3> QED BY <1>1, <1>2, <2>8, <3>2, <3>3 DEF OutputIsCallers
  <2> QED BY <2>7, <2>8
<1> QED BY <1>3, <1>4

-----------------------------------------------------------------------------
(* Input. *)

\* What the host's read left in its buffer.
LEMMA IncomingFacts ==
    ASSUME stream \in Nat, NEW n \in Int, NEW count \in Nat
    PROVE  /\ AreBytes(Incoming(n, count), count)
           /\ \A i \in 1 .. count : i <= n => Incoming(n, count)[i] = Input(stream + i)
<1> DEFINE s == Incoming(n, count)
           B == {s[i] : i \in 1 .. count}
<1>1. s = [i \in 1 .. count |-> IF i <= n THEN Input(stream + i) ELSE Junk]
  BY DEF Incoming
<1>2. DOMAIN s = 1 .. count /\ \A i \in 1 .. count :
          s[i] = IF i <= n THEN Input(stream + i) ELSE Junk
  BY <1>1
<1>3. s = [i \in 1 .. count |-> s[i]]
  BY <1>1
<1> HIDE DEF s
<1>4. s \in Seq(B)
  BY <1>3
<1>5. Len(s) = count
  BY <1>2, <1>4
<1>6. ASSUME NEW i \in 1 .. count
      PROVE  IsByte(s[i]) /\ (i <= n => s[i] = Input(stream + i))
  <2>1. IsByte(Junk) /\ IsByte(Input(stream + i))
    BY DEF IsByte, Junk, Input
  <2> QED BY <1>2, <2>1
<1> QED BY <1>4, <1>5, <1>6 DEF s, AreBytes

\* What the host's stat left in its structure.
LEMMA StatsFacts ==
    ASSUME NEW r
    PROVE  /\ AreBytes(Stats(r), STAT_SIZE)
           /\ r = 0 => \A i \in 1 .. STAT_SIZE : Stats(r)[i] = StatByte(i)
<1> DEFINE s == Stats(r)
           B == {s[i] : i \in 1 .. STAT_SIZE}
<1>0. STAT_SIZE \in Nat
  BY MemoryAssumption
<1>1. s = [i \in 1 .. STAT_SIZE |-> IF r = 0 THEN StatByte(i) ELSE Junk]
  BY DEF Stats
<1>2. DOMAIN s = 1 .. STAT_SIZE /\ \A i \in 1 .. STAT_SIZE :
          s[i] = IF r = 0 THEN StatByte(i) ELSE Junk
  BY <1>1
<1>3. s = [i \in 1 .. STAT_SIZE |-> s[i]]
  BY <1>1
<1> HIDE DEF s
<1>4. s \in Seq(B)
  BY <1>0, <1>3
<1>5. Len(s) = STAT_SIZE
  BY <1>0, <1>2, <1>4
<1>6. \A i \in 1 .. STAT_SIZE : IsByte(Junk) /\ IsByte(StatByte(i))
  BY <1>0 DEF IsByte, Junk, StatByte
<1> QED BY <1>2, <1>4, <1>5, <1>6 DEF s, AreBytes

\* BufferOnly of one step.
OnlyBuffer ==
    ram' # ram /\ (FromArea(asked) => OneArea(Buffer(asked), Filled(asked))) =>
      \A a \in DOMAIN ram' :
        Stored(ram', a) # Stored(ram, a) =>
          \E i \in 0 .. Filled(asked) - 1 : a = GetPhysAddr(pt, Buffer(asked) + i)

\* read puts the input into the caller's buffer.
LEMMA AppReadInput ==
    ASSUME Control, Typed(ram), stream \in Nat, AppRead
    PROVE  InputArrives' /\ Typed(ram)' /\ stream' \in Nat /\ OnlyBuffer
<1>1. /\ at = "hlt" /\ asked \in Made /\ asked.name = "read"
      /\ \A i : Arg(i) = asked.args[i]
  BY Dispatched DEF AppRead
<1>2. PICK va \in Int, c \in Int : va = asked.args[2] /\ c = asked.args[3] /\ c \in Nat
  BY <1>1, CallsAssumption
<1>3. Buffer(asked) = va /\ Filled(asked) = c /\ FromArea(asked)
  BY <1>1, <1>2 DEF Buffer, Filled, FromArea
<1>4. Arg(2) = va /\ Arg(3) = c
  BY <1>1, <1>2
<1>5. PICK n \in Int :
        /\ n \in Answers(c)
        /\ ram' = IF n > 0 THEN Store(ram, VmPtr(va), Incoming(n, n)) ELSE ram
        /\ stream' = stream + (IF n > 0 THEN n ELSE 0)
        /\ effect' = [call |-> "read", done |-> n, ok |-> TRUE]
        /\ Return(n)
  <2>1. Answers(c) \subseteq Int
    BY DEF Answers
  <2> QED BY <1>4, <2>1, Zenon DEF AppRead
<1>6. n \in Int /\ n <= c /\ asked' = asked /\ result' = n /\ effect'.call = "read"
  BY <1>2, <1>5 DEF Answers, Return
<1>7. VmPtr(va) \in Int
  <2>1. VmaFind(va) # {} /\ va \in Int
    BY <1>2, PointerFound DEF AppRead
  <2> QED BY <2>1, VmPtrType
<1>8. CASE n > 0
  <2>1. PICK m : m = Incoming(n, n)
    OBVIOUS
  <2>2. PICK k \in Nat : k = n
    BY <1>6, <1>8
  <2>3. /\ AreBytes(m, k)
        /\ \A i \in 1 .. k : i <= n => m[i] = Input(stream + i)
    BY <2>1, <2>2, IncomingFacts
  <2>5. ram' = Store(ram, VmPtr(va), m) /\ stream' = stream + n
    BY <1>5, <1>8, <2>1
  <2>6. Typed(ram')
    BY <1>7, <2>3, <2>5, StoreTyped
  <2>7. ASSUME OneArea(va, c)
        PROVE  DiffersIn(ram', ram, va, c) /\ Finds(ram', va, k, m)
    <3>1. k <= c
      BY <1>6, <2>2
    <3>2. /\ DiffersIn(Store(ram, VmPtr(va), m), ram, va, c)
          /\ Finds(Store(ram, VmPtr(va), m), va, k, m)
      BY <1>7, <2>3, <2>7, <3>1, StoreInArea
    <3> QED BY <2>5, <3>2
  <2>8. [i \in 1 .. k |-> m[i]] = [i \in 1 .. k |-> Input(stream' - n + i)]
    <3>1. \A i \in 1 .. k : m[i] = Input(stream' - n + i)
      <4> SUFFICES ASSUME NEW i \in 1 .. k PROVE m[i] = Input(stream' - n + i)
        OBVIOUS
      <4>1. stream' - n + i = stream + i /\ i <= n
        BY <2>2, <2>5
      <4> QED BY <2>3, <4>1
    <3> QED BY <3>1
  <2>9. OnlyBuffer
    BY <1>3, <2>7 DEF OnlyBuffer, DiffersIn
  <2>10. InputArrives'
    <3>1. Buffer(asked)' = va /\ Filled(asked)' = c /\ FromArea(asked)'
      BY <1>3, <1>6 DEF Buffer, Filled, FromArea
    <3>2. OneArea(va, c) => GuestBytes(pt, ram', va, n) =
                              [i \in 1 .. n |-> Input(stream' - n + i)]
      BY <2>2, <2>7, <2>8 DEF Finds
    <3> QED BY <1>6, <3>1, <3>2 DEF InputArrives, OneArea
  <2>11. stream' \in Nat
    BY <2>2, <2>5
  <2> QED BY <2>6, <2>9, <2>10, <2>11
<1>9. CASE ~(n > 0)
  <2>1. ram' = ram /\ stream' = stream
    BY <1>5, <1>9
  <2>2. InputArrives'
    <3>1. CASE n = 0
      <4>1. Buffer(asked)' = va /\ GuestBytes(pt, ram', va, n) =
                [i \in 1 .. n |-> Input(stream' - n + i)]
        BY <1>3, <1>6, <3>1 DEF Buffer, GuestBytes
      <4> QED BY <1>6, <4>1 DEF InputArrives
    <3>2. CASE n < 0
      BY <1>6, <3>2 DEF InputArrives
    <3> QED BY <1>6, <1>9, <3>1, <3>2
  <2> QED BY <2>1, <2>2 DEF OnlyBuffer, Typed
<1> QED BY <1>8, <1>9

\* kernel_read too, though it copies its whole buffer after a short read.
LEMMA KernelReadInput ==
    ASSUME Control, Typed(ram), stream \in Nat, KernelRead
    PROVE  InputArrives' /\ Typed(ram)' /\ stream' \in Nat /\ OnlyBuffer
<1>1. /\ at = "hlt" /\ asked \in Made /\ asked.name = "kernel_read"
      /\ \A i : Arg(i) = asked.args[i]
  BY Dispatched DEF KernelRead
<1>2. PICK va \in Int, c \in Nat :
        va = asked.args[2] /\ c = asked.args[3] /\ c <= PAGE_SIZE * VA_PAGES
  BY <1>1, CallsAssumption
<1>3. Buffer(asked) = va /\ Filled(asked) = c
  BY <1>1, <1>2 DEF Buffer, Filled
<1>4. Arg(2) = va /\ Arg(3) = c
  BY <1>1, <1>2
<1>5. PICK n \in Int :
        /\ n \in Answers(c)
        /\ \E w \in {WriteVirtualAddr(pt, ram, va, Incoming(n, c))} :
             /\ ram' = w.ram
             /\ stream' = stream + (IF n > 0 THEN n ELSE 0)
             /\ effect' = [call |-> "read", done |-> n, ok |-> w.ok]
             /\ Return(IF w.ok THEN n ELSE -1)
  <2>1. Answers(c) \subseteq Int
    BY DEF Answers
  <2> QED BY <1>4, <2>1, Zenon DEF KernelRead
<1>6. PICK w : /\ w = WriteVirtualAddr(pt, ram, va, Incoming(n, c))
               /\ ram' = w.ram
               /\ stream' = stream + (IF n > 0 THEN n ELSE 0)
               /\ effect' = [call |-> "read", done |-> n, ok |-> w.ok]
               /\ Return(IF w.ok THEN n ELSE -1)
  BY <1>5, Zenon
<1>7. n \in -1 .. c /\ asked' = asked /\ result' = (IF w.ok THEN n ELSE -1) /\ effect'.call = "read"
  BY <1>5, <1>6 DEF Answers, Return
<1>8. PICK s : s = Incoming(n, c)
  OBVIOUS
<1>9. AreBytes(s, c) /\ \A i \in 1 .. c : i <= n => s[i] = Input(stream + i)
  BY <1>8, IncomingFacts
<1>11. /\ Typed(w.ram)
       /\ DiffersIn(w.ram, ram, va, c)
       /\ w.ok => \A k \in 0 .. c : Finds(w.ram, va, k, s)
  <2>1. w = WriteVirtualAddr(pt, ram, va, s)
    BY <1>6, <1>8
  <2> QED BY <1>2, <1>9, <2>1, KernelCopy
<1>12. OnlyBuffer
  BY <1>3, <1>6, <1>11 DEF OnlyBuffer, DiffersIn
<1>13. InputArrives'
  <2> SUFFICES ASSUME result' >= 0
               PROVE  GuestBytes(pt, ram', va, result') =
                        [i \in 1 .. result' |-> Input(stream' - result' + i)]
    <3>1. Buffer(asked)' = va
      BY <1>3, <1>7 DEF Buffer
    <3> QED BY <1>7, <3>1 DEF InputArrives
  <2>1. w.ok /\ result' = n /\ n \in 0 .. c
    BY <1>7
  <2>2. GuestBytes(pt, w.ram, va, n) = [i \in 1 .. n |-> s[i]]
    BY <1>11, <2>1 DEF Finds
  <2>3. \A i \in 1 .. n : s[i] = Input(stream' - n + i)
    <3> SUFFICES ASSUME NEW i \in 1 .. n PROVE s[i] = Input(stream' - n + i)
      OBVIOUS
    <3>1. i \in 1 .. c /\ i <= n
      BY <2>1
    <3>2. stream' - n + i = stream + i
      BY <1>6, <2>1
    <3> QED BY <1>9, <3>1, <3>2
  <2> QED BY <1>6, <2>1, <2>2, <2>3
<1>14. stream' \in Nat
  BY <1>6, <1>7
<1> QED BY <1>6, <1>11, <1>12, <1>13, <1>14 DEF Typed

\* stat, fstat and uname fill the caller's structure.
LEMMA AppStatInput ==
    ASSUME Control, Typed(ram), stream \in Nat, AppStat
    PROVE  InputArrives' /\ Typed(ram)' /\ stream' \in Nat /\ OnlyBuffer
<1>1. PICK name \in {"stat", "fstat", "uname"} : Handles(name)
  BY DEF AppStat
<1>2. /\ at = "hlt" /\ asked \in Made /\ asked.name = name /\ handler.name = name
      /\ \A i : Arg(i) = asked.args[i]
  BY <1>1, Dispatched
<1>3. PICK va \in Int : /\ va = asked.args[IF name = "uname" THEN 1 ELSE 2]
                        /\ VmaFind(va) # {}
  <2>1. VmaFind(asked.args[IF name = "uname" THEN 1 ELSE 2]) # {}
    BY <1>1, PointerFound
  <2>2. asked.args[IF name = "uname" THEN 1 ELSE 2] \in Int
    BY <1>2, CallsAssumption
  <2> QED BY <2>1, <2>2
<1>4. Buffer(asked) = va /\ Filled(asked) = STAT_SIZE /\ FromArea(asked)
  BY <1>2, <1>3 DEF Buffer, Filled, FromArea
<1>5. PICK r \in {-1, 0} :
        /\ ram' = IF r = 0 THEN Store(ram, VmPtr(va), Stats(r)) ELSE ram
        /\ effect'.call = "stat"
        /\ Return(r) /\ stream' = stream
  <2>1. Arg(IF handler.name = "uname" THEN 1 ELSE 2) = va
    BY <1>2, <1>3
  <2> QED BY <2>1 DEF AppStat
<1>6. asked' = asked /\ result' = r
  BY <1>5 DEF Return
<1>7. VmPtr(va) \in Int
  BY <1>3, VmPtrType
<1>8. CASE r = 0
  <2>1. PICK k \in Nat : k = STAT_SIZE
    BY MemoryAssumption
  <2>9. PICK s : s = Stats(r)
    OBVIOUS
  <2>3. AreBytes(s, k) /\ \A i \in 1 .. k : s[i] = StatByte(i)
    BY <1>8, <2>1, <2>9, StatsFacts
  <2>4. PICK new : new = ram' /\ new = Store(ram, VmPtr(va), s)
    BY <1>5, <1>8, <2>9
  <2>5. Typed(new)
    BY <1>7, <2>3, <2>4, StoreTyped
  <2>6. ASSUME OneArea(va, k)
        PROVE  DiffersIn(new, ram, va, k) /\ Finds(new, va, k, s)
    <3>1. k \in Int /\ k <= k
      OBVIOUS
    <3> QED BY <1>7, <2>3, <2>4, <2>6, <3>1, StoreInArea
  <2>7. OnlyBuffer
    BY <1>4, <2>1, <2>4, <2>6 DEF OnlyBuffer, DiffersIn
  <2>8. InputArrives'
    <3>1. Buffer(asked)' = va /\ Filled(asked)' = k /\ FromArea(asked)'
      BY <1>4, <1>6, <2>1 DEF Buffer, Filled, FromArea
    <3>2. OneArea(va, k) => GuestBytes(pt, ram', va, STAT_SIZE) =
                              [i \in 1 .. STAT_SIZE |-> StatByte(i)]
      BY <2>1, <2>3, <2>4, <2>6 DEF Finds
    <3> QED BY <1>5, <3>1, <3>2 DEF InputArrives, OneArea
  <2> QED BY <1>5, <2>4, <2>5, <2>7, <2>8 DEF Typed
<1>9. CASE r = -1
  BY <1>5, <1>6, <1>9 DEF InputArrives, Typed, OnlyBuffer
<1> QED BY <1>8, <1>9

-----------------------------------------------------------------------------
(* Names. *)

\* kernel_stat and kernel_fstat do too.
LEMMA KernelStatsInput ==
    ASSUME Control, Typed(ram), stream \in Nat, NEW name, KernelStats(name),
           at = "hlt", asked.name \in {"kernel_stat", "kernel_fstat"}
    PROVE  /\ InputArrives' /\ Typed(ram)' /\ stream' \in Nat /\ OnlyBuffer
           /\ DiffersIn(ram', ram, asked.args[2], STAT_SIZE)
           /\ effect'.call = "stat" /\ effect'.bytes = name /\ asked' = asked
<1>1. asked \in Made /\ \A i : Arg(i) = asked.args[i]
  BY DEF Control, Arg
<1>2. PICK va \in Int : va = asked.args[2] /\ va = Arg(2)
  BY <1>1, CallsAssumption
<1>3. Buffer(asked) = va /\ Filled(asked) = STAT_SIZE
  BY <1>2 DEF Buffer, Filled
<1>4. PICK r \in {-1, 0} :
        \E w \in {WriteVirtualAddr(pt, ram, va, Stats(r))} :
          /\ ram' = w.ram
          /\ effect' = [call |-> "stat", done |-> r, bytes |-> name]
          /\ Return(IF w.ok THEN r ELSE -1)
          /\ UNCHANGED stream
  BY <1>2, Zenon DEF KernelStats
<1>5. PICK w : /\ w = WriteVirtualAddr(pt, ram, va, Stats(r))
               /\ ram' = w.ram
               /\ effect' = [call |-> "stat", done |-> r, bytes |-> name]
               /\ Return(IF w.ok THEN r ELSE -1)
               /\ UNCHANGED stream
  BY <1>4, Zenon
<1>6. /\ asked' = asked /\ result' = (IF w.ok THEN r ELSE -1)
      /\ effect'.call = "stat" /\ effect'.bytes = name /\ stream' = stream
  BY <1>5 DEF Return
<1>7. PICK k \in Nat : k = STAT_SIZE /\ k <= PAGE_SIZE * VA_PAGES
  <2>1. PAGE_SIZE * VA_PAGES \in Int
    BY GuestMemAssumption
  <2> QED BY <2>1, MemoryAssumption
<1>8. PICK s : s = Stats(r)
  OBVIOUS
<1>9. AreBytes(s, k) /\ (r = 0 => \A i \in 1 .. k : s[i] = StatByte(i))
  BY <1>7, <1>8, StatsFacts
<1>10. /\ Typed(w.ram)
       /\ DiffersIn(w.ram, ram, va, k)
       /\ w.ok => \A j \in 0 .. k : Finds(w.ram, va, j, s)
  <2>1. w = WriteVirtualAddr(pt, ram, va, s)
    BY <1>5, <1>8
  <2> QED BY <1>7, <1>9, <2>1, KernelCopy
<1>11. OnlyBuffer
  BY <1>3, <1>5, <1>7, <1>10 DEF OnlyBuffer, DiffersIn
<1>12. InputArrives'
  <2> SUFFICES ASSUME result' >= 0
               PROVE  GuestBytes(pt, ram', va, STAT_SIZE) = [i \in 1 .. STAT_SIZE |-> StatByte(i)]
    <3>1. Buffer(asked)' = va
      BY <1>3, <1>6 DEF Buffer
    <3> QED BY <1>6, <3>1 DEF InputArrives
  <2>1. w.ok /\ r = 0
    BY <1>6
  <2>2. k \in 0 .. k
    OBVIOUS
  <2>3. GuestBytes(pt, w.ram, va, k) = [i \in 1 .. k |-> s[i]]
    BY <1>10, <2>1, <2>2 DEF Finds
  <2> QED BY <1>5, <1>7, <1>9, <2>1, <2>3
<1> QED BY <1>2, <1>5, <1>6, <1>7, <1>10, <1>11, <1>12 DEF Typed

-----------------------------------------------------------------------------
\* A name of n bytes starts at va.
NameIn(mem, va, n) ==
    /\ Stored(mem, GetPhysAddr(pt, va + n)) = Zero
    /\ \A i \in 0 .. n - 1 : Stored(mem, GetPhysAddr(pt, va + i)) # Zero

\* A host call takes a name up to its first terminator.
LEMMA AsNameOf ==
    ASSUME NEW B, NEW bytes \in Seq(B), NEW n \in Nat, n + 1 <= Len(bytes),
           bytes[n + 1] = Zero, \A i \in 1 .. n : bytes[i] # Zero
    PROVE  AsName(bytes) = SubSeq(bytes, 1, n)
<1> DEFINE E == {i \in DOMAIN bytes : bytes[i] = Zero}
<1>1. n + 1 \in E
  OBVIOUS
<1>2. \A j \in E : j \in Nat /\ n + 1 <= j
  <2> SUFFICES ASSUME NEW j \in E, j < n + 1 PROVE FALSE
    OBVIOUS
  <2>1. j \in 1 .. n
    OBVIOUS
  <2> QED BY <2>1
<1> HIDE DEF E
<1>3. \A i \in E : (\A j \in E : i <= j) => i = n + 1
  BY <1>1, <1>2
<1>4. (CHOOSE i \in E : \A j \in E : i <= j) = n + 1
  BY <1>1, <1>2, <1>3
<1>5. AsName(bytes) = SubSeq(bytes, 1, (n + 1) - 1)
  BY <1>1, <1>4 DEF AsName, E
<1> QED BY <1>5

\* read_virtual_cstr finds a name whose terminator is not the last byte of the
\* page the name starts on.
LEMMA CstrName ==
    ASSUME NEW mem, NEW va \in Int, NEW n \in Nat, NameIn(mem, va, n),
           IsVpagePresent(pt, va), PAGE_OFFSET(va) + n + 1 < PAGE_SIZE
    PROVE  /\ ReadVirtualCstr(pt, mem, va).ok = TRUE
           /\ AsName(ReadVirtualCstr(pt, mem, va).bytes) = GuestBytes(pt, mem, va, n)
<1>1. PICK o \in Int, P \in Int, a \in Int :
        o = PAGE_OFFSET(va) /\ P = PAGE_SIZE /\ a = GetPhysAddr(pt, va) /\ o + n + 1 < P
  BY PageFacts, PtType, PhysType, GuestMemAssumption
<1>2. \A i \in 0 .. n : GetPhysAddr(pt, va + i) = a + i
  <2> SUFFICES ASSUME NEW i \in 0 .. n PROVE GetPhysAddr(pt, va + i) = a + i
    OBVIOUS
  <2>1. i \in Nat /\ PAGE_OFFSET(va) + i < PAGE_SIZE
    BY <1>1
  <2> QED BY <1>1, <2>1, PtType, SamePageAddr
<1>3. CstrEnd(pt, mem, va) = n
  <2>1. Stored(mem, GetPhysAddr(pt, va) + n) = Zero
    BY <1>1, <1>2 DEF NameIn
  <2>2. \A i \in 0 .. n - 1 : Stored(mem, GetPhysAddr(pt, va) + i) # Zero
    <3> SUFFICES ASSUME NEW i \in 0 .. n - 1 PROVE Stored(mem, GetPhysAddr(pt, va) + i) # Zero
      OBVIOUS
    <3>1. i \in 0 .. n
      OBVIOUS
    <3> QED BY <1>1, <1>2, <3>1 DEF NameIn
  <2>3. PAGE_OFFSET(va) + n < PAGE_SIZE
    BY <1>1
  <2> QED BY <2>1, <2>2, <2>3, PtType, CstrOnFirstPage
<1>4. PICK k \in Nat : k = n + 2
  OBVIOUS
<1>5. ReadVirtualCstr(pt, mem, va) = ReadVirtualAddr(pt, mem, va, k)
  <2>1. ~(n = -1)
    OBVIOUS
  <2> QED BY <1>3, <1>4, <2>1 DEF ReadVirtualCstr
<1>6. Mapped(pt, va, k)
  <2>1. PAGE_OFFSET(va) + k <= PAGE_SIZE
    BY <1>1, <1>4
  <2> QED BY <2>1, PtType, OnePage
<1> DEFINE bytes == GuestBytes(pt, mem, va, k)
           B == {bytes[i] : i \in 1 .. k}
<1>7. ReadVirtualCstr(pt, mem, va) = [ok |-> TRUE, bytes |-> bytes]
  <2>1. IsRead(pt, mem, va, k, ReadVirtualAddr(pt, mem, va, k))
    BY PtType, ReadIsGuestBytes
  <2> QED BY <1>5, <1>6, <2>1 DEF IsRead
<1>8. /\ bytes = [i \in 1 .. k |-> bytes[i]]
      /\ \A i \in 1 .. k : bytes[i] = Stored(mem, GetPhysAddr(pt, va + i - 1))
  BY DEF GuestBytes
<1> HIDE DEF bytes
<1>9. bytes \in Seq(B) /\ Len(bytes) = k
  BY <1>8
<1>10. bytes[n + 1] = Zero /\ \A i \in 1 .. n : bytes[i] # Zero
  <2>1. n + 1 \in 1 .. k /\ va + (n + 1) - 1 = va + n
    BY <1>4
  <2>2. bytes[n + 1] = Zero
    BY <1>8, <2>1 DEF NameIn
  <2>3. ASSUME NEW i \in 1 .. n PROVE bytes[i] # Zero
    <3>1. i \in 1 .. k /\ i - 1 \in 0 .. n - 1 /\ va + i - 1 = va + (i - 1)
      BY <1>4
    <3> QED BY <1>8, <3>1 DEF NameIn
  <2> QED BY <2>2, <2>3
<1>11. AsName(bytes) = SubSeq(bytes, 1, n)
  <2>1. n + 1 <= Len(bytes)
    BY <1>4, <1>9
  <2> HIDE DEF B
  <2> QED BY <1>9, <1>10, <2>1, AsNameOf
<1>12. SubSeq(bytes, 1, n) = GuestBytes(pt, mem, va, n)
  <2>1. SubSeq(bytes, 1, n) = [i \in 1 .. n |-> bytes[i]]
    BY <1>4, <1>9
  <2>2. \A i \in 1 .. n : bytes[i] = Stored(mem, GetPhysAddr(pt, va + i - 1))
    BY <1>4, <1>8
  <2> QED BY <2>1, <2>2 DEF GuestBytes
<1> QED BY <1>7, <1>11, <1>12

\* open, openat and access name the caller's file.
LEMMA AppNames ==
    ASSUME Control, AppName
    PROVE  NamesAreCallers'
<1>1. PICK name \in {"open", "openat", "access"} : Handles(name)
  BY DEF AppName
<1>2. /\ at = "hlt" /\ asked \in Made /\ asked.name = name /\ handler.name = name
      /\ \A i : Arg(i) = asked.args[i]
  BY <1>1, Dispatched
<1>3. PICK va \in Int : va = NameOf(asked) /\ va = Arg(PathArg) /\ VmaFind(va) # {}
  <2>1. NameOf(asked) = asked.args[IF name = "openat" THEN 2 ELSE 1]
    BY <1>2 DEF NameOf
  <2>2. Arg(PathArg) = asked.args[IF name = "openat" THEN 2 ELSE 1]
    BY <1>2 DEF PathArg
  <2>3. VmaFind(asked.args[IF name = "openat" THEN 2 ELSE 1]) # {}
    BY <1>1, PointerFound
  <2>4. asked.args[IF name = "openat" THEN 2 ELSE 1] \in Int
    BY <1>2, CallsAssumption
  <2> QED BY <2>1, <2>2, <2>3, <2>4
<1>4. PICK a \in Int : a = VmPtr(va)
  BY <1>3, VmPtrType
<1>5. effect'.bytes = Linear(a, Terminator(a)) /\ ram' = ram /\ asked' = asked
  BY <1>3, <1>4 DEF AppName, Named, Return
<1>6. ASSUME NEW n \in 0 .. PAGE_SIZE * VA_PAGES, NameIn(ram, va, n), OneArea(va, n + 1)
      PROVE  Linear(a, Terminator(a)) = GuestBytes(pt, ram, va, n)
  <2>0. n \in Nat /\ n + 1 \in Int
    BY GuestMemAssumption
  <2>1. \A i \in 0 .. n : GetPhysAddr(pt, va + i) = a + i
    <3> SUFFICES ASSUME NEW i \in 0 .. n PROVE GetPhysAddr(pt, va + i) = a + i
      OBVIOUS
    <3>1. PICK m \in Int : m = n + 1
      BY <2>0
    <3>2. i \in 0 .. m - 1 /\ OneArea(va, m)
      BY <1>6, <2>0, <3>1
    <3>3. VmPtr(va) + i = GetPhysAddr(pt, va + i)
      BY <3>2, AreaLinear
    <3> QED BY <1>4, <3>3
  <2> DEFINE Ends(k) == /\ Stored(ram, a + k) = Zero
                        /\ \A i \in 0 .. k - 1 : Stored(ram, a + i) # Zero
             S == 0 .. PAGE_SIZE * VA_PAGES
  <2>2. \A i \in 0 .. n - 1 : i \in 0 .. n
    BY <2>0
  <2>3. Ends(n)
    <3>1. n \in 0 .. n
      BY <2>0
    <3>2. Stored(ram, a + n) = Zero
      BY <1>6, <2>1, <3>1 DEF NameIn
    <3>3. \A i \in 0 .. n - 1 : Stored(ram, a + i) # Zero
      BY <1>6, <2>1, <2>2 DEF NameIn
    <3> QED BY <3>2, <3>3
  <2>4. \A k \in S : Ends(k) => k = n
    <3> SUFFICES ASSUME NEW k \in S, Ends(k) PROVE k = n
      OBVIOUS
    <3>1. k \in Int
      BY GuestMemAssumption
    <3>2. ~(k < n)
      <4> SUFFICES ASSUME k < n PROVE FALSE
        OBVIOUS
      <4>1. k \in 0 .. n - 1
        BY <2>0, <3>1
      <4> QED BY <2>3, <4>1
    <3>3. ~(n < k)
      <4> SUFFICES ASSUME n < k PROVE FALSE
        OBVIOUS
      <4>1. n \in 0 .. k - 1
        BY <2>0, <3>1
      <4> QED BY <2>3, <4>1
    <3> QED BY <2>0, <3>1, <3>2, <3>3
  <2>5. Terminator(a) = CHOOSE k \in S : Ends(k)
    BY DEF Terminator
  <2>6. n \in S
    OBVIOUS
  <2> HIDE DEF S, Ends
  <2>7. Terminator(a) = n
    BY <2>3, <2>4, <2>5, <2>6
  <2>8. \A i \in 1 .. n : a + i - 1 = GetPhysAddr(pt, va + i - 1)
    <3> SUFFICES ASSUME NEW i \in 1 .. n PROVE a + i - 1 = GetPhysAddr(pt, va + i - 1)
      OBVIOUS
    <3>1. i - 1 \in 0 .. n /\ va + i - 1 = va + (i - 1)
      BY <2>0
    <3> QED BY <2>1, <3>1
  <2> QED BY <2>7, <2>8 DEF Linear, GuestBytes
<1>7. NameOf(asked') = va /\ asked'.name = name
  BY <1>2, <1>3, <1>5 DEF NameOf
<1> QED BY <1>5, <1>6, <1>7 DEF NamesAreCallers, NameEnds, NameIn, OneArea

\* kernel_open names the caller's file.
LEMMA KernelOpenNames ==
    ASSUME Control, KernelOpen
    PROVE  NamesAreCallers'
<1>1. /\ at = "hlt" /\ asked \in Made /\ asked.name = "kernel_open"
      /\ \A i : Arg(i) = asked.args[i]
  BY Dispatched DEF KernelOpen
<1>2. PICK va \in Int : va = asked.args[1] /\ va = Arg(1) /\ va = NameOf(asked)
  BY <1>1, CallsAssumption DEF NameOf
<1>3. PICK r : /\ r = ReadVirtualCstr(pt, ram, va)
               /\ \/ r.ok /\ Named(AsName(r.bytes))
                  \/ ~r.ok /\ Fails
  <2>1. \E r \in {ReadVirtualCstr(pt, ram, va)} :
           \/ r.ok /\ Named(AsName(r.bytes))
           \/ ~r.ok /\ Fails
    BY <1>2, Zenon DEF KernelOpen
  <2> QED BY <2>1, Zenon
<1>4. ram' = ram /\ asked' = asked
  BY <1>3 DEF Named, Fails, Return, hostside
<1>5. ASSUME NEW n \in 0 .. PAGE_SIZE * VA_PAGES, NameIn(ram, va, n), Mapped(pt, va, 1),
             PAGE_OFFSET(va) + n + 1 < PAGE_SIZE
      PROVE  effect'.call # "none" /\ effect'.bytes = GuestBytes(pt, ram, va, n)
  <2>1. n \in Nat
    BY GuestMemAssumption
  <2>2. IsVpagePresent(pt, va)
    <3>1. 0 \in 0 .. 1 - 1 /\ va + 0 = va
      OBVIOUS
    <3> QED BY <1>5, <3>1 DEF Mapped
  <2>3. r.ok = TRUE /\ AsName(r.bytes) = GuestBytes(pt, ram, va, n)
    BY <1>3, <1>5, <2>1, <2>2, CstrName
  <2>4. Named(GuestBytes(pt, ram, va, n))
    BY <1>3, <2>3
  <2> QED BY <2>4 DEF Named
<1>6. NameOf(asked') = va /\ asked'.name = "kernel_open"
  BY <1>1, <1>2, <1>4
<1> QED BY <1>4, <1>5, <1>6 DEF NamesAreCallers, NameEnds, NameIn

\* kernel_stat names the caller's file, and its answer leaves the name alone when
\* they are apart.
LEMMA KernelStatNames ==
    ASSUME Control, Typed(ram), stream \in Nat, KernelStat
    PROVE  NamesAreCallers'
<1>1. /\ at = "hlt" /\ asked \in Made /\ asked.name = "kernel_stat"
      /\ \A i : Arg(i) = asked.args[i]
  BY Dispatched DEF KernelStat
<1>2. PICK va \in Int : va = asked.args[1] /\ va = Arg(1) /\ va = NameOf(asked)
  BY <1>1, CallsAssumption DEF NameOf
<1>3. PICK r : /\ r = ReadVirtualCstr(pt, ram, va)
               /\ \/ r.ok /\ KernelStats(AsName(r.bytes))
                  \/ ~r.ok /\ Fails
  <2>1. \E r \in {ReadVirtualCstr(pt, ram, va)} :
           \/ r.ok /\ KernelStats(AsName(r.bytes))
           \/ ~r.ok /\ Fails
    BY <1>2, Zenon DEF KernelStat
  <2> QED BY <2>1, Zenon
<1>4. asked' = asked /\ DiffersIn(ram', ram, asked.args[2], STAT_SIZE)
  <2>1. CASE KernelStats(AsName(r.bytes))
    BY <1>1, <2>1, KernelStatsInput
  <2>2. CASE Fails
    BY <2>2 DEF Fails, Return, hostside, DiffersIn
  <2> QED BY <1>3, <2>1, <2>2
<1>5. ASSUME NEW n \in 0 .. PAGE_SIZE * VA_PAGES, NameIn(ram', va, n), Mapped(pt, va, 1),
             PAGE_OFFSET(va) + n + 1 < PAGE_SIZE, Apart(va, n + 1, asked.args[2], STAT_SIZE)
      PROVE  effect'.call # "none" /\ effect'.bytes = GuestBytes(pt, ram', va, n)
  <2>1. n \in Nat
    BY GuestMemAssumption
  <2>2. IsVpagePresent(pt, va)
    <3>1. 0 \in 0 .. 1 - 1 /\ va + 0 = va
      OBVIOUS
    <3> QED BY <1>5, <3>1 DEF Mapped
  <2>3. \A i \in 0 .. n : Stored(ram', GetPhysAddr(pt, va + i)) = Stored(ram, GetPhysAddr(pt, va + i))
    <3> SUFFICES ASSUME NEW i \in 0 .. n
                 PROVE  Stored(ram', GetPhysAddr(pt, va + i)) = Stored(ram, GetPhysAddr(pt, va + i))
      OBVIOUS
    <3>1. i \in 0 .. (n + 1) - 1
      BY <2>1
    <3>2. \A j \in 0 .. STAT_SIZE - 1 :
             GetPhysAddr(pt, va + i) # GetPhysAddr(pt, asked.args[2] + j)
      BY <1>5, <3>1 DEF Apart
    <3> QED BY <1>4, <3>2 DEF DiffersIn
  <2>4. NameIn(ram, va, n)
    <3>1. n \in 0 .. n /\ \A i \in 0 .. n - 1 : i \in 0 .. n
      BY <2>1
    <3> QED BY <1>5, <2>3, <3>1 DEF NameIn
  <2>5. GuestBytes(pt, ram', va, n) = GuestBytes(pt, ram, va, n)
    <3>1. \A i \in 1 .. n : Stored(ram', GetPhysAddr(pt, va + i - 1)) =
                             Stored(ram, GetPhysAddr(pt, va + i - 1))
      <4> SUFFICES ASSUME NEW i \in 1 .. n
                   PROVE  Stored(ram', GetPhysAddr(pt, va + i - 1)) =
                             Stored(ram, GetPhysAddr(pt, va + i - 1))
        OBVIOUS
      <4>1. i - 1 \in 0 .. n /\ va + i - 1 = va + (i - 1)
        BY <2>1
      <4> QED BY <2>3, <4>1
    <3> QED BY <3>1 DEF GuestBytes
  <2>6. r.ok = TRUE /\ AsName(r.bytes) = GuestBytes(pt, ram, va, n)
    BY <1>3, <1>5, <2>1, <2>2, <2>4, CstrName
  <2>7. KernelStats(GuestBytes(pt, ram, va, n))
    BY <1>3, <2>6
  <2>8. effect'.call = "stat" /\ effect'.bytes = GuestBytes(pt, ram, va, n)
    BY <1>1, <2>7, KernelStatsInput
  <2> QED BY <2>5, <2>8
<1>6. NameOf(asked') = va /\ asked'.name = "kernel_stat" /\ asked'.args[2] = asked.args[2]
  BY <1>1, <1>2, <1>4
<1> QED BY <1>5, <1>6 DEF NamesAreCallers, NameEnds, NameIn, Apart

-----------------------------------------------------------------------------
(* The inductive invariant and the theorems. *)

\* Types of what the handlers read and write.
Memory == Typed(ram) /\ stream \in Nat
\* What was promised of the call answered last.
Right == OutputIsCallers /\ InputArrives /\ NamesAreCallers
\* The inductive invariant.
HInv == Control /\ GsKept /\ Memory /\ Right

\* Nothing is promised before a call is answered.
LEMMA NothingAnswered ==
    ASSUME ~Answered'
    PROVE  Right'
<1>1. OutputIsCallers'
  BY DEF OutputIsCallers
<1>2. InputArrives'
  BY DEF InputArrives
<1>3. NamesAreCallers'
  BY DEF NamesAreCallers
<1> QED BY <1>1, <1>2, <1>3 DEF Right

\* Calls that hand over no bytes.
LEMMA NoOutput ==
    ASSUME asked'.name \notin {"write", "kernel_write", "writev"}
    PROVE  OutputIsCallers'
BY DEF OutputIsCallers

\* Calls that fill no buffer.
LEMMA NoInput ==
    ASSUME effect'.call \notin {"read", "stat"}
    PROVE  InputArrives'
BY DEF InputArrives

\* Calls that name no file.
LEMMA NoNames ==
    ASSUME asked'.name \notin {"open", "openat", "access", "kernel_open", "kernel_stat"}
    PROVE  NamesAreCallers'
BY DEF NamesAreCallers

\* Calls that leave memory alone.
LEMMA OnlyUnchanged ==
    ASSUME ram' = ram
    PROVE  OnlyBuffer
BY DEF OnlyBuffer

\* The types of memory that nobody touched.
LEMMA MemoryUnchanged ==
    ASSUME Memory, UNCHANGED <<ram, stream>>
    PROVE  Memory'
BY DEF Memory, Typed

\* Every handler does what was promised of it.
LEMMA HostRight ==
    ASSUME Control, Memory, Host
    PROVE  Memory' /\ Right' /\ OnlyBuffer
<1>0. Typed(ram) /\ stream \in Nat
  BY DEF Memory
<1>1. CASE UnmappedPointer \/ KernelExit
  <2>1. ~Answered' /\ UNCHANGED <<ram, stream>>
    BY <1>1 DEF UnmappedPointer, KernelExit, hostside, Answered, Running
  <2> QED BY <2>1, NothingAnswered, MemoryUnchanged, OnlyUnchanged
<1>2. CASE AppWrite
  <2>1. asked.name = "write"
    BY <1>2, Dispatched DEF AppWrite
  <2>2. asked' = asked /\ effect'.call = "write" /\ UNCHANGED <<ram, stream>>
    BY <1>2 DEF AppWrite, Wrote, Return
  <2> QED BY <1>2, <2>1, <2>2, AppWriteOutput, NoInput, NoNames, MemoryUnchanged, OnlyUnchanged
          DEF Right
<1>3. CASE KernelWrite
  <2>1. asked.name = "kernel_write" /\ effect = NoEffect
    BY <1>3, Dispatched DEF KernelWrite
  <2>2. asked' = asked /\ effect'.call \in {"write", "none"} /\ UNCHANGED <<ram, stream>>
    BY <1>3, <2>1 DEF KernelWrite, Wrote, Fails, hostside, Return, NoEffect
  <2> QED BY <1>3, <2>1, <2>2, KernelWriteOutput, NoInput, NoNames, MemoryUnchanged, OnlyUnchanged
          DEF Right
<1>4. CASE AppRead
  <2>1. asked.name = "read"
    BY <1>4, Dispatched DEF AppRead
  <2>2. asked' = asked
    BY <1>4 DEF AppRead, Return
  <2> QED BY <1>0, <1>4, <2>1, <2>2, AppReadInput, NoOutput, NoNames DEF Right, Memory
<1>5. CASE KernelRead
  <2>1. asked.name = "kernel_read"
    BY <1>5, Dispatched DEF KernelRead
  <2>2. asked' = asked
    BY <1>5 DEF KernelRead, Return
  <2> QED BY <1>0, <1>5, <2>1, <2>2, KernelReadInput, NoOutput, NoNames DEF Right, Memory
<1>6. CASE AppName
  <2>1. asked.name \in {"open", "openat", "access"}
    BY <1>6, Dispatched DEF AppName
  <2>2. asked' = asked /\ effect'.call = "name" /\ UNCHANGED <<ram, stream>>
    BY <1>6 DEF AppName, Named, Return
  <2> QED BY <1>6, <2>1, <2>2, AppNames, NoInput, NoOutput, MemoryUnchanged, OnlyUnchanged
          DEF Right
<1>7. CASE KernelOpen
  <2>1. asked.name = "kernel_open" /\ effect = NoEffect
    BY <1>7, Dispatched DEF KernelOpen
  <2>2. asked' = asked /\ effect'.call \in {"name", "none"} /\ UNCHANGED <<ram, stream>>
    BY <1>7, <2>1 DEF KernelOpen, Named, Fails, hostside, Return, NoEffect
  <2> QED BY <1>7, <2>1, <2>2, KernelOpenNames, NoInput, NoOutput, MemoryUnchanged, OnlyUnchanged
          DEF Right
<1>8. CASE AppPlain
  <2>1. asked.name \in {"close", "dup", "lseek"} /\ effect = NoEffect
    BY <1>8, Dispatched DEF AppPlain
  <2>2. asked' = asked /\ effect'.call = "none" /\ UNCHANGED <<ram, stream>>
    BY <1>8, <2>1 DEF AppPlain, hostside, Return, NoEffect
  <2> QED BY <2>1, <2>2, NoNames, NoInput, NoOutput, MemoryUnchanged, OnlyUnchanged DEF Right
<1>9. CASE AppStat
  <2>1. asked.name \in {"stat", "fstat", "uname"}
    BY <1>9, Dispatched DEF AppStat
  <2>2. asked' = asked
    BY <1>9 DEF AppStat, Return
  <2> QED BY <1>0, <1>9, <2>1, <2>2, AppStatInput, NoOutput, NoNames DEF Right, Memory
<1>10. CASE KernelStat
  <2>1. at = "hlt" /\ asked.name = "kernel_stat" /\ effect = NoEffect
    BY <1>10, Dispatched DEF KernelStat
  <2>2. CASE \E name : KernelStats(name)
    <3>1. PICK name : KernelStats(name)
      BY <2>2
    <3>2. InputArrives' /\ Typed(ram)' /\ stream' \in Nat /\ OnlyBuffer /\ asked' = asked
      BY <1>0, <2>1, <3>1, KernelStatsInput
    <3> QED BY <1>0, <1>10, <2>1, <3>2, KernelStatNames, NoOutput DEF Right, Memory
  <2>3. CASE Fails
    <3>1. asked' = asked /\ effect'.call = "none" /\ UNCHANGED <<ram, stream>>
      BY <2>1, <2>3 DEF Fails, hostside, Return, NoEffect
    <3> QED BY <1>0, <1>10, <2>1, <3>1, KernelStatNames, NoInput, NoOutput, MemoryUnchanged,
               OnlyUnchanged DEF Right
  <2> QED BY <1>10, <2>2, <2>3 DEF KernelStat
<1>11. CASE KernelFstat
  <2>1. at = "hlt" /\ asked.name = "kernel_fstat"
    BY <1>11, Dispatched DEF KernelFstat
  <2>2. KernelStats(<<>>)
    BY <1>11 DEF KernelFstat
  <2>3. InputArrives' /\ Typed(ram)' /\ stream' \in Nat /\ OnlyBuffer /\ asked' = asked
    BY <1>0, <2>1, <2>2, KernelStatsInput
  <2> QED BY <2>1, <2>3, NoOutput, NoNames DEF Right, Memory
<1>12. CASE Writev
  <2>1. asked.name = "writev" /\ effect = NoEffect
    BY <1>12, Dispatched DEF Writev
  <2>2. asked' = asked /\ effect'.call \in {"write", "none"} /\ UNCHANGED <<ram, stream>>
    <3>1. \/ Return(-EINVAL) /\ UNCHANGED hostside
          \/ Return(-EFAULT) /\ UNCHANGED hostside
          \/ \E bytes : Wrote(bytes)
      BY <1>12, Zenon DEF Writev
    <3>2. CASE \E value : Return(value) /\ UNCHANGED hostside
      BY <2>1, <3>2 DEF hostside, Return, NoEffect
    <3>3. CASE \E bytes : Wrote(bytes)
      BY <3>3 DEF Wrote, Return
    <3> QED BY <3>1, <3>2, <3>3
  <2> QED BY <1>0, <1>12, <2>1, <2>2, WritevOutput, NoInput, NoNames, MemoryUnchanged,
             OnlyUnchanged DEF Right
<1> QED BY <1>1, <1>2, <1>3, <1>4, <1>5, <1>6, <1>7, <1>8, <1>9, <1>10, <1>11, <1>12 DEF Host

\* And no other step undoes it.
LEMMA RightNext ==
    ASSUME HInv, [Next]_vars
    PROVE  HInv' /\ (OnlyBuffer \/ UNCHANGED vars)
<1>0. Control /\ GsKept /\ Memory /\ Right /\ Control' /\ GsKept'
  BY ControlNext DEF HInv
<1>1. CASE UNCHANGED vars
  BY <1>0, <1>1 DEF HInv, vars, hostside, machine, Memory, Typed, Right, OutputIsCallers, InputArrives,
     NamesAreCallers, NameEnds, Answered, Running
<1>2. CASE SwitchUserLand
  <2>1. at = "kernel" /\ at' = "user" /\ UNCHANGED <<asked, result, ram, effect, stream>>
    BY <1>2 DEF SwitchUserLand, hostside
  <2>2. Memory' /\ OnlyBuffer
    BY <1>0, <2>1, MemoryUnchanged, OnlyUnchanged
  <2>3. Right'
    BY <1>0, <2>1 DEF Right, OutputIsCallers, InputArrives, NamesAreCallers, NameEnds, Answered,
       Running
  <2> QED BY <1>0, <2>2, <2>3 DEF HInv
<1>3. CASE KernelCall \/ SyscallForward
  <2>1. at' = "hlt" /\ UNCHANGED <<ram, stream>>
    BY <1>3 DEF KernelCall, SyscallForward, Stub
  <2>2. ~Answered'
    BY <2>1 DEF Answered, Running
  <2> QED BY <1>0, <2>1, <2>2, NothingAnswered, MemoryUnchanged, OnlyUnchanged DEF HInv
<1>4. CASE SyscallBail \/ SyscallNull \/ SyscallIoctl \/ ArchPrctlSetGs \/ ArchPrctl
  <2>1. asked'.name = "none" /\ UNCHANGED <<ram, stream>>
    BY <1>4 DEF SyscallBail, SyscallNull, SyscallIoctl, ArchPrctlSetGs, ArchPrctl, Answer
  <2>2. ~Answered'
    BY <2>1 DEF Answered
  <2> QED BY <1>0, <2>1, <2>2, NothingAnswered, MemoryUnchanged, OnlyUnchanged DEF HInv
<1>5. CASE Interrupted \/ GuestStops
  <2>1. ~Answered' /\ UNCHANGED <<ram, stream>>
    BY <1>5 DEF Interrupted, GuestStops, hostside, Answered, Running
  <2> QED BY <1>0, <2>1, NothingAnswered, MemoryUnchanged, OnlyUnchanged DEF HInv
<1>6. CASE Host
  BY <1>0, <1>6, HostRight DEF HInv
<1> QED BY <1>1, <1>2, <1>3, <1>4, <1>5, <1>6 DEF Next

\* The inductive invariant holds in every state (run, hostcall_table).
THEOREM HInvAlways == Spec => []HInv
<1>1. Init => HInv
  <2> SUFFICES ASSUME Init PROVE HInv
    OBVIOUS
  <2>1. Control /\ GsKept
    BY DEF Init, Control, GsKept, CPU_INFO
  <2>2. Memory
    BY MemoryAssumption DEF Init, Memory, Typed
  <2>3. ~Answered
    BY DEF Init, Answered
  <2>4. Right
    BY <2>3 DEF Right, OutputIsCallers, InputArrives, NamesAreCallers
  <2> QED BY <2>1, <2>2, <2>4 DEF HInv
<1>2. HInv /\ [Next]_vars => HInv'
  BY RightNext
<1> QED BY <1>1, <1>2, PTL DEF Spec

\* Whatever the areas, frames, memory and calls: the host writes out exactly the
\* bytes the guest has at the addresses it gave (kernel_write, host_writev,
\* vm_ptr, read_virtual_addr).
THEOREM OutputReachesHost == Spec => []OutputIsCallers
<1>1. HInv => OutputIsCallers
  BY DEF HInv, Right
<1> QED BY <1>1, HInvAlways, PTL

\* What the host read or looked up is where the caller wanted it, as much of it as
\* the call's result says (kernel_read, kernel_stat, kernel_fstat,
\* write_virtual_addr, vm_ptr).
THEOREM InputReachesGuest == Spec => []InputArrives
<1>1. HInv => InputArrives
  BY DEF HInv, Right
<1> QED BY <1>1, HInvAlways, PTL

\* The host opens the file the guest named, within the page limit of
\* read_virtual_cstr (read_virtual_cstr, vm_ptr).
THEOREM NamesReachHost == Spec => []NamesAreCallers
<1>1. HInv => NamesAreCallers
  BY DEF HInv, Right
<1> QED BY <1>1, HInvAlways, PTL

\* No call changes a byte of guest memory outside its caller's buffer, but for
\* the kernel's stats, which reach as far behind their vm_stat_t as the host's
\* structure is longer (vm_ptr, write_virtual_addr, kernel_stat, kernel_fstat).
THEOREM CallsKeepToBuffer == Spec => BufferOnly
<1>1. HInv /\ [Next]_vars => [OnlyBuffer]_vars
  BY RightNext
<1>2. [OnlyBuffer]_vars =>
        [ram' # ram /\ (FromArea(asked) => OneArea(Buffer(asked), Room(asked))) =>
           \/ ChangesWithin(Buffer(asked), Room(asked))
           \/ KernelsStat(asked) /\ ChangesWithin(Buffer(asked), STAT_SIZE)]_vars
  <2> SUFFICES ASSUME OnlyBuffer, ram' # ram,
                      FromArea(asked) => OneArea(Buffer(asked), Room(asked))
               PROVE  \/ ChangesWithin(Buffer(asked), Room(asked))
                      \/ KernelsStat(asked) /\ ChangesWithin(Buffer(asked), STAT_SIZE)
    OBVIOUS
  <2>1. CASE KernelsStat(asked)
    <3>1. ~FromArea(asked) /\ Filled(asked) = STAT_SIZE
      BY <2>1 DEF KernelsStat, FromArea, Filled
    <3>2. ChangesWithin(Buffer(asked), STAT_SIZE)
      BY <3>1 DEF OnlyBuffer, ChangesWithin
    <3> QED
      BY <2>1, <3>2
  <2>2. CASE ~KernelsStat(asked)
    <3>1. Room(asked) = Filled(asked)
      BY <2>2 DEF Room
    <3>2. ChangesWithin(Buffer(asked), Filled(asked))
      BY <3>1 DEF OnlyBuffer, ChangesWithin
    <3> QED
      BY <3>1, <3>2
  <2> QED
    BY <2>1, <2>2
<1> QED BY <1>1, <1>2, HInvAlways, PTL DEF Spec, BufferOnly
=============================================================================
