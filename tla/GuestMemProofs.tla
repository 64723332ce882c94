--------------------------- MODULE GuestMemProofs ---------------------------
(***************************************************************************)
(* What the copies between host and guest do, for every length and page    *)
(* table (vm/paging.c).  The loops are recursive functions; each is shown  *)
(* to exist and then to be right by induction over what is left to copy.   *)
(***************************************************************************)
EXTENDS GuestMem, TLAPS, WellFoundedInduction, SequenceTheorems

\* A non-empty set of numbers has a least element.
LEMMA LeastElement ==
    ASSUME NEW T \in SUBSET Nat, T # {}
    PROVE  \E x \in T : \A y \in T : x <= y
<1>1. \E x \in T : \A y \in T : ~(<<y, x>> \in OpToRel(<, Nat))
  <2>1. T \subseteq Nat
    OBVIOUS
  <2> QED BY <2>1, NatLessThanWellFounded, WFMin
<1>2. PICK x \in T : \A y \in T : ~(<<y, x>> \in OpToRel(<, Nat))
  BY <1>1
<1>3. \A y \in T : ~(y < x)
  BY <1>2 DEF OpToRel
<1> QED BY <1>3

\* Induction over the numbers, stated with a set so that it needs no operator
\* as a parameter: all later inductions over the length of a copy use it.
LEMMA SetInduction ==
    ASSUME NEW S, 0 \in S, \A n \in Nat : n \in S => n + 1 \in S
    PROVE  Nat \subseteq S
<1> SUFFICES ASSUME NEW m \in Nat, m \notin S PROVE FALSE
  OBVIOUS
<1> DEFINE T == {n \in Nat : n \notin S}
<1>1. PICK x \in T : \A y \in T : x <= y
  <2>1. T \in SUBSET Nat /\ T # {}
    OBVIOUS
  <2> HIDE DEF T
  <2> QED BY <2>1, LeastElement
<1>2. x \in Nat /\ x # 0 /\ x \notin S
  BY <1>1
<1>3. x - 1 \in Nat /\ x - 1 \in S
  BY <1>1, <1>2
<1> QED BY <1>2, <1>3

-----------------------------------------------------------------------------
(* Pages and offsets. *)

\* Division with remainder.
LEMMA DivisionExact ==
    ASSUME NEW P \in Nat \ {0}, NEW a \in Int
    PROVE  /\ a \div P \in Int
           /\ a % P \in 0 .. P - 1
           /\ a = P * (a \div P) + (a % P)
<1>1. a \div P \in Int
  OBVIOUS
<1>2. a % P \in 0 .. P - 1
  OBVIOUS
<1>3. a = P * (a \div P) + (a % P)
  OBVIOUS
<1> QED BY <1>1, <1>2, <1>3

\* Quotient and remainder are the only ones.
LEMMA DivisionUnique ==
    ASSUME NEW P \in Nat \ {0}, NEW q \in Int, NEW r \in 0 .. P - 1, NEW a \in Int,
           a = P * q + r
    PROVE  a \div P = q /\ a % P = r
<1>1. a \div P \in Int /\ a % P \in 0 .. P - 1 /\ a = P * (a \div P) + (a % P)
  BY DivisionExact
<1> DEFINE d == (a \div P) - q
<1>2. d \in Int /\ P * d = r - (a % P)
  <2>1. d \in Int /\ P * (a \div P) = P * q + P * d
    BY <1>1
  <2> QED BY <1>1, <2>1
<1>3. d = 0
  <2> HIDE DEF d
  <2>1. d >= 1 => P * d >= P
    BY <1>2
  <2>2. d <= -1 => P * d <= -P
    BY <1>2
  <2> QED BY <1>1, <1>2, <2>1, <2>2
<1>4. a \div P = q
  BY <1>1, <1>3
<1> QED BY <1>1, <1>4

\* Every address has a page and an offset (get_virt_addr_info).
LEMMA PageFacts ==
    ASSUME NEW va \in Int
    PROVE  /\ PageOf(va) \in VaPages
           /\ PAGE_OFFSET(va) \in 0 .. PAGE_SIZE - 1
BY GuestMemAssumption DEF PageOf, VaPages, PAGE_OFFSET

\* Up to the end of the page the offset just grows.
LEMMA SamePage ==
    ASSUME NEW va \in Int, NEW i \in Nat, PAGE_OFFSET(va) + i < PAGE_SIZE
    PROVE  PageOf(va + i) = PageOf(va) /\ PAGE_OFFSET(va + i) = PAGE_OFFSET(va) + i
<1>1. PAGE_SIZE \in Nat \ {0}
  BY GuestMemAssumption
<1>2. PICK d \in Int, e \in 0 .. PAGE_SIZE - 1 :
          va = PAGE_SIZE * d + e /\ d = va \div PAGE_SIZE /\ e = va % PAGE_SIZE
  BY <1>1, DivisionExact
<1>3. e + i \in 0 .. PAGE_SIZE - 1 /\ va + i \in Int /\ va + i = PAGE_SIZE * d + (e + i)
  BY <1>1, <1>2 DEF PAGE_OFFSET
<1>4. (va + i) \div PAGE_SIZE = d /\ (va + i) % PAGE_SIZE = e + i
  <2>1. PICK x \in Int, y \in 0 .. PAGE_SIZE - 1 : x = va + i /\ y = e + i
    BY <1>3
  <2>2. x = PAGE_SIZE * d + y
    BY <1>3, <2>1
  <2>3. x \div PAGE_SIZE = d /\ x % PAGE_SIZE = y
    BY ONLY <1>1, <2>2, d \in Int, x \in Int, y \in 0 .. PAGE_SIZE - 1, DivisionUnique
  <2> QED BY <2>1, <2>3
<1> QED BY <1>2, <1>4 DEF PageOf, PAGE_OFFSET
-----------------------------------------------------------------------------
(* read_virtual_addr. *)

\* One page of the loop of read_virtual_addr, with g for what is left.
ReadStep(pt, ram, va, size, g, left) ==
    LET at == va + size - left
        n == PageBytes(at, left)
        phys == GetPhysAddr(pt, at)
        rest == g[left - n]
    IN  IF left = 0 THEN [ok |-> TRUE, bytes |-> <<>>]
        ELSE IF ~IsVpagePresent(pt, at) THEN [ok |-> FALSE, bytes |-> <<>>]
        ELSE [rest EXCEPT !.bytes = [i \in 1 .. n |-> Stored(ram, phys + i - 1)] \o @]

ReadFun(pt, ram, va, size, g, m) == g = [left \in 0 .. m |-> ReadStep(pt, ram, va, size, g, left)]

\* The copy is the value of the recursive function.
LEMMA ReadUnfold ==
    ASSUME NEW pt, NEW ram, NEW va, NEW size
    PROVE  ReadVirtualAddr(pt, ram, va, size) =
             (CHOOSE g : ReadFun(pt, ram, va, size, g, size))[size]
BY DEF ReadVirtualAddr, ReadFun, ReadStep

\* page_bytes makes progress and stays on the page.
LEMMA PageBytesRange ==
    ASSUME NEW va \in Int, NEW left \in Nat
    PROVE  /\ PageBytes(va, left) \in 0 .. left
           /\ left > 0 => PageBytes(va, left) > 0
           /\ PAGE_OFFSET(va) + PageBytes(va, left) <= PAGE_SIZE
BY PageFacts, GuestMemAssumption DEF PageBytes

\* The recursion of read_virtual_addr ends: there is such a function.
LEMMA ReadExists ==
    ASSUME NEW pt, NEW ram, NEW va \in Int, NEW size \in Nat
    PROVE  \E g : ReadFun(pt, ram, va, size, g, size)
<1> DEFINE S == {m \in Nat : m <= size => \E g : ReadFun(pt, ram, va, size, g, m)}
<1>1. 0 \in S
  <2> DEFINE g == [left \in 0 .. 0 |-> [ok |-> TRUE, bytes |-> <<>>]]
  <2>1. ReadFun(pt, ram, va, size, g, 0)
    BY DEF ReadFun, ReadStep
  <2> QED BY <2>1
<1>2. ASSUME NEW m \in Nat, m \in S
      PROVE  m + 1 \in S
  <2> SUFFICES ASSUME m + 1 <= size
               PROVE  \E g : ReadFun(pt, ram, va, size, g, m + 1)
    OBVIOUS
  <2>1. PICK g : ReadFun(pt, ram, va, size, g, m)
    BY <1>2
  <2> DEFINE h == [left \in 0 .. m + 1 |-> ReadStep(pt, ram, va, size, g, left)]
  <2>2. \A left \in 0 .. m : h[left] = g[left]
    BY <2>1 DEF ReadFun
  <2>3. \A left \in 0 .. m + 1 :
            ReadStep(pt, ram, va, size, h, left) = ReadStep(pt, ram, va, size, g, left)
    <3> SUFFICES ASSUME NEW left \in 0 .. m + 1
                 PROVE  ReadStep(pt, ram, va, size, h, left) = ReadStep(pt, ram, va, size, g, left)
      OBVIOUS
    <3>1. CASE left = 0
      BY <3>1 DEF ReadStep
    <3>2. CASE left # 0
      <4> DEFINE n == PageBytes(va + size - left, left)
      <4>1. left - n \in 0 .. m
        <5>1. va + size - left \in Int /\ left \in Nat
          OBVIOUS
        <5>2. n \in 0 .. left /\ n > 0
          BY <3>2, <5>1, PageBytesRange
        <5> QED BY <5>2
      <4> HIDE DEF n, h
      <4>2. h[left - n] = g[left - n]
        BY <2>2, <4>1
      <4> QED BY <4>2 DEF ReadStep, n
    <3> QED BY <3>1, <3>2
  <2>4. ReadFun(pt, ram, va, size, h, m + 1)
    BY <2>3 DEF ReadFun
  <2> QED BY <2>4
<1>3. size \in S
  <2> HIDE DEF S
  <2> QED BY <1>1, <1>2, SetInduction
<1> QED BY <1>3
\* What a copy of part of the buffer has to be.
IsRead(pt, ram, va, size, r) ==
    /\ Mapped(pt, va, size) => r = [ok |-> TRUE, bytes |-> GuestBytes(pt, ram, va, size)]
    /\ ~Mapped(pt, va, size) => \E b : r = [ok |-> FALSE, bytes |-> b]

\* On one page physical addresses are in a row, and all mapped or none.
LEMMA SamePageAddr ==
    ASSUME NEW pt \in [VaPages -> Int], NEW va \in Int, NEW i \in Nat,
           PAGE_OFFSET(va) + i < PAGE_SIZE
    PROVE  /\ IsVpagePresent(pt, va + i) <=> IsVpagePresent(pt, va)
           /\ GetPhysAddr(pt, va + i) = GetPhysAddr(pt, va) + i
           /\ GetPhysAddr(pt, va) \in Int
<1>1. PageOf(va + i) = PageOf(va) /\ PAGE_OFFSET(va + i) = PAGE_OFFSET(va) + i
  BY SamePage
<1>2. PageOf(va) \in VaPages /\ PAGE_OFFSET(va) \in 0 .. PAGE_SIZE - 1
  BY PageFacts
<1>3. pt[PageOf(va)] * PAGE_SIZE \in Int
  BY <1>2, GuestMemAssumption
<1> QED BY <1>1, <1>2, <1>3 DEF IsVpagePresent, GetPhysAddr

\* Physical addresses are numbers.
LEMMA PhysType ==
    ASSUME NEW pt \in [VaPages -> Int], NEW va \in Int
    PROVE  GetPhysAddr(pt, va) \in Int
<1>1. PageOf(va) \in VaPages /\ PAGE_OFFSET(va) \in 0 .. PAGE_SIZE - 1
  BY PageFacts
<1>2. pt[PageOf(va)] * PAGE_SIZE \in Int
  BY <1>1, GuestMemAssumption
<1> QED BY <1>1, <1>2 DEF GetPhysAddr

\* A run of bytes on one page is mapped as one and contiguous.
LEMMA OnePage ==
    ASSUME NEW pt \in [VaPages -> Int], NEW ram, NEW va \in Int, NEW n \in Nat,
           PAGE_OFFSET(va) + n <= PAGE_SIZE
    PROVE  /\ IsVpagePresent(pt, va) => Mapped(pt, va, n)
           /\ GuestBytes(pt, ram, va, n) =
                [i \in 1 .. n |-> Stored(ram, GetPhysAddr(pt, va) + i - 1)]
<1>1. PAGE_OFFSET(va) \in Int /\ PAGE_SIZE \in Int
  BY PageFacts, GuestMemAssumption
<1>2. IsVpagePresent(pt, va) => Mapped(pt, va, n)
  <2> SUFFICES ASSUME IsVpagePresent(pt, va), NEW i \in 0 .. n - 1
               PROVE  IsVpagePresent(pt, va + i)
    BY DEF Mapped
  <2>1. i \in Nat /\ PAGE_OFFSET(va) + i < PAGE_SIZE
    BY <1>1
  <2> QED BY <2>1, SamePageAddr
<1>3. \A i \in 1 .. n : GetPhysAddr(pt, va + i - 1) = GetPhysAddr(pt, va) + i - 1
  <2> SUFFICES ASSUME NEW i \in 1 .. n
               PROVE  GetPhysAddr(pt, va + i - 1) = GetPhysAddr(pt, va) + i - 1
    OBVIOUS
  <2>1. PICK k \in Nat : k = i - 1
    OBVIOUS
  <2>2. PAGE_OFFSET(va) + k < PAGE_SIZE
    BY <1>1, <2>1
  <2>3. GetPhysAddr(pt, va + k) = GetPhysAddr(pt, va) + k
    BY <2>2, SamePageAddr
  <2> QED BY <2>1, <2>3
<1> QED BY <1>2, <1>3 DEF GuestBytes

\* A buffer is mapped when its two parts are.
LEMMA MappedSplit ==
    ASSUME NEW pt, NEW va \in Int, NEW n \in Nat, NEW k \in Nat, Mapped(pt, va, n)
    PROVE  Mapped(pt, va, n + k) <=> Mapped(pt, va + n, k)
<1>1. ASSUME Mapped(pt, va, n + k) PROVE Mapped(pt, va + n, k)
  <2> SUFFICES ASSUME NEW i \in 0 .. k - 1 PROVE IsVpagePresent(pt, (va + n) + i)
    BY DEF Mapped
  <2>1. n + i \in 0 .. (n + k) - 1 /\ (va + n) + i = va + (n + i)
    OBVIOUS
  <2> QED BY <1>1, <2>1 DEF Mapped
<1>2. ASSUME Mapped(pt, va + n, k) PROVE Mapped(pt, va, n + k)
  <2> SUFFICES ASSUME NEW i \in 0 .. (n + k) - 1 PROVE IsVpagePresent(pt, va + i)
    BY DEF Mapped
  <2>1. CASE i < n
    BY <2>1 DEF Mapped
  <2>2. CASE i >= n
    <3>1. i - n \in 0 .. k - 1 /\ (va + n) + (i - n) = va + i
      BY <2>2
    <3> QED BY <1>2, <3>1 DEF Mapped
  <2> QED BY <2>1, <2>2
<1> QED BY <1>1, <1>2

\* The part of a buffer from va on and the one behind it, end to end.
Joined(pt, ram, va, n, k) ==
    GuestBytes(pt, ram, va, n) \o GuestBytes(pt, ram, va + n, k) = GuestBytes(pt, ram, va, n + k)

\* What a buffer holds is what its two parts hold.
LEMMA GuestBytesSplit ==
    ASSUME NEW pt \in [VaPages -> Int], NEW ram, NEW va \in Int, NEW n \in Nat, NEW k \in Nat
    PROVE  Joined(pt, ram, va, n, k)
<1> USE DEF Joined
<1> DEFINE s == GuestBytes(pt, ram, va, n)
           t == GuestBytes(pt, ram, va + n, k)
           u == GuestBytes(pt, ram, va, n + k)
           B == {Stored(ram, GetPhysAddr(pt, a)) : a \in Int}
<1>1. s \in Seq(B) /\ Len(s) = n
  BY DEF GuestBytes
<1>2. t \in Seq(B) /\ Len(t) = k
  BY DEF GuestBytes
<1>3. u \in Seq(B) /\ Len(u) = n + k
  BY DEF GuestBytes
<1>4. \A i \in 1 .. n + k : (s \o t)[i] = u[i]
  <2> SUFFICES ASSUME NEW i \in 1 .. n + k PROVE (s \o t)[i] = u[i]
    OBVIOUS
  <2>1. CASE i <= n
    <3>1. (s \o t)[i] = s[i]
      BY <1>1, <1>2, <2>1
    <3> QED BY <2>1, <3>1 DEF GuestBytes
  <2>2. CASE i > n
    <3>1. (s \o t)[i] = t[i - n]
      BY <1>1, <1>2, <2>2
    <3>2. i - n \in 1 .. k /\ (va + n) + (i - n) - 1 = va + i - 1
      BY <2>2
    <3> QED BY <3>1, <3>2 DEF GuestBytes
  <2>3. i <= n \/ i > n
    OBVIOUS
  <2> QED BY <2>1, <2>2, <2>3
<1> HIDE DEF s, t, u, B
<1>5. s \o t \in Seq(B) /\ Len(s \o t) = n + k
  BY <1>1, <1>2, ConcatProperties
<1>6. s \o t = u
  BY <1>3, <1>4, <1>5, SeqEqual
<1> QED BY <1>6 DEF s, t, u

\* The bytes of one page, put before those of the following pages.
LEMMA PutBefore ==
    ASSUME NEW x, NEW b, NEW t, NEW r, r = [ok |-> x, bytes |-> b]
    PROVE  [r EXCEPT !.bytes = t \o @] = [ok |-> x, bytes |-> t \o b]
<1>1. \A c : [[ok |-> x, bytes |-> b] EXCEPT !.bytes = c] = [ok |-> x, bytes |-> c]
  OBVIOUS
<1>2. r.bytes = b
  OBVIOUS
<1>3. [r EXCEPT !.bytes = t \o @] = [r EXCEPT !.bytes = t \o b]
  BY <1>2
<1>4. PICK c : c = t \o b
  OBVIOUS
<1>5. [r EXCEPT !.bytes = c] = [ok |-> x, bytes |-> c]
  BY <1>1
<1> QED BY <1>3, <1>4, <1>5

\* If the loop is right about shorter rests it is right about this one.
LEMMA ReadOnePage ==
    ASSUME NEW pt \in [VaPages -> Int], NEW ram, NEW va \in Int, NEW size \in Nat,
           NEW g, NEW left \in 1 .. size,
           \A l \in 0 .. left - 1 : IsRead(pt, ram, va + (size - l), l, g[l])
    PROVE  IsRead(pt, ram, va + (size - left), left, ReadStep(pt, ram, va, size, g, left))
<1>1. PICK at \in Int : at = va + (size - left)
  OBVIOUS
<1>2. PICK n : n = PageBytes(at, left)
  OBVIOUS
<1>3. n \in 1 .. left /\ PAGE_OFFSET(at) + n <= PAGE_SIZE
  <2>1. left \in Nat /\ left > 0
    OBVIOUS
  <2> QED BY <1>2, <2>1, PageBytesRange
<1>4. PICK k \in 0 .. left - 1 : k = left - n
  BY <1>3
<1>5. left = n + k /\ n \in Nat /\ k \in Nat /\ va + (size - k) = at + n /\ left # 0
  BY <1>1, <1>3, <1>4
<1>6. IsRead(pt, ram, at + n, k, g[k])
  BY <1>4, <1>5
<1>7. ReadStep(pt, ram, va, size, g, left) =
        IF ~IsVpagePresent(pt, at) THEN [ok |-> FALSE, bytes |-> <<>>]
        ELSE [g[k] EXCEPT !.bytes =
                [i \in 1 .. n |-> Stored(ram, GetPhysAddr(pt, at) + i - 1)] \o @]
  BY <1>1, <1>2, <1>4, <1>5 DEF ReadStep
<1>8. CASE ~IsVpagePresent(pt, at)
  <2>1. ~Mapped(pt, at, left)
    <3>1. 0 \in 0 .. left - 1 /\ at + 0 = at
      OBVIOUS
    <3> QED BY <1>8, <3>1 DEF Mapped
  <2>2. ReadStep(pt, ram, va, size, g, left) = [ok |-> FALSE, bytes |-> <<>>]
    BY <1>7, <1>8
  <2> QED BY <1>1, <2>1, <2>2 DEF IsRead
<1>9. CASE IsVpagePresent(pt, at)
  <2>1. Mapped(pt, at, n) /\ GuestBytes(pt, ram, at, n) =
          [i \in 1 .. n |-> Stored(ram, GetPhysAddr(pt, at) + i - 1)]
    BY <1>3, <1>5, <1>9, OnePage
  <2>2. Mapped(pt, at, left) <=> Mapped(pt, at + n, k)
    BY <1>5, <2>1, MappedSplit
  <2>3. ReadStep(pt, ram, va, size, g, left) =
          [g[k] EXCEPT !.bytes = GuestBytes(pt, ram, at, n) \o @]
    BY <1>7, <1>9, <2>1
  <2>4. CASE Mapped(pt, at, left)
    <3>1. g[k] = [ok |-> TRUE, bytes |-> GuestBytes(pt, ram, at + n, k)]
      BY <1>6, <2>2, <2>4 DEF IsRead
    <3>2. GuestBytes(pt, ram, at, n) \o GuestBytes(pt, ram, at + n, k) =
            GuestBytes(pt, ram, at, left)
      <4>1. Joined(pt, ram, at, n, k)
        BY <1>5, GuestBytesSplit
      <4>2. n + k = left
        BY <1>5
      <4> QED BY <4>1, <4>2, Zenon DEF Joined
    <3>3. ReadStep(pt, ram, va, size, g, left) =
            [ok |-> TRUE, bytes |-> GuestBytes(pt, ram, at, left)]
      <4>1. [g[k] EXCEPT !.bytes = GuestBytes(pt, ram, at, n) \o @] =
              [ok |-> TRUE, bytes |-> GuestBytes(pt, ram, at, n) \o GuestBytes(pt, ram, at + n, k)]
        BY <3>1, PutBefore, Zenon
      <4> QED BY <2>3, <3>2, <4>1, Zenon
    <3> QED BY <1>1, <2>4, <3>3 DEF IsRead
  <2>5. CASE ~Mapped(pt, at, left)
    <3>1. PICK b : g[k] = [ok |-> FALSE, bytes |-> b]
      BY <1>6, <2>2, <2>5 DEF IsRead
    <3>2. ReadStep(pt, ram, va, size, g, left) =
            [ok |-> FALSE, bytes |-> GuestBytes(pt, ram, at, n) \o b]
      BY <2>3, <3>1, PutBefore
    <3> QED BY <1>1, <2>5, <3>2 DEF IsRead
  <2> QED BY <2>4, <2>5
<1> QED BY <1>8, <1>9

\* read_virtual_addr, for every page table, memory, address and length: it
\* succeeds if and only if all pages of the buffer are mapped, and then hands
\* over the bytes the guest sees there, over page boundaries and wherever the
\* frames are (read_virtual_addr, page_bytes).
THEOREM ReadIsGuestBytes ==
    ASSUME NEW pt \in [VaPages -> Int], NEW ram, NEW va \in Int, NEW size \in Nat
    PROVE  IsRead(pt, ram, va, size, ReadVirtualAddr(pt, ram, va, size))
<1> DEFINE g == CHOOSE f : ReadFun(pt, ram, va, size, f, size)
<1>1. ReadFun(pt, ram, va, size, g, size)
  BY ReadExists
<1>2. ReadVirtualAddr(pt, ram, va, size) = g[size]
  BY ReadUnfold
<1> HIDE DEF g
<1>3. \A l \in 0 .. size : g[l] = ReadStep(pt, ram, va, size, g, l)
  BY <1>1 DEF ReadFun
<1> DEFINE Done(l) == IsRead(pt, ram, va + (size - l), l, g[l])
           S == {m \in Nat : \A l \in 0 .. m : l <= size => Done(l)}
<1>4. 0 \in S
  <2>1. g[0] = [ok |-> TRUE, bytes |-> <<>>]
    <3>1. 0 \in 0 .. size
      OBVIOUS
    <3>2. g[0] = ReadStep(pt, ram, va, size, g, 0)
      BY <1>3, <3>1
    <3> QED BY <3>2 DEF ReadStep
  <2>2. Mapped(pt, va + (size - 0), 0) /\ GuestBytes(pt, ram, va + (size - 0), 0) = <<>>
    BY DEF Mapped, GuestBytes
  <2>3. Done(0)
    BY <2>1, <2>2 DEF IsRead
  <2> HIDE DEF Done
  <2> QED BY <2>3
<1>5. ASSUME NEW m \in Nat, m \in S
      PROVE  m + 1 \in S
  <2>1. ASSUME m + 1 <= size PROVE Done(m + 1)
    <3>1. PICK left \in 1 .. size : left = m + 1
      BY <2>1
    <3>2. \A l \in 0 .. left - 1 : IsRead(pt, ram, va + (size - l), l, g[l])
      BY <1>5, <3>1
    <3>3. IsRead(pt, ram, va + (size - left), left, ReadStep(pt, ram, va, size, g, left))
      BY <3>2, ReadOnePage
    <3>4. g[left] = ReadStep(pt, ram, va, size, g, left)
      BY <1>3
    <3> QED BY <3>1, <3>3, <3>4
  <2> HIDE DEF Done
  <2>2. \A l \in 0 .. m + 1 : l \in 0 .. m \/ l = m + 1
    OBVIOUS
  <2> QED BY <1>5, <2>1, <2>2
<1>6. size \in S
  <2> HIDE DEF S
  <2> QED BY <1>4, <1>5, SetInduction
<1>7. Done(size) /\ va + (size - size) = va
  <2>1. size \in 0 .. size
    OBVIOUS
  <2> HIDE DEF Done
  <2> QED BY <1>6, <2>1
<1> QED BY <1>2, <1>7
-----------------------------------------------------------------------------
(* write_virtual_addr. *)

\* What memory holds after memcpy.
LEMMA StoredStore ==
    ASSUME NEW ram, NEW bytes, NEW a, NEW x
    PROVE  Stored(Store(ram, a, bytes), x) =
             IF x \in a .. a + Len(bytes) - 1 THEN bytes[x - a + 1] ELSE Stored(ram, x)
<1> DEFINE D == a .. a + Len(bytes) - 1
           m == Store(ram, a, bytes)
<1>1. DOMAIN m = DOMAIN ram \cup D
  BY DEF Store
<1>2. \A b \in DOMAIN ram \cup D : m[b] = IF b \in D THEN bytes[b - a + 1] ELSE ram[b]
  BY DEF Store
<1> HIDE DEF D, m
<1>3. CASE x \in D
  BY <1>1, <1>2, <1>3 DEF Stored, m, D
<1>4. CASE x \notin D
  BY <1>1, <1>2, <1>4 DEF Stored, m, D
<1> QED BY <1>3, <1>4

\* One page of the loop of write_virtual_addr.
WriteStep(pt, ram, va, source, g, left) ==
    LET done == Len(source) - left
        n == PageBytes(va + done, left)
        rest == g[left - n]
    IN  IF left = 0 THEN [ok |-> TRUE, ram |-> ram]
        ELSE IF ~IsVpagePresent(pt, va + done) THEN [ok |-> FALSE, ram |-> ram]
        ELSE [rest EXCEPT !.ram = Store(@, GetPhysAddr(pt, va + done),
                                        SubSeq(source, done + 1, done + n))]

WriteFun(pt, ram, va, source, g, m) ==
    g = [left \in 0 .. m |-> WriteStep(pt, ram, va, source, g, left)]

\* The copy is the value of the recursive function.
LEMMA WriteUnfold ==
    ASSUME NEW pt, NEW ram, NEW va, NEW source
    PROVE  WriteVirtualAddr(pt, ram, va, source) =
             (CHOOSE g : WriteFun(pt, ram, va, source, g, Len(source)))[Len(source)]
BY DEF WriteVirtualAddr, WriteFun, WriteStep

\* The recursion of write_virtual_addr ends.
LEMMA WriteExists ==
    ASSUME NEW pt, NEW ram, NEW va \in Int, NEW source, NEW size \in Nat, size = Len(source)
    PROVE  \E g : WriteFun(pt, ram, va, source, g, size)
<1> DEFINE S == {m \in Nat : m <= size => \E g : WriteFun(pt, ram, va, source, g, m)}
<1>1. 0 \in S
  <2> DEFINE g == [left \in 0 .. 0 |-> [ok |-> TRUE, ram |-> ram]]
  <2>1. WriteFun(pt, ram, va, source, g, 0)
    BY DEF WriteFun, WriteStep
  <2> QED BY <2>1
<1>2. ASSUME NEW m \in Nat, m \in S
      PROVE  m + 1 \in S
  <2> SUFFICES ASSUME m + 1 <= size
               PROVE  \E g : WriteFun(pt, ram, va, source, g, m + 1)
    OBVIOUS
  <2>1. PICK g : WriteFun(pt, ram, va, source, g, m)
    BY <1>2
  <2> DEFINE h == [left \in 0 .. m + 1 |-> WriteStep(pt, ram, va, source, g, left)]
  <2>2. \A left \in 0 .. m : h[left] = g[left]
    BY <2>1 DEF WriteFun
  <2>3. \A left \in 0 .. m + 1 :
            WriteStep(pt, ram, va, source, h, left) = WriteStep(pt, ram, va, source, g, left)
    <3> SUFFICES ASSUME NEW left \in 0 .. m + 1
                 PROVE  WriteStep(pt, ram, va, source, h, left) =
                          WriteStep(pt, ram, va, source, g, left)
      OBVIOUS
    <3>1. CASE left = 0
      BY <3>1 DEF WriteStep
    <3>2. CASE left # 0
      <4> DEFINE n == PageBytes(va + (Len(source) - left), left)
      <4>1. left - n \in 0 .. m
        <5>1. va + (Len(source) - left) \in Int /\ left \in Nat /\ left > 0
          BY <3>2
        <5>2. n \in 0 .. left /\ n > 0
          BY <3>2, <5>1, PageBytesRange
        <5> QED BY <5>2
      <4> HIDE DEF n, h
      <4>2. h[left - n] = g[left - n]
        BY <2>2, <4>1
      <4> QED BY <4>2 DEF WriteStep, n
    <3> QED BY <3>1, <3>2
  <2>4. WriteFun(pt, ram, va, source, h, m + 1)
    BY <2>3 DEF WriteFun
  <2> QED BY <2>4
<1>3. size \in S
  <2> HIDE DEF S
  <2> QED BY <1>1, <1>2, SetInduction
<1> QED BY <1>3

\* Where byte i of a buffer is.
PhysOf(pt, va, i) == GetPhysAddr(pt, va + (i - 1))

\* What the copy of the last `left' bytes of source has to be: it succeeds if
\* and only if their pages are mapped; every byte of memory is as before or
\* holds a byte of source that belongs there; on success every byte of the
\* buffer holds one.
IsWritten(pt, ram, va, source, left, r) ==
    LET done == Len(source) - left
        rest == done + 1 .. Len(source)
    IN  /\ r = [ok |-> r.ok, ram |-> r.ram]
        /\ r.ok \in BOOLEAN
        /\ r.ok <=> Mapped(pt, va + done, left)
        /\ \A x : \/ Stored(r.ram, x) = Stored(ram, x)
                 \/ \E j \in rest : x = PhysOf(pt, va, j) /\ Stored(r.ram, x) = source[j]
        /\ r.ok => \A i \in rest : \E j \in rest :
              /\ PhysOf(pt, va, j) = PhysOf(pt, va, i)
              /\ Stored(r.ram, PhysOf(pt, va, i)) = source[j]

\* One page stored on top of what the following pages got.
LEMMA PutRam ==
    ASSUME NEW r, r = [ok |-> r.ok, ram |-> r.ram], NEW a, NEW s
    PROVE  [r EXCEPT !.ram = Store(@, a, s)] = [ok |-> r.ok, ram |-> Store(r.ram, a, s)]
<1>1. PICK x, m : r = [ok |-> x, ram |-> m] /\ x = r.ok /\ m = r.ram
  OBVIOUS
<1>2. \A c : [[ok |-> x, ram |-> m] EXCEPT !.ram = c] = [ok |-> x, ram |-> c]
  OBVIOUS
<1>3. [r EXCEPT !.ram = Store(@, a, s)] = [r EXCEPT !.ram = Store(m, a, s)]
  BY <1>1
<1>4. PICK c : c = Store(m, a, s)
  OBVIOUS
<1>5. [r EXCEPT !.ram = c] = [ok |-> x, ram |-> c]
  BY <1>1, <1>2
<1> QED BY <1>1, <1>3, <1>4, <1>5

\* If the loop is right about shorter rests it is right about this one.
LEMMA WriteOnePage ==
    ASSUME NEW pt \in [VaPages -> Int], NEW ram, NEW va \in Int, NEW B, NEW source \in Seq(B),
           NEW g, NEW left \in 1 .. Len(source),
           \A l \in 0 .. left - 1 : IsWritten(pt, ram, va, source, l, g[l])
    PROVE  IsWritten(pt, ram, va, source, left, WriteStep(pt, ram, va, source, g, left))
<1> DEFINE N == Len(source)
           w == WriteStep(pt, ram, va, source, g, left)
<1>0. N \in Nat
  OBVIOUS
<1>1. PICK done \in Nat : done = N - left
  BY <1>0
<1>2. PICK at \in Int : at = va + done
  <2>1. va + done \in Int
    BY <1>1
  <2> QED BY <2>1
<1>3. PICK n : n = PageBytes(at, left)
  OBVIOUS
<1>4. n \in 1 .. left /\ PAGE_OFFSET(at) + n <= PAGE_SIZE
  <2>1. left \in Nat /\ left > 0
    OBVIOUS
  <2> QED BY <1>3, <2>1, PageBytesRange
<1>5. PICK k \in 0 .. left - 1 : k = left - n
  BY <1>4
<1>6. /\ left = n + k /\ n \in Nat /\ k \in Nat /\ left # 0 /\ N = done + left
      /\ N - k = done + n /\ done + n \in Nat /\ done + n <= N /\ va + (done + n) = at + n
  BY <1>0, <1>1, <1>2, <1>4, <1>5
<1>7. IsWritten(pt, ram, va, source, k, g[k])
  BY <1>5
<1> DEFINE a == GetPhysAddr(pt, at)
           s == SubSeq(source, done + 1, done + n)
<1>8. w = IF ~IsVpagePresent(pt, at) THEN [ok |-> FALSE, ram |-> ram]
          ELSE [g[k] EXCEPT !.ram = Store(@, a, s)]
  BY <1>1, <1>2, <1>3, <1>5, <1>6 DEF WriteStep
<1>9. a \in Int
  BY <1>2, PhysType
<1>10. Len(s) = n /\ \A i \in 1 .. n : s[i] = source[done + i]
  BY <1>0, <1>4, <1>6
<1>11. \A i \in 1 .. n : PhysOf(pt, va, done + i) = a + (i - 1)
  <2> SUFFICES ASSUME NEW i \in 1 .. n PROVE PhysOf(pt, va, done + i) = a + (i - 1)
    OBVIOUS
  <2>1. PICK j \in Nat : j = i - 1
    OBVIOUS
  <2>2. PAGE_OFFSET(at) \in Int /\ PAGE_SIZE \in Int
    BY PageFacts, GuestMemAssumption
  <2>3. PAGE_OFFSET(at) + j < PAGE_SIZE
    BY <1>4, <1>6, <2>1, <2>2
  <2>4. GetPhysAddr(pt, at + j) = a + j
    BY <2>3, SamePageAddr
  <2>5. va + ((done + i) - 1) = at + j
    BY <1>2, <2>1
  <2> QED BY <2>1, <2>4, <2>5 DEF PhysOf
<1> HIDE DEF w, a, s
<1>12. CASE ~IsVpagePresent(pt, at)
  <2>1. ~Mapped(pt, at, left)
    <3>1. 0 \in 0 .. left - 1 /\ at + 0 = at
      OBVIOUS
    <3> QED BY <1>12, <3>1 DEF Mapped
  <2>2. w = [ok |-> FALSE, ram |-> ram]
    BY <1>8, <1>12
  <2>3. w.ok = FALSE /\ w.ram = ram
    BY <2>2
  <2>4. ~Mapped(pt, va + (Len(source) - left), left)
    BY <1>1, <1>2, <2>1
  <2> QED BY <2>2, <2>3, <2>4 DEF IsWritten, w
<1>13. CASE IsVpagePresent(pt, at)
  <2> DEFINE m == g[k].ram
  <2>1. /\ g[k] = [ok |-> g[k].ok, ram |-> m]
        /\ g[k].ok \in BOOLEAN
        /\ g[k].ok <=> Mapped(pt, at + n, k)
        /\ \A x : \/ Stored(m, x) = Stored(ram, x)
                 \/ \E j \in done + n + 1 .. N : x = PhysOf(pt, va, j) /\ Stored(m, x) = source[j]
        /\ g[k].ok => \A i \in done + n + 1 .. N : \E j \in done + n + 1 .. N :
              /\ PhysOf(pt, va, j) = PhysOf(pt, va, i)
              /\ Stored(m, PhysOf(pt, va, i)) = source[j]
    BY <1>6, <1>7 DEF IsWritten
  <2>2. w = [ok |-> g[k].ok, ram |-> Store(m, a, s)]
    <3>1. w = [g[k] EXCEPT !.ram = Store(@, a, s)]
      BY <1>8, <1>13
    <3> QED BY <2>1, <3>1, PutRam, Zenon
  <2>3. w.ok = g[k].ok /\ w.ram = Store(m, a, s)
    BY <2>2
  <2>4. Mapped(pt, at, left) <=> Mapped(pt, at + n, k)
    <3>1. Mapped(pt, at, n)
      BY <1>4, <1>6, <1>13, OnePage
    <3>2. Mapped(pt, at, n + k) <=> Mapped(pt, at + n, k)
      BY <1>6, <3>1, MappedSplit
    <3> QED BY <1>6, <3>2
  <2> HIDE DEF m
  <2>5. \A x : Stored(w.ram, x) = IF x \in a .. a + Len(s) - 1 THEN s[x - a + 1] ELSE Stored(m, x)
    BY <2>3, StoredStore
  <2>6. \A x : x \in a .. a + Len(s) - 1 =>
           \E j \in done + 1 .. done + n : x = PhysOf(pt, va, j) /\ Stored(w.ram, x) = source[j]
    <3> SUFFICES ASSUME NEW x \in a .. a + Len(s) - 1
                 PROVE  \E j \in done + 1 .. done + n :
                           x = PhysOf(pt, va, j) /\ Stored(w.ram, x) = source[j]
      OBVIOUS
    <3>1. PICK i \in 1 .. n : x = a + (i - 1) /\ x - a + 1 = i
      BY <1>6, <1>9, <1>10
    <3>2. Stored(w.ram, x) = source[done + i]
      BY <1>10, <2>5, <3>1
    <3>3. x = PhysOf(pt, va, done + i)
      BY <1>11, <3>1
    <3>4. done + i \in done + 1 .. done + n
      BY <1>1, <1>6, <3>1
    <3> QED BY <3>2, <3>3, <3>4
  <2>7. done + 1 .. done + n \subseteq done + 1 .. N /\ done + n + 1 .. N \subseteq done + 1 .. N
    BY <1>0, <1>6
  <2>8. ASSUME NEW x
        PROVE  \/ Stored(w.ram, x) = Stored(ram, x)
               \/ \E j \in done + 1 .. N : x = PhysOf(pt, va, j) /\ Stored(w.ram, x) = source[j]
    <3>1. CASE x \in a .. a + Len(s) - 1
      BY <2>6, <2>7, <3>1
    <3>2. CASE x \notin a .. a + Len(s) - 1
      <4>1. Stored(w.ram, x) = Stored(m, x)
        BY <2>5, <3>2
      <4> QED BY <2>1, <2>7, <4>1
    <3> QED BY <3>1, <3>2
  <2>9. ASSUME w.ok, NEW i \in done + 1 .. N
        PROVE  \E j \in done + 1 .. N : /\ PhysOf(pt, va, j) = PhysOf(pt, va, i)
                                      /\ Stored(w.ram, PhysOf(pt, va, i)) = source[j]
    <3>1. PICK x : x = PhysOf(pt, va, i)
      OBVIOUS
    <3>2. CASE x \in a .. a + Len(s) - 1
      BY <2>6, <2>7, <3>1, <3>2
    <3>3. CASE x \notin a .. a + Len(s) - 1
      <4>1. i \in done + n + 1 .. N
        <5>1. i \notin done + 1 .. done + n
          <6> SUFFICES ASSUME i \in done + 1 .. done + n PROVE FALSE
            OBVIOUS
          <6>1. PICK c \in 1 .. n : i = done + c
            BY <1>6
          <6>2. x = a + (c - 1)
            BY <1>11, <3>1, <6>1
          <6> QED BY <1>6, <1>9, <1>10, <3>3, <6>2
        <5> QED BY <1>0, <1>6, <5>1
      <4>2. Stored(w.ram, x) = Stored(m, x)
        BY <2>5, <3>3
      <4>3. g[k].ok
        BY <2>3, <2>9
      <4> QED BY <2>1, <2>7, <3>1, <4>1, <4>2, <4>3
    <3> QED BY <3>2, <3>3
  <2>10. w.ok <=> Mapped(pt, va + (Len(source) - left), left)
    BY <1>1, <1>2, <2>1, <2>3, <2>4
  <2>11. w = [ok |-> w.ok, ram |-> w.ram] /\ w.ok \in BOOLEAN
    BY <2>1, <2>2, <2>3
  <2>12. Len(source) - left = done
    BY <1>1
  <2> QED BY <2>8, <2>9, <2>10, <2>11, <2>12 DEF IsWritten, w
<1> QED BY <1>12, <1>13

\* write_virtual_addr, for every page table, memory, address and source: it
\* succeeds if and only if all pages are mapped, and even when it fails half way
\* it changes bytes of the buffer only, each to a byte of source meant for that
\* address (write_virtual_addr, page_bytes).
THEOREM WriteIsGuestWrite ==
    ASSUME NEW pt \in [VaPages -> Int], NEW ram, NEW va \in Int, NEW B, NEW source \in Seq(B)
    PROVE  IsWritten(pt, ram, va, source, Len(source), WriteVirtualAddr(pt, ram, va, source))
<1>0. PICK size \in Nat : size = Len(source)
  OBVIOUS
<1> DEFINE g == CHOOSE f : WriteFun(pt, ram, va, source, f, size)
<1>1. WriteFun(pt, ram, va, source, g, size)
  BY <1>0, WriteExists
<1>2. WriteVirtualAddr(pt, ram, va, source) = g[size]
  BY <1>0, WriteUnfold
<1> HIDE DEF g
<1>3. \A l \in 0 .. size : g[l] = WriteStep(pt, ram, va, source, g, l)
  BY <1>1 DEF WriteFun
<1> DEFINE Done(l) == IsWritten(pt, ram, va, source, l, g[l])
           S == {m \in Nat : \A l \in 0 .. m : l <= size => Done(l)}
<1>4. 0 \in S
  <2>1. g[0] = [ok |-> TRUE, ram |-> ram]
    <3>1. 0 \in 0 .. size
      OBVIOUS
    <3>2. g[0] = WriteStep(pt, ram, va, source, g, 0)
      BY <1>3, <3>1
    <3> QED BY <3>2 DEF WriteStep
  <2>2. Mapped(pt, va + (Len(source) - 0), 0)
    BY DEF Mapped
  <2>3. g[0].ok = TRUE /\ g[0].ram = ram
    BY <2>1
  <2>4. (Len(source) - 0) + 1 .. Len(source) = {}
    BY <1>0
  <2>5. Done(0)
    BY <2>1, <2>2, <2>3, <2>4 DEF IsWritten
  <2> HIDE DEF Done
  <2> QED BY <2>5
<1>5. ASSUME NEW m \in Nat, m \in S
      PROVE  m + 1 \in S
  <2>1. ASSUME m + 1 <= size PROVE Done(m + 1)
    <3>1. PICK left \in 1 .. Len(source) : left = m + 1
      BY <1>0, <2>1
    <3>2. \A l \in 0 .. left - 1 : IsWritten(pt, ram, va, source, l, g[l])
      BY <1>0, <1>5, <3>1
    <3>3. IsWritten(pt, ram, va, source, left, WriteStep(pt, ram, va, source, g, left))
      BY <3>2, WriteOnePage
    <3>4. g[left] = WriteStep(pt, ram, va, source, g, left)
      BY <1>0, <1>3
    <3> QED BY <3>1, <3>3, <3>4
  <2> HIDE DEF Done
  <2>2. \A l \in 0 .. m + 1 : l \in 0 .. m \/ l = m + 1
    OBVIOUS
  <2> QED BY <1>5, <2>1, <2>2
<1>6. size \in S
  <2> HIDE DEF S
  <2> QED BY <1>4, <1>5, SetInduction
<1>7. Done(size)
  <2>1. size \in 0 .. size
    OBVIOUS
  <2> HIDE DEF Done
  <2> QED BY <1>6, <2>1
<1> QED BY <1>0, <1>2, <1>7

\* No frame is used by two pages.
FramesApart(pt) == \A p, q \in VaPages : pt[p] # NoFrame /\ pt[p] = pt[q] => p = q

\* The only multiple of M closer to zero than M is zero.
LEMMA SmallMultiple ==
    ASSUME NEW M \in Nat \ {0}, NEW t \in Int, NEW d \in Int, d = M * t, d < M, -M < d
    PROVE  d = 0
<1>1. t >= 1 => M * t >= M
  OBVIOUS
<1>2. t <= -1 => M * t <= -M
  OBVIOUS
<1>3. t = 0
  BY <1>1, <1>2
<1> QED BY <1>3

\* Products can be taken in any order.
LEMMA MulAssoc ==
    ASSUME NEW a \in Int, NEW b \in Int, NEW c \in Int
    PROVE  a * (b * c) = (a * b) * c
OBVIOUS

\* A difference of multiples.
LEMMA Distributes ==
    ASSUME NEW a \in Int, NEW b \in Int, NEW c \in Int, NEW r \in Int
    PROVE  (a * b + r) - (a * c + r) = a * (b - c)
<1>1. a * (b - c) = a * b - a * c
  OBVIOUS
<1> QED BY <1>1

\* Addresses less than the address space apart, so not one and the same under
\* two versions, are on different bytes of memory.
LEMMA PhysApart ==
    ASSUME NEW pt \in [VaPages -> Int], FramesApart(pt), NEW x \in Int, NEW y \in Int,
           x - y < PAGE_SIZE * VA_PAGES, y - x < PAGE_SIZE * VA_PAGES,
           IsVpagePresent(pt, x), GetPhysAddr(pt, x) = GetPhysAddr(pt, y)
    PROVE  x = y
<1> DEFINE P == PAGE_SIZE
           V == VA_PAGES
<1>1. P \in Nat \ {0} /\ V \in Nat \ {0} /\ P \in Int /\ V \in Int
  BY GuestMemAssumption
<1>2. PICK dx \in Int, ex \in 0 .. P - 1 : x = P * dx + ex /\ dx = x \div P /\ ex = x % P
  BY <1>1, DivisionExact
<1>3. PICK dy \in Int, ey \in 0 .. P - 1 : y = P * dy + ey /\ dy = y \div P /\ ey = y % P
  BY <1>1, DivisionExact
<1>4. PICK qx \in Int, rx \in 0 .. V - 1 : dx = V * qx + rx /\ rx = dx % V
  BY <1>1, DivisionExact
<1>5. PICK qy \in Int, ry \in 0 .. V - 1 : dy = V * qy + ry /\ ry = dy % V
  BY <1>1, DivisionExact
<1>6. /\ PageOf(x) = rx /\ PageOf(y) = ry /\ PAGE_OFFSET(x) = ex /\ PAGE_OFFSET(y) = ey
      /\ rx \in VaPages /\ ry \in VaPages
  BY <1>2, <1>3, <1>4, <1>5 DEF PageOf, PAGE_OFFSET, VaPages
<1>7. PICK fx \in Int, fy \in Int : fx = pt[rx] /\ fy = pt[ry]
  BY <1>6
<1>8. fx * P + ex = fy * P + ey
  BY <1>6, <1>7 DEF GetPhysAddr
<1>9. fx = fy /\ ex = ey
  <2>1. PICK z \in Int : z = P * fx + ex /\ z = P * fy + ey
    BY <1>1, <1>2, <1>3, <1>7, <1>8
  <2>2. z \div P = fx /\ z % P = ex
    BY ONLY <1>1, <2>1, fx \in Int, ex \in 0 .. P - 1, z \in Int, DivisionUnique
  <2>3. z \div P = fy /\ z % P = ey
    BY ONLY <1>1, <2>1, fy \in Int, ey \in 0 .. P - 1, z \in Int, DivisionUnique
  <2> QED BY <2>2, <2>3
<1>10. rx = ry
  BY <1>6, <1>7, <1>9 DEF FramesApart, IsVpagePresent
<1> HIDE DEF P, V
<1>11. x - y = (P * V) * (qx - qy) /\ P * V \in Nat \ {0}
  <2>1. dx - dy = V * (qx - qy)
    <3>1. rx \in Int
      BY <1>1, <1>4
    <3>2. (V * qx + rx) - (V * qy + rx) = V * (qx - qy)
      BY ONLY <1>1, <3>1, qx \in Int, qy \in Int, Distributes
    <3> QED BY <1>4, <1>5, <1>10, <3>2
  <2>2. x - y = P * (dx - dy)
    <3>1. ex \in Int
      BY <1>1, <1>2
    <3>2. (P * dx + ex) - (P * dy + ex) = P * (dx - dy)
      BY ONLY <1>1, <3>1, dx \in Int, dy \in Int, Distributes
    <3> QED BY <1>2, <1>3, <1>9, <3>2
  <2>3. PICK t \in Int, e \in Int : t = qx - qy /\ e = dx - dy
    BY ONLY qx \in Int, qy \in Int, dx \in Int, dy \in Int
  <2>4. P * (V * t) = (P * V) * t
    BY ONLY <1>1, t \in Int, MulAssoc
  <2>5. P * V \in Nat \ {0}
    BY <1>1
  <2> QED BY <2>1, <2>2, <2>3, <2>4, <2>5
<1>12. x - y = 0
  <2>1. PICK M \in Nat \ {0}, t \in Int, d \in Int : M = P * V /\ t = qx - qy /\ d = x - y
    BY <1>4, <1>5, <1>11
  <2>2. d = M * t
    BY <1>11, <2>1
  <2>3. d < M /\ -M < d
    BY <2>1 DEF P, V
  <2>4. d = 0
    BY ONLY M \in Nat \ {0}, t \in Int, d \in Int, <2>2, <2>3, SmallMultiple
  <2> QED BY <2>1, <2>4
<1> QED BY <1>12

\* A successful copy that is no longer than the address space leaves source in
\* the buffer, byte for byte (write_virtual_addr).
LEMMA WrittenArrives ==
    ASSUME NEW pt \in [VaPages -> Int], FramesApart(pt), NEW ram, NEW va \in Int,
           NEW B, NEW source \in Seq(B), Len(source) <= PAGE_SIZE * VA_PAGES, NEW w,
           w = WriteVirtualAddr(pt, ram, va, source), w.ok
    PROVE  \A i \in 1 .. Len(source) : Stored(w.ram, GetPhysAddr(pt, va + (i - 1))) = source[i]
<1> SUFFICES ASSUME NEW i \in 1 .. Len(source)
             PROVE  Stored(w.ram, GetPhysAddr(pt, va + (i - 1))) = source[i]
  OBVIOUS
<1>1. PICK N \in Nat : N = Len(source)
  OBVIOUS
<1>2. IsWritten(pt, ram, va, source, N, w)
  BY <1>1, WriteIsGuestWrite
<1>3. (N - N) + 1 .. N = 1 .. N /\ va + (N - N) = va
  OBVIOUS
<1>4. Mapped(pt, va, N) /\ \E j \in 1 .. N : /\ PhysOf(pt, va, j) = PhysOf(pt, va, i)
                                            /\ Stored(w.ram, PhysOf(pt, va, i)) = source[j]
  BY <1>1, <1>2, <1>3 DEF IsWritten
<1>5. PICK j \in 1 .. N : /\ PhysOf(pt, va, j) = PhysOf(pt, va, i)
                          /\ Stored(w.ram, PhysOf(pt, va, i)) = source[j]
  BY <1>4
<1>6. PICK x \in Int, y \in Int : x = va + (j - 1) /\ y = va + (i - 1)
  BY <1>1
<1>7. PAGE_SIZE * VA_PAGES \in Int
  BY GuestMemAssumption
<1>8. x - y < PAGE_SIZE * VA_PAGES /\ y - x < PAGE_SIZE * VA_PAGES
  BY <1>1, <1>6, <1>7
<1>9. IsVpagePresent(pt, x)
  <2>1. j - 1 \in 0 .. N - 1
    BY <1>1
  <2> QED BY <1>4, <1>6, <2>1 DEF Mapped
<1>10. GetPhysAddr(pt, x) = GetPhysAddr(pt, y)
  BY <1>5, <1>6 DEF PhysOf
<1>11. x = y
  BY <1>8, <1>9, <1>10, PhysApart
<1>12. i = j
  BY <1>1, <1>6, <1>11
<1> QED BY <1>5, <1>12 DEF PhysOf
-----------------------------------------------------------------------------
(* read_virtual_cstr, while it stays on the first page. *)

\* One page of the search in read_virtual_cstr.
ScanEnds(pt, ram, va, read) ==
    {i \in 0 .. PAGE_SIZE - PAGE_OFFSET(va + read) - 1 :
        Stored(ram, GetPhysAddr(pt, va + read) + read + i) = Zero}
LeastOf(T) == CHOOSE i \in T : \A j \in T : i <= j
ScanStep(pt, ram, va, g, read) ==
    IF ~IsVpagePresent(pt, va + read) THEN -1
    ELSE IF ScanEnds(pt, ram, va, read) = {}
         THEN g[read + (PAGE_SIZE - PAGE_OFFSET(va + read))]
    ELSE read + LeastOf(ScanEnds(pt, ram, va, read))
ScanFun(pt, ram, va, g) == g = [read \in Nat |-> ScanStep(pt, ram, va, g, read)]

\* The end is the value of the recursive function.
LEMMA ScanUnfold ==
    ASSUME NEW pt, NEW ram, NEW va
    PROVE  CstrEnd(pt, ram, va) = (CHOOSE g : ScanFun(pt, ram, va, g))[0]
BY DEF CstrEnd, ScanFun, ScanStep, ScanEnds, LeastOf

\* The next page starts after what is left of this one, and no page in between.
LEMMA PageStarts ==
    ASSUME NEW va \in Int, NEW r \in Nat, NEW n, n = PAGE_SIZE - PAGE_OFFSET(va + r)
    PROVE  /\ n \in Nat /\ n > 0
           /\ PAGE_OFFSET(va + (r + n)) = 0
           /\ \A s \in Nat : s > r /\ PAGE_OFFSET(va + s) = 0 => s >= r + n
<1>1. PICK x \in Int : x = va + r
  OBVIOUS
<1>2. PAGE_SIZE \in Nat \ {0} /\ PAGE_SIZE \in Int
  BY GuestMemAssumption
<1>3. PICK d \in Int, e \in 0 .. PAGE_SIZE - 1 : x = PAGE_SIZE * d + e /\ e = x % PAGE_SIZE
  BY <1>2, DivisionExact
<1>4. n = PAGE_SIZE - e
  BY <1>1, <1>3 DEF PAGE_OFFSET
<1>5. n \in Nat /\ n > 0
  BY <1>2, <1>3, <1>4
<1>6. PAGE_OFFSET(va + (r + n)) = 0
  <2>1. PICK y \in Int, c \in Int : y = va + (r + n) /\ c = d + 1
    BY <1>5
  <2>2. y = x + n
    BY <1>1, <1>5, <2>1
  <2>3. PAGE_SIZE * c = PAGE_SIZE * d + PAGE_SIZE
    BY <1>2, <2>1
  <2>4. y = PAGE_SIZE * c + 0 /\ 0 \in 0 .. PAGE_SIZE - 1
    <3>1. PICK u \in Int, v \in Int : u = PAGE_SIZE * d /\ v = PAGE_SIZE * c
      BY <1>2
    <3>2. x = u + e /\ v = u + PAGE_SIZE
      BY <1>3, <2>3, <3>1
    <3>3. y = v + 0
      <4>1. e \in Int
        BY <1>2, <1>3
      <4>2. PICK P \in Int : P = PAGE_SIZE
        BY <1>2
      <4> QED BY ONLY <1>4, <2>2, <3>2, <4>1, <4>2, u \in Int, v \in Int, P \in Int
    <3> QED BY <1>2, <3>1, <3>3
  <2>5. y % PAGE_SIZE = 0
    BY ONLY <1>2, <2>4, c \in Int, y \in Int, DivisionUnique
  <2> QED BY <2>1, <2>5 DEF PAGE_OFFSET
<1>7. ASSUME NEW s \in Nat, s > r, PAGE_OFFSET(va + s) = 0 PROVE s >= r + n
  <2> SUFFICES ASSUME s < r + n PROVE FALSE
    BY <1>5
  <2>1. PICK i \in Nat : i = s - r /\ i > 0
    BY <1>7
  <2>2. PAGE_OFFSET(x) + i < PAGE_SIZE
    BY <1>2, <1>3, <1>4, <2>1 DEF PAGE_OFFSET
  <2>3. PAGE_OFFSET(x + i) = PAGE_OFFSET(x) + i
    BY <2>2, SamePage
  <2>4. x + i = va + s
    BY <1>1, <2>1
  <2> QED BY <1>3, <1>7, <2>1, <2>3, <2>4 DEF PAGE_OFFSET
<1> QED BY <1>5, <1>6, <1>7

\* The pages the search visits from one of its positions on and where it stops.
Stop(pt, ram, va, s) == ~IsVpagePresent(pt, va + s) \/ ScanEnds(pt, ram, va, s) # {}
Stops(pt, ram, va, read) ==
    {s \in Nat : /\ s >= read /\ (s = read \/ PAGE_OFFSET(va + s) = 0)
                /\ Stop(pt, ram, va, s)}
Found(pt, ram, va, s) ==
    IF ~IsVpagePresent(pt, va + s) THEN -1 ELSE s + LeastOf(ScanEnds(pt, ram, va, s))
ScanSolution(pt, ram, va) ==
    [read \in Nat |-> IF Stops(pt, ram, va, read) = {} THEN -1
                      ELSE Found(pt, ram, va, LeastOf(Stops(pt, ram, va, read)))]

\* There is a function that follows the search: its value is what the search
\* finds on the first page where it stops, or -1 if it never does.
LEMMA ScanExists ==
    ASSUME NEW pt, NEW ram, NEW va \in Int
    PROVE  ScanFun(pt, ram, va, ScanSolution(pt, ram, va))
<1> DEFINE f == ScanSolution(pt, ram, va)
           T(r) == Stops(pt, ram, va, r)
<1>1. f = [r \in Nat |-> IF T(r) = {} THEN -1 ELSE Found(pt, ram, va, LeastOf(T(r)))]
  BY DEF ScanSolution
<1>2. \A r \in Nat : f[r] = IF T(r) = {} THEN -1 ELSE Found(pt, ram, va, LeastOf(T(r)))
  BY <1>1
<1>3. ASSUME NEW r \in Nat PROVE f[r] = ScanStep(pt, ram, va, f, r)
  <2>1. CASE Stop(pt, ram, va, r)
    <3>1. r \in T(r) /\ \A s \in T(r) : r <= s
      BY <2>1 DEF Stops
    <3>2. \A s \in T(r) : (\A t \in T(r) : s <= t) => s = r
      BY <3>1 DEF Stops
    <3> HIDE DEF T
    <3>3. LeastOf(T(r)) = r
      BY <3>1, <3>2 DEF LeastOf
    <3>4. f[r] = Found(pt, ram, va, r)
      BY <1>2, <3>1, <3>3
    <3> HIDE DEF f
    <3> QED BY <2>1, <3>4 DEF Found, Stop, ScanStep
  <2>2. CASE ~Stop(pt, ram, va, r)
    <3>1. PICK n : n = PAGE_SIZE - PAGE_OFFSET(va + r)
      OBVIOUS
    <3>2. /\ n \in Nat /\ n > 0
          /\ PAGE_OFFSET(va + (r + n)) = 0
          /\ \A s \in Nat : s > r /\ PAGE_OFFSET(va + s) = 0 => s >= r + n
      BY <3>1, PageStarts
    <3>3. T(r) = T(r + n)
      <4>1. ASSUME NEW s \in T(r) PROVE s \in T(r + n)
        <5>1. s \in Nat /\ s >= r /\ Stop(pt, ram, va, s) /\ s # r /\ PAGE_OFFSET(va + s) = 0
          BY <2>2 DEF Stops
        <5>2. s >= r + n
          BY <3>2, <5>1
        <5> QED BY <5>1, <5>2 DEF Stops
      <4>2. ASSUME NEW s \in T(r + n) PROVE s \in T(r)
        <5>1. s \in Nat /\ s >= r + n /\ Stop(pt, ram, va, s) /\ PAGE_OFFSET(va + s) = 0
          BY <3>2 DEF Stops
        <5> QED BY <3>2, <5>1 DEF Stops
      <4> QED BY <4>1, <4>2
    <3>4. r + n \in Nat
      BY <3>2
    <3> HIDE DEF T, f
    <3>5. f[r] = f[r + n]
      BY <1>2, <3>3, <3>4
    <3> QED BY <2>2, <3>1, <3>5 DEF Stop, ScanStep
  <2> QED BY <2>1, <2>2
<1> QED BY <1>1, <1>3 DEF ScanFun

\* The search for the end of a name is right while it stays on the first page
\* (read_virtual_cstr).
LEMMA CstrOnFirstPage ==
    ASSUME NEW pt \in [VaPages -> Int], NEW ram, NEW va \in Int, NEW n \in Nat,
           IsVpagePresent(pt, va), PAGE_OFFSET(va) + n < PAGE_SIZE,
           Stored(ram, GetPhysAddr(pt, va) + n) = Zero,
           \A i \in 0 .. n - 1 : Stored(ram, GetPhysAddr(pt, va) + i) # Zero
    PROVE  CstrEnd(pt, ram, va) = n
<1> DEFINE g == CHOOSE f : ScanFun(pt, ram, va, f)
           E == ScanEnds(pt, ram, va, 0)
<1>1. ScanFun(pt, ram, va, g)
  BY ScanExists
<1>2. CstrEnd(pt, ram, va) = g[0]
  BY ScanUnfold
<1> HIDE DEF g
<1>3. g[0] = ScanStep(pt, ram, va, g, 0)
  BY <1>1 DEF ScanFun
<1>4. PICK o \in Int, a \in Int, P \in Int :
          o = PAGE_OFFSET(va) /\ a = GetPhysAddr(pt, va) /\ P = PAGE_SIZE
  BY PageFacts, PhysType, GuestMemAssumption
<1>5. va + 0 = va /\ P - o > n
  BY <1>4
<1>6. E = {i \in 0 .. (P - o) - 1 : Stored(ram, (a + 0) + i) = Zero}
  BY <1>4, <1>5 DEF ScanEnds
<1>7. n \in E
  BY <1>4, <1>5, <1>6
<1>8. \A j \in E : j \in Nat /\ n <= j
  <2> SUFFICES ASSUME NEW j \in E, j < n PROVE FALSE
    BY <1>4, <1>6
  <2>1. j \in 0 .. n - 1
    BY <1>4, <1>6
  <2> QED BY <1>4, <1>6, <2>1
<1> HIDE DEF E
<1>9. \A i \in E : (\A j \in E : i <= j) => i = n
  BY <1>7, <1>8
<1>10. LeastOf(E) = n
  BY <1>7, <1>8, <1>9 DEF LeastOf
<1>11. ScanStep(pt, ram, va, g, 0) = 0 + LeastOf(E)
  BY <1>5, <1>7 DEF ScanStep, E
<1> QED BY <1>2, <1>3, <1>10, <1>11
=============================================================================
