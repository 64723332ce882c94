----------------------------- MODULE BootProofs -----------------------------
(***************************************************************************)
(* The boot for every kernel image that fits, every page size and all      *)
(* arguments: the descriptor table stays mapped, the regions that are      *)
(* computed one from the other are apart and share no frame, nothing is    *)
(* written over the kernel's image, and the program finds the arguments    *)
(* the machine was started with.                                           *)
(***************************************************************************)
EXTENDS Boot, GuestMemProofs

(***************************************************************************)
(* Addresses and pages.                                                    *)
(***************************************************************************)

\* The page of an address inside the address space is its quotient.
LEMMA PageInside ==
    ASSUME NEW q \in 0 .. VA_PAGES - 1, NEW r \in 0 .. PAGE_SIZE - 1
    PROVE  PageOf(PAGE_SIZE * q + r) = q /\ PAGE_OFFSET(PAGE_SIZE * q + r) = r
<1>1. PAGE_SIZE \in Nat \ {0} /\ VA_PAGES \in Nat \ {0}
  BY GuestMemAssumption
<1>2. PICK a \in Int : a = PAGE_SIZE * q + r
  BY <1>1
<1>3. a \div PAGE_SIZE = q /\ a % PAGE_SIZE = r
  BY <1>1, <1>2, DivisionUnique
<1>4. q % VA_PAGES = q
  BY <1>1
<1> QED BY <1>2, <1>3, <1>4 DEF PageOf, PAGE_OFFSET

\* The first byte of a page and the last one of the page before.
LEMMA PageEnds ==
    ASSUME NEW q \in Int
    PROVE  /\ q \in 0 .. VA_PAGES - 1 => PageOf(PAGE_SIZE * q) = q
           /\ q \in 1 .. VA_PAGES => PageOf((PAGE_SIZE * q) - 1) = q - 1
<1>1. PAGE_SIZE \in Nat \ {0} /\ VA_PAGES \in Nat \ {0}
  BY GuestMemAssumption
<1>2. ASSUME q \in 0 .. VA_PAGES - 1 PROVE PageOf(PAGE_SIZE * q) = q
  <2>1. 0 \in 0 .. PAGE_SIZE - 1 /\ PAGE_SIZE * q + 0 = PAGE_SIZE * q
    BY <1>1
  <2> QED BY <1>2, <2>1, PageInside
<1>3. ASSUME q \in 1 .. VA_PAGES PROVE PageOf((PAGE_SIZE * q) - 1) = q - 1
  <2>1. PICK p \in 0 .. VA_PAGES - 1 : p = q - 1
    BY <1>1, <1>3
  <2>2. PICK r \in 0 .. PAGE_SIZE - 1 : r = PAGE_SIZE - 1
    BY <1>1
  <2>3. PAGE_SIZE * q = PAGE_SIZE * p + PAGE_SIZE
    BY <1>1, <2>1
  <2>4. PAGE_SIZE * p \in Int
    BY <1>1
  <2>5. (PAGE_SIZE * q) - 1 = PAGE_SIZE * p + r
    BY ONLY <1>1, <2>2, <2>3, <2>4
  <2> QED BY <2>1, <2>5, PageInside
<1> QED BY <1>2, <1>3

\* Multiples of the page size are ordered like their factors.
LEMMA PageOrder ==
    ASSUME NEW P \in Nat \ {0}, NEW a \in Int, NEW b \in Int
    PROVE  /\ P * a <= P * b <=> a <= b
           /\ P * a < P * b <=> a < b
           /\ P * a = P * b <=> a = b
           /\ (P * b) - (P * a) = P * (b - a)
<1>1. (P * b) - (P * a) = P * (b - a)
  OBVIOUS
<1>2. PICK d \in Int : d = b - a
  OBVIOUS
<1>3. /\ d > 0 => P * d > 0
      /\ d < 0 => P * d < 0
      /\ d = 0 => P * d = 0
  <2>1. d >= 1 => P * d >= P
    OBVIOUS
  <2>2. d <= -1 => P * d <= -P
    OBVIOUS
  <2> QED BY <2>1, <2>2
<1>4. P * a \in Int /\ P * b \in Int /\ P * d \in Int /\ (P * b) - (P * a) = P * d
  BY <1>1, <1>2
<1>5. PICK x \in Int, y \in Int, z \in Int : x = P * a /\ y = P * b /\ z = P * d
  BY <1>4
<1>6. y - x = z /\ (d > 0 => z > 0) /\ (d < 0 => z < 0) /\ (d = 0 => z = 0)
  BY <1>3, <1>4, <1>5
<1>7. (x <= y <=> a <= b) /\ (x < y <=> a < b) /\ (x = y <=> a = b)
  BY ONLY <1>2, <1>6, x \in Int, y \in Int, z \in Int, d \in Int, a \in Int, b \in Int
<1> QED BY <1>1, <1>5, <1>7

\* p2align_down of anything, and of a multiple.
LEMMA AlignFacts ==
    ASSUME NEW P \in Nat \ {0}, NEW a \in Int
    PROVE  /\ P2Align(a, P) = P * (a \div P) /\ a \div P \in Int
           /\ P2Align(a, P) \in Int
           /\ P2Align(a, P) <= a /\ a < P2Align(a, P) + P
<1>1. a \div P \in Int /\ a % P \in 0 .. P - 1 /\ a = P * (a \div P) + (a % P)
  BY DivisionExact
<1>2. P2Align(a, P) = P * (a \div P)
  BY <1>1 DEF P2Align
<1>3. PICK x \in Int, r \in 0 .. P - 1 : x = P * (a \div P) /\ r = a % P
  BY <1>1
<1> QED BY <1>1, <1>2, <1>3

LEMMA RoundUpFacts ==
    ASSUME NEW P \in Nat \ {0}, NEW a \in Int
    PROVE  \E n \in Int : /\ P2RoundUp(a, P) = P * n
                          /\ a <= P * n /\ P * n < a + P
<1>1. PICK b \in Int : b = a + P - 1
  OBVIOUS
<1>2. /\ P2Align(b, P) = P * (b \div P) /\ b \div P \in Int
      /\ P2Align(b, P) \in Int /\ P2Align(b, P) <= b /\ b < P2Align(b, P) + P
  BY AlignFacts
<1>3. P2RoundUp(a, P) = P2Align(b, P)
  BY <1>1 DEF P2RoundUp
<1>4. PICK n \in Int : n = b \div P
  BY <1>2
<1>5. PICK x \in Int : x = P2Align(b, P)
  BY <1>2
<1>6. a <= x /\ x < a + P
  BY ONLY <1>1, <1>2, <1>5, P \in Nat \ {0}, a \in Int, b \in Int, x \in Int
<1> QED BY <1>2, <1>3, <1>4, <1>5, <1>6

\* map_physical_pages gives each of the pages a to b - 1 a frame of its own.
FreshPages(t, c, a, b) ==
    [p \in VaPages |-> IF a <= p /\ p < b THEN c + (p - a) ELSE t[p]]

LEMMA MapFreshPages ==
    ASSUME NEW a \in Int, NEW b \in Int, 0 <= a, a <= b, b <= VA_PAGES, 0 < b, a < VA_PAGES,
           NEW lo, NEW hi, lo = PAGE_SIZE * a, hi = PAGE_SIZE * b, MapFresh(lo, hi)
    PROVE  /\ pt' = FreshPages(pt, page_counter, a, b)
           /\ page_counter' = page_counter + (b - a)
<1>1. PAGE_SIZE \in Nat \ {0} /\ VA_PAGES \in Nat \ {0}
  BY GuestMemAssumption
<1>2. PageOf(lo) = a /\ PageOf(hi - 1) = b - 1
  BY <1>1, PageEnds
<1>3. (hi - lo) \div PAGE_SIZE = b - a
  <2>1. hi - lo = PAGE_SIZE * (b - a)
    BY <1>1, PageOrder
  <2>2. PICK n \in Int : n = b - a
    OBVIOUS
  <2>3. PICK d \in Int : d = hi - lo
    BY <1>1, <2>1
  <2>4. 0 \in 0 .. PAGE_SIZE - 1 /\ d = PAGE_SIZE * n + 0
    BY <1>1, <2>1, <2>2, <2>3
  <2>5. d \div PAGE_SIZE = n
    BY <1>1, <2>4, DivisionUnique
  <2> QED BY <2>2, <2>3, <2>5
<1>4. pt' = [p \in VaPages |-> IF p \in a .. b - 1 THEN page_counter + (p - a) ELSE pt[p]]
  <2>1. pt' = [p \in VaPages |-> IF p \in PageOf(lo) .. PageOf(hi - 1)
                                 THEN page_counter + p - PageOf(lo) ELSE pt[p]]
    BY DEF MapFresh
  <2> QED BY <1>2, <2>1
<1>5. \A p \in VaPages : p \in a .. b - 1 <=> a <= p /\ p < b
  BY DEF VaPages
<1>6. page_counter' = page_counter + (hi - lo) \div PAGE_SIZE
  BY DEF MapFresh
<1> QED BY <1>3, <1>4, <1>5, <1>6 DEF FreshPages

(***************************************************************************)
(* The pages everything is placed on, from the first one of the image.     *)
(***************************************************************************)
GdtPage(q) == q - (KSTACK_PAGES + TSS_PAGES + 2)
HeapPage(q) == (PAGE_SIZE * GdtPage(q) - vma_max_num) \div PAGE_SIZE
HalfPage(q) == HeapPage(q) \div 2

LEMMA BootTypes ==
    /\ PAGE_SIZE \in Nat \ {0} /\ VA_PAGES \in Nat \ {0} /\ WORD \in Nat \ {0}
    /\ BOOT_FRAMES \in Nat /\ BOOT_FRAMES > 1 /\ SIZE_MAX \in Nat
    /\ KSTACK_PAGES \in Nat \ {0} /\ TSS_PAGES \in Nat \ {0}
    /\ max_entries \in Nat \ {0} /\ NODE_SIZE \in Nat \ {0}
    /\ user_stack_page_limit \in Nat \ {0}
    /\ Segments \in Seq([vaddr : Nat, filesz : 0 .. SIZE_MAX, memsz : Nat, off : Nat])
BY GuestMemAssumption, BootAssumption

LEMMA CallTypes == BSS_END \in Nat /\ KERNEL_FRAMES \in Nat
BY BootAssumption

\* The heap of area nodes has room for one node at least.
LEMMA MaxNumType == vma_max_num \in Nat
<1> DEFINE x == max_entries * NODE_SIZE
           y == P2RoundUp(x, PAGE_SIZE)
<1>0. NODE_SIZE \in Nat \ {0} /\ PAGE_SIZE \in Nat \ {0} /\ max_entries \in Nat \ {0}
  BY BootTypes
<1>1. x \in Int /\ x >= NODE_SIZE
  <2>1. PICK m \in Nat : max_entries = m + 1
    BY <1>0
  <2>2. (m + 1) * NODE_SIZE = m * NODE_SIZE + NODE_SIZE /\ m * NODE_SIZE \in Nat
    BY <1>0, <2>1
  <2> QED BY <1>0, <2>1, <2>2
<1> HIDE DEF x
<1>2. y \in Int /\ y >= x
  BY <1>0, <1>1, RoundUpFacts
<1> HIDE DEF y
<1>3. y \div NODE_SIZE \in Int /\ y \div NODE_SIZE >= 1
  <2>1. PICK d \in Int, r \in 0 .. NODE_SIZE - 1 :
            d = y \div NODE_SIZE /\ y = NODE_SIZE * d + r
    BY <1>0, <1>2, DivisionExact
  <2>2. d <= 0 => NODE_SIZE * d <= 0
    BY <1>0
  <2>3. NODE_SIZE * d \in Int
    BY <1>0
  <2> QED BY <1>0, <1>1, <1>2, <2>1, <2>2, <2>3
<1>4. vma_max_num = (y \div NODE_SIZE) - 1
  BY DEF vma_max_num, y, x
<1> QED BY <1>3, <1>4

\* Halving the heap's first page: p2align_down to two pages, and half of it.
LEMMA HalfFacts ==
    ASSUME NEW h \in Int
    PROVE  /\ h \div 2 \in Int /\ 2 * (h \div 2) <= h
           /\ P2Align(PAGE_SIZE * h, 2 * PAGE_SIZE) = PAGE_SIZE * (2 * (h \div 2))
           /\ (PAGE_SIZE * (2 * (h \div 2))) \div 2 = PAGE_SIZE * (h \div 2)
<1>1. PAGE_SIZE \in Nat \ {0}
  BY BootTypes
<1>2. PICK d \in Int, r \in 0 .. 1 : d = h \div 2 /\ h = 2 * d + r
  OBVIOUS
<1>3. PICK P \in Nat \ {0} : P = PAGE_SIZE
  BY <1>1
<1>4. PICK Q \in Nat \ {0} : Q = 2 * P
  OBVIOUS
<1>5. PICK s \in 0 .. Q - 1 : s = P * r
  <2>1. CASE r = 0
    BY <1>4, <2>1
  <2>2. CASE r = 1
    BY <1>4, <2>2
  <2> QED BY <2>1, <2>2
<1>6. P * (2 * d + r) = Q * d + s
  <2>1. P * (2 * d + r) = P * (2 * d) + P * r
    OBVIOUS
  <2>2. P * (2 * d) = (P * 2) * d
    BY MulAssoc
  <2> QED BY <1>4, <1>5, <2>1, <2>2
<1>7. PICK x \in Int : x = P * h
  BY <1>2
<1>8. x \div Q = d
  BY ONLY <1>2, <1>6, <1>7, DivisionUnique, Q \in Nat \ {0}, d \in Int, s \in 0 .. Q - 1,
          x \in Int
<1>9. P2Align(x, Q) = P * (2 * d)
  <2>1. P2Align(x, Q) = d * Q
    BY <1>8 DEF P2Align
  <2>2. d * Q = P * (2 * d)
    BY <1>4
  <2> QED BY <2>1, <2>2
<1>10. (P * (2 * d)) \div 2 = P * d
  <2>1. PICK z \in Int : z = P * d
    OBVIOUS
  <2>2. P * (2 * d) = 2 * z
    BY <2>1
  <2> QED BY <2>1, <2>2
<1> QED BY <1>2, <1>3, <1>4, <1>7, <1>9, <1>10

LEMMA SegmentTypes ==
    ASSUME NEW i \in DOMAIN Segments
    PROVE  /\ Segments[i].vaddr \in Nat /\ Segments[i].filesz \in 0 .. SIZE_MAX
           /\ Segments[i].memsz \in Nat /\ Segments[i].off \in Nat
           /\ Segments[i].vaddr % PAGE_SIZE = 0 /\ Segments[i].filesz <= Segments[i].memsz
<1> DEFINE R == [vaddr : Nat, filesz : 0 .. SIZE_MAX, memsz : Nat, off : Nat]
<1>1. Segments \in Seq(R)
  BY BootTypes
<1>2. Segments[i] \in R
  <2> HIDE DEF R
  <2> QED BY <1>1
<1>3. Segments[i].vaddr % PAGE_SIZE = 0 /\ Segments[i].filesz <= Segments[i].memsz
  BY BootAssumption
<1> QED BY <1>2, <1>3

\* The pages a segment is loaded to.
SegmentAt(i, a, b) ==
    /\ Segments[i].vaddr = PAGE_SIZE * a /\ SegmentEnd(i) = PAGE_SIZE * b
    /\ Segments[i].vaddr + P2RoundUp(Segments[i].memsz, PAGE_SIZE) = PAGE_SIZE * b
    /\ P2RoundUp(Segments[i].memsz, PAGE_SIZE) = PAGE_SIZE * (b - a)
    /\ 0 <= a /\ a < b /\ b <= VA_PAGES
    /\ Segments[i].vaddr + Segments[i].memsz <= SegmentEnd(i)

LEMMA SegmentPages ==
    ASSUME KernelFits, NEW i \in Loaded
    PROVE  \E a, b \in Int : SegmentAt(i, a, b)
<1>1. PAGE_SIZE \in Nat \ {0} /\ VA_PAGES \in Nat \ {0}
  BY BootTypes
<1>2. PICK P \in Nat \ {0} : P = PAGE_SIZE
  BY <1>1
<1>3. i \in DOMAIN Segments /\ Segments[i].filesz > 0
  BY DEF Loaded
<1>4. PICK v \in Nat, m \in Nat : /\ v = Segments[i].vaddr /\ m = Segments[i].memsz
                                  /\ m > 0 /\ v % P = 0
  BY <1>2, <1>3, SegmentTypes
<1>5. PICK a \in Int : v = P * a
  <2>1. v \in Int /\ v \div P \in Int /\ v = P * (v \div P) + (v % P)
    BY DivisionExact
  <2>2. PICK d \in Int : d = v \div P
    BY <2>1
  <2>3. v = P * d + 0 /\ P * d \in Int
    BY <1>4, <2>1, <2>2
  <2>4. v = P * d
    BY <2>3
  <2> QED BY <2>4
<1>6. PICK n \in Int : P2RoundUp(m, P) = P * n /\ m <= P * n
  <2>1. m \in Int
    OBVIOUS
  <2> QED BY <2>1, RoundUpFacts
<1>7. PICK b \in Int : b = a + n
  OBVIOUS
<1>8. v + P * n = P * b /\ b - a = n
  BY <1>5, <1>7
<1>9. SegmentEnd(i) = P * b
  BY <1>2, <1>4, <1>6, <1>8 DEF SegmentEnd
<1>10. 0 <= a
  <2>1. P * 0 <= P * a /\ 0 \in Int
    BY <1>5
  <2> QED BY <2>1, PageOrder
<1>11. a < b
  <2>1. P * 0 < P * n /\ 0 \in Int
    BY <1>4, <1>6
  <2>2. 0 < n
    BY <2>1, PageOrder
  <2> QED BY <1>7, <2>2
<1>12. b <= VA_PAGES
  <2>1. P * b <= VA_PAGES * P
    BY <1>2, <1>9 DEF KernelFits, SPACE
  <2>2. VA_PAGES * P = P * VA_PAGES
    BY <1>1
  <2> QED BY <1>1, <2>1, <2>2, PageOrder
<1>13. v + m <= P * b
  <2>1. PICK z \in Int, y \in Int : z = P * n /\ y = P * b
    OBVIOUS
  <2> QED BY <1>6, <1>8, <2>1
<1> QED BY <1>2, <1>4, <1>5, <1>6, <1>8, <1>9, <1>10, <1>11, <1>12, <1>13 DEF SegmentAt

\* Every address the image may start at is that of a page, and below it there
\* is room for the stack, the tss, the gdt, the heap, the versions and all of
\* the user stack.
LEMMA LayoutPages ==
    ASSUME KernelFits, NEW q \in Int, PAGE_SIZE * q \in Bases
    PROVE  /\ GdtPage(q) \in Int /\ HeapPage(q) \in Int /\ HalfPage(q) \in Int
           /\ GdtPage(q) = q - (KSTACK_PAGES + TSS_PAGES + 2) /\ q <= VA_PAGES
           /\ HeapPage(q) <= GdtPage(q) /\ 2 * HalfPage(q) <= HeapPage(q)
           /\ user_stack_page_limit <= HalfPage(q)
           /\ P2Align((PAGE_SIZE * GdtPage(q)) - vma_max_num, PAGE_SIZE)
                = PAGE_SIZE * HeapPage(q)
<1> DEFINE g == GdtPage(q)
           h == HeapPage(q)
<1>1. /\ PAGE_SIZE \in Nat \ {0} /\ VA_PAGES \in Nat \ {0} /\ KSTACK_PAGES \in Nat
      /\ TSS_PAGES \in Nat /\ user_stack_page_limit \in Nat
  BY BootTypes
<1>2. g \in Int /\ g = q - (KSTACK_PAGES + TSS_PAGES + 2)
  BY <1>1 DEF GdtPage
<1>3. PICK P \in Nat \ {0} : P = PAGE_SIZE
  BY <1>1
<1> HIDE DEF g
<1>4. PICK v \in Nat : v = vma_max_num
  BY MaxNumType
<1>5. PICK a \in Int : a = (P * g) - v
  BY <1>2
<1>6. h = a \div P /\ h \in Int
  BY <1>3, <1>4, <1>5 DEF HeapPage, g
<1>7. P2Align(a, P) = P * h /\ P * h <= a
  BY <1>6, AlignFacts
<1>8. h <= g
  <2>1. P * h <= P * g
    BY <1>2, <1>5, <1>6, <1>7
  <2> QED BY <1>2, <1>6, <2>1, PageOrder
<1> HIDE DEF h
<1>9. HeapBelow(P * q) = P * h
  <2>1. (KSTACK_PAGES + TSS_PAGES + 2) * P = P * (KSTACK_PAGES + TSS_PAGES + 2)
    BY <1>1
  <2>2. (P * q) - (P * (KSTACK_PAGES + TSS_PAGES + 2)) = P * g
    <3>1. PICK n \in Int : n = KSTACK_PAGES + TSS_PAGES + 2
      BY <1>1
    <3>2. (P * q) - (P * n) = P * (q - n)
      BY <3>1, PageOrder
    <3> QED BY <1>2, <3>1, <3>2
  <2>3. ((P * q) - (KSTACK_PAGES + TSS_PAGES + 2) * P) - vma_max_num = a
    BY <1>4, <1>5, <2>1, <2>2
  <2> QED BY <1>3, <1>7, <2>3 DEF HeapBelow
<1>10. HalfPage(q) = h \div 2 /\ h \div 2 \in Int /\ 2 * (h \div 2) <= h
  BY <1>6, HalfFacts DEF HalfPage, h
<1>11. user_stack_page_limit <= h \div 2
  <2>1. user_stack_page_limit * P <= P2Align(P * h, 2 * P) \div 2
    BY <1>3, <1>9 DEF KernelFits
  <2>2. P2Align(P * h, 2 * P) \div 2 = P * (h \div 2)
    BY <1>3, <1>6, HalfFacts
  <2>3. P * user_stack_page_limit <= P * (h \div 2)
    BY <1>1, <2>1, <2>2
  <2> QED BY <1>1, <1>10, <2>3, PageOrder
<1>12. q <= VA_PAGES
  <2>1. CASE PAGE_SIZE * q = VA_PAGES * PAGE_SIZE
    <3>1. P * q <= P * VA_PAGES
      BY <1>1, <1>3, <2>1
    <3> QED BY <1>1, <3>1, PageOrder
  <2>2. CASE \E i \in Loaded : PAGE_SIZE * q = Segments[i].vaddr
    <3>1. PICK i \in Loaded : PAGE_SIZE * q = Segments[i].vaddr
      BY <2>2
    <3>2. PICK a1, b1 \in Int : SegmentAt(i, a1, b1)
      BY SegmentPages
    <3>3. PAGE_SIZE * q = PAGE_SIZE * a1 /\ a1 < b1 /\ b1 <= VA_PAGES
      BY <3>1, <3>2 DEF SegmentAt
    <3>4. q = a1
      BY <1>1, <3>3, PageOrder
    <3> QED BY <1>1, <3>3, <3>4
  <2> QED BY <2>1, <2>2 DEF Bases, SPACE
<1>13. P2Align((PAGE_SIZE * GdtPage(q)) - vma_max_num, PAGE_SIZE) = PAGE_SIZE * HeapPage(q)
  BY <1>3, <1>4, <1>5, <1>7 DEF g, h
<1> QED BY <1>2, <1>6, <1>8, <1>10, <1>11, <1>12, <1>13 DEF g, h

(***************************************************************************)
(* The inductive invariant: the frames, what is mapped so far, and where   *)
(* everything is, by how far the boot has come.                            *)
(***************************************************************************)

\* t gives out frames below c, and each of them once, those of the bootstrap
\* aside.
Frames(t, c) ==
    /\ t \in [VaPages -> Int] /\ c \in Nat /\ BOOT_FRAMES <= c
    /\ \A p \in VaPages : NoFrame <= t[p] /\ t[p] < c
    /\ \A p, r \in VaPages : t[p] = t[r] /\ BOOT_FRAMES <= t[p] => p = r
\* Only the pages of G may have a frame of the bootstrap.
BootPages(t, G) == \A p \in VaPages : t[p] # NoFrame /\ t[p] < BOOT_FRAMES => p \in G
Clear(t, a, b) == \A p \in VaPages : a <= p /\ p < b => t[p] = NoFrame

\* n is t with the pages from a below b on new frames of their own.
Fresh(t, c, n, c2, a, b) ==
    /\ n \in [VaPages -> Int] /\ c2 \in Nat /\ c <= c2
    /\ \A p \in VaPages : ~(a <= p /\ p < b) => n[p] = t[p]
    /\ \A p \in VaPages : a <= p /\ p < b => c <= n[p] /\ n[p] < c2
    /\ \A p, r \in VaPages : a <= p /\ p < b /\ a <= r /\ r < b /\ n[p] = n[r] => p = r

Running == {"start", "map_gdt", "gdt_init", "unmap", "vma_init", "versions", "user_stack",
            "arrays", "user_land", "user"}

MapInv(q) ==
    /\ Frames(pt, page_counter)
    /\ at \in {"load", "argv", "envp", "tss", "start", "map_gdt", "gdt_init"} => pt[1] = GDT_FRAME
    /\ at \in {"load", "argv", "envp", "tss", "start", "map_gdt"} => BootPages(pt, {0, 1})
    /\ at \in {"gdt_init", "unmap"} => BootPages(pt, {0, 1, GdtPage(q)})
    /\ at \in Running \ {"start", "map_gdt", "gdt_init", "unmap"} => BootPages(pt, {GdtPage(q)})
    /\ at \in Running \ {"start", "map_gdt"} => pt[GdtPage(q)] = GDT_FRAME
    /\ at = "load" => Clear(pt, 2, q)
    /\ at \in {"argv", "envp", "tss"} => Clear(pt, 2, q - KSTACK_PAGES)
    /\ at \in {"start", "map_gdt"} => Clear(pt, 2, GdtPage(q) + 1)
    /\ at \in {"gdt_init", "unmap"} => Clear(pt, 2, GdtPage(q))
    /\ at = "vma_init" => Clear(pt, 0, GdtPage(q))
    /\ at \in {"versions", "user_stack"} => Clear(pt, 0, HeapPage(q))
    /\ at \in {"arrays", "user_land", "user"} => Clear(pt, HalfPage(q), HeapPage(q))

PlaceInv(q) ==
    /\ at \in {"load", "argv", "envp", "tss", "exit", "fault", "corrupt"} \cup Running
    /\ args \in Arguments /\ envs \in Environments
    /\ image = PAGE_SIZE * q /\ image \in Bases
    /\ user_stack = [start |-> user_stack.start, low |-> user_stack.low]
    /\ at \in {"load", "argv", "envp", "tss", "start", "map_gdt", "gdt_init"} => gdt = PAGE_SIZE * 1
    /\ at \in Running \ {"start", "map_gdt", "gdt_init"} => gdt = PAGE_SIZE * GdtPage(q)
    /\ at \in Running => tss = PAGE_SIZE * (GdtPage(q) + 1)
    /\ at \in {"gdt_init", "unmap", "vma_init"} => kernel_min_address = PAGE_SIZE * GdtPage(q)
    /\ at = "versions" => kernel_min_address = PAGE_SIZE * HeapPage(q)
    /\ at \in {"user_stack", "arrays", "user_land", "user"} =>
         /\ kernel_min_address = PAGE_SIZE * HalfPage(q)
         /\ user_version_end = PAGE_SIZE * (2 * HalfPage(q))
    /\ at \in {"arrays", "user_land", "user"} => user_stack.start = PAGE_SIZE * HalfPage(q)

BootInv == \E q \in Int : MapInv(q) /\ PlaceInv(q)

\* map_physical_pages is Fresh.
LEMMA FreshPagesFresh ==
    ASSUME NEW t, NEW c, Frames(t, c), NEW a \in Int, NEW b \in Int, a <= b
    PROVE  Fresh(t, c, FreshPages(t, c, a, b), c + (b - a), a, b)
<1>1. c \in Nat /\ t \in [VaPages -> Int] /\ \A p \in VaPages : p \in Int
  BY DEF Frames, VaPages
<1> DEFINE n == FreshPages(t, c, a, b)
<1>2. n = [p \in VaPages |-> IF a <= p /\ p < b THEN c + (p - a) ELSE t[p]]
  BY DEF FreshPages
<1>3. n \in [VaPages -> Int]
  BY <1>1, <1>2
<1>4. \A p \in VaPages : n[p] = IF a <= p /\ p < b THEN c + (p - a) ELSE t[p]
  BY <1>2
<1> HIDE DEF n
<1>5. \A p \in VaPages : a <= p /\ p < b => c <= n[p] /\ n[p] < c + (b - a)
  BY <1>1, <1>4
<1>6. \A p, r \in VaPages : a <= p /\ p < b /\ a <= r /\ r < b /\ n[p] = n[r] => p = r
  <2> SUFFICES ASSUME NEW p \in VaPages, NEW r \in VaPages, a <= p, p < b, a <= r, r < b,
                      n[p] = n[r]
               PROVE  p = r
    OBVIOUS
  <2>1. n[p] = c + (p - a) /\ n[r] = c + (r - a)
    BY <1>4
  <2>2. p \in Int /\ r \in Int /\ c \in Int
    BY <1>1
  <2>3. c + (p - a) = c + (r - a)
    BY <2>1
  <2> QED BY ONLY <2>2, <2>3, a \in Int
<1> QED BY <1>1, <1>3, <1>4, <1>5, <1>6 DEF Fresh, n

\* New frames leave the frames apart, and the other pages as they are.
LEMMA FreshKeeps ==
    ASSUME NEW t, NEW c, Frames(t, c), NEW n, NEW c2, NEW a \in Int, NEW b \in Int,
           Fresh(t, c, n, c2, a, b)
    PROVE  /\ Frames(n, c2)
           /\ \A G : BootPages(t, G) => BootPages(n, G)
           /\ \A lo, hi \in Int : Clear(t, lo, hi) /\ hi <= a => Clear(n, lo, hi)
           /\ \A lo, hi \in Int : Clear(t, lo, hi) /\ b <= lo => Clear(n, lo, hi)
<1>0. BOOT_FRAMES \in Nat /\ \A p \in VaPages : p \in Int
  BY BootTypes DEF VaPages
<1>1. Frames(n, c2)
  <2>1. n \in [VaPages -> Int] /\ c2 \in Nat /\ BOOT_FRAMES <= c2
    BY <1>0 DEF Frames, Fresh
  <2>2. ASSUME NEW p \in VaPages PROVE NoFrame <= n[p] /\ n[p] < c2
    BY <1>0, <2>1 DEF Frames, Fresh, NoFrame
  <2>3. ASSUME NEW p \in VaPages, NEW r \in VaPages, n[p] = n[r], BOOT_FRAMES <= n[p]
        PROVE  p = r
    <3> DEFINE In(x) == a <= x /\ x < b
    <3>1. CASE In(p) /\ In(r)
      BY <2>3, <3>1 DEF Fresh
    <3>2. CASE ~In(p) /\ ~In(r)
      BY <2>3, <3>2 DEF Fresh, Frames
    <3>3. CASE In(p) /\ ~In(r)
      BY <2>3, <3>3, <2>1 DEF Fresh, Frames
    <3>4. CASE ~In(p) /\ In(r)
      BY <2>3, <3>4, <2>1 DEF Fresh, Frames
    <3> QED BY <3>1, <3>2, <3>3, <3>4
  <2> QED BY <2>1, <2>2, <2>3 DEF Frames
<1>2. ASSUME NEW G, BootPages(t, G) PROVE BootPages(n, G)
  <2> SUFFICES ASSUME NEW p \in VaPages, n[p] # NoFrame, n[p] < BOOT_FRAMES PROVE p \in G
    BY DEF BootPages
  <2>1. ~(a <= p /\ p < b)
    BY <1>0, <1>1 DEF Fresh, Frames
  <2> QED BY <1>2, <2>1 DEF Fresh, BootPages
<1>3. ASSUME NEW lo \in Int, NEW hi \in Int, Clear(t, lo, hi), hi <= a PROVE Clear(n, lo, hi)
  BY <1>0, <1>3 DEF Clear, Fresh
<1>4. ASSUME NEW lo \in Int, NEW hi \in Int, Clear(t, lo, hi), b <= lo PROVE Clear(n, lo, hi)
  BY <1>0, <1>4 DEF Clear, Fresh
<1> QED BY <1>1, <1>2, <1>3, <1>4

LEMMA ClearPart ==
    ASSUME NEW t, NEW a \in Int, NEW b \in Int, NEW c \in Int, NEW d \in Int,
           Clear(t, a, b), a <= c, d <= b
    PROVE  Clear(t, c, d)
<1>1. \A p \in VaPages : p \in Int
  BY DEF VaPages
<1> QED BY <1>1 DEF Clear

-----------------------------------------------------------------------------
(* The steps of the boot. *)

\* The order of the pages while the boot is under way.
Order(q) ==
    /\ GdtPage(q) \in Int /\ HeapPage(q) \in Int /\ HalfPage(q) \in Int
    /\ KSTACK_PAGES \in Nat /\ KSTACK_PAGES >= 1 /\ TSS_PAGES \in Nat /\ TSS_PAGES >= 1
    /\ user_stack_page_limit \in Nat /\ user_stack_page_limit >= 1
    /\ GdtPage(q) = q - (KSTACK_PAGES + TSS_PAGES + 2) /\ q <= VA_PAGES
    /\ HeapPage(q) <= GdtPage(q) /\ 2 * HalfPage(q) <= HeapPage(q)
    /\ user_stack_page_limit <= HalfPage(q)
    /\ PAGE_SIZE \in Nat \ {0} /\ VA_PAGES \in Nat

LEMMA PlaceOrder ==
    ASSUME KernelFits, NEW q \in Int, PAGE_SIZE * q \in Bases
    PROVE  Order(q)
BY LayoutPages, BootTypes DEF Order

\* A step leaves the pages of the image alone.
KeptAbove(q) == \A p \in VaPages : q <= p => pt'[p] = pt[p]
\* The lowest page of the kernel's stack.
StackPage(q) == q - KSTACK_PAGES

LEMMA FreshKeptAbove ==
    ASSUME NEW q \in Int, NEW a \in Int, NEW b \in Int, b <= q,
           Fresh(pt, page_counter, pt', page_counter', a, b)
    PROVE  KeptAbove(q)
<1>1. \A p \in VaPages : p \in Int
  BY DEF VaPages
<1> QED BY <1>1 DEF Fresh, KeptAbove

LEMMA KeptAboveMore ==
    ASSUME NEW q \in Int, KeptAbove(StackPage(q))
    PROVE  KeptAbove(q)
<1>1. StackPage(q) \in Int /\ StackPage(q) <= q
  BY BootTypes DEF StackPage
<1>2. \A p \in VaPages : p \in Int
  BY DEF VaPages
<1> QED BY <1>1, <1>2 DEF KeptAbove

LEMMA BootInit ==
    ASSUME KernelFits
    PROVE  Init => BootInv
<1> SUFFICES ASSUME Init PROVE MapInv(VA_PAGES) /\ PlaceInv(VA_PAGES)
  BY BootTypes DEF BootInv
<1>1. BOOT_FRAMES \in Nat /\ BOOT_FRAMES > 1 /\ VA_PAGES \in Nat \ {0} /\ PAGE_SIZE \in Nat
  BY BootTypes
<1>2. pt = [p \in VaPages |-> IF p \in {0, 1} THEN p ELSE -1] /\ page_counter = BOOT_FRAMES
  BY DEF Init, GDT_FRAME, NoFrame
<1>3. Frames(pt, page_counter)
  BY <1>1, <1>2 DEF Frames, VaPages, NoFrame
<1>4. BootPages(pt, {0, 1}) /\ Clear(pt, 2, VA_PAGES)
  BY <1>1, <1>2 DEF BootPages, Clear, VaPages, NoFrame
<1>5. pt[1] = GDT_FRAME
  <2>1. VA_PAGES \in Int /\ PAGE_SIZE * VA_PAGES \in Bases
    BY <1>1 DEF Bases, SPACE
  <2>2. VA_PAGES > 1
    BY <2>1, PlaceOrder DEF Order
  <2> QED BY <1>1, <1>2, <2>2 DEF VaPages, GDT_FRAME
<1>6. at = "load"
  BY DEF Init
<1>7. MapInv(VA_PAGES)
  BY <1>3, <1>4, <1>5, <1>6 DEF MapInv, Running
<1>8. image = PAGE_SIZE * VA_PAGES /\ image \in Bases /\ gdt = PAGE_SIZE * 1
  BY <1>1 DEF Init, Bases, SPACE, GDT_FRAME
<1>9. user_stack = [start |-> user_stack.start, low |-> user_stack.low]
  BY DEF Init
<1>10. PlaceInv(VA_PAGES)
  BY <1>6, <1>8, <1>9 DEF PlaceInv, Running, Init
<1> QED BY <1>7, <1>10

\* A PT_LOAD header: the image may start lower now, and what is below it is
\* as it was.
LEMMA LoadSegmentStep ==
    ASSUME KernelFits, NEW q \in Int, MapInv(q), PlaceInv(q), LoadSegment
    PROVE  BootInv'
<1>1. /\ at = "load" /\ at' = "load" /\ k \in Loaded
      /\ UNCHANGED <<args, envs, gdt, user_stack>>
  BY DEF LoadSegment, Loaded, input, kernel
<1>2. PICK a, b \in Int : SegmentAt(k, a, b)
  BY <1>1, SegmentPages
<1>3. Order(q) /\ Order(a) /\ PAGE_SIZE * a \in Bases
  <2>1. PAGE_SIZE * a \in Bases
    BY <1>1, <1>2 DEF Bases, SegmentAt
  <2> QED BY <2>1, PlaceOrder DEF PlaceInv
<1>4. a >= 2
  BY <1>3 DEF Order
<1>5. pt' = FreshPages(pt, page_counter, a, b) /\ page_counter' = page_counter + (b - a)
  <2>1. MapFresh(Segments[k].vaddr,
                 Segments[k].vaddr + P2RoundUp(Segments[k].memsz, PAGE_SIZE))
    BY DEF LoadSegment
  <2>2. 0 <= a /\ a <= b /\ b <= VA_PAGES /\ 0 < b /\ a < VA_PAGES
    BY <1>2, BootTypes DEF SegmentAt
  <2> QED BY <1>2, <2>1, <2>2, MapFreshPages DEF SegmentAt
<1>6. Frames(pt, page_counter) /\ pt[1] = GDT_FRAME /\ BootPages(pt, {0, 1}) /\ Clear(pt, 2, q)
  BY <1>1 DEF MapInv
<1>7. Fresh(pt, page_counter, pt', page_counter', a, b)
  BY <1>2, <1>5, <1>6, FreshPagesFresh DEF SegmentAt
<1>8. Frames(pt', page_counter') /\ BootPages(pt', {0, 1})
  BY <1>6, <1>7, FreshKeeps
<1>9. pt'[1] = GDT_FRAME
  <2>1. 1 \in VaPages
    BY <1>3 DEF Order, VaPages
  <2> QED BY <1>4, <1>6, <1>7, <2>1 DEF Fresh
<1>10. PICK r \in Int : r = IF a < q THEN a ELSE q
  OBVIOUS
<1>11. Clear(pt', 2, r)
  <2>1. Clear(pt, 2, r) /\ r <= a
    BY <1>6, <1>10, ClearPart
  <2> QED BY <1>6, <1>7, <2>1, FreshKeeps
<1>12. image' = PAGE_SIZE * r /\ image' \in Bases
  <2>1. image' = IF Segments[k].vaddr < image THEN Segments[k].vaddr ELSE image
    BY DEF LoadSegment
  <2>2. PAGE_SIZE * a < PAGE_SIZE * q <=> a < q
    BY BootTypes, PageOrder
  <2> QED BY <1>2, <1>3, <1>10, <2>1, <2>2 DEF PlaceInv, SegmentAt
<1>13. MapInv(r)'
  BY <1>1, <1>8, <1>9, <1>11 DEF MapInv, Running
<1>14. PlaceInv(r)'
  BY <1>1, <1>12 DEF PlaceInv, Running
<1> QED BY <1>13, <1>14 DEF BootInv

\* The kernel's stack, from the top down.
LEMMA MapKernelStackStep ==
    ASSUME KernelFits, NEW q \in Int, MapInv(q), PlaceInv(q), MapKernelStack
    PROVE  /\ MapInv(q)' /\ PlaceInv(q)' /\ KeptAbove(q)
           /\ Fresh(pt, page_counter, pt', page_counter', StackPage(q), q)
<1>1. /\ at = "load" /\ at' = "argv" /\ UNCHANGED <<args, envs, image, gdt, user_stack>>
      /\ page_counter' = page_counter + KSTACK_PAGES
  BY DEF MapKernelStack, input, kernel
<1>2. Order(q) /\ image = PAGE_SIZE * q
  BY PlaceOrder DEF PlaceInv
<1>3. PICK a \in Int : a = q - KSTACK_PAGES
  BY <1>2 DEF Order
<1>4. StackBottom = PAGE_SIZE * a
  <2>1. KSTACK_PAGES * PAGE_SIZE = PAGE_SIZE * KSTACK_PAGES
    BY BootTypes
  <2>2. (PAGE_SIZE * q) - (PAGE_SIZE * KSTACK_PAGES) = PAGE_SIZE * (q - KSTACK_PAGES)
    BY BootTypes, PageOrder
  <2> QED BY <1>2, <1>3, <2>1, <2>2 DEF StackBottom
<1>5. 2 <= a /\ a < q /\ q <= VA_PAGES /\ VA_PAGES \in Nat /\ KSTACK_PAGES = q - a
  BY <1>2, <1>3 DEF Order
<1>6. PageOf(StackBottom) = a /\ PageOf(image - 1) = q - 1
  <2>1. a \in 0 .. VA_PAGES - 1 /\ q \in 1 .. VA_PAGES
    BY <1>5
  <2> QED BY <1>2, <1>4, <2>1, PageEnds
<1>7. Frames(pt, page_counter) /\ pt[1] = GDT_FRAME /\ BootPages(pt, {0, 1}) /\ Clear(pt, 2, q)
  BY <1>1 DEF MapInv
<1>8. pt' = [p \in VaPages |-> IF p \in a .. q - 1 THEN page_counter + ((q - 1) - p) ELSE pt[p]]
  <2>1. pt' = [p \in VaPages |-> IF p \in PageOf(StackBottom) .. PageOf(image - 1)
                                 THEN page_counter + PageOf(image - 1) - p ELSE pt[p]]
    BY DEF MapKernelStack
  <2> QED BY <1>6, <2>1
<1>9. Fresh(pt, page_counter, pt', page_counter', a, q)
  <2>1. page_counter \in Nat /\ pt \in [VaPages -> Int] /\ \A p \in VaPages : p \in Int
    BY <1>7 DEF Frames, VaPages
  <2>2. pt' \in [VaPages -> Int]
    BY <1>8, <2>1
  <2>3. \A p \in VaPages :
           pt'[p] = IF a <= p /\ p < q THEN page_counter + ((q - 1) - p) ELSE pt[p]
    BY <1>8, <2>1
  <2>4. page_counter' \in Nat /\ page_counter <= page_counter'
    BY <1>1, <2>1, BootTypes
  <2>5. ASSUME NEW p \in VaPages, a <= p, p < q
        PROVE  page_counter <= pt'[p] /\ pt'[p] < page_counter'
    <3>1. pt'[p] = page_counter + ((q - 1) - p) /\ page_counter' = page_counter + (q - a)
      BY <1>1, <1>5, <2>3, <2>5
    <3> QED BY <2>1, <2>5, <3>1
  <2>6. ASSUME NEW p \in VaPages, NEW r \in VaPages, a <= p, p < q, a <= r, r < q,
               pt'[p] = pt'[r]
        PROVE  p = r
    <3>1. page_counter + ((q - 1) - p) = page_counter + ((q - 1) - r)
      BY <2>3, <2>6
    <3>2. p \in Int /\ r \in Int /\ page_counter \in Int
      BY <2>1
    <3> QED BY ONLY <3>1, <3>2, q \in Int
  <2> QED BY <2>2, <2>3, <2>4, <2>5, <2>6 DEF Fresh
<1>10. Frames(pt', page_counter') /\ BootPages(pt', {0, 1})
  BY <1>7, <1>9, FreshKeeps
<1>11. pt'[1] = GDT_FRAME
  <2>1. 1 \in VaPages
    BY <1>5 DEF VaPages
  <2> QED BY <1>5, <1>7, <1>9, <2>1 DEF Fresh
<1>12. Clear(pt', 2, q - KSTACK_PAGES)
  <2>1. Clear(pt, 2, a)
    BY <1>5, <1>7, ClearPart
  <2> QED BY <1>3, <1>7, <1>9, <2>1, FreshKeeps
<1>13. MapInv(q)'
  BY <1>1, <1>10, <1>11, <1>12 DEF MapInv, Running
<1>14. PlaceInv(q)'
  BY <1>1 DEF PlaceInv, Running
<1>15. KeptAbove(q)
  <2>1. q <= q
    OBVIOUS
  <2> QED BY <1>9, <2>1, FreshKeptAbove
<1>16. StackPage(q) = a
  BY <1>3 DEF StackPage
<1> QED BY <1>9, <1>13, <1>14, <1>15, <1>16

\* The strings and arrays: nothing is mapped and nothing moves.
LEMMA ArgumentSteps ==
    ASSUME NEW q \in Int, MapInv(q), PlaceInv(q),
           SkipSegment \/ PutArg \/ ArgvDone \/ PutEnv \/ PutArrays
    PROVE  MapInv(q)' /\ PlaceInv(q)'
<1>1. /\ UNCHANGED <<args, envs, image, pt, page_counter, gdt, user_stack>>
      /\ \/ at = "load" /\ at' = "load"
         \/ at \in {"argv", "envp"} /\ at' \in {"argv", "envp", "tss", "exit"}
  <2>1. CASE SkipSegment
    BY <2>1 DEF SkipSegment, input, memory, host, kernel
  <2>2. CASE PutArg
    BY <2>2 DEF PutArg, Exit, input, kernel
  <2>3. CASE ArgvDone
    BY <2>3 DEF ArgvDone, input, memory, host, kernel
  <2>4. CASE PutEnv
    BY <2>4 DEF PutEnv, Exit, input, kernel
  <2>5. CASE PutArrays
    BY <2>5 DEF PutArrays, input, kernel
  <2> QED BY <2>1, <2>2, <2>3, <2>4, <2>5
<1>2. MapInv(q)'
  BY <1>1 DEF MapInv, Running
<1>3. PlaceInv(q)'
  BY <1>1 DEF PlaceInv, Running
<1> QED BY <1>2, <1>3

\* The task state segment, one unmapped page below the stack.
LEMMA SetupTssStep ==
    ASSUME KernelFits, NEW q \in Int, MapInv(q), PlaceInv(q), SetupTss
    PROVE  MapInv(q)' /\ PlaceInv(q)' /\ KeptAbove(StackPage(q))
<1> DEFINE g == GdtPage(q)
<1>1. /\ at = "tss" /\ at' = "start" /\ UNCHANGED <<args, envs, image, gdt, user_stack>>
      /\ tss' = TssStart /\ MapFresh(tss', tss' + TSS_PAGES * PAGE_SIZE)
  BY DEF SetupTss, input, kernel
<1>2. Order(q) /\ image = PAGE_SIZE * q
  BY PlaceOrder DEF PlaceInv
<1>3. /\ g \in Int /\ KSTACK_PAGES \in Nat /\ TSS_PAGES \in Nat /\ TSS_PAGES >= 1
      /\ g = q - (KSTACK_PAGES + TSS_PAGES + 2) /\ 2 <= g /\ q <= VA_PAGES /\ VA_PAGES \in Nat
      /\ PAGE_SIZE \in Nat \ {0}
  BY <1>2 DEF Order
<1> HIDE DEF g
<1>4. tss' = PAGE_SIZE * (g + 1) /\ tss' + TSS_PAGES * PAGE_SIZE = PAGE_SIZE * (g + 1 + TSS_PAGES)
  <2>1. PICK P \in Nat \ {0}, K \in Nat, T \in Nat :
            P = PAGE_SIZE /\ K = KSTACK_PAGES /\ T = TSS_PAGES
    BY <1>3
  <2>2. TssStart = (((P * q) - K * P) - P) - T * P
    BY <1>2, <2>1 DEF TssStart, StackBottom
  <2>3. q = g + (K + T + 2)
    BY <1>3, <2>1
  <2>4. P * q = P * g + K * P + T * P + 2 * P
    BY <1>3, <2>3
  <2>5. P * (g + 1) = P * g + P /\ P * (g + 1 + T) = P * g + P + T * P
    BY <1>3
  <2>6. PICK x \in Int, y \in Int, z \in Int : x = P * g /\ y = K * P /\ z = T * P
    BY <1>3
  <2>7. TssStart = x + P /\ TssStart + z = x + P + z
    BY <2>2, <2>4, <2>6
  <2> QED BY <1>1, <2>1, <2>5, <2>6, <2>7
<1>5. PICK a \in Int, b \in Int : a = g + 1 /\ b = g + 1 + TSS_PAGES
  BY <1>3
<1>6. /\ 3 <= a /\ a < b /\ b <= VA_PAGES /\ a < VA_PAGES /\ 0 <= a /\ a <= b /\ 0 < b
      /\ a < q - KSTACK_PAGES
  BY <1>3, <1>5
<1>7. pt' = FreshPages(pt, page_counter, a, b) /\ page_counter' = page_counter + (b - a)
  BY <1>1, <1>4, <1>5, <1>6, MapFreshPages
<1>8. /\ Frames(pt, page_counter) /\ pt[1] = GDT_FRAME /\ BootPages(pt, {0, 1})
      /\ Clear(pt, 2, q - KSTACK_PAGES)
  BY <1>1 DEF MapInv
<1>9. Fresh(pt, page_counter, pt', page_counter', a, b)
  BY <1>6, <1>7, <1>8, FreshPagesFresh
<1>10. Frames(pt', page_counter') /\ BootPages(pt', {0, 1})
  BY <1>8, <1>9, FreshKeeps
<1>11. pt'[1] = GDT_FRAME
  <2>1. 1 \in VaPages
    BY <1>3 DEF VaPages
  <2> QED BY <1>6, <1>8, <1>9, <2>1 DEF Fresh
<1>12. Clear(pt', 2, g + 1)
  <2>1. q - KSTACK_PAGES \in Int
    BY <1>3
  <2>2. Clear(pt, 2, a)
    BY <1>6, <1>8, <2>1, ClearPart
  <2> QED BY <1>5, <1>8, <1>9, <2>2, FreshKeeps
<1>13. MapInv(q)'
  BY <1>1, <1>10, <1>11, <1>12 DEF MapInv, Running, g
<1>14. PlaceInv(q)'
  BY <1>1, <1>4 DEF PlaceInv, Running, g
<1>15. KeptAbove(StackPage(q))
  <2>1. StackPage(q) \in Int /\ b <= StackPage(q)
    BY <1>3, <1>5 DEF Order, StackPage
  <2> QED BY <1>9, <2>1, FreshKeptAbove
<1> QED BY <1>13, <1>14, <1>15

\* One page changes hands and no frame is counted.
Remapped(t, c, g, f, n) ==
    /\ Frames(n, c) /\ n[g] = f
    /\ \A p \in VaPages : p # g => n[p] = t[p]

LEMMA MapOnePage ==
    ASSUME NEW t, NEW c, Frames(t, c), NEW g \in VaPages, NEW f \in Int,
           NoFrame <= f, f < BOOT_FRAMES, NEW n, n = [t EXCEPT ![g] = f]
    PROVE  Remapped(t, c, g, f, n)
<1>1. BOOT_FRAMES \in Nat
  BY BootTypes
<1> QED BY <1>1 DEF Frames, NoFrame, Remapped

LEMMA MapGdtStep ==
    ASSUME KernelFits, NEW q \in Int, MapInv(q), PlaceInv(q), MapGdt
    PROVE  MapInv(q)' /\ PlaceInv(q)' /\ KeptAbove(StackPage(q))
<1> DEFINE g == GdtPage(q)
<1>1. /\ at = "map_gdt" /\ at' = "gdt_init"
      /\ UNCHANGED <<args, envs, image, gdt, tss, user_stack, page_counter>>
      /\ kernel_min_address' = tss - PAGE_SIZE
      /\ pt' = [pt EXCEPT ![PageOf(kernel_min_address')] = GDT_FRAME]
  BY DEF MapGdt, input, host
<1>2. Order(q) /\ tss = PAGE_SIZE * (g + 1)
  BY <1>1, PlaceOrder DEF PlaceInv, Running
<1>3. g \in Int /\ 2 <= g /\ g < VA_PAGES /\ VA_PAGES \in Nat /\ PAGE_SIZE \in Nat \ {0}
  BY <1>2 DEF Order
<1> HIDE DEF g
<1>4. kernel_min_address' = PAGE_SIZE * g
  <2>1. PAGE_SIZE * (g + 1) = PAGE_SIZE * g + PAGE_SIZE /\ PAGE_SIZE * g \in Int
    BY <1>3
  <2> QED BY <1>1, <1>2, <1>3, <2>1
<1>5. g \in VaPages /\ 1 \in VaPages /\ PageOf(kernel_min_address') = g
  BY <1>3, <1>4, PageEnds DEF VaPages
<1>6. /\ Frames(pt, page_counter) /\ pt[1] = GDT_FRAME /\ BootPages(pt, {0, 1})
      /\ Clear(pt, 2, g + 1)
  BY <1>1 DEF MapInv, g
<1>7. /\ Frames(pt', page_counter') /\ pt'[g] = GDT_FRAME
      /\ \A p \in VaPages : p # g => pt'[p] = pt[p]
  <2>1. GDT_FRAME \in Int /\ NoFrame <= GDT_FRAME /\ GDT_FRAME < BOOT_FRAMES
    BY BootTypes DEF GDT_FRAME, NoFrame
  <2>2. pt' = [pt EXCEPT ![g] = GDT_FRAME]
    BY <1>1, <1>5
  <2>3. Remapped(pt, page_counter, g, GDT_FRAME, pt')
    BY <1>5, <1>6, <2>1, <2>2, MapOnePage
  <2> QED BY <1>1, <2>3 DEF Remapped
<1>8. BootPages(pt', {0, 1, g})
  BY <1>6, <1>7 DEF BootPages
<1>9. Clear(pt', 2, g)
  <2> SUFFICES ASSUME NEW p \in VaPages, 2 <= p, p < g PROVE pt'[p] = NoFrame
    BY DEF Clear
  <2>1. p # g /\ p < g + 1
    BY <1>3 DEF VaPages
  <2>2. pt'[p] = pt[p]
    BY <1>7, <2>1
  <2>3. pt[p] = NoFrame
    BY <1>6, <2>1 DEF Clear
  <2> QED BY <2>2, <2>3
<1>10. pt'[1] = GDT_FRAME
  BY <1>3, <1>5, <1>6, <1>7
<1>11. MapInv(q)'
  BY <1>1, <1>7, <1>8, <1>9, <1>10 DEF MapInv, Running, g
<1>12. PlaceInv(q)'
  BY <1>1, <1>4 DEF PlaceInv, Running, g
<1>13. KeptAbove(StackPage(q))
  <2>1. StackPage(q) \in Int /\ g < StackPage(q)
    BY <1>2 DEF Order, g, StackPage
  <2>2. \A p \in VaPages : StackPage(q) <= p => p # g
    BY <1>3, <2>1 DEF VaPages
  <2> QED BY <1>7, <2>2 DEF KeptAbove
<1> QED BY <1>11, <1>12, <1>13

LEMMA GdtInitStep ==
    ASSUME NEW q \in Int, MapInv(q), PlaceInv(q), GdtInit
    PROVE  MapInv(q)' /\ PlaceInv(q)'
<1>1. /\ at = "gdt_init" /\ at' = "unmap" /\ gdt' = kernel_min_address
      /\ UNCHANGED <<args, envs, image, tss, user_stack, page_counter, pt, kernel_min_address>>
  BY DEF GdtInit, input, host, memory
<1>2. MapInv(q)'
  BY <1>1 DEF MapInv, Running
<1>3. PlaceInv(q)'
  BY <1>1 DEF PlaceInv, Running
<1> QED BY <1>2, <1>3

LEMMA UnmapBootstrapStep ==
    ASSUME KernelFits, NEW q \in Int, MapInv(q), PlaceInv(q), UnmapBootstrap
    PROVE  MapInv(q)' /\ PlaceInv(q)' /\ KeptAbove(StackPage(q))
<1> DEFINE g == GdtPage(q)
<1>1. /\ at = "unmap" /\ at' = "vma_init"
      /\ UNCHANGED <<args, envs, image, gdt, tss, user_stack, page_counter, kernel_min_address>>
      /\ pt' = [pt EXCEPT ![0] = NoFrame, ![1] = NoFrame]
  BY DEF UnmapBootstrap, input, host, kernel
<1>2. Order(q)
  BY PlaceOrder DEF PlaceInv
<1>3. g \in Int /\ 2 <= g /\ g < VA_PAGES /\ VA_PAGES \in Nat
  BY <1>2 DEF Order
<1> HIDE DEF g
<1>4. 0 \in VaPages /\ 1 \in VaPages /\ g \in VaPages /\ \A p \in VaPages : p \in Int /\ 0 <= p
  BY <1>3 DEF VaPages
<1>5. /\ Frames(pt, page_counter) /\ BootPages(pt, {0, 1, g}) /\ pt[g] = GDT_FRAME
      /\ Clear(pt, 2, g)
  BY <1>1 DEF MapInv, Running, g
<1>6. /\ Frames(pt', page_counter') /\ pt'[0] = NoFrame /\ pt'[1] = NoFrame
      /\ \A p \in VaPages : p # 0 /\ p # 1 => pt'[p] = pt[p]
  <2>1. NoFrame \in Int /\ NoFrame <= NoFrame /\ NoFrame < BOOT_FRAMES
    BY BootTypes DEF NoFrame
  <2>0. PICK t : t = [pt EXCEPT ![0] = NoFrame]
    OBVIOUS
  <2>2. Remapped(pt, page_counter, 0, NoFrame, t)
    BY <1>4, <1>5, <2>0, <2>1, MapOnePage
  <2>3. pt' = [t EXCEPT ![1] = NoFrame]
    BY <1>1, <2>0
  <2>4. Remapped(t, page_counter, 1, NoFrame, pt')
    <3>1. Frames(t, page_counter)
      BY <2>2 DEF Remapped
    <3> QED BY <1>4, <2>1, <2>3, <3>1, MapOnePage
  <2>5. pt'[0] = NoFrame /\ \A p \in VaPages : p # 0 /\ p # 1 => pt'[p] = pt[p]
    BY <1>4, <2>2, <2>4 DEF Remapped
  <2> QED BY <1>1, <2>4, <2>5 DEF Remapped
<1>7. BootPages(pt', {g})
  BY <1>5, <1>6 DEF BootPages
<1>8. Clear(pt', 0, g)
  <2> SUFFICES ASSUME NEW p \in VaPages, 0 <= p, p < g PROVE pt'[p] = NoFrame
    BY DEF Clear
  <2>1. CASE p = 0 \/ p = 1
    BY <1>6, <2>1
  <2>2. CASE p # 0 /\ p # 1
    BY <1>4, <1>5, <1>6, <2>2 DEF Clear
  <2> QED BY <2>1, <2>2
<1>9. pt'[g] = GDT_FRAME
  BY <1>3, <1>4, <1>5, <1>6
<1>10. MapInv(q)'
  BY <1>1, <1>6, <1>7, <1>8, <1>9 DEF MapInv, Running, g
<1>11. PlaceInv(q)'
  BY <1>1 DEF PlaceInv, Running
<1>12. KeptAbove(StackPage(q))
  <2>1. StackPage(q) \in Int /\ 2 <= StackPage(q)
    BY <1>2 DEF Order, StackPage
  <2>2. \A p \in VaPages : StackPage(q) <= p => p # 0 /\ p # 1
    BY <2>1 DEF VaPages
  <2> QED BY <1>6, <2>2 DEF KeptAbove
<1> QED BY <1>10, <1>11, <1>12

LEMMA VmaInitStep ==
    ASSUME KernelFits, NEW q \in Int, MapInv(q), PlaceInv(q), VmaInit
    PROVE  MapInv(q)' /\ PlaceInv(q)' /\ KeptAbove(StackPage(q))
<1> DEFINE g == GdtPage(q)
           h == HeapPage(q)
<1>1. /\ at = "vma_init" /\ at' = "versions"
      /\ UNCHANGED <<args, envs, image, gdt, tss, user_stack>>
      /\ kernel_min_address' = P2Align(kernel_min_address - vma_max_num, PAGE_SIZE)
      /\ MapFresh(kernel_min_address', kernel_min_address)
  BY DEF VmaInit, input, host
<1>2. Order(q) /\ kernel_min_address = PAGE_SIZE * g
  BY <1>1, PlaceOrder DEF PlaceInv
<1>3. /\ g \in Int /\ h \in Int /\ 2 <= h /\ h <= g /\ g < VA_PAGES /\ VA_PAGES \in Nat
  BY <1>2 DEF Order
<1>4. kernel_min_address' = PAGE_SIZE * h
  BY <1>1, <1>2, LayoutPages DEF PlaceInv
<1> HIDE DEF g, h
<1>5. 0 <= h /\ g <= VA_PAGES /\ 0 < g /\ h < VA_PAGES
  BY <1>3
<1>6. pt' = FreshPages(pt, page_counter, h, g) /\ page_counter' = page_counter + (g - h)
  BY <1>1, <1>2, <1>3, <1>4, <1>5, MapFreshPages
<1>7. /\ Frames(pt, page_counter) /\ BootPages(pt, {g}) /\ pt[g] = GDT_FRAME /\ Clear(pt, 0, g)
  BY <1>1 DEF MapInv, Running, g
<1>8. Fresh(pt, page_counter, pt', page_counter', h, g)
  BY <1>3, <1>6, <1>7, FreshPagesFresh
<1>9. Frames(pt', page_counter') /\ BootPages(pt', {g})
  BY <1>3, <1>7, <1>8, FreshKeeps
<1>10. pt'[g] = GDT_FRAME
  <2>1. g \in VaPages
    BY <1>3 DEF VaPages
  <2> QED BY <1>3, <1>7, <1>8, <2>1 DEF Fresh
<1>11. Clear(pt', 0, h)
  <2>1. Clear(pt, 0, h)
    BY <1>3, <1>7, ClearPart
  <2> QED BY <1>3, <1>7, <1>8, <2>1, FreshKeeps
<1>12. MapInv(q)'
  BY <1>1, <1>9, <1>10, <1>11 DEF MapInv, Running, g, h
<1>13. PlaceInv(q)'
  BY <1>1, <1>4 DEF PlaceInv, Running, h
<1>14. KeptAbove(StackPage(q))
  <2>1. StackPage(q) \in Int /\ g <= StackPage(q)
    BY <1>2 DEF Order, g, StackPage
  <2> QED BY <1>3, <1>8, <2>1, FreshKeptAbove
<1> QED BY <1>12, <1>13, <1>14

LEMMA ReserveVersionsStep ==
    ASSUME KernelFits, NEW q \in Int, MapInv(q), PlaceInv(q), ReserveVersions
    PROVE  MapInv(q)' /\ PlaceInv(q)'
<1>1. /\ at = "versions" /\ at' = "user_stack"
      /\ UNCHANGED <<args, envs, image, gdt, tss, user_stack, pt, page_counter>>
      /\ user_version_end' = VersionEnd /\ kernel_min_address' = user_version_end' \div 2
  BY DEF ReserveVersions, input, host, memory
<1>2. PICK h \in Int : /\ h = HeapPage(q) /\ HalfPage(q) = h \div 2
                       /\ kernel_min_address = PAGE_SIZE * h
  <2>1. HeapPage(q) \in Int
    BY LayoutPages DEF PlaceInv
  <2> QED BY <1>1, <2>1 DEF PlaceInv, HalfPage
<1>3. VersionEnd = PAGE_SIZE * (2 * (h \div 2))
  BY <1>2, HalfFacts DEF VersionEnd
<1>4. kernel_min_address' = PAGE_SIZE * (h \div 2)
  BY <1>1, <1>3, HalfFacts
<1>5. MapInv(q)'
  BY <1>1 DEF MapInv, Running
<1>6. PlaceInv(q)'
  BY <1>1, <1>2, <1>3, <1>4 DEF PlaceInv, Running
<1> QED BY <1>5, <1>6

LEMMA UserStackInitStep ==
    ASSUME KernelFits, NEW q \in Int, MapInv(q), PlaceInv(q), UserStackInit
    PROVE  MapInv(q)' /\ PlaceInv(q)' /\ KeptAbove(StackPage(q))
<1> DEFINE g == GdtPage(q)
           h == HeapPage(q)
           d == HalfPage(q)
<1>1. /\ at = "user_stack" /\ at' = "arrays"
      /\ UNCHANGED <<args, envs, image, gdt, tss, kernel_min_address, user_version_end>>
      /\ user_stack' = [start |-> kernel_min_address, low |-> kernel_min_address - PAGE_SIZE]
      /\ MapFresh(user_stack'.low, user_stack'.start)
  BY DEF UserStackInit, input, host
<1>2. Order(q) /\ kernel_min_address = PAGE_SIZE * d
  BY <1>1, PlaceOrder DEF PlaceInv
<1>3. /\ g \in Int /\ h \in Int /\ d \in Int /\ 1 <= d /\ 2 * d <= h /\ h <= g /\ g < VA_PAGES
      /\ VA_PAGES \in Nat /\ PAGE_SIZE \in Nat \ {0}
  BY <1>2 DEF Order
<1> HIDE DEF g, h, d
<1>4. PICK a \in Int : a = d - 1
  BY <1>3
<1>5. user_stack'.low = PAGE_SIZE * a /\ user_stack'.start = PAGE_SIZE * d
  <2>1. PAGE_SIZE * d = PAGE_SIZE * a + PAGE_SIZE /\ PAGE_SIZE * a \in Int
    BY <1>3, <1>4
  <2>2. user_stack'.low = kernel_min_address - PAGE_SIZE
    BY <1>1
  <2>3. user_stack'.start = kernel_min_address
    BY <1>1
  <2> QED BY <1>2, <1>3, <2>1, <2>2, <2>3
<1>6. 0 <= a /\ a <= d /\ d <= VA_PAGES /\ 0 < d /\ a < VA_PAGES /\ d <= h /\ d <= g
  BY <1>3, <1>4
<1>7. pt' = FreshPages(pt, page_counter, a, d) /\ page_counter' = page_counter + (d - a)
  BY <1>1, <1>3, <1>5, <1>6, MapFreshPages
<1>8. /\ Frames(pt, page_counter) /\ BootPages(pt, {g}) /\ pt[g] = GDT_FRAME /\ Clear(pt, 0, h)
  BY <1>1 DEF MapInv, Running, g, h
<1>9. Fresh(pt, page_counter, pt', page_counter', a, d)
  BY <1>3, <1>6, <1>7, <1>8, FreshPagesFresh
<1>10. Frames(pt', page_counter') /\ BootPages(pt', {g})
  BY <1>3, <1>8, <1>9, FreshKeeps
<1>11. pt'[g] = GDT_FRAME
  <2>1. g \in VaPages
    BY <1>3 DEF VaPages
  <2> QED BY <1>3, <1>6, <1>8, <1>9, <2>1 DEF Fresh
<1>12. Clear(pt', d, h)
  <2>1. Clear(pt, d, h)
    BY <1>3, <1>6, <1>8, ClearPart
  <2> QED BY <1>3, <1>8, <1>9, <2>1, FreshKeeps
<1>13. MapInv(q)'
  BY <1>1, <1>10, <1>11, <1>12 DEF MapInv, Running, g, h, d
<1>14. PlaceInv(q)'
  <2>1. user_stack' = [start |-> user_stack'.start, low |-> user_stack'.low]
    BY <1>1
  <2> QED BY <1>1, <1>5, <2>1 DEF PlaceInv, Running, d
<1>15. KeptAbove(StackPage(q))
  <2>1. StackPage(q) \in Int /\ d <= StackPage(q)
    BY <1>2, <1>3 DEF Order, d, StackPage
  <2> QED BY <1>3, <1>9, <2>1, FreshKeptAbove
<1> QED BY <1>13, <1>14, <1>15

\* The calls of the kernel map nothing.
LEMMA CallSteps ==
    ASSUME NEW q \in Int, MapInv(q), PlaceInv(q), CallKernelMain \/ AllocateArrays
    PROVE  MapInv(q)' /\ PlaceInv(q)'
<1>1. /\ UNCHANGED <<args, envs, image, pt, page_counter, tss, gdt, kernel_min_address,
                      user_version_end, user_stack>>
      /\ \/ at = "start" /\ at' \in {"map_gdt", "corrupt", "fault"}
         \/ at = "arrays" /\ at' \in {"user_land", "corrupt", "fault"}
  <2>1. CASE CallKernelMain
    BY <2>1 DEF CallKernelMain, CallsUse, input, host, kernel
  <2>2. CASE AllocateArrays
    BY <2>2 DEF AllocateArrays, CallsUse, input, host, kernel
  <2> QED BY <2>1, <2>2
<1>2. MapInv(q)'
  BY <1>1 DEF MapInv, Running
<1>3. PlaceInv(q)'
  BY <1>1 DEF PlaceInv, Running
<1> QED BY <1>2, <1>3

LEMMA KernelFaultsStep ==
    ASSUME NEW q \in Int, MapInv(q), PlaceInv(q), KernelFaults
    PROVE  MapInv(q)' /\ PlaceInv(q)'
<1>1. at' = "fault" /\ UNCHANGED <<args, envs, image, user_stack, pt, page_counter>>
  BY DEF KernelFaults, input, memory, host, kernel
<1> QED BY <1>1 DEF MapInv, PlaceInv, Running

-----------------------------------------------------------------------------
(* load_user_land: where the strings go. *)

\* Strings of len[0], len[1], ... bytes and a terminator each, one below the
\* other from top down.
Down(g, n, top, len) ==
    g[n] = top /\ \A i \in 0 .. n - 1 : g[i] = g[i + 1] - (len[i] + 1)

\* There are such places.
LEMMA DownExists ==
    ASSUME NEW n \in Nat, NEW top \in Int, NEW len \in [0 .. n - 1 -> Nat]
    PROVE  \E g \in [0 .. n -> Int] : Down(g, n, top, len)
<1> DEFINE Part(m) == \E g \in [0 .. n -> Int] :
                        /\ g[n] = top
                        /\ \A i \in 0 .. n - 1 : i >= n - m => g[i] = g[i + 1] - (len[i] + 1)
           S == {m \in Nat : m <= n => Part(m)}
<1>1. 0 \in S
  <2> DEFINE g == [i \in 0 .. n |-> top]
  <2>1. g \in [0 .. n -> Int] /\ g[n] = top
    OBVIOUS
  <2>2. \A i \in 0 .. n - 1 : ~(i >= n - 0)
    OBVIOUS
  <2> QED BY <2>1, <2>2
<1>2. ASSUME NEW m \in Nat, m \in S PROVE m + 1 \in S
  <2> SUFFICES ASSUME m + 1 <= n PROVE Part(m + 1)
    <3>1. m + 1 \in Nat
      OBVIOUS
    <3> HIDE DEF Part
    <3> QED BY <3>1
  <2>1. PICK g \in [0 .. n -> Int] :
            /\ g[n] = top
            /\ \A i \in 0 .. n - 1 : i >= n - m => g[i] = g[i + 1] - (len[i] + 1)
    BY <1>2
  <2>2. PICK j \in 0 .. n - 1 : j = n - (m + 1)
    OBVIOUS
  <2>3. PICK x \in Int : x = g[j + 1] - (len[j] + 1)
    OBVIOUS
  <2> DEFINE f == [g EXCEPT ![j] = x]
  <2>4. f \in [0 .. n -> Int] /\ f[j] = x /\ \A i \in 0 .. n : i # j => f[i] = g[i]
    BY <2>1
  <2> HIDE DEF f
  <2>5. f[n] = top
    BY <2>1, <2>2, <2>4
  <2>6. ASSUME NEW i \in 0 .. n - 1, i >= n - (m + 1)
        PROVE  f[i] = f[i + 1] - (len[i] + 1)
    <3>1. f[i + 1] = g[i + 1]
      <4>1. i + 1 \in 0 .. n /\ i + 1 # j
        BY <2>2, <2>6
      <4> QED BY <2>4, <4>1
    <3>2. CASE i = j
      BY <2>3, <2>4, <3>1, <3>2
    <3>3. CASE i # j
      <4>1. i \in 0 .. n /\ i >= n - m
        BY <2>2, <2>6, <3>3
      <4> QED BY <2>1, <2>4, <3>1, <3>3, <4>1
    <3> QED BY <3>2, <3>3
  <2> QED BY <2>4, <2>5, <2>6
<1>3. n \in S
  <2> HIDE DEF S
  <2> QED BY <1>1, <1>2, SetInduction
<1>4. Part(n)
  <2> HIDE DEF Part
  <2> QED BY <1>3
<1>5. PICK g \in [0 .. n -> Int] :
          /\ g[n] = top
          /\ \A i \in 0 .. n - 1 : i >= n - n => g[i] = g[i + 1] - (len[i] + 1)
  BY <1>4, Zenon
<1>6. \A i \in 0 .. n - 1 : i >= n - n
  OBVIOUS
<1> QED BY <1>5, <1>6 DEF Down

\* From the top down there is room for all of them.
LEMMA DownBelow ==
    ASSUME NEW n \in Nat, NEW top \in Int, NEW len \in [0 .. n - 1 -> Nat],
           NEW g \in [0 .. n -> Int], Down(g, n, top, len)
    PROVE  \A i \in 0 .. n : g[i] <= top
<1> DEFINE S == {m \in Nat : \A i \in 0 .. n : i >= n - m => g[i] <= top}
<1>1. 0 \in S
  BY DEF Down
<1>2. ASSUME NEW m \in Nat, m \in S PROVE m + 1 \in S
  <2> SUFFICES ASSUME NEW i \in 0 .. n, i >= n - (m + 1) PROVE g[i] <= top
    OBVIOUS
  <2>1. CASE i = n
    BY <2>1 DEF Down
  <2>2. CASE i # n
    <3>1. i \in 0 .. n - 1 /\ i + 1 \in 0 .. n /\ i + 1 >= n - m
      BY <2>2
    <3>2. g[i + 1] <= top
      BY <1>2, <3>1
    <3>3. g[i] = g[i + 1] - (len[i] + 1) /\ len[i] \in Nat
      BY <3>1 DEF Down
    <3>4. PICK x \in Int, y \in Int, l \in Nat : x = g[i] /\ y = g[i + 1] /\ l = len[i]
      BY <3>1, <3>3
    <3>5. x = y - (l + 1) /\ y <= top
      BY <3>2, <3>3, <3>4
    <3>6. x <= top
      BY ONLY <3>5, x \in Int, y \in Int, l \in Nat, top \in Int
    <3> QED BY <3>4, <3>6
  <2> QED BY <2>1, <2>2
<1>3. n \in S
  <2> HIDE DEF S
  <2> QED BY <1>1, <1>2, SetInduction
<1> QED BY <1>3

PositionFun(g, array, n, top) ==
    g = [i \in 0 .. n |->
           IF i = n THEN top ELSE g[i + 1] - (StrLen(WordAt(array + i * WORD)) + 1)]
Lengths(array, n) == [i \in 0 .. n - 1 |-> StrLen(WordAt(array + i * WORD))]

LEMMA PositionUnfold ==
    ASSUME NEW array, NEW n, NEW top
    PROVE  Position(array, n, top) = CHOOSE g : PositionFun(g, array, n, top)
BY DEF Position, PositionFun

\* The recursion of the copied strings' places ends, and they lie below top.
Placed(pos, n, top) == pos \in [0 .. n -> Int] /\ pos[n] = top /\ \A i \in 0 .. n : pos[i] <= top

LEMMA PositionPlaced ==
    ASSUME NEW array, NEW n \in Nat, NEW top \in Int,
           \A i \in 0 .. n - 1 : StrLen(WordAt(array + i * WORD)) \in Nat
    PROVE  /\ Placed(Position(array, n, top), n, top)
           /\ Down(Position(array, n, top), n, top, Lengths(array, n))
<1>1. PICK len : len = Lengths(array, n)
  OBVIOUS
<1>2. len \in [0 .. n - 1 -> Nat] /\ \A i \in 0 .. n - 1 : len[i] = StrLen(WordAt(array + i * WORD))
  BY <1>1 DEF Lengths
<1>3. PICK g \in [0 .. n -> Int] : Down(g, n, top, len)
  BY <1>2, DownExists
<1>4. PositionFun(g, array, n, top)
  <2>1. \A i \in 0 .. n :
           g[i] = IF i = n THEN top ELSE g[i + 1] - (StrLen(WordAt(array + i * WORD)) + 1)
    <3> SUFFICES ASSUME NEW i \in 0 .. n
                 PROVE  g[i] = IF i = n THEN top
                               ELSE g[i + 1] - (StrLen(WordAt(array + i * WORD)) + 1)
      OBVIOUS
    <3>1. CASE i = n
      BY <1>3, <3>1 DEF Down
    <3>2. CASE i # n
      <4>1. i \in 0 .. n - 1
        BY <3>2
      <4> QED BY <1>2, <1>3, <3>2, <4>1 DEF Down
    <3> QED BY <3>1, <3>2
  <2> QED BY <2>1 DEF PositionFun
<1>5. PICK pos : pos = Position(array, n, top)
  OBVIOUS
<1>6. PositionFun(pos, array, n, top)
  <2>1. \E f : PositionFun(f, array, n, top)
    BY <1>4
  <2> QED BY <1>5, <2>1, PositionUnfold
<1>7. /\ DOMAIN pos = 0 .. n /\ pos = [i \in 0 .. n |-> pos[i]] /\ pos[n] = top
      /\ \A i \in 0 .. n - 1 : pos[i] = pos[i + 1] - (len[i] + 1)
  <2>1. pos = [i \in 0 .. n |-> IF i = n THEN top
                               ELSE pos[i + 1] - (StrLen(WordAt(array + i * WORD)) + 1)]
    BY <1>6 DEF PositionFun
  <2>2. DOMAIN pos = 0 .. n /\ pos = [i \in 0 .. n |-> pos[i]]
    BY <2>1, Zenon
  <2>3. \A i \in 0 .. n : pos[i] = IF i = n THEN top
                                   ELSE pos[i + 1] - (StrLen(WordAt(array + i * WORD)) + 1)
    BY <2>1, Zenon
  <2>4. pos[n] = top
    BY <2>3
  <2>5. ASSUME NEW i \in 0 .. n - 1 PROVE pos[i] = pos[i + 1] - (len[i] + 1)
    <3>1. i \in 0 .. n /\ i # n
      OBVIOUS
    <3> QED BY <1>2, <2>3, <3>1
  <2> QED BY <2>2, <2>4, <2>5
<1>8. \A i \in 0 .. n : pos[i] \in Int
  <2> DEFINE S == {m \in Nat : \A i \in 0 .. n : i >= n - m => pos[i] \in Int}
  <2>1. 0 \in S
    BY <1>7
  <2>2. ASSUME NEW m \in Nat, m \in S PROVE m + 1 \in S
    <3> SUFFICES ASSUME NEW i \in 0 .. n, i >= n - (m + 1) PROVE pos[i] \in Int
      OBVIOUS
    <3>1. CASE i = n
      BY <1>7, <3>1
    <3>2. CASE i # n
      <4>1. i \in 0 .. n - 1 /\ i + 1 \in 0 .. n /\ i + 1 >= n - m
        BY <3>2
      <4>2. pos[i + 1] \in Int
        BY <2>2, <4>1
      <4>3. PICK x \in Int, l \in Nat : x = pos[i + 1] /\ l = len[i]
        BY <1>2, <4>1, <4>2
      <4>4. pos[i] = x - (l + 1)
        BY <1>7, <4>1, <4>3
      <4> QED BY <4>4
    <3> QED BY <3>1, <3>2
  <2>3. n \in S
    <3> HIDE DEF S
    <3> QED BY <2>1, <2>2, SetInduction
  <2> QED BY <2>3
<1>9. pos \in [0 .. n -> Int] /\ Down(pos, n, top, len)
  BY <1>7, <1>8 DEF Down
<1>10. \A i \in 0 .. n : pos[i] <= top
  BY <1>2, <1>9, DownBelow
<1> QED BY <1>1, <1>5, <1>7, <1>9, <1>10 DEF Placed

\* strlen of a string that can be read.
LEMMA ReadableLengths ==
    ASSUME NEW array, NEW n \in Nat, Readable(array, n)
    PROVE  \A i \in 0 .. n - 1 : StrLen(WordAt(array + i * WORD)) \in Nat
<1> SUFFICES ASSUME NEW i \in 0 .. n - 1 PROVE StrLen(WordAt(array + i * WORD)) \in Nat
  OBVIOUS
<1>1. PICK s : s = WordAt(array + i * WORD)
  OBVIOUS
<1>2. \E l \in 0 .. PAGE_SIZE * KSTACK_PAGES : StringEnds(s, l)
  BY <1>1 DEF Readable
<1>3. StrLen(s) \in 0 .. PAGE_SIZE * KSTACK_PAGES
  BY <1>2 DEF StrLen
<1> QED BY <1>1, <1>3

\* The null entry of a vector ends the list of entries.
LEMMA AuxLength == Aux \in Seq(Int) /\ Len(Aux) \in Nat
<1>1. AuxIds \in Seq(Int) /\ Len(AuxIds) = 8
  BY DEF AuxIds
<1>2. PICK m : m = IF Len(AuxIds) > MAX_ENTRIES THEN MAX_ENTRIES ELSE Len(AuxIds)
  OBVIOUS
<1>3. m \in 0 .. 8
  <2>1. MAX_ENTRIES \in Nat
    BY BootAssumption
  <2> QED BY <1>1, <1>2, <2>1
<1>4. Aux = SubSeq(AuxIds, 1, m)
  BY <1>2 DEF Aux
<1>5. Aux \in Seq(Int)
  <2>0. ASSUME NEW i \in 1 .. m PROVE AuxIds[i] \in Int
    <3>1. i \in 1 .. Len(AuxIds)
      BY <1>1, <1>3
    <3> QED BY <1>1, <3>1, ElementOfSeq
  <2>1. 1 \in Int /\ m \in Int /\ \A i \in 1 .. m : AuxIds[i] \in Int
    BY <1>3, <2>0
  <2> QED BY <1>4, <2>1, SubSeqProperties
<1> QED BY <1>5

\* The addresses of load_user_land: each block ends where the one above it
\* starts, and the words at the stack pointer end below the random bytes.
UserPlaces(u, top) ==
    /\ u.envc \in 0 .. envc
    /\ Placed(u.argv, argc, top) /\ Placed(u.envp, u.envc, u.argv[0])
    /\ u.random \in Int /\ u.sp \in Int /\ u.random <= u.envp[0]
    /\ u.sp + (2 * Len(Aux) + 2 + Items(u.envc)) * WORD <= u.random

LEMMA UserLayoutPlaced ==
    ASSUME ~ArgumentsUnreadable, args \in Arguments, envs \in Environments,
           user_stack.start \in Int, NEW u, u = UserLayout
    PROVE  UserPlaces(u, user_stack.start)
<1>1. argc \in Nat /\ envc \in Nat
  <2>1. args \in Seq(Nat) /\ envs \in Seq(Nat)
    BY BootAssumption
  <2> QED BY <2>1 DEF argc, envc
<1>2. PICK n : n = KernelEnvc
  OBVIOUS
<1>3. Readable(argv, argc) /\ (\E m \in 0 .. envc : EnvpEnds(m)) /\ Readable(envp, n)
  BY <1>2 DEF ArgumentsUnreadable, EnvpUnreadable
<1>4. n \in 0 .. envc
  BY <1>2, <1>3 DEF KernelEnvc
<1>5. PICK s : s = Position(argv, argc, user_stack.start)
  OBVIOUS
<1>6. Placed(s, argc, user_stack.start)
  BY <1>1, <1>3, <1>5, ReadableLengths, PositionPlaced
<1>7. s[0] \in Int
  BY <1>1, <1>6 DEF Placed
<1>8. PICK e : e = Position(envp, n, s[0])
  OBVIOUS
<1>9. Placed(e, n, s[0])
  <2>1. n \in Nat
    BY <1>1, <1>4
  <2>2. \A i \in 0 .. n - 1 : StrLen(WordAt(envp + i * WORD)) \in Nat
    BY <1>3, <2>1, ReadableLengths
  <2> QED BY <1>7, <1>8, <2>1, <2>2, PositionPlaced
<1>10. e[0] \in Int
  BY <1>1, <1>4, <1>9 DEF Placed
<1>11. PICK r \in Int : r = e[0] - 2 * WORD /\ r <= e[0]
  <2>1. PICK f \in Int, w \in Nat : f = e[0] /\ w = 2 * WORD
    BY <1>10, BootTypes
  <2>2. f - w \in Int /\ f - w <= f
    OBVIOUS
  <2> QED BY <2>1, <2>2
<1>12. PICK x \in Int : x = (2 * Len(Aux) + 2 + Items(n)) * WORD
  <2>1. Items(n) \in Int /\ Len(Aux) \in Int
    BY <1>1, <1>4, AuxLength DEF Items
  <2>2. 2 * Len(Aux) + 2 + Items(n) \in Int
    BY <2>1
  <2> QED BY <2>2, BootTypes
<1>13. PICK z : z = P2Align(r - x, 2 * WORD)
  OBVIOUS
<1>14. z \in Int /\ z + x <= r
  <2>1. PICK a \in Int, w \in Nat \ {0} : a = r - x /\ w = 2 * WORD
    BY BootTypes
  <2>2. P2Align(a, w) \in Int /\ P2Align(a, w) <= a
    BY AlignFacts
  <2> QED BY <1>13, <2>1, <2>2
<1>15. u = [argv |-> s, envc |-> n, envp |-> e, random |-> r, sp |-> z]
  BY <1>2, <1>5, <1>8, <1>11, <1>12, <1>13 DEF UserLayout
<1> QED BY <1>4, <1>6, <1>9, <1>11, <1>12, <1>14, <1>15 DEF UserPlaces

\* The stack has grown down to the page of the stack pointer, within the limit.
GrownPages(sp, d, b) ==
    /\ GrownLow(sp) = PAGE_SIZE * b /\ GrownLow(sp) < sp
    /\ d - user_stack_page_limit <= b /\ b < d

LEMMA GrownPage ==
    ASSUME NEW sp \in Int, NEW d \in Int, user_stack.start = PAGE_SIZE * d, sp <= PAGE_SIZE * d,
           ~TooDeep(sp)
    PROVE  \E b \in Int : GrownPages(sp, d, b)
<1>1. PICK P \in Nat \ {0} : P = PAGE_SIZE
  BY BootTypes
<1>2. PICK n \in Int : P2RoundUp(sp, P) = P * n /\ sp <= P * n /\ P * n < sp + P
  BY RoundUpFacts
<1>3. PICK b \in Int : b = n - 1
  OBVIOUS
<1>4. P * b = (P * n) - P
  BY <1>3
<1>5. GrownLow(sp) = P * b
  BY <1>1, <1>2, <1>4 DEF GrownLow
<1>6. PICK x \in Int, y \in Int, z \in Int : x = P * b /\ y = P * d /\ z = P * n
  OBVIOUS
<1>7. x < sp /\ x < y
  BY <1>1, <1>2, <1>4, <1>6
<1>8. b < d
  BY <1>6, <1>7, PageOrder
<1>9. (y - x) \div P = d - b
  <2>1. PICK m \in Int, e \in Int : m = d - b /\ e = y - x
    OBVIOUS
  <2>2. e = P * m
    BY <1>6, <2>1, PageOrder
  <2>3. 0 \in 0 .. P - 1 /\ e = P * m + 0
    BY <2>2
  <2>4. e \div P = m
    BY <2>3, DivisionUnique
  <2> QED BY <2>1, <2>4
<1>10. ~((y - x) \div P > user_stack_page_limit)
  BY <1>1, <1>5, <1>6 DEF TooDeep
<1>11. d - user_stack_page_limit <= b
  BY <1>9, <1>10, BootTypes
<1> QED BY <1>1, <1>5, <1>6, <1>7, <1>8, <1>11 DEF GrownPages

\* So all of it lies below the top, in this order.
LEMMA PlacesBelow ==
    ASSUME NEW u, NEW top \in Int, UserPlaces(u, top), args \in Arguments, envs \in Environments
    PROVE  /\ argc \in Nat /\ u.envc \in Nat /\ Items(u.envc) = argc + u.envc + 3
           /\ u.argv[0] \in Int /\ u.argv[0] <= top
           /\ u.envp[0] \in Int /\ u.envp[0] <= u.argv[0]
           /\ u.random \in Int /\ u.random <= u.envp[0]
           /\ (2 * Len(Aux) + 2 + Items(u.envc)) * WORD \in Nat
           /\ u.sp \in Int /\ u.sp + (2 * Len(Aux) + 2 + Items(u.envc)) * WORD <= u.random
           /\ u.sp <= top
<1>1. args \in Seq(Nat) /\ envs \in Seq(Nat)
  BY BootAssumption
<1>2. argc \in Nat /\ envc \in Nat
  BY <1>1 DEF argc, envc
<1>3. u.envc \in Nat
  BY <1>2 DEF UserPlaces
<1>4. u.argv[0] \in Int /\ u.argv[0] <= top
  BY <1>2 DEF UserPlaces, Placed
<1>5. u.envp[0] \in Int /\ u.envp[0] <= u.argv[0]
  BY <1>3 DEF UserPlaces, Placed
<1>6. Items(u.envc) = argc + u.envc + 3 /\ Items(u.envc) \in Nat
  BY <1>2, <1>3 DEF Items
<1>7. PICK x \in Nat : x = (2 * Len(Aux) + 2 + Items(u.envc)) * WORD
  <2>1. PICK m \in Nat : m = 2 * Len(Aux) + 2 + Items(u.envc)
    BY <1>6, AuxLength
  <2> QED BY <2>1, BootTypes
<1>8. /\ u.random \in Int /\ u.sp \in Int /\ u.random <= u.envp[0]
      /\ u.sp + x <= u.random
  BY <1>7 DEF UserPlaces
<1>9. u.sp <= top
  BY <1>4, <1>5, <1>8
<1> QED BY <1>2, <1>3, <1>4, <1>5, <1>6, <1>7, <1>8, <1>9

\* What load_user_land does to the page table and the stack.
LEMMA LoadUserLandMaps ==
    ASSUME LoadUserLand
    PROVE  /\ at = "user_land" /\ ~ArgumentsUnreadable /\ at' = "user"
           /\ UNCHANGED <<args, envs, k, image, argv, envp, tss, gdt, kernel_min_address,
                          user_version_end>>
           /\ \E u : /\ u = UserLayout /\ ~TooDeep(u.sp)
                     /\ MapFresh(GrownLow(u.sp), user_stack.start)
                     /\ user_stack' = [user_stack EXCEPT !.low = GrownLow(u.sp)]
<1>1. /\ at = "user_land" /\ ~ArgumentsUnreadable /\ at' = "user"
      /\ UNCHANGED <<input, k, host, gdt, kernel_min_address, user_version_end>>
  BY DEF LoadUserLand
<1>2. UNCHANGED <<args, envs, k, image, argv, envp, tss, gdt, kernel_min_address,
                  user_version_end>>
  BY <1>1 DEF input, host
<1>3. \E u \in {UserLayout} : /\ ~TooDeep(u.sp)
                              /\ MapFresh(GrownLow(u.sp), user_stack.start)
                              /\ user_stack' = [user_stack EXCEPT !.low = GrownLow(u.sp)]
  BY Zenon DEF LoadUserLand
<1> QED BY <1>1, <1>2, <1>3

LEMMA LoadUserLandStep ==
    ASSUME KernelFits, NEW q \in Int, MapInv(q), PlaceInv(q), LoadUserLand
    PROVE  MapInv(q)' /\ PlaceInv(q)' /\ KeptAbove(StackPage(q))
<1> DEFINE g == GdtPage(q)
           h == HeapPage(q)
           d == HalfPage(q)
<1>1. /\ at = "user_land" /\ at' = "user" /\ ~ArgumentsUnreadable
      /\ UNCHANGED <<args, envs, image, gdt, tss, kernel_min_address, user_version_end>>
  BY LoadUserLandMaps
<1>2. PICK u : /\ u = UserLayout /\ ~TooDeep(u.sp)
               /\ MapFresh(GrownLow(u.sp), user_stack.start)
               /\ user_stack' = [user_stack EXCEPT !.low = GrownLow(u.sp)]
  BY LoadUserLandMaps
<1>3. Order(q) /\ user_stack.start = PAGE_SIZE * d
  BY <1>1, PlaceOrder DEF PlaceInv
<1>4. /\ g \in Int /\ h \in Int /\ d \in Int /\ 1 <= d /\ 2 * d <= h /\ h <= g /\ g < VA_PAGES
      /\ VA_PAGES \in Nat /\ PAGE_SIZE \in Nat \ {0}
      /\ user_stack_page_limit \in Nat /\ user_stack_page_limit <= d
  BY <1>3 DEF Order
<1> HIDE DEF g, h, d
<1>5. UserPlaces(u, user_stack.start)
  BY <1>1, <1>2, <1>3, <1>4, UserLayoutPlaced DEF PlaceInv
<1>6. u.sp \in Int /\ u.sp <= PAGE_SIZE * d
  <2>1. PAGE_SIZE * d \in Int /\ args \in Arguments /\ envs \in Environments
    BY <1>4 DEF PlaceInv
  <2> QED BY <1>3, <1>5, <2>1, PlacesBelow
<1>7. PICK b \in Int : GrownPages(u.sp, d, b)
  BY <1>2, <1>3, <1>4, <1>6, GrownPage
<1>8. GrownLow(u.sp) = PAGE_SIZE * b /\ b < d /\ 0 <= b
  BY <1>4, <1>7 DEF GrownPages
<1>9. 0 <= b /\ b <= d /\ d <= VA_PAGES /\ 0 < d /\ b < VA_PAGES /\ d <= h /\ d <= g
  BY <1>4, <1>8
<1>10. pt' = FreshPages(pt, page_counter, b, d) /\ page_counter' = page_counter + (d - b)
  BY <1>2, <1>3, <1>4, <1>8, <1>9, MapFreshPages
<1>11. /\ Frames(pt, page_counter) /\ BootPages(pt, {g}) /\ pt[g] = GDT_FRAME /\ Clear(pt, d, h)
  BY <1>1 DEF MapInv, Running, g, h, d
<1>12. Fresh(pt, page_counter, pt', page_counter', b, d)
  BY <1>4, <1>9, <1>10, <1>11, FreshPagesFresh
<1>13. Frames(pt', page_counter') /\ BootPages(pt', {g})
  BY <1>4, <1>11, <1>12, FreshKeeps
<1>14. pt'[g] = GDT_FRAME
  <2>1. g \in VaPages
    BY <1>4 DEF VaPages
  <2> QED BY <1>4, <1>9, <1>11, <1>12, <2>1 DEF Fresh
<1>15. Clear(pt', d, h)
  BY <1>4, <1>11, <1>12, FreshKeeps
<1>16. MapInv(q)'
  BY <1>1, <1>13, <1>14, <1>15 DEF MapInv, Running, g, h, d
<1>17. user_stack'.start = user_stack.start
       /\ user_stack' = [start |-> user_stack'.start, low |-> user_stack'.low]
  <2>1. user_stack = [start |-> user_stack.start, low |-> user_stack.low]
    BY DEF PlaceInv
  <2> QED BY <1>2, <2>1
<1>18. PlaceInv(q)'
  BY <1>1, <1>3, <1>17 DEF PlaceInv, Running, d
<1>19. KeptAbove(StackPage(q))
  <2>1. StackPage(q) \in Int /\ d <= StackPage(q)
    BY <1>3, <1>4 DEF Order, d, StackPage
  <2> QED BY <1>4, <1>12, <2>1, FreshKeptAbove
<1> QED BY <1>16, <1>18, <1>19

-----------------------------------------------------------------------------
(* Every step, and what follows from the invariant. *)

LEMMA BootStep ==
    ASSUME KernelFits, BootInv, [Next]_vars
    PROVE  BootInv'
<1>1. PICK q \in Int : MapInv(q) /\ PlaceInv(q)
  BY DEF BootInv
<1>2. CASE UNCHANGED vars
  <2>1. UNCHANGED <<args, envs, at, pt, page_counter, image, tss, gdt, kernel_min_address,
                    user_version_end, user_stack>>
    BY <1>2 DEF vars, input, memory, host, kernel
  <2>2. MapInv(q)' /\ PlaceInv(q)'
    BY <1>1, <2>1 DEF MapInv, PlaceInv
  <2> QED BY <2>2 DEF BootInv
<1>3. CASE Next
  <2>1. CASE LoadSegment
    BY <1>1, <2>1, LoadSegmentStep
  <2>2. CASE SkipSegment \/ PutArg \/ ArgvDone \/ PutEnv \/ PutArrays
    BY <1>1, <2>2, ArgumentSteps DEF BootInv
  <2>3. CASE MapKernelStack
    BY <1>1, <2>3, MapKernelStackStep DEF BootInv
  <2>4. CASE SetupTss
    BY <1>1, <2>4, SetupTssStep DEF BootInv
  <2>5. CASE MapGdt
    BY <1>1, <2>5, MapGdtStep DEF BootInv
  <2>6. CASE GdtInit
    BY <1>1, <2>6, GdtInitStep DEF BootInv
  <2>7. CASE UnmapBootstrap
    BY <1>1, <2>7, UnmapBootstrapStep DEF BootInv
  <2>8. CASE VmaInit
    BY <1>1, <2>8, VmaInitStep DEF BootInv
  <2>9. CASE ReserveVersions
    BY <1>1, <2>9, ReserveVersionsStep DEF BootInv
  <2>10. CASE UserStackInit
    BY <1>1, <2>10, UserStackInitStep DEF BootInv
  <2>11. CASE KernelFaults
    BY <1>1, <2>11, KernelFaultsStep DEF BootInv
  <2>12. CASE LoadUserLand
    BY <1>1, <2>12, LoadUserLandStep DEF BootInv
  <2>13. CASE CallKernelMain \/ AllocateArrays
    BY <1>1, <2>13, CallSteps DEF BootInv
  <2> QED BY <1>3, <2>1, <2>2, <2>3, <2>4, <2>5, <2>6, <2>7, <2>8, <2>9, <2>10, <2>11, <2>12,
             <2>13 DEF Next
<1> QED BY <1>2, <1>3

LEMMA GdtFollows ==
    ASSUME KernelFits, BootInv
    PROVE  GdtMapped
<1>1. PICK q \in Int : MapInv(q) /\ PlaceInv(q)
  BY DEF BootInv
<1>2. Order(q)
  BY <1>1, PlaceOrder DEF PlaceInv
<1>3. GdtPage(q) \in 0 .. VA_PAGES - 1 /\ 1 \in 0 .. VA_PAGES - 1 /\ GdtPage(q) \in Int
  BY <1>2 DEF Order
<1>4. PageOf(PAGE_SIZE * GdtPage(q)) = GdtPage(q) /\ PageOf(PAGE_SIZE * 1) = 1
  BY <1>3, PageEnds
<1>5. CASE at \in {"start", "map_gdt", "gdt_init"}
  BY <1>1, <1>4, <1>5 DEF MapInv, PlaceInv, GdtMapped, Running
<1>6. CASE at \in Running \ {"start", "map_gdt", "gdt_init"}
  BY <1>1, <1>4, <1>6 DEF MapInv, PlaceInv, GdtMapped, Running
<1>7. CASE at \notin Running
  BY <1>7 DEF GdtMapped, GuestRuns, Running
<1> QED BY <1>5, <1>6, <1>7

\* For every kernel image that fits, page size, number of area nodes and all
\* arguments: while the guest runs, the processor's descriptor table is
\* mapped, and it is the one the host filled.
THEOREM GdtStaysMapped ==
    ASSUME KernelFits
    PROVE  Spec => []GdtMapped
<1>1. Init => BootInv
  BY BootInit
<1>2. BootInv /\ [Next]_vars => BootInv'
  BY BootStep
<1>3. BootInv => GdtMapped
  BY GdtFollows
<1> QED BY <1>1, <1>2, <1>3, PTL DEF Spec

\* Two places are apart.
Apart(r, s) == r[2] <= s[1] \/ s[2] <= r[1]

\* Where the regions below the image are, in their order.
Below(q, r) ==
    \/ r = <<PAGE_SIZE * (q - KSTACK_PAGES), PAGE_SIZE * q>>
    \/ r = <<PAGE_SIZE * (GdtPage(q) + 1), PAGE_SIZE * (q - (KSTACK_PAGES + 1))>>
    \/ r = <<PAGE_SIZE * GdtPage(q), PAGE_SIZE * (GdtPage(q) + 1)>>
    \/ r = <<PAGE_SIZE * HeapPage(q), PAGE_SIZE * GdtPage(q)>>
    \/ r = <<PAGE_SIZE * HalfPage(q), PAGE_SIZE * (2 * HalfPage(q))>>
    \/ r = <<PAGE_SIZE * (HalfPage(q) - user_stack_page_limit), PAGE_SIZE * HalfPage(q)>>

LEMMA BelowApart ==
    ASSUME NEW q \in Int, Order(q), NEW r, NEW s, Below(q, r), Below(q, s), r # s
    PROVE  Apart(r, s)
<1> DEFINE x0 == PAGE_SIZE * (HalfPage(q) - user_stack_page_limit)
           x1 == PAGE_SIZE * HalfPage(q)
           x2 == PAGE_SIZE * (2 * HalfPage(q))
           x3 == PAGE_SIZE * HeapPage(q)
           x4 == PAGE_SIZE * GdtPage(q)
           x5 == PAGE_SIZE * (GdtPage(q) + 1)
           x6 == PAGE_SIZE * (q - (KSTACK_PAGES + 1))
           x7 == PAGE_SIZE * (q - KSTACK_PAGES)
           x8 == PAGE_SIZE * q
<1>1. PICK P \in Nat \ {0}, g \in Int, h \in Int, d \in Int, l \in Nat, K \in Nat :
        /\ P = PAGE_SIZE /\ g = GdtPage(q) /\ h = HeapPage(q) /\ d = HalfPage(q)
        /\ l = user_stack_page_limit /\ K = KSTACK_PAGES
        /\ d - l <= d /\ d <= 2 * d /\ 2 * d <= h /\ h <= g /\ g <= g + 1 /\ g + 1 <= q - (K + 1)
        /\ q - (K + 1) <= q - K /\ q - K <= q
  BY DEF Order
<1>2. /\ x0 \in Int /\ x1 \in Int /\ x2 \in Int /\ x3 \in Int /\ x4 \in Int /\ x5 \in Int
      /\ x6 \in Int /\ x7 \in Int /\ x8 \in Int
  BY <1>1
<1>3. x0 <= x1
  <2>1. d - l \in Int
    OBVIOUS
  <2> QED BY <1>1, <2>1, PageOrder
<1>4. x1 <= x2 /\ x2 <= x3
  <2>1. 2 * d \in Int
    OBVIOUS
  <2> QED BY <1>1, <2>1, PageOrder
<1>5. x3 <= x4
  BY <1>1, PageOrder
<1>6. x4 <= x5
  <2>1. g + 1 \in Int
    OBVIOUS
  <2> QED BY <1>1, <2>1, PageOrder
<1>7. x5 <= x6
  <2>1. g + 1 \in Int /\ q - (K + 1) \in Int
    OBVIOUS
  <2> QED BY <1>1, <2>1, PageOrder
<1>8. x6 <= x7
  <2>1. q - K \in Int /\ q - (K + 1) \in Int
    OBVIOUS
  <2> QED BY <1>1, <2>1, PageOrder
<1>9. x7 <= x8
  <2>1. q - K \in Int
    OBVIOUS
  <2> QED BY <1>1, <2>1, PageOrder
<1>10. /\ \/ r = <<x7, x8>> \/ r = <<x5, x6>> \/ r = <<x4, x5>> \/ r = <<x3, x4>>
          \/ r = <<x1, x2>> \/ r = <<x0, x1>>
       /\ \/ s = <<x7, x8>> \/ s = <<x5, x6>> \/ s = <<x4, x5>> \/ s = <<x3, x4>>
          \/ s = <<x1, x2>> \/ s = <<x0, x1>>
  BY DEF Below
<1> HIDE DEF x0, x1, x2, x3, x4, x5, x6, x7, x8
<1>11. /\ x0 <= x1 /\ x1 <= x3 /\ x1 <= x4 /\ x1 <= x5 /\ x1 <= x7
       /\ x2 <= x3 /\ x2 <= x4 /\ x2 <= x5 /\ x2 <= x7
       /\ x4 <= x5 /\ x4 <= x7 /\ x5 <= x7 /\ x6 <= x7
       /\ x1 <= x1 /\ x4 <= x4 /\ x5 <= x5
  BY <1>2, <1>3, <1>4, <1>5, <1>6, <1>7, <1>8, <1>9
<1>12. CASE r = <<x7, x8>>
  BY <1>10, <1>11, <1>12 DEF Apart
<1>13. CASE r = <<x5, x6>>
  BY <1>10, <1>11, <1>13 DEF Apart
<1>14. CASE r = <<x4, x5>>
  BY <1>10, <1>11, <1>14 DEF Apart
<1>15. CASE r = <<x3, x4>>
  BY <1>10, <1>11, <1>15 DEF Apart
<1>16. CASE r = <<x1, x2>>
  BY <1>10, <1>11, <1>16 DEF Apart
<1>17. CASE r = <<x0, x1>>
  BY <1>10, <1>11, <1>17 DEF Apart
<1> QED BY <1>10, <1>12, <1>13, <1>14, <1>15, <1>16, <1>17

\* And none of them reaches the image.
LEMMA BelowImage ==
    ASSUME NEW q \in Int, Order(q), NEW r, Below(q, r)
    PROVE  r[2] \in Int /\ r[2] <= PAGE_SIZE * q
<1>1. PICK P \in Nat \ {0}, g \in Int, h \in Int, d \in Int, K \in Nat :
        /\ P = PAGE_SIZE /\ g = GdtPage(q) /\ h = HeapPage(q) /\ d = HalfPage(q)
        /\ K = KSTACK_PAGES
        /\ 0 <= d /\ d <= 2 * d /\ 2 * d <= h /\ h <= g /\ g + 1 <= q
  BY DEF Order
<1>2. PICK e \in Int, f \in Int, c \in Int : e = 2 * d /\ f = g + 1 /\ c = q - (K + 1)
  OBVIOUS
<1>3. d <= q /\ e <= q /\ g <= q /\ f <= q /\ c <= q
  BY <1>1, <1>2
<1>4. P * d <= P * q /\ P * e <= P * q /\ P * g <= P * q /\ P * f <= P * q /\ P * c <= P * q
  BY <1>3, PageOrder
<1>5. P * q <= P * q
  BY PageOrder
<1>6. \/ r[2] = P * q \/ r[2] = P * c \/ r[2] = P * f \/ r[2] = P * g \/ r[2] = P * e
      \/ r[2] = P * d
  BY <1>1, <1>2 DEF Below
<1>7. /\ P * q \in Int /\ P * c \in Int /\ P * f \in Int /\ P * g \in Int /\ P * e \in Int
      /\ P * d \in Int
  OBVIOUS
<1> QED BY <1>1, <1>4, <1>5, <1>6, <1>7

\* The image starts at the lowest segment that was loaded.
LowInv ==
    /\ at = "load" => k \in Nat \ {0}
    /\ \A i \in Loaded : (at = "load" => i < k) => image <= Segments[i].vaddr

LEMMA LowInit == Init => LowInv
<1> SUFFICES ASSUME Init PROVE LowInv
  OBVIOUS
<1>1. at = "load" /\ k = 1
  BY DEF Init
<1>2. \A i \in Loaded : ~(i < 1)
  BY BootTypes DEF Loaded
<1> QED BY <1>1, <1>2 DEF LowInv

LEMMA LowStep ==
    ASSUME LowInv, BootInv, [Next]_vars
    PROVE  LowInv'
<1>0. \A i \in Loaded : i \in 1 .. Len(Segments) /\ i \in DOMAIN Segments
  <2>1. DOMAIN Segments = 1 .. Len(Segments)
    BY BootTypes
  <2> QED BY <2>1 DEF Loaded
<1>1. CASE LoadSegment
  <2>1. /\ at = "load" /\ at' = "load" /\ k \in DOMAIN Segments /\ k' = k + 1
        /\ image' = IF Segments[k].vaddr < image THEN Segments[k].vaddr ELSE image
    BY <1>1 DEF LoadSegment
  <2>2. k \in Nat \ {0}
    BY <2>1 DEF LowInv
  <2>3. image \in Int
    <3>1. PICK q \in Int : image = PAGE_SIZE * q
      BY DEF BootInv, PlaceInv
    <3> QED BY <3>1, BootTypes
  <2>4. ASSUME NEW i \in Loaded, i < k + 1 PROVE image' <= Segments[i].vaddr
    <3>1. Segments[i].vaddr \in Nat /\ Segments[k].vaddr \in Nat
      BY <1>0, <2>1, SegmentTypes
    <3>2. CASE i = k
      BY <2>1, <2>3, <3>1, <3>2
    <3>3. CASE i # k
      <4>1. i < k
        BY <1>0, <2>2, <2>4, <3>3
      <4>2. image <= Segments[i].vaddr
        BY <4>1, <2>1 DEF LowInv
      <4> QED BY <2>1, <2>3, <3>1, <4>2
    <3> QED BY <3>2, <3>3
  <2>5. k' \in Nat \ {0}
    BY <2>1, <2>2
  <2> QED BY <2>1, <2>4, <2>5 DEF LowInv
<1>2. CASE SkipSegment
  <2>1. /\ at = "load" /\ at' = "load" /\ k' = k + 1 /\ UNCHANGED image
        /\ Segments[k].filesz = 0
    BY <1>2 DEF SkipSegment, host
  <2>2. k \in Nat \ {0}
    BY <2>1 DEF LowInv
  <2>3. ASSUME NEW i \in Loaded, i < k + 1 PROVE image <= Segments[i].vaddr
    <3>1. i # k
      BY <2>1 DEF Loaded
    <3>2. i < k
      BY <1>0, <2>2, <2>3, <3>1
    <3> QED BY <2>1, <3>2 DEF LowInv
  <2>4. k' \in Nat \ {0}
    BY <2>1, <2>2
  <2> QED BY <2>1, <2>3, <2>4 DEF LowInv
<1>3. CASE MapKernelStack
  <2>1. at = "load" /\ at' = "argv" /\ UNCHANGED image /\ k \notin DOMAIN Segments
    BY <1>3 DEF MapKernelStack
  <2>2. \A i \in Loaded : i < k
    <3>1. k \in Nat \ {0} /\ DOMAIN Segments = 1 .. Len(Segments) /\ Len(Segments) \in Nat
      BY <2>1, BootTypes DEF LowInv
    <3> QED BY <1>0, <2>1, <3>1
  <2> QED BY <2>1, <2>2 DEF LowInv
<1>4. CASE ~(LoadSegment \/ SkipSegment \/ MapKernelStack)
  <2>1. (UNCHANGED image /\ at' # "load" /\ at # "load") \/ UNCHANGED <<image, at, k>>
    <3>1. CASE UNCHANGED vars
      BY <3>1 DEF vars, host
    <3>2. CASE PutArg
      BY <3>2 DEF PutArg, Exit
    <3>3. CASE ArgvDone
      BY <3>3 DEF ArgvDone, host
    <3>4. CASE PutEnv
      BY <3>4 DEF PutEnv, Exit
    <3>5. CASE PutArrays
      BY <3>5 DEF PutArrays
    <3>6. CASE SetupTss
      BY <3>6 DEF SetupTss
    <3>7. CASE MapGdt
      BY <3>7 DEF MapGdt, host
    <3>8. CASE GdtInit
      BY <3>8 DEF GdtInit, host
    <3>9. CASE UnmapBootstrap
      BY <3>9 DEF UnmapBootstrap, host
    <3>10. CASE VmaInit
      BY <3>10 DEF VmaInit, host
    <3>11. CASE ReserveVersions
      BY <3>11 DEF ReserveVersions, host
    <3>12. CASE UserStackInit
      BY <3>12 DEF UserStackInit, host
    <3>13. CASE KernelFaults
      BY <3>13 DEF KernelFaults, host
    <3>14. CASE LoadUserLand
      BY <3>14, LoadUserLandMaps
    <3>15. CASE CallKernelMain
      BY <3>15 DEF CallKernelMain, CallsUse, host
    <3>16. CASE AllocateArrays
      BY <3>16 DEF AllocateArrays, CallsUse, host
    <3> QED BY <1>4, <3>1, <3>2, <3>3, <3>4, <3>5, <3>6, <3>7, <3>8, <3>9, <3>10, <3>11,
               <3>12, <3>13, <3>14, <3>15, <3>16 DEF Next
  <2> QED BY <2>1 DEF LowInv
<1> QED BY <1>1, <1>2, <1>3, <1>4

\* The regions of a machine that enters the program.
LEMMA RegionPlaces ==
    ASSUME KernelFits, NEW q \in Int, PlaceInv(q), Order(q), at = "user", NEW r \in Regions
    PROVE  \/ Below(q, r)
           \/ \E i \in Loaded : r = <<Segments[i].vaddr, Segments[i].vaddr + Segments[i].memsz>>
<1> DEFINE g == GdtPage(q)
           h == HeapPage(q)
           d == HalfPage(q)
<1>1. /\ image = PAGE_SIZE * q /\ tss = PAGE_SIZE * (g + 1) /\ gdt = PAGE_SIZE * g
      /\ kernel_min_address = PAGE_SIZE * d /\ user_version_end = PAGE_SIZE * (2 * d)
      /\ user_stack.start = PAGE_SIZE * d
  BY DEF PlaceInv, Running
<1>2. P2Align(gdt - vma_max_num, PAGE_SIZE) = PAGE_SIZE * h
  BY <1>1, LayoutPages DEF PlaceInv
<1>3. PICK P \in Nat \ {0}, K \in Nat, T \in Nat, l \in Nat :
         /\ P = PAGE_SIZE /\ K = KSTACK_PAGES /\ T = TSS_PAGES /\ l = user_stack_page_limit
  BY BootTypes
<1>4. g \in Int /\ d \in Int /\ g = q - (K + T + 2)
  BY <1>3 DEF Order
<1> HIDE DEF g, h, d
<1>5. StackBottom = P * (q - K)
  <2>1. P * (q - K) = (P * q) - K * P
    OBVIOUS
  <2> QED BY <1>1, <1>3, <2>1 DEF StackBottom
<1>6. tss + TSS_PAGES * PAGE_SIZE = P * (q - (K + 1))
  <2>1. q - (K + 1) = (g + 1) + T
    BY <1>4
  <2>2. P * ((g + 1) + T) = P * (g + 1) + T * P
    BY <1>4
  <2> QED BY <1>1, <1>3, <2>1, <2>2
<1>7. gdt + PAGE_SIZE = P * (g + 1)
  <2>1. P * (g + 1) = P * g + P
    BY <1>4
  <2> QED BY <1>1, <1>3, <2>1
<1>8. user_stack.start - user_stack_page_limit * PAGE_SIZE = P * (d - l)
  <2>1. P * (d - l) = (P * d) - l * P
    BY <1>4
  <2> QED BY <1>1, <1>3, <2>1
<1>9. \/ r \in {<<Segments[i].vaddr, Segments[i].vaddr + Segments[i].memsz>> : i \in Loaded}
      \/ r = <<StackBottom, image>>
      \/ r = <<tss, tss + TSS_PAGES * PAGE_SIZE>>
      \/ r = <<gdt, gdt + PAGE_SIZE>>
      \/ r = <<P2Align(gdt - vma_max_num, PAGE_SIZE), gdt>>
      \/ r = <<kernel_min_address, user_version_end>>
      \/ r = <<user_stack.start - user_stack_page_limit * PAGE_SIZE, user_stack.start>>
  BY DEF Regions, Loaded
<1>10. CASE r \in {<<Segments[i].vaddr, Segments[i].vaddr + Segments[i].memsz>> : i \in Loaded}
  BY <1>10
<1>11. CASE r = <<StackBottom, image>>
  BY <1>1, <1>3, <1>5, <1>11 DEF Below
<1>12. CASE r = <<tss, tss + TSS_PAGES * PAGE_SIZE>>
  BY <1>1, <1>3, <1>6, <1>12 DEF Below, g
<1>13. CASE r = <<gdt, gdt + PAGE_SIZE>>
  BY <1>1, <1>3, <1>7, <1>13 DEF Below, g
<1>14. CASE r = <<P2Align(gdt - vma_max_num, PAGE_SIZE), gdt>>
  BY <1>1, <1>2, <1>14 DEF Below, g, h
<1>15. CASE r = <<kernel_min_address, user_version_end>>
  BY <1>1, <1>15 DEF Below, d
<1>16. CASE r = <<user_stack.start - user_stack_page_limit * PAGE_SIZE, user_stack.start>>
  BY <1>1, <1>3, <1>8, <1>16 DEF Below, d
<1> QED BY <1>9, <1>10, <1>11, <1>12, <1>13, <1>14, <1>15, <1>16

LEMMA RegionsApart ==
    ASSUME KernelFits, BootInv, LowInv, at = "user", NEW r \in Regions, NEW s \in Regions, r # s
    PROVE  Apart(r, s)
<1>1. PICK q \in Int : PlaceInv(q)
  BY DEF BootInv
<1>2. Order(q) /\ image = PAGE_SIZE * q
  BY <1>1, PlaceOrder DEF PlaceInv
<1> DEFINE Seg(i) == <<Segments[i].vaddr, Segments[i].vaddr + Segments[i].memsz>>
           In(x) == \E i \in Loaded : x = Seg(i)
<1>3. (Below(q, r) \/ In(r)) /\ (Below(q, s) \/ In(s))
  BY <1>1, <1>2, RegionPlaces
<1>4. ASSUME NEW i \in Loaded
      PROVE  /\ Segments[i].vaddr \in Int /\ Segments[i].memsz \in Int /\ SegmentEnd(i) \in Int
             /\ Segments[i].vaddr + Segments[i].memsz <= SegmentEnd(i)
             /\ image <= Segments[i].vaddr
  <2>1. PICK a, b \in Int : SegmentAt(i, a, b)
    BY SegmentPages
  <2>2. Segments[i].vaddr \in Int /\ Segments[i].memsz \in Int
    BY SegmentTypes DEF Loaded
  <2>3. SegmentEnd(i) \in Int /\ Segments[i].vaddr + Segments[i].memsz <= SegmentEnd(i)
    BY <2>1, BootTypes DEF SegmentAt
  <2> QED BY <2>2, <2>3 DEF LowInv
<1>5. CASE Below(q, r) /\ Below(q, s)
  BY <1>2, <1>5, BelowApart
<1>6. ASSUME NEW x, NEW y, Below(q, x), In(y)
      PROVE  x[2] <= y[1]
  <2>1. PICK i \in Loaded : y = Seg(i)
    BY <1>6
  <2>2. x[2] \in Int /\ x[2] <= image
    BY <1>2, <1>6, BelowImage
  <2>3. image <= Segments[i].vaddr /\ Segments[i].vaddr \in Int
    BY <1>4
  <2>4. y[1] = Segments[i].vaddr
    BY <2>1
  <2>5. image \in Int
    BY <1>2, BootTypes
  <2> QED BY <2>2, <2>3, <2>4, <2>5
<1>7. CASE Below(q, r) /\ In(s)
  BY <1>6, <1>7 DEF Apart
<1>8. CASE In(r) /\ Below(q, s)
  BY <1>6, <1>8 DEF Apart
<1>9. CASE In(r) /\ In(s)
  <2>1. PICK i \in Loaded : r = Seg(i)
    BY <1>9
  <2>2. PICK j \in Loaded : s = Seg(j)
    BY <1>9
  <2>3. i # j
    BY <2>1, <2>2
  <2>4. SegmentEnd(i) <= Segments[j].vaddr \/ SegmentEnd(j) <= Segments[i].vaddr
    BY <2>3 DEF KernelFits
  <2>5. /\ r[1] = Segments[i].vaddr /\ r[2] = Segments[i].vaddr + Segments[i].memsz
        /\ s[1] = Segments[j].vaddr /\ s[2] = Segments[j].vaddr + Segments[j].memsz
    BY <2>1, <2>2
  <2> QED BY <1>4, <2>4, <2>5 DEF Apart
<1> QED BY <1>3, <1>5, <1>7, <1>8, <1>9

LEMMA LayoutFollows ==
    ASSUME KernelFits, BootInv, LowInv
    PROVE  LayoutSound
<1> SUFFICES ASSUME at = "user" PROVE LayoutSound
  BY DEF LayoutSound
<1>1. PICK q \in Int : MapInv(q) /\ PlaceInv(q)
  BY DEF BootInv
<1>2. Order(q)
  BY <1>1, PlaceOrder DEF PlaceInv
<1>3. /\ Frames(pt, page_counter) /\ BootPages(pt, {GdtPage(q)})
      /\ Clear(pt, HalfPage(q), HeapPage(q))
  BY <1>1 DEF MapInv, Running
<1>4. \A p, r \in VaPages : pt[p] = pt[r] => p = r \/ pt[p] = NoFrame
  <2> SUFFICES ASSUME NEW p \in VaPages, NEW r \in VaPages, pt[p] = pt[r], pt[p] # NoFrame
               PROVE  p = r
    OBVIOUS
  <2>1. pt[p] \in Int /\ BOOT_FRAMES \in Int
    BY <1>3, BootTypes DEF Frames
  <2>2. CASE BOOT_FRAMES <= pt[p]
    BY <1>3, <2>2 DEF Frames
  <2>3. CASE pt[p] < BOOT_FRAMES
    BY <1>3, <2>3 DEF BootPages
  <2> QED BY <2>1, <2>2, <2>3
<1>5. \A r, s \in Regions : r # s => r[2] <= s[1] \/ s[2] <= r[1]
  BY RegionsApart DEF Apart
<1>6. \A p \in PageOf(kernel_min_address) .. PageOf(user_version_end - 1) : pt[p] = NoFrame
  <2>1. PICK d \in Int, e \in Int : d = HalfPage(q) /\ e = 2 * d
    BY <1>2 DEF Order
  <2>2. kernel_min_address = PAGE_SIZE * d /\ user_version_end = PAGE_SIZE * e
    BY <1>1, <2>1 DEF PlaceInv
  <2>3. d \in 0 .. VA_PAGES - 1 /\ e \in 1 .. VA_PAGES /\ e <= HeapPage(q) /\ HeapPage(q) \in Int
        /\ VA_PAGES \in Nat
    BY <1>2, <2>1 DEF Order
  <2>4. PageOf(kernel_min_address) = d /\ PageOf(user_version_end - 1) = e - 1
    BY <2>2, <2>3, PageEnds
  <2>5. ASSUME NEW p \in d .. e - 1 PROVE pt[p] = NoFrame
    <3>1. p \in VaPages /\ HalfPage(q) <= p /\ p < HeapPage(q)
      BY <2>1, <2>3 DEF VaPages
    <3> QED BY <1>3, <3>1 DEF Clear
  <2> QED BY <2>4, <2>5
<1> QED BY <1>4, <1>5, <1>6 DEF LayoutSound

\* For every kernel image that fits: when the program is entered, no two pages
\* share a frame, all regions are apart and the version store is unmapped.
THEOREM LayoutStaysSound ==
    ASSUME KernelFits
    PROVE  Spec => []LayoutSound
<1>1. Init => BootInv /\ LowInv
  BY BootInit, LowInit
<1>2. (BootInv /\ LowInv) /\ [Next]_vars => (BootInv /\ LowInv)'
  BY BootStep, LowStep
<1>3. BootInv /\ LowInv => LayoutSound
  BY LayoutFollows
<1> QED BY <1>1, <1>2, <1>3, PTL DEF Spec

-----------------------------------------------------------------------------
(***************************************************************************)
(* The image: every byte of its file part is in place, on a frame no other *)
(* page has; the boot writes to pages below it, and the kernel's calls to  *)
(* its padding.                                                            *)
(***************************************************************************)
InPlace(i) ==
    \A o \in 0 .. P2RoundUp(Segments[i].filesz, PAGE_SIZE) - 1 :
        /\ BOOT_FRAMES <= pt[PageOf(Segments[i].vaddr + o)]
        /\ Segments[i].vaddr + o < BSS_END =>
             ByteAt(Segments[i].vaddr + o) =
               IF o < Segments[i].filesz THEN FileByte(Segments[i].off + o) ELSE Zero
ImageInv == at # "corrupt" => \A i \in Loaded : (at = "load" => i < k) => InPlace(i)

\* The strings stay on the kernel's stack: the page below it is not mapped.
StackInv ==
    /\ at = "argv" => k \in 0 .. argc
    /\ at = "envp" => k \in 0 .. envc
    /\ at \in {"argv", "envp"} => ksp \in Int /\ StackBottom <= ksp /\ ksp <= image

\* An address inside the space: its page and its offset.
LEMMA AddressParts ==
    ASSUME NEW x \in Int, 0 <= x, x < PAGE_SIZE * VA_PAGES
    PROVE  \E m \in 0 .. VA_PAGES - 1, r \in 0 .. PAGE_SIZE - 1 :
               x = PAGE_SIZE * m + r /\ PageOf(x) = m /\ PAGE_OFFSET(x) = r
<1>1. PICK P \in Nat \ {0}, V \in Nat \ {0} : P = PAGE_SIZE /\ V = VA_PAGES
  BY BootTypes
<1>2. PICK m \in Int, r \in 0 .. P - 1 : x = P * m + r
  BY DivisionExact
<1>3. PICK y \in Int, z \in Int : y = P * m /\ z = P * V
  OBVIOUS
<1>4. m < V
  <2>1. P * m < P * V
    BY <1>1, <1>2, <1>3
  <2> QED BY <2>1, PageOrder
<1>5. 0 <= m
  <2>1. CASE m <= -1
    <3>1. P * m <= P * (-1) /\ P * (-1) = -P
      BY <2>1, PageOrder
    <3> QED BY <1>2, <1>3, <3>1
  <2> QED BY <2>1
<1>6. m \in 0 .. VA_PAGES - 1 /\ r \in 0 .. PAGE_SIZE - 1
  BY <1>1, <1>4, <1>5
<1>7. PageOf(x) = m /\ PAGE_OFFSET(x) = r
  BY <1>1, <1>2, <1>6, PageInside
<1> QED BY <1>1, <1>2, <1>6, <1>7

\* Pages are ordered like the addresses.
LEMMA PageSides ==
    ASSUME NEW q \in Int, q <= VA_PAGES, NEW x \in Int, 0 <= x, x < PAGE_SIZE * VA_PAGES
    PROVE  /\ PAGE_SIZE * q <= x => q <= PageOf(x)
           /\ x < PAGE_SIZE * q => PageOf(x) < q
           /\ PageOf(x) \in VaPages /\ PageOf(x) \in Int
<1>1. PICK m \in 0 .. VA_PAGES - 1, r \in 0 .. PAGE_SIZE - 1 :
          x = PAGE_SIZE * m + r /\ PageOf(x) = m
  BY AddressParts
<1>2. PICK P \in Nat \ {0} : P = PAGE_SIZE
  BY BootTypes
<1>3. m \in Int
  BY BootTypes
<1>4. PICK y \in Int, z \in Int : y = P * m /\ z = P * q
  BY <1>3
<1>5. ASSUME P * q <= x PROVE q <= m
  <2>1. PICK n \in Int : n = m + 1
    BY <1>3
  <2>2. P * n = P * m + P
    BY <1>3, <2>1
  <2>3. P * q < P * n
    BY <1>1, <1>2, <1>4, <1>5, <2>2
  <2>4. q < n
    BY <2>3, PageOrder
  <2> QED BY <1>3, <2>1, <2>4
<1>6. ASSUME x < P * q PROVE m < q
  <2>1. P * m < P * q
    BY <1>1, <1>2, <1>4, <1>6
  <2> QED BY <1>3, <2>1, PageOrder
<1> QED BY <1>1, <1>2, <1>3, <1>5, <1>6 DEF VaPages

\* A physical address tells its frame.
LEMMA SameFrame ==
    ASSUME NEW t \in [VaPages -> Int], NEW x \in Int, NEW y \in Int,
           GetPhysAddr(t, x) = GetPhysAddr(t, y)
    PROVE  t[PageOf(x)] = t[PageOf(y)]
<1>1. PICK P \in Nat \ {0} : P = PAGE_SIZE
  BY BootTypes
<1>2. PageOf(x) \in VaPages /\ PageOf(y) \in VaPages
  BY PageFacts
<1>3. PICK f \in Int, g \in Int : f = t[PageOf(x)] /\ g = t[PageOf(y)]
  BY <1>2
<1>4. PICK r \in 0 .. P - 1, s \in 0 .. P - 1 : r = PAGE_OFFSET(x) /\ s = PAGE_OFFSET(y)
  BY <1>1, PageFacts
<1>5. PICK a \in Int : a = P * f + r
  OBVIOUS
<1>6. a = P * g + s
  BY <1>1, <1>3, <1>4, <1>5 DEF GetPhysAddr
<1>7. a \div P = f
  BY <1>5, DivisionUnique
<1>8. a \div P = g
  BY <1>6, DivisionUnique
<1> QED BY <1>3, <1>7, <1>8

\* The bytes from page q up to the kernel's last variable are the same in both
\* memories.
Kept(t, q, r1, r2) ==
    \A x \in PAGE_SIZE * q .. (PAGE_SIZE * VA_PAGES) - 1 :
        x < BSS_END /\ BOOT_FRAMES <= t[PageOf(x)] =>
            Stored(r2, GetPhysAddr(t, x)) = Stored(r1, GetPhysAddr(t, x))

\* write_virtual_addr to a buffer below page q.
LEMMA WriteKeeps ==
    ASSUME NEW t, NEW c, Frames(t, c), NEW ram0, NEW q \in Int, q <= VA_PAGES, 0 <= q,
           NEW va \in Int, NEW B, NEW source \in Seq(B), 0 <= va,
           va + Len(source) <= PAGE_SIZE * q
    PROVE  Kept(t, q, ram0, WriteVirtualAddr(t, ram0, va, source).ram)
<1>1. PICK P \in Nat \ {0}, V \in Nat \ {0} : P = PAGE_SIZE /\ V = VA_PAGES
  BY BootTypes
<1>2. PICK N \in Nat : N = Len(source)
  OBVIOUS
<1>3. t \in [VaPages -> Int]
  BY DEF Frames
<1>4. PICK w : w = WriteVirtualAddr(t, ram0, va, source)
  OBVIOUS
<1>5. IsWritten(t, ram0, va, source, N, w)
  BY <1>2, <1>3, <1>4, WriteIsGuestWrite
<1>6. \A x : \/ Stored(w.ram, x) = Stored(ram0, x)
             \/ \E j \in 1 .. N : x = PhysOf(t, va, j)
  <2>1. \A x : \/ Stored(w.ram, x) = Stored(ram0, x)
               \/ \E j \in (N - N) + 1 .. N : x = PhysOf(t, va, j)
    BY <1>2, <1>5 DEF IsWritten
  <2>2. (N - N) + 1 = 1
    OBVIOUS
  <2> QED BY <2>1, <2>2
<1>7. PICK z \in Int, e \in Int : z = P * q /\ e = P * V /\ z <= e
  <2>1. P * q <= P * V
    BY <1>1, PageOrder
  <2> QED BY <2>1
<1> SUFFICES ASSUME NEW x \in z .. e - 1, BOOT_FRAMES <= t[PageOf(x)]
             PROVE  Stored(w.ram, GetPhysAddr(t, x)) = Stored(ram0, GetPhysAddr(t, x))
  BY <1>1, <1>4, <1>7 DEF Kept
<1>8. 0 <= z
  <2>1. P * 0 <= P * q /\ P * 0 = 0
    BY PageOrder
  <2> QED BY <1>7, <2>1
<1>9. x \in Int /\ 0 <= x /\ x < PAGE_SIZE * VA_PAGES /\ PAGE_SIZE * q <= x
  BY <1>1, <1>7, <1>8
<1>10. q <= PageOf(x) /\ PageOf(x) \in VaPages /\ PageOf(x) \in Int
  BY <1>9, PageSides
<1>11. ASSUME NEW j \in 1 .. N, GetPhysAddr(t, x) = PhysOf(t, va, j) PROVE FALSE
  <2>1. PICK y \in Int : y = va + (j - 1)
    OBVIOUS
  <2>2. 0 <= y /\ y < PAGE_SIZE * VA_PAGES /\ y < PAGE_SIZE * q
    BY <1>1, <1>2, <1>7, <2>1
  <2>3. PageOf(y) < q /\ PageOf(y) \in VaPages /\ PageOf(y) \in Int
    BY <2>2, PageSides
  <2>4. t[PageOf(x)] = t[PageOf(y)]
    BY <1>3, <1>9, <1>11, <2>1, SameFrame DEF PhysOf
  <2>5. PageOf(x) = PageOf(y)
    BY <1>10, <2>3, <2>4 DEF Frames
  <2> QED BY <1>10, <2>3, <2>5
<1> QED BY <1>6, <1>11

\* The pages of the file part are pages of the segment.
FileAt(i, a, b, n) ==
    /\ SegmentAt(i, a, b)
    /\ P2RoundUp(Segments[i].filesz, PAGE_SIZE) = PAGE_SIZE * n
    /\ Segments[i].filesz <= PAGE_SIZE * n /\ PAGE_SIZE * n < Segments[i].filesz + PAGE_SIZE
    /\ n <= b - a /\ 0 < n

LEMMA FilePages ==
    ASSUME KernelFits, NEW i \in Loaded
    PROVE  \E a, b, n \in Int : FileAt(i, a, b, n)
<1>1. PICK P \in Nat \ {0} : P = PAGE_SIZE
  BY BootTypes
<1>2. PICK a, b \in Int : SegmentAt(i, a, b)
  BY SegmentPages
<1>3. PICK f \in Int, m \in Int : f = Segments[i].filesz /\ m = Segments[i].memsz /\ 0 < f /\ f <= m
  BY SegmentTypes DEF Loaded
<1>4. PICK n \in Int : P2RoundUp(f, P) = P * n /\ f <= P * n /\ P * n < f + P
  BY RoundUpFacts
<1>5. PICK l \in Int : P2RoundUp(m, P) = P * l /\ m <= P * l
  BY RoundUpFacts
<1>6. PICK d \in Int : d = b - a
  OBVIOUS
<1>7. l = d
  <2>1. P * l = P * d
    BY <1>1, <1>2, <1>3, <1>5, <1>6 DEF SegmentAt
  <2> QED BY <2>1, PageOrder
<1>8. PICK x \in Int, y \in Int : x = P * n /\ y = P * l
  OBVIOUS
<1>9. n <= l
  <2>1. PICK e \in Int : e = l + 1
    OBVIOUS
  <2>2. P * e = P * l + P
    BY <2>1
  <2>3. P * n < P * e
    BY <1>3, <1>4, <1>5, <1>8, <2>2
  <2>4. n < e
    BY <2>3, PageOrder
  <2> QED BY <2>1, <2>4
<1>10. 0 < n
  <2>1. P * 0 < P * n
    BY <1>3, <1>4, <1>8
  <2> QED BY <2>1, PageOrder
<1>11. FileAt(i, a, b, n)
  BY <1>1, <1>2, <1>3, <1>4, <1>6, <1>7, <1>9, <1>10 DEF FileAt
<1> QED BY <1>11

\* Byte o of the file part: its page and its offset.
OnPage(i, a, b, o, m, r) ==
    /\ o = PAGE_SIZE * m + r
    /\ Segments[i].vaddr + o = PAGE_SIZE * (a + m) + r
    /\ PageOf(Segments[i].vaddr + o) = a + m
    /\ PAGE_OFFSET(Segments[i].vaddr + o) = r
    /\ a + m \in VaPages /\ a + m < b

LEMMA FileByteAt ==
    ASSUME KernelFits, NEW i \in Loaded, NEW a \in Int, NEW b \in Int, NEW n \in Int,
           FileAt(i, a, b, n), NEW o \in 0 .. P2RoundUp(Segments[i].filesz, PAGE_SIZE) - 1
    PROVE  \E m \in 0 .. n - 1, r \in 0 .. PAGE_SIZE - 1 : OnPage(i, a, b, o, m, r)
<1>1. PICK P \in Nat \ {0}, V \in Nat \ {0} : P = PAGE_SIZE /\ V = VA_PAGES
  BY BootTypes
<1>2. PICK x \in Int : x = P * n
  OBVIOUS
<1>3. o \in Int /\ 0 <= o /\ o < x
  BY <1>1, <1>2 DEF FileAt
<1>4. PICK m \in Int, r \in 0 .. P - 1 : o = P * m + r
  BY <1>3, DivisionExact
<1>5. PICK y \in Int : y = P * m
  OBVIOUS
<1>6. m < n
  <2>1. P * m < P * n
    BY <1>2, <1>3, <1>4, <1>5
  <2> QED BY <2>1, PageOrder
<1>7. 0 <= m
  <2>1. CASE m <= -1
    <3>1. P * m <= P * (-1) /\ P * (-1) = -P
      BY <2>1, PageOrder
    <3> QED BY <1>3, <1>4, <1>5, <3>1
  <2> QED BY <2>1
<1>8. a + m \in 0 .. VA_PAGES - 1 /\ a + m < b /\ a + m \in VaPages
  BY <1>1, <1>6, <1>7 DEF FileAt, SegmentAt, VaPages
<1>9. Segments[i].vaddr + o = P * (a + m) + r
  <2>1. Segments[i].vaddr = P * a
    BY <1>1 DEF FileAt, SegmentAt
  <2>2. P * (a + m) = P * a + P * m
    OBVIOUS
  <2>3. PICK z \in Int : z = P * a
    OBVIOUS
  <2> QED BY <1>4, <1>5, <2>1, <2>2, <2>3
<1>10. PageOf(P * (a + m) + r) = a + m /\ PAGE_OFFSET(P * (a + m) + r) = r
  BY <1>1, <1>8, PageInside
<1>11. m \in 0 .. n - 1 /\ r \in 0 .. PAGE_SIZE - 1
  BY <1>1, <1>6, <1>7
<1>12. OnPage(i, a, b, o, m, r)
  BY <1>1, <1>4, <1>8, <1>9, <1>10 DEF OnPage
<1> QED BY <1>11, <1>12

\* What is in place stays there when the pages of the image and the bytes on
\* them do.
LEMMA InPlaceKept ==
    ASSUME KernelFits, NEW q \in Int, 0 <= q, q <= VA_PAGES, image = PAGE_SIZE * q,
           NEW i \in Loaded, image <= Segments[i].vaddr, InPlace(i),
           KeptAbove(q), Kept(pt, q, ram, ram')
    PROVE  InPlace(i)'
<1> SUFFICES ASSUME NEW o \in 0 .. P2RoundUp(Segments[i].filesz, PAGE_SIZE) - 1
             PROVE  /\ BOOT_FRAMES <= pt'[PageOf(Segments[i].vaddr + o)]
                    /\ Segments[i].vaddr + o < BSS_END =>
                         ByteAt(Segments[i].vaddr + o)' =
                           IF o < Segments[i].filesz THEN FileByte(Segments[i].off + o) ELSE Zero
  BY DEF InPlace
<1>1. PICK a, b, n \in Int : FileAt(i, a, b, n)
  BY FilePages
<1>2. PICK m \in 0 .. n - 1, r \in 0 .. PAGE_SIZE - 1 : OnPage(i, a, b, o, m, r)
  BY <1>1, FileByteAt
<1>3. PICK va \in Int : va = Segments[i].vaddr + o
  <2>1. o \in Int
    BY <1>1, BootTypes DEF FileAt
  <2>2. Segments[i].vaddr \in Int
    BY SegmentTypes DEF Loaded
  <2> QED BY <2>1, <2>2
<1>4. q <= a + m
  <2>1. PAGE_SIZE * q <= PAGE_SIZE * a
    BY <1>1 DEF FileAt, SegmentAt
  <2>2. q <= a
    BY <2>1, BootTypes, PageOrder
  <2> QED BY <1>1, <1>2, <2>2
<1>5. pt'[PageOf(va)] = pt[PageOf(va)]
  BY <1>2, <1>3, <1>4 DEF KeptAbove, OnPage
<1>6. va \in PAGE_SIZE * q .. (PAGE_SIZE * VA_PAGES) - 1
  <2>1. PICK P \in Nat \ {0}, V \in Nat \ {0} : P = PAGE_SIZE /\ V = VA_PAGES
    BY BootTypes
  <2>2. PICK c \in Int, d \in Int : c = a + m /\ d = c + 1 /\ d <= V /\ q <= c
    BY <1>1, <1>2, <1>4, <2>1 DEF VaPages, OnPage
  <2>3. P * q <= P * c /\ P * d <= P * V /\ P * d = P * c + P
    BY <2>2, PageOrder
  <2>4. PICK w \in Int, x \in Int, y \in Int, z \in Int :
            w = P * q /\ x = P * c /\ y = P * d /\ z = P * V
    OBVIOUS
  <2>5. va = x + r /\ r \in 0 .. P - 1
    BY <1>2, <1>3, <2>1, <2>2, <2>4 DEF OnPage
  <2>6. va \in w .. z - 1
    BY <2>3, <2>4, <2>5
  <2> QED BY <2>1, <2>4, <2>6
<1>7. /\ BOOT_FRAMES <= pt[PageOf(va)]
      /\ va < BSS_END =>
           Stored(ram, GetPhysAddr(pt, va)) =
             IF o < Segments[i].filesz THEN FileByte(Segments[i].off + o) ELSE Zero
  BY <1>3 DEF InPlace, ByteAt
<1>8. va < BSS_END => Stored(ram', GetPhysAddr(pt, va)) = Stored(ram, GetPhysAddr(pt, va))
  BY <1>6, <1>7 DEF Kept
<1>9. GetPhysAddr(pt', va) = GetPhysAddr(pt, va)
  BY <1>5 DEF GetPhysAddr
<1>10. ByteAt(Segments[i].vaddr + o)' = Stored(ram', GetPhysAddr(pt', va))
  BY <1>3 DEF ByteAt
<1> QED BY <1>3, <1>5, <1>7, <1>8, <1>9, <1>10

\* What memory holds after a segment was copied.
LEMMA StoredOver ==
    ASSUME NEW mem, NEW new, NEW x
    PROVE  Stored(Over(mem, new), x) = IF x \in DOMAIN new THEN new[x] ELSE Stored(mem, x)
<1>1. DOMAIN Over(mem, new) = DOMAIN mem \cup DOMAIN new
  BY DEF Over
<1>2. \A a \in DOMAIN mem \cup DOMAIN new :
         Over(mem, new)[a] = IF a \in DOMAIN new THEN new[a] ELSE mem[a]
  BY DEF Over
<1>3. CASE x \in DOMAIN new
  BY <1>1, <1>2, <1>3 DEF Stored
<1>4. CASE x \notin DOMAIN new
  BY <1>1, <1>2, <1>4 DEF Stored
<1> QED BY <1>3, <1>4

LEMMA PhysUnique ==
    ASSUME NEW t, NEW c, Frames(t, c), NEW x \in Int, NEW y \in Int,
           0 <= x, x < PAGE_SIZE * VA_PAGES, 0 <= y, y < PAGE_SIZE * VA_PAGES,
           BOOT_FRAMES <= t[PageOf(x)], GetPhysAddr(t, x) = GetPhysAddr(t, y)
    PROVE  x = y
<1>1. PICK P \in Nat \ {0} : P = PAGE_SIZE
  BY BootTypes
<1>2. PICK m \in 0 .. VA_PAGES - 1, r \in 0 .. PAGE_SIZE - 1 :
          x = PAGE_SIZE * m + r /\ PageOf(x) = m /\ PAGE_OFFSET(x) = r
  BY AddressParts
<1>3. PICK n \in 0 .. VA_PAGES - 1, s \in 0 .. PAGE_SIZE - 1 :
          y = PAGE_SIZE * n + s /\ PageOf(y) = n /\ PAGE_OFFSET(y) = s
  BY AddressParts
<1>4. t \in [VaPages -> Int] /\ m \in VaPages /\ n \in VaPages
  BY <1>2, <1>3 DEF Frames, VaPages
<1>5. t[m] = t[n]
  BY <1>2, <1>3, <1>4, SameFrame
<1>6. m = n
  BY <1>2, <1>4, <1>5 DEF Frames
<1>7. PICK f \in Int : f = t[m] * P
  BY <1>1, <1>4
<1>8. f + r = f + s
  BY <1>1, <1>2, <1>3, <1>5, <1>7 DEF GetPhysAddr
<1>9. r = s
  BY ONLY <1>1, <1>7, <1>8, r \in 0 .. PAGE_SIZE - 1, s \in 0 .. PAGE_SIZE - 1
<1> QED BY <1>2, <1>3, <1>6, <1>9

\* The frames of the kernel's calls take nothing below the kernel's last
\* variable, or the kernel is corrupt.
LEMMA CallsSpare ==
    ASSUME NEW q \in Int, 0 <= q, q <= VA_PAGES, NEW c, Frames(pt, c), NEW size \in Int,
           NEW next, CallsUse(size, next), at' # "corrupt"
    PROVE  Kept(pt, q, ram, ram')
<1>1. PICK z \in Int, e \in Int :
          z = PAGE_SIZE * q /\ e = PAGE_SIZE * VA_PAGES /\ 0 <= z /\ e = SPACE
  <2>1. PICK P \in Nat \ {0}, V \in Nat \ {0} : P = PAGE_SIZE /\ V = VA_PAGES
    BY BootTypes
  <2>2. P * 0 <= P * q /\ P * 0 = 0
    BY PageOrder
  <2>3. P * V = V * P
    OBVIOUS
  <2> QED BY <2>1, <2>2, <2>3 DEF SPACE
<1> DEFINE used == {va \in SPACE - size .. SPACE - 1 : Mapped(pt, va, SPACE - va)}
           there == {GetPhysAddr(pt, va) : va \in used}
           frames == [a \in there |-> FrameByte]
<1>2. ram' = Over(ram, frames) /\ \A va \in used : ~(va < BSS_END)
  BY DEF CallsUse
<1>3. ASSUME NEW va \in used PROVE va \in Int /\ va < e
  BY <1>1
<1>4. DOMAIN frames = there
  OBVIOUS
<1> SUFFICES ASSUME NEW x \in z .. e - 1, x < BSS_END, BOOT_FRAMES <= pt[PageOf(x)]
             PROVE  Stored(ram', GetPhysAddr(pt, x)) = Stored(ram, GetPhysAddr(pt, x))
  BY <1>1 DEF Kept
<1>5. x \in Int /\ 0 <= x /\ x < e /\ BSS_END \in Int
  BY <1>1, CallTypes
<1>6. GetPhysAddr(pt, x) \notin there
  <2>1. SUFFICES ASSUME NEW va \in used, GetPhysAddr(pt, x) = GetPhysAddr(pt, va) PROVE FALSE
    OBVIOUS
  <2>2. va \in Int /\ va < e /\ ~(va < BSS_END)
    BY <1>2, <1>3
  <2>3. 0 <= va
    BY <1>5, <2>2
  <2>4. x = va
    BY <1>1, <1>5, <2>1, <2>2, <2>3, PhysUnique
  <2> QED BY <2>2, <2>4
<1> HIDE DEF frames, there, used
<1>7. Stored(Over(ram, frames), GetPhysAddr(pt, x)) = Stored(ram, GetPhysAddr(pt, x))
  BY <1>4, <1>6, StoredOver
<1> QED BY <1>2, <1>7

\* envc of load_user_land, whatever it finds.
LEMMA EnvcType ==
    ASSUME NEW q \in Int, PlaceInv(q), ~EnvpUnreadable
    PROVE  KernelEnvc \in 0 .. envc
<1>1. \E n \in 0 .. envc : EnvpEnds(n)
  BY DEF EnvpUnreadable
<1> QED BY <1>1 DEF KernelEnvc

LEMMA CallsKeep ==
    ASSUME NEW q \in Int, MapInv(q), PlaceInv(q), CallKernelMain \/ AllocateArrays,
           NEW p \in Int, 0 <= p, p <= VA_PAGES, at' # "corrupt"
    PROVE  Kept(pt, p, ram, ram')
<1>1. Frames(pt, page_counter)
  BY DEF MapInv
<1>2. CASE CallKernelMain
  <2>1. CallsUse(KERNEL_FRAMES, "map_gdt")
    BY <1>2 DEF CallKernelMain
  <2>2. KERNEL_FRAMES \in Int
    BY CallTypes
  <2> QED BY <1>1, <2>1, <2>2, CallsSpare
<1>3. CASE AllocateArrays
  <2>1. CallsUse(KERNEL_FRAMES + (argc + KernelEnvc) * WORD, "user_land") /\ ~EnvpUnreadable
    BY <1>3 DEF AllocateArrays
  <2>2. PICK n \in Int : n = argc + KernelEnvc
    <3>1. args \in Seq(Nat) /\ envs \in Seq(Nat)
      BY BootAssumption DEF PlaceInv
    <3>2. argc \in Nat /\ envc \in Nat
      BY <3>1 DEF argc, envc
    <3>3. KernelEnvc \in 0 .. envc
      BY <2>1, EnvcType
    <3> QED BY <3>2, <3>3
  <2>3. KERNEL_FRAMES + (argc + KernelEnvc) * WORD \in Int
    BY <2>2, BootTypes, CallTypes
  <2> QED BY <1>1, <2>1, <2>3, CallsSpare
<1> QED BY <1>2, <1>3

\* The kernel's stack is below the image, and so below its last variable.
LEMMA ImageBelowBss ==
    ASSUME KernelFits, NEW q \in Int, PlaceInv(q), LowInv, at # "load"
    PROVE  image <= BSS_END
<1>1. PICK i \in Loaded : Segments[i].vaddr <= BSS_END
  BY DEF KernelFits
<1>2. image <= Segments[i].vaddr
  BY DEF LowInv
<1>3. image \in Int
  BY BootTypes DEF PlaceInv
<1>4. Segments[i].vaddr \in Int /\ BSS_END \in Int
  BY CallTypes, SegmentTypes DEF Loaded
<1> QED BY <1>1, <1>2, <1>3, <1>4

\* The page table and the memory after a header was loaded.
LEMMA LoadedPages ==
    ASSUME KernelFits, BootInv, LoadSegment
    PROVE  \E a, b \in Int :
             /\ SegmentAt(k, a, b) /\ k \in Loaded
             /\ Frames(pt, page_counter)
             /\ pt' = FreshPages(pt, page_counter, a, b)
             /\ ram' = Over(ram, SegmentBytes(Segments[k]))
<1>1. k \in Loaded /\ ram' = Over(ram, SegmentBytes(Segments[k]))
  BY DEF LoadSegment, Loaded
<1>2. PICK a, b \in Int : SegmentAt(k, a, b)
  BY <1>1, SegmentPages
<1>3. pt' = FreshPages(pt, page_counter, a, b)
  <2>1. MapFresh(Segments[k].vaddr,
                 Segments[k].vaddr + P2RoundUp(Segments[k].memsz, PAGE_SIZE))
    BY DEF LoadSegment
  <2>2. 0 <= a /\ a <= b /\ b <= VA_PAGES /\ 0 < b /\ a < VA_PAGES
    BY <1>2, BootTypes DEF SegmentAt
  <2> QED BY <1>2, <2>1, <2>2, MapFreshPages DEF SegmentAt
<1>4. Frames(pt, page_counter)
  BY DEF BootInv, MapInv
<1> QED BY <1>1, <1>2, <1>3, <1>4

\* A segment that was loaded before is on other pages and other frames.
LEMMA LoadKeepsOthers ==
    ASSUME KernelFits, BootInv, LoadSegment, NEW i \in Loaded, i # k, InPlace(i)
    PROVE  InPlace(i)'
<1> SUFFICES ASSUME NEW o \in 0 .. P2RoundUp(Segments[i].filesz, PAGE_SIZE) - 1
             PROVE  /\ BOOT_FRAMES <= pt'[PageOf(Segments[i].vaddr + o)]
                    /\ Segments[i].vaddr + o < BSS_END =>
                         ByteAt(Segments[i].vaddr + o)' =
                           IF o < Segments[i].filesz THEN FileByte(Segments[i].off + o) ELSE Zero
  BY DEF InPlace
<1>1. PICK a, b \in Int :
             /\ SegmentAt(k, a, b) /\ k \in Loaded
             /\ Frames(pt, page_counter)
             /\ pt' = FreshPages(pt, page_counter, a, b)
             /\ ram' = Over(ram, SegmentBytes(Segments[k]))
  BY LoadedPages
<1>2. PICK c, d, n \in Int : FileAt(i, c, d, n)
  BY FilePages
<1>3. PICK m \in 0 .. n - 1, r \in 0 .. PAGE_SIZE - 1 : OnPage(i, c, d, o, m, r)
  BY <1>2, FileByteAt
<1>4. PICK va : va = Segments[i].vaddr + o
  OBVIOUS
<1>5. PICK p \in VaPages : p = c + m /\ PageOf(va) = p /\ PAGE_OFFSET(va) = r /\ c <= p /\ p < d
  BY <1>2, <1>3, <1>4 DEF OnPage
<1>6. p \in Int
  BY DEF VaPages
<1>7. ~(a <= p /\ p < b)
  <2>1. PICK P \in Nat \ {0} : P = PAGE_SIZE
    BY BootTypes
  <2>2. P * d <= P * a \/ P * b <= P * c
    BY <1>1, <1>2, <2>1 DEF KernelFits, FileAt, SegmentAt
  <2>3. d <= a \/ b <= c
    BY <2>2, PageOrder
  <2> QED BY <1>5, <1>6, <2>3
<1>8. pt'[p] = pt[p]
  BY <1>1, <1>7 DEF FreshPages
<1>9. pt[p] \in Int /\ pt[p] < page_counter /\ page_counter \in Nat
  BY <1>1 DEF Frames
<1>10. PICK x : x = GetPhysAddr(pt, va)
  OBVIOUS
<1>11. x \notin DOMAIN SegmentBytes(Segments[k])
  <2>1. PICK P \in Nat \ {0} : P = PAGE_SIZE
    BY BootTypes
  <2>2. PICK f \in Int, e \in Int : f = pt[p] /\ e = page_counter /\ f < e
    BY <1>9
  <2>3. x = P * f + r
    BY <1>5, <1>10, <2>1, <2>2 DEF GetPhysAddr
  <2>4. PICK g \in Int : g = f + 1 /\ g <= e
    BY <2>2
  <2>5. P * g <= P * e /\ P * g = P * f + P
    BY <2>4, PageOrder
  <2>6. PICK u \in Int, v \in Int : u = P * f /\ v = P * e
    OBVIOUS
  <2>7. x \in Int /\ x < v
    BY <2>1, <2>3, <2>5, <2>6
  <2>8. v = page_counter * PAGE_SIZE
    BY <2>1, <2>2, <2>6
  <2>9. DOMAIN SegmentBytes(Segments[k]) =
           v .. (v + P2RoundUp(Segments[k].memsz, PAGE_SIZE)) - 1
    BY <2>8 DEF SegmentBytes
  <2> QED BY <2>7, <2>9
<1>12. Stored(ram', x) = Stored(ram, x)
  BY <1>1, <1>11, StoredOver
<1>13. GetPhysAddr(pt', va) = x
  BY <1>5, <1>8, <1>10 DEF GetPhysAddr
<1>14. ByteAt(Segments[i].vaddr + o)' = Stored(ram', x)
  BY <1>4, <1>13 DEF ByteAt
<1>15. /\ BOOT_FRAMES <= pt[PageOf(va)]
       /\ va < BSS_END => Stored(ram, x) = IF o < Segments[i].filesz
                                           THEN FileByte(Segments[i].off + o) ELSE Zero
  BY <1>4, <1>10 DEF InPlace, ByteAt
<1> QED BY <1>4, <1>5, <1>8, <1>12, <1>14, <1>15

\* The unsigned count of what is left to copy is right up to the last page of
\* the file part.
LEMMA CopiedRight ==
    ASSUME NEW P \in Nat \ {0}, P = PAGE_SIZE, NEW seg, NEW f \in 0 .. SIZE_MAX, f = seg.filesz,
           NEW m \in Nat, P * m < f, NEW r \in 0 .. P - 1
    PROVE  r < Copied(seg, m) <=> P * m + r < f
<1>1. SIZE_MAX \in Nat
  BY BootTypes
<1>2. PICK y \in Nat : y = P * m
  OBVIOUS
<1>3. PICK z \in Int : z = f - y /\ 0 < z /\ z <= SIZE_MAX
  BY <1>1, <1>2
<1>4. (seg.filesz - m * PAGE_SIZE) % (SIZE_MAX + 1) = z
  <2>1. m * PAGE_SIZE = y
    BY <1>2
  <2>2. PICK M \in Nat \ {0} : M = SIZE_MAX + 1
    BY <1>1
  <2>3. z \in 0 .. M - 1 /\ z = M * 0 + z /\ 0 \in Int
    BY <1>1, <1>3, <2>2
  <2>4. z % M = z
    BY ONLY <2>3, M \in Nat \ {0}, z \in Int
  <2> QED BY <1>3, <2>1, <2>2, <2>4
<1>5. Copied(seg, m) = IF z < P THEN z ELSE P
  BY <1>4 DEF Copied
<1>6. y + r < f <=> r < z
  BY <1>1, <1>2, <1>3
<1> QED BY <1>2, <1>3, <1>5, <1>6

\* And the segment itself is in place.
LEMMA LoadPlacesSegment ==
    ASSUME KernelFits, BootInv, LoadSegment, NEW i \in Loaded, i = k
    PROVE  InPlace(i)'
<1>1. PICK a, b \in Int :
             /\ SegmentAt(i, a, b)
             /\ Frames(pt, page_counter)
             /\ pt' = FreshPages(pt, page_counter, a, b)
             /\ ram' = Over(ram, SegmentBytes(Segments[i]))
  BY LoadedPages
<1>2. PICK P \in Nat \ {0}, C \in Nat : P = PAGE_SIZE /\ C = page_counter /\ BOOT_FRAMES <= C
  BY <1>1, BootTypes DEF Frames
<1>3. PICK seg : seg = Segments[i]
  OBVIOUS
<1>4. PICK c, d, n \in Int : FileAt(i, c, d, n)
  BY FilePages
<1>5. c = a /\ d = b
  <2>1. P * c = P * a /\ P * d = P * b
    BY <1>1, <1>2, <1>4 DEF FileAt, SegmentAt
  <2> QED BY <2>1, PageOrder
<1> SUFFICES ASSUME NEW o \in 0 .. P2RoundUp(seg.filesz, PAGE_SIZE) - 1
             PROVE  /\ BOOT_FRAMES <= pt'[PageOf(seg.vaddr + o)]
                    /\ Stored(ram', GetPhysAddr(pt', seg.vaddr + o)) =
                         IF o < seg.filesz THEN FileByte(seg.off + o) ELSE Zero
  BY <1>3 DEF InPlace, ByteAt
<1>6. PICK m \in 0 .. n - 1, r \in 0 .. PAGE_SIZE - 1 : OnPage(i, a, b, o, m, r)
  BY <1>3, <1>4, <1>5, FileByteAt
<1>7. m \in Nat /\ m < n /\ r \in 0 .. P - 1 /\ o = P * m + r /\ n <= b - a
  BY <1>2, <1>4, <1>5, <1>6 DEF OnPage, FileAt
<1>8. pt'[PageOf(seg.vaddr + o)] = C + m
  <2>1. PageOf(seg.vaddr + o) = a + m /\ a + m \in VaPages /\ a <= a + m /\ a + m < b
    BY <1>3, <1>6, <1>7 DEF OnPage
  <2>2. pt'[a + m] = C + ((a + m) - a)
    BY <1>1, <1>2, <2>1 DEF FreshPages
  <2> QED BY <1>7, <2>1, <2>2
<1>9. PICK y \in Nat, z \in Int, x \in Int : y = P * m /\ z = P * C /\ x = z + o /\ o = y + r
  BY <1>7
<1>10. GetPhysAddr(pt', seg.vaddr + o) = x
  <2>1. PAGE_OFFSET(seg.vaddr + o) = r
    BY <1>3, <1>6 DEF OnPage
  <2>2. (C + m) * P = z + y
    BY <1>7, <1>9
  <2>3. GetPhysAddr(pt', seg.vaddr + o) = (C + m) * P + r
    BY <1>2, <1>8, <2>1 DEF GetPhysAddr
  <2> QED BY <1>7, <1>9, <2>2, <2>3
<1>11. PICK l \in Int : l = P2RoundUp(seg.memsz, PAGE_SIZE) /\ o < l
  <2>1. PICK e \in Int : e = b - a
    OBVIOUS
  <2>2. P * n <= P * e
    BY <1>7, <2>1, PageOrder
  <2>3. PICK v \in Int, l \in Int : v = P * n /\ l = P * e
    BY <2>1
  <2>4. l = P2RoundUp(seg.memsz, PAGE_SIZE)
    BY <1>1, <1>2, <1>3, <2>1, <2>3 DEF SegmentAt
  <2>5. o < v
    <3>1. P2RoundUp(seg.filesz, PAGE_SIZE) = v
      BY <1>2, <1>3, <1>4, <2>3 DEF FileAt
    <3> QED BY <3>1
  <2> QED BY <1>9, <2>2, <2>3, <2>4, <2>5
<1>12. PICK new : new = SegmentBytes(seg)
  OBVIOUS
<1>13. /\ DOMAIN new = z .. (z + l) - 1
       /\ \A w \in z .. (z + l) - 1 :
            new[w] = IF PAGE_OFFSET(w - z) < Copied(seg, (w - z) \div PAGE_SIZE)
                     THEN FileByte(seg.off + (w - z)) ELSE Zero
  <2>1. page_counter * PAGE_SIZE = z
    BY <1>2, <1>9
  <2> QED BY <1>11, <1>12, <2>1 DEF SegmentBytes
<1>14. x \in DOMAIN new /\ x - z = o
  <2>1. x \in z .. (z + l) - 1
    BY <1>7, <1>9, <1>11
  <2> QED BY <1>9, <1>13, <2>1
<1>15. PAGE_OFFSET(o) = r /\ o \div PAGE_SIZE = m
  <2>1. o \in Int /\ m \in Int /\ r \in 0 .. P - 1 /\ o = P * m + r
    BY <1>7, <1>9
  <2>2. o \div P = m /\ o % P = r
    BY ONLY <2>1, P \in Nat \ {0}, DivisionUnique
  <2> QED BY <1>2, <2>2 DEF PAGE_OFFSET
<1>16. new[x] = IF r < Copied(seg, m) THEN FileByte(seg.off + o) ELSE Zero
  BY <1>13, <1>14, <1>15
<1>17. r < Copied(seg, m) <=> P * m + r < seg.filesz
  <2>1. PICK f \in 0 .. SIZE_MAX : f = seg.filesz
    BY <1>3, SegmentTypes DEF Loaded
  <2>2. P * n < f + P
    BY <1>2, <1>3, <1>4, <2>1 DEF FileAt
  <2>3. PICK e \in Int : e = m + 1 /\ e <= n
    BY <1>7
  <2>4. P * e <= P * n /\ P * e = P * m + P
    <3>1. P * e = P * m + P
      BY <1>7, <2>3
    <3> QED BY <2>3, <3>1, PageOrder
  <2>5. PICK u \in Int, v \in Int : u = P * n /\ v = P * e
    BY <2>3
  <2>6. P * m < f
    <3>1. f \in Int
      BY BootTypes
    <3>2. u < f + P /\ v <= u /\ v = y + P
      BY <1>9, <2>2, <2>4, <2>5
    <3>3. y < f
      BY <3>1, <3>2
    <3> QED BY <1>9, <3>3
  <2> QED BY <1>2, <1>7, <2>1, <2>6, CopiedRight
<1>18. Stored(ram', x) = new[x]
  BY <1>1, <1>3, <1>12, <1>14, StoredOver
<1>19. BOOT_FRAMES <= C + m
  BY <1>2, <1>7, BootTypes
<1> QED BY <1>7, <1>8, <1>10, <1>16, <1>17, <1>18, <1>19

-----------------------------------------------------------------------------
(* The buffers the boot writes. *)

IsBuffer(s, n) == n \in Nat /\ (\E B : s \in Seq(B)) /\ Len(s) = n

LEMMA ListBuffer ==
    ASSUME NEW n \in Nat, NEW s, s = [i \in 1 .. n |-> s[i]]
    PROVE  IsBuffer(s, n)
<1>1. PICK B : B = {s[i] : i \in 1 .. n}
  OBVIOUS
<1>2. s \in [1 .. n -> B]
  BY <1>1
<1>3. s \in Seq(B) /\ Len(s) = n
  BY <1>2
<1> QED BY <1>3 DEF IsBuffer

LEMMA JoinedBuffer ==
    ASSUME NEW s, NEW n, IsBuffer(s, n), NEW t, NEW m, IsBuffer(t, m)
    PROVE  IsBuffer(s \o t, n + m)
<1>1. PICK B : s \in Seq(B)
  BY DEF IsBuffer
<1>2. PICK C : t \in Seq(C)
  BY DEF IsBuffer
<1>3. PICK D : D = B \cup C
  OBVIOUS
<1>4. s \in Seq(D) /\ t \in Seq(D)
  BY <1>1, <1>2, <1>3
<1>5. s \o t \in Seq(D) /\ Len(s \o t) = Len(s) + Len(t)
  BY <1>4
<1> QED BY <1>5 DEF IsBuffer

LEMMA OneBuffer ==
    ASSUME NEW x
    PROVE  IsBuffer(<<x>>, 1)
<1>1. <<x>> \in Seq({x}) /\ Len(<<x>>) = 1
  OBVIOUS
<1> QED BY <1>1 DEF IsBuffer

LEMMA StringBuffer ==
    ASSUME NEW kind, NEW i, NEW len \in Nat
    PROVE  IsBuffer(CString(kind, i, len), len + 1)
<1>1. PICK s : s = [c \in 1 .. len |-> Char(kind, i, c)]
  OBVIOUS
<1>2. IsBuffer(s, len)
  <2>1. s = [c \in 1 .. len |-> s[c]]
    BY <1>1
  <2> QED BY <2>1, ListBuffer
<1>3. IsBuffer(<<Zero>>, 1)
  BY OneBuffer
<1>4. IsBuffer(s \o <<Zero>>, len + 1)
  BY <1>2, <1>3, JoinedBuffer
<1> QED BY <1>1, <1>4 DEF CString

LEMMA WordsBuffer ==
    ASSUME NEW words, NEW n, IsBuffer(words, n)
    PROVE  IsBuffer(WordBytes(words), n * WORD)
<1>1. PICK l \in Nat : l = n * WORD
  BY BootTypes DEF IsBuffer
<1>2. PICK s : s = [j \in 1 .. l |-> Word(words[((j - 1) \div WORD) + 1])[((j - 1) % WORD) + 1]]
  OBVIOUS
<1>3. IsBuffer(s, l)
  <2>1. s = [j \in 1 .. l |-> s[j]]
    BY <1>2
  <2> QED BY <2>1, ListBuffer
<1>4. WordBytes(words) = s
  BY <1>1, <1>2 DEF WordBytes, IsBuffer
<1> QED BY <1>1, <1>3, <1>4

\* A buffer written below page q, and one after the other.
LEMMA BufferKeeps ==
    ASSUME NEW t, NEW c, Frames(t, c), NEW ram0, NEW q \in Int, q <= VA_PAGES, 0 <= q,
           NEW va \in Int, NEW source, NEW n, IsBuffer(source, n), 0 <= va,
           va + n <= PAGE_SIZE * q
    PROVE  Kept(t, q, ram0, WriteVirtualAddr(t, ram0, va, source).ram)
<1>1. PICK B : source \in Seq(B)
  BY DEF IsBuffer
<1>2. va + Len(source) <= PAGE_SIZE * q
  BY DEF IsBuffer
<1> QED BY <1>1, <1>2, WriteKeeps

LEMMA KeptTwice ==
    ASSUME NEW t, NEW q, NEW r1, NEW r2, NEW r3, Kept(t, q, r1, r2), Kept(t, q, r2, r3)
    PROVE  Kept(t, q, r1, r3)
BY DEF Kept

\* The kernel's stack in pages.
LEMMA StackPages ==
    ASSUME KernelFits, NEW q \in Int, PlaceInv(q)
    PROVE  \E a \in Int : /\ a = q - KSTACK_PAGES /\ StackBottom = PAGE_SIZE * a /\ 3 <= a
                          /\ image = PAGE_SIZE * q /\ q <= VA_PAGES /\ 0 <= q
                          /\ StackBottom \in Int /\ image \in Int
<1>1. Order(q) /\ image = PAGE_SIZE * q
  BY PlaceOrder DEF PlaceInv
<1>2. PICK a \in Int : a = q - KSTACK_PAGES
  BY <1>1 DEF Order
<1>3. StackBottom = PAGE_SIZE * a
  <2>1. KSTACK_PAGES * PAGE_SIZE = PAGE_SIZE * KSTACK_PAGES
    BY BootTypes
  <2>2. (PAGE_SIZE * q) - (PAGE_SIZE * KSTACK_PAGES) = PAGE_SIZE * (q - KSTACK_PAGES)
    BY BootTypes, PageOrder
  <2> QED BY <1>1, <1>2, <2>1, <2>2 DEF StackBottom
<1>4. 3 <= a /\ 0 <= q /\ q <= VA_PAGES
  BY <1>1, <1>2 DEF Order
<1>5. PAGE_SIZE * a \in Int /\ PAGE_SIZE * q \in Int
  BY BootTypes
<1> QED BY <1>1, <1>2, <1>3, <1>4, <1>5

\* A string that is as long as the space below the stack at most: it changes
\* nothing of the image, and when it is written it is on the stack.
LEMMA StringPut ==
    ASSUME KernelFits, NEW q \in Int, MapInv(q), PlaceInv(q), at \in {"argv", "envp"}, StackInv,
           NEW string, NEW n, IsBuffer(string, n), n <= StackBottom,
           NEW w, w = WriteVirtualAddr(pt, ram, ksp - Len(string), string)
    PROVE  /\ Kept(pt, q, ram, w.ram)
           /\ w.ok => /\ ksp - Len(string) \in Int
                      /\ StackBottom <= ksp - Len(string) /\ ksp - Len(string) <= image
<1>1. PICK a \in Int : /\ a = q - KSTACK_PAGES /\ StackBottom = PAGE_SIZE * a /\ 3 <= a
                       /\ image = PAGE_SIZE * q /\ q <= VA_PAGES /\ 0 <= q
                       /\ StackBottom \in Int /\ image \in Int
  BY StackPages
<1>2. n \in Nat /\ Len(string) = n
  BY DEF IsBuffer
<1>3. PICK va \in Int : va = ksp - n /\ va + n = ksp /\ 0 <= va /\ va + n <= image
  BY <1>1, <1>2 DEF StackInv
<1>4. Frames(pt, page_counter) /\ Clear(pt, 2, a)
  BY <1>1 DEF MapInv
<1>5. Kept(pt, q, ram, w.ram)
  BY <1>1, <1>2, <1>3, <1>4, BufferKeeps
<1>6. ASSUME w.ok, va < StackBottom PROVE FALSE
  <2>1. PICK B : string \in Seq(B)
    BY DEF IsBuffer
  <2>2. pt \in [VaPages -> Int]
    BY <1>4 DEF Frames
  <2>3. IsWritten(pt, ram, va, string, n, w)
    BY <1>2, <1>3, <2>1, <2>2, WriteIsGuestWrite
  <2>4. Mapped(pt, va, n)
    <3>1. Mapped(pt, va + (n - n), n)
      BY <1>2, <1>6, <2>3 DEF IsWritten
    <3>2. va + (n - n) = va
      BY <1>2
    <3> QED BY <3>1, <3>2
  <2>5. PICK x \in Int : x = StackBottom - 1
    BY <1>1
  <2>6. PICK i \in Int : i = x - va
    OBVIOUS
  <2>7. i \in 0 .. n - 1 /\ va + i = x
    <3>1. PICK s \in Int, e \in Int : s = StackBottom /\ e = ksp /\ s <= e
      BY <1>1 DEF StackInv
    <3>2. va + n = e /\ va < s /\ x = s - 1
      BY <1>3, <1>6, <2>5, <3>1
    <3> QED BY ONLY <1>2, <2>6, <3>1, <3>2, va \in Int, x \in Int, i \in Int, n \in Nat
  <2>8. pt[PageOf(x)] # NoFrame
    BY <2>4, <2>7 DEF Mapped, IsVpagePresent
  <2>9. a \in 1 .. VA_PAGES
    BY <1>1, BootTypes
  <2>10. PageOf(x) = a - 1
    BY <1>1, <2>5, <2>9, PageEnds
  <2>11. pt[a - 1] = NoFrame
    <3>1. a - 1 \in VaPages /\ 2 <= a - 1 /\ a - 1 < a
      BY <1>1, <2>9, BootTypes DEF VaPages
    <3> QED BY <1>4, <3>1 DEF Clear
  <2> QED BY <2>8, <2>10, <2>11
<1>7. ksp - Len(string) = va
  BY <1>2, <1>3
<1>8. w.ok => StackBottom <= va
  BY <1>1, <1>6
<1>9. va <= image
  <2>1. PICK e \in Int : e = image
    BY <1>1
  <2> QED BY <1>2, <1>3, <2>1
<1> QED BY <1>5, <1>7, <1>8, <1>9

\* No string is longer than the space below the stack.
LEMMA RoomBelow ==
    ASSUME ArgumentsBounded, NEW q \in Int, PlaceInv(q)
    PROVE  /\ argc \in Nat /\ envc \in Nat
           /\ \A j \in 1 .. argc : args[j] \in Nat /\ args[j] + 1 <= StackBottom
           /\ \A j \in 1 .. envc : envs[j] \in Nat /\ envs[j] + 1 <= StackBottom
           /\ (argc + envc + 2) * WORD <= StackBottom
<1>1. args \in Arguments /\ envs \in Environments /\ image \in Bases
  BY DEF PlaceInv
<1>2. args \in Seq(Nat) /\ envs \in Seq(Nat)
  BY <1>1, BootAssumption
<1>3. argc \in Nat /\ envc \in Nat /\ DOMAIN args = 1 .. argc /\ DOMAIN envs = 1 .. envc
  BY <1>2 DEF argc, envc
<1>4. /\ \A a \in Arguments \cup Environments : \A j \in DOMAIN a : a[j] + 1 <= StackBottom
      /\ \A a \in Arguments, e \in Environments : (Len(a) + Len(e) + 2) * WORD <= StackBottom
  BY <1>1 DEF ArgumentsBounded, StackBottom
<1>5. \A j \in 1 .. argc : args[j] \in Nat /\ args[j] + 1 <= StackBottom
  <2>1. \A j \in 1 .. argc : args[j] \in Nat
    BY <1>2, <1>3
  <2> QED BY <1>1, <1>3, <1>4, <2>1
<1>6. \A j \in 1 .. envc : envs[j] \in Nat /\ envs[j] + 1 <= StackBottom
  <2>1. \A j \in 1 .. envc : envs[j] \in Nat
    BY <1>2, <1>3
  <2> QED BY <1>1, <1>3, <1>4, <2>1
<1>7. (argc + envc + 2) * WORD <= StackBottom
  BY <1>1, <1>4 DEF argc, envc
<1> QED BY <1>3, <1>5, <1>6, <1>7

\* The loop over argv.
LEMMA PutArgKeeps ==
    ASSUME KernelFits, ArgumentsBounded, NEW q \in Int, MapInv(q), PlaceInv(q), StackInv, PutArg
    PROVE  Kept(pt, q, ram, ram') /\ StackInv'
<1>1. at = "argv" /\ k > 0 /\ k \in 0 .. argc
  BY DEF PutArg, StackInv
<1>2. argc \in Nat /\ args[k] \in Nat /\ args[k] + 1 <= StackBottom
  <2>1. /\ argc \in Nat
        /\ \A j \in 1 .. argc : args[j] \in Nat /\ args[j] + 1 <= StackBottom
    BY RoomBelow
  <2>2. k \in 1 .. argc
    BY <1>1, <2>1
  <2> QED BY <2>1, <2>2
<1>3. PICK string : string = CString("argv", k - 1, args[k])
  OBVIOUS
<1>4. IsBuffer(string, args[k] + 1)
  BY <1>2, <1>3, StringBuffer
<1>5. PICK w : w = WriteVirtualAddr(pt, ram, ksp - Len(string), string)
  OBVIOUS
<1>6. /\ Kept(pt, q, ram, w.ram)
      /\ w.ok => /\ ksp - Len(string) \in Int
                 /\ StackBottom <= ksp - Len(string) /\ ksp - Len(string) <= image
  BY <1>1, <1>2, <1>4, <1>5, StringPut
<1>7. /\ ram' = w.ram
      /\ UNCHANGED <<args, envs, image>>
      /\ \/ at' = "exit"
         \/ w.ok /\ ksp' = ksp - Len(string) /\ k' = k - 1 /\ at' = at
  BY <1>3, <1>5 DEF PutArg, Exit, input
<1>8. StackInv'
  <2>1. CASE at' = "exit"
    BY <2>1 DEF StackInv
  <2>2. CASE w.ok /\ ksp' = ksp - Len(string) /\ k' = k - 1 /\ at' = at
    <3>1. k' \in 0 .. argc' /\ at' = "argv"
      BY <1>1, <1>2, <1>7, <2>2 DEF argc
    <3>2. ksp' \in Int /\ StackBottom' <= ksp' /\ ksp' <= image'
      BY <1>6, <1>7, <2>2 DEF StackBottom
    <3> QED BY <3>1, <3>2 DEF StackInv
  <2> QED BY <1>7, <2>1, <2>2
<1> QED BY <1>6, <1>7, <1>8

\* The loop over envp.
LEMMA PutEnvKeeps ==
    ASSUME KernelFits, ArgumentsBounded, NEW q \in Int, MapInv(q), PlaceInv(q), StackInv, PutEnv
    PROVE  Kept(pt, q, ram, ram') /\ StackInv'
<1>1. at = "envp" /\ k > 0 /\ k \in 0 .. envc
  BY DEF PutEnv, StackInv
<1>2. envc \in Nat /\ envs[k] \in Nat /\ envs[k] + 1 <= StackBottom
  <2>1. /\ envc \in Nat
        /\ \A j \in 1 .. envc : envs[j] \in Nat /\ envs[j] + 1 <= StackBottom
    BY RoomBelow
  <2>2. k \in 1 .. envc
    BY <1>1, <2>1
  <2> QED BY <2>1, <2>2
<1>3. PICK string : string = CString("envp", k - 1, envs[k])
  OBVIOUS
<1>4. IsBuffer(string, envs[k] + 1)
  BY <1>2, <1>3, StringBuffer
<1>5. PICK w : w = WriteVirtualAddr(pt, ram, ksp - Len(string), string)
  OBVIOUS
<1>6. /\ Kept(pt, q, ram, w.ram)
      /\ w.ok => /\ ksp - Len(string) \in Int
                 /\ StackBottom <= ksp - Len(string) /\ ksp - Len(string) <= image
  BY <1>1, <1>2, <1>4, <1>5, StringPut
<1>7. /\ ram' = w.ram
      /\ UNCHANGED <<args, envs, image>>
      /\ \/ at' = "exit"
         \/ w.ok /\ ksp' = ksp - Len(string) /\ k' = k - 1 /\ at' = at
  BY <1>3, <1>5 DEF PutEnv, Exit, input
<1>8. StackInv'
  <2>1. CASE at' = "exit"
    BY <2>1 DEF StackInv
  <2>2. CASE w.ok /\ ksp' = ksp - Len(string) /\ k' = k - 1 /\ at' = at
    <3>1. k' \in 0 .. envc' /\ at' = "envp"
      BY <1>1, <1>2, <1>7, <2>2 DEF envc
    <3>2. ksp' \in Int /\ StackBottom' <= ksp' /\ ksp' <= image'
      BY <1>6, <1>7, <2>2 DEF StackBottom
    <3> QED BY <3>1, <3>2 DEF StackInv
  <2> QED BY <1>7, <2>1, <2>2
<1> QED BY <1>6, <1>7, <1>8

\* The two arrays, whose writes may fail.
LEMMA PutArraysKeeps ==
    ASSUME KernelFits, ArgumentsBounded, NEW q \in Int, MapInv(q), PlaceInv(q), StackInv, PutArrays
    PROVE  Kept(pt, q, ram, ram') /\ StackInv'
<1>1. /\ at = "envp" /\ at' = "tss"
      /\ argv' = P2Align(ksp, WORD) - argc * WORD /\ envp' = argv' - (envc + 1) * WORD
  BY DEF PutArrays
<1>2. PICK a \in Int : /\ StackBottom = PAGE_SIZE * a
                       /\ image = PAGE_SIZE * q /\ q <= VA_PAGES /\ 0 <= q
                       /\ StackBottom \in Int /\ image \in Int
  BY StackPages
<1>3. /\ argc \in Nat /\ envc \in Nat /\ (argc + envc + 2) * WORD <= StackBottom
  BY RoomBelow
<1>4. PICK W \in Nat \ {0}, z \in Int, e \in Int, s \in Int :
          W = WORD /\ z = P2Align(ksp, WORD) /\ e = image /\ s = StackBottom
          /\ z <= e /\ s < z + W
  <2>1. PICK y \in Int, e \in Int, s \in Int :
            y = ksp /\ e = image /\ s = StackBottom /\ s <= y /\ y <= e
    BY <1>1, <1>2 DEF StackInv
  <2>2. PICK W \in Nat \ {0} : W = WORD
    BY BootTypes
  <2>3. P2Align(y, W) \in Int /\ P2Align(y, W) <= y /\ y < P2Align(y, W) + W
    BY AlignFacts
  <2>4. PICK z \in Int : z = P2Align(y, W)
    BY <2>3
  <2>5. z <= e /\ s < z + W
    BY <2>1, <2>3, <2>4
  <2> QED BY <2>1, <2>2, <2>4, <2>5
<1>5. PICK m \in Nat, n \in Nat : m = argc * WORD /\ n = (envc + 1) * WORD /\ m + n + W <= s
  <2>1. PICK x \in Nat, y \in Nat : x = argc /\ y = envc
    BY <1>3
  <2>2. PICK m \in Nat, n \in Nat : m = x * W /\ n = (y + 1) * W
    OBVIOUS
  <2>3. (x + y + 2) * W = m + n + W
    BY <2>2
  <2> QED BY <1>3, <1>4, <2>1, <2>2, <2>3
<1>6. PICK v \in Int, u \in Int : v = argv' /\ u = envp' /\ v = z - m /\ u = v - n
  BY <1>1, <1>4, <1>5
<1>7. 0 <= u /\ 0 <= v /\ v + m <= PAGE_SIZE * q /\ u + n <= PAGE_SIZE * q
  <2>1. PICK b \in Int : b = PAGE_SIZE * q
    BY <1>2
  <2>2. 0 <= u /\ 0 <= v /\ v + m <= b /\ u + n <= b
    BY <1>2, <1>4, <1>5, <1>6, <2>1
  <2> QED BY <2>1, <2>2
<1>8. PICK first, second : /\ first = WordBytes(Listed(kernel_argv, argc))
                           /\ second = WordBytes(Listed(kernel_envp, envc) \o <<NULL>>)
  OBVIOUS
<1>9. ASSUME NEW f, NEW i \in Nat PROVE IsBuffer(Listed(f, i), i)
  <2>1. PICK l : l = Listed(f, i)
    OBVIOUS
  <2>2. l = [j \in 1 .. i |-> l[j]]
    BY <2>1 DEF Listed
  <2> QED BY <2>1, <2>2, ListBuffer
<1>10. IsBuffer(first, m)
  BY <1>3, <1>5, <1>8, <1>9, WordsBuffer
<1>11. IsBuffer(second, n)
  <2>1. IsBuffer(Listed(kernel_envp, envc) \o <<NULL>>, envc + 1)
    BY <1>3, <1>9, OneBuffer, JoinedBuffer
  <2> QED BY <1>5, <1>8, <2>1, WordsBuffer
<1>12. PICK w : w = WriteVirtualAddr(pt, ram, v, first)
  OBVIOUS
<1>13. ram' = WriteVirtualAddr(pt, w.ram, u, second).ram
  BY <1>6, <1>8, <1>12 DEF PutArrays
<1>14. Frames(pt, page_counter)
  BY DEF MapInv
<1>15. Kept(pt, q, ram, w.ram)
  BY <1>2, <1>7, <1>10, <1>12, <1>14, BufferKeeps
<1>16. Kept(pt, q, w.ram, ram')
  BY <1>2, <1>7, <1>11, <1>13, <1>14, BufferKeeps
<1>17. StackInv'
  BY <1>1 DEF StackInv
<1> QED BY <1>15, <1>16, <1>17, KeptTwice

\* What load_user_land writes.
UserBlock(array, n, pos) == GuestBytes(pt, ram, IF n = 0 THEN 0 ELSE WordAt(array), pos[n] - pos[0])
WrittenBy(t, mem, va, bytes) == WriteVirtualAddr(t, mem, va, bytes).ram

LEMMA LoadUserLandWrites ==
    ASSUME LoadUserLand
    PROVE  \E u, words, r1, r2 :
              /\ u = UserLayout /\ ~TooDeep(u.sp) /\ words = WordBytes(UserWords(u))
              /\ r1 = WrittenBy(pt', ram, u.argv[0], UserBlock(argv, argc, u.argv))
              /\ r2 = WrittenBy(pt', r1, u.envp[0], UserBlock(envp, u.envc, u.envp))
              /\ ram' = WrittenBy(pt', r2, u.sp, words)
<1>1. PICK u : u = UserLayout
  OBVIOUS
<1>2. PICK words : words = WordBytes(UserWords(u))
  OBVIOUS
<1>3. PICK r1 : r1 = WrittenBy(pt', ram, u.argv[0], UserBlock(argv, argc, u.argv))
  OBVIOUS
<1>4. PICK r2 : r2 = WrittenBy(pt', r1, u.envp[0], UserBlock(envp, u.envc, u.envp))
  OBVIOUS
<1>5. \E x \in {UserLayout} : \E y \in {WordBytes(UserWords(x))} :
         /\ ~TooDeep(x.sp)
         /\ ram' = WrittenBy(pt', WrittenBy(pt', WrittenBy(pt', ram, x.argv[0],
                                                           UserBlock(argv, argc, x.argv)),
                                            x.envp[0], UserBlock(envp, x.envc, x.envp)),
                             x.sp, y)
  BY Zenon DEF LoadUserLand, WrittenBy, UserBlock
<1>6. /\ ~TooDeep(u.sp)
      /\ ram' = WrittenBy(pt', WrittenBy(pt', WrittenBy(pt', ram, u.argv[0],
                                                        UserBlock(argv, argc, u.argv)),
                                         u.envp[0], UserBlock(envp, u.envc, u.envp)),
                          u.sp, words)
  BY <1>1, <1>2, <1>5, Zenon
<1>7. ram' = WrittenBy(pt', r2, u.sp, words)
  BY <1>3, <1>4, <1>6, Zenon
<1> QED BY <1>1, <1>2, <1>3, <1>4, <1>6, <1>7, Zenon

\* The words at the stack pointer.
LEMMA UserWordsBuffer ==
    ASSUME NEW u, argc \in Nat, u.envc \in Nat
    PROVE  IsBuffer(UserWords(u), 2 * Len(Aux) + 2 + Items(u.envc))
<1> DEFINE A == [i \in 1 .. argc |-> u.argv[i - 1]]
           E == [i \in 1 .. u.envc |-> u.envp[i - 1]]
           X == [i \in 1 .. 2 * Len(Aux) |->
                   IF i % 2 = 1 THEN Aux[(i + 1) \div 2] ELSE AuxValue(Aux[i \div 2], u.random)]
<1>1. IsBuffer(A, argc)
  <2>1. A = [i \in 1 .. argc |-> A[i]]
    OBVIOUS
  <2> HIDE DEF A
  <2> QED BY <2>1, ListBuffer
<1>2. IsBuffer(E, u.envc)
  <2>1. E = [i \in 1 .. u.envc |-> E[i]]
    OBVIOUS
  <2> HIDE DEF E
  <2> QED BY <2>1, ListBuffer
<1>3. PICK x \in Nat : x = 2 * Len(Aux)
  BY AuxLength
<1>4. IsBuffer(X, x)
  <2>1. X = [i \in 1 .. x |-> X[i]]
    BY <1>3
  <2> HIDE DEF X
  <2> QED BY <2>1, ListBuffer
<1>5. UserWords(u) = <<argc>> \o A \o <<NULL>> \o E \o <<NULL>> \o X \o <<NULL, NULL>>
  BY DEF UserWords
<1> HIDE DEF A, E, X
<1>6. IsBuffer(<<argc>> \o A, 1 + argc)
  BY <1>1, OneBuffer, JoinedBuffer
<1>7. IsBuffer(<<argc>> \o A \o <<NULL>>, (1 + argc) + 1)
  BY <1>6, OneBuffer, JoinedBuffer
<1>8. IsBuffer(<<argc>> \o A \o <<NULL>> \o E, ((1 + argc) + 1) + u.envc)
  BY <1>2, <1>7, JoinedBuffer
<1>9. IsBuffer(<<argc>> \o A \o <<NULL>> \o E \o <<NULL>>, (((1 + argc) + 1) + u.envc) + 1)
  BY <1>8, OneBuffer, JoinedBuffer
<1>10. IsBuffer(<<argc>> \o A \o <<NULL>> \o E \o <<NULL>> \o X,
                ((((1 + argc) + 1) + u.envc) + 1) + x)
  BY <1>4, <1>9, JoinedBuffer
<1>11. IsBuffer(<<NULL, NULL>>, 2)
  <2>1. <<NULL, NULL>> \in Seq({NULL}) /\ Len(<<NULL, NULL>>) = 2
    OBVIOUS
  <2> QED BY <2>1 DEF IsBuffer
<1>12. IsBuffer(UserWords(u), (((((1 + argc) + 1) + u.envc) + 1) + x) + 2)
  BY <1>5, <1>10, <1>11, JoinedBuffer
<1>13. (((((1 + argc) + 1) + u.envc) + 1) + x) + 2 = 2 * Len(Aux) + 2 + Items(u.envc)
  <2>1. PICK c \in Nat, e \in Nat : c = argc /\ e = u.envc
    OBVIOUS
  <2>2. Items(u.envc) = (c + 1) + (e + 1) + 1
    BY <2>1 DEF Items
  <2>3. (((((1 + c) + 1) + e) + 1) + x) + 2 = x + 2 + ((c + 1) + (e + 1) + 1)
    BY ONLY x \in Nat, c \in Nat, e \in Nat
  <2> QED BY <1>3, <2>1, <2>2, <2>3
<1> QED BY <1>12, <1>13

LEMMA BlockBuffer ==
    ASSUME NEW array, NEW n, NEW pos, NEW l \in Nat, l = pos[n] - pos[0]
    PROVE  IsBuffer(UserBlock(array, n, pos), l)
<1>1. PICK b : b = UserBlock(array, n, pos)
  OBVIOUS
<1>2. b = [i \in 1 .. l |-> b[i]]
  BY <1>1 DEF UserBlock, GuestBytes
<1> QED BY <1>1, <1>2, ListBuffer

\* All three writes go to the user stack.
LEMMA LoadUserLandKeeps ==
    ASSUME KernelFits, NEW q \in Int, MapInv(q), PlaceInv(q), LoadUserLand
    PROVE  Kept(pt', q, ram, ram')
<1>1. at = "user_land" /\ ~ArgumentsUnreadable
  BY LoadUserLandMaps
<1>2. PICK u, words, r1, r2 :
          /\ u = UserLayout /\ ~TooDeep(u.sp) /\ words = WordBytes(UserWords(u))
          /\ r1 = WrittenBy(pt', ram, u.argv[0], UserBlock(argv, argc, u.argv))
          /\ r2 = WrittenBy(pt', r1, u.envp[0], UserBlock(envp, u.envc, u.envp))
          /\ ram' = WrittenBy(pt', r2, u.sp, words)
  BY LoadUserLandWrites
<1>3. PICK d \in Int, P \in Nat \ {0} :
          d = HalfPage(q) /\ P = PAGE_SIZE /\ user_stack.start = P * d /\ Order(q)
  <2>1. Order(q)
    BY PlaceOrder DEF PlaceInv
  <2>2. HalfPage(q) \in Int /\ PAGE_SIZE \in Nat \ {0}
    BY <2>1 DEF Order
  <2>3. user_stack.start = PAGE_SIZE * HalfPage(q)
    BY <1>1 DEF PlaceInv
  <2> QED BY <2>1, <2>2, <2>3
<1>4. 1 <= d /\ d <= q /\ q <= VA_PAGES /\ 0 <= q /\ user_stack_page_limit <= d
      /\ user_stack_page_limit \in Nat
  BY <1>3 DEF Order
<1>5. PICK top \in Int : top = user_stack.start /\ top = P * d /\ top <= P * q
  <2>1. P * d <= P * q
    BY <1>4, PageOrder
  <2> QED BY <1>3, <2>1
<1>6. args \in Arguments /\ envs \in Environments
  BY DEF PlaceInv
<1>7. UserPlaces(u, top)
  BY <1>1, <1>2, <1>5, <1>6, UserLayoutPlaced
<1>8. PICK x \in Nat : x = (2 * Len(Aux) + 2 + Items(u.envc)) * WORD
  BY <1>6, <1>7, PlacesBelow
<1>9. /\ argc \in Nat /\ u.envc \in Nat
      /\ u.argv[0] \in Int /\ u.argv[0] <= top /\ u.envp[0] \in Int /\ u.envp[0] <= u.argv[0]
      /\ u.random \in Int /\ u.random <= u.envp[0] /\ u.sp \in Int /\ u.sp + x <= u.random
      /\ u.sp <= top
  BY <1>6, <1>7, <1>8, PlacesBelow
<1>10. u.argv[argc] = top /\ u.envp[u.envc] = u.argv[0]
  BY <1>7 DEF UserPlaces, Placed
<1>11. 0 <= u.sp
  <2>1. PICK b \in Int : GrownPages(u.sp, d, b)
    BY <1>2, <1>3, <1>5, <1>9, GrownPage
  <2>2. P * b < u.sp /\ 0 <= b
    BY <1>3, <1>4, <2>1 DEF GrownPages
  <2>3. P * 0 <= P * b /\ P * 0 = 0
    BY <2>2, PageOrder
  <2>4. PICK y \in Int : y = P * b
    OBVIOUS
  <2> QED BY <1>9, <2>2, <2>3, <2>4
<1>12. PICK v \in Int, e \in Int, s \in Int : v = u.argv[0] /\ e = u.envp[0] /\ s = u.sp
  BY <1>9
<1>13. PICK z \in Int : z = P * q
  OBVIOUS
<1>14. PICK m \in Nat, n \in Nat : m = top - v /\ n = v - e
  BY <1>9, <1>12
<1>15. /\ 0 <= v /\ 0 <= e /\ 0 <= s /\ v + m <= z /\ e + n <= z /\ s + x <= z
  <2>1. PICK y \in Int : y = u.random /\ y <= e /\ s + x <= y
    BY <1>9, <1>12
  <2>2. 0 <= s /\ v <= top /\ e <= v /\ top <= z
    BY <1>5, <1>9, <1>11, <1>12, <1>13
  <2> QED BY ONLY <1>14, <2>1, <2>2, v \in Int, e \in Int, s \in Int, z \in Int, top \in Int,
                  x \in Nat, y \in Int, m \in Nat, n \in Nat
<1>16. Frames(pt', page_counter')
  BY LoadUserLandStep DEF MapInv
<1>17. Kept(pt', q, ram, r1)
  <2>1. IsBuffer(UserBlock(argv, argc, u.argv), m)
    BY <1>10, <1>12, <1>14, BlockBuffer
  <2> QED BY <1>2, <1>3, <1>4, <1>12, <1>13, <1>15, <1>16, <2>1, BufferKeeps DEF WrittenBy
<1>18. Kept(pt', q, r1, r2)
  <2>1. IsBuffer(UserBlock(envp, u.envc, u.envp), n)
    BY <1>10, <1>12, <1>14, BlockBuffer
  <2> QED BY <1>2, <1>3, <1>4, <1>12, <1>13, <1>15, <1>16, <2>1, BufferKeeps DEF WrittenBy
<1>19. Kept(pt', q, r2, ram')
  <2>1. IsBuffer(words, x)
    BY <1>2, <1>8, <1>9, UserWordsBuffer, WordsBuffer
  <2> QED BY <1>2, <1>3, <1>4, <1>12, <1>13, <1>15, <1>16, <2>1, BufferKeeps DEF WrittenBy
<1> QED BY <1>17, <1>18, <1>19, KeptTwice

LEMMA KeptSame ==
    ASSUME NEW t, NEW q, NEW r1, NEW r2, r2 = r1
    PROVE  Kept(t, q, r1, r2)
BY DEF Kept

\* Seen through the page table before the step.
LEMMA KeptBefore ==
    ASSUME NEW q \in Int, q <= VA_PAGES, 0 <= q, KeptAbove(q), Kept(pt', q, ram, ram')
    PROVE  Kept(pt, q, ram, ram')
<1>1. PICK z \in Int, e \in Int : z = PAGE_SIZE * q /\ e = PAGE_SIZE * VA_PAGES /\ 0 <= z
  <2>1. PICK P \in Nat \ {0} : P = PAGE_SIZE
    BY BootTypes
  <2>2. P * 0 <= P * q /\ P * 0 = 0
    BY PageOrder
  <2> QED BY <2>1, <2>2, BootTypes
<1> SUFFICES ASSUME NEW x \in z .. e - 1, x < BSS_END, BOOT_FRAMES <= pt[PageOf(x)]
             PROVE  Stored(ram', GetPhysAddr(pt, x)) = Stored(ram, GetPhysAddr(pt, x))
  BY <1>1 DEF Kept
<1>2. q <= PageOf(x) /\ PageOf(x) \in VaPages
  <2>1. x \in Int /\ 0 <= x /\ x < e /\ z <= x
    BY <1>1
  <2> QED BY <1>1, <2>1, PageSides
<1>3. pt'[PageOf(x)] = pt[PageOf(x)]
  BY <1>2 DEF KeptAbove
<1>4. GetPhysAddr(pt', x) = GetPhysAddr(pt, x)
  BY <1>3 DEF GetPhysAddr
<1>5. Stored(ram', GetPhysAddr(pt', x)) = Stored(ram, GetPhysAddr(pt', x))
  BY <1>1, <1>3 DEF Kept
<1> QED BY <1>4, <1>5

\* Every step but the load of a segment leaves the image alone.
LEMMA OtherStepsKeep ==
    ASSUME KernelFits, ArgumentsBounded, NEW q \in Int, MapInv(q), PlaceInv(q), StackInv, Next,
           ~LoadSegment
    PROVE  KeptAbove(q) /\ (at' # "corrupt" => Kept(pt, q, ram, ram')) /\ StackInv'
<1>1. CASE PutArg \/ PutEnv \/ PutArrays
  <2>1. Kept(pt, q, ram, ram') /\ StackInv'
    BY <1>1, PutArgKeeps, PutEnvKeeps, PutArraysKeeps
  <2>2. pt' = pt
    BY <1>1 DEF PutArg, PutEnv, PutArrays, Exit
  <2> QED BY <2>1, <2>2 DEF KeptAbove
<1>2. CASE SkipSegment \/ GdtInit \/ ReserveVersions \/ KernelFaults
  <2>1. UNCHANGED <<pt, ram>> /\ at' \in {"load", "unmap", "user_stack", "fault"}
    BY <1>2 DEF SkipSegment, GdtInit, ReserveVersions, KernelFaults, memory
  <2> QED BY <2>1, KeptSame DEF KeptAbove, StackInv
<1>3. CASE ArgvDone
  <2>1. UNCHANGED <<args, envs, pt, ram, image, ksp>> /\ at = "argv" /\ at' = "envp" /\ k' = envc
    BY <1>3 DEF ArgvDone, input, memory, host
  <2>2. envc \in Nat /\ envc' = envc
    BY <2>1, RoomBelow DEF envc
  <2>3. k' \in 0 .. envc'
    BY <2>1, <2>2
  <2>4. ksp \in Int /\ StackBottom <= ksp /\ ksp <= image /\ StackBottom' = StackBottom
    BY <2>1 DEF StackInv, StackBottom
  <2>5. StackInv'
    BY <2>1, <2>3, <2>4 DEF StackInv
  <2> QED BY <2>1, <2>5, KeptSame DEF KeptAbove
<1>4. CASE MapKernelStack
  <2>1. UNCHANGED <<args, ram, image>> /\ at' = "argv" /\ k' = argc /\ ksp' = image
    BY <1>4 DEF MapKernelStack, input
  <2>2. argc \in Nat /\ argc' = argc
    BY <2>1, RoomBelow DEF argc
  <2>3. k' \in 0 .. argc'
    BY <2>1, <2>2
  <2>4. image \in Int /\ StackBottom <= image /\ StackBottom' = StackBottom
    <3>1. StackBottom = image - KSTACK_PAGES * PAGE_SIZE /\ StackBottom' = StackBottom
      BY <2>1 DEF StackBottom
    <3>2. image \in Int
      BY StackPages
    <3>3. PICK m \in Nat : m = KSTACK_PAGES * PAGE_SIZE
      BY BootTypes
    <3> QED BY <3>1, <3>2, <3>3
  <2>5. StackInv'
    <3>1. image <= image
      BY <2>4
    <3> QED BY <2>1, <2>3, <2>4, <3>1 DEF StackInv
  <2>6. KeptAbove(q)
    BY <1>4, MapKernelStackStep
  <2> QED BY <2>1, <2>5, <2>6, KeptSame
<1>5. CASE SetupTss \/ MapGdt \/ UnmapBootstrap \/ VmaInit \/ UserStackInit
  <2>1. ram' = ram /\ at' \in {"start", "gdt_init", "vma_init", "versions", "arrays"}
    BY <1>5 DEF SetupTss, MapGdt, UnmapBootstrap, VmaInit, UserStackInit
  <2>2. KeptAbove(q)
    BY <1>5, SetupTssStep, MapGdtStep, UnmapBootstrapStep, VmaInitStep, UserStackInitStep,
       KeptAboveMore
  <2> QED BY <2>1, <2>2, KeptSame DEF StackInv
<1>6. CASE LoadUserLand
  <2>1. KeptAbove(q)
    BY <1>6, LoadUserLandStep, KeptAboveMore
  <2>2. 0 <= q /\ q <= VA_PAGES
    BY StackPages
  <2>3. Kept(pt, q, ram, ram')
    BY <1>6, <2>1, <2>2, LoadUserLandKeeps, KeptBefore
  <2>4. at' = "user"
    BY <1>6, LoadUserLandMaps
  <2> QED BY <2>1, <2>3, <2>4 DEF StackInv
<1>7. CASE CallKernelMain \/ AllocateArrays
  <2>1. pt' = pt /\ at' \in {"map_gdt", "user_land", "corrupt", "fault"}
    BY <1>7 DEF CallKernelMain, AllocateArrays, CallsUse
  <2>2. 0 <= q /\ q <= VA_PAGES
    BY StackPages
  <2>3. at' # "corrupt" => Kept(pt, q, ram, ram')
    BY <1>7, <2>2, CallsKeep
  <2> QED BY <2>1, <2>3 DEF KeptAbove, StackInv
<1> QED BY <1>1, <1>2, <1>3, <1>4, <1>5, <1>6, <1>7 DEF Next

\* A corrupt kernel stays one.
LEMMA CorruptStays ==
    ASSUME at = "corrupt", [Next]_vars
    PROVE  at' = "corrupt"
<1>1. ~Next
  <2>1. SUFFICES ASSUME Next PROVE FALSE
    OBVIOUS
  <2>2. CASE LoadSegment \/ SkipSegment \/ MapKernelStack \/ PutArg \/ ArgvDone \/ PutEnv
             \/ PutArrays \/ SetupTss
    BY <2>2 DEF LoadSegment, SkipSegment, MapKernelStack, PutArg, ArgvDone, PutEnv, PutArrays,
                SetupTss
  <2>3. CASE CallKernelMain \/ MapGdt \/ GdtInit \/ UnmapBootstrap \/ VmaInit
             \/ ReserveVersions \/ UserStackInit \/ AllocateArrays \/ KernelFaults
    BY <2>3 DEF CallKernelMain, MapGdt, GdtInit, UnmapBootstrap, VmaInit, ReserveVersions,
                UserStackInit, AllocateArrays, KernelFaults
  <2>4. CASE LoadUserLand
    BY <2>4 DEF LoadUserLand
  <2> QED BY <2>1, <2>2, <2>3, <2>4 DEF Next
<1>2. UNCHANGED vars
  BY <1>1
<1> QED BY <1>2 DEF vars

LEMMA ImageStep ==
    ASSUME KernelFits, ArgumentsBounded, BootInv, LowInv, ImageInv, StackInv, [Next]_vars
    PROVE  ImageInv' /\ StackInv'
<1>1. CASE LoadSegment
  <2>1. at = "load" /\ at' = "load" /\ k' = k + 1 /\ k \in Loaded
    BY <1>1 DEF LoadSegment, Loaded
  <2>2. ASSUME NEW i \in Loaded, i < k + 1 PROVE InPlace(i)'
    <3>1. CASE i = k
      BY <1>1, <3>1, LoadPlacesSegment
    <3>2. CASE i # k
      <4>1. i \in Nat /\ k \in Nat
        <5>1. DOMAIN Segments = 1 .. Len(Segments)
          BY BootTypes
        <5> QED BY <2>1, <5>1 DEF Loaded
      <4>2. i < k
        BY <2>2, <3>2, <4>1
      <4>3. InPlace(i)
        BY <2>1, <4>2 DEF ImageInv
      <4> QED BY <1>1, <3>2, <4>3, LoadKeepsOthers
    <3> QED BY <3>1, <3>2
  <2>3. ImageInv'
    BY <2>1, <2>2 DEF ImageInv
  <2>4. StackInv'
    BY <2>1 DEF StackInv
  <2> QED BY <2>3, <2>4
<1>2. CASE Next /\ ~LoadSegment
  <2>1. PICK q \in Int : MapInv(q) /\ PlaceInv(q)
    BY DEF BootInv
  <2>2. KeptAbove(q) /\ (at' # "corrupt" => Kept(pt, q, ram, ram')) /\ StackInv'
    BY <1>2, <2>1, OtherStepsKeep
  <2>3. 0 <= q /\ q <= VA_PAGES /\ image = PAGE_SIZE * q
    BY <2>1, StackPages
  <2>4. ASSUME at' # "corrupt", NEW i \in Loaded, at = "load" => i < k PROVE InPlace(i)'
    <3>1. at # "corrupt"
      BY <2>4, CorruptStays
    <3>2. InPlace(i) /\ image <= Segments[i].vaddr
      BY <2>4, <3>1 DEF ImageInv, LowInv
    <3> QED BY <2>2, <2>3, <2>4, <3>2, InPlaceKept
  <2>5. ASSUME NEW i \in Loaded, at' = "load" => i < k' PROVE at = "load" => i < k
    <3>1. SUFFICES ASSUME at = "load" PROVE i < k
      OBVIOUS
    <3>2. PICK L \in Nat : L = Len(Segments) /\ DOMAIN Segments = 1 .. L
      BY BootTypes
    <3>3. i \in 1 .. L /\ Segments[i].filesz > 0 /\ k \in Nat \ {0}
      BY <3>1, <3>2 DEF Loaded, LowInv
    <3>4. CASE SkipSegment
      <4>1. at' = "load" /\ k' = k + 1 /\ Segments[k].filesz = 0
        BY <3>4 DEF SkipSegment
      <4>2. i # k /\ i < k + 1
        BY <2>5, <3>3, <4>1
      <4> QED BY <3>3, <4>2
    <3>5. CASE MapKernelStack
      <4>1. k \notin 1 .. L
        BY <3>2, <3>5 DEF MapKernelStack
      <4> QED BY <3>3, <4>1
    <3>6. SkipSegment \/ MapKernelStack
      BY <1>2, <3>1 DEF Next, PutArg, ArgvDone, PutEnv, PutArrays, SetupTss, MapGdt, GdtInit,
                        UnmapBootstrap, VmaInit, ReserveVersions, UserStackInit, KernelFaults,
                        LoadUserLand, CallKernelMain, AllocateArrays
    <3> QED BY <3>4, <3>5, <3>6
  <2>6. ImageInv'
    BY <2>4, <2>5 DEF ImageInv
  <2> QED BY <2>2, <2>6
<1>3. CASE UNCHANGED vars
  <2>1. UNCHANGED <<args, envs, at, k, pt, ram, image, ksp>>
    BY <1>3 DEF vars, input, memory, host
  <2>2. ASSUME NEW i \in Loaded, InPlace(i) PROVE InPlace(i)'
    BY <2>1, <2>2 DEF InPlace, ByteAt
  <2>3. ImageInv'
    BY <2>1, <2>2 DEF ImageInv
  <2>4. StackInv'
    BY <2>1 DEF StackInv, argc, envc, StackBottom
  <2> QED BY <2>3, <2>4
<1> QED BY <1>1, <1>2, <1>3

LEMMA ImageInit ==
    ASSUME Init
    PROVE  ImageInv /\ StackInv
<1>1. at = "load" /\ k = 1
  BY DEF Init
<1>2. \A i \in Loaded : ~(i < 1)
  BY BootTypes DEF Loaded
<1> QED BY <1>1, <1>2 DEF ImageInv, StackInv

LEMMA ImageFollows ==
    ASSUME ImageInv
    PROVE  ImageLoaded
<1> SUFFICES ASSUME at \notin {"load", "corrupt"}, NEW i \in DOMAIN Segments,
                    Segments[i].filesz > 0,
                    NEW o \in 0 .. P2RoundUp(Segments[i].filesz, PAGE_SIZE) - 1,
                    Segments[i].vaddr + o < BSS_END
             PROVE  ByteAt(Segments[i].vaddr + o) =
                      IF o < Segments[i].filesz THEN FileByte(Segments[i].off + o) ELSE Zero
  BY DEF ImageLoaded
<1>1. InPlace(i)
  BY DEF ImageInv, Loaded
<1> QED BY <1>1 DEF InPlace

\* For every kernel image that fits and all arguments short of the space below
\* the kernel's stack, whether they fit the stack or not: from the end of the
\* load to the entry into the program every byte of the file part of the image
\* is in place and the rest of its last page is clear up to the kernel's last
\* variable, unless the frames of the kernel's calls have reached below that:
\* these calls run on the image's own last pages, with whatever depth.
THEOREM ImageStaysLoaded ==
    ASSUME KernelFits, ArgumentsBounded
    PROVE  Spec => []ImageLoaded
<1> DEFINE Inv == BootInv /\ LowInv /\ ImageInv /\ StackInv
<1>1. Init => Inv
  BY BootInit, LowInit, ImageInit
<1>2. Inv /\ [Next]_vars => Inv'
  BY BootStep, LowStep, ImageStep
<1>3. Inv => ImageLoaded
  BY ImageFollows
<1> QED BY <1>1, <1>2, <1>3, PTL DEF Spec

-----------------------------------------------------------------------------
(***************************************************************************)
(* The arguments: each copy of them arrives, and spares the ones before.   *)
(***************************************************************************)
Byte(t, mem, x) == Stored(mem, GetPhysAddr(t, x))
\* The addresses from lo below hi are inside the space, on frames of their own.
Owned(t, lo, hi) ==
    /\ lo \in Int /\ hi \in Int /\ 0 <= lo /\ hi <= PAGE_SIZE * VA_PAGES
    /\ \A x \in lo .. hi - 1 : BOOT_FRAMES <= t[PageOf(x)]
\* The bytes of s are at va.
Holds(t, mem, va, s) == \A j \in 1 .. Len(s) : Byte(t, mem, va + (j - 1)) = s[j]

\* A write to addresses with frames of their own succeeds and arrives.
LEMMA BufferArrives ==
    ASSUME NEW t, NEW c, Frames(t, c), NEW ram0, NEW va, NEW source, NEW n,
           IsBuffer(source, n), Owned(t, va, va + n),
           NEW w, w = WriteVirtualAddr(t, ram0, va, source)
    PROVE  w.ok /\ Holds(t, w.ram, va, source)
<1>1. n \in Nat /\ Len(source) = n /\ va \in Int /\ 0 <= va /\ va + n <= PAGE_SIZE * VA_PAGES
  BY DEF IsBuffer, Owned
<1>2. PICK B : source \in Seq(B)
  BY DEF IsBuffer
<1>3. t \in [VaPages -> Int]
  BY DEF Frames
<1>4. IsWritten(t, ram0, va, source, n, w)
  BY <1>1, <1>2, <1>3, WriteIsGuestWrite
<1>5. (n - n) + 1 .. n = 1 .. n /\ va + (n - n) = va /\ n - n = 0
  BY <1>1
<1>6. PICK z \in Int : z = PAGE_SIZE * VA_PAGES
  BY BootTypes
<1>7. ASSUME NEW i \in 1 .. n
      PROVE  /\ va + (i - 1) \in Int /\ 0 <= va + (i - 1) /\ va + (i - 1) < z
             /\ BOOT_FRAMES <= t[PageOf(va + (i - 1))]
  <2>1. va + (i - 1) \in va .. (va + n) - 1
    BY <1>1
  <2> QED BY <1>1, <1>6, <2>1 DEF Owned
<1>8. w.ok
  <2>1. Mapped(t, va, n)
    <3> SUFFICES ASSUME NEW i \in 0 .. n - 1 PROVE t[PageOf(va + i)] # NoFrame
      BY DEF Mapped, IsVpagePresent
    <3>1. PICK j \in 1 .. n : i = j - 1
      <4>1. i + 1 \in 1 .. n /\ i = (i + 1) - 1
        BY <1>1
      <4> QED BY <4>1
    <3>2. BOOT_FRAMES <= t[PageOf(va + i)]
      BY <1>7, <3>1
    <3> QED BY <3>2, BootTypes DEF NoFrame
  <2> QED BY <1>1, <1>4, <1>5, <2>1 DEF IsWritten
<1>9. ASSUME NEW i \in 1 .. n PROVE Byte(t, w.ram, va + (i - 1)) = source[i]
  <2>1. PICK j \in 1 .. n : /\ PhysOf(t, va, j) = PhysOf(t, va, i)
                            /\ Stored(w.ram, PhysOf(t, va, i)) = source[j]
    <3>1. \A l \in (n - n) + 1 .. n : \E j \in (n - n) + 1 .. n :
              /\ PhysOf(t, va, j) = PhysOf(t, va, l)
              /\ Stored(w.ram, PhysOf(t, va, l)) = source[j]
      BY <1>1, <1>4, <1>8 DEF IsWritten
    <3> QED BY <1>5, <3>1
  <2>2. PICK x \in Int, y \in Int : x = va + (j - 1) /\ y = va + (i - 1)
    BY <1>7
  <2>3. /\ 0 <= x /\ x < PAGE_SIZE * VA_PAGES /\ 0 <= y /\ y < PAGE_SIZE * VA_PAGES
        /\ BOOT_FRAMES <= t[PageOf(x)]
    BY <1>6, <1>7, <2>2
  <2>4. GetPhysAddr(t, x) = GetPhysAddr(t, y)
    BY <2>1, <2>2 DEF PhysOf
  <2>5. x = y
    BY <2>3, <2>4, PhysUnique
  <2>6. i = j
    BY <1>1, <2>2, <2>5
  <2> QED BY <2>1, <2>6 DEF PhysOf, Byte
<1> QED BY <1>1, <1>8, <1>9 DEF Holds

\* And it spares every other address with a frame of its own.
LEMMA BufferSpares ==
    ASSUME NEW t, NEW c, Frames(t, c), NEW ram0, NEW va \in Int, NEW source, NEW n,
           IsBuffer(source, n), 0 <= va, va + n <= PAGE_SIZE * VA_PAGES,
           NEW x \in Int, 0 <= x, x < PAGE_SIZE * VA_PAGES, BOOT_FRAMES <= t[PageOf(x)],
           x < va \/ va + n <= x
    PROVE  Byte(t, WriteVirtualAddr(t, ram0, va, source).ram, x) = Byte(t, ram0, x)
<1>1. n \in Nat /\ Len(source) = n
  BY DEF IsBuffer
<1>2. PICK B : source \in Seq(B)
  BY DEF IsBuffer
<1>3. PICK w : w = WriteVirtualAddr(t, ram0, va, source)
  OBVIOUS
<1>4. IsWritten(t, ram0, va, source, n, w)
  <2>1. t \in [VaPages -> Int]
    BY DEF Frames
  <2> QED BY <1>1, <1>2, <1>3, <2>1, WriteIsGuestWrite
<1>5. PICK f : f = GetPhysAddr(t, x)
  OBVIOUS
<1>6. \/ Stored(w.ram, f) = Stored(ram0, f)
      \/ \E j \in 1 .. n : f = PhysOf(t, va, j)
  <2>1. \/ Stored(w.ram, f) = Stored(ram0, f)
        \/ \E j \in (n - n) + 1 .. n : f = PhysOf(t, va, j)
    BY <1>1, <1>4 DEF IsWritten
  <2>2. (n - n) + 1 = 1
    BY <1>1
  <2> QED BY <2>1, <2>2
<1>7. PICK z \in Int : z = PAGE_SIZE * VA_PAGES
  BY BootTypes
<1>8. ASSUME NEW j \in 1 .. n, f = PhysOf(t, va, j) PROVE FALSE
  <2>1. PICK y \in Int : y = va + (j - 1)
    BY <1>1
  <2>2. 0 <= y /\ y < z /\ y # x
    BY <1>1, <1>7, <2>1
  <2>3. GetPhysAddr(t, x) = GetPhysAddr(t, y)
    BY <1>5, <1>8, <2>1 DEF PhysOf
  <2>4. x = y
    BY <1>7, <2>2, <2>3, PhysUnique
  <2> QED BY <2>2, <2>4
<1> QED BY <1>3, <1>5, <1>6, <1>8 DEF Byte

-----------------------------------------------------------------------------
(* A stack as the sequence of changes to what is seen of it. *)

Seen(t, mem, lo, hi) == [x \in lo .. hi - 1 |-> Byte(t, mem, x)]
PutIn(S, va, s) ==
    [x \in DOMAIN S |-> IF va <= x /\ x < va + Len(s) THEN s[(x - va) + 1] ELSE S[x]]
\* The bytes of s are at va.
In(S, va, s) == \A j \in 1 .. Len(s) : S[va + (j - 1)] = s[j]

LEMMA SeenWritten ==
    ASSUME NEW t, NEW c, Frames(t, c), NEW lo, NEW hi, Owned(t, lo, hi), NEW mem,
           NEW va \in Int, NEW s, NEW n, IsBuffer(s, n), lo <= va, va + n <= hi,
           NEW w, w = WriteVirtualAddr(t, mem, va, s)
    PROVE  w.ok /\ Seen(t, w.ram, lo, hi) = PutIn(Seen(t, mem, lo, hi), va, s)
<1>1. n \in Nat /\ Len(s) = n /\ lo \in Int /\ hi \in Int /\ 0 <= lo
  BY DEF IsBuffer, Owned
<1>2. PICK z \in Int : z = PAGE_SIZE * VA_PAGES /\ hi <= z
  BY BootTypes DEF Owned
<1>3. Owned(t, va, va + n)
  <2>1. \A x \in va .. (va + n) - 1 : x \in lo .. hi - 1
    BY <1>1
  <2>2. va + n \in Int /\ 0 <= va /\ va + n <= z
    BY <1>1, <1>2
  <2> QED BY <1>2, <2>1, <2>2 DEF Owned
<1>4. w.ok /\ Holds(t, w.ram, va, s)
  BY <1>3, BufferArrives
<1>5. ASSUME NEW x \in lo .. hi - 1
      PROVE  Byte(t, w.ram, x) = IF va <= x /\ x < va + n THEN s[(x - va) + 1]
                                 ELSE Byte(t, mem, x)
  <2>1. CASE va <= x /\ x < va + n
    <3>1. PICK j \in 1 .. n : j = (x - va) + 1 /\ va + (j - 1) = x
      <4>1. (x - va) + 1 \in 1 .. n /\ va + (((x - va) + 1) - 1) = x
        BY <1>1, <2>1
      <4> QED BY <4>1
    <3>2. Byte(t, w.ram, va + (j - 1)) = s[j]
      BY <1>1, <1>4 DEF Holds
    <3> QED BY <2>1, <3>1, <3>2
  <2>2. CASE ~(va <= x /\ x < va + n)
    <3>1. /\ x \in Int /\ 0 <= x /\ x < z /\ 0 <= va /\ va + n <= z
          /\ (x < va \/ va + n <= x)
      BY <1>1, <1>2, <2>2
    <3>2. BOOT_FRAMES <= t[PageOf(x)]
      BY DEF Owned
    <3> QED BY <1>2, <2>2, <3>1, <3>2, BufferSpares
  <2> QED BY <2>1, <2>2
<1>6. Seen(t, w.ram, lo, hi) = PutIn(Seen(t, mem, lo, hi), va, s)
  BY <1>1, <1>5 DEF Seen, PutIn
<1> QED BY <1>4, <1>6

\* What is put is there, and what is beside it stays.
LEMMA PutThere ==
    ASSUME NEW S, NEW lo \in Int, NEW hi \in Int, DOMAIN S = lo .. hi - 1,
           NEW va \in Int, NEW s, NEW n, IsBuffer(s, n), lo <= va, va + n <= hi
    PROVE  DOMAIN PutIn(S, va, s) = lo .. hi - 1 /\ In(PutIn(S, va, s), va, s)
<1>1. n \in Nat /\ Len(s) = n
  BY DEF IsBuffer
<1>2. ASSUME NEW j \in 1 .. n PROVE PutIn(S, va, s)[va + (j - 1)] = s[j]
  <2>1. PICK x \in lo .. hi - 1 : x = va + (j - 1)
    BY <1>1
  <2>2. va <= x /\ x < va + n /\ (x - va) + 1 = j
    BY <1>1, <2>1
  <2>3. PutIn(S, va, s)[x] = s[(x - va) + 1]
    BY <1>1, <2>2 DEF PutIn
  <2> QED BY <2>1, <2>2, <2>3
<1> QED BY <1>1, <1>2 DEF PutIn, In

LEMMA PutBeside ==
    ASSUME NEW S, NEW lo \in Int, NEW hi \in Int, DOMAIN S = lo .. hi - 1,
           NEW va \in Int, NEW s, NEW n, IsBuffer(s, n),
           NEW vb \in Int, NEW r, NEW m, IsBuffer(r, m), lo <= vb, vb + m <= hi, In(S, vb, r),
           vb + m <= va \/ va + n <= vb
    PROVE  In(PutIn(S, va, s), vb, r)
<1>1. n \in Nat /\ Len(s) = n /\ m \in Nat /\ Len(r) = m
  BY DEF IsBuffer
<1> SUFFICES ASSUME NEW j \in 1 .. m PROVE PutIn(S, va, s)[vb + (j - 1)] = r[j]
  BY <1>1 DEF In
<1>2. PICK x \in lo .. hi - 1 : x = vb + (j - 1)
  BY <1>1
<1>3. ~(va <= x /\ x < va + n)
  BY <1>1, <1>2
<1>4. PutIn(S, va, s)[x] = S[x]
  BY <1>1, <1>3 DEF PutIn
<1>5. S[x] = r[j]
  BY <1>1, <1>2 DEF In
<1> QED BY <1>2, <1>4, <1>5

\* The guest reads what is there.
LEMMA BytesThere ==
    ASSUME NEW t, NEW mem, NEW lo \in Int, NEW hi \in Int, NEW va \in Int,
           NEW s, NEW n, IsBuffer(s, n), lo <= va, va + n <= hi, In(Seen(t, mem, lo, hi), va, s)
    PROVE  GuestBytes(t, mem, va, n) = s
<1>1. n \in Nat /\ Len(s) = n
  BY DEF IsBuffer
<1>2. PICK B : s \in Seq(B)
  BY DEF IsBuffer
<1>3. s = [i \in 1 .. n |-> s[i]]
  BY <1>1, <1>2
<1>4. ASSUME NEW i \in 1 .. n PROVE Stored(mem, GetPhysAddr(t, va + i - 1)) = s[i]
  <2>1. PICK x \in lo .. hi - 1 : x = va + (i - 1) /\ x = va + i - 1
    BY <1>1
  <2>2. Seen(t, mem, lo, hi)[x] = s[i]
    BY <1>1, <2>1 DEF In
  <2> QED BY <2>1, <2>2 DEF Seen, Byte
<1> QED BY <1>3, <1>4 DEF GuestBytes

\* A part of a block that is copied is part of the copy.
LEMMA PartCopied ==
    ASSUME NEW t, NEW mem, NEW lo \in Int, NEW hi \in Int, NEW va \in Int, NEW m \in Nat,
           lo <= va, va + m <= hi,
           NEW T, NEW vb \in Int, In(T, vb, GuestBytes(t, mem, va, m)),
           NEW s, NEW n, IsBuffer(s, n), NEW c \in Int, va <= c, c + n <= va + m,
           In(Seen(t, mem, lo, hi), c, s), NEW d \in Int, c - va = d - vb
    PROVE  In(T, d, s)
<1>1. n \in Nat /\ Len(s) = n
  BY DEF IsBuffer
<1>offset. PICK o \in Nat : c = va + o /\ d = vb + o /\ o + n <= m
  BY <1>1
<1> SUFFICES ASSUME NEW j \in 1 .. n PROVE T[(vb + o) + (j - 1)] = s[j]
  BY <1>1, <1>offset DEF In
<1>2. PICK i \in 1 .. m : i = o + j
  BY <1>1, <1>offset
<1>3. PICK x \in lo .. hi - 1 : x = va + i - 1 /\ x = (va + o) + (j - 1)
  BY <1>1, <1>2
<1>4. PICK y \in Int : y = vb + (i - 1) /\ y = (vb + o) + (j - 1)
  BY <1>1, <1>2
<1>5. PICK G : G = GuestBytes(t, mem, va, m)
  OBVIOUS
<1>6. G[i] = Byte(t, mem, x) /\ Len(G) = m
  BY <1>3, <1>5 DEF GuestBytes, Byte
<1>7. T[y] = G[i]
  BY <1>4, <1>5, <1>6 DEF In
<1>8. Seen(t, mem, lo, hi)[x] = s[j]
  BY <1>1, <1>3, <1>offset DEF In
<1>9. Seen(t, mem, lo, hi)[x] = Byte(t, mem, x)
  BY DEF Seen
<1> QED BY <1>4, <1>6, <1>7, <1>8, <1>9

-----------------------------------------------------------------------------
(* Words and strings that are in memory are read back. *)

LEMMA WordBuffer ==
    ASSUME NEW v
    PROVE  IsBuffer(Word(v), WORD)
<1>1. PICK s : s = Word(v)
  OBVIOUS
<1>2. s = [b \in 1 .. WORD |-> s[b]]
  BY <1>1 DEF Word
<1>3. WORD \in Nat
  BY BootTypes
<1> QED BY <1>1, <1>2, <1>3, ListBuffer

\* Word i of an array.
LEMMA WordThere ==
    ASSUME NEW S, NEW va \in Int, NEW words, NEW n, IsBuffer(words, n),
           In(S, va, WordBytes(words)), NEW i \in 0 .. n - 1
    PROVE  In(S, va + i * WORD, Word(words[i + 1]))
<1>1. n \in Nat /\ Len(words) = n
  BY DEF IsBuffer
<1>2. PICK W \in Nat \ {0} : W = WORD
  BY BootTypes
<1>3. PICK z \in Nat : z = W * i /\ z = i * W
  <2>1. W * i \in Nat /\ W * i = i * W
    BY <1>1
  <2> QED BY <2>1
<1>4. PICK l \in Nat : l = n * W /\ z + W <= l
  <2>1. W * (i + 1) <= W * n
    BY <1>1, PageOrder
  <2>2. W * (i + 1) = z + W /\ W * n = n * W /\ n * W \in Nat
    BY <1>1, <1>3
  <2> QED BY <2>1, <2>2
<1>5. Len(Word(words[i + 1])) = W
  BY <1>2, WordBuffer DEF IsBuffer
<1> SUFFICES ASSUME NEW j \in 1 .. W PROVE S[(va + z) + (j - 1)] = Word(words[i + 1])[j]
  BY <1>2, <1>3, <1>5 DEF In
<1>6. PICK x \in 1 .. l : x = z + j /\ x - 1 = W * i + (j - 1)
  <2>1. z + j \in 1 .. l
    BY <1>3, <1>4
  <2>2. (z + j) - 1 = z + (j - 1)
    OBVIOUS
  <2>3. (z + j) - 1 = W * i + (j - 1)
    BY <1>3, <2>2
  <2> QED BY <2>1, <2>3
<1>7. (x - 1) \div W = i /\ (x - 1) % W = j - 1
  <2>1. PICK y \in Int, r \in 0 .. W - 1, p \in Int : y = x - 1 /\ r = j - 1 /\ p = i
    OBVIOUS
  <2>2. y = W * p + r
    BY <1>6, <2>1
  <2>3. y \div W = p /\ y % W = r
    BY ONLY W \in Nat \ {0}, y \in Int, r \in 0 .. W - 1, p \in Int, <2>2, DivisionUnique
  <2> QED BY <2>1, <2>3
<1>8. WordBytes(words)[x] = Word(words[i + 1])[j]
  <2>1. WordBytes(words)[x] = Word(words[((x - 1) \div W) + 1])[((x - 1) % W) + 1]
    BY <1>1, <1>2, <1>4 DEF WordBytes
  <2>2. (j - 1) + 1 = j
    OBVIOUS
  <2> QED BY <1>7, <2>1, <2>2
<1>9. S[va + (x - 1)] = WordBytes(words)[x]
  <2>1. Len(WordBytes(words)) = l
    BY <1>1, <1>2, <1>4, WordsBuffer DEF IsBuffer
  <2> QED BY <2>1 DEF In
<1>10. va + (x - 1) = (va + z) + (j - 1)
  BY <1>6
<1> QED BY <1>8, <1>9, <1>10

\* The value of the bytes of a word (WordAt).
WordOf(bytes) == IF bytes = Word(NULL) THEN NULL
                 ELSE IF bytes = Word(bytes[1][2]) THEN bytes[1][2] ELSE Stray

LEMMA WordAtIs ==
    ASSUME NEW va
    PROVE  WordAt(va) = WordOf(GuestBytes(pt, ram, va, WORD))
BY DEF WordAt, WordOf

LEMMA WordRead ==
    ASSUME NEW v
    PROVE  WordOf(Word(v)) = v
<1>1. CASE v = NULL
  BY <1>1 DEF WordOf
<1>2. CASE v # NULL
  <2>1. 1 \in 1 .. WORD
    BY BootTypes
  <2>2. Word(v)[1] = <<"word", v, 1>>
    BY <1>2, <2>1 DEF Word
  <2>3. Word(NULL)[1] = Zero
    BY <2>1 DEF Word
  <2>4. <<"word", v, 1>> # Zero /\ <<"word", v, 1>>[2] = v
    BY DEF Zero
  <2>5. Word(v)[1][2] = v /\ Word(v) # Word(NULL)
    BY <2>2, <2>3, <2>4
  <2> QED BY <2>5 DEF WordOf
<1> QED BY <1>1, <1>2

LEMMA WordSeen ==
    ASSUME NEW t, NEW mem, NEW lo \in Int, NEW hi \in Int, NEW va \in Int, NEW v,
           lo <= va, va + WORD <= hi, In(Seen(t, mem, lo, hi), va, Word(v))
    PROVE  WordOf(GuestBytes(t, mem, va, WORD)) = v
<1>1. GuestBytes(t, mem, va, WORD) = Word(v)
  BY WordBuffer, BytesThere
<1> QED BY <1>1, WordRead

\* A string has its only zero at the end.
LEMMA StringBytes ==
    ASSUME NEW kind \in {"argv", "envp"}, NEW i, NEW len \in Nat, NEW s, s = CString(kind, i, len)
    PROVE  /\ Len(s) = len + 1 /\ s[len + 1] = Zero
           /\ \A c \in 1 .. len : s[c] # Zero
<1>1. Len(s) = len + 1
  BY StringBuffer DEF IsBuffer
<1>2. PICK r : r = [c \in 1 .. len |-> Char(kind, i, c)]
  OBVIOUS
<1>3. PICK B : r \in Seq(B)
  <2>1. r = [c \in 1 .. len |-> r[c]]
    BY <1>2
  <2> QED BY <2>1, ListBuffer DEF IsBuffer
<1>4. PICK D : D = B \cup {Zero}
  OBVIOUS
<1>5. r \in Seq(D) /\ <<Zero>> \in Seq(D) /\ Len(r) = len
  BY <1>2, <1>3, <1>4
<1>6. s = r \o <<Zero>>
  BY <1>2 DEF CString
<1>7. s[len + 1] = Zero
  BY <1>5, <1>6
<1>8. ASSUME NEW c \in 1 .. len PROVE s[c] # Zero
  <2>1. s[c] = r[c]
    BY <1>5, <1>6
  <2>2. r[c] = <<kind, i, c>>
    BY <1>2 DEF Char
  <2> QED BY <2>1, <2>2 DEF Zero
<1> QED BY <1>1, <1>7, <1>8

LEMMA StringLength ==
    ASSUME NEW lo \in Int, NEW hi \in Int, NEW va \in Int, NEW kind \in {"argv", "envp"}, NEW i,
           NEW len \in Nat, lo <= va, va + len + 1 <= hi, len <= PAGE_SIZE * KSTACK_PAGES,
           In(Seen(pt, ram, lo, hi), va, CString(kind, i, len))
    PROVE  StringEnds(va, len) /\ StrLen(va) = len
<1>1. PICK s : s = CString(kind, i, len)
  OBVIOUS
<1>2. Len(s) = len + 1 /\ s[len + 1] = Zero /\ \A c \in 1 .. len : s[c] # Zero
  BY <1>1, StringBytes
<1>3. ASSUME NEW c \in 0 .. len PROVE ByteAt(va + c) = s[c + 1]
  <2>1. PICK x \in lo .. hi - 1 : x = va + c /\ x = va + ((c + 1) - 1)
    <3>1. va + c \in lo .. hi - 1 /\ va + c = va + ((c + 1) - 1)
      OBVIOUS
    <3> QED BY <3>1
  <2>2. Seen(pt, ram, lo, hi)[x] = s[c + 1]
    BY <1>1, <1>2, <2>1 DEF In
  <2> QED BY <2>1, <2>2 DEF Seen, Byte, ByteAt
<1>4. ByteAt(va + len) = Zero
  BY <1>2, <1>3
<1>5. ASSUME NEW c \in 0 .. len - 1 PROVE ByteAt(va + c) # Zero
  <2>1. c + 1 \in 1 .. len /\ c \in 0 .. len
    OBVIOUS
  <2> QED BY <1>2, <1>3, <2>1
<1>6. StringEnds(va, len)
  BY <1>4, <1>5 DEF StringEnds
<1>7. ASSUME NEW n \in Nat, StringEnds(va, n) PROVE n = len
  <2>1. ByteAt(va + n) = Zero /\ \A c \in 0 .. n - 1 : ByteAt(va + c) # Zero
    BY <1>7 DEF StringEnds
  <2>2. ~(n < len)
    BY <1>5, <2>1
  <2>3. ~(len < n)
    BY <1>4, <2>1
  <2> QED BY <2>2, <2>3
<1>8. PICK z \in Nat : z = PAGE_SIZE * KSTACK_PAGES
  BY BootTypes
<1>9. \E n \in 0 .. z : StringEnds(va, n)
  BY <1>6, <1>8
<1>10. StrLen(va) \in 0 .. z /\ StringEnds(va, StrLen(va))
  BY <1>8, <1>9 DEF StrLen
<1>11. StrLen(va) \in Nat
  BY <1>10
<1> QED BY <1>6, <1>7, <1>10, <1>11

-----------------------------------------------------------------------------
(* Places of the strings. *)

LEMMA DownOrder ==
    ASSUME NEW n \in Nat, NEW top \in Int, NEW len \in [0 .. n - 1 -> Nat],
           NEW g \in [0 .. n -> Int], Down(g, n, top, len)
    PROVE  \A i, j \in 0 .. n : i <= j => g[i] <= g[j]
<1> DEFINE S == {m \in Nat : \A i \in 0 .. n : i + m <= n => g[i] <= g[i + m]}
<1>1. 0 \in S
  OBVIOUS
<1>2. ASSUME NEW m \in Nat, m \in S PROVE m + 1 \in S
  <2> SUFFICES ASSUME NEW i \in 0 .. n, i + (m + 1) <= n PROVE g[i] <= g[i + (m + 1)]
    OBVIOUS
  <2>1. PICK j \in 0 .. n - 1 : j = i + m
    OBVIOUS
  <2>2. j \in 0 .. n /\ j + 1 \in 0 .. n /\ i + (m + 1) = j + 1 /\ i + m <= n
    BY <2>1
  <2>3. PICK z \in Int, x \in Int, y \in Int, l \in Nat :
            z = g[i] /\ x = g[j] /\ y = g[j + 1] /\ l = len[j]
    BY <2>1, <2>2
  <2>4. x = y - (l + 1)
    BY <2>3 DEF Down
  <2>5. z <= x
    BY <1>2, <2>1, <2>2, <2>3
  <2>6. z <= y
    BY ONLY <2>4, <2>5, z \in Int, x \in Int, y \in Int, l \in Nat
  <2> QED BY <2>2, <2>3, <2>6
<1>3. \A m \in Nat : m \in S
  <2> HIDE DEF S
  <2> QED BY <1>1, <1>2, SetInduction
<1> SUFFICES ASSUME NEW i \in 0 .. n, NEW j \in 0 .. n, i <= j PROVE g[i] <= g[j]
  OBVIOUS
<1>4. PICK m \in Nat : m = j - i /\ i + m = j /\ i + m <= n
  OBVIOUS
<1> QED BY <1>3, <1>4

\* The same strings below another place keep their distances.
Shifted(g, top, h, bot, n) == \A i \in 0 .. n : top - g[i] = bot - h[i]

LEMMA DownShift ==
    ASSUME NEW n \in Nat, NEW top \in Int, NEW bot \in Int, NEW len \in [0 .. n - 1 -> Nat],
           NEW g \in [0 .. n -> Int], Down(g, n, top, len),
           NEW h \in [0 .. n -> Int], Down(h, n, bot, len)
    PROVE  Shifted(g, top, h, bot, n)
<1> DEFINE S == {m \in Nat : \A i \in 0 .. n : i >= n - m => top - g[i] = bot - h[i]}
<1>1. 0 \in S
  BY DEF Down
<1>2. ASSUME NEW m \in Nat, m \in S PROVE m + 1 \in S
  <2> SUFFICES ASSUME NEW i \in 0 .. n, i >= n - (m + 1) PROVE top - g[i] = bot - h[i]
    OBVIOUS
  <2>1. CASE i = n
    BY <2>1 DEF Down
  <2>2. CASE i # n
    <3>1. i \in 0 .. n - 1 /\ i + 1 \in 0 .. n /\ i + 1 >= n - m
      BY <2>2
    <3>2. PICK a \in Int, b \in Int, x \in Int, y \in Int, l \in Nat :
              a = g[i] /\ b = g[i + 1] /\ x = h[i] /\ y = h[i + 1] /\ l = len[i]
      BY <3>1
    <3>3. a = b - (l + 1) /\ x = y - (l + 1)
      BY <3>1, <3>2 DEF Down
    <3>4. top - b = bot - y
      BY <1>2, <3>1, <3>2
    <3>5. top - a = bot - x
      BY ONLY <3>3, <3>4, a \in Int, b \in Int, x \in Int, y \in Int, l \in Nat, top \in Int,
              bot \in Int
    <3> QED BY <3>2, <3>5
  <2> QED BY <2>1, <2>2
<1>3. n \in S
  <2> HIDE DEF S
  <2> QED BY <1>1, <1>2, SetInduction
<1> QED BY <1>3 DEF Shifted

Lens(a) == [i \in 0 .. Len(a) - 1 |-> a[i + 1]]
\* The places of strings with the lengths of a, the last one ending at top.
Strung(g, a, top) == g \in [0 .. Len(a) -> Int] /\ Down(g, Len(a), top, Lens(a))
\* From string j on they are there.
Strings(S, g, j, kind, a) ==
    \A i \in j .. Len(a) - 1 : In(S, g[i], CString(kind, i, a[i + 1]))

LEMMA StrungExists ==
    ASSUME NEW a \in Seq(Nat), NEW top \in Int
    PROVE  \E g : Strung(g, a, top)
<1>1. PICK n \in Nat : n = Len(a)
  OBVIOUS
<1>2. Lens(a) \in [0 .. n - 1 -> Nat]
  <2>1. \A i \in 0 .. n - 1 : a[i + 1] \in Nat
    BY <1>1
  <2> QED BY <1>1, <2>1 DEF Lens
<1> QED BY <1>1, <1>2, DownExists DEF Strung

\* String i ends where string i + 1 starts, and all are below top.
Spread(g, a, top) ==
    /\ Len(a) \in Nat /\ g[Len(a)] = top /\ g[0] \in Int /\ g[0] <= top
    /\ \A i \in 0 .. Len(a) : g[i] \in Int /\ g[0] <= g[i] /\ g[i] <= top
    /\ \A i \in 0 .. Len(a) - 1 : /\ a[i + 1] \in Nat
                                  /\ g[i + 1] \in Int /\ g[i + 1] <= top
                                  /\ g[i] + (a[i + 1] + 1) = g[i + 1]
    /\ \A i, j \in 0 .. Len(a) : i <= j => g[i] <= g[j]

LEMMA StrungSpread ==
    ASSUME NEW a \in Seq(Nat), NEW top \in Int, NEW g, Strung(g, a, top)
    PROVE  Spread(g, a, top)
<1>1. PICK n \in Nat : n = Len(a)
  OBVIOUS
<1>2. PICK l : l = Lens(a)
  OBVIOUS
<1>3. l \in [0 .. n - 1 -> Nat] /\ \A i \in 0 .. n - 1 : l[i] = a[i + 1] /\ a[i + 1] \in Nat
  <2>1. \A i \in 0 .. n - 1 : a[i + 1] \in Nat
    BY <1>1
  <2> QED BY <1>1, <1>2, <2>1 DEF Lens
<1>4. g \in [0 .. n -> Int] /\ Down(g, n, top, l)
  BY <1>1, <1>2 DEF Strung
<1>5. \A i \in 0 .. n : g[i] <= top
  BY <1>3, <1>4, DownBelow
<1>6. \A i, j \in 0 .. n : i <= j => g[i] <= g[j]
  BY <1>3, <1>4, DownOrder
<1>7. \A i \in 0 .. n : g[i] \in Int /\ g[0] <= g[i] /\ g[i] <= top
  BY <1>4, <1>5, <1>6
<1>8. ASSUME NEW i \in 0 .. n - 1
      PROVE  /\ a[i + 1] \in Nat /\ g[i + 1] \in Int /\ g[i + 1] <= top
             /\ g[i] + (a[i + 1] + 1) = g[i + 1]
  <2>1. i \in 0 .. n /\ i + 1 \in 0 .. n
    BY <1>1
  <2>2. PICK x \in Int, y \in Int, m \in Nat : x = g[i] /\ y = g[i + 1] /\ m = a[i + 1]
    BY <1>3, <1>4, <2>1
  <2>3. x = y - (m + 1)
    BY <1>3, <1>4, <2>2 DEF Down
  <2>4. x + (m + 1) = y
    BY ONLY <2>3, x \in Int, y \in Int, m \in Nat
  <2> QED BY <1>7, <2>1, <2>2, <2>4
<1>9. g[n] = top /\ g[0] \in Int /\ g[0] <= top
  BY <1>4, <1>7 DEF Down
<1> QED BY <1>1, <1>6, <1>7, <1>8, <1>9 DEF Spread

LEMMA StrungFacts ==
    ASSUME NEW a \in Seq(Nat), NEW top \in Int, NEW g, Strung(g, a, top)
    PROVE  /\ Len(a) \in Nat /\ g[Len(a)] = top /\ g[0] \in Int /\ g[0] <= top
           /\ \A i \in 0 .. Len(a) : g[i] \in Int /\ g[0] <= g[i] /\ g[i] <= top
           /\ \A i \in 0 .. Len(a) - 1 : /\ a[i + 1] \in Nat
                                         /\ g[i + 1] \in Int /\ g[i + 1] <= top
                                         /\ g[i] + (a[i + 1] + 1) = g[i + 1]
           /\ \A i, j \in 0 .. Len(a) : i <= j => g[i] <= g[j]
<1>1. Spread(g, a, top)
  BY StrungSpread
<1> QED BY <1>1 DEF Spread

\* Something put below them leaves them.
LEMMA StringsBeside ==
    ASSUME NEW S, NEW lo \in Int, NEW hi \in Int, DOMAIN S = lo .. hi - 1,
           NEW a \in Seq(Nat), NEW top \in Int, top <= hi, NEW g, Strung(g, a, top),
           NEW kind, NEW j \in 0 .. Len(a), Strings(S, g, j, kind, a),
           NEW va \in Int, NEW s, NEW n, IsBuffer(s, n), lo <= va, va + n <= g[j]
    PROVE  Strings(PutIn(S, va, s), g, j, kind, a)
<1> SUFFICES ASSUME NEW i \in j .. Len(a) - 1
             PROVE  In(PutIn(S, va, s), g[i], CString(kind, i, a[i + 1]))
  BY DEF Strings
<1>1. n \in Nat /\ Len(a) \in Nat
  BY DEF IsBuffer
<1>2. i \in 0 .. Len(a) - 1 /\ i \in 0 .. Len(a) /\ j <= i
  BY <1>1
<1>3. PICK x \in Int, y \in Int, z \in Int, m \in Nat :
          /\ x = g[i] /\ y = g[i + 1] /\ z = g[j] /\ m = a[i + 1]
          /\ x + (m + 1) = y /\ y <= top /\ z <= x
  <2>1. /\ g[i] \in Int /\ g[j] \in Int /\ g[j] <= g[i] /\ a[i + 1] \in Nat
        /\ g[i + 1] \in Int /\ g[i + 1] <= top /\ g[i] + (a[i + 1] + 1) = g[i + 1]
    <3>spread. Spread(g, a, top)
      BY StrungSpread
    <3>1. /\ \A h \in 0 .. Len(a) : g[h] \in Int
          /\ \A h, l \in 0 .. Len(a) : h <= l => g[h] <= g[l]
          /\ \A h \in 0 .. Len(a) - 1 : /\ a[h + 1] \in Nat
                                        /\ g[h + 1] \in Int /\ g[h + 1] <= top
                                        /\ g[h] + (a[h + 1] + 1) = g[h + 1]
      BY ONLY <3>spread DEF Spread
    <3> QED BY <1>2, <3>1
  <2> QED BY <2>1
<1>4. PICK r : r = CString(kind, i, m)
  OBVIOUS
<1>5. IsBuffer(r, m + 1)
  BY <1>4, StringBuffer
<1>6. In(S, x, r)
  BY <1>3, <1>4 DEF Strings
<1>7. lo <= x /\ x + (m + 1) <= hi /\ va + n <= x
  <2>1. va + n <= z /\ x + (m + 1) = y /\ y <= top /\ z <= x /\ n \in Nat
    BY <1>1, <1>3
  <2> QED BY ONLY <2>1, lo <= va, top <= hi, lo \in Int, hi \in Int, top \in Int,
                  va \in Int, x \in Int, y \in Int, z \in Int, m \in Nat
<1>8. In(PutIn(S, va, s), x, r)
  BY <1>5, <1>6, <1>7, PutBeside
<1> QED BY <1>3, <1>4, <1>8

\* The next string goes below them.
LEMMA StringAdded ==
    ASSUME NEW S, NEW lo \in Int, NEW hi \in Int, DOMAIN S = lo .. hi - 1,
           NEW a \in Seq(Nat), NEW top \in Int, top <= hi, NEW g, Strung(g, a, top),
           NEW kind, NEW j \in 1 .. Len(a), Strings(S, g, j, kind, a),
           NEW va \in Int, va = g[j - 1], lo <= va, NEW s, s = CString(kind, j - 1, a[j])
    PROVE  Strings(PutIn(S, va, s), g, j - 1, kind, a)
<1>1. Len(a) \in Nat
  OBVIOUS
<1>2. PICK h \in 0 .. Len(a) - 1 : h = j - 1 /\ h + 1 = j
  BY <1>1
<1>3. PICK n \in Nat, y \in Int : n = a[j] /\ y = g[j] /\ va + (n + 1) = y /\ y <= top
  <2>spread. Spread(g, a, top)
    BY StrungSpread
  <2>1. \A i \in 0 .. Len(a) - 1 : /\ a[i + 1] \in Nat /\ g[i + 1] \in Int /\ g[i + 1] <= top
                                   /\ g[i] + (a[i + 1] + 1) = g[i + 1]
    BY ONLY <2>spread DEF Spread
  <2>2. a[h + 1] \in Nat /\ g[h + 1] \in Int /\ g[h + 1] <= top /\ g[h] + (a[h + 1] + 1) = g[h + 1]
    BY <2>1
  <2>3. PICK x \in Int, y \in Int, n \in Nat : x = va /\ y = g[j] /\ n = a[j]
    BY <1>2, <2>2
  <2>4. x + (n + 1) = y /\ y <= top
    BY <1>2, <2>2, <2>3
  <2> QED BY ONLY <2>3, <2>4
<1>4. IsBuffer(s, n + 1) /\ n + 1 \in Nat
  <2>1. PICK i : i = j - 1
    OBVIOUS
  <2>2. s = CString(kind, i, n)
    BY <1>3, <2>1
  <2>3. IsBuffer(s, n + 1)
    BY ONLY <2>2, n \in Nat, StringBuffer
  <2> QED BY <2>3
<1>5. j \in 0 .. Len(a) /\ va + (n + 1) <= g[j] /\ va + (n + 1) <= hi
  <2>1. va + (n + 1) = y /\ y <= top
    BY <1>3
  <2>2. va + (n + 1) <= y /\ va + (n + 1) <= hi
    BY ONLY <2>1, top <= hi, va \in Int, n \in Nat, y \in Int, top \in Int, hi \in Int
  <2>3. y = g[j]
    BY <1>3
  <2> QED BY <1>1, <2>2, <2>3
<1>6. Strings(PutIn(S, va, s), g, j, kind, a)
  BY <1>4, <1>5, StringsBeside
<1>7. In(PutIn(S, va, s), va, s)
  BY <1>4, <1>5, PutThere
<1> SUFFICES ASSUME NEW i \in j - 1 .. Len(a) - 1
             PROVE  In(PutIn(S, va, s), g[i], CString(kind, i, a[i + 1]))
  BY DEF Strings
<1>8. CASE i = j - 1
  BY <1>2, <1>7, <1>8
<1>9. CASE i # j - 1
  <2>1. i \in j .. Len(a) - 1
    BY <1>1, <1>9
  <2> QED BY <1>6, <2>1 DEF Strings
<1> QED BY <1>8, <1>9

-----------------------------------------------------------------------------
(* The kernel's stack while run fills it. *)

KernelStack == Seen(pt, ram, StackBottom, image)

\* While the strings of argv are put there, and those of envp.
ArgvPart(A) ==
    /\ ksp = A[k] /\ Strings(KernelStack, A, k, "argv", args)
    /\ \A i \in k .. argc - 1 : kernel_argv[i] = A[i]
EnvpPart(A, E) ==
    /\ Strings(KernelStack, A, 0, "argv", args) /\ \A i \in 0 .. argc - 1 : kernel_argv[i] = A[i]
    /\ ksp = E[k] /\ Strings(KernelStack, E, k, "envp", envs)
    /\ \A i \in k .. envc - 1 : kernel_envp[i] = E[i]
\* And when everything is there.
Passed(A, E) ==
    /\ Strings(KernelStack, A, 0, "argv", args) /\ Strings(KernelStack, E, 0, "envp", envs)
    /\ argv \in Int /\ argv + argc * WORD <= E[0] /\ envp = argv - (envc + 1) * WORD
    /\ In(KernelStack, argv, WordBytes(Listed(A, argc)))
    /\ In(KernelStack, envp, WordBytes(Listed(E, envc) \o <<NULL>>))

ArgPlaces(A, E) == Strung(A, args, image) /\ Strung(E, envs, A[0])
ArgInv ==
    at \in {"argv", "envp", "tss"} \cup (Running \ {"user"}) =>
        /\ Owned(pt, StackBottom, image)
        /\ \E A, E : /\ ArgPlaces(A, E)
                     /\ at = "argv" => ArgvPart(A)
                     /\ at = "envp" => EnvpPart(A, E)
                     /\ at \notin {"argv", "envp"} /\ envp >= StackBottom => Passed(A, E)

LEMMA ArgTypes ==
    ASSUME NEW q \in Int, PlaceInv(q)
    PROVE  args \in Seq(Nat) /\ envs \in Seq(Nat) /\ argc \in Nat /\ envc \in Nat /\ argc > 0
<1>1. args \in Arguments /\ envs \in Environments
  BY DEF PlaceInv
<1>2. args \in Seq(Nat) /\ envs \in Seq(Nat) /\ Len(args) > 0
  BY <1>1, BootAssumption
<1> QED BY <1>2 DEF argc, envc

LEMMA MapKernelStackArgs ==
    ASSUME KernelFits, NEW q \in Int, MapInv(q), PlaceInv(q), MapKernelStack
    PROVE  ArgInv'
<1>1. UNCHANGED <<args, envs, image>> /\ at' = "argv" /\ k' = argc /\ ksp' = image
  BY DEF MapKernelStack, input
<1>2. PICK a \in Int : /\ a = q - KSTACK_PAGES /\ StackBottom = PAGE_SIZE * a /\ 3 <= a
                       /\ image = PAGE_SIZE * q /\ q <= VA_PAGES /\ 0 <= q
                       /\ StackBottom \in Int /\ image \in Int
  BY StackPages
<1>3. StackBottom' = StackBottom /\ image' = image
  BY <1>1 DEF StackBottom
<1>4. PICK lo \in Int, hi \in Int, z \in Int :
          /\ lo = StackBottom /\ hi = image /\ z = PAGE_SIZE * VA_PAGES /\ 0 <= lo /\ hi <= z
  <2>1. PICK P \in Nat \ {0} : P = PAGE_SIZE
    BY BootTypes
  <2>2. VA_PAGES \in Int /\ 0 <= a
    BY <1>2, BootTypes
  <2>3. P * 0 <= P * a /\ P * 0 = 0 /\ P * q <= P * VA_PAGES
    BY <1>2, <2>2, PageOrder
  <2> QED BY <1>2, <2>1, <2>2, <2>3
<1>5. Owned(pt', lo, hi)
  <2>1. Fresh(pt, page_counter, pt', page_counter', a, q)
    BY <1>2, MapKernelStackStep DEF StackPage
  <2>2. BOOT_FRAMES <= page_counter /\ page_counter \in Nat
    BY DEF MapInv, Frames
  <2>3. ASSUME NEW x \in lo .. hi - 1 PROVE BOOT_FRAMES <= pt'[PageOf(x)]
    <3>1. x \in Int /\ 0 <= x /\ x < PAGE_SIZE * VA_PAGES /\ lo <= x /\ x < hi
      BY <1>4
    <3>2. a <= PageOf(x) /\ PageOf(x) < q /\ PageOf(x) \in VaPages
      <4>1. a <= VA_PAGES
        BY <1>2, BootTypes
      <4>2. a <= PageOf(x)
        BY <1>2, <1>4, <3>1, <4>1, PageSides
      <4>3. PageOf(x) < q /\ PageOf(x) \in VaPages
        BY <1>2, <1>4, <3>1, PageSides
      <4> QED BY <4>2, <4>3
    <3>3. page_counter <= pt'[PageOf(x)] /\ pt'[PageOf(x)] \in Int
      BY <2>1, <3>2 DEF Fresh
    <3> QED BY <2>2, <3>3, BootTypes
  <2> QED BY <1>4, <2>3 DEF Owned
<1>6. args \in Seq(Nat) /\ envs \in Seq(Nat) /\ argc \in Nat
  BY ArgTypes
<1>7. PICK A : Strung(A, args, hi)
  BY <1>6, StrungExists
<1>8. A[0] \in Int /\ A[argc] = hi
  BY <1>6, <1>7, StrungFacts DEF argc
<1>9. PICK E : Strung(E, envs, A[0])
  BY <1>6, <1>8, StrungExists
<1>10. ArgPlaces(A, E)'
  BY <1>1, <1>4, <1>7, <1>9 DEF ArgPlaces
<1>11. ArgvPart(A)'
  <2>1. argc' = argc
    BY <1>1 DEF argc
  <2>2. argc .. argc - 1 = {} /\ argc = Len(args)
    BY <1>6 DEF argc
  <2>3. Strings(KernelStack, A, k, "argv", args)'
    BY <1>1, <2>2 DEF Strings
  <2>4. \A i \in k' .. argc' - 1 : kernel_argv'[i] = A[i]
    BY <1>1, <2>1, <2>2
  <2> QED BY <1>1, <1>4, <1>8, <2>3, <2>4 DEF ArgvPart
<1>12. Owned(pt, StackBottom, image)'
  BY <1>3, <1>4, <1>5
<1> QED BY <1>1, <1>10, <1>11, <1>12 DEF ArgInv

\* What a string that is written makes of the stack.
LEMMA StringArrives ==
    ASSUME KernelFits, NEW q \in Int, MapInv(q), PlaceInv(q), at \in {"argv", "envp"}, StackInv,
           Owned(pt, StackBottom, image),
           NEW string, NEW n, IsBuffer(string, n), n <= StackBottom,
           NEW w, w = WriteVirtualAddr(pt, ram, ksp - Len(string), string), w.ok
    PROVE  \E va \in Int :
             /\ va = ksp - n /\ ksp - Len(string) = va /\ va + n = ksp /\ StackBottom <= va
             /\ Seen(pt, w.ram, StackBottom, image) = PutIn(KernelStack, va, string)
<1>1. n \in Nat /\ Len(string) = n
  BY DEF IsBuffer
<1>2. ksp \in Int /\ ksp <= image
  BY DEF StackInv
<1>3. PICK va \in Int : va = ksp - n /\ va + n = ksp
  BY <1>1, <1>2
<1>4. StackBottom <= va
  BY <1>1, <1>3, StringPut
<1>5. va + n <= image
  BY <1>2, <1>3
<1>6. Frames(pt, page_counter)
  BY DEF MapInv
<1>7. w = WriteVirtualAddr(pt, ram, va, string)
  BY <1>1, <1>3
<1>8. Seen(pt, w.ram, StackBottom, image) = PutIn(KernelStack, va, string)
  BY <1>4, <1>5, <1>6, <1>7, SeenWritten DEF KernelStack
<1> QED BY <1>1, <1>3, <1>4, <1>8

LEMMA PutArgArgs ==
    ASSUME KernelFits, ArgumentsBounded, NEW q \in Int, MapInv(q), PlaceInv(q), StackInv, ArgInv,
           PutArg
    PROVE  ArgInv'
<1>1. at = "argv" /\ k > 0 /\ k \in 0 .. argc
  BY DEF PutArg, StackInv
<1>2. args \in Seq(Nat) /\ argc \in Nat /\ argc = Len(args) /\ k \in 1 .. Len(args)
  BY <1>1, ArgTypes DEF argc
<1>3. PICK n \in Nat : n = args[k] + 1 /\ args[k] \in Nat /\ n <= StackBottom
  BY <1>2, RoomBelow
<1>4. PICK string : string = CString("argv", k - 1, args[k])
  OBVIOUS
<1>5. IsBuffer(string, n)
  BY <1>3, <1>4, StringBuffer
<1>6. PICK w : w = WriteVirtualAddr(pt, ram, ksp - Len(string), string)
  OBVIOUS
<1>7. /\ ram' = w.ram /\ UNCHANGED <<args, envs, image, pt>>
      /\ \/ at' = "exit"
         \/ /\ w.ok /\ ksp' = ksp - Len(string) /\ k' = k - 1 /\ at' = at
            /\ kernel_argv' = [i \in k - 1 .. argc - 1 |->
                                 IF i = k - 1 THEN ksp' ELSE kernel_argv[i]]
  BY <1>4, <1>6 DEF PutArg, Exit, input
<1>8. CASE at' = "exit"
  BY <1>8 DEF ArgInv, Running
<1>9. CASE /\ w.ok /\ ksp' = ksp - Len(string) /\ k' = k - 1 /\ at' = at
           /\ kernel_argv' = [i \in k - 1 .. argc - 1 |->
                                IF i = k - 1 THEN ksp' ELSE kernel_argv[i]]
  <2>1. PICK A, E : Owned(pt, StackBottom, image) /\ ArgPlaces(A, E) /\ ArgvPart(A)
    BY <1>1 DEF ArgInv
  <2>2. PICK va \in Int :
            /\ va = ksp - n /\ ksp - Len(string) = va /\ va + n = ksp /\ StackBottom <= va
            /\ Seen(pt, w.ram, StackBottom, image) = PutIn(KernelStack, va, string)
    BY <1>1, <1>3, <1>5, <1>6, <1>9, <2>1, StringArrives
  <2>3. StackBottom' = StackBottom /\ argc' = argc
    BY <1>7 DEF StackBottom, argc
  <2>4. KernelStack' = PutIn(KernelStack, va, string)
    BY <1>7, <2>2, <2>3 DEF KernelStack
  <2>5. PICK lo \in Int, hi \in Int : lo = StackBottom /\ hi = image
    BY StackPages
  <2>6. Strung(A, args, hi) /\ Strings(KernelStack, A, k, "argv", args) /\ ksp = A[k]
        /\ \A i \in k .. argc - 1 : kernel_argv[i] = A[i]
    BY <2>1, <2>5 DEF ArgPlaces, ArgvPart
  <2>7. va = A[k - 1]
    <3>1. PICK h \in 0 .. Len(args) - 1 : h = k - 1 /\ h + 1 = k
      BY <1>2
    <3>2. A[h] + (args[h + 1] + 1) = A[h + 1] /\ A[h] \in Int
      <4>1. h \in 0 .. Len(args)
        BY <1>2
      <4>2. /\ \A i \in 0 .. Len(args) : A[i] \in Int
            /\ \A i \in 0 .. Len(args) - 1 : A[i] + (args[i + 1] + 1) = A[i + 1]
        <5>1. args \in Seq(Nat) /\ hi \in Int /\ Strung(A, args, hi)
          BY <1>2, <2>6
        <5> QED BY ONLY <5>1, StrungFacts
      <4> QED BY <4>1, <4>2
    <3>3. PICK x \in Int : x = A[h] /\ x + n = ksp
      BY <1>3, <2>6, <3>1, <3>2
    <3>4. va + n = x + n
      BY <2>2, <3>3
    <3>5. va = x
      BY ONLY <3>4, va \in Int, x \in Int, n \in Nat
    <3> QED BY <3>1, <3>3, <3>5
  <2>8. Strings(PutIn(KernelStack, va, string), A, k - 1, "argv", args)
    <3>1. DOMAIN KernelStack = lo .. hi - 1
      BY <2>5 DEF KernelStack, Seen
    <3>2. hi <= hi
      OBVIOUS
    <3> QED BY <1>2, <1>4, <2>2, <2>5, <2>6, <2>7, <3>1, <3>2, StringAdded
  <2>9. Strings(KernelStack, A, k, "argv", args)'
    BY <1>7, <1>9, <2>4, <2>8
  <2>10. \A i \in k' .. argc' - 1 : kernel_argv'[i] = A[i]
    <3> SUFFICES ASSUME NEW i \in k - 1 .. argc - 1 PROVE kernel_argv'[i] = A[i]
      BY <1>9, <2>3
    <3>1. CASE i = k - 1
      BY <1>9, <2>2, <2>7, <3>1
    <3>2. CASE i # k - 1
      <4>1. i \in k .. argc - 1
        BY <1>2, <3>2
      <4> QED BY <1>9, <2>6, <3>2, <4>1
    <3> QED BY <3>1, <3>2
  <2>11. ksp' = A[k']
    BY <1>9, <2>2, <2>7
  <2>12. ArgvPart(A)'
    BY <2>9, <2>10, <2>11 DEF ArgvPart
  <2>13. ArgPlaces(A, E)' /\ Owned(pt, StackBottom, image)'
    BY <1>7, <2>1, <2>3 DEF ArgPlaces
  <2>14. at' = "argv"
    BY <1>1, <1>9
  <2> QED BY <2>12, <2>13, <2>14 DEF ArgInv
<1> QED BY <1>7, <1>8, <1>9

LEMMA ArgvDoneArgs ==
    ASSUME NEW q \in Int, PlaceInv(q), ArgInv, ArgvDone
    PROVE  ArgInv'
<1>1. /\ at = "argv" /\ k = 0 /\ at' = "envp" /\ k' = envc
      /\ UNCHANGED <<args, envs, pt, ram, image, ksp, kernel_argv, kernel_envp>>
  BY DEF ArgvDone, input, memory, host
<1>2. PICK A, E : Owned(pt, StackBottom, image) /\ ArgPlaces(A, E) /\ ArgvPart(A)
  BY <1>1 DEF ArgInv
<1>3. /\ StackBottom' = StackBottom /\ argc' = argc /\ envc' = envc /\ envc = Len(envs)
      /\ KernelStack' = KernelStack
  BY <1>1 DEF StackBottom, argc, envc, KernelStack
<1>4. envs \in Seq(Nat) /\ envc \in Nat /\ args \in Seq(Nat)
  BY ArgTypes
<1>5. E[envc] = A[0]
  BY <1>2, <1>3, <1>4 DEF ArgPlaces, Strung, Down
<1>6. envc .. envc - 1 = {}
  BY <1>4
<1>7. Strings(KernelStack, E, k, "envp", envs)'
  BY <1>1, <1>3, <1>6 DEF Strings
<1>8. Strings(KernelStack, A, 0, "argv", args) /\ \A i \in 0 .. argc - 1 : kernel_argv[i] = A[i]
  BY <1>1, <1>2 DEF ArgvPart
<1>9. Strings(KernelStack, A, 0, "argv", args)'
  BY <1>1, <1>3, <1>8
<1>10. ksp' = E[k']
  BY <1>1, <1>2, <1>5 DEF ArgvPart
<1>11. EnvpPart(A, E)'
  <2>1. \A i \in 0 .. argc' - 1 : kernel_argv'[i] = A[i]
    BY <1>1, <1>3, <1>8
  <2>2. \A i \in k' .. envc' - 1 : kernel_envp'[i] = E[i]
    BY <1>1, <1>3, <1>6
  <2> QED BY <1>7, <1>9, <1>10, <2>1, <2>2 DEF EnvpPart
<1>12. ArgPlaces(A, E)' /\ Owned(pt, StackBottom, image)'
  BY <1>1, <1>2, <1>3 DEF ArgPlaces
<1> QED BY <1>1, <1>11, <1>12 DEF ArgInv

LEMMA PutEnvArgs ==
    ASSUME KernelFits, ArgumentsBounded, NEW q \in Int, MapInv(q), PlaceInv(q), StackInv, ArgInv,
           PutEnv
    PROVE  ArgInv'
<1>1. at = "envp" /\ k > 0 /\ k \in 0 .. envc
  BY DEF PutEnv, StackInv
<1>2. /\ envs \in Seq(Nat) /\ envc \in Nat /\ envc = Len(envs) /\ k \in 1 .. Len(envs)
      /\ args \in Seq(Nat) /\ Len(args) \in Nat
  BY <1>1, ArgTypes DEF envc
<1>3. PICK n \in Nat : n = envs[k] + 1 /\ envs[k] \in Nat /\ n <= StackBottom
  BY <1>2, RoomBelow
<1>4. PICK string : string = CString("envp", k - 1, envs[k])
  OBVIOUS
<1>5. IsBuffer(string, n)
  BY <1>3, <1>4, StringBuffer
<1>6. PICK w : w = WriteVirtualAddr(pt, ram, ksp - Len(string), string)
  OBVIOUS
<1>7. /\ ram' = w.ram /\ UNCHANGED <<args, envs, image, pt, kernel_argv>>
      /\ \/ at' = "exit"
         \/ /\ w.ok /\ ksp' = ksp - Len(string) /\ k' = k - 1 /\ at' = at
            /\ kernel_envp' = [i \in k - 1 .. envc - 1 |->
                                 IF i = k - 1 THEN ksp' ELSE kernel_envp[i]]
  BY <1>4, <1>6 DEF PutEnv, Exit, input
<1>8. CASE at' = "exit"
  BY <1>8 DEF ArgInv, Running
<1>9. CASE /\ w.ok /\ ksp' = ksp - Len(string) /\ k' = k - 1 /\ at' = at
           /\ kernel_envp' = [i \in k - 1 .. envc - 1 |->
                                IF i = k - 1 THEN ksp' ELSE kernel_envp[i]]
  <2>1. PICK A, E : Owned(pt, StackBottom, image) /\ ArgPlaces(A, E) /\ EnvpPart(A, E)
    BY <1>1 DEF ArgInv
  <2>2. PICK va \in Int :
            /\ va = ksp - n /\ ksp - Len(string) = va /\ va + n = ksp /\ StackBottom <= va
            /\ Seen(pt, w.ram, StackBottom, image) = PutIn(KernelStack, va, string)
    BY <1>1, <1>3, <1>5, <1>6, <1>9, <2>1, StringArrives
  <2>3. StackBottom' = StackBottom /\ argc' = argc /\ envc' = envc
    BY <1>7 DEF StackBottom, argc, envc
  <2>4. KernelStack' = PutIn(KernelStack, va, string)
    BY <1>7, <2>2, <2>3 DEF KernelStack
  <2>5. PICK lo \in Int, hi \in Int : lo = StackBottom /\ hi = image
    BY StackPages
  <2>6. /\ Strung(A, args, hi) /\ Strung(E, envs, A[0]) /\ ksp = E[k]
        /\ Strings(KernelStack, A, 0, "argv", args) /\ Strings(KernelStack, E, k, "envp", envs)
        /\ \A i \in 0 .. argc - 1 : kernel_argv[i] = A[i]
        /\ \A i \in k .. envc - 1 : kernel_envp[i] = E[i]
    BY <2>1, <2>5 DEF ArgPlaces, EnvpPart
  <2>7. PICK top \in Int : top = A[0] /\ top <= hi
    BY <1>2, <2>6, StrungFacts
  <2>8. va = E[k - 1] /\ va + n <= A[0]
    <3>1. PICK h \in 0 .. Len(envs) - 1 : h = k - 1 /\ h + 1 = k
      BY <1>2
    <3>2. E[h] + (envs[h + 1] + 1) = E[h + 1] /\ E[h] \in Int /\ E[h + 1] <= top
      <4>1. h \in 0 .. Len(envs)
        BY <1>2
      <4>2. /\ \A i \in 0 .. Len(envs) : E[i] \in Int
            /\ \A i \in 0 .. Len(envs) - 1 : /\ E[i] + (envs[i + 1] + 1) = E[i + 1]
                                             /\ E[i + 1] <= top
        <5>1. envs \in Seq(Nat) /\ top \in Int /\ Strung(E, envs, top)
          BY <1>2, <2>6, <2>7
        <5> QED BY ONLY <5>1, StrungFacts
      <4> QED BY <4>1, <4>2
    <3>3. PICK x \in Int : x = E[h] /\ x + n = ksp /\ ksp <= top
      BY <1>3, <2>6, <3>1, <3>2
    <3>4. va + n = x + n
      BY <2>2, <3>3
    <3>5. va = x
      BY ONLY <3>4, va \in Int, x \in Int, n \in Nat
    <3> QED BY <2>2, <2>7, <3>1, <3>3, <3>5
  <2>9. DOMAIN KernelStack = lo .. hi - 1
    BY <2>5 DEF KernelStack, Seen
  <2>10. Strings(PutIn(KernelStack, va, string), E, k - 1, "envp", envs)
    <3>1. Strung(E, envs, top)
      BY <2>6, <2>7
    <3> QED BY <1>2, <1>4, <2>2, <2>5, <2>6, <2>7, <2>8, <2>9, <3>1, StringAdded
  <2>11. Strings(PutIn(KernelStack, va, string), A, 0, "argv", args)
    <3>1. 0 \in 0 .. Len(args) /\ hi <= hi
      BY <1>2
    <3> QED BY <1>2, <1>5, <2>2, <2>5, <2>6, <2>8, <2>9, <3>1, StringsBeside
  <2>12. Strings(KernelStack, E, k, "envp", envs)' /\ Strings(KernelStack, A, 0, "argv", args)'
    BY <1>7, <1>9, <2>4, <2>10, <2>11
  <2>13. \A i \in k' .. envc' - 1 : kernel_envp'[i] = E[i]
    <3> SUFFICES ASSUME NEW i \in k - 1 .. envc - 1 PROVE kernel_envp'[i] = E[i]
      BY <1>9, <2>3
    <3>1. CASE i = k - 1
      BY <1>9, <2>2, <2>8, <3>1
    <3>2. CASE i # k - 1
      <4>1. i \in k .. envc - 1
        BY <1>2, <3>2
      <4> QED BY <1>9, <2>6, <3>2, <4>1
    <3> QED BY <3>1, <3>2
  <2>14. ksp' = E[k']
    BY <1>9, <2>2, <2>8
  <2>15. \A i \in 0 .. argc' - 1 : kernel_argv'[i] = A[i]
    BY <1>7, <2>3, <2>6
  <2>16. EnvpPart(A, E)'
    BY <2>12, <2>13, <2>14, <2>15 DEF EnvpPart
  <2>17. ArgPlaces(A, E)' /\ Owned(pt, StackBottom, image)'
    BY <1>7, <2>1, <2>3 DEF ArgPlaces
  <2>18. at' = "envp"
    BY <1>1, <1>9
  <2> QED BY <2>16, <2>17, <2>18 DEF ArgInv
<1> QED BY <1>7, <1>8, <1>9

LEMMA ListedBuffer ==
    ASSUME NEW f, NEW n \in Nat
    PROVE  /\ IsBuffer(Listed(f, n), n) /\ IsBuffer(WordBytes(Listed(f, n)), n * WORD)
           /\ IsBuffer(Listed(f, n) \o <<NULL>>, n + 1)
           /\ IsBuffer(WordBytes(Listed(f, n) \o <<NULL>>), (n + 1) * WORD)
<1>1. PICK l : l = Listed(f, n)
  OBVIOUS
<1>2. l = [j \in 1 .. n |-> l[j]]
  BY <1>1 DEF Listed
<1>3. IsBuffer(l, n)
  BY <1>2, ListBuffer
<1>4. IsBuffer(l \o <<NULL>>, n + 1)
  BY <1>3, OneBuffer, JoinedBuffer
<1> QED BY <1>1, <1>3, <1>4, WordsBuffer

\* Something put below all the strings leaves them.
LEMMA AllBeside ==
    ASSUME NEW S, NEW lo \in Int, NEW hi \in Int, DOMAIN S = lo .. hi - 1,
           args \in Seq(Nat), envs \in Seq(Nat),
           NEW A, NEW E, Strung(A, args, hi), Strung(E, envs, A[0]),
           Strings(S, A, 0, "argv", args), Strings(S, E, 0, "envp", envs),
           NEW va \in Int, NEW s, NEW n, IsBuffer(s, n), lo <= va, va + n <= E[0]
    PROVE  /\ Strings(PutIn(S, va, s), A, 0, "argv", args)
           /\ Strings(PutIn(S, va, s), E, 0, "envp", envs)
<1>1. PICK a \in Int : a = A[0] /\ a <= hi /\ Len(args) \in Nat
  BY StrungFacts
<1>2. Strung(E, envs, a)
  BY <1>1
<1>3. PICK e \in Int : e = E[0] /\ e <= a /\ Len(envs) \in Nat
  BY <1>2, StrungFacts
<1>4. n \in Nat
  BY DEF IsBuffer
<1>5. va + n <= E[0] /\ va + n <= A[0]
  BY <1>1, <1>3, <1>4
<1>6. 0 \in 0 .. Len(args) /\ 0 \in 0 .. Len(envs) /\ hi <= hi
  BY <1>1, <1>3
<1>7. Strings(PutIn(S, va, s), A, 0, "argv", args)
  BY <1>5, <1>6, StringsBeside
<1>8. Strings(PutIn(S, va, s), E, 0, "envp", envs)
  BY <1>1, <1>2, <1>5, <1>6, StringsBeside
<1> QED BY <1>7, <1>8

LEMMA PutArraysArgs ==
    ASSUME KernelFits, NEW q \in Int, MapInv(q), PlaceInv(q), ArgInv, PutArrays
    PROVE  ArgInv'
<1>1. /\ at = "envp" /\ k = 0 /\ at' = "tss" /\ UNCHANGED <<args, envs, image, pt>>
      /\ argv' = P2Align(ksp, WORD) - argc * WORD /\ envp' = argv' - (envc + 1) * WORD
  BY DEF PutArrays, input
<1>2. PICK A, E : Owned(pt, StackBottom, image) /\ ArgPlaces(A, E) /\ EnvpPart(A, E)
  BY <1>1 DEF ArgInv
<1>3. StackBottom' = StackBottom /\ argc' = argc /\ envc' = envc
  BY <1>1 DEF StackBottom, argc, envc
<1>4. ArgPlaces(A, E)' /\ Owned(pt, StackBottom, image)'
  BY <1>1, <1>2, <1>3 DEF ArgPlaces
<1>5. args \in Seq(Nat) /\ envs \in Seq(Nat) /\ argc \in Nat /\ envc \in Nat
  BY ArgTypes
<1>6. ASSUME envp' >= StackBottom PROVE Passed(A, E)'
  <2>1. PICK lo \in Int, hi \in Int : lo = StackBottom /\ hi = image
    BY StackPages
  <2>2. /\ Strung(A, args, hi) /\ Strung(E, envs, A[0]) /\ ksp = E[0]
        /\ Strings(KernelStack, A, 0, "argv", args) /\ Strings(KernelStack, E, 0, "envp", envs)
        /\ \A i \in 0 .. argc - 1 : kernel_argv[i] = A[i]
        /\ \A i \in 0 .. envc - 1 : kernel_envp[i] = E[i]
    BY <1>1, <1>2, <2>1 DEF ArgPlaces, EnvpPart
  <2>3. PICK e \in Int : e = E[0] /\ e <= hi
    <3>1. PICK a \in Int : a = A[0] /\ a <= hi
      BY <1>5, <2>2, StrungFacts
    <3>2. Strung(E, envs, a)
      BY <2>2, <3>1
    <3>3. PICK e \in Int : e = E[0] /\ e <= a
      BY <1>5, <3>2, StrungFacts
    <3> QED BY <3>1, <3>3
  <2>4. PICK z \in Int : z = P2Align(ksp, WORD) /\ z <= e
    BY <2>2, <2>3, BootTypes, AlignFacts
  <2>5. PICK m \in Nat, n \in Nat : m = argc * WORD /\ n = (envc + 1) * WORD
    BY <1>5, BootTypes
  <2>6. PICK v \in Int, u \in Int : v = argv' /\ u = envp' /\ v = z - m /\ u = v - n
    BY <1>1, <2>4, <2>5
  <2>7. lo <= u /\ lo <= v /\ v + m <= e /\ u + n = v /\ u + n <= e /\ v + m <= hi /\ u + n <= hi
    <3>1. lo <= u
      BY <1>6, <2>1, <2>6
    <3> QED BY ONLY <2>3, <2>4, <2>6, <3>1, lo \in Int, hi \in Int, e \in Int, z \in Int,
                    m \in Nat, n \in Nat, v \in Int, u \in Int
  <2>8. PICK first, second : /\ first = WordBytes(Listed(A, argc))
                             /\ second = WordBytes(Listed(E, envc) \o <<NULL>>)
    OBVIOUS
  <2>9. Listed(kernel_argv, argc) = Listed(A, argc) /\ Listed(kernel_envp, envc) = Listed(E, envc)
    <3>1. \A i \in 1 .. argc : kernel_argv[i - 1] = A[i - 1]
      <4>1. \A i \in 1 .. argc : i - 1 \in 0 .. argc - 1
        BY <1>5
      <4> QED BY <2>2, <4>1
    <3>2. \A i \in 1 .. envc : kernel_envp[i - 1] = E[i - 1]
      <4>1. \A i \in 1 .. envc : i - 1 \in 0 .. envc - 1
        BY <1>5
      <4> QED BY <2>2, <4>1
    <3> QED BY <3>1, <3>2 DEF Listed
  <2>10. IsBuffer(first, m) /\ IsBuffer(second, n)
    BY <1>5, <2>5, <2>8, ListedBuffer
  <2>11. PICK w : w = WriteVirtualAddr(pt, ram, v, first)
    OBVIOUS
  <2>12. ram' = WriteVirtualAddr(pt, w.ram, u, second).ram
    BY <2>6, <2>8, <2>9, <2>11 DEF PutArrays
  <2>13. Frames(pt, page_counter)
    BY DEF MapInv
  <2>14. PICK S, T : S = KernelStack /\ T = PutIn(S, v, first)
    OBVIOUS
  <2>15. Seen(pt, w.ram, lo, hi) = T
    BY <1>2, <2>1, <2>7, <2>10, <2>11, <2>13, <2>14, SeenWritten DEF KernelStack
  <2>16. Seen(pt, ram', lo, hi) = PutIn(T, u, second)
    <3>1. PICK x : x = WriteVirtualAddr(pt, w.ram, u, second)
      OBVIOUS
    <3> QED BY <1>2, <2>1, <2>7, <2>10, <2>12, <2>13, <2>15, <3>1, SeenWritten
  <2>17. KernelStack' = PutIn(T, u, second)
    BY <1>1, <1>3, <2>1, <2>16 DEF KernelStack
  <2>18. DOMAIN S = lo .. hi - 1
    BY <2>1, <2>14 DEF KernelStack, Seen
  <2>19. DOMAIN T = lo .. hi - 1 /\ In(T, v, first)
    <3>1. DOMAIN PutIn(S, v, first) = lo .. hi - 1
      BY <2>18 DEF PutIn
    <3>2. In(PutIn(S, v, first), v, first)
      BY <2>7, <2>10, <2>18, PutThere
    <3> QED BY <2>14, <3>1, <3>2
  <2>20. Strings(T, A, 0, "argv", args) /\ Strings(T, E, 0, "envp", envs)
    BY <1>5, <2>2, <2>3, <2>7, <2>10, <2>14, <2>18, AllBeside
  <2>21. /\ Strings(PutIn(T, u, second), A, 0, "argv", args)
         /\ Strings(PutIn(T, u, second), E, 0, "envp", envs)
    BY <1>5, <2>2, <2>3, <2>7, <2>10, <2>19, <2>20, AllBeside
  <2>22. In(PutIn(T, u, second), u, second)
    BY <2>7, <2>10, <2>19, PutThere
  <2>23. In(PutIn(T, u, second), v, first)
    <3>1. u + n <= v
      BY <2>7
    <3> QED BY ONLY <2>7, <2>10, <2>19, <3>1, PutBeside, lo \in Int, hi \in Int, u \in Int,
                    v \in Int
  <2>24. Strings(KernelStack, A, 0, "argv", args)' /\ Strings(KernelStack, E, 0, "envp", envs)'
    BY <1>1, <2>17, <2>21
  <2>25. argv' \in Int /\ argv' + argc' * WORD <= E[0] /\ envp' = argv' - (envc' + 1) * WORD
    BY <1>1, <1>3, <2>3, <2>5, <2>6, <2>7
  <2>26. In(KernelStack, argv, WordBytes(Listed(A, argc)))'
    <3>1. WordBytes(Listed(A, argc))' = first
      BY <1>3, <2>8
    <3> QED BY <2>6, <2>17, <2>23, <3>1
  <2>27. In(KernelStack, envp, WordBytes(Listed(E, envc) \o <<NULL>>))'
    <3>1. WordBytes(Listed(E, envc) \o <<NULL>>)' = second
      BY <1>3, <2>8
    <3> QED BY <2>6, <2>17, <2>22, <3>1
  <2> QED BY <2>24, <2>25, <2>26, <2>27 DEF Passed
<1>7. envp' >= StackBottom' => Passed(A, E)'
  BY <1>3, <1>6
<1> QED BY <1>1, <1>4, <1>7 DEF ArgInv

\* What is mapped and unmapped later is below the kernel's stack.
LEMMA StackKept ==
    ASSUME KernelFits, NEW q \in Int, PlaceInv(q), ArgInv, at \in {"tss"} \cup (Running \ {"user"}),
           at' \notin {"argv", "envp"}, UNCHANGED <<args, envs, image, argv, envp>>,
           KeptAbove(StackPage(q)), Kept(pt, StackPage(q), ram, ram'), image <= BSS_END
    PROVE  ArgInv'
<1>1. PICK A, E : /\ Owned(pt, StackBottom, image) /\ ArgPlaces(A, E)
                  /\ envp >= StackBottom => Passed(A, E)
  BY DEF ArgInv, Running
<1>2. PICK a \in Int : /\ a = q - KSTACK_PAGES /\ StackBottom = PAGE_SIZE * a /\ 3 <= a
                       /\ image = PAGE_SIZE * q /\ q <= VA_PAGES /\ 0 <= q
                       /\ StackBottom \in Int /\ image \in Int
  BY StackPages
<1>3. PICK lo \in Int, hi \in Int, z \in Int :
          lo = StackBottom /\ hi = image /\ z = PAGE_SIZE * VA_PAGES /\ 0 <= lo /\ hi <= z
  <2>1. PAGE_SIZE * VA_PAGES \in Int
    BY BootTypes
  <2>2. 0 <= StackBottom /\ image <= PAGE_SIZE * VA_PAGES
    BY <1>1 DEF Owned
  <2> QED BY <1>2, <2>1, <2>2
<1>4. a = StackPage(q) /\ a <= VA_PAGES
  BY <1>2, BootTypes DEF StackPage
<1>5. ASSUME NEW x \in lo .. hi - 1 PROVE pt'[PageOf(x)] = pt[PageOf(x)]
  <2>1. x \in Int /\ 0 <= x /\ x < PAGE_SIZE * VA_PAGES /\ PAGE_SIZE * a <= x
    BY <1>2, <1>3
  <2>2. a <= PageOf(x) /\ PageOf(x) \in VaPages
    BY <1>4, <2>1, PageSides
  <2> QED BY <1>4, <2>2 DEF KeptAbove
<1>6. StackBottom' = StackBottom /\ argc' = argc /\ envc' = envc
  BY DEF StackBottom, argc, envc
<1>7. Owned(pt, StackBottom, image)'
  <2>1. \A x \in lo .. hi - 1 : BOOT_FRAMES <= pt'[PageOf(x)]
    BY <1>1, <1>3, <1>5 DEF Owned
  <2>2. Owned(pt', lo, hi)
    BY <1>3, <2>1 DEF Owned
  <2> QED BY <1>3, <1>6, <2>2
<1>8. KernelStack' = KernelStack
  <2>1. ASSUME NEW x \in lo .. hi - 1 PROVE Byte(pt', ram', x) = Byte(pt, ram, x)
    <3>1. PICK e \in Int : e = BSS_END
      BY CallTypes
    <3>2. x \in lo .. z - 1 /\ x < e
      BY <1>3, <3>1
    <3>3. BOOT_FRAMES <= pt[PageOf(x)]
      BY <1>1, <1>3 DEF Owned
    <3>4. Stored(ram', GetPhysAddr(pt, x)) = Stored(ram, GetPhysAddr(pt, x))
      BY <1>2, <1>3, <1>4, <3>1, <3>2, <3>3 DEF Kept
    <3>5. GetPhysAddr(pt', x) = GetPhysAddr(pt, x)
      BY <1>5 DEF GetPhysAddr
    <3> QED BY <3>4, <3>5 DEF Byte
  <2> QED BY <1>3, <1>6, <2>1 DEF KernelStack, Seen
<1>9. ArgPlaces(A, E)'
  BY <1>1 DEF ArgPlaces
<1>10. ASSUME envp' >= StackBottom' PROVE Passed(A, E)'
  <2>1. Passed(A, E)
    BY <1>1, <1>6, <1>10
  <2>2. /\ Strings(KernelStack, A, 0, "argv", args)' /\ Strings(KernelStack, E, 0, "envp", envs)'
        /\ argv' \in Int /\ argv' + argc' * WORD <= E[0] /\ envp' = argv' - (envc' + 1) * WORD
    BY <1>6, <1>8, <2>1 DEF Passed
  <2>3. In(KernelStack, argv, WordBytes(Listed(A, argc)))'
    BY <1>6, <1>8, <2>1 DEF Passed
  <2>4. In(KernelStack, envp, WordBytes(Listed(E, envc) \o <<NULL>>))'
    BY <1>6, <1>8, <2>1 DEF Passed
  <2> QED BY <2>2, <2>3, <2>4 DEF Passed
<1> QED BY <1>7, <1>9, <1>10 DEF ArgInv

LEMMA ArgInit ==
    ASSUME Init
    PROVE  ArgInv
<1>1. at = "load"
  BY DEF Init
<1> QED BY <1>1 DEF ArgInv, Running

LEMMA ArgStep ==
    ASSUME KernelFits, ArgumentsBounded, BootInv, LowInv, StackInv, ArgInv, [Next]_vars
    PROVE  ArgInv'
<1>1. PICK q \in Int : MapInv(q) /\ PlaceInv(q)
  BY DEF BootInv
<1>2. CASE LoadSegment \/ SkipSegment \/ KernelFaults \/ LoadUserLand
  <2>1. at' \in {"load", "fault", "user"}
    BY <1>2, LoadUserLandMaps DEF LoadSegment, SkipSegment, KernelFaults
  <2> QED BY <2>1 DEF ArgInv, Running
<1>3. CASE MapKernelStack \/ PutArg \/ ArgvDone \/ PutEnv \/ PutArrays
  BY <1>1, <1>3, MapKernelStackArgs, PutArgArgs, ArgvDoneArgs, PutEnvArgs, PutArraysArgs
<1>4. CASE SetupTss \/ MapGdt \/ GdtInit \/ UnmapBootstrap \/ VmaInit \/ ReserveVersions
           \/ UserStackInit
  <2>1. /\ at \in {"tss"} \cup (Running \ {"user"}) /\ at' \notin {"argv", "envp"}
        /\ UNCHANGED <<args, envs, image, argv, envp, ram>>
    BY <1>4 DEF SetupTss, MapGdt, GdtInit, UnmapBootstrap, VmaInit, ReserveVersions,
                UserStackInit, Running, input, host, memory
  <2>2. KeptAbove(StackPage(q))
    <3>1. CASE SetupTss \/ MapGdt \/ UnmapBootstrap \/ VmaInit \/ UserStackInit
      BY <1>1, <3>1, SetupTssStep, MapGdtStep, UnmapBootstrapStep, VmaInitStep, UserStackInitStep
    <3>2. CASE GdtInit \/ ReserveVersions
      <4>1. pt' = pt
        BY <3>2 DEF GdtInit, ReserveVersions, memory
      <4> QED BY <4>1 DEF KeptAbove
    <3> QED BY <1>4, <3>1, <3>2
  <2>3. Kept(pt, StackPage(q), ram, ram')
    BY <2>1, KeptSame
  <2>4. image <= BSS_END
    BY <1>1, <2>1, ImageBelowBss DEF Running
  <2> QED BY <1>1, <2>1, <2>2, <2>3, <2>4, StackKept
<1>5. CASE CallKernelMain \/ AllocateArrays
  <2>1. /\ at \in {"start", "arrays"} /\ at' \in {"map_gdt", "user_land", "corrupt", "fault"}
        /\ UNCHANGED <<args, envs, image, argv, envp, pt>>
    BY <1>5 DEF CallKernelMain, AllocateArrays, CallsUse, input, host
  <2>2. CASE at' = "corrupt"
    BY <2>2 DEF ArgInv, Running
  <2>3. CASE at' # "corrupt"
    <3>1. StackPage(q) \in Int /\ 0 <= StackPage(q) /\ StackPage(q) <= VA_PAGES
      BY <1>1, StackPages, BootTypes DEF StackPage
    <3>2. Kept(pt, StackPage(q), ram, ram')
      BY <1>1, <1>5, <2>3, <3>1, CallsKeep
    <3>3. image <= BSS_END
      BY <1>1, <2>1, ImageBelowBss
    <3>4. KeptAbove(StackPage(q))
      BY <2>1 DEF KeptAbove
    <3>5. at \in {"tss"} \cup (Running \ {"user"})
      BY <2>1 DEF Running
    <3>6. at' \notin {"argv", "envp"}
      BY <2>1
    <3> QED BY <1>1, <2>1, <3>2, <3>3, <3>4, <3>5, <3>6, StackKept
  <2> QED BY <2>2, <2>3
<1>6. CASE UNCHANGED vars
  <2>1. /\ UNCHANGED <<args, envs, at, k, pt, ram, image, ksp>>
        /\ UNCHANGED <<kernel_argv, kernel_envp, argv, envp>>
    BY <1>6 DEF vars, input, memory, host
  <2>2. /\ StackBottom' = StackBottom /\ argc' = argc /\ envc' = envc
        /\ KernelStack' = KernelStack
    BY <2>1 DEF StackBottom, argc, envc, KernelStack
  <2>3. SUFFICES ASSUME at \in {"argv", "envp", "tss"} \cup (Running \ {"user"})
                 PROVE  ArgInv'
    BY <2>1 DEF ArgInv
  <2>4. PICK A, E : /\ Owned(pt, StackBottom, image) /\ ArgPlaces(A, E)
                    /\ at = "argv" => ArgvPart(A)
                    /\ at = "envp" => EnvpPart(A, E)
                    /\ at \notin {"argv", "envp"} /\ envp >= StackBottom => Passed(A, E)
    BY <2>3 DEF ArgInv
  <2>5. ArgPlaces(A, E)' /\ Owned(pt, StackBottom, image)'
    BY <2>1, <2>2, <2>4 DEF ArgPlaces
  <2>6. ArgvPart(A) => ArgvPart(A)'
    BY <2>1, <2>2 DEF ArgvPart
  <2>7. EnvpPart(A, E) => EnvpPart(A, E)'
    BY <2>1, <2>2 DEF EnvpPart
  <2>8. Passed(A, E) => Passed(A, E)'
    BY <2>1, <2>2 DEF Passed
  <2> QED BY <2>1, <2>2, <2>4, <2>5, <2>6, <2>7, <2>8 DEF ArgInv
<1> QED BY <1>2, <1>3, <1>4, <1>5, <1>6 DEF Next

-----------------------------------------------------------------------------
(* What load_user_land reads from the kernel's stack. *)

\* j is s followed by t.
Follows(j, s, n, t, m) ==
    /\ IsBuffer(j, n + m)
    /\ \A i \in 1 .. n : j[i] = s[i]
    /\ \A i \in 1 .. m : j[n + i] = t[i]

LEMMA JoinedAt ==
    ASSUME NEW s, NEW n, IsBuffer(s, n), NEW t, NEW m, IsBuffer(t, m), NEW j, j = s \o t
    PROVE  Follows(j, s, n, t, m)
<1>1. PICK B : s \in Seq(B)
  BY DEF IsBuffer
<1>2. PICK C : t \in Seq(C)
  BY DEF IsBuffer
<1>3. PICK D : D = B \cup C
  OBVIOUS
<1>4. s \in Seq(D) /\ t \in Seq(D) /\ Len(s) = n /\ Len(t) = m /\ n \in Nat /\ m \in Nat
  BY <1>1, <1>2, <1>3 DEF IsBuffer
<1>5. \A i \in 1 .. n + m : j[i] = IF i <= n THEN s[i] ELSE t[i - n]
  BY <1>4, ConcatProperties
<1>6. ASSUME NEW i \in 1 .. n PROVE j[i] = s[i]
  BY <1>4, <1>5
<1>7. ASSUME NEW i \in 1 .. m PROVE j[n + i] = t[i]
  <2>1. PICK x \in 1 .. n + m : x = n + i /\ ~(x <= n) /\ x - n = i
    BY <1>4
  <2> QED BY <1>5, <2>1
<1> QED BY <1>6, <1>7, JoinedBuffer DEF Follows

\* A word of an array.
LEMMA ArrayRead ==
    ASSUME NEW t, NEW mem, NEW lo \in Int, NEW hi \in Int, NEW va \in Int, NEW words, NEW n,
           IsBuffer(words, n), lo <= va, va + n * WORD <= hi,
           In(Seen(t, mem, lo, hi), va, WordBytes(words)), NEW i \in 0 .. n - 1
    PROVE  WordOf(GuestBytes(t, mem, va + i * WORD, WORD)) = words[i + 1]
<1>1. n \in Nat
  BY DEF IsBuffer
<1>2. PICK W \in Nat \ {0} : W = WORD
  BY BootTypes
<1>3. PICK x \in Nat, l \in Nat : x = i * W /\ l = n * W /\ x + W <= l
  <2>1. W * (i + 1) <= W * n
    BY <1>1, PageOrder
  <2>2. W * (i + 1) = i * W + W /\ W * n = n * W /\ n * W \in Nat /\ i * W \in Nat
    BY <1>1
  <2> QED BY <2>1, <2>2
<1>4. PICK v \in Int : v = va + x /\ lo <= v /\ v + W <= hi
  BY <1>2, <1>3
<1>5. In(Seen(t, mem, lo, hi), v, Word(words[i + 1]))
  BY <1>2, <1>3, <1>4, WordThere
<1>6. WordOf(GuestBytes(t, mem, v, WORD)) = words[i + 1]
  BY <1>2, <1>4, <1>5, WordSeen
<1> QED BY <1>2, <1>3, <1>4, <1>6

\* strlen of a string on the kernel's stack.
LEMMA StringsRead ==
    ASSUME KernelFits, NEW q \in Int, PlaceInv(q),
           NEW a \in Seq(Nat), NEW top \in Int, top <= image, NEW g, Strung(g, a, top),
           StackBottom <= g[0], NEW kind \in {"argv", "envp"}, Strings(KernelStack, g, 0, kind, a),
           NEW i \in 0 .. Len(a) - 1
    PROVE  g[i] \in Int /\ g[i] > 0 /\ StringEnds(g[i], a[i + 1]) /\ StrLen(g[i]) = a[i + 1]
<1>1. PICK lo \in Int, hi \in Int, z \in Nat :
          /\ lo = StackBottom /\ hi = image /\ z = PAGE_SIZE * KSTACK_PAGES /\ hi = lo + z /\ 0 < lo
  <2>1. PICK b \in Int : /\ StackBottom = PAGE_SIZE * b /\ 3 <= b
                         /\ StackBottom \in Int /\ image \in Int
    BY StackPages
  <2>2. PICK z \in Nat : z = PAGE_SIZE * KSTACK_PAGES /\ z = KSTACK_PAGES * PAGE_SIZE
    BY BootTypes
  <2>3. PICK x \in Int, y \in Int : x = StackBottom /\ y = image
    BY <2>1
  <2>4. y = x + z
    <3>1. x = y - z
      BY <2>2, <2>3 DEF StackBottom
    <3> QED BY <3>1
  <2>5. 0 < x
    <3>1. PICK P \in Nat \ {0} : P = PAGE_SIZE
      BY BootTypes
    <3>2. P * 0 < P * b /\ P * 0 = 0
      BY <2>1, PageOrder
    <3> QED BY <2>1, <2>3, <3>1, <3>2
  <2> QED BY <2>2, <2>3, <2>4, <2>5
<1>2. /\ \A h \in 0 .. Len(a) : g[h] \in Int /\ g[0] <= g[h]
      /\ \A h \in 0 .. Len(a) - 1 : /\ a[h + 1] \in Nat /\ g[h + 1] \in Int /\ g[h + 1] <= top
                                    /\ g[h] + (a[h + 1] + 1) = g[h + 1]
      /\ Len(a) \in Nat /\ g[0] \in Int
  BY StrungFacts
<1>3. i \in 0 .. Len(a)
  BY <1>2
<1>4. PICK x \in Int, y \in Int, n \in Nat, f \in Int :
          /\ x = g[i] /\ y = g[i + 1] /\ n = a[i + 1] /\ f = g[0] /\ f <= x
          /\ x + (n + 1) = y /\ y <= top
  BY <1>2, <1>3
<1>5. lo <= x /\ x + n + 1 <= hi /\ n <= z /\ x > 0
  <2>1. lo <= f /\ top <= hi /\ hi = lo + z /\ 0 < lo /\ f <= x /\ x + (n + 1) = y /\ y <= top
    BY <1>1, <1>4
  <2> QED BY ONLY <2>1, lo \in Int, hi \in Int, z \in Nat, f \in Int, x \in Int, y \in Int,
                  n \in Nat, top \in Int
<1>6. In(Seen(pt, ram, lo, hi), x, CString(kind, i, n))
  BY <1>1, <1>4 DEF Strings, KernelStack
<1>7. StringEnds(x, n) /\ StrLen(x) = n
  BY <1>1, <1>5, <1>6, StringLength
<1> QED BY <1>4, <1>5, <1>7

LEMMA ArgumentsRead ==
    ASSUME KernelFits, NEW q \in Int, PlaceInv(q), NEW A, NEW E, ArgPlaces(A, E), Passed(A, E),
           envp >= StackBottom
    PROVE  /\ \A i \in 0 .. argc - 1 : /\ A[i] \in Int /\ WordAt(argv + i * WORD) = A[i]
                                       /\ StrLen(A[i]) = args[i + 1]
           /\ KernelEnvc = envc
           /\ \A i \in 0 .. envc - 1 : /\ E[i] \in Int /\ WordAt(envp + i * WORD) = E[i]
                                       /\ StrLen(E[i]) = envs[i + 1]
           /\ A[0] \in Int /\ E[0] \in Int /\ StackBottom <= E[0] /\ E[0] <= A[0] /\ A[0] <= image
<1>1. args \in Seq(Nat) /\ envs \in Seq(Nat) /\ argc \in Nat /\ envc \in Nat
      /\ argc = Len(args) /\ envc = Len(envs)
  BY ArgTypes DEF argc, envc
<1>2. PICK lo \in Int, hi \in Int : lo = StackBottom /\ hi = image
  BY StackPages
<1>3. Strung(A, args, hi) /\ Strung(E, envs, A[0])
  BY <1>2 DEF ArgPlaces
<1>4. PICK a \in Int : a = A[0] /\ a <= hi
  BY <1>1, <1>3, StrungFacts
<1>5. Strung(E, envs, a)
  BY <1>3, <1>4
<1>6. PICK e \in Int : e = E[0] /\ e <= a
  BY <1>1, <1>5, StrungFacts
<1>7. PICK m \in Nat, n \in Nat, v \in Int, w \in Int :
          /\ m = argc * WORD /\ n = (envc + 1) * WORD /\ v = argv /\ w = envp
          /\ w = v - n /\ v + m <= e /\ lo <= w
  <2>1. PICK m \in Nat, n \in Nat : m = argc * WORD /\ n = (envc + 1) * WORD
    BY <1>1, BootTypes
  <2>2. PICK v \in Int : v = argv /\ v + m <= e
    BY <1>6, <2>1 DEF Passed
  <2>3. PICK w \in Int : w = envp /\ w = v - n /\ lo <= w
    BY <1>2, <2>1, <2>2 DEF Passed
  <2> QED BY <2>1, <2>2, <2>3
<1>8. lo <= v /\ v + m <= hi /\ w + n <= hi /\ lo <= e /\ lo <= a
  BY ONLY <1>4, <1>6, <1>7, lo \in Int, hi \in Int, a \in Int, e \in Int, m \in Nat, n \in Nat,
          v \in Int, w \in Int
<1>9. /\ Strings(KernelStack, A, 0, "argv", args) /\ Strings(KernelStack, E, 0, "envp", envs)
      /\ In(Seen(pt, ram, lo, hi), v, WordBytes(Listed(A, argc)))
      /\ In(Seen(pt, ram, lo, hi), w, WordBytes(Listed(E, envc) \o <<NULL>>))
  BY <1>2, <1>7 DEF Passed, KernelStack
<1>10. ASSUME NEW i \in 0 .. argc - 1
       PROVE  A[i] \in Int /\ WordAt(argv + i * WORD) = A[i] /\ StrLen(A[i]) = args[i + 1]
  <2>1. A[i] \in Int /\ StrLen(A[i]) = args[i + 1]
    <3>1. i \in 0 .. Len(args) - 1 /\ StackBottom <= A[0] /\ hi <= image
      BY <1>1, <1>2, <1>4, <1>8
    <3> QED BY <1>1, <1>3, <1>9, <3>1, StringsRead
  <2>2. WordOf(GuestBytes(pt, ram, v + i * WORD, WORD)) = Listed(A, argc)[i + 1]
    <3>1. IsBuffer(Listed(A, argc), argc)
      BY <1>1, ListedBuffer
    <3>2. v + argc * WORD <= hi /\ In(Seen(pt, ram, lo, hi), v, WordBytes(Listed(A, argc)))
      BY <1>7, <1>8, <1>9
    <3> QED BY <1>8, <3>1, <3>2, ArrayRead
  <2>3. Listed(A, argc)[i + 1] = A[i]
    <3>1. i + 1 \in 1 .. argc /\ (i + 1) - 1 = i
      BY <1>1
    <3> QED BY <3>1 DEF Listed
  <2> QED BY <1>7, <2>1, <2>2, <2>3, WordAtIs
<1>11. ASSUME NEW i \in 0 .. envc
       PROVE  WordAt(envp + i * WORD) = (Listed(E, envc) \o <<NULL>>)[i + 1]
  <2>1. IsBuffer(Listed(E, envc) \o <<NULL>>, envc + 1) /\ i \in 0 .. (envc + 1) - 1
    BY <1>1, ListedBuffer
  <2>2. WordOf(GuestBytes(pt, ram, w + i * WORD, WORD)) = (Listed(E, envc) \o <<NULL>>)[i + 1]
    <3>1. /\ w + (envc + 1) * WORD <= hi
          /\ In(Seen(pt, ram, lo, hi), w, WordBytes(Listed(E, envc) \o <<NULL>>))
      BY <1>7, <1>8, <1>9
    <3>2. lo <= w
      BY <1>7
    <3>3. PICK words, l : words = Listed(E, envc) \o <<NULL>> /\ l = envc + 1
      OBVIOUS
    <3>4. /\ IsBuffer(words, l) /\ i \in 0 .. l - 1 /\ w + l * WORD <= hi
          /\ In(Seen(pt, ram, lo, hi), w, WordBytes(words))
      BY <2>1, <3>1, <3>3
    <3>5. WordOf(GuestBytes(pt, ram, w + i * WORD, WORD)) = words[i + 1]
      BY <3>2, <3>4, ArrayRead
    <3> QED BY <3>3, <3>5
  <2> QED BY <1>7, <2>2, WordAtIs
<1>12. /\ (Listed(E, envc) \o <<NULL>>)[envc + 1] = NULL
       /\ \A i \in 0 .. envc - 1 : (Listed(E, envc) \o <<NULL>>)[i + 1] = E[i]
  <2>1. PICK l, t, c, j : l = Listed(E, envc) /\ t = <<NULL>> /\ c = 1 /\ j = l \o t
    OBVIOUS
  <2>2. IsBuffer(l, envc) /\ IsBuffer(t, c)
    BY <1>1, <2>1, ListedBuffer, OneBuffer
  <2>3. Follows(j, l, envc, t, c)
    BY <2>1, <2>2, JoinedAt
  <2>4. j[envc + 1] = NULL
    <3>1. c \in 1 .. c /\ t[c] = NULL
      BY <2>1
    <3> QED BY <2>1, <2>3, <3>1 DEF Follows
  <2>5. ASSUME NEW i \in 0 .. envc - 1 PROVE j[i + 1] = E[i]
    <3>1. i + 1 \in 1 .. envc /\ (i + 1) - 1 = i
      BY <1>1
    <3>2. j[i + 1] = l[i + 1]
      BY <2>3, <3>1 DEF Follows
    <3>3. l[i + 1] = E[i]
      BY <2>1, <3>1 DEF Listed
    <3> QED BY <3>2, <3>3
  <2> QED BY <2>1, <2>4, <2>5
<1>13. ASSUME NEW i \in 0 .. envc - 1
       PROVE  /\ E[i] \in Int /\ E[i] # NULL /\ WordAt(envp + i * WORD) = E[i]
              /\ StrLen(E[i]) = envs[i + 1]
  <2>1. E[i] \in Int /\ E[i] > 0 /\ StrLen(E[i]) = envs[i + 1]
    <3>1. i \in 0 .. Len(envs) - 1 /\ StackBottom <= E[0] /\ a <= image
      BY <1>1, <1>2, <1>4, <1>6, <1>8
    <3> QED BY <1>1, <1>5, <1>9, <3>1, StringsRead
  <2>2. i \in 0 .. envc
    BY <1>1
  <2>3. E[i] # NULL
    BY <2>1 DEF NULL
  <2>4. WordAt(envp + i * WORD) = E[i]
    <3>1. WordAt(envp + i * WORD) = (Listed(E, envc) \o <<NULL>>)[i + 1]
      BY <1>11, <2>2
    <3> QED BY <1>12, <3>1
  <2> QED BY <2>1, <2>3, <2>4
<1>14. KernelEnvc = envc
  <2>1. EnvpEnds(envc)
    <3>1. envc \in 0 .. envc
      BY <1>1
    <3> QED BY <1>11, <1>12, <1>13, <3>1 DEF EnvpEnds
  <2>2. ASSUME NEW j \in 0 .. envc, EnvpEnds(j) PROVE j = envc
    <3>1. WordAt(envp + j * WORD) = NULL
      BY <2>2 DEF EnvpEnds
    <3>2. ~(j \in 0 .. envc - 1)
      BY <1>13, <3>1
    <3> QED BY <1>1, <3>2
  <2>3. envc \in 0 .. envc
    BY <1>1
  <2> QED BY <2>1, <2>2, <2>3 DEF KernelEnvc
<1> QED BY <1>2, <1>4, <1>6, <1>8, <1>10, <1>13, <1>14

\* The places on the user stack are those of strings with the same lengths.
LEMMA UserLayoutStrung ==
    ASSUME KernelFits, NEW q \in Int, PlaceInv(q), NEW A, NEW E, ArgPlaces(A, E), Passed(A, E),
           envp >= StackBottom, NEW top \in Int, user_stack.start = top, NEW u, u = UserLayout
    PROVE  /\ Strung(u.argv, args, top) /\ u.envc = envc /\ Strung(u.envp, envs, u.argv[0])
           /\ u.sp % (2 * WORD) = 0
<1>1. args \in Seq(Nat) /\ envs \in Seq(Nat) /\ argc \in Nat /\ envc \in Nat
      /\ argc = Len(args) /\ envc = Len(envs)
  BY ArgTypes DEF argc, envc
<1>2. KernelEnvc = envc
  BY ArgumentsRead
<1>3. ASSUME NEW i \in 0 .. argc - 1
      PROVE  StrLen(WordAt(argv + i * WORD)) = args[i + 1] /\ args[i + 1] \in Nat
  <2>1. WordAt(argv + i * WORD) = A[i] /\ StrLen(A[i]) = args[i + 1]
    BY ArgumentsRead
  <2>2. i + 1 \in 1 .. Len(args)
    BY <1>1
  <2> QED BY <1>1, <2>1, <2>2, ElementOfSeq
<1>4. ASSUME NEW i \in 0 .. envc - 1
      PROVE  StrLen(WordAt(envp + i * WORD)) = envs[i + 1] /\ envs[i + 1] \in Nat
  <2>1. WordAt(envp + i * WORD) = E[i] /\ StrLen(E[i]) = envs[i + 1]
    BY ArgumentsRead
  <2>2. i + 1 \in 1 .. Len(envs)
    BY <1>1
  <2> QED BY <1>1, <2>1, <2>2, ElementOfSeq
<1>5. Lengths(argv, argc) = Lens(args) /\ Lengths(envp, envc) = Lens(envs)
  BY <1>1, <1>3, <1>4 DEF Lengths, Lens
<1>6. PICK s : s = Position(argv, argc, top)
  OBVIOUS
<1>7. Placed(s, argc, top) /\ Down(s, argc, top, Lens(args))
  <2>1. \A i \in 0 .. argc - 1 : StrLen(WordAt(argv + i * WORD)) \in Nat
    BY <1>3
  <2> QED BY <1>1, <1>5, <1>6, <2>1, PositionPlaced
<1>8. Strung(s, args, top) /\ s[0] \in Int
  BY <1>1, <1>7 DEF Strung, Placed
<1>9. PICK e : e = Position(envp, envc, s[0])
  OBVIOUS
<1>10. Placed(e, envc, s[0]) /\ Down(e, envc, s[0], Lens(envs))
  <2>1. \A i \in 0 .. envc - 1 : StrLen(WordAt(envp + i * WORD)) \in Nat
    BY <1>4
  <2> QED BY <1>1, <1>5, <1>8, <1>9, <2>1, PositionPlaced
<1>11. Strung(e, envs, s[0]) /\ e[0] \in Int
  BY <1>1, <1>10 DEF Strung, Placed
<1>12. PICK r : r = e[0] - 2 * WORD
  OBVIOUS
<1>13. PICK y : y = r - (2 * Len(Aux) + 2 + Items(envc)) * WORD
  OBVIOUS
<1>14. y \in Int
  <2>1. Items(envc) \in Int /\ Len(Aux) \in Int /\ WORD \in Int
    BY <1>1, AuxLength, BootTypes DEF Items
  <2>2. (2 * Len(Aux) + 2 + Items(envc)) * WORD \in Int /\ 2 * WORD \in Int
    BY <2>1
  <2> QED BY <1>11, <1>12, <1>13, <2>2
<1>15. P2Align(y, 2 * WORD) % (2 * WORD) = 0
  <2>1. PICK W \in Nat \ {0} : W = 2 * WORD
    BY BootTypes
  <2>2. PICK m \in Int : P2Align(y, W) = W * m /\ P2Align(y, W) \in Int
    BY <1>14, AlignFacts
  <2>3. PICK z \in Int, o \in 0 .. W - 1 : z = P2Align(y, W) /\ o = 0
    BY <2>2
  <2>4. z = W * m + o
    BY <2>2, <2>3
  <2>5. z % W = o
    BY ONLY <2>4, W \in Nat \ {0}, z \in Int, m \in Int, o \in 0 .. W - 1, DivisionUnique
  <2> QED BY <2>1, <2>3, <2>5
<1>16. u = [argv |-> s, envc |-> envc, envp |-> e, random |-> r, sp |-> P2Align(y, 2 * WORD)]
  BY <1>2, <1>6, <1>9, <1>12, <1>13 DEF UserLayout
<1> QED BY <1>8, <1>11, <1>15, <1>16

-----------------------------------------------------------------------------
(* What load_user_land writes to the user stack. *)

LEMMA AuxWhole ==
    ASSUME AuxFits
    PROVE  Aux = AuxIds /\ Len(Aux) = 8
<1>1. AuxIds \in Seq(Int) /\ Len(AuxIds) = 8 /\ AuxIds = [i \in 1 .. 8 |-> AuxIds[i]]
  BY DEF AuxIds
<1>2. MAX_ENTRIES \in Nat
  BY BootAssumption
<1>3. ~(Len(AuxIds) > MAX_ENTRIES)
  BY <1>1, <1>2 DEF AuxFits
<1>4. Aux = SubSeq(AuxIds, 1, 8)
  BY <1>1, <1>3 DEF Aux
<1>5. Aux = AuxIds
  BY <1>1, <1>4
<1> QED BY <1>1, <1>5

\* The words from the stack pointer on.
UserWordsAre(w, u) ==
    /\ w[1] = argc
    /\ \A i \in 0 .. argc - 1 : w[1 + (i + 1)] = u.argv[i]
    /\ w[argc + 2] = NULL
    /\ \A i \in 0 .. envc - 1 : w[(argc + 2) + (i + 1)] = u.envp[i]
    /\ w[(argc + 2) + envc + 1] = NULL
    /\ \A i \in 1 .. 8 : w[((argc + 2) + envc + 1) + (2 * i - 1)] = AuxIds[i]
    /\ w[((argc + 2) + envc + 1) + 17] = NULL /\ w[((argc + 2) + envc + 1) + 18] = NULL

LEMMA UserWordsAt ==
    ASSUME AuxFits, NEW u, argc \in Nat, envc \in Nat, u.envc = envc
    PROVE  IsBuffer(UserWords(u), (argc + envc + 3) + 18) /\ UserWordsAre(UserWords(u), u)
<1> DEFINE A == [i \in 1 .. argc |-> u.argv[i - 1]]
           E == [i \in 1 .. u.envc |-> u.envp[i - 1]]
           X == [i \in 1 .. 2 * Len(Aux) |->
                   IF i % 2 = 1 THEN Aux[(i + 1) \div 2] ELSE AuxValue(Aux[i \div 2], u.random)]
<1>1. UserWords(u) = <<argc>> \o A \o <<NULL>> \o E \o <<NULL>> \o X \o <<NULL, NULL>>
  BY DEF UserWords
<1>2. IsBuffer(A, argc) /\ \A i \in 1 .. argc : A[i] = u.argv[i - 1]
  <2>1. A = [i \in 1 .. argc |-> A[i]] /\ \A i \in 1 .. argc : A[i] = u.argv[i - 1]
    OBVIOUS
  <2> HIDE DEF A
  <2> QED BY <2>1, ListBuffer
<1>3. IsBuffer(E, envc) /\ \A i \in 1 .. envc : E[i] = u.envp[i - 1]
  <2>1. E = [i \in 1 .. envc |-> E[i]] /\ \A i \in 1 .. envc : E[i] = u.envp[i - 1]
    OBVIOUS
  <2> HIDE DEF E
  <2> QED BY <2>1, ListBuffer
<1>4. IsBuffer(X, 16) /\ \A i \in 1 .. 8 : X[2 * i - 1] = AuxIds[i]
  <2>1. Aux = AuxIds /\ Len(Aux) = 8
    BY AuxWhole
  <2>2. PICK x \in Nat : x = 2 * Len(Aux) /\ x = 16
    BY <2>1
  <2>3. X = [i \in 1 .. x |-> X[i]]
    BY ONLY <2>2
  <2>4. ASSUME NEW i \in 1 .. 8 PROVE X[2 * i - 1] = AuxIds[i]
    <3>1. PICK h \in 1 .. 16 : h = 2 * i - 1 /\ h % 2 = 1 /\ (h + 1) \div 2 = i
      OBVIOUS
    <3>2. h \in 1 .. 2 * Len(Aux)
      BY ONLY <2>2, h \in 1 .. 16
    <3>3. X[h] = Aux[(h + 1) \div 2]
      BY ONLY <3>1, <3>2
    <3> QED BY <2>1, <3>1, <3>3
  <2> HIDE DEF X
  <2>5. IsBuffer(X, x)
    BY <2>3, ListBuffer
  <2> QED BY <2>2, <2>4, <2>5
<1> HIDE DEF A, E, X
<1>5. PICK f, z, j1, j2, j3, j4, j5, j6 :
          /\ f = <<argc>> /\ z = <<NULL>> /\ j1 = f \o A /\ j2 = j1 \o z /\ j3 = j2 \o E
          /\ j4 = j3 \o z /\ j5 = j4 \o X /\ j6 = j5 \o <<NULL, NULL>>
  OBVIOUS
<1>6. j6 = UserWords(u)
  BY <1>1, <1>5
<1>7. IsBuffer(f, 1) /\ IsBuffer(z, 1) /\ f[1] = argc /\ z[1] = NULL
  BY <1>5, OneBuffer
<1>8. PICK y : y = <<NULL, NULL>>
  OBVIOUS
<1>9. IsBuffer(y, 2) /\ y[1] = NULL /\ y[2] = NULL
  <2>1. y \in Seq({NULL}) /\ Len(y) = 2 /\ y[1] = NULL /\ y[2] = NULL
    BY <1>8
  <2> QED BY <2>1 DEF IsBuffer
<1>10. PICK c \in Nat, e \in Nat : c = argc /\ e = envc
  OBVIOUS
<1>11. PICK n1 \in Nat, n2 \in Nat, n3 \in Nat, n4 \in Nat, n5 \in Nat :
           n1 = 1 + c /\ n2 = n1 + 1 /\ n3 = n2 + e /\ n4 = n3 + 1 /\ n5 = n4 + 16
  OBVIOUS
<1>12. Follows(j1, f, 1, A, c) /\ IsBuffer(j1, n1)
  <2>1. IsBuffer(f, 1) /\ IsBuffer(A, c) /\ j1 = f \o A
    BY <1>2, <1>5, <1>7, <1>10
  <2>2. Follows(j1, f, 1, A, c)
    BY ONLY <2>1, JoinedAt
  <2>3. IsBuffer(j1, 1 + c) /\ 1 + c = n1
    BY <1>11, <2>2 DEF Follows
  <2> QED BY <2>2, <2>3
<1>13. Follows(j2, j1, n1, z, 1) /\ IsBuffer(j2, n2)
  <2>1. IsBuffer(j1, n1) /\ IsBuffer(z, 1) /\ j2 = j1 \o z
    BY <1>5, <1>7, <1>12
  <2>2. Follows(j2, j1, n1, z, 1)
    BY ONLY <2>1, JoinedAt
  <2>3. IsBuffer(j2, n1 + 1) /\ n1 + 1 = n2
    BY <1>11, <2>2 DEF Follows
  <2> QED BY <2>2, <2>3
<1>14. Follows(j3, j2, n2, E, e) /\ IsBuffer(j3, n3)
  <2>1. IsBuffer(j2, n2) /\ IsBuffer(E, e) /\ j3 = j2 \o E
    BY <1>3, <1>5, <1>10, <1>13
  <2>2. Follows(j3, j2, n2, E, e)
    BY ONLY <2>1, JoinedAt
  <2>3. IsBuffer(j3, n2 + e) /\ n2 + e = n3
    BY <1>11, <2>2 DEF Follows
  <2> QED BY <2>2, <2>3
<1>15. Follows(j4, j3, n3, z, 1) /\ IsBuffer(j4, n4)
  <2>1. IsBuffer(j3, n3) /\ IsBuffer(z, 1) /\ j4 = j3 \o z
    BY <1>5, <1>7, <1>14
  <2>2. Follows(j4, j3, n3, z, 1)
    BY ONLY <2>1, JoinedAt
  <2>3. IsBuffer(j4, n3 + 1) /\ n3 + 1 = n4
    BY <1>11, <2>2 DEF Follows
  <2> QED BY <2>2, <2>3
<1>16. Follows(j5, j4, n4, X, 16) /\ IsBuffer(j5, n5)
  <2>1. IsBuffer(j4, n4) /\ IsBuffer(X, 16) /\ j5 = j4 \o X
    BY <1>4, <1>5, <1>15
  <2>2. Follows(j5, j4, n4, X, 16)
    BY ONLY <2>1, JoinedAt
  <2>3. IsBuffer(j5, n4 + 16) /\ n4 + 16 = n5
    BY <1>11, <2>2 DEF Follows
  <2> QED BY <2>2, <2>3
<1>17. Follows(j6, j5, n5, y, 2) /\ IsBuffer(j6, n5 + 2)
  <2>1. IsBuffer(j5, n5) /\ IsBuffer(y, 2) /\ j6 = j5 \o y
    BY <1>5, <1>8, <1>9, <1>16
  <2>2. Follows(j6, j5, n5, y, 2)
    BY ONLY <2>1, JoinedAt
  <2>3. IsBuffer(j6, n5 + 2) /\ n5 + 2 = n5 + 2
    BY <1>11, <2>2 DEF Follows
  <2> QED BY <2>2, <2>3
<1>18. /\ \A i \in 1 .. n5 : j6[i] = j5[i]
       /\ \A i \in 1 .. n4 : j6[i] = j4[i]
       /\ \A i \in 1 .. n3 : j6[i] = j3[i]
       /\ \A i \in 1 .. n2 : j6[i] = j2[i]
       /\ \A i \in 1 .. n1 : j6[i] = j1[i]
  <2>1. \A i \in 1 .. n5 : j6[i] = j5[i]
    BY <1>17 DEF Follows
  <2>2. ASSUME NEW i \in 1 .. n4 PROVE j6[i] = j4[i]
    <3>1. i \in 1 .. n5
      BY <1>11
    <3> QED BY <1>16, <2>1, <3>1 DEF Follows
  <2>3. ASSUME NEW i \in 1 .. n3 PROVE j6[i] = j3[i]
    <3>1. i \in 1 .. n4
      BY <1>11
    <3> QED BY <1>15, <2>2, <3>1 DEF Follows
  <2>4. ASSUME NEW i \in 1 .. n2 PROVE j6[i] = j2[i]
    <3>1. i \in 1 .. n3
      BY <1>11
    <3> QED BY <1>14, <2>3, <3>1 DEF Follows
  <2>5. ASSUME NEW i \in 1 .. n1 PROVE j6[i] = j1[i]
    <3>1. i \in 1 .. n2
      BY <1>11
    <3> QED BY <1>13, <2>4, <3>1 DEF Follows
  <2> QED BY <2>1, <2>2, <2>3, <2>4, <2>5
<1>19. j6[1] = c
  <2>1. 1 \in 1 .. n1 /\ 1 \in 1 .. 1
    BY <1>11
  <2> QED BY <1>7, <1>10, <1>12, <1>18, <2>1 DEF Follows
<1>20. ASSUME NEW i \in 0 .. c - 1 PROVE j6[1 + (i + 1)] = u.argv[i]
  <2>1. PICK h \in 1 .. c : h = i + 1 /\ h - 1 = i /\ 1 + h \in 1 .. n1
    BY <1>11
  <2>2. j6[1 + h] = A[h]
    BY <1>12, <1>18, <2>1 DEF Follows
  <2> QED BY <1>2, <1>10, <2>1, <2>2
<1>21. j6[n2] = NULL
  <2>1. n2 \in 1 .. n2 /\ 1 \in 1 .. 1 /\ n2 = n1 + 1
    BY <1>11
  <2> QED BY <1>7, <1>13, <1>18, <2>1 DEF Follows
<1>22. ASSUME NEW i \in 0 .. e - 1 PROVE j6[n2 + (i + 1)] = u.envp[i]
  <2>1. PICK h \in 1 .. e : h = i + 1 /\ h - 1 = i /\ n2 + h \in 1 .. n3
    BY <1>11
  <2>2. j6[n2 + h] = E[h]
    BY <1>14, <1>18, <2>1 DEF Follows
  <2> QED BY <1>3, <1>10, <2>1, <2>2
<1>23. j6[n4] = NULL
  <2>1. n4 \in 1 .. n4 /\ 1 \in 1 .. 1 /\ n4 = n3 + 1
    BY <1>11
  <2> QED BY <1>7, <1>15, <1>18, <2>1 DEF Follows
<1>24. ASSUME NEW i \in 1 .. 8 PROVE j6[n4 + (2 * i - 1)] = AuxIds[i]
  <2>1. PICK h \in 1 .. 16 : h = 2 * i - 1 /\ n4 + h \in 1 .. n5
    BY <1>11
  <2>2. j6[n4 + h] = X[h]
    BY <1>16, <1>18, <2>1 DEF Follows
  <2> QED BY <1>4, <2>1, <2>2
<1>25. j6[n4 + 17] = NULL /\ j6[n4 + 18] = NULL
  <2>1. n4 + 17 = n5 + 1 /\ n4 + 18 = n5 + 2 /\ 1 \in 1 .. 2 /\ 2 \in 1 .. 2
    BY <1>11
  <2> QED BY <1>9, <1>17, <2>1 DEF Follows
<1>26. n2 = argc + 2 /\ n4 = (argc + 2) + envc + 1 /\ n5 + 2 = (argc + envc + 3) + 18
  BY <1>10, <1>11
<1> QED BY <1>6, <1>10, <1>17, <1>19, <1>20, <1>21, <1>22, <1>23, <1>24, <1>25, <1>26
        DEF UserWordsAre

\* A block copied from the first string on brings the strings.
LEMMA BlockStrings ==
    ASSUME NEW t, NEW mem, NEW lo \in Int, NEW hi \in Int,
           NEW a \in Seq(Nat), NEW bot \in Int, bot <= hi, NEW g, Strung(g, a, bot), lo <= g[0],
           NEW kind, Strings(Seen(t, mem, lo, hi), g, 0, kind, a),
           NEW top \in Int, NEW h, Strung(h, a, top),
           NEW m, m = top - h[0], NEW T, In(T, h[0], GuestBytes(t, mem, g[0], m))
    PROVE  Strings(T, h, 0, kind, a)
<1>1. /\ Len(a) \in Nat /\ g[0] \in Int /\ g[0] <= bot
      /\ \A i \in 0 .. Len(a) : g[i] \in Int /\ g[0] <= g[i] /\ g[i] <= bot
      /\ \A i \in 0 .. Len(a) - 1 : /\ a[i + 1] \in Nat /\ g[i + 1] \in Int /\ g[i + 1] <= bot
                                    /\ g[i] + (a[i + 1] + 1) = g[i + 1]
  BY StrungFacts
<1>2. h[0] \in Int /\ h[0] <= top /\ \A i \in 0 .. Len(a) : h[i] \in Int
  BY StrungFacts
<1>3. \A i \in 0 .. Len(a) : top - h[i] = bot - g[i]
  <2>1. Lens(a) \in [0 .. Len(a) - 1 -> Nat]
    BY <1>1 DEF Lens
  <2>2. /\ h \in [0 .. Len(a) -> Int] /\ Down(h, Len(a), top, Lens(a))
        /\ g \in [0 .. Len(a) -> Int] /\ Down(g, Len(a), bot, Lens(a))
    BY DEF Strung
  <2>3. PICK n \in Nat : n = Len(a)
    BY <1>1
  <2>lens. PICK l : l = Lens(a)
    OBVIOUS
  <2>4. Shifted(h, top, g, bot, n)
    <3>1. /\ l \in [0 .. n - 1 -> Nat] /\ h \in [0 .. n -> Int] /\ Down(h, n, top, l)
          /\ g \in [0 .. n -> Int] /\ Down(g, n, bot, l)
      BY ONLY <2>1, <2>2, <2>3, <2>lens
    <3> QED BY ONLY <3>1, n \in Nat, top \in Int, bot \in Int, DownShift
  <2> QED BY <2>3, <2>4 DEF Shifted
<1>4. m \in Nat /\ g[0] + m = bot
  <2>1. 0 \in 0 .. Len(a)
    BY <1>1
  <2>2. top - h[0] = bot - g[0]
    BY <1>3, <2>1
  <2>3. PICK x \in Int, y \in Int : x = h[0] /\ y = g[0]
    BY <1>1, <1>2
  <2>4. x <= top /\ y <= bot /\ top - x = bot - y /\ m = top - x
    BY <1>1, <1>2, <2>2, <2>3
  <2>5. m \in Nat /\ y + m = bot
    BY ONLY <2>4, x \in Int, y \in Int, top \in Int, bot \in Int
  <2> QED BY <2>3, <2>5
<1>5. ASSUME NEW i \in 0 .. Len(a) - 1
      PROVE  In(T, h[i], CString(kind, i, a[i + 1]))
  <2>1. i \in 0 .. Len(a) /\ 0 \in 0 .. Len(a)
    BY <1>1
  <2>length. a[i + 1] \in Nat
    BY ONLY <1>1, i \in 0 .. Len(a) - 1
  <2>2. PICK n \in Nat : n = a[i + 1] + 1 /\ a[i + 1] \in Nat
    BY ONLY <2>length
  <2>3. PICK x \in Int, y \in Int, z \in Int, v \in Int, w \in Int :
            /\ x = g[0] /\ y = g[i] /\ z = g[i + 1] /\ v = h[0] /\ w = h[i]
            /\ x <= y /\ y + n = z /\ z <= bot /\ top - v = bot - x /\ top - w = bot - y
    <3>1. /\ g[0] \in Int /\ g[i] \in Int /\ g[0] <= g[i] /\ g[i + 1] \in Int
          /\ g[i + 1] <= bot /\ g[i] + (a[i + 1] + 1) = g[i + 1]
      BY ONLY <1>1, <2>1, i \in 0 .. Len(a) - 1
    <3>2. h[0] \in Int /\ h[i] \in Int /\ top - h[0] = bot - g[0] /\ top - h[i] = bot - g[i]
      BY ONLY <1>2, <1>3, <2>1
    <3> QED BY ONLY <2>2, <3>1, <3>2
  <2>4. x + m = bot /\ m \in Nat
    BY <1>4, <2>3
  <2>5. x <= y /\ y + n <= x + m /\ y - x = w - v
    <3>1. /\ x <= y /\ y + n = z /\ z <= bot /\ top - v = bot - x /\ top - w = bot - y
      BY <2>3
    <3> QED BY ONLY <2>4, <3>1, x \in Int, y \in Int, z \in Int, v \in Int, w \in Int,
                    n \in Nat, bot \in Int, top \in Int
  <2>6. PICK s : s = CString(kind, i, a[i + 1])
    OBVIOUS
  <2>7. IsBuffer(s, n)
    BY <2>2, <2>6, StringBuffer
  <2>8. In(Seen(t, mem, lo, hi), y, s)
    BY <2>3, <2>6 DEF Strings
  <2>9. lo <= x /\ x + m <= hi /\ In(T, v, GuestBytes(t, mem, x, m))
    BY <2>3, <2>4
  <2>10. In(T, w, s)
    BY ONLY <2>4, <2>5, <2>7, <2>8, <2>9, lo \in Int, hi \in Int, x \in Int, v \in Int,
            y \in Int, w \in Int, PartCopied
  <2> QED BY <2>3, <2>6, <2>10
<1> QED BY <1>5 DEF Strings

LEMMA LoadUserLandEnters ==
    ASSUME LoadUserLand, NEW u, u = UserLayout
    PROVE  rsp' = u.sp
<1>1. \E x \in {UserLayout} : rsp' = x.sp
  BY Zenon DEF LoadUserLand
<1> QED BY <1>1

\* The pages the user stack grows to are the program's alone.
LEMMA UserStackOwned ==
    ASSUME KernelFits, NEW q \in Int, MapInv(q), PlaceInv(q), LoadUserLand,
           NEW u, u = UserLayout
    PROVE  \E lo \in Int, top \in Int :
             /\ top = user_stack.start /\ user_stack'.start = top
             /\ Owned(pt', lo, top) /\ lo <= u.sp /\ UserPlaces(u, top)
<1>1. at = "user_land" /\ ~ArgumentsUnreadable
  BY LoadUserLandMaps
<1>2. /\ ~TooDeep(u.sp) /\ MapFresh(GrownLow(u.sp), user_stack.start)
      /\ user_stack' = [user_stack EXCEPT !.low = GrownLow(u.sp)]
  BY LoadUserLandMaps
<1>3. PICK d \in Int, P \in Nat \ {0} :
          d = HalfPage(q) /\ P = PAGE_SIZE /\ user_stack.start = P * d /\ Order(q)
  <2>1. Order(q)
    BY PlaceOrder DEF PlaceInv
  <2>2. HalfPage(q) \in Int /\ PAGE_SIZE \in Nat \ {0}
    BY <2>1 DEF Order
  <2>3. user_stack.start = PAGE_SIZE * HalfPage(q)
    BY <1>1 DEF PlaceInv
  <2> QED BY <2>1, <2>2, <2>3
<1>4. 1 <= d /\ d <= VA_PAGES /\ user_stack_page_limit <= d /\ user_stack_page_limit \in Nat
      /\ VA_PAGES \in Nat
  BY <1>3 DEF Order
<1>5. PICK top \in Int : top = user_stack.start /\ top = P * d
  BY <1>3
<1>6. args \in Arguments /\ envs \in Environments
  BY DEF PlaceInv
<1>7. UserPlaces(u, top)
  BY <1>1, <1>5, <1>6, UserLayoutPlaced
<1>8. u.sp \in Int /\ u.sp <= top
  BY <1>6, <1>7, PlacesBelow
<1>9. PICK b \in Int : GrownPages(u.sp, d, b)
  BY <1>2, <1>3, <1>5, <1>8, GrownPage
<1>10. PICK lo \in Int : lo = P * b
  OBVIOUS
<1>11. lo < u.sp /\ GrownLow(u.sp) = lo /\ 0 <= b /\ b < d /\ lo = PAGE_SIZE * b
  BY <1>3, <1>4, <1>9, <1>10 DEF GrownPages
<1>12. 0 <= lo /\ top <= PAGE_SIZE * VA_PAGES
  <2>1. P * 0 <= P * b /\ P * 0 = 0
    BY <1>11, PageOrder
  <2>2. P * d <= P * VA_PAGES
    BY <1>4, PageOrder
  <2> QED BY <1>3, <1>5, <1>10, <2>1, <2>2
<1>13. pt' = FreshPages(pt, page_counter, b, d) /\ page_counter' = page_counter + (d - b)
  <2>1. 0 <= b /\ b <= d /\ d <= VA_PAGES /\ 0 < d /\ b < VA_PAGES
    BY <1>4, <1>11
  <2>2. MapFresh(lo, top) /\ lo = PAGE_SIZE * b /\ top = PAGE_SIZE * d
    BY <1>2, <1>3, <1>5, <1>11
  <2> QED BY <2>1, <2>2, MapFreshPages
<1>14. Frames(pt, page_counter)
  BY DEF MapInv
<1>15. Fresh(pt, page_counter, pt', page_counter', b, d)
  BY <1>11, <1>13, <1>14, FreshPagesFresh
<1>16. ASSUME NEW x \in lo .. top - 1
       PROVE  BOOT_FRAMES <= pt'[PageOf(x)]
  <2>1. x \in Int /\ 0 <= x /\ x < PAGE_SIZE * VA_PAGES /\ lo <= x /\ x < top
    <3>1. PICK z \in Int : z = PAGE_SIZE * VA_PAGES
      BY BootTypes
    <3> QED BY <1>12, <3>1
  <2>2. b <= PageOf(x) /\ PageOf(x) < d /\ PageOf(x) \in VaPages
    <3>1. b <= VA_PAGES /\ d <= VA_PAGES
      BY <1>4, <1>11
    <3>2. PAGE_SIZE * b <= x /\ x < PAGE_SIZE * d
      BY <1>3, <1>5, <1>11, <2>1
    <3> QED BY <2>1, <3>1, <3>2, PageSides
  <2>3. page_counter <= pt'[PageOf(x)] /\ pt'[PageOf(x)] \in Int
    BY <1>15, <2>2 DEF Fresh
  <2>4. BOOT_FRAMES <= page_counter /\ page_counter \in Nat /\ BOOT_FRAMES \in Nat
    BY <1>14, BootTypes DEF Frames
  <2> QED BY <2>3, <2>4
<1>17. Owned(pt', lo, top)
  BY <1>12, <1>16 DEF Owned
<1>18. user_stack'.start = user_stack.start
  <2>1. user_stack = [start |-> user_stack.start, low |-> user_stack.low]
    BY DEF PlaceInv
  <2> QED BY ONLY <1>2, <2>1
<1>19. lo <= u.sp
  BY <1>8, <1>11
<1>20. lo \in Int /\ top \in Int /\ top = user_stack.start /\ user_stack'.start = top
  BY <1>5, <1>18
<1> QED BY <1>7, <1>17, <1>19, <1>20, Zenon

\* Three buffers written below each other are all there.
LEMMA ThreeWrites ==
    ASSUME NEW t, NEW c, Frames(t, c), NEW lo \in Int, NEW top \in Int, Owned(t, lo, top),
           NEW v \in Int, NEW e \in Int, NEW s \in Int, NEW m, NEW n, NEW x,
           NEW b1, NEW b2, NEW b3, IsBuffer(b1, m), IsBuffer(b2, n), IsBuffer(b3, x),
           v + m <= top, e + n <= v, s + x <= e, lo <= s, NEW mem, NEW r1, NEW r2, NEW r3,
           r1 = WrittenBy(t, mem, v, b1), r2 = WrittenBy(t, r1, e, b2), r3 = WrittenBy(t, r2, s, b3)
    PROVE  /\ In(Seen(t, r3, lo, top), v, b1) /\ In(Seen(t, r3, lo, top), e, b2)
           /\ In(Seen(t, r3, lo, top), s, b3)
<1>1. m \in Nat /\ n \in Nat /\ x \in Nat
  BY DEF IsBuffer
<1>2. /\ lo <= v /\ lo <= e /\ lo <= s /\ v + m <= top /\ e + n <= top /\ s + x <= top
      /\ s + x <= v /\ e + n <= v /\ s + x <= e
  BY ONLY <1>1, v + m <= top, e + n <= v, s + x <= e, lo <= s, lo \in Int, top \in Int,
          v \in Int, e \in Int, s \in Int
<1>3. PICK S0, S1, S2, S3 :
          /\ S0 = Seen(t, mem, lo, top) /\ S1 = Seen(t, r1, lo, top)
          /\ S2 = Seen(t, r2, lo, top) /\ S3 = Seen(t, r3, lo, top)
  OBVIOUS
<1>4. S1 = PutIn(S0, v, b1)
  <2>1. PICK w : w = WriteVirtualAddr(t, mem, v, b1)
    OBVIOUS
  <2>2. r1 = w.ram
    BY <2>1 DEF WrittenBy
  <2>3. Seen(t, w.ram, lo, top) = PutIn(Seen(t, mem, lo, top), v, b1)
    BY <1>2, <2>1, SeenWritten
  <2> QED BY <1>3, <2>2, <2>3
<1>5. S2 = PutIn(S1, e, b2)
  <2>1. PICK w : w = WriteVirtualAddr(t, r1, e, b2)
    OBVIOUS
  <2>2. r2 = w.ram
    BY <2>1 DEF WrittenBy
  <2>3. Seen(t, w.ram, lo, top) = PutIn(Seen(t, r1, lo, top), e, b2)
    BY <1>2, <2>1, SeenWritten
  <2> QED BY <1>3, <2>2, <2>3
<1>6. S3 = PutIn(S2, s, b3)
  <2>1. PICK w : w = WriteVirtualAddr(t, r2, s, b3)
    OBVIOUS
  <2>2. r3 = w.ram
    BY <2>1 DEF WrittenBy
  <2>3. Seen(t, w.ram, lo, top) = PutIn(Seen(t, r2, lo, top), s, b3)
    BY <1>2, <2>1, SeenWritten
  <2> QED BY <1>3, <2>2, <2>3
<1>7. DOMAIN S0 = lo .. top - 1 /\ DOMAIN S1 = lo .. top - 1 /\ DOMAIN S2 = lo .. top - 1
  BY <1>3 DEF Seen
<1>8. In(S1, v, b1) /\ In(S2, e, b2) /\ In(S3, s, b3)
  BY <1>2, <1>4, <1>5, <1>6, <1>7, PutThere
<1>9. In(S2, v, b1)
  BY <1>2, <1>5, <1>7, <1>8, PutBeside
<1>10. In(S3, v, b1)
  BY <1>2, <1>6, <1>7, <1>9, PutBeside
<1>11. In(S3, e, b2)
  BY <1>2, <1>6, <1>7, <1>8, PutBeside
<1> QED BY <1>3, <1>8, <1>10, <1>11

\* The user stack as the program finds it.
WordCount == (argc + envc + 3) + 18
Entered(t, mem, lo, top, u) ==
    /\ Owned(t, lo, top) /\ u.sp \in Int /\ lo <= u.sp
    /\ u.sp + WordCount * WORD <= u.envp[0] /\ u.sp % (2 * WORD) = 0
    /\ Strung(u.argv, args, top) /\ Strung(u.envp, envs, u.argv[0])
    /\ Strings(Seen(t, mem, lo, top), u.argv, 0, "argv", args)
    /\ Strings(Seen(t, mem, lo, top), u.envp, 0, "envp", envs)
    /\ In(Seen(t, mem, lo, top), u.sp, WordBytes(UserWords(u)))
    /\ IsBuffer(UserWords(u), WordCount) /\ UserWordsAre(UserWords(u), u) /\ WordCount \in Nat

LEMMA ProgramEnteredWith ==
    ASSUME KernelFits, AuxFits, NEW q \in Int, MapInv(q), PlaceInv(q), ArgInv, LoadUserLand,
           envp >= StackBottom, NEW u, u = UserLayout
    PROVE  \E lo, top \in Int : user_stack'.start = top /\ Entered(pt', ram', lo, top, u)
<1>1. at = "user_land"
  BY LoadUserLandMaps
<1>2. PICK A, E : ArgPlaces(A, E) /\ Passed(A, E)
  BY <1>1 DEF ArgInv, Running
<1>3. PICK lo \in Int, top \in Int :
             /\ top = user_stack.start /\ user_stack'.start = top
             /\ Owned(pt', lo, top) /\ lo <= u.sp /\ UserPlaces(u, top)
  BY UserStackOwned
<1>4. /\ Strung(u.argv, args, top) /\ u.envc = envc /\ Strung(u.envp, envs, u.argv[0])
      /\ u.sp % (2 * WORD) = 0
  BY <1>2, <1>3, UserLayoutStrung
<1>5. Frames(pt', page_counter')
  BY LoadUserLandStep DEF MapInv
<1>6. /\ args \in Seq(Nat) /\ envs \in Seq(Nat) /\ argc \in Nat /\ envc \in Nat /\ argc > 0
      /\ argc = Len(args) /\ envc = Len(envs) /\ args \in Arguments /\ envs \in Environments
  BY ArgTypes DEF PlaceInv, argc, envc
<1>7. PICK words, r1, r2 :
          /\ words = WordBytes(UserWords(u))
          /\ r1 = WrittenBy(pt', ram, u.argv[0], UserBlock(argv, argc, u.argv))
          /\ r2 = WrittenBy(pt', r1, u.envp[0], UserBlock(envp, u.envc, u.envp))
          /\ ram' = WrittenBy(pt', r2, u.sp, words)
  BY LoadUserLandWrites
<1>8. PICK w \in Nat : w = WordCount /\ w = 2 * Len(Aux) + 2 + Items(u.envc)
  <2>1. Len(Aux) = 8
    BY AuxWhole
  <2>2. Items(u.envc) = argc + u.envc + 3
    BY <1>3, <1>6, PlacesBelow
  <2>3. PICK c \in Nat, e \in Nat : c = argc /\ e = envc
    BY <1>6
  <2>4. 2 * Len(Aux) + 2 + Items(u.envc) = 16 + 2 + (c + e + 3)
    BY ONLY <1>4, <2>1, <2>2, <2>3
  <2>5. WordCount = (c + e + 3) + 18
    BY <2>3 DEF WordCount
  <2> QED BY ONLY <2>4, <2>5, c \in Nat, e \in Nat
<1>9. PICK x \in Nat : x = w * WORD /\ x = (2 * Len(Aux) + 2 + Items(u.envc)) * WORD
  BY <1>8, BootTypes
<1>10. /\ u.argv[0] \in Int /\ u.argv[0] <= top /\ u.envp[0] \in Int /\ u.envp[0] <= u.argv[0]
       /\ u.random \in Int /\ u.random <= u.envp[0] /\ u.sp \in Int /\ u.sp + x <= u.random
  BY <1>3, <1>6, <1>9, PlacesBelow
<1>11. PICK v \in Int, e \in Int, s \in Int :
           /\ v = u.argv[0] /\ e = u.envp[0] /\ s = u.sp
           /\ v <= top /\ e <= v /\ s + x <= e /\ lo <= s
  <2>1. PICK a \in Int, b \in Int, c \in Int, d \in Int :
           a = u.argv[0] /\ b = u.envp[0] /\ c = u.random /\ d = u.sp
    BY <1>10
  <2>2. a <= top /\ b <= a /\ c <= b /\ d + x <= c /\ lo <= d
    BY <1>3, <1>10, <2>1
  <2>3. d + x <= b
    BY ONLY <2>2, a \in Int, b \in Int, c \in Int, d \in Int, x \in Nat
  <2> QED BY <2>1, <2>2, <2>3
<1>12. PICK m \in Nat, n \in Nat : m = top - v /\ n = v - e /\ v + m <= top /\ e + n <= v
  BY ONLY <1>11, v \in Int, e \in Int, top \in Int
<1>13. u.argv[argc] = top /\ u.envp[u.envc] = v
  BY <1>3, <1>11 DEF UserPlaces, Placed
<1>14. PICK b1, b2 : b1 = UserBlock(argv, argc, u.argv) /\ b2 = UserBlock(envp, u.envc, u.envp)
  OBVIOUS
<1>15. IsBuffer(b1, m) /\ IsBuffer(b2, n)
  BY <1>11, <1>12, <1>13, <1>14, BlockBuffer
<1>16. IsBuffer(UserWords(u), w) /\ UserWordsAre(UserWords(u), u)
  <2>1. IsBuffer(UserWords(u), (argc + envc + 3) + 18) /\ UserWordsAre(UserWords(u), u)
    BY <1>4, <1>6, UserWordsAt
  <2> QED BY <1>8, <2>1 DEF WordCount
<1>17. IsBuffer(words, x)
  BY <1>7, <1>9, <1>16, WordsBuffer
<1>18. PICK S : S = Seen(pt', ram', lo, top)
  OBVIOUS
<1>19. In(S, v, b1) /\ In(S, e, b2) /\ In(S, s, words)
  <2>1. PICK t, c, r3 : t = pt' /\ c = page_counter' /\ r3 = ram'
    OBVIOUS
  <2>2. Frames(t, c) /\ Owned(t, lo, top) /\ S = Seen(t, r3, lo, top)
    BY <1>3, <1>5, <1>18, <2>1
  <2>3. /\ r1 = WrittenBy(t, ram, v, b1) /\ r2 = WrittenBy(t, r1, e, b2)
        /\ r3 = WrittenBy(t, r2, s, words)
    BY <1>7, <1>11, <1>14, <2>1
  <2>4. v + m <= top /\ e + n <= v /\ s + x <= e /\ lo <= s
    BY <1>11, <1>12
  <2> QED BY ONLY <1>15, <1>17, <2>2, <2>3, <2>4, lo \in Int, top \in Int, v \in Int, e \in Int,
                  s \in Int, ThreeWrites
<1>20. /\ \A i \in 0 .. argc - 1 : WordAt(argv + i * WORD) = A[i]
       /\ \A i \in 0 .. envc - 1 : WordAt(envp + i * WORD) = E[i]
       /\ A[0] \in Int /\ E[0] \in Int /\ StackBottom <= E[0] /\ E[0] <= A[0] /\ A[0] <= image
  BY <1>2, ArgumentsRead
<1>21. StackBottom \in Int /\ image \in Int /\ WORD \in Nat
  BY StackPages, BootTypes
<1>22. Strings(S, u.argv, 0, "argv", args)
  <2>1. WordAt(argv) = A[0]
    <3>1. 0 \in 0 .. argc - 1 /\ argv \in Int
      BY <1>2, <1>6 DEF Passed
    <3>2. argv + 0 * WORD = argv
      BY <1>21, <3>1
    <3> QED BY <1>20, <3>1, <3>2
  <2>2. b1 = GuestBytes(pt, ram, A[0], m)
    BY <1>6, <1>11, <1>12, <1>13, <1>14, <2>1 DEF UserBlock
  <2>3. Strung(A, args, image) /\ Strings(Seen(pt, ram, StackBottom, image), A, 0, "argv", args)
    BY <1>2 DEF ArgPlaces, Passed, KernelStack
  <2>4. StackBottom <= A[0] /\ image <= image
    BY <1>20, <1>21
  <2>5. In(S, u.argv[0], GuestBytes(pt, ram, A[0], m)) /\ m = top - u.argv[0]
    BY <1>11, <1>12, <1>19, <2>2
  <2> QED BY ONLY <1>4, <1>6, <1>21, <2>3, <2>4, <2>5, top \in Int, BlockStrings
<1>23. Strings(S, u.envp, 0, "envp", envs)
  <2>1. CASE envc = 0
    BY <1>6, <2>1 DEF Strings
  <2>2. CASE envc # 0
    <3>1. WordAt(envp) = E[0]
      <4>1. 0 \in 0 .. envc - 1 /\ envp \in Int
        <5>1. (envc + 1) * WORD \in Int
          BY <1>6, <1>21
        <5> QED BY <1>2, <1>6, <2>2, <5>1 DEF Passed
      <4>2. envp + 0 * WORD = envp
        BY <1>21, <4>1
      <4> QED BY <1>20, <4>1, <4>2
    <3>2. b2 = GuestBytes(pt, ram, E[0], n)
      BY <1>4, <1>11, <1>12, <1>13, <1>14, <2>2, <3>1 DEF UserBlock
    <3>3. Strung(E, envs, A[0]) /\ Strings(Seen(pt, ram, StackBottom, image), E, 0, "envp", envs)
      BY <1>2 DEF ArgPlaces, Passed, KernelStack
    <3>4. A[0] \in Int /\ StackBottom <= E[0] /\ A[0] <= image
      BY <1>20
    <3>5. /\ In(S, u.envp[0], GuestBytes(pt, ram, E[0], n)) /\ n = u.argv[0] - u.envp[0]
          /\ u.argv[0] \in Int
      BY <1>10, <1>11, <1>12, <1>19, <3>2
    <3> QED BY ONLY <1>4, <1>6, <1>21, <3>3, <3>4, <3>5, BlockStrings
  <2> QED BY <2>1, <2>2
<1>24. Entered(pt', ram', lo, top, u)
  <2>1. In(S, u.sp, WordBytes(UserWords(u))) /\ u.sp \in Int /\ lo <= u.sp
    BY <1>7, <1>11, <1>19
  <2>2. /\ u.sp + WordCount * WORD <= u.envp[0] /\ WordCount \in Nat
        /\ IsBuffer(UserWords(u), WordCount)
    BY <1>8, <1>9, <1>11, <1>16
  <2> QED BY <1>3, <1>4, <1>16, <1>18, <1>22, <1>23, <2>1, <2>2 DEF Entered
<1> QED BY <1>3, <1>24

-----------------------------------------------------------------------------
(* What the program reads there. *)

\* Word n of the stack, and a string on it.
UserWord(t, mem, sp, n) == WordOf(GuestBytes(t, mem, sp + n * WORD, WORD))
UserString(t, mem, top, va, kind, i, len) ==
    va + len < top /\ GuestBytes(t, mem, va, len + 1) = CString(kind, i, len)
Gets(t, mem, sp, top, a, e) ==
    /\ sp % (2 * WORD) = 0 /\ Mapped(t, sp, top - sp)
    /\ UserWord(t, mem, sp, 0) = Len(a)
    /\ \A i \in 0 .. Len(a) - 1 :
         UserString(t, mem, top, UserWord(t, mem, sp, 1 + i), "argv", i, a[i + 1])
    /\ UserWord(t, mem, sp, Len(a) + 1) = NULL
    /\ \A i \in 0 .. Len(e) - 1 :
         UserString(t, mem, top, UserWord(t, mem, sp, Len(a) + 2 + i), "envp", i, e[i + 1])
    /\ UserWord(t, mem, sp, Len(a) + Len(e) + 2) = NULL
    /\ \A i \in DOMAIN AuxIds :
         UserWord(t, mem, sp, Len(a) + Len(e) + 3 + 2 * (i - 1)) = AuxIds[i]
    /\ UserWord(t, mem, sp, Len(a) + Len(e) + 3 + 2 * Len(AuxIds)) = NULL
    /\ UserWord(t, mem, sp, Len(a) + Len(e) + 3 + 2 * Len(AuxIds) + 1) = NULL
GetsInv == at = "user" /\ envp >= StackBottom => Gets(pt, ram, rsp, user_stack.start, args, envs)

LEMMA GetsFollows ==
    ASSUME GetsInv
    PROVE  ProgramGetsArguments
<1> SUFFICES ASSUME at = "user", envp >= StackBottom
             PROVE  LET W(n) == WordAt(rsp + n * WORD)
                        auxv == argc + envc + 3
                    IN  /\ rsp % (2 * WORD) = 0 /\ Mapped(pt, rsp, user_stack.start - rsp)
                        /\ W(0) = argc
                        /\ \A i \in 0 .. argc - 1 : StringAt(W(1 + i), "argv", i, args[i + 1])
                        /\ W(argc + 1) = NULL
                        /\ \A i \in 0 .. envc - 1 :
                              StringAt(W(argc + 2 + i), "envp", i, envs[i + 1])
                        /\ W(argc + envc + 2) = NULL
                        /\ \A i \in DOMAIN AuxIds : W(auxv + 2 * (i - 1)) = AuxIds[i]
                        /\ W(auxv + 2 * Len(AuxIds)) = NULL
                        /\ W(auxv + 2 * Len(AuxIds) + 1) = NULL
  BY Zenon DEF ProgramGetsArguments
<1>1. Gets(pt, ram, rsp, user_stack.start, args, envs)
  BY DEF GetsInv
<1>2. ASSUME NEW n PROVE WordAt(rsp + n * WORD) = UserWord(pt, ram, rsp, n)
  BY WordAtIs DEF UserWord
<1>3. ASSUME NEW va, NEW kind, NEW i, NEW len
      PROVE  StringAt(va, kind, i, len) <=> UserString(pt, ram, user_stack.start, va, kind, i, len)
  BY Zenon DEF StringAt, UserString
<1> QED BY <1>1, <1>2, <1>3, Zenon DEF Gets, argc, envc

LEMMA StringsThere ==
    ASSUME NEW t, NEW mem, NEW lo \in Int, NEW top \in Int, NEW a \in Seq(Nat), NEW bot \in Int,
           bot <= top, NEW g, Strung(g, a, bot), lo <= g[0], NEW kind,
           Strings(Seen(t, mem, lo, top), g, 0, kind, a), NEW i \in 0 .. Len(a) - 1
    PROVE  UserString(t, mem, top, g[i], kind, i, a[i + 1])
<1>1. /\ Len(a) \in Nat /\ g[0] \in Int
      /\ \A j \in 0 .. Len(a) : g[j] \in Int /\ g[0] <= g[j] /\ g[j] <= bot
      /\ \A j \in 0 .. Len(a) - 1 : /\ a[j + 1] \in Nat
                                    /\ g[j + 1] \in Int /\ g[j + 1] <= bot
                                    /\ g[j] + (a[j + 1] + 1) = g[j + 1]
  BY StrungFacts
<1>2. /\ g[i] \in Int /\ g[0] <= g[i] /\ a[i + 1] \in Nat /\ g[i + 1] \in Int /\ g[i + 1] <= bot
      /\ g[i] + (a[i + 1] + 1) = g[i + 1]
  <2>1. i \in 0 .. Len(a)
    BY <1>1
  <2> QED BY ONLY <1>1, <2>1, i \in 0 .. Len(a) - 1
<1>3. PICK x \in Int, y \in Int, z \in Int, len \in Nat :
          x = g[i] /\ y = g[i + 1] /\ z = g[0] /\ len = a[i + 1]
  BY ONLY <1>1, <1>2
<1>4. x + (len + 1) = y /\ y <= bot /\ z <= x /\ lo <= z
  BY <1>2, <1>3
<1>5. x + len < top /\ lo <= x /\ x + (len + 1) <= top
  BY ONLY <1>4, bot <= top, x \in Int, y \in Int, z \in Int, len \in Nat, lo \in Int, top \in Int,
          bot \in Int
<1>6. PICK s : s = CString(kind, i, len)
  OBVIOUS
<1>7. IsBuffer(s, len + 1)
  BY <1>6, StringBuffer
<1>8. In(Seen(t, mem, lo, top), x, s)
  BY <1>3, <1>6 DEF Strings
<1>9. GuestBytes(t, mem, x, len + 1) = s
  BY <1>5, <1>7, <1>8, BytesThere
<1> QED BY <1>3, <1>5, <1>6, <1>9 DEF UserString

LEMMA EnteredWords ==
    ASSUME NEW t, NEW mem, NEW lo \in Int, NEW top \in Int, NEW u, Entered(t, mem, lo, top, u),
           u.envp[0] <= top, u.envp[0] \in Int, NEW n \in 0 .. WordCount - 1
    PROVE  UserWord(t, mem, u.sp, n) = UserWords(u)[n + 1]
<1>1. /\ WordCount \in Nat /\ u.sp \in Int /\ u.sp + WordCount * WORD <= u.envp[0] /\ lo <= u.sp
      /\ IsBuffer(UserWords(u), WordCount)
      /\ In(Seen(t, mem, lo, top), u.sp, WordBytes(UserWords(u)))
  BY DEF Entered
<1>2. PICK w : w = UserWords(u)
  OBVIOUS
<1>3. PICK c \in Nat, s \in Int : c = WordCount /\ s = u.sp
  BY <1>1
<1>4. PICK x \in Int : x = c * WORD
  BY BootTypes
<1>5. s + c * WORD <= top
  <2>1. PICK y \in Int : y = u.envp[0] /\ y <= top /\ s + x <= y
    BY <1>1, <1>3, <1>4
  <2>2. s + x <= top
    BY ONLY <2>1, s \in Int, x \in Int, y \in Int, top \in Int
  <2> QED BY <1>4, <2>2
<1>6. n \in 0 .. c - 1 /\ IsBuffer(w, c) /\ lo <= s /\ In(Seen(t, mem, lo, top), s, WordBytes(w))
  BY <1>1, <1>2, <1>3
<1>7. WordOf(GuestBytes(t, mem, s + n * WORD, WORD)) = w[n + 1]
  BY <1>5, <1>6, ArrayRead
<1> QED BY <1>2, <1>3, <1>7 DEF UserWord

LEMMA EnteredGets ==
    ASSUME NEW t, NEW mem, NEW lo \in Int, NEW top \in Int, NEW u, Entered(t, mem, lo, top, u),
           args \in Seq(Nat), envs \in Seq(Nat)
    PROVE  Gets(t, mem, u.sp, top, args, envs)
<1>1. /\ Owned(t, lo, top) /\ u.sp \in Int /\ lo <= u.sp /\ u.sp + WordCount * WORD <= u.envp[0]
      /\ u.sp % (2 * WORD) = 0
      /\ Strung(u.argv, args, top) /\ Strung(u.envp, envs, u.argv[0])
      /\ Strings(Seen(t, mem, lo, top), u.argv, 0, "argv", args)
      /\ Strings(Seen(t, mem, lo, top), u.envp, 0, "envp", envs)
      /\ UserWordsAre(UserWords(u), u) /\ WordCount \in Nat
  BY DEF Entered
<1>2. PICK v, e : v = u.argv[0] /\ e = u.envp[0]
  OBVIOUS
<1>3. v \in Int /\ v <= top
  <2>1. Strung(u.argv, args, top)
    BY <1>1
  <2> QED BY ONLY <1>2, <2>1, args \in Seq(Nat), top \in Int, StrungFacts
<1>4. e \in Int /\ e <= v
  <2>1. Strung(u.envp, envs, v)
    BY <1>1, <1>2
  <2> QED BY ONLY <1>2, <1>3, <2>1, envs \in Seq(Nat), StrungFacts
<1>5. PICK x \in Nat, s \in Int : x = WordCount * WORD /\ s = u.sp
  <2>1. WORD \in Nat
    BY BootTypes
  <2>2. PICK c \in Nat, d \in Nat : c = WordCount /\ d = WORD
    BY <1>1, <2>1
  <2>3. PICK y \in Nat : y = c * d
    BY ONLY c \in Nat, d \in Nat
  <2> QED BY <1>1, <2>2, <2>3
<1>6. e <= top /\ lo <= e /\ lo <= v
  <2>1. s + x <= e /\ lo <= s
    BY <1>1, <1>2, <1>5
  <2> QED BY ONLY <1>3, <1>4, <2>1, e \in Int, v \in Int, s \in Int, x \in Nat, lo \in Int,
                  top \in Int
<1>7. PICK w : w = UserWords(u)
  OBVIOUS
<1>8. ASSUME NEW n \in 0 .. WordCount - 1 PROVE UserWord(t, mem, s, n) = w[n + 1]
  <2>1. u.envp[0] <= top /\ u.envp[0] \in Int
    BY <1>2, <1>4, <1>6
  <2>2. UserWord(t, mem, u.sp, n) = UserWords(u)[n + 1]
    BY <2>1, EnteredWords
  <2> QED BY <1>5, <1>7, <2>2
<1>9. PICK a \in Nat, b \in Nat :
          a = argc /\ b = envc /\ a = Len(args) /\ b = Len(envs) /\ WordCount = (a + b + 3) + 18
  BY DEF argc, envc, WordCount
<1>10. /\ w[1] = a
       /\ \A i \in 0 .. a - 1 : w[1 + (i + 1)] = u.argv[i]
       /\ w[a + 2] = NULL
       /\ \A i \in 0 .. b - 1 : w[(a + 2) + (i + 1)] = u.envp[i]
       /\ w[(a + 2) + b + 1] = NULL
       /\ \A i \in 1 .. 8 : w[((a + 2) + b + 1) + (2 * i - 1)] = AuxIds[i]
       /\ w[((a + 2) + b + 1) + 17] = NULL /\ w[((a + 2) + b + 1) + 18] = NULL
  BY <1>1, <1>7, <1>9, Zenon DEF UserWordsAre
<1>11. UserWord(t, mem, s, 0) = a
  <2>1. 0 \in 0 .. WordCount - 1 /\ 0 + 1 = 1
    BY ONLY <1>9, a \in Nat, b \in Nat
  <2> QED BY <1>8, <1>10, <2>1
<1>12. ASSUME NEW i \in 0 .. a - 1
       PROVE  UserString(t, mem, top, UserWord(t, mem, s, 1 + i), "argv", i, args[i + 1])
  <2>1. PICK n \in 0 .. WordCount - 1 : n = 1 + i /\ n + 1 = 1 + (i + 1)
    BY ONLY <1>9, i \in 0 .. a - 1, a \in Nat, b \in Nat
  <2>2. UserWord(t, mem, s, 1 + i) = u.argv[i]
    <3>1. UserWord(t, mem, s, n) = w[n + 1]
      BY <1>8
    <3>2. w[1 + (i + 1)] = u.argv[i]
      BY ONLY <1>10, i \in 0 .. a - 1
    <3>3. w[n + 1] = u.argv[i]
      BY ONLY <2>1, <3>2, Zenon
    <3> QED BY ONLY <2>1, <3>1, <3>3, Zenon
  <2>3. i \in 0 .. Len(args) - 1 /\ top <= top /\ lo <= u.argv[0]
    BY <1>2, <1>6, <1>9
  <2>4. UserString(t, mem, top, u.argv[i], "argv", i, args[i + 1])
    BY ONLY <1>1, <2>3, lo \in Int, top \in Int, args \in Seq(Nat), StringsThere
  <2> QED BY <2>2, <2>4
<1>13. UserWord(t, mem, s, a + 1) = NULL
  <2>1. PICK n \in 0 .. WordCount - 1 : n = a + 1 /\ n + 1 = a + 2
    BY ONLY <1>9, a \in Nat, b \in Nat
  <2> QED BY <1>8, <1>10, <2>1
<1>14. ASSUME NEW i \in 0 .. b - 1
       PROVE  UserString(t, mem, top, UserWord(t, mem, s, a + 2 + i), "envp", i, envs[i + 1])
  <2>1. PICK n \in 0 .. WordCount - 1 : n = a + 2 + i /\ n + 1 = (a + 2) + (i + 1)
    BY ONLY <1>9, i \in 0 .. b - 1, a \in Nat, b \in Nat
  <2>2. UserWord(t, mem, s, a + 2 + i) = u.envp[i]
    <3>1. UserWord(t, mem, s, n) = w[n + 1]
      BY <1>8
    <3>2. w[(a + 2) + (i + 1)] = u.envp[i]
      BY ONLY <1>10, i \in 0 .. b - 1
    <3>3. w[n + 1] = u.envp[i]
      BY ONLY <2>1, <3>2, Zenon
    <3> QED BY ONLY <2>1, <3>1, <3>3, Zenon
  <2>3. i \in 0 .. Len(envs) - 1 /\ u.argv[0] \in Int /\ u.argv[0] <= top /\ lo <= u.envp[0]
    BY <1>2, <1>3, <1>6, <1>9
  <2>4. UserString(t, mem, top, u.envp[i], "envp", i, envs[i + 1])
    BY ONLY <1>1, <2>3, lo \in Int, top \in Int, envs \in Seq(Nat), StringsThere
  <2> QED BY <2>2, <2>4
<1>15. UserWord(t, mem, s, a + b + 2) = NULL
  <2>1. PICK n \in 0 .. WordCount - 1 : n = a + b + 2 /\ n + 1 = (a + 2) + b + 1
    BY ONLY <1>9, a \in Nat, b \in Nat
  <2> QED BY <1>8, <1>10, <2>1
<1>16. DOMAIN AuxIds = 1 .. 8 /\ Len(AuxIds) = 8
  BY DEF AuxIds
<1>17. ASSUME NEW i \in DOMAIN AuxIds
       PROVE  UserWord(t, mem, s, a + b + 3 + 2 * (i - 1)) = AuxIds[i]
  <2>1. i \in 1 .. 8
    BY <1>16
  <2>2. PICK h \in 0 .. 14 : h = 2 * (i - 1) /\ h + 1 = 2 * i - 1
    BY ONLY <2>1
  <2>3. PICK n \in 0 .. WordCount - 1 : n = a + b + 3 + h /\ n + 1 = ((a + 2) + b + 1) + (h + 1)
    BY ONLY <1>9, h \in 0 .. 14, a \in Nat, b \in Nat
  <2>4. w[((a + 2) + b + 1) + (2 * i - 1)] = AuxIds[i]
    BY ONLY <1>10, <2>1
  <2>5. UserWord(t, mem, s, n) = w[n + 1]
    BY <1>8
  <2>6. w[n + 1] = AuxIds[i]
    BY ONLY <2>2, <2>3, <2>4, Zenon
  <2>7. UserWord(t, mem, s, a + b + 3 + 2 * (i - 1)) = UserWord(t, mem, s, n)
    BY ONLY <2>2, <2>3, Zenon
  <2> QED BY ONLY <2>5, <2>6, <2>7, Zenon
<1>18. /\ UserWord(t, mem, s, a + b + 3 + 2 * Len(AuxIds)) = NULL
       /\ UserWord(t, mem, s, a + b + 3 + 2 * Len(AuxIds) + 1) = NULL
  <2>1. PICK n \in 0 .. WordCount - 1, m \in 0 .. WordCount - 1 :
            /\ n = a + b + 3 + 2 * Len(AuxIds) /\ n + 1 = ((a + 2) + b + 1) + 17
            /\ m = a + b + 3 + 2 * Len(AuxIds) + 1 /\ m + 1 = ((a + 2) + b + 1) + 18
    BY ONLY <1>9, <1>16, a \in Nat, b \in Nat
  <2> QED BY <1>8, <1>10, <2>1
<1>19. Mapped(t, s, top - s)
  <2> SUFFICES ASSUME NEW i \in 0 .. (top - s) - 1 PROVE IsVpagePresent(t, s + i)
    BY DEF Mapped
  <2>1. lo <= s
    BY <1>1, <1>5
  <2>2. PICK y \in lo .. top - 1 : y = s + i
    BY ONLY <2>1, lo \in Int, top \in Int, s \in Int, i \in 0 .. (top - s) - 1
  <2>3. BOOT_FRAMES <= t[PageOf(y)]
    BY <1>1 DEF Owned
  <2>4. BOOT_FRAMES > 1 /\ BOOT_FRAMES \in Nat
    BY BootTypes
  <2>5. t[PageOf(y)] # NoFrame
    BY <2>3, <2>4 DEF NoFrame
  <2> QED BY <2>2, <2>5 DEF IsVpagePresent
<1>20. s % (2 * WORD) = 0
  BY <1>1, <1>5
<1>21. Gets(t, mem, s, top, args, envs)
  BY <1>9, <1>11, <1>12, <1>13, <1>14, <1>15, <1>17, <1>18, <1>19, <1>20, Zenon DEF Gets
<1> QED BY <1>5, <1>21

LEMMA LoadUserLandGets ==
    ASSUME KernelFits, AuxFits, BootInv, ArgInv, LoadUserLand
    PROVE  GetsInv'
<1>1. PICK q \in Int : MapInv(q) /\ PlaceInv(q)
  BY DEF BootInv
<1>2. UNCHANGED <<args, envs, image, envp>>
  BY LoadUserLandMaps
<1> SUFFICES ASSUME envp >= StackBottom
             PROVE  Gets(pt', ram', rsp', user_stack'.start, args, envs)
  BY <1>2 DEF GetsInv, StackBottom
<1>3. PICK u : u = UserLayout
  OBVIOUS
<1>4. PICK lo, top \in Int : user_stack'.start = top /\ Entered(pt', ram', lo, top, u)
  BY <1>1, <1>3, ProgramEnteredWith
<1>5. args \in Seq(Nat) /\ envs \in Seq(Nat)
  BY <1>1, ArgTypes
<1>6. rsp' = u.sp
  BY <1>3, LoadUserLandEnters
<1>7. PICK t, mem : t = pt' /\ mem = ram'
  OBVIOUS
<1>8. Gets(t, mem, u.sp, top, args, envs)
  BY <1>4, <1>5, <1>7, EnteredGets
<1> QED BY <1>4, <1>6, <1>7, <1>8

LEMMA GetsStep ==
    ASSUME KernelFits, AuxFits, BootInv, ArgInv, GetsInv, [Next]_vars
    PROVE  GetsInv'
<1>1. CASE LoadUserLand
  BY <1>1, LoadUserLandGets
<1>2. CASE UNCHANGED vars
  <2>1. UNCHANGED <<at, pt, ram, rsp, user_stack, args, envs, image, envp>>
    BY <1>2 DEF vars, input, host, kernel, memory
  <2> QED BY <2>1 DEF GetsInv, StackBottom
<1>3. CASE Next /\ ~LoadUserLand
  <2>1. at' # "user"
    <3>1. CASE LoadSegment \/ SkipSegment \/ MapKernelStack \/ ArgvDone \/ PutArrays \/ SetupTss
      BY <3>1 DEF LoadSegment, SkipSegment, MapKernelStack, ArgvDone, PutArrays, SetupTss
    <3>2. CASE PutArg \/ PutEnv
      <4>1. at' = at \/ at' = "exit"
        BY <3>2, Zenon DEF PutArg, PutEnv, Exit
      <4>2. at # "user"
        BY <3>2 DEF PutArg, PutEnv
      <4> QED BY <4>1, <4>2
    <3>3. CASE MapGdt \/ GdtInit \/ UnmapBootstrap \/ VmaInit \/ ReserveVersions
               \/ UserStackInit \/ KernelFaults
      BY <3>3 DEF MapGdt, GdtInit, UnmapBootstrap, VmaInit, ReserveVersions, UserStackInit,
                  KernelFaults
    <3>4. CASE CallKernelMain \/ AllocateArrays
      BY <3>4 DEF CallKernelMain, AllocateArrays, CallsUse
    <3> QED BY <1>3, <3>1, <3>2, <3>3, <3>4 DEF Next
  <2> QED BY <2>1 DEF GetsInv
<1> QED BY <1>1, <1>2, <1>3

\* The program gets exactly the arguments the machine was started with, at an
\* aligned stack pointer inside its own stack: the strings, whatever their
\* number and lengths, survive the way over the kernel's stack and the copy to
\* the user's as two blocks (run, load_user_land).
THEOREM ArgumentsReachProgram ==
    ASSUME KernelFits, ArgumentsBounded, AuxFits
    PROVE  Spec => []ProgramGetsArguments
<1> DEFINE Inv == BootInv /\ LowInv /\ ImageInv /\ StackInv /\ ArgInv /\ GetsInv
<1>1. Init => Inv
  <2>1. Init => GetsInv
    BY DEF Init, GetsInv
  <2> QED BY <2>1, BootInit, LowInit, ImageInit, ArgInit
<1>2. Inv /\ [Next]_vars => Inv'
  BY BootStep, LowStep, ImageStep, ArgStep, GetsStep
<1>3. Inv => ProgramGetsArguments
  BY GetsFollows
<1> QED BY <1>1, <1>2, <1>3, PTL DEF Spec
=============================================================================
