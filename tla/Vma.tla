-------------------------------- MODULE Vma --------------------------------
(***************************************************************************)
(* The guest kernel's virtual memory areas: kernel/c/vma.c, mmap.c, the    *)
(* brk system call of syscall.c, grow_stack of stack.c and the user page   *)
(* fault of page_fault.c.  One action is one system call or one fault; the *)
(* single vCPU runs each to completion with interrupts off.                *)
(*                                                                         *)
(* An area (vm_area_t) is a record; the ordered list and the red-black     *)
(* tree that hold the areas are the set `areas` here (VmaTree models the   *)
(* two structures themselves).  The address an area starts at names it, so *)
(* a pointer to an area is that address.                                   *)
(***************************************************************************)
EXTENDS Integers, FiniteSets

CONSTANTS
    PAGE_SIZE,             \* bytes in a page
    WORD,                  \* number of values of a uint64_t
    ENOMEM, EINVAL,        \* error numbers
    kernel_min_address,    \* first address the guest kernel keeps for itself
    user_stack_start,      \* end of the stack area
    user_stack_page_limit, \* most pages the stack may have
    user_heap_start,       \* end of the program image, where brk starts
    MaxFd,                 \* BOUND: descriptors 0..MaxFd of the host process
    MmapCalls,             \* the argument records the program passes to mmap
    MunmapCalls,           \* the <<addr, length>> pairs it passes to munmap
    BrkCalls,              \* the arguments it passes to brk
    Touched,               \* the addresses it touches
    FileOf(_),             \* (dev, inode) of a descriptor of the program
    BootAreas, BootFds,    \* areas and descriptors the loader leaves behind
    BootHost,              \* host side state at that moment
    KernelMapVma(_, _),    \* host calls: see HostPaging
    KernelUnmapVma(_, _),
    Present(_, _, _),      \* does the page table hold an entry for an address
    HostBound(_)           \* BOUND: keeps the host's page counter finite

VARIABLES
    areas,    \* the linked areas
    highest,  \* vma_highest_addr
    brk,      \* curr_brk
    heap,     \* user_heap_vma
    fds,      \* descriptors open in the host process
    host,     \* page table and frames, owned by the host calls
    status    \* "run", or why the model of this machine ends here

vars == <<areas, highest, brk, heap, fds, host, status>>

Addr == 0 .. WORD - 1
Fds == 0 .. MaxFd

\* vm_file_t {-1, -1, -1} of an anonymous area.
NoFd == -1
NoFile == -1

\* user_heap_vma before the first brk, and after its node went to vma_free.
NULL == WORD
DANGLING == WORD + 1

(***************************************************************************)
(* 64-bit arithmetic and pages.                                            *)
(***************************************************************************)
Add(a, b) == IF a + b < WORD THEN a + b ELSE a + b - WORD
Sub(a, b) == IF b <= a THEN a - b ELSE WORD + a - b
Neg(e) == WORD - e
PAGE_ALIGN_DOWN(a) == a - (a % PAGE_SIZE)
PAGE_ALIGN(a) == LET up == PAGE_ALIGN_DOWN(a + PAGE_SIZE - 1)
                 IN  IF up < WORD THEN up ELSE up - WORD
PAGE_DIFFERENCE(a, b) == Sub(a, b) \div PAGE_SIZE
Aligned(a) == a % PAGE_SIZE = 0

user_stack_min == user_stack_start - user_stack_page_limit * PAGE_SIZE

(***************************************************************************)
(* What every operation below works on: the variables but brk.             *)
(***************************************************************************)
Mm == [areas |-> areas, highest |-> highest, heap |-> heap,
       fds |-> fds, host |-> host, status |-> status]

(***************************************************************************)
(* Searching the areas (vma_find, the links of the list, vma_find_links).  *)
(***************************************************************************)
Lowest(S) == CHOOSE r \in S : \A q \in S : r.start <= q.start
Highest(S) == CHOOSE r \in S : \A q \in S : q.start <= r.start

\* vma_find returns the lowest area ending above a, NULL if there is none.
EndingAbove(S, a) == {r \in S : r.end > a}
VmaFind(S, a) == Lowest(EndingAbove(S, a))

\* prev and next of the place [a, e): neighbours in the list.
Before(S, a) == {r \in S : r.end <= a}
After(S, e) == {r \in S : r.start >= e}

\* vma_find_links fails: an existing area overlaps [a, e).
Overlapped(S, a, e) == \E r \in S : r.end > a /\ r.start < e

(***************************************************************************)
(* Host calls on a linked area, and linking (vma_link_rb, vma_link).       *)
(***************************************************************************)
MapVma(m, r) ==
    LET done == KernelMapVma(m.host, r)
    IN  [m EXCEPT !.host = done.host,
                  !.areas = (@ \ {r}) \cup {[r EXCEPT !.hv = done.hv]}]

\* Mutant of LinkedHighest: vma_highest_addr follows the first area only.
MutLinkedHighest(m, r) == IF m.areas # {} THEN m.highest ELSE r.end

LinkedHighest(m, r) == IF After(m.areas, r.end) # {} THEN m.highest ELSE r.end

VmaLink(m, r) ==
    MapVma([m EXCEPT !.areas = @ \cup {r}, !.highest = LinkedHighest(m, r)], r)

\* kernel_dup: the lowest free descriptor; dup(-1) fails and stays -1.
Dup(open, fd) == IF fd = NoFd THEN NoFd
                 ELSE CHOOSE d \in Fds \ open : \A c \in Fds \ open : d <= c

\* Mutant of VmaSplit: both halves keep the same descriptor.
MutSplitSharesFd(m, r, a, below) ==
    LET lo == [r EXCEPT !.end = a]
        hi == [r EXCEPT !.start = a, !.off = @ + PAGE_ALIGN_DOWN(a - r.start)]
        old == IF below THEN hi ELSE lo
        new == IF below THEN lo ELSE hi
        kept == [m EXCEPT !.areas = (@ \ {r}) \cup {old},
                          !.heap = IF @ = r.start THEN old.start ELSE @]
    IN  MapVma(VmaLink(kept, new), old)

\* Mutant of VmaSplit: the upper half keeps the file offset of the lower one.
MutSplitKeepsOffset(m, r, a, below) ==
    LET fd == Dup(m.fds, r.fd)
        lo == [r EXCEPT !.end = a]
        hi == [r EXCEPT !.start = a]
        old == IF below THEN hi ELSE lo
        new == [(IF below THEN lo ELSE hi) EXCEPT !.fd = fd]
        kept == [m EXCEPT !.areas = (@ \ {r}) \cup {old},
                          !.fds = @ \cup ({fd} \ {NoFd}),
                          !.heap = IF @ = r.start THEN old.start ELSE @]
    IN  MapVma(VmaLink(kept, new), old)

\* Mutant of VmaSplit: the area that was split is not mapped again.
MutSplitNoRemap(m, r, a, below) ==
    LET fd == Dup(m.fds, r.fd)
        lo == [r EXCEPT !.end = a]
        hi == [r EXCEPT !.start = a, !.off = @ + PAGE_ALIGN_DOWN(a - r.start)]
        old == IF below THEN hi ELSE lo
        new == [(IF below THEN lo ELSE hi) EXCEPT !.fd = fd]
        kept == [m EXCEPT !.areas = (@ \ {r}) \cup {old},
                          !.fds = @ \cup ({fd} \ {NoFd}),
                          !.heap = IF @ = r.start THEN old.start ELSE @]
    IN  VmaLink(kept, new)

(***************************************************************************)
(* vma_split: r keeps the upper part if `below`, else the lower one; the   *)
(* new area is linked and mapped first, r is remapped after it.            *)
(***************************************************************************)
VmaSplit(m, r, a, below) ==
    LET fd == Dup(m.fds, r.fd)
        lo == [r EXCEPT !.end = a]
        hi == [r EXCEPT !.start = a, !.off = @ + PAGE_ALIGN_DOWN(a - r.start)]
        old == IF below THEN hi ELSE lo
        new == [(IF below THEN lo ELSE hi) EXCEPT !.fd = fd]
        kept == [m EXCEPT
                   !.areas = (@ \ {r}) \cup {old},
                   !.fds = @ \cup ({fd} \ {NoFd}),
                   !.heap = IF @ = r.start THEN old.start ELSE @]
    IN  MapVma(VmaLink(kept, new), old)

\* Mutant of VmaRemove: kernel_unmap_vma is not called.
MutRemoveNoUnmap(m, gone) ==
    [m EXCEPT !.fds = @ \ {r.fd : r \in gone},
              !.heap = IF \E r \in gone : r.start = @ THEN DANGLING ELSE @]

(***************************************************************************)
(* vma_remove on areas that are out of the list: descriptors are closed,   *)
(* page table entries dropped, nodes freed.                                *)
(***************************************************************************)
VmaRemove(m, gone) ==
    [m EXCEPT !.fds = @ \ {r.fd : r \in gone},
              !.host = KernelUnmapVma(@, gone),
              !.heap = IF \E r \in gone : r.start = @ THEN DANGLING ELSE @]

DetachedHighest(m, left, e) ==
    IF After(left, e) # {} THEN m.highest
    ELSE IF left # {} THEN Highest(left).end ELSE 0

(***************************************************************************)
(* syscall_munmap.                                                         *)
(***************************************************************************)
MunmapInvalid(a, length) ==
    \/ ~Aligned(a)
    \/ a > kernel_min_address
    \/ length > kernel_min_address - a
    \/ length = 0

MunmapRange(m, a, e) ==
    LET first == VmaFind(m.areas, a)
        m1 == IF a > first.start THEN VmaSplit(m, first, a, FALSE) ELSE m
        last == VmaFind(m1.areas, e)
        m2 == IF EndingAbove(m1.areas, e) # {} /\ e > last.start
              THEN VmaSplit(m1, last, e, TRUE) ELSE m1
        gone == {r \in m2.areas : a <= r.start /\ r.start < e}
        left == m2.areas \ gone
    IN  VmaRemove([m2 EXCEPT !.areas = left,
                             !.highest = DetachedHighest(m2, left, e)], gone)

Munmap(m, a, length) ==
    LET e == a + PAGE_ALIGN(length)
    IN  IF Overlapped(m.areas, a, e) THEN MunmapRange(m, a, e) ELSE m

(***************************************************************************)
(* vma_merge.  mmap_region clears the range first, and nothing else merges *)
(* (mprotect is a stub), so of the numbered cases 1, 2 and 3 remain.       *)
(* vma_adjust is what each of them does to its area.                       *)
(***************************************************************************)
CanMerge(r, flags, file) == r.flags = flags /\ r.file = file
PgLen(a, e, fd) == IF fd # NoFd THEN PAGE_DIFFERENCE(e, a) ELSE 0

MergesAfter(p, n) ==   \* can_vma_merge_after(p, ...)
    /\ p.end = n.start
    /\ CanMerge(p, n.flags, n.file)
    /\ p.off + PgLen(p.start, p.end, n.fd) = n.off

MergesBefore(q, n) ==  \* can_vma_merge_before(q, ...)
    /\ q.start = n.end
    /\ CanMerge(q, n.flags, n.file)
    /\ q.off = n.off + PgLen(n.start, n.end, n.fd)

MergeBoth(m, p, q) ==   \* case 1: p swallows q
    LET grown == [p EXCEPT !.end = q.end]
        left == (m.areas \ {p, q}) \cup {grown}
        done == VmaRemove(MapVma([m EXCEPT !.areas = left], grown), {q})
    IN  IF After(m.areas, q.end) # {} THEN done
        ELSE [done EXCEPT !.highest = q.end]

MergeUp(m, p, n) ==     \* case 2: p grows over the new range
    LET grown == [p EXCEPT !.end = n.end]
        left == (m.areas \ {p}) \cup {grown}
        top == IF After(m.areas, n.end) # {} THEN m.highest ELSE n.end
    IN  MapVma([m EXCEPT !.areas = left, !.highest = top], grown)

MergeDown(m, q, n) ==   \* case 3: q grows down over the new range
    LET grown == [q EXCEPT !.start = n.start,
                           !.off = @ - PgLen(n.start, n.end, n.fd)]
    IN  MapVma([m EXCEPT !.areas = (@ \ {q}) \cup {grown},
                         !.heap = IF @ = q.start THEN n.start ELSE @], grown)

\* [m, at]: the state after the merge or the link, and the area's start.
MergeOrLink(m, n) ==
    LET P == {p \in m.areas : MergesAfter(p, n)}
        Q == {q \in m.areas : MergesBefore(q, n)}
        p == CHOOSE r \in P : TRUE
        q == CHOOSE r \in Q : TRUE
    IN  IF P # {} /\ Q # {} THEN [m |-> MergeBoth(m, p, q), at |-> p.start]
        ELSE IF P # {} THEN [m |-> MergeUp(m, p, n), at |-> p.start]
        ELSE IF Q # {} THEN [m |-> MergeDown(m, q, n), at |-> n.start]
        ELSE [m |-> VmaLink(m, n), at |-> n.start]

(***************************************************************************)
(* mmap_region for the new area n, n.end being Add(n.start, length).  When *)
(* the range wraps past the top of the address space an area whose end     *)
(* lies below its start is linked: the tree is no longer ordered, what     *)
(* its searches find depends on its shape, and the model ends there.       *)
(***************************************************************************)
MmapRegion(m, n, length) ==
    LET busy == Overlapped(m.areas, n.start, n.end)
        clear == IF busy THEN Munmap(m, n.start, length) ELSE m
    IN  IF busy /\ MunmapInvalid(n.start, length)
        THEN [m |-> m, at |-> NULL]
        ELSE IF n.end <= n.start
        THEN [m |-> [clear EXCEPT !.areas = @ \cup {n}, !.status = "corrupt"],
              at |-> n.start]
        ELSE MergeOrLink(clear, n)

(***************************************************************************)
(* find_next_gap(0, user_stack_min, length): the highest gap of `length`   *)
(* bytes below the stack's reserve, from vma_highest_addr downwards.       *)
(***************************************************************************)
PrevEnd(S, r) == IF Before(S, r.start) = {} THEN 0
                 ELSE Highest(Before(S, r.start)).end

\* Mutant of FindNextGap: gap_end is not cut off at the high limit.
MutGapNotClipped(m, length) ==
    LET high == user_stack_min - length
        gaps == {r \in m.areas : /\ PrevEnd(m.areas, r) <= high
                                 /\ r.start - PrevEnd(m.areas, r) >= length}
    IN  IF user_stack_min < length THEN Neg(ENOMEM)
        ELSE IF m.highest <= high THEN high
        ELSE IF gaps = {} THEN Neg(ENOMEM)
        ELSE Highest(gaps).start - length

FindNextGap(m, length) ==
    LET high == user_stack_min - length
        gaps == {r \in m.areas : /\ PrevEnd(m.areas, r) <= high
                                 /\ r.start - PrevEnd(m.areas, r) >= length}
        top == Highest(gaps).start
    IN  IF user_stack_min < length THEN Neg(ENOMEM)
        ELSE IF m.highest <= high THEN high
        ELSE IF gaps = {} THEN Neg(ENOMEM)
        ELSE (IF top > user_stack_min THEN user_stack_min ELSE top) - length

(***************************************************************************)
(* get_unmapped_area.  get_unmapped_area_unchecked has no return statement *)
(* for a hint that is taken: its caller reads whatever the comparison left *)
(* in the return register (the kernel is built without optimisation).      *)
(***************************************************************************)
LeftInRax(m, a, length) ==
    IF Sub(kernel_min_address, length) < a
    THEN {Sub(kernel_min_address, length)}
    ELSE {VmaFind(m.areas, a).start, Add(a, length)}

HintIsFree(m, a, length) ==
    /\ Sub(kernel_min_address, length) >= a
    /\ \/ EndingAbove(m.areas, a) = {}
       \/ Add(a, length) <= VmaFind(m.areas, a).start

UnmappedAreaUnchecked(m, addr, length) ==
    LET a == PAGE_ALIGN(addr)
    IN  IF addr = 0 THEN {FindNextGap(m, length)}
        ELSE IF HintIsFree(m, a, length) THEN {a}
        ELSE LeftInRax(m, a, length)

CheckedArea(a, length) ==
    IF a > Sub(kernel_min_address, length) THEN Neg(ENOMEM)
    ELSE IF ~Aligned(a) THEN Neg(EINVAL) ELSE a

GetUnmappedArea(m, addr, length, fixed) ==
    IF fixed THEN {addr}
    ELSE {CheckedArea(a, length) : a \in UnmappedAreaUnchecked(m, addr, length)}

(***************************************************************************)
(* grow_stack: the area's start moves down to the page below PAGE_ALIGN of *)
(* the address.  Nothing looks at the area below; if the two now overlap   *)
(* the order of the areas is gone and the model ends there.                *)
(***************************************************************************)
\* Mutant of GrownStart: a page below the address as it is.
MutGrownStartUnrounded(a) == Sub(a, PAGE_SIZE)

GrownStart(a) == Sub(PAGE_ALIGN(a), PAGE_SIZE)
StackTooDeep(a) ==
    PAGE_DIFFERENCE(user_stack_start, GrownStart(a)) > user_stack_page_limit

GrowStack(m, r, a) ==
    LET grown == [r EXCEPT !.start = GrownStart(a)]
        kept == [m EXCEPT !.areas = (@ \ {r}) \cup {grown},
                          !.heap = IF @ = r.start THEN grown.start ELSE @,
                          !.status = IF Overlapped(m.areas \ {r}, grown.start, r.start)
                                     THEN "corrupt" ELSE @]
    IN  MapVma(kept, grown)

(***************************************************************************)
(* Areas and what is assumed of the constants: an address space of whole   *)
(* pages, its last page not the program's, room for the stack's reserve    *)
(* and the first heap page below the kernel, and arguments of their types. *)
(***************************************************************************)
AreaTypeOK(r) ==
    /\ DOMAIN r = {"start", "end", "prot", "flags", "off", "file", "fd", "hv"}
    /\ r.start \in Addr /\ r.end \in Addr
    /\ r.prot \subseteq {"READ", "WRITE", "EXEC", "VERSIONED"}
    /\ r.flags \subseteq {"GROWS", "SHARED", "ZEROED"}
    /\ r.off \in Int /\ r.file \in Int
    /\ r.fd \in Fds \cup {NoFd}

WellFormed(S) == \A r \in S : r.start < r.end
PairwiseDisjoint(S) ==
    \A r \in S, q \in S : r = q \/ r.end <= q.start \/ q.end <= r.start

\* h is the end of the last area.
TopIs(S, h) ==
    (\A r \in S : r.end <= h) /\ (S # {} => \E r \in S : r.end = h)

ASSUME PageAssumption ==
    /\ PAGE_SIZE \in Nat \ {0} /\ WORD \in Nat
    /\ Aligned(WORD)
    /\ ENOMEM \in 1 .. WORD - 1 /\ EINVAL \in 1 .. WORD - 1
    /\ MaxFd \in Nat

ASSUME LayoutAssumption ==
    /\ kernel_min_address \in Nat /\ kernel_min_address + PAGE_SIZE <= WORD
    /\ user_stack_start \in Nat /\ user_stack_start + PAGE_SIZE < WORD
    /\ user_stack_page_limit \in Nat
    /\ user_stack_page_limit * PAGE_SIZE <= user_stack_start
    /\ user_heap_start \in Nat \ {0} /\ Aligned(user_heap_start)
    /\ user_heap_start + PAGE_SIZE <= kernel_min_address

ASSUME MmapCallsAssumption ==
    \A c \in MmapCalls : /\ c.addr \in Addr /\ c.length \in Addr /\ c.off \in Int
                        /\ c.prot \subseteq {"READ", "WRITE", "EXEC"}
                        /\ c.fd \in Fds \cup {NoFd}

ASSUME CallsAssumption ==
    /\ \A fd \in Fds : FileOf(fd) \in Int
    /\ \A u \in MunmapCalls : u[1] \in Addr /\ u[2] \in Addr
    /\ BrkCalls \subseteq Addr /\ Touched \subseteq Addr

ASSUME BootAssumption ==
    /\ \A r \in BootAreas : AreaTypeOK(r)
    /\ WellFormed(BootAreas) /\ PairwiseDisjoint(BootAreas)
    /\ BootFds \subseteq Fds

\* The program maps descriptors it has open; what the loader mapped holds others.
ASSUME BootFdsAssumption ==
    /\ \A c \in MmapCalls : c.fd # NoFd => c.fd \in BootFds
    /\ \A r \in BootAreas : r.fd # NoFd =>
         /\ r.fd \in BootFds /\ \A c \in MmapCalls : c.fd # r.fd
         /\ \A q \in BootAreas : q.fd = r.fd => q = r

\* The last of them is the stack.
ASSUME BootTopAssumption == TopIs(BootAreas, user_stack_start)

-----------------------------------------------------------------------------
Init ==
    /\ areas = BootAreas
    /\ highest = user_stack_start
    /\ brk = 0
    /\ heap = NULL
    /\ fds = BootFds
    /\ host = BootHost
    /\ status = "run"

Running == status = "run" /\ Cardinality(Fds \ fds) >= 3

Commit(m) ==
    /\ HostBound(m.host)
    /\ areas' = m.areas
    /\ highest' = m.highest
    /\ heap' = m.heap
    /\ fds' = m.fds
    /\ host' = m.host
    /\ status' = m.status

(***************************************************************************)
(* syscall_mmap.  The address get_unmapped_area returns is used as it is,  *)
(* -ENOMEM and -EINVAL included.                                           *)
(***************************************************************************)
MmapInvalid(c) == ~Aligned(c.off) \/ c.length = 0 \/ PAGE_ALIGN(c.length) = 0
MapTypeInvalid(c) ==
    c.type = "bad" \/ (c.fd = NoFd /\ c.type = "shared" /\ c.grows)

\* The area an accepted call asks for, at address a and holding descriptor fd.
NewArea(c, a, fd) ==
    [start |-> a,
     end |-> Add(a, PAGE_ALIGN(c.length)),
     prot |-> c.prot \cup (IF c.anonymous THEN {"VERSIONED"} ELSE {}),
     flags |-> (IF c.grows THEN {"GROWS"} ELSE {})
               \cup (IF c.type = "shared" THEN {"SHARED"} ELSE {}),
     off |-> IF c.fd = NoFd /\ c.type = "shared" THEN 0 ELSE c.off,
     file |-> IF c.fd = NoFd THEN NoFile ELSE FileOf(c.fd),
     fd |-> fd,
     hv |-> [phys |-> -1, start |-> 0, end |-> 0]]

\* The call once get_unmapped_area has answered a: [m, at] as of MmapRegion.
MmapAt(m, c, a) ==
    LET fd == Dup(m.fds, c.fd)
        opened == [m EXCEPT !.fds = @ \cup ({fd} \ {NoFd})]
    IN  IF MapTypeInvalid(c) THEN [m |-> opened, at |-> NULL]
        ELSE MmapRegion(opened, NewArea(c, a, fd), PAGE_ALIGN(c.length))

SysMmap(c) ==
    /\ Running
    /\ ~MmapInvalid(c)
    /\ \E a \in GetUnmappedArea(Mm, c.addr, PAGE_ALIGN(c.length), c.fixed) :
         Commit(MmapAt(Mm, c, a).m)
    /\ UNCHANGED brk

SysMunmap(a, length) ==
    /\ Running
    /\ ~MunmapInvalid(a, length)
    /\ Commit(Munmap(Mm, a, length))
    /\ UNCHANGED brk

(***************************************************************************)
(* syscall_brk.                                                            *)
(***************************************************************************)
HeapVma(m) == CHOOSE r \in m.areas : r.start = m.heap

FirstHeapArea ==
    [start |-> user_heap_start, end |-> user_heap_start + PAGE_SIZE,
     prot |-> {"READ", "WRITE", "VERSIONED"}, flags |-> {"GROWS"},
     off |-> 0, file |-> NoFile, fd |-> NoFd,
     hv |-> [phys |-> -1, start |-> 0, end |-> 0]]

BrkStart ==      \* brk(0) as the first call
    LET r == MmapRegion(Mm, FirstHeapArea, PAGE_SIZE)
    IN  /\ brk = 0
        /\ Commit([r.m EXCEPT !.heap = r.at])
        /\ brk' = user_heap_start

BrkNullHeap(b) ==   \* user_heap_vma is dereferenced before it is set
    /\ brk = 0
    /\ b # 0
    /\ status' = "exit"
    /\ UNCHANGED <<areas, highest, brk, heap, fds, host>>

\* Mutant of BrkFits: the area above the heap is not looked at.
MutBrkIgnoresNext(r, new) == new > r.start

\* Whether brk may move the end of the heap area r to `new`.
BrkFits(r, new) ==
    /\ new > r.start
    /\ \A q \in areas : q.start > r.start => new <= q.start

\* Mutant of BrkGrow: curr_brk keeps its old value.
MutBrkNotRecorded(b) ==
    LET r == HeapVma(Mm)
        grown == [r EXCEPT !.end = PAGE_ALIGN(b)]
    IN  /\ brk # 0 /\ b >= brk
        /\ heap # DANGLING
        /\ BrkFits(r, PAGE_ALIGN(b))
        /\ Commit(MapVma([Mm EXCEPT !.areas = (@ \ {r}) \cup {grown}], grown))
        /\ brk' = brk

BrkGrow(b) ==
    LET r == HeapVma(Mm)
        grown == [r EXCEPT !.end = PAGE_ALIGN(b)]
    IN  /\ brk # 0 /\ b >= brk
        /\ heap # DANGLING
        /\ BrkFits(r, PAGE_ALIGN(b))
        /\ Commit(MapVma([Mm EXCEPT !.areas = (@ \ {r}) \cup {grown}], grown))
        /\ brk' = PAGE_ALIGN(b)

BrkDangling(b) ==   \* user_heap_vma points to a freed node
    /\ brk # 0 /\ b >= brk
    /\ heap = DANGLING
    /\ status' = "wild"
    /\ UNCHANGED <<areas, highest, brk, heap, fds, host>>

SysBrk(b) ==
    /\ Running
    /\ \/ b = 0 /\ BrkStart
       \/ BrkNullHeap(b)
       \/ BrkGrow(b)
       \/ BrkDangling(b)

(***************************************************************************)
(* A user access to an address without a page table entry.                 *)
(***************************************************************************)
FaultIsFatal(a) ==
    \/ EndingAbove(areas, a) = {}
    \/ VmaFind(areas, a).start <= a       \* VERIFY(grown || !PREFAULTED)
    \/ "GROWS" \notin VmaFind(areas, a).flags
    \/ StackTooDeep(a)

UserPageFault(a) ==
    /\ Running
    /\ ~Present(host, areas, a)
    /\ \/ /\ FaultIsFatal(a)
          /\ status' = "exit"
          /\ UNCHANGED <<areas, highest, heap, fds, host>>
       \/ /\ ~FaultIsFatal(a)
          /\ Commit(GrowStack(Mm, VmaFind(areas, a), a))
    /\ UNCHANGED brk

Next ==
    \/ \E c \in MmapCalls : SysMmap(c)
    \/ \E u \in MunmapCalls : SysMunmap(u[1], u[2])
    \/ \E b \in BrkCalls : SysBrk(b)
    \/ \E a \in Touched : UserPageFault(a)

Spec == Init /\ [][Next]_vars
-----------------------------------------------------------------------------
(***************************************************************************)
(* Properties.                                                             *)
(***************************************************************************)
\* The type of every variable of the guest; host is HostPaging's.
TypeOK ==
    /\ \A r \in areas : AreaTypeOK(r)
    /\ highest \in Addr
    /\ brk \in Addr
    /\ heap \in Addr \cup {NULL, DANGLING}
    /\ fds \subseteq Fds
    /\ status \in {"run", "exit", "corrupt", "wild"}

\* While the machine runs the areas are non-empty ranges that do not overlap:
\* splitting, merging, moving the break and growing the stack keep what
\* vma_find_links checks for a new area only.
Disjoint == status = "run" => WellFormed(areas) /\ PairwiseDisjoint(areas)

\* The break and the heap area move together: what lies between the two is at
\* most the page the first brk maps ahead, so a later brk never moves the end
\* of the area back over pages in use (syscall_brk takes no area apart).  This
\* holds as long as nothing merges with the heap area, that is for programs
\* that ask for no MAP_GROWSDOWN mapping next to it.
HeapEndsAtBreak ==
    status = "run" /\ heap \in Addr =>
        LET r == HeapVma(Mm)
        IN  \/ r.end <= brk
            \/ r.start = user_heap_start /\ r.end = user_heap_start + PAGE_SIZE

\* vma_highest_addr, which find_next_gap starts from, is the end of the last
\* area, whatever was linked, merged, split or taken out since (vma_link,
\* vma_adjust, detach_vmas).  syscall_brk moves the end of the heap area and
\* leaves vma_highest_addr alone: true as long as an area lies above the heap.
HighestIsTop == status = "run" => TopIs(areas, highest)

\* The program keeps its stack, or something else, mapped above the heap.
AreaAboveHeap == status = "run" /\ heap \in Addr => \E q \in areas : q.start > heap

\* Every file mapping keeps a descriptor of its own open, whatever was split
\* off it or unmapped next to it (kernel_dup in vma_split and syscall_mmap,
\* kernel_close in vma_remove): no later remap of the area reads another file.
OwnDescriptor ==
    \A r \in areas : r.fd # NoFd =>
        /\ r.fd \in fds /\ \A c \in MmapCalls : c.fd # r.fd
        /\ \A q \in areas : q.fd = r.fd => q = r
=============================================================================
