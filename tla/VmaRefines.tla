----------------------------- MODULE VmaRefines -----------------------------
(***************************************************************************)
(* The refinement mapping from areas to pages, and the promise of each     *)
(* mmap call in terms of pages.                                            *)
(***************************************************************************)
EXTENDS Vma

Page(a) == a \div PAGE_SIZE
Pages == 0 .. Page(WORD) - 1

NoBacking == [file |-> -2, flags |-> {}, off |-> 0]

\* What backs a page: the flags and the file position; anonymous memory has
\* no position.
Backing(file, flags, off) ==
    [file |-> file, flags |-> flags, off |-> IF file = NoFile THEN 0 ELSE off]

Covering(S, a) == {r \in S : r.start <= a /\ a < r.end}

SpaceOf(S) ==
    [p \in Pages |->
        LET C == Covering(S, p * PAGE_SIZE)
            r == CHOOSE q \in C : TRUE
        IN  IF C = {} THEN NoBacking
            ELSE Backing(r.file, r.flags, r.off + p * PAGE_SIZE - r.start)]

HeapEnd == IF heap \in Addr THEN Page(HeapVma(Mm).end) ELSE Page(WORD)

PagesOf(c) == Page(PAGE_ALIGN(c.length))

NewBacking(c, k) ==
    LET n == NewArea(c, 0, 0) IN Backing(n.file, n.flags, n.off + k * PAGE_SIZE)

\* Free ranges for c that end at or below a limit.
FreePlaces(c, sp, limit) ==
    {p \in Pages : /\ p + PagesOf(c) <= limit
                   /\ \A k \in p .. p + PagesOf(c) - 1 : sp[k] = NoBacking}

\* MAP_FIXED: the address.  No hint: the highest free range below the stack's
\* reserve.  A hint: the hinted range if it is free, any page below the kernel
\* otherwise: get_unmapped_area_unchecked then returns what is left in rax.
Places(c, sp) ==
    LET gaps == FreePlaces(c, sp, Page(user_stack_min))
        hinted == Page(PAGE_ALIGN(c.addr))
    IN  IF c.fixed THEN {Page(c.addr)}
        ELSE IF c.addr = 0
        THEN {p \in gaps : \A q \in gaps : q <= p}
        ELSE IF hinted \in FreePlaces(c, sp, Page(kernel_min_address))
        THEN {hinted}
        ELSE {p \in Pages : p + PagesOf(c) <= Page(kernel_min_address)}

GrowsDown(b) == "GROWS" \in b.flags
MunmapPages == {<<Page(u[1]), Page(u[1] + PAGE_ALIGN(u[2]))>> : u \in MunmapCalls}
BrkPages == {Page(PAGE_ALIGN(b)) : b \in BrkCalls}

Abstract == INSTANCE AddrSpace WITH
    space <- SpaceOf(areas), heapEnd <- HeapEnd, up <- status = "run",
    Unmapped <- NoBacking, LengthOf <- PagesOf, Grows <- GrowsDown,
    HeapStart <- Page(user_heap_start),
    HeapBacking <- Backing(NoFile, {"GROWS"}, 0),
    StackMin <- Page(user_stack_min)

\* An area of whole pages; a file mapping has a file, starts on a page of it and
\* is short, see OrdinaryCalls; what grows down is anonymous.
Plain(r) ==
    /\ Aligned(r.start) /\ Aligned(r.end)
    /\ \/ r.file = NoFile
       \/ /\ r.file \in Nat /\ Aligned(r.off)
          /\ r.end - r.start < PAGE_SIZE * PAGE_SIZE
    /\ "GROWS" \in r.flags => r.file = NoFile

\* Calls the promise is made for.  syscall_mmap does not look at the alignment
\* of a MAP_FIXED address, and the merge tests add a number of pages to a file
\* offset in bytes, so that file mappings of PAGE_SIZE pages may be joined with
\* a wrong offset.  Boot areas are of whole pages, error numbers less than one.
OrdinaryCalls ==
    /\ \A c \in MmapCalls :
         /\ c.fixed => Aligned(c.addr)
         /\ ~c.fixed => PAGE_ALIGN(c.length) <= kernel_min_address
         /\ c.fd # NoFd => /\ ~c.grows /\ FileOf(c.fd) \in Nat
                           /\ PAGE_ALIGN(c.length) < PAGE_SIZE * PAGE_SIZE
    /\ \A r \in BootAreas : Plain(r)
    /\ ENOMEM < PAGE_SIZE /\ EINVAL < PAGE_SIZE

\* Programs whose heap stays apart from other areas that grow: they map nothing
\* with MAP_GROWSDOWN (the merge tests compare flags, so only such an area joins
\* the heap area), the loader leaves no such area but the stack in its reserve,
\* and the first heap page ends below the reserve.
HeapApart ==
    /\ \A c \in MmapCalls : ~c.grows
    /\ \A r \in BootAreas : "GROWS" \in r.flags => Page(user_stack_min) <= Page(r.start)
    /\ Page(user_heap_start) + 1 < Page(user_stack_min)

\* However areas were split, merged, moved and grown, each is of whole pages, and
\* a file mapping starts on a page of its file: munmap, the host's page tables
\* and vma_merge's comparison of offsets take it for granted, while hints, breaks
\* and faults come from the program unaligned (get_unmapped_area, vma_split,
\* syscall_brk, grow_stack).
AreasWhole == status = "run" => \A r \in areas : Plain(r)

\* Every system call and fault changes the backing of exactly the pages it is
\* about: an mmap lands where the call may be put, munmap leaves every page
\* outside its range as it was, brk and stack growth take unmapped pages only.
\* (syscall_mmap, syscall_munmap, syscall_brk, handle_user_page_fault)
ImplementsAddrSpace == Abstract!Spec
=============================================================================
