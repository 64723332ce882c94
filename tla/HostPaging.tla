----------------------------- MODULE HostPaging -----------------------------
(***************************************************************************)
(* The host side of the areas: kernel_map_vma and kernel_unmap_vma of      *)
(* vm/vma.c over the page tables and the frame counter of vm/paging.c.     *)
(* They are the values of the constants KernelMapVma, KernelUnmapVma and   *)
(* Present of Vma, so that a run of Vma with them is the whole path from   *)
(* the system call to the page table entry.                                *)
(*                                                                         *)
(* Host state: [pt, next, mem, stuck].  pt maps a page to its entry, next  *)
(* is page_counter, mem says what each frame handed out holds, and stuck   *)
(* is set when remap_region fails and the host spins for ever.  Frames for *)
(* page tables come from the same counter and are left out.                *)
(***************************************************************************)
EXTENDS VmaRefines

CONSTANT MaxFrames     \* BOUND on page_counter (the code has none)

NoEntry == [frame |-> -1, bits |-> {}]
Hole == [file |-> -3, page |-> 0]   \* a frame whose memory mremap moved elsewhere

\* vma_prot_to_pg; map_physical_page adds PRESENT and WRITEABLE to all.
VmaProtToPg(prot) ==
    (IF "EXEC" \in prot THEN {} ELSE {"NO_EXE"})
    \cup (IF "VERSIONED" \in prot THEN {} ELSE {"USER"})

PagesIn(lo, hi) == Page(lo) .. Page(hi) - 1

\* map_physical_pages(start, -1, prot, pages, MAP_CONTINUOUS)
MapEntries(h, r) ==
    [p \in Pages |->
        IF p \in PagesIn(r.start, r.end)
        THEN [frame |-> h.next + p - Page(r.start), bits |-> VmaProtToPg(r.prot)]
        ELSE h.pt[p]]

\* Fresh anonymous memory is told apart by its frame, file pages by their
\* position in the file.
FileData(file, page) == [file |-> file, page |-> page]

\* Mutant of OldFrame: a start that moved up is not skipped in the old frames.
MutOldFrameNoSkip(r, p) ==
    r.hv.phys + p - Page(IF r.start > r.hv.start THEN r.start ELSE r.hv.start)

\* The old frame of page p of r, whose frames start at r.hv.phys.
OldFrame(r, p) == r.hv.phys + p - Page(r.hv.start)

\* Pages in the old and in the new range: what remap_region moves.
Surviving(r) ==
    IF r.hv.phys = -1 \/ r.fd # NoFd THEN {}
    ELSE PagesIn(r.hv.start, r.hv.end) \cap PagesIn(r.start, r.end)

NewFrames(h, r) == h.next .. h.next + Page(r.end) - Page(r.start) - 1

\* The contents of all frames after the frames of r were filled.
FilledMem(h, r) ==
    [f \in 0 .. h.next + Page(r.end) - Page(r.start) - 1 |->
        LET p == f - h.next + Page(r.start)
        IN  IF f \in NewFrames(h, r)
            THEN IF r.fd # NoFd
                 THEN FileData(r.file, Page(r.off) + p - Page(r.start))
                 ELSE IF p \in Surviving(r) THEN h.mem[OldFrame(r, p)]
                 ELSE FileData(NoFile, f)
            ELSE IF \E s \in Surviving(r) : OldFrame(r, s) = f
                 THEN Hole
                 ELSE h.mem[f]]

\* Mutant of HostMapVma: old_start_addr and old_end_addr are not brought up to
\* date.
MutHostMapKeepsRange(h, r) ==
    LET changed == r.hv.start # r.start \/ r.hv.end # r.end
    IN  IF r.hv.phys # -1 /\ ~changed THEN [host |-> h, hv |-> r.hv]
        ELSE [host |-> [pt |-> MapEntries(h, r),
                        next |-> h.next + Page(r.end) - Page(r.start),
                        mem |-> FilledMem(h, r),
                        stuck |-> h.stuck \/ \E s \in Surviving(r) :
                                     h.mem[OldFrame(r, s)] = Hole],
              hv |-> [r.hv EXCEPT !.phys = h.next]]

HostMapVma(h, r) ==
    LET changed == r.hv.start # r.start \/ r.hv.end # r.end
    IN  IF r.hv.phys # -1 /\ ~changed THEN [host |-> h, hv |-> r.hv]
        ELSE [host |-> [pt |-> MapEntries(h, r),
                        next |-> h.next + Page(r.end) - Page(r.start),
                        mem |-> FilledMem(h, r),
                        stuck |-> h.stuck \/ \E s \in Surviving(r) :
                                     h.mem[OldFrame(r, s)] = Hole],
              hv |-> [phys |-> h.next, start |-> r.start, end |-> r.end]]

\* kernel_unmap_vma clears the entries of the range last mapped.
HostUnmapVma(h, gone) ==
    [h EXCEPT !.pt = [p \in Pages |->
        IF \E r \in gone : r.hv.phys # -1 /\ p \in PagesIn(r.hv.start, r.hv.end)
        THEN NoEntry ELSE h.pt[p]]]

HostPresent(h, S, a) == h.pt[Page(a)] # NoEntry
FramesBound(h) == h.next <= MaxFrames
-----------------------------------------------------------------------------
(***************************************************************************)
(* Properties of the two sides together.                                   *)
(***************************************************************************)
AreaPages(r) == PagesIn(r.start, r.end)

\* A page table entry always belongs to the area that covers its page: the
\* frame is the area's frame for that page and the entry's bits follow from
\* its protection.  Nothing stays reachable after munmap, whatever splits
\* and remaps went before (kernel_map_vma, kernel_unmap_vma).
PageTableSound ==
    status = "run" =>
        \A p \in Pages : host.pt[p] # NoEntry =>
            \E r \in areas :
                /\ p \in AreaPages(r)
                /\ host.pt[p].frame = r.hv.phys + p - Page(r.start)
                /\ host.pt[p].bits = VmaProtToPg(r.prot)

\* Two areas never share a frame and no area is backed by memory that was
\* moved away, so remap_region always finds its source and the host never
\* spins: vma_split copies phys_page_start into the new node and both halves
\* are remapped from the old frames one after the other.
FramesPrivate ==
    status = "run" =>
        /\ ~host.stuck
        /\ \A r \in areas, p \in Pages : p \in AreaPages(r) =>
             LET f == r.hv.phys + p - Page(r.start)
             IN  /\ host.mem[f] # Hole
                 /\ \A q \in areas \ {r} :
                      f \notin q.hv.phys .. q.hv.phys + Page(q.end) - Page(q.start) - 1

\* Whatever moved the bounds of an area, the host maps it before the call
\* returns: frames reach from its start to its end, which is what vm_ptr
\* counts on when it adds an offset to phys_page_start, and munmap's loop of
\* invlpg over the area meets exactly the entries kernel_unmap_vma clears
\* (vma_adjust, vma_split, syscall_brk, grow_stack, unmap_vma).
HostKnowsBounds ==
    status = "run" =>
        \A r \in areas : r.hv.phys # -1 /\ r.hv.start = r.start /\ r.hv.end = r.end

(***************************************************************************)
(* How areas S and host state h agree.  X are the areas whose bounds have  *)
(* changed since the host mapped them, N the pages whose entry may be of   *)
(* no area: both are empty between two calls.                              *)
(***************************************************************************)
HostType(h) == DOMAIN h = {"pt", "next", "mem", "stuck"} /\ h.next \in Nat

HvType(r) == r.hv.phys \in Int /\ r.hv.start \in Addr /\ r.hv.end \in Addr

\* The host mapped r where it is now.
Mapped(r) == r.hv.phys # -1 /\ r.hv.start = r.start /\ r.hv.end = r.end

\* The pages of r that have a frame.
Held(r) == {p \in AreaPages(r) : r.hv.phys # -1 /\ p \in PagesIn(r.hv.start, r.hv.end)}

\* The entry of page p is the one r stands for.
EntryOf(h, p, r) ==
    /\ p \in Held(r)
    /\ h.pt[p].frame = OldFrame(r, p)
    /\ h.pt[p].bits = VmaProtToPg(r.prot)

Entries(S, h, N) ==
    \A p \in Pages \ N : h.pt[p] # NoEntry => \E r \in S : EntryOf(h, p, r)

\* The frames of the areas hold memory and belong to one page of one area.
Private(S, h) ==
    /\ \A r \in S : \A p \in Held(r) :
          OldFrame(r, p) \in 0 .. h.next - 1 /\ h.mem[OldFrame(r, p)] # Hole
    /\ \A r \in S, q \in S : \A p \in Held(r), s \in Held(q) :
          OldFrame(r, p) = OldFrame(q, s) => r = q

HostInv(S, h, X, N) ==
    /\ HostType(h) /\ h.stuck = FALSE
    /\ \A r \in S : HvType(r) /\ r.file # Hole.file
    /\ \A r \in S \ X : Mapped(r)
    /\ Private(S, h)
    /\ Entries(S, h, N)

\* The loader leaves the two sides in agreement; no file of the program has
\* the number that stands for memory that was moved.
ASSUME BootHostAssumption ==
    /\ HostInv(BootAreas, BootHost, {}, {})
    /\ \A fd \in Fds : FileOf(fd) # Hole.file

DataAt(h, p) == IF h.pt[p] = NoEntry THEN FileData(-2, 0) ELSE h.mem[h.pt[p].frame]

\* A page that stays mapped shows the data it showed before, or none at all,
\* unless a MAP_FIXED call or the first brk replaced it: resizing an area
\* moves its frames and every page moves with its own (kernel_map_vma,
\* remap_region).  The data of a file page is its place in the file, so what
\* the program wrote to a private file mapping is outside this property.
NoWrongData ==
    [][\A p \in Pages :
         \/ host.pt[p] = NoEntry \/ host'.pt[p] = NoEntry
         \/ DataAt(host', p) = DataAt(host, p)
         \/ status' # "run"
         \/ brk = 0 /\ p = Page(user_heap_start)
         \/ \E c \in MmapCalls : /\ c.fixed
                                 /\ p \in PagesIn(c.addr, c.addr + PAGE_ALIGN(c.length))]_vars

\* page_fault.c: VERIFY(grown || !(vma->flags & VMA_IS_PREFAULTED)).  Every
\* page of an area that kernel_map_vma has mapped has its entry.
PrefaultedNeverFaults ==
    status = "run" =>
        \A r \in areas : \A p \in AreaPages(r) : host.pt[p] # NoEntry
=============================================================================
