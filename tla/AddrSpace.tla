----------------------------- MODULE AddrSpace -----------------------------
(***************************************************************************)
(* What the memory system calls and the page fault handler promise the     *)
(* program, without areas: every page of the address space is unmapped or  *)
(* backed by something, and one call changes the pages it is about.        *)
(* VmaRefines states that the areas of Vma implement this.                 *)
(***************************************************************************)
EXTENDS Integers

CONSTANTS Pages,       \* page numbers
          Unmapped,    \* the backing of a page nobody mapped
          Places(_, _),     \* the first pages an mmap call may be given
          NewBacking(_, _), \* what the k-th page of an mmap call is backed by
          LengthOf(_),      \* its length in pages
          Grows(_),         \* is a backing that of a GROWSDOWN mapping
          MmapCalls, MunmapPages, BrkPages,
          HeapStart, HeapBacking,
          StackMin          \* lowest page the stack may grow to

VARIABLES space,   \* page -> backing
          heapEnd, \* first page after the area brk moves the end of
          up       \* the machine runs and its areas are in order

vars == <<space, heapEnd, up>>

Free(lo, hi) == \A p \in lo .. hi - 1 : space[p] = Unmapped

\* The pages lo..hi-1 get the backings new(0), new(1), ..; no other changes.
Becomes(after, lo, hi, new(_)) ==
    \A p \in Pages : after[p] = IF lo <= p /\ p < hi THEN new(p - lo) ELSE space[p]

Mmap(c) ==
    \E lo \in Places(c, space) :
        LET new(k) == NewBacking(c, k)
        IN  Becomes(space', lo, lo + LengthOf(c), new)

Munmap(u) ==
    LET new(k) == Unmapped
    IN  Becomes(space', u[1], u[2], new)

\* The first brk(0) takes the first heap page, whatever is there.
BrkStart ==
    LET new(k) == HeapBacking
    IN  Becomes(space', HeapStart, HeapStart + 1, new)

\* Later ones extend the heap over unmapped pages.
BrkGrow(new_end) ==
    LET new(k) == space[heapEnd - 1]
    IN  /\ heapEnd <= new_end
        /\ Free(heapEnd, new_end)
        /\ Becomes(space', heapEnd, new_end, new)

\* A touched page below a GROWSDOWN mapping is mapped, with all between them.
Grow ==
    \E lo \in Pages, hi \in Pages :
        LET new(k) == space[hi]
        IN  /\ StackMin <= lo /\ lo < hi
            /\ Free(lo, hi)
            /\ Grows(space[hi])
            /\ Becomes(space', lo, hi, new)

\* The machine stops; nothing is promised about the pages of a stopped one.
Halt == up' = FALSE

Init == up = TRUE

Next ==
    \/ /\ up /\ up'
       /\ \/ \E c \in MmapCalls : Mmap(c)
          \/ \E u \in MunmapPages : Munmap(u)
          \/ BrkStart
          \/ \E b \in BrkPages : BrkGrow(b)
          \/ Grow
    \/ Halt

Spec == Init /\ [][Next]_vars
=============================================================================
