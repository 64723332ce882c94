------------------------------- MODULE MCVma -------------------------------
(***************************************************************************)
(* Sixteen pages of four bytes: the program image on pages 1 and 2, the    *)
(* heap from page 3, three pages reserved for the stack below page 12,     *)
(* the kernel from page 12.  The host calls do nothing here.               *)
(***************************************************************************)
EXTENDS VmaRefines

\* The calls below are among the ones the refinement theorem is about.
ASSUME CallsAreOrdinary == OrdinaryCalls

MCKernelMapVma(h, r) == [host |-> h, hv |-> r.hv]
MCKernelUnmapVma(h, gone) == h
MCPresent(h, S, a) == Covering(S, a) # {}
MCHostBound(h) == TRUE
MCFileOf(fd) == fd

NoHv == [phys |-> -1, start |-> 0, end |-> 0]

\* Descriptor 0 is the program's own; 1 was dup'd for the image.
MCBootFds == {0, 1}
MCBootAreas ==
    {[start |-> 4, end |-> 12, prot |-> {"READ", "EXEC"}, flags |-> {},
      off |-> 0, file |-> 0, fd |-> 1, hv |-> NoHv],
     [start |-> 44, end |-> 48, prot |-> {"READ", "WRITE"}, flags |-> {"GROWS"},
      off |-> 0, file |-> NoFile, fd |-> NoFd, hv |-> NoHv]}

\* Calls: anonymous and private unless changed (MCLoader maps files).
Call(addr, length) ==
    [addr |-> addr, length |-> length, off |-> 0, type |-> "private",
     fixed |-> FALSE, grows |-> FALSE, prot |-> {"READ", "WRITE"},
     anonymous |-> TRUE, fd |-> NoFd]
Fixed(c) == [c EXCEPT !.fixed = TRUE]
Shared(c) == [c EXCEPT !.type = "shared"]
GrowsDown_(c) == [c EXCEPT !.grows = TRUE]

\* Anonymous memory, the heap and the stack.
AnonCalls ==
    {Call(0, 5), Call(21, 4), Fixed(Shared(Call(20, 8))), GrowsDown_(Call(40, 4))}
AnonMunmaps == {<<16, 12>>, <<28, 8>>}
AnonBrks == {0, 23, 63}
AnonTouched == {39, 41, 13}
=============================================================================
