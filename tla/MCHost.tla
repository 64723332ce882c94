------------------------------- MODULE MCHost -------------------------------
(***************************************************************************)
(* The layout of MCVma with the real host calls: the image on frames 0 and *)
(* 1, the stack on frame 2.                                                *)
(***************************************************************************)
EXTENDS HostPaging, VmaRefines

\* What the theorems on the break and on the page table ask for.
ASSUME HeapIsApart == OrdinaryCalls /\ HeapApart

HostFileOf(fd) == fd

HostBootFds == {0, 1}
HostBootAreas ==
    {[start |-> 4, end |-> 12, prot |-> {"READ", "EXEC"}, flags |-> {},
      off |-> 0, file |-> 0, fd |-> 1,
      hv |-> [phys |-> 0, start |-> 4, end |-> 12]],
     [start |-> 44, end |-> 48, prot |-> {"READ", "WRITE"}, flags |-> {"GROWS"},
      off |-> 0, file |-> NoFile, fd |-> NoFd,
      hv |-> [phys |-> 2, start |-> 44, end |-> 48]]}
HostBoot ==
    [pt |-> [p \in Pages |->
               CASE p = 1 -> [frame |-> 0, bits |-> {"USER"}]
                 [] p = 2 -> [frame |-> 1, bits |-> {"USER"}]
                 [] p = 11 -> [frame |-> 2, bits |-> {"NO_EXE", "USER"}]
                 [] OTHER -> NoEntry],
     next |-> 3,
     mem |-> [f \in 0 .. 2 |-> IF f = 2 THEN FileData(NoFile, 2)
                               ELSE FileData(0, f)],
     stuck |-> FALSE]

HostCall(addr, length) ==
    [addr |-> addr, length |-> length, off |-> 0, type |-> "private",
     fixed |-> FALSE, grows |-> FALSE, prot |-> {"READ", "WRITE"},
     anonymous |-> TRUE, fd |-> NoFd]

HostCalls ==
    {HostCall(0, 4),
     [HostCall(20, 8) EXCEPT !.fixed = TRUE],
     [HostCall(0, 8) EXCEPT !.fd = 0, !.anonymous = FALSE, !.off = 4]}
HostMunmaps == {<<8, 12>>, <<24, 4>>, <<28, 8>>}
HostBrks == {0, 20}
HostTouched == {37, 41, 13}

\* Three calls that meet in the middle.
MergeCalls == {HostCall(0, 4), HostCall(24, 4)}
None == {}
=============================================================================
