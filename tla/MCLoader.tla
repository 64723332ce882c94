------------------------------ MODULE MCLoader ------------------------------
(***************************************************************************)
(* Twenty-eight pages of four bytes: the kernel from page 24, three pages  *)
(* reserved for the stack below it, programs that may be put anywhere at   *)
(* page 16.  The host calls do nothing here.                               *)
(***************************************************************************)
EXTENDS Loader

LoaderMapVma(h, r) == [host |-> h, hv |-> r.hv]
LoaderUnmapVma(h, gone) == h
LoaderPresent(h, S, a) == Covering(S, a) # {}
LoaderHostBound(h) == TRUE
LoaderFileOf(d) == d

\* Descriptor 0 is a file of the program's.
LoaderBootFds == {0}
LoaderBootAreas ==
    {[start |-> 92, end |-> 96, prot |-> {"READ", "WRITE"}, flags |-> {"GROWS"},
      off |-> 0, file |-> NoFile, fd |-> NoFd,
      hv |-> [phys |-> -1, start |-> 0, end |-> 0]]}

Header(vaddr, off, filesz, memsz, prot) ==
    [vaddr |-> vaddr, off |-> off, filesz |-> filesz, memsz |-> memsz, prot |-> prot]

\* Linked to pages 1 and 2, so that the heap starts on page 3.
StaticProgram ==
    [type |-> "EXEC",
     phdrs |-> <<Header(4, 0, 4, 4, {"READ", "EXEC"}),
                 Header(9, 5, 2, 3, {"READ", "WRITE"})>>]

\* With a hole between its segments.
PieProgram ==
    [type |-> "DYN",
     phdrs |-> <<Header(0, 0, 4, 4, {"READ", "EXEC"}),
                 Header(9, 5, 2, 3, {"READ", "WRITE"})>>]

\* Segments that share no page, and a page of bss.
Interpreter ==
    [type |-> "DYN",
     phdrs |-> <<Header(0, 0, 4, 4, {"READ", "EXEC"}),
                 Header(6, 6, 1, 5, {"READ", "WRITE"})>>]

\* With a hole, loaded where it was linked; its last segment is not in the file.
FixedInterpreter ==
    [type |-> "EXEC",
     phdrs |-> <<Header(40, 0, 3, 3, {"READ", "EXEC"}),
                 Header(49, 5, 2, 2, {"READ", "WRITE"}),
                 Header(52, 8, 0, 4, {"READ", "WRITE"})>>]

MCImages ==
    {[program |-> p, interp |-> i] :
        p \in {StaticProgram, PieProgram},
        i \in {NoInterp, Interpreter, FixedInterpreter}}

\* Within the last page, and as many as the limit allows.
MCArgBytes == {3, 9}

LoaderCall(addr, length, off) ==
    [addr |-> addr, length |-> length, off |-> off, type |-> "private",
     fixed |-> FALSE, grows |-> FALSE, prot |-> {"READ", "WRITE"},
     anonymous |-> FALSE, fd |-> 0]

\* File mappings, and a call with a mapping type the kernel refuses.
FileCalls ==
    {LoaderCall(0, 8, 4),
     [LoaderCall(16, 12, 0) EXCEPT !.fixed = TRUE],
     [LoaderCall(0, 4, 0) EXCEPT !.type = "bad"]}
FileMunmaps == {<<20, 4>>, <<28, 8>>, <<8, 12>>}
FileBrks == {0, 20}
FileTouched == {}
=============================================================================
