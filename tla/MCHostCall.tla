----------------------------- MODULE MCHostCall -----------------------------
(***************************************************************************)
(* Pages of four bytes.  Two areas side by side on frames that are not in  *)
(* a row, a third whose frame follows that of the second, two pages of the *)
(* kernel in reverse order, and holes.  Memory holds names that end inside *)
(* a page, on the next page and on its last byte, and vectors over the     *)
(* boundary of the areas, one with a hole behind it and one versioned.     *)
(***************************************************************************)
EXTENDS HostCall, TLC

MCAreas == {[start |-> 8, end |-> 16, phys |-> 40], [start |-> 16, end |-> 20, phys |-> 24],
            [start |-> 32, end |-> 36, phys |-> 28]}
MCKernelFrames == 14 :> 4 @@ 15 :> 2
Versioned(va) == va + PAGE_SIZE * VA_PAGES
Vectors == 15 :> <<"iov", 9, 4>> @@ 16 :> <<"iov", 18, 2>> @@ 17 :> <<"iov", 19, 3>>
           @@ 18 :> <<"iov", Versioned(33), 2>>
Zeros == {13, 35, 57, 61, 63}
MCInitialRam ==
    LET vas == {va \in 0 .. PAGE_SIZE * VA_PAGES - 1 : pt[PageOf(va)] # NoFrame}
    IN  [a \in {GetPhysAddr(pt, va) : va \in vas} |->
           LET va == CHOOSE v \in vas : GetPhysAddr(pt, v) = a
           IN  IF va \in DOMAIN Vectors THEN Vectors[va]
               ELSE IF va \in Zeros THEN Zero ELSE <<"mem", va, 0>>]

\* Inside an area, over two, beyond the end, in a hole below an area, above
\* all areas, versioned.
Ranges == {<<9, 4>>, <<14, 3>>, <<18, 4>>, <<22, 1>>, <<40, 1>>, <<Versioned(9), 1>>}
MCSyscalls ==
    {<<nr, <<1, r[1], r[2]>>>> : nr \in {0, 1}, r \in Ranges}
    \cup {<<nr, <<va, 0>>>> : nr \in {2, 21}, va \in {10, 33, 40}}
    \cup {<<257, <<0, 10, 0>>>>, <<3, <<3>>>>, <<4, <<10, 33>>>>, <<4, <<10, 50>>>>,
          <<5, <<3, 11>>>>, <<5, <<3, 14>>>>, <<63, <<32>>>>}
    \cup {<<20, <<1, 15, n>>>> : n \in {-1, 0, 2, 3}}
    \cup {<<20, <<1, 18, 1>>>>, <<20, <<1, 30, 1>>>>}
    \cup {<<158, <<c, 5>>>> : c \in {"ARCH_SET_GS", "ARCH_SET_FS", "ARCH_GET_GS",
                                     "ARCH_GET_FS", "other"}}
    \cup {<<16, <<>>>>, <<7, <<>>>>, <<-1, <<>>>>, <<SYSCALL_MAX, <<>>>>,
          <<60, <<>>>>, <<231, <<0>>>>}
KernelRanges == {<<58, 4>>, <<54, 3>>, <<62, 3>>, <<14, 3>>}
MCKernelCalls ==
    {<<c, <<1, r[1], r[2]>>>> : c \in {"kernel_write", "kernel_read"}, r \in KernelRanges}
    \cup {<<"kernel_open", <<va, 0, 0>>>> : va \in {56, 58, 62, 52}}
    \cup {<<"kernel_stat", <<56, va>>>> : va \in {58, 62}}
    \cup {<<"kernel_stat", <<52, 58>>>>}
    \cup {<<"kernel_fstat", <<3, va>>>> : va \in {58, 62}}
    \cup {<<c, <<3, 0, 0>>>> : c \in {"close", "dup", "lseek", "kernel_exit"}}
=============================================================================
