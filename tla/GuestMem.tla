------------------------------ MODULE GuestMem ------------------------------
(***************************************************************************)
(* Guest memory as the host reaches it, vm/paging.c: translation through   *)
(* the guest's page tables and the three page-wise copies.                 *)
(*                                                                         *)
(* pt maps a page to its frame, or to NoFrame.  ram maps physical bytes to *)
(* what was stored there; a byte outside its domain was never written and  *)
(* is zero, as vm.mem is fresh anonymous memory.  A byte is a tuple of     *)
(* three so that characters, file contents and parts of a word never       *)
(* compare equal by accident.                                              *)
(***************************************************************************)
EXTENDS Integers, Sequences

CONSTANTS PAGE_SIZE,
          VA_PAGES       \* pages of the address space below bit 39

ASSUME GuestMemAssumption == PAGE_SIZE \in Nat \ {0} /\ VA_PAGES \in Nat \ {0}

NoFrame == -1
Zero == <<"zero", 0, 0>>
VaPages == 0 .. VA_PAGES - 1

\* get_virt_addr_info: the bits from 39 up hold the version and are dropped,
\* build_page_tables points all entries of the pml4 to one table.
PageOf(va) == (va \div PAGE_SIZE) % VA_PAGES
P2Align(a, align) == (a \div align) * align
P2RoundUp(a, align) == P2Align(a + align - 1, align)
PAGE_OFFSET(va) == va % PAGE_SIZE

IsVpagePresent(pt, va) == pt[PageOf(va)] # NoFrame
GetPhysAddr(pt, va) == pt[PageOf(va)] * PAGE_SIZE + PAGE_OFFSET(va)

Stored(ram, a) == IF a \in DOMAIN ram THEN ram[a] ELSE Zero
Store(ram, a, bytes) ==
    [b \in DOMAIN ram \cup a .. a + Len(bytes) - 1 |->
        IF b \in a .. a + Len(bytes) - 1 THEN bytes[b - a + 1] ELSE ram[b]]

\* page_bytes: what is left of the page, or of the request.
PageBytes(va, left) ==
    IF PAGE_SIZE - PAGE_OFFSET(va) > left THEN left ELSE PAGE_SIZE - PAGE_OFFSET(va)

\* read_virtual_addr: the bytes, and whether all pages were mapped.
ReadVirtualAddr(pt, ram, va, size) ==
    LET read[left \in 0 .. size] ==
            LET at == va + size - left
                n == PageBytes(at, left)
                phys == GetPhysAddr(pt, at)
                rest == read[left - n]
            IN  IF left = 0 THEN [ok |-> TRUE, bytes |-> <<>>]
                ELSE IF ~IsVpagePresent(pt, at) THEN [ok |-> FALSE, bytes |-> <<>>]
                ELSE [rest EXCEPT !.bytes = [i \in 1 .. n |-> Stored(ram, phys + i - 1)] \o @]
    IN  read[size]

\* write_virtual_addr: pages before an unmapped one keep what was written.
WriteVirtualAddr(pt, ram, va, source) ==
    LET write[left \in 0 .. Len(source)] ==
            LET done == Len(source) - left
                n == PageBytes(va + done, left)
                rest == write[left - n]
            IN  IF left = 0 THEN [ok |-> TRUE, ram |-> ram]
                ELSE IF ~IsVpagePresent(pt, va + done) THEN [ok |-> FALSE, ram |-> ram]
                ELSE [rest EXCEPT !.ram = Store(@, GetPhysAddr(pt, va + done),
                                              SubSeq(source, done + 1, done + n))]
    IN  write[Len(source)]

\* The search for the terminator in read_virtual_cstr.  Inside a page the
\* byte is addressed by the count from the start of the string, although
\* phys_addr already is the address of the first byte looked at, so from the
\* second page on the search looks beside the string.
CstrEnd(pt, ram, va) ==
    LET scan[read \in Nat] ==
            LET phys == GetPhysAddr(pt, va + read)
                n == PAGE_SIZE - PAGE_OFFSET(va + read)
                ends == {i \in 0 .. n - 1 : Stored(ram, phys + read + i) = Zero}
            IN  IF ~IsVpagePresent(pt, va + read) THEN -1
                ELSE IF ends = {} THEN scan[read + n]
                ELSE read + (CHOOSE i \in ends : \A j \in ends : i <= j)
    IN  scan[0]

\* read_virtual_cstr: the byte after the terminator is counted and read too.
ReadVirtualCstr(pt, ram, va) ==
    IF CstrEnd(pt, ram, va) = -1 THEN [ok |-> FALSE, bytes |-> <<>>]
    ELSE ReadVirtualAddr(pt, ram, va, CstrEnd(pt, ram, va) + 2)
-----------------------------------------------------------------------------
(* What the copies are for: memory as the guest sees it, byte by byte. *)

Mapped(pt, va, size) == \A i \in 0 .. size - 1 : IsVpagePresent(pt, va + i)
GuestBytes(pt, ram, va, size) ==
    [i \in 1 .. size |-> Stored(ram, GetPhysAddr(pt, va + i - 1))]
=============================================================================
