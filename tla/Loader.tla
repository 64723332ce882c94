------------------------------- MODULE Loader -------------------------------
(***************************************************************************)
(* From the kernel's own set-up to the program's first instruction: the    *)
(* ELF loader of kernel/c/elf.c over the areas of Vma, do_brk of mmap.c    *)
(* for the interpreter's bss, the first growth of the stack in             *)
(* load_user_land, and then the program's own calls.                       *)
(*                                                                         *)
(* An ELF file is its type, its entry point and its PT_LOAD headers; the   *)
(* headers of other types leave nothing behind but the interpreter's name. *)
(* One step loads one header.  Vma starts here with the stack area only.   *)
(***************************************************************************)
EXTENDS VmaRefines, Sequences

CONSTANTS Images,     \* [program, interp]: ELF files, interp NoInterp if static
          NoInterp,
          ArgBytes    \* bytes load_user_land puts on the stack

ASSUME ImagesAssumption ==
    \A im \in Images : \A f \in {im.program, im.interp} \ {NoInterp} :
        /\ f.type \in {"EXEC", "DYN"} /\ f.phdrs # <<>>
        /\ \A k \in 1 .. Len(f.phdrs) :
             LET h == f.phdrs[k]
             IN  /\ h.filesz \in 0 .. h.memsz /\ h.memsz > 0 /\ h.vaddr \in Addr
                 /\ h.off % PAGE_SIZE = h.vaddr % PAGE_SIZE

VARIABLES
    image,          \* the member of Images that is loaded
    phase,          \* "open", file being loaded, "enter", "user": the program runs
    hdr,            \* next header
    load_offset, max_faddr, max_maddr,   \* locals of load_elf64_pg_hdrs
    fd,             \* descriptors of the two files
    elf_bias,       \* load_offset each file ended with
    max_page_addr   \* end of the program, what kernel_main makes the heap start

local == <<hdr, load_offset, max_faddr, max_maddr>>
loader == <<image, phase, local, fd, elf_bias, max_page_addr>>
lvars == <<vars, loader>>

Elf == image[phase]
Phdr == Elf.phdrs[hdr]
found_entry == hdr > 1
is_interp == phase = "interp"

(***************************************************************************)
(* elf_map.                                                                *)
(***************************************************************************)
total_mapping_size(phdrs) ==
    LET last == phdrs[Len(phdrs)]
    IN  last.vaddr + last.memsz - PAGE_ALIGN_DOWN(phdrs[1].vaddr)

\* Only the first header of a file that may be put anywhere reserves its whole
\* size; so does the first header of every interpreter.
TotalSize ==
    IF ~found_entry /\ (is_interp \/ Elf.type = "DYN")
    THEN PAGE_ALIGN(total_mapping_size(Elf.phdrs)) ELSE 0

ElfSize(h) == PAGE_ALIGN(h.filesz + (h.vaddr % PAGE_SIZE))

\* Mutant of ElfCall: the offset of the segment, not of its first page.
MutElfCallOffset(h, addr, fixed, total) ==
    [addr |-> PAGE_ALIGN_DOWN(addr),
     length |-> IF total # 0 THEN total ELSE ElfSize(h),
     off |-> PAGE_ALIGN(h.off), type |-> "private",
     fixed |-> fixed, grows |-> FALSE, prot |-> h.prot,
     anonymous |-> FALSE, fd |-> fd[phase]]

ElfCall(h, addr, fixed, total) ==
    [addr |-> PAGE_ALIGN_DOWN(addr),
     length |-> IF total # 0 THEN total ELSE ElfSize(h),
     off |-> h.off - (h.vaddr % PAGE_SIZE), type |-> "private",
     fixed |-> fixed, grows |-> FALSE, prot |-> h.prot,
     anonymous |-> FALSE, fd |-> fd[phase]]

\* The rest of a reservation is given back; munmap refuses an empty rest.
Released(m, a, size, total) ==
    LET rest == Add(a, size)
    IN  IF \/ total = 0 \/ a >= kernel_min_address
           \/ MunmapInvalid(rest, Sub(total, size))
        THEN m ELSE Munmap(m, rest, Sub(total, size))

\* The states elf_map may leave and the addresses it returns with them.
ElfMap(h, addr, fixed, total) ==
    LET c == ElfCall(h, addr, fixed, total)
    IN  IF ElfSize(h) = 0 THEN {[m |-> Mm, at |-> c.addr]}
        ELSE IF MmapInvalid(c) THEN {[m |-> Mm, at |-> Neg(EINVAL)]}
        ELSE {LET r == MmapAt(Mm, c, a)
              IN  IF r.at = NULL THEN [m |-> r.m, at |-> Neg(ENOMEM)]
                  ELSE [m |-> Released(r.m, a, ElfSize(h), total), at |-> a] :
              a \in GetUnmappedArea(Mm, c.addr, c.length, c.fixed)}

\* kernel_open: the lowest free descriptor.
Opened == CHOOSE d \in Fds \ fds : \A c \in Fds \ fds : d <= c

\* kernel_main opens the program (read_binary).
ReadBinary ==
    /\ Running /\ phase = "open"
    /\ phase' = "program"
    /\ fd' = [fd EXCEPT !["program"] = Opened]
    /\ fds' = fds \cup {Opened}
    /\ UNCHANGED <<areas, highest, brk, heap, host, status>>
    /\ UNCHANGED <<image, local, elf_bias, max_page_addr>>

(***************************************************************************)
(* load_elf64_pg_hdrs, one header at a time.                               *)
(***************************************************************************)
\* A program that may be put anywhere goes to two thirds of user memory.
HintOffset(h) ==
    IF Elf.type = "DYN" /\ ~found_entry /\ ~is_interp
    THEN PAGE_ALIGN_DOWN(Sub((kernel_min_address \div 3) * 2, h.vaddr))
    ELSE load_offset

\* load_offset once the first header was mapped at `start`.
LoadOffset(h, start) ==
    IF found_entry \/ Elf.type = "EXEC" THEN load_offset
    ELSE IF is_interp THEN Sub(start, PAGE_ALIGN_DOWN(h.vaddr))
    ELSE Add(HintOffset(h),
             Sub(start, PAGE_ALIGN_DOWN(Add(HintOffset(h), h.vaddr))))

Larger(a, b) == IF a > b THEN a ELSE b

LoadHeader ==
    /\ Running /\ phase \in {"program", "interp"}
    /\ hdr <= Len(Elf.phdrs)
    /\ LET fixed == Elf.type = "EXEC" \/ found_entry
           wanted == Add(Phdr.vaddr, HintOffset(Phdr))
       IN  \E r \in ElfMap(Phdr, wanted, fixed, TotalSize) :
             LET bias == LoadOffset(Phdr, r.at)
                 moved == IF is_interp THEN bias ELSE 0
                 verified == /\ r.at < kernel_min_address
                             /\ ~fixed \/ r.at = PAGE_ALIGN_DOWN(wanted)
             IN  /\ Commit(IF verified THEN r.m ELSE [r.m EXCEPT !.status = "exit"])
                 /\ load_offset' = bias
                 /\ max_maddr' = Larger(max_maddr, Add(Phdr.vaddr + Phdr.memsz, moved))
                 /\ max_faddr' = Larger(max_faddr, Add(Phdr.vaddr + Phdr.filesz, moved))
    /\ hdr' = hdr + 1
    /\ UNCHANGED <<brk, image, phase, fd, elf_bias, max_page_addr>>

\* pad_zero writes from the end of the file data to the end of its page, at
\* kernel privilege: a page without an entry is fatal there.
PadZeroFaults(end) == ~Aligned(end) /\ ~Present(host, areas, end)

\* Mutant of Moved: the ends stay where the file has them.
MutMoved(a) == a

\* Ends of the program, which the loop keeps as the file has them.
Moved(a) == Add(a, load_offset)

FinishProgram ==
    /\ Running /\ phase = "program" /\ hdr > Len(Elf.phdrs)
    /\ max_page_addr' = PAGE_ALIGN(Moved(max_maddr))
    /\ elf_bias' = [elf_bias EXCEPT !["program"] = load_offset]
    /\ hdr' = 1 /\ load_offset' = 0 /\ max_faddr' = 0 /\ max_maddr' = 0
    /\ IF image.interp = NoInterp
       THEN /\ phase' = "enter" /\ fd' = fd
            /\ fds' = fds \ {fd["program"]}
       ELSE /\ phase' = "interp" /\ fd' = [fd EXCEPT !["interp"] = Opened]
            /\ fds' = fds \cup {Opened}
    /\ status' = IF PadZeroFaults(Moved(max_faddr)) THEN "exit" ELSE status
    /\ UNCHANGED <<areas, highest, brk, heap, host, image>>

(***************************************************************************)
(* do_brk for the interpreter's bss.  VMA_ALLOC_ZEROED, which it is given  *)
(* as flags, contains the bit of VMA_GROWS.                                *)
(***************************************************************************)
BssArea(a, length) ==
    [start |-> a, end |-> Add(a, length), prot |-> {"READ", "WRITE", "EXEC"},
     flags |-> {"GROWS", "ZEROED"}, off |-> Page(a), file |-> NoFile,
     fd |-> NoFd, hv |-> [phys |-> -1, start |-> 0, end |-> 0]]

do_brk(m, a, length) == MmapRegion(m, BssArea(a, length), length)

\* The interpreter's own descriptor stays open.
FinishInterp ==
    LET faddr == PAGE_ALIGN(max_faddr)
        maddr == PAGE_ALIGN(max_maddr)
        r == IF maddr > faddr THEN do_brk(Mm, faddr, maddr - faddr)
             ELSE [m |-> Mm, at |-> faddr]
        fatal == PadZeroFaults(max_faddr) \/ r.at = NULL
    IN  /\ Running /\ phase = "interp" /\ hdr > Len(Elf.phdrs)
        /\ Commit([r.m EXCEPT !.fds = @ \ {fd["program"]},
                              !.status = IF fatal THEN "exit" ELSE @])
        /\ elf_bias' = [elf_bias EXCEPT !["interp"] = load_offset]
        /\ phase' = "enter"
        /\ UNCHANGED <<brk, image, local, fd, max_page_addr>>

(***************************************************************************)
(* load_user_land: the stack grows to hold n bytes of arguments.  What     *)
(* grow_stack returns is not looked at, and the copy faults if it refused. *)
(***************************************************************************)
user_stack_vma == CHOOSE r \in areas : r.end = user_stack_start

LoadUserLand(n) ==
    LET esp == user_stack_start - n
    IN  /\ Running /\ phase = "enter"
        /\ Commit(IF StackTooDeep(esp) THEN [Mm EXCEPT !.status = "exit"]
                  ELSE GrowStack(Mm, user_stack_vma, esp))
        /\ phase' = "user"
        /\ UNCHANGED <<brk, image, local, fd, elf_bias, max_page_addr>>

\* The program runs, where its image ends at the heap start of this instance.
UserStep ==
    /\ phase = "user" /\ max_page_addr = user_heap_start
    /\ Next
    /\ UNCHANGED loader

LoaderInit ==
    /\ Init
    /\ image \in Images /\ phase = "open"
    /\ hdr = 1 /\ load_offset = 0 /\ max_faddr = 0 /\ max_maddr = 0
    /\ fd = [program |-> NoFd, interp |-> NoFd]
    /\ elf_bias = [program |-> 0, interp |-> 0]
    /\ max_page_addr = 0

LoaderNext ==
    \/ ReadBinary \/ LoadHeader \/ FinishProgram \/ FinishInterp
    \/ \E n \in ArgBytes : LoadUserLand(n)
    \/ UserStep

LoaderSpec == LoaderInit /\ [][LoaderNext]_lvars
-----------------------------------------------------------------------------
(***************************************************************************)
(* Properties.                                                             *)
(***************************************************************************)
Loaded == {f \in {"program", "interp"} : image[f] # NoInterp}
Address(f, a) == Add(elf_bias[f], a)
PagesOfBytes(lo, n) == {Page(b) : b \in lo .. lo + n - 1}

\* Headers of file f whose file data reaches page p; the last one counts.
Reaching(f, p) ==
    {k \in 1 .. Len(image[f].phdrs) :
        LET h == image[f].phdrs[k]
        IN  p \in PagesOfBytes(Address(f, h.vaddr), h.filesz)}

FilePage(f, p) ==
    LET h == image[f].phdrs[CHOOSE k \in Reaching(f, p) : \A j \in Reaching(f, p) : j <= k]
    IN  Backing(FileOf(fd[f]), {}, h.off + p * PAGE_SIZE - Address(f, h.vaddr))

InBss(f, p) ==
    /\ Reaching(f, p) = {}
    /\ \E k \in 1 .. Len(image[f].phdrs) :
         LET h == image[f].phdrs[k]
         IN  p \in PagesOfBytes(Address(f, h.vaddr), h.memsz)

\* What the files and the stack say page p is backed by.
Claims(p) ==
    {FilePage(f, p) : f \in {g \in Loaded : Reaching(g, p) # {}}}
    \cup {Backing(NoFile, {"GROWS", "ZEROED"}, 0) :
            f \in {g \in Loaded \ {"program"} : InBss(g, p)}}
    \cup {Backing(NoFile, {"GROWS"}, 0) :
            a \in {b \in {user_stack_start - PAGE_SIZE} : Page(b) = p}}

\* When both files are loaded the address space holds their segments at their
\* biases and file offsets, the interpreter's bss and the stack, and nothing
\* else: no file overlays the other, and holes between segments that the first
\* mapping reserved are free again (elf_map, load_elf64_pg_hdrs, do_brk).  Of
\* the program's bss only what shares a page with its file data is there.
ImageInPlace ==
    phase = "enter" /\ status = "run" =>
        \A p \in Pages :
            LET b == SpaceOf(areas)[p]
            IN  Claims(p) = IF b = NoBacking THEN {} ELSE {b}

\* A well-formed file is loaded: no VERIFY of the loader fails, pad_zero finds
\* its page mapped, and the stack has room for the arguments.
LoadsSucceed == status = "exit" => phase = "user" /\ max_page_addr = user_heap_start

\* From then on every call of the program changes the pages it is about: what
\* ImplementsAddrSpace says, from an address space the loader built.
ProgramKeepsPages ==
    [][phase = "user" => [Abstract!Next]_(Abstract!vars)]_lvars
=============================================================================
