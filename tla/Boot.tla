-------------------------------- MODULE Boot --------------------------------
(***************************************************************************)
(* From the start of the virtual machine to the first instruction of the   *)
(* program: run of vm/vm.c puts the kernel's image, its stack, the         *)
(* arguments and the task state segment into guest memory; kernel_main     *)
(* moves the descriptor table, makes the area heap, the version store and  *)
(* the user stack; load_user_land copies the arguments to the user stack.  *)
(* Nobody gives the kernel its stack pointer: it starts at 0, so that its  *)
(* calls grow downwards from the end of the address space, which is the    *)
(* end of the kernel's image.                                              *)
(*                                                                         *)
(* Loading the program itself is module Loader.  Frames of page tables     *)
(* come from the same counter and are left out, registers that are loaded  *)
(* with constants too.                                                     *)
(***************************************************************************)
EXTENDS GuestMem

CONSTANTS
    WORD,           \* sizeof(uint64_t), and MIN_ALIGN
    SIZE_MAX,       \* largest size_t
    BOOT_FRAMES,    \* first value of page_counter
    Segments,       \* program headers of kernel.elf
    BSS_END,        \* end of the kernel's last variable; padding follows
    KERNEL_FRAMES,  \* bytes of stack the calls of kernel_main take
    KSTACK_PAGES,   \* 20
    TSS_PAGES,      \* 3
    max_entries, NODE_SIZE,   \* vma_init
    user_stack_page_limit,
    MAX_ENTRIES,    \* of the auxiliary vector
    Arguments,      \* argv: lengths of the strings
    Environments    \* envp

ASSUME BootAssumption ==
    /\ WORD \in Nat \ {0} /\ PAGE_SIZE % (2 * WORD) = 0
    /\ SIZE_MAX \in Nat /\ BOOT_FRAMES \in Nat /\ BOOT_FRAMES > 1
    \* "start_addr should be page aligned"; the linker writes no p_filesz
    \* above p_memsz.
    /\ Segments \in Seq([vaddr : Nat, filesz : 0 .. SIZE_MAX, memsz : Nat, off : Nat])
    /\ \A i \in DOMAIN Segments : /\ Segments[i].vaddr % PAGE_SIZE = 0
                                  /\ Segments[i].filesz <= Segments[i].memsz
    /\ BSS_END \in Nat /\ KERNEL_FRAMES \in Nat
    /\ {KSTACK_PAGES, TSS_PAGES, max_entries, NODE_SIZE, user_stack_page_limit} \subseteq
         Nat \ {0}
    /\ MAX_ENTRIES \in Nat
    /\ Arguments \cup Environments \subseteq Seq(Nat)
    /\ \A a \in Arguments : Len(a) > 0

VARIABLES
    args, envs,     \* what the virtual machine was started with
    at,             \* what is done next
    k,              \* index of the loop that is running
    pt, ram, page_counter,
    image,          \* min_page_addr of the kernel
    ksp,            \* end of what is on the kernel stack so far
    kernel_argv, kernel_envp,   \* pointers to the strings put there
    argv, envp,     \* addresses of the two arrays
    tss,
    gdt,            \* base of the descriptor table the processor uses
    kernel_min_address,
    user_version_end,
    user_stack,     \* user_stack_start and the lowest address mapped for it
    rsp             \* stack pointer the program is entered with

input == <<args, envs>>
host == <<image, ksp, kernel_argv, kernel_envp, argv, envp, tss>>
kernel == <<gdt, kernel_min_address, user_version_end, user_stack, rsp>>
memory == <<pt, ram, page_counter>>
vars == <<input, at, k, memory, host, kernel>>

NULL == 0
SPACE == VA_PAGES * PAGE_SIZE
GDT_FRAME == 1
argc == Len(args)
envc == Len(envs)
-----------------------------------------------------------------------------
(* Contents of memory. *)

Char(kind, i, c) == <<kind, i, c>>
CString(kind, i, len) == [c \in 1 .. len |-> Char(kind, i, c)] \o <<Zero>>
FileByte(off) == <<"file", off, 0>>
FrameByte == <<"frame", 0, 0>>    \* of a call of the kernel
Word(v) == [b \in 1 .. WORD |-> IF v = NULL THEN Zero ELSE <<"word", v, b>>]
WordBytes(words) == [j \in 1 .. Len(words) * WORD |->
                       Word(words[((j - 1) \div WORD) + 1])[((j - 1) % WORD) + 1]]
\* A zero-based array as the sequence of its words.
Listed(f, n) == [i \in 1 .. n |-> f[i - 1]]

ByteAt(va) == Stored(ram, GetPhysAddr(pt, va))
\* The word at va: its value, NULL, or Stray for bytes of something else.
Stray == -1
WordAt(va) ==
    LET bytes == GuestBytes(pt, ram, va, WORD)
    IN  IF bytes = Word(NULL) THEN NULL
        ELSE IF bytes = Word(bytes[1][2]) THEN bytes[1][2] ELSE Stray

\* map_physical_pages(lo, -1, ...) over whole pages below hi.
MapFresh(lo, hi) ==
    /\ pt' = [p \in VaPages |->
                IF p \in PageOf(lo) .. PageOf(hi - 1)
                THEN page_counter + p - PageOf(lo) ELSE pt[p]]
    /\ page_counter' = page_counter + (hi - lo) \div PAGE_SIZE
-----------------------------------------------------------------------------
(* vm/vm.c: run *)

Init ==   \* setup_long_mode: the bootstrap page and the page of the gdt
    /\ args \in Arguments /\ envs \in Environments
    /\ at = "load" /\ k = 1
    /\ pt = [p \in VaPages |-> IF p \in {0, GDT_FRAME} THEN p ELSE NoFrame]
    /\ ram = <<>>
    /\ page_counter = BOOT_FRAMES
    /\ image = SPACE
    /\ ksp = 0 /\ argv = 0 /\ envp = 0 /\ tss = 0
    /\ kernel_argv = <<>> /\ kernel_envp = <<>>
    /\ gdt = GDT_FRAME * PAGE_SIZE
    /\ kernel_min_address = 0 /\ user_version_end = 0 /\ rsp = 0
    /\ user_stack = [start |-> 0, low |-> 0]

\* Mutant of Copied: what is left is compared without the wrap around, and
\* one byte too few is copied from the last page.
MutCopiedShort(seg, i) ==
    LET left == seg.filesz - i * PAGE_SIZE
    IN  IF left <= 0 THEN 0 ELSE IF left < PAGE_SIZE THEN left - 1 ELSE PAGE_SIZE

\* Bytes copied to page i of a segment: size_left_elf is unsigned, so past
\* the end of the file part it is huge and a whole page is copied.
Copied(seg, i) ==
    LET left == (seg.filesz - i * PAGE_SIZE) % (SIZE_MAX + 1)
    IN  IF left < PAGE_SIZE THEN left ELSE PAGE_SIZE

\* load_address_space
SegmentBytes(seg) ==
    [a \in page_counter * PAGE_SIZE ..
           (page_counter * PAGE_SIZE + P2RoundUp(seg.memsz, PAGE_SIZE)) - 1 |->
        LET o == a - page_counter * PAGE_SIZE
        IN  IF PAGE_OFFSET(o) < Copied(seg, o \div PAGE_SIZE)
            THEN FileByte(seg.off + o) ELSE Zero]

\* Memory with what a segment brings written over it.
Over(mem, new) ==
    [a \in DOMAIN mem \cup DOMAIN new |-> IF a \in DOMAIN new THEN new[a] ELSE mem[a]]

LoadSegment ==    \* load_elf_binary, a PT_LOAD header
    /\ at = "load" /\ k \in DOMAIN Segments /\ Segments[k].filesz > 0
    /\ LET seg == Segments[k]
       IN  /\ MapFresh(seg.vaddr, seg.vaddr + P2RoundUp(seg.memsz, PAGE_SIZE))
           /\ ram' = Over(ram, SegmentBytes(seg))
           /\ image' = IF seg.vaddr < image THEN seg.vaddr ELSE image
    /\ k' = k + 1
    /\ UNCHANGED <<input, at, ksp, kernel_argv, kernel_envp, argv, envp, tss, kernel>>

SkipSegment ==    \* a header without file contents
    /\ at = "load" /\ k \in DOMAIN Segments /\ Segments[k].filesz = 0
    /\ k' = k + 1
    /\ UNCHANGED <<input, at, memory, host, kernel>>

\* The lowest page of the kernel stack; below it one page stays unmapped.
StackBottom == image - KSTACK_PAGES * PAGE_SIZE

MapKernelStack ==
    /\ at = "load" /\ k \notin DOMAIN Segments
    /\ pt' = [p \in VaPages |->    \* from the top down
                IF p \in PageOf(StackBottom) .. PageOf(image - 1)
                THEN page_counter + PageOf(image - 1) - p ELSE pt[p]]
    /\ page_counter' = page_counter + KSTACK_PAGES
    /\ ksp' = image
    /\ at' = "argv" /\ k' = argc
    /\ UNCHANGED <<input, ram, image, kernel_argv, kernel_envp, argv, envp, tss, kernel>>

Exit == at' = "exit" /\ UNCHANGED <<input, k, pt, page_counter, image, ksp, kernel_argv,
                                    kernel_envp, argv, envp, tss, kernel>>

\* One string goes below the ones before it; a string off the end of the
\* stack ends the virtual machine.
PutArg ==
    /\ at = "argv" /\ k > 0
    /\ LET string == CString("argv", k - 1, args[k])
           w == WriteVirtualAddr(pt, ram, ksp - Len(string), string)
       IN  /\ ram' = w.ram
           /\ \/ /\ ~w.ok /\ Exit
              \/ /\ w.ok
                 /\ ksp' = ksp - Len(string)
                 /\ kernel_argv' = [i \in k - 1 .. argc - 1 |->
                                      IF i = k - 1 THEN ksp' ELSE kernel_argv[i]]
                 /\ k' = k - 1
                 /\ UNCHANGED <<input, at, pt, page_counter, image, kernel_envp, argv,
                                envp, tss, kernel>>

ArgvDone ==
    /\ at = "argv" /\ k = 0
    /\ at' = "envp" /\ k' = envc
    /\ UNCHANGED <<input, memory, host, kernel>>

PutEnv ==
    /\ at = "envp" /\ k > 0
    /\ LET string == CString("envp", k - 1, envs[k])
           w == WriteVirtualAddr(pt, ram, ksp - Len(string), string)
       IN  /\ ram' = w.ram
           /\ \/ /\ ~w.ok /\ Exit
              \/ /\ w.ok
                 /\ ksp' = ksp - Len(string)
                 /\ kernel_envp' = [i \in k - 1 .. envc - 1 |->
                                      IF i = k - 1 THEN ksp' ELSE kernel_envp[i]]
                 /\ k' = k - 1
                 /\ UNCHANGED <<input, at, pt, page_counter, image, kernel_argv, argv,
                                envp, tss, kernel>>

\* The results of these two writes are not looked at.
PutArrays ==
    /\ at = "envp" /\ k = 0
    /\ argv' = P2Align(ksp, WORD) - argc * WORD
    /\ envp' = argv' - (envc + 1) * WORD
    /\ LET w == WriteVirtualAddr(pt, ram, argv', WordBytes(Listed(kernel_argv, argc)))
           pointers == Listed(kernel_envp, envc) \o <<NULL>>
       IN  ram' = WriteVirtualAddr(pt, w.ram, envp', WordBytes(pointers)).ram
    /\ ksp' = envp'
    /\ at' = "tss"
    /\ UNCHANGED <<input, k, pt, page_counter, image, kernel_argv, kernel_envp, tss, kernel>>

\* Mutant of TssStart: the loop's last address taken for the lowest page.
MutTssStartHigh == StackBottom - (TSS_PAGES - 1) * PAGE_SIZE

\* setup_kernel_tss is given the address one page below the stack.
TssStart == StackBottom - PAGE_SIZE - TSS_PAGES * PAGE_SIZE

SetupTss ==       \* setup_kernel_tss; all registers but those of the arguments are 0
    /\ at = "tss"
    /\ tss' = TssStart
    /\ MapFresh(tss', tss' + TSS_PAGES * PAGE_SIZE)
    /\ at' = "start"
    /\ UNCHANGED <<input, k, ram, image, ksp, kernel_argv, kernel_envp, argv, envp, kernel>>
-----------------------------------------------------------------------------
(* kernel/c/kernel.c: kernel_main *)

\* Calls of the kernel with `size` bytes of frames below rsp = 0.  The pages are
\* the last of the image.  An unmapped one is a fault nobody handles; frames over
\* the kernel's variables leave what it does from there on open.
CallsUse(size, next) ==
    LET used == {va \in SPACE - size .. SPACE - 1 : Mapped(pt, va, SPACE - va)}
    IN  /\ ram' = Over(ram, [a \in {GetPhysAddr(pt, va) : va \in used} |-> FrameByte])
        /\ at' = IF \E va \in used : va < BSS_END THEN "corrupt"
                 ELSE IF Mapped(pt, SPACE - size, size) THEN next ELSE "fault"

CallKernelMain ==    \* bootstrap, _start
    /\ at = "start"
    /\ CallsUse(KERNEL_FRAMES, "map_gdt")
    /\ UNCHANGED <<input, k, pt, page_counter, host, kernel>>

MapGdt ==         \* the page of the gdt is mapped a second time
    /\ at = "map_gdt"
    /\ kernel_min_address' = tss - PAGE_SIZE
    /\ pt' = [pt EXCEPT ![PageOf(kernel_min_address')] = GDT_FRAME]
    /\ at' = "gdt_init"
    /\ UNCHANGED <<input, k, ram, page_counter, host, gdt, user_version_end, user_stack, rsp>>

\* Mutant of GdtInit: the table is not loaded from its new address.
MutGdtInitStays ==
    /\ at = "gdt_init"
    /\ at' = "unmap"
    /\ UNCHANGED <<input, k, memory, host, kernel>>

GdtInit ==
    /\ at = "gdt_init"
    /\ gdt' = kernel_min_address
    /\ at' = "unmap"
    /\ UNCHANGED <<input, k, memory, host, kernel_min_address, user_version_end, user_stack, rsp>>

UnmapBootstrap ==
    /\ at = "unmap"
    /\ pt' = [pt EXCEPT ![0] = NoFrame, ![1] = NoFrame]
    /\ at' = "vma_init"
    /\ UNCHANGED <<input, k, ram, page_counter, host, kernel>>

\* vma_init: the heap starts below the kernel by the number of nodes, not by
\* their size.
vma_max_num == P2RoundUp(max_entries * NODE_SIZE, PAGE_SIZE) \div NODE_SIZE - 1

VmaInit ==
    /\ at = "vma_init"
    /\ kernel_min_address' = P2Align(kernel_min_address - vma_max_num, PAGE_SIZE)
    /\ MapFresh(kernel_min_address', kernel_min_address)
    /\ at' = "versions"
    /\ UNCHANGED <<input, k, ram, host, gdt, user_version_end, user_stack, rsp>>

VersionEnd == P2Align(kernel_min_address, 2 * PAGE_SIZE)

ReserveVersions ==   \* lower half: user memory, upper half: its versions
    /\ at = "versions"
    /\ user_version_end' = VersionEnd
    /\ kernel_min_address' = user_version_end' \div 2
    /\ at' = "user_stack"
    /\ UNCHANGED <<input, k, memory, host, gdt, user_stack, rsp>>

UserStackInit ==  \* user_stack_init(user_version_start, limit)
    /\ at = "user_stack"
    /\ user_stack' = [start |-> kernel_min_address, low |-> kernel_min_address - PAGE_SIZE]
    /\ MapFresh(user_stack'.low, user_stack'.start)
    /\ at' = "arrays"
    /\ UNCHANGED <<input, k, ram, host, gdt, kernel_min_address, user_version_end, rsp>>
-----------------------------------------------------------------------------
(* load_user_land: the kernel reads its arguments from its stack. *)

EnvpEnds(n) == /\ WordAt(envp + n * WORD) = NULL
               /\ \A i \in 0 .. n - 1 : WordAt(envp + i * WORD) # NULL
KernelEnvc == CHOOSE n \in 0 .. envc : EnvpEnds(n)
EnvpUnreadable == ~Mapped(pt, envp, WORD) \/ \A n \in 0 .. envc : ~EnvpEnds(n)

AllocateArrays ==    \* user_argv[argc] and user_envp[envc], below the other frames
    /\ at = "arrays" /\ ~EnvpUnreadable
    /\ CallsUse(KERNEL_FRAMES + (argc + KernelEnvc) * WORD, "user_land")
    /\ UNCHANGED <<input, k, pt, page_counter, host, kernel>>

StringEnds(va, n) == /\ ByteAt(va + n) = Zero
                     /\ \A i \in 0 .. n - 1 : ByteAt(va + i) # Zero
StrLen(va) == CHOOSE n \in 0 .. PAGE_SIZE * KSTACK_PAGES : StringEnds(va, n)

\* Mutant of Position: no room for the terminators.
MutPositionNoNul(array, n, top) ==
    LET pos[i \in 0 .. n] ==
            IF i = n THEN top ELSE pos[i + 1] - StrLen(WordAt(array + i * WORD))
    IN  pos

\* Where string i of an array goes when the last one ends at top.
Position(array, n, top) ==
    LET pos[i \in 0 .. n] ==
            IF i = n THEN top ELSE pos[i + 1] - (StrLen(WordAt(array + i * WORD)) + 1)
    IN  pos

\* new_aux_entry, in the order of the calls; what the loader found is told
\* apart by the entry only.
AuxIds == <<9, 8, 7, 5, 4, 3, 6, 25>>   \* AT_ENTRY .. AT_RANDOM
AuxValue(id, random) == CASE id = 25 -> random
                          [] id = 6 -> PAGE_SIZE
                          [] id = 8 -> 0
                          [] OTHER -> 1000 + id
Aux == SubSeq(AuxIds, 1, IF Len(AuxIds) > MAX_ENTRIES THEN MAX_ENTRIES ELSE Len(AuxIds))

Items(n) == (argc + 1) + (n + 1) + 1

\* The addresses load_user_land computes before it writes anything.
UserLayout ==
    LET n == KernelEnvc
        strings == Position(argv, argc, user_stack.start)
        settings == Position(envp, n, strings[0])
        random == settings[0] - 2 * WORD
    IN  [argv |-> strings, envc |-> n, envp |-> settings, random |-> random,
         sp |-> P2Align(random - (2 * Len(Aux) + 2 + Items(n)) * WORD, 2 * WORD)]

\* Everything from the stack pointer up to the two words of the null entry.
UserWords(u) ==
    <<argc>> \o [i \in 1 .. argc |-> u.argv[i - 1]] \o <<NULL>>
             \o [i \in 1 .. u.envc |-> u.envp[i - 1]] \o <<NULL>>
             \o [i \in 1 .. 2 * Len(Aux) |->
                   IF i % 2 = 1 THEN Aux[(i + 1) \div 2] ELSE AuxValue(Aux[i \div 2], u.random)]
             \o <<NULL, NULL>>

\* An array of pointers to strings, each with its end on the stack.
Readable(array, n) ==
    /\ Mapped(pt, array, n * WORD)
    /\ \A i \in 0 .. n - 1 : LET s == WordAt(array + i * WORD)
                             IN  /\ s \notin {NULL, Stray}
                                 /\ \E l \in 0 .. PAGE_SIZE * KSTACK_PAGES : StringEnds(s, l)

\* A fault of the kernel's own outside the version store: nothing handles it.
ArgumentsUnreadable ==
    ~Readable(argv, argc) \/ EnvpUnreadable \/ ~Readable(envp, KernelEnvc)

GrownLow(sp) == P2RoundUp(sp, PAGE_SIZE) - PAGE_SIZE
\* Mutant of TooDeep: the limit itself is refused.
MutTooDeepAtLimit(sp) ==
    (user_stack.start - GrownLow(sp)) \div PAGE_SIZE >= user_stack_page_limit

TooDeep(sp) == (user_stack.start - GrownLow(sp)) \div PAGE_SIZE > user_stack_page_limit

KernelFaults ==   \* the result of grow_stack is not looked at
    /\ \/ at = "arrays" /\ EnvpUnreadable
       \/ at = "user_land" /\ (ArgumentsUnreadable \/ TooDeep(UserLayout.sp))
    /\ at' = "fault"
    /\ UNCHANGED <<input, k, memory, host, kernel>>

\* The strings are copied as one block each, from the first one on.
LoadUserLand ==
    /\ at = "user_land" /\ ~ArgumentsUnreadable
    /\ \E u \in {UserLayout} : \E words \in {WordBytes(UserWords(u))} :
         LET Block(array, n, pos) ==
                 GuestBytes(pt, ram, IF n = 0 THEN 0 ELSE WordAt(array), pos[n] - pos[0])
             Put(mem, va, bytes) == WriteVirtualAddr(pt', mem, va, bytes).ram
             strings == Put(Put(ram, u.argv[0], Block(argv, argc, u.argv)),
                            u.envp[0], Block(envp, u.envc, u.envp))
         IN  /\ ~TooDeep(u.sp)
             /\ MapFresh(GrownLow(u.sp), user_stack.start)   \* grow_stack: nothing to move yet
             /\ ram' = Put(strings, u.sp, words)
             /\ user_stack' = [user_stack EXCEPT !.low = GrownLow(u.sp)]
             /\ rsp' = u.sp
    /\ at' = "user"
    /\ UNCHANGED <<input, k, host, gdt, kernel_min_address, user_version_end>>

Next ==
    \/ LoadSegment \/ SkipSegment \/ MapKernelStack \/ PutArg \/ ArgvDone \/ PutEnv
    \/ PutArrays \/ SetupTss
    \/ CallKernelMain \/ MapGdt \/ GdtInit \/ UnmapBootstrap \/ VmaInit \/ ReserveVersions
    \/ UserStackInit \/ AllocateArrays \/ KernelFaults \/ LoadUserLand

Spec == Init /\ [][Next]_vars /\ WF_vars(Next)
-----------------------------------------------------------------------------
(***************************************************************************)
(* What the code takes for granted of kernel.elf and of its arguments and  *)
(* does not look at: the linker script puts the kernel, segments apart and *)
(* the bss behind everything that has contents, at the top of the address  *)
(* space with room below it for everything that is placed downwards from   *)
(* it; and no string, nor the two arrays, is as long as the space below    *)
(* the kernel's stack.                                                     *)
(***************************************************************************)
Loaded == {i \in DOMAIN Segments : Segments[i].filesz > 0}
SegmentEnd(i) == Segments[i].vaddr + P2RoundUp(Segments[i].memsz, PAGE_SIZE)
Bases == {Segments[i].vaddr : i \in Loaded} \cup {SPACE}
HeapBelow(base) ==
    P2Align((base - (KSTACK_PAGES + TSS_PAGES + 2) * PAGE_SIZE) - vma_max_num, PAGE_SIZE)
KernelFits ==
    /\ \A i \in Loaded : /\ SegmentEnd(i) <= SPACE
                         /\ Segments[i].vaddr + Segments[i].filesz <= BSS_END
    /\ \E i \in Loaded : Segments[i].vaddr <= BSS_END /\ SegmentEnd(i) = SPACE
    /\ \A i, j \in Loaded : i # j => \/ SegmentEnd(i) <= Segments[j].vaddr
                                     \/ SegmentEnd(j) <= Segments[i].vaddr
    /\ \A b \in Bases :
         user_stack_page_limit * PAGE_SIZE <= P2Align(HeapBelow(b), 2 * PAGE_SIZE) \div 2

ArgumentsBounded ==
    \A b \in Bases :
        LET room == b - KSTACK_PAGES * PAGE_SIZE
        IN  /\ \A a \in Arguments \cup Environments : \A j \in DOMAIN a : a[j] + 1 <= room
            /\ \A a \in Arguments, e \in Environments : (Len(a) + Len(e) + 2) * WORD <= room

\* The auxiliary vector has room for the entries load_user_land makes.
AuxFits == Len(AuxIds) <= MAX_ENTRIES
-----------------------------------------------------------------------------
GuestRuns == at \in {"start", "map_gdt", "gdt_init", "unmap", "vma_init", "versions",
                     "user_stack", "arrays", "user_land", "user"}

\* The file part of the kernel's image is in place, and so is what is clear up
\* to the kernel's last variable on the page behind it, from the end of the loop
\* over the headers to the entry into the program: the boot writes into the
\* image only from its own calls, at the very end, and as long as their frames
\* keep to the padding there that is all they take (load_elf_binary,
\* load_address_space, kernel_main, load_user_land).
ImageLoaded ==
    at \notin {"load", "corrupt"} => \A i \in DOMAIN Segments :
        LET seg == Segments[i]
        IN  seg.filesz > 0 =>
              \A o \in 0 .. P2RoundUp(seg.filesz, PAGE_SIZE) - 1 :
                seg.vaddr + o < BSS_END =>
                ByteAt(seg.vaddr + o) = IF o < seg.filesz THEN FileByte(seg.off + o) ELSE Zero

\* vm/elf.c: "p_filesz can be smaller than p_memsz, the difference is zeroe'd
\* out."
BssZeroed ==
    at # "load" => \A i \in DOMAIN Segments :
        LET seg == Segments[i]
        IN  seg.filesz > 0 =>
              \A o \in seg.filesz .. seg.memsz - 1 :
                seg.vaddr + o < BSS_END => ByteAt(seg.vaddr + o) = Zero

\* While the guest runs, the descriptor table the processor uses is mapped
\* and is the one the host filled, although the kernel maps it a second time
\* and unmaps the first place (kernel_main, gdt_init).
GdtMapped == GuestRuns => pt[PageOf(gdt)] = GDT_FRAME

\* When the program is entered no two pages share a frame, and image, kernel
\* stack, task state segment, descriptor table, area heap, version store and
\* all the user stack may grow to are apart, although each place is computed
\* from the one before (run, setup_kernel_tss, kernel_main).
Regions ==
    {<<Segments[i].vaddr, Segments[i].vaddr + Segments[i].memsz>> :
        i \in {j \in DOMAIN Segments : Segments[j].filesz > 0}}
    \cup {<<StackBottom, image>>, <<tss, tss + TSS_PAGES * PAGE_SIZE>>,
          <<gdt, gdt + PAGE_SIZE>>, <<P2Align(gdt - vma_max_num, PAGE_SIZE), gdt>>,
          <<kernel_min_address, user_version_end>>,
          <<user_stack.start - user_stack_page_limit * PAGE_SIZE, user_stack.start>>}
LayoutSound ==
    at = "user" =>
        /\ \A p, q \in VaPages : pt[p] = pt[q] => p = q \/ pt[p] = NoFrame
        /\ \A r, s \in Regions : r # s => r[2] <= s[1] \/ s[2] <= r[1]
        /\ \A p \in PageOf(kernel_min_address) .. PageOf(user_version_end - 1) : pt[p] = NoFrame

\* What the program finds at its stack pointer is what the virtual machine
\* was started with: argc, the strings of argv and envp behind pointers that
\* end with NULL, and the auxiliary vector, on an aligned stack inside the
\* user stack, although the strings travel over the kernel's stack as two
\* blocks (run, load_user_land).  Arrays off the end of the kernel's stack
\* are what vm.c's TODO is about and are left out.
StringAt(va, kind, i, len) ==
    /\ va + len < user_stack.start
    /\ GuestBytes(pt, ram, va, len + 1) = CString(kind, i, len)
ProgramGetsArguments ==
    at = "user" /\ envp >= StackBottom =>
        LET W(n) == WordAt(rsp + n * WORD)
            auxv == argc + envc + 3
        IN  /\ rsp % (2 * WORD) = 0 /\ Mapped(pt, rsp, user_stack.start - rsp)
            /\ W(0) = argc
            /\ \A i \in 0 .. argc - 1 : StringAt(W(1 + i), "argv", i, args[i + 1])
            /\ W(argc + 1) = NULL
            /\ \A i \in 0 .. envc - 1 : StringAt(W(argc + 2 + i), "envp", i, envs[i + 1])
            /\ W(argc + envc + 2) = NULL
            /\ \A i \in DOMAIN AuxIds : W(auxv + 2 * (i - 1)) = AuxIds[i]
            /\ W(auxv + 2 * Len(AuxIds)) = NULL /\ W(auxv + 2 * Len(AuxIds) + 1) = NULL

\* Arguments that fit the kernel's stack, the padding its calls run in and the
\* limit of the user stack are never refused: the machine gets to the program
\* (run, load_user_land).
Bytes(lens) == LET sum[i \in 0 .. Len(lens)] == IF i = 0 THEN 0 ELSE sum[i - 1] + lens[i] + 1
               IN  sum[Len(lens)]
ArgumentsFit ==
    LET words == argc + envc + 1
        strings == Bytes(args) + Bytes(envs)
    IN  /\ P2RoundUp(strings, WORD) + words * WORD <= KSTACK_PAGES * PAGE_SIZE
        /\ KERNEL_FRAMES + (argc + envc) * WORD <= SPACE - BSS_END
        /\ strings + (words + 2 * Len(AuxIds) + 8) * WORD <= user_stack_page_limit * PAGE_SIZE
ProgramEntered == ArgumentsFit ~> at = "user"
=============================================================================
