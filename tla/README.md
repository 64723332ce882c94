# BufferVM in TLA+

BufferVM runs one Linux program inside a KVM virtual machine with a small
kernel of its own. Every byte of the program's memory has a version, a pointer
carries a version in its upper bits, and an access whose versions differ ends
the program. This directory holds TLA+ modules of the parts of that machine
that keep state, the TLC configurations that check them on small instances,
and TLAPS proofs of the central results for every instance.

Paths such as `kernel/c/vma.c` are below `src/`. `PROJECT.json` maps every
definition to the lines it translates.

## 1. The system

| Part | State | Operations | Talks to |
|---|---|---|---|
| Areas: `kernel/c/vma.c`, `mmap.c`, `common/vma.c`, `kernel/c/rbtree.c` | ordered list and red-black tree of `vm_area_t`, stored gaps, `vma_highest_addr` | `mmap`, `munmap`, `vma_split`, `vma_merge`, `vma_adjust`, gap search | host calls, node allocator |
| Program break: `syscall_brk` in `kernel/c/syscall.c` | `curr_brk`, `user_heap_vma` | `brk` | areas |
| Stack and user page fault: `kernel/c/stack.c`, `page_fault.c` | the stack's area | `grow_stack`, `handle_user_page_fault` | areas |
| Node allocator: `kernel/c/vma_heap.c` | free list through `next_freed`, heap head, node counter | `vma_alloc`, `vma_zalloc`, `vma_free` | host calls for its pages |
| Host side of areas: `vm/vma.c`, `vm/paging.c` | page tables, `page_counter`, the host mappings behind the frames | `kernel_map_vma`, `kernel_unmap_vma`, `remap_region` | called from the areas |
| Versions: `kernel/c/version.c`, `libc/version.c`, `kernel/asm/page_fault.S`, `idt.S` | version store and its pages, per-CPU slots, processor state | `set_version`, `get_version`, `check_version`, the page fault, the single step | page tables, areas |
| System calls: `kernel/asm/syscall.S`, `kernel/c/syscall.c` | per-CPU stack slots, gs and fs bases | the bounds check, the table, forwarding, `arch_prctl` | all of the above, host calls |
| ELF loader and user land entry: `kernel/c/elf.c`, `kernel.c`, `do_brk` | bias and ends of the file being loaded | `load_elf64_pg_hdrs`, `load_user_land` | areas, stack |
| Boot: `vm/vm.c`, `vm/elf.c`, `kernel/c/kernel.c` | layout of the address space, kernel stack, descriptor table, the arguments on their way | `run`, `load_elf_binary`, `setup_kernel_tss`, `kernel_main`, `load_user_land` | page tables, areas |
| Host calls: `vm/host.c`, `kernel/asm/host.S`, `common/host.h`, the loop of `vm/vm.c` | registers at the exit, the tables, `exit_vm` | `handle_host_call`, `vm_ptr`, the handlers | page tables, areas, host system calls |
| Libc, examples, host kernel module | see section 8 | | |

A system call or a fault enters the kernel on the one virtual processor with
interrupts off and runs to its end. The kernel reaches the host by a host call,
a VM exit that `vm/vm.c` handles synchronously before it enters the guest
again. So two system calls never interleave; what is hard is elsewhere:

* *Long sequences of legal calls.* A boundary of an area moves in a split, a
  merge, a `brk` or a stack growth, and only a *new* area is ever compared with
  the others (`vma_find_links`).
* *Several records of one fact.* The list, the tree and the stored gaps; an
  area and the range the host last mapped for it; `user_heap_vma` and the node
  it points to; a descriptor and the areas that remap from it.
* *Order inside one call.* Mapping before unmapping, two halves of a split
  sharing frames between two host calls.
* *The version check*, which does interleave: a user access, the fault, nested
  faults on the version store, a `retq` with the trap flag set, the access at
  kernel privilege and two debug exceptions, with `swapgs` and a per-CPU
  counter to tell the kernel's traps from the program's.
* *Limits:* no gap left, stack at its limit, operand at a page boundary,
  operand wider than what is checked, top of the address space, arguments that
  fill the kernel's stack, more nodes than the room kept for them.
* *Two ways to guest memory.* The handlers of the kernel's calls go page by page
  through the page tables; those of the program's calls get one host pointer,
  computed from the area of the first byte.

What makes each part correct:

* Areas: disjoint and non-empty; each call changes exactly the pages it is
  about; the tree is the list; the search finds the highest gap; each file
  mapping keeps a descriptor of its own.
* Host: an entry belongs to the area over its page; no frame is shared; data
  stays with its page when frames move.
* Node allocator: the free list ends, loses no node and holds no owned one.
* Versions: no byte within the reach of the check is accessed with the wrong
  version; alarms have a cause; every access ends; the program gets its context
  back.
* Boot: the kernel's image is what its file says, while the kernel runs on its
  last pages; the regions are apart; the program finds the arguments the machine was started with.
* Host calls: a stub reaches its handler; the bytes moved are the caller's, all of
  them and no others; every call is answered; the kernel keeps its gs base.

## 2. Modules

| Module | Models | State | Actions |
|---|---|---|---|
| `Vma` | areas, break, stack growth, user page fault | `areas`, `highest`, `brk`, `heap`, `fds`, `host`, `status` | `SysMmap`, `SysMunmap`, `SysBrk`, `UserPageFault` |
| `AddrSpace` | what those calls promise, page by page | `space`, `heapEnd`, `up` | `Mmap`, `Munmap`, `BrkStart`, `BrkGrow`, `Grow`, `Halt` |
| `VmaRefines` | the map from areas to pages | | |
| `HostPaging` | the host calls, as values for constants of `Vma` | a record in `host` | |
| `VmaTree` | list, red-black tree and gaps, pointer by pointer | `t` | `Map`, `Split`, `Unmap`, `MergeUp`, `MergeDown`, `MergeBoth`, `Brk` |
| `VmaHeap` | the node allocator | `vma_free_list`, `next_freed`, `vma_alloc_num`, `carved`, `mapped`, `uses` | `AllocFreed`, `AllocFails`, `AllocCarved`, `Free` |
| `Version` | the version check from the access to the return | see the module | three of the program, thirteen of the machine |
| `Loader` | ELF loading and entry, then the program's calls of `Vma` | `image`, `phase`, `hdr`, `load_offset`, `max_faddr`, `max_maddr`, `fd`, `elf_bias`, `max_page_addr` and those of `Vma` | `ReadBinary`, `LoadHeader`, `FinishProgram`, `FinishInterp`, `LoadUserLand`, `UserStep` |
| `GuestMem` | translation and the three copies of `vm/paging.c` | none: page table and memory are arguments | |
| `Boot` | start of the machine to the program's first instruction | `pt`, `ram`, `page_counter`, the addresses `run` and `kernel_main` compute, `at`, `k` | eight of the host, ten of the kernel |
| `HostCall` | system call entry, stubs, run loop, handlers | `at`, `asked`, `regs`, `result`, `ram`, `effect`, `stream`, `gs`, `kernel_gs`, `fs`, `set_gs`, `calls` | eight of the guest, two exits, one per handler |
| `MCVma`, `MCHost`, `MCLoader`, `MCVersion`, `MCBoot`, `MCHostCall` | layouts and sets of calls for TLC | | |
| `VmaProofs`, `VmaRefinesProofs` | theorems about `Vma`: types, disjointness and descriptors; the break and the refinement of `AddrSpace` | | |
| `HostPagingProofs`, `VmaHeapProofs`, `VersionProofs`, `GuestMemProofs`, `HostCallProofs`, `BootProofs` | theorems about the module of that name | | |

### Vma

An area is a record with the fields of `vm_area_t`; `hv` is what the host
wrote into it at the last mapping (`phys_page_start`, `last_start_addr`,
`last_end_addr`). The list and the tree are one set, and an area is named by
its start, which is what a pointer to it is in this model. `heap` holds
`user_heap_vma`: `NULL`, an area, or `DANGLING` once the node was freed. Every
helper takes and returns the record `Mm` of the variables, in the order of the
code's calls; an action commits the last one. Addresses are `0 .. WORD-1` and
`Add`, `Sub` and `PAGE_ALIGN` wrap as `uint64_t` does.

Two things of the code are easily mistaken for mistakes of the model:

* `get_unmapped_area_unchecked` falls off its end for a hint it cannot use.
  What its caller reads is undefined; `LeftInRax` is the set of values an
  unoptimised build leaves in the return register.
* The address that comes back is used unseen, `-ENOMEM` and `-EINVAL` included.

`status` says how the model ends: `exit` (the kernel stops the program),
`corrupt` (a range wrapped, or the stack grew over a mapping, and the tree is no
longer ordered: what its searches then find depends on its shape), `wild`
(`brk` through a dangling pointer). Nothing is claimed about what follows
`corrupt` or `wild`.

The host calls are constants: `KernelMapVma`, `KernelUnmapVma`, `Present`. With
trivial values (`MCVma`) TLC checks the areas alone; with those of `HostPaging`
it checks the whole path to the page table entry. The proofs hold for *any*
value.

### Loader

An ELF file is its type and its `PT_LOAD` headers; one step loads one header.
Loading goes through the same operators as the program's own calls
(`GetUnmappedArea`, `MmapAt`, `Munmap`, `MmapRegion`), so what it relies on
there is checked and not assumed. `ElfMap` is `elf_map` with the reservation of the whole
image and the return of its rest. When the program and, if it has one, its interpreter are in
place and the stack holds the arguments, `UserStep` goes on with `Next` of `Vma`:
the starting point of the program's calls is then a state the loader built. The
heap start is a constant of `Vma`, so only images that end there go on.

### HostPaging

One entry per page, frames numbered by `page_counter`, and for every frame what
its memory holds: a place in a file, or fresh memory told apart by its frame.
`remap_region` is `mremap`: the old frame becomes a `Hole`. A second move from
a hole fails in the code and the host spins (`vm/vma.c:64`); that sets `stuck`.

### VmaTree

The tree as records of child and parent pointers, colours and gaps, with
rotations, the insertion fix-up and the erasure of `rbtree.c`, and the gap
callbacks of `vma.c`. After every action nodes are renamed in address order
(`Renamed`), which identifies states that differ in node names only. The search
`FindNextGap` is the code's pruned walk; `SearchFindsHighestGap` compares it
with the definition of the highest gap for every length in every state.

### VmaHeap

Node `k` lies `k * NODE_SIZE` bytes into the heap. `uses` counts the owners
that a node was handed to; it is more than one when the allocator hands a node
out twice, which the code can do (section 4).

### Version

An instruction is its memory operand (pointer with version, length), the operand
width XED gives for it, and the stack pointer the program has. The two lengths
are apart because `check_version_instruction` asks for
`xed_decoded_inst_get_operand_width`, the effective operand size: 4 for `movzbl`
with its operand of one byte, 4 for a vector operand of 8 or 16 bytes without
REX.W. An instruction XED does not decode has no width. `Shapes` are the pairs. The
address in `cr2` keeps the pointer's version, and `handle_user_page_fault` looks
the area up with it, so a versioned pointer into the stack's reserve is a
segmentation fault (`VmaFound`). The machine's steps are those between which the
code keeps state in registers or per-CPU slots: `RunUser` and `RunKernel` (the
access at either privilege), `UserFault`/`KernelFault` (entry), `Grow`,
`handle_segfault`, one `CheckByte` for each byte `check_version` compares,
`FillStore` (the nested fault on the version store), `SetUpStep`, `Retq`, and
`DebugHandler`. `at` is where the processor is. System calls of the program are
single steps, as `syscall_entry` restores what it changes.

### GuestMem

`pt` maps a page to a frame and `ram` a physical address to what is stored there;
a byte that was never written is zero, as `vm.mem` is fresh anonymous memory. A
byte is a tuple that says where it came from (a character of a string, a place in
a file, part of a word), so two bytes are equal only if they are the same datum.
`ReadVirtualAddr`, `WriteVirtualAddr` and `ReadVirtualCstr` go page by page with
the code's arithmetic, `read_virtual_cstr`'s index included. `GuestBytes` is the
reference: memory as the processor sees it, byte by byte.

### Boot

One action for each call of `run`, `kernel_main` and `load_user_land` that
changes memory or the layout, one per program header and per string in their
loops. `at` is where the boot is, `exit` and `fault` are its two bad ends (the
host gives up; the kernel touches unmapped memory, which nothing handles).
Positions on the user stack are computed by the kernel from what it *reads* from
its own stack (`WordAt`, `StrLen`), so an array that was not written, or written
elsewhere, has its consequences.

That stack is what `run` fills from the top; the kernel's *calls* use another place.
`run` zeroes the registers and nobody sets `rsp`, so that `_start` calls `kernel_main`
with `rsp` 0 and the frames go downwards from the end of the address space, which
through the shared upper tables is the end below 2^39 and, by `kernel.ld`, the end of
the image. `CallsUse` writes them there: `KERNEL_FRAMES` bytes for the calls of
`kernel_main`, then the two arrays of `load_user_land`, whose size the arguments decide
(`AllocateArrays`). `BSS_END` is the end of the kernel's last variable; from there to
the end of the last page there is padding. Frames that keep to the padding do no harm.
An unmapped page there is a fault nobody handles, and frames below `BSS_END` overwrite
variables: what the kernel does from there on is left open (`at = "corrupt"`, a third
bad end).

### HostCall

A system call of the program or a call of the kernel ends in a stub, which leaves
a number in `rax` and stops the processor (`hlt`); the host looks the number up,
translates the arguments the table marks as pointers, runs the handler and
resumes. `asked` is what the guest meant, `regs` what the host sees. Handlers may
answer whatever the host system call may: an error, part of a write, a short
read. `effect` is what reached the host. System calls the kernel answers alone
(`arch_prctl`, `ioctl`, numbers outside the table) are single steps; those with
models of their own (`mmap`, `munmap`, `brk`, the versions) are not repeated.
`pt` follows from the areas as `HostPaging` leaves them, on consecutive frames
each; `HostKnowsBounds` of the `host` run is what `vm_ptr` relies on there.
`host_merge` shows a state in which an area lacks entries, which is not among the
inputs here. `STAT_SIZE` is the host's `struct stat` (144 bytes) and `VM_STAT_SIZE` the
kernel's `vm_stat_t` (120), which is the buffer `kernel_stat` and `kernel_fstat` are
given.

## 3. Runs that pass

| Run | Checks | Size |
|---|---|---|
| `vma_anon` | `AreasWhole`, `Disjoint`, `HeapEndsAtBreak`, `HighestIsTop`, `ImplementsAddrSpace` over anonymous mappings, hints, `MAP_FIXED`, `MAP_GROWSDOWN`, `munmap`, `brk` and touches of the stack's reserve | 103 000 states, 2 min |
| `loader` | `ImageInPlace`, `LoadsSucceed` for six pairs of program and interpreter, then `OwnDescriptor`, `ProgramKeepsPages` over file mappings, `munmap`, `brk` and a refused call | 115 000 states, 1.5 min |
| `host` | `PageTableSound`, `FramesPrivate`, `HostKnowsBounds`, `NoWrongData` with the real host calls | 493 000 states, 2 min |
| `tree` | `TypeOK`, `TreeIsList`, `RootIsBlack`, `SearchFindsHighestGap` | 168 000 states, 1.5 min |
| `heap` | `TypeOK`, `FreeListEnds`, `NoNodeLost`, `NodesMapped`, `KernelPagesKept` | 495 000 states, 20 s |
| `version` | `TypeOK`, `ContextRestored`, `AlarmExplained`, `OnlyMatchingAccesses`, `AccessResolves` | 218 000 states, 70 s |
| `boot` | `ImageLoaded`, `GdtMapped`, `LayoutSound`, `ProgramGetsArguments`, `ProgramEntered` over 180 pairs of arguments and environment | 3 100 states, 30 s |
| `hostcall` | `CallsReachHandlers`, `OutputIsCallers`, `InputArrives`, `NamesAreCallers`, `GsKept`, `BufferOnly`, `CallAnswered` | 19 000 states, 10 s |

What they show:

* `ImplementsAddrSpace` is the refinement: seen page by page, an `mmap` lands on
  a range it may be given and changes nothing else, `munmap` leaves every page
  outside its range as it was, `brk` and stack growth take unmapped pages only.
  It covers splits at both ends, all three merges and the search;
  `ProgramKeepsPages` is the same promise for file offsets, from a loaded image.
* `ImageInPlace` compares the address space after loading, page by page, with
  what the headers of both files say, by a definition that does not use the
  loader's arithmetic.
* `PageTableSound`, `FramesPrivate` and `NoWrongData` say the same of the host
  side: nothing is reachable after `munmap`, and data follows its page through
  every remap, *or the page is lost altogether*: see `host_merge`.
* `HeapEndsAtBreak`: a later `brk` never moves the end of the heap area back over
  pages in use, whose entries it would not clear. `HighestIsTop`: the cached end of
  the last area, from which the search starts, is right after every call.
* `SearchFindsHighestGap` holds although `brk` leaves the gap of the next area
  too large: the search reads the real gap at the node it stops at.
* `RootIsBlack` holds although `rb_erase` never rebalances, which keeps
  `rb_insert` off the missing grandparent of a red root.
* `FreeListEnds`: stale links never close a cycle.
* `AreasWhole`: the bounds of every area stay on pages, and a file mapping starts at
  a page of its file, although `munmap`, hints, `brk` and touches of the stack are
  given any byte; the host maps frame by frame from these bounds.
* `OnlyMatchingAccesses`: two debug exceptions bound exactly one instruction, and no
  byte of its operand within `Reach` has another version. `Reach` is what the check
  answers for: XED's width, or ten bytes when that is wider or unknown. For an operand
  no longer than that it is every byte; of a longer one the rest is accessed whatever
  its version (without `Reach` TLC refutes the property; section 8). `AlarmExplained`
  is the converse, with the bytes of `Reach` behind a short operand among the causes.
* `ImageLoaded`: from the end of the load to the entry into the program the file part of
  the image is in place, and so is what is clear behind it up to `BSS_END`. The kernel's
  own calls write into the image, at its end; the property says that nothing else does
  and that the calls take no more than the padding, unless the kernel is `corrupt`.
  The run has arguments that lead there.
* `AccessResolves`: no access faults for ever.
* `HostKnowsBounds`: after every call the range the host last mapped for an area is
  the area, whatever moved its bounds; `vm_ptr` and the `invlpg` loop of
  `unmap_vma` rely on it.
* `KernelPagesKept`: the node allocator takes no page of the kernel *while its nodes
  fit below*, and `vma_init` keeps far less room than it has nodes (section 8).
* `LayoutSound`: the regions of the address space, each computed from the one before
  with a rounding of its own, are apart when the program is entered, and no frame
  is mapped twice any more. The kernel stack among them is the one that is mapped for
  it, not the end of the image where the calls run. `GdtMapped`: on the way there the descriptor table in
  use is always mapped.
* `ProgramGetsArguments` compares what the program reads at its stack pointer with
  what the machine was started with, across two stacks and four loops.
  `ProgramEntered` says that arguments that fit (the kernel's stack, the padding its
  calls run in, the limit of the user stack) are not refused.
* `OutputIsCallers`, `InputArrives`, `BufferOnly`: over page boundaries and holes,
  with versioned pointers and short transfers, the bytes moved are the caller's.
  For calls that go through `vm_ptr` this is promised inside one area only.
  `BufferOnly` takes the buffer the guest declares; the kernel's two `stat` calls are
  allowed the bytes by which the host's structure is longer, and no more. Without that
  second alternative TLC refutes it: the code writes past its buffer (section 8).
* `NamesAreCallers` holds while a kernel's name ends before the last byte of its
  page; `read_virtual_cstr` is off beyond it, and those inputs are in the run. A
  `kernel_stat` whose answer is written over the name is left out: the name is
  compared with memory after the call.
* `GsKept`: every way in and out of the kernel swaps the gs bases an even number of
  times.

Each property has a mutant in `PROJECT.json`: a plausible bug, written beside the
definition it replaces (`Mut...`), under which TLC finds the property violated.

## 4. Runs that show a disagreement

Each of these checks one sentence of the repository and TLC refutes it.

| Run | Sentence | What happens |
|---|---|---|
| `host_merge` | `page_fault.c:104` `VERIFY(grown \|\| !PREFAULTED)` | filling the gap between two mappings maps the joined area, then unmaps the upper one: its pages have no entries and a touch of them stops the program |
| `heap_reuse` | `vma_heap.c:102` "Double free of VMA!" | a stale `next_freed` puts a node in use on the free list; the next allocation hands it out twice |
| `version_cross` | `version.c:68` "would have likely failed on execution" | an operand across two mapped pages of the right version is a version error |
| `boot_bss` | `vm/elf.c:65` "the difference is zeroe'd out" | the unsigned count of file bytes left wraps, so every page of a segment behind the one in which its file part ends holds what follows in the file |

## 5. Bounds and why they are enough

* The runs of `vma_*` and of the host: 16 pages of 4 bytes (`WORD` 64),
  image on pages 1-2, heap from page 3, a stack reserve of 3 pages below page
  12, the kernel from page 12. Pages of four bytes let unaligned arguments
  (lengths 5, hint 21, break 23, touch 39) happen; there is room for an area
  with neighbours on both sides, which every case of `vma_merge`, a `munmap`
  over two partly covered areas and a search with more than one gap need.
  `brk(63)` reaches the top page, where alignment wraps to zero.
* `Loader`: 28 pages, since programs that may be put anywhere go to two thirds of user
  memory and there has to be room for them, a heap and an interpreter below
  the stack. Two programs (linked to an address; movable, with a hole) with no
  interpreter, a movable one with a page of bss, and one linked to an address,
  with a hole and a segment that is not in the file.
* `MaxFd` is 4 (6 for the host runs, 9 for the loader's). `Running` asks for three free descriptors,
  the most one call takes (one for the mapping, two for splits).
* `Host`: `MaxFrames` 13. Ten frames after boot allow three to five moves.
* `VmaTree`: pages 0..6, areas of up to two pages when mapped, five areas. Five
  nodes are three levels and every case of insertion and erasure fires.
* `VmaHeap`: nodes of 3 bytes in pages of 8, so nodes straddle pages; five nodes
  and two owners for one. The shortest double hand-out takes three nodes.
* `Version`: two versioned pages, a page the stack grows into and the stack's
  top page, of 3 bytes; 4 versions, of which half make a pointer that is not
  canonical (as with bit 47 in the code); three bytes checked for ten; operands of
  two bytes with the same width, of one byte with width 2 (`movzbl`), of two with
  width 1 (a vector), and of one with no width (not decoded); numbers 2,
  3 and 4 of a table of 4, where 4 is what the off-by-one stubs of
  `example-program/cstubs.S` load.
* `Boot`: 64 pages of 8 bytes, words of 2, a kernel stack of 3 pages, a user stack of
  up to 8. Strings of 0, 3 and 12 characters, up to two arguments and two settings,
  fit, straddle pages, run off the kernel stack, or exceed the user stack's limit;
  ten empty settings bring the array of pointers below the unmapped page under the
  stack. Three segments: whole file, three pages of bss up to the end of the address
  space, no file part. Nineteen bytes of padding: six for the kernel's frames, and two
  arguments with five settings take the arrays past the rest.
* `HostCall`: 16 pages of 4 bytes, two calls in a row (`MaxCalls`), so that one call
  finds what another left. Two adjacent areas on frames that are not adjacent, a
  third behind a hole, kernel pages on descending frames; buffers inside an area,
  across two, past the end, below an area, above all areas, and versioned; names
  that end inside a page, on its last byte, and on the next page. The structure of
  `stat` stands for 144 bytes with 3. A vector of `writev` is one cell.

No symmetry is used: addresses, frames and nodes are ordered.

## 6. Fairness and deadlock

`Version` has `WF_vars(Machine)`. The virtual processor goes on
executing because the host enters the guest again after every exit it handles
(the loop around `KVM_RUN` in `vm/vm.c`). Nothing is assumed of the program: it
may stop for ever between two instructions, never within one. In every
state at most one step of `Machine` is possible, so weak fairness on the
disjunction leaves no disjunct behind.

`Boot` has `WF_vars(Next)`: host and kernel run one after the other and at most one
step is possible in any state. `HostCall` has `WF_vars(Host)`: while the guest is
stopped the host is in a handler, each of which is a bounded number of host system
calls. A `read` from a terminal may block for as long as nobody types; the fairness
says that it returns. Nothing is assumed of the guest, which may run for ever
without a call. `CallAnswered` is the other half of the argument for `Version`'s
fairness: a guest that left for a host call is entered again or ends.

The machines of `Vma` and `Version` do stop (`exit`, `corrupt`, `wild`), so
deadlock is not checked there or in `Loader`, nor in `Boot` and `HostCall`, which end
in user mode, with an exit or at the bound; it is in `VmaTree` and `VmaHeap`.

## 7. Proofs

Every theorem is checked by TLAPS, from the named assumptions on the constants and,
where one is stated, the hypothesis of the theorem; it holds for every value of the
constants that meets them. TLC evaluates the assumptions on the instances of section 3.

**`VmaProofs`: `VmaTypeCorrect`, `AreasStayDisjoint`.** Assumptions:
`PageAssumption` (whole pages), `LayoutAssumption` (stack reserve and first heap
page fit below the kernel, the top page is not the program's),
`MmapCallsAssumption`, `CallsAssumption`, `BootAssumption` (arguments and boot
areas have their types and do not overlap). The host calls are arbitrary
operators. Neither property is inductive: disjointness after a `brk` needs that
`heap` names an area, and that after a merge needs that no descriptor runs out
while a split is half done. The invariant is

    IInv == MmTypeOK(Mm) /\ brk \in Addr
            /\ (status = "run" => Sound(Mm) /\ (brk # 0 => heap # NULL))

where `Sound` adds to disjointness that `heap`, when it is an address, is the
start of an area. There is one lemma per
helper (`VmaSplitSound`, `MunmapRangeSound`, `MergeBothSound`, ...: given a sound
state it returns a sound state and keeps what its callers rely on), and one
lemma per action. `LowestExists`/`HighestExists` justify the `CHOOSE`s. The two
ends of the argument that are not local are `MunmapRange`, where the second
search runs on the areas the first split left, and `GrownBelow`, where growing
past the next area down is exactly `corrupt`.

**`VmaProofs`: `DescriptorsStayOwned`.** What each operation leaves behind, area by
area (`MapVmaEffect` and the like, which the next two modules use as well), and from
it `OwnDescriptor`. `BootFdsAssumption`: the program maps descriptors it has open and
what the loader mapped holds others, each its own.

**`VmaRefinesProofs`: `HighestStaysTop`, `AreasImplementAddrSpace`.** The refinement of
`AddrSpace`, for every layout, page size and behaviour of the host calls. It is a
statement about pages, and most of the code works on bytes, so the argument has two
layers. Over bytes, `Holds` says which backing an address has, and each helper is
shown to cut a range out of that, to put one into a hole, to lay one over what is
there, or to change nothing. At the end, areas being whole pages (`PlainMm`), this turns
into `SpaceOf(areas)` page by page, and every action into a step of `AddrSpace` or a
stutter. The invariants are `IInv`, `HighestIsTop` and
`RInv == status = "run" => PlainMm(Mm)`. What it rests on:

* `OrdinaryCalls`: a `MAP_FIXED` address is aligned, which `syscall_mmap` does not
  look at; a length fits below the kernel; a file mapping does not grow down and is
  shorter than `PAGE_SIZE` pages. The last is where the code needs it: the merge test
  compares a file offset in bytes with one to which a number of *pages* was added, so
  longer ones may be joined with the wrong offset. Shorter ones are never joined,
  which is what the proof shows. `MCVma` has TLC confirm that the run's calls are
  ordinary.
* `BootTopAssumption`: the last area at boot is the stack.
* `[]HeapEndsAtBreak`: nothing merged with the heap area. It is an invariant of the
  `vma_anon` run; a program that maps `MAP_GROWSDOWN` memory right above
  its heap can break it, and the theorem makes no promise to it. The next paragraph
  says when it is a theorem.
* `[]AreaAboveHeap`: the program keeps its stack, or anything else, mapped above the
  heap. `syscall_brk` does not update `vma_highest_addr`, so without it the next search
  would start too low.

**`VmaRefinesProofs`: `HeapStaysAtBreak`, `AreasStayWhole`, `HeapApartRefinement`.** The hypothesis
`HeapApart` is about the constants only: no call is `MAP_GROWSDOWN`, the only area that
grows at boot is the stack, in its reserve, and the first heap page ends below the
reserve. It is what the code relies on: the merge tests compare flags, and the heap area
has a flag that only such areas share. `HeapEndsAtBreak` alone is not inductive, for the
first `brk` may find an area to merge with. The invariant is

    HInv == status = "run" => HeapEnds(Mm, brk) /\ (brk = 0 => GrowsHigh(areas))

together with `IInv` and `RInv`: until the first `brk` whatever grows lies in the stack's
reserve, so that the page `brk` maps stays an area of its own, and after it no `munmap`,
`mmap`, stack growth or merge moves the end of that area up. The first theorem turns one
hypothesis of the refinement into a fact, the second draws `AreasWhole` from `RInv`, and the
third restates the refinement without the hypothesis (`[]AreaAboveHeap` is left). `MCHost` has TLC evaluate
`HeapApart`.

**`HostPagingProofs`: `HostAlwaysKnowsBounds`, `FramesStayPrivate`,
`PageTableStaysSound`, `HeapApartPageTable`.** Here the host calls are those of `HostPaging`
(`HostCallsReal`), and `BootHostAssumption` says that the loader leaves both sides in
agreement. The invariant is `HostInv(areas, host, X, N)`, in which `X` are the areas
whose bounds moved since the host mapped them and `N` the pages whose entry may belong
to no area. Both are empty between two calls; inside a call they say exactly what is
out of step between two host calls, such as the two halves of a split
on the frames of one. The third theorem has `[]HeapEndsAtBreak` as
hypothesis: a `brk` that moved the end of the area back would leave entries behind. The
fourth has `HeapApart` in its place.

**`VmaHeapProofs`: `HeapTypeCorrect`, `FreeListAlwaysEnds`, `NoNodeEverLost`,
`NodesAlwaysMapped`, `KernelPagesAlwaysKept`.**
Assumptions: `NodesAssumption`, `HeapAssumption` (sizes are not zero). `ListInv` is the conjunction of the three
properties of the list, and the lemma for each of them starts from all three. "On the list" is defined by closed sets, not by recursion, so
that the step cases are set reasoning: a set witnessing a cycle after a step
gives one before it. `PagesInv` is the invariant for the pages: all those up to the
heap's head are mapped, and none above it but those `vma_init` took.

**`VersionProofs`: `ContextAlwaysRestored`, `NoStrayAccess`, `AlarmsAlwaysExplained`,
`VersionTypeCorrect`.** Assumption:
`VersionAssumption` (among others: the top of user memory is the stack, which has no
versions, and `set_version` is given buffers in user memory). `ContextInv` records for every value of `at` which gs base,
stack, frame and counter the handlers leave; it is what makes the counter mean
"steps the kernel still owes". `MatchInv` says of the check that the bytes up to
`idx` agree, and of a step in progress that its operand agrees within the reach of the
check; `AlarmInv` that the faulting address is the operand's first inaccessible byte.
Nothing is assumed of XED's widths: the theorems say what the check does for any of
them, and only for a width that is the operand's length is that the whole operand.

**`GuestMemProofs`: `ReadIsGuestBytes`, `WriteIsGuestWrite`.** The copies of
`vm/paging.c` against memory as the guest sees it, for every page table, address and
length: the result says whether all of the buffer is mapped, and the bytes are the
guest's. The loops are recursive functions, so two things are proved of each: that
the function exists (`ReadExists`, `WriteExists`, and for `read_virtual_cstr` the
explicit solution in `ScanExists`) and that one turn of the loop is right if the
remaining ones are (`ReadOnePage`, `WriteOnePage`). The induction is `SetInduction`,
stated with a set in place of a predicate, which the provers can instantiate.

**`HostCallProofs`: `KernelKeepsGs`, `StubsReachHandlers`, `OutputReachesHost`,
`InputReachesGuest`, `NamesReachHost`, `CallsKeepToBuffer`.** All safety properties of
`HostCall`, for all areas, memories and calls. The invariant is

    HInv == Control /\ GsKept /\ Memory /\ Right

`Control` says that at a `hlt` the registers hold a call that was made, under its
place in the table; `Memory` types memory; `Right` is what was promised of the call
answered last. There is one lemma per handler. They rest on `AreaLinear` (inside one
area `vm_ptr` plus an offset is what the page tables say) and on the theorems of
`GuestMemProofs`. Assumptions: `AreasAssumption` (whole pages, apart);
`FramesAssumption` (no frame is in two places: `FramesStayPrivate` is that theorem
for the areas, and the kernel's own frames come from the same counter);
`MemoryAssumption` (`writev` finds two numbers in any cell, and a structure of `stat`
fits into the address space, the kernel's no longer than the host's); `CallsAssumption` (calls are in the table, pointers and
counts are unsigned, and no buffer of the kernel is larger than the address space).

**`BootProofs`: `GdtStaysMapped`, `LayoutStaysSound`, `ImageStaysLoaded`,
`ArgumentsReachProgram`.** The boot for every page size, kernel image, number of area
nodes and list of arguments. The invariant is

    BootInv == \E q : MapInv(q) /\ PlaceInv(q)

where `q` is the first page of the image so far. `PlaceInv` gives every address the
host and the kernel computed as a multiple of the page size, each from `q`; `MapInv` says
at each point of the boot below which page nothing is mapped yet, that every page has a
frame of its own and that those of the bootstrap are only where it put them. Neither
property of the runs is inductive: the descriptor table stays mapped only because the
pages mapped later lie elsewhere, which takes the order of all regions, and that comes
from `LayoutPages`, the arithmetic of rounding by pages, by two pages and by half. For the
image there are three more parts. `LowInv`: the image starts at its lowest segment.
`StackInv`: the strings stay on the kernel's stack, as the page below is not mapped and a
string that would reach it ends the machine. `ImageInv`: until the kernel is corrupt what
was loaded is in place up to `BSS_END`, on frames no other page has. The writes of the boot
are of two kinds. Those through `write_virtual_addr` go below page `q`, and
`WriteKeeps`, from `WriteIsGuestWrite`, says that such a buffer leaves the bytes
above alone, whether the write succeeds or not. The frames of the kernel's calls go into
the image itself; `CallsSpare` says that they are on other bytes than everything below
`BSS_END`, by virtual address because they are not corrupt, by physical address because
frames are not shared. `CopiedRight` is about the unsigned
count of bytes left: it is right up to the last page of the file part (past it the count
wraps, which is the disagreement of section 4).

`ArgumentsReachProgram` follows the arguments over both stacks. A stack is what is seen
of it, address by address (`Seen`), and a write to it is `PutIn` on that function
(`SeenWritten`): it succeeds because every page of the stack has a frame no other page
has, what it put is there and what lies beside it stays. `Strung` says where strings of
given lengths go below a top, and is what both the loop of `run` and the two passes of
`load_user_land` compute. `ArgInv` then says at each point of the boot which strings,
pointers and arrays are on the kernel's stack; the later steps keep it since they map and
write below that stack, and the calls' frames are above it. At the last step `ArgumentsRead` shows that the kernel counts the
right number of variables and takes the right length of every string, `UserLayoutStrung`
that the places on the user stack are those of the same lengths below another top, hence
at the same distances (`DownShift`), so that one block per array brings all its strings
(`BlockStrings`), and `ThreeWrites` that the two blocks and the words do not overlap.
`GetsInv` is what the program then reads. As in the property, arrays that run off the
kernel's stack are left out. What all this rests on:

* `BootAssumption`: types, segments that start on a page, as the linker script aligns
  them, and no `p_filesz` above `p_memsz`.
* `KernelFits`: segments are apart and end inside the address space, one of them at its
  end; what they have of the file ends before `BSS_END`; and below the
  lowest there is room for stack, tss, gdt, node heap and, in the lower half of what
  remains, the user stack's limit. None of this is checked by the code; the kernel is
  linked to the top of the address space and is some hundred pages long.
* `ArgumentsBounded`, for the image and the arguments: no string, nor the two arrays, is longer than
  the whole space below the kernel's stack. Linux bounds what a process is started with
  far below that. Arguments that do not fit the *stack* are included.
* `AuxFits`, for the arguments only: the auxiliary vector has room for the eight entries
  that are made; `MAX_ENTRIES` is 10.

`MCBoot` has TLC evaluate the three.

**Model-checked only.** Liveness (`AccessResolves`, `ProgramEntered`, `CallAnswered`)
is out of the prover's reach, and so is the fairness it needs.
`VmaTree` walks trees with RECURSIVE operators, which the prover cannot follow, so
its properties stay with TLC. `NoWrongData` and `ProgramKeepsPages` compare data of
two states page by page, the former through remaps that may lose a page; they and the
properties of `Loader` (`ImageInPlace`, `LoadsSucceed`) are checked on the instances
above and not yet proved.

## 8. What is not modelled

* In `Loader`: magic and machine of the file, a file that cannot be opened, entry
  point and auxiliary values.
* In `Boot`: contents of GDT, IDT and TSS, registers, the bootstrap code, errors of
  libelf and of KVM's ioctls, frames for page tables, the size of the VM's memory, what
  a kernel does whose variables its own frames overwrote, stack used between the calls
  that are modelled (`KERNEL_FRAMES` is the deepest).
* In `HostCall`: the kernel's messages (each is a `kernel_write` of its own),
  `app_mmap`, which nothing calls, output to a port, which the kernel does not do,
  numbers past the table, which no stub has, the host's stack and heap.
* *Libc* (`printf`, `memset`): formatting, no state. `strlen` is in `Boot`.
* *The example programs:* a first-fit allocator over `brk` and programs that misuse
  it on purpose.
* *`host_kernel/host_call.c`:* patches an entry of KVM's handler table and logs.
* In `Vma`: `mprotect` is a stub; `user_stack_page` is written and never read;
  a program that closes a descriptor duplicated for an area.
* In `HostPaging`: frames for page tables; the translation cache (`vma_adjust`
  lets the host move frames and invalidates nothing); how Linux merges host
  mappings, on which `mremap` of an area resized before depends; writes of the
  program to private file mappings, which a remap drops.
* In `Version`: a second memory operand; instructions that
  also use the stack pointer, which step on the kernel's stack; write protection
  and no-execute; `rcx`, which the kernel fault path does not save.

Observed while reading, without a run of their own:

* With no gap left `syscall_mmap` maps an area at `-ENOMEM`, above the stack,
  although `stack.c:22` says "mmap VMAs sits below here". A hint that is taken makes
  `mmap` without `MAP_FIXED` replace a mapping, although `mmap.c:252` says "largely
  ignore the hint". Both are behaviours of `Vma` (`GetUnmappedArea`, `LeftInRax`).
* The width `version.c:48` asks XED for is not the length of the operand, although
  `version.c:54` calls what it finds "Byte (in operand)". A vector operand of 8 or 16
  bytes without REX.W has width 4, so a mismatch from its fifth byte on is not caught.
  For `movzbl`, of one byte, it is 4 as well: one of the next three bytes, of another
  buffer, ends the program, and with that instruction alone (`Ordinary` of `MCVersion`
  as `{<<1, 2>>}`) TLC refutes `AlarmsWouldHaveFailed` too. `check_version` compares
  ten bytes, so an operand of sixteen over the end of a buffer of ten writes past it.
* `kernel_stat` and `kernel_fstat` write the host's `struct stat`, 144 bytes, to a
  `vm_stat_t` of 120: the 24 bytes behind it on the kernel's stack (`mmap.c:291`) are
  lost.
* `vm/vm.c:283` says "allocate 20 stack pages for kernel stack", but `rsp` is set by
  nobody and the kernel's calls run on the last pages of its image (`Boot`, section 2).
  Line 352, "kernel stack actual", has no register behind it.
* `vma_heap_ptr` in `vm/vma.c` translates the start of the node heap once and adds
  offsets, which is right for the pages `vma_init` maps in one go; later pages are
  on other frames.
* `kernel_read`, `kernel_write` and `host_writev` take arrays of the caller's size
  from the host's stack. `host_writev` does not free what it fetched before a bad
  vector. `kernel_read` copies its whole buffer after a short read.
* A versioned pointer passed to a forwarded call other than `writev` ends the
  machine, as `vma_find` compares it with its version.
* The array of environment pointers may lie below the unmapped page under the kernel
  stack: the write fails unseen, the task state segment is mapped there afterwards
  and the program starts with an empty environment (`vm.c:289` has a TODO).
* `ARCH_SET_GS` returns the address. A number outside the table returns itself. The
  program's exit status is lost: `main` returns 0.

* The first `brk(0)` replaces whatever is at the start of the heap. `brk` does
  not update the gap of the next area or `vma_highest_addr`.
* `grow_stack` maps one page more than needed for an address at the start of a
  page, so touching the first byte of the last page of the reserve stops the
  program. It does not look for a mapping below, which a hint can put there.
* Merges ignore `page_prot`. `PgLen` adds a count of pages to an offset in
  bytes, so file areas merge at the wrong place; both are in the model as they
  are.
* The loader maps whole pages of bss for the interpreter only. A program whose bss goes
  past the page its file data ends in has none there, and the heap starts above.
  The interpreter's descriptor stays open. `AT_ENTRY` of a movable program without interpreter
  lacks the bias.
* A refused file `mmap` leaves its duplicated descriptor open.
* `rb_erase` leaves a black only child, which the comment at `rbtree.c:186`
  rules out.
* `vma_init` reserves `vma_max_num` bytes, not nodes: after some two dozen areas the
  next node is mapped over the descriptor table. `vma_alloc` fails once at its limit and succeeds again after it, and
  `vma_split` uses the node before it looks.
* `handle_kernel_page_fault` is passed the code segment for the error code, so
  its test for versioned memory never runs: `set_version` is accepted anywhere.
* Versions from half their range up make a pointer non-canonical. Versions stay
  in the store after `munmap`. A program's own trap flag is lost after a
  versioned access. A stepped instruction that touches an unmapped page is
  fatal where in user mode the stack would grow.

## 9. Plan

Done: areas, refinement, host side, tree, node allocator, loader, versions, boot,
host calls, and the proofs of section 7. In order:

1. Proofs: disjointness and descriptors through `Loader`; `NoWrongData` from `HostInv`.
2. Composition of `VmaHeap` with `Vma`: running out of nodes inside `munmap` and
   `vma_split`.
3. The example programs' first-fit allocator over `brk` with versions, as client
   of `Vma` and `Version`.
