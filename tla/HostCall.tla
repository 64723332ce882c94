------------------------------ MODULE HostCall ------------------------------
(***************************************************************************)
(* Calls out of the virtual machine: the entry for system calls and the    *)
(* calls it forwards (kernel/asm/syscall.S, kernel/c/syscall.c), the stubs *)
(* that stop the processor (kernel/asm/host.S), the loop around KVM_RUN    *)
(* (vm/vm.c) and the handlers (vm/host.c) with their two ways to guest     *)
(* memory: page by page, or through the area of the first byte.            *)
(*                                                                         *)
(* The areas stay as they are: calls that change them are in Vma and       *)
(* HostPaging, version calls in Version.  Messages are left out, and       *)
(* so are exits and errors no call of this kernel leads to: a number past  *)
(* the table, app_mmap, port output.                                       *)
(***************************************************************************)
EXTENDS GuestMem, FiniteSets, SequencesExt

CONSTANTS
    Areas,            \* [start, end, phys]: areas, each on frames in a row
    KernelFrames,     \* page of the kernel's own memory -> frame
    InitialRam,
    SYSCALL_MAX,
    Syscalls,         \* <<number, arguments>> the program makes
    KernelCalls,      \* <<call, arguments>> the kernel makes for itself
    STAT_SIZE,        \* of the host's structures, and of the program's
    VM_STAT_SIZE,     \* of vm_stat_t, the kernel's own buffer for a stat
    EINVAL, EFAULT,
    MaxCalls          \* bound on the calls of one behaviour

\* Areas are whole pages below the version bits, and apart.
ASSUME AreasAssumption ==
    /\ \A a \in Areas : /\ a.start \in Nat /\ a.end \in Nat /\ a.phys \in Nat
                        /\ a.start % PAGE_SIZE = 0 /\ a.end % PAGE_SIZE = 0
                        /\ a.phys % PAGE_SIZE = 0 /\ a.start < a.end
                        /\ a.end <= PAGE_SIZE * VA_PAGES
    /\ \A a, b \in Areas : a = b \/ a.end <= b.start \/ b.end <= a.start
    /\ \A p \in DOMAIN KernelFrames : KernelFrames[p] \in Nat

VARIABLES
    at,       \* "kernel", "user", "hlt", "returned" (from run) or "exited"
    asked,    \* the stub that was called, and with what
    regs,     \* what the host finds in the registers
    result,   \* rax of the last call
    ram,
    effect,   \* what the last call had the host do
    stream,   \* bytes of input read so far
    gs, kernel_gs, fs,   \* MSR_GS_BASE, MSR_KERNEL_GS_BASE, MSR_FS_BASE
    set_gs,   \* what the program last set its gs to
    calls

machine == <<gs, kernel_gs, fs, set_gs>>
hostside == <<ram, effect, stream>>
vars == <<at, asked, regs, result, hostside, machine, calls>>

\* HostPaging: the frames of an area are the ones its node names.
pt == [p \in VaPages |->
         LET inside == {a \in Areas : a.start <= p * PAGE_SIZE /\ p * PAGE_SIZE < a.end}
         IN  IF inside # {}
             THEN LET a == CHOOSE b \in inside : TRUE
                  IN  (a.phys + p * PAGE_SIZE - a.start) \div PAGE_SIZE
             ELSE IF p \in DOMAIN KernelFrames THEN KernelFrames[p] ELSE NoFrame]

\* No two pages share a frame (FramesPrivate of HostPaging).
ASSUME FramesAssumption ==
    \A p, q \in VaPages : pt[p] # NoFrame /\ pt[p] = pt[q] => p = q

\* Whatever is in memory, writev finds an address and a length in it.
IsByte(v) == v[2] \in Nat /\ v[3] \in Nat
ASSUME MemoryAssumption ==
    /\ \A a \in DOMAIN InitialRam : IsByte(InitialRam[a])
    /\ STAT_SIZE \in 0 .. PAGE_SIZE * VA_PAGES /\ VM_STAT_SIZE \in 0 .. STAT_SIZE

CPU_INFO == "cpu_info"
NoEffect == [call |-> "none"]
Junk == <<"junk", 0, 0>>          \* contents of an uninitialized buffer
Input(i) == <<"input", i, 0>>
StatByte(i) == <<"stat", i, 0>>
-----------------------------------------------------------------------------
(* common/host.h, included once by the stubs and twice by the host. *)

Def(name, pointers) == [name |-> name, pointers |-> pointers, custom |-> FALSE]
Custom(name) == [name |-> name, pointers |-> {}, custom |-> TRUE]

HostCalls ==
    <<Def("write", {2}), Def("read", {2}), Def("open", {1}), Def("openat", {2}),
      Def("close", {}), Def("dup", {}), Def("fstat", {2}), Def("stat", {1, 2}),
      Def("mmap", {1}), Def("lseek", {}), Def("access", {1}), Def("writev", {}),
      Def("uname", {1}),
      Def("kernel_open", {}), Def("kernel_exit", {}), Def("kernel_write", {}),
      Def("kernel_read", {}), Def("kernel_stat", {}), Def("kernel_fstat", {}),
      Def("kernel_set_vma_heap", {}), Def("kernel_map_vma", {}), Def("kernel_unmap_vma", {}),
      Def("allocate_pages", {}), Def("map_physical_pages", {}), Def("is_vpage_present", {}),
      Def("get_phys_addr", {}), Custom("unmap_physical_page")>>

PlaceOf(name) == CHOOSE i \in DOMAIN HostCalls : HostCalls[i].name = name

\* Mutant of StubNumber: the stub written by hand is put before the others.
MutStubNumberFirst(name) ==
    LET i == PlaceOf(name)
    IN  Cardinality({j \in DOMAIN HostCalls :
            \/ HostCalls[j].custom /\ (~HostCalls[i].custom \/ j < i)
            \/ ~HostCalls[j].custom /\ ~HostCalls[i].custom /\ j < i})

\* host.S numbers the stubs with __COUNTER__.  A custom one expands to
\* nothing there; the only one is written out behind the others.  The number
\* is how many stubs come before.
StubNumber(name) ==
    LET i == PlaceOf(name)
    IN  Cardinality({j \in DOMAIN HostCalls :
            \/ ~HostCalls[j].custom /\ (HostCalls[i].custom \/ j < i)
            \/ HostCalls[j].custom /\ HostCalls[i].custom /\ j < i})

\* hostcall_table and hostcall_arg_table.
Handler(number) == HostCalls[number + 1]

\* syscall_table: the calls that are forwarded as they are.
Forward ==
    [nr \in {0, 1, 2, 3, 4, 5, 20, 21, 60, 63, 231, 257} |->
        CASE nr = 0 -> "read"    [] nr = 1 -> "write"    [] nr = 2 -> "open"
          [] nr = 3 -> "close"   [] nr = 4 -> "stat"     [] nr = 5 -> "fstat"
          [] nr = 20 -> "writev" [] nr = 21 -> "access"  [] nr = 63 -> "uname"
          [] nr = 257 -> "openat" [] OTHER -> "kernel_exit"]
IOCTL == 16
ARCH_PRCTL == 158
\* mmap, mprotect, munmap, brk, set_version, get_version
Elsewhere == {9, 10, 11, 12, SYSCALL_MAX - 2, SYSCALL_MAX - 1}
-----------------------------------------------------------------------------
(* The guest. *)

\* Pointers and counts are unsigned, but for the number of vectors; the kernel
\* has no buffer larger than the address space.
Made == {[name |-> c[1], args |-> c[2]] : c \in KernelCalls}
        \cup {[name |-> Forward[s[1]], args |-> s[2]] :
                s \in {t \in Syscalls : t[1] \in DOMAIN Forward}}
ASSUME CallsAssumption ==
    \A c \in Made :
        /\ \E i \in DOMAIN HostCalls : HostCalls[i].name = c.name
        /\ c.name \in {"write", "kernel_write", "read", "kernel_read"} =>
              c.args[2] \in Nat /\ c.args[3] \in Nat
        /\ c.name = "kernel_read" => c.args[3] <= PAGE_SIZE * VA_PAGES
        /\ c.name = "writev" => c.args[2] \in Nat /\ c.args[3] \in Int
        /\ c.name \in {"stat", "fstat", "kernel_stat", "kernel_fstat", "openat"} =>
              c.args[2] \in Nat
        /\ c.name \in {"uname", "open", "access", "stat", "kernel_open", "kernel_stat"} =>
              c.args[1] \in Nat

Init ==
    /\ at = "kernel"
    /\ asked = [name |-> "none", args |-> <<>>]
    /\ regs = [rax |-> 0, args |-> <<>>, from |-> "kernel"]
    /\ result = 0 /\ calls = 0
    /\ ram = InitialRam /\ effect = NoEffect /\ stream = 0
    /\ gs = CPU_INFO /\ kernel_gs = 0 /\ fs = 0 /\ set_gs = 0    \* cpu_init

Stub(name, args, from) ==    \* host.S: the number goes to rax, then hlt
    /\ asked' = [name |-> name, args |-> args]
    /\ regs' = [rax |-> StubNumber(name), args |-> args, from |-> from]
    /\ at' = "hlt"
    /\ effect' = NoEffect

KernelCall ==                \* cstubs.c, elf.c, mmap.c
    /\ at = "kernel" /\ calls < MaxCalls
    /\ \E c \in KernelCalls : Stub(c[1], c[2], "kernel")
    /\ calls' = calls + 1
    /\ UNCHANGED <<result, ram, stream, machine>>

Swapgs == gs' = kernel_gs /\ kernel_gs' = gs

SwitchUserLand ==
    /\ at = "kernel"
    /\ at' = "user" /\ Swapgs
    /\ UNCHANGED <<asked, regs, result, hostside, fs, set_gs, calls>>

\* A system call that the kernel answers alone: in and out again.
Answer(value) ==
    /\ at' = "user" /\ result' = value
    /\ effect' = NoEffect
    /\ asked' = [name |-> "none", args |-> <<>>]
    /\ UNCHANGED <<regs, ram, stream>>

Called == at = "user" /\ calls < MaxCalls /\ calls' = calls + 1

SyscallBail ==               \* rax is left as it is
    \E s \in Syscalls :
        /\ Called /\ s[1] \notin 0 .. SYSCALL_MAX - 1
        /\ Answer(s[1])
        /\ UNCHANGED machine

SyscallNull ==
    \E s \in Syscalls :
        /\ Called
        /\ s[1] \in 0 .. SYSCALL_MAX - 1
        /\ s[1] \notin DOMAIN Forward \cup {IOCTL, ARCH_PRCTL} \cup Elsewhere
        /\ Answer(-1)
        /\ UNCHANGED machine

SyscallIoctl ==
    \E s \in Syscalls :
        /\ Called /\ s[1] = IOCTL
        /\ Answer(0)
        /\ UNCHANGED machine

\* Mutant of ArchPrctlSetGs: the base in use, which is the kernel's.
MutSetsKernelGs ==
    \E s \in Syscalls :
        /\ Called /\ s[1] = ARCH_PRCTL /\ s[2][1] = "ARCH_SET_GS"
        /\ set_gs' = s[2][2]
        /\ gs' = gs /\ kernel_gs' = s[2][2]
        /\ Answer(s[2][2])
        /\ UNCHANGED fs

\* Between the two swapgs of the entry the program's base is in
\* MSR_KERNEL_GS_BASE; write_msr returns the value, not 0.
ArchPrctlSetGs ==
    \E s \in Syscalls :
        /\ Called /\ s[1] = ARCH_PRCTL /\ s[2][1] = "ARCH_SET_GS"
        /\ gs' = s[2][2] /\ kernel_gs' = kernel_gs
        /\ set_gs' = s[2][2]
        /\ Answer(s[2][2])
        /\ UNCHANGED fs

ArchPrctl ==
    \E s \in Syscalls :
        /\ Called /\ s[1] = ARCH_PRCTL /\ s[2][1] # "ARCH_SET_GS"
        /\ fs' = IF s[2][1] = "ARCH_SET_FS" THEN s[2][2] ELSE fs
        /\ Answer(CASE s[2][1] = "ARCH_SET_FS" -> 0
                    [] s[2][1] = "ARCH_GET_FS" -> fs
                    [] s[2][1] = "ARCH_GET_GS" -> gs
                    [] OTHER -> -EINVAL)
        /\ UNCHANGED <<gs, kernel_gs, set_gs>>

SyscallForward ==
    \E s \in Syscalls :
        /\ Called /\ s[1] \in DOMAIN Forward
        /\ Swapgs
        /\ Stub(Forward[s[1]], s[2], "user")
        /\ UNCHANGED <<result, ram, stream, fs, set_gs>>
-----------------------------------------------------------------------------
(* vm/vm.c, vm/host.c: the host. *)

Running == at \in {"kernel", "user"}

Interrupted ==               \* KVM_RUN fails with EINTR: exit(1)
    /\ Running
    /\ at' = "exited"
    /\ UNCHANGED <<asked, regs, result, hostside, machine, calls>>

GuestStops ==                \* KVM_EXIT_MMIO, KVM_EXIT_SHUTDOWN and others
    /\ Running
    /\ at' = "returned"
    /\ UNCHANGED <<asked, regs, result, hostside, machine, calls>>

\* vma_find compares the pointer as it is, version included.
VmaFind(addr) == {a \in Areas : a.end > addr /\ \A b \in Areas : b.end > addr => a.end <= b.end}

VmPtr(addr) == LET a == CHOOSE b \in VmaFind(addr) : TRUE
               IN  a.phys + addr - a.start

handler == Handler(regs.rax)
Arg(i) == regs.args[i]

UnmappedPointer ==           \* vm_ptr: exit(1)
    /\ at = "hlt" /\ \E i \in handler.pointers : VmaFind(Arg(i)) = {}
    /\ at' = "exited"
    /\ UNCHANGED <<asked, regs, result, hostside, machine, calls>>

Handles(name) ==
    /\ at = "hlt" /\ handler.name = name
    /\ \A i \in handler.pointers : VmaFind(Arg(i)) # {}

\* KVM_SET_REGS, and the way back through the stub and the system call.
Return(value) ==
    /\ result' = value
    /\ at' = regs.from
    /\ IF regs.from = "user" THEN Swapgs ELSE UNCHANGED <<gs, kernel_gs>>
    /\ UNCHANGED <<asked, regs, fs, set_gs, calls>>

\* Host memory from a physical address on, as the host's own calls see it.
Linear(a, n) == [i \in 1 .. n |-> Stored(ram, a + i - 1)]
Terminator(a) == CHOOSE n \in 0 .. PAGE_SIZE * VA_PAGES :
                     /\ Stored(ram, a + n) = Zero
                     /\ \A i \in 0 .. n - 1 : Stored(ram, a + i) # Zero

\* The host writes some of the bytes, or fails.
Wrote(bytes) ==
    /\ \E n \in {-1, Len(bytes)} \cup 1 .. Len(bytes) :
         /\ Return(n)
         /\ effect' = [call |-> "write", bytes |-> bytes, done |-> n]
    /\ UNCHANGED <<ram, stream>>

Fails ==
    /\ Return(-1)
    /\ UNCHANGED hostside

AppWrite == Handles("write") /\ Wrote(Linear(VmPtr(Arg(2)), Arg(3)))

KernelWrite ==
    /\ Handles("kernel_write")
    /\ \E r \in {ReadVirtualAddr(pt, ram, Arg(2), Arg(3))} :
         \/ r.ok /\ Wrote(r.bytes)
         \/ ~r.ok /\ Fails

\* The host reads n bytes, n = 0 at the end of the file, or fails.
Answers(count) == {-1} \cup 0 .. count
Incoming(n, count) == [i \in 1 .. count |-> IF i <= n THEN Input(stream + i) ELSE Junk]

AppRead ==                   \* straight into the memory of the machine
    /\ Handles("read")
    /\ \E n \in Answers(Arg(3)) :
         /\ ram' = IF n > 0 THEN Store(ram, VmPtr(Arg(2)), Incoming(n, n)) ELSE ram
         /\ stream' = stream + (IF n > 0 THEN n ELSE 0)
         /\ effect' = [call |-> "read", done |-> n, ok |-> TRUE]
         /\ Return(n)

\* Mutant of KernelRead: a short read is answered with the size of the buffer.
MutKernelReadCount ==
    /\ Handles("kernel_read")
    /\ \E n \in Answers(Arg(3)) :
       \E w \in {WriteVirtualAddr(pt, ram, Arg(2), Incoming(n, Arg(3)))} :
         /\ ram' = w.ram
         /\ stream' = stream + (IF n > 0 THEN n ELSE 0)
         /\ effect' = [call |-> "read", done |-> n, ok |-> w.ok]
         /\ Return(IF w.ok THEN Arg(3) ELSE -1)

KernelRead ==                \* the whole buffer is copied, whatever was read
    /\ Handles("kernel_read")
    /\ \E n \in Answers(Arg(3)) :
       \E w \in {WriteVirtualAddr(pt, ram, Arg(2), Incoming(n, Arg(3)))} :
         /\ ram' = w.ram
         /\ stream' = stream + (IF n > 0 THEN n ELSE 0)
         /\ effect' = [call |-> "read", done |-> n, ok |-> w.ok]
         /\ Return(IF w.ok THEN n ELSE -1)

\* A call with the name of a file, and its answer: a descriptor, 0 or -1.
Named(bytes) ==
    \E r \in {-1, 3} :
        /\ Return(r)
        /\ effect' = [call |-> "name", bytes |-> bytes]
        /\ UNCHANGED <<ram, stream>>

\* Mutant of PathArg: the first argument of every call.
MutPathArgFirst == 1

PathArg == IF handler.name = "openat" THEN 2 ELSE 1

AppName ==                   \* open, openat, access
    /\ \E name \in {"open", "openat", "access"} : Handles(name)
    /\ LET a == VmPtr(Arg(PathArg)) IN Named(Linear(a, Terminator(a)))

\* What a host call makes of the buffer: all up to the first terminator.
AsName(bytes) ==
    LET ends == {i \in DOMAIN bytes : bytes[i] = Zero}
    IN  IF ends = {} THEN Append(bytes, Junk)
        ELSE SubSeq(bytes, 1, (CHOOSE i \in ends : \A j \in ends : i <= j) - 1)

\* Mutant of KernelOpen: a name on an unmapped page is looked for again.
MutKernelOpenRetries ==
    /\ Handles("kernel_open")
    /\ \E r \in {ReadVirtualCstr(pt, ram, Arg(1))} : r.ok /\ Named(AsName(r.bytes))

KernelOpen ==
    /\ Handles("kernel_open")
    /\ \E r \in {ReadVirtualCstr(pt, ram, Arg(1))} :
         \/ r.ok /\ Named(AsName(r.bytes))
         \/ ~r.ok /\ Fails

AppPlain ==                  \* no pointers: close, dup, lseek
    /\ \E name \in {"close", "dup", "lseek"} : Handles(name)
    /\ \E r \in {-1, 0, 3} : Return(r)
    /\ UNCHANGED hostside

\* stat or fstat on the host; a failed one leaves the structure as it was.
Stats(r) == [i \in 1 .. STAT_SIZE |-> IF r = 0 THEN StatByte(i) ELSE Junk]

AppStat ==                   \* stat, fstat, uname
    /\ \E name \in {"stat", "fstat", "uname"} : Handles(name)
    /\ \E r \in {-1, 0} :
         /\ ram' = IF r = 0 THEN Store(ram, VmPtr(Arg(IF handler.name = "uname" THEN 1 ELSE 2)),
                                       Stats(r)) ELSE ram
         /\ effect' = LET a == VmPtr(Arg(1))
                      IN  [call |-> "stat", done |-> r,
                           bytes |-> IF handler.name = "stat" THEN Linear(a, Terminator(a)) ELSE <<>>]
         /\ Return(r)
    /\ UNCHANGED stream

\* Mutant of KernelStats: the buffer is translated once, as for the program.
MutKernelStatsOnce(name) ==
    \E r \in {-1, 0} :
        /\ ram' = Store(ram, GetPhysAddr(pt, Arg(2)), Stats(r))
        /\ effect' = [call |-> "stat", done |-> r, bytes |-> name]
        /\ Return(r)
        /\ UNCHANGED stream

\* sizeof(struct stat) bytes go to the vm_stat_t of the kernel.
KernelStats(name) ==
    \E r \in {-1, 0} : \E w \in {WriteVirtualAddr(pt, ram, Arg(2), Stats(r))} :
        /\ ram' = w.ram
        /\ effect' = [call |-> "stat", done |-> r, bytes |-> name]
        /\ Return(IF w.ok THEN r ELSE -1)
        /\ UNCHANGED stream

KernelStat ==
    /\ Handles("kernel_stat")
    /\ \E s \in {ReadVirtualCstr(pt, ram, Arg(1))} :
         \/ s.ok /\ KernelStats(AsName(s.bytes))
         \/ ~s.ok /\ Fails

KernelFstat == Handles("kernel_fstat") /\ KernelStats(<<>>)

Base(v) == v[2]
IovLen(v) == v[3]
Buffers(vecs) ==
    [i \in DOMAIN vecs |-> ReadVirtualAddr(pt, ram, Base(vecs[i]), IovLen(vecs[i]))]

\* Mutant of Writev: what was fetched before a bad vector is written.
MutWritevPartial ==
    /\ Handles("writev") /\ Arg(3) >= 0
    /\ \E v \in {ReadVirtualAddr(pt, ram, Arg(2), Arg(3))} :
       \E bufs \in {Buffers(v.bytes)} :
         /\ Wrote(FlattenSeq([i \in DOMAIN bufs |-> bufs[i].bytes]))

\* host_writev; a vector is one cell of memory.  Nothing is written unless
\* all vectors can be fetched.
Writev ==
    /\ Handles("writev")
    /\ \E v \in {ReadVirtualAddr(pt, ram, Arg(2), IF Arg(3) < 0 THEN 0 ELSE Arg(3))} :
       \E bufs \in {Buffers(v.bytes)} :
       LET bad == {i \in DOMAIN bufs : ~bufs[i].ok}
       IN  \/ /\ Arg(3) < 0
              /\ Return(-EINVAL) /\ UNCHANGED hostside
           \/ /\ Arg(3) >= 0 /\ (~v.ok \/ bad # {})
              /\ Return(-EFAULT) /\ UNCHANGED hostside
           \/ /\ Arg(3) >= 0 /\ v.ok /\ bad = {}
              /\ Wrote(FlattenSeq([i \in DOMAIN bufs |-> bufs[i].bytes]))

KernelExit ==                \* exit_vm: run returns, and main returns 0
    /\ Handles("kernel_exit")
    /\ at' = "returned"
    /\ UNCHANGED <<asked, regs, result, hostside, machine, calls>>

Host == \/ UnmappedPointer \/ AppWrite \/ KernelWrite \/ AppRead \/ KernelRead
        \/ AppName \/ KernelOpen \/ AppPlain \/ AppStat \/ KernelStat \/ KernelFstat
        \/ Writev \/ KernelExit

Next == \/ KernelCall \/ SwitchUserLand
        \/ SyscallBail \/ SyscallNull \/ SyscallIoctl \/ ArchPrctlSetGs \/ ArchPrctl
        \/ SyscallForward
        \/ Interrupted \/ GuestStops \/ Host

Spec == Init /\ [][Next]_vars /\ WF_vars(Host)
-----------------------------------------------------------------------------
OneArea(va, n) == \E a \in Areas : a.start <= va /\ va + n <= a.end
Answered == Running /\ asked.name # "none"

\* The number in a stub is the place of its handler in the host's table, also
\* behind the call that host.S writes out by hand (host.S, hostcall_table).
CallsReachHandlers == at = "hlt" => handler.name = asked.name

\* What write, writev and the kernel's own output hand to the host is what the
\* guest has at those addresses, version bits aside and over page boundaries:
\* all of it or, when a page is missing, nothing.  A pointer of write is
\* translated once, so for write this is promised inside one area only
\* (kernel_write, host_writev, vm_ptr, read_virtual_addr).
OutputIsCallers ==
    LET va == asked.args[2]
        n == asked.args[3]
        vecs == GuestBytes(pt, ram, va, n)
        whole == Mapped(pt, va, n)
    IN  /\ Answered /\ asked.name = "write" /\ OneArea(va, n) =>
              effect.bytes = GuestBytes(pt, ram, va, n)
        /\ Answered /\ asked.name = "kernel_write" =>
              /\ (effect.call = "write") <=> whole
              /\ whole => effect.bytes = GuestBytes(pt, ram, va, n)
        /\ Answered /\ asked.name = "writev" /\ n >= 0 =>
              /\ (effect.call = "write") <=>
                    whole /\ \A i \in 1 .. n : Mapped(pt, Base(vecs[i]), IovLen(vecs[i]))
              /\ effect.call = "write" =>
                    effect.bytes = FlattenSeq([i \in 1 .. n |->
                                     GuestBytes(pt, ram, Base(vecs[i]), IovLen(vecs[i]))])

\* The bytes a call says it read are in the caller's buffer, in the order the
\* host delivered them, and the host's structure for a stat that succeeded
\* starts there (kernel_read, kernel_stat, kernel_fstat, write_virtual_addr,
\* vm_ptr).  Filled is what a handler fills.
Buffer(call) == IF call.name = "uname" THEN call.args[1] ELSE call.args[2]
FromArea(call) == call.name \in {"read", "stat", "fstat", "uname"}
Filled(call) == IF call.name \in {"read", "kernel_read"} THEN call.args[3] ELSE STAT_SIZE
InputArrives ==
    /\ Answered /\ effect.call \in {"read", "stat"} /\ result >= 0
    /\ FromArea(asked) => OneArea(Buffer(asked), Filled(asked))
    =>      IF effect.call = "stat"
            THEN GuestBytes(pt, ram, Buffer(asked), STAT_SIZE) =
                   [i \in 1 .. STAT_SIZE |-> StatByte(i)]
            ELSE GuestBytes(pt, ram, Buffer(asked), result) =
                   [i \in 1 .. result |-> Input(stream - result + i)]

\* What the caller has room for: the kernel's stats go to a vm_stat_t.
KernelsStat(call) == call.name \in {"kernel_stat", "kernel_fstat"}
Room(call) == IF KernelsStat(call) THEN VM_STAT_SIZE ELSE Filled(call)
ChangesWithin(va, n) ==
    {a \in DOMAIN ram' : Stored(ram', a) # Stored(ram, a)} \subseteq
        {GetPhysAddr(pt, va + i) : i \in 0 .. n - 1}

\* A call changes nothing of guest memory but the caller's buffer and, for the
\* kernel's stats, the bytes by which the host's structure is longer than a
\* vm_stat_t: those behind the buffer are lost, but no other.  A call through
\* an area is held to it while the buffer lies inside the area (the same).
BufferOnly ==
    [][ram' # ram /\ (FromArea(asked) => OneArea(Buffer(asked), Room(asked))) =>
         \/ ChangesWithin(Buffer(asked), Room(asked))
         \/ KernelsStat(asked) /\ ChangesWithin(Buffer(asked), STAT_SIZE)]_vars

\* The host opens the file the guest named.  The kernel's names are held to it
\* while the byte after the terminator is on the page of the first: the search
\* for the end is off on the next page; a stat whose answer lands on the name
\* is left out (read_virtual_cstr, vm_ptr).
NameOf(call) == call.args[IF call.name = "openat" THEN 2 ELSE 1]
NameEnds(va, n) ==
    /\ Stored(ram, GetPhysAddr(pt, va + n)) = Zero
    /\ \A i \in 0 .. n - 1 : Stored(ram, GetPhysAddr(pt, va + i)) # Zero
Apart(va, n, other, m) ==
    \A i \in 0 .. n - 1, j \in 0 .. m - 1 : GetPhysAddr(pt, va + i) # GetPhysAddr(pt, other + j)
NamesAreCallers ==
    Answered =>
      \A n \in 0 .. PAGE_SIZE * VA_PAGES :
        /\ /\ asked.name \in {"open", "openat", "access"}
           /\ NameEnds(NameOf(asked), n) /\ OneArea(NameOf(asked), n + 1)
           => effect.bytes = GuestBytes(pt, ram, NameOf(asked), n)
        /\ /\ asked.name \in {"kernel_open", "kernel_stat"}
           /\ NameEnds(NameOf(asked), n) /\ Mapped(pt, NameOf(asked), 1)
           /\ PAGE_OFFSET(NameOf(asked)) + n + 1 < PAGE_SIZE
           /\ asked.name = "kernel_stat" => Apart(NameOf(asked), n + 1, asked.args[2], STAT_SIZE)
           => effect.call # "none" /\ effect.bytes = GuestBytes(pt, ram, NameOf(asked), n)

\* The kernel always finds its own data behind gs and the program what it last
\* set, whichever way in and out a system call took (syscall_entry,
\* switch_user_land, syscall_arch_prctl).
GsKept == IF at = "user" THEN gs = set_gs /\ kernel_gs = CPU_INFO
          ELSE at \in {"kernel", "hlt"} => gs = CPU_INFO /\ kernel_gs = set_gs

\* Every call that stops the processor is answered or ends the machine.
CallAnswered == at = "hlt" ~> at # "hlt"
=============================================================================
