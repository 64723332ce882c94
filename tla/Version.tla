------------------------------ MODULE Version ------------------------------
(***************************************************************************)
(* Memory versions.  A pointer carries a version in its upper bits and the *)
(* version store holds one for every byte of user memory.  Pages of        *)
(* versioned areas lack PDE64_USER, so an access from user mode faults;    *)
(* the handler compares versions and, when they agree, lets the faulting   *)
(* instruction run once at kernel privilege, single stepped, before the    *)
(* debug handler puts the processor back into user mode.                   *)
(*                                                                         *)
(* One virtual processor runs all of it.  The state is what the handlers   *)
(* and the processor keep between two steps: privilege, gs base, trap      *)
(* flag, stack, interrupt frame and the slots of the per-CPU area.  An     *)
(* instruction is one memory operand; its other effects are left out.  The *)
(* length of the operand is not what check_version asks XED for:           *)
(* xed_decoded_inst_get_operand_width is the effective operand size, which *)
(* is larger for movzbl (1 and 4 bytes) and smaller for a vector operand   *)
(* (8 or 16 and 4 bytes).                                                  *)
(***************************************************************************)
EXTENDS Integers, FiniteSets

CONSTANTS
    PAGE_SIZE,      \* bytes of a page
    PAGES,          \* user pages, the version store has as many
    VERSIONS,       \* values of a version, 2^VER_NUM_BITS
    CHECKED,        \* bytes check_version looks at, 10 in the code
    Shapes,         \* of instructions: <<length of the operand, XED's operand width>>
    Stacks,         \* values of the program's stack pointer
    TrapFlags,      \* values of the trap flag the program runs with
    UserPages,      \* pages whose area is not versioned
    Growable,       \* pages a growing area adds when they are touched
    BootPresent,    \* pages mapped when the program starts
    Mappable,       \* pages the program maps and unmaps
    SetCalls,       \* arguments <<addr, length, version>> of set_version
    SYSCALL_MAX,    \* entries of the system call table
    CallNumbers     \* numbers the stubs of the example programs load

ASSUME VersionAssumption ==
    /\ PAGE_SIZE \in Nat \ {0} /\ PAGES \in Nat \ {0} /\ VERSIONS \in Nat \ {0}
    /\ CHECKED \in 1 .. PAGE_SIZE /\ Shapes \subseteq (Nat \ {0}) \X Nat
    /\ TrapFlags \subseteq BOOLEAN /\ CallNumbers \subseteq Int
    \* The top of user memory is the stack, which is not versioned.
    /\ PAGES - 1 \in UserPages
    /\ BootPresent \cup Mappable \cup Growable \subseteq 0 .. PAGES - 1
    \* set_version is given buffers in user memory.
    /\ \A c \in SetCalls : /\ c[1] \in Nat /\ c[2] \in Nat /\ c[3] \in Nat
                          /\ c[1] < PAGES * PAGE_SIZE /\ c[1] + c[2] <= PAGES * PAGE_SIZE

VARIABLES
    store,      \* version of every byte
    storePages, \* pages of the version store that are mapped
    present,    \* user pages that are mapped
    ins,        \* the program's instruction
    done,       \* it has been executed
    at,         \* what the processor executes next
    cpl, gs, tf, rsp,   \* processor state
    frame,      \* interrupt frame of the handler, popped when it is left
    cr2, idx,   \* faulting address and byte of the check, while handled
    dcntr, dsp, \* CPU_TMP_DCNTR and CPU_TMP_DSP
    why         \* why the machine stopped

cpu == <<at, cpl, gs, tf, rsp, frame, cr2, idx, dcntr, dsp, why>>
memory == <<store, storePages, present>>
vars == <<memory, ins, done, cpu>>

Bytes == 0 .. PAGES * PAGE_SIZE - 1
KernelStack == "kernel stack"

-----------------------------------------------------------------------------
(* Pointers, pages and instructions. *)

\* set_version_ptr and get_version_ptr: a pointer is its version and address.
Versions == 0 .. VERSIONS - 1
set_version_ptr(version, addr) == [ver |-> version % VERSIONS, addr |-> addr]
\* Bit 47 is the highest bit of a version, bits 48 to 63 stay clear.
Canonical(ptr) == 2 * ptr.ver < VERSIONS

Page(a) == a \div PAGE_SIZE
PageBytes(p) == p * PAGE_SIZE .. (p + 1) * PAGE_SIZE - 1
on_same_page(a, b) == Page(a) = Page(b)

Operand(i) == i.ptr.addr .. i.ptr.addr + i.width - 1
OperandPages(i) == {Page(a) : a \in Operand(i)}
\* opsize: xed_decoded_inst_get_operand_width in bytes; XED gives no width of
\* zero, which stands here for an instruction it does not decode.
UNDECODED == 0
Instructions ==
    {[ptr |-> set_version_ptr(v, a), width |-> w[1], opsize |-> w[2], sp |-> s] :
        v \in Versions, a \in Bytes, w \in Shapes, s \in Stacks}
InMemory(i) == Operand(i) \subseteq Bytes

\* Page table entries a user mode access may go through.
UserAccessible == present \cap UserPages
Versioned(p) == p \in present \ UserPages

\* Byte of the operand the processor reports in cr2.
FaultsFirst(a, pages) ==
    /\ Page(a) \notin pages
    /\ \A b \in Operand(ins) : b < a => Page(b) \in pages

-----------------------------------------------------------------------------
(* Entering and leaving handlers. *)

NoFrame == [cpl |-> 0, tf |-> FALSE, rsp |-> KernelStack]

Swap(base) == IF base = "user" THEN "kernel" ELSE "user"

\* An exception: the frame is pushed, the trap flag cleared, and a change of
\* privilege takes the stack from the task state segment.
Exception(handler) ==
    /\ at' = handler
    /\ frame' = [cpl |-> cpl, tf |-> tf, rsp |-> rsp]
    /\ cpl' = 0 /\ tf' = FALSE
    /\ rsp' = IF cpl = 3 THEN KernelStack ELSE rsp

\* iretq through a frame, back to the program's code.
Iret(f) ==
    /\ at' = "code" /\ cpl' = f.cpl /\ tf' = f.tf /\ rsp' = f.rsp
    /\ frame' = NoFrame /\ cr2' = 0 /\ idx' = 0

kernel_exit(reason) ==
    /\ at' = "exit" /\ why' = reason
    /\ UNCHANGED <<cpl, tf, rsp>>

-----------------------------------------------------------------------------
(* The program. *)

Init ==
    /\ store = [a \in Bytes |-> 0] /\ storePages = {} /\ present = BootPresent
    /\ ins \in {i \in Instructions : InMemory(i) /\ i.ptr.ver = 0} /\ done = TRUE
    /\ at = "code" /\ cpl = 3 /\ gs = "user" /\ tf = FALSE /\ rsp = ins.sp
    /\ frame = NoFrame /\ cr2 = 0 /\ idx = 0 /\ dcntr = 0 /\ dsp = ins.sp /\ why = "none"

\* The program comes to its next instruction, at whatever privilege it runs.
NextInstruction(i) ==
    /\ at = "code" /\ done /\ InMemory(i)
    /\ ins' = i /\ done' = FALSE
    /\ rsp' = IF cpl = 3 THEN i.sp ELSE rsp
    /\ tf' \in IF cpl = 3 THEN TrapFlags ELSE {tf}
    /\ UNCHANGED <<memory, at, cpl, gs, frame, cr2, idx, dcntr, dsp, why>>

\* The instruction completes; with the trap flag set the debug exception
\* follows it.
Complete ==
    /\ done' = TRUE
    /\ IF tf THEN Exception("debug")
             ELSE UNCHANGED <<at, frame, cpl, tf, rsp>>
    /\ UNCHANGED <<memory, ins, gs, cr2, idx, dcntr, dsp, why>>

Raise(a) ==
    /\ cr2' = a /\ Exception("fault")
    /\ UNCHANGED <<memory, ins, done, gs, idx, dcntr, dsp, why>>

\* The program's instruction in user mode.
RunUser ==
    /\ at = "code" /\ cpl = 3 /\ ~done /\ Canonical(ins.ptr)
    /\ \/ OperandPages(ins) \subseteq UserAccessible /\ Complete
       \/ \E a \in Operand(ins) : FaultsFirst(a, UserAccessible) /\ Raise(a)

\* The program's instruction at kernel privilege: PDE64_USER does not count.
RunKernel ==
    /\ at = "code" /\ cpl = 0 /\ ~done /\ Canonical(ins.ptr)
    /\ \/ OperandPages(ins) \subseteq present /\ Complete
       \/ \E a \in Operand(ins) : FaultsFirst(a, present) /\ Raise(a)

\* A pointer that is not canonical: general protection, idt_gpf_handler.
ProtectionFault ==
    /\ at = "code" /\ ~done /\ ~Canonical(ins.ptr)
    /\ kernel_exit("gpf")
    /\ UNCHANGED <<memory, ins, done, gs, frame, cr2, idx, dcntr, dsp>>

-----------------------------------------------------------------------------
(* System calls.  syscall_entry saves and restores what it changes. *)

\* syscall_table, as far as versions go; beyond the table the call bails.
SyscallTable(n) ==
    CASE n < 0 \/ n >= SYSCALL_MAX -> "bail"
      [] n = SYSCALL_MAX - 1 -> "get_version"
      [] n = SYSCALL_MAX - 2 -> "set_version"
      [] OTHER -> "other"

\* Store pages a kernel access touches: handle_kernel_page_fault maps and
\* zeroes the ones that are missing.  They are never unmapped.
StoreTouched(bytes) == storePages \cup {Page(a) : a \in bytes}
Filled(bytes) ==
    [a \in Bytes |-> IF Page(a) \in StoreTouched(bytes) \ storePages THEN 0 ELSE store[a]]

set_version(addr, length, version) ==
    LET bytes == addr .. addr + length - 1 IN
    /\ storePages' = StoreTouched(bytes)
    /\ store' = [a \in Bytes |-> IF a \in bytes THEN version % VERSIONS ELSE Filled(bytes)[a]]

get_version(addr) ==
    /\ storePages' = StoreTouched({addr})
    /\ store' = Filled({addr})

SyscallVersion(n, c) ==
    /\ at = "code" /\ cpl = 3 /\ done
    /\ CASE SyscallTable(n) = "set_version" -> set_version(c[1], c[2], c[3])
         [] SyscallTable(n) = "get_version" -> get_version(c[1])
         [] OTHER -> UNCHANGED <<store, storePages>>
    /\ UNCHANGED <<present, ins, done, cpu>>

\* mmap and munmap of a page, as the version check sees them: the version
\* store keeps what it holds.
SyscallMap(p) ==
    /\ at = "code" /\ cpl = 3 /\ done
    /\ present' = IF p \in present THEN present \ {p} ELSE present \cup {p}
    /\ UNCHANGED <<store, storePages, ins, done, cpu>>

-----------------------------------------------------------------------------
(* The page fault. *)

\* idt_page_fault_handler up to its branches: a fault from user mode swaps
\* gs and goes by the present bit of the error code.
UserFault ==
    /\ at = "fault" /\ frame.cpl = 3
    /\ gs' = Swap(gs)
    /\ at' = IF Page(cr2) \in present THEN "check" ELSE "grow"
    /\ idx' = 0
    /\ UNCHANGED <<memory, ins, done, cpl, tf, rsp, frame, cr2, dcntr, dsp, why>>

\* handle_kernel_page_fault on an address outside the version store, which is
\* what the stepped instruction can touch.
KernelFault ==
    /\ at = "fault" /\ frame.cpl = 0
    /\ kernel_exit("kernel fault")
    /\ UNCHANGED <<memory, ins, done, gs, frame, cr2, idx, dcntr, dsp>>

\* handle_user_page_fault looks for the area with the pointer's version still
\* in the address.
VmaFound == Page(cr2) \in Growable /\ ins.ptr.ver = 0

\* The area grows, or the program ends.
Grow ==
    /\ at = "grow" /\ VmaFound
    /\ present' = present \cup {Page(cr2)}
    /\ gs' = Swap(gs) /\ Iret(frame)
    /\ UNCHANGED <<store, storePages, ins, done, dcntr, dsp, why>>

handle_segfault ==
    /\ at = "grow" /\ ~VmaFound
    /\ kernel_exit("segfault")
    /\ UNCHANGED <<memory, ins, done, gs, frame, cr2, idx, dcntr, dsp>>

-----------------------------------------------------------------------------
(* check_version: one step for each byte, and the kernel page fault of its *)
(* read of the version store.                                              *)

\* The byte lies on another page and that page is mapped.
MappedElsewhere(a) == ~on_same_page(cr2, a) /\ Page(a) \in present

MutOperandEndsAt(i) == ins.opsize # UNDECODED /\ ins.opsize < i

\* check_version_instruction: by XED's width the operand ends before byte i.
OperandEndsBefore(i) == ins.opsize # UNDECODED /\ ins.opsize <= i

\* The page of the version store is missing: handle_kernel_page_fault nested
\* in the check maps it zeroed and the read is repeated.
FillStore ==
    /\ at = "check" /\ idx < CHECKED /\ ~MappedElsewhere(cr2 + idx)
    /\ Page(cr2 + idx) \notin storePages
    /\ storePages' = StoreTouched({cr2 + idx}) /\ store' = Filled({cr2 + idx})
    /\ UNCHANGED <<present, ins, done, cpu>>

\* The byte read has the pointer's version.
ByteAgrees(i) == ~MappedElsewhere(cr2 + i) /\ store[cr2 + i] = ins.ptr.ver

\* The read of byte i does not fault, or there is none.
Readable(i) == MappedElsewhere(cr2 + i) \/ Page(cr2 + i) \in storePages

CheckByte ==
    /\ at = "check" /\ idx < CHECKED /\ Readable(idx) /\ ByteAgrees(idx)
    /\ idx' = idx + 1
    /\ UNCHANGED <<memory, ins, done, at, cpl, gs, tf, rsp, frame, cr2, dcntr, dsp, why>>

\* What check_version returns once it stops.
Stopped == idx = CHECKED \/ (Readable(idx) /\ ~ByteAgrees(idx))
Verdict == idx = CHECKED \/ OperandEndsBefore(idx)

MutThreeSteps == 3
MutOneStep == 1

\* Debug exceptions until the instruction has run: after retq and after it.
SingleSteps == 2

\* Versions agree: the slots for the debug handler are written and popf sets
\* the trap flag before retq goes to the instruction.
SetUpStep ==
    /\ at = "check" /\ Stopped /\ Verdict
    /\ dcntr' = SingleSteps /\ dsp' = frame.rsp
    /\ gs' = Swap(gs) /\ tf' = TRUE /\ at' = "retq"
    /\ frame' = NoFrame /\ cr2' = 0 /\ idx' = 0
    /\ UNCHANGED <<memory, ins, done, cpl, rsp, why>>

VersionError ==
    /\ at = "check" /\ Stopped /\ ~Verdict
    /\ kernel_exit("version error")
    /\ UNCHANGED <<memory, ins, done, gs, frame, cr2, idx, dcntr, dsp>>

\* retq at kernel privilege with the trap flag set.
Retq ==
    /\ at = "retq" /\ Exception("debug")
    /\ UNCHANGED <<memory, ins, done, gs, cr2, idx, dcntr, dsp, why>>

-----------------------------------------------------------------------------
(* The debug exception, idt_debug_handler. *)

MutDebugFrameKeepsStack == IF dcntr = 1 THEN [cpl |-> 3, tf |-> FALSE, rsp |-> frame.rsp] ELSE frame

\* Frame the handler returns through: the program's after the last step.
DebugFrame == IF dcntr = 1 THEN [cpl |-> 3, tf |-> FALSE, rsp |-> dsp] ELSE frame

MutCountdownAlways == dcntr - 1

\* The counter is left alone when the trap is the program's own.
Countdown == IF dcntr = 0 THEN 0 ELSE dcntr - 1

\* The counter is read between two swapgs.
DebugHandler ==
    /\ at = "debug"
    /\ dcntr' = Countdown /\ Iret(DebugFrame) /\ gs' = Swap(Swap(gs))
    /\ UNCHANGED <<memory, ins, done, dsp, why>>

-----------------------------------------------------------------------------
Program ==
    \/ \E i \in Instructions : NextInstruction(i)
    \/ \E n \in CallNumbers, c \in SetCalls : SyscallVersion(n, c)
    \/ \E p \in Mappable : SyscallMap(p)

Machine ==
    \/ RunUser \/ RunKernel \/ ProtectionFault
    \/ UserFault \/ KernelFault \/ Grow \/ handle_segfault
    \/ FillStore \/ CheckByte \/ SetUpStep \/ VersionError
    \/ Retq \/ DebugHandler

Next == Program \/ Machine

Spec == Init /\ [][Next]_vars /\ WF_vars(Machine)

-----------------------------------------------------------------------------
(* Properties. *)

\* Types of the variables: versions are bytes of the store, the step counter
\* never passes zero (subl in idt_debug_handler), frames and slots are filled.
TypeOK ==
    /\ store \in [Bytes -> Versions] /\ storePages \subseteq 0 .. PAGES - 1
    /\ present \subseteq 0 .. PAGES - 1
    /\ ins \in Instructions /\ done \in BOOLEAN
    /\ at \in {"code", "fault", "grow", "check", "retq", "debug", "exit"}
    /\ cpl \in {0, 3} /\ gs \in {"user", "kernel"} /\ tf \in BOOLEAN
    /\ rsp \in Stacks \cup {KernelStack}
    /\ frame \in [cpl : {0, 3}, tf : BOOLEAN, rsp : Stacks \cup {KernelStack}]
    /\ cr2 \in Bytes /\ idx \in 0 .. CHECKED
    /\ dcntr \in 0 .. SingleSteps /\ dsp \in Stacks
    /\ why \in {"none", "gpf", "kernel fault", "segfault", "version error"}

\* The byte is on a versioned page and has not the pointer's version.
WrongVersion(a, i) == Versioned(Page(a)) /\ store[a] # i.ptr.ver
Mismatch(i) == \E a \in Operand(i) : WrongVersion(a, i)

\* The bytes the check answers for, whatever the operand's length is.
Reach(i) ==
    LET n == IF i.opsize = UNDECODED \/ i.opsize > CHECKED THEN CHECKED ELSE i.opsize
    IN  i.ptr.addr .. i.ptr.addr + n - 1

\* Whenever the program runs in user mode it has its own gs base and its own
\* stack pointer, and no step is pending whose count would make the debug
\* handler take a trap of the program for its own; handlers that use per-CPU
\* slots have the kernel's gs base (the swapgs of page_fault.S and idt.S).
ContextRestored ==
    /\ cpl = 3 => gs = "user" /\ rsp = ins.sp /\ dcntr = 0
    /\ at \in {"check", "grow"} => gs = "kernel"
    /\ at = "debug" => gs = "user"

\* No instruction of the program, stepped or not, completes on a versioned
\* byte within the reach of the check whose version differs from its
\* pointer's (check_version, and the two debug exceptions that bound what runs
\* unchecked at kernel privilege).  For an operand no longer than XED's width
\* and the ten bytes of check_version that is every byte.
OnlyMatchingAccesses ==
    [][~done /\ done' => \A a \in Operand(ins) \cap Reach(ins) : ~WrongVersion(a, ins)]_vars

\* A version error ends only a program with a byte of another version in its
\* operand or within the reach of the check, or that leaves the page there:
\* for XED's width equal to the operand's length, bytes after the operand do
\* not count (check_version_instruction).
AlarmExplained ==
    why = "version error" =>
        \E a \in Operand(ins) \cup Reach(ins) :
            WrongVersion(a, ins) \/ ~on_same_page(a, ins.ptr.addr)

\* Every instruction completes or the machine stops: the fault, the check and
\* the two traps never send the program round the same fault for ever.
AccessResolves == ~done ~> (done \/ at = "exit")

\* What version.c:68 says of an operand that reaches another page, "this
\* would have likely failed on execution, but we caught it here": a version
\* error that is no mismatch is an access that would have failed.
AlarmsWouldHaveFailed ==
    why = "version error" => Mismatch(ins) \/ ~(OperandPages(ins) \subseteq present)
=============================================================================
