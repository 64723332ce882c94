--------------------------- MODULE VersionProofs ---------------------------
(***************************************************************************)
(* Proofs about Version for every page size, layout, number of versions    *)
(* and set of calls, and for instructions of every length and every width  *)
(* XED may report of them: the program's context comes back, no byte       *)
(* within the reach of the check is accessed with the wrong version, and   *)
(* every alarm has its reason there or in the operand.                     *)
(***************************************************************************)
EXTENDS Version, TLAPS

\* The frame on the kernel's stack is the program's.
UserFrame == frame.cpl = 3 /\ frame.rsp = ins.sp /\ dcntr = 0

\* What the per-CPU slots and the frame hold at each place of the code: a
\* step in flight is the only time the count is not zero.
ContextInv ==
    /\ at \in {"code", "fault", "grow", "check", "retq", "debug", "exit"}
    /\ at = "code" => /\ gs = "user"
                      /\ \/ cpl = 3 /\ rsp = ins.sp /\ dcntr = 0
                         \/ cpl = 0 /\ tf /\ ~done /\ dsp = ins.sp /\ dcntr = 1
    /\ at = "fault" => gs = "user" /\ cpl = 0 /\ ~done /\ (UserFrame \/ frame.cpl = 0)
    /\ at \in {"check", "grow"} => gs = "kernel" /\ cpl = 0 /\ ~done /\ UserFrame
    /\ at = "retq" => gs = "user" /\ cpl = 0 /\ tf /\ ~done /\ dsp = ins.sp /\ dcntr = 2
    /\ at = "debug" => /\ gs = "user" /\ cpl = 0
                       /\ \/ UserFrame
                          \/ frame.cpl = 0 /\ frame.tf /\ ~done /\ dsp = ins.sp /\ dcntr = 2
                          \/ dsp = ins.sp /\ dcntr = 1
    /\ at = "exit" /\ cpl = 3 => gs = "user" /\ rsp = ins.sp /\ dcntr = 0

\* The program starts in user mode with its own gs base (switch_user_land).
LEMMA ContextInit == Init => ContextInv
  BY DEF Init, ContextInv

\* The program's own steps and its system calls.
LEMMA ContextProgram == ContextInv /\ Program => ContextInv'
<1> SUFFICES ASSUME ContextInv, Program PROVE ContextInv'
  OBVIOUS
<1>1. ASSUME NEW i \in Instructions, NextInstruction(i) PROVE ContextInv'
  BY <1>1 DEF ContextInv, NextInstruction, UserFrame
<1>2. ASSUME NEW n \in CallNumbers, NEW c \in SetCalls, SyscallVersion(n, c) PROVE ContextInv'
  BY <1>2 DEF ContextInv, SyscallVersion, UserFrame, cpu
<1>3. ASSUME NEW p \in Mappable, SyscallMap(p) PROVE ContextInv'
  BY <1>3 DEF ContextInv, SyscallMap, UserFrame, cpu
<1> QED
  BY <1>1, <1>2, <1>3 DEF Program

\* The steps of the processor and of the handlers.
LEMMA ContextMachine == ContextInv /\ Machine => ContextInv'
<1> SUFFICES ASSUME ContextInv, Machine PROVE ContextInv'
  OBVIOUS
<1>1. CASE RunUser
  <2>1. CASE Complete
    BY <1>1, <2>1 DEF ContextInv, RunUser, Complete, Exception, UserFrame
  <2>2. ASSUME NEW a \in Operand(ins), Raise(a) PROVE ContextInv'
    BY <1>1, <2>2 DEF ContextInv, RunUser, Raise, Exception, UserFrame
  <2> QED
    BY <1>1, <2>1, <2>2 DEF RunUser
<1>2. CASE RunKernel
  <2>1. CASE Complete
    BY <1>2, <2>1 DEF ContextInv, RunKernel, Complete, Exception, UserFrame
  <2>2. ASSUME NEW a \in Operand(ins), Raise(a) PROVE ContextInv'
    BY <1>2, <2>2 DEF ContextInv, RunKernel, Raise, Exception, UserFrame
  <2> QED
    BY <1>2, <2>1, <2>2 DEF RunKernel
<1>3. CASE ProtectionFault
  BY <1>3 DEF ContextInv, ProtectionFault, kernel_exit, UserFrame
<1>4. CASE UserFault
  BY <1>4 DEF ContextInv, UserFault, Swap, UserFrame
<1>5. CASE KernelFault
  <2>1. at' = "exit" /\ cpl' = 0
    BY <1>5 DEF ContextInv, KernelFault, kernel_exit
  <2> QED
    BY <2>1 DEF ContextInv
<1>11. CASE handle_segfault
  BY <1>11 DEF ContextInv, handle_segfault, kernel_exit, UserFrame
<1>12. CASE VersionError
  <2>1. at' = "exit" /\ cpl' = 0
    BY <1>12 DEF ContextInv, VersionError, kernel_exit
  <2> QED
    BY <2>1 DEF ContextInv
<1>6. CASE Grow
  BY <1>6 DEF ContextInv, Grow, Iret, Swap, UserFrame
<1>7. CASE FillStore
  BY <1>7 DEF ContextInv, FillStore, UserFrame, cpu
<1>13. CASE CheckByte
  BY <1>13 DEF ContextInv, CheckByte, UserFrame
<1>8. CASE SetUpStep
  <2>1. at = "check" /\ at' = "retq" /\ gs' = Swap(gs) /\ dcntr' = 2 /\ dsp' = frame.rsp
        /\ tf' /\ cpl' = cpl /\ done' = done /\ ins' = ins
    BY <1>8 DEF SetUpStep, SingleSteps
  <2> QED
    BY <2>1 DEF ContextInv, Swap, UserFrame
<1>9. CASE Retq
  BY <1>9 DEF ContextInv, Retq, Exception, UserFrame
<1>10. CASE DebugHandler
  BY <1>10 DEF ContextInv, DebugHandler, DebugFrame, Countdown, Iret, Swap, UserFrame
<1> QED
  BY <1>1, <1>2, <1>3, <1>4, <1>5, <1>6, <1>7, <1>8, <1>9, <1>10, <1>11, <1>12, <1>13 DEF Machine

\* Every step keeps the context invariant.
LEMMA ContextStep == ContextInv /\ [Next]_vars => ContextInv'
<1>1. ContextInv /\ UNCHANGED vars => ContextInv'
  BY DEF ContextInv, UserFrame, vars, cpu
<1> QED
  BY <1>1, ContextProgram, ContextMachine DEF Next

\* Whenever the program runs in user mode it has its gs base and its stack
\* pointer and no step is pending, whatever faults, checks and traps came
\* before (the swapgs, CPU_TMP_DCNTR and CPU_TMP_DSP of page_fault.S, idt.S).
THEOREM ContextAlwaysRestored == Spec => []ContextRestored
<1>1. ContextInv => ContextRestored
  BY DEF ContextInv, ContextRestored
<1> QED
  BY <1>1, ContextInit, ContextStep, PTL DEF Spec
-----------------------------------------------------------------------------
(* Versions. *)

\* What the check promises of an instruction it lets pass.
Matches(i) == \A a \in Operand(i) \cap Reach(i) : ~WrongVersion(a, i)

\* A byte that needs no comparison or has passed it.
Passed(a) ==
    \/ a < cr2 /\ Page(a) \in UserPages
    \/ a >= cr2 + idx
    \/ a >= cr2 /\ store[a] = ins.ptr.ver /\ Page(a) \in storePages

\* While the check runs every byte of the operand before the current one has
\* passed; from then until the step is over what the check
\* answers for has no mismatch.
MatchInv ==
    /\ ins \in Instructions /\ InMemory(ins) /\ cr2 \in Int /\ idx \in Nat
    /\ at \in {"fault", "check"} /\ frame.cpl = 3 =>
          /\ cr2 \in Operand(ins)
          /\ \A a \in Operand(ins) : a < cr2 => Page(a) \in UserPages
    /\ at = "check" => /\ idx <= CHECKED
                       /\ \A a \in Operand(ins) : Passed(a)
    /\ ~done /\ (at = "retq" \/ (at = "code" /\ cpl = 0)
                    \/ (at = "debug" /\ frame.cpl = 0)) => Matches(ins)

\* Nothing is in flight when the program starts.
LEMMA MatchInit == Init => MatchInv
  BY DEF Init, MatchInv, InMemory

\* What an instruction is.
LEMMA InstructionType ==
  ASSUME NEW i \in Instructions
  PROVE  /\ i.ptr.addr \in Nat /\ i.width \in Nat \ {0} /\ i.opsize \in Nat
         /\ Operand(i) \subseteq Int
<1>1. PICK v \in Versions, a \in Bytes, w \in Shapes, s \in Stacks :
          i = [ptr |-> set_version_ptr(v, a), width |-> w[1], opsize |-> w[2], sp |-> s]
  BY DEF Instructions
<1>2. w[1] \in Nat \ {0} /\ w[2] \in Nat /\ a \in Nat
  BY VersionAssumption DEF Bytes
<1> QED
  BY <1>1, <1>2 DEF set_version_ptr, Operand

\* The reach of the check is no longer than what it looks at.
LEMMA ReachBounds ==
  ASSUME NEW i \in Instructions, NEW a \in Reach(i)
  PROVE  /\ a \in Int /\ i.ptr.addr <= a /\ a < i.ptr.addr + CHECKED
         /\ i.opsize # UNDECODED => a < i.ptr.addr + i.opsize
<1>1. i.ptr.addr \in Nat /\ i.opsize \in Nat /\ CHECKED \in Nat
  BY InstructionType, VersionAssumption
<1> QED
  BY <1>1 DEF Reach

\* The program's own steps: nothing is in flight while it chooses one.
LEMMA MatchProgram == ContextInv /\ MatchInv /\ Program => MatchInv'
<1> SUFFICES ASSUME ContextInv, MatchInv, Program PROVE MatchInv'
  OBVIOUS
<1>1. ASSUME NEW i \in Instructions, NextInstruction(i) PROVE MatchInv'
  <2>1. at = "code" /\ at' = "code" /\ done /\ cpl' = cpl /\ ins' = i /\ InMemory(i)
        /\ cr2' = cr2 /\ idx' = idx
    BY <1>1 DEF NextInstruction
  <2>2. cpl = 3
    BY <2>1 DEF ContextInv
  <2> QED
    BY <2>1, <2>2 DEF MatchInv, InMemory, Operand
<1>2. ASSUME NEW n \in CallNumbers, NEW c \in SetCalls, SyscallVersion(n, c) PROVE MatchInv'
  <2>1. at = "code" /\ done /\ UNCHANGED <<ins, done, at, cpl, frame, cr2, idx>>
    BY <1>2 DEF SyscallVersion, cpu
  <2> QED
    BY <2>1 DEF MatchInv, InMemory, Operand
<1>3. ASSUME NEW p \in Mappable, SyscallMap(p) PROVE MatchInv'
  <2>1. at = "code" /\ done /\ UNCHANGED <<ins, done, at, cpl, frame, cr2, idx>>
    BY <1>3 DEF SyscallMap, cpu
  <2> QED
    BY <2>1 DEF MatchInv, InMemory, Operand
<1> QED
  BY <1>1, <1>2, <1>3 DEF Program

\* An instruction that completes leaves nothing in flight.
LEMMA MatchComplete == MatchInv /\ at = "code" /\ Complete => MatchInv'
<1> SUFFICES ASSUME MatchInv, at = "code", Complete PROVE MatchInv'
  OBVIOUS
<1>1. done' /\ ins' = ins /\ cr2' = cr2 /\ idx' = idx /\ at' \in {"code", "debug"}
  BY DEF Complete, Exception
<1> QED
  BY <1>1 DEF MatchInv, InMemory, Operand

\* A stop leaves nothing in flight.
LEMMA MatchExit ==
  ASSUME MatchInv, at' = "exit", UNCHANGED <<ins, cr2, idx>>
  PROVE  MatchInv'
  BY DEF MatchInv, InMemory, Operand

\* Bytes before the faulting one lie on pages that are not versioned.
LEMMA MatchRunUser == MatchInv /\ RunUser => MatchInv'
<1> SUFFICES ASSUME MatchInv, RunUser PROVE MatchInv'
  OBVIOUS
<1>1. ASSUME NEW a \in Operand(ins), FaultsFirst(a, UserAccessible), Raise(a) PROVE MatchInv'
  <2>1. /\ at' = "fault" /\ cr2' = a /\ ins' = ins /\ idx' = idx
    BY <1>1 DEF Raise, Exception
  <2>2. a \in Int
    BY InstructionType DEF MatchInv
  <2>3. \A b \in Operand(ins) : b < a => Page(b) \in UserPages
    BY <1>1 DEF FaultsFirst, UserAccessible
  <2> QED
    BY <1>1, <2>1, <2>2, <2>3 DEF MatchInv, InMemory, Operand, Page
<1> QED
  BY <1>1, MatchComplete DEF RunUser

\* A stepped instruction that faults ends the machine.
LEMMA MatchRunKernel == MatchInv /\ RunKernel => MatchInv'
<1> SUFFICES ASSUME MatchInv, RunKernel PROVE MatchInv'
  OBVIOUS
<1>1. ASSUME NEW a \in Operand(ins), Raise(a) PROVE MatchInv'
  <2>1. at' = "fault" /\ cr2' = a /\ ins' = ins /\ idx' = idx /\ frame'.cpl = 0
    BY <1>1 DEF RunKernel, Raise, Exception
  <2>2. a \in Int
    BY InstructionType DEF MatchInv
  <2> QED
    BY <2>1, <2>2 DEF MatchInv, InMemory, Operand
<1> QED
  BY <1>1, MatchComplete DEF RunKernel

\* Mapping a page of the store leaves the bytes that passed as they are.
LEMMA MatchFillStore == MatchInv /\ FillStore => MatchInv'
<1> SUFFICES ASSUME MatchInv, FillStore PROVE MatchInv'
  OBVIOUS
<1>1. at = "check" /\ UNCHANGED <<ins, done, at, cpl, frame, cr2, idx, present>>
  BY DEF FillStore, cpu
<1>2. ASSUME NEW a \in Operand(ins) PROVE Passed(a)'
  <2>1. a \in Bytes /\ Passed(a)
    BY <1>1 DEF MatchInv, InMemory
  <2>2. Page(a) \in storePages => store'[a] = store[a] /\ Page(a) \in storePages'
    BY <2>1 DEF FillStore, Filled, StoreTouched
  <2> QED
    BY <1>1, <2>1, <2>2 DEF Passed, Page
<1> QED
  BY <1>1, <1>2 DEF MatchInv, InMemory, Operand, Page

\* The byte just compared joins the ones that passed.
LEMMA MatchCheckByte == MatchInv /\ CheckByte => MatchInv'
<1> SUFFICES ASSUME MatchInv, CheckByte PROVE MatchInv'
  OBVIOUS
<1>1. /\ at = "check" /\ idx' = idx + 1 /\ idx < CHECKED /\ Readable(idx) /\ ByteAgrees(idx)
      /\ UNCHANGED <<memory, ins, done, at, cpl, frame, cr2>>
  BY DEF CheckByte
<1>2. store[cr2 + idx] = ins.ptr.ver /\ Page(cr2 + idx) \in storePages
  BY <1>1 DEF Readable, ByteAgrees
<1>3. ASSUME NEW a \in Operand(ins) PROVE Passed(a)'
  <2>1. Passed(a) /\ a \in Int /\ cr2 \in Int /\ idx \in Nat
    BY <1>1, InstructionType DEF MatchInv
  <2>2. UNCHANGED <<store, storePages>>
    BY <1>1 DEF memory
  <2>3. a = cr2 + idx \/ a < cr2 + idx \/ a >= cr2 + idx + 1
    BY <2>1
  <2> QED
    BY <1>1, <1>2, <2>1, <2>2, <2>3 DEF Passed, Page
<1> QED
  BY <1>1, <1>3, VersionAssumption DEF MatchInv, InMemory, Operand, Page, memory

\* When the check passes, every byte of the operand within its reach has.
LEMMA MatchSetUpStep == ContextInv /\ MatchInv /\ SetUpStep => MatchInv'
<1> SUFFICES ASSUME ContextInv, MatchInv, SetUpStep PROVE MatchInv'
  OBVIOUS
<1>1. /\ at = "check" /\ at' = "retq" /\ Verdict /\ cr2' = 0 /\ idx' = 0
      /\ UNCHANGED <<memory, ins, done>>
  BY DEF SetUpStep
<1>2. /\ ins \in Instructions /\ idx \in Nat /\ cr2 \in Int /\ cr2 \in Operand(ins)
      /\ ins.ptr.addr \in Nat /\ ins.width \in Nat /\ ins.opsize \in Nat /\ CHECKED \in Nat
  BY <1>1, InstructionType, VersionAssumption DEF MatchInv, ContextInv, UserFrame
<1>3. ASSUME NEW a \in Operand(ins), a \in Reach(ins) PROVE ~WrongVersion(a, ins)
  <2>1. Passed(a) /\ a \in Int
    BY <1>1, <1>2, InstructionType DEF MatchInv
  <2>2. a < ins.ptr.addr + idx
    BY <1>1, <1>2, <1>3, <2>1, ReachBounds DEF Verdict, OperandEndsBefore
  <2>3. ins.ptr.addr <= cr2
    BY <1>2 DEF Operand
  <2>4. a < cr2 + idx
    BY <1>2, <2>1, <2>2, <2>3
  <2> QED
    BY <1>2, <2>1, <2>4 DEF Passed, Versioned, WrongVersion
<1>4. Matches(ins)'
  BY <1>1, <1>3 DEF Matches, WrongVersion, Operand, Reach, Versioned, Page, memory
<1> QED
  BY <1>1, <1>4 DEF MatchInv, InMemory, Operand

\* The other steps of the machine.
LEMMA MatchMachine == ContextInv /\ MatchInv /\ Machine => MatchInv'
<1> SUFFICES ASSUME ContextInv, MatchInv, Machine PROVE MatchInv'
  OBVIOUS
<1>1. CASE ProtectionFault
  BY <1>1, MatchExit DEF ProtectionFault, kernel_exit
<1>2. CASE KernelFault
  BY <1>2, MatchExit DEF KernelFault, kernel_exit
<1>3. CASE handle_segfault
  BY <1>3, MatchExit DEF handle_segfault, kernel_exit
<1>4. CASE VersionError
  BY <1>4, MatchExit DEF VersionError, kernel_exit
<1>5. CASE UserFault
  <2>1. /\ at = "fault" /\ frame.cpl = 3 /\ at' \in {"check", "grow"} /\ idx' = 0
        /\ UNCHANGED <<memory, ins, done, frame, cr2>>
    BY <1>5 DEF UserFault
  <2>2. ASSUME NEW a \in Operand(ins) PROVE Passed(a)'
    <3>1. a \in Int /\ cr2 \in Int
      BY InstructionType DEF MatchInv
    <3> QED
      BY <2>1, <3>1 DEF MatchInv, Passed, Page
  <2> QED
    BY <2>1, <2>2, VersionAssumption DEF MatchInv, InMemory, Operand, Page
<1>6. CASE Grow
  <2>1. at' = "code" /\ cpl' = frame.cpl /\ cr2' = 0 /\ idx' = 0 /\ ins' = ins
    BY <1>6 DEF Grow, Iret
  <2>2. frame.cpl = 3
    BY <1>6 DEF Grow, ContextInv, UserFrame
  <2> QED
    BY <2>1, <2>2 DEF MatchInv, InMemory, Operand
<1>7. CASE Retq
  <2>1. /\ at = "retq" /\ at' = "debug"
        /\ UNCHANGED <<memory, ins, done, cr2, idx>>
    BY <1>7 DEF Retq, Exception
  <2>2. ~done /\ Matches(ins)
    BY <2>1 DEF MatchInv, ContextInv
  <2>3. Matches(ins)'
    BY <2>1, <2>2 DEF Matches, WrongVersion, Operand, Reach, Versioned, Page, memory
  <2> QED
    BY <2>1, <2>3 DEF MatchInv, InMemory, Operand
<1>8. CASE DebugHandler
  <2>1. /\ at = "debug" /\ at' = "code" /\ cpl' = DebugFrame.cpl /\ cr2' = 0 /\ idx' = 0
        /\ UNCHANGED <<memory, ins, done>>
    BY <1>8 DEF DebugHandler, Iret
  <2>2. DebugFrame.cpl = 0 => frame.cpl = 0
    BY DEF DebugFrame
  <2>3. ~done /\ frame.cpl = 0 => Matches(ins)
    BY <2>1 DEF MatchInv
  <2>4. Matches(ins) => Matches(ins)'
    BY <2>1 DEF Matches, WrongVersion, Operand, Reach, Versioned, Page, memory
  <2> QED
    BY <2>1, <2>2, <2>3, <2>4 DEF MatchInv, InMemory, Operand
<1> QED
  BY <1>1, <1>2, <1>3, <1>4, <1>5, <1>6, <1>7, <1>8, MatchRunUser, MatchRunKernel,
     MatchFillStore, MatchCheckByte, MatchSetUpStep DEF Machine

\* Every step keeps the invariant of the check.
LEMMA MatchStep == ContextInv /\ MatchInv /\ [Next]_vars => MatchInv'
<1>1. MatchInv /\ UNCHANGED vars => MatchInv'
  BY DEF MatchInv, InMemory, Operand, Passed, Matches, WrongVersion, Reach, Versioned, Page, vars,
     cpu, memory
<1> QED
  BY <1>1, MatchProgram, MatchMachine DEF Next

\* An instruction completes either on pages that are not versioned or as the
\* one that was checked.
LEMMA CompletionMatches ==
  ContextInv /\ MatchInv /\ [Next]_vars => [~done /\ done' => Matches(ins)]_vars
<1> SUFFICES ASSUME ContextInv, MatchInv, Next, ~done, done' PROVE Matches(ins)
  OBVIOUS
<1>1. CASE RunUser
  <2>1. OperandPages(ins) \subseteq UserAccessible
    BY <1>1 DEF RunUser, Raise
  <2> QED
    BY <2>1 DEF OperandPages, UserAccessible, Matches, WrongVersion, Versioned
<1>2. CASE RunKernel
  BY <1>2 DEF RunKernel, MatchInv
<1>3. ~Program
  BY DEF Program, NextInstruction, SyscallVersion, SyscallMap
<1>4. RunUser \/ RunKernel
  BY <1>3 DEF Next, Machine, ProtectionFault, UserFault, KernelFault, Grow, handle_segfault,
     FillStore, CheckByte, SetUpStep, VersionError, Retq, DebugHandler
<1> QED
  BY <1>1, <1>2, <1>4

\* For every layout, every sequence of calls, accesses and faults, and
\* instructions of every length and XED width, none completes on a versioned
\* byte of another version within the reach of check_version; for operands
\* no longer than XED's width and the ten bytes looked at, on none at all.
THEOREM NoStrayAccess == Spec => OnlyMatchingAccesses
<1>1. ContextInv /\ MatchInv /\ [Next]_vars => (ContextInv /\ MatchInv)'
  BY ContextStep, MatchStep
<1>2. Init => ContextInv /\ MatchInv
  BY ContextInit, MatchInit
<1>3. Spec => [](ContextInv /\ MatchInv)
  BY <1>1, <1>2, PTL DEF Spec
<1> QED
  BY <1>3, CompletionMatches, PTL DEF Spec, OnlyMatchingAccesses, Matches
-----------------------------------------------------------------------------
(* Alarms and types. *)

\* A byte of the operand or within reach has the wrong version or is on
\* another page than the first.
Explained ==
    \E a \in Operand(ins) \cup Reach(ins) : WrongVersion(a, ins) \/ ~on_same_page(a, ins.ptr.addr)

\* The byte under check is the first of the operand on a page that is not the
\* program's, and a version error is explained when it is raised.
AlarmInv ==
    /\ ins \in Instructions /\ InMemory(ins)
    /\ at \in {"fault", "check", "grow"} => cr2 \in Operand(ins)
    /\ at \in {"fault", "check"} /\ frame.cpl = 3 =>
          /\ Page(cr2) \notin UserAccessible
          /\ \A a \in Operand(ins) : a < cr2 => Page(a) \in UserAccessible
    /\ at = "check" => Versioned(Page(cr2)) /\ idx \in 0 .. CHECKED
    /\ at \in {"code", "fault", "grow"} => idx = 0
    /\ why = "version error" => at = "exit" /\ Explained

\* The sizes are numbers.
LEMMA Sizes ==
  /\ PAGE_SIZE \in Nat \ {0} /\ PAGES \in Nat \ {0} /\ CHECKED \in Nat \ {0}
  /\ CHECKED <= PAGE_SIZE /\ 0 \in 0 .. CHECKED
<1>1. PAGE_SIZE \in Nat \ {0} /\ PAGES \in Nat \ {0} /\ CHECKED \in 1 .. PAGE_SIZE
  BY VersionAssumption
<1> QED
  BY <1>1

\* No alarm has been raised when the program starts.
LEMMA AlarmInit == Init => AlarmInv
  BY DEF Init, AlarmInv

\* A step from the program's code to somewhere other than a handler.
LEMMA AlarmCode ==
  ASSUME AlarmInv, at = "code", at' \in {"code", "debug", "exit"}, idx' = idx,
         ins' \in Instructions, InMemory(ins)', why' = why \/ why' # "version error"
  PROVE  AlarmInv'
  BY DEF AlarmInv

\* The program's own steps.
LEMMA AlarmProgram == AlarmInv /\ Program => AlarmInv'
<1> SUFFICES ASSUME AlarmInv, Program PROVE AlarmInv'
  OBVIOUS
<1>1. ASSUME NEW i \in Instructions, NextInstruction(i) PROVE AlarmInv'
  BY <1>1, AlarmCode DEF NextInstruction, InMemory, Operand
<1>2. ASSUME NEW n \in CallNumbers, NEW c \in SetCalls, SyscallVersion(n, c) PROVE AlarmInv'
  <2>1. at = "code" /\ UNCHANGED <<at, idx, ins, why>>
    BY <1>2 DEF SyscallVersion, cpu
  <2> QED
    BY <2>1, AlarmCode DEF AlarmInv, InMemory, Operand
<1>3. ASSUME NEW p \in Mappable, SyscallMap(p) PROVE AlarmInv'
  <2>1. at = "code" /\ UNCHANGED <<at, idx, ins, why>>
    BY <1>3 DEF SyscallMap, cpu
  <2> QED
    BY <2>1, AlarmCode DEF AlarmInv, InMemory, Operand
<1> QED
  BY <1>1, <1>2, <1>3 DEF Program

\* The faulting byte is the first one user mode may not access.
LEMMA AlarmRunUser == AlarmInv /\ RunUser => AlarmInv'
<1> SUFFICES ASSUME AlarmInv, RunUser PROVE AlarmInv'
  OBVIOUS
<1>1. CASE Complete
  <2>1. at = "code" /\ at' \in {"code", "debug"} /\ UNCHANGED <<idx, ins, why>>
    BY <1>1 DEF RunUser, Complete, Exception
  <2> QED
    BY <2>1, AlarmCode DEF AlarmInv, InMemory, Operand
<1>2. ASSUME NEW a \in Operand(ins), FaultsFirst(a, UserAccessible), Raise(a) PROVE AlarmInv'
  <2>1. /\ at = "code" /\ at' = "fault" /\ cr2' = a /\ UNCHANGED <<memory, ins, idx, why>>
    BY <1>2 DEF RunUser, Raise, Exception
  <2>2. UserAccessible' = UserAccessible
    BY <2>1 DEF UserAccessible, memory
  <2> QED
    BY <1>2, <2>1, <2>2 DEF AlarmInv, FaultsFirst, InMemory, Operand, Page
<1> QED
  BY <1>1, <1>2 DEF RunUser

\* A stepped instruction completes or faults at kernel privilege.
LEMMA AlarmRunKernel == AlarmInv /\ RunKernel => AlarmInv'
<1> SUFFICES ASSUME AlarmInv, RunKernel PROVE AlarmInv'
  OBVIOUS
<1>1. CASE Complete
  <2>1. at = "code" /\ at' \in {"code", "debug"} /\ UNCHANGED <<idx, ins, why>>
    BY <1>1 DEF RunKernel, Complete, Exception
  <2> QED
    BY <2>1, AlarmCode DEF AlarmInv, InMemory, Operand
<1>2. ASSUME NEW a \in Operand(ins), Raise(a) PROVE AlarmInv'
  <2>1. /\ at = "code" /\ at' = "fault" /\ cr2' = a /\ frame'.cpl = 0
        /\ UNCHANGED <<ins, idx, why>>
    BY <1>2 DEF RunKernel, Raise, Exception
  <2>2. why' # "version error" /\ idx' = 0 /\ (cr2 \in Operand(ins))'
    BY <2>1 DEF AlarmInv, Operand
  <2>3. ins' \in Instructions /\ InMemory(ins)'
    BY <2>1 DEF AlarmInv, InMemory, Operand
  <2>4. frame'.cpl # 3
    BY <2>1
  <2> QED
    BY <2>1, <2>2, <2>3, <2>4 DEF AlarmInv
<1> QED
  BY <1>1, <1>2 DEF RunKernel

\* check_version stops short of the operand's end by XED's width on a byte
\* within reach, which is on a second page or of another version, or the
\* operand itself started on a page that is not versioned.
LEMMA AlarmVersionError == ContextInv /\ AlarmInv /\ VersionError => AlarmInv'
<1> SUFFICES ASSUME ContextInv, AlarmInv, VersionError PROVE AlarmInv'
  OBVIOUS
<1>1. /\ at = "check" /\ Stopped /\ ~Verdict /\ at' = "exit"
      /\ UNCHANGED <<memory, ins>>
  BY DEF VersionError, kernel_exit
<1>2. /\ frame.cpl = 3 /\ cr2 \in Operand(ins) /\ idx \in 0 .. CHECKED
      /\ Versioned(Page(cr2))
      /\ \A a \in Operand(ins) : a < cr2 => Page(a) \in UserAccessible
  BY <1>1 DEF ContextInv, UserFrame, AlarmInv
<1>c. CHECKED \in Nat
  BY VersionAssumption
<1>3. /\ ins.ptr.addr \in Nat /\ ins.width \in Nat \ {0} /\ ins.opsize \in Nat
      /\ Operand(ins) \subseteq Int /\ CHECKED \in Nat
  BY <1>c, InstructionType DEF AlarmInv
<1>4. /\ idx \in Nat /\ idx < CHECKED /\ (ins.opsize = UNDECODED \/ idx < ins.opsize)
      /\ ~ByteAgrees(idx)
  BY <1>1, <1>2, <1>3 DEF Stopped, Verdict, OperandEndsBefore
<1>5. Explained
  <2>1. CASE cr2 = ins.ptr.addr
    <3>1. cr2 + idx \in Reach(ins)
      BY <1>3, <1>4, <2>1 DEF Reach
    <3>2. CASE Page(cr2 + idx) = Page(cr2)
      <4>1. store[cr2 + idx] # ins.ptr.ver
        BY <1>4, <3>2 DEF ByteAgrees, MappedElsewhere, on_same_page
      <4> QED
        BY <1>2, <3>1, <3>2, <4>1 DEF Explained, WrongVersion
    <3>3. CASE Page(cr2 + idx) # Page(cr2)
      BY <2>1, <3>1, <3>3 DEF Explained, on_same_page
    <3> QED
      BY <3>2, <3>3
  <2>2. CASE cr2 # ins.ptr.addr
    <3>1. ins.ptr.addr \in Operand(ins) /\ ins.ptr.addr < cr2
      BY <1>2, <1>3, <2>2 DEF Operand
    <3>2. Page(ins.ptr.addr) # Page(cr2)
      BY <1>2, <3>1 DEF Versioned, UserAccessible
    <3> QED
      BY <1>2, <3>2 DEF Explained, on_same_page
  <2> QED
    BY <2>1, <2>2
<1>6. Explained'
  BY <1>1, <1>5 DEF Explained, WrongVersion, Operand, Reach, Versioned, Page, on_same_page, memory
<1> QED
  BY <1>1, <1>6 DEF AlarmInv, InMemory, Operand

\* The steps of the processor and of the handlers.
LEMMA AlarmMachine == ContextInv /\ AlarmInv /\ Machine => AlarmInv'
<1> SUFFICES ASSUME ContextInv, AlarmInv, Machine PROVE AlarmInv'
  OBVIOUS
<1>1. CASE ProtectionFault
  BY <1>1, AlarmCode DEF ProtectionFault, kernel_exit, AlarmInv, InMemory, Operand
<1>2. CASE KernelFault \/ handle_segfault
  <2>1. at' = "exit" /\ why' # "version error" /\ ins' = ins
    BY <1>2 DEF KernelFault, handle_segfault, kernel_exit
  <2> QED
    BY <2>1 DEF AlarmInv, InMemory, Operand
<1>3. CASE UserFault
  <2>1. /\ at = "fault" /\ frame.cpl = 3 /\ idx' = 0
        /\ at' = IF Page(cr2) \in present THEN "check" ELSE "grow"
        /\ UNCHANGED <<memory, ins, frame, cr2, why>>
    BY <1>3 DEF UserFault
  <2>2. UserAccessible' = UserAccessible
    BY <2>1 DEF UserAccessible, memory
  <2>3. at' = "check" => Versioned(Page(cr2))'
    BY <2>1 DEF AlarmInv, Versioned, UserAccessible, Page, memory
  <2> QED
    BY <2>1, <2>2, <2>3, Sizes DEF AlarmInv, InMemory, Operand, Page
<1>4. CASE Grow
  <2>1. at = "grow" /\ at' = "code" /\ idx' = 0 /\ UNCHANGED <<ins, why>>
    BY <1>4 DEF Grow, Iret
  <2> QED
    BY <2>1 DEF AlarmInv, InMemory, Operand
<1>5. CASE FillStore
  <2>1. at = "check" /\ UNCHANGED <<present, ins, frame, at, cr2, idx, why>>
    BY <1>5 DEF FillStore, cpu
  <2> QED
    BY <2>1 DEF AlarmInv, InMemory, Operand, UserAccessible, Versioned, Page
<1>6. CASE CheckByte
  <2>1. /\ at = "check" /\ idx' = idx + 1 /\ idx < CHECKED
        /\ UNCHANGED <<memory, ins, frame, at, cr2, why>>
    BY <1>6 DEF CheckByte
  <2>2. idx' \in 0 .. CHECKED
    <3>1. idx \in 0 .. CHECKED
      BY <2>1 DEF AlarmInv
    <3> QED
      BY <2>1, <3>1, Sizes
  <2> QED
    BY <2>1, <2>2 DEF AlarmInv, InMemory, Operand, UserAccessible, Versioned, Page, memory
<1>7. CASE SetUpStep
  <2>1. at = "check" /\ at' = "retq" /\ UNCHANGED <<ins, why>>
    BY <1>7 DEF SetUpStep
  <2> QED
    BY <2>1 DEF AlarmInv, InMemory, Operand
<1>8. CASE Retq
  <2>1. at = "retq" /\ at' = "debug" /\ UNCHANGED <<ins, why>>
    BY <1>8 DEF Retq, Exception
  <2> QED
    BY <2>1 DEF AlarmInv, InMemory, Operand
<1>9. CASE DebugHandler
  <2>1. at = "debug" /\ at' = "code" /\ idx' = 0 /\ UNCHANGED <<ins, why>>
    BY <1>9 DEF DebugHandler, Iret
  <2> QED
    BY <2>1 DEF AlarmInv, InMemory, Operand
<1> QED
  BY <1>1, <1>2, <1>3, <1>4, <1>5, <1>6, <1>7, <1>8, <1>9, AlarmRunUser, AlarmRunKernel,
     AlarmVersionError DEF Machine

\* Every step keeps the invariant of the alarm.
LEMMA AlarmStep == ContextInv /\ AlarmInv /\ [Next]_vars => AlarmInv'
<1>1. AlarmInv /\ UNCHANGED vars => AlarmInv'
  <2> SUFFICES ASSUME AlarmInv, UNCHANGED vars PROVE AlarmInv'
    OBVIOUS
  <2>1. UNCHANGED <<memory, at, ins, why, cr2, idx, frame>>
    BY DEF vars, cpu
  <2>2. Explained' = Explained
    BY <2>1 DEF Explained, WrongVersion, Reach, Operand, Versioned, Page, on_same_page, memory
  <2> QED
    BY <2>1, <2>2 DEF AlarmInv, InMemory, Operand, Versioned, UserAccessible, Page, memory
<1> QED
  BY <1>1, AlarmProgram, AlarmMachine DEF Next

\* The pages of an operand in memory are pages of user memory.
LEMMA PageOfByte ==
  ASSUME NEW a \in Bytes
  PROVE  Page(a) \in 0 .. PAGES - 1
  BY VersionAssumption DEF Bytes, Page

\* For every layout and sequence of calls, and instructions of every length
\* and XED width, a version error ends only a program with a byte of another
\* version in its operand or within the reach of the check, or that leaves
\* the page there.
THEOREM AlarmsAlwaysExplained == Spec => []AlarmExplained
<1>1. AlarmInv => AlarmExplained
  BY DEF AlarmInv, Explained, AlarmExplained
<1>2. Init => ContextInv /\ AlarmInv
  BY ContextInit, AlarmInit
<1>3. ContextInv /\ AlarmInv /\ [Next]_vars => (ContextInv /\ AlarmInv)'
  BY ContextStep, AlarmStep
<1> QED
  BY <1>1, <1>2, <1>3, PTL DEF Spec

\* What the version store and the page table hold.
MemoryType ==
    /\ store \in [Bytes -> Versions] /\ storePages \subseteq 0 .. PAGES - 1
    /\ present \subseteq 0 .. PAGES - 1

\* Accesses to the store for bytes of user memory keep its type.
LEMMA StoreType ==
  ASSUME MemoryType, NEW bytes \in SUBSET Bytes
  PROVE  /\ StoreTouched(bytes) \subseteq 0 .. PAGES - 1
         /\ Filled(bytes) \in [Bytes -> Versions]
<1>1. \A a \in bytes : Page(a) \in 0 .. PAGES - 1
  BY PageOfByte
<1>2. 0 \in Versions
  <2>1. VERSIONS \in Nat \ {0}
    BY VersionAssumption
  <2> QED
    BY <2>1 DEF Versions
<1> QED
  BY <1>1, <1>2 DEF MemoryType, StoreTouched, Filled

\* check_version never reads past the top of user memory: the last page is the
\* stack's, and no check starts on it.
LEMMA CheckInMemory ==
  ASSUME AlarmInv, MemoryType, at = "check", idx < CHECKED
  PROVE  cr2 + idx \in Bytes
<1>1. cr2 \in Bytes /\ Versioned(Page(cr2)) /\ idx \in 0 .. CHECKED
  BY DEF AlarmInv, InMemory
<1>2. Page(cr2) # PAGES - 1
  BY <1>1, VersionAssumption DEF Versioned
<1>3. Page(cr2) \in 0 .. PAGES - 1
  BY <1>1, PageOfByte
<1>4. cr2 \in Nat /\ PAGE_SIZE \in Nat \ {0} /\ PAGES \in Nat \ {0} /\ idx \in Nat
      /\ idx < PAGE_SIZE
  BY <1>1, Sizes DEF Bytes
<1>5. Page(cr2) <= PAGES - 2 /\ Page(cr2) \in Nat
  BY <1>2, <1>3, <1>4
<1>6. cr2 < (PAGES - 1) * PAGE_SIZE
  BY <1>4, <1>5 DEF Page
<1>7. (PAGES - 1) * PAGE_SIZE + PAGE_SIZE = PAGES * PAGE_SIZE /\ PAGES * PAGE_SIZE \in Nat
  BY <1>4
<1> QED
  BY <1>4, <1>6, <1>7 DEF Bytes

\* An instruction knows its version, address and stack.
LEMMA InstructionParts ==
  ASSUME NEW i \in Instructions
  PROVE  i.sp \in Stacks
  BY DEF Instructions

\* The rest of the types.
CpuType ==
    /\ ins \in Instructions /\ done \in BOOLEAN
    /\ at \in {"code", "fault", "grow", "check", "retq", "debug", "exit"}
    /\ cpl \in {0, 3} /\ gs \in {"user", "kernel"} /\ tf \in BOOLEAN
    /\ rsp \in Stacks \cup {KernelStack}
    /\ frame \in [cpl : {0, 3}, tf : BOOLEAN, rsp : Stacks \cup {KernelStack}]
    /\ cr2 \in Bytes /\ idx \in 0 .. CHECKED
    /\ dcntr \in 0 .. SingleSteps /\ dsp \in Stacks
    /\ why \in {"none", "gpf", "kernel fault", "segfault", "version error"}

\* The types hold when the program starts.
LEMMA TypeInit == Init => MemoryType /\ CpuType
<1> SUFFICES ASSUME Init PROVE MemoryType /\ CpuType
  OBVIOUS
<1>1. 0 \in Versions /\ 0 \in Bytes
  <2>1. VERSIONS \in Nat \ {0} /\ PAGES * PAGE_SIZE \in Nat \ {0}
    <3>1. VERSIONS \in Nat \ {0}
      BY VersionAssumption
    <3> QED
      BY <3>1, Sizes
  <2> QED
    BY <2>1 DEF Versions, Bytes
<1>2. BootPresent \subseteq 0 .. PAGES - 1
  BY VersionAssumption
<1>3. MemoryType
  BY <1>1, <1>2 DEF Init, MemoryType
<1>4. ins \in Instructions /\ ins.sp \in Stacks
  BY InstructionParts DEF Init
<1>5. NoFrame \in [cpl : {0, 3}, tf : BOOLEAN, rsp : Stacks \cup {KernelStack}]
  BY DEF NoFrame
<1>6. 0 \in 0 .. SingleSteps /\ 0 \in 0 .. CHECKED
  BY Sizes DEF SingleSteps
<1> QED
  BY <1>1, <1>3, <1>4, <1>5, <1>6 DEF Init, CpuType

\* Memory keeps its type: versions are cut to their width, pages stay in
\* user memory.
LEMMA MemoryStep == AlarmInv /\ MemoryType /\ CpuType /\ [Next]_vars => MemoryType'
<1> SUFFICES ASSUME AlarmInv, MemoryType, CpuType, [Next]_vars PROVE MemoryType'
  OBVIOUS
<1>1. ASSUME NEW n \in CallNumbers, NEW c \in SetCalls, SyscallVersion(n, c) PROVE MemoryType'
  <2>1. present' = present
    BY <1>1 DEF SyscallVersion
  <2>2. /\ c[1] \in Nat /\ c[2] \in Nat /\ c[3] \in Nat /\ VERSIONS \in Nat \ {0}
        /\ c[1] < PAGES * PAGE_SIZE /\ c[1] + c[2] <= PAGES * PAGE_SIZE
    BY VersionAssumption
  <2>3. PAGES * PAGE_SIZE \in Nat
    BY Sizes
  <2>4. {c[1]} \in SUBSET Bytes /\ c[1] .. c[1] + c[2] - 1 \in SUBSET Bytes
    BY <2>2, <2>3 DEF Bytes
  <2>5. c[3] % VERSIONS \in Versions
    BY <2>2 DEF Versions
  <2>6. CASE set_version(c[1], c[2], c[3])
    <3> DEFINE bytes == c[1] .. c[1] + c[2] - 1
    <3>1. /\ storePages' = StoreTouched(bytes)
          /\ store' = [a \in Bytes |-> IF a \in bytes THEN c[3] % VERSIONS ELSE Filled(bytes)[a]]
      BY <2>6 DEF set_version
    <3>2. bytes \in SUBSET Bytes
      BY <2>4
    <3> HIDE DEF bytes
    <3>3. StoreTouched(bytes) \subseteq 0 .. PAGES - 1 /\ Filled(bytes) \in [Bytes -> Versions]
      BY <3>2, StoreType
    <3> QED
      BY <2>1, <2>5, <3>1, <3>3 DEF MemoryType
  <2>7. CASE get_version(c[1])
    BY <2>1, <2>4, <2>7, StoreType DEF get_version, MemoryType
  <2>8. CASE UNCHANGED <<store, storePages>>
    BY <2>1, <2>8 DEF MemoryType
  <2> QED
    BY <1>1, <2>6, <2>7, <2>8 DEF SyscallVersion
<1>2. ASSUME NEW p \in Mappable, SyscallMap(p) PROVE MemoryType'
  <2>1. p \in 0 .. PAGES - 1
    BY VersionAssumption
  <2> QED
    BY <1>2, <2>1 DEF SyscallMap, MemoryType
<1>3. CASE Grow
  <2>1. Page(cr2) \in 0 .. PAGES - 1
    BY PageOfByte DEF CpuType
  <2> QED
    BY <1>3, <2>1 DEF Grow, MemoryType
<1>4. CASE FillStore
  <2>1. /\ at = "check" /\ idx < CHECKED /\ present' = present
        /\ storePages' = StoreTouched({cr2 + idx}) /\ store' = Filled({cr2 + idx})
    BY <1>4 DEF FillStore
  <2>2. {cr2 + idx} \in SUBSET Bytes
    BY <2>1, CheckInMemory
  <2> QED
    BY <2>1, <2>2, StoreType DEF MemoryType
<1>5. CASE UNCHANGED memory
  BY <1>5 DEF memory, MemoryType
<1>6. ASSUME NEW i \in Instructions, NextInstruction(i) PROVE UNCHANGED memory
  BY <1>6 DEF NextInstruction
<1>7. RunUser \/ RunKernel => UNCHANGED memory
  BY DEF RunUser, RunKernel, Complete, Raise
<1>8. ProtectionFault \/ UserFault \/ KernelFault \/ handle_segfault \/ CheckByte => UNCHANGED memory
  BY DEF ProtectionFault, UserFault, KernelFault, handle_segfault, CheckByte
<1>9. SetUpStep \/ VersionError \/ Retq \/ DebugHandler => UNCHANGED memory
  BY DEF SetUpStep, VersionError, Retq, DebugHandler
<1>10. UNCHANGED vars => UNCHANGED memory
  BY DEF vars
<1> QED
  BY <1>1, <1>2, <1>3, <1>4, <1>5, <1>6, <1>7, <1>8, <1>9, <1>10 DEF Next, Program, Machine

\* A handler that stops the machine.
LEMMA TypeExit ==
  ASSUME CpuType, NEW reason \in {"gpf", "kernel fault", "segfault", "version error"},
         kernel_exit(reason), UNCHANGED <<ins, done, gs, frame, cr2, idx, dcntr, dsp>>
  PROVE  CpuType'
  BY DEF CpuType, kernel_exit

\* An exception at a place of the program's or the handler's code.
LEMMA TypeException ==
  ASSUME CpuType, NEW handler \in {"fault", "debug"}, Exception(handler),
         done' \in BOOLEAN, cr2' \in Bytes, UNCHANGED <<ins, gs, idx, dcntr, dsp, why>>
  PROVE  CpuType'
<1>1. frame' \in [cpl : {0, 3}, tf : BOOLEAN, rsp : Stacks \cup {KernelStack}]
  BY DEF CpuType, Exception
<1>2. at' = handler /\ cpl' = 0 /\ tf' = FALSE /\ rsp' \in Stacks \cup {KernelStack}
  BY DEF CpuType, Exception
<1> QED
  BY <1>1, <1>2 DEF CpuType

\* A return through a frame.
LEMMA TypeIret ==
  ASSUME CpuType, Iret([cpl |-> 3, tf |-> FALSE, rsp |-> dsp]) \/ Iret(frame),
         gs' \in {"user", "kernel"}, dcntr' \in 0 .. SingleSteps, UNCHANGED <<ins, done, dsp, why>>
  PROVE  CpuType'
<1>1. NoFrame \in [cpl : {0, 3}, tf : BOOLEAN, rsp : Stacks \cup {KernelStack}]
  BY DEF NoFrame
<1>2. 0 \in Bytes
  <2>1. PAGES * PAGE_SIZE \in Nat \ {0}
    BY Sizes
  <2> QED
    BY <2>1 DEF Bytes
<1>3. /\ at' = "code" /\ frame' = NoFrame /\ cr2' = 0 /\ idx' = 0
      /\ cpl' \in {0, 3} /\ tf' \in BOOLEAN /\ rsp' \in Stacks \cup {KernelStack}
  BY DEF CpuType, Iret
<1> QED
  BY <1>1, <1>2, <1>3, Sizes DEF CpuType

\* swapgs.
LEMMA SwapType == Swap(gs) \in {"user", "kernel"} /\ Swap(Swap(gs)) \in {"user", "kernel"}
  BY DEF Swap

\* What most steps leave alone.
LEMMA SameParts ==
  ASSUME CpuType, UNCHANGED <<at, cpl, gs, frame, cr2, dcntr, dsp, why>>
  PROVE  /\ at' \in {"code", "fault", "grow", "check", "retq", "debug", "exit"}
         /\ cpl' \in {0, 3} /\ gs' \in {"user", "kernel"}
         /\ frame' \in [cpl : {0, 3}, tf : BOOLEAN, rsp : Stacks \cup {KernelStack}]
         /\ cr2' \in Bytes /\ dcntr' \in 0 .. SingleSteps /\ dsp' \in Stacks
         /\ why' \in {"none", "gpf", "kernel fault", "segfault", "version error"}
  BY DEF CpuType

\* The processor, the frame and the per-CPU slots keep their types.
LEMMA CpuStep == ContextInv /\ AlarmInv /\ CpuType /\ [Next]_vars => CpuType'
<1> SUFFICES ASSUME ContextInv, AlarmInv, CpuType, [Next]_vars PROVE CpuType'
  OBVIOUS
<1>1. ASSUME NEW i \in Instructions, NextInstruction(i) PROVE CpuType'
  <2>1. /\ ins' = i /\ done' = FALSE /\ rsp' \in {i.sp, rsp} /\ tf' \in TrapFlags \cup {tf}
        /\ UNCHANGED <<at, cpl, gs, frame, cr2, idx, dcntr, dsp, why>>
    BY <1>1 DEF NextInstruction
  <2>2. tf' \in BOOLEAN
    BY <2>1, VersionAssumption DEF CpuType
  <2>3. rsp' \in Stacks \cup {KernelStack}
    BY <2>1, InstructionParts DEF CpuType
  <2>4. ins' \in Instructions /\ idx' \in 0 .. CHECKED
    BY <2>1 DEF CpuType
  <2>5. done' \in BOOLEAN
    BY <2>1
  <2>6. UNCHANGED <<at, cpl, gs, frame, cr2, dcntr, dsp, why>>
    BY <2>1
  <2> QED
    BY <2>2, <2>3, <2>4, <2>5, <2>6, SameParts DEF CpuType
<1>2. ASSUME NEW n \in CallNumbers, NEW c \in SetCalls, SyscallVersion(n, c) PROVE UNCHANGED <<ins, done, cpu>>
  BY <1>2 DEF SyscallVersion
<1>3. ASSUME NEW p \in Mappable, SyscallMap(p) PROVE UNCHANGED <<ins, done, cpu>>
  BY <1>3 DEF SyscallMap
<1>4. CASE UNCHANGED <<ins, done, cpu>>
  <2>1. UNCHANGED <<ins, done, tf, rsp, idx, at, cpl, gs, frame, cr2, dcntr, dsp, why>>
    BY <1>4 DEF cpu
  <2>2. ins' \in Instructions /\ rsp' \in Stacks \cup {KernelStack} /\ idx' \in 0 .. CHECKED
    BY <2>1 DEF CpuType
  <2>3. done' \in BOOLEAN /\ tf' \in BOOLEAN
    BY <2>1 DEF CpuType
  <2>4. UNCHANGED <<at, cpl, gs, frame, cr2, dcntr, dsp, why>>
    BY <2>1
  <2> QED
    BY <2>2, <2>3, <2>4, SameParts DEF CpuType
<1>5. CASE RunUser \/ RunKernel
  <2>1. CASE Complete
    <3>1. CASE tf
      BY <2>1, <3>1, TypeException DEF Complete, CpuType
    <3>2. CASE ~tf
      BY <2>1, <3>2 DEF Complete, CpuType
    <3> QED
      BY <3>1, <3>2
  <2>2. ASSUME NEW a \in Operand(ins), Raise(a) PROVE CpuType'
    <3>1. a \in Bytes
      BY DEF AlarmInv, InMemory
    <3> QED
      BY <2>2, <3>1, TypeException DEF Raise, CpuType
  <2> QED
    BY <1>5, <2>1, <2>2 DEF RunUser, RunKernel
<1>6. CASE ProtectionFault \/ KernelFault \/ handle_segfault \/ VersionError
  BY <1>6, TypeExit DEF ProtectionFault, KernelFault, handle_segfault, VersionError
<1>7. CASE UserFault
  <2>1. /\ gs' = Swap(gs) /\ at' \in {"check", "grow"} /\ idx' = 0
        /\ UNCHANGED <<ins, done, cpl, tf, rsp, frame, cr2, dcntr, dsp, why>>
    BY <1>7 DEF UserFault
  <2>2. gs' \in {"user", "kernel"} /\ idx' \in 0 .. CHECKED
    BY <2>1, SwapType, Sizes
  <2>3. done' \in BOOLEAN /\ tf' \in BOOLEAN
    BY <2>1 DEF CpuType
  <2>4. at' \in {"code", "fault", "grow", "check", "retq", "debug", "exit"}
    BY <2>1
  <2> QED
    BY <2>1, <2>2, <2>3, <2>4 DEF CpuType
<1>8. CASE Grow
  BY <1>8, SwapType, TypeIret DEF Grow, CpuType
<1>9. CASE FillStore
  BY <1>4, <1>9 DEF FillStore
<1>10. CASE CheckByte
  <2>1. /\ idx' = idx + 1 /\ idx < CHECKED /\ idx \in 0 .. CHECKED
        /\ UNCHANGED <<ins, done, at, cpl, gs, tf, rsp, frame, cr2, dcntr, dsp, why>>
    BY <1>10 DEF CheckByte, CpuType
  <2>2. idx' \in 0 .. CHECKED
    BY <2>1, Sizes
  <2>3. ins' \in Instructions /\ rsp' \in Stacks \cup {KernelStack}
    BY <2>1 DEF CpuType
  <2>4. done' \in BOOLEAN /\ tf' \in BOOLEAN
    BY <2>1 DEF CpuType
  <2>5. UNCHANGED <<at, cpl, gs, frame, cr2, dcntr, dsp, why>>
    BY <2>1
  <2> QED
    BY <2>2, <2>3, <2>4, <2>5, SameParts DEF CpuType
<1>11. CASE SetUpStep
  <2>1. /\ at = "check" /\ dcntr' = SingleSteps /\ dsp' = frame.rsp /\ gs' = Swap(gs)
        /\ tf' = TRUE /\ at' = "retq" /\ frame' = NoFrame /\ cr2' = 0 /\ idx' = 0
        /\ UNCHANGED <<ins, done, cpl, rsp, why>>
    BY <1>11 DEF SetUpStep
  <2>2. dsp' \in Stacks
    BY <2>1, InstructionParts DEF ContextInv, UserFrame, CpuType
  <2>3. NoFrame \in [cpl : {0, 3}, tf : BOOLEAN, rsp : Stacks \cup {KernelStack}]
    BY DEF NoFrame
  <2>4. 0 \in Bytes /\ SingleSteps \in 0 .. SingleSteps
    <3>1. PAGES * PAGE_SIZE \in Nat \ {0}
      BY Sizes
    <3> QED
      BY <3>1 DEF Bytes, SingleSteps
  <2> QED
    BY <2>1, <2>2, <2>3, <2>4, SwapType, Sizes DEF CpuType
<1>12. CASE Retq
  BY <1>12, TypeException DEF Retq, CpuType
<1>13. CASE DebugHandler
  <2>1. /\ dcntr' = Countdown /\ gs' = Swap(Swap(gs)) /\ UNCHANGED <<ins, done, dsp, why>>
        /\ Iret(DebugFrame)
    BY <1>13 DEF DebugHandler
  <2>2. dcntr' \in 0 .. SingleSteps
    <3>1. dcntr \in 0 .. 2
      BY DEF CpuType, SingleSteps
    <3> QED
      BY <2>1, <3>1 DEF Countdown, SingleSteps
  <2>3. Iret([cpl |-> 3, tf |-> FALSE, rsp |-> dsp]) \/ Iret(frame)
    BY <2>1 DEF DebugFrame
  <2> QED
    BY <2>1, <2>2, <2>3, SwapType, TypeIret
<1>14. UNCHANGED vars => UNCHANGED <<ins, done, cpu>>
  BY DEF vars
<1> QED
  BY <1>1, <1>2, <1>3, <1>4, <1>5, <1>6, <1>7, <1>8, <1>9, <1>10, <1>11, <1>12, <1>13, <1>14
  DEF Next, Program, Machine

\* Versions, pages, frames and slots keep their types for every layout and
\* every sequence of calls: the check stays inside the version store and the
\* step counter of idt_debug_handler never passes zero.
THEOREM VersionTypeCorrect == Spec => []TypeOK
<1>1. MemoryType /\ CpuType => TypeOK
  BY DEF MemoryType, CpuType, TypeOK
<1> DEFINE I == ContextInv /\ AlarmInv /\ MemoryType /\ CpuType
<1>2. Init => I
  BY ContextInit, AlarmInit, TypeInit
<1>3. I /\ [Next]_vars => I'
  BY ContextStep, AlarmStep, MemoryStep, CpuStep
<1> QED
  BY <1>1, <1>2, <1>3, PTL DEF Spec
=============================================================================
