------------------------------- MODULE MCBoot -------------------------------
(***************************************************************************)
(* A kernel of two segments, text, and data with bss up to the end of the  *)
(* address space, and the header GNU ld adds for the stack.  Pages have    *)
(* eight bytes and words two, so that a handful of short strings reaches   *)
(* the end of the kernel stack.                                            *)
(***************************************************************************)
EXTENDS Boot

ASSUME BootIsOrdinary == KernelFits /\ ArgumentsBounded /\ AuxFits

BootSegments ==
    <<[vaddr |-> 464, filesz |-> 13, memsz |-> 13, off |-> 3],
      [vaddr |-> 480, filesz |-> 5, memsz |-> 32, off |-> 20],
      [vaddr |-> 0, filesz |-> 0, memsz |-> 0, off |-> 0]>>
Lengths == {0, 3, 12}
BootArguments == {<<a>> : a \in Lengths} \cup {<<a, b>> : a, b \in Lengths}
\* With two arguments, five empty strings take the kernel's own arrays into its
\* variables; ten bring envp below the unmapped page under the stack.
BootEnvironments == {<<>>} \cup BootArguments \cup {[i \in 1 .. n |-> 0] : n \in {5, 10}}
=============================================================================
