------------------------------ MODULE VmaHeap ------------------------------
(***************************************************************************)
(* The allocator of area nodes, kernel/c/vma_heap.c: a heap that grows one *)
(* node at a time and a list of freed nodes threaded through next_freed.   *)
(* vma_zalloc clears the vm_area part of a node only, so next_freed keeps  *)
(* its value while the node is in use.  Node k lies k * NODE_SIZE bytes    *)
(* into the heap.                                                          *)
(***************************************************************************)
EXTENDS Integers

CONSTANTS PAGE_SIZE,
          NODE_SIZE,     \* sizeof(vma_node_t)
          max_entries,   \* argument of vma_init
          kernel_min_address,   \* before vma_init
          MaxNodes,      \* BOUND on the nodes ever carved from the heap
          MaxUses        \* BOUND on the owners of one node

ASSUME NodesAssumption == MaxNodes \in Nat /\ MaxUses \in Nat

VARIABLES vma_free_list,  \* first freed node, or NULL
          next_freed,     \* node -> node or NULL
          vma_alloc_num,
          carved,         \* nodes 0..carved-1 exist: vma_heap_head
          mapped,         \* pages mapped for the heap
          uses            \* node -> owners it was handed to and that kept it

vars == <<vma_free_list, next_freed, vma_alloc_num, carved, mapped, uses>>

NULL == -1
Nodes == 0 .. MaxNodes - 1

PageDown(a) == (a \div PAGE_SIZE) * PAGE_SIZE
PageUp(a) == PageDown(a + PAGE_SIZE - 1)

vma_max_num == PageUp(max_entries * NODE_SIZE) \div NODE_SIZE - 1
HeapStart == PageDown(kernel_min_address - vma_max_num)
NodeAddr(k) == HeapStart + k * NODE_SIZE
PagesFrom(lo, hi) == {p \in lo .. hi : PageDown(p) = p}

\* vma_init has room for more than one node, and takes it from the kernel.
ASSUME HeapAssumption ==
    /\ PAGE_SIZE \in Nat \ {0} /\ NODE_SIZE \in Nat \ {0}
    /\ max_entries \in Nat /\ kernel_min_address \in Nat
    /\ vma_max_num > 0

(***************************************************************************)
(* vma_list_find: a node is on the list when every set of nodes that holds *)
(* the first one, and with a node the next, holds it.                      *)
(***************************************************************************)
Closed(L) == \A n \in L : next_freed[n] # NULL => next_freed[n] \in L
OnListFrom(first, n) ==
    /\ first # NULL
    /\ \A L \in SUBSET Nodes : first \in L /\ Closed(L) => n \in L
OnFreeList(n) == OnListFrom(vma_free_list, n)

Init ==   \* vma_init
    /\ vma_free_list = NULL
    /\ next_freed = [n \in Nodes |-> NULL]
    /\ vma_alloc_num = 0
    /\ carved = 0
    /\ mapped = PagesFrom(HeapStart, kernel_min_address - 1)
    /\ uses = [n \in Nodes |-> 0]

AllocFreed ==     \* vma_alloc, vma_next_freed finds a node
    /\ vma_free_list # NULL
    /\ uses[vma_free_list] < MaxUses
    /\ vma_free_list' = next_freed[vma_free_list]
    /\ uses' = [uses EXCEPT ![vma_free_list] = @ + 1]
    /\ UNCHANGED <<next_freed, vma_alloc_num, carved, mapped>>

\* The limit is tested for equality, after which the counter is past it.
AllocFails ==     \* vma_alloc returns NULL
    /\ vma_free_list = NULL
    /\ vma_alloc_num = vma_max_num + 1
    /\ vma_alloc_num' = vma_alloc_num + 1
    /\ UNCHANGED <<vma_free_list, next_freed, carved, mapped, uses>>

\* Mutant of NewPages: the last page is left out.
MutNewPagesShort(k) ==
    PagesFrom(PageDown(NodeAddr(k)) + PAGE_SIZE, PageDown(NodeAddr(k + 1)) - 1)

\* Mutant of NewPages: the page after the one the node ends in is mapped too.
MutNewPagesLong(k) ==
    PagesFrom(PageDown(NodeAddr(k)) + PAGE_SIZE, PageUp(NodeAddr(k + 1)))

\* The pages between the node's first page and the one its end lies in.
NewPages(k) ==
    PagesFrom(PageDown(NodeAddr(k)) + PAGE_SIZE, PageDown(NodeAddr(k + 1)))

AllocCarved ==    \* vma_alloc takes the next node of the heap
    /\ vma_free_list = NULL
    /\ vma_alloc_num # vma_max_num + 1
    /\ carved < MaxNodes
    /\ vma_alloc_num' = vma_alloc_num + 1
    /\ carved' = carved + 1
    /\ mapped' = mapped \cup NewPages(carved)
    /\ uses' = [uses EXCEPT ![carved] = @ + 1]
    /\ UNCHANGED <<vma_free_list, next_freed>>

\* Mutant of FreedLink: the node is never linked to the rest of the list.
MutNeverLinked(n) == next_freed

\* vma_free: a node found on the list is reported and stays as it is; the
\* owner is gone either way.  next_freed is written only if the list has
\* nodes.
FreedLink(n) ==
    IF vma_free_list # NULL THEN [next_freed EXCEPT ![n] = vma_free_list]
    ELSE next_freed

\* Mutant of Free: no search for the node on the list.
MutFreeUnchecked(n) ==
    /\ uses[n] > 0
    /\ uses' = [uses EXCEPT ![n] = @ - 1]
    /\ next_freed' = FreedLink(n)
    /\ vma_free_list' = n
    /\ UNCHANGED <<vma_alloc_num, carved, mapped>>

\* Mutant of Free: a freed node is taken off the allocation count.
MutFreeCounts(n) ==
    /\ uses[n] > 0
    /\ uses' = [uses EXCEPT ![n] = @ - 1]
    /\ \/ /\ OnFreeList(n)
          /\ UNCHANGED <<next_freed, vma_free_list>>
       \/ /\ ~OnFreeList(n)
          /\ next_freed' = FreedLink(n)
          /\ vma_free_list' = n
    /\ vma_alloc_num' = vma_alloc_num - 1
    /\ UNCHANGED <<carved, mapped>>

Free(n) ==
    /\ uses[n] > 0
    /\ uses' = [uses EXCEPT ![n] = @ - 1]
    /\ \/ /\ OnFreeList(n)
          /\ UNCHANGED <<next_freed, vma_free_list>>
       \/ /\ ~OnFreeList(n)
          /\ next_freed' = FreedLink(n)
          /\ vma_free_list' = n
    /\ UNCHANGED <<vma_alloc_num, carved, mapped>>

Next == AllocFreed \/ AllocFails \/ AllocCarved \/ \E n \in Nodes : Free(n)

Spec == Init /\ [][Next]_vars
-----------------------------------------------------------------------------
\* The type of every variable.
TypeOK ==
    /\ vma_free_list \in Nodes \cup {NULL}
    /\ next_freed \in [Nodes -> Nodes \cup {NULL}]
    /\ vma_alloc_num \in Nat
    /\ carved \in 0 .. MaxNodes
    /\ uses \in [Nodes -> Nat]

\* No set of nodes is closed under next_freed without an end: vma_list_find
\* and repeated vma_alloc come to NULL, although freed nodes keep stale links
\* and the link is not reset when the list is empty.
FreeListEnds ==
    \A S \in SUBSET Nodes : S # {} => \E n \in S : next_freed[n] \notin S

\* A node that was carved and has no owner can be handed out again: vma_free
\* never drops the rest of the list and vma_next_freed never skips a node.
NoNodeLost == \A n \in Nodes : n < carved /\ uses[n] = 0 => OnFreeList(n)

\* All bytes of a node that was handed out lie in pages mapped for the heap.
NodesMapped ==
    \A n \in Nodes : n < carved =>
        \A b \in NodeAddr(n) .. NodeAddr(n + 1) - 1 : PageDown(b) \in mapped

\* No page of the kernel is replaced by one of the heap while the nodes end
\* inside what vma_init reserved.  vma_init subtracts the number of nodes from
\* the address, not their size, so that is far less than max_entries nodes;
\* from there on vma_alloc maps over the descriptor table (vma_init,
\* vma_alloc).
KernelPagesKept ==
    carved * NODE_SIZE < kernel_min_address - HeapStart =>
        \A p \in mapped : p < kernel_min_address

\* vma_heap.c reports "Double free of VMA!" for a node on the list: a node
\* with an owner is never on it.
OwnedNodeNotOnList == \A n \in Nodes : uses[n] > 0 => ~OnFreeList(n)
=============================================================================
