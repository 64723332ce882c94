--------------------------- MODULE VmaHeapProofs ---------------------------
(***************************************************************************)
(* The free list and the mapped pages of VmaHeap, for any number of nodes  *)
(* and owners and any size of a page and of a node.                        *)
(***************************************************************************)
EXTENDS VmaHeap, TLAPS

ListInv == TypeOK /\ FreeListEnds /\ NoNodeLost

\* vma_init leaves an empty list and no node to lose.
LEMMA ListInvInit == Init => ListInv
  <1> SUFFICES ASSUME Init PROVE ListInv OBVIOUS
  <1>1. TypeOK BY NodesAssumption DEF Init, TypeOK, Nodes, NULL
  <1>2. FreeListEnds
    <2>1. \A n \in Nodes : next_freed[n] = NULL BY DEF Init
    <2>2. NULL \notin Nodes BY DEF NULL, Nodes
    <2>3. ASSUME NEW S \in SUBSET Nodes, S # {}
          PROVE  \E n \in S : next_freed[n] \notin S
      <3>1. PICK n \in S : TRUE BY <2>3
      <3>2. next_freed[n] = NULL BY <2>1
      <3>3. next_freed[n] \notin S BY <3>2, <2>2
      <3> QED BY <3>3
    <2> QED BY <2>3 DEF FreeListEnds
  <1>3. NoNodeLost BY DEF Init, NoNodeLost, Nodes
  <1> QED BY <1>1, <1>2, <1>3 DEF ListInv

\* Every step keeps the types.
LEMMA TypeOKStep == TypeOK /\ [Next]_vars => TypeOK'
  <1> SUFFICES ASSUME TypeOK, [Next]_vars PROVE TypeOK' OBVIOUS
  <1> USE NodesAssumption DEF TypeOK
  <1>1. CASE AllocFreed BY <1>1 DEF AllocFreed
  <1>2. CASE AllocFails BY <1>2 DEF AllocFails
  <1>3. CASE AllocCarved BY <1>3 DEF AllocCarved, Nodes
  <1>4. ASSUME NEW n \in Nodes, Free(n) PROVE TypeOK'
    BY <1>4 DEF Free, FreedLink
  <1>5. CASE UNCHANGED vars BY <1>5 DEF vars
  <1> QED BY <1>1, <1>2, <1>3, <1>4, <1>5 DEF Next

\* A node that is not on the list is left out by some closed set.
LEMMA NotOnList ==
  ASSUME NEW n \in Nodes, vma_free_list # NULL, ~OnFreeList(n)
  PROVE  \E K \in SUBSET Nodes : vma_free_list \in K /\ Closed(K) /\ n \notin K
  BY DEF OnFreeList, OnListFrom

\* vma_free links only nodes that are off the list, so no step closes a cycle.
LEMMA FreeListEndsStep == ListInv /\ [Next]_vars => FreeListEnds'
  <1> SUFFICES ASSUME ListInv, [Next]_vars PROVE FreeListEnds' OBVIOUS
  <1>1. ASSUME next_freed' = next_freed PROVE FreeListEnds'
    BY <1>1 DEF ListInv, FreeListEnds
  <1>2. CASE AllocFreed \/ AllocFails \/ AllocCarved \/ UNCHANGED vars
    BY <1>1, <1>2 DEF AllocFreed, AllocFails, AllocCarved, vars
  <1>3. ASSUME NEW n \in Nodes, Free(n) PROVE FreeListEnds'
    <2>1. CASE next_freed' = next_freed BY <1>1, <2>1
    <2>2. CASE next_freed' # next_freed
      <3>1. /\ vma_free_list # NULL /\ ~OnFreeList(n)
            /\ next_freed' = [next_freed EXCEPT ![n] = vma_free_list]
        BY <1>3, <2>2 DEF Free, FreedLink
      <3>2. PICK K \in SUBSET Nodes : vma_free_list \in K /\ Closed(K) /\ n \notin K
        BY <3>1, NotOnList
      <3>3. ASSUME NEW S \in SUBSET Nodes, S # {}, \A m \in S : next_freed'[m] \in S
            PROVE  FALSE
        <4>1. \A m \in Nodes : m # n => next_freed'[m] = next_freed[m]
          BY <3>1 DEF ListInv, TypeOK
        <4>2. next_freed'[n] = vma_free_list BY <3>1 DEF ListInv, TypeOK
        <4>3. NULL \notin Nodes BY DEF NULL, Nodes
        <4>4. CASE n \notin S
          BY <3>3, <4>1, <4>4 DEF ListInv, FreeListEnds
        <4>5. CASE n \in S
          <5>1. vma_free_list \in S \cap K BY <3>2, <3>3, <4>2, <4>5
          <5>2. \A m \in S \cap K : next_freed[m] \in S \cap K
            BY <3>2, <3>3, <4>1, <4>3 DEF Closed
          <5> QED BY <5>1, <5>2 DEF ListInv, FreeListEnds
        <4> QED BY <4>4, <4>5
      <3> QED BY <3>3 DEF FreeListEnds
    <2> QED BY <2>1, <2>2
  <1> QED BY <1>2, <1>3 DEF Next

\* Every step keeps every node without an owner on the list.
LEMMA NoNodeLostStep == ListInv /\ [Next]_vars => NoNodeLost'
  <1> SUFFICES ASSUME ListInv, [Next]_vars,
                      NEW m \in Nodes, m < carved', uses'[m] = 0
               PROVE  OnFreeList(m)'
    BY DEF NoNodeLost
  <1>t. TypeOK BY DEF ListInv
  <1>1. CASE AllocFreed
    <2> DEFINE h == vma_free_list
    <2>1. h \in Nodes /\ m # h /\ m < carved /\ uses[m] = 0 /\ next_freed' = next_freed
      BY <1>1, <1>t DEF AllocFreed, TypeOK
    <2>2. OnFreeList(m) BY <2>1 DEF ListInv, NoNodeLost
    <2>3. next_freed[h] # NULL
      <3>1. SUFFICES ASSUME next_freed[h] = NULL PROVE FALSE OBVIOUS
      <3>2. Closed({h}) BY <3>1 DEF Closed
      <3> QED BY <2>1, <2>2, <3>2 DEF OnFreeList, OnListFrom
    <2>4. ASSUME NEW L \in SUBSET Nodes, next_freed[h] \in L, Closed(L) PROVE m \in L
      <3>1. Closed(L \cup {h}) BY <2>4 DEF Closed
      <3> QED BY <2>1, <2>2, <3>1 DEF OnFreeList, OnListFrom
    <2>5. vma_free_list' = next_freed[h] BY <1>1 DEF AllocFreed
    <2> QED BY <2>1, <2>3, <2>4, <2>5 DEF OnFreeList, OnListFrom, Closed
  <1>2. CASE AllocFails \/ UNCHANGED vars
    BY <1>2 DEF AllocFails, vars, ListInv, NoNodeLost, OnFreeList, OnListFrom, Closed
  <1>3. CASE AllocCarved
    <2>1. m < carved /\ uses[m] = 0
      BY <1>3, <1>t DEF AllocCarved, TypeOK, Nodes
    <2> QED BY <1>3, <2>1 DEF AllocCarved, ListInv, NoNodeLost, OnFreeList, OnListFrom
  <1>4. ASSUME NEW n \in Nodes, Free(n) PROVE OnFreeList(m)'
    <2>0. m # n => m < carved /\ uses[m] = 0
      BY <1>4, <1>t DEF Free, TypeOK
    <2>1. m # n => OnFreeList(m) BY <2>0 DEF ListInv, NoNodeLost
    <2>2. CASE OnFreeList(n)
      <3>1. next_freed' = next_freed /\ vma_free_list' = vma_free_list
        BY <1>4, <2>2 DEF Free
      <3> QED BY <2>1, <2>2, <3>1 DEF OnFreeList, OnListFrom, Closed
    <2>3. CASE ~OnFreeList(n)
      <3>0. vma_free_list' = n /\ n # NULL
        BY <1>4, <2>3 DEF Free, Nodes, NULL
      <3>1. CASE m = n BY <3>0, <3>1 DEF OnFreeList, OnListFrom
      <3>2. CASE m # n
        <4>1. vma_free_list # NULL BY <2>1, <3>2 DEF OnFreeList, OnListFrom
        <4>2. next_freed' = [next_freed EXCEPT ![n] = vma_free_list]
          BY <1>4, <2>3, <4>1 DEF Free, FreedLink
        <4>3. PICK K \in SUBSET Nodes : vma_free_list \in K /\ Closed(K) /\ n \notin K
          BY <2>3, <4>1, NotOnList
        <4>4. ASSUME NEW L \in SUBSET Nodes, n \in L, Closed(L)' PROVE m \in L
          <5>1. vma_free_list \in L BY <1>t, <4>1, <4>2, <4>4 DEF Closed, TypeOK
          <5>2. Closed(L \cap K)
            BY <1>t, <4>2, <4>3, <4>4 DEF Closed, TypeOK
          <5> QED BY <2>1, <3>2, <4>3, <5>1, <5>2 DEF OnFreeList, OnListFrom
        <4> QED BY <3>0, <4>4 DEF OnFreeList, OnListFrom, Closed
      <3> QED BY <3>1, <3>2
    <2> QED BY <2>2, <2>3
  <1> QED BY <1>1, <1>2, <1>3, <1>4 DEF Next

\* vma_heap.c: links and counters keep their types in every execution.
THEOREM HeapTypeCorrect == Spec => []TypeOK
  <1>1. Init => TypeOK BY ListInvInit DEF ListInv
  <1> QED BY <1>1, TypeOKStep, PTL DEF Spec

\* The three together are inductive.
LEMMA ListInvInvariant == Spec => []ListInv
  <1>1. ListInv /\ [Next]_vars => ListInv'
    BY TypeOKStep, FreeListEndsStep, NoNodeLostStep DEF ListInv
  <1> QED BY <1>1, ListInvInit, PTL DEF Spec

\* vma_list_find and vma_alloc always reach the end of the free list.
THEOREM FreeListAlwaysEnds == Spec => []FreeListEnds
  <1>1. ListInv => FreeListEnds BY DEF ListInv
  <1> QED BY <1>1, ListInvInvariant, PTL

\* No node that lost its last owner is lost to the allocator.
THEOREM NoNodeEverLost == Spec => []NoNodeLost
  <1>1. ListInv => NoNodeLost BY DEF ListInv
  <1> QED BY <1>1, ListInvInvariant, PTL
-----------------------------------------------------------------------------
(***************************************************************************)
(* The pages of the heap.  NodesMapped speaks of the bytes of the nodes,   *)
(* and is inductive only with all pages up to the head of the heap: the    *)
(* next node starts in the last of them.                                   *)
(***************************************************************************)
PageStart(p) == p \in Int /\ PageDown(p) = p

PagesInv ==
    /\ \A p : PageStart(p) /\ HeapStart <= p /\ p <= NodeAddr(carved) => p \in mapped
    /\ \A p \in mapped : p \in Int /\ (p < kernel_min_address \/ p <= NodeAddr(carved))

\* The page an address lies in.
LEMMA PageDownBounds ==
  ASSUME NEW a \in Int
  PROVE  /\ PageDown(a) \in Int /\ PageDown(a) <= a /\ a < PageDown(a) + PAGE_SIZE
         /\ PageDown(PageDown(a)) = PageDown(a)
  <1> DEFINE q == a \div PAGE_SIZE
  <1>1. q \in Int /\ q * PAGE_SIZE <= a /\ a < q * PAGE_SIZE + PAGE_SIZE
    BY HeapAssumption
  <1>2. (q * PAGE_SIZE) \div PAGE_SIZE = q BY <1>1, HeapAssumption
  <1> HIDE DEF q
  <1>3. PageDown(a) = q * PAGE_SIZE BY DEF PageDown, q
  <1>4. PageDown(PageDown(a)) = PageDown(a) BY <1>2, <1>3 DEF PageDown
  <1>5. PageDown(a) \in Int BY <1>1, <1>3, HeapAssumption
  <1> QED BY <1>1, <1>3, <1>4, <1>5

\* A page that starts after the page of a starts at least a page later; one
\* that starts at or before a starts at or before the page of a.
LEMMA PageDownGap ==
  ASSUME NEW a \in Int, NEW p, PageStart(p)
  PROVE  /\ p <= a => p <= PageDown(a)
         /\ p > a => p >= PageDown(a) + PAGE_SIZE
  <1> DEFINE q == a \div PAGE_SIZE
             k == p \div PAGE_SIZE
  <1>1. q \in Int /\ q * PAGE_SIZE <= a /\ a < q * PAGE_SIZE + PAGE_SIZE
    BY HeapAssumption
  <1>2. k \in Int /\ p = k * PAGE_SIZE /\ p \in Int
    BY HeapAssumption DEF PageStart, PageDown
  <1> HIDE DEF q, k
  <1>3. k <= q => k * PAGE_SIZE <= q * PAGE_SIZE BY <1>1, <1>2, HeapAssumption
  <1>4. q < k => q * PAGE_SIZE + PAGE_SIZE <= k * PAGE_SIZE
    BY <1>1, <1>2, HeapAssumption
  <1>5. q * PAGE_SIZE \in Int /\ k * PAGE_SIZE \in Int BY <1>1, <1>2, HeapAssumption
  <1>6. PageDown(a) = q * PAGE_SIZE BY DEF PageDown, q
  <1> QED BY <1>1, <1>2, <1>3, <1>4, <1>5, <1>6, HeapAssumption

\* The heap starts at a page below the kernel, and its nodes are in order.
LEMMA HeapLayout ==
  /\ PageStart(HeapStart) /\ HeapStart < kernel_min_address
  /\ NodeAddr(0) = HeapStart
  /\ \A k \in Nat : NodeAddr(k) \in Int /\ NodeAddr(k + 1) = NodeAddr(k) + NODE_SIZE
  /\ \A j, k \in Nat : j <= k => NodeAddr(j) <= NodeAddr(k)
  <1>1. vma_max_num \in Int BY HeapAssumption DEF vma_max_num, PageUp, PageDown
  <1>2. PageStart(HeapStart) /\ HeapStart <= kernel_min_address - vma_max_num
    BY <1>1, PageDownBounds, HeapAssumption DEF HeapStart, PageStart
  <1>3. HeapStart \in Int BY <1>2 DEF PageStart
  <1>4. \A k \in Nat : NodeAddr(k) \in Int /\ NodeAddr(k + 1) = NodeAddr(k) + NODE_SIZE
    BY <1>3, HeapAssumption DEF NodeAddr
  <1>5. ASSUME NEW j \in Nat, NEW k \in Nat, j <= k PROVE NodeAddr(j) <= NodeAddr(k)
    <2>1. j * NODE_SIZE <= k * NODE_SIZE BY <1>5, HeapAssumption
    <2> QED BY <1>3, <2>1, HeapAssumption DEF NodeAddr
  <1>6. NodeAddr(0) = HeapStart BY <1>3, HeapAssumption DEF NodeAddr
  <1> QED BY <1>1, <1>2, <1>3, <1>4, <1>5, <1>6, HeapAssumption

\* vma_init maps the page the first node starts in, and no kernel page.
LEMMA PagesInvInit == Init => PagesInv
  <1> SUFFICES ASSUME Init PROVE PagesInv OBVIOUS
  <1>1. HeapStart \in Int /\ PageDown(HeapStart) = HeapStart
    BY HeapLayout DEF PageStart
  <1>2. HeapStart \in mapped
    BY <1>1, HeapLayout, HeapAssumption DEF Init, PagesFrom
  <1>3. \A p : PageStart(p) /\ HeapStart <= p /\ p <= NodeAddr(carved) => p = HeapStart
    BY <1>1, HeapLayout DEF Init, PageStart
  <1>4. \A p \in mapped : p \in Int /\ p < kernel_min_address
    BY <1>1, HeapAssumption DEF Init, PagesFrom
  <1> QED BY <1>2, <1>3, <1>4 DEF PagesInv

\* vma_alloc maps every page from the node's start to its end.
LEMMA PagesInvStep == TypeOK /\ PagesInv /\ [Next]_vars => PagesInv'
  <1> SUFFICES ASSUME TypeOK, PagesInv, [Next]_vars PROVE PagesInv' OBVIOUS
  <1>1. CASE UNCHANGED <<carved, mapped>>
    BY <1>1 DEF PagesInv, NodeAddr
  <1>2. CASE AllocCarved
    <2> DEFINE lo == NodeAddr(carved)
               hi == NodeAddr(carved + 1)
    <2>1. carved \in Nat /\ carved' = carved + 1 /\ mapped' = mapped \cup NewPages(carved)
      BY <1>2, NodesAssumption DEF AllocCarved, TypeOK
    <2>2. lo \in Int /\ hi \in Int /\ lo <= hi BY <2>1, HeapLayout, HeapAssumption
    <2>3. NodeAddr(carved)' = hi BY <2>1 DEF NodeAddr
    <2>4. NewPages(carved) = PagesFrom(PageDown(lo) + PAGE_SIZE, PageDown(hi))
      BY DEF NewPages
    <2> HIDE DEF lo, hi
    <2>5. ASSUME NEW p, PageStart(p), HeapStart <= p, p <= hi PROVE p \in mapped'
      <3>1. CASE p <= lo BY <2>1, <2>5, <3>1 DEF PagesInv, lo
      <3>2. CASE p > lo
        <4>1. PageDown(lo) + PAGE_SIZE <= p /\ p <= PageDown(hi)
          BY <2>2, <2>5, <3>2, PageDownGap
        <4>2. PageDown(lo) + PAGE_SIZE \in Int /\ PageDown(hi) \in Int
          BY <2>2, PageDownBounds, HeapAssumption
        <4>3. p \in PagesFrom(PageDown(lo) + PAGE_SIZE, PageDown(hi))
          BY <2>5, <4>1, <4>2 DEF PagesFrom, PageStart
        <4> QED BY <2>1, <2>4, <4>3
      <3>3. p \in Int BY <2>5 DEF PageStart
      <3> QED BY <2>2, <3>1, <3>2, <3>3
    <2>6. ASSUME NEW p \in mapped' PROVE p \in Int /\ (p < kernel_min_address \/ p <= hi)
      <3>1. CASE p \in mapped BY <2>2, <3>1, HeapAssumption DEF PagesInv, lo
      <3>2. CASE p \in NewPages(carved)
        <4>1. PageDown(hi) \in Int /\ PageDown(hi) <= hi BY <2>2, PageDownBounds
        <4>2. PageDown(lo) + PAGE_SIZE \in Int BY <2>2, PageDownBounds, HeapAssumption
        <4> QED BY <2>2, <2>4, <3>2, <4>1, <4>2 DEF PagesFrom
      <3> QED BY <2>1, <3>1, <3>2
    <2> QED BY <2>3, <2>5, <2>6 DEF PagesInv
  <1> QED BY <1>1, <1>2 DEF Next, vars, AllocFreed, AllocFails, Free

\* All pages up to the head of the heap stay mapped.
LEMMA PagesInvInvariant == Spec => [](TypeOK /\ PagesInv)
  <1>1. TypeOK /\ PagesInv /\ [Next]_vars => (TypeOK /\ PagesInv)'
    BY TypeOKStep, PagesInvStep
  <1>2. Init => TypeOK /\ PagesInv BY ListInvInit, PagesInvInit DEF ListInv
  <1> QED BY <1>1, <1>2, PTL DEF Spec

\* vma_alloc: no node reaches out of the pages mapped for the heap, wherever
\* in a page it starts and however many pages it spans.
THEOREM NodesAlwaysMapped == Spec => []NodesMapped
  <1>1. ASSUME TypeOK, PagesInv, NEW n \in Nodes, n < carved,
               NEW b \in NodeAddr(n) .. NodeAddr(n + 1) - 1
        PROVE  PageDown(b) \in mapped
    <2>1. n \in Nat /\ carved \in Nat /\ n + 1 <= carved
      BY <1>1, NodesAssumption DEF TypeOK, Nodes
    <2>2. /\ NodeAddr(0) = HeapStart /\ NodeAddr(0) <= NodeAddr(n)
          /\ NodeAddr(n + 1) <= NodeAddr(carved)
          /\ NodeAddr(n) \in Int /\ NodeAddr(n + 1) \in Int /\ NodeAddr(carved) \in Int
          /\ PageStart(HeapStart)
      BY <2>1, HeapLayout
    <2>3. b \in Int /\ HeapStart <= b /\ b < NodeAddr(carved)
      BY <2>2 DEF PageStart
    <2>4. HeapStart <= PageDown(b) BY <2>2, <2>3, PageDownGap
    <2>5. PageStart(PageDown(b)) /\ PageDown(b) <= NodeAddr(carved)
      BY <2>2, <2>3, PageDownBounds DEF PageStart
    <2> QED BY <1>1, <2>4, <2>5 DEF PagesInv
  <1>2. TypeOK /\ PagesInv => NodesMapped BY <1>1 DEF NodesMapped
  <1> QED BY <1>2, PagesInvInvariant, PTL

\* vma_init and vma_alloc: until the nodes fill what vma_init set aside, no
\* page from kernel_min_address on is replaced.
THEOREM KernelPagesAlwaysKept == Spec => []KernelPagesKept
  <1>1. ASSUME TypeOK, PagesInv, carved * NODE_SIZE < kernel_min_address - HeapStart,
               NEW p \in mapped
        PROVE  p < kernel_min_address
    <2>1. HeapStart \in Int BY HeapLayout DEF PageStart
    <2>2. carved * NODE_SIZE \in Int BY <1>1, NodesAssumption, HeapAssumption DEF TypeOK
    <2>3. NodeAddr(carved) < kernel_min_address
      BY <1>1, <2>1, <2>2, HeapAssumption DEF NodeAddr
    <2>4. NodeAddr(carved) \in Int BY <2>1, <2>2 DEF NodeAddr
    <2> QED BY <1>1, <2>3, <2>4, HeapAssumption DEF PagesInv
  <1>2. TypeOK /\ PagesInv => KernelPagesKept BY <1>1 DEF KernelPagesKept
  <1> QED BY <1>2, PagesInvInvariant, PTL
=============================================================================
