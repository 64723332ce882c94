------------------------------ MODULE VmaTree ------------------------------
(***************************************************************************)
(* The structure that holds the areas: a doubly linked list in address     *)
(* order threaded through a red-black tree whose nodes carry the largest   *)
(* gap of their subtree (kernel/c/vma.c, rbtree.c, find_next_gap of        *)
(* mmap.c, vma_find of common/vma.c), pointer by pointer.  Vma sees the    *)
(* same areas as a set.  Addresses are page numbers; node 0 is NULL.       *)
(***************************************************************************)
EXTENDS Integers, Sequences, FiniteSets

CONSTANTS Top,          \* areas lie in 0..Top
          MaxLength,    \* longest range mapped at once
          MaxAreas,     \* BOUND on the number of areas
          user_stack_min

VARIABLE t              \* all pointers and fields, see Empty

NULL == 0
Nodes == 1 .. Top + 2
Sides == {"left", "right"}
Other(d) == IF d = "left" THEN "right" ELSE "left"

\* vma_init: kid is rb_left and rb_right; parent and red are the two parts
\* of __rb_parent_color; first is vma_list_start, highest vma_highest_addr.
Empty ==
    [used |-> {}, root |-> NULL, first |-> NULL, highest |-> 0,
     kid |-> [d \in Sides |-> [n \in Nodes |-> NULL]],
     parent |-> [n \in Nodes |-> NULL], red |-> [n \in Nodes |-> FALSE],
     gap |-> [n \in Nodes |-> 0],
     prev |-> [n \in Nodes |-> NULL], next |-> [n \in Nodes |-> NULL],
     start |-> [n \in Nodes |-> 0], end |-> [n \in Nodes |-> 0]]

(***************************************************************************)
(* Gaps.                                                                   *)
(***************************************************************************)
OwnGap(x, v) ==
    x.start[v] - (IF x.prev[v] = NULL THEN 0 ELSE x.end[x.prev[v]])

SubtreeGap(x, v) ==      \* vma_compute_subtree_gap
    LET gaps == {OwnGap(x, v)}
                \cup {x.gap[x.kid[d][v]] : d \in {s \in Sides : x.kid[s][v] # NULL}}
    IN  CHOOSE g \in gaps : \A h \in gaps : h <= g

RECURSIVE GapPropagate(_, _, _)
GapPropagate(x, v, stop) ==
    IF v = stop \/ x.gap[v] = SubtreeGap(x, v) THEN x
    ELSE GapPropagate([x EXCEPT !.gap[v] = SubtreeGap(x, v)], x.parent[v], stop)

GapUpdate(x, v) == GapPropagate(x, v, NULL)

GapRotate(x, old, new) ==
    LET y == [x EXCEPT !.gap[new] = x.gap[old]]
    IN  [y EXCEPT !.gap[old] = SubtreeGap(y, old)]

(***************************************************************************)
(* rb_insert.  d is the side of the grandparent the parent is on.          *)
(***************************************************************************)
ChangeChild(x, old, new, parent) ==
    IF parent = NULL THEN [x EXCEPT !.root = new]
    ELSE LET d == IF x.kid["left"][parent] = old THEN "left" ELSE "right"
         IN  [x EXCEPT !.kid[d][parent] = new]

Adopt(x, child, parent) ==   \* a moved subtree gets a parent and turns black
    IF child = NULL THEN x
    ELSE [x EXCEPT !.parent[child] = parent, !.red[child] = FALSE]

RotateAtParent(x, n, p, d) ==
    LET o == Other(d)
        tmp == x.kid[d][n]
        y == Adopt([x EXCEPT !.kid[o][p] = tmp, !.kid[d][n] = p], tmp, p)
    IN  GapRotate([y EXCEPT !.parent[p] = n, !.red[p] = TRUE], p, n)

RotateAtGrandparent(x, p, g, d) ==
    LET o == Other(d)
        tmp == x.kid[o][p]
        y == Adopt([x EXCEPT !.kid[d][g] = tmp, !.kid[o][p] = g], tmp, g)
        z == [y EXCEPT !.parent[p] = x.parent[g], !.red[p] = x.red[g],
                       !.parent[g] = p, !.red[g] = TRUE]
    IN  GapRotate(ChangeChild(z, g, p, x.parent[g]), g, p)

RECURSIVE RbInsert(_, _)
RbInsert(x, n) ==
    LET p == x.parent[n]
        g == x.parent[p]
        d == IF p # x.kid["right"][g] THEN "left" ELSE "right"
        uncle == x.kid[Other(d)][g]
        inner == n = x.kid[Other(d)][p]
    IN  IF p = NULL THEN [x EXCEPT !.red[n] = FALSE]
        ELSE IF ~x.red[p] THEN x
        ELSE IF uncle # NULL /\ x.red[uncle]
        THEN RbInsert([x EXCEPT !.red[uncle] = FALSE, !.red[p] = FALSE,
                                !.red[g] = TRUE], g)
        ELSE IF inner THEN RotateAtGrandparent(RotateAtParent(x, n, p, d), n, g, d)
        ELSE RotateAtGrandparent(x, p, g, d)

(***************************************************************************)
(* rb_erase.  The node to rebalance at is returned and nobody uses it.     *)
(***************************************************************************)
RECURSIVE Leftmost(_, _)
Leftmost(x, v) ==
    IF x.kid["left"][v] = NULL THEN v ELSE Leftmost(x, x.kid["left"][v])

\* Mutant of EraseOneChild: the child keeps its own colour.
MutEraseKeepsColour(x, n, child) ==
    LET y == ChangeChild(x, n, child, x.parent[n])
        z == IF child = NULL THEN y ELSE [y EXCEPT !.parent[child] = x.parent[n]]
    IN  GapUpdate(z, x.parent[n])

EraseOneChild(x, n, child) ==      \* case 1; child may be NULL
    LET y == ChangeChild(x, n, child, x.parent[n])
        z == IF child = NULL THEN y
             ELSE [y EXCEPT !.parent[child] = x.parent[n], !.red[child] = x.red[n]]
    IN  GapUpdate(z, x.parent[n])

LiftSuccessor(x, n, s) ==          \* case 3: s leaves its place on the left
    LET y == [x EXCEPT !.kid["left"][x.parent[s]] = x.kid["right"][s],
                       !.kid["right"][s] = x.kid["right"][n],
                       !.parent[x.kid["right"][n]] = s,
                       !.gap[s] = x.gap[n]]
    IN  GapPropagate(y, x.parent[s], s)

EraseTwoChildren(x, n) ==          \* cases 2 and 3
    LET s == Leftmost(x, x.kid["right"][n])
        child2 == x.kid["right"][s]
        parent == IF s = x.kid["right"][n] THEN s ELSE x.parent[s]
        y == IF parent = s THEN [x EXCEPT !.gap[s] = x.gap[n]]
             ELSE LiftSuccessor(x, n, s)
        z == [y EXCEPT !.kid["left"][s] = x.kid["left"][n],
                       !.parent[x.kid["left"][n]] = s]
        w == [ChangeChild(z, n, s, x.parent[n]) EXCEPT
                       !.parent[s] = x.parent[n], !.red[s] = x.red[n]]
    IN  GapUpdate(Adopt(w, child2, parent), s)

RbErase(x, n) ==
    LET l == x.kid["left"][n]
        r == x.kid["right"][n]
    IN  IF l = NULL THEN EraseOneChild(x, n, r)
        ELSE IF r = NULL THEN EraseOneChild(x, n, l)
        ELSE EraseTwoChildren(x, n)

(***************************************************************************)
(* Searching and linking.                                                  *)
(***************************************************************************)
RECURSIVE FindFrom(_, _, _, _)
FindFrom(x, v, a, best) ==
    IF v = NULL THEN best
    ELSE IF x.end[v] <= a THEN FindFrom(x, x.kid["right"][v], a, best)
    ELSE IF x.start[v] <= a THEN v
    ELSE FindFrom(x, x.kid["left"][v], a, v)
VmaFind(x, a) == FindFrom(x, x.root, a, NULL)

RECURSIVE FindLinks(_, _, _, _, _)
FindLinks(x, v, a, e, links) ==    \* links: [prev, parent, side, fails]
    IF v = NULL THEN links
    ELSE IF x.end[v] > a
    THEN IF x.start[v] < e THEN [links EXCEPT !.fails = TRUE]
         ELSE FindLinks(x, x.kid["left"][v], a, e,
                        [links EXCEPT !.parent = v, !.side = "left"])
    ELSE FindLinks(x, x.kid["right"][v], a, e,
                   [links EXCEPT !.prev = v, !.parent = v, !.side = "right"])
Links(x, a, e) ==
    FindLinks(x, x.root, a, e,
              [prev |-> NULL, parent |-> NULL, side |-> "left", fails |-> FALSE])

\* Mutant of LinkList: the next area keeps its old prev pointer.
MutLinkNoBackPointer(x, v, links) ==
    LET next == IF links.prev # NULL THEN x.next[links.prev] ELSE links.parent
        y == [x EXCEPT !.prev[v] = links.prev, !.next[v] = next]
    IN  IF links.prev = NULL THEN [y EXCEPT !.first = v]
        ELSE [y EXCEPT !.next[links.prev] = v]

LinkList(x, v, links) ==           \* vma_link_list
    LET next == IF links.prev # NULL THEN x.next[links.prev] ELSE links.parent
        y == [x EXCEPT !.prev[v] = links.prev, !.next[v] = next]
        z == IF links.prev = NULL THEN [y EXCEPT !.first = v]
             ELSE [y EXCEPT !.next[links.prev] = v]
    IN  IF next = NULL THEN z ELSE [z EXCEPT !.prev[next] = v]

LinkRb(x, v, links) ==             \* vma_link_rb with rb_link_node
    LET y == IF x.next[v] # NULL THEN GapUpdate(x, x.next[v])
             ELSE [x EXCEPT !.highest = x.end[v]]
        z == [y EXCEPT !.parent[v] = links.parent, !.red[v] = TRUE,
                       !.kid["left"][v] = NULL, !.kid["right"][v] = NULL,
                       !.gap[v] = 0]
        w == IF links.parent = NULL THEN [z EXCEPT !.root = v]
             ELSE [z EXCEPT !.kid[links.side][links.parent] = v]
    IN  RbInsert(GapUpdate(w, v), v)

NewNode(x) == CHOOSE n \in Nodes \ x.used : TRUE

VmaInsert(x, a, e) ==
    LET v == NewNode(x)
        links == Links(x, a, e)
        y == [x EXCEPT !.used = @ \cup {v}, !.start[v] = a, !.end[v] = e]
    IN  LinkRb(LinkList(y, v, links), v, links)

\* The node is free for reuse.
Freed(x, v) == [x EXCEPT !.used = @ \ {v}]

\* detach_vmas_to_be_unmapped: the nodes from v up to end leave the tree one
\* by one, then the list in one go.
RECURSIVE EraseRun(_, _, _)
EraseRun(x, v, e) ==
    LET y == RbErase(x, v)
    IN  IF x.next[v] # NULL /\ x.start[x.next[v]] < e THEN EraseRun(y, x.next[v], e)
        ELSE [x |-> y, rest |-> x.next[v]]

RECURSIVE FreeRun(_, _, _)
FreeRun(x, v, rest) ==
    IF v = rest THEN x ELSE FreeRun(Freed(x, v), x.next[v], rest)

\* Mutant of Detach: vma_list_start still points to the first detached node.
MutDetachKeepsFirst(x, v, e) ==
    LET prev == x.prev[v]
        run == EraseRun([x EXCEPT !.prev[v] = NULL], v, e)
        y == IF prev = NULL THEN run.x ELSE [run.x EXCEPT !.next[prev] = run.rest]
        z == IF run.rest # NULL
             THEN GapUpdate([y EXCEPT !.prev[run.rest] = prev], run.rest)
             ELSE [y EXCEPT !.highest = IF prev = NULL THEN 0 ELSE y.end[prev]]
    IN  FreeRun(z, v, run.rest)

\* Mutant of Detach: the gap below the area that follows is not updated.
MutDetachStaleGap(x, v, e) ==
    LET prev == x.prev[v]
        run == EraseRun([x EXCEPT !.prev[v] = NULL], v, e)
        y == IF prev = NULL THEN [run.x EXCEPT !.first = run.rest]
             ELSE [run.x EXCEPT !.next[prev] = run.rest]
        z == IF run.rest # NULL THEN [y EXCEPT !.prev[run.rest] = prev]
             ELSE [y EXCEPT !.highest = IF prev = NULL THEN 0 ELSE y.end[prev]]
    IN  FreeRun(z, v, run.rest)

Detach(x, v, e) ==
    LET prev == x.prev[v]
        run == EraseRun([x EXCEPT !.prev[v] = NULL], v, e)
        y == IF prev = NULL THEN [run.x EXCEPT !.first = run.rest]
             ELSE [run.x EXCEPT !.next[prev] = run.rest]
        z == IF run.rest # NULL
             THEN GapUpdate([y EXCEPT !.prev[run.rest] = prev], run.rest)
             ELSE [y EXCEPT !.highest = IF prev = NULL THEN 0 ELSE y.end[prev]]
    IN  FreeRun(z, v, run.rest)

\* vma_adjust: the end moves (merge case 2), ..
AdjustEnd(x, v, e) ==
    LET y == [x EXCEPT !.end[v] = e]
    IN  IF x.next[v] = NULL THEN [y EXCEPT !.highest = e]
        ELSE GapUpdate(y, x.next[v])

\* .. the start moves (merge case 3, and grow_stack), ..
AdjustStart(x, v, a) == GapUpdate([x EXCEPT !.start[v] = a], v)

\* .. the next area is swallowed (merge case 1), ..
AdjustRemoveNext(x, v) ==
    LET q == x.next[v]
        after == x.next[q]
        y == RbErase([x EXCEPT !.end[v] = x.end[q]], q)
        z == [y EXCEPT !.next[v] = after]
        w == IF after = NULL THEN [z EXCEPT !.highest = x.end[q]]
             ELSE GapUpdate([z EXCEPT !.prev[after] = v], after)
    IN  Freed(w, q)

\* .. or the area was split at a: v keeps one part, a new node the other.
AdjustSplit(x, v, a, below) ==
    IF below THEN VmaInsert([x EXCEPT !.start[v] = a], x.start[v], a)
    ELSE VmaInsert([x EXCEPT !.end[v] = a], a, x.end[v])

\* syscall_brk moves the end and updates the gap of the area itself only.
BrkEnd(x, v, e) == GapUpdate([x EXCEPT !.end[v] = e], v)

(***************************************************************************)
(* find_next_gap(0, user_stack_min, length), -1 standing for -ENOMEM.      *)
(***************************************************************************)
GapAt(x, v, len) ==
    (IF x.start[v] > user_stack_min THEN user_stack_min ELSE x.start[v]) - len
GapStart(x, v) == IF x.prev[v] = NULL THEN 0 ELSE x.end[x.prev[v]]
WideKid(x, v, d, len) == x.kid[d][v] # NULL /\ x.gap[x.kid[d][v]] >= len

RECURSIVE Descend(_, _, _), CheckCurrent(_, _, _), Ascend(_, _, _)
Descend(x, v, len) ==
    IF GapStart(x, v) <= user_stack_min - len /\ WideKid(x, v, "right", len)
    THEN Descend(x, x.kid["right"][v], len)
    ELSE CheckCurrent(x, v, len)
CheckCurrent(x, v, len) ==
    IF x.start[v] < len THEN -1
    ELSE IF GapStart(x, v) <= user_stack_min - len /\ OwnGap(x, v) >= len
    THEN GapAt(x, v, len)
    ELSE IF WideKid(x, v, "left", len) THEN Descend(x, x.kid["left"][v], len)
    ELSE Ascend(x, v, len)
Ascend(x, v, len) ==
    LET p == x.parent[v]
    IN  IF p = NULL THEN -1
        ELSE IF v = x.kid["right"][p] THEN CheckCurrent(x, p, len)
        ELSE Ascend(x, p, len)

FindNextGap(x, len) ==
    IF user_stack_min < len THEN -1
    ELSE IF x.highest <= user_stack_min - len THEN user_stack_min - len
    ELSE IF x.root = NULL \/ x.gap[x.root] < len THEN -1
    ELSE Descend(x, x.root, len)
-----------------------------------------------------------------------------
\* Node identity is immaterial: between operations the node of an area is the
\* one numbered after the area's first address.
Renamed(x) ==
    LET name(v) == IF v = NULL THEN NULL ELSE x.start[v] + 1
        node == [n \in {name(v) : v \in x.used} |-> CHOOSE v \in x.used : name(v) = n]
        field(f) == [n \in Nodes |-> IF n \in DOMAIN node THEN f[node[n]] ELSE 0]
        link(f) == [n \in Nodes |-> IF n \in DOMAIN node THEN name(f[node[n]]) ELSE NULL]
    IN  [used |-> DOMAIN node, root |-> name(x.root), first |-> name(x.first),
         highest |-> x.highest,
         kid |-> [d \in Sides |-> link(x.kid[d])], parent |-> link(x.parent),
         red |-> [n \in Nodes |-> n \in DOMAIN node /\ x.red[node[n]]],
         gap |-> field(x.gap), prev |-> link(x.prev), next |-> link(x.next),
         start |-> field(x.start), end |-> field(x.end)]

Init == t = Empty

Room == Cardinality(t.used) < MaxAreas

NextStart(v) == IF t.next[v] = NULL THEN Top + 1 ELSE t.start[t.next[v]]

Map(a, e) ==                 \* mmap_region: the range is free
    /\ Room
    /\ ~Links(t, a, e).fails
    /\ t' = Renamed(VmaInsert(t, a, e))

Split(v, a, below) ==        \* vma_split
    /\ Room
    /\ t.start[v] < a /\ a < t.end[v]
    /\ t' = Renamed(AdjustSplit(t, v, a, below))

Unmap(v, e) ==               \* syscall_munmap, after its splits
    /\ e > t.start[v]
    /\ \A w \in t.used : ~(t.start[w] < e /\ e < t.end[w])
    /\ t' = Renamed(Detach(t, v, e))

MergeUp(v, e) ==
    /\ e > t.end[v] /\ e <= NextStart(v)
    /\ t' = Renamed(AdjustEnd(t, v, e))

MergeDown(v, a) ==
    /\ a < t.start[v] /\ a >= GapStart(t, v)
    /\ t' = Renamed(AdjustStart(t, v, a))

MergeBoth(v) ==
    /\ t.next[v] # NULL
    /\ t.end[v] < NextStart(v)
    /\ t' = Renamed(AdjustRemoveNext(t, v))

Brk(v, e) ==                 \* the heap is never the last area: the stack is
    /\ t.next[v] # NULL
    /\ e > t.end[v] /\ e <= NextStart(v)
    /\ t' = Renamed(BrkEnd(t, v, e))

Next ==
    \/ \E a \in 0 .. Top, n \in 1 .. MaxLength : a + n <= Top + 1 /\ Map(a, a + n)
    \/ \E v \in t.used :
         \/ \E a \in 0 .. Top, below \in BOOLEAN : Split(v, a, below)
         \/ \E e \in 1 .. Top + 1 : Unmap(v, e) \/ MergeUp(v, e) \/ Brk(v, e)
         \/ \E a \in 0 .. Top : MergeDown(v, a)
         \/ MergeBoth(v)

Spec == Init /\ [][Next]_t
-----------------------------------------------------------------------------
(***************************************************************************)
(* Properties.                                                             *)
(***************************************************************************)
RECURSIVE InOrder(_, _), Listed(_, _)
InOrder(x, v) ==
    IF v = NULL THEN <<>>
    ELSE InOrder(x, x.kid["left"][v]) \o <<v>> \o InOrder(x, x.kid["right"][v])
Listed(x, v) == IF v = NULL THEN <<>> ELSE <<v>> \o Listed(x, x.next[v])

\* The fields have their types.
TypeOK ==
    /\ t.used \subseteq Nodes /\ t.root \in t.used \cup {NULL}
    /\ t.first \in t.used \cup {NULL}
    /\ t.highest \in 0 .. Top + 1
    /\ \A n \in t.used : /\ t.parent[n] \in t.used \cup {NULL}
                         /\ t.prev[n] \in t.used \cup {NULL}
                         /\ t.next[n] \in t.used \cup {NULL}
                         /\ t.gap[n] \in 0 .. Top + 1
                         /\ 0 <= t.start[n] /\ t.start[n] < t.end[n]
                         /\ t.end[n] <= Top + 1

\* The tree read in order is the list, the list is in address order without
\* overlap, parent and prev pointers are the inverses of child and next
\* pointers, and vma_highest_addr is where the last area ends: every rotation
\* and every detached run leaves the two structures describing the same areas
\* (vma_link_list, vma_unlink, detach_vmas_to_be_unmapped, rb_insert, rb_erase).
TreeIsList ==
    LET order == InOrder(t, t.root)
        n == Len(order)
    IN  /\ order = Listed(t, t.first)
        /\ n = Cardinality(t.used)
        /\ \A i \in 1 .. n - 1 : /\ t.end[order[i]] <= t.start[order[i + 1]]
                                 /\ t.prev[order[i + 1]] = order[i]
        /\ n > 0 => /\ t.prev[order[1]] = NULL /\ t.parent[t.root] = NULL
                    /\ t.highest = t.end[order[n]]
        /\ \A v \in t.used, d \in Sides :
             t.kid[d][v] # NULL => t.parent[t.kid[d][v]] = v

\* rb_insert reads the grandparent of a node with a red parent without a
\* check, so the root must stay black, although rb_erase never rebalances.
RootIsBlack == t.root # NULL => ~t.red[t.root]

\* Places for a range of len pages below the stack's reserve, by definition.
FreePlaces(len) ==
    {a \in 0 .. user_stack_min - len :
        \A v \in t.used : t.end[v] <= a \/ a + len <= t.start[v]}

\* The pruned walk over stored gaps finds the highest free range whenever
\* there is one, although brk leaves the stored gap of the following area too
\* large and propagation stops at the first unchanged node (find_next_gap,
\* vma_rb_gap_propagate, vma_rb_gap_rotate, vma_rb_gap_copy).
SearchFindsHighestGap ==
    \A len \in 1 .. Top :
        FindNextGap(t, len) =
            IF FreePlaces(len) = {} THEN -1
            ELSE CHOOSE a \in FreePlaces(len) : \A b \in FreePlaces(len) : b <= a
=============================================================================
