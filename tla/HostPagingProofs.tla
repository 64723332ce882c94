------------------------- MODULE HostPagingProofs -------------------------
(***************************************************************************)
(* The areas of the guest, the page table and the frames agree, when the   *)
(* host calls of Vma are those of HostPaging.                              *)
(***************************************************************************)
EXTENDS HostPaging, VmaRefinesProofs

\* The guest runs on the host calls of HostPaging.
HostCallsReal ==
    /\ \A h, r : KernelMapVma(h, r) = HostMapVma(h, r)
    /\ \A h, gone : KernelUnmapVma(h, gone) = HostUnmapVma(h, gone)

-----------------------------------------------------------------------------
(***************************************************************************)
(* One host call.                                                          *)
(***************************************************************************)

\* Page numbers of addresses.
LEMMA PageType ==
  ASSUME NEW a \in Addr, NEW b \in Addr
  PROVE  Page(a) \in Nat /\ (a <= b => Page(a) <= Page(b))
  BY PageAssumption DEF Addr, Page

\* A mapped area holds frames for all its pages.
LEMMA MappedHeld ==
  ASSUME NEW r, Mapped(r)
  PROVE  Held(r) = AreaPages(r)
  BY DEF Mapped, Held, AreaPages

\* More pages may be without an area.
LEMMA MorePages ==
  ASSUME NEW S, NEW h, NEW X, NEW N, HostInv(S, h, X, N), NEW M, N \subseteq M
  PROVE  HostInv(S, h, X, M)
  BY DEF HostInv, Entries

\* kernel_map_vma of an area the host knows changes nothing.
LEMMA MapAgain ==
  ASSUME HostCallsReal, NEW S, NEW h, NEW X, NEW N, HostInv(S, h, X, N),
         NEW r \in S, Mapped(r),
         NEW v, SameArea(v, r), v.hv = KernelMapVma(h, r).hv
  PROVE  HostInv((S \ {r}) \cup {v}, KernelMapVma(h, r).host, X \ {r}, N)
  <1> DEFINE T == (S \ {r}) \cup {v}
  <1>1. KernelMapVma(h, r) = [host |-> h, hv |-> r.hv]
    BY DEF HostCallsReal, HostMapVma, Mapped
  <1>2. v.hv = r.hv /\ KernelMapVma(h, r).host = h BY <1>1
  <1>3. v.start = r.start /\ v.end = r.end /\ v.prot = r.prot /\ v.file = r.file
    BY DEF SameArea
  <1>4. HvType(v) /\ Mapped(v) /\ v.file # Hole.file
    BY <1>2, <1>3 DEF HostInv, HvType, Mapped
  <1>5. Held(v) = Held(r) /\ \A p : OldFrame(v, p) = OldFrame(r, p)
    BY <1>2, <1>3 DEF Held, AreaPages, OldFrame
  <1>6. Private(T, h) BY <1>5 DEF HostInv, Private
  <1>7. \A p : EntryOf(h, p, r) => EntryOf(h, p, v) BY <1>3, <1>5 DEF EntryOf
  <1>8. Entries(T, h, N) BY <1>7 DEF HostInv, Entries
  <1> QED BY <1>2, <1>4, <1>6, <1>8 DEF HostInv

\* kernel_map_vma of a new or resized area: fresh frames, the surviving pages
\* moved into them, and entries for all of its pages.
LEMMA MapFresh ==
  ASSUME HostCallsReal, NEW S, \A q \in S : AreaTypeOK(q),
         NEW h, NEW X, NEW N, HostInv(S, h, X, N),
         NEW r \in S, ~Mapped(r), r.start <= r.end,
         NEW v, SameArea(v, r), v.hv = KernelMapVma(h, r).hv
  PROVE  HostInv((S \ {r}) \cup {v}, KernelMapVma(h, r).host, X \ {r}, N \ AreaPages(r))
  <1> DEFINE T == (S \ {r}) \cup {v}
             k == KernelMapVma(h, r).host
             n == Page(r.end) - Page(r.start)
             lost == \E s \in Surviving(r) : h.mem[OldFrame(r, s)] = Hole
  <1>1. KernelMapVma(h, r) =
          [host |-> [pt |-> MapEntries(h, r), next |-> h.next + n,
                     mem |-> FilledMem(h, r), stuck |-> h.stuck \/ lost],
           hv |-> [phys |-> h.next, start |-> r.start, end |-> r.end]]
    BY DEF HostCallsReal, HostMapVma, Mapped
  <1>2. /\ k = [pt |-> MapEntries(h, r), next |-> h.next + n,
                mem |-> FilledMem(h, r), stuck |-> h.stuck \/ lost]
        /\ v.hv = [phys |-> h.next, start |-> r.start, end |-> r.end]
    BY <1>1
  <1> HIDE DEF k
  <1>3. /\ k.pt = MapEntries(h, r) /\ k.next = h.next + n /\ k.mem = FilledMem(h, r)
        /\ k.stuck = (h.stuck \/ lost) /\ DOMAIN k = {"pt", "next", "mem", "stuck"}
    BY <1>2
  <1>4. v.hv.phys = h.next /\ v.hv.start = r.start /\ v.hv.end = r.end BY <1>2
  <1>5. v.start = r.start /\ v.end = r.end /\ v.prot = r.prot /\ v.file = r.file
    BY DEF SameArea
  <1>6. /\ AreaTypeOK(r) /\ HvType(r) /\ r.file # Hole.file /\ h.next \in Nat
        /\ h.stuck = FALSE
    BY DEF HostInv, HostType
  <1>7. /\ Page(r.start) \in Nat /\ Page(r.end) \in Nat /\ Page(r.start) <= Page(r.end)
        /\ n \in Nat
    BY <1>6, PageType DEF AreaTypeOK
  <1>8. Surviving(r) \subseteq Held(r) BY DEF Surviving, Held, AreaPages
  <1>9. ~lost BY <1>8 DEF HostInv, Private
  <1>10. HostType(k) /\ k.stuck = FALSE
    <2>1. h.next + n \in Nat BY <1>6, <1>7
    <2>2. HostType(k) BY <1>3, <2>1 DEF HostType
    <2> HIDE DEF lost
    <2>3. k.stuck = FALSE BY <1>3, <1>6, <1>9, Zenon
    <2> QED BY <2>2, <2>3
  <1>11. Mapped(v) /\ HvType(v) /\ v.file # Hole.file
    BY <1>4, <1>5, <1>6 DEF Mapped, HvType, AreaTypeOK, Addr
  <1>12. Held(v) = AreaPages(r) BY <1>5, <1>11, MappedHeld DEF AreaPages
  <1>13. \A p \in AreaPages(r) : /\ p \in Nat /\ OldFrame(v, p) = h.next + p - Page(r.start)
                                 /\ OldFrame(v, p) \in h.next .. h.next + n - 1
    BY <1>4, <1>6, <1>7 DEF OldFrame, AreaPages, PagesIn
  <1>14. ASSUME NEW q \in S, NEW p \in Held(q)
         PROVE  OldFrame(q, p) \in 0 .. h.next - 1 /\ h.mem[OldFrame(q, p)] # Hole
    BY DEF HostInv, Private
  <1>15. ASSUME NEW f \in 0 .. h.next - 1
         PROVE  k.mem[f] = IF \E s \in Surviving(r) : OldFrame(r, s) = f THEN Hole
                           ELSE h.mem[f]
    <2>1. f \in 0 .. h.next + n - 1 /\ f \notin NewFrames(h, r)
      BY <1>6, <1>7 DEF NewFrames
    <2> QED BY <1>3, <2>1 DEF FilledMem
  <1>16. ASSUME NEW f \in h.next .. h.next + n - 1 PROVE k.mem[f] # Hole
    <2> DEFINE p == f - h.next + Page(r.start)
    <2>1. f \in 0 .. h.next + n - 1 /\ f \in NewFrames(h, r)
      BY <1>6, <1>7 DEF NewFrames
    <2>2. k.mem[f] = IF r.fd # NoFd THEN FileData(r.file, Page(r.off) + p - Page(r.start))
                     ELSE IF p \in Surviving(r) THEN h.mem[OldFrame(r, p)]
                     ELSE FileData(NoFile, f)
      BY <1>3, <2>1 DEF FilledMem
    <2>3. \A x : FileData(r.file, x) # Hole BY <1>6 DEF FileData, Hole
    <2>4. FileData(NoFile, f) # Hole BY DEF FileData, Hole, NoFile
    <2>5. p \in Surviving(r) => h.mem[OldFrame(r, p)] # Hole BY <1>9
    <2> HIDE DEF p
    <2> QED BY <2>2, <2>3, <2>4, <2>5
  <1>17. ASSUME NEW q \in S \ {r}, NEW p \in Held(q)
         PROVE  OldFrame(q, p) \in 0 .. k.next - 1 /\ k.mem[OldFrame(q, p)] # Hole
    <2>1. OldFrame(q, p) \in 0 .. h.next - 1 /\ h.mem[OldFrame(q, p)] # Hole BY <1>14
    <2>2. \A s \in Surviving(r) : OldFrame(r, s) # OldFrame(q, p)
      BY <1>8 DEF HostInv, Private
    <2> QED BY <1>3, <1>6, <1>7, <1>15, <2>1, <2>2
  <1>18. ASSUME NEW p \in Held(v)
         PROVE  OldFrame(v, p) \in h.next .. k.next - 1 /\ k.mem[OldFrame(v, p)] # Hole
    <2>1. OldFrame(v, p) \in h.next .. h.next + n - 1 BY <1>12, <1>13
    <2>2. k.mem[OldFrame(v, p)] # Hole BY <1>16, <2>1
    <2>3. k.next = h.next + n /\ h.next \in Nat /\ n \in Nat BY <1>3, <1>6, <1>7
    <2> HIDE DEF n
    <2> QED BY <2>1, <2>2, <2>3
  <1>19. Private(T, k)
    <2>1. \A q \in T : \A p \in Held(q) :
            OldFrame(q, p) \in 0 .. k.next - 1 /\ k.mem[OldFrame(q, p)] # Hole
      BY <1>3, <1>6, <1>7, <1>17, <1>18
    <2>2. ASSUME NEW q \in S \ {r}, NEW p \in Held(q), NEW s \in Held(v)
          PROVE  OldFrame(q, p) # OldFrame(v, s)
      BY <1>3, <1>6, <1>7, <1>14, <1>18
    <2>3. ASSUME NEW q \in T, NEW u \in T, NEW p \in Held(q), NEW s \in Held(u),
                 OldFrame(q, p) = OldFrame(u, s)
          PROVE  q = u
      <3>1. CASE q \in S \ {r} /\ u \in S \ {r} BY <2>3, <3>1 DEF HostInv, Private
      <3>2. CASE q \in S \ {r} /\ u \notin S \ {r}
        <4>1. u = v BY <3>2
        <4> QED BY <2>2, <2>3, <3>2, <4>1
      <3>3. CASE q \notin S \ {r} /\ u \in S \ {r}
        <4>1. q = v BY <3>3
        <4> QED BY <2>2, <2>3, <3>3, <4>1
      <3>4. CASE q \notin S \ {r} /\ u \notin S \ {r} BY <3>4
      <3> QED BY <3>1, <3>2, <3>3, <3>4
    <2> QED BY <2>1, <2>3 DEF Private
  <1>20. Entries(T, k, N \ AreaPages(r))
    <2>1. SUFFICES ASSUME NEW p \in Pages \ (N \ AreaPages(r)), k.pt[p] # NoEntry
                   PROVE  \E q \in T : EntryOf(k, p, q)
      BY DEF Entries
    <2>2. k.pt[p] = IF p \in AreaPages(r)
                    THEN [frame |-> h.next + p - Page(r.start), bits |-> VmaProtToPg(r.prot)]
                    ELSE h.pt[p]
      BY <1>3 DEF MapEntries, AreaPages
    <2>3. CASE p \in AreaPages(r)
      <3>1. EntryOf(k, p, v) BY <1>5, <1>12, <1>13, <2>2, <2>3 DEF EntryOf
      <3> QED BY <3>1
    <2>4. CASE p \notin AreaPages(r)
      <3>1. PICK q \in S : EntryOf(h, p, q) BY <2>1, <2>2, <2>4 DEF HostInv, Entries
      <3>2. q # r BY <2>4, <3>1 DEF EntryOf, Held
      <3>3. EntryOf(k, p, q) BY <2>2, <2>4, <3>1 DEF EntryOf
      <3> QED BY <3>2, <3>3
    <2> QED BY <2>3, <2>4
  <1>21. \A q \in T : HvType(q) /\ q.file # Hole.file BY <1>11 DEF HostInv
  <1>22. \A q \in T \ (X \ {r}) : Mapped(q) BY <1>11 DEF HostInv
  <1> QED BY <1>10, <1>19, <1>20, <1>21, <1>22 DEF HostInv, k

\* The pages N that are left without an area once r is mapped.
Rest(N, r) == IF Mapped(r) THEN N ELSE N \ AreaPages(r)

\* kernel_map_vma on a linked area.
LEMMA MapVmaHost ==
  ASSUME HostCallsReal, NEW m, MmTypeOK(m), NEW X, NEW N,
         HostInv(m.areas, m.host, X, N), NEW r \in m.areas, r.start <= r.end
  PROVE  LET w == MapVma(m, r) IN HostInv(w.areas, w.host, X \ {r}, Rest(N, r))
  <1> DEFINE w == MapVma(m, r)
  <1>1. PICK v : /\ SameArea(v, r) /\ v.hv = KernelMapVma(m.host, r).hv
                 /\ w.areas = (m.areas \ {r}) \cup {v}
    BY MapVmaEffect
  <1>2. w.host = KernelMapVma(m.host, r).host BY MapVmaEffect
  <1>3. \A q \in m.areas : AreaTypeOK(q) BY DEF MmTypeOK
  <1> HIDE DEF w
  <1>4. CASE Mapped(r)
    <2>1. HostInv((m.areas \ {r}) \cup {v}, KernelMapVma(m.host, r).host, X \ {r}, N)
      BY <1>1, <1>4, MapAgain
    <2> QED BY <1>1, <1>2, <1>4, <2>1 DEF Rest, w
  <1>5. CASE ~Mapped(r)
    <2>1. HostInv((m.areas \ {r}) \cup {v}, KernelMapVma(m.host, r).host, X \ {r},
                  N \ AreaPages(r))
      BY <1>1, <1>3, <1>5, MapFresh
    <2> QED BY <1>1, <1>2, <1>5, <2>1 DEF Rest, w
  <1> QED BY <1>4, <1>5

\* kernel_unmap_vma clears entries: those of the pages M of the areas gone.
LEMMA UnmapHost ==
  ASSUME HostCallsReal, NEW S, NEW h, NEW X, NEW N, NEW M, HostInv(S, h, X, N \cup M),
         NEW gone, \A p \in M : \E r \in gone : Mapped(r) /\ p \in AreaPages(r)
  PROVE  HostInv(S, KernelUnmapVma(h, gone), X, N)
  <1> DEFINE k == KernelUnmapVma(h, gone)
             cleared(p) == \E r \in gone : r.hv.phys # -1 /\ p \in PagesIn(r.hv.start, r.hv.end)
  <1>1. k = [h EXCEPT !.pt = [p \in Pages |-> IF cleared(p) THEN NoEntry ELSE h.pt[p]]]
    BY DEF HostCallsReal, HostUnmapVma
  <1>2. /\ k.pt = [p \in Pages |-> IF cleared(p) THEN NoEntry ELSE h.pt[p]]
        /\ k.next = h.next /\ k.mem = h.mem /\ k.stuck = h.stuck
        /\ DOMAIN k = {"pt", "next", "mem", "stuck"}
    BY <1>1 DEF HostInv, HostType
  <1>3. \A p \in M : cleared(p) BY DEF Mapped, AreaPages
  <1> HIDE DEF k, cleared
  <1>4. \A p \in Pages : k.pt[p] = IF cleared(p) THEN NoEntry ELSE h.pt[p] BY <1>2
  <1>5. Entries(S, k, N)
    <2>1. SUFFICES ASSUME NEW p \in Pages \ N, k.pt[p] # NoEntry
                   PROVE  \E q \in S : EntryOf(k, p, q)
      BY DEF Entries
    <2>2. k.pt[p] = h.pt[p] /\ p \notin M BY <1>3, <1>4, <2>1
    <2>3. PICK q \in S : EntryOf(h, p, q) BY <2>1, <2>2 DEF HostInv, Entries
    <2>4. EntryOf(k, p, q) BY <2>2, <2>3 DEF EntryOf
    <2> QED BY <2>4
  <1>6. Private(S, k) BY <1>2 DEF HostInv, Private
  <1> QED BY <1>2, <1>5, <1>6 DEF HostInv, HostType, k

\* Areas leave the list: their entries stay for now.
LEMMA FewerHost ==
  ASSUME NEW S, NEW h, NEW X, NEW N, HostInv(S, h, X, N), NEW T \in SUBSET S
  PROVE  HostInv(T, h, X, N \cup UNION {AreaPages(r) : r \in S \ T})
  <1> DEFINE M == UNION {AreaPages(r) : r \in S \ T}
  <1>1. \A r \in S \ T : \A p \in AreaPages(r) : p \in M OBVIOUS
  <1> HIDE DEF M
  <1>2. Entries(T, h, N \cup M)
    <2>1. SUFFICES ASSUME NEW p \in Pages \ (N \cup M), h.pt[p] # NoEntry
                   PROVE  \E q \in T : EntryOf(h, p, q)
      BY DEF Entries
    <2>2. PICK q \in S : EntryOf(h, p, q) BY <2>1 DEF HostInv, Entries
    <2>3. q \in T BY <1>1, <2>1, <2>2 DEF EntryOf, Held
    <2> QED BY <2>2, <2>3
  <1>3. Private(T, h) BY DEF HostInv, Private
  <1> QED BY <1>2, <1>3 DEF HostInv, M

\* vma_split before the host calls: both halves share the frames of r.
LEMMA HalvesHost ==
  ASSUME NEW S, NEW h, NEW N, HostInv(S, h, {}, N), NEW r \in S, AreaTypeOK(r),
         NEW a \in Addr, r.start < a, a < r.end,
         NEW lo, NEW hi, lo.hv = r.hv, hi.hv = r.hv, lo.prot = r.prot, hi.prot = r.prot,
         lo.file = r.file, hi.file = r.file,
         lo.start = r.start, lo.end = a, hi.start = a, hi.end = r.end
  PROVE  HostInv((S \ {r}) \cup {lo, hi}, h, {lo, hi}, N)
  <1> DEFINE T == (S \ {r}) \cup {lo, hi}
  <1>1. Mapped(r) /\ HvType(r) /\ r.file # Hole.file BY DEF HostInv
  <1>2. /\ Page(r.start) \in Nat /\ Page(a) \in Nat /\ Page(r.end) \in Nat
        /\ Page(r.start) <= Page(a) /\ Page(a) <= Page(r.end)
    BY PageType DEF AreaTypeOK, Addr
  <1>3. HvType(lo) /\ HvType(hi) BY <1>1 DEF HvType
  <1>4. /\ Held(r) = Page(r.start) .. Page(r.end) - 1
        /\ Held(lo) = Page(r.start) .. Page(a) - 1
        /\ Held(hi) = Page(a) .. Page(r.end) - 1
    BY <1>1, <1>2 DEF Mapped, Held, AreaPages, PagesIn
  <1>5. /\ Held(lo) \subseteq Held(r) /\ Held(hi) \subseteq Held(r)
        /\ Held(r) \subseteq Held(lo) \cup Held(hi) /\ Held(lo) \cap Held(hi) = {}
        /\ Held(r) \subseteq Int
    BY <1>2, <1>4
  <1>6. \A p : OldFrame(lo, p) = OldFrame(r, p) /\ OldFrame(hi, p) = OldFrame(r, p)
    BY DEF OldFrame
  <1>7. \A p, s \in Held(r) : OldFrame(r, p) = OldFrame(r, s) => p = s
    <2>1. r.hv.phys \in Int /\ Page(r.hv.start) \in Int BY <1>1, PageType DEF HvType
    <2> QED BY <1>5, <2>1 DEF OldFrame
  <1>8. Private(T, h)
    <2>1. \A q \in T : \A p \in Held(q) :
            OldFrame(q, p) \in 0 .. h.next - 1 /\ h.mem[OldFrame(q, p)] # Hole
      BY <1>5, <1>6 DEF HostInv, Private
    <2>2. ASSUME NEW q \in S \ {r}, NEW p \in Held(q), NEW s \in Held(r)
          PROVE  OldFrame(q, p) # OldFrame(r, s)
      BY DEF HostInv, Private
    <2>3. ASSUME NEW q \in T, NEW u \in T, NEW p \in Held(q), NEW s \in Held(u),
                 OldFrame(q, p) = OldFrame(u, s)
          PROVE  q = u
      <3>1. CASE q \in S \ {r} /\ u \in S \ {r} BY <2>3, <3>1 DEF HostInv, Private
      <3>2. CASE q \in S \ {r} /\ u \in {lo, hi} BY <1>5, <1>6, <2>2, <2>3, <3>2
      <3>3. CASE q \in {lo, hi} /\ u \in S \ {r} BY <1>5, <1>6, <2>2, <2>3, <3>3
      <3>4. CASE q \in {lo, hi} /\ u \in {lo, hi}
        <4>1. p \in Held(r) /\ s \in Held(r) /\ OldFrame(r, p) = OldFrame(r, s)
          BY <1>5, <1>6, <2>3, <3>4
        <4>2. p = s BY <1>7, <4>1
        <4> QED BY <1>5, <2>3, <3>4, <4>2
      <3> QED BY <3>1, <3>2, <3>3, <3>4
    <2> QED BY <2>1, <2>3 DEF Private
  <1>9. Entries(T, h, N)
    <2>1. SUFFICES ASSUME NEW p \in Pages \ N, h.pt[p] # NoEntry
                   PROVE  \E q \in T : EntryOf(h, p, q)
      BY DEF Entries
    <2>2. PICK q \in S : EntryOf(h, p, q) BY <2>1 DEF HostInv, Entries
    <2>3. CASE q # r BY <2>2, <2>3
    <2>4. CASE q = r
      <3>1. EntryOf(h, p, lo) \/ EntryOf(h, p, hi) BY <1>5, <1>6, <2>2, <2>4 DEF EntryOf
      <3> QED BY <3>1
    <2> QED BY <2>3, <2>4
  <1>10. \A q \in T : HvType(q) /\ q.file # Hole.file BY <1>1, <1>3 DEF HostInv
  <1>11. \A q \in T \ {lo, hi} : Mapped(q) BY DEF HostInv
  <1> QED BY <1>8, <1>9, <1>10, <1>11 DEF HostInv

\* An area grows; the host has not been told.
LEMMA GrownHost ==
  ASSUME NEW S, NEW h, NEW N, HostInv(S, h, {}, N), NEW r \in S, AreaTypeOK(r),
         NEW g, AreaTypeOK(g), g.hv = r.hv, g.prot = r.prot, g.file = r.file,
         g.start <= r.start, r.end <= g.end
  PROVE  HostInv((S \ {r}) \cup {g}, h, {g}, N)
  <1> DEFINE T == (S \ {r}) \cup {g}
  <1>1. Mapped(r) /\ HvType(r) /\ r.file # Hole.file BY DEF HostInv
  <1>2. /\ Page(r.start) \in Nat /\ Page(r.end) \in Nat
        /\ Page(g.start) \in Nat /\ Page(g.end) \in Nat
        /\ Page(g.start) <= Page(r.start) /\ Page(r.end) <= Page(g.end)
    BY PageType DEF AreaTypeOK
  <1>3. HvType(g) BY <1>1 DEF HvType
  <1>4. Held(g) = Held(r)
    BY <1>1, <1>2 DEF Mapped, Held, AreaPages, PagesIn
  <1>5. \A p : OldFrame(g, p) = OldFrame(r, p) BY DEF OldFrame
  <1>6. Private(T, h) BY <1>4, <1>5 DEF HostInv, Private
  <1>7. \A p : EntryOf(h, p, r) => EntryOf(h, p, g) BY <1>4, <1>5 DEF EntryOf
  <1>8. Entries(T, h, N) BY <1>7 DEF HostInv, Entries
  <1>9. \A q \in T : HvType(q) /\ q.file # Hole.file BY <1>1, <1>3 DEF HostInv
  <1>10. \A q \in T \ {g} : Mapped(q) BY DEF HostInv
  <1> QED BY <1>6, <1>8, <1>9, <1>10 DEF HostInv

-----------------------------------------------------------------------------
(***************************************************************************)
(* The operations on areas.                                                *)
(***************************************************************************)

\* An area that was just allocated: vma_alloc sets phys_page_start to -1.
NewHv(n) == n.hv.phys = -1 /\ HvType(n) /\ n.file # Hole.file

\* vma_link maps a new area.
LEMMA VmaLinkHost ==
  ASSUME HostCallsReal, NEW m, MmTypeOK(m), NEW N, HostInv(m.areas, m.host, {}, N),
         NEW n, AreaTypeOK(n), n \notin m.areas, n.start <= n.end, NewHv(n)
  PROVE  HostInv(VmaLink(m, n).areas, VmaLink(m, n).host, {}, N)
  <1> DEFINE k == [m EXCEPT !.areas = @ \cup {n}, !.highest = LinkedHighest(m, n)]
             w == VmaLink(m, n)
  <1>1. LinkedHighest(m, n) \in Addr BY DEF LinkedHighest, MmTypeOK, AreaTypeOK
  <1>2. /\ IsMm(k) /\ k.areas = m.areas \cup {n} /\ k.highest = LinkedHighest(m, n)
        /\ k.heap = m.heap /\ k.fds = m.fds /\ k.status = m.status /\ k.host = m.host
    BY DEF MmTypeOK, IsMm
  <1>3. w = MapVma(k, n) BY DEF VmaLink
  <1> HIDE DEF k, w
  <1>4. MmTypeOK(k) BY <1>1, <1>2 DEF MmTypeOK
  <1>5. Held(n) = {} /\ ~Mapped(n) BY DEF NewHv, Held, Mapped
  <1>6. HostInv(k.areas, k.host, {n}, N)
    <2>1. Private(k.areas, m.host) BY <1>2, <1>5 DEF HostInv, Private
    <2>2. Entries(k.areas, m.host, N) BY <1>2 DEF HostInv, Entries
    <2> QED BY <1>2, <2>1, <2>2 DEF HostInv, NewHv
  <1>7. HostInv(w.areas, w.host, {n} \ {n}, Rest(N, n))
    BY <1>2, <1>3, <1>4, <1>6, MapVmaHost
  <1>8. Rest(N, n) \subseteq N /\ {n} \ {n} = {} BY DEF Rest
  <1> QED BY <1>7, <1>8, MorePages DEF w

\* vma_split: the new half takes its pages along, then the old one.
LEMMA VmaSplitHost ==
  ASSUME HostCallsReal, NEW m, MmTypeOK(m), Sound(m), NEW N,
         HostInv(m.areas, m.host, {}, N), NEW r \in m.areas,
         NEW a \in Addr, r.start < a, a < r.end, NEW below \in BOOLEAN, Fds \ m.fds # {}
  PROVE  LET w == VmaSplit(m, r, a, below) IN HostInv(w.areas, w.host, {}, N)
  <1> DEFINE d == Dup(m.fds, r.fd)
             lo == [r EXCEPT !.end = a]
             hi == [r EXCEPT !.start = a, !.off = @ + PAGE_ALIGN_DOWN(a - r.start)]
             old == IF below THEN hi ELSE lo
             new == [(IF below THEN lo ELSE hi) EXCEPT !.fd = d]
             S == m.areas \ {r}
             kept == [m EXCEPT !.areas = (@ \ {r}) \cup {old},
                               !.fds = @ \cup ({d} \ {NoFd}),
                               !.heap = IF @ = r.start THEN old.start ELSE @]
             k == [kept EXCEPT !.areas = @ \cup {new},
                               !.highest = LinkedHighest(kept, new)]
             link == MapVma(k, new)
             w == VmaSplit(m, r, a, below)
  <1>1. AreaTypeOK(r) /\ \A q \in m.areas : AreaTypeOK(q) BY DEF MmTypeOK
  <1>2. d \in Fds \cup {NoFd} BY <1>1, DupType DEF AreaTypeOK
  <1>3. PAGE_ALIGN_DOWN(a - r.start) \in Int
    BY <1>1, PageAssumption DEF PAGE_ALIGN_DOWN, AreaTypeOK, Addr
  <1>4. /\ AreaTypeOK(lo) /\ lo.start = r.start /\ lo.end = a
        /\ lo.hv = r.hv /\ lo.prot = r.prot /\ lo.file = r.file
    BY <1>1 DEF AreaTypeOK
  <1>5. /\ AreaTypeOK(hi) /\ hi.start = a /\ hi.end = r.end
        /\ hi.hv = r.hv /\ hi.prot = r.prot /\ hi.file = r.file
    BY <1>1, <1>3 DEF AreaTypeOK
  <1>6. w = MapVma(link, old) BY Zenon DEF VmaSplit, VmaLink
  <1> HIDE DEF lo, hi, d, w
  <1>7. /\ AreaTypeOK(old) /\ AreaTypeOK(new)
        /\ old.hv = r.hv /\ old.prot = r.prot /\ old.file = r.file
        /\ new.hv = r.hv /\ new.prot = r.prot /\ new.file = r.file
        /\ \/ old.start = r.start /\ old.end = a /\ new.start = a /\ new.end = r.end
           \/ new.start = r.start /\ new.end = a /\ old.start = a /\ old.end = r.end
    BY <1>2, <1>4, <1>5 DEF AreaTypeOK
  <1> HIDE DEF old, new
  <1>8. r.start \in Int /\ a \in Int /\ r.end \in Int /\ old # new
        /\ new.start <= new.end /\ old.start <= old.end
    BY <1>1, <1>7, PageAssumption DEF AreaTypeOK, Addr
  <1>9. /\ IsMm(kept) /\ kept.areas = S \cup {old} /\ kept.highest = m.highest
        /\ kept.fds = m.fds \cup ({d} \ {NoFd}) /\ kept.status = m.status
        /\ kept.heap = (IF m.heap = r.start THEN old.start ELSE m.heap)
        /\ kept.host = m.host
    BY DEF MmTypeOK, IsMm
  <1> HIDE DEF kept
  <1>10. LinkedHighest(kept, new) \in Addr
    BY <1>7, <1>9 DEF LinkedHighest, MmTypeOK, AreaTypeOK
  <1>11. /\ IsMm(k) /\ k.areas = S \cup {old, new} /\ k.highest = LinkedHighest(kept, new)
         /\ k.fds = kept.fds /\ k.status = m.status /\ k.heap = kept.heap
         /\ k.host = m.host
    BY <1>9 DEF IsMm
  <1> HIDE DEF k
  <1>12. MmTypeOK(k)
    <2>1. k.heap \in Addr \cup {NULL, DANGLING}
      BY <1>7, <1>9, <1>11 DEF MmTypeOK, AreaTypeOK
    <2>2. k.fds \subseteq Fds BY <1>2, <1>9, <1>11 DEF MmTypeOK
    <2> QED BY <1>1, <1>7, <1>10, <1>11, <2>1, <2>2 DEF MmTypeOK
  <1>13. HostInv(k.areas, k.host, {old, new}, N)
    <2>1. CASE old.start = r.start /\ old.end = a /\ new.start = a /\ new.end = r.end
      BY <1>1, <1>7, <1>11, <2>1, HalvesHost
    <2>2. CASE new.start = r.start /\ new.end = a /\ old.start = a /\ old.end = r.end
      <3>1. HostInv(S \cup {new, old}, m.host, {new, old}, N)
        BY <1>1, <1>7, <2>2, HalvesHost
      <3>2. {new, old} = {old, new} OBVIOUS
      <3> QED BY <1>11, <3>1, <3>2
    <2> QED BY <1>7, <2>1, <2>2
  <1>14. MmTypeOK(link) /\ HostInv(link.areas, link.host, {old, new} \ {new}, Rest(N, new))
    BY <1>8, <1>11, <1>12, <1>13, MapVmaHost, MapVmaFields
  <1>15. old \in link.areas
    <2>1. new \in k.areas /\ old \in k.areas \ {new} BY <1>8, <1>11
    <2>2. PICK v : /\ SameArea(v, new) /\ v.hv = KernelMapVma(k.host, new).hv
                   /\ MapVma(k, new).areas = (k.areas \ {new}) \cup {v}
      BY <1>12, <2>1, MapVmaEffect
    <2> QED BY <2>1, <2>2
  <1> HIDE DEF link
  <1>16. HostInv(w.areas, w.host, ({old, new} \ {new}) \ {old}, Rest(Rest(N, new), old))
    BY <1>6, <1>8, <1>14, <1>15, MapVmaHost
  <1>17. ({old, new} \ {new}) \ {old} = {} /\ Rest(Rest(N, new), old) \subseteq N
    BY DEF Rest
  <1> QED BY <1>16, <1>17, MorePages DEF w

\* munmap's splits.
LEMMA SplitAtHost ==
  ASSUME HostCallsReal, NEW m, MmTypeOK(m), Sound(m), NEW N,
         HostInv(m.areas, m.host, {}, N),
         NEW a \in Addr, NEW below \in BOOLEAN, Fds \ m.fds # {}
  PROVE  LET w == SplitAt(m, a, below) IN HostInv(w.areas, w.host, {}, N)
  <1> DEFINE E == EndingAbove(m.areas, a)
             f == VmaFind(m.areas, a)
  <1>1. \A r \in m.areas : r.start \in Addr /\ r.end \in Addr
    BY DEF MmTypeOK, AreaTypeOK
  <1>2. E \subseteq m.areas /\ \A r \in E : r.end > a BY DEF EndingAbove
  <1>3. E # {} => f \in E BY <1>1, <1>2, LowestExists DEF VmaFind
  <1>4. CASE E # {} /\ a > f.start
    <2>1. f \in m.areas /\ f.start < a /\ a < f.end
      BY <1>1, <1>2, <1>3, <1>4, PageAssumption DEF Addr
    <2>2. SplitAt(m, a, below) = VmaSplit(m, f, a, below) BY <1>4 DEF SplitAt
    <2> HIDE DEF f
    <2> QED BY <2>1, <2>2, VmaSplitHost
  <1>5. CASE ~(E # {} /\ a > f.start) BY <1>5 DEF SplitAt
  <1> QED BY <1>4, <1>5

\* syscall_munmap: the entries of the areas taken out are cleared.
LEMMA MunmapHost ==
  ASSUME HostCallsReal, NEW m, MmTypeOK(m), Sound(m), NEW N,
         HostInv(m.areas, m.host, {}, N), NEW a \in Addr, NEW length \in Addr,
         ~MunmapInvalid(a, length), Cardinality(Fds \ m.fds) >= 2
  PROVE  LET w == Munmap(m, a, length) IN HostInv(w.areas, w.host, {}, N)
  <1> DEFINE e == a + PAGE_ALIGN(length)
             m1 == SplitAt(m, a, FALSE)
             m2 == Ends(m, a, e)
             gone == Inside(m2, a, e)
             cut == Detached(m2, a, e)
             w == Munmap(m, a, length)
  <1>1. e \in Addr BY MunmapEnd
  <1> HIDE DEF e
  <1>2. CASE Overlapped(m.areas, a, e)
    <2>1. EndingAbove(m.areas, a) # {} BY <1>2 DEF Overlapped, EndingAbove
    <2>2. w = VmaRemove(cut, gone) BY <1>2, <2>1, MunmapRangeStages DEF Munmap, e
    <2>3. /\ Fds \ m.fds # {} /\ Fds \ m1.fds # {}
          /\ MmTypeOK(m1) /\ Sound(m1) /\ MmTypeOK(m2)
      BY <1>1, EndsSound
    <2>4. HostInv(m1.areas, m1.host, {}, N) BY <2>3, SplitAtHost
    <2>5. m2 = SplitAt(m1, e, TRUE) BY DEF Ends
    <2> HIDE DEF m1, m2, w
    <2>6. HostInv(m2.areas, m2.host, {}, N) BY <1>1, <2>3, <2>4, <2>5, SplitAtHost
    <2>7. /\ MmTypeOK(cut) /\ cut.areas = Outside(m2, a, e) /\ cut.host = m2.host
      BY <1>1, <2>3, DetachedEffect
    <2>8. gone \in SUBSET m2.areas /\ Outside(m2, a, e) \in SUBSET m2.areas
          /\ m2.areas \ Outside(m2, a, e) = gone
      BY DEF Inside, Outside
    <2> HIDE DEF cut, gone
    <2> DEFINE M == UNION {AreaPages(r) : r \in gone}
    <2>9. HostInv(cut.areas, cut.host, {}, N \cup M)
      BY <2>6, <2>7, <2>8, FewerHost
    <2>10. \A p \in M : \E r \in gone : Mapped(r) /\ p \in AreaPages(r)
      BY <2>6, <2>8 DEF HostInv
    <2> HIDE DEF M
    <2>11. HostInv(cut.areas, KernelUnmapVma(cut.host, gone), {}, N)
      BY <2>9, <2>10, UnmapHost
    <2>12. w.areas = cut.areas /\ w.host = KernelUnmapVma(cut.host, gone)
      BY <2>2, <2>7, VmaRemoveEffect
    <2> QED BY <2>11, <2>12 DEF w
  <1>3. CASE ~Overlapped(m.areas, a, e) BY <1>3 DEF Munmap, e
  <1> QED BY <1>2, <1>3

\* An area that grew is mapped again.
LEMMA GrownMapped ==
  ASSUME HostCallsReal, NEW m, MmTypeOK(m), NEW N, HostInv(m.areas, m.host, {}, N),
         NEW r \in m.areas, NEW g, AreaTypeOK(g),
         g.hv = r.hv, g.prot = r.prot, g.file = r.file,
         g.start <= r.start, r.end <= g.end, g.start <= g.end,
         NEW k, MmTypeOK(k), k.areas = (m.areas \ {r}) \cup {g}, k.host = m.host
  PROVE  LET w == MapVma(k, g) IN HostInv(w.areas, w.host, {}, N)
  <1>1. AreaTypeOK(r) BY DEF MmTypeOK
  <1>2. HostInv(k.areas, k.host, {g}, N) BY <1>1, GrownHost
  <1>3. g \in k.areas /\ {g} \ {g} = {} OBVIOUS
  <1>4. HostInv(MapVma(k, g).areas, MapVma(k, g).host, {g} \ {g}, Rest(N, g))
    BY <1>2, <1>3, MapVmaHost
  <1>5. Rest(N, g) \subseteq N BY DEF Rest
  <1> QED BY <1>3, <1>4, <1>5, MorePages

\* vma_merge, case 1: the entries of the area swallowed are cleared.
LEMMA MergeBothHost ==
  ASSUME HostCallsReal, NEW m, MmTypeOK(m), Sound(m), NEW N,
         HostInv(m.areas, m.host, {}, N),
         NEW p \in m.areas, NEW q \in m.areas, p.end < q.start
  PROVE  LET w == MergeBoth(m, p, q) IN HostInv(w.areas, w.host, {}, N)
  <1> DEFINE g == [p EXCEPT !.end = q.end]
             T == m.areas \ {q}
             k == [m EXCEPT !.areas = (m.areas \ {p, q}) \cup {g}]
             mapped == MapVma(k, g)
             done == VmaRemove(mapped, {q})
             M == AreaPages(q)
             w == MergeBoth(m, p, q)
  <1>1. AreaTypeOK(p) /\ AreaTypeOK(q) /\ \A r \in m.areas : AreaTypeOK(r)
    BY DEF MmTypeOK
  <1>2. /\ p.start \in Int /\ p.end \in Int /\ q.start \in Int /\ q.end \in Int
        /\ p.start < p.end /\ q.start < q.end
    BY <1>1, PageAssumption DEF AreaTypeOK, Addr, Sound, WellFormed
  <1>3. /\ AreaTypeOK(g) /\ g.start = p.start /\ g.end = q.end
        /\ g.hv = p.hv /\ g.prot = p.prot /\ g.file = p.file
    BY <1>1 DEF AreaTypeOK
  <1>4. w = IF After(m.areas, q.end) # {} THEN done ELSE [done EXCEPT !.highest = q.end]
    BY DEF MergeBoth
  <1> HIDE DEF g, w
  <1>5. p # q /\ p \in T BY <1>2
  <1>6. /\ IsMm(k) /\ k.areas = (T \ {p}) \cup {g} /\ k.highest = m.highest
        /\ k.heap = m.heap /\ k.fds = m.fds /\ k.status = m.status /\ k.host = m.host
    BY DEF MmTypeOK, IsMm
  <1> HIDE DEF k
  <1>7. MmTypeOK(k) BY <1>1, <1>3, <1>6 DEF MmTypeOK
  <1>8. Mapped(q) BY DEF HostInv
  <1>9. HostInv(T, m.host, {}, N \cup M)
    <2>1. T \in SUBSET m.areas /\ m.areas \ T = {q} OBVIOUS
    <2>2. HostInv(T, m.host, {}, N \cup UNION {AreaPages(r) : r \in m.areas \ T})
      BY <2>1, FewerHost
    <2>3. UNION {AreaPages(r) : r \in m.areas \ T} = M BY <2>1
    <2> QED BY <2>2, <2>3
  <1> HIDE DEF M, T
  <1>10. HostInv(k.areas, k.host, {g}, N \cup M)
    BY <1>1, <1>2, <1>3, <1>5, <1>6, <1>9, GrownHost
  <1>11. HostInv(mapped.areas, mapped.host, {g} \ {g}, Rest(N \cup M, g))
    <2>1. g \in k.areas /\ g.start <= g.end BY <1>2, <1>3, <1>6
    <2> QED BY <1>7, <1>10, <2>1, MapVmaHost
  <1>12. HostInv(mapped.areas, mapped.host, {}, N \cup M)
    <2>1. {g} \ {g} = {} /\ Rest(N \cup M, g) \subseteq N \cup M BY DEF Rest
    <2> QED BY <1>11, <2>1, MorePages
  <1>13. MmTypeOK(mapped) BY <1>6, <1>7, MapVmaFields
  <1> HIDE DEF mapped
  <1>14. \A s \in M : \E r \in {q} : Mapped(r) /\ s \in AreaPages(r) BY <1>8 DEF M
  <1>15. HostInv(mapped.areas, KernelUnmapVma(mapped.host, {q}), {}, N)
    BY <1>12, <1>14, UnmapHost
  <1>16. /\ MmTypeOK(done) /\ done.areas = mapped.areas
         /\ done.host = KernelUnmapVma(mapped.host, {q})
    BY <1>13, VmaRemoveEffect
  <1> HIDE DEF done
  <1>17. w.areas = done.areas /\ w.host = done.host BY <1>4, <1>16 DEF MmTypeOK, IsMm
  <1> QED BY <1>15, <1>16, <1>17 DEF w

\* vma_merge, case 2.
LEMMA MergeUpHost ==
  ASSUME HostCallsReal, NEW m, MmTypeOK(m), Sound(m), NEW N,
         HostInv(m.areas, m.host, {}, N),
         NEW p \in m.areas, NEW n, AreaTypeOK(n), p.end = n.start, n.start < n.end
  PROVE  LET w == MergeUp(m, p, n) IN HostInv(w.areas, w.host, {}, N)
  <1> DEFINE g == [p EXCEPT !.end = n.end]
             top == IF After(m.areas, n.end) # {} THEN m.highest ELSE n.end
             k == [m EXCEPT !.areas = (m.areas \ {p}) \cup {g}, !.highest = top]
             w == MergeUp(m, p, n)
  <1>1. AreaTypeOK(p) /\ \A r \in m.areas : AreaTypeOK(r) BY DEF MmTypeOK
  <1>2. /\ p.start \in Int /\ p.end \in Int /\ n.end \in Int /\ p.start < p.end
    BY <1>1, PageAssumption DEF AreaTypeOK, Addr, Sound, WellFormed
  <1>3. /\ AreaTypeOK(g) /\ g.start = p.start /\ g.end = n.end
        /\ g.hv = p.hv /\ g.prot = p.prot /\ g.file = p.file
    BY <1>1 DEF AreaTypeOK
  <1>4. top \in Addr BY DEF MmTypeOK, AreaTypeOK
  <1>5. w = MapVma(k, g) BY DEF MergeUp
  <1> HIDE DEF g, top, w
  <1>6. /\ IsMm(k) /\ k.areas = (m.areas \ {p}) \cup {g} /\ k.highest = top
        /\ k.heap = m.heap /\ k.fds = m.fds /\ k.status = m.status /\ k.host = m.host
    BY DEF MmTypeOK, IsMm
  <1> HIDE DEF k
  <1>7. MmTypeOK(k) BY <1>1, <1>3, <1>4, <1>6 DEF MmTypeOK
  <1>8. g.start <= p.start /\ p.end <= g.end /\ g.start <= g.end BY <1>2, <1>3
  <1> QED BY <1>3, <1>5, <1>6, <1>7, <1>8, GrownMapped DEF w

\* vma_merge, case 3.
LEMMA MergeDownHost ==
  ASSUME HostCallsReal, NEW m, MmTypeOK(m), Sound(m), NEW N,
         HostInv(m.areas, m.host, {}, N),
         NEW q \in m.areas, NEW n, AreaTypeOK(n), q.start = n.end, n.start < n.end
  PROVE  LET w == MergeDown(m, q, n) IN HostInv(w.areas, w.host, {}, N)
  <1> DEFINE g == GrownDown(q, n)
             k == [m EXCEPT !.areas = (@ \ {q}) \cup {g},
                            !.heap = IF @ = q.start THEN n.start ELSE @]
             w == MergeDown(m, q, n)
  <1>1. AreaTypeOK(q) /\ \A r \in m.areas : AreaTypeOK(r) BY DEF MmTypeOK
  <1>2. PgLen(n.start, n.end, n.fd) \in Int BY PgLenType DEF AreaTypeOK
  <1>3. /\ AreaTypeOK(g) /\ g.start = n.start /\ g.end = q.end
        /\ g.hv = q.hv /\ g.prot = q.prot /\ g.file = q.file
    BY <1>1, <1>2 DEF AreaTypeOK, GrownDown
  <1>4. w = MapVma(k, g) BY DEF MergeDown, GrownDown
  <1>5. /\ q.start \in Int /\ q.end \in Int /\ n.start \in Int /\ q.start < q.end
    BY <1>1, PageAssumption DEF AreaTypeOK, Addr, Sound, WellFormed
  <1> HIDE DEF g, w
  <1>6. /\ IsMm(k) /\ k.areas = (m.areas \ {q}) \cup {g} /\ k.highest = m.highest
        /\ k.heap = (IF m.heap = q.start THEN n.start ELSE m.heap)
        /\ k.fds = m.fds /\ k.status = m.status /\ k.host = m.host
    BY DEF MmTypeOK, IsMm
  <1> HIDE DEF k
  <1>7. MmTypeOK(k) BY <1>1, <1>3, <1>6 DEF MmTypeOK, AreaTypeOK
  <1>8. g.start <= q.start /\ q.end <= g.end /\ g.start <= g.end BY <1>3, <1>5
  <1> QED BY <1>3, <1>4, <1>6, <1>7, <1>8, GrownMapped DEF w

\* vma_merge or vma_link, whichever applies.
LEMMA MergeOrLinkHost ==
  ASSUME HostCallsReal, NEW m, MmTypeOK(m), Sound(m), NEW N,
         HostInv(m.areas, m.host, {}, N),
         NEW n, AreaTypeOK(n), n.start < n.end, FreeFor(m.areas, n), NewHv(n)
  PROVE  LET w == MergeOrLink(m, n).m IN HostInv(w.areas, w.host, {}, N)
  <1> DEFINE P == {p \in m.areas : MergesAfter(p, n)}
             Q == {q \in m.areas : MergesBefore(q, n)}
             p == CHOOSE r \in P : TRUE
             q == CHOOSE r \in Q : TRUE
             w == MergeOrLink(m, n).m
  <1>1. P # {} => p \in m.areas /\ p.end = n.start BY DEF MergesAfter
  <1>2. Q # {} => q \in m.areas /\ q.start = n.end BY DEF MergesBefore
  <1>3. w = IF P # {} /\ Q # {} THEN MergeBoth(m, p, q)
            ELSE IF P # {} THEN MergeUp(m, p, n)
            ELSE IF Q # {} THEN MergeDown(m, q, n) ELSE VmaLink(m, n)
    BY DEF MergeOrLink
  <1>4. n.start \in Int /\ n.end \in Int BY PageAssumption DEF AreaTypeOK, Addr
  <1> HIDE DEF P, Q, p, q, w
  <1>5. CASE P # {} /\ Q # {}
    <2>1. p \in m.areas /\ q \in m.areas /\ p.end < q.start BY <1>1, <1>2, <1>5
    <2>2. HostInv(MergeBoth(m, p, q).areas, MergeBoth(m, p, q).host, {}, N)
      BY <2>1, MergeBothHost
    <2> QED BY <1>3, <1>5, <2>2 DEF w
  <1>6. CASE P # {} /\ Q = {}
    <2>1. HostInv(MergeUp(m, p, n).areas, MergeUp(m, p, n).host, {}, N)
      BY <1>1, <1>6, MergeUpHost
    <2> QED BY <1>3, <1>6, <2>1 DEF w
  <1>7. CASE P = {} /\ Q # {}
    <2>1. HostInv(MergeDown(m, q, n).areas, MergeDown(m, q, n).host, {}, N)
      BY <1>2, <1>7, MergeDownHost
    <2> QED BY <1>3, <1>7, <2>1 DEF w
  <1>8. CASE P = {} /\ Q = {}
    <2>1. n \notin m.areas /\ n.start <= n.end BY <1>4 DEF FreeFor
    <2>2. HostInv(VmaLink(m, n).areas, VmaLink(m, n).host, {}, N)
      BY <2>1, VmaLinkHost
    <2> QED BY <1>3, <1>8, <2>2 DEF w
  <1> QED BY <1>5, <1>6, <1>7, <1>8

\* mmap_region, unless it links a range that wraps.
LEMMA MmapRegionHost ==
  ASSUME HostCallsReal, NEW m, MmTypeOK(m), Sound(m), Cardinality(Fds \ m.fds) >= 2,
         NEW N, HostInv(m.areas, m.host, {}, N),
         NEW n, AreaTypeOK(n), NewHv(n),
         NEW length \in Addr, n.end = Add(n.start, length)
  PROVE  LET R == MmapRegion(m, n, length)
         IN  R.m.status = "corrupt" \/ HostInv(R.m.areas, R.m.host, {}, N)
  <1> DEFINE busy == Overlapped(m.areas, n.start, n.end)
             clear == IF busy THEN Munmap(m, n.start, length) ELSE m
             R == MmapRegion(m, n, length)
             bad == [clear EXCEPT !.areas = @ \cup {n}, !.status = "corrupt"]
  <1>1. CASE busy /\ MunmapInvalid(n.start, length)
    <2>1. R.m = m BY <1>1 DEF MmapRegion
    <2> QED BY <2>1
  <1>2. CASE ~(busy /\ MunmapInvalid(n.start, length))
    <2>0. n.start \in Addr /\ n.end \in Addr BY DEF AreaTypeOK
    <2>1. busy => /\ MmTypeOK(clear) /\ Sound(clear)
                  /\ HostInv(clear.areas, clear.host, {}, N)
                  /\ \A q \in clear.areas :
                        q.end <= n.start \/ n.start + length <= q.start
      BY <1>2, <2>0, MunmapSound, MunmapHost
    <2>2. ~busy => clear = m OBVIOUS
    <2>3. R = IF n.end <= n.start THEN [m |-> bad, at |-> n.start]
              ELSE MergeOrLink(clear, n)
      BY <1>2 DEF MmapRegion
    <2>4. busy => n.end = n.start + length
      <3>1. SUFFICES ASSUME busy PROVE n.end = n.start + length OBVIOUS
      <3>2. length <= kernel_min_address - n.start
        BY <1>2, <2>0, <3>1, PageAssumption, LayoutAssumption DEF MunmapInvalid, Addr
      <3>3. n.start + length < WORD
        BY <2>0, <3>2, PageAssumption, LayoutAssumption DEF Addr
      <3> QED BY <3>3 DEF Add
    <2>5. ~busy => \A q \in m.areas : q.end <= n.start \/ n.end <= q.start
      <3>1. \A q \in m.areas : q.start \in Addr /\ q.end \in Addr
        BY DEF MmTypeOK, AreaTypeOK
      <3> QED BY <2>0, <3>1, PageAssumption DEF Overlapped, Addr
    <2> HIDE DEF busy, clear, R
    <2>6. /\ MmTypeOK(clear) /\ Sound(clear) /\ HostInv(clear.areas, clear.host, {}, N)
          /\ FreeFor(clear.areas, n)
      BY <2>1, <2>2, <2>4, <2>5 DEF FreeFor
    <2>7. CASE n.end <= n.start
      <3>1. bad.status = "corrupt" BY <2>6 DEF MmTypeOK, IsMm
      <3> HIDE DEF bad
      <3> QED BY <2>3, <2>7, <3>1 DEF R
    <2>8. CASE ~(n.end <= n.start)
      <3>1. n.start < n.end BY <2>0, <2>8, PageAssumption DEF Addr
      <3> DEFINE w == MergeOrLink(clear, n).m
      <3>2. HostInv(w.areas, w.host, {}, N) BY <2>6, <3>1, MergeOrLinkHost
      <3>3. R.m = w BY <2>3, <2>8
      <3> HIDE DEF w
      <3> QED BY <3>2, <3>3 DEF R
    <2> QED BY <2>7, <2>8
  <1> QED BY <1>1, <1>2

\* An area shrinks: frames stay private, its old entries are of no area.
LEMMA ShrunkHost ==
  ASSUME NEW S, NEW h, NEW N, HostInv(S, h, {}, N), NEW r \in S, AreaTypeOK(r),
         NEW g, AreaTypeOK(g), g.hv = r.hv, g.file = r.file,
         g.start = r.start, g.end <= r.end
  PROVE  HostInv((S \ {r}) \cup {g}, h, {g}, Pages)
  <1> DEFINE T == (S \ {r}) \cup {g}
  <1>1. Mapped(r) /\ HvType(r) /\ r.file # Hole.file BY DEF HostInv
  <1>2. /\ Page(r.start) \in Nat /\ Page(r.end) \in Nat /\ Page(g.end) \in Nat
        /\ Page(g.end) <= Page(r.end)
    BY PageType DEF AreaTypeOK
  <1>3. HvType(g) BY <1>1 DEF HvType
  <1>4. Held(g) \subseteq Held(r)
    BY <1>1, <1>2 DEF Mapped, Held, AreaPages, PagesIn
  <1>5. \A p : OldFrame(g, p) = OldFrame(r, p) BY DEF OldFrame
  <1>6. Private(T, h) BY <1>4, <1>5 DEF HostInv, Private
  <1>7. Entries(T, h, Pages) BY DEF Entries
  <1>8. \A q \in T : HvType(q) /\ q.file # Hole.file BY <1>1, <1>3 DEF HostInv
  <1>9. \A q \in T \ {g} : Mapped(q) BY DEF HostInv
  <1> QED BY <1>6, <1>7, <1>8, <1>9 DEF HostInv

-----------------------------------------------------------------------------
(***************************************************************************)
(* The steps.  Between two calls the bounds and the frames agree; N is {}  *)
(* if the entries do too.                                                  *)
(***************************************************************************)
HostRun(N) == status = "run" => HostInv(areas, host, {}, N)

\* A step that commits m keeps the agreement if m does.
LEMMA CommitHost ==
  ASSUME NEW N, NEW m, Commit(m),
         m.status = "corrupt" \/ HostInv(m.areas, m.host, {}, N)
  PROVE  HostRun(N)'
  <1>1. areas' = m.areas /\ host' = m.host /\ status' = m.status BY DEF Commit
  <1> QED BY <1>1 DEF HostRun

\* syscall_mmap.
LEMMA SysMmapHost ==
  ASSUME HostCallsReal, IInv, NEW N, HostRun(N), NEW c \in MmapCalls, SysMmap(c)
  PROVE  HostRun(N)'
  <1> DEFINE length == PAGE_ALIGN(c.length)
  <1>1. PICK a, opened, fd :
           /\ a \in GetUnmappedArea(Mm, c.addr, length, c.fixed)
           /\ a \in Addr /\ fd \in Fds \cup {NoFd}
           /\ MmTypeOK(opened) /\ Sound(opened) /\ Cardinality(Fds \ opened.fds) >= 2
           /\ opened.areas = areas /\ opened.host = host
           /\ IF MapTypeInvalid(c) THEN Commit(opened)
              ELSE Commit(MmapRegion(opened, NewArea(c, a, fd), length).m)
    BY SysMmapStages
  <1>2. length \in Addr /\ c.fd \in Fds \cup {NoFd}
    BY MmapCallsAssumption, PageAlignType
  <1>3. HostInv(opened.areas, opened.host, {}, N)
    BY <1>1 DEF HostRun, SysMmap, Running
  <1>4. CASE MapTypeInvalid(c) BY <1>1, <1>3, <1>4, CommitHost
  <1>5. CASE ~MapTypeInvalid(c)
    <2> DEFINE n == NewArea(c, a, fd)
    <2>1. AreaTypeOK(n) /\ n.end = Add(n.start, length) BY <1>1, NewAreaType
    <2>2. NewHv(n)
      <3>1. n.hv = [phys |-> -1, start |-> 0, end |-> 0] BY DEF NewArea
      <3>2. n.file = IF c.fd = NoFd THEN NoFile ELSE FileOf(c.fd) BY DEF NewArea
      <3>3. n.file # Hole.file
        BY <1>2, <3>2, BootHostAssumption DEF NoFile, Hole
      <3>4. 0 \in Addr BY PageAssumption, LayoutAssumption DEF Addr
      <3> QED BY <3>1, <3>3, <3>4 DEF NewHv, HvType
    <2> HIDE DEF n
    <2> DEFINE R == MmapRegion(opened, n, length)
    <2>3. R.m.status = "corrupt" \/ HostInv(R.m.areas, R.m.host, {}, N)
      BY <1>1, <1>2, <1>3, <2>1, <2>2, MmapRegionHost
    <2>4. Commit(R.m) BY <1>1, <1>5 DEF n
    <2> HIDE DEF R
    <2> QED BY <2>3, <2>4, CommitHost
  <1> QED BY <1>4, <1>5

\* syscall_munmap.
LEMMA SysMunmapHost ==
  ASSUME HostCallsReal, IInv, NEW N, HostRun(N), NEW a \in Addr, NEW length \in Addr,
         SysMunmap(a, length)
  PROVE  HostRun(N)'
  <1>1. Running /\ ~MunmapInvalid(a, length) /\ Commit(Munmap(Mm, a, length))
    BY DEF SysMunmap
  <1>2. /\ MmTypeOK(Mm) /\ Sound(Mm) /\ Mm.fds = fds /\ Cardinality(Fds \ fds) >= 3
    BY <1>1, RunningSound
  <1>3. Cardinality(Fds \ Mm.fds) >= 2
    <2>1. 2 \in Nat /\ Cardinality(Fds \ fds) >= 2 + 1 BY <1>2
    <2> QED BY <1>2, <2>1, SpareAfterOne
  <1>4. HostInv(Mm.areas, Mm.host, {}, N) BY <1>1 DEF HostRun, Running, Mm
  <1>5. HostInv(Munmap(Mm, a, length).areas, Munmap(Mm, a, length).host, {}, N)
    BY <1>1, <1>2, <1>3, <1>4, MunmapHost
  <1> QED BY <1>1, <1>5, CommitHost

\* syscall_brk: moving the end back would leave entries behind.
LEMMA BrkGrowHost ==
  ASSUME HostCallsReal, IInv, Running, NEW N, HostRun(N), NEW b \in Addr, BrkGrow(b),
         N = Pages \/ HeapEndsAtBreak
  PROVE  HostRun(N)'
  <1> DEFINE e == PAGE_ALIGN(b)
  <1>1. PICK r, g, k :
           /\ r \in areas /\ r = HeapVma(Mm) /\ r.start = heap /\ heap \in Addr
           /\ g = [r EXCEPT !.end = e] /\ AreaTypeOK(g) /\ r.start < e
           /\ MmTypeOK(k) /\ k.areas = (areas \ {r}) \cup {g} /\ k.host = host
           /\ Commit(MapVma(k, g))
    BY BrkGrowStages
  <1>2. MmTypeOK(Mm) /\ Mm.areas = areas /\ Mm.host = host BY RunningSound DEF Mm
  <1>3. AreaTypeOK(r) BY <1>1, <1>2 DEF MmTypeOK
  <1>4. /\ g.hv = r.hv /\ g.prot = r.prot /\ g.file = r.file
        /\ g.start = r.start /\ g.end = e
    BY <1>1, <1>3 DEF AreaTypeOK
  <1>5. /\ HostInv(areas, host, {}, N) /\ HostInv(Mm.areas, Mm.host, {}, N)
        /\ r \in Mm.areas /\ AreaTypeOK(g) /\ MmTypeOK(k)
        /\ k.areas = (Mm.areas \ {r}) \cup {g} /\ k.host = Mm.host
    BY <1>1, <1>2 DEF HostRun, Running
  <1>6. /\ e \in Addr /\ e \in Int /\ r.start \in Int /\ r.end \in Int /\ b \in Int
        /\ WORD \in Int /\ PAGE_SIZE \in Int
    BY <1>3, PageAlignType, PageAssumption DEF AreaTypeOK, Addr
  <1>7. CASE r.end <= e
    <2>1. g.start <= r.start /\ r.end <= g.end /\ g.start <= g.end
      BY <1>1, <1>4, <1>6, <1>7
    <2>2. HostInv(MapVma(k, g).areas, MapVma(k, g).host, {}, N)
      BY <1>2, <1>4, <1>5, <2>1, GrownMapped
    <2> QED BY <1>1, <2>2, CommitHost
  <1>8. CASE N = Pages /\ e < r.end
    <2>1. g.start <= g.end /\ g.end <= r.end BY <1>1, <1>4, <1>6, <1>8
    <2>2. HostInv((Mm.areas \ {r}) \cup {g}, Mm.host, {g}, Pages)
      BY <1>3, <1>4, <1>5, <2>1, ShrunkHost
    <2>3. HostInv(k.areas, k.host, {g}, Pages) /\ g \in k.areas BY <1>5, <2>2
    <2>4. HostInv(MapVma(k, g).areas, MapVma(k, g).host, {g} \ {g}, Rest(Pages, g))
      BY <1>5, <2>1, <2>3, MapVmaHost
    <2>5. {g} \ {g} = {} /\ Rest(Pages, g) \subseteq Pages BY DEF Rest
    <2>6. HostInv(MapVma(k, g).areas, MapVma(k, g).host, {}, N)
      BY <1>8, <2>4, <2>5, MorePages
    <2> QED BY <1>1, <2>6, CommitHost
  <1>9. CASE N # Pages /\ e < r.end
    <2>1. r.end <= e BY <1>1, <1>9, BrkMovesUp
    <2> QED BY <1>6, <1>9, <2>1
  <1> QED BY <1>6, <1>7, <1>8, <1>9

\* syscall_brk.
LEMMA SysBrkHost ==
  ASSUME HostCallsReal, IInv, NEW N, HostRun(N), NEW b \in Addr, SysBrk(b),
         N = Pages \/ HeapEndsAtBreak
  PROVE  HostRun(N)'
  <1>1. Running BY DEF SysBrk
  <1>2. /\ MmTypeOK(Mm) /\ Sound(Mm) /\ Mm.fds = fds /\ Cardinality(Fds \ fds) >= 3
    BY <1>1, RunningSound
  <1>3. CASE BrkStart
    <2> DEFINE n == FirstHeapArea
               R == MmapRegion(Mm, n, PAGE_SIZE)
               w == [R.m EXCEPT !.heap = R.at]
    <2>1. Commit(w) BY <1>3 DEF BrkStart
    <2>2. /\ PAGE_SIZE \in Addr /\ user_heap_start \in Addr /\ 0 \in Addr
          /\ user_heap_start + PAGE_SIZE \in Addr
      BY PageAssumption, LayoutAssumption DEF Addr
    <2>3. /\ AreaTypeOK(n) /\ n.start = user_heap_start
          /\ n.end = user_heap_start + PAGE_SIZE
      BY <2>2, PageAssumption DEF FirstHeapArea, AreaTypeOK, NoFile, NoFd, Fds
    <2>4. NewHv(n) BY <2>2 DEF NewHv, HvType, FirstHeapArea, NoFile, Hole
    <2> HIDE DEF n
    <2>5. n.end = Add(n.start, PAGE_SIZE)
      BY <2>2, <2>3, PageAssumption DEF Add, Addr
    <2>6. Cardinality(Fds \ Mm.fds) >= 2
      <3>1. 2 \in Nat /\ Cardinality(Fds \ fds) >= 2 + 1 BY <1>2
      <3> QED BY <1>2, <3>1, SpareAfterOne
    <2>7. HostInv(Mm.areas, Mm.host, {}, N) BY <1>1 DEF HostRun, Running, Mm
    <2>8. R.m.status = "corrupt" \/ HostInv(R.m.areas, R.m.host, {}, N)
      BY <1>2, <2>2, <2>3, <2>4, <2>5, <2>6, <2>7, MmapRegionHost
    <2>9. MmTypeOK(R.m)
      BY <1>2, <2>2, <2>3, <2>5, <2>6, MmapRegionSound DEF Placed
    <2> HIDE DEF R
    <2>10. w.areas = R.m.areas /\ w.host = R.m.host /\ w.status = R.m.status
      BY <2>9 DEF MmTypeOK, IsMm
    <2> HIDE DEF w
    <2> QED BY <2>1, <2>8, <2>10, CommitHost
  <1>4. CASE BrkNullHeap(b) \/ BrkDangling(b)
    <2>1. status' \in {"exit", "wild"} BY <1>4 DEF BrkNullHeap, BrkDangling
    <2> QED BY <2>1 DEF HostRun
  <1>5. CASE BrkGrow(b) BY <1>1, <1>5, BrkGrowHost
  <1> QED BY <1>3, <1>4, <1>5 DEF SysBrk

\* The page fault handler.
LEMMA UserPageFaultHost ==
  ASSUME HostCallsReal, IInv, NEW N, HostRun(N), NEW a \in Addr, UserPageFault(a)
  PROVE  HostRun(N)'
  <1>1. Running BY DEF UserPageFault
  <1>2. CASE FaultIsFatal(a)
    <2>1. status' = "exit" BY <1>2 DEF UserPageFault
    <2> QED BY <2>1 DEF HostRun
  <1>3. CASE ~FaultIsFatal(a)
    <2> DEFINE s == GrownStart(a)
    <2>1. Commit(GrowStack(Mm, VmaFind(areas, a), a)) BY <1>3 DEF UserPageFault
    <2>2. PICK r, g, k :
             /\ r \in areas /\ a < r.start /\ s \in Addr /\ s <= a
             /\ g = [r EXCEPT !.start = s] /\ AreaTypeOK(g)
             /\ MmTypeOK(k) /\ k.areas = (areas \ {r}) \cup {g} /\ k.host = host
             /\ Commit(MapVma(k, g))
      BY <1>1, <1>3, <2>1, GrowStages
    <2>3. MmTypeOK(Mm) /\ Mm.areas = areas /\ Mm.host = host /\ Sound(Mm)
      BY <1>1, RunningSound DEF Mm
    <2>4. AreaTypeOK(r) /\ r.start < r.end BY <2>2, <2>3 DEF MmTypeOK, Sound, WellFormed
    <2>5. /\ g.hv = r.hv /\ g.prot = r.prot /\ g.file = r.file
          /\ g.start = s /\ g.end = r.end
      BY <2>2, <2>4 DEF AreaTypeOK
    <2>6. s \in Int /\ a \in Int /\ r.start \in Int /\ r.end \in Int
      BY <2>2, <2>4, PageAssumption DEF AreaTypeOK, Addr
    <2>7. /\ HostInv(Mm.areas, Mm.host, {}, N) /\ r \in Mm.areas
          /\ AreaTypeOK(g) /\ MmTypeOK(k)
          /\ k.areas = (Mm.areas \ {r}) \cup {g} /\ k.host = Mm.host
      BY <1>1, <2>2, <2>3 DEF HostRun, Running
    <2>8. g.start <= r.start /\ r.end <= g.end /\ g.start <= g.end
      BY <2>2, <2>4, <2>5, <2>6
    <2>9. HostInv(MapVma(k, g).areas, MapVma(k, g).host, {}, N)
      BY <2>3, <2>5, <2>7, <2>8, GrownMapped
    <2> QED BY <2>2, <2>9, CommitHost
  <1> QED BY <1>2, <1>3

\* Every step keeps the agreement.
LEMMA HostStep ==
  ASSUME HostCallsReal, NEW N
  PROVE  IInv /\ HostRun(N) /\ (N = Pages \/ HeapEndsAtBreak) /\ [Next]_vars => HostRun(N)'
  <1> SUFFICES ASSUME IInv, HostRun(N), N = Pages \/ HeapEndsAtBreak, [Next]_vars
               PROVE  HostRun(N)'
    OBVIOUS
  <1>1. ASSUME NEW c \in MmapCalls, SysMmap(c) PROVE HostRun(N)' BY <1>1, SysMmapHost
  <1>2. ASSUME NEW u \in MunmapCalls, SysMunmap(u[1], u[2]) PROVE HostRun(N)'
    <2>1. u[1] \in Addr /\ u[2] \in Addr BY CallsAssumption
    <2> QED BY <1>2, <2>1, SysMunmapHost
  <1>3. ASSUME NEW b \in BrkCalls, SysBrk(b) PROVE HostRun(N)'
    <2>1. b \in Addr BY CallsAssumption
    <2> QED BY <1>3, <2>1, SysBrkHost
  <1>4. ASSUME NEW a \in Touched, UserPageFault(a) PROVE HostRun(N)'
    <2>1. a \in Addr BY CallsAssumption
    <2> QED BY <1>4, <2>1, UserPageFaultHost
  <1>5. CASE UNCHANGED vars BY <1>5 DEF vars, HostRun
  <1> QED BY <1>1, <1>2, <1>3, <1>4, <1>5 DEF Next

\* Init.
LEMMA HostStart ==
  ASSUME NEW N
  PROVE  Init => HostRun(N)
  <1>1. HostInv(BootAreas, BootHost, {}, N) BY BootHostAssumption, MorePages
  <1> QED BY <1>1 DEF Init, HostRun

\* Whatever moved the bounds of an area, the host has mapped it there before
\* the call returns (kernel_map_vma after every change of an area).
THEOREM HostAlwaysKnowsBounds ==
  ASSUME HostCallsReal
  PROVE  Spec => []HostKnowsBounds
  <1>1. HostRun(Pages) => HostKnowsBounds
    BY DEF HostRun, HostInv, Mapped, HostKnowsBounds
  <1>2. Init => HostRun(Pages) BY HostStart
  <1>3. IInv /\ HostRun(Pages) /\ [Next]_vars => HostRun(Pages)' BY HostStep
  <1> QED BY <1>1, <1>2, <1>3, IInvInit, IInvStep, PTL DEF Spec

\* No two areas share a frame, none is backed by memory that was moved away,
\* and remap_region always finds its source.
THEOREM FramesStayPrivate ==
  ASSUME HostCallsReal
  PROVE  Spec => []FramesPrivate
  <1>1. IInv /\ HostRun(Pages) => FramesPrivate
    <2> SUFFICES ASSUME IInv, HostRun(Pages), status = "run" PROVE FramesPrivate
      BY DEF FramesPrivate
    <2>1. HostInv(areas, host, {}, Pages) BY DEF HostRun
    <2>2. \A r \in areas : AreaTypeOK(r) BY DEF IInv, MmTypeOK, Mm
    <2>3. ~host.stuck BY <2>1 DEF HostInv
    <2>4. ASSUME NEW r \in areas
          PROVE  /\ Mapped(r) /\ Held(r) = AreaPages(r) /\ r.hv.phys \in Int
                 /\ Page(r.start) \in Nat /\ Page(r.end) \in Nat
      BY <2>1, <2>2, MappedHeld, PageType DEF HostInv, HvType, AreaTypeOK
    <2>5. ASSUME NEW r \in areas, NEW p \in Pages, p \in AreaPages(r)
          PROVE  LET f == r.hv.phys + p - Page(r.start)
                 IN  /\ host.mem[f] # Hole
                     /\ \A q \in areas \ {r} :
                          f \notin q.hv.phys .. q.hv.phys + Page(q.end) - Page(q.start) - 1
      <3> DEFINE f == r.hv.phys + p - Page(r.start)
      <3>1. f = OldFrame(r, p) /\ p \in Held(r)
        BY <2>4, <2>5 DEF OldFrame, Mapped
      <3>2. host.mem[f] # Hole BY <2>1, <3>1 DEF HostInv, Private
      <3>3. ASSUME NEW q \in areas \ {r},
                   f \in q.hv.phys .. q.hv.phys + Page(q.end) - Page(q.start) - 1
            PROVE  FALSE
        <4> DEFINE s == f - q.hv.phys + Page(q.start)
        <4>1. /\ q.hv.phys \in Int /\ Page(q.start) \in Nat /\ Page(q.end) \in Nat
              /\ Mapped(q) /\ Held(q) = AreaPages(q) /\ f \in Int
          BY <2>4, <3>3
        <4>2. s \in AreaPages(q) BY <3>3, <4>1 DEF AreaPages, PagesIn
        <4>3. OldFrame(q, s) = f BY <4>1 DEF OldFrame, Mapped
        <4> HIDE DEF s, f
        <4> QED BY <2>1, <3>1, <4>1, <4>2, <4>3 DEF HostInv, Private
      <3> QED BY <3>2, <3>3
    <2> QED BY <2>3, <2>5 DEF FramesPrivate
  <1>2. Init => HostRun(Pages) BY HostStart
  <1>3. IInv /\ HostRun(Pages) /\ [Next]_vars => HostRun(Pages)' BY HostStep
  <1> QED BY <1>1, <1>2, <1>3, IInvInit, IInvStep, PTL DEF Spec

\* A page table entry is always that of the area covering its page, as long
\* as brk never moves the end of the heap area back: syscall_brk does not
\* clear the entries it would leave behind.
THEOREM PageTableStaysSound ==
  ASSUME HostCallsReal
  PROVE  Spec /\ []HeapEndsAtBreak => []PageTableSound
  <1>1. HostRun({}) => PageTableSound
    <2> SUFFICES ASSUME HostRun({}), status = "run", NEW p \in Pages, host.pt[p] # NoEntry
                 PROVE  \E r \in areas :
                          /\ p \in AreaPages(r)
                          /\ host.pt[p].frame = r.hv.phys + p - Page(r.start)
                          /\ host.pt[p].bits = VmaProtToPg(r.prot)
      BY DEF PageTableSound
    <2>1. HostInv(areas, host, {}, {}) BY DEF HostRun
    <2>2. PICK r \in areas : EntryOf(host, p, r) BY <2>1 DEF HostInv, Entries
    <2>3. Mapped(r) BY <2>1 DEF HostInv
    <2>4. /\ p \in AreaPages(r) /\ host.pt[p].bits = VmaProtToPg(r.prot)
          /\ host.pt[p].frame = r.hv.phys + p - Page(r.start)
      BY <2>2, <2>3 DEF EntryOf, Held, OldFrame, Mapped
    <2> QED BY <2>4
  <1>2. Init => HostRun({}) BY HostStart
  <1>3. IInv /\ HostRun({}) /\ HeapEndsAtBreak /\ [Next]_vars => HostRun({})' BY HostStep
  <1> QED BY <1>1, <1>2, <1>3, IInvInit, IInvStep, PTL DEF Spec

\* For ordinary programs that map nothing with MAP_GROWSDOWN the page table is
\* sound with nothing assumed of their break: the guest's areas, the merges
\* and splits of vma.c and the host's kernel_map_vma together leave no entry
\* without its area.
THEOREM HeapApartPageTable ==
  ASSUME HostCallsReal, OrdinaryCalls, HeapApart
  PROVE  Spec => []PageTableSound
  BY HeapStaysAtBreak, PageTableStaysSound, PTL
===========================================================================
