------------------------------ MODULE HeapProofs ------------------------------
(* Proofs about Heap: however blocks are taken, resized and given back,     *)
(* they stay apart, their pages stay with the program and every count and   *)
(* total is that of the live blocks, for every page size, header, set of    *)
(* sizes and set of alignments.                                             *)
(*                                                                         *)
(* The argument is about a heap record h and the set L of the extents       *)
(* (page, offset, size) that the program holds in its pages.  i_malloc adds *)
(* an extent, i_free removes one, and i_realloc does the first and then the *)
(* second, so HeapOK(h, L) is stated for any h and L and its preservation   *)
(* proved once per allocator function; the actions follow.                  *)
EXTENDS Heap, FiniteSetTheorems, FunctionTheorems, WellFoundedInduction, TLAPS

Extent == [page : Pages, at : Nat, size : Nat]

In(L, p) == {e \in L : e.page = p}

Apart(e, f) == e.at + e.size + Ptr <= f.at \/ f.at + f.size + Ptr <= e.at

(* The extents are inside the used part of live pages and apart. *)
Placed(h, L) ==
  /\ \A e \in L : e.page \in h.live /\ Header <= e.at /\ e.at + e.size + Ptr <= h.offset[e.page]
  /\ \A e, f \in L : e # f /\ e.page = f.page => Apart(e, f)

(* A page is counted by the extents in it, and used up to its offset.       *)
Counted(h, L) ==
  /\ \A p \in h.live : h.allocs[p] = Cardinality(In(L, p)) /\ h.offset[p] <= PageSize
  /\ \A p \in h.live : p # h.current => In(L, p) # {}
  /\ In(L, h.current) = {} => h.offset[h.current] = Header

HeapOK(h, L) ==
  /\ h \in HeapType /\ L \subseteq Extent /\ IsFiniteSet(L)
  /\ h.current \in h.live
  /\ Placed(h, L) /\ Counted(h, L)

-----------------------------------------------------------------------------
(* Rounding up to the alignment adds less than the alignment: the size test *)
(* of i_malloc leaves room for the padding.                                 *)
LEMMA AlignUpBound ==
  ASSUME NEW o \in Nat, NEW a \in Nat \ {0}
  PROVE  AlignUp(o, a) \in Nat /\ o <= AlignUp(o, a) /\ AlignUp(o, a) < o + a
<1>1. o % a \in 0..(a - 1)
  OBVIOUS
<1> QED BY <1>1 DEF AlignUp

(* The extents of one page are finitely many; adding or removing one extent *)
(* changes the count of its page by one and of no other page.               *)
LEMMA InFinite ==
  ASSUME NEW L, IsFiniteSet(L), NEW p
  PROVE  IsFiniteSet(In(L, p)) /\ Cardinality(In(L, p)) \in Nat
         /\ (Cardinality(In(L, p)) = 0 <=> In(L, p) = {})
<1>1. In(L, p) \subseteq L
  BY DEF In
<1>2. IsFiniteSet(In(L, p))
  BY <1>1, FS_Subset
<1> QED BY <1>2, FS_CardinalityType, FS_EmptySet

(* An extent more.                                                          *)
LEMMA InAdd ==
  ASSUME NEW L, IsFiniteSet(L), NEW e, e \notin L, NEW p
  PROVE  Cardinality(In(L \cup {e}, p)) =
           IF e.page = p THEN Cardinality(In(L, p)) + 1 ELSE Cardinality(In(L, p))
<1>1. IsFiniteSet(In(L, p))
  BY InFinite
<1>2. CASE e.page = p
  <2>1. In(L \cup {e}, p) = In(L, p) \cup {e} /\ e \notin In(L, p)
    BY <1>2 DEF In
  <2> QED BY ZenonT(60), <1>1, <1>2, <2>1, FS_AddElement
<1>3. CASE e.page # p
  <2>1. In(L \cup {e}, p) = In(L, p)
    BY <1>3 DEF In
  <2> QED BY <1>3, <2>1
<1> QED BY <1>2, <1>3

(* An extent less.                                                          *)
LEMMA InRemove ==
  ASSUME NEW L, IsFiniteSet(L), NEW e \in L, NEW p
  PROVE  Cardinality(In(L \ {e}, p)) =
           IF e.page = p THEN Cardinality(In(L, p)) - 1 ELSE Cardinality(In(L, p))
<1>1. IsFiniteSet(In(L, p))
  BY InFinite
<1>2. CASE e.page = p
  <2>1. In(L \ {e}, p) = In(L, p) \ {e} /\ e \in In(L, p)
    BY <1>2 DEF In
  <2> QED BY <1>1, <1>2, <2>1, FS_RemoveElement
<1>3. CASE e.page # p
  <2>1. In(L \ {e}, p) = In(L, p)
    BY <1>3 DEF In
  <2> QED BY <1>3, <2>1
<1> QED BY <1>2, <1>3

-----------------------------------------------------------------------------
(* i_new_page keeps the heap in order when the page it replaces is in use.  *)
LEMMA NewPageLemma ==
  ASSUME NEW h, NEW L, HeapOK(h, L), NEW p \in Pages \ h.live, In(L, h.current) # {}
  PROVE  /\ HeapOK(NewPage(h, p), L)
         /\ NewPage(h, p).current = p /\ NewPage(h, p).offset[p] = Header
<1> DEFINE g == NewPage(h, p)
<1>0. h \in HeapType /\ h.current \in h.live /\ h.live \subseteq Pages /\ h.current # p
  BY DEF HeapOK, HeapType
<1>1. g \in HeapType /\ g.live = h.live \cup {p} /\ g.current = p /\ g.offset[p] = Header
      /\ g.allocs[p] = 0
  BY <1>0, HeapAssumption DEF HeapAssumption, HeapType, NewPage
<1>2. \A q \in h.live : q # p /\ g.allocs[q] = h.allocs[q] /\ g.offset[q] = h.offset[q]
  BY <1>0 DEF HeapType, NewPage
<1>3. In(L, p) = {}
  BY DEF HeapOK, Placed, In
<1>4. Placed(g, L)
  BY <1>1, <1>2 DEF HeapOK, Placed
<1>5. Cardinality(In(L, p)) = 0
  BY <1>3, FS_EmptySet
<1>6. Header <= PageSize
  BY HeapAssumption DEF HeapAssumption
<1>7. \A q \in g.live : g.allocs[q] = Cardinality(In(L, q)) /\ g.offset[q] <= PageSize
  BY <1>1, <1>2, <1>5, <1>6 DEF HeapOK, Counted
<1>8. \A q \in g.live : q # g.current => In(L, q) # {}
  BY <1>1, <1>2 DEF HeapOK, Counted
<1>9. Counted(g, L)
  BY <1>1, <1>7, <1>8 DEF Counted
<1> QED BY <1>1, <1>4, <1>9 DEF HeapOK

(* A block carved at or behind the offset of the current page is apart from *)
(* every other.                                                             *)
LEMMA CarveLemma ==
  ASSUME NEW h, NEW L, HeapOK(h, L), NEW s \in Nat, NEW o \in Nat,
         h.offset[h.current] <= o, Header <= o, o + s + Ptr <= PageSize,
         NEW e, e = [page |-> h.current, at |-> o, size |-> s]
  PROVE  e \notin L /\ HeapOK(Carve(h, s, o), L \cup {e})
<1> DEFINE g == Carve(h, s, o)
           M == L \cup {e}
<1>0. h \in HeapType /\ h.current \in h.live /\ h.live \subseteq Pages /\ Ptr \in Nat \ {0}
      /\ Header \in Nat /\ PageSize \in Nat /\ h.current \in Pages
  BY HeapAssumption DEF HeapAssumption, HeapOK, HeapType
<1>1. g \in HeapType /\ g.live = h.live /\ g.current = h.current
      /\ g.offset[h.current] = o + s + Ptr /\ g.allocs[h.current] = h.allocs[h.current] + 1
  <2> DEFINE al == [h.allocs EXCEPT ![h.current] = @ + 1]
             us == [h.used EXCEPT ![h.current] = @ + s]
             of == [h.offset EXCEPT ![h.current] = o + s + Ptr]
  <2>1. al \in [Pages -> Nat] /\ al[h.current] = h.allocs[h.current] + 1
    BY <1>0 DEF HeapType
  <2>2. us \in [Pages -> Int]
    BY <1>0 DEF HeapType
  <2>3. of \in [Pages -> Nat] /\ of[h.current] = o + s + Ptr
    BY <1>0 DEF HeapType
  <2>4. g = [h EXCEPT !.allocs = al, !.used = us, !.offset = of]
    BY DEF Carve
  <2> HIDE DEF al, us, of, g
  <2> QED BY <1>0, <2>1, <2>2, <2>3, <2>4 DEF HeapType
<1>2. \A q \in Pages : q # h.current => g.allocs[q] = h.allocs[q] /\ g.offset[q] = h.offset[q]
  BY <1>0 DEF HeapType, Carve
<1>3. e \in Extent /\ e.page = h.current /\ e.at = o /\ e.size = s
  BY <1>0 DEF Extent
<1>4. \A f \in L : /\ f \in Extent /\ f.page \in h.live /\ Header <= f.at
                   /\ f.at + f.size + Ptr <= h.offset[f.page]
  BY DEF HeapOK, Placed
<1>5. \A f \in L : f.page = e.page => f.at + f.size + Ptr <= o
  BY <1>0, <1>3, <1>4 DEF Extent, HeapType
<1>6. e \notin L
  <2> SUFFICES ASSUME e \in L PROVE FALSE
    OBVIOUS
  <2>1. o + s + Ptr <= o
    BY <1>3, <1>5
  <2> QED BY <1>0, <2>1
<1>7. M \subseteq Extent /\ IsFiniteSet(M)
  BY <1>3, FS_AddElement DEF HeapOK
<1>8. \A f \in M : f.page \in g.live /\ Header <= f.at /\ f.at + f.size + Ptr <= g.offset[f.page]
  <2> TAKE f \in M
  <2>1. CASE f = e
    BY <1>0, <1>1, <1>3, <2>1
  <2>2. CASE f \in L /\ f.page = h.current
    BY <1>0, <1>1, <1>3, <1>4, <1>5, <2>2 DEF Extent
  <2>3. CASE f \in L /\ f.page # h.current
    BY <1>0, <1>1, <1>2, <1>4, <2>3
  <2> QED BY <2>1, <2>2, <2>3
<1>9. \A f1, f2 \in M : f1 # f2 /\ f1.page = f2.page => Apart(f1, f2)
  <2>1. \A f \in L : f.page = e.page => Apart(f, e) /\ Apart(e, f)
    BY <1>3, <1>5 DEF Apart
  <2>2. \A f1, f2 \in L : f1 # f2 /\ f1.page = f2.page => Apart(f1, f2)
    BY DEF HeapOK, Placed
  <2> QED BY <2>1, <2>2
<1>10. \A q \in g.live : g.allocs[q] = Cardinality(In(M, q)) /\ g.offset[q] <= PageSize
  <2> TAKE q \in g.live
  <2>1. Cardinality(In(M, q)) =
          IF e.page = q THEN Cardinality(In(L, q)) + 1 ELSE Cardinality(In(L, q))
    BY <1>6, InAdd DEF HeapOK
  <2>2. h.allocs[q] = Cardinality(In(L, q)) /\ h.offset[q] <= PageSize
    BY <1>1 DEF HeapOK, Counted
  <2>3. CASE q = h.current
    BY <1>1, <1>3, <2>1, <2>2, <2>3
  <2>4. CASE q # h.current
    BY <1>0, <1>1, <1>2, <1>3, <2>1, <2>2, <2>4
  <2> QED BY <2>3, <2>4
<1>11. \A q \in g.live : In(M, q) # {}
  <2> TAKE q \in g.live
  <2>1. q # h.current => In(L, q) # {}
    BY <1>1 DEF HeapOK, Counted
  <2>2. In(L, q) \subseteq In(M, q)
    BY DEF In
  <2>3. e \in In(M, h.current)
    BY <1>3 DEF In
  <2> QED BY <2>1, <2>2, <2>3
<1>12. Placed(g, M)
  BY <1>8, <1>9 DEF Placed
<1>13. Counted(g, M)
  BY <1>0, <1>1, <1>10, <1>11 DEF Counted
<1> QED BY <1>0, <1>1, <1>6, <1>7, <1>12, <1>13 DEF HeapOK
(* i_malloc on a heap in order: the new block is apart from the others.     *)
LEMMA MallocLemma ==
  ASSUME NEW h, NEW L, HeapOK(h, L), NEW s \in Nat, NEW a \in Nat \ {0}, Paged(s, a),
         NEW r \in MallocPaged(h, s, a),
         NEW e, e = [page |-> r.heap.current, at |-> r.at, size |-> s]
  PROVE  e \notin L /\ HeapOK(r.heap, L \cup {e})
<1> DEFINE o == CurrentOffset(h, a)
<1>0. h.offset[h.current] \in Nat /\ h.current \in h.live
      /\ Ptr \in Nat \ {0} /\ Header \in Nat /\ PageSize \in Nat
  BY HeapAssumption DEF HeapAssumption, HeapOK, HeapType
<1>1. o \in Nat /\ h.offset[h.current] <= o /\ o < h.offset[h.current] + a
  BY <1>0, AlignUpBound DEF CurrentOffset
<1>2. s + a + Header + Ptr < PageSize
  BY DEF Paged
<1> HIDE DEF o
<1>3. CASE FitsCurrent(h, s, a) /\ Header <= o
  <2>1. r.heap = Carve(h, s, o) /\ r.at = o
    BY <1>3 DEF MallocPaged, o
  <2>2. r.heap.current = h.current
    BY <2>1 DEF Carve, HeapOK, HeapType
  <2>3. o + s + Ptr <= PageSize
    BY <1>0, <1>1, <1>3 DEF FitsCurrent, o
  <2>4. e = [page |-> h.current, at |-> o, size |-> s]
    BY <2>1, <2>2
  <2> QED BY <1>1, <1>3, <2>1, <2>3, <2>4, CarveLemma
<1>4. CASE ~FitsCurrent(h, s, a)
  <2>1. PICK p \in Pages \ h.live :
          r.heap = Carve(NewPage(h, p), s, FirstOffset(a)) /\ r.at = FirstOffset(a)
    BY <1>4 DEF MallocPaged
  <2> DEFINE g == NewPage(h, p)
  <2>2. ~(o + s + Ptr < PageSize)
    BY <1>4 DEF FitsCurrent, o
  <2>3. h.offset[h.current] # Header
    BY <1>0, <1>1, <1>2, <2>2
  <2>4. In(L, h.current) # {}
    BY <2>3 DEF HeapOK, Counted
  <2>5. HeapOK(g, L) /\ g.current = p /\ g.offset[p] = Header
    BY <2>4, NewPageLemma
  <2>6. Header % a \in 0..(a - 1)
    BY <1>0
  <2>7. /\ FirstOffset(a) \in Nat /\ Header <= FirstOffset(a)
        /\ FirstOffset(a) + s + Ptr <= PageSize
    BY <1>0, <1>2, <2>6 DEF FirstOffset
  <2> HIDE DEF g
  <2>8. r.heap = Carve(g, s, FirstOffset(a))
    BY <2>1 DEF g
  <2>9. r.heap.current = g.current
    BY <2>5, <2>8 DEF Carve, HeapOK, HeapType
  <2>10. e = [page |-> g.current, at |-> FirstOffset(a), size |-> s]
    BY <2>1, <2>9
  <2> QED BY <2>5, <2>7, <2>8, <2>10, CarveLemma
<1>5. CASE FitsCurrent(h, s, a) /\ ~(Header <= o)
  <2>1. In(L, h.current) # {}
    BY <1>0, <1>1, <1>5 DEF HeapOK, Counted
  <2>2. PICK f \in L : f.page = h.current
    BY <2>1 DEF In
  <2>3. f \in Extent /\ Header <= f.at /\ f.at + f.size + Ptr <= h.offset[h.current]
    BY <2>2 DEF HeapOK, Placed
  <2>4. f.at \in Nat /\ f.size \in Nat
    BY <2>3 DEF Extent
  <2> QED BY <1>0, <1>1, <1>5, <2>3, <2>4
<1> QED BY <1>3, <1>4, <1>5

-----------------------------------------------------------------------------
(* i_free on a heap in order: the others stay where they are, and the page  *)
(* goes back to the system exactly when none of them is in it.              *)
LEMMA FreeLemma ==
  ASSUME NEW h, NEW L, HeapOK(h, L), NEW e \in L
  PROVE  HeapOK(FreePaged(h, e.page, e.size), L \ {e})
<1> DEFINE p == e.page
           M == L \ {e}
           al == [h.allocs EXCEPT ![p] = @ - 1]
           us == [h.used EXCEPT ![p] = @ - e.size]
           g == [h EXCEPT !.allocs = al, !.used = us]
<1>0. h \in HeapType /\ h.current \in h.live /\ h.live \subseteq Pages /\ IsFiniteSet(L)
      /\ Header \in Nat /\ PageSize \in Nat /\ Header <= PageSize
  BY HeapAssumption DEF HeapAssumption, HeapOK, HeapType
<1>1. p \in h.live /\ p \in Pages /\ e.size \in Nat
  BY <1>0 DEF HeapOK, Placed, Extent
<1>2. M \subseteq Extent /\ IsFiniteSet(M)
  BY FS_RemoveElement DEF HeapOK
<1>3. \A q \in h.live : Cardinality(In(M, q)) =
        IF p = q THEN Cardinality(In(L, q)) - 1 ELSE Cardinality(In(L, q))
  BY <1>0, InRemove
<1>4. \A q : /\ IsFiniteSet(In(M, q)) /\ Cardinality(In(M, q)) \in Nat
             /\ (Cardinality(In(M, q)) = 0 <=> In(M, q) = {})
  BY <1>2, InFinite
<1>5. \A q \in h.live : al[q] = Cardinality(In(M, q))
  <2>1. \A q \in h.live : h.allocs[q] = Cardinality(In(L, q))
    BY DEF HeapOK, Counted
  <2> QED BY <1>0, <1>1, <1>3, <2>1 DEF HeapType
<1>6. al \in [Pages -> Nat]
  BY <1>0, <1>1, <1>4, <1>5 DEF HeapType
<1>7. us \in [Pages -> Int]
  BY <1>0, <1>1 DEF HeapType
<1> HIDE DEF al, us
<1>8. /\ g \in HeapType /\ g.live = h.live /\ g.current = h.current /\ g.offset = h.offset
      /\ g.allocs = al /\ g.used = us /\ g.next = h.next /\ g.prev = h.prev
  BY <1>0, <1>6, <1>7 DEF HeapType
<1>9. FreePaged(h, p, e.size) =
        IF g.allocs[p] # 0 THEN g
        ELSE IF p # h.current THEN Unlink(g, p)
        ELSE [g EXCEPT !.used[p] = 0, !.offset[p] = Header]
  BY DEF FreePaged, al, us
<1> HIDE DEF g
<1>10. \A f \in M : /\ f.page \in h.live /\ Header <= f.at
                    /\ f.at + f.size + Ptr <= h.offset[f.page]
  BY DEF HeapOK, Placed
<1>11. \A f1, f2 \in M : f1 # f2 /\ f1.page = f2.page => Apart(f1, f2)
  BY DEF HeapOK, Placed
<1>12. \A q \in h.live : h.offset[q] <= PageSize
  BY DEF HeapOK, Counted
<1>13. \A q \in h.live : q # p => In(M, q) = In(L, q)
  BY DEF In
<1>14. CASE g.allocs[p] # 0
  <2>1. In(M, p) # {}
    BY <1>1, <1>4, <1>5, <1>8, <1>14
  <2>2. Placed(g, M)
    BY <1>8, <1>10, <1>11 DEF Placed
  <2>3. \A q \in h.live : q # h.current => In(M, q) # {}
    BY <1>13, <2>1 DEF HeapOK, Counted
  <2>4. In(M, h.current) = {} => h.offset[h.current] = Header
    BY <1>0, <1>13, <2>1 DEF HeapOK, Counted
  <2>5. Counted(g, M)
    BY <1>5, <1>8, <1>12, <2>3, <2>4 DEF Counted
  <2> QED BY <1>0, <1>2, <1>8, <1>9, <1>14, <2>2, <2>5 DEF HeapOK
<1>15. g.allocs[p] = 0 => In(M, p) = {}
  BY <1>1, <1>4, <1>5, <1>8
<1>16. CASE g.allocs[p] = 0 /\ p # h.current
  <2> DEFINE u == Unlink(g, p)
             of == [h.offset EXCEPT ![p] = 0]
  <2>1. of \in [Pages -> Nat] /\ \A q \in Pages : q # p => of[q] = h.offset[q]
    BY <1>0, <1>1 DEF HeapType
  <2> HIDE DEF of
  <2>2. /\ u.live = h.live \ {p} /\ u.current = h.current /\ u.allocs = al /\ u.offset = of
        /\ u \in HeapType
    <3> DEFINE pr == [q \in Pages |-> IF q = p THEN NULL
                        ELSE IF q = g.next[p] THEN g.prev[p] ELSE g.prev[q]]
               nx == [q \in Pages |-> IF q = p THEN NULL
                        ELSE IF q = g.prev[p] THEN g.next[p] ELSE g.next[q]]
    <3>1. pr \in [Pages -> Pages \cup {NULL}] /\ nx \in [Pages -> Pages \cup {NULL}]
      BY <1>1, <1>8 DEF HeapType
    <3>2. u = [g EXCEPT !.live = h.live \ {p}, !.offset = of, !.prev = pr, !.next = nx]
      BY <1>8 DEF Unlink, of
    <3> HIDE DEF pr, nx, u
    <3> QED BY <1>0, <1>8, <2>1, <3>1, <3>2 DEF HeapType
  <2> HIDE DEF u
  <2>3. \A f \in M : f.page # p
    BY <1>15, <1>16 DEF In
  <2>4. Placed(u, M)
    BY <1>0, <1>10, <1>11, <2>1, <2>2, <2>3 DEF Placed
  <2>5. \A q \in u.live : u.allocs[q] = Cardinality(In(M, q)) /\ u.offset[q] <= PageSize
    BY <1>0, <1>5, <1>12, <2>1, <2>2
  <2>6. \A q \in u.live : q # u.current => In(M, q) # {}
    BY <1>13, <2>2 DEF HeapOK, Counted
  <2>7. In(M, u.current) = {} => u.offset[u.current] = Header
    BY <1>0, <1>13, <1>16, <2>1, <2>2 DEF HeapOK, Counted
  <2>8. Counted(u, M)
    BY <2>5, <2>6, <2>7 DEF Counted
  <2>9. u.current \in u.live
    BY <1>0, <1>16, <2>2
  <2>10. FreePaged(h, p, e.size) = u
    BY <1>9, <1>16 DEF u
  <2> QED BY <1>2, <2>2, <2>4, <2>8, <2>9, <2>10 DEF HeapOK
<1>17. CASE g.allocs[p] = 0 /\ p = h.current
  <2> DEFINE u == [g EXCEPT !.used[p] = 0, !.offset[p] = Header]
             of == [h.offset EXCEPT ![p] = Header]
             zu == [us EXCEPT ![p] = 0]
  <2>1. of \in [Pages -> Nat] /\ of[p] = Header /\ \A q \in Pages : q # p => of[q] = h.offset[q]
    BY <1>0, <1>1 DEF HeapType
  <2>2. zu \in [Pages -> Int]
    BY <1>1, <1>7
  <2>3. u = [g EXCEPT !.used = zu, !.offset = of]
    BY <1>8
  <2> HIDE DEF of, zu, u
  <2>4. /\ u.live = h.live /\ u.current = h.current /\ u.allocs = al /\ u.offset = of
        /\ u \in HeapType
    BY <1>8, <2>1, <2>2, <2>3 DEF HeapType
  <2>5. \A f \in M : f.page # p
    BY <1>15, <1>17 DEF In
  <2>6. Placed(u, M)
    BY <1>0, <1>10, <1>11, <2>1, <2>4, <2>5 DEF Placed
  <2>7. \A q \in u.live : u.allocs[q] = Cardinality(In(M, q)) /\ u.offset[q] <= PageSize
    BY <1>0, <1>5, <1>12, <2>1, <2>4
  <2>8. \A q \in u.live : q # u.current => In(M, q) # {}
    BY <1>13, <1>17, <2>4 DEF HeapOK, Counted
  <2>9. Counted(u, M)
    BY <1>17, <2>1, <2>4, <2>7, <2>8 DEF Counted
  <2>10. FreePaged(h, p, e.size) = u
    BY <1>9, <1>17 DEF u
  <2> QED BY <1>0, <1>2, <2>4, <2>6, <2>9, <2>10 DEF HeapOK
<1> QED BY <1>14, <1>16, <1>17
-----------------------------------------------------------------------------
(* The extents of the program's blocks                                      *)

Ext(b) == [page |-> home[b], at |-> pos[b], size |-> size[b]]

(* The extents of the paged blocks other than b. *)
Rest(b) == {Ext(c) : c \in {d \in Blocks : d # b /\ InPage(d)}}
Extents == {Ext(c) : c \in {d \in Blocks : InPage(d)}}

(* No two blocks share an extent; the size says how a block is stored.      *)
Distinct == \A b, c \in Blocks : InPage(b) /\ InPage(c) /\ b # c => Ext(b) # Ext(c)
Classes == \A b \in Live : size[b] \in Sizes /\ (Paged(size[b], Ptr) <=> InPage(b))

Inv == TypeOK /\ HeapOK(heap, Extents) /\ Distinct /\ Classes

(* The extents with block b and without it.                                 *)
LEMMA ExtentsSplit ==
  ASSUME Distinct, NEW b \in Blocks
  PROVE  /\ InPage(b) => Extents = Rest(b) \cup {Ext(b)} /\ Ext(b) \notin Rest(b)
         /\ ~InPage(b) => Extents = Rest(b)
BY DEF Distinct, Extents, Rest

(* The constants are numbers.                                               *)
LEMMA SizesAreNat == Sizes \subseteq Nat \ {0} /\ Aligns \subseteq Nat \ {0} /\ Ptr \in Nat \ {0}
BY HeapAssumption DEF HeapAssumption

(* Storing one block anew: what each action owes for the invariant.         *)
LEMMA SetBlockLemma ==
  ASSUME Inv, NEW b \in Blocks, NEW x \in Pages \cup {OWN, NULL}, NEW o \in Nat, NEW s,
         SetBlock(b, x, o, s),
         \/ s \in Sizes /\ x # NULL /\ (Paged(s, Ptr) <=> x \in Pages)
         \/ s = 0 /\ x = NULL,
         NEW e, e = [page |-> x, at |-> o, size |-> s],
         x \in Pages => e \notin Rest(b) /\ HeapOK(heap', Rest(b) \cup {e}),
         x \notin Pages => HeapOK(heap', Rest(b)),
         bytes' \in Int, outstanding' \in Int, balance' \in Int, leaks' = leaks
  PROVE  Inv'
<1>0. /\ home \in [Blocks -> Pages \cup {OWN, NULL}] /\ pos \in [Blocks -> Nat]
      /\ size \in [Blocks -> Sizes \cup {0}]
  BY DEF Inv, TypeOK
<1>1. /\ home' = [home EXCEPT ![b] = x] /\ pos' = [pos EXCEPT ![b] = o]
      /\ size' = [size EXCEPT ![b] = s]
  BY DEF SetBlock
<1>2. \A c \in Blocks : c # b =>
        /\ home'[c] = home[c] /\ pos'[c] = pos[c] /\ size'[c] = size[c]
        /\ Ext(c)' = Ext(c)
  BY <1>0, <1>1 DEF Ext
<1>3. home'[b] = x /\ pos'[b] = o /\ size'[b] = s /\ Ext(b)' = e
  BY <1>0, <1>1 DEF Ext
<1>4. \A c \in Blocks : c # b => (InPage(c)' <=> InPage(c))
  BY <1>2 DEF InPage
<1>5. InPage(b)' <=> x \in Pages
  BY <1>3 DEF InPage
<1>6. x \in Pages => Extents' = Rest(b) \cup {e}
  <2> SUFFICES ASSUME x \in Pages PROVE Extents' = Rest(b) \cup {e}
    OBVIOUS
  <2>1. Extents' = {Ext(c)' : c \in {d \in Blocks : InPage(d)'}}
    BY DEF Extents
  <2>2. \A y \in Extents' : y \in Rest(b) \cup {e}
    BY <1>2, <1>3, <1>4, <2>1 DEF Rest
  <2>3. \A y \in Rest(b) : y \in Extents'
    BY <1>2, <1>4, <2>1 DEF Rest
  <2>4. e \in Extents'
    BY <1>3, <1>5, <2>1
  <2> QED BY <2>2, <2>3, <2>4
<1>7. x \notin Pages => Extents' = Rest(b)
  <2> SUFFICES ASSUME x \notin Pages PROVE Extents' = Rest(b)
    OBVIOUS
  <2>1. Extents' = {Ext(c)' : c \in {d \in Blocks : InPage(d)'}}
    BY DEF Extents
  <2>2. \A y \in Extents' : y \in Rest(b)
    BY <1>2, <1>4, <1>5, <2>1 DEF Rest
  <2>3. \A y \in Rest(b) : y \in Extents'
    BY <1>2, <1>4, <2>1 DEF Rest
  <2> QED BY <2>2, <2>3
<1>8. HeapOK(heap, Extents)'
  <2>1. HeapOK(heap', Extents')
    BY <1>6, <1>7
  <2> QED BY <2>1
<1>9. Distinct'
  <2> SUFFICES ASSUME NEW c \in Blocks, NEW d \in Blocks, InPage(c)', InPage(d)', c # d
               PROVE  Ext(c)' # Ext(d)'
    BY DEF Distinct
  <2>1. CASE c # b /\ d # b
    BY <1>2, <1>4, <2>1 DEF Inv, Distinct
  <2>2. CASE c = b
    <3>1. Ext(d) \in Rest(b)
      BY <1>4, <2>2 DEF Rest
    <3> QED BY <1>2, <1>3, <1>5, <2>2, <3>1
  <2>3. CASE d = b
    <3>1. Ext(c) \in Rest(b)
      BY <1>4, <2>3 DEF Rest
    <3> QED BY <1>2, <1>3, <1>5, <2>3, <3>1
  <2> QED BY <2>1, <2>2, <2>3
<1>10. Classes'
  <2> SUFFICES ASSUME NEW c \in Blocks, home'[c] # NULL
               PROVE  size'[c] \in Sizes /\ (Paged(size'[c], Ptr) <=> home'[c] \in Pages)
    BY DEF Classes, Live, InPage
  <2>1. CASE c = b
    BY <1>3, <2>1
  <2>2. CASE c # b
    BY <1>2, <2>2 DEF Inv, Classes, Live, InPage
  <2> QED BY <2>1, <2>2
<1>11. heap' \in HeapType
  BY <1>8 DEF HeapOK
<1>12. /\ home' \in [Blocks -> Pages \cup {OWN, NULL}] /\ pos' \in [Blocks -> Nat]
       /\ size' \in [Blocks -> Sizes \cup {0}]
  BY <1>0, <1>1
<1>13. TypeOK'
  BY <1>11, <1>12 DEF Inv, TypeOK
<1> QED BY <1>8, <1>9, <1>10, <1>13 DEF Inv

-----------------------------------------------------------------------------
(* _heap_start: one empty page.                                             *)
LEMMA StepInit == Init => Inv
<1> SUFFICES ASSUME Init PROVE Inv
  OBVIOUS
<1>1. PICK p \in Pages :
       heap = [live |-> {p}, current |-> p,
               allocs |-> [q \in Pages |-> 0], used |-> [q \in Pages |-> 0],
               offset |-> [q \in Pages |-> IF q = p THEN Header ELSE 0],
               next |-> [q \in Pages |-> NULL], prev |-> [q \in Pages |-> NULL]]
  BY DEF Init
<1>2. Header \in Nat /\ Header <= PageSize
  BY HeapAssumption DEF HeapAssumption
<1>3. heap \in HeapType
  BY <1>1, <1>2 DEF HeapType
<1>4. \A b \in Blocks : home[b] = NULL /\ ~InPage(b)
  BY HeapAssumption DEF HeapAssumption, Init, InPage
<1>5. Extents = {}
  BY <1>4 DEF Extents
<1>6. \A q : In(Extents, q) = {}
  BY <1>5 DEF In
<1>7. Cardinality({}) = 0 /\ IsFiniteSet({})
  BY FS_EmptySet
<1>8. heap.live = {p} /\ heap.current = p /\ heap.allocs[p] = 0 /\ heap.offset[p] = Header
  BY <1>1
<1>9. Counted(heap, Extents)
  BY <1>2, <1>6, <1>7, <1>8 DEF Counted
<1>10. Placed(heap, Extents)
  BY <1>5 DEF Placed
<1>11. HeapOK(heap, Extents)
  BY <1>3, <1>5, <1>7, <1>8, <1>9, <1>10 DEF HeapOK
<1>12. Distinct /\ Classes
  BY <1>4 DEF Distinct, Classes, Live
<1>13. TypeOK
  BY <1>3 DEF Init, TypeOK
<1> QED BY <1>11, <1>12, <1>13 DEF Inv

(* Whatever i_malloc does, the block it returns can be stored.              *)
LEMMA MallocType ==
  ASSUME NEW h, NEW L, HeapOK(h, L), NEW r, NEW s, NEW e,
         e = [page |-> r.heap.current, at |-> r.at, size |-> s], HeapOK(r.heap, L \cup {e})
  PROVE  r.heap.current \in Pages /\ r.at \in Nat
<1>1. e \in Extent
  BY DEF HeapOK
<1> QED BY <1>1 DEF Extent

(* heap_malloc and heap_aligned_malloc keep the heap in order.              *)
LEMMA StepMalloc ==
  ASSUME Inv, ~MixedClass, NEW b \in Blocks, NEW s \in Sizes, NEW a \in Aligns, Malloc(b, s, a)
  PROVE  Inv'
<1>0. s \in Nat /\ a \in Nat \ {0} /\ ~InPage(b) /\ (Paged(s, a) <=> Paged(s, Ptr))
  BY SizesAreNat, HeapAssumption DEF HeapAssumption, Malloc, SameClass, Live, InPage
<1>1. Extents = Rest(b) /\ HeapOK(heap, Rest(b))
  BY <1>0, ExtentsSplit DEF Inv
<1>2. bytes' \in Int /\ outstanding' \in Int /\ balance' \in Int /\ leaks' = leaks
  BY <1>0 DEF Inv, TypeOK, Malloc
<1>3. CASE Paged(s, a)
  <2>1. PICK r \in MallocPaged(heap, s, a) :
          heap' = r.heap /\ SetBlock(b, r.heap.current, r.at, s)
    BY <1>3 DEF Malloc
  <2> DEFINE e == [page |-> r.heap.current, at |-> r.at, size |-> s]
  <2>2. e \notin Rest(b) /\ HeapOK(r.heap, Rest(b) \cup {e})
    BY <1>0, <1>1, <1>3, MallocLemma
  <2>3. r.heap.current \in Pages /\ r.at \in Nat
    BY <1>1, <2>2, MallocType
  <2>4. r.heap.current # NULL
    BY <2>3, HeapAssumption DEF HeapAssumption
  <2>5. HeapOK(heap', Rest(b) \cup {e})
    BY <2>1, <2>2
  <2> HIDE DEF e
  <2>6. e = [page |-> r.heap.current, at |-> r.at, size |-> s]
    BY DEF e
  <2> QED BY <1>0, <1>2, <1>3, <2>1, <2>2, <2>3, <2>4, <2>5, <2>6, SetBlockLemma
<1>4. CASE ~Paged(s, a)
  <2>1. heap' = heap /\ SetBlock(b, OWN, 0, s)
    BY <1>4 DEF Malloc
  <2>2. OWN \notin Pages /\ OWN # NULL
    BY HeapAssumption DEF HeapAssumption
  <2>3. HeapOK(heap', Rest(b))
    BY <1>1, <2>1
  <2> QED BY <1>0, <1>2, <1>4, <2>1, <2>2, <2>3, SetBlockLemma
<1> QED BY <1>3, <1>4

(* i_free as heap_free and heap_realloc call it takes one block's extent    *)
(* away and no other.                                                       *)
LEMMA FreeBlockLemma ==
  ASSUME NEW h, NEW L, HeapOK(h, L), NEW b \in Blocks, NEW a, NEW g \in FreeBlock(h, b, size[b], a),
         Paged(size[b], a) <=> InPage(b), InPage(b) => Ext(b) \in L
  PROVE  /\ InPage(b) => HeapOK(g, L \ {Ext(b)})
         /\ ~InPage(b) => HeapOK(g, L)
<1>1. CASE InPage(b)
  <2>1. g = FreePaged(h, home[b], size[b])
    BY <1>1 DEF FreeBlock
  <2>2. Ext(b).page = home[b] /\ Ext(b).size = size[b]
    BY DEF Ext
  <2> QED BY <1>1, <2>1, <2>2, FreeLemma
<1>2. CASE ~InPage(b)
  BY <1>2 DEF FreeBlock
<1> QED BY <1>1, <1>2

(* So does heap_free.                                                       *)
LEMMA StepFree ==
  ASSUME Inv, NEW b \in Blocks, Free(b)
  PROVE  Inv'
<1>1. size[b] \in Sizes /\ (Paged(size[b], Ptr) <=> InPage(b)) /\ size[b] \in Nat
  BY SizesAreNat DEF Inv, Classes, Free
<1>2. bytes' \in Int /\ outstanding' \in Int /\ balance' \in Int /\ leaks' = leaks
  BY <1>1 DEF Inv, TypeOK, Free
<1>3. InPage(b) => Ext(b) \in Extents
  BY DEF Extents
<1>4. HeapOK(heap, Extents)
  BY DEF Inv
<1>5. heap' \in FreeBlock(heap, b, size[b], Ptr)
  BY DEF Free
<1>6. /\ InPage(b) => HeapOK(heap', Extents \ {Ext(b)})
      /\ ~InPage(b) => HeapOK(heap', Extents)
  BY <1>1, <1>3, <1>4, <1>5, FreeBlockLemma
<1>7. Extents \ {Ext(b)} = Rest(b) \/ ~InPage(b)
  BY ExtentsSplit DEF Inv
<1>8. Extents = Rest(b) \/ InPage(b)
  BY ExtentsSplit DEF Inv
<1>9. HeapOK(heap', Rest(b))
  BY <1>6, <1>7, <1>8
<1>10. SetBlock(b, NULL, 0, 0)
  BY DEF Free
<1>11. NULL \notin Pages
  BY HeapAssumption DEF HeapAssumption
<1> QED BY <1>2, <1>9, <1>10, <1>11, SetBlockLemma

(* So does heap_realloc, which holds two blocks of its own for a moment.    *)
LEMMA StepRealloc ==
  ASSUME Inv, ~MixedClass, NEW b \in Blocks, NEW s \in Sizes, NEW a \in Aligns, Realloc(b, s, a)
  PROVE  Inv'
<1>0. s \in Nat /\ a \in Nat \ {0} /\ (Paged(s, a) <=> Paged(s, Ptr))
      /\ size[b] \in Nat /\ (Paged(size[b], a) <=> InPage(b))
  <2>1. MixedClass = FALSE
    BY HeapAssumption DEF HeapAssumption
  <2>2. size[b] \in Sizes /\ (Paged(size[b], Ptr) <=> InPage(b))
    BY DEF Inv, Classes, Realloc
  <2> QED BY <2>1, <2>2, SizesAreNat DEF Realloc, SameClass
<1>1. HeapOK(heap, Extents) /\ (InPage(b) => Ext(b) \in Extents)
  BY DEF Inv, Extents
<1>2. bytes' \in Int /\ outstanding' \in Int /\ balance' \in Int /\ leaks' = leaks
  BY <1>0 DEF Inv, TypeOK, Realloc, Resized
<1>3. /\ InPage(b) => Extents = Rest(b) \cup {Ext(b)} /\ Ext(b) \notin Rest(b)
      /\ ~InPage(b) => Extents = Rest(b)
  BY ExtentsSplit DEF Inv
<1>4. OWN \notin Pages /\ OWN # NULL /\ NULL \notin Pages
  BY HeapAssumption DEF HeapAssumption
<1>5. CASE Paged(s, a)
  <2>1. PICK r \in MallocPaged(heap, s, a) :
          heap' \in FreeBlock(r.heap, b, size[b], a) /\ SetBlock(b, r.heap.current, r.at, s)
    BY <1>5 DEF Realloc
  <2> DEFINE e == [page |-> r.heap.current, at |-> r.at, size |-> s]
  <2>2. e \notin Extents /\ HeapOK(r.heap, Extents \cup {e})
    BY <1>0, <1>1, <1>5, MallocLemma
  <2>3. r.heap.current \in Pages /\ r.at \in Nat
    BY <1>1, <2>2, MallocType
  <2> HIDE DEF e
  <2>4. /\ InPage(b) => HeapOK(heap', (Extents \cup {e}) \ {Ext(b)})
        /\ ~InPage(b) => HeapOK(heap', Extents \cup {e})
    BY <1>0, <1>1, <2>1, <2>2, FreeBlockLemma
  <2>5. InPage(b) => (Extents \cup {e}) \ {Ext(b)} = Rest(b) \cup {e}
    BY <1>1, <1>3, <2>2
  <2>6. e \notin Rest(b) /\ HeapOK(heap', Rest(b) \cup {e})
    BY <1>3, <2>2, <2>4, <2>5
  <2>7. e = [page |-> r.heap.current, at |-> r.at, size |-> s]
    BY DEF e
  <2>8. r.heap.current # NULL
    BY <1>4, <2>3
  <2> QED BY <1>0, <1>2, <1>5, <2>1, <2>3, <2>6, <2>7, <2>8, SetBlockLemma
<1>6. CASE ~Paged(s, a) /\ ~Paged(size[b], a)
  <2>1. heap' = heap /\ SetBlock(b, OWN, 0, s)
    BY <1>6 DEF Realloc
  <2>2. HeapOK(heap', Rest(b))
    BY <1>0, <1>1, <1>3, <1>6, <2>1
  <2> QED BY <1>0, <1>2, <1>4, <1>6, <2>1, <2>2, SetBlockLemma
<1>7. CASE ~Paged(s, a) /\ Paged(size[b], a)
  <2>1. heap' \in FreeBlock(heap, b, size[b], a) /\ SetBlock(b, OWN, 0, s)
    BY <1>7 DEF Realloc
  <2>2. HeapOK(heap', Extents \ {Ext(b)})
    BY <1>0, <1>1, <1>7, <2>1, FreeBlockLemma
  <2>3. Extents \ {Ext(b)} = Rest(b)
    BY <1>0, <1>3, <1>7
  <2>4. HeapOK(heap', Rest(b))
    BY <2>2, <2>3
  <2> QED BY <1>0, <1>2, <1>4, <1>7, <2>1, <2>4, SetBlockLemma
<1> QED BY <1>5, <1>6, <1>7

(* And the leak report, which only reads.                                   *)
LEMMA StepUnchanged ==
  ASSUME Inv, UNCHANGED <<heap, blockVars, counters>>, leaks' \in {NULL, "none", "some"}
  PROVE  Inv'
<1> USE DEF blockVars, counters
<1>1. heap' = heap /\ home' = home /\ pos' = pos /\ size' = size
      /\ bytes' = bytes /\ outstanding' = outstanding /\ balance' = balance
  OBVIOUS
<1>2. Extents' = Extents
  BY <1>1 DEF Extents, Ext, InPage
<1>3. HeapOK(heap, Extents)'
  <2>1. HeapOK(heap', Extents')
    BY <1>1, <1>2 DEF Inv
  <2> QED BY <2>1
<1>4. Distinct' /\ Classes'
  BY <1>1 DEF Inv, Distinct, Classes, Ext, InPage, Live
<1>5. TypeOK'
  BY <1>1 DEF Inv, TypeOK
<1> QED BY <1>3, <1>4, <1>5 DEF Inv

(* The invariant holds of every execution in which the program asks no      *)
(* alignment that puts a block in another class than sizeofptr does.        *)
THEOREM HeapInvariance == ~MixedClass => (Spec => []Inv)
<1> SUFFICES ASSUME ~MixedClass PROVE Spec => []Inv
  OBVIOUS
<1>1. Init => Inv
  BY StepInit
<1>2. Inv /\ [Next]_vars => Inv'
  <2> SUFFICES ASSUME Inv, [Next]_vars PROVE Inv'
    OBVIOUS
  <2>1. ASSUME NEW b \in Blocks, NEW s \in Sizes, NEW a \in Aligns, Malloc(b, s, a) PROVE Inv'
    BY <2>1, StepMalloc
  <2>2. ASSUME NEW b \in Blocks, NEW s \in Sizes, NEW a \in Aligns, Realloc(b, s, a) PROVE Inv'
    BY <2>2, StepRealloc
  <2>3. ASSUME NEW b \in Blocks, Free(b) PROVE Inv'
    BY <2>3, StepFree
  <2>4. CASE Finish
    BY <2>4, StepUnchanged DEF Finish
  <2>5. CASE UNCHANGED vars
    <3>1. leaks \in {NULL, "none", "some"}
      BY DEF Inv, TypeOK
    <3> QED BY <2>5, <3>1, StepUnchanged DEF vars
  <2> QED BY <2>1, <2>2, <2>3, <2>4, <2>5 DEF Next
<1> QED BY <1>1, <1>2, PTL DEF Spec

(* Blocks, their page pointers and the page headers never overlap: for      *)
(* every page size, set of sizes and set of alignments (i_malloc, i_free).  *)
THEOREM BlocksApart == ~MixedClass => (Spec => []NoOverlap)
<1>1. Inv => NoOverlap
  <2> SUFFICES ASSUME Inv, NEW b \in Blocks, InPage(b)
               PROVE  /\ Header <= pos[b] /\ pos[b] + size[b] + Ptr <= PageSize
                      /\ \A c \in Blocks \ {b} : home[c] = home[b] =>
                           \/ pos[b] + size[b] + Ptr <= pos[c]
                           \/ pos[c] + size[c] + Ptr <= pos[b]
    BY DEF NoOverlap
  <2>1. Ext(b) \in Extents /\ HeapOK(heap, Extents) /\ Ext(b) \in Extent
    BY DEF Inv, Extents, HeapOK
  <2>2. Ext(b).page = home[b] /\ Ext(b).at = pos[b] /\ Ext(b).size = size[b]
    BY DEF Ext
  <2>3. pos[b] \in Nat /\ size[b] \in Nat /\ home[b] \in Pages
    BY <2>1, <2>2 DEF Extent
  <2>4. /\ home[b] \in heap.live /\ Header <= pos[b]
        /\ pos[b] + size[b] + Ptr <= heap.offset[home[b]] /\ heap.offset[home[b]] <= PageSize
    BY <2>1, <2>2 DEF HeapOK, Placed, Counted
  <2>5. heap.offset[home[b]] \in Nat /\ Ptr \in Nat /\ PageSize \in Nat
    BY <2>1, <2>3, HeapAssumption DEF HeapAssumption, HeapOK, HeapType
  <2>6. pos[b] + size[b] + Ptr <= PageSize
    BY <2>3, <2>4, <2>5
  <2>7. ASSUME NEW c \in Blocks \ {b}, home[c] = home[b]
        PROVE  \/ pos[b] + size[b] + Ptr <= pos[c]
               \/ pos[c] + size[c] + Ptr <= pos[b]
    <3>1. InPage(c) /\ Ext(c) \in Extents /\ Ext(b) # Ext(c)
      BY <2>7 DEF Inv, Distinct, Extents, InPage
    <3>2. Ext(c).page = home[c] /\ Ext(c).at = pos[c] /\ Ext(c).size = size[c]
      BY DEF Ext
    <3>3. Apart(Ext(b), Ext(c))
      BY <2>1, <2>2, <2>7, <3>1, <3>2 DEF HeapOK, Placed
    <3> QED BY <2>2, <3>2, <3>3 DEF Apart
  <2> QED BY <2>4, <2>6, <2>7
<1> QED BY <1>1, HeapInvariance, PTL

(* A live block is in a page the program still holds, and every page other  *)
(* than the current one holds a block (the release of pages in i_free).     *)
THEOREM PagesHeldByBlocks == ~MixedClass => (Spec => []PagesHeld)
<1>1. Inv => PagesHeld
  <2> SUFFICES ASSUME Inv PROVE PagesHeld
    OBVIOUS
  <2>1. HeapOK(heap, Extents)
    BY DEF Inv
  <2>2. ASSUME NEW b \in Blocks, InPage(b) PROVE home[b] \in heap.live
    <3>1. Ext(b) \in Extents /\ Ext(b).page = home[b]
      BY <2>2 DEF Extents, Ext
    <3> QED BY <2>1, <3>1 DEF HeapOK, Placed
  <2>3. ASSUME NEW p \in heap.live \ {heap.current} PROVE \E b \in Blocks : home[b] = p
    <3>1. PICK e \in Extents : e.page = p
      BY <2>1, <2>3 DEF HeapOK, Counted, In
    <3>2. PICK b \in Blocks : e = Ext(b)
      BY <3>1 DEF Extents
    <3> QED BY <3>1, <3>2 DEF Ext
  <2>4. heap.current \in heap.live
    BY <2>1 DEF HeapOK
  <2> QED BY <2>2, <2>3, <2>4 DEF PagesHeld
<1> QED BY <1>1, HeapInvariance, PTL

-----------------------------------------------------------------------------
(* The list of the pages.  It takes two things that PageList does not say:  *)
(* the links stay among the pages, and one page has none before it.          *)
Linked(h) ==
  /\ h.next[h.current] = NULL
  /\ \A p, q \in h.live : h.next[p] = q <=> h.prev[q] = p
  /\ \A p \in h.live \ {h.current} : h.next[p] \in h.live
  /\ \A p \in h.live : h.prev[p] \in h.live \cup {NULL}
  /\ \E first \in h.live : \A p \in h.live : h.prev[p] = NULL <=> p = first

SameLinks(g, h) == g.live = h.live /\ g.current = h.current /\ g.next = h.next /\ g.prev = h.prev

(* A block added to a page leaves the list alone.                            *)
LEMMA CarveLinks == ASSUME NEW h \in HeapType, NEW s, NEW o PROVE SameLinks(Carve(h, s, o), h)
  BY DEF HeapType, Carve, SameLinks

(* The list is its links.                                                   *)
LEMMA SameLinked == ASSUME NEW h, NEW g, SameLinks(g, h), Linked(h) PROVE Linked(g)
  BY DEF SameLinks, Linked

(* i_new_page appends its page behind the current one.                       *)
LEMMA NewPageLinked ==
  ASSUME NEW h \in HeapType, h.current \in h.live, Linked(h), NEW p \in Pages \ h.live
  PROVE  Linked(NewPage(h, p)) /\ NewPage(h, p) \in HeapType
<1> DEFINE g == NewPage(h, p)
<1>1. /\ h.live \subseteq Pages /\ NULL \notin h.live /\ p # NULL /\ p # h.current
      /\ h.next \in [Pages -> Pages \cup {NULL}] /\ h.prev \in [Pages -> Pages \cup {NULL}]
  BY HeapAssumption DEF HeapAssumption, HeapType
<1>2. /\ g.live = h.live \cup {p} /\ g.current = p
      /\ g.next[p] = NULL /\ g.next[h.current] = p /\ g.prev[p] = h.current
      /\ \A q \in h.live : (q # h.current => g.next[q] = h.next[q]) /\ g.prev[q] = h.prev[q]
  BY <1>1 DEF NewPage, HeapType
<1>3. g \in HeapType
  BY <1>1, HeapAssumption DEF NewPage, HeapType, HeapAssumption
<1> HIDE DEF g
<1>4. \A x, y \in g.live : g.next[x] = y <=> g.prev[y] = x
  <2> SUFFICES ASSUME NEW x \in g.live, NEW y \in g.live PROVE g.next[x] = y <=> g.prev[y] = x
    OBVIOUS
  <2>1. CASE x \in h.live /\ y \in h.live
    BY <1>1, <1>2, <2>1 DEF Linked
  <2>2. CASE x \in h.live /\ y = p
    BY <1>1, <1>2, <2>2 DEF Linked
  <2>3. CASE x = p
    BY <1>1, <1>2, <2>3 DEF Linked
  <2> QED BY <1>2, <2>1, <2>2, <2>3
<1>5. \A x \in g.live \ {g.current} : g.next[x] \in g.live
  BY <1>1, <1>2 DEF Linked
<1>6. \A x \in g.live : g.prev[x] \in g.live \cup {NULL}
  BY <1>1, <1>2 DEF Linked
<1>7. \E first \in g.live : \A x \in g.live : g.prev[x] = NULL <=> x = first
  <2>1. PICK first \in h.live : \A x \in h.live : h.prev[x] = NULL <=> x = first
    BY DEF Linked
  <2> QED BY <1>1, <1>2, <2>1
<1> QED BY <1>2, <1>3, <1>4, <1>5, <1>6, <1>7 DEF Linked, g

(* A page that leaves the list joins its neighbours, at either end of it.    *)
LEMMA UnlinkLinked ==
  ASSUME NEW h, h.live \subseteq Pages, h.current \in h.live, Linked(h), NEW p \in h.live,
         p # h.current, NEW g, g.live = h.live \ {p}, g.current = h.current,
         g.prev = [q \in Pages |-> IF q = p THEN NULL ELSE IF q = h.next[p] THEN h.prev[p] ELSE h.prev[q]],
         g.next = [q \in Pages |-> IF q = p THEN NULL ELSE IF q = h.prev[p] THEN h.next[p] ELSE h.next[q]]
  PROVE  Linked(g)
<1>1. /\ NULL \notin h.live /\ g.live \subseteq h.live /\ p \notin g.live
      /\ \A q \in g.live : /\ g.prev[q] = IF q = h.next[p] THEN h.prev[p] ELSE h.prev[q]
                           /\ g.next[q] = IF q = h.prev[p] THEN h.next[p] ELSE h.next[q]
  BY HeapAssumption DEF HeapAssumption
<1>2. h.next[p] \in h.live /\ h.prev[h.next[p]] = p
  BY DEF Linked
<1>3. h.prev[p] \in h.live => h.next[h.prev[p]] = p
  BY DEF Linked
<1>4. \A x, y \in g.live : g.next[x] = y <=> g.prev[y] = x
  <2> SUFFICES ASSUME NEW x \in g.live, NEW y \in g.live PROVE g.next[x] = y <=> g.prev[y] = x
    OBVIOUS
  <2>1. CASE x = h.prev[p]
    BY <1>1, <1>2, <1>3, <2>1 DEF Linked
  <2>2. CASE x # h.prev[p]
    BY <1>1, <1>2, <2>2 DEF Linked
  <2> QED BY <2>1, <2>2
<1>5. \A x \in g.live \ {g.current} : g.next[x] \in g.live
  BY <1>1, <1>2, <1>3 DEF Linked
<1>6. \A x \in g.live : g.prev[x] \in g.live \cup {NULL}
  BY <1>1, <1>2, <1>3 DEF Linked
<1>7. g.next[g.current] = NULL
  BY <1>1, <1>3 DEF Linked
<1>8. \E first \in g.live : \A x \in g.live : g.prev[x] = NULL <=> x = first
  <2>1. PICK first \in h.live : \A x \in h.live : h.prev[x] = NULL <=> x = first
    BY DEF Linked
  <2>2. CASE p = first
    <3>1. h.prev[p] = NULL /\ h.next[p] \in g.live
      BY <1>1, <1>2, <2>1, <2>2
    <3>2. \A x \in g.live : g.prev[x] = NULL <=> x = h.next[p]
      BY <1>1, <2>1, <2>2, <3>1
    <3> QED BY <3>1, <3>2
  <2>3. CASE p # first
    <3>1. h.prev[p] # NULL /\ first \in g.live
      BY <2>1, <2>3
    <3>2. \A x \in g.live : g.prev[x] = NULL <=> x = first
      BY <1>1, <1>2, <2>1, <3>1
    <3> QED BY <3>1, <3>2
  <2> QED BY <2>2, <2>3
<1> QED BY <1>4, <1>5, <1>6, <1>7, <1>8 DEF Linked

(* i_malloc keeps the list, with and without a new page.                    *)
LEMMA MallocLinked ==
  ASSUME NEW h \in HeapType, h.current \in h.live, Linked(h), NEW s, NEW a,
         NEW r \in MallocPaged(h, s, a)
  PROVE  Linked(r.heap)
<1>1. CASE FitsCurrent(h, s, a)
  <2>1. r.heap = Carve(h, s, CurrentOffset(h, a))
    BY <1>1 DEF MallocPaged
  <2> QED BY <2>1, CarveLinks, SameLinked
<1>2. CASE ~FitsCurrent(h, s, a)
  <2>1. PICK p \in Pages \ h.live : r.heap = Carve(NewPage(h, p), s, FirstOffset(a))
    BY <1>2 DEF MallocPaged
  <2> QED BY <2>1, NewPageLinked, CarveLinks, SameLinked
<1> QED BY <1>1, <1>2

(* i_free keeps it, whether the page leaves it or not.                      *)
LEMMA FreeLinked ==
  ASSUME NEW h \in HeapType, h.current \in h.live, Linked(h), NEW b, NEW s, NEW a,
         NEW g \in FreeBlock(h, b, s, a)
  PROVE  Linked(g)
<1>1. CASE ~Paged(s, a)
  BY <1>1 DEF FreeBlock
<1>2. CASE Paged(s, a)
  <2> DEFINE p == home[b]
             k == [h EXCEPT !.allocs[p] = @ - 1, !.used[p] = @ - s]
  <2>1. p \in h.live /\ g = FreePaged(h, p, s)
    BY <1>2 DEF FreeBlock
  <2>2. SameLinks(k, h)
    BY DEF HeapType, SameLinks
  <2>3. CASE k.allocs[p] # 0
    <3>1. g = k
      BY <2>1, <2>3 DEF FreePaged
    <3> QED BY <2>2, <3>1, SameLinked
  <2>4. CASE k.allocs[p] = 0 /\ p # h.current
    <3>1. g = Unlink(k, p)
      BY <2>1, <2>4 DEF FreePaged
    <3>2. /\ g.live = h.live \ {p} /\ g.current = h.current
          /\ g.prev = [q \in Pages |-> IF q = p THEN NULL ELSE IF q = h.next[p] THEN h.prev[p] ELSE h.prev[q]]
          /\ g.next = [q \in Pages |-> IF q = p THEN NULL ELSE IF q = h.prev[p] THEN h.next[p] ELSE h.next[q]]
      BY <3>1 DEF Unlink, HeapType
    <3>3. h.live \subseteq Pages
      BY DEF HeapType
    <3> QED BY <2>1, <2>4, <3>2, <3>3, UnlinkLinked
  <2>5. CASE k.allocs[p] = 0 /\ p = h.current
    <3>1. g = [k EXCEPT !.used[p] = 0, !.offset[p] = Header]
      BY <2>1, <2>5 DEF FreePaged
    <3>2. SameLinks(g, h)
      BY <3>1 DEF SameLinks, HeapType
    <3> QED BY <3>2, SameLinked
  <2> QED BY <2>3, <2>4, <2>5
<1> QED BY <1>1, <1>2

(* The pages form one list, whatever the order in which they are emptied and *)
(* unlinked: new ones are appended and only inner or first ones leave.       *)
THEOREM PagesListed == ~MixedClass => (Spec => []PageList)
<1> SUFFICES ASSUME ~MixedClass PROVE Spec => []PageList
  OBVIOUS
<1>1. Init => Linked(heap)
  BY HeapAssumption DEF Init, Linked, HeapAssumption
<1>2. Inv /\ Linked(heap) /\ [Next]_vars => Linked(heap)'
  <2> SUFFICES ASSUME Inv, Linked(heap), [Next]_vars PROVE Linked(heap')
    BY DEF Linked
  <2>1. heap \in HeapType /\ heap.current \in heap.live /\ HeapOK(heap, Extents)
    BY DEF Inv, HeapOK
  <2>2. ASSUME NEW b \in Blocks, NEW s \in Sizes, NEW a \in Aligns, Malloc(b, s, a)
        PROVE  Linked(heap')
    BY <2>1, <2>2, MallocLinked DEF Malloc
  <2>3. ASSUME NEW b \in Blocks, NEW s \in Sizes, NEW a \in Aligns, Realloc(b, s, a)
        PROVE  Linked(heap')
    <3>1. CASE heap' = heap
      BY <3>1
    <3>2. CASE heap' \in FreeBlock(heap, b, size[b], a)
      BY <2>1, <3>2, FreeLinked
    <3>3. ASSUME Paged(s, a), NEW r \in MallocPaged(heap, s, a), heap' \in FreeBlock(r.heap, b, size[b], a)
          PROVE  Linked(heap')
      <4>1. s \in Nat /\ a \in Nat \ {0}
        BY SizesAreNat
      <4>2. HeapOK(r.heap, Extents \cup {[page |-> r.heap.current, at |-> r.at, size |-> s]})
        BY <2>1, <3>3, <4>1, MallocLemma
      <4>3. r.heap \in HeapType /\ r.heap.current \in r.heap.live
        BY <4>2 DEF HeapOK
      <4> QED BY <2>1, <3>3, <4>3, MallocLinked, FreeLinked
    <3> QED BY <2>3, <3>1, <3>2, <3>3 DEF Realloc
  <2>4. ASSUME NEW b \in Blocks, Free(b) PROVE Linked(heap')
    BY <2>1, <2>4, FreeLinked DEF Free
  <2>5. CASE Finish
    BY <2>5 DEF Finish
  <2>6. CASE UNCHANGED vars
    BY <2>6 DEF vars
  <2> QED BY <2>2, <2>3, <2>4, <2>5, <2>6 DEF Next
<1>3. Linked(heap) => PageList
  <2> SUFFICES ASSUME Linked(heap) PROVE Cardinality({p \in heap.live : heap.prev[p] = NULL}) = 1
    BY DEF Linked, PageList
  <2>1. PICK first \in heap.live : \A p \in heap.live : heap.prev[p] = NULL <=> p = first
    BY DEF Linked
  <2>2. {p \in heap.live : heap.prev[p] = NULL} = {first}
    BY <2>1
  <2> QED BY <2>2, FS_Singleton
<1> QED BY <1>1, <1>2, <1>3, HeapInvariance, PTL DEF Spec

(* The page counters, offsets and links keep their types; above all no page  *)
(* counts fewer than no block (i_free's num_allocs -= 1).                    *)
THEOREM TypeCorrect == ~MixedClass => (Spec => []TypeOK)
<1>1. Inv => TypeOK
  BY DEF Inv
<1> QED BY <1>1, HeapInvariance, PTL

-----------------------------------------------------------------------------
(* Numbers                                                                  *)

(* Every set of numbers that is not empty has a least one.                   *)
LEMMA LeastNumber ==
  ASSUME NEW P \in SUBSET Nat, P # {}
  PROVE  \E k \in P : \A j \in P : k <= j
<1> DEFINE Less == OpToRel(<, Nat)
<1>1. IsWellFoundedOn(Less, Nat)
  BY NatLessThanWellFounded
<1>2. \A x, y \in Nat : <<x, y>> \in Less <=> x < y
  BY DEF OpToRel
<1> HIDE DEF Less
<1>3. PICK k \in P : \A j \in P : ~(<<j, k>> \in Less)
  BY <1>1, WFMin
<1>4. \A j \in P : ~(j < k)
  BY <1>2, <1>3
<1> QED BY <1>3, <1>4

(* What passes from all smaller numbers to each number holds of every one.    *)
LEMMA FromBelow ==
  ASSUME NEW P \in SUBSET Nat, \A n \in Nat : (\A m \in Nat : m < n => m \in P) => n \in P
  PROVE  P = Nat
<1> DEFINE Q == Nat \ P
<1>1. ASSUME Q # {} PROVE FALSE
  <2>1. PICK k \in Q : \A j \in Q : k <= j
    BY <1>1, LeastNumber
  <2>2. \A m \in Nat : m < k => m \in P
    BY <2>1
  <2> QED BY <2>1, <2>2
<1> QED BY <1>1

-----------------------------------------------------------------------------
(* Sums                                                                     *)

Chosen(s) == CHOOSE x \in s : TRUE
SumOf(w, S) == MapThenSumSet(LAMBDA b : w[b], S)

(* The function that the sum is folded with.                                 *)
Adds(w, f, s) == IF s = {} THEN 0 ELSE w[Chosen(s)] + f[s \ {Chosen(s)}]
Folding(f, w, S) == f = [s \in SUBSET S |-> Adds(w, f, s)]

(* The sum of the community modules, unfolded.                              *)
LEMMA SumIs ==
  ASSUME NEW w, NEW S
  PROVE  SumOf(w, S) = (CHOOSE f : Folding(f, w, S))[S]
BY DEF SumOf, MapThenSumSet, MapThenFoldSet, Folding, Adds, Chosen

(* One element less.                                                        *)
LEMMA Smaller ==
  ASSUME NEW s, IsFiniteSet(s), s # {}
  PROVE  /\ Chosen(s) \in s /\ IsFiniteSet(s \ {Chosen(s)})
         /\ Cardinality(s) \in Nat /\ Cardinality(s \ {Chosen(s)}) \in Nat
         /\ Cardinality(s \ {Chosen(s)}) < Cardinality(s)
<1>1. Chosen(s) \in s
  BY DEF Chosen
<1>2. /\ IsFiniteSet(s \ {Chosen(s)})
      /\ Cardinality(s \ {Chosen(s)}) = Cardinality(s) - 1
  BY <1>1, FS_RemoveElement
<1>3. Cardinality(s) \in Nat /\ Cardinality(s \ {Chosen(s)}) \in Nat
  BY <1>2, FS_CardinalityType
<1> QED BY <1>1, <1>2, <1>3

(* It exists for every finite set.                                           *)
LEMMA FoldingExists ==
  ASSUME NEW w, NEW S, IsFiniteSet(S)
  PROVE  \E f : Folding(f, w, S)
<1> DEFINE UpToSize(f, n) ==
             \A s \in SUBSET S : Cardinality(s) < n => f[s] = Adds(w, f, s)
           P == {n \in Nat : \E f : UpToSize(f, n)}
<1>0. \A s \in SUBSET S : IsFiniteSet(s) /\ Cardinality(s) \in Nat
  BY FS_Subset, FS_CardinalityType
<1>1. ASSUME NEW n \in Nat, \A m \in Nat : m < n => m \in P
      PROVE  n \in P
  <2>1. CASE n = 0
    <3>1. UpToSize([s \in SUBSET S |-> 0], 0)
      BY <1>0
    <3> QED BY <2>1, <3>1
  <2>2. CASE n # 0
    <3>1. n - 1 \in P
      BY <1>1, <2>2
    <3>2. PICK f : UpToSize(f, n - 1)
      BY <3>1
    <3> DEFINE g == [s \in SUBSET S |-> Adds(w, f, s)]
    <3>3. ASSUME NEW s \in SUBSET S, Cardinality(s) < n PROVE g[s] = Adds(w, g, s)
      <4>1. CASE s = {}
        BY <4>1 DEF Adds
      <4>2. CASE s # {}
        <5> DEFINE t == s \ {Chosen(s)}
        <5>1. t \in SUBSET S /\ Cardinality(t) \in Nat /\ Cardinality(s) \in Nat
              /\ Cardinality(t) < Cardinality(s)
          BY <1>0, <4>2, Smaller
        <5>2. Cardinality(t) < n - 1
          BY <3>3, <5>1
        <5>3. f[t] = Adds(w, f, t)
          BY <3>2, <5>1, <5>2
        <5>4. g[t] = f[t]
          BY <5>1, <5>3
        <5>5. g[s] = w[Chosen(s)] + f[t]
          BY <4>2 DEF Adds
        <5> QED BY <4>2, <5>4, <5>5 DEF Adds
      <4> QED BY <4>1, <4>2
    <3>4. UpToSize(g, n)
      BY <3>3
    <3> QED BY <3>4
  <2> QED BY <2>1, <2>2
<1>2. P \in SUBSET Nat
  OBVIOUS
<1>3. P = Nat
  <2> HIDE DEF P
  <2> QED BY <1>1, <1>2, FromBelow
<1>4. Cardinality(S) + 1 \in P
  BY <1>0, <1>3
<1>5. PICK f : UpToSize(f, Cardinality(S) + 1)
  BY <1>4
<1>6. \A s \in SUBSET S : f[s] = Adds(w, f, s)
  <2> TAKE s \in SUBSET S
  <2>1. Cardinality(s) <= Cardinality(S) /\ Cardinality(s) \in Nat /\ Cardinality(S) \in Nat
    BY <1>0, FS_Subset
  <2>2. Cardinality(s) < Cardinality(S) + 1
    BY <2>1
  <2> QED BY <1>5, <2>2
<1> DEFINE g == [s \in SUBSET S |-> f[s]]
<1>7. \A s \in SUBSET S : g[s] = Adds(w, g, s)
  <2> TAKE s \in SUBSET S
  <2>1. s \ {Chosen(s)} \in SUBSET S
    OBVIOUS
  <2>2. g[s] = f[s] /\ g[s \ {Chosen(s)}] = f[s \ {Chosen(s)}]
    BY <2>1
  <2> QED BY <1>6, <2>2 DEF Adds
<1>8. g = [s \in SUBSET S |-> Adds(w, g, s)]
  <2>1. g = [s \in SUBSET S |-> g[s]]
    OBVIOUS
  <2> HIDE DEF g
  <2> QED BY <1>7, <2>1
<1> QED BY <1>8 DEF Folding

(* It does not depend on the set that it was folded for.                     *)
LEMMA FoldingAgrees ==
  ASSUME NEW w, NEW S, IsFiniteSet(S), NEW T \in SUBSET S, NEW f, Folding(f, w, S),
         NEW g, Folding(g, w, T)
  PROVE  f[T] = g[T]
<1> DEFINE P == {n \in Nat : \A s \in SUBSET T : Cardinality(s) = n => f[s] = g[s]}
<1>0. \A s \in SUBSET T : s \in SUBSET S /\ IsFiniteSet(s) /\ Cardinality(s) \in Nat
  BY FS_Subset, FS_CardinalityType
<1>1. \A s \in SUBSET T : f[s] = Adds(w, f, s) /\ g[s] = Adds(w, g, s)
  BY <1>0 DEF Folding
<1>2. ASSUME NEW n \in Nat, \A m \in Nat : m < n => m \in P
      PROVE  n \in P
  <2> SUFFICES ASSUME NEW s \in SUBSET T, Cardinality(s) = n PROVE f[s] = g[s]
    OBVIOUS
  <2>1. CASE s = {}
    BY <1>1, <2>1 DEF Adds
  <2>2. CASE s # {}
    <3> DEFINE t == s \ {Chosen(s)}
    <3>1. t \in SUBSET T /\ Cardinality(t) \in Nat /\ Cardinality(t) < n
      BY <1>0, <2>2, Smaller
    <3>2. f[t] = g[t]
      BY <1>2, <3>1
    <3> QED BY <1>1, <2>2, <3>2 DEF Adds
  <2> QED BY <2>1, <2>2
<1>3. P \in SUBSET Nat
  OBVIOUS
<1>4. P = Nat
  <2> HIDE DEF P
  <2> QED BY <1>2, <1>3, FromBelow
<1>5. T \in SUBSET T /\ Cardinality(T) \in P
  BY <1>0, <1>4
<1> QED BY <1>5

(* One element is taken out after the other.                                 *)
LEMMA SumStep ==
  ASSUME NEW w, NEW S, IsFiniteSet(S)
  PROVE  SumOf(w, S) = IF S = {} THEN 0 ELSE w[Chosen(S)] + SumOf(w, S \ {Chosen(S)})
<1> DEFINE f == CHOOSE h : Folding(h, w, S)
           T == S \ {Chosen(S)}
           g == CHOOSE h : Folding(h, w, T)
<1>1. Folding(f, w, S)
  BY FoldingExists
<1>2. IsFiniteSet(T) /\ T \in SUBSET S
  BY FS_Subset
<1>3. Folding(g, w, T)
  <2> HIDE DEF T
  <2> QED BY <1>2, FoldingExists
<1>4. SumOf(w, S) = f[S] /\ SumOf(w, T) = g[T]
  BY SumIs
<1>5. f[T] = g[T]
  <2> HIDE DEF f, g, T
  <2> QED BY <1>1, <1>2, <1>3, FoldingAgrees
<1>6. f[S] = Adds(w, f, S)
  <2> HIDE DEF f
  <2>1. S \in SUBSET S
    OBVIOUS
  <2> QED BY <1>1, <2>1 DEF Folding
<1> HIDE DEF f, g
<1> QED BY <1>4, <1>5, <1>6 DEF Adds

(* Any element may be taken out first.                                       *)
LEMMA SumRemove ==
  ASSUME NEW X, NEW w \in [X -> Int], NEW S \in SUBSET X, IsFiniteSet(S)
  PROVE  /\ SumOf(w, S) \in Int
         /\ \A x \in S : SumOf(w, S) = w[x] + SumOf(w, S \ {x})
<1> DEFINE Good(T) == /\ SumOf(w, T) \in Int
                      /\ \A x \in T : SumOf(w, T) = w[x] + SumOf(w, T \ {x})
           P == {n \in Nat : \A T \in SUBSET S : Cardinality(T) = n => Good(T)}
<1>0. \A T \in SUBSET S : IsFiniteSet(T) /\ Cardinality(T) \in Nat
  BY FS_Subset, FS_CardinalityType
<1>1. ASSUME NEW n \in Nat, \A m \in Nat : m < n => m \in P
      PROVE  n \in P
  <2> SUFFICES ASSUME NEW T \in SUBSET S, Cardinality(T) = n PROVE Good(T)
    OBVIOUS
  <2>1. CASE T = {}
    <3>1. IsFiniteSet(T)
      BY <1>0
    <3>2. SumOf(w, T) = IF T = {} THEN 0 ELSE w[Chosen(T)] + SumOf(w, T \ {Chosen(T)})
      BY <3>1, SumStep
    <3> QED BY <2>1, <3>2
  <2>2. CASE T # {}
    <3> DEFINE c == Chosen(T)
    <3>1. /\ c \in T /\ T \ {c} \in SUBSET S /\ Cardinality(T \ {c}) \in Nat
          /\ Cardinality(T \ {c}) < n
      BY <1>0, <2>2, Smaller
    <3>2. Good(T \ {c})
      BY <1>1, <3>1
    <3>3. SumOf(w, T) = w[c] + SumOf(w, T \ {c}) /\ w[c] \in Int
      <4>1. IsFiniteSet(T)
        BY <1>0
      <4>2. SumOf(w, T) = IF T = {} THEN 0 ELSE w[Chosen(T)] + SumOf(w, T \ {Chosen(T)})
        BY <4>1, SumStep
      <4> QED BY <2>2, <3>1, <4>2
    <3> HIDE DEF c
    <3>4. ASSUME NEW x \in T PROVE SumOf(w, T) = w[x] + SumOf(w, T \ {x})
      <4>1. CASE x = c
        BY <3>3, <4>1
      <4>2. CASE x # c
        <5>1. /\ T \ {x} \in SUBSET S /\ c \in T \ {x} /\ x \in T \ {c}
              /\ (T \ {x}) \ {c} = (T \ {c}) \ {x} /\ w[x] \in Int
          BY <3>1, <4>2
        <5>2. Cardinality(T \ {x}) \in Nat /\ Cardinality(T \ {x}) < n
          <6>1. Cardinality(T \ {x}) = Cardinality(T) - 1
            BY <1>0, FS_RemoveElement
          <6> QED BY <1>0, <5>1, <6>1
        <5>3. Good(T \ {x})
          BY <1>1, <5>1, <5>2
        <5>4. SumOf(w, T \ {x}) = w[c] + SumOf(w, (T \ {c}) \ {x})
          BY <5>1, <5>3
        <5>5. SumOf(w, T \ {c}) = w[x] + SumOf(w, (T \ {c}) \ {x})
          BY <3>2, <5>1
        <5>6. SumOf(w, (T \ {c}) \ {x}) \in Int
          <6>1. (T \ {c}) \ {x} \in SUBSET S /\ Cardinality((T \ {c}) \ {x}) \in Nat
            BY <1>0
          <6>2. Cardinality((T \ {c}) \ {x}) = Cardinality(T \ {c}) - 1
            <7> DEFINE U == T \ {c}
            <7>1. IsFiniteSet(U) /\ x \in U
              BY <1>0, <3>1, <5>1
            <7> HIDE DEF U
            <7>2. Cardinality(U \ {x}) = Cardinality(U) - 1
              BY <7>1, FS_RemoveElement
            <7> QED BY <7>2 DEF U
          <6>3. Good((T \ {c}) \ {x})
            BY <1>1, <3>1, <6>1, <6>2
          <6> QED BY <6>3
        <5> HIDE DEF Good
        <5> QED BY <3>3, <5>1, <5>4, <5>5, <5>6
      <4> QED BY <4>1, <4>2
    <3>5. SumOf(w, T) \in Int
      BY <3>2, <3>3
    <3> QED BY <3>4, <3>5
  <2> QED BY <2>1, <2>2
<1>2. P \in SUBSET Nat
  OBVIOUS
<1>3. P = Nat
  <2> HIDE DEF P
  <2> QED BY <1>1, <1>2, FromBelow
<1>4. S \in SUBSET S /\ Cardinality(S) \in P
  BY <1>0, <1>3
<1> QED BY <1>4

(* Weights that agree give the same sum.                                     *)
LEMMA SumSame ==
  ASSUME NEW v, NEW w, NEW S, IsFiniteSet(S), \A x \in S : v[x] = w[x]
  PROVE  SumOf(v, S) = SumOf(w, S)
<1> DEFINE P == {n \in Nat : \A T \in SUBSET S : Cardinality(T) = n => SumOf(v, T) = SumOf(w, T)}
<1>0. \A T \in SUBSET S : IsFiniteSet(T) /\ Cardinality(T) \in Nat
  BY FS_Subset, FS_CardinalityType
<1>1. ASSUME NEW n \in Nat, \A m \in Nat : m < n => m \in P
      PROVE  n \in P
  <2> SUFFICES ASSUME NEW T \in SUBSET S, Cardinality(T) = n PROVE SumOf(v, T) = SumOf(w, T)
    OBVIOUS
  <2>0. /\ SumOf(v, T) = IF T = {} THEN 0 ELSE v[Chosen(T)] + SumOf(v, T \ {Chosen(T)})
        /\ SumOf(w, T) = IF T = {} THEN 0 ELSE w[Chosen(T)] + SumOf(w, T \ {Chosen(T)})
    BY <1>0, SumStep
  <2>1. CASE T = {}
    BY <2>0, <2>1
  <2>2. CASE T # {}
    <3> DEFINE c == Chosen(T)
    <3>1. /\ c \in T /\ T \ {c} \in SUBSET S /\ Cardinality(T \ {c}) \in Nat
          /\ Cardinality(T \ {c}) < n
      BY <1>0, <2>2, Smaller
    <3>2. SumOf(v, T \ {c}) = SumOf(w, T \ {c})
      BY <1>1, <3>1
    <3>3. v[c] = w[c]
      BY <3>1
    <3> QED BY <2>0, <2>2, <3>2, <3>3
  <2> QED BY <2>1, <2>2
<1>2. P \in SUBSET Nat
  OBVIOUS
<1>3. P = Nat
  <2> HIDE DEF P
  <2> QED BY <1>1, <1>2, FromBelow
<1>4. S \in SUBSET S /\ Cardinality(S) \in P
  BY <1>0, <1>3
<1> QED BY <1>4

(* One weight changes, and its element may join or leave.                    *)
LEMMA SumChanged ==
  ASSUME NEW X, NEW v \in [X -> Int], NEW w \in [X -> Int], NEW x \in X,
         NEW A \in SUBSET X, NEW B \in SUBSET X, IsFiniteSet(A), IsFiniteSet(B),
         A \ {x} = B \ {x}, \A y \in X : y # x => v[y] = w[y]
  PROVE  SumOf(w, B) = SumOf(v, A) - (IF x \in A THEN v[x] ELSE 0) + (IF x \in B THEN w[x] ELSE 0)
<1>1. /\ SumOf(v, A) \in Int /\ SumOf(w, B) \in Int
      /\ x \in A => SumOf(v, A) = v[x] + SumOf(v, A \ {x})
      /\ x \in B => SumOf(w, B) = w[x] + SumOf(w, B \ {x})
  BY SumRemove
<1>2. A \ {x} \in SUBSET X /\ IsFiniteSet(A \ {x})
  BY FS_Subset
<1>3. SumOf(v, A \ {x}) = SumOf(w, A \ {x}) /\ SumOf(v, A \ {x}) \in Int
  <2>1. \A y \in A \ {x} : v[y] = w[y]
    OBVIOUS
  <2> QED BY <1>2, <2>1, SumSame, SumRemove
<1>4. x \notin A => A \ {x} = A
  OBVIOUS
<1>5. x \notin B => B \ {x} = B
  OBVIOUS
<1>6. v[x] \in Int /\ w[x] \in Int
  OBVIOUS
<1> DEFINE sv == SumOf(v, A)
           sw == SumOf(w, B)
           sr == SumOf(w, A \ {x})
<1>7. /\ sv = (IF x \in A THEN v[x] ELSE 0) + sr /\ sv \in Int /\ sr \in Int
      /\ sw = (IF x \in B THEN w[x] ELSE 0) + sr /\ sw \in Int
  <2> HIDE DEF sv, sw, sr
  <2>1. sv \in Int /\ sw \in Int /\ sr \in Int
    BY <1>1, <1>3 DEF sv, sw, sr
  <2>3. sv = (IF x \in A THEN v[x] ELSE 0) + sr
    <3>1. CASE x \in A
      <4>1. sv = v[x] + SumOf(v, A \ {x})
        BY <1>1, <3>1 DEF sv
      <4> QED BY <1>3, <3>1, <4>1 DEF sr
    <3>2. CASE x \notin A
      <4>1. sv = sr
        BY <1>3, <1>4, <3>2 DEF sv, sr
      <4> QED BY <2>1, <3>2, <4>1
    <3> QED BY <3>1, <3>2
  <2>4. sw = (IF x \in B THEN w[x] ELSE 0) + sr
    <3>1. CASE x \in B
      <4>1. sw = w[x] + SumOf(w, B \ {x})
        BY <1>1, <3>1 DEF sw
      <4> QED BY <3>1, <4>1 DEF sr
    <3>2. CASE x \notin B
      <4>1. sw = sr
        BY <1>5, <3>2 DEF sw, sr
      <4> QED BY <2>1, <3>2, <4>1
    <3> QED BY <3>1, <3>2
  <2> QED BY <2>1, <2>3, <2>4
<1> HIDE DEF sv, sw, sr
<1>8. sw = sv - (IF x \in A THEN v[x] ELSE 0) + (IF x \in B THEN w[x] ELSE 0)
  BY <1>6, <1>7
<1> QED BY <1>8 DEF sv, sw

(* Nothing adds up to zero.                                                 *)
LEMMA NoSum == ASSUME NEW w PROVE SumOf(w, {}) = 0
<1>1. IsFiniteSet({})
  BY FS_EmptySet
<1> QED BY <1>1, SumStep

(* The size of a block is a number.                                         *)
LEMMA SizeIsNat == ASSUME Inv, NEW b \in Blocks PROVE size[b] \in Nat
<1>1. Sizes \cup {0} \subseteq Nat
  BY SizesAreNat
<1> QED BY <1>1 DEF Inv, TypeOK

-----------------------------------------------------------------------------
(* The sums of the sizes                                                    *)

(* What i_malloc adds to used_memory: the size, in the page of the block.   *)
LEMMA MallocUsed ==
  ASSUME NEW h \in HeapType, h.current \in h.live, NEW s \in Nat, NEW a,
         NEW r \in MallocPaged(h, s, a), NEW q \in r.heap.live
  PROVE  r.heap.used[q] = (IF q \in h.live THEN h.used[q] ELSE 0)
                          + (IF q = r.heap.current THEN s ELSE 0)
<1>1. h.live \subseteq Pages /\ h.used \in [Pages -> Int]
  BY DEF HeapType
<1>2. \A g, o : g \in HeapType => /\ Carve(g, s, o).live = g.live
                                  /\ Carve(g, s, o).current = g.current
                                  /\ Carve(g, s, o).used = [g.used EXCEPT ![g.current] = @ + s]
  BY DEF Carve, HeapType
<1>3. CASE FitsCurrent(h, s, a)
  <2>1. r.heap = Carve(h, s, CurrentOffset(h, a))
    BY <1>3 DEF MallocPaged
  <2>2. /\ r.heap.live = h.live /\ r.heap.current = h.current
        /\ r.heap.used = [h.used EXCEPT ![h.current] = @ + s]
    BY <1>2, <2>1
  <2> QED BY <1>1, <2>2
<1>4. CASE ~FitsCurrent(h, s, a)
  <2>1. PICK p \in Pages \ h.live : r.heap = Carve(NewPage(h, p), s, FirstOffset(a))
    BY <1>4 DEF MallocPaged
  <2> DEFINE g == NewPage(h, p)
  <2>2. /\ g \in HeapType /\ g.live = h.live \cup {p} /\ g.current = p
        /\ g.used = [h.used EXCEPT ![p] = 0]
    BY HeapAssumption DEF HeapAssumption, HeapType, NewPage
  <2> HIDE DEF g
  <2>3. /\ r.heap.live = g.live /\ r.heap.current = g.current
        /\ r.heap.used = [g.used EXCEPT ![g.current] = @ + s]
    BY <1>2, <2>1, <2>2 DEF g
  <2>4. r.heap.used = [h.used EXCEPT ![p] = 0 + s]
    BY <1>1, <2>1, <2>2, <2>3
  <2>5. CASE q = p
    BY <1>1, <2>1, <2>2, <2>3, <2>4, <2>5
  <2>6. CASE q # p
    BY <1>1, <2>1, <2>2, <2>3, <2>4, <2>6
  <2> QED BY <2>5, <2>6
<1> QED BY <1>3, <1>4

Freed(g, h, b, s, a, q) ==
  /\ q \in h.live
  /\ \/ g.used[q] = h.used[q] - (IF Paged(s, a) /\ q = home[b] THEN s ELSE 0)
     \/ g.allocs[q] = 0 /\ g.used[q] = 0

(* What i_free takes from it, unless it reinitializes the page.             *)
LEMMA FreeUsed ==
  ASSUME NEW h \in HeapType, NEW b, NEW s \in Nat, NEW a, NEW g \in FreeBlock(h, b, s, a),
         NEW q \in g.live
  PROVE  Freed(g, h, b, s, a, q)
<1> USE DEF Freed
<1>1. h.live \subseteq Pages /\ h.used \in [Pages -> Int]
  BY DEF HeapType
<1>2. CASE ~Paged(s, a)
  <2>1. g = h
    BY <1>2 DEF FreeBlock
  <2> QED BY <1>1, <1>2, <2>1
<1>3. CASE Paged(s, a)
  <2> DEFINE p == home[b]
             k == [h EXCEPT !.allocs[p] = @ - 1, !.used[p] = @ - s]
  <2>1. p \in h.live /\ g = FreePaged(h, p, s)
    BY <1>3 DEF FreeBlock
  <2>2. /\ k.live = h.live /\ k.current = h.current /\ k.allocs = [h.allocs EXCEPT ![p] = @ - 1]
        /\ k.used = [h.used EXCEPT ![p] = @ - s] /\ k = [k EXCEPT !.next = k.next]
    BY DEF HeapType
  <2>3. CASE k.allocs[p] # 0
    <3>1. g = k
      BY <2>1, <2>3 DEF FreePaged
    <3> QED BY <1>1, <1>3, <2>1, <2>2, <3>1
  <2>4. CASE k.allocs[p] = 0 /\ p # h.current
    <3>1. g = Unlink(k, p)
      BY <2>1, <2>4 DEF FreePaged
    <3>2. g.live = h.live \ {p} /\ g.used = k.used
      BY <3>1 DEF Unlink, HeapType
    <3> QED BY <1>1, <1>3, <2>1, <2>2, <3>2
  <2>5. CASE k.allocs[p] = 0 /\ p = h.current
    <3>1. g = [k EXCEPT !.used[p] = 0, !.offset[p] = Header]
      BY <2>1, <2>5 DEF FreePaged
    <3>2. g.live = h.live /\ g.used = [k.used EXCEPT ![p] = 0] /\ g.allocs = k.allocs
      BY <3>1 DEF HeapType
    <3>3. CASE q = p
      BY <1>1, <2>1, <2>2, <2>5, <3>2, <3>3
    <3>4. CASE q # p
      BY <1>1, <2>1, <2>2, <2>5, <3>2, <3>4
    <3> QED BY <3>3, <3>4
  <2> QED BY <2>3, <2>4, <2>5
<1> QED BY <1>2, <1>3

(* One block stored anew changes the sum of its page by its sizes, and the  *)
(* sum of all blocks likewise.                                              *)
LEMMA SumAfter ==
  ASSUME Inv, Inv', NEW b \in Blocks, NEW x, NEW o, NEW s, SetBlock(b, x, o, s)
  PROVE  /\ \A q \in Pages : SumOf(size', BlocksIn(q)') =
              SumOf(size, BlocksIn(q)) - (IF home[b] = q THEN size[b] ELSE 0) + (IF x = q THEN s ELSE 0)
         /\ SumOf(size', Live') =
              SumOf(size, Live) - (IF b \in Live THEN size[b] ELSE 0) + (IF x # NULL THEN s ELSE 0)
<1>1. /\ home' = [home EXCEPT ![b] = x] /\ size' = [size EXCEPT ![b] = s]
      /\ home \in [Blocks -> Pages \cup {OWN, NULL}] /\ IsFiniteSet(Blocks)
      /\ size \in [Blocks -> Sizes \cup {0}] /\ size' \in [Blocks -> Sizes \cup {0}]
  BY HeapAssumption DEF HeapAssumption, Inv, TypeOK, SetBlock
<1>2. size \in [Blocks -> Int] /\ size' \in [Blocks -> Int]
  <2>1. Sizes \cup {0} \subseteq Int
    BY SizesAreNat
  <2>2. \A f \in [Blocks -> Sizes \cup {0}] : f \in [Blocks -> Int]
    BY <2>1
  <2> QED BY <1>1, <2>2
<1>3. home'[b] = x /\ size'[b] = s /\ \A c \in Blocks : c # b => home'[c] = home[c] /\ size[c] = size'[c]
  BY <1>1
<1>4. ASSUME NEW q \in Pages
      PROVE  SumOf(size', BlocksIn(q)') =
              SumOf(size, BlocksIn(q)) - (IF home[b] = q THEN size[b] ELSE 0) + (IF x = q THEN s ELSE 0)
  <2> DEFINE A == BlocksIn(q)
             B == BlocksIn(q)'
  <2>1. A \in SUBSET Blocks /\ B \in SUBSET Blocks /\ A \ {b} = B \ {b}
        /\ (b \in A <=> home[b] = q) /\ (b \in B <=> x = q)
    BY <1>3 DEF BlocksIn
  <2>2. IsFiniteSet(A) /\ IsFiniteSet(B)
    BY <1>1, <2>1, FS_Subset
  <2> HIDE DEF A, B
  <2>3. SumOf(size', B) = SumOf(size, A) - (IF b \in A THEN size[b] ELSE 0) + (IF b \in B THEN size'[b] ELSE 0)
    BY <1>2, <1>3, <2>1, <2>2, SumChanged
  <2>4. SumOf(size', B) = SumOf(size, A) - (IF home[b] = q THEN size[b] ELSE 0) + (IF x = q THEN s ELSE 0)
    BY <1>3, <2>1, <2>3
  <2> QED BY <2>4 DEF A, B
<1>5. SumOf(size', Live') =
        SumOf(size, Live) - (IF b \in Live THEN size[b] ELSE 0) + (IF x # NULL THEN s ELSE 0)
  <2> DEFINE A == Live
             B == Live'
  <2>1. A \in SUBSET Blocks /\ B \in SUBSET Blocks /\ A \ {b} = B \ {b} /\ (b \in B <=> x # NULL)
    BY <1>3 DEF Live
  <2>2. IsFiniteSet(A) /\ IsFiniteSet(B)
    BY <1>1, <2>1, FS_Subset
  <2> HIDE DEF A, B
  <2>3. SumOf(size', B) = SumOf(size, A) - (IF b \in A THEN size[b] ELSE 0) + (IF b \in B THEN size'[b] ELSE 0)
    BY <1>2, <1>3, <2>1, <2>2, SumChanged
  <2>4. SumOf(size', B) = SumOf(size, A) - (IF b \in A THEN size[b] ELSE 0) + (IF x # NULL THEN s ELSE 0)
    BY <1>3, <2>1, <2>3
  <2> QED BY <2>4 DEF A, B
<1> QED BY <1>4, <1>5

(* The used memory of each page, and the totals of the leak report, as the  *)
(* sums and counts they stand for.                                          *)
UsedInv == \A q \in heap.live : heap.used[q] = SumOf(size, BlocksIn(q))

Totals == bytes = SumOf(size, Live) /\ balance = bytes /\ outstanding = Cardinality(Live)

Reported == leaks # NULL => (leaks = "some" <=> Live # {})

SumInv == UsedInv /\ Totals /\ Reported

(* The blocks are finitely many, so their sums are numbers.                 *)
LEMMA SumsAreNumbers ==
  ASSUME Inv
  PROVE  /\ SumOf(size, Live) \in Int /\ IsFiniteSet(Live)
         /\ \A q : SumOf(size, BlocksIn(q)) \in Int /\ IsFiniteSet(BlocksIn(q))
<1>1. IsFiniteSet(Blocks) /\ Sizes \cup {0} \subseteq Int /\ size \in [Blocks -> Sizes \cup {0}]
  BY SizesAreNat, HeapAssumption DEF HeapAssumption, Inv, TypeOK
<1>2. size \in [Blocks -> Int]
  BY <1>1
<1>3. \A T \in SUBSET Blocks : IsFiniteSet(T) /\ SumOf(size, T) \in Int
  BY <1>1, <1>2, FS_Subset, SumRemove
<1>4. Live \in SUBSET Blocks /\ \A q : BlocksIn(q) \in SUBSET Blocks
  BY DEF Live, BlocksIn
<1> QED BY <1>3, <1>4

(* A page that counts no block has none; a page that is not held neither.   *)
LEMMA NoneIn ==
  ASSUME Inv, NEW q \in Pages, q \in heap.live => heap.allocs[q] = 0
  PROVE  BlocksIn(q) = {}
<1> SUFFICES ASSUME NEW b \in Blocks, home[b] = q PROVE FALSE
  BY DEF BlocksIn
<1>1. Ext(b) \in Extents /\ Ext(b).page = q
  BY DEF Extents, Ext, InPage
<1>2. q \in heap.live
  BY <1>1 DEF Inv, HeapOK, Placed
<1>3. Cardinality(In(Extents, q)) = 0 /\ IsFiniteSet(Extents)
  BY <1>2 DEF Inv, HeapOK, Counted
<1>4. In(Extents, q) = {}
  BY <1>3, InFinite
<1> QED BY <1>1, <1>4 DEF In

(* The totals after a step that stores one block anew.                      *)
LEMMA TotalsAfter ==
  ASSUME Inv, Inv', SumInv, NEW b \in Blocks, NEW x, NEW o, NEW s \in Nat, SetBlock(b, x, o, s),
         x = NULL => s = 0,
         bytes' = bytes - (IF b \in Live THEN size[b] ELSE 0) + s,
         balance' = balance - (IF b \in Live THEN size[b] ELSE 0) + s,
         outstanding' = outstanding - (IF b \in Live THEN 1 ELSE 0) + (IF x # NULL THEN 1 ELSE 0)
  PROVE  Totals'
<1>1. bytes \in Int /\ size[b] \in Nat /\ IsFiniteSet(Live) /\ SumOf(size, Live) \in Int
  BY SumsAreNumbers, SizeIsNat DEF Inv, TypeOK
<1>2. SumOf(size', Live') =
        SumOf(size, Live) - (IF b \in Live THEN size[b] ELSE 0) + (IF x # NULL THEN s ELSE 0)
  BY SumAfter
<1>3. SumOf(size', Live') = SumOf(size, Live) - (IF b \in Live THEN size[b] ELSE 0) + s
  BY <1>1, <1>2
<1>4. bytes' = SumOf(size', Live') /\ balance' = bytes'
  BY <1>1, <1>3 DEF SumInv, Totals
<1>5. home \in [Blocks -> Pages \cup {OWN, NULL}] /\ home' = [home EXCEPT ![b] = x]
  BY DEF Inv, TypeOK, SetBlock
<1>6. Live' = IF x # NULL THEN Live \cup {b} ELSE Live \ {b}
  BY <1>5 DEF Live
<1>7. /\ Cardinality(Live \cup {b}) = IF b \in Live THEN Cardinality(Live) ELSE Cardinality(Live) + 1
      /\ Cardinality(Live \ {b}) = IF b \in Live THEN Cardinality(Live) - 1 ELSE Cardinality(Live)
      /\ Cardinality(Live) \in Nat
  BY <1>1, FS_AddElement, FS_RemoveElement, FS_CardinalityType
<1>8. outstanding' = Cardinality(Live')
  BY <1>6, <1>7 DEF SumInv, Totals
<1> QED BY <1>4, <1>8 DEF Totals

(* heap_malloc adds the size to the page of the block and to no other.      *)
LEMMA UsedMalloc ==
  ASSUME Inv, Inv', SumInv, ~MixedClass, NEW b \in Blocks, NEW s \in Sizes, NEW a \in Aligns, Malloc(b, s, a)
  PROVE  UsedInv'
<1>0. s \in Nat /\ home[b] = NULL /\ NULL \notin Pages /\ OWN \notin Pages
  BY SizesAreNat, HeapAssumption DEF HeapAssumption, Malloc, Live
<1>1. /\ heap \in HeapType /\ heap.current \in heap.live /\ heap.live \subseteq Pages
      /\ heap' \in HeapType /\ heap'.live \subseteq Pages
  BY DEF Inv, HeapOK, HeapType
<1> SUFFICES ASSUME NEW q \in heap'.live PROVE heap'.used[q] = SumOf(size', BlocksIn(q)')
  BY DEF UsedInv
<1>2. q \in Pages /\ SumOf(size, BlocksIn(q)) \in Int
  BY <1>1, SumsAreNumbers
<1>3. SumOf(size, BlocksIn(q)) = IF q \in heap.live THEN heap.used[q] ELSE 0
  <2>1. q \notin heap.live => BlocksIn(q) = {}
    BY <1>2, NoneIn
  <2> QED BY <2>1, NoSum DEF SumInv, UsedInv
<1>4. CASE Paged(s, a)
  <2>1. PICK r \in MallocPaged(heap, s, a) : heap' = r.heap /\ SetBlock(b, r.heap.current, r.at, s)
    BY <1>4 DEF Malloc
  <2>2. heap'.used[q] = (IF q \in heap.live THEN heap.used[q] ELSE 0) + (IF q = heap'.current THEN s ELSE 0)
    <3>1. q \in r.heap.live
      BY <2>1
    <3>2. r.heap.used[q] = (IF q \in heap.live THEN heap.used[q] ELSE 0) + (IF q = r.heap.current THEN s ELSE 0)
      BY <1>0, <1>1, <3>1, MallocUsed
    <3> QED BY <2>1, <3>2
  <2>3. SumOf(size', BlocksIn(q)') = SumOf(size, BlocksIn(q)) - (IF home[b] = q THEN size[b] ELSE 0)
                                     + (IF r.heap.current = q THEN s ELSE 0)
    BY <1>2, <2>1, SumAfter
  <2> QED BY <1>0, <1>2, <1>3, <2>1, <2>2, <2>3
<1>5. CASE ~Paged(s, a)
  <2>1. heap' = heap /\ SetBlock(b, OWN, 0, s)
    BY <1>5 DEF Malloc
  <2>2. SumOf(size', BlocksIn(q)') = SumOf(size, BlocksIn(q)) - (IF home[b] = q THEN size[b] ELSE 0)
                                     + (IF OWN = q THEN s ELSE 0)
    BY <1>2, <2>1, SumAfter
  <2> QED BY <1>0, <1>2, <1>3, <2>1, <2>2
<1> QED BY <1>4, <1>5

(* i_free as heap_free and heap_realloc call it: h is the heap before, and  *)
(* the block is stored anew at x.                                           *)
LEMMA UsedFree ==
  ASSUME Inv, Inv', NEW b \in Blocks, NEW x, NEW o, NEW s \in Nat, SetBlock(b, x, o, s),
         NEW a, Paged(size[b], a) <=> InPage(b), NEW h \in HeapType, heap' \in FreeBlock(h, b, size[b], a),
         \A q \in h.live : h.used[q] = SumOf(size, BlocksIn(q)) + (IF q = x THEN s ELSE 0)
  PROVE  UsedInv'
<1>1. heap'.live \subseteq Pages /\ size[b] \in Nat
  BY SizeIsNat DEF Inv, TypeOK, HeapType
<1> SUFFICES ASSUME NEW q \in heap'.live PROVE heap'.used[q] = SumOf(size', BlocksIn(q)')
  BY DEF UsedInv
<1>2. q \in Pages /\ SumOf(size, BlocksIn(q)) \in Int
  BY <1>1, SumsAreNumbers
<1>3. /\ q \in h.live
      /\ \/ heap'.used[q] = h.used[q] - (IF Paged(size[b], a) /\ q = home[b] THEN size[b] ELSE 0)
         \/ heap'.allocs[q] = 0 /\ heap'.used[q] = 0
  <2>1. Freed(heap', h, b, size[b], a, q)
    BY <1>1, FreeUsed
  <2> QED BY <2>1 DEF Freed
<1>4. SumOf(size', BlocksIn(q)') = SumOf(size, BlocksIn(q)) - (IF home[b] = q THEN size[b] ELSE 0)
                                   + (IF x = q THEN s ELSE 0)
  BY <1>2, SumAfter
<1>5. q = home[b] => Paged(size[b], a)
  BY <1>2 DEF InPage
<1>6. CASE heap'.allocs[q] = 0 /\ heap'.used[q] = 0
  <2>1. BlocksIn(q)' = {}
    <3>1. \A c \in Blocks : home'[c] # q
      <4> SUFFICES ASSUME NEW c \in Blocks, home'[c] = q PROVE FALSE
        OBVIOUS
      <4>1. Ext(c)' \in Extents' /\ Ext(c)'.page = q
        BY <1>2 DEF Extents, Ext, InPage
      <4>2. HeapOK(heap', Extents')
        BY DEF Inv
      <4>3. Cardinality(In(Extents', q)) = 0 /\ IsFiniteSet(Extents')
        BY <1>6, <4>2 DEF HeapOK, Counted
      <4>4. In(Extents', q) = {}
        BY <4>3, InFinite
      <4> QED BY <4>1, <4>4 DEF In
    <3> QED BY <3>1 DEF BlocksIn
  <2> QED BY <1>6, <2>1, NoSum
<1>7. CASE heap'.used[q] = h.used[q] - (IF Paged(size[b], a) /\ q = home[b] THEN size[b] ELSE 0)
  <2>1. h.used[q] = SumOf(size, BlocksIn(q)) + (IF q = x THEN s ELSE 0)
    BY <1>3
  <2> QED BY <1>1, <1>2, <1>4, <1>5, <1>7, <2>1
<1> QED BY <1>3, <1>6, <1>7

(* heap_realloc adds the new size, then takes the old one, also when both   *)
(* are of one page.                                                         *)
LEMMA UsedRealloc ==
  ASSUME Inv, Inv', SumInv, ~MixedClass, NEW b \in Blocks, NEW s \in Sizes, NEW a \in Aligns, Realloc(b, s, a)
  PROVE  UsedInv'
<1>0. s \in Nat /\ OWN \notin Pages /\ size[b] \in Nat /\ a \in Nat \ {0}
      /\ (Paged(size[b], a) <=> InPage(b))
  <2>1. MixedClass = FALSE /\ OWN \notin Pages
    BY HeapAssumption DEF HeapAssumption
  <2>2. size[b] \in Sizes /\ (Paged(size[b], Ptr) <=> InPage(b))
    BY DEF Inv, Classes, Realloc
  <2> QED BY <2>1, <2>2, SizesAreNat DEF Realloc, SameClass
<1>1. /\ heap \in HeapType /\ heap.current \in heap.live /\ heap.live \subseteq Pages
      /\ HeapOK(heap, Extents)
  BY DEF Inv, HeapOK, HeapType
<1>2. \A q \in Pages : /\ SumOf(size, BlocksIn(q)) \in Int
                       /\ SumOf(size, BlocksIn(q)) = IF q \in heap.live THEN heap.used[q] ELSE 0
  <2> TAKE q \in Pages
  <2>1. q \notin heap.live => BlocksIn(q) = {}
    BY NoneIn
  <2> QED BY <2>1, NoSum, SumsAreNumbers DEF SumInv, UsedInv
<1>3. CASE Paged(s, a)
  <2>1. PICK r \in MallocPaged(heap, s, a) :
          heap' \in FreeBlock(r.heap, b, size[b], a) /\ SetBlock(b, r.heap.current, r.at, s)
    BY <1>3 DEF Realloc
  <2>2. HeapOK(r.heap, Extents \cup {[page |-> r.heap.current, at |-> r.at, size |-> s]})
    BY <1>0, <1>1, <1>3, MallocLemma
  <2>3. r.heap \in HeapType /\ r.heap.live \subseteq Pages
    BY <2>2 DEF HeapOK, HeapType
  <2>4. \A q \in r.heap.live :
          r.heap.used[q] = SumOf(size, BlocksIn(q)) + (IF q = r.heap.current THEN s ELSE 0)
    <3> TAKE q \in r.heap.live
    <3>1. r.heap.used[q] = (IF q \in heap.live THEN heap.used[q] ELSE 0)
                           + (IF q = r.heap.current THEN s ELSE 0)
      BY <1>0, <1>1, <2>1, MallocUsed
    <3> QED BY <1>2, <2>3, <3>1
  <2> QED BY <1>0, <2>1, <2>3, <2>4, UsedFree
<1>4. CASE ~Paged(s, a)
  <2>1. SetBlock(b, OWN, 0, s)
    BY <1>4 DEF Realloc
  <2>2. heap' \in FreeBlock(heap, b, size[b], a)
    BY <1>4 DEF Realloc, FreeBlock
  <2>3. \A q \in heap.live : heap.used[q] = SumOf(size, BlocksIn(q)) + (IF q = OWN THEN s ELSE 0)
    <3> TAKE q \in heap.live
    <3>1. q # OWN /\ heap.used[q] = SumOf(size, BlocksIn(q)) /\ SumOf(size, BlocksIn(q)) \in Int
      BY <1>0, <1>1, <1>2
    <3> QED BY <3>1
  <2> QED BY <1>0, <1>1, <2>1, <2>2, <2>3, UsedFree
<1> QED BY <1>3, <1>4

(* An empty heap adds up to nothing.                                        *)
LEMMA SumsInit == Init => SumInv
<1> SUFFICES ASSUME Init PROVE SumInv
  OBVIOUS
<1>1. Live = {} /\ \A q \in heap.live : BlocksIn(q) = {} /\ heap.used[q] = 0
  BY HeapAssumption DEF HeapAssumption, Init, Live, BlocksIn
<1>2. UsedInv
  BY <1>1, NoSum DEF UsedInv
<1>3. Totals
  BY <1>1, NoSum, FS_EmptySet DEF Totals, Init
<1>4. Reported
  BY DEF Reported, Init
<1> QED BY <1>2, <1>3, <1>4 DEF SumInv

(* Every step keeps the sums.                                               *)
LEMMA SumsKept ==
  ASSUME Inv, Inv', SumInv, ~MixedClass, [Next]_vars
  PROVE  SumInv'
<1>0. /\ Sizes \subseteq Nat /\ OWN # NULL /\ NULL \notin Pages
      /\ home \in [Blocks -> Pages \cup {OWN, NULL}] /\ size \in [Blocks -> Sizes \cup {0}]
      /\ bytes \in Int /\ balance \in Int /\ outstanding \in Int
  BY SizesAreNat, HeapAssumption DEF HeapAssumption, Inv, TypeOK
<1>1. ASSUME NEW b \in Blocks, NEW s \in Sizes, NEW a \in Aligns, Malloc(b, s, a) PROVE SumInv'
  <2>1. UsedInv'
    BY <1>1, UsedMalloc
  <2>2. PICK x, o : x \in Pages \cup {OWN} /\ SetBlock(b, x, o, s)
    <3>1. CASE ~Paged(s, a)
      BY <1>1, <3>1 DEF Malloc
    <3>2. CASE Paged(s, a)
      <4>1. PICK r \in MallocPaged(heap, s, a) : heap' = r.heap /\ SetBlock(b, r.heap.current, r.at, s)
        BY <1>1, <3>2 DEF Malloc
      <4>2. heap'.current \in Pages
        BY DEF Inv, TypeOK, HeapType
      <4> QED BY <4>1, <4>2
    <3> QED BY <3>1, <3>2
  <2>4. Totals'
    <3>1. b \notin Live /\ x # NULL
      BY <1>0, <1>1, <2>2 DEF Malloc
    <3>2. /\ bytes' = bytes - (IF b \in Live THEN size[b] ELSE 0) + s
          /\ balance' = balance - (IF b \in Live THEN size[b] ELSE 0) + s
          /\ outstanding' = outstanding + 1
      BY <1>0, <1>1, <3>1 DEF Malloc
    <3>3. outstanding' = outstanding - (IF b \in Live THEN 1 ELSE 0) + (IF x # NULL THEN 1 ELSE 0)
      BY <1>0, <3>1, <3>2
    <3> QED BY <1>0, <2>2, <3>1, <3>2, <3>3, TotalsAfter
  <2>5. Reported'
    BY <1>1 DEF Malloc, Reported
  <2> QED BY <2>1, <2>4, <2>5 DEF SumInv
<1>2. ASSUME NEW b \in Blocks, NEW s \in Sizes, NEW a \in Aligns, Realloc(b, s, a) PROVE SumInv'
  <2>1. UsedInv'
    BY <1>2, UsedRealloc
  <2>2. PICK x, o : x \in Pages \cup {OWN} /\ SetBlock(b, x, o, s)
    <3>1. CASE ~Paged(s, a)
      BY <1>2, <3>1 DEF Realloc
    <3>2. CASE Paged(s, a)
      <4>1. PICK r \in MallocPaged(heap, s, a) :
              heap' \in FreeBlock(r.heap, b, size[b], a) /\ SetBlock(b, r.heap.current, r.at, s)
        BY <1>2, <3>2 DEF Realloc
      <4>2. HeapOK(heap, Extents)
        BY DEF Inv
      <4>3. HeapOK(r.heap, Extents \cup {[page |-> r.heap.current, at |-> r.at, size |-> s]})
        <5>1. s \in Nat /\ a \in Nat \ {0}
          BY SizesAreNat
        <5> QED BY <3>2, <4>1, <4>2, <5>1, MallocLemma
      <4>4. r.heap.current \in Pages
        BY <4>3 DEF HeapOK, HeapType
      <4> QED BY <4>1, <4>4
    <3> QED BY <3>1, <3>2
  <2>3. Totals'
    <3>1. b \in Live /\ x # NULL /\ size[b] \in Nat /\ s \in Nat
      BY <1>0, <1>2, <2>2, SizeIsNat DEF Realloc
    <3>2. bytes' = bytes - (IF b \in Live THEN size[b] ELSE 0) + s /\ balance' = balance - (IF b \in Live THEN size[b] ELSE 0) + s /\ outstanding' = outstanding
      BY <1>0, <1>2, <3>1 DEF Realloc, Resized
    <3>3. outstanding' = outstanding - (IF b \in Live THEN 1 ELSE 0) + (IF x # NULL THEN 1 ELSE 0)
      BY <1>0, <3>1, <3>2
    <3> QED BY <1>0, <2>2, <3>1, <3>2, <3>3, TotalsAfter
  <2>4. Reported'
    BY <1>2 DEF Realloc, Reported
  <2> QED BY <2>1, <2>3, <2>4 DEF SumInv
<1>3. ASSUME NEW b \in Blocks, Free(b) PROVE SumInv'
  <2>0. SetBlock(b, NULL, 0, 0) /\ b \in Live /\ size[b] \in Nat
    BY <1>3, SizeIsNat DEF Free
  <2>1. UsedInv'
    <3>1. heap' \in FreeBlock(heap, b, size[b], Ptr) /\ (Paged(size[b], Ptr) <=> InPage(b))
      BY <1>3 DEF Free, Inv, Classes
    <3>2. \A q \in heap.live : heap.used[q] = SumOf(size, BlocksIn(q)) + (IF q = NULL THEN 0 ELSE 0)
      BY SumsAreNumbers DEF SumInv, UsedInv
    <3>3. heap \in HeapType
      BY DEF Inv, TypeOK
    <3> QED BY <2>0, <3>1, <3>2, <3>3, UsedFree
  <2>3. Totals'
    <3>2. bytes' = bytes - (IF b \in Live THEN size[b] ELSE 0) + 0 /\ balance' = balance - (IF b \in Live THEN size[b] ELSE 0) + 0 /\ outstanding' = outstanding - 1
      BY <1>0, <1>3, <2>0 DEF Free
    <3>3. outstanding' = outstanding - (IF b \in Live THEN 1 ELSE 0) + (IF NULL # NULL THEN 1 ELSE 0)
      BY <1>0, <2>0, <3>2
    <3> QED BY <2>0, <3>2, <3>3, TotalsAfter
  <2>4. Reported'
    BY <1>3 DEF Free, Reported
  <2> QED BY <2>1, <2>3, <2>4 DEF SumInv
<1>4. ASSUME UNCHANGED <<heap, blockVars, counters>> PROVE UsedInv' /\ Totals' /\ Live' = Live
  BY <1>4 DEF SumInv, UsedInv, Totals, Live, BlocksIn, blockVars, counters
<1>5. CASE Finish
  <2>1. leaks' = IF outstanding # 0 \/ balance # 0 \/ bytes > 0 THEN "some" ELSE "none"
    BY <1>5 DEF Finish
  <2>2. UsedInv' /\ Totals' /\ Live' = Live
    BY <1>4, <1>5 DEF Finish
  <2>3. Live = {} => outstanding = 0 /\ balance = 0 /\ bytes = 0
    BY NoSum, FS_EmptySet DEF SumInv, Totals
  <2>4. Live # {} => outstanding # 0
    BY SumsAreNumbers, FS_EmptySet DEF SumInv, Totals
  <2> QED BY <2>1, <2>2, <2>3, <2>4 DEF SumInv, Reported
<1>6. CASE UNCHANGED vars
  <2>1. UsedInv' /\ Totals' /\ Live' = Live /\ leaks' = leaks
    BY <1>4, <1>6 DEF vars
  <2> QED BY <2>1 DEF SumInv, Reported
<1> QED BY <1>1, <1>2, <1>3, <1>5, <1>6 DEF Next

-----------------------------------------------------------------------------
(* Both invariants hold of every execution.                                 *)
LEMMA SumInvariance == ~MixedClass => (Spec => [](Inv /\ SumInv))
<1> SUFFICES ASSUME ~MixedClass PROVE Spec => [](Inv /\ SumInv)
  OBVIOUS
<1>1. Init => SumInv
  BY SumsInit
<1>2. Inv /\ Inv' /\ SumInv /\ [Next]_vars => SumInv'
  BY SumsKept
<1>3. Spec => []Inv
  BY HeapInvariance
<1> QED BY <1>1, <1>2, <1>3, PTL DEF Spec

(* The blocks of a page are as many as the extents in it.                   *)
LEMMA CountsBlocks ==
  ASSUME Inv, NEW q \in Pages
  PROVE  Cardinality(In(Extents, q)) = Cardinality(BlocksIn(q))
<1> DEFINE S == BlocksIn(q)
           T == In(Extents, q)
           F == [b \in S |-> Ext(b)]
<1>1. \A b \in S : b \in Blocks /\ InPage(b) /\ Ext(b) \in T
  BY DEF BlocksIn, InPage, Extents, In, Ext
<1>2. \A b, c \in S : F[b] = F[c] => b = c
  BY <1>1 DEF Inv, Distinct
<1>3. \A e \in T : \E b \in S : F[b] = e
  <2> SUFFICES ASSUME NEW e \in T PROVE \E b \in S : F[b] = e
    OBVIOUS
  <2>1. PICK b \in Blocks : e = Ext(b) /\ home[b] = q
    BY DEF In, Extents, Ext
  <2>2. b \in S
    BY <2>1 DEF BlocksIn
  <2> QED BY <2>1, <2>2
<1>4. F \in [S -> T]
  BY <1>1
<1>5. IsFiniteSet(S)
  BY SumsAreNumbers
<1> HIDE DEF S, T, F
<1>6. ExistsBijection(S, T)
  BY <1>2, <1>3, <1>4, Fun_IsBij, Fun_ExistsBij
<1>7. Cardinality(T) = Cardinality(S)
  BY <1>5, <1>6, FS_Bijection
<1> QED BY <1>7 DEF S, T

(* The counters of a page are those of the blocks in it, for every page     *)
(* size, header, set of sizes and set of alignments (i_malloc, i_free): the *)
(* page is given back, or reinitialized, exactly with its last block.       *)
THEOREM PagesAccounted == ~MixedClass => (Spec => []PageAccounting)
<1>1. Inv /\ SumInv => PageAccounting
  <2> SUFFICES ASSUME Inv, SumInv, NEW p \in heap.live
               PROVE  heap.allocs[p] = Cardinality(BlocksIn(p)) /\ heap.used[p] = SumOf(size, BlocksIn(p))
    BY DEF PageAccounting, SumOf
  <2>1. heap.allocs[p] = Cardinality(In(Extents, p)) /\ p \in Pages
    BY DEF Inv, HeapOK, HeapType, Counted
  <2>2. Cardinality(In(Extents, p)) = Cardinality(BlocksIn(p))
    BY <2>1, CountsBlocks
  <2> QED BY <2>1, <2>2 DEF SumInv, UsedInv
<1> QED BY <1>1, SumInvariance, PTL

(* The leak report of _heap_finish fails exactly when a block is live, and  *)
(* without one only the current page is left.  What it takes is that the    *)
(* totals are the sum of the live sizes and the number of live blocks.      *)
THEOREM LeaksReported == ~MixedClass => (Spec => []LeakReport)
<1>1. Inv /\ SumInv => LeakReport
  <2> SUFFICES ASSUME Inv, SumInv
               PROVE  /\ bytes = SumOf(size, Live)
                      /\ leaks # NULL => (leaks = "some" <=> Live # {})
                      /\ leaks = "none" => heap.live = {heap.current}
    BY DEF LeakReport, SumOf
  <2>1. bytes = SumOf(size, Live) /\ (leaks # NULL => (leaks = "some" <=> Live # {}))
    BY DEF SumInv, Totals, Reported
  <2>2. ASSUME leaks = "none" PROVE heap.live = {heap.current}
    <3>1. Live = {} /\ NULL \notin Pages
      BY <2>1, <2>2, HeapAssumption DEF HeapAssumption
    <3>2. \A q : In(Extents, q) = {}
      BY <3>1 DEF Extents, In, InPage, Live
    <3> QED BY <3>2 DEF Inv, HeapOK, Counted
  <2> QED BY <2>1, <2>2
<1> QED BY <1>1, SumInvariance, PTL
=============================================================================
