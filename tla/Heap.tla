-------------------------------- MODULE Heap --------------------------------
(***************************************************************************)
(* The paged allocator of core/heap.c, called by one thread at a time.     *)
(* Blocks are carved one behind another from a page; a block is followed   *)
(* by a pointer to its page, read by heap_free to find the counters of the *)
(* page.  A page is given back as a whole when its last block is freed.    *)
(* A block too large for a page is a system allocation of its own.  The    *)
(* size given to heap_free, not the block, tells the two kinds apart.      *)
(*                                                                         *)
(* Addresses are a page and an offset in it.  The counters that are only   *)
(* logged (pages created, peak size, reallocations) are left out, and of   *)
(* the totals the leak report compares their difference is kept.           *)
(***************************************************************************)
EXTENDS Integers, FiniteSets, FiniteSetsExt

CONSTANTS
  PageSize,  (* i_PAGESIZE                                                  *)
  Header,    (* sizeof(i_Page)                                              *)
  Ptr,       (* sizeofptr                                                   *)
  Sizes,     (* the block sizes the program asks for                        *)
  Aligns,    (* the alignments it asks for                                  *)
  Blocks,    (* the names of its blocks                                     *)
  Pages,     (* the addresses the system gives pages                        *)
  NULL,
  OWN,       (* the "page" of a block with a system allocation of its own   *)
  MixedClass (* may a block be in the other class for sizeofptr, the        *)
             (* alignment heap_free assumes, than for its own alignment?    *)

ASSUME HeapAssumption ==
  /\ PageSize \in Nat /\ Header \in Nat \ {0} /\ Ptr \in Nat \ {0}
  /\ Sizes \subseteq Nat \ {0}
  /\ Aligns \subseteq Nat \ {0} /\ Ptr \in Aligns
  /\ PageSize > Header
  /\ NULL \notin Pages \cup {"none", "some"} /\ OWN \notin Pages /\ OWN # NULL
  /\ Pages # {} /\ IsFiniteSet(Blocks)
  /\ MixedClass \in BOOLEAN

VARIABLES
  heap,        (* the pages of i_MEMORY: see HeapType                       *)
  home,        (* the page that a block is in, OWN, or NULL when not live   *)
  pos,         (* its offset in the page                                    *)
  size,        (* the size it was requested with                            *)
  bytes,       (* i_MEMORY.bytes_allocated                                  *)
  outstanding, (* num_allocs - num_deallocs                                 *)
  balance,     (* total_bytes_allocated - total_bytes_deallocated           *)
  leaks        (* i_HEAP_LEAKS once _heap_finish ran, NULL before           *)

counters == <<bytes, outstanding, balance>>
blockVars == <<home, pos, size>>
vars == <<heap, blockVars, counters, leaks>>

HeapType ==
  [live : SUBSET Pages, current : Pages,
   allocs : [Pages -> Nat], used : [Pages -> Int], offset : [Pages -> Nat],
   next : [Pages -> Pages \cup {NULL}], prev : [Pages -> Pages \cup {NULL}]]

TypeOK ==
  /\ heap \in HeapType
  /\ home \in [Blocks -> Pages \cup {OWN, NULL}]
  /\ pos \in [Blocks -> Nat]
  /\ size \in [Blocks -> Sizes \cup {0}]
  /\ bytes \in Int /\ outstanding \in Int /\ balance \in Int
  /\ leaks \in {NULL, "none", "some"}

Live == {b \in Blocks : home[b] # NULL}

-----------------------------------------------------------------------------
(* i_malloc and i_free on the pages                                         *)

(* The size test of i_malloc, i_free and i_realloc. *)
Paged(s, a) == s + a + Header + Ptr < PageSize

AlignUp(o, a) == IF o % a > 0 THEN o + a - (o % a) ELSE o

(* i_new_page: page p, just obtained from the system, becomes the current   *)
(* page and the tail of the list.                                           *)
NewPage(h, p) ==
  [live    |-> h.live \cup {p},
   current |-> p,
   allocs  |-> [h.allocs EXCEPT ![p] = 0],
   used    |-> [h.used EXCEPT ![p] = 0],
   offset  |-> [h.offset EXCEPT ![p] = Header],
   next    |-> [h.next EXCEPT ![p] = NULL, ![h.current] = p],
   prev    |-> [h.prev EXCEPT ![p] = h.current]]

(* Mutant: no room is kept for the page pointer behind the block. *)
CarveNoTrailer(h, s, o) ==
  [h EXCEPT !.allocs[h.current] = @ + 1,
            !.used[h.current]   = @ + s,
            !.offset[h.current] = o + s]

(* A block of s bytes at offset o of the current page, and its trailer. *)
Carve(h, s, o) ==
  [h EXCEPT !.allocs[h.current] = @ + 1,
            !.used[h.current]   = @ + s,
            !.offset[h.current] = o + s + Ptr]

(* Where i_malloc would put a block in the current page, and where it puts  *)
(* it in a new page.                                                        *)
CurrentOffset(h, a) == AlignUp(h.offset[h.current], a)
FirstOffset(a) == Header + (Header % a)

FitsCurrent(h, s, a) == CurrentOffset(h, a) + s + Ptr < PageSize

(* The outcomes of the paged branch of i_malloc: the heap after it and the  *)
(* offset of the block, which is in its current page.                       *)
MallocPaged(h, s, a) ==
  IF FitsCurrent(h, s, a)
  THEN {[heap |-> Carve(h, s, CurrentOffset(h, a)), at |-> CurrentOffset(h, a)]}
  ELSE {[heap |-> Carve(NewPage(h, p), s, FirstOffset(a)), at |-> FirstOffset(a)] : p \in Pages \ h.live}

(* Mutant: the neighbour towards the tail keeps its pointer to the page. *)
UnlinkHalf(h, p) ==
  [h EXCEPT !.live   = @ \ {p},
            !.offset = [@ EXCEPT ![p] = 0],
            !.next   = [q \in Pages |-> IF q = p THEN NULL
                                        ELSE IF q = h.prev[p] THEN h.next[p] ELSE h.next[q]]]

(* Mutant: the page before the released one becomes the current page. *)
UnlinkRetreat(h, p) == [h EXCEPT !.live = @ \ {p}, !.current = h.prev[p]]

(* i_free on a page with no block left that is not the current page: it     *)
(* leaves the list and goes back to the system.                             *)
Unlink(h, p) ==
  [h EXCEPT !.live   = @ \ {p},
            !.offset = [@ EXCEPT ![p] = 0],
            !.prev   = [q \in Pages |-> IF q = p THEN NULL
                                        ELSE IF q = h.next[p] THEN h.prev[p] ELSE h.prev[q]],
            !.next   = [q \in Pages |-> IF q = p THEN NULL
                                        ELSE IF q = h.prev[p] THEN h.next[p] ELSE h.next[q]]]

(* Mutant: the current page is released like any other. *)
FreePagedCurrent(h, p, s) ==
  LET g == [h EXCEPT !.allocs[p] = @ - 1, !.used[p] = @ - s]
  IN IF g.allocs[p] # 0 THEN g ELSE Unlink(g, p)

(* Mutant: used_memory is only corrected when the page is reinitialized. *)
FreePagedUnused(h, p, s) ==
  LET g == [h EXCEPT !.allocs[p] = @ - 1]
  IN IF g.allocs[p] # 0 THEN g
     ELSE IF p # h.current THEN Unlink(g, p)
     ELSE [g EXCEPT !.used[p] = 0, !.offset[p] = Header]

(* The paged branch of i_free. *)
FreePaged(h, p, s) ==
  LET g == [h EXCEPT !.allocs[p] = @ - 1, !.used[p] = @ - s]
  IN IF g.allocs[p] # 0 THEN g
     ELSE IF p # h.current THEN Unlink(g, p)
     ELSE [g EXCEPT !.used[p] = 0, !.offset[p] = Header]

-----------------------------------------------------------------------------
Init ==
  /\ \E p \in Pages :
       heap = [live |-> {p}, current |-> p,
               allocs |-> [q \in Pages |-> 0], used |-> [q \in Pages |-> 0],
               offset |-> [q \in Pages |-> IF q = p THEN Header ELSE 0],
               next |-> [q \in Pages |-> NULL], prev |-> [q \in Pages |-> NULL]]
  /\ home = [b \in Blocks |-> NULL]
  /\ pos = [b \in Blocks |-> 0]
  /\ size = [b \in Blocks |-> 0]
  /\ bytes = 0 /\ outstanding = 0 /\ balance = 0
  /\ leaks = NULL

(* The caller's obligation that MixedClass = FALSE stands for. *)
SameClass(s, a) == MixedClass \/ (Paged(s, a) <=> Paged(s, Ptr))

SetBlock(b, h, o, s) ==
  /\ home' = [home EXCEPT ![b] = h]
  /\ pos' = [pos EXCEPT ![b] = o]
  /\ size' = [size EXCEPT ![b] = s]

(* heap_malloc (a = sizeofptr) and heap_aligned_malloc. *)
Malloc(b, s, a) ==
  /\ leaks = NULL
  /\ b \notin Live /\ SameClass(s, a)
  /\ \/ /\ Paged(s, a)
        /\ \E r \in MallocPaged(heap, s, a) :
             heap' = r.heap /\ SetBlock(b, r.heap.current, r.at, s)
     \/ /\ ~Paged(s, a)
        /\ UNCHANGED heap
        /\ SetBlock(b, OWN, 0, s)
  /\ outstanding' = outstanding + 1
  /\ balance' = balance + s
  /\ bytes' = bytes + s
  /\ UNCHANGED leaks

(* i_free decides by the size alone.  Taking an own block for a paged one   *)
(* reads a page pointer behind the block: the code has no defined next step.*)
FreeBlock(h, b, s, a) ==
  IF Paged(s, a) THEN IF home[b] \in h.live THEN {FreePaged(h, home[b], s)} ELSE {}
  ELSE {h}

(* heap_free, which assumes the alignment sizeofptr. *)
Free(b) ==
  /\ leaks = NULL
  /\ b \in Live
  /\ heap' \in FreeBlock(heap, b, size[b], Ptr)
  /\ SetBlock(b, NULL, 0, 0)
  /\ outstanding' = outstanding - 1
  /\ balance' = balance - size[b]
  /\ bytes' = bytes - size[b]
  /\ UNCHANGED leaks

(* Mutant: bytes given back by a shrinking reallocation are not counted. *)
ResizedUpwards(n, old, new) == IF new > old THEN n + (new - old) ELSE n

(* bytes_allocated after a reallocation. *)
Resized(n, old, new) == IF new > old THEN n + (new - old) ELSE n - (old - new)

(* heap_realloc and heap_aligned_realloc: a system realloc when neither the *)
(* old nor the new block is paged, else malloc, copy and free, in this      *)
(* order.  The counters of allocations do not move.                         *)
Realloc(b, s, a) ==
  /\ leaks = NULL
  /\ b \in Live /\ SameClass(s, a) /\ SameClass(size[b], a)
  /\ s # size[b]
  /\ \/ /\ ~Paged(size[b], a) /\ ~Paged(s, a)
        /\ UNCHANGED heap
        /\ SetBlock(b, OWN, 0, s)
     \/ /\ Paged(s, a)
        /\ \E r \in MallocPaged(heap, s, a) :
             /\ heap' \in FreeBlock(r.heap, b, size[b], a)
             /\ SetBlock(b, r.heap.current, r.at, s)
     \/ /\ Paged(size[b], a) /\ ~Paged(s, a)
        /\ heap' \in FreeBlock(heap, b, size[b], a)
        /\ SetBlock(b, OWN, 0, s)
  /\ balance' = balance + s - size[b]
  /\ bytes' = Resized(bytes, size[b], s)
  /\ UNCHANGED <<outstanding, leaks>>

(* _heap_finish: the leak report. *)
Finish ==
  /\ leaks = NULL
  /\ leaks' = IF outstanding # 0 \/ balance # 0 \/ bytes > 0 THEN "some" ELSE "none"
  /\ UNCHANGED <<heap, blockVars, counters>>

Next ==
  \/ \E b \in Blocks, s \in Sizes, a \in Aligns : Malloc(b, s, a) \/ Realloc(b, s, a)
  \/ \E b \in Blocks : Free(b)
  \/ Finish

Spec == Init /\ [][Next]_vars

-----------------------------------------------------------------------------
(* Properties                                                               *)

InPage(b) == home[b] \in Pages

(* What is written to one block, or to the page pointer behind it, is never *)
(* in another block, in another page pointer, in a page header or outside   *)
(* the page: i_free finds the page pointer that i_malloc wrote.             *)
NoOverlap ==
  \A b \in Blocks : InPage(b) =>
    /\ Header <= pos[b] /\ pos[b] + size[b] + Ptr <= PageSize
    /\ \A c \in Blocks \ {b} : home[c] = home[b] =>
         pos[b] + size[b] + Ptr <= pos[c] \/ pos[c] + size[c] + Ptr <= pos[b]

(* A live block is never in a page that was given back to the system, and a *)
(* page other than the current one is held only as long as a block is in it.*)
PagesHeld ==
  /\ \A b \in Blocks : InPage(b) => home[b] \in heap.live
  /\ heap.current \in heap.live
  /\ \A p \in heap.live \ {heap.current} : \E b \in Blocks : home[b] = p

BlocksIn(p) == {b \in Blocks : home[b] = p}

(* The counters of a page are those of the blocks in it, so that they reach *)
(* zero exactly when the last one is freed.                                 *)
PageAccounting ==
  \A p \in heap.live :
    /\ heap.allocs[p] = Cardinality(BlocksIn(p))
    /\ heap.used[p] = MapThenSumSet(LAMBDA b : size[b], BlocksIn(p))

(* The pages form one list from the current page backwards, whatever the    *)
(* order in which they are emptied and unlinked.                            *)
PageList ==
  /\ heap.next[heap.current] = NULL
  /\ \A p, q \in heap.live : heap.next[p] = q <=> heap.prev[q] = p
  /\ \A p \in heap.live \ {heap.current} : heap.next[p] \in heap.live
  /\ \A p \in heap.live : heap.prev[p] \in heap.live \cup {NULL}
  /\ Cardinality({p \in heap.live : heap.prev[p] = NULL}) = 1

(* The leak report of _heap_finish fails exactly when a block is live, and  *)
(* without live blocks only the current page is left to be given back.      *)
LeakReport ==
  /\ bytes = MapThenSumSet(LAMBDA b : size[b], Live)
  /\ leaks # NULL => (leaks = "some" <=> Live # {})
  /\ leaks = "none" => heap.live = {heap.current}
=============================================================================
