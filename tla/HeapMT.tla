-------------------------------- MODULE HeapMT --------------------------------
(***************************************************************************)
(* Who locks what when several threads use core/heap.c and the counters of  *)
(* live resources of osbs/osbs.c.  heap_malloc always takes the mutex;      *)
(* heap_realloc, heap_free and i_incr take it only if a multi-thread        *)
(* section is open, which they look up without the mutex.                   *)
(*                                                                         *)
(* One word stands for the data each side guards: "bytes" for i_MEMORY      *)
(* (every block counts 1, whatever its size), "count" for an osbs counter.   *)
(* A word is updated by a load and a store.  What the allocator does with    *)
(* its pages is module Heap.                                                *)
(***************************************************************************)
EXTENDS Naturals, FiniteSets

CONSTANTS
  Threads,     (* the main thread and the threads it may create             *)
  Main,
  Blocks,      (* the names of the program's blocks                         *)
  Slots,       (* a thread has at most one open section for each slot       *)
  NULL,
  MaxIncr,     (* bound: calls of i_incr                                    *)
  Disciplined  (* does the main thread keep a section open as long as       *)
               (* another thread exists?                                    *)

ASSUME HeapMTAssumption ==
  /\ Main \in Threads /\ NULL \notin Threads
  /\ IsFiniteSet(Threads)
  /\ MaxIncr \in Nat /\ Disciplined \in BOOLEAN

VARIABLES
  mtcount, (* i_MEMORY.mtcount                                              *)
  i_MUTEX, (* of osbs.c: names the mutex, or NULL                           *)
  owner,   (* the thread that holds the mutex, or NULL                      *)
  bytes,   (* i_MEMORY.bytes_allocated                                      *)
  held,    (* the live blocks                                               *)
  count,   (* an osbs counter of live resources                             *)
  incrs,   (* how often it was to be incremented                            *)
  open,    (* the open sections <<thread, slot>>                            *)
  pc, op, arg, reg (* of each thread: where it is, in which call, with which*)
                   (* block or slot, and the value it loaded                *)

shared == <<bytes, held, count, incrs>>
sections == <<mtcount, i_MUTEX, open>>
vars == <<sections, owner, shared, pc, op, arg, reg>>

HeapOps == {"malloc", "free", "realloc"}
SectionOps == {"heap_start_mt", "heap_end_mt"}
Ops == HeapOps \cup SectionOps \cup {"incr", "none"}
(* "off" is a thread that does not exist, "exited" one not joined yet, and   *)
(* "idle" one in other code.                                                *)
PCs == {"off", "idle", "exited", "test", "lock", "load", "store", "unlock"}
Inside == {"load", "store"}
Calling == {"test", "lock", "load", "store", "unlock"}

TypeOK ==
  /\ mtcount \in Nat /\ i_MUTEX \in {"NULL", "mutex"}
  /\ owner \in Threads \cup {NULL}
  /\ bytes \in Nat /\ held \subseteq Blocks
  /\ count \in Nat /\ incrs \in Nat
  /\ open \subseteq Threads \X Slots
  /\ pc \in [Threads -> PCs] /\ op \in [Threads -> Ops]
  /\ arg \in [Threads -> Blocks \cup Slots \cup {NULL}] /\ reg \in [Threads -> Nat]

Init ==
  /\ mtcount = 0 /\ i_MUTEX = "NULL" /\ open = {}
  /\ owner = NULL
  /\ bytes = 0 /\ held = {} /\ count = 0 /\ incrs = 0
  /\ pc = [t \in Threads |-> IF t = Main THEN "idle" ELSE "off"]
  /\ op = [t \in Threads |-> "none"]
  /\ arg = [t \in Threads |-> NULL]
  /\ reg = [t \in Threads |-> 0]

-----------------------------------------------------------------------------
(* The calls                                                                *)

(* Mutant: heap_malloc does not take the mutex. *)
EntryUnlocked(o) == IF o \in {"free", "realloc", "incr"} THEN "test"
                    ELSE IF o = "malloc" THEN "load" ELSE "lock"

(* Where a call begins: the mutex exists while the heap does, so only the   *)
(* others have a test.                                                      *)
Entry(o) == IF o \in {"free", "realloc", "incr"} THEN "test" ELSE "lock"

Enter(t, o, x) ==
  /\ pc' = [pc EXCEPT ![t] = Entry(o)]
  /\ op' = [op EXCEPT ![t] = o]
  /\ arg' = [arg EXCEPT ![t] = x]
  /\ UNCHANGED <<owner, sections, bytes, held, count, reg>>

(* No other thread is in the middle of a call with block b. *)
Unused(b) == \A t \in Threads : pc[t] \in Calling /\ op[t] \in HeapOps => arg[t] # b

CallHeap(t, o, b) ==
  /\ pc[t] = "idle" /\ Unused(b)
  /\ b \in held <=> o # "malloc"
  /\ Enter(t, o, b) /\ UNCHANGED incrs

CallIncr(t) ==
  /\ incrs < MaxIncr
  /\ Enter(t, "incr", NULL) /\ incrs' = incrs + 1

(* A file, socket, mutex or the like is opened or closed. *)
UseResource(t) == pc[t] = "idle" /\ CallIncr(t)

StartSection(t, s) ==
  /\ pc[t] = "idle" /\ <<t, s>> \notin open
  /\ Enter(t, "heap_start_mt", s) /\ UNCHANGED incrs

Alone == \A t \in Threads \ {Main} : pc[t] = "off"

(* The discipline for the main thread: it closes its last section when the  *)
(* other threads are joined, and creates a thread inside a section.         *)
MayClose(t, s) ==
  Disciplined /\ t = Main => Alone \/ \E r \in Slots \ {s} : <<Main, r>> \in open
MaySpawn == Disciplined => \E s \in Slots : <<Main, s>> \in open

EndSection(t, s) ==
  /\ pc[t] = "idle" /\ <<t, s>> \in open /\ MayClose(t, s)
  /\ Enter(t, "heap_end_mt", s) /\ UNCHANGED incrs

(* bthread_create: the thread runs before the main thread counts it. *)
Spawn(t) ==
  /\ pc[Main] = "idle" /\ pc[t] = "off" /\ MaySpawn
  /\ incrs < MaxIncr /\ incrs' = incrs + 1
  /\ pc' = [pc EXCEPT ![t] = "idle", ![Main] = Entry("incr")]
  /\ op' = [op EXCEPT ![Main] = "incr"]
  /\ arg' = [arg EXCEPT ![Main] = NULL]
  /\ UNCHANGED <<owner, sections, bytes, held, count, reg>>

(* A thread returns with its own sections closed. *)
Exit(t) ==
  /\ t # Main /\ pc[t] = "idle" /\ \A s \in Slots : <<t, s>> \notin open
  /\ pc' = [pc EXCEPT ![t] = "exited"]
  /\ UNCHANGED <<owner, sections, shared, op, arg, reg>>

(* bthread_wait and bthread_close. *)
JoinThread(t) ==
  /\ pc[Main] = "idle" /\ pc[t] = "exited"
  /\ incrs < MaxIncr /\ incrs' = incrs + 1
  /\ pc' = [pc EXCEPT ![t] = "off", ![Main] = Entry("incr")]
  /\ op' = [op EXCEPT ![Main] = "incr"]
  /\ arg' = [arg EXCEPT ![Main] = NULL]
  /\ UNCHANGED <<owner, sections, bytes, held, count, reg>>

-----------------------------------------------------------------------------
(* Inside the calls                                                         *)

(* Mutant: the first section is not seen. *)
GuardedLate(o) == IF o = "incr" THEN i_MUTEX # "NULL" ELSE mtcount > 1

(* Mutant: osbs counters are never guarded. *)
GuardedHeap(o) == o # "incr" /\ mtcount > 0

(* The test for an open section. *)
Guarded(o) == IF o = "incr" THEN i_MUTEX # "NULL" ELSE mtcount > 0

Test(t) ==
  /\ pc[t] = "test"
  /\ pc' = [pc EXCEPT ![t] = IF Guarded(op[t]) THEN "lock" ELSE "load"]
  /\ UNCHANGED <<owner, sections, shared, op, arg, reg>>

(* i_incr reads i_MUTEX again to lock and to unlock; a NULL there has no     *)
(* defined next step.                                                       *)
HasMutex(t) == op[t] = "incr" => i_MUTEX # "NULL"

Lock(t) ==
  /\ pc[t] = "lock" /\ HasMutex(t)
  /\ owner = NULL /\ owner' = t
  /\ pc' = [pc EXCEPT ![t] = "load"]
  /\ UNCHANGED <<sections, shared, op, arg, reg>>

(* Mutant: closing any section resets i_MUTEX. *)
EndBodyClears(t) ==
  /\ op[t] = "heap_end_mt"
  /\ mtcount' = mtcount - 1
  /\ i_MUTEX' = "NULL"
  /\ open' = open \ {<<t, arg[t]>>}

(* heap_end_mt between lock and unlock. *)
EndBody(t) ==
  /\ op[t] = "heap_end_mt"
  /\ mtcount' = mtcount - 1
  /\ i_MUTEX' = IF mtcount' = 0 THEN "NULL" ELSE i_MUTEX
  /\ open' = open \ {<<t, arg[t]>>}

(* heap_start_mt between lock and unlock. *)
StartBody(t) ==
  /\ op[t] = "heap_start_mt"
  /\ mtcount' = mtcount + 1
  /\ i_MUTEX' = "mutex"
  /\ open' = open \cup {<<t, arg[t]>>}

Section(t) ==
  /\ pc[t] = "load"
  /\ StartBody(t) \/ EndBody(t)
  /\ pc' = [pc EXCEPT ![t] = "unlock"]
  /\ arg' = [arg EXCEPT ![t] = NULL]
  /\ UNCHANGED <<owner, shared, op, reg>>

Load(t) ==
  /\ pc[t] = "load" /\ op[t] \notin SectionOps
  /\ reg' = [reg EXCEPT ![t] = IF op[t] = "incr" THEN count ELSE bytes]
  /\ pc' = [pc EXCEPT ![t] = "store"]
  /\ UNCHANGED <<owner, sections, shared, op, arg>>

(* Mutant: a reallocation is also counted as a release. *)
ReallocTwice(t) == op[t] = "realloc" /\ bytes' = reg[t] - 1 /\ UNCHANGED <<held, count>>

(* What a call stores. *)
StoreMalloc(t)  == op[t] = "malloc" /\ bytes' = reg[t] + 1 /\ held' = held \cup {arg[t]} /\ UNCHANGED count
StoreFree(t)    == op[t] = "free" /\ bytes' = reg[t] - 1 /\ held' = held \ {arg[t]} /\ UNCHANGED count
StoreRealloc(t) == op[t] = "realloc" /\ bytes' = reg[t] /\ UNCHANGED <<held, count>>
StoreIncr(t)    == op[t] = "incr" /\ count' = reg[t] + 1 /\ UNCHANGED <<bytes, held>>

(* Mutant: the mutex is kept. *)
MustUnlockNot(t) == FALSE

(* A call that took the mutex gives it back. *)
MustUnlock(t) == owner = t

Store(t) ==
  /\ pc[t] = "store"
  /\ StoreMalloc(t) \/ StoreFree(t) \/ StoreRealloc(t) \/ StoreIncr(t)
  /\ IF MustUnlock(t)
     THEN pc' = [pc EXCEPT ![t] = "unlock"] /\ UNCHANGED op
     ELSE pc' = [pc EXCEPT ![t] = "idle"] /\ op' = [op EXCEPT ![t] = "none"]
  /\ arg' = [arg EXCEPT ![t] = NULL]
  /\ reg' = [reg EXCEPT ![t] = 0]
  /\ UNCHANGED <<owner, sections, incrs>>

Unlock(t) ==
  /\ pc[t] = "unlock" /\ HasMutex(t)
  /\ owner' = NULL
  /\ pc' = [pc EXCEPT ![t] = "idle"]
  /\ op' = [op EXCEPT ![t] = "none"]
  /\ UNCHANGED <<sections, shared, arg, reg>>

-----------------------------------------------------------------------------
Call(t) ==
  \/ \E o \in HeapOps, b \in Blocks : CallHeap(t, o, b)
  \/ \E s \in Slots : StartSection(t, s) \/ EndSection(t, s)
  \/ UseResource(t) \/ Spawn(t) \/ Exit(t) \/ JoinThread(t)

Proceed(t) == Test(t) \/ Section(t) \/ Load(t) \/ Store(t) \/ Unlock(t)

Next == \E t \in Threads : Call(t) \/ Proceed(t) \/ Lock(t)

Spec == Init /\ [][Next]_vars

(* Threads run, and a thread that waits for a mutex which is released again *)
(* and again gets it at last.                                               *)
Fairness == \A t \in Threads : WF_vars(Proceed(t)) /\ SF_vars(Lock(t))

FairSpec == Spec /\ Fairness

-----------------------------------------------------------------------------
(* Properties                                                               *)

(* Two threads are never both among the data that the mutex guards, though  *)
(* each of them decided by itself, and before, whether to take it.          *)
MutualExclusion ==
  \A t, u \in Threads : t # u => ~(pc[t] \in Inside /\ pc[u] \in Inside)

(* bytes_allocated counts the live blocks: no update of it is lost.          *)
BytesExact == bytes = Cardinality(held)

Pending == {t \in Threads : pc[t] \in Calling \ {"unlock"} /\ op[t] = "incr"}

(* The counters of live resources lose no update, so that osbs_finish        *)
(* reports no leak where there is none.                                      *)
CountExact == count + Cardinality(Pending) = incrs

(* i_MUTEX is not reset between the reads of it by one call of i_incr.       *)
MutexPresent == \A t \in Threads : pc[t] \in {"lock", "unlock"} => HasMutex(t)

(* The cassert_fatal of heap_free at heap.c:720: bytes_allocated covers what *)
(* is given back.                                                           *)
FreeWithinBytes ==
  \A t \in Threads : pc[t] = "store" /\ op[t] = "free" => reg[t] > 0

(* Every call returns: the mutex is given back on all the ways through the   *)
(* code, and no call waits for itself.                                      *)
CallsReturn == \A t \in Threads : pc[t] \in Calling ~> pc[t] = "idle"
-----------------------------------------------------------------------------
(* The inductive invariant, for a disciplined main thread.                   *)

(* In a call that has not yet had its effect.                               *)
Before == {"test", "lock", "load", "store"}

(* A thread among the guarded data holds the mutex, or is the only thread.  *)
LockInv ==
  /\ owner # NULL => pc[owner] \in {"load", "store", "unlock"}
  /\ \A t \in Threads :
       /\ pc[t] = "unlock" => owner = t
       /\ pc[t] \in Inside => owner = t \/ (t = Main /\ Alone)

(* The main thread is on its way to closing section s. *)
Closing(s) == pc[Main] \in Before /\ op[Main] = "heap_end_mt" /\ arg[Main] = s

(* mtcount counts the open sections, i_MUTEX follows it, and while another  *)
(* thread exists the main thread keeps a section open.                      *)
SectionInv ==
  /\ IsFiniteSet(open) /\ mtcount = Cardinality(open)
  /\ i_MUTEX = "mutex" <=> mtcount # 0
  /\ Alone \/ \E s \in Slots : <<Main, s>> \in open /\ ~Closing(s)

(* What thread t has found out at each step of a call. *)
CallOK(t) ==
  /\ pc[t] = "test" => op[t] \in {"free", "realloc", "incr"}
  /\ pc[t] = "store" => op[t] \in HeapOps \cup {"incr"}
  /\ pc[t] = "load" /\ op[t] \in SectionOps => owner = t
  /\ pc[t] \in Calling => op[t] # "none"
  /\ pc[t] = "store" => reg[t] = IF op[t] = "incr" THEN count ELSE bytes
  /\ pc[t] \in Before /\ op[t] \in SectionOps =>
       arg[t] \in Slots /\ (<<t, arg[t]>> \in open <=> op[t] = "heap_end_mt")
  /\ pc[t] \in {"lock", "unlock"} \/ owner = t => HasMutex(t)

CallInv == \A t \in Threads : CallOK(t)

(* The blocks of the calls under way are different ones, live unless they   *)
(* are being allocated, and bytes_allocated counts the live ones.           *)
BlockInv ==
  /\ IsFiniteSet(held) /\ bytes = Cardinality(held)
  /\ \A t \in Threads : pc[t] \in Before /\ op[t] \in HeapOps =>
       /\ arg[t] \in Blocks /\ (arg[t] \in held <=> op[t] # "malloc")
       /\ \A u \in Threads \ {t} : pc[u] \in Before /\ op[u] \in HeapOps => arg[u] # arg[t]

IInv == TypeOK /\ LockInv /\ SectionInv /\ CallInv /\ BlockInv /\ CountExact

-----------------------------------------------------------------------------
(* The call of t as its caller sees it. *)
CallOf(t) ==
  IF pc[t] \notin Before \/ op[t] \in SectionOps THEN NULL
  ELSE IF op[t] = "incr" THEN [op |-> "incr"] ELSE [op |-> op[t], block |-> arg[t]]

Atomic == INSTANCE AtomicHeap WITH
  NoCall <- NULL, call <- [t \in Threads |-> CallOf(t)]

(* The threads cannot tell the calls from atomic ones: the effect of each is *)
(* the store under the mutex, or the store without it while no other thread  *)
(* is there.                                                                *)
CallsAtomic == Atomic!ASpec
=============================================================================
