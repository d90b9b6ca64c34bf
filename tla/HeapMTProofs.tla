----------------------------- MODULE HeapMTProofs -----------------------------
(* Proofs about HeapMT: with a main thread that keeps a section open while   *)
(* other threads exist, the tests made without the mutex are safe, for any   *)
(* number of threads, blocks and nested sections.                           *)
EXTENDS HeapMT, FiniteSetTheorems, TLAPS

(* Whether other threads exist changes only when one is created or joined.  *)
LEMMA AloneStep ==
  ASSUME TypeOK, NEW t \in Threads, NEW x \in PCs, pc[t] # "off", x # "off",
         pc' = [pc EXCEPT ![t] = x]
  PROVE  Alone' <=> Alone
  BY DEF TypeOK, Alone

(* The calls of i_incr that are still to be counted are finitely many.       *)
LEMMA PendingFinite == IsFiniteSet(Pending) /\ Cardinality(Pending) \in Nat
<1>1. Pending \subseteq Threads
  BY DEF Pending
<1> QED BY <1>1, HeapMTAssumption, FS_Subset, FS_CardinalityType DEF HeapMTAssumption

(* What a thread knows stays true under steps of the other threads that do   *)
(* not touch its sections, its mutex or the word it has loaded.              *)
LEMMA CallFrame ==
  ASSUME IInv, NEW u \in Threads,
         pc'[u] = pc[u], op'[u] = op[u], arg'[u] = arg[u], reg'[u] = reg[u],
         owner' = u <=> owner = u,
         \A s \in Slots : <<u, s>> \in open' <=> <<u, s>> \in open,
         pc[u] = "store" => count' = count /\ bytes' = bytes,
         (pc[u] \in {"lock", "unlock"} \/ owner = u) /\ i_MUTEX # "NULL" => i_MUTEX' # "NULL"
  PROVE  CallOK(u)'
<1>1. CallOK(u)
  BY DEF IInv, CallInv
<1> QED BY <1>1 DEF CallOK, HasMutex

(* The mutex, or being alone, separates the threads among the guarded data.  *)
LEMMA LockExcludes == ASSUME IInv PROVE MutualExclusion
<1> SUFFICES ASSUME NEW t \in Threads, NEW u \in Threads, t # u,
                    pc[t] \in Inside, pc[u] \in Inside
             PROVE  FALSE
  BY DEF MutualExclusion
<1>1. (owner = t \/ (t = Main /\ Alone)) /\ (owner = u \/ (u = Main /\ Alone))
  BY DEF IInv, LockInv
<1>2. ~Alone
  BY DEF Alone, Inside
<1> QED BY <1>1, <1>2

-----------------------------------------------------------------------------
(* A thread enters a call: its block or slot is a fit one, no other thread   *)
(* is busy with it, and the main thread keeps a section.                     *)
LEMMA StepEnter ==
  ASSUME IInv, NEW t \in Threads, NEW o \in HeapOps \cup SectionOps \cup {"incr"},
         NEW x \in Blocks \cup Slots \cup {NULL},
         pc[t] = "idle", Enter(t, o, x),
         incrs' = IF o = "incr" THEN incrs + 1 ELSE incrs,
         o \in HeapOps => x \in Blocks /\ Unused(x) /\ (x \in held <=> o # "malloc"),
         o \in SectionOps => x \in Slots /\ (<<t, x>> \in open <=> o = "heap_end_mt"),
         o = "heap_end_mt" /\ t = Main => Alone \/ \E r \in Slots \ {x} : <<Main, r>> \in open
  PROVE  IInv'
<1> DEFINE p == Entry(o)
<1>1. p \in {"test", "lock"} /\ (p = "test" <=> o \in {"free", "realloc", "incr"})
  BY DEF Entry, HeapOps, SectionOps
<1>2. /\ pc' = [pc EXCEPT ![t] = p] /\ op' = [op EXCEPT ![t] = o] /\ arg' = [arg EXCEPT ![t] = x]
      /\ UNCHANGED <<owner, mtcount, i_MUTEX, open, bytes, held, count, reg>>
  BY DEF Enter, sections
<1> HIDE DEF p
<1>3. TypeOK'
  BY <1>1, <1>2 DEF IInv, TypeOK, PCs, Ops
<1>4. Alone' <=> Alone
  BY <1>1, <1>2, AloneStep DEF IInv, PCs
<1>5. LockInv'
  BY <1>1, <1>2, <1>4 DEF IInv, TypeOK, LockInv, Inside
<1>6. SectionInv'
  <2>1. IsFiniteSet(open)' /\ (mtcount = Cardinality(open))' /\ (i_MUTEX = "mutex" <=> mtcount # 0)'
    BY <1>2 DEF IInv, SectionInv
  <2>2. ASSUME ~Alone PROVE \E s \in Slots : <<Main, s>> \in open /\ ~Closing(s)'
    <3>1. PICK s \in Slots : <<Main, s>> \in open /\ ~Closing(s)
      BY <2>2 DEF IInv, SectionInv
    <3>2. CASE t # Main
      BY <1>2, <3>1, <3>2, HeapMTAssumption DEF Closing, IInv, TypeOK, HeapMTAssumption
    <3>3. CASE t = Main /\ o # "heap_end_mt"
      BY <1>2, <3>1, <3>3 DEF Closing, IInv, TypeOK
    <3>4. CASE t = Main /\ o = "heap_end_mt"
      <4>1. PICK r \in Slots \ {x} : <<Main, r>> \in open
        BY <2>2, <3>4
      <4>2. ~Closing(r)'
        BY <1>2, <3>4, <4>1 DEF Closing, IInv, TypeOK
      <4> QED BY <4>1, <4>2
    <3> QED BY <3>2, <3>3, <3>4
  <2> QED BY <1>2, <1>4, <2>1, <2>2 DEF SectionInv
<1>7. CallInv'
  <2> SUFFICES ASSUME NEW u \in Threads PROVE CallOK(u)'
    BY DEF CallInv
  <2>1. CASE u = t
    <3>1. pc'[u] = p /\ op'[u] = o /\ arg'[u] = x /\ owner' # u
      BY <1>1, <1>2, <2>1, HeapMTAssumption DEF IInv, TypeOK, LockInv, HeapMTAssumption
    <3> QED BY <1>1, <1>2, <2>1, <3>1 DEF CallOK, Before, SectionOps, HeapOps, HasMutex
  <2>2. CASE u # t
    <3>1. pc'[u] = pc[u] /\ op'[u] = op[u] /\ arg'[u] = arg[u]
      BY <1>2, <2>2 DEF IInv, TypeOK
    <3> QED BY <1>2, <3>1 DEF IInv, CallInv, CallOK, HasMutex
  <2> QED BY <2>1, <2>2
<1>8. BlockInv'
  <2>1. \A u \in Threads \ {t} : pc'[u] = pc[u] /\ op'[u] = op[u] /\ arg'[u] = arg[u]
    BY <1>2 DEF IInv, TypeOK
  <2>2. pc'[t] = p /\ op'[t] = o /\ arg'[t] = x
    BY <1>2 DEF IInv, TypeOK
  <2>3. \A u \in Threads \ {t} : o \in HeapOps /\ pc[u] \in Before /\ op[u] \in HeapOps => arg[u] # x
    BY DEF Unused, Before, Calling
  <2> QED BY <1>2, <2>1, <2>2, <2>3 DEF IInv, BlockInv
<1>9. CountExact'
  <2>1. CASE o = "incr"
    <3>1. Pending' = Pending \cup {t} /\ t \notin Pending
      BY <1>1, <1>2, <2>1 DEF IInv, TypeOK, Pending, Calling
    <3>2. Cardinality(Pending') = Cardinality(Pending) + 1
      BY <3>1, PendingFinite, FS_AddElement
    <3> QED BY <1>2, <2>1, <3>2, PendingFinite DEF IInv, TypeOK, CountExact
  <2>2. CASE o # "incr"
    <3>1. Pending' = Pending
      BY <1>1, <1>2, <2>2 DEF IInv, TypeOK, Pending, Calling
    <3> QED BY <1>2, <2>2, <3>1 DEF IInv, CountExact
  <2> QED BY <2>1, <2>2
<1> QED BY <1>3, <1>5, <1>6, <1>7, <1>8, <1>9 DEF IInv

-----------------------------------------------------------------------------
(* bthread_create and bthread_close on the main thread, which goes on to     *)
(* count the event.  A thread is created while a section is open, and the    *)
(* section stays open.                                                      *)
LEMMA StepThreads ==
  ASSUME IInv, Disciplined, NEW t \in Threads, Spawn(t) \/ JoinThread(t)
  PROVE  IInv'
<1>1. /\ pc[Main] = "idle" /\ t # Main /\ incrs' = incrs + 1
      /\ pc[t] \in {"off", "exited"}
      /\ \E x \in {"idle", "off"} : pc' = [pc EXCEPT ![t] = x, ![Main] = "test"]
      /\ op' = [op EXCEPT ![Main] = "incr"] /\ arg' = [arg EXCEPT ![Main] = NULL]
      /\ UNCHANGED <<owner, mtcount, i_MUTEX, open, bytes, held, count, reg>>
  BY HeapMTAssumption DEF Spawn, JoinThread, Entry, sections, HeapMTAssumption
<1>2. /\ pc'[Main] = "test" /\ op'[Main] = "incr" /\ pc'[t] \in {"idle", "off"} /\ op'[t] = op[t]
      /\ \A u \in Threads \ {t, Main} : pc'[u] = pc[u] /\ op'[u] = op[u] /\ arg'[u] = arg[u]
  BY <1>1, HeapMTAssumption DEF IInv, TypeOK, HeapMTAssumption
<1>3. TypeOK'
  BY <1>1, HeapMTAssumption DEF IInv, TypeOK, PCs, Ops, HeapMTAssumption
<1>4. LockInv'
  BY <1>1, <1>2, HeapMTAssumption DEF IInv, TypeOK, LockInv, Inside, Alone, HeapMTAssumption
<1>5. SectionInv'
  <2>1. IsFiniteSet(open)' /\ (mtcount = Cardinality(open))' /\ (i_MUTEX = "mutex" <=> mtcount # 0)'
    BY <1>1 DEF IInv, SectionInv
  <2>2. \A s \in Slots : ~Closing(s)'
    BY <1>2 DEF Closing
  <2>3. CASE Spawn(t)
    BY <1>1, <2>1, <2>2, <2>3 DEF Spawn, MaySpawn, SectionInv
  <2>4. CASE JoinThread(t)
    <3>1. ~Alone
      BY <1>1, <2>4 DEF JoinThread, Alone
    <3> QED BY <1>1, <2>1, <2>2, <3>1 DEF IInv, SectionInv
  <2> QED BY <2>3, <2>4
<1>6. CallInv'
  <2> SUFFICES ASSUME NEW u \in Threads PROVE CallOK(u)'
    BY DEF CallInv
  <2>1. CASE u \in {t, Main}
    <3>1. pc'[u] \in {"idle", "off", "test"} /\ (pc'[u] = "test" => op'[u] = "incr") /\ owner' # u
      BY <1>1, <1>2, <2>1, HeapMTAssumption DEF IInv, LockInv, HeapMTAssumption
    <3> QED BY <3>1 DEF CallOK, Calling, Before, SectionOps
  <2>2. CASE u \notin {t, Main}
    <3>1. UNCHANGED <<owner, i_MUTEX, open, bytes, count, reg>>
      BY <1>1
    <3> QED BY <1>2, <2>2, <3>1, CallFrame
  <2> QED BY <2>1, <2>2
<1>7. BlockInv'
  <2>1. \A u \in Threads : pc'[u] \in Before /\ op'[u] \in HeapOps =>
          pc[u] \in Before /\ op[u] \in HeapOps /\ op'[u] = op[u] /\ arg'[u] = arg[u]
    BY <1>2 DEF Before, HeapOps
  <2>2. UNCHANGED <<held, bytes>>
    BY <1>1
  <2> QED BY <2>1, <2>2 DEF IInv, BlockInv
<1>8. CountExact'
  <2>1. Pending' = Pending \cup {Main} /\ Main \notin Pending
    BY <1>1, <1>2, HeapMTAssumption DEF Pending, Calling, HeapMTAssumption
  <2>2. Cardinality(Pending') = Cardinality(Pending) + 1
    BY <2>1, PendingFinite, FS_AddElement
  <2> QED BY <1>1, <2>2, PendingFinite DEF IInv, TypeOK, CountExact
<1> QED BY <1>3, <1>4, <1>5, <1>6, <1>7, <1>8 DEF IInv

(* A thread that returns is in no call.                                     *)
LEMMA StepExit ==
  ASSUME IInv, NEW t \in Threads, Exit(t)
  PROVE  IInv'
<1>1. /\ pc' = [pc EXCEPT ![t] = "exited"] /\ pc[t] = "idle" /\ t # Main
      /\ UNCHANGED <<owner, mtcount, i_MUTEX, open, bytes, held, count, incrs, op, arg, reg>>
  BY DEF Exit, sections, shared
<1>2. pc'[t] = "exited" /\ \A u \in Threads \ {t} : pc'[u] = pc[u]
  BY <1>1 DEF IInv, TypeOK
<1>3. TypeOK'
  BY <1>1 DEF IInv, TypeOK, PCs
<1>4. Alone' <=> Alone
  BY <1>1, AloneStep DEF IInv, PCs
<1>5. LockInv'
  BY <1>1, <1>2, <1>4 DEF IInv, TypeOK, LockInv, Inside
<1>6. SectionInv'
  BY <1>1, <1>2, <1>4, HeapMTAssumption DEF IInv, SectionInv, Closing, HeapMTAssumption
<1>7. CallInv'
  <2> SUFFICES ASSUME NEW u \in Threads PROVE CallOK(u)'
    BY DEF CallInv
  <2>1. CASE u = t
    BY <1>1, <1>2, <2>1, HeapMTAssumption
       DEF IInv, CallInv, CallOK, HasMutex, Calling, Before, LockInv, HeapMTAssumption
  <2>2. CASE u # t
    BY <1>1, <1>2, <2>2 DEF IInv, CallInv, CallOK, HasMutex
  <2> QED BY <2>1, <2>2
<1>8. BlockInv'
  BY <1>1, <1>2 DEF IInv, BlockInv, Before
<1>9. CountExact'
  <2>1. Pending' = Pending
    BY <1>1, <1>2 DEF Pending, Calling
  <2> QED BY <1>1, <2>1 DEF IInv, CountExact
<1> QED BY <1>3, <1>5, <1>6, <1>7, <1>8, <1>9 DEF IInv

-----------------------------------------------------------------------------
(* The test without the mutex: who finds no section open is the only thread. *)
LEMMA StepTest ==
  ASSUME IInv, NEW t \in Threads, Test(t)
  PROVE  IInv'
<1> DEFINE p == IF Guarded(op[t]) THEN "lock" ELSE "load"
<1>1. /\ pc' = [pc EXCEPT ![t] = p] /\ pc[t] = "test"
      /\ UNCHANGED <<owner, mtcount, i_MUTEX, open, bytes, held, count, incrs, op, arg, reg>>
  BY DEF Test, sections, shared
<1>2. p \in {"lock", "load"}
  OBVIOUS
<1>3. p = "load" => t = Main /\ Alone
  <2> SUFFICES ASSUME ~Guarded(op[t]) PROVE t = Main /\ Alone
    OBVIOUS
  <2>1. mtcount = 0
    BY DEF Guarded, IInv, TypeOK, SectionInv
  <2>2. open = {}
    BY <2>1, FS_EmptySet DEF IInv, SectionInv
  <2>3. Alone
    BY <2>2 DEF IInv, SectionInv
  <2> QED BY <1>1, <2>3 DEF Alone
<1>4. p = "lock" => HasMutex(t)
  BY DEF Guarded, HasMutex
<1> HIDE DEF p
<1>5. pc'[t] = p /\ \A u \in Threads \ {t} : pc'[u] = pc[u]
  BY <1>1 DEF IInv, TypeOK
<1>6. op[t] \in {"free", "realloc", "incr"} /\ owner # t
  BY <1>1, HeapMTAssumption DEF IInv, CallInv, CallOK, LockInv, HeapMTAssumption
<1>7. Alone' <=> Alone
  BY <1>1, <1>2, AloneStep DEF IInv, PCs
<1>8. TypeOK'
  BY <1>1, <1>2 DEF IInv, TypeOK, PCs
<1>9. LockInv'
  BY <1>1, <1>2, <1>3, <1>5, <1>6, <1>7 DEF IInv, LockInv, Inside
<1>10. SectionInv'
  BY <1>1, <1>5, <1>6, <1>7, HeapMTAssumption DEF IInv, SectionInv, Closing, HeapMTAssumption
<1>11. CallInv'
  <2> SUFFICES ASSUME NEW u \in Threads PROVE CallOK(u)'
    BY DEF CallInv
  <2>1. CASE u = t
    BY <1>1, <1>2, <1>4, <1>5, <1>6, <2>1 DEF CallOK, HasMutex, SectionOps
  <2>2. CASE u # t
    BY <1>1, <1>5, <2>2, CallFrame
  <2> QED BY <2>1, <2>2
<1>12. BlockInv'
  <2>1. \A u \in Threads : pc'[u] \in Before => pc[u] \in Before
    BY <1>1, <1>5 DEF Before
  <2> QED BY <1>1, <2>1 DEF IInv, BlockInv
<1>13. CountExact'
  <2>1. Pending' = Pending
    BY <1>1, <1>2, <1>5 DEF Pending, Calling
  <2> QED BY <1>1, <2>1 DEF IInv, CountExact
<1> QED BY <1>8, <1>9, <1>10, <1>11, <1>12, <1>13 DEF IInv

(* bmutex_lock. *)
LEMMA StepLock ==
  ASSUME IInv, NEW t \in Threads, Lock(t)
  PROVE  IInv'
<1>1. /\ pc' = [pc EXCEPT ![t] = "load"] /\ pc[t] = "lock"
      /\ owner = NULL /\ owner' = t /\ HasMutex(t)
      /\ UNCHANGED <<mtcount, i_MUTEX, open, bytes, held, count, incrs, op, arg, reg>>
  BY DEF Lock, sections, shared
<1>2. pc'[t] = "load" /\ \A u \in Threads \ {t} : pc'[u] = pc[u] /\ owner # u
  BY <1>1, HeapMTAssumption DEF IInv, TypeOK, HeapMTAssumption
<1>3. Alone' <=> Alone
  BY <1>1, AloneStep DEF IInv, PCs
<1>4. TypeOK'
  BY <1>1 DEF IInv, TypeOK, PCs
<1>5. LockInv'
  BY <1>1, <1>2, <1>3 DEF IInv, LockInv, Inside
<1>6. SectionInv'
  BY <1>1, <1>2, <1>3, HeapMTAssumption
     DEF IInv, SectionInv, Closing, Before, HeapMTAssumption
<1>7. CallInv'
  <2> SUFFICES ASSUME NEW u \in Threads PROVE CallOK(u)'
    BY DEF CallInv
  <2>1. CASE u = t
    <3>1. CallOK(t)
      BY DEF IInv, CallInv
    <3> QED BY <1>1, <1>2, <2>1, <3>1 DEF CallOK, HasMutex, Before, Calling
  <2>2. CASE u # t
    BY <1>1, <1>2, <2>2, CallFrame
  <2> QED BY <2>1, <2>2
<1>8. BlockInv'
  <2>1. \A u \in Threads : pc'[u] \in Before => pc[u] \in Before
    BY <1>1, <1>2 DEF Before
  <2> QED BY <1>1, <2>1 DEF IInv, BlockInv
<1>9. CountExact'
  <2>1. Pending' = Pending
    BY <1>1, <1>2 DEF Pending, Calling
  <2> QED BY <1>1, <2>1 DEF IInv, CountExact
<1> QED BY <1>4, <1>5, <1>6, <1>7, <1>8, <1>9 DEF IInv

(* A section is opened or closed.  Where the last one is closed no other     *)
(* thread exists that could still want the mutex of i_incr.                  *)
LEMMA StepSection ==
  ASSUME IInv, NEW t \in Threads, Section(t)
  PROVE  IInv'
<1> DEFINE x == <<t, arg[t]>>
<1>1. /\ pc' = [pc EXCEPT ![t] = "unlock"] /\ pc[t] = "load"
      /\ arg' = [arg EXCEPT ![t] = NULL]
      /\ StartBody(t) \/ EndBody(t)
      /\ UNCHANGED <<owner, bytes, held, count, incrs, op, reg>>
  BY DEF Section, shared
<1>2. pc'[t] = "unlock" /\ \A u \in Threads \ {t} : pc'[u] = pc[u] /\ arg'[u] = arg[u]
  BY <1>1 DEF IInv, TypeOK
<1>3. op[t] \in SectionOps
  BY <1>1 DEF StartBody, EndBody, SectionOps
<1>4. owner = t /\ arg[t] \in Slots /\ (x \in open <=> op[t] = "heap_end_mt")
  BY <1>1, <1>3 DEF IInv, CallInv, CallOK, Before
<1>5. Alone' <=> Alone
  BY <1>1, AloneStep DEF IInv, PCs
<1>6. \A u \in Threads \ {t}, s \in Slots : <<u, s>> \in open' <=> <<u, s>> \in open
  BY <1>1 DEF StartBody, EndBody
<1>7. /\ IsFiniteSet(open') /\ mtcount' = Cardinality(open') /\ mtcount' \in Nat
      /\ i_MUTEX' = "mutex" <=> mtcount' # 0
      /\ i_MUTEX' \in {"NULL", "mutex"} /\ open' \subseteq Threads \X Slots
  <2>1. IsFiniteSet(open) /\ mtcount = Cardinality(open) /\ mtcount \in Nat
    BY DEF IInv, SectionInv, TypeOK
  <2>2. CASE StartBody(t)
    <3>1. x \notin open /\ mtcount' = mtcount + 1 /\ i_MUTEX' = "mutex" /\ open' = open \cup {x}
      BY <1>4, <2>2 DEF StartBody
    <3>2. IsFiniteSet(open') /\ Cardinality(open') = Cardinality(open) + 1
      BY <2>1, <3>1, FS_AddElement
    <3> QED BY <1>4, <2>1, <3>1, <3>2 DEF IInv, TypeOK
  <2>3. CASE EndBody(t)
    <3>1. /\ x \in open /\ mtcount' = mtcount - 1 /\ open' = open \ {x}
          /\ i_MUTEX' = IF mtcount' = 0 THEN "NULL" ELSE i_MUTEX
      BY <1>4, <2>3 DEF EndBody
    <3>2. /\ IsFiniteSet(open') /\ Cardinality(open') = Cardinality(open) - 1
          /\ Cardinality(open') \in Nat
      BY <2>1, <3>1, FS_RemoveElement, FS_CardinalityType
    <3>3. mtcount # 0 /\ i_MUTEX = "mutex"
      BY <2>1, <3>2 DEF IInv, SectionInv
    <3> QED BY <2>1, <3>1, <3>2, <3>3 DEF IInv, TypeOK
  <2> QED BY <1>1, <2>2, <2>3
<1>8. Alone \/ \E s \in Slots : <<Main, s>> \in open' /\ ~Closing(s)'
  <2> SUFFICES ASSUME ~Alone PROVE \E s \in Slots : <<Main, s>> \in open' /\ ~Closing(s)'
    OBVIOUS
  <2>1. PICK s \in Slots : <<Main, s>> \in open /\ ~Closing(s)
    BY DEF IInv, SectionInv
  <2>2. CASE t = Main
    <3>1. ~Closing(s)'
      BY <1>2, <2>2 DEF Closing, Before
    <3>2. op[t] = "heap_end_mt" => arg[t] # s
      BY <1>1, <2>1, <2>2 DEF Closing, Before
    <3>3. <<Main, s>> \in open'
      BY <1>1, <2>1, <3>2 DEF StartBody, EndBody
    <3> QED BY <3>1, <3>3
  <2>3. CASE t # Main
    <3>1. ~Closing(s)'
      BY <1>1, <1>2, <2>1, <2>3, HeapMTAssumption DEF Closing, HeapMTAssumption
    <3> QED BY <1>6, <2>1, <2>3, <3>1, HeapMTAssumption DEF HeapMTAssumption
  <2> QED BY <2>2, <2>3
<1>9. TypeOK'
  BY <1>1, <1>7 DEF IInv, TypeOK, PCs
<1>10. LockInv'
  BY <1>1, <1>2, <1>4, <1>5 DEF IInv, LockInv, Inside
<1>11. SectionInv'
  BY <1>5, <1>7, <1>8 DEF SectionInv
<1>12. CallInv'
  <2> SUFFICES ASSUME NEW u \in Threads PROVE CallOK(u)'
    BY DEF CallInv
  <2>1. CASE u = t
    BY <1>1, <1>2, <1>3, <2>1 DEF CallOK, HasMutex, SectionOps, Before
  <2>2. CASE u # t
    <3>1. pc[u] # "off" => i_MUTEX' # "NULL"
      <4> SUFFICES ASSUME pc[u] # "off" PROVE i_MUTEX' # "NULL"
        OBVIOUS
      <4>1. ~Alone
        BY <1>1, <2>2 DEF Alone
      <4>2. open' # {}
        BY <1>8, <4>1
      <4>3. mtcount' # 0
        BY <1>7, <4>2, FS_EmptySet
      <4> QED BY <1>7, <4>3
    <3>2. pc'[u] = pc[u] /\ arg'[u] = arg[u] /\ UNCHANGED <<owner, count, bytes, op, reg>>
      BY <1>1, <1>2, <2>2
    <3> QED BY <1>4, <1>6, <2>2, <3>1, <3>2, CallFrame
  <2> QED BY <2>1, <2>2
<1>13. BlockInv'
  <2>1. \A u \in Threads : pc'[u] \in Before => u # t /\ pc[u] \in Before /\ arg'[u] = arg[u]
    BY <1>2 DEF Before
  <2>2. UNCHANGED <<op, held, bytes>>
    BY <1>1
  <2> QED BY <2>1, <2>2 DEF IInv, BlockInv
<1>14. CountExact'
  <2>1. Pending' = Pending
    BY <1>1, <1>2, <1>3 DEF Pending, Calling, SectionOps
  <2> QED BY <1>1, <2>1 DEF IInv, CountExact
<1> QED BY <1>9, <1>10, <1>11, <1>12, <1>13, <1>14 DEF IInv

(* The first half of an update. *)
LEMMA StepLoad ==
  ASSUME IInv, NEW t \in Threads, Load(t)
  PROVE  IInv'
<1>1. /\ pc' = [pc EXCEPT ![t] = "store"] /\ pc[t] = "load" /\ op[t] \notin SectionOps
      /\ reg' = [reg EXCEPT ![t] = IF op[t] = "incr" THEN count ELSE bytes]
      /\ UNCHANGED <<owner, mtcount, i_MUTEX, open, bytes, held, count, incrs, op, arg>>
  BY DEF Load, sections, shared
<1>2. /\ pc'[t] = "store" /\ reg'[t] = IF op[t] = "incr" THEN count ELSE bytes
      /\ \A u \in Threads \ {t} : pc'[u] = pc[u] /\ reg'[u] = reg[u]
  BY <1>1 DEF IInv, TypeOK
<1>3. Alone' <=> Alone
  BY <1>1, AloneStep DEF IInv, PCs
<1>4. TypeOK'
  BY <1>1 DEF IInv, TypeOK, PCs
<1>5. LockInv'
  BY <1>1, <1>2, <1>3 DEF IInv, LockInv, Inside
<1>6. SectionInv'
  BY <1>1, <1>2, <1>3, HeapMTAssumption
     DEF IInv, SectionInv, Closing, Before, HeapMTAssumption
<1>7. CallInv'
  <2> SUFFICES ASSUME NEW u \in Threads PROVE CallOK(u)'
    BY DEF CallInv
  <2>1. CASE u = t
    <3>1. CallOK(t) /\ op[t] \in Ops
      BY DEF IInv, CallInv, TypeOK
    <3>2. op[t] \in HeapOps \cup {"incr"}
      BY <1>1, <3>1 DEF CallOK, Calling, Ops, SectionOps
    <3> QED BY <1>1, <1>2, <2>1, <3>1, <3>2 DEF CallOK, HasMutex, Calling
  <2>2. CASE u # t
    BY <1>1, <1>2, <2>2, CallFrame
  <2> QED BY <2>1, <2>2
<1>8. BlockInv'
  <2>1. \A u \in Threads : pc'[u] \in Before => pc[u] \in Before
    BY <1>1, <1>2 DEF Before
  <2> QED BY <1>1, <2>1 DEF IInv, BlockInv
<1>9. CountExact'
  <2>1. Pending' = Pending
    BY <1>1, <1>2 DEF Pending, Calling
  <2> QED BY <1>1, <2>1 DEF IInv, CountExact
<1> QED BY <1>4, <1>5, <1>6, <1>7, <1>8, <1>9 DEF IInv

(* The second half: what was loaded is still the value of the word, and no   *)
(* other thread holds an older one.                                         *)
LEMMA StepStore ==
  ASSUME IInv, NEW t \in Threads, Store(t)
  PROVE  IInv'
<1> DEFINE p == IF MustUnlock(t) THEN "unlock" ELSE "idle"
           o == IF MustUnlock(t) THEN op[t] ELSE "none"
<1>1. /\ pc' = [pc EXCEPT ![t] = p] /\ pc[t] = "store"
      /\ op' = [op EXCEPT ![t] = o] /\ arg' = [arg EXCEPT ![t] = NULL]
      /\ reg' = [reg EXCEPT ![t] = 0]
      /\ UNCHANGED <<owner, mtcount, i_MUTEX, open, incrs>>
  BY DEF Store, sections, IInv, TypeOK
<1>2. StoreMalloc(t) \/ StoreFree(t) \/ StoreRealloc(t) \/ StoreIncr(t)
  BY DEF Store
<1>3. p \in {"unlock", "idle"} /\ (p = "unlock" <=> owner = t) /\ o \in {op[t], "none"}
      /\ (p = "unlock" => o = op[t])
  BY DEF MustUnlock
<1> HIDE DEF p, o
<1>4. /\ pc'[t] = p /\ op'[t] = o /\ arg'[t] = NULL /\ reg'[t] = 0
      /\ \A u \in Threads \ {t} : /\ pc'[u] = pc[u] /\ op'[u] = op[u]
                                 /\ arg'[u] = arg[u] /\ reg'[u] = reg[u]
  BY <1>1 DEF IInv, TypeOK
<1>5. \A u \in Threads \ {t} : pc[u] # "store"
  BY <1>1, LockExcludes DEF MutualExclusion, Inside
<1>6. CallOK(t)
  BY DEF IInv, CallInv
<1>7. op[t] \in HeapOps \cup {"incr"} /\ op[t] # "heap_end_mt" /\ op[t] \in Ops
      /\ reg[t] = IF op[t] = "incr" THEN count ELSE bytes
  BY <1>1, <1>6 DEF CallOK, HeapOps, Ops
<1>8. op[t] \in HeapOps =>
        /\ arg[t] \in Blocks /\ (arg[t] \in held <=> op[t] # "malloc")
        /\ \A u \in Threads \ {t} : pc[u] \in Before /\ op[u] \in HeapOps => arg[u] # arg[t]
  BY <1>1 DEF IInv, BlockInv, Before
<1>9. /\ IsFiniteSet(held') /\ bytes' = Cardinality(held') /\ bytes' \in Nat
      /\ held' \subseteq Blocks
      /\ \A b \in Blocks : op[t] \notin HeapOps \/ b # arg[t] => (b \in held' <=> b \in held)
  <2>1. IsFiniteSet(held) /\ bytes = Cardinality(held) /\ held \subseteq Blocks /\ bytes \in Nat
    BY DEF IInv, BlockInv, TypeOK
  <2>2. CASE StoreMalloc(t)
    <3>1. /\ arg[t] \in Blocks /\ arg[t] \notin held /\ held' = held \cup {arg[t]}
          /\ bytes' = bytes + 1
      BY <1>7, <1>8, <2>2 DEF StoreMalloc, HeapOps
    <3>2. IsFiniteSet(held') /\ Cardinality(held') = Cardinality(held) + 1
      BY <2>1, <3>1, FS_AddElement
    <3> QED BY <2>1, <2>2, <3>1, <3>2 DEF StoreMalloc, HeapOps
  <2>3. CASE StoreFree(t)
    <3>1. arg[t] \in held /\ held' = held \ {arg[t]} /\ bytes' = bytes - 1
      BY <1>7, <1>8, <2>3 DEF StoreFree, HeapOps
    <3>2. /\ IsFiniteSet(held') /\ Cardinality(held') = Cardinality(held) - 1
          /\ Cardinality(held') \in Nat
      BY <2>1, <3>1, FS_RemoveElement, FS_CardinalityType
    <3> QED BY <2>1, <2>3, <3>1, <3>2 DEF StoreFree, HeapOps
  <2>4. CASE StoreRealloc(t)
    BY <1>7, <2>1, <2>4 DEF StoreRealloc
  <2>5. CASE StoreIncr(t)
    BY <2>1, <2>5 DEF StoreIncr
  <2> QED BY <1>2, <2>2, <2>3, <2>4, <2>5
<1>10. count' = (IF op[t] = "incr" THEN count + 1 ELSE count)
  BY <1>2, <1>7 DEF StoreMalloc, StoreFree, StoreRealloc, StoreIncr
<1>11. Alone' <=> Alone
  BY <1>1, <1>3, AloneStep DEF IInv, PCs
<1>12. TypeOK'
  BY <1>1, <1>3, <1>7, <1>9, <1>10 DEF IInv, TypeOK, PCs, Ops
<1>13. LockInv'
  BY <1>1, <1>3, <1>4, <1>11 DEF IInv, LockInv, Inside
<1>14. SectionInv'
  <2>1. \A s \in Slots : ~Closing(s) => ~Closing(s)'
    BY <1>3, <1>4, HeapMTAssumption DEF Closing, Before, HeapMTAssumption
  <2> QED BY <1>1, <1>11, <2>1 DEF IInv, SectionInv
<1>15. CallInv'
  <2> SUFFICES ASSUME NEW u \in Threads PROVE CallOK(u)'
    BY DEF CallInv
  <2>1. CASE u = t
    <3>1. owner = t => HasMutex(t)
      BY <1>6 DEF CallOK
    <3> QED BY <1>1, <1>3, <1>4, <1>7, <2>1, <3>1
            DEF CallOK, HasMutex, Before, Calling, HeapOps
  <2>2. CASE u # t
    BY <1>1, <1>4, <1>5, <2>2, CallFrame
  <2> QED BY <2>1, <2>2
<1>16. BlockInv'
  <2>1. \A u \in Threads : pc'[u] \in Before =>
          u # t /\ pc[u] \in Before /\ op'[u] = op[u] /\ arg'[u] = arg[u]
    BY <1>3, <1>4 DEF Before
  <2>2. ASSUME NEW u \in Threads, pc'[u] \in Before, op'[u] \in HeapOps
        PROVE  arg'[u] \in Blocks /\ (arg'[u] \in held' <=> op'[u] # "malloc")
    <3>1. /\ u # t /\ pc[u] \in Before /\ op[u] \in HeapOps /\ op'[u] = op[u] /\ arg'[u] = arg[u]
      BY <2>1, <2>2
    <3>2. arg[u] \in Blocks /\ (arg[u] \in held <=> op[u] # "malloc")
      BY <3>1 DEF IInv, BlockInv
    <3>3. arg[u] \in held' <=> arg[u] \in held
      BY <1>8, <1>9, <3>1, <3>2
    <3> QED BY <3>1, <3>2, <3>3
  <2>3. \A u \in Threads : pc'[u] \in Before /\ op'[u] \in HeapOps =>
          \A v \in Threads \ {u} : pc'[v] \in Before /\ op'[v] \in HeapOps => arg'[v] # arg'[u]
    BY <2>1 DEF IInv, BlockInv
  <2> QED BY <1>9, <2>2, <2>3 DEF BlockInv
<1>17. CountExact'
  <2>1. CASE op[t] = "incr"
    <3>1. t \in Pending /\ Pending' = Pending \ {t}
      BY <1>1, <1>3, <1>4, <2>1 DEF Pending, Calling
    <3>2. Cardinality(Pending') = Cardinality(Pending) - 1
      BY <3>1, PendingFinite, FS_RemoveElement
    <3> QED BY <1>1, <1>10, <2>1, <3>2, PendingFinite DEF IInv, TypeOK, CountExact
  <2>2. CASE op[t] # "incr"
    <3>1. Pending' = Pending
      BY <1>1, <1>3, <1>4, <2>2 DEF Pending, Calling
    <3> QED BY <1>1, <1>10, <2>2, <3>1 DEF IInv, CountExact
  <2> QED BY <2>1, <2>2
<1> QED BY <1>12, <1>13, <1>14, <1>15, <1>16, <1>17 DEF IInv

(* bmutex_unlock. *)
LEMMA StepUnlock ==
  ASSUME IInv, NEW t \in Threads, Unlock(t)
  PROVE  IInv'
<1>1. /\ pc' = [pc EXCEPT ![t] = "idle"] /\ pc[t] = "unlock"
      /\ op' = [op EXCEPT ![t] = "none"] /\ owner' = NULL
      /\ UNCHANGED <<mtcount, i_MUTEX, open, bytes, held, count, incrs, arg, reg>>
  BY DEF Unlock, sections, shared
<1>2. /\ pc'[t] = "idle" /\ op'[t] = "none"
      /\ \A u \in Threads \ {t} : pc'[u] = pc[u] /\ op'[u] = op[u]
  BY <1>1 DEF IInv, TypeOK
<1>3. owner = t /\ t # NULL /\ NULL \notin Threads
  BY <1>1, HeapMTAssumption DEF IInv, LockInv, HeapMTAssumption
<1>4. Alone' <=> Alone
  BY <1>1, AloneStep DEF IInv, PCs
<1>5. TypeOK'
  BY <1>1 DEF IInv, TypeOK, PCs, Ops
<1>6. LockInv'
  BY <1>1, <1>2, <1>3, <1>4 DEF IInv, LockInv, Inside
<1>7. SectionInv'
  <2>1. \A s \in Slots : ~Closing(s) => ~Closing(s)'
    BY <1>1, <1>2, HeapMTAssumption DEF Closing, Before, HeapMTAssumption
  <2> QED BY <1>1, <1>4, <2>1 DEF IInv, SectionInv
<1>8. CallInv'
  <2> SUFFICES ASSUME NEW u \in Threads PROVE CallOK(u)'
    BY DEF CallInv
  <2>1. CASE u = t
    BY <1>2, <2>1 DEF CallOK, HasMutex, Before, Calling
  <2>2. CASE u # t
    BY <1>1, <1>2, <1>3, <2>2, CallFrame
  <2> QED BY <2>1, <2>2
<1>9. BlockInv'
  <2>1. \A u \in Threads : pc'[u] \in Before => pc[u] \in Before /\ op'[u] = op[u]
    BY <1>1, <1>2 DEF Before
  <2> QED BY <1>1, <2>1 DEF IInv, BlockInv
<1>10. CountExact'
  <2>1. Pending' = Pending
    BY <1>1, <1>2 DEF Pending, Calling
  <2> QED BY <1>1, <2>1 DEF IInv, CountExact
<1> QED BY <1>5, <1>6, <1>7, <1>8, <1>9, <1>10 DEF IInv

LEMMA StepStutter == ASSUME IInv, UNCHANGED vars PROVE IInv'
<1>1. UNCHANGED <<mtcount, i_MUTEX, open, owner, bytes, held, count, incrs, pc, op, arg, reg>>
  BY DEF vars, sections, shared
<1>2. TypeOK' /\ LockInv'
  BY <1>1 DEF IInv, TypeOK, LockInv, Alone
<1>3. SectionInv'
  BY <1>1 DEF IInv, SectionInv, Closing, Alone
<1>4. CallInv' /\ BlockInv'
  BY <1>1 DEF IInv, CallInv, CallOK, HasMutex, BlockInv
<1>5. CountExact'
  <2>1. Pending' = Pending
    BY <1>1 DEF Pending
  <2> QED BY <1>1, <2>1 DEF IInv, CountExact
<1> QED BY <1>2, <1>3, <1>4, <1>5 DEF IInv

(* The program begins with the main thread alone, no section and no block.   *)
LEMMA InitIInv == Init => IInv
<1> SUFFICES ASSUME Init PROVE IInv
  OBVIOUS
<1>1. TypeOK
  BY HeapMTAssumption DEF Init, TypeOK, PCs, Ops, HeapMTAssumption
<1>2. Alone
  BY DEF Init, Alone
<1>3. IsFiniteSet({}) /\ Cardinality({}) = 0
  BY FS_EmptySet
<1>4. \A t \in Threads : pc[t] \in {"idle", "off"}
  BY DEF Init
<1>5. LockInv /\ SectionInv
  BY <1>2, <1>3, <1>4 DEF Init, LockInv, SectionInv, Inside
<1>6. CallInv /\ BlockInv
  BY <1>3, <1>4, HeapMTAssumption
     DEF Init, CallInv, CallOK, Calling, Before, BlockInv, HeapMTAssumption
<1>7. CountExact
  <2>1. Pending = {}
    BY <1>4 DEF Pending, Calling
  <2> QED BY <1>3, <2>1 DEF Init, CountExact
<1> QED BY <1>1, <1>5, <1>6, <1>7 DEF IInv

(* A call that another part of the program makes. *)
LEMMA StepCall ==
  ASSUME IInv, Disciplined, NEW t \in Threads, Call(t)
  PROVE  IInv'
<1>1. ASSUME NEW o \in HeapOps, NEW b \in Blocks, CallHeap(t, o, b) PROVE IInv'
  BY <1>1, StepEnter DEF CallHeap, HeapOps, SectionOps
<1>2. ASSUME NEW s \in Slots, StartSection(t, s) PROVE IInv'
  BY <1>2, StepEnter DEF StartSection, HeapOps, SectionOps
<1>3. ASSUME NEW s \in Slots, EndSection(t, s) PROVE IInv'
  BY <1>3, StepEnter DEF EndSection, MayClose, HeapOps, SectionOps
<1>4. CASE UseResource(t)
  BY <1>4, StepEnter DEF UseResource, CallIncr, HeapOps, SectionOps
<1>5. CASE Spawn(t) \/ JoinThread(t)
  BY <1>5, StepThreads
<1>6. CASE Exit(t)
  BY <1>6, StepExit
<1> QED BY <1>1, <1>2, <1>3, <1>4, <1>5, <1>6 DEF Call

-----------------------------------------------------------------------------
(* The inductive invariant holds of every program with a disciplined main    *)
(* thread.                                                                  *)
THEOREM Invariance == ASSUME Disciplined PROVE Spec => []IInv
<1>1. Init => IInv
  BY InitIInv
<1>2. IInv /\ [Next]_vars => IInv'
  <2> SUFFICES ASSUME IInv, [Next]_vars PROVE IInv'
    OBVIOUS
  <2>1. ASSUME NEW t \in Threads, Call(t) \/ Proceed(t) \/ Lock(t) PROVE IInv'
    BY <2>1, StepCall, StepTest, StepSection, StepLoad, StepStore, StepUnlock, StepLock
       DEF Proceed
  <2> QED BY <2>1, StepStutter DEF Next
<1> QED BY <1>1, <1>2, PTL DEF Spec

(* heap_free, heap_realloc and i_incr decide without the mutex whether to    *)
(* take it, and still two threads are never among the data it guards.        *)
THEOREM Exclusion == ASSUME Disciplined PROVE Spec => []MutualExclusion
<1>1. IInv => MutualExclusion
  BY LockExcludes
<1> QED BY <1>1, Invariance, PTL

(* Every thread is at a step of the call it makes, with a block or section   *)
(* of the right kind, and mtcount never goes below zero (heap_end_mt).       *)
THEOREM TypeCorrect == ASSUME Disciplined PROVE Spec => []TypeOK
<1>1. IInv => TypeOK
  BY DEF IInv
<1> QED BY <1>1, Invariance, PTL

(* bytes_allocated loses no update.                                         *)
THEOREM BytesKept == ASSUME Disciplined PROVE Spec => []BytesExact
<1>1. IInv => BytesExact
  BY DEF IInv, BlockInv, BytesExact
<1> QED BY <1>1, Invariance, PTL

(* Neither do the counters of live resources of i_incr.                      *)
THEOREM CountersExact == ASSUME Disciplined PROVE Spec => []CountExact
<1>1. IInv => CountExact
  BY DEF IInv
<1> QED BY <1>1, Invariance, PTL

(* A call of i_incr that found a mutex still finds it to lock and to unlock.  *)
THEOREM MutexFound == ASSUME Disciplined PROVE Spec => []MutexPresent
<1>1. IInv => MutexPresent
  BY DEF IInv, CallInv, CallOK, MutexPresent
<1> QED BY <1>1, Invariance, PTL

(* The cassert_fatal of heap_free holds for a disciplined main thread.       *)
THEOREM FreeAsserted == ASSUME Disciplined PROVE Spec => []FreeWithinBytes
<1>1. ASSUME IInv PROVE FreeWithinBytes
  <2> SUFFICES ASSUME NEW t \in Threads, pc[t] = "store", op[t] = "free" PROVE reg[t] > 0
    BY DEF FreeWithinBytes
  <2>1. reg[t] = bytes /\ arg[t] \in held /\ IsFiniteSet(held) /\ bytes = Cardinality(held)
    BY <1>1 DEF IInv, CallInv, CallOK, BlockInv, Before, HeapOps
  <2>2. bytes \in Nat /\ bytes # 0
    BY <1>1, <2>1, FS_EmptySet DEF IInv, TypeOK
  <2> QED BY <2>1, <2>2
<1> QED BY <1>1, Invariance, PTL

-----------------------------------------------------------------------------
(* The calls are atomic to their callers.                                    *)

CallMap == [t \in Threads |-> CallOf(t)]

(* A step of t, as far as the other threads' calls are concerned. *)
LEMMA OthersCall ==
  ASSUME TypeOK, NEW t \in Threads,
         \A u \in Threads \ {t} : pc'[u] = pc[u] /\ op'[u] = op[u] /\ arg'[u] = arg[u],
         NEW c, CallOf(t)' = c
  PROVE  CallMap' = [CallMap EXCEPT ![t] = c]
<1>1. ASSUME NEW u \in Threads, u # t PROVE CallOf(u)' = CallOf(u)
  BY <1>1 DEF CallOf
<1>2. CallMap' = [u \in Threads |-> CallOf(u)'] /\ CallMap = [u \in Threads |-> CallOf(u)]
  BY DEF CallMap
<1> QED BY <1>1, <1>2

LEMMA SameCalls ==
  ASSUME TypeOK, NEW t \in Threads,
         \A u \in Threads \ {t} : pc'[u] = pc[u] /\ op'[u] = op[u] /\ arg'[u] = arg[u],
         CallOf(t)' = CallOf(t)
  PROVE  CallMap' = CallMap
<1>1. CallMap' = [CallMap EXCEPT ![t] = CallOf(t)]
  BY OthersCall
<1>2. CallMap = [CallMap EXCEPT ![t] = CallOf(t)]
  BY DEF CallMap
<1> QED BY <1>1, <1>2

(* Every step but the store and the start of a call is invisible. *)
LEMMA InvisibleStep ==
  ASSUME IInv, NEW t \in Threads,
         \/ \E s \in Slots : StartSection(t, s) \/ EndSection(t, s)
         \/ Exit(t) \/ Test(t) \/ Lock(t) \/ Section(t) \/ Load(t) \/ Unlock(t)
  PROVE  UNCHANGED <<held, bytes, count, CallMap>>
<1> USE DEF IInv, TypeOK
<1>1. ASSUME NEW s \in Slots, StartSection(t, s) \/ EndSection(t, s)
      PROVE  UNCHANGED <<held, bytes, count, CallMap>>
  <2>1. CallOf(t)' = NULL /\ CallOf(t) = NULL
    BY <1>1 DEF StartSection, EndSection, Enter, CallOf, SectionOps, Before
  <2> QED BY <1>1, <2>1, SameCalls DEF StartSection, EndSection, Enter
<1>2. CASE Exit(t)
  <2>1. CallOf(t)' = NULL /\ CallOf(t) = NULL
    BY <1>2 DEF Exit, CallOf, Before
  <2> QED BY <1>2, <2>1, SameCalls DEF Exit, shared
<1>3. CASE Test(t) \/ Lock(t) \/ Load(t)
  <2>1. CallOf(t)' = CallOf(t)
    BY <1>3 DEF Test, Lock, Load, CallOf, Before
  <2> QED BY <1>3, <2>1, SameCalls DEF Test, Lock, Load, shared
<1>4. CASE Section(t)
  <2>1. CallOf(t)' = NULL /\ CallOf(t) = NULL
    BY <1>4 DEF Section, StartBody, EndBody, CallOf, SectionOps
  <2> QED BY <1>4, <2>1, SameCalls DEF Section, shared
<1>5. CASE Unlock(t)
  <2>1. CallOf(t)' = NULL /\ CallOf(t) = NULL
    BY <1>5 DEF Unlock, CallOf, Before
  <2> QED BY <1>5, <2>1, SameCalls DEF Unlock, shared
<1> QED BY <1>1, <1>2, <1>3, <1>4, <1>5

(* A call starts. *)
LEMMA CallInvokes ==
  ASSUME IInv, NEW t \in Threads, NEW o \in HeapOps \cup {"incr"}, NEW x,
         pc[t] = "idle", Enter(t, o, x)
  PROVE  /\ CallMap[t] = NULL
         /\ CallMap' = [CallMap EXCEPT ![t] =
                          IF o = "incr" THEN [op |-> "incr"] ELSE [op |-> o, block |-> x]]
         /\ UNCHANGED <<held, bytes, count>>
<1> USE DEF IInv, TypeOK
<1>1. CallOf(t) = NULL /\ CallMap[t] = NULL
  BY DEF CallOf, CallMap, Before
<1>2. CallOf(t)' = IF o = "incr" THEN [op |-> "incr"] ELSE [op |-> o, block |-> x]
  BY DEF Enter, CallOf, Before, Entry, HeapOps, SectionOps
<1>3. CallMap' = [CallMap EXCEPT ![t] =
                   IF o = "incr" THEN [op |-> "incr"] ELSE [op |-> o, block |-> x]]
  BY <1>2, OthersCall DEF Enter
<1> QED BY <1>1, <1>3 DEF Enter

LEMMA StartInvokes ==
  ASSUME IInv, NEW t \in Threads,
         \/ \E o \in HeapOps, b \in Blocks : CallHeap(t, o, b)
         \/ UseResource(t)
  PROVE  \E c \in Atomic!Calls : Atomic!Invoke(t, c)
<1>1. ASSUME NEW o \in HeapOps, NEW b \in Blocks, CallHeap(t, o, b)
      PROVE  \E c \in Atomic!Calls : Atomic!Invoke(t, c)
  <2> DEFINE c == [op |-> o, block |-> b]
  <2>1. c \in Atomic!Calls BY DEF Atomic!Calls, HeapOps
  <2>2. o # "incr" BY DEF HeapOps
  <2>3. CallMap[t] = NULL /\ CallMap' = [CallMap EXCEPT ![t] = c] /\ UNCHANGED <<held, bytes, count>>
    BY <1>1, <2>2, CallInvokes DEF CallHeap
  <2> QED BY <2>1, <2>3 DEF Atomic!Invoke, CallMap
<1>2. CASE UseResource(t)
  <2> DEFINE c == [op |-> "incr"]
  <2>1. c \in Atomic!Calls BY DEF Atomic!Calls
  <2>3. CallMap[t] = NULL /\ CallMap' = [CallMap EXCEPT ![t] = c] /\ UNCHANGED <<held, bytes, count>>
    BY <1>2, CallInvokes DEF UseResource, CallIncr
  <2> QED BY <2>1, <2>3 DEF Atomic!Invoke, CallMap
<1> QED BY <1>1, <1>2

(* A thread is created or joined, and the main thread starts to count it. *)
LEMMA ThreadInvokes ==
  ASSUME IInv, NEW t \in Threads, Spawn(t) \/ JoinThread(t)
  PROVE  \E c \in Atomic!Calls : Atomic!Invoke(Main, c)
<1> USE DEF IInv, TypeOK
<1> DEFINE c == [op |-> "incr"]
<1>1. c \in Atomic!Calls BY DEF Atomic!Calls
<1>2. Main \in Threads BY HeapMTAssumption DEF HeapMTAssumption
<1>3. CallOf(Main) = NULL /\ CallOf(Main)' = c
  BY <1>2 DEF Spawn, JoinThread, CallOf, Before, Entry, SectionOps
<1>4. ASSUME NEW u \in Threads, u # Main PROVE CallOf(u)' = CallOf(u)
  BY <1>2, <1>4 DEF Spawn, JoinThread, CallOf, Before
<1>5. CallMap' = [u \in Threads |-> CallOf(u)'] /\ CallMap = [u \in Threads |-> CallOf(u)]
  BY DEF CallMap
<1>6. CallMap[Main] = NULL /\ CallMap' = [CallMap EXCEPT ![Main] = c]
  BY <1>2, <1>3, <1>4, <1>5
<1>7. UNCHANGED <<held, bytes, count>>
  BY DEF Spawn, JoinThread
<1> QED BY <1>1, <1>2, <1>6, <1>7 DEF Atomic!Invoke, CallMap

(* The store is the effect. *)
LEMMA StoreEffects ==
  ASSUME IInv, NEW t \in Threads, Store(t)
  PROVE  Atomic!Effect(t)
<1> USE DEF IInv, TypeOK
<1>1. pc[t] = "store" /\ op[t] \in HeapOps \cup {"incr"}
      /\ reg[t] = (IF op[t] = "incr" THEN count ELSE bytes)
  BY DEF Store, CallInv, CallOK
<1>2. op[t] \in HeapOps => arg[t] \in Blocks /\ (arg[t] \in held <=> op[t] # "malloc")
  BY <1>1 DEF BlockInv, Before
<1>3. CallOf(t) = IF op[t] = "incr" THEN [op |-> "incr"] ELSE [op |-> op[t], block |-> arg[t]]
  BY <1>1 DEF CallOf, Before, HeapOps, SectionOps
<1>4. CallMap[t] = CallOf(t)
  BY DEF CallMap
<1>5. CallMap' = [CallMap EXCEPT ![t] = NULL]
  <2>1. CallOf(t)' = NULL
    BY DEF Store, CallOf, Before
  <2>2. \A u \in Threads \ {t} : pc'[u] = pc[u] /\ op'[u] = op[u] /\ arg'[u] = arg[u]
    BY DEF Store
  <2> QED BY <2>1, <2>2, OthersCall
<1>6. CASE StoreMalloc(t)
  BY <1>1, <1>2, <1>3, <1>4, <1>5, <1>6 DEF StoreMalloc, Atomic!Effect, Atomic!Takes, CallMap, HeapOps
<1>7. CASE StoreFree(t)
  BY <1>1, <1>2, <1>3, <1>4, <1>5, <1>7 DEF StoreFree, Atomic!Effect, Atomic!Gives, CallMap, HeapOps
<1>8. CASE StoreRealloc(t)
  BY <1>1, <1>2, <1>3, <1>4, <1>5, <1>8 DEF StoreRealloc, Atomic!Effect, Atomic!Moves, CallMap, HeapOps
<1>9. CASE StoreIncr(t)
  BY <1>1, <1>3, <1>4, <1>5, <1>9 DEF StoreIncr, Atomic!Effect, Atomic!Counts, CallMap
<1> QED BY <1>6, <1>7, <1>8, <1>9 DEF Store

(* With a disciplined main thread the allocator and the counters, tests      *)
(* without the mutex included, implement atomic ones.                        *)
THEOREM Refinement == ASSUME Disciplined PROVE Spec => CallsAtomic
<1>1. Init => Atomic!AInit
  BY DEF Init, Atomic!AInit, CallOf, Before
<1>2. IInv /\ [Next]_vars => [Atomic!ANext]_(Atomic!avars)
  <2> SUFFICES ASSUME IInv, [Next]_vars, ~(UNCHANGED Atomic!avars)
               PROVE  Atomic!ANext
    OBVIOUS
  <2>1. CASE UNCHANGED vars
    <3>1. UNCHANGED <<held, bytes, count, pc, op, arg>>
      BY <2>1 DEF vars, shared
    <3> QED BY <3>1 DEF Atomic!avars, CallOf
  <2>2. ASSUME NEW t \in Threads, Call(t) \/ Proceed(t) \/ Lock(t) PROVE Atomic!ANext
    <3>1. CASE \/ \E s \in Slots : StartSection(t, s) \/ EndSection(t, s)
               \/ Exit(t) \/ Test(t) \/ Lock(t) \/ Section(t) \/ Load(t) \/ Unlock(t)
      BY <3>1, InvisibleStep DEF Atomic!avars, CallMap
    <3>2. CASE (\E o \in HeapOps, b \in Blocks : CallHeap(t, o, b)) \/ UseResource(t)
      BY <3>2, StartInvokes DEF Atomic!ANext
    <3>3. CASE Spawn(t) \/ JoinThread(t)
      BY <3>3, ThreadInvokes, HeapMTAssumption DEF Atomic!ANext, HeapMTAssumption
    <3>4. CASE Store(t)
      BY <3>4, StoreEffects DEF Atomic!ANext
    <3> QED BY <2>2, <3>1, <3>2, <3>3, <3>4 DEF Call, Proceed
  <2> QED BY <2>1, <2>2 DEF Next
<1>3. Spec => []IInv
  BY Invariance
<1> QED BY <1>1, <1>2, <1>3, PTL DEF Spec, CallsAtomic, Atomic!ASpec
=============================================================================
