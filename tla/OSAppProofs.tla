----------------------------- MODULE OSAppProofs -----------------------------
(***************************************************************************)
(* Theorems about OSApp: type correctness, and the invariant that makes    *)
(* reaping and freeing tasks safe.                                         *)
(***************************************************************************)
EXTENDS OSApp, TLAPS

LEMMA DeleteAtType ==
  ASSUME NEW T, NEW s \in Seq(T), NEW i \in 1..Len(s)
  PROVE  DeleteAt(s, i) \in Seq(T) /\ Len(DeleteAt(s, i)) = Len(s) - 1
<1>1. Len(s) \in Nat /\ Len(s) - 1 \in Nat
  OBVIOUS
<1>2. DeleteAt(s, i) \in [1..(Len(s) - 1) -> T]
  BY <1>1 DEF DeleteAt
<1>3. QED
  BY <1>1, <1>2

(* Deleting position i of an array without repetitions removes exactly the  *)
(* element that was there (arrpt_delete).                                   *)
LEMMA DeleteAtLemma ==
  ASSUME NEW T, NEW s \in Seq(T), NEW i \in 1..Len(s),
         \A j, k \in 1..Len(s) : s[j] = s[k] => j = k
  PROVE  /\ DeleteAt(s, i) \in Seq(T)
         /\ Len(DeleteAt(s, i)) = Len(s) - 1
         /\ \A u : (\E j \in 1..Len(DeleteAt(s, i)) : DeleteAt(s, i)[j] = u)
                     <=> (u # s[i] /\ \E j \in 1..Len(s) : s[j] = u)
         /\ \A j, k \in 1..Len(DeleteAt(s, i)) :
              DeleteAt(s, i)[j] = DeleteAt(s, i)[k] => j = k
<1> DEFINE d == DeleteAt(s, i)
<1>1. Len(s) \in Nat /\ Len(s) - 1 \in Nat
  OBVIOUS
<1>2. \A j \in 1..(Len(s) - 1) : d[j] = IF j < i THEN s[j] ELSE s[j + 1]
  BY DEF DeleteAt
<1>4. d \in Seq(T) /\ Len(d) = Len(s) - 1
  BY DeleteAtType
<1> HIDE DEF d
<1>5. ASSUME NEW u
      PROVE  (\E j \in 1..Len(d) : d[j] = u) <=> (u # s[i] /\ \E j \in 1..Len(s) : s[j] = u)
  <2>1. ASSUME NEW j \in 1..Len(d), d[j] = u
        PROVE  u # s[i] /\ \E k \in 1..Len(s) : s[k] = u
    BY <2>1, <1>1, <1>2, <1>4
  <2>2. ASSUME NEW j \in 1..Len(s), s[j] = u, u # s[i]
        PROVE  \E k \in 1..Len(d) : d[k] = u
    <3>1. CASE j < i
      BY <3>1, <2>2, <1>1, <1>2, <1>4
    <3>2. CASE j > i
      <4>1. j - 1 \in 1..Len(d) /\ ~(j - 1 < i) /\ (j - 1) + 1 = j
        BY <3>2, <1>1, <1>4
      <4>2. d[j - 1] = s[j]
        BY <4>1, <1>2, <1>4
      <4>3. QED
        BY <4>1, <4>2, <2>2
    <3>3. QED
      BY <3>1, <3>2, <2>2
  <2>3. QED
    BY <2>1, <2>2
<1>6. ASSUME NEW j \in 1..Len(d), NEW k \in 1..Len(d), d[j] = d[k]
      PROVE  j = k
  BY <1>6, <1>1, <1>2, <1>4
<1>7. QED
  BY <1>4, <1>5, <1>6 DEF d

-----------------------------------------------------------------------------
(* The parts of the state keep their types, and the loop of the scheduler   *)
(* counts within the array although callbacks append to it; the buffer it   *)
(* walks (arrpt_foreach keeps the pointer) is freed under it only when the  *)
(* array has outgrown MinCapacity.  This holds with late threads and with   *)
(* an application that quits while busy.                                    *)
THEOREM TypeCorrect == Spec => [](TypeOK /\ LoopInv)
<1> USE OSAppAssumption DEF OSAppAssumption, Threads, InLoopBody
<1>1. Init => TypeOK /\ LoopInv
  BY DEF Init, TypeOK, LoopInv, Phases, TaskStates, MainPCs, ThreadPCs
<1>2. TypeOK /\ LoopInv /\ [Next]_vars => TypeOK' /\ LoopInv'
  <2> SUFFICES ASSUME TypeOK, LoopInv, [Next]_vars
               PROVE  TypeOK' /\ LoopInv'
    OBVIOUS
  <2> USE DEF TypeOK, LoopInv, Phases, TaskStates, MainPCs, ThreadPCs
  <2>1. ASSUME NEW t \in Tasks, osapp_task(t)
        PROVE  TypeOK' /\ LoopInv'
    <3>1. /\ state' = [state EXCEPT ![t] = "WAITING"] /\ sched' = Append(sched, t)
          /\ \/ buffer' = buffer
             \/ buffer' = "freed" /\ mpc \in {"update", "end"} /\ Len(sched) >= MinCapacity
          /\ mpc # "lost"
          /\ UNCHANGED <<phase, flags, finishes, thread, freed, ended, mpc, idx, total, deleted, tpc>>
      BY <2>1 DEF osapp_task, Grows, InUserCode, appVars
    <3>2. Len(sched') = Len(sched) + 1 /\ sched' \in Seq(Tasks) /\ Len(sched) \in Nat
      BY SMTT(30), <3>1
    <3>3. QED
      BY SMTT(30), <3>1, <3>2
  <2>2. CASE osapp_finish
    BY SMTT(30), <2>2 DEF osapp_finish, TerminateRequest, taskVars, cycleVars
  <2>3. CASE OnFinishLaunching \/ CreateReturns
    BY ZenonT(60), <2>3 DEF OnFinishLaunching, CreateReturns, TerminateRequest, taskVars, cycleVars
  <2>4. CASE DestroyApp
    BY SMTT(30), <2>4 DEF DestroyApp, Scheduled, cycleVars
  <2>5. CASE BeginCycle
    BY SMTT(30), <2>5 DEF BeginCycle, appVars, taskVars
  <2>6. CASE VisitWaiting
    <3>1. sched[idx] \in Tasks
      BY SMTT(30), <2>6 DEF VisitWaiting, Visiting
    <3>2. PICK k \in Threads : /\ tpc' = [tpc EXCEPT ![sched[idx]][k] = "created"]
                               /\ thread' = [thread EXCEPT ![sched[idx]] = k]
      BY <2>6 DEF VisitWaiting
    <3>3. tpc' \in [Tasks -> [Threads -> ThreadPCs]] /\ thread' \in [Tasks -> 0..MaxThreads]
      BY <3>1, <3>2
    <3>4. idx' \in Nat \ {0} /\ UNCHANGED <<appVars, sched, state, freed, ended, mpc, total, buffer, deleted>>
      BY <2>6 DEF VisitWaiting, NextTask
    <3>5. mpc = "cycle"
      BY <2>6 DEF VisitWaiting, Visiting
    <3>6. QED
      BY <3>3, <3>4, <3>5 DEF appVars
  <2>7. CASE VisitWaitingFails
    BY SMTT(30), <2>7 DEF VisitWaitingFails, Visiting, NextTask, appVars
  <2>8. CASE VisitRunning
    <3>1. /\ mpc = "cycle" /\ idx <= total
          /\ idx' \in Nat \ {0} /\ mpc' \in {"update", "cycle"} /\ (mpc' = "update" => idx' = idx)
          /\ UNCHANGED <<phase, flags, finishes, sched, state, thread, freed, ended, total, buffer, deleted, tpc>>
      BY SMTT(30), <2>8 DEF VisitRunning, Visiting, NextTask, appVars, taskVars
    <3>2. QED
      BY <3>1
  <2>9. CASE VisitFinish
    <3>1. /\ mpc = "cycle" /\ idx <= total
          /\ idx' \in Nat \ {0} /\ mpc' \in {"join", "cycle"} /\ (mpc' = "join" => idx' = idx)
          /\ UNCHANGED <<phase, flags, finishes, sched, state, thread, freed, ended, total, buffer, deleted, tpc>>
      BY SMTT(30), <2>9 DEF VisitFinish, Visiting, NextTask, appVars, taskVars
    <3>2. QED
      BY <3>1
  <2>10. CASE Join
    <3>1. sched[idx] \in Tasks
      BY SMTT(30), <2>10 DEF Join
    <3>2. CASE sched[idx] \in Ending
      <4>1. mpc = "join" /\ ended' = [ended EXCEPT ![sched[idx]] = @ + 1] /\ mpc' = "end"
            /\ UNCHANGED <<phase, flags, finishes, sched, state, thread, freed, idx, total, buffer, deleted, tpc>>
        BY <2>10, <3>2 DEF Join, appVars
      <4>2. ended[sched[idx]] + 1 \in Nat
        BY <3>1
      <4>3. ended' \in [Tasks -> Nat]
        BY <4>1, <4>2
      <4>4. QED
        BY <4>1, <4>3
    <3>3. CASE sched[idx] \notin Ending
      <4>1. mpc = "join" /\ deleted' = sched[idx] /\ mpc' = "cycle" /\ idx' = idx + 1
            /\ UNCHANGED <<phase, flags, finishes, sched, state, thread, freed, ended, total, buffer, tpc>>
        BY <2>10, <3>3 DEF Join, NextTask, appVars
      <4>2. QED
        BY SMTT(30), <3>1, <4>1
    <3>4. QED
      BY <3>2, <3>3
  <2>11. CASE UpdateReturns
    BY SMTT(30), <2>11 DEF UpdateReturns, NextTask, appVars, taskVars
  <2>12. CASE EndReturns
    BY SMTT(30), <2>12 DEF EndReturns, NextTask, appVars, taskVars
  <2>13. CASE EndCycle
    <3>1. sched' \in Seq(Tasks) /\ freed' \subseteq Tasks
      <4>1. CASE deleted = NoTask
        BY <2>13, <4>1 DEF EndCycle
      <4>2. CASE deleted # NoTask
        <5>1. PICK i \in 1..Len(sched) : sched' = DeleteAt(sched, i)
          BY <2>13, <4>2 DEF EndCycle
        <5>2. freed' = freed \cup {deleted}
          BY <2>13, <4>2 DEF EndCycle
        <5>3. QED
          BY <4>2, <5>1, <5>2, DeleteAtType
      <4>3. QED
        BY <4>1, <4>2
    <3>2. QED
      BY SMTT(30), <2>13, <3>1 DEF EndCycle, appVars
  <2>14. CASE AppUpdateReturns
    BY <2>14 DEF AppUpdateReturns, appVars, taskVars
  <2>18. CASE VisitFreed
    BY SMTT(30), <2>18 DEF VisitFreed, appVars, taskVars
  <2>15. ASSUME NEW t \in Tasks, NEW k \in Threads, Worker(t, k)
         PROVE  TypeOK' /\ LoopInv'
    <3>1. CASE DispatchBegin(t, k)
      BY <3>1 DEF DispatchBegin, appVars, cycleVars
    <3>2. CASE DispatchFinish(t, k)
      BY <3>2 DEF DispatchFinish, appVars, cycleVars
    <3>3. CASE DispatchReturn(t, k)
      BY <3>3 DEF DispatchReturn, appVars, taskVars, cycleVars
    <3>4. QED
      BY <2>15, <3>1, <3>2, <3>3 DEF Worker
  <2>16. CASE UNCHANGED vars
    BY <2>16 DEF vars, appVars, taskVars, cycleVars
  <2>17. QED
    BY <2>1, <2>2, <2>3, <2>4, <2>5, <2>6, <2>7, <2>8, <2>10, <2>11, <2>13, <2>14, <2>15, <2>16, <2>9, <2>12, <2>18
       DEF Next, UserCall, Launch, Tick
<1>3. QED
  BY <1>1, <1>2, PTL DEF Spec

(* With at most MinCapacity tasks alive (8 in the code) a callback may      *)
(* start tasks at any point of a scheduler cycle: the loop of the cycle     *)
(* never reads the buffer of an array that has moved.  With more it may.    *)
THEOREM FewTasksSafe == Spec => []RoomForFew
<1>1. LoopInv => RoomForFew
  BY DEF LoopInv, RoomForFew
<1>2. QED
  BY <1>1, TypeCorrect, PTL

-----------------------------------------------------------------------------
(* The step lemmas of the inductive invariant.  Each one assumes an         *)
(* application that neither has late threads nor quits while busy.          *)
Orderly == ~LateStart /\ ~QuitWhileBusy

Inv == ThreadInv /\ SchedInv /\ CycleInv /\ ReapInv /\ FinishInv

(* osapp_task: a task never seen before joins the scheduler's tail.         *)
LEMMA StepTask ==
  ASSUME TypeOK, LoopInv, Inv, Orderly, NEW t \in Tasks, osapp_task(t)
  PROVE  Inv'
<1>1. /\ state[t] = "none" /\ finishes = 0 /\ mpc # "lost"
      /\ state' = [state EXCEPT ![t] = "WAITING"]
      /\ sched' = Append(sched, t)
      /\ UNCHANGED <<phase, flags, finishes, thread, freed, ended, mpc, idx, total, deleted, tpc>>
  BY DEF osapp_task, InUserCode, MayStart, Orderly, appVars, cycleVars
<1>2. /\ sched \in Seq(Tasks) /\ state \in [Tasks -> TaskStates] /\ freed \subseteq Tasks
      /\ idx \in Nat \ {0} /\ total \in Nat /\ mpc \in MainPCs
      /\ deleted \in Tasks \cup {NoTask}
  BY DEF TypeOK
<1>3. /\ Len(sched') = Len(sched) + 1 /\ sched'[Len(sched) + 1] = t
      /\ \A i \in 1..Len(sched) : sched'[i] = sched[i] /\ sched[i] \in Tasks
  BY <1>1, <1>2
<1>4. t \notin freed /\ \A i \in 1..Len(sched) : sched[i] # t
  BY <1>1 DEF Inv, SchedInv, ReapInv, Reaped
<1>5. \A u \in Tasks : Reaped(u)' <=> Reaped(u)
  BY <1>1, <1>2 DEF Reaped, JoinDone, Inv, ThreadInv
<1>6. ThreadInv'
  BY <1>1, <1>2 DEF Inv, ThreadInv
<1>7. SchedInv'
  <2>1. \A i, j \in 1..Len(sched') : sched'[i] = sched'[j] => i = j
    BY <1>2, <1>3, <1>4 DEF Inv, SchedInv
  <2>2. ASSUME NEW u \in Tasks
        PROVE  (\E i \in 1..Len(sched') : sched'[i] = u) <=> (u \notin freed' /\ state'[u] # "none")
    <3>1. CASE u = t
      BY <1>1, <1>2, <1>3, <1>4, <3>1
    <3>2. CASE u # t
      <4>1. (\E i \in 1..Len(sched') : sched'[i] = u) <=> (\E i \in 1..Len(sched) : sched[i] = u)
        BY <1>2, <1>3, <3>2
      <4>2. QED
        BY <1>1, <1>2, <3>2, <4>1 DEF Inv, SchedInv
    <3>3. QED
      BY <3>1, <3>2
  <2>3. QED
    BY <2>1, <2>2 DEF SchedInv
<1>8. CycleInv'
  <2>1. CASE mpc \in InLoopBody \cup {"cycle"}
    <3>1. \A i \in idx..total : sched'[i] = sched[i] /\ sched[i] # t /\ sched[i] \in Tasks
      BY <1>2, <1>3, <1>4, <2>1 DEF LoopInv
    <3>2. mpc \in InLoopBody => sched'[idx] = sched[idx] /\ sched[idx] # t /\ sched[idx] \in Tasks
      BY <1>2, <3>1 DEF LoopInv, InLoopBody
    <3>3. QED
      BY ZenonT(60), <1>1, <1>2, <2>1, <3>1, <3>2 DEF Inv, CycleInv, InLoopBody, Reaped, JoinDone
  <2>2. CASE mpc \notin InLoopBody \cup {"cycle"}
    BY <1>1, <1>2, <2>2 DEF Inv, CycleInv, InLoopBody, MainPCs
  <2>3. QED
    BY <2>1, <2>2
<1>9. ReapInv'
  <2>1. mpc = "end" => sched'[idx] = sched[idx]
    BY <1>2, <1>3 DEF LoopInv, InLoopBody
  <2>2. QED
    BY <1>1, <1>2, <1>5, <2>1 DEF Inv, ReapInv
<1>10. FinishInv'
  BY <1>1 DEF Inv, FinishInv
<1>11. QED
  BY <1>6, <1>7, <1>8, <1>9, <1>10 DEF Inv

(* Steps that touch neither tasks nor threads nor the scheduler loop:       *)
(* osapp_finish, and the two halves of i_OnFinishLaunching.                 *)
LEMMA StepLifecycle ==
  ASSUME TypeOK, LoopInv, Inv, Orderly, osapp_finish \/ OnFinishLaunching \/ CreateReturns
  PROVE  Inv'
<1>1. UNCHANGED <<sched, state, thread, freed, ended, mpc, idx, total, buffer, deleted, tpc>>
  BY DEF osapp_finish, OnFinishLaunching, CreateReturns, taskVars, cycleVars
<1>2. ThreadInv' /\ SchedInv'
  BY <1>1 DEF Inv, ThreadInv, SchedInv
<1>3. CycleInv' /\ ReapInv'
  BY <1>1 DEF Inv, CycleInv, ReapInv, Reaped, JoinDone
<1>4. FinishInv'
  <2>1. CASE osapp_finish
    <3>1. \A i \in 1..Len(sched) : sched[i] = deleted \/ (mpc = "end" /\ sched[i] = sched[idx])
      BY <2>1 DEF osapp_finish, MayFinish, Scheduled, Orderly
    <3>2. finishes' > 0 /\ phase' = phase
      BY <2>1 DEF osapp_finish, TypeOK
    <3>3. "terminate" \in flags' => phase \in {"running", "destroyed"}
      BY <2>1 DEF osapp_finish, TerminateRequest, Inv, FinishInv
    <3>4. QED
      BY <1>1, <3>1, <3>2, <3>3 DEF FinishInv
  <2>2. CASE OnFinishLaunching
    BY <1>1, <2>2 DEF OnFinishLaunching, Inv, FinishInv
  <2>3. CASE CreateReturns
    BY <1>1, <2>3 DEF CreateReturns, TerminateRequest, Inv, FinishInv
  <2>4. QED
    BY <2>1, <2>2, <2>3
<1>5. QED
  BY <1>2, <1>3, <1>4 DEF Inv

(* The destruction finds an empty scheduler: what is left after             *)
(* osapp_finish was reaped, and no reaped task survives the end of a cycle. *)
LEMMA DrainedAtDestroy ==
  ASSUME TypeOK, Inv, DestroyApp
  PROVE  sched = <<>>
<1>1. finishes > 0 /\ mpc = "idle" /\ deleted = NoTask
  BY DEF DestroyApp, Inv, FinishInv, CycleInv
<1>2. \A i \in 1..Len(sched) : FALSE
  <2>1. \A i \in 1..Len(sched) : sched[i] \in Tasks
    BY DEF TypeOK
  <2>2. \A i \in 1..Len(sched) : sched[i] = deleted
    BY <1>1 DEF Inv, FinishInv
  <2>3. QED
    BY <1>1, <2>1, <2>2, OSAppAssumption DEF OSAppAssumption
<1>3. Len(sched) = 0
  BY <1>2 DEF TypeOK
<1>4. QED
  BY <1>3 DEF TypeOK

LEMMA StepDestroy ==
  ASSUME TypeOK, LoopInv, Inv, DestroyApp
  PROVE  Inv'
<1>1. sched = <<>>
  BY DrainedAtDestroy
<1>2. /\ freed' = freed /\ sched' = sched /\ phase' = "destroyed"
      /\ UNCHANGED <<flags, finishes, state, thread, ended, mpc, idx, total, buffer, deleted, tpc>>
  BY <1>1 DEF DestroyApp, Scheduled, cycleVars
<1>3. ThreadInv' /\ SchedInv' /\ CycleInv' /\ ReapInv'
  BY <1>2 DEF Inv, ThreadInv, SchedInv, CycleInv, ReapInv, Reaped, JoinDone
<1>4. FinishInv'
  BY <1>2 DEF Inv, FinishInv
<1>5. QED
  BY <1>3, <1>4 DEF Inv

(* A cycle begins with every WAITING task threadless, because no thread is  *)
(* late.                                                                    *)
LEMMA StepBegin ==
  ASSUME TypeOK, LoopInv, Inv, Orderly, BeginCycle
  PROVE  Inv'
<1>1. /\ mpc = "idle" /\ mpc' = "cycle" /\ idx' = 1 /\ total' = Len(sched) /\ deleted' = NoTask
      /\ deleted = NoTask /\ NoLateThread
      /\ UNCHANGED <<phase, flags, finishes, sched, state, thread, freed, ended, tpc>>
  BY DEF BeginCycle, Orderly, appVars, taskVars, Inv, CycleInv
<1>2. ThreadInv' /\ SchedInv'
  BY <1>1 DEF Inv, ThreadInv, SchedInv
<1>3. \A t \in Tasks : state[t] = "WAITING" => thread[t] = 0
  <2>1. \A t \in Tasks : thread[t] \in 0..MaxThreads
    BY DEF TypeOK
  <2>2. QED
    BY <1>1, <2>1, OSAppAssumption DEF OSAppAssumption, NoLateThread, Threads, Inv, ThreadInv
<1>4. CycleInv'
  BY <1>1, <1>3 DEF CycleInv, InLoopBody, TypeOK
<1>5. ReapInv' /\ FinishInv'
  BY <1>1 DEF Inv, ReapInv, FinishInv, Reaped, JoinDone
<1>6. QED
  BY <1>2, <1>4, <1>5 DEF Inv

(* A WAITING task gets its first thread, or pthread_create fails.           *)
LEMMA StepWaiting ==
  ASSUME TypeOK, LoopInv, Inv, VisitWaiting \/ VisitWaitingFails
  PROVE  Inv'
<1> DEFINE t == sched[idx]
<1>1. /\ mpc = "cycle" /\ idx <= total /\ state[t] = "WAITING" /\ idx' = idx + 1
      /\ UNCHANGED <<phase, flags, finishes, sched, state, freed, ended, mpc, total, buffer, deleted>>
  BY DEF VisitWaiting, VisitWaitingFails, Visiting, NextTask, appVars
<1>2. /\ sched \in Seq(Tasks) /\ state \in [Tasks -> TaskStates] /\ freed \subseteq Tasks
      /\ thread \in [Tasks -> 0..MaxThreads] /\ tpc \in [Tasks -> [Threads -> ThreadPCs]]
      /\ idx \in Nat \ {0} /\ total \in Nat /\ total <= Len(sched)
      /\ deleted \in Tasks \cup {NoTask}
  BY <1>1 DEF TypeOK, LoopInv
<1>3. idx \in 1..Len(sched) /\ t \in Tasks /\ thread[t] = 0
  BY <1>1, <1>2 DEF Inv, CycleInv
<1>4. \E th \in 0..MaxThreads :
        /\ thread' = [thread EXCEPT ![t] = th]
        /\ \/ th = 0 /\ tpc' = tpc
           \/ th \in Threads /\ tpc' = [tpc EXCEPT ![t][th] = "created"]
  BY SMTT(30), <1>2, OSAppAssumption DEF OSAppAssumption, VisitWaiting, VisitWaitingFails, Threads
<1>5. \A u \in Tasks : u # t => thread'[u] = thread[u] /\ tpc'[u] = tpc[u]
  BY <1>2, <1>4
<1> HIDE DEF t
<1>6. \A u \in Tasks : Reaped(u) => u # t /\ Reaped(u)'
  BY <1>1, <1>2, <1>5 DEF Reaped, JoinDone
<1>7. ThreadInv'
  <2>1. ASSUME NEW u \in Tasks, u # t
        PROVE  /\ state'[u] = state[u] /\ thread'[u] = thread[u]
               /\ tpc'[u] = tpc[u] /\ ended'[u] = ended[u]
    BY <1>1, <1>5, <2>1
  <2>2. /\ \A k \in Threads : tpc'[t][k] # "none" => k = thread'[t]
        /\ thread'[t] # 0 => tpc'[t][thread'[t]] = "created"
    BY <1>2, <1>3, <1>4, OSAppAssumption DEF OSAppAssumption, Threads, Inv, ThreadInv
  <2>3. QED
    BY <1>1, <1>3, <2>1, <2>2 DEF Inv, ThreadInv
<1>8. SchedInv'
  BY <1>1 DEF Inv, SchedInv
<1>9. CycleInv'
  <2>1. \A i \in idx'..total : i \in idx..total /\ i \in 1..Len(sched) /\ i # idx
    BY <1>1, <1>2
  <2>2. \A i \in idx'..total : sched[i] \in Tasks /\ sched[i] # t
    BY <1>2, <1>3, <2>1 DEF t, Inv, SchedInv
  <2>3. \A i \in idx'..total' : state'[sched'[i]] = "WAITING" => thread'[sched'[i]] = 0
    BY <1>1, <1>5, <2>1, <2>2 DEF Inv, CycleInv
  <2>4. deleted' # NoTask => Reaped(deleted)' /\ deleted' \notin freed'
    <3>1. deleted # NoTask => deleted \in Tasks /\ Reaped(deleted) /\ deleted \notin freed
      BY <1>2 DEF Inv, CycleInv
    <3>2. QED
      BY <1>1, <1>5, <1>6, <3>1 DEF Reaped, JoinDone
  <2>5. deleted' # NoTask => \A i \in idx'..total' : sched'[i] # deleted'
    BY <1>1, <2>1 DEF Inv, CycleInv
  <2>6. QED
    BY <1>1, <2>3, <2>4, <2>5 DEF CycleInv, InLoopBody
<1>10. ReapInv'
  BY <1>1, <1>2, <1>6 DEF Inv, ReapInv
<1>11. FinishInv'
  BY <1>1 DEF Inv, FinishInv
<1>12. QED
  BY <1>7, <1>8, <1>9, <1>10, <1>11 DEF Inv

(* Steps of the loop that change neither tasks nor threads.                 *)
LEMMA StepLoop ==
  ASSUME TypeOK, LoopInv, Inv, VisitRunning \/ VisitFinish \/ VisitFreed \/ UpdateReturns \/ AppUpdateReturns
  PROVE  Inv'
<1>1. UNCHANGED <<phase, flags, finishes, sched, state, thread, freed, ended, total, buffer, deleted, tpc>>
  BY DEF VisitRunning, VisitFinish, VisitFreed, UpdateReturns, AppUpdateReturns, appVars, taskVars
<1>2. ThreadInv' /\ SchedInv'
  BY <1>1 DEF Inv, ThreadInv, SchedInv
<1>3. /\ idx \in Nat \ {0} /\ total \in Nat /\ idx' \in {idx, idx + 1}
      /\ mpc \notin {"join", "end"} /\ mpc' # "end"
  BY DEF TypeOK, VisitRunning, VisitFinish, VisitFreed, UpdateReturns, AppUpdateReturns, Visiting, NextTask
<1>4. \A i \in idx'..total : i \in idx..total
  BY <1>3
<1>5. CycleInv'
  <2>1. \/ mpc \in {"cycle", "update"} /\ mpc' \in {"cycle", "update"}
        \/ mpc = "appupdate" /\ mpc' = "idle"
        \/ mpc = "cycle" /\ mpc' = "lost"
        \/ mpc = "cycle" /\ mpc' = "join" /\ idx' = idx /\ state[sched[idx]] = "FINISH" /\ deleted = NoTask
    BY DEF VisitRunning, VisitFinish, VisitFreed, UpdateReturns, AppUpdateReturns, Visiting
  <2>2. QED
    BY <1>1, <1>4, <2>1 DEF Inv, CycleInv, InLoopBody, Reaped, JoinDone
<1>6. ReapInv' /\ FinishInv'
  BY <1>1, <1>3 DEF Inv, ReapInv, FinishInv, Reaped, JoinDone
<1>7. QED
  BY <1>2, <1>5, <1>6 DEF Inv

(* The join of a finished task's thread, and the call of its func_end.      *)
LEMMA StepJoin ==
  ASSUME TypeOK, LoopInv, Inv, Join
  PROVE  Inv'
<1> DEFINE t == sched[idx]
<1>1. /\ mpc = "join" /\ state[t] = "FINISH" /\ deleted = NoTask /\ JoinDone(t)
      /\ idx \in 1..total /\ total \in Nat /\ total <= Len(sched)
      /\ UNCHANGED <<phase, flags, finishes, sched, state, thread, freed, total, buffer, tpc>>
  BY DEF Join, appVars, Inv, CycleInv, LoopInv, InLoopBody, TypeOK
<1>2. sched \in Seq(Tasks) /\ idx \in 1..Len(sched) /\ t \in Tasks /\ ended \in [Tasks -> Nat]
  BY <1>1 DEF TypeOK
<1>3. t \notin freed /\ ended[t] = 0 /\ t # NoTask
  BY <1>1, <1>2, OSAppAssumption DEF OSAppAssumption, Inv, SchedInv, ReapInv
<1>4. \/ t \in Ending /\ mpc' = "end" /\ ended' = [ended EXCEPT ![t] = 1] /\ idx' = idx /\ deleted' = deleted
      \/ t \notin Ending /\ mpc' = "cycle" /\ ended' = ended /\ idx' = idx + 1 /\ deleted' = t
  BY <1>2, <1>3 DEF Join, NextTask
<1>5. \A i \in idx..total : i \in 1..Len(sched) /\ (i # idx => sched[i] # t)
  BY SMTT(30), <1>1, <1>2 DEF Inv, SchedInv
<1> HIDE DEF t
<1>6. ThreadInv' /\ SchedInv'
  <2>1. \A u \in Tasks : state[u] = "none" => u # t
    BY <1>1
  <2>2. ThreadInv'
    BY <1>1, <1>2, <1>4, <2>1 DEF Inv, ThreadInv
  <2>3. QED
    BY <1>1, <2>2 DEF Inv, SchedInv
<1>7. \A u \in Tasks : Reaped(u) => Reaped(u)'
  BY <1>1, <1>2, <1>3, <1>4 DEF Reaped, JoinDone
<1>8. state'[t] = "FINISH" /\ thread'[t] # 0 /\ tpc'[t][thread'[t]] = "exited" /\ (t \in Ending => ended'[t] = 1)
  BY <1>1, <1>2, <1>4 DEF JoinDone
<1>9. CycleInv'
  <2>1. CASE t \in Ending
    BY <1>1, <1>2, <1>4, <1>8, <2>1 DEF t, Inv, CycleInv, InLoopBody, Reaped, JoinDone
  <2>2. CASE t \notin Ending
    <3>1. \A i \in idx'..total' : i \in idx..total /\ i # idx
      BY <1>1, <1>4, <2>2
    <3>2. \A i \in idx'..total' : sched'[i] # deleted'
      BY <1>1, <1>4, <1>5, <2>2, <3>1
    <3>3. \A i \in idx'..total' : state'[sched'[i]] = "WAITING" => thread'[sched'[i]] = 0
      BY <1>1, <3>1 DEF Inv, CycleInv, InLoopBody
    <3>4. QED
      BY <1>1, <1>3, <1>4, <1>8, <2>2, <3>2, <3>3 DEF CycleInv, InLoopBody, Reaped, JoinDone
  <2>3. QED
    BY <2>1, <2>2
<1>10. ReapInv'
  <2>1. \A u \in freed' : Reaped(u)'
    BY <1>1, <1>7 DEF Inv, ReapInv, TypeOK
  <2>2. ASSUME NEW u \in Tasks, ended'[u] # 0
        PROVE  /\ ended'[u] = 1 /\ u \in Ending
               /\ u \in freed' \/ u = deleted' \/ (mpc' = "end" /\ u = sched'[idx'])
    <3>1. CASE u = t
      BY <1>1, <1>2, <1>3, <1>4, <2>2, <3>1 DEF t
    <3>2. CASE u # t
      <4>1. ended[u] # 0 /\ ended'[u] = ended[u]
        BY <1>2, <1>4, <2>2, <3>2
      <4>2. u \in freed
        BY <1>1, <4>1, OSAppAssumption DEF OSAppAssumption, Inv, ReapInv
      <4>3. QED
        BY <1>1, <4>1, <4>2 DEF Inv, ReapInv
    <3>3. QED
      BY <3>1, <3>2
  <2>3. QED
    BY <2>1, <2>2 DEF ReapInv
<1>11. FinishInv'
  <2>1. finishes > 0 => \A i \in 1..Len(sched) : sched[i] = deleted
    BY <1>1 DEF Inv, FinishInv
  <2>2. finishes > 0 => FALSE
    BY <1>1, <1>2, <1>3, <2>1 DEF t
  <2>3. QED
    BY <1>1, <2>2 DEF Inv, FinishInv
<1>12. QED
  BY <1>6, <1>9, <1>10, <1>11 DEF Inv

(* func_end returns: the task becomes the deleted_task of this cycle.       *)
LEMMA StepEndReturns ==
  ASSUME TypeOK, LoopInv, Inv, EndReturns
  PROVE  Inv'
<1> DEFINE t == sched[idx]
<1>1. /\ mpc = "end" /\ mpc' = "cycle" /\ idx' = idx + 1 /\ deleted' = t
      /\ Reaped(t) /\ deleted = NoTask
      /\ idx \in 1..total /\ total \in Nat /\ total <= Len(sched)
      /\ UNCHANGED <<phase, flags, finishes, sched, state, thread, freed, ended, total, buffer, tpc>>
  BY DEF EndReturns, NextTask, appVars, taskVars, Inv, CycleInv, LoopInv, InLoopBody, TypeOK
<1>2. sched \in Seq(Tasks) /\ idx \in 1..Len(sched) /\ t \in Tasks
  BY <1>1 DEF TypeOK
<1>3. t \notin freed /\ t # NoTask
  BY <1>2, OSAppAssumption DEF OSAppAssumption, Inv, SchedInv
<1>4. \A i \in idx'..total : i \in idx..total /\ sched[i] # t
  BY <1>1, <1>2 DEF Inv, SchedInv
<1>5. ThreadInv' /\ SchedInv'
  BY <1>1 DEF Inv, ThreadInv, SchedInv
<1>6. CycleInv'
  BY <1>1, <1>3, <1>4 DEF Inv, CycleInv, InLoopBody, Reaped, JoinDone
<1>7. ReapInv'
  BY <1>1, OSAppAssumption DEF OSAppAssumption, Inv, ReapInv, Reaped, JoinDone
<1>8. FinishInv'
  <2>1. \A i \in 1..Len(sched) : sched[i] \in Tasks
    BY <1>2
  <2>2. QED
    BY <1>1, <2>1, OSAppAssumption DEF OSAppAssumption, Inv, FinishInv
<1>9. QED
  BY <1>5, <1>6, <1>7, <1>8 DEF Inv

(* The end of a cycle frees the reaped task and forgets it.                 *)
LEMMA StepEndCycle ==
  ASSUME TypeOK, LoopInv, Inv, EndCycle
  PROVE  Inv'
<1>1. /\ mpc = "cycle" /\ mpc' \in {"idle", "appupdate"} /\ deleted' = NoTask
      /\ UNCHANGED <<phase, flags, finishes, state, thread, ended, tpc>>
  BY DEF EndCycle, appVars
<1>2. sched \in Seq(Tasks) /\ deleted \in Tasks \cup {NoTask}
  BY DEF TypeOK
<1>3. ThreadInv'
  BY <1>1 DEF Inv, ThreadInv
<1>4. CycleInv'
  BY <1>1 DEF CycleInv, InLoopBody
<1>5. CASE deleted = NoTask
  <2>1. UNCHANGED <<sched, freed>>
    BY <1>5 DEF EndCycle
  <2>2. SchedInv' /\ ReapInv' /\ FinishInv'
    BY <1>1, <1>5, <2>1 DEF Inv, SchedInv, ReapInv, FinishInv, Reaped, JoinDone
  <2>3. QED
    BY <1>3, <1>4, <2>2 DEF Inv
<1>6. CASE deleted # NoTask
  <2>1. PICK i \in 1..Len(sched) : sched[i] = deleted /\ sched' = DeleteAt(sched, i)
    BY <1>6 DEF EndCycle
  <2>2. freed' = freed \cup {deleted} /\ deleted \in Tasks
    BY <1>2, <1>6 DEF EndCycle
  <2>3. Reaped(deleted)
    BY <1>6 DEF Inv, CycleInv
  <2>4. \A j, k \in 1..Len(sched) : sched[j] = sched[k] => j = k
    BY DEF Inv, SchedInv
  <2>5. /\ \A u : (\E j \in 1..Len(sched') : sched'[j] = u)
                   <=> (u # deleted /\ \E j \in 1..Len(sched) : sched[j] = u)
        /\ \A j, k \in 1..Len(sched') : sched'[j] = sched'[k] => j = k
    <3>1. /\ \A u : (\E j \in 1..Len(DeleteAt(sched, i)) : DeleteAt(sched, i)[j] = u)
                     <=> (u # sched[i] /\ \E j \in 1..Len(sched) : sched[j] = u)
          /\ \A j, k \in 1..Len(DeleteAt(sched, i)) :
               DeleteAt(sched, i)[j] = DeleteAt(sched, i)[k] => j = k
      <4>1. sched \in Seq(Tasks) /\ i \in 1..Len(sched)
        BY <1>2
      <4>2. QED
        BY <2>4, <4>1, DeleteAtLemma, ZenonT(60)
    <3>2. QED
      BY <2>1, <3>1
  <2>6. SchedInv'
    BY <1>1, <2>2, <2>5 DEF Inv, SchedInv
  <2>7. ReapInv'
    BY <1>1, <2>2, <2>3 DEF Inv, ReapInv, Reaped, JoinDone
  <2>8. FinishInv'
    <3>1. ASSUME NEW j \in 1..Len(sched'), finishes > 0
          PROVE  FALSE
      <4>1. PICK k \in 1..Len(sched) : sched[k] = sched'[j] /\ sched'[j] # deleted
        BY <2>5
      <4>2. QED
        BY <1>1, <3>1, <4>1 DEF Inv, FinishInv
    <3>2. QED
      BY <1>1, <3>1 DEF Inv, FinishInv
  <2>9. QED
    BY <1>3, <1>4, <2>6, <2>7, <2>8 DEF Inv
<1>7. QED
  BY <1>5, <1>6

(* A worker's step changes task->state only from the state its program      *)
(* counter stands for, so never the state of a reaped or threadless task.   *)
LEMMA StepWorker ==
  ASSUME TypeOK, LoopInv, Inv, NEW t \in Tasks, NEW k \in Threads, Worker(t, k)
  PROVE  Inv'
<1>1. UNCHANGED <<phase, flags, finishes, sched, thread, freed, ended, mpc, idx, total, buffer, deleted>>
  BY DEF Worker, DispatchBegin, DispatchFinish, DispatchReturn, appVars, taskVars, cycleVars
<1>2. /\ sched \in Seq(Tasks) /\ state \in [Tasks -> TaskStates]
      /\ tpc \in [Tasks -> [Threads -> ThreadPCs]] /\ thread \in [Tasks -> 0..MaxThreads]
      /\ idx \in Nat \ {0} /\ total \in Nat /\ deleted \in Tasks \cup {NoTask}
      /\ freed \subseteq Tasks
  BY DEF TypeOK
<1>3. k = thread[t] /\ thread[t] # 0
  BY OSAppAssumption
     DEF OSAppAssumption, Threads, Worker, DispatchBegin, DispatchFinish, DispatchReturn, Inv, ThreadInv
<1>4. \/ /\ tpc[t][k] = "created" /\ state[t] = "WAITING"
         /\ tpc' = [tpc EXCEPT ![t][k] = "main"] /\ state' = [state EXCEPT ![t] = "RUNNING"]
      \/ /\ tpc[t][k] = "main" /\ state[t] = "RUNNING"
         /\ tpc' = [tpc EXCEPT ![t][k] = "leaving"] /\ state' = [state EXCEPT ![t] = "FINISH"]
      \/ /\ tpc[t][k] = "leaving" /\ state[t] = "FINISH"
         /\ tpc' = [tpc EXCEPT ![t][k] = "exited"] /\ state' = state
  BY <1>2, <1>3 DEF Worker, DispatchBegin, DispatchFinish, DispatchReturn, taskVars, TaskStates, Inv, ThreadInv
<1>5. ASSUME NEW u \in Tasks, u # t
      PROVE  state'[u] = state[u] /\ tpc'[u] = tpc[u]
  BY <1>2, <1>4, <1>5
<1>6. /\ state[t] \in {"WAITING", "RUNNING", "FINISH"} /\ state'[t] \in {"RUNNING", "FINISH"}
      /\ state[t] = "FINISH" => state'[t] = "FINISH"
  BY <1>2, <1>4
<1>7. \A u \in Tasks : Reaped(u) => u # t /\ Reaped(u)'
  BY <1>1, <1>3, <1>4, <1>5 DEF Reaped, JoinDone
<1>8. ThreadInv'
  <2>1. ASSUME NEW u \in Tasks, u # t
        PROVE  state'[u] = state[u] /\ tpc'[u] = tpc[u] /\ thread'[u] = thread[u] /\ ended'[u] = ended[u]
    BY <1>1, <1>5, <2>1
  <2>2. /\ \A j \in Threads : j # k => tpc'[t][j] = tpc[t][j]
        /\ \/ tpc'[t][k] = "main" /\ state'[t] = "RUNNING"
           \/ tpc'[t][k] \in {"leaving", "exited"} /\ state'[t] = "FINISH"
    BY <1>2, <1>4
  <2>3. QED
    BY <1>1, <1>3, <2>1, <2>2 DEF Inv, ThreadInv
<1>9. SchedInv'
  <2>1. \A u \in Tasks : state'[u] = "none" <=> state[u] = "none"
    BY <1>5, <1>6
  <2>2. QED
    BY <1>1, <2>1 DEF Inv, SchedInv
<1>10. CycleInv'
  <2>1. mpc \in InLoopBody \cup {"cycle"} => \A i \in idx..total : sched[i] \in Tasks
    BY <1>2 DEF LoopInv
  <2>2. mpc \in InLoopBody => sched[idx] \in Tasks
    BY <1>2, <2>1 DEF LoopInv
  <2>3. \A u \in Tasks : state'[u] = "WAITING" => state[u] = "WAITING"
    BY <1>5, <1>6
  <2>4. \A u \in Tasks : state[u] = "FINISH" => state'[u] = "FINISH"
    BY <1>5, <1>6
  <2>5. mpc = "end" => Reaped(sched[idx])'
    BY <1>1, <1>7, <2>2 DEF Inv, CycleInv, InLoopBody, Reaped, JoinDone
  <2>6. deleted # NoTask => Reaped(deleted)'
    BY <1>1, <1>2, <1>7 DEF Inv, CycleInv, Reaped, JoinDone
  <2>7. QED
    BY <1>1, <2>1, <2>2, <2>3, <2>4, <2>5, <2>6 DEF Inv, CycleInv, InLoopBody
<1>11. ReapInv'
  BY <1>1, <1>2, <1>7 DEF Inv, ReapInv
<1>12. FinishInv'
  BY <1>1 DEF Inv, FinishInv
<1>13. QED
  BY <1>8, <1>9, <1>10, <1>11, <1>12 DEF Inv

-----------------------------------------------------------------------------
(* For an orderly application IInv is an invariant, for any number of tasks *)
(* and threads.                                                             *)
THEOREM Invariance == ASSUME Orderly PROVE Spec => []IInv
<1>1. Init => Inv
  BY OSAppAssumption DEF OSAppAssumption, Init, Inv, ThreadInv, SchedInv, CycleInv, ReapInv, FinishInv, InLoopBody
<1>2. TypeOK /\ LoopInv /\ Inv /\ [Next]_vars => Inv'
  <2> SUFFICES ASSUME TypeOK, LoopInv, Inv, [Next]_vars
               PROVE  Inv'
    OBVIOUS
  <2>1. CASE UserCall
    BY <2>1, Orderly, StepTask, StepLifecycle DEF UserCall
  <2>2. CASE Launch
    BY <2>2, Orderly, StepLifecycle DEF Launch
  <2>3. CASE Tick \/ VisitWaitingFails
    BY <2>3, Orderly, StepDestroy, StepBegin, StepWaiting, StepLoop, StepJoin, StepEndReturns, StepEndCycle
       DEF Tick
  <2>4. CASE \E t \in Tasks, k \in Threads : Worker(t, k)
    BY <2>4, StepWorker
  <2>5. CASE UNCHANGED vars
    BY <2>5 DEF vars, appVars, taskVars, cycleVars, Inv, ThreadInv, SchedInv, CycleInv, ReapInv, FinishInv,
                Reaped, JoinDone
  <2>6. QED
    BY <2>1, <2>2, <2>3, <2>4, <2>5 DEF Next
<1>3. TypeOK /\ LoopInv /\ Inv <=> IInv
  BY DEF IInv, Inv
<1>4. QED
  BY <1>1, <1>2, <1>3, TypeCorrect, PTL DEF Spec

(* A task's memory is given back only after its thread has returned.        *)
THEOREM TaskMemorySafe == ASSUME Orderly PROVE Spec => []FreedIsQuiet
<1>1. IInv => FreedIsQuiet
  BY DEF IInv, TypeOK, ThreadInv, ReapInv, Reaped, JoinDone, FreedIsQuiet
<1>2. QED
  BY <1>1, Invariance, PTL

(* func_end runs at most once per task, after the only thread of the task   *)
(* has returned from func_main.                                             *)
THEOREM TaskEndsOnce == ASSUME Orderly PROVE Spec => []EndAfterMain
<1>1. IInv => EndAfterMain
  <2> SUFFICES ASSUME IInv, NEW t \in Tasks, ended[t] > 0
               PROVE  /\ ended[t] = 1 /\ t \in Ending
                      /\ thread[t] # 0 /\ tpc[t][thread[t]] = "exited"
                      /\ \A k \in Threads \ {thread[t]} : tpc[t][k] = "none"
    BY DEF EndAfterMain
  <2>1. ended[t] = 1 /\ t \in Ending
    BY DEF IInv, TypeOK, ReapInv
  <2>2. Reaped(t)
    <3>1. t \in freed \/ t = deleted \/ (mpc = "end" /\ t = sched[idx])
      BY DEF IInv, TypeOK, ReapInv
    <3>2. QED
      BY <3>1, OSAppAssumption DEF OSAppAssumption, IInv, ReapInv, CycleInv
  <2>3. QED
    BY <2>1, <2>2 DEF IInv, ThreadInv, Reaped, JoinDone
<1>2. QED
  BY <1>1, Invariance, PTL

(* Every started task is in the scheduler exactly once until it is freed,   *)
(* and it is freed only after its func_end, as long as no cycle reads a     *)
(* freed buffer: FewTasksSafe says when none does, and a program that has   *)
(* ("lost") takes no step of the main thread this theorem could speak of.   *)
THEOREM TasksAccounted == ASSUME Orderly PROVE Spec => []TaskAccounting
<1>1. IInv => TaskAccounting
  <2> SUFFICES ASSUME IInv
               PROVE  TaskAccounting
    OBVIOUS
  <2>1. \A i \in 1..Len(sched) : sched[i] \in Tasks
    BY DEF IInv, TypeOK
  <2>2. Scheduled = {t \in Tasks \ freed : state[t] # "none"}
    BY <2>1 DEF Scheduled, IInv, SchedInv
  <2>3. \A t \in freed \cap Ending : ended[t] = 1
    BY DEF IInv, ReapInv, Reaped
  <2>4. QED
    BY <2>2, <2>3 DEF TaskAccounting, IInv, SchedInv
<1>2. QED
  BY <1>1, Invariance, PTL

(* The application is destroyed with an empty scheduler: the assertion of   *)
(* i_destroy_app holds of an orderly application.                           *)
THEOREM DrainedBeforeDestroy == ASSUME Orderly PROVE Spec => DestroyedWhenDrained
<1>1. IInv /\ [Next]_vars => [phase' = "destroyed" => sched = <<>>]_phase
  <2> SUFFICES ASSUME IInv, [Next]_vars, phase' # phase, phase' = "destroyed"
               PROVE  sched = <<>>
    BY DEF DestroyedWhenDrained
  <2>1. DestroyApp
    BY DEF vars, Next, UserCall, Launch, Tick, Worker, appVars, osapp_task, osapp_finish,
           OnFinishLaunching, CreateReturns, BeginCycle, VisitWaiting, VisitWaitingFails, VisitRunning,
           VisitFinish, VisitFreed, Join, UpdateReturns, EndReturns, EndCycle, AppUpdateReturns,
           DispatchBegin, DispatchFinish, DispatchReturn
  <2>2. QED
    BY <2>1, DrainedAtDestroy DEF IInv, Inv
<1>2. QED
  BY <1>1, Invariance, PTL DEF Spec, DestroyedWhenDrained

-----------------------------------------------------------------------------
(* The run loop is told to terminate only once func_create has returned.    *)
LaunchInv == "terminate" \in flags => phase \in {"running", "destroyed"}

(* Whatever the application does in its callbacks, also with tasks alive,   *)
(* i_destroy_app does not run inside one of them: a request made in         *)
(* func_create waits for its return, and the others for the next tick.      *)
THEOREM DestroyedOutside == Spec => DestroyOutsideCallbacks
<1>1. Init => LaunchInv
  BY DEF Init, LaunchInv
<1>2. LaunchInv /\ [Next]_vars => LaunchInv'
  <2> SUFFICES ASSUME LaunchInv, [Next]_vars PROVE LaunchInv'
    OBVIOUS
  <2>1. CASE osapp_finish
    BY <2>1 DEF osapp_finish, TerminateRequest, LaunchInv
  <2>2. CASE Launch
    BY <2>2 DEF Launch, OnFinishLaunching, CreateReturns, TerminateRequest, LaunchInv
  <2>3. CASE DestroyApp
    BY <2>3 DEF DestroyApp, LaunchInv
  <2>4. CASE UNCHANGED <<phase, flags>>
    BY <2>4 DEF LaunchInv
  <2>5. osapp_finish \/ Launch \/ DestroyApp \/ UNCHANGED <<phase, flags>>
    BY DEF vars, Next, UserCall, Tick, Worker, appVars, osapp_task,
           BeginCycle, VisitWaiting, VisitWaitingFails, VisitRunning,
           VisitFinish, VisitFreed, Join, UpdateReturns, EndReturns, EndCycle, AppUpdateReturns,
           DispatchBegin, DispatchFinish, DispatchReturn
  <2> QED BY <2>1, <2>2, <2>3, <2>4, <2>5
<1>3. LaunchInv /\ [Next]_vars => [phase' = "destroyed" => phase = "running" /\ mpc = "idle"]_phase
  <2> SUFFICES ASSUME LaunchInv, [Next]_vars, phase' # phase, phase' = "destroyed"
               PROVE  phase = "running" /\ mpc = "idle"
    OBVIOUS
  <2>1. DestroyApp
    BY DEF vars, Next, UserCall, Launch, Tick, Worker, appVars, osapp_task, osapp_finish,
           OnFinishLaunching, CreateReturns, BeginCycle, VisitWaiting, VisitWaitingFails, VisitRunning,
           VisitFinish, VisitFreed, Join, UpdateReturns, EndReturns, EndCycle, AppUpdateReturns,
           DispatchBegin, DispatchFinish, DispatchReturn
  <2> QED BY <2>1 DEF DestroyApp, LaunchInv
<1> QED BY <1>1, <1>2, <1>3, PTL DEF Spec, DestroyOutsideCallbacks
=============================================================================
