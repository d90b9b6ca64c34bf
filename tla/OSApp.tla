-------------------------------- MODULE OSApp --------------------------------
(***************************************************************************)
(* The application object of osapp: its life cycle (launch, create,        *)
(* termination, destruction) and its task scheduler, over the GTK run      *)
(* loop.  Two kinds of actors run: the main thread, which executes timer   *)
(* callbacks, GUI events and the application's own callbacks, and one      *)
(* worker thread per bthread_create, which executes i_dispatch_task.       *)
(*                                                                         *)
(* The cassert checks of the code do not stop a release build, so they are *)
(* not guards here: a step continues past them as the code does, and what  *)
(* they claim is stated as invariants.                                     *)
(***************************************************************************)
EXTENDS Naturals, Sequences

CONSTANTS
  Tasks,        (* every task the application may ever start                *)
  Updating,     (* the tasks with a func_update                             *)
  Ending,       (* the tasks with a func_end                                *)
  NoTask,       (* NULL                                                     *)
  MaxThreads,   (* bound: threads ever created for one task                 *)
  MaxFinish,    (* bound: calls of osapp_finish                             *)
  MinCapacity,  (* i_MINIMUN_ARRAY_SIZE of core/array, 8 in the code: a     *)
                (* power of two                                              *)
  LateStart,    (* may a new thread not run at all before the next frame?   *)
  QuitWhileBusy (* may osapp_finish be called with tasks not yet ended, and *)
                (* osapp_task after it?                                     *)

ASSUME OSAppAssumption ==
  /\ Updating \subseteq Tasks /\ Ending \subseteq Tasks
  /\ NoTask \notin Tasks
  /\ MaxThreads \in Nat \ {0} /\ MaxFinish \in Nat
  /\ MinCapacity \in Nat \ {0}
  /\ LateStart \in BOOLEAN /\ QuitWhileBusy \in BOOLEAN

VARIABLES
  (* i_App and OSApp *)
  phase,      (* what app->state and app->initialized say, see Phases       *)
  flags,      (* the termination flags that are TRUE: "terminated" is       *)
              (* app->terminated, osapp_finish was called inside            *)
              (* func_create; "terminate" is OSApp.terminate, set together  *)
              (* with OSApp.func_destroy                                    *)
  finishes,   (* calls of osapp_finish so far                               *)
  (* the scheduler array and the i_Task objects *)
  sched,      (* app->scheduler                                             *)
  state,      (* task->state, "none" before osapp_task                      *)
  thread,     (* task->thread: the thread it names, 0 for NULL              *)
  freed,      (* the tasks whose memory was given back                      *)
  ended,      (* how often func_end was called                              *)
  (* the main thread *)
  mpc,        (* what it executes                                           *)
  idx, total, (* the loop counter and limit cached by arrpt_foreach         *)
  buffer,     (* the buffer that the loop walks: still that of the "array", *)
              (* or "freed" because the array has grown                     *)
  deleted,    (* the local deleted_task                                     *)
  (* the worker threads *)
  tpc         (* tpc[t][k]: where the k-th thread made for task t is        *)

appVars   == <<phase, flags, finishes>>
taskVars  == <<sched, state, thread, freed, ended>>
cycleVars == <<mpc, idx, total, buffer, deleted>>
vars == <<appVars, taskVars, cycleVars, tpc>>

-----------------------------------------------------------------------------
(* "waiting": before i_OnFinishLaunching; "creating": inside func_create,   *)
(* app->state RUNNING and app->initialized FALSE; "running": initialized;   *)
(* "destroyed": i_destroy_app was executed and the run loop told to quit.   *)
Phases == {"waiting", "creating", "running", "destroyed"}
TaskStates == {"none", "WAITING", "RUNNING", "FINISH"}
(* "idle" is the run loop, or user code it called while no timer tick runs. *)
(* In "lost" it has read a freed buffer that no longer holds the tasks:      *)
(* what it does then is not defined, and it does no more here.              *)
MainPCs == {"idle", "cycle", "update", "join", "end", "appupdate", "lost"}
(* "created" is before the first statement of i_dispatch_task, "main" is    *)
(* inside func_main, "leaving" is after task->state = FINISH, when the      *)
(* thread still reads task->osapp, and "exited" is after its return.        *)
ThreadPCs == {"none", "created", "main", "leaving", "exited"}

Threads == 1..MaxThreads

TypeOK ==
  /\ phase \in Phases
  /\ flags \subseteq {"terminated", "terminate"}
  /\ finishes \in 0..MaxFinish
  /\ sched \in Seq(Tasks)
  /\ state \in [Tasks -> TaskStates]
  /\ thread \in [Tasks -> 0..MaxThreads]
  /\ freed \subseteq Tasks
  /\ ended \in [Tasks -> Nat]
  /\ mpc \in MainPCs
  /\ idx \in Nat \ {0} /\ total \in Nat /\ buffer \in {"array", "freed"}
  /\ deleted \in Tasks \cup {NoTask}
  /\ tpc \in [Tasks -> [Threads -> ThreadPCs]]

Init ==
  /\ phase = "waiting"
  /\ flags = {}
  /\ finishes = 0
  /\ sched = <<>>
  /\ state = [t \in Tasks |-> "none"]
  /\ thread = [t \in Tasks |-> 0]
  /\ freed = {}
  /\ ended = [t \in Tasks |-> 0]
  /\ mpc = "idle"
  /\ idx = 1 /\ total = 0 /\ buffer = "array"
  /\ deleted = NoTask
  /\ tpc = [t \in Tasks |-> [k \in Threads |-> "none"]]

Scheduled == {sched[i] : i \in 1..Len(sched)}

-----------------------------------------------------------------------------
(* Calls the application makes                                              *)

(* User code runs on the main thread: in func_create (and in a modal loop   *)
(* it opened), in an event handler, or in a callback of the scheduler.      *)
InUserCode ==
  \/ mpc \in {"update", "end", "appupdate"}
  \/ mpc = "idle" /\ phase \in {"creating", "running"}

(* With QuitWhileBusy = FALSE the application calls osapp_finish only when  *)
(* every task has reached its func_end, and starts no task afterwards.      *)
MayFinish == QuitWhileBusy \/ \A t \in Scheduled : t = deleted \/ (mpc = "end" /\ t = sched[idx])
MayStart  == QuitWhileBusy \/ finishes = 0

(* i_grow_array: the capacity is MinCapacity, doubled as often as the       *)
(* elements need; when all of it is used, one more needs another buffer.    *)
Grows(n) == n >= MinCapacity /\ \E k \in 0 .. n : n = MinCapacity * 2^k

osapp_task(t) ==
  /\ InUserCode /\ MayStart
  /\ state[t] = "none"
  /\ state' = [state EXCEPT ![t] = "WAITING"]
  /\ sched' = Append(sched, t)
  /\ buffer' = IF mpc \in {"update", "end"} /\ Grows(Len(sched)) THEN "freed" ELSE buffer
  /\ UNCHANGED <<appVars, thread, freed, ended, mpc, idx, total, deleted, tpc>>

(* Mutant: app->initialized is not looked at. *)
TerminateAtOnce(initialized) == flags' = flags \cup {"terminate"}

(* The body of i_terminate: an initialized application sets the terminate   *)
(* flag of the run loop, one still in func_create remembers the request.    *)
TerminateRequest(initialized) ==
  flags' = flags \cup {IF initialized THEN "terminate" ELSE "terminated"}

osapp_finish ==
  /\ InUserCode /\ MayFinish
  /\ finishes < MaxFinish
  /\ finishes' = finishes + 1
  /\ TerminateRequest(phase = "running")
  /\ UNCHANGED <<phase, taskVars, cycleVars, tpc>>

-----------------------------------------------------------------------------
(* The launch timer                                                         *)

(* i_OnTimerInit finds the GUI initialized: i_OnFinishLaunching up to the   *)
(* call of func_create.                                                     *)
OnFinishLaunching ==
  /\ mpc = "idle" /\ phase = "waiting"
  /\ phase' = "creating"
  /\ UNCHANGED <<flags, finishes, taskVars, cycleVars, tpc>>

(* Mutant: app->terminated is not looked at after func_create. *)
CreateReturnsOnly ==
  /\ mpc = "idle" /\ phase = "creating"
  /\ phase' = "running"
  /\ UNCHANGED <<flags, finishes, taskVars, cycleVars, tpc>>

(* func_create returns: the rest of i_OnFinishLaunching. *)
CreateReturns ==
  /\ mpc = "idle" /\ phase = "creating"
  /\ phase' = "running"
  /\ IF "terminated" \in flags THEN TerminateRequest(TRUE) ELSE UNCHANGED flags
  /\ UNCHANGED <<finishes, taskVars, cycleVars, tpc>>

-----------------------------------------------------------------------------
(* The loop timer                                                           *)

(* Every thread already made has executed its first statement. *)
NoLateThread == \A t \in Tasks, k \in Threads : tpc[t][k] # "created"

(* Mutant: the run loop ends from inside a callback. *)
DestroyAppAnywhere ==
  /\ phase # "destroyed" /\ "terminate" \in flags
  /\ phase' = "destroyed"
  /\ freed' = freed \cup Scheduled
  /\ sched' = <<>>
  /\ UNCHANGED <<flags, finishes, state, thread, ended, cycleVars, tpc>>

(* i_OnTimerLoop with the terminate flag set: i_terminate of the run loop   *)
(* calls i_destroy_app, which destroys the tasks left in the scheduler.     *)
DestroyApp ==
  /\ mpc = "idle" /\ phase # "destroyed" /\ "terminate" \in flags
  /\ phase' = "destroyed"
  /\ freed' = freed \cup Scheduled
  /\ sched' = <<>>
  /\ UNCHANGED <<flags, finishes, state, thread, ended, cycleVars, tpc>>

(* Mutant: the loop counter starts below the first task. *)
BeginCycleBefore ==
  /\ mpc = "idle" /\ phase \in {"creating", "running"} /\ "terminate" \notin flags
  /\ mpc' = "cycle"
  /\ idx' = 0 /\ total' = Len(sched) /\ buffer' = "array"
  /\ deleted' = NoTask
  /\ UNCHANGED <<appVars, taskVars, tpc>>

(* Mutant: the cycle walks the buffer that the last one walked. *)
BeginCycleKept ==
  /\ mpc = "idle" /\ phase \in {"creating", "running"} /\ "terminate" \notin flags
  /\ LateStart \/ NoLateThread
  /\ mpc' = "cycle"
  /\ idx' = 1 /\ total' = Len(sched)
  /\ deleted' = NoTask
  /\ UNCHANGED <<appVars, taskVars, buffer, tpc>>

(* i_OnTimerSignal when clock_frame says a frame is due and app->state is   *)
(* RUNNING: the scheduler cycle begins.  The timer also ticks inside a      *)
(* modal loop run by func_create, so "creating" is enough.                  *)
BeginCycle ==
  /\ mpc = "idle" /\ phase \in {"creating", "running"} /\ "terminate" \notin flags
  /\ LateStart \/ NoLateThread
  /\ mpc' = "cycle"
  /\ idx' = 1 /\ total' = Len(sched) /\ buffer' = "array"
  /\ deleted' = NoTask
  /\ UNCHANGED <<appVars, taskVars, tpc>>

(* The loop body of i_scheduler_cycle is at a task in the given state.  The *)
(* buffer it walks holds what the array held when the cycle began, and once *)
(* freed it may still do so: the array has only been appended to since.     *)
Visiting(s) == mpc = "cycle" /\ idx <= total /\ state[sched[idx]] = s

NextTask == idx' = idx + 1

(* Or the freed buffer holds something else by now. *)
VisitFreed ==
  /\ mpc = "cycle" /\ idx <= total /\ buffer = "freed"
  /\ mpc' = "lost"
  /\ UNCHANGED <<appVars, taskVars, idx, total, buffer, deleted, tpc>>

(* WAITING: bthread_create makes the next thread of the task. *)
VisitWaiting ==
  /\ Visiting("WAITING")
  /\ \E k \in Threads :
       /\ tpc[sched[idx]][k] = "none"
       /\ \A j \in 1..(k - 1) : tpc[sched[idx]][j] # "none"
       /\ tpc' = [tpc EXCEPT ![sched[idx]][k] = "created"]
       /\ thread' = [thread EXCEPT ![sched[idx]] = k]
  /\ NextTask
  /\ UNCHANGED <<appVars, sched, state, freed, ended, mpc, total, buffer, deleted>>

(* WAITING: pthread_create fails and the task keeps a NULL thread; it is    *)
(* still WAITING, so the next cycle tries again.                            *)
VisitWaitingFails ==
  /\ Visiting("WAITING")
  /\ thread' = [thread EXCEPT ![sched[idx]] = 0]
  /\ NextTask
  /\ UNCHANGED <<appVars, sched, state, freed, ended, mpc, total, buffer, deleted, tpc>>

(* RUNNING: func_update is called when there is one and its time has come.  *)
(* Frame time is not modelled: the comparison may go either way.            *)
VisitRunning ==
  /\ Visiting("RUNNING")
  /\ \/ NextTask /\ UNCHANGED mpc
     \/ sched[idx] \in Updating /\ mpc' = "update" /\ UNCHANGED idx
  /\ UNCHANGED <<appVars, taskVars, total, buffer, deleted, tpc>>

(* FINISH: the first finished task of a cycle is reaped, the others wait.   *)
VisitFinish ==
  /\ Visiting("FINISH")
  /\ IF deleted = NoTask THEN mpc' = "join" /\ UNCHANGED idx
                         ELSE NextTask /\ UNCHANGED mpc
  /\ UNCHANGED <<appVars, taskVars, total, buffer, deleted, tpc>>

(* Mutant: the task's state is taken for the end of its thread. *)
JoinState(t) == thread[t] # 0 /\ tpc[t][thread[t]] \in {"leaving", "exited"}

(* bthread_wait blocks until the thread has returned. *)
JoinDone(t) == thread[t] # 0 /\ tpc[t][thread[t]] = "exited"

Join ==
  /\ mpc = "join"
  /\ JoinDone(sched[idx])
  /\ IF sched[idx] \in Ending
     THEN /\ mpc' = "end"
          /\ ended' = [ended EXCEPT ![sched[idx]] = @ + 1]
          /\ UNCHANGED <<idx, deleted>>
     ELSE /\ mpc' = "cycle"
          /\ deleted' = sched[idx]
          /\ NextTask
          /\ UNCHANGED ended
  /\ UNCHANGED <<appVars, sched, state, thread, freed, total, buffer, tpc>>

UpdateReturns ==
  /\ mpc = "update"
  /\ mpc' = "cycle"
  /\ NextTask
  /\ UNCHANGED <<appVars, taskVars, total, buffer, deleted, tpc>>

(* Mutant: deleted_task is not set after func_end. *)
EndReturnsOnly ==
  /\ mpc = "end"
  /\ mpc' = "cycle"
  /\ NextTask
  /\ UNCHANGED <<appVars, taskVars, total, buffer, deleted, tpc>>

EndReturns ==
  /\ mpc = "end"
  /\ mpc' = "cycle"
  /\ deleted' = sched[idx]
  /\ NextTask
  /\ UNCHANGED <<appVars, taskVars, total, buffer, tpc>>

(* Mutant: the element behind position i is the one removed. *)
DeleteAfter(s, i) == [j \in 1..(Len(s) - 1) |-> IF j <= i THEN s[j] ELSE s[j + 1]]

(* arrpt_delete: the elements behind position i move one place down. *)
DeleteAt(s, i) == [j \in 1..(Len(s) - 1) |-> IF j < i THEN s[j] ELSE s[j + 1]]

(* After the loop the reaped task is found and deleted, and the             *)
(* application's own func_update is called when it has one and its frame is *)
(* due.                                                                     *)
EndCycle ==
  /\ mpc = "cycle" /\ idx > total
  /\ IF deleted = NoTask THEN UNCHANGED <<sched, freed>>
     ELSE /\ \E i \in 1..Len(sched) : sched[i] = deleted /\ sched' = DeleteAt(sched, i)
          /\ freed' = freed \cup {deleted}
  /\ deleted' = NoTask
  /\ idx' = 1 /\ total' = 0
  /\ mpc' \in {"idle", "appupdate"}
  /\ UNCHANGED <<appVars, state, thread, ended, buffer, tpc>>

AppUpdateReturns ==
  /\ mpc = "appupdate"
  /\ mpc' = "idle"
  /\ UNCHANGED <<appVars, taskVars, idx, total, buffer, deleted, tpc>>

-----------------------------------------------------------------------------
(* A worker thread: i_dispatch_task                                         *)

DispatchBegin(t, k) ==
  /\ tpc[t][k] = "created"
  /\ tpc' = [tpc EXCEPT ![t][k] = "main"]
  /\ state' = [state EXCEPT ![t] = "RUNNING"]
  /\ UNCHANGED <<appVars, sched, thread, freed, ended, cycleVars>>

(* Mutant: task->state stays RUNNING. *)
DispatchFinishOnly(t, k) ==
  /\ tpc[t][k] = "main"
  /\ tpc' = [tpc EXCEPT ![t][k] = "leaving"]
  /\ UNCHANGED <<appVars, taskVars, cycleVars>>

(* func_main returns and task->state becomes FINISH. *)
DispatchFinish(t, k) ==
  /\ tpc[t][k] = "main"
  /\ tpc' = [tpc EXCEPT ![t][k] = "leaving"]
  /\ state' = [state EXCEPT ![t] = "FINISH"]
  /\ UNCHANGED <<appVars, sched, thread, freed, ended, cycleVars>>

DispatchReturn(t, k) ==
  /\ tpc[t][k] = "leaving"
  /\ tpc' = [tpc EXCEPT ![t][k] = "exited"]
  /\ UNCHANGED <<appVars, taskVars, cycleVars>>

-----------------------------------------------------------------------------
UserCall == (\E t \in Tasks : osapp_task(t)) \/ osapp_finish

Launch == OnFinishLaunching \/ CreateReturns

Tick ==
  \/ DestroyApp \/ BeginCycle
  \/ VisitWaiting \/ VisitRunning \/ VisitFinish \/ VisitFreed
  \/ Join \/ UpdateReturns \/ EndReturns \/ EndCycle \/ AppUpdateReturns

Worker(t, k) == DispatchBegin(t, k) \/ DispatchFinish(t, k) \/ DispatchReturn(t, k)

Next ==
  \/ UserCall \/ Launch \/ Tick \/ VisitWaitingFails
  \/ \E t \in Tasks, k \in Threads : Worker(t, k)

Spec == Init /\ [][Next]_vars

(* The run loop keeps dispatching its timers, callbacks return, func_create *)
(* too (between two ticks of a modal loop it runs), threads run, and        *)
(* bthread_create does not fail for ever.  Nothing obliges the user to call *)
(* anything.                                                                *)
Fairness ==
  /\ WF_vars(OnFinishLaunching) /\ SF_vars(CreateReturns) /\ WF_vars(Tick)
  /\ \A t \in Tasks : SF_vars(VisitWaiting /\ sched[idx] = t)
  /\ \A t \in Tasks, k \in Threads : WF_vars(Worker(t, k))

FairSpec == Spec /\ Fairness

-----------------------------------------------------------------------------
(* Properties                                                               *)

(* A task is freed only when every thread made for it has returned: the     *)
(* thread reads and writes the i_Task to its last statement, and nothing    *)
(* but the join of i_scheduler_cycle holds the memory for it.               *)
FreedIsQuiet ==
  \A t \in freed, k \in Threads : tpc[t][k] \in {"none", "exited"}

(* func_end is called at most once, with the value func_main returned: by   *)
(* then exactly one thread ran func_main for the task, and it has returned. *)
EndAfterMain ==
  \A t \in Tasks : ended[t] > 0 =>
    /\ ended[t] = 1 /\ t \in Ending
    /\ thread[t] # 0 /\ tpc[t][thread[t]] = "exited"
    /\ \A k \in Threads \ {thread[t]} : tpc[t][k] = "none"

(* No task is lost or freed twice: the scheduler holds exactly the tasks    *)
(* started and not freed, each once, and a task is freed without its        *)
(* func_end only by the destruction of the application.                     *)
TaskAccounting ==
  /\ Scheduled = {t \in Tasks \ freed : state[t] # "none"}
  /\ \A i, j \in 1..Len(sched) : sched[i] = sched[j] => i = j
  /\ phase # "destroyed" => \A t \in freed \cap Ending : ended[t] = 1

(* The cassert of i_scheduler_cycle at osapp.c:180: a WAITING task the      *)
(* scheduler visits has no thread.                                          *)
WaitingHasNoThread == Visiting("WAITING") => thread[sched[idx]] = 0

(* The cassert of i_destroy_app at osapp.c:112: the application is          *)
(* destroyed with an empty scheduler.                                       *)
DestroyedWhenDrained == [][phase' = "destroyed" => sched = <<>>]_phase

(* The application object is not destroyed while func_create is on the      *)
(* stack, although osapp_finish may be called and the loop timer may tick   *)
(* there, nor inside a scheduler cycle.  How often the run loop is told to  *)
(* terminate is no part of this: two calls of osapp_finish between two      *)
(* ticks tell it twice.                                                     *)
DestroyOutsideCallbacks ==
  [][phase' = "destroyed" => phase = "running" /\ mpc = "idle"]_phase

(* The scheduler cycle reads a freed buffer only in an application that has *)
(* more than MinCapacity tasks alive: up to 8 may be started from anywhere. *)
RoomForFew == mpc = "lost" => Len(sched) > MinCapacity

(* Every started task reaches its func_end unless the application is        *)
(* destroyed before, even when creating its thread fails for a while; or    *)
(* the cycle has read a freed buffer.                                       *)
TaskCompletes ==
  \A t \in Ending : state[t] # "none" ~> (ended[t] = 1 \/ phase = "destroyed" \/ mpc = "lost")

(* A call of osapp_finish, also one made inside func_create, ends in the    *)
(* destruction of the application, unless the cycle has read a freed buffer. *)
FinishCompletes == finishes > 0 ~> phase = "destroyed" \/ mpc = "lost"

-----------------------------------------------------------------------------
(* The inductive invariant behind FreedIsQuiet, EndAfterMain,               *)
(* TaskAccounting and DestroyedWhenDrained, for an application that lets    *)
(* its threads start between frames and drains its tasks before it quits    *)
(* (LateStart = QuitWhileBusy = FALSE).                                     *)

(* The program counters at which the scheduler loop is at position idx.     *)
InLoopBody == {"update", "join", "end"}

(* A task whose thread was joined, and whose func_end was called if any.    *)
Reaped(t) ==
  /\ state[t] = "FINISH" /\ JoinDone(t)
  /\ t \in Ending => ended[t] = 1

(* One thread per task, and task->state says where it is.                   *)
ThreadInv ==
  \A t \in Tasks :
    /\ \A k \in Threads : tpc[t][k] # "none" => k = thread[t]
    /\ thread[t] # 0 => tpc[t][thread[t]] # "none"
    /\ state[t] = "none" => thread[t] = 0 /\ ended[t] = 0
    /\ state[t] = "WAITING" => thread[t] = 0 \/ tpc[t][thread[t]] = "created"
    /\ state[t] = "RUNNING" => thread[t] # 0 /\ tpc[t][thread[t]] = "main"
    /\ state[t] = "FINISH" => thread[t] # 0 /\ tpc[t][thread[t]] \in {"leaving", "exited"}

(* The scheduler holds the live tasks, each once.                           *)
SchedInv ==
  /\ \A t \in Tasks : (\E i \in 1..Len(sched) : sched[i] = t) <=> (t \notin freed /\ state[t] # "none")
  /\ \A i, j \in 1..Len(sched) : sched[i] = sched[j] => i = j

(* The loop counter stays within the array while the loop runs, and within  *)
(* its buffer as long as the array has not outgrown MinCapacity.            *)
LoopInv ==
  /\ buffer = "freed" /\ mpc \in InLoopBody \cup {"cycle", "lost"} => Len(sched) > MinCapacity
  /\ mpc = "lost" => buffer = "freed"
  /\ mpc \in InLoopBody => idx <= total
  /\ mpc \in InLoopBody \cup {"cycle"} => total <= Len(sched)

(* What the scheduler cycle has established where it is.                    *)
CycleInv ==
  /\ mpc \in InLoopBody \cup {"cycle"} =>
       \A i \in idx..total : state[sched[i]] = "WAITING" => thread[sched[i]] = 0
  /\ mpc = "join" => state[sched[idx]] = "FINISH"
  /\ mpc = "end" => Reaped(sched[idx]) /\ sched[idx] \in Ending
  /\ mpc \in {"join", "end"} => deleted = NoTask
  /\ mpc \in {"idle", "appupdate"} => deleted = NoTask
  /\ deleted # NoTask =>
       /\ Reaped(deleted) /\ deleted \notin freed
       /\ \A i \in idx..total : sched[i] # deleted

(* What was freed was reaped, and func_end calls are accounted for.         *)
ReapInv ==
  /\ \A t \in freed : Reaped(t)
  /\ \A t \in Tasks : ended[t] # 0 =>
       /\ ended[t] = 1 /\ t \in Ending
       /\ t \in freed \/ t = deleted \/ (mpc = "end" /\ t = sched[idx])

(* Once osapp_finish was called only reaped tasks are left.                 *)
FinishInv ==
  /\ flags # {} => finishes > 0
  /\ finishes > 0 => \A i \in 1..Len(sched) :
       sched[i] = deleted \/ (mpc = "end" /\ sched[i] = sched[idx])
  /\ "terminate" \in flags => phase \in {"running", "destroyed"}

IInv == TypeOK /\ LoopInv /\ ThreadInv /\ SchedInv /\ CycleInv /\ ReapInv /\ FinishInv
=============================================================================
