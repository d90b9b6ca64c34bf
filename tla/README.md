# TLA+ models of NAppGUI

NAppGUI is a cross-platform SDK in C for desktop applications. It is a stack of
libraries, each one using only the ones below it:

| layer | library | what it does |
|---|---|---|
| 0 | `sewer`  | memory primitives, assertions, math, Unicode |
| 1 | `osbs`   | threads, mutexes, files, sockets, processes; counters of live resources |
| 2 | `core`   | heap, arrays, red-black trees, strings, streams, clock, events, data binding, regex |
| 3 | `geom2d`, `draw2d` | 2D geometry, images, fonts, drawing |
| 4 | `osgui`, `gui` | native controls (GTK, Cocoa, Win32), and the portable controls, layouts, windows over them |
| 5 | `osapp`, `inet`, `encode`, `ogl3d` | application object and tasks, HTTP, JSON/base64/URL, OpenGL contexts |

`demo/`, `test/` and `tools/nrc` are clients of these libraries.

This directory holds specifications of the parts in which the order of events
decides correctness, and proofs about seven of them. `PROJECT.json` lists, for
each definition, the source lines it stands for.

## Inventory

State, operations and hazards of each part. "Modelled in" is empty for the
parts that no module covers; the end says why.

| part | state | operations | what is hard | should hold | modelled in |
|---|---|---|---|---|---|
| application and tasks, `osapp/osapp.c`, `osapp/gtk/osapp_gtk.c` | `i_App` (state, initialized, terminated, scheduler), one `i_Task` per task, the terminate flag of the run loop | launch timer, loop timer, scheduler cycle, `osapp_task`, `osapp_finish`, `i_dispatch_task` on a thread | main thread against one thread per task without a lock; callbacks that call back; termination asked for anywhere; threads that cannot be created | a task is freed after its thread; `func_end` once; the scheduler holds the live tasks; tasks and termination complete | `OSApp` |
| heap, `core/heap.c` | page list with counters, totals, optional auditor | malloc, realloc, free, aligned forms, finish | address arithmetic at the page limit; pages unlinked in any order; kind of block recomputed at release | blocks apart; pages live while used; counters right; leak report right | `Heap` |
| heap sections, `heap_start_mt` / `heap_end_mt`, `osbs_memory_mt` | `mtcount`, the mutex, the copy of its address in `osbs.c` | sections opened and closed; `i_incr` | the count is read without the lock, which decides whether to lock | counters not lost, lock and unlock paired | `HeapMT` |
| red-black tree, `core/rbtree.c` | nodes, number of elements, iterator path | insert, delete, get, first, last, next, prev | repair after deletion along a path whose array has just been shrunk | order, balance, iterator never stale nor too short | `RBTree`, `OrderedSet` |
| arrays, `core/array.c` | buffer, capacity, count | append, insert, delete, sort, search | growth while a loop holds the buffer | a sequence | (`OSApp`, as it uses them) |
| frame clock, `core/clock.c` | last event and update times | `clock_frame`, `clock_reset` | wall clock set back or forward | frames neither stop nor burst nor drift | `Clock` |
| streams, `core/stream.c` | data buffer, buffer of un-read characters, position, END, CORRUPT and BROKEN bits | read, skip, write, flush, close, un-read | growth, refills, short reads and writes, end of data | bytes once and in order; the end is the end | `Stream` |
| scanner, `core/lex.c` | state of the automaton, lexeme, position of the token | `stm_read_token` | the character behind a token is un-read, also over a line end and at the end | every character in one token, positions right | `Lexer` |
| events, `core/event.cpp` | listeners | create, replace, pass an event | listener replaced by its own callback | a listener in use is not freed | |
| library life cycle | user counts of `sewer`, `osbs`, `core`, `gui` | start, finish | nested use, order of finish | last user frees, resources balanced | |
| tab stops, `osgui/ostabstop.c` | control list, focus, pending motion | next, previous, move, press, release, rebuild, restore | callbacks that change the window during a change of the focus; buttons outside the list | events paired, refusals obeyed, the focus set on a control of the window, one button waiting at most | `TabStop` |
| HTTP, `inet/` | request headers, response headers and body | get, post, response, redirection | the body can be taken once; failures half-way | what was received is what is returned | |
| controls, layouts, windows, `gui/` | trees of components, sizes, selections | user events | re-entrance of layouts | selection within the rows | |
| text, parsers, encodings | none | pure functions | boundaries | agree with a definition | |
| drawing, geometry, OpenGL, native back ends, file and socket wrappers | toolkit objects | system calls | | | |

Interactions. The run loop of the toolkit calls `osapp` twice a frame at most:
`i_OnTimerInit` until the application is launched, `i_OnTimerLoop` afterwards.
`osapp` calls the application (`func_create`, `func_update`, and the three
functions of each task); the application calls `osapp_task` and `osapp_finish`
from any of these callbacks or from an event handler. Threads of tasks share
the `i_Task` with the main thread and, through `core`, the heap. Everything in
`core` takes memory from the heap; `setst.h` and `setpt.h` are typed faces of
the red-black tree. The loop timer asks `clock_frame` whether a frame is due.
Native controls report keys, clicks and focus to their window, whose
`ostabstop` asks the portable layer (`gui`), and through it the application, to
resign and to accept the focus. The JSON parser and the resource compiler read
tokens of a stream through the scanner.

Composed modules: `Lexer` runs over `Stream`; `HeapMT` implements `AtomicHeap`
and `RBTree` implements `OrderedSet`.

## Modules

### `OSApp`: application and tasks

Two kinds of actors: the main thread (`mpc`) and the threads made for each task
(`tpc[t][k]`, the k-th for task t). `sched`, `state`, `thread` are
`app->scheduler`, `task->state`, `task->thread`; `freed` and `ended` record
what happened to a task. `phase` condenses `app->state` and
`app->initialized`, `flags` holds `app->terminated` and the run loop's
`terminate`.

| action | code |
|---|---|
| `OnFinishLaunching`, `CreateReturns` | `i_OnFinishLaunching` before and after the call of `func_create` |
| `osapp_task`, `osapp_finish` | the calls of the same name, from any user code |
| `BeginCycle`, `VisitWaiting`, `VisitWaitingFails`, `VisitRunning`, `VisitFinish`, `Join`, `UpdateReturns`, `EndReturns`, `EndCycle`, `AppUpdateReturns` | one tick of the loop timer: `i_OnTimerSignal` and `i_scheduler_cycle`, cut at each visited task, at each blocking call and at each callback |
| `DestroyApp` | a tick with the terminate flag set: `i_destroy_app` |
| `VisitFreed` | a visit that reads a freed buffer |
| `DispatchBegin`, `DispatchFinish`, `DispatchReturn` | `i_dispatch_task`, cut at its two writes of `task->state` |

The two writes of `task->state` are the shared accesses of a thread, so the
steps are as fine as the interleavings that matter. The GTK loop does not
re-enter a timer source from its own callback, so ticks nest inside
`func_create` (another source) but not inside each other. Frame times are not
modelled: whether a frame or an update is due is a free choice. The assertions
of the code (`cassert`) are not guards: a release build goes on, and so does
the model.

The loop of `i_scheduler_cycle` walks the buffer that the array had when it
began (`arrpt_foreach`), and a callback that starts a task may make the array
grow, which frees that buffer (`buffer = "freed"`; `Grows` is the capacity rule
of `core/array`, with `MinCapacity` for its least capacity, 8). The next visit
then reads freed memory, which has two outcomes here: it still holds the tasks
(the array has only been appended to, so the visit is that of `sched[idx]`), or
it does not (`VisitFreed`), and the main thread does nothing more (`mpc =
"lost"`). Nothing is claimed of what a lost program does; `RoomForFew` says that
none is lost with at most `MinCapacity` tasks alive.

Two constants describe the environment instead of the code. `LateStart` is
whether a thread can still be before its first statement when the next frame
comes. `QuitWhileBusy` is whether the application may quit with tasks alive.
The code forbids neither, and depends on both being false; the runs show each
side.

### `Heap`: paged allocator

`heap` is the page list of `i_MEMORY` with the counters of the pages; `home`,
`pos`, `size` say where each block of the program is. `Malloc`, `Realloc`,
`Free`, `Finish` are `heap_malloc` / `heap_aligned_malloc`, the two
reallocations, `heap_free` and `_heap_finish`, each with all the page work it
does (`MallocPaged`, `FreePaged`, `Unlink`, `NewPage` are the branches of
`i_malloc` and `i_free`). Sizes and offsets are the code's numbers; contents
are not modelled. One thread at a time. `MixedClass` lets a program ask for a
block whose kind (paged or own) differs between its own alignment and
`sizeofptr`, the one `heap_free` assumes. When `heap_free` takes an own block
for a paged one the code reads a pointer nobody wrote; the model has no step
there.

### `HeapMT`: who locks the heap and the counters

Several threads, one mutex. `heap_malloc`, `heap_start_mt` and `heap_end_mt`
take it always; `heap_realloc`, `heap_free` and `i_incr` first test `mtcount`
or `i_MUTEX`, without it, and take it only if a section is open. A call is cut
at each point where another thread can matter: `Enter`, `Test`, `Lock`, then
`Load` and `Store` of the word that the call updates (or `Section`), `Unlock`.
One word stands for all the data of each side: `bytes` for `bytes_allocated`
and everything else in `i_MEMORY`, `count` for the counters of `osbs.c`; a
model in which its update can be lost is one in which the page list can be
corrupted. `mtcount` and `i_MUTEX` are written under the mutex in one step.
`Spawn` and `JoinThread` are `bthread_create` and `bthread_wait` with
`bthread_close`, on the main thread, each followed by its call of `i_incr`.

`Disciplined` is the use the functions are made for: the main thread opens a
section before it creates a thread and closes its last one after it has joined
them all. Other threads may open and close sections of their own at any time.
The code does not enforce this; both sides are run.

`AtomicHeap` is what a caller relies on: each call has its effect at one
instant between its start and its return. `HeapMT` implements it under the
mapping `CallOf`: a call is pending up to its `Store`. With a lost update the
effect of a store would be wrong by the other thread's amount, which
`CallsAtomic` therefore excludes step by step, not only in the final sums.

### `RBTree` and `OrderedSet`

`RBTree` is the tree with its array iterator. Nodes are named by their keys
(they are unique); the two mirrored halves of every case in the code are one
with a side as parameter. `overrun` remembers whether the iterator array was
ever indexed behind its allocation, which the code sizes by the logarithm of
the number of elements. The loops of the two restructure functions are iterated
rounds (`InsertRound`, `DeleteRound`); the state of a round is the tree, the
path and the position in it. `OrderedSet` is what `rbtree.h` promises: a set and a
cursor. `RBTree` implements it under the mapping "elements reachable from the
root, last node of the path". Both name the last call, so that a step of the
tree has to be a step of the same operation of the set.

### `Clock`: when a frame is due

The variables are the fields of `_clock_t` and the reading `wall` of the
system's clock, which `Tick` advances and `SetWall` sets to any of `Walls`.
`clock_frame` is `StartClock`, `Early` or `LaunchFrame`; `Rewound`, `Pause` and
`NextEvent` are the code's repairs for a clock that was set back and for frames
missed in a pause. The code's `double` seconds are integers here. `real`,
`allowance`, `since`, `first`, `steady` and `was_set` are history: what the
properties compare with.

`OSApp` leaves free whether a frame is due, so each behaviour of the scheduler
under this clock is one of its behaviours. Its fairness assumes that frames
keep coming, which `NoStall` justifies: a call that finds `frame_rate` passed
launches one, however far back the wall clock was set.

### `TabStop`: the keyboard focus of a window

`controls`, `tablist`, `tabindex`, `cycle`, `motion`, `next`, `current`,
`transient` are the fields of `OSTabStop`. `usable`, `can_focus`, `pressed`
are the state of the native controls that it reads and writes. `pc`, `focus`
and `control` are the position and the locals of `i_try_change_focus`, which is
cut at each call of the application:

| action | code |
|---|---|
| `Next_`, `Prev_`, `Move`, `MouseDown` | `_ostabstop_next`, `_prev`, `_move`, `_mouse_down` up to the first call (`Begin`: `i_effective_focus`, the test for a button outside the list) |
| `Refuse`, `Resign` | the focused control's answer, and the choice that follows |
| `Reject`, `Accept` | the next control's answer; `Accept` sets the focus (`SetFocus`) |
| `Leave`, `Arrive` | the two focus events, then the rest of the caller (`Finish`) |
| `Click`, `ClickReturns`, `ReleaseElsewhere` | the mouse goes up on the button: `i_OnClick` up to the call of `OnClick`, and the release of the transient button behind it; or the mouse goes up elsewhere |
| `AskClose`, `AnswerClose` | `_ostabstop_can_close_window` |
| `SetUsable`, `UpdateWindow`, `Restore`, `SetCycle` | what the application does between the steps: enable or hide, `oswindow_taborder` with a new layout, `_ostabstop_restore`, tab cycling |

The application does not move the focus within a change: the code asserts that
(`ostabstop.c:367`), so changes do not nest. It may in the `OnClick` of a
button. Within both it may do anything else, as often as it likes. `Steady`
describes applications that rebuild a window only so that the controls of the
change under way, and the button whose `OnClick` runs, stay in it, and whose
views, asked to accept the first focus of a window, show no modal window (the
focus would be restored to a control that does not have it, `ostabstop.c:555`).
The code asks for neither: it asserts at `ostabstop.c:220` that the focus is set
on a control of the window, but checks nothing when the window is rebuilt.
The runs are for `Steady` applications, for which both stay apart from what the
properties say; without `Steady` a step reads the control that was there where
the code reads freed memory, and that assertion can fail. Users are not
restricted: a press may end elsewhere, and the list may be rebuilt while it
lasts. Controls are buttons, edit boxes and views as far as they differ here: a
button never refuses to resign, and only a view refuses to accept.

### `Stream` and `Lexer`: streams and the token scanner

`Stream` is one stream: a record `stm` with the data buffer, the restore buffer
(characters un-read), the bits, the position, and its channel (`rest` to be
read, `sink` written, `packet` the most that one read gives). Its helpers take
and return that record, since one call may read and un-read several times:
`Fill` and `Pull` are the filling and the loop of `i_read`, `Grown` and
`Appended` the growth of a buffer, `Restored` is `_stm_restore`. The actions
are the calls: `Read` (also `stm_skip`), `SkipBom`, `WriteMemory`, `WriteFile`,
`WriteInput`, `Flush`, `Close`, `Corrupt`. `ChannelWrite` and `ChannelFails`
are short writes and failing reads. `wrote`, `got` and `chars` are history.

A read at the end gives the character 0, and what un-reads it (a token that ends
there, `stm_skip_bom`) puts a 0 into the restore buffer. It stays there when the
stream is written again, `stm_write` clears END, and the 0 comes out before the
new text; so `InOrder` speaks of the bytes that came out without these
(`Written`), `TokensExact` of an end that is one of what can be read or such a
0, and `EOFAtEnd`, which fails, of the first only. `MaxRestored` bounds how often
`stm_skip_bom` is called where nothing can be read.

`Lexer` is `_lexscn_token`: `Begin` reads the first character, each `Scan` is
one round of its loop, `Delta` is the table of states `i_START` to `i_EXP1`.
Characters stand for classes of those the automaton treats alike ("1" is any
digit but 0, "g" any letter without a meaning in numbers). Spaces and comments
are returned or skipped as `opts` says; a stream never sets the third option,
newlines. `Shape` and
`Extends` are the reference definition of tokens, written without the
automaton. Other calls of the stream happen between tokens. Both modules are
over any set `Chars` of characters that has those classes.

## Runs

| run | shows | bounds |
|---|---|---|
| `osapp` | the application and its tasks behave, if threads are punctual and the application drains its tasks before quitting: `FreedIsQuiet`, `EndAfterMain`, `TaskAccounting`, `RoomForFew`, `DestroyedWhenDrained`, `DestroyOutsideCallbacks`, and the progress properties `TaskCompletes`, `FinishCompletes` | 3 tasks (with update and end, with end only, with neither), 2 threads per task, 2 calls of `osapp_finish`, an array for 2 |
| `osapp_late` | a late thread makes the assertion at `osapp.c:180` fail | as `osapp` |
| `osapp_quit` | quitting with a live task makes the assertion at `osapp.c:112` fail | as `osapp` |
| `heap` | `NoOverlap`, `PagesHeld`, `PageAccounting`, `PageList`, `LeakReport` | pages of 1024 bytes (the smallest `_heap_page_size` allows), 4 pages, 3 blocks, sizes 201, 480, 975, 2000, alignments 8 and 16, blocks and pages symmetric |
| `heapmt` | for a disciplined main thread: `MutualExclusion`, `BytesExact`, `CountExact`, `MutexPresent`, `CallsReturn`, and the refinement `CallsAtomic` | 3 threads, 2 blocks, a section per thread, 4 calls of `i_incr` |
| `heapmt_open` | without sections the assertion at `heap.c:720` fails | as above |
| `rbtree` | `RedBlack`, `PathFits`, `PathIsCurrent`, and the refinement of `OrderedSet` | 8 keys, every order of calls |
| `clock` | `NoBacklog`, `NoBurst`, `NoDrift`, `NoStall` | rates 0, 2, 3; 8 units of time; 2 changes of a clock, to readings before and after the start |
| `tabstop` | `FocusEvents`, `FocusRemains` for `Steady` applications | an edit box, a view and two buttons in 4 layouts |
| `tabstop_drag` | a press released elsewhere makes the assertion at `ostabstop.c:588` fail | two buttons outside the tab list |
| `lexer` | `InOrder`, `EndMeansEmpty` of the stream, `PositionExact`, `TokensExact` of the scanner | all texts of 2 characters, those of 3 or 4 that numbers and comments are made of, longer ones; buffers that start at 0, 1 and 2 bytes |
| `lexer_refill` | a memory stream read by tokens to its end and written again returns the end once more before its text | as above, one size of memory buffer |

Why the bounds are enough. Three tasks let one task finish while another is
reaped and a third is appended by its `func_end`, so that the loop's cached
count, the array and the reaped task all differ, and the third also outgrows the
array that two fill, before or under the loop. Two threads per task are what it
takes to see a second one. Two calls of `osapp_finish` show repetition. In the heap, two 480 byte blocks fill a page, 975 bytes is the largest paged
size, 201 needs padding, and three blocks leave a page in the middle, at the
head and at the tail of the list to be emptied; four pages are one more than
three blocks can occupy with a current page. In `HeapMT` two threads make
every race between two calls, and the third opens or closes a section
meanwhile; the proof covers the rest. Four calls of `i_incr` are two threads
created and joined, or one and a resource opened and closed. Eight keys reach every case of
both repair functions (TLC's coverage shows each branch taken; by reversing the
order of the keys, on both sides), their loops up to the root, and an
iterator array that grows and shrinks. To `PathFits` small trees say little:
the array has room to spare there, and the mutant that breaks it drops
both the extra slot and the doubling of `i_update_iterator_size`; that the
array is long enough for every tree is proved.

Two changes of a clock are one back and one forward in either order, within the
pause before a call or around it; 8 units see a frame at the slowest rate before
and after each, and the proof covers the rest. The four layouts have a button
inside the list and outside it, lack a control that had the focus, and have an
empty list, and further controls would repeat the roles of these four (again the
proof covers any number). In `lexer` every buffer is smaller than a token or
two: reads cross refills, writes cross growths and flushes, and what `SkipBom`
and a token un-read together needs a larger restore buffer. Packets of 1, 2 and
5 bytes are below, at and above the cache of 2, and a read of 3 is longer than
it; texts of 3 written bytes exceed the smaller buffers of `stm_memory`, and two
characters un-read at an end are more than the restore buffer starts with.

Fairness. In `OSApp`, the run loop dispatches its timers and the callbacks
of the application return, hence weak fairness of `Tick` and
`OnFinishLaunching`. `func_create` returns although ticks of a modal loop it
runs come in between, hence strong fairness of `CreateReturns`. Operating
system threads run: weak fairness of each. Creating a thread may fail any
number of times but not for ever: strong fairness of `VisitWaiting` for each
task. Nothing obliges the application to start a task or to quit. In `HeapMT`,
threads inside a call run (weak fairness of `Proceed`), and one that waits for
a mutex which is released again and again gets it at last (strong fairness of
`Lock`: a POSIX mutex promises no order, but a waiter is woken at each release
and does not lose for ever on the schedulers the SDK runs on). No thread has to
make a call. `Heap`, `RBTree`, `Stream` and `Lexer` are sequential libraries,
`Clock` is polled, and `TabStop` waits for users and handlers that nothing
obliges to act: these state no liveness, and the progress of `Clock` is the
action property `NoStall`.

Deadlock is not checked where the system may stop: a destroyed application, a
finished heap, threads that have used up `MaxIncr`, a closed stream.

Each property of a passing run has a mutant, a definition next to the one it
replaces and marked "Mutant", that a plausible slip in the code would amount
to; the run must then fail on that property.

## What the runs found

Each of these is a run that is expected to fail.

* `osapp.c:180`: a task whose thread is late is started a second time.
* `osapp.c:112`: nothing makes sure, or lets an application make sure, that no
  task is alive when it quits; the login task of `demo/products` can be.
* `heap.c:720`: no code of the repository opens a section, `osapp` creates
  threads all the same, and `heap_free` then races with the other threads.
* `ostabstop.c:588`: a button outside the tab list that is pressed and released
  elsewhere stays the transient one; the next press of another such button
  fails the assertion, and in a build without assertions the first one is never
  focusable again.
* `stream.c:1359`: a 0 that the scanner un-read at the end of a memory stream is
  read again when the stream has been written: an end with text pending, though
  `Changelog.md:992` has that end corrected.

Seen while modelling, and in the models as in the code, but contradicted by no
text of the repository: a file that is read to its end is BROKEN rather than
END, since `bfile_read` fails there (`Fill`); after a short write later data is
written behind the hole (`InOrder` promises nothing of a BROKEN file); the
scanner takes "0a" for a number and a name but "1a" for an undefined token,
lets an exponent have any number of signs, and returns no valid token for a
string or comment that does not end (`NoToken` in `Shape`).

Three assertions of the code may fail in the models as in the code, without a
run of their own. A second `osapp_finish` before the next tick tells the run
loop to terminate again (`osapp_gtk.c:150`): nothing remembers the first one, and
`DestroyOutsideCallbacks` says when the application is destroyed, not how often
the loop was told. For alignments above `sizeofptr` there are sizes that
`heap_aligned_malloc` stores on their own and `heap_free` takes for paged
(`heap.c:242`): a program that mixes the kinds so (`MixedClass`) needs, say, 970
bytes aligned to 16, and nothing in the repository allocates such a block. And
the control that is to get the focus is kept in a local while the application is
asked: a handler that removes it from the window makes the focus go to a control
that is gone (`ostabstop.c:220`), which an application that is not `Steady` may.

## Proofs

`OSAppProofs` (any number of tasks, threads and calls). `TypeCorrect` proves
`TypeOK` with `LoopInv` for every application: the cached loop limit stays
within the array since nothing is deleted while the loop runs, and the buffer
that the loop walks is freed only by a growth past `MinCapacity`; `FewTasksSafe`
follows. The rest holds up to the moment in which a program with more tasks
reads a freed buffer that no longer holds them, and is for `Orderly`
applications, `~LateStart /\ ~QuitWhileBusy`. The inductive
invariant `IInv` is in `OSApp`:

* `ThreadInv`: one thread per task, and `task->state` says where it is (this
  is what a late thread breaks);
* `SchedInv`: the scheduler holds the live tasks, each once;
* `CycleInv`: what the cycle has established at each of its positions: tasks
  ahead of the loop that are WAITING have no thread, the task being joined is
  in FINISH, the one in `deleted` was joined and is not ahead of the loop;
* `ReapInv`: what is freed was joined and had its `func_end`;
* `FinishInv`: after `osapp_finish` only reaped tasks are left.

None of the safety properties is inductive alone: `FreedIsQuiet` needs that
the reaped task was joined by the thread it names (`ThreadInv`), and that the
task deleted at the end of a cycle is the one that was joined (`CycleInv`),
though callbacks changed the array in between (`SchedInv`). One lemma per
action gives the step; `TaskMemorySafe`, `TaskEndsOnce`, `TasksAccounted` and
`DrainedBeforeDestroy` follow. `DestroyedOutside` needs no discipline: the run
loop is told to terminate only after `func_create` (`LaunchInv`). That
`i_destroy_app` runs once is not claimed: it depends on GTK, which removes a
timer that returns FALSE.

`HeapProofs` (any page size, header, alignments, sizes, number of blocks). The
argument is about a heap and the set of extents held in its pages: every
extent lies below the fill offset of its live page, two extents of a page are
apart, a page counts its extents and is empty only if current (`HeapOK`).
`MallocLemma` and `FreeLemma` show that one allocation and one release keep
it; a reallocation is the one and then the other. With the type invariant and
`Classes` (a live block is paged exactly when its size says so) this is
inductive (`HeapInvariance`), and gives `BlocksApart`, `PagesHeldByBlocks` and
`TypeCorrect`. `PagesListed` adds `Linked`: next and previous are inverse, only
the current page has no next one and exactly one page no previous one.
`UnlinkLinked` shows that a page may leave from the start or the middle.
`AlignUpBound` is where the padding is shown to fit in what the size test left
free. `PagesAccounted` and `LeaksReported` are about sums over the blocks,
which need their own invariant: `SumInv` says that `used_memory` of a page is
the sum of the sizes in it, `bytes_allocated` the sum of the live sizes and the
difference of the call counters their number, and remembers what the report
said. It is inductive with `Inv` since a call changes the weight and the page
of one block: `SumChanged` says what that does to a sum, and the branch that
reinitializes a page is right because its count, an exact one, is zero
(`UsedFree`). Assumed: `~MixedClass`, `Ptr \in Aligns`, `Header < PageSize`, and
finitely many blocks.

`HeapMTProofs` (any number of threads, blocks and nested sections, with
`Disciplined`; `Threads` is finite, so that pending calls can be counted).
`IInv` is in `HeapMT`:

* `LockInv`: a thread among the guarded data holds the mutex, or is the main
  thread and alone;
* `SectionInv`: `mtcount` is the number of open sections, `i_MUTEX` follows
  it, and while another thread exists the main thread has an open section that
  it is not on its way to closing;
* `CallInv`: what each thread knows at each step of its call, above all that
  the value it loaded is still the value of the word;
* `BlockInv`: concurrent calls have different blocks.

The argument: who finds no section open is alone (`StepTest`), and no thread
can be created or make a section appear under it, since only the main thread
creates threads and it is busy. Who does not take the mutex therefore excludes
the others as well as who does (`LockExcludes`). `i_MUTEX` is reset only when
the last section closes, and then no other thread exists (`StepSection`).
`Exclusion`, `BytesKept`, `CountersExact`, `MutexFound`, `FreeAsserted` and
`TypeCorrect` follow; `FreeAsserted` is the assertion that `heapmt_open` refutes
without the discipline. `Refinement` shows that the heap implements
`AtomicHeap`: entering a call is `Invoke`, its store is `Effect`, on values that
`IInv` knows to be current, and every other step stutters.

`ClockProofs` (any rates, readings and number of changes). `IInv` is `TypeOK`
with

* `NoBacklog`, the assertion of `clock.c:104` made exact;
* `Unstarted`, that of `clock.c:91`;
* `BurstInv`: the frames launched, plus what the time since the last update
  could still become (`Potential`), do not exceed the time passed and the
  allowance. `NoBurst` alone is not inductive: a frame launched late must not
  have been counted on before;
* `StallInv` and `DriftInv`: as long as no clock is set, the time since the
  last event is at least, or exactly, what is left of the time passed.

`FrameKeeps`, `TickKeeps` and `JumpKeeps` are the steps, with a lemma for each
branch of `clock_frame` before them.

`TabStopProofs` (any controls and layouts, and whatever the application does in
any number of calls). `TypeCorrect` needs no assumption: the remembered position
is always one of the tab list, and the list one of the window. `FocusInv` says
who has the focus and who was told so at each call of the application. It is
inductive with `TypeOK` and `NextInv` for `Steady` applications (`Invariance`),
since a rebuilt window then keeps the controls of the change under way;
`EventsPaired` and `FocusKept` follow. `EffectiveIsControl` is about the search
of `i_effective_focus`.

`StreamProofs` (any characters, texts and packet sizes). What is still to be
read of a stream is its un-read characters, then its buffer, then the rest of
the channel (`Pend`). `Sound` says when a record is a stream: of the right
channel, buffers within their size, one restored character or some 0s, the end
reported only with nothing left but these. A helper that reads hands over a piece and
leaves the remainder, in order (`FillKeeps`, `PullKeeps`, `ReadBytesKeeps`); a
buffer that grows keeps its contents and has room (`DoubledEnough`,
`AppendedKeeps`); a character un-read is the next one read (`RestoredKeeps`);
`ReadCharKeeps` adds that column and row move by the character. `StreamKeeps`
puts these together: every call keeps `StreamInv`, the types, `Sound` and
`InOrder`.

`LexerProofs` (the same, and any number of characters read in a token). The
scanner is the one user of the stream that is composed with it, so its
theorems are about executions of both. `LexInv` is `StreamInv` with `Placed`
(the position of the stream is that of the characters read) and `Busy` (the
lexeme and the character in hand are what was read since the last token). It
gives `LexerTypes`, `BytesInOrder`, `EndOnlyWhenEmpty` and `PositionsExact`;
`PositionOfMarks` is the fact that a position computed character by character
is the one `PositionAfter` defines by line ends. `TokensAreExact` is the
correctness of the automaton: each token is the longest one at its place.
`ShapeInv` says for every state what the lexeme read so far looks like
(`Partial`); there is one lemma for each state, from `AtStart` to `AtExp1`,
that each row of the table meets the reference definition (`Meets`): a state
that goes on has a lexeme that could become a token, and one that returns has a
token that no further character extends.

`RBTreeProofs` (any set of integer keys, trees of any size). A tree is followed
by what it does not store: the set `E` of its elements, the elements `U[n]` at
and below each node, its parent, and the number of black nodes below it. `Shape`
says that they fit the pointers and the search order, `Balanced` the black
heights, `Calm` that no red node is above a red one; a tree is `Sound` if all of
it holds and the root is black. The invariant `IInv` is that the tree is sound
for some `E`, that the iterator's path is empty or a way down from the root, and
that its array has twice as many slots as `elems + 1` has binary digits.

* `RotateIs`, `RotateShape` and `ReplaceIs` say what the pointer assignments of
  a rotation do to such a tree, `PaintIs` and `Repainted` what a colour does.
* After an insertion the tree may have one red node under another, at a position
  of the path (`Growing`). `GrowRoot`, `GrowStop`, `GrowUncle` and the lemmas on
  rotations are the cases of the loop, `InsertRoundKeeps` a round,
  `AfterInsertKeeps` the whole of it.
* A deletion cuts out a node with one child at most (`CutKeeps`); if it was
  black, the ways through its place are short of one black node (`Lacks`).
  `BrotherRed`, `BrotherTurned`, `LackUp` and `FarHeals` are cases 1 to 4 of the
  code, `DeleteRoundKeeps` a round, and `AfterDeleteKeeps` shows that the loop
  ends within as many rounds as the path has nodes, and that it touches one slot
  more than that at most. `RenameSound` and `RenameShrinks` are for the node
  that takes the successor's data.
* A lookup finds the key or its place (`DescentFinds`), `i_first` and `i_last`
  the outermost element (`OutermostIs`), `i_inorder_next` and `i_inorder_prev`
  the nearest one on their side (`MovedIs`).
* Along every way down at least every other node is black, so a tree of height
  `h` has `2^(h/2) - 1` elements or more (`SizeBound`), which is what the size of
  the array relies on (`HeightBound`).

From the step lemmas (`InsertKeeps`, `DeleteKeeps`, `GetKeeps`,
`OutermostKeeps`, `StepKeeps`) follow `TypeCorrect`, `RedBlackAlways`,
`PathAlwaysFits`, `PathIsAlwaysCurrent`, and `Refinement`: what a call returns
is what `OrderedSet` says of the elements, whatever shape the tree has.

Loops are proved as well as steps. The loops of the streams and of the tree are
recursive functions (`Pull`, `PastBom`, the doubling of a buffer, `Walk`,
`AfterDelete`) and the sums of the heap are folds; the library's induction theorems cannot be used (they take an
operator), but its fact that `<` is well-founded can: `LeastNumber` draws from
it that a set of numbers has a least one, and `UpTo`, `Iteration` and
`FromBelow` are induction over sets of numbers, which the prover can
instantiate.

Only model-checked: liveness (`TaskCompletes`, `FinishCompletes`,
`CallsReturn`), which the prover cannot reason about under fairness. Every other
property of a run that expects none to fail is a theorem.

## What is left

In order of worth, if the models are extended: reading lines and words of a
stream; what a window does with a press while its tab list is rebuilt, once
the intended behaviour is written down; the hand-over of HTTP answers; the
replacement of a listener by its own callback.

## Not modelled

* In the modelled parts: the optional memory auditor and the logged statistics
  of the heap; 32 bit wrap-around of a request near 4 GB; menubar, theme,
  locale and URL entry points of `osapp`, and its deferred `func_async_call`;
  the Win32 and Cocoa run loops; `rbtree_destroy` and the copying of data; the
  rounding of the clock's doubles; the default button, the capture of tab and
  return and the scrolling of panels in the tab stops; sockets, `stm_pipe`,
  encodings, endianness, lines and words of streams; escapes in strings of the
  scanner.
* Arrays, buffers, key-value buffers, dates, resource packs: containers moved
  by one caller at a time, without control worth a state machine.
* HTTP: a sequential client of the system's library whose only state is the
  answer; its redirections are the library's.
* Events: a listener is an object and a function; its life is its owner's.
* Life cycle of the libraries: counts that a program raises once and lowers
  once.
* Text, number and encoding functions: pure, and well reached by tests.
* Controls and windows of `gui`: one record each, driven by native controls.
* Layout geometry, drawing, `geom2d`, `ogl3d`: floating point and pixels.
* Native back ends and `osbs` I/O: thin calls whose behaviour is the system's.
* `dbind`: a registry with few transitions, large in data.
* Demos, tests, `nrc`, build scripts: clients, consulted for usage.
