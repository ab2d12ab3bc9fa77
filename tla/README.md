# Formal models of Zrythm

Zrythm is a digital audio workstation written in C. Its hardest code is not
its signal processing but the machinery that runs it: a pool of threads that
process a graph of nodes within a few milliseconds, driven by an audio
backend, while the GTK thread changes the graph, the project and the transport
under it. This directory holds TLA+ models of that machinery, the TLC
configurations that check them on small instances, and theorems about them
that TLAPS checks for every instance. Paths below are relative to the
repository's root; line numbers are in `PROJECT.json` ("map").

## 1. The system

| Part | Code | State | Operations |
|---|---|---|---|
| MPMC queue | `src/utils/mpmc_queue.c` | ring of cells (sequence number, payload), `enqueue_pos`, `dequeue_pos` | reserve, clear, push_back, dequeue |
| Graph scheduler | `src/dsp/graph_thread.c`, `graph_node.c`, `graph.c`, `router.c` | `trigger_queue`, its size, `idle_thread_cnt`, `terminal_refcnt`, node refcounts, three semaphores, `terminate` | worker loop, node trigger, end of cycle, start, rechain, terminate, start_cycle |
| Graph construction | `src/dsp/graph.c`, `graph_node.c` | setup nodes and edges, initial and terminal lists, latencies | setup, connect, validate a connection, update latencies |
| Engine control | `src/dsp/engine.c`, `router.c` | `run`, `cycle_running`, `activated`, `port_operation_lock`, `graph_access`, event queue | process, wait_for_pause, resume, activate, recalculate graph |
| Transport | `src/dsp/transport.c` | play state, playhead, loop, count-in and preroll counters | request pause/roll, move, add frames |
| Undo manager | `src/actions/undo_manager.c`, `undo_stack.c`, `src/utils/stack.c` | two bounded stacks of actions, per-type arrays, `action_sem`, `redo_stack_locked` | perform, undo, redo, clear |
| Project saving | `src/project.c` | directory, backups, `save_sem`, serialising thread, last saved action | save, autosave, load |
| Recording | `src/dsp/recording_manager.c`, `src/utils/object_pool.c` | event queue, event pool, `num_active_recordings`, recorded ids | handle_recording (audio thread), process_events (GTK thread) |
| Event manager | `src/gui/backend/event_manager.c` | GUI event queue and pool | push, process |
| Document | tracks, regions, ports, connections, undoable actions | the project tree | hundreds of editing operations |
| Plugins, backends, widgets, settings, schemas, scripting, utilities | the rest of `src/` | | |

How they interact. The audio backend calls `engine_process` on its own thread.
That calls `router_start_cycle`, once or several times, which posts
`callback_start`, and waits for `callback_done`. The graph's *main thread* and
`num_threads` *workers* take nodes from `trigger_queue`, process them and
trigger their children; the thread that finishes the last terminal node posts
`callback_done` and later starts the next cycle itself. The GTK thread pauses
the engine (`run = 0`, wait for `cycle_running = 0`) before it rebuilds the
graph, saves the project or performs an undoable action; `action_sem` keeps
actions and saves apart; recording events and GUI events travel from the audio
thread to the GTK thread through MPMC queues and object pools.

What is hard, per part, and what makes it correct:

* *Queue*: producers and consumers interleave at single memory accesses. It
  must be a FIFO of known capacity, with no race on payloads, and callers must
  return.
* *Scheduler*: counters are read at different moments, wake-ups are computed
  from guesses, `callback_done` is posted before everybody sleeps. Each node
  must run once per cycle and after its parents, no cycle may hang, and nothing
  may run between cycles; shutdown must end.
* *Graph construction*: a valid graph is acyclic and reaches every node; a
  rejected connection must leave no trace.
* *Engine control*: flags and three semaphores that are taken on some paths and
  returned on others. The graph must never change under a running cycle, and a
  pause must be followed by the state it saved.
* *Transport*: requests race with the cycle that serves them; loop arithmetic is
  unsigned.
* *Undo manager*: linked groups of actions, failing actions, full stacks. Undo
  and redo must be inverses on groups and the semaphore must come back.
* *Project saving*: early returns, a second thread, crashes between files. What
  is marked finished must be complete.
* *Recording*: two threads with a queue in between, and a pause in the middle.

`PROJECT.json` ("hazards") lists these at the line where each bites.

## 2. Modules

| Module | What it is |
|---|---|
| `QueueSlots` | operators on the slots of a queue as its users see it |
| `QueueSpec` | abstract bounded FIFO: claim, publish, take, release |
| `MpmcQueue` | `mpmc_queue.c`, one action per memory access; invariants; refinement of `QueueSpec` |
| `MpmcQueueProofs` | theorems about `MpmcQueue`, the refinement among them |
| `MpmcWrap` | the same code with positions of the width they have in C; refines `MpmcQueue` |
| `MpmcWrapProofs` | below the largest `gint` the width makes no difference |
| `GraphCycle` | abstract cycle: every node once, after its parents |
| `GraphScheduler`, `MCGraphScheduler` | threads, refcounts, end of cycle, termination; composes with the queue through `QueueSlots`; refines `GraphCycle` |
| `GraphSchedulerProofs` | theorems about `GraphScheduler`, the refinement among them |
| `EngineControl` | audio, GTK and exporting threads around `run`, `cycle_running`, the play state and two semaphores |
| `EngineControlProofs` | theorems about `EngineControl` |
| `UndoStack` | a stack of actions with its per-type arrays, as operators |
| `UndoHistory` | abstract: a line of edits with a cursor |
| `UndoManager`, `MCUndoManager` | perform, undo, redo, groups, cancelled drags, the menu, saves; over `UndoStack`; refines `UndoHistory` |
| `UndoManagerProofs` | types, and what the undo stack offers, for stacks of every length |
| `UndoHistoryProofs` | what undo and redo promise the user, the refinement among them; over `UndoManagerProofs` |
| `ProjectSave` | saves, autosaves, the audio pool in memory and on disk, crashes, opening |
| `ProjectSaveProofs` | theorems about `ProjectSave`; what "no unsaved changes" means for the project on disk |
| `Recording`, `MCRecording` | recording events, the event pool, the flags that two threads share |
| `RecordingProofs` | no event is lost and no flag left behind, for any number of tracks |

How the modules fit together: `GraphScheduler` rebuilds and terminates the graph
only between cycles, which is what `EngineControl` shows of the pauses around it
(`ChangesExcludeCycles`). `UndoManager` and `ProjectSave` run on the GTK thread
inside such a pause. `Recording` sends its events through the queue of
`MpmcQueue`, taken as atomic there, and its last stop performs an action inside
a pause of the engine.

### MpmcQueue

`cap` is `buffer_mask + 1`; `sequence`, `data`, `enqueue_pos`, `dequeue_pos` are
the fields of the C struct; `pc`, `pos`, `arg` are the control point and the
locals of each caller; `result` is what its last call returned. `PushCall` reads
`enqueue_pos`, `PushReadSequence` reads the cell and branches on `dif`,
`PushCas` is the compare-and-swap, `PushReload` the re-read when `dif > 0`,
`PushWriteData` and `PushPublish` the two final stores; the dequeue actions
mirror them. A failed compare-and-swap goes back to the sequence number with
the *old* `pos`, as the code does (`MPMC_USE_STD_ATOMIC` is 0). `Reserve` is only
enabled when nobody is inside the queue: it frees the cells without
synchronisation, so this is its callers' duty; that the scheduler fulfils it as
far as it does is `BetweenCyclesQuiet` below. Atomics are sequentially
consistent, as `g_atomic_int_*` are.

`QueueSpec` describes the queue through slots that are claimed, ready, being
read or free. It is weaker than a textbook FIFO on purpose: a dequeue may
report "empty" while a younger element is published behind a head that is only
claimed, and a slot stays occupied until its reader has released it (so "full"
may come early). `GraphScheduler` uses exactly these operators.

### MpmcWrap

It extends `MpmcQueue` and has the steps that convert a number, on signed positions
and unsigned sequence numbers (`Signed`, `Unsigned`; `IntMax` is `G_MAXINT`). The
steps that convert none are `MpmcQueue`'s. `pos + 1` at the largest `gint` is
undefined in C: `Successors` is the set of its outcomes. `pushes` counts the calls
of `push_back` since the positions were last 0.

### GraphScheduler

One action per access to shared state. `pc[t]` follows `dsp_worker_thread`
("top" ... "claimed"), `graph_node_process` ("process", "processing"),
`on_node_finish` and `graph_node_trigger` ("notify" ... "publish"),
`graph_on_reached_terminal_node` ("terminal" ... "boot_publish") and
`main_thread` ("await_workers", "first_callback", "boot"). `router_pc` follows
whoever is inside `router_start_cycle`; `gtk_pc` follows `graph_start` and
`graph_terminate`. `todo[t]` holds the children still to be notified,
`next_init[t]` the index of the loop over `init_trigger_list`, which is read
again from the graph at each turn. `started` and `finished` are history
variables, for the refinement of `GraphCycle` only.

A push or dequeue is two actions here, claim/publish and take/release: the two
instants at which `QueueSpec` says it takes effect. The loops around the
compare-and-swap are in `MpmcQueue`.

`Rechain` and `Terminate` happen only while no cycle runs: the GTK thread has
set `run` to 0 and seen `cycle_running` at 0 (`router_recalc_graph`), or has
deactivated the engine (`project_free` before `graph_terminate`). They do *not*
wait for the graph's threads: this is what the code does. Semaphore counts are
natural numbers; `callback_in_progress` is the router's plain bool.

Consecutive graphs may have different numbers of initial nodes, and then the code
has a gap. A thread that has pushed the last initial node of a cycle has still to
compare its index with `n_init_triggers`. The cycle can be over without that
thread, and if the graph that is installed then has more initial nodes, the
thread goes on to push nodes of a graph whose cycle has not begun (`MCRechain`).
`overtaken` is a history variable that is set when a rechain finds a thread in this
position (`Overtakes`) and stays so. All that the scheduler promises, it promises
until then: the properties of the run `graph` say so one by one, and `GraphCycle`,
which has `overtaken` too, allows everything afterwards (`NoPromise`).

Left out: what a node computes; nodes processed by `router_start_cycle` itself
before the cycle (tempo ports, which skip `on_node_finish` because
`callback_in_progress` is still false); the splitting of a node's block at loop
points; `graph_access` (it belongs to engine control); thread creation that
fails. A thread that reads a node or the cells of the queue after
`graph_rechain` has freed them is assumed to find the old contents: the model
shows which threads may be there (`BetweenCyclesQuiet`), not what such a read
returns.

### EngineControl

`cycle[t]` is where a thread is inside `engine_process` ("check" reads `run`,
"prepare" to "lock" are `engine_process_prepare`, "graph" and "process"
`router_start_cycle`, "post" `engine_post_process`, "finish" resets
`cycle_running`), and which play state it read before. Three threads do this:
the backend's; the GTK thread, for the cycle of one frame a pause runs itself;
and the exporting thread, once per block. `stack` is the GTK thread's calls, the
innermost last: requests of the transport, `engine_wait_for_pause` with
`engine_resume`, `router_recalc_graph`, `clip_editor_set_region`. A call begins
on an empty stack or inside a pause, as an undoable action does when it
recalculates the graph and validates a connection. Each frame has the state its
call saved: whether the engine ran, whether the transport rolled.

Left out: activation and deactivation, changes of the buffer size, latency
preroll, the engine's event queue, positions. `wanted` is a history variable.

### UndoManager

The document is the sequence of the edits in force, `made_at` and `group` are
history: the document in which an edit was made first and the operation of the
user it belongs to. Actions live at addresses, which are allocated again after
they were freed. One action of the model is one branch of `do_or_undo_action`,
`undo_manager_undo`, `undo_manager_redo` and `undo_manager_perform` between two
accesses to `action_sem`. Operations of the user perform one action, or several
that are counted on the last, or as they go (`num_actions`). Drags that are
cancelled perform and undo with `redo_stack_locked`. A row of the menu repeats
`undo_manager_undo`. A stack of the project is bounded, or unlimited when
`MaxLength` is -1; `UndoStack` has `undo_stack.c` and `stack.c` in the order of
their statements, the rebuilding of a stack from its arrays included.

Left out: what an action does other than one edit of the document; clearing and
cloning stacks as operations of their own.

### ProjectSave

A directory is a project file with its time, the `FINISHED` file and a pool of
files; `main` is the project's, `backups` the others. `saver` is the
`project_save` under way, which is a sequence of steps in the code's order: the
project's directory, the backup's, the others in it, clips, plugin states, clone,
serialisation, finished mark. At every
step the process may be killed, and the steps in `Fallible` may fail and take
the early return the code takes there. `audio_clip_is_in_use`, unique names, the
removal of unused clips and files and the overwriting of a clip's file are as in
`pool.c` and `clip.c`. Opening reads the project, or a newer backup if one is
offered, which the user may refuse.

`last_saved_action` is an address, and the code compares addresses. An action of
the model lives at one of `Addrs`, any that is free when it is performed, so an
address comes back once its action was freed: with the redo stack that an action
clears, or with the oldest action of a stack that holds `MaxLength` of them.
`Forgets` says when what `last_saved_action` stands for goes: its action is freed, or
it is NULL and the undo stack loses its oldest action, so that an empty stack
does not mean the same document any more. The auxiliary variables `forgotten`
and `source` record that this has happened since the last save, and which
directory was saved or opened last (`Nowhere` if its file could not be written).

Left out: Save As, templates, schema upgrades, the contents of plugin states, a
file that is torn while it is written.

### Recording

`call[t]` is the cycle of track t: the segments it is split into at loop and
punch points (`handle_recording` in `track_processor.c`), up to six of them, and the
events that `recording_manager_handle_recording` has still to take from the pool
and to push. `Cycles` has every sequence of segments the code makes, those of no
frames included; `Splits` are the ones an instance considers.
The read of `recording_stop_sent` is a step of its own (`CheckStopSent`); the
other reads of a call are taken together. `gtk` is where
`recording_manager_process_events` is: an event is handled in one step, except
for a stop, which pauses the engine, performs the action, disarms the transport
and resets region and flags one after the other. Performing the action looks up the
regions of both kinds, audio and automation, and uses them without a check, and
it may return early before the transport is disarmed (`Commit`). An event carries the hash of
its track's name; `old` says that the name has changed since. `on` is
`recording_region` of a track and `recording_started` of an automation track;
what regions contain is left out. `down` and "hung" are where a null pointer is
used, and where the GTK thread waits for a semaphore it holds itself.

## 3. Runs and bounds

Runs that pass:

| Run | What it asks | Instance | States |
|---|---|---|---|
| `queue` | no race on a cell; the inductive invariant, types included; refinement of `QueueSpec`; calls return | 2 threads, 2 values, ring of 2 enlarged to 4, positions up to 3 | 47 thousand |
| `wrap_below` | refinement of `MpmcQueue` up to the last position that fits; calls return | 2 threads, gints up to 7, 6 pushes, ring of 2 enlarged to 4 | 26 thousand |
| `graph` | counters, queue and refcounts agree with what the threads do; refinement of `GraphCycle`; completion; termination at rest | 2 workers and the main thread; a graph of 4 nodes with two initial nodes and a shared child, and one of a single node; until a thread is overtaken; a queue of 2 cells at first; 2 outstanding tokens | 238 thousand |
| `undo_history` | undo and redo are a cursor in a line of edits; groups are whole; calls return | 4 edits, groups of up to 3, no maximum length, no failures, saves | 616 thousand |
| `undo_limits` | what undo offers fits the document; saved stacks are loaded back; only performing forgets | 4 edits of 2 types, groups of 2, stacks of 2, failures, menu rows 0 and 1 | 552 thousand |
| `engine_control` | cycles and changes exclude each other; locks; calls return; requests served | 5 calls, 3 deep, exports of 1 block, a count-in of 1 cycle | 213 thousand |
| `project_save` | backups whole; saved edits are found again; backups leave the project alone; saves return | 3 edits at 3 addresses, stacks of 2, 2 saves, every step failing, kills | 1.23 million |
| `recording` | events conserved; flags answered; recordings end | 1 track with 1 automation track, 2 events in the pool, 2 operations of the user, 5 ways to split a cycle | 614 thousand |

Why the bounds are enough. *Queue*: a ring of two cells is the smallest the code
makes; a producer can lap a reader, and two values distinguish order from loss.
*Graph*: one graph has a node with two parents and one with two children and
more ready nodes than the queue has cells before it is enlarged; between cycles
either graph may replace the other any number of times, so the number of initial
nodes stays, grows and shrinks, under threads that may still stand at the end of
their loop over the old list; tokens of an earlier cycle are left over. The state
after a thread was overtaken is reached and not explored further (`NotOvertaken`),
as nothing is promised there. *Undo*: a group of three is undone and redone step by step
with an action before it; a stack of two evicts the first of a group of two.
*Engine*: three calls deep is a pause in an action in which the graph is
recalculated; five calls let every kind of call follow and contain every other;
`port_operation_lock` can reach 2. *Saving*: three edits on a stack of two
evict one, and free an address that the next action gets; a clip's name is freed,
used again and overwritten. *Recording*: a pool of two runs empty within one
cycle; the transport may be rolling or armed at first, so two operations are
enough to start, to stop and to change something in between; the five splits have
a cycle on either side of the punch range, one in which it begins, one in which
it ends, and one with two empty segments in a row. What it does not reach is two tracks at once: the flags
are per track and `num_active_recordings` counts automation and track together.

`MaxTokens`, `MaxLock` and `MaxPosts` bound semaphores: who would exceed them
waits. A configuration has `CHECK_DEADLOCK FALSE` where the system may stop: bounded
positions and edits, a terminated graph, a call that waits for ever (the liveness
properties report that), a program that ended.

Runs that are expected to fail; each shows that a statement in the repository
is not true of the code (`PROJECT.json`, "findings"):

| Run | What happens |
|---|---|
| `graph_termination` | a thread on its way to sleep exits without counting as idle; `graph_terminate` waits for ever |
| `undo_menu` | a row of the undo menu undoes groups where it counts actions; the stack runs empty and undo returns with the semaphore held |
| `engine_hang` | a pause inside a pause waits for a pause request that no cycle can serve any more |
| `save_reuse` | an autosave frees the name of a clip the saved project refers to; the next import overwrites its file |

Further configurations refute a property too; they can be run by hand
(`tlc -config <file> <module>`), and show other places where the code is weaker
than its comments, or where a listed property is as strong as it can be:

| Configuration (module) | Property | What happens |
|---|---|---|
| `MCMpmcQueueStall` (`MpmcQueue`) | `SurvivorReturns` | a caller preempted between compare-and-swap and publication makes another spin: the queue is not lock-free |
| `MpmcWrapBeyond` (`MpmcWrap`) | `PushReturns` | after 2^31 pushes `dif` is never 0 again and `push_back` spins |
| `MCRechain` (`MCGraphScheduler`) | `RechainFindsNothingQueued` | a thread that still reads `init_trigger_list` pushes a node of the next, larger graph |
| `MCSleepers` (`MCGraphScheduler`) | `SleepersStayIdle` | a thread woken by a left-over token stops counting as idle between two reads of the count |
| `MCUndoEviction` (`MCUndoManager`) | `GroupsAreOnTheirStack` | a full stack evicts the first action of a group |
| `MCUndoSemaphore` (`MCUndoManager`) | `SemaphoreIsMutex` | an action that fails posts `action_sem` twice |
| `MCUndoUnsaved` (`MCUndoManager`) | `UnsavedNoticed` | a new action at the address of the last saved one counts as saved |
| `MCEngineRequest`, `MCEngineCountIn` (`EngineControl`) | `UserObeyed` | a request made while an older one is served, or before a pause, is lost |
| `MCEngineLock` (`EngineControl`) | `LockIsMutex` | `port_operation_lock` is posted by cycles that did not take it |
| `MCEngineExport` (`EngineControl`) | `ExportsEnd` | an export whose playhead is stopped never ends |
| `MCSaveAutosave` (`ProjectSave`) | `NeverBlocked` | an early return keeps the semaphore and the engine paused |
| `MCSaveKilled` (`ProjectSave`) | `CrashKeepsProject` | unused files are removed before the project file is replaced |
| `MCSaveOffer` (`ProjectSave`) | `NewerBackupOffered` | a directory that a killed backup left ends the search: the finished backup is not offered |
| `MCSaveUnsaved` (`ProjectSave`) | `UnsavedNoticed` | another action gets the address of the one saved last, or the stack is emptied again after an eviction: changes count as saved |
| `MCSaveError` (`ProjectSave`) | `ErrorsNoticed` | an error of the serialising thread leaves a finished mark |
| `MCRecordingRename` (`MCRecording`) | `EventsFindTheirTrack` | an event of a track that was renamed makes the GTK thread keep `processing_sem` |
| `MCRecordingUndo` (`MCRecording`) | `RecordedAreUndoable` | the last stop forgets the regions of the other kind |
| `MCRecordingStop` (`MCRecording`) | `StopFindsARecording` | a second stop is sent around the reset of the flags |
| `MCRecordingResume` (`MCRecording`) | `ResumeEndsPause` | `recording_paused` of automation is never reset |
| `MCRecordingMode` (`MCRecording`) | `AutomationEnds` | automation leaves the cached list before its stop was sent |

Fairness. `MpmcQueue!FairSpec` and `MpmcWrap!WrapSpec` assume that a thread inside
the queue keeps being scheduled, and nothing about when calls are made;
`StallSpec` assumes it of one thread only. `GraphScheduler!FairSpec` assumes weak
fairness of every thread of the graph, of the router inside a cycle and of the
GTK thread inside `graph_start` or `graph_terminate`; nobody has to start a cycle.
`UndoManager` and `ProjectSave` assume that the GTK thread, once inside a call,
goes on. `EngineControl!FairSpec` assumes weak fairness of the audio and the
exporting threads (the backend keeps calling) and strong fairness of the GTK
thread inside a call: it polls `run`, `cycle_running` and the play state and waits
for semaphores that cycles take and return again and again, so it is scheduled
in one of the gaps. `Recording!FairSpec` assumes that a timer keeps calling
`recording_manager_process_events` and that cycles go on; strong fairness of the
GTK thread for the same reason, as its pause waits for the end of a cycle. The
operating system's scheduler gives this on a machine that is not overloaded.

Each property of a passing run has a mutant, an operator in the same module that
makes a plausible mistake in one definition; TLC finds the property violated
when the mutant takes its place (`PROJECT.json`, "mutants").

## 4. Proofs

`MpmcQueueProofs` proves, for every set of threads and values, every capacity up
to 16384 and every bound on positions below 2^31 - 1, `TypeCorrect`
(`Spec => []TypeOK`), `InductiveInvariant` (`Spec => []IInv`),
`CellsAreExclusive` (`Spec => []CellExclusive`) and `QueueImplemented`
(`Spec => ImplementsQueueSpec`, the refinement of `QueueSpec`).

`CellExclusive` is not inductive: it does not say why a thread that finds
`sequence = pos` may win. `IInv` adds `Window` (for each of the next `cap`
positions, its cell is waiting for it, or is still busy with the position one
lap earlier, and which of the two the sequence number tells), `PushersPlaced`
and `ReadersPlaced` (a thread between compare-and-swap and publication owns a
position in the window, and its cell says so), `CasJustified` (a sequence number
found equal to `pos` stays so while `pos` is still current), and
`OwnersDistinct`. Positions in a window of `cap` consecutive numbers fall on
different cells, which is the arithmetic lemma everything rests on; two owners
have different positions in one window, so different cells. Assumptions:
`Values` is not empty, "nobody" is no thread, sizes are between 1 and 16384 (the
operator that picks a power of two chooses from a list), and positions stay
below the largest `gint`.

The refinement needs more than `IInv`. `RingInv` adds `CellsOwned` (a cell that is
being filled or emptied has the thread that does it), `CellsFilled` (a cell that
was never filled does not look like a full one) and `DataKept` (a producer about to
publish has stored its value, a consumer about to give its cell back has read
it). The slots `QueueSpec` sees are those of the positions from `Oldest` to
`enqueue_pos` (`BarShaped`). Four steps change them: a compare-and-swap that wins
(`ClaimSlots`, `TakeSlots`), and a store of a sequence number (`PublishSlots`,
`ReleaseSlots`, after which the slots before the next one still held are
forgotten). All others leave them as they are (`FrameSlots`), the store of the
payload because it goes to a cell that is only claimed. `FullIsFull` and
`EmptyIsEmpty` show that a thread returns "full" or "empty" only at a step at
which the queue is full or its head is not published. `GraphScheduler` works on the
slots of `QueueSpec`, so this is what its queue rests on.

`MpmcWrapProofs` carries this over to the width of C, for every width and under the
hypothesis `Narrow`: fewer than `IntMax` pushes since the queue was last cleared, and
no ring of more than half as many cells as there are guints.

* `WidthInvariance`: `Narrow => (WrapSpec => [](IInv /\ PushesInv))`;
* `PositionsSuffice`: `Narrow => (WrapSpec => ImplementsMpmcQueue)`;
* `QueueAtItsWidth`: `Narrow => (WrapSpec => ImplementsQueueSpec)`.

`MaxPushes` bounds calls, not positions: `PushesInv` says that every position won,
and every one that a caller still seeks, has its push. With `IInv` of `MpmcQueue`,
which says where the position of each caller lies, every number that is about to be
converted fits its type (`PositionsFit`), so the step is one of `MpmcQueue`
(`StepIsExact`), which keeps `IInv`. What happens past the limit shows
`MpmcWrapBeyond`.

`GraphSchedulerProofs` proves, for any number of worker threads, nodes and graphs
that are rebuilt any number of times and differ in any way from one another:

* `SchedulerInvariance`: `Spec => []SafeInv`, where `SafeInv` is `~overtaken => IInv`;
* `TypeCorrect`: `Spec => [](~overtaken => TypeOK)`; no counter falls below zero;
* `CycleImplemented`: `Spec => ImplementsGraphCycle`, the refinement of
  `GraphCycle`;
* `NothingIsQueued`, `SomebodyIsAwake`, `RoomForEveryNode`,
  `RefcountsAreRestored`, `NobodyWorksBetweenCycles`: the five safety invariants
  of the run `graph`.

Each says what holds until a thread is overtaken by a rechain, and no more is true:
without `overtaken`, `MCRechain.cfg` refutes `NothingIsQueued`. That condition is not
about the graphs but about the schedule. A rechain to more initial nodes is
covered if the threads that pushed the last one have left their loop. If the
new graph has no more of them than the graphs such a thread has pushed, it is
covered in any case: a thread that compares its index with the new
`n_init_triggers` leaves as well (`BootsOut`).

None of the properties is inductive. `IInv` says where every node of a cycle is:

* `RefcountInv`: the refcount of a node is the number of its parents that are not
  done (`Missing`) plus the number of threads that are done with a parent and
  have not come to this node yet (`Owing`); if there are any, the node is nowhere.
  If there are none it has been pushed, or exactly one thread is about to push it
  (`TriggerInv`), and its refcount is that of the next cycle already;
* `SlotsInv`, `RunInv`: a node is in one slot of the queue at most, and in one
  pair of hands; a slot that is free but still occupies a cell held a node that
  was taken (`Pushed` counts these slots too, so that a node goes through the
  queue once per cycle, and a queue of as many cells as nodes has room: `PushRoom`);
* `CountInv`: `trigger_queue_size` is the number of nodes between the increment
  before their push and the decrement after they were taken;
* `StageInv`: where the threads and the callers are. Either one thread leads (it
  ends a cycle, waits for the callback, or resets) and all others only probe an
  empty queue on their way to sleep (`StageQuiet`), or nobody leads and a cycle
  runs (`StageActive`), or the graph terminates (`StageOver`);
* `IdleInv`: `idle_thread_cnt` counts the threads that sleep, and some that left
  after `terminate` without counting themselves out.

A step belongs to one of few kinds, and each kind has its lemma: steps of a thread
without work (`CalmStep`), with a node in hand (`WorkKept`), the end of a node
(`FinishKept`), the end of a cycle (`ReachKept`), of the thread that leads
(`LeadKept`), of the router and of GTK. That a cycle ends with nothing left
(`AllDone`, `AllQuiet`) and that somebody is awake while it runs (`ActiveAwake`)
both rest on the graph having no cycle: among the nodes that are not done there is
one that feeds none of the others (`LastNode`), and one that none of the others
feeds (`FirstNode`). Assumptions: a graph has at least one node and at most 16384,
its connections stay inside it, no node has a child twice (`graph_node_connect`)
and they close no cycle (`IsValid`, what `is_valid` decides before a connection
is made).

`EngineControlProofs` proves, for calls of any depth and number, any lock bound, any
length of an export and of the count-in, and any set of requests:

* `Invariance`: `Spec => []IInv`;
* `TypeCorrect`: `Spec => []TypeOK`;
* `PausesExclude`: `Spec => []ChangesExcludeCycles`;
* `AccessIsExclusive`: `Spec => []AccessExcludesCycles`;
* `EngineRuns`: `Spec => []RunsBetweenCalls`.

`ChangesExcludeCycles` is not inductive by itself. `IInv` adds `StackInv` (only
the innermost call moves; `run` is what the depth of the stack and the place of
the innermost call say; every call found the engine running exactly if it is the
outermost, so that what it restores is right), `CycleInv` (the handshake: a cycle
is announced in `cycle_running` from its begin to its end), `AccessInv` (at most
one holder of `graph_access`) and `ExportInv` (an export has blocks left while its
thread is in a cycle). The argument: a call that is about to change the graph has
`run = 0`, by `StackInv`; it got there by seeing `cycle_running = 0`, when no cycle
was past its check, by `CycleInv`; and a cycle that begins later reads `run = 0`.
The steps on the stack are proved once, for replacing, adding and removing its
top (`ReplaceTop`, `GoneOn`, `Called`, `Returned`), and each action of the GTK
thread is an instance of one of them.

A second invariant, `CallInvariance` (`Spec => []CallInv`), says what the calls
have saved and locked, and gives

* `LockBlocks`: `InExport = FALSE => (Spec => []LockBlocksCycles)`;
* `WhatRolledRolls`: `Spec => RollsAgain`.

`CallInv` has `DialogInv` (the dialog of an export belongs to the outermost call,
and only requests are called from it), `OthersInv` (the cycles of the GTK thread
run inside its flush, those of the exporting thread under the dialog), `PlayInv`
(a pause that is about to end and saw the transport rolling has asked it to
roll, and no cycle serves that before the call is over) and, without requests
during an export, `LockInv`: `port_operation_lock` is 0 exactly while one cycle is
past it or the GTK thread holds it. The hypothesis
`InExport = FALSE` is not there to help the proof: a request that is made while
an export runs finds the count wrong, which is what `MCEngineLock.cfg` shows.
The run `engine_control` checks the property under the same hypothesis.

`ProjectSaveProofs` proves, for every number of edits and saves, every set of
addresses, stacks of every length, every set of steps that may fail, with and
without kills:

* `Invariance`: `Spec => []IInv`;
* `TypeCorrect`: `Spec => []TypeOK`, which says that the pool holds every clip in
  use and that no two clips of a pool share a name;
* `BackupsAreWhole`: `Spec => []BackupsWhole`;
* `BackupsLeaveTheRest`: `Spec => BackupsTouchNothingElse`.

`BackupsWhole` says nothing of a backup that is still being written. `IInv` adds
`WrittenInv` (each clip in use is in the backup's pool or still pending; from the
clone on, the pool holds what the clone uses), `SaverInv` (which step has a
directory, and that it has no project file before `Serialize`) and `Sound`, for
every project in memory or on disk: its pool has what it uses, under different
names. A clip that is written replaces a file of its name, and `Sound` is why
that file is never one of the project's other clips. Two facts come from
counting: a project has at most as many clips as there were edits, so
`UniqueName` finds a free name (`UniqueNameIsFree`), and a finite set of backups
has a newest one (`NewerBackupType`). Opening a project reads its clips by name,
which keeps names apart (`OpenedSound`). Assumptions: the bounds are positive,
`NoAction` is no address, and `Fallible` names steps that exist. The liveness of saving is only
model-checked.

Its second part proves `NothingIsLost` (`Spec => []NothingUnsavedIsLost`): if the
last action is at the address saved last, the project on disk opens to the
document in memory. There are two premises. `~forgotten`: what the address stood
for has not been freed since; otherwise the code takes changes for saved, which
`MCSaveUnsaved` shows. `source # Nowhere`: the save could write its file; otherwise
there is a finished mark without a project (`MCSaveError`). What remains is not
obvious, as the question looks at one address only, and the document depends on
all the actions before it. `ChangesInv` (`ChangesInvariance`) therefore follows
histories, the undo stack with what can be redone after it: undoing and redoing
move along a history and change nothing in it, and an address stands in it once
(`DistinctInv`). `SourceInv` says of the directory that was last saved or opened
that its document is the one memory has at the place of the last saved action, and
that there is such a place (`Matches`); an eviction moves clips from the history to
the document under it, an action performed after an undo cuts the history
off, and either keeps that place unless it is forgotten. `PoolInv` says that
the sounds of the clips in use are on disk; `CopyInv` what the clone of a save
under way and the file it writes are worth at each of its steps.

`UndoManagerProofs` proves, for stacks of every length, every number of edits and
of actions in an operation, with failures and rows of the menu:

* `HistoryInvariance`: `Spec => [](TypeInv /\ DocInv)`;
* `TypeCorrect`: `Spec => []TypeOK`, in particular that an action on a stack was
  not freed, and is there once;
* `UndoTakesBackTheLast`: `Spec => []UndoMatchesDocument`;
* `ReloadBringsBack`: `Spec => []ReloadRestores`.

`TypeInv` types the calls by their place and says that an operation has room for
its edits, that a call holding the semaphore may post it, and that the redo
stack is locked only while a drag is cancelled. `DocInv` says that the edits of
the undo stack are the end of the document, that no edit is twice in the document
or among those to redo, and that all have been made. Each of the stacks is
followed through a push that makes room (`PushedWithRoom`), a pop (`Popped`), a
change of the sizes of groups (`Renumber`), once for addresses and once for the
edits they hold (`PushedEdits`, `FrontEdits`). Assumptions: the bounds are
positive, `Nil` is neither an address nor an action, no type of action is listed
twice.

`ReloadBringsBack` is about the project file, which holds the array of each type
and the `stack_idx` of each action, but not their order. `FiledInv` says that the
array of a type always holds the actions of that type on the stack, in the
stack's order, and that `stack_idx` is the place of an action; it is kept by a
push, a pop, and by the removal of the oldest action that makes room. The loader's
rounds (`InitLoaded`) are recursive functions. That such a function exists and
obeys its equation (`RecursionExists`), and that what holds at 0 and is handed on
holds throughout (`Climb`), follows from the least number at which it fails. By
`Climb`, what has been loaded is a beginning of the stack (`OfferRestores`), each
round adds an action to it as long as one is missing (`RoundAdvances`), and there
are as many rounds as actions (`TotalIsLength`), so that all are loaded
(`LoadedRestores`).

`UndoHistoryProofs` goes on from there:

* `HistoryRefined`: `MaxLength = -1 => (Spec => ImplementsHistory)`. A step of the
  manager moves the cursor of `UndoHistory`, drops what lies after it and adds an
  edit, tries or withdraws one, or changes nothing. With a bounded stack this is
  false: performing on a full undo stack makes its oldest edit final, and the
  document keeps what nothing can undo.
* `EditsMeet`: `MaxLength = -1 /\ ~MayFail => (Spec => []EditsMeetTheirDocument)`.
  `LineInv` says it also while a drag is cancelled, of the document without the
  `Pending` edits that the drag has made and its undo has yet to withdraw. An
  action that fails within a group leaves the rest where it was (`MayFail`), and
  the size of the group is wrong from then on.
* `OnlyPerformingForgets`: `Spec => OnlyPerformForgets`, for stacks of every
  length. An undo pushes on the redo stack, which must not be full. `LimInv`
  bounds the two stacks together: they hold no more edits than one of them may,
  but for pending edits and for `m` edits at the bottom of the redo stack that a
  cancelled drag or a failure has left there; and if there are such edits, one
  edit above them does not meet its document, so that the property's premise is
  false.
* `GroupsStayWhole`: `MaxLength = -1 /\ ~MayFail => (Spec => []GroupsWhole)`, and
  `GroupsAreThere`, the same for `GroupsAreOnTheirStack`, which a bounded stack
  violates (`MCUndoEviction`). `GroupsInv` cuts each stack in two: up to the cut
  every group is whole and its top holds its size (`Whole`), above the cut there
  is one operation and nothing else (`Run`), and no operation is below the cut of
  both stacks (`Apart`). Reading the size of a group opens the cut (`Opened`),
  each move shifts one action over it (`Shifted`), and the size that the last move
  writes closes it (`Closed`).

`RecordingProofs` proves, for any number of tracks and automation tracks, any size
of the pool, any number of operations of the user and any set of ways in which a
cycle is split into segments:

* `RecordingInvariance`: `Spec => []IInv`;
* `TypeCorrect`: `Spec => []TypeOK`, which says that every event of the pool is
  free, in the queue or being handled;
* `FlagsAreAnswered`: `Spec => []FlagsAnswered`.

`IInv` adds `ThreadsInv`: while the GTK thread handles a stop it holds its event,
and only the last of the recordings comes to make the action; a call on an audio
thread that is about to read `recording_stop_sent` has nothing left to send. A
processor marks a start and sends it in one step (`MarksAnswered`), and an event
that is marked stays in the call, the queue or the hands of the GTK thread until a
step of that thread answers it (`PendingKept`). That what a call sends has the
start of every automation track that starts is an induction over the list of
automation tracks (`FlattenProperties`), by way of the least number that fails
(`LeastNatural`). Assumption: a project has finitely many automation tracks.

Only model-checked: all liveness, which is beyond the proof system.

## 5. Not modelled, and the plan

Candidates for further work, in this order:

1. `GraphBuild`: connect, initial and terminal lists, `is_valid` against the
   definition of acyclicity over all small graphs, latencies against longest paths;
   validation leaves no trace.
2. `Transport`: loop arithmetic at its C width.
3. Activation and deactivation of the engine, changes of the buffer size, and
   its event queue, in `EngineControl`.
4. Tracks that are deleted while they record; two tracks in `Recording`.

Not planned: signal processing (numeric), plugin hosting, audio backends, GTK
widgets and the GUI's events, file formats and schemas (input and output, or
external libraries), and the individual undoable actions, whose effect is spread
over the whole project tree. Vendored code in `ext/` and generated plugins in
`data/` are no part of the program's own logic; they are most of the
repository's lines.
