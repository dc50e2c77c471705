# TLA+ models of Open|SpeedShop's command execution

These modules model the concurrent core of the Open|SpeedShop CLI and the
framework pieces it drives, translated from the sources under `src/`.  Each
module says in its header which functions it models; `PROJECT.json` maps
every definition to the lines it translates.

## The system

| Part | Source | What it does | Concurrency |
|---|---|---|---|
| CommandDispatcher | `src/pcli/SS_Cmd_Execution.cxx` | The input thread hands each parsed `CommandObject` to `SS_Execute_Cmd`. That function queues it on `EXT_Dispatch` and wakes or creates a worker pthread, up to `EXT_MAX`. Workers (`Cmd_EXT_Create`) pick commands in FIFO order behind the `Ready_for_Next_Cmd` gate, run them through `Cmd_Execute`, and reopen the gate. `SafeToDoNextCmd` lets the next command start early. `Wait_For_Previous_Cmds` waits for every other worker to go idle. An exit command purges the queue, and its worker waits for the others to leave before setting `Shut_Down`. | One mutex (`Cmd_EXT_Lock`) and two condition variables (`Cmd_EXT_Dispatch`, `Waiting_For_Cmds`) shared by the input thread and up to 20 workers. |
| ExperimentReservation | `src/libopenss-cli/SS_Exp.hxx`, `CommandObject.hxx` | Commands on one experiment are serialised by `Q_Lock`/`Q_UnLock`. The `exp_reserved` flag marks the holder, and a waiting command sits on `waiting_cmds`, asleep in `Wait_On_Dependency` until `All_Clear`. `CanExecute` probes with `TS_Lock`. | `Experiment_Lock` is shared by all workers running commands on that experiment. |
| CommandResult values | `src/libopenss-cli/CommandObject.hxx` | Result cells: accumulation, ordering, `Calculate_Percent`. | Sequential. |
| ViewEngine | `src/libopenss-cli/SS_View_output.cxx` | Builds report rows from view instructions, temps and a summary row, and checks for cancellation. | Runs in a worker and reads the command's status. |
| DataIngestion | `src/libopenss-framework/cbtf/Callbacks.cxx` | Callbacks that write threads, linked objects, address spaces and symbols into the experiment database. | One delivery thread per connection. Isolation comes only from database transactions. |
| Process | `src/libopenss-framework/dpcl/Process.cxx` | The process state machine (`changeState`, `completeStateChange`, `terminateNow`) driven by DPCL callbacks, plus library reference counts. | DPCL callback thread and command workers. |
| ExperimentRegistry | `src/libopenss-cli/SS_Exp.hxx` | The `ExperimentObject` constructor numbers the experiment, picks and creates its database file and puts it on `ExperimentObject_list`. The destructor takes it off and removes a generated database. | `Experiment_List_Lock` is shared by the command threads of one CLI. The working directory is shared with other CLI sessions. |
| PCSamp collector | `src/plugins/collectors/pcsamp/PCSampCollector.cxx` | Keeps `sampling_rate` in an XDR parameter blob. Starts and stops sampling in a thread. `getMetricValues` turns a blob of sampled PCs into CPU time per subextent (function and time interval). | Called by the framework. The blobs of a thread may be read in any order. |
| GUI panels, help, example tool, runtime DSO info, MPI wrapper, CUDA detail, Queries | various | Presentation, I/O or declarations. | None of interest. |

How the parts interact:
- A command handler running in a dispatcher worker takes an experiment's reservation with `Q_Lock(cmd, true)`.
- That call also calls `SafeToDoNextCmd`, so the next command may start. Experiment_Lock is taken first, then Cmd_EXT_Lock.
- The handler then drives `Process` objects and reads what the ingestion callbacks wrote.
- `expCreate`/`expRestore` handlers construct an `ExperimentObject` (Registry), and `expClose` destroys it.
- `Process::execute` passes the PCSamp start arguments (an XDR blob) to the probe through `encodeBlobAsString`.
- `expView` runs `Construct_View_Output` (ViewEngine) in a worker. An `expClose` or exit from another worker may abort it.

## Modules

Every module has an `MC_` module that gives its constants values for TLC.
Each `.cfg` file is one run. `PROJECT.json` lists the runs, the mutants that
show each property can fail, the findings and the hazards.

### `ExpLock`: the experiment reservation
`ExpLock` models `Q_Lock`, `Q_UnLock`, `TS_Lock`/`CanExecute`, `Wait_On_Dependency` and `All_Clear`. Its state:
- `mutexHeld`: Experiment_Lock;
- `reserved`: `exp_reserved`;
- `waiting`: `waiting_cmds`;
- `pc`: where each command thread is.

Modelling choices:
- Each thread issues commands against the experiment one after another, and returns to `idle` after each.
- A step inside a critical section does not re-test `mutexHeld`, because the code does not. This is how the double unlock on Q_Lock's waited path shows up. Unlocking a default glibc mutex that another thread holds releases it, and the model takes that outcome of the undefined behaviour.
- A signal reaches a command only while it is inside `pthread_cond_wait` (pc `queued`). Otherwise the signal is lost.
- The constant `Spurious` lets `pthread_cond_wait` return without a signal, which POSIX allows.
- Fairness is weak fairness on each thread's steps inside Q_Lock, Q_UnLock and Wait_On_Dependency. Starting a new command is not required, because the user may stop typing.

Runs (`MC_ExpLock`, three command threads):
- `ExpLock_spurious.cfg` (violation, 6 states): `WaitersAreBlocked` fails with spurious wakeups. `Wait_On_Dependency` calls `pthread_cond_wait` once, with no predicate loop. So a command returns from it while it is still on `waiting_cmds` and holds the reservation together with the command that had it. The `All_Clear` sent to it later is lost. With `Spurious = FALSE` the property holds (1436 distinct states).
- `ExpLock_MutualExclusion.cfg` (violation, 12 states): a woken waiter sets `exp_reserved` without re-testing it. If `TS_Lock` took the reservation in between, two commands hold it.
- `ExpLock_NoStrandedWaiter.cfg` (violation): the second unlock in Q_Lock releases the mutex that another thread's Q_Lock holds. A Q_UnLock then runs in between and pops nothing, and a command queued afterwards waits with no one left to pop it.

### `Dispatcher`: the worker pool
`Dispatcher` models `SS_Execute_Cmd`, the worker loop, `Cmd_Execute`, `SafeToDoNextCmd`, `Wait_For_Previous_Cmds`, `Purge_Dispatch_Queue`, `Wait_For_Others_To_Terminate` and the exit path.

Its variables are the file's statics. It also keeps, for each command:
- its `Command_Status`;
- whether `Cmd_Obj_Complete` was called.

and for each worker:
- where it is;
- the command it picked up;
- its `this_cmd_is`;
- whether its command has called `SafeToDoNextCmd`.

Modelling choices:
- Every access to the statics happens under `Cmd_EXT_Lock`, so each critical section is one step. The exception is the exit worker's unlocked `EXT_Allocated--`, which is split into a load and a store.
- A new thread starts with the submitter's lock held, so its first loop iteration is part of the submitting step.
- Condition waiters are worker states, and a signal with no waiter is lost.
- `Assert(Cmd_Waiting)` failing aborts the process (`Crashed`).
- `Halted` stutters only when the CLI has really stopped.
- Command handlers are outside `src/`. A handler is a nondeterministic choice of the pool calls it may make: `Wait_For_Previous_Cmds`, then `SafeToDoNextCmd`, ending in `Complete` or `Error`. An exit handler calls `Purge_Dispatch_Queue` and does not reopen the gate.

Fairness is weak fairness on each worker. Every critical section is short and ends. The input thread is not fair.

Runs (`MC_Dispatcher`, EXT_MAX = 3, three commands, one of them an exit):
- `Dispatcher_pool.cfg` (pass): `SerializedStart`, `CountersMatchWhileRunning`, `WaitPrevReturns`, `QueuedCommandsComplete` and `ExitShutsDown`. EXT_MAX is 3 so that `Wait_For_Others_To_Terminate` really waits. Deadlock checking is off because the CLI stops when its input ends. A hang leaves a leads-to property unsatisfied.
- `Dispatcher_NoAssertFailure.cfg` (violation): `Assert(Cmd_Waiting)` fails. An idle worker woken before the purge decrements `EXT_Allocated` while the exit command still runs.

`SubmittedCommandsComplete` (spec 7: every submitted command ends) is violated when `pthread_create` fails or a command is submitted after Terminate. It is kept in the module and listed as a hazard.

Spec 4.2 says the exit worker signals end-of-stream after all other workers have exited. The code stops waiting at two workers ("me and one to wake me up"). With the invariant "all others gone when `Shut_Down` is set", TLC finds a counterexample in 14 steps: an older command that called `SafeToDoNextCmd` is still executing, so `Shut_Down` is set while it runs. The exit worker's unlocked `EXT_Allocated--` can also lose the last other worker's decrement: TLC reaches a state where every worker has left and `EXT_Allocated` is 1. Nothing reads the counter after `Shut_Down`, so both are recorded as hazard notes rather than runs.

### `Process`: the DPCL process state machine
`Process` models one `Process` object of `dpcl/Process.cxx` and the real process behind it. Its state:
- `current`, `changing`, `future`: `dm_current_state`, `dm_is_state_changing`, `dm_future_state`;
- `alive`: the object is in the ProcessTable;
- `real`: the state of the real process;
- `requests`: DPCL requests not yet applied (in order);
- `acks`: `stateChangedCB` deliveries pending;
- `termMsg`: a pending `processTerminationCB`;
- `refs`, `loaded`, `holds`: library reference counts, loaded probe modules and the collectors holding them;
- `aborted`: which Assert fired, if any;
- `los`, `functions`, `spaces`: the thread database's `LinkedObjects` (by path), `Functions` (one batch per linked object, as a position) and `AddressSpaces` (`lo`, `begin`, `end`) tables;
- `updates`, `history`: the number of `updateAddressSpace` calls (the k-th runs at time `when = k`, `TheEnd` is `MaxUpdates + 1`), and the module set each one saw, kept only for the properties;
- `args`: the pairs <<blob, string>> that `execute` has passed to DPCL. A blob is a sequence of byte values.

Actions:
- `ChangeState`, `LoadLibrary`, `UnloadLibrary` and `Execute` are command threads' calls. Each is one step under `Guard(this)`.
- `Execute(c, l, a)` passes the argument blob `a` (one of the constant set `Args`) as the string `EncodeBlobAsString(a)`. Like the code, the encoding maps 0x00 to 0xBA, doubles 0xBA and passes other bytes through.
- `Destroy` is `~Process`.
- `ApplyRequest` is DPCL applying a request to the real process.
- `ProcessExits` is the process exiting on its own.
- `UpdateAddressSpace` is `updateAddressSpace(thread, when)` with the `processSymbols` it calls, as one transaction. The modules are the executable and the loaded probe libraries (`Modules`). It chooses `time_begin` (`TimeBegin`: TheBeginning when the thread has no rows, else `when`), closes every open space at `when`, inserts a `LinkedObjects` row and a symbol batch (`ProcessSymbols`) for each path not yet present (`KnownPath`), then opens a space per module. It calls `bexpand` (asserted) when it parses anything. The SymbolTable built from DPCL's module objects is abstracted: a module is a model value.
- `StateChangedCB` and `ProcessTerminationCB` are the main loop's callbacks, which call `completeStateChange` and `terminateNow`.
- `StateChangedCB` looks the process up by the name its tag points to. `changeState` passes `name.c_str()` of a local `std::string` (lines 487-489), and that string is freed when `changeState` returns. So the callback reads freed memory at line 119. The model takes both outcomes: the bytes still spell the name and the lookup succeeds, or the lookup fails and the acknowledgement is dropped (lines 136-137). `Assert(retval->status() == ASC_success)` at line 125 is left out, because every request of the model succeeds.

Fairness is weak fairness on DPCL applying requests and on the two callbacks. The daemon and the main loop keep running. Command threads are not fair.

Runs (`MC_Process`, two collectors, one library):
- `Process_states.cfg` (pass, `MaxUpdates = 3`): `CompleteAssertHolds` (it holds even when acknowledgements are dropped), `LibraryRefsMatch` and `TerminatedIsFinal`.
  - `AddressSpaceHistory`: at each update time `n`, the spaces covering `n` are exactly the modules the n-th update saw. This needs the first update to start at TheBeginning and every later one to close the old rows at the very time it opens the new ones.
  - Three updates are enough for a library to be present, then absent, then present again.
- `StateCatchesUp` (getState() agrees with the real process once DPCL has delivered everything) is stated but not a run. Because of the dangling tag, TLC violates it under `Process_states.cfg`'s constants in 4 states: a suspend is applied, its acknowledgement is dropped, and `dm_current_state` stays `Running` with `dm_is_state_changing` set for good. From then on, every `changeState` throws. The hazard list records it.
- `Process_DestroyLeavesRunning.cfg` (violation): `~Process` tests the lagging `dm_current_state`, so a process whose suspend is applied but not acknowledged stays suspended.
- `Process_DPCLAssertsHold.cfg` is not a run in `PROJECT.json` (its slot checks PCSamp). TLC violates `DPCLAssertsHold` with it: the process exits before `processTerminationCB` arrives, and the next asserted DPCL call aborts the tool. The hazard list records it.
- `Process_ArgumentsDecodable.cfg` (violation): `Args` holds the XDR encodings of the sampling rates 100, 186 and 0x00BA0000. Both `00 00 00 BA` and `00 BA 00 00` encode to `BA BA BA BA BA`, so the encoding the comment calls "easily reversed" is not injective. The passing runs use the single default argument (rate 100).

### `PCSamp`: the PC sampling collector
`PCSamp` models `PCSampCollector.cxx`. Its state:
- `params`: the collector's parameter blob, as bytes. `XdrUnsigned` is the big-endian `xdr_u_int` encoding.
- `sampling` and `hooks`: the rate each thread's `pcsamp_start_sampling` ran with, and the threads with the exit hook.
- `values` and `read`: the caller's vector of "time" values, one per subextent, and the blobs read so far.

Actions:
- `SetRate`: `setParameterValue` decodes the blob, sets the field and re-encodes it.
- `StartCollecting`: hooks the stop at `exit()`, then starts with the rate `getParameterValue` decodes.
- `StopCollecting`: runs the stop and removes the instrumentation.
- `GetMetricValues(b)`: one call per blob, in any order. For each sample it finds the subextents that meet the blob's interval and hold the PC (`Intersection`). It adds to each of them `count * interval / 1e9` seconds times `t_intersection / t_blob`.

The doubles are exact rationals (`Q`, `QAdd`), so the model leaves out rounding. The Instrumentor calls behind `executeNow`, `executeAtEntry` and `uninstrument`, and the database reads that produce the blobs, are outside `src/`.

Run (`MC_PCSamp`, two threads, two blobs `[0,2)` and `[2,3)`):
- `PCSamp_metric.cfg` (pass): three subextents tile the blobs. One function holds `[0,4)`. A library function holds `[4,8)` in two address spaces, `[0,1)` and `[1,3)`, so a sample of the first blob is split between them. One sample lies at address 4, on a range boundary.
  - `TimeConserved`: whatever order the blobs are read in, the values add up to exactly the sampled time. A closed address range (`HoldsClosed`) counts the boundary sample twice.

`MC_PCSamp` assumes `Tiles`. Outside it the proration loses time: a sample in a library loaded part-way through a blob is credited only the covered share. A blob of zero width meets no subextent, and TLC violates `TimeConserved` when one is added. Both are listed as a hazard.

### `Ingestion`: the database-writing callbacks
`Ingestion` models `createdProcess`, `attachedToThreads`, `loadedLinkedObject`, `linkedObjectGroup`, `symbolTable`, `addressBuffer` and `linkedObjectEntryVec` of `cbtf/Callbacks.cxx`. The tables `Threads`, `LinkedObjects`, `AddressSpaces`, `Functions` and `Statements` are sequences, and a row id is a position. A `SELECT` loop keeps the last match.

`unloadedLinkedObject` and `threadsStateChanged` lie inside `#if 0` (lines 998-1187) and are not compiled. So a dlclose never closes an address space. The only step that does is the final `UPDATE ... WHERE time_end = TheEnd` of `addressBuffer`.

Modelling choices:
- Each thread's connection delivers its messages in order, and connections interleave. One handler, inside its write transaction, is one step.
- `mode` is chosen at the start, from `Modes`. In `symtab` mode each thread sends the symbol table of every object it reports. In `abuf` mode the aggregator sends one address buffer, and `addressBuffer` resolves symbols for the linked objects of the recorded threads that hold a sample (`Sampled`). Functions already in the static `allfuncs` are filtered out, and the open address spaces are closed.
- In `offline` mode each thread's connection only attaches it. The aggregator's place is taken by one entry vector, naming the executable and the library of every thread. `linkedObjectEntryVec` skips each entry whose thread is not found. For the others it inserts the linked object when absent, and an address space whose end is the entry's own. The offline reader that attaches the threads is outside `src/`, so that part follows the shape of the online path.
- `BufferLast` makes the buffer (or the entry vector) come after every thread message, as the comment at line 497 assumes.
- A message already handled may be delivered again, up to `MaxRedeliver` times, if its type is in `Redeliverable`.
- Addresses are abstracted to the linked object whose range holds them, and times to open or closed.

Runs (`MC_Ingestion`, two threads, the executable and one sampled library):
- `Ingestion_store.cfg` (pass, all three modes, symbol tables redelivered):
  - `StoreKeysUnique`: natural keys stay unique.
  - `ThreadsResolved`: each attached thread has exactly one row.
  - `StoreKeysUnique` covers the orders of the threads' messages after `createdProcess` (`LauncherFirst`) and the redelivery of symbol tables. It does not cover every order and repetition.
- `Ingestion_LoadedIdempotent.cfg` is not a run in `PROJECT.json`. When `loadedLinkedObject` may be redelivered, TLC violates `LoadedIdempotent`: the redelivery inserts a second `AddressSpaces` row, against spec 8's idempotent replay. The hazard list records it.

`SpacesOpenUntilBuffer` and `EntriesRecorded` are stated in `Ingestion.tla` but no run checks them. Under this run's constants (`BufferLast`, only symbol tables redelivered) they follow from the definitions, so they would show nothing. The orders where they matter fail:
- If the buffer may come before a thread's messages (`BufferLast = FALSE`), or a linked-object message is redelivered after it, TLC violates `SpacesOpenUntilBuffer`. An address space inserted later stays open for good.
- With `BufferLast = FALSE`, TLC also violates `EntriesRecorded` (without its `BufferLast` premise). The entry vector is handled while a thread is not yet attached, and that thread's entries are skipped for good.

These are recorded in the hazard list, not as runs.

### `ViewEngine`: building a report
`ViewEngine` models `Construct_View_Output` of `SS_View_output.cxx` and the `CommandResult` operations it calls from `CommandObject.hxx`: `Calculate_Percent` and `Accumulate_CommandResult`. Its state:
- `items`: the items still to be shown;
- `total`: the totals temps;
- `output`: the rows built so far, ending with the `Enders` summary row or a no-data row;
- `summaryTemp`: the summary accumulators;
- `k`: the row index;
- `pc`: where the loop is;
- `status`: the command's status, which another thread may set to aborted at any point.

One row of the loop is one step (`RowStep`). It includes building every cell, accumulating the summary, and moving or reclaiming temps. `Cell` and `SummaryCell` are recursive operators, because a percent-of-column cell refers to another column.

Runs (`MC_ViewEngine`: a metric column, a percent of a temp over the total, two temps, a percent of column, Add and Min accumulation, and a summary):
- `ViewEngine_report.cfg` (pass): up to three rows of two temps with values {1, 5}, and totals {0, 4}. The total 0 is there for the zero denominator.
  - `SummaryReflectsRows`: the summary row equals a reference fold of all the rows, with percents computed as the specification's percentOf.
  - `SingleOwner`: no temp of an item ends up in two places (a cell, the summary or the reclaimed set).

### `Registry` and `ExperimentIds`: experiment objects and their databases
`Registry` models the `ExperimentObject` constructor and destructor. Its state, for each CLI process:
- `save`: `OPENSS_SAVE_EXPERIMENT_DATABASE`;
- `seq`: `Experiment_Sequence_Number`;
- `lock`: `Experiment_List_Lock`;
- `list`: `ExperimentObject_list`.

Shared between processes:
- `files`: the database files in the directory;
- `objs`: the objects constructed so far.

The constructor holds the lock throughout. It is split at the file-system operations:
1. `CtorStart`: the number and the name. The name is probed in the working directory when saved, made by `createName` otherwise, or given by a restore.
2. `CtorCreate`: `Experiment::create`, which fails if the file exists.
3. `CtorOpen`: opening the experiment, which fails if the file is missing, then `push_front` and the unlocks.

The destructor is `DtorStart` (list removal under the lock) followed by `DtorFinish` (removing a generated database).

Runs (`MC_Registry`: one process, two command threads, two experiments, two probe names, and leftovers `X1.0`, `X1.1` and `X2.0` from earlier sessions, so the probe loop can both skip a name and fall back to `createName`):
- `Registry_store.cfg` (pass):
  - `ListedAreOwn`: a listed experiment has a nonzero, distinct id and works on its own or a restored database.
  - `StoreLifetime`: a live experiment's database exists, and after the destructor a database is gone exactly when its name was generated.

  - `IdsRefined`: the detailed steps implement the abstract specification `ExperimentIds` (spec 2: identifiers are drawn from a monotonic counter under a global lock, and none is listed twice while the process lives). The refinement mapping sends `next` to `Experiment_Sequence_Number`, `listed` to the identifiers on `ExperimentObject_list`, and `used` to the identifiers of every object that was ever listed. `CtorStart` is `Allocate`, a successful `CtorOpen` is `Register`, `DtorStart` is `Unregister`, and the other steps stutter. A constructor that does not wait for `Experiment_List_Lock` breaks it: a second draw comes between the first constructor's draw and its listing.

With two processes (`Procs = {p1, p2}`), TLC violates `ListedAreOwn` in 6 states: both probe `X1.0`, the second `Experiment::create` fails, and the following open succeeds on the first session's file. This is listed as a hazard.

## Bounds
- Three commands, one of them an exit, and three workers give a queued command, a running one and an exit in flight at the same time. Four commands with liveness take more than five minutes.
- Three command threads for ExpLock give a holder, a waiter and a barging `TS_Lock`.
- Two collectors on one library exercise the reference count going 0→1→2→1→0.
- Two threads for Ingestion give interleaved connections on one shared store.
- Three report rows reach a summary that combines unequal values and percents with a zero total.
- Two experiments per process with two probe names reach probe exhaustion.
- Two PCSamp blobs, read in either order, with a sample on a range boundary and one split by time, reach every branch of `getMetricValues`. Blob widths of 1 and 2 ns keep the rationals (denominators up to 2e9) inside TLC's integers.

## Not modelled
- GUI panels (Qt layout), `help.cxx` (text output) and the example tool.
- `OpenSS_GetDLInfo.c` (parsing `/proc` maps), the MPI wrapper and the CUDA detail class. These are pure I/O or plain data.
- The redirect-file branch of `Cmd_Execute`. `new ofstream` never returns NULL, so it is dead code.
- `performanceData` (queues a blob to `DataQueues`, outside `src/`) in Ingestion. In Process, the getters and the building of the SymbolTable from DPCL module objects (an address range and a path per module).
- In `symbolTable`, the null database of a closed experiment (`getDatabase(0)` lives in `DataQueues`, outside `src/`, and experiment closing is not composed with Ingestion).
- `Display_Average_Tmp` and `Display_StdDeviation_Tmp`, whose arithmetic is not in `src/`.
- `RenameDB` and `CopyDB`, whose framework calls are not in `src/`.
- `linkedobjectvec`, the namespace-level vector `loadedLinkedObject` appends to without a lock (`Callbacks.cxx:689`). Nothing reads it, so a race on it corrupts memory rather than the database. The hazard list records it.
