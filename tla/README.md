# A verification of kodegen-server-http

This directory holds TLA+ models of the HTTP server library in `src/`, the TLC
configurations that check them on small instances, and proofs, checked by
TLAPS, of the properties that matter most. `PROJECT.json` maps every definition
to the source lines it stands for.

## The system

The library runs one HTTP or HTTPS server of MCP tools inside a tokio runtime.

| Component | State | Operations | Correct when |
|---|---|---|---|
| **Managers** (`managers.rs`) | a `Mutex<Vec>` of shutdown hooks | `register`, `shutdown` | hooks stop once each, last registered first; none of the snapshot is left out; the result says what happened; the shutdown ends although hooks hang |
| **Server lifecycle** (`server.rs`, `serve_with_tls`, `serve_with_listener`) | cancellation token, server task, connection tasks, `active_requests`, oneshot channel | accept, handshake, `RequestGuard`, monitor task (select, await, drain, managers, signal), `ServerHandle::{cancel, wait_for_completion}` | the counter is the number of guards; the drain ends, and at zero means idle; the handle tells the truth |
| **Tool calls and deletes** (`server.rs`, `call_tool`, `handle_connection_delete`) | progress of each handler | track in the history and the usage tracker; remove from both | the two tables agree once quiet; a deleted connection is forgotten |
| **UsageTracker** (`usage_tracker.rs`) | a table of statistics, a channel, a file | `track_success`, `track_failure`, `remove_connection`, `save`, `shutdown`, a timer, a background task | counters add up; the file is never half written; every update is saved in the end; no save takes a count back |
| **ToolHistory** (`tool_history.rs`) | a cache of the last 1000 records of each connection, a write queue, a file | `track_call`, `get_recent_calls`, `remove_connection`, flush, rotation | records reach the file, once; the queue and the cache agree; rotation keeps the newest |
| **Endpoints** (`server.rs`) | none of their own | `/mcp/health`, `/mcp/stats`, `/mcp/history`; `get_recent_calls_for_connection` | a connection with a history has stats; a page is the window that was asked for |
| **Shutdown timeouts** (`server.rs`, `managers.rs`, `cli.rs`) | the clock | the waits of the monitor and of the handle | the shutdown ends in time; only a share that was used up makes the answer a timeout; the documented shares hold |
| **Startup and run loop** (`lib.rs`, `server.rs`) | how far `run` or `serve` has come | create, register, listen, spawn; signal, cancel, wait | what a failed start leaves behind is known; a signal ends `run`; Ok means every hook was settled |
| **Memory monitor** (`monitor.rs`, `memory.rs`) | the last snapshot | sample, warn, stop | growth is reported, however slow; it ends with the server |
| **Registration, command line** (`registration.rs`, `cli.rs`) | none | build routers, parse options | not modelled, see below |

How they interact:

- The owner of the `ServerHandle` cancels the token, or drops the handle. The
  accept loop and the monitor task watch the token.
- The monitor waits for the server task, polls the counter that connections and
  calls move, runs `Managers::shutdown` inside itself and sends on the oneshot
  channel that the handle awaits.
- `call_tool` and `handle_connection_delete` send to the channels of the two
  trackers and never wait. Each tracker's background task applies the updates.
- The usage tracker's timer sends to the same channel as the handlers.
- `run` and `serve` create the trackers and the hooks, then
  `serve_with_listener` spawns the memory monitor, the server and its monitor.
  `run` keeps the handle and waits for a signal; `serve` gives it to its caller.
- The memory monitor watches the same token as the server.

What is hard here: a counter read at one moment and trusted at a later one; two
branches of a `select!` ready at once; hooks that hang or panic; two channels
fed in opposite orders; a save interrupted by a crash or a failure; tasks that
hold their own channel open; waits that add up to more than was granted; a step
of the start that fails after another has spawned a task. The list, with lines,
is under `hazards` in `PROJECT.json`.

## The modules

| Module | Models | Kind |
|---|---|---|
| `Managers` | `managers.rs` | component |
| `ManagersProofs` | theorems about `Managers` | proofs |
| `Lifecycle` | what a server promises the owner of its handle | abstract specification |
| `Shutdown` | the server lifecycle; its monitor runs the actions of `Managers` | composition |
| `ShutdownProofs` | theorems about `Shutdown`, with the lemmas of `ManagersProofs` | proofs |
| `ShutdownBudget` | the waits of a shutdown, with a clock; shown to implement `Lifecycle` | component |
| `ShutdownBudgetProofs` | theorems about `ShutdownBudget` | proofs |
| `MemoryMonitor` | `monitor.rs` | component |
| `ServerRun` | `run` and `serve` of `lib.rs` over `Shutdown` and `MemoryMonitor` | composition |
| `ServerRunProofs` | theorems about `ServerRun` | proofs |
| `TrackerTable` | the channel of a tracker and its table of connections | abstract specification |
| `TrackerLemmas` | induction over the indices of a sequence, `Filter`, and how a table will end once its channel is empty | proofs |
| `Filter` | the wanted elements of a sequence, as a recursive function that can be proved about | algorithm |
| `TrackerService` | a `TrackerTable` that may be shut down, die and be started again: what both trackers promise | abstract specification |
| `CallTracking` | `call_tool`, `handle_connection_delete`, `handle_stats` and `handle_history` over two `TrackerTable`s | composition |
| `CallTrackingProofs` | theorems about `CallTracking` | proofs |
| `UsageTracker` | `usage_tracker.rs`, shown to implement `TrackerService` | component |
| `UsageTrackerProofs` | theorems about `UsageTracker` | proofs |
| `ToolHistory` | `tool_history.rs`, shown to implement `TrackerService` | component |
| `HistoryPage` | the pages of `get_recent_calls_for_connection`, as operators | algorithm |
| `ToolHistoryProofs` | theorems about `ToolHistory` and the pages of its caches | proofs |
| `MC*` | a module to run TLC on, with a symmetry set where it is sound | instances |

Operators named `Action_Variant` are plausible wrong versions of `Action`. They
are unused by the specifications; substituted for the action they name they
break a property, and so show that the property depends on it.

### Managers

`shutdown_hooks` is the Vec, with a state per hook in place of the hook;
`count` and `next` are the locals `count` and `i` of `shutdown()`, with indices
from 1. Each access under the lock is one action, so `Register` interleaves
wherever the code has released it. `StartHook` ends at the await; `HookOk`,
`HookErr`, `HookTimesOut` and `HookPanics` are the ways the await ends. The hooks
themselves are outside the repository, so each of them may end in any way, or
never.

### Shutdown and Lifecycle

`tls` says which of the two branches spawned the server task, and `Init` allows
both; `serve_with_tls` and `serve_with_listener` are otherwise the same. A connection
is accepted, over TLS shakes hands in a task that nothing cancels, and is then
served; its guard, over TLS only, lives for as long as it is served. A call is
queued by rmcp in the session of its client, which outlives the connection, and
counts from `BeginCall`. The monitor's position is `monitor`; `drained` and
`early_exit` remember how the drain and the `select!` ended. The hooks run by
`M == INSTANCE Managers`. Time is abstracted: whenever a wait has a timeout, the
timeout may win. `wait_for_completion` consumes the handle, so no cancel follows
it.

`Lifecycle` has a server that is up, stops its hooks, and is down or lost. The
mapping takes `life` from the monitor, the token and the server task, `pending`
from the unsettled hooks and `answer` from the handle. It allows hooks to stop
while the clients are still connected: that is what the code does after a
timeout, and also after a late call.

### ShutdownBudget

`Shutdown` lets any timeout fire at any moment, which proves what does not depend
on time. `ShutdownBudget` is the other half: it keeps the waits of the monitor
and of the handle and gives them a clock in seconds, started by `cancel`.
`since` is when the wait under way began, so `elapsed` is what the code compares
with `server_shutdown_timeout`, `drain_timeout` and `PER_MANAGER_TIMEOUT`. The
clients are a number of active requests that goes up and down. `Tick` may not
pass a second in which something is `Due`: tokio polls a task whose timer has
fired, and the drain loop looks ten times a second. `awaited` and `cleaned`
measure the two phases that `cli.rs` speaks of. `mul_f32(0.7)` and
`mul_f32(0.3)` are taken to be seven and three tenths; they are off by less than
a microsecond.

### ServerRun and MemoryMonitor

`stage` is the line of `run` or `serve` that has been reached, and `mode` which
of the two it is. Each `?` is a `Fail` to the stage "failed", with the step in
`failure`: the fields of the builder and the command line (`CheckBuilder`), the
configuration (`InitConfig`), the tools, the listener. Of the trackers, which
`CreateTrackers` makes in between, only `trackers` is kept: their `new()` spawns
three tasks, and nothing ends them before the process does. So a start that
fails later under `serve` leaves them in the caller's process, and
`FailedStartLeaves` says so: the tasks of the trackers from their creation on,
the memory monitor exactly after a bad certificate, and nothing of the server.
`serve_with_listener` awaits nothing, so it is one action, with its
two failures apart: the address, before anything is spawned, and the
certificate, after the memory monitor was. From there on the actions of
`S == INSTANCE Shutdown` run: `run` moves the handle itself, the caller of
`serve` does so by `OwnerStep`. A signal before the handlers are installed kills
the process; when `run` returns the process is gone, with its tasks (`Exited`).

`MemoryMonitor` compares a sample with `last_snapshot`, which moves only when a
growth is reported. `reported` is a history variable with the same purpose as
the first sample and the last report: `LeakIsReported` measures the growth from
there, and would notice a baseline that follows the samples.

### TrackerTable, TrackerService and CallTracking

A table is the set of the connections that have an entry; an update adds or
removes one. `CallTracking` has one instance for each tracker. A handler's two
sends are two actions, since handlers run on several threads. `overlap` is a
history variable: it says whether a call is clear of the deletes of its
connection, under way during one, or begun after one. A tool that panics, a
dropped call and a call without the connection header end by `EndUntracked`.
`handle_stats` and `handle_history` are the answers of the two endpoints.

`TrackerService` adds to a table that the tracker may be closed, die with the
updates that were queued, and come back with what its file held.

### UsageTracker

`channel` is the unbounded mpsc channel and `stats` the DashMap; a save runs in
the background task in three steps, each of which may fail, and blocks it. A
crash is the death of the process; writes that have returned survive it, and a
half-written file is `Torn`. `load_from_disk` reads a missing or torn file as an
empty table, as the code does, and `Restart` may also fail to read a whole one,
which the code takes for an empty table too.

For one call the code reads the wall clock when it makes the entry (line 55),
for the instant it stores (283 or 328) and again inside `is_new_session` (134).
Time passes between the readings, and `Utc::now()` may be set back, so each of
them is any instant: `created`, `read` and `asked` of `ReceiveCall`. No property
relates sessions to time. What holds of any clock is `AddsUp`: a call is a
success or a failure and opens one session at most, and the first call of a
connection may open a second. `first_used` is only reported and left out.

`given_up` is a history variable for `SavedCountsSurvive`: the connections whose
saved count may be given up at the next save, because they were deleted since the
last one or because a restart could not read the file.

The branch for a closed channel has no action: no reachable state closes it,
because the timer task owns a sender. `held` says whether anyone else still
does. A restart is a `new()` with the instance id of
an earlier tracker, as the public API allows; `ServerBuilder` puts the time and
the process id into the id, so a server it starts never finds an earlier file.

### ToolHistory

A record is its number in the order of `track_call`. `entries` and `write_queue`
are the two maps of the code; the background task is `processor`, with `batch`
and `taken` for `all_records`. `tokio::fs::File` is external and modelled by
what `write_all` promises: the bytes are handed over, the next `write_all` waits
for them and reports their failure, and dropping the file waits for nothing. So
`inflight` holds the writes under way, each on the open file, on one that was
dropped, or on one that a rotation has replaced. The steps of `rotate_if_needed`
are actions between which such a write may land. A restart reads the file or
fails to, and then starts with an empty cache. The `else` branch of the
`select!` has no action, since the interval branch always matches.

`HistoryPage` translates the arithmetic of `get_recent_calls_for_connection`, with
the offset an integer from `-OffsetLimit` to `OffsetLimit - 1`. Its filters are a set
of wanted records. `PagesAreWindows` checks it at every change of a cache, for
every offset but the smallest, whose negation overflows: a release build gives an
empty page for it (`SmallestOffsetGetsNothing`), a build with overflow checks
panics, and neither gives the tail.

Both trackers map to `TrackerService` by three named definitions: `Updates`, the
channel as the service sees it; `Listed`, the connections with an entry; and
`Status`, whether the tracker is open, closed or dead. The channel of the usage
tracker also carries requests to save, which `Updates` filters out.

## What TLC checks

| Run | Bounds | Shows |
|---|---|---|
| `managers` | 4 hooks | `LifoOrder`, `SnapshotShutDown`, `ResultIsHonest`, `EachHookOnce`, `ShutdownEnds`; the invariant of the proofs |
| `shutdown` | with and without TLS; 2 connections, 2 calls, 2 hooks | `ActiveCountsGuards`, `DrainMeansIdle`, `HandleIsHonest`; `ImplementsLifecycle` with its liveness; the invariant of the proofs |
| `shutdown_late_call` | 1 of each | a call runs while the hooks stop (`NoCallDuringManagerShutdown` is violated) |
| `shutdown_budget` | the default timeouts in seconds, 2 hooks, 2 requests | `EndsInTime`, `SharesSuffice`, `ImplementsLifecycle`; the invariant of the proofs |
| `shutdown_budget_buffer` | the same with 1 of each | the cleanup outlasts its share (`CleanupFitsBuffer` is violated) |
| `server_run` | 1 connection, 1 call, 1 hook; 3 amounts of memory and a threshold of 2 | `OkMeansStopped`, `FailedStartLeaves`, `SignalEndsRun`, `CancelStopsWatchers`, `LeakIsReported` |
| `call_tracking` | 2 connections, 2 calls, 2 deletes, symmetric | `HistoryImpliesStats`, `OrderlyDeleteForgets`; the invariant of the proofs |
| `call_tracking_dropped` | 1 of each | a call under way resurrects its connection (`DroppedConnectionForgotten` is violated) |
| `usage_tracker` | 2 connections, 2 updates, 2 messages when a save is asked for, 2 instants of the clock, timeout 0, 1 failure, 1 crash | `StatsAddUp`, `FileIsWhole`, `ShutdownSaves`, `SavedCountsSurvive`, `EverythingSaved`, `ImplementsTracker`; the invariant of the proofs |
| `usage_tracker_dropped` | 1 update | the task outlives its tracker (`DroppedTrackerStops` is violated) |
| `tool_history` | 2 connections, 3 records, room for 2 in the cache and 1 on disk, a check every 2 writes, offsets from -4 to 3, 1 removal, 2 failures, 1 crash | `WrittenOnce`, `QueueIsCacheTail`, `PagesAreWindows`, `RotationKeepsEnough`, `FlushedInTheEnd`, `ImplementsTracker`; the invariant of the proofs |
| `tool_history_rotation` | 3 records, limits of 1 | a rotation loses the newest record (`RotationKeepsNewest` is violated) |

Why the bounds are enough to be interesting. Four hooks give a hook before,
after and between failing ones, with registrations in the middle. Two
connections and two calls let one guard go while another remains, and let a call
begin on each side of the drain. Two calls and two deletes give every order of
four sends into each of two channels. Two updates give a connection two calls,
or a call and a removal; two instants and a timeout of zero let each call
find its gap above the timeout, at it or negative, whichever was stored before. One failure and one crash interrupt
each step of a save. Three records, a cache of two and a file of one fill the
cache, rotate the file and leave a record for a flush after the rotation; two
failures reach a write that fails and the one that has to report it, or a copy
that fails twice. Eight offsets hold every one that a cache of two tells apart,
and the smallest one. In `server_run` one connection, over TLS, is enough to
keep the drain from zero; three amounts of memory give a leak in two steps below
the threshold. The default timeouts make every order of the three phases and of
the answer possible: 26 s, 30 s and 20 s against 30 s.

Deadlock is not checked: a server that has stopped, a handler that has returned
and a tracker that has shut down have nothing left to do.

### Fairness

- `Managers`: the task in the loop is polled and its timer fires. A hook owes
  nothing, so only its timeout is fair.
- `Shutdown`: the monitor and the timers of its waits, and the wait of the
  handle. Clients, tool calls, hooks and the owner of the handle owe nothing; so
  the termination that `Lifecycle` asks for holds with a connection that never
  closes and a call that never ends.
- `ShutdownBudget`: time passes and what is due is done. Requests and hooks owe
  nothing.
- `ServerRun`: `run` and `serve` are polled, and the tasks as in `Shutdown`; the
  interval of the memory monitor ticks. No signal has to come.
- `UsageTracker`: the background task and the timer are polled; a file operation
  ends. The number of failures is bounded, so that a save succeeds in the end.
- `ToolHistory`: the background task is polled, the interval ticks, and a write
  that was handed over ends.
- `CallTracking`: none, since its properties are safety properties.

## What is proved

The theorems hold for every value of the constants, under the assumptions that
the modules name: finite sets of connections and calls in `Shutdown`
(`ShutdownAssumption`), any sets in `CallTracking`, a natural number of hooks,
any natural timeouts in `ShutdownBudget`, of which the budget divides by ten
(`BudgetAssumption`), a session timeout of any length and any sets of
connections in `UsageTracker` (`UsageAssumption`), any positive limits in
`ToolHistory` (`HistoryAssumption`), and for `ServerRun` those of `Shutdown`
with any amounts of memory (`RunAssumption`). The bounds on updates, failures
and crashes are constants too, so the theorems hold however many there are.

- **Managers.** None of the properties is inductive alone. `IInv` says how the
  loop index splits the hooks: those above it in the snapshot have settled,
  those below it and those registered later are untouched, and the one at it is
  up, stopping or the one that panicked. `LifoOrder`, `SnapshotShutDown`,
  `ResultIsHonest` and `EachHookOnce` follow.
- **Shutdown.** `IInv` joins four facts: the counter is the number of guards
  (by cardinalities of finite sets); only TLS shakes hands; the hooks follow the
  monitor, with `IInv` of Managers carried over from `ManagersProofs`; and the
  completion channel follows the monitor. `ActiveCountsGuards`,
  `DrainMeansIdle` and `HandleIsHonest` follow. `RefinesLifecycle` is the
  safety half of `ImplementsLifecycle`: initial states map to initial states
  and steps to steps or stutters.
- **CallTracking.** The properties speak of empty channels, which no step can
  use, so `IInv` states them of the tables as they will be: a connection ends
  present when the last update about it in the channel is an addition.
  `TrackerLemmas` shows that a send decides that ending and that applying
  an update never changes it. In `IInv` a connection whose history ends present
  has stats that end present or a handler between its two sends.

- **ShutdownBudget.** `EndsInTime` bounds a sum of waits that follow each other.
  `IInv` says of the wait under way by when it began, at the latest, as the sum of
  the bounds before it, and that it has not outlasted its own; the products with
  the number of hooks are lemmas (`HookTime`). The two phases add up to the
  clock, from which `SharesSuffice` follows. `RefinesLifecycle` is the safety half
  of `ImplementsLifecycle`.
- **ServerRun.** `FailedStart` rests on two facts: until its tasks are spawned the
  server is in its initial state and no sampler runs, and the tasks of the
  trackers run from their creation on. `RunsShutdown` shows that
  the server inside `run` and `serve` takes only the steps of `Shutdown`.
  `OkIsStopped` uses it to carry the invariant of `ShutdownProofs` over, through
  an instance of that module, and adds that `run` answers Ok only with the handle.
  `TypeCorrect` and `ImplementsLifecycle` come from the same invariant.
  `SampledLeakIsReported` shows that the baseline of the memory monitor is always
  what was last reported, so that a sample taken of a leak reports it; that the
  sample is taken, `LeakIsReported` checks.
- **UsageTracker.** A table read back after a crash must add up as the one in
  memory does, so `IInv` says so of every copy on its way: the table, the
  temporary file and the file. It also says that a rename puts the statistics of
  its moment in place, since the task takes no message during a save, and that the
  table has no less than the file of every connection not given up
  (`NoLessThanSaved`), so that replacing the file by the table takes nothing back.
  `CountersAddUp`, `NeverTorn`, `ShutdownKeepsStats` and `CountsSurvive` follow.
  A call is shown to add up for any three readings of the clock
  (`CountedAddsUp`, `FirstAddsUp`).
  `ImplementsService` is the safety half of `ImplementsTracker`. Its mapping
  filters the channel, so a message received or sent has to be shown to move the
  filtered channel by one update or not at all (`FilterAppend`, `FilterTail`).
- **ToolHistory.** The cache drops from its front, the queue is emptied by a flush,
  and a removal takes both away. `CacheAndQueueAgree` shows that one is always the
  end of the other; the induction is over the actions, with lemmas about suffixes
  of sequences that are appended to and cut.

  `NoneTwice` needs to know where a record can be before it is in the file.
  `IInv` says that it is in one place at most (`InOnePlace`): a queue, the batch,
  a write under way or the file. Those still in the channel are numbered in order
  and above all others (`ChannelInOrder`), so that a record received is a new
  one; a rotation's copy is as long as the limit and its records are still in the
  file when it replaces it (`RotationCopies`); and a task that has died has left
  nothing in memory (`DeadHasNothing`). `TypeCorrect` and `QueuesApart` need each
  other, because the batch is the queues one after another: it has no record
  twice, and so no more than there were calls, only if they share none.
  `RotationKeeps` and `ImplementsService`, the safety half of
  `ImplementsTracker`, follow. `EveryPage` proves `PagesAreWindows`, and more: the
  run checks two filters, the theorem states it in every state for any filter.
  `SmallestOffsetGetsNothing` says of the one offset it leaves out what a release
  build answers.

Induction over the length of a sequence does not need the induction theorems of
the library, which take an operator. A set of indices that is not empty has a
least one (`LeastNat`, from the well-foundedness of the natural numbers), so a
set that has the first index, and with each index the next, has them all
(`IndexInduction`). To use it the definition must expand to a recursive function:
`FlattenSeq` of the community modules does, the built-in `SelectSeq` does not,
which is why `Filter` is written out. Rewriting those operators with `RECURSIVE`
would take all of this away.

Only model-checked: liveness under fairness (`ShutdownEnds`, `SignalEndsRun`,
`CancelStopsWatchers`, `LeakIsReported`, `EverythingSaved`, `FlushedInTheEnd`,
and the fairness part of `ImplementsLifecycle` and `ImplementsTracker`), which is
beyond the proof system here. Every invariant and every action property of the
passing runs is proved.

## Where the code and its comments disagree

1. After a drain that read zero, calls may still begin and run while the hooks
   stop (`shutdown_late_call`); `server.rs:785` calls it safe.
2. A call under way when its connection is deleted brings it back
   (`call_tracking_dropped`); `server.rs:349` speaks of a cleanup.
3. The usage tracker's task never sees its channel closed
   (`usage_tracker_dropped`); `usage_tracker.rs:379` saves for the last time
   there.
4. A rotation may lose the newest record (`tool_history_rotation`), because the
   flush drops its file while the last write is under way;
   `tool_history.rs:377` promises the last lines.
5. The cleanup does not fit its buffer (`shutdown_budget_buffer`): the drain waits
   30 s and each hook 10 s, whatever the timeout; `cli.rs:36` says they must fit
   within 30% of it. What does hold is `SharesSuffice` and `EndsInTime`.
6. The smallest i64 as an offset does not give the tail that `tool_history.rs:166`
   speaks of, but an empty page or, with overflow checks, a panic. `PagesAreWindows`
   leaves it out and `SmallestOffsetGetsNothing` proves the empty page.

Others are plain from the actions and have no run. The section "Graceful
Shutdown" of `src/README.md` (lines 168 to 177) has the HTTP server and the
managers shut down in parallel, the first with 20 s and the second after a delay
of 2 s; the code and these models do one after the other, with the waits that
`ShutdownBudget` lists. `HookPanics` ends the visit of the remaining hooks, which
`managers.rs:114` calls fail-slow: they are never stopped, and `HandleIsHonest`
covers only what the owner is told. Since `usage_tracker.rs:134` reads the
clock again, a session is judged at a later instant than the one stored as
`last_used`, so that a recorded gap of exactly the timeout may count as a new
session. After an orderly
cancellation the server task may finish before the monitor is polled, and
`MonitorServerExit` then takes the branch that `server.rs:715` says is always an
error; only the log differs. A start that fails
after the trackers were created leaves their three tasks running for ever in the
process of a caller of `serve`, and a certificate that cannot be loaded the
memory monitor as well (`FailedStartLeaves` states it). `run`
never calls `UsageTracker::shutdown`, so the updates since the last save are
lost when it returns. A signal during the start ends the process with no hook
called.

## What is not modelled

- The contents of results, arguments and records; counters per tool and per
  category; log messages and the branded display line.
- The health endpoint: it reads a counter and the memory in use, changes nothing,
  and no other code depends on its answer.
- `registration.rs`: two functions that add a tool to the routers of rmcp.
- The parsing of options in `cli.rs` and the formatting and reading of sizes in
  `memory.rs`: conversions of text without a state.
- The socket that `serve_with_tls` binds itself when it is called directly: its
  failures come before anything is spawned.
- rmcp, axum, hyper and rustls beyond what the code relies on, as listed in the
  header of `Shutdown`.
- A failure of the kernel or of the disk: a crash loses the process only.
- `lib.rs.backup`, which no build includes.

## The plan

1. Done: every component that keeps state, with its composition; a proof of every
   safety property of the passing runs, and of the safety half of each refinement.
2. The steps that the liveness properties rest on, as action properties: a bound
   on the steps left to a shutdown (a measure that each step of the monitor
   lowers and none raises), in `Shutdown` and `Managers`, and that what is
   neither flushed nor written only moves towards the file, in `ToolHistory`.
3. The composition of `CallTracking` with the two trackers by their refinements:
   `HistoryImpliesStats` of `ToolHistory` and `UsageTracker` themselves.
