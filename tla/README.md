# A TLA+ model of anybot

anybot is a Go runtime for chat bots that speak the OneBot v11 protocol. This
directory holds TLA+ modules that model its core, TLC configurations that check
them on small instances, and TLAPS proofs of the properties that matter most for
all values of the constants. `PROJECT.json` is the index: which definition
models which lines (`map`), what each run checks (`runs`), which plausible bug
each property catches (`mutants`), which hazards of the code are covered by what
(`hazards`), what is proved (`theorems`), and where code and docs disagree
(`findings`).

## 1. Inventory

### The system

```
             adapters/onebot11                        core
  peer <--> connection goroutine --emit--> channel --> workers --> App.dispatch
            (ws, reverse_ws, http)                       |  keyedLocks
                 |  ^                                    v
                 |  |                       observers, router, middleware, handlers
   adapterState.Set |                                    |
                 v  +------ callRaw / pending <--- Context.Client (actions)
     App.updateAdapterState --> WaitActionReady
```

`App.Run` starts hooks, tasks and workers, binds the adapter's state sink and
calls `adapter.Start`, which runs until its context is cancelled. The adapter's
goroutines call `emit` with each event. With `WithWorkers(n)`, n > 0, `emit`
sends to a bounded channel and workers call `dispatch`; otherwise `emit` is
`dispatch`. `dispatch` takes the lock of the event's key, runs observers and
routes, and gives the lock back. Handlers may call actions, which travel over
the adapter's current connection and come back as answer frames through the same
read loop that delivers events. The SDK (`sdk/`) builds plugins on this, the
host (`app/host`) reads configuration and assembles a runtime, and the command
line (`cmd/anybot`) changes a project's files.

### Components

| Component | State it keeps | Operations | Hard behaviour | What makes it correct |
|---|---|---|---|---|
| Per-key locks (`core/scheduler.go`) | map key -> counted mutex | `lock`, the unlock closure | entry deleted while another goroutine is between lookup and lock | mutual exclusion per key, no leaked entry, fair |
| Event pump (`core/app.go`) | channel, workers, run context | `Run`, `emit`, `dispatch`, shutdown | close of the channel against late senders, drain, cancellation with full channel | exactly once, serial per key, all dispatched at return, termination |
| Adapter state (`core/state.go`, `adapters/onebot11/state.go`) | adapter's state and sink, runtime's state, waiters | `Set`, `SetSink`, `updateAdapterState`, `WaitActionReady` | sink called outside the lock, so reports overtake each other | no lost wakeup, runtime agrees with adapter, stopped is final |
| Action calls (`adapters/onebot11/socket.go`) | current connection, `pending`, write mutex | `callRaw`, `completePending`, `failPending`, `replaceConn`, `disconnectConn` | answer, loss and deadline race for one call | one result per call, no entry left, loss ends the call |
| Reverse WebSocket (`reverse_ws.go`) | server, connection goroutines | accept, replace, lose, shut down | a replaced connection's goroutine acts after the new one's | state and pending calls belong to the current connection |
| Forward WebSocket (`ws_client.go`) | one connection, backoff | dial, lose, redial, stop | loss in every phase of a call | nothing left open or waiting at return |
| HTTP transport (`http.go`, `server.go`) | each webhook request's context | webhook, answer, action request | webhooks outlive `Start`; an event outlives its request | the answer says what became of the event; a handler can reply |
| Lifecycle and tasks (`lifecycle.go`, `task.go`) | hooks, task runner, fatal channel | hooks in order, task start/stop, panic -> fatal | task registered while stopping; several fatal errors | hooks undone in reverse order, first fatal error reported, all tasks joined |
| Observers (`observer.go`) | slots per observer | observe with a deadline | slot lost or never given back | bounded concurrency, slot returned |
| Stores (`store.go`, `file_store.go`) | key -> value with expiry, JSON file | get, set, delete, expiry | check-then-delete of expired items; crash between file and memory; failure after the rename | a call takes effect once or answers an error; file and memory agree; live items stay |
| Router, middleware, commands (`route.go`, `middleware.go`, `rules.go`) | routes, sorted snapshot, rate-limit buckets | `On`, `Priority`, `Handle`, `Use`, dispatch, limit, split a command | stale snapshot beside registration; late clock readings at a window's boundary; quotes and escapes | every complete route in turn, less than twice the limit in any window unless events are counted late, handlers get the words typed |
| Dialogues and state (`sdk/dialogue.go`, `sdk/state.go`) | records and values in the store | begin, match, next, end, update | a record matched and then used without another look | one step per answer, no lost update where events are serial |
| SDK runtime and context (`sdk/runtime.go`, `registry.go`, `context.go`) | plugins, registrations | build, enable, register | which plugins a host can load | starts exactly when the reports say so |
| Plugin lock and generated host (`app/host/plugin_lock*.go`, `cmd/anybot/plugin.go`, `build.go`) | `plugins.lock`, `plugins.gen.go`, `main.go`, `go.mod`, entries | add, update, remove, build | failure or crash at every step, other processes | all files or none; files that agree; a valid lock; a build repairs |
| Configuration updates (`app/host/config_update.go`, `config_store.go`, `plugin_command.go`) | one YAML entry per plugin, the host's mutex | enable, disable, set, reset, defaults, sync | several goroutines and processes replace whole files | no lost update inside the host, success means effect, disabled stays disabled |
| Host start and reports (`app/host/app.go`, `check.go`, `status.go`, `cmd/anybot/doctor.go`, `main.go`, `build.go`) | none | load, check, install, report | five ways through the same files | reports foretell the start |
| Rest of the command line, scaffolding, test kit, data types, clients, options, example plugins | none | | | not modelled (section 7) |

The hazards of this code, each at its line, are listed in `PROJECT.json`.

## 2. Plan

Done, in this order: `KeyedMutex`, `KeyedLocks` and its proofs; `EventPump` on
top of it; `AdapterStates`; `SocketPeer`, `Connections`, `ForwardWS`,
`ReverseWS`, and `WebSockets`, which composes them with `AdapterStates`; proofs
for the first three components; `AppRun`, the frame of `App.Run`;
`KeyValueStore`, `FileStore`, `MemoryStore`, `Stores`, and the proof that the file
store implements the abstract one; `ConfigDocs`, `PluginFiles`, `PluginConfigs`,
`PluginCommands`, `HostStart` and `Project`, which composes them, with a proof;
`Routing`, `RateLimits`, `Dialogues`, `CommandTexts` and `Bot`, which composes
them, with proofs; `Webhooks`, the HTTP transport in front of `EventPump`.

Then proofs for all components that keep state: the way of events through
`EventPump` and `Webhooks`, `AppRun`, `MemoryStore`, `WebSockets`, the rest of
`Project`, and what `CommandTexts` computes, which was rewritten for it.

Left, most important first:

1. `WebSockets` composed with `EventPump`, for handlers that make action calls
   from the read loop's own goroutine (`app.go:129`).
2. The rollback of a command that fails a second time, in `Project`.

## 3. Modules

| Module | Models | Role |
|---|---|---|
| `KeyedMutex` | what `scheduler.go` promises | abstract specification: a mutex per key |
| `KeyedLocks` | `core/scheduler.go` | the reference-counted map, refines `KeyedMutex` |
| `KeyedLocks_proofs` | | proofs, any threads, keys and heap |
| `EventPump` | `core/app.go` `Run`, `emit`, `dispatch`, `lockEvent` | conjoins the actions of `KeyedLocks` |
| `EventPump_proofs` | | proofs, any crew, sources, capacity; also of `Webhooks` |
| `Webhooks`, `MCEventPump` | `adapters/onebot11/http.go` in front of `EventPump` | requests and their contexts; constants for TLC |
| `AdapterStates` | `core/state.go`, `adapters/onebot11/state.go` | reports, sink, waiters |
| `AdapterStates_proofs` | | proofs, any reporters and waiters |
| `AppRun` | `core/lifecycle.go`, `task.go`, `observer.go`, the frame of `App.Run` | hooks, tasks, observers |
| `AppRun_proofs` | | proofs, any tasks, hooks, observers |
| `KeyValueStore` | what the `Store` interface promises, with durability | abstract specification: a map, one call at a time |
| `StoreCalls` | what `store.go` and `file_store.go` share | items, expiry, clock, calls |
| `FileStore` | `core/file_store.go` | refines `KeyValueStore` |
| `FileStore_proofs` | | proofs, any callers, keys, values, faults, crashes; also of `MemoryStore` and `Stores` |
| `MemoryStore` | `core/store.go` | the two-section `Get`, sweeps |
| `Stores` | either store under one application | composition, symmetry |
| `SocketPeer` | `adapters/onebot11/socket.go` | callers, pending, answers |
| `Connections` | what both transports share | a connection's life and its reports (instantiates `AdapterStates`) |
| `ForwardWS`, `ReverseWS` | `ws_client.go`, `reverse_ws.go` | the transports |
| `WebSockets`, `MCWebSockets` | the adapter under the runtime | composition, properties, symmetry |
| `WebSockets_proofs` | | proofs, any connections and calls, forward and reverse |
| `ConfigDocs` | `app/host/config_update.go`, the document | pure operators: put, cut, merge on trees of keys |
| `PluginFiles` | `app/host/plugin_lock*.go`, rendering, `go.mod` | the directory and what is computed from it |
| `PluginConfigs` | `config_update.go`, `config_store.go`, `plugin_command.go` | editors: commands and goroutines of the host |
| `PluginCommands` | `cmd/anybot/plugin.go`, `build.go`, `plugin_lock.go` | add, update, remove, build, rollback, crash |
| `HostStart` | `app/host/app.go`, `check.go`, `status.go`, `cmd/anybot/doctor.go`, `main.go`, `build.go` | pure operators: who loads what |
| `Project`, `MCProject` | one directory under all of them | composition, properties, constants |
| `Project_proofs` | | proofs, any plugins, documents, processes, faults, crashes |
| `Routing` | `core/route.go`, the loop of `dispatch` in `app.go` | registration beside dispatch |
| `RateLimits` | `core/middleware.go`, `RateLimitBy` | buckets, late clock readings |
| `Dialogues` | `sdk/dialogue.go`, `sdk/state.go` | records and counters in a store that fails |
| `CommandTexts` | `core/rules.go`, the command rule | pure operators on sequences of characters; their proofs are in `Bot_proofs` |
| `Bot`, `MCBot` | routes, chains and handlers of an event | composition, properties, constants |
| `Bot_proofs` | | proofs, any routes, events, limit, window, faults |

### How state and actions correspond to the code

**KeyedLocks.** A section under `l.mu` is one action because nothing blocks in it
and `locks` and `refs` are touched nowhere else; `item.mu.Lock` and `Unlock` are
actions of their own. `pc` is a goroutine's place, `item` its local pointer, and
objects are addresses that may be allocated again once nobody refers to them.

**EventPump.** `queue` is the channel, `stage[d]` and `work[d]` the place of a
worker (or of a source, when there are no workers) in `dispatch`, `run` the
progress of `Run` after it has called `Start`. `emit`'s select is three actions:
`Send`, `Refuse` (a context is done) and `SendOnClosed` (the panic of a send to
the closed channel). `crew` and `detached` are fixed in `Init`: which workers
exist, and whether the adapter's goroutines may outlive `Start`. They may for
`reverse_ws` (`http.Server.Shutdown` does not know of hijacked connections) and
for a webhook request that is still running when the five seconds of the
shutdown are over; for the forward client they may not.

**AdapterStates.** `Set` is two actions, `SetLocal` (under the lock) and
`CallSink` (after it); `updateAdapterState` is one, `Update`. `waiter[w]` is the
place of `WaitActionReady`, `waiters` the channels in `App.stateWaiters`; an
expired waiter's channel stays registered as in the code. A state is its
`Kind`. An http adapter without `apiURL`, which reports ready without
`ActionReady`, and state hooks, which are called and forgotten, are left out.

**Webhooks.** A request is a source of `EventPump` with one event. `told[s]` is what
`emit` has returned to it, `served` the requests that have been answered, `gone`
those whose client has closed its connection before that; either ends the
request's context, which net/http does and the code does not see. `Call` is
anything a handler does with that context. Under a WebSocket (`~web`) nothing but
the pump moves. Requests that are refused before they have become an event are
left out: they touch no state.

**AppRun.** `run` goes through the statements and deferred functions of `App.Run`
in their order; the time from the call of `Start` to the join of the workers,
which is `EventPump`'s subject, is the two phases "serve" and "drain". A task's
registration is two steps, because `addTask` starts the task after the unlock;
`setFatal` is two, because it cancels after the unlock. `cast` and `outside` are
fixed in `Init`: which tasks and observers come up at all (they only meet through
`run`, so TLC looks at them one kind at a time), and whether events are also
dispatched outside `Run`. What a hook, a task or a handler does is theirs; they
succeed, fail or panic.

**FileStore.** The map and the file are functions from keys to items or `Nil`; a
missing file and one without items load alike. Everything under `s.mu` up to the
first file operation is one action (`AnswerLocked`, `ChangeLocked`), because only
the holder of the mutex sees the map; each file operation after it is its own,
because a crash or a failure can come between any two: write, sync of the data,
rename, sync of the directory. `After` is the body of all four operations, which
differ in what they put and in whose expiry they look at. A context may end at any
time and is looked at twice, so `CallRefused` and `SaveCancelled` are always
possible. `leaves` is what a loss of power may leave: the old file beside the new
one until the directory has been synced, a file without its data (`Torn`) had it
been renamed before its own sync. A temporary file that a crash leaves behind is
never read and not modelled. Between calls `calls[c]` is `Idle` with the last answer.

**MemoryStore.** `Get` is two or three actions: `ReadItem` under the read lock,
`JudgeItem` outside it, and `DeleteItem` in a second section. `asOf[c]` is the
clock `Set` read before it asked for the lock. `Get`'s delete does not look at the
caller's context, and no other operation does after its first line.

**SocketPeer and the transports.** `callRaw` is seven steps (`Register`,
`PickConn`, `LockWrite`, `WriteOk`/`WriteFails`, `Receive`, `GiveUp`, `Forget`)
because every one of its reads and sections can be overtaken. An echo is its
call. `results[c]` is everything ever sent to the call's channel. The websocket
library is external: `link[n]` says whether a connection is open, `asked` which
requests the other side has got. A connection's goroutine follows `reader[n]`;
while a report of it is on its way to the runtime (`report[n]`) it does nothing
else, since the sink is called synchronously. `FailPending` is atomic: the code
swaps the map under `pendingMu`, after which nobody else can reach its entries,
and the sends to channels with room for one cannot block. `Answer` is atomic for
the same reason.

**ConfigDocs and PluginConfigs.** A YAML document is `enabled` and a function from
the paths under `config` to nodes: a scalar, a mapping, null, or nothing. `Put`,
`Cut` and `Merge` are `setMappingPath`, `removeMappingPath` and
`fillPluginConfigDefaults`. An edit is a read (`ReadEntry`, `ReadAll`) and a
write of the whole file (`SaveEntry`), which may fail; the file is replaced
atomically by `writeFileAtomic`, so a write is one step or none. `Acquire` is the
mutex of the host's `pluginConfigStore`; a command of another process has none.
`Reached` is the one surprise of the code: of an empty file
`loadPluginEntryDocument` returns a copy that changes do not reach (finding 3).

**PluginFiles and PluginCommands.** `disk` is the directory: the lock, the two
generated sources, `go.mod`, `config/anybot.yaml`, one entry per plugin. A file
is a value of what it says: the generated registry *is* the lock it was rendered
from. A command goes through the code's own order: it remembers the files it may
touch one by one (`Snapshot`, `Remember`), reads the lock once more, writes the lock
(`SaveLock`, which validates it again), `plugins.gen.go`, `main.go`, `go.mod` (first
the version, should the record have a source, then the replacement), entries; a build
then edits every module, runs `go mod tidy` and the compiler. Sources are replaced
atomically, but `config/anybot.yaml` is created empty and then filled, as
`os.WriteFile` does (`CreateConfig`, `FillConfig`). Every step may be refused by what it has read
(`Refuse`) or fail for no reason of its own (`Break`); both lead into the
rollback, file by file, backwards, where a file is first emptied and then filled
(`Truncate`, `Refill`, as `os.WriteFile` does) and may itself fail. `Crash` may
come anywhere and leaves what is there. `alone` says that nobody else has
written since a command or an editor has begun; it is what several properties
have to assume, since no lock keeps two processes apart.

**HostStart.** Loading, checking and installing are functions of the directory
and of the plugins a binary has. `Starts`, `Check`, `Status`, `DoctorPasses`,
`UpRuns` and `RunRuns` each follow their own code; `ReportsAgree` relates them.

**Routing and Bot.** One goroutine registers: `On`, then `Priority` and `Handle`
in either order; `Handle` writes without the router's lock, so that another
goroutine need not see it until its own goroutine has used the lock again
(`Publish`), and until then whether the dispatch sees it is a free choice
(`Skip`). A dispatch copies the sorted routes under the read lock, or finds them
dirty and sorts them under the write lock after another look. `Test` is the
evaluation of a route's rules with what `applyMatch` sets. `Leave` maps the chain's error and `Stop` to whether
the loop goes on. `Bot` fills in the rules and handlers: a dialogue's, a
command's, one that begins a dialogue, one that changes a counter with
`State.Update`, and plain ones, whose outcome is free. `Lock` is the mutex of
`KeyedLocks` in its abstract form. `setup`, fixed in `Init`, says which plugins
there are, which routes come beside the dispatch, and whether events are serial.

**RateLimits.** `RateLimitBy` reads the clock before it takes its mutex, so
`ReadClock` and `Count` are two steps, and a goroutine may count by a time that
others have left behind, or begin a bucket that is partly over. `passes` is a
history of what has been let through: the clock it was counted by (`at`) and the
time it got through, under the mutex (`passed`). No bound of twice the limit holds of
what gets through in a window: with a limit of 1 and a window of 3, events that
read the clock at 0, 3 and 6 and are counted at 4, 4 and 6 all get through within
three ticks. `RateBounded` says how far lateness goes: of the events counted within
`n` windows of reading their clock, less than `n + 2` limits get through in any
stretch as long as the window, by the time they get through. For `n` = 0, events
counted before the clock goes on, that is less than twice the limit; a large enough
`n` leaves no event out. A limiter on the root router counts an event once for each
route that matches it.

**Dialogues.** The rule's `LoadRecord` and the handler's `Advance` or
`EndDialogue` are steps of different calls to the store, each atomic or failed
without effect, as `KeyValueStore` promises. A record's `id` tells replacements
apart. An error of the store makes the rule match, and the handler returns it.

**CommandTexts.** A text is a sequence of characters of the kinds the code tells
apart. `Text` types a command the way a user would, quoted or escaped, and is the
reference; `Cut` and `SplitArgv` are the code. A blank is what both part words at: a
space, a tab, the end of a line. Other white space ends a name for `cutCommand` but
separates no words for `splitArgv`; it is left out.

Definitions marked "Faulty" in the modules are not part of any specification.
Each is what an action would be with one plausible bug; put in the place of the
action it makes TLC find the property violated that `mutants` names.

## 4. Runs

| Run | Question | Instance | Result |
|---|---|---|---|
| `KeyedLocks` | Is the counted map a fair mutex per key? | 3 goroutines, 2 keys, 3 objects | holds |
| `EventPump` | Exactly once, serial per key, drained, no send on the closed channel, termination? Is a webhook request told what became of its event? | 2 sources, 3 events (2 share a key, 1 has none), crews of 0, 1, 2, capacity 2, detached or not; the sources are connections or, with crews of 0 and 1, webhook requests | holds |
| `Webhooks_reply` | Can a handler reply to the event of a webhook? | 2 requests, 1 worker | violated (finding) |
| `AdapterStates` | Does anybody sleep through a change? Does the runtime agree with the adapter? | 2 reporters, 2 waiters, earlier runs | holds |
| `AppRun` | Are tasks started once and over before the shutdown hooks? Is the first fatal error returned, do observers end, does `Run` end? | 3 tasks (critical, periodic and critical, waiting for the adapter; one early), or 2 observers for 1 slot; 1 hook of each kind | holds |
| `Stores` | Does the file store implement a key-value store through errors and crashes? Which live items can a memory store lose? | 2 goroutines, 2 keys, 1 value, times to live 0 and 1, 3 clock values, 1 failing file operation, 1 crash | holds |
| `MemoryStore_value` | Does a value stay until it expires or is deleted? | 2 goroutines, 1 key | violated (finding) |
| `WebSockets` | Is the bookkeeping of calls and states right in every order of events? Is a call ever left waiting on a lost connection? | forward and reverse, 2 connections, 2 calls | holds |
| `WebSockets_ready` | Is a connected adapter reported ready? | 2 connections, 1 call | violated for reverse (finding) |
| `Project` | What do commands and edits leave behind when they succeed, fail or die? | 2 plugins of 1 module, 1 version, 1 path; 1 plugin or build command beside 2 editors (processes or the host's goroutines), 2 tasks in all, 1 failure, 1 crash; 9 starting directories | holds |
| `Project_enabled` | Does a successful `enable` or `disable` take effect? | as `Project` | violated (finding) |
| `Bot` | Are routes tried in turn, limits held, dialogue steps taken once, updates kept, commands split as typed? | 7 routes and 4 events in five kinds of setups, limits 1 and 2, window 2, 5 clock values, 1 failing store call, commands of 2 words of up to 2 characters | holds |

### Why the bounds are enough

- Three goroutines on one key are the fewest with one that holds, one that waits
  and one that arrives while the first drops its reference; the second key lets
  an object move from one key to another. Three objects are as many as can be in
  use at once.
- Two workers and two sources give every race for the channel, the key and the
  close; three events are more than the channel holds, so a source blocks in
  `emit`. The proofs cover any number for the properties they state.
- Two reporters are the fewest that overtake each other; two waiters show that
  all of them are woken.
- Three tasks have every attribute between them, two critical ones can fail in
  both orders, and one is registered before `Run` while two come at any time. Two
  observers compete for one slot. One hook of a kind shows the phase with it
  succeeding, failing and done; more of them only repeat it.
- Two keys are the fewest with which an operation on one sweeps another. The clock
  starts at 1, an item stored then with time to live 1 is live at 2 and expired at
  3, one stored without never expires. One payload is enough, since items are told
  apart by their expiry. One failure and one crash meet in every order with two
  concurrent calls; the proofs cover any number.
- Two connections are the fewest of which one replaces or follows the other, two
  calls the fewest that compete for `writeMu` and are failed together. A
  connection and a call are used once: a second use of an address would not share
  state with the first, echoes and connections are never used again. So that a
  chain of three replacements is not covered.
- In `Project` two tasks are the fewest that interleave: a command with an edit,
  or two edits, in one process or two; and also a command after a command, which
  is how a build comes after a crash. Two plugins of one module are the fewest
  with a shared source to disagree about. The starting directories are: empty, one
  with a foreign `main.go`, and four valid locks (none, a released version, two
  plugins from a path, a builtin one beside one from a path) with two sets of
  entries: customised (an explicit null, a value without default) and fresh, or
  fresh and empty. One failure and one crash come at every step; a rollback with a
  second failure is not covered by TLC. A default configuration is a mapping in a
  mapping, so that a path to set may end above, at or below a default.
- In `Bot` the setups share the modules but not the subject: (1) two routes
  registered beside two dispatches, with one installed before, so that a
  snapshot can be stale before, between and after each of `On`, `Priority` and
  `Handle`; (2) a limit of 1 for three events at once, over two
  windows, and a limit of 2 for four events, three of them serial, over one; (3) a dialogue, a route that begins one and a counter, for two events
  of one conversation, user or group, with a time to live of 1 and a failing
  store; (4) three serial events on a counter; (5) commands. In (2) a
  window sees three events through two buckets (limit 2, none late: the bound of
  three is reached) and three through three buckets, two of them late (limit 1: the
  bound for two windows of lateness is reached). In (1) a limiter may come beside the
  dispatch. The proof covers any limit and window.

### Fairness

Only what the code or the Go runtime justifies: a goroutine that can run, runs
(weak fairness of its steps); `sync.Mutex` and the channel queue their waiters,
so a waiter is not overtaken for ever (strong fairness of `LockItem` and
`BeginSerial`); handlers return;
`adapter.Start`, hooks and tasks return when their context is done, and `select`
does not prefer a timer to a done context for ever (`EndPeriodic`). Nothing is assumed of the peer,
the network, a request's client, deadlines or cancellation. `CHECK_DEADLOCK FALSE` is set where the
system may stop for good: a `Run` that has returned, a runtime whose adapter reports nothing more, a socket
whose peer is silent, a store that has crashed as often as the bound allows or whose
callers need not call, a project whose tasks are done, a bot whose events are. `Project`, `Bot` and `WebSockets`
are about safety and state no fairness. `EventPump` and `KeyedLocks` are checked for deadlock.

## 5. Proofs

All proofs hold for any values of the constants that satisfy the named
assumptions, which TLC evaluates in every run of a module that has them:

- Null values lie outside the sets they stand beside (`NullsAssumption`,
  `PumpNulls`, `PeerNulls`, `ServerAssumption`, parts of `AppAssumption`,
  `StoreAssumption`, `FilesAssumption`, `ContentsAssumption`, `ConfigDocsAssumption`,
  `ProjectAssumption`). That a plugin's record, a lock, a `go.mod` or a document is
  none of the values that mean "no file" is of this kind.
- The goroutines of the pump and of observers are finite sets, the channel's
  capacity and a limiter's window are positive, the paths of keys are sequences of strings with all their
  prefixes (`ThreadsFinite`, `PumpAssumption`, `RateAssumption`, `AppAssumption`, `ConfigDocsAssumption`).
- `FramesDiffer`: an event is read once, by one source. Two frames with the same
  text are two events; it is the name of an event, not its content, that is read.
- A plugin's default configuration is a mapping (`EditorsAssumption`), as the code
  marshals a struct or a map.

**KeyedLocks_proofs.** Mutual exclusion alone is not inductive: a goroutine whose
entry were deleted early would meet a second object under its key. `IInv` adds
that the map leads to the object of everybody who uses a key (`EntryInUse`), that
a count is the number of users (`RefsExact`), that keys do not share objects
(`EntriesDistinct`), and that an object's owner is who is in the critical section
(`OwnerExact`). The step that needs all of it is `DropEntry`: the count is one, so
the set of users is a singleton, so the delete hurts nobody. This gives
`Invariance`, `Mutex`, `CountsExact`, and `Refinement`: every step is a step of
`KeyedMutex` or a stutter, under the mapping `holderBar`, `waitsBar`.

**EventPump_proofs.** `IInv` adds to the types that a source in `emit` carries an
event of its script (`ReadInScript`), that a dispatcher's place fixes its place
in the lock of its event's key (`StageMatchesLock`), and that nobody `Start` waits
for is in `emit` after it has returned (`QuietAfterStart`). `StageMatchesLock`
makes every step a step of `KeyedLocks` or one that leaves the locks alone
(`LocksRefined`), so the theorems of `KeyedLocks_proofs`, instantiated with the
dispatchers as goroutines, apply: `Serial`. `QuietAfterStart` gives `NoPanic`.

That no event is dispatched twice depends on every place an event can be in: `FlowInv`
says that what was accepted has been read and its source has moved on
(`AcceptedRead`), that only a worker of the crew, or the event's own source without
workers, has it in its hands (`HandsExact`), that what has begun is what is being
handled and what is finished, and nothing twice (`OnceExact`). `TakenOnce` follows.
`NothingLeft` needs `ExitExact`: a worker ends only when the channel is closed and
empty, and `Run` returns only when all have ended. `SingleFlow` lays out, for a crew
of one, what was accepted as a sequence: what has begun, what the worker is about to
begin, what is in the channel; `SingleOrder` reads the order off it.

`WebIsPump` shows that requests, contexts and answers add only steps in which the pump
stutters, so all of the above holds behind the HTTP transport. `WebInv` then ties
what `emit` has told a request to where its event is (`RequestExact`); since a webhook's
source reads one event, an error once told stays true: `AnswersKept`.

**AdapterStates_proofs.** `NoLostWakeup` is inductive with the types: a change of
state takes every registered waiter, and who is parked is registered. For
`Agreement`, `ReportIsLocal` says that with one reporting goroutine a report under
way is the adapter's latest state and exists only while the runtime runs.
`StoppedStays`: unless goroutines outlive `Start`, none reports after the stop, and a
late report of an earlier one finds the sink gone.

**WebSockets_proofs.** `StatesRefined` shows first that both transports report as
`AdapterStates` says an adapter does, so its invariant comes for free. `EchoOwned` says
who owns an echo: a call is in `pending` or has its one result, and has left nothing
behind when it has returned (`AnsweredOnce`, `NothingKept`). `LostCallsEnd` is not
inductive, since a call may pick a connection that is lost before it writes:
`LossTold` says that a connection that is no longer the current one has told all calls
on it, or its own goroutine is about to (`fail`), or that of the connection which
replaced it is (`replace`). This holds for any chain of replacements, which TLC sees
only for two connections. `StatesSettle` needs that a runtime which believes the client ready
has a reader that has still to report its end (`ReadyHasReader`), however reports
overtake each other; and for a forward client that it has one goroutine, which waits
for each report (`ForwardAlone`, `OneReporter`).

**AppRun_proofs.** Three races, one part of `IInv` each. `RegistrationExact`: a
registration that has found no runner is in the list that `startTasks` copies, one that
has found it starts the task itself, never both (`TasksStartOnce`). `FailureExact`:
`taskRunner.err` is the first of the failures, and before `Run` cancels its own context
only a failure or the caller has (`FirstFailureWins`). `ObserversExact`: slots are
held by the handlers that run or report, and Run's events are observed with Run's
context (`ObserversEnd`). `HooksAfterTasks` is inductive with these.

**FileStore_proofs.** That an idle store agrees with its file (`MemoryInStep`)
depends on what the holder of the mutex has done: `IInv` says for each stage of a
save what map, clone and file are to each other (`StageOfSave`), that a goroutine
is inside exactly when it holds the mutex (`HolderInside`), and that the temporary
file is whole before it takes the name, so no file a crash can leave is torn
(`NothingTorn`). For the refinement, `ReadyToCommit` says that the map about to be
renamed is one the call may make of the map still on disk; it survives the ticks
of the clock because what has expired stays expired (`OutcomeStays`). The rename
is the step that carries a call out; the sync of the directory answers it, with or
without having made it durable; every failure before the rename refuses it
(`FileStoreImplements`). `StoresAreFileStores` carries this over to the composition
with the memory store. For that one, `LiveItemsKept` needs of a `Get` only what it has
read before it gave the lock back, and that a clock read earlier is not ahead
(`ReadsExact`, `AskedExact`): a sweep with a late clock spares what is live now.

**Project_proofs.** Each property has an invariant of its own, on top of those before it.

- `LockAlwaysValid`. Commands write locks that they have worked out from what they
  read earlier. `LockInv` says that no lock in anybody's hands is invalid: on disk, in a
  command's `plan`, so that none is refused when it is saved, among the files it has
  remembered and may put back. `UpdateValid`
  shows what changing all records of a module together is for. Nothing is assumed about
  other processes.
- `HostKeepsUpdates`. An editor replaces the whole document, so keeping an update means
  that whoever holds the mutex has a draft with everything the host has set elsewhere
  in the entry (`DraftHolds`), and has been alone with it since it read it
  (`HostAlone`). Entries are well-formed trees wherever they are (`EntriesSound`),
  which rests on `PutTree`, `CutTree` and `MergeTree`.
- `ReportsForetell` is about pure operators and holds for any files at all.
- `FailureUndone`. `UndoInv`: while a command is alone, every file is as it remembers
  it, also while it is still reading them (`RememberUndoable`), except those it may touch and, in the rollback, those still to be put back.
- `BuildsHeal`, `CommitsAgree`, `StartsKept`. `TypedInv` says what a file can hold, with
  locks looser than one command alone would write (`LooseLocks`), because overlapping
  commands can leave such; `CourseInv` says for each phase of a command that is alone
  what it has made of each file so far: how far `go.mod` has come when it began in
  agreement (`GoModCourse`), and for a build, which may begin anywhere, which modules
  it has repaired (`BuildCourse`).
- `DisabledKept`, `EditsKept`. `EditInv`: what an editor is going to write is its change
  of what is still there. `TakeInv`: an entry that has been read and needs no writing
  has what the task promises (`Done`), before the second half of `reset` and `enable`
  it has what the first half gave (`Halfway`). They rest on three facts about
  documents of any shape: filling in twice is filling in once (`MergeTwice`), a complete
  document is not changed (`CompleteKeeps`), and the default of a path that was
  cleared is filled in by the topmost gap on the way to it (`ClearedFilled`, which
  needs a least number and gets it from the library's well-founded order).

**Bot_proofs.** Six properties, each from an invariant for its own part.
`RateBounded`: the buckets of a key are at least a window apart, and an event that
got through has a number of its own in 1..`limit` in its bucket and a reading before
its bucket's end (`RateInv`). Got through between `t` and `t` + `Window` and at most
`n` windows late, its bucket began less than `n` + 1 windows before `t` or in the
stretch (`StartWithin`), so that it lies in one of `n` + 2 blocks of a window's length,
each of which holds the start of one bucket (`InABlock`); block and number map what
got through injectively into 1..(`n` + 2)*`limit`. One place stays free, because the
first event of a bucket reads the clock at its start (`BoundFromBuckets`).
`Alone`: with serial dispatch one event of a conversation is in its handlers;
from it `CounterInv` (what a handler has loaded is still the counter) and
`TurnInv` (a record matched is still the one stored, or gone by its own turn).
`EveryRouteInTurn`: the snapshot an event has is arranged by priority and order
among the routes it must see, and what it has tried is what lies before its
position (`Arranged`, `InTurn`).
`CommandsAsTyped` needs no invariant but that what is typed stays; the work is in what
`Cut` and `SplitArgv` make of a text of any length. `Read` is folded over the text, so
the proof follows the typed text from left to right (`EscapedRead`, `TypedRead`,
`RestRead`): after the blank before a word nothing of a word is read and no quote is
open (`Is` names the splitter's state field by field); after any part of a word the
splitter has that part, inside the quotes it was typed in; after the word, its closing
quote; the next blank appends it. `CommandRead` puts this together with what `Trim` and
`Cut` leave of the line, which rests on a typed word neither beginning nor ending in a
blank. The inductions over length and over sequences are obtained from a least number
that fails (`LeastNumber`, from the library's well-founded order of numbers) with sets
where an induction theorem would take a predicate (`UpTo`, `AllSequences`); that the
recursive functions behind `FoldLeft` and `FlattenSeq` exist is proved too
(`FoldExists`). Assumed of what is typed (`BotAssumption`): the prefix is a mark, the
name is not empty and has no blank, and the words are `Typable`.

### Checked by TLC only

Liveness (`AcceptedFinish`, `CancelStops`, `StopReleasesWaiters`, `RunEnds`,
`ImplementsFairKeyedMutex`): fairness and ENABLED are out of the prover's reach.
All other properties of the passing runs are theorems. The four runs that expect a
violation state what does not hold.
No module declares a RECURSIVE operator.

## 6. Findings

1. **State after a reconnect** (`WebSockets_ready`). The goroutine of a replaced
   reverse connection still reports "disconnected" (`reverse_ws.go:96`). If that
   report comes after the new connection's "ready", the runtime stays in
   "disconnected" and `WaitActionReady` blocks although the action client works.
   The forward client has one goroutine and keeps the property (`StateSettles`).
2. **A fresh value deleted by a reader** (`MemoryStore_value`). `MemoryStore.Get`
   finds an expired item, has given its lock back, and deletes the key without
   another look (`store.go:53`). A `Set` in between is deleted with it, although it
   returned no error and its value may never expire. `MemoryKeepsLive` shows that
   this is the only way to lose a live item; `FileStore` does the same under one
   lock.
3. **Disabling that does nothing** (`Project_enabled`). Of an entry that is an
   empty file, or has only comments, `loadPluginEntryDocument` returns a root that
   is not part of the document it returns (`config_update.go:487`).
   `SetPluginEnabled` changes that root, saves `{}` and reports success: the plugin
   stays enabled. `EditsTake` leaves empty files out and holds.
4. **Replies to webhook events** (`Webhooks_reply`). The webhook handler gives
   `emit` the request's context (`http.go:95`). With workers, which is the default,
   `emit` returns as soon as the event is in the channel (`app.go:169`), the request
   is answered and net/http ends its context, while the event carries it to its
   handlers: a handler that runs after that calls `Reply`, an action or the store
   with a context that is done, and is refused. Observers are protected from this
   (`observer.go:128`, `WithoutCancel`). Without workers a handler is cancelled only
   if the client has gone, and the answer always holds (`AnswersHold`).

Seen while modelling, not stated as findings because no document speaks against
them, because the words leave room for it, or because a run of its own was not worth
its place:

- With several workers the events of a conversation are handled one at a time but
  not in order: two workers that have taken consecutive events race for the lock
  (`options.go:93` speaks of order). With one worker the order is kept
  (`SingleInOrder`).
- A call that registers between `replaceConn`'s change of `peer.conn` and its
  `failPending` picks the new connection and is failed for the old one's
  (`socket.go:132`).
- An event that is queued when its reverse connection ends has the context of that
  connection's request, so what finding 4 says holds of it too.
- A task whose registration has read the runner can be started after the runtime
  has waited for its tasks, and then runs beside the shutdown hooks
  (`ShutdownAfterTasks` names these tasks `late`). A critical task that fails
  between `fatalErr` (`app.go:179`) and the join loses its error. A start hook that
  fails skips all shutdown hooks, also those of start hooks that have succeeded.
- A middleware given to a context's `Use` applies to routes registered before,
  too, since chains are built at dispatch; the comment speaks of subsequent routes
  (`sdk/context.go:140`).
- A limiter on the root router counts an event once for each route that matches
  it, so a message that two plugins handle uses up two.
- An escaped blank at the very end of a command is trimmed and leaves its
  backslash behind (`Typable` leaves such words out). A backslash escapes between single
  quotes as well.
- Nothing keeps two processes apart that write one entry, or a process and the
  host: the mutex of the configuration store is the host's own. The properties of
  `Project` say which of them need to be `alone`.
- A crash between the two halves of a rollback's write leaves an empty file; an
  empty entry counts as enabled. `ReportsForetellStart` still holds of it.
- `config sync` writes an entry back that has nothing to be filled in if its file
  is empty.

## 7. Not modelled

- Of the HTTP transport the checks that refuse a request before there is an event,
  and the building of an action call.
- Data types and conversions of events and messages, the hundred wrappers of the
  action client, option setters, accessors of contexts, rules other than commands
  and dialogues (they answer either way here), quick operations: no state, and
  matters of plain tests.
- Test kit, scaffolding, YAML text substitution, templates, process start-up,
  `init`, `dev` and `list`, the doctor's network checks, built-in and example
  plugins: they write nothing that another part reads back concurrently, or are
  users of the SDK.
- Durations: of backoffs, deadlines and timeouts, which are nondeterministic
  choices here, so is the length of the reconnect wait (`ws_client.go:48`).
- Abstracted inside the models: letters have no case; a plugin's own `Validate`
  accepts what can be decoded; comments and the layout of YAML; one store per
  file; the options of adapter and store in `config/anybot.yaml`; editors of the
  command line are taken to have the binary's registry (`Known`); the go command
  as far as it edits requirements and replacements; reports read the files while
  nobody writes to them.
