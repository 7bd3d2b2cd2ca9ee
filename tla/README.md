# ai-adp in TLA+

Specifications of ai-adp, an AI application platform in Go. What it does under
concurrency is run agents: a chat request starts an execution in a goroutine,
its events go to any number of subscribers and, for a resumable task, into a
Redis stream; clients may cancel the task through any instance, leave it, and
come back for what they missed. Around that sit the tables a request is looked
up in, two cache drivers, an error pipeline, and a process that starts, registers
with a gateway and shuts down. The modules here model and check
these, and prove of them every safety property they check.

`tlc -config <run>.cfg <module>` checks a run (`PROJECT.json` names the module),
`tlapm <Module>Proofs.tla` checks the proofs.

## 1. Inventory

| Component | Code (`src/`) | State | Operations | Talks to |
|---|---|---|---|---|
| Agent executor | `internal/domain/agent/executor/executor_impl.go` | status, output, err, subscriber channels, two contexts | `Start`, `Publish*`, `Complete`, `Fail`, `Cancel`, `Subscribe`, `SetExecContext` | subscribers through channels of capacity 100; the event store, called under the mutex |
| Event store | `internal/infrastructure/agent/stream/event_store.go` | one Redis stream and its expiry per task | `Append`, `ReadAfter`, `SetTTL`, `Exists`, `Delete` (no caller) | Redis |
| Registries | `agent/cancel/memory_task_registry.go`, `agent/stream/executor_registry.go` | task ID to cancelFunc; task ID to executor | `Register`, `Unregister`, `Cancel`, `Get`, `DelayedUnregister` | orchestrator, cancel handler, broadcaster, reconnect |
| Chat task | `application/chat/**`, `infrastructure/protocol/*.go`, `chat_handler.go` | request goroutine, agent goroutine | `Chat`, `Execute`, `executeAgent`, `HandleExecution` | all of the above |
| Reconnection | `Reconnect`, `handleReconnect`, `StreamReconnect`, `HandleReconnection` | cached events, `lastSentID`, live channel; the client's Last-Event-ID | check, look up, read, replay, subscribe, forward | event store, executor registry, executor |
| Cancel | `cancel_handler.go`, `redis_cancel_broadcaster.go` | none; one subscriber goroutine per instance | `Cancel`, `Broadcast`, `Subscribe` | task registries of all instances, Redis pub/sub |
| Agents | `infrastructure/agent/adapter/*.go` | content and usage accumulated so far | `Execute`, `handleStreamingResult[WithTools]` | the model libraries; the executor |
| Builder, factories, tools | `agent_builder_impl.go`, `agent_factory.go`, `model_factory.go`, `tool_adapter.go` | none | build configuration objects | repositories |
| Apps, versions, API keys | `domain/app/**`, `app_repo_impl.go` | three tables | find, save, publish, archive, revoke, delete | chat task (three reads per request) |
| Tenants, model configurations | `domain/tenant/**`, `domain/model/**` | tables | create, activate, suspend, enable, delete | factories |
| Caches | `infrastructure/pkg/cache` | key to value with lifetime | `Put`, `Get`, `IsExist`, `Delete`, `BatchDelete`, the collector | Redis, or nobody |
| Pipeline | `infrastructure/pkg/errors/pipline.go` | functions, finalizers, one errgroup | `Execute`, `ExecuteParallel`, `ExecuteParallelWithLimit` | no caller in this revision |
| Lifecycle | `cmd/app`, `di/app.go`, `server/http`, `server/health`, `wire_gen.go` | package variables, servers, gateway instances | initialise, start, register, wait, stop | gateway, Redis, clients |
| Config, db, logging, telemetry, routing | | package variables | set up once | Lifecycle |
| Embedding; conversation, knowledge, prompt, usage | | none | nothing calls the first; the others are empty packages | |

Hard behaviour, and where it sits: interleaving of publisher, canceller and
subscribers (executor); deferred clean-up against cancels (registries); messages
lost between instances and crashes half-way through a cancel (cancel); the
window between the read of the cache and the subscription, string stream IDs,
expiry while a task runs (reconnection); contexts that end while a store call is
due (executor and store); whole-row saves of stale objects and reads in several
statements (tables); a collector that deletes by key (cache); a listener that
fails after Start looked, and one budget for a shutdown in many steps
(lifecycle). `PROJECT.json` lists each hazard at its line with the properties
that cover it.

## 2. Modules

| Module | Models | Extends |
|---|---|---|
| `EventStore` | the stream and its expiry; a call's outcome is `ok`, `noexpire`, `lostreply` or `fail` | |
| `AgentExecutor` | one execution; one action per method | `EventStore` |
| `ExecutionFeed` | what an execution promises its readers, abstractly | |
| `ChatTask` | request goroutine, agent goroutine, registries, canceller around one executor | `AgentExecutor` |
| `SSEReconnect` | the client and its reconnections on top of that | `ChatTask` |
| `CancelBroadcast` | several instances, their registries and listeners, cancel requests, lost connections, crashes | |
| `TaskCancellation` | what cancellation promises, abstractly | |
| `AgentStream` | one run of an agent through either stream handler | |
| `AgentRun` | what such a run tells its followers, abstractly | |
| `Catalog` | apps, versions, keys, models and tenants as rows; writers; the reads of a chat request | |
| `Cache` | both drivers, concurrent calls, the clock and the collector | |
| `Pipeline` | the three ways to execute, repeatedly | |
| `AppLifecycle` | one process from initialisation to exit | |
| `AgentExecutorProofs`, `AgentStreamProofs`, `AppLifecycleProofs`, `CacheProofs`, `CancelBroadcastProofs`, `CatalogProofs`, `PipelineProofs` | theorems about the module named | that module |
| `ChatTaskProofs` | theorems about `ChatTask` and `SSEReconnect` | `SSEReconnect`, `AgentExecutorProofs` |
| `MC*` | the symmetry sets of TLC instances | |

Three models are refined by others that carry more: `ExecutionFeed` by
`AgentExecutor` (`ImplementsFeed`), `AgentExecutor` by the composition `ChatTask`
(`ExecutorContract`), `TaskCancellation` by `CancelBroadcast`
(`ImplementsCancellation`), and `AgentRun` by `AgentStream` (`ImplementsRun`).

### How state and actions correspond to the code

*AgentExecutor.* `status`, `output`, `err`, `reg` are the fields of
`agentExecutorImpl`; `buf` and `chst` are the contents and the state of the
channels `Subscribe` made. `emitted` (the log), `got`, `join` and `lost` are
history variables that no guard reads, except for the bound `MaxPublish`. Every
method runs under `e.mu`, so it is one action, its Redis calls included: nobody
can observe the executor between the broadcast, the close and the `SetTTL`.
`Publish*` only take the read lock; they cannot interleave with each other
because one goroutine calls them, and they cannot interleave with anything that
takes the write lock. `End` is the common body of `Complete`, `Fail` and
`Cancel`. `Start`, `Publish*` and `SetExecContext` check nothing: the contract
their callers keep (`StartOnce`, `PublishRunning`, `SetExecContextOnce`) is part
of `Next` here, and `ChatTask` uses the bare methods and shows, as
`ExecutorContract`, that its composition implements `AgentExecutor!Spec`.

*EventStore.* A stream ID is the position of the event in the log: only that IDs
increase matters, except where they are compared as strings (`StringLE`). A call
whose context is done fails without effect, as go-redis does. Expiry counts
ticks; a tick stands for about 30 s.

*ChatTask.* `req` is the program counter of the request goroutine, `agent` of
the one `Execute` launches; steps that touch only goroutine-local data are
merged into their neighbours. `CancelLoads` and `CancelCalls` are the two halves
of `MemoryTaskRegistry.Cancel`. The deferred calls of the goroutine are two
steps, in the order Go runs them. The agent itself is an oracle here: it
publishes, then returns success, an error, or `context.Canceled`, the last only
when its context is done; `AgentStream` is that oracle in detail.

*SSEReconnect.* `link` is the client's connection and the program counter of the
reconnect handler. The first connection is the request goroutine of `ChatTask`.
An abandoned reconnection leaves a subscribed channel nobody reads, which fills
up and is ignored; the model leaves it out of `got`. The instance that serves a
reconnect may be another one, which never finds the executor.

*CancelBroadcast.* `task`, `ctx` and `home` describe a task, `reg` is
`MemoryTaskRegistry` per instance, `inbox` the Go channel go-redis fills, `sub`
what the listener has loaded, `req[q].step` the program counter of a cancel
request. Load-and-delete and the call are two steps in the request (`CancelLocal`,
`CallLocal`) and in the listener (`Receive`, `CallReceived`). A publish that
fails reaches nobody, or everybody with only the reply lost; either way
`cancel_handler.go` answers success. A disconnected instance misses what is
published; a crash takes the tasks, the registry, the channel and the requests
of its instance. `asked` and `lost` are history. Event data, and what an
executor does when its context ends, are the other modules' subject.

*AgentStream.* The two handlers are one, told apart by `handler`, because the
second repeats the first and adds tool calls and results. `pc` says where the
goroutine is: asking the iterator (`next`), draining a stream (`recv`), between
the usage event and `Complete` (`complete`), back in `executeAgent` (`unwind`).
A streamed tool call is announced once per piece that carries one, unnamed after
the first. The iterator, the streams and the tools are external; that they report
`context.Canceled` only when the context is done is the one thing assumed of
them. The messages sent to the model are left out: the chat service passes no
history.

*Catalog.* A row is its status and the one datum properties tell apart (the
model a version configures). A writer loads an object, may change it by one
domain method, and saves it whole: an UPDATE of every column, or an INSERT when
that met no row; the changed object exists only in the writer until then, so the
domain method is part of the save. Statements are atomic, no transaction spans
them. A chat request reads key, app, published version and model in four steps.
In this revision only tenants have a caller over HTTP; the other writers use the
repositories' interfaces. With two published versions (nothing prevents it,
`docs/plans/2026-03-07-ai-engine-redesign.md:84` expects the former to be
archived) the oldest is served. A model's `enabled` flag is not looked at by a
chat request, nor here. IDs are UUIDv7, so numbers in order of creation.

*Cache.* `op[c]` is the call of a client and how far it has come; each
`sync.Map` operation and each Redis command is a step, the clock may move
between any two. `IsExist` loads twice. The collector ranges over the map and
deletes by key what it found expired. An item is known by the number of the call
that stored it. `owed`, `saw` and `raced` are history. `BatchDelete` scans with
a cursor: keys that exist throughout are found, keys added meanwhile may be.

*Pipeline.* `fn` says how far each function is; `gerr` is the error of the
pipeline's own errgroup, which keeps it (and its done context) when the pipeline
is executed again, `lerr` that of the group of a limited call. A panic inside an
errgroup's goroutine is left out (it ends the process).

*AppLifecycle.* `pc` walks through Wire's order (`WireOrder`), then the servers'
start, registration, wait and shutdown as in `di/app.go` and `cmd/app`. Each
provider reads package variables (`reads`), sets others, and may fail; `early`
records what was read before it was set. `http` is the listener and its own
goroutine: it binds, or fails before or after `Start` has looked at its error
channel. Open requests, the tasks they started, two signals and the five-second
budget run alongside.

Definitions named *Faulty* are plausible bugs (a dropped guard, a swapped
order, a missing close). No specification uses them; each shows, put in the
place of the definition that follows it, that a property can fail.

## 3. Runs

| Run | Checks | Instance |
|---|---|---|
| `AgentExecutor` | `OneOutcome`, `Accounted`, `DrainedKnowsOutcome`, `StoredWithoutHole`, refinement `ImplementsFeed` | 2 subscribers of capacity 2, logs of up to 4 events, all Redis faults |
| `ChatTask` | `BlockingReplyTruthful`, `StreamTellsOutcome`, `Reachable`, `DetachedFromClient`, refinement `ExecutorContract`, liveness `CancelledTaskEnds`, `RequestAnswered`, `RegistriesForget` | 2 channels of capacity 1, `MaxPublish` 3, healthy Redis |
| `SSEReconnect` | types of the four stacked modules, `NoDuplicates`, `LossesExplained`, `StoredIsPushed` | `MaxPublish` 4, stream IDs in base 2 so that they gain digits, replays cut short at one event |
| `SSEReconnectLiveness` | liveness `OutcomeTold` | `MaxPublish` 2, failing store calls, one dropped reconnection |
| `CancelBroadcast` | `RegistryIsTrue`, `AnswerExplained`, refinement `ImplementsCancellation`, liveness `AskedStops` | 2 instances, 2 tasks, 2 requests, 1 lost connection or crash |
| `AgentStream` | `ContentTold`, `UsageTold`, `CallsBeforeResults`, refinement with liveness `ImplementsRun` | 4 yields, 2 texts, 2 usages |
| `Catalog` | `NothingReverts`, `RunsWhatWasPublished`, `NothingRunsOnceTaken` | 2 writers, 1 request, 2 versions, 2 models, 2 writes to the tables |
| `Cache` | `ReadExplained`, `KeptUntilDue`, `BatchRemoves`, liveness `ExpiredCollected` | 2 clients, 2 keys, 3 calls, 2 ticks, both drivers |
| `Pipeline` | `FinalizersLast`, `AnswerTruthful`, liveness `CallReturns` | 3 functions, 2 finalizers, limits 0 to 2, 3 executions |
| `AppLifecycle` | `ServesWhenReady`, `RoutedToServer`, `RedisOutlivesRequests`, liveness `SignalEnds` | every configuration, 2 clients, 2 signals |

What the passing runs show beyond "it works" is what the properties had to
admit. A stream ends without its last event if the channel was full, or the
execution was cancelled before the handler subscribed. A reconnecting client
loses what falls in the window between cache and subscription, what lay beyond
the COUNT of a replay that went live, what met the full channel of a connection
that went on, and what was mistaken for a duplicate because its ID has gained a
digit, and nothing else; an event whose write failed is never pushed to it, and
one that was stored although its write was reported as failed may reach it twice. An answered cancellation takes effect unless the
task's instance was not listening. A cancelled or timed-out read of the cache
aside, a memory `Get` may answer "expired" although a `Put` has just replaced the
entry, the collector may delete that `Put`, `IsExist` reports an error of Redis
as absence, and `BatchDelete` reports only the last `Del`'s error. A key that
was revoked comes back to life only through a save of a stale object, or by the
insert of a row that had been deleted. An instance whose listener failed after
`Start` had looked stays registered. A pipeline executed twice in parallel
answers the first error again, and one with limit 0 never returns.

Runs that end in a counterexample, because the code differs from its own
documents (the quotes are in `PROJECT.json` under `findings`):

| Run | What it shows |
|---|---|
| `ReconnectLoss` | subscribe comes after the replay, so events in between are lost |
| `CancelledNotStored` | the cancelled event is stored with the context that was just cancelled, so it never is |

Deviations visible in the models without a run of their own: a cancelled
execution replays no event to a late subscriber; a cancelled blocking request is
answered "no output produced"; the stream of a task that stays silent for the
TTL expires while it runs; stream IDs are compared as strings; the usage of an
agent's earlier turns is not in the reported one.

### Bounds

Two subscribers are enough for two readers to differ in everything that depends
on a channel (joined before or after, full or not, open or closed); nothing
relates three. Capacity 2 (1 in `ChatTask`) makes a channel hold several events
and overflow within the log. `MaxPublish` stops publishing, not ending. One
content type, one output and one error stand for all, since no guard looks at
them. `DefaultTTL` 1 and `TerminalTTL` 2 ticks let the stream expire before and
after the end. `Radix` 2 stands for 10, so that the fifth event's ID
is ordered wrongly; `MaxReplay` 1 stands for 10000 in `SSEReconnect`, so that a
replay of two events is cut short, and is out of reach in the other runs. Each
cause in `LossesExplained` occurs in that run but `Mistaken`: a live event must
be skipped and a later one of the same connection pushed, which takes seven
events in any base, more than TLC can do here; likewise the duplicates a lost
reply makes. The theorems cover both. Store faults are off in `ChatTask` and
`SSEReconnect`, which are about the goroutines and the handlers; `AgentExecutor`
has all of them and `SSEReconnectLiveness` failing calls.

Two instances, tasks and requests in `CancelBroadcast` give a task at home and
one elsewhere, two requests for one task, and a request that meets a crash; one
fault is enough to lose a message, a task or a request, and the theorems hold
for any number. `MaxWrites` 2 lets a stale object be saved over a change;
`MaxYields` 4 gives a tool call, its result and two more pieces. Three functions
are one more than the largest limit, three executions let the group's error be
told twice. Two signals are what the channel and the second `Notify` can tell
apart. Symmetry is used for subscribers in `AgentExecutor` and `SSEReconnect`,
and for writers in `Catalog`, which check no liveness. Tasks, calls and processes
really stop, so deadlock is not checked.

### Fairness

Go schedules runnable goroutines and fires timers: the steps of the request
goroutine, deferred calls, a cancelFunc that was loaded, the listener of a living
instance, a function of a pipeline, the collector and the clock it waits for are
weakly fair. An agent is only required to return once its context is done,
because the HTTP libraries under it honour contexts; an agent nobody cancels may
run for ever. Clients owe nothing: no fairness makes them leave, finish a request
or cancel. Nothing makes an instance reconnect or restart, a broadcast succeed,
or the gateway answer a registration (it has no deadline); the shutdown budget
does end. Only `OutcomeTold` assumes a client that keeps reconnecting, which is
what it is about, and that a read of the store that keeps being tried succeeds
some time (strong fairness of `ReadCache`).

## 4. Proofs

*AgentExecutorProofs*, for every set of subscribers, every capacity, every bound
and every combination of faults:

- `TypeCorrect`: `Spec => []TypeOK`. TypeOK is inductive.
- `ChannelsClosedAtEnd`: `Spec => []ClosedIffEnded`. The invariant needs
  `OpenIsRegistered` besides: an open channel is in `reg`, otherwise the end of
  an execution could leave it open.
- `OutcomeIsUnique`: `Spec => []OneOutcome`, by the lemmas on what one broadcast
  appends to the log.
- `EndStaysFinal`: `Spec => EndIsFinal`, a property of single steps from typed
  states: no result changes and nothing enters a closed channel.
- `DeliveryInOrder`: `Spec => []InOrder`. `InOrder` speaks of `got \o buf`, one
  sequence; the inductive invariant `FeedInv` keeps the two apart (each ordered,
  all of the first before all of the second), and adds that every event in them
  is the log's event of its position, from after the subscription, and that log
  event i has position i. Two lemmas on concatenation give `InOrder` back.
- `FeedImplemented`: `Spec => ImplementsFeed`. A broadcast maps to `Emit`, or to
  `Finish` when it is the end; `Subscribe` to `Attach`; `Receive` to `Hand`, or to
  a stutter when the event is synthetic; everything else to a stutter. `FeedInv`
  gives what the guard of `Hand` asks for.
- `NothingUnaccounted`: `Spec => []Accounted`, from `FeedInv` and `Unlost`, which
  says that nothing lost was seen; one lemma says which positions a broadcast
  puts into a channel or adds to `lost`.
- `DrainedToldOutcome`: `Spec => []DrainedKnowsOutcome`. `Early` and `Late` say
  where the last event of an ended execution is for a subscriber from before the
  end and for one from after it, to whom `Subscribe` has replayed the outcome.
- `StoreHasNoHole`: `Spec => []StoredWithoutHole`, inductive with `TypeOK`:
  expiry takes the whole stream, a write appends the next position.

*ChatTaskProofs*, for any number of channels, any capacity, any COUNT and base of
the stream IDs and all faults of Redis. Of a task (`TaskSpec`):

- `ContractKept`: `TaskSpec => ExecutorContract`, the refinement of
  `AgentExecutor` by the composition. The executor's methods check next to
  nothing; `Phase` relates where the two goroutines are to the status of the
  executor, and gives the guards `AgentExecutor!Next` has. The theorems above
  then hold of the executor in a task.
- `BlockingTellsTruth` (`BlockingReplyTruthful`), `StreamToldOutcome`
  (`StreamTellsOutcome`): a reply is read off an execution that has ended, which
  nothing changes any more (`Answers`); with `DrainInv` of the executor the
  second follows.
- `AgentReachable` (`Reachable`), `SurvivesClient` (`DetachedFromClient`), from
  `Registered`: a cancelFunc is in the registry, or loaded, or was called.
- `TaskTypeCorrect`.

And of the client that reconnects (`ReconnectSpec`). The invariants of the task
are proved of steps that another reader of the executor may make (`Move`), and
so hold here too; `ReconnectKeepsContract` says that the executor's contract does.

- `LiveSkipsOnlySent` (`StoredIsPushed`), `NothingTwice` (`NoDuplicates`),
  `EveryLossHasItsCause` (`LossesExplained`), `ReconnectTypeCorrect`, from one
  invariant. `IDInv` says what IDs the copies of an event carry. `Cursor` says
  that whatever has an ID and was received is not after the client's last ID,
  and that whatever is stored and not after it is explained. `Replaying` says
  that an entry after the cursor is still to be replayed, or is after everything
  that is and then, if the handler will go live, in the window or beyond the
  COUNT; `Following` says the same of entries from before the subscription.
- `StringsMistakeOnlyLonger`: `StringLE` puts a later ID first only when it has
  more digits. `Digits` is a recursive function, and induction is out of the
  prover's reach; that it is defined everywhere, and that of two numbers the
  smaller has fewer digits or a smaller first different one, is proved by least
  counterexample on explicit finite functions (`LeastNat`, `DigitsUnique`,
  `DigitsExist`, `DigitsOrder`).

*CancelBroadcastProofs*, for any number of instances, tasks, requests and faults:

- `CancelTypeCorrect`, `RegistryStaysTrue`, `AnswersExplained`: types,
  `RegistryIsTrue` and `AnswerExplained`, from one inductive invariant. Types
  alone are not inductive, since a request appends its task to inboxes: `Asked`
  adds that whatever travels names a task somebody asked for. `Located` adds that
  a loaded cancelFunc is held only where its task runs, so that a crash cannot
  take the one and leave the other. `AnswerExplained` then rests on
  `RegistryIsTrue`: a message that is received and finds nothing means that the
  task is being cancelled already.
- `OnlyAskedIsCancelled`: `Spec => ImplementsCancellation`. Only the steps of a
  task, the two calls of a cancelFunc and a crash move what a task looks like;
  `Asked` gives the guard of the abstract cancellation.

*PipelineProofs*, for any number of functions, finalizers, limits and calls:
`PipelineTypeCorrect`, `FinalizersComeLast`, `LimitHolds` (`WithinLimit`),
`FirstErrorIsKept` (`FirstErrorStays`) and `AnswersAreTruthful`, the last from an
invariant that ties each error to a function that failed.

*AgentStreamProofs*, for runs of any length, any texts and usages, and either handler:

- `SaidIsTold` (`ContentTold`): the texts in the log are what the model said, in
  order, and so is the output of a completed run.
- `ResultsFollowCalls` (`CallsBeforeResults`), from the same `Ledger`: which
  texts, how many named calls and how many results are in the log. Both are
  stated by the positions in the log that carry a type and by how many there are
  up to one, rather than by a recursion that picks them; `OneMore` says what an
  append does to such a count.
- `LastUsageIsTold` (`UsageTold`): `UsageInv` says at each point of the handler
  where in the log the usage is.
- `RunStepsKept`: every step is a step of `AgentRun` or changes nothing
  `AgentRun` speaks of, the safety half of `ImplementsRun`. The handler and
  `executeAgent` may each end the execution; `TellInv` says for each cause which
  of them has done so at each point, hence exactly one terminal event is told and
  it agrees with the cause. `EventsInv` adds that what was published before the
  end is content.
- `StreamTypeCorrect`.

*CatalogProofs*, for any number of versions, models, writers and requests:
`DecisionsStand` (`NothingReverts`), `RunsPublished` (`RunsWhatWasPublished`),
`TakenStaysTaken` (`NothingRunsOnceTaken`) and `CatalogTypeCorrect`. The
invariants speak of rows and a save writes an object, so the strengthening is
about objects: `CopyInv` says that an object nobody overtook is its row, so that
the guard of the domain method held for the row as well, and that an overtaken
one never becomes current again, so that its save is counted in `odd`. `ReqInv`
says what each of a request's statements has established for the next.

*CacheProofs*, for both drivers and any number of clients, keys, lifetimes and
calls: `ReadsExplained` (`ReadExplained`), `ItemsKept` (`KeptUntilDue`),
`BatchesRemove` (`BatchRemoves`) and `CacheTypeCorrect`. What is expired stays
expired, so the item the collector holds is (`GcInv`). `ReadInv` says that a read
in progress has seen what its key shows now, and that whoever checks the expiry
of an item has seen that item or its absence. `BatchInv` says that the keys a
`BatchDelete` does not hold any more are done with.

*AppLifecycleProofs*, for every configuration, any clients and any number of
signals: `ServesOnlyWhenReady` (`ServesWhenReady`), `RoutesExplained`
(`RoutedToServer`), `RedisOutlives` (`RedisOutlivesRequests`) and
`LifecycleTypeCorrect`. None is inductive alone, since what the process has
depends on how far its main goroutine is: `Initialized` says it of the package
variables and of Redis, `Serving` of the listener, `Known` of the gateway's
routes, `Stopping` of the budget and the open requests.

The assumptions are those the modules name: positive capacity and TTLs, content
types that are not terminal types, sentinels outside the sets they extend,
natural bounds.

Only model-checked: what needs fairness, since the prover handles neither it nor
ENABLED. These are the liveness properties of the runs (`CancelledTaskEnds`,
`RequestAnswered`, `RegistriesForget`, `OutcomeTold`, `AskedStops`,
`ExpiredCollected`, `CallReturns`, `SignalEnds`) and the fairness half of
`ImplementsRun`. Every invariant, action property and refinement of the passing
runs is a theorem. The two runs that end in a counterexample have nothing to
prove: there the models are the evidence. `FoldSet` in `Catalog`, a recursion
over sets, bounds the writes, and no proof uses anything of it.
