# TLA+ models of djangorestframework-mcp-server

This directory holds formal models of the parts of `rest_framework_mcp` whose
correctness depends on the order in which things happen, or on several decisions
agreeing with one another: tasks that outlive their request, server push with
replay, streamed responses fed from threads, subscriptions, sessions, rate
limits, the gates of a tool call, chains, reads, and what registration promises a
later call. TLC model-checks them on small instances; TLAPS proves the central
results for any number of tasks, streams, calls, requests and sessions.

```
tlc -config MCTasksRaces.cfg MCTasks     # a run: its cfg and its module
tlapm StreamsProofs.tla                  # proofs
```

`PROJECT.json` lists the components, the runs, the mutants that show each
property can fail, the source lines behind each definition, the disagreements
found between code and documentation, the hazards and the theorems.

## 1. The system

`MCPServer` (`server/mcp_server.py`) exposes registered Django REST framework
services and selectors as MCP tools, resources and prompts. Requests arrive at
a synchronous or an asynchronous viewset (`transport/`), are routed to one
handler each (`handlers/`), and run code of the consumer's project under the
server's permissions, rate limits and output rules.

| Component | State | Operations | Meets others through |
|---|---|---|---|
| Task lifecycle (`tasks/`, `handlers/handle_tasks_*`) | one `TaskRecord` per id, in a store without locks | `create_task`, `run_task`, `transition_task`, `report_task_progress`, `tasks/get`, `tasks/cancel`, `tasks/update` | the consumer's queue, the store, `publish_task_status` |
| Cache task store (`tasks/django_cache_task_store.py`) | an envelope with the record and its absolute expiry | `create`, `get`, `save` | Django's cache and its clock |
| Session push (`transport/*sse*`) | a queue per session and process, a ring of recorded events, the generators | `notify`, GET, `subscribe`, `unsubscribe`, `record`, `replay`, `forget` | Redis, the client's `Last-Event-ID` |
| Streamed response (`transport/response_stream.py`) | a counter and the last value under a lock, an asyncio queue | reports from threads, the end of the dispatch, the generator | the event loop's ready queue |
| Tool calls (`handlers/handle_tools_call*.py`, `task_dispatch.py`, `input_dispatch.py`) | none of their own; the limiter's quota, signed states held by clients | the gates of section 4.6 | tasks, elicitation, subscriptions, the service |
| Rate limiters (`auth/rate_limits/`) | counters in the cache | `consume` of a fixed window, a sliding window, a token bucket | tool calls, resources, prompts |
| Subscriptions (`subscriptions/`, `transport/subscription_stream.py`) | topics to queues; Redis channels | grant, subscribe, acknowledge, publish, close | invalidations, task status |
| Sessions and endpoints (`transport/*session_store.py`, the viewsets) | owner and creation time of each session; the registry of streams | POST, GET, DELETE of both eras; `create`, `owner`, `destroy` | every handler |
| Chain tools (`handlers/chain_tool_dispatch.py`) | the chain's context, a transaction | steps, conditions, rollback | services and selectors |
| Selector tools, resources, prompts, completion (`handlers/`) | a lazy queryset | the stages of a read | permissions, limiters |
| Inputs (`adapters/utils.py`, `schema/`) | none | registration checks, `inputSchema`, the pools a call is run with | registries, tool calls |
| Registries, catalogue, pagination | bindings in registration order | `register_*`, the four listings, cursors | permissions, conditions |
| OAuth, auth backends, config, testing, observability, UI | none of their own | request-scoped checks, glue | |

The behaviours that are hard:

* **Read-then-write without a lock.** No store does compare-and-swap. Each
  change of a task is a `get`, a test and a `save` of the whole record; worker,
  cancel, update and progress report interleave between them. The session
  store and two of the rate limiters have the same shape.
* **At-least-once delivery and crashes.** The queue may deliver twice, before
  the creating request has finished, or again after a worker died.
* **Two channels for one event.** An event is in the replay ring and in the
  live queue; a reconnecting client must get it once at least, in spite of
  replaced streams, full queues, eviction, and several worker processes.
* **Check first, register later.** The caps on session streams and on
  subscriptions are tested when the request is handled and take effect when the
  response body is first read.
* **Threads under an event loop.** Services report from threads while the loop
  writes; a deadline or a disconnect ends the waiting and not the thread.
* **Two checks of one call.** Answers to a form change the arguments after the
  first permission check; a task is judged in the request and again in the
  worker; a chain is judged as a whole and again step by step; grants may change
  between.
* **Two readings of one declaration.** Registration, the schema, the listing and
  the dispatch each decide who fills a name, what a tool emits and whether it is
  offered.

What makes each component correct, informally: a task is stored before anyone can ask
for it, runs once, ends once and ends at all; a cached task lives as long as was
promised, and longer only by what its writes give it; a client that reconnects misses
nothing the server still had; progress is capped and precedes the response; a service
runs only on arguments that were judged, that its caller or the server gave, and that
were paid for once; a subscriber hears exactly what was granted, after the
acknowledgement, and only of what was committed; a session serves its owner for as
long as its two settings say; a rate limit admits no more than its quota; an atomic
chain leaves all or nothing; a call is never run short of an argument registration let
it require; a listing is what a walk through its pages delivers; a read says when it
is cut.

## 2. Modules

| Module | Models | Kind |
|---|---|---|
| `Tasks` | the task lifecycle, all actors | specification |
| `OneWayTask` | the status a client is promised | abstract specification |
| `TaskCache` | `DjangoCacheTaskStore` and time | specification |
| `SsePush` | the push channel of one session | specification |
| `ResponseStream` | one streamed POST | specification |
| `Subscriptions` | `subscriptions/listen`, both brokers, invalidations | specification |
| `RateLimits` | the three limiters and the loop over a binding's limiters | specification |
| `ToolCall` | the gates of service tool calls, and their replays | specification |
| `Endpoint` | the handlers of the two viewsets, sessions, the cap on streams | specification |
| `Chain` | calls of chain tools | specification |
| `Reads` | one read through each of five doors | specification |
| `Inputs` | the names of a tool's inputs: refused, offered, filled | specification |
| `Registry`, `Catalogue` | registration; the listings, page by page | specifications |
| `Checks`, `Selections` | a sequence of checks and its verdict; the part of a sequence that satisfies a test | operators |
| `SequenceLemmas` | facts about flattened sequences, cuts, selections, and boxes that hand on their contents | lemmas |
| `TasksProofs`, `SubscriptionsProofs`, `ToolCallProofs`, `EndpointProofs` | theorems about the modules they are named for | proofs |
| `StreamsProofs`, `CacheProofs`, `ServerProofs` | theorems about `SsePush` and `ResponseStream`; `TaskCache` and `RateLimits`; `Chain`, `Inputs`, `Reads`, `Registry` and `Catalogue` | proofs |
| `MC...` | instances for TLC | model checking |

`ToolCall` stands above `Tasks`: it takes "the task is stored, queued and
replayed" as one step (`TaskCreate`), because `Tasks` shows what lies inside
that step; and above `RateLimits`, charging in one step. `TaskCache` stands below
`Tasks`: it justifies `Expire`, the action by which a record disappears on its own.
`Catalogue` extends `Registry`, whose registrations go on between two pages.

Subsystems that share no state are instantiated side by side in one module for
TLC: `MCStreams` (`SsePush`, `ResponseStream`), `MCStores` (`TaskCache`,
`RateLimits`, `Subscriptions`), `MCServer` (`Chain`, `Inputs`, `Catalogue`,
`Reads`). A variable `subject`, chosen at the start, names the one that moves; the
others stay as they begin. Nothing is lost by this: with no shared variable, a
state of several moving subsystems tells no property more than the states of each,
and the state space is their sum and not their product.

In every module, variables marked *history* record what happened for the
properties and constrain no action. A definition marked *Mutant* is a plausible
mistake in the code; it belongs to no specification and exists so that the
property it breaks can be shown to be able to fail.

## 3. Plan

Done: every module of section 2, with the runs of section 4 and the proofs of
section 6. Every safety property, action property and refinement that a passing run
checks is stated by a theorem. What is left is of the model, not of its proofs:
further conversions with reference definitions (cursors that do not decode, URL
templates, `server/discover`), and object-level permissions of a service call.

## 4. The models and their runs

### 4.1 `Tasks`

State: `rec` is the store, `queue` the messages in the consumer's queue, `web`
the progress of each `create_task` call, `pc`/`job`/`seen`/`want` the local
state of each worker and each client request (`seen` is the record a process has
read and will write back), `announced` the statuses published so far.

| Code | Actions |
|---|---|
| `create_task` | `CreateSeed`, `CreateEnqueue` or `CreateEnqueueFails`, then `CreateMark` or `CreateSaveFailed` |
| `run_task` | `DeliverRefused`, `DeliverClaimable`, `WorkerClaim`, `ContextRaises`, `Finish` |
| `report_task_progress` | `ReportGet`, `ReportSave` |
| `transition_task` and `publish_task_status` | `TransitionGet`, `TransitionRefused`, `TransitionSave`, `Publish` |
| `tasks/get`, `tasks/cancel`, `tasks/update` | `TasksGet`, `TasksCancel`, `TasksUpdate`, `TasksUpdateSave`, and the refusals |
| a service that asks its client | `Park`, `Resume` (the consumer's code) |
| the environment | `Redeliver`, `WorkerCrash`, `WebCrash`, `Expire` |

One action is one access to the store, or one hand-over to the queue, because
those are the points where other processes can act. `EarlyDelivery` says whether
the queue may deliver before `create_task` has returned; `enqueue` may raise
although the broker took the message.

* `MCTasksRaces`: one task, two workers, two client requests, a redelivery, a
  crash, a context factory that raises, a queue that may deliver early, and a
  store that may drop the record between any two steps (a late save brings it
  back). A hand-off involves one task only, and tasks share no state, so one
  task suffices; two workers and two requests are the least in which both kinds
  of write-back race with one another and among themselves. Hand-off and claims
  are exclusive, and a finished task changes only through a stale copy.
* `MCTasksFair`: one worker, a client that reads and answers and awaits each reply
  (`Serial`), two calls, two questions, a progress report and a redelivery, under
  `FairSpec` (section 5). The machine implements `OneWayTask`
  (`ImplementsOneWayTask`, by the mapping `status[t] = rec[t].status`), answers
  stay, every task resolves and its end is announced.
* `MCTasksEarly`: the same liveness with a queue that may deliver before
  `enqueued` is saved. It fails: section 7.

`ReopenedOnlyByStaleCopy` is the exact measure of what the code's guard gives: a
finished task changes status only through a process that read it before it
finished. The documentation promises more (section 7), and a cancellation is
therefore no part of the run that checks the refinement, nor of `OneWriter`, the
condition under which section 6 proves it.

### 4.2 `TaskCache`

State: a clock in ticks; the entry with its envelope's expiry and the time the cache
drops it; and for each writing process how far it is in `create` or `save`, the expiry
it will write (`raw`) and the instant from which it computed the timeout (`took`).
`Floor` is the one-second minimum of `_write`, `Fallback` the week used when there is
no expiry.

| Code | Actions |
|---|---|
| `create` | `Create`, then `_write` |
| `get`, before a save | `Get` |
| `save`, reading the envelope back | `SaveRead`, then `_write` |
| `_write`: `time.time()`, then `cache.set` | `WriteTime`, `WriteSet` |

`LifetimeKept` has three parts. `KeptUntilExpiry` bounds the lifetime from below: no
save, however late it writes, cuts the lifetime `create` promised. `StampNeverMoves`
fixes the expiry: no save restarts it. `NoLongerThanWritten` bounds the lifetime from
above by what the code gives: past the expiry the entry lives for as long as its latest
write took between computing the timeout and setting it, or for one floor after that
write, or, where it was written without an expiry, for the fallback after it. It is
written without an expiry when it was created so, and also when a save finds the entry
gone (`orphaned`). The docstring of the store promises more, section 7.

In `MCStores` there are two writers, lifetimes shorter and longer than the floor, and
none; time runs past the longest of them and past the fallback, so that a write-back
after the expiry, a write that is slow between its two steps, and a second writer in
between all happen. The mutants cut the timeout, lengthen it, restart the expiry and
forget it. `delete`, and an entry that the cache drops before its timeout, are `Expire`
in `Tasks`.

### 4.3 `SsePush`

State: the ring and its numbering; per stream a generator (`at`), its queue, what
is left of its replay (`snap`) and the ids it wrote; per worker process the
registered subscriber; and the client, who reads one connection at a time and
reconnects with the last id it saw. A *site* says where this runs: in one process
with the in-memory pair, where `notify` is one step (`Notify`), or behind Redis
(`site.remote`), where recording and publishing are separate (`NotifyRecord`,
`NotifyPublish`), each process has its own registry, and a listener attaches some
time after `subscribe` returned (`Attach`). `Forget` is the loss of the session's
ring.

| Code | Actions |
|---|---|
| `MCPServer.notify`, `record`, `publish` | `Notify`, or `NotifyRecord` and `NotifyPublish` |
| `handle_get`, `stream_events` | `Request`, `Subscribe`, `StartReplay`, `SendReplay`, `EndReplay`, `SendLive`, `Close` |
| `RedisSSEBroker._listen` | `Attach` |
| eviction, `forget` | `Forget` |
| the client | `Request`, `Disconnect` |

`MCStreams` has three streams (a stream, its replacement, and the replacement's
replacement while the first is still shutting down). In memory the queue and the
ring hold two of three events, so that both overflow; behind Redis there are two
processes, one event and one lost ring. `OnlyNewestHears` holds at every site;
`GaplessOnceStarted`, `OneStepBack` and `EventuallyReceived` are promises of a
process that loses no ring: a ring that is lost in memory is numbered from 1
again, under the ids its client holds, and the code promises nothing across that.
`MCStreamsAttach` shows the gap before a Redis listener attaches.

### 4.4 `ResponseStream`

State: the reporter's counter and last value (under its lock), the value each
thread has admitted and not yet scheduled, the loop's ready queue, the stream's
queue, what was written. `Report` is the locked region, `Schedule` the
`call_soon_threadsafe` after it, `RunReady` one turn of the loop, `DispatchEnds`
the end of `_run`, `Send` and `ClientLeaves` the generator. `Detached` lets the
dispatch end while threads still report; the run leaves it off, the case in which
the service joins its threads. Two reporting threads, a cap of three and five
values make the cap bind and let the threads meet between `Report` and `Schedule`.
`ReportsKept` is `CapKept` and `ReportsBeforeResponse`; `ResponseArrives` holds
under fairness.

### 4.5 `Subscriptions`

State: each subscription's record (`stream`: where it stands, what it asked for and
was granted, when its window ends), the broker's registry, the queues, what Redis
sent and no pump has read (`wire`), the transactions and what each has left to
publish, and the order of publication (`log`).

| Code | Actions |
|---|---|
| `_maybe_subscribe`, `grant_subscription` | `Listen`, `Grant` |
| `subscription_stream` | `StartEmpty`, `StartInMemory`, or `StartRemote` and `Confirmed`; `LoopTop`, `Deliver`, `KeepAlive`, `WindowOver`, `Disconnect`, `Abandon` |
| `RedisSubscriptionBroker._pump` | `Pump` |
| `publish_invalidations`, a task's status, `MCPServer.publish` | `Mutate`, `Commit`, `RollBack`, `PublishNext`, `Announce` |
| the caller's rights | `Revoke` |

In `MCStores`: two subscriptions, a cap of one, a window of one tick, two
publications, a transaction that invalidates a resource the caller may watch and
one it may not, and a task of somebody else, with either broker.

### 4.6 `ToolCall`

State: the calls, requests and replays alike, each at a program counter that
names the gate it stands before; the principals' quotas and current grants; the
set of signed and unexpired `requestState`s, any of which any client may present.

| Code | Actions |
|---|---|
| the POST, `preflight_permissions` | `Arrive`, `Preflight` |
| `maybe_create_task` | `GateInline`, `GateRefused`, `TaskJudge`, `TaskCharge`, `TaskCreate` |
| `_worker_context`, `run_task` | `Replay` inside `TaskCreate` |
| `_dispatch_tool_call` | `Judge` (first check and the fold of the answers), `Rejudge`, `Charge` |
| `_run_service_tool` | `Run`, then `ServiceCommits`, `ServiceFails` or `ServiceAsks`, then `Render` |
| `enforce_result_ceiling`, `announce_invalidations` | `Bounded`, `Announce` |
| `run_with_deadline`, the stream's `finally` | `Timeout`, `Disconnect` |

Arguments are functions from a few names to a few values; the permission reads
one of them (`Route`), and the binding's `server_arguments` fix others (`Bound`).
A signed state is a record nobody can forge, which is what `django.core.signing`
provides. A cancelled call whose step runs in a thread keeps that step
(`InThread`). The service may commit and then fail, ask, or never end. The
dispatch view's own class-level check is `SpecJudges`; where it is off, the
handler's two checks are the only ones.

* `MCToolCallForms`: two calls, each of either of two clients who may present each
  other's states, all with forms, streamed or not, one round of questions.
* `MCToolCallTasks`: calls that become tasks and are replayed, over two argument
  names, one of them supplied by the server, a quota of one, and a deadline under
  fairness (`EveryRequestAnswered`).

Not in this model: object-level permissions (which may deny after the charge, by
design of the dispatch).

### 4.7 `RateLimits`

State: the cache's entries for one caller key (the fixed window's counter of each
window, the sliding window's list, the token bucket), and per request the limiters it
has still to pass (`rest`), the time its limiter took (`clock`) and what it read and
will write back (`seen`). The entries end with their timeouts (`dropAt`). Time is in
ticks, `Hz` to the second, because the code rounds: windows are aligned to whole
seconds, the sliding window cuts `retry_after`, the bucket rounds it up.

| Code | Actions |
|---|---|
| `consume_rate_limits` | `Begin`, and `Admit` or `Deny` inside the steps below |
| `time.time()`, the first line of each `consume` | `AskTime` |
| `FixedWindowRateLimit.consume` | `FixedAdd`, `FixedIncr`, and `FixedGone`, `FixedReadd` when `incr` raises |
| `SlidingWindowRateLimit.consume` | `SlidingRead`, `SlidingWrite` |
| `TokenBucketRateLimit.consume` | `BucketRead`, `BucketWrite` |
| the cache, time | `Evict`, `Tick` |

`cache.add` and `cache.incr` are atomic, so the fixed window keeps its quota under
any interleaving as long as its counter is started once; and while its window is open
only the cache's dropping it can start it again. The other two take the time, read, and
write, in three steps, and other requests come between any two of them. What that
costs is counted:

* `erased`: admissions overwritten by a request that read before they were stored;
* `overtaken` (sliding window): admissions decided on a list that a later call had
  pruned, or that had timed out, when the call's own window still reached back to stamps
  no longer in it;
* `rewound` (bucket): the ticks by which a call wrote an earlier time than the one it
  had read, so that they refill twice.

`LimitsKept` says that the excess is never more than that, in every window and between
any two instants, and that a denied caller's `retry_after` suffices where it is rounded
up. The docstrings admit "a few extra requests under contention"; the three counters
say which. Without either of the last two the property fails within the bounds below.

In `MCStores`: a binding for each kind and one of two limiters, two requests at a time
and four calls over six half-second ticks, a window of one second with quotas of two,
and a bucket of one token that takes three ticks to refill, so that its refilling, its
timeout of six ticks and that of the list all fall within the run; one eviction. A tool
of two limiters gets two requests, and a cache that drops an entry by itself serves three
(`Fewer`). This is enough to fill each limiter, cross a window, have two requests read the
same entry, and have one read what a later one wrote.

### 4.8 `Endpoint`

State: the session store (`entry`), the broker's registry of session streams
(`live`), and the requests under way, each with what it read of its session. The
checks of each handler are sequences of a condition and the status it answers, in
the order of the code, one set for each viewset; a request that a check refuses at
once leaves nothing behind and is not kept.

| Code | Actions |
|---|---|
| POST, GET, DELETE up to the session gate | `Receive` |
| `owner` of the cache store, its read and its write | `OwnerRead`, then `Refresh` or `Retire`; `OwnerMiss` |
| `owner` of the store in memory | `OwnerInMemory` |
| dispatch of either era on either viewset, `handle_initialize` | `Dispatch`, `DispatchModern`, `SyncDispatch`, `SyncDispatchModern`, `Listen` |
| `handle_get` and the body of its response | `OpenStream`, `StartStream`, `CloseStream` |
| `terminate_session` | `Destroy`, `SyncDestroy` |

`MCEndpoint`: two requests at a time, two principals and a stranger, one session
minted during the run and one stored by an older version, every message that is
right or wrong in one respect, five servers, a cap of one, half-second ticks, an
idle window of one second and a maximum age of one and a half.

### 4.9 `Chain`, `Reads`, `Inputs`, `Registry`, `Catalogue` (`MCServer`)

* `Chain`: calls with the step each is at, the writes of its open transaction
  (`work`), the committed ones (`db`), the reply. `Judge`, `Charge`, `Validate`
  precede the steps; `Permit`, `Refuse`, `Serve`, `Reread`, `Select`, `Miss` make a
  step; `Commit`, `Render`, `Announce` end a call; `Timeout` and `Die` come at any
  time, and `Regrant` changes what permissions admit. Two calls, three chains
  (atomic and not, with a selector that may find nothing), one change of grants and
  one death.
* `Reads`: a call at a stage of its door (resource, prompt, completion, selector
  tool, `call_tool`), in the order its handler runs them, while grants and rows
  change (`Drift`, at most twice; at most three rows). Every combination of kind,
  page, ceiling and guard that a binding can have.
* `Inputs`: a declaration gives each name its roles at once (parameter, lookup key,
  field, route, query parameter, provider's, server's). `Declare` runs the
  registration checks, `Call` sends any set of names. The run takes the
  declarations in which one name has two roles and another has one (an ordinary
  name beside `instance` or `data`, which dispatch fills, and `page`, which it
  strips from a list's arguments).
* `Registry`, `Catalogue`: registrations of tools, resources, views and prompts, in
  bulk and one by one, with their checks; one client's walk through the pages of a
  listing while tools are registered, grants change and conditions flip. A page
  size of one, three tools (nothing registers once a registry has three), one flip.

Several properties are conjunctions of named parts: `AllOrNothing` of
`CommittedWhole` and `HeardIsCommitted`, `OfferKept` of `OfferedArrives` and
`SchemaIsKept`, `AuthorityKept` of `SeedsAreTheServers` and `RouteAsJudged`,
`RegistrationHolds` of `ListingNeverRaises` and `LinksResolve`, `ListedAsIs` of
`PublicIsForEveryone` and `OfferedIsListed`, `ServedAsAllowed` of
`ServedOnlyVetted` and `ServedToOwner`, `SessionLifetime` of `AgeLimit` and
`KeptWhileUsed`, `PlacesKept` of `WindowKept`, `PlacesGivenBack` and
`CapPassedOnlyByBurst`, `RunsAllowed` of `RunsJudged`, `ArgumentsAccounted` and
`PaidOnce`, `OnlyNewestHears` of `RegisteredIsNewest` and `HeardOnlyRegistered`.

`MCHidden` and `MCBlank` run the calls of a catalogue's tools instead of its
walks; both fail: section 7.

## 5. Fairness

* `Tasks!FairSpec`: a web process, a worker and a started request that can move do
  move (weak fairness: they are threads that run). Strong fairness of `Deliver`
  says that a worker keeps consuming the queue, and of `Finish` that a service
  that gets the chance to end again and again ends; a service that hangs is the
  consumer's matter, and the code gives tasks no deadline. No step of a client is
  fair: a question may stay unanswered, so `EventuallyResolved` asks only that a
  task leave `working`. `MCTasksFair` grants no crash of a claimed worker, since
  `run_task` says that such a task is not run again, and no early delivery, the
  subject of `MCTasksEarly`, nor a context factory that raises, after which the code
  leaves the task `working` (section 7).
* `MCStreams!StreamsFairSpec` is `SsePush!FairSpec` (the event loop runs the
  generators; neither the client nor the deadline is obliged to do anything) and
  `ResponseStream!ResponseFairSpec` (the loop runs, the dispatch ends and a thread
  leaves the reporter), each where it is the subject.
* `ToolCall!FairSpec`: the server's own steps go on and an armed deadline fires.
  A service need not end, and no client step is fair.

The other runs check safety and action properties only, under specifications
without fairness.

## 6. What is proved

Every theorem is of the form "the specification implies ...", for every value of
the constants that satisfies its module's assumption.

| Module | Theorem | Says |
|---|---|---|
| `TasksProofs` | `TypeCorrect` | the records, copies and messages are well formed |
| | `Durable` | a handle or a message exists only for a stored task |
| | `BlindSavesSafe` | the saves of `create_task` that read nothing first lose nothing |
| | `HandedOffOnly` | a tool runs only for a task whose hand-off succeeded |
| | `RedeliveryRefused` | after a claim is stored no delivery is accepted |
| | `OneWayButForStaleCopies` | a finished task is reopened only by a copy read before |
| | `StatusIsOneWay` | where writers do not overlap, the machine implements `OneWayTask` |
| | `AnswersStay` | there, an answer given stays given |
| `CacheProofs` | `Lifetime` | a cached task is kept until its expiry, its expiry is written once, and it outlives it only by what its latest write gave it |
| | `LimitsAreKept` | with the time taken, the read and the write in separate steps, each limiter keeps its quota but for what was erased, overtaken, rewound or dropped by the cache; and who waits as told is admitted |
| `StreamsProofs` | `NewestIsHeard` | on each worker the newest stream, and no other, is registered and fed |
| | `NothingFallsBetween` | a client with an id misses nothing that neither ring nor queue gave up |
| | `OneTurnAtMost` | ids step back once at most, where the replay ends |
| | `ReportsComeFirst` | no more frames than the cap; the response follows every report |
| `SubscriptionsProofs` | `AckedMissNothing` | from its acknowledgement on a stream has, in order and once, all of its topics |
| | `OnlyTheEntitledHear` | it carries only what it was granted and its caller was entitled to |
| | `OnlyCommitsAreHeard` | nobody hears of a transaction that did not commit |
| | `PlacesAreKept` | windows end, places are given back, and the cap yields to a burst only |
| `ToolCallProofs` | `RunsAreAllowed` | nothing runs unjudged, on an argument nobody gave, or unpaid |
| | `DenialsAreFree` | who is denied was not charged, unless its grant was withdrawn meanwhile |
| | `AnnouncementsAreWritten` | subscribers hear of committed writes only, and before the result |
| `EndpointProofs` | `OnlyAllowedAreServed` | what is served passed every check and belongs to the session it names |
| | `BurstsPassTheCap` | the cap on streams is passed only by those whose body was not read yet |
| | `SessionsLiveTheirTime` | a session keeps to its maximum age, and in use lives for its idle window |
| `ServerProofs` | `ChainsWhole` | an atomic chain leaves all of its writes or none, and is heard of accordingly |
| | `DenialsComeLate` | a step is denied after admission only if a grant changed meanwhile |
| | `NoneIsCalledShort` | no selector or target lookup is called without what it requires |
| | `OffersAreKept` | what the schema offers arrives, and a call that keeps to it is not refused for its names |
| | `AuthorityIsKept` | the server's names are the server's, and a route is looked up as it was judged |
| | `AnswersAreAdmitted` | a read answers and charges only whom its door's gates admit |
| | `ServedWhole` | what a read serves is whole or says it is not, within its ceilings |
| | `SeedsStayTheServers` | no argument replaces the user, the request or a reserved name |
| | `RegistrationKeeps` | no registered tool breaks a listing, and its link leads to a view |
| | `ListingsSayForWhom` | a public listing is everyone's, and offering is listing less what is unavailable |
| | `WalksAreFaithful` | a walk misses and repeats only what a change before it in the registry explains |

`SequenceLemmas` and the invariant theorems (`ChannelHolds`, `FlowHolds`, `StreamsHold`,
`GatesHold`, `EndpointHolds`, `LimitsInductive`, `InputsHold`, `ReadsHold`,
`RegistriesHold`, `WalkHolds`) carry the rest. No proof bounds a set of tasks,
calls, streams or messages, or fixes a queue, a ring, a quota or a cap. The
assumptions beyond the types of the constants, and where each comes from:

* the requests and sessions of `Endpoint` and the streams of `Subscriptions` are
  finitely many, because their caps are compared with the size of a set;
* the idle window of a session is at least one second, the unit in which
  `SESSION_TTL_SECONDS` is given (a window of zero stores nothing);
* a chain has a step, which its binding checks (`chain_tool_binding.py:166`);
* at a site with the in-memory pair every stream runs in one process;
* a binding's list of limiters is not empty, and their quotas, window, cost and the
  shortest timeout of a bucket are positive (`RateLimits`);
* the floor of a task's timeout, a second, is no longer than the fallback, a week
  (`TaskCache`);
* `Inputs`: the seeds, `instance` and `data` are reserved names (`adapters/utils.py:545`
  reserves them), only a service tool has a target lookup, only a list selector pages;
* `Reads`: only a selector tool pages, and then its ceiling is at least one row;
  completions are lists; a page and a limit are integers or do not parse;
* `Registry`: a bulk call registers a sequence of declarations;
* `StatusIsOneWay` and `AnswersStay` assume `OneWriter`: clients await each reply and
  do not cancel, the store drops nothing by itself, and there is one worker or no
  message is delivered twice. This is what `MCTasksFair` provides. Without it both
  fail, and section 7 says how; with it they hold however many crashes, early
  deliveries, failed hand-offs and context factories that raise there are;
* `ReportsComeFirst` assumes `~Detached`, that a service joins its threads before it
  returns. Without it the response may overtake a report, and nothing in the code
  prevents that. The part about the cap needs no such assumption.

Each proof has the same shape: the type invariant, a strengthening that is
inductive, one step for each action of the specification (and below it one for each
conjunct the action disturbs), and the listed theorems by temporal reasoning. None
of the properties is inductive by itself. The strengthenings:

**Tasks.** That blind saves lose nothing depends on nobody having touched the
record, which depends on no worker having accepted a message, which depends on
`enqueued` being false in every record that could be written back. `CopyInv`: a
copy held for writing back was live when it was read, and what its holder wants to
write is a status its caller may ask for. `HandoffInv`: until `create_task` has
returned, the record is the seed, nobody works on it, and nothing has been claimed.
`PresentInv`: without expiry a created record stays. `ClaimInv`: after a claim
neither the store nor any copy that can be written back is claimable. `CopiesLive`,
`HandoffExclusive`, `Present` and `ClaimsStick` prove the parts in this order. These
results hold with and without early delivery and expiry.

The refinement rests on copies that are never stale. A task has one message or one
worker that took it (`MessageInv`), so that no two workers hold it (`SoleWorkerInv`,
`SoleWorker`); a request writes only while the worker waits for it, and one at a
time (`AwaitInv`); so whatever is about to be written back is what the store still
holds (`CurrentInv`, `CopiesCurrent`). `StepsOneWay` then maps each step to a step of
`OneWayTask` or to a stutter, with `status[t] = rec[t].status`. TLC checked the parts of
the invariant on an instance with one worker and a redelivery and on one with two
workers, a crash and a factory that raises.

**TaskCache.** Until the expiry the entry and every save in flight carry the stamp of
`create`, and the cache holds the entry that long (`UntilExpiry`, `NothingYet`), so that
what is written back can extend the entry's life and not cut it. From above
(`DroppedInTime`): a timeout is the remaining life at the instant it was computed, or
the floor, or the fallback, and it is set no earlier than it was computed (`InOrder`).

**RateLimits.** `LimitsInv` says of each limiter what its entry accounts for.
*Fixed window* (`FixedInv`): a window whose counter was not started has admitted
nothing, one that was started once has admitted no more than its counter says;
`incr` is atomic, so no interleaving matters. `FixedOnce`: a counter outlives its
window, since it was started at or after the time its window was computed from.
*Sliding window* (`SlidingInv`): for every instant from the `horizon` less a window on,
the admissions after it are at most the entries of the list after it, plus those some
write erased; and the same of the copy a request holds, plus what was admitted since
it was read, from the time the request took plus what it was `behind` (`StampsPast`
bounds both). A call that is behind nobody thus counts every stamp of its window.
*Token bucket* (`BucketInv`): what was drawn since any instant, with what is left, is at
most the capacity, the refill since and what was erased (`Balanced`), where refill is
counted up to the stored time plus what was rewound; again of each copy; and an entry's
timeout is long enough for a full refill, so that a dropped one had refilled. The write
of a copy turns `missed` into `erased` and `behind` into `overtaken` or `rewound`, which
is why the property is stated with them. `FixedTold` and `BucketTold` give the
sense of `retry_after`: it reaches past every started counter, and it is long enough
to refill a cost. The sums over the list are counted with cardinalities of index sets
(`CountOne`, `CountMore`), and the divisions by their defining inequality (`DivIs`).

**SsePush.** Everywhere the ids of the ring rise (`Ascends`) and the registered
stream is the newest (`Connected`). At a site with one process that loses no ring
(`Exact`), the ring, each queue and each replay not yet sent are runs of consecutive
numbers (`ExactInv`). A replay selects events by comparing ids, which is the same as
taking the end of the ring only because the ids of such a ring are its events'
numbers. What a stream has written, has left of its replay and has queued then
covers everything after the client's id, but for what the ring or the queue dropped
(`Past`, `Ahead`); replay and queue may overlap, and the overlap is the one step
back. The proof of `OneStepBack` failed at first where an in-memory
site loses its ring: numbering then starts again under a stream that still has
higher ids, and the property is stated for sites that lose none.

**ResponseStream.** `FlowInv`: what was written, is queued and waits in the loop's
ready queue, together with what threads hold, accounts for every admission
(`Budget`, from which the cap follows); and while the threads are joined first, the
end of the dispatch stands in the ready queue behind every report (`Pending`,
`Before`).

**Subscriptions.** For a stream that was acknowledged, what it heard followed by
its queue followed by the wire to its pump is exactly the log's part on its topics,
in rising order. Publishing appends at one end; a pump or a delivery moves one
element across a border (the lemmas on boxes that hand on their contents). For the
cap (`Admitted`), every set of open streams has a member that was let in beside no
more than the cap and the streams not yet started at that moment: the invariant
speaks of every subset, because any of the others may close first.

**ToolCall.** `CallInv` says, for each place a call can stand at, what has happened
by then: `Fresh` (a call that has not arrived carries nothing), `Judged` (the
arguments it is about to run with passed a check), `Paid`, `Written`, `Denied` (a
denial after the charge means that the caller's grant is no longer what it was;
`Withdrawn`: it can only have been taken away). Signed states are what the server signed (`Authored`), so that folding
answers in adds only what a client or the server gave. A step moves one call; what
it leaves of the others is shown once.

**Endpoint.** The checks of a handler are a sequence, and the verdict is the first
that refuses: a request got past the gate only if none does (`Clear`, `Refusing`).
What is read from the store, held by a request and written back is the owner and
the date the session was born with, and these never change; so a write that comes
late restores no other owner and no younger session. The lower bound of a lifetime
follows from when an entry was last written (`KeptLong`); `CutToSeconds` is the
rounding of `int(...)`. The cap is bounded as for subscriptions.

**Chain.** `ChainInv`: the open transaction holds exactly the steps done so far
(`WrittenSoFar`), the database none of them until the commit (`Uncommitted`), and
what is announced is committed (`Told`). That the permissions cut from the chain's
flat tuple for each step are that step's own (`SlicesFit`) follows from the lemmas
on flattened sequences. The library states induction with an operator as
parameter; here the induction runs over the set of lengths for which the claim
holds (`SetInduction`).

**Inputs.** A verdict is that of the first check that holds (`FirstDecides`), so a
registered declaration passed all of them (`InputsInv`), and an answer other than an
error means that no check of the call held (`AnswerIs`). The rest is set reasoning about
one name: lemmas say of each pool (`ArgsAre`, `RestIs`, `RouteValuesAre`, `ValidatedIs`,
`SelectorParamsAre`, `LookupPoolIs`, `PooledIs`) when a name is in it and who gave its
value, and the three properties follow name by name, for selectors, lookups and
services apart.

**Reads.** The stages of a door have places (`StagesPlaced`), and a call at a place has
been through those before it. `ReadsInv` says what each stage leaves behind: it was
admitted unless a grant drifted (`AsAdmitted`), a single row was let through by its guard
(`Owned`), what was counted and bounded is what will be sent (`Settled`), and it is
whole or says so (`Whole`). A drift changes one thing and is remembered in `drifted`;
one lemma for each stage shows the rest.

**Registry, Catalogue.** A declaration is registered only if no check holds
(`RegisteredIsClear`, `ToolPasses`), and every registration only appends (`ToolsGrow`,
`ResourcesGrow`, `PromptsGrow`). `LinksResolve` is not inductive by itself: a concrete
resource registered later takes over what a template answered. The strengthening
(`RegistryInv`) keeps for each link that its first concrete match is a view or some
matching template is, and that names and URIs are unique. `ListedAsIs` follows from
`RegistryInv` by comparing, for each caller, the sets of entries kept. For the walk
(`WalkInv`), what is listed all along and not yet delivered stands at or after the
cursor, and what is delivered stands before it, but for what an entry that dropped out
or came back in front of it explains; a page turn (`TurnKeeps`), a flip and a
registration (`BindingsGrow`) keep this. `Selections` states what a list comprehension keeps as
a flattened sequence of single elements and gaps, so that the lemmas on flattened
sequences say of it that it keeps order and members (`Picks`, `SelectedPicks`,
`SelectedAppend`, `SelectedSame`).

Only model-checked: liveness (`EventuallyResolved`, `FinishAnnounced`,
`EventuallyReceived`, `ResponseArrives`, `EveryRequestAnswered`). It rests on fairness and
`ENABLED`, beyond this prover. The properties of the four runs that end in a
counterexample are refuted by TLC and have no theorem.

## 7. Where code and documentation disagree

Four disagreements have a run that TLC ends with a counterexample;
`PROJECT.json` quotes the sentences.

| Run | What happens |
|---|---|
| `MCTasksEarly` | a delivery before the `enqueued` mark is consumed; the task never runs |
| `MCStreamsAttach` | with Redis, an event published after the replay was read and before the listener attached reaches nobody |
| `MCHidden` | a chain that the listing hides, because a later step's condition is unmet, succeeds when called: an earlier step's write meets it |
| `MCBlank` | a media tool with a `ui=` link registers, though its results carry no `structuredContent` for the view |

Three more have none. The first is what `NoLongerThanWritten` measures; the other two
are about a single step that the models take as the code does:

* `DjangoCacheTaskStore` says that expiry is absolute and that `save` renews the timeout
  "to the *remaining* lifetime rather than restarting the clock — otherwise a task
  reporting progress often would never expire" (`django_cache_task_store.py:42`). A save
  that reads the envelope at the end of the lifetime sets the entry for the floor, and
  one that finds it gone writes it back with no expiry and the week of the fallback
  (`:75`, `:87`, `:92`): a task saved every second does not expire. The floor is
  commented in the code (`:89`); its effect on the sentence is not.

* `terminate_session` says that a wrong-principal id "renders 404 without touching
  the session"; `owner`, which it calls first, refreshes the idle window whoever
  asks (`async_streamable_http_viewset.py:607`, `django_cache_session_store.py:151`).
  `SessionLifetime` is stated with these refreshes: they only prolong.
* `adapters/utils.py:1041` says of `**kwargs` callables that "every required name is
  structurally satisfiable"; a service that takes its input as one bundle, has
  `**kwargs` and requires another name registers, and no call fills that name.
  `NeverCalledShort` claims of a service tool only that its lookup is called with
  all it requires, and of no tool what registration knowingly lets through (`Excused`:
  also a lookup that requires a reserved name which no lookup is given, and a
  parameter that is counted as filled by a field that may be left out).

The models contain the following behaviours too. No property claims their absence,
and a reader who adds the sentence quoted by the code as an invariant will see it
fail:

* A cancel that read the task before its end overwrites the completed record, and
  a late progress report undoes a cancellation (`transition_task.py:50`,
  `report_task_progress.py:55`).
* Of two concurrent partial answers, the later save drops the earlier
  (`handle_tasks_update.py:77`).
* A context factory that raises does so after the claim and outside the handler;
  the task stays `working` (`run_task.py:64`).
* A notification may carry a status already replaced (`publish_after_task.py:10`).
* A replaced stream goes on sending what its queue holds
  (`in_memory_sse_broker.py:46`); a client whose first stream saw no event
  reconnects without an id and is replayed nothing (`sse_response.py:78`); two
  worker processes may each feed a stream of one session
  (`redis_sse_broker.py:90`); an id from before an eviction selects events of the
  new numbering (`in_memory_sse_replay_buffer.py:74`).
* Two threads' progress values may be sent in the other order than they were
  admitted (`response_stream.py:226`).
* The pre-flight judges the client's value of an argument the server replaces, and may
  refuse a call the handler would admit (`progress_dispatch.py:103`).
* The sliding window cuts the fraction off its `retry_after`: a caller that waits
  exactly so long may be denied again (`sliding_window_rate_limit.py:75`).
* The replay of a `REQUIRED` tool declares no extension and is refused by its own
  gate (`mcp_server.py:1154`, listed as a known defect in the repository's README).


## 8. Not modelled

* OAuth (`contrib/oauth`) and the auth backends decide one request at a time and
  delegate to django-oauth-toolkit; configuration is read once; the testing
  package, the observability shims and the UI helpers hold no state of the server.
* The conversion of serializers to JSON schemas, output rendering and formats, and
  the projection of output for an audience: pure conversions, whose only part here
  is which names they know (`Inputs`).
* `server/discover` and `build_capabilities`, URL routing, and cursors that do not
  decode (they are refused before anything else happens).
* A worker that dies after its claim leaves the task `working` until it expires; the
  code says so and offers no recovery, so `Tasks` has the crash and no property
  about what follows it.
* The events of an evicted ring are numbered again under the ids its clients hold;
  `SsePush` has the step (`Forget`) and claims nothing about the client across it.

Counters are bounded in the guards of the actions that count, by constants of their
modules: `MaxProgress`, `MaxRedeliver`, `MaxCrashes`, `MaxRaises` (`Tasks`);
`MaxProgress` (`ResponseStream`); `MaxNotify` and a site's `notify` and `forget`
(`SsePush`); `MaxCacheTime` (`TaskCache`); `MaxTime`, `MaxCalls`, `MaxEvict`
(`RateLimits`); `MaxStreamTime`, `MaxLog` (`Subscriptions`); `MaxRounds`
(`ToolCall`); `MaxTime` (`Endpoint`); `MaxChanges`, `MaxDeaths` (`Chain`);
`MaxRows`, `MaxDrifts` (`Reads`); `MaxTools`, `MaxFlips` (`Catalogue`). The theorems
hold for any values of them.
