# Verification of the credential core of CLIProxyAPI

The program is a proxy server: clients speak the OpenAI, Claude or Gemini
protocol, the proxy picks one of many upstream credentials that serve the
requested model, translates the request, calls the provider, and learns from
the result when to use that credential next. This directory models the part
that decides *which credential a request gets and why*: `sdk/cliproxy/auth`,
`internal/registry`, `internal/watcher`, which finds the credentials, what
`sdk/cliproxy/service.go` does with them, and `internal/wsrelay`, through which a
browser serves requests like a provider. Paths below are relative to the repository.

## 1. Inventory

A request passes middleware, configuration and access control, is routed by
model (registry), gets a credential (manager and scheduler), is translated,
executed, and ends in `Manager.MarkResult`, which updates the credential, the
scheduler, the cooldown file and the registry (`docs/ARCHITECTURE.md`).

| Component | State | Operations | Hard behaviour | Correct when | Here |
|---|---|---|---|---|---|
| Model registry (`internal/registry/model_registry.go`) | registrations per model with counters, quota and suspension marks; client bindings; cached lists | RegisterClient, UnregisterClient, marks, list queries, cleanup | counters kept by differences; a cache with an expiry; marks from goroutines that left other locks | counters equal the bindings, cache never stale, no mark without binding | `ModelRegistry` |
| Cooldown state (`auth/conductor.go`) | per credential and model: status, retry time, quota record with backoff level | MarkResult, ResetQuota, reconciliation, Update, SetConfig, Restore | order of results; saves that leave the lock in one order and write in another; reload overlapping results; restart | aggregate follows the models, backoff bounded, store exact unless one of three named ways left it behind, switch respected | `AuthState`, `AuthCooldown` |
| Scheduler (`auth/scheduler.go`) | per provider and model: entries, ready views, blocked list; cursors | upsert, remove, rebuild, single, mixed and pinned picks | skipped rebuilds, lazy promotion, cursors into views that change | views follow credentials, pick is free and best, nobody starves | `AuthScheduler` |
| Manager (`auth/conductor.go`, `service.go`) | credentials map, one lock; four other places with locks of their own | results, refresh, status patch, watcher events, catalog refresh | every operation finishes outside the lock | views converge, removal and disabling are final | `AuthManager` |
| Refresh loop (`auth/auto_refresh_loop.go`) | heap, dirty set, wake-up channel, timer, job channel, workers | pop, mark, send, drain, reset; refreshAuth | lost wake-ups, full channel, a stale clock reading, provider answers that change nothing | no credential forgotten, no tight loop, due is refreshed | `AutoRefreshLoop` |
| Selectors and session affinity (`auth/selector.go`, `session_cache.go`) | cursors per model; session bindings with TTL | Pick, bind, invalidate | a binding that outlives its credential | affinity never offers a blocked credential | blocked test and built-in strategies; affinity planned |
| Execution and retry (`conductor.go` 1700-1920, 2271-2760, 2830-2890, 3342-3493) | tried and attempted sets, attempt counter, the stream's goroutine | pick, prepare, call, bootstrap, relay, mark, wait, retry | failures before, at and after the first payload; a client that leaves; results of others during a wait | cost bounded, every call reported once, one credential serves, a wait pays, it ends | `RequestExecution` |
| Cooldown files (`auth/cooldown_state.go`) | one file per group | Save, Load | crash between write, rename and removal | a crash leaves old or new records | contents only; planned |
| Home client (`internal/home`) | subscription, pending calls | connect, dispatch, reconnect | reconnection racing calls | every call gets one answer | planned |
| Usage (`sdk/cliproxy/usage`, `internal/redisqueue`) | queue, retention, subscriber buffers | enqueue, pop, subscribe | buffer at its limit | order kept, drops only as documented | planned |
| Websocket relay (`internal/wsrelay`) | sessions by name; per session the pending requests, each with a channel of eight messages | connect, request, dispatch, cleanup, Stop | two goroutines per request and three per session share a map that is overwritten and channels that are closed; full channels drop | who waits is told, answers are whole, no panic, the service hears the end last | `WsRelay` |
| Watcher (`internal/watcher`) | picture of the credentials, hashes of files, debounce timers | event, incremental update, reload, login, websocket provider | four writers of one picture; files read without a lock; events dropped on purpose | when all is quiet the service has what the files and the configuration say | `FileWatcher` |
| Way of the updates (`watcher/dispatcher.go`, `service.go` 455-570) | pending map, batch, channel, the consumer's map | hand in, dispatch, drain, apply | coalescing, a full channel | never an older update after a newer one; the latest arrives | `AuthUpdates`, `UpdateMailbox` |
| Portal ledger (`internal/portal`) | balances, codes | redeem, recharge | concurrent redemption | a code is spent once | not modelled: legacy (`docs/ARCHITECTURE.md`, line 43) |
| Quota collector, dashboard, replay caches, OAuth sessions, plugin host | own tables | periodic or per request | timeouts, unloading | | low in the plan |
| Executors, translators, login flows, stores, management HTTP, TUI, configuration | none or I/O | | | conversions are right | not modelled: I/O or stateless conversion |

## 2. Modules

```
ModelRegistry <- ModelRegistryProofs
AuthState <- AuthCooldown <- AuthCooldownProofs
AuthState <- AuthScheduler <- AuthSchedulerProofs
AuthState <- RequestExecution <- RequestExecutionProofs
UpdateMailbox (abstract) <= AuthUpdates <- FileWatcher <- FileWatcherProofs
WsRelay <- WsRelayProofs
AuthManager <- AuthManagerProofs
AutoRefreshLoop <- AutoRefreshLoopProofs
```
(`A <- B`: B extends A; `A <= B`: B implements A.) Each `MC*` module holds only constants and symmetry for TLC.

**ModelRegistry.** One action per method: all of them hold the registry mutex
throughout. A model's `reg` record is a `ModelRegistration`; a list of models
is the number of times it names each model, because `RegisterClient`
works by those counts. `LateMarks` says whether a mark may arrive for a client
that is not bound (it may, see `AuthManager`; `MarksOnlyOnBindings` is about
the registry's own methods and is checked without). Hooks, the format of the
listed models and copies of metadata are left out.

**AuthState.** The pure functions on one credential: the blocked test of
`isAuthBlockedForModel`, what each kind of failure does, aggregation with its
sweep, clearing, reconciliation, records and restoring. `Kinds` are the branches
of `MarkResult`, one per group of status codes it treats alike. The zero time is 0.
The retry hint is a member of a set or `NoHint`.

**AuthCooldown.** A credential's life; one action is what one call does under the
manager's lock. A call that has to save does so after it, in two more steps of a
`Writers` slot: `TakeSnapshot` under the read lock (`conductor.go:810`) and
`WriteStore` (`:814`), or `WriteFails`. Nothing orders two savers, so a snapshot may
be written after a younger one. A call that returns without saving what it changed
(`SaveByNobody`) leaves the store behind: `ResetQuota` when it cannot persist the
credential (`:767`), a registration, a file that replaces the credential. `stale`
remembers that, until a snapshot that is still right is written. A reload (`SetConfig`
then `RestoreCooldownStates`) is several steps, because its save and reading the store
are outside any lock; its saves are those of the slot `Reloader`. `Restart` keeps
only the store and follows the order of `Service.Run`. `why` is a history
variable: the last result that changed a model's state, with `reset` for a quota reset
and for every administrator's change that starts a model over.

**AuthScheduler.** `pool` is what manager and registry know; `metas` and
`shards` are the scheduler's copies. Every method holds the scheduler mutex, so
one method is one action; a change and its upsert are one step here and two in
`AuthManager`. Shards are made on first use, by a pick (`Ensured`). A pick is a
function of the state, so the properties ask what *every* possible request would
get in every state, and the actions move the cursors.

**AuthManager.** A goroutine's `todo` is the list of critical sections it still
has to run, `local` what it read in earlier ones. One section (a lock taken and
released) is one action. Requests, the token refresh, the operator's status
patch, the watcher's add and remove, and the catalog callback interleave. The
credential is reduced to its disabled flag and what the last result left in its
state for one model (`States`). A result is one of six kinds (`AllResults`;
`Results` bounds what a run reports), by what `MarkResult` makes of it (`conductor.go:3561-3637`, `3668-3675`): a 429 sets the
registry's quota mark and suspends; 401, 402, 403, 404 and an unsupported model only
suspend; a 408, a 5xx or a cloudflare challenge cools without a mark, and so does not
touch the marks of an earlier failure; other failures do neither; a request-scoped
failure changes nothing; a success takes both marks away. A refresh may
end cancelled, without a trace. Cooling is on, and no cooldown ends by itself here (time is
`AuthCooldown`'s). `solo` and `off` are history variables.

**AutoRefreshLoop.** The loop's goroutine at the grain of its lock sections,
workers, and writers that tell the loop in two steps (dirty set, then channel).
Time is relative (each instant is its distance from now) so that it can pass for
ever in a finite model; `loop.lag` is the age of the time the pass read. Code
between `StartAutoRefresh`'s rebuild and the first pass, the end of the loop, and
`RefreshEvaluator` (no implementation in the repository) are left out.

**RequestExecution.** One request's goroutine, from the first pick to the last
payload: a round of credentials, in each the upstream models behind the name the
client used, the preparation of a token under a lock of its own, the call, a
stream's bootstrap and the goroutine that relays it, the mark, the wait between
rounds. Each provider call, channel receive and wait is a step of its own, and
between them the clock moves, the client may leave, and other requests report
results (`OtherResult`, or further members of `Requests`). Which free
credential is picked is left open: `AuthScheduler` says which. `calls`,
`marks`, `waited`, `served` and `quiet` are history variables.

**UpdateMailbox, AuthUpdates.** The abstract specification of the watcher's
queue, from `docs/sdk-watcher.md`: updates of a credential may be dropped for
later ones, and are applied in order, never twice. `AuthUpdates` is the code's
way from `dispatchAuthUpdates` through pending map, batch, channel and consumer
to `handleAuthUpdates`. Updates are numbered per credential; `told` keeps what
they said, so that the refinement mapping is the identity on `told` and `applied`.

**FileWatcher.** Extends `AuthUpdates`: what a teller finds out it hands in with
`Tell`. The writers of the picture are the event loop (one file event at a
time), reloads, logins and websocket providers; each changes it under
`clientsMutex` and hands in its `outbox` later. Hashes are the contents
themselves. A reload's steps end where others can come between: the check of
the hash, the load, the publication, the dropping of affected credentials, the look at
the configuration in force (`dispatcher.go:126`), the scan of the files (`:131`), the
comparison, the hash at the end. The timer or the management API starts it
(`ReloadConfigIfChanged`). What a credential says is its file's content together with the models
the configuration excludes. `missed` is a history variable, see section 4.

**WsRelay.** One connection, from the upgrade on. Names are random
(`Options.ProviderFactory` is not set by the service), so no session replaces
another and connections meet only in `Stop`. Each goroutine's step ends where
another can see or change what it uses: between looking a request up and
sending on its channel, between storing an entry and loading it again, between
the check of `s.closed` and the write, and for cleanup between any two entries
of its walk. `sync.Map.Range` is modelled by what Go promises of it (`due`,
`seen`). A message is a part, an end or an error; what was `heard` and `lost`
for each request, and `announced`, are history variables. `crashed` says what
ended the process: a send on a closed channel, the type assertion on a missing
entry, or an access to the map while it is overwritten (`TornAccess`, a data
race). The peer may send anything for an id it has been given, clients may
leave at any moment, writes and reads may fail.

## 3. Runs

| Run | Instance | Shows |
|---|---|---|
| `registry` | 2 clients, 1 model that may be listed twice, 2 providers and none, clock 0..2, window 1 | counters and metadata follow the bindings, cache current, marks bound, the two lists agree |
| `cooldown_results` | 2 models, all seven kinds, hints, cooling on or off, no store, clock to 3 | aggregation, status, isolation and the memory of backoff, with results and resets only |
| `cooldown_admin` | 1 model that fails by a 429, successes and request-scoped failures that name no model, administration, a store with one saver and the reload's, clock to 2 | backoff bound, the cooling switch, the store |
| `scheduler` | 2 credentials, 1 provider, 2 priorities, websockets, 429 and 5xx, clock to 3 | views, promotion, the best free pick |
| `scheduler_mixed` | 3 credentials, 2 providers, both strategies | turns, mixed picks, cursors |
| `manager` | 2 requests with results of five kinds (all but `other`) and all four operators, any 2 at work at once | convergence of the views, no resurrection |
| `refresh` | 1 credential, 1 worker, job channel of 1, a pass that may outlast the pending backoff, 2 operations from outside (a second one only if it is cheap, `Cost`), fair | nothing forgotten, light sleep, no tight loop but after such a pass, a due credential is refreshed |
| `requests` | 1 request, stream or not; one credential with the model itself, one with a pool of 2 that needs preparing; limits none and 1; up to 2 rounds; 1 result of another request; clock to 2, fair | every call reported once, cost, one credential serves, waits pay, it ends |
| `watcher` | 1 file, 1 API key, 1 websocket provider, channel of 1, 4 changes by users, fair | files, configuration and providers are followed; the mailbox is implemented and delivers |
| `relay` | 1 request of NonStream with 2 messages, 1 of Stream with 1, channels of 1 | waiters are told, answers are whole, panics and a credential left behind only in named races |
| `cooldown_lost_at_boot`, `manager_disabled_again` | one counterexample each | section 4 |

Why the bounds are enough. Registry clients interact only through the counters
of one model, so two clients and a repeated model reach every branch of the
differences. Cooldown durations are compared, never measured: the instances keep
their order (`transient <= medium <= long`) and the backoff reaches its cap in one or two steps; the
results run has the longer range and all kinds (unsupported models with cooling off
among them), the administrative run the
switches and the store, and the proofs cover every length of backoff, every kind in
every instance and any number of savers. `Savers` bounds the calls that save at a
time; one and the reload's are two, the fewest that write in the other order. Of
results that name no model the run has the success and the failure that is the
request's own fault; the other failures are in the proofs, as the run would take
minutes more with any of them. The memory of backoff is checked without administration, which counts as relief, and
proved with it (`BackoffNeedsRelief`). Two models
suffice for leaking between models. Three credentials in a view are the fewest
for which a skipped candidate and a turn differ. Of the manager's results `other` is left
to the proofs: like a transient failure it tells the registry nothing, and like one
that cools it leaves an error. Two goroutines at once are the
fewest that race; a third adds only more of the same stale value, and the
properties speak of the next operation that runs alone. `MaxOperations` keeps
outside edits finite: endless edits in no time would keep any loop busy.
`MaxCalls` and `MaxLag` bound callers in flight and the length of a pass.

`requests` follows one request: two requests meet only in the credentials, and
every way one of them changes those is `OtherResult` or a preparation, both
possible at any moment. One credential without and one with a pool and a
preparer, two kinds of failure (with a hint and without) and limits that do and
do not stop a round reach every branch; the proofs cover the rest. In `watcher` the
credentials are independent but for the order of their updates, so one of each
kind is enough; a file starts with one content and a user may write another,
truncate or remove it; a login writes tokens that were never there before. `MaxChanges`
is a budget in which a write or removal of a file or the end of a connection costs
one, a configuration or a reload that is asked for two, a login or a connection three: that allows up to four
changes of a file, a configuration between two of them or two configurations,
and a login or connection with one more. One reload at a
time is checked; that a timer's reload and the management API's may overlap
(`config_reload.go:35`, `:45`) is in the proofs, which hold for every set of
`Reloads` and every `MaxChanges`.

In `relay` two requests are enough for the reader or cleanup to be busy with
one while something happens to the other; requests share nothing else. Channels
of one are full as soon as a message waits, and two messages let one be dropped
behind another; the proofs hold for the eight of the code and any number of messages.

Deadlock checking is off for `requests`, `watcher` and `relay`, where a request
ends, users stop, and a connection is over. In every other run some operation is possible in every state.

**Fairness.** `AutoRefreshLoop`: weak for the loop, each worker,
the callers' remaining steps and the clock, because runnable goroutines run and
the provider call of a worker ends (with an answer, a failure or a refusal).
Strong for `PopDue`, because Go's `select` picks at random among ready channels:
repeated wake-ups do not keep it from the timer forever. Nobody has to edit,
remove or use a credential. `RequestExecution`: weak for the steps of each
request, because its goroutine runs and a provider call or stream answers or
fails, and for the clock; no client has to leave. `AuthUpdates`: weak for the dispatch
loop and the consumer together. They are two goroutines that block only on each
other's channel, so one of them can go on as long as an update is under way.
`WsRelay` states none: `WaitersAreTold` says in every state who is about to
close the channel of a waiting caller, and dispatch, cleanup and the watcher
never block.

## 4. Disagreements with the documentation

Two runs end in a counterexample on purpose; the findings in `PROJECT.json`
quote the sentence each contradicts.

* `cooldown_lost_at_boot`: cooldowns restored from `.cds` files are reset by
  the model registration a few lines later.
* `manager_disabled_again`: a token refresh that began before a credential was
  disabled writes its clone back and enables it.

Seven more properties state a sentence of the source and are not part of a run;
each has a counterexample on the instances above.

* `HealthyModelIsListed`, `CountCoversHealthyClients` (`ModelRegistry`): a
  client that is both rate-limited and suspended is subtracted twice.
* `CoolingOffNeverBlocks` (`AuthCooldown`): disable-cooling does not prevent the
  12 hour block of an unsupported model. `OffBlocksOnlyUnsupported` is the exact
  statement, checked and proved.
* `DisabledShowsInStatus` (`AuthCooldown`): a late result overwrites the status.
* `EmulatesSelector` (`AuthScheduler`): a 429 with a long hint followed by a 5xx
  is held until the quota window ends, where the selector would serve it.
  `PickIsBest` bounds the difference to exactly that (`Held`).
* `NoStaleRegistration`, `RemovedIsUnscheduled` (`AuthManager`): a removal
  between two sections of another operation leaves the models registered, or the
  credential scheduled.

`NeverForgotten` leaves out two named events (`unsettled`): a success that
clears a 401 does not tell the loop, which dropped the credential for the 401
and never refreshes it again, although it "evaluates auth freshness every few
seconds" (`conductor.go:5236`), and a removal's late unscheduling that takes a credential that was
registered again out of the heap. Without the exception both are counterexamples.

In `RequestExecution`, `WaitPays` leaves out one case, `Outlasts`: for a
credential with a quota window and a longer cooldown the wait is computed from the
window (`selector.go:347`), and the request goes through a round for
nothing. Two more places differ from `config.example.yaml`: line 119 says "Maximum
number of different credentials to try for one failed request.", but the
count starts again with every round, which is why `CostIsBounded`
multiplies by the rounds; line 116 lists the status codes that are retried, but
`shouldRetryAfterError` looks at cooldowns and hints, not at codes, and retries a 429. A
failure while preparing, or of a stream that has begun, is marked even when
the client left before; a failed call is not.

What `WsRelay` leaves out by name, each with a counterexample when it is not:

* `PanicsOnlyInRaces`. The reader looks a request up and sends on its channel
  without a lock (`session.go:106`); in between the watcher of the context or
  cleanup closes it. Cleanup does the same (`session.go:172`), and it overwrites
  the map that requests and the reader use (`session.go:182`), so that a request
  may find its entry gone (`session.go:149`). Each of these ends the whole process,
  and an ordinary client that leaves while its answer arrives is enough.
* `AnswerIsWhole`. A full channel drops messages silently (`session.go:110`), the
  last one included, and NonStream takes a closed channel for the end of a stream
  that has begun (`http.go:59`): the answer is cut short and reported as a success.
  So it is when the news of a lost connection finds the channel full.
* `LeftOnlyByStop`. `Stop`, which also runs when `ws-auth` is switched on
  (`service.go:1725`), may end a session between its listing and its announcement
  (`manager.go:150`): the service deletes the credential before it adds it, and
  keeps it. `FileWatcher` takes the two announcements in their order.

Two more places are modelled but carry no property, because nothing promises
otherwise: a refresh that outlasts its pending backoff is started a second time
(`conductor.go:5531`), and results reported while a credential is prepared or
patched are lost with the copy that is written back (`conductor.go:2888`).

Where a hazard does happen, the property about it names that case and excludes every other
way to the same damage: `NeverForgotten`, `DiskIsExact`, the three of `WsRelay` above and
the two that follow bound these hazards, they do not deny them. An emptied file says nothing
to `FilesAreFollowed`, and a login's own record, which lacks the exclusions, is as good as its file's.

`FilesAreFollowed` and `SourcesAreFollowed` hold but for what is added to
`missed`; each of these is needed (without it TLC has a counterexample) and
stands for a real race:

1. Two writers of the picture find out different news of one credential and hand
   them in in the other order (`clients.go:264`, `dispatcher.go:142`; no lock
   is held from the comparison to `dispatchAuthUpdates`).
2. A login publishes its record after its file was changed again and that
   change was handled.
3. A real remove event within a second of another one is dropped (`events.go:96`).
4. A remove event of a file the hash cache does not know is ignored although the
   picture has the credential, at boot (`isKnownAuthFile`).
5. A write that leaves the last hash seen is skipped (`events.go:104`) although a
   reload took an older content into the picture meanwhile.
6. The event loop builds a credential with a configuration that was replaced,
   and stores it after the reload is over.
7. A reload reads the files without a lock (`dispatcher.go:131`) and overwrites
   what the event loop handled since.
8. Credentials dropped from the picture so that a reload finds them again
   (`clients.go:37`), or not yet in it at boot, get no delete if they are gone.
9. The hash recorded after a reload is that of the file as it is then
   (`config_reload.go:75`), not that of the configuration in force: one
   written meanwhile is never loaded.
10. Nothing keeps two reloads apart (`config_reload.go:35`, `:45`): one that took its
    snapshot under a configuration the other has replaced may store it last. This one
    takes two `Reloads`, which no run here has; the proof of the two properties
    brought it to light, and TLC with a second reload shows the counterexample.

## 5. Proofs

`tlapm` proves these for every value of the constants that satisfies the
modules' assumptions.

* `ModelRegistryProofs!TypeCorrect`: `TypeOK` is inductive as it stands. The
  steps of a registration are compositions of `AddN`, `RemoveN`,
  `ReleaseProvider`; one lemma each gives their type, and one for `Reconciled`.
* `ModelRegistryProofs!MarksNeverOutliveBindings`, assuming `LateMarks = FALSE`:
  inductive relative to `TypeOK`. The heart is `ReconciledForgets`: the difference
  that takes a model's count for a client to zero also clears its marks.
* `ModelRegistryProofs!CacheNeverStale`: a cached answer equals a rebuild. The
  strengthening says that a valid entry was built from the present registrations
  at a time no later than now, and expires no later than the first quota window
  that was open then; between the two no mark changes sides.
* `ModelRegistryProofs!CountersNeverDrift`: a counter is the cardinality of a set of
  slots (client and place in its list), and a method touches the slots of one client,
  so `SlotsSplit` sets these apart from the rest. What one client contributes is
  then a count of places in a list; `ReconciledCounts` says that the differences
  `RegisterClient` applies, model by model and provider by provider, turn the
  contribution of the old list into that of the new one, repetitions included.
  `ListsAgree`, assuming `LateMarks = FALSE`: with exact counters and marks only on bindings
  the two ways the code subtracts cooling clients come to the same verdict.
* `AuthCooldownProofs!TypeCorrect` and `BackoffNeverOverflows`: proved together
  (`IInv`), because a cooldown's length is a number only while the level is
  bounded, and the level is bounded because that length is compared with the cap.
  The assumption on `2^n` in `AuthState` is about levels up to `MaxLevel` only.
* `AuthCooldownProofs!OffIsRespected`: `OffInv` says that while cooling is off only
  models reported unsupported cool down; one lemma per operation says which
  cooldowns it can start.
* `AuthCooldownProofs!BackoffNeedsRelief` and `ResultsStayIsolated`: over `IInv` they
  need `Tidy`: only a disabled credential has the status disabled, and a model
  without an entry has the empty state. One lemma per operation says what it does to
  the level, and which verdicts it can change: a result's changes are on its own model.
  An administrator's change does start the level over; it counts as relief (`reset`).
* `AuthCooldownProofs!StoreIsExact`, of every operation, administration included: the
  store is right unless it is `stale`, or a save is due, or a snapshot on its way that is
  not `old`; and a snapshot that is not `old` is what would be taken now (`StoreInv`). So
  when no save is under way the store is right or `stale`. The passage of time needs that
  a cooldown ends in the records, in a snapshot and in the store at the same instant.
* `AuthCooldownProofs!AggregateStaysExact` and `StatusStaysTelling`, assuming `~Admin`
  and `AuthFailures = {}` (a result without a model marks the credential itself):
  `Honest` says that the credential's availability and time follow from its models',
  that its status and last error tell whether some model has failed last, and that
  a model's last error is that of its last result.
* `RequestExecutionProofs!CallsAreReported` and `OneServes`. `AllSound` has three
  parts for each request: its record is one (`IsRequest`); its calls and
  marks differ by the call in progress, or by one after a cancellation (`Reported`);
  and it has served nobody, or the credential in its hands, or has ended (`Serves`).
  Only the steps of the request itself touch these fields, so there is one lemma per kind of step.
* `RequestExecutionProofs!RequestTypeCorrect` and `CostStaysBounded`. `Careful` has three
  parts for each request: what it has in hand fits the place it is at (`Placed`);
  some credential allows the rounds it has made, and each of them paid for one wait
  (`Patient`); and its calls are those the finished rounds may cost, and those `Spent` in
  this one (`Thrifty`): all upstream models of the credentials given up, and of the one in
  hand those that have been called. `TargetsAdd` says what one more credential adds, and
  `RoundCosts` that what has been spent never exceeds `MostPerRound`.
* `FileWatcherProofs!PipelineImplementsMailbox` and `NeverLeftWithOlder`. `InOrder`
  compares the stages: of one credential, what is applied is older than what the consumer
  holds, that than what is in the channel, in channel order, that than the batch, that
  than what is pending, and what is pending is the latest. `Apply` therefore maps to the
  mailbox's, and every other step changes neither `applied` nor the order of `told`.
  `LatestIsUnderWay` adds that the latest update is applied or in some stage.
* `FileWatcherProofs` then lifts this to the whole watcher: `WatcherTypeCorrect`, with one lemma per action;
  `WatcherIsPipeline`: whatever users, event loop, reloads and logins do is a step of
  the pipeline or leaves it alone, because an outbox only ever holds values of
  known credentials. `WatcherImplementsMailbox` and `WatcherNeverLeavesOlder` follow.
* `FileWatcherProofs!FilesStayFollowed` and `SourcesStayFollowed`. The properties speak of
  the moments when all is quiet; `Following` says what is under way until then. Of each
  file not in `missed`, the picture is right, or an event of the file is to come or in
  the loop's hands (`Stirred`), or a reload will look again (`FilesFollow`); the last
  event of a file tells whether it is there (`EventsTell`), and what the loop has read and
  the hashes it keeps are right unless an event is to come (`HandTells`, `HashesTell`). A
  reload that overwrites the picture with an older content is harmless exactly when the
  loop has not yet handled the newer one. The exclusions of a credential are those in
  force unless a reload is to come (`ExclusionsFollow`): that is what lets the loop skip
  a file by its hash. The configuration in force is the one in the file, or one event,
  the timer or a reload is to bring it in, and the hash that is kept is that of the
  configuration in force (`ConfigFollows`). And every last word on a credential, in an
  outbox or handed in, is what the picture has, unless a reload dropped the credential from
  the picture and still holds it as forgotten (`PictureIsTold`). With `LatestIsApplied` the
  service then has what the picture has.
* `WsRelayProofs`: `RelayTypeCorrect`, and `RelayInv`, which says of a request at
  each point of its caller's life where else it is (`InTime`): not yet in the map;
  in the map unless the session is closed; and from the check of `s.closed` on in
  the map or its channel closed, and if the session is closed, still ahead of
  cleanup's walk. Of the reader it says that what it has in hand was heard last,
  and that nothing is heard after a terminal message (`InOrder`); a channel is closed
  only by cleanup, after its client left, or when nobody can send on it any more.
  `NobodyWaitsForEver` and `PanicsOnlyWhereRaced` follow. For `AnswersAreWhole`,
  `Complete` compares what was taken and what is in the channel with what was
  heard: equal but for the message in hand, and once the channel is closed, either
  an error follows it or its last message is terminal. `LastWordIsDisconnected` has
  an invariant of its own on the two announcements.

* `AutoRefreshLoopProofs!RefreshTypeCorrect`: `LoopTyped` gives the loop the record it
  has at each place, and each worker and call in progress its own. `NothingForgotten`: for
  the inductive invariant `Kept` adds what the loop's own hands need: a credential it has
  handed out is dirty before it lets go of it; when it is about to drop from the heap one
  that has to be checked after all, a call that tells it so is under way; and a call
  that takes one from the heap belongs to a removal nobody has made good.
  `LoopSleepsLightly`: `Awake` (a token is in the channel or on its way whenever
  something is dirty, but between taking the token and draining the set) with `TimerIsSet`.
  `LoopIsNotTight`: by `HandedOnce` a credential marked at this instant cannot be due
  before the next, unless an edit, a removal or a result touched it, or the mark does not
  count: a full channel can hold a pass without bound (`auto_refresh_loop.go:267`), and
  once the time it read is older than the pending backoff, the mark it makes
  (`conductor.go:5531`) has run out before it is written. The next pass marks again, with a
  new reading. No theorem assumes anything about the length of a pass or of a backoff,
  except that a backoff is not zero.
* `AuthManagerProofs`. Each thread holds what is left of its program, and `WellFormed` says
  what may follow what: a credential is written first of all, whatever changes the
  registry's models is followed by a fresh look, or by the deletion; `InHand` and `Known`
  say what the thread holds for it. That is preserved when a section is taken off, so one
  lemma per operation and one per section give `ManagerTypeCorrect`, and with
  `Known` `NothingResurrects`. For `LastOneSyncsScheduler`, `AloneSyncs` says that a thread
  in `solo` runs alone and what is left of its program has the `Prospect` of bringing the
  scheduler in step (a cancelled refresh has none, and is excepted). `LastResultSyncsMarks`
  adds `Reporting`: the marks its kind of result sets are the last sections of a result's
  program, those that are still to come or already right, and one that runs alone has
  the result the manager recorded in hand. The proofs assume (`ManagerAssumption`) that `NoAuth`, which stands for an
  absent credential and for nobody, is neither a thread nor a credential.

* `AuthSchedulerProofs`. What a shard remembers of a credential was true when it was last
  told, and since then only the clock may have moved; and its views say exactly what its
  entries say. That is `Sound`, for every shard, and with the types of pool and metas it is
  the inductive invariant `IInv` (`ShardsAreSound`), of which `ViewsNeverDrift` is a part.
  Its lemmas say what `Upserted`, `Promoted` and `Rebuilt` make of the views.
  `RequestsGetTheBest`: a block ends by itself, but never begins by itself, so an entry
  that was ready is ready; and one that was blocked and is free now is either promoted by
  the pick (`EnsuredIsFresh`) or held by its quota window (`BlockedOrHeld`), the exception
  `Held` names. A view's greatest priority with a candidate is therefore the greatest
  priority of all free credentials. `TurnsMakeProgress` is arithmetic on a ring: from the
  cursor to the candidate it finds, the scan passes over refused ones only. The
  same for several providers (`MixedRequestsAreFair`), where a provider has as many slots
  of the ring as it has credentials: `Segment*` places the slots, `Distance` and `Far` say
  how many slots the cursor passes before it meets a provider that has not had its turn. `SchedulerIsTyped`
  adds `Slots`, that the cursors among providers are numbers. The proofs
  assume (`SchedulerAssumption`) finitely many credentials and priorities, orders of providers
  without repetitions (what `normalizeProviderKeys` gives), and that `NoAuth` is
  neither a credential nor a picture of one.

Where a fact about finite sets or sums calls for an induction, the proof takes a least
counterexample instead: `MinOfNaturals`, from the well-founded order of the naturals, gives it, and
removing an element gives a smaller one. `Greatest`, `SortedLists`, `StartsExist`, `MaxOfBounded` and
`KeptExists` are proved so.

Only model-checked: `WaitPays` and liveness (`RequestIsAnswered`, `DeliversInTheEnd`, `DueIsRefreshedIfTold`), which
the prover does not reach, like `ENABLED`, induction over data and recursive
operators. `CoolingOff`, `Requests` with several members and `Reloads` with several are
covered by the proofs only.

## 6. Plan

1. Done: `ModelRegistry`, `AuthState` and `AuthCooldown`, `AuthScheduler`,
   `AuthManager`, `AutoRefreshLoop`, `RequestExecution`, `UpdateMailbox`,
   `AuthUpdates`, `FileWatcher`, `WsRelay`, with the proofs of section 5.
2. Next modules, in order: `CooldownStore` (files, renames and crashes under
   `AuthCooldown`'s `WriteStore`, with the atomic write as the abstract
   specification it implements), `SessionAffinity`, `UsageQueue`, OAuth
   sessions, the home client.
3. An abstract specification of credential choice (a set of known credentials
   with a free/blocked verdict; a request gets a free one) that `AuthScheduler`
   implements under a refinement mapping, and that `RequestExecution` uses.
4. Proofs: `WaitPays`, which needs the types of the credentials (`AuthCooldownProofs`
   has them for one store).

## 7. Not modelled

Executors, translators, thinking, signatures: I/O and conversions. Login flows
and token stores: provider protocols and storage. Management HTTP, TUI, logging,
configuration: input and output. The manager's home mode, hooks and aliases.
Request-scoped failures (400 and the like) change no cooldown and are left
out of `Failures`. Wall clock adjustments: time never runs backwards here.

Of the relay: message types that mean nothing to NonStream and Stream (they
take a place in the channel and are skipped), what the payloads contain, and a
session name that is drawn twice. Crashes while cooldown files are written
(`cooldown_state.go:175`): in `AuthCooldown` the write of a snapshot is one step, a crash
falls before or after it. A reload that switches `save-cooldown-status`: `Storing` is a
constant. The records' `UpdatedAt`.

Of a request: the credits fallback of one provider, session affinity, plugin
schedulers, and a credential that is removed while the request runs. Of the
watcher: files a plugin parses into several credentials, a configuration that
changes `auth-dir` (the rescan reads the new directory, events and snapshot keep
the old one), a `config.yaml` replaced by rename (its watch is lost and the
remove event ignored, `events.go:69`), `Stop`, and the inline application of updates that
`service.go` falls back to when there is no watcher queue. The other writers of
credentials in the service are `AuthManager`'s; to the watcher they are users who write files.
