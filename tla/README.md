# Botkube in TLA+

This directory holds a TLA+ development of Botkube's agent: modules that
model its concurrent parts, TLC configurations that check them on small
instances, and theorems about them that TLAPS checks for every instance.
Paths below are relative to the repository (`src/`).

## 1. The system

The agent (`cmd/botkube-agent/main.go`) connects a Kubernetes cluster to chat
platforms. *Source* plugins produce events, *executor* plugins run the commands
users type; both are separate OS processes the agent talks to over gRPC. Around
them are the chat platforms, the sinks, and a reloader that restarts the agent
when its configuration changes.

| Component | State | Operations | Hard behaviour | What makes it correct |
|---|---|---|---|---|
| Plugin manager and health monitors (`pkg/plugin/manager.go`, `health_monitor.go`, `health_stats.go`, `store.go`) | stores of clients, processes, a watcher goroutine per process, restart counts per key | start (with a forced second attempt), watch, restart, deactivate, shut down | goroutines over unbuffered channels; processes that die at any time; two monitors share a counter; shutdown against restart | one supervised process per plugin; failure reports concern the present process; restart budget; deactivated stays deactivated |
| Scheduler and dispatcher (`internal/source/scheduler.go`, `dispatcher.go`) | `dispatchConfig`, `openedStreams`, open streams, dispatch loops | generate, schedule, dispatch, reopen after a restart | two goroutines run `schedule` without a common lock; restart during the boot | every bound source is streamed, from its present process, once |
| Kubernetes source plugin, background processor (`internal/source/kubernetes/source.go`, `bg_processor.go`, `configuration_store.go`) | configurations, background process, its lock, informers, listeners, channels | `Stream`, replace the background process, handle an event | replacement while events are handled; two locks; unbuffered channels; re-listing of the cluster | one background process; no event twice; nothing lost once configured; a `Stream` call returns |
| Kubernetes source plugin, routing (`router.go`, `registration.go`) | routing table, registrations | build table, register informers, match, qualify updates | merging of routes of several sources; errors of one route | each matching source exactly once |
| Filters, recommendations, messages (`filterengine/`, `recommendation/`, `commander/`, `msg.go`) | none between events | run, skip, recommend, render | API calls that fail | per source |
| Plugin index, downloader, collector (`pkg/plugin/index.go`, `downloader.go`, `collector.go`) | plugin cache | find version, download | network, partial downloads | latest matching version |
| Remote configuration (`internal/config/reloader/remote.go`, `restarter.go`) | configuration, resource version | poll, compare, restart | failure between two requests; a version recorded before it is used | the agent ends up with the configuration of the server |
| In-cluster reloader (`internal/config/reloader/in_cluster.go`) | informers | restart on a labelled change | several callbacks | as above |
| Persistence (`pkg/config/manager_remote.go`, `manager_k8s.go`, `state.go`) and status reporter (`internal/status`) | resource version, ConfigMap | conditional write with retry | lost updates, failing retries | a write is not lost, versions grow |
| Cloud Slack and Teams (`pkg/bot/slack_cloud.go`, `teams_cloud.go`) | connection, failures, workers, channel map | connect, retry, process, notify | back-off, worker pool, shared map | messages are handled once, retries end |
| Socket Slack, Discord, Mattermost (`pkg/bot`) | as above, through vendor SDKs | | | |
| Command execution, actions (`pkg/execute`, `pkg/action`) | notification switch, source bindings | parse, choose executor, run, persist | change in memory, then persist | memory and storage agree |
| Sinks, audit, heartbeat, analytics (`pkg/sink`, `internal/audit`, `internal/heartbeat`, `internal/analytics`) | batch of analytics | one request per event; batch | failed reports | counted once |
| Health, webhook, upgrade check, help storage (`internal/health`, `internal/source/incoming_webhook.go`, `pkg/controller`, `internal/storage`) | flags | plain handlers | | |
| kubectl executor, cm-watcher, echo (`internal/executor/kubectl`, `cmd/`) | none | one subprocess or watch | | |
| Configuration loading, CLI, generated code | none | | | |

How they interact:

* `main` creates the channel from health monitor to scheduler, starts the plugin
  manager, then the bots, then `NewScheduler` (whose `monitorHealth` goroutine
  starts at once) and `Scheduler.Start`, and waits for its error group. Deferred
  calls run `Manager.Shutdown` first and cancel the context afterwards.
* A watcher goroutine pings its process; on an error it leaves and sends the plugin
  to the monitor of the plugin's kind. The monitor kills and deletes the client, may
  create another, and for a source tells the scheduler, which clears its records of
  the plugin and schedules again. All three hand-overs use unbuffered channels.
* `schedule` asks the manager for the client and opens a gRPC stream. In the
  Kubernetes plugin each such stream is a `Stream` call that rebuilds the one
  background process of the plugin.

`PROJECT.json` lists all components with what is and is not modelled, and the
hazards: the places where the code could go wrong in a way a test hardly reaches.

## 2. The modules

| Module | Models | Builds on |
|---|---|---|
| `PluginLifecycle` | what the manager promises: load, open, withdraw, replace within the budget, abandon | |
| `PluginManager` | the manager, watchers, monitors, shutdown | implements `PluginLifecycle` |
| `SourceScheduler` | scheduler and dispatcher, composed with the manager | extends `PluginManager` |
| `KubernetesSource` | the process of the Kubernetes source plugin | |
| `RemoteConfig` | reloader, remote persistence manager, notification switch, around one server | |
| `InClusterConfig` | in-cluster reloader and persistence manager, around two ConfigMaps | |
| `EventRouting` | routing table, informer registrations, matching | |
| `ChatBot` | the five bots: connection, message processor, workers, source messages | |
| `Analytics` | heartbeat and batch of the analytics reporter | |
| `Delivery` | dispatching of events and webhook requests to bots, sinks and actions | extends `Analytics` |
| `X_proofs` | theorems about `X`, for `PluginManager`, `SourceScheduler`, `KubernetesSource`, `RemoteConfig`, `InClusterConfig`, `EventRouting`, `ChatBot` and `Delivery` (with `Analytics`) | extends `X`; `SourceScheduler_proofs` also `PluginManager_proofs` |
| `MC...` | model values for TLC | |

### PluginManager

State and code: `main` is the position of the main goroutine from `Manager.Start`
to exit, `forced` the argument of the current `start`, `client` the store entry of a plugin, `live` its
processes that are up, `watcher` and `informing` the watchers that tick and those
that are blocked in `supervisorChan <- pm`, `monPc`/`monPlugin`/`monCount` the
program counter and local variables of the two monitors, `restarts` the
`HealthStats`, `closing` the clients `releasePlugins` still has to kill. `policy` is
fixed and chosen in `Init`, so that one run covers both policies. An action is the code between
two points at which another goroutine can be seen: `Release`, `Delete`,
`GetRestartCount`, `Increment`, `CreateClient`, `Insert` and `NotifyScheduler` are
the steps of one round of a monitor. A send on an unbuffered channel and its
receive are one action (`Receive`, `NotifyScheduler`).

Processes are numbered per plugin. The code has no such number; properties
need it to say "the same process". Downloads and the index appear as the
alternatives of `StartExecutors`/`StartSources`, `RetryForced` (not found) and
`StartFails` (any other error). The statuses `GetStats` derives are not modelled.
A forced retry abandons the processes of the first attempt; those properties that
would only restate this hold under `~forced`.

### SourceScheduler

`boot` refines `main = "running"`: bots, generation, scheduling, ready. `pc`, `todo`,
`filter`, `current`, `got` are the program counter and locals of the two goroutines
in `schedule`. `dispatchConfig` maps a configuration key to *one* plugin, as in the
code, `opened` is `openedStreams`, and `streams` counts the dispatch loops per
binding and process. A stream opens if the process is up when the request is
made; the loop of a process that died later stays (`grpc_adapter.go` returns
without closing the channel). `ConcurrentMapFault` is the runtime fault Go may
raise when `dispatchConfig` is written while `monitorHealth` iterates over it.
`GenerateKubeConfig` marshals a structure of strings and cannot fail, so a pass ends before its
request only when there is no client (`GetSourceFails`).

`FaultPhases` limits when a process that is up may fail; `calmBoot` is a history
variable: no plugin failed before `Scheduler.Start` returned. The strong
properties need it, because the boot is where the two goroutines overlap.

### KubernetesSource

`mu` and `bgMu` are `Source.mu` and `backgroundProcessor.mu` (write side; a
reader holds it within one step only, so `CheckAge` just needs it free). `store` is
the configuration store, `current` the background process the processor knows,
`bg` the position of its function for each kubeconfig, `inactive` the
configurations this function has not stored yet, `queue` what the informers have
not handed to the listeners, `handler` the locals of a listener between `handleEvent`
and the end of `handleEventFn`.

client-go is external and modelled as used: a started informer reports every
existing object as added; `Shutdown` returns when all listeners are idle, and what
they have not begun is dropped. Time is the number of background processes
started, since the code only compares time stamps with the start of the present
one. A created object may be stamped one start too early: creation time stamps have a
resolution of one second, `startTime` has not. Clocks of cluster and plugin are
taken to agree, and a stream ends only with the process: the agent cancels all
streams together, when it stops. Which routes match, which fields changed and what
filters and recommendations decide are constants. Deletions are left out: they
go through the same listener code, are never re-listed, and may carry a stamp.

### RemoteConfig

An agent managed by Botkube Cloud. `cloud` is the server's configuration with its version;
a configuration is the persisted switch of one channel (`enabled`) and the rest, of
which some does not unmarshal (`Malformed`) or does not load (`Invalid`). `run` is the
configuration the process was started with, `switch` the bot's flag that commands
change, `currentCfg` and `resVersion` the fields of the reloader, `managerVer`
that of the persistence manager. The loop of `Do` is `Poll` (ask for the version), `QueryConfig`
(ask for everything, maybe newer by then), `ProcessNewConfig` and `Restart`; between them
the other goroutines run. The comparison in `ProcessNewConfig` has no failure of its own: `diff.Diff` gets two
values of one type, `config.Config`, and tolerates mismatches below it (`remote.go:173`). A command is `SetNotificationsEnabled`, then per attempt of
`withRetry` `GetResourceVersion`, one of the three `Patch...` actions and, in
`OnRetry`, `FetchVersion` and `SetResourceVersion`. `OnRetry` is also called after the last attempt, as in the library.

External, modelled as used: the server increments the version with each change
and accepts a patch only for the present one (what `ResourceVersion` in the mutation is
for); users edit configurations (`Edit`); Kubernetes replaces the pod of a patched
Deployment, old pod first (`strategy: Recreate` in the chart), and starts a
container that ended again (`Boot`). An answer may be lost after the patch was applied. What a
request in flight does after its process ended is left out, as are source
bindings and actions, which use the same `withRetry`, the status reporter, and the messages
of the restarter. `switch` is only ever written by commands and by a start. `history` is a history variable: for each command, what got in its
way (`disturbed`), the patches the server applied and the answers that were lost.

### InClusterConfig

The same agent without Botkube Cloud. `cm` holds all versions of the *runtime* ConfigMap
(bindings and actions; the chart labels it for the reloader) and of the *startup* one (notification
switches, not labelled); `booted` is the version the process was started with, `seen` what the
informer has delivered. A command is `Begin`, `Get` and `Update`: the three operations of
`K8sConfigPersistenceManager` read a map, change one entry and write the map back with the resource
version they read, and do not retry a conflict. `HandleEvent` is the informer with
`OnAdd`, `OnUpdate`, `OnDelete`, which it also calls when the label comes and goes; it may skip
versions when it lists again. `InitialList` is the first list, whose objects `OnAdd` leaves out.
The chart puts one file into each map, of which bindings, actions and switches are entries; `OtherKeys` are files
somebody else adds, which a command drops, since it writes the map back with its own file only (`state.go:153`).
`missed` is a history variable: the reloader left a change of the runtime map aside, because it
fell between start and initial list or because the patch of the Deployment failed, which
`reloadIfCan` only logs. The API server, the informers and the rollout are external.
The other labelled objects (secrets, further ConfigMaps) go through the same handler and
are left out.

### EventRouting

`cfgs` is the configuration of each source, `table` the routes by resource and event type,
`registrations` and `handlers` what `RegisterInformers`, `MapWithEventsInformer` and
`RegisterEventHandlers` make of it; `told` counts how often the event handler was given each
source for the `last` object. A constraint on message, name, namespace, labels or annotations is
reduced to what it says of the objects in the model: undefined, matches, differs, or bad (a
regular expression that does not compile). `unread` of an object names the handlers whose first step fails
and which therefore report nothing: `direct` when no event can be made of the object (`registration.go:42`),
`mapped` when the object an event is about cannot be found or read (`registration.go:88-107`). A route carries the place it comes from, so
that equal routes of one source remain two. What the comparison of JSON fields yields is an input
(`changed`). Two peculiarities of the code are in the model: when any source watches
errors, the registration for v1/events is replaced, and a source that watches Event objects gets
none (`router.go:114`); and `qualifyEventForUpdate` combines each candidate with the routes of
all sources, so that an update that concerns a field of one source is also reported to another, and
several times (`registration.go:311`).

### ChatBot

`platform`, chosen in `Init`, tells which of the five bots runs; what differs between them
(how a start fails, how a connection is lost, whether reception waits for room in the channel, which
messages are commands, how `send` reports errors) is an action or an operator per bot.
`pipe` is the message channel with its processor goroutine and its worker pool: one per
connection for the cloud bots, one for the life of the others. `phase` is where the connection stands: a loss that
the bot notices leads from `connected` through `stopping` (the deferred shutdown waits for the workers) to `failed`
and to the retry, the end of the agent through `leaving` to `ended`. In the phase `deaf` the connection is gone and
the bot waits for messages as before: Cloud Teams when the stream ended with the status of a cancelled context
(`CloudTeamsTakenForShutdown`, `teams_cloud_grpc.go:165-168`), Socket Slack when `RunContext` of slack-go returned
an error (`SocketSlackRunFails`, `slack_socket.go:121-130`); only the end of the agent leads out of it. Other losses of
Socket Slack are repaired by slack-go (`SocketSlackLoses`). `var` is the loop
variable of the processor: `go.mod` says Go 1.21, where the functions given to the pool share
it, so `BeginTask` reads what it holds when the worker runs. `Handlings` are the calls of `handleMessage` made so far. `pool` follows `conc/pool`:
while `Wait` is under way a call of `Go` panics, afterwards the pool can be used again. The vendor
SDKs are modelled as used; discordgo runs each handler in a goroutine of its own (`callbacks`).
`sends` are calls of `SendMessage`, which first reads the map of channels (`reading`) and then
posts; `outbox` is the channel of Teams that outlives connections. `LockSwitch` is a command that
holds `notifyMutex`; `getChannelsToNotify` does not take that mutex, and `MapFault` is the fatal
error the Go runtime may raise then, or when two workers store a user's name. `streak`, `newest`, `handled`,
`posted` and the fields `on` and `off` of a call are history variables. The message tracker, rendering, file upload
and the resolution of user names are left out.

### Analytics and Delivery

A stream of `Delivery` is one started plugin of one source, opened for the interactive or for the other
platforms; a source bound to both kinds has two, so its actions run and its analytics count twice.
`thread` is the position of a dispatch loop, or of a webhook handler, in `dispatchMsg`: start one
goroutine per notifier (`sending`), wait for the audit report, then run the actions.
`RenderedActions` is all or nothing, as in the code: an action whose command cannot be rendered keeps
the other actions of the event from running (`dispatcher.go:242`). Elasticsearch and PagerDuty drop an
event they are not bound to and return no error, which counts as a success. Audit report and
`ExecuteAction` are taken to return; bots and sinks need not (`Slow`). For action results only
the start of their goroutines is modelled. `Analytics` is the batch (`sources`, `count`, `details`, `window`)
and the loop of `Run`; `heartbeat` holds the copy `HeartbeatProperties` makes, which shares
the map with the batch until it is marshalled: `MapFault` is the runtime error that may follow, and ends the
process with all it had in memory.

## 3. The runs

| Run | Question | Instance |
|---|---|---|
| `pm` | is the manager right? | a source and an executor with one key, two restarts, both policies |
| `pm_start` | is a start that returned no error usable? (**no**) | one restart |
| `sched` | does streaming survive restarts? | one source, two configurations, one of which may end by itself; two restarts after the boot |
| `sched_boot` | what if plugins fail during the boot? | the same, failures anywhere |
| `k8s` | is the background process replaced safely? | two keys, one kubeconfig, four calls (one key twice, one call invalid), one creation, one update |
| `k8s_stop` | does `StopAndWait` return? (**no**) | two calls |
| `remote` | do the agent and the server agree in the end? | a command that disables and one that enables, two attempts each; two edits; one fault |
| `incluster` | the same around ConfigMaps: is a write lost, a change missed? | a command for bindings, one for an action, one for notifications; one edit; two faults |
| `routing` | who is told of an event? | two sources with every pair of 60 configurations; creations, updates, deletions, warnings, objects of which a handler can make no event |
| `bots` | do the bots survive their connections, and do messages arrive? | each of the five bots: two connections, a script of two commands that switch notifications off and on, one source message for two channels, a channel of one place, two workers, one retry |
| `bots_once` | is a command executed once? (**no**) | Cloud Slack, one connection, two commands |
| `delivery` | who gets an event, and is each outcome counted and answered? | one event and one webhook request over the two openings of a source, a bot that may not answer, one sink, an action that may not render, two heartbeats |

What they show:

* **`pm`**: no plugin has two processes (`OneProcess`); a waiting report is about the
  present process (`NoStaleReport`); every client that can be handed out is supervised
  (`ClientsSupervised`); restarts stay within the threshold per plugin
  (`RestartBudget`); the agent ends when a plugin fails too often under `RestartAgent`
  (`AgentExitsAtThreshold`); a plugin given up stays off (`WrittenOffStaysOff`); a
  client of a dead process is withdrawn (`DeadClientWithdrawn`); and all of it
  together implements `PluginLifecycle` (`ImplementsLifecycle`).
* **`sched`**: with a calm boot no configuration falls silent (`NoSilentSource`), a
  process serves a configuration at most twice, and twice only after a second restart
  (`BoundedStreams`, `DuplicateTakesTwoRestarts`), and every restart leads to a new
  stream (`RestartedIsStreamed`). **`sched_boot`**: with failures during the boot three
  is the limit, and it is reached: the passes of `Start`, of the restart that made the process and of the one before
  it all open the configuration.
* **`k8s`**: never two background processes (`OneBackgroundProcess`), the creation of an
  object is reported at most once to a source over all replacements
  (`CreatedReportedOnce`), the lookup that "seems to be a bug" happens only when the key is streamed
  again (`ActiveWhenHandled`), and after the last call every event reaches its sources
  (`NewEventDelivered`).
* **`remote`**: once the latest version is recorded, the agent runs that configuration
  or its restart is under way (`NoSkippedConfig`), although the version is recorded before the
  configuration is loaded; when users leave a configuration that loads, the agent ends up
  running it, through broken configurations, crashes and writes of its own commands
  (`RunsLatestConfig`); `withRetry` gives up only when something disturbed each
  of its retries, so a version that was merely old costs one attempt and never the
  write (`WriteFailsOnlyWhenDisturbed`); a command reports success only for a patch that
  was applied, and a patch applied without that belongs to a lost answer (`AppliedAsReported`).
* **`incluster`**: two commands, or a command and `kubectl edit`, never undo each other: no
  version of a map changes two of the entries the agent keeps there (`NoLostUpdate`; nothing is promised of
  other files), which rests on the resource version alone;
  the agent restarts only for a change of what it watches, so a command that switches notifications does not
  restart it (`RestartOnlyForChange`); and it ends up running what the runtime map holds, through crashes
  and changes during the restart, unless the reloader left a change aside (`RunsWatchedConfig`).
* **`routing`**: a source is told of all its configuration asks for, whatever the others ask for
  (`WatchedIsTold`, with three exceptions: events of a resource with a bad pattern among the routes, the namespace
  of a recommendation included, Event objects while some source watches errors, and objects of which the handler
  can make no event), of nothing else
  (`ToldOnlyIfWatched`), and, updates apart, once per matching entry (`OncePerPlace`).
* **`bots`**: a cloud bot gives up only after the allowed number of failures in a row
  (`GivesUpAfterMaxRetries`); the shared loop variable never makes more executions than messages
  (`NoMoreThanReceived`), and of the messages of a connection the last is always handled (`LastMessageHandled`);
  a channel that was switched off before a call of `SendMessage` gets nothing of it
  (`PostedOnlyIfEnabled`), and a call that returned `nil` left out no enabled channel (`NilMeansPosted`, which is void
  for Mattermost, whose `send` swallows the error, `mattermost.go:316`); a lost connection is tried again whatever
  the workers do, provided the bot notices the loss, and `Start` returns when the agent ends, also from the phase `deaf`
  (`KnownLossIsRetried`; that every loss is noticed, `LossIsRetried`, is refuted, see below); a full channel of Teams blocks a call only while there is no connection
  (`SendMessageReturns`).
* **`delivery`**: every event is sent to all notifiers of its kind of platform, and to no other, and each send
  is under way or counted (`DispatchedIsAccounted`); a report is in at most one heartbeat, and lost only if it came
  while one was being sent; the window of a heartbeat covers what it contains (`HeartbeatAccounts`); a
  webhook request is answered with success only if all plugins handled it (`AnswerTellsAll`); and a notifier that
  does not answer delays nobody else (`SlowNotifierIsolated`).

Disagreements between the code and what its comments, settings or tests say (the
runs marked **no**; the counterexamples are short):

* `pm_start`: after a retry with a forced index update `Manager.Start` returns `nil`
  without starting the monitors or setting `isStarted` (`manager.go:143`).
* `k8s_stop`: `StopAndWait` waits, holding the lock, for a listener that needs
  the lock for `StartTime` (`bg_processor.go:69`).
* `bots_once`: of two messages in a row, one is executed twice and the other never: the functions given to
  the worker pool read one loop variable (`slack_cloud.go:255`, and the same loop in the other bots).

### Further disagreements

These definitions are in the modules and state what the code was meant to do. Each is refuted when it is put
into a configuration with the constants named here; they have no standing run.

| Definition | Module | What the counterexample shows | Constants that differ |
|---|---|---|---|
| `ShutdownLeavesNoProcess` | `PluginManager` | `Shutdown` kills the clients it finds while a monitor is restarting a plugin; the new process stays (`manager.go:214`) | own keys (`OwnKeyOf`, `Keys = {key, key2}`), `Threshold = 1`, `Policies = {"DeactivatePlugin"}` |
| `FailedPluginRestarted` | `PluginManager` | when creating the new process fails the plugin is given up although its budget is not used (`health_monitor.go:71`) | the same |
| `UniqueStreams` | `SourceScheduler` | `Start` and `monitorHealth` both open a stream of one configuration (`scheduler.go:154`) | those of `sched_boot` |
| `AllBoundSourcesOpened` | `SourceScheduler` | the second enabled plugin of a source replaces the first in `dispatchConfig` (`scheduler.go:296`) | `TwoSources`, `BothBound`, `Configs = {1}` |
| `SwitchIsConfigured` | `RemoteConfig` | the reloader compares a new configuration with the one of the start, which a command has left since: notifications stopped by a command and enabled again on the server before the next poll stay off (`remote.go:177`) | one command (`JustOff`), one edit, no fault |
| `BadPatternIsLocal` | `EventRouting` | a regular expression that does not compile in one source discards the candidates of all (`registration.go:272`) | none |
| `LossIsRetried` | `ChatBot` | a stream of Cloud Teams that the server ends with the status of a cancelled context is taken for the shutdown of the agent: one of the two goroutines returns `nil`, the other one and with it `start` stay, and the retry that only "our own" cancellation should end (`teams_cloud.go:253`) never learns of the loss (`teams_cloud_grpc.go:165`); Cloud Slack returns an error for the same status and is connected again | `Platforms = {"cloudTeams"}` |
| | | after an error of `RunContext` Socket Slack stays up without a connection (`slack_socket.go:121-130`) | `Platforms = {"socketSlack"}` |
| `SinkGetsBoundSources` | `Delivery` | the webhook sink posts events of sources it is not bound to | two sources (`TwoSources`, `PlainAndOther`), sinks `webhook` and `pagerDuty` with `Filtering = {pagerDuty}`, no requests or actions |
| `EditedThenReloaded` | `InClusterConfig` | commands are taken before the reloader's initial list: a binding stored then is not loaded, although the answer says "Expect Botkube reload in a few seconds..." (`sourcebinding.go:22`) | one command (`JustBind`), no edit, no fault |

### Bounds

* Two restarts (`Threshold = 2`) give three processes of a plugin: enough for a
  report or a pass of the first to meet the third, and for a source and an executor to
  compete for the last restart, and, in `sched_boot`, for three passes to meet the last process, as many
  as can. More restarts repeat the same rounds; the theorems hold for every threshold.
* One source with two configurations: a pass then has a key to skip and one to
  open, and can be interrupted between them. A second plugin matters only for
  `dispatchConfig` (`AllBoundSourcesOpened`).
* Four `Stream` calls give three background processes; one event of each
  listener is enough for both listeners to be busy during a replacement.
* Two edits break the configuration and repair it, or compete with both commands; with two
  attempts one disturbance makes a command fail, and the fault can be that disturbance. The code
  has three attempts (`retries`); the theorems hold for every number.
* Two commands of `incluster` write the same map, one the other; with one edit a third writer meets
  them, and two faults are a failing patch of the Deployment and a crash after it.
* The 60 configurations of `routing` hold every constraint alone and every pair of an entry's and
  its source's constraint that hide or uncover each other, repeated entries, event types given twice, and
  recommendations; two sources are enough since routes are merged one source at a time.
* Two connections let the workers of the first outlive it; a channel of one place is full after one
  message; two workers and two messages are what the loop variable and `MapFault` need. One retry
  (`MaxRetries = 1`, 30 in the code) makes the bot give up after two failures in a row and separates that from two
  failures with a connection between them.
* The webhook request brings one event to both openings of the source, so that three sends go to the
  two notifiers and the limit of details (`MaxDetails = 2`, 75 in the code) is passed;
  two ticks are a heartbeat that fails and one that repeats it.
* `CHECK_DEADLOCK FALSE` in all configurations but that of `routing`: the agent exits, a plugin process may
  exit, and the finite sets of calls, messages and events are used up. Being stuck is
  checked by the liveness properties instead.

### Fairness

Weak fairness of a goroutine's next step: the Go scheduler runs every goroutine
that can run. `PingFails` is fair only for a process that is gone: the ticker
keeps pinging. In `RemoteConfig` the reloader is fair because a ticker drives it, `ReplacePod` and
`Boot` because Kubernetes carries out a rollout and restarts a container; commands are not fair. `Receive` is strongly fair: the monitor returns to its `select` again and
again, and a Go channel serves blocked senders in order. Nothing is assumed of
failures, signals, events of the cluster or errors of calls.

`InClusterConfig` is fair like `RemoteConfig`: the reloader, because the informer delivers what it has, and
`ReplacePod` and `Boot`. In `ChatBot` some goroutine of the bot that can run does
(`Progress`), platforms answer or refuse a request, and a command ends; nothing is assumed of
incoming messages, of losing the connection or of a new call. In `Delivery` loops, handlers and the
sends of notifiers that are not `Slow` proceed, and the heartbeat need not. `EventRouting` states safety only.

## 4. The proofs

Every invariant and action property of the passing runs is also a theorem: it holds for every value of
the constants the module's assumption allows, and follows from the specification without its fairness. Each
proof has the same plan. `IInv` (`SchedulerInv`, `RoutingInv`) strengthens the property until it is
inductive; `Init => IInv` is one step; `IInv /\ [Next]_vars => IInv'` is split by part of the
invariant and, under it, by action; `IInv => property` and one temporal step finish. All these
invariants held in the instances of the runs before they were proved.

### PluginManager_proofs

For every set of plugins, keys, threshold and set of policies allowed by `PluginsAssumption` and
`PolicyAssumption`: `TypeCorrect`, `OneProcessHolds`, `NoStaleReportHolds`, `ClientsSupervisedHolds`,
`RestartBudgetHolds`, `AgentExitsAtThresholdHolds` as invariants, `WrittenOffStaysOffHolds` as an action
property, and `ImplementsLifecycleHolds`, the refinement of `PluginLifecycle`.

    IInv == TypeOK /\ StartInv /\ (~forced => \A p \in Plugins : PluginInv(p))

`StartInv` relates the phases of the start to monitors and processes (before
`Supervise` no monitor runs; `isStarted` implies the start was not a forced one).
`PluginInv(p)` has three parts: `ProcessInv` (a process other than the last one
created is dead, and the store entry is 0 or the last one, depending on where the
monitor of `p`'s kind is), `SupervisedInv` (the last process has exactly one of a polling
watcher, a blocked watcher, a monitor that handles its failure, or was given up)
and `BudgetInv` (`inc[p]` against `restarts` and the count the monitor has read). The
budget is per plugin because a monitor compares a count that is at least the
number of restarts of its own plugin; plugins that share a key share a count that is read and
incremented in two critical sections, so together they may use one restart more.

`AgentExitsAtThreshold` needs `ExitInv(key)`: while the agent runs, two monitors that hold a count below the
threshold (`Pending`) leave room for both increments. There are never three of them, since two plugins of a
key differ in kind (`TwoPluginsPerKey`). For the refinement `LoadedInv` adds that every
plugin has its first process and client when `Supervise` opens the manager; a step of the manager is then
an action of `PluginLifecycle` or leaves its variables as they are.

### SourceScheduler_proofs

For all sources, configurations and bindings, every threshold and policy, and failures in any phase of the
boot: `SchedulerTypeCorrect`, `BoundedStreamsHolds`, `DuplicateTakesTwoRestartsHolds`, `NoSilentSourceHolds`.
`SchedulerAssumption` gives each configuration at least one plugin, because a key gets into
`dispatchConfig` only for an enabled plugin (`scheduler.go:270`, `:296`).

    SchedulerInv == ManagerInv /\ SchedulerTypeOK /\ BootInv /\ CalmInv /\ GotInv /\ CoverInv
                    /\ RoutineInv(r) /\ AnnouncedInv(p) /\ StreamInv(b)     for all r, p, b

`ManagerInv` is the invariant of the manager, whose lemmas are reused for its steps. `BootInv` and
`RoutineInv` say where main and the two goroutines are and what they still have to do. `StreamInv` is the
counting argument: the streams of the present process, plus one for each goroutine that may still open the
binding, are at most the number of passes that can have met the process (`Passing`): the pass of `Start`, the pass for its
own announcement and that for its predecessor's, which may be late. A fourth is impossible because
the monitor's send blocks until the pass before has ended (`AnnouncedInv`). `CoverInv` says that a binding is streamed and recorded,
or in a pass that is going to open it, or its plugin is in trouble that ends with an announcement. A
pass may hold a client that was replaced meanwhile only if another announcement is to come (`GotInv`).
`CalmInv` says what a boot without failures leaves out, and had to include that nothing is recorded in
`openedStreams` before the first pass.

### KubernetesSource_proofs

For every set of calls, keys, kubeconfigs and events: `TypeCorrect`, `OneBackgroundProcessHolds`,
`ActiveWhenHandledHolds`, `CreatedReportedOnceHolds`.

    IInv == TypeOK /\ StreamInv /\ StoreInv /\ FunctionInv /\ (\A l \in Listeners : ListenerInv(l)) /\ OnceInv

`StreamInv` is about the two locks: only the holder of `Source.mu` is between storing a
configuration and `Run`, and a function that has not returned belongs to `current`. `StoreInv`
says that a channel in the store, or in a copy of it that will be stored again, was made for that key.
`FunctionInv` says that a function has activated what it no longer lists in `inactive`, unless the key is
being streamed again. `ListenerInv` is what a listener knows of the event it
handles. `OnceInv` is the heart of `CreatedReportedOnce`: once a source was told of a
creation whose stamp is that of the present background process, no function of that process has the object
before it for that source; when the next process starts the stamp is old and `CheckAge` drops it.

### RemoteConfig_proofs

For every set of configurations and commands, every number of attempts and all
bounds on edits and faults that `RemoteConfigAssumption` allows: `TypeCorrect`, `NoSkippedConfigHolds`,
`WriteFailsOnlyWhenDisturbedHolds`, `AppliedAsReportedHolds`, all invariants.

    IInv == TypeOK /\ ReloaderInv /\ \A c \in Commands : CommandInv(c)

`ReloaderInv` says what the reloader's variables tell of the server: the recorded version is
not ahead; what it fetched is the server's configuration if the versions agree; and if
the recorded version is the latest and loads, `currentCfg` is that configuration, and it
differs from what runs only while a restart is under way. `CommandInv(c)` counts:
in attempt `t` of a command (the first is 0) at least `t - 1` disturbances have happened, and `t` if the version at hand
is not the server's; so the last attempt can fail only after `Retries - 1`. `AppliedAsReported`
is inductive relative to `IInv`.

### InClusterConfig_proofs

For every set of keys, values and commands and all bounds: `TypeCorrect`, `NoLostUpdateHolds`,
`RestartOnlyForChangeHolds`.

    IInv == TypeOK /\ VersionInv /\ NoLostUpdate /\ RestartOnlyForChange

`VersionInv` orders the versions that processes hold: what the process was booted with, what the informer
has delivered, what a command has read, the latest; and the startup map never carries the label. The two
properties are inductive relative to it. The lemmas `EditFollows` and `UpdateFollows` say the same of both
kinds of writers: the new version differs from the *last* one in one entry, which for a command follows from the
comparison of resource versions and from nothing else. It differs in one entry of the agent's
(`StateKeys`); entries of `OtherKeys` may go in the same step.

### EventRouting_proofs

For every finite set of sources, whatever each asks for, and every reported object: `TypeCorrect`,
`WatchedIsToldHolds`, `ToldOnlyIfWatchedHolds`, `OncePerPlaceHolds`.

The state machine is a straight line, so `RoutingInv` (`TableInv`, `RegistrationsInv`, `HandlersInv`, `ToldInv`) only says
what each phase computes from the configurations. The work is in the operators:
`OwnRoutesAreListening` (the routes built from a source are those of the places of its configuration that
listen for the event), `MergedRoutes` (what merging and the recommendations leave of them), `FirstIsARoute`
(the route the recommendations are merged into exists and is one of them, from the well-founded order of places),
`Counts` (how often the handler is given a source equals the number of matching routes, times that of the open
ones for an update) and `Failing` (when an error in one route discards all).
`OncePerPlace` compares cardinalities, through the injection of routes into places.

The proof of `WatchedIsTold` failed at first: its exception for bad patterns left out the namespaces that
the recommendations bring into the table, which are patterns as well. `BadPattern` includes them now, and the run
has such a configuration.

### ChatBot_proofs

For all five bots, every number of workers, retries, connections and channels, every script of messages and
every size of the message channel: `TypeCorrect`, `GivesUpAfterMaxRetriesHolds`, `NoMoreThanReceivedHolds`,
`LastMessageHandledHolds`, `PostedOnlyIfEnabledHolds`, `NilMeansPostedHolds`.

    IInv == TypeOK /\ RetryInv /\ (\A p \in Pipes : MessageInv(p)) /\ (\A e \in Events : SendInv(e)) /\ CountInv

`RetryInv` ties the counter of `withRetries` to the failures in a row, which differ by the one not counted yet.
`MessageInv(p)` follows the newest message of a channel: it is at the end of the channel, or it is in the
loop variable, and then the processor is about to hand it over, a worker has read it or will, or it was handled.
`SendInv(e)` says that what a call has still to do, has queued and has posted is for channels
enabled during the call, and that a channel left out was off at some moment, or the call fails.
`CountInv` is the reason why the shared loop variable cannot multiply executions: callbacks, messages in channels, messages
the processor holds, functions given to workers and calls made are together at most the messages received; a step moves one unit from one of these
sets to another, whichever message it is about.

### Delivery_proofs

For every number of streams, notifiers, actions and requests, whatever they emit and are bound to, and every
limit of details: `DispatchedIsAccountedHolds`, `HeartbeatAccountsHolds`, `AnswerTellsAllHolds`.
`DeliveryAssumption` says that events and requests are told apart (a stream emits each of its events once, no
event is a request) and that bots are not sinks: events and requests are identities here, and what two of
them contain may be equal.

    IInv == Ended \/ (LeftInv /\ SendInv /\ BatchInv /\ HeartbeatInv /\ ReportInv /\ RequestType /\ AnswerInv)

`SendInv` says that a send is under way or counted, never both, and that once an event was taken there is one for each notifier of
its stream. `BatchInv`, `HeartbeatInv` and `ReportInv` describe the batch and the copy the heartbeat made of it; the
copy shares the map with the batch until it is marshalled, so a report that is in the batch and not in the heartbeat came late. The window
reaches back to the hour of the oldest report also after
failed heartbeats; while none is being sent it already covers the hour to come.
`Ended` is the state after the runtime fault, which the process does not survive.

### Not proved

* The liveness properties, which need fairness and ENABLED and stay with TLC: `DeadClientWithdrawn`,
  `RestartedIsStreamed`, `NewEventDelivered`, `RunsLatestConfig`, `RunsWatchedConfig`, `KnownLossIsRetried`, `SendMessageReturns`,
  `SlowNotifierIsolated`. `PluginLifecycle` promises safety only.
* The properties of the runs marked **no** and of the table of further disagreements, which are false.

The theorems named `TypeCorrect` are also about modules whose runs list no type invariant; there the type
invariant is a part of the inductive invariant and held in the instance of the run.

## 5. Plan

Models still to be written:

1. An abstract specification of `RemoteConfig` and `InClusterConfig`: a register with conditional write.
2. The choice of a version in the plugin index and the collection of enabled plugins: pure functions.
3. The status reporter, whose version is shared with the reloader.
4. Parsing of commands and choice of the executor; the message tracker of the interactive bots; the upgrade checker.

Not modelled, and not planned: message rendering and formatting (no state), the
requests of sinks and of the GraphQL client (pure I/O), downloads and unpacking of plugins (file I/O),
the kubectl executor, cm-watcher and echo (one subprocess or watch each), configuration
loading (merging of YAML by a library), the command line interface (a separate sequential program), and generated code.
Most of the lines of the repository are of these kinds.

## 6. Running

    tlc -config PluginManager.cfg MCPluginManager
    tlc -config SourceScheduler.cfg MCSourceScheduler
    tlc -config KubernetesSource.cfg MCKubernetesSource
    tlc -config RemoteConfig.cfg MCRemoteConfig
    tlc -config InClusterConfig.cfg MCInClusterConfig
    tlc -config EventRouting.cfg MCEventRouting
    tlc -config ChatBot.cfg MCChatBot
    tlc -config Delivery.cfg MCDelivery
    tlapm PluginManager_proofs.tla
    tlapm SourceScheduler_proofs.tla
    tlapm KubernetesSource_proofs.tla
    tlapm RemoteConfig_proofs.tla
    tlapm InClusterConfig_proofs.tla
    tlapm EventRouting_proofs.tla
    tlapm ChatBot_proofs.tla
    tlapm Delivery_proofs.tla

The operators named `Faulty...` stand next to the definition they vary; replacing
the definition by one of them makes the property listed with it in `PROJECT.json` fail.
