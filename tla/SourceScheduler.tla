--------------------------- MODULE SourceScheduler -------------------------
(***************************************************************************)
(* The source scheduler (internal/source: Scheduler, Dispatcher) on top of *)
(* the plugin manager: it opens one event stream per source configuration  *)
(* and opens them again when the health monitor reports that the plugin    *)
(* was restarted.                                                          *)
(*                                                                         *)
(* Two goroutines run Scheduler.schedule, without a lock between them: the *)
(* main goroutine inside Scheduler.Start and the one NewScheduler starts   *)
(* (monitorHealth).  The latter is there before the configurations are     *)
(* generated, and a source may have failed since the manager was started.  *)
(***************************************************************************)
EXTENDS PluginManager, Integers

CONSTANTS
    Configs,       \* keys of dispatchConfig, "source_interactive/bool", as numbers in their sort order
    Bound,         \* the enabled plugins of the source of a configuration
    EndingConfigs, \* configurations whose stream the plugin may end by itself
    FaultPhases    \* environment: the phases of the boot in which a process may fail

Routines == {"start", "health"}
BootPhases == {"bots", "generate", "schedule", "ready", "failed"}
Sources == {p \in Plugins : KindOf[p] = "source"}
Bindings == {b \in Sources \X Configs : b[1] \in Bound[b[2]]}

ASSUME SchedulerAssumption ==
    /\ Configs \subseteq Nat /\ IsFiniteSet(Configs)
    /\ Bound \in [Configs -> (SUBSET Sources) \ {{}}]
    /\ EndingConfigs \subseteq Configs
    /\ FaultPhases \subseteq BootPhases

VARIABLES
    boot,            \* where the main goroutine is while main = "running"
    calmBoot,        \* history: no plugin has failed before Scheduler.Start returned
    toGenerate,      \* bindings generateConfigs has still to handle
    dispatchConfig,  \* the plugin of a configuration key, NoPlugin if the key is absent
    opened,          \* openedStreams: the bindings recorded as streamed
    streams,         \* number of dispatch loops that read a stream of a process
    pc,              \* where a goroutine is in schedule
    todo,            \* the keys it has not handled yet
    filter,          \* its plugin filter, NoPlugin for none
    current,         \* the binding it dispatches
    got              \* the client GetSource returned to it

bootVars  == <<boot, calmBoot, toGenerate, dispatchConfig>>
routineVars == <<pc, todo, filter, current, got>>
schedulerVars == <<bootVars, opened, streams, routineVars>>
allVars == <<vars, schedulerVars>>

NoBinding == <<NoPlugin, 0>>
Processes == 1..Threshold + 1

SchedulerTypeOK ==
    /\ TypeOK
    /\ boot \in BootPhases
    /\ calmBoot \in BOOLEAN
    /\ toGenerate \subseteq Bindings
    /\ dispatchConfig \in [Configs -> Sources \cup {NoPlugin}]
    /\ \A c \in Configs : dispatchConfig[c] \in Bound[c] \cup {NoPlugin}
    /\ opened \subseteq Bindings
    /\ streams \in [Bindings -> [Processes -> Nat]]
    /\ pc \in [Routines -> {"off", "idle", "check", "get", "open", "report", "exited"}]
    /\ todo \in [Routines -> SUBSET Configs]
    /\ filter \in [Routines -> Sources \cup {NoPlugin}]
    /\ current \in [Routines -> Bindings \cup {NoBinding}]
    /\ got \in [Routines -> {0} \cup Processes]

SchedulerInit ==
    /\ Init
    /\ boot = "bots"
    /\ calmBoot = TRUE
    /\ toGenerate = Bindings
    /\ dispatchConfig = [c \in Configs |-> NoPlugin]
    /\ opened = {}
    /\ streams = [b \in Bindings |-> [n \in Processes |-> 0]]
    /\ pc = [r \in Routines |-> "off"]
    /\ todo = [r \in Routines |-> {}]
    /\ filter = [r \in Routines |-> NoPlugin]
    /\ current = [r \in Routines |-> NoBinding]
    /\ got = [r \in Routines |-> 0]

Running == main = "running"
Alive == main # "exited"

-----------------------------------------------------------------------------
(* Boot: NewScheduler and Scheduler.Start                                  *)

NewScheduler ==
    /\ Running /\ boot = "bots"
    /\ boot' = "generate"
    /\ pc' = [pc EXCEPT !["health"] = "idle"]
    /\ UNCHANGED <<vars, calmBoot, toGenerate, dispatchConfig, opened, streams, todo, filter, current, got>>

\* generatePluginConfig for one enabled plugin of a bound source: the entry
\* of the key is replaced, also when it is that of another plugin.
GeneratePluginConfig(p, c) ==
    /\ Running /\ boot = "generate"
    /\ <<p, c>> \in toGenerate
    /\ toGenerate' = toGenerate \ {<<p, c>>}
    /\ dispatchConfig' = [dispatchConfig EXCEPT ![c] = p]
    /\ UNCHANGED <<vars, boot, calmBoot, opened, streams, routineVars>>

\* SortKeys(dispatchConfig), then the loop over the keys.
BeginPass(r, p) ==
    /\ pc' = [pc EXCEPT ![r] = "check"]
    /\ todo' = [todo EXCEPT ![r] = {c \in Configs : dispatchConfig[c] # NoPlugin}]
    /\ filter' = [filter EXCEPT ![r] = p]

\* schedule(emptyPluginFilter)
ScheduleAll ==
    /\ Running /\ boot = "generate"
    /\ toGenerate = {}
    /\ boot' = "schedule"
    /\ BeginPass("start", NoPlugin)
    /\ UNCHANGED <<vars, calmBoot, toGenerate, dispatchConfig, opened, streams, current, got>>

\* dispatchConfig has no lock: writing it while monitorHealth iterates over
\* it may end the agent ("concurrent map iteration and map write").
ConcurrentMapFault ==
    /\ Running /\ boot = "generate"
    /\ toGenerate # {}
    /\ pc["health"] = "check"
    /\ main' = "exited"
    /\ UNCHANGED <<policy, forced, isStarted, ctx, closing, procVars, client, watcher, informing,
                   monVars, schedulerVars>>

-----------------------------------------------------------------------------
(* monitorHealth                                                           *)

FaultyDeleteNoStreams(p) == opened

DeleteAllStartedStreams(p) == {b \in opened : b[1] # p}

\* Rendezvous with the source health monitor, then schedule(pluginName).
ReceiveRestarted ==
    LET p == monPlugin["source"]
    IN  /\ NotifyScheduler
        /\ pc["health"] = "idle"
        /\ opened' = DeleteAllStartedStreams(p)
        /\ BeginPass("health", p)
        /\ UNCHANGED <<bootVars, streams, current, got>>

HealthExits ==
    /\ Alive /\ ctx = "cancelled"
    /\ pc["health"] = "idle"
    /\ pc' = [pc EXCEPT !["health"] = "exited"]
    /\ UNCHANGED <<vars, bootVars, opened, streams, todo, filter, current, got>>

-----------------------------------------------------------------------------
(* schedule and Dispatch, for either goroutine                             *)

At(r, at) == Alive /\ pc[r] = at

\* The keys are handled in alphabetical order.
NextKey(r, c) == c \in todo[r] /\ \A d \in todo[r] : c <= d

Passes(r, p) == filter[r] \in {NoPlugin, p}

\* The configuration is skipped: filtered out, or streamed already.
Skip(r) ==
    /\ At(r, "check")
    /\ \E c \in todo[r] :
         /\ NextKey(r, c)
         /\ ~Passes(r, dispatchConfig[c]) \/ <<dispatchConfig[c], c>> \in opened
         /\ todo' = [todo EXCEPT ![r] = @ \ {c}]
    /\ UNCHANGED <<vars, bootVars, opened, streams, pc, filter, current, got>>

Select(r) ==
    /\ At(r, "check")
    /\ \E c \in todo[r] :
         /\ NextKey(r, c)
         /\ Passes(r, dispatchConfig[c])
         /\ <<dispatchConfig[c], c>> \notin opened
         /\ current' = [current EXCEPT ![r] = <<dispatchConfig[c], c>>]
         /\ todo' = [todo EXCEPT ![r] = @ \ {c}]
    /\ pc' = [pc EXCEPT ![r] = "get"]
    /\ UNCHANGED <<vars, bootVars, opened, streams, filter, got>>

\* An error ends the pass: the remaining keys are not handled.  Start returns
\* it to main, monitorHealth logs it.
FailPass(r) ==
    /\ pc' = [pc EXCEPT ![r] = IF r = "health" THEN "idle" ELSE "off"]
    /\ todo' = [todo EXCEPT ![r] = {}]
    /\ boot' = IF r = "start" THEN "failed" ELSE boot
    /\ UNCHANGED <<vars, calmBoot, toGenerate, dispatchConfig, opened, streams, filter, current, got>>

\* Manager.GetSource
GetSource(r) ==
    LET p == current[r][1]
    IN  /\ At(r, "get")
        /\ isStarted /\ client[p] # 0
        /\ got' = [got EXCEPT ![r] = client[p]]
        /\ pc' = [pc EXCEPT ![r] = "open"]
        /\ UNCHANGED <<vars, bootVars, opened, streams, todo, filter, current>>

(* GenerateKubeConfig, called next (dispatcher.go:104), only marshals a     *)
(* structure of strings and cannot fail.                                    *)
GetSourceFails(r) ==
    /\ At(r, "get")
    /\ ~isStarted \/ client[current[r][1]] = 0
    /\ FailPass(r)

\* Stream succeeds on a process that is up; the dispatch loop starts.
OpenStream(r) ==
    /\ At(r, "open")
    /\ got[r] \in live[current[r][1]]
    /\ streams' = [streams EXCEPT ![current[r]][got[r]] = @ + 1]
    /\ pc' = [pc EXCEPT ![r] = "report"]
    /\ UNCHANGED <<vars, bootVars, opened, todo, filter, current, got>>

OpenStreamFails(r) ==
    /\ At(r, "open")
    /\ got[r] \notin live[current[r][1]]
    /\ FailPass(r)

ReportStarted(r) ==
    /\ At(r, "report")
    /\ opened' = opened \cup {current[r]}
    /\ pc' = [pc EXCEPT ![r] = "check"]
    /\ UNCHANGED <<vars, bootVars, streams, todo, filter, current, got>>

EndPass(r) ==
    /\ At(r, "check")
    /\ todo[r] = {}
    /\ pc' = [pc EXCEPT ![r] = IF r = "health" THEN "idle" ELSE "off"]
    /\ boot' = IF r = "start" THEN "ready" ELSE boot
    /\ UNCHANGED <<vars, calmBoot, toGenerate, dispatchConfig, opened, streams, todo, filter, current, got>>

\* The plugin ends the stream, or the dispatch loop sees the context cancelled.
EndStream(b, n) ==
    /\ Alive
    /\ streams[b][n] > 0
    /\ b[2] \in EndingConfigs \/ ctx = "cancelled"
    /\ streams' = [streams EXCEPT ![b][n] = @ - 1]
    /\ UNCHANGED <<vars, bootVars, opened, routineVars>>

-----------------------------------------------------------------------------
(* The manager's steps in this composition                                 *)

\* A process that is up fails only in the phases of the environment; that a
\* process is gone is noticed at any time.
ProcessFails(p, n) ==
    /\ \/ boot \in FaultPhases /\ (Crash(p, n) \/ PingFails(p, n))
       \/ n \notin live[p] /\ PingFails(p, n)
    /\ calmBoot' = (calmBoot /\ boot = "ready")
    /\ UNCHANGED <<boot, toGenerate, dispatchConfig, opened, streams, routineVars>>

\* main is inside Scheduler.Start until that returns; it leaves after a
\* signal or an error of another part.
ManagerShutdown ==
    \/ Signal \/ (\E p \in Plugins : Kill(p)) \/ ShutdownReturns \/ Exit
    \/ boot \in {"bots", "ready", "failed"} /\ BeginShutdown

ManagerStep ==
    /\ \/ StartNext \/ MonitorNext \/ ManagerShutdown
       \/ \E p \in Plugins : \E n \in 1..inc[p] : WatcherExits(p, n)
    /\ UNCHANGED schedulerVars

ScheduleStep(r) ==
    Skip(r) \/ Select(r) \/ GetSource(r) \/ GetSourceFails(r) \/ OpenStream(r)
      \/ OpenStreamFails(r) \/ ReportStarted(r) \/ EndPass(r)

Boot == NewScheduler \/ (\E b \in Bindings : GeneratePluginConfig(b[1], b[2])) \/ ScheduleAll

SchedulerNext ==
    \/ ManagerStep
    \/ \E p \in Plugins : \E n \in 1..inc[p] : ProcessFails(p, n)
    \/ Boot
    \/ ConcurrentMapFault
    \/ ReceiveRestarted
    \/ HealthExits
    \/ \E r \in Routines : ScheduleStep(r)
    \/ \E b \in Bindings, n \in Processes : EndStream(b, n)

SchedulerSafetySpec == SchedulerInit /\ [][SchedulerNext]_allVars

\* As in PluginManager, and both goroutines of the scheduler finish their passes.
SchedulerSpec ==
    /\ SchedulerSafetySpec
    /\ \A p \in Plugins : WF_allVars(\E n \in 1..inc[p] : n \notin live[p] /\ ProcessFails(p, n))
    /\ \A p \in Plugins : SF_allVars(Receive(KindOf[p], p) /\ UNCHANGED schedulerVars)
    /\ \A k \in Kinds : WF_allVars(MonitorStep(k) /\ UNCHANGED schedulerVars)
    /\ WF_allVars(ReceiveRestarted)
    /\ \A r \in Routines : WF_allVars(ScheduleStep(r))

-----------------------------------------------------------------------------
(* Properties                                                              *)

\* Nothing is on its way: no failure unnoticed, no restart, no pass.
Quiescent ==
    /\ Running /\ boot = "ready" /\ ctx = "active"
    /\ pc["health"] = "idle"
    /\ monPc["source"] = "idle"
    /\ \A p \in Sources : informing[p] = {} /\ client[p] \in live[p] \cup {0}

\* When nothing is on its way, every configuration whose plugin has a client
\* is streamed from the present process of the plugin and recorded so: no
\* source has fallen silent after restarts, however they overlapped, provided
\* no plugin failed during the boot.
NoSilentSource ==
    Quiescent /\ calmBoot => \A c \in Configs \ EndingConfigs :
        LET p == dispatchConfig[c]
        IN  client[p] # 0 => <<p, c>> \in opened /\ streams[<<p, c>>][client[p]] >= 1

\* How often a process may serve the same configuration: once for the pass
\* that belongs to it, once for the pass of its predecessor that was still
\* running when it came up, and once for Scheduler.Start if the plugin was
\* restarted before that returned.  The monitor waits for the scheduler
\* before it handles the next failure, so that no more passes can meet it.
BoundedStreams ==
    \A b \in Bindings, n \in Processes :
        streams[b][n] <= IF calmBoot THEN 2 ELSE 3

\* The first restart of a plugin after the boot never duplicates a stream: a
\* duplicate takes two restarts.
DuplicateTakesTwoRestarts ==
    calmBoot => \A b \in Bindings, n \in Processes : streams[b][n] > 1 => n > 2

\* A restarted source is streamed again (scheduler.go: monitorHealth), unless
\* it fails again, a plugin failed during the boot or the agent stops.
RestartedIsStreamed ==
    \A b \in Bindings :
        (/\ monPc["source"] = "notify" /\ monPlugin["source"] = b[1]
         /\ dispatchConfig[b[2]] = b[1] /\ Running /\ ctx = "active" /\ calmBoot)
            ~> \/ client[b[1]] \notin live[b[1]]
               \/ streams[b][client[b[1]]] >= 1
               \/ ~Running \/ ctx = "cancelled"

\* scheduler_test.go:47: "only unique process are started".
UniqueStreams == \A b \in Bindings, n \in Processes : streams[b][n] <= 1

\* scheduler.go:113: "Start starts all sources and dispatch received events."
AllBoundSourcesOpened == boot = "ready" => opened = Bindings
=============================================================================
