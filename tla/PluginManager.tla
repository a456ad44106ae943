--------------------------- MODULE PluginManager ---------------------------
(***************************************************************************)
(* The plugin manager of the agent (pkg/plugin): it starts one OS process  *)
(* per enabled plugin, keeps a client of it in a store, watches its health *)
(* and restarts it within a budget.                                        *)
(*                                                                         *)
(* Concurrent parts: the main goroutine (Manager.Start, Manager.Shutdown), *)
(* one health watcher per process, one health monitor per kind of plugin   *)
(* (source, executor).  A watcher hands a failed plugin to the monitor of  *)
(* its kind, and the source monitor hands a restarted source to the        *)
(* scheduler, over unbuffered channels: a send and its receive are one     *)
(* step, and until then the sender is blocked.                             *)
(*                                                                         *)
(* A process, its client and its watcher carry the number of the process   *)
(* among those created for the plugin (1, 2, ...).  The messages of the    *)
(* code carry the plugin only, never that number.                          *)
(***************************************************************************)
EXTENDS Naturals, FiniteSets, FiniteSetsExt

CONSTANTS
    Plugins,    \* the enabled plugins: a kind and a key
    Keys,       \* plugin keys, "repository/name@version"
    KeyOf,      \* the key of a plugin; a source and an executor may share one
    KindOf,     \* the kind of a plugin
    Threshold,  \* plugins.restartPolicy.threshold
    Policies,   \* the values plugins.restartPolicy.type may have
    NoPlugin    \* no plugin

Kinds == {"source", "executor"}

\* With no plugin enabled Manager.Start returns at once: nothing to model.
ASSUME PluginsAssumption ==
    /\ Plugins # {} /\ NoPlugin \notin Plugins
    /\ KeyOf \in [Plugins -> Keys]
    /\ KindOf \in [Plugins -> Kinds]
    /\ \A p, q \in Plugins : KeyOf[p] = KeyOf[q] /\ KindOf[p] = KindOf[q] => p = q

ASSUME PolicyAssumption ==
    /\ Threshold \in Nat
    /\ Policies \subseteq {"DeactivatePlugin", "RestartAgent", "unknown"}

VARIABLES
    policy,     \* HealthMonitor.policy.Type, fixed when the agent is configured
    main,       \* where the main goroutine is
    forced,     \* the forceUpdate argument of the current Manager.start
    isStarted,  \* Manager.isStarted
    ctx,        \* the context of the agent
    inc,        \* number of processes created so far for a plugin
    live,       \* its processes that are up
    client,     \* the process its store entry (EnabledPlugins) talks to, 0 if none
    watcher,    \* the processes its polling health watchers ping
    informing,  \* the processes whose watcher is blocked sending to the monitor
    monPc,      \* where the health monitor of a kind is
    monPlugin,  \* the plugin it handles
    monCount,   \* the restart count it read
    restarts,   \* HealthStats: restartCount of a key
    closing     \* Shutdown: the processes still to be killed

mainVars == <<policy, main, forced, isStarted, ctx, closing>>
procVars == <<inc, live>>
monVars  == <<monPc, monPlugin, monCount, restarts>>
vars == <<mainVars, procVars, client, watcher, informing, monVars>>

MainPcs == {"executors", "sources", "supervise", "running", "closing", "closed", "exited"}
MonitorPcs == {"off", "idle", "release", "delete", "count", "increment",
               "create", "insert", "notify", "exited"}

TypeOK ==
    /\ policy \in Policies
    /\ main \in MainPcs
    /\ forced \in BOOLEAN
    /\ isStarted \in BOOLEAN
    /\ ctx \in {"active", "cancelled"}
    /\ inc \in [Plugins -> Nat]
    /\ live \in [Plugins -> SUBSET Nat]
    /\ client \in [Plugins -> Nat]
    /\ watcher \in [Plugins -> SUBSET Nat]
    /\ informing \in [Plugins -> SUBSET Nat]
    /\ monPc \in [Kinds -> MonitorPcs]
    /\ monPlugin \in [Kinds -> Plugins \cup {NoPlugin}]
    /\ \A k \in Kinds : monPlugin[k] # NoPlugin => KindOf[monPlugin[k]] = k
    /\ \A k \in Kinds : monPc[k] \notin {"off", "idle", "exited"} => monPlugin[k] # NoPlugin
    /\ monCount \in [Kinds -> Nat]
    /\ restarts \in [Keys -> Nat]
    /\ closing \in [Plugins -> Nat]

Init ==
    /\ policy \in Policies
    /\ main = "executors"
    /\ forced = FALSE
    /\ isStarted = FALSE
    /\ ctx = "active"
    /\ inc = [p \in Plugins |-> 0]
    /\ live = [p \in Plugins |-> {}]
    /\ client = [p \in Plugins |-> 0]
    /\ watcher = [p \in Plugins |-> {}]
    /\ informing = [p \in Plugins |-> {}]
    /\ monPc = [k \in Kinds |-> "off"]
    /\ monPlugin = [k \in Kinds |-> NoPlugin]
    /\ monCount = [k \in Kinds |-> 0]
    /\ restarts = [k \in Keys |-> 0]
    /\ closing = [p \in Plugins |-> 0]

-----------------------------------------------------------------------------
(* Manager.Start                                                           *)

\* createGRPCClients: a new process and a new watcher for each plugin of the
\* kind; the map of clients it returns replaces the store.
CreateClients(kind) ==
    LET new == [p \in Plugins |-> IF KindOf[p] = kind THEN inc[p] + 1 ELSE inc[p]]
        added(p) == IF KindOf[p] = kind THEN {new[p]} ELSE {}
    IN  /\ inc' = new
        /\ live' = [p \in Plugins |-> live[p] \cup added(p)]
        /\ watcher' = [p \in Plugins |-> watcher[p] \cup added(p)]
        /\ client' = [p \in Plugins |-> IF KindOf[p] = kind THEN new[p] ELSE client[p]]

StartExecutors ==
    /\ main = "executors"
    /\ CreateClients("executor")
    /\ main' = "sources"
    /\ UNCHANGED <<policy, forced, isStarted, ctx, closing, informing, monVars>>

\* After the forced retry Start returns the result of start directly.
StartSources ==
    /\ main = "sources"
    /\ CreateClients("source")
    /\ main' = IF forced THEN "running" ELSE "supervise"
    /\ UNCHANGED <<policy, forced, isStarted, ctx, closing, informing, monVars>>

\* A plugin is not in the cached repository index: start once more with a
\* forced update of the index.
RetryForced ==
    /\ main \in {"executors", "sources"}
    /\ ~forced
    /\ forced' = TRUE
    /\ main' = "executors"
    /\ UNCHANGED <<policy, isStarted, ctx, closing, procVars, client, watcher, informing, monVars>>

\* Any other error, or a second not-found one: main returns it, and the
\* deferred Shutdown is not registered yet.
StartFails ==
    /\ main \in {"executors", "sources"}
    /\ main' = "exited"
    /\ ctx' = "cancelled"
    /\ UNCHANGED <<policy, forced, isStarted, closing, procVars, client, watcher, informing, monVars>>

\* monitor.Start and isStarted.Store(true)
Supervise ==
    /\ main = "supervise"
    /\ monPc' = [k \in Kinds |-> "idle"]
    /\ isStarted' = TRUE
    /\ main' = "running"
    /\ UNCHANGED <<policy, forced, ctx, closing, procVars, client, watcher, informing,
                   monPlugin, monCount, restarts>>

-----------------------------------------------------------------------------
(* Processes and health watchers                                           *)

Crash(p, n) ==
    /\ main # "exited"
    /\ n \in live[p]
    /\ live' = [live EXCEPT ![p] = @ \ {n}]
    /\ UNCHANGED <<mainVars, inc, client, watcher, informing, monVars>>

\* Faulty variants (the operators named Faulty...) are plausible mistakes in
\* the code next to them: each makes a property of this module fail.

FaultyPingKeepsPolling(p, n) ==
    /\ main # "exited"
    /\ n \in watcher[p]
    /\ informing' = [informing EXCEPT ![p] = @ \cup {n}]
    /\ UNCHANGED <<mainVars, procVars, client, watcher, monVars>>

FaultyPingNotReported(p, n) ==
    /\ main # "exited"
    /\ n \in watcher[p]
    /\ watcher' = [watcher EXCEPT ![p] = @ \ {n}]
    /\ UNCHANGED <<mainVars, procVars, client, informing, monVars>>

\* Ping fails: the process is gone, or it is up and does not answer.
PingFails(p, n) ==
    /\ main # "exited"
    /\ n \in watcher[p]
    /\ watcher' = [watcher EXCEPT ![p] = @ \ {n}]
    /\ informing' = [informing EXCEPT ![p] = @ \cup {n}]
    /\ UNCHANGED <<mainVars, procVars, client, monVars>>

\* The watcher looks at the context while it polls, not while it sends.
WatcherExits(p, n) ==
    /\ main # "exited"
    /\ ctx = "cancelled"
    /\ n \in watcher[p]
    /\ watcher' = [watcher EXCEPT ![p] = @ \ {n}]
    /\ UNCHANGED <<mainVars, procVars, client, informing, monVars>>

-----------------------------------------------------------------------------
(* Health monitors: monitorSourcePluginHealth, monitorExecutorPluginHealth *)

MonitorAt(k, pc) == main # "exited" /\ monPc[k] = pc

Goto(k, pc) == monPc' = [monPc EXCEPT ![k] = pc]

FaultyReceiveAnyKind(k, p) ==
    /\ MonitorAt(k, "idle")
    /\ \E n \in informing[p] : informing' = [informing EXCEPT ![p] = @ \ {n}]
    /\ monPlugin' = [monPlugin EXCEPT ![k] = p]
    /\ Goto(k, "release")
    /\ UNCHANGED <<mainVars, procVars, client, watcher, monCount, restarts>>

\* Rendezvous with a watcher.
Receive(k, p) ==
    /\ MonitorAt(k, "idle")
    /\ KindOf[p] = k
    /\ \E n \in informing[p] : informing' = [informing EXCEPT ![p] = @ \ {n}]
    /\ monPlugin' = [monPlugin EXCEPT ![k] = p]
    /\ Goto(k, "release")
    /\ UNCHANGED <<mainVars, procVars, client, watcher, monCount, restarts>>

FaultyReleaseNothing(k) ==
    /\ MonitorAt(k, "release")
    /\ Goto(k, "delete")
    /\ UNCHANGED <<mainVars, procVars, client, watcher, informing, monPlugin, monCount, restarts>>

\* Cleanup kills the process of the client in the store, whichever it is.
Release(k) ==
    LET p == monPlugin[k]
    IN  /\ MonitorAt(k, "release")
        /\ live' = [live EXCEPT ![p] = @ \ {client[p]}]
        /\ Goto(k, "delete")
        /\ UNCHANGED <<mainVars, inc, client, watcher, informing, monPlugin, monCount, restarts>>

FaultyDeleteNothing(k) ==
    /\ MonitorAt(k, "delete")
    /\ Goto(k, "count")
    /\ UNCHANGED <<mainVars, procVars, client, watcher, informing, monPlugin, monCount, restarts>>

Delete(k) ==
    /\ MonitorAt(k, "delete")
    /\ client' = [client EXCEPT ![monPlugin[k]] = 0]
    /\ Goto(k, "count")
    /\ UNCHANGED <<mainVars, procVars, watcher, informing, monPlugin, monCount, restarts>>

\* shouldRestartPlugin: GetRestartCount, then Increment, each under the lock
\* of the statistics but not both together.
GetRestartCount(k) ==
    /\ MonitorAt(k, "count")
    /\ monCount' = [monCount EXCEPT ![k] = restarts[KeyOf[monPlugin[k]]]]
    /\ Goto(k, "increment")
    /\ UNCHANGED <<mainVars, procVars, client, watcher, informing, monPlugin, restarts>>

FaultyMayRestart(k) ==
    \/ policy = "DeactivatePlugin" /\ monCount[k] <= Threshold
    \/ policy = "RestartAgent"

MayRestart(k) ==
    \/ policy = "DeactivatePlugin" /\ monCount[k] < Threshold
    \/ policy = "RestartAgent"

FaultyMustExit(k) == policy = "RestartAgent" /\ monCount[k] > Threshold

MustExit(k) == policy = "RestartAgent" /\ monCount[k] >= Threshold

Increment(k) ==
    /\ MonitorAt(k, "increment")
    /\ restarts' = [restarts EXCEPT ![KeyOf[monPlugin[k]]] = @ + 1]
    /\ Goto(k, IF MayRestart(k) THEN "create" ELSE "idle")
    /\ main' = IF MustExit(k) THEN "exited" ELSE main
    /\ UNCHANGED <<policy, forced, isStarted, ctx, closing, procVars, client, watcher, informing,
                   monPlugin, monCount>>

FaultyCreateUnwatched(k) ==
    LET p == monPlugin[k]
        n == inc[p] + 1
    IN  /\ MonitorAt(k, "create")
        /\ inc' = [inc EXCEPT ![p] = n]
        /\ live' = [live EXCEPT ![p] = @ \cup {n}]
        /\ Goto(k, "insert")
        /\ UNCHANGED <<mainVars, client, watcher, informing, monPlugin, monCount, restarts>>

\* createGRPCClient: a new process with its own watcher.
CreateClient(k) ==
    LET p == monPlugin[k]
        n == inc[p] + 1
    IN  /\ MonitorAt(k, "create")
        /\ inc' = [inc EXCEPT ![p] = n]
        /\ live' = [live EXCEPT ![p] = @ \cup {n}]
        /\ watcher' = [watcher EXCEPT ![p] = @ \cup {n}]
        /\ Goto(k, "insert")
        /\ UNCHANGED <<mainVars, client, informing, monPlugin, monCount, restarts>>

\* The error is logged and the monitor goes on with the next message.
CreateClientFails(k) ==
    /\ MonitorAt(k, "create")
    /\ Goto(k, "idle")
    /\ UNCHANGED <<mainVars, procVars, client, watcher, informing, monPlugin, monCount, restarts>>

\* The last process created for the plugin is the one just created here.
Insert(k) ==
    LET p == monPlugin[k]
    IN  /\ MonitorAt(k, "insert")
        /\ client' = [client EXCEPT ![p] = inc[p]]
        /\ Goto(k, IF k = "source" THEN "notify" ELSE "idle")
        /\ UNCHANGED <<mainVars, procVars, watcher, informing, monPlugin, monCount, restarts>>

FaultyNotifyAgain ==
    /\ MonitorAt("source", "notify")
    /\ UNCHANGED vars

\* Rendezvous with the scheduler.
NotifyScheduler ==
    /\ MonitorAt("source", "notify")
    /\ Goto("source", "idle")
    /\ UNCHANGED <<mainVars, procVars, client, watcher, informing, monPlugin, monCount, restarts>>

MonitorExits(k) ==
    /\ MonitorAt(k, "idle")
    /\ ctx = "cancelled"
    /\ Goto(k, "exited")
    /\ UNCHANGED <<mainVars, procVars, client, watcher, informing, monPlugin, monCount, restarts>>

-----------------------------------------------------------------------------
(* Shutdown                                                                *)

\* SIGTERM
Signal ==
    /\ main # "exited"
    /\ ctx = "active"
    /\ ctx' = "cancelled"
    /\ UNCHANGED <<policy, main, forced, isStarted, closing, procVars, client, watcher, informing, monVars>>

\* main returns: errGroup.Wait after a signal, or an error while the context
\* is still active.  releasePlugins takes the clients that are in the stores.
BeginShutdown ==
    /\ main = "running"
    /\ main' = "closing"
    /\ closing' = client
    /\ UNCHANGED <<policy, forced, isStarted, ctx, procVars, client, watcher, informing, monVars>>

Kill(p) ==
    /\ main = "closing"
    /\ closing[p] # 0
    /\ live' = [live EXCEPT ![p] = @ \ {closing[p]}]
    /\ closing' = [closing EXCEPT ![p] = 0]
    /\ UNCHANGED <<policy, main, forced, isStarted, ctx, inc, client, watcher, informing, monVars>>

\* Shutdown returns; the next deferred call cancels the context.
ShutdownReturns ==
    /\ main = "closing"
    /\ \A p \in Plugins : closing[p] = 0
    /\ main' = "closed"
    /\ ctx' = "cancelled"
    /\ UNCHANGED <<policy, forced, isStarted, closing, procVars, client, watcher, informing, monVars>>

Exit ==
    /\ main = "closed"
    /\ main' = "exited"
    /\ UNCHANGED <<policy, forced, isStarted, ctx, closing, procVars, client, watcher, informing, monVars>>

-----------------------------------------------------------------------------

StartNext == StartExecutors \/ StartSources \/ RetryForced \/ StartFails \/ Supervise

ProcessNext ==
    \E p \in Plugins : \E n \in 1..inc[p] : Crash(p, n) \/ PingFails(p, n) \/ WatcherExits(p, n)

MonitorStep(k) ==
    Release(k) \/ Delete(k) \/ GetRestartCount(k) \/ Increment(k)
      \/ CreateClient(k) \/ CreateClientFails(k) \/ Insert(k)

MonitorNext ==
    \E k \in Kinds : \/ \E p \in Plugins : Receive(k, p)
                     \/ MonitorStep(k)
                     \/ MonitorExits(k)

ShutdownNext ==
    Signal \/ BeginShutdown \/ (\E p \in Plugins : Kill(p)) \/ ShutdownReturns \/ Exit

Next == StartNext \/ ProcessNext \/ MonitorNext \/ NotifyScheduler \/ ShutdownNext

\* A ticking watcher finds out that its process is gone; a monitor finishes
\* what it started; blocked senders of a Go channel are served in order, so a
\* watcher that waits is received from when the monitor is idle again and
\* again; the scheduler keeps receiving.  Nothing makes a process fail, a
\* call fail or a signal arrive.
Fairness ==
    /\ \A p \in Plugins : WF_vars(\E n \in 1..inc[p] : n \notin live[p] /\ PingFails(p, n))
    /\ \A p \in Plugins : SF_vars(Receive(KindOf[p], p))
    /\ \A k \in Kinds : WF_vars(MonitorStep(k))
    /\ WF_vars(NotifyScheduler)

SafetySpec == Init /\ [][Next]_vars

Spec == SafetySpec /\ Fairness

-----------------------------------------------------------------------------
(* Properties                                                              *)

\* The monitor of p's kind is between taking p over and its last step for p.
HandledAt(p, pcs) == monPlugin[KindOf[p]] = p /\ monPc[KindOf[p]] \in pcs

Shared(key) == \E p, q \in Plugins : p # q /\ KeyOf[p] = key /\ KeyOf[q] = key

WrittenOff(p) ==
    /\ isStarted
    /\ client[p] = 0
    /\ ~HandledAt(p, {"count", "increment", "create", "insert"})

\* Unless the agent started with a forced index update, a plugin never has
\* two processes: the old one is killed before the new one is created
\* (health_monitor.go: Cleanup, Delete, createGRPCClient, in this order).
OneProcess == ~forced => \A p \in Plugins : \A m, n \in live[p] : m = n

\* The message a watcher sends does not say which process failed, yet it is
\* always about the process the store entry talks to: a healthy replacement
\* is never torn down on behalf of its predecessor.
NoStaleReport ==
    isStarted => \A p \in Plugins : \A n \in informing[p] :
        client[p] = n \/ (HandledAt(p, {"insert"}) /\ n = inc[p])

\* Every client that GetSource or GetExecutor hands out is under supervision:
\* its process is polled, or its failure is on the way to the monitor, or the
\* monitor is about to withdraw it.
ClientsSupervised ==
    isStarted /\ ctx = "active" =>
        \A p \in Plugins : client[p] # 0 =>
            \/ client[p] \in watcher[p] \cup informing[p]
            \/ HandledAt(p, {"release", "delete"})

\* A plugin is restarted at most Threshold times (values.yaml: "Number of
\* restarts before policy takes into effect").
RestartBudget == ~forced => \A p \in Plugins : inc[p] <= Threshold + 1

\* A source and an executor of the same key draw on one counter; as reading
\* and incrementing it are two steps, both may be granted the last restart.
Overshoot(key) == IF Shared(key) THEN 1 ELSE 0

\* Under the policy RestartAgent, more failures than the threshold allows end the agent.
AgentExitsAtThreshold ==
    policy = "RestartAgent" =>
        \A key \in Keys : restarts[key] > Threshold + Overshoot(key) => main = "exited"

\* Once the monitor has given a plugin up it does not handle it again and the
\* plugin never has a client again: no watcher is left to report it.
WrittenOffStaysOff == [][\A p \in Plugins : WrittenOff(p) => WrittenOff(p)']_vars

\* The manager implements the lifecycle it promises.
Lifecycle == INSTANCE PluginLifecycle WITH
    open <- isStarted,
    serving <- {p \in Plugins : client[p] # 0},
    generation <- [p \in Plugins |-> IF HandledAt(p, {"insert"}) THEN inc[p] - 1 ELSE inc[p]],
    abandoned <- {p \in Plugins : WrittenOff(p)}

ImplementsLifecycle == Lifecycle!Spec

\* The client of a dead process does not stay in the store while the agent runs.
DeadClientWithdrawn ==
    \A p \in Plugins : \A n \in 1..Threshold + 1 :
        (isStarted /\ main = "running" /\ ctx = "active" /\ client[p] = n /\ n \notin live[p])
            ~> (client[p] # n \/ main # "running" \/ ctx = "cancelled")

\* manager.go:126: "Start downloads and starts all enabled plugins."
StartedIsUsable == main = "running" => isStarted

\* manager.go:212-213: "Shutdown performs any necessary cleanup. This method
\* blocks until all cleanup is finished."
ShutdownLeavesNoProcess == main = "closed" /\ ~forced => \A p \in Plugins : live[p] = {}

\* health_monitor.go:14: "HealthMonitor restarts a failed plugin process";
\* values.yaml: "Number of restarts before policy takes into effect".  A
\* failed plugin is up again unless its restarts are used up.
FailedPluginRestarted ==
    \A p \in Plugins :
        (isStarted /\ main = "running" /\ ctx = "active" /\ client[p] # 0 /\ client[p] \notin live[p])
            ~> \/ client[p] \in live[p]
               \/ restarts[KeyOf[p]] > Threshold
               \/ main # "running" \/ ctx = "cancelled"
=============================================================================
