----------------------- MODULE SourceScheduler_proofs -----------------------
(***************************************************************************)
(* Proofs about SourceScheduler, for all sources and configurations, every *)
(* restart threshold and policy, and failures in any phase of the boot.    *)
(***************************************************************************)
EXTENDS SourceScheduler, PluginManager_proofs

ManagerInv == IInv /\ LoadedInv

Active(r) == pc[r] \in {"check", "get", "open", "report"}

(* How far the main goroutine is, and which goroutine is in a pass.        *)
BootInv ==
    /\ boot # "bots" => main \notin {"executors", "sources", "supervise"}
    /\ boot = "bots" => pc["health"] = "off"
    /\ boot # "schedule" => pc["start"] = "off"
    /\ boot = "schedule" => Active("start")
    /\ boot \notin {"bots", "generate"} => toGenerate = {}
    /\ \A b \in Bindings \ toGenerate : dispatchConfig[b[2]] # NoPlugin
    /\ filter["start"] = NoPlugin
    /\ Active("health") => filter["health"] \in Sources /\ isStarted

(* What a goroutine in a pass has still to do.                             *)
RoutineInv(r) ==
    /\ \A c \in todo[r] : dispatchConfig[c] # NoPlugin
    /\ ~Active(r) => todo[r] = {}
    /\ pc[r] \in {"get", "open", "report"} =>
          /\ current[r] \in Bindings /\ current[r][2] \notin todo[r]
          /\ Passes(r, current[r][1])
          /\ calmBoot => current[r][1] = dispatchConfig[current[r][2]]
    /\ pc[r] \in {"open", "report"} => isStarted /\ got[r] \in Processes

(* The process that was created last is not announced to the scheduler.    *)
Unannounced(p) == HandledAt(p, {"insert", "notify"})

(* A process other than the first is announced; a pass for a plugin        *)
(* follows such an announcement.                                           *)
AnnouncedInv(p) ==
    /\ Unannounced(p) => inc[p] >= 2
    /\ Active("health") /\ filter["health"] = p => inc[p] >= (IF Unannounced(p) THEN 3 ELSE 2)

(* As long as no plugin has failed the monitor has nothing to do.          *)
CalmInv ==
    calmBoot /\ boot # "ready" =>
        /\ monPc["source"] \in {"off", "idle", "exited"}
        /\ \A p \in Sources : informing[p] = {} /\ (isStarted => inc[p] = 1)
        /\ ~Active("health")
        /\ boot \in {"bots", "generate"} => opened = {}

(* A goroutine will open the binding once more in its pass, at most.       *)
MayOpen(r, b) ==
    /\ Active(r) /\ (r = "health" => filter[r] = b[1])
    /\ b[2] \in todo[r] \/ (current[r] = b /\ pc[r] \in {"get", "open"})
StartMayOpen(b) == boot \in {"bots", "generate"} \/ MayOpen("start", b)

One(b) == IF b THEN 1 ELSE 0

(* Which passes may have met the last process of a plugin, or will: that   *)
(* of Start, its own, and the one of its predecessor.                      *)
Passing(p) == One(~calmBoot \/ inc[p] = 1) + One(inc[p] >= 2 /\ ~Unannounced(p)) + One(inc[p] >= 3)

StreamInv(b) ==
    /\ isStarted => streams[b][inc[b[1]]] + One(StartMayOpen(b)) + One(MayOpen("health", b)) <= Passing(b[1])
    /\ \A n \in Processes :
          /\ n > inc[b[1]] \/ ~isStarted => streams[b][n] = 0
          /\ streams[b][n] <= IF calmBoot THEN IF n <= 2 THEN 1 ELSE 2 ELSE 3

(* The process of the client is gone or will be withdrawn, or a restart is *)
(* about to be announced.                                                  *)
Troubled(p) ==
    \/ client[p] \notin live[p] \/ informing[p] # {}
    \/ HandledAt(p, {"release", "delete", "notify"})

(* A client that a pass got is the present one, unless there is another    *)
(* announcement to come.                                                   *)
GotInv ==
    LET p == filter["health"]
    IN  pc["health"] = "open" => got["health"] = client[p] \/ client[p] = 0 \/ HandledAt(p, {"notify"})

InPass(r, b) ==
    /\ Active(r) /\ Passes(r, b[1])
    /\ \/ b[2] \in todo[r] /\ b \notin opened
       \/ /\ current[r] = b
          /\ \/ pc[r] = "get"
             \/ pc[r] = "open" /\ got[r] = client[b[1]]
             \/ pc[r] = "report" /\ streams[b][client[b[1]]] >= 1

(* A configuration is streamed from the present process and recorded so,   *)
(* or it will be in the present pass or after the next one.                *)
Covered(b) ==
    \/ Troubled(b[1])
    \/ b \in opened /\ streams[b][client[b[1]]] >= 1
    \/ \E r \in Routines : InPass(r, b)

CoverInv ==
    calmBoot /\ ctx = "active" /\ boot \in {"schedule", "ready"} =>
        \A c \in Configs \ EndingConfigs : Covered(<<dispatchConfig[c], c>>)

SchedulerInv ==
    /\ ManagerInv
    /\ SchedulerTypeOK
    /\ BootInv /\ CalmInv
    /\ \A r \in Routines : RoutineInv(r)
    /\ \A p \in Sources : AnnouncedInv(p)
    /\ \A b \in Bindings : StreamInv(b)
    /\ GotInv /\ CoverInv

-----------------------------------------------------------------------------
(* The manager's steps                                                     *)

(* All but the announcement of a restart, and the fault that ends the agent *)
(* while the configurations are generated.                                 *)
Works == StartNext \/ ProcessNext \/ MonitorNext \/ ShutdownNext
Faults == main' = "exited" /\ UNCHANGED <<policy, forced, isStarted, ctx, closing, procVars, client, watcher,
                                          informing, monVars>>

LEMMA SourceFacts ==
    /\ Sources \subseteq Plugins /\ \A p \in Sources : KindOf[p] = "source"
    /\ "source" \in Kinds /\ NoPlugin \notin Sources
    /\ \A b \in Bindings : b[1] \in Sources /\ b[2] \in Configs /\ b[1] \in Bound[b[2]] /\ b = <<b[1], b[2]>>
    /\ \A p \in Sources, c \in Configs : p \in Bound[c] => <<p, c>> \in Bindings
    /\ Threshold \in Nat /\ Processes \subseteq Nat \ {0}
BY PluginsAssumption, PolicyAssumption DEF Sources, Bindings, Kinds, Processes

LEMMA ManagerInvStep ==
    ASSUME ManagerInv, [Next]_vars \/ Faults
    PROVE  ManagerInv'
<1>1. CASE [Next]_vars
    BY <1>1, IInvStep, LoadedInvStep DEF ManagerInv
<1>2. CASE Faults
    <2>1. UNCHANGED <<forced, isStarted, ctx, inc, live, client, watcher, informing, monPc, monPlugin,
                      monCount, restarts, policy, closing>> /\ main' = "exited"
        BY <1>2 DEF Faults, procVars, monVars
    <2>2. TypeOK'
        BY <2>1 DEF ManagerInv, IInv, TypeOK, MainPcs
    <2>3. StartInv'
        BY <2>1 DEF ManagerInv, IInv, StartInv
    <2>4. ASSUME NEW p \in Plugins, ~forced
          PROVE  PluginInv(p)'
        <3>1. PluginInv(p)
            BY <2>4 DEF ManagerInv, IInv
        <3>2. ProcessInv(p)'
            BY <2>1, <3>1 DEF PluginInv, ProcessInv, HandledAt
        <3>3. BudgetInv(p)'
            BY <2>1, <3>1 DEF PluginInv, BudgetInv, HandledAt
        <3>4. SupervisedInv(p)'
            BY <2>1, <3>1 DEF PluginInv, SupervisedInv, HandledAt
        <3> QED
            BY <3>2, <3>3, <3>4 DEF PluginInv
    <2>5. LoadedInv'
        BY <2>1 DEF ManagerInv, LoadedInv
    <2> QED
        BY <2>1, <2>2, <2>3, <2>4, <2>5 DEF ManagerInv, IInv
<1> QED
    BY <1>1, <1>2

(* What the manager guarantees of a started source.                        *)
LEMMA StartedFacts ==
    ASSUME ManagerInv, NEW p \in Sources, isStarted
    PROVE  /\ inc[p] \in Processes /\ client[p] \in {0, inc[p]} /\ live[p] \subseteq {inc[p]}
           /\ 0 \notin live[p]
           /\ informing[p] \in SUBSET Nat
           /\ HandledAt(p, {"insert"}) => client[p] = 0
           /\ HandledAt(p, {"create"}) => inc[p] + 1 \in Processes \/ main = "exited"
           /\ main \notin {"executors", "sources", "supervise"}
<1> USE SourceFacts
<1>1. TypeOK /\ ~forced /\ ProcessInv(p) /\ BudgetInv(p) /\ inc[p] # 0
    BY DEF ManagerInv, IInv, StartInv, PluginInv, LoadedInv
<1>2. inc[p] \in Nat /\ informing[p] \in SUBSET Nat /\ inc[p] <= Threshold + 1
    BY <1>1 DEF TypeOK, BudgetInv
<1>3. HandledAt(p, {"create"}) /\ main # "exited" => inc[p] <= Threshold
    BY <1>1 DEF BudgetInv
<1>4. HandledAt(p, {"insert"}) => client[p] = 0
    BY <1>1 DEF ProcessInv, HandledAt
<1>5. main \notin {"executors", "sources", "supervise"}
    BY DEF ManagerInv, IInv, StartInv
<1> QED
    BY <1>1, <1>2, <1>3, <1>4, <1>5 DEF ProcessInv, Processes

(* What a step of the manager keeps of a source once the plugins are       *)
(* started.                                                                *)
Kept(p) ==
    /\ isStarted' = isStarted
    /\ \/ inc'[p] = inc[p] /\ (Unannounced(p)' <=> Unannounced(p))
       \/ isStarted /\ monPc["source"] = "create" /\ ~Unannounced(p) /\ inc'[p] = inc[p] + 1 /\ Unannounced(p)'
    /\ Troubled(p) => Troubled(p)'
    /\ ~Troubled(p)' => client'[p] = client[p]
    /\ client'[p] = client[p] \/ client'[p] = 0 \/ HandledAt(p, {"notify"})'
    /\ HandledAt(p, {"notify"}) => HandledAt(p, {"notify"})'

LEMMA KeptAlone ==
    ASSUME NEW p \in Sources,
           UNCHANGED isStarted, inc'[p] = inc[p], client'[p] = client[p],
           live'[p] \subseteq live[p], informing[p] \subseteq informing'[p],
           monPlugin'["source"] = monPlugin["source"],
           monPc'["source"] = monPc["source"] \/ monPlugin["source"] # p
    PROVE  Kept(p)
<1>1. KindOf[p] = "source"
    BY SourceFacts
<1>2. ASSUME NEW pcs PROVE HandledAt(p, pcs)' <=> HandledAt(p, pcs)
    BY <1>1 DEF HandledAt
<1> QED
    BY <1>2 DEF Kept, Unannounced, Troubled

LEMMA KeptHandled ==
    ASSUME ManagerInv, MonitorStep("source"), NEW p \in Sources, monPlugin["source"] = p
    PROVE  Kept(p)
<1> USE SourceFacts DEF mainVars, procVars, monVars, Goto, MonitorAt, HandledAt, Kept, Unannounced, Troubled
<1>1. TypeOK /\ isStarted /\ ~forced /\ p \in Plugins /\ KindOf[p] = "source"
    BY DEF ManagerInv, IInv, StartInv, MonitorStep, Release, Delete, GetRestartCount, Increment, CreateClient,
           CreateClientFails, Insert
<1>2. ProcessInv(p) /\ 0 \notin live[p]
    BY <1>1, StartedFacts DEF ManagerInv, IInv, PluginInv
<1>3. CASE Release("source")
    BY <1>1, <1>3 DEF Release, TypeOK
<1>4. CASE Delete("source")
    BY <1>1, <1>2, <1>4 DEF Delete, TypeOK
<1>5. CASE GetRestartCount("source") \/ Increment("source") \/ CreateClientFails("source")
    <2>1. client[p] = 0 /\ UNCHANGED <<isStarted, inc, live, client, informing, monPlugin>>
        BY <1>1, <1>2, <1>5 DEF GetRestartCount, Increment, CreateClientFails, ProcessInv
    <2>2. /\ monPc["source"] \in {"count", "increment", "create"}
          /\ monPc'["source"] \in {"increment", "create", "idle"}
        BY <1>1, <1>5 DEF GetRestartCount, Increment, CreateClientFails, TypeOK
    <2> QED
        BY <1>1, <1>2, <2>1, <2>2
<1>6. CASE CreateClient("source")
    <2>1. /\ client[p] = 0 /\ inc'[p] = inc[p] + 1 /\ inc[p] \in Nat /\ live'[p] = live[p] \cup {inc[p] + 1}
          /\ UNCHANGED <<isStarted, client, informing, monPlugin>>
        BY <1>1, <1>2, <1>6 DEF CreateClient, ProcessInv, TypeOK
    <2>2. monPc["source"] = "create" /\ monPc'["source"] = "insert"
        BY <1>1, <1>6 DEF CreateClient, TypeOK
    <2>3. client'[p] \notin live'[p]
        BY <1>2, <2>1
    <2> QED
        BY <1>1, <2>1, <2>2, <2>3
<1>7. CASE Insert("source")
    <2>1. monPc["source"] = "insert" /\ monPc'["source"] = "notify" /\ UNCHANGED <<isStarted, inc, monPlugin>>
        BY <1>1, <1>7 DEF Insert, TypeOK
    <2> QED
        BY <1>1, <2>1
<1> QED
    BY <1>3, <1>4, <1>5, <1>6, <1>7 DEF MonitorStep

LEMMA KeptStep ==
    ASSUME ManagerInv, Works \/ Faults, NEW p \in Sources, main \notin {"executors", "sources", "supervise"}
    PROVE  Kept(p)
<1> USE SourceFacts DEF mainVars, procVars, monVars
<1>1. TypeOK /\ p \in Plugins /\ KindOf[p] = "source"
    BY DEF ManagerInv, IInv
<1>2. CASE Faults
    BY <1>2, KeptAlone DEF Faults
<1>3. CASE ProcessNext
    <2>1. UNCHANGED <<isStarted, inc, client, monPlugin, monPc>>
        BY <1>3 DEF ProcessNext, Crash, PingFails, WatcherExits
    <2>2. live'[p] \subseteq live[p] /\ informing[p] \subseteq informing'[p]
        BY <1>1, <1>3 DEF ProcessNext, Crash, PingFails, WatcherExits, TypeOK
    <2> QED
        BY <2>1, <2>2, KeptAlone
<1>4. CASE ShutdownNext
    <2>1. UNCHANGED <<isStarted, inc, client, informing, monPlugin, monPc>>
        BY <1>4 DEF ShutdownNext, Signal, BeginShutdown, Kill, ShutdownReturns, Exit
    <2>2. live'[p] \subseteq live[p]
        BY <1>1, <1>4 DEF ShutdownNext, Signal, BeginShutdown, Kill, ShutdownReturns, Exit, TypeOK
    <2> QED
        BY <2>1, <2>2, KeptAlone
<1>5. ASSUME NEW k \in Kinds, NEW q \in Plugins, Receive(k, q)
      PROVE  Kept(p)
    <2>1. /\ UNCHANGED <<isStarted, inc, live, client>> /\ monPc[k] = "idle" /\ KindOf[q] = k
          /\ monPc' = [monPc EXCEPT ![k] = "release"] /\ monPlugin' = [monPlugin EXCEPT ![k] = q]
          /\ q # p => informing'[p] = informing[p]
        BY <1>1, <1>5 DEF Receive, Goto, MonitorAt, TypeOK
    <2>2. CASE k # "source"
        <3>1. q # p /\ monPc'["source"] = monPc["source"] /\ monPlugin'["source"] = monPlugin["source"]
            BY <1>1, <2>1, <2>2 DEF TypeOK
        <3> QED
            BY <2>1, <3>1, KeptAlone
    <2>3. CASE k = "source"
        <3>1. monPc["source"] = "idle" /\ monPc'["source"] = "release" /\ monPlugin'["source"] = q
            BY <1>1, <2>1, <2>3 DEF TypeOK
        <3>2. Troubled(p) => Troubled(p)'
            BY <1>1, <2>1, <3>1 DEF Troubled, HandledAt
        <3> QED
            BY <1>1, <2>1, <3>1, <3>2 DEF Kept, Unannounced, HandledAt
    <2> QED
        BY <2>2, <2>3
<1>6. ASSUME NEW k \in Kinds, MonitorStep(k)
      PROVE  Kept(p)
    <2>1. CASE k = "source" /\ monPlugin["source"] = p
        BY <1>6, <2>1, KeptHandled
    <2>2. CASE ~(k = "source" /\ monPlugin["source"] = p)
        <3>1. monPlugin[k] # p
            BY <1>1, <2>2 DEF TypeOK
        <3>2. /\ UNCHANGED <<isStarted, monPlugin, informing>>
              /\ inc'[p] = inc[p] /\ client'[p] = client[p] /\ live'[p] = live[p]
            BY <1>1, <1>6, <3>1 DEF MonitorStep, Release, Delete, GetRestartCount, Increment, CreateClient,
                CreateClientFails, Insert, TypeOK
        <3>3. k # "source" => monPc'["source"] = monPc["source"]
            BY <1>1, <1>6 DEF MonitorStep, Release, Delete, GetRestartCount, Increment, CreateClient,
                CreateClientFails, Insert, Goto, TypeOK
        <3>4. monPc'["source"] = monPc["source"] \/ monPlugin["source"] # p
            BY <2>2, <3>3
        <3> QED
            BY <3>2, <3>4, KeptAlone
    <2> QED
        BY <2>1, <2>2
<1>7. ASSUME NEW k \in Kinds, MonitorExits(k)
      PROVE  Kept(p)
    <2>1. UNCHANGED <<isStarted, inc, live, client, informing, monPlugin>> /\ monPc[k] = "idle"
        BY <1>7 DEF MonitorExits, MonitorAt
    <2>2. \/ monPc'["source"] = monPc["source"]
          \/ monPc["source"] = "idle" /\ monPc'["source"] = "exited"
        BY <1>1, <1>7 DEF MonitorExits, MonitorAt, Goto, TypeOK
    <2> QED
        BY <1>1, <2>1, <2>2 DEF Kept, Unannounced, Troubled, HandledAt
<1>8. CASE StartNext
    BY <1>8 DEF StartNext, StartExecutors, StartSources, RetryForced, StartFails, Supervise
<1> QED
    BY <1>2, <1>3, <1>4, <1>5, <1>6, <1>7, <1>8 DEF Works, MonitorNext

(* The main goroutine does not start the plugins again, and a context that *)
(* is cancelled stays so.                                                  *)
LEMMA MainOrder ==
    ASSUME ManagerInv, Works \/ Faults
    PROVE  /\ main \notin {"executors", "sources", "supervise"} => main' \notin {"executors", "sources", "supervise"}
           /\ isStarted => isStarted'
           /\ ctx' = "active" => ctx = "active"
<1> USE DEF mainVars, procVars, monVars
<1>1. TypeOK
    BY DEF ManagerInv, IInv
<1>2. CASE Faults
    BY <1>2 DEF Faults
<1>3. CASE ProcessNext \/ ShutdownNext
    BY <1>3 DEF ProcessNext, Crash, PingFails, WatcherExits, ShutdownNext, Signal, BeginShutdown, Kill,
        ShutdownReturns, Exit
<1>4. CASE StartNext
    BY <1>4 DEF StartNext, StartExecutors, StartSources, RetryForced, StartFails, Supervise
<1>5. CASE MonitorNext
    BY <1>5 DEF MonitorNext, Receive, MonitorExits, MonitorStep, Release, Delete, GetRestartCount, Increment,
        CreateClient, CreateClientFails, Insert
<1> QED
    BY <1>2, <1>3, <1>4, <1>5 DEF Works

(* As long as no source fails its monitor has nothing to do.               *)
LEMMA CalmStep ==
    ASSUME ManagerInv, StartNext \/ MonitorNext \/ ShutdownNext \/ Faults
                         \/ \E p \in Plugins : \E n \in 1..inc[p] : WatcherExits(p, n),
           monPc["source"] \in {"off", "idle", "exited"},
           \A p \in Sources : informing[p] = {} /\ (isStarted => inc[p] = 1)
    PROVE  /\ monPc'["source"] \in {"off", "idle", "exited"}
           /\ \A p \in Sources : informing'[p] = {} /\ (isStarted' => inc'[p] = 1)
<1> USE SourceFacts DEF mainVars, procVars, monVars
<1>1. TypeOK
    BY DEF ManagerInv, IInv
<1>2. CASE Faults \/ ShutdownNext \/ \E p \in Plugins : \E n \in 1..inc[p] : WatcherExits(p, n)
    BY <1>2 DEF Faults, WatcherExits, ShutdownNext, Signal, BeginShutdown, Kill, ShutdownReturns, Exit
<1>3. CASE StartNext
    <2>1. UNCHANGED informing /\ monPc'["source"] \in {monPc["source"], "idle"}
        BY <1>3 DEF StartNext, StartExecutors, StartSources, RetryForced, StartFails, Supervise
    <2>2. isStarted' => UNCHANGED inc
        BY <1>3 DEF StartNext, StartExecutors, StartSources, RetryForced, StartFails, Supervise, ManagerInv, IInv, StartInv
    <2>3. isStarted' => isStarted \/ main = "supervise"
        BY <1>3 DEF StartNext, StartExecutors, StartSources, RetryForced, StartFails, Supervise
    <2>4. main = "supervise" => \A p \in Sources : inc[p] = 1
        BY DEF ManagerInv, LoadedInv
    <2> QED
        BY <2>1, <2>2, <2>3, <2>4
<1>4. ASSUME NEW k \in Kinds, NEW q \in Plugins, Receive(k, q)
      PROVE  /\ monPc'["source"] = monPc["source"]
             /\ UNCHANGED <<isStarted, inc>> /\ \A p \in Sources : informing'[p] = informing[p]
    <2>1. informing[q] # {} /\ KindOf[q] = k
        BY <1>4 DEF Receive
    <2>2. q \notin Sources /\ k # "source"
        BY <2>1 DEF Sources
    <2> QED
        BY <1>1, <1>4, <2>2 DEF Receive, Goto, TypeOK
<1>5. ASSUME NEW k \in Kinds, MonitorStep(k)
      PROVE  /\ monPc'["source"] = monPc["source"]
             /\ UNCHANGED <<isStarted, informing>> /\ \A p \in Sources : inc'[p] = inc[p]
    <2>1. k # "source"
        BY <1>5 DEF MonitorStep, Release, Delete, GetRestartCount, Increment, CreateClient,
            CreateClientFails, Insert, MonitorAt
    <2>2. monPc[k] \notin {"off", "idle", "exited"}
        BY <1>5 DEF MonitorStep, Release, Delete, GetRestartCount, Increment, CreateClient,
            CreateClientFails, Insert, MonitorAt
    <2>3. \A p \in Sources : monPlugin[k] # p
        BY <1>1, <2>1, <2>2 DEF TypeOK
    <2>4. UNCHANGED <<isStarted, informing>> /\ \A p \in Sources : inc'[p] = inc[p]
        BY <1>1, <1>5, <2>3 DEF MonitorStep, Release, Delete, GetRestartCount, Increment, CreateClient,
            CreateClientFails, Insert, TypeOK
    <2>5. monPc'["source"] = monPc["source"]
        BY <1>1, <1>5, <2>1 DEF MonitorStep, Release, Delete, GetRestartCount, Increment, CreateClient,
            CreateClientFails, Insert, Goto, TypeOK
    <2> QED
        BY <2>4, <2>5
<1>6. ASSUME NEW k \in Kinds, MonitorExits(k)
      PROVE  monPc'["source"] \in {monPc["source"], "exited"} /\ UNCHANGED <<isStarted, inc, informing>>
    BY <1>1, <1>6 DEF MonitorExits, Goto, TypeOK
<1> QED
    BY <1>2, <1>3, <1>4, <1>5, <1>6 DEF MonitorNext

-----------------------------------------------------------------------------
(* Steps of the manager in the composition                                 *)

booted == <<boot, toGenerate, dispatchConfig, opened, streams, routineVars>>

LEMMA OneFacts == \A b \in BOOLEAN : One(b) \in {0, 1} /\ (b => One(b) = 1) /\ (~b => One(b) = 0)
BY DEF One

LEMMA StartedNext ==
    ASSUME ManagerInv', NEW p \in Sources, isStarted'
    PROVE  inc'[p] \in Processes
<1>1. TypeOK' /\ ~forced' /\ BudgetInv(p)' /\ inc'[p] # 0
    BY SourceFacts DEF ManagerInv, IInv, StartInv, PluginInv, LoadedInv
<1> QED
    BY <1>1, SourceFacts DEF TypeOK, BudgetInv, Processes

(* No monitor and no pass before the plugins are started.                  *)
LEMMA QuietBooting ==
    ASSUME SchedulerInv, Works \/ Faults, UNCHANGED booted,
           main \in {"executors", "sources", "supervise"}, NEW p \in Sources
    PROVE  ~isStarted /\ ~Unannounced(p)' /\ ~Active("health")'
<1> USE SourceFacts DEF mainVars, procVars, monVars, booted, routineVars
<1>1. TypeOK /\ ~isStarted /\ \A k \in Kinds : monPc[k] = "off"
    BY DEF SchedulerInv, ManagerInv, IInv, StartInv
<1>2. boot = "bots" /\ ~Active("health")
    BY <1>1 DEF SchedulerInv, BootInv, Active
<1>3. monPc'["source"] \in {"off", "idle"}
    <2>1. CASE MonitorNext
        BY <1>1, <2>1 DEF MonitorNext, Receive, MonitorExits, MonitorStep, Release, Delete, GetRestartCount,
            Increment, CreateClient, CreateClientFails, Insert, MonitorAt
    <2>2. CASE StartNext
        BY <1>1, <2>2 DEF StartNext, StartExecutors, StartSources, RetryForced, StartFails, Supervise
    <2>3. CASE ProcessNext \/ ShutdownNext \/ Faults
        BY <1>1, <2>3 DEF ProcessNext, Crash, PingFails, WatcherExits, ShutdownNext, Signal, BeginShutdown,
            Kill, ShutdownReturns, Exit, Faults
    <2> QED
        BY <2>1, <2>2, <2>3 DEF Works
<1> QED
    BY <1>1, <1>2, <1>3 DEF Unannounced, HandledAt, Active

(* Nothing is streamed before the plugins are started.                     *)
LEMMA StreamBooting ==
    ASSUME SchedulerInv, Works \/ Faults, UNCHANGED booted, ManagerInv', calmBoot' \in BOOLEAN,
           main \in {"executors", "sources", "supervise"}, NEW b \in Bindings
    PROVE  StreamInv(b)'
<1> DEFINE p == b[1]
<1> USE SourceFacts DEF booted, routineVars
<1>1. p \in Sources /\ ~isStarted /\ ~Unannounced(p)' /\ ~Active("health")'
    BY QuietBooting
<1>2. \A n \in Processes : streams'[b][n] = 0
    BY <1>1 DEF SchedulerInv, StreamInv
<1>3. ~MayOpen("health", b)'
    BY <1>1 DEF MayOpen
<1>4. isStarted' => inc'[p] \in Processes
    BY <1>1, StartedNext
<1>5. isStarted' => Passing(p)' >= 1
    BY <1>1, <1>4 DEF Passing, One, Processes
<1>6. isStarted' => streams'[b][inc'[p]] = 0
    BY <1>2, <1>4
<1>7. One(StartMayOpen(b))' <= 1 /\ One(StartMayOpen(b))' \in Nat /\ One(MayOpen("health", b))' = 0
    BY <1>3 DEF One
<1>8. Passing(p)' \in Nat
    BY DEF Passing, One
<1>9. isStarted' => streams'[b][inc'[p]] + One(StartMayOpen(b))' + One(MayOpen("health", b))' <= Passing(p)'
    <2> HIDE DEF p
    <2> QED
        BY <1>5, <1>6, <1>7, <1>8
<1> QED
    BY <1>2, <1>9 DEF StreamInv

LEMMA PassingFacts ==
    ASSUME SchedulerTypeOK, NEW b \in Bindings
    PROVE  /\ Passing(b[1]) \in Nat /\ One(StartMayOpen(b)) \in {0, 1} /\ One(MayOpen("health", b)) \in {0, 1}
           /\ \A n \in Processes : streams[b][n] \in Nat
BY SourceFacts DEF Passing, One, SchedulerTypeOK

(* A process that replaces another has no stream, and at most the two      *)
(* passes that may still meet it.                                          *)
LEMMA StreamKept ==
    ASSUME SchedulerInv, UNCHANGED booted, ManagerInv', calmBoot' \in BOOLEAN, calmBoot' => calmBoot,
           NEW b \in Bindings, Kept(b[1])
    PROVE  StreamInv(b)'
<1> DEFINE p == b[1]
           S == StartMayOpen(b)
           H == MayOpen("health", b)
<1> USE SourceFacts DEF booted, routineVars
<1>1. /\ p \in Sources /\ StreamInv(b) /\ AnnouncedInv(p) /\ BootInv /\ CalmInv
      /\ SchedulerTypeOK /\ TypeOK
    BY DEF SchedulerInv, ManagerInv, IInv
<1>2. UNCHANGED <<streams, pc, filter, boot>>
    OBVIOUS
<1>3. One(S)' = One(S) /\ One(H)' = One(H)
    BY DEF One, StartMayOpen, MayOpen, Active
<1>4. /\ One(S) \in {0, 1} /\ One(H) \in {0, 1} /\ Passing(p) \in Nat
      /\ \A n \in Processes : streams[b][n] \in Nat
    BY <1>1, PassingFacts
<1>5. isStarted => inc[p] \in Processes /\ inc'[p] \in Processes /\ isStarted'
    BY <1>1, StartedFacts, StartedNext DEF Kept, SchedulerInv
<1>6. isStarted' = isStarted
    BY DEF Kept
<1>7. \A n \in Processes : streams'[b][n] <= IF calmBoot' THEN IF n <= 2 THEN 1 ELSE 2 ELSE 3
    BY <1>1, <1>2, <1>4, <1>5 DEF StreamInv
<1>8. CASE inc'[p] = inc[p] /\ (Unannounced(p)' <=> Unannounced(p))
    <2>1. Passing(p)' >= Passing(p) /\ Passing(p)' \in Nat
        <3>1. UNCHANGED <<One(inc[p] >= 2 /\ ~Unannounced(p)), One(inc[p] >= 3)>>
            BY <1>8 DEF One
        <3>2. One(~calmBoot \/ inc[p] = 1)' >= One(~calmBoot \/ inc[p] = 1)
            BY <1>8 DEF One
        <3> QED
            BY <3>1, <3>2 DEF Passing, One
    <2>2. isStarted' => streams'[b][inc'[p]] + One(S)' + One(H)' <= Passing(p)'
        <3> HIDE DEF S, H
        <3>1. isStarted => streams[b][inc[p]] + One(S) + One(H) <= Passing(p)
            BY <1>1 DEF StreamInv, S, H, p
        <3> HIDE DEF p
        <3> QED
            BY <1>2, <1>3, <1>4, <1>5, <1>6, <1>8, <2>1, <3>1
    <2> QED
        BY <1>1, <1>2, <1>6, <1>7, <1>8, <2>2 DEF StreamInv
<1>9. CASE isStarted /\ monPc["source"] = "create" /\ ~Unannounced(p) /\ inc'[p] = inc[p] + 1 /\ Unannounced(p)'
    <2>1. inc[p] \in Nat \ {0} /\ inc[p] + 1 \in Processes
        BY <1>5, <1>9 DEF Processes
    <2>2. streams'[b][inc'[p]] = 0
        BY <1>1, <1>2, <1>9, <2>1 DEF StreamInv, Processes
    <2>3. S => ~calmBoot
        BY <1>1, <1>9 DEF CalmInv, BootInv, StartMayOpen, MayOpen, Active
    <2>4. H => inc[p] >= 2
        BY <1>1, <1>9 DEF AnnouncedInv, MayOpen
    <2>5. Passing(p)' = One(~calmBoot') + One(inc[p] + 1 >= 3)
        BY <1>9, <2>1 DEF Passing, One
    <2>6. One(S) <= One(~calmBoot')
        BY <2>3 DEF One
    <2>7. One(H) <= One(inc[p] + 1 >= 3)
        BY <2>1, <2>4 DEF One
    <2>8. streams'[b][inc'[p]] + One(S)' + One(H)' <= Passing(p)'
        <3>1. One(~calmBoot') \in Nat /\ One(inc[p] + 1 >= 3) \in Nat
            BY DEF One
        <3> HIDE DEF S, H, p
        <3> QED
            BY <1>3, <1>4, <2>2, <2>5, <2>6, <2>7, <3>1
    <2>9. \A n \in Processes : n > inc'[p] \/ ~isStarted' => streams'[b][n] = 0
        BY <1>1, <1>2, <1>6, <1>9, <2>1 DEF StreamInv, Processes
    <2> QED
        BY <1>7, <2>8, <2>9 DEF StreamInv
<1> QED
    BY <1>8, <1>9 DEF Kept

(* Once the configurations are generated each key has a plugin.            *)
LEMMA Configured ==
    ASSUME SchedulerTypeOK, BootInv, toGenerate = {}, NEW c \in Configs
    PROVE  dispatchConfig[c] \in Sources /\ <<dispatchConfig[c], c>> \in Bindings
<1>1. PICK p \in Sources : p \in Bound[c]
    BY SchedulerAssumption
<1>2. <<p, c>> \in Bindings /\ <<p, c>>[2] = c
    BY <1>1, SourceFacts
<1>3. dispatchConfig[c] # NoPlugin
    BY <1>2 DEF BootInv
<1>4. dispatchConfig[c] \in Bound[c] /\ dispatchConfig[c] \in Sources
    BY <1>3 DEF SchedulerTypeOK
<1> QED
    BY <1>4, SourceFacts

LEMMA CoveredKept ==
    ASSUME UNCHANGED booted, NEW b \in Bindings, Kept(b[1]), Covered(b)
    PROVE  Covered(b)'
<1>1. CASE Troubled(b[1])'
    BY <1>1 DEF Covered
<1>2. CASE ~Troubled(b[1])'
    <2>1. ~Troubled(b[1]) /\ client'[b[1]] = client[b[1]]
        BY <1>2 DEF Kept
    <2> QED
        BY <2>1 DEF Covered, InPass, Active, Passes, booted, routineVars
<1> QED
    BY <1>1, <1>2

LEMMA ManagerMoves ==
    ASSUME SchedulerInv, Works \/ Faults, UNCHANGED booted, ManagerInv', CalmInv',
           calmBoot' \in BOOLEAN, calmBoot' => calmBoot
    PROVE  SchedulerInv'
<1> USE SourceFacts DEF booted, routineVars
<1>1. SchedulerTypeOK /\ BootInv /\ TypeOK' /\ ManagerInv
    BY DEF SchedulerInv, ManagerInv, IInv
<1>2. isStarted => isStarted'
    BY <1>1, MainOrder
<1>3. SchedulerTypeOK'
    BY <1>1 DEF SchedulerTypeOK
<1>4. BootInv'
    BY <1>1, <1>2, MainOrder DEF BootInv, Active
<1>5. \A r \in Routines : RoutineInv(r)'
    BY <1>2 DEF SchedulerInv, RoutineInv, Active, Passes
<1>6. ASSUME NEW b \in Bindings
      PROVE  StreamInv(b)'
    <2>1. CASE main \in {"executors", "sources", "supervise"}
        BY <2>1, StreamBooting
    <2>2. CASE main \notin {"executors", "sources", "supervise"}
        <3>1. Kept(b[1])
            BY <1>1, <2>2, KeptStep
        <3> QED
            BY <3>1, StreamKept
    <2> QED
        BY <2>1, <2>2
<1>7. ASSUME NEW p \in Sources
      PROVE  AnnouncedInv(p)'
    <2>1. CASE main \notin {"executors", "sources", "supervise"}
        <3>1. Kept(p) /\ AnnouncedInv(p)
            BY <1>1, <2>1, KeptStep DEF SchedulerInv
        <3>2. isStarted => inc[p] \in Processes
            BY <1>1, StartedFacts
        <3>3. (Active("health")' <=> Active("health")) /\ (Active("health") => isStarted)
            BY <1>1 DEF Active, BootInv
        <3>4. CASE inc'[p] = inc[p] /\ (Unannounced(p)' <=> Unannounced(p))
            BY <3>1, <3>3, <3>4 DEF AnnouncedInv
        <3>5. CASE isStarted /\ ~Unannounced(p) /\ inc'[p] = inc[p] + 1 /\ Unannounced(p)'
            <4>1. inc[p] \in Nat \ {0}
                BY <3>2, <3>5 DEF Processes
            <4> QED
                BY <3>1, <3>3, <3>5, <4>1 DEF AnnouncedInv
        <3> QED
            BY <3>1, <3>4, <3>5 DEF Kept
    <2>2. CASE main \in {"executors", "sources", "supervise"}
        BY <2>2, QuietBooting DEF AnnouncedInv
    <2> QED
        BY <2>1, <2>2
<1>8. GotInv'
    <2> SUFFICES ASSUME pc["health"] = "open" PROVE GotInv'
        BY DEF GotInv
    <2>1. isStarted /\ filter["health"] \in Sources
        BY <1>1 DEF BootInv, Active
    <2>2. Kept(filter["health"])
        BY <1>1, <2>1, KeptStep DEF ManagerInv, IInv, StartInv
    <2> QED
        BY <2>2 DEF SchedulerInv, GotInv, Kept
<1>9. CoverInv'
    <2> SUFFICES ASSUME calmBoot', ctx' = "active", boot \in {"schedule", "ready"}, NEW c \in Configs \ EndingConfigs
                 PROVE  Covered(<<dispatchConfig[c], c>>)'
        BY DEF CoverInv
    <2>0. toGenerate = {}
        BY <1>1 DEF BootInv
    <2>1. dispatchConfig[c] \in Sources /\ <<dispatchConfig[c], c>> \in Bindings
        BY <1>1, <2>0, Configured
    <2>2. Kept(dispatchConfig[c])
        BY <1>1, <2>1, KeptStep DEF BootInv
    <2>3. Covered(<<dispatchConfig[c], c>>)
        BY MainOrder, <1>1 DEF SchedulerInv, CoverInv
    <2> QED
        BY <2>1, <2>2, <2>3, CoveredKept
<1> QED
    BY <1>3, <1>4, <1>5, <1>6, <1>7, <1>8, <1>9 DEF SchedulerInv

LEMMA ManagerStepInv ==
    ASSUME SchedulerInv,
           \/ ManagerStep
           \/ \E p \in Plugins : \E n \in 1..inc[p] : ProcessFails(p, n)
           \/ ConcurrentMapFault
    PROVE  SchedulerInv'
<1> USE DEF bootVars, schedulerVars, booted, routineVars
<1>1. ManagerInv /\ CalmInv /\ calmBoot \in BOOLEAN
    BY DEF SchedulerInv, SchedulerTypeOK
<1>2. Works \/ Faults => ManagerInv'
    <2>1. Works => [Next]_vars
        BY DEF Works, Next
    <2> QED
        BY <1>1, <2>1, ManagerInvStep
<1>3. CASE ManagerStep \/ ConcurrentMapFault
    <2>1. UNCHANGED <<booted, calmBoot>>
        BY <1>3 DEF ManagerStep, ConcurrentMapFault
    <2>2. \/ StartNext \/ MonitorNext \/ ShutdownNext \/ Faults
          \/ \E p \in Plugins : \E n \in 1..inc[p] : WatcherExits(p, n)
        BY <1>3 DEF ManagerStep, ManagerShutdown, ShutdownNext, ConcurrentMapFault, Faults
    <2>3. Works \/ Faults
        BY <2>2 DEF Works, ProcessNext
    <2>4. CalmInv'
        <3> SUFFICES ASSUME calmBoot, boot # "ready" PROVE CalmInv'
            BY <2>1 DEF CalmInv
        <3>1. /\ monPc["source"] \in {"off", "idle", "exited"}
              /\ \A p \in Sources : informing[p] = {} /\ (isStarted => inc[p] = 1)
            BY <1>1 DEF CalmInv
        <3>2. /\ monPc'["source"] \in {"off", "idle", "exited"}
              /\ \A p \in Sources : informing'[p] = {} /\ (isStarted' => inc'[p] = 1)
            BY <1>1, <2>2, <3>1, CalmStep
        <3> QED
            BY <1>1, <2>1, <3>2 DEF CalmInv, Active
    <2>5. UNCHANGED booted /\ calmBoot' \in BOOLEAN /\ (calmBoot' => calmBoot)
        BY <1>1, <2>1
    <2> QED
        BY <1>2, <2>3, <2>4, <2>5, ManagerMoves
<1>4. ASSUME NEW p \in Plugins, NEW n \in 1..inc[p], ProcessFails(p, n)
      PROVE  SchedulerInv'
    <2>1. UNCHANGED booted /\ calmBoot' \in BOOLEAN /\ (calmBoot' => calmBoot)
        BY <1>1, <1>4 DEF ProcessFails
    <2>2. CalmInv'
        BY <1>4 DEF ProcessFails, CalmInv
    <2>3. Works
        BY <1>4 DEF Works, ProcessNext, ProcessFails
    <2> QED
        BY <1>2, <2>1, <2>2, <2>3, ManagerMoves
<1> QED
    BY <1>3, <1>4

-----------------------------------------------------------------------------
(* Steps of the scheduler: the manager stands still                        *)

LEMMA StandStill ==
    ASSUME SchedulerInv, UNCHANGED vars
    PROVE  /\ ManagerInv'
           /\ \A p \in Sources : (Unannounced(p)' <=> Unannounced(p)) /\ (Troubled(p)' <=> Troubled(p))
           /\ \A p \in Sources : HandledAt(p, {"notify"})' <=> HandledAt(p, {"notify"})
<1>1. ManagerInv'
    BY ManagerInvStep DEF SchedulerInv
<1> QED
    BY <1>1 DEF Unannounced, Troubled, HandledAt, vars, monVars, procVars

(* What a pass of one goroutine leaves to be shown of a step of it.        *)
LEMMA PassStep ==
    ASSUME SchedulerInv, UNCHANGED <<vars, calmBoot, toGenerate, dispatchConfig>>,
           SchedulerTypeOK', BootInv', CalmInv', GotInv', CoverInv',
           \A r \in Routines : RoutineInv(r)',
           Active("health")' => Active("health") /\ filter'["health"] = filter["health"],
           \A b \in Bindings : StreamInv(b)'
    PROVE  SchedulerInv'
<1>1. ManagerInv' /\ \A p \in Sources : Unannounced(p)' <=> Unannounced(p)
    BY StandStill
<1>2. \A p \in Sources : AnnouncedInv(p)'
    BY <1>1 DEF SchedulerInv, AnnouncedInv, vars, procVars
<1> QED
    BY <1>1, <1>2 DEF SchedulerInv

(* The streams stay within their bound when no goroutine may open more.    *)
LEMMA StreamStill ==
    ASSUME SchedulerInv, UNCHANGED <<vars, calmBoot, streams>>, NEW b \in Bindings,
           StartMayOpen(b)' => StartMayOpen(b),
           MayOpen("health", b)' => MayOpen("health", b)
    PROVE  StreamInv(b)'
<1> DEFINE p == b[1]
<1> USE SourceFacts DEF vars, procVars
<1>0. UNCHANGED <<isStarted, inc, streams, calmBoot>>
    BY DEF mainVars
<1>1. p \in Sources /\ StreamInv(b) /\ SchedulerTypeOK /\ ManagerInv
    BY DEF SchedulerInv
<1>2. Unannounced(p)' <=> Unannounced(p)
    BY <1>1, StandStill
<1>3. Passing(p)' = Passing(p)
    BY <1>2 DEF Passing, One
<1>4. One(StartMayOpen(b))' <= One(StartMayOpen(b)) /\ One(MayOpen("health", b))' <= One(MayOpen("health", b))
    BY DEF One
<1>5. One(StartMayOpen(b))' \in Nat /\ One(MayOpen("health", b))' \in Nat
    BY DEF One
<1>6. isStarted => inc[p] \in Processes
    BY <1>1, StartedFacts
<1>7. isStarted' => streams'[b][inc'[p]] + One(StartMayOpen(b))' + One(MayOpen("health", b))' <= Passing(p)'
    <2>1. isStarted => streams[b][inc[p]] + One(StartMayOpen(b)) + One(MayOpen("health", b)) <= Passing(p)
        BY <1>1 DEF StreamInv
    <2>2. /\ One(StartMayOpen(b)) \in {0, 1} /\ One(MayOpen("health", b)) \in {0, 1} /\ Passing(p) \in Nat
          /\ isStarted => streams[b][inc[p]] \in Nat
        BY <1>1, <1>6, PassingFacts
    <2> HIDE DEF p
    <2> QED
        BY <1>0, <1>3, <1>4, <1>5, <2>1, <2>2
<1> QED
    BY <1>0, <1>1, <1>7 DEF StreamInv

LEMMA NewSchedulerInv ==
    ASSUME SchedulerInv, NewScheduler
    PROVE  SchedulerInv'
<1> USE SourceFacts DEF routineVars
<1>1. /\ UNCHANGED <<vars, calmBoot, toGenerate, dispatchConfig, opened, streams, todo, filter, current, got>>
      /\ main = "running" /\ boot = "bots" /\ boot' = "generate"
      /\ SchedulerTypeOK /\ BootInv /\ CalmInv
    BY DEF NewScheduler, Running, SchedulerInv
<1>2. pc["health"] = "off" /\ pc'["health"] = "idle" /\ pc["start"] = "off" /\ pc'["start"] = "off"
    BY <1>1 DEF NewScheduler, SchedulerTypeOK, BootInv, Routines
<1>3. \A r \in Routines : ~Active(r) /\ ~Active(r)'
    BY <1>2 DEF Active, Routines
<1>4. SchedulerTypeOK'
    BY <1>1, StandStill DEF NewScheduler, SchedulerTypeOK, BootPhases, Routines, ManagerInv, IInv
<1>5. BootInv'
    BY <1>1, <1>2, <1>3 DEF BootInv, vars, mainVars, Routines
<1>6. CalmInv'
    BY <1>1, <1>3 DEF CalmInv, vars, mainVars, monVars, procVars, Routines
<1>7. \A r \in Routines : RoutineInv(r)'
    BY <1>1, <1>2, <1>3 DEF SchedulerInv, RoutineInv, Routines
<1>8. GotInv' /\ CoverInv'
    BY <1>1, <1>2 DEF GotInv, CoverInv
<1>9. ASSUME NEW b \in Bindings PROVE StreamInv(b)'
    BY <1>1, <1>3, StreamStill DEF StartMayOpen, MayOpen, Routines
<1> QED
    BY <1>1, <1>3, <1>4, <1>5, <1>6, <1>7, <1>8, <1>9, PassStep DEF Routines

LEMMA GeneratePluginConfigInv ==
    ASSUME SchedulerInv, NEW b \in Bindings, GeneratePluginConfig(b[1], b[2])
    PROVE  SchedulerInv'
<1> DEFINE p == b[1]
           c == b[2]
<1> USE SourceFacts DEF routineVars
<1>1. /\ UNCHANGED <<vars, boot, calmBoot, opened, streams, pc, todo, filter, current, got>>
      /\ main = "running" /\ boot = "generate"
      /\ toGenerate' = toGenerate \ {b} /\ dispatchConfig' = [dispatchConfig EXCEPT ![c] = p]
      /\ SchedulerTypeOK /\ BootInv /\ CalmInv
    BY DEF GeneratePluginConfig, Running, SchedulerInv
<1>2. p \in Sources /\ c \in Configs /\ p \in Bound[c] /\ p # NoPlugin
    OBVIOUS
<1>3. \A d \in Configs : dispatchConfig'[d] = (IF d = c THEN p ELSE dispatchConfig[d])
    BY <1>1, <1>2 DEF SchedulerTypeOK
<1>4. pc["start"] = "off" /\ \A r \in Routines : Active(r)' <=> Active(r)
    BY <1>1 DEF BootInv, Active
<1>5. SchedulerTypeOK'
    <2>1. TypeOK'
        BY <1>1, StandStill DEF ManagerInv, IInv
    <2>2. dispatchConfig' \in [Configs -> Sources \cup {NoPlugin}]
        BY <1>1, <1>2 DEF SchedulerTypeOK
    <2> QED
        BY <1>1, <1>2, <1>3, <2>1, <2>2 DEF SchedulerTypeOK
<1>6. BootInv'
    <2>1. \A x \in Bindings \ toGenerate' : dispatchConfig'[x[2]] # NoPlugin
        BY <1>1, <1>2, <1>3 DEF BootInv
    <2> QED
        BY <1>1, <1>4, <2>1 DEF BootInv, vars, mainVars, Routines
<1>7. CalmInv'
    BY <1>1, <1>4 DEF CalmInv, vars, mainVars, monVars, procVars, Routines
<1>8. ASSUME NEW r \in Routines PROVE RoutineInv(r)'
    <2>1. RoutineInv(r) /\ todo[r] \subseteq Configs
        BY <1>1 DEF SchedulerInv, SchedulerTypeOK
    <2>2. \A d \in todo'[r] : dispatchConfig'[d] # NoPlugin
        BY <1>1, <1>2, <1>3, <2>1 DEF RoutineInv
    <2>3. calmBoot => ~Active(r)
        BY <1>1, <1>4 DEF CalmInv, Routines, Active
    <2> QED
        BY <1>1, <2>1, <2>2, <2>3 DEF RoutineInv, Active, Passes, vars, mainVars
<1>9. GotInv' /\ CoverInv'
    BY <1>1 DEF SchedulerInv, GotInv, CoverInv, HandledAt, vars, monVars
<1>10. ManagerInv' /\ \A q \in Sources : Unannounced(q)' <=> Unannounced(q)
    BY <1>1, StandStill
<1>11. \A q \in Sources : AnnouncedInv(q)'
    BY <1>1, <1>4, <1>10 DEF SchedulerInv, AnnouncedInv, vars, procVars, Routines
<1>12. ASSUME NEW x \in Bindings PROVE StreamInv(x)'
    BY <1>1, <1>4, StreamStill DEF StartMayOpen, MayOpen, Routines
<1> QED
    BY <1>5, <1>6, <1>7, <1>8, <1>9, <1>10, <1>11, <1>12 DEF SchedulerInv

LEMMA ScheduleAllInv ==
    ASSUME SchedulerInv, ScheduleAll
    PROVE  SchedulerInv'
<1> USE SourceFacts
<1>1. /\ UNCHANGED <<vars, calmBoot, toGenerate, dispatchConfig, opened, streams, current, got>>
      /\ main = "running" /\ boot = "generate" /\ boot' = "schedule" /\ toGenerate = {}
      /\ BeginPass("start", NoPlugin)
      /\ SchedulerTypeOK /\ BootInv /\ CalmInv
    BY DEF ScheduleAll, Running, SchedulerInv
<1>2. /\ pc'["start"] = "check" /\ pc'["health"] = pc["health"] /\ pc["start"] = "off"
      /\ todo'["start"] = {c \in Configs : dispatchConfig[c] # NoPlugin} /\ todo'["health"] = todo["health"]
      /\ filter'["start"] = NoPlugin /\ filter'["health"] = filter["health"]
    BY <1>1 DEF BeginPass, SchedulerTypeOK, BootInv, Routines
<1>3. Active("start")' /\ (Active("health")' <=> Active("health"))
    BY <1>2 DEF Active
<1>4. SchedulerTypeOK'
    <2>1. TypeOK'
        BY <1>1, StandStill DEF ManagerInv, IInv
    <2>2. pc' \in [Routines -> {"off", "idle", "check", "get", "open", "report", "exited"}]
        BY <1>1 DEF BeginPass, SchedulerTypeOK
    <2>3. todo' \in [Routines -> SUBSET Configs] /\ filter' \in [Routines -> Sources \cup {NoPlugin}]
        BY <1>1 DEF BeginPass, SchedulerTypeOK
    <2> QED
        BY <1>1, <2>1, <2>2, <2>3 DEF SchedulerTypeOK, BootPhases
<1>5. BootInv'
    BY <1>1, <1>2, <1>3 DEF BootInv, vars, mainVars
<1>6. CalmInv'
    BY <1>1, <1>3 DEF CalmInv, vars, mainVars, monVars, procVars
<1>7. ASSUME NEW r \in Routines PROVE RoutineInv(r)'
    <2>1. CASE r = "start"
        BY <1>1, <1>2, <1>3, <2>1 DEF RoutineInv
    <2>2. CASE r = "health"
        BY <1>1, <1>2, <1>3, <2>2 DEF SchedulerInv, RoutineInv, Passes, vars, mainVars
    <2> QED
        BY <2>1, <2>2 DEF Routines
<1>8. GotInv'
    BY <1>1, <1>2 DEF SchedulerInv, GotInv, HandledAt, vars, monVars
<1>9. CoverInv'
    <2> SUFFICES ASSUME calmBoot, NEW c \in Configs
                 PROVE  Covered(<<dispatchConfig[c], c>>)'
        BY <1>1 DEF CoverInv
    <2>1. dispatchConfig[c] \in Sources
        BY <1>1, Configured
    <2>2. c \in todo'["start"] /\ opened' = {}
        BY <1>1, <1>2, <2>1 DEF CalmInv
    <2>3. InPass("start", <<dispatchConfig[c], c>>)'
        BY <1>1, <1>2, <1>3, <2>2 DEF InPass, Passes
    <2> QED
        BY <2>3 DEF Covered, Routines
<1>10. ASSUME NEW b \in Bindings PROVE StreamInv(b)'
    <2>1. StartMayOpen(b)
        BY <1>1 DEF StartMayOpen
    <2>2. MayOpen("health", b)' <=> MayOpen("health", b)
        BY <1>1, <1>2, <1>3 DEF MayOpen
    <2> QED
        BY <1>1, <2>1, <2>2, StreamStill
<1> QED
    BY <1>1, <1>2, <1>3, <1>4, <1>5, <1>6, <1>7, <1>8, <1>9, <1>10, PassStep

(* The announcement of a restart: the pass it starts is the one the        *)
(* process was still missing.                                              *)
LEMMA ReceiveRestartedInv ==
    ASSUME SchedulerInv, ReceiveRestarted
    PROVE  SchedulerInv'
<1> DEFINE p == monPlugin["source"]
<1> USE SourceFacts DEF bootVars, mainVars, procVars
<1>1. /\ NotifyScheduler /\ pc["health"] = "idle"
      /\ opened' = DeleteAllStartedStreams(p)
      /\ BeginPass("health", p)
      /\ UNCHANGED <<boot, calmBoot, toGenerate, dispatchConfig, streams, current, got>>
      /\ SchedulerTypeOK /\ BootInv /\ CalmInv /\ ManagerInv /\ TypeOK
    BY DEF ReceiveRestarted, SchedulerInv, ManagerInv, IInv
<1>2. /\ UNCHANGED <<main, isStarted, ctx, inc, live, client, informing, monPlugin>>
      /\ monPc["source"] = "notify" /\ monPc'["source"] = "idle"
    BY <1>1 DEF NotifyScheduler, MonitorAt, Goto, TypeOK
<1>3. p \in Sources /\ isStarted
    BY <1>1, <1>2 DEF TypeOK, Sources, ManagerInv, IInv, StartInv
<1>4. ManagerInv'
    BY <1>1, ManagerInvStep DEF Next
<1>5. /\ pc'["health"] = "check" /\ pc'["start"] = pc["start"]
      /\ todo'["health"] = {c \in Configs : dispatchConfig[c] # NoPlugin} /\ todo'["start"] = todo["start"]
      /\ filter'["health"] = p /\ filter'["start"] = filter["start"]
    BY <1>1 DEF BeginPass, SchedulerTypeOK, Routines
<1>6. ~Active("health") /\ Active("health")' /\ (Active("start")' <=> Active("start"))
    BY <1>1, <1>5 DEF Active
<1>7. SchedulerTypeOK'
    <2>1. TypeOK'
        BY <1>4 DEF ManagerInv, IInv
    <2>2. pc' \in [Routines -> {"off", "idle", "check", "get", "open", "report", "exited"}]
        BY <1>1 DEF BeginPass, SchedulerTypeOK
    <2>3. todo' \in [Routines -> SUBSET Configs] /\ filter' \in [Routines -> Sources \cup {NoPlugin}]
        BY <1>1, <1>3 DEF BeginPass, SchedulerTypeOK
    <2>4. opened' \subseteq Bindings
        BY <1>1 DEF DeleteAllStartedStreams, SchedulerTypeOK
    <2> QED
        BY <1>1, <2>1, <2>2, <2>3, <2>4 DEF SchedulerTypeOK
<1>8. BootInv'
    BY <1>1, <1>2, <1>3, <1>5, <1>6 DEF BootInv
<1>9. CalmInv'
    BY <1>1, <1>2 DEF CalmInv
<1>10. ASSUME NEW r \in Routines PROVE RoutineInv(r)'
    <2>1. CASE r = "health"
        BY <1>1, <1>5, <1>6, <2>1 DEF RoutineInv
    <2>2. CASE r = "start"
        BY <1>1, <1>2, <1>5, <1>6, <2>2 DEF SchedulerInv, RoutineInv, Passes
    <2> QED
        BY <2>1, <2>2 DEF Routines
<1>11. Unannounced(p) /\ inc[p] >= 2 /\ \A q \in Sources : ~Unannounced(q)' /\ (q # p => ~Unannounced(q))
    <2>1. AnnouncedInv(p) /\ \A q \in Sources : KindOf[q] = "source"
        BY <1>3 DEF SchedulerInv
    <2>2. Unannounced(p) /\ \A q \in Sources : ~Unannounced(q)' /\ (q # p => ~Unannounced(q))
        BY <1>2, <1>3, <2>1 DEF Unannounced, HandledAt
    <2> QED
        BY <2>1, <2>2 DEF AnnouncedInv
<1>12. ASSUME NEW q \in Sources PROVE AnnouncedInv(q)'
    BY <1>2, <1>5, <1>11 DEF AnnouncedInv
<1>13. ASSUME NEW b \in Bindings PROVE StreamInv(b)'
    <2>1. StreamInv(b) /\ b[1] \in Sources /\ inc[b[1]] \in Processes
        BY <1>1, <1>3, StartedFacts DEF SchedulerInv
    <2>2. StartMayOpen(b)' <=> StartMayOpen(b)
        BY <1>1, <1>5, <1>6 DEF StartMayOpen, MayOpen
    <2>3. ~MayOpen("health", b)
        BY <1>6 DEF MayOpen
    <2>4. One(StartMayOpen(b))' = One(StartMayOpen(b)) /\ One(MayOpen("health", b)) = 0
        BY <2>2, <2>3 DEF One
    <2>5. One(MayOpen("health", b))' \in {0, 1} /\ (b[1] # p => One(MayOpen("health", b))' = 0)
        BY <1>5 DEF One, MayOpen
    <2>6. Passing(b[1])' = IF b[1] = p THEN Passing(b[1]) + 1 ELSE Passing(b[1])
        BY <1>1, <1>2, <1>11, <2>1 DEF Passing, One
    <2>7. One(StartMayOpen(b)) \in {0, 1} /\ Passing(b[1]) \in Nat /\ streams[b][inc[b[1]]] \in Nat
        BY <1>1, <2>1, PassingFacts
    <2>8. streams[b][inc[b[1]]] + One(StartMayOpen(b)) + One(MayOpen("health", b)) <= Passing(b[1])
        BY <1>3, <2>1 DEF StreamInv
    <2>9. UNCHANGED <<inc, isStarted, streams, calmBoot>>
        BY <1>1, <1>2
    <2>10. streams'[b][inc'[b[1]]] + One(StartMayOpen(b))' + One(MayOpen("health", b))' <= Passing(b[1])'
        <3> HIDE DEF p
        <3> QED
            BY <2>4, <2>5, <2>6, <2>7, <2>8, <2>9
    <2> QED
        BY <2>1, <2>9, <2>10 DEF StreamInv
<1>14. GotInv'
    BY <1>5 DEF GotInv
<1>15. CoverInv'
    <2> SUFFICES ASSUME calmBoot, ctx = "active", boot \in {"schedule", "ready"}, NEW c \in Configs \ EndingConfigs
                 PROVE  Covered(<<dispatchConfig[c], c>>)'
        BY <1>1, <1>2 DEF CoverInv
    <2>1. toGenerate = {}
        BY <1>1 DEF BootInv
    <2>2. PICK b \in Bindings : b = <<dispatchConfig[c], c>> /\ b[1] = dispatchConfig[c] /\ b[2] = c
        BY <1>1, <2>1, Configured
    <2>3. Covered(b) /\ dispatchConfig[c] # NoPlugin
        BY <2>2 DEF SchedulerInv, CoverInv
    <2>4. CASE b[1] = p
        <3>1. c \in todo'["health"] /\ b \notin opened'
            BY <1>1, <1>5, <2>3, <2>4 DEF DeleteAllStartedStreams
        <3>2. InPass("health", b)'
            BY <1>5, <1>6, <2>2, <2>4, <3>1 DEF InPass, Passes
        <3> QED
            BY <1>1, <2>2, <3>2 DEF Covered, Routines
    <2>5. CASE b[1] # p
        <3>1. Troubled(b[1]) => Troubled(b[1])'
            BY <1>2, <2>5 DEF Troubled, HandledAt
        <3>2. b \in opened => b \in opened'
            BY <1>1, <2>5 DEF DeleteAllStartedStreams
        <3>3. opened' \subseteq opened
            BY <1>1 DEF DeleteAllStartedStreams
        <3>4. ~InPass("health", b) /\ (InPass("start", b) => InPass("start", b)')
            BY <1>1, <1>2, <1>5, <1>6, <3>3 DEF InPass, Passes
        <3>5. Covered(b)'
            BY <1>1, <1>2, <2>3, <3>1, <3>2, <3>4 DEF Covered, Routines
        <3> QED
            BY <1>1, <2>2, <3>5
    <2> QED
        BY <2>4, <2>5
<1> QED
    BY <1>4, <1>7, <1>8, <1>9, <1>10, <1>12, <1>13, <1>14, <1>15 DEF SchedulerInv

LEMMA HealthExitsInv ==
    ASSUME SchedulerInv, HealthExits
    PROVE  SchedulerInv'
<1> USE SourceFacts DEF bootVars
<1>1. /\ UNCHANGED <<vars, boot, calmBoot, toGenerate, dispatchConfig, opened, streams, todo, filter, current, got>>
      /\ ctx = "cancelled" /\ pc["health"] = "idle" /\ pc' = [pc EXCEPT !["health"] = "exited"]
      /\ SchedulerTypeOK /\ BootInv /\ CalmInv
    BY DEF HealthExits, SchedulerInv
<1>2. pc'["health"] = "exited" /\ pc'["start"] = pc["start"]
    BY <1>1 DEF SchedulerTypeOK, Routines
<1>3. ~Active("health") /\ ~Active("health")' /\ (Active("start")' <=> Active("start"))
    BY <1>1, <1>2 DEF Active
<1>4. SchedulerTypeOK'
    BY <1>1, StandStill DEF SchedulerTypeOK, Routines, ManagerInv, IInv
<1>5. BootInv'
    BY <1>1, <1>2, <1>3 DEF BootInv, vars, mainVars
<1>6. CalmInv'
    BY <1>1, <1>3 DEF CalmInv, vars, mainVars, monVars, procVars
<1>7. ASSUME NEW r \in Routines PROVE RoutineInv(r)'
    <2>1. CASE r = "health"
        BY <1>1, <1>2, <1>3, <2>1 DEF SchedulerInv, RoutineInv
    <2>2. CASE r = "start"
        BY <1>1, <1>2, <1>3, <2>2 DEF SchedulerInv, RoutineInv, Passes, vars, mainVars
    <2> QED
        BY <2>1, <2>2 DEF Routines
<1>8. GotInv' /\ CoverInv'
    BY <1>1, <1>2 DEF GotInv, CoverInv, vars, mainVars
<1>9. ASSUME NEW b \in Bindings PROVE StreamInv(b)'
    BY <1>1, <1>2, <1>3, StreamStill DEF StartMayOpen, MayOpen
<1> QED
    BY <1>1, <1>3, <1>4, <1>5, <1>6, <1>7, <1>8, <1>9, PassStep

LEMMA EndStreamInv ==
    ASSUME SchedulerInv, NEW b \in Bindings, NEW n \in Processes, EndStream(b, n)
    PROVE  SchedulerInv'
<1> USE SourceFacts DEF bootVars, routineVars
<1>1. /\ UNCHANGED <<vars, boot, calmBoot, toGenerate, dispatchConfig, opened, pc, todo, filter, current, got>>
      /\ b[2] \in EndingConfigs \/ ctx = "cancelled"
      /\ SchedulerTypeOK /\ BootInv /\ CalmInv
    BY DEF EndStream, SchedulerInv
<1>2. /\ streams' \in [Bindings -> [Processes -> Nat]]
      /\ \A x \in Bindings \ {b} : streams'[x] = streams[x]
      /\ \A x \in Bindings, m \in Processes : streams'[x][m] <= streams[x][m]
    BY <1>1 DEF EndStream, SchedulerTypeOK
<1>3. \A r \in Routines : Active(r)' <=> Active(r)
    BY <1>1 DEF Active
<1>4. SchedulerTypeOK'
    BY <1>1, <1>2, StandStill DEF SchedulerTypeOK, ManagerInv, IInv
<1>5. BootInv' /\ CalmInv'
    BY <1>1, <1>3 DEF BootInv, CalmInv, vars, mainVars, monVars, procVars, Routines
<1>6. ASSUME NEW r \in Routines PROVE RoutineInv(r)'
    BY <1>1, <1>3 DEF SchedulerInv, RoutineInv, Passes, vars, mainVars
<1>7. GotInv'
    BY <1>1 DEF SchedulerInv, GotInv, HandledAt, vars, monVars
<1>8. CoverInv'
    <2> SUFFICES ASSUME calmBoot, ctx = "active", boot \in {"schedule", "ready"}, NEW c \in Configs \ EndingConfigs
                 PROVE  Covered(<<dispatchConfig[c], c>>)'
        BY <1>1 DEF CoverInv, vars, mainVars
    <2>1. toGenerate = {}
        BY <1>1 DEF BootInv
    <2>2. PICK x \in Bindings : x = <<dispatchConfig[c], c>> /\ x[1] = dispatchConfig[c] /\ x[2] = c
        BY <1>1, <2>1, Configured
    <2>3. Covered(x) /\ streams'[x] = streams[x]
        BY <1>1, <1>2, <2>2 DEF SchedulerInv, CoverInv
    <2>4. Covered(x)'
        BY <1>1, <1>3, <2>3, StandStill DEF Covered, InPass, Passes, vars
    <2> QED
        BY <1>1, <2>2, <2>4
<1>9. ASSUME NEW x \in Bindings PROVE StreamInv(x)'
    <2>1. x[1] \in Sources /\ StreamInv(x) /\ ManagerInv
        BY DEF SchedulerInv
    <2>2. (StartMayOpen(x)' <=> StartMayOpen(x)) /\ (MayOpen("health", x)' <=> MayOpen("health", x))
        BY <1>1, <1>3 DEF StartMayOpen, MayOpen, Routines
    <2>3. One(StartMayOpen(x))' = One(StartMayOpen(x)) /\ One(MayOpen("health", x))' = One(MayOpen("health", x))
        BY <2>2 DEF One
    <2>4. Passing(x[1])' = Passing(x[1])
        BY <1>1, <2>1, StandStill DEF Passing, One, vars, procVars
    <2>5. UNCHANGED <<inc, isStarted, calmBoot>>
        BY <1>1 DEF vars, mainVars, procVars
    <2>6. isStarted => inc[x[1]] \in Processes
        BY <2>1, StartedFacts
    <2>7. /\ One(StartMayOpen(x)) \in {0, 1} /\ One(MayOpen("health", x)) \in {0, 1} /\ Passing(x[1]) \in Nat
          /\ \A m \in Processes : streams[x][m] \in Nat
        BY <1>1, PassingFacts
    <2>8. \A m \in Processes : streams'[x][m] \in Nat /\ streams'[x][m] <= streams[x][m]
        BY <1>2
    <2>9. isStarted => streams[x][inc[x[1]]] + One(StartMayOpen(x)) + One(MayOpen("health", x)) <= Passing(x[1])
        BY <2>1 DEF StreamInv
    <2>10. isStarted' => streams'[x][inc'[x[1]]] + One(StartMayOpen(x))' + One(MayOpen("health", x))' <= Passing(x[1])'
        BY <2>3, <2>4, <2>5, <2>6, <2>7, <2>8, <2>9
    <2>11. \A m \in Processes : m > inc'[x[1]] \/ ~isStarted' => streams'[x][m] = 0
        BY <2>1, <2>5, <2>7, <2>8 DEF StreamInv
    <2>12. \A m \in Processes : streams'[x][m] <= IF calmBoot' THEN IF m <= 2 THEN 1 ELSE 2 ELSE 3
        BY <2>1, <2>5, <2>7, <2>8 DEF StreamInv
    <2> QED
        BY <2>10, <2>11, <2>12 DEF StreamInv
<1> QED
    BY <1>1, <1>3, <1>4, <1>5, <1>6, <1>7, <1>8, <1>9, PassStep DEF Routines

-----------------------------------------------------------------------------
(* The passes                                                              *)

(* What every step of a goroutine in its pass has in common: it concerns   *)
(* that goroutine only, which goes on or ends the pass.                    *)
PassFrame(r) ==
    /\ Active(r)
    /\ UNCHANGED <<vars, calmBoot, toGenerate, dispatchConfig, filter>>
    /\ \A s \in Routines \ {r} :
          pc'[s] = pc[s] /\ todo'[s] = todo[s] /\ current'[s] = current[s] /\ got'[s] = got[s]
    /\ opened \subseteq opened'
    /\ \/ boot' = boot /\ Active(r)'
       \/ /\ ~Active(r)' /\ todo'[r] = {}
          /\ r = "start" => pc'[r] = "off" /\ boot' \in {"ready", "failed"}
          /\ r = "health" => pc'[r] = "idle" /\ boot' = boot

(* In a calm boot the two goroutines are never in a pass together.         *)
LEMMA PassAlone ==
    ASSUME BootInv, CalmInv, calmBoot, NEW r \in Routines, Active(r), NEW s \in Routines \ {r}
    PROVE  ~Active(s) /\ boot \in {"schedule", "ready"}
BY DEF BootInv, CalmInv, Active, Routines

LEMMA PassCover ==
    ASSUME SchedulerInv, NEW r \in Routines, PassFrame(r),
           \A b \in Bindings : ~Troubled(b[1]) /\ streams[b][client[b[1]]] >= 1 => streams'[b][client[b[1]]] >= 1,
           ASSUME calmBoot, boot' # "failed", NEW b \in Bindings, b[1] = dispatchConfig[b[2]], InPass(r, b)
           PROVE  Covered(b)'
    PROVE  CoverInv'
<1>1. /\ UNCHANGED <<vars, calmBoot, toGenerate, dispatchConfig, filter, client>> /\ Active(r)
      /\ opened \subseteq opened' /\ SchedulerTypeOK /\ BootInv /\ CalmInv
    BY DEF PassFrame, SchedulerInv, vars
<1> SUFFICES ASSUME calmBoot, ctx = "active", boot' \in {"schedule", "ready"}, NEW c \in Configs \ EndingConfigs
             PROVE  Covered(<<dispatchConfig[c], c>>)'
    BY <1>1 DEF CoverInv, vars, mainVars
<1>2. PICK s \in Routines : Routines = {r, s} /\ s # r
    BY DEF Routines
<1>3. ~Active(s) /\ boot \in {"schedule", "ready"}
    BY <1>1, <1>2, PassAlone
<1>4. toGenerate = {}
    BY <1>1, <1>3 DEF BootInv
<1>5. PICK b \in Bindings : b = <<dispatchConfig[c], c>> /\ b[1] = dispatchConfig[b[2]]
    BY <1>1, <1>4, Configured
<1>6. Covered(b)
    BY <1>3, <1>5 DEF SchedulerInv, CoverInv
<1>7. ~InPass(s, b) /\ (Troubled(b[1]) => Troubled(b[1])')
    BY <1>1, <1>3, SourceFacts, StandStill DEF InPass
<1>8. CASE InPass(r, b)
    BY <1>1, <1>5, <1>8
<1>9. CASE Troubled(b[1])
    BY <1>1, <1>5, <1>7, <1>9 DEF Covered
<1>10. CASE ~Troubled(b[1]) /\ b \in opened /\ streams[b][client[b[1]]] >= 1
    BY <1>1, <1>5, <1>10 DEF Covered
<1> QED
    BY <1>2, <1>6, <1>7, <1>8, <1>9, <1>10 DEF Covered

LEMMA PassInv ==
    ASSUME SchedulerInv, NEW r \in Routines, PassFrame(r), SchedulerTypeOK', RoutineInv(r)', CoverInv',
           r = "health" => GotInv', \A b \in Bindings : StreamInv(b)'
    PROVE  SchedulerInv'
<1>1. /\ UNCHANGED <<vars, main, isStarted, ctx, inc, informing, monPc, calmBoot, toGenerate, dispatchConfig, filter>>
      /\ Active(r) /\ BootInv /\ CalmInv
      /\ \A s \in Routines \ {r} :
            pc'[s] = pc[s] /\ todo'[s] = todo[s] /\ current'[s] = current[s] /\ got'[s] = got[s]
    BY DEF PassFrame, SchedulerInv, vars, mainVars, procVars, monVars
<1>2. \A s \in Routines \ {r} : Active(s)' <=> Active(s)
    BY <1>1 DEF Active
<1>3. /\ boot' = boot /\ Active(r)'
      \/ /\ ~Active(r)'
         /\ r = "start" => pc'[r] = "off" /\ boot' \in {"ready", "failed"}
         /\ r = "health" => pc'[r] = "idle" /\ boot' = boot
    BY DEF PassFrame
<1>4. Active("health")' => Active("health")
    BY <1>1, <1>2, <1>3 DEF Routines
<1>5. BootInv'
    <2>1. CASE r = "start"
        <3>1. boot = "schedule" /\ pc'["health"] = pc["health"] /\ (Active("health")' <=> Active("health"))
            BY <1>1, <1>2, <2>1 DEF BootInv, Active, Routines
        <3>2. CASE boot' = boot /\ Active("start")'
            BY <1>1, <3>1, <3>2 DEF BootInv
        <3>3. CASE pc'["start"] = "off" /\ boot' \in {"ready", "failed"}
            BY <1>1, <3>1, <3>3 DEF BootInv
        <3> QED
            BY <1>3, <2>1, <3>2, <3>3
    <2>2. CASE r = "health"
        <3>1. boot # "bots" /\ boot' = boot /\ pc'["start"] = pc["start"] /\ (Active("start")' <=> Active("start"))
            BY <1>1, <1>2, <1>3, <2>2 DEF BootInv, Active, Routines
        <3>2. Active("health")
            BY <1>1, <2>2
        <3> QED
            BY <1>1, <3>1, <3>2 DEF BootInv
    <2> QED
        BY <2>1, <2>2 DEF Routines
<1>6. CalmInv'
    <2> SUFFICES ASSUME calmBoot, boot' # "ready" PROVE CalmInv'
        BY <1>1 DEF CalmInv
    <2>1. CASE r = "health"
        BY <1>1, <1>3, <2>1 DEF CalmInv
    <2>2. CASE r = "start"
        <3>1. boot = "schedule" /\ boot' \in {"schedule", "failed"}
            BY <1>1, <1>3, <2>2 DEF BootInv, Active
        <3> QED
            BY <1>1, <1>4, <3>1 DEF CalmInv
    <2> QED
        BY <2>1, <2>2 DEF Routines
<1>7. ASSUME NEW s \in Routines \ {r} PROVE RoutineInv(s)'
    BY <1>1, <1>2 DEF SchedulerInv, RoutineInv, Passes
<1>8. GotInv'
    <2>1. CASE r = "health"
        BY <2>1
    <2>2. CASE r = "start"
        <3>1. pc'["health"] = pc["health"] /\ got'["health"] = got["health"]
            BY <1>1, <2>2 DEF Routines
        <3> QED
            BY <1>1, <3>1 DEF SchedulerInv, GotInv, HandledAt, vars, monVars
    <2> QED
        BY <2>1, <2>2 DEF Routines
<1> QED
    BY <1>1, <1>4, <1>5, <1>6, <1>7, <1>8, PassStep

(* A step that opens no stream, and leaves no more to open than before.    *)
LEMMA PassStill ==
    ASSUME SchedulerInv, NEW r \in Routines, PassFrame(r), UNCHANGED streams, NEW b \in Bindings,
           MayOpen(r, b)' => MayOpen(r, b)
    PROVE  StreamInv(b)'
<1>1. UNCHANGED <<vars, calmBoot, filter, streams>> /\ (boot' \in {"bots", "generate"} => boot' = boot)
    BY DEF PassFrame, Routines
<1>2. ASSUME NEW s \in Routines PROVE MayOpen(s, b)' => MayOpen(s, b)
    BY DEF PassFrame, MayOpen, Active
<1>3. StartMayOpen(b)' => StartMayOpen(b)
    BY <1>1, <1>2 DEF StartMayOpen, Routines
<1> QED
    BY <1>1, <1>2, <1>3, StreamStill DEF Routines

LEMMA SkipInv ==
    ASSUME SchedulerInv, NEW r \in Routines, Skip(r)
    PROVE  SchedulerInv'
<1> USE SourceFacts DEF bootVars
<1>1. /\ UNCHANGED <<vars, boot, calmBoot, toGenerate, dispatchConfig, opened, streams, pc, filter, current, got>>
      /\ pc[r] = "check" /\ SchedulerTypeOK /\ RoutineInv(r)
    BY DEF Skip, At, SchedulerInv
<1>2. PICK c \in todo[r] : /\ ~Passes(r, dispatchConfig[c]) \/ <<dispatchConfig[c], c>> \in opened
                           /\ todo' = [todo EXCEPT ![r] = @ \ {c}]
    BY DEF Skip
<1>3. todo'[r] = todo[r] \ {c} /\ \A s \in Routines \ {r} : todo'[s] = todo[s]
    BY <1>1, <1>2 DEF SchedulerTypeOK
<1>4. PassFrame(r)
    BY <1>1, <1>3 DEF PassFrame, Active
<1>5. SchedulerTypeOK'
    BY <1>1, <1>2, StandStill DEF SchedulerTypeOK, ManagerInv, IInv
<1>6. RoutineInv(r)'
    BY <1>1, <1>3 DEF RoutineInv, Active
<1>7. GotInv'
    BY <1>1 DEF SchedulerInv, GotInv, HandledAt, vars, monVars
<1>8. ASSUME NEW b \in Bindings PROVE StreamInv(b)'
    BY <1>1, <1>3, <1>4, PassStill DEF MayOpen, Active
<1>9. CoverInv'
    <2>1. ASSUME calmBoot, NEW b \in Bindings, InPass(r, b), b[1] = dispatchConfig[b[2]]
          PROVE  Covered(b)'
        <3>1. b[2] \in todo[r] /\ b \notin opened /\ Passes(r, b[1])
            BY <1>1, <2>1 DEF InPass
        <3>2. b[2] # c
            BY <1>2, <2>1, <3>1
        <3>3. InPass(r, b)'
            BY <1>1, <1>3, <3>1, <3>2 DEF InPass, Active, Passes
        <3> QED
            BY <3>3 DEF Covered
    <2> QED
        BY <1>1, <1>4, <2>1, PassCover DEF vars
<1> QED
    BY <1>4, <1>5, <1>6, <1>7, <1>8, <1>9, PassInv

LEMMA SelectInv ==
    ASSUME SchedulerInv, NEW r \in Routines, Select(r)
    PROVE  SchedulerInv'
<1> USE SourceFacts DEF bootVars
<1>1. /\ UNCHANGED <<vars, boot, calmBoot, toGenerate, dispatchConfig, opened, streams, filter, got>>
      /\ pc[r] = "check" /\ pc' = [pc EXCEPT ![r] = "get"]
      /\ SchedulerTypeOK /\ RoutineInv(r)
    BY DEF Select, At, SchedulerInv
<1>2. PICK c \in todo[r] : /\ Passes(r, dispatchConfig[c])
                           /\ current' = [current EXCEPT ![r] = <<dispatchConfig[c], c>>]
                           /\ todo' = [todo EXCEPT ![r] = @ \ {c}]
    BY DEF Select
<1>3. PICK x \in Bindings : x = <<dispatchConfig[c], c>> /\ x[1] = dispatchConfig[c] /\ x[2] = c
    <2>1. c \in Configs /\ dispatchConfig[c] # NoPlugin
        BY <1>1, <1>2 DEF SchedulerTypeOK, RoutineInv
    <2>2. dispatchConfig[c] \in Bound[c] /\ dispatchConfig[c] \in Sources
        BY <1>1, <2>1 DEF SchedulerTypeOK
    <2> QED
        BY <2>1, <2>2
<1>4. /\ todo'[r] = todo[r] \ {c} /\ current'[r] = x /\ pc'[r] = "get"
      /\ \A s \in Routines \ {r} : todo'[s] = todo[s] /\ current'[s] = current[s] /\ pc'[s] = pc[s]
    BY <1>1, <1>2, <1>3 DEF SchedulerTypeOK
<1>5. PassFrame(r)
    BY <1>1, <1>4 DEF PassFrame, Active
<1>6. SchedulerTypeOK'
    <2>1. TypeOK'
        BY <1>1, StandStill DEF ManagerInv, IInv
    <2>2. todo' \in [Routines -> SUBSET Configs] /\ current' \in [Routines -> Bindings \cup {NoBinding}]
        BY <1>1, <1>2, <1>3 DEF SchedulerTypeOK
    <2>3. pc' \in [Routines -> {"off", "idle", "check", "get", "open", "report", "exited"}]
        BY <1>1 DEF SchedulerTypeOK
    <2> QED
        BY <1>1, <2>1, <2>2, <2>3 DEF SchedulerTypeOK
<1>7. RoutineInv(r)'
    BY <1>1, <1>2, <1>3, <1>4 DEF RoutineInv, Active, Passes
<1>8. r = "health" => GotInv'
    BY <1>4 DEF GotInv
<1>9. ASSUME NEW b \in Bindings PROVE StreamInv(b)'
    <2>1. MayOpen(r, b)' => MayOpen(r, b)
        <3> SUFFICES ASSUME MayOpen(r, b)' PROVE MayOpen(r, b)
            OBVIOUS
        <3>1. Active(r) /\ (r = "health" => filter[r] = b[1])
            BY <1>1 DEF MayOpen, Active
        <3>2. b[2] \in todo[r]
            BY <1>2, <1>3, <1>4 DEF MayOpen
        <3> QED
            BY <3>1, <3>2 DEF MayOpen
    <2> QED
        BY <1>1, <1>5, <2>1, PassStill
<1>10. CoverInv'
    <2>1. ASSUME calmBoot, NEW b \in Bindings, InPass(r, b), b[1] = dispatchConfig[b[2]]
          PROVE  Covered(b)'
        <3>1. b[2] \in todo[r] /\ b \notin opened /\ Passes(r, b[1])
            BY <1>1, <2>1 DEF InPass
        <3>2. b[2] = c => b = x
            BY <1>3, <2>1
        <3>3. InPass(r, b)'
            BY <1>1, <1>4, <3>1, <3>2 DEF InPass, Active, Passes
        <3> QED
            BY <3>3 DEF Covered
    <2> QED
        BY <1>1, <1>5, <2>1, PassCover DEF vars
<1> QED
    BY <1>5, <1>6, <1>7, <1>8, <1>9, <1>10, PassInv

LEMMA GetSourceInv ==
    ASSUME SchedulerInv, NEW r \in Routines, GetSource(r)
    PROVE  SchedulerInv'
<1> DEFINE x == current[r]
           p == x[1]
<1> USE SourceFacts DEF bootVars
<1>1. /\ UNCHANGED <<vars, boot, calmBoot, toGenerate, dispatchConfig, opened, streams, todo, filter, current>>
      /\ pc[r] = "get" /\ pc' = [pc EXCEPT ![r] = "open"] /\ got' = [got EXCEPT ![r] = client[p]]
      /\ isStarted /\ client[p] # 0
      /\ SchedulerTypeOK /\ RoutineInv(r) /\ ManagerInv /\ BootInv
    BY DEF GetSource, At, SchedulerInv
<1>2. x \in Bindings /\ p \in Sources /\ Passes(r, p)
    BY <1>1 DEF RoutineInv
<1>3. client[p] \in Processes
    BY <1>1, <1>2, StartedFacts
<1>4. /\ got'[r] = client[p] /\ pc'[r] = "open"
      /\ \A s \in Routines \ {r} : got'[s] = got[s] /\ pc'[s] = pc[s]
    BY <1>1 DEF SchedulerTypeOK
<1>5. PassFrame(r)
    BY <1>1, <1>4 DEF PassFrame, Active
<1>6. SchedulerTypeOK'
    <2>1. TypeOK'
        BY <1>1, StandStill DEF ManagerInv, IInv
    <2>2. got' \in [Routines -> {0} \cup Processes]
        BY <1>1, <1>3 DEF SchedulerTypeOK
    <2>3. pc' \in [Routines -> {"off", "idle", "check", "get", "open", "report", "exited"}]
        BY <1>1 DEF SchedulerTypeOK
    <2> QED
        BY <1>1, <2>1, <2>2, <2>3 DEF SchedulerTypeOK
<1>7. RoutineInv(r)'
    BY <1>1, <1>3, <1>4 DEF RoutineInv, Active, Passes, vars, mainVars
<1>8. r = "health" => GotInv'
    <2> SUFFICES ASSUME r = "health" PROVE GotInv'
        OBVIOUS
    <2>1. filter["health"] = p
        BY <1>1, <1>2 DEF Passes, BootInv, Active
    <2> QED
        BY <1>1, <1>4, <2>1 DEF GotInv, vars
<1>9. ASSUME NEW b \in Bindings PROVE StreamInv(b)'
    <2>1. MayOpen(r, b)' => MayOpen(r, b)
        BY <1>1, <1>4 DEF MayOpen, Active
    <2> QED
        BY <1>1, <1>5, <2>1, PassStill
<1>10. CoverInv'
    <2>1. ASSUME NEW b \in Bindings, InPass(r, b)
          PROVE  Covered(b)'
        <3>1. InPass(r, b)'
            BY <1>1, <1>4, <2>1 DEF InPass, Active, Passes, vars
        <3> QED
            BY <3>1 DEF Covered
    <2> QED
        BY <1>1, <1>5, <2>1, PassCover DEF vars
<1> QED
    BY <1>5, <1>6, <1>7, <1>8, <1>9, <1>10, PassInv

(* A pass that ends with an error: that of Start is not covered, and the   *)
(* other one gives up on a plugin in trouble only.                         *)
LEMMA FailPassInv ==
    ASSUME SchedulerInv, NEW r \in Routines, Active(r), FailPass(r),
           r = "health" => Troubled(filter["health"])
    PROVE  SchedulerInv'
<1> USE SourceFacts
<1>1. /\ UNCHANGED <<vars, calmBoot, toGenerate, dispatchConfig, opened, streams, filter, current, got>>
      /\ pc' = [pc EXCEPT ![r] = IF r = "health" THEN "idle" ELSE "off"]
      /\ todo' = [todo EXCEPT ![r] = {}]
      /\ boot' = IF r = "start" THEN "failed" ELSE boot
      /\ SchedulerTypeOK /\ BootInv
    BY DEF FailPass, SchedulerInv
<1>2. /\ pc'[r] = (IF r = "health" THEN "idle" ELSE "off") /\ todo'[r] = {}
      /\ \A s \in Routines \ {r} : todo'[s] = todo[s] /\ pc'[s] = pc[s]
    BY <1>1 DEF SchedulerTypeOK
<1>3. ~Active(r)'
    BY <1>2 DEF Active
<1>4. PassFrame(r)
    BY <1>1, <1>2, <1>3 DEF PassFrame
<1>5. SchedulerTypeOK'
    <2>1. TypeOK'
        BY <1>1, StandStill DEF ManagerInv, IInv
    <2>2. todo' \in [Routines -> SUBSET Configs] /\ boot' \in BootPhases
        BY <1>1 DEF SchedulerTypeOK, BootPhases
    <2>3. pc' \in [Routines -> {"off", "idle", "check", "get", "open", "report", "exited"}]
        BY <1>1 DEF SchedulerTypeOK
    <2> QED
        BY <1>1, <2>1, <2>2, <2>3 DEF SchedulerTypeOK
<1>6. RoutineInv(r)'
    BY <1>2, <1>3 DEF RoutineInv, Active
<1>7. r = "health" => GotInv'
    BY <1>2 DEF GotInv
<1>8. ASSUME NEW b \in Bindings PROVE StreamInv(b)'
    <2>1. ~MayOpen(r, b)'
        BY <1>3 DEF MayOpen
    <2> QED
        BY <1>1, <1>4, <2>1, PassStill
<1>9. CoverInv'
    <2>1. ASSUME boot' # "failed", NEW b \in Bindings, InPass(r, b)
          PROVE  Covered(b)'
        <3>1. r = "health" /\ filter["health"] \in Sources
            BY <1>1, <2>1 DEF Routines, BootInv
        <3>2. b[1] = filter["health"]
            BY <2>1, <3>1 DEF InPass, Passes
        <3>3. Troubled(b[1])'
            BY <1>1, <3>1, <3>2, StandStill
        <3> QED
            BY <3>3 DEF Covered
    <2> QED
        BY <1>1, <1>4, <2>1, PassCover DEF vars
<1> QED
    BY <1>4, <1>5, <1>6, <1>7, <1>8, <1>9, PassInv

LEMMA FailsInv ==
    ASSUME SchedulerInv, NEW r \in Routines, GetSourceFails(r) \/ OpenStreamFails(r)
    PROVE  SchedulerInv'
<1> USE SourceFacts
<1>1. FailPass(r) /\ pc[r] \in {"get", "open"} /\ RoutineInv(r) /\ BootInv /\ ManagerInv /\ Active(r)
    BY DEF GetSourceFails, OpenStreamFails, At, SchedulerInv, Active
<1>2. ASSUME r = "health" PROVE Troubled(filter["health"])
    <2>1. isStarted /\ filter["health"] \in Sources /\ current[r][1] = filter["health"]
        BY <1>1, <1>2 DEF BootInv, RoutineInv, Passes
    <2>2. 0 \notin live[filter["health"]]
        BY <1>1, <2>1, StartedFacts
    <2>3. CASE GetSourceFails(r)
        BY <2>1, <2>2, <2>3 DEF GetSourceFails, Troubled
    <2>4. CASE OpenStreamFails(r)
        <3>1. pc["health"] = "open" /\ got["health"] \notin live[filter["health"]]
            BY <1>2, <2>1, <2>4 DEF OpenStreamFails, At
        <3>2. \/ got["health"] = client[filter["health"]] \/ client[filter["health"]] = 0
              \/ HandledAt(filter["health"], {"notify"})
            BY <3>1 DEF SchedulerInv, GotInv
        <3> QED
            BY <2>2, <3>1, <3>2 DEF Troubled, HandledAt
    <2> QED
        BY <2>3, <2>4
<1> QED
    BY <1>1, <1>2, FailPassInv

LEMMA ReportStartedInv ==
    ASSUME SchedulerInv, NEW r \in Routines, ReportStarted(r)
    PROVE  SchedulerInv'
<1> DEFINE x == current[r]
<1> USE SourceFacts DEF bootVars
<1>1. /\ UNCHANGED <<vars, boot, calmBoot, toGenerate, dispatchConfig, streams, todo, filter, current, got>>
      /\ pc[r] = "report" /\ pc' = [pc EXCEPT ![r] = "check"]
      /\ opened' = opened \cup {x}
      /\ SchedulerTypeOK /\ RoutineInv(r)
    BY DEF ReportStarted, At, SchedulerInv
<1>2. pc'[r] = "check" /\ \A s \in Routines \ {r} : pc'[s] = pc[s]
    BY <1>1 DEF SchedulerTypeOK
<1>3. PassFrame(r)
    BY <1>1, <1>2 DEF PassFrame, Active
<1>4. x \in Bindings /\ x[2] \notin todo[r]
    BY <1>1 DEF RoutineInv
<1>5. SchedulerTypeOK'
    <2>1. TypeOK'
        BY <1>1, StandStill DEF ManagerInv, IInv
    <2>2. pc' \in [Routines -> {"off", "idle", "check", "get", "open", "report", "exited"}]
        BY <1>1 DEF SchedulerTypeOK
    <2>3. opened' \subseteq Bindings
        BY <1>1, <1>4 DEF SchedulerTypeOK
    <2> QED
        BY <1>1, <2>1, <2>2, <2>3 DEF SchedulerTypeOK
<1>6. RoutineInv(r)'
    BY <1>1, <1>2 DEF RoutineInv, Active
<1>7. r = "health" => GotInv'
    BY <1>2 DEF GotInv
<1>8. ASSUME NEW b \in Bindings PROVE StreamInv(b)'
    <2>1. MayOpen(r, b)' => MayOpen(r, b)
        BY <1>1, <1>2 DEF MayOpen, Active
    <2> QED
        BY <1>1, <1>3, <2>1, PassStill
<1>9. CoverInv'
    <2>1. ASSUME NEW b \in Bindings, InPass(r, b)
          PROVE  Covered(b)'
        <3>1. CASE b = x
            <4>1. streams[b][client[b[1]]] >= 1
                BY <1>1, <1>4, <2>1, <3>1 DEF InPass
            <4> QED
                BY <1>1, <3>1, <4>1 DEF Covered, vars
        <3>2. CASE b # x
            <4>1. InPass(r, b)'
                BY <1>1, <1>2, <2>1, <3>2 DEF InPass, Active, Passes
            <4> QED
                BY <4>1 DEF Covered
        <3> QED
            BY <3>1, <3>2
    <2> QED
        BY <1>1, <1>3, <2>1, PassCover DEF vars
<1> QED
    BY <1>3, <1>5, <1>6, <1>7, <1>8, <1>9, PassInv

LEMMA EndPassInv ==
    ASSUME SchedulerInv, NEW r \in Routines, EndPass(r)
    PROVE  SchedulerInv'
<1> USE SourceFacts
<1>1. /\ UNCHANGED <<vars, calmBoot, toGenerate, dispatchConfig, opened, streams, todo, filter, current, got>>
      /\ pc[r] = "check" /\ todo[r] = {}
      /\ pc' = [pc EXCEPT ![r] = IF r = "health" THEN "idle" ELSE "off"]
      /\ boot' = IF r = "start" THEN "ready" ELSE boot
      /\ SchedulerTypeOK /\ RoutineInv(r)
    BY DEF EndPass, At, SchedulerInv
<1>2. /\ pc'[r] = (IF r = "health" THEN "idle" ELSE "off") /\ todo'[r] = {}
      /\ \A s \in Routines \ {r} : pc'[s] = pc[s]
    BY <1>1 DEF SchedulerTypeOK
<1>3. ~Active(r)' /\ Active(r)
    BY <1>1, <1>2 DEF Active
<1>4. PassFrame(r)
    BY <1>1, <1>2, <1>3 DEF PassFrame
<1>5. SchedulerTypeOK'
    <2>1. TypeOK' /\ boot' \in BootPhases
        BY <1>1, StandStill DEF ManagerInv, IInv, SchedulerTypeOK, BootPhases
    <2>2. pc' \in [Routines -> {"off", "idle", "check", "get", "open", "report", "exited"}]
        BY <1>1 DEF SchedulerTypeOK
    <2> QED
        BY <1>1, <2>1, <2>2 DEF SchedulerTypeOK
<1>6. RoutineInv(r)'
    BY <1>2, <1>3 DEF RoutineInv, Active
<1>7. r = "health" => GotInv'
    BY <1>2 DEF GotInv
<1>8. ASSUME NEW b \in Bindings PROVE StreamInv(b)'
    <2>1. ~MayOpen(r, b)'
        BY <1>3 DEF MayOpen
    <2> QED
        BY <1>1, <1>4, <2>1, PassStill
<1>9. CoverInv'
    <2>1. \A b \in Bindings : ~InPass(r, b)
        BY <1>1 DEF InPass
    <2> QED
        BY <1>1, <1>4, <2>1, PassCover DEF vars
<1> QED
    BY <1>4, <1>5, <1>6, <1>7, <1>8, <1>9, PassInv

(* The process a pass opens a stream of is the present one of the plugin:  *)
(* it is the one whose stream the pass had still to open.                  *)
LEMMA OpenStreamInv ==
    ASSUME SchedulerInv, NEW r \in Routines, OpenStream(r)
    PROVE  SchedulerInv'
<1> DEFINE x == current[r]
           p == x[1]
           n == got[r]
<1> USE SourceFacts DEF bootVars
<1>1. /\ UNCHANGED <<vars, boot, calmBoot, toGenerate, dispatchConfig, opened, todo, filter, current, got>>
      /\ pc[r] = "open" /\ pc' = [pc EXCEPT ![r] = "report"]
      /\ n \in live[p]
      /\ streams' = [streams EXCEPT ![x][n] = @ + 1]
      /\ SchedulerTypeOK /\ RoutineInv(r) /\ ManagerInv /\ BootInv
    BY DEF OpenStream, At, SchedulerInv
<1>2. x \in Bindings /\ p \in Sources /\ x[2] \notin todo[r] /\ Passes(r, p) /\ isStarted /\ n \in Processes
    BY <1>1 DEF RoutineInv
<1>3. n = inc[p] /\ client[p] \in {0, n} /\ 0 \notin live[p]
    BY <1>1, <1>2, StartedFacts
<1>4. pc'[r] = "report" /\ \A s \in Routines \ {r} : pc'[s] = pc[s]
    BY <1>1 DEF SchedulerTypeOK
<1>5. PassFrame(r)
    BY <1>1, <1>4 DEF PassFrame, Active
<1>6. /\ streams' \in [Bindings -> [Processes -> Nat]]
      /\ \A b \in Bindings \ {x} : streams'[b] = streams[b]
      /\ \A m \in Processes \ {n} : streams'[x][m] = streams[x][m]
      /\ streams'[x][n] = streams[x][n] + 1
    BY <1>1, <1>2 DEF SchedulerTypeOK
<1>7. SchedulerTypeOK'
    <2>1. TypeOK'
        BY <1>1, StandStill DEF ManagerInv, IInv
    <2>2. pc' \in [Routines -> {"off", "idle", "check", "get", "open", "report", "exited"}]
        BY <1>1 DEF SchedulerTypeOK
    <2> QED
        BY <1>1, <1>6, <2>1, <2>2 DEF SchedulerTypeOK
<1>8. RoutineInv(r)'
    BY <1>1, <1>4 DEF RoutineInv, Active, Passes, vars, mainVars
<1>9. r = "health" => GotInv'
    BY <1>4 DEF GotInv
<1>10. Passing(p) <= (IF calmBoot THEN IF n <= 2 THEN 1 ELSE 2 ELSE 3)
    BY <1>2, <1>3 DEF Passing, One, Processes
<1>11. MayOpen(r, x) /\ ~MayOpen(r, x)' /\ \A s \in Routines \ {r} : MayOpen(s, x)' <=> MayOpen(s, x)
    <2>1. r = "health" => filter[r] = p
        BY <1>1, <1>2 DEF Passes, BootInv, Active
    <2> QED
        BY <1>1, <1>2, <1>4, <2>1 DEF MayOpen, Active
<1>12. r = "start" => boot = "schedule"
    BY <1>1 DEF BootInv
<1>13. UNCHANGED <<isStarted, inc, calmBoot>> /\ Passing(p)' = Passing(p)
    BY <1>1, <1>2, StandStill DEF vars, mainVars, procVars, Passing, One
<1>14. StreamInv(x)'
    <2> DEFINE S == One(StartMayOpen(x))
               H == One(MayOpen("health", x))
               S2 == One(StartMayOpen(x))'
               H2 == One(MayOpen("health", x))'
    <2>1. StreamInv(x)
        BY <1>2 DEF SchedulerInv
    <2>2. /\ S \in {0, 1} /\ H \in {0, 1} /\ Passing(p) \in Nat
          /\ \A m \in Processes : streams[x][m] \in Nat
        BY <1>1, <1>2, PassingFacts
    <2>3. S2 \in {0, 1} /\ H2 \in {0, 1}
        BY DEF One
    <2>4. S2 + H2 + 1 = S + H
        <3>1. CASE r = "start"
            <4>1. StartMayOpen(x) /\ ~StartMayOpen(x)' /\ (MayOpen("health", x)' <=> MayOpen("health", x))
                BY <1>1, <1>11, <1>12, <3>1 DEF StartMayOpen, Routines
            <4>2. S = 1 /\ S2 = 0 /\ H2 = H
                BY <4>1 DEF One
            <4> HIDE DEF S, S2, H, H2
            <4> QED
                BY <2>2, <4>2
        <3>2. CASE r = "health"
            <4>1. MayOpen("health", x) /\ ~MayOpen("health", x)' /\ (StartMayOpen(x)' <=> StartMayOpen(x))
                BY <1>1, <1>11, <3>2 DEF StartMayOpen, Routines
            <4>2. H = 1 /\ H2 = 0 /\ S2 = S
                BY <4>1 DEF One
            <4> HIDE DEF S, S2, H, H2
            <4> QED
                BY <2>2, <4>2
        <3> QED
            BY <3>1, <3>2 DEF Routines
    <2>5. streams[x][n] + S + H <= Passing(p)
        BY <1>2, <1>3, <2>1 DEF StreamInv
    <2>6. streams'[x][n] + S2 + H2 <= Passing(p)
        <3> HIDE DEF S, S2, H, H2, x, p, n
        <3> QED
            BY <1>2, <1>6, <2>2, <2>3, <2>4, <2>5
    <2>7. streams'[x][n] <= (IF calmBoot THEN IF n <= 2 THEN 1 ELSE 2 ELSE 3)
        <3> HIDE DEF S, S2, H, H2, x, p
        <3>1. streams'[x][n] <= Passing(p)
            BY <1>2, <1>6, <2>2, <2>3, <2>6
        <3> HIDE DEF n
        <3> QED
            BY <1>2, <1>6, <1>10, <2>2, <3>1
    <2>8. \A m \in Processes : streams'[x][m] <= IF calmBoot' THEN IF m <= 2 THEN 1 ELSE 2 ELSE 3
        BY <1>6, <1>13, <2>1, <2>7 DEF StreamInv
    <2>9. ASSUME NEW m \in Processes, m > inc'[p] \/ ~isStarted'
          PROVE  streams'[x][m] = 0
        <3>1. m > inc[p] /\ m # n
            BY <1>2, <1>3, <1>13, <2>9 DEF Processes
        <3>2. streams[x][m] = 0
            BY <2>1, <3>1 DEF StreamInv
        <3> QED
            BY <1>6, <3>1, <3>2
    <2>10. isStarted' => streams'[x][inc'[p]] + S2 + H2 <= Passing(p)'
        BY <1>3, <1>13, <2>6
    <2> QED
        BY <1>1, <2>8, <2>9, <2>10 DEF StreamInv
<1>15. ASSUME NEW b \in Bindings, b # x PROVE StreamInv(b)'
    <2>1. StreamInv(b) /\ b[1] \in Sources
        BY DEF SchedulerInv
    <2>2. \A s \in Routines : MayOpen(s, b)' <=> MayOpen(s, b)
        BY <1>1, <1>4, <1>15 DEF MayOpen, Active
    <2>3. One(StartMayOpen(b))' = One(StartMayOpen(b)) /\ One(MayOpen("health", b))' = One(MayOpen("health", b))
        BY <1>1, <2>2 DEF One, StartMayOpen, Routines
    <2>4. Passing(b[1])' = Passing(b[1])
        BY <1>1, <1>13, <2>1, StandStill DEF Passing, One
    <2> QED
        BY <1>6, <1>13, <1>15, <2>1, <2>3, <2>4 DEF StreamInv
<1>16. CoverInv'
    <2>1. ASSUME NEW b \in Bindings, InPass(r, b)
          PROVE  Covered(b)'
        <3>1. CASE b = x
            <4>1. n = client[p]
                BY <1>1, <1>2, <2>1, <3>1 DEF InPass
            <4>2. streams'[x][client'[p]] >= 1
                BY <1>1, <1>2, <1>6, <4>1 DEF vars, SchedulerTypeOK
            <4>3. InPass(r, b)'
                BY <1>1, <1>4, <2>1, <3>1, <4>2 DEF InPass, Active, Passes
            <4> QED
                BY <4>3 DEF Covered
        <3>2. CASE b # x
            <4>1. InPass(r, b)'
                BY <1>1, <1>4, <2>1, <3>2 DEF InPass, Active, Passes
            <4> QED
                BY <4>1 DEF Covered
        <3> QED
            BY <3>1, <3>2
    <2>2. ASSUME NEW b \in Bindings, ~Troubled(b[1]), streams[b][client[b[1]]] >= 1
          PROVE  streams'[b][client[b[1]]] >= 1
        <3>1. CASE b # x
            BY <1>6, <2>2, <3>1
        <3>2. CASE b = x
            <4>1. client[p] = n
                BY <1>3, <2>2, <3>2 DEF Troubled
            <4>2. streams[x][n] \in Nat /\ streams[x][n] >= 1
                BY <1>1, <1>2, <2>2, <3>2, <4>1 DEF SchedulerTypeOK
            <4> QED
                BY <1>6, <3>2, <4>1, <4>2
        <3> QED
            BY <3>1, <3>2
    <2> QED
        BY <1>5, <2>1, <2>2, PassCover
<1>17. \A b \in Bindings : StreamInv(b)'
    <2> SUFFICES ASSUME NEW b \in Bindings PROVE StreamInv(b)'
        OBVIOUS
    <2>1. CASE b = x
        BY <1>1, <1>14, <2>1 DEF StreamInv, StartMayOpen, MayOpen, Passing, One, Active, Unannounced, HandledAt
    <2>2. CASE b # x
        BY <1>15, <2>2
    <2> QED
        BY <2>1, <2>2
<1> QED
    BY <1>5, <1>7, <1>8, <1>9, <1>16, <1>17, PassInv

-----------------------------------------------------------------------------
(* The specification                                                       *)

LEMMA SchedulerInvInit == SchedulerInit => SchedulerInv
<1> SUFFICES ASSUME SchedulerInit PROVE SchedulerInv
    OBVIOUS
<1> USE SourceFacts DEF SchedulerInit
<1>1. ManagerInv
    BY IInvInit DEF ManagerInv, LoadedInv, Init
<1>2. SchedulerTypeOK
    BY <1>1 DEF SchedulerTypeOK, BootPhases, ManagerInv, IInv
<1>3. \A r \in Routines : ~Active(r)
    BY DEF Active
<1>4. BootInv /\ CalmInv /\ GotInv /\ CoverInv
    BY <1>3 DEF BootInv, CalmInv, GotInv, CoverInv, Init, Kinds, Routines
<1>5. \A r \in Routines : RoutineInv(r)
    BY <1>3 DEF RoutineInv
<1>6. \A p \in Sources : AnnouncedInv(p)
    BY <1>3 DEF AnnouncedInv, Unannounced, HandledAt, Init, Kinds, Routines
<1>7. \A b \in Bindings : StreamInv(b)
    BY DEF StreamInv, Init
<1> QED
    BY <1>1, <1>2, <1>4, <1>5, <1>6, <1>7 DEF SchedulerInv

LEMMA SchedulerInvStep == SchedulerInv /\ [SchedulerNext]_allVars => SchedulerInv'
<1> SUFFICES ASSUME SchedulerInv, [SchedulerNext]_allVars PROVE SchedulerInv'
    OBVIOUS
<1>1. CASE ManagerStep \/ (\E p \in Plugins : \E n \in 1..inc[p] : ProcessFails(p, n)) \/ ConcurrentMapFault
    BY <1>1, ManagerStepInv
<1>2. CASE Boot
    BY <1>2, NewSchedulerInv, GeneratePluginConfigInv, ScheduleAllInv DEF Boot
<1>3. CASE ReceiveRestarted \/ HealthExits
    BY <1>3, ReceiveRestartedInv, HealthExitsInv
<1>4. ASSUME NEW r \in Routines, ScheduleStep(r)
      PROVE  SchedulerInv'
    BY <1>4, SkipInv, SelectInv, GetSourceInv, FailsInv, OpenStreamInv, ReportStartedInv, EndPassInv DEF ScheduleStep
<1>5. CASE \E b \in Bindings, n \in Processes : EndStream(b, n)
    BY <1>5, EndStreamInv
<1>6. CASE UNCHANGED allVars
    <2>1. UNCHANGED <<vars, booted, calmBoot>>
        BY <1>6 DEF allVars, schedulerVars, bootVars, booted, routineVars
    <2>2. ManagerInv'
        BY <2>1, StandStill
    <2>3. (\A p \in Sources : AnnouncedInv(p)') /\ \A b \in Bindings : StreamInv(b)'
        <3>1. \A b \in Bindings : StreamInv(b)'
            BY <2>1, StreamStill DEF StartMayOpen, MayOpen, Active, booted, routineVars
        <3>2. \A p \in Sources : AnnouncedInv(p)'
            BY <2>1, StandStill DEF SchedulerInv, AnnouncedInv, Active, booted, routineVars, vars, procVars
        <3> QED
            BY <3>1, <3>2
    <2>4. SchedulerTypeOK' /\ BootInv' /\ CalmInv'
        BY <2>1, <2>2 DEF SchedulerInv, SchedulerTypeOK, BootInv, CalmInv, Active, ManagerInv, IInv, booted,
            routineVars, vars, mainVars, monVars, procVars
    <2>5. \A r \in Routines : RoutineInv(r)'
        BY <2>1 DEF SchedulerInv, RoutineInv, Active, Passes, booted, routineVars, vars, mainVars
    <2>6. GotInv'
        BY <2>1 DEF SchedulerInv, GotInv, HandledAt, booted, routineVars, vars, monVars
    <2>7. CoverInv'
        BY <2>1 DEF SchedulerInv, CoverInv, Covered, Troubled, InPass, Active, Passes, HandledAt, booted,
            routineVars, vars, mainVars, monVars, procVars
    <2> QED
        BY <2>2, <2>3, <2>4, <2>5, <2>6, <2>7 DEF SchedulerInv
<1> QED
    BY <1>1, <1>2, <1>3, <1>4, <1>5, <1>6 DEF SchedulerNext

LEMMA SchedulerInvHolds == SchedulerSafetySpec => []SchedulerInv
<1>1. SchedulerInit => SchedulerInv
    BY SchedulerInvInit
<1>2. SchedulerInv /\ [SchedulerNext]_allVars => SchedulerInv'
    BY SchedulerInvStep
<1> QED
    BY <1>1, <1>2, PTL DEF SchedulerSafetySpec

(* Type correctness of the composition of scheduler and manager.           *)
THEOREM SchedulerTypeCorrect == SchedulerSafetySpec => []SchedulerTypeOK
<1>1. SchedulerInv => SchedulerTypeOK
    BY DEF SchedulerInv
<1> QED
    BY <1>1, SchedulerInvHolds, PTL

(* openedStreams, the plugin filter of schedule and the blocking send of   *)
(* the health monitor bound how often one process serves a configuration,  *)
(* for every number of plugins, configurations and restarts.               *)
THEOREM BoundedStreamsHolds == SchedulerSafetySpec => []BoundedStreams
<1>1. SchedulerInv => BoundedStreams
    <2> SUFFICES ASSUME SchedulerInv, NEW b \in Bindings, NEW n \in Processes
                 PROVE  streams[b][n] <= IF calmBoot THEN 2 ELSE 3
        BY DEF BoundedStreams
    <2>1. streams[b][n] \in Nat /\ streams[b][n] <= IF calmBoot THEN IF n <= 2 THEN 1 ELSE 2 ELSE 3
        BY DEF SchedulerInv, SchedulerTypeOK, StreamInv
    <2> QED
        BY <2>1
<1> QED
    BY <1>1, SchedulerInvHolds, PTL

(* After a boot without failures the process that replaces the first one   *)
(* of a plugin serves each configuration once, however the pass of Start,  *)
(* the passes of monitorHealth and the restarts interleave.                *)
THEOREM DuplicateTakesTwoRestartsHolds == SchedulerSafetySpec => []DuplicateTakesTwoRestarts
<1>1. SchedulerInv => DuplicateTakesTwoRestarts
    <2> SUFFICES ASSUME SchedulerInv, calmBoot, NEW b \in Bindings, NEW n \in Processes, streams[b][n] > 1
                 PROVE  n > 2
        BY DEF DuplicateTakesTwoRestarts
    <2>1. streams[b][n] \in Nat /\ n \in Nat /\ streams[b][n] <= IF n <= 2 THEN 1 ELSE 2
        BY SourceFacts DEF SchedulerInv, SchedulerTypeOK, StreamInv
    <2> QED
        BY <2>1
<1> QED
    BY <1>1, SchedulerInvHolds, PTL

(* However the restarts announced by the health monitor overlap with the   *)
(* passes of schedule, no configuration is left without a stream from the  *)
(* present process of its plugin when nothing is on its way any more.      *)
THEOREM NoSilentSourceHolds == SchedulerSafetySpec => []NoSilentSource
<1>1. SchedulerInv => NoSilentSource
    <2> SUFFICES ASSUME SchedulerInv, Quiescent, calmBoot, NEW c \in Configs \ EndingConfigs,
                        client[dispatchConfig[c]] # 0
                 PROVE  /\ <<dispatchConfig[c], c>> \in opened
                        /\ streams[<<dispatchConfig[c], c>>][client[dispatchConfig[c]]] >= 1
        BY DEF NoSilentSource
    <2>1. /\ boot = "ready" /\ ctx = "active" /\ pc["health"] = "idle" /\ monPc["source"] = "idle"
          /\ \A p \in Sources : informing[p] = {} /\ client[p] \in live[p] \cup {0}
          /\ SchedulerTypeOK /\ BootInv
        BY DEF Quiescent, SchedulerInv
    <2>2. toGenerate = {} /\ pc["start"] = "off"
        BY <2>1 DEF BootInv
    <2>3. PICK b \in Bindings : b = <<dispatchConfig[c], c>> /\ b[1] = dispatchConfig[c] /\ b[1] \in Sources
        BY <2>1, <2>2, Configured
    <2>4. Covered(b)
        BY <2>1, <2>3 DEF SchedulerInv, CoverInv
    <2>5. ~Troubled(b[1])
        BY <2>1, <2>3, SourceFacts DEF Troubled, HandledAt
    <2>6. \A r \in Routines : ~InPass(r, b)
        BY <2>1, <2>2 DEF InPass, Active, Routines
    <2> QED
        BY <2>3, <2>4, <2>5, <2>6 DEF Covered
<1> QED
    BY <1>1, SchedulerInvHolds, PTL
=============================================================================
