------------------------ MODULE PluginManager_proofs ------------------------
(***************************************************************************)
(* Proofs about PluginManager for every set of plugins, every threshold    *)
(* and every restart policy.                                               *)
(***************************************************************************)
EXTENDS PluginManager, TLAPS

\* How far the main goroutine is, what has been created by then, and when the
\* monitors run.
StartInv ==
    /\ ~isStarted => \A k \in Kinds : monPc[k] = "off"
    /\ isStarted => ~forced /\ main \notin {"executors", "sources", "supervise"}
    /\ main = "supervise" => ~forced
    /\ ~forced /\ main = "executors" => \A p \in Plugins : inc[p] = 0
    /\ ~forced /\ main = "sources" => \A p \in Plugins : KindOf[p] = "source" => inc[p] = 0

\* All that exists of a plugin belongs to its last process; while the monitor
\* handles it, what was there before is gone step by step; a plugin that has
\* no client and is not about to get one has nothing left.
ProcessInv(p) ==
    /\ watcher[p] \subseteq {inc[p]} \ {0}
    /\ informing[p] \subseteq {inc[p]} \ {0}
    /\ live[p] \subseteq {inc[p]} \ {0}
    /\ client[p] \in {0, inc[p]}
    /\ watcher[p] \cap informing[p] = {}
    /\ HandledAt(p, {"release", "delete", "count", "increment", "create"}) =>
         watcher[p] = {} /\ informing[p] = {}
    /\ HandledAt(p, {"delete", "count", "increment", "create"}) => live[p] = {}
    /\ HandledAt(p, {"count", "increment", "create", "insert"}) => client[p] = 0
    /\ HandledAt(p, {"release", "delete"}) => client[p] # 0
    /\ client[p] = 0 /\ ~HandledAt(p, {"insert"}) =>
         live[p] = {} /\ watcher[p] = {} /\ informing[p] = {}

\* Every restart so far was counted before the count was read again.
BudgetInv(p) ==
    /\ inc[p] <= restarts[KeyOf[p]] + 1
    /\ inc[p] <= Threshold + 1
    /\ HandledAt(p, {"increment"}) =>
         /\ inc[p] <= monCount[KindOf[p]] + 1
         /\ monCount[KindOf[p]] <= restarts[KeyOf[p]]
    /\ HandledAt(p, {"create"}) /\ main # "exited" =>
         inc[p] <= restarts[KeyOf[p]] /\ inc[p] <= Threshold

\* A process that is, or is about to be, in the store has its watcher.
SupervisedInv(p) ==
    ctx = "active" =>
        /\ client[p] # 0 =>
             client[p] \in watcher[p] \cup informing[p] \/ HandledAt(p, {"release", "delete"})
        /\ HandledAt(p, {"insert"}) => inc[p] \in watcher[p] \cup informing[p]

PluginInv(p) == ProcessInv(p) /\ BudgetInv(p) /\ SupervisedInv(p)

IInv ==
    /\ TypeOK
    /\ StartInv
    /\ ~forced => \A p \in Plugins : PluginInv(p)

-----------------------------------------------------------------------------

LEMMA KindFacts == /\ \A p \in Plugins : KindOf[p] \in Kinds /\ KeyOf[p] \in Keys
                   /\ "source" \in Kinds /\ "executor" \in Kinds
BY PluginsAssumption DEF Kinds

LEMMA TypeInit == Init => TypeOK
<1> SUFFICES ASSUME Init PROVE TypeOK
    OBVIOUS
<1> USE DEF Init
<1>1. main \in MainPcs /\ forced \in BOOLEAN /\ isStarted \in BOOLEAN /\ ctx \in {"active", "cancelled"}
    BY DEF MainPcs
<1>2. /\ inc \in [Plugins -> Nat] /\ client \in [Plugins -> Nat] /\ closing \in [Plugins -> Nat]
      /\ monCount \in [Kinds -> Nat] /\ restarts \in [Keys -> Nat]
    OBVIOUS
<1>3. /\ live \in [Plugins -> SUBSET Nat] /\ watcher \in [Plugins -> SUBSET Nat]
      /\ informing \in [Plugins -> SUBSET Nat]
    OBVIOUS
<1>4. /\ monPc \in [Kinds -> MonitorPcs] /\ monPlugin \in [Kinds -> Plugins \cup {NoPlugin}]
      /\ \A k \in Kinds : monPlugin[k] = NoPlugin /\ monPc[k] = "off"
    BY DEF MonitorPcs
<1> QED
    BY <1>1, <1>2, <1>3, <1>4 DEF TypeOK

LEMMA TypeStep == TypeOK /\ [Next]_vars => TypeOK'
<1> SUFFICES ASSUME TypeOK, [Next]_vars PROVE TypeOK'
    OBVIOUS
<1> USE KindFacts, PluginsAssumption, PolicyAssumption DEF TypeOK, mainVars, procVars, monVars
<1>1. CASE StartExecutors
    BY <1>1 DEF StartExecutors, CreateClients, MainPcs
<1>2. CASE StartSources
    BY <1>2 DEF StartSources, CreateClients, MainPcs
<1>3. CASE RetryForced
    BY <1>3 DEF RetryForced, MainPcs
<1>4. CASE StartFails
    BY <1>4 DEF StartFails, MainPcs
<1>5. CASE Supervise
    BY <1>5 DEF Supervise, MainPcs, MonitorPcs
<1>6. ASSUME NEW p \in Plugins, NEW n \in 1..inc[p],
             Crash(p, n) \/ PingFails(p, n) \/ WatcherExits(p, n)
      PROVE TypeOK'
    BY <1>6 DEF Crash, PingFails, WatcherExits
<1>7. ASSUME NEW k \in Kinds, NEW p \in Plugins, Receive(k, p)
      PROVE TypeOK'
    BY <1>7 DEF Receive, MonitorAt, Goto, MonitorPcs
<1>8. ASSUME NEW k \in Kinds, MonitorStep(k)
      PROVE TypeOK'
    <2>1. CASE Release(k)
        BY <2>1 DEF Release, MonitorAt, Goto, MonitorPcs
    <2>2. CASE Delete(k)
        BY <2>2 DEF Delete, MonitorAt, Goto, MonitorPcs
    <2>3. CASE GetRestartCount(k)
        BY <2>3 DEF GetRestartCount, MonitorAt, Goto, MonitorPcs
    <2>4. CASE Increment(k)
        BY <2>4 DEF Increment, MonitorAt, Goto, MonitorPcs, MainPcs
    <2>5. CASE CreateClient(k)
        BY <2>5 DEF CreateClient, MonitorAt, Goto, MonitorPcs
    <2>6. CASE CreateClientFails(k)
        BY <2>6 DEF CreateClientFails, MonitorAt, Goto, MonitorPcs
    <2>7. CASE Insert(k)
        BY <2>7 DEF Insert, MonitorAt, Goto, MonitorPcs
    <2> QED
        BY <1>8, <2>1, <2>2, <2>3, <2>4, <2>5, <2>6, <2>7 DEF MonitorStep
<1>9. ASSUME NEW k \in Kinds, MonitorExits(k)
      PROVE TypeOK'
    BY <1>9 DEF MonitorExits, MonitorAt, Goto, MonitorPcs
<1>10. CASE NotifyScheduler
    BY <1>10 DEF NotifyScheduler, MonitorAt, Goto, MonitorPcs
<1>11. CASE Signal \/ BeginShutdown \/ ShutdownReturns \/ Exit
    BY <1>11 DEF Signal, BeginShutdown, ShutdownReturns, Exit, MainPcs
<1>12. ASSUME NEW p \in Plugins, Kill(p)
       PROVE TypeOK'
    BY <1>12 DEF Kill
<1>13. CASE UNCHANGED vars
    BY <1>13 DEF vars
<1> QED
    BY <1>1, <1>2, <1>3, <1>4, <1>5, <1>6, <1>7, <1>8, <1>9, <1>10, <1>11, <1>12, <1>13
       DEF Next, StartNext, ProcessNext, MonitorNext, ShutdownNext

\* The variables of the manager keep their types, for every set of plugins
\* and every policy (TypeOK).
THEOREM TypeCorrect == SafetySpec => []TypeOK
<1>1. Init => TypeOK
    BY TypeInit
<1>2. TypeOK /\ [Next]_vars => TypeOK'
    BY TypeStep
<1> QED
    BY <1>1, <1>2, PTL DEF SafetySpec

-----------------------------------------------------------------------------
(* The inductive invariant                                                 *)

LEMMA IInvInit == Init => IInv
<1> SUFFICES ASSUME Init PROVE IInv
    OBVIOUS
<1>1. TypeOK
    BY TypeInit
<1>2. StartInv
    BY KindFacts DEF Init, StartInv
<1>3. ASSUME NEW p \in Plugins
      PROVE  PluginInv(p)
    BY <1>3, KindFacts, PolicyAssumption
       DEF Init, PluginInv, ProcessInv, BudgetInv, SupervisedInv, HandledAt
<1> QED
    BY <1>1, <1>2, <1>3 DEF IInv

LEMMA StartInvStep == TypeOK /\ StartInv /\ [Next]_vars => StartInv'
<1> SUFFICES ASSUME TypeOK, StartInv, [Next]_vars PROVE StartInv'
    OBVIOUS
<1> USE KindFacts, PluginsAssumption DEF TypeOK, StartInv, mainVars, procVars, monVars
<1>1. CASE StartNext
    <2>1. CASE StartExecutors
        <3>1. ~isStarted /\ monPc' = monPc /\ isStarted' = isStarted /\ forced' = forced /\ main' = "sources"
            BY <2>1 DEF StartExecutors
        <3>2. ~forced => \A p \in Plugins : KindOf[p] = "source" => inc'[p] = 0
            BY <2>1 DEF StartExecutors, CreateClients
        <3> QED
            BY <3>1, <3>2
    <2>2. CASE StartSources
        <3>1. /\ ~isStarted /\ monPc' = monPc /\ isStarted' = isStarted
              /\ main' \in {"running", "supervise"} /\ (main' = "supervise" => ~forced')
            BY <2>2 DEF StartSources
        <3> QED
            BY <3>1
    <2>3. CASE RetryForced \/ StartFails \/ Supervise
        BY <2>3 DEF RetryForced, StartFails, Supervise
    <2> QED
        BY <1>1, <2>1, <2>2, <2>3 DEF StartNext
<1>2. CASE ProcessNext
    BY <1>2 DEF ProcessNext, Crash, PingFails, WatcherExits
<1>3. ASSUME NEW k \in Kinds, NEW p \in Plugins, Receive(k, p)
      PROVE  StartInv'
    BY <1>3 DEF Receive, MonitorAt, Goto
<1>4. ASSUME NEW k \in Kinds, MonitorStep(k)
      PROVE  StartInv'
    <2>1. isStarted /\ isStarted' = isStarted /\ forced' = forced
        BY <1>4 DEF MonitorStep, Release, Delete, GetRestartCount, Increment, CreateClient,
                    CreateClientFails, Insert, MonitorAt, Goto
    <2>2. main' \in {main, "exited"}
        BY <1>4 DEF MonitorStep, Release, Delete, GetRestartCount, Increment, CreateClient,
                    CreateClientFails, Insert
    <2> QED
        BY <2>1, <2>2
<1>5. ASSUME NEW k \in Kinds, MonitorExits(k)
      PROVE  StartInv'
    BY <1>5 DEF MonitorExits, MonitorAt, Goto
<1>6. CASE NotifyScheduler
    BY <1>6 DEF NotifyScheduler, MonitorAt, Goto
<1>7. CASE ShutdownNext
    BY <1>7 DEF ShutdownNext, Signal, BeginShutdown, Kill, ShutdownReturns, Exit
<1>8. CASE UNCHANGED vars
    BY <1>8 DEF vars
<1> QED
    BY <1>1, <1>2, <1>3, <1>4, <1>5, <1>6, <1>7, <1>8 DEF Next, MonitorNext

\* The steps of Manager.Start.
LEMMA PluginInvStart ==
    ASSUME IInv, StartNext, ~forced', NEW q \in Plugins
    PROVE  PluginInv(q)'
<1> USE KindFacts, PluginsAssumption, PolicyAssumption DEF IInv, TypeOK, mainVars, procVars, monVars
<1>1. ~forced
    BY DEF StartNext, StartExecutors, StartSources, RetryForced, StartFails, Supervise
<1>2. ProcessInv(q) /\ BudgetInv(q) /\ SupervisedInv(q) /\ StartInv
    BY <1>1 DEF PluginInv
<1>3. ASSUME NEW kind \in Kinds, CreateClients(kind), KindOf[q] = kind => inc[q] = 0, ~isStarted,
             UNCHANGED <<ctx, informing, monVars>>
      PROVE  PluginInv(q)'
    <2>1. ~HandledAt(q, {"release", "delete", "count", "increment", "create", "insert"})
        BY <1>2, <1>3 DEF HandledAt, StartInv
    <2>2. \A pcs : HandledAt(q, pcs)' <=> HandledAt(q, pcs)
        BY <1>3 DEF HandledAt
    <2>3. /\ inc'[q] = IF KindOf[q] = kind THEN 1 ELSE inc[q]
          /\ live'[q] = IF KindOf[q] = kind THEN live[q] \cup {1} ELSE live[q]
          /\ watcher'[q] = IF KindOf[q] = kind THEN watcher[q] \cup {1} ELSE watcher[q]
          /\ client'[q] = IF KindOf[q] = kind THEN 1 ELSE client[q]
          /\ informing'[q] = informing[q] /\ restarts' = restarts /\ ctx' = ctx
        BY <1>3 DEF CreateClients
    <2>4. ProcessInv(q)'
        <3>1. CASE KindOf[q] = kind
            BY <1>2, <1>3, <2>1, <2>2, <2>3, <3>1 DEF ProcessInv, HandledAt
        <3>2. CASE KindOf[q] # kind
            BY <1>2, <2>1, <2>2, <2>3, <3>2 DEF ProcessInv, HandledAt
        <3> QED
            BY <3>1, <3>2
    <2>5. BudgetInv(q)'
        BY <1>2, <2>1, <2>3, <1>3 DEF BudgetInv, HandledAt
    <2>6. SupervisedInv(q)'
        BY <1>2, <2>1, <2>2, <2>3 DEF SupervisedInv
    <2> QED
        BY <2>4, <2>5, <2>6 DEF PluginInv
<1>4. CASE StartExecutors
    BY <1>1, <1>2, <1>3, <1>4 DEF StartExecutors, StartInv
<1>5. CASE StartSources
    BY <1>1, <1>2, <1>3, <1>5 DEF StartSources, StartInv
<1>6. CASE RetryForced
    BY <1>6 DEF RetryForced
<1>7. CASE StartFails
    BY <1>2, <1>7 DEF StartFails, PluginInv, ProcessInv, BudgetInv, SupervisedInv, HandledAt
<1>8. CASE Supervise
    <2>1. /\ ~HandledAt(q, {"release", "delete", "count", "increment", "create", "insert"})
          /\ ~HandledAt(q, {"release", "delete", "count", "increment", "create", "insert"})'
        BY <1>2, <1>8 DEF Supervise, HandledAt, StartInv
    <2>2. UNCHANGED <<inc, live, client, watcher, informing, restarts, ctx>>
        BY <1>8 DEF Supervise
    <2> QED
        BY <1>2, <2>1, <2>2 DEF PluginInv, ProcessInv, BudgetInv, SupervisedInv, HandledAt
<1> QED
    BY <1>4, <1>5, <1>6, <1>7, <1>8 DEF StartNext

\* Crashes, failed pings and exiting watchers.
LEMMA PluginInvProcess ==
    ASSUME IInv, ProcessNext, ~forced', NEW q \in Plugins
    PROVE  PluginInv(q)'
<1> USE KindFacts, PluginsAssumption, PolicyAssumption DEF IInv, TypeOK, mainVars, procVars, monVars
<1>0. PICK p \in Plugins : \E n \in 1..inc[p] : Crash(p, n) \/ PingFails(p, n) \/ WatcherExits(p, n)
    BY DEF ProcessNext
<1>1. PICK n \in 1..inc[p] : Crash(p, n) \/ PingFails(p, n) \/ WatcherExits(p, n)
    BY <1>0
<1>2. ProcessInv(q) /\ BudgetInv(q) /\ SupervisedInv(q)
    BY <1>1 DEF PluginInv, Crash, PingFails, WatcherExits
<1>3. (\A pcs : HandledAt(q, pcs)' <=> HandledAt(q, pcs)) /\ BudgetInv(q)'
    BY <1>1, <1>2 DEF HandledAt, BudgetInv, Crash, PingFails, WatcherExits
<1>4. CASE Crash(p, n)
    BY <1>2, <1>3, <1>4 DEF Crash, PluginInv, ProcessInv, SupervisedInv
<1>5. CASE PingFails(p, n)
    BY <1>2, <1>3, <1>5 DEF PingFails, PluginInv, ProcessInv, SupervisedInv
<1>6. CASE WatcherExits(p, n)
    BY <1>2, <1>3, <1>6 DEF WatcherExits, PluginInv, ProcessInv, SupervisedInv
<1> QED
    BY <1>1, <1>4, <1>5, <1>6

\* A monitor takes a plugin over.
LEMMA PluginInvReceive ==
    ASSUME IInv, NEW k \in Kinds, NEW p \in Plugins, Receive(k, p), ~forced', NEW q \in Plugins
    PROVE  PluginInv(q)'
<1> USE KindFacts, PluginsAssumption, PolicyAssumption DEF IInv, TypeOK, mainVars, procVars, monVars
<1>1. ProcessInv(q) /\ BudgetInv(q) /\ SupervisedInv(q)
    BY DEF PluginInv, Receive
<1>2. /\ UNCHANGED <<inc, live, client, watcher, ctx, restarts, main, monCount>>
      /\ KindOf[p] = k /\ monPc[k] = "idle"
    BY DEF Receive, MonitorAt
<1>3. CASE q = p
    <2>1. PICK n \in informing[p] : informing' = [informing EXCEPT ![p] = @ \ {n}]
        BY DEF Receive
    <2>2. /\ \A pcs : ("idle" \notin pcs => ~HandledAt(q, pcs))
          /\ \A pcs : HandledAt(q, pcs)' <=> "release" \in pcs
        BY <1>2, <1>3 DEF HandledAt, Receive, Goto
    <2>3. watcher[q] = {} /\ informing'[q] = {}
        BY <1>1, <1>3, <2>1 DEF ProcessInv
    <2>4. client[q] # 0
        BY <1>1, <1>3, <2>1, <2>2 DEF ProcessInv
    <2> QED
        BY <1>1, <1>2, <2>2, <2>3, <2>4 DEF PluginInv, ProcessInv, BudgetInv, SupervisedInv
<1>4. CASE q # p
    <2>1. informing'[q] = informing[q]
        BY <1>4 DEF Receive
    <2>2. \A pcs : "idle" \notin pcs => (HandledAt(q, pcs)' <=> HandledAt(q, pcs))
        BY <1>2, <1>4 DEF HandledAt, Receive, Goto
    <2> QED
        BY <1>1, <1>2, <2>1, <2>2 DEF PluginInv, ProcessInv, BudgetInv, SupervisedInv
<1> QED
    BY <1>3, <1>4

\* A step of a monitor leaves the plugins it does not handle as they are,
\* except that the count of a shared key may grow.
LEMMA PluginInvOthers ==
    ASSUME IInv, NEW k \in Kinds, NEW q \in Plugins, q # monPlugin[k], PluginInv(q),
           \A j \in Kinds \ {k} : monPc'[j] = monPc[j],
           \A j \in Kinds \ {k} : monCount'[j] = monCount[j],
           monPlugin' = monPlugin, informing' = informing, ctx' = ctx,
           inc'[q] = inc[q], live'[q] = live[q], client'[q] = client[q], watcher'[q] = watcher[q],
           main' \in {main, "exited"},
           restarts'[KeyOf[q]] \in Nat, restarts'[KeyOf[q]] >= restarts[KeyOf[q]]
    PROVE  PluginInv(q)'
<1> USE KindFacts, PolicyAssumption DEF IInv, TypeOK
<1>1. \A pcs : HandledAt(q, pcs)' <=> HandledAt(q, pcs)
    BY DEF HandledAt
<1>2. HandledAt(q, {"increment"}) => monCount'[KindOf[q]] = monCount[KindOf[q]]
    BY DEF HandledAt
<1>3. ProcessInv(q)'
    BY <1>1 DEF PluginInv, ProcessInv
<1>4. BudgetInv(q)'
    BY <1>1, <1>2 DEF PluginInv, BudgetInv
<1>5. SupervisedInv(q)'
    BY <1>1 DEF PluginInv, SupervisedInv
<1> QED
    BY <1>3, <1>4, <1>5 DEF PluginInv

\* A step of a monitor, for the plugin it handles.
LEMMA PluginInvHandled ==
    ASSUME IInv, NEW k \in Kinds, MonitorStep(k), ~forced', NEW q \in Plugins, q = monPlugin[k]
    PROVE  PluginInv(q)'
<1> USE KindFacts, PluginsAssumption, PolicyAssumption DEF IInv, TypeOK, mainVars, procVars, monVars
<1>1. ProcessInv(q) /\ BudgetInv(q) /\ SupervisedInv(q) /\ KindOf[q] = k
    BY DEF PluginInv, MonitorStep, Release, Delete, GetRestartCount, Increment, CreateClient,
           CreateClientFails, Insert
<1>2. \A pcs : HandledAt(q, pcs) <=> monPc[k] \in pcs
    BY <1>1 DEF HandledAt
<1>3. monPlugin' = monPlugin => \A pcs : HandledAt(q, pcs)' <=> monPc'[k] \in pcs
    BY <1>1 DEF HandledAt
<1>4. CASE Release(k)
    <2>1. /\ monPc[k] = "release" /\ monPc'[k] = "delete" /\ live'[q] = live[q] \ {client[q]}
          /\ UNCHANGED <<inc, client, watcher, informing, monPlugin, monCount, restarts, ctx, main>>
        BY <1>4 DEF Release, MonitorAt, Goto
    <2> QED
        BY <1>1, <1>2, <1>3, <2>1 DEF PluginInv, ProcessInv, BudgetInv, SupervisedInv
<1>5. CASE Delete(k)
    <2>1. /\ monPc[k] = "delete" /\ monPc'[k] = "count" /\ client'[q] = 0
          /\ UNCHANGED <<inc, live, watcher, informing, monPlugin, monCount, restarts, ctx, main>>
        BY <1>5 DEF Delete, MonitorAt, Goto
    <2> QED
        BY <1>1, <1>2, <1>3, <2>1 DEF PluginInv, ProcessInv, BudgetInv, SupervisedInv
<1>6. CASE GetRestartCount(k)
    <2>1. /\ monPc[k] = "count" /\ monPc'[k] = "increment" /\ monCount'[k] = restarts[KeyOf[q]]
          /\ UNCHANGED <<inc, live, client, watcher, informing, monPlugin, restarts, ctx, main>>
        BY <1>6 DEF GetRestartCount, MonitorAt, Goto
    <2> QED
        BY <1>1, <1>2, <1>3, <2>1 DEF PluginInv, ProcessInv, BudgetInv, SupervisedInv
<1>7. CASE Increment(k)
    <2>1. /\ monPc[k] = "increment" /\ monPc'[k] \in {"create", "idle"}
          /\ restarts'[KeyOf[q]] = restarts[KeyOf[q]] + 1
          /\ UNCHANGED <<inc, live, client, watcher, informing, monPlugin, monCount, ctx>>
        BY <1>7 DEF Increment, MonitorAt, Goto
    <2>2. monPc'[k] = "create" /\ main' # "exited" => monCount[k] < Threshold
        BY <1>7 DEF Increment, Goto, MayRestart, MustExit
    <2>3. ProcessInv(q)' /\ SupervisedInv(q)'
        BY <1>1, <1>2, <1>3, <2>1 DEF ProcessInv, SupervisedInv
    <2>4. BudgetInv(q)'
        BY <1>1, <1>2, <1>3, <2>1, <2>2 DEF BudgetInv
    <2> QED
        BY <2>3, <2>4 DEF PluginInv
<1>8. CASE CreateClient(k)
    <2>1. /\ monPc[k] = "create" /\ monPc'[k] = "insert" /\ inc'[q] = inc[q] + 1 /\ main # "exited"
          /\ live'[q] = live[q] \cup {inc[q] + 1} /\ watcher'[q] = watcher[q] \cup {inc[q] + 1}
          /\ UNCHANGED <<client, informing, monPlugin, monCount, restarts, ctx, main>>
        BY <1>8 DEF CreateClient, MonitorAt, Goto
    <2>2. ProcessInv(q)' /\ SupervisedInv(q)'
        BY <1>1, <1>2, <1>3, <2>1 DEF ProcessInv, SupervisedInv
    <2>3. BudgetInv(q)'
        BY <1>1, <1>2, <1>3, <2>1 DEF BudgetInv
    <2> QED
        BY <2>2, <2>3 DEF PluginInv
<1>9. CASE CreateClientFails(k)
    <2>1. /\ monPc[k] = "create" /\ monPc'[k] = "idle"
          /\ UNCHANGED <<inc, live, client, watcher, informing, monPlugin, monCount, restarts, ctx, main>>
        BY <1>9 DEF CreateClientFails, MonitorAt, Goto
    <2> QED
        BY <1>1, <1>2, <1>3, <2>1 DEF PluginInv, ProcessInv, BudgetInv, SupervisedInv
<1>10. CASE Insert(k)
    <2>1. /\ monPc[k] = "insert" /\ monPc'[k] \in {"notify", "idle"} /\ client'[q] = inc[q]
          /\ UNCHANGED <<inc, live, watcher, informing, monPlugin, monCount, restarts, ctx, main>>
        BY <1>10 DEF Insert, MonitorAt, Goto
    <2> QED
        BY <1>1, <1>2, <1>3, <2>1 DEF PluginInv, ProcessInv, BudgetInv, SupervisedInv
<1> QED
    BY <1>4, <1>5, <1>6, <1>7, <1>8, <1>9, <1>10 DEF MonitorStep

LEMMA PluginInvMonitor ==
    ASSUME IInv, NEW k \in Kinds, MonitorStep(k), ~forced', NEW q \in Plugins
    PROVE  PluginInv(q)'
<1> USE KindFacts, PluginsAssumption DEF IInv, TypeOK, mainVars, procVars, monVars
<1>1. CASE q = monPlugin[k]
    BY <1>1, PluginInvHandled
<1>2. CASE q # monPlugin[k]
    <2>1. PluginInv(q)
        BY DEF MonitorStep, Release, Delete, GetRestartCount, Increment, CreateClient,
               CreateClientFails, Insert
    <2>2. /\ \A j \in Kinds \ {k} : monPc'[j] = monPc[j]
          /\ \A j \in Kinds \ {k} : monCount'[j] = monCount[j]
        BY DEF MonitorStep, Release, Delete, GetRestartCount, Increment, CreateClient,
               CreateClientFails, Insert, Goto
    <2>3. monPlugin' = monPlugin /\ informing' = informing /\ ctx' = ctx
        BY DEF MonitorStep, Release, Delete, GetRestartCount, Increment, CreateClient,
               CreateClientFails, Insert
    <2>4. inc'[q] = inc[q] /\ live'[q] = live[q] /\ client'[q] = client[q] /\ watcher'[q] = watcher[q]
        BY <1>2 DEF MonitorStep, Release, Delete, GetRestartCount, Increment, CreateClient,
               CreateClientFails, Insert
    <2>5. main' \in {main, "exited"}
        BY DEF MonitorStep, Release, Delete, GetRestartCount, Increment, CreateClient,
               CreateClientFails, Insert
    <2>6. restarts'[KeyOf[q]] \in Nat /\ restarts'[KeyOf[q]] >= restarts[KeyOf[q]]
        BY DEF MonitorStep, Release, Delete, GetRestartCount, Increment, CreateClient,
               CreateClientFails, Insert
    <2> HIDE DEF IInv, TypeOK, mainVars, procVars, monVars
    <2> QED
        BY <1>2, <2>1, <2>2, <2>3, <2>4, <2>5, <2>6, PluginInvOthers
<1> QED
    BY <1>1, <1>2

\* Steps that touch neither the store, the watchers nor the statistics.
LEMMA PluginInvQuiet ==
    ASSUME IInv, ~forced', NEW q \in Plugins,
           \/ NotifyScheduler \/ ShutdownNext \/ UNCHANGED vars
           \/ \E k \in Kinds : MonitorExits(k)
    PROVE  PluginInv(q)'
<1> USE KindFacts, PluginsAssumption, PolicyAssumption DEF IInv, TypeOK, mainVars, procVars, monVars
<1>1. /\ UNCHANGED <<inc, client, watcher, informing, monPlugin, monCount, restarts, forced>>
      /\ ctx' = "active" => ctx = "active"
      /\ main' = main \/ main # "exited"
    BY DEF NotifyScheduler, MonitorExits, ShutdownNext, Signal, BeginShutdown, Kill,
           ShutdownReturns, Exit, vars, MonitorAt
<1>2. live'[q] \subseteq live[q]
    BY DEF NotifyScheduler, MonitorExits, ShutdownNext, Signal, BeginShutdown, Kill,
           ShutdownReturns, Exit, vars
<1>3. \A pcs : pcs \cap {"idle", "notify", "exited"} = {} => (HandledAt(q, pcs)' <=> HandledAt(q, pcs))
    BY DEF NotifyScheduler, MonitorExits, ShutdownNext, Signal, BeginShutdown, Kill,
           ShutdownReturns, Exit, vars, MonitorAt, Goto, HandledAt
<1>4. ProcessInv(q) /\ BudgetInv(q) /\ SupervisedInv(q)
    BY <1>1 DEF PluginInv
<1>5. ProcessInv(q)' /\ SupervisedInv(q)'
    BY <1>1, <1>2, <1>3, <1>4 DEF ProcessInv, SupervisedInv
<1>6. BudgetInv(q)'
    BY <1>1, <1>3, <1>4 DEF BudgetInv
<1> QED
    BY <1>5, <1>6 DEF PluginInv

LEMMA IInvStep == IInv /\ [Next]_vars => IInv'
<1> SUFFICES ASSUME IInv, [Next]_vars PROVE IInv'
    OBVIOUS
<1>1. TypeOK' /\ StartInv'
    BY TypeStep, StartInvStep DEF IInv
<1>2. ASSUME ~forced', NEW q \in Plugins
      PROVE  PluginInv(q)'
    <2>1. CASE StartNext
        BY <1>2, <2>1, PluginInvStart
    <2>2. CASE ProcessNext
        BY <1>2, <2>2, PluginInvProcess
    <2>3. ASSUME NEW k \in Kinds, NEW p \in Plugins, Receive(k, p)
          PROVE  PluginInv(q)'
        BY <1>2, <2>3, PluginInvReceive
    <2>4. ASSUME NEW k \in Kinds, MonitorStep(k)
          PROVE  PluginInv(q)'
        BY <1>2, <2>4, PluginInvMonitor
    <2>5. ASSUME NEW k \in Kinds, MonitorExits(k)
          PROVE  PluginInv(q)'
        BY <1>2, <2>5, PluginInvQuiet
    <2>6. CASE NotifyScheduler \/ ShutdownNext \/ UNCHANGED vars
        BY <1>2, <2>6, PluginInvQuiet
    <2> QED
        BY <2>1, <2>2, <2>3, <2>4, <2>5, <2>6 DEF Next, MonitorNext
<1> QED
    BY <1>1, <1>2 DEF IInv

LEMMA InductiveInvariant == SafetySpec => []IInv
<1>1. Init => IInv
    BY IInvInit
<1>2. IInv /\ [Next]_vars => IInv'
    BY IInvStep
<1> QED
    BY <1>1, <1>2, PTL DEF SafetySpec

-----------------------------------------------------------------------------
(* The properties                                                          *)

\* No plugin is restarted more often than the policy allows, however its
\* crashes, the other monitor and a shutdown interleave with its restarts
\* (RestartBudget).
THEOREM RestartBudgetHolds == SafetySpec => []RestartBudget
<1>1. IInv => RestartBudget
    BY DEF IInv, PluginInv, BudgetInv, RestartBudget
<1> QED
    BY <1>1, InductiveInvariant, PTL

\* A plugin never has two processes at once (OneProcess).
THEOREM OneProcessHolds == SafetySpec => []OneProcess
<1>1. IInv => OneProcess
    BY DEF IInv, PluginInv, ProcessInv, OneProcess
<1> QED
    BY <1>1, InductiveInvariant, PTL

\* What a watcher reports is never about a predecessor of the process in the
\* store (NoStaleReport).
THEOREM NoStaleReportHolds == SafetySpec => []NoStaleReport
<1>1. IInv => NoStaleReport
    <2> SUFFICES ASSUME IInv, isStarted, NEW p \in Plugins, NEW n \in informing[p]
                 PROVE  client[p] = n \/ (HandledAt(p, {"insert"}) /\ n = inc[p])
        BY DEF NoStaleReport
    <2>1. ProcessInv(p)
        BY DEF IInv, StartInv, PluginInv
    <2> QED
        BY <2>1 DEF ProcessInv
<1> QED
    BY <1>1, InductiveInvariant, PTL

\* No client that can be handed out is without supervision (ClientsSupervised).
THEOREM ClientsSupervisedHolds == SafetySpec => []ClientsSupervised
<1>1. IInv => ClientsSupervised
    BY DEF IInv, StartInv, PluginInv, SupervisedInv, ClientsSupervised
<1> QED
    BY <1>1, InductiveInvariant, PTL

LEMMA WrittenOffStep ==
    ASSUME IInv, [Next]_vars, NEW q \in Plugins, WrittenOff(q)
    PROVE  WrittenOff(q)'
<1> USE KindFacts, PluginsAssumption DEF IInv, TypeOK, mainVars, procVars, monVars
<1>1. ProcessInv(q) /\ isStarted /\ main \notin {"executors", "sources", "supervise"}
    BY DEF StartInv, PluginInv, WrittenOff
<1>2. /\ informing[q] = {} /\ client[q] = 0
      /\ ~HandledAt(q, {"release", "delete", "count", "increment", "create", "insert"})
    BY <1>1 DEF ProcessInv, WrittenOff, HandledAt
<1>3. CASE StartNext
    BY <1>1, <1>3 DEF StartNext, StartExecutors, StartSources, RetryForced, StartFails, Supervise
<1>4. CASE ProcessNext
    <2>1. UNCHANGED <<isStarted, client, monPlugin, monPc>>
        BY <1>4 DEF ProcessNext, Crash, PingFails, WatcherExits
    <2> QED
        BY <2>1 DEF WrittenOff, HandledAt
<1>5. ASSUME NEW k \in Kinds, NEW p \in Plugins, Receive(k, p)
      PROVE  WrittenOff(q)'
    <2>1. p # q
        BY <1>2, <1>5 DEF Receive
    <2> QED
        BY <1>2, <1>5, <2>1 DEF Receive, Goto, WrittenOff, HandledAt
<1>6. ASSUME NEW k \in Kinds, MonitorStep(k)
      PROVE  WrittenOff(q)'
    <2>1. q # monPlugin[k]
        BY <1>2, <1>6 DEF MonitorStep, Release, Delete, GetRestartCount, Increment, CreateClient,
               CreateClientFails, Insert, MonitorAt, HandledAt
    <2>2. /\ isStarted' = isStarted /\ client'[q] = client[q] /\ monPlugin' = monPlugin
          /\ \A j \in Kinds \ {k} : monPc'[j] = monPc[j]
        BY <1>6, <2>1 DEF MonitorStep, Release, Delete, GetRestartCount, Increment, CreateClient,
               CreateClientFails, Insert, Goto
    <2> QED
        BY <1>2, <2>1, <2>2 DEF WrittenOff, HandledAt
<1>7. ASSUME NEW k \in Kinds, MonitorExits(k)
      PROVE  WrittenOff(q)'
    BY <1>2, <1>7 DEF MonitorExits, Goto, WrittenOff, HandledAt
<1>8. CASE NotifyScheduler
    BY <1>2, <1>8 DEF NotifyScheduler, Goto, WrittenOff, HandledAt
<1>9. CASE ShutdownNext \/ UNCHANGED vars
    <2>1. UNCHANGED <<isStarted, client, monPlugin, monPc>>
        BY <1>9 DEF ShutdownNext, Signal, BeginShutdown, Kill, ShutdownReturns, Exit, vars
    <2> QED
        BY <2>1 DEF WrittenOff, HandledAt
<1> QED
    BY <1>3, <1>4, <1>5, <1>6, <1>7, <1>8, <1>9 DEF Next, MonitorNext

\* A plugin the monitor has given up is never handled again and never has a
\* client again (WrittenOffStaysOff).
THEOREM WrittenOffStaysOffHolds == SafetySpec => WrittenOffStaysOff
<1>1. IInv /\ [Next]_vars => [\A p \in Plugins : WrittenOff(p) => WrittenOff(p)']_vars
    BY WrittenOffStep
<1> QED
    BY <1>1, InductiveInvariant, PTL DEF SafetySpec, WrittenOffStaysOff

-----------------------------------------------------------------------------
(* The end of the agent under RestartAgent                                 *)

\* A monitor has read a count below the threshold for p and is to increment it:
\* this increment will not end the agent.
Pending(p) == HandledAt(p, {"increment"}) /\ monCount[KindOf[p]] < Threshold

\* Every increment that is pending still fits below the limit of its key.
ExitInv(key) ==
    policy = "RestartAgent" /\ main # "exited" =>
        /\ restarts[key] <= Threshold + Overshoot(key)
        /\ \A p \in Plugins : KeyOf[p] = key /\ Pending(p) => restarts[key] < Threshold + Overshoot(key)
        /\ \A p, q \in Plugins :
              p # q /\ KeyOf[p] = key /\ KeyOf[q] = key /\ Pending(p) /\ Pending(q)
                => restarts[key] < Threshold

LEMMA OvershootFacts ==
    ASSUME NEW key \in Keys
    PROVE  /\ Overshoot(key) \in {0, 1}
           /\ \A p, q \in Plugins : p # q /\ KeyOf[p] = key /\ KeyOf[q] = key => Overshoot(key) = 1
BY DEF Overshoot, Shared

\* Of three plugins of one key two would have one kind.
LEMMA TwoPluginsPerKey ==
    ASSUME NEW p \in Plugins, NEW q \in Plugins, NEW r \in Plugins,
           KeyOf[p] = KeyOf[q], KeyOf[p] = KeyOf[r], p # q, p # r
    PROVE  q = r
<1>1. KindOf[p] \in Kinds /\ KindOf[q] \in Kinds /\ KindOf[r] \in Kinds
    BY KindFacts
<1>2. KindOf[q] = KindOf[r]
    BY <1>1, PluginsAssumption DEF Kinds
<1> QED
    BY <1>2, PluginsAssumption

LEMMA ExitInvStep ==
    ASSUME IInv, [Next]_vars, NEW key \in Keys, ExitInv(key)
    PROVE  ExitInv(key)'
<1> USE KindFacts, PluginsAssumption, PolicyAssumption DEF IInv, TypeOK, mainVars, procVars, monVars
<1>0. Overshoot(key)' = Overshoot(key)
    BY DEF Overshoot, Shared
<1>1. SUFFICES ASSUME policy' = "RestartAgent", main' # "exited"
               PROVE  ExitInv(key)'
    BY DEF ExitInv
<1>2. policy = "RestartAgent" /\ main # "exited"
    BY <1>1 DEF Next, StartNext, StartExecutors, StartSources, RetryForced, StartFails, Supervise,
        ProcessNext, Crash, PingFails, WatcherExits, MonitorNext, MonitorStep, Receive, MonitorExits,
        Release, Delete, GetRestartCount, Increment, CreateClient, CreateClientFails, Insert,
        NotifyScheduler, MonitorAt, ShutdownNext, Signal, BeginShutdown, Kill, ShutdownReturns, Exit, vars
<1>3. /\ restarts[key] <= Threshold + Overshoot(key)
      /\ \A p \in Plugins : KeyOf[p] = key /\ Pending(p) => restarts[key] < Threshold + Overshoot(key)
      /\ \A p, q \in Plugins :
            p # q /\ KeyOf[p] = key /\ KeyOf[q] = key /\ Pending(p) /\ Pending(q) => restarts[key] < Threshold
    BY <1>2 DEF ExitInv
<1>4. ASSUME restarts' = restarts, \A p \in Plugins : Pending(p)' => Pending(p)
      PROVE  ExitInv(key)'
    BY <1>0, <1>3, <1>4 DEF ExitInv
<1>5. CASE StartNext
    BY <1>4, <1>5 DEF StartNext, StartExecutors, StartSources, RetryForced, StartFails, Supervise,
        CreateClients, Pending, HandledAt
<1>6. CASE ProcessNext \/ ShutdownNext \/ UNCHANGED vars
    <2>1. UNCHANGED monVars
        BY <1>6 DEF ProcessNext, Crash, PingFails, WatcherExits, ShutdownNext, Signal, BeginShutdown,
            Kill, ShutdownReturns, Exit, vars
    <2> QED
        BY <1>4, <2>1 DEF Pending, HandledAt
<1>7. ASSUME NEW k \in Kinds, NEW p \in Plugins, Receive(k, p)
      PROVE  ExitInv(key)'
    <2>1. restarts' = restarts /\ monCount' = monCount
        BY <1>7 DEF Receive
    <2>2. ASSUME NEW q \in Plugins, Pending(q)' PROVE Pending(q)
        <3>1. KindOf[q] # k
            BY <1>7, <2>2 DEF Receive, Goto, Pending, HandledAt
        <3> QED
            BY <1>7, <2>1, <2>2, <3>1 DEF Receive, Goto, Pending, HandledAt
    <2> QED
        BY <1>4, <2>1, <2>2
<1>8. ASSUME NEW k \in Kinds,
             \/ Release(k) \/ Delete(k) \/ CreateClient(k) \/ CreateClientFails(k)
             \/ Insert(k) \/ MonitorExits(k)
      PROVE  ExitInv(key)'
    <2>1. /\ restarts' = restarts /\ monCount' = monCount /\ monPlugin' = monPlugin
          /\ \A j \in Kinds : monPc'[j] = "increment" => monPc[j] = "increment"
        BY <1>8 DEF Release, Delete, CreateClient, CreateClientFails, Insert, MonitorExits, Goto
    <2> QED
        BY <1>4, <2>1 DEF Pending, HandledAt
<1>9. CASE NotifyScheduler
    <2>1. /\ restarts' = restarts /\ monCount' = monCount /\ monPlugin' = monPlugin
          /\ \A j \in Kinds : monPc'[j] = "increment" => monPc[j] = "increment"
        BY <1>9 DEF NotifyScheduler, Goto
    <2> QED
        BY <1>4, <2>1 DEF Pending, HandledAt
<1>10. ASSUME NEW k \in Kinds, GetRestartCount(k)
       PROVE  ExitInv(key)'
    <2> DEFINE p == monPlugin[k]
    <2>1. /\ p \in Plugins /\ KindOf[p] = k
          /\ restarts' = restarts /\ monPlugin' = monPlugin
          /\ monCount' = [monCount EXCEPT ![k] = restarts[KeyOf[p]]]
          /\ \A j \in Kinds \ {k} : monPc'[j] = monPc[j]
        BY <1>10 DEF GetRestartCount, MonitorAt, Goto
    <2>2. \A q \in Plugins : q # p /\ Pending(q)' => Pending(q)
        BY <2>1 DEF Pending, HandledAt
    <2>3. KeyOf[p] = key /\ Pending(p)' => restarts[key] < Threshold
        BY <2>1 DEF Pending
    <2> QED
        BY <1>0, <1>3, <2>1, <2>2, <2>3, OvershootFacts DEF ExitInv
<1>11. ASSUME NEW k \in Kinds, Increment(k)
       PROVE  ExitInv(key)'
    <2> DEFINE p == monPlugin[k]
    <2>1. /\ p \in Plugins /\ KindOf[p] = k /\ monPc[k] = "increment" /\ monPc'[k] # "increment"
          /\ restarts' = [restarts EXCEPT ![KeyOf[p]] = @ + 1]
          /\ monPlugin' = monPlugin /\ monCount' = monCount
          /\ \A j \in Kinds \ {k} : monPc'[j] = monPc[j]
        BY <1>11 DEF Increment, MonitorAt, Goto
    <2>2. Pending(p)
        BY <1>1, <1>2, <1>11, <2>1 DEF Increment, MustExit, Pending, HandledAt
    <2>3. ~Pending(p)' /\ \A q \in Plugins : q # p /\ Pending(q)' => Pending(q)
        BY <2>1 DEF Pending, HandledAt
    <2>4. CASE KeyOf[p] # key
        <3>1. restarts'[key] = restarts[key]
            BY <2>1, <2>4
        <3> QED
            BY <1>0, <1>3, <2>3, <2>4, <3>1 DEF ExitInv
    <2>5. CASE KeyOf[p] = key
        <3>1. restarts'[key] = restarts[key] + 1 /\ restarts[key] < Threshold + Overshoot(key)
            BY <1>3, <2>1, <2>2, <2>5
        <3>2. ASSUME NEW q \in Plugins, KeyOf[q] = key, Pending(q)'
              PROVE  q # p /\ restarts[key] < Threshold /\ Overshoot(key) = 1
            BY <1>3, <2>1, <2>2, <2>3, <2>5, <3>2, OvershootFacts
        <3>3. \A q, r \in Plugins : KeyOf[q] = key /\ KeyOf[r] = key /\ Pending(q)' /\ Pending(r)' => q = r
            BY <2>1, <2>5, <3>2, TwoPluginsPerKey
        <3> QED
            BY <1>0, <3>1, <3>2, <3>3, OvershootFacts DEF ExitInv
    <2> QED
        BY <2>4, <2>5
<1> QED
    BY <1>5, <1>6, <1>7, <1>8, <1>9, <1>10, <1>11 DEF Next, MonitorNext, MonitorStep

\* Under the policy RestartAgent the agent ends once a key has failed more often than the
\* threshold, or once more if two plugins share the key, in whatever order their monitors
\* read and increment the count (AgentExitsAtThreshold).
THEOREM AgentExitsAtThresholdHolds == SafetySpec => []AgentExitsAtThreshold
<1> DEFINE Inv == \A key \in Keys : ExitInv(key)
<1>1. Init => Inv
    BY KindFacts, PolicyAssumption, OvershootFacts DEF Init, ExitInv, Pending, HandledAt
<1>2. IInv /\ Inv /\ [Next]_vars => Inv'
    BY ExitInvStep
<1>3. IInv /\ Inv => AgentExitsAtThreshold
    BY PolicyAssumption, OvershootFacts DEF ExitInv, AgentExitsAtThreshold, IInv, TypeOK
<1> HIDE DEF Inv
<1> QED
    BY <1>1, <1>2, <1>3, InductiveInvariant, PTL DEF SafetySpec

-----------------------------------------------------------------------------
(* The manager implements PluginLifecycle                                  *)

\* What the start has loaded when it gets to Supervise, and that every plugin
\* has a process from then on.
LoadedInv ==
    /\ ~forced /\ main = "sources" =>
         \A p \in Plugins : KindOf[p] = "executor" => inc[p] = 1 /\ client[p] = 1
    /\ main = "supervise" => \A p \in Plugins : inc[p] = 1 /\ client[p] = 1
    /\ isStarted => \A p \in Plugins : inc[p] # 0

LEMMA LoadedInvStep == IInv /\ LoadedInv /\ [Next]_vars => LoadedInv'
<1> SUFFICES ASSUME IInv, LoadedInv, [Next]_vars PROVE LoadedInv'
    OBVIOUS
<1> USE KindFacts, PluginsAssumption DEF IInv, TypeOK, LoadedInv, mainVars, procVars, monVars
<1>1. CASE StartExecutors
    BY <1>1 DEF StartExecutors, CreateClients, StartInv
<1>2. CASE StartSources
    <2>1. CASE forced
        BY <1>2, <2>1 DEF StartSources, StartInv
    <2>2. CASE ~forced
        <3>1. \A p \in Plugins : KindOf[p] = "source" => inc'[p] = 1 /\ client'[p] = 1
            BY <1>2, <2>2 DEF StartSources, CreateClients, StartInv
        <3>2. \A p \in Plugins : KindOf[p] = "executor" => inc'[p] = 1 /\ client'[p] = 1
            BY <1>2, <2>2 DEF StartSources, CreateClients
        <3>3. ~isStarted' /\ main' = "supervise"
            BY <1>2, <2>2 DEF StartSources, StartInv
        <3> QED
            BY <3>1, <3>2, <3>3 DEF Kinds
    <2> QED
        BY <2>1, <2>2
<1>3. CASE RetryForced \/ StartFails \/ Supervise
    BY <1>3 DEF RetryForced, StartFails, Supervise
<1>4. ASSUME UNCHANGED <<inc, client, isStarted, forced>>, main' \in {main, "closing", "closed", "exited"}
      PROVE  LoadedInv'
    BY <1>4
<1>5. CASE ProcessNext \/ ShutdownNext \/ UNCHANGED vars
    BY <1>4, <1>5 DEF ProcessNext, Crash, PingFails, WatcherExits, ShutdownNext, Signal, BeginShutdown,
        Kill, ShutdownReturns, Exit, vars
<1>6. ASSUME NEW k \in Kinds, NEW p \in Plugins, Receive(k, p)
      PROVE  LoadedInv'
    BY <1>4, <1>6 DEF Receive
<1>7. ASSUME NEW k \in Kinds, MonitorStep(k)
      PROVE  LoadedInv'
    <2>1. isStarted /\ isStarted' /\ main \notin {"executors", "sources", "supervise"}
        BY <1>7 DEF StartInv, MonitorStep, Release, Delete, GetRestartCount, Increment, CreateClient,
            CreateClientFails, Insert, MonitorAt
    <2>2. main' \in {main, "exited"} /\ \A p \in Plugins : inc'[p] \in {inc[p], inc[p] + 1}
        BY <1>7 DEF MonitorStep, Release, Delete, GetRestartCount, Increment, CreateClient,
            CreateClientFails, Insert, MonitorAt
    <2> QED
        BY <2>1, <2>2
<1>8. ASSUME NEW k \in Kinds, MonitorExits(k)
      PROVE  LoadedInv'
    BY <1>4, <1>8 DEF MonitorExits
<1>9. CASE NotifyScheduler
    BY <1>4, <1>9 DEF NotifyScheduler
<1> QED
    BY <1>1, <1>2, <1>3, <1>5, <1>6, <1>7, <1>8, <1>9 DEF Next, StartNext, MonitorNext

\* The refinement mapping.
Serving == {p \in Plugins : client[p] # 0}
Generation == [p \in Plugins |-> IF HandledAt(p, {"insert"}) THEN inc[p] - 1 ELSE inc[p]]
Abandoned == {p \in Plugins : WrittenOff(p)}
mapped == <<isStarted, Serving, Generation, Abandoned>>

LEMMA LifecycleInit == Init => Lifecycle!Init
<1> SUFFICES ASSUME Init PROVE Lifecycle!Init
    OBVIOUS
<1>1. Serving = {} /\ Abandoned = {} /\ ~isStarted
    BY DEF Init, Serving, Abandoned, WrittenOff
<1>2. Generation = [p \in Plugins |-> 0]
    BY KindFacts DEF Init, Generation, HandledAt
<1> QED
    BY <1>1, <1>2 DEF Lifecycle!Init, Serving, Generation, Abandoned, Init

\* Steps that the lifecycle does not see.
LEMMA LifecycleStutters ==
    ASSUME UNCHANGED <<isStarted, client>>,
           \A p \in Plugins : Generation'[p] = Generation[p],
           \A p \in Plugins : WrittenOff(p)' <=> WrittenOff(p)
    PROVE  UNCHANGED mapped
<1>1. Generation' = Generation
    BY DEF Generation
<1> QED
    BY <1>1 DEF mapped, Serving, Abandoned

\* Loading a kind of plugins, before the monitors run.
LEMMA LifecycleLoads ==
    ASSUME IInv, ~isStarted, NEW kind \in Kinds, CreateClients(kind), UNCHANGED <<isStarted, monVars>>
    PROVE  Lifecycle!Load({p \in Plugins : KindOf[p] = kind})
<1> DEFINE S == {p \in Plugins : KindOf[p] = kind}
<1> USE KindFacts DEF IInv, TypeOK, StartInv, CreateClients, monVars
<1>1. \A p \in Plugins : ~HandledAt(p, {"insert"}) /\ ~HandledAt(p, {"insert"})'
    BY DEF HandledAt
<1>2. Generation' = [p \in Plugins |-> IF p \in S THEN Generation[p] + 1 ELSE Generation[p]]
    BY <1>1 DEF Generation
<1>3. Serving' = Serving \cup S
    BY DEF Serving
<1>4. Abandoned' = Abandoned
    BY DEF Abandoned, WrittenOff
<1> QED
    BY <1>2, <1>3, <1>4 DEF Lifecycle!Load, Serving, Generation, Abandoned

LEMMA LifecycleStart ==
    ASSUME IInv, LoadedInv, StartNext
    PROVE  Lifecycle!Next \/ UNCHANGED mapped
<1> USE KindFacts DEF IInv, mainVars, procVars, monVars
<1>1. ASSUME NEW kind \in Kinds, ~isStarted, CreateClients(kind), UNCHANGED <<isStarted, monVars>>
      PROVE  Lifecycle!Next
    <2>1. {p \in Plugins : KindOf[p] = kind} \in SUBSET Plugins
        OBVIOUS
    <2> QED
        BY <1>1, <2>1, LifecycleLoads DEF Lifecycle!Next
<1>2. CASE StartExecutors
    BY <1>1, <1>2 DEF StartExecutors, StartInv
<1>3. CASE StartSources
    BY <1>1, <1>3 DEF StartSources, StartInv
<1>4. CASE RetryForced \/ StartFails
    BY <1>4, LifecycleStutters DEF RetryForced, StartFails, Generation, WrittenOff, HandledAt
<1>5. CASE Supervise
    <2>1. main = "supervise" /\ ~isStarted /\ isStarted' /\ UNCHANGED <<client, inc, monPlugin>>
        BY <1>5 DEF Supervise, StartInv
    <2>2. \A p \in Plugins : ~HandledAt(p, {"insert"}) /\ ~HandledAt(p, {"insert"})'
        BY <1>5, <2>1 DEF HandledAt, Supervise, StartInv
    <2>3. \A p \in Plugins : client[p] = 1 /\ inc[p] = 1
        BY <2>1 DEF LoadedInv
    <2>4. Serving = Plugins /\ Serving' = Serving
        BY <2>1, <2>3 DEF Serving
    <2>5. Generation = [p \in Plugins |-> 1] /\ Generation' = Generation
        BY <2>1, <2>2, <2>3 DEF Generation
    <2>6. Abandoned = {} /\ Abandoned' = {}
        BY <2>1, <2>3 DEF Abandoned, WrittenOff
    <2>7. Lifecycle!Open
        BY <2>1, <2>4, <2>5, <2>6 DEF Lifecycle!Open, Serving, Generation, Abandoned
    <2> QED
        BY <2>7 DEF Lifecycle!Next
<1> QED
    BY <1>2, <1>3, <1>4, <1>5 DEF StartNext

LEMMA LifecycleDisjuncts ==
    ASSUME NEW p \in Plugins, Lifecycle!Withdraw(p) \/ Lifecycle!Replace(p) \/ Lifecycle!Abandon(p)
    PROVE  Lifecycle!Next
BY DEF Lifecycle!Next

LEMMA LifecycleMonitor ==
    ASSUME IInv, LoadedInv, NEW k \in Kinds, MonitorStep(k), NEW p, p = monPlugin[k]
    PROVE  Lifecycle!Next \/ UNCHANGED mapped
<1> USE KindFacts, PolicyAssumption DEF IInv, TypeOK, mainVars, procVars, monVars
<1>1. /\ p \in Plugins /\ KindOf[p] = k /\ isStarted /\ ~forced
      /\ monPlugin' = monPlugin /\ isStarted' = isStarted
      /\ \A j \in Kinds \ {k} : monPc'[j] = monPc[j]
    BY DEF StartInv, MonitorStep, Release, Delete, GetRestartCount, Increment, CreateClient,
        CreateClientFails, Insert, MonitorAt, Goto
<1>2. ProcessInv(p) /\ BudgetInv(p) /\ inc[p] # 0
    BY <1>1 DEF PluginInv, LoadedInv
<1>3. \A pcs : (HandledAt(p, pcs) <=> monPc[k] \in pcs) /\ (HandledAt(p, pcs)' <=> monPc'[k] \in pcs)
    BY <1>1 DEF HandledAt
<1>4. \A q \in Plugins \ {p} : \A pcs : HandledAt(q, pcs)' <=> HandledAt(q, pcs)
    BY <1>1 DEF HandledAt
<1>5. CASE Release(k) \/ GetRestartCount(k) \/ CreateClient(k)
    <2>1. UNCHANGED <<isStarted, client>> /\ \A q \in Plugins \ {p} : inc'[q] = inc[q]
        BY <1>5 DEF Release, GetRestartCount, CreateClient
    <2>2. \A q \in Plugins : Generation'[q] = Generation[q]
        <3>1. \A q \in Plugins \ {p} : Generation'[q] = Generation[q]
            BY <1>4, <2>1 DEF Generation
        <3>2. CASE Release(k) \/ GetRestartCount(k)
            BY <1>3, <3>1, <3>2 DEF Generation, Release, GetRestartCount, MonitorAt, Goto
        <3>3. CASE CreateClient(k)
            <4>1. monPc[k] = "create" /\ monPc'[k] = "insert" /\ inc'[p] = inc[p] + 1
                BY <3>3 DEF CreateClient, MonitorAt, Goto
            <4> QED
                BY <1>1, <1>3, <3>1, <4>1 DEF Generation
        <3> QED
            BY <1>5, <3>2, <3>3
    <2>3. client[p] # 0 \/ (HandledAt(p, {"count", "increment", "create", "insert"})
                             /\ HandledAt(p, {"count", "increment", "create", "insert"})')
        BY <1>2, <1>3, <1>5 DEF ProcessInv, Release, GetRestartCount, CreateClient, MonitorAt, Goto
    <2>4. \A q \in Plugins : WrittenOff(q)' <=> WrittenOff(q)
        BY <1>1, <1>4, <2>1, <2>3 DEF WrittenOff
    <2> QED
        BY <2>1, <2>2, <2>4, LifecycleStutters
<1>6. CASE Delete(k)
    <2>1. /\ monPc[k] = "delete" /\ monPc'[k] = "count" /\ inc' = inc
          /\ client' = [client EXCEPT ![p] = 0] /\ client[p] # 0
        BY <1>2, <1>3, <1>6 DEF Delete, MonitorAt, Goto, ProcessInv
    <2>2. Serving' = Serving \ {p} /\ p \in Serving
        BY <1>1, <2>1 DEF Serving
    <2>3. Generation' = Generation
        <3>1. \A q \in Plugins : HandledAt(q, {"insert"})' <=> HandledAt(q, {"insert"})
            BY <1>3, <1>4, <2>1
        <3> QED
            BY <2>1, <3>1 DEF Generation
    <2>4. Abandoned' = Abandoned
        BY <1>1, <1>3, <1>4, <2>1 DEF Abandoned, WrittenOff
    <2>5. Lifecycle!Withdraw(p)
        BY <1>1, <2>2, <2>3, <2>4 DEF Lifecycle!Withdraw, Serving, Generation, Abandoned
    <2> QED
        BY <1>1, <2>5, LifecycleDisjuncts
<1>7. CASE Increment(k) \/ CreateClientFails(k)
    <2>1. /\ monPc[k] \in {"increment", "create"} /\ monPc'[k] \in {"create", "idle"}
          /\ inc' = inc /\ client' = client /\ client[p] = 0
        BY <1>2, <1>3, <1>7 DEF Increment, CreateClientFails, MonitorAt, Goto, ProcessInv
    <2>2. Generation' = Generation /\ Serving' = Serving
        <3>1. \A q \in Plugins : HandledAt(q, {"insert"})' <=> HandledAt(q, {"insert"})
            BY <1>3, <1>4, <2>1
        <3> QED
            BY <2>1, <3>1 DEF Generation, Serving
    <2>3. \A q \in Plugins \ {p} : WrittenOff(q)' <=> WrittenOff(q)
        BY <1>1, <1>4, <2>1 DEF WrittenOff
    <2>4. WrittenOff(p)' <=> monPc'[k] = "idle"
        BY <1>1, <1>3, <2>1 DEF WrittenOff
    <2>5. ~WrittenOff(p)
        BY <1>3, <2>1 DEF WrittenOff
    <2>6. CASE monPc'[k] = "create"
        BY <1>1, <2>1, <2>2, <2>3, <2>4, <2>5, <2>6, LifecycleStutters
    <2>7. CASE monPc'[k] = "idle"
        <3>1. Abandoned' = Abandoned \cup {p}
            BY <1>1, <2>3, <2>4, <2>7 DEF Abandoned
        <3>2. p \notin Serving
            BY <2>1 DEF Serving
        <3>3. Lifecycle!Abandon(p)
            BY <1>1, <2>2, <3>1, <3>2 DEF Lifecycle!Abandon, Serving, Generation, Abandoned
        <3> QED
            BY <1>1, <3>3, LifecycleDisjuncts
    <2> QED
        BY <2>1, <2>6, <2>7
<1>8. CASE Insert(k)
    <2>1. /\ monPc[k] = "insert" /\ monPc'[k] \in {"notify", "idle"} /\ inc' = inc
          /\ client' = [client EXCEPT ![p] = inc[p]] /\ client[p] = 0
        BY <1>2, <1>3, <1>8 DEF Insert, MonitorAt, Goto, ProcessInv
    <2>2. Serving' = Serving \cup {p} /\ p \notin Serving
        BY <1>1, <1>2, <2>1 DEF Serving
    <2>3. Generation[p] = inc[p] - 1 /\ Generation' = [Generation EXCEPT ![p] = @ + 1]
        <3>1. /\ HandledAt(p, {"insert"}) /\ ~HandledAt(p, {"insert"})'
              /\ \A q \in Plugins \ {p} : HandledAt(q, {"insert"})' <=> HandledAt(q, {"insert"})
            BY <1>3, <1>4, <2>1
        <3>2. Generation \in [Plugins -> Int] /\ Generation' \in [Plugins -> Int]
            BY <2>1 DEF Generation
        <3>3. Generation[p] = inc[p] - 1 /\ Generation'[p] = inc[p]
            BY <1>1, <2>1, <3>1 DEF Generation
        <3>4. \A q \in Plugins \ {p} : Generation'[q] = Generation[q]
            BY <2>1, <3>1 DEF Generation
        <3> QED
            BY <1>1, <3>2, <3>3, <3>4
    <2>4. Abandoned' = Abandoned /\ p \notin Abandoned
        BY <1>1, <1>2, <1>3, <1>4, <2>1 DEF Abandoned, WrittenOff
    <2>5. Generation[p] <= Threshold
        BY <1>1, <1>2, <2>3 DEF BudgetInv
    <2>6. Lifecycle!Replace(p)
        BY <1>1, <2>2, <2>3, <2>4, <2>5 DEF Lifecycle!Replace, Serving, Generation, Abandoned
    <2> QED
        BY <1>1, <2>6, LifecycleDisjuncts
<1> QED
    BY <1>5, <1>6, <1>7, <1>8 DEF MonitorStep

LEMMA LifecycleStep == IInv /\ LoadedInv /\ [Next]_vars => [Lifecycle!Next]_(Lifecycle!vars)
<1> SUFFICES ASSUME IInv, LoadedInv, [Next]_vars PROVE Lifecycle!Next \/ UNCHANGED mapped
    BY DEF Lifecycle!vars, mapped, Serving, Generation, Abandoned
<1> USE KindFacts DEF mainVars, procVars, monVars
<1>1. CASE StartNext
    BY <1>1, LifecycleStart
<1>2. CASE ProcessNext \/ ShutdownNext \/ UNCHANGED vars
    <2>1. UNCHANGED <<isStarted, client, inc, monPlugin, monPc>>
        BY <1>2 DEF ProcessNext, Crash, PingFails, WatcherExits, ShutdownNext, Signal, BeginShutdown,
            Kill, ShutdownReturns, Exit, vars
    <2> QED
        BY <2>1, LifecycleStutters DEF Generation, WrittenOff, HandledAt
<1>3. ASSUME NEW k \in Kinds, NEW p \in Plugins, Receive(k, p)
      PROVE  UNCHANGED mapped
    <2>1. /\ UNCHANGED <<isStarted, client, inc>>
          /\ \A pcs : pcs \cap {"idle", "release"} = {} =>
                \A q \in Plugins : HandledAt(q, pcs)' <=> HandledAt(q, pcs)
        BY <1>3 DEF IInv, TypeOK, Receive, MonitorAt, Goto, HandledAt
    <2> QED
        BY <2>1, LifecycleStutters DEF Generation, WrittenOff
<1>4. ASSUME NEW k \in Kinds, MonitorStep(k)
      PROVE  Lifecycle!Next \/ UNCHANGED mapped
    <2>1. PICK p : p = monPlugin[k]
        OBVIOUS
    <2> QED
        BY <1>4, <2>1, LifecycleMonitor
<1>5. ASSUME NotifyScheduler \/ \E k \in Kinds : MonitorExits(k)
      PROVE  UNCHANGED mapped
    <2>1. /\ UNCHANGED <<isStarted, client, inc>>
          /\ \A pcs : pcs \cap {"idle", "notify", "exited"} = {} =>
                \A q \in Plugins : HandledAt(q, pcs)' <=> HandledAt(q, pcs)
        BY <1>5 DEF IInv, TypeOK, NotifyScheduler, MonitorExits, MonitorAt, Goto, HandledAt
    <2> QED
        BY <2>1, LifecycleStutters DEF Generation, WrittenOff
<1> QED
    BY <1>1, <1>2, <1>3, <1>4, <1>5 DEF Next, MonitorNext

\* Every step of the manager is a step of the lifecycle it promises, or one the rest of
\* the agent cannot see: clients appear, are withdrawn, replaced and abandoned in no
\* other way (ImplementsLifecycle).
THEOREM ImplementsLifecycleHolds == SafetySpec => ImplementsLifecycle
<1>1. Init => LoadedInv
    BY DEF Init, LoadedInv
<1>2. IInv /\ LoadedInv /\ [Next]_vars => LoadedInv'
    BY LoadedInvStep
<1>3. Init => Lifecycle!Init
    BY LifecycleInit
<1>4. IInv /\ LoadedInv /\ [Next]_vars => [Lifecycle!Next]_(Lifecycle!vars)
    BY LifecycleStep
<1> QED
    BY <1>1, <1>2, <1>3, <1>4, InductiveInvariant, PTL DEF SafetySpec, ImplementsLifecycle, Lifecycle!Spec

=============================================================================
