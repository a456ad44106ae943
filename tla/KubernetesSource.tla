-------------------------- MODULE KubernetesSource -------------------------
(***************************************************************************)
(* The process of the Kubernetes source plugin                             *)
(* (internal/source/kubernetes).  Every Stream call adds a configuration   *)
(* and replaces the background process by one that serves all              *)
(* configurations: it stops the functions of the previous one, one for     *)
(* each kubeconfig, waits for them and starts new ones.  A function runs   *)
(* informers, whose listeners hand each event to the configurations that   *)
(* match it, over the unbuffered channel their Stream call returned.       *)
(*                                                                         *)
(* A background process is named by the call that started it.  Time is the *)
(* number of background processes started so far: all that the code does   *)
(* with a time stamp is to compare it with the start of the present one.   *)
(* The clocks of the cluster and of the plugin are taken to agree.         *)
(***************************************************************************)
EXTENDS Integers, FiniteSets

CONSTANTS
    Calls,        \* Stream calls, one per dispatch of the agent's scheduler
    InvalidCalls, \* those without a kubeconfig or with an invalid configuration
    Keys,         \* configuration keys, "source_interactive/bool"
    KeyOf,        \* the key of a call
    Kubes,        \* kubeconfigs
    KubeOf,       \* the kubeconfig of a key
    Events,       \* changes of the cluster, each of which happens at most once
    Updates,      \* those that are updates of an object; the others create one
    Matching,     \* the keys that have a route whose constraints an event satisfies
    Changed,      \* for an update, those with a route that names no fields or one that changed
    Filtered,     \* <<key, event>>: a filter of the configuration skips the event
    Discarded,    \* <<key, event>>: a recommendation fails, or only recommendations are wanted
    NoCall, NoKey, NoEvent

ASSUME KubernetesSourceAssumption ==
    /\ IsFiniteSet(Keys)
    /\ InvalidCalls \subseteq Calls /\ NoCall \notin Calls
    /\ KeyOf \in [Calls -> Keys] /\ NoKey \notin Keys
    /\ KubeOf \in [Keys -> Kubes]
    /\ Updates \subseteq Events /\ NoEvent \notin Events
    /\ Matching \in [Events -> SUBSET Keys]
    /\ Changed \in [Events -> SUBSET Keys]
    /\ Filtered \subseteq Keys \X Events
    /\ Discarded \subseteq Keys \X Events

VARIABLES
    up,         \* the process has not exited
    mu,         \* the call that holds Source.mu
    bgMu,       \* the call that holds backgroundProcessor.mu for writing
    pc,         \* where a call is
    store,      \* configurationStore: channel and state of the configuration of a key
    started,    \* backgroundProcessor.startTime
    current,    \* the background process (cancelCtxFn, errGroup) of the processor
    cancelled,  \* the background processes whose context is cancelled
    cloned,     \* CloneByKubeconfig: the channels a background process was given
    bg,         \* where the function of a kubeconfig is
    inactive,   \* the configurations it has still to activate
    queue,      \* the events its informers have not delivered yet
    handler,    \* its listeners: one for the created and one for the updated objects
    happened,   \* the events that happened
    stamp,      \* their time
    delivered   \* how often an event was sent on the channel of a call

streamVars  == <<mu, bgMu, pc, started, current, cancelled, cloned>>
clusterVars == <<happened, stamp>>
vars == <<up, streamVars, store, bg, inactive, queue, handler, clusterVars, delivered>>

Functions == Calls \X Kubes
Listeners == Functions \X {"create", "update"}

Unknown == [ch |-> NoCall, active |-> FALSE]
IdleHandler == [at |-> "idle", event |-> NoEvent, todo |-> [k \in Keys |-> 0],
                skip |-> FALSE, key |-> NoKey, ch |-> NoCall]

TypeOK ==
    /\ up \in BOOLEAN
    /\ mu \in Calls \cup {NoCall}
    /\ bgMu \in Calls \cup {NoCall}
    /\ pc \in [Calls -> {"called", "refused", "store", "stop", "wait", "run", "serving"}]
    /\ store \in [Keys -> [ch : Calls \cup {NoCall}, active : BOOLEAN]]
    /\ started \in Nat
    /\ current \in Calls \cup {NoCall}
    /\ cancelled \subseteq Calls
    /\ cloned \in [Calls -> [Keys -> Calls \cup {NoCall}]]
    /\ bg \in [Functions -> {"off", "configure", "watching", "draining", "done"}]
    /\ inactive \in [Functions -> SUBSET Keys]
    /\ queue \in [Functions -> SUBSET Events]
    /\ handler \in [Listeners -> [at : {"idle", "age", "loop", "send"},
                                  event : Events \cup {NoEvent}, todo : [Keys -> Nat],
                                  skip : BOOLEAN, key : Keys \cup {NoKey},
                                  ch : Calls \cup {NoCall}]]
    /\ happened \subseteq Events
    /\ stamp \in [Events -> Nat]
    /\ delivered \in [Calls -> [Events -> Nat]]

Init ==
    /\ up = TRUE
    /\ mu = NoCall
    /\ bgMu = NoCall
    /\ pc = [c \in Calls |-> "called"]
    /\ store = [k \in Keys |-> Unknown]
    /\ started = 0
    /\ current = NoCall
    /\ cancelled = {}
    /\ cloned = [c \in Calls |-> [k \in Keys |-> NoCall]]
    /\ bg = [f \in Functions |-> "off"]
    /\ inactive = [f \in Functions |-> {}]
    /\ queue = [f \in Functions |-> {}]
    /\ handler = [l \in Listeners |-> IdleHandler]
    /\ happened = {}
    /\ stamp = [e \in Events |-> 0]
    /\ delivered = [c \in Calls |-> [e \in Events |-> 0]]

-----------------------------------------------------------------------------
(* Stream                                                                  *)

CallAt(c, at) == up /\ pc[c] = at

Advance(c, at) == pc' = [pc EXCEPT ![c] = at]

Lock(c) ==
    /\ CallAt(c, "called")
    /\ mu = NoCall
    /\ c \notin InvalidCalls
    /\ mu' = c
    /\ Advance(c, "store")
    /\ UNCHANGED <<up, bgMu, started, current, cancelled, cloned, store, bg, inactive, queue,
                   handler, clusterVars, delivered>>

\* ValidateKubeConfigProvided or MergeConfigs fails.
Refuse(c) ==
    /\ CallAt(c, "called")
    /\ mu = NoCall
    /\ c \in InvalidCalls
    /\ Advance(c, "refused")
    /\ UNCHANGED <<up, mu, bgMu, started, current, cancelled, cloned, store, bg, inactive, queue,
                   handler, clusterVars, delivered>>

\* The new configuration replaces one of the same key and is not active yet.
Store(c) ==
    /\ CallAt(c, "store")
    /\ store' = [store EXCEPT ![KeyOf[c]] = [ch |-> c, active |-> FALSE]]
    /\ Advance(c, "stop")
    /\ UNCHANGED <<up, mu, bgMu, started, current, cancelled, cloned, bg, inactive, queue,
                   handler, clusterVars, delivered>>

\* StopAndWait: it holds the lock of the processor from here until all
\* functions of the present background process have returned.
Stop(c) ==
    /\ CallAt(c, "stop")
    /\ bgMu = NoCall
    /\ bgMu' = c
    /\ cancelled' = cancelled \cup ({current} \ {NoCall})
    /\ Advance(c, "wait")
    /\ UNCHANGED <<up, mu, started, current, cloned, store, bg, inactive, queue,
                   handler, clusterVars, delivered>>

Returned(f) == bg[f] \in {"off", "done"}

FaultyStopReturns(c) ==
    /\ CallAt(c, "wait")
    /\ bgMu' = NoCall
    /\ Advance(c, "run")
    /\ UNCHANGED <<up, mu, started, current, cancelled, cloned, store, bg, inactive, queue,
                   handler, clusterVars, delivered>>

StopReturns(c) ==
    /\ CallAt(c, "wait")
    /\ current # NoCall => \A q \in Kubes : Returned(<<current, q>>)
    /\ bgMu' = NoCall
    /\ Advance(c, "run")
    /\ UNCHANGED <<up, mu, started, current, cancelled, cloned, store, bg, inactive, queue,
                   handler, clusterVars, delivered>>

\* CloneByKubeconfig and Run, then Stream returns the channel.
Configured(c, q) == {k \in Keys : cloned[c][k] # NoCall /\ KubeOf[k] = q}

FaultyRunKeepsStartTime(c) ==
    LET stored == {k \in Keys : store[k].ch # NoCall}
        added == [f \in Functions |-> IF f[1] = c THEN {k \in stored : KubeOf[k] = f[2]} ELSE {}]
    IN  /\ CallAt(c, "run")
        /\ bgMu = NoCall
        /\ started' = IF started = 0 THEN 1 ELSE started
        /\ current' = c
        /\ cloned' = [cloned EXCEPT ![c] = [k \in Keys |-> store[k].ch]]
        /\ inactive' = [f \in Functions |-> inactive[f] \cup added[f]]
        /\ bg' = [f \in Functions |-> IF added[f] # {} THEN "configure" ELSE bg[f]]
        /\ mu' = NoCall
        /\ Advance(c, "serving")
        /\ UNCHANGED <<up, bgMu, cancelled, store, queue, handler, clusterVars, delivered>>

Run(c) ==
    LET stored == {k \in Keys : store[k].ch # NoCall}
        added == [f \in Functions |-> IF f[1] = c THEN {k \in stored : KubeOf[k] = f[2]} ELSE {}]
    IN  /\ CallAt(c, "run")
        /\ bgMu = NoCall
        /\ started' = started + 1
        /\ current' = c
        /\ cloned' = [cloned EXCEPT ![c] = [k \in Keys |-> store[k].ch]]
        /\ inactive' = [f \in Functions |-> inactive[f] \cup added[f]]
        /\ bg' = [f \in Functions |-> IF added[f] # {} THEN "configure" ELSE bg[f]]
        /\ mu' = NoCall
        /\ Advance(c, "serving")
        /\ UNCHANGED <<up, bgMu, cancelled, store, queue, handler, clusterVars, delivered>>

-----------------------------------------------------------------------------
(* The function of a kubeconfig: configureProcessForSources                *)

FunctionAt(f, at) == up /\ bg[f] = at

Enter(f, at) == bg' = [bg EXCEPT ![f] = at]

\* It does not look at its context while it configures, and stores the copy
\* it was given, also over a configuration that was stored since.
Activate(f, k) ==
    /\ FunctionAt(f, "configure")
    /\ k \in inactive[f]
    /\ store' = [store EXCEPT ![k] = [ch |-> cloned[f[1]][k], active |-> TRUE]]
    /\ inactive' = [inactive EXCEPT ![f] = @ \ {k}]
    /\ UNCHANGED <<up, streamVars, bg, queue, handler, clusterVars, delivered>>

\* NewClient or the registration of the informers fails: exitOnError.
ConfigureFails(f) ==
    /\ FunctionAt(f, "configure")
    /\ up' = FALSE
    /\ UNCHANGED <<streamVars, store, bg, inactive, queue, handler, clusterVars, delivered>>

Routed(f, e) == Configured(f[1], f[2]) \cap Matching[e] # {}

FaultyWatch(f) ==
    /\ FunctionAt(f, "configure")
    /\ Enter(f, "watching")
    /\ queue' = [queue EXCEPT ![f] = {e \in happened \ Updates : Routed(f, e)}]
    /\ UNCHANGED <<up, streamVars, store, inactive, handler, clusterVars, delivered>>

\* The informers start: they report every object that is there as added.
Watch(f) ==
    /\ FunctionAt(f, "configure")
    /\ inactive[f] = {}
    /\ Enter(f, "watching")
    /\ queue' = [queue EXCEPT ![f] = {e \in happened \ Updates : Routed(f, e)}]
    /\ UNCHANGED <<up, streamVars, store, inactive, handler, clusterVars, delivered>>

\* <-stopCh
StopInformers(f) ==
    /\ FunctionAt(f, "watching")
    /\ f[1] \in cancelled
    /\ Enter(f, "draining")
    /\ UNCHANGED <<up, streamVars, store, inactive, queue, handler, clusterVars, delivered>>

\* Shutdown waits for the listeners; events they have not begun are dropped.
InformersStopped(f) ==
    /\ FunctionAt(f, "draining")
    /\ handler[<<f, "create">>].at = "idle" /\ handler[<<f, "update">>].at = "idle"
    /\ queue' = [queue EXCEPT ![f] = {}]
    /\ Enter(f, "done")
    /\ UNCHANGED <<up, streamVars, store, inactive, handler, clusterVars, delivered>>

-----------------------------------------------------------------------------
(* The cluster                                                             *)

\* Informers that watch see the event at some later time.  The time stamp of
\* a created object has a resolution of a second: an object created right
\* after the start of the background process may look older than it.
Happen(e, t) ==
    /\ up
    /\ e \notin happened
    /\ t = started \/ e \notin Updates
    /\ happened' = happened \cup {e}
    /\ stamp' = [stamp EXCEPT ![e] = t]
    /\ queue' = [f \in Functions |->
                    IF bg[f] = "watching" /\ Routed(f, e) THEN queue[f] \cup {e} ELSE queue[f]]
    /\ UNCHANGED <<up, streamVars, store, bg, inactive, handler, delivered>>

-----------------------------------------------------------------------------
(* A listener: handleEvent and handleEventFn                               *)

ListenerAt(l, at) == up /\ handler[l].at = at

ListenerOf(f, e) == <<f, IF e \in Updates THEN "update" ELSE "create">>

\* qualifyEvent: an update qualifies a source that matches once for every
\* route that lets it through, whichever source that route belongs to.
Copies(f, e, k) ==
    IF k \notin Configured(f[1], f[2]) \cap Matching[e] THEN 0
    ELSE IF e \in Updates THEN Cardinality(Configured(f[1], f[2]) \cap Changed[e])
    ELSE 1

\* A listener handles one event at a time.
Take(f, e) ==
    LET l == ListenerOf(f, e)
    IN  /\ FunctionAt(f, "watching") \/ FunctionAt(f, "draining")
        /\ ListenerAt(l, "idle")
        /\ e \in queue[f]
        /\ queue' = [queue EXCEPT ![f] = @ \ {e}]
        /\ handler' = [handler EXCEPT ![l] =
                          [at |-> "age", event |-> e, todo |-> [k \in Keys |-> Copies(f, e, k)],
                           skip |-> FALSE, key |-> NoKey, ch |-> NoCall]]
        /\ UNCHANGED <<up, streamVars, store, bg, inactive, clusterVars, delivered>>

\* StartTime takes the lock of the processor for reading.  An update is
\* stamped when it is handled, a created object when it was created.
Old(e) == e \notin Updates /\ stamp[e] < started

CheckAge(l) ==
    /\ ListenerAt(l, "age")
    /\ bgMu = NoCall
    /\ handler' = [handler EXCEPT ![l] =
                      IF Old(handler[l].event) THEN IdleHandler ELSE [handler[l] EXCEPT !.at = "loop"]]
    /\ UNCHANGED <<up, streamVars, store, bg, inactive, queue, clusterVars, delivered>>

\* The event that goes on to the next source is the one the filters of this
\* source returned, with its skip flag.
Skips(l, k) ==
    /\ store[k].active
    /\ handler[l].skip \/ <<k, handler[l].event>> \in Filtered

Drops(l, k) ==
    \/ ~store[k].active
    \/ Skips(l, k)
    \/ <<k, handler[l].event>> \in Discarded

FaultyDrop(l, k) ==
    /\ ListenerAt(l, "loop")
    /\ handler[l].todo[k] > 0
    /\ Drops(l, k)
    /\ handler' = [handler EXCEPT ![l] = IdleHandler]
    /\ UNCHANGED <<up, streamVars, store, bg, inactive, queue, clusterVars, delivered>>

\* Nothing is sent to this source; the loop continues.
Drop(l, k) ==
    /\ ListenerAt(l, "loop")
    /\ handler[l].todo[k] > 0
    /\ Drops(l, k)
    /\ handler' = [handler EXCEPT ![l].todo[k] = @ - 1,
                                  ![l].skip = @ \/ Skips(l, k)]
    /\ UNCHANGED <<up, streamVars, store, bg, inactive, queue, clusterVars, delivered>>

\* The routes of the sources are in no particular order.
BuildMessage(l, k) ==
    /\ ListenerAt(l, "loop")
    /\ handler[l].todo[k] > 0
    /\ ~Drops(l, k)
    /\ handler' = [handler EXCEPT ![l].at = "send", ![l].key = k, ![l].ch = store[k].ch]
    /\ UNCHANGED <<up, streamVars, store, bg, inactive, queue, clusterVars, delivered>>

\* Rendezvous with the loop that sends the messages of a call to the agent.
Send(l) ==
    LET h == handler[l]
    IN  /\ ListenerAt(l, "send")
        /\ pc[h.ch] = "serving"
        /\ delivered' = [delivered EXCEPT ![h.ch][h.event] = @ + 1]
        /\ handler' = [handler EXCEPT ![l].at = "loop", ![l].todo[h.key] = @ - 1,
                                      ![l].key = NoKey, ![l].ch = NoCall]
        /\ UNCHANGED <<up, streamVars, store, bg, inactive, queue, clusterVars>>

Finish(l) ==
    /\ ListenerAt(l, "loop")
    /\ \A k \in Keys : handler[l].todo[k] = 0
    /\ handler' = [handler EXCEPT ![l] = IdleHandler]
    /\ UNCHANGED <<up, streamVars, store, bg, inactive, queue, clusterVars, delivered>>

-----------------------------------------------------------------------------

StreamStep(c) == Lock(c) \/ Refuse(c) \/ Store(c) \/ Stop(c) \/ StopReturns(c) \/ Run(c)

FunctionStep(f) ==
    (\E k \in Keys : Activate(f, k)) \/ Watch(f) \/ StopInformers(f) \/ InformersStopped(f)

ListenerStep(l) ==
    \/ \E e \in Events : l = ListenerOf(l[1], e) /\ Take(l[1], e)
    \/ CheckAge(l)
    \/ \E k \in Keys : Drop(l, k) \/ BuildMessage(l, k)
    \/ Send(l)
    \/ Finish(l)

Next ==
    \/ \E c \in Calls : StreamStep(c)
    \/ \E f \in Functions : FunctionStep(f) \/ ConfigureFails(f)
    \/ \E l \in Listeners : ListenerStep(l)
    \/ \E e \in Events : \E t \in {started, started - 1} \cap Nat : Happen(e, t)

\* The goroutines that can run do run; nothing makes events happen or the
\* configuration fail.
Fairness ==
    /\ \A c \in Calls : WF_vars(StreamStep(c))
    /\ \A f \in Functions : WF_vars(FunctionStep(f))
    /\ \A l \in Listeners : WF_vars(ListenerStep(l))

SafetySpec == Init /\ [][Next]_vars

Spec == SafetySpec /\ Fairness

-----------------------------------------------------------------------------
(* Properties                                                              *)

Delivered(k, e) == \E c \in Calls : KeyOf[c] = k /\ delivered[c][e] > 0

\* Every Stream call waits for the functions it stopped before it starts new
\* ones, and calls are serialised: at no time are the informers of two
\* background processes there together.
OneBackgroundProcess ==
    \A f, g \in Functions : ~Returned(f) /\ ~Returned(g) => f[1] = g[1]

\* A configuration that is to be sent an event is active, unless its key is
\* being streamed again (source.go: "ActiveSourceConfig not found for source.
\* This seems to be a bug").
ActiveWhenHandled ==
    \A l \in Listeners, k \in Keys :
        handler[l].at = "loop" /\ handler[l].todo[k] > 0 =>
            store[k].active \/ \E c \in Calls : KeyOf[c] = k /\ pc[c] \in {"stop", "wait"}

\* Each background process reports the objects that are there as added, and
\* only the time stamps tell those that are new: across all replacements of
\* the background process a source is told at most once that an object was
\* created, also when its key is streamed again.
CreatedReportedOnce ==
    \A e \in Events \ Updates : \A c, d \in Calls :
        KeyOf[c] = KeyOf[d] /\ delivered[c][e] > 0 /\ delivered[d][e] > 0
            => c = d /\ delivered[c][e] = 1

\* Filters skip the event for a source of the event's routes.
SkippedBySome(e) == \E k \in Matching[e] : <<k, e>> \in Filtered

\* Once all calls serve, an event that the informers see is delivered to every
\* source that matches it and does not discard it, whatever the other sources
\* do with it short of skipping it: the informers of the last background
\* process are never replaced.
NewEventDelivered ==
    \A k \in Keys, e \in Events :
        (/\ up /\ \A c \in Calls \ InvalidCalls : pc[c] = "serving"
         /\ k \in Matching[e] /\ (e \in Updates => k \in Changed[e]) /\ <<k, e>> \notin Discarded /\ ~SkippedBySome(e)
         /\ current # NoCall /\ e \in queue[<<current, KubeOf[k]>>] /\ cloned[current][k] # NoCall
         /\ ~Old(e))
            ~> (Delivered(k, e) \/ ~up)

\* bg_processor.go:54: "StopAndWait stops the background processes and waits
\* for them to finish".  A call that waits for them gets on.
StopAndWaitReturns == \A c \in Calls : pc[c] = "wait" ~> (pc[c] # "wait" \/ ~up)
=============================================================================
