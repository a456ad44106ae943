----------------------- MODULE KubernetesSource_proofs ----------------------
(***************************************************************************)
(* Proofs about KubernetesSource, for every set of calls, keys,            *)
(* kubeconfigs and events.                                                 *)
(***************************************************************************)
EXTENDS KubernetesSource, FiniteSetTheorems, TLAPS

(* The two locks, and what they protect: a call that is about to start a   *)
(* background process finds all functions returned, and those that have    *)
(* not belong to the present background process.                           *)
StreamInv ==
    /\ \A c \in Calls : pc[c] \in {"store", "stop", "wait", "run"} <=> mu = c
    /\ \A c \in Calls : pc[c] = "wait" <=> bgMu = c
    /\ \A c \in Calls : pc[c] = "run" => \A f \in Functions : Returned(f)
    /\ \A f \in Functions : ~Returned(f) => f[1] = current
    /\ \A f \in Functions : bg[f] # "off" => pc[f[1]] = "serving"

(* A configuration has the channel of a call with its key, in the store    *)
(* and in the copies, also when an older copy is stored again.             *)
StoreInv ==
    /\ \A k \in Keys : store[k].ch # NoCall => KeyOf[store[k].ch] = k
    /\ \A k \in Keys : store[k].active => store[k].ch # NoCall
    /\ \A c \in Calls, k \in Keys : cloned[c][k] # NoCall => KeyOf[cloned[c][k]] = k

Owned(f) == Configured(f[1], f[2])
Restreamed(k) == \E c \in Calls : KeyOf[c] = k /\ pc[c] \in {"stop", "wait"}

(* A function has activated the configurations it no longer has to.        *)
FunctionInv ==
    \A f \in Functions :
        /\ inactive[f] \subseteq Owned(f)
        /\ inactive[f] # {} => bg[f] = "configure"
        /\ ~Returned(f) =>
             \A k \in Owned(f) \ inactive[f] : store[k].active \/ Restreamed(k)
        /\ queue[f] \subseteq happened

(* A listener that handles an event.                                       *)
ListenerInv(l) ==
    LET f == l[1]
        h == handler[l]
    IN  h.at # "idle" =>
          /\ bg[f] \in {"watching", "draining"}
          /\ h.event \in happened
          /\ h.event \notin queue[f]
          /\ l = ListenerOf(f, h.event)
          /\ \A k \in Keys : h.todo[k] > 0 => k \in Owned(f)
          /\ h.event \notin Updates =>
               /\ \A k \in Keys : h.todo[k] <= 1
               /\ h.at # "age" => stamp[h.event] = started
          /\ h.at = "send" =>
               /\ h.key \in Keys /\ h.todo[h.key] > 0
               /\ h.ch \in Calls /\ KeyOf[h.ch] = h.key

(* An object whose creation a source was told of is not on its way to that *)
(* source again as long as its time stamp does not make it old.            *)
Passed(f, k, e) ==
    LET h == handler[<<f, "create">>]
    IN  /\ bg[f] \in {"watching", "draining", "done"}
        /\ e \notin queue[f]
        /\ h.at # "idle" /\ h.event = e => h.todo[k] = 0

OnceInv ==
    /\ \A e \in happened : stamp[e] <= started
    /\ \A e \in Events \ happened : \A c \in Calls : delivered[c][e] = 0
    /\ \A k \in Keys, e \in Events \ Updates :
         Delivered(k, e) /\ stamp[e] = started =>
            \A f \in Functions : f[1] = current /\ f[2] = KubeOf[k] => Passed(f, k, e)
    /\ CreatedReportedOnce

IInv ==
    /\ TypeOK
    /\ StreamInv
    /\ StoreInv
    /\ FunctionInv
    /\ \A l \in Listeners : ListenerInv(l)
    /\ OnceInv

-----------------------------------------------------------------------------
Handler == [at : {"idle", "age", "loop", "send"}, event : Events \cup {NoEvent}, todo : [Keys -> Nat],
            skip : BOOLEAN, key : Keys \cup {NoKey}, ch : Calls \cup {NoCall}]

(* How many copies a function gets of an event: a source that matches a    *)
(* created object is told once.                                            *)
LEMMA CopiesFacts ==
    ASSUME NEW f \in Functions, NEW e \in Events, NEW k \in Keys
    PROVE  /\ Copies(f, e, k) \in Nat
           /\ Copies(f, e, k) > 0 => k \in Owned(f)
           /\ e \notin Updates => Copies(f, e, k) <= 1
<1>1. Cardinality(Owned(f) \cap Changed[e]) \in Nat
    <2>1. Owned(f) \cap Changed[e] \subseteq Keys
        BY DEF Owned, Configured
    <2> QED
        BY <2>1, KubernetesSourceAssumption, FS_Subset, FS_CardinalityType
<1> QED
    BY <1>1 DEF Copies, Owned

LEMMA IdleFacts ==
    TypeOK => IdleHandler \in Handler /\ handler \in [Listeners -> Handler]
BY DEF IdleHandler, Handler, TypeOK

(* A step of a listener changes nothing else of the process but what is    *)
(* queued for it and what it sends.                                        *)
LEMMA ListenerFrame ==
    ASSUME NEW l \in Listeners, ListenerStep(l)
    PROVE  UNCHANGED <<up, mu, bgMu, pc, started, current, cancelled, cloned, store, bg, inactive,
                       happened, stamp>>
BY DEF ListenerStep, Take, CheckAge, Drop, BuildMessage, Send, Finish, streamVars, clusterVars

(* The steps of the functions leave the locks and the calls alone.         *)
LEMMA FunctionFrame ==
    ASSUME NEW f \in Functions, FunctionStep(f) \/ ConfigureFails(f)
    PROVE  UNCHANGED <<mu, bgMu, pc, started, current, cancelled, cloned, handler, happened, stamp, delivered>>
BY DEF FunctionStep, ConfigureFails, Activate, Watch, StopInformers, InformersStopped, streamVars, clusterVars

LEMMA StreamFrame ==
    ASSUME NEW c \in Calls, StreamStep(c)
    PROVE  UNCHANGED <<queue, handler, happened, stamp, delivered>>
BY DEF StreamStep, Lock, Refuse, Store, Stop, StopReturns, Run, clusterVars

-----------------------------------------------------------------------------
LEMMA InitIInv == Init => IInv
<1> SUFFICES ASSUME Init PROVE IInv
    OBVIOUS
<1> USE KubernetesSourceAssumption
<1>1. TypeOK
    <2>1. IdleHandler \in Handler
        BY DEF IdleHandler, Handler
    <2>2. handler \in [Listeners -> Handler]
        BY <2>1 DEF Init
    <2> QED
        BY <2>2 DEF Init, TypeOK, Handler, Unknown
<1>2. StreamInv
    BY DEF Init, StreamInv, Returned, Functions
<1>3. StoreInv
    BY DEF Init, StoreInv, Unknown
<1>4. FunctionInv
    BY DEF Init, FunctionInv, Returned
<1>5. \A l \in Listeners : ListenerInv(l)
    BY DEF Init, ListenerInv, IdleHandler
<1>6. OnceInv
    <2>1. \A c \in Calls, e \in Events : delivered[c][e] = 0
        BY DEF Init
    <2>2. \A k \in Keys, e \in Events : ~Delivered(k, e)
        BY <2>1 DEF Delivered
    <2>3. CreatedReportedOnce
        BY <2>1 DEF CreatedReportedOnce
    <2> QED
        BY <2>1, <2>2, <2>3 DEF OnceInv, Init
<1> QED
    BY <1>1, <1>2, <1>3, <1>4, <1>5, <1>6 DEF IInv

LEMMA TypeStep == IInv /\ [Next]_vars => TypeOK'
<1> SUFFICES ASSUME IInv, [Next]_vars PROVE TypeOK'
    OBVIOUS
<1> USE KubernetesSourceAssumption DEF streamVars, clusterVars
<1>1. TypeOK
    BY DEF IInv
<1>2. ASSUME NEW c \in Calls, StreamStep(c) PROVE TypeOK'
    <2>1. CASE Lock(c)
        BY <1>1, <2>1 DEF TypeOK, Lock, Advance
    <2>2. CASE Refuse(c)
        BY <1>1, <2>2 DEF TypeOK, Refuse, Advance
    <2>3. CASE Store(c)
        BY <1>1, <2>3 DEF TypeOK, Store, Advance
    <2>4. CASE Stop(c)
        BY <1>1, <2>4 DEF TypeOK, Stop, Advance
    <2>5. CASE StopReturns(c)
        BY <1>1, <2>5 DEF TypeOK, StopReturns, Advance
    <2>6. CASE Run(c)
        <3>1. inactive' \in [Functions -> SUBSET Keys]
            BY <1>1, <2>6 DEF TypeOK, Run
        <3>2. bg' \in [Functions -> {"off", "configure", "watching", "draining", "done"}]
            BY <1>1, <2>6 DEF TypeOK, Run
        <3>3. cloned' \in [Calls -> [Keys -> Calls \cup {NoCall}]]
            BY <1>1, <2>6 DEF TypeOK, Run
        <3>4. /\ started' \in Nat /\ current' \in Calls /\ mu' = NoCall
              /\ pc' \in [Calls -> {"called", "refused", "store", "stop", "wait", "run", "serving"}]
              /\ UNCHANGED <<up, bgMu, cancelled, store, queue, handler, clusterVars, delivered>>
            BY <1>1, <2>6 DEF TypeOK, Run, Advance
        <3> QED
            BY <1>1, <3>1, <3>2, <3>3, <3>4 DEF TypeOK
    <2> QED
        BY <1>2, <2>1, <2>2, <2>3, <2>4, <2>5, <2>6 DEF StreamStep
<1>3. ASSUME NEW f \in Functions, FunctionStep(f) \/ ConfigureFails(f) PROVE TypeOK'
    <2>1. ASSUME NEW k \in Keys, Activate(f, k) PROVE TypeOK'
        <3>1. f[1] \in Calls
            BY DEF Functions
        <3> QED
            BY <1>1, <2>1, <3>1 DEF TypeOK, Activate
    <2>2. CASE Watch(f)
        BY <1>1, <2>2 DEF TypeOK, Watch, Enter
    <2>3. CASE StopInformers(f) \/ InformersStopped(f) \/ ConfigureFails(f)
        BY <1>1, <2>3 DEF TypeOK, StopInformers, InformersStopped, ConfigureFails, Enter
    <2> QED
        BY <1>3, <2>1, <2>2, <2>3 DEF FunctionStep
<1>4. ASSUME NEW l \in Listeners, ListenerStep(l) PROVE TypeOK'
    <2>1. /\ handler \in [Listeners -> Handler] /\ IdleHandler \in Handler
          /\ queue \in [Functions -> SUBSET Events]
          /\ delivered \in [Calls -> [Events -> Nat]]
          /\ l[1] \in Functions
        BY <1>1, IdleFacts DEF TypeOK, Listeners
    <2> SUFFICES /\ handler' \in [Listeners -> Handler]
                 /\ queue' \in [Functions -> SUBSET Events]
                 /\ delivered' \in [Calls -> [Events -> Nat]]
        BY <1>1, <1>4, ListenerFrame DEF TypeOK, Handler
    <2>2. ASSUME NEW e \in Events, l = ListenerOf(l[1], e), Take(l[1], e)
          PROVE  handler' \in [Listeners -> Handler] /\ queue' \in [Functions -> SUBSET Events] /\ delivered' = delivered
        <3> DEFINE h == [at |-> "age", event |-> e, todo |-> [k \in Keys |-> Copies(l[1], e, k)],
                         skip |-> FALSE, key |-> NoKey, ch |-> NoCall]
        <3>1. h \in Handler
            BY <2>1, CopiesFacts DEF Handler
        <3>2. handler' = [handler EXCEPT ![l] = h]
            BY <2>2 DEF Take
        <3> QED
            BY <2>1, <2>2, <3>1, <3>2 DEF Take
    <2>3. CASE CheckAge(l) \/ Finish(l)
        <3>1. handler[l] \in Handler /\ [handler[l] EXCEPT !.at = "loop"] \in Handler
            BY <2>1 DEF Handler
        <3>2. \E h \in Handler : handler' = [handler EXCEPT ![l] = h]
            BY <2>1, <2>3, <3>1 DEF CheckAge, Finish
        <3>3. queue' = queue /\ delivered' = delivered
            BY <2>3 DEF CheckAge, Finish
        <3> QED
            BY <2>1, <3>2, <3>3
    <2>4. ASSUME NEW k \in Keys, Drop(l, k)
          PROVE  handler' \in [Listeners -> Handler] /\ queue' = queue /\ delivered' = delivered
        <3>1. Skips(l, k) \in BOOLEAN
            BY <1>1 DEF Skips, TypeOK
        <3> DEFINE h == [handler[l] EXCEPT !.todo[k] = @ - 1, !.skip = @ \/ Skips(l, k)]
        <3>2. h \in Handler
            <4>1. handler[l] \in Handler /\ handler[l].todo[k] - 1 \in Nat
                BY <2>1, <2>4 DEF Drop, Handler
            <4>2. (handler[l].skip \/ Skips(l, k)) \in BOOLEAN
                OBVIOUS
            <4> QED
                BY <4>1, <4>2 DEF Handler
        <3>3. handler' = [handler EXCEPT ![l] = h]
            BY <2>1, <2>4 DEF Drop
        <3>. HIDE DEF h
        <3> QED
            BY <2>1, <2>4, <3>2, <3>3 DEF Drop
    <2>5. ASSUME NEW k \in Keys, BuildMessage(l, k)
          PROVE  handler' \in [Listeners -> Handler] /\ queue' = queue /\ delivered' = delivered
        <3> DEFINE h == [handler[l] EXCEPT !.at = "send", !.key = k, !.ch = store[k].ch]
        <3>1. h \in Handler
            BY <1>1, <2>1 DEF Handler, TypeOK
        <3>2. handler' = [handler EXCEPT ![l] = h]
            BY <2>1, <2>5 DEF BuildMessage
        <3>. HIDE DEF h
        <3> QED
            BY <2>1, <2>5, <3>1, <3>2 DEF BuildMessage
    <2>6. CASE Send(l)
        <3>1. handler[l].at = "send" /\ ListenerInv(l)
            BY <2>6 DEF Send, ListenerAt, IInv
        <3>2. /\ handler[l].key \in Keys /\ handler[l].todo[handler[l].key] > 0
              /\ handler[l].ch \in Calls /\ handler[l].event \in Events
            BY <1>1, <3>1 DEF ListenerInv, TypeOK
        <3> QED
            BY <2>1, <2>6, <3>2 DEF Send, Handler
    <2> QED
        BY <1>4, <2>1, <2>2, <2>3, <2>4, <2>5, <2>6 DEF ListenerStep, CheckAge, Finish
<1>5. ASSUME NEW e \in Events, NEW t \in {started, started - 1} \cap Nat, Happen(e, t) PROVE TypeOK'
    <2>1. queue' \in [Functions -> SUBSET Events]
        BY <1>1, <1>5 DEF TypeOK, Happen
    <2> QED
        BY <1>1, <1>5, <2>1 DEF TypeOK, Happen
<1>6. CASE UNCHANGED vars
    BY <1>1, <1>6 DEF TypeOK, vars
<1> QED
    BY <1>2, <1>3, <1>4, <1>5, <1>6 DEF Next

(* What a step of a function or a listener does to where functions are.    *)
LEMMA FunctionMoves ==
    ASSUME IInv, NEW f \in Functions, FunctionStep(f) \/ ConfigureFails(f)
    PROVE  /\ \A g \in Functions \ {f} : bg'[g] = bg[g] /\ inactive'[g] = inactive[g] /\ queue'[g] = queue[g]
           /\ ~Returned(f) /\ bg[f] # "off" /\ bg'[f] # "off"
BY DEF IInv, TypeOK, FunctionStep, ConfigureFails, Activate, Watch, StopInformers, InformersStopped,
    FunctionAt, Enter, Returned

LEMMA StreamStepInv == IInv /\ [Next]_vars => StreamInv'
<1> SUFFICES ASSUME IInv, [Next]_vars PROVE StreamInv'
    OBVIOUS
<1> USE KubernetesSourceAssumption DEF streamVars, clusterVars
<1>1. TypeOK /\ StreamInv
    BY DEF IInv
<1>2. ASSUME NEW c \in Calls, StreamStep(c) PROVE StreamInv'
    <2>1. CASE Lock(c)
        BY <1>1, <2>1 DEF TypeOK, StreamInv, Lock, Advance, CallAt, Returned
    <2>1a. CASE Refuse(c)
        BY <1>1, <2>1a DEF TypeOK, StreamInv, Refuse, Advance, CallAt, Returned
    <2>1b. CASE Store(c)
        BY <1>1, <2>1b DEF TypeOK, StreamInv, Store, Advance, CallAt, Returned
    <2>2. CASE Stop(c)
        BY <1>1, <2>2 DEF TypeOK, StreamInv, Stop, Advance, CallAt, Returned
    <2>3. CASE StopReturns(c)
        <3>1. \A f \in Functions : Returned(f)
            <4> TAKE f \in Functions
            <4>1. f[1] \in Calls /\ f[2] \in Kubes /\ f = <<f[1], f[2]>>
                BY DEF Functions
            <4>2. f[1] = current => Returned(<<current, f[2]>>)
                BY <2>3, <4>1 DEF StopReturns
            <4> QED
                BY <1>1, <4>1, <4>2 DEF StreamInv
        <3> QED
            BY <1>1, <2>3, <3>1 DEF TypeOK, StreamInv, StopReturns, Advance, CallAt, Returned
    <2>4. CASE Run(c)
        <3>1. /\ pc[c] = "run" /\ mu = c /\ mu' = NoCall /\ bgMu = NoCall /\ bgMu' = NoCall
              /\ pc' = [pc EXCEPT ![c] = "serving"] /\ current' = c
            BY <1>1, <2>4 DEF StreamInv, Run, CallAt, Advance
        <3>2. \A f \in Functions : Returned(f)
            BY <1>1, <3>1 DEF StreamInv
        <3>3. \A f \in Functions : bg'[f] # bg[f] => f[1] = c
            BY <1>1, <2>4 DEF Run, TypeOK
        <3>4. \A d \in Calls : pc'[d] \notin {"wait", "run"} /\ (pc[d] = "serving" => pc'[d] = "serving")
            BY <1>1, <3>1 DEF StreamInv, TypeOK
        <3>5. \A d \in Calls : pc'[d] \notin {"store", "stop"}
            BY <1>1, <3>1 DEF StreamInv, TypeOK
        <3>6. \A f \in Functions : ~Returned(f)' => f[1] = c
            BY <3>2, <3>3 DEF Returned
        <3>7. \A f \in Functions : f[1] \in Calls
            BY DEF Functions
        <3>8. \A f \in Functions : bg'[f] # "off" => pc'[f[1]] = "serving"
            BY <1>1, <3>1, <3>3, <3>4, <3>7 DEF StreamInv, TypeOK
        <3> QED
            BY <3>1, <3>4, <3>5, <3>6, <3>8 DEF StreamInv
    <2> QED
        BY <1>2, <2>1, <2>1a, <2>1b, <2>2, <2>3, <2>4 DEF StreamStep
<1>3. ASSUME NEW f \in Functions, FunctionStep(f) \/ ConfigureFails(f) PROVE StreamInv'
    <2>1. /\ \A g \in Functions \ {f} : bg'[g] = bg[g]
          /\ ~Returned(f) /\ bg[f] # "off"
        BY <1>3, FunctionMoves
    <2>2. UNCHANGED <<mu, bgMu, pc, current>>
        BY <1>3, FunctionFrame
    <2> QED
        BY <1>1, <2>1, <2>2 DEF StreamInv, Returned
<1>4. ASSUME NEW l \in Listeners, ListenerStep(l) PROVE StreamInv'
    BY <1>1, <1>4, ListenerFrame DEF StreamInv, Returned
<1>5. ASSUME NEW e \in Events, NEW t \in {started, started - 1} \cap Nat, Happen(e, t) PROVE StreamInv'
    BY <1>1, <1>5 DEF StreamInv, Returned, Happen
<1>6. CASE UNCHANGED vars
    BY <1>1, <1>6 DEF StreamInv, Returned, vars
<1> QED
    BY <1>2, <1>3, <1>4, <1>5, <1>6 DEF Next

LEMMA StoreStepInv == IInv /\ [Next]_vars => StoreInv'
<1> SUFFICES ASSUME IInv, [Next]_vars PROVE StoreInv'
    OBVIOUS
<1> USE KubernetesSourceAssumption DEF streamVars, clusterVars
<1>1. TypeOK /\ StoreInv
    BY DEF IInv
<1>2. ASSUME NEW c \in Calls, StreamStep(c) PROVE StoreInv'
    <2>1. CASE Store(c)
        BY <1>1, <2>1 DEF TypeOK, StoreInv, Store
    <2>2. CASE Run(c)
        BY <1>1, <2>2 DEF TypeOK, StoreInv, Run
    <2>3. CASE Lock(c) \/ Refuse(c) \/ Stop(c) \/ StopReturns(c)
        BY <1>1, <2>3 DEF StoreInv, Lock, Refuse, Stop, StopReturns
    <2> QED
        BY <1>2, <2>1, <2>2, <2>3 DEF StreamStep
<1>3. ASSUME NEW f \in Functions, FunctionStep(f) \/ ConfigureFails(f) PROVE StoreInv'
    <2>1. ASSUME NEW k \in Keys, Activate(f, k) PROVE StoreInv'
        <3>1. f[1] \in Calls /\ cloned[f[1]][k] # NoCall
            BY <2>1 DEF Activate, IInv, FunctionInv, Owned, Configured, Functions
        <3> QED
            BY <1>1, <2>1, <3>1 DEF TypeOK, StoreInv, Activate
    <2>2. CASE Watch(f) \/ StopInformers(f) \/ InformersStopped(f) \/ ConfigureFails(f)
        BY <1>1, <2>2 DEF StoreInv, Watch, StopInformers, InformersStopped, ConfigureFails
    <2> QED
        BY <1>3, <2>1, <2>2 DEF FunctionStep
<1>4. ASSUME NEW l \in Listeners, ListenerStep(l) PROVE StoreInv'
    BY <1>1, <1>4, ListenerFrame DEF StoreInv
<1>5. ASSUME NEW e \in Events, NEW t \in {started, started - 1} \cap Nat, Happen(e, t) PROVE StoreInv'
    BY <1>1, <1>5 DEF StoreInv, Happen
<1>6. CASE UNCHANGED vars
    BY <1>1, <1>6 DEF StoreInv, vars
<1> QED
    BY <1>2, <1>3, <1>4, <1>5, <1>6 DEF Next

LEMMA FunctionStepInv == IInv /\ [Next]_vars => FunctionInv'
<1> SUFFICES ASSUME IInv, [Next]_vars PROVE FunctionInv'
    OBVIOUS
<1> USE KubernetesSourceAssumption DEF streamVars, clusterVars
<1>1. TypeOK /\ StreamInv /\ FunctionInv
    BY DEF IInv
<1>2. ASSUME NEW c \in Calls, StreamStep(c) PROVE FunctionInv'
    <2>1. queue' = queue /\ happened' = happened
        BY <1>2, StreamFrame
    <2>2. CASE Lock(c) \/ Refuse(c) \/ Stop(c)
        <3>1. UNCHANGED <<store, cloned, inactive, bg>> /\ \A k : Restreamed(k) => Restreamed(k)'
            BY <1>1, <2>2 DEF Lock, Refuse, Stop, Advance, CallAt, Restreamed, TypeOK
        <3> QED
            BY <1>1, <2>1, <3>1 DEF FunctionInv, Owned, Configured, Returned
    <2>3. CASE Store(c)
        <3>1. /\ UNCHANGED <<cloned, inactive, bg>>
              /\ \A k \in Keys : k # KeyOf[c] => store'[k] = store[k] /\ (Restreamed(k) => Restreamed(k)')
              /\ Restreamed(KeyOf[c])'
            BY <1>1, <2>3 DEF Store, Advance, CallAt, Restreamed, TypeOK
        <3> QED
            BY <1>1, <2>1, <3>1 DEF FunctionInv, Owned, Configured, Returned
    <2>4. CASE StopReturns(c)
        <3>1. pc'[c] = "run" /\ UNCHANGED <<cloned, inactive, bg>>
            BY <1>1, <2>4 DEF StopReturns, Advance, TypeOK
        <3>2. \A f \in Functions : Returned(f)'
            BY <3>1, StreamStepInv DEF StreamInv
        <3> QED
            BY <1>1, <2>1, <3>1, <3>2 DEF FunctionInv, Owned, Configured
    <2>5. CASE Run(c)
        <3>1. \A f \in Functions : Returned(f) /\ pc[c] = "run"
            BY <1>1, <2>5 DEF Run, CallAt, StreamInv
        <3>2. \A f \in Functions : f[1] = c => inactive[f] = {} /\ bg[f] = "off"
            BY <1>1, <3>1 DEF StreamInv, FunctionInv
        <3>3. ASSUME NEW f \in Functions, f[1] = c
              PROVE  /\ inactive'[f] = Owned(f)'
                     /\ inactive'[f] # {} => bg'[f] = "configure"
            <4>1. inactive'[f] = {k \in Keys : store[k].ch # NoCall /\ KubeOf[k] = f[2]}
                BY <1>1, <2>5, <3>2, <3>3 DEF Run, TypeOK
            <4>2. cloned'[c] = [k \in Keys |-> store[k].ch]
                BY <1>1, <2>5 DEF Run, TypeOK
            <4>3. inactive'[f] # {} => bg'[f] = "configure"
                BY <2>5, <3>3, <4>1 DEF Run
            <4> QED
                BY <3>3, <4>1, <4>2, <4>3 DEF Owned, Configured
        <3>4. ASSUME NEW f \in Functions, f[1] # c
              PROVE  inactive'[f] = inactive[f] /\ bg'[f] = bg[f] /\ Owned(f)' = Owned(f)
            <4>1. f[1] \in Calls
                BY DEF Functions
            <4> QED
                BY <1>1, <2>5, <3>4, <4>1 DEF Run, TypeOK, Owned, Configured
        <3> QED
            BY <1>1, <2>1, <3>1, <3>3, <3>4 DEF FunctionInv, Returned
    <2> QED
        BY <1>2, <2>2, <2>3, <2>4, <2>5 DEF StreamStep
<1>3. ASSUME NEW f \in Functions, FunctionStep(f) \/ ConfigureFails(f) PROVE FunctionInv'
    <2>1. /\ \A g \in Functions \ {f} : bg'[g] = bg[g] /\ inactive'[g] = inactive[g] /\ queue'[g] = queue[g]
          /\ ~Returned(f)
        BY <1>3, FunctionMoves
    <2>2. UNCHANGED <<pc, cloned, happened>> /\ \A g : Owned(g)' = Owned(g)
        BY <1>3, FunctionFrame DEF Owned, Configured
    <2>3. \A k : Restreamed(k)' <=> Restreamed(k)
        BY <2>2 DEF Restreamed
    <2>4. \A k \in Keys : store'[k] # store[k] => store'[k].active
        BY <1>1, <1>3 DEF FunctionStep, ConfigureFails, Activate, Watch, StopInformers, InformersStopped, TypeOK
    <2>5. /\ inactive'[f] \subseteq inactive[f]
          /\ inactive'[f] # {} => bg'[f] = "configure"
          /\ queue'[f] \subseteq happened
          /\ \A k \in inactive[f] \ inactive'[f] : store'[k].active
        BY <1>1, <1>3 DEF FunctionStep, ConfigureFails, Activate, Watch, StopInformers, InformersStopped,
            FunctionAt, Enter, TypeOK, FunctionInv
    <2>6. Owned(f) \subseteq Keys
        BY DEF Owned, Configured
    <2>7. \A k \in Owned(f) \ inactive'[f] : store'[k].active \/ Restreamed(k)
        BY <1>1, <2>1, <2>4, <2>5, <2>6 DEF FunctionInv
    <2>8. ASSUME NEW g \in Functions, g # f, ~Returned(g)
          PROVE  \A k \in Owned(g) \ inactive[g] : store'[k].active \/ Restreamed(k)
        <3>1. Owned(g) \subseteq Keys
            BY DEF Owned, Configured
        <3> QED
            BY <1>1, <2>4, <2>8, <3>1 DEF FunctionInv
    <2> SUFFICES ASSUME NEW g \in Functions
                 PROVE  /\ inactive'[g] \subseteq Owned(g)
                        /\ inactive'[g] # {} => bg'[g] = "configure"
                        /\ ~Returned(g)' => \A k \in Owned(g) \ inactive'[g] : store'[k].active \/ Restreamed(k)
                        /\ queue'[g] \subseteq happened
        BY <2>2, <2>3 DEF FunctionInv
    <2>9. CASE g = f
        BY <1>1, <2>5, <2>7, <2>9 DEF FunctionInv
    <2>10. CASE g # f
        BY <1>1, <2>1, <2>8, <2>10 DEF FunctionInv, Returned
    <2> QED
        BY <2>9, <2>10
<1>4. ASSUME NEW l \in Listeners, ListenerStep(l) PROVE FunctionInv'
    <2>1. UNCHANGED <<pc, cloned, store, bg, inactive, happened>>
        BY <1>4, ListenerFrame
    <2>2. \A f \in Functions : queue'[f] \subseteq queue[f]
        <3>1. queue' = queue \/ \E e \in Events : queue' = [queue EXCEPT ![l[1]] = @ \ {e}]
            BY <1>4 DEF ListenerStep, Take, CheckAge, Drop, BuildMessage, Send, Finish
        <3>2. queue \in [Functions -> SUBSET Events]
            BY <1>1 DEF TypeOK
        <3> QED
            BY <3>1, <3>2
    <2> QED
        BY <1>1, <2>1, <2>2 DEF FunctionInv, Owned, Configured, Restreamed, Returned
<1>5. ASSUME NEW e \in Events, NEW t \in {started, started - 1} \cap Nat, Happen(e, t) PROVE FunctionInv'
    <2>1. \A f \in Functions : queue'[f] \subseteq happened'
        BY <1>1, <1>5 DEF FunctionInv, Happen
    <2> QED
        BY <1>1, <1>5, <2>1 DEF FunctionInv, Owned, Configured, Restreamed, Returned, Happen
<1>6. CASE UNCHANGED vars
    BY <1>1, <1>6 DEF FunctionInv, Owned, Configured, Restreamed, Returned, vars
<1> QED
    BY <1>2, <1>3, <1>4, <1>5, <1>6 DEF Next

(* A listener that handles an event keeps a call from starting another     *)
(* background process.                                                     *)
LEMMA BusyFacts ==
    ASSUME IInv, NEW l \in Listeners, handler[l].at # "idle"
    PROVE  /\ l[1] \in Functions /\ ~Returned(l[1]) /\ inactive[l[1]] = {}
           /\ \A c \in Calls : pc[c] # "run"
<1>1. l[1] \in Functions
    BY DEF Listeners
<1> QED
    BY <1>1 DEF IInv, ListenerInv, Returned, FunctionInv, StreamInv

(* A step of a listener leaves the others as they are.                     *)
LEMMA OthersUntouched ==
    ASSUME NEW m \in Listeners, ListenerStep(m), NEW l \in Listeners, l # m, handler \in [Listeners -> Handler]
    PROVE  handler'[l] = handler[l]
<1>1. ASSUME NEW e \in Events, m = ListenerOf(m[1], e), Take(m[1], e) PROVE handler'[l] = handler[l]
    BY <1>1 DEF Take
<1>2. ASSUME NEW k \in Keys, Drop(m, k) \/ BuildMessage(m, k) PROVE handler'[l] = handler[l]
    BY <1>2 DEF Drop, BuildMessage
<1>3. CASE CheckAge(m) \/ Send(m) \/ Finish(m)
    BY <1>3 DEF CheckAge, Send, Finish
<1> QED
    BY <1>1, <1>2, <1>3 DEF ListenerStep

LEMMA ListenerStepInv == IInv /\ [Next]_vars => \A l \in Listeners : ListenerInv(l)'
<1> SUFFICES ASSUME IInv, [Next]_vars, NEW l \in Listeners PROVE ListenerInv(l)'
    OBVIOUS
<1> USE KubernetesSourceAssumption DEF streamVars, clusterVars
<1>1. TypeOK /\ ListenerInv(l) /\ l[1] \in Functions /\ l[1][1] \in Calls
    BY DEF IInv, Listeners, Functions
<1>2. ASSUME NEW c \in Calls, StreamStep(c) PROVE ListenerInv(l)'
    <2>1. UNCHANGED <<queue, handler, happened, stamp>>
        BY <1>2, StreamFrame
    <2>2. CASE handler[l].at = "idle"
        BY <2>1, <2>2 DEF ListenerInv
    <2>3. CASE handler[l].at # "idle"
        <3>1. pc[c] # "run"
            BY <2>3, BusyFacts
        <3>2. UNCHANGED <<started, cloned, bg>>
            BY <1>2, <3>1 DEF StreamStep, Lock, Refuse, Store, Stop, StopReturns, Run, CallAt
        <3> QED
            BY <1>1, <2>1, <3>2 DEF ListenerInv, ListenerOf, Owned, Configured
    <2> QED
        BY <2>2, <2>3
<1>3. ASSUME NEW f \in Functions, FunctionStep(f) \/ ConfigureFails(f) PROVE ListenerInv(l)'
    <2>1. UNCHANGED <<started, cloned, handler, happened, stamp>>
        BY <1>3, FunctionFrame
    <2>2. CASE handler[l].at = "idle"
        BY <2>1, <2>2 DEF ListenerInv
    <2>3. CASE handler[l].at # "idle" /\ l[1] # f
        <3>1. bg'[l[1]] = bg[l[1]] /\ queue'[l[1]] = queue[l[1]]
            BY <1>1, <1>3, <2>3, FunctionMoves
        <3> QED
            BY <1>1, <2>1, <3>1 DEF ListenerInv, ListenerOf, Owned, Configured
    <2>4. CASE handler[l].at # "idle" /\ l[1] = f
        <3>1. bg[f] \in {"watching", "draining"} /\ l = ListenerOf(f, handler[l].event)
            BY <1>1, <2>4 DEF ListenerInv
        <3>2. ~InformersStopped(f)
            BY <2>4, <3>1 DEF InformersStopped, ListenerOf
        <3>3. bg'[f] \in {"watching", "draining"} /\ queue' = queue
            BY <1>1, <1>3, <3>1, <3>2 DEF FunctionStep, ConfigureFails, Activate, Watch, StopInformers,
                FunctionAt, Enter, TypeOK
        <3> QED
            BY <1>1, <2>1, <2>4, <3>3 DEF ListenerInv, ListenerOf, Owned, Configured
    <2> QED
        BY <2>2, <2>3, <2>4
<1>4. ASSUME NEW m \in Listeners, ListenerStep(m) PROVE ListenerInv(l)'
    <2>1. UNCHANGED <<started, cloned, bg, happened, stamp>>
        BY <1>4, ListenerFrame
    <2>2. handler \in [Listeners -> Handler] /\ m[1] \in Functions
        BY <1>1, IdleFacts DEF Listeners
    <2>3. \A f \in Functions : queue'[f] \subseteq queue[f]
        <3>1. queue' = queue \/ \E e \in Events : queue' = [queue EXCEPT ![m[1]] = @ \ {e}]
            BY <1>4 DEF ListenerStep, Take, CheckAge, Drop, BuildMessage, Send, Finish
        <3>2. queue \in [Functions -> SUBSET Events]
            BY <1>1 DEF TypeOK
        <3> QED
            BY <3>1, <3>2
    <2>4. CASE l # m
        <3>1. handler'[l] = handler[l]
            BY <1>4, <2>2, <2>4, OthersUntouched
        <3> QED
            BY <1>1, <2>1, <2>3, <3>1 DEF ListenerInv, ListenerOf, Owned, Configured
    <2> SUFFICES ASSUME l = m PROVE ListenerInv(l)'
        BY <2>4
    <2>5. ASSUME NEW e \in Events, l = ListenerOf(l[1], e), Take(l[1], e) PROVE ListenerInv(l)'
        <3>1. handler'[l] = [at |-> "age", event |-> e, todo |-> [k \in Keys |-> Copies(l[1], e, k)],
                             skip |-> FALSE, key |-> NoKey, ch |-> NoCall]
            BY <2>2, <2>5 DEF Take
        <3>2. /\ bg[l[1]] \in {"watching", "draining"} /\ e \in happened /\ e \notin queue'[l[1]]
            BY <1>1, <2>5 DEF Take, FunctionAt, TypeOK, IInv, FunctionInv
        <3>3. \A k \in Keys : /\ Copies(l[1], e, k) > 0 => k \in Owned(l[1])
                              /\ e \notin Updates => Copies(l[1], e, k) <= 1
            BY <1>1, CopiesFacts
        <3> QED
            <4>1. /\ handler'[l].at = "age" /\ handler'[l].event = e
                  /\ \A k \in Keys : handler'[l].todo[k] = Copies(l[1], e, k)
                BY <3>1
            <4>2. handler'[l].at # "send"
                BY <4>1
            <4>3. l = ListenerOf(l[1], handler'[l].event)
                BY <2>5, <4>1
            <4>4. \A k \in Keys : handler'[l].todo[k] > 0 => k \in Owned(l[1])'
                BY <2>1, <3>3, <4>1 DEF Owned, Configured
            <4>5. e \notin Updates => \A k \in Keys : handler'[l].todo[k] <= 1
                BY <3>3, <4>1
            <4>6. /\ bg'[l[1]] \in {"watching", "draining"}
                  /\ handler'[l].event \in happened'
                  /\ handler'[l].event \notin queue'[l[1]]
                BY <2>1, <3>2, <4>1
            <4> QED
                BY <4>1, <4>2, <4>3, <4>4, <4>5, <4>6 DEF ListenerInv
    <2>6. CASE CheckAge(l)
        <3>1. \/ handler'[l] = IdleHandler
              \/ handler[l].at = "age" /\ ~Old(handler[l].event) /\ handler'[l] = [handler[l] EXCEPT !.at = "loop"]
            <4>1. handler[l].at = "age"
                  /\ handler' = [handler EXCEPT ![l] = IF Old(handler[l].event) THEN IdleHandler
                                                       ELSE [handler[l] EXCEPT !.at = "loop"]]
                BY <2>6 DEF CheckAge, ListenerAt
            <4>2. handler'[l] = IF Old(handler[l].event) THEN IdleHandler ELSE [handler[l] EXCEPT !.at = "loop"]
                BY <2>2, <4>1
            <4>3. CASE Old(handler[l].event)
                BY <4>2, <4>3
            <4>4. CASE ~Old(handler[l].event)
                BY <4>1, <4>2, <4>4
            <4> QED
                BY <4>3, <4>4
        <3>2. CASE handler'[l] = IdleHandler
            BY <3>2 DEF ListenerInv, IdleHandler
        <3>3. CASE handler[l].at = "age" /\ ~Old(handler[l].event) /\ handler'[l] = [handler[l] EXCEPT !.at = "loop"]
            <4>1. handler[l] \in Handler /\ handler[l].event \in happened
                BY <1>1, <2>2, <3>3 DEF ListenerInv
            <4>2. handler[l].event \notin Updates => stamp[handler[l].event] = started
                <5>1. stamp[handler[l].event] \in Nat /\ started \in Nat
                    BY <1>1, <4>1 DEF TypeOK
                <5>2. stamp[handler[l].event] <= started
                    BY <4>1 DEF IInv, OnceInv
                <5> QED
                    BY <3>3, <5>1, <5>2 DEF Old
            <4> QED
                BY <1>1, <2>1, <2>3, <3>3, <4>1, <4>2 DEF ListenerInv, ListenerOf, Owned, Configured, Handler
        <3> QED
            BY <3>1, <3>2, <3>3
    <2>7. ASSUME NEW k \in Keys, Drop(l, k) PROVE ListenerInv(l)'
        <3>1. /\ handler[l].at = "loop" /\ handler'[l].at = "loop" /\ handler'[l].event = handler[l].event
              /\ handler'[l].todo = [handler[l].todo EXCEPT ![k] = @ - 1] /\ handler[l].todo[k] > 0
            BY <2>2, <2>7 DEF Drop, ListenerAt, Handler
        <3>2. handler[l].todo \in [Keys -> Nat]
            BY <2>2 DEF Handler
        <3>3. \A j \in Keys : handler'[l].todo[j] <= handler[l].todo[j]
            BY <3>1, <3>2
        <3>4. \A j \in Keys : handler'[l].todo[j] \in Nat /\ handler[l].todo[j] \in Nat
            BY <3>1, <3>2
        <3> QED
            BY <1>1, <2>1, <2>3, <3>1, <3>3, <3>4 DEF ListenerInv, ListenerOf, Owned, Configured
    <2>8. ASSUME NEW k \in Keys, BuildMessage(l, k) PROVE ListenerInv(l)'
        <3>1. handler[l].at = "loop" /\ handler[l].todo[k] > 0 /\ store[k].active
              /\ handler'[l] = [handler[l] EXCEPT !.at = "send", !.key = k, !.ch = store[k].ch]
            BY <2>2, <2>8 DEF BuildMessage, ListenerAt, Drops
        <3>2. store[k].ch \in Calls /\ KeyOf[store[k].ch] = k
            BY <1>1, <3>1 DEF IInv, StoreInv, TypeOK
        <3> QED
            BY <1>1, <2>1, <2>2, <2>3, <3>1, <3>2 DEF ListenerInv, ListenerOf, Owned, Configured, Handler
    <2>9. CASE Send(l)
        <3>1. /\ handler[l].at = "send" /\ handler'[l].at = "loop" /\ handler'[l].event = handler[l].event
              /\ handler'[l].todo = [handler[l].todo EXCEPT ![handler[l].key] = @ - 1]
            BY <2>2, <2>9 DEF Send, ListenerAt, Handler
        <3>2. handler[l].todo \in [Keys -> Nat] /\ handler[l].key \in Keys /\ handler[l].todo[handler[l].key] > 0
            BY <1>1, <2>2, <3>1 DEF Handler, ListenerInv
        <3>3. \A j \in Keys : /\ handler'[l].todo[j] <= handler[l].todo[j]
                              /\ handler'[l].todo[j] \in Nat /\ handler[l].todo[j] \in Nat
            BY <3>1, <3>2
        <3> QED
            BY <1>1, <2>1, <2>3, <3>1, <3>3 DEF ListenerInv, ListenerOf, Owned, Configured
    <2>10. CASE Finish(l)
        BY <2>2, <2>10 DEF Finish, ListenerInv, IdleHandler
    <2> QED
        BY <1>4, <2>5, <2>6, <2>7, <2>8, <2>9, <2>10 DEF ListenerStep
<1>5. ASSUME NEW e \in Events, NEW t \in {started, started - 1} \cap Nat, Happen(e, t) PROVE ListenerInv(l)'
    <2>1. /\ UNCHANGED <<started, cloned, bg, handler>>
          /\ e \notin happened /\ happened' = happened \cup {e}
          /\ \A d \in Events : d # e => stamp'[d] = stamp[d]
          /\ queue'[l[1]] \subseteq queue[l[1]] \cup {e}
        BY <1>1, <1>5 DEF Happen, TypeOK
    <2>2. handler[l].at # "idle" => handler[l].event # e /\ handler[l].event \in Events
        BY <1>1, <2>1 DEF ListenerInv, TypeOK
    <2> QED
        BY <1>1, <2>1, <2>2 DEF ListenerInv, ListenerOf, Owned, Configured
<1>6. CASE UNCHANGED vars
    BY <1>1, <1>6 DEF ListenerInv, ListenerOf, Owned, Configured, vars
<1> QED
    BY <1>2, <1>3, <1>4, <1>5, <1>6 DEF Next

(* A listener that goes on with an event has no more to do for a source    *)
(* than before, and one that begins an event takes it from the queue.      *)
LEMMA PassedStep ==
    ASSUME IInv, NEW l \in Listeners, ListenerStep(l),
           NEW f \in Functions, NEW k \in Keys, NEW e \in Events \ Updates, Passed(f, k, e)
    PROVE  Passed(f, k, e)'
<1> USE KubernetesSourceAssumption DEF streamVars, clusterVars
<1> DEFINE m == <<f, "create">>
<1>1. /\ handler \in [Listeners -> Handler] /\ m \in Listeners /\ l[1] \in Functions
      /\ queue \in [Functions -> SUBSET Events]
    BY IdleFacts DEF IInv, TypeOK, Listeners
<1>2. bg' = bg
    BY ListenerFrame
<1>3. queue'[f] \subseteq queue[f]
    <2>1. queue' = queue \/ \E d \in Events : queue' = [queue EXCEPT ![l[1]] = @ \ {d}]
        BY DEF ListenerStep, Take, CheckAge, Drop, BuildMessage, Send, Finish
    <2> QED
        BY <1>1, <2>1
<1> SUFFICES ASSUME handler'[m].at # "idle", handler'[m].event = e PROVE handler'[m].todo[k] = 0
    BY <1>2, <1>3 DEF Passed
<1>4. CASE l # m
    <2>1. handler'[m] = handler[m]
        BY <1>1, <1>4, OthersUntouched
    <2> QED
        BY <2>1 DEF Passed
<1> SUFFICES ASSUME l = m PROVE handler'[m].todo[k] = 0
    BY <1>4
<1>5. ASSUME NEW d \in Events, l = ListenerOf(l[1], d), Take(l[1], d) PROVE handler'[m].event # e
    <2>1. l[1] = f /\ d \in queue[f]
        BY <1>5 DEF Take
    <2>2. handler'[m].event = d
        BY <1>1, <1>5 DEF Take
    <2> QED
        BY <2>1, <2>2 DEF Passed
<1>6. CASE CheckAge(l) \/ Finish(l)
    <2>1. \/ handler' = [handler EXCEPT ![l] = IdleHandler]
          \/ handler' = [handler EXCEPT ![l] = [handler[l] EXCEPT !.at = "loop"]] /\ handler[l].at = "age"
        BY <1>6 DEF CheckAge, Finish, ListenerAt
    <2>2. CASE handler' = [handler EXCEPT ![l] = IdleHandler]
        BY <1>1, <2>2 DEF IdleHandler
    <2>3. CASE handler' = [handler EXCEPT ![l] = [handler[l] EXCEPT !.at = "loop"]] /\ handler[l].at = "age"
        <3>1. handler'[m].event = handler[m].event /\ handler'[m].todo = handler[m].todo /\ handler[m].at = "age"
            BY <1>1, <2>3 DEF Handler
        <3> QED
            BY <3>1 DEF Passed
    <2> QED
        BY <2>1, <2>2, <2>3
<1>7. ASSUME NEW j \in Keys, Drop(l, j) PROVE handler'[m].todo[k] = 0
    <2>1. /\ handler[m].at = "loop" /\ handler'[m].event = handler[m].event
          /\ handler'[m].todo = [handler[m].todo EXCEPT ![j] = @ - 1] /\ handler[m].todo[j] > 0
        BY <1>1, <1>7 DEF Drop, ListenerAt, Handler
    <2>2. handler[m].todo \in [Keys -> Nat] /\ handler[m].todo[k] = 0
        BY <1>1, <2>1 DEF Handler, Passed
    <2> QED
        BY <2>1, <2>2
<1>8. ASSUME NEW j \in Keys, BuildMessage(l, j) PROVE handler'[m].todo[k] = 0
    <2>1. handler[m].at = "loop" /\ handler'[m].event = handler[m].event /\ handler'[m].todo = handler[m].todo
        BY <1>1, <1>8 DEF BuildMessage, ListenerAt, Handler
    <2> QED
        BY <2>1 DEF Passed
<1>9. CASE Send(l)
    <2>1. /\ handler[m].at = "send" /\ handler'[m].event = handler[m].event
          /\ handler'[m].todo = [handler[m].todo EXCEPT ![handler[m].key] = @ - 1]
        BY <1>1, <1>9 DEF Send, ListenerAt, Handler
    <2>2. handler[m].todo \in [Keys -> Nat] /\ handler[m].todo[k] = 0
        BY <1>1, <2>1 DEF Handler, Passed
    <2>3. handler[m].key \in Keys /\ handler[m].todo[handler[m].key] > 0
        BY <1>1, <2>1 DEF IInv, ListenerInv
    <2> QED
        BY <2>1, <2>2, <2>3
<1> QED
    BY <1>5, <1>6, <1>7, <1>8, <1>9 DEF ListenerStep

(* The one step that reports: the source was not told of the object        *)
(* before, and is not told again by this background process.               *)
LEMMA SendFacts ==
    ASSUME IInv, NEW l \in Listeners, Send(l), NEW c, NEW e, NEW k,
           c = handler[l].ch, e = handler[l].event, k = handler[l].key
    PROVE  /\ c \in Calls /\ e \in happened /\ k \in Keys /\ KeyOf[c] = k
           /\ delivered' = [delivered EXCEPT ![c][e] = @ + 1]
           /\ e \notin Updates =>
                /\ ~Delivered(k, e)
                /\ \A f \in Functions : f[1] = current /\ f[2] = KubeOf[k] => Passed(f, k, e)'
<1> USE KubernetesSourceAssumption
<1>1. /\ handler[l].at = "send" /\ delivered' = [delivered EXCEPT ![c][e] = @ + 1]
      /\ handler' = [handler EXCEPT ![l].at = "loop", ![l].todo[k] = @ - 1, ![l].key = NoKey, ![l].ch = NoCall]
      /\ bg' = bg /\ queue' = queue
    BY DEF Send, ListenerAt
<1>2. /\ handler \in [Listeners -> Handler] /\ l[1] \in Functions
      /\ l[1][1] \in Calls /\ l[1][2] \in Kubes /\ l[1] = <<l[1][1], l[1][2]>>
    BY IdleFacts DEF IInv, Listeners, Functions
<1>3. /\ c \in Calls /\ e \in happened /\ k \in Keys /\ KeyOf[c] = k
      /\ handler[l].todo[k] > 0 /\ k \in Owned(l[1])
      /\ bg[l[1]] \in {"watching", "draining"} /\ e \notin queue[l[1]] /\ l = ListenerOf(l[1], e)
      /\ e \notin Updates => handler[l].todo[k] <= 1 /\ stamp[e] = started
    BY <1>1 DEF IInv, ListenerInv
<1>4. l[1][1] = current /\ l[1][2] = KubeOf[k]
    BY <1>2, <1>3 DEF IInv, StreamInv, Returned, Owned, Configured
<1>5. ASSUME e \notin Updates PROVE ~Delivered(k, e)
    <2>1. l = <<l[1], "create">> /\ e \in Events
        BY <1>3, <1>5 DEF ListenerOf, IInv, TypeOK
    <2>2. ~Passed(l[1], k, e)
        <3>1. handler[<<l[1], "create">>] = handler[l]
            BY <2>1
        <3> QED
            BY <1>1, <1>3, <3>1 DEF Passed
    <2> QED
        BY <1>2, <1>3, <1>4, <1>5, <2>1, <2>2 DEF IInv, OnceInv
<1>6. ASSUME e \notin Updates, NEW f \in Functions, f[1] = current, f[2] = KubeOf[k]
      PROVE  Passed(f, k, e)'
    <2>1. f = l[1]
        BY <1>2, <1>4, <1>6 DEF Functions
    <2>2. l = <<f, "create">>
        BY <1>3, <1>6, <2>1 DEF ListenerOf
    <2>3. handler[l].todo \in [Keys -> Nat] /\ handler[l].todo[k] = 1
        BY <1>2, <1>3, <1>6 DEF Handler
    <2>4. handler'[l].todo[k] = 0
        BY <1>1, <1>2, <1>3, <2>3 DEF Handler
    <2>5. handler'[<<f, "create">>].todo[k] = 0
        BY <2>2, <2>4
    <2> QED
        BY <1>1, <1>3, <2>1, <2>5 DEF Passed
<1> QED
    BY <1>1, <1>3, <1>5, <1>6

LEMMA OnceStepInv == IInv /\ [Next]_vars => OnceInv'
<1> SUFFICES ASSUME IInv, [Next]_vars PROVE OnceInv'
    OBVIOUS
<1> USE KubernetesSourceAssumption DEF streamVars, clusterVars
<1>1. TypeOK /\ OnceInv
    BY DEF IInv
<1>2. \A k \in Keys, e \in Events : Delivered(k, e) => e \in happened
    BY <1>1 DEF OnceInv, Delivered
<1>3. ASSUME NEW c \in Calls, StreamStep(c) PROVE OnceInv'
    <2>1. UNCHANGED <<queue, handler, happened, stamp, delivered>>
        BY <1>3, StreamFrame
    <2>2. CreatedReportedOnce'
        BY <1>1, <2>1 DEF OnceInv, CreatedReportedOnce
    <2>3. \A k, e : Delivered(k, e)' <=> Delivered(k, e)
        BY <2>1 DEF Delivered
    <2>4. CASE Run(c)
        <3>1. started' = started + 1 /\ started \in Nat /\ \A e \in happened : stamp[e] \in Nat
            BY <1>1, <2>4 DEF Run, TypeOK
        <3>2. \A e \in happened : stamp'[e] < started'
            BY <1>1, <2>1, <3>1 DEF OnceInv
        <3> QED
            BY <1>1, <1>2, <2>1, <2>2, <2>3, <3>1, <3>2 DEF OnceInv
    <2>5. CASE ~Run(c)
        <3>1. UNCHANGED <<started, current, bg>>
            BY <1>3, <2>5 DEF StreamStep, Lock, Refuse, Store, Stop, StopReturns
        <3> QED
            BY <1>1, <2>1, <2>2, <2>3, <3>1 DEF OnceInv, Passed
    <2> QED
        BY <2>4, <2>5
<1>4. ASSUME NEW f \in Functions, FunctionStep(f) \/ ConfigureFails(f) PROVE OnceInv'
    <2>1. UNCHANGED <<started, current, handler, happened, stamp, delivered>>
        BY <1>4, FunctionFrame
    <2>2. CreatedReportedOnce'
        BY <1>1, <2>1 DEF OnceInv, CreatedReportedOnce
    <2>3. \A k, e : Delivered(k, e)' <=> Delivered(k, e)
        BY <2>1 DEF Delivered
    <2>4. ASSUME NEW g \in Functions, NEW k \in Keys, NEW e \in Events, Passed(g, k, e) PROVE Passed(g, k, e)'
        <3>1. CASE g # f
            <4>1. bg'[g] = bg[g] /\ queue'[g] = queue[g]
                BY <1>4, <3>1, FunctionMoves
            <4> QED
                BY <2>1, <2>4, <4>1 DEF Passed
        <3>2. CASE g = f
            <4>1. bg[f] # "configure"
                BY <2>4, <3>2 DEF Passed
            <4>2. bg'[f] \in {"watching", "draining", "done"} /\ queue'[f] \subseteq queue[f]
                BY <1>1, <1>4, <2>4, <3>2, <4>1 DEF FunctionStep, ConfigureFails, Activate, Watch, StopInformers,
                    InformersStopped, FunctionAt, Enter, TypeOK
            <4> QED
                BY <2>1, <2>4, <3>2, <4>2 DEF Passed
        <3> QED
            BY <3>1, <3>2
    <2> QED
        BY <1>1, <2>1, <2>2, <2>3, <2>4 DEF OnceInv
<1>5. ASSUME NEW l \in Listeners, ListenerStep(l), ~Send(l) PROVE OnceInv'
    <2>1. UNCHANGED <<started, current, happened, stamp>>
        BY <1>5, ListenerFrame
    <2>2. delivered' = delivered
        BY <1>5 DEF ListenerStep, Take, CheckAge, Drop, BuildMessage, Finish
    <2>3. CreatedReportedOnce'
        BY <1>1, <2>2 DEF OnceInv, CreatedReportedOnce
    <2>4. \A k, e : Delivered(k, e)' <=> Delivered(k, e)
        BY <2>2 DEF Delivered
    <2>5. \A f \in Functions, k \in Keys, e \in Events \ Updates : Passed(f, k, e) => Passed(f, k, e)'
        BY <1>5, PassedStep
    <2> QED
        BY <1>1, <2>1, <2>2, <2>3, <2>4, <2>5 DEF OnceInv
<1>6. ASSUME NEW l \in Listeners, ListenerStep(l), Send(l) PROVE OnceInv'
    <2>1. UNCHANGED <<started, current, happened, stamp>>
        BY <1>6, ListenerFrame
    <2>2. PICK c, e, k : c = handler[l].ch /\ e = handler[l].event /\ k = handler[l].key
        OBVIOUS
    <2>3. /\ c \in Calls /\ e \in happened /\ k \in Keys /\ KeyOf[c] = k
          /\ delivered' = [delivered EXCEPT ![c][e] = @ + 1]
          /\ e \notin Updates =>
               /\ ~Delivered(k, e)
               /\ \A f \in Functions : f[1] = current /\ f[2] = KubeOf[k] => Passed(f, k, e)'
        <3>1. Send(l) /\ c = handler[l].ch /\ e = handler[l].event /\ k = handler[l].key
            BY <1>6, <2>2
        <3>. HIDE KubernetesSourceAssumption DEF streamVars, clusterVars
        <3> QED
            BY <3>1, SendFacts
    <2>4. \A f \in Functions, j \in Keys, d \in Events \ Updates : Passed(f, j, d) => Passed(f, j, d)'
        BY <1>6, PassedStep
    <2>5. /\ delivered \in [Calls -> [Events -> Nat]] /\ e \in Events
          /\ delivered'[c][e] = delivered[c][e] + 1
          /\ \A b \in Calls, d \in Events : b # c \/ d # e => delivered'[b][d] = delivered[b][d]
        BY <1>1, <2>3 DEF TypeOK
    <2>6. \A j \in Keys, d \in Events : Delivered(j, d)' => Delivered(j, d) \/ (j = k /\ d = e)
        BY <2>3, <2>5 DEF Delivered
    <2>7. CreatedReportedOnce'
        <3>1. e \notin Updates => \A b \in Calls : KeyOf[b] = k => delivered[b][e] = 0
            BY <2>3, <2>5 DEF Delivered
        <3> QED
            BY <1>1, <2>3, <2>5, <3>1 DEF CreatedReportedOnce, OnceInv
    <2>8. \A d \in Events \ happened : \A b \in Calls : delivered'[b][d] = 0
        BY <1>1, <2>3, <2>5 DEF OnceInv
    <2> QED
        BY <1>1, <2>1, <2>3, <2>4, <2>6, <2>7, <2>8 DEF OnceInv
<1>7. ASSUME NEW e \in Events, NEW t \in {started, started - 1} \cap Nat, Happen(e, t) PROVE OnceInv'
    <2>1. /\ UNCHANGED <<started, current, bg, handler, delivered>>
          /\ e \notin happened /\ happened' = happened \cup {e}
          /\ stamp'[e] = t /\ \A d \in Events : d # e => stamp'[d] = stamp[d]
          /\ \A f \in Functions : queue'[f] \subseteq queue[f] \cup {e}
        BY <1>1, <1>7 DEF Happen, TypeOK
    <2>2. CreatedReportedOnce'
        BY <1>1, <2>1 DEF OnceInv, CreatedReportedOnce
    <2>3. \A k, d : Delivered(k, d)' <=> Delivered(k, d)
        BY <2>1 DEF Delivered
    <2>4. \A d \in happened' : stamp'[d] <= started'
        <3>1. t <= started /\ happened \subseteq Events
            BY <1>1, <1>7 DEF TypeOK
        <3> QED
            BY <1>1, <2>1, <3>1 DEF OnceInv
    <2>5. \A f \in Functions, k \in Keys, d \in Events : d # e /\ Passed(f, k, d) => Passed(f, k, d)'
        BY <2>1 DEF Passed
    <2> QED
        BY <1>1, <1>2, <2>1, <2>2, <2>3, <2>4, <2>5 DEF OnceInv
<1>8. CASE UNCHANGED vars
    BY <1>1, <1>8 DEF OnceInv, CreatedReportedOnce, Passed, Delivered, vars
<1> QED
    BY <1>3, <1>4, <1>5, <1>6, <1>7, <1>8 DEF Next

-----------------------------------------------------------------------------
THEOREM IInvHolds == SafetySpec => []IInv
<1>1. IInv /\ [Next]_vars => IInv'
    BY TypeStep, StreamStepInv, StoreStepInv, FunctionStepInv, ListenerStepInv, OnceStepInv DEF IInv
<1> QED
    BY InitIInv, <1>1, PTL DEF SafetySpec

(* The variables keep their types: what a listener has still to do for a   *)
(* source is never counted below zero.                                     *)
THEOREM TypeCorrect == SafetySpec => []TypeOK
<1>1. IInv => TypeOK
    BY DEF IInv
<1> QED
    BY IInvHolds, <1>1, PTL

(* However many sources are streamed, the informers of two background      *)
(* processes never run together (bg_processor.go:32, 55).                  *)
THEOREM OneBackgroundProcessHolds == SafetySpec => []OneBackgroundProcess
<1>1. IInv => OneBackgroundProcess
    BY DEF IInv, StreamInv, OneBackgroundProcess
<1> QED
    BY IInvHolds, <1>1, PTL

(* A listener meets an inactive configuration only while a Stream call     *)
(* for its key is waiting for that listener (source.go:286).               *)
THEOREM ActiveWhenHandledHolds == SafetySpec => []ActiveWhenHandled
<1>1. IInv => ActiveWhenHandled
    <2> SUFFICES ASSUME IInv, NEW l \in Listeners, NEW k \in Keys, handler[l].at = "loop", handler[l].todo[k] > 0
                 PROVE  store[k].active \/ Restreamed(k)
        BY DEF ActiveWhenHandled, Restreamed
    <2>1. l[1] \in Functions /\ ~Returned(l[1]) /\ inactive[l[1]] = {}
        BY BusyFacts
    <2>2. k \in Owned(l[1])
        BY DEF IInv, ListenerInv
    <2> QED
        BY <2>1, <2>2 DEF IInv, FunctionInv
<1> QED
    BY IInvHolds, <1>1, PTL

(* Whatever number of background processes report the objects that are     *)
(* there as added, a source is told of each creation at most once          *)
(* (source.go:269).                                                        *)
THEOREM CreatedReportedOnceHolds == SafetySpec => []CreatedReportedOnce
<1>1. IInv => CreatedReportedOnce
    BY DEF IInv, OnceInv
<1> QED
    BY IInvHolds, <1>1, PTL
=============================================================================
