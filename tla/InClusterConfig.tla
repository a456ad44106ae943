-------------------------- MODULE InClusterConfig --------------------------
(***************************************************************************)
(* The configuration of an agent that is not managed by Botkube Cloud: the *)
(* ConfigMaps in which commands keep what they change                      *)
(* (pkg/config/manager_k8s.go, state.go), the reloader that watches the    *)
(* labelled ones (internal/config/reloader/in_cluster.go) and the restart  *)
(* it asks for (restarter.go).                                             *)
(*                                                                         *)
(* A ConfigMap is the sequence of its versions, so that a resource version *)
(* is an index.  A version holds values by key (the source bindings of a   *)
(* channel, the switch of an action; the notification switch of a channel  *)
(* in the startup map; further files or settings somebody has put there)   *)
(* and whether it carries the label botkube.io/config-watch.  The          *)
(* Deployment uses the strategy "Recreate".                                *)
(***************************************************************************)
EXTENDS Integers, Sequences

CONSTANTS
    BindingKeys, ActionKeys, \* of the runtime map
    SwitchKeys,              \* of the startup map
    OtherKeys,               \* of both: what the state types do not hold
    Values, NoValue,
    Commands,                \* commands that persist something, each given at most once
    KeyOf, ValueOf,          \* what a command writes, and under which key
    MaxEdits,                \* bound: changes made with kubectl or helm
    MaxFaults                \* bound: failed requests and crashes

Maps == {"runtime", "startup"}
StateKeys(m) == IF m = "runtime" THEN BindingKeys \cup ActionKeys ELSE SwitchKeys
KeysOf(m) == StateKeys(m) \cup OtherKeys
Data(m) == [KeysOf(m) -> Values \cup {NoValue}]
Version(m) == [data : Data(m), watched : BOOLEAN]
MapOf(c) == IF KeyOf[c] \in SwitchKeys THEN "startup" ELSE "runtime"

ASSUME InClusterConfigAssumption ==
    /\ (BindingKeys \cup ActionKeys) \cap SwitchKeys = {}
    /\ BindingKeys \cap ActionKeys = {}
    /\ OtherKeys \cap (BindingKeys \cup ActionKeys \cup SwitchKeys) = {}
    /\ NoValue \notin Values
    /\ KeyOf \in [Commands -> BindingKeys \cup ActionKeys \cup SwitchKeys]
    /\ ValueOf \in [Commands -> Values]
    /\ MaxEdits \in Nat
    /\ MaxFaults \in Nat

VARIABLES
    cm,      \* the versions of each ConfigMap, the last one being current
    up,      \* the agent process runs
    booted,  \* the version of each map the process was started with
    switch,  \* the notification switches of the bots, in memory
    pc,      \* the reloader: not started, watching, restarting
    seen,    \* the version of each map its informer has delivered last
    rollout, \* the Deployment was patched and the pod is not replaced yet
    missed,  \* the process has left a change of the runtime map aside (ghost)
    cmd,     \* a command: position and the version it read
    edits, faults

vars == <<cm, up, booted, switch, pc, seen, rollout, missed, cmd, edits, faults>>

Latest(m) == Len(cm[m])
DataAt(m, v) == cm[m][v].data
SwitchesAt(v) == [k \in SwitchKeys |-> DataAt("startup", v)[k]]
InFlight == {"get", "update"}

TypeOK ==
    /\ cm = [m \in Maps |-> cm[m]]
    /\ \A m \in Maps : cm[m] \in Seq(Version(m)) /\ cm[m] # <<>>
    /\ up \in BOOLEAN
    /\ booted \in [Maps -> Nat]
    /\ switch \in [SwitchKeys -> Values \cup {NoValue}]
    /\ pc \in {"boot", "watch", "restart"}
    /\ seen \in [Maps -> Nat]
    /\ rollout \in BOOLEAN
    /\ missed \in BOOLEAN
    /\ cmd \in [Commands -> [at : InFlight \cup {"none", "ok", "failed", "gone"}, ver : Nat]]
    /\ edits \in 0..MaxEdits
    /\ faults \in 0..MaxFaults

(* The chart labels the runtime map "true" and the startup map "false",    *)
(* and writes the one file with the state into each.                       *)
Init ==
    /\ cm \in [Maps -> UNION {[1..1 -> Version(m)] : m \in Maps}]
    /\ \A m \in Maps : cm[m][1] \in Version(m) /\ cm[m][1].watched = (m = "runtime")
    /\ \A m \in Maps, k \in OtherKeys : DataAt(m, 1)[k] = NoValue
    /\ up = TRUE
    /\ booted = [m \in Maps |-> 1]
    /\ switch = SwitchesAt(1)
    /\ pc = "boot"
    /\ seen = [m \in Maps |-> 0]
    /\ rollout = FALSE
    /\ missed = FALSE
    /\ cmd = [c \in Commands |-> [at |-> "none", ver |-> 0]]
    /\ edits = 0
    /\ faults = 0

Fault == faults < MaxFaults /\ faults' = faults + 1

-----------------------------------------------------------------------------
(* Cluster                                                                 *)

(* A user changes or removes a value, sets or removes the label of the     *)
(* runtime map, or changes something else, such as an annotation.          *)
Edit ==
    /\ edits < MaxEdits
    /\ edits' = edits + 1
    /\ \E m \in Maps :
         LET current == cm[m][Latest(m)]
         IN  \/ \E k \in KeysOf(m), v \in Values \cup {NoValue} :
                  cm' = [cm EXCEPT ![m] = Append(@, [current EXCEPT !.data[k] = v])]
             \/ /\ m = "runtime"
                /\ cm' = [cm EXCEPT ![m] = Append(@, [current EXCEPT !.watched = ~@])]
    /\ UNCHANGED <<up, booted, switch, pc, seen, rollout, missed, cmd, faults>>

(* The process ends, its memory and its goroutines with it.                *)
Terminate ==
    /\ up' = FALSE
    /\ booted' = [m \in Maps |-> 0]
    /\ switch' = [k \in SwitchKeys |-> NoValue]
    /\ pc' = "boot"
    /\ seen' = [m \in Maps |-> 0]
    /\ missed' = FALSE
    /\ cmd' = [c \in Commands |->
                  IF cmd[c].at \in InFlight THEN [at |-> "gone", ver |-> 0] ELSE cmd[c]]
    /\ UNCHANGED <<cm, edits>>

Crash ==
    /\ up
    /\ Fault
    /\ Terminate
    /\ UNCHANGED rollout

(* Kubernetes replaces the pod of a patched Deployment.                    *)
ReplacePod ==
    /\ rollout
    /\ rollout' = FALSE
    /\ Terminate
    /\ UNCHANGED faults

(* A process reads the mounted maps; its bots are started first, so that   *)
(* commands are carried out before the reloader has started.               *)
Boot ==
    /\ ~up
    /\ up' = TRUE
    /\ booted' = [m \in Maps |-> Latest(m)]
    /\ switch' = SwitchesAt(Latest("startup"))
    /\ UNCHANGED <<cm, pc, seen, rollout, missed, cmd, edits, faults>>

-----------------------------------------------------------------------------
(* InClusterConfigReloader                                                 *)

ReloaderAt(at) == up /\ pc = at

(* The label selector of the informers.                                    *)
Watched(m, v) == cm[m][v].watched

(* Do starts the informers; OnAdd skips the objects of the initial list.   *)
InitialList ==
    /\ ReloaderAt("boot")
    /\ pc' = "watch"
    /\ seen' = [m \in Maps |-> Latest(m)]
    /\ missed' = (DataAt("runtime", Latest("runtime")) # DataAt("runtime", booted["runtime"]))
    /\ UNCHANGED <<cm, up, booted, switch, rollout, cmd, edits, faults>>

FaultyComparesVersions(m, old, new) == Watched(m, old) \/ Watched(m, new)

(* What the handler does with the change from one version to a later one:  *)
(* OnAdd and OnDelete, which the informer also calls when the label comes  *)
(* and goes, ask for a restart; OnUpdate does when the data differ.        *)
AsksForRestart(m, old, new) ==
    \/ Watched(m, old) # Watched(m, new)
    \/ Watched(m, old) /\ DataAt(m, old) # DataAt(m, new)

(* The informer delivers in order, late, and leaves versions out when it   *)
(* has to list again.                                                      *)
HandleEvent(m) ==
    /\ ReloaderAt("watch")
    /\ \E v \in (seen[m] + 1)..Latest(m) :
         /\ seen' = [seen EXCEPT ![m] = v]
         /\ pc' = IF AsksForRestart(m, seen[m], v) THEN "restart" ELSE "watch"
    /\ UNCHANGED <<cm, up, booted, switch, rollout, missed, cmd, edits, faults>>

FaultyMessageStopsRestart ==
    /\ ReloaderAt("restart")
    /\ pc' = "watch"
    /\ \/ rollout' = TRUE /\ UNCHANGED faults
       \/ Fault /\ UNCHANGED rollout
    /\ UNCHANGED <<cm, up, booted, switch, seen, missed, cmd, edits>>

(* Restarter.Do: a message that cannot be sent does not stop it.           *)
Restart ==
    /\ ReloaderAt("restart")
    /\ rollout' = TRUE
    /\ pc' = "watch"
    /\ UNCHANGED <<cm, up, booted, switch, seen, missed, cmd, edits, faults>>

(* reloadIfCan logs the error of the patch.                                *)
RestartFails ==
    /\ ReloaderAt("restart")
    /\ Fault
    /\ pc' = "watch"
    /\ missed' = TRUE
    /\ UNCHANGED <<cm, up, booted, switch, seen, rollout, cmd, edits>>

-----------------------------------------------------------------------------
(* Commands; each runs in a worker goroutine of a bot                      *)

CommandAt(c, at) == up /\ cmd[c].at = at
Ended(c, how) == cmd' = [cmd EXCEPT ![c] = [at |-> how, ver |-> 0]]

(* Enabling or disabling notifications first changes the switch in memory. *)
Begin(c) ==
    /\ CommandAt(c, "none")
    /\ cmd' = [cmd EXCEPT ![c].at = "get"]
    /\ switch' = IF KeyOf[c] \in SwitchKeys THEN [switch EXCEPT ![KeyOf[c]] = ValueOf[c]]
                 ELSE switch
    /\ UNCHANGED <<cm, up, booted, pc, seen, rollout, missed, edits, faults>>

Get(c) ==
    /\ CommandAt(c, "get")
    /\ cmd' = [cmd EXCEPT ![c] = [at |-> "update", ver |-> Latest(MapOf(c))]]
    /\ UNCHANGED <<cm, up, booted, switch, pc, seen, rollout, missed, edits, faults>>

(* What the command makes of the data it read: MarshalToMap writes the one *)
(* file with what the state type holds, and drops everything else.         *)
State(c) ==
    LET read == DataAt(MapOf(c), cmd[c].ver)
    IN  [k \in KeysOf(MapOf(c)) |->
            IF k = KeyOf[c] THEN ValueOf[c] ELSE IF k \in OtherKeys THEN NoValue ELSE read[k]]

(* SetEnabled refuses an action the map does not hold.                     *)
UnknownAction(c) ==
    /\ CommandAt(c, "update")
    /\ KeyOf[c] \in ActionKeys
    /\ DataAt(MapOf(c), cmd[c].ver)[KeyOf[c]] = NoValue
    /\ Ended(c, "failed")
    /\ UNCHANGED <<cm, up, booted, switch, pc, seen, rollout, missed, edits, faults>>

FaultyUpToDate(c) == TRUE

(* The API server refuses an update of another version than the current.   *)
UpToDate(c) == cmd[c].ver = Latest(MapOf(c))

(* It stores no version that equals the last; its answer may be lost.      *)
Update(c) ==
    /\ CommandAt(c, "update")
    /\ KeyOf[c] \in ActionKeys => DataAt(MapOf(c), cmd[c].ver)[KeyOf[c]] # NoValue
    /\ UpToDate(c)
    /\ LET m == MapOf(c)
       IN  cm' = IF State(c) = DataAt(m, Latest(m)) THEN cm
                 ELSE [cm EXCEPT ![m] = Append(@, [@[Latest(m)] EXCEPT !.data = State(c)])]
    /\ \/ Ended(c, "ok") /\ UNCHANGED faults
       \/ Ended(c, "failed") /\ Fault
    /\ UNCHANGED <<up, booted, switch, pc, seen, rollout, missed, edits>>

Conflict(c) ==
    /\ CommandAt(c, "update")
    /\ KeyOf[c] \in ActionKeys => DataAt(MapOf(c), cmd[c].ver)[KeyOf[c]] # NoValue
    /\ ~UpToDate(c)
    /\ Ended(c, "failed")
    /\ UNCHANGED <<cm, up, booted, switch, pc, seen, rollout, missed, edits, faults>>

RequestFails(c) ==
    /\ up /\ cmd[c].at \in InFlight
    /\ Fault
    /\ Ended(c, "failed")
    /\ UNCHANGED <<cm, up, booted, switch, pc, seen, rollout, missed, edits>>

-----------------------------------------------------------------------------
Reloader == InitialList \/ Restart \/ RestartFails \/ \E m \in Maps : HandleEvent(m)

Command(c) ==
    \/ Begin(c) \/ Get(c) \/ UnknownAction(c)
    \/ Update(c) \/ Conflict(c) \/ RequestFails(c)

Next ==
    \/ Edit \/ Crash \/ ReplacePod \/ Boot
    \/ Reloader
    \/ \E c \in Commands : Command(c)

SafetySpec == Init /\ [][Next]_vars

(* The watch delivers what it has, and Kubernetes carries out a rollout    *)
(* and starts the container again.                                         *)
Spec ==
    /\ SafetySpec
    /\ WF_vars(Reloader)
    /\ WF_vars(ReplacePod)
    /\ WF_vars(Boot)

-----------------------------------------------------------------------------
(* Properties                                                              *)

(* Commands that read and write a map at the same time never undo each     *)
(* other: the state in a version differs from that in the one before it    *)
(* under one key at most (configMapStorage.Get and Update, state.go:125,   *)
(* 146).  Nothing is promised for what is not part of the state: the next  *)
(* command drops it.                                                       *)
NoLostUpdate ==
    \A m \in Maps : \A v \in 2..Latest(m) :
        \A j, k \in StateKeys(m) :
            DataAt(m, v - 1)[j] # DataAt(m, v)[j] /\ DataAt(m, v - 1)[k] # DataAt(m, v)[k] => j = k

(* "While this method updates the Botkube ConfigMap, it doesn't reload     *)
(* Botkube itself" (manager_k8s.go:86): a restart is asked for only if the *)
(* runtime map, or its label, has changed since the process was started.   *)
RestartOnlyForChange ==
    pc = "restart" =>
        \E v \in 1..Latest("runtime") :
            v >= booted["runtime"] /\ cm["runtime"][v] # cm["runtime"][booted["runtime"]]

(* Once nobody changes the runtime map any more and it has the label, the  *)
(* agent ends up with what the map holds, through crashes and through      *)
(* changes made during the restart, unless the change fell between start   *)
(* and initial list or the Deployment could not be patched.                *)
RunsWatchedConfig ==
    <>[](Watched("runtime", Latest("runtime")) /\ ~missed
            => up /\ DataAt("runtime", booted["runtime"]) = DataAt("runtime", Latest("runtime")))

(* "Expect Botkube reload in a few seconds..." (sourcebinding.go:22) is    *)
(* what the command answers: the agent ends up running with a binding it   *)
(* has stored.  It does not: commands are taken before the initial list.   *)
EditedThenReloaded ==
    \A c \in Commands :
        KeyOf[c] \in BindingKeys /\ cmd[c].at = "ok"
            ~> up /\ DataAt("runtime", booted["runtime"])[KeyOf[c]] = ValueOf[c]
=============================================================================
