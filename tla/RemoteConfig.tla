---------------------------- MODULE RemoteConfig ----------------------------
(***************************************************************************)
(* The configuration of an agent that is managed by Botkube Cloud: the     *)
(* reloader that polls for new versions (internal/config/reloader), the    *)
(* manager through which commands change the configuration                 *)
(* (pkg/config/manager_remote.go), and the notification switch that the    *)
(* commands also change in memory (pkg/execute/notifier.go).               *)
(*                                                                         *)
(* A configuration is the persisted switch of one channel and the rest.    *)
(* The server gives each change a higher version and accepts a patch only  *)
(* if it names the present one.  The Deployment uses the strategy          *)
(* "Recreate": there is at most one agent process.                         *)
(***************************************************************************)
EXTENDS Integers, FiniteSets

CONSTANTS
    Rests,      \* everything in a configuration but the switch
    Malformed,  \* those that do not unmarshal (queryConfig)
    Invalid,    \* those that unmarshal, but LoadWithDefaults refuses
    Commands,   \* "enable/disable notifications" commands, each given at most once
    ValueOf,    \* what a command sets the switch to
    Retries,    \* attempts to write the configuration; 3 in the code
    MaxEdits,   \* bound: changes of the configuration by the users of the server
    MaxFaults,  \* bound: failed requests and crashes
    NoConfig    \* nothing fetched; or the process does not run

Configs == [enabled : BOOLEAN, rest : Rests]
Versioned == [ver : Nat, cfg : Configs]

ASSUME RemoteConfigAssumption ==
    /\ Malformed \subseteq Rests
    /\ Invalid \subseteq Rests
    /\ ValueOf \in [Commands -> BOOLEAN]
    /\ Retries \in Nat \ {0}
    /\ MaxEdits \in Nat
    /\ MaxFaults \in Nat
    /\ NoConfig \notin Configs
    /\ NoConfig \notin Versioned

VARIABLES
    cloud,      \* the server: version and configuration
    up,         \* the agent process runs
    run,        \* the configuration it was started with
    switch,     \* the notification switch of the bot, in memory
    currentCfg, \* RemoteConfigReloader.currentCfg
    resVersion, \* RemoteConfigReloader.resVersion
    pc,         \* where the reloader is
    fetched,    \* what queryConfig returned
    rollout,    \* the Deployment was patched and the pod is not replaced yet
    managerVer, \* RemotePersistenceManager.resourceVersion
    cmd,        \* a command: position, attempts made, version at hand
    history,    \* of a command: disturbances, patches applied, answers lost
    edits, faults

reloaderVars == <<currentCfg, resVersion, pc, fetched>>
vars == <<cloud, up, run, switch, reloaderVars, rollout, managerVer, cmd, history, edits, faults>>

Unmarshals(cfg) == cfg.rest \notin Malformed
Loads(cfg) == Unmarshals(cfg) /\ cfg.rest \notin Invalid

InFlight == {"read", "sent", "retry", "store"}
NoHistory == [disturbed |-> 0, applied |-> 0, lost |-> 0]
Ended(at) == [at |-> at, tries |-> 0, ver |-> 0]

CommandState == [at : InFlight \cup {"none", "ok", "failed", "gone"},
                 tries : 0..(Retries - 1), ver : Nat]
History == [disturbed : 0..(Retries - 1), applied : Nat, lost : Nat]

TypeOK ==
    /\ cloud \in Versioned
    /\ up \in BOOLEAN
    /\ run \in Configs \cup {NoConfig}
    /\ switch \in BOOLEAN
    /\ currentCfg \in Configs \cup {NoConfig}
    /\ resVersion \in Nat
    /\ pc \in {"wait", "query", "process", "restart"}
    /\ fetched \in Versioned \cup {NoConfig}
    /\ rollout \in BOOLEAN
    /\ managerVer \in Nat
    /\ cmd \in [Commands -> CommandState]
    /\ history \in [Commands -> History]
    /\ edits \in 0..MaxEdits
    /\ faults \in 0..MaxFaults

(* A process starts from a configuration that loads.                       *)
Init ==
    /\ \E cfg \in Configs :
         /\ Loads(cfg)
         /\ cloud = [ver |-> 1, cfg |-> cfg]
         /\ run = cfg
         /\ switch = cfg.enabled
         /\ currentCfg = cfg
    /\ up = TRUE
    /\ resVersion = 1
    /\ pc = "wait"
    /\ fetched = NoConfig
    /\ rollout = FALSE
    /\ managerVer = 1
    /\ cmd = [c \in Commands |-> Ended("none")]
    /\ history = [c \in Commands |-> NoHistory]
    /\ edits = 0
    /\ faults = 0

Fault == faults < MaxFaults /\ faults' = faults + 1

(* Something gets in the way of those commands that are being carried out. *)
Disturbed(commands) ==
    [c \in Commands |->
        IF c \in commands /\ cmd[c].at \in InFlight /\ history[c].disturbed < Retries - 1
        THEN [history[c] EXCEPT !.disturbed = @ + 1]
        ELSE history[c]]

-----------------------------------------------------------------------------
(* Server and cluster                                                      *)

(* A user edits the configuration on the server.                           *)
Edit ==
    /\ edits < MaxEdits
    /\ edits' = edits + 1
    /\ \E cfg \in Configs \ {cloud.cfg} : cloud' = [ver |-> cloud.ver + 1, cfg |-> cfg]
    /\ history' = Disturbed(Commands)
    /\ UNCHANGED <<up, run, switch, reloaderVars, rollout, managerVer, cmd, faults>>

(* The process ends, its memory and its goroutines with it.                *)
Terminate ==
    /\ up' = FALSE
    /\ run' = NoConfig
    /\ switch' = FALSE
    /\ currentCfg' = NoConfig
    /\ resVersion' = 0
    /\ pc' = "wait"
    /\ fetched' = NoConfig
    /\ managerVer' = 0
    /\ cmd' = [c \in Commands |-> IF cmd[c].at \in InFlight THEN Ended("gone") ELSE cmd[c]]
    /\ history' = [c \in Commands |-> IF cmd[c].at \in InFlight THEN NoHistory ELSE history[c]]
    /\ UNCHANGED <<cloud, edits>>

Crash ==
    /\ up
    /\ Fault
    /\ Terminate
    /\ UNCHANGED rollout

(* Kubernetes replaces the pod of a patched Deployment.                    *)
ReplacePod ==
    /\ rollout
    /\ rollout' = FALSE
    /\ Terminate
    /\ UNCHANGED faults

(* Start of a process; with a configuration that does not load it exits.   *)
Boot ==
    /\ ~up
    /\ Loads(cloud.cfg)
    /\ up' = TRUE
    /\ run' = cloud.cfg
    /\ switch' = cloud.cfg.enabled
    /\ currentCfg' = cloud.cfg
    /\ resVersion' = cloud.ver
    /\ managerVer' = cloud.ver
    /\ UNCHANGED <<cloud, pc, fetched, rollout, cmd, history, edits, faults>>

-----------------------------------------------------------------------------
(* RemoteConfigReloader                                                    *)

ReloaderAt(at) == up /\ pc = at

(* compareResVer.                                                          *)
Newer(ver) == ver > resVersion

FaultyPollRecords ==
    /\ ReloaderAt("wait")
    /\ Newer(cloud.ver)
    /\ pc' = "query"
    /\ resVersion' = cloud.ver
    /\ UNCHANGED <<cloud, up, run, switch, currentCfg, fetched, rollout, managerVer, cmd, history,
                   edits, faults>>

(* The poll asks for the version only.                                     *)
Poll ==
    /\ ReloaderAt("wait")
    /\ Newer(cloud.ver)
    /\ pc' = "query"
    /\ UNCHANGED <<cloud, up, run, switch, currentCfg, resVersion, fetched, rollout, managerVer,
                   cmd, history, edits, faults>>

(* The second request returns version and configuration, maybe of a later  *)
(* version.                                                                *)
QueryConfig ==
    /\ ReloaderAt("query")
    /\ Unmarshals(cloud.cfg)
    /\ fetched' = cloud
    /\ pc' = "process"
    /\ UNCHANGED <<cloud, up, run, switch, currentCfg, resVersion, rollout, managerVer, cmd, history,
                   edits, faults>>

QueryConfigFails ==
    /\ ReloaderAt("query")
    /\ IF Unmarshals(cloud.cfg) THEN Fault ELSE UNCHANGED faults
    /\ pc' = "wait"
    /\ UNCHANGED <<cloud, up, run, switch, currentCfg, resVersion, fetched, rollout, managerVer, cmd,
                   history, edits>>

(* The version is recorded, here and in the manager, before the            *)
(* configuration is loaded and compared with currentCfg. The comparison    *)
(* has no error of its own: both operands are of type config.Config.       *)
ProcessNewConfig ==
    /\ ReloaderAt("process")
    /\ LET newer == Newer(fetched.ver)
           apply == newer /\ Loads(fetched.cfg) /\ fetched.cfg # currentCfg
       IN  /\ resVersion' = IF newer THEN fetched.ver ELSE resVersion
           /\ managerVer' = IF newer THEN fetched.ver ELSE managerVer
           /\ history' = IF newer THEN Disturbed(Commands) ELSE history
           /\ currentCfg' = IF apply THEN fetched.cfg ELSE currentCfg
           /\ pc' = IF apply THEN "restart" ELSE "wait"
    /\ fetched' = NoConfig
    /\ UNCHANGED <<cloud, up, run, switch, rollout, cmd, edits, faults>>

(* Restarter.Do patches the Deployment; a message that cannot be sent does *)
(* not stop it.                                                            *)
Restart ==
    /\ ReloaderAt("restart")
    /\ rollout' = TRUE
    /\ pc' = "wait"
    /\ UNCHANGED <<cloud, up, run, switch, currentCfg, resVersion, fetched, managerVer, cmd, history,
                   edits, faults>>

FaultyRestartContinues ==
    /\ ReloaderAt("restart")
    /\ Fault
    /\ pc' = "wait"
    /\ UNCHANGED <<cloud, up, run, switch, currentCfg, resVersion, fetched, rollout, managerVer, cmd,
                   history, edits>>

(* The error ends Do, the error group and with it the agent.               *)
RestartFails ==
    /\ ReloaderAt("restart")
    /\ Fault
    /\ Terminate
    /\ UNCHANGED rollout

-----------------------------------------------------------------------------
(* Commands; each runs in a worker goroutine of the bot                    *)

CommandAt(c, at) == up /\ cmd[c].at = at

(* Enable or Disable first changes the switch in memory.                   *)
SetNotificationsEnabled(c) ==
    /\ CommandAt(c, "none")
    /\ switch' = ValueOf[c]
    /\ cmd' = [cmd EXCEPT ![c].at = "read"]
    /\ UNCHANGED <<cloud, up, run, reloaderVars, rollout, managerVer, history, edits, faults>>

(* An attempt of withRetry puts the version of the manager in the patch.   *)
GetResourceVersion(c) ==
    /\ CommandAt(c, "read")
    /\ cmd' = [cmd EXCEPT ![c].at = "sent", ![c].ver = managerVer]
    /\ UNCHANGED <<cloud, up, run, switch, reloaderVars, rollout, managerVer, history, edits, faults>>

Confirmed(h) == [disturbed |-> 0, applied |-> h.applied + 1, lost |-> h.lost]
Unanswered(h) == [disturbed |-> h.disturbed, applied |-> h.applied + 1, lost |-> h.lost + 1]

(* The server applies the patch; the answer may be lost.                   *)
PatchAccepted(c) ==
    /\ CommandAt(c, "sent")
    /\ cmd[c].ver = cloud.ver
    /\ cloud' = [ver |-> cloud.ver + 1, cfg |-> [cloud.cfg EXCEPT !.enabled = ValueOf[c]]]
    /\ \/ /\ cmd' = [cmd EXCEPT ![c] = Ended("ok")]
          /\ history' = [Disturbed(Commands \ {c}) EXCEPT ![c] = Confirmed(@)]
          /\ UNCHANGED faults
       \/ /\ Fault
          /\ cmd' = [cmd EXCEPT ![c].at = "retry", ![c].ver = 0]
          /\ history' = [Disturbed(Commands) EXCEPT ![c] = Unanswered(@)]
    /\ UNCHANGED <<up, run, switch, reloaderVars, rollout, managerVer, edits>>

FaultyPatchSuccessIgnored(c) ==
    /\ CommandAt(c, "sent")
    /\ cmd[c].ver # cloud.ver
    /\ cmd' = [cmd EXCEPT ![c] = Ended("ok")]
    /\ UNCHANGED <<cloud, up, run, switch, reloaderVars, rollout, managerVer, history, edits, faults>>

(* It refuses a patch for another version: an error or Success = false.    *)
PatchRefused(c) ==
    /\ CommandAt(c, "sent")
    /\ cmd[c].ver # cloud.ver
    /\ cmd' = [cmd EXCEPT ![c].at = "retry", ![c].ver = 0]
    /\ UNCHANGED <<cloud, up, run, switch, reloaderVars, rollout, managerVer, history, edits, faults>>

PatchUnreachable(c) ==
    /\ CommandAt(c, "sent")
    /\ Fault
    /\ cmd' = [cmd EXCEPT ![c].at = "retry", ![c].ver = 0]
    /\ history' = Disturbed({c})
    /\ UNCHANGED <<cloud, up, run, switch, reloaderVars, rollout, managerVer, edits>>

(* OnRetry fetches the version; when that fails it goes on with 0.         *)
FetchVersion(c) ==
    /\ CommandAt(c, "retry")
    /\ \/ /\ cmd' = [cmd EXCEPT ![c].at = "store", ![c].ver = cloud.ver]
          /\ UNCHANGED <<history, faults>>
       \/ /\ Fault
          /\ cmd' = [cmd EXCEPT ![c].at = "store", ![c].ver = 0]
          /\ history' = Disturbed({c})
    /\ UNCHANGED <<cloud, up, run, switch, reloaderVars, rollout, managerVer, edits>>

NextAttempt(c) ==
    cmd' = [cmd EXCEPT ![c] = IF @.tries + 1 = Retries THEN Ended("failed")
                              ELSE [at |-> "read", tries |-> @.tries + 1, ver |-> 0]]

FaultyVersionNotStored(c) ==
    /\ CommandAt(c, "store")
    /\ NextAttempt(c)
    /\ UNCHANGED <<cloud, up, run, switch, reloaderVars, rollout, managerVer, history, edits, faults>>

FaultyRetriesForever(c) ==
    /\ CommandAt(c, "store")
    /\ managerVer' = cmd[c].ver
    /\ cmd' = [cmd EXCEPT ![c] = [at |-> "read", tries |-> @.tries + 1, ver |-> 0]]
    /\ history' = IF managerVer = cmd[c].ver THEN history ELSE Disturbed(Commands \ {c})
    /\ UNCHANGED <<cloud, up, run, switch, reloaderVars, rollout, edits, faults>>

(* ... stores it for all commands, and the next attempt begins.            *)
SetResourceVersion(c) ==
    /\ CommandAt(c, "store")
    /\ managerVer' = cmd[c].ver
    /\ NextAttempt(c)
    /\ history' = IF managerVer = cmd[c].ver THEN history ELSE Disturbed(Commands \ {c})
    /\ UNCHANGED <<cloud, up, run, switch, reloaderVars, rollout, edits, faults>>

-----------------------------------------------------------------------------
Reloader == Poll \/ QueryConfig \/ QueryConfigFails \/ ProcessNewConfig \/ Restart \/ RestartFails

Command(c) ==
    \/ SetNotificationsEnabled(c) \/ GetResourceVersion(c)
    \/ PatchAccepted(c) \/ PatchRefused(c) \/ PatchUnreachable(c)
    \/ FetchVersion(c) \/ SetResourceVersion(c)

Next ==
    \/ Edit \/ Crash \/ ReplacePod \/ Boot
    \/ Reloader
    \/ \E c \in Commands : Command(c)

SafetySpec == Init /\ [][Next]_vars

(* The poll is driven by a ticker, and Kubernetes carries out a rollout    *)
(* and starts the container again.                                         *)
Spec ==
    /\ SafetySpec
    /\ WF_vars(Reloader)
    /\ WF_vars(ReplacePod)
    /\ WF_vars(Boot)

-----------------------------------------------------------------------------
(* Properties                                                              *)

(* When the version the reloader has recorded is the latest, every poll is *)
(* skipped; so if the agent runs another configuration than that version   *)
(* holds, its restart is under way.  processNewConfig records the version  *)
(* first and may stop at several points after it (remote.go:162).          *)
NoSkippedConfig ==
    up /\ resVersion = cloud.ver /\ Loads(cloud.cfg) /\ run # cloud.cfg
        => pc = "restart" \/ rollout

(* Once the users leave a configuration that loads on the server, the      *)
(* agent ends up running it, whatever failed or crashed before and         *)
(* whatever the commands wrote.                                            *)
RunsLatestConfig ==
    <>[](Loads(cloud.cfg) => up /\ run = cloud.cfg)

(* withRetry gives up only if at least two things went wrong while it was  *)
(* at work: failed requests, changes on the server, or other goroutines    *)
(* that replaced the version the manager holds.  A version that was stale  *)
(* at the beginning never suffices.                                        *)
WriteFailsOnlyWhenDisturbed ==
    \A c \in Commands : cmd[c].at = "failed" => history[c].disturbed >= Retries - 1

(* What a command answers is what happened: success means that a patch was *)
(* applied, and each patch applied beyond the one that was confirmed       *)
(* belongs to an answer that was lost.                                     *)
AppliedAsReported ==
    \A c \in Commands :
        /\ cmd[c].at = "ok" => history[c].applied = history[c].lost + 1
        /\ cmd[c].at # "ok" => history[c].applied = history[c].lost

(* "Config with higher version (%d) is the same as the latest one. No need *)
(* to reload config" (remote.go:178): when the reloader has seen the       *)
(* latest version and neither command nor rollout is under way, the switch *)
(* in force is the configured one.  It is not: the comparison is with the  *)
(* configuration of the start, which a command has left since.             *)
SwitchIsConfigured ==
    up /\ resVersion = cloud.ver /\ pc = "wait" /\ ~rollout
       /\ (\A c \in Commands : cmd[c].at \in {"none", "ok"})
        => switch = cloud.cfg.enabled
=============================================================================
