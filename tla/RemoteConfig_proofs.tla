------------------------ MODULE RemoteConfig_proofs -------------------------
(***************************************************************************)
(* Proofs about RemoteConfig, for every set of configurations and          *)
(* commands, every number of retries and all bounds on edits and faults.   *)
(***************************************************************************)
EXTENDS RemoteConfig, TLAPS

(* What the reloader has, and what that says of the server.                *)
ReloaderInv ==
    /\ pc # "wait" => up
    /\ up => run \in Configs /\ currentCfg \in Configs
    /\ resVersion <= cloud.ver
    /\ pc = "process" =>
         /\ fetched \in Versioned
         /\ fetched.ver <= cloud.ver
         /\ fetched.ver = cloud.ver => fetched.cfg = cloud.cfg
    /\ up /\ currentCfg # run => pc = "restart" \/ rollout
    /\ up /\ resVersion = cloud.ver /\ Loads(cloud.cfg) => currentCfg = cloud.cfg

(* What a command owes to disturbances: each attempt but the first fails   *)
(* only because of one after the version for it was fetched.               *)
CommandInv(c) ==
    LET n == history[c].disturbed
        t == cmd[c].tries
    IN  /\ cmd[c].at \in InFlight => up
        /\ cmd[c].at = "read" /\ t > 0 => n >= t - 1 /\ (managerVer # cloud.ver => n >= t)
        /\ cmd[c].at = "sent" /\ t > 0 => n >= t - 1 /\ (cmd[c].ver # cloud.ver => n >= t)
        /\ cmd[c].at = "retry" => n >= t
        /\ cmd[c].at = "store" => n >= t /\ (cmd[c].ver # cloud.ver => n >= t + 1 \/ n = Retries - 1)
        /\ cmd[c].at = "none" => t = 0
        /\ cmd[c].at = "failed" => n >= Retries - 1

IInv ==
    /\ TypeOK
    /\ ReloaderInv
    /\ \A c \in Commands : CommandInv(c)

-----------------------------------------------------------------------------
(* Disturbed changes only the number of disturbances, and only upwards; it *)
(* raises it for a command that is being carried out unless the number is  *)
(* at its cap.                                                             *)
LEMMA DisturbedFacts ==
    ASSUME TypeOK, NEW S
    PROVE  /\ Disturbed(S) \in [Commands -> History]
           /\ \A c \in Commands :
                /\ Disturbed(S)[c].applied = history[c].applied
                /\ Disturbed(S)[c].lost = history[c].lost
                /\ Disturbed(S)[c].disturbed >= history[c].disturbed
                /\ c \in S /\ cmd[c].at \in InFlight =>
                     \/ Disturbed(S)[c].disturbed = history[c].disturbed + 1
                     \/ Disturbed(S)[c].disturbed = Retries - 1
  <1>1. ASSUME NEW c \in Commands
        PROVE  /\ Disturbed(S)[c] \in History
               /\ Disturbed(S)[c].applied = history[c].applied
               /\ Disturbed(S)[c].lost = history[c].lost
               /\ Disturbed(S)[c].disturbed >= history[c].disturbed
               /\ c \in S /\ cmd[c].at \in InFlight =>
                     \/ Disturbed(S)[c].disturbed = history[c].disturbed + 1
                     \/ Disturbed(S)[c].disturbed = Retries - 1
    <2>1. history[c] \in History
      BY DEF TypeOK
    <2>2. CASE c \in S /\ cmd[c].at \in InFlight /\ history[c].disturbed < Retries - 1
      <3>1. Disturbed(S)[c] = [history[c] EXCEPT !.disturbed = @ + 1]
        BY <2>2 DEF Disturbed
      <3>2. QED
        BY <2>1, <2>2, <3>1, RemoteConfigAssumption DEF History
    <2>3. CASE ~(c \in S /\ cmd[c].at \in InFlight /\ history[c].disturbed < Retries - 1)
      <3>1. Disturbed(S)[c] = history[c]
        BY <2>3 DEF Disturbed
      <3>2. QED
        BY <2>1, <2>3, <3>1, RemoteConfigAssumption DEF History
    <2>4. QED
      BY <2>2, <2>3
  <1>2. DOMAIN Disturbed(S) = Commands /\ Disturbed(S) = [c \in Commands |-> Disturbed(S)[c]]
    BY DEF Disturbed
  <1>3. QED
    BY <1>1, <1>2

LEMMA InitIInv == Init => IInv
  <1> SUFFICES ASSUME Init PROVE IInv
    OBVIOUS
  <1> USE RemoteConfigAssumption
  <1>1. PICK cfg \in Configs : cloud = [ver |-> 1, cfg |-> cfg] /\ run = cfg /\ currentCfg = cfg
                                /\ switch = cfg.enabled
    BY DEF Init
  <1>2. TypeOK
    <2>1. Ended("none") \in CommandState /\ NoHistory \in History
      BY DEF Ended, NoHistory, CommandState, History
    <2>2. cloud \in Versioned /\ switch \in BOOLEAN
      BY <1>1 DEF Versioned, Configs
    <2>3. 0 \in 0..MaxEdits /\ 0 \in 0..MaxFaults
      OBVIOUS
    <2>4. QED
      BY <1>1, <2>1, <2>2, <2>3 DEF Init, TypeOK
  <1>3. ReloaderInv
    BY <1>1 DEF Init, ReloaderInv, Loads, Unmarshals
  <1>4. \A c \in Commands : CommandInv(c)
    BY DEF Init, CommandInv, Ended, NoHistory, InFlight
  <1>5. QED
    BY <1>2, <1>3, <1>4 DEF IInv

-----------------------------------------------------------------------------
(* Type correctness.                                                       *)

LEMMA TerminateType ==
    ASSUME TypeOK, Terminate, rollout' \in BOOLEAN, faults' \in 0..MaxFaults
    PROVE  TypeOK'
  <1>1. Ended("gone") \in CommandState /\ NoHistory \in History
    BY RemoteConfigAssumption DEF Ended, NoHistory, CommandState, History
  <1>2. cmd' \in [Commands -> CommandState] /\ history' \in [Commands -> History]
    BY <1>1 DEF TypeOK, Terminate
  <1>3. QED
    BY <1>2 DEF TypeOK, Terminate

LEMMA FaultType == TypeOK /\ Fault => faults' \in 0..MaxFaults
  BY RemoteConfigAssumption DEF TypeOK, Fault

LEMMA TypeStep == TypeOK /\ ReloaderInv /\ [Next]_vars => TypeOK'
  <1> SUFFICES ASSUME TypeOK, ReloaderInv, [Next]_vars PROVE TypeOK'
    OBVIOUS
  <1> USE RemoteConfigAssumption
  <1>1. ASSUME NEW c \in Commands, NEW S
        PROVE /\ Disturbed(S) \in [Commands -> History]
              /\ cmd[c] \in CommandState /\ history[c] \in History
    BY DisturbedFacts DEF TypeOK
  <1>2. CASE Edit
    <2>1. Disturbed(Commands) \in [Commands -> History]
      BY DisturbedFacts
    <2>2. cloud' \in Versioned
      BY <1>2 DEF Edit, TypeOK, Versioned
    <2>3. edits' \in 0..MaxEdits
      BY <1>2 DEF Edit, TypeOK
    <2>4. QED
      BY <1>2, <2>1, <2>2, <2>3 DEF Edit, TypeOK, reloaderVars
  <1>3. CASE Crash
    BY <1>3, TerminateType, FaultType DEF Crash, TypeOK
  <1>4. CASE ReplacePod
    BY <1>4, TerminateType DEF ReplacePod, TypeOK
  <1>5. CASE Boot
    BY <1>5 DEF Boot, TypeOK, Versioned, Configs
  <1>6. CASE Poll
    BY <1>6 DEF Poll, TypeOK
  <1>7. CASE QueryConfig
    BY <1>7 DEF QueryConfig, TypeOK
  <1>8. CASE QueryConfigFails
    BY <1>8, FaultType DEF QueryConfigFails, TypeOK
  <1>9. CASE ProcessNewConfig
    <2>1. Disturbed(Commands) \in [Commands -> History]
      BY DisturbedFacts
    <2>2. /\ resVersion' \in Nat /\ managerVer' \in Nat /\ currentCfg' \in Configs \cup {NoConfig}
          /\ pc' \in {"wait", "restart"} /\ fetched' = NoConfig
      <3>1. fetched \in Versioned
        BY <1>9 DEF ProcessNewConfig, ReloaderAt, ReloaderInv
      <3>2. fetched.ver \in Nat /\ fetched.cfg \in Configs
        BY <3>1 DEF Versioned
      <3>3. QED
        BY <1>9, <3>2 DEF ProcessNewConfig, TypeOK
    <2>3. QED
      BY <1>9, <2>1, <2>2 DEF ProcessNewConfig, TypeOK
  <1>10. CASE Restart
    BY <1>10 DEF Restart, TypeOK
  <1>11. CASE RestartFails
    BY <1>11, TerminateType, FaultType DEF RestartFails, TypeOK
  <1>12. ASSUME NEW c \in Commands, SetNotificationsEnabled(c) PROVE TypeOK'
    <2>1. [cmd[c] EXCEPT !.at = "read"] \in CommandState
      BY <1>1 DEF CommandState, InFlight
    <2>2. cmd' \in [Commands -> CommandState]
      BY <1>12, <2>1 DEF SetNotificationsEnabled, TypeOK
    <2>3. QED
      BY <1>12, <2>2 DEF SetNotificationsEnabled, TypeOK, reloaderVars
  <1>13. ASSUME NEW c \in Commands, NEW at \in {"sent", "retry", "store"}, NEW ver \in Nat,
                cmd' = [cmd EXCEPT ![c].at = at, ![c].ver = ver]
         PROVE  cmd' \in [Commands -> CommandState]
    <2>1. [cmd[c] EXCEPT !.at = at, !.ver = ver] \in CommandState
      BY <1>1 DEF CommandState, InFlight
    <2>2. cmd' = [cmd EXCEPT ![c] = [cmd[c] EXCEPT !.at = at, !.ver = ver]]
      BY <1>1, <1>13 DEF CommandState, TypeOK
    <2>3. QED
      BY <2>1, <2>2 DEF TypeOK
  <1>14. ASSUME NEW c \in Commands, GetResourceVersion(c) PROVE TypeOK'
    BY <1>13, <1>14 DEF GetResourceVersion, TypeOK, reloaderVars
  <1>15. ASSUME NEW c \in Commands, PatchAccepted(c) PROVE TypeOK'
    <2>1. cloud' \in Versioned
      BY <1>15 DEF PatchAccepted, TypeOK, Versioned, Configs
    <2>2. cmd' \in [Commands -> CommandState]
      <3>1. Ended("ok") \in CommandState
        BY DEF Ended, CommandState
      <3>2. QED
        BY <1>13, <1>15, <3>1 DEF PatchAccepted, TypeOK
    <2>3. history' \in [Commands -> History]
      <3>1. ASSUME NEW h \in History PROVE Confirmed(h) \in History /\ Unanswered(h) \in History
        BY DEF Confirmed, Unanswered, History
      <3>2. Disturbed(Commands \ {c}) \in [Commands -> History]
            /\ Disturbed(Commands) \in [Commands -> History]
        BY <1>1
      <3>3. ASSUME NEW D \in [Commands -> History]
            PROVE  /\ [D EXCEPT ![c] = Confirmed(@)] \in [Commands -> History]
                   /\ [D EXCEPT ![c] = Unanswered(@)] \in [Commands -> History]
        BY <3>1
      <3>4. \/ history' = [Disturbed(Commands \ {c}) EXCEPT ![c] = Confirmed(@)]
            \/ history' = [Disturbed(Commands) EXCEPT ![c] = Unanswered(@)]
        BY <1>15 DEF PatchAccepted
      <3>5. QED
        BY <3>2, <3>3, <3>4
    <2>4. faults' \in 0..MaxFaults
      BY <1>15, FaultType DEF PatchAccepted, TypeOK
    <2>5. QED
      BY <1>15, <2>1, <2>2, <2>3, <2>4 DEF PatchAccepted, TypeOK, reloaderVars
  <1>16. ASSUME NEW c \in Commands, PatchRefused(c) PROVE TypeOK'
    BY <1>13, <1>16 DEF PatchRefused, TypeOK, reloaderVars
  <1>17. ASSUME NEW c \in Commands, PatchUnreachable(c) PROVE TypeOK'
    BY <1>1, <1>13, <1>17, FaultType DEF PatchUnreachable, TypeOK, reloaderVars
  <1>18. ASSUME NEW c \in Commands, FetchVersion(c) PROVE TypeOK'
    <2>1. cmd' \in [Commands -> CommandState]
      BY <1>13, <1>18 DEF FetchVersion, TypeOK, Versioned
    <2>2. history' \in [Commands -> History] /\ faults' \in 0..MaxFaults
      BY <1>1, <1>18, FaultType DEF FetchVersion, TypeOK
    <2>3. QED
      BY <1>18, <2>1, <2>2 DEF FetchVersion, TypeOK, reloaderVars
  <1>19. ASSUME NEW c \in Commands, SetResourceVersion(c) PROVE TypeOK'
    <2>1. cmd' \in [Commands -> CommandState]
      <3>1. Ended("failed") \in CommandState
        BY DEF Ended, CommandState
      <3>2. cmd[c].tries + 1 # Retries =>
              [at |-> "read", tries |-> cmd[c].tries + 1, ver |-> 0] \in CommandState
        BY <1>1 DEF CommandState, InFlight
      <3>3. QED
        BY <1>19, <3>1, <3>2 DEF SetResourceVersion, NextAttempt, TypeOK
    <2>2. history' \in [Commands -> History]
      BY <1>1, <1>19 DEF SetResourceVersion, TypeOK
    <2>3. managerVer' \in Nat
      BY <1>1, <1>19 DEF SetResourceVersion, CommandState
    <2>4. QED
      BY <1>19, <2>1, <2>2, <2>3 DEF SetResourceVersion, TypeOK, reloaderVars
  <1>20. CASE UNCHANGED vars
    BY <1>20 DEF vars, reloaderVars, TypeOK
  <1>21. QED
    BY <1>2, <1>3, <1>4, <1>5, <1>6, <1>7, <1>8, <1>9, <1>10, <1>11, <1>12, <1>14, <1>15, <1>16,
       <1>17, <1>18, <1>19, <1>20
    DEF Next, Reloader, Command

-----------------------------------------------------------------------------
(* The reloader.                                                           *)

(* A configuration with a higher version appears on the server.            *)
LEMMA CloudStep ==
    ASSUME TypeOK, ReloaderInv, cloud'.ver = cloud.ver + 1,
           UNCHANGED <<up, run, reloaderVars, rollout>>
    PROVE  ReloaderInv'
  <1>1. cloud.ver \in Nat /\ resVersion \in Nat /\ (pc = "process" => fetched.ver \in Nat)
    BY DEF TypeOK, ReloaderInv, Versioned
  <1>2. QED
    BY <1>1 DEF ReloaderInv, reloaderVars

LEMMA TerminateReloader == ASSUME TypeOK, Terminate PROVE ReloaderInv'
  BY DEF TypeOK, Versioned, Terminate, ReloaderInv

LEMMA ReloaderStep == TypeOK /\ ReloaderInv /\ [Next]_vars => ReloaderInv'
  <1> SUFFICES ASSUME TypeOK, ReloaderInv, [Next]_vars PROVE ReloaderInv'
    OBVIOUS
  <1>1. CASE Edit
    BY <1>1, CloudStep DEF Edit
  <1>2. CASE Crash \/ ReplacePod \/ RestartFails
    BY <1>2, TerminateReloader DEF Crash, ReplacePod, RestartFails
  <1>3. CASE Boot
    <2>1. cloud.ver \in Nat /\ cloud.cfg \in Configs /\ pc = "wait"
      BY <1>3 DEF Boot, TypeOK, ReloaderInv, Versioned
    <2>2. QED
      BY <1>3, <2>1 DEF Boot, ReloaderInv
  <1>4. CASE Poll
    BY <1>4 DEF Poll, ReloaderAt, ReloaderInv, Loads, Unmarshals
  <1>5. CASE QueryConfig
    <2>1. cloud.ver \in Nat /\ cloud \in Versioned
      BY DEF TypeOK, Versioned
    <2>2. QED
      BY <1>5, <2>1 DEF QueryConfig, ReloaderAt, ReloaderInv, Loads, Unmarshals
  <1>6. CASE QueryConfigFails
    BY <1>6 DEF QueryConfigFails, ReloaderAt, ReloaderInv, Loads, Unmarshals
  <1>7. CASE ProcessNewConfig
    <2>1. /\ fetched \in Versioned /\ fetched.cfg \in Configs /\ fetched.ver \in Nat
          /\ cloud.ver \in Nat /\ resVersion \in Nat
      BY <1>7 DEF ProcessNewConfig, ReloaderAt, ReloaderInv, TypeOK, Versioned
    <2>2. CASE Newer(fetched.ver) /\ Loads(fetched.cfg) /\ fetched.cfg # currentCfg
      BY <1>7, <2>1, <2>2 DEF ProcessNewConfig, ReloaderAt, ReloaderInv, Loads, Unmarshals
    <2>3. CASE Newer(fetched.ver) /\ ~(Loads(fetched.cfg) /\ fetched.cfg # currentCfg)
      BY <1>7, <2>1, <2>3 DEF ProcessNewConfig, ReloaderAt, ReloaderInv, Loads, Unmarshals
    <2>4. CASE ~Newer(fetched.ver)
      BY <1>7, <2>1, <2>4 DEF ProcessNewConfig, ReloaderAt, ReloaderInv, Loads, Unmarshals
    <2>5. QED
      BY <2>2, <2>3, <2>4
  <1>8. CASE Restart
    BY <1>8 DEF Restart, ReloaderAt, ReloaderInv, Loads, Unmarshals
  <1>9. ASSUME NEW c \in Commands, Command(c) PROVE ReloaderInv'
    <2>1. CASE PatchAccepted(c)
      BY <2>1, CloudStep DEF PatchAccepted
    <2>2. CASE UNCHANGED <<cloud, up, run, reloaderVars, rollout>>
      BY <2>2 DEF ReloaderInv, reloaderVars, Loads, Unmarshals
    <2>3. QED
      BY <1>9, <2>1, <2>2
      DEF Command, SetNotificationsEnabled, GetResourceVersion, PatchRefused, PatchUnreachable,
          FetchVersion, SetResourceVersion
  <1>10. CASE UNCHANGED vars
    BY <1>10 DEF vars, reloaderVars, ReloaderInv, Loads, Unmarshals
  <1>11. QED
    BY <1>1, <1>2, <1>3, <1>4, <1>5, <1>6, <1>7, <1>8, <1>9, <1>10 DEF Next, Reloader

-----------------------------------------------------------------------------
(* The commands.                                                           *)

(* A disturbance of a command pays for whatever changed on the server or   *)
(* in the manager.                                                         *)
LEMMA DisturbedStep ==
    ASSUME TypeOK, NEW c \in Commands, CommandInv(c), NEW S, c \in S,
           cmd'[c] = cmd[c], history'[c] = Disturbed(S)[c], up' = up
    PROVE  CommandInv(c)'
  <1>1. cmd[c] \in CommandState /\ history[c] \in History
    BY DEF TypeOK
  <1>2. cmd[c].tries \in 0..(Retries - 1) /\ history[c].disturbed \in 0..(Retries - 1)
    BY <1>1 DEF CommandState, History
  <1>3. /\ Disturbed(S)[c].disturbed >= history[c].disturbed
        /\ Disturbed(S)[c].disturbed \in 0..(Retries - 1)
        /\ cmd[c].at \in InFlight =>
             \/ Disturbed(S)[c].disturbed = history[c].disturbed + 1
             \/ Disturbed(S)[c].disturbed = Retries - 1
    BY DisturbedFacts DEF History
  <1>4. QED
    BY <1>2, <1>3, RemoteConfigAssumption DEF CommandInv, InFlight

LEMMA QuietStep ==
    ASSUME NEW c \in Commands, CommandInv(c), cmd'[c] = cmd[c], history'[c] = history[c],
           UNCHANGED <<up, managerVer>>, cloud'.ver = cloud.ver
    PROVE  CommandInv(c)'
  BY DEF CommandInv

LEMMA TerminateCommand ==
    ASSUME TypeOK, Terminate, NEW c \in Commands, CommandInv(c)
    PROVE  CommandInv(c)'
  <1>1. CASE cmd[c].at \in InFlight
    <2>1. cmd'[c].at = "gone"
      BY <1>1 DEF Terminate, Ended
    <2>2. QED
      BY <2>1 DEF CommandInv, InFlight
  <1>2. CASE cmd[c].at \notin InFlight
    BY <1>2 DEF Terminate, CommandInv, InFlight
  <1>3. QED
    BY <1>1, <1>2

(* A step of c itself.                                                     *)
LEMMA OwnStep ==
    ASSUME TypeOK, NEW c \in Commands, CommandInv(c), Command(c)
    PROVE  CommandInv(c)'
  <1> USE RemoteConfigAssumption
  <1> DEFINE n == history[c].disturbed
             t == cmd[c].tries
  <1>1. /\ cmd[c] \in CommandState /\ history[c] \in History /\ cmd \in [Commands -> CommandState]
        /\ managerVer \in Nat /\ cloud.ver \in Nat
    BY DEF TypeOK, Versioned
  <1>2. t \in 0..(Retries - 1) /\ n \in 0..(Retries - 1) /\ cmd[c].ver \in Nat
    BY <1>1 DEF CommandState, History
  <1>3. ASSUME NEW at, NEW ver, cmd' = [cmd EXCEPT ![c].at = at, ![c].ver = ver]
        PROVE  cmd'[c].at = at /\ cmd'[c].ver = ver /\ cmd'[c].tries = t
    BY <1>1, <1>3 DEF CommandState
  <1>4. /\ Disturbed({c})[c].disturbed \in 0..(Retries - 1)
        /\ Disturbed({c})[c].disturbed >= n
        /\ cmd[c].at \in InFlight => \/ Disturbed({c})[c].disturbed = n + 1
                                     \/ Disturbed({c})[c].disturbed = Retries - 1
    BY DisturbedFacts DEF History
  <1>5. CASE SetNotificationsEnabled(c)
    <2>1. cmd'[c].at = "read" /\ cmd'[c].tries = t
      BY <1>1, <1>5 DEF SetNotificationsEnabled, CommandState
    <2>2. t = 0 /\ up
      BY <1>5 DEF SetNotificationsEnabled, CommandAt, CommandInv
    <2>3. QED
      BY <1>5, <2>1, <2>2 DEF SetNotificationsEnabled, CommandInv, InFlight
  <1>6. CASE GetResourceVersion(c)
    <2>1. cmd'[c].at = "sent" /\ cmd'[c].ver = managerVer /\ cmd'[c].tries = t
      BY <1>3, <1>6 DEF GetResourceVersion
    <2>2. QED
      BY <1>6, <2>1 DEF GetResourceVersion, CommandAt, CommandInv, InFlight
  <1>7. CASE PatchAccepted(c)
    <2>1. CASE cmd' = [cmd EXCEPT ![c] = Ended("ok")]
      <3>1. cmd'[c].at = "ok"
        BY <1>1, <2>1 DEF Ended
      <3>2. QED
        BY <3>1 DEF CommandInv, InFlight
    <2>2. CASE /\ cmd' = [cmd EXCEPT ![c].at = "retry", ![c].ver = 0]
               /\ history' = [Disturbed(Commands) EXCEPT ![c] = Unanswered(@)]
      <3>1. cmd'[c].at = "retry" /\ cmd'[c].tries = t
        BY <1>3, <2>2
      <3>2. /\ history'[c].disturbed = Disturbed(Commands)[c].disturbed
            /\ Disturbed(Commands)[c].disturbed \in 0..(Retries - 1)
            /\ \/ Disturbed(Commands)[c].disturbed = n + 1
               \/ Disturbed(Commands)[c].disturbed = Retries - 1
        BY <1>7, <2>2, DisturbedFacts DEF Unanswered, PatchAccepted, CommandAt, InFlight, History
      <3>3. t > 0 => n >= t - 1
        BY <1>7 DEF PatchAccepted, CommandAt, CommandInv
      <3>4. history'[c].disturbed >= t
        BY <1>2, <3>2, <3>3
      <3>5. QED
        BY <1>7, <3>1, <3>4 DEF PatchAccepted, CommandAt, CommandInv, InFlight
    <2>3. QED
      BY <1>7, <2>1, <2>2 DEF PatchAccepted
  <1>8. CASE PatchRefused(c)
    <2>1. cmd'[c].at = "retry" /\ cmd'[c].tries = t
      BY <1>3, <1>8 DEF PatchRefused
    <2>2. n >= t
      BY <1>2, <1>8 DEF PatchRefused, CommandAt, CommandInv
    <2>3. QED
      BY <1>8, <2>1, <2>2 DEF PatchRefused, CommandAt, CommandInv, InFlight
  <1>9. CASE PatchUnreachable(c)
    <2>1. cmd'[c].at = "retry" /\ cmd'[c].tries = t
      BY <1>3, <1>9 DEF PatchUnreachable
    <2>2. t > 0 => n >= t - 1
      BY <1>9 DEF PatchUnreachable, CommandAt, CommandInv
    <2>3. history'[c].disturbed >= t
      BY <1>2, <1>4, <1>9, <2>2 DEF PatchUnreachable, CommandAt, InFlight
    <2>4. QED
      BY <1>9, <2>1, <2>3 DEF PatchUnreachable, CommandAt, CommandInv, InFlight
  <1>10. CASE FetchVersion(c)
    <2>1. n >= t /\ cmd[c].at = "retry" /\ up /\ up'
      BY <1>10 DEF FetchVersion, CommandAt, CommandInv
    <2>2. CASE cmd' = [cmd EXCEPT ![c].at = "store", ![c].ver = cloud.ver] /\ UNCHANGED history
      <3>1. cmd'[c].at = "store" /\ cmd'[c].tries = t /\ cmd'[c].ver = cloud'.ver
        BY <1>3, <1>10, <2>2 DEF FetchVersion
      <3>2. QED
        BY <2>1, <2>2, <3>1 DEF CommandInv
    <2>3. CASE cmd' = [cmd EXCEPT ![c].at = "store", ![c].ver = 0] /\ history' = Disturbed({c})
      <3>1. cmd'[c].at = "store" /\ cmd'[c].tries = t
        BY <1>3, <2>3
      <3>2. history'[c].disturbed >= t + 1 \/ history'[c].disturbed = Retries - 1
        BY <1>2, <1>4, <2>1, <2>3 DEF InFlight
      <3>3. history'[c].disturbed >= t
        BY <1>2, <1>4, <2>3, <3>2
      <3>4. QED
        BY <2>1, <3>1, <3>2, <3>3 DEF CommandInv
    <2>4. QED
      BY <1>10, <2>2, <2>3 DEF FetchVersion
  <1>11. CASE SetResourceVersion(c)
    <2>1. history'[c].disturbed = n
      <3>1. Disturbed(Commands \ {c})[c] = history[c]
        BY DEF Disturbed
      <3>2. QED
        BY <1>11, <3>1 DEF SetResourceVersion
    <2>2. /\ n >= t /\ up' /\ cloud' = cloud /\ managerVer' = cmd[c].ver
          /\ cmd[c].ver # cloud.ver => n >= t + 1 \/ n = Retries - 1
      BY <1>11 DEF SetResourceVersion, CommandAt, CommandInv
    <2>3. CASE t + 1 = Retries
      <3>1. cmd'[c].at = "failed"
        BY <1>1, <1>11, <2>3 DEF SetResourceVersion, NextAttempt, Ended
      <3>2. QED
        BY <1>2, <2>1, <2>2, <2>3, <3>1 DEF CommandInv, InFlight
    <2>4. CASE t + 1 # Retries
      <3>1. cmd'[c] = [at |-> "read", tries |-> t + 1, ver |-> 0]
        BY <1>1, <1>11, <2>4 DEF SetResourceVersion, NextAttempt
      <3>2. n >= (t + 1) - 1 /\ (managerVer' # cloud'.ver => n >= t + 1)
        BY <1>2, <2>2, <2>4
      <3>3. QED
        BY <2>1, <2>2, <3>1, <3>2 DEF CommandInv, InFlight
    <2>5. QED
      BY <2>3, <2>4
  <1>12. QED
    BY <1>5, <1>6, <1>7, <1>8, <1>9, <1>10, <1>11 DEF Command

LEMMA CommandStep ==
    TypeOK /\ (\A c \in Commands : CommandInv(c)) /\ ReloaderInv /\ [Next]_vars
        => \A c \in Commands : CommandInv(c)'
  <1> SUFFICES ASSUME TypeOK, \A d \in Commands : CommandInv(d), ReloaderInv, [Next]_vars,
                      NEW c \in Commands
               PROVE  CommandInv(c)'
    OBVIOUS
  <1>1. CommandInv(c)
    OBVIOUS
  <1>2. CASE Edit
    BY <1>1, <1>2, DisturbedStep DEF Edit
  <1>3. CASE Crash \/ ReplacePod \/ RestartFails
    BY <1>1, <1>3, TerminateCommand DEF Crash, ReplacePod, RestartFails
  <1>4. CASE Boot
    <2>1. cmd[c].at \notin InFlight
      BY <1>1, <1>4 DEF Boot, CommandInv
    <2>2. QED
      BY <1>1, <1>4, <2>1 DEF Boot, CommandInv, InFlight
  <1>5. CASE Poll \/ QueryConfig \/ QueryConfigFails \/ Restart
    BY <1>1, <1>5, QuietStep DEF Poll, QueryConfig, QueryConfigFails, Restart
  <1>6. CASE ProcessNewConfig
    <2>1. CASE Newer(fetched.ver)
      BY <1>1, <1>6, <2>1, DisturbedStep DEF ProcessNewConfig
    <2>2. CASE ~Newer(fetched.ver)
      BY <1>1, <1>6, <2>2, QuietStep DEF ProcessNewConfig
    <2>3. QED
      BY <2>1, <2>2
  <1>7. CASE Command(c)
    BY <1>1, <1>7, OwnStep
  <1>8. ASSUME NEW d \in Commands \ {c}, Command(d) PROVE CommandInv(c)'
    <2>1. cmd'[c] = cmd[c] /\ up' = up
      BY <1>8
      DEF Command, SetNotificationsEnabled, GetResourceVersion, PatchAccepted, PatchRefused,
          PatchUnreachable, FetchVersion, SetResourceVersion, NextAttempt, TypeOK
    <2>2. ASSUME NEW S, history' = Disturbed(S), c \notin S PROVE history'[c] = history[c]
      BY <2>2 DEF Disturbed
    <2>3. CASE PatchAccepted(d)
      <3>1. c \in Commands \ {d} /\ Disturbed(Commands \ {d})[c] = Disturbed(Commands)[c]
        BY <1>8 DEF Disturbed
      <3>2. history'[c] = Disturbed(Commands)[c]
        BY <1>8, <2>3, <3>1, DisturbedFacts DEF PatchAccepted
      <3>3. QED
        BY <1>1, <2>1, <3>2, DisturbedStep
    <2>4. CASE SetResourceVersion(d)
      <3>1. CASE managerVer = cmd[d].ver
        BY <1>1, <2>1, <2>4, <3>1, QuietStep DEF SetResourceVersion
      <3>2. CASE managerVer # cmd[d].ver
        <4>1. history'[c] = Disturbed(Commands \ {d})[c] /\ c \in Commands \ {d}
          BY <1>8, <2>4, <3>2 DEF SetResourceVersion
        <4>2. QED
          BY <1>1, <2>1, <4>1, DisturbedStep
      <3>3. QED
        BY <3>1, <3>2
    <2>5. CASE /\ UNCHANGED <<cloud, managerVer>>
               /\ history' = history \/ history' = Disturbed({d})
      <3>1. history'[c] = history[c]
        BY <1>8, <2>2, <2>5
      <3>2. QED
        BY <1>1, <2>1, <2>5, <3>1, QuietStep
    <2>6. QED
      BY <1>8, <2>3, <2>4, <2>5
      DEF Command, SetNotificationsEnabled, GetResourceVersion, PatchRefused, PatchUnreachable,
          FetchVersion
  <1>9. CASE UNCHANGED vars
    BY <1>1, <1>9, QuietStep DEF vars
  <1>10. QED
    BY <1>2, <1>3, <1>4, <1>5, <1>6, <1>7, <1>8, <1>9 DEF Next, Reloader

(* Patches and answers are counted in the same step; no other step, not    *)
(* even a disturbance, changes either number.                              *)
LEMMA AppliedStep ==
    TypeOK /\ ReloaderInv /\ AppliedAsReported /\ [Next]_vars => AppliedAsReported'
  <1> DEFINE Balanced(c) ==
               /\ cmd[c].at = "ok" => history[c].applied = history[c].lost + 1
               /\ cmd[c].at # "ok" => history[c].applied = history[c].lost
  <1> SUFFICES ASSUME TypeOK, AppliedAsReported, [Next]_vars, NEW c \in Commands
               PROVE  Balanced(c)'
    BY DEF AppliedAsReported
  <1>1. /\ Balanced(c) /\ cmd[c] \in CommandState /\ history[c] \in History
        /\ cmd \in [Commands -> CommandState]
    BY DEF AppliedAsReported, TypeOK
  <1>2. ASSUME NEW S PROVE /\ Disturbed(S)[c].applied = history[c].applied
                           /\ Disturbed(S)[c].lost = history[c].lost
    BY DisturbedFacts
  <1>3. ASSUME cmd'[c] = cmd[c],
               history'[c] = history[c] \/ \E S : history'[c] = Disturbed(S)[c]
        PROVE  Balanced(c)'
    BY <1>1, <1>2, <1>3
  <1>4. CASE Edit \/ Boot \/ Poll \/ QueryConfig \/ QueryConfigFails \/ ProcessNewConfig \/ Restart
    BY <1>3, <1>4 DEF Edit, Boot, Poll, QueryConfig, QueryConfigFails, ProcessNewConfig, Restart
  <1>5. CASE Terminate
    <2>1. CASE cmd[c].at \in InFlight
      BY <1>5, <2>1 DEF Terminate, Ended, NoHistory
    <2>2. CASE cmd[c].at \notin InFlight
      BY <1>1, <1>5, <2>2 DEF Terminate
    <2>3. QED
      BY <2>1, <2>2
  <1>6. CASE PatchAccepted(c)
    <2>1. cmd[c].at # "ok"
      BY <1>6 DEF PatchAccepted, CommandAt
    <2>2. CASE /\ cmd' = [cmd EXCEPT ![c] = Ended("ok")]
               /\ history' = [Disturbed(Commands \ {c}) EXCEPT ![c] = Confirmed(@)]
      <3> DEFINE D == Disturbed(Commands \ {c})
      <3>a. D \in [Commands -> History]
        BY DisturbedFacts
      <3>b. history' = [D EXCEPT ![c] = Confirmed(D[c])]
        BY <2>2
      <3> HIDE DEF D
      <3>c. history'[c] = Confirmed(D[c])
        BY <3>a, <3>b
      <3>1. cmd'[c].at = "ok" /\ history'[c] = Confirmed(Disturbed(Commands \ {c})[c])
        BY <1>1, <2>2, <3>c DEF Ended, D
      <3>2. QED
        BY <1>1, <1>2, <2>1, <3>1 DEF Confirmed
    <2>3. CASE /\ cmd' = [cmd EXCEPT ![c].at = "retry", ![c].ver = 0]
               /\ history' = [Disturbed(Commands) EXCEPT ![c] = Unanswered(@)]
      <3>1. cmd'[c].at = "retry" /\ history'[c] = Unanswered(Disturbed(Commands)[c])
        BY <1>1, <2>3, DisturbedFacts DEF CommandState
      <3>2. QED
        BY <1>1, <1>2, <2>1, <3>1 DEF Unanswered
    <2>4. QED
      BY <1>6, <2>2, <2>3 DEF PatchAccepted
  <1>7. ASSUME cmd'[c].at # "ok", cmd[c].at # "ok",
               history'[c] = history[c] \/ \E S : history'[c] = Disturbed(S)[c]
        PROVE  Balanced(c)'
    BY <1>1, <1>2, <1>7
  <1>8. CASE \/ SetNotificationsEnabled(c) \/ GetResourceVersion(c) \/ PatchRefused(c)
            \/ PatchUnreachable(c) \/ FetchVersion(c)
    <2>1. cmd[c].at # "ok" /\ cmd'[c].at \in {"read", "sent", "retry", "store"}
      BY <1>1, <1>8
      DEF SetNotificationsEnabled, GetResourceVersion, PatchRefused, PatchUnreachable,
          FetchVersion, CommandAt, CommandState
    <2>2. history'[c] = history[c] \/ \E S : history'[c] = Disturbed(S)[c]
      BY <1>8
      DEF SetNotificationsEnabled, GetResourceVersion, PatchRefused, PatchUnreachable, FetchVersion
    <2>3. cmd'[c].at # "ok"
      BY <2>1
    <2>4. QED
      BY <1>7, <2>1, <2>2, <2>3
  <1>9. CASE SetResourceVersion(c)
    <2>1. cmd[c].at # "ok" /\ cmd'[c].at \in {"failed", "read"}
      BY <1>1, <1>9 DEF SetResourceVersion, CommandAt, NextAttempt, Ended
    <2>2. history'[c] = history[c] \/ \E S : history'[c] = Disturbed(S)[c]
      BY <1>9 DEF SetResourceVersion
    <2>3. cmd'[c].at # "ok"
      BY <2>1
    <2>4. QED
      BY <1>7, <2>1, <2>2, <2>3
  <1>10. ASSUME NEW d \in Commands \ {c}, Command(d) PROVE Balanced(c)'
    <2>1. cmd'[c] = cmd[c]
      BY <1>10
      DEF Command, SetNotificationsEnabled, GetResourceVersion, PatchAccepted, PatchRefused,
          PatchUnreachable, FetchVersion, SetResourceVersion, NextAttempt, TypeOK
    <2>2. CASE PatchAccepted(d)
      <3>1. \/ history'[c] = Disturbed(Commands \ {d})[c]
            \/ history'[c] = Disturbed(Commands)[c]
        BY <1>10, <2>2, DisturbedFacts DEF PatchAccepted
      <3>2. QED
        BY <1>3, <2>1, <3>1
    <2>3. CASE ~PatchAccepted(d)
      <3>1. history'[c] = history[c] \/ \E S : history'[c] = Disturbed(S)[c]
        BY <1>10, <2>3
        DEF Command, SetNotificationsEnabled, GetResourceVersion, PatchRefused, PatchUnreachable,
            FetchVersion, SetResourceVersion
      <3>2. QED
        BY <1>3, <2>1, <3>1
    <2>4. QED
      BY <2>2, <2>3
  <1>11. CASE UNCHANGED vars
    BY <1>3, <1>11 DEF vars
  <1>12. QED
    BY <1>4, <1>5, <1>6, <1>8, <1>9, <1>10, <1>11
    DEF Next, Reloader, Command, Crash, ReplacePod, RestartFails

-----------------------------------------------------------------------------
(* The theorems.                                                           *)

LEMMA IInvHolds == SafetySpec => []IInv
  <1>1. IInv /\ [Next]_vars => IInv'
    BY TypeStep, ReloaderStep, CommandStep DEF IInv
  <1>2. QED
    BY InitIInv, <1>1, PTL DEF SafetySpec

(* The variables keep their types: versions are numbers, and a process     *)
(* that runs has a configuration.                                          *)
THEOREM TypeCorrect == SafetySpec => []TypeOK
  <1>1. IInv => TypeOK
    BY DEF IInv
  <1>2. QED
    BY IInvHolds, <1>1, PTL

(* A configuration that loads is never passed over by the polls, whichever *)
(* requests fail and wherever the reloader stops (remote.go:52, :151).     *)
THEOREM NoSkippedConfigHolds == SafetySpec => []NoSkippedConfig
  <1>1. IInv => NoSkippedConfig
    BY DEF IInv, ReloaderInv, NoSkippedConfig
  <1>2. QED
    BY IInvHolds, <1>1, PTL

(* withRetry reports a failure only after Retries - 1 disturbances, for    *)
(* every number of retries and of concurrent commands                      *)
(* (manager_remote.go:186).                                                *)
THEOREM WriteFailsOnlyWhenDisturbedHolds == SafetySpec => []WriteFailsOnlyWhenDisturbed
  <1>1. IInv => WriteFailsOnlyWhenDisturbed
    BY DEF IInv, CommandInv, WriteFailsOnlyWhenDisturbed
  <1>2. QED
    BY IInvHolds, <1>1, PTL

(* A command reports success if and only if a patch of it was applied and  *)
(* answered; a reported failure left no trace but for lost answers         *)
(* (manager_remote.go:71, :75).                                            *)
THEOREM AppliedAsReportedHolds == SafetySpec => []AppliedAsReported
  <1>1. Init => AppliedAsReported
    BY DEF Init, AppliedAsReported, Ended, NoHistory
  <1>2. IInv /\ AppliedAsReported /\ [Next]_vars => AppliedAsReported'
    BY AppliedStep DEF IInv
  <1>3. QED
    BY IInvHolds, <1>1, <1>2, PTL DEF SafetySpec
=============================================================================
