----------------------- MODULE InClusterConfig_proofs -----------------------
(***************************************************************************)
(* Proofs about InClusterConfig, for every set of keys, values and         *)
(* commands and all bounds on edits and faults.                            *)
(***************************************************************************)
EXTENDS InClusterConfig, SequenceTheorems, TLAPS

(* Where the versions that processes hold stand among those of the maps: a *)
(* process never starts the watch from before the version it was booted    *)
(* with, and the startup map never carries the label.                      *)
VersionInv ==
    /\ up => \A m \in Maps : booted[m] \in 1..Latest(m)
    /\ pc # "boot" => up /\ \A m \in Maps : seen[m] \in booted[m]..Latest(m)
    /\ \A c \in Commands : cmd[c].at = "update" => cmd[c].ver \in 1..Latest(MapOf(c))
    /\ \A v \in 1..Latest("startup") : ~Watched("startup", v)

IInv ==
    /\ TypeOK
    /\ VersionInv
    /\ NoLostUpdate
    /\ RestartOnlyForChange

-----------------------------------------------------------------------------
(* A command writes under a key of the map it reads.                       *)
LEMMA KeyFacts ==
    ASSUME NEW c \in Commands
    PROVE  /\ MapOf(c) \in Maps /\ ValueOf[c] \in Values
           /\ KeyOf[c] \in StateKeys(MapOf(c)) /\ KeyOf[c] \in KeysOf(MapOf(c))
BY InClusterConfigAssumption DEF MapOf, Maps, KeysOf, StateKeys

(* What the state types do not hold is none of their keys.                 *)
LEMMA OthersApart ==
    ASSUME NEW m \in Maps
    PROVE  StateKeys(m) \subseteq KeysOf(m) /\ StateKeys(m) \cap OtherKeys = {}
BY InClusterConfigAssumption DEF StateKeys, KeysOf

(* A map keeps the versions it has: what m has after the step is what it   *)
(* had, and at most one more version, x.                                   *)
Extended(m, x) == cm' = [cm EXCEPT ![m] = Append(cm[m], x)]

LEMMA ExtendedFacts ==
    ASSUME TypeOK, NEW m \in Maps, NEW x \in Version(m), Extended(m, x)
    PROVE  /\ cm' = [n \in Maps |-> cm'[n]]
           /\ \A n \in Maps : cm'[n] \in Seq(Version(n)) /\ cm'[n] # <<>>
           /\ Latest(m)' = Latest(m) + 1
           /\ cm'[m][Latest(m) + 1] = x
           /\ \A n \in Maps \ {m} : cm'[n] = cm[n]
           /\ \A v \in 1..Latest(m) : cm'[m][v] = cm[m][v]
<1>1. /\ \A n \in Maps \ {m} : cm'[n] = cm[n]
      /\ cm'[m] = Append(cm[m], x)
      /\ cm' = [n \in Maps |-> cm'[n]]
      /\ cm[m] \in Seq(Version(m))
    BY DEF Extended, TypeOK
<1>2. /\ cm'[m] \in Seq(Version(m)) /\ Len(cm'[m]) = Len(cm[m]) + 1
      /\ cm'[m][Len(cm[m]) + 1] = x
      /\ \A v \in 1..Len(cm[m]) : cm'[m][v] = cm[m][v]
    BY <1>1
<1>3. Len(cm[m]) \in Nat
    BY <1>1
<1>4. cm'[m] # <<>>
    BY <1>2, <1>3
<1> QED
    BY <1>1, <1>2, <1>4 DEF TypeOK, Latest

(* The two steps that add a version: one value of the last one is changed, *)
(* or its label; the label of the startup map is not.                      *)
Follows(m, x) ==
    LET last == cm[m][Latest(m)]
    IN  /\ x \in Version(m)
        /\ m = "startup" => x.watched = last.watched
        /\ \A j, k \in StateKeys(m) : last.data[j] # x.data[j] /\ last.data[k] # x.data[k] => j = k

LEMMA LastVersion ==
    ASSUME TypeOK, NEW m \in Maps
    PROVE  /\ Latest(m) \in Nat \ {0}
           /\ \A v \in 1..Latest(m) : cm[m][v] \in Version(m)
<1>1. cm[m] \in Seq(Version(m)) /\ cm[m] # <<>>
    BY DEF TypeOK
<1> QED
    BY <1>1 DEF Latest

LEMMA EditFollows ==
    ASSUME TypeOK, Edit
    PROVE  \E m \in Maps : \E x \in Version(m) : Follows(m, x) /\ Extended(m, x)
<1>1. PICK m \in Maps :
         \/ \E k \in KeysOf(m), v \in Values \cup {NoValue} :
              cm' = [cm EXCEPT ![m] = Append(@, [cm[m][Latest(m)] EXCEPT !.data[k] = v])]
         \/ /\ m = "runtime"
            /\ cm' = [cm EXCEPT ![m] = Append(@, [cm[m][Latest(m)] EXCEPT !.watched = ~@])]
    BY DEF Edit
<1> DEFINE last == cm[m][Latest(m)]
<1>2. last \in Version(m)
    BY LastVersion
<1>3. cm \in [Maps -> {cm[n] : n \in Maps}]
    BY DEF TypeOK
<1>4. CASE \E k \in KeysOf(m), v \in Values \cup {NoValue} :
              cm' = [cm EXCEPT ![m] = Append(@, [last EXCEPT !.data[k] = v])]
    <2>1. PICK k \in KeysOf(m), v \in Values \cup {NoValue} :
              cm' = [cm EXCEPT ![m] = Append(@, [last EXCEPT !.data[k] = v])]
        BY <1>4
    <2> DEFINE x == [last EXCEPT !.data[k] = v]
    <2>2. x \in Version(m) /\ x.watched = last.watched
        BY <1>2 DEF Version, Data
    <2>3. \A j \in KeysOf(m) : last.data[j] # x.data[j] => j = k
        BY <1>2 DEF Version, Data
    <2>4. Follows(m, x)
        BY <2>2, <2>3, OthersApart DEF Follows
    <2>5. Extended(m, x)
        BY <1>3, <2>1 DEF Extended
    <2> QED
        BY <2>2, <2>4, <2>5
<1>5. CASE m = "runtime" /\ cm' = [cm EXCEPT ![m] = Append(@, [last EXCEPT !.watched = ~@])]
    <2> DEFINE x == [last EXCEPT !.watched = ~@]
    <2>1. x \in Version(m) /\ x.data = last.data
        BY <1>2 DEF Version
    <2>2. Follows(m, x)
        BY <1>5, <2>1 DEF Follows
    <2>3. Extended(m, x)
        BY <1>3, <1>5 DEF Extended
    <2> QED
        BY <2>1, <2>2, <2>3
<1> QED
    BY <1>1, <1>4, <1>5

LEMMA UpdateFollows ==
    ASSUME TypeOK, NEW c \in Commands, Update(c)
    PROVE  cm' = cm \/ \E m \in Maps : \E x \in Version(m) : Follows(m, x) /\ Extended(m, x)
<1> DEFINE m == MapOf(c)
           last == cm[m][Latest(m)]
           x == [last EXCEPT !.data = State(c)]
<1>1. m \in Maps /\ KeyOf[c] \in KeysOf(m) /\ ValueOf[c] \in Values
    BY KeyFacts
<1>2. last \in Version(m)
    BY <1>1, LastVersion
<1>3. State(c) = [k \in KeysOf(m) |->
                    IF k = KeyOf[c] THEN ValueOf[c] ELSE IF k \in OtherKeys THEN NoValue ELSE last.data[k]]
    BY DEF Update, UpToDate, State, DataAt
<1>4. State(c) \in Data(m) /\ \A j \in StateKeys(m) : last.data[j] # State(c)[j] => j = KeyOf[c]
    BY <1>1, <1>2, <1>3, OthersApart DEF Version, Data
<1>5. x \in Version(m) /\ x.watched = last.watched /\ x.data = State(c)
    BY <1>2, <1>4 DEF Version
<1>6. Follows(m, x)
    BY <1>4, <1>5 DEF Follows
<1>7. cm' = cm \/ cm' = [cm EXCEPT ![m] = Append(@, x)]
    BY DEF Update
<1>8. cm' = cm \/ Extended(m, x)
    BY <1>1, <1>7 DEF Extended, TypeOK
<1> QED
    BY <1>1, <1>5, <1>6, <1>8

LEMMA MapsGrow ==
    ASSUME TypeOK, Next
    PROVE  cm' = cm \/ \E m \in Maps : \E x \in Version(m) : Follows(m, x) /\ Extended(m, x)
<1>1. CASE Edit
    BY <1>1, EditFollows
<1>2. ASSUME NEW c \in Commands, Command(c)
      PROVE  cm' = cm \/ \E m \in Maps : \E x \in Version(m) : Follows(m, x) /\ Extended(m, x)
    BY <1>2, UpdateFollows DEF Command, Begin, Get, UnknownAction, Conflict, RequestFails
<1>3. CASE Crash \/ ReplacePod \/ Boot \/ Reloader
    BY <1>3 DEF Crash, ReplacePod, Terminate, Boot, Reloader, InitialList, HandleEvent, Restart, RestartFails
<1> QED
    BY <1>1, <1>2, <1>3 DEF Next

(* What every step leaves of the maps.                                     *)
LEMMA GrowthFacts ==
    ASSUME TypeOK, [Next]_vars
    PROVE  /\ cm' = [m \in Maps |-> cm'[m]]
           /\ \A m \in Maps : cm'[m] \in Seq(Version(m)) /\ cm'[m] # <<>>
           /\ \A m \in Maps : Latest(m) \in Nat \ {0} /\ Latest(m)' \in Nat /\ Latest(m)' >= Latest(m)
           /\ \A m \in Maps : \A v \in 1..Latest(m) : cm'[m][v] = cm[m][v]
<1>1. \A m \in Maps : Latest(m) \in Nat \ {0}
    BY LastVersion
<1>2. CASE cm' = cm
    BY <1>1, <1>2 DEF TypeOK, Latest
<1>3. ASSUME NEW m \in Maps, NEW x \in Version(m), Extended(m, x)
      PROVE  /\ cm' = [n \in Maps |-> cm'[n]]
             /\ \A n \in Maps : cm'[n] \in Seq(Version(n)) /\ cm'[n] # <<>>
             /\ \A n \in Maps : Latest(n)' \in Nat /\ Latest(n)' >= Latest(n)
             /\ \A n \in Maps : \A v \in 1..Latest(n) : cm'[n][v] = cm[n][v]
    <2>1. /\ cm' = [n \in Maps |-> cm'[n]]
          /\ \A n \in Maps : cm'[n] \in Seq(Version(n)) /\ cm'[n] # <<>>
          /\ Latest(m)' = Latest(m) + 1
          /\ \A n \in Maps \ {m} : cm'[n] = cm[n]
          /\ \A v \in 1..Latest(m) : cm'[m][v] = cm[m][v]
        BY <1>3, ExtendedFacts
    <2>2. \A n \in Maps \ {m} : Latest(n)' = Latest(n)
        BY <2>1 DEF Latest
    <2> QED
        BY <1>1, <2>1, <2>2
<1>4. cm' = cm \/ \E m \in Maps : \E x \in Version(m) : Extended(m, x)
    BY MapsGrow DEF vars
<1> QED
    BY <1>1, <1>2, <1>3, <1>4

-----------------------------------------------------------------------------
LEMMA InitIInv == Init => IInv
<1> SUFFICES ASSUME Init PROVE IInv
    OBVIOUS
<1>1. \A m \in Maps : cm[m] \in Seq(Version(m)) /\ Len(cm[m]) = 1 /\ cm[m] # <<>>
    <2> TAKE m \in Maps
    <2>1. PICK n \in Maps : cm[m] \in [1..1 -> Version(n)]
        BY DEF Init
    <2>2. cm[m][1] \in Version(m)
        BY DEF Init
    <2>3. cm[m] \in [1..1 -> Version(m)]
        BY <2>1, <2>2
    <2>4. cm[m] \in Seq(Version(m))
        BY <2>3, SeqDef
    <2>5. Len(cm[m]) = 1
        BY <2>3, <2>4, LenProperties
    <2> QED
        BY <2>4, <2>5
<1>1a. \A m \in Maps : Latest(m) = 1
    BY <1>1 DEF Latest
<1>2. TypeOK
    <2>1. cm = [m \in Maps |-> cm[m]]
        BY DEF Init
    <2>2. SwitchesAt(1) \in [SwitchKeys -> Values \cup {NoValue}]
        BY DEF Init, SwitchesAt, DataAt, Maps, Version, Data, KeysOf, StateKeys
    <2> QED
        <3>1. cmd \in [Commands -> [at : InFlight \cup {"none", "ok", "failed", "gone"}, ver : Nat]]
            BY DEF Init, InFlight
        <3>2. edits \in 0..MaxEdits /\ faults \in 0..MaxFaults
            BY InClusterConfigAssumption DEF Init
        <3> QED
            BY <1>1, <2>1, <2>2, <3>1, <3>2 DEF Init, TypeOK
<1>3. VersionInv
    <2>1. ~Watched("startup", 1)
        BY DEF Init, Watched, Maps
    <2> QED
        BY <1>1a, <2>1 DEF Init, VersionInv, Maps
<1>4. NoLostUpdate
    <2>1. \A m \in Maps : 2..Latest(m) = {}
        BY <1>1a
    <2> QED
        BY <2>1 DEF NoLostUpdate
<1> QED
    BY <1>2, <1>3, <1>4 DEF IInv, RestartOnlyForChange, Init

LEMMA TypeStep == IInv /\ [Next]_vars => TypeOK'
<1> SUFFICES ASSUME IInv, [Next]_vars PROVE TypeOK'
    OBVIOUS
<1>1. TypeOK
    BY DEF IInv
<1>2. /\ cm' = [m \in Maps |-> cm'[m]]
      /\ \A m \in Maps : cm'[m] \in Seq(Version(m)) /\ cm'[m] # <<>>
    BY <1>1, GrowthFacts
<1>3. \A m \in Maps : Latest(m) \in Nat \ {0} /\ DataAt(m, Latest(m)) \in Data(m)
    BY <1>1, LastVersion DEF DataAt, Version
<1>3a. SwitchesAt(Latest("startup")) \in [SwitchKeys -> Values \cup {NoValue}]
    BY <1>3 DEF SwitchesAt, Maps, Data, KeysOf, StateKeys
<1> DEFINE Rest == /\ up \in BOOLEAN
                   /\ booted \in [Maps -> Nat]
                   /\ switch \in [SwitchKeys -> Values \cup {NoValue}]
                   /\ pc \in {"boot", "watch", "restart"}
                   /\ seen \in [Maps -> Nat]
                   /\ rollout \in BOOLEAN
                   /\ missed \in BOOLEAN
                   /\ cmd \in [Commands -> [at : InFlight \cup {"none", "ok", "failed", "gone"}, ver : Nat]]
                   /\ edits \in 0..MaxEdits
                   /\ faults \in 0..MaxFaults
<1>4. Rest
    BY <1>1 DEF TypeOK
<1> SUFFICES Rest'
    BY <1>2 DEF TypeOK
<1>5a. Fault => faults' \in 0..MaxFaults
    BY <1>4, InClusterConfigAssumption DEF Fault
<1>5. CASE Edit
    BY <1>4, <1>5, InClusterConfigAssumption DEF Edit
<1>6. CASE Crash \/ ReplacePod
    <2>1. Terminate /\ rollout' \in BOOLEAN /\ faults' \in 0..MaxFaults
        BY <1>4, <1>6, <1>5a DEF Crash, ReplacePod
    <2>2. /\ up' \in BOOLEAN /\ missed' \in BOOLEAN /\ edits' = edits
          /\ booted' \in [Maps -> Nat] /\ seen' \in [Maps -> Nat]
          /\ pc' \in {"boot", "watch", "restart"}
        BY <2>1 DEF Terminate
    <2>3. switch' \in [SwitchKeys -> Values \cup {NoValue}]
        BY <2>1 DEF Terminate
    <2>4. cmd' \in [Commands -> [at : InFlight \cup {"none", "ok", "failed", "gone"}, ver : Nat]]
        BY <1>4, <2>1 DEF Terminate, InFlight
    <2> QED
        BY <1>4, <2>1, <2>2, <2>3, <2>4
<1>7. CASE Boot
    BY <1>3, <1>3a, <1>4, <1>7 DEF Boot, Maps
<1>8. CASE Reloader
    <2>1. CASE InitialList
        BY <1>3, <1>4, <2>1 DEF InitialList
    <2>2. ASSUME NEW m \in Maps, HandleEvent(m)
          PROVE  Rest'
        BY <1>3, <1>4, <2>2 DEF HandleEvent
    <2>3. CASE Restart \/ RestartFails
        BY <1>4, <1>5a, <2>3 DEF Restart, RestartFails
    <2> QED
        BY <1>8, <2>1, <2>2, <2>3 DEF Reloader
<1>9. ASSUME NEW c \in Commands, Command(c)
      PROVE  Rest'
    <2>1. CASE Begin(c)
        BY <1>4, <1>9, <2>1, KeyFacts DEF Begin, InFlight
    <2>2. CASE Get(c)
        BY <1>3, <1>4, <2>2, KeyFacts DEF Get, InFlight
    <2>3. CASE UnknownAction(c) \/ Update(c) \/ Conflict(c) \/ RequestFails(c)
        <3>1. Ended(c, "ok") \/ Ended(c, "failed")
            BY <2>3 DEF UnknownAction, Update, Conflict, RequestFails
        <3>2. cmd' \in [Commands -> [at : InFlight \cup {"none", "ok", "failed", "gone"}, ver : Nat]]
            BY <1>4, <3>1 DEF Ended
        <3>3. UNCHANGED <<up, booted, switch, pc, seen, rollout, missed, edits>> /\ (UNCHANGED faults \/ Fault)
            BY <2>3 DEF UnknownAction, Update, Conflict, RequestFails
        <3> QED
            BY <1>4, <1>5a, <3>2, <3>3
    <2> QED
        BY <1>9, <2>1, <2>2, <2>3 DEF Command
<1>10. CASE UNCHANGED vars
    BY <1>4, <1>10 DEF vars
<1> QED
    BY <1>5, <1>6, <1>7, <1>8, <1>9, <1>10 DEF Next

LEMMA NoLostUpdateStep == IInv /\ [Next]_vars => NoLostUpdate'
<1> SUFFICES ASSUME IInv, [Next]_vars,
                    NEW m \in Maps, NEW v \in 2..Latest(m)',
                    NEW j \in StateKeys(m), NEW k \in StateKeys(m),
                    cm'[m][v - 1].data[j] # cm'[m][v].data[j], cm'[m][v - 1].data[k] # cm'[m][v].data[k]
             PROVE  j = k
    BY DEF NoLostUpdate, DataAt
<1>1. TypeOK /\ Latest(m) \in Nat \ {0} /\ Latest(m)' \in Nat
      /\ \A w \in 1..Latest(m) : cm'[m][w] = cm[m][w]
    BY GrowthFacts DEF IInv
<1>2. CASE v <= Latest(m)
    <2>1. v \in 2..Latest(m) /\ cm'[m][v] = cm[m][v] /\ cm'[m][v - 1] = cm[m][v - 1]
        BY <1>1, <1>2
    <2> QED
        BY <2>1 DEF IInv, NoLostUpdate, DataAt
<1>3. CASE v > Latest(m)
    <2>1. Latest(m)' # Latest(m)
        BY <1>1, <1>3
    <2>2. PICK n \in Maps : \E x \in Version(n) : Follows(n, x) /\ Extended(n, x)
        BY <1>1, <2>1, MapsGrow DEF vars, Latest
    <2>. PICK x \in Version(n) : Follows(n, x) /\ Extended(n, x)
        BY <2>2
    <2>3. /\ Latest(n)' = Latest(n) + 1
          /\ cm'[n][Latest(n) + 1] = x
          /\ \A i \in Maps \ {n} : cm'[i] = cm[i]
        BY <1>1, ExtendedFacts
    <2>4. n = m
        BY <2>1, <2>3 DEF Latest
    <2>5. v = Latest(m) + 1 /\ cm'[m][v] = x /\ cm'[m][v - 1] = cm[m][Latest(m)]
        BY <1>1, <1>3, <2>3, <2>4
    <2> QED
        BY <2>4, <2>5 DEF Follows
<1> QED
    BY <1>1, <1>2, <1>3

(* The process that ends forgets what it held; the others read versions    *)
(* there are.                                                              *)
LEMMA VersionStep == IInv /\ [Next]_vars => VersionInv'
<1> SUFFICES ASSUME IInv, [Next]_vars PROVE VersionInv'
    OBVIOUS
<1>1. TypeOK /\ VersionInv
    BY DEF IInv
<1>2. /\ \A m \in Maps : Latest(m) \in Nat \ {0} /\ Latest(m)' \in Nat /\ Latest(m)' >= Latest(m)
      /\ \A m \in Maps : \A v \in 1..Latest(m) : cm'[m][v] = cm[m][v]
    BY <1>1, GrowthFacts
<1>3. \A v \in 1..Latest("startup")' : ~Watched("startup", v)'
    <2> SUFFICES ASSUME NEW v \in 1..Latest("startup")' PROVE ~cm'["startup"][v].watched
        BY DEF Watched
    <2>1. "startup" \in Maps
        BY DEF Maps
    <2>2. CASE v <= Latest("startup")
        BY <1>1, <1>2, <2>1, <2>2 DEF VersionInv, Watched
    <2>3. CASE v > Latest("startup")
        <3>1. Latest("startup")' # Latest("startup")
            BY <1>2, <2>1, <2>3
        <3>2. PICK n \in Maps : \E x \in Version(n) : Follows(n, x) /\ Extended(n, x)
            BY <1>1, <3>1, MapsGrow DEF vars, Latest
        <3>. PICK x \in Version(n) : Follows(n, x) /\ Extended(n, x)
            BY <3>2
        <3>3. /\ Latest(n)' = Latest(n) + 1
              /\ cm'[n][Latest(n) + 1] = x
              /\ \A i \in Maps \ {n} : cm'[i] = cm[i]
            BY <1>1, ExtendedFacts
        <3>4. n = "startup"
            BY <2>1, <3>1, <3>3 DEF Latest
        <3>5. cm'["startup"][v] = x
            BY <1>2, <2>1, <2>3, <3>3, <3>4
        <3>6. ~cm["startup"][Latest("startup")].watched
            BY <1>1, <1>2, <2>1 DEF VersionInv, Watched
        <3> QED
            BY <3>4, <3>5, <3>6 DEF Follows
    <2> QED
        BY <1>2, <2>1, <2>2, <2>3
<1> DEFINE Held == /\ up => \A m \in Maps : booted[m] \in 1..Latest(m)
                   /\ pc # "boot" => up /\ \A m \in Maps : seen[m] \in booted[m]..Latest(m)
           Read == \A c \in Commands : cmd[c].at = "update" => cmd[c].ver \in 1..Latest(MapOf(c))
<1>4. Held /\ Read
    BY <1>1 DEF VersionInv
<1>5. \A c \in Commands : MapOf(c) \in Maps
    BY KeyFacts
<1>6. UNCHANGED <<up, booted, seen>> /\ (pc' = pc \/ (pc # "boot" /\ pc' # "boot")) => Held'
    <2> SUFFICES ASSUME UNCHANGED <<up, booted, seen>>, pc' = pc \/ (pc # "boot" /\ pc' # "boot") PROVE Held'
        OBVIOUS
    <2>1. \A m \in Maps : booted[m] \in Nat /\ seen[m] \in Nat
        BY <1>1 DEF TypeOK
    <2> QED
        BY <1>2, <1>4, <2>1
<1>7. cmd' = cmd => Read'
    BY <1>2, <1>4, <1>5
<1> SUFFICES Held' /\ Read'
    BY <1>3 DEF VersionInv
<1>8. CASE Edit \/ UNCHANGED vars
    BY <1>6, <1>7, <1>8 DEF Edit, vars
<1>9. CASE Crash \/ ReplacePod
    BY <1>2, <1>4, <1>5, <1>9 DEF Crash, ReplacePod, Terminate, InFlight
<1>10. CASE Boot
    <2>1. Held'
        BY <1>2, <1>4, <1>10 DEF Boot
    <2> QED
        BY <1>7, <1>10, <2>1 DEF Boot
<1>11. CASE Reloader
    <2>1. CASE InitialList
        <3>1. \A m \in Maps : Latest(m)' = Latest(m) /\ seen'[m] = Latest(m) /\ booted' = booted /\ up /\ up'
            BY <2>1 DEF InitialList, ReloaderAt, Latest
        <3>2. \A m \in Maps : booted[m] \in 1..Latest(m)
            BY <1>4, <3>1
        <3>3. Held'
            BY <1>2, <3>1, <3>2 DEF Maps
        <3> QED
            BY <1>7, <2>1, <3>3 DEF InitialList
    <2>2. ASSUME NEW m \in Maps, HandleEvent(m)
          PROVE  Held' /\ Read'
        <3>1. PICK v \in (seen[m] + 1)..Latest(m) : seen' = [seen EXCEPT ![m] = v]
            BY <2>2 DEF HandleEvent
        <3>2. up /\ up' /\ booted' = booted /\ cmd' = cmd /\ pc # "boot" /\ pc' # "boot"
            BY <2>2 DEF HandleEvent, ReloaderAt
        <3>3. \A n \in Maps : Latest(n)' = Latest(n) /\ booted[n] \in Nat /\ seen[n] \in Nat
            BY <1>1, <2>2 DEF TypeOK, HandleEvent, Latest
        <3>4. \A n \in Maps : seen'[n] \in booted[n]..Latest(n)
            BY <1>1, <1>2, <1>4, <3>1, <3>2, <3>3 DEF TypeOK
        <3> QED
            BY <1>4, <1>7, <3>2, <3>3, <3>4
    <2>3. CASE Restart \/ RestartFails
        BY <1>6, <1>7, <2>3 DEF Restart, RestartFails, ReloaderAt
    <2> QED
        BY <1>11, <2>1, <2>2, <2>3 DEF Reloader
<1>12. ASSUME NEW c \in Commands, Command(c)
       PROVE  Held' /\ Read'
    <2>1. UNCHANGED <<up, booted, seen, pc>>
        BY <1>12 DEF Command, Begin, Get, UnknownAction, Update, Conflict, RequestFails
    <2>2. cmd \in [Commands -> [at : InFlight \cup {"none", "ok", "failed", "gone"}, ver : Nat]]
        BY <1>1 DEF TypeOK
    <2>3. \A d \in Commands \ {c} : cmd'[d] = cmd[d]
        BY <1>12, <2>2 DEF Command, Begin, Get, UnknownAction, Update, Conflict, RequestFails, Ended
    <2>4. cmd'[c].at = "update" => cmd'[c].ver = Latest(MapOf(c))
        BY <1>12, <2>2 DEF Command, Begin, Get, UnknownAction, Update, Conflict, RequestFails, Ended
    <2>5. Read'
        BY <1>2, <1>4, <1>5, <2>3, <2>4
    <2> QED
        BY <1>6, <2>1, <2>5
<1> QED
    BY <1>8, <1>9, <1>10, <1>11, <1>12 DEF Next

(* A restart is asked for when two versions differ that are not older than *)
(* the one the process was booted with: one of them differs from that one. *)
LEMMA RestartStep == IInv /\ [Next]_vars => RestartOnlyForChange'
<1> SUFFICES ASSUME IInv, [Next]_vars, pc' = "restart"
             PROVE  \E v \in 1..Latest("runtime")' :
                        v >= booted'["runtime"] /\ cm'["runtime"][v] # cm'["runtime"][booted'["runtime"]]
    BY DEF RestartOnlyForChange
<1>1. TypeOK /\ VersionInv /\ RestartOnlyForChange /\ "runtime" \in Maps
    BY DEF IInv, Maps
<1>2. /\ Latest("runtime") \in Nat \ {0} /\ Latest("runtime")' \in Nat
      /\ Latest("runtime")' >= Latest("runtime")
      /\ \A v \in 1..Latest("runtime") : cm'["runtime"][v] = cm["runtime"][v]
    BY <1>1, GrowthFacts
<1>3. \/ pc = "restart" /\ UNCHANGED booted
      \/ \E m \in Maps : HandleEvent(m) /\ UNCHANGED <<cm, booted>>
    <2>1. CASE Edit \/ UNCHANGED vars
        BY <2>1 DEF Edit, vars
    <2>2. CASE Crash \/ ReplacePod
        BY <2>2 DEF Crash, ReplacePod, Terminate
    <2>3. CASE Boot
        BY <1>1, <2>3 DEF Boot, VersionInv
    <2>4. CASE Reloader
        BY <2>4 DEF Reloader, InitialList, HandleEvent, Restart, RestartFails
    <2>5. ASSUME NEW c \in Commands, Command(c)
          PROVE  UNCHANGED <<pc, booted>>
        BY <2>5 DEF Command, Begin, Get, UnknownAction, Update, Conflict, RequestFails
    <2> QED
        BY <2>1, <2>2, <2>3, <2>4, <2>5 DEF Next
<1>4. CASE pc = "restart" /\ UNCHANGED booted
    <2>1. PICK v \in 1..Latest("runtime") :
              v >= booted["runtime"] /\ cm["runtime"][v] # cm["runtime"][booted["runtime"]]
        BY <1>1, <1>4 DEF RestartOnlyForChange
    <2>2. booted["runtime"] \in 1..Latest("runtime")
        BY <1>1, <1>4 DEF VersionInv
    <2> QED
        BY <1>2, <1>4, <2>1, <2>2
<1>5. ASSUME NEW m \in Maps, HandleEvent(m), UNCHANGED <<cm, booted>>
      PROVE  \E v \in 1..Latest("runtime")' :
                v >= booted'["runtime"] /\ cm'["runtime"][v] # cm'["runtime"][booted'["runtime"]]
    <2>1. PICK v \in (seen[m] + 1)..Latest(m) : AsksForRestart(m, seen[m], v)
        BY <1>5 DEF HandleEvent
    <2>2. up /\ seen[m] \in booted[m]..Latest(m) /\ booted[m] \in 1..Latest(m) /\ Latest(m) \in Nat
        BY <1>1, <1>5, LastVersion DEF HandleEvent, ReloaderAt, VersionInv
    <2>3. seen[m] \in 1..Latest(m) /\ v \in 1..Latest(m) /\ seen[m] >= booted[m] /\ v >= booted[m]
        BY <2>1, <2>2
    <2>4. m = "runtime"
        <3>1. Watched(m, seen[m]) \/ Watched(m, v)
            <4>1. Watched(m, seen[m]) \in BOOLEAN /\ Watched(m, v) \in BOOLEAN
                BY <1>1, <2>3, LastVersion DEF Watched, Version
            <4> QED
                BY <2>1, <4>1 DEF AsksForRestart
        <3>2. m # "startup"
            BY <1>1, <2>3, <3>1 DEF VersionInv
        <3> QED
            BY <3>2 DEF Maps
    <2>5. cm[m][seen[m]] # cm[m][v]
        BY <2>1 DEF AsksForRestart, Watched, DataAt
    <2> QED
        BY <1>5, <2>3, <2>4, <2>5 DEF Latest
<1> QED
    BY <1>3, <1>4, <1>5

-----------------------------------------------------------------------------
THEOREM IInvHolds == SafetySpec => []IInv
<1>1. IInv /\ [Next]_vars => IInv'
    BY TypeStep, VersionStep, NoLostUpdateStep, RestartStep DEF IInv
<1> QED
    BY InitIInv, <1>1, PTL DEF SafetySpec

(* The variables keep their types: whatever commands, users and crashes    *)
(* do, a ConfigMap holds values under its own keys only.                   *)
THEOREM TypeCorrect == SafetySpec => []TypeOK
<1>1. IInv => TypeOK
    BY DEF IInv
<1> QED
    BY IInvHolds, <1>1, PTL

(* The resource version that Get reads and Update sends is enough to keep  *)
(* any number of commands and users from undoing each other's changes      *)
(* (state.go:125, 146).                                                    *)
THEOREM NoLostUpdateHolds == SafetySpec => []NoLostUpdate
<1>1. IInv => NoLostUpdate
    BY DEF IInv
<1> QED
    BY IInvHolds, <1>1, PTL

(* The reloader asks for a restart only after the runtime map, or its      *)
(* label, changed in the lifetime of the process (in_cluster.go:133).      *)
THEOREM RestartOnlyForChangeHolds == SafetySpec => []RestartOnlyForChange
<1>1. IInv => RestartOnlyForChange
    BY DEF IInv
<1> QED
    BY IInvHolds, <1>1, PTL
=============================================================================
