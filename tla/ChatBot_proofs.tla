--------------------------- MODULE ChatBot_proofs ---------------------------
(***************************************************************************)
(* Proofs about ChatBot, for all five bots, every number of workers, of    *)
(* retries, of connections and of channels, every script of messages and   *)
(* every size of the message channel.                                      *)
(***************************************************************************)
EXTENDS ChatBot, FiniteSetTheorems, SequenceTheorems, TLAPS

(* The counter of withRetries and the failures there were: they differ by  *)
(* the one that was not counted yet.                                       *)
RetryInv ==
    /\ phase = "connected" => conn > 0
    /\ phase \in {"stopping", "failed", "gaveUp"} => platform \in CloudPlatforms
    /\ platform \in CloudPlatforms =>
         /\ phase \in {"connecting", "connected", "deaf", "leaving"} => streak = failuresNo
         /\ phase \in {"stopping", "failed"} => streak = failuresNo + 1
    /\ phase = "gaveUp" => streak = MaxRetries + 1

(* The message that entered a channel last is at its end, or it is in the  *)
(* loop variable: then the processor is about to hand it over, or some     *)
(* worker has read it or will, or it was handled.                          *)
Pending(p, m) ==
    \/ pipe[p].reader = "holding"
    \/ \E w \in DOMAIN pipe[p].work : pipe[p].work[w] \in {0, m}
    \/ handled[m] > 0
    \/ Script[m] = "empty"

MessageInv(p) ==
    LET q == pipe[p].queue
        m == newest[p]
    IN  /\ m # 0 /\ q # <<>> => q[Len(q)] = m
        /\ m # 0 /\ q = <<>> => pipe[p].var = m /\ Pending(p, m)
        /\ m = 0 => q = <<>>

(* What a call of SendMessage has still to do, has queued and has done is  *)
(* for channels that were enabled in the course of it; what it has left    *)
(* out is for channels that were not, or counts as its failure.            *)
Queued(e, ch) == \E i \in DOMAIN outbox : outbox[i] = <<e, ch>>

SendInv(e) ==
    LET s == sends[e]
    IN  /\ s.at = "idle" =>
             s.todo = {} /\ \A ch \in Channels : <<e, ch>> \notin posted /\ ~Queued(e, ch)
        /\ s.at # "idle" =>
             /\ \A ch \in Channels : IF notify[ch] THEN ch \in s.on ELSE ch \in s.off
             /\ s.todo \subseteq s.on
             /\ \A ch \in Channels : <<e, ch>> \in posted \/ Queued(e, ch) => ch \in s.on
        /\ s.at \in {"posting", "ok"} /\ platform \notin {"mattermost", "cloudTeams"} =>
             \/ s.failed /\ s.at = "posting"
             \/ \A ch \in BoundTo[e] : <<e, ch>> \in posted \/ ch \in s.off \/ ch \in s.todo
        /\ s.at = "ok" => s.todo = {}

(* A message that arrived, or the call it led to, is in one place at most: *)
(* with a callback of Discord, in a channel, with the processor, with a    *)
(* worker, or handled.                                                     *)
Waiting == {x \in Pipes \X (Nat \ {0}) : x[2] <= Len(pipe[x[1]].queue)}
Held == {p \in Pipes : pipe[p].reader = "holding"}
Given == {x \in Pipes \X Workers : x[2] \in DOMAIN pipe[x[1]].work}

CountInv ==
    /\ IsFiniteSet(callbacks) /\ IsFiniteSet(Waiting) /\ IsFiniteSet(Held)
    /\ IsFiniteSet(Given) /\ IsFiniteSet(Handlings)
    /\ Cardinality(callbacks) + Cardinality(Waiting) + Cardinality(Held) + Cardinality(Given)
          + Cardinality(Handlings) <= received

IInv ==
    /\ TypeOK
    /\ RetryInv
    /\ \A p \in Pipes : MessageInv(p)
    /\ \A e \in Events : SendInv(e)
    /\ CountInv

-----------------------------------------------------------------------------
LEMMA ScriptFacts ==
    /\ MaxMessages \in Nat /\ Ids \subseteq Nat \ {0}
    /\ \A m \in Ids : Script[m] \in Kinds
    /\ MaxRetries \in Nat \ {0} /\ MaxConnections \in Nat \ {0} /\ ChannelSize \in Nat \ {0} /\ 1 \in Pipes
<1>1. Script \in Seq(Kinds)
    BY ChatBotAssumption
<1>2. Len(Script) \in Nat /\ \A m \in 1..Len(Script) : Script[m] \in Kinds
    BY <1>1
<1> QED
    BY <1>2, ChatBotAssumption DEF MaxMessages, Ids, Pipes

(* The workers of a pool: who is busy, and with what.                      *)
LEMMA WorkFacts ==
    /\ <<>> \in Work /\ DOMAIN <<>> = {}
    /\ \A work \in Work :
         /\ DOMAIN work \subseteq Workers
         /\ \A w \in DOMAIN work : work[w] \in 0..MaxMessages
         /\ work = [w \in DOMAIN work |-> work[w]]
<1>1. DOMAIN <<>> = {}
    OBVIOUS
<1>2. <<>> = [w \in {} |-> 0]
    BY <1>1
<1>3. <<>> \in [{} -> 0..MaxMessages]
    BY <1>2
<1>4. <<>> \in Work
    BY <1>3 DEF Work
<1> QED
    BY <1>1, <1>4 DEF Work

LEMMA WorkType ==
    ASSUME NEW W \in SUBSET Workers, NEW work \in [W -> 0..MaxMessages]
    PROVE  work \in Work
BY DEF Work

-----------------------------------------------------------------------------
(* Which steps change what                                                 *)

Connects == Start \/ Stopping \/ Retry \/ Lose

LEMMA ConnectCases ==
    ASSUME Connects
    PROVE  \/ \E p : p \in {1, conn + 1} /\ Connected(p)
           \/ StartFails \/ PoolStopped \/ MattermostLoses \/ ShutdownRequested
           \/ GiveUp /\ platform \in CloudPlatforms
           \/ \E long \in BOOLEAN : Backoff(long)
           \/ CloudSlackLoses
           \/ CloudTeamsTakenForShutdown \/ SocketSlackLoses \/ SocketSlackRunFails
           \/ \E closes \in BOOLEAN : CloudTeamsLoses(closes)
<1>1. CASE Start
    BY <1>1 DEF Start, CloudSlackStart, CloudTeamsStart, SocketSlackStart, MattermostStart, DiscordStart
<1>2. CASE Retry
    BY <1>2 DEF Retry, CloudSlackRetry, CloudTeamsRetry, CloudPlatforms
<1>3. CASE Stopping \/ Lose
    BY <1>3 DEF Stopping, Lose
<1> QED
    BY <1>1, <1>2, <1>3 DEF Connects

LEMMA ConnectFrame ==
    ASSUME Connects
    PROVE  UNCHANGED <<platform, cancelled, crashed, inVars, workVars, outVars>>
<1> USE DEF OnlyConnection, Self
<1>1. ASSUME NEW p, Connected(p)
      PROVE  UNCHANGED <<platform, cancelled, crashed, inVars, workVars, outVars>>
    BY <1>1 DEF Connected
<1> QED
    BY <1>1, ConnectCases DEF StartFails, PoolStopped, GiveUp, Backoff, MattermostLoses, ShutdownRequested,
        CloudSlackLoses, CloudTeamsLoses, CloudTeamsTakenForShutdown, SocketSlackLoses, SocketSlackRunFails

(* The connection changes nothing of a pipe that messages depend on.       *)
LEMMA ConnectPipe ==
    ASSUME TypeOK, Connects
    PROVE  /\ pipe' \in [Pipes -> PipeType]
           /\ \A p \in Pipes :
                /\ pipe'[p].queue = pipe[p].queue
                /\ pipe'[p].var = pipe[p].var
                /\ pipe'[p].work = pipe[p].work
                /\ pipe[p].reader = "holding" <=> pipe'[p].reader = "holding"
<1>1. pipe \in [Pipes -> PipeType]
    BY DEF TypeOK
<1>2. \/ pipe' = pipe
      \/ \E p : pipe' = [pipe EXCEPT ![p].reader = IF @ = "none" THEN "idle" ELSE @]
      \/ \E p : \E closes \in BOOLEAN : pipe' = [pipe EXCEPT ![p].closed = closes, ![p].pool = "closing"]
      \/ \E p : pipe' = [pipe EXCEPT ![p].pool = "reset"]
    <2>1. CASE \E p : p \in {1, conn + 1} /\ Connected(p)
        BY <2>1 DEF Connected
    <2>2. CASE StartFails \/ GiveUp \/ MattermostLoses \/ \E long \in BOOLEAN : Backoff(long)
        BY <2>2 DEF StartFails, GiveUp, MattermostLoses, Backoff, OnlyConnection
    <2>3. CASE PoolStopped
        BY <2>3 DEF PoolStopped
    <2>4. CASE CloudSlackLoses \/ \E closes \in BOOLEAN : CloudTeamsLoses(closes)
        BY <2>4 DEF CloudSlackLoses, CloudTeamsLoses, Stop
    <2>5. CASE ShutdownRequested
        BY <2>5 DEF ShutdownRequested, Stop
    <2>6. CASE CloudTeamsTakenForShutdown \/ SocketSlackLoses \/ SocketSlackRunFails
        BY <2>6 DEF CloudTeamsTakenForShutdown, SocketSlackLoses, SocketSlackRunFails, OnlyConnection
    <2> QED
        BY <2>1, <2>2, <2>3, <2>4, <2>5, <2>6, ConnectCases
<1>3. ASSUME NEW p, NEW q \in Pipes,
             \/ pipe' = [pipe EXCEPT ![p].reader = IF @ = "none" THEN "idle" ELSE @]
             \/ \E closes \in BOOLEAN : pipe' = [pipe EXCEPT ![p].closed = closes, ![p].pool = "closing"]
             \/ pipe' = [pipe EXCEPT ![p].pool = "reset"]
      PROVE  /\ pipe'[q] \in PipeType
             /\ pipe'[q].queue = pipe[q].queue
             /\ pipe'[q].var = pipe[q].var
             /\ pipe'[q].work = pipe[q].work
             /\ pipe[q].reader = "holding" <=> pipe'[q].reader = "holding"
    <2>1. pipe[q] \in PipeType
        BY <1>1
    <2>2. \/ pipe'[q] = pipe[q]
          \/ pipe'[q] = [pipe[q] EXCEPT !.reader = IF @ = "none" THEN "idle" ELSE @]
          \/ \E closes \in BOOLEAN : pipe'[q] = [pipe[q] EXCEPT !.closed = closes, !.pool = "closing"]
          \/ pipe'[q] = [pipe[q] EXCEPT !.pool = "reset"]
        BY <1>1, <1>3
    <2> QED
        BY <2>1, <2>2 DEF PipeType
<1>4. pipe' = pipe \/ pipe' = [q \in Pipes |-> pipe'[q]]
    BY <1>1, <1>2
<1> QED
    BY <1>1, <1>2, <1>3, <1>4

Receives == (\E kind \in Kinds : Receive(kind)) \/ \E m \in callbacks : DiscordHandler(m)

(* A message is put at the end of the one pipe, if at all, and only if     *)
(* there is room.                                                          *)
LEMMA ReceiveFacts ==
    ASSUME TypeOK, RetryInv, Receives
    PROVE  /\ UNCHANGED <<platform, cancelled, connVars, workVars, outVars>>
           /\ received' \in 0..MaxMessages /\ callbacks' \subseteq Ids /\ crashed' \in BOOLEAN
           /\ \/ UNCHANGED <<pipe, newest>>
              \/ \E p \in Pipes, m \in Ids : HasRoom(p) /\ Enqueue(p, m)
<1> USE ScriptFacts DEF OnlyReceived, Self, connVars, inVars, workVars, outVars
<1>1. phase = "connected" => conn \in Pipes
    BY DEF TypeOK, RetryInv, Pipes
<1>2. ASSUME NEW kind \in Kinds, Arrives(kind)
      PROVE  phase = "connected" /\ received' = NewId /\ NewId \in Ids
    BY <1>2 DEF Arrives, NewId, Ids, TypeOK
<1>3. ASSUME NEW kind \in Kinds, Receive(kind)
      PROVE  /\ UNCHANGED <<platform, cancelled, crashed, connVars, workVars, outVars>>
             /\ phase = "connected" /\ received' = NewId /\ NewId \in Ids
             /\ callbacks' = callbacks \/ callbacks' = callbacks \cup {NewId}
             /\ \/ UNCHANGED <<pipe, newest>>
                \/ \E p \in Pipes : HasRoom(p) /\ Enqueue(p, NewId)
    <2>1. Arrives(kind)
        BY <1>3 DEF Receive, CloudSlackReceive, CloudTeamsReceive, SocketSlackReceive, MattermostListen, DiscordEvent
    <2>2. phase = "connected" /\ received' = NewId /\ NewId \in Ids
        BY <1>2, <2>1
    <2>3. CASE CloudSlackReceive(kind) \/ CloudTeamsReceive(kind)
        BY <1>1, <2>2, <2>3 DEF CloudSlackReceive, CloudTeamsReceive, Discard
    <2>4. CASE SocketSlackReceive(kind) \/ MattermostListen(kind)
        BY <2>2, <2>4 DEF SocketSlackReceive, MattermostListen, Discard
    <2>5. CASE DiscordEvent(kind)
        BY <2>2, <2>5 DEF DiscordEvent
    <2> QED
        BY <1>3, <2>3, <2>4, <2>5 DEF Receive
<1>4. ASSUME NEW m \in callbacks, DiscordHandler(m)
      PROVE  /\ UNCHANGED <<platform, cancelled, connVars, workVars, outVars, received>>
             /\ callbacks' \subseteq callbacks /\ crashed' \in BOOLEAN
             /\ \/ UNCHANGED <<pipe, newest>>
                \/ HasRoom(1) /\ Enqueue(1, m)
    BY <1>4 DEF DiscordHandler, Crash, TypeOK
<1>5. callbacks \subseteq Ids /\ received \in 0..MaxMessages /\ crashed \in BOOLEAN /\ \A m \in Ids : m \in 0..MaxMessages
    BY DEF TypeOK, Ids
<1>6. CASE \E kind \in Kinds : Receive(kind)
    BY <1>3, <1>5, <1>6
<1>7. CASE \E m \in callbacks : DiscordHandler(m)
    BY <1>4, <1>5, <1>7
<1> QED
    BY <1>6, <1>7 DEF Receives

LEMMA EnqueueFacts ==
    ASSUME TypeOK, NEW p \in Pipes, NEW m \in Ids, HasRoom(p), Enqueue(p, m)
    PROVE  /\ pipe' \in [Pipes -> PipeType] /\ newest' \in [Pipes -> 0..MaxMessages]
           /\ \A q \in Pipes : Len(pipe'[q].queue) <= ChannelSize
           /\ \A q \in Pipes \ {p} : pipe'[q] = pipe[q] /\ newest'[q] = newest[q]
           /\ newest'[p] = m
           /\ pipe'[p].queue # <<>> /\ pipe'[p].queue[Len(pipe'[p].queue)] = m
           /\ Len(pipe'[p].queue) = Len(pipe[p].queue) + 1
           /\ pipe'[p].reader = pipe[p].reader /\ pipe'[p].work = pipe[p].work
<1> USE ScriptFacts
<1>1. /\ pipe \in [Pipes -> PipeType] /\ newest \in [Pipes -> 0..MaxMessages] /\ m \in 0..MaxMessages
      /\ \A q \in Pipes : Len(pipe[q].queue) <= ChannelSize
    BY DEF TypeOK, Ids
<1>2. pipe[p] \in PipeType /\ pipe[p].queue \in Seq(Ids)
    BY <1>1 DEF PipeType
<1>3. pipe' = [pipe EXCEPT ![p].queue = Append(pipe[p].queue, m)] /\ newest' = [newest EXCEPT ![p] = m]
    BY DEF Enqueue
<1>4. /\ Append(pipe[p].queue, m) \in Seq(Ids) /\ Len(Append(pipe[p].queue, m)) = Len(pipe[p].queue) + 1
      /\ Append(pipe[p].queue, m)[Len(pipe[p].queue) + 1] = m
      /\ Len(pipe[p].queue) \in Nat
    BY <1>2
<1>5. pipe'[p] = [pipe[p] EXCEPT !.queue = Append(pipe[p].queue, m)]
    BY <1>1, <1>3
<1>6. /\ pipe'[p] \in PipeType /\ pipe'[p].queue = Append(pipe[p].queue, m)
      /\ pipe'[p].reader = pipe[p].reader /\ pipe'[p].work = pipe[p].work
    BY <1>2, <1>4, <1>5 DEF PipeType
<1>7. Len(pipe[p].queue) < ChannelSize
    BY DEF HasRoom
<1>8. Append(pipe[p].queue, m) # <<>>
    BY <1>4
<1>9. pipe' \in [Pipes -> PipeType]
    BY <1>1, <1>3, <1>6
<1> QED
    BY <1>1, <1>3, <1>4, <1>6, <1>7, <1>8, <1>9

(* The loop variable and the pool.                                         *)
LEMMA ProcessFacts ==
    ASSUME TypeOK, NEW p \in Pipes, Process(p)
    PROVE  /\ UNCHANGED <<platform, cancelled, connVars, inVars, workVars, outVars>> /\ crashed' \in BOOLEAN
           /\ pipe' \in [Pipes -> PipeType]
           /\ \A q \in Pipes \ {p} : pipe'[q] = pipe[q]
           /\ Len(pipe'[p].queue) <= Len(pipe[p].queue)
           /\ \/ /\ pipe[p].queue # <<>> /\ pipe[p].reader = "idle"
                 /\ pipe'[p].queue = Tail(pipe[p].queue)
                 /\ pipe'[p].var = Head(pipe[p].queue)
                 /\ pipe'[p].reader = "holding" \/ Script[Head(pipe[p].queue)] = "empty"
                 /\ pipe'[p].work = pipe[p].work
              \/ /\ pipe'[p].queue = pipe[p].queue /\ pipe'[p].var = pipe[p].var
                 /\ \/ /\ pipe[p].reader = "idle" /\ pipe'[p].reader # "holding"
                       /\ pipe'[p].work = pipe[p].work
                    \/ pipe' = pipe
                    \/ \E w \in Workers :
                        /\ pipe[p].reader = "holding" /\ pipe'[p].reader # "holding"
                        /\ w \notin DOMAIN pipe[p].work
                        /\ pipe'[p].work = [v \in DOMAIN pipe[p].work \cup {w} |->
                                              IF v = w THEN 0 ELSE pipe[p].work[v]]
<1> USE ScriptFacts DEF OnlyPipe, Self, connVars, inVars, workVars, outVars
<1>1. pipe \in [Pipes -> PipeType] /\ crashed \in BOOLEAN
    BY DEF TypeOK
<1>2. /\ pipe[p] \in PipeType /\ pipe[p].queue \in Seq(Ids) /\ Len(pipe[p].queue) \in Nat /\ pipe[p].work \in Work
    BY <1>1 DEF PipeType
<1>3. CASE TakeMessage(p) /\ pipe[p].queue # <<>>
    <2> DEFINE m == Head(pipe[p].queue)
               skip == platform = "cloudTeams" /\ Script[m] = "empty"
    <2>1. /\ m \in Ids /\ Tail(pipe[p].queue) \in Seq(Ids)
          /\ Len(Tail(pipe[p].queue)) = Len(pipe[p].queue) - 1
        BY <1>2, <1>3, HeadTailProperties
    <2>2. /\ pipe[p].reader = "idle"
          /\ pipe' = [pipe EXCEPT ![p].queue = Tail(pipe[p].queue), ![p].var = m,
                                  ![p].reader = IF skip THEN "idle" ELSE "holding"]
          /\ UNCHANGED <<platform, cancelled, crashed, connVars, inVars, workVars, outVars>>
        BY <1>3 DEF TakeMessage
    <2>3. m \in 0..MaxMessages
        BY <2>1 DEF Ids
    <2>4. pipe'[p] = [pipe[p] EXCEPT !.queue = Tail(pipe[p].queue), !.var = m,
                                     !.reader = IF skip THEN "idle" ELSE "holding"]
        BY <1>1, <2>2
    <2>5. /\ pipe'[p].queue = Tail(pipe[p].queue) /\ pipe'[p].var = m /\ pipe'[p].work = pipe[p].work
          /\ pipe'[p].reader = "holding" \/ Script[m] = "empty"
          /\ pipe'[p] \in PipeType
        BY <1>2, <2>1, <2>3, <2>4 DEF PipeType
    <2>6. pipe' \in [Pipes -> PipeType] /\ \A q \in Pipes \ {p} : pipe'[q] = pipe[q]
        BY <1>1, <2>2, <2>5
    <2> QED
        BY <1>1, <1>2, <1>3, <2>1, <2>2, <2>5, <2>6
<1>4. CASE TakeMessage(p) /\ pipe[p].queue = <<>>
    <2>1. /\ pipe[p].reader = "idle"
          /\ pipe' = [pipe EXCEPT ![p].reader = "done"]
          /\ UNCHANGED <<platform, cancelled, crashed, connVars, inVars, workVars, outVars>>
        BY <1>4 DEF TakeMessage
    <2>2. pipe'[p] = [pipe[p] EXCEPT !.reader = "done"]
        BY <1>1, <2>1
    <2>3. /\ pipe'[p].queue = pipe[p].queue /\ pipe'[p].var = pipe[p].var /\ pipe'[p].work = pipe[p].work
          /\ pipe'[p].reader # "holding" /\ pipe'[p] \in PipeType
        BY <1>2, <2>2 DEF PipeType
    <2>4. pipe' \in [Pipes -> PipeType] /\ \A q \in Pipes \ {p} : pipe'[q] = pipe[q]
        BY <1>1, <2>1, <2>3
    <2> QED
        BY <1>1, <1>2, <2>1, <2>3, <2>4
<1>5. CASE HandOver(p)
    <2>1. CASE Crash
        BY <1>1, <1>2, <2>1 DEF Crash
    <2>2. CASE ~Crash
        <3>1. PICK w : w = CHOOSE v \in Workers \ DOMAIN pipe[p].work : TRUE
            OBVIOUS
        <3> DEFINE handed == [v \in DOMAIN pipe[p].work \cup {w} |-> IF v = w THEN 0 ELSE pipe[p].work[v]]
        <3>2. /\ Workers \ DOMAIN pipe[p].work # {}
              /\ pipe' = [pipe EXCEPT ![p].reader = "idle", ![p].work = handed]
              /\ pipe[p].reader = "holding"
              /\ UNCHANGED <<platform, cancelled, crashed, connVars, inVars, workVars, outVars>>
            BY <1>5, <2>2, <3>1 DEF HandOver
        <3>3. w \in Workers \ DOMAIN pipe[p].work
            BY <3>1, <3>2
        <3>4. handed \in Work
            <4>1. DOMAIN pipe[p].work \subseteq Workers /\ \A v \in DOMAIN pipe[p].work : pipe[p].work[v] \in 0..MaxMessages
                BY <1>2, WorkFacts
            <4>2. handed \in [DOMAIN pipe[p].work \cup {w} -> 0..MaxMessages]
                BY <4>1
            <4> QED
                BY <3>3, <4>1, <4>2, WorkType
        <3>5. pipe'[p] = [pipe[p] EXCEPT !.reader = "idle", !.work = handed]
            BY <1>1, <3>2
        <3>. HIDE DEF handed
        <3>6. /\ pipe'[p].queue = pipe[p].queue /\ pipe'[p].var = pipe[p].var /\ pipe'[p].work = handed
              /\ pipe'[p].reader # "holding" /\ pipe'[p] \in PipeType
            BY <1>2, <3>4, <3>5 DEF PipeType
        <3>7. pipe' \in [Pipes -> PipeType] /\ \A q \in Pipes \ {p} : pipe'[q] = pipe[q]
            BY <1>1, <3>2, <3>6
        <3> QED
            BY <1>1, <1>2, <3>2, <3>3, <3>6, <3>7 DEF handed
    <2> QED
        BY <2>1, <2>2
<1> QED
    BY <1>3, <1>4, <1>5 DEF Process

LEMMA TaskFacts ==
    ASSUME TypeOK, NEW p \in Pipes, NEW w \in Workers, Task(p, w)
    PROVE  /\ UNCHANGED <<platform, cancelled, crashed, connVars, inVars, outbox, posted>>
           /\ pipe' \in [Pipes -> PipeType]
           /\ \A q \in Pipes \ {p} : pipe'[q] = pipe[q]
           /\ \A q \in Pipes : /\ pipe'[q].queue = pipe[q].queue
                               /\ pipe'[q].var = pipe[q].var
                               /\ pipe'[q].reader = pipe[q].reader
           /\ handled' \in [Ids -> Nat] /\ \A m \in Ids : handled'[m] >= handled[m]
           /\ switching' \subseteq Pipes \X Workers
           /\ \A v \in DOMAIN pipe[p].work \ {w} : v \in DOMAIN pipe'[p].work /\ pipe'[p].work[v] = pipe[p].work[v]
           /\ \/ pipe' = pipe
              \/ pipe[p].work[w] = 0 /\ w \in DOMAIN pipe'[p].work /\ pipe'[p].work[w] = pipe[p].var
              \/ pipe[p].work[w] \in Ids /\ handled'[pipe[p].work[w]] > 0
           /\ \/ UNCHANGED <<notify, sends>>
              \/ \E enabled \in BOOLEAN : SetNotificationsEnabled(enabled)
           /\ \/ handled' = handled /\ DOMAIN pipe'[p].work = DOMAIN pipe[p].work
              \/ /\ w \in DOMAIN pipe[p].work /\ DOMAIN pipe'[p].work = DOMAIN pipe[p].work \ {w}
                 /\ \E m \in Ids : handled' = [handled EXCEPT ![m] = @ + 1]
<1> USE ScriptFacts DEF OnlyPipe, Self, connVars, inVars, workVars, outVars
<1>1. pipe \in [Pipes -> PipeType] /\ handled \in [Ids -> Nat] /\ switching \subseteq Pipes \X Workers
    BY DEF TypeOK
<1>2. pipe[p] \in PipeType /\ pipe[p].work \in Work /\ pipe[p].var \in 0..MaxMessages
    BY <1>1 DEF PipeType
<1> DEFINE work == pipe[p].work
<1>3. /\ DOMAIN work \subseteq Workers /\ \A v \in DOMAIN work : work[v] \in 0..MaxMessages
      /\ work = [v \in DOMAIN work |-> work[v]]
    BY <1>2, WorkFacts
<1>4. ASSUME NEW new \in Work, pipe' = [pipe EXCEPT ![p].work = new]
      PROVE  /\ pipe' \in [Pipes -> PipeType]
             /\ \A q \in Pipes \ {p} : pipe'[q] = pipe[q]
             /\ \A q \in Pipes : /\ pipe'[q].queue = pipe[q].queue
                                 /\ pipe'[q].var = pipe[q].var
                                 /\ pipe'[q].reader = pipe[q].reader
             /\ pipe'[p].work = new
    <2>1. pipe'[p] = [pipe[p] EXCEPT !.work = new]
        BY <1>1, <1>4
    <2>2. /\ pipe'[p].queue = pipe[p].queue /\ pipe'[p].var = pipe[p].var /\ pipe'[p].reader = pipe[p].reader
          /\ pipe'[p].work = new /\ pipe'[p] \in PipeType
        BY <1>2, <1>4, <2>1 DEF PipeType
    <2> QED
        BY <1>1, <1>4, <2>2
<1>5. CASE BeginTask(p, w)
    <2> DEFINE new == [work EXCEPT ![w] = pipe[p].var]
    <2>1. /\ w \in DOMAIN work /\ work[w] = 0
          /\ pipe' = [pipe EXCEPT ![p].work[w] = pipe[p].var]
          /\ UNCHANGED <<platform, cancelled, crashed, connVars, inVars, workVars, outVars>>
        BY <1>5 DEF BeginTask
    <2>2. pipe' = [pipe EXCEPT ![p].work = new]
        BY <1>1, <1>2, <2>1 DEF PipeType
    <2>3. new \in [DOMAIN work -> 0..MaxMessages]
        BY <1>2, <1>3
    <2>4. new \in Work
        BY <1>3, <2>3, WorkType
    <2>5. /\ \A v \in DOMAIN work \ {w} : v \in DOMAIN new /\ new[v] = work[v]
          /\ w \in DOMAIN new /\ new[w] = pipe[p].var /\ DOMAIN new = DOMAIN work
        BY <1>3, <2>1
    <2> HIDE DEF new
    <2>6. pipe'[p].work = new
        BY <1>4, <2>2, <2>4
    <2>8. handled' = handled /\ \A i \in Ids : handled[i] >= handled[i]
        BY <1>1, <2>1
    <2> HIDE DEF work
    <2>7. /\ pipe' \in [Pipes -> PipeType]
          /\ \A q \in Pipes \ {p} : pipe'[q] = pipe[q]
          /\ \A q \in Pipes : /\ pipe'[q].queue = pipe[q].queue
                              /\ pipe'[q].var = pipe[q].var
                              /\ pipe'[q].reader = pipe[q].reader
        BY <1>4, <2>2, <2>4
    <2> QED
        BY <1>1, <2>1, <2>5, <2>6, <2>7, <2>8 DEF work
<1>6. CASE LockSwitch(p, w)
    BY <1>1, <1>6 DEF LockSwitch
<1>7. CASE FinishTask(p, w)
    <2> DEFINE m == work[w]
               new == [v \in DOMAIN work \ {w} |-> work[v]]
    <2>1. /\ w \in DOMAIN work /\ m # 0
          /\ handled' = [handled EXCEPT ![m] = @ + 1]
          /\ switching' = switching \ {<<p, w>>}
          /\ pipe' = [pipe EXCEPT ![p].work = new]
          /\ UNCHANGED <<platform, cancelled, connVars, inVars, outbox, posted, crashed>>
        BY <1>1, <1>7 DEF FinishTask, Busy, Message, Release, Restrict
    <2>2. \/ UNCHANGED <<notify, sends>>
          \/ \E enabled \in BOOLEAN : SetNotificationsEnabled(enabled)
        BY <1>7 DEF FinishTask
    <2>3. m \in Ids
        BY <1>3, <2>1 DEF Ids
    <2>4. new \in [DOMAIN work \ {w} -> 0..MaxMessages]
        BY <1>3
    <2>5. new \in Work
        BY <1>3, <2>4, WorkType
    <2>6. /\ \A v \in DOMAIN work \ {w} : v \in DOMAIN new /\ new[v] = work[v]
          /\ DOMAIN new = DOMAIN work \ {w}
        OBVIOUS
    <2>7. handled' \in [Ids -> Nat] /\ (\A i \in Ids : handled'[i] >= handled[i]) /\ handled'[m] > 0
        BY <1>1, <2>1, <2>3
    <2> HIDE DEF new
    <2> QED
        BY <1>1, <1>4, <2>1, <2>2, <2>3, <2>5, <2>6, <2>7
<1> QED
    BY <1>5, <1>6, <1>7 DEF Task

-----------------------------------------------------------------------------
(* Source messages                                                         *)

LEMMA SendUpdate ==
    ASSUME TypeOK, NEW e \in Events, NEW h \in SendType, sends' = [sends EXCEPT ![e] = h]
    PROVE  /\ sends' \in [Events -> SendType]
           /\ sends'[e] = h
           /\ \A d \in Events \ {e} : sends'[d] = sends[d]
BY DEF TypeOK

(* A step for one source message leaves the others alone.                  *)
LEMMA OtherSend ==
    ASSUME NEW d \in Events, SendInv(d), UNCHANGED <<platform, notify>>,
           sends'[d] = sends[d],
           \A ch \in Channels : <<d, ch>> \in posted' <=> <<d, ch>> \in posted,
           \A ch \in Channels : Queued(d, ch)' <=> Queued(d, ch),
           BoundTo[d] \subseteq Channels
    PROVE  SendInv(d)'
BY DEF SendInv

(* The channel to the stream of Cloud Teams.                               *)
LEMMA OutboxAppend ==
    ASSUME outbox \in Seq(Events \X Channels), NEW e \in Events, NEW ch \in Channels,
           outbox' = Append(outbox, <<e, ch>>)
    PROVE  /\ outbox' \in Seq(Events \X Channels) /\ Len(outbox') = Len(outbox) + 1
           /\ \A d, c : Queued(d, c)' <=> Queued(d, c) \/ (d = e /\ c = ch)
<1>1. Len(outbox) \in Nat /\ DOMAIN outbox = 1..Len(outbox)
    OBVIOUS
<1>2. /\ outbox' \in Seq(Events \X Channels) /\ Len(outbox') = Len(outbox) + 1
      /\ DOMAIN outbox' = 1..(Len(outbox) + 1)
      /\ outbox'[Len(outbox) + 1] = <<e, ch>>
      /\ \A i \in 1..Len(outbox) : outbox'[i] = outbox[i]
    BY <1>1
<1>3. \A i : i \in DOMAIN outbox' <=> i \in DOMAIN outbox \/ i = Len(outbox) + 1
    BY <1>1, <1>2
<1>4. ASSUME NEW d, NEW c
      PROVE  Queued(d, c)' <=> Queued(d, c) \/ (d = e /\ c = ch)
    <2>1. Queued(d, c) => Queued(d, c)'
        BY <1>1, <1>2, <1>3 DEF Queued
    <2>2. d = e /\ c = ch => Queued(d, c)'
        BY <1>2, <1>3 DEF Queued
    <2>3. ASSUME NEW i \in DOMAIN outbox', outbox'[i] = <<d, c>>
          PROVE  Queued(d, c) \/ (d = e /\ c = ch)
        BY <1>1, <1>2, <1>3, <2>3 DEF Queued
    <2> QED
        BY <2>1, <2>2, <2>3 DEF Queued
<1> QED
    BY <1>2, <1>4

LEMMA OutboxTail ==
    ASSUME outbox \in Seq(Events \X Channels), outbox # <<>>, outbox' = Tail(outbox)
    PROVE  /\ outbox' \in Seq(Events \X Channels) /\ Len(outbox') = Len(outbox) - 1
           /\ \A d, c : Queued(d, c)' => Queued(d, c)
           /\ \E d \in Events, c \in Channels : Head(outbox) = <<d, c>> /\ Queued(d, c)
<1>1. Len(outbox) \in Nat /\ DOMAIN outbox = 1..Len(outbox)
    OBVIOUS
<1>2. /\ outbox' \in Seq(Events \X Channels) /\ Len(outbox') = Len(outbox) - 1
      /\ DOMAIN outbox' = 1..(Len(outbox) - 1)
      /\ \A i \in 1..(Len(outbox) - 1) : outbox'[i] = outbox[i + 1]
      /\ Head(outbox) = outbox[1] /\ 1 \in DOMAIN outbox /\ outbox[1] \in Events \X Channels
    BY <1>1, HeadTailProperties
<1>3. \A i \in DOMAIN outbox' : i + 1 \in DOMAIN outbox /\ outbox'[i] = outbox[i + 1]
    BY <1>1, <1>2
<1>4. \A d, c : Queued(d, c)' => Queued(d, c)
    BY <1>3 DEF Queued
<1>5. \E d \in Events, c \in Channels : Head(outbox) = <<d, c>> /\ Queued(d, c)
    BY <1>2 DEF Queued
<1> QED
    BY <1>2, <1>4, <1>5

Sends(e) == Sending(e) \/ SendMessage(e)

(* The steps of a call of SendMessage.                                     *)
LEMMA SendFacts ==
    ASSUME TypeOK, \A d \in Events : SendInv(d), NEW e \in Events, Sends(e)
    PROVE  /\ UNCHANGED <<platform, cancelled, crashed, connVars, inVars, pipe, workVars>>
           /\ sends' \in [Events -> SendType]
           /\ outbox' \in Seq(Events \X Channels) /\ Len(outbox') <= ChannelSize
           /\ posted' \subseteq Events \X Channels
           /\ \A d \in Events : SendInv(d)'
<1> USE DEF OnlySends, Self, connVars, inVars, workVars, outVars
<1>1. /\ sends \in [Events -> SendType] /\ outbox \in Seq(Events \X Channels) /\ Len(outbox) <= ChannelSize
      /\ posted \subseteq Events \X Channels /\ notify \in [Channels -> BOOLEAN]
      /\ BoundTo \in [Events -> SUBSET Channels] /\ ChannelSize \in Nat
    BY ChatBotAssumption DEF TypeOK
<1>2. PICK s : s = sends[e]
    OBVIOUS
<1>3. s \in SendType
    BY <1>1, <1>2
<1>4. ASSUME NEW h \in SendType, sends' = [sends EXCEPT ![e] = h], UNCHANGED <<platform, notify>>,
             UNCHANGED outbox \/ \E ch \in Channels : outbox' = Append(outbox, <<e, ch>>),
             UNCHANGED posted \/ \E ch \in Channels : posted' = posted \cup {<<e, ch>>},
             SendInv(e)'
      PROVE  sends' \in [Events -> SendType] /\ \A d \in Events : SendInv(d)'
    <2>1. sends' \in [Events -> SendType] /\ \A d \in Events \ {e} : sends'[d] = sends[d]
        BY <1>4, SendUpdate
    <2>2. \A d \in Events \ {e}, ch \in Channels : <<d, ch>> \in posted' <=> <<d, ch>> \in posted
        BY <1>4
    <2>3. \A d \in Events \ {e}, ch \in Channels : Queued(d, ch)' <=> Queued(d, ch)
        <3>1. CASE UNCHANGED outbox
            BY <3>1 DEF Queued
        <3>2. CASE \E ch \in Channels : outbox' = Append(outbox, <<e, ch>>)
            BY <1>1, <3>2, OutboxAppend
        <3> QED
            BY <1>4, <3>1, <3>2
    <2>4. ASSUME NEW d \in Events \ {e}
          PROVE  SendInv(d)'
        BY <1>1, <1>4, <2>1, <2>2, <2>3, OtherSend
    <2> QED
        BY <1>4, <2>1, <2>4
<1>5. CASE SendMessage(e)
    <2> DEFINE h == [s EXCEPT !.at = "reading", !.on = {ch \in Channels : notify[ch]},
                              !.off = {ch \in Channels : ~notify[ch]}]
    <2>1. /\ s.at = "idle" /\ sends' = [sends EXCEPT ![e] = h]
          /\ UNCHANGED <<platform, cancelled, crashed, connVars, inVars, pipe, workVars, outbox, posted>>
        BY <1>1, <1>2, <1>5 DEF SendMessage
    <2>2. h \in SendType /\ h.at = "reading" /\ h.todo = s.todo
          /\ h.on = {ch \in Channels : notify[ch]} /\ h.off = {ch \in Channels : ~notify[ch]}
        BY <1>3 DEF SendType
    <2>. HIDE DEF h
    <2>3. sends'[e] = h
        BY <2>1, <2>2, SendUpdate
    <2>4. SendInv(e)'
        BY <1>2, <2>1, <2>2, <2>3 DEF SendInv, Queued
    <2> QED
        BY <1>1, <1>4, <2>1, <2>2, <2>4
<1>6. CASE GetChannelsToNotify(e)
    <2> DEFINE h == [s EXCEPT !.at = "posting", !.todo = ToNotify(e)]
    <2>1. /\ s.at = "reading" /\ sends' = [sends EXCEPT ![e] = h]
          /\ UNCHANGED <<platform, cancelled, crashed, connVars, inVars, pipe, workVars, outbox, posted>>
        BY <1>1, <1>2, <1>6 DEF GetChannelsToNotify
    <2>2. h \in SendType /\ h.at = "posting" /\ h.todo = ToNotify(e) /\ h.on = s.on /\ h.off = s.off
        BY <1>3 DEF SendType, ToNotify
    <2>. HIDE DEF h
    <2>3. sends'[e] = h
        BY <2>1, <2>2, SendUpdate
    <2>4. \A ch \in Channels : Queued(e, ch)' <=> Queued(e, ch)
        BY <2>1 DEF Queued
    <2>5. SendInv(e)'
        BY <1>1, <1>2, <2>1, <2>2, <2>3, <2>4 DEF SendInv, ToNotify
    <2> QED
        BY <1>1, <1>4, <2>1, <2>2, <2>5
<1>7. ASSUME NEW ch \in Channels, Send(e, ch)
      PROVE  /\ UNCHANGED <<platform, cancelled, crashed, connVars, inVars, pipe, workVars, outbox>>
             /\ sends' \in [Events -> SendType] /\ posted' \subseteq Events \X Channels
             /\ \A d \in Events : SendInv(d)'
    <2>1. PICK failed, h :
            /\ failed \in BOOLEAN /\ failed = (s.failed \/ ReportsError)
            /\ \/ h = [s EXCEPT !.todo = s.todo \ {ch}] /\ posted' = posted \cup {<<e, ch>>}
               \/ h = [s EXCEPT !.todo = s.todo \ {ch}, !.failed = failed] /\ UNCHANGED posted
            /\ sends' = [sends EXCEPT ![e] = h]
        BY <1>1, <1>2, <1>7 DEF Send
    <2>2. /\ s.at = "posting" /\ ch \in s.todo /\ platform # "cloudTeams"
          /\ UNCHANGED <<platform, cancelled, crashed, connVars, inVars, pipe, workVars, outbox>>
        BY <1>2, <1>7 DEF Send
    <2>3. /\ h \in SendType /\ h.at = "posting" /\ h.todo = s.todo \ {ch} /\ h.on = s.on /\ h.off = s.off
          /\ \/ h.failed = s.failed /\ posted' = posted \cup {<<e, ch>>}
             \/ h.failed = (s.failed \/ ReportsError) /\ UNCHANGED posted
        BY <1>3, <2>1, <2>2 DEF SendType
    <2>4. sends'[e] = h
        BY <2>1, <2>3, SendUpdate
    <2>5. \A c \in Channels : Queued(e, c)' <=> Queued(e, c)
        BY <2>2 DEF Queued
    <2>6. SendInv(e)'
        BY <1>1, <1>2, <2>2, <2>3, <2>4, <2>5 DEF SendInv, ReportsError
    <2>7. UNCHANGED posted \/ posted' = posted \cup {<<e, ch>>}
        BY <2>3
    <2>8. sends' \in [Events -> SendType] /\ \A d \in Events : SendInv(d)'
        BY <1>4, <2>1, <2>2, <2>3, <2>6, <2>7
    <2> QED
        BY <1>1, <2>2, <2>7, <2>8
<1>8. ASSUME NEW ch \in Channels, SendAgentActivity(e, ch)
      PROVE  /\ UNCHANGED <<platform, cancelled, crashed, connVars, inVars, pipe, workVars, posted>>
             /\ sends' \in [Events -> SendType]
             /\ outbox' \in Seq(Events \X Channels) /\ Len(outbox') <= ChannelSize
             /\ \A d \in Events : SendInv(d)'
    <2>1. PICK h :
            /\ \/ /\ h = [s EXCEPT !.todo = s.todo \ {ch}]
                  /\ Len(outbox) < ChannelSize /\ outbox' = Append(outbox, <<e, ch>>)
               \/ h = [s EXCEPT !.todo = {}, !.failed = TRUE] /\ UNCHANGED outbox
            /\ sends' = [sends EXCEPT ![e] = h]
        BY <1>1, <1>2, <1>8 DEF SendAgentActivity
    <2>2. /\ s.at = "posting" /\ ch \in s.todo /\ platform = "cloudTeams"
          /\ UNCHANGED <<platform, cancelled, crashed, connVars, inVars, pipe, workVars, posted>>
        BY <1>2, <1>8 DEF SendAgentActivity
    <2>3. h \in SendType /\ h.at = "posting" /\ h.todo \subseteq s.todo /\ h.on = s.on /\ h.off = s.off
        BY <1>3, <2>1, <2>2 DEF SendType
    <2>4. sends'[e] = h
        BY <2>1, <2>3, SendUpdate
    <2>5. /\ outbox' \in Seq(Events \X Channels) /\ Len(outbox') <= ChannelSize
          /\ \A c \in Channels : Queued(e, c)' => Queued(e, c) \/ c = ch
        <3>1. CASE UNCHANGED outbox
            BY <1>1, <3>1 DEF Queued
        <3>2. CASE Len(outbox) < ChannelSize /\ outbox' = Append(outbox, <<e, ch>>)
            BY <1>1, <3>2, OutboxAppend
        <3> QED
            BY <2>1, <3>1, <3>2
    <2>6. SendInv(e)'
        BY <1>1, <1>2, <2>2, <2>3, <2>4, <2>5 DEF SendInv
    <2> QED
        BY <1>1, <1>4, <2>1, <2>2, <2>3, <2>5, <2>6
<1>9. CASE SendReturns(e)
    <2>1. PICK h :
            h = [s EXCEPT !.at = IF s.failed THEN "failed" ELSE "ok"] /\ sends' = [sends EXCEPT ![e] = h]
        BY <1>1, <1>2, <1>9 DEF SendReturns
    <2>2. /\ s.at = "posting" /\ s.todo = {}
          /\ UNCHANGED <<platform, cancelled, crashed, connVars, inVars, pipe, workVars, outbox, posted>>
        BY <1>2, <1>9 DEF SendReturns
    <2>3. /\ h \in SendType /\ h.todo = {} /\ h.on = s.on /\ h.off = s.off
          /\ h.at = "failed" \/ (h.at = "ok" /\ ~s.failed)
        BY <1>3, <2>1, <2>2 DEF SendType
    <2>4. sends'[e] = h
        BY <2>1, <2>3, SendUpdate
    <2>5. \A c \in Channels : Queued(e, c)' <=> Queued(e, c)
        BY <2>2 DEF Queued
    <2>6. SendInv(e)'
        BY <1>1, <1>2, <2>2, <2>3, <2>4, <2>5 DEF SendInv
    <2> QED
        BY <1>1, <1>4, <2>1, <2>2, <2>3, <2>6
<1> QED
    BY <1>1, <1>5, <1>6, <1>7, <1>8, <1>9 DEF Sends, Sending

(* The stream of Cloud Teams takes the first message, sent or not.         *)
LEMMA ActivityFacts ==
    ASSUME TypeOK, \A d \in Events : SendInv(d), ProcessAgentActivity
    PROVE  /\ UNCHANGED <<platform, cancelled, crashed, connVars, inVars, pipe, workVars, sends>>
           /\ outbox' \in Seq(Events \X Channels) /\ Len(outbox') <= ChannelSize
           /\ posted' \subseteq Events \X Channels
           /\ \A d \in Events : SendInv(d)'
<1> USE DEF OnlySends, Self, connVars, inVars, workVars, outVars
<1>1. /\ outbox \in Seq(Events \X Channels) /\ Len(outbox) <= ChannelSize /\ Len(outbox) \in Nat
      /\ posted \subseteq Events \X Channels /\ ChannelSize \in Nat
    BY ChatBotAssumption DEF TypeOK
<1>2. /\ UNCHANGED <<platform, cancelled, crashed, connVars, inVars, pipe, workVars, sends>>
      /\ outbox # <<>> /\ outbox' = Tail(outbox)
      /\ posted' = posted \/ posted' = posted \cup {Head(outbox)}
      /\ platform = "cloudTeams"
    BY DEF ProcessAgentActivity, Drains
<1>3. /\ outbox' \in Seq(Events \X Channels) /\ Len(outbox') = Len(outbox) - 1
      /\ \A d, c : Queued(d, c)' => Queued(d, c)
      /\ \E d \in Events, c \in Channels : Head(outbox) = <<d, c>> /\ Queued(d, c)
    BY <1>1, <1>2, OutboxTail
<1>4. \A d, c : <<d, c>> \in posted' => <<d, c>> \in posted \/ Queued(d, c)
    BY <1>2, <1>3
<1>5. ASSUME NEW d \in Events
      PROVE  SendInv(d)'
    <2>1. SendInv(d)
        OBVIOUS
    <2> QED
        BY <2>1, <1>2, <1>3, <1>4 DEF SendInv
<1> QED
    BY <1>1, <1>2, <1>3, <1>5

(* A command switches the notifications of its channel, during the calls.  *)
LEMMA SwitchFacts ==
    ASSUME TypeOK, \A d \in Events : SendInv(d), NEW enabled \in BOOLEAN, SetNotificationsEnabled(enabled),
           UNCHANGED <<platform, outbox, posted>>
    PROVE  notify' \in [Channels -> BOOLEAN] /\ sends' \in [Events -> SendType] /\ \A d \in Events : SendInv(d)'
<1>1. /\ sends \in [Events -> SendType] /\ notify \in [Channels -> BOOLEAN]
      /\ Room \in Channels /\ BoundTo \in [Events -> SUBSET Channels]
    BY ChatBotAssumption DEF TypeOK
<1>2. /\ notify' \in [Channels -> BOOLEAN] /\ notify'[Room] = enabled
      /\ \A ch \in Channels \ {Room} : notify'[ch] = notify[ch]
    BY <1>1 DEF SetNotificationsEnabled
<1>3. ASSUME NEW d \in Events
      PROVE  sends'[d] \in SendType /\ SendInv(d)'
    <2>1. PICK s, on, off :
            /\ s = sends[d] /\ on = s.on \cup {ch \in {Room} : enabled} /\ off = s.off \cup {ch \in {Room} : ~enabled}
        OBVIOUS
    <2>2. s \in SendType /\ sends'[d] = [s EXCEPT !.on = on, !.off = off]
        BY <1>1, <2>1 DEF SetNotificationsEnabled
    <2>3. on \in SUBSET Channels /\ off \in SUBSET Channels
        BY <1>1, <2>1, <2>2 DEF SendType
    <2>4. PICK h : h = sends'[d]
        OBVIOUS
    <2>5. /\ h \in SendType /\ h.at = s.at /\ h.todo = s.todo /\ h.failed = s.failed
          /\ h.on = on /\ h.off = off
        BY <2>2, <2>3, <2>4 DEF SendType
    <2>6. /\ s.on \subseteq on /\ s.off \subseteq off
          /\ IF enabled THEN Room \in on ELSE Room \in off
        BY <2>1
    <2>7. \A ch \in Channels : Queued(d, ch)' <=> Queued(d, ch)
        BY DEF Queued
    <2>8. SendInv(d)
        OBVIOUS
    <2>9. s.at # "idle" => \A ch \in Channels : IF notify'[ch] THEN ch \in on ELSE ch \in off
        BY <1>2, <2>1, <2>6, <2>8 DEF SendInv
    <2>10. SendInv(d)'
        BY <2>1, <2>4, <2>5, <2>6, <2>7, <2>8, <2>9 DEF SendInv
    <2> QED
        BY <2>4, <2>5, <2>10
<1>4. sends' \in [Events -> SendType]
    BY <1>3 DEF SetNotificationsEnabled
<1> QED
    BY <1>2, <1>3, <1>4

-----------------------------------------------------------------------------
(* Every message that arrived is in at most one place                      *)

\* T is at most n elements larger than S.
Grows(S, T, n) == n \in Int /\ IsFiniteSet(T) /\ Cardinality(T) <= Cardinality(S) + n

(* The size of a set that loses or gains an element.                       *)
LEMMA Sizes ==
    ASSUME NEW S, IsFiniteSet(S), NEW T
    PROVE  /\ T \subseteq S => Grows(S, T, 0)
           /\ \A y : T \subseteq S \cup {y} => Grows(S, T, 1)
           /\ \A x \in S : T \subseteq S \ {x} => Grows(S, T, -1)
<1>1. Cardinality(S) \in Nat
    BY FS_CardinalityType
<1>2. ASSUME T \subseteq S
      PROVE  Grows(S, T, 0)
    <2>1. IsFiniteSet(T) /\ Cardinality(T) <= Cardinality(S)
        BY <1>2, FS_Subset
    <2> QED
        BY <1>1, <2>1 DEF Grows
<1>3. ASSUME NEW y, T \subseteq S \cup {y}
      PROVE  Grows(S, T, 1)
    <2>1. IsFiniteSet(S \cup {y}) /\ Cardinality(S \cup {y}) \in {Cardinality(S), Cardinality(S) + 1}
        BY FS_AddElement
    <2>2. IsFiniteSet(T) /\ Cardinality(T) <= Cardinality(S \cup {y}) /\ Cardinality(T) \in Nat
        BY <1>3, <2>1, FS_Subset, FS_CardinalityType
    <2> QED
        BY <1>1, <2>1, <2>2 DEF Grows
<1>4. ASSUME NEW x \in S, T \subseteq S \ {x}
      PROVE  Grows(S, T, -1)
    <2>1. IsFiniteSet(S \ {x}) /\ Cardinality(S \ {x}) = Cardinality(S) - 1
        BY FS_RemoveElement
    <2>2. IsFiniteSet(T) /\ Cardinality(T) <= Cardinality(S \ {x})
        BY <1>4, <2>1, FS_Subset
    <2> QED
        BY <1>1, <2>1, <2>2 DEF Grows
<1> QED
    BY <1>2, <1>3, <1>4

(* Whatever a step does, the sum of the five sizes and the number of       *)
(* messages that arrived follow from what it does to each of the sets.     *)
LEMMA CountStep ==
    \A c, q, h, g, d :
        /\ CountInv /\ received \in Nat /\ received' \in Nat
        /\ Grows(callbacks, callbacks', c) /\ Grows(Waiting, Waiting', q) /\ Grows(Held, Held', h)
        /\ Grows(Given, Given', g) /\ Grows(Handlings, Handlings', d)
        /\ c + q + h + g + d <= received' - received
        => CountInv'
<1>1. SUFFICES ASSUME NEW c \in Int, NEW q \in Int, NEW h \in Int, NEW g \in Int, NEW d \in Int,
                      CountInv, received \in Nat, received' \in Nat,
                      Grows(callbacks, callbacks', c), Grows(Waiting, Waiting', q), Grows(Held, Held', h),
                      Grows(Given, Given', g), Grows(Handlings, Handlings', d),
                      c + q + h + g + d <= received' - received
               PROVE  CountInv'
    BY DEF Grows
<1>2. /\ IsFiniteSet(callbacks') /\ IsFiniteSet(Waiting') /\ IsFiniteSet(Held')
      /\ IsFiniteSet(Given') /\ IsFiniteSet(Handlings')
    BY <1>1 DEF Grows
<1>3. PICK a1 \in Int, a2 \in Int, a3 \in Int, a4 \in Int, a5 \in Int :
          /\ a1 = Cardinality(callbacks) /\ a2 = Cardinality(Waiting) /\ a3 = Cardinality(Held)
          /\ a4 = Cardinality(Given) /\ a5 = Cardinality(Handlings)
    BY <1>1, FS_CardinalityType DEF CountInv
<1>4. PICK b1 \in Int, b2 \in Int, b3 \in Int, b4 \in Int, b5 \in Int :
          /\ b1 = Cardinality(callbacks') /\ b2 = Cardinality(Waiting') /\ b3 = Cardinality(Held')
          /\ b4 = Cardinality(Given') /\ b5 = Cardinality(Handlings')
    BY <1>2, FS_CardinalityType
<1>5. PICK n \in Int, m \in Int : n = received /\ m = received'
    BY <1>1
<1>6. a1 + a2 + a3 + a4 + a5 <= n
    BY <1>1, <1>3, <1>5 DEF CountInv
<1>7. b1 <= a1 + c /\ b2 <= a2 + q /\ b3 <= a3 + h /\ b4 <= a4 + g /\ b5 <= a5 + d
    BY <1>1, <1>3, <1>4 DEF Grows
<1>8. c + q + h + g + d <= m - n
    BY <1>1, <1>5
<1>9. b1 + b2 + b3 + b4 + b5 <= m
    BY <1>6, <1>7, <1>8
<1> QED
    BY <1>2, <1>4, <1>5, <1>9 DEF CountInv

(* What receiving does to the messages that are under way.                 *)
LEMMA ReceiveCounts ==
    ASSUME TypeOK, RetryInv, Receives
    PROVE  /\ handled' = handled
           /\ \/ /\ received' = received + 1 /\ callbacks' = callbacks
                 /\ pipe' = pipe \/ \E p \in Pipes, m \in Ids : HasRoom(p) /\ Enqueue(p, m)
              \/ received' = received + 1 /\ pipe' = pipe /\ callbacks' = callbacks \cup {received + 1}
              \/ /\ received' = received
                 /\ \E m \in callbacks : /\ callbacks' = callbacks \ {m}
                                         /\ \E p \in Pipes : m \in Ids /\ HasRoom(p) /\ Enqueue(p, m)
              \/ received' = received /\ callbacks' = callbacks /\ pipe' = pipe
<1> USE ScriptFacts DEF OnlyReceived, Self, connVars, inVars, workVars, outVars
<1>1. phase = "connected" => conn \in Pipes
    BY DEF TypeOK, RetryInv, Pipes
<1>2. ASSUME NEW kind \in Kinds, Receive(kind)
      PROVE  /\ handled' = handled /\ received' = received + 1
             /\ \/ /\ callbacks' = callbacks
                   /\ pipe' = pipe \/ \E p \in Pipes, m \in Ids : HasRoom(p) /\ Enqueue(p, m)
                \/ pipe' = pipe /\ callbacks' = callbacks \cup {received + 1}
    <2>1. Arrives(kind)
        BY <1>2 DEF Receive, CloudSlackReceive, CloudTeamsReceive, SocketSlackReceive, MattermostListen, DiscordEvent
    <2>2. phase = "connected" /\ received' = received + 1 /\ NewId \in Ids /\ NewId = received + 1
        BY <2>1 DEF Arrives, NewId, Ids, TypeOK
    <2>3. CASE CloudSlackReceive(kind) \/ CloudTeamsReceive(kind)
        BY <1>1, <2>2, <2>3 DEF CloudSlackReceive, CloudTeamsReceive, Discard
    <2>4. CASE SocketSlackReceive(kind) \/ MattermostListen(kind)
        BY <2>2, <2>4 DEF SocketSlackReceive, MattermostListen, Discard
    <2>5. CASE DiscordEvent(kind)
        BY <2>2, <2>5 DEF DiscordEvent
    <2> QED
        BY <1>2, <2>2, <2>3, <2>4, <2>5 DEF Receive
<1>3. ASSUME NEW m \in callbacks, DiscordHandler(m)
      PROVE  /\ handled' = handled /\ received' = received
             /\ \/ /\ callbacks' = callbacks \ {m} /\ m \in Ids
                   /\ HasRoom(1) /\ Enqueue(1, m)
                \/ callbacks' = callbacks /\ pipe' = pipe
    <2>1. callbacks \subseteq Ids
        BY DEF TypeOK
    <2> QED
        BY <1>3, <2>1 DEF DiscordHandler, Crash
<1> QED
    BY <1>2, <1>3 DEF Receives

(* A step moves a message from one place to the next, and only an arrival  *)
(* adds one.                                                               *)
LEMMA CountInvStep ==
    ASSUME TypeOK, RetryInv, CountInv, received' \in Nat,
           \/ Connects \/ Receives
           \/ \E p \in Pipes : Process(p)
           \/ \E p \in Pipes, w \in Workers : Task(p, w)
           \/ UNCHANGED <<pipe, received, callbacks, handled>>
    PROVE  CountInv'
<1> USE ScriptFacts
<1>1. /\ pipe \in [Pipes -> PipeType] /\ handled \in [Ids -> Nat] /\ received \in Nat
      /\ \A p \in Pipes : pipe[p] \in PipeType /\ pipe[p].queue \in Seq(Ids) /\ Len(pipe[p].queue) \in Nat
    BY DEF TypeOK, PipeType
<1>2. /\ IsFiniteSet(callbacks) /\ IsFiniteSet(Waiting) /\ IsFiniteSet(Held)
      /\ IsFiniteSet(Given) /\ IsFiniteSet(Handlings)
    BY DEF CountInv
<1>3. callbacks' = callbacks => Grows(callbacks, callbacks', 0)
    BY <1>2, Sizes
<1>4. (\A p \in Pipes : Len(pipe'[p].queue) = Len(pipe[p].queue)) => Grows(Waiting, Waiting', 0)
    <2> SUFFICES ASSUME \A p \in Pipes : Len(pipe'[p].queue) = Len(pipe[p].queue)
                 PROVE  Grows(Waiting, Waiting', 0)
        OBVIOUS
    <2>1. Waiting' \subseteq Waiting
        BY DEF Waiting
    <2> QED
        BY <1>2, <2>1, Sizes
<1>5. (\A p \in Pipes : pipe'[p].reader = "holding" => pipe[p].reader = "holding") => Grows(Held, Held', 0)
    <2> SUFFICES ASSUME \A p \in Pipes : pipe'[p].reader = "holding" => pipe[p].reader = "holding"
                 PROVE  Grows(Held, Held', 0)
        OBVIOUS
    <2>1. Held' \subseteq Held
        BY DEF Held
    <2> QED
        BY <1>2, <2>1, Sizes
<1>6. (\A p \in Pipes : DOMAIN pipe'[p].work = DOMAIN pipe[p].work) => Grows(Given, Given', 0)
    <2> SUFFICES ASSUME \A p \in Pipes : DOMAIN pipe'[p].work = DOMAIN pipe[p].work
                 PROVE  Grows(Given, Given', 0)
        OBVIOUS
    <2>1. Given' \subseteq Given
        BY DEF Given
    <2> QED
        BY <1>2, <2>1, Sizes
<1>7. handled' = handled => Grows(Handlings, Handlings', 0)
    <2> SUFFICES ASSUME handled' = handled PROVE Grows(Handlings, Handlings', 0)
        OBVIOUS
    <2>1. Handlings' \subseteq Handlings
        BY DEF Handlings
    <2> QED
        BY <1>2, <2>1, Sizes
<1>8. CASE Connects
    <2>1. UNCHANGED <<received, callbacks, handled>>
        BY <1>8, ConnectFrame DEF inVars, workVars
    <2>2. \A p \in Pipes : /\ pipe'[p].queue = pipe[p].queue /\ pipe'[p].work = pipe[p].work
                           /\ pipe[p].reader = "holding" <=> pipe'[p].reader = "holding"
        BY <1>8, ConnectPipe
    <2>3. /\ Grows(callbacks, callbacks', 0) /\ Grows(Waiting, Waiting', 0) /\ Grows(Held, Held', 0)
          /\ Grows(Given, Given', 0) /\ Grows(Handlings, Handlings', 0)
        BY <1>3, <1>4, <1>5, <1>6, <1>7, <2>1, <2>2
    <2>4. 0 + 0 + 0 + 0 + 0 <= received' - received
        BY <1>1, <2>1
    <2> QED
        BY <1>1, <2>3, <2>4, CountStep, Zenon
<1>9. ASSUME NEW p \in Pipes, NEW m \in Ids, HasRoom(p), Enqueue(p, m)
      PROVE  Grows(Waiting, Waiting', 1) /\ Grows(Held, Held', 0) /\ Grows(Given, Given', 0)
    <2>1. /\ \A q \in Pipes \ {p} : pipe'[q] = pipe[q]
          /\ Len(pipe'[p].queue) = Len(pipe[p].queue) + 1
          /\ pipe'[p].reader = pipe[p].reader /\ pipe'[p].work = pipe[p].work
        BY <1>9, EnqueueFacts
    <2>2. \A q \in Pipes : pipe'[q].reader = pipe[q].reader /\ pipe'[q].work = pipe[q].work
        BY <2>1
    <2>3. Waiting' \subseteq Waiting \cup {<<p, Len(pipe[p].queue) + 1>>}
        BY <1>1, <2>1 DEF Waiting
    <2> QED
        BY <1>2, <1>5, <1>6, <2>2, <2>3, Sizes
<1>10. CASE Receives
    <2>1. handled' = handled
        BY <1>10, ReceiveCounts
    <2>2. CASE received' = received + 1 /\ callbacks' = callbacks /\ pipe' = pipe
        <3>1. /\ Grows(callbacks, callbacks', 0) /\ Grows(Waiting, Waiting', 0) /\ Grows(Held, Held', 0)
              /\ Grows(Given, Given', 0) /\ Grows(Handlings, Handlings', 0)
            BY <1>3, <1>4, <1>5, <1>6, <1>7, <2>1, <2>2
        <3>2. 0 + 0 + 0 + 0 + 0 <= received' - received
            BY <1>1, <2>2
        <3> QED
            BY <1>1, <3>1, <3>2, CountStep, Zenon
    <2>3. CASE /\ received' = received + 1 /\ callbacks' = callbacks
               /\ \E p \in Pipes, m \in Ids : HasRoom(p) /\ Enqueue(p, m)
        <3>1. /\ Grows(callbacks, callbacks', 0) /\ Grows(Waiting, Waiting', 1) /\ Grows(Held, Held', 0)
              /\ Grows(Given, Given', 0) /\ Grows(Handlings, Handlings', 0)
            BY <1>3, <1>7, <1>9, <2>1, <2>3
        <3>2. 0 + 1 + 0 + 0 + 0 <= received' - received
            BY <1>1, <2>3
        <3> QED
            BY <1>1, <3>1, <3>2, CountStep, Zenon
    <2>4. CASE received' = received + 1 /\ pipe' = pipe /\ callbacks' = callbacks \cup {received + 1}
        <3>1. Grows(callbacks, callbacks', 1)
            BY <1>2, <2>4, Sizes
        <3>2. /\ Grows(Waiting, Waiting', 0) /\ Grows(Held, Held', 0)
              /\ Grows(Given, Given', 0) /\ Grows(Handlings, Handlings', 0)
            BY <1>4, <1>5, <1>6, <1>7, <2>1, <2>4
        <3>3. 1 + 0 + 0 + 0 + 0 <= received' - received
            BY <1>1, <2>4
        <3> QED
            BY <1>1, <3>1, <3>2, <3>3, CountStep, Zenon
    <2>5. CASE /\ received' = received
               /\ \E m \in callbacks : /\ callbacks' = callbacks \ {m}
                                       /\ \E p \in Pipes : m \in Ids /\ HasRoom(p) /\ Enqueue(p, m)
        <3>1. Grows(callbacks, callbacks', -1)
            BY <1>2, <2>5, Sizes
        <3>2. /\ Grows(Waiting, Waiting', 1) /\ Grows(Held, Held', 0)
              /\ Grows(Given, Given', 0) /\ Grows(Handlings, Handlings', 0)
            BY <1>7, <1>9, <2>1, <2>5
        <3>3. -1 + 1 + 0 + 0 + 0 <= received' - received
            BY <1>1, <2>5
        <3> QED
            BY <1>1, <3>1, <3>2, <3>3, CountStep, Zenon
    <2>6. CASE received' = received /\ callbacks' = callbacks /\ pipe' = pipe
        <3>1. /\ Grows(callbacks, callbacks', 0) /\ Grows(Waiting, Waiting', 0) /\ Grows(Held, Held', 0)
              /\ Grows(Given, Given', 0) /\ Grows(Handlings, Handlings', 0)
            BY <1>3, <1>4, <1>5, <1>6, <1>7, <2>1, <2>6
        <3>2. 0 + 0 + 0 + 0 + 0 <= received' - received
            BY <1>1, <2>6
        <3> QED
            BY <1>1, <3>1, <3>2, CountStep, Zenon
    <2> QED
        BY <1>10, <2>2, <2>3, <2>4, <2>5, <2>6, ReceiveCounts
<1>11. ASSUME NEW p \in Pipes, Process(p)
       PROVE  CountInv'
    <2>1. UNCHANGED <<received, callbacks, handled>> /\ \A q \in Pipes \ {p} : pipe'[q] = pipe[q]
        BY <1>11, ProcessFacts DEF inVars, workVars
    <2>2. Grows(callbacks, callbacks', 0) /\ Grows(Handlings, Handlings', 0)
        BY <1>3, <1>7, <2>1
    <2>3. CASE /\ pipe[p].queue # <<>>
               /\ pipe'[p].queue = Tail(pipe[p].queue) /\ pipe'[p].work = pipe[p].work
        <3>1. Len(pipe[p].queue) > 0 /\ Len(pipe'[p].queue) = Len(pipe[p].queue) - 1
            BY <1>1, <2>3, HeadTailProperties
        <3>2. <<p, Len(pipe[p].queue)>> \in Waiting
            BY <1>1, <3>1 DEF Waiting
        <3>3. Waiting' \subseteq Waiting \ {<<p, Len(pipe[p].queue)>>}
            BY <1>1, <2>1, <3>1 DEF Waiting
        <3>4. Held' \subseteq Held \cup {p}
            BY <2>1 DEF Held
        <3>5. \A q \in Pipes : pipe'[q].work = pipe[q].work
            BY <2>1, <2>3
        <3>6. Grows(Waiting, Waiting', -1) /\ Grows(Held, Held', 1) /\ Grows(Given, Given', 0)
            BY <1>2, <1>6, <3>2, <3>3, <3>4, <3>5, Sizes
        <3>7. 0 + (-1) + 1 + 0 + 0 <= received' - received
            BY <1>1, <2>1
        <3> QED
            BY <1>1, <2>2, <3>6, <3>7, CountStep, Zenon
    <2>4. CASE /\ pipe'[p].queue = pipe[p].queue
               /\ pipe' = pipe \/ (pipe'[p].reader # "holding" /\ pipe'[p].work = pipe[p].work)
        <3>1. \A q \in Pipes : /\ pipe'[q].queue = pipe[q].queue /\ pipe'[q].work = pipe[q].work
                               /\ pipe'[q].reader = "holding" => pipe[q].reader = "holding"
            BY <2>1, <2>4
        <3>2. Grows(Waiting, Waiting', 0) /\ Grows(Held, Held', 0) /\ Grows(Given, Given', 0)
            BY <1>4, <1>5, <1>6, <3>1
        <3>3. 0 + 0 + 0 + 0 + 0 <= received' - received
            BY <1>1, <2>1
        <3> QED
            BY <1>1, <2>2, <3>2, <3>3, CountStep, Zenon
    <2>5. CASE /\ pipe'[p].queue = pipe[p].queue
               /\ \E w \in Workers :
                    /\ pipe[p].reader = "holding" /\ pipe'[p].reader # "holding"
                    /\ pipe'[p].work = [v \in DOMAIN pipe[p].work \cup {w} |->
                                          IF v = w THEN 0 ELSE pipe[p].work[v]]
        <3>1. PICK w \in Workers : DOMAIN pipe'[p].work = DOMAIN pipe[p].work \cup {w}
            BY <2>5
        <3>2. p \in Held /\ Held' \subseteq Held \ {p}
            BY <2>1, <2>5 DEF Held
        <3>3. Given' \subseteq Given \cup {<<p, w>>}
            BY <2>1, <3>1 DEF Given
        <3>4. \A q \in Pipes : pipe'[q].queue = pipe[q].queue
            BY <2>1, <2>5
        <3>5. Grows(Waiting, Waiting', 0) /\ Grows(Held, Held', -1) /\ Grows(Given, Given', 1)
            BY <1>2, <1>4, <3>2, <3>3, <3>4, Sizes
        <3>6. 0 + 0 + (-1) + 1 + 0 <= received' - received
            BY <1>1, <2>1
        <3> QED
            BY <1>1, <2>2, <3>5, <3>6, CountStep, Zenon
    <2> QED
        BY <1>11, <2>3, <2>4, <2>5, ProcessFacts
<1>12. ASSUME NEW p \in Pipes, NEW w \in Workers, Task(p, w)
       PROVE  CountInv'
    <2>1. /\ UNCHANGED <<received, callbacks>> /\ \A q \in Pipes \ {p} : pipe'[q] = pipe[q]
          /\ \A q \in Pipes : pipe'[q].queue = pipe[q].queue /\ pipe'[q].reader = pipe[q].reader
        BY <1>12, TaskFacts DEF inVars
    <2>2. Grows(callbacks, callbacks', 0) /\ Grows(Waiting, Waiting', 0) /\ Grows(Held, Held', 0)
        BY <1>3, <1>4, <1>5, <2>1
    <2>3. CASE handled' = handled /\ DOMAIN pipe'[p].work = DOMAIN pipe[p].work
        <3>1. \A q \in Pipes : DOMAIN pipe'[q].work = DOMAIN pipe[q].work
            BY <2>1, <2>3
        <3>2. Grows(Given, Given', 0) /\ Grows(Handlings, Handlings', 0)
            BY <1>6, <1>7, <2>3, <3>1
        <3>3. 0 + 0 + 0 + 0 + 0 <= received' - received
            BY <1>1, <2>1
        <3> QED
            BY <1>1, <2>2, <3>2, <3>3, CountStep, Zenon
    <2>4. CASE /\ w \in DOMAIN pipe[p].work /\ DOMAIN pipe'[p].work = DOMAIN pipe[p].work \ {w}
               /\ \E m \in Ids : handled' = [handled EXCEPT ![m] = @ + 1]
        <3>1. PICK m \in Ids : handled' = [handled EXCEPT ![m] = @ + 1]
            BY <2>4
        <3>2. <<p, w>> \in Given /\ Given' \subseteq Given \ {<<p, w>>}
            BY <2>1, <2>4 DEF Given
        <3>3. Handlings' \subseteq Handlings \cup {<<m, handled[m] + 1>>}
            <4>1. \A i \in Ids : handled'[i] = IF i = m THEN handled[i] + 1 ELSE handled[i]
                BY <1>1, <3>1
            <4>2. \A i \in Ids : \A n \in 1..handled'[i] : n \in 1..handled[i] \/ (i = m /\ n = handled[m] + 1)
                BY <1>1, <4>1
            <4> QED
                BY <4>2 DEF Handlings
        <3>4. Grows(Given, Given', -1) /\ Grows(Handlings, Handlings', 1)
            BY <1>2, <3>2, <3>3, Sizes
        <3>5. 0 + 0 + 0 + (-1) + 1 <= received' - received
            BY <1>1, <2>1
        <3> QED
            BY <1>1, <2>2, <3>4, <3>5, CountStep, Zenon
    <2> QED
        BY <1>12, <2>3, <2>4, TaskFacts
<1>13. CASE UNCHANGED <<pipe, received, callbacks, handled>>
    BY <1>13 DEF CountInv, Waiting, Held, Given, Handlings
<1> QED
    BY <1>8, <1>10, <1>11, <1>12, <1>13

-----------------------------------------------------------------------------
(* The inductive invariant                                                 *)

LEMMA NextCases ==
    ASSUME Next
    PROVE  \/ Connects \/ Receives
           \/ \E p \in Pipes : Process(p)
           \/ \E p \in Pipes, w \in Workers : Task(p, w)
           \/ \E e \in Events : Sends(e)
           \/ ProcessAgentActivity \/ Cancel \/ Crash
BY DEF Next, Progress, Connects, Receives, Sends, MapFault

LEMMA InitIInv == Init => IInv
<1> SUFFICES ASSUME Init PROVE IInv
    OBVIOUS
<1> USE ScriptFacts DEF Init
<1>1. NewPipe \in PipeType /\ NewPipe.queue = <<>> /\ Len(NewPipe.queue) = 0
    <2>1. <<>> \in Work /\ <<>> \in Seq(Ids) /\ 0 \in 0..MaxMessages
        BY WorkFacts
    <2> QED
        BY <2>1 DEF NewPipe, PipeType
<1>2. /\ outbox \in Seq(Events \X Channels) /\ Len(outbox) = 0 /\ \A i : i \notin DOMAIN outbox
    OBVIOUS
<1>3. TypeOK
    <2>1. pipe \in [Pipes -> PipeType] /\ \A p \in Pipes : Len(pipe[p].queue) <= ChannelSize
        BY <1>1
    <2>2. sends \in [Events -> SendType]
        BY DEF SendType
    <2>3. handled \in [Ids -> Nat] /\ newest \in [Pipes -> 0..MaxMessages] /\ notify \in [Channels -> BOOLEAN]
        OBVIOUS
    <2>4. Len(outbox) <= ChannelSize
        BY <1>2
    <2>5. /\ platform \in Platforms /\ phase = "connecting"
          /\ callbacks \subseteq Ids /\ switching \subseteq Pipes \X Workers /\ posted \subseteq Events \X Channels
        OBVIOUS
    <2>6. conn \in 0..MaxConnections /\ failuresNo \in 0..MaxRetries /\ received \in 0..MaxMessages
        OBVIOUS
    <2>7. streak \in 0..(MaxRetries + 1)
        OBVIOUS
    <2>8. cancelled \in BOOLEAN /\ failedOnce \in BOOLEAN /\ crashed \in BOOLEAN
        OBVIOUS
    <2> QED
        BY <1>2, <2>1, <2>2, <2>3, <2>4, <2>5, <2>6, <2>7, <2>8 DEF TypeOK, Phases
<1>4. RetryInv
    BY DEF RetryInv
<1>5. ASSUME NEW p \in Pipes
      PROVE  MessageInv(p)
    BY <1>1 DEF MessageInv
<1>6. ASSUME NEW e \in Events
      PROVE  SendInv(e)
    BY <1>2 DEF SendInv, Queued
<1>7. CountInv
    <2>1. \A p \in Pipes : pipe[p].queue = <<>> /\ pipe[p].reader = "none" /\ pipe[p].work = <<>>
        BY DEF NewPipe
    <2>2. \A p \in Pipes : Len(pipe[p].queue) = 0 /\ DOMAIN pipe[p].work = {}
        BY <2>1, WorkFacts
    <2>3. Waiting = {}
        BY <2>2 DEF Waiting
    <2>4. Held = {} /\ Given = {}
        BY <2>1, <2>2 DEF Held, Given
    <2>5. Handlings = {}
        BY DEF Handlings
    <2>6. callbacks = {} /\ received = 0
        OBVIOUS
    <2> QED
        BY <2>3, <2>4, <2>5, <2>6, FS_EmptySet DEF CountInv
<1> QED
    BY <1>3, <1>4, <1>5, <1>6, <1>7 DEF IInv

(* Only the connection touches the counter.  A run that is long starts the *)
(* count at one, as the history does; Connected resets both.               *)
LEMMA RetryStep ==
    ASSUME TypeOK, RetryInv, Connects
    PROVE  /\ RetryInv'
           /\ phase' \in Phases
           /\ conn' \in 0..MaxConnections /\ failuresNo' \in 0..MaxRetries
           /\ failedOnce' \in BOOLEAN /\ streak' \in 0..(MaxRetries + 1)
<1> USE ScriptFacts DEF OnlyConnection, Self, Phases
<1>1. /\ phase \in Phases
      /\ conn \in 0..MaxConnections /\ failuresNo \in 0..MaxRetries
      /\ failedOnce \in BOOLEAN /\ streak \in 0..(MaxRetries + 1)
    BY DEF TypeOK
<1>2. platform' = platform
    BY ConnectFrame
<1>3. NextStreak \in 0..(MaxRetries + 1) /\ (streak <= MaxRetries => NextStreak = streak + 1)
    BY <1>1 DEF NextStreak
<1>4. ASSUME NEW p, Connected(p)
      PROVE  /\ phase' = "connected" /\ conn' = conn + 1 /\ conn' \in 0..MaxConnections
             /\ streak' = 0 /\ failuresNo' = 0 /\ failedOnce' = failedOnce
    BY <1>1, <1>4 DEF Connected, Reset
<1>5. CASE \E p : Connected(p)
    BY <1>1, <1>2, <1>4, <1>5 DEF RetryInv
<1>6. CASE StartFails
    BY <1>1, <1>2, <1>3, <1>6 DEF StartFails, RetryInv
<1>7. CASE PoolStopped
    BY <1>1, <1>2, <1>7 DEF PoolStopped, RetryInv
<1>8. CASE MattermostLoses
    BY <1>1, <1>2, <1>8 DEF MattermostLoses, RetryInv, CloudPlatforms
<1>9. CASE ShutdownRequested
    BY <1>1, <1>2, <1>9 DEF ShutdownRequested, Notices, RetryInv, CloudPlatforms
<1>10. CASE GiveUp
    BY <1>1, <1>2, <1>10 DEF GiveUp, RetriesLeft, RetryInv
<1>11. CASE \E long \in BOOLEAN : Backoff(long)
    BY <1>1, <1>2, <1>11 DEF Backoff, RetriesLeft, RetryInv
<1>12. CASE CloudSlackLoses
    BY <1>1, <1>2, <1>3, <1>12 DEF CloudSlackLoses, RetryInv, CloudPlatforms
<1>13. CASE \E closes \in BOOLEAN : CloudTeamsLoses(closes)
    BY <1>1, <1>2, <1>3, <1>13 DEF CloudTeamsLoses, RetryInv, CloudPlatforms
<1>14. CASE CloudTeamsTakenForShutdown \/ SocketSlackLoses \/ SocketSlackRunFails
    BY <1>1, <1>2, <1>14
       DEF CloudTeamsTakenForShutdown, SocketSlackLoses, SocketSlackRunFails, RetryInv, CloudPlatforms
<1> QED
    BY <1>5, <1>6, <1>7, <1>8, <1>9, <1>10, <1>11, <1>12, <1>13, <1>14, ConnectCases

LEMMA MessageKept ==
    ASSUME NEW p \in Pipes, MessageInv(p), NEW m, m = newest[p], newest'[p] = m,
           pipe'[p].queue = pipe[p].queue, pipe'[p].var = pipe[p].var,
           m # 0 /\ pipe[p].queue = <<>> /\ pipe[p].var = m /\ Pending(p, m) => Pending(p, m)'
    PROVE  MessageInv(p)'
BY DEF MessageInv

(* A step of any of the processes keeps the last message of every pipe.    *)
LEMMA MessageStep ==
    ASSUME TypeOK, RetryInv, \A p \in Pipes : MessageInv(p),
           \/ Connects \/ Receives
           \/ \E p \in Pipes : Process(p)
           \/ \E p \in Pipes, w \in Workers : Task(p, w)
           \/ UNCHANGED <<pipe, newest, handled>>
    PROVE  \A p \in Pipes : MessageInv(p)'
<1> USE ScriptFacts
<1>1. /\ pipe \in [Pipes -> PipeType] /\ newest \in [Pipes -> 0..MaxMessages] /\ handled \in [Ids -> Nat]
      /\ \A p \in Pipes : pipe[p] \in PipeType /\ pipe[p].queue \in Seq(Ids) /\ Len(pipe[p].queue) \in Nat
      /\ \A p \in Pipes : newest[p] # 0 => newest[p] \in Ids
    BY DEF TypeOK, PipeType, Ids
<1>2. ASSUME NEW p \in Pipes,
             pipe'[p].queue = pipe[p].queue, pipe'[p].var = pipe[p].var, pipe'[p].work = pipe[p].work,
             pipe[p].reader = "holding" <=> pipe'[p].reader = "holding", UNCHANGED <<newest, handled>>
      PROVE  MessageInv(p)'
    <2>1. PICK m : m = newest[p]
        OBVIOUS
    <2>2. newest'[p] = m /\ (Pending(p, m) => Pending(p, m)')
        BY <1>2, <2>1 DEF Pending
    <2> QED
        BY <1>2, <2>1, <2>2, MessageKept
<1>3. CASE Connects
    <2>1. UNCHANGED <<newest, handled>>
        BY <1>3, ConnectFrame DEF inVars, workVars
    <2>2. ASSUME NEW p \in Pipes
          PROVE  MessageInv(p)'
        BY <1>2, <1>3, <2>1, ConnectPipe
    <2> QED
        BY <2>2
<1>4. CASE Receives
    <2>1. handled' = handled
        BY <1>4, ReceiveFacts DEF workVars
    <2>2. CASE UNCHANGED <<pipe, newest>>
        BY <1>2, <2>1, <2>2
    <2>3. CASE \E p \in Pipes, m \in Ids : HasRoom(p) /\ Enqueue(p, m)
        <3>1. PICK p \in Pipes, m \in Ids : HasRoom(p) /\ Enqueue(p, m)
            BY <2>3
        <3>2. /\ \A q \in Pipes \ {p} : pipe'[q] = pipe[q] /\ newest'[q] = newest[q]
              /\ newest'[p] = m /\ m # 0
              /\ pipe'[p].queue # <<>> /\ pipe'[p].queue[Len(pipe'[p].queue)] = m
            BY <3>1, EnqueueFacts
        <3>3. MessageInv(p)'
            BY <3>2 DEF MessageInv
        <3>4. ASSUME NEW q \in Pipes \ {p}
              PROVE  MessageInv(q)'
            <4>1. PICK n : n = newest[q]
                OBVIOUS
            <4>2. newest'[q] = n /\ pipe'[q] = pipe[q] /\ MessageInv(q) /\ (Pending(q, n) => Pending(q, n)')
                BY <2>1, <3>2, <4>1 DEF Pending
            <4> QED
                BY <4>1, <4>2, MessageKept
        <3> QED
            BY <3>3, <3>4
    <2> QED
        BY <1>4, <2>2, <2>3, ReceiveFacts
<1>5. ASSUME NEW p \in Pipes, Process(p)
      PROVE  \A q \in Pipes : MessageInv(q)'
    <2>1. newest' = newest /\ handled' = handled /\ \A q \in Pipes \ {p} : pipe'[q] = pipe[q]
        BY <1>5, ProcessFacts DEF inVars, workVars
    <2>2. ASSUME NEW q \in Pipes \ {p}
          PROVE  MessageInv(q)'
        BY <1>2, <2>1
    <2>3. PICK m : m = newest[p]
        OBVIOUS
    <2>4. MessageInv(p) /\ newest'[p] = m
        BY <2>1, <2>3
    <2>5. ASSUME pipe[p].queue # <<>>, pipe'[p].queue = Tail(pipe[p].queue), pipe'[p].var = Head(pipe[p].queue),
                 pipe'[p].reader = "holding" \/ Script[Head(pipe[p].queue)] = "empty"
          PROVE  MessageInv(p)'
        <3>1. PICK q : q = pipe[p].queue
            OBVIOUS
        <3>2. /\ q \in Seq(Ids) /\ q # <<>> /\ Len(q) \in Nat
              /\ m # 0 /\ q[Len(q)] = m
            BY <1>1, <2>3, <2>4, <2>5, <3>1 DEF MessageInv
        <3>3. PICK t : t = Tail(q)
            OBVIOUS
        <3>4. /\ t \in Seq(Ids) /\ Len(t) = Len(q) - 1 /\ Len(q) > 0
              /\ \A i \in 1..(Len(q) - 1) : t[i] = q[i + 1]
              /\ Head(q) = q[1]
            BY <3>2, <3>3, HeadTailProperties
        <3>5. pipe'[p].queue = t /\ pipe'[p].var = Head(q)
            BY <2>5, <3>1, <3>3
        <3>6. CASE t = <<>>
            <4>1. Len(t) = 0
                BY <3>6
            <4>2. Len(q) = 1
                BY <3>2, <3>4, <4>1
            <4>3. Head(q) = m
                BY <3>2, <3>4, <4>2
            <4>4. Pending(p, m)'
                BY <2>5, <3>1, <4>3 DEF Pending
            <4> QED
                BY <2>4, <3>2, <3>5, <3>6, <4>3, <4>4 DEF MessageInv
        <3>7. CASE t # <<>>
            <4>1. Len(t) > 0
                BY <3>4, <3>7
            <4>2. t[Len(t)] = m
                BY <3>2, <3>4, <4>1
            <4> QED
                BY <2>4, <3>2, <3>5, <3>7, <4>2 DEF MessageInv
        <3> QED
            BY <3>6, <3>7
    <2>6. ASSUME pipe'[p].queue = pipe[p].queue, pipe'[p].var = pipe[p].var,
                 \/ pipe[p].reader = "idle" /\ pipe'[p].work = pipe[p].work
                 \/ pipe' = pipe
                 \/ \E w \in Workers :
                     /\ w \notin DOMAIN pipe[p].work
                     /\ pipe'[p].work = [v \in DOMAIN pipe[p].work \cup {w} |->
                                           IF v = w THEN 0 ELSE pipe[p].work[v]]
          PROVE  MessageInv(p)'
        <3>1. CASE pipe[p].reader = "idle" /\ pipe'[p].work = pipe[p].work
            <4>1. Pending(p, m) => Pending(p, m)'
                BY <2>1, <3>1 DEF Pending
            <4> QED
                BY <2>3, <2>4, <2>6, <4>1, MessageKept
        <3>2. CASE pipe' = pipe
            <4>1. Pending(p, m) => Pending(p, m)'
                BY <2>1, <3>2 DEF Pending
            <4> QED
                BY <2>3, <2>4, <2>6, <4>1, MessageKept
        <3>3. ASSUME NEW w \in Workers,
                     pipe'[p].work = [v \in DOMAIN pipe[p].work \cup {w} |-> IF v = w THEN 0 ELSE pipe[p].work[v]]
              PROVE  MessageInv(p)'
            <4>1. w \in DOMAIN pipe'[p].work /\ pipe'[p].work[w] = 0
                BY <3>3
            <4>2. Pending(p, m)'
                BY <4>1 DEF Pending
            <4> QED
                BY <2>3, <2>4, <2>6, <4>2, MessageKept
        <3> QED
            BY <2>6, <3>1, <3>2, <3>3
    <2> QED
        BY <1>5, <2>2, <2>5, <2>6, ProcessFacts
<1>6. ASSUME NEW p \in Pipes, NEW w \in Workers, Task(p, w)
      PROVE  \A q \in Pipes : MessageInv(q)'
    <2>1. /\ newest' = newest
          /\ \A q \in Pipes \ {p} : pipe'[q] = pipe[q]
          /\ pipe'[p].queue = pipe[p].queue /\ pipe'[p].var = pipe[p].var /\ pipe'[p].reader = pipe[p].reader
          /\ handled' \in [Ids -> Nat] /\ \A m \in Ids : handled'[m] >= handled[m]
          /\ \A v \in DOMAIN pipe[p].work \ {w} : v \in DOMAIN pipe'[p].work /\ pipe'[p].work[v] = pipe[p].work[v]
          /\ \/ pipe' = pipe
             \/ pipe[p].work[w] = 0 /\ w \in DOMAIN pipe'[p].work /\ pipe'[p].work[w] = pipe[p].var
             \/ pipe[p].work[w] \in Ids /\ handled'[pipe[p].work[w]] > 0
        BY <1>6, TaskFacts DEF inVars
    <2>2. ASSUME NEW q \in Pipes \ {p}
          PROVE  MessageInv(q)'
        <3>1. PICK m : m = newest[q]
            OBVIOUS
        <3>2. MessageInv(q) /\ newest'[q] = m /\ pipe'[q] = pipe[q] /\ (m # 0 => m \in Ids)
            BY <1>1, <2>1, <3>1
        <3>3. m # 0 /\ handled[m] > 0 => handled'[m] > 0
            BY <1>1, <2>1, <3>2
        <3>4. m # 0 /\ Pending(q, m) => Pending(q, m)'
            BY <3>2, <3>3 DEF Pending
        <3> QED
            BY <3>1, <3>2, <3>4, MessageKept
    <2>3. PICK m : m = newest[p]
        OBVIOUS
    <2>4. MessageInv(p) /\ newest'[p] = m /\ (m # 0 => m \in Ids)
        BY <1>1, <2>1, <2>3
    <2>5. m # 0 /\ handled[m] > 0 => handled'[m] > 0
        BY <1>1, <2>1, <2>4
    <2>6. ASSUME m # 0, pipe[p].var = m, Pending(p, m)
          PROVE  Pending(p, m)'
        <3>1. CASE pipe[p].reader = "holding" \/ handled[m] > 0 \/ Script[m] = "empty"
            BY <2>1, <2>5, <2>6, <3>1 DEF Pending
        <3>2. ASSUME NEW v \in DOMAIN pipe[p].work, pipe[p].work[v] \in {0, m}
              PROVE  Pending(p, m)'
            <4>1. CASE v # w \/ pipe' = pipe
                BY <2>1, <3>2, <4>1 DEF Pending
            <4>2. CASE v = w /\ pipe' # pipe
                BY <2>1, <2>6, <3>2, <4>2, <2>4 DEF Pending
            <4> QED
                BY <4>1, <4>2
        <3> QED
            BY <2>6, <3>1, <3>2 DEF Pending
    <2>7. MessageInv(p)'
        BY <2>1, <2>3, <2>4, <2>6, MessageKept
    <2> QED
        BY <2>2, <2>7
<1>7. CASE UNCHANGED <<pipe, newest, handled>>
    BY <1>2, <1>7
<1> QED
    BY <1>3, <1>4, <1>5, <1>6, <1>7

LEMMA SendStep ==
    ASSUME TypeOK, RetryInv, \A e \in Events : SendInv(e), Next \/ UNCHANGED vars
    PROVE  /\ \A e \in Events : SendInv(e)'
           /\ sends' \in [Events -> SendType] /\ notify' \in [Channels -> BOOLEAN]
           /\ outbox' \in Seq(Events \X Channels) /\ Len(outbox') <= ChannelSize
           /\ posted' \subseteq Events \X Channels
<1>1. /\ sends \in [Events -> SendType] /\ notify \in [Channels -> BOOLEAN]
      /\ outbox \in Seq(Events \X Channels) /\ Len(outbox) <= ChannelSize
      /\ posted \subseteq Events \X Channels
    BY DEF TypeOK
<1>2. ASSUME UNCHANGED <<platform, notify, sends, outbox, posted>>
      PROVE  \A e \in Events : SendInv(e)'
    <2>1. ASSUME NEW e \in Events
          PROVE  SendInv(e)'
        <3>1. SendInv(e) /\ \A ch \in Channels : Queued(e, ch)' <=> Queued(e, ch)
            BY <1>2 DEF Queued
        <3> QED
            BY <1>2, <3>1 DEF SendInv
    <2> QED
        BY <2>1
<1>3. CASE UNCHANGED <<platform, notify, sends, outbox, posted>>
    BY <1>1, <1>2, <1>3
<1>4. ASSUME NEW p \in Pipes, NEW w \in Workers, Task(p, w)
      PROVE  /\ UNCHANGED <<outbox, posted>>
             /\ sends' \in [Events -> SendType] /\ notify' \in [Channels -> BOOLEAN]
             /\ \A e \in Events : SendInv(e)'
    <2>1. /\ UNCHANGED <<platform, outbox, posted>>
          /\ UNCHANGED <<notify, sends>> \/ \E enabled \in BOOLEAN : SetNotificationsEnabled(enabled)
        BY <1>4, TaskFacts
    <2>2. CASE UNCHANGED <<notify, sends>>
        BY <1>1, <1>2, <2>1, <2>2
    <2>3. CASE \E enabled \in BOOLEAN : SetNotificationsEnabled(enabled)
        BY <2>1, <2>3, SwitchFacts
    <2> QED
        BY <2>1, <2>2, <2>3
<1>5. ASSUME NEW e \in Events, Sends(e)
      PROVE  /\ UNCHANGED notify
             /\ \A d \in Events : SendInv(d)'
             /\ sends' \in [Events -> SendType]
             /\ outbox' \in Seq(Events \X Channels) /\ Len(outbox') <= ChannelSize
             /\ posted' \subseteq Events \X Channels
    BY <1>5, SendFacts DEF workVars
<1>6. CASE ProcessAgentActivity
    BY <1>1, <1>6, ActivityFacts DEF workVars
<1>7. CASE Connects
    BY <1>3, <1>7, ConnectFrame DEF workVars, outVars
<1>8. CASE Receives
    BY <1>3, <1>8, ReceiveFacts DEF workVars, outVars
<1>9. CASE \E p \in Pipes : Process(p)
    BY <1>3, <1>9, ProcessFacts DEF workVars, outVars
<1>10. CASE Cancel \/ Crash \/ UNCHANGED vars
    BY <1>3, <1>10 DEF Cancel, Crash, vars, workVars, outVars
<1> QED
    BY <1>1, <1>4, <1>5, <1>6, <1>7, <1>8, <1>9, <1>10, NextCases

LEMMA TypeStep ==
    ASSUME IInv, Next \/ UNCHANGED vars
    PROVE  TypeOK'
<1> USE ScriptFacts
<1>1. /\ platform \in Platforms /\ cancelled \in BOOLEAN /\ crashed \in BOOLEAN
      /\ phase \in Phases
      /\ conn \in 0..MaxConnections /\ failuresNo \in 0..MaxRetries
      /\ failedOnce \in BOOLEAN /\ streak \in 0..(MaxRetries + 1)
      /\ received \in 0..MaxMessages /\ callbacks \subseteq Ids
      /\ pipe \in [Pipes -> PipeType] /\ (\A p \in Pipes : Len(pipe[p].queue) <= ChannelSize)
      /\ newest \in [Pipes -> 0..MaxMessages]
      /\ handled \in [Ids -> Nat] /\ switching \subseteq Pipes \X Workers
    BY DEF IInv, TypeOK
<1>2. TypeOK /\ RetryInv /\ \A e \in Events : SendInv(e)
    BY DEF IInv
<1>3. /\ sends' \in [Events -> SendType] /\ notify' \in [Channels -> BOOLEAN]
      /\ outbox' \in Seq(Events \X Channels) /\ Len(outbox') <= ChannelSize
      /\ posted' \subseteq Events \X Channels
    BY <1>2, SendStep
<1> DEFINE ConnType ==
        /\ phase \in Phases
        /\ conn \in 0..MaxConnections /\ failuresNo \in 0..MaxRetries
        /\ failedOnce \in BOOLEAN /\ streak \in 0..(MaxRetries + 1)
    PipesType == pipe \in [Pipes -> PipeType] /\ \A p \in Pipes : Len(pipe[p].queue) <= ChannelSize
    InType == received \in 0..MaxMessages /\ callbacks \subseteq Ids /\ newest \in [Pipes -> 0..MaxMessages]
    WorkersType == handled \in [Ids -> Nat] /\ switching \subseteq Pipes \X Workers
    SelfType == platform \in Platforms /\ cancelled \in BOOLEAN /\ crashed \in BOOLEAN
<1>4. ConnType /\ PipesType /\ InType /\ WorkersType /\ SelfType
    BY <1>1
<1>5. UNCHANGED connVars => ConnType'
    BY <1>4 DEF connVars
<1>6. UNCHANGED pipe => PipesType'
    BY <1>4
<1>7. UNCHANGED inVars => InType'
    BY <1>4 DEF inVars
<1>8. UNCHANGED <<handled, switching>> => WorkersType'
    BY <1>4
<1>9. platform' = platform /\ cancelled' \in BOOLEAN /\ crashed' \in BOOLEAN => SelfType'
    BY <1>4
<1>10. SelfType' /\ ConnType' /\ PipesType' /\ InType' /\ WorkersType' => TypeOK'
    BY <1>3 DEF TypeOK
<1>11. cancelled \in BOOLEAN /\ crashed \in BOOLEAN
    BY <1>4
<1>12. CASE Connects
    <2>1. ConnType'
        BY <1>2, <1>12, RetryStep
    <2>2. UNCHANGED <<platform, cancelled, crashed, inVars, workVars>>
        BY <1>12, ConnectFrame
    <2>3. PipesType'
        BY <1>2, <1>4, <1>12, ConnectPipe
    <2> HIDE DEF ConnType, PipesType, InType, WorkersType, SelfType
    <2> QED
        BY <1>7, <1>8, <1>9, <1>10, <1>11, <2>1, <2>2, <2>3 DEF workVars
<1>13. CASE Receives
    <2>1. /\ UNCHANGED <<platform, cancelled, connVars, workVars>>
          /\ received' \in 0..MaxMessages /\ callbacks' \subseteq Ids /\ crashed' \in BOOLEAN
          /\ \/ UNCHANGED <<pipe, newest>>
             \/ \E p \in Pipes, m \in Ids : HasRoom(p) /\ Enqueue(p, m)
        BY <1>2, <1>13, ReceiveFacts
    <2>2. PipesType' /\ newest' \in [Pipes -> 0..MaxMessages]
        <3>1. CASE UNCHANGED <<pipe, newest>>
            BY <1>4, <3>1
        <3>2. CASE \E p \in Pipes, m \in Ids : HasRoom(p) /\ Enqueue(p, m)
            BY <1>2, <3>2, EnqueueFacts
        <3> QED
            BY <2>1, <3>1, <3>2
    <2>3. InType'
        BY <2>1, <2>2
    <2> HIDE DEF ConnType, PipesType, InType, WorkersType, SelfType
    <2> QED
        BY <1>5, <1>8, <1>9, <1>10, <1>11, <2>1, <2>2, <2>3 DEF workVars
<1>14. ASSUME NEW p \in Pipes, Process(p)
       PROVE  TypeOK'
    <2>1. /\ UNCHANGED <<platform, cancelled, connVars, inVars, workVars>> /\ crashed' \in BOOLEAN
          /\ pipe' \in [Pipes -> PipeType]
          /\ \A q \in Pipes \ {p} : pipe'[q] = pipe[q]
          /\ Len(pipe'[p].queue) <= Len(pipe[p].queue)
        BY <1>2, <1>14, ProcessFacts
    <2>2. Len(pipe[p].queue) \in Nat /\ Len(pipe'[p].queue) \in Nat
        <3>1. pipe[p] \in PipeType /\ pipe'[p] \in PipeType
            BY <1>4, <2>1
        <3>2. pipe[p].queue \in Seq(Ids) /\ pipe'[p].queue \in Seq(Ids)
            BY <3>1 DEF PipeType
        <3> QED
            BY <3>2
    <2>3. Len(pipe'[p].queue) <= ChannelSize
        BY <1>4, <2>1, <2>2
    <2>4. PipesType'
        BY <1>4, <2>1, <2>3
    <2> HIDE DEF ConnType, PipesType, InType, WorkersType, SelfType
    <2> QED
        BY <1>5, <1>7, <1>8, <1>9, <1>10, <1>11, <2>1, <2>4 DEF workVars
<1>15. ASSUME NEW p \in Pipes, NEW w \in Workers, Task(p, w)
       PROVE  TypeOK'
    <2>1. /\ UNCHANGED <<platform, cancelled, crashed, connVars, inVars>>
          /\ pipe' \in [Pipes -> PipeType] /\ (\A q \in Pipes : pipe'[q].queue = pipe[q].queue)
          /\ handled' \in [Ids -> Nat] /\ switching' \subseteq Pipes \X Workers
        BY <1>2, <1>15, TaskFacts
    <2>2. PipesType' /\ WorkersType'
        BY <1>4, <2>1
    <2> HIDE DEF ConnType, PipesType, InType, WorkersType, SelfType
    <2> QED
        BY <1>5, <1>7, <1>9, <1>10, <1>11, <2>1, <2>2
<1>16. ASSUME NEW e \in Events, Sends(e)
       PROVE  TypeOK'
    <2>1. UNCHANGED <<platform, cancelled, crashed, connVars, inVars, pipe, workVars>>
        BY <1>2, <1>16, SendFacts
    <2> HIDE DEF ConnType, PipesType, InType, WorkersType, SelfType
    <2> QED
        BY <1>5, <1>6, <1>7, <1>8, <1>9, <1>10, <1>11, <2>1 DEF workVars
<1>17. CASE ProcessAgentActivity
    <2>1. UNCHANGED <<platform, cancelled, crashed, connVars, inVars, pipe, workVars>>
        BY <1>2, <1>17, ActivityFacts
    <2> HIDE DEF ConnType, PipesType, InType, WorkersType, SelfType
    <2> QED
        BY <1>5, <1>6, <1>7, <1>8, <1>9, <1>10, <1>11, <2>1 DEF workVars
<1>18. CASE Cancel \/ Crash \/ UNCHANGED vars
    <2>1. UNCHANGED <<platform, connVars, inVars, pipe, workVars>> /\ cancelled' \in BOOLEAN /\ crashed' \in BOOLEAN
        BY <1>11, <1>18 DEF Cancel, Crash, vars
    <2> HIDE DEF ConnType, PipesType, InType, WorkersType, SelfType
    <2> QED
        BY <1>5, <1>6, <1>7, <1>8, <1>9, <1>10, <2>1 DEF workVars
<1> QED
    BY <1>12, <1>13, <1>14, <1>15, <1>16, <1>17, <1>18, NextCases

LEMMA NextIInv == IInv /\ [Next]_vars => IInv'
<1> SUFFICES ASSUME IInv, Next \/ UNCHANGED vars PROVE IInv'
    OBVIOUS
<1>1. TypeOK /\ RetryInv /\ CountInv /\ (\A p \in Pipes : MessageInv(p)) /\ \A e \in Events : SendInv(e)
    BY DEF IInv
<1>2. TypeOK'
    BY TypeStep
<1>7. received' \in Nat
    <2>1. received' \in 0..MaxMessages
        BY <1>2 DEF TypeOK
    <2> QED
        BY <2>1
<1>8. CountInv'
    <2>1. CASE \/ Connects \/ Receives \/ \E p \in Pipes : Process(p)
               \/ \E p \in Pipes, w \in Workers : Task(p, w)
        BY <1>1, <1>7, <2>1, CountInvStep
    <2>2. CASE \/ \E e \in Events : Sends(e)
               \/ ProcessAgentActivity \/ Cancel \/ Crash \/ UNCHANGED vars
        <3>1. UNCHANGED <<pipe, received, callbacks, handled>>
            BY <1>1, <2>2, SendFacts, ActivityFacts DEF Cancel, Crash, vars, inVars, workVars
        <3> QED
            BY <1>1, <1>7, <3>1, CountInvStep
    <2> QED
        BY <2>1, <2>2, NextCases
<1>3. \A e \in Events : SendInv(e)'
    BY <1>1, SendStep
<1>4. ASSUME UNCHANGED <<platform, connVars>>
      PROVE  RetryInv'
    BY <1>1, <1>4 DEF RetryInv, connVars
<1>5. RetryInv'
    <2>1. CASE Connects
        BY <1>1, <2>1, RetryStep
    <2>2. CASE Receives
        BY <1>1, <1>4, <2>2, ReceiveFacts
    <2>3. CASE \E p \in Pipes : Process(p)
        BY <1>1, <1>4, <2>3, ProcessFacts
    <2>4. CASE \E p \in Pipes, w \in Workers : Task(p, w)
        BY <1>1, <1>4, <2>4, TaskFacts
    <2>5. CASE \E e \in Events : Sends(e)
        BY <1>1, <1>4, <2>5, SendFacts
    <2>6. CASE ProcessAgentActivity
        BY <1>1, <1>4, <2>6, ActivityFacts
    <2>7. CASE Cancel \/ Crash \/ UNCHANGED vars
        BY <1>4, <2>7 DEF Cancel, Crash, vars
    <2> QED
        BY <2>1, <2>2, <2>3, <2>4, <2>5, <2>6, <2>7, NextCases
<1>6. \A p \in Pipes : MessageInv(p)'
    <2>1. CASE \/ Connects \/ Receives \/ \E p \in Pipes : Process(p)
               \/ \E p \in Pipes, w \in Workers : Task(p, w)
        BY <1>1, <2>1, MessageStep
    <2>2. CASE \E e \in Events : Sends(e)
        <3>1. UNCHANGED <<pipe, newest, handled>>
            BY <1>1, <2>2, SendFacts DEF inVars, workVars
        <3> QED
            BY <1>1, <3>1, MessageStep
    <2>3. CASE ProcessAgentActivity
        <3>1. UNCHANGED <<pipe, newest, handled>>
            BY <1>1, <2>3, ActivityFacts DEF inVars, workVars
        <3> QED
            BY <1>1, <3>1, MessageStep
    <2>4. CASE Cancel \/ Crash \/ UNCHANGED vars
        <3>1. UNCHANGED <<pipe, newest, handled>>
            BY <2>4 DEF Cancel, Crash, vars, inVars, workVars
        <3> QED
            BY <1>1, <3>1, MessageStep
    <2> QED
        BY <2>1, <2>2, <2>3, <2>4, NextCases
<1> QED
    BY <1>2, <1>3, <1>5, <1>6, <1>8 DEF IInv

-----------------------------------------------------------------------------
(* The theorems                                                            *)

(* The inductive invariant holds in every reachable state of every bot.    *)
THEOREM IInvHolds == Spec => []IInv
<1>1. Init => IInv
    BY InitIInv
<1>2. IInv /\ [Next]_vars => IInv'
    BY NextIInv
<1> QED
    BY <1>1, <1>2, PTL DEF Spec

(* Every variable keeps its type: no channel holds more than its buffer,   *)
(* and the counters of withRetries stay in their range.                    *)
THEOREM TypeCorrect == Spec => []TypeOK
<1>1. IInv => TypeOK
    BY DEF IInv
<1> QED
    BY <1>1, IInvHolds, PTL

(* withRetries returns its error to the agent only after MaxRetries + 1    *)
(* failures with neither a connection nor a long run between them.         *)
THEOREM GivesUpAfterMaxRetriesHolds == Spec => []GivesUpAfterMaxRetries
<1>1. IInv => GivesUpAfterMaxRetries
    BY DEF IInv, RetryInv, GivesUpAfterMaxRetries
<1> QED
    BY <1>1, IInvHolds, PTL

(* The shared loop variable may make a worker handle a message twice, but  *)
(* every call of handleMessage is for a message that arrived.              *)
THEOREM NoMoreThanReceivedHolds == Spec => []NoMoreThanReceived
<1>1. IInv => NoMoreThanReceived
    <2> SUFFICES ASSUME IInv PROVE NoMoreThanReceived
        OBVIOUS
    <2>1. /\ Cardinality(callbacks) \in Nat /\ Cardinality(Waiting) \in Nat /\ Cardinality(Held) \in Nat
          /\ Cardinality(Given) \in Nat /\ Cardinality(Handlings) \in Nat
        BY FS_CardinalityType DEF IInv, CountInv
    <2>2. Cardinality(callbacks) + Cardinality(Waiting) + Cardinality(Held) + Cardinality(Given)
             + Cardinality(Handlings) <= received
        BY DEF IInv, CountInv
    <2>3. received \in Int
        BY DEF IInv, TypeOK
    <2> QED
        BY <2>1, <2>2, <2>3 DEF NoMoreThanReceived
<1> QED
    BY <1>1, IInvHolds, PTL

(* Although the function given to the pool reads the shared loop variable  *)
(* late, the message that came last is handled once everything is at rest. *)
THEOREM LastMessageHandledHolds == Spec => []LastMessageHandled
<1>1. IInv => LastMessageHandled
    <2> SUFFICES ASSUME IInv, NEW p \in Pipes, newest[p] # 0, AtRest(p), Script[newest[p]] # "empty"
                 PROVE  handled[newest[p]] > 0
        BY DEF LastMessageHandled
    <2>1. MessageInv(p)
        BY DEF IInv
    <2>2. pipe[p].queue = <<>> /\ pipe[p].reader # "holding" /\ DOMAIN pipe[p].work = {}
        BY WorkFacts DEF AtRest
    <2>3. Pending(p, newest[p])
        BY <2>1, <2>2 DEF MessageInv
    <2> QED
        BY <2>2, <2>3 DEF Pending
<1> QED
    BY <1>1, IInvHolds, PTL

(* getChannelsToNotify copies the names of enabled channels; whatever is   *)
(* switched meanwhile, only channels enabled during the call are written.  *)
THEOREM PostedOnlyIfEnabledHolds == Spec => []PostedOnlyIfEnabled
<1>1. IInv => PostedOnlyIfEnabled
    BY DEF IInv, SendInv, PostedOnlyIfEnabled
<1> QED
    BY <1>1, IInvHolds, PTL

(* SendMessage returns nil only if every channel bound to the source was   *)
(* written to or was disabled at some moment of the call.                  *)
THEOREM NilMeansPostedHolds == Spec => []NilMeansPosted
<1>1. IInv => NilMeansPosted
    BY DEF IInv, SendInv, NilMeansPosted
<1> QED
    BY <1>1, IInvHolds, PTL
=============================================================================
