------------------------------ MODULE ChatBot ------------------------------
(***************************************************************************)
(* One chat bot of the agent (pkg/bot): the connection to its platform,    *)
(* the channel of received messages, the goroutine that hands them to a    *)
(* pool of workers, the workers that execute commands, and the channels of *)
(* the conversation platform that source messages are sent to.             *)
(*                                                                         *)
(* The five bots share this structure and differ in how they connect, lose *)
(* the connection and receive; `platform` is chosen in the initial state.  *)
(* The cloud bots make a new message channel and pool per connection, the  *)
(* others use one for all.  The text of messages is reduced to its kind.   *)
(***************************************************************************)
EXTENDS Integers, Sequences, FiniteSets, Functions

CONSTANTS
    Platforms,      \* the bots to consider, a subset of AllPlatforms
    Workers,        \* the worker goroutines a pool may have; 10 in the code
    ChannelSize,    \* buffer of the message channel; 100 in the code
    MaxRetries,     \* maxRetries; 30 in the code
    Channels,       \* the configured conversation channels
    Events,         \* source messages given to SendMessage, each at most once
    BoundTo,        \* the channels with a binding to the source of an event
    Room,           \* the channel in which users give the commands
    Script,         \* bound: the kinds of the messages users write, in order
    MaxConnections  \* bound: connections that are established

CloudPlatforms == {"cloudSlack", "cloudTeams"}
AllPlatforms == CloudPlatforms \cup {"socketSlack", "mattermost", "discord"}

\* "mute" and "unmute" are the commands that switch notifications, "chat" is a
\* message without mention, "trigger" one that matches a text trigger of Socket
\* Slack, "own" a message of the bot itself, "empty" a stream message without event.
Commands == {"command", "mute", "unmute"}
Kinds == Commands \cup {"chat", "trigger", "own", "empty"}

ASSUME ChatBotAssumption ==
    /\ Platforms \subseteq AllPlatforms
    /\ Workers # {}
    /\ ChannelSize \in Nat \ {0}
    /\ MaxRetries \in Nat \ {0}
    /\ BoundTo \in [Events -> SUBSET Channels]
    /\ Room \in Channels
    /\ Script \in Seq(Kinds)
    /\ MaxConnections \in Nat \ {0}

VARIABLES
    platform,   \* which bot this is
    phase,      \* where its Start is
    cancelled,  \* the agent's context is done
    conn,       \* connections established so far
    failuresNo, \* failuresNo of the cloud bots
    failedOnce, \* lastFailureTimestamp is set
    streak,     \* history: failures in a row, none of them after a long run
    received,   \* how many messages of Script arrived
    callbacks,  \* Discord: handler goroutines about to send to the channel
    pipe,       \* the message channel, its reader and its workers, by connection
    newest,     \* history: the message that entered a channel last
    handled,    \* history: how often a message was handled
    notify,     \* the switch of each channel, changed in place
    switching,  \* the workers <<p, w>> whose command holds notifyMutex
    sends,      \* the SendMessage calls; history: on and off, the states a switch had since
    outbox,     \* CloudTeams.agentActivityMessage
    posted,     \* history: events that reached a channel
    crashed     \* a panic or a fatal error of the Go runtime ended the agent

connVars == <<phase, conn, failuresNo, failedOnce, streak>>
inVars == <<received, callbacks, newest>>
workVars == <<handled, notify, switching>>
outVars == <<sends, outbox, posted>>
vars == <<platform, cancelled, connVars, inVars, pipe, workVars, outVars, crashed>>

MaxMessages == Len(Script)
Ids == 1..MaxMessages
Pipes == 1..MaxConnections

\* work is defined for the busy workers: the message they handle, or 0 for one
\* that has been given a function which has not read the variable msg yet.
Work == UNION {[W -> 0..MaxMessages] : W \in SUBSET Workers}
PipeType ==
    [queue : Seq(Ids), closed : BOOLEAN,
     reader : {"none", "idle", "holding", "done"}, var : 0..MaxMessages,
     pool : {"open", "closing", "reset"}, work : Work]
SendType ==
    [at : {"idle", "reading", "posting", "ok", "failed"}, todo : SUBSET Channels,
     failed : BOOLEAN, on : SUBSET Channels, off : SUBSET Channels]

\* "deaf": the bot goes on as if it were connected, but nothing receives any more.
\* "stopping" and "leaving": the deferred shutdown, of a Start that will return an
\* error to be retried or nil.
Phases ==
    {"connecting", "connected", "deaf", "stopping", "leaving", "failed", "gaveUp", "ended"}

TypeOK ==
    /\ platform \in Platforms
    /\ phase \in Phases
    /\ cancelled \in BOOLEAN
    /\ conn \in 0..MaxConnections
    /\ failuresNo \in 0..MaxRetries
    /\ failedOnce \in BOOLEAN
    /\ streak \in 0..(MaxRetries + 1)
    /\ received \in 0..MaxMessages
    /\ callbacks \subseteq Ids
    /\ pipe \in [Pipes -> PipeType]
    /\ \A p \in Pipes : Len(pipe[p].queue) <= ChannelSize
    /\ newest \in [Pipes -> 0..MaxMessages]
    /\ handled \in [Ids -> Nat]
    /\ notify \in [Channels -> BOOLEAN]
    /\ switching \subseteq Pipes \X Workers
    /\ sends \in [Events -> SendType]
    /\ outbox \in Seq(Events \X Channels) /\ Len(outbox) <= ChannelSize
    /\ posted \subseteq Events \X Channels
    /\ crashed \in BOOLEAN

NewPipe == [queue |-> <<>>, closed |-> FALSE, reader |-> "none", var |-> 0,
            pool |-> "open", work |-> <<>>]

Init ==
    /\ platform \in Platforms
    /\ phase = "connecting" /\ cancelled = FALSE
    /\ conn = 0 /\ failuresNo = 0 /\ failedOnce = FALSE /\ streak = 0
    /\ received = 0 /\ callbacks = {}
    /\ pipe = [p \in Pipes |-> NewPipe]
    /\ newest = [p \in Pipes |-> 0]
    /\ handled = [m \in Ids |-> 0]
    /\ notify = [ch \in Channels |-> TRUE]
    /\ switching = {}
    /\ sends = [e \in Events |-> [at |-> "idle", todo |-> {}, failed |-> FALSE, on |-> {}, off |-> {}]]
    /\ outbox = <<>> /\ posted = {}
    /\ crashed = FALSE

\* The pipe that received messages enter.
Cur == IF platform \in CloudPlatforms THEN conn ELSE 1

Self == <<platform, cancelled, crashed>>
OnlyConnection(kept) == UNCHANGED <<kept, Self, inVars, workVars, outVars>>
OnlyReceived(kept) == UNCHANGED <<kept, Self, connVars, workVars, outVars>>
OnlyPipe == UNCHANGED <<Self, connVars, inVars, workVars, outVars>>
OnlySends(kept) == UNCHANGED <<kept, Self, connVars, inVars, pipe, workVars>>

Crash == crashed' = TRUE /\ UNCHANGED <<platform, cancelled, connVars, inVars, pipe, workVars, outVars>>

-----------------------------------------------------------------------------
(* Connecting, losing the connection, retrying and shutting down.          *)

FaultyReset == streak' = 0 /\ UNCHANGED failuresNo
Reset == streak' = 0 /\ failuresNo' = 0

\* The stream is open: the processor of its messages is started.
Connected(p) ==
    /\ phase = "connecting" /\ conn < MaxConnections
    /\ phase' = "connected" /\ conn' = conn + 1
    /\ Reset
    /\ pipe' = [pipe EXCEPT ![p].reader = IF @ = "none" THEN "idle" ELSE @]
    /\ OnlyConnection(failedOnce)

CloudSlackStart == platform = "cloudSlack" /\ Connected(conn + 1)
CloudTeamsStart == platform = "cloudTeams" /\ Connected(conn + 1)
SocketSlackStart == platform = "socketSlack" /\ Connected(1)
DiscordStart == platform = "discord" /\ Connected(1)

NextStreak == IF streak <= MaxRetries THEN streak + 1 ELSE streak

\* An attempt fails before a message is received: the cloud bots go to the retry,
\* the others return the error, which ends the agent.
StartFails ==
    /\ phase = "connecting"
    /\ platform # "socketSlack"
    /\ phase' = IF platform \in CloudPlatforms THEN "failed" ELSE "ended"
    /\ streak' = NextStreak
    /\ OnlyConnection(<<conn, failuresNo, failedOnce, pipe>>)

FaultyStop(p, closes) ==
    pipe' = [pipe EXCEPT ![p].closed = closes, ![p].pool = "closing", ![p].queue = <<>>]

\* The deferred shutdown: messages is closed, and Wait closes the tasks of the pool.
Stop(p, closes) ==
    pipe' = [pipe EXCEPT ![p].closed = closes, ![p].pool = "closing"]

CloudSlackLoses ==
    /\ platform = "cloudSlack" /\ phase = "connected"
    /\ phase' = "stopping" /\ Stop(conn, TRUE)
    /\ streak' = NextStreak
    /\ OnlyConnection(<<conn, failuresNo, failedOnce>>)

\* cloudActivity is closed after an EOF and when the context is found done, not
\* after another error.
CloudTeamsLoses(closes) ==
    /\ platform = "cloudTeams" /\ phase = "connected"
    /\ phase' = "stopping" /\ Stop(conn, closes)
    /\ streak' = NextStreak
    /\ OnlyConnection(<<conn, failuresNo, failedOnce>>)

\* A stream that ends with the status of a cancelled context is taken for the own
\* shutdown: ProcessCloudActivity returns nil, so errgroup does not cancel its
\* context, and Wait stays for ProcessAgentActivity until the agent ends.
CloudTeamsTakenForShutdown ==
    /\ platform = "cloudTeams" /\ phase = "connected"
    /\ phase' = "deaf"
    /\ OnlyConnection(<<conn, failuresNo, failedOnce, streak, pipe>>)

\* slack-go connects again by itself ...
SocketSlackLoses ==
    /\ platform = "socketSlack" /\ phase = "connected"
    /\ phase' = "connecting"
    /\ OnlyConnection(<<conn, failuresNo, failedOnce, streak, pipe>>)

\* ... until RunContext returns an error, which is only reported: the loop of Start
\* waits for events that never come.
SocketSlackRunFails ==
    /\ platform = "socketSlack" /\ phase \in {"connecting", "connected"}
    /\ phase' = "deaf"
    /\ OnlyConnection(<<conn, failuresNo, failedOnce, streak, pipe>>)

FaultyWaitReturns == pipe[Cur].work = <<>> /\ pipe[Cur].reader = "done"
WaitReturns == pipe[Cur].work = <<>>

\* Wait returns when the workers have finished; the pool is ready for use again.
PoolStopped ==
    /\ phase \in {"stopping", "leaving"} /\ WaitReturns
    /\ pipe' = [pipe EXCEPT ![Cur].pool = "reset"]
    /\ phase' = IF phase = "stopping" THEN "failed" ELSE "ended"
    /\ OnlyConnection(<<conn, failuresNo, failedOnce, streak>>)

RetriesLeft == failuresNo < MaxRetries

GiveUp ==
    /\ phase = "failed" /\ ~RetriesLeft
    /\ phase' = "gaveUp"
    /\ OnlyConnection(<<conn, failuresNo, failedOnce, streak, pipe>>)

\* resettableBackoff; a run is long if the last failure is old enough.
Backoff(long) ==
    /\ phase = "failed" /\ RetriesLeft
    /\ ~cancelled
    /\ long => failedOnce
    /\ phase' = "connecting"
    /\ failuresNo' = IF long THEN 1 ELSE failuresNo + 1
    /\ streak' = IF long THEN 1 ELSE streak
    /\ failedOnce' = TRUE
    /\ OnlyConnection(<<conn, pipe>>)

CloudSlackRetry == platform = "cloudSlack" /\ (GiveUp \/ \E long \in BOOLEAN : Backoff(long))
CloudTeamsRetry == platform = "cloudTeams" /\ (GiveUp \/ \E long \in BOOLEAN : Backoff(long))

\* Start pings the server and opens a web socket; listen returns when the web
\* socket is closed, and another one is opened at once.
MattermostStart == platform = "mattermost" /\ Connected(1)
MattermostLoses ==
    /\ platform = "mattermost" /\ phase = "connected" /\ ~cancelled
    /\ phase' = "connecting"
    /\ OnlyConnection(<<conn, failuresNo, failedOnce, streak, pipe>>)

\* The agent ends: its context is cancelled ...
Cancel ==
    /\ ~cancelled /\ phase \notin {"gaveUp", "ended"}
    /\ cancelled' = TRUE
    /\ UNCHANGED <<platform, connVars, inVars, pipe, workVars, outVars, crashed>>

\* ... which the loops of Start and ProcessAgentActivity notice.  (The streams of the
\* cloud bots are lost.)
Notices ==
    \/ platform = "cloudTeams" /\ phase = "deaf"
    \/ platform \notin CloudPlatforms /\ phase = "connected"
    \/ platform = "mattermost" /\ phase = "connecting" /\ conn > 0
    \/ platform = "socketSlack" /\ phase \in {"connecting", "deaf"}
ShutdownRequested ==
    /\ cancelled
    /\ \/ phase = "failed" /\ RetriesLeft /\ phase' = "ended" /\ pipe' = pipe
       \/ Notices /\ phase' = "leaving" /\ Stop(Cur, platform # "cloudTeams")
    /\ OnlyConnection(<<conn, failuresNo, failedOnce, streak>>)

-----------------------------------------------------------------------------
(* Receiving.                                                              *)

NewId == received + 1
HasRoom(p) == Len(pipe[p].queue) < ChannelSize
Arrives(kind) ==
    /\ phase = "connected" /\ received < MaxMessages
    /\ kind = Script[NewId]
    /\ received' = NewId
Enqueue(p, m) ==
    /\ pipe' = [pipe EXCEPT ![p].queue = Append(@, m)]
    /\ newest' = [newest EXCEPT ![p] = m]
Discard == UNCHANGED <<pipe, newest>>

\* The receiving loop waits for room in the channel.
CloudSlackReceive(kind) ==
    /\ platform = "cloudSlack"
    /\ Arrives(kind) /\ HasRoom(conn) /\ Enqueue(conn, NewId)
    /\ OnlyReceived(callbacks)

\* It drops what the channel has no room for.
CloudTeamsReceive(kind) ==
    /\ platform = "cloudTeams"
    /\ Arrives(kind)
    /\ IF HasRoom(conn) THEN Enqueue(conn, NewId) ELSE Discard
    /\ OnlyReceived(callbacks)

\* Messages of bots are ignored here, those without mention passed on.
SocketSlackReceive(kind) ==
    /\ platform = "socketSlack"
    /\ Arrives(kind)
    /\ IF kind \in {"own", "empty"} THEN Discard ELSE HasRoom(1) /\ Enqueue(1, NewId)
    /\ OnlyReceived(callbacks)

MattermostListen(kind) ==
    /\ platform = "mattermost"
    /\ Arrives(kind)
    /\ IF kind = "empty" THEN Discard ELSE HasRoom(1) /\ Enqueue(1, NewId)
    /\ OnlyReceived(callbacks)

\* discordgo runs the registered handler for each message in a new goroutine.
DiscordEvent(kind) ==
    /\ platform = "discord"
    /\ Arrives(kind)
    /\ callbacks' = callbacks \cup {NewId}
    /\ OnlyReceived(<<newest, pipe>>)

DiscordHandler(m) ==
    /\ m \in callbacks
    /\ IF pipe[1].closed THEN Crash
       ELSE /\ HasRoom(1) /\ Enqueue(1, m)
            /\ callbacks' = callbacks \ {m}
            /\ OnlyReceived(received)

-----------------------------------------------------------------------------
(* The message processor and the workers.  Go 1.21 has one variable msg    *)
(* for the whole loop, which the function given to the pool reads when it  *)
(* runs.                                                                   *)

\* The loop variable gets the next message.
TakeMessage(p) ==
    /\ pipe[p].reader = "idle"
    /\ \/ /\ pipe[p].queue # <<>>
          /\ LET m == Head(pipe[p].queue)
                 skip == platform = "cloudTeams" /\ Script[m] = "empty"
             IN pipe' = [pipe EXCEPT ![p].queue = Tail(@), ![p].var = m,
                                     ![p].reader = IF skip THEN "idle" ELSE "holding"]
       \/ /\ pipe[p].queue = <<>> /\ pipe[p].closed
          /\ pipe' = [pipe EXCEPT ![p].reader = "done"]
    /\ OnlyPipe

\* Pool.Go: an idle or a new worker accepts the function.  Between the call of
\* Wait and its return the channel of tasks is closed: sending to it panics.
HandOver(p) ==
    /\ pipe[p].reader = "holding"
    /\ IF pipe[p].pool = "closing" THEN Crash
       ELSE LET idle == Workers \ DOMAIN pipe[p].work
                w == CHOOSE v \in idle : TRUE
            IN /\ idle # {}
               /\ pipe' = [pipe EXCEPT ![p].reader = "idle",
                                       ![p].work = [v \in DOMAIN @ \cup {w} |-> IF v = w THEN 0 ELSE @[v]]]
               /\ OnlyPipe

\* The function runs and reads msg.
BeginTask(p, w) ==
    /\ w \in DOMAIN pipe[p].work /\ pipe[p].work[w] = 0
    /\ pipe' = [pipe EXCEPT ![p].work[w] = pipe[p].var]
    /\ OnlyPipe

\* Which messages handleMessage takes for a command.
CloudSlackExecutes(kind) == kind \in Commands
CloudTeamsExecutes(kind) == kind # "empty"
SocketSlackExecutes(kind) == kind \in Commands \cup {"trigger"}
MattermostExecutes(kind) == kind \in Commands
DiscordExecutes(kind) == kind \in Commands
Executes(kind) ==
    \/ platform = "cloudSlack" /\ CloudSlackExecutes(kind)
    \/ platform = "cloudTeams" /\ CloudTeamsExecutes(kind)
    \/ platform = "socketSlack" /\ SocketSlackExecutes(kind)
    \/ platform = "mattermost" /\ MattermostExecutes(kind)
    \/ platform = "discord" /\ DiscordExecutes(kind)

\* A busy worker that has read msg, and the message it handles.
Busy(p, w) == w \in DOMAIN pipe[p].work /\ pipe[p].work[w] # 0
Message(p, w) == pipe[p].work[w]
Switches(m) == Script[m] \in {"mute", "unmute"}

\* A command that changes the switch holds notifyMutex while it writes the map.
LockSwitch(p, w) ==
    /\ Busy(p, w) /\ Switches(Message(p, w)) /\ Executes(Script[Message(p, w)])
    /\ switching = {}
    /\ switching' = {<<p, w>>}
    /\ UNCHANGED <<platform, cancelled, connVars, inVars, pipe, handled, notify, outVars, crashed>>

SetNotificationsEnabled(enabled) ==
    /\ notify' = [notify EXCEPT ![Room] = enabled]
    /\ sends' = [e \in Events |-> [sends[e] EXCEPT !.on = @ \cup {ch \in {Room} : enabled},
                                                   !.off = @ \cup {ch \in {Room} : ~enabled}]]

FaultyRelease(p, w) == UNCHANGED pipe
Release(p, w) == pipe' = [pipe EXCEPT ![p].work = Restrict(@, DOMAIN @ \ {w})]

\* The message is handled.  A command to switch notifications was executed, unless
\* the Slack bots could not look up the conversation.
FinishTask(p, w) ==
    /\ Busy(p, w)
    /\ LET m == Message(p, w)
       IN /\ handled' = [handled EXCEPT ![m] = @ + 1]
          /\ IF <<p, w>> \in switching THEN SetNotificationsEnabled(Script[m] = "unmute")
             ELSE /\ Switches(m) => platform \in {"cloudSlack", "socketSlack"}
                  /\ UNCHANGED <<notify, sends>>
    /\ switching' = switching \ {<<p, w>>}
    /\ Release(p, w)
    /\ UNCHANGED <<platform, cancelled, connVars, inVars, outbox, posted, crashed>>

-----------------------------------------------------------------------------
(* Source messages.                                                        *)

FaultyToNotify(e) == BoundTo[e]
ToNotify(e) == {ch \in Channels : notify[ch] /\ ch \in BoundTo[e]}

\* getChannelsToNotify iterates the shared map of channels ...
SendMessage(e) ==
    /\ sends[e].at = "idle" /\ phase \notin {"gaveUp", "ended"}
    /\ sends' = [sends EXCEPT ![e].at = "reading", ![e].on = {ch \in Channels : notify[ch]},
                                ![e].off = {ch \in Channels : ~notify[ch]}]
    /\ OnlySends(<<outbox, posted>>)

\* ... and returns a copy.
GetChannelsToNotify(e) ==
    /\ sends[e].at = "reading"
    /\ sends' = [sends EXCEPT ![e].at = "posting", ![e].todo = ToNotify(e)]
    /\ OnlySends(<<outbox, posted>>)

FaultyReportsError == platform = "cloudSlack"
ReportsError == platform # "mattermost"

\* send: the request to the platform succeeds or fails; Mattermost's logs the
\* error and returns nil.
Send(e, ch) ==
    /\ sends[e].at = "posting" /\ ch \in sends[e].todo
    /\ platform # "cloudTeams"
    /\ \/ /\ posted' = posted \cup {<<e, ch>>}
          /\ sends' = [sends EXCEPT ![e].todo = @ \ {ch}]
       \/ /\ sends' = [sends EXCEPT ![e].todo = @ \ {ch},
                                    ![e].failed = @ \/ ReportsError]
          /\ UNCHANGED posted
    /\ OnlySends(outbox)

\* CloudTeams puts the message into a channel that outlives the connection, or
\* ends the call when the context is done.
SendAgentActivity(e, ch) ==
    /\ sends[e].at = "posting" /\ ch \in sends[e].todo
    /\ platform = "cloudTeams"
    /\ \/ /\ Len(outbox) < ChannelSize
          /\ outbox' = Append(outbox, <<e, ch>>)
          /\ sends' = [sends EXCEPT ![e].todo = @ \ {ch}]
       \/ /\ cancelled
          /\ sends' = [sends EXCEPT ![e].todo = {}, ![e].failed = TRUE]
          /\ UNCHANGED outbox
    /\ OnlySends(posted)

SendReturns(e) ==
    /\ sends[e].at = "posting" /\ sends[e].todo = {}
    /\ sends' = [sends EXCEPT ![e].at = IF sends[e].failed THEN "failed" ELSE "ok"]
    /\ OnlySends(<<outbox, posted>>)

FaultyDrains == platform = "cloudTeams" /\ phase = "connected" /\ conn = 1
Drains == platform = "cloudTeams" /\ phase \in {"connected", "deaf"}

\* A message is taken from the channel; Send of the stream fails if it is broken.
ProcessAgentActivity ==
    /\ Drains /\ outbox # <<>>
    /\ outbox' = Tail(outbox)
    /\ \/ phase = "connected" /\ posted' = posted \cup {Head(outbox)}
       \/ UNCHANGED posted
    /\ OnlySends(sends)

\* Go ends the program when it sees a map read or written during a write: the names
\* of users, which workers store, and the channels.
MapFault ==
    /\ \/ /\ platform \in {"cloudSlack", "mattermost"}
          /\ \E p, q \in Pipes, v, w \in Workers : <<p, v>> # <<q, w>> /\ Busy(p, v) /\ Busy(q, w)
       \/ /\ switching # {}
          /\ \/ \E e \in Events : sends[e].at = "reading"
             \/ \E p \in Pipes, w \in Workers : <<p, w>> \notin switching /\ Busy(p, w)
    /\ Crash

-----------------------------------------------------------------------------

Start ==
    \/ CloudSlackStart \/ CloudTeamsStart \/ SocketSlackStart
    \/ MattermostStart \/ DiscordStart \/ StartFails
Stopping == PoolStopped \/ ShutdownRequested
Retry == CloudSlackRetry \/ CloudTeamsRetry
Lose ==
    \/ CloudSlackLoses \/ MattermostLoses \/ CloudTeamsTakenForShutdown
    \/ SocketSlackLoses \/ SocketSlackRunFails
    \/ \E closes \in BOOLEAN : CloudTeamsLoses(closes)
Receive(kind) ==
    \/ CloudSlackReceive(kind) \/ CloudTeamsReceive(kind) \/ SocketSlackReceive(kind)
    \/ MattermostListen(kind) \/ DiscordEvent(kind)
Process(p) == TakeMessage(p) \/ HandOver(p)
Task(p, w) == BeginTask(p, w) \/ LockSwitch(p, w) \/ FinishTask(p, w)
Sending(e) ==
    \/ GetChannelsToNotify(e) \/ SendReturns(e)
    \/ \E ch \in Channels : Send(e, ch) \/ SendAgentActivity(e, ch)

\* What the agent does by itself, and the platforms that answer it.
Progress ==
    \/ Start \/ Stopping \/ Retry \/ ProcessAgentActivity
    \/ \E p \in Pipes : Process(p) \/ \E w \in Workers : Task(p, w)
    \/ \E e \in Events : Sending(e)

Next ==
    /\ ~crashed
    /\ \/ Progress \/ Lose \/ Cancel \/ MapFault
       \/ \E kind \in Kinds : Receive(kind)
       \/ \E m \in callbacks : DiscordHandler(m)
       \/ \E e \in Events : SendMessage(e)

\* The Go scheduler runs some goroutine that can run, commands end, and a request
\* to a platform is answered or fails.
Fairness == WF_vars(~crashed /\ Progress)

Spec == Init /\ [][Next]_vars /\ Fairness

-----------------------------------------------------------------------------
(* Properties                                                              *)

\* A cloud bot gives up only after MaxRetries + 1 failures in a row: a connection
\* and a run of some length start the count again (withRetries).
GivesUpAfterMaxRetries == phase = "gaveUp" => streak = MaxRetries + 1

\* The loop variable may have been overwritten when a worker reads it, so that a
\* message is handled twice and another never; but there are never more calls of
\* handleMessage than messages received ...  Handlings are these calls, numbered by
\* message.
Handlings == UNION {{m} \X (1..handled[m]) : m \in Ids}
NoMoreThanReceived == Cardinality(Handlings) <= received

\* ... and once the processor and the workers of a connection are at rest, the
\* message that came last was handled.
AtRest(p) ==
    pipe[p].queue = <<>> /\ pipe[p].work = <<>> /\ pipe[p].reader \in {"idle", "done"}
LastMessageHandled ==
    \A p \in Pipes : newest[p] # 0 /\ AtRest(p) /\ Script[newest[p]] # "empty" => handled[newest[p]] > 0

\* A source message reaches only channels whose notifications were enabled at some
\* moment of the call: after "disable notifications" was answered, no later call
\* writes to the channel.
PostedOnlyIfEnabled == \A e \in Events, ch \in Channels : <<e, ch>> \in posted => ch \in sends[e].on

\* When SendMessage returns nil, no enabled and bound channel was left out.  For
\* Mattermost it says nothing (see send), for CloudTeams it means queued.
NilMeansPosted ==
    \A e \in Events : sends[e].at = "ok" /\ platform \notin {"mattermost", "cloudTeams"}
        => \A ch \in BoundTo[e] : <<e, ch>> \in posted \/ ch \in sends[e].off

\* A connection whose loss was noticed is tried again, and a Start that was asked to end
\* returns, whatever the workers were doing, unless the bot gives up or crashed.
KnownLossIsRetried ==
    phase \in {"stopping", "leaving"} ~> phase \in {"connecting", "gaveUp", "ended"} \/ crashed

\* While the bot is connected a call of SendMessage does not stay blocked.
SendMessageReturns ==
    \A e \in Events : sends[e].at = "posting" /\ phase = "connected"
        ~> sends[e].at \in {"ok", "failed"} \/ phase # "connected" \/ crashed

\* What the cloud bots promise of their retries, which only the end of the agent stops
\* (retry.Attempts(0) in withRetries): every lost connection is tried again.
LossIsRetried ==
    phase \in {"stopping", "deaf"} ~> phase \in {"connecting", "gaveUp", "ended"} \/ cancelled \/ crashed

\* What the bots promise: a received command is executed once.
CommandRunsOnce == \A m \in Ids : Script[m] \in Commands => handled[m] <= 1
=============================================================================
