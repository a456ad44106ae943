------------------------------ MODULE Delivery ------------------------------
(***************************************************************************)
(* The delivery of source events (internal/source/dispatcher.go), of       *)
(* requests to the incoming webhook (incoming_webhook.go) and of the       *)
(* automated actions they trigger (pkg/action/provider.go) to bots and     *)
(* sinks (pkg/sink), composed with the analytics that count each outcome.  *)
(* A stream is one plugin of one source, opened for interactive or for     *)
(* other platforms; its loop takes one event at a time.  Every             *)
(* notification is a goroutine of its own.                                 *)
(***************************************************************************)
EXTENDS Analytics, SequencesExt

CONSTANTS
    Streams,        \* the started source plugins
    Interactive,    \* those opened for the interactive platforms
    SourceOf,       \* the source of each stream
    Emits,          \* the events each stream emits, in order
    Requests,       \* requests to the incoming webhook
    RequestSource,  \* the source each request is for
    Bots, InteractiveBots,
    Sinks,
    Filtering,      \* sinks that look at their bindings: Elasticsearch and PagerDuty
    SinkSources,    \* the sources each sink is bound to
    Actions,        \* enabled actions
    ActionSources,  \* the sources each action is bound to
    BadTemplates,   \* <<action, event>>: the command cannot be rendered for the event
    Slow            \* notifiers whose calls may never return

AllEvents == UNION {ToSet(Emits[s]) : s \in Streams}

\* Each event and each request is one of its own, whatever it says.
ASSUME DeliveryAssumption ==
    /\ Interactive \subseteq Streams
    /\ Streams \cap Requests = {}
    /\ Emits \in [Streams -> Seq(AllEvents)]
    /\ \A s \in Streams : IsInjective(Emits[s])
    /\ AllEvents \cap Requests = {}
    /\ InteractiveBots \subseteq Bots /\ Filtering \subseteq Sinks
    /\ Bots \cap Sinks = {}
    /\ Slow \subseteq Bots \cup Sinks

VARIABLES
    left,           \* what each stream has yet to emit
    thread,         \* what the loop of each stream, or the handler of each request, does
    sending,        \* goroutines in SendMessage or SendEvent: <<stream, event, notifier>>
    posted,         \* notifications handed to the client of their platform
    results,        \* goroutines started for the result of an action
    visited,        \* per request, the streams it was dispatched to and those that failed
    answer,         \* the response to each request
    cancelled,      \* the context of the agent
    alive           \* FALSE after a concurrent map access

control == <<left, thread, results, visited, answer, cancelled>>
vars == <<control, sending, posted, alive, analytics>>

Threads == Streams \cup Requests
Idle == [at |-> "idle"]

FaultyNotifiers(stream) == (Bots \ InteractiveBots) \cup Sinks
\* getBotNotifiers and getSinkNotifiers.
Notifiers(stream) ==
    IF stream \in Interactive THEN InteractiveBots ELSE (Bots \ InteractiveBots) \cup Sinks

\* dispatchMsg up to the audit report.
DispatchMsg(t, stream, event) ==
    /\ thread' = [thread EXCEPT ![t] = [at |-> "audit", stream |-> stream, event |-> event]]
    /\ sending' = sending \cup {<<stream, event, n>> : n \in Notifiers(stream)}

Take(s) ==
    /\ thread[s].at = "idle" /\ left[s] # <<>>
    /\ left' = [left EXCEPT ![s] = Tail(@)]
    /\ DispatchMsg(s, s, Head(left[s]))
    /\ UNCHANGED <<posted, results, visited, answer, cancelled, alive, analytics>>

Stop(s) ==
    /\ cancelled /\ thread[s].at = "idle"
    /\ thread' = [thread EXCEPT ![s] = [at |-> "stopped"]]
    /\ UNCHANGED <<left, sending, posted, results, visited, answer, cancelled, alive, analytics>>

Bound(stream) == {a \in Actions : SourceOf[stream] \in ActionSources[a]}
\* RenderedActions returns the actions it could render and an error; dispatchMsg
\* executes none of them when there is an error.
RenderedActions(stream, event) ==
    IF \E a \in Bound(stream) : <<a, event>> \in BadTemplates THEN {} ELSE Bound(stream)

FaultyReportAudit(t) ==
    /\ thread[t].at = "audit"
    /\ \A n \in Notifiers(thread[t].stream) : <<thread[t].stream, thread[t].event, n>> \notin sending
    /\ thread' = [thread EXCEPT ![t] = [at |-> "actions", stream |-> @.stream, event |-> @.event,
                                        todo |-> RenderedActions(@.stream, @.event)]]
    /\ UNCHANGED <<left, sending, posted, results, visited, answer, cancelled, alive, analytics>>

\* The audit report is waited for, and its error logged.
ReportAudit(t) ==
    /\ thread[t].at = "audit"
    /\ thread' = [thread EXCEPT ![t] = [at |-> "actions", stream |-> @.stream, event |-> @.event,
                                        todo |-> RenderedActions(@.stream, @.event)]]
    /\ UNCHANGED <<left, sending, posted, results, visited, answer, cancelled, alive, analytics>>

ExecuteAction(t, a) ==
    /\ thread[t].at = "actions" /\ a \in thread[t].todo
    /\ thread' = [thread EXCEPT ![t].todo = @ \ {a}]
    /\ results' = results \cup {<<thread[t].stream, thread[t].event, a, n>> : n \in Notifiers(thread[t].stream)}
    /\ UNCHANGED <<left, sending, posted, visited, answer, cancelled, alive, analytics>>

Dispatched(t) ==
    /\ thread[t].at = "actions" /\ thread[t].todo = {}
    /\ thread' = [thread EXCEPT ![t] = Idle]
    /\ UNCHANGED <<left, sending, posted, results, visited, answer, cancelled, alive, analytics>>

-----------------------------------------------------------------------------
(* The incoming webhook.                                                   *)

StartedFor(r) == {s \in Streams : SourceOf[s] = RequestSource[r]}
Ahead(r) == StartedFor(r) \ (visited[r].ok \cup visited[r].failed)

\* DispatchExternalRequest: the plugin answers with an event, which is dispatched.
HandleExternalRequest(r, s) ==
    /\ answer[r] = "none" /\ thread[r].at = "idle" /\ s \in Ahead(r)
    /\ visited' = [visited EXCEPT ![r].ok = @ \cup {s}]
    /\ DispatchMsg(r, s, r)
    /\ UNCHANGED <<left, posted, results, answer, cancelled, alive, analytics>>

FaultyRequestFails(r, s) ==
    /\ answer[r] = "none" /\ thread[r].at = "idle" /\ s \in Ahead(r)
    /\ visited' = [visited EXCEPT ![r].failed = @ \cup {s}]
    /\ answer' = [answer EXCEPT ![r] = "error"]
    /\ UNCHANGED <<left, thread, sending, posted, results, cancelled, alive, analytics>>

\* GetSource or the call of the plugin fails; the others are still tried.
RequestFails(r, s) ==
    /\ answer[r] = "none" /\ thread[r].at = "idle" /\ s \in Ahead(r)
    /\ visited' = [visited EXCEPT ![r].failed = @ \cup {s}]
    /\ UNCHANGED <<left, thread, sending, posted, results, answer, cancelled, alive, analytics>>

Answer(r) ==
    /\ answer[r] = "none" /\ thread[r].at = "idle" /\ Ahead(r) = {}
    /\ answer' = [answer EXCEPT ![r] = IF StartedFor(r) = {} THEN "notFound"
                                       ELSE IF visited[r].failed = {} THEN "success" ELSE "error"]
    /\ UNCHANGED <<left, thread, sending, posted, results, visited, cancelled, alive, analytics>>

-----------------------------------------------------------------------------
(* Bots and sinks.                                                         *)

\* The webhook sink posts every event; the others return without an error when they
\* are not bound to the source.
Wanted(stream, n) == n \in Filtering => SourceOf[stream] \in SinkSources[n]

\* SendMessage or SendEvent returns, with or without an error, and is counted.
SendReturns(x) ==
    /\ x \in sending
    /\ sending' = sending \ {x}
    /\ posted' = IF Wanted(x[1], x[3]) THEN posted \cup {x} ELSE posted
    /\ AddSourceEvent(x)
    /\ UNCHANGED <<control, alive>>

\* The map of the batch is written while Marshal reads it: the process ends, and with
\* it what it had in memory.
MapFault ==
    /\ heartbeat.phase = "copied" /\ sending # {}
    /\ alive' = FALSE
    /\ left' = [s \in Streams |-> <<>>] /\ thread' = [t \in Threads |-> Idle]
    /\ sending' = {} /\ posted' = {} /\ results' = {}
    /\ visited' = [r \in Requests |-> [ok |-> {}, failed |-> {}]]
    /\ answer' = [r \in Requests |-> "none"]
    /\ sources' = <<>> /\ details' = 0 /\ count' = 0 /\ window' = 1 /\ reported' = <<>> /\ late' = {}
    /\ heartbeat' = NoHeartbeat
    /\ ticks' = 0
    /\ UNCHANGED cancelled

Cancel ==
    /\ ~cancelled /\ cancelled' = TRUE
    /\ UNCHANGED <<left, thread, sending, posted, results, visited, answer, alive, analytics>>

Run == \/ Tick(FALSE) \/ (cancelled /\ Tick(TRUE)) \/ AnalyticsStep
ReportAnalytics == Run /\ UNCHANGED <<control, sending, posted, alive>>

Init ==
    /\ left = Emits
    /\ thread = [t \in Threads |-> Idle]
    /\ sending = {} /\ posted = {} /\ results = {}
    /\ visited = [r \in Requests |-> [ok |-> {}, failed |-> {}]]
    /\ answer = [r \in Requests |-> "none"]
    /\ cancelled = FALSE /\ alive = TRUE
    /\ InitAnalytics

Proceed(t) == ReportAudit(t) \/ (\E a \in Actions : ExecuteAction(t, a)) \/ Dispatched(t)
Serve(r) == (\E s \in Streams : HandleExternalRequest(r, s) \/ RequestFails(r, s)) \/ Answer(r)

Next ==
    /\ alive
    /\ \/ \E s \in Streams : Take(s) \/ Stop(s)
       \/ \E t \in Threads : Proceed(t)
       \/ \E r \in Requests : Serve(r)
       \/ \E x \in sending : SendReturns(x)
       \/ MapFault \/ Cancel
       \/ ReportAnalytics

AllSends == {<<s, e, n>> : s \in Streams, e \in AllEvents \cup Requests, n \in Bots \cup Sinks}
\* Those that will be due, if no plugin fails.
Coming ==
    {x \in AllSends :
        /\ x[3] \in Notifiers(x[1])
        /\ IF x[2] \in Requests THEN x[1] \in StartedFor(x[2]) ELSE x[2] \in ToSet(Emits[x[1]])}

Fairness ==
    /\ \A s \in Streams : WF_vars(alive /\ Take(s))
    /\ \A t \in Threads : WF_vars(alive /\ Proceed(t))
    /\ \A r \in Requests : WF_vars(alive /\ Serve(r))
    /\ \A x \in Coming : x[3] \notin Slow => WF_vars(alive /\ SendReturns(x))

Spec == Init /\ [][Next]_vars /\ Fairness

-----------------------------------------------------------------------------

EventOf(x) == <<x[1], x[2]>>
\* The events dispatchMsg has been called with, for each stream.
Taken ==
    {x \in Streams \X (AllEvents \cup Requests) :
        IF x[2] \in Requests THEN x[1] \in visited[x[2]].ok
        ELSE x[2] \in ToSet(Emits[x[1]]) \ ToSet(left[x[1]])}

(* Every event a plugin hands over is sent to all notifiers of its kind of platform and
   to no other, and each of these sends is under way or counted by the analytics. *)
DispatchedIsAccounted ==
    alive => \A x \in AllSends :
          (x \in sending \/ x \in DOMAIN reported) <=>
          /\ EventOf(x) \in Taken
          /\ IF x[1] \in Interactive THEN x[3] \in InteractiveBots ELSE x[3] \notin InteractiveBots

(* A request is answered with success only if all plugins of its source have handled it,
   and with an error only after all of them were tried. *)
AnswerTellsAll ==
    \A r \in Requests :
        LET started == {s \in Streams : SourceOf[s] = RequestSource[r]}
        IN /\ answer[r] = "success" => visited[r].ok = started /\ started # {}
           /\ answer[r] = "error" => visited[r].ok \cup visited[r].failed = started

Refused(x) == IF x[2] \in Requests THEN x[1] \in visited[x[2]].failed ELSE FALSE

(* A notifier whose calls do not return keeps nothing from the others: what a stream
   emits, and what a request brings for it, reaches them, unless the agent is stopped,
   and every request is answered. *)
SlowNotifierIsolated ==
    /\ \A x \in Coming :
          x[3] \notin Slow => <>(x \in DOMAIN reported \/ Refused(x) \/ cancelled \/ ~alive)
    /\ \A r \in Requests : <>(answer[r] # "none" \/ ~alive)

(* values.yaml: "Notification sources configuration for the webhook".  A sink gets the
   events of the sources it is bound to. *)
SinkGetsBoundSources ==
    \A x \in posted : x[3] \in Sinks => SourceOf[x[1]] \in SinkSources[x[3]]
=============================================================================
