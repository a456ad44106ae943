----------------------------- MODULE Analytics -----------------------------
(***************************************************************************)
(* The heartbeat of the analytics reporter                                 *)
(* (internal/analytics/segment_reporter.go) and the batch it reads         *)
(* (internal/analytics/batched/data.go).  HeartbeatProperties copies the   *)
(* counters of the batch but shares its map of sources, which is read when *)
(* the copy is marshalled, without the lock.  A report is one outcome of   *)
(* one notification.                                                       *)
(***************************************************************************)
EXTENDS Integers, FiniteSets, Sequences

CONSTANTS
    MaxDetails,     \* maxEventDetailsCount
    MaxTicks        \* bound: ticks of the heartbeat

ASSUME AnalyticsAssumption == MaxDetails \in Nat /\ MaxTicks \in Nat

VARIABLES
    sources,        \* the map of the batch: the reports in it, and the hour each was added
    details,        \* how many of them are there with their details
    count,          \* EventsCount
    window,         \* TimeWindowInHours
    heartbeat,      \* the heartbeat Run is working on
    ticks,          \* hours passed
    reported,       \* how many heartbeats the client has taken contain the report
    late            \* reports added after a heartbeat was marshalled that is then reset

batch == <<sources, details, count, window>>
analytics == <<sources, details, count, window, heartbeat, ticks, reported, late>>

NoHeartbeat == [phase |-> "idle"]

InitAnalytics ==
    /\ sources = <<>> /\ details = 0 /\ count = 0 /\ window = 1
    /\ heartbeat = NoHeartbeat /\ ticks = 0
    /\ reported = <<>> /\ late = {}

WithDetails(n) == n <= MaxDetails
With(f, x, v) == [y \in DOMAIN f \cup {x} |-> IF y = x THEN v ELSE f[y]]

\* ReportHandledEventSuccess and ReportHandledEventError.
AddSourceEvent(report) ==
    /\ count' = count + 1
    /\ sources' = With(sources, report, ticks)
    /\ details' = IF WithDetails(count') THEN details + 1 ELSE details
    /\ reported' = With(reported, report, 0)
    /\ late' = IF heartbeat.phase \in {"idle", "copied"} THEN late ELSE late \cup {report}
    /\ UNCHANGED <<window, heartbeat, ticks>>

\* Run's select: the ticker, or the end of the context, after which Run returns.
Tick(stopping) ==
    /\ heartbeat.phase = "idle"
    /\ stopping \/ ticks < MaxTicks
    /\ ticks' = IF stopping THEN ticks ELSE ticks + 1
    /\ heartbeat' = [phase |-> "copied", last |-> stopping, count |-> count, window |-> window]
    /\ UNCHANGED <<batch, reported, late>>

Marshal ==
    /\ heartbeat.phase = "copied"
    /\ heartbeat' = [phase |-> "marshalled", last |-> heartbeat.last, count |-> heartbeat.count,
                     window |-> heartbeat.window, details |-> details, sources |-> sources]
    /\ UNCHANGED <<batch, ticks, reported, late>>

EnqueueFails ==
    /\ heartbeat.phase = "marshalled"
    /\ heartbeat' = [phase |-> IF heartbeat.last THEN "done" ELSE "failed"]
    /\ UNCHANGED <<batch, ticks, reported, late>>

FaultyIncrementTimeWindow ==
    /\ heartbeat.phase = "failed" /\ heartbeat' = NoHeartbeat
    /\ late' = late \ DOMAIN sources
    /\ UNCHANGED <<batch, ticks, reported>>

IncrementTimeWindow ==
    /\ heartbeat.phase = "failed" /\ heartbeat' = NoHeartbeat
    /\ window' = window + 1
    /\ late' = late \ DOMAIN sources
    /\ UNCHANGED <<sources, details, count, ticks, reported>>

Enqueue ==
    /\ heartbeat.phase = "marshalled"
    /\ heartbeat' = [phase |-> IF heartbeat.last THEN "done" ELSE "enqueued"]
    /\ reported' = [r \in DOMAIN reported |-> reported[r] + IF r \in DOMAIN heartbeat.sources THEN 1 ELSE 0]
    /\ UNCHANGED <<batch, ticks, late>>

Reset ==
    /\ heartbeat.phase = "enqueued" /\ heartbeat' = NoHeartbeat
    /\ sources' = <<>> /\ details' = 0 /\ count' = 0 /\ window' = 1
    /\ UNCHANGED <<ticks, reported, late>>

AnalyticsStep == Marshal \/ EnqueueFails \/ IncrementTimeWindow \/ Enqueue \/ Reset

(* A report is in at most one heartbeat; one that was not added while a heartbeat was
   being sent is in the batch or was reported; the window a heartbeat claims reaches
   back to all it contains; and its details are limited, as the request is. *)
HeartbeatAccounts ==
    /\ \A report \in DOMAIN reported :
          /\ reported[report] <= 1
          /\ report \notin late => report \in DOMAIN sources \/ reported[report] = 1
    /\ heartbeat.phase = "marshalled" =>
          /\ heartbeat.details <= MaxDetails
          /\ heartbeat.count <= Cardinality(DOMAIN heartbeat.sources)
          /\ \A r \in DOMAIN heartbeat.sources : heartbeat.sources[r] + heartbeat.window >= ticks
=============================================================================
