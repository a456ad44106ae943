-------------------------- MODULE Delivery_proofs --------------------------
(***************************************************************************)
(* Proofs about Delivery and the Analytics it is composed with, for every  *)
(* number of streams, notifiers, actions and requests, whatever they emit  *)
(* and are bound to, and every limit of the batch.                         *)
(***************************************************************************)
EXTENDS Delivery, FiniteSetTheorems, SequenceTheorems, TLAPS

(* What a stream has yet to emit are distinct events of its own.           *)
LeftInv ==
    /\ left \in [Streams -> Seq(AllEvents)]
    /\ \A s \in Streams : IsInjective(left[s]) /\ ToSet(left[s]) \subseteq ToSet(Emits[s])

(* A send is under way or counted, never both, and once an event was taken *)
(* there is one for each notifier of the stream and for no other.          *)
SendInv ==
    /\ sending \subseteq AllSends /\ DOMAIN reported \subseteq AllSends
    /\ sending \cap DOMAIN reported = {}
    /\ \A x \in AllSends :
          (x \in sending \/ x \in DOMAIN reported) <=> EventOf(x) \in Taken /\ x[3] \in Notifiers(x[1])

(* The batch counts what it holds, limits the details, and its window      *)
(* reaches back to the hour of its oldest report, in an hour from now too  *)
(* while the heartbeat waits for its tick.                                 *)
BatchInv ==
    /\ IsFiniteSet(DOMAIN sources) /\ count = Cardinality(DOMAIN sources)
    /\ details \in Nat /\ details <= count /\ details <= MaxDetails
    /\ window \in Nat \ {0} /\ ticks \in Nat
    /\ \A x \in DOMAIN sources :
          /\ sources[x] \in Nat
          /\ sources[x] + window >= ticks + (IF heartbeat.phase = "idle" THEN 1 ELSE 0)

(* What the present heartbeat has copied.                                  *)
HeartbeatInv ==
    /\ heartbeat.phase \in {"idle", "copied", "marshalled", "failed", "enqueued", "done"}
    /\ heartbeat.phase = "copied" =>
          heartbeat.count \in Nat /\ heartbeat.count <= count /\ heartbeat.window = window
    /\ heartbeat.phase = "marshalled" =>
          /\ heartbeat.details <= MaxDetails
          /\ heartbeat.count <= Cardinality(DOMAIN heartbeat.sources)
          /\ DOMAIN heartbeat.sources \subseteq DOMAIN sources
          /\ \A x \in DOMAIN heartbeat.sources : heartbeat.sources[x] + heartbeat.window >= ticks

(* A report that is not late is in the batch or in one heartbeat; what is  *)
(* in the batch when the heartbeat is taken, and not in it, is late.       *)
ReportInv ==
    /\ DOMAIN sources \subseteq DOMAIN reported
    /\ \A x \in DOMAIN reported :
          /\ reported[x] \in {0, 1}
          /\ x \notin late => x \in DOMAIN sources \/ reported[x] = 1
    /\ heartbeat.phase \in {"idle", "copied", "marshalled", "failed"} =>
          \A x \in DOMAIN sources : reported[x] = 0
    /\ heartbeat.phase = "marshalled" =>
          \A x \in DOMAIN sources : x \in late \/ x \in DOMAIN heartbeat.sources
    /\ heartbeat.phase = "enqueued" =>
          \A x \in DOMAIN sources : x \in late \/ reported[x] = 1

(* A request is answered when every plugin of its source was tried.        *)
AnswerInv ==
    \A r \in Requests :
        /\ visited[r].ok \subseteq StartedFor(r) /\ visited[r].failed \subseteq StartedFor(r)
        /\ answer[r] = "success" => visited[r].ok = StartedFor(r) /\ StartedFor(r) # {}
        /\ answer[r] = "error" => visited[r].ok \cup visited[r].failed = StartedFor(r)

RequestType ==
    /\ visited \in [Requests -> [ok : SUBSET Streams, failed : SUBSET Streams]]
    /\ answer \in [Requests -> {"none", "success", "error", "notFound"}]

(* A fault of the batch ends the process and with it all it knew.          *)
Ended ==
    /\ ~alive
    /\ reported = <<>> /\ heartbeat = NoHeartbeat
    /\ answer = [r \in Requests |-> "none"]

IInv ==
    \/ Ended
    \/ LeftInv /\ SendInv /\ BatchInv /\ HeartbeatInv /\ ReportInv /\ RequestType /\ AnswerInv

-----------------------------------------------------------------------------
(* The operators of the model                                              *)

LEMMA TakeFirst ==
    ASSUME NEW S, NEW q \in Seq(S), IsInjective(q), q # <<>>
    PROVE  /\ Head(q) \in ToSet(q) /\ Tail(q) \in Seq(S) /\ IsInjective(Tail(q))
           /\ Head(q) \notin ToSet(Tail(q))
           /\ \A e : e \in ToSet(q) <=> e = Head(q) \/ e \in ToSet(Tail(q))
<1>1. PICK t : t = Tail(q)
    OBVIOUS
<1>2. /\ t \in Seq(S) /\ Len(q) \in Nat /\ Len(q) > 0 /\ Len(t) = Len(q) - 1
      /\ DOMAIN q = 1..Len(q) /\ DOMAIN t = 1..(Len(q) - 1)
      /\ \A i \in 1..(Len(q) - 1) : t[i] = q[i + 1]
      /\ Head(q) = q[1] /\ 1 \in DOMAIN q
    BY <1>1, HeadTailProperties
<1>3. \A i \in DOMAIN t : i + 1 \in DOMAIN q /\ t[i] = q[i + 1] /\ i + 1 # 1 /\ i \in Int
    BY <1>2
<1>4. \A i \in DOMAIN q : i = 1 \/ (i - 1 \in DOMAIN t /\ t[i - 1] = q[i])
    BY <1>2
<1>5. IsInjective(t)
    <2> SUFFICES ASSUME NEW i \in DOMAIN t, NEW j \in DOMAIN t, t[i] = t[j] PROVE i = j
        BY DEF IsInjective
    <2>1. i + 1 = j + 1
        BY <1>3 DEF IsInjective
    <2> QED
        BY <1>3, <2>1
<1>6. Head(q) \notin ToSet(t)
    BY <1>2, <1>3 DEF IsInjective, ToSet
<1>7. ASSUME NEW e
      PROVE  e \in ToSet(q) <=> e = Head(q) \/ e \in ToSet(t)
    <2>1. ASSUME NEW i \in DOMAIN q, e = q[i]
          PROVE  e = Head(q) \/ e \in ToSet(t)
        BY <1>2, <1>4, <2>1 DEF ToSet
    <2>2. ASSUME NEW i \in DOMAIN t, e = t[i]
          PROVE  e \in ToSet(q)
        BY <1>3, <2>2 DEF ToSet
    <2> QED
        BY <1>2, <2>1, <2>2 DEF ToSet
<1>8. Head(q) \in ToSet(q)
    BY <1>2 DEF ToSet
<1> QED
    BY <1>1, <1>2, <1>5, <1>6, <1>7, <1>8

LEMMA SendsFacts ==
    /\ \A s \in Streams : ToSet(Emits[s]) \subseteq AllEvents
    /\ \A s \in Streams : Notifiers(s) \subseteq Bots \cup Sinks
    /\ \A s, e, n : <<s, e, n>> \in AllSends <=> s \in Streams /\ e \in AllEvents \cup Requests /\ n \in Bots \cup Sinks
    /\ \A x \in AllSends : \E s \in Streams, e \in AllEvents \cup Requests, n \in Bots \cup Sinks : x = <<s, e, n>>
    /\ \A x \in AllSends : x = <<x[1], x[2], x[3]>> /\ x[1] \in Streams /\ x[2] \in AllEvents \cup Requests
<1>1. \A s \in Streams : Notifiers(s) \subseteq Bots \cup Sinks
    BY DeliveryAssumption DEF Notifiers
<1>2. \A x \in AllSends : \E s \in Streams, e \in AllEvents \cup Requests, n \in Bots \cup Sinks : x = <<s, e, n>>
    BY DEF AllSends
<1>3. \A s \in Streams : ToSet(Emits[s]) \subseteq AllEvents
    BY DEF AllEvents
<1>4. \A s, e, n : <<s, e, n>> \in AllSends <=> s \in Streams /\ e \in AllEvents \cup Requests /\ n \in Bots \cup Sinks
    BY DEF AllSends
<1> QED
    BY <1>1, <1>2, <1>3, <1>4

(* The events a stream was given are those it emitted and has not left,    *)
(* and the requests it has handled.                                        *)
LEMMA TakenFacts ==
    ASSUME NEW s \in Streams, NEW e \in AllEvents \cup Requests
    PROVE  /\ <<s, e>> \in Taken <=>
                \/ e \in AllEvents /\ e \in ToSet(Emits[s]) /\ e \notin ToSet(left[s])
                \/ e \in Requests /\ s \in visited[e].ok
           /\ <<s, e>> \in Taken' <=>
                \/ e \in AllEvents /\ e \in ToSet(Emits[s]) /\ e \notin ToSet(left'[s])
                \/ e \in Requests /\ s \in visited'[e].ok
BY DeliveryAssumption DEF Taken

-----------------------------------------------------------------------------
(* The batch and the heartbeat                                             *)

LEMMA InitInvs == Init => IInv
<1> SUFFICES ASSUME Init PROVE IInv
    OBVIOUS
<1> USE DEF Init, InitAnalytics
<1>1. DOMAIN sources = {} /\ DOMAIN reported = {} /\ Cardinality({}) = 0 /\ IsFiniteSet({})
    BY FS_EmptySet
<1>2. LeftInv
    BY DeliveryAssumption DEF LeftInv
<1>3. RequestType /\ AnswerInv
    BY DEF RequestType, AnswerInv
<1>4. BatchInv /\ HeartbeatInv /\ ReportInv
    BY <1>1, AnalyticsAssumption DEF BatchInv, HeartbeatInv, ReportInv, NoHeartbeat
<1>5. ASSUME NEW s \in Streams, NEW e \in AllEvents \cup Requests
      PROVE  <<s, e>> \notin Taken
    BY <1>5, TakenFacts
<1>6. SendInv
    BY <1>1, <1>5, SendsFacts DEF SendInv, EventOf
<1> QED
    BY <1>2, <1>3, <1>4, <1>6 DEF IInv

(* A report that was never added enters the batch.                         *)
LEMMA AddStep ==
    ASSUME BatchInv, HeartbeatInv, ReportInv, NEW x, x \notin DOMAIN reported, AddSourceEvent(x)
    PROVE  BatchInv' /\ HeartbeatInv' /\ ReportInv' /\ DOMAIN reported' = DOMAIN reported \cup {x}
<1>1. /\ count' = count + 1
      /\ sources' = With(sources, x, ticks)
      /\ details' = IF count + 1 <= MaxDetails THEN details + 1 ELSE details
      /\ reported' = With(reported, x, 0)
      /\ late' = IF heartbeat.phase \in {"idle", "copied"} THEN late ELSE late \cup {x}
      /\ window' = window /\ heartbeat' = heartbeat /\ ticks' = ticks
    BY DEF AddSourceEvent, WithDetails
<1>2. /\ DOMAIN sources' = DOMAIN sources \cup {x} /\ sources'[x] = ticks
      /\ \A y \in DOMAIN sources : sources'[y] = (IF y = x THEN ticks ELSE sources[y])
    BY <1>1 DEF With
<1>3. /\ DOMAIN reported' = DOMAIN reported \cup {x} /\ reported'[x] = 0
      /\ \A y \in DOMAIN reported : reported'[y] = reported[y]
    BY <1>1 DEF With
<1>4. x \notin DOMAIN sources
    BY DEF ReportInv
<1>5. \A y \in DOMAIN sources : sources'[y] = sources[y]
    BY <1>2, <1>4
<1>6. /\ IsFiniteSet(DOMAIN sources') /\ Cardinality(DOMAIN sources') = Cardinality(DOMAIN sources) + 1
      /\ Cardinality(DOMAIN sources) \in Nat
    BY <1>2, <1>4, FS_AddElement, FS_CardinalityType DEF BatchInv
<1>7. BatchInv'
    <2>1. details' \in Nat /\ details' <= count' /\ details' <= MaxDetails /\ count' = Cardinality(DOMAIN sources')
        BY <1>1, <1>6, AnalyticsAssumption DEF BatchInv
    <2>2. \A y \in DOMAIN sources' :
              /\ sources'[y] \in Nat
              /\ sources'[y] + window >= ticks + (IF heartbeat.phase = "idle" THEN 1 ELSE 0)
        BY <1>2, <1>5 DEF BatchInv
    <2> QED
        BY <1>1, <1>6, <2>1, <2>2 DEF BatchInv
<1>8. HeartbeatInv'
    BY <1>1, <1>2, <1>6 DEF HeartbeatInv, BatchInv
<1>9. ReportInv'
    BY <1>1, <1>2, <1>3, <1>4 DEF ReportInv, HeartbeatInv
<1> QED
    BY <1>3, <1>7, <1>8, <1>9

(* A step of the goroutine that sends the heartbeat.                       *)
LEMMA RunStep ==
    ASSUME BatchInv, HeartbeatInv, ReportInv, Run
    PROVE  BatchInv' /\ HeartbeatInv' /\ ReportInv' /\ DOMAIN reported' = DOMAIN reported
<1> USE DEF batch, NoHeartbeat
<1>1. ASSUME NEW stopping \in BOOLEAN, Tick(stopping)
      PROVE  BatchInv' /\ HeartbeatInv' /\ ReportInv' /\ DOMAIN reported' = DOMAIN reported
    <2>1. /\ heartbeat.phase = "idle"
          /\ ticks' = (IF stopping THEN ticks ELSE ticks + 1)
          /\ heartbeat'.phase = "copied" /\ heartbeat'.count = count /\ heartbeat'.window = window
          /\ UNCHANGED <<sources, details, count, window, reported, late>>
        BY <1>1 DEF Tick
    <2>2. count \in Nat
        BY FS_CardinalityType DEF BatchInv
    <2>3. BatchInv'
        BY <2>1 DEF BatchInv
    <2>4. HeartbeatInv' /\ ReportInv'
        BY <2>1, <2>2 DEF HeartbeatInv, ReportInv
    <2> QED
        BY <2>1, <2>3, <2>4
<1>2. CASE Marshal
    <2>1. /\ heartbeat.phase = "copied" /\ heartbeat'.phase = "marshalled"
          /\ heartbeat'.count = heartbeat.count /\ heartbeat'.window = heartbeat.window
          /\ heartbeat'.details = details /\ heartbeat'.sources = sources
          /\ UNCHANGED <<sources, details, count, window, ticks, reported, late>>
        BY <1>2 DEF Marshal
    <2>2. BatchInv'
        BY <2>1 DEF BatchInv
    <2>3. HeartbeatInv'
        BY <2>1 DEF HeartbeatInv, BatchInv
    <2>4. ReportInv'
        BY <2>1 DEF ReportInv
    <2> QED
        BY <2>1, <2>2, <2>3, <2>4
<1>3. CASE EnqueueFails
    <2>1. /\ heartbeat.phase = "marshalled" /\ heartbeat'.phase \in {"done", "failed"}
          /\ UNCHANGED <<sources, details, count, window, ticks, reported, late>>
        BY <1>3 DEF EnqueueFails
    <2>2. BatchInv' /\ HeartbeatInv' /\ ReportInv'
        BY <2>1 DEF BatchInv, HeartbeatInv, ReportInv
    <2> QED
        BY <2>1, <2>2
<1>4. CASE IncrementTimeWindow
    <2>1. /\ heartbeat.phase = "failed" /\ heartbeat'.phase = "idle"
          /\ window' = window + 1 /\ late' = late \ DOMAIN sources
          /\ UNCHANGED <<sources, details, count, ticks, reported>>
        BY <1>4 DEF IncrementTimeWindow
    <2>2. BatchInv'
        BY <2>1 DEF BatchInv
    <2>3. HeartbeatInv' /\ ReportInv'
        BY <2>1 DEF HeartbeatInv, ReportInv
    <2> QED
        BY <2>1, <2>2, <2>3
<1>5. CASE Enqueue
    <2>1. /\ heartbeat.phase = "marshalled" /\ heartbeat'.phase \in {"done", "enqueued"}
          /\ DOMAIN reported' = DOMAIN reported
          /\ \A x \in DOMAIN reported : reported'[x] = reported[x] + (IF x \in DOMAIN heartbeat.sources THEN 1 ELSE 0)
          /\ UNCHANGED <<sources, details, count, window, ticks, late>>
        BY <1>5 DEF Enqueue
    <2>2. BatchInv' /\ HeartbeatInv'
        BY <2>1 DEF BatchInv, HeartbeatInv
    <2>3. \A x \in DOMAIN reported :
              /\ x \in DOMAIN heartbeat.sources => x \in DOMAIN sources /\ reported[x] = 0 /\ reported'[x] = 1
              /\ x \notin DOMAIN heartbeat.sources => reported'[x] = reported[x]
        BY <2>1 DEF HeartbeatInv, ReportInv
    <2>4. ReportInv'
        BY <2>1, <2>3 DEF ReportInv
    <2> QED
        BY <2>1, <2>2, <2>4
<1>6. CASE Reset
    <2>1. /\ heartbeat.phase = "enqueued" /\ heartbeat'.phase = "idle"
          /\ DOMAIN sources' = {} /\ details' = 0 /\ count' = 0 /\ window' = 1
          /\ UNCHANGED <<ticks, reported, late>>
        BY <1>6 DEF Reset
    <2>2. BatchInv'
        BY <2>1, FS_EmptySet, AnalyticsAssumption DEF BatchInv
    <2>3. HeartbeatInv' /\ ReportInv'
        BY <2>1 DEF HeartbeatInv, ReportInv
    <2> QED
        BY <2>1, <2>2, <2>3
<1> QED
    BY <1>1, <1>2, <1>3, <1>4, <1>5, <1>6 DEF Run, AnalyticsStep

-----------------------------------------------------------------------------
(* Dispatching and sending                                                 *)

(* dispatchMsg for an event that is taken in this step.                    *)
LEMMA DispatchStep ==
    ASSUME SendInv, NEW t, NEW s \in Streams, NEW e \in AllEvents \cup Requests,
           <<s, e>> \notin Taken, <<s, e>> \in Taken',
           \A r \in Streams, f \in AllEvents \cup Requests :
               <<r, f>> # <<s, e>> => (<<r, f>> \in Taken' <=> <<r, f>> \in Taken),
           DispatchMsg(t, s, e), UNCHANGED reported
    PROVE  SendInv'
<1>1. sending' = sending \cup {<<s, e, n>> : n \in Notifiers(s)} /\ reported' = reported
    BY DEF DispatchMsg
<1>2. \A n \in Notifiers(s) : <<s, e, n>> \in AllSends
    BY SendsFacts
<1>3. \A n \in Notifiers(s) : <<s, e, n>> \notin sending /\ <<s, e, n>> \notin DOMAIN reported
    <2> SUFFICES ASSUME NEW n \in Notifiers(s)
                 PROVE  <<s, e, n>> \notin sending /\ <<s, e, n>> \notin DOMAIN reported
        OBVIOUS
    <2>1. EventOf(<<s, e, n>>) = <<s, e>>
        BY DEF EventOf
    <2> QED
        BY <1>2, <2>1 DEF SendInv
<1>4. sending' \subseteq AllSends /\ DOMAIN reported' \subseteq AllSends /\ sending' \cap DOMAIN reported' = {}
    BY <1>1, <1>2, <1>3 DEF SendInv
<1>5. ASSUME NEW x \in AllSends
      PROVE  (x \in sending' \/ x \in DOMAIN reported') <=> EventOf(x) \in Taken' /\ x[3] \in Notifiers(x[1])
    <2>1. PICK r \in Streams, f \in AllEvents \cup Requests, n \in Bots \cup Sinks : x = <<r, f, n>>
        BY SendsFacts
    <2>2. EventOf(x) = <<r, f>> /\ x[1] = r /\ x[3] = n
        BY <2>1 DEF EventOf
    <2>3. x \in sending \/ x \in DOMAIN reported <=> <<r, f>> \in Taken /\ n \in Notifiers(r)
        BY <2>2 DEF SendInv
    <2>4. CASE r = s /\ f = e
        BY <1>1, <2>1, <2>2, <2>3, <2>4
    <2>5. CASE ~(r = s /\ f = e)
        <3>1. x \in sending' <=> x \in sending
            BY <1>1, <2>1, <2>5
        <3>2. <<r, f>> \in Taken' <=> <<r, f>> \in Taken
            BY <2>5
        <3> QED
            BY <1>1, <2>2, <2>3, <3>1, <3>2
    <2> QED
        BY <2>4, <2>5
<1> QED
    BY <1>4, <1>5 DEF SendInv

(* A stream's event is taken.                                              *)
LEMMA TakeStep ==
    ASSUME LeftInv, SendInv, NEW s \in Streams, Take(s)
    PROVE  LeftInv' /\ SendInv'
<1>1. PICK q, e : q = left[s] /\ e = Head(q)
    OBVIOUS
<1>2. q \in Seq(AllEvents) /\ IsInjective(q) /\ ToSet(q) \subseteq ToSet(Emits[s]) /\ q # <<>>
    BY <1>1 DEF LeftInv, Take
<1>3. /\ e \in ToSet(q) /\ Tail(q) \in Seq(AllEvents) /\ IsInjective(Tail(q))
      /\ e \notin ToSet(Tail(q))
      /\ \A f : f \in ToSet(q) <=> f = e \/ f \in ToSet(Tail(q))
    BY <1>1, <1>2, TakeFirst
<1>4. left' = [left EXCEPT ![s] = Tail(q)] /\ UNCHANGED visited /\ UNCHANGED analytics /\ DispatchMsg(s, s, e)
    BY <1>1 DEF Take
<1>5. left'[s] = Tail(q) /\ (\A r \in Streams \ {s} : left'[r] = left[r]) /\ left' \in [Streams -> Seq(AllEvents)]
    BY <1>3, <1>4 DEF LeftInv
<1>6. LeftInv'
    <2>1. ASSUME NEW r \in Streams
          PROVE  IsInjective(left'[r]) /\ ToSet(left'[r]) \subseteq ToSet(Emits[r])
        BY <1>2, <1>3, <1>5 DEF LeftInv
    <2> QED
        BY <1>5, <2>1 DEF LeftInv
<1>7. e \in AllEvents /\ e \in ToSet(Emits[s])
    BY <1>2, <1>3, SendsFacts
<1>8. e \notin Requests
    BY <1>7, DeliveryAssumption
<1>9. <<s, e>> \notin Taken /\ <<s, e>> \in Taken'
    BY <1>1, <1>3, <1>5, <1>7, <1>8, TakenFacts
<1>10. ASSUME NEW r \in Streams, NEW f \in AllEvents \cup Requests, <<r, f>> # <<s, e>>
       PROVE  <<r, f>> \in Taken' <=> <<r, f>> \in Taken
    <2>1. f \in ToSet(left'[r]) <=> f \in ToSet(left[r])
        BY <1>1, <1>3, <1>5, <1>10
    <2> QED
        BY <1>4, <2>1, TakenFacts
<1>11. UNCHANGED reported
    BY <1>4 DEF analytics
<1>12. SendInv'
    BY <1>4, <1>7, <1>9, <1>10, <1>11, DispatchStep
<1> QED
    BY <1>6, <1>12

(* A request is dispatched to one more of the streams it is for.           *)
LEMMA RequestStep ==
    ASSUME SendInv, RequestType, AnswerInv, NEW r \in Requests, NEW s \in Streams, HandleExternalRequest(r, s)
    PROVE  SendInv' /\ RequestType' /\ AnswerInv'
<1>1. /\ answer[r] = "none" /\ s \in StartedFor(r) /\ s \notin visited[r].ok
      /\ visited' = [visited EXCEPT ![r].ok = visited[r].ok \cup {s}]
      /\ DispatchMsg(r, s, r)
      /\ UNCHANGED <<left, answer>> /\ UNCHANGED analytics
    BY DEF HandleExternalRequest, Ahead
<1>2. visited[r] \in [ok : SUBSET Streams, failed : SUBSET Streams]
    BY DEF RequestType
<1>3. visited'[r] = [visited[r] EXCEPT !.ok = visited[r].ok \cup {s}] /\ \A q \in Requests \ {r} : visited'[q] = visited[q]
    BY <1>1 DEF RequestType
<1>4. /\ visited'[r].ok = visited[r].ok \cup {s} /\ visited'[r].failed = visited[r].failed
      /\ visited'[r] \in [ok : SUBSET Streams, failed : SUBSET Streams]
    BY <1>2, <1>3
<1>5. RequestType'
    BY <1>1, <1>4 DEF RequestType
<1>6. AnswerInv'
    BY <1>1, <1>3, <1>4 DEF AnswerInv, StartedFor
<1>7. r \notin AllEvents
    BY DeliveryAssumption
<1>8. <<s, r>> \notin Taken /\ <<s, r>> \in Taken'
    BY <1>1, <1>4, <1>7, TakenFacts
<1>9. ASSUME NEW p \in Streams, NEW f \in AllEvents \cup Requests, <<p, f>> # <<s, r>>
      PROVE  <<p, f>> \in Taken' <=> <<p, f>> \in Taken
    <2>1. f \in Requests => (p \in visited'[f].ok <=> p \in visited[f].ok)
        BY <1>3, <1>4, <1>9
    <2> QED
        BY <1>1, <2>1, TakenFacts
<1>10. UNCHANGED reported
    BY <1>1 DEF analytics
<1>11. SendInv'
    BY <1>1, <1>8, <1>9, <1>10, DispatchStep
<1> QED
    BY <1>5, <1>6, <1>11

(* The plugin of a stream fails the request.                               *)
LEMMA FailStep ==
    ASSUME RequestType, AnswerInv, NEW r \in Requests, NEW s \in Streams, RequestFails(r, s)
    PROVE  RequestType' /\ AnswerInv' /\ \A q \in Requests : visited'[q].ok = visited[q].ok
<1>1. /\ answer[r] = "none" /\ s \in StartedFor(r)
      /\ visited' = [visited EXCEPT ![r].failed = visited[r].failed \cup {s}]
      /\ UNCHANGED answer
    BY DEF RequestFails, Ahead
<1>2. visited[r] \in [ok : SUBSET Streams, failed : SUBSET Streams]
    BY DEF RequestType
<1>3. visited'[r] = [visited[r] EXCEPT !.failed = visited[r].failed \cup {s}] /\ \A q \in Requests \ {r} : visited'[q] = visited[q]
    BY <1>1 DEF RequestType
<1>4. /\ visited'[r].ok = visited[r].ok /\ visited'[r].failed = visited[r].failed \cup {s}
      /\ visited'[r] \in [ok : SUBSET Streams, failed : SUBSET Streams]
    BY <1>2, <1>3
<1>5. RequestType'
    BY <1>1, <1>4 DEF RequestType
<1>6. AnswerInv'
    BY <1>1, <1>3, <1>4 DEF AnswerInv, StartedFor
<1> QED
    BY <1>3, <1>4, <1>5, <1>6

(* A request is answered when no plugin is ahead.                          *)
LEMMA AnswerStep ==
    ASSUME RequestType, AnswerInv, NEW r \in Requests, Answer(r)
    PROVE  RequestType' /\ AnswerInv' /\ UNCHANGED visited
<1>1. /\ UNCHANGED visited
      /\ answer' = [answer EXCEPT ![r] = IF StartedFor(r) = {} THEN "notFound"
                                         ELSE IF visited[r].failed = {} THEN "success" ELSE "error"]
      /\ StartedFor(r) \subseteq visited[r].ok \cup visited[r].failed
    BY DEF Answer, Ahead
<1>2. /\ answer'[r] = "success" => visited[r].failed = {} /\ StartedFor(r) # {}
      /\ answer'[r] \in {"success", "error", "notFound"}
      /\ \A q \in Requests \ {r} : answer'[q] = answer[q]
    BY <1>1 DEF RequestType
<1>3. RequestType'
    BY <1>1 DEF RequestType
<1>4. ASSUME NEW q \in Requests
      PROVE  /\ visited[q].ok \subseteq StartedFor(q) /\ visited[q].failed \subseteq StartedFor(q)
             /\ answer'[q] = "success" => visited[q].ok = StartedFor(q) /\ StartedFor(q) # {}
             /\ answer'[q] = "error" => visited[q].ok \cup visited[q].failed = StartedFor(q)
    <2>1. CASE q = r
        BY <1>1, <1>2, <2>1 DEF AnswerInv
    <2>2. CASE q # r
        BY <1>2, <2>2 DEF AnswerInv
    <2> QED
        BY <2>1, <2>2
<1>5. AnswerInv'
    BY <1>1, <1>4 DEF AnswerInv, StartedFor
<1> QED
    BY <1>1, <1>3, <1>5

LEMMA SendKept ==
    ASSUME SendInv, UNCHANGED <<left, sending>>, DOMAIN reported' = DOMAIN reported,
           \A q \in Requests : visited'[q].ok = visited[q].ok
    PROVE  SendInv'
<1>1. ASSUME NEW s \in Streams, NEW e \in AllEvents \cup Requests
      PROVE  <<s, e>> \in Taken' <=> <<s, e>> \in Taken
    BY TakenFacts
<1>2. \A x \in AllSends : EventOf(x) \in Taken' <=> EventOf(x) \in Taken
    BY <1>1, SendsFacts DEF EventOf
<1> QED
    BY <1>2 DEF SendInv

LEMMA AnalyticsKept ==
    ASSUME BatchInv, HeartbeatInv, ReportInv, UNCHANGED analytics
    PROVE  BatchInv' /\ HeartbeatInv' /\ ReportInv' /\ UNCHANGED reported
BY DEF BatchInv, HeartbeatInv, ReportInv, analytics

LEMMA NextIInv == IInv /\ [Next]_vars => IInv'
<1> SUFFICES ASSUME IInv, Next \/ UNCHANGED vars PROVE IInv'
    OBVIOUS
<1>1. CASE Ended
    <2>1. UNCHANGED vars
        BY <1>1 DEF Ended, Next
    <2> QED
        BY <1>1, <2>1 DEF Ended, IInv, vars, control, analytics
<1> SUFFICES ASSUME LeftInv, SendInv, BatchInv, HeartbeatInv, ReportInv, RequestType, AnswerInv
             PROVE  IInv'
    BY <1>1 DEF IInv
<1>2. UNCHANGED left => LeftInv'
    BY DEF LeftInv
<1>3. UNCHANGED <<visited, answer>> => RequestType' /\ AnswerInv'
    BY DEF RequestType, AnswerInv, StartedFor
<1>4. UNCHANGED <<left, sending, visited, answer>> /\ UNCHANGED analytics => IInv'
    BY <1>2, <1>3, SendKept, AnalyticsKept DEF IInv
<1>5. ASSUME NEW s \in Streams, Take(s)
      PROVE  IInv'
    <2>1. UNCHANGED <<visited, answer>> /\ UNCHANGED analytics
        BY <1>5 DEF Take
    <2> QED
        BY <1>3, <1>5, <2>1, TakeStep, AnalyticsKept DEF IInv
<1>6. ASSUME NEW s \in Streams, Stop(s)
      PROVE  IInv'
    BY <1>4, <1>6 DEF Stop
<1>7. ASSUME NEW t \in Threads, Proceed(t)
      PROVE  IInv'
    BY <1>4, <1>7 DEF Proceed, ReportAudit, ExecuteAction, Dispatched
<1>8. ASSUME NEW r \in Requests, NEW s \in Streams, HandleExternalRequest(r, s)
      PROVE  IInv'
    <2>1. UNCHANGED left /\ UNCHANGED analytics
        BY <1>8 DEF HandleExternalRequest
    <2> QED
        BY <1>2, <1>8, <2>1, RequestStep, AnalyticsKept DEF IInv
<1>9. ASSUME NEW r \in Requests, NEW s \in Streams, RequestFails(r, s)
      PROVE  IInv'
    <2>1. UNCHANGED <<left, sending>> /\ UNCHANGED analytics
        BY <1>9 DEF RequestFails
    <2>2. RequestType' /\ AnswerInv' /\ \A q \in Requests : visited'[q].ok = visited[q].ok
        BY <1>9, FailStep
    <2> QED
        BY <1>2, <2>1, <2>2, SendKept, AnalyticsKept DEF IInv
<1>10. ASSUME NEW r \in Requests, Answer(r)
       PROVE  IInv'
    <2>1. UNCHANGED <<left, sending>> /\ UNCHANGED analytics
        BY <1>10 DEF Answer
    <2>2. RequestType' /\ AnswerInv' /\ UNCHANGED visited
        BY <1>10, AnswerStep
    <2> QED
        BY <1>2, <2>1, <2>2, SendKept, AnalyticsKept DEF IInv
<1>11. ASSUME NEW x \in sending, SendReturns(x)
       PROVE  IInv'
    <2>1. /\ sending' = sending \ {x} /\ AddSourceEvent(x)
          /\ UNCHANGED <<left, visited, answer>>
        BY <1>11 DEF SendReturns, control
    <2>2. x \in AllSends /\ x \notin DOMAIN reported
        BY DEF SendInv
    <2>3. BatchInv' /\ HeartbeatInv' /\ ReportInv' /\ DOMAIN reported' = DOMAIN reported \cup {x}
        BY <2>1, <2>2, AddStep
    <2>4. \A y : y \in sending' \/ y \in DOMAIN reported' <=> y \in sending \/ y \in DOMAIN reported
        BY <2>1, <2>3
    <2>5. /\ sending' \subseteq AllSends /\ DOMAIN reported' \subseteq AllSends
          /\ sending' \cap DOMAIN reported' = {}
        BY <2>1, <2>2, <2>3 DEF SendInv
    <2>6. Taken' = Taken
        BY <2>1 DEF Taken
    <2>7. SendInv'
        BY <2>4, <2>5, <2>6 DEF SendInv
    <2> QED
        BY <1>2, <1>3, <2>1, <2>3, <2>7 DEF IInv
<1>12. CASE MapFault
    BY <1>12 DEF MapFault, IInv, Ended
<1>13. CASE Cancel
    BY <1>4, <1>13 DEF Cancel
<1>14. CASE ReportAnalytics
    <2>1. Run /\ UNCHANGED <<left, sending, visited, answer>>
        BY <1>14 DEF ReportAnalytics, control
    <2>2. BatchInv' /\ HeartbeatInv' /\ ReportInv' /\ DOMAIN reported' = DOMAIN reported
        BY <2>1, RunStep
    <2> QED
        BY <1>2, <1>3, <2>1, <2>2, SendKept DEF IInv
<1>15. CASE UNCHANGED vars
    BY <1>4, <1>15 DEF vars, control
<1> QED
    BY <1>5, <1>6, <1>7, <1>8, <1>9, <1>10, <1>11, <1>12, <1>13, <1>14, <1>15 DEF Next, Serve

-----------------------------------------------------------------------------
(* The theorems                                                            *)

THEOREM IInvHolds == Spec => []IInv
<1>1. IInv /\ [Next]_vars => IInv'
    BY NextIInv
<1> QED
    BY <1>1, InitInvs, PTL DEF Spec

(* dispatchMsg starts a send for every bot or sink of the stream's kind of *)
(* platform and for no other, and each of them is under way or counted,    *)
(* until a concurrent access to the map of the batch ends the process.     *)
THEOREM DispatchedIsAccountedHolds == Spec => []DispatchedIsAccounted
<1>1. IInv => DispatchedIsAccounted
    <2> SUFFICES ASSUME IInv, alive, NEW x \in AllSends
                 PROVE  (x \in sending \/ x \in DOMAIN reported) <=>
                        /\ EventOf(x) \in Taken
                        /\ IF x[1] \in Interactive THEN x[3] \in InteractiveBots ELSE x[3] \notin InteractiveBots
        BY DEF DispatchedIsAccounted
    <2>1. (x \in sending \/ x \in DOMAIN reported) <=> EventOf(x) \in Taken /\ x[3] \in Notifiers(x[1])
        BY DEF IInv, Ended, SendInv
    <2>2. x[3] \in Bots \cup Sinks
        BY SendsFacts
    <2>3. x[3] \in Notifiers(x[1]) <=>
            IF x[1] \in Interactive THEN x[3] \in InteractiveBots ELSE x[3] \notin InteractiveBots
        BY <2>2, DeliveryAssumption DEF Notifiers
    <2> QED
        BY <2>1, <2>3
<1> QED
    BY <1>1, IInvHolds, PTL

(* The reporter loses only reports that were added while a heartbeat was   *)
(* sent and repeats none; the window it claims covers what it sends.       *)
THEOREM HeartbeatAccountsHolds == Spec => []HeartbeatAccounts
<1>1. Ended => HeartbeatAccounts
    BY DEF Ended, HeartbeatAccounts, NoHeartbeat
<1>2. HeartbeatInv /\ ReportInv => HeartbeatAccounts
    BY DEF HeartbeatInv, ReportInv, HeartbeatAccounts
<1>3. IInv => HeartbeatAccounts
    BY <1>1, <1>2 DEF IInv
<1> QED
    BY <1>3, IInvHolds, PTL

(* The incoming webhook answers success only if every plugin of the source *)
(* has handled the request, and an error only when all of them were tried. *)
THEOREM AnswerTellsAllHolds == Spec => []AnswerTellsAll
<1>1. Ended => AnswerTellsAll
    BY DEF Ended, AnswerTellsAll
<1>2. AnswerInv => AnswerTellsAll
    BY DEF AnswerInv, AnswerTellsAll, StartedFor
<1>3. IInv => AnswerTellsAll
    BY <1>1, <1>2 DEF IInv
<1> QED
    BY <1>3, IInvHolds, PTL
=============================================================================
