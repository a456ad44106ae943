---------------------------- MODULE EventRouting ----------------------------
(***************************************************************************)
(* The router of the Kubernetes source plugin                              *)
(* (internal/source/kubernetes/router.go, registration.go): how the        *)
(* configurations of all sources become a routing table and informer       *)
(* handlers, and which sources a handler hands an event to.                *)
(*                                                                         *)
(* A constraint (RegexConstraints, labels, annotations) is reduced to what *)
(* it says of the objects of the model: not defined, matches, differs, or  *)
(* bad, a pattern that does not compile.  Routes are kept in sets and      *)
(* carry the place in the configuration they come from, so that two equal  *)
(* routes of one source remain two.                                        *)
(***************************************************************************)
EXTENDS Integers, FiniteSets, Sequences

CONSTANTS
    Sources,        \* the sources of one background process
    SourceConfigs,  \* the configurations a source may have
    Objects,        \* what happens in the cluster, see ObjectType
    None,           \* no object
    Pods, Nodes, EventsResource  \* resource types; EventsResource is v1/events

Resources == {Pods, Nodes, EventsResource}
EventTypes == {"create", "update", "delete", "error"}
Informed == {"create", "update", "delete"}
Constraints == {"undefined", "matches", "differs", "bad"}
Fields == {"spec", "status"}

ResourceType ==
    [type : Resources, types : Seq(EventTypes \cup {"all"}), event : Constraints, name : Constraints,
     ns : Constraints, labels : Constraints \ {"bad"}, fields : SUBSET Fields]
ConfigType ==
    [types : Seq(EventTypes \cup {"all"}), event : Constraints, ns : Constraints,
     labels : Constraints \ {"bad"}, resources : Seq(ResourceType), podRecommendations : BOOLEAN]

\* An informer reports an object of `resource`; changed tells which fields an update
\* touches.  An Event object is about an object of `involved`.  The handlers in unread
\* make no event of the object: they cannot get its metadata, or the one for Event
\* objects does not know the kind of the object it is about.
ObjectType ==
    [resource : Resources, type : Informed, changed : SUBSET Fields, warning : BOOLEAN,
     involved : Resources, unread : SUBSET {"direct", "mapped"}]

ASSUME EventRoutingAssumption ==
    /\ IsFiniteSet(Sources)
    /\ SourceConfigs \subseteq ConfigType
    /\ Objects \subseteq ObjectType
    /\ Cardinality(Resources) = 3

VARIABLES
    cfgs,           \* the configuration of each source
    at,             \* how far configureProcessForSources is
    table,          \* Router.table: the routes by resource and event type
    registrations,  \* Router.registrations: by resource, the events and, for the
                    \* events informer, the resources mapped to it
    handlers,       \* handlers added to informers: <<resource, event type>>
    last,           \* the object that was reported last
    told            \* how often the event handler was given a source for it, by event type

vars == <<cfgs, at, table, registrations, handlers, last, told>>

-----------------------------------------------------------------------------
(* The routing table.                                                      *)

FaultyDefined(c) == c \in {"matches", "differs"}
Defined(c) == c # "undefined"
Own(own, global) == IF Defined(own) THEN own ELSE global

\* The event types that each position of the list stands for.
FlattenTypes(global, own) ==
    LET types == IF own # <<>> THEN own ELSE global
    IN [i \in DOMAIN types |-> IF types[i] = "all" THEN EventTypes ELSE {types[i]}]

\* ResourceEventsForConfig, for the recommendations about pods.
RecommendationEvent(s, resource, type) ==
    cfgs[s].podRecommendations /\ resource = Pods /\ type = "create"

Route(s, place, type) ==
    LET cfg == cfgs[s]
        entry == cfg.resources[place[1]]
    IN [source |-> s, place |-> place, event |-> Own(entry.event, cfg.event), name |-> entry.name,
        ns |-> Own(entry.ns, cfg.ns), labels |-> Own(entry.labels, cfg.labels),
        fields |-> IF type = "update" THEN entry.fields ELSE {}]

\* The routes of one source, in the order of its configuration: by resource entry
\* and by position among its event types.
OwnRoutes(s, resource, type) ==
    LET cfg == cfgs[s]
        flat(i) == FlattenTypes(cfg.types, cfg.resources[i].types)
        places == UNION {{i} \X DOMAIN flat(i) : i \in {k \in DOMAIN cfg.resources : cfg.resources[k].type = resource}}
    IN {Route(s, p, type) : p \in {q \in places : type \in flat(q[1])[q[2]]}}

RecommendationRoute(s, place, ns) ==
    [source |-> s, place |-> place, event |-> "undefined", name |-> "undefined", ns |-> ns,
     labels |-> "undefined", fields |-> {}]

First(routes) == CHOOSE r \in routes : \A q \in routes :
    r.place[1] < q.place[1] \/ (r.place[1] = q.place[1] /\ r.place[2] <= q.place[2])

FaultyAppendRoute(s, resource, type, routes) ==
    IF RecommendationEvent(s, resource, type) THEN routes \cup {RecommendationRoute(s, <<0, 0>>, cfgs[s].ns)}
    ELSE routes

\* setEventRouteForRecommendationsIfShould: the first route of the source becomes one
\* for all objects of its namespaces, or such a route is added.
SetEventRoute(s, resource, type, routes) ==
    IF ~RecommendationEvent(s, resource, type) THEN routes
    ELSE IF routes = {} THEN {RecommendationRoute(s, <<0, 0>>, cfgs[s].ns)}
    ELSE LET r == First(routes)
         IN (routes \ {r}) \cup {RecommendationRoute(s, r.place, Own(r.ns, cfgs[s].ns))}

MergeEventRoutes(resource, type) ==
    UNION {SetEventRoute(s, resource, type, OwnRoutes(s, resource, type)) : s \in Sources}

BuildTable ==
    /\ at = "new" /\ at' = "built"
    /\ table' = [resource \in Resources |-> [type \in EventTypes |-> MergeEventRoutes(resource, type)]]
    /\ UNCHANGED <<cfgs, registrations, handlers, last, told>>

ResourceEvents(resource) == {type \in EventTypes : table[resource][type] # {}}
ResourcesForEvents(types) == {resource \in Resources : ResourceEvents(resource) \cap types # {}}

-----------------------------------------------------------------------------
(* Informers and handlers.                                                 *)

RegisterInformers ==
    /\ at = "built" /\ at' = "registered"
    /\ registrations' = [resource \in ResourcesForEvents(Informed) |->
                            [events |-> ResourceEvents(resource), mapped |-> {}]]
    /\ UNCHANGED <<cfgs, table, handlers, last, told>>

FaultyMapWithEventsInformer ==
    /\ at = "registered" /\ at' = "mapped"
    /\ registrations' = IF EventsResource \in DOMAIN registrations THEN registrations
                        ELSE [resource \in DOMAIN registrations \cup {EventsResource} |->
                                 IF resource # EventsResource THEN registrations[resource]
                                 ELSE [events |-> {"warning"}, mapped |-> ResourcesForEvents({"error"})]]
    /\ UNCHANGED <<cfgs, table, handlers, last, told>>

\* Errors of a resource are seen as warnings among the Event objects.  The
\* registration replaces one that v1/events may have had.
MapWithEventsInformer ==
    LET mapped == ResourcesForEvents({"error"})
    IN /\ at = "registered" /\ at' = "mapped"
       /\ registrations' =
            IF mapped = {} THEN registrations
            ELSE [resource \in DOMAIN registrations \cup {EventsResource} |->
                     IF resource = EventsResource THEN [events |-> {"warning"}, mapped |-> mapped]
                     ELSE registrations[resource]]
       /\ UNCHANGED <<cfgs, table, handlers, last, told>>

\* For the types create, delete and update, and for the mapped error.
RegisterEventHandlers ==
    /\ at = "mapped" /\ at' = "running"
    /\ handlers' = {h \in (DOMAIN registrations) \X Informed : h[2] \in registrations[h[1]].events}
                   \cup {<<resource, "error">> : resource \in
                            {r \in DOMAIN registrations : registrations[r].mapped # {}}}
    /\ UNCHANGED <<cfgs, table, registrations, last, told>>

-----------------------------------------------------------------------------
(* Handling an object.                                                     *)

\* The checks of matchEvent, in its order: the first that does not hold decides.
Checks(r) == <<r.event, r.name, r.ns, r.labels>>
Passed == {"undefined", "matches"}
Matches(r) == \A i \in 1..4 : Checks(r)[i] \in Passed
Errs(r) == \E i \in 1..4 : Checks(r)[i] = "bad" /\ \A j \in 1 .. i - 1 : Checks(r)[j] \in Passed

Candidates(routes) == {r \in routes : Matches(r)}
OfSource(routes, s) == {r \in routes : r.source = s}

\* Diff over the configured fields is not empty, or no field is configured.
UpdateRoutes(routes, o) == {r \in routes : r.fields = {} \/ r.fields \cap o.changed # {}}

\* qualifyEvent: an error of any route leaves no source.  A source qualifies for an
\* update once per candidate and route of the table that lets the update through.
QualifyEvent(routes, o, s) ==
    IF \E r \in routes : Errs(r) THEN 0
    ELSE Cardinality(OfSource(Candidates(routes), s))
            * (IF o.type = "update" THEN Cardinality(UpdateRoutes(routes, o)) ELSE 1)

\* matchEvent itself, whose error handleMapped only logs.
MatchEvent(routes, s) == Cardinality(OfSource(Candidates(routes), s))

\* The handler for the type of the object, and the one for Event objects, which
\* looks for the routes of the object they are about.
HandlesDirect(o) == "direct" \notin o.unread /\ <<o.resource, o.type>> \in handlers
Direct(o, s) == IF HandlesDirect(o) THEN QualifyEvent(table[o.resource][o.type], o, s) ELSE 0
HandlesMapped(o) ==
    /\ "mapped" \notin o.unread
    /\ o.resource = EventsResource /\ o.type = "create" /\ o.warning
    /\ <<EventsResource, "error">> \in handlers
    /\ o.involved \in registrations[EventsResource].mapped
Mapped(o, s) == IF HandlesMapped(o) THEN MatchEvent(table[o.involved]["error"], s) ELSE 0

\* The handlers of an informer are called for the object.
ObjectReported(o) ==
    /\ at = "running" /\ last' = o
    /\ told' = [s \in Sources |-> [type \in EventTypes |->
                  IF type = o.type THEN Direct(o, s) ELSE IF type = "error" THEN Mapped(o, s) ELSE 0]]
    /\ UNCHANGED <<cfgs, at, table, registrations, handlers>>

Init ==
    /\ cfgs \in [Sources -> SourceConfigs]
    /\ at = "new"
    /\ table = [resource \in Resources |-> [type \in EventTypes |-> {}]]
    /\ registrations = <<>>
    /\ handlers = {} /\ last = None
    /\ told = [s \in Sources |-> [type \in EventTypes |-> 0]]

Next ==
    \/ BuildTable \/ RegisterInformers \/ MapWithEventsInformer \/ RegisterEventHandlers
    \/ \E o \in Objects : ObjectReported(o)

Spec == Init /\ [][Next]_vars

-----------------------------------------------------------------------------
(* What the configurations ask for, stated without the table.              *)

Types(s, i) == LET own == cfgs[s].resources[i].types IN IF own # <<>> THEN own ELSE cfgs[s].types
\* The places of the configuration of s that listen for type.
Listening(s, resource, type) ==
    {p \in UNION {{i} \X DOMAIN Types(s, i) : i \in DOMAIN cfgs[s].resources} :
        /\ cfgs[s].resources[p[1]].type = resource
        /\ Types(s, p[1])[p[2]] \in {type, "all"}}

Effective(own, global) == IF own = "undefined" THEN global ELSE own
InEffect(s, p) ==
    LET cfg == cfgs[s]
        entry == cfg.resources[p[1]]
    IN {Effective(entry.event, cfg.event), entry.name, Effective(entry.ns, cfg.ns),
        Effective(entry.labels, cfg.labels)}
Applies(s, p) == InEffect(s, p) \subseteq {"undefined", "matches"}
Open(s, p, o) == LET fields == cfgs[s].resources[p[1]].fields
                 IN o.type # "update" \/ fields = {} \/ fields \cap o.changed # {}

Wants(s, resource, type, o) ==
    \E p \in Listening(s, resource, type) : Applies(s, p) /\ (type = "error" \/ Open(s, p, o))
BadPattern(resource, type) == \E s \in Sources :
    \/ \E p \in Listening(s, resource, type) : "bad" \in InEffect(s, p)
    \/ RecommendationEvent(s, resource, type) /\ Listening(s, resource, type) = {} /\ cfgs[s].ns = "bad"
ErrorsWatched == \E s \in Sources, resource \in Resources : Listening(s, resource, "error") # {}

IsWarning(o) == o.resource = EventsResource /\ o.type = "create" /\ o.warning

(* The table, the registrations and the counts are what the types say, and a route
   is only ever found under a source's own name. *)
RoutingTypeOK ==
    /\ at \in {"new", "built", "registered", "mapped", "running"}
    /\ last \in Objects \cup {None}
    /\ DOMAIN registrations \subseteq Resources
    /\ handlers \subseteq (DOMAIN registrations) \X EventTypes
    /\ \A resource \in Resources, type \in EventTypes : \A r \in table[resource][type] :
          r.source \in Sources /\ (r.fields # {} => type = "update")
    /\ \A s \in Sources, type \in EventTypes : told[s][type] \in Nat

(* A source is told of everything its configuration asks for, whatever the other
   sources ask for, through the merged table, the informers shared by all and the
   mapping of errors to Event objects.  An object of which a handler cannot make an
   event is lost to it, and two more cases are left out because the code loses
   events in them: a bad pattern among the routes, those of the recommendations
   included (BadPatternIsLocal), and a source
   that watches Event objects while some source watches errors, as the registration
   for errors replaces the one for Event objects. *)
WatchedIsTold ==
    last # None => \A s \in Sources :
        /\ "direct" \notin last.unread
           /\ Wants(s, last.resource, last.type, last) /\ ~BadPattern(last.resource, last.type)
           /\ (last.resource = EventsResource => ~ErrorsWatched)
           => told[s][last.type] > 0
        /\ IsWarning(last) /\ "mapped" \notin last.unread /\ Wants(s, last.involved, "error", last)
           => told[s]["error"] > 0

(* A source is told only of what its configuration asks for: an entry of its own that
   applies or, for the recommendations, a pod in its namespaces.  For an update the
   fields may be those of another route, but some route must be open to the change. *)
ToldOnlyIfWatched ==
    \A s \in Sources :
        /\ told[s]["error"] > 0 => IsWarning(last) /\ Wants(s, last.involved, "error", last)
        /\ \A type \in Informed : told[s][type] > 0 =>
              LET own == Listening(s, last.resource, type)
                  recommends == RecommendationEvent(s, last.resource, type)
                  areas == IF own = {} THEN {cfgs[s].ns}
                           ELSE {Effective(cfgs[s].resources[p[1]].ns, cfgs[s].ns) : p \in own}
              IN /\ type = last.type
                 /\ \/ \E p \in own : Applies(s, p)
                    \/ recommends /\ areas \cap {"undefined", "matches"} # {}
                 /\ \E q \in Sources : recommends \/ \E p \in Listening(q, last.resource, type) : Open(q, p, last)

(* Unless it is an update, a source is told of an object at most once for each place of
   its configuration, the recommendations taking one of these places. *)
OncePerPlace ==
    last # None /\ last.type # "update" => \A s \in Sources :
        LET places == Cardinality(Listening(s, last.resource, last.type))
        IN told[s][last.type] <=
              IF RecommendationEvent(s, last.resource, last.type) /\ places = 0 THEN 1 ELSE places

(* registration.go: "continue anyway, there could be still some sources to handle".
   An error of one route leaves the sources whose routes match. *)
BadPatternIsLocal ==
    last # None /\ last.resource # EventsResource /\ "direct" \notin last.unread => \A s \in Sources :
        Wants(s, last.resource, last.type, last) => told[s][last.type] > 0
=============================================================================
