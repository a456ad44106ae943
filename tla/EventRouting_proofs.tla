------------------------ MODULE EventRouting_proofs ------------------------
(***************************************************************************)
(* Proofs about EventRouting, for every set of sources, whatever they ask  *)
(* for, and every object that is reported.                                 *)
(***************************************************************************)
EXTENDS EventRouting, FiniteSetTheorems, WellFoundedInduction, TLAPS

-----------------------------------------------------------------------------
(* The routes of one source.                                               *)

\* The proofs handle a route by its fields and its place, never as a whole.
RouteFacts(r, s, p, type) ==
    LET cfg == cfgs[s]
        entry == cfg.resources[p[1]]
    IN /\ r.source = s /\ r.place = p
       /\ r.event = Own(entry.event, cfg.event) /\ r.name = entry.name
       /\ r.ns = Own(entry.ns, cfg.ns) /\ r.labels = Own(entry.labels, cfg.labels)
       /\ r.fields = IF type = "update" THEN entry.fields ELSE {}

(* Every nonempty set of natural numbers has a least element. *)
LEMMA Least ==
    ASSUME NEW T \in SUBSET Nat, T # {}
    PROVE  \E x \in T : \A y \in T : x <= y
<1> DEFINE R == {ss \in Nat \X Nat : ss[1] < ss[2]}
<1>1. IsWellFoundedOn(R, Nat)
    BY NatLessThanWellFounded DEF OpToRel
<1>2. PICK x \in T : \A y \in T : ~(<<y, x>> \in R)
    <2> HIDE DEF R
    <2> QED BY <1>1, WFMin
<1>3. \A y \in T : ~(y < x)
    BY <1>2
<1> QED
    BY <1>2, <1>3

(* The first route of a source, by entry and position (router.go:232), is one of *)
(* its routes.                                                                    *)
LEMMA FirstIsARoute ==
    ASSUME NEW routes, routes # {}, \A r \in routes : r.place \in Nat \X Nat
    PROVE  First(routes) \in routes
<1> DEFINE Rows == {r.place[1] : r \in routes}
<1>1. PICK a \in Rows : \A y \in Rows : a <= y
    <2>1. Rows \in SUBSET Nat /\ Rows # {}
        OBVIOUS
    <2> HIDE DEF Rows
    <2> QED BY <2>1, Least
<1> DEFINE Row == {r \in routes : r.place[1] = a}
           Columns == {r.place[2] : r \in Row}
<1>2. PICK b \in Columns : \A y \in Columns : b <= y
    <2>1. Columns \in SUBSET Nat /\ Columns # {}
        BY <1>1
    <2> HIDE DEF Columns
    <2> QED BY <2>1, Least
<1>3. PICK r \in Row : r.place[2] = b
    BY <1>2
<1>4. \A q \in routes : r.place[1] <= q.place[1]
    BY <1>1, <1>3
<1>5. \A q \in routes : q.place[1] = r.place[1] => r.place[2] <= q.place[2]
    BY <1>2, <1>3
<1>6. \A q \in routes : r.place[1] < q.place[1] \/ (r.place[1] = q.place[1] /\ r.place[2] <= q.place[2])
    <2> TAKE q \in routes
    <2>1. r.place[1] \in Nat /\ q.place[1] \in Nat
        BY <1>3
    <2> QED BY <1>4, <1>5, <2>1
<1> QED
    BY <1>3, <1>6 DEF First

(* The positions of a list are finitely many.                              *)
LEMMA PositionsFinite ==
    ASSUME NEW T, NEW q \in Seq(T)
    PROVE  IsFiniteSet(DOMAIN q) /\ DOMAIN q \subseteq Nat
<1>1. DOMAIN q = 1 .. Len(q) /\ Len(q) \in Nat
    OBVIOUS
<1> QED
    BY <1>1, FS_Interval

(* The lists of a configuration.                                           *)
LEMMA ConfigLists ==
    ASSUME NEW s \in Sources, cfgs[s] \in ConfigType
    PROVE  /\ cfgs[s].types \in Seq(EventTypes \cup {"all"})
           /\ \A i \in DOMAIN cfgs[s].resources :
                 /\ cfgs[s].resources[i] \in ResourceType
                 /\ cfgs[s].resources[i].types \in Seq(EventTypes \cup {"all"})
<1>1. cfgs[s].types \in Seq(EventTypes \cup {"all"}) /\ cfgs[s].resources \in Seq(ResourceType)
    BY DEF ConfigType
<1>2. \A i \in DOMAIN cfgs[s].resources : cfgs[s].resources[i] \in ResourceType
    BY <1>1
<1>3. \A entry \in ResourceType : entry.types \in Seq(EventTypes \cup {"all"})
    BY DEF ResourceType
<1> QED
    BY <1>1, <1>2, <1>3

(* A place is a position of the configuration, and the places of a source that *)
(* listen for an event are finitely many.                                       *)
LEMMA ListeningFinite ==
    ASSUME NEW s \in Sources, cfgs[s] \in ConfigType, NEW resource, NEW type
    PROVE  /\ IsFiniteSet(Listening(s, resource, type))
           /\ Listening(s, resource, type) \subseteq Nat \X Nat
           /\ \A p \in Listening(s, resource, type) : p[1] \in DOMAIN cfgs[s].resources
<1> DEFINE rows == DOMAIN cfgs[s].resources
           places(i) == {i} \X DOMAIN Types(s, i)
           f == [i \in rows |-> places(i)]
           All == UNION {places(i) : i \in rows}
<1>1. IsFiniteSet(rows) /\ rows \subseteq Nat
    <2>1. cfgs[s].resources \in Seq(ResourceType)
        BY DEF ConfigType
    <2> QED BY <2>1, PositionsFinite
<1>2. \A i \in rows : Types(s, i) \in Seq(EventTypes \cup {"all"})
    BY ConfigLists DEF Types
<1>3. \A i \in rows : IsFiniteSet(places(i)) /\ places(i) \subseteq Nat \X Nat
    <2> TAKE i \in rows
    <2>1. IsFiniteSet(DOMAIN Types(s, i)) /\ DOMAIN Types(s, i) \subseteq Nat
        BY <1>2, PositionsFinite
    <2>2. IsFiniteSet({i}) /\ {i} \subseteq Nat
        BY <1>1, FS_Singleton
    <2>3. IsFiniteSet(places(i))
        BY <2>1, <2>2, FS_Product
    <2> QED BY <2>1, <2>2, <2>3
<1>4. IsFiniteSet({places(i) : i \in rows})
    <2>1. f \in Surjection(rows, {places(i) : i \in rows})
        BY DEF Surjection
    <2> QED BY <1>1, <2>1, FS_Surjection
<1>5. IsFiniteSet(All)
    BY <1>3, <1>4, FS_UNION
<1>6. Listening(s, resource, type) \in SUBSET All
    BY DEF Listening
<1>7. All \subseteq Nat \X Nat
    BY <1>3
<1>8. \A p \in All : p[1] \in rows
    OBVIOUS
<1> QED
    BY <1>5, <1>6, <1>7, <1>8, FS_Subset

(* The routes a source has of its own are those of the places that listen  *)
(* (router.go:182).                                                        *)
LEMMA OwnRoutesAreListening ==
    ASSUME NEW s \in Sources, cfgs[s] \in ConfigType, NEW resource, NEW type \in EventTypes
    PROVE  OwnRoutes(s, resource, type) = {Route(s, p, type) : p \in Listening(s, resource, type)}
<1> DEFINE cfg == cfgs[s]
           flat(i) == FlattenTypes(cfg.types, cfg.resources[i].types)
           rows == {k \in DOMAIN cfg.resources : cfg.resources[k].type = resource}
           places == UNION {{i} \X DOMAIN flat(i) : i \in rows}
           all == UNION {{i} \X DOMAIN Types(s, i) : i \in DOMAIN cfg.resources}
<1>1. \A i : DOMAIN flat(i) = DOMAIN Types(s, i)
    BY DEF FlattenTypes, Types
<1>2. \A i \in DOMAIN cfg.resources : \A j \in DOMAIN Types(s, i) :
          type \in flat(i)[j] <=> Types(s, i)[j] \in {type, "all"}
    BY DEF FlattenTypes, Types, EventTypes
<1>3. places = {p \in all : cfg.resources[p[1]].type = resource}
    <2> HIDE DEF flat
    <2> QED BY <1>1
<1>4. \A p \in all : p[1] \in DOMAIN cfg.resources /\ p[2] \in DOMAIN Types(s, p[1])
    OBVIOUS
<1>5. {q \in places : type \in flat(q[1])[q[2]]} = Listening(s, resource, type)
    <2> HIDE DEF flat, places, all
    <2>1. Listening(s, resource, type) =
              {p \in all : cfg.resources[p[1]].type = resource /\ Types(s, p[1])[p[2]] \in {type, "all"}}
        BY DEF Listening, all
    <2> QED BY <1>2, <1>3, <1>4, <2>1
<1>6. OwnRoutes(s, resource, type) = {Route(s, p, type) : p \in {q \in places : type \in flat(q[1])[q[2]]}}
    BY DEF OwnRoutes
<1> QED
    <2> HIDE DEF places, flat
    <2> QED BY <1>5, <1>6

(* A route carries the constraints in effect at its place.                 *)
LEMMA RouteFields ==
    ASSUME NEW s, NEW p, NEW type
    PROVE  RouteFacts(Route(s, p, type), s, p, type)
BY DEF Route, RouteFacts

(* There are no more routes than places.                                   *)
LEMMA OwnRoutesFinite ==
    ASSUME NEW s \in Sources, cfgs[s] \in ConfigType, NEW resource, NEW type \in EventTypes
    PROVE  /\ IsFiniteSet(OwnRoutes(s, resource, type))
           /\ Cardinality(OwnRoutes(s, resource, type)) <= Cardinality(Listening(s, resource, type))
           /\ \A r \in OwnRoutes(s, resource, type) : r.place \in Nat \X Nat /\ r.source = s
<1>1. PICK L : L = Listening(s, resource, type)
    OBVIOUS
<1> DEFINE f == [p \in L |-> Route(s, p, type)]
<1>2. OwnRoutes(s, resource, type) = {Route(s, p, type) : p \in L}
    BY <1>1, OwnRoutesAreListening
<1>3. IsFiniteSet(L) /\ L \subseteq Nat \X Nat
    BY <1>1, ListeningFinite
<1>4. f \in Surjection(L, OwnRoutes(s, resource, type))
    BY <1>2 DEF Surjection
<1>5. \A r \in OwnRoutes(s, resource, type) : r.place \in Nat \X Nat /\ r.source = s
    BY <1>2, <1>3, RouteFields DEF RouteFacts
<1> QED
    <2> HIDE DEF f
    <2> QED BY <1>1, <1>3, <1>4, <1>5, FS_Surjection

(* The checks of matchEvent, one by one.                                   *)
LEMMA MatchesFields ==
    ASSUME NEW r
    PROVE  /\ Matches(r) <=> r.event \in Passed /\ r.name \in Passed /\ r.ns \in Passed /\ r.labels \in Passed
           /\ Errs(r) => "bad" \in {r.event, r.name, r.ns, r.labels}
<1>1. /\ Checks(r)[1] = r.event /\ Checks(r)[2] = r.name
      /\ Checks(r)[3] = r.ns /\ Checks(r)[4] = r.labels
    BY DEF Checks
<1>2. 1..4 = {1, 2, 3, 4}
    OBVIOUS
<1> QED
    BY <1>1, <1>2 DEF Matches, Errs

(* A route of a place matches when the place applies, and fails only for a *)
(* pattern in effect there.                                                *)
LEMMA RouteMatches ==
    ASSUME NEW r, NEW s, NEW p, NEW type, RouteFacts(r, s, p, type)
    PROVE  /\ Matches(r) <=> Applies(s, p)
           /\ Errs(r) => "bad" \in InEffect(s, p)
<1>1. InEffect(s, p) = {r.event, r.name, r.ns, r.labels}
    BY DEF RouteFacts, InEffect, Own, Defined, Effective
<1> QED
    BY <1>1, MatchesFields DEF Applies, Passed

-----------------------------------------------------------------------------
(* The routes of the table.                                                *)

RoutesOf(s, resource, type) == SetEventRoute(s, resource, type, OwnRoutes(s, resource, type))

\* The namespaces the recommendations of a source may be given.
Areas(s, resource, type) ==
    IF Listening(s, resource, type) = {} THEN {cfgs[s].ns}
    ELSE {Effective(cfgs[s].resources[p[1]].ns, cfgs[s].ns) : p \in Listening(s, resource, type)}

\* A route that setEventRouteForRecommendationsIfShould put in.
Recommends(r, s, resource, type) ==
    /\ RecommendationEvent(s, resource, type)
    /\ r.source = s /\ r.event = "undefined" /\ r.name = "undefined" /\ r.labels = "undefined"
    /\ r.fields = {} /\ r.ns \in Areas(s, resource, type)

(* What the recommendations do to the routes of a source (router.go:211):  *)
(* one route more only where there was none, and otherwise one of them     *)
(* replaced, in the same namespaces.                                       *)
LEMMA RoutesOfASource ==
    ASSUME NEW s \in Sources, cfgs[s] \in ConfigType, NEW resource, NEW type \in EventTypes
    PROVE  /\ IsFiniteSet(RoutesOf(s, resource, type))
           /\ Cardinality(RoutesOf(s, resource, type)) <=
                 IF RecommendationEvent(s, resource, type) /\ Listening(s, resource, type) = {} THEN 1
                 ELSE Cardinality(Listening(s, resource, type))
           /\ \A r \in RoutesOf(s, resource, type) :
                 \/ \E p \in Listening(s, resource, type) : RouteFacts(r, s, p, type)
                 \/ Recommends(r, s, resource, type)
           /\ \A p \in Listening(s, resource, type) : \E r \in RoutesOf(s, resource, type) :
                 \/ RouteFacts(r, s, p, type)
                 \/ /\ Recommends(r, s, resource, type)
                    /\ r.ns = Effective(cfgs[s].resources[p[1]].ns, cfgs[s].ns)
<1>1. PICK own : own = OwnRoutes(s, resource, type)
    OBVIOUS
<1>2. PICK L : L = Listening(s, resource, type)
    OBVIOUS
<1>3. /\ IsFiniteSet(own) /\ IsFiniteSet(L) /\ Cardinality(own) <= Cardinality(L)
      /\ Cardinality(own) \in Nat /\ Cardinality(L) \in Nat
      /\ \A r \in own : r.place \in Nat \X Nat
    BY <1>1, <1>2, OwnRoutesFinite, ListeningFinite, FS_CardinalityType
<1>4. /\ \A r \in own : \E p \in L : RouteFacts(r, s, p, type)
      /\ \A p \in L : \E r \in own : RouteFacts(r, s, p, type)
      /\ own = {} <=> L = {}
    BY <1>1, <1>2, OwnRoutesAreListening, RouteFields
<1>5. CASE ~RecommendationEvent(s, resource, type)
    <2>1. RoutesOf(s, resource, type) = own
        BY <1>1, <1>5 DEF RoutesOf, SetEventRoute
    <2> QED BY <1>2, <1>3, <1>4, <1>5, <2>1
<1>6. CASE RecommendationEvent(s, resource, type) /\ L = {}
    <2>1. RoutesOf(s, resource, type) = {RecommendationRoute(s, <<0, 0>>, cfgs[s].ns)}
        BY <1>1, <1>4, <1>6 DEF RoutesOf, SetEventRoute
    <2>2. Recommends(RecommendationRoute(s, <<0, 0>>, cfgs[s].ns), s, resource, type)
        BY <1>2, <1>6 DEF Recommends, RecommendationRoute, Areas
    <2>3. IsFiniteSet(RoutesOf(s, resource, type)) /\ Cardinality(RoutesOf(s, resource, type)) <= 1
        <3>1. Cardinality(RoutesOf(s, resource, type)) = 1 /\ IsFiniteSet(RoutesOf(s, resource, type))
            BY <2>1, FS_Singleton
        <3> QED BY <3>1
    <2>4. \A r \in RoutesOf(s, resource, type) : Recommends(r, s, resource, type)
        BY <2>1, <2>2
    <2> QED BY <1>2, <1>6, <2>3, <2>4
<1>7. CASE RecommendationEvent(s, resource, type) /\ L # {}
    <2>1. PICK r : r = First(own)
        OBVIOUS
    <2>2. r \in own
        BY <1>3, <1>4, <1>7, <2>1, FirstIsARoute
    <2>3. PICK new : new = RecommendationRoute(s, r.place, Own(r.ns, cfgs[s].ns))
        OBVIOUS
    <2>4. RoutesOf(s, resource, type) = (own \ {r}) \cup {new}
        BY <1>1, <1>4, <1>7, <2>1, <2>3 DEF RoutesOf, SetEventRoute
    <2>5. \A p \in L : RouteFacts(r, s, p, type) =>
             new.ns = Effective(cfgs[s].resources[p[1]].ns, cfgs[s].ns)
        BY <2>3 DEF RouteFacts, RecommendationRoute, Own, Defined, Effective
    <2>6. Recommends(new, s, resource, type)
        <3>1. PICK p \in L : RouteFacts(r, s, p, type)
            BY <1>4, <2>2
        <3>2. new.ns \in Areas(s, resource, type)
            BY <1>2, <1>7, <2>5, <3>1 DEF Areas
        <3> QED BY <1>7, <2>3, <3>2 DEF Recommends, RecommendationRoute
    <2>7. /\ IsFiniteSet((own \ {r}) \cup {new})
          /\ Cardinality((own \ {r}) \cup {new}) <= Cardinality(own)
        <3>1. IsFiniteSet(own \ {r}) /\ Cardinality(own \ {r}) = Cardinality(own) - 1
            BY <1>3, <2>2, FS_RemoveElement
        <3>2. /\ IsFiniteSet((own \ {r}) \cup {new})
              /\ Cardinality((own \ {r}) \cup {new}) \in {Cardinality(own) - 1, Cardinality(own) - 1 + 1}
            BY <3>1, FS_AddElement
        <3> QED BY <1>3, <3>2
    <2>8. /\ IsFiniteSet(RoutesOf(s, resource, type))
          /\ Cardinality(RoutesOf(s, resource, type)) <= Cardinality(L)
        <3>1. Cardinality((own \ {r}) \cup {new}) \in Nat
            BY <2>7, FS_CardinalityType
        <3> QED BY <1>3, <2>4, <2>7, <3>1
    <2>9. \A q \in RoutesOf(s, resource, type) :
             (\E p \in L : RouteFacts(q, s, p, type)) \/ Recommends(q, s, resource, type)
        BY <1>4, <2>4, <2>6
    <2>10. \A p \in L : \E q \in RoutesOf(s, resource, type) :
              \/ RouteFacts(q, s, p, type)
              \/ /\ Recommends(q, s, resource, type)
                 /\ q.ns = Effective(cfgs[s].resources[p[1]].ns, cfgs[s].ns)
        BY <1>4, <2>4, <2>5, <2>6
    <2> QED BY <1>2, <1>7, <2>8, <2>9, <2>10
<1> QED
    BY <1>5, <1>6, <1>7

ConfigsOK == cfgs \in [Sources -> SourceConfigs]

LEMMA ConfigFacts ==
    ASSUME ConfigsOK, NEW s \in Sources
    PROVE  cfgs[s] \in ConfigType
BY EventRoutingAssumption DEF ConfigsOK

(* Merging keeps the routes of the sources apart (router.go:175).          *)
LEMMA MergedRoutes ==
    ASSUME ConfigsOK, NEW resource, NEW type \in EventTypes
    PROVE  /\ IsFiniteSet(MergeEventRoutes(resource, type))
           /\ \A r \in MergeEventRoutes(resource, type) : \E s \in Sources : r \in RoutesOf(s, resource, type)
           /\ \A s \in Sources : OfSource(MergeEventRoutes(resource, type), s) = RoutesOf(s, resource, type)
<1> DEFINE routes(s) == RoutesOf(s, resource, type)
           f == [s \in Sources |-> routes(s)]
<1>1. MergeEventRoutes(resource, type) = UNION {routes(s) : s \in Sources}
    BY DEF MergeEventRoutes, RoutesOf
<1>2. \A s \in Sources : IsFiniteSet(routes(s)) /\ \A r \in routes(s) : r.source = s
    BY ConfigFacts, RoutesOfASource DEF RouteFacts, Recommends
<1> HIDE DEF routes
<1>3. IsFiniteSet({routes(s) : s \in Sources})
    <2>1. f \in Surjection(Sources, {routes(s) : s \in Sources})
        BY DEF Surjection
    <2> HIDE DEF f
    <2> QED BY <2>1, EventRoutingAssumption, FS_Surjection
<1>4. IsFiniteSet(UNION {routes(s) : s \in Sources})
    BY <1>2, <1>3, FS_UNION
<1>5. \A s \in Sources : OfSource(MergeEventRoutes(resource, type), s) = routes(s)
    BY <1>1, <1>2 DEF OfSource
<1>6. \A r \in MergeEventRoutes(resource, type) : \E s \in Sources : r \in routes(s)
    BY <1>1
<1> QED
    BY <1>1, <1>4, <1>5, <1>6 DEF routes

(* What matchEvent and qualifyEvent count (registration.go:265).           *)
LEMMA Counts ==
    ASSUME ConfigsOK, NEW resource, NEW type \in EventTypes, NEW s \in Sources, NEW o
    PROVE  LET routes == MergeEventRoutes(resource, type)
               matching == {r \in RoutesOf(s, resource, type) : Matches(r)}
           IN /\ IsFiniteSet(matching)
              /\ MatchEvent(routes, s) = Cardinality(matching)
              /\ MatchEvent(routes, s) > 0 <=> matching # {}
              /\ QualifyEvent(routes, o, s) > 0 <=>
                    /\ \A r \in routes : ~Errs(r)
                    /\ matching # {}
                    /\ o.type = "update" => UpdateRoutes(routes, o) # {}
              /\ o.type # "update" => QualifyEvent(routes, o, s) \in {0, Cardinality(matching)}
<1>1. PICK routes : routes = MergeEventRoutes(resource, type)
    OBVIOUS
<1>2. PICK matching : matching = {r \in RoutesOf(s, resource, type) : Matches(r)}
    OBVIOUS
<1>3. OfSource(Candidates(routes), s) = matching
    BY <1>1, <1>2, MergedRoutes DEF OfSource, Candidates
<1>4. IsFiniteSet(matching)
    <2>1. matching \in SUBSET RoutesOf(s, resource, type)
        BY <1>2
    <2> QED BY <2>1, ConfigFacts, RoutesOfASource, FS_Subset
<1>5. IsFiniteSet(UpdateRoutes(routes, o))
    <2>1. UpdateRoutes(routes, o) \in SUBSET routes
        BY DEF UpdateRoutes
    <2> QED BY <1>1, <2>1, MergedRoutes, FS_Subset
<1>6. \A T : IsFiniteSet(T) => Cardinality(T) \in Nat /\ (Cardinality(T) > 0 <=> T # {})
    <2> SUFFICES ASSUME NEW T, IsFiniteSet(T) PROVE Cardinality(T) \in Nat /\ (Cardinality(T) > 0 <=> T # {})
        OBVIOUS
    <2>1. Cardinality(T) \in Nat /\ (Cardinality(T) = 0 <=> T = {})
        BY FS_CardinalityType, FS_EmptySet
    <2> QED BY <2>1
<1>7. PICK m : m = Cardinality(matching)
    OBVIOUS
<1>8. PICK u : u = Cardinality(UpdateRoutes(routes, o))
    OBVIOUS
<1>9. m \in Nat /\ u \in Nat /\ (m > 0 <=> matching # {}) /\ (u > 0 <=> UpdateRoutes(routes, o) # {})
    BY <1>4, <1>5, <1>6, <1>7, <1>8
<1>10. QualifyEvent(routes, o, s) = IF \E r \in routes : Errs(r) THEN 0
                                    ELSE m * (IF o.type = "update" THEN u ELSE 1)
    BY <1>3, <1>7, <1>8 DEF QualifyEvent
<1>11. MatchEvent(routes, s) = m
    BY <1>3, <1>7 DEF MatchEvent
<1>12. m * u > 0 <=> m > 0 /\ u > 0
    BY <1>9
<1>13. m * 1 = m
    BY <1>9
<1>14. QualifyEvent(routes, o, s) > 0 <=>
           /\ \A r \in routes : ~Errs(r)
           /\ matching # {}
           /\ o.type = "update" => UpdateRoutes(routes, o) # {}
    BY <1>9, <1>10, <1>12, <1>13
<1> QED
    BY <1>1, <1>2, <1>4, <1>7, <1>9, <1>10, <1>11, <1>13, <1>14

-----------------------------------------------------------------------------
(* The invariant.                                                          *)

ErrorResources == ResourcesForEvents({"error"})

(* The table is built once, from configurations that do not change.        *)
TableInv ==
    at # "new" => \A resource \in Resources, type \in EventTypes :
                      table[resource][type] = MergeEventRoutes(resource, type)

(* What is registered before and after the errors were mapped.             *)
RegistrationsInv ==
    /\ at = "registered" =>
          /\ DOMAIN registrations = ResourcesForEvents(Informed)
          /\ \A resource \in DOMAIN registrations :
                registrations[resource] = [events |-> ResourceEvents(resource), mapped |-> {}]
    /\ at \in {"mapped", "running"} =>
          /\ DOMAIN registrations =
                ResourcesForEvents(Informed) \cup (IF ErrorResources = {} THEN {} ELSE {EventsResource})
          /\ \A resource \in DOMAIN registrations :
                registrations[resource] =
                    IF resource = EventsResource /\ ErrorResources # {}
                    THEN [events |-> {"warning"}, mapped |-> ErrorResources]
                    ELSE [events |-> ResourceEvents(resource), mapped |-> {}]

(* Which handlers there are: one for everything the table has routes for,  *)
(* but for the events whose registration the mapping of errors replaced.   *)
HandlersInv ==
    at = "running" =>
        /\ handlers \subseteq (DOMAIN registrations) \X EventTypes
        /\ \A resource \in Resources, type \in Informed :
              <<resource, type>> \in handlers <=>
                  /\ table[resource][type] # {}
                  /\ resource = EventsResource => ErrorResources = {}
        /\ <<EventsResource, "error">> \in handlers <=> ErrorResources # {}
        /\ ErrorResources # {} => registrations[EventsResource].mapped = ErrorResources

(* The counts are those of the object reported last.                       *)
ToldInv ==
    \/ last = None /\ told = [s \in Sources |-> [type \in EventTypes |-> 0]]
    \/ /\ last \in Objects /\ at = "running"
       /\ told = [s \in Sources |-> [type \in EventTypes |->
                    IF type = last.type THEN Direct(last, s)
                    ELSE IF type = "error" THEN Mapped(last, s) ELSE 0]]

RoutingInv ==
    /\ ConfigsOK
    /\ at \in {"new", "built", "registered", "mapped", "running"}
    /\ TableInv /\ RegistrationsInv /\ HandlersInv /\ ToldInv
    /\ at \in {"new", "built"} => registrations = <<>>
    /\ at # "running" => handlers = {} /\ last = None
    /\ at = "new" => table = [resource \in Resources |-> [type \in EventTypes |-> {}]]

(* The routes depend on the configurations alone.                          *)
LEMMA MergeNext ==
    ASSUME cfgs' = cfgs, NEW resource, NEW type
    PROVE  MergeEventRoutes(resource, type)' = MergeEventRoutes(resource, type)
BY DEF MergeEventRoutes, SetEventRoute, OwnRoutes, Route, RecommendationEvent, FlattenTypes,
       RecommendationRoute, First, Own, Defined

(* What is read from the table, the registrations and the handlers.        *)
LEMMA TableNext ==
    ASSUME table' = table
    PROVE  /\ \A resource : ResourceEvents(resource)' = ResourceEvents(resource)
           /\ \A types : ResourcesForEvents(types)' = ResourcesForEvents(types)
           /\ ErrorResources' = ErrorResources
BY DEF ResourceEvents, ResourcesForEvents, ErrorResources

LEMMA ReportNext ==
    ASSUME UNCHANGED <<table, registrations, handlers>>, NEW o, NEW s
    PROVE  Direct(o, s)' = Direct(o, s) /\ Mapped(o, s)' = Mapped(o, s)
BY DEF Direct, Mapped, HandlesDirect, HandlesMapped

LEMMA InitInv == Init => RoutingInv
BY DEF Init, RoutingInv, ConfigsOK, TableInv, RegistrationsInv, HandlersInv, ToldInv

LEMMA BuildTableStep == RoutingInv /\ BuildTable => RoutingInv'
<1> SUFFICES ASSUME RoutingInv, BuildTable PROVE RoutingInv'
    OBVIOUS
<1> USE DEF BuildTable, RoutingInv
<1>1. at = "new" /\ at' = "built" /\ UNCHANGED <<cfgs, registrations, handlers, last, told>>
    OBVIOUS
<1>2. ConfigsOK' /\ RegistrationsInv' /\ HandlersInv'
    BY <1>1 DEF ConfigsOK, RegistrationsInv, HandlersInv
<1>3. TableInv'
    <2>1. \A resource \in Resources, type \in EventTypes :
              table'[resource][type] = MergeEventRoutes(resource, type)
        OBVIOUS
    <2> QED BY <1>1, <2>1, MergeNext DEF TableInv
<1>4. last = None /\ last' = None
    BY <1>1
<1>5. ToldInv'
    BY <1>1, <1>4 DEF ToldInv
<1> QED
    BY <1>1, <1>2, <1>3, <1>4, <1>5

LEMMA RegisterInformersStep == RoutingInv /\ RegisterInformers => RoutingInv'
<1> SUFFICES ASSUME RoutingInv, RegisterInformers PROVE RoutingInv'
    OBVIOUS
<1>1. at = "built" /\ at' = "registered" /\ UNCHANGED <<cfgs, table, handlers, last, told>> /\ last = None
    BY DEF RegisterInformers, RoutingInv
<1>2. ConfigsOK' /\ HandlersInv'
    BY <1>1 DEF ConfigsOK, HandlersInv, RoutingInv
<1>3. TableInv'
    BY <1>1, MergeNext DEF TableInv, RoutingInv
<1>4. RegistrationsInv'
    BY <1>1, TableNext DEF RegistrationsInv, RegisterInformers
<1>5. ToldInv'
    BY <1>1 DEF ToldInv, RoutingInv
<1> QED
    BY <1>1, <1>2, <1>3, <1>4, <1>5 DEF RoutingInv

LEMMA MapWithEventsInformerStep == RoutingInv /\ MapWithEventsInformer => RoutingInv'
<1> SUFFICES ASSUME RoutingInv, MapWithEventsInformer PROVE RoutingInv'
    OBVIOUS
<1>1. at = "registered" /\ at' = "mapped" /\ UNCHANGED <<cfgs, table, handlers, last, told>> /\ last = None
    BY DEF MapWithEventsInformer, RoutingInv
<1>2. ConfigsOK' /\ HandlersInv'
    BY <1>1 DEF ConfigsOK, HandlersInv, RoutingInv
<1>3. TableInv'
    BY <1>1, MergeNext DEF TableInv, RoutingInv
<1>4. RegistrationsInv'
    <2>1. /\ DOMAIN registrations = ResourcesForEvents(Informed)
          /\ \A resource \in DOMAIN registrations :
                registrations[resource] = [events |-> ResourceEvents(resource), mapped |-> {}]
        BY <1>1 DEF RoutingInv, RegistrationsInv
    <2>2. registrations' =
              IF ErrorResources = {} THEN registrations
              ELSE [resource \in DOMAIN registrations \cup {EventsResource} |->
                       IF resource = EventsResource THEN [events |-> {"warning"}, mapped |-> ErrorResources]
                       ELSE registrations[resource]]
        BY DEF MapWithEventsInformer, ErrorResources
    <2>3. /\ DOMAIN registrations' =
                ResourcesForEvents(Informed) \cup (IF ErrorResources = {} THEN {} ELSE {EventsResource})
          /\ \A resource \in DOMAIN registrations' :
                registrations'[resource] =
                    IF resource = EventsResource /\ ErrorResources # {}
                    THEN [events |-> {"warning"}, mapped |-> ErrorResources]
                    ELSE [events |-> ResourceEvents(resource), mapped |-> {}]
        BY <2>1, <2>2
    <2> QED BY <1>1, <2>3, TableNext DEF RegistrationsInv
<1>5. ToldInv'
    BY <1>1 DEF ToldInv, RoutingInv
<1> QED
    BY <1>1, <1>2, <1>3, <1>4, <1>5 DEF RoutingInv

LEMMA RegisterEventHandlersStep == RoutingInv /\ RegisterEventHandlers => RoutingInv'
<1> SUFFICES ASSUME RoutingInv, RegisterEventHandlers PROVE RoutingInv'
    OBVIOUS
<1>1. at = "mapped" /\ at' = "running" /\ UNCHANGED <<cfgs, table, registrations, last, told>> /\ last = None
    BY DEF RegisterEventHandlers, RoutingInv
<1>2. ConfigsOK'
    BY <1>1 DEF ConfigsOK, RoutingInv
<1>3. TableInv'
    BY <1>1, MergeNext DEF TableInv, RoutingInv
<1>4. RegistrationsInv'
    BY <1>1, TableNext DEF RegistrationsInv, RoutingInv
<1>5. /\ ErrorResources # {} =>
            /\ EventsResource \in DOMAIN registrations
            /\ registrations[EventsResource].events = {"warning"}
            /\ registrations[EventsResource].mapped = ErrorResources
      /\ \A resource \in DOMAIN registrations : ~(resource = EventsResource /\ ErrorResources # {}) =>
            /\ registrations[resource].events = ResourceEvents(resource)
            /\ registrations[resource].mapped = {}
      /\ ResourcesForEvents(Informed) \subseteq DOMAIN registrations
    <2>1. /\ DOMAIN registrations =
                ResourcesForEvents(Informed) \cup (IF ErrorResources = {} THEN {} ELSE {EventsResource})
          /\ \A resource \in DOMAIN registrations :
                registrations[resource] =
                    IF resource = EventsResource /\ ErrorResources # {}
                    THEN [events |-> {"warning"}, mapped |-> ErrorResources]
                    ELSE [events |-> ResourceEvents(resource), mapped |-> {}]
        BY <1>1 DEF RoutingInv, RegistrationsInv
    <2>2. ErrorResources # {} =>
              /\ EventsResource \in DOMAIN registrations
              /\ registrations[EventsResource] = [events |-> {"warning"}, mapped |-> ErrorResources]
        BY <2>1
    <2>3. \A resource \in DOMAIN registrations : ~(resource = EventsResource /\ ErrorResources # {}) =>
              registrations[resource] = [events |-> ResourceEvents(resource), mapped |-> {}]
        BY <2>1
    <2>4. ResourcesForEvents(Informed) \subseteq DOMAIN registrations
        BY <2>1
    <2> QED BY <2>2, <2>3, <2>4
<1>6. handlers' = {h \in (DOMAIN registrations) \X Informed : h[2] \in registrations[h[1]].events}
                  \cup {<<resource, "error">> : resource \in
                           {r \in DOMAIN registrations : registrations[r].mapped # {}}}
    BY DEF RegisterEventHandlers
<1>7. /\ "error" \notin Informed /\ "warning" \notin Informed
      /\ Informed \subseteq EventTypes /\ "error" \in EventTypes
    BY DEF Informed, EventTypes
<1>8. handlers' \subseteq (DOMAIN registrations) \X EventTypes
    BY <1>6, <1>7
<1>9. \A resource \in Resources, type \in Informed :
          <<resource, type>> \in handlers' <=>
              table[resource][type] # {} /\ (resource = EventsResource => ErrorResources = {})
    <2> TAKE resource \in Resources, type \in Informed
    <2>1. <<resource, type>> \in handlers' <=>
              resource \in DOMAIN registrations /\ type \in registrations[resource].events
        BY <1>6, <1>7
    <2>2. type \in ResourceEvents(resource) <=> table[resource][type] # {}
        BY <1>7 DEF ResourceEvents
    <2>3. table[resource][type] # {} => resource \in ResourcesForEvents(Informed)
        BY <2>2 DEF ResourcesForEvents
    <2>4. CASE resource = EventsResource /\ ErrorResources # {}
        BY <1>5, <1>7, <2>1, <2>4
    <2>5. CASE ~(resource = EventsResource /\ ErrorResources # {})
        BY <1>5, <2>1, <2>2, <2>3, <2>5
    <2> QED BY <2>4, <2>5
<1>10. <<EventsResource, "error">> \in handlers' <=> ErrorResources # {}
    <2>1. <<EventsResource, "error">> \in handlers' <=>
              EventsResource \in DOMAIN registrations /\ registrations[EventsResource].mapped # {}
        BY <1>6, <1>7
    <2> QED BY <1>5, <2>1
<1>11. ErrorResources # {} => registrations[EventsResource].mapped = ErrorResources
    BY <1>5
<1>12. HandlersInv'
    BY <1>1, <1>8, <1>9, <1>10, <1>11, TableNext DEF HandlersInv
<1>13. ToldInv'
    BY <1>1 DEF ToldInv, RoutingInv
<1> QED
    BY <1>1, <1>2, <1>3, <1>4, <1>12, <1>13 DEF RoutingInv

LEMMA ObjectReportedStep == ASSUME NEW o \in Objects PROVE RoutingInv /\ ObjectReported(o) => RoutingInv'
<1> SUFFICES ASSUME RoutingInv, ObjectReported(o) PROVE RoutingInv'
    OBVIOUS
<1>1. /\ at = "running" /\ at' = "running" /\ last' = o
      /\ UNCHANGED <<cfgs, table, registrations, handlers>>
    BY DEF ObjectReported
<1>2. ConfigsOK'
    BY <1>1 DEF ConfigsOK, RoutingInv
<1>3. TableInv'
    BY <1>1, MergeNext DEF TableInv, RoutingInv
<1>4. RegistrationsInv' /\ HandlersInv'
    BY <1>1, TableNext DEF RegistrationsInv, HandlersInv, RoutingInv
<1>5. ToldInv'
    <2>1. told' = [s \in Sources |-> [type \in EventTypes |->
                     IF type = o.type THEN Direct(o, s) ELSE IF type = "error" THEN Mapped(o, s) ELSE 0]]
        BY DEF ObjectReported
    <2>2. \A s : Direct(o, s)' = Direct(o, s) /\ Mapped(o, s)' = Mapped(o, s)
        BY <1>1, ReportNext
    <2>3. told' = [s \in Sources |-> [type \in EventTypes |->
                     IF type = o.type THEN Direct(o, s)' ELSE IF type = "error" THEN Mapped(o, s)' ELSE 0]]
        BY <2>1, <2>2
    <2> QED BY <1>1, <2>3 DEF ToldInv
<1> QED
    BY <1>1, <1>2, <1>3, <1>4, <1>5 DEF RoutingInv

(* The invariant holds in every reachable state.                           *)
LEMMA RoutingInvHolds == Spec => []RoutingInv
<1>1. RoutingInv /\ [Next]_vars => RoutingInv'
    <2> SUFFICES ASSUME RoutingInv, [Next]_vars PROVE RoutingInv'
        OBVIOUS
    <2>1. CASE Next
        BY <2>1, BuildTableStep, RegisterInformersStep, MapWithEventsInformerStep,
           RegisterEventHandlersStep, ObjectReportedStep DEF Next
    <2>2. CASE UNCHANGED vars
        <3>1. UNCHANGED <<cfgs, at, table, registrations, handlers, last, told>>
            BY <2>2 DEF vars
        <3>2. \A s : Direct(last, s)' = Direct(last, s) /\ Mapped(last, s)' = Mapped(last, s)
            BY <3>1, ReportNext
        <3>3. TableInv'
            BY <3>1, MergeNext DEF TableInv, RoutingInv
        <3>4. RegistrationsInv'
            BY <3>1, TableNext DEF RegistrationsInv, RoutingInv
        <3>6. HandlersInv'
            BY <3>1, TableNext DEF HandlersInv, RoutingInv
        <3>5. ToldInv'
            BY <3>1, <3>2 DEF ToldInv, RoutingInv
        <3> QED BY <3>1, <3>3, <3>4, <3>5, <3>6 DEF RoutingInv, ConfigsOK
    <2> QED BY <2>1, <2>2
<1> QED
    BY <1>1, InitInv, PTL DEF Spec

-----------------------------------------------------------------------------
(* What the counts of a source mean for its configuration.                 *)

(* A route of a source matches if a place of it applies, and otherwise it  *)
(* is the one for its recommendations.                                     *)
LEMMA Matching ==
    ASSUME ConfigsOK, NEW s \in Sources, NEW resource, NEW type \in EventTypes
    PROVE  /\ (\E p \in Listening(s, resource, type) : Applies(s, p))
                  => \E r \in RoutesOf(s, resource, type) : Matches(r)
           /\ (\E r \in RoutesOf(s, resource, type) : Matches(r)) =>
                  \/ \E p \in Listening(s, resource, type) : Applies(s, p)
                  \/ /\ RecommendationEvent(s, resource, type)
                     /\ Areas(s, resource, type) \cap {"undefined", "matches"} # {}
<1>1. cfgs[s] \in ConfigType
    BY ConfigFacts
<1>2. ASSUME NEW p \in Listening(s, resource, type), Applies(s, p)
      PROVE  \E r \in RoutesOf(s, resource, type) : Matches(r)
    <2>1. PICK r \in RoutesOf(s, resource, type) :
              \/ RouteFacts(r, s, p, type)
              \/ /\ Recommends(r, s, resource, type)
                 /\ r.ns = Effective(cfgs[s].resources[p[1]].ns, cfgs[s].ns)
        BY <1>1, RoutesOfASource
    <2>2. CASE RouteFacts(r, s, p, type)
        BY <1>2, <2>2, RouteMatches
    <2>3. CASE /\ Recommends(r, s, resource, type)
               /\ r.ns = Effective(cfgs[s].resources[p[1]].ns, cfgs[s].ns)
        <3>1. r.ns \in Passed
            BY <1>2, <2>3 DEF Applies, InEffect, Passed
        <3>2. r.event \in Passed /\ r.name \in Passed /\ r.labels \in Passed
            BY <2>3 DEF Recommends, Passed
        <3> QED BY <3>1, <3>2, MatchesFields
    <2> QED BY <2>1, <2>2, <2>3
<1>3. ASSUME NEW r \in RoutesOf(s, resource, type), Matches(r)
      PROVE  \/ \E p \in Listening(s, resource, type) : Applies(s, p)
             \/ /\ RecommendationEvent(s, resource, type)
                /\ Areas(s, resource, type) \cap {"undefined", "matches"} # {}
    <2>1. \/ \E p \in Listening(s, resource, type) : RouteFacts(r, s, p, type)
          \/ Recommends(r, s, resource, type)
        BY <1>1, RoutesOfASource
    <2>2. CASE \E p \in Listening(s, resource, type) : RouteFacts(r, s, p, type)
        BY <1>3, <2>2, RouteMatches
    <2>3. CASE Recommends(r, s, resource, type)
        <3>1. r.ns \in {"undefined", "matches"} /\ r.ns \in Areas(s, resource, type)
            BY <1>3, <2>3, MatchesFields DEF Recommends, Passed
        <3> QED BY <2>3, <3>1 DEF Recommends
    <2> QED BY <2>1, <2>2, <2>3
<1> QED
    BY <1>2, <1>3

(* A route fails only for a bad pattern of a configuration.                *)
LEMMA Failing ==
    ASSUME ConfigsOK, NEW resource, NEW type \in EventTypes,
           NEW r \in MergeEventRoutes(resource, type), Errs(r)
    PROVE  BadPattern(resource, type)
<1>1. PICK s \in Sources : r \in RoutesOf(s, resource, type)
    BY MergedRoutes
<1>2. \/ \E p \in Listening(s, resource, type) : RouteFacts(r, s, p, type)
      \/ Recommends(r, s, resource, type)
    BY <1>1, ConfigFacts, RoutesOfASource
<1>3. CASE \E p \in Listening(s, resource, type) : RouteFacts(r, s, p, type)
    BY <1>3, RouteMatches DEF BadPattern
<1>4. CASE Recommends(r, s, resource, type)
    <2>1. r.ns = "bad" /\ r.ns \in Areas(s, resource, type) /\ RecommendationEvent(s, resource, type)
        BY <1>4, MatchesFields DEF Recommends
    <2>2. CASE Listening(s, resource, type) = {}
        BY <2>1, <2>2 DEF Areas, BadPattern
    <2>3. CASE Listening(s, resource, type) # {}
        <3>1. PICK p \in Listening(s, resource, type) :
                  Effective(cfgs[s].resources[p[1]].ns, cfgs[s].ns) = "bad"
            BY <2>1, <2>3 DEF Areas
        <3>2. "bad" \in InEffect(s, p)
            BY <3>1 DEF InEffect
        <3> QED BY <3>2 DEF BadPattern
    <2> QED BY <2>2, <2>3
<1> QED
    BY <1>2, <1>3, <1>4

(* Errors are mapped when some configuration asks for them.                *)
LEMMA ErrorsAreMapped ==
    ASSUME RoutingInv, at = "running"
    PROVE  ErrorResources = {} <=> ~ErrorsWatched
<1>1. "error" \in EventTypes
    BY DEF EventTypes
<1>2. \A resource \in Resources : resource \in ErrorResources <=> MergeEventRoutes(resource, "error") # {}
    <2> TAKE resource \in Resources
    <2>1. table[resource]["error"] = MergeEventRoutes(resource, "error")
        BY <1>1 DEF RoutingInv, TableInv
    <2> QED BY <1>1, <2>1 DEF ErrorResources, ResourcesForEvents, ResourceEvents
<1>3. \A resource \in Resources :
          MergeEventRoutes(resource, "error") # {} <=> \E s \in Sources : Listening(s, resource, "error") # {}
    <2> TAKE resource \in Resources
    <2>1. \A s \in Sources : ~RecommendationEvent(s, resource, "error")
        BY DEF RecommendationEvent
    <2>2. \A s \in Sources : RoutesOf(s, resource, "error") # {} <=> Listening(s, resource, "error") # {}
        BY <1>1, <2>1, ConfigFacts, RoutesOfASource DEF RoutingInv, Recommends
    <2>3. MergeEventRoutes(resource, "error") # {} <=> \E s \in Sources : RoutesOf(s, resource, "error") # {}
        BY DEF MergeEventRoutes, RoutesOf
    <2> QED BY <2>2, <2>3
<1>4. ErrorResources \subseteq Resources
    BY DEF ErrorResources, ResourcesForEvents
<1> QED
    BY <1>2, <1>3, <1>4 DEF ErrorsWatched

(* The handler for the type of an object (registration.go:34).             *)
LEMMA DirectFacts ==
    ASSUME RoutingInv, at = "running", NEW o \in Objects, NEW s \in Sources
    PROVE  LET routes == MergeEventRoutes(o.resource, o.type)
           IN /\ Direct(o, s) \in {0, QualifyEvent(routes, o, s)}
              /\ Direct(o, s) > 0 <=> /\ "direct" \notin o.unread
                                      /\ QualifyEvent(routes, o, s) > 0
                                      /\ o.resource = EventsResource => ErrorResources = {}
<1>1. PICK routes : routes = MergeEventRoutes(o.resource, o.type)
    OBVIOUS
<1>2. o.resource \in Resources /\ o.type \in Informed /\ o.type \in EventTypes
    BY EventRoutingAssumption DEF ObjectType, Informed, EventTypes
<1>3. table[o.resource][o.type] = routes
    BY <1>1, <1>2 DEF RoutingInv, TableInv
<1>4. <<o.resource, o.type>> \in handlers <=>
          routes # {} /\ (o.resource = EventsResource => ErrorResources = {})
    BY <1>2, <1>3 DEF RoutingInv, HandlersInv
<1>5. QualifyEvent(routes, o, s) > 0 => routes # {}
    <2> SUFFICES ASSUME QualifyEvent(routes, o, s) > 0 PROVE routes # {}
        OBVIOUS
    <2>1. {r \in RoutesOf(s, o.resource, o.type) : Matches(r)} # {}
        BY <1>1, <1>2, Counts DEF RoutingInv
    <2>2. OfSource(routes, s) = RoutesOf(s, o.resource, o.type)
        BY <1>1, <1>2, MergedRoutes DEF RoutingInv
    <2> QED BY <2>1, <2>2 DEF OfSource
<1> QED
    BY <1>1, <1>3, <1>4, <1>5 DEF Direct, HandlesDirect

(* The handler for Event objects (registration.go:65).                     *)
LEMMA MappedFacts ==
    ASSUME RoutingInv, at = "running", NEW o \in Objects, NEW s \in Sources
    PROVE  Mapped(o, s) > 0 <=> /\ IsWarning(o) /\ "mapped" \notin o.unread
                                /\ MatchEvent(MergeEventRoutes(o.involved, "error"), s) > 0
<1>1. PICK routes : routes = MergeEventRoutes(o.involved, "error")
    OBVIOUS
<1>2. o.involved \in Resources /\ "error" \in EventTypes
    BY EventRoutingAssumption DEF ObjectType, EventTypes
<1>3. table[o.involved]["error"] = routes
    BY <1>1, <1>2 DEF RoutingInv, TableInv
<1>4. o.involved \in ErrorResources <=> routes # {}
    BY <1>2, <1>3 DEF ErrorResources, ResourcesForEvents, ResourceEvents
<1>5. HandlesMapped(o) <=> IsWarning(o) /\ "mapped" \notin o.unread /\ o.involved \in ErrorResources
    <2>1. /\ <<EventsResource, "error">> \in handlers <=> ErrorResources # {}
          /\ ErrorResources # {} => registrations[EventsResource].mapped = ErrorResources
        BY DEF RoutingInv, HandlersInv
    <2> QED BY <2>1 DEF HandlesMapped, IsWarning
<1>6. MatchEvent(routes, s) > 0 => routes # {}
    <2> SUFFICES ASSUME MatchEvent(routes, s) > 0 PROVE routes # {}
        OBVIOUS
    <2>1. {r \in RoutesOf(s, o.involved, "error") : Matches(r)} # {}
        BY <1>1, <1>2, Counts DEF RoutingInv
    <2>2. OfSource(routes, s) = RoutesOf(s, o.involved, "error")
        BY <1>1, <1>2, MergedRoutes DEF RoutingInv
    <2> QED BY <2>1, <2>2 DEF OfSource
<1> QED
    BY <1>1, <1>3, <1>4, <1>5, <1>6 DEF Mapped

-----------------------------------------------------------------------------
(* The properties.                                                         *)

\* What the count of a source is for the object reported last, if there is one.
LEMMA LastTold ==
    ASSUME RoutingInv, NEW s \in Sources
    PROVE  \/ last = None /\ \A type \in EventTypes : told[s][type] = 0
           \/ /\ last \in Objects /\ at = "running"
              /\ last.type \in Informed /\ last.type # "error"
              /\ told[s][last.type] = Direct(last, s)
              /\ told[s]["error"] = Mapped(last, s)
              /\ \A type \in Informed : type # last.type => told[s][type] = 0
<1>1. CASE last = None /\ told = [q \in Sources |-> [type \in EventTypes |-> 0]]
    BY <1>1
<1>2. CASE /\ last \in Objects /\ at = "running"
           /\ told = [q \in Sources |-> [type \in EventTypes |->
                        IF type = last.type THEN Direct(last, q)
                        ELSE IF type = "error" THEN Mapped(last, q) ELSE 0]]
    <2>1. last.type \in Informed
        BY <1>2, EventRoutingAssumption DEF ObjectType
    <2>2. \A type \in Informed : type \in EventTypes /\ type # "error"
        BY DEF Informed, EventTypes
    <2>3. "error" \in EventTypes
        BY DEF EventTypes
    <2> QED BY <1>2, <2>1, <2>2, <2>3
<1> QED
    BY <1>1, <1>2 DEF RoutingInv, ToldInv

LEMMA WatchedStep == RoutingInv => WatchedIsTold
<1> SUFFICES ASSUME RoutingInv, last # None, NEW s \in Sources
             PROVE  /\ /\ "direct" \notin last.unread
                       /\ Wants(s, last.resource, last.type, last)
                       /\ ~BadPattern(last.resource, last.type)
                       /\ last.resource = EventsResource => ~ErrorsWatched
                       => told[s][last.type] > 0
                    /\ IsWarning(last) /\ "mapped" \notin last.unread /\ Wants(s, last.involved, "error", last)
                       => told[s]["error"] > 0
    BY DEF WatchedIsTold
<1>1. /\ last \in Objects /\ at = "running" /\ last.type \in Informed /\ last.type # "error"
      /\ told[s][last.type] = Direct(last, s) /\ told[s]["error"] = Mapped(last, s)
    BY LastTold
<1>2. ConfigsOK /\ last.type \in EventTypes /\ "error" \in EventTypes
    BY <1>1 DEF RoutingInv, Informed, EventTypes
<1>3. ASSUME "direct" \notin last.unread, Wants(s, last.resource, last.type, last), ~BadPattern(last.resource, last.type),
             last.resource = EventsResource => ~ErrorsWatched
      PROVE  told[s][last.type] > 0
    <2> DEFINE routes == MergeEventRoutes(last.resource, last.type)
    <2>1. PICK p \in Listening(s, last.resource, last.type) : Applies(s, p) /\ Open(s, p, last)
        BY <1>1, <1>3 DEF Wants
    <2>2. {r \in RoutesOf(s, last.resource, last.type) : Matches(r)} # {}
        BY <1>2, <2>1, Matching
    <2>3. \A r \in routes : ~Errs(r)
        BY <1>2, <1>3, Failing
    <2>4. last.type = "update" => UpdateRoutes(routes, last) # {}
        <3> SUFFICES ASSUME last.type = "update" PROVE UpdateRoutes(routes, last) # {}
            OBVIOUS
        <3>1. ~RecommendationEvent(s, last.resource, last.type)
            BY DEF RecommendationEvent
        <3>2. PICK r \in RoutesOf(s, last.resource, last.type) : RouteFacts(r, s, p, last.type)
            BY <1>2, <2>1, <3>1, ConfigFacts, RoutesOfASource DEF Recommends
        <3>3. r \in routes
            BY <3>2 DEF MergeEventRoutes, RoutesOf
        <3>4. r.fields = {} \/ r.fields \cap last.changed # {}
            BY <2>1, <3>2 DEF RouteFacts, Open
        <3> QED BY <3>3, <3>4 DEF UpdateRoutes
    <2>5. QualifyEvent(routes, last, s) > 0
        BY <1>2, <2>2, <2>3, <2>4, Counts
    <2>6. last.resource = EventsResource => ErrorResources = {}
        BY <1>1, <1>3, ErrorsAreMapped
    <2> QED BY <1>1, <1>3, <2>5, <2>6, DirectFacts
<1>4. ASSUME IsWarning(last), "mapped" \notin last.unread, Wants(s, last.involved, "error", last)
      PROVE  told[s]["error"] > 0
    <2>1. \E p \in Listening(s, last.involved, "error") : Applies(s, p)
        BY <1>4 DEF Wants
    <2>2. {r \in RoutesOf(s, last.involved, "error") : Matches(r)} # {}
        BY <1>2, <2>1, Matching
    <2>3. MatchEvent(MergeEventRoutes(last.involved, "error"), s) > 0
        BY <1>2, <2>2, Counts
    <2> QED BY <1>1, <1>4, <2>3, MappedFacts
<1> QED
    BY <1>3, <1>4

LEMMA OnlyIfWatchedStep == RoutingInv => ToldOnlyIfWatched
<1> SUFFICES ASSUME RoutingInv, NEW s \in Sources
             PROVE  /\ told[s]["error"] > 0 => IsWarning(last) /\ Wants(s, last.involved, "error", last)
                    /\ \A type \in Informed : told[s][type] > 0 =>
                          /\ type = last.type
                          /\ \/ \E p \in Listening(s, last.resource, type) : Applies(s, p)
                             \/ /\ RecommendationEvent(s, last.resource, type)
                                /\ Areas(s, last.resource, type) \cap {"undefined", "matches"} # {}
                          /\ \E q \in Sources :
                                \/ RecommendationEvent(s, last.resource, type)
                                \/ \E p \in Listening(q, last.resource, type) : Open(q, p, last)
    BY DEF ToldOnlyIfWatched, Areas
<1>1. CASE last = None /\ \A type \in EventTypes : told[s][type] = 0
    <2>1. "error" \in EventTypes /\ Informed \subseteq EventTypes
        BY DEF EventTypes, Informed
    <2>2. ~(0 > 0)
        OBVIOUS
    <2> QED BY <1>1, <2>1, <2>2
<1>2. CASE /\ last \in Objects /\ at = "running"
           /\ last.type \in Informed /\ last.type # "error"
           /\ told[s][last.type] = Direct(last, s)
           /\ told[s]["error"] = Mapped(last, s)
           /\ \A type \in Informed : type # last.type => told[s][type] = 0
    <2>1. ConfigsOK /\ last.type \in EventTypes /\ "error" \in EventTypes
        BY <1>2 DEF RoutingInv, Informed, EventTypes
    <2>2. ASSUME told[s]["error"] > 0
          PROVE  IsWarning(last) /\ Wants(s, last.involved, "error", last)
        <3>1. IsWarning(last) /\ MatchEvent(MergeEventRoutes(last.involved, "error"), s) > 0
            BY <1>2, <2>2, MappedFacts
        <3>2. \E r \in RoutesOf(s, last.involved, "error") : Matches(r)
            BY <2>1, <3>1, Counts
        <3>3. \E p \in Listening(s, last.involved, "error") : Applies(s, p)
            BY <2>1, <3>2, Matching DEF RecommendationEvent
        <3> QED BY <3>1, <3>3 DEF Wants
    <2>3. ASSUME NEW type \in Informed, told[s][type] > 0
          PROVE  type = last.type
        <3>1. ~(0 > 0)
            OBVIOUS
        <3> QED BY <1>2, <2>3, <3>1
    <2>4. ASSUME told[s][last.type] > 0
          PROVE  /\ \/ \E p \in Listening(s, last.resource, last.type) : Applies(s, p)
                    \/ /\ RecommendationEvent(s, last.resource, last.type)
                       /\ Areas(s, last.resource, last.type) \cap {"undefined", "matches"} # {}
                 /\ \E q \in Sources :
                       \/ RecommendationEvent(s, last.resource, last.type)
                       \/ \E p \in Listening(q, last.resource, last.type) : Open(q, p, last)
        <3> DEFINE routes == MergeEventRoutes(last.resource, last.type)
        <3>1. QualifyEvent(routes, last, s) > 0
            BY <1>2, <2>4, DirectFacts
        <3>2. \E r \in RoutesOf(s, last.resource, last.type) : Matches(r)
            BY <2>1, <3>1, Counts
        <3>3. \/ \E p \in Listening(s, last.resource, last.type) : Applies(s, p)
              \/ /\ RecommendationEvent(s, last.resource, last.type)
                 /\ Areas(s, last.resource, last.type) \cap {"undefined", "matches"} # {}
            BY <2>1, <3>2, Matching
        <3>4. CASE last.type = "update"
            <4>1. PICK r \in routes : r.fields = {} \/ r.fields \cap last.changed # {}
                <5>1. UpdateRoutes(routes, last) # {}
                    BY <2>1, <3>1, <3>4, Counts
                <5> HIDE DEF routes
                <5> QED BY <5>1 DEF UpdateRoutes
            <4>2. PICK q \in Sources : r \in RoutesOf(q, last.resource, last.type)
                BY <2>1, MergedRoutes
            <4>3. ~RecommendationEvent(q, last.resource, last.type)
                BY <3>4 DEF RecommendationEvent
            <4>4. PICK p \in Listening(q, last.resource, last.type) : RouteFacts(r, q, p, last.type)
                BY <2>1, <4>2, <4>3, ConfigFacts, RoutesOfASource DEF Recommends
            <4>5. Open(q, p, last)
                BY <3>4, <4>1, <4>4 DEF RouteFacts, Open
            <4> QED BY <3>3, <4>4, <4>5
        <3>5. CASE last.type # "update"
            BY <3>3, <3>5 DEF Open
        <3> QED BY <3>4, <3>5
    <2> QED BY <2>2, <2>3, <2>4
<1> QED
    BY <1>1, <1>2, LastTold

LEMMA OncePerPlaceStep == RoutingInv => OncePerPlace
<1> SUFFICES ASSUME RoutingInv, last # None, last.type # "update", NEW s \in Sources
             PROVE  told[s][last.type] <=
                       IF /\ RecommendationEvent(s, last.resource, last.type)
                          /\ Cardinality(Listening(s, last.resource, last.type)) = 0
                       THEN 1 ELSE Cardinality(Listening(s, last.resource, last.type))
    BY DEF OncePerPlace
<1>1. /\ last \in Objects /\ at = "running" /\ last.type \in EventTypes
      /\ told[s][last.type] = Direct(last, s)
    BY LastTold DEF Informed, EventTypes
<1>2. ConfigsOK /\ cfgs[s] \in ConfigType
    BY ConfigFacts DEF RoutingInv
<1>3. PICK L : L = Listening(s, last.resource, last.type)
    OBVIOUS
<1>4. IsFiniteSet(L) /\ Cardinality(L) \in Nat /\ (Cardinality(L) = 0 <=> L = {})
    BY <1>2, <1>3, ListeningFinite, FS_CardinalityType, FS_EmptySet
<1>5. PICK R : R = RoutesOf(s, last.resource, last.type)
    OBVIOUS
<1>6. PICK matching : matching = {r \in R : Matches(r)}
    OBVIOUS
<1>7. told[s][last.type] \in {0, Cardinality(matching)}
    <2>1. QualifyEvent(MergeEventRoutes(last.resource, last.type), last, s) \in {0, Cardinality(matching)}
        BY <1>1, <1>2, <1>5, <1>6, Counts
    <2>2. Direct(last, s) \in {0, QualifyEvent(MergeEventRoutes(last.resource, last.type), last, s)}
        BY <1>1, DirectFacts
    <2> QED BY <1>1, <2>1, <2>2
<1>8. /\ IsFiniteSet(R)
      /\ Cardinality(R) <= IF RecommendationEvent(s, last.resource, last.type) /\ L = {} THEN 1
                           ELSE Cardinality(L)
    BY <1>1, <1>2, <1>3, <1>5, RoutesOfASource
<1>9. Cardinality(matching) \in Nat /\ Cardinality(R) \in Nat /\ Cardinality(matching) <= Cardinality(R)
    <2>1. matching \in SUBSET R
        BY <1>6
    <2> QED BY <1>8, <2>1, FS_Subset, FS_CardinalityType
<1> QED
    BY <1>3, <1>4, <1>7, <1>8, <1>9

LEMMA CountsAreNumbers ==
    ASSUME RoutingInv, at = "running", NEW o \in Objects, NEW s \in Sources
    PROVE  Direct(o, s) \in Nat /\ Mapped(o, s) \in Nat
<1>1. ConfigsOK /\ o.resource \in Resources /\ o.involved \in Resources
      /\ o.type \in EventTypes /\ "error" \in EventTypes
    BY EventRoutingAssumption DEF RoutingInv, ObjectType, Informed, EventTypes
<1>2. \A resource \in Resources, type \in EventTypes :
          /\ QualifyEvent(MergeEventRoutes(resource, type), o, s) \in Nat
          /\ MatchEvent(MergeEventRoutes(resource, type), s) \in Nat
    <2> TAKE resource \in Resources, type \in EventTypes
    <2>1. PICK routes : routes = MergeEventRoutes(resource, type)
        OBVIOUS
    <2>2. UpdateRoutes(routes, o) \in SUBSET routes /\ OfSource(Candidates(routes), s) \in SUBSET routes
        BY DEF UpdateRoutes, OfSource, Candidates
    <2>3. /\ Cardinality(UpdateRoutes(routes, o)) \in Nat
          /\ Cardinality(OfSource(Candidates(routes), s)) \in Nat
        BY <1>1, <2>1, <2>2, MergedRoutes, FS_Subset, FS_CardinalityType
    <2>4. QualifyEvent(routes, o, s) \in Nat /\ MatchEvent(routes, s) \in Nat
        BY <2>3 DEF QualifyEvent, MatchEvent
    <2> QED BY <2>1, <2>4
<1>3. Mapped(o, s) \in Nat
    <2>1. table[o.involved]["error"] = MergeEventRoutes(o.involved, "error")
        BY <1>1 DEF RoutingInv, TableInv
    <2>2. MatchEvent(table[o.involved]["error"], s) \in Nat
        BY <1>1, <1>2, <2>1
    <2> QED BY <2>2 DEF Mapped
<1>4. Direct(o, s) \in Nat
    <2>1. Direct(o, s) \in {0, QualifyEvent(MergeEventRoutes(o.resource, o.type), o, s)}
        BY DirectFacts
    <2> QED BY <1>1, <1>2, <2>1
<1> QED
    BY <1>3, <1>4

LEMMA TypeStep == RoutingInv => RoutingTypeOK
<1> SUFFICES ASSUME RoutingInv PROVE RoutingTypeOK
    OBVIOUS
<1>1. at \in {"new", "built", "registered", "mapped", "running"} /\ last \in Objects \cup {None}
    BY DEF RoutingInv, ToldInv
<1>2. DOMAIN registrations \subseteq Resources
    <2>1. CASE at \in {"new", "built"}
        BY <2>1 DEF RoutingInv
    <2>2. CASE at \in {"registered", "mapped", "running"}
        <3>1. ResourcesForEvents(Informed) \subseteq Resources /\ EventsResource \in Resources
            BY DEF ResourcesForEvents, Resources
        <3> QED BY <2>2, <3>1 DEF RoutingInv, RegistrationsInv
    <2> QED BY <1>1, <2>1, <2>2
<1>3. handlers \subseteq (DOMAIN registrations) \X EventTypes
    BY DEF RoutingInv, HandlersInv
<1>4. ASSUME NEW resource \in Resources, NEW type \in EventTypes, NEW r \in table[resource][type]
      PROVE  r.source \in Sources /\ (r.fields # {} => type = "update")
    <2>1. CASE at = "new"
        BY <1>4, <2>1 DEF RoutingInv
    <2>2. CASE at # "new"
        <3>1. r \in MergeEventRoutes(resource, type)
            BY <1>4, <2>2 DEF RoutingInv, TableInv
        <3>2. PICK s \in Sources : r \in RoutesOf(s, resource, type)
            BY <3>1, MergedRoutes DEF RoutingInv
        <3>3. (\E p : RouteFacts(r, s, p, type)) \/ Recommends(r, s, resource, type)
            BY <3>2, ConfigFacts, RoutesOfASource DEF RoutingInv
        <3> QED BY <3>3 DEF RouteFacts, Recommends
    <2> QED BY <2>1, <2>2
<1>5. ASSUME NEW s \in Sources, NEW type \in EventTypes
      PROVE  told[s][type] \in Nat
    <2>1. 0 \in Nat
        OBVIOUS
    <2>2. CASE last = None /\ \A t \in EventTypes : told[s][t] = 0
        BY <2>1, <2>2
    <2>3. CASE last \in Objects /\ at = "running"
        <3>1. Direct(last, s) \in Nat /\ Mapped(last, s) \in Nat
            BY <2>3, CountsAreNumbers
        <3>2. type = last.type \/ type = "error" \/ type \in Informed
            BY DEF EventTypes, Informed
        <3> QED BY <2>1, <2>2, <3>1, <3>2, LastTold
    <2> QED BY <2>2, <2>3, LastTold
<1> QED
    BY <1>1, <1>2, <1>3, <1>4, <1>5 DEF RoutingTypeOK

(* The table, the registrations and the counts stay within their types.    *)
THEOREM TypeCorrect == Spec => []RoutingTypeOK
BY RoutingInvHolds, TypeStep, PTL

(* Everything a configuration asks for reaches the event handler with its  *)
(* source, but for the two cases WatchedIsTold names (router.go:64-144).   *)
THEOREM WatchedIsToldHolds == Spec => []WatchedIsTold
BY RoutingInvHolds, WatchedStep, PTL

(* The handler is given no source that did not ask for the event.          *)
THEOREM ToldOnlyIfWatchedHolds == Spec => []ToldOnlyIfWatched
BY RoutingInvHolds, OnlyIfWatchedStep, PTL

(* Merging and the recommendations never double a route (router.go:211).   *)
THEOREM OncePerPlaceHolds == Spec => []OncePerPlace
BY RoutingInvHolds, OncePerPlaceStep, PTL
=============================================================================
