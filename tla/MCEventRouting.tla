--------------------------- MODULE MCEventRouting ---------------------------
(* Two sources with every pair of the configurations below. *)
EXTENDS EventRouting

CONSTANTS s1, s2

Entry(resource, types) ==
    [type |-> resource, types |-> types, event |-> "undefined", name |-> "undefined",
     ns |-> "undefined", labels |-> "undefined", fields |-> {}]
Config(entries) ==
    [types |-> <<"create", "error">>, event |-> "undefined", ns |-> "undefined",
     labels |-> "undefined", resources |-> entries, podRecommendations |-> FALSE]
Recommending(cfg) == [cfg EXCEPT !.podRecommendations = TRUE]

Plain == {Config(<<>>), Config(<<Entry(Pods, <<>>)>>), Config(<<Entry(Pods, <<"all">>)>>),
          Config(<<Entry(EventsResource, <<"create">>)>>), Config(<<Entry(Nodes, <<"error">>)>>),
          Config(<<Entry(Nodes, <<"delete", "error">>), Entry(Pods, <<"all", "create">>)>>)}

\* Constraints of an entry and of the source that hide or uncover each other.
Constrained ==
    {[Config(<<[Entry(Pods, <<"all">>) EXCEPT !.event = e, !.ns = n]>>) EXCEPT !.event = ge, !.ns = gn] :
        e \in {"undefined", "matches", "bad"}, ge \in {"undefined", "differs"},
        n \in {"undefined", "differs"}, gn \in {"matches", "bad"}}
    \cup {Config(<<[Entry(r, <<"all">>) EXCEPT !.name = c]>>) : r \in {Pods, Nodes}, c \in {"differs", "bad"}}
    \cup {[Config(<<[Entry(Pods, <<>>) EXCEPT !.labels = l]>>) EXCEPT !.labels = "differs"] :
             l \in {"undefined", "matches"}}

Updating ==
    {Config(<<[Entry(Pods, <<"update">>) EXCEPT !.fields = f, !.name = c]>>) :
        f \in SUBSET Fields, c \in {"matches", "differs"}}

TwoOfOne ==
    {Config(<<[Entry(Pods, <<"create", "update">>) EXCEPT !.ns = n, !.fields = {"spec"}],
              [Entry(Pods, <<"all">>) EXCEPT !.name = c]>>) :
        n \in {"undefined", "differs"}, c \in {"undefined", "differs"}}

AllConfigs ==
    LET configs == Plain \cup Constrained \cup Updating \cup TwoOfOne
        elsewhere == {[Config(<<>>) EXCEPT !.ns = n] : n \in {"differs", "bad"}}
    IN configs \cup {Recommending(cfg) : cfg \in Plain \cup TwoOfOne \cup elsewhere}

Happens(resource, type, changed, warning, involved) ==
    [resource |-> resource, type |-> type, changed |-> changed, warning |-> warning, involved |-> involved,
     unread |-> {}]
Unread(o, by) == [o EXCEPT !.unread = by]
AllObjects ==
    {Happens(r, t, {}, FALSE, r) : r \in Resources, t \in {"create", "delete"}}
    \cup {Happens(Pods, "update", {f}, FALSE, Pods) : f \in Fields}
    \cup {Happens(EventsResource, "create", {}, TRUE, r) : r \in {Pods, Nodes}}
    \cup {Unread(Happens(EventsResource, "create", {}, TRUE, Pods), by) :
             by \in {{"direct"}, {"mapped"}, {"direct", "mapped"}}}
    \cup {Unread(Happens(Pods, "create", {}, FALSE, Pods), {"direct"})}
=============================================================================
