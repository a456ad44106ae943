--------------------------- MODULE PluginLifecycle -------------------------
(***************************************************************************)
(* What the plugin manager promises to the rest of the agent, without its  *)
(* goroutines, processes and channels: plugins are loaded before the agent *)
(* is open for work; from then on the client of a plugin is withdrawn when *)
(* the plugin fails and a new generation takes its place, at most          *)
(* Threshold times, until the plugin is abandoned for good.                *)
(***************************************************************************)
EXTENDS Naturals

CONSTANTS Plugins, Threshold

VARIABLES
    open,        \* plugins can be used
    serving,     \* plugins that have a client
    generation,  \* how many clients a plugin has had
    abandoned    \* plugins that will never have a client again

vars == <<open, serving, generation, abandoned>>

Init ==
    /\ open = FALSE
    /\ serving = {}
    /\ generation = [p \in Plugins |-> 0]
    /\ abandoned = {}

\* All plugins of a set get a client, those that have one get another.
Load(S) ==
    /\ ~open
    /\ serving' = serving \cup S
    /\ generation' = [p \in Plugins |-> IF p \in S THEN generation[p] + 1 ELSE generation[p]]
    /\ UNCHANGED <<open, abandoned>>

Open ==
    /\ ~open
    /\ serving = Plugins
    /\ \A p \in Plugins : generation[p] = 1
    /\ open' = TRUE
    /\ UNCHANGED <<serving, generation, abandoned>>

Withdraw(p) ==
    /\ open
    /\ p \in serving
    /\ serving' = serving \ {p}
    /\ UNCHANGED <<open, generation, abandoned>>

Replace(p) ==
    /\ open
    /\ p \notin serving \cup abandoned
    /\ generation[p] <= Threshold
    /\ serving' = serving \cup {p}
    /\ generation' = [generation EXCEPT ![p] = @ + 1]
    /\ UNCHANGED <<open, abandoned>>

Abandon(p) ==
    /\ open
    /\ p \notin serving
    /\ abandoned' = abandoned \cup {p}
    /\ UNCHANGED <<open, serving, generation>>

Next ==
    \/ \E S \in SUBSET Plugins : Load(S)
    \/ Open
    \/ \E p \in Plugins : Withdraw(p) \/ Replace(p) \/ Abandon(p)

Spec == Init /\ [][Next]_vars
=============================================================================
