------------------------- MODULE MCSourceScheduler -------------------------
EXTENDS SourceScheduler, TLC

CONSTANTS src, src2, key, key2

OneSource == {src}
OneKeyOf == src :> key
OneKindOf == src :> "source"
\* Two configurations of one plugin: interactive and not.
OneBound == [c \in {1, 2} |-> {src}]

TwoSources == {src, src2}
TwoKeyOf == (src :> key) @@ (src2 :> key2)
TwoKindOf == [p \in TwoSources |-> "source"]
\* One source configuration that enables two plugins.
BothBound == 1 :> {src, src2}
=============================================================================
