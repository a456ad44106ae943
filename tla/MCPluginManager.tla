-------------------------- MODULE MCPluginManager --------------------------
EXTENDS PluginManager, TLC

CONSTANTS src, exe, key, key2

\* A source and an executor, which share a key or have keys of their own.
SharedPlugins == {src, exe}
SharedKindOf == (src :> "source") @@ (exe :> "executor")
SharedKeyOf == [p \in SharedPlugins |-> key]
OwnKeyOf == (src :> key) @@ (exe :> key2)
=============================================================================
