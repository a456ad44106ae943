------------------------- MODULE MCKubernetesSource ------------------------
EXTENDS KubernetesSource, TLC

CONSTANTS s1, s2, s3, s4, a, b, kube, pod, deploy

\* Two sources; in AgainKeyOf both are streamed twice.
OnceKeyOf == (s1 :> a) @@ (s2 :> b)
AgainKeyOf == (s1 :> a) @@ (s2 :> b) @@ (s3 :> a) @@ (s4 :> b)
SameKube == [k \in {a, b} |-> kube]

\* A pod is created and a deployment is updated.
APod == {<<a, pod>>}
BothMatch == [e \in {pod, deploy} |-> {a, b}]
=============================================================================
