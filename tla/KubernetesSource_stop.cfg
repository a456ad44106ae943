SPECIFICATION Spec
CONSTANTS
    s1 = s1
    s2 = s2
    s3 = s3
    s4 = s4
    a = a
    b = b
    kube = kube
    pod = pod
    deploy = deploy
    NoCall = NoCall
    NoKey = NoKey
    NoEvent = NoEvent
    Calls = {s1, s2}
    InvalidCalls = {}
    Keys = {a, b}
    KeyOf <- OnceKeyOf
    Kubes = {kube}
    KubeOf <- SameKube
    Events = {pod, deploy}
    Updates = {deploy}
    Matching <- BothMatch
    Changed <- BothMatch
    Filtered = {}
    Discarded = {}
PROPERTY StopAndWaitReturns
CHECK_DEADLOCK FALSE
