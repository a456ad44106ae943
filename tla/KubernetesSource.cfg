SPECIFICATION Spec
CONSTANTS
    s1 = s1
    s2 = s2
    s3 = s3
    s4 = s4
    a = a
    b = b
    kube = kube
    pod = pod
    deploy = deploy
    NoCall = NoCall
    NoKey = NoKey
    NoEvent = NoEvent
    Calls = {s1, s2, s3, s4}
    InvalidCalls = {s4}
    Keys = {a, b}
    KeyOf <- AgainKeyOf
    Kubes = {kube}
    KubeOf <- SameKube
    Events = {pod, deploy}
    Updates = {deploy}
    Matching <- BothMatch
    Changed <- BothMatch
    Filtered = {}
    Discarded <- APod
INVARIANTS OneBackgroundProcess ActiveWhenHandled CreatedReportedOnce
PROPERTY NewEventDelivered
CHECK_DEADLOCK FALSE
