SPECIFICATION SchedulerSpec
CONSTANTS
    src = src
    src2 = src2
    key = key
    key2 = key2
    NoPlugin = NoPlugin
    Plugins <- OneSource
    KeyOf <- OneKeyOf
    KindOf <- OneKindOf
    Keys = {key, key2}
    Policies = {"DeactivatePlugin"}
    Threshold = 2
    Configs = {1, 2}
    Bound <- OneBound
    EndingConfigs = {2}
    FaultPhases = {"ready"}
INVARIANTS NoSilentSource BoundedStreams DuplicateTakesTwoRestarts
PROPERTY RestartedIsStreamed
CHECK_DEADLOCK FALSE
