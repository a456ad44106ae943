SPECIFICATION SafetySpec
CONSTANTS
    src = src
    exe = exe
    key = key
    key2 = key2
    NoPlugin = NoPlugin
    Plugins <- SharedPlugins
    KeyOf <- OwnKeyOf
    KindOf <- SharedKindOf
    Keys = {key, key2}
    Threshold = 1
    Policies = {"DeactivatePlugin"}
INVARIANT StartedIsUsable
CHECK_DEADLOCK FALSE
