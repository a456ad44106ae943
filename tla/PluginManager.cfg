SPECIFICATION Spec
CONSTANTS
    src = src
    exe = exe
    key = key
    key2 = key2
    NoPlugin = NoPlugin
    Plugins <- SharedPlugins
    KeyOf <- SharedKeyOf
    KindOf <- SharedKindOf
    Keys = {key}
    Threshold = 2
    Policies = {"DeactivatePlugin", "RestartAgent"}
INVARIANTS TypeOK OneProcess NoStaleReport ClientsSupervised RestartBudget AgentExitsAtThreshold
PROPERTIES WrittenOffStaysOff ImplementsLifecycle DeadClientWithdrawn
CHECK_DEADLOCK FALSE
