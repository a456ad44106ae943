SPECIFICATION Spec
CONSTANTS
    off = off
    on = on
    a = a
    bad = bad
    broken = broken
    NoConfig = NoConfig
    Rests = {a, bad, broken}
    Malformed = {broken}
    Invalid = {bad}
    Commands = {off, on}
    ValueOf <- OffOn
    Retries = 2
    MaxEdits = 2
    MaxFaults = 1
INVARIANTS TypeOK NoSkippedConfig WriteFailsOnlyWhenDisturbed AppliedAsReported
PROPERTY RunsLatestConfig
CHECK_DEADLOCK FALSE
