SPECIFICATION Spec
CONSTANTS
    bind = bind
    act = act
    notify = notify
    channel = channel
    action = action
    enabled = enabled
    other = other
    x = x
    NoValue = NoValue
    BindingKeys = {channel}
    ActionKeys = {action}
    SwitchKeys = {enabled}
    OtherKeys = {other}
    Values = {x}
    Commands = {bind, act, notify}
    KeyOf <- BindActNotify
    ValueOf <- AllX
    MaxEdits = 1
    MaxFaults = 2
INVARIANTS NoLostUpdate RestartOnlyForChange
PROPERTY RunsWatchedConfig
CHECK_DEADLOCK FALSE
