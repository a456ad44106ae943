SPECIFICATION Spec
CONSTANTS
    w1 = w1
    w2 = w2
    room = room
    other = other
    event = event
    Platforms = {"cloudSlack"}
    Workers = {w1, w2}
    ChannelSize = 1
    MaxRetries = 1
    Channels = {room, other}
    Events = {event}
    BoundTo <- BothBound
    Room = room
    Script <- TwoCommands
    MaxConnections = 1
INVARIANT CommandRunsOnce
CHECK_DEADLOCK FALSE
