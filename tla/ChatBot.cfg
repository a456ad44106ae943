SPECIFICATION Spec
CONSTANTS
    w1 = w1
    w2 = w2
    room = room
    other = other
    event = event
    Platforms = {"cloudSlack", "cloudTeams", "socketSlack", "mattermost", "discord"}
    Workers = {w1, w2}
    ChannelSize = 1
    MaxRetries = 1
    Channels = {room, other}
    Events = {event}
    BoundTo <- BothBound
    Room = room
    Script <- MuteUnmute
    MaxConnections = 2
INVARIANTS GivesUpAfterMaxRetries NoMoreThanReceived LastMessageHandled PostedOnlyIfEnabled NilMeansPosted
PROPERTIES KnownLossIsRetried SendMessageReturns
CHECK_DEADLOCK FALSE
