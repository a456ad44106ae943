SPECIFICATION Spec
CONSTANTS
    chat = chat
    plain = plain
    other = other
    slack = slack
    mattermost = mattermost
    webhook = webhook
    pagerDuty = pagerDuty
    describe = describe
    logs = logs
    e1 = e1
    req = req
    src = src
    src2 = src2
    Streams = {chat, plain}
    Interactive = {chat}
    SourceOf <- OneSource
    Emits <- ChatAndPlain
    Requests = {req}
    RequestSource <- ForSource
    Bots = {slack}
    InteractiveBots = {slack}
    Sinks = {webhook}
    Filtering = {}
    SinkSources <- BoundToSource
    Actions = {logs}
    ActionSources <- BoundToSource
    BadTemplates <- BadForRequest
    Slow = {slack}
    MaxDetails = 2
    MaxTicks = 2
INVARIANTS DispatchedIsAccounted HeartbeatAccounts AnswerTellsAll
PROPERTY SlowNotifierIsolated
CHECK_DEADLOCK FALSE
