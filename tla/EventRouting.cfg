SPECIFICATION Spec
CONSTANTS
    None = None
    Pods = Pods
    Nodes = Nodes
    EventsResource = EventsResource
    s1 = s1
    s2 = s2
    Sources = {s1, s2}
    SourceConfigs <- AllConfigs
    Objects <- AllObjects
INVARIANTS WatchedIsTold ToldOnlyIfWatched OncePerPlace
