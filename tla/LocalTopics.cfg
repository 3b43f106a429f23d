SPECIFICATION Spec
CONSTANTS
    Topics <- MCTopics
    Patterns <- MCPatterns
    WildSegments = {"*", "#"}
    Services = {"svc"}
    Subs = {s1}
    Reps = {r1}
    Api = {a1, a2}
    Workers = {w1, w2}
    TTL = {0, 1}
    maxCount = 1
    MaxMsgs = 2
    MaxTime = 2
SYMMETRY Alike
CONSTRAINT ApiBound
INVARIANTS SeesRetained DropsOnlyStaleOrOldest AnnouncesLocalTopics
PROPERTY RoutesToMatching
CHECK_DEADLOCK FALSE
