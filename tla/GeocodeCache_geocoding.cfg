\* Two sessions, two addresses, both backends, answers that are good enough or not.
CONSTANTS
    Sessions = {s1, s2}
    Keys = {k1, k2}
    GoogleReplies <- TwoGoogleReplies
    NominatimReplies = {12}
    Threshold = 7
    Interval = 1
    MaxResolves = 4
    NoKey = NoKey
SPECIFICATION FairSpec
INVARIANTS TypeOK RepeatsPaidFor ConflictExplained SameAddressSameVerdict BurstsExplained
PROPERTIES AnswerKept EveryResolveEnds
