\* Two requests of any kinds, again and again, and four tokens.
CONSTANTS
    Sessions = {s1, s2}
    MaxTokens = 4
    NoSession = NoSession
SPECIFICATION FairSpec
INVARIANTS TypeOK ChainHeld RejectionExplained
PROPERTIES RowMovesForward EveryRequestEnds
