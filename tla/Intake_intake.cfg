SPECIFICATION Spec
CONSTANTS
    NoId = 0
    Ids = {1, 2, 11, 12, 99}
    Shops <- SomeShops
    Labels <- SomeLabels
INVARIANTS
    TypeOK
    SentIsDeliverable
    AskedIsDelivered
    ReviewFits
    UnrecordedHasCause
