SPECIFICATION FairSpec
CONSTANTS
    Calls = {a, b, c}
    NoCall = NoCall
    MaxNesting = 2
    MaxEvents = 3
INVARIANTS
    TypeOK
    NoCallStranded
PROPERTIES
    EveryCallEnds
    ImplementsCallQueue
