SPECIFICATION FairSpec
CONSTANTS
    a1 = a1
    a2 = a2
    ann = ann
    Accounts = {a1, a2}
    People = {ann}
    Groups = {"group"}
    Bilingual = {"bilingual"}
    Members <- MCMembers
    Kinds <- Kind
    Texts <- MCTexts
    Deadly <- MCDeadly
    Spoken <- MCSpoken
    Written <- MCWritten
    Capacity = 1
    Unit = 2
    Refill = 1
    MaxClock = 2
    MaxSpoken = 1
    MaxFrames = 3
    MaxFaults = 1
CHECK_DEADLOCK FALSE
INVARIANTS
    LoopTypeOK
    HandledInOrder
    RefreshIsNext
    WithinRate
    OncePerDelivery
PROPERTIES
    PolledIsHandled
