SPECIFICATION Spec
CONSTANTS
    alice = alice
    bob = bob
    group = group
    c1 = c1
    c2 = c2
    Users = {alice, bob}
    Groups = {group}
    Keys = {alice, bob, group}
    CallIds = {c1, c2}
    MaxMessages = 7
    TTL = 1
    CleanupEvery = 1
    MaxTime = 2
    MaxAdds = 16
    MaxCredits = 15
    MaxIterations = 2
    PromptRate = 6
    CompletionRate = 1
    MinimumCredits = 1
    Million = 2
    TokenWidth = 4
    Lengths = {1, 13}
    Usages <- MCUsages
    InitialCredits = 9
    MaxReceived = 2
CHECK_DEADLOCK FALSE
INVARIANTS
    TypeOK
    HistoryIsTail
    NoLongSilence
    ReleasedInTime
    PromptWellFormed
    QuestionInPrompt
    NeverOvercharged
PROPERTIES
    ActiveIsKept
    EveryMessageEnds
