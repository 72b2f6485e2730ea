SPECIFICATION Spec
CONSTANTS
    alice = alice
    bob = bob
    carol = carol
    People = {alice, bob, carol}
    Identities <- MCIdentities
    Numbers <- MCNumbers
    PersonOf <- MCPersonOf
    Senders <- AnyName
    Amounts = {1, 4}
    NotANumber = NotANumber
    MaxNegotiations = 2
CHECK_DEADLOCK FALSE
INVARIANTS
    TypeOK
    CrediblyForgotten
    FairOutcome
PROPERTIES
    ImplementsBargain
