SPECIFICATION Spec
CONSTANTS
    t1 = t1
    t2 = t2
    n1 = n1
    n2 = n2
    alice = alice
    bob = bob
    chatty = chatty
    Nothing = Nothing
    Tasks = {t1, t2}
    Numbers = {n1}
    Secrets = {alice}
    Configs = {}
    MaxRequests = 3
    MaxFaults = 1
    MaxRestarts = 1
CHECK_DEADLOCK FALSE
PROPERTIES
    SameDeploymentDecrypts
