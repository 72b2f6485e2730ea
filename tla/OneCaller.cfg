SPECIFICATION FairSpec
CONSTANTS
    alice = alice
    bob = bob
    t1 = t1
    t2 = t2
    bot = bot
    server = server
    d1 = d1
    d2 = d2
    c1 = c1
    Users = {alice, bob}
    Txs = {t1, t2}
    Stores = {server}
    DepositWorkers = {d1}
    ChargeWorkers = {}
    StoreOf <- OneStore
    TxCredits <- MCTxCredits
    ChargeAmounts = {1}
    MaxCredits = 4
    MaxUsage = 1
    MaxFaults <- CallerFaults
INVARIANTS
    MainNeverPartial
PROPERTIES
    ImplementsLedger
    OpensAgain
