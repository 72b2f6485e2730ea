SPECIFICATION FairSpec
CONSTANTS
    alice = alice
    bob = bob
    t1 = t1
    t2 = t2
    bot = bot
    server = server
    d1 = d1
    d2 = d2
    c1 = c1
    Users = {alice, bob}
    Txs = {t1, t2}
    Stores = {server}
    DepositWorkers = {d1, d2}
    ChargeWorkers = {c1}
    StoreOf <- OneStore
    TxCredits <- MCTxCredits
    ChargeAmounts = {0, 1}
    MaxCredits = 4
    MaxUsage = 1
    MaxFaults <- NoFaults
PROPERTIES
    FileNeverRegresses
    CreditReachesDisk
    RequestAnswered
