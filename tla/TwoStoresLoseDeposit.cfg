SPECIFICATION Spec
CONSTANTS
    alice = alice
    bob = bob
    t1 = t1
    t2 = t2
    bot = bot
    server = server
    d1 = d1
    d2 = d2
    c1 = c1
    Users = {alice}
    Txs = {t1, t2}
    Stores = {bot, server}
    DepositWorkers = {d1}
    ChargeWorkers = {c1}
    StoreOf <- TwoStores
    TxCredits <- MCTxCredits
    ChargeAmounts = {0, 1}
    MaxCredits = 4
    MaxUsage = 1
    MaxFaults <- OneCrash
INVARIANTS
    AckedNotOverwritten
