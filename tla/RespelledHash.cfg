SPECIFICATION Spec
CONSTANTS
    alice = alice
    bob = bob
    w1 = w1
    w2 = w2
    b1 = b1
    b2 = b2
    s1 = s1
    hb1 = hb1
    hb1up = hb1up
    hb2 = hb2
    hs1 = hs1
    Users = {alice, bob}
    Connections = {w1, w2}
    Txs = {b1, b2, s1}
    Tx <- MCTx
    Hashes = {hb1, hb1up, hb2, hs1}
    TxOf <- MCTxOf
    SweepOrder <- MCSweepOrder
    Operators = {"near", "base", "solana"}
    Dead = {"near"}
    Gasless = {"solana"}
    MinAmount = 2
    Reserve = 1
    HistoryLimit = 1
    MaxRequests = 2
    MaxFaults = 1
CHECK_DEADLOCK FALSE
INVARIANTS
    PaymentCreditedOnce
