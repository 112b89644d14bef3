SPECIFICATION FairSpec
CONSTANTS
    ann = ann
    ethereum = ethereum
    a1 = a1
    a2 = a2
    o1 = o1
    o2 = o2
    Users = {ann}
    Rows = {a1, a2}
    Owner <- OneUserOwner
    Wallets = {ethereum}
    WalletOf <- OneWallet
    Orders = {o1, o2}
    Buyer <- OneUserBuyer
    Price = 2
    MaxBalance = 2
    MaxSwaps = 1
    MaxFaults = 1
    PoolSize = 3
INVARIANTS
    DebitImpliesOrder
    AnswerIsTrue
    BalancesMatchJournal
    PatientNotOverdrawn
PROPERTIES
    ChargesAtomically
    EveryOrderAnswered
CHECK_DEADLOCK FALSE
