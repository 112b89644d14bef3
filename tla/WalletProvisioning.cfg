SPECIFICATION FairSpec
CONSTANTS
    ann = ann
    bob = bob
    base = base
    tron = tron
    usdc = usdc
    usdt = usdt
    Users = {ann}
    Slots = {"s1", "s2"}
    Chains = {base, tron}
    TokensOn <- TokensOnChains
    MaxFaults = 1
INVARIANTS
    MarkMeansWallets
    AnswerIsComplete
    RequestsMakeFirstWallets
    OneWalletPerChain
PROPERTIES
    AskersGetWallets
