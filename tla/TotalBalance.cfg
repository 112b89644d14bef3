SPECIFICATION FairWebhookSpec
CONSTANTS
    usdtEthereum = usdtEthereum
    usdtSolana = usdtSolana
    usdcSolana = usdcSolana
    r1 = r1
    Requests = {r1}
    TokenBalances = {usdtEthereum, usdtSolana, usdcSolana}
    SymbolOf <- TwoSymbols
    Amounts <- OverdrawnOrNot
    Rates = {1, 2}
    MaxMoves = 1
    MaxFailures = 1
    NoRate = NoRate
    NoTotal = NoTotal
    NaN = NaN
INVARIANTS
    TotalTypeOK
    NeverAboveBest
    NeverBelowWorst
PROPERTIES
    RequestsEnd
CHECK_DEADLOCK FALSE
