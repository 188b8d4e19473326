SPECIFICATION AccessSpec
CONSTANTS
    Deployment = {1, 2}
    NoDeployment = NoDeployment
    Alone = Alone
    Offered = {}
    Token = {t1}
    Production = TRUE
    MaxRequests = 2
    MaxOps = 1
    Budget = 3
CHECK_DEADLOCK FALSE
INVARIANT WithdrawalIsFinal
