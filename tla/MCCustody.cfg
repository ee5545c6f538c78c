CONSTANTS
    hot = hot  brand = brand  player = player  escrow = escrow  nobody = nobody
    w1 = w1  w2 = w2  w3 = w3  a1 = a1  a2 = a2
    c1 = c1  c2 = c2  none = none
    t1 = t1  t2 = t2  p1 = p1
    n1 = n1  n2 = n2  s1 = s1  s2 = s2
    Escrow = escrow
    Nobody = nobody
    I128Max = 4
    Accounts <- MCAccounts
    CallAmounts <- MCAmounts
    CallLists <- MCLists
    None = none
    Workers <- MCWorkers
    Processes <- MCProcesses
    HomeOf <- MCHomeOf
    MaxReserved = 4
    Unknown = none
    Challenges <- MCChallenges
    Txs <- MCTxs
    PayoutTxs <- MCPayouts
    Series <- MCSeries
    Slots <- MCSlots
    FormatOf <- MCFormat
    Pool <- MCPool
    MaxWallet = 1
    MaxPosts = 2
    MaxFaults = 2
SYMMETRY MCSymmetry
SPECIFICATION CustodySpec
INVARIANTS CustodyTypeOK FundsKept EventsMatchTransfers
           DenseAndUnique NoConcurrentReplay DepositUsedOnce ActivationCovered
PROPERTIES SettledIsFinal ImplementsPromise FailuresChangeNothing
