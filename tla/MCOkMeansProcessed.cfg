CONSTANTS
    c1 = c1  c2 = c2  none = none
    t1 = t1  t2 = t2  p1 = p1
    n1 = n1  n2 = n2  s1 = s1  s2 = s2
    Unknown = none
    Challenges <- MCChallenges
    Txs <- MCTxs
    PayoutTxs <- MCPayouts
    Series <- MCSeries
    Slots <- MCSlots
    FormatOf <- MCFormat
    Pool <- MCPool
    MaxWallet = 1
    MaxPosts = 2
    MaxFaults = 2
SPECIFICATION RouteSpec
INVARIANT OkMeansProcessed
