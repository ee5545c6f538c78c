CONSTANTS
    c1 = c1  none = none
    t1 = t1  t2 = t2  t3 = t3  n1 = n1  s1 = s1  s2 = s2
    Unknown = none
    Challenges <- MCChallenges
    Txs <- MCTxs
    MemoOf <- MCMemos
    PayoutTxs <- MCPayouts
    Series <- MCSeries
    Slots <- MCSlots
    FormatOf <- MCFormat
    Pool <- MCPool
    MaxWallet = 2
    MaxPosts = 0
    MaxFaults = 0
    PageLimit = 3
    MaxLedger = 3
SPECIFICATION Spec
PROPERTY FundedChallengeActivates
