SPECIFICATION FairSpec
CONSTANTS
    Users = {u1, u2}
    Helpers = {h1, h2}
    Tasks = {k1, k2}
    Null = Null
INVARIANTS NobodyRunsAfterFinish SleepsOnlyWhenIdle
PROPERTIES FinishReturns PoolIsDestroyed
