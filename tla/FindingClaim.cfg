CONSTANTS
    t1 = t1
    u1 = u1
    u2 = u2
    d1 = d1
    d2 = d2
    master = master
    null = null
    Entity = {1}
    Table <- Claimed
    Parent <- ClaimedParents
    Author <- ClaimedAuthors
    Write <- ClaimedWrites
    Trip = {t1}
    Home = t1
    Master = master
    User = {u1, u2}
    UserOf <- TwoUsers
    Device = {d1, d2}
    Null = null
    Clock = {1, 2, 3}
    MaxEntity = 1
    PageSize = 2
    MaxFaults = 0
SPECIFICATION SyncSpec
INVARIANT Converged
