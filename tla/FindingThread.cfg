CONSTANTS
    t1 = t1
    u1 = u1
    u2 = u2
    d1 = d1
    d2 = d2
    master = master
    null = null
    Entity = {1, 2}
    Table <- Thread
    Parent <- ThreadParents
    Author <- ThreadAuthors
    Write <- ThreadWrites
    Trip = {t1}
    Home = t1
    Master = master
    User = {u1, u2}
    UserOf <- TwoUsers
    Device = {d1, d2}
    Null = null
    Clock = {1, 2, 3, 4}
    MaxEntity = 2
    PageSize = 2
    MaxFaults = 0
SPECIFICATION SyncSpec
INVARIANT Converged
