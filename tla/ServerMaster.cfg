CONSTANTS
    t1 = t1
    t2 = t2
    u1 = u1
    u2 = u2
    master = master
    null = null
    Entity = {1, 2, 3, 4}
    Table <- MasterTree
    Parent <- MasterParents
    Trip = {t1}
    Master = master
    User = {u1, u2}
    Null = null
    Clock = {1, 2, 3, 4}
    Write <- MasterWrites
    MaxEntity = 4
SPECIFICATION DeleteSpec
INVARIANTS FeedTellsTruth NothingDangles
PROPERTIES ReplayIsIdle DeleteIsNewest PruneTakesOnlyTheUnused
SYMMETRY UserSymmetry
