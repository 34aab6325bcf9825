CONSTANTS
    t1 = t1
    u1 = u1
    u2 = u2
    d1 = d1
    d2 = d2
    master = master
    null = null
    Entity = {1, 2}
    Table <- Luggage
    Parent <- LuggageParents
    Author <- LuggageAuthors
    Write <- LuggageWrites
    Trip = {t1}
    Home = t1
    Master = master
    User = {u1, u2}
    UserOf <- TwoUsers
    Device = {d1, d2}
    Null = null
    Clock = {1, 2, 3}
    MaxEntity = 2
    PageSize = 1
    MaxFaults = 1
SPECIFICATION FairSyncSpec
INVARIANTS Converged EditsWhatItSees
PROPERTY EventuallyConverged
