CONSTANTS
    t1 = t1
    t2 = t2
    u1 = u1
    u2 = u2
    master = master
    null = null
    Entity = {1, 2, 3, 4}
    Table <- TripTree
    Parent <- TripParents
    Trip = {t1, t2}
    Master = master
    User = {u1}
    Null = null
    Clock = {1, 2, 3, 4, 5}
    Write <- TripTreeWrites
    MaxEntity = 4
SPECIFICATION Spec
INVARIANTS FeedsStayApart FeedTellsTruth
