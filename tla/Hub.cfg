CONSTANTS
    c1 = c1
    c2 = c2
    c3 = c3
    u1 = u1
    u2 = u2
    Conns = {c1, c2, c3}
    Users = {u1, u2}
    UserOf <- TwoPeople
    Slow = {c3}
    QueueCap = 2
    Scenes <- Topics
    MaxHead = 1
    MaxRevokes = 1
SPECIFICATION Spec
INVARIANTS RosterSettles PresenceSettles LocationsSettle
PROPERTIES NothingAfterRevocation ReadersAreTold
CHECK_DEADLOCK FALSE
