CONSTANTS
    t1 = t1
    t2 = t2
    u1 = u1
    u2 = u2
    master = master
    null = null
    Entity = {1}
    Table <- OneItem
    Parent <- NoParents
    Trip = {t1}
    Master = master
    User = {u1, u2}
    Null = null
    Clock = {1, 2, 3, 4}
    Write <- RowWrites
    MaxEntity = 1
SPECIFICATION Spec
INVARIANTS RowClockBounds RecordDescribesState LastWriterWins
PROPERTIES PairMovesTogether PackedOutranksClaim NoStaleResurrection RevertIsAtomic
SYMMETRY UserSymmetry
