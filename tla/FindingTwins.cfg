SPECIFICATION Spec
CONSTANTS
    Item = {x}
    Traveler = {}
    Group = {g, h}
    Device = {d1, d2}
    Position <- TripWide
    Weight = {1, 2}
    Absent = Absent
    NoOne = NoOne
    MaxEdits = 2
    MaxActs = 0
    MaxAnswers = 3
INVARIANT NoTwinsAtAll
SYMMETRY Symmetry
CHECK_DEADLOCK FALSE
