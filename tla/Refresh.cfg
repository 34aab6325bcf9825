SPECIFICATION Spec
CONSTANTS
    Item = {x}
    Traveler = {t}
    Group = {g}
    Device = {d1, d2}
    Position <- SmallPositions
    Weight = {1}
    Absent = Absent
    NoOne = NoOne
    MaxEdits = 1
    MaxActs = 1
    MaxAnswers = 2
INVARIANT RefusedIsNotAskedAgain
PROPERTIES AnswerSettles ManualEditsWin
SYMMETRY Symmetry
CHECK_DEADLOCK FALSE
