CONSTANTS
    Device = {1, 2}
    CounterLimit = 1
    MaxMillis = 1
SPECIFICATION Spec
INVARIANT TypeOK
PROPERTY StrictlyIncreasing
