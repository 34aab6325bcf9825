CONSTANTS
    MaxMutations = 2
    MaxBatch = 2
    MaxFaults = 1
SPECIFICATION Spec
PROPERTY RestoredWorkIsReported
