CONSTANTS
    MaxMutations = 2
    MaxBatch = 2
    MaxFaults = 2
SPECIFICATION FairSpec
INVARIANT DiskMirrorsQueue
PROPERTIES DrainAnswersItsCallers IsCourier EverythingSettles
