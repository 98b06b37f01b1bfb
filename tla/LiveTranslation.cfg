CONSTANT EventCapacity = 1
SPECIFICATION FairSpec
INVARIANTS TypeOK StreamEndIsReported
PROPERTIES  CallsReturn ErrorsReachStatus
