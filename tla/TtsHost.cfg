CONSTANTS
    a = a
    b = b
    r1 = r1
    r2 = r2
    r3 = r3
    NoReq = NoReq
    NoModel = NoModel
    Model <- MCModel
    Proxied <- MCProxied
    Req <- MCTwo
    QueueMax = 1
    MaxChunks = 2
SPECIFICATION FairSpec
INVARIANTS UtteranceKeepsDriver CompleteResponseIsWhole
PROPERTY LockReturnsOrWedged
