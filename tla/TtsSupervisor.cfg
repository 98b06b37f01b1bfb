CONSTANTS
    a = a
    b = b
    c = c
    xtts = xtts
    omni = omni
    NoModel = NoModel
    Model <- MCModel
    Profile <- MCProfile
    ProfileOf <- MCProfileOf
    Managed <- MCManaged
    MaxCancels = 1
SPECIFICATION FairSpec
INVARIANTS ActiveIsServed NoStrandedWorker
PROPERTIES DisplacedBackendsStop   OperationsReturn
