SPECIFICATION Spec
CONSTANTS
    p = p
    q = q
    Req <- MCReq
    Client <- MCReq
    Name = {"anna"}
    Place = {"anna", "staging"}
    None = None
    Nobody = None
    Driver = {"omnivoice", "xtts", "higgs", "proxy"}
    MaxUploads = 2
    Long = {2}
    CacheSize = 1
    Ahead = 1
    Pieces = 2
SYMMETRY Alike
INVARIANTS
    PreviewIsOfReference
    VoiceIsOfProfile
    SpokenOnce
CHECK_DEADLOCK FALSE
