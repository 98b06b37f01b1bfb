SPECIFICATION Spec
CONSTANTS
    d = d
    l = l
    e = e
    r1 = r1
    r2 = r2
    None = None
    Model = {d, l, e}
    Default = d
    Remote = {e}
    Unsupported = {}
    Capability = {"ASR", "TRANSLATION", "TTS", "VAD"}
    Req = {r1, r2}
    MaxRequests = 2
    MaxCrashes = 1
SYMMETRY TwoRequests

    
PROPERTIES
    LoneRequestsTellTheTruth
