SPECIFICATION StreamSpec
CONSTANTS
    StableWordCount = 2
    StableRevisions = 2
    MinSpeech = 2
    MinSilence = 2
    Window = 2
    MaxWords = 4
    MaxBacklog = 1
    MaxUtterances = 2
    MaxEvents = 1
    MaxFailures = 1
INVARIANT
    NoWordTwice
CHECK_DEADLOCK FALSE
