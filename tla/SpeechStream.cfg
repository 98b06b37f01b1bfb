SPECIFICATION StreamSpec
CONSTANTS
    StableWordCount = 2
    StableRevisions = 2
    MinSpeech = 2
    MinSilence = 2
    Window = 4
    MaxWords = 4
    MaxBacklog = 1
    MaxUtterances = 2
    MaxEvents = 1
    MaxFailures = 1
INVARIANTS
    SpokenInOrder
    NoWordIsLost
PROPERTIES
    SilentAfterStop
    SpeechEndIsAnswered
CHECK_DEADLOCK FALSE
