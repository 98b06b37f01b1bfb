SPECIFICATION Spec
CONSTANTS
    Txn = {"x", "y"}
    MaxSessions = 4
    MaxTokens = 2
    MaxLost = 1
    MaxRevoked = 1
    Subject = {"sessions", "email_verification", "password_reset"}
INVARIANTS
    ClientAgreesWithServer
    TokenSpentOnce
PROPERTIES
    RevokedClientLearns
CHECK_DEADLOCK FALSE
