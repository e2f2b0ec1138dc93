CONSTANTS
    Session = {s1, s2}
    Request = {r1, r2}
    MaxTokens = 3
    Lapsing = {s1}
    NoSession = NoSession
SPECIFICATION SessionsSpec
CHECK_DEADLOCK FALSE
INVARIANTS
    AnsweredIsRevoked
PROPERTIES
    ImplementsFamilies
    RequestsEnd
