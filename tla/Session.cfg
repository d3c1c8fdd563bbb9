CONSTANTS
    ann = ann
    k1 = k1
    k2 = k2
    r1 = r1
    r2 = r2
    None = None
    Loose = Loose
    Same = Same
    User <- MCOneUser
    Registered <- MCNobody
    Key <- MCTwoKeys
    Call <- MCTwoCalls
    DatabaseFails = TRUE
    CanRestart = TRUE
SPECIFICATION FairClientSpec
INVARIANTS
    KeysHaveToken
    AnswersStand
    RefusedForReason
    StaysSignedIn
    SignedOutIsOut
PROPERTIES
    OperationsEnd
