CONSTANTS
    m1 = m1
    m2 = m2
    Listing <- M2First
    Contested = {m1}
    Settings <- SafeAndPlain
    Bond = 2
    Reserve = 1
    Native = 2
    SafeNative = 6
    Wrapped = 2
    MaxAnswers = 2
    MaxErrors = 1
SPECIFICATION Spec
INVARIANTS OneBondEach ClaimsInOrder NothingLeftBehind
CHECK_DEADLOCK FALSE
PROPERTY AllResolved
