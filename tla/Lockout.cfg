\* Two concurrent logins, two accounts, the window within the cleanup window.
SPECIFICATION Spec
CONSTANTS
    Workers = {w1, w2}
    Keys = {k1, k2}
    MaxRows = 5
    MaxAttempts = 2
    Window = 2
    Duration = 2
    CleanupWindow = 2
    MaxTime = 3
    None = None
SYMMETRY Symmetry
INVARIANTS FailuresBounded
PROPERTIES OnlyEarlierLoginUnlocks 
\* The clock and the table are bounded; at their end an idle server has no step.
CHECK_DEADLOCK FALSE
