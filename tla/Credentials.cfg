\* Two concurrent requests, two passwords, one link, one login, three changes.
SPECIFICATION Spec
CONSTANTS
    Workers = {w1, w2}
    Passwords = {p1, p2}
    Initial = p1
    HistorySize = 1
    RequireVerified = TRUE
    Links = {l1}
    OTPs = {o1}
    MaxLogins = 1
    MaxChanges = 3
    None = None
SYMMETRY Symmetry
INVARIANTS ResetsBounded SpentBeforeReset NoReuse  EndedSessionsQuiet
