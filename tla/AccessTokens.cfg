\* Two requests, two tokens, one rotation of the secret; no symmetry under
\* fairness.
SPECIFICATION FairSpec
CONSTANTS
    Workers = {w1, w2}
    Users = {"u1"}
    TokenIds = {j1, j2}
    Ttl = 1
    Leeway = 1
    MaxTime = 5
    MaxSecret = 2
    Lossy = TRUE
    None = None
INVARIANTS BlockedUntilExpiry
PROPERTIES BlocklistDrains OnlyInFlightSlipThrough
