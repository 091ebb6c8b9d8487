\* Logout after a rotation of the secret, inserts never fail.
SPECIFICATION Spec
CONSTANTS
    Workers = {w1}
    Users = {"u1"}
    TokenIds = {j1}
    Ttl = 1
    Leeway = 1
    MaxTime = 4
    MaxSecret = 2
    Lossy = FALSE
    None = None
INVARIANTS LogoutRevokes
