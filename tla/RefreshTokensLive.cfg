\* Termination of every request under contention for the row locks; the user
\* belongs to the master tenant and may name the other one.
SPECIFICATION FairSpec
CONSTANTS
    Workers = {w1, w2}
    Users = {"u1"}
    Tenants = {"t1", "t2"}
    TenantOf <- OneTenant
    Master = "t1"
    MaxTokens = 3
    SignInTtls = {1}
    RefreshTtl = 1
    MaxTime = 2
    None = None
INVARIANTS TenantBound
PROPERTIES RequestsEnd
