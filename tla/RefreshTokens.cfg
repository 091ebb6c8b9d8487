\* Two concurrent requests on the tokens of one user; room for three
\* successors of a token.
SPECIFICATION Spec
CONSTANTS
    Workers = {w1, w2}
    Users = {"u1"}
    Tenants = {"t1"}
    TenantOf <- OneTenant
    Master = None
    MaxTokens = 4
    SignInTtls = {1}
    RefreshTtl = 1
    MaxTime = 2
    None = None
SYMMETRY WorkerSymmetry
INVARIANTS RotationAtomic ForkBound
PROPERTIES NeverRevived SweptRowsDead
