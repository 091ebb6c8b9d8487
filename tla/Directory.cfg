\* Two workers, two users of two addresses, one identity, two changes.
SPECIFICATION Spec
CONSTANTS
    Workers = {w1, w2}
    MaxUsers = 2
    MaxChanges = 2
    Emails = {e1, e2}
    AdminEmail = e1
    Identities = {d1}
    None = None
SYMMETRY Symmetry
INVARIANTS TypeOK SeedAtomic TenantsSeeded OneUserPerAddress ClaimsOfMoment 
PROPERTIES IdentitySignsIn
