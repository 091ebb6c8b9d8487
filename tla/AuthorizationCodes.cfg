\* Two concurrent requests, two codes of two clients, time to expire; no
\* symmetry under fairness.
SPECIFICATION FairSpec
CONSTANTS
    Workers = {w1, w2}
    Codes = {c1, c2}
    Clients = {a1, a2}
    CodeTTL = 1
    MaxTime = 2
    None = None
INVARIANTS RedemptionAtomic RedemptionsBounded
\* Once the codes are spent and the clock has run out, an idle server rests.
CHECK_DEADLOCK FALSE
PROPERTIES RequestsEnd
