\* Two tenants, one of which may be created on the way, and one call that
\* fails or finds the session expired.
SPECIFICATION TuiSpec
CONSTANTS
    Tenants = {t1, t2}
    Master = t1
    MaxFaults = 1
    NoTenant = NoTenant
INVARIANTS TuiTypeOK DialogsOutliveSession WizardComplete
PROPERTIES OnlyNewTenantLeavesRows RequestsScoped
