\* Two tenants; three tasks, of which two are calls or two socket handlers.
\* Nobody has to call, and a task has an end: the system may stop.
SPECIFICATION TenantSpec
CONSTANTS
    Tenants = {k1, k2}
    StartKey = staging
    NoKey = noKey
    Outside = outside
    Tasks = {t1, t2, t3}
    MaxAlike = 2
SYMMETRY KeySymmetry
CHECK_DEADLOCK FALSE
INVARIANTS
    CallsKeepTheirTenant StraysOnlyToInterleaved QuietWorkersKeepTenants
