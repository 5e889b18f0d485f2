SPECIFICATION Spec
CONSTANTS
    Tenants = {t1, t2}
    Ids = {i1, i2, i3}
    max_entries_per_tenant = 2
    ttl_seconds = 1
SYMMETRY Symmetry
INVARIANTS
    QuotaHolds
    TimesFollowEntries
    RefusedByLiveEntriesOnly
