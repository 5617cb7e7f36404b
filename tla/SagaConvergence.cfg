CONSTANTS
    Orders = {o1}
    Calls = {c1, c2}
    Tasks = {t1}
    Nobody = Nobody
    Cron = Cron
    MaxRetries = 1
    Attempts = 1
    MaxFailures = 1
    PageRetry = TRUE
SPECIFICATION FairSpec
INVARIANTS NothingWithoutEvidence
PROPERTIES Convergence
