CONSTANTS
    Orders = {o1}
    Calls = {c1, c2}
    Tasks = {t1, t2}
    Nobody = Nobody
    Cron = Cron
    MaxRetries = 3
    Attempts = 2
    MaxFailures = 1
    PageRetry = FALSE
SPECIFICATION Spec
SYMMETRY Symmetry
INVARIANTS TypeOK NothingWithoutEvidence LedgerFirst IInv
PROPERTIES LedgerFinal OrderFinal AckMeansApplied ImplementsSettlement
