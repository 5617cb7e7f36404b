CONSTANTS
    Orders = {o1}
    Calls = {c1}
    Tasks = {t1}
    Nobody = Nobody
    Cron = Cron
    MaxRetries = 1
    Attempts = 1
    MaxFailures = 1
    PageRetry = FALSE
SPECIFICATION FairSpec
PROPERTIES AcknowledgedChargeIsRecorded
