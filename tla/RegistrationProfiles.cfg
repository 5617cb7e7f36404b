CONSTANTS
    Accounts = {a1, a2}
    Usernames = {alice, bob}
    Emails = {e1, e2}
    Requests = {r1, r2}
    None = None
SPECIFICATION FairSpec
INVARIANTS TypeOK AccountsDistinct OneProfileEach
PROPERTIES AckedHasProfile QueuedGetsProfile
