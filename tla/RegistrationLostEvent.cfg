CONSTANTS
    Accounts = {a1}
    Usernames = {alice}
    Emails = {e1}
    Requests = {r1}
    None = None
SPECIFICATION FairSpec
PROPERTIES RegisteredGetsProfile
