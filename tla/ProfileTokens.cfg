CONSTANTS
    Accounts = {a1}
    AccessLife = 0
    RefreshLife = 2
    LinkLife = 0
    Fields = {phone, address}
    Values = {x}
    Requests = {r1, r2}
    None = None
    Keep = Keep
SPECIFICATION Spec
SYMMETRY Symmetry
INVARIANTS TypeOK StaffEndsSoon SessionEnds VerifiedOnly OneIdentity ProfilePatchHeld
PROPERTIES ProfileFieldsKept
