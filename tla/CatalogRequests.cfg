CONSTANTS
    Categories = {c1, c2}
    Products = {p1}
    Names = {pizzas, drinks}
    Sizes = {large, small}
    Requests = {r1, r2}
    None = None
    Gone = Gone
    Keep = Keep
SPECIFICATION Spec
SYMMETRY Symmetry
INVARIANTS TypeOK CatalogIntact AnsweredPatchHeld QuoteWasLive
PROPERTIES OmittedFieldsKept ImplementsMenu
