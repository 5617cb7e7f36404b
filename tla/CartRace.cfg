CONSTANTS
    Users = {u1}
    Carts = {c1, c2}
    Rows = {i1}
    Orders = {n1}
    Variants = {v1}
    Requests = {r1, r2}
    Prices = {p1}
    MaxQuantity = 1
    Serial = FALSE
    None = None
SPECIFICATION Spec
SYMMETRY Symmetry
INVARIANTS OneActiveCart
