CONSTANTS
    Users = {u1}
    Carts = {c1, c2}
    Rows = {i1, i2}
    Orders = {n1, n2}
    Variants = {v1}
    Requests = {r1, r2}
    Prices = {p1}
    MaxQuantity = 2
    Serial = FALSE
    None = None
SPECIFICATION Spec
SYMMETRY Symmetry
INVARIANTS TypeOK NeverBilledMoreThanAdded CheckedOutMeansOrdered
