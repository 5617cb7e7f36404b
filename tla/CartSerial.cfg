CONSTANTS
    Users = {u1}
    Carts = {c1, c2}
    Rows = {i1, i2}
    Orders = {n1, n2}
    Variants = {v1, v2}
    Requests = {r1}
    Prices = {p1, p2}
    MaxQuantity = 2
    Serial = TRUE
    None = None
SPECIFICATION Spec
SYMMETRY Symmetry
INVARIANTS OneActiveCart OneOrderPerCart NothingLost OrderIsCart
PROPERTIES PricesWereOnSale ImplementsShop
