SPECIFICATION Spec
CONSTANTS
    a = a
    b = b
    s = s
    p = p
    q = q
    x = x
    y = y
    None = None
    Requests = {a, b, s, p, q}
    Rows = {x, y}
    Desks <- Race
    MaxLoans = 2
INVARIANTS BoundToOwnLoan
