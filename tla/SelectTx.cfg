SPECIFICATION Spec
CONSTANTS
    Tx = {t1, t2, t3}
    Order = {o1, o2}
    Key = {k1}
    f1 = f1
    f2 = f2
    f3 = f3
    f4 = f4
    Basket <- MCBasket
    MaxNo = 3
    None = None
SYMMETRY Symmetry
INVARIANTS NumbersAreUnique OneBasket NoDeadlock
PROPERTIES ImplementsOrderNumbers
