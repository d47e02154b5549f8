SPECIFICATION Spec
CONSTANTS
    Callback = {c1, c2}
    f1 = f1
    other = other
    rice = rice
    oil = oil
    here = here
    there = there
    None = None
    Null = None
    Fulfillment = {f1}
    Item = {rice, oil}
    Selection <- MCSelection
    Place = {here, there}
    ItemName <- MCItemName
    Report <- MCReport
    MaxRows = 2
INVARIANTS TypeOK AddressesAreKept ReportsAreWhole RefundsAreWhole
PROPERTIES DocumentsAreKept DropOffsAreKept
CHECK_DEADLOCK FALSE
