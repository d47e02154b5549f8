SPECIFICATION Spec
CONSTANTS
    Creator = {p1, p2}
    Notifier = {n1}
    Callback = {c1}
    MaxCreated = 2
    MaxRows = 3
    None = None
INVARIANTS PaymentsAreLocked
