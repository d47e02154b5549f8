CONSTANTS
    Task = {t1, t2, t3}
    Order = {po, so}
    Purchase = {po}
SPECIFICATION Spec
SYMMETRY Symmetry
CHECK_DEADLOCK FALSE
INVARIANTS
    StoredWasPosted
    SocketFollowsStore
    PostsOfTermsFollowStore
