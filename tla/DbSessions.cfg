SPECIFICATION FairSpec
CONSTANTS
    Task = {t1, t2}
    Order = {o1, o2}
    Served <- AllKinds
    PoolMax = 2
    None = None
INVARIANTS CirclesNeedPaymentsFirst DeadlocksAreWithinAnOrder
    OnlyOnSelectsStall
PROPERTIES EveryTaskEnds
