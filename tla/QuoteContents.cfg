SPECIFICATION Spec
CONSTANTS
    rice = rice
    oil = oil
    salt = salt
    shop = shop
    depot = depot
    home = home
    abroad = abroad
    f1 = f1
    f2 = f2
    None = None
    Null = None
    Product <- MCProduct
    CountryOf <- MCCountryOf
    Request <- MCRequest
    Answer <- MCAnswer
    Offer <- MCOffer
    MaxAsked = 1
    MaxRows = 2
INVARIANTS PartsOfOneOrder NothingInvented QuoteRepeated
    StopsAreRight ImportsAreLicensed SettlementIsAgreed OnlyPickupsAreUnreadable
CHECK_DEADLOCK FALSE
