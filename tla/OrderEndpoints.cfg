SPECIFICATION Spec
CONSTANTS
    Handler = {h1, h2}
    Callback = {c1}
    Message <- EndpointMessage
    Unsolicited = Unsolicited
    Act <- EndpointAct
    Rfq <- EndpointRfq
    Quick <- EndpointQuick
    SellerState = {"Accepted"}
    OneCart = TRUE
    MaxRows = 2
    MaxSeries = 1
    None = None
SYMMETRY Symmetry
INVARIANTS ProtocolOrder OrderWasAskedFor AckedIsDone
