SPECIFICATION Spec
CONSTANTS
    Handler = {h1}
    Callback = {c1, c2}
    Message <- CallbackMessage
    Unsolicited = Unsolicited
    Act <- CallbackAct
    Rfq <- CallbackRfq
    Quick <- CallbackQuick
    SellerState = {"Accepted"}
    OneCart = FALSE
    MaxRows = 2
    MaxSeries = 2
    None = None
SYMMETRY Symmetry
VIEW Unacked
PROPERTIES QuoteStageIsLeftForGood ReportsJudgedByTheirRow ImplementsOrderBook
