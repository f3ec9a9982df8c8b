\* Two calls at a time on one signal; a slippage of 100% makes the exit worthless.
SPECIFICATION Spec
CONSTANTS
    k1 = k1
    k2 = k2
    signal = signal
    Client <- MCClient
    Signal <- MCSignal
    Quantity <- MCQuantity
    Captured <- MCCaptured
    Calculated <- MCCalculated
    LastMoment <- MCLastMoment
    NoPosition = NoPosition
    NoQuote = NoQuote
    Price = {10, 13}
    Slippage = {0, 10}
    Fee = {1}
    BPS = 10
    PriceScale = 4
    Horizon = 3
    MaxRejected = 1
    MaxEvents = 3
SYMMETRY ClientSymmetry
INVARIANTS
    TypeOK
    OneEntryOnePosition
    LedgerBalances
    EventsTellThePosition
    NoHindsight
PROPERTIES
    ClosedForGood
    OnlyRacesMarkBack
\* With every price quoted and the position closed no call has anything to do.
CHECK_DEADLOCK FALSE
