SPECIFICATION MCFairSpec
CONSTANTS
    Machines = {"copy", "bridge", "visits", "reader", "document", "button", "viewer"}
    N = 2
    MaxSize = 2
    Limits = {1, 2, 3}
    MaxInt = 3
    MaxChanges = 2
    Heights = {1, 2, 3}
    MaxInset = 2
    MaxOffset = 2
    MaxNavigations = 2
    MaxScrolls = 1
    MaxResizes = 1
    MaxEdits = 2
    MaxPiece = 2
    MaxHead = 2
    MaxComment = 3
    MaxLines = 4
    Delay = 2
    MaxClicks = 3
    Widths = {4, 7, 10}
    NaturalWidths = {5, 20}
CHECK_DEADLOCK FALSE
INVARIANTS
    TypeOK
    BudgetKept
    CompleteUnlessWrapped
    LimitIsExact
    BridgeTypeOK
    OverlayReservedUnlessRaced
    MovesTogether
    StaysInside
    LinkOpensUnlessNamed
    RangeIsInPlace
    AfterDoctypeUnlessOdd
    TagsShownUnlessOdd
    ImageFits
PROPERTIES
    EndsUnlessPipe
    OverlaidInTheEnd
    OutcomeStands
