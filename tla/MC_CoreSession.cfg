SPECIFICATION Spec
CONSTANTS
    Nothing = Nothing
    Error = Error
    SourceModules = {"l0", "l1"}
    TargetModules = {"l0", "l1"}
    Prompts <- MCPrompts
    LayerLists <- MCLayerLists
    Ranks = {2, 6}
    KeyStyles = {"peft_default", "peft_named", "raw"}
    Hidden = 4
    SourceFlat = {}
    TargetFlat = {"l1"}
    TokenCount <- MCTokenCount
    MaxCalls = 9
    Vectors <- MCVectors
    Blocks <- MCBlocks
    Ratios <- MCRatios
    Plans <- MCPlans
    Costs <- MCCosts
    Sizes = {1, 2, 3, 4}
    Sigmas <- MCSigmas
    Modules <- MCModules
    NormRatios = {0, 1, 7, 150, 400, 90000}
    Texts <- MCTexts
    q1 = q1
    q2 = q2
    q3 = q3
    rA = rA
    rB = rB
    MockRequests = {q1, q2, q3}
    MockRoute <- MCMockRoute
    NoRoute = NoRoute
    MockBatchSize = 2
    NumBlocks = 3
    BridgeRoutes = {rA, rB}
    MaxPasses = 2
    Threads = {t1, t2}
    NoThread = NoThread
    Elements = {1, 2}
    TaskVectors = {1, 2}
    NoBuffer = NoBuffer
    MaxSwapCalls = 3
CHECK_DEADLOCK FALSE
INVARIANTS SavedFilesAgree PrototypesIsolateRoutes NumericsMeetReference InPlaceUpdatesAddUp
PROPERTY SoloCallsExact
