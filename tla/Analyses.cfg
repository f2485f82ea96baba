SPECIFICATION Spec
CONSTANTS
    Parts = {"claude", "codex", "inspect", "analysis", "cost", "config", "reader", "detection", "traffic"}
    ClaudeLines <- SmallClaudeLines
    ClaudeLength = 4
    CodexLines <- SmallCodexLines
    CodexLength = 4
    TurnPool <- SmallTurnPool
    ExchangePool <- SmallExchangePool
    Captures = {"codex", "work"}
    OwnCapture = "codex"
    SessionTimes = {8}
    MatchWindow = 2
    InspectTurns = 3
    InspectExchanges = 3
    TurnKinds <- SmallTurnKinds
    ToolComponents <- SmallComponents
    MaxOutputBytes = 4
    HighSeverityBytes = 8
    AnalysisSessions = 2
    AnalysisTurns = 2
    AnalysisComponents = 3
    PriceCatalog <- SmallCatalog
    PricedSessions <- SmallPricedSessions
    PricedTurns <- SmallPricedTurns
    Million = 10
    Word = 512
    CostSessions = 2
    CostTurns = 2
    Editors = {e1, e2}
    Sources = {"claude"}
    Profiles = {"codex"}
    Settings = {"", "a"}
    MaxEdits = 3
    Chunk = 2
    Limit = 3
    FileBytes = 6
    InstallPaths <- InstallA
    SessionPaths <- SessionsA
    OtherPath = "/data"
    TranscriptFiles <- SmallFiles
    SearchDepth = 1
    MachineChanges = 3
    Mixes <- SmallMixes
INVARIANTS
    ClaudeCountsResponsesOnce
    ClaudeContextKept
    ClaudeSessionAgreesWithTurns
    CodexTurnsTelescope
    CodexSessionIsSound
    MatchingIsMutual
    ReportAddsUp
    ReportMissesNoMatch
    CoverageAddsUp
    RepeatsAreDistinctCalls
    SessionCostIsItsPrice
    CollectionCountsEveryTurn
    LoneEditsAreKept
    RecordsAreTheLines
    DetectedIsRead
    ChainsFollowConversations
    ChainTotalsCoverEveryCall
    AccountAgreesWithChains
    CompleteAccountsEveryCall
    ReportedIsWhatWasSaid
CHECK_DEADLOCK FALSE
