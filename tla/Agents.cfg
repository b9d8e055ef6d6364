SPECIFICATION Spec
CONSTANTS
    Files <- ThreeFiles
    Trees <- SmallTrees
    Sources = {"x", "y", "unknown"}
    MaxLogFiles = 2
    MaxLines = 3
    BruteForceThreshold = 2
    ScannerThreshold = 2
    Urls <- Web
    Home = "home"
    Sites <- SmallSites
    MaxCrawlPages = 3
    Apis <- SmallApis
    Candidates <- TwoCandidates
    Tokens <- TwoTokens
    ProbeCount = 3
INVARIANTS
    ProbesNeedConsent
    SourceVerdicts
    CrawlIsBreadthFirst
    ApiVerdicts
    TroubleIsTold
PROPERTIES
    AgentFinishes
\* execute returns, and the agent is gone.
CHECK_DEADLOCK FALSE
