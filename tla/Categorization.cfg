CONSTANTS
    MaxRequests = 3
    MaxFaults = 1
    CategoryIds = {1, 2, 3}
    SubIds = {1, 2, 3}
    Names = {"new"}
    SubNames = {"other"}
    StoredCategories <- MCStoredCategories
    StoredSubs <- MCStoredSubs
    FallbackKey = 2
    MaxTaxonomyEdits = 2
    Patterns = {"netto"}
    Descriptions = {"netto 12"}
    PatternsIn <- MCPatternsIn
    Learns <- MCLearns
    DirectionOf <- MCDirectionOf
    Priorities = {50}
    SeedRules <- MCSeedRules
    TxIds = {1}
    SentPairs <- MCSentPairs
    SentTiers = {"none", "manual"}
SPECIFICATION Spec
INVARIANTS CopyFollowsMaster PairsBelong LearnedRuleWins
PROPERTIES ManualKept
CHECK_DEADLOCK FALSE
