SPECIFICATION Spec
CONSTANTS
    Numerals <- MCNumerals
    Addresses <- MCAddresses
    VlanParts <- MCVlanParts
    MaxVlanRange = 2
    SlugWords = 8
    Families <- MCFamilies
    Neighbour <- MCNeighbour
    MaxEdits = 2
INVARIANTS
    EveryLineReported
    RuleOrderReported
    NoiseIsSilent
    DanglingIsNew
    RoutingMatchesTexts
    SettingsArePaired
    BroadRuleIsHigh
    RollbackIsSound
    
    VerdictMatchesTexts
CHECK_DEADLOCK FALSE
