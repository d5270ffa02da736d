SPECIFICATION Spec
CONSTANTS
    Requests <- MCRequests
    SamplingRules <- MCSamplingRules
    default_target = 20
    RuleSpecs <- MCRuleSpecs
    MaskLen <- MCMaskLen
    GlobMatches <- MCGlobMatches
    Hex <- MCHex
    TraceBucket <- MCTraceBucket
    FallbackBucket <- MCFallbackBucket
INVARIANTS TypeOK GovernedFaithfully PrefixesExact MaskedOnlyMatches FirstMatchWins TraceWhole StatsTruthful
