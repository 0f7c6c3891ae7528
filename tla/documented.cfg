\* None of these holds; leave the one to look at.
CONSTANTS
    VectorInput <- Jobs
SPECIFICATION VectorSpec
INVARIANTS TechnicalIsException AcceptedIsDocumented NoNullKey NoNullCode NoExcludedRow NoExemptChange NoOtherDependent NoNullArea NoNegativeArea NoNullCondition NoUnequal NoEmptyLayer NoSmallOverlap NoSmallGap NoOuterGap NoShrunkBoundary NoOtherAuthority
