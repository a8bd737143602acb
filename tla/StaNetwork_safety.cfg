SPECIFICATION FairSpec
CONSTANT MaxRetry = 2
INVARIANT BitsTellTheLink
PROPERTIES ErasesOnlyFailed ConnectionServes FallsBackToAp
