SPECIFICATION FairSpec
INVARIANTS TypeOK DescriptorsOfThisLink StuckIsRed
PROPERTIES LedTellsState SubscribesOrShowsWhy
