SPECIFICATION FairSpec
CONSTANT Handle = {h1, h2}
INVARIANTS TypeOK HandleNamesPeer NeverDeaf
PROPERTY LedShowsTraffic
