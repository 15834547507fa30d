SPECIFICATION FairSpec
CONSTANT Handle = {h1}
PROPERTY LedOffWhenDisconnected
