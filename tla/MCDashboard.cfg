SPECIFICATION FairSpec
CONSTANTS
  Reading = {0, 1}
  Zero = 0
INVARIANTS TypeOK SoundMatchesLights DisconnectedIsBlank
PROPERTIES ShowsWhatIsReported LightsAreHeard
