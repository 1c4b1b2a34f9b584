SPECIFICATION FairSpec
CONSTANTS
  Seed = seed
  Static = {alice}
  External = {bob}
  Bootstrap <- OnlySeed
  Nowhere = Nowhere
  HandoffAt = 2
  Stoppable = {alice, bob}
  MaxStops = 1
  MaxTimeouts = 1
INVARIANTS
  HandsOverANetwork
PROPERTIES
  ValidatorsMeet
  StaticStayKnown
