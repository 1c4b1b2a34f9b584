\* A node that may crash at any time and whose writes may fail.
SPECIFICATION StorageFairSpec
CONSTANTS
  ValidatorIds = {v1}
  Addresses = {a1}
  MaxHeight = 3
  MaxChanges = 3
  MaxQueue = 2
  MaxSyncs = 1
INVARIANTS OneSnapshot NoBlockLost
PROPERTIES DiskForward SavedInTheEnd
