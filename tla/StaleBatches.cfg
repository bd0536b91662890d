SPECIFICATION StaleSpec
CONSTANTS
  Placeholders <- MCPlaceholders
  Role <- MCRole
  Accepts <- MCAccepts
  InitialDeck <- MCInitialDeck
  MaxOthers = 2
INVARIANTS RelayoutKeepsBindings
PROPERTIES KeepsUnseenWork
CHECK_DEADLOCK FALSE
