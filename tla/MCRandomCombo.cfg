SPECIFICATION ComboSpec
CONSTANTS
  h = h  g1 = g1
  Consoles <- MCConsoles
  Host = h
  MenuChoices <- MCMenus
  Memory = {FALSE}
  GameModes = {0, 1}
  VSModes = {0}
  Ticks = {32, 64}
  MaxMessages = 2
INVARIANTS RulesAsShown SameCombo ForcedIsShown
PROPERTIES RolledOnce VotesReached
