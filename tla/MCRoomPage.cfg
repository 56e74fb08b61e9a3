SPECIFICATION ComboSpec
CONSTANTS
  h = h  g1 = g1
  Consoles <- MCConsoles
  Host = h
  MenuChoices <- PageMenus
  Memory = {FALSE}
  GameModes = {0}
  VSModes = {0}
  Ticks = {32}
  MaxMessages = 1
INVARIANTS PageAsShown
