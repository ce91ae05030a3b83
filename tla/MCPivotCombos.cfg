SPECIFICATION Spec
CONSTANTS
  f = f
  g = g
  x = x
  y = y
  z = z
  Files = {f, g}
  ColumnsOf <- MCColumnsOf
  Levels = 2
  NoIndex = NoIndex
  MaxDisplayed = 3
  MaxClicks = 7
INVARIANTS
  ChoicesExclusive
  ChosenIsGreyed
  FreeIsSelectable
  NextLevelEnabled
  DisplayedChain
\* The user stops after MaxClicks.
CHECK_DEADLOCK FALSE
