SPECIFICATION ChangesSpec
CONSTANTS
  Items = {a, b}
  Hold = 2
PROPERTIES
  SilenceIsNoChange
