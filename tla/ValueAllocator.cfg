\* Two byte packet ids: v + 1 is an int and never wraps.
CONSTANTS
  Lowest = 1
  Highest = 7
  Modulus = 100
SPECIFICATION Spec
PROPERTY ImplementsIdPool
