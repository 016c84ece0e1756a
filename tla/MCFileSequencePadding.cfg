\* Every documented pattern.
CONSTANTS
  Patterns <- MCPatterns
  UlongMod = 4096
  IntMod = 256
  UcharMod = 8
SPECIFICATION Spec
INVARIANT MarksMeanPadding
