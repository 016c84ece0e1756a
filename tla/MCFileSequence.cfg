\* An int is as wide as a signed char here, so that patterns of three marks
\* reach its limits.
CONSTANTS
  Patterns <- MCPatterns
  UlongMod = 4096
  IntMod = 256
  UcharMod = 8
SPECIFICATION Spec
INVARIANTS TypeOK NamesAreDocumented NamesAreDistinct NumbersFit
