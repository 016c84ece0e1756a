\* Symmetry is not used: WritersAreFixed is a property of steps.
CONSTANTS
  a = a
  b = b
  c = c
  l1 = l1
  l2 = l2
  l3 = l3
  Earlier = Earlier
  Programs <- MCPrograms
  ListPaths <- MCListPaths
  Commands <- MCCommands
  Unwritable = {l3}
SPECIFICATION MCSpec
INVARIANTS TypeOK OneSucceeds
PROPERTY WritersAreFixed
