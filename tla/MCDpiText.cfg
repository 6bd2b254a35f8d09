CONSTANTS
  h1 = h1  h2 = h2  h3 = h3
  Handles = {h1, h2, h3}
  MaxLength = 9
  Tests <- SomeTests
  Strings <- SomeStrings
  Sizes = {0, 1, 2}
  MaxCalls = 6
SPECIFICATION TextSpec
VIEW TextView
SYMMETRY HandleSymmetry
INVARIANTS HandlesSound ArgsInOrder
PROPERTIES MatchesAreRight ListIsRecency
CHECK_DEADLOCK FALSE
