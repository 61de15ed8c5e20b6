SPECIFICATION Spec
CONSTANTS
  Pages = {p1}
  LinesPerPage = 2
INVARIANTS DeviceBiasIsSafe
