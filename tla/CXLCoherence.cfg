SPECIFICATION Spec
CONSTANTS
  Pages = {p1}
  LinesPerPage = 3
INVARIANTS TypeOK FilterCoversDevice
PROPERTY CopiesFresh
PROPERTY SingleWriter
PROPERTY WrongBiasHasCause
