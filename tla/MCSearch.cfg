\* Two notes, two scans: of the opening and of a rebuild or a reopening.
SPECIFICATION Spec
CONSTANTS
  n1 = n1  n2 = n2
  Note = {n1, n2}
  MaxVersion = 2
  MaxChanges = 2
  MaxScans = 2
  Nobody = Nobody
SYMMETRY Symmetry
INVARIANT ReadyIsTrue
CHECK_DEADLOCK FALSE
