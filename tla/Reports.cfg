SPECIFICATION Spec
CONSTANTS
  r1 = r1
  r2 = r2
  Runs = {r1, r2}
  Profiles <- Files
  Requests <- Asks
  Histories <- Both
SYMMETRY Symmetry
INVARIANT MostImportantFirst
INVARIANT HeadlinesAreTrue
INVARIANT ChangesAreReal
CHECK_DEADLOCK FALSE
