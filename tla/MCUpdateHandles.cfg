SPECIFICATION Spec
CONSTANTS
  Blocks = 2
  MaxUploads = 3
INVARIANT BeginsClean
