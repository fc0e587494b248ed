\* Bodies that begin with white space are among those of up to five bytes.
CONSTANTS
  Letter = {a, b}
  SP = SP
  NUL = NUL
  MaxLen = 5
  Bodies <- MCBodies
SPECIFICATION Spec
INVARIANT LeadingSpaceRemoved
CHECK_DEADLOCK FALSE
