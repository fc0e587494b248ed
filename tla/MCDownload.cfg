\* Bodies of up to six bytes, with white space anywhere, cut into pieces in
\* every way.
CONSTANTS
  Letter = {a, b}
  SP = SP
  NUL = NUL
  MaxLen = 6
  Bodies <- MCBodies
SPECIFICATION Spec
INVARIANTS TypeOK OnlySpaceLost NoOverflow
CHECK_DEADLOCK FALSE
