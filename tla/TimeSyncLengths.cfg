\* A target longer than its reference.
SPECIFICATION Spec
CONSTANTS
  Samples = {0, 1}
  MaxLength = 3
  None = None
INVARIANT AnyLengthsAlign
