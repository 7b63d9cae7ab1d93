\* Does an acknowledged revocation survive a concurrent capture?
SPECIFICATION Spec
CONSTANTS
  Players = {p1}
  Captures = {c1, c2}
  Teams = {a}
  Adds = {}
  None = None
INVARIANT RevocationSticks
