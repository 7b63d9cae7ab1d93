\* Two requests race to add one player while two captures change the consent.
SPECIFICATION Spec
CONSTANTS
  Players = {p1}
  Captures = {c1, c2}
  Teams = {a, b}
  Adds = {x, y}
  None = None
INVARIANT TypeOK
PROPERTIES
  EntryWasEligible
  EntryKeepsItsTeam
  UncontendedCaptureIsExact
SYMMETRY Symmetry
