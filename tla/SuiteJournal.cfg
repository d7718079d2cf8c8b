\* Two invocations at a time of a suite of three flows; safety under crashes,
\* power loss, failed saves, input edits and lock removal.
CONSTANTS
  N = 3
  p1 = p1
  p2 = p2
  v1 = v1
  v2 = v2
  in1 = in1
  in2 = in2
  Proc = {p1, p2}
  Value = {v1, v2}
  Version = {in1, in2}
  None = None
SPECIFICATION Spec
SYMMETRY MCSymmetry
INVARIANTS
  ClaimCoversOperation
  JournalTruthful
  ExportsRestored
  SameInputsThroughout
  PassMeansConfirmed
PROPERTY OnceInOrder
