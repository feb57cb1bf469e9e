CONSTANTS
  t1 = t1
  t2 = t2
  Texts = {t1, t2}
  NoText = NoText
SPECIFICATION Spec
SYMMETRY TextSymmetry
INVARIANTS
  OpeningStartsEngine
