SPECIFICATION Spec
CONSTANTS
  e1 = e1  e2 = e2  e3 = e3  e4 = e4
  Uninit = Uninit
  N <- MCN
  Elem <- MCElem
SYMMETRY MCSymmetry
INVARIANTS DenseBlock OneOwner
PROPERTY RefinesMap
