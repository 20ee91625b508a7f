SPECIFICATION Spec
CONSTANTS
  Proc = {p1, p2}
  NoFile = NoFile
  Legacy <- ClonedLegacy
  OldFile = NoFile
  Elsewhere <- ClonedElsewhere
  Asked = {2}
  Window = 2
  IOErrors = TRUE
  MaxMinted = 1
  MaxWipes = 1
SYMMETRY Symmetry
INVARIANTS NoNewClones WipedStaysWiped IndexIsRight
PROPERTY OnlyKnownErasures
