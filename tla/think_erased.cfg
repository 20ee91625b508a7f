SPECIFICATION Spec
CONSTANTS
  Proc = {p1, p2}
  NoFile = NoFile
  Legacy <- NoLegacy
  OldFile = NoFile
  Elsewhere = {}
  Asked = {}
  Window = 2
  IOErrors = FALSE
  MaxMinted = 2
  MaxWipes = 0
PROPERTY NothingIsErased
