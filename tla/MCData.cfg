CONSTANTS
  MaxVars = 4
  MaxActivity = 2
  Scale = 2
  Width = 2
  Cutoff = 2
  MaxWidth = 3
  MaxTerms = 2
  MaxLength = 6
  WordBits = 8
  StartCap = 4
  MaxSize = 5
  Names = {1, 2, 3}
  MaxExprs = 5
  MaxAsserts = 2

SPECIFICATION DataSpec
INVARIANTS
  NumbersRight
  StorageRight
  BddAnswerRight
PROPERTY DecidesMostActive
