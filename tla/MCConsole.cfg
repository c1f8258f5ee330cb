SPECIFICATION CSpec
CONSTANTS
  p1 = p1
  p2 = p2
  Reader = {p1, p2}
  Nobody = Nobody
  Keys = {"c", "shift", "rctrl", "caps", "num", "end", "back"}
  Texts <- SomeTexts
  Width = 2
  Crosstalk = FALSE
  MaxLine = 2
  MaxRow = 2
  MaxColumn = 4
  MaxHeld = 2
SYMMETRY ReaderSymmetry
INVARIANTS NoStuckModifier
PROPERTIES ErasesLast 
