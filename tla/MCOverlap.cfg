\* Every text of up to six runes.
SPECIFICATION Spec
CONSTANTS
  Engines <- MCEngines
  Texts <- MCTexts
  MaxText = 6
  Fold <- MCFold
  Width <- MCWidth
  WordRunes = {1, 2}
  Breaks <- MCBreaks
  Scans = {}
  Splits <- MCLegacy
  Workers = 2
\* A call ends.
CHECK_DEADLOCK FALSE
INVARIANT OverlapProtects
