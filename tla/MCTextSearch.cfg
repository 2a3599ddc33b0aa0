\* Every text of up to five runes and some longer ones.
SPECIFICATION Spec
CONSTANTS
  Engines <- MCEngines
  Texts <- MCTexts
  MaxText = 5
  Fold <- MCFold
  Width <- MCWidth
  WordRunes = {1, 2}
  Breaks <- MCBreaks
  Scans <- MCScans
  Splits <- MCSplits
  Workers = 2
\* A call ends.
CHECK_DEADLOCK FALSE
INVARIANTS
  ScanExact
  WorkLimitHonest
  WindowBounded
  RewriteSized
  ParallelExact
