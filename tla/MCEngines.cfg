\* Runes 1 and 2 are one byte, 3 and 4 are not; 4 starts no keyword.
SPECIFICATION Spec
CONSTANTS
  Dictionaries <- MCDictionaries
  MaxKeyword = 3
  TextRunes = {1, 3, 4}
  MaxText = 4
  RuneSelf = 3
  BandDepth = 1
  OutNone = OutNone
  Limits = {0, 2}
\* A scan ends with its text.
CHECK_DEADLOCK FALSE
INVARIANTS
  FailureLinksRight
  DoubleArrayIsTheTrie
  AnswerRight
