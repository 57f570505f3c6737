SPECIFICATION LibrarySpec
CONSTANTS
  Size = 4
  Digest = 3
  Prime = 47
  Magic = 2
  Leftover <- MCLeftover
  Block = 4
  Bits = 2
  Word = 16
  Pieces = {0, 1, 2, 3, 4, 5, 7, 8, 9, 11}
  Longest = 140
  Suite <- MCSuite
INVARIANTS
  TypeOK
  Permutes
  SearchHits
  RoundTrip
  NamesUser
  HashesPadded
  DigestsRight
PROPERTIES
  Returns
  FillsTables
CHECK_DEADLOCK FALSE
