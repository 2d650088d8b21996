\* Four ways: every flag pattern and every position of the hand.
CONSTANTS
  NumLines = 4
  WordBits = 17
  blockOffset = 2
  setBit = 2
  Addresses <- AroundTheRange
SPECIFICATION LookupSpec
INVARIANTS
  MatchesClosedForm
  SplitIsExact
  NumbersFit
PROPERTIES
  SweepEnds
