CONSTANTS
  S1 = S1
  S2 = S2
  S3 = S3
  F = F
  X = X
  D = D
  Dot = Dot
  Quote = Quote
  Backslash = Backslash
  Dollar = Dollar
  Letter <- MCLetter
  Digit <- MCDigit
  Name <- MCName
  RecurseFor <- MCRecurseFor
  Text <- MCText
  AttrSet <- MCAttrSet
  Function <- MCFunction
  Null = Null
  Expression <- MCRecords
  MaxDepth = 4
  MaxEvents = 2
SPECIFICATION Spec
INVARIANTS InputDrvsShown
