\* Amounts in base 2 with two digits before and two after the point
CONSTANTS
  Base = 2
  MaxInteger = 2
  MaxDecimals = 2
  SmallExponent = 2
  KeyOrder <- MCKeyOrder
  Characters <- MCCharacters
  MaxDepth = 3
  LongName <- MCLongName
  UncountedName <- MCUncountedName
  Unstorable <- MCUnstorable
  Bodies <- MCBodies
  Variants <- MCVariants
SPECIFICATION RetriedSpec
INVARIANTS
  TypeOK
  AmountExact
  FailsOnlyByUnchecked
  RecipientIsParty
  PayloadAmount
  SameHashSameBody
  GeneratedIsAccepted
CHECK_DEADLOCK FALSE
