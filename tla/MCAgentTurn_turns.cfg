SPECIFICATION Spec
CONSTANTS
  Messages <- MCMessages
  Histories <- MCHistories
  Sizes <- MCSizes
  Settings <- MCSettings
  MaxMessages = 2
  MaxChars = 3
INVARIANTS
  GatesAgree
  CalculationIsServed
  ContextIsRecent
