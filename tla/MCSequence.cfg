\* Three concurrent callers of one sequence, with failures at every statement.
SPECIFICATION FairSpec
CONSTANTS
  Callers = {c1, c2, c3}
  caseCode = caseCode
  unknownCode = unknownCode
  casePrefix = casePrefix
  NoPrefix = NoPrefix
  NoCaller = NoCaller
  Codes <- MCCodes
  Configured <- MCConfigured
  MaxNumber = 4
  Radix = 2
  Padding <- MCPadding
  Prefix <- MCPrefix
INVARIANTS
  TypeOK
  NoDuplicateCode
  EveryNumberAccounted
PROPERTIES
  ImplementsCounter
  EveryCallEnds
