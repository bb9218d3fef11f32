\* A file is converted once; then there is nothing left to do.
SPECIFICATION PathSpec
CONSTANTS
  ByteBits = 3
  WordBytes = 2
  Inputs <- MCInputs
CHECK_DEADLOCK FALSE
INVARIANTS
  ResolutionSufficient
  NothingVanishes
  TextKept
  DecimalsExact
  AbsentIsNoEvidence
  NamesUnique
  DecodedAsWritten
  DamageStaysInColumn
