CONSTANTS
  Servers = {b1, b2, b3}
  MaxRetries = 3
  MaxLate = 1
SPECIFICATION FairSpec
INVARIANT IInv
PROPERTIES DropOnlyIfAbsent OperationsEnd WorkShrinks ImplementsContract
