SPECIFICATION FairSpec
CONSTANTS
  Null = Null
  Unknown = Unknown
  Values = {"", "malformed", "default", "hcl", "env"}
  Inputs <- SampleInputs
INVARIANTS IInv PlanNeverGuesses
PROPERTIES TimeoutsReach
