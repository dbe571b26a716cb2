SPECIFICATION FairSpec
CONSTANTS
  Null = Null
  Unknown = Unknown
  Values = {"", "malformed", "default", "hcl", "env"}
  Inputs <- SampleInputs
PROPERTIES ReadsEnd
