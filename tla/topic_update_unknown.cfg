CONSTANTS
  Null = Null
  Unknown = Unknown
  v1 = v1
  v2 = v2
  Value = {v1, v2}
  Dedicated = {"retention_ms"}
  Legacy = {"semantic_embed", "semantic_field"}
  OptionalOnly = {"semantic_field"}
  OtherKeys = {"storage.mode"}
  MaxPartitions = 2
  MaxRetries = 1
  MaxLate = 0
  LaggingMetadata = FALSE
  OmittedResults = FALSE
  Configs <- AllConfigs
  LegacySettings <- FewLegacy
SPECIFICATION Spec
INVARIANTS UpdateResultWhollyKnown
