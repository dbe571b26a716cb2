CONSTANTS
  Null = Null
  Unknown = Unknown
  v1 = v1
  v2 = v2
  Value = {v1, v2}
  Dedicated = {"retention_ms"}
  Legacy = {"semantic_embed", "semantic_field"}
  OptionalOnly = {"semantic_field"}
  OtherKeys = {"storage.mode"}
  MaxPartitions = 3
  MaxRetries = 3
  MaxLate = 1
  LaggingMetadata = FALSE
  OmittedResults = FALSE
  Configs <- FewConfigs
  LegacySettings <- FewLegacy
SPECIFICATION Spec
INVARIANTS IInv SettingsFaithful PartitionsNotOverstated
PROPERTIES CreateNeverAdopts DropOnlyIfAbsent ImplementsContract
