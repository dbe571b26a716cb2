SPECIFICATION Spec
CONSTANTS
  Any = Any
  Null = Null
  Name = events
  Principal = alice
  Host = host
  Operation = read
  Entries <- SampleEntries
  MaxRetries = 3
  MaxLate = 1
  Brokers <- SampleBrokers
PROPERTY BroadOnlyRefreshed
