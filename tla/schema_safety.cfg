SPECIFICATION Spec
CONSTANTS
  None = None
  Definitions = {a, b}
  Levels = {backward, full}
  MaxVersion = 3
  MaxLate = 1
SYMMETRY Symmetry
INVARIANTS IInv VersionFaithful LevelFaithful
PROPERTIES RecordsWhatWasRegistered RecordKept NoPhantomDrift ImplementsContract
