SPECIFICATION DictionarySpec
CONSTANTS
  w1 = w1
  w2 = w2
  Workers = {w1, w2}
  Tables <- MCTables
  Staging <- MCStaging
  Found <- MCFound
  Unknown = "Unknown"
  LabelOrder <- MCLabels
  NameOf <- MCName
  SchemaOf <- MCSchema
  Begins <- MCBegins
  Signals <- MCSignals
  ColumnOf <- MCColumn
  Stages <- MCStages
  MinSupport = 2
  MaxCalls = 3
  MaxFaults = 1
SYMMETRY Symmetry
INVARIANT JobsTellTheTruth
INVARIANT SnapshotsAreInOrder
INVARIANT LearnedWasApproved
INVARIANT KnowledgeIsSound
INVARIANT KnowledgeIsCurrent
PROPERTY DecisionsStand
CHECK_DEADLOCK FALSE
