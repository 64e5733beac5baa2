SPECIFICATION MCSpec
CONSTANTS
  Columns <- VdbeColumns
  Widths <- VdbeWidths
  Databases <- VdbeDatabases
  Queries <- VdbeQueries
INVARIANTS EnginesAgree WindowsByDefinition WithAnswers
PROPERTY Halts
CHECK_DEADLOCK FALSE
