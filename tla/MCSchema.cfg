SPECIFICATION MCSpec
INVARIANTS CatalogSound RenameKeepsMeaning
PROPERTY RowsKept
CHECK_DEADLOCK FALSE
