SPECIFICATION MCSpec
CONSTANTS
  Parts = {"session", "segment", "fts5", "capi", "rtree", "series"}
  Statements <- FtsStatements
  Details = {"full", "columns", "none"}
  AutoMerge = 2
  Crisis = 3
  WorkUnit = 4
  LeafPostings = 2
  DlidxPostings = 2
  MaxStatements = 4
  Columns <- FtsColumns
  TermOrder <- FtsTermOrder
  Extends <- FtsExtends
  Stem <- FtsStem
  U32 = 8
  Wheres <- FtsWheres
INVARIANTS MatchServesTheDocuments IndexIsContent SegmentReadsBack Converges CurrentRowStands RTreeIsTable SeriesComplete
CHECK_DEADLOCK FALSE
