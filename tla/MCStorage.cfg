SPECIFICATION Spec
CONSTANT None = None
INVARIANTS TreesServe PagesAccounted PtrmapTrue Recovered ReadersAgree
PROPERTY VacuumKeepsTrees
CHECK_DEADLOCK FALSE
