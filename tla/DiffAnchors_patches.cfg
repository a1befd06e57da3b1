\* Every patch of up to five lines, and every finding about it.
SPECIFICATION Spec
CONSTANTS
  New = New
  Old = Old
  Other = Other
  Items <- SomeItems
  MaxItems = 5
  Context = 1
  Span = 4
  Names = {New, Old, Other}
  Path = New
  Renames <- OldName
  MaxLine = 5
INVARIANTS
  TypeOK
  ParsedAsWritten
  WellPlaced
CHECK_DEADLOCK FALSE
