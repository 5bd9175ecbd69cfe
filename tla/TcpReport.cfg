CONSTANTS
  a = a
  b = b
  Zero = Zero
  Lo = Lo
  Conns <- MCConns
  MaxEvents = 3
  MaxErrors = 1
SPECIFICATION Spec
CHECK_DEADLOCK FALSE
INVARIANTS
  PrintedInOrder
  LinesPairEnds
PROPERTY ReaderEnds
