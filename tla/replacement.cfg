SPECIFICATION FairSpec
CONSTANTS
  First = a
  Operations = {b}
  Operators = {p1, p2}
  NoOperation = NoOperation
  MaxTroubles = 2
INVARIANTS RowsAgree  OneAgentWorks 
PROPERTIES ImplementsHandover ReplacementSettles
CHECK_DEADLOCK FALSE
