SPECIFICATION Spec
CONSTANTS
  Sizes = {1, 5}
  MaxRequest = 2
  Period = 8
  MaxGenerations = 3
  MaxLeaks = 1
INVARIANTS
  TypeOK
  RingsConsistent
  GrantStaysFree
  LoanStaysValid
PROPERTY
  ImplementsStream
