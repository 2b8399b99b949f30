SPECIFICATION Spec
CONSTANTS
  hw1 = hw1
  hw2 = hw2
  c1 = c1
  c2 = c2
  A = A
  B = B
  blank = blank
  norow = norow
  Cells = {c1, c2}
  Assignments = {hw1, hw2}
  AssignmentOf <- TwoCells
  Grades = {A, B}
  Blank = blank
  NoRow = norow
  EditsDuring = TRUE
  MaxEdits = 2
  MaxCanvasEdits = 0
INVARIANTS BaselinePushed
CHECK_DEADLOCK FALSE
