SPECIFICATION FairSpec
CONSTANTS
  a = a
  b = b
  none = none
  Remotes = {a, b}
  None = none
INVARIANTS TypeOK PartialOffered SummaryTrue
PROPERTIES TransferLeaves
