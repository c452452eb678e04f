SPECIFICATION Spec
CONSTANTS
  Idents <- MCIdents
  Problems <- MCProblems
INVARIANTS
  TypeOK
  Available
  NothingMore
PROPERTY
  Settles
