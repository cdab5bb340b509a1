SPECIFICATION Spec
CONSTANTS
  root = root
  ann = ann
  r1 = r1
  r2 = r2
  People = {root, ann}
  Admins = {root}
  Owner = root
  Requests = {r1, r2}
  MaxPasswords = 3
  MaxTokens = 3
INVARIANTS
  SessionsEndWithThePassword
  TemporaryMustBeChanged
PROPERTIES
  RefusedStaysRefused
SYMMETRY
  RequestSymmetry
CHECK_DEADLOCK FALSE
