SPECIFICATION AdminSpec
CONSTANTS
  k1 = k1
  k2 = k2
  Keys = {k1, k2}
  LamportsPerSol = 100
  Initials <- SomeInitials
  MarinadeRequests <- SomeMarinadeRequests
  LpRequests <- SomeLpRequests
  AuthorityRequests <- SomeAuthorityRequests
  Amounts64 = {0, 1, 9, 10, 11, 499, 500, 501, 1000, 2501, 4999, 5000, 6999, 100000}
SYMMETRY KeySymmetry
INVARIANTS AdminTypeOK UsersCanLeave SwapFeeBounded
