SPECIFICATION Spec
CONSTANTS
  k1 = k1
  Client = {c1}
  Blob = {k1}
  Comment <- MCTwice
  Lists <- MCEnding
  Kind <- MCKinds
  AllowExtensions = FALSE
INVARIANT PolicyAsDocumented
