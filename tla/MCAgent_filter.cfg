SPECIFICATION LiveSpec
CONSTANTS
  k1 = k1
  Client = {c1}
  Blob = {k1, k2}
  Comment <- MCComments
  Lists <- MCLists
  Kind <- MCKinds
  AllowExtensions = FALSE
INVARIANT TypeOK
PROPERTIES ReadOnlyAgent SignedAsPermitted ListsExactlyPermitted Answered
