CONSTANTS
  DNS_MAX_NAME_LEN = 3
  DNS_MAX_LABEL_LEN = 2
  Character <- MCCharacter
  File <- MCFile
  MaxFragments = 3
SPECIFICATION Spec
INVARIANT CommentsAreIgnored
