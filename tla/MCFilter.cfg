CONSTANTS
  DNS_MAX_NAME_LEN = 5
  DNS_MAX_LABEL_LEN = 2
  INITIAL_CHILDREN_CAPACITY = 1
  RawDomain <- MCRawDomain
  Label <- MCLabel
  LabelsOf <- MCLabelsOf
SPECIFICATION Spec
INVARIANTS TypeOK LookupMatchesList NoOrphans ChildrenFit SubdomainRule
PROPERTY FailedAddChangesNoAnswer
