CONSTANTS
  q1 = q1
  q2 = q2
  doc = doc
  requester = requester
  manager = manager
  deputy = deputy
  c1 = c1
  c2 = c2
  c3 = c3
  NoOne = NoOne
  Requests <- MCRequests
  Documents <- MCDocuments
  Users <- MCUsers
  RolesOf <- MCRolesOf
  Chains <- MCChains
  DelegationPairs <- MCDelegationPairs
  Calls <- MCCalls
SPECIFICATION MCSpec
SYMMETRY CallSymmetry
INVARIANTS
  TypeOK
  ApprovedIsBacked
  RejectedNeverApproved
  RequestsHoldTogether
CHECK_DEADLOCK FALSE
