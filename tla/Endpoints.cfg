SPECIFICATION Spec
CONSTANTS
  Clients <- TwoClients
  AuthorizeRequests <- MCAuthorizeRequests
  TokenRequests <- MCTokenRequests
CHECK_DEADLOCK FALSE
INVARIANTS NoOpenRedirect UserLast ProvenOnce NoOracle NoEnumeration
