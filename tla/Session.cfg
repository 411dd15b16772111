CONSTANTS
  ann = ann
  bob = bob
  a1 = a1
  a2 = a2
  b1 = b1
  Users <- MCUsers
  Admins <- MCAdmins
  Tokens <- MCTwoTokens
  Owner <- MCTwoOwner
  NoOne = NoOne
  NoToken = NoToken
  Methods = {"password", "openid"}
  MaxActs = 4
SPECIFICATION Spec
INVARIANTS OwnerShown LogoutForgets
PROPERTY RedirectsSettle
CHECK_DEADLOCK FALSE
