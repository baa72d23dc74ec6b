SPECIFICATION IdentitySpec
CONSTANTS
  Users <- MCUsers
  EmailOf <- MCEmailOf
  RolesOf <- MCRolesOf
  Verified <- MCUsers
  TypedEmails <- MCTypedEmails
  FirstEmail = "shrey"
  Lifetime = 2
  MaxTime = 3
  None = None
INVARIANTS
  SessionWhole
  AccessByRole
