SPECIFICATION FairSpec
CONSTANTS
  e1 = e1
  h1 = h1
  h2 = h2
  Emails = {e1}
  Codes = {1, 2}
  NoCode = NoCode
  Passwords = {"old", "new"}
  Roles = {"PARENT", "PRINCIPAL"}
  CreatableRoles = {"PRINCIPAL"}
  OwnerOnlyRoles = {"PRINCIPAL"}
  NoUser = NoUser
  NoRole = NoRole
  Handlers = {h1, h2}
  Loads <- AllLoads
INVARIANT TypeOK
PROPERTIES AccountSpec ParentsGetIn
CHECK_DEADLOCK FALSE
