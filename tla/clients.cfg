\* Clients come, are moved and go, and sessions are found, made and expire.
SPECIFICATION Spec
CONSTANTS
  Timeout = 0
  c1 = c1
  c2 = c2
  c3 = c3
  Conns = {c1, c2, c3}
  Users = {"ann", "bob"}
  User <- MCUser
  MaxRequests = 3
  Locations = {"root"}
  NoLocation = NoLocation
INVARIANTS TypeOK CallbacksBound SessionsPrivate
SYMMETRY Symmetry
