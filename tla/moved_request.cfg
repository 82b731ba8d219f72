\* A client that comes while a request waits for its body.
SPECIFICATION Spec
CONSTANTS
  Timeout = 1
  c1 = c1
  c2 = c2
  c3 = c3
  Conns = {c1, c2}
  Users = {"ann", "bob"}
  User <- MCUser
  MaxRequests = 3
  Locations = {"root", "images"}
  NoLocation = NoLocation
INVARIANTS LocationKept
