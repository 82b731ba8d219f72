\* A client erased before it makes another look inactive.
SPECIFICATION FairSpec
CONSTANTS
  Timeout = 1
  c1 = c1
  c2 = c2
  c3 = c3
  Conns = {c1, c2, c3}
  Users = {"ann", "bob"}
  User <- MCUser
  MaxRequests = 3
  Locations = {"root"}
  NoLocation = NoLocation
PROPERTIES RemovedWhenInactive
