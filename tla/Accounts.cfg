CONSTANTS
  Users = {u1, u2}
  Persons = {p1, p2}
  Devices = {"device", "other"}
  Tickets = {"ticket"}
  Requests = {r1, r2}
  Ops = {"bind", "mobile"}
  CrossChannel = TRUE
  MaxVersion = 2
SPECIFICATION SpecAll
SYMMETRY Symmetry
INVARIANTS OnePersonOneUser 
PROPERTIES NeverMoved BindsItsOwner 
CHECK_DEADLOCK FALSE
