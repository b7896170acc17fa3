CONSTANTS
  Emails = {boss}
  AdminEmail = boss
  Registrations = {r1, r2}
  Events = {e1}
  Sessions = {s1, s2}
  Positions = {p1, p2, p3}
  GenCalls = {g1, g2}
  Edits = {d1}
  Orders = {o1}
  Statuses = {"draft", "published"}
  MaxTickets = 1
  Titles = {"first"}
  Creation = Creation
  None = None
SPECIFICATION Spec
CONSTRAINT RegistrationsFirst
SYMMETRY Symmetry
INVARIANTS
  CatalogInv
  TokensNameOneAccount
  ChecksAreKept
  SeatsAreUnique
  SessionsHaveAllSeats
  CapacityIsNotOverstated
  CapacityIsExactWithoutOverlap
PROPERTIES
  SalesAreKept
  PlanSpec
