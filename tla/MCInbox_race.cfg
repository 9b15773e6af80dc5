\* Every surface, two tenants, two overlapping requests, any call may fail.
SPECIFICATION Spec
CONSTANTS
  MaxItem = 2
  home = home
  other = other
  Businesses <- MCBusinesses
  Home = home
  Owner <- MCOwner
  Admins = {a1}
  Workers = {w1, w2}
  Surfaces = {"form", "command", "tap"}
  Faults = TRUE
  None = None
SYMMETRY Symmetry
INVARIANTS TypeOK ResolvedOnlyWithCause AnsweredLeavesInbox PromptStands
PROPERTY ImplementsTicket
