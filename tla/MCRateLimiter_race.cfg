\* Clocks read before the lock is taken, limits changed or unreadable in between.
SPECIFICATION Spec
CONSTANTS
  Endpoint = {"ask"}
  Requests = {c1, c2}
  Session = {s1}
  Anyone = Anyone
  AskLimits <- MCAsk
  MaxLimit = 2
  LeadLimits <- MCLead
  Window = 2
  MaxTime = 5
  Stalls = TRUE
  SettingsFail = TRUE
SYMMETRY Symmetry
INVARIANTS TypeOK RefusedOnlyWhenFull RateIsBounded
PROPERTY WindowsAreKept
