\* The settings cannot be loaded.
SPECIFICATION Spec
CONSTANTS
  Endpoint = {"ask"}
  Requests = {c1}
  Session = {s1}
  Anyone = Anyone
  AskLimits <- MCAsk
  MaxLimit = 2
  LeadLimits <- MCLead
  Window = 2
  MaxTime = 4
  Stalls = FALSE
  SettingsFail = TRUE
PROPERTY AsksAreLimited
