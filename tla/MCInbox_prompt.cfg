\* The prompt of the panel without its proviso, with no failure at all and no two taps at once.
SPECIFICATION OneTapSpec
CONSTANTS
  MaxItem = 2
  home = home
  other = other
  Businesses <- OneTenant
  Home = home
  Owner <- MCOneOwner
  Admins = {a1}
  Workers = {w1, w2}
  Surfaces = {"tap"}
  Faults = FALSE
  None = None
INVARIANT PromptAlwaysStands
