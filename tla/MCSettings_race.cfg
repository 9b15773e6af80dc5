\* A settings form and two runs of loadmessages, overlapping, reads and writes failing.
CONSTANTS
  Forms = {f1}
  Loaders = {l1, l2}
  Lang = {"en", "my"}
  DefaultLang = "en"
  Field <- SomeField
  Label = {"send"}
  Texts = {1, 2}
  Rates <- SomeRates
  Inputs <- SomeInputs
  Files <- SomeFiles
  MaxWrites = 3
  Overlap = TRUE
  MayFail = TRUE
SPECIFICATION Spec
CHECK_DEADLOCK FALSE
INVARIANTS TypeOK AlwaysPresentable LostOnlyToOverlap
