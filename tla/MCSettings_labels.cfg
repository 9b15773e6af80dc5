\* One writer at a time, nothing fails.
CONSTANTS
  Forms = {f1}
  Loaders = {l1}
  Lang = {"en", "my"}
  DefaultLang = "en"
  Field <- SomeField
  Label = {"send"}
  Texts = {1, 2}
  Rates <- SomeRates
  Inputs <- SomeInputs
  Files <- SomeFiles
  MaxWrites = 4
  Overlap = FALSE
  MayFail = FALSE
SPECIFICATION Spec
CHECK_DEADLOCK FALSE
INVARIANT LabelsKept
