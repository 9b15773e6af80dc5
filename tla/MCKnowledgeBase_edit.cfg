\* One editor's request during loads that fail, are interrupted and run again.
CONSTANTS
  Editors = {e1}
  Biz = {1, 2}
  LoadBiz = 1
  Lang = {"en", "my"}
  LangFlag = "en"
  Edits <- SomeEdits
  Files <- SomeFiles
  Prior <- SomePrior
  Attempts = 2
  MaxId = 6
  MaxLost = 1
SPECIFICATION Spec
CHECK_DEADLOCK FALSE
INVARIANTS TypeOK SearchFindsItsOwn MenusAsAuthored DuplicatesOnlyFromLostReplies
PROPERTIES TenantIsolation
