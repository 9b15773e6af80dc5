\* Every tier; every call may fail, deadlines pass, processes stop and start.
SPECIFICATION FairSpec
CONSTANTS
  chat = chat
  web = web
  cmd = cmd
  faq = faq
  Msg = {chat, web, cmd}
  FromWidget = {web}
  Arrivals <- MCArrivals
  Slash = {cmd}
  FromAdmin = {cmd}
  Faq = {faq}
  Match <- MCMatch
  AIEnabled = TRUE
  MaxAttempts = 2
  MaxStops = 2
  Faults = TRUE
  None = None
INVARIANTS TypeOK HandoffIsInInbox RepliesAreRecorded HandledOnFullSchema
PROPERTY MessageSettles
CHECK_DEADLOCK FALSE
