\* Every value of contact_capture, with failures, double clicks, a switch and a
\* reload, under admins who read the dashboard, delete the contact and purge.
SPECIFICATION FairSpec
CONSTANTS
    Texts = {t1, t2}
    ApiLimit = 2
    EditLimit = 1
    ProfileLimit = 1
    HistoryLimit = 1
    MaxNewer = 1
    NoText = NoText
    Captures = {"off", "always", "handoff"}
    Entries = {{"email"}, {"phone"}}
    MaxClicks = 2
    MaxTyped <- MCMaxTyped
    MaxSwitches = 1
    MaxReloads <- MCMaxReloads
    BoardsIn = {"off"}
INVARIANTS
    TypeOK
    QuestionsHaveContacts
    NothingForgotten
    DashboardAddsUp
PROPERTIES
    BoxIsFreed
CHECK_DEADLOCK FALSE
