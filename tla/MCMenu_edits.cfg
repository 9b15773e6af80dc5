\* Each channel over a table that editors change.
SPECIFICATION MenuSpec
CONSTANTS
    Channels = {"telegram", "messenger", "widget"}
    Names = {"ship", "payment", "delivery"}
    NoName = "none"
    Cut <- MCCut
    Broken = {"deliv?"}
    Langs = {"en", "my"}
    Lang = "en"
    MaxFaqs = 2
    MaxCategories = 1
    MaxCards = 1
    MaxEdits = 1
    Slots = {t1, t2}
    Messages = {m1, m2}
    LoadSlots = {l1, l2}
    Tables <- Authored
SYMMETRY Symmetry
INVARIANTS
    MenuTypeOK
    MenuReachesAll
PROPERTIES
    FreshButtonsKeepPromise
    ChipsOpenTheirFaqs
