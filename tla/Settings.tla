------------------------------ MODULE Settings ------------------------------
(***************************************************************************)
(* A business's settings, one JSON value in its row, with the writers that *)
(* read it, change a part and write it back: the settings form of the edit *)
(* page (internal/editor/editor.go) and cmd/loadmessages, which merges the *)
(* per-language texts and then the widget's labels                         *)
(* (internal/store/businesses.go).  And what customers are shown of it:    *)
(* SettingsFor and UILabelsFor.                                            *)
(*                                                                         *)
(* Abstracted: a text is its language and a number; {name} and the display *)
(* name are left out.  A language the settings have no entry for is one    *)
(* whose texts are all blank, which is how every reader sees it.  A file   *)
(* names a language once.  Names ending in _<Fault> are faulty variants.   *)
(***************************************************************************)
EXTENDS Integers

CONSTANTS
  Forms,        \* posts of the settings form in progress
  Loaders,      \* runs of loadmessages in progress
  Lang,
  DefaultLang,  \* the deployment's default language
  Field,        \* the presentation strings: welcome, fallback, ask
  Label,        \* the keys of the widget's labels
  Texts,        \* the numbers of the texts of a language
  Rates,        \* the limits a form may hold: any integer
  Inputs,       \* the base texts and rates a form may be posted with
  Files,        \* the message files
  MaxWrites,    \* bound on the writes
  Overlap,      \* may writers overlap?
  MayFail       \* may the database fail?

Blank == <<>>
TextOf(l) == {l} \X Texts
\* DefaultWelcome, DefaultFallback, DefaultAsk and DefaultUILabels
English == <<"en", 0>>

Strings(l) == [Field -> TextOf(l) \cup {Blank}]
Labels(l) == [Label -> TextOf(l) \cup {Blank}]

ASSUME SettingsAssumption ==
  /\ Forms \cap Loaders = {}
  /\ DefaultLang \in Lang /\ 0 \notin Texts
  /\ Rates \subseteq Int /\ 0 \in Rates
  /\ Inputs \subseteq [base : Strings(DefaultLang), rates : [{"ask", "global"} -> Rates]]
  /\ \A f \in Files : /\ DOMAIN f = {"strings", "ui"}
                      /\ DOMAIN f.strings \subseteq Lang
                      /\ DOMAIN f.ui \subseteq Lang
                      /\ \A l \in DOMAIN f.strings : f.strings[l] \in Strings(l)
                      /\ \A l \in DOMAIN f.ui : f.ui[l] \in Labels(l)
                      /\ DOMAIN f.strings # {} \/ DOMAIN f.ui # {}
  /\ MaxWrites \in Nat
  /\ Overlap \in BOOLEAN /\ MayFail \in BOOLEAN

VARIABLES
  stored,     \* the settings in the business's row
  writer,     \* the writers in progress
  version,    \* history: writes made
  loaded,     \* history: the last texts and labels the files gave each language
  clobbered   \* history: has a write gone over one it had not read?

vars == <<stored, writer, version, loaded, clobbered>>

NoStrings == [l \in Lang |-> [f \in Field |-> Blank]]
NoLabels == [l \in Lang |-> [k \in Label |-> Blank]]

\* What a business that never set anything has, and what a failed load returns.
Empty == [base |-> [f \in Field |-> Blank], rates |-> [k \in {"ask", "global"} |-> 0],
          localized |-> NoStrings, ui |-> NoLabels]

Writers == Forms \cup Loaders
NoTask == [base |-> Blank]
Idle == [pc |-> "idle", task |-> NoTask, seen |-> Empty, at |-> 0]

Init == /\ stored = Empty
        /\ writer = [p \in Writers |-> Idle]
        /\ version = 0
        /\ loaded = [localized |-> NoStrings, ui |-> NoLabels]
        /\ clobbered = FALSE

----------------------------------------------------------------------------
(* What the readers make of the stored settings. *)

FirstNonEmpty(a, b, c) == IF a # Blank THEN a ELSE IF b # Blank THEN b ELSE c

\* The base text whatever the language.
Localize_AnyBase(s, l, f) == FirstNonEmpty(s.localized[l][f], s.base[f], English)

Localize(s, l, f) ==
  FirstNonEmpty(s.localized[l][f],
                IF l = DefaultLang THEN s.base[f] ELSE Blank,
                English)

UILabelsFor(s, l, k) == IF s.ui[l][k] # Blank THEN s.ui[l][k] ELSE English

\* DefaultAskRatePerMin, DefaultAskGlobalPerMin
DefaultRate == [ask |-> 10, global |-> 60]
Limit(s, k) == IF s.rates[k] > 0 THEN s.rates[k] ELSE DefaultRate[k]

----------------------------------------------------------------------------
MayStart(p) == /\ writer[p].pc = "idle"
               /\ Overlap \/ \A q \in Writers : writer[q].pc = "idle"

\* load, as the writers use it.
Load(p, pc, task) ==
  writer' = [writer EXCEPT ![p] = [pc |-> pc, task |-> task, seen |-> stored, at |-> version]]

Stop(p) == writer' = [writer EXCEPT ![p] = Idle]

\* UpdateSettings.
UpdateSettings(p, s) ==
  /\ version < MaxWrites
  /\ stored' = s
  /\ version' = version + 1
  /\ clobbered' = (clobbered \/ writer[p].at # version)

\* HandleSettings up to the read of the stored settings, whose error it drops.
PostForm(p) ==
  /\ MayStart(p)
  /\ \E in \in Inputs :
       \/ Load(p, "saving", in)
       \/ /\ MayFail
          /\ writer' = [writer EXCEPT ![p] = [pc |-> "saving", task |-> in,
                                             seen |-> Empty, at |-> -1]]
  /\ UNCHANGED <<stored, version, loaded, clobbered>>

\* The overrides dropped too.
FormSettings_Drops(w) == [base |-> w.task.base, rates |-> w.task.rates,
                          localized |-> NoStrings, ui |-> NoLabels]

\* The settings HandleSettings builds: what the form shows, and the overrides.
FormSettings(w) == [base |-> w.task.base, rates |-> w.task.rates,
                    localized |-> w.seen.localized, ui |-> NoLabels]

SaveForm(p) ==
  /\ writer[p].pc = "saving"
  /\ \/ UpdateSettings(p, FormSettings(writer[p]))
     \/ MayFail /\ UNCHANGED <<stored, version, clobbered>>
  /\ Stop(p)
  /\ UNCHANGED loaded

\* loadmessages, up to the load in SetLocalized; a file without texts goes on
\* to its labels.
StartFile(p) ==
  /\ MayStart(p)
  /\ \E f \in Files : Load(p, IF DOMAIN f.strings # {} THEN "strings" ELSE "ui", f)
  /\ UNCHANGED <<stored, version, loaded, clobbered>>

Over(entries, old) == [l \in Lang |-> IF l \in DOMAIN entries THEN entries[l] ELSE old[l]]

\* The labels and texts filed under the default language.
Merge_DefaultLang(entries, into) ==
  [l \in DOMAIN into |-> IF l \in DOMAIN entries THEN entries[l]
                         ELSE IF l = DefaultLang THEN entries[CHOOSE m \in DOMAIN entries : TRUE]
                         ELSE into[l]]

\* A file's entries over those of the languages it does not name.
Merge(entries, into) == Over(entries, into)

\* SetLocalized's write; then SetUILabels, if the file has labels.
SetLocalized(p) ==
  LET w == writer[p] IN
  /\ w.pc = "strings"
  /\ \/ /\ UpdateSettings(p, [w.seen EXCEPT !.localized = Merge(w.task.strings, @)])
        /\ loaded' = [loaded EXCEPT !.localized = Over(w.task.strings, @)]
        /\ writer' = [writer EXCEPT ![p] = IF DOMAIN w.task.ui # {}
                                           THEN [Idle EXCEPT !.pc = "labels", !.task = w.task]
                                           ELSE Idle]
     \/ MayFail /\ Stop(p) /\ UNCHANGED <<stored, version, loaded, clobbered>>

LoadForLabels(p) ==
  /\ writer[p].pc = "labels"
  /\ \/ Load(p, "ui", writer[p].task)
     \/ MayFail /\ Stop(p)
  /\ UNCHANGED <<stored, version, loaded, clobbered>>

SetUILabels(p) ==
  LET w == writer[p] IN
  /\ w.pc = "ui"
  /\ \/ /\ UpdateSettings(p, [w.seen EXCEPT !.ui = Merge(w.task.ui, @)])
        /\ loaded' = [loaded EXCEPT !.ui = Over(w.task.ui, @)]
     \/ MayFail /\ UNCHANGED <<stored, version, loaded, clobbered>>
  /\ Stop(p)

Next == \/ \E p \in Forms : PostForm(p) \/ SaveForm(p)
        \/ \E p \in Loaders : \/ StartFile(p) \/ SetLocalized(p)
                              \/ LoadForLabels(p) \/ SetUILabels(p)

Spec == Init /\ [][Next]_vars

----------------------------------------------------------------------------
Stored == [base : Strings(DefaultLang), rates : [{"ask", "global"} -> Rates],
           localized : [Lang -> UNION {Strings(l) : l \in Lang}],
           ui : [Lang -> UNION {Labels(l) : l \in Lang}]]

InOwnLanguage(s) == \A l \in Lang : /\ s.localized[l] \in Strings(l)
                                    /\ s.ui[l] \in Labels(l)

WriterTypeOK(w) ==
  \/ w = Idle
  \/ /\ w.pc = "saving" /\ w.task \in Inputs
     /\ w.seen \in Stored /\ InOwnLanguage(w.seen)
     /\ w.at \in -1 .. version
  \/ /\ w.pc \in {"strings", "ui"} /\ w.task \in Files
     /\ w.seen \in Stored /\ InOwnLanguage(w.seen)
     /\ w.at \in 0 .. version
  \/ w.pc = "labels" /\ w.task \in Files /\ w.seen = Empty /\ w.at = 0

\* The settings and the writers' readings are well formed, and every text is
\* under its own language.
TypeOK == /\ stored \in Stored /\ InOwnLanguage(stored)
          /\ version \in 0 .. MaxWrites
          /\ clobbered \in BOOLEAN
          /\ loaded \in [localized : [Lang -> UNION {Strings(l) : l \in Lang}],
                         ui : [Lang -> UNION {Labels(l) : l \in Lang}]]
          /\ writer \in [Writers -> [pc : {"idle", "saving", "strings", "labels", "ui"},
                                    task : {NoTask} \cup Inputs \cup Files,
                                    seen : Stored, at : Int]]
          /\ \A p \in Writers : WriterTypeOK(writer[p])
          /\ \A p \in Forms : writer[p].pc \in {"idle", "saving"}
          /\ \A p \in Loaders : writer[p].pc # "saving"

\* Whatever the writers did, no customer meets a blank text, one of another
\* language (but English, the last resort), or a limit that limits nothing
\* (localize, UILabelsFor).
AlwaysPresentable ==
  /\ \A l \in Lang, f \in Field : Localize(stored, l, f) \in TextOf(l) \cup {English}
  /\ \A l \in Lang, k \in Label : UILabelsFor(stored, l, k) \in TextOf(l) \cup {English}
  /\ \A k \in {"ask", "global"} : Limit(stored, k) > 0

\* The texts stored for the languages are those of the last files that named
\* them, through any number of posts of the form, unless some write went over
\* one its writer had not read (businesses.go SetLocalized, SetUILabels and
\* editor.go HandleSettings all write back everything they read).
LostOnlyToOverlap == stored.localized = loaded.localized \/ clobbered

\* editor.go:364-365, of the settings form: "this form only edits the base
\* fields, so don't drop what it doesn't show".
LabelsKept == stored.ui = loaded.ui
=============================================================================
