------------------------------- MODULE Widget -------------------------------
(***************************************************************************)
(* One visitor's chat in the web widget (widget/widget.js): the message    *)
(* box, the contact form that may have to be filled in first, the requests *)
(* to /ask and /lead, and the language switch, which empties the thread    *)
(* and loads it again.  Everything is a callback of the page's event loop: *)
(* between any two of them requests end, in any order, and the visitor     *)
(* types, clicks, switches the language or reloads the page.  What its     *)
(* requests leave on the server, and what the admins do with it meanwhile, *)
(* is Contacts.                                                            *)
(*                                                                         *)
(* A request's effect on the server and its answer are one step, unless    *)
(* the answer is lost.                                                     *)
(***************************************************************************)
EXTENDS Contacts

CONSTANTS
    NoText,         \* the form that follows an unanswered question has none
    Captures,       \* values of the server's contact_capture in use
    Entries,        \* the contacts visitors type into a form
    MaxClicks,      \* bound: /lead requests of one form under way together
    MaxTyped,       \* bound: messages the visitor types, by capture
    MaxSwitches,    \* bound: language switches
    MaxReloads,     \* bound: page reloads, by capture
    BoardsIn        \* bound: the values of contact_capture under which a dashboard is read

ASSUME CaptureAssumption ==
    /\ Captures \subseteq {"off", "always", "handoff"}
    /\ Entries \subseteq Contact
    /\ NoText \notin Texts

ASSUME BoundAssumption ==
    /\ MaxClicks \in Nat \ {0}
    /\ {MaxTyped, MaxReloads} \subseteq [Captures -> Nat]
    /\ MaxSwitches \in Nat

VARIABLES
    capture,        \* the server's contact_capture: whom it asks for a contact
    typed,          \* how many messages were typed so far
    sending,        \* an ask is under way: the box is blocked
    gating,         \* the form is to be filled in: the box is blocked
    contactDone,    \* the page asks for no contact any more
    stored,         \* the flag of contactDone in the browser's storage
    forms,          \* the forms made, [text, shown, leads]: leads are its requests
    asks,           \* message -> its /ask requests under way
    loaded,         \* the server's config has replaced the built-in one
    loads,          \* loadThread requests under way
    switches, reloads,
    lateLeads,      \* the contacts of an earlier page that the server may still save
    lateAsks,       \* message -> requests of an earlier page it may still answer
    waived,         \* history: a contact of this page failed, and it went on
    promised,       \* history: messages the page asked with the gate in force
    told            \* history: contact fields the visitor was told are saved

page == <<capture, typed, sending, gating, contactDone, stored, forms, asks, waived>>
late == <<lateLeads, lateAsks>>
view == <<loaded, loads, switches, reloads, late>>
record == <<promised, told>>
vars == <<page, view, record, tables, desk>>

\* Until /config arrives the page has its built-in one, with capture off.
Mode == IF loaded THEN capture ELSE "off"

-----------------------------------------------------------------------------
Init ==
    /\ capture \in Captures
    /\ typed = 0 /\ sending = FALSE /\ gating = FALSE
    /\ contactDone = FALSE /\ stored = FALSE
    /\ forms = << >>
    /\ asks = [t \in Texts |-> 0]
    /\ loaded = FALSE /\ loads = 1
    /\ switches = 0 /\ reloads = 0
    /\ lateLeads = {} /\ lateAsks = [t \in Texts |-> 0]
    /\ waived = FALSE /\ promised = {} /\ told = {}
    /\ InitTables /\ InitDesk

\* askContact: a form is shown and the box blocked.
AskContact(t) ==
    /\ gating' = TRUE
    /\ forms' = Append(forms, [text |-> t, shown |-> TRUE, leads |-> << >>])

\* ask: nothing is checked here, its callers have.
Ask(t, failed) ==
    /\ sending' = TRUE
    /\ asks' = [asks EXCEPT ![t] = @ + 1]
    /\ promised' = IF Mode = "always" /\ ~failed THEN promised \union {t} ELSE promised

Gated == Mode = "always" /\ ~contactDone

\* onsubmit
Submit(t) ==
    /\ typed < MaxTyped[capture] /\ ~sending /\ ~gating
    /\ typed' = typed + 1
    /\ \/ /\ Gated
          /\ AskContact(t)
          /\ UNCHANGED <<sending, asks, promised>>
       \/ /\ ~Gated
          /\ Ask(t, waived)
          /\ UNCHANGED <<gating, forms>>
    /\ UNCHANGED <<capture, contactDone, stored, waived, view, told, tables, desk>>

\* Continue on a form that is on the screen, filled in.  The button and the
\* fields stay enabled while a request is under way, so it may be pressed again.
Continue(k, c) ==
    /\ forms[k].shown /\ Len(forms[k].leads) < MaxClicks
    /\ forms' = [forms EXCEPT ![k].leads = Append(@, c)]
    /\ UNCHANGED <<capture, typed, sending, gating, contactDone, stored, asks, waived, view,
                   record, tables, desk>>

Without(k, i) ==
    [forms EXCEPT ![k].shown = FALSE,
                  ![k].leads = SubSeq(@, 1, i - 1) \o SubSeq(@, i + 1, Len(@))]

Done_Twice(k, i, failed) ==
    /\ forms' = Without(k, i)
    /\ gating' = FALSE /\ contactDone' = TRUE /\ sending' = (forms[k].text # NoText)
    /\ asks' = [t \in Texts |-> asks[t] + IF t = forms[k].text THEN 2 ELSE 0]
    /\ waived' = (waived \/ failed)
    /\ UNCHANGED <<capture, typed, promised, view, log, deleted, newer, desk>>

\* The end of a /lead request: the form goes, and the message that waited for
\* it is asked (then()).
Done(k, i, failed) ==
    /\ forms' = Without(k, i)
    /\ gating' = FALSE
    /\ contactDone' = TRUE
    /\ waived' = (waived \/ failed)
    /\ \/ forms[k].text = NoText /\ UNCHANGED <<sending, asks, promised>>
       \/ forms[k].text # NoText /\ Ask(forms[k].text, waived')
    /\ UNCHANGED <<capture, typed, view, log, deleted, newer, desk>>

LeadOk(k, i) ==
    /\ i \in DOMAIN forms[k].leads
    /\ Upsert(forms[k].leads[i])
    /\ told' = told \union forms[k].leads[i]
    /\ stored' = TRUE
    /\ Done(k, i, FALSE)

LeadFails_Stores(k, i) ==
    /\ i \in DOMAIN forms[k].leads
    /\ Upsert(forms[k].leads[i]) \/ UNCHANGED lead
    /\ stored' = TRUE
    /\ UNCHANGED told
    /\ Done(k, i, TRUE)

\* The request is refused (handleLead's limits, a failed upsert) or its answer
\* lost: the page goes on all the same, but does not remember the contact.
LeadFails(k, i) ==
    /\ i \in DOMAIN forms[k].leads
    /\ Upsert(forms[k].leads[i]) \/ UNCHANGED lead
    /\ UNCHANGED <<stored, told>>
    /\ Done(k, i, TRUE)

\* The last callback of an ask frees the box, even with another ask under way.
Ended(t) ==
    /\ asks[t] > 0
    /\ asks' = [asks EXCEPT ![t] = @ - 1]
    /\ sending' = FALSE
    /\ UNCHANGED <<capture, typed, contactDone, stored, waived, view, record, lead, deleted,
                   newer, desk>>

\* The answer of an ask; in handoff mode an unanswered question asks for the
\* contact, if none was given.  The engine may have failed to log it.
AskOk(t) ==
    /\ Ended(t)
    /\ \E answered \in BOOLEAN :
          /\ LogConversation(t, answered) \/ UNCHANGED log
          /\ IF Mode = "handoff" /\ ~answered /\ ~contactDone
             THEN AskContact(NoText)
             ELSE UNCHANGED <<gating, forms>>

AskFails_Blocks(t) ==
    /\ asks[t] > 0
    /\ asks' = [asks EXCEPT ![t] = @ - 1]
    /\ UNCHANGED <<capture, typed, sending, gating, forms, contactDone, stored, waived, view,
                   record, tables, desk>>

\* Refused, failed, or answered and the answer lost.
AskFails(t) ==
    /\ Ended(t)
    /\ UNCHANGED log \/ \E answered \in BOOLEAN : LogConversation(t, answered)
    /\ UNCHANGED <<gating, forms>>

\* The switcher is there once the config is.  The thread is emptied, whatever
\* it holds, and loaded in the new language.
SwitchLanguage ==
    /\ loaded /\ switches < MaxSwitches
    /\ switches' = switches + 1
    /\ forms' = [k \in DOMAIN forms |-> [forms[k] EXCEPT !.shown = FALSE]]
    /\ loads' = loads + 1
    /\ UNCHANGED <<capture, typed, sending, gating, contactDone, stored, asks, waived, loaded,
                   reloads, late, record, tables, desk>>

\* loadThread's answer replaces the config.
LoadOk ==
    /\ loads > 0
    /\ loads' = loads - 1 /\ loaded' = TRUE
    /\ UNCHANGED <<page, switches, reloads, late, record, tables, desk>>

\* It fails: the page stays as it is, with the config it has.
LoadFails ==
    /\ loads > 0
    /\ loads' = loads - 1
    /\ UNCHANGED <<page, loaded, switches, reloads, late, record, tables, desk>>

\* The page is loaded again: of its state the browser kept the contact flag
\* and the language.  What was under way nobody waits for any more.
Reload ==
    /\ reloads < MaxReloads[capture]
    /\ reloads' = reloads + 1
    /\ sending' = FALSE /\ gating' = FALSE /\ contactDone' = stored /\ waived' = FALSE
    /\ forms' = << >>
    /\ asks' = [t \in Texts |-> 0]
    /\ loaded' = FALSE /\ loads' = 1
    /\ lateLeads' = lateLeads \union
            UNION {{forms[k].leads[i] : i \in DOMAIN forms[k].leads} : k \in DOMAIN forms}
    /\ lateAsks' = [t \in Texts |-> lateAsks[t] + asks[t]]
    /\ UNCHANGED <<capture, typed, stored, switches, record, tables, desk>>

\* The server serves a request of an earlier page, or never does.  Of a contact
\* that is under way twice the second upsert changes nothing.
ServeLate ==
    /\ \/ \E c \in lateLeads :
             /\ lateLeads' = lateLeads \ {c}
             /\ Upsert(c)
             /\ UNCHANGED <<lateAsks, log>>
       \/ \E t \in Texts, answered \in BOOLEAN :
             /\ lateAsks[t] > 0
             /\ lateAsks' = [lateAsks EXCEPT ![t] = @ - 1]
             /\ LogConversation(t, answered)
             /\ UNCHANGED <<lateLeads, lead>>
    /\ UNCHANGED <<page, loaded, loads, switches, reloads, record, deleted, newer, desk>>

Next ==
    \/ \E t \in Texts : Submit(t) \/ AskOk(t) \/ AskFails(t)
    \/ \E k \in DOMAIN forms :
          \/ \E c \in Entries : Continue(k, c)
          \/ \E i \in DOMAIN forms[k].leads : LeadOk(k, i) \/ LeadFails(k, i)
    \/ SwitchLanguage \/ LoadOk \/ LoadFails \/ Reload \/ ServeLate
    \/ /\ HandleLeadDelete \/ OtherLead \/ \E n \in DOMAIN log : PurgeOlderThan(n)
       /\ UNCHANGED <<page, view, record>>
    \/ /\ capture \in BoardsIn
       /\ HandleAnalytics \/ BuildAnalytics \/ Read \/ Leave
       /\ UNCHANGED <<page, view, record>>

Spec == Init /\ [][Next]_vars

\* A request to /ask ends, with an answer or without.
Fairness == \A t \in Texts : WF_vars(AskOk(t) \/ AskFails(t))

FairSpec == Spec /\ Fairness

-----------------------------------------------------------------------------
Form == [text : Texts \union {NoText}, shown : BOOLEAN, leads : Seq(Entries)]

\* The page, its requests and the tables have their types; a message is under way
\* once, or once for each click on its form.
TypeOK ==
    /\ capture \in Captures
    /\ typed \in 0..MaxTyped[capture] /\ promised \subseteq Texts
    /\ {sending, gating, contactDone, stored, loaded, waived} \subseteq BOOLEAN
    /\ forms \in Seq(Form)
    /\ asks \in [Texts -> Nat]
    /\ \A t \in Texts : asks[t] <= (IF capture = "always" THEN MaxClicks ELSE 1)
    /\ loads \in 0..(MaxSwitches + 1)
    /\ lateLeads \subseteq Entries /\ lateAsks \in [Texts -> Nat]
    /\ told \subseteq Field
    /\ TablesOK

\* In always mode every logged question that the page asked with the gate in force
\* has a contact, through double clicks, lost answers, language switches and
\* reloads; except that the page goes on when a contact fails, and that an admin
\* may delete the contact (widget.js:187-193, 215-223).  The CRM view shows it as
\* long as fewer than ProfileLimit other contacts are newer, the API's profile if
\* it is one of the last HistoryLimit of its session (leads.go:68-119).
QuestionsHaveContacts ==
    \A n \in DOMAIN log :
        log[n].question \in promised /\ ~deleted =>
            /\ newer < ProfileLimit => \E p \in ProfilesList : n \in p.messages
            /\ Len(log) - n < HistoryLimit => \E p \in Profile : n \in p.messages

\* A contact field the visitor was told is saved stays with the lead until an admin
\* deletes it, whatever later, repeated or late submissions leave blank
\* (leads.go:34-36).
NothingForgotten == told \subseteq lead \/ deleted

Blocked == sending \/ (gating /\ ~\E k \in DOMAIN forms : forms[k].shown)

\* As long as the language is not switched, a visitor who can neither type nor fill
\* in a form can do one of them again once the requests under way have ended.
BoxIsFreed == Blocked /\ switches = 0 ~> ~Blocked \/ switches > 0
=============================================================================
