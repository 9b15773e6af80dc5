---------------------------- MODULE WidgetProofs ----------------------------
(***************************************************************************)
(* The contact gate for any texts, modes, entries and bounds.  A page that *)
(* asks for no contact either remembers one that was saved or had one      *)
(* fail; so the first question asked with the gate in force has a contact, *)
(* and an upsert never takes one away.                                     *)
(***************************************************************************)
EXTENDS Widget, FiniteSetTheorems, TLAPS

\* Each member of S as often as n counts it.
Heap(S, n) == UNION {{x} \X (1..n[x]) : x \in S}

\* Who is in it.
LEMMA HeapMembers ==
    ASSUME NEW S, NEW n \in [S -> Nat], NEW y
    PROVE  y \in Heap(S, n) <=> \E x \in S : \E i \in 1..n[x] : y = <<x, i>>
BY DEF Heap

\* A finite set counted is finite.
LEMMA HeapFinite ==
    ASSUME NEW S, IsFiniteSet(S), NEW n \in [S -> Nat]
    PROVE  /\ IsFiniteSet(Heap(S, n))
           /\ Cardinality(Heap(S, n)) \in Nat
<1> DEFINE heap == [x \in S |-> {x} \X (1..n[x])]
           heaps == {{x} \X (1..n[x]) : x \in S}
<1>1. heap \in Surjection(S, heaps)
    BY DEF Surjection
<1>2. IsFiniteSet(heaps)
    <2> HIDE DEF heap, heaps
    <2> QED BY <1>1, FS_Surjection
<1>3. ASSUME NEW T \in heaps PROVE IsFiniteSet(T)
    <2>1. PICK x \in S : T = {x} \X (1..n[x])
        OBVIOUS
    <2>2. IsFiniteSet({x}) /\ IsFiniteSet(1..n[x])
        <3>1. 1 \in Int /\ n[x] \in Int
            OBVIOUS
        <3> QED
            BY <3>1, FS_Singleton, FS_Interval
    <2> QED
        BY <2>1, <2>2, FS_Product
<1>4. IsFiniteSet(UNION heaps)
    <2> HIDE DEF heap, heaps
    <2> QED BY <1>2, <1>3, FS_UNION
<1> QED
    BY <1>4, FS_CardinalityType DEF Heap

\* No member is counted more often than all of them.
LEMMA HeapHolds ==
    ASSUME NEW S, IsFiniteSet(S), NEW n \in [S -> Nat], NEW x \in S
    PROVE  n[x] <= Cardinality(Heap(S, n))
<1> DEFINE own == {x} \X (1..n[x])
<1>1. own \subseteq Heap(S, n)
    BY DEF Heap
<1>2. IsFiniteSet({x}) /\ Cardinality({x}) = 1
    BY FS_Singleton
<1>3. IsFiniteSet(1..n[x]) /\ Cardinality(1..n[x]) = n[x]
    BY FS_Interval
<1>4. Cardinality(own) = n[x]
    <2> DEFINE A == {x}
               B == 1..n[x]
    <2>1. IsFiniteSet(A) /\ Cardinality(A) = 1 /\ IsFiniteSet(B) /\ Cardinality(B) = n[x]
        BY <1>2, <1>3
    <2> HIDE DEF A, B
    <2>2. Cardinality(A \X B) = Cardinality(A) * Cardinality(B)
        BY <2>1, FS_Product
    <2>3. Cardinality(A \X B) = n[x]
        BY <2>1, <2>2
    <2> QED
        BY <2>3 DEF A, B
<1>5. Cardinality(own) <= Cardinality(Heap(S, n))
    <2> HIDE DEF own
    <2> QED BY <1>1, HeapFinite, FS_Subset
<1> QED
    BY <1>4, <1>5

\* Counting one member once more.
LEMMA HeapGrows ==
    ASSUME NEW S, IsFiniteSet(S), NEW n \in [S -> Nat], NEW x \in S
    PROVE  Cardinality(Heap(S, [n EXCEPT ![x] = @ + 1])) = Cardinality(Heap(S, n)) + 1
<1> DEFINE m == [n EXCEPT ![x] = @ + 1]
           one == <<x, n[x] + 1>>
<1>1. m \in [S -> Nat] /\ m[x] = n[x] + 1 /\ \A y \in S : y # x => m[y] = n[y]
    OBVIOUS
<1>2. one \notin Heap(S, n)
    BY HeapMembers
<1>3. Heap(S, m) = Heap(S, n) \union {one}
    <2> HIDE DEF m
    <2>1. ASSUME NEW y PROVE y \in Heap(S, m) => y \in Heap(S, n) \union {one}
        <3> SUFFICES ASSUME y \in Heap(S, m) PROVE y \in Heap(S, n) \union {one}
            OBVIOUS
        <3>1. PICK z \in S : \E i \in 1..m[z] : y = <<z, i>>
            BY <1>1, HeapMembers
        <3>2. PICK i \in 1..m[z] : y = <<z, i>>
            BY <3>1
        <3>3. i \in 1..n[z] \/ (z = x /\ i = n[x] + 1)
            BY <1>1, <3>2
        <3> QED
            BY <3>2, <3>3, HeapMembers
    <2>2. ASSUME NEW y PROVE y \in Heap(S, n) => y \in Heap(S, m)
        <3> SUFFICES ASSUME y \in Heap(S, n) PROVE y \in Heap(S, m)
            OBVIOUS
        <3>1. PICK z \in S : \E i \in 1..n[z] : y = <<z, i>>
            BY HeapMembers
        <3>2. PICK i \in 1..n[z] : y = <<z, i>>
            BY <3>1
        <3>3. i \in 1..m[z]
            BY <1>1, <3>2
        <3> QED
            BY <1>1, <3>2, <3>3, HeapMembers
    <2>3. one \in Heap(S, m)
        <3>1. m[x] \in 1..m[x]
            BY <1>1
        <3> QED
            BY <1>1, <3>1, HeapMembers
    <2> QED
        BY <2>1, <2>2, <2>3
<1> HIDE DEF m, one
<1>4. Cardinality(Heap(S, m)) = Cardinality(Heap(S, n)) + 1
    BY <1>2, <1>3, HeapFinite, FS_AddElement
<1> QED
    BY <1>4 DEF m

\* Counting one member once less.
LEMMA HeapShrinks ==
    ASSUME NEW S, IsFiniteSet(S), NEW n \in [S -> Nat], NEW x \in S, n[x] > 0
    PROVE  Cardinality(Heap(S, [n EXCEPT ![x] = @ - 1])) = Cardinality(Heap(S, n)) - 1
<1> DEFINE m == [n EXCEPT ![x] = @ - 1]
<1>1. m \in [S -> Nat] /\ n = [m EXCEPT ![x] = @ + 1]
    <2>1. m \in [S -> Nat] /\ m[x] = n[x] - 1 /\ \A y \in S : y # x => m[y] = n[y]
        OBVIOUS
    <2> HIDE DEF m
    <2>2. \A y \in S : n[y] = [m EXCEPT ![x] = @ + 1][y]
        BY <2>1
    <2> QED
        BY <2>1, <2>2
<1> HIDE DEF m
<1>2. Cardinality(Heap(S, n)) = Cardinality(Heap(S, m)) + 1
    BY <1>1, HeapGrows
<1>3. Cardinality(Heap(S, m)) = Cardinality(Heap(S, n)) - 1
    BY <1>1, <1>2, HeapFinite
<1> QED
    BY <1>3 DEF m

\* Nothing is counted, nothing is there.
LEMMA HeapEmpty ==
    ASSUME NEW S, NEW n \in [S -> Nat], \A x \in S : n[x] = 0
    PROVE  Cardinality(Heap(S, n)) = 0
<1>1. Heap(S, n) = {}
    BY HeapMembers
<1> QED
    BY <1>1, FS_EmptySet

-----------------------------------------------------------------------------

\* The requests of the forms carry a contact.
FormsOK == forms \in Seq(Form)

\* There is a contact, or an admin took it away.
Known == lead # {} \/ deleted

\* What lets a page stop asking, and what its questions rely on.
GateInv ==
    /\ {contactDone, stored, waived, deleted} \subseteq BOOLEAN
    /\ stored => Known
    /\ contactDone => stored \/ waived
    /\ promised # {} => Known

Inv == FormsOK /\ GateInv /\ NothingForgotten

\* A new form is empty.
LEMMA NewForm ==
    ASSUME NEW t \in Texts \union {NoText}
    PROVE  [text |-> t, shown |-> TRUE, leads |-> << >>] \in Form
BY DEF Form

\* Asking for a contact adds a form.
LEMMA AskContactKeeps ==
    ASSUME FormsOK, NEW t \in Texts \union {NoText}, AskContact(t)
    PROVE  FormsOK'
BY NewForm DEF FormsOK, AskContact

\* A request that ends leaves the others.
LEMMA RequestEnds ==
    ASSUME FormsOK, NEW k \in DOMAIN forms, NEW i \in DOMAIN forms[k].leads,
           forms' = Without(k, i)
    PROVE  FormsOK'
<1> DEFINE rest == SubSeq(forms[k].leads, 1, i - 1)
                     \o SubSeq(forms[k].leads, i + 1, Len(forms[k].leads))
<1> DEFINE new == [forms[k] EXCEPT !.shown = FALSE, !.leads = rest]
<1>1. forms[k] \in Form
    BY DEF FormsOK
<1>2. forms[k].leads \in Seq(Entries)
    BY <1>1 DEF Form
<1>3. rest \in Seq(Entries)
    BY <1>2
<1>4. new \in Form
    <2> HIDE DEF rest
    <2> QED BY <1>1, <1>3 DEF Form
<1>5. forms' = [forms EXCEPT ![k] = new]
    BY DEF Without, FormsOK
<1> HIDE DEF new
<1> QED
    BY <1>4, <1>5 DEF FormsOK

\* Every step keeps the forms well formed.
LEMMA FormsKept ==
    ASSUME FormsOK, [Next]_vars
    PROVE  FormsOK'
<1>1. ASSUME NEW t \in Texts, Submit(t) PROVE FormsOK'
    BY <1>1, AskContactKeeps DEF Submit, FormsOK
<1>2. ASSUME NEW t \in Texts, AskOk(t) PROVE FormsOK'
    BY <1>2, AskContactKeeps DEF AskOk, FormsOK
<1>3. ASSUME NEW t \in Texts, AskFails(t) PROVE FormsOK'
    BY <1>3 DEF AskFails, FormsOK
<1>4. ASSUME NEW k \in DOMAIN forms, NEW c \in Entries, Continue(k, c) PROVE FormsOK'
    <2> DEFINE new == [forms[k] EXCEPT !.leads = Append(@, c)]
    <2>1. forms[k] \in Form
        BY DEF FormsOK
    <2>2. new \in Form
        BY <2>1 DEF Form
    <2>3. forms' = [forms EXCEPT ![k] = new]
        BY <1>4 DEF Continue, FormsOK
    <2> HIDE DEF new
    <2> QED
        BY <2>2, <2>3 DEF FormsOK
<1>5. ASSUME NEW k \in DOMAIN forms, NEW i \in DOMAIN forms[k].leads,
             LeadOk(k, i) \/ LeadFails(k, i)
      PROVE  FormsOK'
    BY <1>5, RequestEnds DEF LeadOk, LeadFails, Done
<1>6. CASE SwitchLanguage
    <2>1. ASSUME NEW k \in DOMAIN forms PROVE [forms[k] EXCEPT !.shown = FALSE] \in Form
        <3>1. forms[k] \in Form
            BY DEF FormsOK
        <3> QED
            BY <3>1 DEF Form
    <2> QED
        BY <1>6, <2>1 DEF SwitchLanguage, FormsOK
<1>7. CASE Reload
    BY <1>7 DEF Reload, FormsOK
<1>8. CASE LoadOk \/ LoadFails
    BY <1>8 DEF LoadOk, LoadFails, page, FormsOK
<1>9. CASE UNCHANGED page
    BY <1>9 DEF page, FormsOK
<1> QED
    BY <1>1, <1>2, <1>3, <1>4, <1>5, <1>6, <1>7, <1>8, <1>9 DEF Next, vars, ServeLate

-----------------------------------------------------------------------------
\* Which steps write what the gate relies on.
LEMMA GateKept ==
    ASSUME FormsOK, GateInv, NothingForgotten, [Next]_vars
    PROVE  GateInv' /\ NothingForgotten'
<1> USE DEF GateInv, Known, NothingForgotten
<1>1. ASSUME NEW t \in Texts, Submit(t) PROVE GateInv' /\ NothingForgotten'
    BY <1>1 DEF Submit, Ask, Gated, tables, view
<1>2. ASSUME NEW t \in Texts, AskOk(t) \/ AskFails(t) PROVE GateInv' /\ NothingForgotten'
    BY <1>2 DEF AskOk, AskFails, Ended, record
<1>3. ASSUME NEW k \in DOMAIN forms, NEW c \in Entries, Continue(k, c)
      PROVE  GateInv' /\ NothingForgotten'
    BY <1>3 DEF Continue, record, tables
<1>4. ASSUME NEW k \in DOMAIN forms, NEW i \in DOMAIN forms[k].leads
      PROVE  forms[k].leads[i] # {}
    <2>1. forms[k] \in Form
        BY DEF FormsOK
    <2>2. forms[k].leads[i] \in Entries
        BY <2>1 DEF Form
    <2> QED
        BY <2>2, CaptureAssumption DEF Contact
<1>5. ASSUME NEW k \in DOMAIN forms, NEW i \in DOMAIN forms[k].leads, LeadOk(k, i)
      PROVE  GateInv' /\ NothingForgotten'
    BY <1>4, <1>5 DEF LeadOk, Done, Upsert, Ask
<1>6. ASSUME NEW k \in DOMAIN forms, NEW i \in DOMAIN forms[k].leads, LeadFails(k, i)
      PROVE  GateInv' /\ NothingForgotten'
    BY <1>4, <1>6 DEF LeadFails, Done, Upsert, Ask
<1>7. CASE SwitchLanguage \/ LoadOk \/ LoadFails
    BY <1>7 DEF SwitchLanguage, LoadOk, LoadFails, page, record, tables
<1>8. CASE Reload
    BY <1>8 DEF Reload, tables, record
<1>9. CASE HandleLeadDelete /\ UNCHANGED <<page, view, record>>
    BY <1>9 DEF HandleLeadDelete, Delete, page, record
<1>10. ASSUME NEW n \in DOMAIN log, PurgeOlderThan(n), UNCHANGED <<page, view, record>>
       PROVE  GateInv' /\ NothingForgotten'
    BY <1>10 DEF PurgeOlderThan, page, record
<1>11. CASE (HandleAnalytics \/ BuildAnalytics \/ Read \/ Leave) /\ UNCHANGED <<page, view, record>>
    BY <1>11 DEF HandleAnalytics, BuildAnalytics, Start, Read, Leave, page, record, tables
<1>12. CASE UNCHANGED vars
    BY <1>12 DEF vars, page, record, tables
<1>13. CASE ServeLate
    BY <1>13 DEF ServeLate, Upsert, page, record
<1>14. CASE OtherLead /\ UNCHANGED <<page, view, record>>
    BY <1>14 DEF OtherLead, page, record
<1> QED
    BY <1>1, <1>2, <1>3, <1>5, <1>6, <1>7, <1>8, <1>9, <1>10, <1>11, <1>12, <1>13, <1>14 DEF Next

\* The invariant holds of every behaviour.
LEMMA GateInvariant == Spec => []Inv
<1>1. Init => Inv
    <2> SUFFICES ASSUME Init PROVE Inv
        OBVIOUS
    <2>1. FormsOK
        BY DEF Init, FormsOK
    <2>2. GateInv
        BY DEF Init, InitTables, GateInv
    <2>3. NothingForgotten
        BY DEF Init, NothingForgotten
    <2> QED
        BY <2>1, <2>2, <2>3 DEF Inv
<1>2. Inv /\ [Next]_vars => Inv'
    BY FormsKept, GateKept DEF Inv
<1> QED
    BY <1>1, <1>2, PTL DEF Spec

\* Every question the page asked with the gate in force has a contact, unless an
\* admin deleted it, and is shown with it where the limits of the two views let
\* it: for any texts, entries, clicks, switches, reloads, limits and contacts of
\* other visitors, and whatever requests fail or are served late.
THEOREM GateCorrect == Spec => []QuestionsHaveContacts
<1>1. Inv => QuestionsHaveContacts
    <2> SUFFICES ASSUME Inv, NEW n \in DOMAIN log, log[n].question \in promised, ~deleted
                 PROVE  /\ newer < ProfileLimit => \E p \in ProfilesList : n \in p.messages
                        /\ Len(log) - n < HistoryLimit => \E p \in Profile : n \in p.messages
        BY DEF QuestionsHaveContacts
    <2>1. lead # {}
        BY DEF Inv, GateInv, Known
    <2>2. ASSUME newer < ProfileLimit PROVE \E p \in ProfilesList : n \in p.messages
        <3> DEFINE p == [contact |-> lead, messages |-> DOMAIN log]
        <3>1. p \in ProfilesList
            BY <2>1, <2>2 DEF ProfilesList
        <3> QED
            BY <3>1
    <2>3. ASSUME Len(log) - n < HistoryLimit PROVE \E p \in Profile : n \in p.messages
        <3> DEFINE p == [contact |-> lead,
                         messages |-> {j \in DOMAIN log : Len(log) - j < HistoryLimit}]
        <3>1. p \in Profile
            BY <2>1 DEF Profile
        <3> QED
            BY <2>3, <3>1
    <2> QED
        BY <2>2, <2>3
<1> QED
    BY <1>1, GateInvariant, PTL

\* A contact field the visitor was told is saved is never lost to a later upsert.
THEOREM ContactsKept == Spec => []NothingForgotten
BY GateInvariant, PTL DEF Inv

-----------------------------------------------------------------------------
(* The types, and how often a message is under way. *)

\* The flags of the page.
FlagsOK ==
    /\ sending \in BOOLEAN /\ gating \in BOOLEAN /\ contactDone \in BOOLEAN
    /\ stored \in BOOLEAN /\ loaded \in BOOLEAN /\ waived \in BOOLEAN

\* The rest of the page's own state.
PageOK ==
    /\ capture \in Captures
    /\ typed \in 0..MaxTyped[capture] /\ promised \subseteq Texts
    /\ asks \in [Texts -> Nat]
    /\ switches \in 0..MaxSwitches /\ loads \in 0..(switches + 1)
    /\ lateLeads \subseteq Entries /\ lateAsks \in [Texts -> Nat]
    /\ told \subseteq Field

\* What a request of a form carries.
LEMMA LeadType ==
    ASSUME FormsOK, NEW k \in DOMAIN forms, NEW i \in DOMAIN forms[k].leads
    PROVE  /\ forms[k] \in Form
           /\ forms[k].leads[i] \in SUBSET Field
<1>1. forms[k] \in Form
    BY DEF FormsOK
<1>2. forms[k].leads[i] \in Entries
    BY <1>1 DEF Form
<1> QED
    BY <1>1, <1>2, CaptureAssumption DEF Contact

\* The flags stay flags.
LEMMA FlagsKept ==
    ASSUME FlagsOK, [Next]_vars
    PROVE  FlagsOK'
<1> USE DEF FlagsOK
<1>1. ASSUME NEW t \in Texts, Submit(t) PROVE FlagsOK'
    BY <1>1, Zenon DEF Submit, AskContact, Ask, view
<1>2. ASSUME NEW t \in Texts, AskOk(t) PROVE FlagsOK'
    BY <1>2, Zenon DEF AskOk, Ended, AskContact, view
<1>3. ASSUME NEW t \in Texts, AskFails(t) PROVE FlagsOK'
    BY <1>3, Zenon DEF AskFails, Ended, view
<1>4. ASSUME NEW k \in DOMAIN forms, NEW c \in Entries, Continue(k, c) PROVE FlagsOK'
    BY <1>4, Zenon DEF Continue, view
<1>5. ASSUME NEW k \in DOMAIN forms, NEW i \in DOMAIN forms[k].leads,
             LeadOk(k, i) \/ LeadFails(k, i)
      PROVE  FlagsOK'
    BY <1>5, Zenon DEF LeadOk, LeadFails, Done, Ask, view
<1>6. CASE SwitchLanguage
    BY <1>6, Zenon DEF SwitchLanguage
<1>7. CASE LoadOk \/ LoadFails
    BY <1>7, Zenon DEF LoadOk, LoadFails, page
<1>8. CASE Reload
    BY <1>8, Zenon DEF Reload
<1>9. CASE UNCHANGED <<page, loaded>>
    BY <1>9, Zenon DEF page
<1> QED
    BY <1>1, <1>2, <1>3, <1>4, <1>5, <1>6, <1>7, <1>8, <1>9 DEF Next, vars, view, ServeLate

\* The page keeps its types.
LEMMA PageKept ==
    ASSUME PageOK, FormsOK, [Next]_vars
    PROVE  PageOK'
<1> USE DEF PageOK
<1>0. MaxTyped \in [Captures -> Nat] /\ MaxSwitches \in Nat
    BY BoundAssumption
<1>1. ASSUME NEW t \in Texts, Submit(t) PROVE PageOK'
    BY <1>0, <1>1 DEF Submit, AskContact, Ask, view, late
<1>2. ASSUME NEW t \in Texts, AskOk(t) \/ AskFails(t) PROVE PageOK'
    BY <1>0, <1>2 DEF AskOk, AskFails, Ended, AskContact, record, view, late
<1>3. ASSUME NEW k \in DOMAIN forms, NEW c \in Entries, Continue(k, c) PROVE PageOK'
    BY <1>3 DEF Continue, record, view, late
<1>4. ASSUME NEW k \in DOMAIN forms, NEW i \in DOMAIN forms[k].leads,
             LeadOk(k, i) \/ LeadFails(k, i)
      PROVE  PageOK'
    <2>1. forms[k].leads[i] \in SUBSET Field /\ forms[k].text \in Texts \union {NoText}
        BY LeadType DEF Form
    <2> QED
        BY <1>4, <2>1 DEF LeadOk, LeadFails, Done, Ask, view, late
<1>5. CASE SwitchLanguage
    BY <1>0, <1>5 DEF SwitchLanguage, late, record
<1>6. CASE LoadOk \/ LoadFails
    BY <1>6 DEF LoadOk, LoadFails, page, late, record
<1>7. CASE Reload
    <2>1. ASSUME NEW k \in DOMAIN forms, NEW i \in DOMAIN forms[k].leads
          PROVE  forms[k].leads[i] \in Entries
        <3>1. forms[k] \in Form
            BY DEF FormsOK
        <3> QED
            BY <3>1 DEF Form
    <2>2. lateLeads' \subseteq Entries
        BY <1>7, <2>1 DEF Reload
    <2>3. lateAsks' \in [Texts -> Nat]
        BY <1>7 DEF Reload
    <2> QED
        BY <1>0, <1>7, <2>2, <2>3 DEF Reload, record
<1>8. CASE UNCHANGED <<page, view, record>>
    BY <1>8 DEF page, view, late, record
<1>9. CASE ServeLate
    BY <1>9 DEF ServeLate, page, record
<1> QED
    BY <1>1, <1>2, <1>3, <1>4, <1>5, <1>6, <1>7, <1>8, <1>9 DEF Next, vars

\* The /ask requests under way.
UnderWay == Cardinality(Heap(Texts, asks))

\* The /lead requests under way.
Waiting == IF forms = << >> THEN 0 ELSE Len(forms[1].leads)

\* In always mode there is one form at most, as long as the page is not loaded
\* again.  While it is to be filled in nothing is asked, so each question under
\* way after it took the place of one of its requests; and one place is free
\* whenever the visitor may type.
AlwaysInv ==
    capture = "always" =>
        /\ Len(forms) <= 1
        /\ \A k \in DOMAIN forms : forms[k].shown => gating
        /\ gating => ~sending /\ ~contactDone
        /\ ~contactDone => UnderWay = IF sending THEN 1 ELSE 0
        /\ ~contactDone /\ ~gating => forms = << >>
        /\ UnderWay + Waiting <= IF contactDone /\ ~sending THEN MaxClicks - 1 ELSE MaxClicks

\* In the other modes no form has a question, and the box lets one through.
OtherInv ==
    capture # "always" =>
        /\ \A k \in DOMAIN forms : forms[k].text = NoText
        /\ UnderWay = IF sending THEN 1 ELSE 0

\* How the requests under way change.
LEMMA UnderWayChanges ==
    ASSUME PageOK
    PROVE  /\ UnderWay \in Nat
           /\ \A t \in Texts : asks[t] <= UnderWay
           /\ \A t \in Texts : asks' = [asks EXCEPT ![t] = @ + 1] => UnderWay' = UnderWay + 1
           /\ \A t \in Texts : asks[t] > 0 /\ asks' = [asks EXCEPT ![t] = @ - 1]
                               => UnderWay' = UnderWay - 1 /\ UnderWay' \in Nat
           /\ asks' = [t \in Texts |-> 0] => UnderWay' = 0
<1>1. IsFiniteSet(Texts) /\ asks \in [Texts -> Nat]
    BY LimitAssumption DEF PageOK
<1>2. UnderWay \in Nat /\ \A t \in Texts : asks[t] <= UnderWay
    BY <1>1, HeapFinite, HeapHolds DEF UnderWay
<1>3. ASSUME NEW t \in Texts, asks' = [asks EXCEPT ![t] = @ + 1] PROVE UnderWay' = UnderWay + 1
    BY <1>1, <1>3, HeapGrows DEF UnderWay
<1>4. ASSUME NEW t \in Texts, asks[t] > 0, asks' = [asks EXCEPT ![t] = @ - 1]
      PROVE  UnderWay' = UnderWay - 1 /\ UnderWay' \in Nat
    <2>1. asks' \in [Texts -> Nat]
        BY <1>1, <1>4
    <2>2. UnderWay' \in Nat
        BY <1>1, <2>1, HeapFinite DEF UnderWay
    <2>3. UnderWay' = UnderWay - 1
        BY <1>1, <1>4, HeapShrinks DEF UnderWay
    <2> QED
        BY <1>2, <2>2, <2>3
<1>5. ASSUME asks' = [t \in Texts |-> 0] PROVE UnderWay' = 0
    <2>1. asks' \in [Texts -> Nat] /\ \A t \in Texts : asks'[t] = 0
        BY <1>5
    <2> QED
        BY <2>1, HeapEmpty DEF UnderWay
<1> QED
    BY <1>2, <1>3, <1>4, <1>5

\* A form and its requests.
LEMMA FormType ==
    ASSUME FormsOK, NEW k \in DOMAIN forms
    PROVE  forms[k] \in Form /\ forms[k].leads \in Seq(Entries)
<1>1. forms[k] \in Form
    BY DEF FormsOK
<1> QED
    BY <1>1 DEF Form

\* A form after one of its requests ended.
LEMMA FormWithout ==
    ASSUME FormsOK, NEW k \in DOMAIN forms, NEW i \in DOMAIN forms[k].leads,
           forms' = Without(k, i)
    PROVE  /\ Len(forms') = Len(forms) /\ forms'[k].shown = FALSE
           /\ forms'[k].text = forms[k].text
           /\ Len(forms'[k].leads) = Len(forms[k].leads) - 1
           /\ \A j \in DOMAIN forms : j # k => forms'[j] = forms[j]
<1> DEFINE asked == forms[k].leads
           rest == SubSeq(asked, 1, i - 1) \o SubSeq(asked, i + 1, Len(asked))
           new == [forms[k] EXCEPT !.shown = FALSE, !.leads = rest]
<1>1. forms[k] \in Form /\ asked \in Seq(Entries) /\ forms \in Seq(Form)
    BY FormType DEF FormsOK
<1>2. Len(rest) = Len(asked) - 1
    <2> HIDE DEF asked
    <2>1. i \in 1..Len(asked)
        BY <1>1 DEF asked
    <2>2. Len(SubSeq(asked, 1, i - 1)) = i - 1 /\ Len(SubSeq(asked, i + 1, Len(asked))) = Len(asked) - i
        BY <1>1, <2>1
    <2> QED
        BY <1>1, <2>1, <2>2
<1>3. new.shown = FALSE /\ new.text = forms[k].text /\ new.leads = rest
    <2> HIDE DEF rest
    <2> QED BY <1>1 DEF Form
<1>4. forms' = [forms EXCEPT ![k] = new]
    BY DEF Without, FormsOK
<1> HIDE DEF new, rest
<1> QED
    BY <1>1, <1>2, <1>3, <1>4

\* A form that is continued has one request more.
LEMMA FormContinued ==
    ASSUME FormsOK, NEW k \in DOMAIN forms, NEW c \in Entries, Continue(k, c)
    PROVE  /\ Len(forms') = Len(forms)
           /\ Len(forms'[k].leads) = Len(forms[k].leads) + 1
           /\ forms'[k].shown = forms[k].shown /\ forms'[k].text = forms[k].text
           /\ \A j \in DOMAIN forms : j # k => forms'[j] = forms[j]
<1> DEFINE new == [forms[k] EXCEPT !.leads = Append(@, c)]
<1>1. forms[k] \in Form /\ forms[k].leads \in Seq(Entries) /\ forms \in Seq(Form)
    BY FormType DEF FormsOK
<1>2. new.shown = forms[k].shown /\ new.text = forms[k].text
         /\ Len(new.leads) = Len(forms[k].leads) + 1
    BY <1>1 DEF Form
<1>3. forms' = [forms EXCEPT ![k] = new]
    BY DEF Continue, FormsOK
<1> HIDE DEF new
<1> QED
    BY <1>1, <1>2, <1>3

\* Hiding the forms keeps their requests.
LEMMA FormsHidden ==
    ASSUME FormsOK, SwitchLanguage
    PROVE  /\ Len(forms') = Len(forms)
           /\ \A j \in DOMAIN forms : /\ forms'[j].shown = FALSE
                                      /\ forms'[j].text = forms[j].text
                                      /\ forms'[j].leads = forms[j].leads
<1> DEFINE new(k) == [forms[k] EXCEPT !.shown = FALSE]
<1>1. ASSUME NEW k \in DOMAIN forms
      PROVE  /\ new(k).shown = FALSE /\ new(k).text = forms[k].text
             /\ new(k).leads = forms[k].leads
    <2>1. forms[k] \in Form
        BY DEF FormsOK
    <2> QED
        BY <2>1 DEF Form
<1>2. forms' = [k \in DOMAIN forms |-> new(k)] /\ forms \in Seq(Form)
    BY DEF SwitchLanguage, FormsOK
<1>3. forms' \in Seq(Form)
    BY FormsKept DEF FormsOK, Next
<1> HIDE DEF new
<1>4. DOMAIN forms' = DOMAIN forms
    BY <1>2
<1>5. Len(forms') = Len(forms)
    BY <1>2, <1>3, <1>4
<1> QED
    BY <1>1, <1>2, <1>5

\* In always mode.
LEMMA AlwaysKept ==
    ASSUME FlagsOK, PageOK, FormsOK, AlwaysInv, [Next]_vars
    PROVE  AlwaysInv'
<1> SUFFICES ASSUME capture = "always" PROVE AlwaysInv'
    <2>1. capture' = capture
        BY DEF Next, vars, page, Submit, AskOk, AskFails, Ended, Continue, LeadOk, LeadFails, Done,
               SwitchLanguage, LoadOk, LoadFails, Reload, ServeLate
    <2> QED BY <2>1 DEF AlwaysInv
<1>0. MaxClicks \in Nat \ {0} /\ UnderWay \in Nat /\ Waiting \in Nat
    <2>1. forms # << >> => 1 \in DOMAIN forms
        BY DEF FormsOK
    <2>2. forms # << >> => forms[1].leads \in Seq(Entries)
        BY <2>1, FormType
    <2> QED
        BY <2>2, BoundAssumption, UnderWayChanges DEF Waiting
<1>a. /\ Len(forms) <= 1 /\ forms \in Seq(Form)
      /\ \A k \in DOMAIN forms : forms[k].shown => gating
      /\ gating => ~sending /\ ~contactDone
      /\ ~contactDone => UnderWay = IF sending THEN 1 ELSE 0
      /\ ~contactDone /\ ~gating => forms = << >>
      /\ UnderWay + Waiting <= IF contactDone /\ ~sending THEN MaxClicks - 1 ELSE MaxClicks
    BY DEF AlwaysInv, FormsOK
<1>n. /\ ~contactDone => UnderWay = IF sending THEN 1 ELSE 0
      /\ UnderWay + Waiting <= IF contactDone /\ ~sending THEN MaxClicks - 1 ELSE MaxClicks
    BY <1>a
<1>b. UNCHANGED asks => UnderWay' = UnderWay
    BY DEF UnderWay
<1>c. UNCHANGED forms => Waiting' = Waiting
    BY DEF Waiting
<1>d. \A k \in DOMAIN forms : /\ k = 1 /\ Waiting = Len(forms[k].leads) /\ forms # << >>
                              /\ Len(forms) = 1
    <2>1. ASSUME NEW k \in DOMAIN forms PROVE k = 1 /\ Len(forms) = 1 /\ forms # << >>
        <3>1. forms \in Seq(Form) /\ Len(forms) <= 1
            BY <1>a
        <3> QED
            BY <3>1
    <2> QED
        BY <2>1 DEF Waiting
<1>1. ASSUME NEW t \in Texts, Submit(t) PROVE AlwaysInv'
    <2>1. CASE Gated
        <3>1. /\ forms = << >> /\ UnderWay = 0 /\ UNCHANGED <<sending, contactDone, asks>>
              /\ gating' = TRUE /\ ~sending /\ ~contactDone
              /\ forms' = << [text |-> t, shown |-> TRUE, leads |-> << >>] >>
            BY <1>1, <2>1, <1>a DEF Submit, Gated, AskContact
        <3>2. Waiting' = 0 /\ Len(forms') = 1
            BY <3>1 DEF Waiting
        <3> QED
            BY <1>0, <1>b, <3>1, <3>2 DEF AlwaysInv
    <2>2. CASE ~Gated
        <3>1. /\ UNCHANGED <<forms, gating, contactDone>> /\ ~sending /\ ~gating
              /\ sending' = TRUE /\ asks' = [asks EXCEPT ![t] = @ + 1]
            BY <1>1, <2>2 DEF Submit, Ask
        <3>2. UnderWay' = UnderWay + 1 /\ Waiting' = Waiting
            BY <1>c, <3>1, UnderWayChanges
        <3>3. ~contactDone => UnderWay = 0 /\ Waiting = 0
            BY <1>a, <3>1 DEF Waiting
        <3> QED
            BY <1>0, <1>a, <3>1, <3>2, <3>3 DEF AlwaysInv
    <2> QED
        BY <2>1, <2>2
<1>2. ASSUME NEW t \in Texts, AskOk(t) \/ AskFails(t) PROVE AlwaysInv'
    <2>1. /\ UNCHANGED <<forms, gating, contactDone>> /\ sending' = FALSE
          /\ asks[t] > 0 /\ asks' = [asks EXCEPT ![t] = @ - 1]
        BY <1>2 DEF AskOk, AskFails, Ended, Mode
    <2>2. UnderWay' = UnderWay - 1 /\ UnderWay' \in Nat /\ Waiting' = Waiting
        BY <1>c, <2>1, UnderWayChanges
    <2>3. ~contactDone => sending /\ ~gating
        BY <1>a, <2>2
    <2>4. (contactDone' <=> contactDone) /\ ~sending'
        BY <2>1
    <2>5. /\ ~contactDone' => UnderWay' = IF sending' THEN 1 ELSE 0
          /\ UnderWay' + Waiting' <= IF contactDone' /\ ~sending' THEN MaxClicks - 1 ELSE MaxClicks
        BY <1>0, <1>n, <2>2, <2>3, <2>4
    <2> QED
        BY <1>a, <2>1, <2>5 DEF AlwaysInv
<1>3. ASSUME NEW k \in DOMAIN forms, NEW c \in Entries, Continue(k, c) PROVE AlwaysInv'
    <2>1. /\ UNCHANGED <<gating, contactDone, sending, asks>> /\ gating
          /\ Len(forms[k].leads) < MaxClicks
        BY <1>3, <1>a DEF Continue
    <2>2. k = 1 /\ Len(forms') = 1 /\ forms' # << >> /\ DOMAIN forms' = {1} /\ Waiting' = Waiting + 1
        <3>1. Len(forms') = Len(forms) /\ Len(forms'[k].leads) = Len(forms[k].leads) + 1
                 /\ forms' \in Seq(Form)
            BY <1>3, FormContinued, FormsKept DEF FormsOK
        <3>2. Len(forms) = 1 /\ k = 1
            BY <1>d
        <3> QED
            BY <1>d, <3>1, <3>2 DEF Waiting
    <2>3. UnderWay = 0 /\ UnderWay' = 0 /\ ~sending /\ ~contactDone
        BY <1>a, <1>b, <2>1
    <2> QED
        BY <1>0, <1>d, <2>1, <2>2, <2>3 DEF AlwaysInv
<1>4. ASSUME NEW k \in DOMAIN forms, NEW i \in DOMAIN forms[k].leads,
             LeadOk(k, i) \/ LeadFails(k, i)
      PROVE  AlwaysInv'
    <2>1. forms' = Without(k, i) /\ gating' = FALSE /\ contactDone' = TRUE
        BY <1>4 DEF LeadOk, LeadFails, Done
    <2>2. /\ Len(forms') = 1 /\ Waiting' = Waiting - 1
          /\ \A j \in DOMAIN forms' : ~forms'[j].shown
        <3>1. Len(forms') = Len(forms) /\ Len(forms'[k].leads) = Len(forms[k].leads) - 1
                 /\ forms' \in Seq(Form) /\ forms'[k].shown = FALSE
            BY <2>1, FormWithout, FormsKept DEF FormsOK
        <3>2. Len(forms) = 1 /\ k = 1
            BY <1>d
        <3> QED
            BY <1>d, <3>1, <3>2 DEF Waiting
    <2>3. CASE forms[k].text = NoText
        <3>1. UNCHANGED <<sending, asks>>
            BY <1>4, <2>3 DEF LeadOk, LeadFails, Done
        <3>2. UnderWay' = UnderWay /\ (sending' <=> sending)
            BY <1>b, <3>1
        <3>3. ~contactDone => ~sending /\ UnderWay = 0
            BY <1>a, <1>d, <1>n
        <3>4. UnderWay' + Waiting' <= IF ~sending' THEN MaxClicks - 1 ELSE MaxClicks
            BY <1>0, <1>n, <2>2, <3>2, <3>3
        <3> QED
            BY <2>1, <2>2, <3>4 DEF AlwaysInv
    <2>4. CASE forms[k].text # NoText
        <3>1. forms[k].text \in Texts
            BY <2>4, LeadType DEF Form
        <3>2. sending' = TRUE /\ asks' = [asks EXCEPT ![forms[k].text] = @ + 1]
            BY <1>4, <2>4 DEF LeadOk, LeadFails, Done, Ask
        <3>3. UnderWay' = UnderWay + 1
            BY <3>1, <3>2, UnderWayChanges
        <3>4. UnderWay + Waiting <= MaxClicks
            BY <1>0, <1>a
        <3>5. UnderWay' + Waiting' <= MaxClicks
            BY <1>0, <2>2, <3>3, <3>4
        <3> QED
            BY <2>1, <2>2, <3>2, <3>5 DEF AlwaysInv
    <2> QED
        BY <2>3, <2>4
<1>5. CASE SwitchLanguage
    <2>1. UNCHANGED <<sending, gating, contactDone, asks>>
        BY <1>5 DEF SwitchLanguage
    <2>2. /\ Len(forms') = Len(forms) /\ Waiting' = Waiting /\ forms' \in Seq(Form)
          /\ \A j \in DOMAIN forms' : ~forms'[j].shown
          /\ forms = << >> => forms' = << >>
        <3>1. /\ Len(forms') = Len(forms)
              /\ \A j \in DOMAIN forms : forms'[j].shown = FALSE /\ forms'[j].leads = forms[j].leads
            BY <1>5, FormsHidden
        <3>2. forms' \in Seq(Form)
            BY <1>5, FormsKept DEF FormsOK, Next
        <3>3. DOMAIN forms' = DOMAIN forms /\ (forms = << >> <=> forms' = << >>)
            BY <1>a, <3>1, <3>2
        <3>4. Waiting' = Waiting
            BY <1>d, <3>1, <3>3 DEF Waiting
        <3> QED
            BY <3>1, <3>2, <3>3, <3>4
    <2> QED
        BY <1>a, <1>b, <2>1, <2>2 DEF AlwaysInv
<1>6. CASE Reload
    <2>1. forms' = << >> /\ gating' = FALSE /\ sending' = FALSE /\ UnderWay' = 0 /\ Waiting' = 0
        BY <1>6, UnderWayChanges DEF Reload, Waiting
    <2>2. Len(forms') = 0 /\ DOMAIN forms' = {}
        BY <2>1
    <2> QED
        BY <1>0, <2>1, <2>2 DEF AlwaysInv
<1>7. CASE UNCHANGED page
    BY <1>7, <1>a, <1>b, <1>c DEF page, AlwaysInv
<1> QED
    BY <1>1, <1>2, <1>3, <1>4, <1>5, <1>6, <1>7 DEF Next, vars, LoadOk, LoadFails, ServeLate

\* In the other modes.
LEMMA OtherKept ==
    ASSUME FlagsOK, PageOK, FormsOK, OtherInv, [Next]_vars
    PROVE  OtherInv'
<1> SUFFICES ASSUME capture # "always" PROVE OtherInv'
    <2>1. capture' = capture
        BY DEF Next, vars, page, Submit, AskOk, AskFails, Ended, Continue, LeadOk, LeadFails, Done,
               SwitchLanguage, LoadOk, LoadFails, Reload, ServeLate
    <2> QED BY <2>1 DEF OtherInv
<1>0. UnderWay \in Nat
    BY UnderWayChanges
<1>a. /\ \A k \in DOMAIN forms : forms[k].text = NoText
      /\ UnderWay = IF sending THEN 1 ELSE 0
      /\ forms \in Seq(Form)
    BY DEF OtherInv, FormsOK
<1>n. UnderWay = IF sending THEN 1 ELSE 0
    BY <1>a
<1>b. UNCHANGED asks => UnderWay' = UnderWay
    BY DEF UnderWay
<1>1. ASSUME NEW t \in Texts, Submit(t) PROVE OtherInv'
    <2>1. /\ UNCHANGED forms /\ ~sending /\ sending' = TRUE
          /\ asks' = [asks EXCEPT ![t] = @ + 1]
        BY <1>1 DEF Submit, Ask, Gated, Mode
    <2>2. UnderWay' = UnderWay + 1
        BY <2>1, UnderWayChanges
    <2>3. UnderWay' = IF sending' THEN 1 ELSE 0
        BY <1>n, <2>1, <2>2
    <2> QED
        BY <1>a, <2>1, <2>3 DEF OtherInv
<1>2. ASSUME NEW t \in Texts, AskOk(t) \/ AskFails(t) PROVE OtherInv'
    <2>1. /\ sending' = FALSE /\ asks[t] > 0 /\ asks' = [asks EXCEPT ![t] = @ - 1]
          /\ UNCHANGED forms \/ forms' = Append(forms, [text |-> NoText, shown |-> TRUE, leads |-> << >>])
        BY <1>2 DEF AskOk, AskFails, Ended, AskContact
    <2>2. UnderWay' = UnderWay - 1 /\ UnderWay' \in Nat
        BY <2>1, UnderWayChanges
    <2>3. UnderWay' = IF sending' THEN 1 ELSE 0
        BY <1>0, <1>n, <2>1, <2>2
    <2>4. \A k \in DOMAIN forms' : forms'[k].text = NoText
        <3>1. CASE UNCHANGED forms
            BY <1>a, <3>1
        <3>2. CASE forms' = Append(forms, [text |-> NoText, shown |-> TRUE, leads |-> << >>])
            <4> DEFINE new == [text |-> NoText, shown |-> TRUE, leads |-> << >>]
            <4>1. new \in Form /\ new.text = NoText
                BY NewForm
            <4>2. forms' = Append(forms, new)
                BY <3>2
            <4> HIDE DEF new
            <4> QED
                BY <1>a, <4>1, <4>2
        <3> QED
            BY <2>1, <3>1, <3>2
    <2> QED
        BY <2>3, <2>4 DEF OtherInv
<1>3. ASSUME NEW k \in DOMAIN forms, NEW c \in Entries, Continue(k, c) PROVE OtherInv'
    <2>1. /\ UNCHANGED sending /\ UNCHANGED asks
          /\ Len(forms') = Len(forms) /\ forms' \in Seq(Form)
        BY <1>3, FormContinued, FormsKept DEF Continue, FormsOK
    <2>2. \A j \in DOMAIN forms : forms'[j].text = forms[j].text
        BY <1>3, FormContinued
    <2> QED
        BY <1>a, <1>b, <2>1, <2>2 DEF OtherInv
<1>4. ASSUME NEW k \in DOMAIN forms, NEW i \in DOMAIN forms[k].leads,
             LeadOk(k, i) \/ LeadFails(k, i)
      PROVE  OtherInv'
    <2>1. forms' = Without(k, i) /\ UNCHANGED sending /\ UNCHANGED asks
        BY <1>4, <1>a DEF LeadOk, LeadFails, Done
    <2>2. Len(forms') = Len(forms) /\ forms' \in Seq(Form)
        BY <2>1, FormWithout, FormsKept DEF FormsOK
    <2>3. \A j \in DOMAIN forms : forms'[j].text = forms[j].text
        BY <2>1, FormWithout
    <2> QED
        BY <1>a, <1>b, <2>1, <2>2, <2>3 DEF OtherInv
<1>5. CASE SwitchLanguage
    <2>1. UNCHANGED sending /\ UNCHANGED asks
        BY <1>5 DEF SwitchLanguage
    <2>2. Len(forms') = Len(forms) /\ forms' \in Seq(Form)
        BY <1>5, FormsHidden, FormsKept DEF FormsOK
    <2>3. \A j \in DOMAIN forms : forms'[j].text = forms[j].text
        BY <1>5, FormsHidden
    <2> QED
        BY <1>a, <1>b, <2>1, <2>2, <2>3 DEF OtherInv
<1>6. CASE Reload
    BY <1>6, UnderWayChanges DEF Reload, OtherInv
<1>7. CASE UNCHANGED page
    BY <1>7, <1>a, <1>b DEF page, OtherInv
<1> QED
    BY <1>1, <1>2, <1>3, <1>4, <1>5, <1>6, <1>7 DEF Next, vars, LoadOk, LoadFails, ServeLate

\* The rows of a log are finitely many.
LEMMA RowsFinite ==
    ASSUME NEW T, NEW rows \in Seq(T)
    PROVE  /\ Cardinality(DOMAIN rows) = Len(rows)
           /\ \A R \in SUBSET DOMAIN rows : IsFiniteSet(R) /\ Cardinality(R) \in Nat
<1>1. DOMAIN rows = 1..Len(rows) /\ Len(rows) \in Nat
    OBVIOUS
<1>2. IsFiniteSet(1..Len(rows)) /\ Cardinality(1..Len(rows)) = Len(rows)
    <2>1. 1 \in Int /\ Len(rows) \in Int
        BY <1>1
    <2>2. Cardinality(1..Len(rows)) = IF 1 > Len(rows) THEN 0 ELSE Len(rows) - 1 + 1
        BY <2>1, FS_Interval
    <2> QED
        BY <1>1, <2>1, <2>2, FS_Interval
<1>3. IsFiniteSet(DOMAIN rows) /\ Cardinality(DOMAIN rows) = Len(rows)
    BY <1>1, <1>2
<1> QED
    BY <1>3, FS_Subset, FS_CardinalityType

\* And so are those of the table.
LEMMA LogFinite ==
    ASSUME TablesOK
    PROVE  /\ Cardinality(DOMAIN log) = Len(log)
           /\ \A R \in SUBSET DOMAIN log : IsFiniteSet(R) /\ Cardinality(R) \in Nat
BY RowsFinite DEF TablesOK

\* The statements list questions with how often they were asked.
LEMMA GroupedType ==
    ASSUME TablesOK, NEW R \in SUBSET DOMAIN log
    PROVE  Grouped(R) \subseteq Listed
<1>1. ASSUME NEW t \in Texts
      PROVE  /\ Cardinality(Of(t) \intersect R) \in Nat
             /\ Cardinality(Of(t) \intersect R \intersect Unanswered) \in Nat
    BY LogFinite DEF Of
<1>2. SUFFICES ASSUME NEW e \in Grouped(R) PROVE e \in Listed
    OBVIOUS
<1>3. PICK t \in Texts :
          e = [question |-> t, count |-> Cardinality(Of(t) \intersect R),
               unanswered |-> Cardinality(Of(t) \intersect R \intersect Unanswered)]
    BY DEF Grouped
<1> QED
    BY <1>1, <1>3 DEF Listed

\* What an entry counts.
LEMMA EntryCounts ==
    ASSUME NEW R, NEW e \in Grouped(R)
    PROVE  /\ e.question \in Texts
           /\ e.count = Cardinality(Of(e.question) \intersect R)
           /\ e.unanswered = Cardinality(Of(e.question) \intersect R \intersect Unanswered)
<1> DEFINE n(t) == Cardinality(Of(t) \intersect R)
           u(t) == Cardinality(Of(t) \intersect R \intersect Unanswered)
<1>1. PICK t \in Texts : e = [question |-> t, count |-> n(t), unanswered |-> u(t)]
    BY DEF Grouped
<1> HIDE DEF n, u
<1>2. e.question = t /\ e.count = n(t) /\ e.unanswered = u(t)
    BY <1>1
<1>3. e.question \in Texts /\ e.count = n(e.question) /\ e.unanswered = u(e.question)
    BY <1>2
<1> QED
    BY <1>3 DEF n, u

\* The answers of TopQuestions come from one of the two groups.
LEMMA TopType ==
    ASSUME TablesOK, NEW b \in BOOLEAN, NEW S \in TopQuestions(b)
    PROVE  /\ S \subseteq Grouped(IF b THEN Unanswered ELSE DOMAIN log)
           /\ S \subseteq Listed
<1>1. S \subseteq Grouped(IF b THEN Unanswered ELSE DOMAIN log)
    BY DEF TopQuestions
<1>2. (IF b THEN Unanswered ELSE DOMAIN log) \in SUBSET DOMAIN log
    BY DEF Unanswered
<1> QED
    BY <1>1, <1>2, GroupedType

\* The desk is typed after each step of a dashboard.
LEMMA BoardKept ==
    ASSUME TablesOK, HandleAnalytics \/ BuildAnalytics \/ Read \/ Leave
    PROVE  TablesOK'
<1>0. board \in Board /\ Len(log) \in Nat /\ lead \subseteq Field /\ deleted \in BOOLEAN
         /\ newer \in 0..MaxNewer
         /\ log \in Seq([question : Texts, answered : BOOLEAN])
    BY DEF TablesOK
<1>u. UNCHANGED lead /\ UNCHANGED newer /\ UNCHANGED deleted /\ UNCHANGED log
    BY DEF HandleAnalytics, BuildAnalytics, Start, Read, Leave, tables
<1>1. ASSUME NEW limit \in {ApiLimit, EditLimit}, Start(limit) PROVE board' \in Board
    <2>1. Cardinality(Unanswered) \in Nat
        BY LogFinite DEF Unanswered
    <2>2. board' = [read |-> 1, limit |-> limit, total |-> Len(log),
                    unanswered |-> Cardinality(Unanswered), top |-> {}, gaps |-> {},
                    hours |-> 0, days |-> 0]
        BY <1>1 DEF Start, Blank, AnswerRate
    <2> QED
        BY <1>0, <2>1, <2>2 DEF Board, Queries
<1>2. ASSUME Read PROVE board' \in Board
    <2>1. ASSUME NEW b \in Board, b.read < Queries, Keep(b) PROVE board' \in Board
        BY <2>1 DEF Keep, Board, Queries
    <2>2. ASSUME NEW S \in TopQuestions(FALSE) PROVE [board EXCEPT !.top = S] \in Board
        BY <1>0, TopType DEF Board
    <2>3. ASSUME NEW S \in TopQuestions(TRUE) PROVE [board EXCEPT !.gaps = S] \in Board
        BY <1>0, TopType DEF Board
    <2>4. [board EXCEPT !.hours = Busy] \in Board /\ [board EXCEPT !.days = Busy] \in Board
        BY <1>0 DEF Board, Busy
    <2>5. board.read < Queries
        <3>1. board.read \in {1, 2, 3, 4}
            BY <1>2, Zenon DEF Read
        <3> QED
            BY <3>1 DEF Queries
    <2>6. ASSUME NEW S PROVE /\ [board EXCEPT !.top = S].read = board.read
                             /\ [board EXCEPT !.gaps = S].read = board.read
                             /\ [board EXCEPT !.hours = S].read = board.read
                             /\ [board EXCEPT !.days = S].read = board.read
        BY <1>0 DEF Board
    <2>7. \/ \E S \in TopQuestions(FALSE) : Keep([board EXCEPT !.top = S])
          \/ \E S \in TopQuestions(TRUE) : Keep([board EXCEPT !.gaps = S])
          \/ Keep([board EXCEPT !.hours = Busy])
          \/ Keep([board EXCEPT !.days = Busy])
        BY <1>2 DEF Read
    <2>8. CASE \E S \in TopQuestions(FALSE) : Keep([board EXCEPT !.top = S])
        BY <2>1, <2>2, <2>5, <2>6, <2>8
    <2>9. CASE \E S \in TopQuestions(TRUE) : Keep([board EXCEPT !.gaps = S])
        BY <2>1, <2>3, <2>5, <2>6, <2>9
    <2>10. CASE Keep([board EXCEPT !.hours = Busy]) \/ Keep([board EXCEPT !.days = Busy])
        BY <2>1, <2>4, <2>5, <2>6, <2>10
    <2> QED
        BY <2>7, <2>8, <2>9, <2>10
<1>3. ASSUME Leave PROVE board' \in Board
    BY <1>3 DEF Leave, Blank, Board, Queries
<1>4. board' \in Board
    BY <1>1, <1>2, <1>3 DEF HandleAnalytics, BuildAnalytics
<1>5. shrunk' \in BOOLEAN
    BY Zenon DEF TablesOK, HandleAnalytics, BuildAnalytics, Start, Read, Leave
<1> QED
    BY <1>0, <1>u, <1>4, <1>5 DEF TablesOK

\* The tables keep their types.
LEMMA TablesKept ==
    ASSUME TablesOK, PageOK, FormsOK, [Next]_vars
    PROVE  TablesOK'
<1>0. lead \in SUBSET Field /\ newer \in 0..MaxNewer /\ deleted \in BOOLEAN /\ board \in Board /\ shrunk \in BOOLEAN
         /\ log \in Seq([question : Texts, answered : BOOLEAN])
    BY DEF TablesOK
<1>l. ASSUME NEW t \in Texts, NEW ok \in BOOLEAN, LogConversation(t, ok)
      PROVE  log' \in Seq([question : Texts, answered : BOOLEAN])
    <2>1. Row(t, ok) \in [question : Texts, answered : BOOLEAN]
        BY DEF Row
    <2> QED
        BY <1>0, <1>l, <2>1 DEF LogConversation
<1>u. ASSUME NEW c \in SUBSET Field, Upsert(c) PROVE lead' \in SUBSET Field
    BY <1>0, <1>u DEF Upsert
<1>1. ASSUME NEW t \in Texts, Submit(t) PROVE TablesOK'
    BY <1>0, <1>1 DEF Submit, tables, desk, TablesOK
<1>2. ASSUME NEW t \in Texts, AskOk(t) \/ AskFails(t) PROVE TablesOK'
    <2>1. UNCHANGED lead /\ UNCHANGED newer /\ UNCHANGED deleted /\ UNCHANGED board /\ UNCHANGED shrunk
        BY <1>2 DEF AskOk, AskFails, Ended, desk
    <2>2. UNCHANGED log \/ \E ok \in BOOLEAN : LogConversation(t, ok)
        BY <1>2 DEF AskOk, AskFails
    <2>3. log' \in Seq([question : Texts, answered : BOOLEAN])
        BY <1>0, <1>l, <2>2
    <2> QED
        BY <1>0, <2>1, <2>3 DEF TablesOK
<1>3. ASSUME NEW k \in DOMAIN forms, NEW c \in Entries, Continue(k, c) PROVE TablesOK'
    BY <1>0, <1>3 DEF Continue, tables, desk, TablesOK
<1>4. ASSUME NEW k \in DOMAIN forms, NEW i \in DOMAIN forms[k].leads,
             LeadOk(k, i) \/ LeadFails(k, i)
      PROVE  TablesOK'
    <2>1. forms[k].leads[i] \in SUBSET Field
        BY LeadType
    <2>2. /\ UNCHANGED log /\ UNCHANGED newer /\ UNCHANGED deleted /\ UNCHANGED board /\ UNCHANGED shrunk
          /\ Upsert(forms[k].leads[i]) \/ UNCHANGED lead
        BY <1>4 DEF LeadOk, LeadFails, Done, desk
    <2>3. lead' \in SUBSET Field
        BY <1>0, <1>u, <2>1, <2>2
    <2> QED
        BY <1>0, <2>2, <2>3 DEF TablesOK
<1>5. CASE SwitchLanguage \/ LoadOk \/ LoadFails
    BY <1>0, <1>5 DEF SwitchLanguage, LoadOk, LoadFails, tables, desk, TablesOK
<1>6. CASE Reload
    BY <1>0, <1>6 DEF Reload, tables, desk, TablesOK
<1>7. CASE HandleLeadDelete
    <2>1. lead' = {} /\ newer' = 0 /\ UNCHANGED log /\ UNCHANGED board /\ UNCHANGED shrunk
        BY <1>7 DEF HandleLeadDelete, Delete, desk
    <2>2. deleted' \in BOOLEAN
        BY <1>7, Zenon DEF HandleLeadDelete
    <2> QED
        BY <1>0, <2>1, <2>2, LimitAssumption DEF TablesOK
<1>8. ASSUME NEW n \in DOMAIN log, PurgeOlderThan(n) PROVE TablesOK'
    <2>1. /\ log' = SubSeq(log, n + 1, Len(log))
          /\ UNCHANGED lead /\ UNCHANGED newer /\ UNCHANGED deleted /\ UNCHANGED board
        BY <1>8 DEF PurgeOlderThan
    <2>2. log' \in Seq([question : Texts, answered : BOOLEAN])
        <3> DEFINE T == [question : Texts, answered : BOOLEAN]
        <3>1. log \in Seq(T) /\ log' = SubSeq(log, n + 1, Len(log))
            BY <1>0, <2>1
        <3> HIDE DEF T
        <3>2. log' \in Seq(T)
            BY <3>1
        <3> QED
            BY <3>2 DEF T
    <2>3. shrunk' \in BOOLEAN
        <3>1. shrunk' = (board.read > 0) /\ board.read \in Int
            BY <1>0, <1>8 DEF PurgeOlderThan, Board, Queries
        <3>2. (board.read > 0) \in BOOLEAN
            BY <3>1
        <3> QED
            BY <3>1, <3>2, Zenon
    <2> QED
        BY <1>0, <2>1, <2>2, <2>3 DEF TablesOK
<1>9. CASE HandleAnalytics \/ BuildAnalytics \/ Read \/ Leave
    BY <1>9, BoardKept
<1>10. CASE UNCHANGED vars
    BY <1>0, <1>10 DEF vars, tables, desk, TablesOK
<1>11. CASE OtherLead
    BY <1>0, <1>11, LimitAssumption DEF OtherLead, desk, TablesOK
<1>12. CASE ServeLate
    <2>1. /\ UNCHANGED newer /\ UNCHANGED deleted /\ UNCHANGED board /\ UNCHANGED shrunk
          /\ UNCHANGED lead \/ \E c \in lateLeads : Upsert(c)
          /\ UNCHANGED log \/ \E t \in Texts, ok \in BOOLEAN : LogConversation(t, ok)
        BY <1>12 DEF ServeLate, desk
    <2>2. \A c \in lateLeads : c \in SUBSET Field
        BY CaptureAssumption DEF PageOK, Contact
    <2>3. lead' \in SUBSET Field
        BY <1>0, <1>u, <2>1, <2>2
    <2>4. log' \in Seq([question : Texts, answered : BOOLEAN])
        BY <1>0, <1>l, <2>1
    <2> QED
        BY <1>0, <2>1, <2>3, <2>4 DEF TablesOK
<1> QED
    BY <1>1, <1>2, <1>3, <1>4, <1>5, <1>6, <1>7, <1>8, <1>9, <1>10, <1>11, <1>12 DEF Next

\* The whole of it.
TypeInv ==
    /\ FlagsOK /\ PageOK /\ FormsOK /\ TablesOK
    /\ AlwaysInv /\ OtherInv

\* The first page, with its config still to come.
LEMMA TypeInvInit == Init => TypeInv
<1> SUFFICES ASSUME Init PROVE TypeInv
    OBVIOUS
<1>1. FlagsOK
    BY DEF Init, FlagsOK
<1>0. MaxTyped \in [Captures -> Nat] /\ MaxSwitches \in Nat /\ MaxClicks \in Nat \ {0}
    BY BoundAssumption
<1>2. PageOK
    BY <1>0 DEF Init, PageOK
<1>3. FormsOK
    BY DEF Init, FormsOK
<1>4. TablesOK
    <2>1. Blank \in Board
        BY DEF Blank, Board, Queries
    <2>2. shrunk \in BOOLEAN /\ deleted \in BOOLEAN
        BY Zenon DEF Init, InitTables, InitDesk
    <2>3. lead = {} /\ newer = 0 /\ log = << >> /\ board = Blank
        BY DEF Init, InitTables, InitDesk
    <2> QED
        BY <2>1, <2>2, <2>3, LimitAssumption DEF TablesOK
<1>5. UnderWay = 0 /\ Waiting = 0 /\ forms = << >>
    <2>1. asks \in [Texts -> Nat] /\ \A t \in Texts : asks[t] = 0
        BY DEF Init
    <2> QED
        BY <2>1, HeapEmpty DEF UnderWay, Waiting, Init
<1>6. AlwaysInv /\ OtherInv
    <2>1. Len(forms) = 0 /\ DOMAIN forms = {} /\ sending = FALSE /\ gating = FALSE
        BY <1>5 DEF Init
    <2> QED
        BY <1>0, <1>5, <2>1 DEF AlwaysInv, OtherInv
<1> QED
    BY <1>1, <1>2, <1>3, <1>4, <1>6 DEF TypeInv

\* It holds of every behaviour.
LEMMA TypeInvariant == Spec => []TypeInv
<1>1. TypeInv /\ [Next]_vars => TypeInv'
    BY FlagsKept, PageKept, FormsKept, TablesKept, AlwaysKept, OtherKept DEF TypeInv
<1> QED
    BY <1>1, TypeInvInit, PTL DEF Spec

\* The page, its requests and the tables have their types, and no message is under
\* way more often than its form may be clicked: for any texts, captures, entries
\* and bounds.
THEOREM TypeCorrect == Spec => []TypeOK
<1>1. TypeInv => TypeOK
    <2> SUFFICES ASSUME TypeInv PROVE TypeOK
        OBVIOUS
    <2>1. FlagsOK /\ PageOK /\ FormsOK /\ TablesOK /\ AlwaysInv /\ OtherInv
        BY DEF TypeInv
    <2>2. {sending, gating, contactDone, stored, loaded, waived} \subseteq BOOLEAN
        BY <2>1, Zenon DEF FlagsOK
    <2>3. loads \in 0..(MaxSwitches + 1)
        BY <2>1, BoundAssumption DEF PageOK
    <2>4. \A t \in Texts : asks[t] <= (IF capture = "always" THEN MaxClicks ELSE 1)
        <3> SUFFICES ASSUME NEW t \in Texts
                     PROVE  asks[t] <= (IF capture = "always" THEN MaxClicks ELSE 1)
            OBVIOUS
        <3>1. asks[t] <= UnderWay /\ asks[t] \in Nat /\ UnderWay \in Nat
            BY <2>1, UnderWayChanges DEF PageOK
        <3>2. Waiting \in Nat /\ MaxClicks \in Nat \ {0}
            <4>1. forms # << >> => 1 \in DOMAIN forms
                BY <2>1 DEF FormsOK
            <4> QED
                BY <2>1, <4>1, FormType, BoundAssumption DEF Waiting
        <3>3. CASE capture = "always"
            <4>1. UnderWay + Waiting <= IF contactDone /\ ~sending THEN MaxClicks - 1 ELSE MaxClicks
                BY <2>1, <3>3 DEF AlwaysInv
            <4>2. UnderWay + Waiting <= MaxClicks
                BY <3>1, <3>2, <4>1
            <4> QED
                BY <3>1, <3>2, <3>3, <4>2
        <3>4. CASE capture # "always"
            <4>1. UnderWay = IF sending THEN 1 ELSE 0
                BY <2>1, <3>4 DEF OtherInv
            <4>2. UnderWay <= 1
                BY <4>1
            <4> QED
                BY <3>1, <3>4, <4>2
        <3> QED
            BY <3>3, <3>4
    <2> QED
        BY <2>1, <2>2, <2>3, <2>4 DEF TypeOK, PageOK, FormsOK
<1> QED
    BY <1>1, TypeInvariant, PTL

-----------------------------------------------------------------------------
(* The dashboard.  Each number is compared with the log, which only grows   *)
(* while a dashboard is put together, or the dashboard is not judged.       *)

\* What a list counts is a heap.
LEMMA CountedIsHeap ==
    ASSUME NEW S, S \subseteq Listed
    PROVE  /\ [e \in S |-> e.count] \in [S -> Nat]
           /\ Counted(S) = Cardinality(Heap(S, [e \in S |-> e.count]))
<1> DEFINE n == [e \in S |-> e.count]
<1>1. n \in [S -> Nat]
    BY DEF Listed
<1>2. UNION {{e} \X (1..e.count) : e \in S} = Heap(S, n)
    BY DEF Heap
<1> QED
    BY <1>1, <1>2 DEF Counted

\* A finite list counts finitely many rows.
LEMMA CountedType ==
    ASSUME NEW S, S \subseteq Listed, IsFiniteSet(S)
    PROVE  Counted(S) \in Nat
<1> DEFINE n == [e \in S |-> e.count]
<1>1. n \in [S -> Nat] /\ Counted(S) = Cardinality(Heap(S, n))
    BY CountedIsHeap
<1> HIDE DEF n
<1> QED
    BY <1>1, HeapFinite

\* A list counts no more than its two parts.
LEMMA CountedSplits ==
    ASSUME NEW A, A \subseteq Listed, IsFiniteSet(A), NEW S \in SUBSET A
    PROVE  Counted(A) <= Counted(S) + Counted(A \ S)
<1> DEFINE heap(T) == UNION {{e} \X (1..e.count) : e \in T}
<1>1. ASSUME NEW T \in SUBSET A
      PROVE  IsFiniteSet(heap(T)) /\ Counted(T) = Cardinality(heap(T)) /\ Counted(T) \in Nat
    <2> DEFINE n == [e \in T |-> e.count]
    <2>1. T \subseteq Listed /\ IsFiniteSet(T)
        BY FS_Subset
    <2>2. n \in [T -> Nat] /\ heap(T) = Heap(T, n)
        BY <2>1 DEF Listed, Heap
    <2>3. IsFiniteSet(heap(T))
        <3> HIDE DEF n, heap
        <3> QED BY <2>1, <2>2, HeapFinite
    <2> QED
        BY <2>1, <2>3, CountedType DEF Counted
<1>2. heap(A) = heap(S) \union heap(A \ S)
    OBVIOUS
<1> HIDE DEF heap
<1> DEFINE X == heap(S)
           Y == heap(A \ S)
<1>3. IsFiniteSet(X) /\ IsFiniteSet(Y) /\ Cardinality(X) \in Nat /\ Cardinality(Y) \in Nat
    BY <1>1
<1> HIDE DEF X, Y
<1>4. /\ Cardinality(X \union Y) = Cardinality(X) + Cardinality(Y) - Cardinality(X \cap Y)
      /\ Cardinality(X \cap Y) \in Nat
    BY <1>3, FS_Union, FS_Intersection, FS_CardinalityType
<1>5. Cardinality(X \union Y) <= Cardinality(X) + Cardinality(Y)
    BY <1>3, <1>4
<1>6. Counted(S) = Cardinality(X) /\ Counted(A \ S) = Cardinality(Y)
    BY <1>1 DEF X, Y
<1>7. Counted(A) = Cardinality(X \union Y)
    BY <1>1, <1>2 DEF X, Y
<1> QED
    BY <1>5, <1>6, <1>7

\* If each of S counts at least what each of T does, S counts on average at least
\* what T does: a row of T with an entry of S is, exchanged, one of S with one of T.
LEMMA CountedExchange ==
    ASSUME NEW S, S \subseteq Listed, IsFiniteSet(S), NEW T, T \subseteq Listed, IsFiniteSet(T),
           \A a \in S, b \in T : a.count >= b.count
    PROVE  Counted(T) * Cardinality(S) <= Counted(S) * Cardinality(T)
<1> DEFINE HS == Heap(S, [e \in S |-> e.count])
           HT == Heap(T, [e \in T |-> e.count])
           f == [p \in HT \X S |-> << <<p[2], p[1][2]>>, p[1][1] >>]
<1>1. /\ IsFiniteSet(HS) /\ Cardinality(HS) = Counted(S)
      /\ IsFiniteSet(HT) /\ Cardinality(HT) = Counted(T)
    BY CountedIsHeap, HeapFinite
<1>2. ASSUME NEW p \in HT \X S
      PROVE  /\ p[1] = <<p[1][1], p[1][2]>> /\ p = <<p[1], p[2]>>
             /\ p[1][1] \in T /\ f[p] \in HS \X T
    <2>1. p[1] \in HT /\ p[2] \in S /\ p = <<p[1], p[2]>>
        OBVIOUS
    <2>2. PICK b \in T : \E i \in 1..b.count : p[1] = <<b, i>>
        BY <2>1 DEF Heap
    <2>3. PICK i \in 1..b.count : p[1] = <<b, i>>
        BY <2>2
    <2>4. i \in 1..(p[2].count)
        BY <2>1, <2>3 DEF Listed
    <2>5. <<p[2], i>> \in HS
        BY <2>1, <2>4 DEF Heap
    <2> QED
        BY <2>1, <2>3, <2>5
<1>3. \A p, q \in HT \X S : f[p] = f[q] => p = q
    <2> SUFFICES ASSUME NEW p \in HT \X S, NEW q \in HT \X S, f[p] = f[q] PROVE p = q
        OBVIOUS
    <2>1. << <<p[2], p[1][2]>>, p[1][1] >> = << <<q[2], q[1][2]>>, q[1][1] >>
        OBVIOUS
    <2>2. p[2] = q[2] /\ p[1][2] = q[1][2] /\ p[1][1] = q[1][1]
        BY <2>1
    <2>3. p = << <<p[1][1], p[1][2]>>, p[2] >> /\ q = << <<q[1][1], q[1][2]>>, q[2] >>
        BY <1>2
    <2> QED
        BY <2>2, <2>3
<1>4. f \in Injection(HT \X S, HS \X T)
    <2>1. f \in [HT \X S -> HS \X T]
        BY <1>2
    <2> HIDE DEF f, HS, HT
    <2> QED
        BY <1>3, <2>1 DEF Injection, IsInjective
<1> HIDE DEF f, HS, HT
<1>5. /\ IsFiniteSet(HS \X T) /\ Cardinality(HS \X T) = Counted(S) * Cardinality(T)
      /\ Cardinality(HT \X S) = Counted(T) * Cardinality(S)
    BY <1>1, FS_Product
<1>6. Cardinality(HT \X S) <= Cardinality(HS \X T)
    BY <1>4, <1>5, FS_Injection
<1> QED
    BY <1>5, <1>6

\* Multiplying keeps the order.
LEMMA Scaled ==
    ASSUME NEW a \in Nat, NEW b \in Nat, NEW k \in Nat, a <= b
    PROVE  a * k <= b * k /\ k * a <= k * b
<1>1. PICK d \in Nat : b = a + d
    <2>1. b - a \in Nat
        OBVIOUS
    <2> QED BY <2>1
<1>2. (a + d) * k = a * k + d * k /\ k * (a + d) = k * a + k * d
    OBVIOUS
<1>3. d * k \in Nat /\ k * d \in Nat /\ a * k \in Nat /\ k * a \in Nat
    OBVIOUS
<1> QED
    BY <1>1, <1>2, <1>3

\* A share that counts at least the average of the rest counts at least the average.
LEMMA Average ==
    ASSUME NEW x \in Nat, NEW y \in Nat, NEW s \in Nat, NEW r \in Nat, NEW c \in Nat,
           y * s <= x * r, c <= x + y
    PROVE  c * s <= x * (s + r)
<1>1. c * s <= (x + y) * s
    <2>1. x + y \in Nat
        OBVIOUS
    <2> QED
        BY <2>1, Scaled
<1>2. (x + y) * s = x * s + y * s /\ x * (s + r) = x * s + x * r
    OBVIOUS
<1>3. x * s \in Nat /\ y * s \in Nat /\ x * r \in Nat /\ c * s \in Nat
    OBVIOUS
<1> QED
    BY <1>1, <1>2, <1>3

\* The rows of a question are counted by its entry, so a grouped list counts them all.
LEMMA GroupedCounts ==
    ASSUME TablesOK, NEW R \in SUBSET DOMAIN log
    PROVE  /\ IsFiniteSet(Grouped(R)) /\ Cardinality(Grouped(R)) <= Cardinality(Texts)
           /\ Cardinality(R) <= Counted(Grouped(R))
<1> DEFINE A == Grouped(R)
           n(t) == Cardinality(Of(t) \intersect R)
           entry(t) == [question |-> t, count |-> n(t),
                        unanswered |-> Cardinality(Of(t) \intersect R \intersect Unanswered)]
           H == Heap(A, [e \in A |-> e.count])
<1>1. ASSUME NEW e \in A
      PROVE  e.question \in Texts /\ e = entry(e.question) /\ e.count = n(e.question)
    <2>1. PICK t \in Texts : e = entry(t)
        BY DEF Grouped
    <2>2. e.question = t /\ e.count = n(t)
        BY <2>1
    <2> QED
        BY <2>1, <2>2
<1>2. A \subseteq Listed
    BY GroupedType
<1>3. IsFiniteSet(A) /\ Cardinality(A) <= Cardinality(Texts)
    <2> DEFINE f == [e \in A |-> e.question]
    <2>1. f \in [A -> Texts]
        BY <1>1
    <2>2. \A a, b \in A : f[a] = f[b] => a = b
        <3> SUFFICES ASSUME NEW a \in A, NEW b \in A, f[a] = f[b] PROVE a = b
            OBVIOUS
        <3>1. a.question = b.question
            OBVIOUS
        <3> HIDE DEF f, entry, A
        <3> QED
            BY <1>1, <3>1
    <2>3. f \in Injection(A, Texts)
        <3> HIDE DEF f, A
        <3> QED BY <2>1, <2>2 DEF Injection, IsInjective
    <2> HIDE DEF f, A
    <2> QED
        BY <2>3, FS_Injection, LimitAssumption
<1>4. ASSUME NEW t \in Texts
      PROVE  n(t) \in Nat /\ \E h : h \in Surjection(1..n(t), Of(t) \intersect R)
    <2>1. IsFiniteSet(Of(t) \intersect R)
        BY LogFinite DEF Of
    <2> DEFINE W == Of(t) \intersect R
    <2> HIDE DEF W
    <2>2. Cardinality(W) \in Nat /\ ExistsBijection(1..Cardinality(W), W)
        BY <2>1, FS_CardinalityType DEF W
    <2> QED
        BY <2>2 DEF W, ExistsBijection, Bijection
<1> DEFINE g(t) == CHOOSE h : h \in Surjection(1..n(t), Of(t) \intersect R)
           f == [p \in H |-> g(p[1].question)[p[2]]]
<1>5. ASSUME NEW t \in Texts
      PROVE  /\ g(t) \in [1..n(t) -> Of(t) \intersect R]
             /\ \A r \in Of(t) \intersect R : \E i \in 1..n(t) : g(t)[i] = r
    <2>1. g(t) \in Surjection(1..n(t), Of(t) \intersect R)
        BY <1>4
    <2> HIDE DEF g, n
    <2> QED
        BY <2>1 DEF Surjection
<1>6. ASSUME NEW p \in H
      PROVE  p[1] \in A /\ p[2] \in 1..p[1].count
    BY DEF Heap
<1>7. ASSUME NEW e \in A, NEW i \in 1..e.count PROVE <<e, i>> \in H
    BY DEF Heap
<1> HIDE DEF g, H
<1>8. ASSUME NEW p \in H PROVE f[p] \in R
    <2>1. p[1].question \in Texts /\ p[1].count = n(p[1].question)
        <3> HIDE DEF A, n
        <3> QED BY <1>1, <1>6
    <2> HIDE DEF n
    <2> QED
        BY <1>5, <1>6, <2>1
<1>9. ASSUME NEW r \in R PROVE \E p \in H : f[p] = r
    <2> DEFINE t == log[r].question
    <2>1. t \in Texts /\ r \in Of(t) \intersect R
        <3>1. r \in DOMAIN log /\ log[r] \in [question : Texts, answered : BOOLEAN]
            <4> DEFINE T == [question : Texts, answered : BOOLEAN]
            <4>1. log \in Seq(T)
                BY DEF TablesOK
            <4> HIDE DEF T
            <4>2. r \in DOMAIN log /\ log[r] \in T
                BY <4>1
            <4> QED
                BY <4>2 DEF T
        <3> QED
            BY <3>1 DEF Of
    <2>2. entry(t) \in A
        BY <2>1 DEF Grouped
    <2>3. PICK i \in 1..n(t) : g(t)[i] = r
        <3> HIDE DEF t, n
        <3> QED BY <1>5, <2>1
    <2>4. <<entry(t), i>> \in H
        <3> HIDE DEF t, n, A
        <3> QED BY <1>7, <2>2
    <2>5. f[<<entry(t), i>>] = r
        <3> HIDE DEF t, n
        <3> QED BY <2>3, <2>4
    <2> QED
        BY <2>4, <2>5
<1>10. f \in Surjection(H, R)
    <2>1. f \in [H -> R]
        BY <1>8
    <2> HIDE DEF f
    <2> QED
        BY <1>9, <2>1 DEF Surjection
<1>11. IsFiniteSet(H) /\ Cardinality(H) = Counted(A)
    <2> HIDE DEF A
    <2> QED
        BY <1>2, <1>3, CountedIsHeap, HeapFinite DEF H
<1>12. Cardinality(R) <= Cardinality(H)
    <2> HIDE DEF f
    <2> QED BY <1>10, <1>11, FS_Surjection
<1> QED
    BY <1>3, <1>11, <1>12

\* What the least of two numbers is.
LEMMA MinOfTwo ==
    ASSUME NEW a \in Int, NEW b \in Int
    PROVE  Min({a, b}) = IF a <= b THEN a ELSE b
<1>1. \A x : x \in {a, b} /\ (\A y \in {a, b} : x <= y) <=> x = IF a <= b THEN a ELSE b
    OBVIOUS
<1> DEFINE m == IF a <= b THEN a ELSE b
<1>2. m \in {a, b} /\ \A y \in {a, b} : m <= y
    OBVIOUS
<1>3. Min({a, b}) \in {a, b} /\ \A y \in {a, b} : Min({a, b}) <= y
    BY <1>2 DEF Min
<1> QED
    BY <1>1, <1>3

\* An answer of TopQuestions covers the rows it groups, however ties are broken.
LEMMA TopCovers ==
    ASSUME TablesOK, NEW b \in BOOLEAN, NEW S \in TopQuestions(b), NEW total \in Nat,
           total <= Cardinality(IF b THEN Unanswered ELSE DOMAIN log)
    PROVE  Covers(S, total)
<1> DEFINE R == IF b THEN Unanswered ELSE DOMAIN log
           A == Grouped(R)
<1>1. R \in SUBSET DOMAIN log /\ Cardinality(R) \in Nat
    <2>1. R \in SUBSET DOMAIN log
        BY DEF Unanswered
    <2> QED
        BY <2>1, LogFinite
<1>2. /\ IsFiniteSet(A) /\ A \subseteq Listed /\ Cardinality(A) <= Cardinality(Texts)
      /\ Cardinality(R) <= Counted(A)
    <2> HIDE DEF R
    <2> QED BY <1>1, GroupedCounts, GroupedType
<1>3. /\ S \in SUBSET A /\ Cardinality(S) = Min({board.limit, Cardinality(A)})
      /\ \A x \in S, y \in A \ S : Before(x, y)
    BY DEF TopQuestions
<1> HIDE DEF A, R
<1>4. /\ IsFiniteSet(S) /\ IsFiniteSet(A \ S) /\ S \subseteq Listed /\ (A \ S) \subseteq Listed
      /\ Cardinality(S) \in Nat /\ Cardinality(A) \in Nat /\ Cardinality(A \ S) \in Nat
      /\ Cardinality(Texts) \in Nat
      /\ Counted(A) \in Nat /\ Counted(S) \in Nat /\ Counted(A \ S) \in Nat
    <2>1. /\ IsFiniteSet(S) /\ IsFiniteSet(A \ S) /\ S \subseteq Listed /\ (A \ S) \subseteq Listed
        BY <1>2, <1>3, FS_Subset, FS_Difference
    <2> QED
        BY <1>2, <2>1, CountedType, FS_CardinalityType, LimitAssumption
<1>5. Cardinality(A \ S) = Cardinality(A) - Cardinality(S)
    <2>1. A \cap S = S
        BY <1>3
    <2> QED
        BY <1>2, <2>1, FS_Difference
<1>6. total <= Counted(A)
    <2>1. total <= Cardinality(R)
        BY DEF R
    <2> QED
        BY <1>1, <1>2, <1>4, <2>1
<1>7. Cardinality(S) < board.limit => total <= Counted(S)
    <2> SUFFICES ASSUME Cardinality(S) < board.limit PROVE total <= Counted(S)
        OBVIOUS
    <2>1. board.limit \in Int
        BY LimitAssumption DEF TablesOK, Board
    <2>2. Cardinality(S) = Cardinality(A)
        BY <1>3, <1>4, <2>1, MinOfTwo
    <2>3. S = A
        BY <1>2, <1>3, <2>2, FS_Subset
    <2> QED
        BY <1>6, <2>3
<1>8. Counted(A) * Cardinality(S) <= Counted(S) * Cardinality(A)
    <2>1. \A x \in S, y \in A \ S : x.count >= y.count
        <3> SUFFICES ASSUME NEW x \in S, NEW y \in A \ S PROVE x.count >= y.count
            OBVIOUS
        <3>1. x.count \in Nat /\ y.count \in Nat
            BY <1>4 DEF Listed
        <3> QED
            BY <1>3, <3>1 DEF Before
    <2>2. Counted(A \ S) * Cardinality(S) <= Counted(S) * Cardinality(A \ S)
        BY <1>4, <2>1, CountedExchange
    <2>3. Counted(A) <= Counted(S) + Counted(A \ S)
        BY <1>2, <1>3, CountedSplits
    <2>4. Counted(A) * Cardinality(S) <= Counted(S) * (Cardinality(S) + Cardinality(A \ S))
        BY <1>4, <2>2, <2>3, Average
    <2>5. Cardinality(S) + Cardinality(A \ S) = Cardinality(A)
        BY <1>4, <1>5
    <2> QED
        BY <2>4, <2>5
<1>9. total * Cardinality(S) <= Counted(A) * Cardinality(S)
    BY <1>4, <1>6, Scaled
<1>10. Counted(S) * Cardinality(A) <= Counted(S) * Cardinality(Texts)
    BY <1>2, <1>4, Scaled
<1>11. /\ total * Cardinality(S) \in Nat /\ Counted(A) * Cardinality(S) \in Nat
       /\ Counted(S) * Cardinality(A) \in Nat /\ Counted(S) * Cardinality(Texts) \in Nat
    BY <1>4
<1>12. total * Cardinality(S) <= Counted(S) * Cardinality(Texts)
    BY <1>8, <1>9, <1>10, <1>11
<1> QED
    BY <1>4, <1>7, <1>11, <1>12 DEF Covers

\* How the numbers of a dashboard agree with the log, query by query: it is at
\* least what the totals were read from, a list covers its total once it is read,
\* and a question has at least the gaps its entry among the most asked shows.
BoardInv ==
    ~shrunk =>
        /\ board.read >= 1 => /\ board.total <= Len(log)
                              /\ board.unanswered <= Cardinality(Unanswered)
        /\ board.read >= 2 =>
              /\ Covers(board.top, board.total)
              /\ \A t \in board.top :
                    t.unanswered <= Cardinality(Of(t.question) \intersect Unanswered)
        /\ board.read >= 3 =>
              /\ Covers(board.gaps, board.unanswered)
              /\ \A t \in board.top, g \in board.gaps :
                    t.question = g.question => g.count >= t.unanswered
        /\ board.read >= 4 => board.total <= board.hours /\ board.hours <= Len(log)
        /\ board.read >= 5 => board.hours <= board.days

\* A new row takes no other from the counts.
LEMMA LogGrows ==
    ASSUME TablesOK, TablesOK', NEW t, NEW ok \in BOOLEAN, LogConversation(t, ok)
    PROVE  /\ Len(log) \in Nat /\ Len(log') = Len(log) + 1
           /\ Cardinality(Unanswered) \in Nat /\ Cardinality(Unanswered') \in Nat
           /\ Cardinality(Unanswered) <= Cardinality(Unanswered')
           /\ \A q : LET gaps == Of(q) \intersect Unanswered
                     IN  /\ Cardinality(gaps) \in Nat /\ Cardinality(gaps') \in Nat
                         /\ Cardinality(gaps) <= Cardinality(gaps')
<1> DEFINE T == [question : Texts, answered : BOOLEAN]
<1>1. log \in Seq(T) /\ log' \in Seq(T) /\ log' = Append(log, Row(t, ok))
    BY DEF TablesOK, LogConversation
<1> HIDE DEF T
<1>2. /\ Len(log) \in Nat /\ Len(log') = Len(log) + 1
      /\ \A n \in DOMAIN log : n \in DOMAIN log' /\ log'[n] = log[n]
    BY <1>1
<1>3. /\ Unanswered \in SUBSET DOMAIN log /\ Unanswered' \in SUBSET DOMAIN log'
      /\ Unanswered \subseteq Unanswered'
    BY <1>2 DEF Unanswered
<1>4. ASSUME NEW q
      PROVE  Of(q) \in SUBSET DOMAIN log /\ Of(q)' \in SUBSET DOMAIN log' /\ Of(q) \subseteq Of(q)'
    BY <1>2 DEF Of
<1>5. ASSUME NEW A \in SUBSET DOMAIN log, NEW B \in SUBSET DOMAIN log', A \subseteq B
      PROVE  Cardinality(A) \in Nat /\ Cardinality(B) \in Nat /\ Cardinality(A) <= Cardinality(B)
    BY <1>1, <1>5, RowsFinite, FS_Subset
<1> QED
    BY <1>2, <1>3, <1>4, <1>5

\* The dashboard agrees with a log that stays or grows.
LEMMA BoardWaits ==
    ASSUME TablesOK, TablesOK', BoardInv, UNCHANGED desk,
           UNCHANGED log \/ \E t \in Texts, ok \in BOOLEAN : LogConversation(t, ok)
    PROVE  BoardInv'
<1>1. UNCHANGED board /\ UNCHANGED shrunk
    BY DEF desk
<1>2. CASE UNCHANGED log
    BY <1>1, <1>2 DEF BoardInv, Covers, Unanswered, Of
<1>3. ASSUME NEW t \in Texts, NEW ok \in BOOLEAN, LogConversation(t, ok)
      PROVE  BoardInv'
    <2> SUFFICES ASSUME ~shrunk PROVE BoardInv'
        BY <1>1 DEF BoardInv
    <2>0. board \in Board /\ Len(log) \in Nat
        BY DEF TablesOK
    <2>1. board.read >= 1 => /\ board.total <= Len(log')
                             /\ board.unanswered <= Cardinality(Unanswered')
        <3>1. board.read >= 1 => board.total <= Len(log) /\ board.unanswered <= Cardinality(Unanswered)
            BY DEF BoardInv
        <3> QED
            BY <1>3, <2>0, <3>1, LogGrows DEF Board
    <2>2. board.read >= 2 =>
              \A e \in board.top :
                  e.unanswered <= Cardinality(Of(e.question)' \intersect Unanswered')
        <3> SUFFICES ASSUME board.read >= 2, NEW e \in board.top
                     PROVE  e.unanswered <= Cardinality(Of(e.question)' \intersect Unanswered')
            OBVIOUS
        <3>1. e.unanswered <= Cardinality(Of(e.question) \intersect Unanswered) /\ e.unanswered \in Nat
            BY <2>0 DEF BoardInv, Board, Listed
        <3>2. LET gaps == Of(e.question) \intersect Unanswered
              IN  /\ Cardinality(gaps) \in Nat /\ Cardinality(gaps') \in Nat
                  /\ Cardinality(gaps) <= Cardinality(gaps')
            BY <1>3, LogGrows
        <3> QED
            BY <3>1, <3>2
    <2>3. board.read >= 4 => board.hours <= Len(log')
        <3>1. board.read >= 4 => board.hours <= Len(log)
            BY DEF BoardInv
        <3> QED
            BY <1>3, <2>0, <3>1, LogGrows DEF Board
    <2> QED
        BY <1>1, <2>1, <2>2, <2>3 DEF BoardInv, Covers
<1> QED
    BY <1>2, <1>3

\* What the next query leaves of the dashboard.
LEMMA Kept ==
    ASSUME NEW b \in Board, Keep(b)
    PROVE  /\ board'.read = b.read + 1 /\ board'.limit = b.limit
           /\ board'.total = b.total /\ board'.unanswered = b.unanswered
           /\ board'.top = b.top /\ board'.gaps = b.gaps
           /\ board'.hours = b.hours /\ board'.days = b.days
BY DEF Keep, Board

\* The first query reads the totals from the log as it is.
LEMMA BoardStarts ==
    ASSUME TablesOK, NEW limit \in Nat, Start(limit)
    PROVE  BoardInv'
<1>1. board' = [read |-> 1, limit |-> limit, total |-> Len(log),
                unanswered |-> Cardinality(Unanswered), top |-> {}, gaps |-> {},
                hours |-> 0, days |-> 0]
    BY DEF Start, Blank, AnswerRate
<1>2. Unanswered' = Unanswered /\ UNCHANGED log
    BY DEF Start, tables, Unanswered
<1>3. board'.read = 1 /\ board'.total = Len(log') /\ board'.unanswered = Cardinality(Unanswered')
    BY <1>1, <1>2
<1>4. Len(log) \in Nat /\ Cardinality(Unanswered) \in Nat
    <2>1. Unanswered \in SUBSET DOMAIN log
        BY DEF Unanswered
    <2> QED
        BY <2>1, LogFinite DEF TablesOK
<1> QED
    BY <1>2, <1>3, <1>4 DEF BoardInv

\* A later query reads a log that is at least what the totals were read from.
LEMMA BoardReads ==
    ASSUME TablesOK, BoardInv, Read
    PROVE  BoardInv'
<1> SUFFICES ASSUME ~shrunk PROVE BoardInv'
    BY DEF BoardInv, Read
<1>0. /\ UNCHANGED log /\ UNCHANGED shrunk /\ Unanswered' = Unanswered /\ \A q : Of(q)' = Of(q)
      /\ board \in Board /\ board.total \in Nat /\ board.unanswered \in Nat /\ Len(log) \in Nat
      /\ board.read \in {1, 2, 3, 4}
    <2>1. UNCHANGED log /\ UNCHANGED shrunk
        BY DEF Read, tables
    <2>2. board \in Board /\ Len(log) \in Nat
        BY DEF TablesOK
    <2>3. board.read \in {1, 2, 3, 4}
        BY Zenon DEF Read
    <2> QED
        BY <2>1, <2>2, <2>3 DEF Unanswered, Of, Board
<1>1. board.total <= Len(log) /\ board.unanswered <= Cardinality(Unanswered)
    BY <1>0 DEF BoardInv
<1>t. board.read >= 2 =>
          /\ Covers(board.top, board.total)
          /\ \A e \in board.top :
                e.unanswered <= Cardinality(Of(e.question) \intersect Unanswered)
    BY DEF BoardInv
<1>g. board.read >= 3 =>
          /\ Covers(board.gaps, board.unanswered)
          /\ \A e \in board.top, g \in board.gaps :
                e.question = g.question => g.count >= e.unanswered
    BY DEF BoardInv
<1>h. board.read >= 4 => board.total <= board.hours /\ board.hours <= Len(log)
    BY DEF BoardInv
<1>2. ASSUME board.read = 1, NEW S \in TopQuestions(FALSE), Keep([board EXCEPT !.top = S])
      PROVE  BoardInv'
    <2> DEFINE b == [board EXCEPT !.top = S]
    <2>1. /\ b \in Board /\ b.read = 1 /\ b.top = S /\ b.limit = board.limit
          /\ b.total = board.total /\ b.unanswered = board.unanswered
        BY <1>0, <1>2, TopType DEF Board
    <2>2. Keep(b)
        BY <1>2
    <2> HIDE DEF b
    <2>3. /\ board'.read = 2 /\ board'.top = S /\ board'.limit = board.limit
          /\ board'.total = board.total /\ board'.unanswered = board.unanswered
        BY <2>1, <2>2, Kept
    <2>4. Covers(S, board.total)
        BY <1>0, <1>1, TopCovers, LogFinite
    <2>5. \A e \in S : e.unanswered <= Cardinality(Of(e.question) \intersect Unanswered)
        <3> SUFFICES ASSUME NEW e \in S
                     PROVE  e.unanswered <= Cardinality(Of(e.question) \intersect Unanswered)
            OBVIOUS
        <3>1. e \in Grouped(DOMAIN log) /\ e \in Listed
            BY TopType
        <3>2. e.unanswered = Cardinality(Of(e.question) \intersect DOMAIN log \intersect Unanswered)
            BY <3>1, EntryCounts
        <3>3. Of(e.question) \intersect DOMAIN log \intersect Unanswered = Of(e.question) \intersect Unanswered
            BY DEF Of
        <3> QED
            BY <3>1, <3>2, <3>3 DEF Listed
    <2>6. Covers(board.top, board.total)'
        BY <2>3, <2>4 DEF Covers
    <2> QED
        BY <1>0, <1>1, <2>3, <2>5, <2>6 DEF BoardInv
<1>3. ASSUME board.read = 2, NEW S \in TopQuestions(TRUE), Keep([board EXCEPT !.gaps = S])
      PROVE  BoardInv'
    <2> DEFINE b == [board EXCEPT !.gaps = S]
    <2>1. /\ b \in Board /\ b.read = 2 /\ b.gaps = S /\ b.limit = board.limit /\ b.top = board.top
          /\ b.total = board.total /\ b.unanswered = board.unanswered
        BY <1>0, <1>3, TopType DEF Board
    <2>2. Keep(b)
        BY <1>3
    <2> HIDE DEF b
    <2>3. /\ board'.read = 3 /\ board'.gaps = S /\ board'.limit = board.limit
          /\ board'.top = board.top
          /\ board'.total = board.total /\ board'.unanswered = board.unanswered
        BY <2>1, <2>2, Kept
    <2>4. Covers(S, board.unanswered)
        BY <1>0, <1>1, TopCovers
    <2>5. \A g \in S : g.count = Cardinality(Of(g.question) \intersect Unanswered)
        <3> SUFFICES ASSUME NEW g \in S
                     PROVE  g.count = Cardinality(Of(g.question) \intersect Unanswered)
            OBVIOUS
        <3>1. g \in Grouped(Unanswered)
            BY TopType
        <3> QED
            BY <3>1, EntryCounts
    <2>6. \A e \in board.top, g \in S : e.question = g.question => g.count >= e.unanswered
        <3> SUFFICES ASSUME NEW e \in board.top, NEW g \in S, e.question = g.question
                     PROVE  g.count >= e.unanswered
            OBVIOUS
        <3>1. e \in Listed /\ g \in Listed
            BY <1>0, TopType DEF Board
        <3>2. e.unanswered <= Cardinality(Of(e.question) \intersect Unanswered)
            BY <1>3, <1>t
        <3> QED
            BY <2>5, <3>1, <3>2 DEF Listed
    <2>7. Covers(board.gaps, board.unanswered)' /\ Covers(board.top, board.total)'
        BY <1>3, <1>t, <2>3, <2>4 DEF Covers
    <2>8. \A e \in board'.top : e.unanswered <= Cardinality((Of(e.question) \intersect Unanswered)')
        BY <1>0, <1>3, <1>t, <2>3
    <2>9. \A e \in board'.top, g \in board'.gaps : e.question = g.question => g.count >= e.unanswered
        BY <2>3, <2>6
    <2> QED
        BY <1>0, <1>1, <2>3, <2>7, <2>8, <2>9 DEF BoardInv
<1>4. ASSUME board.read = 3, Keep([board EXCEPT !.hours = Busy])
      PROVE  BoardInv'
    <2> DEFINE b == [board EXCEPT !.hours = Busy]
    <2>1. /\ b \in Board /\ b.read = 3 /\ b.gaps = board.gaps /\ b.limit = board.limit
          /\ b.top = board.top /\ b.hours = Len(log)
          /\ b.total = board.total /\ b.unanswered = board.unanswered
        BY <1>0, <1>4 DEF Board, Busy
    <2>2. Keep(b)
        BY <1>4
    <2> HIDE DEF b
    <2>3. /\ board'.read = 4 /\ board'.gaps = board.gaps /\ board'.limit = board.limit
          /\ board'.top = board.top /\ board'.hours = Len(log)
          /\ board'.total = board.total /\ board'.unanswered = board.unanswered
        BY <2>1, <2>2, Kept
    <2>7. Covers(board.gaps, board.unanswered)' /\ Covers(board.top, board.total)'
        BY <1>4, <1>t, <1>g, <2>3 DEF Covers
    <2>8. \A e \in board'.top : e.unanswered <= Cardinality((Of(e.question) \intersect Unanswered)')
        BY <1>0, <1>4, <1>t, <2>3
    <2>9. \A e \in board'.top, g \in board'.gaps : e.question = g.question => g.count >= e.unanswered
        BY <1>4, <1>g, <2>3
    <2> QED
        BY <1>0, <1>1, <2>3, <2>7, <2>8, <2>9 DEF BoardInv
<1>5. ASSUME board.read = 4, Keep([board EXCEPT !.days = Busy])
      PROVE  BoardInv'
    <2> DEFINE b == [board EXCEPT !.days = Busy]
    <2>1. /\ b \in Board /\ b.read = 4 /\ b.gaps = board.gaps /\ b.limit = board.limit
          /\ b.top = board.top /\ b.hours = board.hours /\ b.days = Len(log)
          /\ b.total = board.total /\ b.unanswered = board.unanswered
        BY <1>0, <1>5 DEF Board, Busy
    <2>2. Keep(b)
        BY <1>5
    <2> HIDE DEF b
    <2>3. /\ board'.read = 5 /\ board'.gaps = board.gaps /\ board'.limit = board.limit
          /\ board'.top = board.top /\ board'.hours = board.hours /\ board'.days = Len(log)
          /\ board'.total = board.total /\ board'.unanswered = board.unanswered
        BY <2>1, <2>2, Kept
    <2>7. Covers(board.gaps, board.unanswered)' /\ Covers(board.top, board.total)'
        BY <1>5, <1>t, <1>g, <2>3 DEF Covers
    <2>8. \A e \in board'.top : e.unanswered <= Cardinality((Of(e.question) \intersect Unanswered)')
        BY <1>0, <1>5, <1>t, <2>3
    <2>9. \A e \in board'.top, g \in board'.gaps : e.question = g.question => g.count >= e.unanswered
        BY <1>5, <1>g, <2>3
    <2> QED
        BY <1>0, <1>1, <1>5, <1>h, <2>3, <2>7, <2>8, <2>9 DEF BoardInv
<1> QED
    BY <1>2, <1>3, <1>4, <1>5 DEF Read

\* Every step keeps the dashboard in agreement.
LEMMA BoardInvKept ==
    ASSUME TablesOK, TablesOK', BoardInv, [Next]_vars
    PROVE  BoardInv'
<1>1. ASSUME NEW t \in Texts, Submit(t) PROVE BoardInv'
    BY <1>1, BoardWaits DEF Submit, tables
<1>2. ASSUME NEW t \in Texts, AskOk(t) \/ AskFails(t) PROVE BoardInv'
    <2>1. UNCHANGED desk /\ (UNCHANGED log \/ \E ok \in BOOLEAN : LogConversation(t, ok))
        BY <1>2 DEF AskOk, AskFails, Ended
    <2> QED
        BY <2>1, BoardWaits
<1>3. ASSUME NEW k \in DOMAIN forms, NEW c \in Entries, Continue(k, c) PROVE BoardInv'
    BY <1>3, BoardWaits DEF Continue, tables
<1>4. ASSUME NEW k \in DOMAIN forms, NEW i \in DOMAIN forms[k].leads,
             LeadOk(k, i) \/ LeadFails(k, i)
      PROVE  BoardInv'
    BY <1>4, BoardWaits DEF LeadOk, LeadFails, Done
<1>5. CASE SwitchLanguage \/ LoadOk \/ LoadFails
    BY <1>5, BoardWaits DEF SwitchLanguage, LoadOk, LoadFails, tables
<1>6. CASE Reload
    BY <1>6, BoardWaits DEF Reload, tables
<1>7. CASE HandleLeadDelete
    BY <1>7, BoardWaits DEF HandleLeadDelete
<1>8. ASSUME NEW n \in DOMAIN log, PurgeOlderThan(n) PROVE BoardInv'
    <2>1. UNCHANGED board /\ board.read \in 0..Queries /\ shrunk' = (board.read > 0)
        BY <1>8 DEF PurgeOlderThan, TablesOK, Board
    <2>2. CASE board.read = 0
        BY <2>1, <2>2 DEF BoardInv
    <2>3. CASE board.read > 0
        BY <2>1, <2>3 DEF BoardInv
    <2> QED
        BY <2>1, <2>2, <2>3 DEF Queries
<1>9. CASE HandleAnalytics \/ BuildAnalytics
    <2>1. ApiLimit \in Nat /\ EditLimit \in Nat
        BY LimitAssumption
    <2> QED
        BY <1>9, <2>1, BoardStarts DEF HandleAnalytics, BuildAnalytics
<1>10. CASE Read
    BY <1>10, BoardReads
<1>11. CASE Leave
    <2>1. board'.read = 0
        BY <1>11 DEF Leave, Blank
    <2> QED
        BY <2>1 DEF BoardInv
<1>12. CASE UNCHANGED vars
    BY <1>12, BoardWaits DEF vars, tables
<1>13. CASE OtherLead
    BY <1>13, BoardWaits DEF OtherLead
<1>14. CASE ServeLate
    <2>1. UNCHANGED desk /\ (UNCHANGED log \/ \E t \in Texts, ok \in BOOLEAN : LogConversation(t, ok))
        BY <1>14 DEF ServeLate
    <2> QED
        BY <2>1, BoardWaits
<1> QED
    BY <1>1, <1>2, <1>3, <1>4, <1>5, <1>6, <1>7, <1>8, <1>9, <1>10, <1>11, <1>12, <1>13, <1>14 DEF Next

\* The numbers of a dashboard agree, whatever was logged between its queries and
\* however ties were broken: for any questions, any limits of the lists and any
\* number of visitors' requests.
THEOREM DashboardCorrect == Spec => []DashboardAddsUp
<1>1. Init => BoardInv
    <2> SUFFICES ASSUME Init PROVE BoardInv
        OBVIOUS
    <2>1. board.read = 0
        BY DEF Init, InitDesk, Blank
    <2> QED
        BY <2>1 DEF BoardInv
<1>2. TypeInv /\ TypeInv' /\ BoardInv /\ [Next]_vars => BoardInv'
    BY BoardInvKept DEF TypeInv
<1>3. BoardInv => DashboardAddsUp
    BY DEF BoardInv, DashboardAddsUp, Queries
<1> QED
    BY <1>1, <1>2, <1>3, TypeInvariant, PTL DEF Spec
=============================================================================
