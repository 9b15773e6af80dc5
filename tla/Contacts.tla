------------------------------ MODULE Contacts ------------------------------
(***************************************************************************)
(* What the server keeps of one visitor of a web page, and what the admins *)
(* see of it: the contact the visitor left (store/leads.go), the log of    *)
(* the questions asked (conversations), and the dashboard of the editor    *)
(* page and the admin API (store/analytics.go).  The dashboard is put      *)
(* together from five queries, each with a snapshot of its own, while      *)
(* questions are logged, retention deletes old ones and rows grow older    *)
(* than the window the queries look at.                                    *)
(*                                                                         *)
(* Abstracted: a contact is the set of fields filled in (the name is never *)
(* sent by the widget); of the other visitors' contacts their number is    *)
(* kept; hours and weekdays are summed.  The module has the tables and the *)
(* admins; Widget adds the visitor's page.                                 *)
(***************************************************************************)
EXTENDS Integers, Sequences, FiniteSets, FiniteSetsExt

CONSTANTS
    Texts,          \* the questions visitors ask
    ApiLimit,       \* rows of a list of questions in the API (10)
    EditLimit,      \* and in the editor page (8)
    ProfileLimit,   \* contacts in the editor page's CRM view (100)
    HistoryLimit,   \* questions in the API's profile of a contact (200)
    MaxNewer        \* bound: contacts of other visitors newer than this one's

Field == {"email", "phone"}
Contact == (SUBSET Field) \ {{}}

ASSUME LimitAssumption ==
    /\ {ApiLimit, EditLimit, ProfileLimit, HistoryLimit} \subseteq Nat \ {0}
    /\ MaxNewer \in Nat
    /\ IsFiniteSet(Texts)

VARIABLES
    lead,       \* the filled fields of the session's row in leads, {}: no row
    deleted,    \* history: an admin deleted the row
    newer,      \* the number of other sessions' rows made after it
    log,        \* the rows of conversations, oldest first
    board,      \* the dashboard being put together
    shrunk      \* history: rows went away since its first query

tables == <<lead, deleted, newer, log>>
desk == <<board, shrunk>>

Row(t, ok) == [question |-> t, answered |-> ok]

Queries == 5     \* of a dashboard

\* No dashboard: nothing is read yet.
Blank == [read |-> 0, limit |-> 0, total |-> 0, unanswered |-> 0, top |-> {}, gaps |-> {},
          hours |-> 0, days |-> 0]

InitTables == lead = {} /\ deleted = FALSE /\ newer = 0 /\ log = << >>
InitDesk == board = Blank /\ shrunk = FALSE

-----------------------------------------------------------------------------
(* The statements of Leads and of the conversation log. *)

Upsert_Overwrites(c) == lead' = c

\* Blank fields do not overwrite what is there.
Upsert(c) == lead' = lead \union c

LogConversation(t, ok) == log' = Append(log, Row(t, ok))

\* The row is dropped, the questions stay.  A row made later is the newest.
Delete == lead' = {} /\ newer' = 0

HandleLeadDelete ==
    /\ Delete
    /\ deleted' = (deleted \/ lead # {})
    /\ UNCHANGED <<log, desk>>

\* Another visitor leaves a contact, or an admin deletes one that is newer.
OtherLead ==
    /\ lead # {}
    /\ \/ newer < MaxNewer /\ newer' = newer + 1
       \/ newer > 0 /\ newer' = newer - 1
    /\ UNCHANGED <<lead, deleted, log, desk>>

\* Retention deletes the oldest n rows; to the queries of a dashboard it is
\* the same when they grow older than its window.
PurgeOlderThan(n) ==
    /\ n \in DOMAIN log
    /\ log' = SubSeq(log, n + 1, Len(log))
    /\ shrunk' = (board.read > 0)
    /\ UNCHANGED <<lead, deleted, newer, board>>

\* The CRM view's profile of this session: its contact, if it is among the
\* ProfileLimit newest, with the rows its session asked, in one query.
ProfilesList ==
    {[contact |-> c, messages |-> DOMAIN log] :
        c \in {x \in {lead} : x # {} /\ newer < ProfileLimit}}

\* The API's profile of one session: its contact with the newest rows, found
\* however many newer contacts there are.
Profile ==
    {[contact |-> c, messages |-> {n \in DOMAIN log : Len(log) - n < HistoryLimit}] :
        c \in {x \in {lead} : x # {}}}

-----------------------------------------------------------------------------
(* The statements of Analytics. *)

Unanswered == {n \in DOMAIN log : ~log[n].answered}
Of(t) == {n \in DOMAIN log : log[n].question = t}

AnswerRate == [total |-> Len(log), unanswered |-> Cardinality(Unanswered)]

Grouped(rows) ==
    {[question |-> t, count |-> Cardinality(Of(t) \intersect rows),
      unanswered |-> Cardinality(Of(t) \intersect rows \intersect Unanswered)] :
        t \in {s \in Texts : Of(s) \intersect rows # {}}}

\* a comes before b in the order of the statement, or ties with it.
Before(a, b) ==
    a.count > b.count \/ (a.count = b.count /\ a.unanswered >= b.unanswered)

TopQuestions_Fewest(onlyUnanswered) ==
    LET all == Grouped(IF onlyUnanswered THEN Unanswered ELSE DOMAIN log)
    IN  {S \in SUBSET all :
            /\ Cardinality(S) = Min({board.limit, Cardinality(all)})
            /\ \A a \in S, b \in all \ S : Before(b, a)}

\* The answers the statement may give: ties are broken by the database.
TopQuestions(onlyUnanswered) ==
    LET all == Grouped(IF onlyUnanswered THEN Unanswered ELSE DOMAIN log)
    IN  {S \in SUBSET all :
            /\ Cardinality(S) = Min({board.limit, Cardinality(all)})
            /\ \A a \in S, b \in all \ S : Before(a, b)}

\* Every row is in one bucket of the hours and in one of the weekdays.
Busy == Len(log)

-----------------------------------------------------------------------------
Start(limit) ==
    /\ board.read = 0
    /\ board' = [Blank EXCEPT !.read = 1, !.limit = limit, !.total = AnswerRate.total,
                              !.unanswered = AnswerRate.unanswered]
    /\ UNCHANGED <<tables, shrunk>>

\* The dashboard of the admin API and that of the editor page begin with the
\* same query and go on with the same ones.
HandleAnalytics == Start(ApiLimit)
BuildAnalytics == Start(EditLimit)

Keep(b) == board' = [b EXCEPT !.read = @ + 1]

\* The next query of a dashboard.
Read ==
    /\ \/ board.read = 1 /\ \E S \in TopQuestions(FALSE) : Keep([board EXCEPT !.top = S])
       \/ board.read = 2 /\ \E S \in TopQuestions(TRUE) : Keep([board EXCEPT !.gaps = S])
       \/ board.read = 3 /\ Keep([board EXCEPT !.hours = Busy])
       \/ board.read = 4 /\ Keep([board EXCEPT !.days = Busy])
    /\ UNCHANGED <<tables, shrunk>>

\* A query failed, or the page is shown and left.
Leave ==
    /\ board.read > 0
    /\ board' = Blank /\ shrunk' = FALSE
    /\ UNCHANGED tables

-----------------------------------------------------------------------------
Listed == [question : Texts, count : Nat, unanswered : Nat]

Board ==
    [read : 0..Queries, limit : {0, ApiLimit, EditLimit}, total : Nat, unanswered : Nat,
     top : SUBSET Listed, gaps : SUBSET Listed, hours : Nat, days : Nat]

TablesOK ==
    /\ lead \subseteq Field /\ deleted \in BOOLEAN /\ newer \in 0..MaxNewer
    /\ log \in Seq([question : Texts, answered : BOOLEAN])
    /\ board \in Board
    /\ shrunk \in BOOLEAN

\* What a list counts in all: each entry stands for as many rows as it counts.
Counted(S) == Cardinality(UNION {{e} \X (1..e.count) : e \in S})

\* A list counts no less than its share of the total: all of it when the list is
\* not cut, and the average question's for each entry when it is.
Covers(S, total) ==
    /\ Cardinality(S) < board.limit => Counted(S) >= total
    /\ Counted(S) * Cardinality(Texts) >= total * Cardinality(S)

\* The numbers of a dashboard agree although each query saw another snapshot:
\* unless rows went away meanwhile, the most asked questions and the gaps cover
\* the totals read before them, a question has at least the gaps its entry among
\* the most asked shows, and the hours and the weekdays count at least the total
\* (admin.go:237-257, editor.go:253-272).
DashboardAddsUp ==
    board.read = Queries /\ ~shrunk =>
        /\ Covers(board.top, board.total)
        /\ Covers(board.gaps, board.unanswered)
        /\ \A t \in board.top, g \in board.gaps :
              t.question = g.question => g.count >= t.unanswered
        /\ board.total <= board.hours /\ board.hours <= board.days
=============================================================================
