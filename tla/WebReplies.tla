----------------------------- MODULE WebReplies -----------------------------
(***************************************************************************)
(* How a human reply reaches a visitor of a web page.  The deliverer       *)
(* inserts a row for the visitor's session (app/deliver.go,                *)
(* store/web_replies.go); every open widget asks each five seconds for the *)
(* rows above the greatest id it has seen and appends them to its thread   *)
(* (webapi/api.go, widget/widget.js).  The timer does not wait for an      *)
(* earlier poll, so several of one page's polls may be under way, and      *)
(* their answers come in any order or not at all.                          *)
(*                                                                         *)
(* An id is drawn when an insert begins and its row is seen when it        *)
(* commits: `table' lists the rows in the order of their commits.          *)
(*                                                                         *)
(* A switch of the language empties the thread and keeps the cursor: what  *)
(* it takes off the screen is not asked for again before the page is       *)
(* loaded again.                                                           *)
(***************************************************************************)
EXTENDS Integers, Sequences, FiniteSets, Functions

CONSTANTS
    Pages,          \* widgets loaded in a browser tab, [biz, session, tab]
    Askers,         \* sessions whose questions are answered
    OwnBusiness,    \* cfg.BusinessID of the deployment
    PageLimit,      \* the LIMIT of a poll (50)
    MaxInFlight,    \* bound: polls of one page under way together
    MaxReplies,     \* bound: replies the admins send
    MaxReloads      \* bound: page reloads, of all pages

ASSUME PageLimitAssumption == PageLimit \in Nat \ {0}
ASSUME BoundsAssumption == {MaxInFlight, MaxReplies, MaxReloads} \subseteq Nat

VARIABLES
    nextId,     \* web_replies.id's sequence
    inserting,  \* rows of inserts that have not committed
    table,      \* committed rows, in commit order
    open,       \* pages whose panel is open (its timer runs)
    cursor,     \* page -> lastReplyId
    thread,     \* page -> ids of the replies on its screen
    cleared,    \* history: page -> ids a switch of the language took off it
    polls,      \* page -> slot -> poll
    reloads

vars == <<nextId, inserting, table, open, cursor, thread, cleared, polls, reloads>>

Ids == 1..MaxReplies
Rows == [id : Ids, biz : {OwnBusiness}, session : Askers]

Slots == 1..MaxInFlight
Free == [at |-> "free", since |-> 0, found |-> {}]

-----------------------------------------------------------------------------
(* The statements of WebReplies. *)

Since_AnySession(biz, session, since) ==
    LET found == {r.id : r \in {s \in Range(table) : s.biz = biz /\ s.id > since}}
    IN  {i \in found : Cardinality({j \in found : j < i}) < PageLimit}

Since_NewestFirst(biz, session, since) ==
    LET found == {r.id : r \in {s \in Range(table) : /\ s.biz = biz
                                                     /\ s.session = session
                                                     /\ s.id > since}}
    IN  {i \in found : Cardinality({j \in found : j > i}) < PageLimit}

Since_NoLimit(biz, session, since) ==
    {r.id : r \in {s \in Range(table) : /\ s.biz = biz /\ s.session = session
                                        /\ s.id > since}}

Since_Inclusive(biz, session, since) ==
    LET found == {r.id : r \in {s \in Range(table) : /\ s.biz = biz
                                                     /\ s.session = session
                                                     /\ s.id >= since}}
    IN  {i \in found : Cardinality({j \in found : j < i}) < PageLimit}

\* Only the first PageLimit ids above the cursor are returned, lowest first.
Since(biz, session, since) ==
    LET found == {r.id : r \in {s \in Range(table) : /\ s.biz = biz
                                                     /\ s.session = session
                                                     /\ s.id > since}}
    IN  {i \in found : Cardinality({j \in found : j < i}) < PageLimit}

\* The row of a reply to a question of session s: the session is the question's
\* address, the business is the deployment's, whoever was asked.
Stored(s) == [id |-> nextId, biz |-> OwnBusiness, session |-> s]

-----------------------------------------------------------------------------
Init ==
    /\ nextId = 1
    /\ inserting = {}
    /\ table = << >>
    /\ open = {}
    /\ cursor = [p \in Pages |-> 0]
    /\ thread = [p \in Pages |-> {}]
    /\ cleared = [p \in Pages |-> {}]
    /\ polls = [p \in Pages |-> [i \in Slots |-> Free]]
    /\ reloads = 0

client == <<open, cursor, thread, cleared, polls, reloads>>
server == <<nextId, inserting, table>>

\* An admin answers a question of session s: Deliver's widget case, up to the
\* insert having drawn its id.
Add(s) ==
    /\ nextId \in Ids
    /\ inserting' = inserting \union {Stored(s)}
    /\ nextId' = nextId + 1
    /\ UNCHANGED <<table, client>>

Commit(row) ==
    /\ row \in inserting
    /\ inserting' = inserting \ {row}
    /\ table' = Append(table, row)
    /\ UNCHANGED <<nextId, client>>

\* The insert fails: its id is never used again.
Rollback(row) ==
    /\ row \in inserting
    /\ inserting' = inserting \ {row}
    /\ UNCHANGED <<nextId, table, client>>

\* toggle: the panel opens or closes, its timer starts or is cleared.  The
\* answers of polls already sent are still applied.
Toggle(p) ==
    /\ open' = IF p \in open THEN open \ {p} ELSE open \union {p}
    /\ UNCHANGED <<cursor, thread, cleared, polls, reloads, server>>

\* The timer fires: poll() sends the cursor of this moment.
Poll(p) ==
    /\ p \in open
    /\ \E i \in Slots :
          /\ polls[p][i].at = "free"
          /\ \A j \in Slots : j < i => polls[p][j].at # "free"
          /\ polls' = [polls EXCEPT ![p][i] = [at |-> "sent", since |-> cursor[p],
                                               found |-> {}]]
    /\ UNCHANGED <<open, cursor, thread, cleared, reloads, server>>

\* handleReplies: the query runs for the key's business and the session.
Answer(p, i) ==
    /\ polls[p][i].at = "sent"
    /\ LET since == polls[p][i].since
       IN  polls' = [polls EXCEPT ![p][i] = [at |-> "answered", since |-> since,
                                             found |-> Since(p.biz, p.session, since)]]
    /\ UNCHANGED <<open, cursor, thread, cleared, reloads, server>>

Greatest(S) == CHOOSE n \in S : \A k \in S : k <= n

Advanced(c, found) == Greatest({c} \union found)

\* Every reply of the answer is added to the thread, and the cursor is raised.
Apply(p, i) ==
    /\ polls[p][i].at = "answered"
    /\ thread' = [thread EXCEPT ![p] = @ \union polls[p][i].found]
    /\ cleared' = [cleared EXCEPT ![p] = @ \ polls[p][i].found]
    /\ cursor' = [cursor EXCEPT ![p] = Advanced(@, polls[p][i].found)]
    /\ polls' = [polls EXCEPT ![p][i] = Free]
    /\ UNCHANGED <<open, reloads, server>>

\* The request or its answer is lost, or the server fails: nothing is shown.
PollFails(p, i) ==
    /\ polls[p][i].at # "free"
    /\ polls' = [polls EXCEPT ![p][i] = Free]
    /\ UNCHANGED <<open, cursor, thread, cleared, reloads, server>>

\* langSel.onchange: the thread is emptied and opens anew in the other language.
\* The cursor stays where it was, and the answers of polls already sent are applied.
SwitchLanguage(p) ==
    /\ p \in open
    /\ thread' = [thread EXCEPT ![p] = {}]
    /\ cleared' = [cleared EXCEPT ![p] = @ \union thread[p]]
    /\ UNCHANGED <<open, cursor, polls, reloads, server>>

\* The page is loaded again: the session is kept by the browser, the cursor
\* and the thread are not.
Reload(p) ==
    /\ reloads < MaxReloads
    /\ reloads' = reloads + 1
    /\ open' = open \ {p}
    /\ cursor' = [cursor EXCEPT ![p] = 0]
    /\ thread' = [thread EXCEPT ![p] = {}]
    /\ cleared' = [cleared EXCEPT ![p] = {}]
    /\ polls' = [polls EXCEPT ![p] = [i \in Slots |-> Free]]
    /\ UNCHANGED server

Next ==
    \/ \E s \in Askers : Add(s)
    \/ \E p \in Pages : Toggle(p) \/ Poll(p) \/ SwitchLanguage(p) \/ Reload(p)
    \/ \E row \in inserting : Commit(row) \/ Rollback(row)
    \/ \E p \in Pages, i \in Slots : Answer(p, i) \/ Apply(p, i) \/ PollFails(p, i)

Spec == Init /\ [][Next]_vars

(***************************************************************************)
(* The timer of an open panel keeps firing, the server answers, the page's *)
(* event loop runs: polls may be lost, but not every one of them.          *)
(***************************************************************************)
Fairness ==
    /\ \A p \in Pages :
          /\ WF_vars(Poll(p))
          /\ SF_vars(\E i \in Slots : Answer(p, i))
          /\ SF_vars(\E i \in Slots : Apply(p, i))

FairSpec == Spec /\ Fairness

-----------------------------------------------------------------------------
PollState == [at : {"free", "sent", "answered"}, since : 0..MaxReplies, found : SUBSET Ids]

\* Rows, cursors, threads and polls have their types; no answer is longer than a page.
TypeOK ==
    /\ nextId \in 1..(MaxReplies + 1)
    /\ inserting \subseteq Rows
    /\ table \in Seq(Rows)
    /\ open \subseteq Pages
    /\ cursor \in [Pages -> 0..MaxReplies]
    /\ thread \in [Pages -> SUBSET Ids]
    /\ cleared \in [Pages -> SUBSET Ids]
    /\ polls \in [Pages -> [Slots -> PollState]]
    /\ \A p \in Pages, i \in Slots : Cardinality(polls[p][i].found) <= PageLimit
    /\ reloads \in 0..MaxReloads

Own(p, row) == row.biz = p.biz /\ row.session = p.session

\* The n-th committed row was overtaken: a row of the same visitor with a
\* greater id had been committed before it.
Overtaken(n) ==
    \E k \in 1..(n - 1) : /\ table[k].id > table[n].id
                          /\ table[k].biz = table[n].biz
                          /\ table[k].session = table[n].session

Passed(p) == {n \in DOMAIN table : Own(p, table[n]) /\ table[n].id <= cursor[p]}

\* What the page has shown since it was loaded.
Shown(p) == thread[p] \union cleared[p]

\* A page shows the replies stored for its visitor, of its business, up to its
\* cursor: no other ones, and all of them but those that were overtaken at their
\* commit and those a switch of the language took off its screen, which it had
\* shown; with paging, lost answers, overlapping polls and reloads
\* (web_replies.go:35-42, widget.js:226-231, 286-290).
ThreadMatchesCursor ==
    \A p \in Pages :
        /\ Shown(p) \subseteq {table[n].id : n \in Passed(p)}
        /\ \A n \in Passed(p) : ~Overtaken(n) => table[n].id \in Shown(p)

\* The answer of a poll that no other answer has overtaken repeats nothing
\* the page has shown since it was loaded; nor does it bring back what a switch
\* of the language took away (widget.js:229, 288).
FreshPollsAddNothingTwice ==
    \A p \in Pages, i \in Slots :
        (polls[p][i].at = "answered" /\ polls[p][i].since = cursor[p])
            => polls[p][i].found \intersect Shown(p) = {}

\* A reply stored for a page's visitor is put on that page's screen, however polls
\* are lost, late or overlapping, if the panel stays open and the reply was not
\* overtaken at its commit.  It stays there until the language is switched.
EveryReplyShown ==
    \A p \in Pages, id \in Ids :
        (\E n \in DOMAIN table : table[n].id = id /\ Own(p, table[n]) /\ ~Overtaken(n))
            ~> (id \in Shown(p) \/ p \notin open)
=============================================================================
