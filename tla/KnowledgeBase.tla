--------------------------- MODULE KnowledgeBase ---------------------------
(***************************************************************************)
(* The FAQ table (internal/store/faqs.go) and everyone who writes it: the  *)
(* forms of the edit page and the admin API, which embed a question and    *)
(* then write its row, and cmd/loadfaqs, which deletes the languages of a  *)
(* file and adds its FAQs one by one, retrying the failures it takes for   *)
(* transient.  And what is read of it: the search and the menus.           *)
(*                                                                         *)
(* Abstracted: an embedding is the question it was made from; a text is a  *)
(* string, "" the blank one; delays.  The languages of one entry are added *)
(* in a fixed order, which no reader can tell: each asks for one language. *)
(* Names ending in _<Fault> are faulty variants.                           *)
(***************************************************************************)
EXTENDS Naturals, Sequences, FiniteSets, SequencesExt

CONSTANTS
  Editors,     \* posts to the edit page and the admin API, each made once
  Biz,
  LoadBiz,     \* the business of cmd/loadfaqs, cfg.BusinessID
  Lang,
  LangFlag,    \* its -lang
  Edits,       \* what an editor may write: [q, a, cat, lang]
  Files,       \* the files loadfaqs may be given: sequences of entries
  Prior,       \* the rows there are to begin with
  Attempts,    \* its -retries
  MaxId,       \* bound on the rows ever made
  MaxLost      \* bound on the inserts whose reply is lost

ASSUME KnowledgeBaseAssumption ==
  /\ LoadBiz \in Biz /\ LangFlag \in Lang
  /\ \A e \in Edits : e.lang \in Lang /\ e.q # "" /\ e.a # ""
  /\ IsFiniteSet(Prior) /\ Cardinality(Prior) <= MaxId
  /\ \A r \in Prior : /\ r.id \in 1 .. Cardinality(Prior) /\ r.emb = r.q
                      /\ r.biz \in Biz /\ r.lang \in Lang
  /\ \A r, s \in Prior : r.id = s.id => r = s
  /\ Attempts \in Nat \ {0} /\ MaxId \in Nat /\ MaxLost \in Nat

VARIABLES
  rows,     \* the faqs table
  nextId,
  op,       \* the editors' requests between the embedding and the write
  loader,   \* cmd/loadfaqs
  edited,   \* history: did an editor write to LoadBiz since the load began?
  lost      \* history: inserts that were made but reported as failed

vars == <<rows, nextId, op, loader, edited, lost>>

Idle == [kind |-> "idle"]
Done == [kind |-> "done"]
NoLoad == [pc |-> "idle"]

Init == /\ rows = Prior
        /\ nextId = Cardinality(Prior) + 1
        /\ op = [e \in Editors |-> Idle]
        /\ loader = NoLoad
        /\ edited = FALSE
        /\ lost = 0

-----------------------------------------------------------------------------
(* What is read. *)

\* ORDER BY a key that differs for different members: the n-th has n - 1 before it.
Ordered(S, key(_)) ==
  [n \in 1 .. Cardinality(S) |->
     CHOOSE s \in S : Cardinality({r \in S : key(r) < key(s)}) = n - 1]

SortedById(s) == Ordered(s, LAMBDA r : r.id)

\* The rows of a business and language a question scores best with.
Search(b, l, q) == {r \in rows : r.biz = b /\ r.lang = l /\ r.emb = q}

Select(b, l) == {r \in rows : r.biz = b /\ r.lang = l}

MinId(s) == Min({r.id : r \in s})

InCategory(b, c, l) == {r \in Select(b, l) : r.cat = c}

Categories(b, l) ==
  Ordered({r.cat : r \in Select(b, l)} \ {""}, LAMBDA c : MinId(InCategory(b, c, l)))

ListByCategory(b, c, l) == SortedById(InCategory(b, c, l))

-----------------------------------------------------------------------------
(* The statements that write the table. *)

Row(id, b, x, emb) == [id |-> id, biz |-> b, lang |-> x.lang, q |-> x.q, a |-> x.a,
                       cat |-> x.cat, emb |-> emb]

Insert(b, x, emb) == /\ nextId <= MaxId
                     /\ rows' = rows \cup {Row(nextId, b, x, emb)}
                     /\ nextId' = nextId + 1

\* The embedding left as it was.
UpdateRow_OldEmbedding(b, id, x, emb) ==
  rows' = {IF r.biz = b /\ r.id = id THEN Row(id, b, x, r.emb) ELSE r : r \in rows}

\* An UPDATE that finds no row succeeds.
UpdateRow(b, id, x, emb) ==
  rows' = {IF r.biz = b /\ r.id = id THEN Row(id, b, x, emb) ELSE r : r \in rows}

\* By id alone.
DeleteRow_AnyBusiness(b, id) == rows' = {r \in rows : r.id # id}

DeleteRow(b, id) == rows' = {r \in rows : ~(r.biz = b /\ r.id = id)}

-----------------------------------------------------------------------------
(* The edit page and the admin API. *)

\* Create and Update up to the embedding; if that fails nothing is written.
BeginCreate(e) ==
  /\ op[e] = Idle
  /\ \E b \in Biz, x \in Edits :
       op' = [op EXCEPT ![e] = [kind |-> "create", biz |-> b, row |-> x, emb |-> x.q]]
  /\ UNCHANGED <<rows, nextId, loader, edited, lost>>

BeginUpdate(e) ==
  /\ op[e] = Idle
  /\ \E b \in Biz, id \in 1 .. nextId - 1, x \in Edits :
       op' = [op EXCEPT ![e] = [kind |-> "update", biz |-> b, id |-> id, row |-> x,
                                emb |-> x.q]]
  /\ UNCHANGED <<rows, nextId, loader, edited, lost>>

Touched(b) == edited' = (edited \/ b = LoadBiz)

EndCreate(e) ==
  /\ op[e].kind = "create"
  /\ \/ Insert(op[e].biz, op[e].row, op[e].emb) /\ Touched(op[e].biz)
     \/ UNCHANGED <<rows, nextId, edited>>
  /\ op' = [op EXCEPT ![e] = Done]
  /\ UNCHANGED <<loader, lost>>

EndUpdate(e) ==
  /\ op[e].kind = "update"
  /\ \/ UpdateRow(op[e].biz, op[e].id, op[e].row, op[e].emb) /\ Touched(op[e].biz)
     \/ UNCHANGED <<rows, edited>>
  /\ op' = [op EXCEPT ![e] = Done]
  /\ UNCHANGED <<nextId, loader, lost>>

BeginDelete(e) ==
  /\ op[e] = Idle
  /\ \E b \in Biz, id \in 1 .. nextId - 1 :
       op' = [op EXCEPT ![e] = [kind |-> "delete", biz |-> b, id |-> id]]
  /\ UNCHANGED <<rows, nextId, loader, edited, lost>>

EndDelete(e) ==
  /\ op[e].kind = "delete"
  /\ \/ DeleteRow(op[e].biz, op[e].id) /\ Touched(op[e].biz)
     \/ UNCHANGED <<rows, edited>>
  /\ op' = [op EXCEPT ![e] = Done]
  /\ UNCHANGED <<nextId, loader, lost>>

-----------------------------------------------------------------------------
(* cmd/loadfaqs.  A field of an entry is one text, or one for each of some *)
(* languages.                                                              *)

FlexText(t) == /\ t.multi \in BOOLEAN /\ t.single \in STRING /\ DOMAIN t.byLang \subseteq Lang
               /\ \A l \in DOMAIN t.byLang : t.byLang[l] \in STRING

RawFaq(r) == FlexText(r.cat) /\ FlexText(r.q) /\ FlexText(r.a) /\ r.lang \in Lang \cup {""}

ASSUME FilesAssumption ==
  /\ IsFiniteSet(Lang)
  /\ \A f \in Files : f \in Seq(Range(f)) /\ \A i \in DOMAIN f : RawFaq(f[i])

Get(t, l) == IF ~t.multi THEN t.single ELSE IF l \in DOMAIN t.byLang THEN t.byLang[l] ELSE ""

Languages(t) == IF t.multi THEN DOMAIN t.byLang ELSE {}

\* The FAQs of one entry.  Only a question or an answer names languages.
ExpandEntry(r) ==
  LET faq(l) == [cat |-> Get(r.cat, l), q |-> Get(r.q, l), a |-> Get(r.a, l), lang |-> l]
      full == {l \in Languages(r.q) \cup Languages(r.a) : Get(r.q, l) # "" /\ Get(r.a, l) # ""}
  IN IF ~r.q.multi /\ ~r.a.multi /\ ~r.cat.multi
     THEN <<faq(IF r.lang = "" THEN LangFlag ELSE r.lang)>>
     ELSE LET langs == SetToSeq(full) IN [i \in DOMAIN langs |-> faq(langs[i])]

Expand(raws) == FlattenSeq([i \in DOMAIN raws |-> ExpandEntry(raws[i])])

\* Every language the table has; that of -lang.
ResetLangs_Flag(faqs) == {LangFlag}

Blank(x) == x.q = "" \/ x.a = ""

\* The languages -reset clears; an FAQ that is skipped for a blank counts.
ResetLangs(faqs) == {faqs[i].lang : i \in DOMAIN faqs}

\* The file is read, and expanded.
StartLoad ==
  /\ loader.pc = "idle"
  /\ \E f \in Files, reset \in BOOLEAN :
       loader' = [pc |-> "load", file |-> f, reset |-> reset, attempt |-> 1, at |-> 1,
                  clear |-> IF reset THEN ResetLangs(Expand(f)) ELSE {}]
  /\ edited' = FALSE
  /\ UNCHANGED <<rows, nextId, op, lost>>

\* -reset, one language at a time.
Reset ==
  /\ loader.pc = "load"
  /\ \E l \in loader.clear :
       /\ rows' = {r \in rows : ~(r.biz = LoadBiz /\ r.lang = l)}
       /\ loader' = [loader EXCEPT !.clear = @ \ {l}]
  /\ UNCHANGED <<nextId, op, edited, lost>>

Loading == /\ loader.pc = "load" /\ loader.clear = {}
           /\ loader.at <= Len(Expand(loader.file))

\* The FAQ the loop is at.
Current == Expand(loader.file)[loader.at]

Skip ==
  /\ Loading /\ Blank(Current)
  /\ loader' = [loader EXCEPT !.at = @ + 1]
  /\ UNCHANGED <<rows, nextId, op, edited, lost>>

\* createWithRetry: one call of Create that succeeds.
LoadOne ==
  /\ Loading /\ ~Blank(Current)
  /\ Insert(LoadBiz, Current, Current.q)
  /\ loader' = [loader EXCEPT !.at = @ + 1, !.attempt = 1]
  /\ UNCHANGED <<op, edited, lost>>

\* The FAQ skipped; one attempt too many.
Retry_Skips == loader' = [loader EXCEPT !.at = @ + 1]
Retry_OneMore == IF loader.attempt <= Attempts
                 THEN loader' = [loader EXCEPT !.attempt = @ + 1]
                 ELSE loader' = [loader EXCEPT !.pc = "failed"]

Retry == IF loader.attempt < Attempts
         THEN loader' = [loader EXCEPT !.attempt = @ + 1]
         ELSE loader' = [loader EXCEPT !.pc = "failed"]

\* The call fails, transiently (isTransient) or for good: the embedding, or the
\* insert, which may have been made when its reply was lost.
LoadFails ==
  /\ Loading /\ ~Blank(Current)
  /\ \/ Retry /\ UNCHANGED <<rows, nextId, lost>>
     \/ loader' = [loader EXCEPT !.pc = "failed"] /\ UNCHANGED <<rows, nextId, lost>>
     \/ /\ lost < MaxLost
        /\ Insert(LoadBiz, Current, Current.q)
        /\ lost' = lost + 1
        /\ Retry
  /\ UNCHANGED <<op, edited>>

\* The run is interrupted, or a delete fails.
Abort ==
  /\ loader.pc = "load"
  /\ loader' = [loader EXCEPT !.pc = "failed"]
  /\ UNCHANGED <<rows, nextId, op, edited, lost>>

FinishLoad ==
  /\ loader.pc = "load" /\ loader.clear = {} /\ loader.at > Len(Expand(loader.file))
  /\ loader' = [loader EXCEPT !.pc = "done"]
  /\ UNCHANGED <<rows, nextId, op, edited, lost>>

\* The operator runs it again.
Again ==
  /\ loader.pc \in {"done", "failed"}
  /\ loader' = NoLoad
  /\ UNCHANGED <<rows, nextId, op, edited, lost>>

Load == \/ StartLoad \/ Reset \/ Skip \/ LoadOne \/ LoadFails \/ Abort \/ FinishLoad \/ Again

Edit(e) == \/ BeginCreate(e) \/ EndCreate(e)
           \/ BeginUpdate(e) \/ EndUpdate(e)
           \/ BeginDelete(e) \/ EndDelete(e)

Next == Load \/ \E e \in Editors : Edit(e)

Spec == Init /\ [][Next]_vars

-----------------------------------------------------------------------------
LoadState == [pc : {"load", "done", "failed"}, file : Files, reset : BOOLEAN,
              attempt : 1 .. Attempts, at : Nat, clear : SUBSET Lang]

OpState == {Idle, Done}
           \cup [kind : {"create"}, biz : Biz, row : Edits, emb : {x.q : x \in Edits}]
           \cup [kind : {"update"}, biz : Biz, id : Nat, row : Edits,
                 emb : {x.q : x \in Edits}]
           \cup [kind : {"delete"}, biz : Biz, id : Nat]

\* Ids are unique and below nextId; a request or a load holds what its kind needs.
TypeOK == /\ \A r \in rows : /\ r.id \in 1 .. nextId - 1
                             /\ r.biz \in Biz /\ r.lang \in Lang
          /\ \A r, s \in rows : r.id = s.id => r = s
          /\ nextId \in 1 .. MaxId + 1
          /\ op \in [Editors -> OpState]
          /\ \/ loader = NoLoad
             \/ loader \in LoadState /\ loader.at \in 1 .. Len(Expand(loader.file)) + 1
          /\ edited \in BOOLEAN
          /\ lost \in 0 .. MaxLost

\* However creates, updates and loads overlap, each between its embedding and
\* its write, the search finds a question by its own embedding: its row and no
\* row of another question, and never one whose question was edited away
\* (Create and Update write the text and the embedding in one statement).
SearchFindsItsOwn ==
  \A b \in Biz, l \in Lang : \A r \in Select(b, l) :
    /\ r \in Search(b, l, r.q)
    /\ \A s \in Search(b, l, r.q) : s.q = r.q

FileLangs(f) == {Expand(f)[i].lang : i \in DOMAIN Expand(f)}

\* The places of the FAQs that are not skipped; those of a language; and those of
\* a category in it.
Wanted(f) == {i \in DOMAIN Expand(f) : ~Blank(Expand(f)[i])}
WantedIn(f, l) == {i \in Wanted(f) : Expand(f)[i].lang = l}
Places(f, c, l) == {i \in WantedIn(f, l) : Expand(f)[i].cat = c}

\* The menu has the FAQs at those places, all of them and in their order, each once
\* or several times in a row.
Repeats(menu, faqs, places) ==
  \E at \in [DOMAIN menu -> places] :
     /\ Range(at) = places
     /\ \A n, k \in DOMAIN menu : n < k => at[n] <= at[k]
     /\ \A n \in DOMAIN menu : menu[n].q = faqs[at[n]].q /\ menu[n].a = faqs[at[n]].a

\* After a load with -reset that nobody edited over, the menus of each language
\* of the file are the file's: its categories in its order, and in each the
\* questions with their answers in its order, whatever failed and was retried on
\* the way (Categories: "the order the knowledge base was authored in").
MenusAsAuthored ==
  loader.pc = "done" /\ loader.reset /\ ~edited =>
    LET f == loader.file
        faqs == Expand(f)
    IN \A l \in FileLangs(f) :
         LET cats == {faqs[i].cat : i \in WantedIn(f, l)} \ {""}
         IN /\ Categories(LoadBiz, l) = Ordered(cats, LAMBDA c : Min(Places(f, c, l)))
            /\ \A c \in cats : Repeats(ListByCategory(LoadBiz, c, l), faqs, Places(f, c, l))

\* After such a load an FAQ is in the table twice only if the file has it twice
\* or an insert was made whose reply was lost, once for each (createWithRetry).
DuplicatesOnlyFromLostReplies ==
  loader.pc = "done" /\ loader.reset /\ ~edited =>
    Cardinality({r \in rows : r.biz = LoadBiz /\ r.lang \in FileLangs(loader.file)})
      <= Cardinality(Wanted(loader.file)) + lost

RowsOf(b) == {r \in rows : r.biz = b}

\* A business's FAQs change only by a request of one of its own editors, or by
\* the load for it, also when another's request names the id of one of them
\* (Delete: "a business can only delete its own FAQs").
TenantIsolation ==
  [][\A b \in Biz :
       \/ RowsOf(b)' = RowsOf(b)
       \/ b = LoadBiz /\ loader.pc = "load"
       \/ \E e \in Editors : op[e].kind \notin {"idle", "done"} /\ op[e].biz = b /\ op'[e] = Done]_vars
=============================================================================
