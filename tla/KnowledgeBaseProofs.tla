------------------------ MODULE KnowledgeBaseProofs ------------------------
(***************************************************************************)
(* For every set of businesses, languages, editors and files: the types,   *)
(* what the search finds, who may change a business's FAQs, how often a    *)
(* finished load leaves an FAQ, and in which categories and order.         *)
(***************************************************************************)
EXTENDS KnowledgeBase, FiniteSetTheorems, WellFoundedInduction, TLAPS

(* What a request carries from its embedding to its write is the embedding *)
(* of the question it writes.                                              *)
EmbeddingsMatch == /\ \A r \in rows : r.emb = r.q
                   /\ \A e \in Editors : op[e].kind \in {"create", "update"} => op[e].emb = op[e].row.q
                   /\ DOMAIN op = Editors

LEMMA InitEmbeddings == Init => EmbeddingsMatch
<1> SUFFICES ASSUME Init PROVE EmbeddingsMatch
  OBVIOUS
<1>1. \A r \in rows : r.emb = r.q
  BY KnowledgeBaseAssumption, Zenon DEF Init
<1>2. \A e \in Editors : op[e].kind = "idle"
  BY DEF Init, Idle
<1> QED BY <1>1, <1>2 DEF EmbeddingsMatch, Init

LEMMA InsertEmbeds ==
  ASSUME NEW b, NEW x, Insert(b, x, x.q), \A r \in rows : r.emb = r.q
  PROVE  \A r \in rows' : r.emb = r.q
<1>1. ASSUME NEW r \in rows' PROVE r.emb = r.q
  <2>1. r \in rows \/ r = Row(nextId, b, x, x.q)
    BY DEF Insert
  <2>2. Row(nextId, b, x, x.q).emb = Row(nextId, b, x, x.q).q
    BY DEF Row
  <2> QED BY <2>1, <2>2
<1> QED BY <1>1

(* An insert or an update for one business leaves the rows of the others. *)
LEMMA InsertIsolates ==
  ASSUME NEW b, NEW c, b # c, NEW x, NEW emb, Insert(c, x, emb)
  PROVE  RowsOf(b)' = RowsOf(b)
<1>1. Row(nextId, c, x, emb).biz # b
  BY DEF Row
<1> QED BY <1>1 DEF Insert, RowsOf

LEMMA UpdateIsolates ==
  ASSUME NEW b, NEW c, b # c, NEW id, NEW x, NEW emb, UpdateRow(c, id, x, emb)
  PROVE  RowsOf(b)' = RowsOf(b)
<1>1. Row(id, c, x, emb).biz # b
  BY DEF Row
<1>2. ASSUME NEW r \in RowsOf(b)' PROVE r \in RowsOf(b)
  <2>1. PICK s \in rows : r = IF s.biz = c /\ s.id = id THEN Row(id, c, x, emb) ELSE s
    BY <1>2 DEF RowsOf, UpdateRow
  <2>2. r.biz = b
    BY <1>2 DEF RowsOf
  <2>3. r = s
    BY <1>1, <2>1, <2>2
  <2> QED BY <2>2, <2>3 DEF RowsOf
<1>3. ASSUME NEW r \in RowsOf(b) PROVE r \in RowsOf(b)'
  <2>1. r \in rows /\ r.biz = b
    BY <1>3 DEF RowsOf
  <2>2. r \in rows'
    BY <2>1 DEF UpdateRow
  <2> QED BY <2>1, <2>2 DEF RowsOf
<1> QED BY <1>2, <1>3

LEMMA OpKept ==
  ASSUME EmbeddingsMatch, NEW e \in Editors, NEW v, op' = [op EXCEPT ![e] = v],
         v.kind \in {"create", "update"} => v.emb = v.row.q
  PROVE  /\ \A d \in Editors : op'[d].kind \in {"create", "update"} => op'[d].emb = op'[d].row.q
         /\ DOMAIN op' = Editors
<1>1. ASSUME NEW d \in Editors
      PROVE  op'[d].kind \in {"create", "update"} => op'[d].emb = op'[d].row.q
  <2>1. CASE d = e
    <3>1. op'[d] = v
      BY <2>1 DEF EmbeddingsMatch
    <3> QED BY <3>1
  <2>2. CASE d # e
    <3>1. op'[d] = op[d]
      BY <2>2 DEF EmbeddingsMatch
    <3> QED BY <3>1 DEF EmbeddingsMatch
  <2> QED BY <2>1, <2>2
<1> QED BY <1>1 DEF EmbeddingsMatch

LEMMA StepEmbeddings == EmbeddingsMatch /\ [Next]_vars => EmbeddingsMatch'
<1> SUFFICES ASSUME EmbeddingsMatch, [Next]_vars PROVE EmbeddingsMatch'
  OBVIOUS
<1>0. ASSUME UNCHANGED op, \A r \in rows' : r.emb = r.q PROVE EmbeddingsMatch'
  BY <1>0 DEF EmbeddingsMatch
<1>1. CASE Load
  <2>1. \A r \in rows : r.emb = r.q
    BY DEF EmbeddingsMatch
  <2>2. CASE StartLoad
    BY <2>1, <2>2, <1>0 DEF StartLoad
  <2>3. CASE Reset
    BY <2>1, <2>3, <1>0 DEF Reset
  <2>4. CASE LoadOne
    BY <2>1, <2>4, <1>0, InsertEmbeds DEF LoadOne
  <2>5. CASE LoadFails
    BY <2>1, <2>5, <1>0, InsertEmbeds DEF LoadFails
  <2>6. CASE Skip \/ Abort \/ FinishLoad \/ Again
    BY <2>1, <2>6, <1>0 DEF Skip, Abort, FinishLoad, Again
  <2> QED BY <1>1, <2>2, <2>3, <2>4, <2>5, <2>6 DEF Load
<1>2. ASSUME NEW e \in Editors, Edit(e) PROVE EmbeddingsMatch'
  <2>1. CASE BeginCreate(e)
    <3>1. PICK b \in Biz, x \in Edits :
            op' = [op EXCEPT ![e] = [kind |-> "create", biz |-> b, row |-> x, emb |-> x.q]]
      BY <2>1 DEF BeginCreate
    <3> DEFINE v == [kind |-> "create", biz |-> b, row |-> x, emb |-> x.q]
    <3>2. v.emb = v.row.q /\ op' = [op EXCEPT ![e] = v]
      BY <3>1
    <3> HIDE DEF v
    <3>3. rows' = rows
      BY <2>1 DEF BeginCreate
    <3> QED BY <3>2, <3>3, OpKept DEF EmbeddingsMatch
  <2>2. CASE BeginUpdate(e)
    <3>1. PICK b \in Biz, id \in 1 .. nextId - 1, x \in Edits :
            op' = [op EXCEPT ![e] = [kind |-> "update", biz |-> b, id |-> id, row |-> x,
                                     emb |-> x.q]]
      BY <2>2 DEF BeginUpdate
    <3> DEFINE v == [kind |-> "update", biz |-> b, id |-> id, row |-> x, emb |-> x.q]
    <3>2. v.emb = v.row.q /\ op' = [op EXCEPT ![e] = v]
      BY <3>1
    <3> HIDE DEF v
    <3>3. rows' = rows
      BY <2>2 DEF BeginUpdate
    <3> QED BY <3>2, <3>3, OpKept DEF EmbeddingsMatch
  <2>3. CASE BeginDelete(e)
    <3>1. PICK b \in Biz, id \in 1 .. nextId - 1 :
            op' = [op EXCEPT ![e] = [kind |-> "delete", biz |-> b, id |-> id]]
      BY <2>3 DEF BeginDelete
    <3> DEFINE v == [kind |-> "delete", biz |-> b, id |-> id]
    <3>2. v.kind = "delete" /\ op' = [op EXCEPT ![e] = v]
      BY <3>1
    <3> HIDE DEF v
    <3>3. rows' = rows
      BY <2>3 DEF BeginDelete
    <3> QED BY <3>2, <3>3, OpKept DEF EmbeddingsMatch
  <2>4. CASE EndCreate(e)
    <3>1. op[e].emb = op[e].row.q
      BY <2>4 DEF EndCreate, EmbeddingsMatch
    <3>2. \A r \in rows' : r.emb = r.q
      BY <2>4, <3>1, InsertEmbeds DEF EndCreate, EmbeddingsMatch
    <3> QED BY <2>4, <3>2, OpKept DEF EndCreate, EmbeddingsMatch, Done
  <2>5. CASE EndUpdate(e)
    <3>1. op[e].emb = op[e].row.q
      BY <2>5 DEF EndUpdate, EmbeddingsMatch
    <3>2. \A r \in rows' : r.emb = r.q
      <4>1. CASE UpdateRow(op[e].biz, op[e].id, op[e].row, op[e].emb)
        <5>1. ASSUME NEW r \in rows' PROVE r.emb = r.q
          <6>1. r \in rows \/ r = Row(op[e].id, op[e].biz, op[e].row, op[e].emb)
            BY <4>1 DEF UpdateRow
          <6> DEFINE new == Row(op[e].id, op[e].biz, op[e].row, op[e].emb)
          <6>2. new.emb = op[e].emb /\ new.q = op[e].row.q
            BY DEF Row
          <6> HIDE DEF new
          <6>3. CASE r \in rows
            BY <6>3 DEF EmbeddingsMatch
          <6>4. CASE r = new
            BY <3>1, <6>2, <6>4
          <6> QED BY <6>1, <6>3, <6>4 DEF new
        <5> QED BY <5>1
      <4>2. CASE rows' = rows
        BY <4>2 DEF EmbeddingsMatch
      <4> QED BY <2>5, <4>1, <4>2 DEF EndUpdate
    <3> QED BY <2>5, <3>2, OpKept DEF EndUpdate, EmbeddingsMatch, Done
  <2>6. CASE EndDelete(e)
    <3>1. \A r \in rows' : r.emb = r.q
      BY <2>6 DEF EndDelete, DeleteRow, EmbeddingsMatch
    <3> QED BY <2>6, <3>1, OpKept DEF EndDelete, EmbeddingsMatch, Done
  <2> QED BY <1>2, <2>1, <2>2, <2>3, <2>4, <2>5, <2>6 DEF Edit
<1>3. CASE UNCHANGED vars
  BY <1>3 DEF vars, EmbeddingsMatch
<1> QED BY <1>1, <1>2, <1>3 DEF Next

(* The search finds a question's row and no row of another question, however *)
(* requests overlap between their embeddings and their writes (Create,       *)
(* Update).                                                                  *)
THEOREM SearchCorrect == Spec => []SearchFindsItsOwn
<1>1. EmbeddingsMatch => SearchFindsItsOwn
  BY DEF EmbeddingsMatch, SearchFindsItsOwn, Search, Select
<1> QED BY <1>1, InitEmbeddings, StepEmbeddings, PTL DEF Spec

(* A business's FAQs change only by its own editors' requests or its own load *)
(* (the business_id filter of Update and Delete).                             *)
THEOREM IsolationCorrect == Spec => TenantIsolation
<1> DEFINE Own(b) == \/ RowsOf(b)' = RowsOf(b)
                     \/ b = LoadBiz /\ loader.pc = "load"
                     \/ \E e \in Editors : op[e].kind \notin {"idle", "done"} /\ op[e].biz = b /\ op'[e] = Done
<1>1. EmbeddingsMatch /\ [Next]_vars => [\A b \in Biz : Own(b)]_vars
  <2> SUFFICES ASSUME EmbeddingsMatch, Next, NEW b \in Biz PROVE Own(b)
    BY DEF RowsOf, vars
  <2>1. CASE Load
    <3>1. CASE b = LoadBiz
      BY <2>1, <3>1 DEF Load, StartLoad, Reset, Skip, LoadOne, LoadFails, Loading, Abort,
                        FinishLoad, Again, RowsOf
    <3>2. CASE b # LoadBiz
      <4>1. CASE StartLoad \/ Skip \/ Abort \/ FinishLoad \/ Again
        BY <4>1 DEF StartLoad, Skip, Abort, FinishLoad, Again, RowsOf
      <4>2. CASE Reset
        BY <3>2, <4>2 DEF Reset, RowsOf
      <4>3. CASE LoadOne
        BY <3>2, <4>3, InsertIsolates DEF LoadOne
      <4>4. CASE LoadFails
        BY <3>2, <4>4, InsertIsolates DEF LoadFails, RowsOf
      <4> QED BY <2>1, <4>1, <4>2, <4>3, <4>4 DEF Load
    <3> QED BY <3>1, <3>2
  <2>2. ASSUME NEW e \in Editors, Edit(e) PROVE Own(b)
    <3>1. CASE BeginCreate(e) \/ BeginUpdate(e) \/ BeginDelete(e)
      BY <3>1 DEF BeginCreate, BeginUpdate, BeginDelete, RowsOf
    <3>2. ASSUME EndCreate(e) \/ EndUpdate(e) \/ EndDelete(e) PROVE Own(b)
      <4>1. op[e].kind \notin {"idle", "done"} /\ op'[e] = Done
        BY <3>2 DEF EndCreate, EndUpdate, EndDelete, EmbeddingsMatch
      <4>2. CASE op[e].biz = b
        BY <4>1, <4>2
      <4>3. CASE op[e].biz # b
        <5>1. CASE EndCreate(e)
          BY <4>3, <5>1, InsertIsolates DEF EndCreate, RowsOf
        <5>2. CASE EndUpdate(e)
          BY <4>3, <5>2, UpdateIsolates DEF EndUpdate, RowsOf
        <5>3. CASE EndDelete(e)
          BY <4>3, <5>3 DEF EndDelete, DeleteRow, RowsOf
        <5> QED BY <3>2, <5>1, <5>2, <5>3
      <4> QED BY <4>2, <4>3
    <3> QED BY <2>2, <3>1, <3>2 DEF Edit
  <2> QED BY <2>1, <2>2 DEF Next
<1> QED BY <1>1, InitEmbeddings, StepEmbeddings, PTL DEF Spec, TenantIsolation

-----------------------------------------------------------------------------
(* What a file expands to.                                                 *)

\* In place of an induction, the least counterexample is taken.
LEMMA MinIs ==
  ASSUME NEW S \in SUBSET Nat, S # {}
  PROVE  Min(S) \in S /\ \A k \in S : Min(S) <= k
<1>1. PICK x \in S : \A y \in S : ~(<<y, x>> \in OpToRel(<, Nat))
  <2>1. IsWellFoundedOn(OpToRel(<, Nat), Nat)
    BY NatLessThanWellFounded
  <2> QED
    BY <2>1, WFMin, Zenon
<1>2. ASSUME NEW y \in S  PROVE x <= y
  <2>1. x \in Nat /\ y \in Nat
    OBVIOUS
  <2>2. ~(y < x)
    BY <1>1, <2>1 DEF OpToRel
  <2> QED
    BY <2>1, <2>2
<1> QED
  BY <1>2 DEF Min

\* Sequences of T put one after the other are a sequence of T.
LEMMA FlattenTypes ==
  ASSUME NEW T, NEW ss \in Seq(Seq(T))
  PROVE  FlattenSeq(ss) \in Seq(T)
<1> DEFINE n == Len(ss)
           Follows(g, k) == \A i \in 1 .. k : g[i] = IF i = 1 THEN ss[i] ELSE g[i - 1] \o ss[i]
           Missing == {k \in 0 .. n : ~\E g \in [1 .. k -> Seq(T)] : Follows(g, k)}
<1>1. n \in Nat /\ \A i \in 1 .. n : ss[i] \in Seq(T)
  OBVIOUS
<1>2. Missing = {}
  <2> SUFFICES ASSUME Missing # {} PROVE FALSE
    OBVIOUS
  <2> DEFINE m == Min(Missing)
  <2>0. Missing \in SUBSET Nat
    BY <1>1
  <2>1. m \in Missing /\ \A k \in Missing : m <= k
    <3> HIDE DEF Missing
    <3> QED
      BY <2>0, MinIs
  <2> HIDE DEF m
  <2>2. CASE m = 0
    <3> DEFINE none == [i \in 1 .. 0 |-> <<>>]
    <3>1. none \in [1 .. 0 -> Seq(T)] /\ Follows(none, 0)
      OBVIOUS
    <3> QED
      BY <2>1, <2>2, <3>1
  <2>3. CASE m > 0
    <3>1. m \in 0 .. n /\ m - 1 \in 0 .. n /\ ~(m <= m - 1)
      BY <1>1, <2>1, <2>3
    <3>2. m - 1 \notin Missing
      BY <2>1, <3>1
    <3>3. PICK g \in [1 .. (m - 1) -> Seq(T)] : Follows(g, m - 1)
      BY <3>1, <3>2
    <3> DEFINE h == [i \in 1 .. m |-> IF i = m THEN IF m = 1 THEN ss[m] ELSE g[m - 1] \o ss[m]
                                      ELSE g[i]]
    <3>4. h \in [1 .. m -> Seq(T)]
      <4>1. m \in 1 .. n /\ ss[m] \in Seq(T)
        BY <1>1, <2>3, <3>1
      <4>2. m # 1 => m - 1 \in 1 .. (m - 1) /\ g[m - 1] \in Seq(T)
        BY <3>1, <2>3
      <4>3. m # 1 => g[m - 1] \o ss[m] \in Seq(T)
        BY <4>1, <4>2
      <4>4. \A i \in 1 .. m : i # m => g[i] \in Seq(T)
        BY <3>1
      <4> QED
        BY <4>1, <4>3, <4>4
    <3>5. Follows(h, m)
      <4> SUFFICES ASSUME NEW i \in 1 .. m
                   PROVE  h[i] = IF i = 1 THEN ss[i] ELSE h[i - 1] \o ss[i]
        OBVIOUS
      <4>1. i \in Int /\ m \in Int /\ 1 <= i /\ i <= m
        BY <3>1
      <4>2. i # 1 => i - 1 \in 1 .. m /\ i - 1 # m /\ h[i - 1] = g[i - 1]
        BY <4>1
      <4>3. CASE i = m
        BY <4>1, <4>2, <4>3
      <4>4. CASE i # m
        <5>1. i \in 1 .. (m - 1) /\ h[i] = g[i]
          BY <4>1, <4>4
        <5> QED
          BY <3>3, <4>2, <5>1
      <4> QED
        BY <4>3, <4>4
    <3> QED
      BY <2>1, <3>4, <3>5
  <2> QED
    BY <1>1, <2>1, <2>2, <2>3
<1>3. CASE n = 0
  <2>1. FlattenSeq(ss) = ss /\ ss = <<>>
    BY <1>3 DEF FlattenSeq
  <2> QED
    BY <2>1
<1>4. CASE n # 0
  <2> DEFINE F(g) == [i \in 1 .. n |-> IF i = 1 THEN ss[i] ELSE g[i - 1] \o ss[i]]
             flatten == CHOOSE g : g = F(g)
  <2>1. FlattenSeq(ss) = flatten[n]
    BY <1>4 DEF FlattenSeq
  <2>2. PICK g \in [1 .. n -> Seq(T)] : Follows(g, n)
    <3>1. n \in 0 .. n
      BY <1>1
    <3> QED
      BY <1>2, <3>1
  <2>3. g = F(g)
    BY <2>2
  <2>4. flatten = F(flatten)
    BY <2>3
  <2> HIDE DEF flatten
  <2> DEFINE Odd == {k \in 1 .. n : flatten[k] \notin Seq(T)}
  <2>5. Odd = {}
    <3> SUFFICES ASSUME Odd # {} PROVE FALSE
      OBVIOUS
    <3>0. Odd \in SUBSET Nat
      BY <1>1
    <3>1. PICK k \in Odd : \A j \in Odd : k <= j
      <4> HIDE DEF Odd
      <4> QED
        BY <3>0, MinIs
    <3>2. k \in 1 .. n /\ ss[k] \in Seq(T)
      BY <1>1
    <3>3. flatten[k] = IF k = 1 THEN ss[k] ELSE flatten[k - 1] \o ss[k]
      BY <2>4, <3>2
    <3>4. k # 1
      BY <3>2, <3>3
    <3>5. k - 1 \in 1 .. n /\ ~(k <= k - 1)
      BY <1>1, <3>2, <3>4
    <3>6. flatten[k - 1] \in Seq(T)
      BY <3>1, <3>5
    <3>7. flatten[k] \in Seq(T)
      BY <3>2, <3>3, <3>4, <3>6
    <3> QED
      BY <3>7
  <2>6. n \in 1 .. n
    BY <1>1, <1>4
  <2> QED
    BY <2>1, <2>5, <2>6
<1> QED
  BY <1>3, <1>4

\* A finite set has a sequence of its members.
LEMMA SeqOfSet ==
  ASSUME NEW S, IsFiniteSet(S)
  PROVE  SetToSeq(S) \in Seq(S)
<1>1. Cardinality(S) \in Nat /\ ExistsBijection(1 .. Cardinality(S), S)
  BY FS_CardinalityType
<1>2. PICK f \in [1 .. Cardinality(S) -> S] : IsInjective(f)
  BY <1>1 DEF ExistsBijection, Bijection, Injection, IsInjective
<1>3. SetToSeq(S) \in [1 .. Cardinality(S) -> S]
  BY <1>2 DEF SetToSeq
<1> QED
  BY <1>1, <1>3

\* The provers do not know the blank text for a string.
Text == STRING \cup {""}

Faq == [cat : Text, q : Text, a : Text, lang : Lang]

\* A field has a text in every language, if a blank one.
LEMMA GetType ==
  ASSUME NEW t, FlexText(t), NEW l
  PROVE  Get(t, l) \in Text /\ Languages(t) \subseteq Lang
<1>1. t.single \in STRING /\ DOMAIN t.byLang \subseteq Lang
      /\ \A k \in DOMAIN t.byLang : t.byLang[k] \in STRING
  BY Zenon DEF FlexText
<1>2. Get(t, l) \in {t.single, ""} \cup {t.byLang[k] : k \in DOMAIN t.byLang}
  BY Zenon DEF Get
<1>3. Get(t, l) \in Text
  <2> DEFINE g == Get(t, l)
  <2>1. g = t.single \/ g = "" \/ \E k \in DOMAIN t.byLang : g = t.byLang[k]
    BY <1>2, Zenon
  <2> HIDE DEF g
  <2>2. g = t.single => g \in Text
    BY <1>1, Zenon DEF Text
  <2>3. g = "" => g \in Text
    BY DEF Text
  <2>4. (\E k \in DOMAIN t.byLang : g = t.byLang[k]) => g \in Text
    BY <1>1, Zenon DEF Text
  <2> QED
    BY <2>1, <2>2, <2>3, <2>4, Zenon DEF g
<1> QED
  BY <1>1, <1>3, Zenon DEF Languages

LEMMA EntryTypes ==
  ASSUME NEW r, RawFaq(r)
  PROVE  ExpandEntry(r) \in Seq(Faq)
<1> DEFINE faq(l) == [cat |-> Get(r.cat, l), q |-> Get(r.q, l), a |-> Get(r.a, l), lang |-> l]
           full == {l \in Languages(r.q) \cup Languages(r.a) :
                      Get(r.q, l) # "" /\ Get(r.a, l) # ""}
           langs == SetToSeq(full)
           own == IF r.lang = "" THEN LangFlag ELSE r.lang
<1>1. FlexText(r.cat) /\ FlexText(r.q) /\ FlexText(r.a) /\ r.lang \in Lang \cup {""}
  BY DEF RawFaq
<1>2. \A l \in Lang : faq(l) \in Faq
  <2> TAKE l \in Lang
  <2>1. Get(r.cat, l) \in Text /\ Get(r.q, l) \in Text /\ Get(r.a, l) \in Text
    BY <1>1, GetType, Zenon
  <2> QED
    BY <2>1 DEF Faq
<1>3. Languages(r.q) \subseteq Lang /\ Languages(r.a) \subseteq Lang
  BY <1>1, GetType, Zenon
<1>4. full \subseteq Lang /\ IsFiniteSet(Lang)
  BY <1>3, FilesAssumption, Zenon
<1>5. IsFiniteSet(full)
  BY <1>4, FS_Subset, Zenon
<1>6. langs \in Seq(full)
  BY <1>5, SeqOfSet, Zenon
<1> HIDE DEF full, langs
<1>7. langs \in Seq(Lang)
  BY <1>4, <1>6
<1>8. own \in Lang
  BY <1>1, KnowledgeBaseAssumption, Zenon
<1> HIDE DEF own
<1>9. <<faq(own)>> \in Seq(Faq)
  BY <1>2, <1>8
<1>10. [i \in DOMAIN langs |-> faq(langs[i])] \in Seq(Faq)
  <2> HIDE DEF faq
  <2>1. Len(langs) \in Nat /\ DOMAIN langs = 1 .. Len(langs)
        /\ \A i \in 1 .. Len(langs) : langs[i] \in Lang
    BY <1>7
  <2> QED
    BY <1>2, <2>1
<1> QED
  BY <1>9, <1>10, Zenon DEF ExpandEntry, full, langs, own

\* A file of the database's languages expands to FAQs in them.
LEMMA ExpandTypes ==
  ASSUME NEW f \in Files
  PROVE  Expand(f) \in Seq(Faq)
<1> DEFINE ss == [i \in DOMAIN f |-> ExpandEntry(f[i])]
<1>1. f \in Seq(Range(f)) /\ \A i \in DOMAIN f : RawFaq(f[i])
  BY FilesAssumption, Zenon
<1>2. Len(f) \in Nat /\ DOMAIN f = 1 .. Len(f)
  BY <1>1
<1>3. \A i \in DOMAIN f : ExpandEntry(f[i]) \in Seq(Faq)
  BY <1>1, EntryTypes, Zenon
<1>4. ss \in Seq(Seq(Faq))
  BY <1>2, <1>3
<1> HIDE DEF ss
<1>5. FlattenSeq(ss) \in Seq(Faq)
  BY <1>4, FlattenTypes, Zenon
<1> QED
  BY <1>5 DEF Expand, ss

-----------------------------------------------------------------------------
(* The types.                                                              *)

\* Rows with ids of their own, below n, of known businesses and languages.
RowsOK(rs, n) == /\ \A r \in rs : r.id \in 1 .. n - 1 /\ r.biz \in Biz /\ r.lang \in Lang
                 /\ \A r, s \in rs : r.id = s.id => r = s

\* The assumption, in the parts the proofs use.
LEMMA ConstantTypes == /\ MaxId \in Nat /\ MaxLost \in Nat /\ Attempts \in Nat \ {0}
                       /\ LoadBiz \in Biz /\ \A e \in Edits : e.lang \in Lang
BY KnowledgeBaseAssumption, Zenon

LEMMA PriorTypes ==
  /\ IsFiniteSet(Prior) /\ Cardinality(Prior) \in Nat /\ Cardinality(Prior) <= MaxId
  /\ \A r \in Prior : r.id \in 1 .. Cardinality(Prior) /\ r.biz \in Biz /\ r.lang \in Lang
  /\ \A r, s \in Prior : r.id = s.id => r = s
<1>1. IsFiniteSet(Prior) /\ Cardinality(Prior) <= MaxId
  BY KnowledgeBaseAssumption, Zenon
<1>2. \A r \in Prior : r.id \in 1 .. Cardinality(Prior) /\ r.biz \in Biz /\ r.lang \in Lang
  BY KnowledgeBaseAssumption, Zenon
<1>3. \A r, s \in Prior : r.id = s.id => r = s
  BY KnowledgeBaseAssumption, Zenon
<1>4. Cardinality(Prior) \in Nat
  BY <1>1, FS_CardinalityType, Zenon
<1> QED
  BY <1>1, <1>2, <1>3, <1>4, Zenon

\* What the file expands to: FAQs of known languages.
LEMMA FileTypes ==
  ASSUME NEW f \in Files
  PROVE  /\ Len(Expand(f)) \in Nat /\ DOMAIN Expand(f) = 1 .. Len(Expand(f))
         /\ \A i \in 1 .. Len(Expand(f)) : Expand(f)[i].lang \in Lang
         /\ ResetLangs(Expand(f)) \subseteq Lang
<1> DEFINE s == Expand(f)
<1>1. s \in Seq(Faq)
  BY ExpandTypes, Zenon
<1> HIDE DEF s
<1>2. Len(s) \in Nat /\ DOMAIN s = 1 .. Len(s) /\ \A i \in 1 .. Len(s) : s[i] \in Faq
  BY <1>1
<1>3. \A i \in 1 .. Len(s) : s[i].lang \in Lang
  BY <1>2 DEF Faq
<1> QED
  BY <1>2, <1>3 DEF ResetLangs, s

\* The statements keep ids unique and below the next one.
LEMMA InsertTypes ==
  ASSUME RowsOK(rows, nextId), nextId \in 1 .. MaxId + 1,
         NEW b \in Biz, NEW x, x.lang \in Lang, NEW emb, Insert(b, x, emb)
  PROVE  RowsOK(rows', nextId') /\ nextId' \in 1 .. MaxId + 1
<1> DEFINE new == Row(nextId, b, x, emb)
<1>1. new.id = nextId /\ new.biz = b /\ new.lang = x.lang
  BY DEF Row
<1>2. rows' = rows \cup {new} /\ nextId' = nextId + 1 /\ nextId <= MaxId
  BY DEF Insert
<1> HIDE DEF new
<1>3. nextId \in Nat /\ nextId' \in 1 .. MaxId + 1
  BY <1>2, ConstantTypes
<1> QED
  BY <1>1, <1>2, <1>3 DEF RowsOK

LEMMA UpdateTypes ==
  ASSUME RowsOK(rows, nextId), NEW b \in Biz, NEW id, NEW x, x.lang \in Lang, NEW emb,
         UpdateRow(b, id, x, emb)
  PROVE  RowsOK(rows', nextId)
<1> DEFINE new == Row(id, b, x, emb)
           Updated(r) == IF r.biz = b /\ r.id = id THEN new ELSE r
<1>1. new.id = id /\ new.biz = b /\ new.lang = x.lang
  BY DEF Row
<1>2. rows' = {Updated(r) : r \in rows}
  BY DEF UpdateRow
<1>3. \A r \in rows : /\ Updated(r).id = r.id
                      /\ Updated(r).biz \in Biz /\ Updated(r).lang \in Lang
  <2> HIDE DEF new
  <2> QED
    BY <1>1 DEF RowsOK
<1> HIDE DEF Updated
<1> QED
  BY <1>2, <1>3 DEF RowsOK

LEMMA SubsetTypes ==
  ASSUME RowsOK(rows, nextId), rows' \subseteq rows
  PROVE  RowsOK(rows', nextId)
BY DEF RowsOK

LEMMA TypeInit == Init => TypeOK
<1> SUFFICES ASSUME Init PROVE TypeOK
  OBVIOUS
<1>1. Cardinality(Prior) \in Nat /\ Cardinality(Prior) <= MaxId
  BY PriorTypes
<1>2. /\ nextId = Cardinality(Prior) + 1 /\ rows = Prior
      /\ loader = NoLoad /\ edited = FALSE /\ lost = 0 /\ op = [e \in Editors |-> Idle]
  BY DEF Init
<1>3. nextId \in 1 .. MaxId + 1 /\ nextId - 1 = Cardinality(Prior)
  BY <1>1, <1>2, ConstantTypes
<1>4. op \in [Editors -> OpState]
  BY <1>2 DEF OpState
<1>5. lost \in 0 .. MaxLost
  BY <1>2, ConstantTypes
<1>6. /\ \A r \in rows : r.id \in 1 .. nextId - 1 /\ r.biz \in Biz /\ r.lang \in Lang
      /\ \A r, s \in rows : r.id = s.id => r = s
  BY <1>2, <1>3, PriorTypes
<1> QED
  BY <1>2, <1>3, <1>4, <1>5, <1>6 DEF TypeOK

\* Each step keeps the types.
LEMMA TypeStep == TypeOK /\ [Next]_vars => TypeOK'
<1> SUFFICES ASSUME TypeOK, [Next]_vars PROVE TypeOK'
  OBVIOUS
<1> DEFINE LoadOK(l) == \/ l = NoLoad
                        \/ l \in LoadState /\ l.at \in 1 .. Len(Expand(l.file)) + 1
<1>0. /\ RowsOK(rows, nextId) /\ nextId \in 1 .. MaxId + 1
      /\ op \in [Editors -> OpState] /\ LoadOK(loader)
      /\ edited \in BOOLEAN /\ lost \in 0 .. MaxLost
  <2>1. RowsOK(rows, nextId)
    BY DEF TypeOK, RowsOK
  <2>2. LoadOK(loader)
    BY DEF TypeOK
  <2> HIDE DEF LoadOK
  <2> QED
    BY <2>1, <2>2 DEF TypeOK
<1>a. ASSUME RowsOK(rows', nextId'), nextId' \in 1 .. MaxId + 1,
             op' \in [Editors -> OpState], LoadOK(loader'),
             edited' \in BOOLEAN, lost' \in 0 .. MaxLost
      PROVE TypeOK'
  BY <1>a DEF TypeOK, RowsOK
<1>1. CASE Load
  <2>1. CASE StartLoad
    <3>1. PICK f \in Files, reset \in BOOLEAN :
            loader' = [pc |-> "load", file |-> f, reset |-> reset, attempt |-> 1, at |-> 1,
                       clear |-> IF reset THEN ResetLangs(Expand(f)) ELSE {}]
      BY <2>1 DEF StartLoad
    <3>2. 1 \in 1 .. Len(Expand(f)) + 1 /\ ResetLangs(Expand(f)) \subseteq Lang
      BY FileTypes
    <3>3. LoadOK(loader')
      BY <3>1, <3>2, ConstantTypes DEF LoadState
    <3> HIDE DEF LoadOK
    <3> QED
      BY <1>0, <1>a, <2>1, <3>3 DEF StartLoad
  <2>2. ASSUME loader.pc \in {"load", "done", "failed"}
        PROVE /\ loader \in LoadState /\ loader.file \in Files
              /\ loader.at \in Nat /\ loader.at \in 1 .. Len(Expand(loader.file)) + 1
              /\ Len(Expand(loader.file)) \in Nat
    <3>1. loader # NoLoad
      BY <2>2 DEF NoLoad
    <3>2. loader \in LoadState /\ loader.at \in 1 .. Len(Expand(loader.file)) + 1
      BY <1>0, <3>1
    <3>3. loader.file \in Files /\ loader.at \in Nat
      BY <3>2 DEF LoadState
    <3> QED
      BY <3>2, <3>3, FileTypes
  <2>3. CASE Reset
    <3>1. PICK l \in loader.clear :
            /\ rows' = {r \in rows : ~(r.biz = LoadBiz /\ r.lang = l)}
            /\ loader' = [loader EXCEPT !.clear = @ \ {l}]
      BY <2>3 DEF Reset
    <3>2. RowsOK(rows', nextId)
      BY <1>0, <3>1, SubsetTypes
    <3>3. loader' \in LoadState /\ loader'.at = loader.at /\ loader'.file = loader.file
      BY <2>2, <2>3, <3>1 DEF LoadState, Reset
    <3>4. LoadOK(loader')
      BY <2>2, <2>3, <3>3 DEF Reset
    <3> HIDE DEF LoadOK
    <3> QED
      BY <1>0, <1>a, <2>3, <3>2, <3>4 DEF Reset
  <2>4. ASSUME Loading
        PROVE /\ loader \in LoadState /\ Current.lang \in Lang
              /\ loader.at + 1 \in 1 .. Len(Expand(loader.file)) + 1
    <3>1. loader.pc = "load" /\ loader.at <= Len(Expand(loader.file))
      BY <2>4 DEF Loading
    <3> QED
      BY <2>2, <3>1, FileTypes DEF Current
  <2>5. CASE Skip
    <3>1. loader' \in LoadState /\ loader'.at = loader.at + 1 /\ loader'.file = loader.file
      BY <2>4, <2>5 DEF LoadState, Skip
    <3>2. LoadOK(loader')
      BY <2>4, <2>5, <3>1 DEF Skip
    <3> HIDE DEF LoadOK
    <3> QED
      BY <1>0, <1>a, <2>5, <3>2 DEF Skip
  <2>6. CASE LoadOne
    <3>1. loader' \in LoadState /\ loader'.at = loader.at + 1 /\ loader'.file = loader.file
      <4>1. 1 \in 1 .. Attempts /\ loader \in LoadState /\ loader.at + 1 \in Nat
        BY <2>4, <2>6, ConstantTypes DEF LoadState, LoadOne
      <4>2. loader' = [loader EXCEPT !.at = loader.at + 1, !.attempt = 1]
        BY <2>6 DEF LoadOne
      <4> QED
        BY <4>1, <4>2 DEF LoadState
    <3>2. LoadOK(loader')
      BY <2>4, <2>6, <3>1 DEF LoadOne
    <3>3. RowsOK(rows', nextId') /\ nextId' \in 1 .. MaxId + 1
      BY <1>0, <2>4, <2>6, InsertTypes, ConstantTypes DEF LoadOne
    <3> HIDE DEF LoadOK
    <3> QED
      BY <1>0, <1>a, <2>6, <3>2, <3>3 DEF LoadOne
  <2>7. ASSUME loader.pc \in {"load", "done", "failed"},
               \/ loader' = [loader EXCEPT !.pc = "failed"]
               \/ loader' = [loader EXCEPT !.pc = "done"]
               \/ /\ loader' = [loader EXCEPT !.attempt = @ + 1]
                  /\ loader.attempt < Attempts
        PROVE LoadOK(loader')
    <3>1. loader' \in LoadState /\ loader'.at = loader.at /\ loader'.file = loader.file
      <4>1. /\ loader \in LoadState /\ loader.attempt \in 1 .. Attempts
            /\ loader.attempt < Attempts => loader.attempt + 1 \in 1 .. Attempts
        BY <2>2, <2>7, ConstantTypes DEF LoadState
      <4> QED
        BY <2>7, <4>1 DEF LoadState
    <3> QED
      BY <2>2, <2>7, <3>1
  <2>8. CASE LoadFails
    <3>1. LoadOK(loader')
      BY <2>7, <2>8 DEF LoadFails, Loading, Retry
    <3>2. /\ RowsOK(rows', nextId') /\ nextId' \in 1 .. MaxId + 1
          /\ lost' \in 0 .. MaxLost
      <4>1. CASE UNCHANGED <<rows, nextId, lost>>
        BY <1>0, <4>1
      <4>2. CASE /\ lost < MaxLost
                 /\ Insert(LoadBiz, Current, Current.q)
                 /\ lost' = lost + 1
        BY <1>0, <2>4, <2>8, <4>2, InsertTypes, ConstantTypes DEF LoadFails
      <4> QED
        BY <2>8, <4>1, <4>2 DEF LoadFails
    <3> HIDE DEF LoadOK
    <3> QED
      BY <1>0, <1>a, <2>8, <3>1, <3>2 DEF LoadFails
  <2>9. CASE Abort \/ FinishLoad
    <3>1. LoadOK(loader')
      BY <2>7, <2>9 DEF Abort, FinishLoad
    <3> HIDE DEF LoadOK
    <3> QED
      BY <1>0, <1>a, <2>9, <3>1 DEF Abort, FinishLoad
  <2>10. CASE Again
    <3>1. LoadOK(loader')
      BY <2>10 DEF Again
    <3> HIDE DEF LoadOK
    <3> QED
      BY <1>0, <1>a, <2>10, <3>1 DEF Again
  <2> QED
    BY <1>1, <2>1, <2>3, <2>5, <2>6, <2>8, <2>9, <2>10 DEF Load
<1>2. ASSUME NEW e \in Editors, Edit(e) PROVE TypeOK'
  <2> HIDE DEF LoadOK
  <2>1. ASSUME NEW v \in OpState, op' = [op EXCEPT ![e] = v] PROVE op' \in [Editors -> OpState]
    BY <1>0, <2>1
  <2>2. Done \in OpState
    BY DEF OpState
  <2>3. CASE BeginCreate(e)
    <3>1. PICK b \in Biz, x \in Edits :
            op' = [op EXCEPT ![e] = [kind |-> "create", biz |-> b, row |-> x, emb |-> x.q]]
      BY <2>3 DEF BeginCreate
    <3>2. [kind |-> "create", biz |-> b, row |-> x, emb |-> x.q] \in OpState
      BY DEF OpState
    <3> QED
      BY <1>0, <1>a, <2>1, <2>3, <3>1, <3>2 DEF BeginCreate
  <2>4. CASE BeginUpdate(e)
    <3>1. PICK b \in Biz, id \in 1 .. nextId - 1, x \in Edits :
            op' = [op EXCEPT ![e] = [kind |-> "update", biz |-> b, id |-> id, row |-> x,
                                     emb |-> x.q]]
      BY <2>4 DEF BeginUpdate
    <3>2. id \in Nat
      BY <1>0
    <3>3. [kind |-> "update", biz |-> b, id |-> id, row |-> x, emb |-> x.q] \in OpState
      BY <3>2 DEF OpState
    <3> QED
      BY <1>0, <1>a, <2>1, <2>4, <3>1, <3>3 DEF BeginUpdate
  <2>5. CASE BeginDelete(e)
    <3>1. PICK b \in Biz, id \in 1 .. nextId - 1 :
            op' = [op EXCEPT ![e] = [kind |-> "delete", biz |-> b, id |-> id]]
      BY <2>5 DEF BeginDelete
    <3>2. id \in Nat
      BY <1>0
    <3>3. [kind |-> "delete", biz |-> b, id |-> id] \in OpState
      BY <3>2 DEF OpState
    <3> QED
      BY <1>0, <1>a, <2>1, <2>5, <3>1, <3>3 DEF BeginDelete
  <2>6. op[e] \in OpState
    BY <1>0
  <2>7. Touched(op[e].biz) => edited' \in BOOLEAN
    BY <1>0 DEF Touched
  <2>8. CASE EndCreate(e)
    <3>1. op[e].biz \in Biz /\ op[e].row \in Edits
      BY <2>6, <2>8 DEF EndCreate, OpState, Idle, Done
    <3>2. RowsOK(rows', nextId') /\ nextId' \in 1 .. MaxId + 1 /\ edited' \in BOOLEAN
      BY <1>0, <2>7, <2>8, <3>1, InsertTypes, ConstantTypes DEF EndCreate
    <3> QED
      BY <1>0, <1>a, <2>1, <2>2, <2>8, <3>2 DEF EndCreate
  <2>9. CASE EndUpdate(e)
    <3>1. op[e].biz \in Biz /\ op[e].row \in Edits
      BY <2>6, <2>9 DEF EndUpdate, OpState, Idle, Done
    <3>2. RowsOK(rows', nextId) /\ edited' \in BOOLEAN
      BY <1>0, <2>7, <2>9, <3>1, UpdateTypes, ConstantTypes DEF EndUpdate
    <3> QED
      BY <1>0, <1>a, <2>1, <2>2, <2>9, <3>2 DEF EndUpdate
  <2>10. CASE EndDelete(e)
    <3>1. rows' \subseteq rows /\ edited' \in BOOLEAN
      BY <1>0, <2>7, <2>10 DEF EndDelete, DeleteRow
    <3>2. RowsOK(rows', nextId)
      BY <1>0, <3>1, SubsetTypes
    <3> QED
      BY <1>0, <1>a, <2>1, <2>2, <2>10, <3>1, <3>2 DEF EndDelete
  <2> QED
    BY <1>2, <2>3, <2>4, <2>5, <2>8, <2>9, <2>10 DEF Edit
<1>3. CASE UNCHANGED vars
  BY <1>3 DEF vars, TypeOK
<1> QED
  BY <1>1, <1>2, <1>3 DEF Next

\* Ids stay unique, and requests and loads hold what their kind needs.
THEOREM TypeCorrect == Spec => []TypeOK
BY TypeInit, TypeStep, PTL DEF Spec

-----------------------------------------------------------------------------
(* What a load leaves.                                                     *)

\* The rows a load has made or has left of some languages.
Mine(rs, langs) == {r \in rs : r.biz = LoadBiz /\ r.lang \in langs}

\* The places of the FAQs a load has still to add.
Left(l) == {i \in Wanted(l.file) : i >= l.at}

\* In the languages cleared so far: a row for each FAQ already added, at most, and one for
\* each insert whose reply was lost.
LoadInv ==
  loader.pc = "load" /\ loader.reset /\ ~edited =>
    Cardinality(Mine(rows, FileLangs(loader.file) \ loader.clear)) + Cardinality(Left(loader))
      <= Cardinality(Wanted(loader.file)) + lost

\* Ids tell the rows apart, so they are finitely many.
LEMMA RowsFinite ==
  ASSUME TypeOK, NEW langs
  PROVE  IsFiniteSet(rows) /\ IsFiniteSet(Mine(rows, langs))
         /\ Cardinality(Mine(rows, langs)) \in Nat
<1> DEFINE f == [r \in rows |-> r.id]
<1>1. f \in Injection(rows, 1 .. nextId - 1)
  BY DEF TypeOK, Injection, IsInjective
<1>2. IsFiniteSet(1 .. nextId - 1)
  <2> DEFINE n == nextId - 1
  <2>1. n \in Int
    BY ConstantTypes DEF TypeOK
  <2> HIDE DEF n
  <2>2. IsFiniteSet(1 .. n)
    BY <2>1, FS_Interval
  <2> QED
    BY <2>2 DEF n
<1>3. IsFiniteSet(rows)
  <2> HIDE DEF f
  <2> QED
    BY <1>1, <1>2, FS_Injection
<1>4. Mine(rows, langs) \subseteq rows
  BY DEF Mine
<1> QED
  BY <1>3, <1>4, FS_Subset, FS_CardinalityType

\* The FAQs a file has for the loader are finitely many.
LEMMA WantedFinite ==
  ASSUME NEW f \in Files
  PROVE  /\ IsFiniteSet(Wanted(f)) /\ Cardinality(Wanted(f)) \in Nat
         /\ Wanted(f) \subseteq 1 .. Len(Expand(f))
<1> DEFINE n == Len(Expand(f))
<1>1. n \in Int /\ Wanted(f) \subseteq 1 .. n
  BY FileTypes DEF Wanted
<1> HIDE DEF n
<1>2. IsFiniteSet(1 .. n)
  BY <1>1, FS_Interval
<1>3. IsFiniteSet(Wanted(f))
  BY <1>1, <1>2, FS_Subset
<1> QED
  BY <1>1, <1>3, FS_CardinalityType DEF n

\* Adding the FAQ at a place that is not skipped leaves one less to add.
LEMMA LeftStep ==
  ASSUME NEW f \in Files, NEW l, NEW m, l.file = f, m.file = f, l.at \in Nat, m.at = l.at + 1
  PROVE  /\ IsFiniteSet(Left(l)) /\ Cardinality(Left(l)) \in Nat
         /\ Cardinality(Left(m)) =
              Cardinality(Left(l)) - (IF l.at \in Wanted(f) THEN 1 ELSE 0)
<1>1. Left(l) \subseteq Wanted(f)
  BY DEF Left
<1>2. IsFiniteSet(Left(l)) /\ Cardinality(Left(l)) \in Nat
  BY <1>1, WantedFinite, FS_Subset, FS_CardinalityType
<1>3. \A i \in Wanted(f) : i \in Nat
  BY WantedFinite
<1>4. Left(m) = Left(l) \ {l.at}
  BY <1>3 DEF Left
<1>5. l.at \in Left(l) <=> l.at \in Wanted(f)
  BY DEF Left
<1>6. Cardinality(Left(l) \ {l.at}) = IF l.at \in Left(l) THEN Cardinality(Left(l)) - 1
                                      ELSE Cardinality(Left(l))
  BY <1>2, FS_RemoveElement
<1> QED
  BY <1>2, <1>4, <1>5, <1>6

\* An insert adds one row at most.
LEMMA MineInsert ==
  ASSUME TypeOK, NEW b, NEW x, NEW emb, Insert(b, x, emb), NEW langs
  PROVE  /\ Cardinality(Mine(rows', langs)) \in Nat
         /\ Cardinality(Mine(rows', langs)) <= Cardinality(Mine(rows, langs)) + 1
<1> DEFINE new == Row(nextId, b, x, emb)
           M == Mine(rows, langs)
<1>1. rows' = rows \cup {new}
  BY DEF Insert
<1> HIDE DEF new
<1>2. Mine(rows', langs) \subseteq M \cup {new}
  BY <1>1 DEF Mine
<1>3. IsFiniteSet(M) /\ Cardinality(M) \in Nat
  BY RowsFinite
<1> HIDE DEF M
<1>4. /\ IsFiniteSet(M \cup {new}) /\ Cardinality(M \cup {new}) <= Cardinality(M) + 1
      /\ Cardinality(M \cup {new}) \in Nat
  <2>1. /\ IsFiniteSet(M \cup {new})
        /\ Cardinality(M \cup {new}) = IF new \in M THEN Cardinality(M) ELSE Cardinality(M) + 1
    BY <1>3, FS_AddElement
  <2> QED
    BY <1>3, <2>1
<1>5. /\ Cardinality(Mine(rows', langs)) <= Cardinality(M \cup {new})
      /\ Cardinality(Mine(rows', langs)) \in Nat
  BY <1>2, <1>4, FS_Subset, FS_CardinalityType
<1> QED
  BY <1>3, <1>4, <1>5 DEF M

\* An editor's request leaves the load's rows alone, or is known of.
LEMMA EditsAreKnown ==
  ASSUME NEW e \in Editors, Edit(e), edited \in BOOLEAN
  PROVE  /\ UNCHANGED <<loader, lost>>
         /\ edited' = TRUE \/ (edited' = edited /\ RowsOf(LoadBiz)' = RowsOf(LoadBiz))
<1> DEFINE b == LoadBiz
           Known == edited' = TRUE \/ (edited' = edited /\ RowsOf(b)' = RowsOf(b))
<1>1. UNCHANGED <<loader, lost>>
  BY DEF Edit, BeginCreate, BeginUpdate, BeginDelete, EndCreate, EndUpdate, EndDelete
<1>2. ASSUME UNCHANGED <<rows, edited>> PROVE Known
  BY <1>2 DEF RowsOf
<1>3. ASSUME Touched(op[e].biz), op[e].biz = b PROVE Known
  BY <1>3 DEF Touched
<1>4. ASSUME Touched(op[e].biz), op[e].biz # b, RowsOf(b)' = RowsOf(b) PROVE Known
  BY <1>4 DEF Touched
<1> SUFFICES Known
  BY <1>1
<1> HIDE DEF Known
<1>5. CASE BeginCreate(e) \/ BeginUpdate(e) \/ BeginDelete(e)
  BY <1>2, <1>5 DEF BeginCreate, BeginUpdate, BeginDelete
<1>6. CASE EndCreate(e)
  BY <1>2, <1>3, <1>4, <1>6, InsertIsolates DEF EndCreate
<1>7. CASE EndUpdate(e)
  BY <1>2, <1>3, <1>4, <1>7, UpdateIsolates DEF EndUpdate
<1>8. CASE EndDelete(e)
  <2>1. DeleteRow(op[e].biz, op[e].id) /\ op[e].biz # b => RowsOf(b)' = RowsOf(b)
    BY DEF DeleteRow, RowsOf
  <2> QED
    BY <1>2, <1>3, <1>4, <1>8, <2>1 DEF EndDelete
<1> QED
  BY <1>5, <1>6, <1>7, <1>8 DEF Edit

DupInv == TypeOK /\ LoadInv /\ DuplicatesOnlyFromLostReplies

LEMMA DupInit == Init => DupInv
<1> SUFFICES ASSUME Init PROVE DupInv
  OBVIOUS
<1>1. loader.pc = "idle"
  BY DEF Init, NoLoad
<1> QED
  BY <1>1, TypeInit DEF DupInv, LoadInv, DuplicatesOnlyFromLostReplies

\* Each step keeps the count of a load.
LEMMA DupStep == DupInv /\ [Next]_vars => DupInv'
<1> SUFFICES ASSUME DupInv, [Next]_vars PROVE DupInv'
  OBVIOUS
<1>0. TypeOK /\ TypeOK' /\ LoadInv /\ DuplicatesOnlyFromLostReplies
  BY TypeStep DEF DupInv
<1>a. ASSUME loader'.pc \notin {"load", "done"} PROVE DupInv'
  BY <1>0, <1>a DEF DupInv, LoadInv, DuplicatesOnlyFromLostReplies
<1>b. ASSUME loader'.pc = "load", LoadInv' PROVE DupInv'
  BY <1>0, <1>b DEF DupInv, DuplicatesOnlyFromLostReplies
<1>c. ASSUME edited' = TRUE PROVE DupInv'
  BY <1>0, <1>c DEF DupInv, LoadInv, DuplicatesOnlyFromLostReplies
<1>1. ASSUME loader.pc = "load"
      PROVE /\ loader \in LoadState /\ loader.file \in Files /\ loader.at \in Nat
            /\ loader.at \in 1 .. Len(Expand(loader.file)) + 1
  BY <1>0, <1>1 DEF TypeOK, NoLoad, LoadState
<1> DEFINE f == loader.file
           langs == FileLangs(f) \ loader.clear
<1>2. CASE StartLoad
  <2>1. PICK g \in Files, reset \in BOOLEAN :
          loader' = [pc |-> "load", file |-> g, reset |-> reset, attempt |-> 1, at |-> 1,
                     clear |-> IF reset THEN ResetLangs(Expand(g)) ELSE {}]
    BY <1>2 DEF StartLoad
  <2>2. CASE reset
    <3>1. loader'.file = g /\ loader'.at = 1 /\ loader'.clear = FileLangs(g)
      BY <2>1, <2>2 DEF FileLangs, ResetLangs
    <3>2. Mine(rows', FileLangs(loader'.file) \ loader'.clear) = {}
      BY <3>1 DEF Mine
    <3>3. Left(loader') = Wanted(g)
      <4>1. \A i \in Wanted(g) : i >= 1
        BY WantedFinite, FileTypes
      <4> QED
        BY <3>1, <4>1 DEF Left
    <3>4. lost' \in Nat /\ Cardinality(Wanted(g)) \in Nat
      BY <1>0, WantedFinite, ConstantTypes DEF TypeOK
    <3>5. Cardinality(Mine(rows', FileLangs(loader'.file) \ loader'.clear)) = 0
      BY <3>2, FS_EmptySet
    <3>6. Cardinality(Left(loader')) <= Cardinality(Wanted(loader'.file)) + lost'
      BY <3>1, <3>3, <3>4
    <3>7. Cardinality(Left(loader')) \in Nat
      BY <3>3, <3>4
    <3>8. LoadInv'
      BY <3>5, <3>6, <3>7 DEF LoadInv
    <3> QED
      BY <1>b, <2>1, <3>8
  <2>3. CASE ~reset
    <3>1. loader'.pc = "load" /\ loader'.reset = FALSE
      BY <2>1, <2>3
    <3> QED
      BY <1>b, <3>1 DEF LoadInv
  <2> QED
    BY <2>2, <2>3
<1>3. ASSUME loader.pc = "load"
      PROVE /\ Cardinality(Mine(rows, langs)) \in Nat /\ Cardinality(Wanted(f)) \in Nat
            /\ lost \in Nat /\ Cardinality(Left(loader)) \in Nat
  <2>1. f \in Files
    BY <1>1, <1>3
  <2>2. Left(loader) \subseteq Wanted(f)
    BY DEF Left
  <2>3. Cardinality(Wanted(f)) \in Nat /\ Cardinality(Left(loader)) \in Nat
    BY <2>1, <2>2, WantedFinite, FS_Subset, FS_CardinalityType
  <2> QED
    BY <1>0, <2>3, RowsFinite, ConstantTypes DEF TypeOK
<1>4. CASE Reset
  <2>1. PICK l \in loader.clear :
          /\ rows' = {r \in rows : ~(r.biz = LoadBiz /\ r.lang = l)}
          /\ loader' = [loader EXCEPT !.clear = @ \ {l}]
    BY <1>4 DEF Reset
  <2>2. /\ loader'.pc = "load" /\ loader'.file = f /\ loader'.at = loader.at
        /\ loader'.reset = loader.reset /\ loader'.clear = loader.clear \ {l}
        /\ edited' = edited /\ lost' = lost
    BY <1>1, <1>4, <2>1 DEF Reset, LoadState
  <2>3. Mine(rows', FileLangs(f) \ (loader.clear \ {l})) = Mine(rows, langs)
    BY <2>1 DEF Mine
  <2>4. Left(loader') = Left(loader)
    BY <2>2 DEF Left
  <2>5. LoadInv'
    <3>1. loader.pc = "load"
      BY <1>4 DEF Reset
    <3> QED
      BY <1>0, <2>2, <2>3, <2>4, <3>1 DEF LoadInv
  <2> QED
    BY <1>b, <2>2, <2>5
<1>5. ASSUME Loading
      PROVE /\ loader.pc = "load" /\ loader.at \in DOMAIN Expand(f)
            /\ loader.at \in Wanted(f) <=> ~Blank(Current)
  BY <1>1, <1>5, FileTypes DEF Loading, Current, Wanted
<1>6. CASE Skip
  <2>1. /\ loader'.pc = "load" /\ loader'.file = f /\ loader'.at = loader.at + 1
        /\ loader'.reset = loader.reset /\ loader'.clear = loader.clear
        /\ edited' = edited /\ lost' = lost /\ rows' = rows
    BY <1>1, <1>5, <1>6 DEF Skip, LoadState
  <2>2. Cardinality(Left(loader')) = Cardinality(Left(loader))
    <3>1. loader.pc = "load" /\ loader.at \notin Wanted(f)
      BY <1>5, <1>6 DEF Skip
    <3>2. f \in Files /\ loader.at \in Nat
      BY <1>1, <3>1
    <3>3. Cardinality(Left(loader')) = Cardinality(Left(loader))
                                       - (IF loader.at \in Wanted(f) THEN 1 ELSE 0)
      BY <2>1, <3>2, LeftStep
    <3> QED
      BY <1>3, <3>1, <3>3
  <2>3. LoadInv'
    BY <1>0, <1>5, <1>6, <2>1, <2>2 DEF LoadInv, Skip
  <2> QED
    BY <1>b, <2>1, <2>3
<1>7. CASE LoadOne
  <2>1. /\ loader'.pc = "load" /\ loader'.file = f /\ loader'.at = loader.at + 1
        /\ loader'.reset = loader.reset /\ loader'.clear = loader.clear
        /\ edited' = edited /\ lost' = lost
    BY <1>1, <1>5, <1>7 DEF LoadOne, LoadState
  <2>2. Cardinality(Left(loader')) = Cardinality(Left(loader)) - 1
    BY <1>1, <1>3, <1>5, <1>7, <2>1, LeftStep DEF LoadOne
  <2>3. /\ Cardinality(Mine(rows', langs)) \in Nat
        /\ Cardinality(Mine(rows', langs)) <= Cardinality(Mine(rows, langs)) + 1
    BY <1>0, <1>7, MineInsert DEF LoadOne
  <2>4. loader.pc = "load"
    BY <1>5, <1>7 DEF LoadOne
  <2>5. loader.reset /\ ~edited =>
          Cardinality(Mine(rows', langs)) + Cardinality(Left(loader'))
            <= Cardinality(Wanted(f)) + lost
    BY <1>0, <1>3, <2>2, <2>3, <2>4 DEF LoadInv
  <2>6. LoadInv'
    BY <2>1, <2>5 DEF LoadInv
  <2> QED
    BY <1>b, <2>1, <2>6
<1>8. ASSUME loader.pc = "load", Retry, edited' = edited,
             loader.reset /\ ~edited =>
               Cardinality(Mine(rows', langs)) + Cardinality(Left(loader))
                 <= Cardinality(Wanted(f)) + lost'
      PROVE DupInv'
  <2>1. CASE loader' = [loader EXCEPT !.pc = "failed"]
    <3>1. loader'.pc = "failed"
      BY <1>1, <1>8, <2>1 DEF LoadState
    <3> QED
      BY <1>a, <3>1
  <2>2. CASE loader' = [loader EXCEPT !.attempt = @ + 1]
    <3>1. /\ loader'.pc = "load" /\ loader'.file = f /\ loader'.at = loader.at
          /\ loader'.reset = loader.reset /\ loader'.clear = loader.clear
      BY <1>1, <1>8, <2>2 DEF LoadState
    <3>2. Left(loader') = Left(loader)
      BY <3>1 DEF Left
    <3>3. LoadInv'
      BY <1>8, <3>1, <3>2 DEF LoadInv
    <3> QED
      BY <1>b, <3>1, <3>3
  <2> QED
    BY <1>8, <2>1, <2>2 DEF Retry
<1>9. CASE LoadFails
  <2>1. loader.pc = "load" /\ edited' = edited
    BY <1>5, <1>9 DEF LoadFails
  <2>2. CASE Retry /\ UNCHANGED <<rows, nextId, lost>>
    BY <1>0, <1>8, <2>1, <2>2 DEF LoadInv
  <2>3. CASE loader' = [loader EXCEPT !.pc = "failed"]
    <3>1. loader'.pc = "failed"
      BY <1>1, <2>1, <2>3 DEF LoadState
    <3> QED
      BY <1>a, <3>1
  <2>4. CASE Insert(LoadBiz, Current, Current.q) /\ lost' = lost + 1 /\ Retry
    <3>1. /\ Cardinality(Mine(rows', langs)) \in Nat
          /\ Cardinality(Mine(rows', langs)) <= Cardinality(Mine(rows, langs)) + 1
      BY <1>0, <2>4, MineInsert
    <3>2. loader.reset /\ ~edited =>
            Cardinality(Mine(rows', langs)) + Cardinality(Left(loader))
              <= Cardinality(Wanted(f)) + lost'
      BY <1>0, <1>3, <2>1, <2>4, <3>1 DEF LoadInv
    <3> HIDE DEF langs, f
    <3> QED
      BY <1>8, <2>1, <2>4, <3>2
  <2> QED
    BY <1>9, <2>2, <2>3, <2>4 DEF LoadFails
<1>10. CASE Abort \/ Again
  <2>1. loader'.pc \notin {"load", "done"}
    BY <1>1, <1>10 DEF Abort, Again, NoLoad, LoadState
  <2> QED
    BY <1>a, <2>1
<1>11. CASE FinishLoad
  <2>1. /\ loader.pc = "load" /\ loader.clear = {} /\ loader.at > Len(Expand(f))
        /\ rows' = rows /\ edited' = edited /\ lost' = lost
    BY <1>11 DEF FinishLoad
  <2>2. /\ loader'.pc = "done" /\ loader'.file = f /\ loader'.reset = loader.reset
    BY <1>1, <1>11, <2>1 DEF FinishLoad, LoadState
  <2>3. Left(loader) = {}
    <3>1. \A i \in Wanted(f) : i \in 1 .. Len(Expand(f)) /\ Len(Expand(f)) \in Nat
      BY <1>1, <2>1, WantedFinite, FileTypes
    <3> QED
      BY <1>1, <2>1, <3>1 DEF Left
  <2>4. langs = FileLangs(f)
    BY <2>1
  <2>5. loader.reset /\ ~edited =>
          Cardinality(Mine(rows, FileLangs(f))) <= Cardinality(Wanted(f)) + lost
    <3>1. Cardinality(Left(loader)) = 0
      BY <2>3, FS_EmptySet
    <3> QED
      BY <1>0, <1>3, <2>1, <2>4, <3>1 DEF LoadInv
  <2>6. DuplicatesOnlyFromLostReplies'
    BY <2>1, <2>2, <2>5 DEF DuplicatesOnlyFromLostReplies, Mine
  <2> QED
    BY <1>0, <2>2, <2>6 DEF DupInv, LoadInv
<1>12. ASSUME NEW e \in Editors, Edit(e) PROVE DupInv'
  <2>1. /\ UNCHANGED <<loader, lost>>
        /\ edited' = TRUE \/ (edited' = edited /\ RowsOf(LoadBiz)' = RowsOf(LoadBiz))
    BY <1>0, <1>12, EditsAreKnown DEF TypeOK
  <2>2. CASE edited' = edited /\ RowsOf(LoadBiz)' = RowsOf(LoadBiz)
    <3>1. \A ls : Mine(rows', ls) = Mine(rows, ls)
      <4>1. \A ls : Mine(rows, ls) = {r \in RowsOf(LoadBiz) : r.lang \in ls}
        BY DEF Mine, RowsOf
      <4>2. \A ls : Mine(rows', ls) = {r \in RowsOf(LoadBiz)' : r.lang \in ls}
        BY DEF Mine, RowsOf
      <4> QED
        BY <2>2, <4>1, <4>2
    <3>2. LoadInv'
      BY <1>0, <2>1, <2>2, <3>1 DEF LoadInv
    <3>3. DuplicatesOnlyFromLostReplies'
      BY <1>0, <2>1, <2>2, <3>1 DEF DuplicatesOnlyFromLostReplies, Mine
    <3> QED
      BY <1>0, <3>2, <3>3 DEF DupInv
  <2> QED
    BY <1>c, <2>1, <2>2
<1>13. CASE UNCHANGED vars
  BY <1>0, <1>13 DEF vars, DupInv, LoadInv, DuplicatesOnlyFromLostReplies
<1> QED
  BY <1>2, <1>4, <1>6, <1>7, <1>9, <1>10, <1>11, <1>12, <1>13 DEF Next, Load

\* A finished load with -reset leaves no FAQ more often than the file has it, but for the
\* inserts whose reply was lost.
THEOREM DuplicatesCorrect == Spec => []DuplicatesOnlyFromLostReplies
<1>1. DupInv => DuplicatesOnlyFromLostReplies
  BY DEF DupInv
<1> QED
  BY <1>1, DupInit, DupStep, PTL DEF Spec

-----------------------------------------------------------------------------
(* The menus a load leaves: what an ordered list is.                       *)

\* An ordered list of rows has each of them once, by increasing id.
LEMMA SortedByIdIs ==
  ASSUME NEW S, IsFiniteSet(S), \A r \in S : r.id \in Nat, \A r, s \in S : r.id = s.id => r = s
  PROVE  LET menu == SortedById(S)
         IN  /\ DOMAIN menu = 1 .. Cardinality(S)
             /\ Cardinality(S) \in Nat
             /\ \A n \in DOMAIN menu : menu[n] \in S
             /\ \A n, k \in DOMAIN menu : n < k => menu[n].id < menu[k].id
             /\ \A s \in S : \E n \in DOMAIN menu : menu[n] = s
<1> DEFINE N == Cardinality(S)
           below(s) == {r \in S : r.id < s.id}
           rank == [s \in S |-> Cardinality(below(s))]
           menu == SortedById(S)
<1>1. menu = [n \in 1 .. N |-> CHOOSE s \in S : Cardinality(below(s)) = n - 1]
  BY DEF SortedById, Ordered
<1>2. N \in Nat
  BY FS_CardinalityType
<1>3. ASSUME NEW s \in S
      PROVE  IsFiniteSet(below(s)) /\ rank[s] \in Nat /\ rank[s] < N
  <2>1. below(s) \subseteq S /\ s \notin below(s)
    OBVIOUS
  <2>2. rank[s] = Cardinality(below(s))
    OBVIOUS
  <2> HIDE DEF below, rank
  <2>3. /\ IsFiniteSet(below(s)) /\ Cardinality(below(s)) <= N /\ Cardinality(below(s)) # N
        /\ Cardinality(below(s)) \in Nat
    BY <2>1, FS_Subset, FS_CardinalityType
  <2> QED
    BY <1>2, <2>2, <2>3
<1>4. ASSUME NEW s \in S, NEW t \in S, s.id < t.id
      PROVE  rank[s] < rank[t]
  <2>1. below(s) \subseteq below(t)
    <3> SUFFICES ASSUME NEW r \in S, r.id < s.id PROVE r.id < t.id
      OBVIOUS
    <3>1. r.id \in Nat /\ s.id \in Nat /\ t.id \in Nat
      OBVIOUS
    <3> QED
      BY <1>4, <3>1
  <2>2. s \in below(t) /\ s \notin below(s)
    BY <1>4
  <2>3. IsFiniteSet(below(t)) /\ rank[s] \in Nat /\ rank[t] \in Nat
    BY <1>3
  <2>4. rank[s] = Cardinality(below(s)) /\ rank[t] = Cardinality(below(t))
    OBVIOUS
  <2> HIDE DEF below, rank
  <2>5. Cardinality(below(s)) <= Cardinality(below(t)) /\ Cardinality(below(s)) # Cardinality(below(t))
    BY <2>1, <2>2, <2>3, FS_Subset
  <2> QED
    BY <2>3, <2>4, <2>5
<1>5. rank \in Surjection(S, 0 .. N - 1)
  <2>1. rank \in [S -> 0 .. N - 1]
    <3>1. ASSUME NEW s \in S  PROVE rank[s] \in 0 .. N - 1
      <4>1. rank[s] \in Nat /\ rank[s] < N
        BY <1>3
      <4> HIDE DEF rank, N
      <4> QED
        BY <1>2, <4>1
    <3> QED
      BY <3>1
  <2>2. ASSUME NEW s \in S, NEW t \in S, rank[s] = rank[t]
        PROVE  s = t
    <3>1. s.id \in Nat /\ t.id \in Nat /\ rank[s] \in Nat /\ rank[t] \in Nat
      BY <1>3
    <3>2. (s.id < t.id => rank[s] < rank[t]) /\ (t.id < s.id => rank[t] < rank[s])
      BY <1>4
    <3> HIDE DEF rank
    <3>3. s.id = t.id
      BY <2>2, <3>1, <3>2
    <3> QED
      BY <3>3
  <2>3. rank \in Injection(S, 0 .. N - 1)
    <3> HIDE DEF rank
    <3> QED
      BY <2>1, <2>2 DEF Injection, IsInjective
  <2>4. IsFiniteSet(0 .. N - 1) /\ Cardinality(0 .. N - 1) = N
    <3> HIDE DEF N
    <3>1. 0 \in Int /\ N - 1 \in Int
      BY <1>2
    <3> QED
      BY <1>2, <3>1, FS_Interval
  <2> HIDE DEF rank
  <2> QED
    BY <2>3, <2>4, FS_Injection
<1> HIDE DEF below
<1>a. \A s \in S : rank[s] = Cardinality(below(s))
  OBVIOUS
<1> HIDE DEF rank
<1>6. ASSUME NEW n \in 1 .. N
      PROVE  menu[n] \in S /\ rank[menu[n]] = n - 1
  <2> HIDE DEF N, menu
  <2>1. n - 1 \in 0 .. N - 1
    BY <1>2
  <2>2. \E s \in S : rank[s] = n - 1
    BY <1>5, <2>1 DEF Surjection
  <2>3. \E s \in S : Cardinality(below(s)) = n - 1
    BY <1>a, <2>2
  <2>4. menu[n] = CHOOSE s \in S : Cardinality(below(s)) = n - 1
    BY <1>1
  <2>5. menu[n] \in S /\ Cardinality(below(menu[n])) = n - 1
    BY <2>3, <2>4
  <2> QED
    BY <1>a, <2>5
<1>7. DOMAIN menu = 1 .. N
  BY <1>1
<1> HIDE DEF N, menu
<1>8. ASSUME NEW n \in 1 .. N, NEW k \in 1 .. N, n < k
      PROVE  menu[n].id < menu[k].id
  <2>1. /\ menu[n] \in S /\ menu[k] \in S
        /\ rank[menu[n]] = n - 1 /\ rank[menu[k]] = k - 1
    BY <1>6
  <2>2. rank[menu[n]] < rank[menu[k]] /\ rank[menu[n]] \in Nat /\ rank[menu[k]] \in Nat
    BY <1>2, <1>8, <2>1
  <2>3. menu[k].id # menu[n].id
    BY <2>1, <2>2
  <2>4. ~(menu[k].id < menu[n].id)
    <3> SUFFICES ASSUME menu[k].id < menu[n].id PROVE FALSE
      OBVIOUS
    <3>1. rank[menu[k]] < rank[menu[n]]
      BY <1>4, <2>1
    <3> QED
      BY <2>2, <3>1
  <2>5. menu[n].id \in Nat /\ menu[k].id \in Nat
    BY <2>1
  <2> QED
    BY <2>3, <2>4, <2>5
<1>9. ASSUME NEW s \in S
      PROVE  \E n \in 1 .. N : menu[n] = s
  <2>1. rank[s] \in Nat /\ rank[s] < N
    BY <1>3
  <2>2. rank[s] + 1 \in 1 .. N /\ (rank[s] + 1) - 1 = rank[s]
    BY <1>2, <2>1
  <2>3. menu[rank[s] + 1] \in S /\ rank[menu[rank[s] + 1]] = rank[s]
    BY <1>6, <2>2
  <2>4. menu[rank[s] + 1] = s
    <3> DEFINE t == menu[rank[s] + 1]
    <3>1. t \in S /\ rank[t] = rank[s]
      BY <2>3
    <3> HIDE DEF t
    <3>2. rank[t] \in Nat /\ t.id \in Nat /\ s.id \in Nat
      BY <1>3, <3>1
    <3>3. ~(t.id < s.id) /\ ~(s.id < t.id)
      <4>1. t.id < s.id => rank[t] < rank[s]
        BY <1>4, <3>1
      <4>2. s.id < t.id => rank[s] < rank[t]
        BY <1>4, <3>1
      <4> QED
        BY <3>1, <3>2, <4>1, <4>2
    <3>4. t.id = s.id
      BY <3>2, <3>3
    <3>5. t = s
      BY <3>1, <3>4
    <3> QED
      BY <3>5 DEF t
  <2> QED
    BY <2>2, <2>4
<1> QED
  BY <1>2, <1>6, <1>7, <1>8, <1>9 DEF menu, N

-----------------------------------------------------------------------------
(* What a load has left so far comes from the file, place by place.        *)

\* from tells of each of the rows M the place in file f it was made from: the rows come
\* from places up to at, from each of those before it, and in their order.
Traces(from, M, f, at) ==
  /\ from \in [M -> Wanted(f)]
  /\ \A r \in M : LET x == Expand(f)[from[r]]
                  IN  r.q = x.q /\ r.a = x.a /\ r.cat = x.cat /\ r.lang = x.lang
  /\ \A r, s \in M : r.id < s.id => from[r] <= from[s]
  /\ \A r \in M : from[r] <= at
  /\ \A i \in Wanted(f) : i < at => \E r \in M : from[r] = i

\* The row of the FAQ the loader is at comes after all others.
LEMMA TraceGrows ==
  ASSUME NEW f \in Files, NEW M, NEW from, NEW at, Traces(from, M, f, at), at \in Wanted(f),
         NEW next, next \in {at, at + 1},
         NEW new, new.id \in Nat, \A r \in M : r.id \in Nat /\ r.id < new.id,
         new.q = Expand(f)[at].q, new.a = Expand(f)[at].a,
         new.cat = Expand(f)[at].cat, new.lang = Expand(f)[at].lang
  PROVE  \E after : Traces(after, M \cup {new}, f, next)
<1> DEFINE after == [r \in M \cup {new} |-> IF r = new THEN at ELSE from[r]]
<1>1. \A i \in Wanted(f) : i \in Nat
  BY WantedFinite, FileTypes
<1>2. new \notin M
  OBVIOUS
<1>3. from \in [M -> Wanted(f)]
  BY DEF Traces
<1>4. after \in [M \cup {new} -> Wanted(f)] /\ after[new] = at /\ \A r \in M : after[r] = from[r]
  BY <1>2, <1>3
<1> HIDE DEF after
<1>5. \A r \in M \cup {new} :
        LET x == Expand(f)[after[r]]
        IN  r.q = x.q /\ r.a = x.a /\ r.cat = x.cat /\ r.lang = x.lang
  BY <1>4 DEF Traces
<1>6. at \in Nat /\ at <= next /\ next \in Nat
  BY <1>1
<1>7. \A r \in M : from[r] <= at /\ from[r] \in Nat
  BY <1>1, <1>3 DEF Traces
<1>8. ASSUME NEW r \in M \cup {new}, NEW s \in M \cup {new}, r.id < s.id
      PROVE  after[r] <= after[s]
  <2>1. CASE r \in M /\ s \in M
    BY <1>4, <1>8, <2>1 DEF Traces
  <2>2. CASE r \in M /\ s = new
    BY <1>4, <1>7, <2>2
  <2>3. CASE r = new
    BY <1>6, <1>8, <2>3, <1>4
  <2> QED
    BY <2>1, <2>2, <2>3
<1>9. \A r \in M \cup {new} : after[r] <= next
  BY <1>4, <1>6, <1>7
<1>10. ASSUME NEW i \in Wanted(f), i < next
       PROVE  \E r \in M \cup {new} : after[r] = i
  <2>1. CASE i = at
    BY <1>4, <2>1
  <2>2. CASE i # at
    <3>1. i < at
      BY <1>1, <1>6, <1>10, <2>2
    <3> QED
      BY <1>4, <3>1 DEF Traces
  <2> QED
    BY <2>1, <2>2
<1>11. Traces(after, M \cup {new}, f, next)
  BY <1>4, <1>5, <1>8, <1>9, <1>10 DEF Traces
<1> QED
  BY <1>11

\* A FAQ that is skipped leaves no row.
LEMMA TraceSkips ==
  ASSUME NEW f \in Files, NEW M, NEW from, NEW at \in Nat, Traces(from, M, f, at),
         at \notin Wanted(f)
  PROVE  Traces(from, M, f, at + 1)
<1>1. \A i \in Wanted(f) : i \in Nat
  BY WantedFinite, FileTypes
<1>2. \A i \in Wanted(f) : i < at + 1 => i < at
  BY <1>1
<1>3. \A r \in M : from[r] \in Nat /\ from[r] <= at + 1
  BY <1>1 DEF Traces
<1> QED
  BY <1>2, <1>3 DEF Traces

-----------------------------------------------------------------------------
(* The menus of a load that traces all of its file. *)

\* The rows of a category and the places they were made from.
LEMMA CategoryTraced ==
  ASSUME TypeOK, NEW f \in Files, NEW l \in FileLangs(f), NEW c, NEW from, NEW at,
         Traces(from, Mine(rows, FileLangs(f)), f, at),
         \A i \in Wanted(f) : i < at
  PROVE  LET S == InCategory(LoadBiz, c, l)
         IN  /\ IsFiniteSet(S) /\ S \subseteq Mine(rows, FileLangs(f))
             /\ \A r \in S : r.id \in Nat
             /\ \A r, s \in S : r.id = s.id => r = s
             /\ \A r \in S : /\ from[r] \in Places(f, c, l)
                             /\ r.q = Expand(f)[from[r]].q /\ r.a = Expand(f)[from[r]].a
             /\ \A i \in Places(f, c, l) : \E r \in S : from[r] = i
             /\ \A r, s \in S : r.id < s.id => from[r] <= from[s]
<1> DEFINE M == Mine(rows, FileLangs(f))
           S == InCategory(LoadBiz, c, l)
<1>1. S = {r \in M : r.lang = l /\ r.cat = c}
  BY DEF InCategory, Select, Mine
<1>2. IsFiniteSet(M) /\ \A r \in M : r \in rows
  BY RowsFinite DEF Mine
<1>3. \A r \in M : r.id \in Nat
  BY <1>2, ConstantTypes DEF TypeOK
<1>4. \A r, s \in M : r.id = s.id => r = s
  BY <1>2 DEF TypeOK
<1> HIDE DEF M, S
<1>5. IsFiniteSet(S) /\ S \subseteq M
  BY <1>1, <1>2, FS_Subset
<1>6. Traces(from, M, f, at)
  BY DEF M
<1>7. \A r \in S : /\ from[r] \in Places(f, c, l)
                   /\ r.q = Expand(f)[from[r]].q /\ r.a = Expand(f)[from[r]].a
  BY <1>1, <1>6 DEF Traces, Places, WantedIn
<1>8. ASSUME NEW i \in Places(f, c, l)  PROVE \E r \in S : from[r] = i
  <2>1. i \in Wanted(f) /\ Expand(f)[i].lang = l /\ Expand(f)[i].cat = c
    BY DEF Places, WantedIn
  <2>2. PICK r \in M : from[r] = i
    BY <1>6, <2>1 DEF Traces
  <2>3. r \in S
    BY <1>1, <1>6, <2>1, <2>2 DEF Traces
  <2> QED
    BY <2>2, <2>3
<1>9. \A r, s \in S : r.id < s.id => from[r] <= from[s]
  BY <1>5, <1>6 DEF Traces
<1> QED
  BY <1>3, <1>4, <1>5, <1>7, <1>8, <1>9 DEF S, M

\* A category's list repeats the file's.
LEMMA ListTraced ==
  ASSUME TypeOK, NEW f \in Files, NEW l \in FileLangs(f), NEW c, NEW from, NEW at,
         Traces(from, Mine(rows, FileLangs(f)), f, at),
         \A i \in Wanted(f) : i < at
  PROVE  Repeats(ListByCategory(LoadBiz, c, l), Expand(f), Places(f, c, l))
<1> DEFINE S == InCategory(LoadBiz, c, l)
           P == Places(f, c, l)
           menu == ListByCategory(LoadBiz, c, l)
           place == [n \in DOMAIN menu |-> from[menu[n]]]
<1>1. /\ IsFiniteSet(S)
      /\ \A r \in S : r.id \in Nat
      /\ \A r, s \in S : r.id = s.id => r = s
      /\ \A r \in S : /\ from[r] \in P
                      /\ r.q = Expand(f)[from[r]].q /\ r.a = Expand(f)[from[r]].a
      /\ \A i \in P : \E r \in S : from[r] = i
      /\ \A r, s \in S : r.id < s.id => from[r] <= from[s]
  BY CategoryTraced
<1>2. menu = SortedById(S)
  BY DEF ListByCategory
<1> HIDE DEF S, P, menu
<1>3. /\ \A n \in DOMAIN menu : menu[n] \in S
      /\ \A n, k \in DOMAIN menu : n < k => menu[n].id < menu[k].id
      /\ \A s \in S : \E n \in DOMAIN menu : menu[n] = s
  BY <1>1, <1>2, SortedByIdIs
<1>4. place \in [DOMAIN menu -> P] /\ \A n \in DOMAIN menu : place[n] = from[menu[n]]
  BY <1>1, <1>3
<1>5. DOMAIN place = DOMAIN menu
  OBVIOUS
<1> HIDE DEF place
<1>6. Range(place) = P
  <2>1. \A i \in P : \E n \in DOMAIN menu : place[n] = i
    BY <1>1, <1>3, <1>4
  <2>2. \A n \in DOMAIN menu : place[n] \in P
    BY <1>4
  <2> QED
    BY <1>5, <2>1, <2>2 DEF Range
<1>7. \A n, k \in DOMAIN menu : n < k => place[n] <= place[k]
  BY <1>1, <1>3, <1>4
<1>8. \A n \in DOMAIN menu : /\ menu[n].q = Expand(f)[place[n]].q
                             /\ menu[n].a = Expand(f)[place[n]].a
  BY <1>1, <1>3, <1>4
<1> QED
  BY <1>4, <1>6, <1>7, <1>8 DEF Repeats, menu, P

\* The first row of a category was made from the first of its places.
LEMMA FirstTraced ==
  ASSUME TypeOK, NEW f \in Files, NEW l \in FileLangs(f), NEW c, NEW from, NEW at,
         Traces(from, Mine(rows, FileLangs(f)), f, at),
         \A i \in Wanted(f) : i < at,
         Places(f, c, l) # {}
  PROVE  \E r \in InCategory(LoadBiz, c, l) :
            /\ r.id = MinId(InCategory(LoadBiz, c, l)) /\ r.id \in Nat
            /\ from[r] = Min(Places(f, c, l)) /\ from[r] \in Places(f, c, l)
<1> DEFINE S == InCategory(LoadBiz, c, l)
           P == Places(f, c, l)
           I == {r.id : r \in S}
<1>1. /\ \A r \in S : r.id \in Nat
      /\ \A r, s \in S : r.id = s.id => r = s
      /\ \A r \in S : from[r] \in P
      /\ \A i \in P : \E r \in S : from[r] = i
      /\ \A r, s \in S : r.id < s.id => from[r] <= from[s]
  BY CategoryTraced
<1>2. P \in SUBSET Nat
  BY WantedFinite, FileTypes DEF Places, WantedIn
<1> HIDE DEF S, P
<1>3. I \in SUBSET Nat /\ I # {}
  BY <1>1 DEF P
<1> HIDE DEF I
<1>4. Min(I) \in I /\ \A k \in I : Min(I) <= k
  BY <1>3, MinIs
<1>5. PICK r \in S : r.id = Min(I)
  BY <1>4 DEF I
<1>6. \A s \in S : r.id <= s.id
  BY <1>4, <1>5 DEF I
<1>7. Min(P) \in P /\ \A k \in P : Min(P) <= k
  BY <1>2, MinIs DEF P
<1>8. PICK s \in S : from[s] = Min(P)
  BY <1>1, <1>7
<1>9. from[r] <= Min(P)
  <2>1. CASE r.id < s.id
    BY <1>1, <1>8, <2>1
  <2>2. CASE r.id = s.id
    <3>1. r = s
      BY <1>1, <2>2
    <3>2. Min(P) \in Nat
      BY <1>2, <1>7
    <3> QED
      BY <1>8, <3>1, <3>2
  <2>3. r.id \in Nat /\ s.id \in Nat /\ r.id <= s.id
    BY <1>1, <1>6
  <2> QED
    BY <2>1, <2>2, <2>3
<1>10. from[r] = Min(P)
  <2>1. from[r] \in P /\ Min(P) <= from[r]
    BY <1>1, <1>7
  <2>2. from[r] \in Nat /\ Min(P) \in Nat
    BY <1>2, <1>7, <2>1
  <2> QED
    BY <1>9, <2>1, <2>2
<1>11. MinId(S) = Min(I)
  BY DEF MinId, I
<1>12. r.id = MinId(S) /\ r.id \in Nat /\ from[r] \in P
  BY <1>1, <1>5, <1>11
<1> QED
  BY <1>10, <1>12 DEF S, P

\* The categories come in the order of the file.
LEMMA CategoriesTraced ==
  ASSUME TypeOK, NEW f \in Files, NEW l \in FileLangs(f), NEW from, NEW at,
         Traces(from, Mine(rows, FileLangs(f)), f, at),
         \A i \in Wanted(f) : i < at
  PROVE  Categories(LoadBiz, l)
           = Ordered({Expand(f)[i].cat : i \in WantedIn(f, l)} \ {""}, LAMBDA c : Min(Places(f, c, l)))
<1> DEFINE M == Mine(rows, FileLangs(f))
           cats == {r.cat : r \in Select(LoadBiz, l)} \ {""}
           first(c) == MinId(InCategory(LoadBiz, c, l))
           place(c) == Min(Places(f, c, l))
<1>1. cats = {Expand(f)[i].cat : i \in WantedIn(f, l)} \ {""}
  <2>1. Select(LoadBiz, l) = {r \in M : r.lang = l}
    BY DEF Select, Mine
  <2>2. Traces(from, M, f, at)
    OBVIOUS
  <2> HIDE DEF M
  <2>3. ASSUME NEW r \in M, r.lang = l
        PROVE  \E i \in WantedIn(f, l) : Expand(f)[i].cat = r.cat
    BY <2>2, <2>3 DEF Traces, WantedIn
  <2>4. ASSUME NEW i \in WantedIn(f, l)
        PROVE  \E r \in M : r.lang = l /\ r.cat = Expand(f)[i].cat
    BY <2>2 DEF Traces, WantedIn
  <2>5. ASSUME NEW c  PROVE c \in cats <=> c \in {Expand(f)[i].cat : i \in WantedIn(f, l)} \ {""}
    <3>1. c \in cats <=> c # "" /\ \E r \in M : r.lang = l /\ r.cat = c
      BY <2>1
    <3>2. (\E r \in M : r.lang = l /\ r.cat = c)
            <=> \E i \in WantedIn(f, l) : Expand(f)[i].cat = c
      BY <2>3, <2>4
    <3> HIDE DEF cats
    <3> QED
      BY <3>1, <3>2
  <2> HIDE DEF cats
  <2> QED
    BY <2>5
<1>2. \A c \in cats : Places(f, c, l) # {}
  BY <1>1 DEF Places
<1>3. ASSUME NEW c \in cats
      PROVE  \E r \in InCategory(LoadBiz, c, l) :
               /\ r.id = first(c) /\ r.id \in Nat
               /\ from[r] = place(c) /\ from[r] \in Places(f, c, l)
  BY <1>2, FirstTraced
<1> HIDE DEF cats
<1>4. ASSUME NEW c \in cats, NEW d \in cats
      PROVE  first(c) < first(d) <=> place(c) < place(d)
  <2>1. PICK r \in InCategory(LoadBiz, c, l) :
          /\ r.id = first(c) /\ r.id \in Nat
          /\ from[r] = place(c) /\ from[r] \in Places(f, c, l)
    BY <1>3
  <2>2. PICK s \in InCategory(LoadBiz, d, l) :
          /\ s.id = first(d) /\ s.id \in Nat
          /\ from[s] = place(d) /\ from[s] \in Places(f, d, l)
    BY <1>3
  <2>3. r \in M /\ s \in M
    BY CategoryTraced
  <2>4. place(c) \in Nat /\ place(d) \in Nat
    BY <2>1, <2>2, WantedFinite, FileTypes DEF Places, WantedIn
  <2>5. /\ r.id < s.id => from[r] <= from[s]
        /\ s.id < r.id => from[s] <= from[r]
    BY <2>3 DEF Traces
  <2>6. c # d => place(c) # place(d)
    BY <2>1, <2>2 DEF Places
  <2>7. c # d => first(c) # first(d)
    <3>1. r.cat = c /\ s.cat = d /\ r \in rows /\ s \in rows
      BY DEF InCategory, Select
    <3>2. r.id = s.id => r = s
      BY <3>1 DEF TypeOK
    <3> QED
      BY <2>1, <2>2, <3>1, <3>2
  <2>8. CASE c = d
    <3>1. first(c) \in Nat
      BY <2>1
    <3> HIDE DEF first, place
    <3> QED
      BY <2>4, <2>8, <3>1
  <2>9. CASE c # d
    <3>1. /\ r.id = first(c) /\ s.id = first(d) /\ first(c) \in Nat /\ first(d) \in Nat
          /\ from[r] = place(c) /\ from[s] = place(d)
      BY <2>1, <2>2
    <3> HIDE DEF first, place
    <3> QED
      BY <2>4, <2>5, <2>6, <2>7, <2>9, <3>1
  <2> QED
    BY <2>8, <2>9
<1>5. Categories(LoadBiz, l)
        = [n \in 1 .. Cardinality(cats) |->
             CHOOSE c \in cats : Cardinality({d \in cats : first(d) < first(c)}) = n - 1]
  BY DEF Categories, Ordered, cats
<1>6. Ordered(cats, LAMBDA c : Min(Places(f, c, l)))
        = [n \in 1 .. Cardinality(cats) |->
             CHOOSE c \in cats : Cardinality({d \in cats : place(d) < place(c)}) = n - 1]
  BY DEF Ordered
<1> HIDE DEF first, place
<1>7. \A c \in cats : {d \in cats : first(d) < first(c)} = {d \in cats : place(d) < place(c)}
  BY <1>4
<1>8. ASSUME NEW n
      PROVE  (CHOOSE c \in cats : Cardinality({d \in cats : first(d) < first(c)}) = n - 1)
             = (CHOOSE c \in cats : Cardinality({d \in cats : place(d) < place(c)}) = n - 1)
  BY <1>7
<1>9. Categories(LoadBiz, l) = Ordered(cats, LAMBDA c : Min(Places(f, c, l)))
  BY <1>5, <1>6, <1>8
<1> QED
  BY <1>1, <1>9

-----------------------------------------------------------------------------
(* The steps of a load keep its trace.                                     *)

\* What a load with -reset that nobody edited over has left in the languages cleared so
\* far traces the part of the file it has been through.
TraceInv ==
  /\ loader.pc \in {"load", "done"} /\ loader.reset /\ ~edited =>
       \E from : Traces(from, Mine(rows, FileLangs(loader.file) \ loader.clear),
                        loader.file, loader.at)
  /\ loader.pc = "done" => loader.clear = {} /\ loader.at > Len(Expand(loader.file))

AuthoredInv == TypeOK /\ TraceInv

LEMMA AuthoredInit == Init => AuthoredInv
<1> SUFFICES ASSUME Init PROVE AuthoredInv
  OBVIOUS
<1>1. loader.pc = "idle"
  BY DEF Init, NoLoad
<1> QED
  BY <1>1, TypeInit DEF AuthoredInv, TraceInv

\* An insert for the load adds a row to those it traces, and it comes last.
LEMMA InsertTraced ==
  ASSUME TypeOK, loader.pc = "load", Loading, ~Blank(Current),
         Insert(LoadBiz, Current, Current.q),
         NEW from, NEW next \in {loader.at, loader.at + 1},
         Traces(from, Mine(rows, FileLangs(loader.file) \ loader.clear), loader.file, loader.at)
  PROVE  \E after : Traces(after, Mine(rows', FileLangs(loader.file) \ loader.clear),
                           loader.file, next)
<1> DEFINE f == loader.file
           x == Expand(f)[loader.at]
           new == Row(nextId, LoadBiz, x, x.q)
           M == Mine(rows, FileLangs(f) \ loader.clear)
<1>1. f \in Files /\ loader.at \in Nat /\ loader.at \in 1 .. Len(Expand(f)) + 1
  BY DEF TypeOK, NoLoad, LoadState
<1>2. loader.clear = {} /\ loader.at \in DOMAIN Expand(f) /\ loader.at \in Wanted(f)
  BY <1>1, FileTypes DEF Loading, Current, Wanted
<1>3. x.lang \in FileLangs(f)
  BY <1>2 DEF FileLangs
<1>4. /\ new.id = nextId /\ new.biz = LoadBiz /\ new.q = x.q /\ new.a = x.a /\ new.cat = x.cat
      /\ new.lang = x.lang
  BY DEF Row
<1>5. rows' = rows \cup {new}
  BY DEF Insert, Current
<1> HIDE DEF new
<1>6. Mine(rows', FileLangs(f) \ loader.clear) = M \cup {new}
  BY <1>2, <1>3, <1>4, <1>5 DEF Mine
<1>7. nextId \in Nat /\ \A r \in M : r.id \in Nat /\ r.id < nextId
  <2>1. nextId \in Nat
    BY ConstantTypes DEF TypeOK
  <2>2. \A r \in M : r.id \in 1 .. nextId - 1
    BY DEF TypeOK, Mine
  <2> QED
    BY <2>1, <2>2
<1>8. Traces(from, M, f, loader.at)
  OBVIOUS
<1> HIDE DEF M, f
<1>9. \E after : Traces(after, M \cup {new}, f, next)
  BY <1>1, <1>2, <1>4, <1>7, <1>8, TraceGrows
<1> QED
  BY <1>6, <1>9 DEF f

LEMMA AuthoredStep == AuthoredInv /\ [Next]_vars => AuthoredInv'
<1> SUFFICES ASSUME AuthoredInv, [Next]_vars PROVE AuthoredInv'
  OBVIOUS
<1>0. TypeOK /\ TypeOK' /\ TraceInv
  BY TypeStep DEF AuthoredInv
<1>a. ASSUME loader'.pc \notin {"load", "done"} PROVE AuthoredInv'
  BY <1>0, <1>a DEF AuthoredInv, TraceInv
<1> DEFINE f == loader.file
           M == Mine(rows, FileLangs(f) \ loader.clear)
           Traced == \E from : Traces(from, M, f, loader.at)
           After == \E from : Traces(from, Mine(rows', FileLangs(loader'.file) \ loader'.clear),
                                     loader'.file, loader'.at)
<1>b. ASSUME loader'.pc = "load", loader'.reset /\ ~edited' => After
      PROVE  AuthoredInv'
  BY <1>0, <1>b DEF AuthoredInv, TraceInv
<1>1. ASSUME loader.pc = "load"
      PROVE /\ loader \in LoadState /\ loader.file \in Files /\ loader.at \in Nat
            /\ loader.at \in 1 .. Len(Expand(loader.file)) + 1
            /\ loader.reset /\ ~edited => Traced
  <2>1. /\ loader \in LoadState /\ loader.file \in Files /\ loader.at \in Nat
        /\ loader.at \in 1 .. Len(Expand(loader.file)) + 1
    BY <1>0, <1>1 DEF TypeOK, NoLoad, LoadState
  <2>2. loader.reset /\ ~edited => Traced
    BY <1>0, <1>1, Zenon DEF TraceInv
  <2> QED
    BY <2>1, <2>2
<1>2. CASE StartLoad
  <2>1. PICK g \in Files, reset \in BOOLEAN :
          loader' = [pc |-> "load", file |-> g, reset |-> reset, attempt |-> 1, at |-> 1,
                     clear |-> IF reset THEN ResetLangs(Expand(g)) ELSE {}]
    BY <1>2 DEF StartLoad
  <2>2. ASSUME reset PROVE After
    <3>1. loader'.file = g /\ loader'.at = 1 /\ loader'.clear = FileLangs(g)
      BY <2>1, <2>2 DEF FileLangs, ResetLangs
    <3>2. Mine(rows', FileLangs(loader'.file) \ loader'.clear) = {}
      BY <3>1 DEF Mine
    <3>3. Traces([r \in {} |-> 0], {}, g, 1)
      <4>1. \A i \in Wanted(g) : i \in Nat /\ i >= 1
        BY WantedFinite, FileTypes
      <4> QED
        BY <4>1 DEF Traces
    <3> QED
      BY <3>1, <3>2, <3>3
  <2>3. loader'.pc = "load" /\ loader'.reset = reset
    BY <2>1
  <2> HIDE DEF After
  <2> QED
    BY <1>b, <2>2, <2>3
<1>4. CASE Reset
  <2>1. PICK l \in loader.clear :
          /\ rows' = {r \in rows : ~(r.biz = LoadBiz /\ r.lang = l)}
          /\ loader' = [loader EXCEPT !.clear = @ \ {l}]
    BY <1>4 DEF Reset
  <2>2. /\ loader.pc = "load"
        /\ loader'.pc = "load" /\ loader'.file = f /\ loader'.at = loader.at
        /\ loader'.reset = loader.reset /\ loader'.clear = loader.clear \ {l}
        /\ edited' = edited
    BY <1>1, <1>4, <2>1 DEF Reset, LoadState
  <2>3. Mine(rows', FileLangs(f) \ (loader.clear \ {l})) = M
    BY <2>1 DEF Mine
  <2>4. Traced => After
    BY <2>2, <2>3
  <2> HIDE DEF Traced, After
  <2> QED
    BY <1>1, <1>b, <2>2, <2>4
<1>6. CASE Skip
  <2>1. /\ loader.pc = "load"
        /\ loader'.pc = "load" /\ loader'.file = f /\ loader'.at = loader.at + 1
        /\ loader'.reset = loader.reset /\ loader'.clear = loader.clear
        /\ edited' = edited /\ rows' = rows
    BY <1>1, <1>6 DEF Skip, Loading, LoadState
  <2>2. loader.at \notin Wanted(f)
    BY <1>6 DEF Skip, Current, Wanted
  <2>3. Traced => After
    BY <1>1, <2>1, <2>2, TraceSkips
  <2> HIDE DEF Traced, After
  <2> QED
    BY <1>1, <1>b, <2>1, <2>3
<1>7. CASE LoadOne
  <2>1. /\ loader.pc = "load" /\ Loading /\ ~Blank(Current)
        /\ Insert(LoadBiz, Current, Current.q)
        /\ loader'.pc = "load" /\ loader'.file = f /\ loader'.at = loader.at + 1
        /\ loader'.reset = loader.reset /\ loader'.clear = loader.clear
        /\ edited' = edited
    BY <1>1, <1>7 DEF LoadOne, Loading, LoadState
  <2>2. Traced => After
    BY <1>0, <2>1, InsertTraced
  <2> HIDE DEF Traced, After
  <2> QED
    BY <1>1, <1>b, <2>1, <2>2
<1>8. ASSUME loader.pc = "load", Retry, edited' = edited,
             Traced =>
               \E from : Traces(from, Mine(rows', FileLangs(f) \ loader.clear), f, loader.at)
      PROVE  AuthoredInv'
  <2>1. CASE loader' = [loader EXCEPT !.pc = "failed"]
    <3>1. loader'.pc = "failed"
      BY <1>1, <1>8, <2>1 DEF LoadState
    <3> QED
      BY <1>a, <3>1
  <2>2. CASE loader' = [loader EXCEPT !.attempt = @ + 1]
    <3>1. /\ loader'.pc = "load" /\ loader'.file = f /\ loader'.at = loader.at
          /\ loader'.reset = loader.reset /\ loader'.clear = loader.clear
      BY <1>1, <1>8, <2>2 DEF LoadState
    <3>2. Traced => After
      BY <1>8, <3>1
    <3> HIDE DEF Traced, After
    <3> QED
      BY <1>1, <1>8, <1>b, <3>1, <3>2
  <2> QED
    BY <1>8, <2>1, <2>2 DEF Retry
<1>9. CASE LoadFails
  <2>1. loader.pc = "load" /\ edited' = edited /\ Loading /\ ~Blank(Current)
    BY <1>9 DEF LoadFails, Loading
  <2>2. CASE Retry /\ UNCHANGED <<rows, nextId, lost>>
    BY <1>8, <2>1, <2>2
  <2>3. CASE loader' = [loader EXCEPT !.pc = "failed"]
    <3>1. loader'.pc = "failed"
      BY <1>1, <2>1, <2>3 DEF LoadState
    <3> QED
      BY <1>a, <3>1
  <2>4. CASE Insert(LoadBiz, Current, Current.q) /\ lost' = lost + 1 /\ Retry
    <3>1. Traced =>
            \E from : Traces(from, Mine(rows', FileLangs(f) \ loader.clear), f, loader.at)
      BY <1>0, <2>1, <2>4, InsertTraced
    <3> HIDE DEF Traced
    <3> QED
      BY <1>8, <2>1, <2>4, <3>1
  <2> QED
    BY <1>9, <2>2, <2>3, <2>4 DEF LoadFails
<1>10. CASE Abort \/ Again
  <2>1. loader'.pc \notin {"load", "done"}
    BY <1>1, <1>10 DEF Abort, Again, NoLoad, LoadState
  <2> QED
    BY <1>a, <2>1
<1>11. CASE FinishLoad
  <2>1. /\ loader.pc = "load" /\ loader.clear = {} /\ loader.at > Len(Expand(f))
        /\ rows' = rows /\ edited' = edited
    BY <1>11 DEF FinishLoad
  <2>2. /\ loader'.pc = "done" /\ loader'.file = f /\ loader'.reset = loader.reset
        /\ loader'.at = loader.at /\ loader'.clear = loader.clear
    BY <1>1, <1>11, <2>1 DEF FinishLoad, LoadState
  <2>3. Traced => After
    BY <2>1, <2>2
  <2>4. TraceInv'
    BY <1>1, <2>1, <2>2, <2>3 DEF TraceInv
  <2> QED
    BY <1>0, <2>4 DEF AuthoredInv
<1>12. ASSUME NEW e \in Editors, Edit(e) PROVE AuthoredInv'
  <2>1. /\ UNCHANGED <<loader, lost>>
        /\ edited' = TRUE \/ (edited' = edited /\ RowsOf(LoadBiz)' = RowsOf(LoadBiz))
    BY <1>0, <1>12, EditsAreKnown DEF TypeOK
  <2>2. CASE edited' = edited /\ RowsOf(LoadBiz)' = RowsOf(LoadBiz)
    <3>1. \A ls : Mine(rows', ls) = Mine(rows, ls)
      <4>1. \A ls : Mine(rows, ls) = {r \in RowsOf(LoadBiz) : r.lang \in ls}
        BY DEF Mine, RowsOf
      <4>2. \A ls : Mine(rows', ls) = {r \in RowsOf(LoadBiz)' : r.lang \in ls}
        BY DEF Mine, RowsOf
      <4> QED
        BY <2>2, <4>1, <4>2
    <3>2. TraceInv'
      BY <1>0, <2>1, <2>2, <3>1 DEF TraceInv
    <3> QED
      BY <1>0, <3>2 DEF AuthoredInv
  <2>3. CASE edited' = TRUE
    BY <1>0, <2>1, <2>3 DEF AuthoredInv, TraceInv
  <2> QED
    BY <2>1, <2>2, <2>3
<1>13. CASE UNCHANGED vars
  BY <1>0, <1>13 DEF vars, AuthoredInv, TraceInv
<1> QED
  BY <1>2, <1>4, <1>6, <1>7, <1>9, <1>10, <1>11, <1>12, <1>13 DEF Next, Load

\* A finished load with -reset that nobody edited over leaves the menus of the file.
THEOREM MenusCorrect == Spec => []MenusAsAuthored
<1>1. AuthoredInv => MenusAsAuthored
  <2> SUFFICES ASSUME AuthoredInv, loader.pc = "done", loader.reset, ~edited,
                      NEW l \in FileLangs(loader.file)
               PROVE  LET f == loader.file
                          faqs == Expand(f)
                          cats == {faqs[i].cat : i \in WantedIn(f, l)} \ {""}
                      IN /\ Categories(LoadBiz, l) = Ordered(cats, LAMBDA c : Min(Places(f, c, l)))
                         /\ \A c \in cats : Repeats(ListByCategory(LoadBiz, c, l), faqs,
                                                    Places(f, c, l))
    BY DEF MenusAsAuthored
  <2>1. loader.file \in Files /\ loader.at \in Nat
    BY DEF AuthoredInv, TypeOK, NoLoad, LoadState
  <2>2. /\ loader.clear = {} /\ loader.at > Len(Expand(loader.file))
        /\ \E from : Traces(from, Mine(rows, FileLangs(loader.file) \ loader.clear),
                            loader.file, loader.at)
    BY DEF AuthoredInv, TraceInv
  <2>3. PICK from : Traces(from, Mine(rows, FileLangs(loader.file)), loader.file, loader.at)
    BY <2>2
  <2>4. \A i \in Wanted(loader.file) : i < loader.at
    BY <2>1, <2>2, WantedFinite, FileTypes
  <2>5. TypeOK
    BY DEF AuthoredInv
  <2> QED
    BY <2>1, <2>3, <2>4, <2>5, CategoriesTraced, ListTraced
<1> QED
  BY <1>1, AuthoredInit, AuthoredStep, PTL DEF Spec
=============================================================================
