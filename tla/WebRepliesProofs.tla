-------------------------- MODULE WebRepliesProofs --------------------------
(***************************************************************************)
(* What a page shows against the rows stored for its visitor, for any      *)
(* number of pages, polls under way, replies and reloads.  An answer holds *)
(* every row between the cursor it was asked with and the greatest id it   *)
(* returns, save those that commit later; and those are overtaken.         *)
(***************************************************************************)
EXTENDS WebReplies, FiniteSetTheorems, WellFoundedInduction, TLAPS

\* A set of ids that is not empty has a greatest one.
LEMMA GreatestExists ==
    ASSUME NEW S \in SUBSET (0..MaxReplies), S # {}
    PROVE  Greatest(S) \in S /\ \A k \in S : k <= Greatest(S)
<1> DEFINE T == {MaxReplies - k : k \in S}
<1> DEFINE R == OpToRel(<, Nat)
<1>1. MaxReplies \in Nat
    BY BoundsAssumption
<1>0. \A k \in S : k \in Nat /\ MaxReplies - k \in Nat
    BY <1>1
<1>2. T \subseteq Nat /\ T # {}
    <2>1. \A y \in T : \E k \in S : y = MaxReplies - k
        OBVIOUS
    <2>2. PICK k \in S : TRUE
        OBVIOUS
    <2>3. MaxReplies - k \in T
        OBVIOUS
    <2> QED BY <1>0, <2>1, <2>3
<1>3. \E x \in T : \A y \in T : ~ (<<y, x>> \in R)
    <2> HIDE DEF T, R
    <2> QED BY <1>2, NatLessThanWellFounded, WFMin DEF R
<1>4. PICK x \in T : \A y \in T : ~ (<<y, x>> \in R)
    BY <1>3
<1>5. \A y \in T : ~ (y < x)
    BY <1>2, <1>4 DEF OpToRel
<1>6. PICK n \in S : x = MaxReplies - n
    OBVIOUS
<1>7. \A k \in S : k <= n
    <2> SUFFICES ASSUME NEW k \in S PROVE k <= n
        OBVIOUS
    <2>1. ~ (MaxReplies - k < MaxReplies - n)
        BY <1>5, <1>6
    <2> QED BY <1>0, <1>1, <2>1
<1> QED
    BY <1>7 DEF Greatest

\* A poll's query returns rows of its visitor above the cursor, no more than a page
\* of them, and with a row every lower one.
LEMMA SinceIsPrefix ==
    ASSUME table \in Seq(Rows), NEW biz, NEW session, NEW since \in 0..MaxReplies
    PROVE  /\ Since(biz, session, since) \in SUBSET Ids
           /\ Cardinality(Since(biz, session, since)) <= PageLimit
           /\ \A i \in Since(biz, session, since) :
                 \E n \in DOMAIN table : /\ table[n].id = i /\ i > since
                                       /\ table[n].biz = biz /\ table[n].session = session
           /\ \A i \in Since(biz, session, since) : \A n \in DOMAIN table :
                 /\ table[n].biz = biz /\ table[n].session = session
                 /\ since < table[n].id /\ table[n].id <= i
                 => table[n].id \in Since(biz, session, since)
<1> DEFINE found == {r.id : r \in {s \in Range(table) : /\ s.biz = biz
                                                       /\ s.session = session
                                                       /\ s.id > since}}
<1> DEFINE below(i) == {j \in found : j < i}
<1> DEFINE page == {i \in found : Cardinality(below(i)) < PageLimit}
<1>1. Since(biz, session, since) = page
    BY DEF Since
<1>below. \A i : \A j : j \in below(i) <=> j \in found /\ j < i
    OBVIOUS
<1>page. \A i : i \in page <=> i \in found /\ Cardinality(below(i)) < PageLimit
    OBVIOUS
<1> HIDE DEF page, below
<1>2. MaxReplies \in Nat /\ PageLimit \in Nat \ {0}
    BY BoundsAssumption, PageLimitAssumption
<1>3. \A n \in DOMAIN table : table[n] \in Rows /\ table[n].id \in Ids
    <2>1. \A n \in DOMAIN table : table[n] \in Rows
        OBVIOUS
    <2>2. \A r \in Rows : r.id \in Ids
        BY DEF Rows
    <2> HIDE DEF found
    <2> QED BY <2>1, <2>2
<1>4. \A i \in found : \E n \in DOMAIN table : /\ table[n].id = i /\ i > since
                                              /\ table[n].biz = biz /\ table[n].session = session
    BY DEF Range
<1>5. \A n \in DOMAIN table :
          table[n].biz = biz /\ table[n].session = session /\ table[n].id > since
          => table[n].id \in found
    BY DEF Range
<1>6. found \subseteq Ids
    <2> SUFFICES ASSUME NEW i \in found PROVE i \in Ids
        OBVIOUS
    <2> HIDE DEF found
    <2> QED BY <1>3, <1>4
<1> HIDE DEF found
<1>7. Ids \subseteq Int /\ IsFiniteSet(Ids)
    BY <1>2, FS_Interval DEF Ids
<1>int. \A k \in found : k \in Int /\ 0 <= k /\ k <= MaxReplies
    <2>1. \A k \in Ids : k \in Int /\ 0 <= k /\ k <= MaxReplies
        BY <1>2 DEF Ids
    <2> QED BY <1>6, <2>1
<1>8. IsFiniteSet(found)
    BY <1>6, <1>7, FS_Subset
<1>9. ASSUME NEW i PROVE IsFiniteSet(below(i)) /\ Cardinality(below(i)) \in Nat
    <2>1. below(i) \subseteq found
        BY <1>below
    <2> QED BY <1>8, <2>1, FS_Subset, FS_CardinalityType
<1>10. ASSUME NEW i \in page, NEW j \in found, j <= i PROVE j \in page
    <2>1. \A k \in found : k < j => k < i
        BY <1>int, <1>10, <1>page
    <2>2. below(j) \subseteq below(i)
        BY <1>below, <2>1
    <2>3. Cardinality(below(j)) <= Cardinality(below(i))
        BY <1>9, <2>2, FS_Subset
    <2> QED BY <1>2, <1>9, <1>page, <2>3
<1>11. IsFiniteSet(page) /\ Cardinality(page) <= PageLimit
    <2>1. IsFiniteSet(page) /\ Cardinality(page) \in Nat
        <3>1. page \subseteq found
            BY <1>page
        <3> QED BY <1>8, <3>1, FS_Subset, FS_CardinalityType
    <2>2. CASE page = {}
        BY <1>2, <2>2, FS_EmptySet
    <2>3. CASE page # {}
        <3> DEFINE g == Greatest(page)
        <3>1. g \in page /\ \A k \in page : k <= g
            <4>1. page \in SUBSET (0..MaxReplies)
                BY <1>int, <1>2, <1>page
            <4> QED BY <2>3, <4>1, GreatestExists
        <3> HIDE DEF g
        <3>2. page \ {g} \subseteq below(g)
            BY <1>int, <1>page, <1>below, <3>1
        <3>3. Cardinality(below(g)) < PageLimit
            BY <1>page, <3>1
        <3>4. Cardinality(page \ {g}) <= Cardinality(below(g))
            BY <1>9, <3>2, FS_Subset
        <3>5. Cardinality(page \ {g}) = Cardinality(page) - 1
            BY <2>1, <3>1, FS_RemoveElement
        <3> QED BY <1>2, <1>9, <2>1, <3>3, <3>4, <3>5
    <2> QED BY <2>2, <2>3
<1>12. \A i \in page : i \in found
    BY <1>page
<1>13. page \in SUBSET Ids
    BY <1>6, <1>12
<1>14. \A i \in page : \A n \in DOMAIN table :
          /\ table[n].biz = biz /\ table[n].session = session
          /\ since < table[n].id /\ table[n].id <= i
          => table[n].id \in page
    <2> SUFFICES ASSUME NEW i \in page, NEW n \in DOMAIN table,
                        table[n].biz = biz, table[n].session = session,
                        since < table[n].id, table[n].id <= i
                 PROVE  table[n].id \in page
        OBVIOUS
    <2>1. table[n].id \in found
        BY <1>3, <1>5, <1>7
    <2> QED BY <1>10, <2>1
<1> QED
    BY <1>1, <1>4, <1>11, <1>12, <1>13, <1>14

-----------------------------------------------------------------------------
(* The inductive invariant. *)

CommittedFor(p, id) == \E n \in DOMAIN table : Own(p, table[n]) /\ table[n].id = id

\* Ids are drawn in order and used once.
IdInv ==
    /\ \A r \in inserting : r.id < nextId
    /\ \A n \in DOMAIN table : table[n].id < nextId
    /\ \A r, s \in inserting : r.id = s.id => r = s
    /\ \A r \in inserting, n \in DOMAIN table : r.id # table[n].id

\* ThreadMatchesCursor for one page, and its cursor is a reply it has shown.
PageInv(p) ==
    /\ \A id \in Shown(p) : CommittedFor(p, id) /\ id <= cursor[p]
    /\ \A n \in DOMAIN table :
          Own(p, table[n]) /\ table[n].id <= cursor[p] /\ ~Overtaken(n)
          => table[n].id \in Shown(p)
    /\ cursor[p] = 0 \/ cursor[p] \in Shown(p)

\* A poll was asked at or below the page's cursor; its answer has no gap but for
\* rows that commit after a greater one.
PollInv(p, q) ==
    /\ q.at # "free" => q.since <= cursor[p]
    /\ q.at = "answered" =>
          /\ \A f \in q.found : CommittedFor(p, f) /\ q.since < f
          /\ \A f \in q.found, n \in DOMAIN table :
                /\ Own(p, table[n]) /\ ~Overtaken(n)
                /\ q.since < table[n].id /\ table[n].id <= f
                => table[n].id \in q.found

Inv ==
    /\ TypeOK
    /\ IdInv
    /\ \A p \in Pages : PageInv(p)
    /\ \A p \in Pages, i \in Slots : PollInv(p, polls[p][i])

LEMMA InvInit == Init => Inv
<1> SUFFICES ASSUME Init PROVE Inv
    OBVIOUS
<1> USE DEF Init, Free
<1>0. MaxReplies \in Nat /\ MaxReloads \in Nat /\ PageLimit \in Nat
    BY BoundsAssumption, PageLimitAssumption
<1>1. TypeOK
    <2>1. Cardinality({}) <= PageLimit
        BY <1>0, FS_EmptySet
    <2>2. Free \in PollState
        BY <1>0 DEF PollState
    <2>3. polls \in [Pages -> [Slots -> PollState]]
        BY <2>2
    <2>4. /\ \A p \in Pages, i \in Slots : polls[p][i].found = {}
          /\ cursor \in [Pages -> 0..MaxReplies]
          /\ thread \in [Pages -> SUBSET Ids] /\ cleared \in [Pages -> SUBSET Ids]
          /\ table \in Seq(Rows)
          /\ nextId \in 1..(MaxReplies + 1) /\ reloads \in 0..MaxReloads
          /\ inserting \subseteq Rows /\ open \subseteq Pages
        BY <1>0
    <2> HIDE DEF Init
    <2> QED BY <2>1, <2>3, <2>4 DEF TypeOK
<1>2. IdInv
    BY DEF IdInv
<1>3. \A p \in Pages : PageInv(p)
    BY DEF PageInv, Shown
<1>4. \A p \in Pages, i \in Slots : PollInv(p, polls[p][i])
    BY DEF PollInv
<1> QED BY <1>1, <1>2, <1>3, <1>4 DEF Inv

\* What the types say of ids, as integers.
LEMMA Integral ==
    ASSUME TypeOK
    PROVE  /\ MaxReplies \in Nat /\ MaxReloads \in Nat /\ PageLimit \in Nat
           /\ nextId \in Int
           /\ \A k \in Ids : k \in Int /\ 1 <= k /\ k <= MaxReplies
           /\ \A k \in 0..MaxReplies : k \in Int /\ 0 <= k /\ k <= MaxReplies
           /\ \A r \in inserting : r \in Rows /\ r.id \in Ids
           /\ \A n \in DOMAIN table : table[n] \in Rows /\ table[n].id \in Ids
           /\ \A p \in Pages : cursor[p] \in 0..MaxReplies /\ Shown(p) \subseteq Ids
           /\ \A p \in Pages, i \in Slots : /\ polls[p][i] \in PollState
                                            /\ polls[p][i].since \in 0..MaxReplies
                                            /\ polls[p][i].found \subseteq Ids
<1>1. MaxReplies \in Nat /\ MaxReloads \in Nat /\ PageLimit \in Nat
    BY BoundsAssumption, PageLimitAssumption
<1>2. /\ \A k \in Ids : k \in Int /\ 1 <= k /\ k <= MaxReplies
      /\ \A k \in 0..MaxReplies : k \in Int /\ 0 <= k /\ k <= MaxReplies
    BY <1>1 DEF Ids
<1>3. \A r \in Rows : r.id \in Ids
    BY DEF Rows
<1>4. \A r \in inserting : r \in Rows
    BY DEF TypeOK
<1>5. \A n \in DOMAIN table : table[n] \in Rows
    <2>1. table \in Seq(Rows)
        BY DEF TypeOK
    <2> QED BY <2>1
<1>6. \A q \in PollState : q.since \in 0..MaxReplies /\ q.found \subseteq Ids
    BY DEF PollState
<1>7. \A p \in Pages, i \in Slots : polls[p][i] \in PollState
    BY DEF TypeOK
<1>8. /\ nextId \in Int
      /\ \A p \in Pages : cursor[p] \in 0..MaxReplies /\ Shown(p) \subseteq Ids
    BY <1>1 DEF TypeOK, Shown
<1> QED BY <1>1, <1>2, <1>3, <1>4, <1>5, <1>6, <1>7, <1>8

\* What the server does before a commit is not seen by any page.
LEMMA AddStep ==
    ASSUME Inv, NEW s \in Askers, Add(s)
    PROVE  Inv'
<1> USE DEF Add, client
<1>1. TypeOK /\ IdInv
    BY DEF Inv
<1>2. Stored(s) \in Rows /\ Stored(s).id = nextId
    BY DEF Stored, Rows
<1>3. TypeOK'
    <2>1. nextId' \in 1..(MaxReplies + 1)
        BY <1>1, Integral
    <2>2. (inserting \subseteq Rows)'
        BY <1>1, <1>2 DEF TypeOK
    <2> QED BY <1>1, <2>1, <2>2 DEF TypeOK
<1>4. IdInv'
    <2>1. \A r \in inserting : r.id \in Int /\ r.id < nextId
        BY <1>1, Integral DEF IdInv
    <2>2. \A n \in DOMAIN table : table[n].id \in Int /\ table[n].id < nextId
        BY <1>1, Integral DEF IdInv
    <2>3. nextId \in Int
        BY <1>1, Integral
    <2>4. \A r \in inserting' : r \in inserting \/ r = Stored(s)
        OBVIOUS
    <2> HIDE DEF Add
    <2>5. nextId' = nextId + 1 /\ table' = table
        BY DEF Add
    <2>6. \A r \in inserting' : r.id < nextId'
        BY <1>2, <2>1, <2>3, <2>4, <2>5
    <2>7. \A n \in DOMAIN table' : table'[n].id < nextId'
        BY <2>2, <2>3, <2>5
    <2>8. \A r, t \in inserting' : r.id = t.id => r = t
        BY <1>1, <1>2, <2>1, <2>3, <2>4 DEF IdInv
    <2>9. \A r \in inserting', n \in DOMAIN table' : r.id # table'[n].id
        BY <1>1, <1>2, <2>2, <2>3, <2>4, <2>5 DEF IdInv
    <2> QED BY <2>6, <2>7, <2>8, <2>9 DEF IdInv
<1>5. (\A p \in Pages : PageInv(p))'
    BY DEF Inv, PageInv, Shown, CommittedFor, Overtaken
<1>6. (\A p \in Pages, i \in Slots : PollInv(p, polls[p][i]))'
    BY DEF Inv, PollInv, CommittedFor, Overtaken
<1> QED BY <1>3, <1>4, <1>5, <1>6 DEF Inv

LEMMA RollbackStep ==
    ASSUME Inv, NEW row \in inserting, Rollback(row)
    PROVE  Inv'
<1> USE DEF Rollback, client
<1>1. TypeOK'
    BY DEF Inv, TypeOK
<1>2. IdInv'
    BY DEF Inv, IdInv
<1>3. (\A p \in Pages : PageInv(p))'
    BY DEF Inv, PageInv, Shown, CommittedFor, Overtaken
<1>4. (\A p \in Pages, i \in Slots : PollInv(p, polls[p][i]))'
    BY DEF Inv, PollInv, CommittedFor, Overtaken
<1> QED BY <1>1, <1>2, <1>3, <1>4 DEF Inv

\* A row that commits below a page's cursor, or inside an answer, has been overtaken.
LEMMA CommitStep ==
    ASSUME Inv, NEW row \in inserting, Commit(row)
    PROVE  Inv'
<1>1. TypeOK /\ IdInv
    BY DEF Inv
<1>2. /\ table' = Append(table, row) /\ inserting' = inserting \ {row}
      /\ UNCHANGED <<nextId, open, cursor, thread, cleared, polls, reloads>>
    BY DEF Commit, client
<1>3. row \in Rows /\ table \in Seq(Rows) /\ row.id \in Ids
    BY <1>1, Integral DEF TypeOK
<1> PICK L : L = Len(table)
    OBVIOUS
<1>4. /\ L \in Nat /\ DOMAIN table = 1..L /\ DOMAIN table' = 1..(L + 1)
      /\ \A n \in DOMAIN table : table'[n] = table[n]
      /\ table'[L + 1] = row
      /\ table' \in Seq(Rows)
    BY <1>2, <1>3
<1>5. \A n \in DOMAIN table' : n \in DOMAIN table \/ n = L + 1
    BY <1>4
<1>6. \A n \in DOMAIN table : n \in DOMAIN table'
    BY <1>4
<1>7. \A p, id : CommittedFor(p, id) => CommittedFor(p, id)'
    BY <1>4, <1>6 DEF CommittedFor, Own
<1>8. \A n \in DOMAIN table : Overtaken(n) => Overtaken(n)'
    <2> SUFFICES ASSUME NEW n \in DOMAIN table, Overtaken(n) PROVE Overtaken(n)'
        OBVIOUS
    <2>1. PICK k \in 1..(n - 1) : /\ table[k].id > table[n].id
                                 /\ table[k].biz = table[n].biz
                                 /\ table[k].session = table[n].session
        BY DEF Overtaken
    <2>2. k \in DOMAIN table
        BY <1>4
    <2>3. table'[k] = table[k] /\ table'[n] = table[n]
        BY <1>4, <2>2
    <2> QED BY <2>1, <2>3 DEF Overtaken
<1>9. ASSUME NEW p \in Pages, NEW id \in Ids, CommittedFor(p, id), Own(p, row), row.id <= id
      PROVE  Overtaken(L + 1)'
    <2>1. PICK k \in DOMAIN table : Own(p, table[k]) /\ table[k].id = id
        BY <1>9 DEF CommittedFor
    <2>2. table[k].id # row.id
        BY <1>1 DEF IdInv
    <2>3. table[k].id > row.id
        BY <1>1, <1>3, <1>9, <2>1, <2>2, Integral
    <2>4. k \in 1..((L + 1) - 1) /\ table'[k] = table[k] /\ table'[L + 1] = row
        BY <1>4
    <2>5. table[k].biz = row.biz /\ table[k].session = row.session
        BY <1>9, <2>1 DEF Own
    <2> QED BY <2>3, <2>4, <2>5 DEF Overtaken
<1>10. TypeOK'
    BY <1>1, <1>2, <1>4 DEF TypeOK
<1>11. IdInv'
    <2>1. \A n \in DOMAIN table' : table'[n].id < nextId'
        BY <1>1, <1>2, <1>4, <1>5 DEF IdInv
    <2>2. \A r \in inserting', n \in DOMAIN table' : r.id # table'[n].id
        BY <1>1, <1>2, <1>4, <1>5 DEF IdInv
    <2>3. /\ \A r \in inserting' : r.id < nextId'
          /\ \A r, t \in inserting' : r.id = t.id => r = t
        BY <1>1, <1>2 DEF IdInv
    <2> QED BY <2>1, <2>2, <2>3 DEF IdInv
<1>12. ASSUME NEW p \in Pages PROVE PageInv(p)'
    <2>1. PageInv(p) /\ Shown(p)' = Shown(p) /\ cursor'[p] = cursor[p]
        BY <1>2 DEF Inv, Shown
    <2>2. \A id \in Shown(p)' : CommittedFor(p, id)' /\ id <= cursor'[p]
        BY <1>7, <2>1 DEF PageInv
    <2>3. ASSUME NEW n \in DOMAIN table', Own(p, table'[n]), table'[n].id <= cursor'[p],
                 ~Overtaken(n)'
          PROVE  table'[n].id \in Shown(p)'
        <3>1. CASE n \in DOMAIN table
            BY <1>4, <1>8, <2>1, <2>3, <3>1 DEF PageInv
        <3>2. CASE n = L + 1
            <4>1. row.id <= cursor[p] /\ Own(p, row)
                BY <1>4, <2>1, <2>3, <3>2
            <4>2. cursor[p] # 0
                BY <1>1, <1>3, <4>1, Integral
            <4>3. cursor[p] \in Ids /\ CommittedFor(p, cursor[p])
                BY <1>1, <2>1, <4>2, Integral DEF PageInv
            <4> QED BY <1>9, <2>3, <3>2, <4>1, <4>3
        <3> QED BY <1>5, <3>1, <3>2
    <2>4. cursor'[p] = 0 \/ cursor'[p] \in Shown(p)'
        BY <2>1 DEF PageInv
    <2>5. \A n \in DOMAIN table' :
              (Own(p, table[n]))' /\ table'[n].id <= cursor'[p] /\ ~Overtaken(n)'
              => table'[n].id \in Shown(p)'
        BY <2>3 DEF Own
    <2> QED BY <2>2, <2>4, <2>5 DEF PageInv
<1>13. ASSUME NEW p \in Pages, NEW i \in Slots PROVE PollInv(p, polls[p][i])'
    <2> DEFINE q == polls[p][i]
    <2>1. PollInv(p, q) /\ q' = q /\ cursor'[p] = cursor[p]
        BY <1>2 DEF Inv
    <2>0. q.found \subseteq Ids
        BY <1>1, Integral
    <2> HIDE DEF q
    <2>2. ASSUME q.at = "answered", NEW f \in q.found, NEW n \in DOMAIN table',
                 Own(p, table'[n]), ~Overtaken(n)', q.since < table'[n].id, table'[n].id <= f
          PROVE  table'[n].id \in q.found
        <3>1. CASE n \in DOMAIN table
            BY <1>4, <1>8, <2>1, <2>2, <3>1 DEF PollInv
        <3>2. CASE n = L + 1
            <4>1. f \in Ids /\ CommittedFor(p, f)
                BY <2>0, <2>1, <2>2 DEF PollInv
            <4> QED BY <1>4, <1>9, <2>2, <3>2, <4>1
        <3> QED BY <1>5, <3>1, <3>2
    <2>3. q.at = "answered" => \A f \in q.found : CommittedFor(p, f)' /\ q.since < f
        BY <1>7, <2>1 DEF PollInv
    <2>4. q.at # "free" => q.since <= cursor[p]
        BY <2>1 DEF PollInv
    <2>5. PollInv(p, q)'
        BY <2>1, <2>2, <2>3, <2>4 DEF PollInv, Own
    <2> QED BY <2>5 DEF q
<1> QED BY <1>10, <1>11, <1>12, <1>13 DEF Inv

LEMMA ToggleStep ==
    ASSUME Inv, NEW p \in Pages, Toggle(p)
    PROVE  Inv'
<1> USE DEF Toggle, server
<1>1. TypeOK'
    BY DEF Inv, TypeOK
<1>2. IdInv'
    BY DEF Inv, IdInv
<1>3. (\A k \in Pages : PageInv(k))'
    BY DEF Inv, PageInv, Shown, CommittedFor, Overtaken
<1>4. (\A k \in Pages, i \in Slots : PollInv(k, polls[k][i]))'
    BY DEF Inv, PollInv, CommittedFor, Overtaken
<1> QED BY <1>1, <1>2, <1>3, <1>4 DEF Inv

\* A step that changes one poll and no page.
LEMMA SlotStep ==
    ASSUME Inv, UNCHANGED <<open, cursor, thread, cleared, reloads, server>>,
           NEW p \in Pages, NEW i \in Slots, NEW q \in PollState,
           polls' = [polls EXCEPT ![p][i] = q],
           Cardinality(q.found) <= PageLimit, PollInv(p, q)
    PROVE  Inv'
<1> USE DEF server
<1>0. TypeOK
    BY DEF Inv
<1>1. \A k \in Pages, j \in Slots : polls'[k][j] = q \/ polls'[k][j] = polls[k][j]
    BY <1>0 DEF TypeOK
<1>2. \A k \in Pages, j \in Slots : polls'[k][j] # polls[k][j] => k = p /\ polls'[k][j] = q
    BY <1>0 DEF TypeOK
<1>3. TypeOK'
    <2>1. polls' \in [Pages -> [Slots -> PollState]]
        BY <1>0 DEF TypeOK
    <2>2. \A k \in Pages, j \in Slots : Cardinality(polls'[k][j].found) <= PageLimit
        BY <1>0, <1>1 DEF TypeOK
    <2> QED BY <1>0, <2>1, <2>2 DEF TypeOK
<1>4. IdInv'
    BY DEF Inv, IdInv
<1>5. (\A k \in Pages : PageInv(k))'
    BY DEF Inv, PageInv, Shown, CommittedFor, Overtaken
<1>6. ASSUME NEW k \in Pages, NEW j \in Slots PROVE PollInv(k, polls[k][j])'
    <2> PICK x : x = polls'[k][j]
        OBVIOUS
    <2>1. PollInv(k, x)
        BY <1>2 DEF Inv
    <2>2. PollInv(k, x)'
        BY <2>1 DEF PollInv, CommittedFor, Overtaken
    <2> QED BY <2>2 DEF PollInv
<1> QED BY <1>3, <1>4, <1>5, <1>6 DEF Inv

LEMMA PollStep ==
    ASSUME Inv, NEW p \in Pages, Poll(p)
    PROVE  Inv'
<1>0. TypeOK
    BY DEF Inv
<1>1. PICK i \in Slots : polls' = [polls EXCEPT ![p][i] = [at |-> "sent", since |-> cursor[p],
                                                        found |-> {}]]
    BY DEF Poll
<1> PICK q : q = [at |-> "sent", since |-> cursor[p], found |-> {}]
    OBVIOUS
<1>2. q \in PollState
    BY <1>0, Integral DEF PollState
<1>3. Cardinality(q.found) <= PageLimit
    BY <1>0, Integral, FS_EmptySet
<1>4. PollInv(p, q)
    BY <1>0, Integral DEF PollInv
<1>5. UNCHANGED <<open, cursor, thread, cleared, reloads, server>>
    BY DEF Poll
<1> QED BY <1>1, <1>2, <1>3, <1>4, <1>5, SlotStep

LEMMA PollFailsStep ==
    ASSUME Inv, NEW p \in Pages, NEW i \in Slots, PollFails(p, i)
    PROVE  Inv'
<1>0. TypeOK
    BY DEF Inv
<1>1. Free \in PollState
    BY <1>0, Integral DEF PollState, Free
<1>2. Cardinality(Free.found) <= PageLimit
    BY <1>0, Integral, FS_EmptySet DEF Free
<1>3. PollInv(p, Free)
    BY DEF PollInv, Free
<1>4. /\ polls' = [polls EXCEPT ![p][i] = Free]
      /\ UNCHANGED <<open, cursor, thread, cleared, reloads, server>>
    BY DEF PollFails
<1> QED BY <1>1, <1>2, <1>3, <1>4, SlotStep

LEMMA AnswerStep ==
    ASSUME Inv, NEW p \in Pages, NEW i \in Slots, Answer(p, i)
    PROVE  Inv'
<1>0. TypeOK
    BY DEF Inv
<1> PICK since : since = polls[p][i].since
    OBVIOUS
<1> PICK page : page = Since(p.biz, p.session, since)
    OBVIOUS
<1> PICK q : q = [at |-> "answered", since |-> since, found |-> page]
    OBVIOUS
<1>1. since \in 0..MaxReplies /\ table \in Seq(Rows) /\ polls[p][i] \in PollState
    BY <1>0, Integral DEF TypeOK
<1>2. /\ page \in SUBSET Ids
      /\ Cardinality(page) <= PageLimit
      /\ \A k \in page :
            \E n \in DOMAIN table : /\ table[n].id = k /\ k > since
                                  /\ table[n].biz = p.biz /\ table[n].session = p.session
      /\ \A k \in page : \A n \in DOMAIN table :
            /\ table[n].biz = p.biz /\ table[n].session = p.session
            /\ since < table[n].id /\ table[n].id <= k
            => table[n].id \in page
    BY <1>1, SinceIsPrefix
<1>3. polls' = [polls EXCEPT ![p][i] = q]
    BY DEF Answer
<1>4. q \in PollState
    BY <1>1, <1>2 DEF PollState
<1>5. Cardinality(q.found) <= PageLimit
    BY <1>2
<1>6. PollInv(p, q)
    <2>1. since <= cursor[p]
        <3>1. polls[p][i].at = "sent" /\ PollInv(p, polls[p][i])
            BY DEF Answer, Inv
        <3> QED BY <3>1 DEF PollInv
    <2>2. \A f \in page : CommittedFor(p, f) /\ since < f
        <3> SUFFICES ASSUME NEW f \in page PROVE CommittedFor(p, f) /\ since < f
            OBVIOUS
        <3>1. since \in Int /\ f \in Int
            BY <1>0, <1>1, <1>2, Integral
        <3> QED BY <1>2, <3>1 DEF CommittedFor, Own
    <2> QED BY <1>2, <2>1, <2>2 DEF PollInv, Own
<1>7. UNCHANGED <<open, cursor, thread, cleared, reloads, server>>
    BY DEF Answer
<1> QED BY <1>3, <1>4, <1>5, <1>6, <1>7, SlotStep

\* The page's new cursor is its old one or the greatest id of the answer; what lies
\* between is in the answer.
LEMMA ApplyStep ==
    ASSUME Inv, NEW p \in Pages, NEW i \in Slots, Apply(p, i)
    PROVE  Inv'
<1>0. TypeOK
    BY DEF Inv
<1> PICK found : found = polls[p][i].found
    OBVIOUS
<1> PICK c : c = cursor[p]
    OBVIOUS
<1> PICK d : d = Advanced(c, found)
    OBVIOUS
<1>1. found \subseteq Ids /\ c \in 0..MaxReplies /\ polls[p][i].since \in 0..MaxReplies
    BY <1>0, Integral
<1>2. d \in {c} \union found /\ \A k \in {c} \union found : k <= d
    <2>1. \A k \in {c} \union found : k \in 0..MaxReplies
        BY <1>0, <1>1, Integral
    <2>2. {c} \union found \in SUBSET (0..MaxReplies) /\ {c} \union found # {}
        BY <2>1
    <2>3. d = Greatest({c} \union found)
        BY DEF Advanced
    <2> QED BY <2>2, <2>3, GreatestExists
<1>3. /\ thread' = [thread EXCEPT ![p] = @ \union found]
      /\ cleared' = [cleared EXCEPT ![p] = @ \ found]
      /\ cursor' = [cursor EXCEPT ![p] = d]
      /\ polls' = [polls EXCEPT ![p][i] = Free]
      /\ UNCHANGED <<open, reloads, nextId, inserting, table>>
    BY DEF Apply, server
<1>4. /\ Shown(p)' = Shown(p) \union found /\ cursor'[p] = d
      /\ \A k \in Pages : k # p => /\ Shown(k)' = Shown(k) /\ cursor'[k] = cursor[k]
      /\ \A k \in Pages, j \in Slots : polls'[k][j] = Free \/ polls'[k][j] = polls[k][j]
    BY <1>0, <1>3 DEF TypeOK, Shown
<1>5. c \in Int /\ d \in Int /\ d \in 0..MaxReplies /\ c <= d
    BY <1>0, <1>1, <1>2, Integral
<1>6. TypeOK'
    <2>1. Free \in PollState /\ Cardinality(Free.found) <= PageLimit
        BY <1>0, Integral, FS_EmptySet DEF PollState, Free
    <2>2. polls' \in [Pages -> [Slots -> PollState]]
        BY <1>0, <1>3, <2>1 DEF TypeOK
    <2>3. \A k \in Pages, j \in Slots : Cardinality(polls'[k][j].found) <= PageLimit
        BY <1>0, <1>4, <2>1 DEF TypeOK
    <2>4. /\ thread' \in [Pages -> SUBSET Ids] /\ cleared' \in [Pages -> SUBSET Ids]
          /\ cursor' \in [Pages -> 0..MaxReplies]
        BY <1>0, <1>1, <1>3, <1>5 DEF TypeOK
    <2> QED BY <1>0, <1>3, <2>2, <2>3, <2>4 DEF TypeOK
<1>7. IdInv'
    BY <1>3 DEF Inv, IdInv
<1>8. ASSUME NEW k \in Pages PROVE PageInv(k)'
    <2>0. PageInv(k)
        BY DEF Inv
    <2>1. CASE k # p
        BY <1>3, <1>4, <2>0, <2>1 DEF PageInv, CommittedFor, Overtaken
    <2>2. CASE k = p
        <3>1. /\ \A f \in found : CommittedFor(p, f)
              /\ polls[p][i].since <= c
              /\ \A f \in found, n \in DOMAIN table :
                    /\ Own(p, table[n]) /\ ~Overtaken(n)
                    /\ polls[p][i].since < table[n].id /\ table[n].id <= f
                    => table[n].id \in found
            <4>1. polls[p][i].at = "answered" /\ PollInv(p, polls[p][i])
                BY DEF Apply, Inv
            <4> QED BY <4>1 DEF PollInv
        <3>2. ASSUME NEW id \in Shown(p)' PROVE CommittedFor(p, id)' /\ id <= cursor'[p]
            <4>1. CommittedFor(p, id) /\ id \in Int /\ (id <= c \/ id \in found)
                BY <1>0, <1>1, <1>4, <2>0, <2>2, <3>1, <3>2, Integral DEF PageInv
            <4>2. id <= d
                BY <1>2, <1>5, <4>1
            <4> QED BY <1>3, <1>4, <4>1, <4>2 DEF CommittedFor
        <3>3. ASSUME NEW n \in DOMAIN table, Own(p, table[n]), ~Overtaken(n), table[n].id <= d
              PROVE  table[n].id \in Shown(p)'
            <4>0. table[n].id \in Int /\ polls[p][i].since \in Int
                BY <1>0, <1>1, Integral
            <4>1. CASE table[n].id <= c
                BY <1>4, <2>0, <2>2, <3>3, <4>1 DEF PageInv
            <4>2. CASE ~(table[n].id <= c)
                <5>1. d # c /\ d \in found
                    BY <1>2, <3>3, <4>2
                <5>2. polls[p][i].since < table[n].id
                    BY <1>5, <3>1, <4>0, <4>2
                <5> QED BY <1>4, <3>1, <3>3, <5>1, <5>2
            <4> QED BY <4>1, <4>2
        <3>4. cursor'[p] = 0 \/ cursor'[p] \in Shown(p)'
            BY <1>2, <1>4, <2>0, <2>2 DEF PageInv
        <3>5. \A n \in DOMAIN table' :
                  Own(p, table[n])' /\ table'[n].id <= cursor'[p] /\ ~Overtaken(n)'
                  => table'[n].id \in Shown(p)'
            BY <1>3, <1>4, <3>3 DEF Own, Overtaken
        <3> QED BY <2>2, <3>2, <3>4, <3>5 DEF PageInv
    <2> QED BY <2>1, <2>2
<1>9. ASSUME NEW k \in Pages, NEW j \in Slots PROVE PollInv(k, polls[k][j])'
    <2> PICK x : x = polls'[k][j]
        OBVIOUS
    <2>1. cursor[k] <= cursor'[k] /\ cursor[k] \in Int /\ cursor'[k] \in Int
        BY <1>0, <1>4, <1>5, Integral
    <2>2. CASE x = Free
        BY <2>2 DEF PollInv, Free
    <2>3. CASE x = polls[k][j]
        <3>1. PollInv(k, x) /\ x.since \in Int
            BY <1>0, <2>3, Integral DEF Inv
        <3>2. PollInv(k, x)'
            BY <1>3, <2>1, <3>1 DEF PollInv, CommittedFor, Overtaken
        <3> QED BY <3>2 DEF PollInv
    <2> QED BY <1>4, <2>2, <2>3
<1> QED BY <1>6, <1>7, <1>8, <1>9 DEF Inv

\* A switch of the language moves what is on the screen to what has been.
LEMMA SwitchStep ==
    ASSUME Inv, NEW p \in Pages, SwitchLanguage(p)
    PROVE  Inv'
<1>0. TypeOK
    BY DEF Inv
<1>1. /\ thread' = [thread EXCEPT ![p] = {}]
      /\ cleared' = [cleared EXCEPT ![p] = @ \union thread[p]]
      /\ UNCHANGED <<open, cursor, polls, reloads, nextId, inserting, table>>
    BY DEF SwitchLanguage, server
<1>2. \A k \in Pages : Shown(k)' = Shown(k)
    BY <1>0, <1>1 DEF TypeOK, Shown
<1>3. TypeOK'
    BY <1>0, <1>1 DEF TypeOK
<1>4. IdInv'
    BY <1>1 DEF Inv, IdInv
<1>5. (\A k \in Pages : PageInv(k))'
    BY <1>1, <1>2 DEF Inv, PageInv, CommittedFor, Overtaken
<1>6. (\A k \in Pages, i \in Slots : PollInv(k, polls[k][i]))'
    BY <1>1 DEF Inv, PollInv, CommittedFor, Overtaken
<1> QED BY <1>3, <1>4, <1>5, <1>6 DEF Inv

LEMMA ReloadStep ==
    ASSUME Inv, NEW p \in Pages, Reload(p)
    PROVE  Inv'
<1>0. TypeOK
    BY DEF Inv
<1>1. /\ reloads < MaxReloads /\ reloads' = reloads + 1
      /\ open' = open \ {p}
      /\ cursor' = [cursor EXCEPT ![p] = 0]
      /\ thread' = [thread EXCEPT ![p] = {}]
      /\ cleared' = [cleared EXCEPT ![p] = {}]
      /\ polls' = [polls EXCEPT ![p] = [i \in Slots |-> Free]]
      /\ UNCHANGED <<nextId, inserting, table>>
    BY DEF Reload, server
<1>2. /\ cursor'[p] = 0 /\ Shown(p)' = {} /\ \A j \in Slots : polls'[p][j] = Free
      /\ \A k \in Pages : k # p => /\ cursor'[k] = cursor[k] /\ Shown(k)' = Shown(k)
                                  /\ polls'[k] = polls[k]
    BY <1>0, <1>1 DEF TypeOK, Shown
<1>3. TypeOK'
    <2>1. Free \in PollState /\ Cardinality(Free.found) <= PageLimit
        BY <1>0, Integral, FS_EmptySet DEF PollState, Free
    <2>2. polls' \in [Pages -> [Slots -> PollState]]
        BY <1>0, <1>1, <2>1 DEF TypeOK
    <2>3. \A k \in Pages, j \in Slots : Cardinality(polls'[k][j].found) <= PageLimit
        BY <1>0, <1>2, <2>1 DEF TypeOK
    <2>4. /\ 0 \in 0..MaxReplies /\ reloads' \in 0..MaxReloads
        BY <1>0, <1>1, Integral DEF TypeOK
    <2>5. /\ thread' \in [Pages -> SUBSET Ids] /\ cleared' \in [Pages -> SUBSET Ids]
          /\ cursor' \in [Pages -> 0..MaxReplies]
        BY <1>0, <1>1, <2>4 DEF TypeOK
    <2> QED BY <1>0, <1>1, <2>2, <2>3, <2>4, <2>5 DEF TypeOK
<1>4. IdInv'
    BY <1>1 DEF Inv, IdInv
<1>5. ASSUME NEW k \in Pages PROVE PageInv(k)'
    <2>1. PageInv(k)
        BY DEF Inv
    <2>2. CASE k # p
        BY <1>1, <1>2, <2>1, <2>2 DEF PageInv, CommittedFor, Overtaken
    <2>3. CASE k = p
        <3>1. \A n \in DOMAIN table : ~(table[n].id <= 0)
            BY <1>0, Integral
        <3> QED BY <1>1, <1>2, <2>3, <3>1 DEF PageInv
    <2> QED BY <2>2, <2>3
<1>6. ASSUME NEW k \in Pages, NEW j \in Slots PROVE PollInv(k, polls[k][j])'
    <2> PICK x : x = polls'[k][j]
        OBVIOUS
    <2>1. CASE k # p
        <3>1. PollInv(k, x)
            BY <1>2, <2>1 DEF Inv
        <3>2. PollInv(k, x)'
            BY <1>1, <1>2, <2>1, <3>1 DEF PollInv, CommittedFor, Overtaken
        <3> QED BY <3>2 DEF PollInv
    <2>2. CASE k = p
        BY <1>2, <2>2 DEF PollInv, Free
    <2> QED BY <2>1, <2>2
<1> QED BY <1>3, <1>4, <1>5, <1>6 DEF Inv

-----------------------------------------------------------------------------
LEMMA InvStep == Inv /\ [Next]_vars => Inv'
<1> SUFFICES ASSUME Inv, [Next]_vars PROVE Inv'
    OBVIOUS
<1>1. ASSUME NEW s \in Askers, Add(s) PROVE Inv'
    BY <1>1, AddStep
<1>2. ASSUME NEW p \in Pages, Toggle(p) PROVE Inv'
    BY <1>2, ToggleStep
<1>3. ASSUME NEW p \in Pages, Poll(p) PROVE Inv'
    BY <1>3, PollStep
<1>4. ASSUME NEW p \in Pages, Reload(p) PROVE Inv'
    BY <1>4, ReloadStep
<1>5. ASSUME NEW row \in inserting, Commit(row) PROVE Inv'
    BY <1>5, CommitStep
<1>6. ASSUME NEW row \in inserting, Rollback(row) PROVE Inv'
    BY <1>6, RollbackStep
<1>7. ASSUME NEW p \in Pages, NEW i \in Slots, Answer(p, i) PROVE Inv'
    BY <1>7, AnswerStep
<1>8. ASSUME NEW p \in Pages, NEW i \in Slots, Apply(p, i) PROVE Inv'
    BY <1>8, ApplyStep
<1>9. ASSUME NEW p \in Pages, NEW i \in Slots, PollFails(p, i) PROVE Inv'
    BY <1>9, PollFailsStep
<1>10. ASSUME NEW p \in Pages, SwitchLanguage(p) PROVE Inv'
    BY <1>10, SwitchStep
<1>11. CASE UNCHANGED vars
    BY <1>11 DEF Inv, TypeOK, IdInv, PageInv, Shown, PollInv, CommittedFor, Overtaken, vars
<1> QED
    BY <1>1, <1>2, <1>3, <1>4, <1>5, <1>6, <1>7, <1>8, <1>9, <1>10, <1>11 DEF Next

LEMMA InvCorrect == Spec => []Inv
    BY InvInit, InvStep, PTL DEF Spec

\* Rows, cursors, threads and polls have their types in every reachable state, and no
\* answer is longer than a page.
THEOREM TypeCorrect == Spec => []TypeOK
<1>1. Inv => TypeOK
    BY DEF Inv
<1> QED BY <1>1, InvCorrect, PTL

\* A page has always shown its visitor's replies up to its cursor and no other ones,
\* save those overtaken at their commit, and has them on its screen but for those a
\* switch of the language took off it (web_replies.go:35-42, widget.js:226-231, 286-290).
THEOREM ThreadCorrect == Spec => []ThreadMatchesCursor
<1>1. Inv => ThreadMatchesCursor
    <2> SUFFICES ASSUME Inv, NEW p \in Pages
                 PROVE  /\ Shown(p) \subseteq {table[n].id : n \in Passed(p)}
                        /\ \A n \in Passed(p) : ~Overtaken(n) => table[n].id \in Shown(p)
        BY DEF ThreadMatchesCursor
    <2>1. PageInv(p)
        BY DEF Inv
    <2> QED BY <2>1 DEF PageInv, CommittedFor, Passed
<1> QED BY <1>1, InvCorrect, PTL

\* The answer of a poll no other answer has overtaken repeats nothing the page
\* has shown since it was loaded.
THEOREM FreshCorrect == Spec => []FreshPollsAddNothingTwice
<1>1. Inv => FreshPollsAddNothingTwice
    <2> SUFFICES ASSUME Inv, NEW p \in Pages, NEW i \in Slots,
                        polls[p][i].at = "answered", polls[p][i].since = cursor[p],
                        NEW f \in polls[p][i].found \intersect Shown(p)
                 PROVE  FALSE
        BY DEF FreshPollsAddNothingTwice
    <2>1. f \in Int /\ cursor[p] \in Int
        BY Integral DEF Inv
    <2>2. cursor[p] < f
        BY DEF Inv, PollInv
    <2>3. f <= cursor[p]
        BY DEF Inv, PageInv
    <2> QED BY <2>1, <2>2, <2>3
<1> QED BY <1>1, InvCorrect, PTL
=============================================================================
