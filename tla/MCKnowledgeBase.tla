-------------------------- MODULE MCKnowledgeBase --------------------------
(* Small values for the constants of KnowledgeBase. *)
EXTENDS KnowledgeBase, TLC

One(x) == [multi |-> FALSE, single |-> x, byLang |-> [l \in {} |-> ""]]
Each(f) == [multi |-> TRUE, single |-> "", byLang |-> f]

\* One question in both languages, and one the "my" side of is not done yet.
Both == [cat |-> Each("en" :> "c1" @@ "my" :> "c1m"), q |-> Each("en" :> "q1" @@ "my" :> "q1m"),
         a |-> One("a"), lang |-> ""]
Half == [cat |-> One("c0"), q |-> Each("en" :> "q2" @@ "my" :> "q2m"), a |-> Each("en" :> "a"),
         lang |-> ""]
Flat == [cat |-> One("c0"), q |-> One("q1m"), a |-> One("a"), lang |-> "my"]

Empty == [cat |-> One("c0"), q |-> One(""), a |-> One("a"), lang |-> "en"]

\* A file of two languages, one of Myanmar with an English question left blank.
SomeFiles == {<<Both, Half>>, <<Empty, Flat>>}

\* The question the file has too.
SomeEdits == {[q |-> "q1m", a |-> "b", cat |-> "c0", lang |-> "my"]}

Old(id, b, l, q) == [id |-> id, biz |-> b, lang |-> l, q |-> q, a |-> "old", cat |-> "c1", emb |-> q]
SomePrior == {Old(1, 1, "en", "q1"), Old(2, 2, "my", "q1m")}
=============================================================================
